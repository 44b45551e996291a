------------------------ MODULE Exp3DeploymentProofs ------------------------
(***************************************************************************)
(* Theorems about server_epx3.c with the clients it is run with, for any   *)
(* number of connections, descriptors, rows and units, and any timeouts    *)
(* and sizes of the queue and the buffer.                                  *)
(***************************************************************************)
EXTENDS Exp3Deployment, Exp3StatsProofs

-----------------------------------------------------------------------------
(* What holds while the server runs, of who connects and of the roles of   *)
(* the descriptors, as long as no connection is ended for inactivity.      *)

Slots == {persistent_fd, non_persistent_fd} \ {NoFd}
Queued == {queue[i].fd : i \in 1 .. Len(queue)}

(* The persistent client comes first and leaves last.                      *)
PersistentFirst ==
    /\ peer[p1] = "new" => \A c \in Others : peer[c] = "new"
    /\ peer[p1] = "open" => Established(p1)
    /\ peer[p1] = "gone" => \A c \in Others : peer[c] = "gone" /\ ~Established(c)
    /\ \A i \in 1 .. Len(backlog) : backlog[i] = p1 => i = 1

(* Every open descriptor has one role; only those in the slots are watched *)
(* and have events; the first slot is the persistent connection's.         *)
Roles ==
    /\ OpenFds = Slots \cup Queued
    /\ Slots \cap Queued = {}
    /\ \A i, j \in 1 .. Len(queue) : queue[i].fd = queue[j].fd => i = j
    /\ registered = Slots
    /\ batch \subseteq Slots \cup {ListenFd}
    /\ persistent_fd # NoFd => persistent_fd # non_persistent_fd
    /\ non_persistent_fd = NoFd => queue = <<>>
    /\ \A f \in OpenFds : owner[f] = p1 <=> f = persistent_fd
    /\ active_clients = Cardinality(OpenFds)

Serving == EachOnce /\ PersistentFirst /\ Roles

Over ==
    /\ batch = {} /\ queue = <<>> /\ OpenFds = {}
    /\ persistent_fd # NoFd => persistent_fd # non_persistent_fd

RolesInv == IF pc = "exited" THEN Over ELSE Serving

(* ShortVisits: whoever is served or waits came less than a second ago.    *)
JustCome ==
    pc # "exited" /\ non_persistent_fd # NoFd =>
        np_age = 0 /\ \A i \in 1 .. Len(queue) : queue[i].age = 0

(* OneAtATime: a connection that waits for others to end finds them ended, *)
(* so nobody queues.                                                       *)
InTurn ==
    pc # "exited" =>
        /\ queue = <<>>
        /\ \A d \in Others : \A c \in Ended[d] :
                peer[d] # "new" => peer[c] = "gone" /\ ~Established(c)

(* What is waiting to be accepted has not been read, and nonper_bytes_read *)
(* is what has been read of the connection in the slot.                    *)
ReadSoFar ==
    pc # "exited" =>
        /\ \A c \in Conns : peer[c] = "new" => sent[c] = inbox[c]
        /\ \A i \in 1 .. Len(backlog) : sent[backlog[i]] = inbox[backlog[i]]
        /\ nonper_bytes_read = IF non_persistent_fd = NoFd THEN 0
                               ELSE sent[owner[non_persistent_fd]]
                                        - inbox[owner[non_persistent_fd]]

(* Whoever has been served for a second has been heard.                    *)
Heard == pc # "exited" /\ non_persistent_fd # NoFd /\ np_age > 0 => nonper_bytes_read > 0

(* A pair that has begun lacks one event of the other side.                *)
PairsInv ==
    /\ PairsWithinEvents
    /\ pick # NoFd => /\ peer[p1] # "new"
                      /\ \A i \in 1 .. Len(backlog) : backlog[i] # p1
    /\ persistent_fd # NoFd /\ pick # NoFd =>
            IF pick = persistent_fd THEN all.both < all.onlyP ELSE all.both < all.onlyNp

-----------------------------------------------------------------------------

(* The numbers that stand for no descriptor and for the listening one.     *)
LEMMA NoFdApart == NoFd \notin FDs /\ ListenFd \notin FDs /\ NoFd # ListenFd
BY SocketAssumption DEF NoFd, ListenFd, FDs

(* Who is in which place.                                                  *)
LEMMA WhoIsWhere ==
    ASSUME PersistentLasts, TypeInv, Serving
    PROVE  /\ persistent_fd # NoFd => persistent_fd \in OpenFds /\ owner[persistent_fd] = p1
           /\ non_persistent_fd # NoFd =>
                non_persistent_fd \in OpenFds /\ owner[non_persistent_fd] \in Others
           /\ \A i \in 1 .. Len(queue) :
                queue[i].fd \in OpenFds /\ owner[queue[i].fd] \in Others
           /\ \A e \in FDs : e \in batch => e \in Slots
           /\ \A f \in OpenFds : f \in FDs /\ owner[f] \in Conns
<1>1. /\ OpenFds = Slots \cup Queued /\ Slots \cap Queued = {}
      /\ persistent_fd # NoFd => persistent_fd # non_persistent_fd
      /\ \A f \in OpenFds : owner[f] = p1 <=> f = persistent_fd
      /\ batch \subseteq Slots \cup {ListenFd}
  BY DEF Serving, Roles
<1>2. \A f \in OpenFds : f \in FDs /\ owner[f] \in Conns
  BY DEF OpenFds, TypeInv, TypeOK, SocketTypeOK
<1>3. persistent_fd # NoFd => persistent_fd \in OpenFds /\ owner[persistent_fd] = p1
  BY <1>1 DEF Slots
<1>4. non_persistent_fd # NoFd =>
            non_persistent_fd \in OpenFds /\ owner[non_persistent_fd] \in Others
  BY <1>1, <1>2 DEF Slots, Others
<1>5. ASSUME NEW i \in 1 .. Len(queue)
      PROVE  queue[i].fd \in OpenFds /\ owner[queue[i].fd] \in Others
  <2>1. queue[i].fd \in Queued
    BY DEF Queued
  <2>2. queue[i] \in Waiting
    BY ElementOfSeq DEF TypeInv, TypeOK
  <2>3. queue[i].fd # NoFd
    BY <2>2, NoFdApart DEF Waiting
  <2>4. queue[i].fd # persistent_fd
    BY <1>1, <2>1, <2>3 DEF Slots
  <2> QED
    BY <1>1, <1>2, <2>1, <2>4 DEF Others
<1>6. \A e \in FDs : e \in batch => e \in Slots
  BY <1>1, NoFdApart
<1> QED
  BY <1>2, <1>3, <1>4, <1>5, <1>6

(* Whom the listening socket yields: per.c first, then non.c's connections. *)
LEMMA WhoComes ==
    ASSUME PersistentLasts, TypeInv, Serving, backlog # <<>>
    PROVE  /\ Head(backlog) = backlog[1] /\ 1 \in 1 .. Len(backlog)
           /\ persistent_fd = NoFd => Head(backlog) = p1
           /\ persistent_fd # NoFd => Head(backlog) \in Others
<1>1. Head(backlog) = backlog[1] /\ 1 \in 1 .. Len(backlog) /\ Head(backlog) \in Conns
  <2>1. backlog \in Seq(Conns)
    BY DEF TypeInv, TypeOK, SocketTypeOK
  <2>2. Len(backlog) \in Nat /\ Len(backlog) # 0
    BY <2>1, LenProperties, EmptySeq
  <2>3. 1 \in 1 .. Len(backlog)
    BY <2>2
  <2> QED
    BY <2>1, <2>3, HeadTailProperties
<1>2. p1 \in Conns /\ SocketTypeOK
  BY DEF PersistentLasts, TypeInv, TypeOK
<1>3. ASSUME persistent_fd = NoFd, Head(backlog) # p1 PROVE FALSE
  <2>1. Head(backlog) \in Others /\ peer[Head(backlog)] # "new" /\ Established(Head(backlog))
    BY <1>1, <1>2, <1>3, EstablishedWhere DEF Others, Serving, EachOnce
  <2>2. peer[p1] = "open" /\ Established(p1)
    BY <1>2, <2>1 DEF Serving, PersistentFirst, SocketTypeOK
  <2>3. \A f \in OpenFds : owner[f] # p1
    BY <1>3, NoFdApart DEF Serving, Roles, OpenFds
  <2>4. PICK i \in 1 .. Len(backlog) : backlog[i] = p1
    BY <1>2, <2>2, <2>3, EstablishedWhere
  <2> QED
    BY <1>1, <1>3, <2>4 DEF Serving, PersistentFirst
<1>4. ASSUME persistent_fd # NoFd PROVE Head(backlog) # p1
  BY <1>1, <1>4, WhoIsWhere DEF Serving, EachOnce
<1> QED
  BY <1>1, <1>3, <1>4 DEF Others

-----------------------------------------------------------------------------
(* What the server's steps come to in these conditions.                    *)

Opens(adding) ==
    /\ AcceptEvent /\ backlog # <<>>
    /\ AcceptAs(LowestFree, adding)
    /\ active_clients' = active_clients + 1

PersistentComes ==
    /\ AcceptPersistent /\ Opens({LowestFree}) /\ Head(backlog) = p1
OtherIsServed ==
    /\ AcceptNonPersistent /\ Opens({LowestFree}) /\ Head(backlog) \in Others
OtherWaits ==
    /\ AcceptQueued /\ Opens({}) /\ Head(backlog) \in Others
OtherIsTurnedAway ==
    /\ AcceptRejected /\ backlog # <<>> /\ Head(backlog) \in Others

HasEnded(e) == IsOpen(e) /\ inbox[owner[e]] = 0 /\ peer[owner[e]] = "gone"

PersistentEnds(e) ==
    /\ ClosePersistent(e) /\ CloseAndAdd({e}, {}) /\ HasEnded(e) /\ owner[e] = p1
    /\ StopTest
SlotEmpties(e) ==
    /\ CloseNonPersistent(e) /\ EndNobodyWaits(e) /\ HasEnded(e) /\ StopTest
SlotPasses(e) ==
    /\ CloseNonPersistent(e) /\ EndPromote(e) /\ HasEnded(e) /\ StopTest

Quiet == LoopTest \/ Second \/ TimeoutStop \/ Collect \/ AcceptFails \/ Signal
Read(e) == SpuriousEvent(e) \/ PersistentData(e) \/ NonPersistentData(e)
Ends(e) == PersistentEnds(e) \/ SlotEmpties(e) \/ SlotPasses(e)
Comes == PersistentComes \/ OtherIsServed \/ OtherWaits \/ OtherIsTurnedAway

(* No call fails.                                                          *)
LEMMA NothingFails ==
    ASSUME PersistentLasts, TypeInv
    PROVE  ~OutOfMemory
BY DEF PersistentLasts, TypeInv, TypeOK, OutOfMemory

(* An accepted connection takes the place that is free.                    *)
LEMMA AcceptSteps ==
    ASSUME PersistentLasts, TypeInv, Serving, AcceptStep
    PROVE  Comes \/ AcceptFails
<1>1. ~OutOfMemory
  BY NothingFails
<1>2. AcceptEvent => backlog # <<>>
  BY DEF AcceptEvent, Handle, TypeInv, BatchOK
<1>3. CASE AcceptPersistent
  BY <1>1, <1>2, <1>3, WhoComes DEF AcceptPersistent, Comes, PersistentComes, Opens
<1>4. CASE AcceptNonPersistent
  BY <1>1, <1>2, <1>4, WhoComes DEF AcceptNonPersistent, Comes, OtherIsServed, Opens
<1>5. CASE AcceptQueued
  BY <1>2, <1>5, WhoComes DEF AcceptQueued, BothActive, Comes, OtherWaits, Opens
<1>6. CASE AcceptRejected
  BY <1>2, <1>6, WhoComes DEF AcceptRejected, BothActive, Comes, OtherIsTurnedAway
<1> QED
  BY <1>3, <1>4, <1>5, <1>6 DEF AcceptStep

(* An event is on a connection in its slot, which is not taken for another. *)
LEMMA EventSteps ==
    ASSUME PersistentLasts, TypeInv, Serving, NEW e \in FDs, EventStep(e)
    PROVE  /\ ~MoveToSlot(e) /\ ~MoveToQueue(e) /\ ~RejectMisidentified(e)
           /\ ~UnclaimedData(e) /\ ~CloseOther(e)
           /\ ClosePersistent(e) => PersistentEnds(e)
           /\ CloseNonPersistent(e) => SlotEmpties(e) \/ SlotPasses(e)
           /\ Read(e) \/ Ends(e)
<1>1. e \in batch
  BY DEF EventStep, MoveToSlot, MoveToQueue, RejectMisidentified, PersistentData,
         NonPersistentData, UnclaimedData, SpuriousEvent, ClosePersistent,
         CloseNonPersistent, CloseOther, DataEvent, EndEvent, Handle
<1>2. e \in Slots /\ IsOpen(e) /\ e # NoFd /\ e \in {persistent_fd, non_persistent_fd}
  BY <1>1, WhoIsWhere DEF Slots, IsOpen
<1>3. e = persistent_fd => owner[e] = p1
  BY <1>2, WhoIsWhere
<1>4. ~Misidentified(e)
  BY <1>3 DEF Misidentified, PersistentLasts
<1>5. ~MoveToSlot(e) /\ ~MoveToQueue(e) /\ ~RejectMisidentified(e)
      /\ ~UnclaimedData(e) /\ ~CloseOther(e)
  BY <1>2, <1>4 DEF MoveToSlot, MoveToQueue, RejectMisidentified, UnclaimedData, CloseOther
<1>6. RecvEnds(e) => HasEnded(e)
  BY <1>2 DEF RecvEnds, IsDrained, HasEnded
<1>7. ASSUME ClosePersistent(e) PROVE PersistentEnds(e)
  BY <1>3, <1>6, <1>7 DEF ClosePersistent, EndEvent, PersistentEnds
<1>8. ASSUME CloseNonPersistent(e) PROVE SlotEmpties(e) \/ SlotPasses(e)
  <2>1. ASSUME queue # <<>> PROVE ~AddRefused(Head(queue).fd, e)
    <3>1. Head(queue) = queue[1] /\ 1 \in 1 .. Len(queue)
      <4>1. queue \in Seq(Waiting)
        BY DEF TypeInv, TypeOK
      <4>2. Len(queue) \in Nat /\ Len(queue) # 0
        BY <2>1, <4>1, LenProperties, EmptySeq
      <4> QED
        BY <2>1, <4>1, <4>2, HeadTailProperties
    <3>2. queue[1].fd \in OpenFds /\ queue[1].fd \in Queued
      BY <3>1, WhoIsWhere DEF Queued
    <3>3. queue[1].fd \notin Slots
      BY <3>2, Zenon DEF Serving, Roles
    <3>4. queue[1].fd \notin registered /\ queue[1].fd # e
      BY <1>2, <3>3 DEF Serving, Roles
    <3> QED
      BY <3>1, <3>2, <3>4 DEF AddRefused
  <2>2. ~EndPromoteFails(e)
    BY <2>1, NothingFails DEF EndPromoteFails
  <2> QED
    BY <1>6, <1>8, <2>2 DEF CloseNonPersistent, EndEvent, SlotEmpties, SlotPasses
<1>9. ASSUME PersistentData(e) \/ NonPersistentData(e) \/ SpuriousEvent(e) PROVE Read(e)
  BY <1>9 DEF Read
<1>10. Read(e) \/ Ends(e)
  <2>1. \/ PersistentData(e) \/ NonPersistentData(e) \/ SpuriousEvent(e)
        \/ ClosePersistent(e) \/ CloseNonPersistent(e)
    BY <1>5 DEF EventStep
  <2> QED
    BY <1>7, <1>8, <1>9, <2>1 DEF Ends
<1> QED
  BY <1>5, <1>7, <1>8, <1>10

(* Any step of the server or of a client, if nobody is ended as inactive.  *)
LEMMA Steps ==
    ASSUME PersistentLasts, TypeInv, Serving, [ServerNext]_serverVars, ~ReapInactive
    PROVE  \/ Quiet \/ Comes \/ Exit \/ UNCHANGED serverVars
           \/ \E e \in FDs : Read(e) \/ Ends(e)
           \/ \E c \in Conns : ClientStep(c)
<1>1. CASE WaitStep
  BY <1>1 DEF WaitStep, Quiet
<1>2. CASE AcceptStep
  BY <1>2, AcceptSteps DEF Quiet
<1>3. ASSUME NEW e \in FDs, EventStep(e) PROVE Read(e) \/ Ends(e)
  BY <1>3, EventSteps
<1>4. CASE Signal
  BY <1>4 DEF Quiet
<1> QED
  BY <1>1, <1>2, <1>3, <1>4 DEF ServerNext, ServerStep

-----------------------------------------------------------------------------
(* The roles are kept.                                                     *)

(* The order of arrival depends on the clients and the kernel only.        *)
LEMMA KernelFrame ==
    ASSUME Serving, UNCHANGED <<peer, backlog, owner>>
    PROVE  EachOnce' /\ PersistentFirst'
<1>1. OpenFds' = OpenFds
  BY DEF OpenFds
<1>2. \A c : Established(c)' <=> Established(c)
  BY DEF Established
<1> QED
  BY <1>1, <1>2 DEF Serving, EachOnce, PersistentFirst

(* Steps that move no descriptor.                                          *)
LEMMA RolesFrame ==
    ASSUME TypeInv, TypeInv', Roles,
           UNCHANGED <<owner, registered, persistent_fd, non_persistent_fd, active_clients>>,
           Len(queue') = Len(queue), \A i \in 1 .. Len(queue) : queue'[i].fd = queue[i].fd,
           batch' \subseteq registered \cup {ListenFd}
    PROVE  Roles'
<1>1. OpenFds' = OpenFds /\ Slots' = Slots /\ Queued' = Queued
  BY DEF OpenFds, Slots, Queued
<1>2. queue = <<>> => queue' = <<>>
  <2>1. queue \in Seq(Waiting) /\ queue' \in Seq(Waiting)
    BY DEF TypeInv, TypeOK
  <2> QED
    BY <2>1, EmptySeq
<1> QED
  BY <1>1, <1>2 DEF Roles

(* A second makes nobody leave the queue or join it.                       *)
LEMMA SecondKeepsQueue ==
    ASSUME TypeInv, TypeInv', Second
    PROVE  Len(queue') = Len(queue) /\ \A i \in 1 .. Len(queue) : queue'[i].fd = queue[i].fd
<1>1. queue \in Seq(Waiting) /\ queue' \in Seq(Waiting)
  BY DEF TypeInv, TypeOK
<1>2. DOMAIN queue = 1 .. Len(queue) /\ DOMAIN queue' = 1 .. Len(queue')
      /\ Len(queue) \in Nat /\ Len(queue') \in Nat
  BY <1>1, LenProperties
<1>3. queue' = [i \in DOMAIN queue |-> [queue[i] EXCEPT !.age = Older(@, INACTIVE_TIMEOUT)]]
  BY DEF Second
<1>4. 1 .. Len(queue') = 1 .. Len(queue)
  BY <1>2, <1>3
<1>5. Len(queue') = Len(queue)
  <2>1. Len(queue) = 0 \/ Len(queue) \in 1 .. Len(queue)
    BY <1>2
  <2>2. Len(queue') = 0 \/ Len(queue') \in 1 .. Len(queue')
    BY <1>2
  <2>3. Len(queue) <= Len(queue')
    <3>1. Len(queue) = 0 \/ Len(queue) \in 1 .. Len(queue')
      BY <1>4, <2>1, Zenon
    <3> QED
      BY <1>2, <3>1
  <2>4. Len(queue') <= Len(queue)
    <3>1. Len(queue') = 0 \/ Len(queue') \in 1 .. Len(queue)
      BY <1>4, <2>2, Zenon
    <3> QED
      BY <1>2, <3>1
  <2>5. Len(queue) \in Nat /\ Len(queue') \in Nat
    BY <1>2
  <2> QED
    BY <2>3, <2>4, <2>5
<1>6. ASSUME NEW i \in 1 .. Len(queue) PROVE queue'[i].fd = queue[i].fd
  <2>1. queue[i] \in Waiting
    BY <1>1, ElementOfSeq
  <2>2. queue'[i] = [queue[i] EXCEPT !.age = Older(@, INACTIVE_TIMEOUT)]
    BY <1>2, <1>3
  <2> QED
    BY <2>1, <2>2 DEF Waiting
<1> QED
  BY <1>5, <1>6

(* Steps that change nothing but the loop's own variables and ages.        *)
LEMMA QuietKeeps ==
    ASSUME TypeInv, TypeInv', Serving, Quiet
    PROVE  Serving'
<1> USE DEF TypeInv, TypeOK
<1>1. UNCHANGED <<peer, backlog, owner, registered>>
  BY DEF Quiet, LoopTest, Second, TimeoutStop, Collect, AcceptFails, Signal, sockVars
<1>2. UNCHANGED <<persistent_fd, non_persistent_fd, active_clients>>
  BY DEF Quiet, LoopTest, Second, TimeoutStop, Collect, AcceptFails, Signal, slotVars, countVars
<1>3. Len(queue') = Len(queue) /\ \A i \in 1 .. Len(queue) : queue'[i].fd = queue[i].fd
  <2>1. CASE Second
    BY <2>1, SecondKeepsQueue
  <2>2. CASE queue' = queue
    BY <2>2
  <2> QED
    BY <2>1, <2>2 DEF Quiet, LoopTest, TimeoutStop, Collect, AcceptFails, Signal, slotVars
<1>4. batch' \subseteq registered \cup {ListenFd}
  <2>1. batch \subseteq registered \cup {ListenFd}
    BY DEF Serving, Roles
  <2>2. CASE Collect
    BY <2>2 DEF Collect, TakeBatch, Ready
  <2>3. CASE AcceptFails
    BY <2>1, <2>3 DEF AcceptFails, Handle
  <2> QED
    BY <2>1, <2>2, <2>3 DEF Quiet, LoopTest, Second, TimeoutStop, Signal
<1> QED
  BY <1>1, <1>2, <1>3, <1>4, KernelFrame, RolesFrame DEF Serving

(* A read takes from an inbox only.                                        *)
LEMMA ReadKeeps ==
    ASSUME TypeInv, TypeInv', Serving, NEW e \in FDs, Read(e)
    PROVE  Serving'
<1>1. UNCHANGED <<peer, backlog, owner, registered>>
  BY DEF Read, SpuriousEvent, PersistentData, NonPersistentData, Take, sockVars
<1>2. UNCHANGED <<persistent_fd, non_persistent_fd, active_clients, queue>>
  BY DEF Read, SpuriousEvent, PersistentData, NonPersistentData, slotVars, countVars
<1>3. batch' \subseteq registered \cup {ListenFd}
  BY DEF Read, SpuriousEvent, PersistentData, NonPersistentData, DataEvent, Handle, Serving, Roles
<1> QED
  BY <1>1, <1>2, <1>3, KernelFrame, RolesFrame DEF Serving

(* The persistent client connects before and hangs up after the others.    *)
LEMMA ClientKeeps ==
    ASSUME PersistentLasts, TypeInv, TypeInv', Serving, NEW c \in Conns, ClientStep(c)
    PROVE  Serving'
<1>1. SocketTypeOK /\ EachOnce /\ (Connect(c) \/ Deliver(c) \/ Hangup(c))
  BY DEF ClientStep, TypeInv, TypeOK, Serving
<1>2. EachOnce'
  BY <1>1, ClientOnce
<1>3. /\ OpenFds' = OpenFds /\ UNCHANGED <<owner, registered>>
      /\ Connect(c) => Established(c)'
      /\ \A d \in Conns : (d # c \/ ~Connect(c)) => (Established(d)' <=> Established(d))
  BY <1>1, ClientEstablished
<1>4. Roles'
  <2>1. UNCHANGED <<batch, persistent_fd, non_persistent_fd, active_clients, queue>>
    BY DEF ClientStep, ServerUnchanged, loopVars, slotVars, countVars
  <2> QED
    BY <1>3, <2>1, RolesFrame DEF Serving, Roles
<1>5. p1 \in Conns /\ Others \subseteq Conns /\ p1 \notin Others
      /\ (c # p1 => c \in Others)
      /\ peer \in [Conns -> {"new", "open", "gone"}]
  BY DEF PersistentLasts, Others, TypeInv, TypeOK, SocketTypeOK
<1>6. CASE Connect(c)
  <2>1. peer[c] = "new" /\ peer' = [peer EXCEPT ![c] = "open"] /\ backlog' = Append(backlog, c)
    BY <1>6 DEF Connect
  <2>2. peer'[c] = "open" /\ \A d \in Conns : d # c => peer'[d] = peer[d]
    BY <1>5, <2>1
  <2>3. c # p1 => peer[p1] # "new"
    BY <1>5, <1>6 DEF Connect, PersistentLasts
  <2>4. c # p1 => peer[p1] # "gone"
    BY <1>5, <2>1 DEF Serving, PersistentFirst
  <2>5. \A i \in 1 .. Len(backlog') : backlog'[i] = p1 => i = 1
    <3>1. backlog \in Seq(Conns) /\ Len(backlog) \in Nat
      BY <1>1, LenProperties DEF SocketTypeOK
    <3>2. /\ Len(backlog') = Len(backlog) + 1
          /\ \A i \in 1 .. Len(backlog) : backlog'[i] = backlog[i]
          /\ backlog'[Len(backlog) + 1] = c
      BY <2>1, <3>1, AppendProperties
    <3>3. CASE c # p1
      BY <3>1, <3>2, <3>3 DEF Serving, PersistentFirst
    <3>4. CASE c = p1
      <4>1. \A d \in Conns : peer[d] = "new"
        BY <1>5, <2>1, <3>4 DEF Serving, PersistentFirst, Others
      <4>2. \A i \in 1 .. Len(backlog) : FALSE
        BY <1>1, <3>1, <4>1, ElementOfSeq DEF EachOnce
      <4>3. Len(backlog) = 0
        BY <3>1, <4>2, 1 \in 1 .. Len(backlog) \/ Len(backlog) = 0
      <4> QED
        BY <3>2, <4>3
    <3> QED
      BY <3>3, <3>4
  <2>6. peer'[p1] # "new"
    BY <1>5, <2>2, <2>3
  <2>7. peer'[p1] = "open" => Established(p1)'
    BY <1>3, <1>5, <1>6, <2>2 DEF Serving, PersistentFirst
  <2>8. peer'[p1] # "gone"
    BY <1>5, <2>2, <2>4
  <2> QED
    BY <1>2, <1>4, <2>5, <2>6, <2>7, <2>8 DEF Serving, PersistentFirst
<1>7. CASE ~Connect(c)
  <2>1. backlog' = backlog
    BY <1>1, <1>7 DEF Deliver, Hangup
  <2>2. \A d \in Conns : Established(d)' <=> Established(d)
    BY <1>3, <1>7
  <2>3. CASE Deliver(c)
    <3>1. peer' = peer
      BY <2>3 DEF Deliver
    <3> QED
      BY <1>2, <1>4, <1>5, <2>1, <2>2, <3>1 DEF Serving, PersistentFirst
  <2>4. CASE Hangup(c)
    <3>1. peer[c] = "open" /\ peer' = [peer EXCEPT ![c] = "gone"]
      BY <2>4 DEF Hangup
    <3>2. peer'[c] = "gone" /\ \A d \in Conns : d # c => peer'[d] = peer[d]
      BY <1>5, <3>1
    <3>3. c = p1 => \A d \in Others : peer[d] = "gone" /\ ~Established(d)
      BY <2>4 DEF Hangup, PersistentLasts
    <3>4. peer'[p1] = "new" => \A d \in Others : peer'[d] = "new"
      BY <1>5, <3>1, <3>2 DEF Serving, PersistentFirst
    <3>5. peer'[p1] = "open" => Established(p1)'
      BY <1>5, <2>2, <3>2 DEF Serving, PersistentFirst
    <3>6. peer'[p1] = "gone" => \A d \in Others : peer'[d] = "gone" /\ ~Established(d)'
      <4>1. CASE c = p1
        BY <1>5, <2>2, <3>2, <3>3, <4>1
      <4>2. CASE c # p1
        BY <1>5, <2>2, <3>2, <4>2 DEF Serving, PersistentFirst
      <4> QED
        BY <4>1, <4>2
    <3> QED
      BY <1>2, <1>4, <2>1, <3>4, <3>5, <3>6 DEF Serving, PersistentFirst
  <2> QED
    BY <1>1, <1>7, <2>3, <2>4
<1> QED
  BY <1>6, <1>7

(* What an accepted connection changes, whichever place it takes.          *)
LEMMA OpensOne ==
    ASSUME PersistentLasts, TypeInv, Serving, NEW adding \in SUBSET FDs, Opens(adding)
    PROVE  /\ LowestFree \in FDs /\ LowestFree \notin OpenFds
           /\ OpenFds' = OpenFds \cup {LowestFree}
           /\ active_clients' = Cardinality(OpenFds')
           /\ registered' = registered \cup adding
           /\ owner'[LowestFree] = Head(backlog)
           /\ \A f \in OpenFds : owner'[f] = owner[f]
           /\ \A c \in Conns : Established(c)' <=> Established(c)
           /\ UNCHANGED <<peer, sent, inbox>> /\ backlog' = Tail(backlog)
           /\ batch' = batch \ {ListenFd}
           /\ EachOnce' /\ PersistentFirst'
<1>1. SocketTypeOK /\ FreeFds # {} /\ backlog # <<>> /\ AcceptAs(LowestFree, adding)
  BY DEF Opens, AcceptEvent, TypeInv, TypeOK
<1>2. /\ LowestFree \in FDs /\ LowestFree \notin OpenFds
      /\ OpenFds' = OpenFds \cup {LowestFree}
      /\ Cardinality(OpenFds') = Cardinality(OpenFds) + 1
  BY <1>1, AcceptOpensOne
<1>3. \A c \in Conns : Established(c)' <=> Established(c)
  BY <1>1, AcceptEstablished
<1>4. EachOnce'
  BY <1>1, AcceptOnceEach DEF Serving
<1>5. UNCHANGED <<peer, sent, inbox>> /\ backlog' = Tail(backlog)
      /\ registered' = registered \cup adding
      /\ owner' = [owner EXCEPT ![LowestFree] = Head(backlog)]
  BY <1>1 DEF AcceptAs
<1>6. owner'[LowestFree] = Head(backlog) /\ \A f \in OpenFds : owner'[f] = owner[f]
  <2> HIDE DEF LowestFree
  <2>1. owner \in [FDs -> Conns \cup {NoConn}] /\ OpenFds \subseteq FDs
    BY <1>1 DEF OpenFds, SocketTypeOK
  <2> QED
    BY <1>2, <1>5, <2>1
<1>7. \A i \in 1 .. Len(backlog') : backlog'[i] # p1
  <2>1. \A i \in 1 .. Len(backlog') :
            backlog'[i] = backlog[i + 1] /\ i + 1 \in 1 .. Len(backlog) /\ i + 1 # 1
    BY <1>1, <1>5, BacklogTail
  <2> QED
    BY <2>1 DEF Serving, PersistentFirst
<1>8. PersistentFirst'
  BY <1>3, <1>5, <1>7 DEF PersistentLasts, Others, Serving, PersistentFirst
<1>9. active_clients' = Cardinality(OpenFds')
  BY <1>2 DEF Opens, Serving, Roles
<1> QED
  BY <1>2, <1>3, <1>4, <1>5, <1>6, <1>8, <1>9 DEF Opens, AcceptEvent, Handle

(* Every connection that comes gets one role.                              *)
LEMMA ComesKeeps ==
    ASSUME PersistentLasts, TypeInv, TypeInv', Serving, Comes
    PROVE  Serving'
<1> DEFINE f == LowestFree
<1>1. /\ OpenFds = Slots \cup Queued /\ Slots \cap Queued = {}
      /\ \A i, j \in 1 .. Len(queue) : queue[i].fd = queue[j].fd => i = j
      /\ registered = Slots /\ batch \subseteq Slots \cup {ListenFd}
      /\ persistent_fd # NoFd => persistent_fd # non_persistent_fd
      /\ non_persistent_fd = NoFd => queue = <<>>
      /\ \A g \in OpenFds : owner[g] = p1 <=> g = persistent_fd
  BY DEF Serving, Roles
<1>2. \A adding \in SUBSET FDs : Opens(adding) =>
           /\ f \in FDs /\ f \notin OpenFds
           /\ OpenFds' = OpenFds \cup {f}
           /\ active_clients' = Cardinality(OpenFds')
           /\ registered' = registered \cup adding
           /\ owner'[f] = Head(backlog)
           /\ \A g \in OpenFds : owner'[g] = owner[g]
           /\ batch' = batch \ {ListenFd}
           /\ EachOnce' /\ PersistentFirst'
  BY OpensOne
<1>3. /\ NoFd \notin FDs /\ ListenFd \notin FDs
      /\ persistent_fd # NoFd => persistent_fd \in OpenFds
      /\ non_persistent_fd # NoFd => non_persistent_fd \in OpenFds
  BY NoFdApart, WhoIsWhere
<1>4. AcceptEvent => f \in FDs
  BY LowestFreeIsFree DEF AcceptEvent, FreeFds
<1> HIDE DEF f
<1>5. CASE PersistentComes
  <2>1. /\ persistent_fd = NoFd /\ persistent_fd' = f /\ Opens({f}) /\ Head(backlog) = p1
        /\ UNCHANGED <<non_persistent_fd, queue>> /\ f \in FDs
    BY <1>4, <1>5 DEF PersistentComes, AcceptPersistent, Opens, f
  <2>2. /\ f \in FDs /\ f \notin OpenFds /\ OpenFds' = OpenFds \cup {f}
        /\ active_clients' = Cardinality(OpenFds')
        /\ registered' = registered \cup {f} /\ owner'[f] = p1
        /\ \A g \in OpenFds : owner'[g] = owner[g]
        /\ batch' = batch \ {ListenFd} /\ EachOnce' /\ PersistentFirst'
    BY <1>2, <2>1
  <2>3. Slots' = Slots \cup {f} /\ Queued' = Queued /\ f \notin Queued
    BY <1>1, <1>3, <2>1, <2>2 DEF Slots, Queued
  <2>4. \A g \in OpenFds' : owner'[g] = p1 <=> g = persistent_fd'
    BY <1>1, <1>3, <2>1, <2>2 DEF OpenFds
  <2>5. persistent_fd' # non_persistent_fd'
    BY <1>3, <2>1, <2>2
  <2> QED
    BY <1>1, <2>1, <2>2, <2>3, <2>4, <2>5 DEF Serving, Roles
<1>6. CASE OtherIsServed
  <2>1. /\ persistent_fd # NoFd /\ non_persistent_fd = NoFd /\ non_persistent_fd' = f
        /\ Opens({f}) /\ Head(backlog) # p1
        /\ UNCHANGED <<persistent_fd, queue>> /\ f \in FDs
    BY <1>4, <1>6 DEF OtherIsServed, AcceptNonPersistent, Opens, f, Others
  <2>2. /\ f \in FDs /\ f \notin OpenFds /\ OpenFds' = OpenFds \cup {f}
        /\ active_clients' = Cardinality(OpenFds')
        /\ registered' = registered \cup {f} /\ owner'[f] # p1
        /\ \A g \in OpenFds : owner'[g] = owner[g]
        /\ batch' = batch \ {ListenFd} /\ EachOnce' /\ PersistentFirst'
    BY <1>2, <2>1
  <2>3. Slots' = Slots \cup {f} /\ Queued' = Queued /\ f \notin Queued
    BY <1>1, <1>3, <2>1, <2>2 DEF Slots, Queued
  <2>4. \A g \in OpenFds' : owner'[g] = p1 <=> g = persistent_fd'
    BY <1>1, <1>3, <2>1, <2>2
  <2>5. persistent_fd' # non_persistent_fd' /\ non_persistent_fd' # NoFd
    BY <1>3, <2>1, <2>2
  <2> QED
    BY <1>1, <2>1, <2>2, <2>3, <2>4, <2>5 DEF Serving, Roles
<1>7. CASE OtherWaits
  <2>1. /\ persistent_fd # NoFd /\ non_persistent_fd # NoFd
        /\ queue' = Append(queue, [fd |-> f, age |-> 0])
        /\ Opens({}) /\ Head(backlog) # p1
        /\ UNCHANGED <<persistent_fd, non_persistent_fd>>
    BY <1>7 DEF OtherWaits, AcceptQueued, BothActive, f, Others
  <2>2. /\ f \in FDs /\ f \notin OpenFds /\ OpenFds' = OpenFds \cup {f}
        /\ active_clients' = Cardinality(OpenFds')
        /\ registered' = registered /\ owner'[f] # p1
        /\ \A g \in OpenFds : owner'[g] = owner[g]
        /\ batch' = batch \ {ListenFd} /\ EachOnce' /\ PersistentFirst'
    <3>1. {} \in SUBSET FDs /\ registered \cup {} = registered
      OBVIOUS
    <3> QED
      BY <1>2, <2>1, <3>1
  <2>3. /\ Len(queue) \in Nat /\ Len(queue') = Len(queue) + 1
        /\ \A i \in 1 .. Len(queue) : queue'[i] = queue[i]
        /\ queue'[Len(queue) + 1].fd = f
    <3>1. queue \in Seq(Waiting) /\ [fd |-> f, age |-> 0] \in Waiting
      BY <2>2, LimitsAreNat DEF TypeInv, TypeOK, Waiting, Ages
    <3> QED
      BY <2>1, <3>1, AppendProperties, LenProperties
  <2>4. \A i \in 1 .. Len(queue') : i \in 1 .. Len(queue) \/ i = Len(queue) + 1
    BY <2>3
  <2>5. \A i \in 1 .. Len(queue) : i \in 1 .. Len(queue')
    BY <2>3
  <2>6. Slots' = Slots /\ Queued' = Queued \cup {f}
    <3>1. Len(queue) + 1 \in 1 .. Len(queue')
      BY <2>3
    <3> QED
      BY <2>1, <2>3, <2>4, <2>5, <3>1 DEF Slots, Queued
  <2>7. \A i \in 1 .. Len(queue) : queue[i].fd \in OpenFds
    BY <1>1 DEF Queued
  <2>8. \A i, j \in 1 .. Len(queue') : queue'[i].fd = queue'[j].fd => i = j
    BY <1>1, <2>2, <2>3, <2>4, <2>7
  <2>9. \A g \in OpenFds' : owner'[g] = p1 <=> g = persistent_fd'
    BY <1>1, <1>3, <2>1, <2>2
  <2> QED
    BY <1>1, <2>1, <2>2, <2>6, <2>8, <2>9 DEF Serving, Roles
<1>8. CASE OtherIsTurnedAway
  <2>1. /\ AcceptAndClose /\ backlog # <<>> /\ Head(backlog) # p1
        /\ UNCHANGED <<persistent_fd, non_persistent_fd, queue, active_clients>>
        /\ batch' \subseteq batch
    BY <1>8 DEF OtherIsTurnedAway, AcceptRejected, AcceptEvent, Handle, slotVars, Others
  <2>2. UNCHANGED <<peer, owner, registered>> /\ backlog' = Tail(backlog)
    BY <2>1 DEF AcceptAndClose
  <2>3. Roles'
    BY <1>1, <2>1, <2>2, RolesFrame DEF Serving
  <2>4. SocketTypeOK /\ EachOnce
    BY DEF TypeInv, TypeOK, Serving
  <2>5. EachOnce' /\ \A c \in Conns : Established(c)' <=> Established(c) /\ c # Head(backlog)
    BY <2>1, <2>4, RejectEstablished
  <2>6. \A i \in 1 .. Len(backlog') : backlog'[i] # p1
    <3>1. \A i \in 1 .. Len(backlog') :
            backlog'[i] = backlog[i + 1] /\ i + 1 \in 1 .. Len(backlog) /\ i + 1 # 1
      BY <2>1, <2>2, <2>4, BacklogTail
    <3> QED
      BY <3>1 DEF Serving, PersistentFirst
  <2>7. PersistentFirst'
    BY <2>1, <2>2, <2>5, <2>6 DEF PersistentLasts, Others, Serving, PersistentFirst
  <2> QED
    BY <2>3, <2>5, <2>7 DEF Serving
<1> QED
  BY <1>5, <1>6, <1>7, <1>8 DEF Comes

(* The head of the queue and the rest of it.                               *)
LEMMA QueueTail ==
    ASSUME TypeInv, queue # <<>>, queue' = Tail(queue)
    PROVE  /\ Len(queue) \in Nat /\ 1 \in 1 .. Len(queue) /\ Head(queue) = queue[1]
           /\ Head(queue) \in Waiting
           /\ Len(queue') = Len(queue) - 1
           /\ \A i \in 1 .. Len(queue') :
                    /\ queue'[i] = queue[i + 1]
                    /\ i + 1 \in 1 .. Len(queue) /\ i + 1 # 1
           /\ \A i \in 1 .. Len(queue) :
                    i = 1 \/ (i - 1 \in 1 .. Len(queue') /\ queue'[i - 1] = queue[i])
<1>0. queue \in Seq(Waiting)
  BY DEF TypeInv, TypeOK
<1>1. /\ queue' \in Seq(Waiting) /\ Len(queue') = Len(queue) - 1
      /\ Head(queue) = queue[1] /\ Head(queue) \in Waiting
      /\ \A i \in 1 .. Len(queue') : queue'[i] = queue[i + 1]
  BY <1>0, HeadTailProperties
<1>2. Len(queue) \in Nat /\ Len(queue) # 0
  BY <1>0, LenProperties, EmptySeq
<1>3. \A i \in 1 .. Len(queue) :
            i = 1 \/ (i - 1 \in 1 .. Len(queue') /\ queue'[i - 1] = queue[i])
  <2> SUFFICES ASSUME NEW i \in 1 .. Len(queue), i # 1
               PROVE  i - 1 \in 1 .. Len(queue') /\ queue'[i - 1] = queue[i]
    OBVIOUS
  <2>1. i - 1 \in 1 .. Len(queue') /\ (i - 1) + 1 = i
    BY <1>1, <1>2
  <2> QED
    BY <1>1, <2>1
<1>4. 1 \in 1 .. Len(queue)
  BY <1>2
<1>5. \A i \in 1 .. Len(queue') : i + 1 \in 1 .. Len(queue) /\ i + 1 # 1
  BY <1>1, <1>2
<1> QED
  BY <1>1, <1>2, <1>3, <1>4, <1>5

(* What the end of a connection changes, whichever slot it leaves.         *)
LEMMA ClosesOne ==
    ASSUME PersistentLasts, TypeInv, Serving, NEW e \in FDs, NEW adding \in SUBSET FDs,
           CloseAndAdd({e}, adding), HasEnded(e)
    PROVE  /\ e \in OpenFds /\ OpenFds' = OpenFds \ {e}
           /\ \A f \in OpenFds' : owner'[f] = owner[f]
           /\ Cardinality(OpenFds') = active_clients - 1
           /\ registered' = (registered \ {e}) \cup adding
           /\ \A c \in Conns : Established(c)' <=> Established(c) /\ c # owner[e]
           /\ UNCHANGED <<peer, sent, inbox, backlog>>
           /\ EachOnce' /\ PersistentFirst'
<1>1. SocketTypeOK /\ EachOnce /\ e \in OpenFds
  BY DEF TypeInv, TypeOK, Serving, HasEnded, IsOpen
<1>2. /\ OpenFds' = OpenFds \ {e}
      /\ \A f \in OpenFds' : owner'[f] = owner[f]
      /\ \A c \in Conns : Established(c)' <=>
                    Established(c) /\ \A f \in OpenFds \cap {e} : owner[f] # c
  BY <1>1, CloseEstablished
<1>3. EachOnce'
  BY <1>1, CloseOnce
<1>4. UNCHANGED <<peer, sent, backlog>> /\ registered' = (registered \ {e}) \cup adding
  BY DEF CloseAndAdd
<1>5. inbox' = inbox
  <2>1. inbox' = [c \in Conns |->
                    IF \E f \in {e} \cap FDs : owner[f] = c THEN 0 ELSE inbox[c]]
    BY DEF CloseAndAdd
  <2>2. \A c \in Conns : inbox'[c] = inbox[c]
    BY <2>1 DEF HasEnded
  <2> QED
    BY <1>1, <2>1, <2>2 DEF SocketTypeOK
<1>6. Cardinality(OpenFds') = active_clients - 1
  <2>1. IsFiniteSet(OpenFds)
    BY OpenFdsFinite
  <2>2. Cardinality(OpenFds \ {e}) = Cardinality(OpenFds) - 1
    BY <1>1, <2>1, FS_RemoveElement
  <2> QED
    BY <1>2, <2>2 DEF Serving, Roles
<1>7. \A c \in Conns : Established(c)' <=> Established(c) /\ c # owner[e]
  BY <1>1, <1>2
<1>8. PersistentFirst'
  <2>1. p1 \in Conns /\ Others \subseteq Conns
    BY DEF PersistentLasts, Others
  <2>2. peer'[p1] = "open" => Established(p1)'
    BY <1>4, <1>7, <2>1 DEF HasEnded, Serving, PersistentFirst
  <2>3. peer'[p1] = "gone" => \A c \in Others : peer'[c] = "gone" /\ ~Established(c)'
    BY <1>4, <1>7, <2>1 DEF Serving, PersistentFirst
  <2>4. peer'[p1] = "new" => \A c \in Others : peer'[c] = "new"
    BY <1>4 DEF Serving, PersistentFirst
  <2>5. \A i \in 1 .. Len(backlog') : backlog'[i] = p1 => i = 1
    BY <1>4 DEF Serving, PersistentFirst
  <2> QED
    BY <2>2, <2>3, <2>4, <2>5 DEF PersistentFirst
<1> QED
  BY <1>1, <1>2, <1>3, <1>4, <1>5, <1>6, <1>7, <1>8

(* When per.c has hung up, nobody else is there.                           *)
LEMMA LastToLeave ==
    ASSUME PersistentLasts, TypeInv, Serving, peer[p1] = "gone"
    PROVE  non_persistent_fd = NoFd /\ queue = <<>> /\ Queued = {} /\ Slots \subseteq {persistent_fd}
<1>1. \A f \in OpenFds : owner[f] \notin Others
  <2>1. \A f \in OpenFds : owner[f] \in Conns => Established(owner[f])
    BY EstablishedWhere DEF TypeInv, TypeOK
  <2> QED
    BY <2>1 DEF Serving, PersistentFirst, Others
<1>2. non_persistent_fd = NoFd
  BY <1>1, WhoIsWhere
<1>3. queue = <<>>
  BY <1>2 DEF Serving, Roles
<1> QED
  BY <1>2, <1>3 DEF Queued, Slots

(* The connection that ends frees its role.                                *)
LEMMA EndsKeeps ==
    ASSUME PersistentLasts, TypeInv, TypeInv', Serving, NEW e \in FDs, Ends(e)
    PROVE  Serving'
<1>1. /\ OpenFds = Slots \cup Queued /\ Slots \cap Queued = {}
      /\ \A i, j \in 1 .. Len(queue) : queue[i].fd = queue[j].fd => i = j
      /\ registered = Slots /\ batch \subseteq Slots \cup {ListenFd}
      /\ persistent_fd # NoFd => persistent_fd # non_persistent_fd
      /\ non_persistent_fd = NoFd => queue = <<>>
      /\ \A g \in OpenFds : owner[g] = p1 <=> g = persistent_fd
      /\ active_clients = Cardinality(OpenFds)
  BY DEF Serving, Roles
<1>2. e # NoFd /\ NoFd \notin FDs /\ ListenFd \notin FDs
  BY NoFdApart
<1>3. CASE PersistentEnds(e)
  <2>1. /\ CloseAndAdd({e}, {}) /\ HasEnded(e) /\ e = persistent_fd /\ persistent_fd' = NoFd
        /\ active_clients' = active_clients - 1 /\ peer[p1] = "gone"
        /\ UNCHANGED <<non_persistent_fd, queue>> /\ batch' = batch \ {e}
    BY <1>3 DEF PersistentEnds, ClosePersistent, EndEvent, Handle, HasEnded
  <2>2. /\ OpenFds' = OpenFds \ {e}
        /\ Cardinality(OpenFds') = active_clients - 1
        /\ registered' = registered \ {e}
        /\ EachOnce' /\ PersistentFirst'
    <3>1. {} \in SUBSET FDs /\ (registered \ {e}) \cup {} = registered \ {e}
      OBVIOUS
    <3> QED
      BY <2>1, <3>1, ClosesOne
  <2>3. /\ non_persistent_fd = NoFd /\ queue = <<>>
        /\ Queued = {} /\ Slots \subseteq {persistent_fd}
    BY <2>1, LastToLeave
  <2>4. Slots' = {} /\ Queued' = {} /\ OpenFds' = {} /\ registered' = {}
    BY <1>1, <2>1, <2>2, <2>3 DEF Slots, Queued
  <2> QED
    BY <1>1, <2>1, <2>2, <2>3, <2>4 DEF Serving, Roles
<1>4. CASE SlotEmpties(e)
  <2>1. /\ CloseAndAdd({e}, {}) /\ HasEnded(e) /\ e = non_persistent_fd /\ e # persistent_fd
        /\ queue = <<>> /\ non_persistent_fd' = NoFd
        /\ active_clients' = active_clients - 1
        /\ UNCHANGED <<persistent_fd, queue>> /\ batch' = batch \ {e}
    BY <1>4 DEF SlotEmpties, CloseNonPersistent, EndEvent, Handle, EndNobodyWaits
  <2>2. /\ OpenFds' = OpenFds \ {e} /\ \A f \in OpenFds' : owner'[f] = owner[f]
        /\ Cardinality(OpenFds') = active_clients - 1
        /\ registered' = registered \ {e}
        /\ EachOnce' /\ PersistentFirst'
    <3>1. {} \in SUBSET FDs /\ (registered \ {e}) \cup {} = registered \ {e}
      OBVIOUS
    <3> QED
      BY <2>1, <3>1, ClosesOne
  <2>3. Queued = {}
    BY <2>1 DEF Queued
  <2>4. Slots' = Slots \ {e} /\ Queued' = Queued
    BY <1>1, <1>2, <2>1 DEF Slots, Queued
  <2>5. persistent_fd' # NoFd => persistent_fd' # non_persistent_fd'
    BY <2>1
  <2> QED
    BY <1>1, <2>1, <2>2, <2>3, <2>4, <2>5 DEF Serving, Roles
<1>5. CASE SlotPasses(e)
  <2> DEFINE h == Head(queue).fd
  <2>1. /\ CloseAndAdd({e}, {h}) /\ HasEnded(e) /\ e = non_persistent_fd /\ e # persistent_fd
        /\ queue # <<>> /\ non_persistent_fd' = h /\ queue' = Tail(queue)
        /\ active_clients' = active_clients - 1
        /\ UNCHANGED <<persistent_fd>> /\ batch' = batch \ {e}
    BY <1>5 DEF SlotPasses, CloseNonPersistent, EndEvent, Handle, EndPromote
  <2>2. /\ Head(queue) = queue[1] /\ 1 \in 1 .. Len(queue) /\ Head(queue) \in Waiting
        /\ \A i \in 1 .. Len(queue') :
                 queue'[i] = queue[i + 1] /\ i + 1 \in 1 .. Len(queue) /\ i + 1 # 1
        /\ \A i \in 1 .. Len(queue) :
                 i = 1 \/ (i - 1 \in 1 .. Len(queue') /\ queue'[i - 1] = queue[i])
    BY <2>1, QueueTail
  <2>3. h = queue[1].fd /\ h \in FDs /\ h \in Queued
    BY <2>2 DEF Waiting, Queued
  <2> HIDE DEF h
  <2>4. /\ OpenFds' = OpenFds \ {e} /\ \A f \in OpenFds' : owner'[f] = owner[f]
        /\ Cardinality(OpenFds') = active_clients - 1
        /\ registered' = (registered \ {e}) \cup {h}
        /\ EachOnce' /\ PersistentFirst'
    <3>1. {h} \in SUBSET FDs
      BY <2>3
    <3> QED
      BY <2>1, <3>1, ClosesOne
  <2>5. Queued' = Queued \ {h}
    <3>1. ASSUME NEW i \in 1 .. Len(queue')
          PROVE  queue'[i].fd \in Queued /\ queue'[i].fd # h
      BY <1>1, <2>2, <2>3 DEF Queued
    <3>2. ASSUME NEW i \in 1 .. Len(queue), queue[i].fd # h
          PROVE  \E j \in 1 .. Len(queue') : queue'[j].fd = queue[i].fd
      BY <2>2, <2>3, <3>2
    <3> QED
      BY <3>1, <3>2 DEF Queued
  <2>6. \A i, j \in 1 .. Len(queue') : queue'[i].fd = queue'[j].fd => i = j
    <3> SUFFICES ASSUME NEW i \in 1 .. Len(queue'), NEW j \in 1 .. Len(queue'),
                        queue'[i].fd = queue'[j].fd
                 PROVE  i = j
      OBVIOUS
    <3>1. queue[i + 1].fd = queue[j + 1].fd
          /\ i + 1 \in 1 .. Len(queue) /\ j + 1 \in 1 .. Len(queue)
      BY <2>2
    <3>2. i + 1 = j + 1
      BY <1>1, <3>1, Zenon
    <3> QED
      BY <3>2
  <2>7. e \in Slots /\ h \notin Slots /\ h # NoFd /\ e # h
    BY <1>1, <1>2, <2>1, <2>3 DEF Slots
  <2>8. Slots' = (Slots \ {e}) \cup {h}
    BY <1>1, <1>2, <2>1, <2>7 DEF Slots
  <2>9. persistent_fd' # NoFd => persistent_fd' # non_persistent_fd'
    BY <2>1, <2>7 DEF Slots
  <2>10. OpenFds' = Slots' \cup Queued' /\ Slots' \cap Queued' = {} /\ registered' = Slots'
         /\ batch' \subseteq Slots' \cup {ListenFd}
    <3>1. e \notin Queued
      BY <1>1, <2>7
    <3> QED
      BY <1>1, <2>1, <2>3, <2>4, <2>5, <2>7, <2>8, <3>1
  <2>11. \A g \in OpenFds' : owner'[g] = p1 <=> g = persistent_fd'
    BY <1>1, <2>1, <2>4
  <2> QED
    BY <1>1, <2>1, <2>4, <2>6, <2>7, <2>9, <2>10, <2>11 DEF Serving, Roles
<1> QED
  BY <1>3, <1>4, <1>5 DEF Ends

(* After the loop everything is closed.                                    *)
LEMMA ExitCloses ==
    ASSUME TypeInv, Serving, Exit
    PROVE  Over' /\ pc' = "exited"
BY DEF Exit, CloseAndAdd, OpenFds, Serving, Roles, Over

(* Every step that ends nobody as inactive keeps the roles.                *)
LEMMA RolesKept ==
    ASSUME PersistentLasts, TypeInv, RolesInv, [ServerNext]_serverVars, ~ReapInactive
    PROVE  RolesInv'
<1>1. TypeInv'
  BY StepTyped
<1>2. CASE pc = "exited"
  <2>1. UNCHANGED <<sockVars, pc, batch, slotVars>>
    BY <1>2, ServerExited DEF RolesInv, Over
  <2> QED
    BY <1>2, <2>1 DEF RolesInv, Over, OpenFds, sockVars, slotVars
<1>3. CASE pc # "exited"
  <2>1. Serving
    BY <1>3 DEF RolesInv
  <2>2. CASE Exit
    BY <2>1, <2>2, ExitCloses DEF RolesInv
  <2>3. CASE UNCHANGED serverVars
    BY <1>3, <2>1, <2>3 DEF serverVars, loopVars, slotVars, sockVars, countVars, RolesInv,
          Serving, EachOnce, PersistentFirst, Roles, OpenFds, Slots, Queued, Established
  <2>4. ASSUME ~Exit, ~UNCHANGED serverVars PROVE RolesInv'
    <3>1. pc' # "exited"
      BY <1>3, <2>4, LoopGoesOn DEF ServerNext, ServerStep
    <3>2. \/ Quiet \/ Comes
          \/ \E e \in FDs : Read(e) \/ Ends(e)
          \/ \E c \in Conns : ClientStep(c)
      BY <2>1, <2>4, Steps
    <3>3. Serving'
      BY <1>1, <2>1, <3>2, QuietKeeps, ComesKeeps, ReadKeeps, EndsKeeps, ClientKeeps
    <3> QED
      BY <3>1, <3>3 DEF RolesInv
  <2> QED
    BY <2>2, <2>3, <2>4
<1> QED
  BY <1>2, <1>3

-----------------------------------------------------------------------------
(* Nobody is ended as inactive: visits are short, or made one at a time.   *)

(* The connection in the slot is watched, and its client has not vanished. *)
LEMMA InSlot ==
    ASSUME PersistentLasts, TypeInv, Serving, non_persistent_fd # NoFd
    PROVE  /\ non_persistent_fd \in registered /\ IsOpen(non_persistent_fd)
           /\ owner[non_persistent_fd] \in Others
           /\ Established(owner[non_persistent_fd])
           /\ peer[owner[non_persistent_fd]] # "new"
           /\ Ready = {} => Connected(owner[non_persistent_fd])
                            /\ inbox[owner[non_persistent_fd]] = 0
<1> DEFINE np == non_persistent_fd
           c == owner[np]
<1>1. np \in OpenFds /\ c \in Others /\ c \in Conns
  BY WhoIsWhere DEF Others
<1>2. SocketTypeOK /\ EachOnce
  BY DEF TypeInv, TypeOK, Serving
<1>3. np \in registered /\ IsOpen(np)
  BY <1>1 DEF Serving, Roles, Slots, IsOpen
<1>4. Established(c)
  BY <1>1, <1>2, EstablishedWhere
<1>5. peer[c] # "new" /\ peer[c] \in {"new", "open", "gone"} /\ inbox[c] \in Nat
  BY <1>1, <1>2 DEF EachOnce, SocketTypeOK
<1>6. ASSUME Ready = {} PROVE Connected(c) /\ inbox[c] = 0
  <2>1. ~HasData(np) /\ peer[c] # "gone"
    BY <1>3, <1>6 DEF Ready
  <2> QED
    BY <1>3, <1>4, <1>5, <2>1 DEF HasData, Connected
<1> QED
  BY <1>1, <1>3, <1>4, <1>5, <1>6

(* Steps that leave the slot and the queue as they are.                    *)
LEMMA SlotFrame ==
    ASSUME NEW e,
           \/ Quiet /\ ~Second
           \/ PersistentComes \/ OtherIsTurnedAway \/ Read(e) \/ PersistentEnds(e)
           \/ \E c \in Conns : ClientStep(c)
           \/ UNCHANGED serverVars
    PROVE  UNCHANGED <<non_persistent_fd, np_age, queue>>
BY DEF Quiet, LoopTest, TimeoutStop, Collect, AcceptFails, Signal, PersistentComes,
       AcceptPersistent, OtherIsTurnedAway, AcceptRejected, Read, SpuriousEvent,
       PersistentData, NonPersistentData, PersistentEnds, ClosePersistent, ClientStep,
       ServerUnchanged, slotVars, serverVars

(* A second passes only while the slot is empty.                           *)
LEMMA JustComeKept ==
    ASSUME ShortVisits, TypeInv, Serving, pc # "exited", JustCome,
           [ServerNext]_serverVars, ~ReapInactive
    PROVE  JustCome'
<1>1. PersistentLasts /\ Others \subseteq Brisk
  BY DEF ShortVisits
<1>2. non_persistent_fd # NoFd =>
            np_age = 0 /\ \A i \in 1 .. Len(queue) : queue[i].age = 0
  BY DEF JustCome
<1>3. CASE UNCHANGED <<non_persistent_fd, np_age, queue>>
  BY <1>2, <1>3 DEF JustCome
<1>4. CASE Second
  <2>1. non_persistent_fd = NoFd
    BY <1>1, <1>4, InSlot DEF Second, Busy
  <2> QED
    BY <1>4, <2>1 DEF Second, JustCome
<1>5. CASE OtherIsServed
  <2>1. np_age' = 0 /\ queue' = queue /\ non_persistent_fd = NoFd
    BY <1>5 DEF OtherIsServed, AcceptNonPersistent
  <2>2. queue = <<>>
    BY <2>1 DEF Serving, Roles
  <2> QED
    BY <2>1, <2>2 DEF JustCome
<1>6. CASE OtherWaits
  <2> DEFINE w == [fd |-> LowestFree, age |-> 0]
  <2>1. /\ non_persistent_fd # NoFd /\ queue' = Append(queue, w)
        /\ UNCHANGED <<non_persistent_fd, np_age>> /\ w.age = 0
    BY <1>6 DEF OtherWaits, AcceptQueued, BothActive
  <2>2. LowestFree \in FDs
    BY <1>6, LowestFreeIsFree DEF OtherWaits, Opens, AcceptEvent, FreeFds
  <2>3. queue \in Seq(Waiting) /\ w \in Waiting
    BY <2>2, LimitsAreNat DEF TypeInv, TypeOK, Waiting, Ages
  <2> HIDE DEF w
  <2>4. /\ Len(queue) \in Nat /\ Len(queue') = Len(queue) + 1
        /\ \A i \in 1 .. Len(queue) : queue'[i] = queue[i]
        /\ queue'[Len(queue) + 1] = w
    BY <2>1, <2>3, AppendProperties, LenProperties
  <2>5. \A i \in 1 .. Len(queue') : i \in 1 .. Len(queue) \/ i = Len(queue) + 1
    BY <2>4
  <2> QED
    BY <1>2, <2>1, <2>4, <2>5 DEF JustCome
<1>7. ASSUME NEW e \in FDs, SlotEmpties(e) PROVE JustCome'
  BY <1>7 DEF SlotEmpties, EndNobodyWaits, JustCome
<1>8. ASSUME NEW e \in FDs, SlotPasses(e) PROVE JustCome'
  <2>1. /\ non_persistent_fd # NoFd /\ queue # <<>>
        /\ np_age' = Head(queue).age /\ queue' = Tail(queue)
    BY <1>8, NoFdApart DEF SlotPasses, EndPromote, CloseNonPersistent
  <2>2. /\ Head(queue) = queue[1] /\ 1 \in 1 .. Len(queue)
        /\ \A i \in 1 .. Len(queue') :
                 queue'[i] = queue[i + 1] /\ i + 1 \in 1 .. Len(queue)
    BY <2>1, QueueTail
  <2> QED
    BY <1>2, <2>1, <2>2 DEF JustCome
<1>9. CASE Exit
  BY <1>9 DEF Exit, JustCome
<1> QED
  BY <1>1, <1>3, <1>4, <1>5, <1>6, <1>7, <1>8, <1>9, Steps, SlotFrame DEF Comes, Ends, Quiet

(* Whoever came a moment ago is not inactive.                              *)
LEMMA NoReapShort ==
    ASSUME PersistentLasts, TypeInv, pc # "exited", JustCome
    PROVE  ~ReapInactive
BY LimitsAreNat DEF PersistentLasts, JustCome, ReapInactive, Inactive


-----------------------------------------------------------------------------
(* One connection after the other: nobody meets another in the slot.       *)

(* Nothing the server does lets a connection appear or touches a client.   *)
LEMMA NobodyAppears ==
    ASSUME PersistentLasts, TypeInv, TypeInv', Serving,
           \/ Quiet \/ Comes \/ UNCHANGED serverVars
           \/ \E e \in FDs : Read(e) \/ Ends(e)
    PROVE  peer' = peer /\ \A c \in Conns : Established(c)' => Established(c)
<1>0. SocketTypeOK /\ EachOnce
  BY DEF TypeInv, TypeOK, Serving
<1>1. UNCHANGED <<peer, backlog, owner>> =>
            peer' = peer /\ \A c \in Conns : Established(c)' => Established(c)
  BY DEF Established
<1>2. CASE Quiet \/ UNCHANGED serverVars
  BY <1>1, <1>2 DEF Quiet, LoopTest, Second, TimeoutStop, Collect, AcceptFails, Signal,
        serverVars, sockVars
<1>3. ASSUME NEW e \in FDs, Read(e)
      PROVE  peer' = peer /\ \A c \in Conns : Established(c)' => Established(c)
  BY <1>1, <1>3 DEF Read, SpuriousEvent, PersistentData, NonPersistentData, Take, sockVars
<1>4. CASE PersistentComes \/ OtherIsServed \/ OtherWaits
  <2>1. AcceptEvent => LowestFree \in FDs
    BY LowestFreeIsFree DEF AcceptEvent, FreeFds
  <2>2. PICK adding \in SUBSET FDs : Opens(adding)
    BY <1>4, <2>1 DEF PersistentComes, OtherIsServed, OtherWaits, Opens
  <2> QED
    BY <2>2, OpensOne
<1>5. CASE OtherIsTurnedAway
  <2>1. AcceptAndClose /\ backlog # <<>>
    BY <1>5 DEF OtherIsTurnedAway, AcceptRejected
  <2> QED
    BY <1>0, <2>1, RejectEstablished DEF AcceptAndClose
<1>6. ASSUME NEW e \in FDs, Ends(e)
      PROVE  peer' = peer /\ \A c \in Conns : Established(c)' => Established(c)
  <2>1. HasEnded(e)
    BY <1>6 DEF Ends, PersistentEnds, SlotEmpties, SlotPasses
  <2>2. PICK adding \in SUBSET FDs : CloseAndAdd({e}, adding)
    <3>1. {} \in SUBSET FDs
      OBVIOUS
    <3>2. queue # <<>> => {Head(queue).fd} \in SUBSET FDs
      <4>1. queue # <<>> => Head(queue) \in Waiting
        BY HeadTailProperties DEF TypeInv, TypeOK
      <4> QED
        BY <4>1 DEF Waiting
    <3> QED
      BY <1>6, <3>1, <3>2 DEF Ends, PersistentEnds, SlotEmpties, SlotPasses,
            EndNobodyWaits, EndPromote
  <2> QED
    BY <2>1, <2>2, ClosesOne
<1> QED
  BY <1>2, <1>3, <1>4, <1>5, <1>6 DEF Comes

(* A connection of non.c waits for the earlier ones, so that it never      *)
(* finds the slot taken.                                                   *)
LEMMA NobodyMeets ==
    ASSUME OneAtATime, TypeInv, Serving, pc # "exited", InTurn,
           backlog # <<>>, persistent_fd # NoFd
    PROVE  non_persistent_fd = NoFd
<1> SUFFICES ASSUME non_persistent_fd # NoFd PROVE FALSE
  OBVIOUS
<1> DEFINE c == owner[non_persistent_fd]
           d == Head(backlog)
<1>1. PersistentLasts /\ SocketTypeOK
  BY DEF OneAtATime, TypeInv, TypeOK
<1>2. non_persistent_fd \in OpenFds /\ c \in Others /\ peer[c] # "new" /\ Established(c)
  BY <1>1, WhoIsWhere, InSlot
<1>3. d = backlog[1] /\ 1 \in 1 .. Len(backlog) /\ d \in Others
  BY <1>1, WhoComes
<1>4. peer[d] # "new" /\ d # c
  BY <1>2, <1>3 DEF Serving, EachOnce
<1>5. Established(d)
  BY <1>1, <1>3, EstablishedWhere DEF Others
<1>6. c \in Ended[d] \/ d \in Ended[c]
  BY <1>2, <1>3, <1>4 DEF OneAtATime
<1> HIDE DEF c, d
<1> QED
  BY <1>2, <1>3, <1>4, <1>5, <1>6 DEF InTurn

(* So a connection that comes is the persistent one or is served at once,  *)
(* and the one that leaves leaves an empty slot.                           *)
LEMMA NobodyWaits ==
    ASSUME OneAtATime, TypeInv, Serving, pc # "exited", InTurn
    PROVE  ~OtherWaits /\ ~OtherIsTurnedAway /\ \A e : ~SlotPasses(e)
<1>1. ~OtherWaits /\ ~OtherIsTurnedAway
  BY NobodyMeets DEF OtherWaits, OtherIsTurnedAway, AcceptQueued, AcceptRejected,
                     BothActive, Opens
<1>2. \A e : ~SlotPasses(e)
  BY DEF SlotPasses, EndPromote, InTurn
<1> QED
  BY <1>1, <1>2

(* The clients keep their turn.                                            *)
LEMMA InTurnKept ==
    ASSUME OneAtATime, TypeInv, TypeInv', Serving, pc # "exited", InTurn,
           [ServerNext]_serverVars, ~ReapInactive
    PROVE  InTurn'
<1>1. PersistentLasts /\ Others \subseteq Conns /\ SocketTypeOK
  BY DEF OneAtATime, Others, TypeInv, TypeOK
<1>2. \A d \in Others : Ended[d] \subseteq Conns
  BY <1>1, SocketAssumption
<1>3. \/ Quiet \/ Comes \/ Exit \/ UNCHANGED serverVars
      \/ \E e \in FDs : Read(e) \/ Ends(e)
      \/ \E c \in Conns : ClientStep(c)
  BY <1>1, Steps
<1>4. queue = <<>> /\ \A d \in Others : \A c \in Ended[d] :
                peer[d] # "new" => peer[c] = "gone" /\ ~Established(c)
  BY DEF InTurn
<1>5. queue' = <<>>
  <2>1. CASE Second
    <3>1. queue' \in Seq(Waiting) /\ Len(queue') = 0
      BY <1>4, <2>1, SecondKeepsQueue DEF TypeInv, TypeOK
    <3> QED
      BY <3>1, EmptySeq
  <2>2. ASSUME NEW e \in FDs, SlotEmpties(e) PROVE queue' = queue
    BY <2>2 DEF SlotEmpties, EndNobodyWaits
  <2>3. CASE OtherIsServed
    BY <1>4, <2>3 DEF OtherIsServed, AcceptNonPersistent
  <2>4. CASE Exit
    BY <2>4 DEF Exit
  <2> QED
    BY <1>3, <1>4, <2>1, <2>2, <2>3, <2>4, NobodyWaits, SlotFrame, NoFdApart
       DEF Comes, Ends, Quiet
<1>6. ASSUME pc' # "exited", NEW d \in Others, NEW c \in Ended[d], peer'[d] # "new"
      PROVE  peer'[c] = "gone" /\ ~Established(c)'
  <2>1. c \in Conns /\ d \in Conns
    BY <1>1, <1>2
  <2>2. CASE peer' = peer /\ \A x \in Conns : Established(x)' => Established(x)
    BY <1>4, <1>6, <2>1, <2>2
  <2>3. ASSUME NEW x \in Conns, ClientStep(x)
        PROVE  peer'[c] = "gone" /\ ~Established(c)'
    <3>1. Connect(x) \/ Deliver(x) \/ Hangup(x)
      BY <2>3 DEF ClientStep
    <3>2. \A y \in Conns : (y # x \/ ~Connect(x)) => (Established(y)' <=> Established(y))
      BY <1>1, <3>1, ClientEstablished
    <3>3. peer \in [Conns -> {"new", "open", "gone"}]
      BY <1>1 DEF SocketTypeOK
    <3>4. CASE Connect(x)
      <4>1. peer[x] = "new" /\ peer' = [peer EXCEPT ![x] = "open"]
        BY <3>4 DEF Connect
      <4>2. peer[c] = "gone" /\ ~Established(c)
        <5>1. CASE d = x
          BY <3>4, <5>1 DEF Connect
        <5>2. CASE d # x
          BY <1>4, <1>6, <2>1, <3>3, <4>1, <5>2
        <5> QED
          BY <5>1, <5>2
      <4>3. c # x
        BY <4>1, <4>2
      <4> QED
        BY <2>1, <3>2, <3>3, <4>1, <4>2, <4>3
    <3>5. CASE Deliver(x)
      <4>1. peer' = peer /\ ~Connect(x)
        BY <3>5 DEF Deliver, Connect
      <4> QED
        BY <1>4, <1>6, <2>1, <3>2, <4>1
    <3>6. CASE Hangup(x)
      <4>1. peer' = [peer EXCEPT ![x] = "gone"] /\ peer[x] = "open"
        BY <3>6 DEF Hangup
      <4>2. peer[d] # "new" /\ ~Connect(x)
        BY <1>6, <2>1, <3>3, <4>1 DEF Connect
      <4>3. peer[c] = "gone" /\ ~Established(c)
        BY <1>4, <4>2
      <4> QED
        BY <2>1, <3>2, <3>3, <4>1, <4>2, <4>3
    <3> QED
      BY <3>1, <3>4, <3>5, <3>6
  <2>4. ~Exit
    BY <1>6 DEF Exit
  <2> QED
    BY <1>1, <1>3, <2>2, <2>3, <2>4, NobodyAppears
<1> QED
  BY <1>5, <1>6 DEF InTurn


(* Nothing is read before it is accepted, and what is read of the          *)
(* connection in the slot is counted.                                      *)
LEMMA ReadSoFarKept ==
    ASSUME OneAtATime, TypeInv, TypeInv', Serving, pc # "exited", InTurn, ReadSoFar,
           [ServerNext]_serverVars, ~ReapInactive
    PROVE  ReadSoFar'
<1> DEFINE Unread(c) == sent[c] = inbox[c]
           np == non_persistent_fd
           Waits(c) == peer[c] = "new" \/ \E i \in 1 .. Len(backlog) : backlog[i] = c
           Goal == /\ \A c \in Conns : Waits(c)' => sent'[c] = inbox'[c]
                   /\ np' = NoFd => nonper_bytes_read' = 0
                   /\ np' # NoFd =>
                         nonper_bytes_read' = sent'[owner'[np']] - inbox'[owner'[np']]
<1>1. PersistentLasts /\ SocketTypeOK /\ EachOnce
  BY DEF OneAtATime, TypeInv, TypeOK, Serving
<1>2. /\ sent \in [Conns -> Nat] /\ inbox \in [Conns -> Nat]
      /\ peer \in [Conns -> {"new", "open", "gone"}] /\ nonper_bytes_read \in Nat
      /\ backlog \in Seq(Conns) /\ \A i \in 1 .. Len(backlog) : backlog[i] \in Conns
  BY ElementOfSeq DEF TypeInv, TypeOK, SocketTypeOK
<1>3. /\ \A c \in Conns : Waits(c) => Unread(c)
      /\ np = NoFd => nonper_bytes_read = 0
      /\ np # NoFd => nonper_bytes_read = sent[owner[np]] - inbox[owner[np]]
  BY <1>2 DEF ReadSoFar
<1>4. np # NoFd => /\ np \in OpenFds /\ np \in FDs
                   /\ owner[np] \in Others /\ owner[np] \in Conns
  BY <1>1, WhoIsWhere DEF Others
<1>5. \A f \in OpenFds : ~Waits(owner[f])
  BY <1>1, <1>2 DEF EachOnce
<1>6. SUFFICES ASSUME pc' # "exited"
               PROVE  Goal
  <2>1. SocketTypeOK'
    BY DEF TypeInv, TypeOK
  <2>2. \A i \in 1 .. Len(backlog') : backlog'[i] \in Conns
    BY <2>1, ElementOfSeq DEF SocketTypeOK
  <2> QED
    BY <1>6, <2>2 DEF ReadSoFar
<1> HIDE DEF np
<1>7. CASE UNCHANGED <<peer, sent, inbox, backlog, owner, np, nonper_bytes_read>>
  BY <1>3, <1>4, <1>7
<1>8. ASSUME NEW e \in FDs, DataEvent(e), Take(e, Received(e)), UNCHANGED np,
             nonper_bytes_read' =
                nonper_bytes_read + (IF e = np THEN Received(e) ELSE 0)
      PROVE  Goal
  <2>1. /\ e \in OpenFds /\ owner[e] \in Conns /\ Received(e) \in Nat
        /\ inbox' = [inbox EXCEPT ![owner[e]] = @ - Received(e)]
        /\ UNCHANGED <<peer, sent, backlog, owner>>
    BY <1>8, DataTyped DEF TypeInv, Take, DataEvent, HasData, IsOpen
  <2>2. /\ inbox'[owner[e]] = inbox[owner[e]] - Received(e)
        /\ \A c \in Conns : c # owner[e] => inbox'[c] = inbox[c]
    BY <1>2, <2>1
  <2>3. \A c \in Conns : Waits(c)' => sent'[c] = inbox'[c]
    BY <1>3, <1>5, <2>1, <2>2
  <2>4. np # NoFd /\ e # np => owner[np] # owner[e]
    BY <1>1, <1>4, <2>1 DEF EachOnce
  <2>5. np # NoFd /\ e # np => nonper_bytes_read' = sent'[owner'[np]] - inbox'[owner'[np]]
    BY <1>2, <1>3, <1>4, <1>8, <2>1, <2>2, <2>4
  <2>6. np # NoFd /\ e = np => nonper_bytes_read' = sent'[owner'[np]] - inbox'[owner'[np]]
    BY <1>2, <1>3, <1>4, <1>8, <2>1, <2>2
  <2>7. np = NoFd => nonper_bytes_read' = 0
    BY <1>3, <1>8, NoFdApart
  <2> QED
    BY <1>8, <2>3, <2>5, <2>6, <2>7
<1>9. CASE Quiet \/ UNCHANGED serverVars
  <2>1. UNCHANGED <<peer, sent, inbox, backlog, owner, np, nonper_bytes_read>>
    BY <1>9 DEF Quiet, LoopTest, Second, TimeoutStop, Collect, AcceptFails, Signal,
          serverVars, sockVars, slotVars, byteVars, np
  <2> QED
    BY <1>7, <2>1
<1>10. ASSUME NEW e \in FDs, Read(e) PROVE Goal
  <2>1. CASE SpuriousEvent(e)
    <3>1. UNCHANGED <<peer, sent, inbox, backlog, owner, np, nonper_bytes_read>>
      BY <2>1 DEF SpuriousEvent, sockVars, slotVars, byteVars, np
    <3> QED
      BY <1>7, <3>1
  <2>2. CASE PersistentData(e)
    <3>1. /\ DataEvent(e) /\ Take(e, Received(e)) /\ e = persistent_fd
          /\ UNCHANGED <<np, nonper_bytes_read>>
      BY <2>2 DEF PersistentData, slotVars, np
    <3>2. e # np
      BY <3>1, NoFdApart DEF Serving, Roles, np
    <3>3. nonper_bytes_read' = nonper_bytes_read + 0
      BY <1>2, <3>1
    <3> QED
      BY <1>8, <3>1, <3>2, <3>3
  <2>3. CASE NonPersistentData(e)
    <3>1. /\ DataEvent(e) /\ Take(e, Received(e)) /\ e = np /\ UNCHANGED np
          /\ nonper_bytes_read' = nonper_bytes_read + Received(e)
      BY <2>3 DEF NonPersistentData, slotVars, np
    <3> QED
      BY <1>8, <3>1
  <2> QED
    BY <1>10, <2>1, <2>2, <2>3 DEF Read
<1>11. ASSUME Opens({LowestFree}) PROVE
            /\ \A c \in Conns : Waits(c)' => Waits(c)
            /\ UNCHANGED <<sent, inbox>>
            /\ owner'[LowestFree] = Head(backlog)
            /\ \A f \in OpenFds : owner'[f] = owner[f]
  <2>1. {LowestFree} \in SUBSET FDs
    BY <1>11, LowestFreeIsFree DEF Opens, AcceptEvent, FreeFds
  <2>2. /\ UNCHANGED <<peer, sent, inbox>> /\ backlog' = Tail(backlog)
        /\ owner'[LowestFree] = Head(backlog)
        /\ \A f \in OpenFds : owner'[f] = owner[f]
    BY <1>1, <1>11, <2>1, OpensOne
  <2>3. \A i \in 1 .. Len(backlog') :
            backlog'[i] = backlog[i + 1] /\ i + 1 \in 1 .. Len(backlog)
    BY <1>1, <1>11, <2>2, BacklogTail DEF Opens
  <2> QED
    BY <2>2, <2>3
<1>12. CASE PersistentComes
  <2>1. Opens({LowestFree}) /\ UNCHANGED <<np, nonper_bytes_read>>
    BY <1>12 DEF PersistentComes, AcceptPersistent, byteVars, np
  <2> QED
    BY <1>3, <1>4, <1>11, <2>1
<1>13. CASE OtherIsServed
  <2>1. /\ Opens({LowestFree}) /\ nonper_bytes_read' = nonper_bytes_read
        /\ np = NoFd /\ np' = LowestFree /\ backlog # <<>>
    BY <1>13 DEF OtherIsServed, AcceptNonPersistent, Opens, byteVars, np
  <2>2. LowestFree \in FDs
    BY <2>1, LowestFreeIsFree DEF Opens, AcceptEvent, FreeFds
  <2>3. Head(backlog) \in Conns /\ Waits(Head(backlog))
    <3>1. Head(backlog) = backlog[1] /\ 1 \in 1 .. Len(backlog)
      BY <1>1, <2>1, WhoComes
    <3> QED
      BY <1>2, <3>1
  <2>4. sent[Head(backlog)] - inbox[Head(backlog)] = 0
    BY <1>2, <1>3, <2>3
  <2> QED
    BY <1>3, <1>11, <2>1, <2>2, <2>4, NoFdApart
<1>14. ASSUME NEW e \in FDs, PersistentEnds(e) \/ SlotEmpties(e) PROVE Goal
  <2>1. CloseAndAdd({e}, {}) /\ HasEnded(e) /\ {} \in SUBSET FDs
    BY <1>14 DEF PersistentEnds, SlotEmpties, EndNobodyWaits
  <2>2. /\ OpenFds' = OpenFds \ {e} /\ \A f \in OpenFds' : owner'[f] = owner[f]
        /\ UNCHANGED <<peer, sent, inbox, backlog>>
    BY <1>1, <2>1, ClosesOne
  <2>3. CASE PersistentEnds(e)
    <3>1. UNCHANGED <<np, nonper_bytes_read>> /\ e = persistent_fd
      BY <2>3 DEF PersistentEnds, ClosePersistent, byteVars, np
    <3>2. e # np
      BY <3>1, NoFdApart DEF Serving, Roles, np
    <3> QED
      BY <1>3, <1>4, <2>2, <3>1, <3>2
  <2>4. CASE SlotEmpties(e)
    <3>1. np' = NoFd /\ nonper_bytes_read' = 0
      BY <2>4 DEF SlotEmpties, EndNobodyWaits, ResetCounters, np
    <3> QED
      BY <1>3, <2>2, <3>1
  <2> QED
    BY <1>14, <2>3, <2>4
<1>15. ASSUME NEW c \in Conns, ClientStep(c) PROVE Goal
  <2>1. UNCHANGED <<owner, np, nonper_bytes_read>>
    BY <1>15 DEF ClientStep, Connect, Deliver, Hangup, ServerUnchanged, slotVars, byteVars, np
  <2>2. CASE Connect(c)
    <3>1. /\ peer[c] = "new" /\ peer' = [peer EXCEPT ![c] = "open"]
          /\ backlog' = Append(backlog, c) /\ UNCHANGED <<sent, inbox>>
      BY <2>2 DEF Connect
    <3>2. /\ Len(backlog) \in Nat /\ Len(backlog') = Len(backlog) + 1
          /\ \A i \in 1 .. Len(backlog) : backlog'[i] = backlog[i]
          /\ backlog'[Len(backlog) + 1] = c
      BY <1>2, <3>1, AppendProperties, LenProperties
    <3>3. \A i \in 1 .. Len(backlog') : i \in 1 .. Len(backlog) \/ i = Len(backlog) + 1
      BY <3>2
    <3>4. \A d \in Conns : Waits(d)' => Waits(d)
      BY <1>2, <3>1, <3>2, <3>3
    <3> QED
      BY <1>3, <1>4, <2>1, <3>1, <3>4
  <2>3. CASE Deliver(c)
    <3>1. /\ sent' = [sent EXCEPT ![c] = @ + 1] /\ inbox' = [inbox EXCEPT ![c] = @ + 1]
          /\ UNCHANGED <<peer, backlog>>
      BY <2>3 DEF Deliver
    <3>2. \A d \in Conns : /\ Unread(d) => sent'[d] = inbox'[d]
                           /\ sent'[d] - inbox'[d] = sent[d] - inbox[d]
      BY <1>2, <3>1
    <3> QED
      BY <1>3, <1>4, <2>1, <3>1, <3>2
  <2>4. CASE Hangup(c)
    <3>1. /\ peer' = [peer EXCEPT ![c] = "gone"] /\ UNCHANGED <<sent, inbox, backlog>>
      BY <2>4 DEF Hangup
    <3>2. \A d \in Conns : Waits(d)' => Waits(d)
      BY <1>2, <3>1
    <3> QED
      BY <1>3, <1>4, <2>1, <3>1, <3>2
  <2> QED
    BY <1>15, <2>2, <2>3, <2>4 DEF ClientStep
<1>16. ~Exit
  BY <1>6 DEF Exit
<1> QED
  BY <1>1, <1>9, <1>10, <1>12, <1>13, <1>14, <1>15, <1>16, Steps, NobodyWaits
     DEF Comes, Ends

(* A client whose connection has been in the slot for a second has sent    *)
(* something, and it has been read.                                        *)
LEMMA HeardKept ==
    ASSUME OneAtATime, TypeInv, Serving, pc # "exited", InTurn, ReadSoFar, Heard,
           [ServerNext]_serverVars, ~ReapInactive
    PROVE  Heard'
<1>1. PersistentLasts
  BY DEF OneAtATime
<1>2. non_persistent_fd # NoFd /\ np_age > 0 => nonper_bytes_read > 0
  BY DEF Heard
<1>3. CASE UNCHANGED <<non_persistent_fd, np_age, nonper_bytes_read>>
  BY <1>2, <1>3 DEF Heard
<1>4. CASE Second
  <2>1. UNCHANGED <<non_persistent_fd, nonper_bytes_read>> /\ Ready = {} /\ ~Busy
    BY <1>4 DEF Second, byteVars
  <2>2. ASSUME non_persistent_fd # NoFd PROVE nonper_bytes_read > 0
    <3> DEFINE c == owner[non_persistent_fd]
    <3>1. c \in Others /\ Connected(c) /\ inbox[c] = 0
      BY <1>1, <2>1, <2>2, InSlot
    <3>2. c \in Prompt /\ Units[c] > 0
      BY <3>1 DEF OneAtATime
    <3>3. sent[c] # 0
      BY <2>1, <3>1, <3>2 DEF Busy
    <3>4. nonper_bytes_read = sent[c] - inbox[c]
      BY <2>2 DEF ReadSoFar
    <3>5. sent[c] \in Nat
      BY <3>1 DEF Others, TypeInv, TypeOK, SocketTypeOK
    <3> HIDE DEF c
    <3> QED
      BY <3>1, <3>3, <3>4, <3>5
  <2> QED
    BY <2>1, <2>2 DEF Heard
<1>5. ASSUME NEW e \in FDs, Read(e) PROVE Heard'
  <2>1. CASE SpuriousEvent(e) \/ PersistentData(e)
    BY <1>3, <2>1 DEF SpuriousEvent, PersistentData, slotVars, byteVars
  <2>2. CASE NonPersistentData(e)
    <3>1. /\ UNCHANGED <<non_persistent_fd, np_age>>
          /\ nonper_bytes_read' = nonper_bytes_read + Received(e) /\ DataEvent(e)
      BY <2>2 DEF NonPersistentData, slotVars
    <3>2. Received(e) \in Nat /\ nonper_bytes_read \in Nat
      BY <3>1, DataTyped DEF TypeInv, TypeOK
    <3> QED
      BY <1>2, <3>1, <3>2 DEF Heard
  <2> QED
    BY <1>5, <2>1, <2>2 DEF Read
<1>6. CASE OtherIsServed
  BY <1>6 DEF OtherIsServed, AcceptNonPersistent, Heard
<1>7. ASSUME NEW e, SlotEmpties(e) PROVE Heard'
  BY <1>7 DEF SlotEmpties, EndNobodyWaits, Heard
<1>8. ASSUME NEW e, \/ Quiet /\ ~Second
                    \/ PersistentComes \/ PersistentEnds(e) \/ UNCHANGED serverVars
                    \/ \E c \in Conns : ClientStep(c)
      PROVE  Heard'
  BY <1>3, <1>8 DEF Quiet, LoopTest, TimeoutStop, Collect, AcceptFails, Signal, PersistentComes,
       AcceptPersistent, PersistentEnds, ClosePersistent, ClientStep,
       ServerUnchanged, slotVars, byteVars, serverVars
<1>9. CASE Exit
  BY <1>9 DEF Exit, Heard
<1> QED
  BY <1>1, <1>4, <1>5, <1>6, <1>7, <1>8, <1>9, Steps, NobodyWaits DEF Comes, Ends, Quiet

(* Whoever was heard is not inactive.                                      *)
LEMMA NoReapInTurn ==
    ASSUME PersistentLasts, TypeInv, pc # "exited", Heard
    PROVE  ~ReapInactive
BY LimitsAreNat DEF PersistentLasts, Heard, ReapInactive, Inactive, TypeInv, TypeOK, Ages


-----------------------------------------------------------------------------
(* What holds in every state of either deployment.                         *)

RunInv ==
    /\ RolesInv
    /\ ShortVisits => JustCome
    /\ OneAtATime => InTurn /\ ReadSoFar /\ Heard

(* Nobody is connected at the start.                                       *)
LEMMA RunInit == ASSUME PersistentLasts, ServerInit PROVE RunInv
<1>1. /\ \A c \in Conns : peer[c] = "new" /\ sent[c] = 0 /\ inbox[c] = 0
      /\ backlog = <<>> /\ \A f \in FDs : owner[f] = NoConn
      /\ registered = {} /\ batch = {} /\ queue = <<>> /\ pc # "exited"
      /\ persistent_fd = NoFd /\ non_persistent_fd = NoFd
      /\ active_clients = 0 /\ nonper_bytes_read = 0
  BY DEF ServerInit, SocketInit
<1>2. p1 \in Conns /\ Others \subseteq Conns
  BY DEF PersistentLasts, Others
<1>3. OpenFds = {} /\ Slots = {} /\ Queued = {}
  BY <1>1 DEF OpenFds, Slots, Queued
<1>4. Cardinality(OpenFds) = 0
  BY <1>3, FS_EmptySet
<1>5. EachOnce
  BY <1>1, <1>3 DEF EachOnce
<1>6. PersistentFirst
  BY <1>1, <1>2 DEF PersistentFirst
<1>7. Roles
  BY <1>1, <1>3, <1>4 DEF Roles
<1>8. RolesInv /\ JustCome /\ InTurn /\ Heard
  BY <1>1, <1>2, <1>5, <1>6, <1>7 DEF RolesInv, Serving, JustCome, InTurn, Heard
<1>9. ReadSoFar
  BY <1>1 DEF ReadSoFar
<1> QED
  BY <1>8, <1>9 DEF RunInv

(* No connection is ended for inactivity.                                  *)
LEMMA NobodyReaped == ASSUME Deployed, TypeInv, RunInv PROVE PersistentLasts /\ ~ReapInactive
<1>1. PersistentLasts
  BY DEF Deployed, ShortVisits, OneAtATime
<1>2. pc = "exited" => ~ReapInactive
  BY DEF ReapInactive, EpollReturns
<1>3. pc # "exited" => ~ReapInactive
  BY <1>1, NoReapShort, NoReapInTurn DEF Deployed, RunInv
<1> QED
  BY <1>1, <1>2, <1>3

(* Every step keeps all of it.                                             *)
LEMMA RunStep ==
    ASSUME Deployed, TypeInv, RunInv, [ServerNext]_serverVars
    PROVE  RunInv'
<1>1. PersistentLasts /\ ~ReapInactive
  BY NobodyReaped
<1>2. TypeInv' /\ RolesInv'
  BY <1>1, StepTyped, RolesKept DEF RunInv
<1>3. CASE pc = "exited"
  <2>1. pc' = "exited"
    BY <1>3, ServerExited DEF RunInv, RolesInv, Over
  <2> QED
    BY <1>2, <2>1 DEF RunInv, JustCome, InTurn, ReadSoFar, Heard
<1>4. CASE pc # "exited"
  <2>1. Serving
    BY <1>4 DEF RunInv, RolesInv
  <2>2. ShortVisits => JustCome'
    BY <1>1, <1>4, <2>1, JustComeKept DEF RunInv
  <2>3. OneAtATime => InTurn' /\ ReadSoFar' /\ Heard'
    BY <1>1, <1>2, <1>4, <2>1, InTurnKept, ReadSoFarKept, HeardKept DEF RunInv
  <2> QED
    BY <1>2, <2>2, <2>3 DEF RunInv
<1> QED
  BY <1>3, <1>4

(* So it holds for ever.                                                   *)
LEMMA RunAlways == ASSUME Deployed PROVE ServerSpec => []RunInv
<1>1. ServerInit => RunInv
  BY RunInit DEF Deployed, ShortVisits, OneAtATime
<1>2. TypeInv /\ RunInv /\ [ServerNext]_serverVars => RunInv'
  BY RunStep
<1> QED
  BY <1>1, <1>2, ServerTypeCorrect, PTL DEF ServerSpec

-----------------------------------------------------------------------------
(* The connection layer.                                                   *)

(* The inductive invariant says what PlacesDisjoint does.                  *)
LEMMA RunPlaces == ASSUME Deployed, TypeInv, RunInv PROVE PlacesDisjoint
<1>1. queue \in Seq(Waiting) /\ DOMAIN queue = 1 .. Len(queue)
  BY LenProperties DEF TypeInv, TypeOK
<1>2. PersistentLasts
  BY DEF Deployed, ShortVisits, OneAtATime
<1>3. CASE pc = "exited"
  <2>1. queue = <<>> /\ (persistent_fd # NoFd => persistent_fd # non_persistent_fd)
    BY <1>3 DEF RunInv, RolesInv, Over
  <2>2. DOMAIN queue = {}
    BY <2>1
  <2> QED
    BY <1>3, <2>1, <2>2 DEF PlacesDisjoint
<1>4. CASE pc # "exited"
  <2>1. Serving
    BY <1>4 DEF RunInv, RolesInv
  <2>2. /\ persistent_fd # NoFd => IsOpen(persistent_fd)
        /\ non_persistent_fd # NoFd => IsOpen(non_persistent_fd)
        /\ \A i \in 1 .. Len(queue) : queue[i].fd \in OpenFds
    BY <1>2, <2>1, WhoIsWhere DEF IsOpen
  <2>3. ASSUME NEW i \in 1 .. Len(queue)
        PROVE  queue[i].fd \notin {persistent_fd, non_persistent_fd} \cup registered
    <3>1. queue[i].fd \in Queued /\ queue[i].fd # NoFd
      BY <2>2, NoFdApart DEF Queued, OpenFds
    <3> QED
      BY <2>1, <3>1 DEF Serving, Roles, Slots
  <2> QED
    BY <1>1, <2>1, <2>2, <2>3 DEF PlacesDisjoint, Serving, Roles, IsOpen
<1> QED
  BY <1>3, <1>4

(* In either deployment a reachable descriptor has one role, whatever the  *)
(* order of the connections, the events and the numbers that accept uses   *)
(* again (lines 340, 376, 386, 397).                                       *)
THEOREM OneRoleEach == ASSUME Deployed PROVE ServerSpec => []PlacesDisjoint
<1>1. TypeInv /\ RunInv => PlacesDisjoint
  BY RunPlaces
<1> QED
  BY <1>1, ServerTypeCorrect, RunAlways, PTL

(* In either deployment active_clients is the number of open connections   *)
(* (lines 292, 369, 497), also while the counters of the report are kept.  *)
THEOREM CountExact ==
    ASSUME Deployed
    PROVE  (ServerSpec => []ActiveClientsExact) /\ (Spec => []ActiveClientsExact)
<1>1. RunInv => ActiveClientsExact
  BY DEF RunInv, RolesInv, Serving, Roles, ActiveClientsExact
<1> QED
  BY <1>1, RunAlways, StatsImplementServer, PTL

(* The stop test of line 567 ends the loop on an event of the batch only   *)
(* when nothing is open any more.                                          *)
LEMMA StopStep ==
    ASSUME Deployed, TypeInv, RunInv, RunInv', ServerNext,
           running, ~running', batch' # batch
    PROVE  \A f \in FDs : owner'[f] = NoConn
<1>1. PersistentLasts /\ ~ReapInactive
  BY NobodyReaped
<1>2. pc # "exited" /\ Serving
  BY ServerExited DEF RunInv, RolesInv, Over
<1>3. ~Quiet
  BY DEF Quiet, LoopTest, Second, TimeoutStop, Collect, AcceptFails, Signal
<1>4. ~Comes /\ ~Exit /\ ~UNCHANGED serverVars
  BY DEF Comes, PersistentComes, AcceptPersistent, OtherIsServed, AcceptNonPersistent,
         OtherWaits, AcceptQueued, OtherIsTurnedAway, AcceptRejected, Exit,
         serverVars, loopVars
<1>5. \A c : ~ClientStep(c)
  BY DEF ClientStep, ServerUnchanged, loopVars
<1>6. \A e : ~Read(e)
  BY DEF Read, SpuriousEvent, PersistentData, NonPersistentData
<1>7. PICK e \in FDs : Ends(e)
  BY <1>1, <1>2, <1>3, <1>4, <1>5, <1>6, Steps
<1>8. StopTest /\ pc' = pc
  BY <1>7 DEF Ends, PersistentEnds, SlotEmpties, SlotPasses, ClosePersistent,
              CloseNonPersistent
<1>9. active_clients' = 0
  BY <1>8 DEF StopTest
<1>10. Cardinality(OpenFds') = 0
  BY <1>2, <1>8, <1>9 DEF RunInv, RolesInv, Serving, Roles
<1>11. IsFiniteSet(OpenFds')
  <2>1. OpenFds' \subseteq FDs /\ IsFiniteSet(FDs)
    BY SocketAssumption, FS_Interval, 1 \in Int, MaxFd \in Int DEF OpenFds, FDs
  <2> QED
    BY <2>1, FS_Subset
<1>12. OpenFds' = {}
  BY <1>10, <1>11, FS_EmptySet
<1> QED
  BY <1>12 DEF OpenFds

(* In either deployment the server stops by itself only when no connection *)
(* is left, so never under the persistent client.                          *)
THEOREM StopsForNobody == ASSUME Deployed PROVE ServerSpec => StopsWhenNoneIsLeft
<1>1. TypeInv /\ RunInv /\ RunInv' /\ [ServerNext]_serverVars
        => [running /\ ~running' /\ batch' # batch
                => \A f \in FDs : owner'[f] = NoConn]_serverVars
  BY StopStep
<1> QED
  BY <1>1, ServerTypeCorrect, RunAlways, PTL DEF ServerSpec, StopsWhenNoneIsLeft


-----------------------------------------------------------------------------
(* The slot and the queue implement the first-come-first-served service.   *)

(* Who is served and who waits, while the server runs.                     *)
View ==
    /\ NoConn \notin Others
    /\ non_persistent_fd = NoFd => Served = NoConn
    /\ non_persistent_fd # NoFd => Served = owner[non_persistent_fd] /\ Served \in Others
    /\ Waiters \in Seq(Others) /\ Len(Waiters) = Len(queue)
    /\ \A i \in 1 .. Len(queue) : Waiters[i] = owner[queue[i].fd]
    /\ Service!Present = {Served} \cup {owner[queue[i].fd] : i \in 1 .. Len(queue)}

(* The abstract service's view of the code's places.                       *)
LEMMA ServiceView == PersistentLasts /\ TypeInv /\ Serving => View
<1> SUFFICES ASSUME PersistentLasts, TypeInv, Serving PROVE View
  OBVIOUS
<1>1. /\ queue \in Seq(Waiting) /\ DOMAIN queue = 1 .. Len(queue) /\ Len(queue) \in Nat
  BY LenProperties DEF TypeInv, TypeOK
<1>2. /\ non_persistent_fd # NoFd =>
            non_persistent_fd \in OpenFds /\ owner[non_persistent_fd] \in Others
      /\ \A i \in 1 .. Len(queue) :
            queue[i].fd \in OpenFds /\ owner[queue[i].fd] \in Others
  BY WhoIsWhere
<1>3. NoConn \notin Others
  BY SocketAssumption DEF Others
<1>4. Waiters = [i \in 1 .. Len(queue) |-> owner[queue[i].fd]]
  BY <1>1 DEF Waiters
<1>5. Waiters \in Seq(Others) /\ Len(Waiters) = Len(queue) /\ DOMAIN Waiters = 1 .. Len(queue)
  <2>1. Waiters \in [1 .. Len(queue) -> Others]
    BY <1>2, <1>4
  <2> QED
    BY <1>1, <2>1, IsASeq, LenProperties
<1>6. Service!Present = {Served} \cup {owner[queue[i].fd] : i \in 1 .. Len(queue)}
  BY <1>4, <1>5 DEF Service!Present
<1> QED
  BY <1>2, <1>3, <1>4, <1>5, <1>6 DEF View, Served, IsOpen

(* The same after a step.                                                  *)
LEMMA NextView == PersistentLasts /\ TypeInv' /\ Serving' => View'
<1>1. PersistentLasts => PersistentLasts'
  BY DEF PersistentLasts, Others
<1> QED
  BY <1>1, ServiceView, PTL

(* Two views that name the same clients in the same order are the same.    *)
LEMMA SameWaiters ==
    ASSUME NEW s \in Seq(Others), NEW t \in Seq(Others), Len(s) = Len(t),
           \A i \in 1 .. Len(s) : s[i] = t[i]
    PROVE  s = t
BY LenProperties

(* Steps that move nobody.                                                 *)
LEMMA ServiceFrame ==
    ASSUME PersistentLasts, TypeInv, TypeInv', Serving, Serving',
           UNCHANGED non_persistent_fd,
           Len(queue') = Len(queue), \A i \in 1 .. Len(queue) : queue'[i].fd = queue[i].fd,
           \A f \in OpenFds : f # persistent_fd => owner'[f] = owner[f]
    PROVE  Served' = Served /\ Waiters' = Waiters
<1>1. View /\ View'
  BY ServiceView, NextView
<1>2. Others' = Others
  BY DEF Others
<1>3. non_persistent_fd # NoFd =>
            non_persistent_fd \in OpenFds /\ non_persistent_fd # persistent_fd
  BY WhoIsWhere, NoFdApart DEF Serving, Roles
<1>4. \A i \in 1 .. Len(queue) : queue[i].fd \in OpenFds /\ queue[i].fd # persistent_fd
  BY WhoIsWhere DEF Others, Serving, Roles
<1>5. Served' = Served
  BY <1>1, <1>3 DEF View
<1>6. Waiters' = Waiters
  <2>1. \A i \in 1 .. Len(Waiters) : Waiters'[i] = Waiters[i]
    BY <1>1, <1>4 DEF View
  <2> QED
    BY <1>1, <1>2, <2>1, SameWaiters DEF View
<1> QED
  BY <1>5, <1>6

(* Who has left depends on the kernel and the clients.                     *)
LEMMA GoneFrame ==
    ASSUME PersistentLasts,
           \A c \in Others : /\ peer'[c] = "new" <=> peer[c] = "new"
                             /\ Established(c)' <=> Established(c)
    PROVE  Gone' = Gone
BY DEF Gone

(* Whoever is in the backlog is neither here nor gone.                     *)
LEMMA HeadIsNew ==
    ASSUME PersistentLasts, TypeInv, Serving, backlog # <<>>, Head(backlog) \in Others
    PROVE  Head(backlog) \notin Service!Present \cup Gone
<1>1. Head(backlog) = backlog[1] /\ 1 \in 1 .. Len(backlog)
  BY WhoComes
<1>2. \A f \in OpenFds : owner[f] # Head(backlog)
  BY <1>1 DEF Serving, EachOnce
<1>3. Established(Head(backlog))
  BY <1>1, EstablishedWhere DEF Others, TypeInv, TypeOK
<1>4. View
  BY ServiceView
<1>5. Head(backlog) # Served /\ \A i \in 1 .. Len(queue) : owner[queue[i].fd] # Head(backlog)
  BY <1>2, <1>4, WhoIsWhere DEF View
<1> QED
  BY <1>3, <1>4, <1>5 DEF View, Gone

Abstract == <<Served, Waiters, Gone>>

(* Waiting, reading and being told of the time changes nothing.            *)
LEMMA QuietServes ==
    ASSUME PersistentLasts, TypeInv, TypeInv', Serving, Serving',
           Quiet \/ (\E e \in FDs : Read(e))
    PROVE  UNCHANGED Abstract
<1>1. UNCHANGED <<peer, backlog, owner, non_persistent_fd>>
  BY DEF Quiet, LoopTest, Second, TimeoutStop, Collect, AcceptFails, Signal, sockVars, slotVars,
         Read, SpuriousEvent, PersistentData, NonPersistentData, Take
<1>2. Len(queue') = Len(queue) /\ \A i \in 1 .. Len(queue) : queue'[i].fd = queue[i].fd
  <2>1. CASE Second
    BY <2>1, SecondKeepsQueue
  <2>2. CASE queue' = queue
    BY <2>2
  <2> QED
    BY <2>1, <2>2 DEF Quiet, LoopTest, TimeoutStop, Collect, AcceptFails, Signal, slotVars,
          Read, SpuriousEvent, PersistentData, NonPersistentData
<1>3. \A c \in Others : Established(c)' <=> Established(c)
  BY <1>1 DEF Established
<1> QED
  BY <1>1, <1>2, <1>3, ServiceFrame, GoneFrame DEF Abstract

(* A client that connects or hangs up is not noticed before its event.     *)
LEMMA ClientServes ==
    ASSUME PersistentLasts, TypeInv, TypeInv', Serving, Serving',
           NEW c \in Conns, ClientStep(c)
    PROVE  UNCHANGED Abstract
<1>1. SocketTypeOK /\ (Connect(c) \/ Deliver(c) \/ Hangup(c))
      /\ UNCHANGED <<non_persistent_fd, queue>>
  BY DEF TypeInv, TypeOK, ClientStep, ServerUnchanged, slotVars
<1>2. /\ UNCHANGED owner
      /\ Connect(c) => Established(c)'
      /\ \A d \in Conns : (d # c \/ ~Connect(c)) => (Established(d)' <=> Established(d))
  BY <1>1, ClientEstablished
<1>3. peer \in [Conns -> {"new", "open", "gone"}] /\ Others \subseteq Conns
  BY <1>1 DEF SocketTypeOK, Others
<1>4. Gone' = Gone
  <2>1. CASE Connect(c)
    <3>1. peer[c] = "new" /\ peer' = [peer EXCEPT ![c] = "open"]
      BY <2>1 DEF Connect
    <3>2. \A d \in Others : d \in Gone' <=> d \in Gone
      BY <1>2, <1>3, <2>1, <3>1 DEF Gone
    <3>3. Gone' \subseteq Others /\ Gone \subseteq Others
      BY DEF Gone, Others
    <3> QED
      BY <3>2, <3>3
  <2>2. CASE ~Connect(c)
    <3>1. \A d \in Others : peer'[d] = "new" <=> peer[d] = "new"
      BY <1>1, <1>3, <2>2 DEF Deliver, Hangup
    <3> QED
      BY <1>2, <1>3, <2>2, <3>1, GoneFrame
  <2> QED
    BY <2>1, <2>2
<1>5. Served' = Served /\ Waiters' = Waiters
  BY <1>1, <1>2, ServiceFrame
<1> QED
  BY <1>4, <1>5 DEF Abstract

(* A connection that is accepted.                                          *)
LEMMA ComesServes ==
    ASSUME PersistentLasts, TypeInv, TypeInv', Serving, Serving', Comes
    PROVE  [Service!ServiceNext]_Abstract
<1> DEFINE c == Head(backlog)
<1>0. Others' = Others
  BY DEF Others
<1>1. View /\ View'
  BY ServiceView, NextView
<1>2. backlog # <<>> /\ c \in Others => c \notin Service!Present \cup Gone
  BY HeadIsNew
<1>3. SocketTypeOK /\ EachOnce /\ Others \subseteq Conns
  BY DEF TypeInv, TypeOK, Serving, Others
<1>4. ASSUME NEW adding \in SUBSET FDs, Opens(adding)
      PROVE  /\ LowestFree \notin OpenFds /\ owner'[LowestFree] = c
             /\ \A f \in OpenFds : owner'[f] = owner[f]
             /\ Gone' = Gone
  <2>1. /\ LowestFree \notin OpenFds /\ owner'[LowestFree] = c
        /\ \A f \in OpenFds : owner'[f] = owner[f]
        /\ \A d \in Conns : Established(d)' <=> Established(d)
        /\ peer' = peer
    BY <1>4, OpensOne
  <2>2. \A d \in Others : /\ peer'[d] = "new" <=> peer[d] = "new"
                          /\ Established(d)' <=> Established(d)
    BY <1>3, <2>1
  <2> QED
    BY <2>1, <2>2, GoneFrame
<1>5. AcceptEvent => {LowestFree} \in SUBSET FDs /\ {} \in SUBSET FDs
  BY LowestFreeIsFree DEF AcceptEvent, FreeFds
<1>6. \A i \in 1 .. Len(queue) : queue[i].fd \in OpenFds
  BY WhoIsWhere
<1>7. CASE PersistentComes
  <2>1. Opens({LowestFree}) /\ AcceptEvent /\ UNCHANGED <<non_persistent_fd, queue>>
    BY <1>7 DEF PersistentComes, AcceptPersistent
  <2>2. /\ \A f \in OpenFds : owner'[f] = owner[f]
        /\ Gone' = Gone
    BY <1>4, <1>5, <2>1
  <2>3. Served' = Served /\ Waiters' = Waiters
    BY <2>1, <2>2, ServiceFrame
  <2> QED
    BY <2>2, <2>3 DEF Abstract
<1>8. CASE OtherIsServed
  <2>1. /\ Opens({LowestFree}) /\ AcceptEvent /\ backlog # <<>> /\ c \in Others
        /\ non_persistent_fd = NoFd /\ non_persistent_fd' = LowestFree /\ queue' = queue
    BY <1>8 DEF OtherIsServed, AcceptNonPersistent, Opens
  <2>2. queue = <<>>
    BY <2>1 DEF Serving, Roles
  <2>3. Served = NoConn /\ Waiters = <<>> /\ Waiters' = <<>>
    <3>1. Len(Waiters) = 0 /\ Len(Waiters') = 0
      BY <1>1, <2>1, <2>2 DEF View
    <3> QED
      BY <1>0, <1>1, <2>1, <3>1, EmptySeq DEF View
  <2>4. LowestFree # NoFd /\ Served' = c /\ Gone' = Gone
    <3>1. LowestFree \in FDs
      BY <1>5, <2>1
    <3>2. LowestFree # NoFd
      BY <3>1, NoFdApart
    <3>3. owner'[LowestFree] = c /\ Gone' = Gone
      BY <1>4, <1>5, <2>1
    <3> QED
      BY <1>1, <2>1, <3>2, <3>3 DEF View
  <2>5. Service!Arrive(c)
    BY <1>2, <2>1, <2>3, <2>4 DEF Service!Arrive
  <2> QED
    BY <2>1, <2>5 DEF Service!ServiceNext
<1>9. CASE OtherWaits
  <2> DEFINE w == [fd |-> LowestFree, age |-> 0]
  <2>1. /\ Opens({}) /\ AcceptEvent /\ backlog # <<>> /\ c \in Others
        /\ UNCHANGED <<non_persistent_fd>> /\ non_persistent_fd # NoFd
        /\ Len(queue) < MAX_NON_PERSISTENT
        /\ queue' = Append(queue, w) /\ w.fd = LowestFree
    BY <1>9 DEF OtherWaits, AcceptQueued, Opens, BothActive, QueueHasRoom
  <2>2. /\ LowestFree \in FDs /\ owner'[LowestFree] = c
        /\ \A f \in OpenFds : owner'[f] = owner[f] /\ Gone' = Gone
        /\ Gone' = Gone
    BY <1>4, <1>5, <2>1
  <2>3. queue \in Seq(Waiting) /\ w \in Waiting
    BY <2>2, LimitsAreNat DEF TypeInv, TypeOK, Waiting, Ages
  <2> HIDE DEF w
  <2>4. /\ Len(queue) \in Nat /\ Len(queue') = Len(queue) + 1
        /\ \A i \in 1 .. Len(queue) : queue'[i] = queue[i]
        /\ queue'[Len(queue) + 1].fd = LowestFree
    BY <2>1, <2>3, AppendProperties, LenProperties
  <2>5. /\ Append(Waiters, c) \in Seq(Others)
        /\ Len(Append(Waiters, c)) = Len(queue) + 1
        /\ \A i \in 1 .. Len(queue) : Append(Waiters, c)[i] = owner[queue[i].fd]
        /\ Append(Waiters, c)[Len(queue) + 1] = c
    BY <1>1, <2>1, <2>4, AppendProperties DEF View
  <2>6. \A i \in 1 .. Len(queue') : Waiters'[i] = Append(Waiters, c)[i]
    <3>1. \A i \in 1 .. Len(queue') : Waiters'[i] = owner'[queue'[i].fd]
      BY <1>1 DEF View
    <3>2. \A i \in 1 .. Len(queue') : i \in 1 .. Len(queue) \/ i = Len(queue) + 1
      BY <2>4
    <3>3. \A i \in 1 .. Len(queue) : owner'[queue'[i].fd] = owner[queue[i].fd]
      BY <1>6, <2>2, <2>4
    <3>4. owner'[queue'[Len(queue) + 1].fd] = c
      BY <2>2, <2>4
    <3> QED
      BY <2>5, <3>1, <3>2, <3>3, <3>4
  <2>7. Waiters' = Append(Waiters, c)
    BY <1>0, <1>1, <2>4, <2>5, <2>6, SameWaiters DEF View
  <2>8. Served # NoConn /\ Served' = Served
    BY <1>1, <2>1, <2>2, WhoIsWhere DEF View
  <2>9. Len(Waiters) < MAX_NON_PERSISTENT
    BY <1>1, <2>1 DEF View
  <2>10. Service!Arrive(c)
    BY <1>2, <2>1, <2>2, <2>7, <2>8, <2>9 DEF Service!Arrive
  <2> QED
    BY <2>1, <2>10 DEF Service!ServiceNext
<1>10. CASE OtherIsTurnedAway
  <2>1. /\ AcceptAndClose /\ backlog # <<>> /\ c \in Others
        /\ non_persistent_fd # NoFd /\ ~(Len(queue) < MAX_NON_PERSISTENT)
        /\ UNCHANGED <<non_persistent_fd, queue>>
    BY <1>10 DEF OtherIsTurnedAway, AcceptRejected, BothActive, QueueHasRoom, slotVars
  <2>2. UNCHANGED <<peer, owner>>
        /\ \A d \in Conns : Established(d)' <=> Established(d) /\ d # c
    BY <1>3, <2>1, RejectEstablished DEF AcceptAndClose
  <2>3. Served' = Served /\ Waiters' = Waiters /\ Served # NoConn
    BY <1>1, <2>1, <2>2, ServiceFrame DEF View
  <2>4. Len(Waiters) = MAX_NON_PERSISTENT
    <3>1. Len(queue) \in Nat /\ Len(queue) <= MAX_NON_PERSISTENT
      BY LenProperties DEF TypeInv, TypeOK
    <3>2. Len(queue) = MAX_NON_PERSISTENT
      BY <2>1, <3>1, LimitsAreNat
    <3> QED
      BY <1>1, <3>2 DEF View
  <2>5. peer[c] # "new"
    BY <2>1, WhoComes DEF Serving, EachOnce
  <2>6. Gone' = Gone \cup {c}
    BY <1>3, <2>1, <2>2, <2>5 DEF Gone, Others
  <2>7. Service!TurnAway(c)
    BY <1>2, <2>1, <2>3, <2>4, <2>6 DEF Service!TurnAway
  <2> QED
    BY <2>1, <2>7 DEF Service!ServiceNext
<1> QED
  BY <1>7, <1>8, <1>9, <1>10 DEF Comes

(* A connection that ends.                                                 *)
LEMMA EndsServes ==
    ASSUME PersistentLasts, TypeInv, TypeInv', Serving, Serving', NEW e \in FDs, Ends(e)
    PROVE  [Service!ServiceNext]_Abstract
<1>0. Others' = Others /\ Others \subseteq Conns /\ p1 \notin Others
  BY DEF Others
<1>1. View /\ View'
  BY ServiceView, NextView
<1>2. ASSUME NEW adding \in SUBSET FDs, CloseAndAdd({e}, adding), HasEnded(e)
      PROVE  /\ e \in OpenFds /\ \A f \in OpenFds : f # e => owner'[f] = owner[f]
             /\ Gone' = Gone \cup ({owner[e]} \cap Others)
  <2>1. /\ e \in OpenFds /\ OpenFds' = OpenFds \ {e}
        /\ \A f \in OpenFds' : owner'[f] = owner[f]
        /\ \A c \in Conns : Established(c)' <=> Established(c) /\ c # owner[e]
        /\ peer' = peer
    BY <1>2, ClosesOne
  <2>2. peer[owner[e]] # "new"
    BY <2>1 DEF Serving, EachOnce
  <2> QED
    BY <1>0, <2>1, <2>2 DEF Gone
<1>3. {} \in SUBSET FDs
  OBVIOUS
<1>4. CASE PersistentEnds(e)
  <2>1. /\ CloseAndAdd({e}, {}) /\ HasEnded(e) /\ e = persistent_fd /\ owner[e] = p1
        /\ UNCHANGED <<non_persistent_fd, queue>>
    BY <1>4 DEF PersistentEnds, ClosePersistent
  <2>2. /\ \A f \in OpenFds : f # persistent_fd => owner'[f] = owner[f]
        /\ Gone' = Gone
    BY <1>0, <1>2, <1>3, <2>1
  <2> QED
    BY <2>1, <2>2, ServiceFrame DEF Abstract
<1>5. CASE SlotEmpties(e)
  <2>1. /\ CloseAndAdd({e}, {}) /\ HasEnded(e) /\ e = non_persistent_fd
        /\ non_persistent_fd # NoFd /\ queue = <<>> /\ non_persistent_fd' = NoFd
        /\ queue' = queue
    BY <1>5, NoFdApart DEF SlotEmpties, CloseNonPersistent, EndNobodyWaits
  <2>2. Served = owner[e] /\ Served \in Others /\ Served' = NoConn
    BY <1>1, <2>1 DEF View
  <2>3. Gone' = Gone \cup {Served}
    BY <1>2, <1>3, <2>1, <2>2
  <2>4. Waiters = <<>> /\ Waiters' = <<>>
    <3>1. Len(Waiters) = 0 /\ Len(Waiters') = 0
      BY <1>1, <2>1 DEF View
    <3> QED
      BY <1>0, <1>1, <3>1, EmptySeq DEF View
  <2>5. Service!Leave
    BY <1>1, <2>2, <2>3, <2>4 DEF Service!Leave, View
  <2> QED
    BY <2>5 DEF Service!ServiceNext
<1>6. CASE SlotPasses(e)
  <2> DEFINE h == Head(queue).fd
  <2>1. /\ CloseAndAdd({e}, {h}) /\ HasEnded(e) /\ e = non_persistent_fd
        /\ non_persistent_fd # NoFd /\ queue # <<>> /\ non_persistent_fd' = h
        /\ queue' = Tail(queue)
    BY <1>6, NoFdApart DEF SlotPasses, CloseNonPersistent, EndPromote
  <2>2. /\ Len(queue) \in Nat /\ Head(queue) = queue[1] /\ 1 \in 1 .. Len(queue)
        /\ Head(queue) \in Waiting
        /\ Len(queue') = Len(queue) - 1
        /\ \A i \in 1 .. Len(queue') :
                 queue'[i] = queue[i + 1] /\ i + 1 \in 1 .. Len(queue)
    BY <2>1, QueueTail
  <2>3. h = queue[1].fd /\ h \in FDs /\ h # NoFd
    BY <2>2, NoFdApart DEF Waiting
  <2> HIDE DEF h
  <2>4. /\ \A f \in OpenFds : f # e => owner'[f] = owner[f]
        /\ Gone' = Gone \cup ({owner[e]} \cap Others)
    <3>1. {h} \in SUBSET FDs
      BY <2>3
    <3> QED
      BY <1>2, <2>1, <3>1
  <2>5. \A i \in 1 .. Len(queue) : queue[i].fd \in OpenFds /\ queue[i].fd # e
    <3>1. e \in Slots
      BY <2>1 DEF Slots
    <3>2. \A i \in 1 .. Len(queue) : queue[i].fd \in Queued
      BY DEF Queued
    <3> QED
      BY <3>1, <3>2, WhoIsWhere DEF Serving, Roles
  <2>6. Served = owner[e] /\ Served \in Others /\ Served' = owner[h]
    BY <1>1, <2>1, <2>2, <2>3, <2>4, <2>5 DEF View
  <2>7. Gone' = Gone \cup {Served}
    BY <2>4, <2>6
  <2>8. /\ Waiters \in Seq(Others) /\ Len(Waiters) = Len(queue) /\ Waiters # <<>>
        /\ \A i \in 1 .. Len(queue) : Waiters[i] = owner[queue[i].fd]
    <3>1. Len(Waiters) # 0
      BY <1>1, <2>2 DEF View
    <3> QED
      BY <1>1, <3>1, EmptySeq DEF View
  <2>9. Head(Waiters) = Served'
    BY <2>2, <2>3, <2>6, <2>8, HeadTailProperties
  <2>10. /\ Tail(Waiters) \in Seq(Others) /\ Len(Tail(Waiters)) = Len(queue) - 1
         /\ \A i \in 1 .. Len(Tail(Waiters)) : Tail(Waiters)[i] = Waiters[i + 1]
    BY <2>8, HeadTailProperties
  <2>11. \A i \in 1 .. Len(queue') : Waiters'[i] = Tail(Waiters)[i]
    <3> SUFFICES ASSUME NEW i \in 1 .. Len(queue') PROVE Waiters'[i] = Tail(Waiters)[i]
      OBVIOUS
    <3>1. Waiters'[i] = owner'[queue'[i].fd]
      BY <1>1 DEF View
    <3>2. queue'[i] = queue[i + 1] /\ i + 1 \in 1 .. Len(queue)
      BY <2>2
    <3>3. Waiters'[i] = owner[queue[i + 1].fd]
      BY <2>4, <2>5, <3>1, <3>2
    <3>4. Tail(Waiters)[i] = Waiters[i + 1]
      BY <2>2, <2>10
    <3> QED
      BY <2>8, <3>2, <3>3, <3>4
  <2>12. Waiters' = Tail(Waiters)
    BY <1>0, <1>1, <2>2, <2>10, <2>11, SameWaiters DEF View
  <2>13. Service!Leave
    BY <1>1, <2>6, <2>7, <2>8, <2>9, <2>12 DEF Service!Leave, View
  <2> QED
    BY <2>13 DEF Service!ServiceNext
<1> QED
  BY <1>4, <1>5, <1>6 DEF Ends

(* The end of the run closes the service.                                  *)
LEMMA ExitServes ==
    ASSUME PersistentLasts, TypeInv, Serving, Exit
    PROVE  [Service!ServiceNext]_Abstract
<1>1. View
  BY ServiceView
<1>2. /\ OpenFds' = {} /\ queue' = <<>>
      /\ CloseAndAdd(FDs, {}) /\ UNCHANGED <<peer, backlog, non_persistent_fd>>
  BY ExitCloses DEF Exit, Over, CloseAndAdd
<1>3. Served' = NoConn /\ Waiters' = <<>>
  BY <1>2 DEF Served, IsOpen, Waiters
<1>4. \A c \in Conns : Established(c)' <=>
                    Established(c) /\ \A f \in OpenFds \cap FDs : owner[f] # c
  <2>1. {} \in SUBSET FDs /\ SocketTypeOK /\ EachOnce
    BY DEF TypeInv, TypeOK, Serving
  <2> QED
    BY <1>2, <2>1, CloseEstablished
<1>5. \A f \in OpenFds : f \in FDs /\ owner[f] \in Conns /\ peer[owner[f]] # "new"
  BY WhoIsWhere DEF Serving, EachOnce
<1>6. \A c \in Others :
            c \in Service!Present \ {NoConn} <=> \E f \in OpenFds : owner[f] = c
  <2>1. /\ OpenFds = Slots \cup Queued
        /\ \A f \in OpenFds : owner[f] = p1 <=> f = persistent_fd
    BY DEF Serving, Roles
  <2>2. /\ non_persistent_fd # NoFd => non_persistent_fd \in OpenFds
        /\ \A i \in 1 .. Len(queue) : queue[i].fd \in OpenFds
    BY WhoIsWhere
  <2>3. p1 \notin Others /\ NoConn \notin Others
    BY <1>1 DEF Others, View
  <2>4. ASSUME NEW c \in Others, c \in Service!Present PROVE \E f \in OpenFds : owner[f] = c
    BY <1>1, <2>2, <2>3, <2>4 DEF View
  <2>5. ASSUME NEW f \in OpenFds, owner[f] \in Others PROVE owner[f] \in Service!Present
    BY <1>1, <2>1, <2>3, <2>5 DEF View, Slots, Queued
  <2> QED
    BY <2>3, <2>4, <2>5
<1>7. Gone' = Gone \cup (Service!Present \ {NoConn})
  <2>1. Service!Present \ {NoConn} \subseteq Others /\ Others \subseteq Conns
    BY <1>1, WhoIsWhere DEF View, Others
  <2>2. Gone \subseteq Others /\ Gone' \subseteq Others
    BY DEF Gone, Others
  <2>3. \A c \in Others : c \in Gone' <=> c \in Gone \/ \E f \in OpenFds : owner[f] = c
    BY <1>2, <1>4, <1>5, <2>1 DEF Gone
  <2> QED
    BY <1>6, <2>1, <2>2, <2>3
<1>8. Service!Shut
  BY <1>3, <1>7 DEF Service!Shut
<1> QED
  BY <1>8 DEF Service!ServiceNext

(* Every step of the server is a step of the service or none.              *)
LEMMA ServiceStep ==
    ASSUME Deployed, TypeInv, RunInv, RunInv', [ServerNext]_serverVars
    PROVE  [Service!ServiceNext]_Abstract
<1>1. PersistentLasts /\ ~ReapInactive /\ TypeInv'
  BY NobodyReaped, StepTyped
<1>2. UNCHANGED <<sockVars, slotVars>> => UNCHANGED Abstract
  BY DEF Abstract, sockVars, slotVars, Served, Waiters, Gone, IsOpen, OpenFds, Established
<1>3. CASE pc = "exited"
  BY <1>2, <1>3, ServerExited DEF RunInv, RolesInv, Over
<1>4. CASE pc # "exited"
  <2>1. Serving
    BY <1>4 DEF RunInv, RolesInv
  <2>2. CASE Exit
    BY <1>1, <2>1, <2>2, ExitServes
  <2>3. CASE UNCHANGED serverVars
    BY <1>2, <2>3 DEF serverVars
  <2>4. ASSUME ~Exit, ~UNCHANGED serverVars PROVE [Service!ServiceNext]_Abstract
    <3>1. pc' # "exited"
      BY <1>4, <2>4, LoopGoesOn DEF ServerNext, ServerStep
    <3>2. Serving'
      BY <3>1 DEF RunInv, RolesInv
    <3>3. \/ Quiet \/ Comes
          \/ \E e \in FDs : Read(e) \/ Ends(e)
          \/ \E c \in Conns : ClientStep(c)
      BY <1>1, <2>1, <2>4, Steps
    <3> QED
      BY <1>1, <2>1, <3>2, <3>3, QuietServes, ComesServes, EndsServes, ClientServes
  <2> QED
    BY <2>2, <2>3, <2>4
<1> QED
  BY <1>3, <1>4

(* In either deployment the slot and the queue serve the clients in the    *)
(* order of their connections: nobody overtakes, the slot never stays      *)
(* empty while somebody waits, nobody is turned away from a queue with     *)
(* room, and who has left does not come back (lines 336-342, 385-405,      *)
(* 547-553).                                                               *)
THEOREM FirstComeFirstServed == ASSUME Deployed PROVE ServerSpec => ServesInOrder
<1>1. ServerInit => Service!ServiceInit
  <2> SUFFICES ASSUME ServerInit PROVE Service!ServiceInit
    OBVIOUS
  <2>1. non_persistent_fd = NoFd /\ queue = <<>> /\ \A c \in Conns : peer[c] = "new"
    BY DEF ServerInit, SocketInit
  <2>2. Served = NoConn /\ Waiters = <<>> /\ Gone = {}
    BY <2>1 DEF Served, Waiters, Gone, Others
  <2> QED
    BY <2>2 DEF Service!ServiceInit
<1>2. TypeInv /\ RunInv /\ RunInv' /\ [ServerNext]_serverVars
        => [Service!ServiceNext]_(Service!serviceVars)
  BY ServiceStep DEF Abstract, Service!serviceVars
<1> QED
  BY <1>1, <1>2, ServerTypeCorrect, RunAlways, PTL
     DEF ServerSpec, ServesInOrder, Service!ServiceSpec


-----------------------------------------------------------------------------
(* What is counted in either deployment.                                   *)

(* Steps that count nothing for the report.                                *)
Silent ==
    /\ UNCHANGED <<pick, cur, all, temp, rows, byteVars>>
    /\ \/ Quiet \/ Comes \/ UNCHANGED serverVars
       \/ \E e \in FDs : SpuriousEvent(e) \/ PersistentEnds(e)
       \/ \E c \in Conns : ClientStep(c)

Leaves(e) == (SlotEmpties(e) \/ SlotPasses(e)) /\ CountEnd

(* Only a read in a slot, the end of a visit and the end of the run count. *)
LEMMA CountedSteps ==
    ASSUME PersistentLasts, TypeInv, Serving, ~ReapInactive, [Next]_vars
    PROVE  \/ Silent \/ CountedExit
           \/ \E e \in FDs : \/ CountedPersistentData(e) \/ CountedNonPersistentData(e)
                             \/ Leaves(e)
<1>1. UNCHANGED statsVars => UNCHANGED <<pick, cur, all, temp, rows>>
  BY DEF statsVars
<1>2. CASE CountedSecond
  BY <1>2 DEF CountedSecond, Silent, Quiet, Second
<1>3. ~CountedReap
  BY DEF CountedReap
<1>4. ASSUME UNCHANGED statsVars, LoopTest \/ TimeoutStop \/ Collect \/ Signal PROVE Silent
  BY <1>1, <1>4 DEF Silent, Quiet, LoopTest, TimeoutStop, Collect, Signal
<1>5. ASSUME UNCHANGED statsVars, AcceptStep PROVE Silent
  <2>1. Comes \/ AcceptFails
    BY <1>5, AcceptSteps
  <2>2. UNCHANGED byteVars
    BY <2>1 DEF Comes, PersistentComes, AcceptPersistent, OtherIsServed, AcceptNonPersistent,
         OtherWaits, AcceptQueued, OtherIsTurnedAway, AcceptRejected, AcceptFails
  <2> QED
    BY <1>1, <1>5, <2>1, <2>2 DEF Silent, Quiet
<1>6. ASSUME UNCHANGED statsVars, NEW e \in FDs,
             \/ RejectMisidentified(e) \/ UnclaimedData(e) \/ SpuriousEvent(e)
             \/ ClosePersistent(e) \/ CloseOther(e)
      PROVE  Silent
  <2>1. SpuriousEvent(e) \/ PersistentEnds(e)
    BY <1>6, EventSteps DEF EventStep
  <2>2. UNCHANGED byteVars
    BY <2>1 DEF SpuriousEvent, PersistentEnds, ClosePersistent
  <2> QED
    BY <1>1, <1>6, <2>1, <2>2 DEF Silent
<1>7. ASSUME UNCHANGED statsVars, NEW c \in Conns, ClientStep(c) PROVE Silent
  BY <1>1, <1>7 DEF Silent, ClientStep, ServerUnchanged
<1>8. CASE Uncounted
  BY <1>4, <1>5, <1>6, <1>7, <1>8 DEF Uncounted
<1>9. ASSUME NEW e \in FDs, CountedClose(e) PROVE Leaves(e)
  BY <1>9, EventSteps DEF EventStep, CountedClose, Leaves
<1>10. ASSUME NEW e \in FDs, CountedData(e)
       PROVE  CountedPersistentData(e) \/ CountedNonPersistentData(e)
  BY <1>10, EventSteps DEF EventStep, CountedData, CountedMoveToSlot, CountedMoveToQueue
<1>11. CASE UNCHANGED vars
  BY <1>1, <1>11 DEF vars, serverVars, Silent
<1> QED
  BY <1>2, <1>3, <1>8, <1>9, <1>10, <1>11 DEF Next

-----------------------------------------------------------------------------
(* Pairs and events.                                                       *)

(* The persistent connection, once it has come, does not come again.       *)
LEMMA ComesOnce ==
    ASSUME PersistentLasts, TypeInv, Serving, Silent, pick # NoFd, PairsInv
    PROVE  /\ UNCHANGED pick
           /\ persistent_fd' # NoFd => persistent_fd' = persistent_fd
           /\ peer'[p1] # "new" /\ \A i \in 1 .. Len(backlog') : backlog'[i] # p1
<1>1. peer[p1] # "new" /\ \A i \in 1 .. Len(backlog) : backlog[i] # p1
  BY DEF PairsInv
<1>2. SocketTypeOK
  BY DEF TypeInv, TypeOK
<1>3. CASE UNCHANGED <<peer, backlog, persistent_fd>>
  BY <1>1, <1>3 DEF Silent
<1>4. CASE Quiet \/ UNCHANGED serverVars
  BY <1>3, <1>4 DEF Quiet, LoopTest, Second, TimeoutStop, Collect, AcceptFails, Signal,
        serverVars, sockVars, slotVars
<1>5. ASSUME NEW e \in FDs, SpuriousEvent(e) \/ PersistentEnds(e)
      PROVE  UNCHANGED <<peer, backlog>> /\ persistent_fd' \in {persistent_fd, NoFd}
  BY <1>5 DEF SpuriousEvent, PersistentEnds, ClosePersistent, CloseAndAdd, sockVars, slotVars
<1>6. CASE Comes
  <2>1. ~PersistentComes
    BY <1>1, WhoComes DEF PersistentComes, Opens
  <2>2. /\ backlog # <<>> /\ backlog' = Tail(backlog) /\ UNCHANGED <<peer, persistent_fd>>
    BY <1>6, <2>1 DEF Comes, OtherIsServed, AcceptNonPersistent, OtherWaits, AcceptQueued,
          OtherIsTurnedAway, AcceptRejected, AcceptAndClose, Opens, AcceptAs, slotVars
  <2>3. \A i \in 1 .. Len(backlog') :
            backlog'[i] = backlog[i + 1] /\ i + 1 \in 1 .. Len(backlog)
    BY <1>2, <2>2, BacklogTail
  <2> QED
    BY <1>1, <2>2, <2>3 DEF Silent
<1>7. ASSUME NEW c \in Conns, ClientStep(c)
      PROVE  /\ persistent_fd' = persistent_fd
             /\ peer'[p1] # "new" /\ \A i \in 1 .. Len(backlog') : backlog'[i] # p1
  <2>1. persistent_fd' = persistent_fd
    BY <1>7 DEF ClientStep, ServerUnchanged, slotVars
  <2>2. peer \in [Conns -> {"new", "open", "gone"}] /\ backlog \in Seq(Conns) /\ p1 \in Conns
    BY <1>2 DEF SocketTypeOK, PersistentLasts
  <2>3. CASE Connect(c)
    <3>1. peer[c] = "new" /\ peer' = [peer EXCEPT ![c] = "open"]
          /\ backlog' = Append(backlog, c)
      BY <2>3 DEF Connect
    <3>2. c # p1
      BY <1>1, <3>1
    <3>3. /\ Len(backlog) \in Nat /\ Len(backlog') = Len(backlog) + 1
          /\ \A i \in 1 .. Len(backlog) : backlog'[i] = backlog[i]
          /\ backlog'[Len(backlog) + 1] = c
      BY <2>2, <3>1, AppendProperties, LenProperties
    <3>4. \A i \in 1 .. Len(backlog') : i \in 1 .. Len(backlog) \/ i = Len(backlog) + 1
      BY <3>3
    <3> QED
      BY <1>1, <2>1, <2>2, <3>1, <3>2, <3>3, <3>4
  <2>4. CASE Deliver(c) \/ Hangup(c)
    BY <1>1, <2>1, <2>2, <2>4 DEF Deliver, Hangup
  <2> QED
    BY <1>7, <2>3, <2>4 DEF ClientStep
<1> QED
  BY <1>4, <1>5, <1>6, <1>7, <1>1 DEF Silent

(* A pair takes one event of each side.                                    *)
LEMMA PairsKept ==
    ASSUME PersistentLasts, TypeInv, Serving, CountersOK, ~ReapInactive, PairsInv, [Next]_vars
    PROVE  PairsInv'
<1>1. /\ all.both \in Nat /\ all.onlyP \in Nat /\ all.onlyNp \in Nat
      /\ all.both <= all.onlyP /\ all.both <= all.onlyNp
  BY DEF CountersOK, Totals, PairsInv, PairsWithinEvents
<1>2. CASE Silent
  <2>1. UNCHANGED <<pick, all>>
    BY <1>2 DEF Silent
  <2>2. CASE pick = NoFd
    BY <2>1, <2>2 DEF PairsInv, PairsWithinEvents
  <2>3. CASE pick # NoFd
    BY <1>2, <2>1, <2>3, ComesOnce DEF PairsInv, PairsWithinEvents
  <2> QED
    BY <2>2, <2>3
<1>3. ASSUME UNCHANGED <<pick, all, peer, backlog, persistent_fd>> PROVE PairsInv'
  BY <1>3 DEF PairsInv, PairsWithinEvents
<1>4. CASE CountedExit
  BY <1>3, <1>4 DEF CountedExit, Exit, SaveRemaining, CloseAndAdd
<1>5. ASSUME NEW e \in FDs, Leaves(e) PROVE PairsInv'
  <2>1. CloseNonPersistent(e) /\ CountEnd /\ \E adding : CloseAndAdd({e}, adding)
    BY <1>5 DEF Leaves, SlotEmpties, SlotPasses, EndNobodyWaits, EndPromote
  <2> QED
    BY <1>3, <2>1 DEF CloseNonPersistent, CountEnd, CloseAndAdd
<1>6. persistent_fd # NoFd =>
            peer[p1] # "new" /\ \A i \in 1 .. Len(backlog) : backlog[i] # p1
  BY WhoIsWhere DEF Serving, EachOnce
<1>7. persistent_fd # NoFd => persistent_fd # non_persistent_fd
  BY DEF Serving, Roles
<1>8. ASSUME NEW e \in FDs, CountedPersistentData(e) PROVE PairsInv'
  <2> DEFINE pair == One(CompletesPair(non_persistent_fd))
  <2>1. /\ UNCHANGED <<peer, backlog, persistent_fd>> /\ persistent_fd # NoFd
        /\ CountPersistent(Received(e))
    BY <1>8, NoFdApart DEF CountedPersistentData, PersistentData, Take, slotVars
  <2>2. /\ all'.both = all.both + pair /\ all'.onlyP = all.onlyP + 1
        /\ all'.onlyNp = all.onlyNp
        /\ pick' = NextPick(persistent_fd, non_persistent_fd)
    BY <2>1 DEF CountPersistent, CountersOK, Totals
  <2>3. CASE ~BothActive
    BY <1>1, <1>6, <2>1, <2>2, <2>3 DEF CompletesPair, One, NextPick, PairsInv, PairsWithinEvents
  <2>4. CASE BothActive
    BY <1>1, <1>6, <1>7, <2>1, <2>2, <2>4
       DEF BothActive, CompletesPair, One, NextPick, PairsInv, PairsWithinEvents
  <2> QED
    BY <2>3, <2>4
<1>9. ASSUME NEW e \in FDs, CountedNonPersistentData(e) PROVE PairsInv'
  <2> DEFINE pair == One(CompletesPair(persistent_fd))
  <2>1. /\ UNCHANGED <<peer, backlog, persistent_fd>>
        /\ CountNonPersistent(Received(e))
    BY <1>9 DEF CountedNonPersistentData, NonPersistentData, Take, slotVars
  <2>2. /\ all'.both = all.both + pair /\ all'.onlyNp = all.onlyNp + 1
        /\ all'.onlyP = all.onlyP
        /\ pick' = NextPick(non_persistent_fd, persistent_fd)
    BY <2>1 DEF CountNonPersistent, CountersOK, Totals
  <2>3. CASE ~BothActive
    BY <1>1, <1>6, <2>1, <2>2, <2>3 DEF CompletesPair, One, NextPick, PairsInv, PairsWithinEvents
  <2>4. CASE BothActive
    BY <1>1, <1>6, <1>7, <2>1, <2>2, <2>4
       DEF BothActive, CompletesPair, One, NextPick, PairsInv, PairsWithinEvents
  <2> QED
    BY <2>3, <2>4
<1> QED
  BY <1>2, <1>4, <1>5, <1>8, <1>9, CountedSteps

(* The connection layer under the counting.                                *)
LEMMA CountedRun == ASSUME Deployed PROVE Spec => []RunInv
BY RunAlways, StatsImplementServer, PTL

(* In either deployment the pairs of all connections never outnumber the   *)
(* events of one side, so that the two differences of lines 155-156 do not *)
(* wrap.  The theorem says nothing of those of lines 305-306 and 515-516.  *)
THEOREM PairsAlwaysWithinEvents == ASSUME Deployed PROVE Spec => []PairsWithinEvents
<1>1. StatsInit => PairsInv
  BY DEF StatsInit, NoTotals, PairsInv, PairsWithinEvents
<1>2. StatsInv /\ RunInv /\ PairsInv /\ [Next]_vars => PairsInv'
  <2> SUFFICES ASSUME StatsInv, RunInv, PairsInv, [Next]_vars PROVE PairsInv'
    OBVIOUS
  <2>1. PersistentLasts /\ ~ReapInactive /\ TypeInv /\ CountersOK
    BY NobodyReaped DEF StatsInv
  <2>2. CASE pc = "exited"
    <3>1. UNCHANGED <<sockVars, slotVars, statsVars>>
      BY <2>2, StatsExited DEF RunInv, RolesInv, Over
    <3> QED
      BY <3>1 DEF sockVars, slotVars, statsVars, PairsInv, PairsWithinEvents
  <2>3. CASE pc # "exited"
    BY <2>1, <2>3, PairsKept DEF RunInv, RolesInv
  <2> QED
    BY <2>2, <2>3
<1>3. PairsInv => PairsWithinEvents
  BY DEF PairsInv
<1> QED
  BY <1>1, <1>2, <1>3, StatsInitHolds, StatsStep, CountedRun, PTL DEF Spec


-----------------------------------------------------------------------------
(* The report adds up.                                                     *)

Fields == {"p", "np", "both", "perPackets", "nonperPackets"}

(* A counter of a row, of temp_stats and of the others is a number.        *)
LEMMA FieldTyped ==
    ASSUME CountersOK
    PROVE  /\ \A field \in Fields :
                cur[field] \in Nat /\ all[field] \in Nat /\ temp[field] \in Nat
           /\ \A field \in Fields \cup {"perBytes", "nonperBytes"} :
                /\ temp[field] \in Nat /\ NoStats[field] = 0
                /\ \A row \in Stats : row[field] \in Nat
           /\ all.perBytes \in Nat /\ all.nonperBytes \in Nat
<1>1. \A field \in Fields : cur[field] \in Nat
  BY DEF Fields, CountersOK, Counts
<1>2. \A field \in Fields : all[field] \in Nat
  BY DEF Fields, CountersOK, Totals
<1>3. \A row \in Stats : \A field \in Fields \cup {"perBytes", "nonperBytes"} :
            row[field] \in Nat
  BY DEF Fields, Stats
<1>4. \A field \in Fields \cup {"perBytes", "nonperBytes"} : NoStats[field] = 0
  BY DEF Fields, NoStats
<1>5. temp \in Stats /\ all.perBytes \in Nat /\ all.nonperBytes \in Nat
  BY DEF CountersOK, Totals
<1> QED
  BY <1>1, <1>2, <1>3, <1>4, <1>5

(* What the rows hold of a counter.                                        *)
LEMMA InRowsAppend ==
    ASSUME CountersOK, NEW field \in Fields \cup {"perBytes", "nonperBytes"}
    PROVE  /\ InRows(field) \in Int
           /\ rows' = rows => InRows(field)' = InRows(field)
           /\ \A row \in Stats :
                rows' = Append(rows, row) => InRows(field)' = InRows(field) + row[field]
<1> DEFINE s == [i \in DOMAIN rows |-> rows[i][field]]
<1>1. /\ rows \in Seq(Stats) /\ Len(rows) \in Nat /\ DOMAIN rows = 1 .. Len(rows)
      /\ \A i \in 1 .. Len(rows) : rows[i][field] \in Int
      /\ \A row \in Stats : row[field] \in Int
  <2>1. rows \in Seq(Stats) /\ Len(rows) \in Nat /\ DOMAIN rows = 1 .. Len(rows)
    BY LenProperties DEF CountersOK
  <2>2. \A i \in 1 .. Len(rows) : rows[i] \in Stats
    BY <2>1, ElementOfSeq
  <2> QED
    BY <2>1, <2>2, FieldTyped
<1>2. s \in Seq(Int) /\ Len(s) = Len(rows)
  <2>1. s \in [1 .. Len(rows) -> Int]
    BY <1>1
  <2> QED
    BY <1>1, <2>1, IsASeq, LenProperties
<1>3. InRows(field) = SumOf(s)
  BY DEF InRows
<1>4. ASSUME rows' = rows PROVE InRows(field)' = InRows(field)
  BY <1>4 DEF InRows
<1>5. ASSUME NEW row \in Stats, rows' = Append(rows, row)
      PROVE  InRows(field)' = InRows(field) + row[field]
  <2>1. /\ rows' \in Seq(Stats) /\ Len(rows') = Len(rows) + 1
        /\ \A i \in 1 .. Len(rows) : rows'[i] = rows[i]
        /\ rows'[Len(rows) + 1] = row
    BY <1>1, <1>5, AppendProperties
  <2>2. [i \in DOMAIN rows' |-> rows'[i][field]] = Append(s, row[field])
    <3> DEFINE t == [i \in DOMAIN rows' |-> rows'[i][field]]
    <3>1. DOMAIN rows' = 1 .. (Len(rows) + 1)
      BY <2>1, LenProperties
    <3>2. /\ Append(s, row[field]) \in Seq(Int)
          /\ Len(Append(s, row[field])) = Len(rows) + 1
          /\ \A i \in 1 .. Len(rows) : Append(s, row[field])[i] = rows[i][field]
          /\ Append(s, row[field])[Len(rows) + 1] = row[field]
      BY <1>1, <1>2, AppendProperties
    <3>3. \A i \in 1 .. (Len(rows) + 1) : i \in 1 .. Len(rows) \/ i = Len(rows) + 1
      BY <1>1
    <3>4. \A i \in 1 .. (Len(rows) + 1) : t[i] = Append(s, row[field])[i]
      BY <2>1, <3>1, <3>2, <3>3
    <3>5. Append(s, row[field]) \in [1 .. (Len(rows) + 1) -> Int]
      BY <3>2, LenProperties
    <3> HIDE DEF s
    <3> QED
      BY <3>1, <3>4, <3>5
  <2>3. InRows(field)' = SumOf(Append(s, row[field]))
    BY <2>2 DEF InRows
  <2>4. SumOf(Append(s, row[field])) = SumOf(s) + row[field]
    BY <1>1, <1>2, SumAppend
  <2> QED
    BY <1>3, <2>3, <2>4
<1>6. InRows(field) \in Int
  BY <1>2, <1>3, SumTyped
<1> QED
  BY <1>4, <1>5, <1>6

(* A read counts for the current connection and for the totals alike.      *)
LEMMA ReadAddsUp ==
    ASSUME TypeInv, CountersOK, pc # "exited", RowsAddUp, NEW e \in FDs,
           CountedPersistentData(e) \/ CountedNonPersistentData(e)
    PROVE  RowsAddUp'
<1> DEFINE n == Received(e)
<1>1. DataEvent(e) /\ rows' = rows /\ temp' = temp
  BY DEF CountedPersistentData, CountedNonPersistentData, PersistentData, NonPersistentData
<1>2. n \in Nat /\ per_bytes_read \in Nat /\ nonper_bytes_read \in Nat
  BY <1>1, DataTyped DEF TypeInv, TypeOK
<1>3. \A field \in Fields \cup {"perBytes", "nonperBytes"} :
            InRows(field) \in Int /\ InRows(field)' = InRows(field)
  BY <1>1, InRowsAppend
<1> HIDE DEF n
<1>4. /\ \A field \in Fields : cur'[field] - all'[field] = cur[field] - all[field]
      /\ \A field \in Fields : cur'[field] \in Int /\ all'[field] \in Int
      /\ per_bytes_read' - all'.perBytes = per_bytes_read - all.perBytes
      /\ nonper_bytes_read' - all'.nonperBytes = nonper_bytes_read - all.nonperBytes
      /\ per_bytes_read' \in Int /\ nonper_bytes_read' \in Int
      /\ all'.perBytes \in Int /\ all'.nonperBytes \in Int
  <2>1. Packets(n) \in Int
    BY <1>2, SizesAreNat DEF Packets
  <2>2. \A b : One(b) \in {0, 1}
    BY DEF One
  <2>3. CASE CountedPersistentData(e)
    <3> DEFINE pair == One(CompletesPair(non_persistent_fd))
               k == Packets(n)
    <3>1. /\ cur' = [cur EXCEPT !.perPackets = @ + k, !.onlyP = @ + 1,
                                !.np = @ + pair, !.both = @ + pair]
          /\ all' = [all EXCEPT !.perPackets = @ + k, !.onlyP = @ + 1,
                                !.np = @ + pair, !.both = @ + pair, !.perBytes = @ + n]
          /\ per_bytes_read' = per_bytes_read + n /\ nonper_bytes_read' = nonper_bytes_read
      BY <2>3 DEF CountedPersistentData, PersistentData, CountPersistent, n
    <3>2. pair \in Int /\ k \in Int
      BY <2>1, <2>2
    <3> HIDE DEF pair, k
    <3>3. cur \in Counts /\ all \in Totals
      BY DEF CountersOK
    <3>4. /\ cur'.p = cur.p /\ cur'.np = cur.np + pair /\ cur'.both = cur.both + pair
          /\ cur'.perPackets = cur.perPackets + k /\ cur'.nonperPackets = cur.nonperPackets
      BY <3>1, <3>3 DEF Counts
    <3>5. /\ all'.p = all.p /\ all'.np = all.np + pair /\ all'.both = all.both + pair
          /\ all'.perPackets = all.perPackets + k /\ all'.nonperPackets = all.nonperPackets
      BY <3>1, <3>3 DEF Totals
    <3>6. /\ all'.perBytes = all.perBytes + n /\ all'.nonperBytes = all.nonperBytes
          /\ all.perBytes \in Nat /\ all.nonperBytes \in Nat
      BY <3>1, <3>3 DEF Totals
    <3>7. \A field \in Fields : cur[field] \in Nat /\ all[field] \in Nat
      BY FieldTyped
    <3> QED
      BY <1>2, <3>1, <3>2, <3>4, <3>5, <3>6, <3>7 DEF Fields
  <2>4. CASE CountedNonPersistentData(e)
    <3> DEFINE pair == One(CompletesPair(persistent_fd))
               k == Packets(n)
    <3>1. /\ cur' = [cur EXCEPT !.nonperPackets = @ + k, !.onlyNp = @ + 1,
                                !.p = @ + pair, !.both = @ + pair]
          /\ all' = [all EXCEPT !.nonperPackets = @ + k, !.onlyNp = @ + 1,
                                !.p = @ + pair, !.both = @ + pair, !.nonperBytes = @ + n]
          /\ nonper_bytes_read' = nonper_bytes_read + n /\ per_bytes_read' = per_bytes_read
      BY <2>4 DEF CountedNonPersistentData, NonPersistentData, CountNonPersistent, n
    <3>2. pair \in Int /\ k \in Int
      BY <2>1, <2>2
    <3> HIDE DEF pair, k
    <3>3. cur \in Counts /\ all \in Totals
      BY DEF CountersOK
    <3>4. /\ cur'.p = cur.p + pair /\ cur'.np = cur.np /\ cur'.both = cur.both + pair
          /\ cur'.perPackets = cur.perPackets /\ cur'.nonperPackets = cur.nonperPackets + k
      BY <3>1, <3>3 DEF Counts
    <3>5. /\ all'.p = all.p + pair /\ all'.np = all.np /\ all'.both = all.both + pair
          /\ all'.perPackets = all.perPackets /\ all'.nonperPackets = all.nonperPackets + k
      BY <3>1, <3>3 DEF Totals
    <3>6. /\ all'.nonperBytes = all.nonperBytes + n /\ all'.perBytes = all.perBytes
          /\ all.perBytes \in Nat /\ all.nonperBytes \in Nat
      BY <3>1, <3>3 DEF Totals
    <3>7. \A field \in Fields : cur[field] \in Nat /\ all[field] \in Nat
      BY FieldTyped
    <3> QED
      BY <1>2, <3>1, <3>2, <3>4, <3>5, <3>6, <3>7 DEF Fields
  <2> QED
    BY <2>3, <2>4
<1>5. /\ \A field \in Fields : InRows(field) + temp[field] + cur[field] = all[field]
      /\ InRows("perBytes") + temp["perBytes"] + per_bytes_read = all.perBytes
      /\ InRows("nonperBytes") + temp["nonperBytes"] + nonper_bytes_read = all.nonperBytes
  BY DEF RowsAddUp, InReport, Fields
<1>6. /\ \A field \in Fields : InRows(field)' + temp'[field] + cur'[field] = all'[field]
      /\ InRows("perBytes")' + temp'["perBytes"] + per_bytes_read' = all'.perBytes
      /\ InRows("nonperBytes")' + temp'["nonperBytes"] + nonper_bytes_read' = all'.nonperBytes
  BY <1>1, <1>2, <1>3, <1>4, <1>5, FieldTyped
<1> QED
  BY <1>6 DEF RowsAddUp, InReport, Fields


(* The end of a visit moves its counters to temp_stats or to a row.        *)
LEMMA EndAddsUp ==
    ASSUME TypeInv, CountersOK, pc # "exited", RowsAddUp, CountEnd, ResetCounters
    PROVE  RowsAddUp'
<1> DEFINE stats == WithCurrent(conn2.end - conn2.start)
           All == Fields \cup {"perBytes", "nonperBytes"}
           Of(field) == CASE field = "perBytes" -> per_bytes_read
                          [] field = "nonperBytes" -> nonper_bytes_read
                          [] OTHER -> cur[field]
<1>1. per_bytes_read \in Nat /\ nonper_bytes_read \in Nat
  BY DEF TypeInv, TypeOK
<1>2. stats \in Stats
  BY WithCurrentTyped DEF TypeInv, CountersOK
<1>3. /\ stats.p = temp.p + cur.p /\ stats.np = temp.np + cur.np
      /\ stats.both = temp.both + cur.both
      /\ stats.perPackets = temp.perPackets + cur.perPackets
      /\ stats.nonperPackets = temp.nonperPackets + cur.nonperPackets
      /\ stats.perBytes = temp.perBytes + per_bytes_read
      /\ stats.nonperBytes = temp.nonperBytes + nonper_bytes_read
  BY DEF WithCurrent, CountersOK, Stats
<1>4. /\ \/ rows' = Append(rows, stats) /\ temp' = NoStats
         \/ rows' = rows /\ temp' = stats
      /\ cur' = NoCounts /\ all' = all
      /\ per_bytes_read' = 0 /\ nonper_bytes_read' = 0
  BY DEF CountEnd, ResetCounters
<1>5. \A field \in All : /\ InRows(field) \in Int
                         /\ InRows(field)' + temp'[field] = InRows(field) + stats[field]
  <2> HIDE DEF stats
  <2> SUFFICES ASSUME NEW field \in All
               PROVE  /\ InRows(field) \in Int
                      /\ InRows(field)' + temp'[field] = InRows(field) + stats[field]
    OBVIOUS
  <2>1. /\ InRows(field) \in Int /\ stats[field] \in Int /\ NoStats[field] = 0
        /\ rows' = rows => InRows(field)' = InRows(field)
        /\ rows' = Append(rows, stats) => InRows(field)' = InRows(field) + stats[field]
    BY <1>2, InRowsAppend, FieldTyped
  <2> QED
    BY <1>4, <2>1
<1> HIDE DEF stats
<1>6. /\ \A field \in Fields : stats[field] = temp[field] + cur[field] /\ NoCounts[field] = 0
      /\ stats["perBytes"] = temp["perBytes"] + per_bytes_read
      /\ stats["nonperBytes"] = temp["nonperBytes"] + nonper_bytes_read
  BY <1>3 DEF Fields, NoCounts
<1>7. /\ \A field \in Fields : InRows(field) + temp[field] + cur[field] = all[field]
      /\ InRows("perBytes") + temp["perBytes"] + per_bytes_read = all.perBytes
      /\ InRows("nonperBytes") + temp["nonperBytes"] + nonper_bytes_read = all.nonperBytes
  BY DEF RowsAddUp, InReport, Fields
<1>8. /\ \A field \in Fields : InRows(field)' + temp'[field] = all[field]
      /\ InRows("perBytes")' + temp'["perBytes"] = all.perBytes
      /\ InRows("nonperBytes")' + temp'["nonperBytes"] = all.nonperBytes
  BY <1>1, <1>5, <1>6, <1>7, FieldTyped
<1>9. /\ \A field \in Fields : InRows(field)' + temp'[field] + cur'[field] = all'[field]
      /\ InRows("perBytes")' + temp'["perBytes"] + per_bytes_read' = all'.perBytes
      /\ InRows("nonperBytes")' + temp'["nonperBytes"] + nonper_bytes_read' = all'.nonperBytes
  <2>1. \A field \in Fields : all[field] \in Nat /\ cur'[field] = 0
    BY <1>4, <1>6, FieldTyped
  <2>2. all.perBytes \in Nat /\ all.nonperBytes \in Nat
    BY FieldTyped
  <2> QED
    BY <1>4, <1>8, <2>1, <2>2
<1> QED
  BY <1>9 DEF RowsAddUp, InReport, Fields

(* In either deployment the report's rows, temp_stats and the current      *)
(* connection hold together what the overall part counts (lines 302-311,   *)
(* 318-321), as long as the server runs.                                   *)
THEOREM ReportAddsUp == ASSUME Deployed PROVE Spec => []RowsAddUp
<1>1. StatsInit => RowsAddUp
  <2> SUFFICES ASSUME StatsInit PROVE RowsAddUp
    OBVIOUS
  <2>1. /\ rows = <<>> /\ temp = NoStats /\ cur = NoCounts /\ all = NoTotals
        /\ per_bytes_read = 0 /\ nonper_bytes_read = 0
    BY DEF StatsInit, ServerInit
  <2>2. \A field : [i \in DOMAIN rows |-> rows[i][field]] = <<>>
    BY <2>1
  <2>3. \A field : InRows(field) = 0
    BY <2>2, SumOfNone DEF InRows
  <2> QED
    BY <2>1, <2>3 DEF RowsAddUp, InReport, NoStats, NoCounts, NoTotals
<1>2. StatsInv /\ RunInv /\ RowsAddUp /\ [Next]_vars => RowsAddUp'
  <2> SUFFICES ASSUME StatsInv, RunInv, RowsAddUp, [Next]_vars, pc' # "exited"
               PROVE  RowsAddUp'
    BY DEF RowsAddUp
  <2>1. PersistentLasts /\ ~ReapInactive /\ TypeInv /\ CountersOK
    BY NobodyReaped DEF StatsInv
  <2>2. pc # "exited"
    BY StatsExited DEF RunInv, RolesInv, Over
  <2>3. CASE Silent
    <3>1. UNCHANGED <<rows, temp, cur, all, per_bytes_read, nonper_bytes_read>>
      BY <2>3 DEF Silent, byteVars
    <3> QED
      BY <2>2, <3>1 DEF RowsAddUp, InReport, InRows
  <2>4. ASSUME NEW e \in FDs, CountedPersistentData(e) \/ CountedNonPersistentData(e)
        PROVE  RowsAddUp'
    BY <2>1, <2>2, <2>4, ReadAddsUp
  <2>5. ASSUME NEW e \in FDs, Leaves(e) PROVE RowsAddUp'
    BY <2>1, <2>2, <2>5, EndAddsUp DEF Leaves, SlotEmpties, SlotPasses, EndNobodyWaits, EndPromote
  <2>6. ~CountedExit
    BY DEF CountedExit, Exit
  <2> QED
    BY <2>1, <2>2, <2>3, <2>4, <2>5, <2>6, CountedSteps DEF RunInv, RolesInv
<1> QED
  BY <1>1, <1>2, StatsInitHolds, StatsStep, CountedRun, PTL DEF Spec

-----------------------------------------------------------------------------
(* Every unit read is counted for its sender.                              *)

(* What has been read from the clients of one kind.                        *)
LEMMA ReadFromChange ==
    ASSUME SocketTypeOK, SocketTypeOK', IsFiniteSet(Conns), NEW kind,
           NEW c \in Conns, NEW d \in Int,
           sent'[c] - inbox'[c] = sent[c] - inbox[c] + d,
           \A x \in Conns : x # c => sent'[x] - inbox'[x] = sent[x] - inbox[x]
    PROVE  ReadFrom(kind)' = ReadFrom(kind) + (IF Kind[c] = kind THEN d ELSE 0)
           /\ ReadFrom(kind) \in Int
<1> DEFINE cs == {x \in Conns : Kind[x] = kind}
           f == [x \in cs |-> sent[x] - inbox[x]]
           g == [x \in cs |-> sent'[x] - inbox'[x]]
<1>1. cs \subseteq Conns /\ IsFiniteSet(cs)
  BY FS_Subset
<1>2. f \in [cs -> Int] /\ g \in [cs -> Int]
  <2>1. \A x \in Conns : sent[x] - inbox[x] \in Int /\ sent'[x] - inbox'[x] \in Int
    BY DEF SocketTypeOK
  <2> QED
    BY <1>1, <2>1
<1>3. ReadFrom(kind) = SumOver(cs, f) /\ ReadFrom(kind)' = SumOver(cs, g)
  BY DEF ReadFrom
<1>4. SumOver(cs, f) \in Int
  <2> DEFINE s == [i \in 1 .. Cardinality(cs) |-> f[SetToSeq(cs)[i]]]
  <2>1. s \in Seq(Int)
    BY <1>1, <1>2, SummandsTyped
  <2> QED
    BY <2>1, SumTyped DEF SumOver
<1>5. CASE Kind[c] = kind
  <2>1. c \in cs /\ g[c] = f[c] + d /\ \A x \in cs : x # c => g[x] = f[x]
    BY <1>5
  <2> HIDE DEF cs, f, g
  <2>2. SumOver(cs, g) = SumOver(cs, f) + d
    BY <1>1, <1>2, <2>1, SumOverChange
  <2> QED
    BY <1>3, <1>4, <1>5, <2>2
<1>6. CASE Kind[c] # kind
  <2>1. g = f
    <3>1. \A x \in cs : g[x] = f[x]
      BY <1>6
    <3> QED
      BY <3>1
  <2> HIDE DEF cs, f, g
  <2> QED
    BY <1>3, <1>4, <1>6, <2>1
<1> QED
  BY <1>5, <1>6

(* A change of none of them.                                               *)
LEMMA ReadFromSame ==
    ASSUME NEW kind,
           \A x \in Conns : sent'[x] - inbox'[x] = sent[x] - inbox[x]
    PROVE  ReadFrom(kind)' = ReadFrom(kind)
<1> DEFINE cs == {x \in Conns : Kind[x] = kind}
<1>1. [x \in cs |-> sent'[x] - inbox'[x]] = [x \in cs |-> sent[x] - inbox[x]]
  BY Zenon
<1> QED
  BY <1>1 DEF ReadFrom

(* A silent step reads nothing: nobody is turned away.                     *)
LEMMA SilentReadsNothing ==
    ASSUME OneAtATime, TypeInv, Serving, pc # "exited", InTurn, Silent
    PROVE  \A c \in Conns : sent'[c] - inbox'[c] = sent[c] - inbox[c]
<1>1. PersistentLasts
  BY DEF OneAtATime
<1>2. UNCHANGED <<sent, inbox>> =>
            \A c \in Conns : sent'[c] - inbox'[c] = sent[c] - inbox[c]
  OBVIOUS
<1>3. CASE Quiet \/ UNCHANGED serverVars
  BY <1>2, <1>3 DEF Quiet, LoopTest, Second, TimeoutStop, Collect, AcceptFails, Signal,
        serverVars, sockVars
<1>4. CASE Comes
  BY <1>2, <1>4, NobodyWaits DEF Comes, PersistentComes, OtherIsServed, Opens, AcceptAs
<1>5. ASSUME NEW e \in FDs, SpuriousEvent(e) \/ PersistentEnds(e)
      PROVE  UNCHANGED <<sent, inbox>>
  <2>1. {} \in SUBSET FDs
    OBVIOUS
  <2> QED
    BY <1>1, <1>5, <2>1, ClosesOne DEF SpuriousEvent, PersistentEnds, sockVars
<1>6. ASSUME NEW c \in Conns, ClientStep(c)
      PROVE  \A x \in Conns : sent'[x] - inbox'[x] = sent[x] - inbox[x]
  <2>1. CASE Connect(c) \/ Hangup(c)
    BY <2>1 DEF Connect, Hangup
  <2>2. CASE Deliver(c)
    <3>1. sent' = [sent EXCEPT ![c] = @ + 1] /\ inbox' = [inbox EXCEPT ![c] = @ + 1]
      BY <2>2 DEF Deliver
    <3>2. sent \in [Conns -> Nat] /\ inbox \in [Conns -> Nat]
      BY DEF TypeInv, TypeOK, SocketTypeOK
    <3> QED
      BY <3>1, <3>2
  <2> QED
    BY <1>6, <2>1, <2>2 DEF ClientStep
<1> QED
  BY <1>2, <1>3, <1>4, <1>5, <1>6 DEF Silent

(* A read is counted under the kind of client whose slot it was in.        *)
LEMMA ReadFollows ==
    ASSUME OneAtATime, TypeInv, TypeInv', Serving, CountersOK, pc # "exited",
           BytesFollowTheSender, NEW e \in FDs,
           CountedPersistentData(e) \/ CountedNonPersistentData(e)
    PROVE  BytesFollowTheSender'
<1> DEFINE n == Received(e)
           c == owner[e]
<1>1. /\ PersistentLasts /\ IsFiniteSet(Conns) /\ SocketTypeOK /\ SocketTypeOK'
  BY DEF OneAtATime, TypeInv, TypeOK
<1>2. DataEvent(e) /\ Take(e, n)
  BY DEF CountedPersistentData, CountedNonPersistentData, PersistentData, NonPersistentData
<1>3. n \in Nat /\ c \in Conns
  BY <1>2, DataTyped DEF TypeInv
<1>4. /\ inbox' = [inbox EXCEPT ![c] = @ - n] /\ sent' = sent
      /\ inbox \in [Conns -> Nat] /\ sent \in [Conns -> Nat]
  BY <1>1, <1>2 DEF Take, SocketTypeOK
<1>5. /\ all.perBytes \in Nat /\ all.nonperBytes \in Nat
      /\ all.perBytes = ReadFrom("P") /\ all.nonperBytes = ReadFrom("N")
  BY DEF CountersOK, Totals, BytesFollowTheSender
<1>6. CountedPersistentData(e) => Kind[c] = "P"
  BY <1>1, WhoIsWhere, NoFdApart
     DEF CountedPersistentData, PersistentData, PersistentLasts
<1>7. CountedNonPersistentData(e) => Kind[c] = "N"
  BY <1>1, WhoIsWhere, NoFdApart
     DEF CountedNonPersistentData, NonPersistentData, PersistentLasts
<1>8. /\ CountedPersistentData(e) =>
            all'.perBytes = all.perBytes + n /\ all'.nonperBytes = all.nonperBytes
      /\ CountedNonPersistentData(e) =>
            all'.perBytes = all.perBytes /\ all'.nonperBytes = all.nonperBytes + n
  BY DEF CountedPersistentData, CountedNonPersistentData, CountPersistent,
         CountNonPersistent, CountersOK, Totals
<1> HIDE DEF n, c
<1>9. /\ sent'[c] - inbox'[c] = sent[c] - inbox[c] + n
      /\ \A x \in Conns : x # c => sent'[x] - inbox'[x] = sent[x] - inbox[x]
  BY <1>3, <1>4
<1>10. \A kind : ReadFrom(kind)' = ReadFrom(kind) + (IF Kind[c] = kind THEN n ELSE 0)
  BY <1>1, <1>3, <1>9, ReadFromChange
<1>11. all'.perBytes = ReadFrom("P")' /\ all'.nonperBytes = ReadFrom("N")'
  BY <1>3, <1>5, <1>6, <1>7, <1>8, <1>10
<1> QED
  BY <1>11 DEF BytesFollowTheSender

(* With one connection after the other each gets the slot of its kind and  *)
(* stays there: every unit that recv returns is counted once and under the *)
(* client that sent it (lines 454-455, 478-479).                           *)
THEOREM BytesOfTheSender == ASSUME OneAtATime PROVE Spec => []BytesFollowTheSender
<1>0. Deployed /\ PersistentLasts
  BY DEF Deployed, OneAtATime
<1>1. StatsInit => BytesFollowTheSender
  <2> SUFFICES ASSUME StatsInit PROVE BytesFollowTheSender
    OBVIOUS
  <2>1. all.perBytes = 0 /\ all.nonperBytes = 0
        /\ \A c \in Conns : sent[c] = 0 /\ inbox[c] = 0
    BY DEF StatsInit, NoTotals, ServerInit, SocketInit
  <2>2. ASSUME NEW kind PROVE ReadFrom(kind) = 0
    <3> DEFINE cs == {c \in Conns : Kind[c] = kind}
               f == [c \in cs |-> sent[c] - inbox[c]]
    <3>1. IsFiniteSet(cs)
      BY FS_Subset DEF OneAtATime
    <3>2. f \in [cs -> Int] /\ \A c \in cs : f[c] = 0
      BY <2>1
    <3>3. ReadFrom(kind) = SumOver(cs, f)
      BY DEF ReadFrom
    <3> HIDE DEF cs, f
    <3> QED
      BY <3>1, <3>2, <3>3, SumOverZeros
  <2> QED
    BY <2>1, <2>2 DEF BytesFollowTheSender
<1>2. StatsInv /\ StatsInv' /\ RunInv /\ BytesFollowTheSender /\ [Next]_vars
        => BytesFollowTheSender'
  <2> SUFFICES ASSUME StatsInv, StatsInv', RunInv, BytesFollowTheSender, [Next]_vars,
                      pc' # "exited"
               PROVE  BytesFollowTheSender'
    BY DEF BytesFollowTheSender
  <2>1. PersistentLasts /\ ~ReapInactive /\ TypeInv /\ TypeInv' /\ CountersOK
    BY <1>0, NobodyReaped DEF StatsInv
  <2>2. pc # "exited"
    BY StatsExited DEF RunInv, RolesInv, Over
  <2>3. Serving /\ InTurn
    BY <2>2 DEF RunInv, RolesInv
  <2>4. ASSUME \A c \in Conns : sent'[c] - inbox'[c] = sent[c] - inbox[c], all' = all
        PROVE  BytesFollowTheSender'
    <3>1. \A kind : ReadFrom(kind)' = ReadFrom(kind)
      BY <2>4, ReadFromSame
    <3> QED
      BY <2>2, <2>4, <3>1 DEF BytesFollowTheSender
  <2>5. CASE Silent
    <3>1. all' = all
      BY <2>5 DEF Silent
    <3> QED
      BY <2>1, <2>2, <2>3, <2>4, <2>5, <3>1, SilentReadsNothing
  <2>6. ASSUME NEW e \in FDs, CountedPersistentData(e) \/ CountedNonPersistentData(e)
        PROVE  BytesFollowTheSender'
    BY <2>1, <2>2, <2>3, <2>6, ReadFollows
  <2>7. ASSUME NEW e \in FDs, Leaves(e) PROVE BytesFollowTheSender'
    <3>1. HasEnded(e) /\ CountEnd /\ CloseAndAdd({e}, {})
      BY <2>1, <2>2, <2>3, <2>7, NobodyWaits DEF Leaves, SlotEmpties, EndNobodyWaits
    <3>2. {} \in SUBSET FDs
      OBVIOUS
    <3>3. UNCHANGED <<sent, inbox>> /\ all' = all
      BY <2>1, <2>3, <3>1, <3>2, ClosesOne DEF CountEnd
    <3> QED
      BY <2>4, <3>3
  <2>8. ~CountedExit
    BY DEF CountedExit, Exit
  <2> QED
    BY <2>1, <2>3, <2>5, <2>6, <2>7, <2>8, CountedSteps
<1> QED
  BY <1>0, <1>1, <1>2, StatsInitHolds, StatsStep, CountedRun, PTL DEF Spec

=============================================================================
