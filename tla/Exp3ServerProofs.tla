-------------------------- MODULE Exp3ServerProofs --------------------------
(***************************************************************************)
(* Theorems about the connection layer of server_epx3.c, for any clients,  *)
(* any number of descriptors, any queue size, timeouts and failures.       *)
(***************************************************************************)
EXTENDS Exp3Server, SocketLayerProofs

-----------------------------------------------------------------------------
(* Type correctness of the server.                                         *)

(* An event on the listening descriptor is handled while the connection it *)
(* announced still waits: only its handler takes from the backlog.         *)
BatchOK == ListenFd \in batch => backlog # <<>>

TypeInv == TypeOK /\ BatchOK

(* The limits of the server are numbers.                                   *)
LEMMA LimitsAreNat ==
    /\ MAX_NON_PERSISTENT \in Nat /\ BUFFER_SIZE \in Nat \ {0}
    /\ INACTIVE_TIMEOUT \in Nat /\ NO_EVENT_TIMEOUT \in Nat /\ MaxFailures \in Nat
BY ServerAssumption

(* The state before the loop is well typed.                                *)
LEMMA InitTyped == ServerInit => TypeInv
<1> SUFFICES ASSUME ServerInit PROVE TypeInv
  OBVIOUS
<1>1. SocketTypeOK
  BY SocketAssumption DEF ServerInit, SocketInit, SocketTypeOK
<1>2. queue \in Seq(Waiting) /\ Len(queue) <= MAX_NON_PERSISTENT
  BY LimitsAreNat DEF ServerInit
<1>3. np_age \in Ages /\ conn1_age \in Ages /\ idle_age \in 0 .. NO_EVENT_TIMEOUT
      /\ failures \in 0 .. MaxFailures
  BY LimitsAreNat DEF ServerInit, Ages
<1>4. active_clients \in Int /\ rejected \in Nat
      /\ per_bytes_read \in Nat /\ nonper_bytes_read \in Nat
  BY DEF ServerInit
<1> QED
  BY <1>1, <1>2, <1>3, <1>4, Zenon DEF ServerInit, TypeInv, TypeOK, BatchOK

(* What a recv that returns data does to the kernel's state.               *)
LEMMA DataTyped ==
    ASSUME TypeOK, NEW e \in FDs, DataEvent(e)
    PROVE  /\ owner[e] \in Conns
           /\ Received(e) \in Nat
           /\ Received(e) <= inbox[owner[e]]
           /\ Take(e, Received(e)) => SocketTypeOK' /\ backlog' = backlog
<1>1. SocketTypeOK /\ IsOpen(e)
  BY DEF TypeOK, DataEvent, HasData
<1>2. owner[e] \in Conns
  BY <1>1 DEF SocketTypeOK, IsOpen, OpenFds
<1>3. inbox[owner[e]] \in Nat /\ BUFFER_SIZE \in Nat
  BY <1>1, <1>2, LimitsAreNat DEF SocketTypeOK
<1>4. Received(e) \in Nat /\ Received(e) <= inbox[owner[e]]
  BY <1>3 DEF Received
<1>5. ASSUME Take(e, Received(e)) PROVE SocketTypeOK' /\ backlog' = backlog
  BY <1>1, <1>4, <1>5, TakeTyped DEF Take
<1> QED
  BY <1>2, <1>4, <1>5

(* What the end of the non-persistent connection changes stays well typed. *)
LEMMA EndTyped ==
    ASSUME TypeOK, NEW e \in FDs,
           EndNobodyWaits(e) \/ EndPromote(e) \/ EndPromoteFails(e)
    PROVE  /\ SocketTypeOK'
           /\ backlog' = backlog
           /\ non_persistent_fd' \in FDs \cup {NoFd}
           /\ np_age' \in Ages
           /\ queue' \in Seq(Waiting)
           /\ Len(queue') <= MAX_NON_PERSISTENT
           /\ active_clients' \in Int
           /\ per_bytes_read' \in Nat
           /\ nonper_bytes_read' \in Nat
           /\ failures' \in 0 .. MaxFailures
<1> USE DEF TypeOK
<1>1. ResetCounters => per_bytes_read' \in Nat /\ nonper_bytes_read' \in Nat
  BY DEF ResetCounters
<1>2. OutOfMemory => failures' \in 0 .. MaxFailures
  BY LimitsAreNat DEF OutOfMemory
<1>3. CASE EndNobodyWaits(e)
  <2>1. CloseAndAdd({e}, {})
    BY <1>3 DEF EndNobodyWaits
  <2>2. SocketTypeOK' /\ backlog' = backlog
    BY <2>1, CloseAndAddTyped
  <2> QED
    BY <1>1, <1>3, <2>2 DEF EndNobodyWaits
<1>4. ASSUME queue # <<>>
      PROVE  /\ Head(queue).fd \in FDs
             /\ Head(queue).age \in Ages
             /\ Tail(queue) \in Seq(Waiting)
             /\ Len(Tail(queue)) <= MAX_NON_PERSISTENT
  <2>1. Head(queue) \in Waiting /\ Tail(queue) \in Seq(Waiting)
        /\ Len(Tail(queue)) = Len(queue) - 1 /\ Len(queue) \in Nat
    BY <1>4, HeadTailProperties, LenProperties
  <2> QED
    BY <2>1, LimitsAreNat DEF Waiting
<1>5. CASE EndPromote(e)
  <2>1. CloseAndAdd({e}, {Head(queue).fd}) /\ queue # <<>>
    BY <1>5 DEF EndPromote
  <2>2. SocketTypeOK' /\ backlog' = backlog
    BY <2>1, <1>4, CloseAndAddTyped
  <2> QED
    BY <1>1, <1>4, <1>5, <2>1, <2>2 DEF EndPromote
<1>6. CASE EndPromoteFails(e)
  <2>1. CloseAndAdd({e, Head(queue).fd}, {}) /\ queue # <<>>
    BY <1>6 DEF EndPromoteFails
  <2>2. SocketTypeOK' /\ backlog' = backlog
    BY <2>1, CloseAndAddTyped
  <2>3. failures' \in 0 .. MaxFailures
    BY <1>2, <1>6 DEF EndPromoteFails
  <2> QED
    BY <1>1, <1>4, <1>6, <2>1, <2>2, <2>3 DEF EndPromoteFails
<1> QED
  BY <1>3, <1>5, <1>6

(* A second's sleep keeps every age within its limit.                      *)
LEMMA SecondTyped == ASSUME TypeInv, Second PROVE TypeInv'
<1> USE DEF TypeInv, TypeOK
<1>1. \A age, limit : limit \in Nat /\ age \in 0 .. limit => Older(age, limit) \in 0 .. limit
  BY DEF Older
<1>2. np_age' \in Ages /\ conn1_age' \in Ages /\ idle_age' \in 0 .. NO_EVENT_TIMEOUT
  BY <1>1, LimitsAreNat DEF Second, Ages
<1>3. queue' \in Seq(Waiting) /\ Len(queue') = Len(queue)
  <2>1. \A w \in Waiting : [w EXCEPT !.age = Older(@, INACTIVE_TIMEOUT)] \in Waiting
    BY <1>1, LimitsAreNat DEF Waiting, Ages
  <2>2. \A i \in 1 .. Len(queue) : queue[i] \in Waiting
    BY ElementOfSeq
  <2>3. DOMAIN queue = 1 .. Len(queue) /\ Len(queue) \in Nat
    BY LenProperties
  <2>4. queue' = [i \in 1 .. Len(queue) |->
                    [queue[i] EXCEPT !.age = Older(@, INACTIVE_TIMEOUT)]]
    BY <2>3 DEF Second
  <2>5. queue' \in [1 .. Len(queue) -> Waiting]
    BY <2>1, <2>2, <2>4
  <2>6. queue' \in Seq(Waiting)
    BY <2>3, <2>5, SeqDef, Zenon
  <2>7. DOMAIN queue' = 1 .. Len(queue') /\ Len(queue') \in Nat
    BY <2>6, LenProperties
  <2>8. 1 .. Len(queue') = 1 .. Len(queue)
    BY <2>5, <2>7
  <2>9. \A m, n \in Nat : 1 .. m = 1 .. n => m = n
    <3>1. ASSUME NEW m \in Nat, NEW n \in Nat, 1 .. m = 1 .. n
          PROVE  m <= n
      BY <3>1, m = 0 \/ m \in 1 .. m
    <3> QED
      BY <3>1
  <2> QED
    BY <2>3, <2>6, <2>7, <2>8, <2>9
<1>4. SocketTypeOK' /\ BatchOK'
  BY DEF Second, sockVars, SocketTypeOK, BatchOK, FDs
<1> QED
  BY <1>2, <1>3, <1>4 DEF Second, countVars, byteVars

(* The actions that end epoll_wait.                                        *)
LEMMA WaitTyped == ASSUME TypeInv, WaitStep PROVE TypeInv'
<1> USE DEF TypeInv, TypeOK
<1>0. UNCHANGED sockVars => SocketTypeOK' /\ backlog' = backlog
  BY DEF sockVars, SocketTypeOK, FDs
<1>1. TakeBatch => /\ batch' \subseteq FDs \cup {ListenFd}
                   /\ ListenFd \in batch' => backlog # <<>>
  BY ReadyTyped DEF TakeBatch
<1>2. NoteEvents => idle_age' \in 0 .. NO_EVENT_TIMEOUT
  BY LimitsAreNat DEF NoteEvents
<1>3. CASE LoopTest
  BY <1>0, <1>3 DEF LoopTest, BatchOK, slotVars, conn1Vars, countVars, byteVars
<1>4. CASE Second
  BY <1>4, SecondTyped
<1>5. CASE TimeoutStop
  BY <1>0, <1>5 DEF TimeoutStop, EpollReturns, BatchOK, slotVars, conn1Vars, countVars,
                    byteVars
<1>6. CASE Collect
  BY <1>0, <1>1, <1>2, <1>6 DEF Collect, EpollReturns, BatchOK, slotVars, conn1Vars,
                                countVars, byteVars
<1>7. CASE ReapInactive
  <2>1. non_persistent_fd \in FDs
    BY <1>7 DEF ReapInactive, Inactive
  <2>2. /\ SocketTypeOK' /\ backlog' = backlog
        /\ non_persistent_fd' \in FDs \cup {NoFd} /\ np_age' \in Ages
        /\ queue' \in Seq(Waiting) /\ Len(queue') <= MAX_NON_PERSISTENT
        /\ active_clients' \in Int /\ per_bytes_read' \in Nat
        /\ nonper_bytes_read' \in Nat /\ failures' \in 0 .. MaxFailures
    <3>1. EndNobodyWaits(non_persistent_fd) \/ EndPromote(non_persistent_fd)
            \/ EndPromoteFails(non_persistent_fd)
      BY <1>7 DEF ReapInactive
    <3> QED
      BY <2>1, <3>1, EndTyped, Zenon
  <2>3. batch' \subseteq FDs \cup {ListenFd} /\ (ListenFd \in batch' => backlog # <<>>)
    BY <1>1, <1>7 DEF ReapInactive, BatchOK
  <2>4. pc' \in {"loop", "wait", "exited"} /\ waited' \in BOOLEAN
    BY <1>7 DEF ReapInactive, EpollReturns
  <2>5. UNCHANGED <<running, persistent_fd, conn1_age, conn1_started, rejected>>
    BY <1>7 DEF ReapInactive, conn1Vars
  <2>6. idle_age' \in 0 .. NO_EVENT_TIMEOUT
    BY <1>2, <1>7 DEF ReapInactive
  <2> QED
    BY <2>2, <2>3, <2>4, <2>5, <2>6 DEF BatchOK
<1> QED
  BY <1>3, <1>4, <1>5, <1>6, <1>7 DEF WaitStep


(* Descriptors that enter the queue keep it a sequence of Waiting.         *)
LEMMA AppendTyped ==
    ASSUME TypeOK, QueueHasRoom, NEW w \in Waiting
    PROVE  Append(queue, w) \in Seq(Waiting) /\ Len(Append(queue, w)) <= MAX_NON_PERSISTENT
BY LimitsAreNat, AppendProperties, LenProperties DEF TypeOK, QueueHasRoom

(* The handler of the listening descriptor.                                *)
LEMMA AcceptTyped == ASSUME TypeInv, AcceptStep PROVE TypeInv'
<1> USE DEF TypeInv, TypeOK
<1>1. ASSUME Handle(ListenFd)
      PROVE  batch' \subseteq FDs \cup {ListenFd} /\ ListenFd \notin batch' /\ backlog # <<>>
  BY <1>1 DEF Handle, BatchOK
<1>2. AcceptEvent => LowestFree \in FDs
  BY LowestFreeIsFree DEF AcceptEvent, FreeFds
<1>3. ASSUME AcceptEvent,
             \/ AcceptAs(LowestFree, {LowestFree})
             \/ AcceptAs(LowestFree, {})
             \/ AcceptAndClose
      PROVE  SocketTypeOK'
  BY <1>1, <1>2, <1>3, AcceptAsTyped, AcceptAndCloseTyped DEF AcceptEvent
<1>4. OutOfMemory => failures' \in 0 .. MaxFailures
  BY LimitsAreNat DEF OutOfMemory
<1>5. CASE AcceptPersistent
  BY <1>1, <1>2, <1>3, <1>4, <1>5
     DEF AcceptPersistent, AcceptEvent, BatchOK, conn1Vars, byteVars
<1>6. CASE AcceptNonPersistent
  <2>1. np_age' \in Ages
    BY <1>6, LimitsAreNat DEF AcceptNonPersistent, Ages
  <2> QED
    BY <1>1, <1>2, <1>3, <1>4, <1>6, <2>1
       DEF AcceptNonPersistent, AcceptEvent, BatchOK, conn1Vars, byteVars
<1>7. CASE AcceptQueued
  <2>1. LowestFree \in FDs /\ QueueHasRoom
    BY <1>2, <1>7 DEF AcceptQueued
  <2>2. [fd |-> LowestFree, age |-> 0] \in Waiting
    BY <2>1, LimitsAreNat DEF Waiting, Ages
  <2>3. queue' \in Seq(Waiting) /\ Len(queue') <= MAX_NON_PERSISTENT
    BY <1>7, <2>1, <2>2, AppendTyped DEF AcceptQueued
  <2> QED
    BY <1>1, <1>3, <1>7, <2>3 DEF AcceptQueued, AcceptEvent, BatchOK, conn1Vars, byteVars
<1>8. CASE AcceptRejected
  BY <1>1, <1>3, <1>8
     DEF AcceptRejected, AcceptEvent, BatchOK, slotVars, conn1Vars, byteVars
<1>9. CASE AcceptFails
  <2>1. SocketTypeOK'
    BY <1>9 DEF AcceptFails, sockVars, SocketTypeOK, FDs
  <2>2. failures' \in 0 .. MaxFailures
    BY <1>4, <1>9 DEF AcceptFails
  <2> QED
    BY <1>1, <1>9, <2>1, <2>2
       DEF AcceptFails, BatchOK, slotVars, conn1Vars, countVars, byteVars
<1> QED
  BY <1>5, <1>6, <1>7, <1>8, <1>9 DEF AcceptStep

(* An event on a connection with data.                                     *)
LEMMA DataStepTyped ==
    ASSUME TypeInv, NEW e \in FDs,
           \/ MoveToSlot(e) \/ MoveToQueue(e) \/ RejectMisidentified(e)
           \/ PersistentData(e) \/ NonPersistentData(e) \/ UnclaimedData(e)
    PROVE  TypeInv'
<1> USE DEF TypeInv, TypeOK
<1>1. DataEvent(e)
  BY DEF MoveToSlot, MoveToQueue, RejectMisidentified, PersistentData,
         NonPersistentData, UnclaimedData
<1>2. batch' \subseteq batch
  BY <1>1 DEF DataEvent, Handle
<1>3. Received(e) \in Nat /\ (Take(e, Received(e)) => SocketTypeOK' /\ backlog' = backlog)
  BY <1>1, DataTyped
<1>4. CASE MoveToSlot(e)
  <2>1. nonper_bytes_read' \in Nat /\ per_bytes_read' \in Nat
    BY <1>3, <1>4 DEF MoveToSlot
  <2>2. non_persistent_fd' \in FDs \cup {NoFd} /\ persistent_fd' \in FDs \cup {NoFd}
        /\ np_age' \in Ages /\ conn1_started' \in BOOLEAN
    BY <1>4 DEF MoveToSlot
  <2>3. SocketTypeOK' /\ backlog' = backlog
    BY <1>3, <1>4 DEF MoveToSlot
  <2> QED
    BY <1>2, <1>4, <2>1, <2>2, <2>3 DEF MoveToSlot, BatchOK, countVars
<1>5. CASE MoveToQueue(e)
  <2>1. [fd |-> persistent_fd, age |-> conn1_age] \in Waiting /\ QueueHasRoom
    BY <1>5 DEF MoveToQueue, Misidentified, Waiting
  <2>2. queue' \in Seq(Waiting) /\ Len(queue') <= MAX_NON_PERSISTENT
    BY <1>5, <2>1, AppendTyped DEF MoveToQueue
  <2>3. nonper_bytes_read' \in Nat
    BY <1>3, <1>5 DEF MoveToQueue
  <2> QED
    BY <1>2, <1>3, <1>5, <2>2, <2>3 DEF MoveToQueue, BatchOK, countVars
<1>6. CASE RejectMisidentified(e)
  <2>1. SocketTypeOK' /\ backlog' = backlog
    BY <1>6, CloseAndAddTyped DEF RejectMisidentified
  <2>2. active_clients' \in Int /\ rejected' \in Nat
    BY <1>6 DEF RejectMisidentified
  <2>3. persistent_fd' \in FDs \cup {NoFd} /\ conn1_started' \in BOOLEAN
    BY <1>6 DEF RejectMisidentified
  <2> QED
    BY <1>2, <1>6, <2>1, <2>2, <2>3 DEF RejectMisidentified, BatchOK, byteVars
<1>7. CASE PersistentData(e)
  <2>1. conn1_age' \in Ages
    BY <1>7, LimitsAreNat DEF PersistentData, Ages
  <2> QED
    BY <1>2, <1>3, <1>7, <2>1 DEF PersistentData, BatchOK, slotVars, countVars
<1>8. CASE NonPersistentData(e)
  BY <1>2, <1>3, <1>8 DEF NonPersistentData, BatchOK, slotVars, conn1Vars, countVars
<1>9. CASE UnclaimedData(e)
  BY <1>2, <1>3, <1>9 DEF UnclaimedData, BatchOK, slotVars, conn1Vars, countVars, byteVars
<1> QED
  BY <1>4, <1>5, <1>6, <1>7, <1>8, <1>9

(* An event on a connection that has ended, or on which nothing waits.     *)
LEMMA CloseTyped ==
    ASSUME TypeInv, NEW e \in FDs,
           \/ SpuriousEvent(e) \/ ClosePersistent(e) \/ CloseNonPersistent(e)
           \/ CloseOther(e)
    PROVE  TypeInv'
<1> USE DEF TypeInv, TypeOK
<1>1. batch' \subseteq batch
  BY DEF SpuriousEvent, ClosePersistent, CloseNonPersistent, CloseOther, EndEvent, Handle
<1>2. CloseAndAdd({e}, {}) => SocketTypeOK' /\ backlog' = backlog
  BY CloseAndAddTyped
<1>3. StopTest => running' \in BOOLEAN
  BY DEF StopTest
<1>4. CASE SpuriousEvent(e)
  <2>1. SocketTypeOK' /\ backlog' = backlog
    BY <1>4 DEF SpuriousEvent, sockVars, SocketTypeOK, FDs
  <2> QED
    BY <1>1, <1>4, <2>1 DEF SpuriousEvent, BatchOK, slotVars, conn1Vars, countVars, byteVars
<1>5. CASE ClosePersistent(e)
  <2>1. SocketTypeOK' /\ backlog' = backlog /\ running' \in BOOLEAN
    BY <1>2, <1>3, <1>5 DEF ClosePersistent
  <2>2. active_clients' \in Int
    BY <1>5 DEF ClosePersistent
  <2>3. persistent_fd' \in FDs \cup {NoFd} /\ conn1_started' \in BOOLEAN
    BY <1>5 DEF ClosePersistent
  <2> QED
    BY <1>1, <1>5, <2>1, <2>2, <2>3 DEF ClosePersistent, BatchOK, byteVars
<1>6. CASE CloseNonPersistent(e)
  <2>1. EndNobodyWaits(e) \/ EndPromote(e) \/ EndPromoteFails(e)
    BY <1>6 DEF CloseNonPersistent
  <2>2. /\ SocketTypeOK' /\ backlog' = backlog
        /\ non_persistent_fd' \in FDs \cup {NoFd} /\ np_age' \in Ages
        /\ queue' \in Seq(Waiting) /\ Len(queue') <= MAX_NON_PERSISTENT
        /\ active_clients' \in Int /\ per_bytes_read' \in Nat
        /\ nonper_bytes_read' \in Nat /\ failures' \in 0 .. MaxFailures
    BY <2>1, EndTyped, Zenon
  <2>3. running' \in BOOLEAN
    BY <1>3, <1>6 DEF CloseNonPersistent
  <2> QED
    BY <1>1, <1>6, <2>2, <2>3 DEF CloseNonPersistent, BatchOK, conn1Vars
<1>7. CASE CloseOther(e)
  BY <1>1, <1>2, <1>3, <1>7 DEF CloseOther, BatchOK, slotVars, conn1Vars, byteVars
<1> QED
  BY <1>4, <1>5, <1>6, <1>7


(* Every step of the system keeps the state well typed.                    *)
LEMMA StepTyped == TypeInv /\ [ServerNext]_serverVars => TypeInv'
<1> SUFFICES ASSUME TypeInv, [ServerNext]_serverVars PROVE TypeInv'
  OBVIOUS
<1> USE DEF TypeInv
<1>1. CASE WaitStep
  BY <1>1, WaitTyped
<1>2. CASE AcceptStep
  BY <1>2, AcceptTyped
<1>3. ASSUME NEW e \in FDs, EventStep(e) PROVE TypeInv'
  BY <1>3, DataStepTyped, CloseTyped DEF EventStep
<1>4. CASE Exit
  <2>1. SocketTypeOK' /\ backlog' = backlog
    BY <1>4, CloseAndAddTyped DEF Exit, TypeOK
  <2>2. active_clients' \in Int
    BY <1>4, LenProperties DEF Exit, TypeOK
  <2>3. queue' \in Seq(Waiting) /\ Len(queue') <= MAX_NON_PERSISTENT
    BY <1>4, LimitsAreNat DEF Exit
  <2> QED
    BY <1>4, <2>1, <2>2, <2>3 DEF Exit, TypeOK, BatchOK, conn1Vars, byteVars
<1>5. CASE Signal
  <2>1. SocketTypeOK' /\ backlog' = backlog
    BY <1>5 DEF Signal, sockVars, TypeOK, SocketTypeOK, FDs
  <2> QED
    BY <1>5, <2>1 DEF Signal, TypeOK, BatchOK, slotVars, conn1Vars, countVars, byteVars
<1>6. ASSUME NEW c \in Conns, ClientStep(c) PROVE TypeInv'
  <2>1. SocketTypeOK'
    BY <1>6, ClientTyped DEF ClientStep, TypeOK
  <2>2. backlog # <<>> => backlog' # <<>>
    BY <1>6, AppendProperties DEF ClientStep, Connect, Deliver, Hangup, TypeOK, SocketTypeOK
  <2> QED
    BY <1>6, <2>1, <2>2 DEF ClientStep, ServerUnchanged, TypeOK, BatchOK, loopVars,
                            slotVars, conn1Vars, countVars, byteVars
<1>7. CASE UNCHANGED serverVars
  <2>1. SocketTypeOK' /\ backlog' = backlog
    BY <1>7 DEF serverVars, sockVars, TypeOK, SocketTypeOK, FDs
  <2> QED
    BY <1>7, <2>1 DEF serverVars, TypeOK, BatchOK, loopVars, slotVars, conn1Vars,
                      countVars, byteVars
<1> QED
  BY <1>1, <1>2, <1>3, <1>4, <1>5, <1>6, <1>7 DEF ServerNext, ServerStep

(* The server's state is always well typed: no slot holds anything but a   *)
(* descriptor, the queue never grows beyond MAX_NON_PERSISTENT (lines 396  *)
(* and 423), and accept is called only when a connection waits.            *)
THEOREM ServerTypeCorrect == ServerSpec => []TypeInv
<1>1. ServerInit => TypeInv
  BY InitTyped
<1>2. TypeInv /\ [ServerNext]_serverVars => TypeInv'
  BY StepTyped
<1> QED
  BY <1>1, <1>2, PTL DEF ServerSpec


-----------------------------------------------------------------------------
(* No descriptor is forgotten.                                             *)

(* Closing and registering forget nothing if whoever leaves the queue is   *)
(* among them.                                                             *)
LEMMA CloseForgetsNone ==
    ASSUME SocketTypeOK, NoForgottenConnection,
           NEW closing, NEW adding, CloseAndAdd(closing, adding),
           \A i \in DOMAIN queue :
                \/ queue[i].fd \in closing \cup adding
                \/ \E j \in DOMAIN queue' : queue'[j].fd = queue[i].fd
    PROVE  NoForgottenConnection'
<1> SUFFICES ASSUME NEW f \in OpenFds'
             PROVE  f \in registered' \/ \E j \in DOMAIN queue' : queue'[j].fd = f
  BY DEF NoForgottenConnection
<1>1. f \in OpenFds /\ f \notin closing
  BY DEF CloseAndAdd, OpenFds
<1>2. CASE f \in registered
  BY <1>1, <1>2 DEF CloseAndAdd
<1>3. CASE \E i \in DOMAIN queue : queue[i].fd = f
  BY <1>1, <1>3 DEF CloseAndAdd
<1> QED
  BY <1>1, <1>2, <1>3 DEF NoForgottenConnection

(* Whoever leaves the queue leaves it at its head.                         *)
LEMMA TailKeepsRest ==
    ASSUME queue \in Seq(Waiting), queue # <<>>, queue' = Tail(queue),
           NEW i \in DOMAIN queue
    PROVE  queue[i].fd = Head(queue).fd \/ \E j \in DOMAIN queue' : queue'[j].fd = queue[i].fd
<1>1. Len(queue) \in Nat \ {0} /\ DOMAIN queue = 1 .. Len(queue)
  BY EmptySeq, LenProperties
<1>2. queue' \in Seq(Waiting) /\ Len(queue') = Len(queue) - 1
      /\ \A k \in 1 .. Len(queue') : queue'[k] = queue[k + 1]
  BY HeadTailProperties
<1>3. DOMAIN queue' = 1 .. Len(queue')
  BY <1>2, LenProperties
<1>4. CASE i = 1
  BY <1>4
<1>5. CASE i # 1
  <2>1. i - 1 \in DOMAIN queue' /\ queue'[i - 1] = queue[i]
    BY <1>1, <1>2, <1>3, <1>5
  <2> QED
    BY <2>1
<1> QED
  BY <1>4, <1>5

(* Whoever joins the queue joins it at its end.                            *)
LEMMA AppendKeepsAll ==
    ASSUME queue \in Seq(Waiting), NEW w \in Waiting, queue' = Append(queue, w)
    PROVE  /\ \A i \in DOMAIN queue : i \in DOMAIN queue' /\ queue'[i] = queue[i]
           /\ \E j \in DOMAIN queue' : queue'[j] = w
<1>1. Len(queue) \in Nat /\ DOMAIN queue = 1 .. Len(queue)
  BY LenProperties
<1>2. queue' \in Seq(Waiting) /\ Len(queue') = Len(queue) + 1
      /\ (\A i \in 1 .. Len(queue) : queue'[i] = queue[i])
      /\ queue'[Len(queue) + 1] = w
  BY AppendProperties
<1>3. DOMAIN queue' = 1 .. Len(queue')
  BY <1>2, LenProperties
<1> QED
  BY <1>1, <1>2, <1>3

(* The end of the non-persistent connection forgets nobody.                *)
LEMMA EndForgetsNone ==
    ASSUME TypeOK, NoForgottenConnection, NEW e \in FDs,
           EndNobodyWaits(e) \/ EndPromote(e) \/ EndPromoteFails(e)
    PROVE  NoForgottenConnection'
<1> USE DEF TypeOK
<1>1. CASE EndNobodyWaits(e)
  BY <1>1, CloseForgetsNone DEF EndNobodyWaits
<1>2. CASE EndPromote(e)
  <2>1. CloseAndAdd({e}, {Head(queue).fd}) /\ queue # <<>> /\ queue' = Tail(queue)
    BY <1>2 DEF EndPromote
  <2> QED
    BY <2>1, TailKeepsRest, CloseForgetsNone
<1>3. CASE EndPromoteFails(e)
  <2>1. CloseAndAdd({e, Head(queue).fd}, {}) /\ queue # <<>> /\ queue' = Tail(queue)
    BY <1>3 DEF EndPromoteFails
  <2> QED
    BY <2>1, TailKeepsRest, CloseForgetsNone
<1> QED
  BY <1>1, <1>2, <1>3

(* An accepted connection is registered or queued.                         *)
LEMMA AcceptForgetsNone ==
    ASSUME TypeInv, NoForgottenConnection, AcceptStep
    PROVE  NoForgottenConnection'
<1> USE DEF TypeInv, TypeOK
<1>1. ASSUME AcceptAs(LowestFree, {LowestFree}), UNCHANGED queue
      PROVE  NoForgottenConnection'
  BY <1>1 DEF AcceptAs, NoForgottenConnection, OpenFds, SocketTypeOK
<1>2. ASSUME AcceptAndClose, UNCHANGED queue PROVE NoForgottenConnection'
  BY <1>2 DEF AcceptAndClose, NoForgottenConnection, OpenFds
<1>3. CASE AcceptPersistent
  BY <1>1, <1>2, <1>3 DEF AcceptPersistent
<1>4. CASE AcceptNonPersistent
  BY <1>1, <1>2, <1>4 DEF AcceptNonPersistent
<1>5. CASE AcceptQueued
  <2> DEFINE w == [fd |-> LowestFree, age |-> 0]
  <2>1. LowestFree \in FDs
    BY <1>5, LowestFreeIsFree DEF AcceptQueued, AcceptEvent, FreeFds
  <2>2. w \in Waiting /\ w.fd = LowestFree
    BY <2>1, LimitsAreNat DEF Waiting, Ages
  <2>3. queue' = Append(queue, w)
    BY <1>5 DEF AcceptQueued
  <2> HIDE DEF w
  <2>4. (\A i \in DOMAIN queue : i \in DOMAIN queue' /\ queue'[i] = queue[i])
        /\ \E j \in DOMAIN queue' : queue'[j] = w
    BY <2>2, <2>3, AppendKeepsAll
  <2>5. registered' = registered /\ OpenFds' \subseteq OpenFds \cup {LowestFree}
    BY <1>5 DEF AcceptQueued, AcceptAs, OpenFds, SocketTypeOK
  <2> QED
    BY <2>2, <2>4, <2>5 DEF NoForgottenConnection
<1>6. CASE AcceptRejected
  BY <1>2, <1>6 DEF AcceptRejected, slotVars
<1>7. CASE AcceptFails
  BY <1>7 DEF AcceptFails, sockVars, slotVars, NoForgottenConnection, OpenFds
<1> QED
  BY <1>3, <1>4, <1>5, <1>6, <1>7 DEF AcceptStep


(* No step of the system forgets a descriptor.                             *)
LEMMA StepForgetsNone ==
    TypeInv /\ NoForgottenConnection /\ [ServerNext]_serverVars => NoForgottenConnection'
<1> SUFFICES ASSUME TypeInv, NoForgottenConnection, [ServerNext]_serverVars
             PROVE  NoForgottenConnection'
  OBVIOUS
<1> USE DEF TypeInv, TypeOK
<1>1. ASSUME UNCHANGED <<owner, registered, queue>> PROVE NoForgottenConnection'
  BY <1>1 DEF NoForgottenConnection, OpenFds
<1>2. CASE WaitStep
  <2>1. CASE LoopTest \/ TimeoutStop \/ Collect
    BY <1>1, <2>1 DEF LoopTest, TimeoutStop, Collect, sockVars, slotVars
  <2>2. CASE Second
    <3>1. DOMAIN queue' = DOMAIN queue /\ \A i \in DOMAIN queue : queue'[i].fd = queue[i].fd
      <4>1. \A i \in DOMAIN queue : queue[i] \in Waiting
        BY ElementOfSeq, LenProperties
      <4> QED
        BY <2>2, <4>1 DEF Second, Waiting
    <3> QED
      BY <2>2, <3>1 DEF Second, sockVars, NoForgottenConnection, OpenFds
  <2>3. CASE ReapInactive
    <3>1. non_persistent_fd \in FDs
      BY <2>3 DEF ReapInactive, Inactive
    <3>2. EndNobodyWaits(non_persistent_fd) \/ EndPromote(non_persistent_fd)
            \/ EndPromoteFails(non_persistent_fd)
      BY <2>3 DEF ReapInactive
    <3> QED
      BY <3>1, <3>2, EndForgetsNone, Zenon
  <2> QED
    BY <1>2, <2>1, <2>2, <2>3 DEF WaitStep
<1>3. CASE AcceptStep
  BY <1>3, AcceptForgetsNone
<1>4. ASSUME NEW e \in FDs, EventStep(e) PROVE NoForgottenConnection'
  <2>1. CASE MoveToSlot(e) \/ PersistentData(e) \/ NonPersistentData(e) \/ UnclaimedData(e)
             \/ SpuriousEvent(e)
    BY <1>1, <2>1 DEF MoveToSlot, PersistentData, NonPersistentData, UnclaimedData,
                      SpuriousEvent, Take, sockVars, slotVars
  <2>2. CASE MoveToQueue(e)
    <3> DEFINE w == [fd |-> persistent_fd, age |-> conn1_age]
    <3>1. w \in Waiting /\ queue' = Append(queue, w)
      BY <2>2 DEF MoveToQueue, DataEvent, Misidentified, Waiting
    <3> HIDE DEF w
    <3>2. \A i \in DOMAIN queue : i \in DOMAIN queue' /\ queue'[i] = queue[i]
      BY <3>1, AppendKeepsAll
    <3>3. registered' = registered /\ owner' = owner
      BY <2>2 DEF MoveToQueue, Take
    <3> QED
      BY <3>2, <3>3 DEF NoForgottenConnection, OpenFds
  <2>3. CASE RejectMisidentified(e) \/ ClosePersistent(e) \/ CloseOther(e)
    BY <2>3, CloseForgetsNone DEF RejectMisidentified, ClosePersistent, CloseOther, slotVars
  <2>4. CASE CloseNonPersistent(e)
    <3>1. EndNobodyWaits(e) \/ EndPromote(e) \/ EndPromoteFails(e)
      BY <2>4 DEF CloseNonPersistent
    <3> QED
      BY <3>1, EndForgetsNone, Zenon
  <2> QED
    BY <1>4, <2>1, <2>2, <2>3, <2>4 DEF EventStep
<1>5. CASE Exit
  BY <1>5 DEF Exit, CloseAndAdd, NoForgottenConnection, OpenFds
<1>6. CASE Signal
  BY <1>1, <1>6 DEF Signal, sockVars, slotVars
<1>7. ASSUME NEW c \in Conns, ClientStep(c) PROVE NoForgottenConnection'
  BY <1>1, <1>7 DEF ClientStep, Connect, Deliver, Hangup, ServerUnchanged, slotVars
<1>8. CASE UNCHANGED serverVars
  BY <1>1, <1>8 DEF serverVars, sockVars, slotVars
<1> QED
  BY <1>2, <1>3, <1>4, <1>5, <1>6, <1>7, <1>8 DEF ServerNext, ServerStep

(* Whatever the clients do and whichever EPOLL_CTL_ADD or accept fails,    *)
(* every open descriptor is watched by epoll or is in the queue.           *)
THEOREM ForgetsNoConnection == ServerSpec => []NoForgottenConnection
<1>1. ServerInit => NoForgottenConnection
  BY DEF ServerInit, SocketInit, NoForgottenConnection, OpenFds
<1>2. TypeInv /\ NoForgottenConnection /\ [ServerNext]_serverVars => NoForgottenConnection'
  BY StepForgetsNone
<1> QED
  BY <1>1, <1>2, ServerTypeCorrect, PTL DEF ServerSpec

-----------------------------------------------------------------------------
(* The count of clients never errs upwards.                                *)

(* The end of the non-persistent connection discounts no more than it      *)
(* closes.                                                                 *)
LEMMA EndCount ==
    ASSUME TypeOK, active_clients <= Cardinality(OpenFds), NEW e \in FDs,
           EndNobodyWaits(e) \/ EndPromote(e) \/ EndPromoteFails(e)
    PROVE  active_clients' <= Cardinality(OpenFds')
<1>1. active_clients \in Int
  BY DEF TypeOK
<1>2. CASE EndNobodyWaits(e)
  <2>1. CloseAndAdd({e}, {}) /\ active_clients' = active_clients - 1
    BY <1>2 DEF EndNobodyWaits
  <2>2. Cardinality(OpenFds) \in Nat /\ Cardinality(OpenFds') \in Nat
        /\ Cardinality(OpenFds') >= Cardinality(OpenFds) - 1
    BY <2>1, CloseCount
  <2> QED
    BY <1>1, <2>1, <2>2
<1>3. CASE EndPromote(e)
  <2>1. CloseAndAdd({e}, {Head(queue).fd}) /\ active_clients' = active_clients - 1
    BY <1>3 DEF EndPromote
  <2>2. Cardinality(OpenFds) \in Nat /\ Cardinality(OpenFds') \in Nat
        /\ Cardinality(OpenFds') >= Cardinality(OpenFds) - 1
    BY <2>1, CloseCount
  <2> QED
    BY <1>1, <2>1, <2>2
<1>4. CASE EndPromoteFails(e)
  <2>1. CloseAndAdd({e, Head(queue).fd}, {}) /\ active_clients' = active_clients - 2
    BY <1>4 DEF EndPromoteFails
  <2>2. Cardinality(OpenFds) \in Nat /\ Cardinality(OpenFds') \in Nat
        /\ Cardinality(OpenFds') >= Cardinality(OpenFds) - 2
    BY <2>1, CloseCount
  <2> QED
    BY <1>1, <2>1, <2>2
<1> QED
  BY <1>2, <1>3, <1>4

(* An accepted connection that is counted has a descriptor of its own.     *)
LEMMA AcceptCount ==
    ASSUME TypeInv, active_clients <= Cardinality(OpenFds), AcceptStep
    PROVE  active_clients' <= Cardinality(OpenFds')
<1> USE DEF TypeInv, TypeOK
<1>1. ASSUME UNCHANGED <<owner, active_clients>>
      PROVE  active_clients' <= Cardinality(OpenFds')
  BY <1>1 DEF OpenFds
<1>2. ASSUME AcceptEvent, NEW adding, AcceptAs(LowestFree, adding),
             active_clients' = active_clients + 1
      PROVE  active_clients' <= Cardinality(OpenFds')
  <2>1. Cardinality(OpenFds') = Cardinality(OpenFds) + 1
    BY <1>2, AcceptOpensOne DEF AcceptEvent, Handle, BatchOK
  <2>2. Cardinality(OpenFds) \in Nat
    BY OpenFdsFinite
  <2> QED
    BY <1>2, <2>1, <2>2
<1>3. CASE AcceptPersistent
  BY <1>1, <1>2, <1>3 DEF AcceptPersistent, AcceptAndClose
<1>4. CASE AcceptNonPersistent
  BY <1>1, <1>2, <1>4 DEF AcceptNonPersistent, AcceptAndClose
<1>5. CASE AcceptQueued
  BY <1>2, <1>5 DEF AcceptQueued
<1>6. CASE AcceptRejected
  BY <1>1, <1>6 DEF AcceptRejected, AcceptAndClose
<1>7. CASE AcceptFails
  BY <1>1, <1>7 DEF AcceptFails, sockVars, countVars
<1> QED
  BY <1>3, <1>4, <1>5, <1>6, <1>7 DEF AcceptStep

(* An event on a connection: whoever is discounted is closed.              *)
LEMMA EventCount ==
    ASSUME TypeOK, active_clients <= Cardinality(OpenFds), NEW e \in FDs, EventStep(e)
    PROVE  active_clients' <= Cardinality(OpenFds')
<1>1. CASE UNCHANGED <<owner, active_clients>>
  BY <1>1 DEF OpenFds
<1>2. CASE MoveToSlot(e) \/ MoveToQueue(e) \/ PersistentData(e) \/ NonPersistentData(e)
           \/ UnclaimedData(e) \/ SpuriousEvent(e)
  BY <1>1, <1>2 DEF MoveToSlot, MoveToQueue, PersistentData, NonPersistentData,
                    UnclaimedData, SpuriousEvent, Take, sockVars, countVars
<1>3. CASE RejectMisidentified(e) \/ ClosePersistent(e) \/ CloseOther(e)
  <2>1. CloseAndAdd({e}, {}) /\ active_clients' = active_clients - 1
    BY <1>3 DEF RejectMisidentified, ClosePersistent, CloseOther
  <2>2. Cardinality(OpenFds) \in Nat /\ Cardinality(OpenFds') \in Nat
        /\ Cardinality(OpenFds') >= Cardinality(OpenFds) - 1
    BY <2>1, CloseCount
  <2> QED
    BY <2>1, <2>2 DEF TypeOK
<1>4. CASE CloseNonPersistent(e)
  <2>1. EndNobodyWaits(e) \/ EndPromote(e) \/ EndPromoteFails(e)
    BY <1>4 DEF CloseNonPersistent
  <2> QED
    BY <2>1, EndCount, Zenon
<1> QED
  BY <1>2, <1>3, <1>4 DEF EventStep

(* No step of the system makes the count of clients too high.              *)
LEMMA StepCount ==
    TypeInv /\ NeverOvercounts /\ [ServerNext]_serverVars => NeverOvercounts'
<1> SUFFICES ASSUME TypeInv, NeverOvercounts, [ServerNext]_serverVars, pc' # "exited"
             PROVE  active_clients' <= Cardinality(OpenFds')
  BY DEF NeverOvercounts
<1>1. ASSUME pc # "exited", UNCHANGED <<owner, active_clients>>
      PROVE  active_clients' <= Cardinality(OpenFds')
  BY <1>1 DEF NeverOvercounts, OpenFds
<1>2. CASE WaitStep
  <2>1. pc # "exited"
    BY <1>2 DEF WaitStep, LoopTest, Second, TimeoutStop, Collect, ReapInactive, EpollReturns
  <2>2. CASE LoopTest \/ Second \/ TimeoutStop \/ Collect
    BY <1>1, <2>1, <2>2 DEF LoopTest, Second, TimeoutStop, Collect, sockVars, countVars
  <2>3. CASE ReapInactive
    <3>1. non_persistent_fd \in FDs
      BY <2>3 DEF ReapInactive, Inactive, TypeInv, TypeOK
    <3>2. EndNobodyWaits(non_persistent_fd) \/ EndPromote(non_persistent_fd)
            \/ EndPromoteFails(non_persistent_fd)
      BY <2>3 DEF ReapInactive
    <3>3. TypeOK /\ active_clients <= Cardinality(OpenFds)
      BY <2>1 DEF NeverOvercounts, TypeInv
    <3> QED
      BY <3>1, <3>2, <3>3, EndCount, Zenon
  <2> QED
    BY <1>2, <2>2, <2>3 DEF WaitStep
<1>3. CASE AcceptStep
  <2>1. pc' = pc
    BY <1>3 DEF AcceptStep, AcceptPersistent, AcceptNonPersistent, AcceptQueued,
                AcceptRejected, AcceptFails
  <2> QED
    BY <1>3, <2>1, AcceptCount DEF NeverOvercounts
<1>4. ASSUME NEW e \in FDs, EventStep(e)
      PROVE  active_clients' <= Cardinality(OpenFds')
  <2>1. pc' = pc
    BY <1>4 DEF EventStep, MoveToSlot, MoveToQueue, RejectMisidentified, PersistentData,
                NonPersistentData, UnclaimedData, SpuriousEvent, ClosePersistent,
                CloseNonPersistent, CloseOther
  <2> QED
    BY <1>4, <2>1, EventCount DEF NeverOvercounts, TypeInv
<1>5. CASE Exit
  BY <1>5 DEF Exit
<1>6. CASE Signal
  BY <1>1, <1>6 DEF Signal, sockVars, countVars
<1>7. ASSUME NEW c \in Conns, ClientStep(c)
      PROVE  active_clients' <= Cardinality(OpenFds')
  BY <1>1, <1>7 DEF ClientStep, Connect, Deliver, Hangup, ServerUnchanged, countVars
<1>8. CASE UNCHANGED serverVars
  BY <1>1, <1>8 DEF serverVars, sockVars, loopVars, countVars
<1> QED
  BY <1>2, <1>3, <1>4, <1>5, <1>6, <1>7, <1>8 DEF ServerNext, ServerStep

(* However many calls fail and however stale an event is, active_clients   *)
(* never exceeds the number of open connections while the server runs.     *)
THEOREM CountNeverTooHigh == ServerSpec => []NeverOvercounts
<1>1. ServerInit => NeverOvercounts
  <2> SUFFICES ASSUME ServerInit PROVE active_clients <= Cardinality(OpenFds)
    BY DEF NeverOvercounts
  <2>1. OpenFds = {}
    BY DEF ServerInit, SocketInit, OpenFds
  <2> QED
    BY <2>1, FS_EmptySet DEF ServerInit
<1>2. TypeInv /\ NeverOvercounts /\ [ServerNext]_serverVars => NeverOvercounts'
  BY StepCount
<1> QED
  BY <1>1, <1>2, ServerTypeCorrect, PTL DEF ServerSpec

=============================================================================
