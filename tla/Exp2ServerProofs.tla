-------------------------- MODULE Exp2ServerProofs --------------------------
(***************************************************************************)
(* Theorems about serverexp2.c, for any clients, any number of             *)
(* descriptors, sizes and failures.                                        *)
(***************************************************************************)
EXTENDS Exp2Server, SocketLayerProofs

-----------------------------------------------------------------------------
(* Type correctness.                                                       *)

(* What an event announced is still there when the event is handled: only  *)
(* its own handler takes from the backlog or closes its descriptor.        *)
BatchOK ==
    /\ ListenFd \in batch => backlog # <<>>
    /\ \A f \in batch : f # ListenFd => f \in OpenFds

TypeInv == TypeOK /\ BatchOK

(* The limits of the server are numbers.                                   *)
LEMMA LimitsAreNat ==
    /\ BUFFER_SIZE \in Nat \ {0} /\ PACKET_SIZE \in Nat \ {0}
    /\ MaxFailures \in Nat /\ MaxCount \in Nat /\ MaxCount > 2
BY Exp2Assumption

(* No descriptor has the number of the listening one, nor is it "none".    *)
LEMMA FdsAreOwn == ListenFd \notin FDs /\ NoFd \notin FDs /\ FDs \subseteq Nat
BY SocketAssumption DEF FDs, ListenFd, NoFd

(* The state before the loop is well typed, and nothing is open.           *)
LEMMA InitTyped == Init => TypeInv /\ OpenFds = {}
<1> SUFFICES ASSUME Init PROVE TypeInv /\ OpenFds = {}
  OBVIOUS
<1>1. SocketTypeOK /\ OpenFds = {}
  BY SocketAssumption DEF Init, SocketInit, SocketTypeOK, OpenFds
<1>2. failures \in 0 .. MaxFailures
  BY LimitsAreNat DEF Init
<1>3. /\ reads \in [Sides -> Nat] /\ before \in [Sides -> Nat]
      /\ bytes \in [Sides -> Nat] /\ packets \in [Sides -> Nat]
  BY DEF Init
<1>4. running \in BOOLEAN /\ pc \in {"loop", "enter", "wait", "exited"} /\ batch = {}
  BY Zenon DEF Init
<1>5. count \in Nat /\ active_clients \in Int /\ pick \in Sides \cup {-1}
      /\ both \in Nat /\ total_data_bytes \in Nat
      /\ first_socket = NoFd /\ second_socket = NoFd
  BY DEF Init
<1> QED
  BY <1>1, <1>2, <1>3, <1>4, <1>5 DEF TypeInv, TypeOK, BatchOK

(* What a recv that returns data gives.                                    *)
LEMMA DataTyped ==
    ASSUME TypeOK, NEW f \in FDs, DataEvent(f)
    PROVE  /\ f \in OpenFds
           /\ Received(f) \in Nat
           /\ Received(f) <= inbox[owner[f]]
<1>1. SocketTypeOK /\ IsOpen(f)
  BY DEF TypeOK, DataEvent, HasData
<1>2. owner[f] \in Conns
  BY <1>1 DEF SocketTypeOK, IsOpen, OpenFds
<1>3. inbox[owner[f]] \in Nat /\ BUFFER_SIZE \in Nat
  BY <1>1, <1>2, LimitsAreNat DEF SocketTypeOK
<1> QED
  BY <1>1, <1>3 DEF Received, IsOpen

(* Counting a read keeps the counters numbers.                             *)
LEMMA CountReadTyped ==
    ASSUME reads \in [Sides -> Nat], NEW f, CountRead(f)
    PROVE  reads' \in [Sides -> Nat]
<1>1. \A s \in Sides : (IF Socket(s) = f THEN reads[s] + 1 ELSE reads[s]) \in Nat
  OBVIOUS
<1> QED
  BY <1>1 DEF CountRead

(* There are two sides.                                                    *)
LEMMA OtherIsSide == \A s \in Sides : OtherSide(s) \in Sides /\ OtherSide(s) # s
BY DEF Sides, OtherSide

(* Closing the descriptor of the handled event leaves the others of the    *)
(* batch open.                                                             *)
LEMMA CloseKeepsBatch ==
    ASSUME TypeInv, NEW f \in FDs, Handle(f), CloseAndAdd({f}, {})
    PROVE  SocketTypeOK' /\ BatchOK' /\ batch' \subseteq FDs \cup {ListenFd}
<1>1. SocketTypeOK' /\ backlog' = backlog
  BY CloseAndAddTyped DEF TypeInv, TypeOK
<1>2. OpenFds' = OpenFds \ {f}
  BY DEF CloseAndAdd, OpenFds
<1> QED
  BY <1>1, <1>2 DEF TypeInv, TypeOK, BatchOK, Handle

(* The steps of the loop outside the for keep the state well typed.        *)
LEMMA LoopTyped ==
    ASSUME TypeInv, LoopTest \/ EnterWait \/ EventsArrive \/ Exit \/ Signal
    PROVE  TypeInv'
<1> USE DEF TypeInv, TypeOK
<1>1. UNCHANGED sockVars => SocketTypeOK' /\ backlog' = backlog /\ OpenFds' = OpenFds
  BY DEF sockVars, SocketTypeOK, FDs, OpenFds
<1>2. CASE LoopTest
  BY <1>1, <1>2 DEF LoopTest, BatchOK, socketVars, reportVars
<1>3. CASE EnterWait
  BY <1>1, <1>3 DEF EnterWait, BatchOK, socketVars, reportVars
<1>4. CASE EventsArrive
  <2>1. Ready \subseteq FDs \cup {ListenFd} /\ (ListenFd \in Ready => backlog # <<>>)
    BY ReadyTyped
  <2>2. \A f \in Ready : f # ListenFd => f \in OpenFds
    BY DEF Ready, HasData, IsOpen
  <2> QED
    BY <1>1, <1>4, <2>1, <2>2 DEF EventsArrive, BatchOK, socketVars, reportVars
<1>5. CASE Exit
  <2>1. SocketTypeOK' /\ backlog' = backlog
    BY <1>5, CloseAndAddTyped DEF Exit
  <2> QED
    BY <1>5, <2>1 DEF Exit, BatchOK, socketVars, reportVars
<1>6. CASE Signal
  <2>1. pc' \in {"loop", "enter", "wait", "exited"} /\ running' \in BOOLEAN
    BY <1>6, Zenon DEF Signal
  <2> QED
    BY <1>1, <1>6, <2>1 DEF Signal, BatchOK, socketVars, reportVars
<1> QED
  BY <1>2, <1>3, <1>4, <1>5, <1>6

(* The handler of the listening descriptor keeps the state well typed.     *)
LEMMA AcceptTyped == ASSUME TypeInv, AcceptStep PROVE TypeInv'
<1> USE DEF TypeInv, TypeOK
<1>1. ASSUME AcceptEvent
      PROVE  /\ count' \in Nat
             /\ batch' \subseteq FDs \cup {ListenFd}
             /\ ListenFd \notin batch'
             /\ \A f \in batch' : f # ListenFd => f \in OpenFds
             /\ backlog # <<>>
  BY <1>1, LimitsAreNat DEF AcceptEvent, Handle, BatchOK
<1>2. ASSUME LowestFree \in FDs, NoteSocket(LowestFree) \/ UNCHANGED socketVars
      PROVE  first_socket' \in FDs \cup {NoFd} /\ second_socket' \in FDs \cup {NoFd}
  BY <1>2 DEF NoteSocket, socketVars
<1>3. FreeFds # {} => LowestFree \in FDs
  BY LowestFreeIsFree DEF FreeFds
<1>4. Fails => failures' \in 0 .. MaxFailures
  BY LimitsAreNat DEF Fails
<1>5. CASE Accept
  <2>1. SocketTypeOK'
    BY <1>1, <1>3, <1>5, AcceptAsTyped DEF Accept
  <2>2. OpenFds' = OpenFds \cup {LowestFree}
    BY <1>1, <1>5, AcceptOpensOne DEF Accept
  <2> QED
    BY <1>1, <1>2, <1>3, <1>5, <2>1, <2>2 DEF Accept, BatchOK, reportVars
<1>6. CASE AcceptFails
  <2>1. SocketTypeOK' /\ OpenFds' = OpenFds
    BY <1>6 DEF AcceptFails, sockVars, SocketTypeOK, FDs, OpenFds
  <2>2. failures' \in 0 .. MaxFailures
    BY <1>4, <1>6 DEF AcceptFails
  <2> QED
    BY <1>1, <1>6, <2>1, <2>2 DEF AcceptFails, BatchOK, socketVars, reportVars
<1>7. CASE AcceptGivesUp
  <2>1. SocketTypeOK' /\ OpenFds' = OpenFds
    BY <1>1, <1>7, AcceptAndCloseTyped DEF AcceptGivesUp, AcceptAndClose, OpenFds
  <2>2. failures' \in 0 .. MaxFailures
    BY <1>4, <1>7 DEF AcceptGivesUp
  <2> QED
    BY <1>1, <1>2, <1>3, <1>7, <2>1, <2>2 DEF AcceptGivesUp, BatchOK, reportVars
<1> QED
  BY <1>5, <1>6, <1>7 DEF AcceptStep

(* The counters of a pair stay numbers.                                    *)
LEMMA CountPairTyped ==
    ASSUME TypeOK, NEW s \in Sides, CountPair(s)
    PROVE  pick' \in Sides \cup {-1} /\ before' \in [Sides -> Nat] /\ both' \in Nat
<1>1. OtherSide(s) \in Sides
  BY OtherIsSide
<1>2. before[OtherSide(s)] + 1 \in Nat /\ both + 1 \in Nat
  BY <1>1 DEF TypeOK
<1>3. CASE pick = OtherSide(s)
  BY <1>1, <1>2, <1>3 DEF CountPair, TypeOK
<1>4. CASE pick # OtherSide(s)
  BY <1>4 DEF CountPair, TypeOK
<1> QED
  BY <1>3, <1>4

(* The bytes and packets of a side stay numbers.                           *)
LEMMA CountBytesTyped ==
    ASSUME TypeOK, NEW s \in Sides, NEW n \in Nat,
           bytes' = [bytes EXCEPT ![s] = @ + n],
           packets' = [packets EXCEPT ![s] = @ + n \div PACKET_SIZE]
    PROVE  bytes' \in [Sides -> Nat] /\ packets' \in [Sides -> Nat]
<1>1. n \div PACKET_SIZE \in Nat
  BY LimitsAreNat
<1>2. bytes[s] + n \in Nat /\ packets[s] + n \div PACKET_SIZE \in Nat
  BY <1>1 DEF TypeOK
<1> QED
  BY <1>2 DEF TypeOK

(* Taking data keeps the state well typed.                                 *)
LEMMA TakeDataTyped == ASSUME TypeInv, NEW f \in FDs, TakeData(f) PROVE TypeInv'
<1>1. TypeOK /\ DataEvent(f)
  BY DEF TypeInv, TakeData
<1>2. f \in OpenFds /\ Received(f) \in Nat /\ Received(f) <= inbox[owner[f]]
  BY <1>1, DataTyped
<1>3. SocketTypeOK' /\ backlog' = backlog /\ OpenFds' = OpenFds
  <2>1. Take(f, Received(f))
    BY DEF TakeData
  <2>2. SocketTypeOK'
    BY <1>1, <1>2, <2>1, TakeTyped DEF TypeOK, IsOpen
  <2> QED
    BY <2>1, <2>2 DEF Take, OpenFds
<1>4. reads' \in [Sides -> Nat]
  BY <1>1, CountReadTyped DEF TakeData, TypeOK
<1>5. total_data_bytes' \in Nat
  BY <1>1, <1>2 DEF TakeData, TypeOK
<1>6. /\ pick' \in Sides \cup {-1} /\ before' \in [Sides -> Nat] /\ both' \in Nat
      /\ bytes' \in [Sides -> Nat] /\ packets' \in [Sides -> Nat]
  <2>1. CASE f \notin {first_socket, second_socket} /\ UNCHANGED <<pick, before, both, bytes, packets>>
    BY <1>1, <2>1 DEF TypeOK
  <2>2. ASSUME NEW s \in Sides, CountPair(s),
               bytes' = [bytes EXCEPT ![s] = @ + Received(f)],
               packets' = [packets EXCEPT ![s] = @ + Received(f) \div PACKET_SIZE]
        PROVE  /\ pick' \in Sides \cup {-1} /\ before' \in [Sides -> Nat] /\ both' \in Nat
               /\ bytes' \in [Sides -> Nat] /\ packets' \in [Sides -> Nat]
    BY <1>1, <1>2, <2>2, CountPairTyped, CountBytesTyped
  <2> QED
    BY <2>1, <2>2 DEF TakeData
<1>7. /\ batch' \subseteq FDs \cup {ListenFd}
      /\ batch' \subseteq batch
  BY <1>1 DEF TypeOK, DataEvent, Handle
<1> QED
  BY <1>1, <1>3, <1>4, <1>5, <1>6, <1>7 DEF TypeInv, TypeOK, BatchOK, TakeData, socketVars

(* The ends of a connection keep the state well typed.                     *)
LEMMA CloseTyped ==
    ASSUME TypeInv, NEW f \in FDs, RefuseData(f) \/ ReceiveEnd(f) \/ ReceiveError(f)
    PROVE  TypeInv'
<1>1. Handle(f) /\ CloseAndAdd({f}, {}) /\ StopTest
  BY DEF RefuseData, ReceiveEnd, ReceiveError, DataEvent, EndEvent
<1>2. SocketTypeOK' /\ BatchOK' /\ batch' \subseteq FDs \cup {ListenFd}
  BY <1>1, CloseKeepsBatch
<1>3. running' \in BOOLEAN
  BY <1>1, Zenon DEF StopTest
<1>4. CASE RefuseData(f)
  <2>1. reads' \in [Sides -> Nat]
    BY <1>4, CountReadTyped DEF RefuseData, TypeInv, TypeOK
  <2> QED
    BY <1>2, <1>3, <1>4, <2>1 DEF RefuseData, TypeInv, TypeOK, socketVars
<1>5. CASE ReceiveEnd(f)
  BY <1>2, <1>3, <1>5 DEF ReceiveEnd, TypeInv, TypeOK, socketVars, reportVars
<1>6. CASE ReceiveError(f)
  <2>1. failures' \in 0 .. MaxFailures
    BY <1>6, LimitsAreNat DEF ReceiveError, Fails, TypeInv, TypeOK
  <2> QED
    BY <1>2, <1>3, <1>6, <2>1 DEF ReceiveError, TypeInv, TypeOK, socketVars, reportVars
<1> QED
  BY <1>4, <1>5, <1>6

(* Every step of the system keeps the state well typed.                    *)
LEMMA StepTyped == TypeInv /\ [Next]_vars => TypeInv'
<1> SUFFICES ASSUME TypeInv, [Next]_vars PROVE TypeInv'
  OBVIOUS
<1>1. CASE LoopTest \/ EnterWait \/ EventsArrive \/ Exit \/ Signal
  BY <1>1, LoopTyped
<1>2. CASE AcceptStep
  BY <1>2, AcceptTyped
<1>3. ASSUME NEW f \in FDs, EventStep(f) PROVE TypeInv'
  BY <1>3, TakeDataTyped, CloseTyped DEF EventStep
<1>4. ASSUME NEW c \in Conns, ClientStep(c) PROVE TypeInv'
  <2>1. SocketTypeOK'
    BY <1>4, ClientTyped DEF ClientStep, TypeInv, TypeOK
  <2>2. (backlog # <<>> => backlog' # <<>>) /\ OpenFds' = OpenFds
    BY <1>4, AppendProperties DEF ClientStep, Connect, Deliver, Hangup, TypeInv, TypeOK,
                                  SocketTypeOK, OpenFds
  <2> QED
    BY <1>4, <2>1, <2>2 DEF ClientStep, TypeInv, TypeOK, BatchOK, socketVars, reportVars
<1>5. CASE UNCHANGED vars
  <2>1. SocketTypeOK' /\ backlog' = backlog /\ OpenFds' = OpenFds
    BY <1>5 DEF vars, sockVars, TypeInv, TypeOK, SocketTypeOK, FDs, OpenFds
  <2> QED
    BY <1>5, <2>1 DEF vars, TypeInv, TypeOK, BatchOK, socketVars, reportVars
<1> QED
  BY <1>1, <1>2, <1>3, <1>4, <1>5 DEF Next, ServerStep

(* The server's state is always well typed, accept is called only when a   *)
(* connection waits (299), and an event of the batch never refers to a     *)
(* descriptor that was closed before it (352-355).                         *)
THEOREM TypeCorrect == Spec => []TypeInv
<1>1. Init => TypeInv
  BY InitTyped
<1>2. TypeInv /\ [Next]_vars => TypeInv'
  BY StepTyped
<1> QED
  BY <1>1, <1>2, PTL DEF Spec

-----------------------------------------------------------------------------
(* The two sides of every pair.                                            *)

(* A read that counts for a pair keeps the pairs within the reads.         *)
LEMMA PairWithinReads ==
    ASSUME TypeOK, PairsWithinReads, NEW s \in Sides, NEW f,
           Socket(s) = f, CountRead(f), CountPair(s)
    PROVE  PairsWithinReads'
<1>1. /\ \A t \in Sides : reads'[t] \in Nat /\ reads'[t] >= reads[t] /\ reads[t] \in Nat
      /\ reads'[s] = reads[s] + 1
  BY DEF CountRead, TypeOK
<1>2. OtherSide(s) \in Sides /\ OtherSide(s) # s /\ s \in {1, 2} /\ OtherSide(s) \in {1, 2}
  BY OtherIsSide DEF Sides
<1>3. both \in Nat /\ both = before[1] + before[2] /\ before[1] \in Nat /\ before[2] \in Nat
      /\ \A t \in Sides : both + (IF pick = t THEN 1 ELSE 0) <= reads[t]
  BY DEF PairsWithinReads, TypeOK, Sides
<1>4. CASE pick = OtherSide(s)
  <2>1. pick' = -1 /\ both' = both + 1
        /\ before' = [before EXCEPT ![OtherSide(s)] = @ + 1]
    BY <1>4 DEF CountPair
  <2>2. before'[1] + before'[2] = before[1] + before[2] + 1
    BY <1>2, <1>3, <2>1 DEF TypeOK, Sides
  <2>3. ASSUME NEW t \in Sides PROVE both' + (IF pick' = t THEN 1 ELSE 0) <= reads'[t]
    <3>1. pick' # t
      BY <2>1, <2>3 DEF Sides
    <3>2. t = s \/ t = OtherSide(s)
      BY <1>2, <2>3 DEF Sides
    <3>3. both + 1 <= reads[OtherSide(s)]
      BY <1>2, <1>3, <1>4
    <3>4. both <= reads[s]
      BY <1>2, <1>3, <1>4
    <3> QED
      BY <1>1, <1>2, <1>3, <2>1, <3>1, <3>2, <3>3, <3>4
  <2> QED
    BY <1>3, <2>1, <2>2, <2>3 DEF PairsWithinReads
<1>5. CASE pick # OtherSide(s)
  <2>1. pick' = s /\ both' = both /\ before' = before
    <3>1. pick \in {s, OtherSide(s), -1}
      BY <1>2 DEF TypeOK, Sides
    <3> QED
      BY <1>5, <3>1 DEF CountPair
  <2>2. ASSUME NEW t \in Sides PROVE both' + (IF pick' = t THEN 1 ELSE 0) <= reads'[t]
    <3>1. both <= reads[t]
      <4>1. both + (IF pick = t THEN 1 ELSE 0) <= reads[t] /\ both \in Nat /\ reads[t] \in Nat
        BY <1>1, <1>3
      <4> QED
        BY <4>1
    <3>2. CASE t = s
      BY <1>1, <1>3, <2>1, <3>1, <3>2
    <3>3. CASE t # s
      BY <1>1, <1>3, <2>1, <3>1, <3>3
    <3> QED
      BY <3>2, <3>3
  <2> QED
    BY <1>3, <2>1, <2>2 DEF PairsWithinReads
<1> QED
  BY <1>4, <1>5

(* Reads that count for no pair keep the pairs within them.                *)
LEMMA MoreReads ==
    ASSUME TypeOK, PairsWithinReads, UNCHANGED <<pick, before, both>>,
           \A t \in Sides : reads'[t] \in Nat /\ reads'[t] >= reads[t]
    PROVE  PairsWithinReads'
<1>1. ASSUME NEW t \in Sides PROVE both' + (IF pick' = t THEN 1 ELSE 0) <= reads'[t]
  <2>1. both + (IF pick = t THEN 1 ELSE 0) <= reads[t] /\ both \in Nat /\ reads[t] \in Nat
    BY DEF PairsWithinReads, TypeOK
  <2>2. reads'[t] \in Nat /\ reads'[t] >= reads[t] /\ both' = both /\ pick' = pick
    OBVIOUS
  <2> QED
    BY <2>1, <2>2
<1> QED
  BY <1>1 DEF PairsWithinReads

(* No step breaks the bounds of the pairs.                                 *)
LEMMA StepPairs ==
    TypeOK /\ PairsWithinReads /\ [Next]_vars => PairsWithinReads'
<1> SUFFICES ASSUME TypeOK, PairsWithinReads, [Next]_vars PROVE PairsWithinReads'
  OBVIOUS
<1>1. CASE UNCHANGED <<reads, pick, before, both>>
  BY <1>1 DEF PairsWithinReads
<1>2. CASE LoopTest \/ EnterWait \/ EventsArrive \/ Exit \/ Signal \/ AcceptStep
  BY <1>1, <1>2 DEF LoopTest, EnterWait, EventsArrive, Exit, Signal, AcceptStep, Accept,
                    AcceptFails, AcceptGivesUp, reportVars
<1>3. ASSUME NEW f, CountRead(f)
      PROVE  \A t \in Sides : reads'[t] \in Nat /\ reads'[t] >= reads[t]
  BY <1>3 DEF CountRead, TypeOK
<1>4. ASSUME NEW f \in FDs, TakeData(f) PROVE PairsWithinReads'
  <2>1. CountRead(f)
    BY <1>4 DEF TakeData
  <2>2. CASE \E s \in Sides : Socket(s) = f /\ CountPair(s)
    BY <2>1, <2>2, PairWithinReads
  <2>3. CASE UNCHANGED <<pick, before, both>>
    BY <1>3, <2>1, <2>3, MoreReads
  <2> QED
    BY <1>4, <2>2, <2>3 DEF TakeData
<1>5. ASSUME NEW f \in FDs, RefuseData(f) PROVE PairsWithinReads'
  BY <1>3, <1>5, MoreReads DEF RefuseData
<1>6. ASSUME NEW f \in FDs, ReceiveEnd(f) \/ ReceiveError(f) PROVE PairsWithinReads'
  BY <1>1, <1>6 DEF ReceiveEnd, ReceiveError, reportVars
<1>7. ASSUME NEW c \in Conns, ClientStep(c) PROVE PairsWithinReads'
  BY <1>1, <1>7 DEF ClientStep, reportVars
<1>8. CASE UNCHANGED vars
  BY <1>1, <1>8 DEF vars, reportVars
<1> QED
  BY <1>2, <1>4, <1>5, <1>6, <1>7, <1>8 DEF Next, ServerStep, EventStep

(* The counts that the report subtracts from each other (161-162) never    *)
(* make a negative number, whoever connects and whatever fails.            *)
THEOREM PairsNeverExceedReads == Spec => []PairsWithinReads
<1>1. Init => PairsWithinReads
  BY DEF Init, PairsWithinReads, Sides
<1>2. TypeInv /\ PairsWithinReads /\ [Next]_vars => PairsWithinReads'
  BY StepPairs DEF TypeInv
<1> QED
  BY <1>1, <1>2, TypeCorrect, PTL DEF Spec

-----------------------------------------------------------------------------
(* Every byte has a side.                                                  *)

(* What the first announcements say about the two names.  While no more    *)
(* than two connections were announced, every open one has a name: that is *)
(* why the test of line 386 keeps a third connection out of the totals.    *)
NamesOK ==
    /\ count = 0 => first_socket = NoFd
    /\ count <= 1 => second_socket = NoFd
    /\ count <= 2 => \A f \in OpenFds : f \in {first_socket, second_socket}

(* Accepting keeps the names.                                              *)
LEMMA AcceptNames == ASSUME TypeInv, NamesOK, AcceptStep PROVE NamesOK'
<1>1. ASSUME AcceptEvent
      PROVE  /\ count \in Nat /\ count' \in Nat
             /\ \/ count \in {0, 1} /\ count' = count + 1
                \/ count >= 2 /\ count' > 2
             /\ backlog # <<>>
  BY <1>1, LimitsAreNat DEF AcceptEvent, Handle, TypeInv, TypeOK, BatchOK
<1>2. NoFd \notin FDs /\ OpenFds \subseteq FDs
  BY FdsAreOwn DEF OpenFds
<1>3. CASE Accept
  <2>1. OpenFds' = OpenFds \cup {LowestFree} /\ LowestFree \in FDs
    BY <1>1, <1>3, AcceptOpensOne DEF Accept, TypeInv, TypeOK
  <2>2. AcceptEvent /\ NoteSocket(LowestFree)
    BY <1>3 DEF Accept
  <2>3. CASE count = 0
    BY <1>1, <1>2, <2>1, <2>2, <2>3 DEF NamesOK, NoteSocket
  <2>4. CASE count = 1
    BY <1>1, <1>2, <2>1, <2>2, <2>4 DEF NamesOK, NoteSocket
  <2>5. CASE count >= 2
    BY <1>1, <2>2, <2>5 DEF NamesOK
  <2>6. count = 0 \/ count = 1 \/ count >= 2
    BY <1>1, <2>2
  <2> QED
    BY <2>3, <2>4, <2>5, <2>6
<1>4. CASE AcceptFails \/ AcceptGivesUp
  <2>1. OpenFds' = OpenFds
    BY <1>4 DEF AcceptFails, AcceptGivesUp, AcceptAndClose, sockVars, OpenFds
  <2>2. AcceptEvent /\ (NoteSocket(LowestFree) \/ UNCHANGED socketVars)
    BY <1>4 DEF AcceptFails, AcceptGivesUp
  <2>3. CASE count = 0
    BY <1>1, <1>2, <2>1, <2>2, <2>3 DEF NamesOK, NoteSocket, socketVars
  <2>4. CASE count = 1
    BY <1>1, <1>2, <2>1, <2>2, <2>4 DEF NamesOK, NoteSocket, socketVars
  <2>5. CASE count >= 2
    BY <1>1, <2>2, <2>5 DEF NamesOK
  <2>6. count = 0 \/ count = 1 \/ count >= 2
    BY <1>1, <2>2
  <2> QED
    BY <2>3, <2>4, <2>5, <2>6
<1> QED
  BY <1>3, <1>4 DEF AcceptStep

(* No step takes the name from an open connection.                         *)
LEMMA StepNames == TypeInv /\ NamesOK /\ [Next]_vars => NamesOK'
<1> SUFFICES ASSUME TypeInv, NamesOK, [Next]_vars PROVE NamesOK'
  OBVIOUS
<1>1. ASSUME UNCHANGED <<count, first_socket, second_socket>>, OpenFds' \subseteq OpenFds
      PROVE  NamesOK'
  BY <1>1 DEF NamesOK
<1>2. CASE LoopTest \/ EnterWait \/ EventsArrive \/ Signal
  BY <1>1, <1>2 DEF LoopTest, EnterWait, EventsArrive, Signal, socketVars, sockVars, OpenFds
<1>3. CASE Exit
  BY <1>1, <1>3 DEF Exit, socketVars, CloseAndAdd, OpenFds
<1>4. CASE AcceptStep
  BY <1>4, AcceptNames
<1>5. ASSUME NEW f \in FDs, EventStep(f) PROVE NamesOK'
  BY <1>1, <1>5 DEF EventStep, TakeData, RefuseData, ReceiveEnd, ReceiveError, socketVars,
                    Take, CloseAndAdd, OpenFds
<1>6. ASSUME NEW c \in Conns, ClientStep(c) PROVE NamesOK'
  BY <1>1, <1>6 DEF ClientStep, socketVars, Connect, Deliver, Hangup, OpenFds
<1>7. CASE UNCHANGED vars
  BY <1>1, <1>7 DEF vars, sockVars, socketVars, OpenFds
<1> QED
  BY <1>2, <1>3, <1>4, <1>5, <1>6, <1>7 DEF Next, ServerStep

(* No step takes a byte that has no side.                                  *)
LEMMA StepBytes ==
    TypeInv /\ NamesOK /\ BytesHaveASide /\ [Next]_vars => BytesHaveASide'
<1> SUFFICES ASSUME TypeInv, NamesOK, BytesHaveASide, [Next]_vars PROVE BytesHaveASide'
  OBVIOUS
<1>1. CASE UNCHANGED <<total_data_bytes, bytes>>
  BY <1>1 DEF BytesHaveASide
<1>2. CASE LoopTest \/ EnterWait \/ EventsArrive \/ Exit \/ Signal \/ AcceptStep
  BY <1>1, <1>2 DEF LoopTest, EnterWait, EventsArrive, Exit, Signal, AcceptStep, Accept,
                    AcceptFails, AcceptGivesUp, reportVars
<1>3. ASSUME NEW f \in FDs, TakeData(f) PROVE BytesHaveASide'
  <2>1. f \in OpenFds /\ Received(f) \in Nat
    BY <1>3, DataTyped DEF TakeData, TypeInv
  <2>2. f \in {first_socket, second_socket}
    BY <1>3, <2>1 DEF TakeData, TwoAnnounced, NamesOK
  <2>3. PICK s \in Sides : bytes' = [bytes EXCEPT ![s] = @ + Received(f)]
    BY <1>3, <2>2 DEF TakeData
  <2>4. total_data_bytes' = total_data_bytes + Received(f)
    BY <1>3 DEF TakeData
  <2>5. bytes \in [Sides -> Nat] /\ total_data_bytes = bytes[1] + bytes[2]
        /\ bytes[1] \in Nat /\ bytes[2] \in Nat
    BY DEF TypeInv, TypeOK, BytesHaveASide, Sides
  <2>6. bytes'[1] + bytes'[2] = bytes[1] + bytes[2] + Received(f)
    BY <2>1, <2>3, <2>5 DEF Sides
  <2> QED
    BY <2>4, <2>5, <2>6 DEF BytesHaveASide
<1>4. ASSUME NEW f \in FDs, RefuseData(f) \/ ReceiveEnd(f) \/ ReceiveError(f)
      PROVE  BytesHaveASide'
  BY <1>1, <1>4 DEF RefuseData, ReceiveEnd, ReceiveError, reportVars
<1>5. ASSUME NEW c \in Conns, ClientStep(c) PROVE BytesHaveASide'
  BY <1>1, <1>5 DEF ClientStep, reportVars
<1>6. CASE UNCHANGED vars
  BY <1>1, <1>6 DEF vars, reportVars
<1> QED
  BY <1>2, <1>3, <1>4, <1>5, <1>6 DEF Next, ServerStep, EventStep

(* The total of the bytes is the sum of the two sides', however many       *)
(* connections come and whatever happens to their descriptors' numbers.    *)
THEOREM EveryByteHasASide == Spec => []BytesHaveASide
<1>1. Init => NamesOK /\ BytesHaveASide
  <2> SUFFICES ASSUME Init PROVE NamesOK /\ BytesHaveASide
    OBVIOUS
  <2>1. OpenFds = {}
    BY InitTyped
  <2> QED
    BY <2>1 DEF Init, NamesOK, BytesHaveASide, Sides
<1>2. TypeInv /\ NamesOK /\ BytesHaveASide /\ [Next]_vars => NamesOK' /\ BytesHaveASide'
  BY StepNames, StepBytes
<1> QED
  BY <1>1, <1>2, TypeCorrect, PTL DEF Spec

-----------------------------------------------------------------------------
(* The count of clients.                                                   *)

(* Closing a descriptor that is open leaves exactly one open one less.     *)
LEMMA CloseOpenCount ==
    ASSUME NEW f \in OpenFds, CloseAndAdd({f}, {})
    PROVE  /\ Cardinality(OpenFds) \in Nat /\ Cardinality(OpenFds') \in Nat
           /\ Cardinality(OpenFds') = Cardinality(OpenFds) - 1
<1>1. OpenFds' = OpenFds \ {f}
  BY DEF CloseAndAdd, OpenFds
<1>2. IsFiniteSet(OpenFds) /\ Cardinality(OpenFds) \in Nat
  BY OpenFdsFinite
<1>3. Cardinality(OpenFds \ {f}) = Cardinality(OpenFds) - 1 /\ IsFiniteSet(OpenFds \ {f})
  BY <1>2, FS_RemoveElement
<1>4. Cardinality(OpenFds \ {f}) \in Nat
  BY <1>3, FS_CardinalityType
<1> QED
  BY <1>1, <1>2, <1>3, <1>4

(* No step makes the count of clients too low.                             *)
LEMMA StepCount ==
    TypeInv /\ NeverUndercounts /\ [Next]_vars => NeverUndercounts'
<1> SUFFICES ASSUME TypeInv, NeverUndercounts, [Next]_vars PROVE NeverUndercounts'
  OBVIOUS
<1>1. ASSUME UNCHANGED <<owner, active_clients>> PROVE NeverUndercounts'
  BY <1>1 DEF NeverUndercounts, OpenFds
<1>2. Cardinality(OpenFds) \in Nat /\ active_clients \in Int
      /\ Cardinality(OpenFds) <= active_clients
  BY OpenFdsFinite DEF NeverUndercounts, TypeInv, TypeOK
<1>3. CASE LoopTest \/ EnterWait \/ EventsArrive \/ Signal
  BY <1>1, <1>3 DEF LoopTest, EnterWait, EventsArrive, Signal, sockVars
<1>4. CASE Exit
  <2>1. OpenFds' = {} /\ active_clients' = active_clients
    BY <1>4 DEF Exit, CloseAndAdd, OpenFds
  <2>2. Cardinality(OpenFds') = 0
    BY <2>1, FS_EmptySet
  <2> QED
    BY <1>2, <2>1, <2>2 DEF NeverUndercounts
<1>5. CASE Accept
  <2>1. backlog # <<>> /\ FreeFds # {} /\ AcceptAs(LowestFree, {LowestFree})
        /\ active_clients' = active_clients + 1
    BY <1>5 DEF Accept, AcceptEvent, Handle, TypeInv, BatchOK
  <2>2. Cardinality(OpenFds') = Cardinality(OpenFds) + 1
    BY <2>1, AcceptOpensOne DEF TypeInv, TypeOK
  <2> QED
    BY <1>2, <2>1, <2>2 DEF NeverUndercounts
<1>6. CASE AcceptFails
  BY <1>1, <1>6 DEF AcceptFails, sockVars
<1>7. CASE AcceptGivesUp
  <2>1. OpenFds' = OpenFds /\ active_clients' = active_clients + 1
    BY <1>7 DEF AcceptGivesUp, AcceptAndClose, OpenFds
  <2> QED
    BY <1>2, <2>1 DEF NeverUndercounts
<1>8. ASSUME NEW f \in FDs, TakeData(f) PROVE NeverUndercounts'
  BY <1>1, <1>8 DEF TakeData, Take
<1>9. ASSUME NEW f \in FDs, RefuseData(f) \/ ReceiveEnd(f) \/ ReceiveError(f)
      PROVE  NeverUndercounts'
  <2>1. Handle(f) /\ f # ListenFd /\ CloseAndAdd({f}, {})
    BY <1>9 DEF RefuseData, ReceiveEnd, ReceiveError, DataEvent, EndEvent
  <2>2. f \in OpenFds
    BY <2>1 DEF Handle, TypeInv, BatchOK
  <2>3. Cardinality(OpenFds') \in Nat /\ Cardinality(OpenFds') = Cardinality(OpenFds) - 1
    BY <2>1, <2>2, CloseOpenCount
  <2>4. active_clients' = active_clients \/ active_clients' = active_clients - 1
    BY <1>9 DEF RefuseData, ReceiveEnd, ReceiveError
  <2> QED
    BY <1>2, <2>3, <2>4 DEF NeverUndercounts
<1>10. ASSUME NEW c \in Conns, ClientStep(c) PROVE NeverUndercounts'
  BY <1>1, <1>10 DEF ClientStep, Connect, Deliver, Hangup
<1>11. CASE UNCHANGED vars
  BY <1>1, <1>11 DEF vars, sockVars
<1> QED
  BY <1>3, <1>4, <1>5, <1>6, <1>7, <1>8, <1>9, <1>10, <1>11
     DEF Next, ServerStep, AcceptStep, EventStep

(* active_clients is at least the number of open connections, whatever was *)
(* refused or failed.                                                      *)
THEOREM CountNeverTooLow == Spec => []NeverUndercounts
<1>1. Init => NeverUndercounts
  <2> SUFFICES ASSUME Init PROVE Cardinality(OpenFds) <= active_clients
    BY DEF NeverUndercounts
  <2>1. OpenFds = {}
    BY InitTyped
  <2> QED
    BY <2>1, FS_EmptySet DEF Init
<1>2. TypeInv /\ NeverUndercounts /\ [Next]_vars => NeverUndercounts'
  BY StepCount
<1> QED
  BY <1>1, <1>2, TypeCorrect, PTL DEF Spec

(* So the loop is never ended by the count under an open connection.       *)
THEOREM NeverStopsUnderAClient == Spec => StopsOnlyWhenEmpty
<1> DEFINE Step == running /\ ~running' /\ batch' # batch => OpenFds' = {}
<1>1. ASSUME NeverUndercounts', [Next]_vars PROVE [Step]_vars
  <2> SUFFICES ASSUME running, ~running', batch' # batch PROVE OpenFds' = {}
    OBVIOUS
  <2>1. PICK f \in FDs : RefuseData(f) \/ ReceiveEnd(f) \/ ReceiveError(f)
    BY <1>1 DEF Next, ServerStep, EventStep, LoopTest, EnterWait, EventsArrive, Exit, Signal,
                AcceptStep, Accept, AcceptFails, AcceptGivesUp, TakeData, ClientStep, vars
  <2>2. active_clients' = 0
    BY <2>1 DEF RefuseData, ReceiveEnd, ReceiveError, StopTest
  <2>3. IsFiniteSet(OpenFds') /\ Cardinality(OpenFds') \in Nat
    <3>1. IsFiniteSet(FDs)
      BY SocketAssumption, FS_Interval DEF FDs
    <3>2. OpenFds' \subseteq FDs
      BY DEF OpenFds, FDs
    <3>3. IsFiniteSet(OpenFds')
      BY <3>1, <3>2, FS_Subset
    <3> QED
      BY <3>3, FS_CardinalityType
  <2>4. Cardinality(OpenFds') = 0
    BY <1>1, <2>2, <2>3 DEF NeverUndercounts
  <2> QED
    BY <2>3, <2>4, FS_EmptySet
<1>2. Spec => []NeverUndercounts
  BY CountNeverTooLow
<1> QED
  BY <1>1, <1>2, PTL DEF Spec, StopsOnlyWhenEmpty

=============================================================================
