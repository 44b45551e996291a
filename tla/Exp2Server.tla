----------------------------- MODULE Exp2Server -----------------------------
(***************************************************************************)
(* serverexp2.c: the server of experiment 2, an epoll loop for two         *)
(* connections.  It remembers the first two descriptors that it accepts,   *)
(* counts what arrives on each and which of the two was first in every     *)
(* pair of reads, and stops when its count of clients returns to zero.     *)
(*                                                                         *)
(* Data is taken only while exactly two connections have been announced:   *)
(* a read at any other time ends its connection (lines 386, 465-479).      *)
(*                                                                         *)
(* The two sides are numbered 1 and 2: socket1total_count is reads[1],     *)
(* socket1_before_socket2 is before[1], conn1_bytes is bytes[1], and so on.*)
(* Left out: times and throughputs, which the report computes from them.   *)
(***************************************************************************)
EXTENDS SocketLayer

CONSTANTS
    BUFFER_SIZE,         \* the most units one recv returns
    PACKET_SIZE,         \* in units
    Signals,             \* whether SIGINT may arrive
    MaxFailures,         \* bound on the calls that fail
    MaxCount             \* bound: `count`, which is only compared with 2, stops there

ASSUME Exp2Assumption ==
    /\ BUFFER_SIZE \in Nat \ {0}
    /\ PACKET_SIZE \in Nat \ {0}
    /\ Signals \in BOOLEAN
    /\ MaxFailures \in Nat
    /\ MaxCount \in Nat /\ MaxCount > 2

Sides == {1, 2}

VARIABLES
    running,
    pc,                  \* "loop": at the loop's test or in its for; "enter": the test was
                         \* passed; "wait": in epoll_wait; "exited": main has returned
    batch,               \* events of this epoll_wait not handled yet
    count,               \* events on the listening socket
    active_clients,
    first_socket,
    second_socket,
    pick,                \* the side of a pair's first read, or -1
    reads,               \* socket1total_count, socket2total_count
    before,              \* socket1_before_socket2, socket2_before_socket1
    both,
    total_data_bytes,
    bytes,               \* conn1_bytes, conn2_bytes
    packets,             \* conn1_packets, conn2_packets
    failures             \* calls that have failed

socketVars == <<first_socket, second_socket>>
reportVars == <<pick, reads, before, both, total_data_bytes, bytes, packets>>
vars == <<sockVars, running, pc, batch, count, active_clients, socketVars, reportVars,
          failures>>

Init ==
    /\ SocketInit
    /\ running = TRUE
    /\ pc = "loop"
    /\ batch = {}
    /\ count = 0
    /\ active_clients = 0
    /\ first_socket = NoFd /\ second_socket = NoFd
    /\ pick = -1
    /\ reads = [s \in Sides |-> 0]
    /\ before = [s \in Sides |-> 0]
    /\ both = 0
    /\ total_data_bytes = 0
    /\ bytes = [s \in Sides |-> 0]
    /\ packets = [s \in Sides |-> 0]
    /\ failures = 0

Fails == failures < MaxFailures /\ failures' = failures + 1

-----------------------------------------------------------------------------
(* The loop's test and epoll_wait, which has no timeout.                   *)

(* Mutant: the loop's condition is always true.                            *)
LoopUntested ==
    /\ pc = "loop" /\ batch = {}
    /\ pc' = "enter"
    /\ UNCHANGED <<sockVars, running, batch, count, active_clients, socketVars,
                   reportVars, failures>>

LoopTest ==
    /\ pc = "loop" /\ batch = {} /\ running
    /\ pc' = "enter"
    /\ UNCHANGED <<sockVars, running, batch, count, active_clients, socketVars,
                   reportVars, failures>>

EnterWait ==
    /\ pc = "enter"
    /\ pc' = "wait"
    /\ UNCHANGED <<sockVars, running, batch, count, active_clients, socketVars,
                   reportVars, failures>>

EventsArrive ==
    /\ pc = "wait"
    /\ Ready # {}
    /\ batch' = Ready
    /\ pc' = "loop"
    /\ UNCHANGED <<sockVars, running, count, active_clients, socketVars, reportVars,
                   failures>>

(* handle_signal; a signal interrupts epoll_wait only if it has begun.     *)
Signal ==
    /\ Signals /\ running /\ pc # "exited"
    /\ running' = FALSE
    /\ pc' = IF pc = "wait" THEN "loop" ELSE pc
    /\ UNCHANGED <<sockVars, batch, count, active_clients, socketVars, reportVars,
                   failures>>

Exit ==
    /\ pc = "loop" /\ batch = {} /\ ~running
    /\ pc' = "exited"
    /\ CloseAndAdd(FDs, {})
    /\ UNCHANGED <<running, batch, count, active_clients, socketVars, reportVars,
                   failures>>

-----------------------------------------------------------------------------
(* An event of the batch on the listening descriptor.                      *)

Handle(e) == e \in batch /\ batch' = batch \ {e}

AcceptEvent ==
    /\ Handle(ListenFd)
    /\ count' = IF count < MaxCount THEN count + 1 ELSE count

(* The first connection becomes the first socket, the next the second.     *)
NoteSocket(f) ==
    /\ first_socket' = IF first_socket = NoFd THEN f ELSE first_socket
    /\ second_socket' = IF first_socket # NoFd /\ second_socket = NoFd
                        THEN f ELSE second_socket

(* Mutant: only the two sockets that are remembered are counted.           *)
AcceptCountsTwo ==
    /\ AcceptEvent
    /\ FreeFds # {}
    /\ AcceptAs(LowestFree, {LowestFree})
    /\ active_clients' = IF second_socket = NoFd THEN active_clients + 1 ELSE active_clients
    /\ NoteSocket(LowestFree)
    /\ UNCHANGED <<running, pc, reportVars, failures>>

Accept ==
    /\ AcceptEvent
    /\ FreeFds # {}
    /\ AcceptAs(LowestFree, {LowestFree})
    /\ active_clients' = active_clients + 1
    /\ NoteSocket(LowestFree)
    /\ UNCHANGED <<running, pc, reportVars, failures>>

(* accept fails for lack of descriptors or memory, but the event is counted.*)
AcceptFails ==
    /\ AcceptEvent
    /\ IF FreeFds = {} THEN UNCHANGED failures ELSE Fails
    /\ UNCHANGED <<sockVars, running, pc, active_clients, socketVars, reportVars>>

(* malloc fails before the descriptor is noted, or EPOLL_CTL_ADD after it: *)
(* the connection is closed and stays in active_clients.                   *)
AcceptGivesUp ==
    /\ AcceptEvent
    /\ FreeFds # {}
    /\ Fails
    /\ AcceptAndClose
    /\ active_clients' = active_clients + 1
    /\ NoteSocket(LowestFree) \/ UNCHANGED socketVars
    /\ UNCHANGED <<running, pc, reportVars>>

-----------------------------------------------------------------------------
(* An event of the batch on a connection.                                  *)

Received(f) ==
    IF inbox[owner[f]] < BUFFER_SIZE THEN inbox[owner[f]] ELSE BUFFER_SIZE

DataEvent(f) == Handle(f) /\ f # ListenFd /\ HasData(f)
EndEvent(f) == Handle(f) /\ f # ListenFd /\ RecvEnds(f)

Socket(s) == IF s = 1 THEN first_socket ELSE second_socket
OtherSide(s) == 3 - s

(* Every read of a remembered descriptor is counted for its side, before   *)
(* count is tested.                                                        *)
CountRead(f) ==
    reads' = [s \in Sides |-> IF Socket(s) = f THEN reads[s] + 1 ELSE reads[s]]

(* The mutated form takes the second read of any two for a pair.           *)
CountPairOfAny(s) ==
    /\ pick' = IF pick = -1 THEN s ELSE -1
    /\ IF pick = -1 THEN UNCHANGED <<before, both>>
       ELSE /\ before' = [before EXCEPT ![OtherSide(s)] = @ + 1]
            /\ both' = both + 1

(* The second read of a pair is credited to the side of the first.         *)
CountPair(s) ==
    IF pick = OtherSide(s)
    THEN /\ pick' = -1
         /\ before' = [before EXCEPT ![OtherSide(s)] = @ + 1]
         /\ both' = both + 1
    ELSE /\ pick' = IF pick = -1 THEN s ELSE pick
         /\ UNCHANGED <<before, both>>

(* The mutated form goes on taking data when a third connection has come.  *)
TwoOrMore == count >= 2

TwoAnnounced == count = 2

(* if ... else if: when both names hold the same number, it is the first.  *)
TakeData(f) ==
    /\ DataEvent(f)
    /\ TwoAnnounced
    /\ Take(f, Received(f))
    /\ CountRead(f)
    /\ total_data_bytes' = total_data_bytes + Received(f)
    /\ \/ \E s \in Sides :
            /\ Socket(s) = f
            /\ s = 2 => first_socket # f
            /\ bytes' = [bytes EXCEPT ![s] = @ + Received(f)]
            /\ packets' = [packets EXCEPT ![s] = @ + Received(f) \div PACKET_SIZE]
            /\ CountPair(s)
       \/ /\ f \notin {first_socket, second_socket}
          /\ UNCHANGED <<pick, before, both, bytes, packets>>
    /\ UNCHANGED <<running, pc, count, active_clients, socketVars, failures>>

(* Mutant: the test stands before the client is counted off.               *)
StopTestEarly == running' = (running /\ active_clients # 0)

StopTest == running' = (running /\ active_clients' # 0)

(* Data while count is not 2: "Receive failed", the connection is closed   *)
(* and what it had sent is lost; active_clients still counts it.           *)
RefuseData(f) ==
    /\ DataEvent(f)
    /\ ~TwoAnnounced
    /\ CountRead(f)
    /\ CloseAndAdd({f}, {})
    /\ UNCHANGED active_clients
    /\ StopTest
    /\ UNCHANGED <<pc, count, socketVars, pick, before, both, total_data_bytes, bytes,
                   packets, failures>>

(* recv returns 0.                                                         *)
ReceiveEnd(f) ==
    /\ EndEvent(f)
    /\ active_clients' = active_clients - 1
    /\ CloseAndAdd({f}, {})
    /\ StopTest
    /\ UNCHANGED <<pc, count, socketVars, reportVars, failures>>

(* recv fails: the connection timed out or was reset.                      *)
ReceiveError(f) ==
    /\ EndEvent(f)
    /\ Fails
    /\ CloseAndAdd({f}, {})
    /\ UNCHANGED active_clients
    /\ StopTest
    /\ UNCHANGED <<pc, count, socketVars, reportVars>>

-----------------------------------------------------------------------------

ClientStep(c) ==
    /\ pc # "exited"
    /\ Connect(c) \/ Deliver(c) \/ Hangup(c)
    /\ UNCHANGED <<running, pc, batch, count, active_clients, socketVars, reportVars,
                   failures>>

AcceptStep == Accept \/ AcceptFails \/ AcceptGivesUp

EventStep(f) == TakeData(f) \/ RefuseData(f) \/ ReceiveEnd(f) \/ ReceiveError(f)

ServerStep ==
    \/ LoopTest \/ EnterWait \/ EventsArrive \/ Exit
    \/ AcceptStep
    \/ \E f \in FDs : EventStep(f)

Next == ServerStep \/ Signal \/ \E c \in Conns : ClientStep(c)

Spec == Init /\ [][Next]_vars

-----------------------------------------------------------------------------

TypeOK ==
    /\ SocketTypeOK
    /\ running \in BOOLEAN
    /\ pc \in {"loop", "enter", "wait", "exited"}
    /\ batch \subseteq FDs \cup {ListenFd}
    /\ count \in Nat
    /\ active_clients \in Int
    /\ first_socket \in FDs \cup {NoFd}
    /\ second_socket \in FDs \cup {NoFd}
    /\ pick \in Sides \cup {-1}
    /\ reads \in [Sides -> Nat]
    /\ before \in [Sides -> Nat]
    /\ both \in Nat
    /\ total_data_bytes \in Nat
    /\ bytes \in [Sides -> Nat]
    /\ packets \in [Sides -> Nat]
    /\ failures \in 0 .. MaxFailures

(* The report's "First Socket Count" and "Second Socket Count" (161-162),  *)
(* differences that no test guards, are never negative: every pair takes a *)
(* read from each side, also when a connection is refused, closed and its  *)
(* descriptor handed out again, and pick survives it.                      *)
PairsWithinReads ==
    /\ both = before[1] + before[2]
    /\ \A s \in Sides : both + (IF pick = s THEN 1 ELSE 0) <= reads[s]

(* "Throughput" and the two connections' bytes agree (389, 397, 423): no   *)
(* byte is taken from a connection that is neither side.                   *)
BytesHaveASide == total_data_bytes = bytes[1] + bytes[2]

(* active_clients never misses a connection that is open (310, 467)        *)
NeverUndercounts == Cardinality(OpenFds) <= active_clients

(* so that the loop ends by the count only when the last one has closed    *)
(* (474-476), whatever was refused or failed before.                       *)
StopsOnlyWhenEmpty ==
    [][running /\ ~running' /\ batch' # batch => OpenFds' = {}]_vars

=============================================================================
