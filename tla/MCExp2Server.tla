---------------------------- MODULE MCExp2Server ----------------------------
(***************************************************************************)
(* serverexp2.c with the two connections of the experiment and a third, as *)
(* clientexp2.c makes it; each may send, connect and leave at any moment,  *)
(* a call may fail, and a signal may arrive.                               *)
(***************************************************************************)
EXTENDS Exp2Server

CONSTANTS a, b, c

ThreeConns == {a, b, c}
ThreeUnits == [d \in ThreeConns |-> IF d = a THEN 2 ELSE IF d = b THEN 1 ELSE 0]
NoneBefore == [d \in ThreeConns |-> {}]

FairSpec == Spec /\ WF_vars(ServerStep)

(* The loop has no timeout, so that only the count can end it (474-476):   *)
(* it does once every client has left, unless a connection was refused or  *)
(* failed before, after which the count never returns to zero.             *)
EndsWhenAllHaveLeft ==
    /\ [](pc # "exited" => active_clients = Cardinality(OpenFds))
    /\ <>[](\A d \in Conns : peer[d] = "gone")
    => <>(pc = "exited")

(* A signal ends the server (188-192, 284): at once if it comes in the     *)
(* loop or in epoll_wait; one that comes between the loop's test and       *)
(* epoll_wait is noticed only when the next event wakes the server up.     *)
SignalStops ==
    /\ (~running /\ pc # "enter" /\ pc # "wait") ~> (pc = "exited")
    /\ (~running /\ Ready # {}) ~> (pc = "exited")

=============================================================================
