---------------------------- MODULE MCExp3Queue ----------------------------
(***************************************************************************)
(* The connection layer with several non-persistent clients at once: the   *)
(* persistent client connects first and stays until the server has closed  *)
(* the others, which connect at any moment, so that the queue of two fills *)
(* and overflows.  Their connections are short: none waits for a second,   *)
(* so none is taken for inactive.                                          *)
(***************************************************************************)
EXTENDS Exp3Deployment

CONSTANTS n1, n2, n3, n4

Shorts == {n1, n2, n3, n4}
AllConns == Shorts \cup {p1}
QueueKind == [c \in AllConns |-> IF c = p1 THEN "P" ELSE "N"]
QueueUnits == [c \in AllConns |-> IF c = n3 THEN 0 ELSE 1]
NoneBefore == [c \in AllConns |-> {}]

(* The names say in which order the clients connect.                       *)
Order == <<p1, n1, n2, n3, n4>>
InOrder == [c \in AllConns |->
    {d \in AllConns : \E i, j \in DOMAIN Order : i < j /\ Order[i] = d /\ Order[j] = c}]
POutlasts == [c \in AllConns |-> IF c = p1 THEN Shorts ELSE {}]
NoClients == {}

(* Visits are short in exp3_queue; in exp3_early_stop they may last.       *)
ASSUME QueueDeployment == PersistentLasts /\ (Brisk # {} => ShortVisits)

-----------------------------------------------------------------------------

(* The loop runs as long as the process does; a prompt client sends and    *)
(* every non-persistent client closes its connection in the end (its send  *)
(* loop is bounded by MSGS_PER_CONN).                                      *)
FairSpec ==
    /\ ServerSpec
    /\ WF_serverVars(ServerStep)
    /\ \A c \in AllConns : WF_serverVars(Deliver(c) /\ pc # "exited" /\ ServerUnchanged)
    /\ \A c \in Shorts : WF_serverVars(Hangup(c) /\ pc # "exited" /\ ServerUnchanged)

(* A connection in the queue does not wait for ever (lines 547-553): it    *)
(* gets the slot in the end.                                               *)
WaitersAreServed ==
    \A c \in Shorts :
        (\E i \in DOMAIN Waiters : Waiters[i] = c) ~> (Served = c)

=============================================================================
