----------------------------- MODULE MCExp3Open -----------------------------
(***************************************************************************)
(* The connection layer in an environment that keeps no rule: clients of   *)
(* both kinds connect in any order and at once, stay silent or leave at any*)
(* moment, EPOLL_CTL_ADD or accept may fail, a signal may arrive.          *)
(***************************************************************************)
EXTENDS Exp3Server

CONSTANTS p1, n1, n2

OpenConns == {p1, n1, n2}
OpenKind == [c \in OpenConns |-> IF c = p1 THEN "P" ELSE "N"]
(* Here p1 stays silent; in MCExp3Counts it sends.                        *)
OpenUnits == [c \in OpenConns |-> IF c = n1 THEN 2 ELSE 0]
NoneBefore == [c \in OpenConns |-> {}]
NoClients == {}

-----------------------------------------------------------------------------

FairSpec == ServerSpec /\ WF_serverVars(ServerStep)

(* Once every client has gone, or nothing happens any more, the server     *)
(* stops, even if its count of clients has gone wrong (lines 279-283, 567).*)
StopsWhenQuiet ==
    /\ <>[](Ready = {}) => <>(pc = "exited")
    /\ <>[](\A c \in Conns : peer[c] # "open") => <>(pc = "exited")

=============================================================================
