-------------------------- MODULE MCExp3Experiment --------------------------
(***************************************************************************)
(* The deployment of the report's Experiment 2: one persistent client that *)
(* connects first and outlasts the run, and one non-persistent client that *)
(* opens its connections one after the other (n1, n2, n3), each after the  *)
(* server has closed the one before: the client waits 100 ms "for server   *)
(* cleanup".  A client sends its first data within a second of connecting. *)
(***************************************************************************)
EXTENDS Exp3Stats, Exp3Deployment

CONSTANTS n1, n2, n3

NpConns == {n1, n2, n3}
TestConns == NpConns \cup {p1}
TestKind == [c \in TestConns |-> IF c = p1 THEN "P" ELSE "N"]
TestUnits == [c \in TestConns |-> IF c = p1 THEN 3 ELSE IF c = n1 THEN 2 ELSE 1]
OneByOne == [c \in TestConns |-> IF c = n2 THEN {n1} ELSE IF c = n3 THEN {n1, n2} ELSE {}]
AfterP == [c \in TestConns |-> IF c = p1 THEN {} ELSE {p1}]
POutlasts == [c \in TestConns |-> IF c = p1 THEN NpConns ELSE {}]
NoClients == {}

ASSUME ExperimentDeployment == OneAtATime

-----------------------------------------------------------------------------
(* What the code's own words promise and its counting does not keep.       *)

(* "Avg Only persistent count" (line 117): the events counted as the       *)
(* persistent connection's alone are events of that connection.            *)
OnlyCountsAreEvents == temp.onlyP <= all.onlyP /\ temp.onlyNp <= all.onlyNp

(* "Total non-persistent duration" (line 181): the connections hold the    *)
(* slot one after the other, so together they last no longer than the run. *)
DurationWithinRun == conn2_duration <= clock

=============================================================================
