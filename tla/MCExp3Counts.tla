---------------------------- MODULE MCExp3Counts ----------------------------
(***************************************************************************)
(* What the server counts in the environment of MCExp3Open, where a        *)
(* connection may be misidentified, moved, ended for inactivity, or stand  *)
(* behind a stale event.                                                   *)
(***************************************************************************)
EXTENDS Exp3Stats, MCExp3Open

CountUnits == [c \in OpenConns |-> IF c = n1 THEN 2 ELSE IF c = p1 THEN 1 ELSE 0]

=============================================================================
