----------------------------- MODULE RoundRobin -----------------------------
(***************************************************************************)
(* What the clients that take turns promise: turns go round, from 1 to N   *)
(* and back to 1, and nobody has a turn out of turn.                       *)
(***************************************************************************)
EXTENDS Integers

CONSTANT N                  \* how many take part, at least one

VARIABLES
    turn,                   \* whose turn it is
    had                     \* had[m]: how many turns m has had

roundVars == <<turn, had>>

Members == 1..N

RoundInit == turn = 1 /\ had = [m \in Members |-> 0]

TakeTurn ==
    /\ had' = [had EXCEPT ![turn] = @ + 1]
    /\ turn' = (turn % N) + 1

RoundSpec == RoundInit /\ [][TakeTurn]_roundVars

=============================================================================
