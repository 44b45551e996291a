-------------------------- MODULE FirstComeService --------------------------
(***************************************************************************)
(* What the non-persistent slot and its queue promise together: one        *)
(* connection is served at a time, the others wait in the order they were  *)
(* accepted, nobody waits while nobody is served, and a connection that    *)
(* leaves never comes back.                                                *)
(***************************************************************************)
EXTENDS Integers, Sequences

CONSTANTS
    Clients,
    Nobody,       \* "no client is served"; not a client
    MaxWaiting    \* places to wait, a natural number

VARIABLES
    serving,      \* the client being served, or Nobody
    waiting,      \* the clients that wait, first come first
    left          \* the clients that have been served or turned away

serviceVars == <<serving, waiting, left>>

ServiceInit == serving = Nobody /\ waiting = <<>> /\ left = {}

Present == {serving} \cup {waiting[i] : i \in DOMAIN waiting}

Arrive(c) ==
    /\ c \notin Present \cup left
    /\ \/ serving = Nobody /\ waiting = <<>> /\ serving' = c /\ UNCHANGED waiting
       \/ /\ serving # Nobody
          /\ Len(waiting) < MaxWaiting
          /\ waiting' = Append(waiting, c)
          /\ UNCHANGED serving
    /\ UNCHANGED left

(* Turned away: somebody is served and every place to wait is taken.       *)
TurnAway(c) ==
    /\ c \notin Present \cup left
    /\ serving # Nobody
    /\ Len(waiting) = MaxWaiting
    /\ left' = left \cup {c}
    /\ UNCHANGED <<serving, waiting>>

Leave ==
    /\ serving # Nobody
    /\ left' = left \cup {serving}
    /\ \/ waiting = <<>> /\ serving' = Nobody /\ UNCHANGED waiting
       \/ waiting # <<>> /\ serving' = Head(waiting) /\ waiting' = Tail(waiting)

(* The service closes: everyone leaves.                                    *)
Shut ==
    /\ serving' = Nobody
    /\ waiting' = <<>>
    /\ left' = left \cup (Present \ {Nobody})

ServiceNext == (\E c \in Clients : Arrive(c) \/ TurnAway(c)) \/ Leave \/ Shut

ServiceSpec == ServiceInit /\ [][ServiceNext]_serviceVars

=============================================================================
