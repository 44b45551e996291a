---------------------------- MODULE MCTurnClient ----------------------------
(***************************************************************************)
(* Three threads of each of the three programs; one connection may be      *)
(* refused, another reset, and a thread may wake up without a broadcast.   *)
(***************************************************************************)
EXTENDS TurnClient

AllPrograms == {COUNTED, ROUNDS, TIMED}

FairSpec ==
    /\ Spec
    /\ WF_vars(CreateThread)
    /\ WF_vars(JoinAll)
    /\ WF_vars(Expire)
    /\ \A t \in Threads : WF_vars(ThreadStep(t))

(* Either the process ends or it stands for ever at the turn of a thread   *)
(* that has gone with packets unsent: one that could not connect           *)
(* (client_final.c 29), or whose time was up before that of the others     *)
(* (clientexp2_time.c 67-70). There is no other standstill.                *)
LeftEarly(t) == pc[t] = "returned" /\ i[t] < PACKETS

EndsOrStandsBehindLeaver == <>(main # "running") \/ <>[]LeftEarly(current_conn)

=============================================================================
