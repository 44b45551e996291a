----------------------------- MODULE TurnClient -----------------------------
(***************************************************************************)
(* The clients whose threads, one for each TCP connection, take turns to   *)
(* send: exp1/client_final.c (and client9copy.c and client_op.c, which     *)
(* differ in the text of a packet), exp1/client8.c, which counts rounds as *)
(* well, and clientexp2_time.c, which stops by time. They share the lock,  *)
(* the condition variable and the turn; what only one of them has is       *)
(* guarded by `program`. client8.c moves the turn on before it sends; both *)
(* happen under the lock, so that nobody can see in which order.           *)
(***************************************************************************)
EXTENDS Integers, Sequences

CONSTANTS
    PROGRAMS,        \* the programs to look at
    TCP_CONN,        \* connections, and so threads
    PACKETS,         \* packets of a connection; a bound if program is TIMED
    MAY_REFUSE,      \* connections that the server may refuse
    MAY_RESET,       \* connections that the server may reset
    MaxSpurious      \* bound on spurious wakeups

Threads == 1..TCP_CONN

COUNTED == "client_final.c"
ROUNDS == "client8.c"
TIMED == "clientexp2_time.c"

ASSUME TurnAssumption ==
    /\ PROGRAMS \subseteq {COUNTED, ROUNDS, TIMED}
    /\ TCP_CONN \in Nat \ {0}
    /\ PACKETS \in Nat
    /\ MAY_REFUSE \subseteq Threads
    /\ MAY_RESET \subseteq Threads
    /\ MaxSpurious \in Nat

NoThread == 0

VARIABLES
    program,           \* the program that runs, one of PROGRAMS
    main,              \* "running", "returned", or "killed" by SIGPIPE
    created,           \* threads that main has created
    pc,                \* where each thread is
    i,                 \* turns each thread has completed
    holder,            \* the thread that holds the mutex, or NoThread
    current_conn,
    current_packet,    \* client8.c only
    global_packet_id,  \* client_final.c only
    link,              \* each connection: "down", "up", "reset", "dead"
    deadlines,         \* threads whose time runs, the earliest deadline first
    spurious,          \* spurious wakeups so far
    log                \* every packet given to send, in order: its connection,
                       \* its number, and whether it was taken
threadVars == <<pc, i>>
turnVars == <<current_conn, current_packet>>
netVars == <<global_packet_id, link, log>>
timeVars == <<deadlines, spurious>>
vars == <<program, main, created, threadVars, holder, turnVars, netVars, timeVars>>

-----------------------------------------------------------------------------

Init ==
    /\ program \in PROGRAMS
    /\ main = "running"
    /\ created = 0
    /\ pc = [t \in Threads |-> "none"]
    /\ i = [t \in Threads |-> 0]
    /\ holder = NoThread
    /\ current_conn = 1
    /\ current_packet = 1
    /\ global_packet_id = 1
    /\ link = [t \in Threads |-> "down"]
    /\ deadlines = <<>>
    /\ spurious = 0
    /\ log = <<>>

At(t, place) == main = "running" /\ pc[t] = place
Goto(t, place) == pc' = [pc EXCEPT ![t] = place]

TimeRuns(t) == \E k \in DOMAIN deadlines : deadlines[k] = t

(* The condition of the while around pthread_cond_wait, negated.           *)
MyTurn(t) ==
    /\ current_conn = t
    /\ program = ROUNDS => current_packet = i[t] + 1

(* The turn after c's. The mutated form leaves out the last connection.    *)
SkipsLastConn(c) == (c % (TCP_CONN - 1)) + 1

NextConn(c) == (c % TCP_CONN) + 1

(* client8.c counts a round when the last connection has had its turn; the *)
(* mutated form counts it one turn early.                                  *)
CountsEarly(n) ==
    IF program = ROUNDS /\ current_conn = TCP_CONN - 1 THEN n + 1 ELSE n

NextPacket(n) == IF program = ROUNDS /\ current_conn = TCP_CONN THEN n + 1 ELSE n

(* A thread that has waited tests the condition again: `while`. The mutated*)
(* form is `if`.                                                           *)
AfterWaitUntested == "send"

AfterWait == "check"

(* pthread_cond_broadcast: every thread that waits has to lock again.      *)
(* The mutated forms are pthread_cond_signal and no call at all.           *)
WokenFirst(places) ==
    [t \in Threads |->
        IF places[t] = "parked" /\ \A u \in 1..(t - 1) : places[u] # "parked"
          THEN "woken" ELSE places[t]]

WokenNone(places) == places

Woken(places) ==
    [t \in Threads |-> IF places[t] = "parked" THEN "woken" ELSE places[t]]

-----------------------------------------------------------------------------
(* main                                                                    *)

CreateThread ==
    /\ main = "running"
    /\ created < TCP_CONN
    /\ created' = created + 1
    /\ Goto(created + 1, "connect")
    /\ UNCHANGED <<program, main, i, holder, turnVars, netVars, timeVars>>

JoinAll ==
    /\ main = "running"
    /\ created = TCP_CONN
    /\ \A t \in Threads : pc[t] = "returned"
    /\ main' = "returned"
    /\ UNCHANGED <<program, created, threadVars, holder, turnVars, netVars, timeVars>>

(* A thread                                                                *)

Connect(t) ==
    /\ At(t, "connect")
    /\ Goto(t, "test")
    /\ link' = [link EXCEPT ![t] = "up"]
    /\ deadlines' = IF program = TIMED THEN Append(deadlines, t) ELSE deadlines
    /\ UNCHANGED <<program, main, created, i, holder, turnVars, global_packet_id, log, spurious>>

ConnectFails(t) ==
    /\ At(t, "connect")
    /\ t \in MAY_REFUSE
    /\ Goto(t, "returned")
    /\ UNCHANGED <<program, main, created, i, holder, turnVars, netVars, timeVars>>

(* The loop's condition; the mutated form is `i <= PACKETS`.               *)
StartOneTooMany(t) ==
    /\ At(t, "test")
    /\ i[t] <= PACKETS
    /\ program = TIMED => TimeRuns(t)
    /\ Goto(t, "lock")
    /\ UNCHANGED <<program, main, created, i, holder, turnVars, netVars, timeVars>>

StartPacket(t) ==
    /\ At(t, "test")
    /\ i[t] < PACKETS
    /\ program = TIMED => TimeRuns(t)
    /\ Goto(t, "lock")
    /\ UNCHANGED <<program, main, created, i, holder, turnVars, netVars, timeVars>>

Leave(t) ==
    /\ At(t, "test")
    /\ IF program = TIMED THEN ~TimeRuns(t) ELSE i[t] = PACKETS
    /\ Goto(t, "returned")
    /\ link' = [link EXCEPT ![t] = "down"]
    /\ UNCHANGED <<program, main, created, i, holder, turnVars, global_packet_id, log, timeVars>>

Lock(t) ==
    /\ holder = NoThread
    /\ holder' = t
    /\ \/ At(t, "lock") /\ Goto(t, "check")
       \/ At(t, "woken") /\ Goto(t, AfterWait)
    /\ UNCHANGED <<program, main, created, i, turnVars, netVars, timeVars>>

(* pthread_cond_wait releases the mutex as it begins to wait.              *)
Wait(t) ==
    /\ At(t, "check")
    /\ ~MyTurn(t)
    /\ Goto(t, "parked")
    /\ holder' = NoThread
    /\ UNCHANGED <<program, main, created, i, turnVars, netVars, timeVars>>

(* pthread_cond_wait may return without a broadcast.                       *)
WakeSpuriously(t) ==
    /\ At(t, "parked")
    /\ spurious < MaxSpurious
    /\ spurious' = spurious + 1
    /\ Goto(t, "woken")
    /\ UNCHANGED <<program, main, created, i, holder, turnVars, netVars, deadlines>>

TakeTurn(t) ==
    /\ At(t, "check")
    /\ MyTurn(t)
    /\ Goto(t, "send")
    /\ UNCHANGED <<program, main, created, i, holder, turnVars, netVars, timeVars>>

(* The number a packet carries; the packets of clientexp2_time.c have none.*)
PacketNumber(t) ==
    CASE program = COUNTED -> global_packet_id
      [] program = ROUNDS -> i[t] + 1
      [] program = TIMED -> 0

(* The result of send is not looked at: on a connection that was reset it  *)
(* fails, the number is used up and the turn passes on all the same.       *)
Send(t) ==
    /\ At(t, "send")
    /\ link[t] # "dead"
    /\ Goto(t, "pass")
    /\ log' = Append(log, [conn |-> t, id |-> PacketNumber(t), taken |-> link[t] = "up"])
    /\ global_packet_id' = IF program = COUNTED THEN global_packet_id + 1 ELSE global_packet_id
    /\ link' = IF link[t] = "reset" THEN [link EXCEPT ![t] = "dead"] ELSE link
    /\ UNCHANGED <<program, main, created, i, holder, turnVars, timeVars>>

(* A second send on a connection that was reset raises SIGPIPE.            *)
BrokenPipe(t) ==
    /\ At(t, "send")
    /\ link[t] = "dead"
    /\ main' = "killed"
    /\ UNCHANGED <<program, created, threadVars, holder, turnVars, netVars, timeVars>>

(* The turn moves on, all who wait are woken, the mutex is released.       *)
PassTurn(t) ==
    /\ At(t, "pass")
    /\ current_conn' = NextConn(current_conn)
    /\ current_packet' = NextPacket(current_packet)
    /\ pc' = [Woken(pc) EXCEPT ![t] = "test"]
    /\ i' = [i EXCEPT ![t] = @ + 1]
    /\ holder' = NoThread
    /\ UNCHANGED <<program, main, created, netVars, timeVars>>

(* The clock and the server                                                *)

(* EXPERIMENT_DURATION is over for the thread that connected first among   *)
(* those whose time runs: the duration is the same for all.                *)
Expire ==
    /\ main = "running"
    /\ deadlines # <<>>
    /\ deadlines' = Tail(deadlines)
    /\ UNCHANGED <<program, main, created, threadVars, holder, turnVars, netVars, spurious>>

Reset(t) ==
    /\ main = "running"
    /\ t \in MAY_RESET
    /\ link[t] = "up"
    /\ link' = [link EXCEPT ![t] = "reset"]
    /\ UNCHANGED <<program, main, created, threadVars, holder, turnVars, global_packet_id, log, timeVars>>

-----------------------------------------------------------------------------

ThreadStep(t) ==
    \/ Connect(t)
    \/ StartPacket(t)
    \/ Leave(t)
    \/ Lock(t)
    \/ Wait(t)
    \/ TakeTurn(t)
    \/ Send(t)
    \/ BrokenPipe(t)
    \/ PassTurn(t)

Next ==
    \/ CreateThread
    \/ JoinAll
    \/ Expire
    \/ \E t \in Threads :
         ThreadStep(t) \/ ConnectFails(t) \/ WakeSpuriously(t) \/ Reset(t)

Spec == Init /\ [][Next]_vars

-----------------------------------------------------------------------------

Places == {"none", "connect", "test", "lock", "check", "parked", "woken",
           "send", "pass", "returned"}
Packet == [conn : Threads, id : Nat, taken : BOOLEAN]

TypeOK ==
    /\ program \in PROGRAMS
    /\ main \in {"running", "returned", "killed"}
    /\ created \in 0..TCP_CONN
    /\ pc \in [Threads -> Places]
    /\ i \in [Threads -> 0..PACKETS]
    /\ holder \in Threads \cup {NoThread}
    /\ current_conn \in Threads
    /\ current_packet \in Nat
    /\ global_packet_id \in Nat
    /\ link \in [Threads -> {"down", "up", "reset", "dead"}]
    /\ deadlines \in Seq(Threads)
    /\ spurious \in 0..MaxSpurious
    /\ log \in Seq(Packet)

(* A thread whose turn it is never waits for a broadcast: no wakeup is     *)
(* lost between the test of the turn and the wait (client_final.c 34-44).  *)
NoLostWakeup ==
    \A t \in Threads : pc[t] = "parked" => current_conn # t

(* "All packets sent in strict TCP connection order" (client_final.c 66):  *)
(* every packet is sent on the connection after the last packet's, and     *)
(* numbers follow without a gap, over all packets (39) or over the rounds  *)
(* (client8.c 55-74).                                                      *)
StrictConnectionOrder ==
    \A k \in DOMAIN log :
        /\ log[k].conn = IF k = 1 THEN 1 ELSE NextConn(log[k - 1].conn)
        /\ program = COUNTED => log[k].id = k
        /\ program = ROUNDS =>
             log[k].id = IF k = 1 THEN 1
                         ELSE log[k - 1].id + (IF log[k].conn = 1 THEN 1 ELSE 0)

(* The packet counter of client8.c (49, 74) never keeps a thread from its  *)
(* turn: it agrees with the loop counter of the thread whose turn it is.   *)
RoundsAgree ==
    program = ROUNDS => \A t \in Threads : current_conn = t => MyTurn(t)

(* The clients implement RoundRobin: a thread completes a turn only when   *)
(* it is its own, and turns go round (client_final.c 34-43).               *)
Rounds == INSTANCE RoundRobin WITH N <- TCP_CONN, turn <- current_conn, had <- i

TakesTurns == Rounds!RoundSpec

(* No connection is ever more than one packet ahead of another: those      *)
(* whose turn has come in this round have had one more (clientexp2_time.c  *)
(* 84-85, where these are the counts the experiment compares).             *)
FairShares ==
    \A t \in Threads : i[t] = i[TCP_CONN] + (IF t < current_conn THEN 1 ELSE 0)

=============================================================================
