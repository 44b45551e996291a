---------------------------- MODULE StreamClient ----------------------------
(***************************************************************************)
(* The clients that send without waiting for anybody: per.c (one           *)
(* connection for the whole run), non.c (a new connection for every        *)
(* msgs_per_conn messages), and the two threads of clientexp2.c, which do  *)
(* the same by count instead of time.  What only some have is guarded by   *)
(* `program`.                                                              *)
(*                                                                         *)
(* send takes units into the socket's buffer, from where they arrive at    *)
(* the server's host.  per.c never blocks: on a full buffer its loop spins *)
(* (122), which changes nothing.  The others block until the whole buffer  *)
(* is taken, or a signal or the connection's end cuts the call short.      *)
(*                                                                         *)
(* `over` is the outcome of elapsed >= runtime when elapsed was last set.  *)
(* Left out: the pause of 100 ms after a connection.                       *)
(***************************************************************************)
EXTENDS Integers

CONSTANTS
    PROGRAMS,        \* the programs to look at
    BUFFER_SIZE,     \* units of a message
    SNDBUF,          \* units the socket's buffer holds
    MSGS_PER_CONN,   \* msgs_per_conn of non.c, BATCH_SIZE of clientexp2.c
    NUM_MESSAGES,    \* clientexp2.c only
    CHECK_EVERY,     \* per.c looks at the clock after so many messages
    MaxMsgs,         \* bound: the time is up once so many messages were sent
    MaxCloses        \* bound on the connections the server closes first

PER == "per.c"
NON == "non.c"
PERSISTENT == "clientexp2.c, persistent_connection"
FREQUENT == "clientexp2.c, frequent_connection"

ASSUME ClientAssumption ==
    /\ PROGRAMS \subseteq {PER, NON, PERSISTENT, FREQUENT}
    /\ BUFFER_SIZE \in Nat \ {0}
    /\ SNDBUF \in Nat \ {0}
    /\ MSGS_PER_CONN \in Nat \ {0}
    /\ NUM_MESSAGES \in Nat
    /\ CHECK_EVERY \in Nat \ {0}
    /\ MaxMsgs \in Nat
    /\ MaxCloses \in Nat

VARIABLES
    program,         \* the program that runs, one of PROGRAMS
    running,         \* cleared by SIGINT (per.c, non.c)
    pc,              \* "start": at the outer loop's test; "socket": before the calls
                     \* that open a connection; "send": at the inner loop's test;
                     \* "sending": in a blocking send; "done": after the inner loop;
                     \* "exited"; "killed" by SIGPIPE
    time_up,         \* the run time is over
    over,            \* ... and the program has seen it
    i,               \* clientexp2.c: the outer loop's counter
    bytes_to_send,   \* of the current message
    copied,          \* units the present blocking send has taken
    msgs_sent,       \* messages of this connection
    total_msgs_sent,
    total_bytes_sent,    \* per.c only
    total_connections,   \* non.c only
    non_complete,        \* non.c only
    link,            \* the connection: "none", "up"; "closed" by the server, "reset", or
                     \* "broken": the next send raises SIGPIPE
    buffered,        \* units in the socket's buffer
    arrived, lost,   \* units of this connection that arrived, and that never will
    closes,          \* connections that the server has closed first
    sent_in_time     \* history: total_msgs_sent when the time was up

timeVars == <<time_up, over, sent_in_time>>
msgVars == <<bytes_to_send, copied, msgs_sent>>
totalVars == <<total_msgs_sent, total_bytes_sent, total_connections, non_complete>>
netVars == <<link, buffered, arrived, lost, closes>>
vars == <<program, running, pc, timeVars, i, msgVars, totalVars, netVars>>

Init ==
    /\ program \in PROGRAMS
    /\ running = TRUE
    /\ pc = "start"
    /\ time_up = FALSE /\ over = FALSE /\ sent_in_time = 0
    /\ i = 0
    /\ bytes_to_send = BUFFER_SIZE /\ copied = 0 /\ msgs_sent = 0
    /\ total_msgs_sent = 0 /\ total_bytes_sent = 0
    /\ total_connections = 0 /\ non_complete = 0
    /\ link = "none" /\ buffered = 0 /\ arrived = 0 /\ lost = 0 /\ closes = 0

OneConnection == program \in {PER, PERSISTENT}
Bounded == time_up \/ total_msgs_sent < MaxMsgs

-----------------------------------------------------------------------------
(* The outer loop: one connection after the other.                         *)

(* Its condition; per.c and persistent_connection have no outer loop.      *)
ConnectsAgain ==
    CASE OneConnection       -> TRUE
      [] program = NON       -> running /\ ~over
      [] program = FREQUENT  -> i < NUM_MESSAGES

LoopTest ==
    /\ pc = "start" /\ ConnectsAgain
    /\ pc' = "socket"
    /\ UNCHANGED <<program, running, timeVars, i, msgVars, totalVars, netVars>>

Connect ==
    /\ pc = "socket" /\ Bounded
    /\ pc' = "send"
    /\ link' = "up"
    /\ bytes_to_send' = BUFFER_SIZE /\ msgs_sent' = 0 /\ copied' = 0
    /\ buffered' = 0 /\ arrived' = 0 /\ lost' = 0
    /\ UNCHANGED <<program, running, timeVars, i, totalVars, closes>>

(* Mutant: the clock is not looked at.                                     *)
IgnoreClock == over' = over

LookAtClock == over' = time_up

NextConnection == i' = IF program = FREQUENT THEN i + MSGS_PER_CONN ELSE i

(* The loop goes on without a look at the clock.                           *)
SocketFails ==
    /\ pc = "socket"
    /\ pc' = IF OneConnection THEN "exited" ELSE "start"
    /\ NextConnection
    /\ UNCHANGED <<program, running, timeVars, msgVars, totalVars, netVars>>

ConnectFails ==
    /\ pc = "socket"
    /\ pc' = IF OneConnection THEN "exited" ELSE "start"
    /\ IF program = NON THEN LookAtClock ELSE UNCHANGED over
    /\ NextConnection
    /\ UNCHANGED <<program, running, time_up, sent_in_time, msgVars, totalVars, netVars>>

Leave ==
    /\ pc = "start" /\ ~ConnectsAgain
    /\ pc' = "exited"
    /\ UNCHANGED <<program, running, timeVars, i, msgVars, totalVars, netVars>>

-----------------------------------------------------------------------------
(* The inner loop: one send after the other.                               *)

SendsAgain ==
    CASE program = PER        -> running /\ ~over
      [] program = NON        -> msgs_sent < MSGS_PER_CONN /\ running
      [] program = PERSISTENT -> msgs_sent < NUM_MESSAGES
      [] program = FREQUENT   -> msgs_sent < MSGS_PER_CONN /\ i + msgs_sent < NUM_MESSAGES

(* Whether a send that returned n counts as a message.  clientexp2.c does  *)
(* not look at n: it catches no signal, so that n is less only if the      *)
(* connection ended.                                                       *)
Counts(n) == n = bytes_to_send \/ program \in {PERSISTENT, FREQUENT}

(* Mutant: after a part of a message was taken the whole is sent again.    *)
CountSentWhole(n) ==
    /\ bytes_to_send' = BUFFER_SIZE
    /\ msgs_sent' = IF Counts(n) THEN msgs_sent + 1 ELSE msgs_sent
    /\ total_msgs_sent' = IF Counts(n) THEN total_msgs_sent + 1 ELSE total_msgs_sent

(* Mutant: the remaining length is not set back for the next message.      *)
CountSentNoReset(n) ==
    /\ bytes_to_send' = bytes_to_send - n
    /\ msgs_sent' = IF Counts(n) THEN msgs_sent + 1 ELSE msgs_sent
    /\ total_msgs_sent' = IF Counts(n) THEN total_msgs_sent + 1 ELSE total_msgs_sent

(* send has returned n.                                                    *)
CountSent(n) ==
    /\ bytes_to_send' = IF Counts(n) THEN BUFFER_SIZE ELSE bytes_to_send - n
    /\ msgs_sent' = IF Counts(n) THEN msgs_sent + 1 ELSE msgs_sent
    /\ total_msgs_sent' = IF Counts(n) THEN total_msgs_sent + 1 ELSE total_msgs_sent

SendNow(n) ==
    /\ pc = "send" /\ program = PER /\ SendsAgain /\ Bounded
    /\ link \in {"up", "closed"}
    /\ n <= bytes_to_send /\ buffered + n <= SNDBUF
    /\ buffered' = buffered + n
    /\ CountSent(n)
    /\ total_bytes_sent' = total_bytes_sent + n
    /\ IF total_msgs_sent' % CHECK_EVERY = 0 THEN LookAtClock ELSE UNCHANGED over
    /\ UNCHANGED <<program, running, pc, time_up, sent_in_time, i, copied,
                   total_connections, non_complete, link, arrived, lost, closes>>

Send ==
    /\ pc = "send" /\ program # PER /\ SendsAgain
    /\ pc' = "sending"
    /\ UNCHANGED <<program, running, timeVars, i, msgVars, totalVars, netVars>>

SendTakes ==
    /\ pc = "sending" /\ link \in {"up", "closed"}
    /\ copied < bytes_to_send /\ buffered < SNDBUF
    /\ copied' = copied + 1
    /\ buffered' = buffered + 1
    /\ UNCHANGED <<program, running, pc, timeVars, i, bytes_to_send, msgs_sent, totalVars,
                   link, arrived, lost, closes>>

(* All was taken, or a part of it when a signal came (the handler restarts *)
(* a call that has taken nothing) or the connection ended.                 *)
SendReturns ==
    /\ pc = "sending" /\ copied > 0
    /\ copied = bytes_to_send \/ ~running \/ link \in {"reset", "broken"}
    /\ CountSent(copied)
    /\ copied' = 0
    /\ pc' = "send"
    /\ UNCHANGED <<program, running, timeVars, i, total_bytes_sent, total_connections,
                   non_complete, netVars>>

(* Mutant: after any error send is tried again.                            *)
SendRetries ==
    /\ link \in {"reset", "broken"}
    /\ pc = "sending" /\ copied = 0
    /\ pc' = IF link = "reset" THEN "send" ELSE "killed"
    /\ UNCHANGED <<program, running, timeVars, i, msgVars, totalVars, netVars>>

(* The connection has ended: an error, or SIGPIPE, which nobody catches.   *)
SendFails ==
    /\ link \in {"reset", "broken"}
    /\ \/ pc = "send" /\ program = PER /\ SendsAgain
       \/ pc = "sending" /\ copied = 0
    /\ pc' = IF link = "reset" THEN "done" ELSE "killed"
    /\ UNCHANGED <<program, running, timeVars, i, msgVars, totalVars, netVars>>

LastSent ==
    /\ pc = "send" /\ ~SendsAgain
    /\ pc' = "done"
    /\ UNCHANGED <<program, running, timeVars, i, msgVars, totalVars, netVars>>

(* Mutant: a connection is complete unless the program was interrupted.    *)
CountUninterrupted ==
    IF running
    THEN total_connections' = total_connections + 1 /\ UNCHANGED non_complete
    ELSE non_complete' = non_complete + 1 /\ UNCHANGED total_connections

CountConnection ==
    IF msgs_sent = MSGS_PER_CONN
    THEN total_connections' = total_connections + 1 /\ UNCHANGED non_complete
    ELSE non_complete' = non_complete + 1 /\ UNCHANGED total_connections

(* close: what is buffered still arrives, but for non.c, where SO_LINGER   *)
(* with no time makes close discard it (144-147).                          *)
Close ==
    /\ pc = "done"
    /\ pc' = IF OneConnection THEN "exited" ELSE "start"
    /\ NextConnection
    /\ IF program = NON THEN CountConnection /\ LookAtClock
                        ELSE UNCHANGED <<total_connections, non_complete, over>>
    /\ IF program = NON \/ link # "up"
       THEN lost' = lost + buffered /\ UNCHANGED arrived
       ELSE arrived' = arrived + buffered /\ UNCHANGED lost
    /\ buffered' = 0
    /\ link' = "none"
    /\ UNCHANGED <<program, running, time_up, sent_in_time, msgVars, total_msgs_sent,
                   total_bytes_sent, closes>>

-----------------------------------------------------------------------------
(* The environment: the network, the server, the clock, a signal.          *)

Arrive ==
    /\ link = "up" /\ buffered > 0
    /\ buffered' = buffered - 1
    /\ arrived' = arrived + 1
    /\ UNCHANGED <<program, running, pc, timeVars, i, msgVars, totalVars, link, lost, closes>>

(* The server closes first. With unread data it resets the connection;     *)
ServerResets ==
    /\ link = "up" /\ closes < MaxCloses
    /\ closes' = closes + 1
    /\ link' = "reset"
    /\ lost' = lost + buffered /\ buffered' = 0
    /\ UNCHANGED <<program, running, pc, timeVars, i, msgVars, totalVars, arrived>>

(* else the client learns of it by the answer to what it sends next.       *)
ServerCloses ==
    /\ link = "up" /\ closes < MaxCloses
    /\ closes' = closes + 1
    /\ link' = "closed"
    /\ UNCHANGED <<program, running, pc, timeVars, i, msgVars, totalVars, buffered, arrived,
                   lost>>

ServerAnswers ==
    /\ link = "closed" /\ buffered > 0
    /\ link' = "broken"
    /\ lost' = lost + buffered /\ buffered' = 0
    /\ UNCHANGED <<program, running, pc, timeVars, i, msgVars, totalVars, arrived, closes>>

TimeIsUp ==
    /\ ~time_up
    /\ time_up' = TRUE
    /\ sent_in_time' = total_msgs_sent
    /\ UNCHANGED <<program, running, pc, over, i, msgVars, totalVars, netVars>>

Signal ==
    /\ program \in {PER, NON} /\ running
    /\ running' = FALSE
    /\ UNCHANGED <<program, pc, timeVars, i, msgVars, totalVars, netVars>>

-----------------------------------------------------------------------------

ClientStep ==
    \/ LoopTest \/ SocketFails \/ Connect \/ ConnectFails \/ Leave
    \/ \E n \in 1 .. BUFFER_SIZE : SendNow(n)
    \/ Send \/ SendTakes \/ SendReturns \/ SendFails \/ LastSent \/ Close

ServerStep == Arrive \/ ServerResets \/ ServerCloses \/ ServerAnswers

Next == ClientStep \/ ServerStep \/ TimeIsUp \/ Signal

Spec == Init /\ [][Next]_vars

-----------------------------------------------------------------------------

Programs == {PER, NON, PERSISTENT, FREQUENT}

(* The length given to send is that of the rest of the present message, at *)
(* least 1 and at most BUFFER_SIZE (non.c 117-127, per.c 108-119).         *)
TypeOK ==
    /\ program \in Programs
    /\ running \in BOOLEAN
    /\ pc \in {"start", "socket", "send", "sending", "done", "exited", "killed"}
    /\ time_up \in BOOLEAN /\ over \in BOOLEAN /\ sent_in_time \in Nat
    /\ i \in Nat
    /\ bytes_to_send \in 1 .. BUFFER_SIZE /\ copied \in 0 .. bytes_to_send
    /\ msgs_sent \in Nat
    /\ total_msgs_sent \in Nat /\ total_bytes_sent \in Nat
    /\ total_connections \in Nat /\ non_complete \in Nat
    /\ link \in {"none", "up", "closed", "reset", "broken"}
    /\ buffered \in 0 .. SNDBUF
    /\ arrived \in Nat /\ lost \in Nat /\ closes \in Nat

(* The stream is made of whole messages and a prefix of the next one,      *)
(* however send cuts them (per.c 109-119, non.c 117-127): what the counters*)
(* say was sent has arrived, is on its way, or was lost with the           *)
(* connection; of clientexp2.c as long as the connection lasts.            *)
Sent == msgs_sent * BUFFER_SIZE + (BUFFER_SIZE - bytes_to_send)

StreamIsWhole ==
    /\ program \in {PER, NON} \/ link \in {"up", "closed"} =>
         Sent + copied = arrived + buffered + lost
    /\ program = PER => total_bytes_sent = Sent

(* The totals of non.c (137-142, 161-167): every connection is counted     *)
(* once, and as complete only with all its messages; the messages that are *)
(* not of complete connections are fewer than msgs_per_conn for each of    *)
(* the others.                                                             *)
OfOpenConnection == IF pc \in {"send", "sending", "done"} THEN msgs_sent ELSE 0

ReportAddsUp ==
    program = NON /\ pc # "killed" =>
      LET rest == total_msgs_sent - OfOpenConnection - total_connections * MSGS_PER_CONN
      IN  0 <= rest /\ rest <= non_complete * (MSGS_PER_CONN - 1)

(* How far the run time is overrun, which per.c tests after every          *)
(* CHECK_EVERY messages (129) and non.c after every connection (90, 115).  *)
OverrunIsBounded ==
    /\ program = PER /\ time_up => total_msgs_sent <= sent_in_time + CHECK_EVERY
    /\ program = NON /\ time_up => total_msgs_sent <= sent_in_time + MSGS_PER_CONN

=============================================================================
