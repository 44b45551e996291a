-------------------------- MODULE MCExp2Experiment --------------------------
(***************************************************************************)
(* Experiment 2 as a whole: the two threads of clientexp2_time.c, which    *)
(* take turns, and serverexp2.c.  Thread t and connection t are one:       *)
(*   - connect puts the connection into the server's backlog, the thread's *)
(*     close is the end of its stream;                                     *)
(*   - what the thread has given to send arrives later, so that the two    *)
(*     connections may overtake each other;                                *)
(*   - once the server has closed its end, the client's connection is      *)
(*     reset.                                                              *)
(***************************************************************************)
EXTENDS Integers, Sequences, FiniteSets

CONSTANTS PACKETS, MaxFd, NoConn, BUFFER_SIZE, PACKET_SIZE, Signals,
          MaxFailures, MaxCount

TCP_CONN == 2
Conns == 1 .. TCP_CONN
PROGRAMS == {"clientexp2_time.c"}
NoneBefore == [c \in Conns |-> {}]

VARIABLES
    program, main, created, place, i, holder, current_conn, current_packet,
    global_packet_id, link, deadlines, spurious, log,
    peer, sent, inbox, backlog, owner, registered,
    running, pc, batch, count, active_clients, first_socket, second_socket, pick,
    reads, before, both, total_data_bytes, bytes, packets, failures

clientVars == <<program, main, created, place, i, holder, current_conn, current_packet,
                global_packet_id, link, deadlines, spurious, log>>
socketVars == <<peer, sent, inbox, backlog, owner, registered>>
ownVars == <<running, pc, batch, count, active_clients, first_socket, second_socket, pick,
             reads, before, both, total_data_bytes, bytes, packets, failures>>
serverVars == <<socketVars, ownVars>>
vars == <<clientVars, serverVars>>

Client == INSTANCE TurnClient WITH
    pc <- place, MAY_REFUSE <- {}, MAY_RESET <- Conns, MaxSpurious <- 0

Server == INSTANCE Exp2Server WITH
    Units <- [c \in Conns |-> PACKETS], Ended <- NoneBefore, Started <- NoneBefore,
    Outlasts <- NoneBefore

Init == Client!Init /\ Server!Init

-----------------------------------------------------------------------------
(* Steps of both: what a thread does to its connection.                    *)

Connect(t) == Client!Connect(t) /\ Server!Connect(t) /\ UNCHANGED ownVars

Close(t) == Client!Leave(t) /\ Server!Hangup(t) /\ UNCHANGED ownVars

(* The end of the process closes its sockets.                              *)
CloseAtEnd(t) ==
    /\ main = "killed"
    /\ Server!Hangup(t) /\ UNCHANGED ownVars
    /\ UNCHANGED clientVars

GivenToSend(t) == Cardinality({k \in DOMAIN log : log[k].conn = t /\ log[k].taken})

Arrive(t) ==
    /\ sent[t] < GivenToSend(t)
    /\ Server!Deliver(t) /\ UNCHANGED ownVars
    /\ UNCHANGED clientVars

ClosedByServer(t) == peer[t] = "open" /\ ~Server!Established(t)

Reset(t) == ClosedByServer(t) /\ Client!Reset(t) /\ UNCHANGED serverVars

ClientAlone ==
    /\ \/ Client!CreateThread \/ Client!JoinAll \/ Client!Expire
       \/ \E t \in Conns :
            \/ Client!StartPacket(t) \/ Client!Lock(t) \/ Client!Wait(t)
            \/ Client!TakeTurn(t) \/ Client!Send(t) \/ Client!BrokenPipe(t)
            \/ Client!PassTurn(t)
    /\ UNCHANGED serverVars

ServerAlone == (Server!ServerStep \/ Server!Signal) /\ UNCHANGED clientVars

Next ==
    \/ ClientAlone \/ ServerAlone
    \/ \E t \in Conns : Connect(t) \/ Close(t) \/ CloseAtEnd(t) \/ Arrive(t) \/ Reset(t)

Spec == Init /\ [][Next]_vars

-----------------------------------------------------------------------------
(* Both connections stay up until the client closes them: the experiment   *)
(* "established two TCP connections (Socket 1, Socket 2) and sent data     *)
(* packets in a strict round-robin fashion" (Rnd_Report.pdf, 4.1), and the *)
(* server prints "Receive failed" (471) only for a read that failed.       *)
BothStayConnected ==
    pc # "exited" => \A t \in Conns : ~ClosedByServer(t)

=============================================================================
