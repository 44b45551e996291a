----------------------------- MODULE Exp1Server -----------------------------
(***************************************************************************)
(* The servers of experiment 1: exp1/server_final.c, which looks for       *)
(* packets that were overtaken (server7.c is the same without the signal), *)
(* and exp1/server6.c, which logs every packet.  They share an edge-       *)
(* triggered epoll loop: a descriptor is reported once for what has        *)
(* arrived, and its handler calls recv once.                               *)
(*                                                                         *)
(* The clients send one line for each packet; recv may return any part of  *)
(* the stream, so that a line may come in pieces.  A place in the stream   *)
(* of a connection is the number of units before it: `start` and `end` are *)
(* the pointers of handle_connection as places in the stream.              *)
(*                                                                         *)
(* Left out: what is printed, also by the signal handler; calloc and       *)
(* EPOLL_CTL_ADD, whose results the code does not test, do not fail.  The  *)
(* descriptors are fewer than the entries of connections[], which is       *)
(* indexed by them without a test.                                         *)
(***************************************************************************)
EXTENDS SocketLayer

CONSTANTS
    PROGRAMS,            \* the servers to look at
    TCP_CONN,            \* connections of the client, which take turns
    LINE,                \* units in a line; all have the same length here
    BUFFER_SIZE,         \* in units
    MAX_OUT_OF_ORDER,    \* size of out_of_order
    MAX_CONNECTIONS,     \* size of connections
    MAX_EVENTS           \* events that one epoll_wait returns at most

FINAL == "server_final.c"
LOGS == "server6.c"

ASSUME Exp1Assumption ==
    /\ PROGRAMS \subseteq {FINAL, LOGS}
    /\ TCP_CONN \in Nat
    /\ Conns = 1 .. TCP_CONN
    /\ LINE \in Nat \ {0}
    /\ BUFFER_SIZE \in Nat /\ BUFFER_SIZE >= LINE
    /\ MAX_OUT_OF_ORDER \in Nat
    /\ MAX_CONNECTIONS \in Nat /\ MaxFd < MAX_CONNECTIONS
    /\ MAX_EVENTS \in Nat \ {0}

VARIABLES
    program,             \* the server that runs, one of PROGRAMS
    running,
    pc,                  \* "loop"; "wait": before or in epoll_wait; "accept": in the
                         \* accept loop; "lines": in handle_connection after recv;
                         \* "exited"
    batch,               \* events of this epoll_wait not handled yet
    edge,                \* descriptors that epoll is to report
    cutShort,            \* history: descriptors whose last handler did not get to the
                         \* end of what waited there, for a reason of its own
    conn,                \* the connection that handle_connection is called for
    start, end,
    buf_used,            \* server6.c: what of a line is kept for the next recv
    global_expected_seq,
    out_of_order,        \* out_of_order[0 .. out_of_order_count - 1]
    parsed,              \* history: the packet numbers read, in order
    packet_count,        \* server6.c only
    log                  \* server6.c: the lines written, each with its connection and
                         \* the place in the stream where it starts

pollVars == <<running, batch, edge, cutShort>>
lineVars == <<conn, start, end>>
orderVars == <<global_expected_seq, out_of_order, parsed>>
logVars == <<packet_count, log>>
vars == <<sockVars, program, pc, pollVars, lineVars, buf_used, orderVars, logVars>>

Init ==
    /\ SocketInit
    /\ program \in PROGRAMS
    /\ running = TRUE
    /\ pc = "loop"
    /\ batch = {} /\ edge = {} /\ cutShort = {}
    /\ conn = NoConn /\ start = 0 /\ end = 0
    /\ buf_used = [c \in Conns |-> 0]
    /\ global_expected_seq = 1
    /\ out_of_order = <<>>
    /\ parsed = <<>>
    /\ packet_count = [c \in Conns |-> 0]
    /\ log = <<>>

-----------------------------------------------------------------------------
(* Edge-triggered epoll: an arrival sets the edge of its descriptor,       *)
(* epoll_wait reports and clears those that are still ready.               *)

FdsOf(c) == {f \in FDs : owner[f] = c}

Clients(c) ==
    /\ pc # "exited"
    /\ \/ Connect(c) /\ edge' = edge \cup {ListenFd}
       \/ (Deliver(c) \/ Hangup(c)) /\ edge' = edge \cup FdsOf(c)
    /\ UNCHANGED <<program, pc, running, batch, cutShort, lineVars, buf_used, orderVars,
                   logVars>>

LoopTest ==
    /\ pc = "loop" /\ batch = {} /\ running
    /\ pc' = "wait"
    /\ UNCHANGED <<sockVars, program, pollVars, lineVars, buf_used, orderVars, logVars>>

(* At most MAX_EVENTS are reported; the others stay for the next time.     *)
EpollWait ==
    /\ pc = "wait"
    /\ pc' = "loop"
    /\ \E events \in SUBSET (edge \cap Ready) :
         /\ events # {} /\ Cardinality(events) <= MAX_EVENTS
         /\ events = edge \cap Ready \/ Cardinality(events) = MAX_EVENTS
         /\ batch' = events
         /\ edge' = (edge \cap Ready) \ events
    /\ UNCHANGED <<sockVars, program, running, cutShort, lineVars, buf_used, orderVars,
                   logVars>>

(* Nothing is ready for a second, or a signal interrupts epoll_wait;       *)
(* server6.c waits without a timeout.                                      *)
EpollReturnsNothing ==
    /\ pc = "wait" /\ program = FINAL
    /\ edge \cap Ready = {}
    /\ pc' = "loop"
    /\ UNCHANGED <<sockVars, program, pollVars, lineVars, buf_used, orderVars, logVars>>

Handle(e) == pc = "loop" /\ e \in batch /\ batch' = batch \ {e}

-----------------------------------------------------------------------------
(* An event of the listening descriptor: accept until accept fails.        *)

AcceptEvent ==
    /\ Handle(ListenFd)
    /\ pc' = "accept"
    /\ UNCHANGED <<sockVars, program, running, edge, cutShort, lineVars, buf_used, orderVars,
                   logVars>>

(* What EPOLL_CTL_ADD finds ready is reported too.                         *)
EdgeWhenAdded(c) ==
    IF inbox[c] > 0 \/ peer[c] = "gone" THEN {LowestFree} ELSE {}

CanAccept == backlog # <<>> /\ FreeFds # {}

(* Mutant: one accept for each event.                                      *)
AcceptOnce ==
    /\ pc = "accept" /\ CanAccept
    /\ AcceptAs(LowestFree, {LowestFree})
    /\ edge' = edge \cup EdgeWhenAdded(Head(backlog))
    /\ pc' = "loop"
    /\ UNCHANGED <<program, running, batch, cutShort, lineVars, buf_used, orderVars, logVars>>

Accept ==
    /\ pc = "accept" /\ CanAccept
    /\ AcceptAs(LowestFree, {LowestFree})
    /\ edge' = edge \cup EdgeWhenAdded(Head(backlog))
    /\ UNCHANGED <<program, pc, running, batch, cutShort, lineVars, buf_used, orderVars,
                   logVars>>

(* accept fails when nobody waits, or for lack of descriptors.             *)
AcceptFails ==
    /\ pc = "accept" /\ ~CanAccept
    /\ pc' = "loop"
    /\ cutShort' = IF FreeFds = {} THEN cutShort \cup {ListenFd} ELSE cutShort \ {ListenFd}
    /\ UNCHANGED <<sockVars, program, running, batch, edge, lineVars, buf_used, orderVars,
                   logVars>>

-----------------------------------------------------------------------------
(* Any other event is for connections[f], which is set for every           *)
(* descriptor that accept returns.  handle_connection: one recv, then one  *)
(* line after the other.                                                   *)

HandleData(f) == Handle(f) /\ f # ListenFd

HasRead(c) == sent[c] - inbox[c]

Room(c) == BUFFER_SIZE - buf_used[c]

(* Mutant: recv is given the length of a line.                             *)
ReceivedLine(c) == IF inbox[c] < LINE THEN inbox[c] ELSE LINE

Received(c) == IF inbox[c] < Room(c) THEN inbox[c] ELSE Room(c)

(* recv does not get to the end of what waits if that does not fit into    *)
(* the buffer, or if the end of the stream waits behind it.                *)
Receive(f) ==
    LET c == owner[f]
    IN  /\ HandleData(f) /\ HasData(f)
        /\ Take(f, Received(c))
        /\ conn' = c
        /\ start' = HasRead(c) - buf_used[c]
        /\ end' = HasRead(c) + Received(c)
        /\ cutShort' = IF inbox[c] > Room(c) \/ peer[c] = "gone"
                       THEN cutShort \cup {f} ELSE cutShort \ {f}
        /\ pc' = "lines"
        /\ UNCHANGED <<program, running, edge, buf_used, orderVars, logVars>>

ReceiveEnd(f) ==
    /\ HandleData(f) /\ RecvEnds(f)
    /\ CloseAndAdd({f}, {})
    /\ edge' = edge \ {f}
    /\ cutShort' = cutShort \ {f}
    /\ UNCHANGED <<program, pc, running, lineVars, buf_used, orderVars, logVars>>

AfterNewline == ((start \div LINE) + 1) * LINE     \* the place behind the next newline

LineComplete == pc = "lines" /\ AfterNewline <= end
IsWhole == start % LINE = 0                        \* else it is the tail of a line

(* The number in the line: the threads take turns, so that the k-th packet *)
(* of connection c follows k - 1 rounds and c - 1 packets of this one.     *)
packet_seq == (start \div LINE) * TCP_CONN + conn

ExpectNext == global_expected_seq' = packet_seq + 1

(* Mutant: the number that overtakes is recorded with those it overtook.   *)
GapInclusive == [k \in 1 .. packet_seq - global_expected_seq + 1 |-> global_expected_seq + k - 1]

Gap == [k \in 1 .. packet_seq - global_expected_seq |-> global_expected_seq + k - 1]

(* Mutant: the size of out_of_order is not tested.                         *)
RecordAll == out_of_order' = out_of_order \o Gap

(* As many of the gap's numbers as out_of_order has room for.              *)
RecordGap ==
    LET all == out_of_order \o Gap
    IN  out_of_order' = IF Len(all) <= MAX_OUT_OF_ORDER THEN all
                        ELSE SubSeq(all, 1, MAX_OUT_OF_ORDER)

LineExpected ==
    /\ LineComplete /\ program = FINAL /\ IsWhole
    /\ packet_seq = global_expected_seq
    /\ ExpectNext
    /\ parsed' = Append(parsed, packet_seq)
    /\ start' = AfterNewline
    /\ UNCHANGED <<sockVars, program, pc, pollVars, conn, end, buf_used, out_of_order,
                   logVars>>

LineOld ==
    /\ LineComplete /\ program = FINAL /\ IsWhole
    /\ packet_seq < global_expected_seq
    /\ parsed' = Append(parsed, packet_seq)
    /\ start' = AfterNewline
    /\ UNCHANGED <<sockVars, program, pc, pollVars, conn, end, buf_used,
                   global_expected_seq, out_of_order, logVars>>

LineOvertakes ==
    /\ LineComplete /\ program = FINAL /\ IsWhole
    /\ packet_seq > global_expected_seq
    /\ RecordGap
    /\ ExpectNext
    /\ parsed' = Append(parsed, packet_seq)
    /\ start' = AfterNewline
    /\ UNCHANGED <<sockVars, program, pc, pollVars, conn, end, buf_used, logVars>>

(* sscanf does not match the tail of a line.                               *)
TailIgnored ==
    /\ LineComplete /\ program = FINAL /\ ~IsWhole
    /\ start' = AfterNewline
    /\ UNCHANGED <<sockVars, program, pc, pollVars, conn, end, buf_used, orderVars, logVars>>

LineLogged ==
    /\ LineComplete /\ program = LOGS
    /\ packet_count' = [packet_count EXCEPT ![conn] = @ + 1]
    /\ log' = Append(log, [conn |-> conn, pkt |-> packet_count[conn] + 1, place |-> start])
    /\ start' = AfterNewline
    /\ UNCHANGED <<sockVars, program, pc, pollVars, conn, end, buf_used, orderVars>>

(* server6.c keeps the rest for the next recv, server_final.c drops it.    *)
KeepNothing == UNCHANGED buf_used

KeepRest == buf_used' = IF program = LOGS THEN [buf_used EXCEPT ![conn] = end - start]
                        ELSE buf_used

NoMoreLines ==
    /\ pc = "lines" /\ ~LineComplete
    /\ KeepRest
    /\ pc' = "loop"
    /\ UNCHANGED <<sockVars, program, pollVars, lineVars, orderVars, logVars>>

-----------------------------------------------------------------------------
(* SIGINT, which only server_final.c handles, and the end of main.         *)

Signal ==
    /\ program = FINAL /\ running /\ pc # "exited"
    /\ running' = FALSE
    /\ UNCHANGED <<sockVars, program, pc, batch, edge, cutShort, lineVars, buf_used,
                   orderVars, logVars>>

Exit ==
    /\ pc = "loop" /\ batch = {} /\ ~running
    /\ pc' = "exited"
    /\ CloseAndAdd(FDs, {})
    /\ UNCHANGED <<program, pollVars, lineVars, buf_used, orderVars, logVars>>

-----------------------------------------------------------------------------

LineStep ==
    \/ LineExpected \/ LineOld \/ LineOvertakes \/ TailIgnored \/ LineLogged
    \/ NoMoreLines

ServerStep ==
    \/ LoopTest \/ EpollWait \/ EpollReturnsNothing \/ AcceptEvent \/ Accept \/ AcceptFails \/ Exit
    \/ LineStep
    \/ \E f \in FDs : Receive(f) \/ ReceiveEnd(f)

Next == ServerStep \/ Signal \/ \E c \in Conns : Clients(c)

Spec == Init /\ [][Next]_vars

-----------------------------------------------------------------------------

(* out_of_order never outgrows its array, and no more than a part of a     *)
(* line is kept in a connection's buffer.                                  *)
TypeOK ==
    /\ SocketTypeOK
    /\ program \in {FINAL, LOGS}
    /\ running \in BOOLEAN
    /\ pc \in {"loop", "wait", "accept", "lines", "exited"}
    /\ batch \subseteq FDs \cup {ListenFd}
    /\ edge \subseteq FDs \cup {ListenFd} /\ cutShort \subseteq FDs \cup {ListenFd}
    /\ conn \in Conns \cup {NoConn}
    /\ start \in Nat /\ end \in Nat
    /\ buf_used \in [Conns -> 0 .. LINE - 1]
    /\ global_expected_seq \in Nat \ {0}
    /\ out_of_order \in Seq(Nat) /\ Len(out_of_order) <= MAX_OUT_OF_ORDER
    /\ parsed \in Seq(Nat)
    /\ packet_count \in [Conns -> Nat]
    /\ log \in Seq([conn : Conns, pkt : Nat, place : Nat])

(* The report of server_final.c (66-86), against its meaning: a packet is  *)
(* in time if no greater number was read before it; all other numbers up   *)
(* to the greatest one read are reported in order, each once, whether they *)
(* came later or were lost with a line in pieces; if there are too many,   *)
(* the first MAX_OUT_OF_ORDER of them.                                     *)
InTime == {parsed[k] : k \in {j \in DOMAIN parsed :
                                \A i \in 1 .. j - 1 : parsed[i] < parsed[j]}}
NotInTime == (1 .. global_expected_seq - 1) \ InTime
Reported == {out_of_order[k] : k \in DOMAIN out_of_order}

ReportsOvertaken ==
    /\ \A k \in DOMAIN parsed : parsed[k] < global_expected_seq
    /\ \A i, j \in DOMAIN out_of_order : i < j => out_of_order[i] < out_of_order[j]
    /\ Reported \subseteq NotInTime
    /\ \A n \in NotInTime \ Reported :
         /\ Len(out_of_order) = MAX_OUT_OF_ORDER
         /\ \A r \in Reported : r < n

(* server6.c (40-65) logs each connection's packets completely and in      *)
(* order, in whatever pieces the lines arrive: its k-th entry is the k-th  *)
(* line of the stream.                                                     *)
LogFollowsStream ==
    \A k \in DOMAIN log : log[k].place = (log[k].pkt - 1) * LINE

(* Whatever waits for the server, epoll will report, but for what a handler*)
(* itself left: a recv that filled the buffer or read data in front of the *)
(* end of the stream (37), an accept that found no descriptor (156). No    *)
(* arrival is forgotten between two handlers, in the rest of a batch, by   *)
(* EPOLL_CTL_ADD (169) or with the number of a closed descriptor.          *)
Waiting ==
    {f \in OpenFds : inbox[owner[f]] > 0 \/ peer[owner[f]] = "gone"}
        \cup {f \in {ListenFd} : backlog # <<>>}

BeingServed == batch \cup {f \in {ListenFd} : pc = "accept"}

NothingStranded == Waiting \subseteq edge \cup BeingServed \cup cutShort

=============================================================================
