----------------------------- MODULE Exp3Stats -----------------------------
(***************************************************************************)
(* What server_epx3.c counts while it serves, and what it reports.         *)
(*                                                                         *)
(* Every action of Exp3Server is taken together with the counting its      *)
(* handler does.  A data event is counted for the slot its descriptor is   *)
(* in.  While both slots are taken, an event of one connection followed by *)
(* an event of the other is a pair ("both"), credited to the one that came *)
(* first; `pick` remembers the first event of the pair.  The end of a      *)
(* non-persistent connection adds the current counters to temp_stats, and  *)
(* after every SUMMARY_INTERVAL connections temp_stats becomes a row of    *)
(* the report.                                                             *)
(*                                                                         *)
(* Left out: the ratios and throughputs, which the report computes from    *)
(* these counters, and the format of the report.                           *)
(***************************************************************************)
EXTENDS Exp3Server, Sums

CONSTANTS
    PACKET_SIZE,        \* in units
    SUMMARY_INTERVAL,   \* connections in a row of the report
    MAX_ROWS,           \* MAX_CONNECTIONS / SUMMARY_INTERVAL
    WORD,               \* unsigned long counts modulo WORD
    MaxClock            \* bound: the clock stops there

ASSUME StatsAssumption ==
    /\ PACKET_SIZE \in Nat \ {0}
    /\ SUMMARY_INTERVAL \in Nat \ {0}
    /\ MAX_ROWS \in Nat
    /\ WORD \in Nat \ {0}
    /\ MaxClock \in Nat

VARIABLES
    clock,              \* seconds since the server started
    conn2,              \* conn2_start and conn2_end
    conn2_started,
    conn2_duration,
    pick,               \* the descriptor of a pair's first event, or NoFd
    cur,                \* counters of the connection in the non-persistent slot
    all,                \* the all_... counters
    temp,               \* temp_stats
    rows,               \* stats_array[0 .. stats_count - 1]
    connection_count

statsVars == <<clock, conn2, conn2_started, conn2_duration, pick, cur, all, temp, rows,
               connection_count>>
vars == <<serverVars, statsVars>>

NoCounts == [p |-> 0, np |-> 0, both |-> 0, onlyP |-> 0, onlyNp |-> 0,
             perPackets |-> 0, nonperPackets |-> 0]

NoTotals == [p |-> 0, np |-> 0, both |-> 0, onlyP |-> 0, onlyNp |-> 0,
             perPackets |-> 0, nonperPackets |-> 0, perBytes |-> 0, nonperBytes |-> 0]

(* `conns` is not in the code: it counts the connections added to the row. *)
NoStats == [p |-> 0, np |-> 0, both |-> 0, onlyP |-> 0, onlyNp |-> 0,
            perPackets |-> 0, nonperPackets |-> 0, perBytes |-> 0, nonperBytes |-> 0,
            duration |-> 0, conns |-> 0]

Counts == [p : Nat, np : Nat, both : Nat, onlyP : Nat, onlyNp : Nat,
           perPackets : Nat, nonperPackets : Nat]
Totals == [p : Nat, np : Nat, both : Nat, onlyP : Nat, onlyNp : Nat,
           perPackets : Nat, nonperPackets : Nat, perBytes : Nat, nonperBytes : Nat]
Stats == [p : Nat, np : Nat, both : Nat, onlyP : Nat, onlyNp : Nat,
          perPackets : Nat, nonperPackets : Nat, perBytes : Nat, nonperBytes : Nat,
          duration : Int, conns : Nat]

StatsTypeOK ==
    /\ TypeOK
    /\ clock \in Nat
    /\ conn2 \in [start : Nat, end : Nat]
    /\ conn2_started \in BOOLEAN
    /\ conn2_duration \in Int
    /\ pick \in FDs \cup {NoFd}
    /\ cur \in Counts
    /\ all \in Totals
    /\ temp \in Stats
    /\ rows \in Seq(Stats)
    /\ Len(rows) <= MAX_ROWS
    /\ connection_count \in Nat

StatsInit ==
    /\ ServerInit
    /\ clock = 0
    /\ conn2 = [start |-> 0, end |-> 0]
    /\ conn2_started = FALSE
    /\ conn2_duration = 0
    /\ pick = NoFd
    /\ cur = NoCounts
    /\ all = NoTotals
    /\ temp = NoStats
    /\ rows = <<>>
    /\ connection_count = 0

-----------------------------------------------------------------------------
(* Counting one recv that returned n units.                                *)

Packets(n) == n \div PACKET_SIZE

(* Mutant: any second event completes a pair.                              *)
CompletesAnyPair(other) == BothActive /\ pick # NoFd /\ other # NoFd

(* Is this event the second of a pair whose first came from the other?     *)
CompletesPair(other) == BothActive /\ pick = other

(* -1 -> self -> -1 through an event of the other; else unchanged.         *)
NextPick(self, other) ==
    IF ~BothActive THEN pick
    ELSE IF pick = NoFd THEN self
    ELSE IF pick = other THEN NoFd ELSE pick

One(condition) == IF condition THEN 1 ELSE 0

(* Mutant: all_both is not counted up with the other two.                  *)
CountPersistentHalf(n) ==
    LET pair == One(CompletesPair(non_persistent_fd)) IN
    /\ cur' = [cur EXCEPT !.perPackets = @ + Packets(n), !.onlyP = @ + 1,
                          !.np = @ + pair, !.both = @ + pair]
    /\ all' = [all EXCEPT !.perPackets = @ + Packets(n), !.onlyP = @ + 1,
                          !.np = @ + pair, !.perBytes = @ + n]
    /\ pick' = NextPick(persistent_fd, non_persistent_fd)

CountPersistent(n) ==
    LET pair == One(CompletesPair(non_persistent_fd)) IN
    /\ cur' = [cur EXCEPT !.perPackets = @ + Packets(n), !.onlyP = @ + 1,
                          !.np = @ + pair, !.both = @ + pair]
    /\ all' = [all EXCEPT !.perPackets = @ + Packets(n), !.onlyP = @ + 1,
                          !.np = @ + pair, !.both = @ + pair, !.perBytes = @ + n]
    /\ pick' = NextPick(persistent_fd, non_persistent_fd)

(* Mutant: a packet's bytes are counted rather than what recv returned.    *)
CountNonPersistentWhole(n) ==
    LET pair == One(CompletesPair(persistent_fd)) IN
    /\ cur' = [cur EXCEPT !.nonperPackets = @ + Packets(n), !.onlyNp = @ + 1,
                          !.p = @ + pair, !.both = @ + pair]
    /\ all' = [all EXCEPT !.nonperPackets = @ + Packets(n), !.onlyNp = @ + 1,
                          !.p = @ + pair, !.both = @ + pair,
                          !.nonperBytes = @ + PACKET_SIZE]
    /\ pick' = NextPick(non_persistent_fd, persistent_fd)

CountNonPersistent(n) ==
    LET pair == One(CompletesPair(persistent_fd)) IN
    /\ cur' = [cur EXCEPT !.nonperPackets = @ + Packets(n), !.onlyNp = @ + 1,
                          !.p = @ + pair, !.both = @ + pair]
    /\ all' = [all EXCEPT !.nonperPackets = @ + Packets(n), !.onlyNp = @ + 1,
                          !.p = @ + pair, !.both = @ + pair, !.nonperBytes = @ + n]
    /\ pick' = NextPick(non_persistent_fd, persistent_fd)

(* A connection moved out of the persistent slot takes its counters along, *)
(* and its first data in the new place may be counted there too: n units   *)
(* in `events` (0 or 1) reads.                                             *)
CountMoved(n, events, inSlot) ==
    /\ cur' = [cur EXCEPT !.perPackets = 0, !.onlyNp = @ + events,
                          !.nonperPackets = (IF inSlot THEN cur.perPackets ELSE @) + Packets(n)]
    /\ all' = [all EXCEPT !.nonperPackets = @ + cur.perPackets + Packets(n),
                          !.onlyNp = @ + events,
                          !.nonperBytes = @ + per_bytes_read + n]
    /\ UNCHANGED pick

StampConn2 ==
    /\ conn2' = [start |-> IF conn2_started THEN conn2.start ELSE clock, end |-> clock]
    /\ conn2_started' = TRUE

-----------------------------------------------------------------------------
(* The end of a non-persistent connection.                                 *)

Wrapped(n) == n % WORD

(* temp_stats with the current connection added.                           *)
WithCurrent(duration) ==
    [temp EXCEPT !.p = @ + cur.p, !.np = @ + cur.np, !.both = @ + cur.both,
                 !.onlyP = Wrapped(@ + cur.onlyP - cur.both),
                 !.onlyNp = Wrapped(@ + cur.onlyNp - cur.both),
                 !.perPackets = @ + cur.perPackets,
                 !.nonperPackets = @ + cur.nonperPackets,
                 !.perBytes = @ + per_bytes_read,
                 !.nonperBytes = @ + nonper_bytes_read,
                 !.duration = @ + duration,
                 !.conns = @ + 1]

(* Mutant: the count is tested before this connection is counted.          *)
RowIsFullEarly(count) == (count - 1) % SUMMARY_INTERVAL = 0 /\ Len(rows) < MAX_ROWS

RowIsFull(count) == count % SUMMARY_INTERVAL = 0 /\ Len(rows) < MAX_ROWS

CountEnd ==
    LET duration == conn2.end - conn2.start
        stats == WithCurrent(duration)
        full == RowIsFull(connection_count + 1)
    IN  /\ conn2_duration' = conn2_duration + duration
        /\ connection_count' = connection_count + 1
        /\ rows' = IF full THEN Append(rows, stats) ELSE rows
        /\ temp' = IF full THEN NoStats ELSE stats
        /\ cur' = NoCounts
        /\ conn2_started' = FALSE
        /\ UNCHANGED <<clock, conn2, pick, all>>

(* After the loop: temp_stats becomes a last row if it is not empty, there *)
(* is room, and at least one pair was counted in it.                       *)
SaveRemaining ==
    /\ rows' = IF /\ connection_count % SUMMARY_INTERVAL # 0
                  /\ Len(rows) < MAX_ROWS
                  /\ temp.both > 0
               THEN Append(rows, temp) ELSE rows
    /\ UNCHANGED <<clock, conn2, conn2_started, conn2_duration, pick, cur, all, temp,
                   connection_count>>

-----------------------------------------------------------------------------
(* The actions of Exp3Server with what they count.                         *)

CountedSecond ==
    /\ Second
    /\ clock' = Older(clock, MaxClock)
    /\ UNCHANGED <<conn2, conn2_started, conn2_duration, pick, cur, all, temp, rows,
                   connection_count>>

CountedReap == ReapInactive /\ CountEnd

CountedClose(e) == CloseNonPersistent(e) /\ CountEnd

CountedPersistentData(e) ==
    /\ PersistentData(e)
    /\ CountPersistent(Received(e))
    /\ UNCHANGED <<clock, conn2, conn2_started, conn2_duration, temp, rows,
                   connection_count>>

CountedNonPersistentData(e) ==
    /\ NonPersistentData(e)
    /\ CountNonPersistent(Received(e))
    /\ StampConn2
    /\ UNCHANGED <<clock, conn2_duration, temp, rows, connection_count>>

CountedMoveToSlot(e) ==
    /\ MoveToSlot(e)
    /\ CountMoved(Received(e), 1, TRUE)
    /\ StampConn2
    /\ UNCHANGED <<clock, conn2_duration, temp, rows, connection_count>>

CountedMoveToQueue(e) ==
    /\ MoveToQueue(e)
    /\ \/ /\ e = non_persistent_fd
          /\ CountMoved(Received(e), 1, FALSE)
          /\ StampConn2
       \/ /\ e # non_persistent_fd
          /\ CountMoved(0, 0, FALSE)
          /\ UNCHANGED <<conn2, conn2_started>>
    /\ UNCHANGED <<clock, conn2_duration, temp, rows, connection_count>>

CountedExit == Exit /\ SaveRemaining

(* Steps that count nothing.                                               *)
Uncounted ==
    /\ \/ LoopTest \/ TimeoutStop \/ Collect \/ AcceptStep \/ Signal
       \/ \E e \in FDs : \/ RejectMisidentified(e) \/ UnclaimedData(e) \/ SpuriousEvent(e)
                         \/ ClosePersistent(e) \/ CloseOther(e)
       \/ \E c \in Conns : ClientStep(c)
    /\ UNCHANGED statsVars

CountedData(e) ==
    \/ CountedPersistentData(e) \/ CountedNonPersistentData(e)
    \/ CountedMoveToSlot(e) \/ CountedMoveToQueue(e)

Next ==
    \/ CountedSecond \/ CountedReap \/ CountedExit \/ Uncounted
    \/ \E e \in FDs : CountedClose(e) \/ CountedData(e)

Spec == StatsInit /\ [][Next]_vars

-----------------------------------------------------------------------------
(* Every pair is credited to exactly one side, in each of the four places  *)
(* that keep the three counters (lines 463-469, 487-493, 302-304, 319).    *)
SplitsPairs(counters) == counters.p + counters.np = counters.both
PairsAreSplit ==
    /\ SplitsPairs(cur) /\ SplitsPairs(all) /\ SplitsPairs(temp)
    /\ \A i \in DOMAIN rows : SplitsPairs(rows[i])

(* Every unit that recv returned is counted once, and under the client     *)
(* that sent it (lines 454-455, 478-479), as long as each connection stays *)
(* in the slot that accept gave it: one that is moved (411-450) takes what *)
(* its slot had counted along to the other side (419).                     *)
ReadFrom(kind) ==
    LET cs == {c \in Conns : Kind[c] = kind}
    IN  SumOver(cs, [c \in cs |-> sent[c] - inbox[c]])
BytesFollowTheSender ==
    pc # "exited" => /\ all.perBytes = ReadFrom("P")
                     /\ all.nonperBytes = ReadFrom("N")

(* What the report's overall part counts is what its rows, temp_stats and  *)
(* the current connection count together (lines 302-311, 318-321).         *)
InRows(field) == SumOf([i \in DOMAIN rows |-> rows[i][field]])
InReport(field) == InRows(field) + temp[field]
RowsAddUp ==
    pc # "exited" =>
        /\ \A field \in {"p", "np", "both", "perPackets", "nonperPackets"} :
                InReport(field) + cur[field] = all[field]
        /\ InReport("perBytes") + per_bytes_read = all.perBytes
        /\ InReport("nonperBytes") + nonper_bytes_read = all.nonperBytes

(* A row is printed as "Summary for Connections start+1 to end", and its   *)
(* averages divide by end - start (lines 111-113, 142-146): that is the    *)
(* number of connections whose counters it holds.                          *)
LabelEnd(i) == IF i * SUMMARY_INTERVAL > connection_count
               THEN connection_count ELSE i * SUMMARY_INTERVAL
RowsMatchLabels ==
    \A i \in DOMAIN rows : rows[i].conns = LabelEnd(i) - (i - 1) * SUMMARY_INTERVAL

(* A pair consumes one event of each side, so the differences of lines     *)
(* 155-156, of the totals over all connections, cannot wrap.  (Those of    *)
(* one connection, lines 305-306 and 515-516, do.)                         *)
PairsWithinEvents == all.both <= all.onlyP /\ all.both <= all.onlyNp

=============================================================================
