-------------------------- MODULE Exp3StatsProofs --------------------------
(***************************************************************************)
(* Theorems about what server_epx3.c counts: counting changes nothing of   *)
(* what the server does, so that what Exp3ServerProofs proves holds here   *)
(* too; the counters are well typed; and pairs are split in every report,  *)
(* for any clients, limits and sizes.                                      *)
(***************************************************************************)
EXTENDS Exp3Stats, Exp3ServerProofs

-----------------------------------------------------------------------------
(* Each counted action is an action of the server.                         *)

LEMMA CountedIsServerStep == [Next]_vars => [ServerNext]_serverVars
<1> SUFFICES ASSUME [Next]_vars PROVE [ServerNext]_serverVars
  OBVIOUS
<1>1. CASE CountedSecond
  BY <1>1 DEF CountedSecond, ServerNext, ServerStep, WaitStep
<1>2. CASE CountedReap
  BY <1>2 DEF CountedReap, ServerNext, ServerStep, WaitStep
<1>3. CASE CountedExit
  BY <1>3 DEF CountedExit, ServerNext, ServerStep
<1>4. CASE Uncounted
  BY <1>4 DEF Uncounted, ServerNext, ServerStep, WaitStep, EventStep
<1>5. ASSUME NEW e \in FDs, CountedClose(e) \/ CountedData(e)
      PROVE  ServerNext
  BY <1>5 DEF CountedClose, CountedData, CountedPersistentData, CountedNonPersistentData,
              CountedMoveToSlot, CountedMoveToQueue, ServerNext, ServerStep, EventStep
<1>6. CASE UNCHANGED vars
  BY <1>6 DEF vars
<1> QED
  BY <1>1, <1>2, <1>3, <1>4, <1>5, <1>6 DEF Next

(* Each counted action contains an action of the connection layer, whose   *)
(* theorems therefore hold of the whole server.                            *)
LEMMA StatsImplementServer == Spec => ServerSpec
<1>1. StatsInit => ServerInit
  BY DEF StatsInit
<1> QED
  BY <1>1, CountedIsServerStep, PTL DEF Spec, ServerSpec

-----------------------------------------------------------------------------
(* Type correctness of the counters.                                       *)

CountersOK ==
    /\ clock \in Nat
    /\ conn2 \in [start : Nat, end : Nat]
    /\ conn2_started \in BOOLEAN
    /\ conn2_duration \in Int
    /\ pick \in FDs \cup {NoFd}
    /\ cur \in Counts
    /\ all \in Totals
    /\ temp \in Stats
    /\ rows \in Seq(Stats)
    /\ Len(rows) <= MAX_ROWS
    /\ connection_count \in Nat

(* The sizes the counting depends on are numbers.                          *)
LEMMA SizesAreNat ==
    /\ PACKET_SIZE \in Nat \ {0} /\ SUMMARY_INTERVAL \in Nat \ {0}
    /\ MAX_ROWS \in Nat /\ WORD \in Nat \ {0} /\ MaxClock \in Nat
BY StatsAssumption

(* The counters before the loop, and those of a new connection or row.     *)
LEMMA ZeroTyped == NoCounts \in Counts /\ NoTotals \in Totals /\ NoStats \in Stats
BY DEF NoCounts, NoTotals, NoStats, Counts, Totals, Stats

(* The counters before the loop are well typed.                            *)
LEMMA StatsInitTyped == StatsInit => CountersOK
<1> SUFFICES ASSUME StatsInit PROVE CountersOK
  OBVIOUS
<1>1. rows \in Seq(Stats) /\ Len(rows) <= MAX_ROWS
  BY SizesAreNat DEF StatsInit
<1>2. clock \in Nat /\ conn2 \in [start : Nat, end : Nat] /\ conn2_duration \in Int
      /\ connection_count \in Nat
  BY DEF StatsInit
<1>3. pick \in FDs \cup {NoFd} /\ conn2_started \in BOOLEAN
  BY DEF StatsInit
<1> QED
  BY <1>1, <1>2, <1>3, ZeroTyped DEF StatsInit, CountersOK

(* Counting a read of n units.                                             *)
LEMMA CountTyped ==
    ASSUME TypeOK, CountersOK, NEW n \in Nat,
           \/ CountPersistent(n) \/ CountNonPersistent(n)
    PROVE  /\ cur' \in Counts /\ all' \in Totals /\ pick' \in FDs \cup {NoFd}
           /\ SplitsPairs(cur) => SplitsPairs(cur')
           /\ SplitsPairs(all) => SplitsPairs(all')
<1>1. Packets(n) \in Nat
  BY SizesAreNat DEF Packets
<1>2. \A b : One(b) \in Nat
  BY DEF One
<1>3. cur \in Counts /\ all \in Totals
  BY DEF CountersOK
<1>4. pick' \in FDs \cup {NoFd}
  BY DEF CountPersistent, CountNonPersistent, NextPick, CountersOK, TypeOK
<1>5. CASE CountPersistent(n)
  <2> DEFINE pair == One(CompletesPair(non_persistent_fd))
             more == Packets(n)
  <2>1. pair \in Nat /\ more \in Nat
    BY <1>1, <1>2
  <2>2. cur' = [cur EXCEPT !.perPackets = @ + more, !.onlyP = @ + 1,
                           !.np = @ + pair, !.both = @ + pair]
    BY <1>5 DEF CountPersistent
  <2>3. all' = [all EXCEPT !.perPackets = @ + more, !.onlyP = @ + 1,
                           !.np = @ + pair, !.both = @ + pair, !.perBytes = @ + n]
    BY <1>5 DEF CountPersistent
  <2> HIDE DEF pair, more
  <2>4. /\ cur'.p = cur.p /\ cur'.np = cur.np + pair
        /\ cur'.both = cur.both + pair /\ cur'.onlyP = cur.onlyP + 1
        /\ cur'.onlyNp = cur.onlyNp /\ cur'.perPackets = cur.perPackets + more
        /\ cur'.nonperPackets = cur.nonperPackets
    BY <1>3, <2>2 DEF Counts
  <2>5. cur' = [p |-> cur'.p, np |-> cur'.np, both |-> cur'.both,
                onlyP |-> cur'.onlyP, onlyNp |-> cur'.onlyNp,
                perPackets |-> cur'.perPackets,
                nonperPackets |-> cur'.nonperPackets]
    BY <1>3, <2>2 DEF Counts
  <2>6. /\ all'.p = all.p /\ all'.np = all.np + pair
        /\ all'.both = all.both + pair /\ all'.onlyP = all.onlyP + 1
        /\ all'.onlyNp = all.onlyNp /\ all'.perPackets = all.perPackets + more
        /\ all'.nonperPackets = all.nonperPackets
        /\ all'.perBytes = all.perBytes + n
        /\ all'.nonperBytes = all.nonperBytes
    BY <1>3, <2>3 DEF Totals
  <2>7. all' = [p |-> all'.p, np |-> all'.np, both |-> all'.both,
                onlyP |-> all'.onlyP, onlyNp |-> all'.onlyNp,
                perPackets |-> all'.perPackets,
                nonperPackets |-> all'.nonperPackets,
                perBytes |-> all'.perBytes, nonperBytes |-> all'.nonperBytes]
    BY <1>3, <2>3 DEF Totals
  <2>8. cur' \in Counts
    BY <1>3, <2>1, <2>4, <2>5 DEF Counts
  <2>9. all' \in Totals
    BY <1>3, <2>1, <2>6, <2>7 DEF Totals
  <2>10. SplitsPairs(cur) => SplitsPairs(cur')
    BY <1>3, <2>1, <2>4 DEF Counts, SplitsPairs
  <2>11. SplitsPairs(all) => SplitsPairs(all')
    BY <1>3, <2>1, <2>6 DEF Totals, SplitsPairs
  <2> QED
    BY <1>4, <2>8, <2>9, <2>10, <2>11
<1>6. CASE CountNonPersistent(n)
  <2> DEFINE pair == One(CompletesPair(persistent_fd))
             more == Packets(n)
  <2>1. pair \in Nat /\ more \in Nat
    BY <1>1, <1>2
  <2>2. cur' = [cur EXCEPT !.nonperPackets = @ + more, !.onlyNp = @ + 1,
                           !.p = @ + pair, !.both = @ + pair]
    BY <1>6 DEF CountNonPersistent
  <2>3. all' = [all EXCEPT !.nonperPackets = @ + more, !.onlyNp = @ + 1,
                           !.p = @ + pair, !.both = @ + pair, !.nonperBytes = @ + n]
    BY <1>6 DEF CountNonPersistent
  <2> HIDE DEF pair, more
  <2>4. /\ cur'.p = cur.p + pair /\ cur'.np = cur.np
        /\ cur'.both = cur.both + pair /\ cur'.onlyP = cur.onlyP
        /\ cur'.onlyNp = cur.onlyNp + 1 /\ cur'.perPackets = cur.perPackets
        /\ cur'.nonperPackets = cur.nonperPackets + more
    BY <1>3, <2>2 DEF Counts
  <2>5. cur' = [p |-> cur'.p, np |-> cur'.np, both |-> cur'.both,
                onlyP |-> cur'.onlyP, onlyNp |-> cur'.onlyNp,
                perPackets |-> cur'.perPackets,
                nonperPackets |-> cur'.nonperPackets]
    BY <1>3, <2>2 DEF Counts
  <2>6. /\ all'.p = all.p + pair /\ all'.np = all.np
        /\ all'.both = all.both + pair /\ all'.onlyP = all.onlyP
        /\ all'.onlyNp = all.onlyNp + 1 /\ all'.perPackets = all.perPackets
        /\ all'.nonperPackets = all.nonperPackets + more
        /\ all'.perBytes = all.perBytes
        /\ all'.nonperBytes = all.nonperBytes + n
    BY <1>3, <2>3 DEF Totals
  <2>7. all' = [p |-> all'.p, np |-> all'.np, both |-> all'.both,
                onlyP |-> all'.onlyP, onlyNp |-> all'.onlyNp,
                perPackets |-> all'.perPackets,
                nonperPackets |-> all'.nonperPackets,
                perBytes |-> all'.perBytes, nonperBytes |-> all'.nonperBytes]
    BY <1>3, <2>3 DEF Totals
  <2>8. cur' \in Counts
    BY <1>3, <2>1, <2>4, <2>5 DEF Counts
  <2>9. all' \in Totals
    BY <1>3, <2>1, <2>6, <2>7 DEF Totals
  <2>10. SplitsPairs(cur) => SplitsPairs(cur')
    BY <1>3, <2>1, <2>4 DEF Counts, SplitsPairs
  <2>11. SplitsPairs(all) => SplitsPairs(all')
    BY <1>3, <2>1, <2>6 DEF Totals, SplitsPairs
  <2> QED
    BY <1>4, <2>8, <2>9, <2>10, <2>11
<1> QED
  BY <1>5, <1>6


(* Counting a connection that moves out of the persistent slot.            *)
LEMMA MoveTyped ==
    ASSUME TypeOK, CountersOK, NEW n \in Nat, NEW events \in Nat,
           NEW inSlot \in BOOLEAN, CountMoved(n, events, inSlot)
    PROVE  /\ cur' \in Counts /\ all' \in Totals /\ pick' \in FDs \cup {NoFd}
           /\ SplitsPairs(cur) => SplitsPairs(cur')
           /\ SplitsPairs(all) => SplitsPairs(all')
<1> DEFINE more == Packets(n)
           packets == (IF inSlot THEN cur.perPackets ELSE cur.nonperPackets) + more
<1>1. cur \in Counts /\ all \in Totals /\ per_bytes_read \in Nat /\ more \in Nat
  BY SizesAreNat DEF Packets, CountersOK, TypeOK
<1>2. packets \in Nat
  BY <1>1 DEF Counts
<1>3. cur' = [cur EXCEPT !.perPackets = 0, !.onlyNp = @ + events, !.nonperPackets = packets]
  BY <1>1 DEF CountMoved, Counts
<1>4. all' = [all EXCEPT !.nonperPackets = @ + cur.perPackets + more, !.onlyNp = @ + events,
                         !.nonperBytes = @ + per_bytes_read + n]
  BY DEF CountMoved
<1> HIDE DEF more, packets
<1>5. /\ cur'.p = cur.p /\ cur'.np = cur.np /\ cur'.both = cur.both
      /\ cur'.onlyP = cur.onlyP /\ cur'.onlyNp = cur.onlyNp + events
      /\ cur'.perPackets = 0 /\ cur'.nonperPackets = packets
  BY <1>1, <1>3 DEF Counts
<1>6. cur' = [p |-> cur'.p, np |-> cur'.np, both |-> cur'.both,
              onlyP |-> cur'.onlyP, onlyNp |-> cur'.onlyNp,
              perPackets |-> cur'.perPackets,
              nonperPackets |-> cur'.nonperPackets]
  BY <1>1, <1>3 DEF Counts
<1>7. /\ all'.p = all.p /\ all'.np = all.np /\ all'.both = all.both
      /\ all'.onlyP = all.onlyP /\ all'.onlyNp = all.onlyNp + events
      /\ all'.perPackets = all.perPackets
      /\ all'.nonperPackets = all.nonperPackets + cur.perPackets + more
      /\ all'.perBytes = all.perBytes
      /\ all'.nonperBytes = all.nonperBytes + per_bytes_read + n
  BY <1>1, <1>4 DEF Totals
<1>8. all' = [p |-> all'.p, np |-> all'.np, both |-> all'.both,
              onlyP |-> all'.onlyP, onlyNp |-> all'.onlyNp,
              perPackets |-> all'.perPackets,
              nonperPackets |-> all'.nonperPackets, perBytes |-> all'.perBytes,
              nonperBytes |-> all'.nonperBytes]
  BY <1>1, <1>4 DEF Totals
<1>9. cur' \in Counts /\ (SplitsPairs(cur) => SplitsPairs(cur'))
  BY <1>1, <1>2, <1>5, <1>6 DEF Counts, SplitsPairs
<1>10. all' \in Totals /\ (SplitsPairs(all) => SplitsPairs(all'))
  <2>1. cur.perPackets \in Nat
    BY <1>1 DEF Counts
  <2> QED
    BY <1>1, <1>7, <1>8, <2>1 DEF Totals, SplitsPairs
<1> QED
  BY <1>9, <1>10 DEF CountMoved, CountersOK

(* Adding the current connection to temp_stats.                            *)
LEMMA WithCurrentTyped ==
    ASSUME TypeOK, CountersOK, NEW duration \in Int
    PROVE  /\ WithCurrent(duration) \in Stats
           /\ SplitsPairs(cur) /\ SplitsPairs(temp) => SplitsPairs(WithCurrent(duration))
<1> DEFINE new == WithCurrent(duration)
           onlyP == Wrapped(temp.onlyP + cur.onlyP - cur.both)
           onlyNp == Wrapped(temp.onlyNp + cur.onlyNp - cur.both)
<1>1. cur \in Counts /\ temp \in Stats /\ per_bytes_read \in Nat /\ nonper_bytes_read \in Nat
  BY DEF CountersOK, TypeOK
<1>2. onlyP \in Nat /\ onlyNp \in Nat
  <2>1. \A i \in Int : i % WORD \in Nat
    BY SizesAreNat
  <2> QED
    BY <1>1, <2>1 DEF Wrapped, Counts, Stats
<1>3. new = [temp EXCEPT !.p = @ + cur.p, !.np = @ + cur.np, !.both = @ + cur.both,
                         !.onlyP = onlyP, !.onlyNp = onlyNp,
                         !.perPackets = @ + cur.perPackets,
                         !.nonperPackets = @ + cur.nonperPackets,
                         !.perBytes = @ + per_bytes_read,
                         !.nonperBytes = @ + nonper_bytes_read,
                         !.duration = @ + duration, !.conns = @ + 1]
  BY <1>1 DEF WithCurrent, Stats
<1> HIDE DEF onlyP, onlyNp, new
<1>4. /\ new.p = temp.p + cur.p /\ new.np = temp.np + cur.np
      /\ new.both = temp.both + cur.both /\ new.onlyP = onlyP
      /\ new.onlyNp = onlyNp
      /\ new.perPackets = temp.perPackets + cur.perPackets
      /\ new.nonperPackets = temp.nonperPackets + cur.nonperPackets
      /\ new.perBytes = temp.perBytes + per_bytes_read
      /\ new.nonperBytes = temp.nonperBytes + nonper_bytes_read
      /\ new.duration = temp.duration + duration /\ new.conns = temp.conns + 1
  BY <1>1, <1>3 DEF Stats
<1>5. new = [p |-> new.p, np |-> new.np, both |-> new.both,
             onlyP |-> new.onlyP, onlyNp |-> new.onlyNp,
             perPackets |-> new.perPackets,
             nonperPackets |-> new.nonperPackets, perBytes |-> new.perBytes,
             nonperBytes |-> new.nonperBytes, duration |-> new.duration,
             conns |-> new.conns]
  BY <1>1, <1>3 DEF Stats
<1>6. cur.p \in Nat /\ cur.np \in Nat /\ cur.both \in Nat /\ cur.perPackets \in Nat
      /\ cur.nonperPackets \in Nat
  BY <1>1 DEF Counts
<1>7. temp.p \in Nat /\ temp.np \in Nat /\ temp.both \in Nat /\ temp.perPackets \in Nat
      /\ temp.nonperPackets \in Nat /\ temp.perBytes \in Nat /\ temp.nonperBytes \in Nat
      /\ temp.duration \in Int /\ temp.conns \in Nat
  BY <1>1 DEF Stats
<1>8. new \in Stats
  BY <1>1, <1>2, <1>4, <1>5, <1>6, <1>7 DEF Stats
<1>9. SplitsPairs(cur) /\ SplitsPairs(temp) => SplitsPairs(new)
  BY <1>4, <1>6, <1>7 DEF SplitsPairs
<1> QED
  BY <1>8, <1>9 DEF new


(* A row joins the report at its end, while there is room.                 *)
LEMMA RowTyped ==
    ASSUME CountersOK, NEW row \in Stats, NEW new,
           new = Append(rows, row), Len(rows) < MAX_ROWS
    PROVE  /\ new \in Seq(Stats) /\ Len(new) <= MAX_ROWS
           /\ (\A i \in DOMAIN rows : SplitsPairs(rows[i])) /\ SplitsPairs(row)
                    => \A i \in DOMAIN new : SplitsPairs(new[i])
<1>1. Len(rows) \in Nat /\ DOMAIN rows = 1 .. Len(rows)
  BY LenProperties DEF CountersOK
<1>2. /\ new \in Seq(Stats) /\ Len(new) = Len(rows) + 1
      /\ \A i \in 1 .. Len(rows) : new[i] = rows[i]
      /\ new[Len(rows) + 1] = row
  BY AppendProperties DEF CountersOK
<1>3. DOMAIN new = 1 .. Len(rows) + 1
  BY <1>2, LenProperties
<1>4. \A i \in DOMAIN new : i \in DOMAIN rows \/ i = Len(rows) + 1
  BY <1>1, <1>3
<1>5. ASSUME \A i \in DOMAIN rows : SplitsPairs(rows[i]), SplitsPairs(row), NEW i \in DOMAIN new
      PROVE  SplitsPairs(new[i])
  <2>1. CASE i \in DOMAIN rows
    BY <1>1, <1>2, <1>5, <2>1
  <2>2. CASE i = Len(rows) + 1
    BY <1>2, <1>5, <2>2
  <2> QED
    BY <1>4, <2>1, <2>2
<1>6. Len(new) <= MAX_ROWS
  BY <1>1, <1>2, SizesAreNat
<1> QED
  BY <1>2, <1>5, <1>6

(* The end of a non-persistent connection.                                 *)
LEMMA CountEndTyped ==
    ASSUME TypeOK, CountersOK, PairsAreSplit, CountEnd
    PROVE  CountersOK' /\ PairsAreSplit'
<1> DEFINE duration == conn2.end - conn2.start
           stats == WithCurrent(duration)
           full == RowIsFull(connection_count + 1)
<1>1. duration \in Int
  BY DEF CountersOK
<1>2. stats \in Stats /\ SplitsPairs(stats)
  BY <1>1, WithCurrentTyped DEF PairsAreSplit
<1>3. /\ conn2_duration' = conn2_duration + duration
      /\ connection_count' = connection_count + 1
      /\ rows' = IF full THEN Append(rows, stats) ELSE rows
      /\ temp' = IF full THEN NoStats ELSE stats
      /\ cur' = NoCounts
      /\ conn2_started' = FALSE
      /\ UNCHANGED <<clock, conn2, pick, all>>
  BY DEF CountEnd
<1>4. full => Len(rows) < MAX_ROWS
  BY DEF RowIsFull
<1> HIDE DEF duration, stats, full
<1>5. SplitsPairs(NoCounts) /\ SplitsPairs(NoStats)
  BY DEF SplitsPairs, NoCounts, NoStats
<1>6. rows' \in Seq(Stats) /\ Len(rows') <= MAX_ROWS
      /\ \A i \in DOMAIN rows' : SplitsPairs(rows'[i])
  <2>1. CASE full
    BY <1>2, <1>3, <1>4, <2>1, RowTyped DEF PairsAreSplit
  <2>2. CASE ~full
    BY <1>3, <2>2 DEF CountersOK, PairsAreSplit
  <2> QED
    BY <2>1, <2>2
<1>7. temp' \in Stats /\ SplitsPairs(temp')
  BY <1>2, <1>3, <1>5, ZeroTyped
<1>8. cur' \in Counts /\ SplitsPairs(cur')
  BY <1>3, <1>5, ZeroTyped
<1>9. conn2_duration' \in Int /\ connection_count' \in Nat
  BY <1>1, <1>3 DEF CountersOK
<1>10. conn2_started' \in BOOLEAN
  BY <1>3
<1>11. SplitsPairs(all')
  BY <1>3 DEF PairsAreSplit
<1>12. CountersOK'
  BY <1>3, <1>6, <1>7, <1>8, <1>9, <1>10 DEF CountersOK
<1> QED
  BY <1>6, <1>7, <1>8, <1>11, <1>12 DEF PairsAreSplit

(* A read that is counted.                                                 *)
LEMMA CountDataTyped ==
    ASSUME TypeOK, CountersOK, PairsAreSplit, NEW e \in FDs, CountedData(e)
    PROVE  CountersOK' /\ PairsAreSplit'
<1>1. DataEvent(e)
  BY DEF CountedData, CountedPersistentData, CountedNonPersistentData, CountedMoveToSlot,
         CountedMoveToQueue, PersistentData, NonPersistentData, MoveToSlot, MoveToQueue
<1>2. Received(e) \in Nat
  BY <1>1, DataTyped
<1>3. /\ cur' \in Counts /\ all' \in Totals /\ pick' \in FDs \cup {NoFd}
      /\ SplitsPairs(cur') /\ SplitsPairs(all')
  <2>1. CASE CountPersistent(Received(e)) \/ CountNonPersistent(Received(e))
    BY <1>2, <2>1, CountTyped DEF PairsAreSplit
  <2>2. CASE CountMoved(Received(e), 1, TRUE) \/ CountMoved(Received(e), 1, FALSE)
             \/ CountMoved(0, 0, FALSE)
    BY <1>2, <2>2, MoveTyped DEF PairsAreSplit
  <2> QED
    BY <2>1, <2>2 DEF CountedData, CountedPersistentData, CountedNonPersistentData,
                      CountedMoveToSlot, CountedMoveToQueue
<1>4. UNCHANGED <<clock, conn2_duration, temp, rows, connection_count>>
  BY DEF CountedData, CountedPersistentData, CountedNonPersistentData, CountedMoveToSlot,
         CountedMoveToQueue
<1>5. StampConn2 \/ UNCHANGED <<conn2, conn2_started>>
  BY DEF CountedData, CountedPersistentData, CountedNonPersistentData, CountedMoveToSlot,
         CountedMoveToQueue
<1>6. conn2' \in [start : Nat, end : Nat] /\ conn2_started' \in BOOLEAN
  <2>1. CASE UNCHANGED <<conn2, conn2_started>>
    BY <2>1 DEF CountersOK
  <2>2. CASE StampConn2
    <3>1. conn2' \in [start : Nat, end : Nat]
      BY <2>2 DEF StampConn2, CountersOK
    <3>2. conn2_started' \in BOOLEAN
      BY <2>2 DEF StampConn2
    <3> QED
      BY <3>1, <3>2
  <2> QED
    BY <1>5, <2>1, <2>2
<1> QED
  BY <1>3, <1>4, <1>6 DEF CountersOK, PairsAreSplit

(* What holds of the server and its counters in every state.               *)
StatsInv == TypeInv /\ CountersOK /\ PairsAreSplit

(* Every step keeps what StatsInv says.                                    *)
LEMMA StatsStep == StatsInv /\ [Next]_vars => StatsInv'
<1> SUFFICES ASSUME StatsInv, [Next]_vars PROVE StatsInv'
  OBVIOUS
<1>1. TypeInv'
  BY CountedIsServerStep, StepTyped DEF StatsInv
<1>2. TypeOK /\ CountersOK /\ PairsAreSplit
  BY DEF StatsInv, TypeInv
<1>3. CASE UNCHANGED statsVars
  BY <1>1, <1>2, <1>3 DEF statsVars, StatsInv, CountersOK, PairsAreSplit
<1>4. CASE CountedSecond
  <2>1. clock' \in Nat
    BY <1>2, <1>4, SizesAreNat DEF CountedSecond, Older, CountersOK
  <2> QED
    BY <1>1, <1>2, <1>4, <2>1 DEF CountedSecond, StatsInv, CountersOK, PairsAreSplit
<1>5. ASSUME NEW e \in FDs, CountedReap \/ CountedClose(e) PROVE StatsInv'
  BY <1>1, <1>2, <1>5, CountEndTyped DEF CountedReap, CountedClose, StatsInv
<1>6. CASE CountedReap
  BY <1>1, <1>2, <1>6, CountEndTyped DEF CountedReap, StatsInv
<1>7. ASSUME NEW e \in FDs, CountedData(e) PROVE StatsInv'
  BY <1>1, <1>2, <1>7, CountDataTyped DEF StatsInv
<1>8. CASE CountedExit
  <2>1. rows' \in Seq(Stats) /\ Len(rows') <= MAX_ROWS
        /\ \A i \in DOMAIN rows' : SplitsPairs(rows'[i])
    <3>1. CASE rows' = rows
      BY <1>2, <3>1 DEF CountersOK, PairsAreSplit
    <3>2. CASE rows' = Append(rows, temp) /\ Len(rows) < MAX_ROWS
      BY <1>2, <3>2, RowTyped DEF CountersOK, PairsAreSplit
    <3> QED
      BY <1>8, <3>1, <3>2 DEF CountedExit, SaveRemaining
  <2> QED
    BY <1>1, <1>2, <1>8, <2>1
       DEF CountedExit, SaveRemaining, StatsInv, CountersOK, PairsAreSplit
<1> QED
  BY <1>3, <1>4, <1>5, <1>6, <1>7, <1>8 DEF Next, Uncounted, vars

(* StatsInv holds before the loop.                                         *)
LEMMA StatsInitHolds == StatsInit => StatsInv
<1> SUFFICES ASSUME StatsInit PROVE StatsInv
  OBVIOUS
<1>1. TypeInv /\ CountersOK
  BY InitTyped, StatsInitTyped DEF StatsInit
<1>2. PairsAreSplit
  BY DEF StatsInit, PairsAreSplit, SplitsPairs, NoCounts, NoTotals, NoStats
<1> QED
  BY <1>1, <1>2 DEF StatsInv

(* The server and its counters are always well typed: stats_array never    *)
(* gets more than MAX_ROWS rows from its three writers (lines 320, 530,    *)
(* 577) and no counter goes below zero.                                    *)
THEOREM StatsTypeCorrect == Spec => []StatsTypeOK
<1>1. StatsInv => StatsTypeOK
  BY DEF StatsInv, TypeInv, CountersOK, StatsTypeOK
<1> QED
  BY <1>1, StatsInitHolds, StatsStep, PTL DEF Spec

(* In the current counters, the totals, temp_stats and every row of the    *)
(* report, the pairs credited to the two sides add up to all pairs.        *)
THEOREM PairsAlwaysSplit == Spec => []PairsAreSplit
<1>1. StatsInv => PairsAreSplit
  BY DEF StatsInv
<1> QED
  BY <1>1, StatsInitHolds, StatsStep, PTL DEF Spec

(* What is proved of the connection layer holds of the whole server.       *)
THEOREM WholeServerSafe == Spec => []NoForgottenConnection /\ []NeverOvercounts
BY StatsImplementServer, ForgetsNoConnection, CountNeverTooHigh, PTL

-----------------------------------------------------------------------------
(* Sums.                                                                   *)

(* There are partial sums: the recursion of PartialSums defines a function. *)
LEMMA PartialSumsExist ==
    ASSUME NEW s \in Seq(Int)
    PROVE  /\ PartialSums(s) \in [0 .. Len(s) -> Int]
           /\ PartialSums(s)[0] = 0
           /\ \A n \in 1 .. Len(s) : PartialSums(s)[n] = PartialSums(s)[n - 1] + s[n]
<1> DEFINE Sums(f, k) == /\ f \in [0 .. k -> Int]
                         /\ f[0] = 0
                         /\ \A n \in 1 .. k : f[n] = f[n - 1] + s[n]
           Possible(k) == \E f : Sums(f, k)
           Recursion(f) == f = [n \in 0 .. Len(s) |->
                                    IF n = 0 THEN 0 ELSE f[n - 1] + s[n]]
<1>1. Len(s) \in Nat /\ \A n \in 1 .. Len(s) : s[n] \in Int
  BY LenProperties, ElementOfSeq
<1>2. Possible(0)
  <2>1. Sums([n \in 0 .. 0 |-> 0], 0)
    OBVIOUS
  <2> QED
    BY <2>1
<1>3. ASSUME NEW k \in 1 .. Len(s), Possible(k - 1) PROVE Possible(k)
  <2>1. PICK f : Sums(f, k - 1)
    BY <1>3
  <2> DEFINE g == [n \in 0 .. k |-> IF n = k THEN f[k - 1] + s[k] ELSE f[n]]
  <2>2. s[k] \in Int
    BY <1>1
  <2>3. \A n \in 0 .. k : n = k \/ n \in 0 .. k - 1
    BY <1>1
  <2>4. f \in [0 .. k - 1 -> Int] /\ f[0] = 0 /\ \A n \in 1 .. k - 1 : f[n] = f[n - 1] + s[n]
    BY <2>1
  <2>5. k - 1 \in 0 .. k - 1 /\ 0 \in 0 .. k - 1 /\ k # 0
    BY <1>1
  <2>6. f[k - 1] + s[k] \in Int
    BY <2>2, <2>4, <2>5
  <2>7. g \in [0 .. k -> Int]
    BY <2>3, <2>4, <2>6
  <2>8. g[k] = f[k - 1] + s[k] /\ \A n \in 0 .. k - 1 : g[n] = f[n]
    BY <1>1
  <2>9. \A n \in 1 .. k : g[n] = g[n - 1] + s[n]
    <3> SUFFICES ASSUME NEW n \in 1 .. k PROVE g[n] = g[n - 1] + s[n]
      OBVIOUS
    <3> HIDE DEF g
    <3>1. n - 1 \in 0 .. k - 1
      BY <1>1
    <3>2. CASE n = k
      BY <2>8, <3>1, <3>2
    <3>3. CASE n # k
      <4>1. n \in 1 .. k - 1 /\ n \in 0 .. k - 1
        BY <1>1, <3>3
      <4> QED
        BY <2>4, <2>8, <3>1, <4>1
    <3> QED
      BY <3>2, <3>3
  <2>10. Sums(g, k)
    BY <2>4, <2>5, <2>7, <2>8, <2>9
  <2> QED
    BY <2>10
<1>4. Possible(Len(s))
  <2> HIDE DEF Possible
  <2> DEFINE S == {k \in 0 .. Len(s) : Possible(k)}
  <2>1. 0 \in S /\ \A k \in 1 .. Len(s) : k - 1 \in S => k \in S
    BY <1>1, <1>2, <1>3
  <2> HIDE DEF S
  <2>2. \A k \in 0 .. Len(s) : k \in S
    BY <1>1, <2>1, InductionUpTo
  <2>3. Len(s) \in S
    BY <1>1, <2>2
  <2> QED
    BY <2>3 DEF S
<1>5. PICK f : Sums(f, Len(s))
  BY <1>4
<1>6. Recursion(f)
  BY <1>1, <1>5
<1> HIDE DEF Recursion
<1>7. PartialSums(s) = CHOOSE h : Recursion(h)
  BY DEF PartialSums, Recursion
<1>8. Recursion(PartialSums(s))
  BY <1>6, <1>7
<1> DEFINE p == PartialSums(s)
<1> HIDE DEF p
<1>9. p = [n \in 0 .. Len(s) |-> IF n = 0 THEN 0 ELSE p[n - 1] + s[n]]
  BY <1>8 DEF Recursion, p
<1>10. p[0] = 0 /\ \A n \in 1 .. Len(s) : p[n] = p[n - 1] + s[n]
  BY <1>1, <1>9
<1>11. \A n \in 0 .. Len(s) : p[n] \in Int
  <2> DEFINE S == {n \in 0 .. Len(s) : p[n] \in Int}
  <2>1. 0 \in S
    BY <1>1, <1>10
  <2>2. ASSUME NEW k \in 1 .. Len(s), k - 1 \in S PROVE k \in S
    <3>1. p[k] = p[k - 1] + s[k] /\ s[k] \in Int /\ p[k - 1] \in Int
      BY <1>1, <1>10, <2>2
    <3> QED
      BY <1>1, <3>1
  <2> HIDE DEF S
  <2>3. \A n \in 0 .. Len(s) : n \in S
    BY <1>1, <2>1, <2>2, InductionUpTo
  <2> QED
    BY <2>3 DEF S
<1> QED
  BY <1>9, <1>10, <1>11 DEF p

(* Sequences that agree up to m have the same sums up to m.                *)
LEMMA SamePartialSums ==
    ASSUME NEW s \in Seq(Int), NEW t \in Seq(Int), NEW m \in Nat,
           m <= Len(s), m <= Len(t), \A i \in 1 .. m : s[i] = t[i]
    PROVE  PartialSums(s)[m] = PartialSums(t)[m]
<1> DEFINE S == {n \in 0 .. m : PartialSums(s)[n] = PartialSums(t)[n]}
<1>1. Len(s) \in Nat /\ Len(t) \in Nat
  BY LenProperties
<1>2. 0 \in S
  BY PartialSumsExist
<1>3. ASSUME NEW k \in 1 .. m, k - 1 \in S PROVE k \in S
  <2>1. k \in 1 .. Len(s) /\ k \in 1 .. Len(t)
    BY <1>1
  <2>2. PartialSums(s)[k] = PartialSums(s)[k - 1] + s[k]
        /\ PartialSums(t)[k] = PartialSums(t)[k - 1] + t[k]
    BY <2>1, PartialSumsExist
  <2> QED
    BY <1>3, <2>2
<1> HIDE DEF S
<1>4. \A n \in 0 .. m : n \in S
  BY <1>2, <1>3, InductionUpTo
<1> QED
  BY <1>4 DEF S

(* A sum of integers is an integer.                                        *)
LEMMA SumTyped == ASSUME NEW s \in Seq(Int) PROVE SumOf(s) \in Int
<1>1. Len(s) \in Nat
  BY LenProperties
<1> QED
  BY <1>1, PartialSumsExist DEF SumOf

(* No summands, no sum.                                                    *)
LEMMA SumOfNone == SumOf(<<>>) = 0
BY PartialSumsExist, EmptySeq DEF SumOf

(* One more summand.                                                       *)
LEMMA SumAppend ==
    ASSUME NEW s \in Seq(Int), NEW x \in Int
    PROVE  SumOf(Append(s, x)) = SumOf(s) + x
<1> DEFINE t == Append(s, x)
<1>1. /\ t \in Seq(Int) /\ Len(t) = Len(s) + 1 /\ Len(s) \in Nat
      /\ t[Len(s) + 1] = x /\ \A i \in 1 .. Len(s) : s[i] = t[i]
  BY AppendProperties, LenProperties
<1> HIDE DEF t
<1>2. PartialSums(s)[Len(s)] = PartialSums(t)[Len(s)]
  <2>1. Len(s) <= Len(s) /\ Len(s) <= Len(t)
    BY <1>1
  <2> QED
    BY <1>1, <2>1, SamePartialSums
<1>3. Len(t) \in 1 .. Len(t)
  BY <1>1
<1>4. PartialSums(t)[Len(t)] = PartialSums(t)[Len(t) - 1] + t[Len(t)]
  BY <1>3, <1>1, PartialSumsExist
<1>5. SumOf(t) = SumOf(s) + x
  BY <1>1, <1>2, <1>4 DEF SumOf
<1> QED
  BY <1>5 DEF t

(* A summand that grows by d makes the sum grow by d.                      *)
LEMMA SumChange ==
    ASSUME NEW s \in Seq(Int), NEW t \in Seq(Int), Len(t) = Len(s),
           NEW i \in 1 .. Len(s), NEW d \in Int, t[i] = s[i] + d,
           \A j \in 1 .. Len(s) : j # i => t[j] = s[j]
    PROVE  SumOf(t) = SumOf(s) + d
<1> DEFINE S == {n \in 0 .. Len(s) :
                    PartialSums(t)[n] = PartialSums(s)[n] + IF n < i THEN 0 ELSE d}
<1>1. Len(s) \in Nat /\ \A j \in 1 .. Len(s) : s[j] \in Int
  BY LenProperties, ElementOfSeq
<1>2. /\ PartialSums(s) \in [0 .. Len(s) -> Int]
      /\ PartialSums(s)[0] = 0 /\ PartialSums(t)[0] = 0
      /\ \A n \in 1 .. Len(s) : /\ PartialSums(s)[n] = PartialSums(s)[n - 1] + s[n]
                                /\ PartialSums(t)[n] = PartialSums(t)[n - 1] + t[n]
  BY PartialSumsExist
<1>3. 0 \in S
  BY <1>1, <1>2
<1>4. ASSUME NEW k \in 1 .. Len(s), k - 1 \in S PROVE k \in S
  <2>0. k - 1 \in 0 .. Len(s) /\ k \in Int /\ k >= 1 /\ k <= Len(s)
    BY <1>1
  <2>1. PartialSums(s)[k - 1] \in Int /\ s[k] \in Int
    BY <1>1, <1>2, <2>0
  <2>2. PartialSums(s)[k] = PartialSums(s)[k - 1] + s[k]
        /\ PartialSums(t)[k] = PartialSums(t)[k - 1] + t[k]
    BY <1>2
  <2>3. PartialSums(t)[k - 1] = PartialSums(s)[k - 1] + IF k - 1 < i THEN 0 ELSE d
    BY <1>4
  <2>4. CASE k = i
    BY <1>1, <2>1, <2>2, <2>3, <2>4
  <2>5. CASE k # i
    <3>1. t[k] = s[k] /\ (k < i <=> k - 1 < i)
      BY <2>0, <2>5
    <3>2. PartialSums(t)[k] = PartialSums(s)[k] + IF k < i THEN 0 ELSE d
      BY <2>1, <2>2, <2>3, <3>1
    <3> QED
      BY <1>1, <3>2
  <2> QED
    BY <2>4, <2>5
<1> HIDE DEF S
<1>5. \A n \in 0 .. Len(s) : n \in S
  BY <1>1, <1>3, <1>4, InductionUpTo
<1>6. Len(s) \in S
  BY <1>1, <1>5
<1> QED
  BY <1>1, <1>6 DEF S, SumOf

(* A sequence of zeros adds up to nothing.                                 *)
LEMMA SumOfZeros ==
    ASSUME NEW s \in Seq(Int), \A i \in 1 .. Len(s) : s[i] = 0
    PROVE  SumOf(s) = 0
<1> DEFINE S == {n \in 0 .. Len(s) : PartialSums(s)[n] = 0}
<1>1. Len(s) \in Nat
  BY LenProperties
<1>2. 0 \in S
  BY <1>1, PartialSumsExist
<1>3. ASSUME NEW k \in 1 .. Len(s), k - 1 \in S PROVE k \in S
  <2>1. PartialSums(s)[k] = PartialSums(s)[k - 1] + s[k]
    BY PartialSumsExist
  <2> QED
    BY <1>1, <1>3, <2>1
<1> HIDE DEF S
<1>4. \A n \in 0 .. Len(s) : n \in S
  BY <1>1, <1>2, <1>3, InductionUpTo
<1> QED
  BY <1>1, <1>4 DEF S, SumOf

(* The elements of a finite set, one after the other.                      *)
LEMMA ListingExists ==
    ASSUME NEW S, IsFiniteSet(S)
    PROVE  /\ Cardinality(S) \in Nat
           /\ SetToSeq(S) \in [1 .. Cardinality(S) -> S]
           /\ \A i, j \in 1 .. Cardinality(S) :
                    SetToSeq(S)[i] = SetToSeq(S)[j] => i = j
           /\ \A c \in S : \E i \in 1 .. Cardinality(S) : SetToSeq(S)[i] = c
<1> DEFINE N == Cardinality(S)
           Once(f) == \A a, b \in DOMAIN f : f[a] = f[b] => a = b
           list == SetToSeq(S)
<1>1. N \in Nat
  BY FS_CardinalityType
<1>2. PICK n \in Nat : ExistsBijection(1 .. n, S)
  BY FS_NatBijection
<1>3. N = n
  BY <1>2, FS_CountingElements
<1>4. \E f \in [1 .. N -> S] : Once(f)
  BY <1>2, <1>3 DEF ExistsBijection, Bijection, Injection, IsInjective
<1>5. list = CHOOSE f \in [1 .. N -> S] : Once(f)
  BY DEF SetToSeq, IsInjective
<1> HIDE DEF list, Once, N
<1>6. list \in [1 .. N -> S] /\ Once(list)
  BY <1>4, <1>5
<1>7. \A i, j \in 1 .. N : list[i] = list[j] => i = j
  BY <1>6 DEF Once
<1>8. list \in Injection(1 .. N, S)
  BY <1>6 DEF Once, Injection, IsInjective
<1>9. IsFiniteSet(1 .. N) /\ Cardinality(1 .. N) = N
  BY <1>1, FS_Interval
<1>10. list \in Surjection(1 .. N, S)
  BY <1>8, <1>9, FS_Injection DEF N
<1>11. \A c \in S : \E i \in 1 .. N : list[i] = c
  BY <1>10 DEF Surjection
<1> QED
  BY <1>1, <1>6, <1>7, <1>11 DEF list, N

(* The summands of SumOver as a sequence.                                  *)
LEMMA SummandsTyped ==
    ASSUME NEW S, IsFiniteSet(S), NEW f \in [S -> Int], NEW s,
           s = [i \in 1 .. Cardinality(S) |-> f[SetToSeq(S)[i]]]
    PROVE  s \in Seq(Int) /\ Len(s) = Cardinality(S)
<1>1. Cardinality(S) \in Nat /\ SetToSeq(S) \in [1 .. Cardinality(S) -> S]
  BY ListingExists
<1>2. s \in [1 .. Cardinality(S) -> Int]
  BY <1>1
<1>3. s \in Seq(Int)
  BY <1>1, <1>2, SeqDef
<1> QED
  BY <1>1, <1>2, <1>3, LenProperties

(* A summand of a set that grows by d makes its sum grow by d.             *)
LEMMA SumOverChange ==
    ASSUME NEW S, IsFiniteSet(S), NEW f \in [S -> Int], NEW g \in [S -> Int],
           NEW c \in S, NEW d \in Int, g[c] = f[c] + d,
           \A x \in S : x # c => g[x] = f[x]
    PROVE  SumOver(S, g) = SumOver(S, f) + d
<1> DEFINE list == SetToSeq(S)
           s == [i \in 1 .. Cardinality(S) |-> f[list[i]]]
           t == [i \in 1 .. Cardinality(S) |-> g[list[i]]]
<1>1. s \in Seq(Int) /\ Len(s) = Cardinality(S) /\ t \in Seq(Int) /\ Len(t) = Cardinality(S)
  BY SummandsTyped
<1>2. /\ Cardinality(S) \in Nat /\ list \in [1 .. Cardinality(S) -> S]
      /\ \A i, j \in 1 .. Cardinality(S) : list[i] = list[j] => i = j
  BY ListingExists
<1>3. PICK i \in 1 .. Cardinality(S) : list[i] = c
  BY ListingExists
<1>4. (\A j \in 1 .. Cardinality(S) : s[j] = f[list[j]] /\ t[j] = g[list[j]])
      /\ SumOver(S, f) = SumOf(s) /\ SumOver(S, g) = SumOf(t)
  BY DEF SumOver
<1> HIDE DEF list, s, t
<1>5. t[i] = s[i] + d
  BY <1>3, <1>4
<1>6. ASSUME NEW j \in 1 .. Cardinality(S), j # i PROVE t[j] = s[j]
  <2>1. list[j] \in S /\ list[j] # c
    BY <1>2, <1>3, <1>6
  <2> QED
    BY <1>4, <2>1
<1>7. i \in 1 .. Len(s) /\ \A j \in 1 .. Len(s) : j # i => t[j] = s[j]
  BY <1>1, <1>6
<1>8. SumOf(t) = SumOf(s) + d
  BY <1>1, <1>5, <1>7, SumChange
<1> QED
  BY <1>4, <1>8

(* A set of zeros adds up to nothing.                                      *)
LEMMA SumOverZeros ==
    ASSUME NEW S, IsFiniteSet(S), NEW f \in [S -> Int], \A c \in S : f[c] = 0
    PROVE  SumOver(S, f) = 0
<1> DEFINE list == SetToSeq(S)
           s == [i \in 1 .. Cardinality(S) |-> f[list[i]]]
<1>1. s \in Seq(Int) /\ Len(s) = Cardinality(S)
  BY SummandsTyped
<1>2. Cardinality(S) \in Nat /\ list \in [1 .. Cardinality(S) -> S]
  BY ListingExists
<1>3. \A i \in 1 .. Len(s) : s[i] = 0
  BY <1>1, <1>2
<1> QED
  BY <1>1, <1>3, SumOfZeros DEF SumOver

-----------------------------------------------------------------------------
(* The rows of the report.                                                 *)

(* Multiples of K are K apart.                                             *)
LEMMA NextMultiple ==
    ASSUME NEW K \in Nat \ {0}, NEW n \in Nat, NEW t \in 1 .. K
    PROVE  /\ n * K \in Nat /\ (n + 1) * K = n * K + K
           /\ (n * K + t) % K = 0 <=> t = K
<1> DEFINE c == n * K + t
           q == c \div K
           p == n * K
<1>1. n * K \in Nat /\ (n + 1) * K = n * K + K
  OBVIOUS
<1>2. \A m \in Nat : (m * K) % K = 0
  OBVIOUS
<1>3. t = K => c % K = 0
  <2>1. n + 1 \in Nat
    OBVIOUS
  <2>2. ((n + 1) * K) % K = 0
    BY <1>2, <2>1
  <2> QED
    BY <1>1, <2>2
<1>4. ASSUME t < K, c % K = 0 PROVE FALSE
  <2>1. c \in Nat /\ q \in Nat /\ c = K * q + (c % K)
    BY <1>1
  <2>2. K * q = q * K /\ q * K \in Nat
    BY <2>1
  <2>3. c = q * K
    BY <1>4, <2>1, <2>2
  <2>4. CASE q <= n
    <3>1. q * K <= n * K
      BY <2>1, <2>4
    <3> DEFINE x == q * K
    <3>2. x <= p /\ x = p + t /\ p \in Nat /\ x \in Nat /\ t \in Nat /\ t >= 1
      BY <1>1, <2>2, <2>3, <3>1
    <3> HIDE DEF x, p
    <3> QED
      BY <3>2
  <2>5. CASE q >= n + 1
    <3>1. q * K >= (n + 1) * K
      BY <2>1, <2>5
    <3> DEFINE x == q * K
    <3>2. x >= p + K /\ x = p + t /\ p \in Nat /\ x \in Nat /\ t \in Nat /\ t < K
      BY <1>1, <1>4, <2>2, <2>3, <3>1
    <3> HIDE DEF x, p
    <3> QED
      BY <3>2
  <2> QED
    BY <2>1, <2>4, <2>5
<1> HIDE DEF c, q, p
<1> QED
  BY <1>1, <1>3, <1>4 DEF c

(* After the loop nothing happens any more but a signal.                   *)
LEMMA ServerExited ==
    ASSUME pc = "exited", batch = {}, [ServerNext]_serverVars
    PROVE  UNCHANGED <<sockVars, pc, batch, slotVars, countVars, byteVars, failures>>
<1>1. CASE Signal
  BY <1>1 DEF Signal
<1>2. CASE UNCHANGED serverVars
  BY <1>2 DEF serverVars, loopVars
<1>3. ~WaitStep /\ ~Exit
  BY DEF WaitStep, LoopTest, Second, TimeoutStop, Collect, ReapInactive, EpollReturns, Exit
<1>4. ~Handle(ListenFd) /\ \A e \in FDs : ~Handle(e)
  BY DEF Handle
<1>5. ~AcceptStep
  BY <1>4 DEF AcceptStep, AcceptPersistent, AcceptNonPersistent, AcceptQueued,
              AcceptRejected, AcceptFails, AcceptEvent
<1>6. \A e \in FDs : ~EventStep(e)
  BY <1>4 DEF EventStep, MoveToSlot, MoveToQueue, RejectMisidentified, PersistentData,
              NonPersistentData, UnclaimedData, SpuriousEvent, ClosePersistent,
              CloseNonPersistent, CloseOther, DataEvent, EndEvent
<1>7. \A c \in Conns : ~ClientStep(c)
  BY DEF ClientStep
<1> QED
  BY <1>1, <1>2, <1>3, <1>5, <1>6, <1>7 DEF ServerNext, ServerStep

(* Nor is anything counted.                                                *)
LEMMA StatsExited ==
    ASSUME pc = "exited", batch = {}, [Next]_vars
    PROVE  UNCHANGED <<sockVars, pc, batch, slotVars, countVars, byteVars, failures, statsVars>>
<1>1. UNCHANGED <<sockVars, pc, batch, slotVars, countVars, byteVars, failures>>
  BY CountedIsServerStep, ServerExited
<1>2. ~CountedSecond /\ ~CountedReap /\ ~CountedExit
  BY DEF CountedSecond, CountedReap, CountedExit, Second, ReapInactive, EpollReturns, Exit
<1>3. \A e \in FDs : ~CountedClose(e) /\ ~CountedData(e)
  BY DEF CountedClose, CountedData, CountedPersistentData, CountedNonPersistentData,
         CountedMoveToSlot, CountedMoveToQueue, CloseNonPersistent, PersistentData,
         NonPersistentData, MoveToSlot, MoveToQueue, DataEvent, EndEvent, Handle
<1>4. UNCHANGED statsVars
  BY <1>2, <1>3 DEF Next, Uncounted, vars
<1> QED
  BY <1>1, <1>4

(* The loop is left through the code after it and in no other way.         *)
LEMMA LoopGoesOn ==
    ASSUME pc # "exited",
           \/ WaitStep \/ AcceptStep \/ Signal \/ UNCHANGED serverVars
           \/ \E e \in FDs : EventStep(e)
           \/ \E c \in Conns : ClientStep(c)
    PROVE  pc' # "exited"
<1>1. ASSUME NEW e \in FDs, EventStep(e) PROVE pc' = pc
  BY <1>1 DEF EventStep, MoveToSlot, MoveToQueue, RejectMisidentified, PersistentData,
              NonPersistentData, UnclaimedData, SpuriousEvent, ClosePersistent,
              CloseNonPersistent, CloseOther
<1>2. AcceptStep => pc' = pc
  BY DEF AcceptStep, AcceptPersistent, AcceptNonPersistent, AcceptQueued,
         AcceptRejected, AcceptFails
<1>3. WaitStep => pc' # "exited"
  BY DEF WaitStep, LoopTest, Second, TimeoutStop, Collect, ReapInactive, EpollReturns
<1>4. Signal \/ (\E c \in Conns : ClientStep(c)) \/ UNCHANGED serverVars => pc' = pc
  BY DEF Signal, ClientStep, ServerUnchanged, serverVars, loopVars
<1> QED
  BY <1>1, <1>2, <1>3, <1>4

(* The same of the counted actions.                                        *)
LEMMA CountingGoesOn ==
    ASSUME pc # "exited", ~CountedExit, [Next]_vars
    PROVE  pc' # "exited"
<1>1. \/ WaitStep \/ AcceptStep \/ Signal \/ UNCHANGED serverVars
      \/ \E e \in FDs : EventStep(e)
      \/ \E c \in Conns : ClientStep(c)
  <2>1. CASE Uncounted
    BY <2>1 DEF Uncounted, WaitStep, EventStep
  <2>2. CASE CountedSecond \/ CountedReap
    BY <2>2 DEF CountedSecond, CountedReap, WaitStep
  <2>3. ASSUME NEW e \in FDs, CountedClose(e) \/ CountedData(e) PROVE EventStep(e)
    BY <2>3 DEF CountedClose, CountedData, CountedPersistentData, CountedNonPersistentData,
                CountedMoveToSlot, CountedMoveToQueue, EventStep
  <2> QED
    BY <2>1, <2>2, <2>3 DEF Next, vars
<1> QED
  BY <1>1, LoopGoesOn

(* While the server runs each row holds SUMMARY_INTERVAL connections, and  *)
(* until the report is full those since the last row are in temp_stats.    *)
RowsFull ==
    /\ \A i \in 1 .. Len(rows) : rows[i].conns = SUMMARY_INTERVAL
    /\ Len(rows) * SUMMARY_INTERVAL <= connection_count
    /\ Len(rows) < MAX_ROWS =>
            /\ connection_count = Len(rows) * SUMMARY_INTERVAL + temp.conns
            /\ temp.conns < SUMMARY_INTERVAL

RowsInv ==
    IF pc = "exited" THEN batch = {} /\ RowsMatchLabels ELSE RowsFull

(* Full rows match their labels, and so does a last row that is not full.  *)
LEMMA RowLabel ==
    ASSUME CountersOK, NEW i \in Nat \ {0}
    PROVE  /\ i * SUMMARY_INTERVAL <= connection_count
                => LabelEnd(i) - (i - 1) * SUMMARY_INTERVAL = SUMMARY_INTERVAL
           /\ i * SUMMARY_INTERVAL > connection_count
                => LabelEnd(i) = connection_count
<1>1. i - 1 \in Nat /\ (i - 1) + 1 = i /\ connection_count \in Nat
  BY DEF CountersOK
<1>2. SUMMARY_INTERVAL \in 1 .. SUMMARY_INTERVAL /\ SUMMARY_INTERVAL \in Nat \ {0}
  BY SizesAreNat
<1>3. /\ (i - 1) * SUMMARY_INTERVAL \in Nat
      /\ ((i - 1) + 1) * SUMMARY_INTERVAL = (i - 1) * SUMMARY_INTERVAL + SUMMARY_INTERVAL
  BY <1>1, <1>2, NextMultiple
<1> DEFINE a == (i - 1) * SUMMARY_INTERVAL
           b == i * SUMMARY_INTERVAL
<1>4. a \in Nat /\ b = a + SUMMARY_INTERVAL
  BY <1>1, <1>3
<1>5. LabelEnd(i) = IF b > connection_count THEN connection_count ELSE b
  BY DEF LabelEnd
<1> HIDE DEF a, b
<1>6. b <= connection_count => LabelEnd(i) - a = SUMMARY_INTERVAL
  BY <1>1, <1>2, <1>4, <1>5
<1> QED
  BY <1>5, <1>6 DEF a, b

(* What holds of the rows in the loop makes their labels true.             *)
LEMMA FullRowsMatch == CountersOK /\ RowsFull => RowsMatchLabels
<1> SUFFICES ASSUME CountersOK, RowsFull, NEW i \in DOMAIN rows
             PROVE  rows[i].conns = LabelEnd(i) - (i - 1) * SUMMARY_INTERVAL
  BY DEF RowsMatchLabels
<1>1. Len(rows) \in Nat /\ i \in 1 .. Len(rows) /\ connection_count \in Nat
  BY LenProperties DEF CountersOK
<1>2. i * SUMMARY_INTERVAL <= Len(rows) * SUMMARY_INTERVAL
  BY <1>1, SizesAreNat
<1>3. i * SUMMARY_INTERVAL \in Nat /\ Len(rows) * SUMMARY_INTERVAL \in Nat
  BY <1>1, SizesAreNat
<1>4. Len(rows) * SUMMARY_INTERVAL <= connection_count
  BY DEF RowsFull
<1> DEFINE b == i * SUMMARY_INTERVAL
           n == Len(rows) * SUMMARY_INTERVAL
<1>5. b <= n /\ b \in Nat /\ n \in Nat /\ n <= connection_count
  BY <1>2, <1>3, <1>4
<1> HIDE DEF b, n
<1>6. b <= connection_count
  BY <1>1, <1>5
<1> QED
  BY <1>1, <1>6, RowLabel DEF RowsFull, b

(* The end of a non-persistent connection completes a row exactly when     *)
(* SUMMARY_INTERVAL connections have been added to temp_stats.             *)
LEMMA CountEndRows ==
    ASSUME TypeOK, CountersOK, RowsFull, CountEnd
    PROVE  RowsFull'
<1> DEFINE stats == WithCurrent(conn2.end - conn2.start)
           full == RowIsFull(connection_count + 1)
           K == SUMMARY_INTERVAL
           n == Len(rows)
           p == n * K
<1>1. /\ connection_count' = connection_count + 1
      /\ rows' = IF full THEN Append(rows, stats) ELSE rows
      /\ temp' = IF full THEN NoStats ELSE stats
  BY DEF CountEnd
<1>2. n \in Nat /\ K \in Nat \ {0} /\ temp.conns \in Nat /\ connection_count \in Nat
      /\ MAX_ROWS \in Nat /\ rows \in Seq(Stats) /\ n <= MAX_ROWS
  BY SizesAreNat, LenProperties DEF CountersOK, Stats
<1>3. stats \in Stats /\ stats.conns = temp.conns + 1
  <2>1. stats \in Stats
    BY WithCurrentTyped DEF CountersOK
  <2> QED
    BY <2>1 DEF WithCurrent, CountersOK, Stats
<1>4. \A t \in 1 .. K : (p + t) % K = 0 <=> t = K
  BY <1>2, NextMultiple, Zenon
<1>5. p \in Nat
  BY <1>2
<1>6. (n + 1) * K = p + K
  BY <1>2
<1>7. full <=> (connection_count + 1) % K = 0 /\ n < MAX_ROWS
  BY DEF RowIsFull
<1>8. /\ \A i \in 1 .. n : rows[i].conns = K
      /\ p <= connection_count
      /\ n < MAX_ROWS => connection_count = p + temp.conns /\ temp.conns < K
  BY DEF RowsFull
<1>9. NoStats.conns = 0
  BY DEF NoStats
<1>10. ASSUME n < MAX_ROWS
      PROVE  full <=> temp.conns + 1 = K
  <2>1. temp.conns + 1 \in 1 .. K /\ connection_count + 1 = p + (temp.conns + 1)
    <3> HIDE DEF p
    <3> QED
      BY <1>2, <1>5, <1>8, <1>10
  <2> HIDE DEF p, full
  <2>2. (p + (temp.conns + 1)) % K = 0 <=> temp.conns + 1 = K
    BY <1>4, <2>1, Zenon
  <2> QED
    BY <1>7, <1>10, <2>1, <2>2, Zenon
<1> HIDE DEF stats, full, p
<1>11. CASE full
  <2>1. rows' = Append(rows, stats) /\ temp' = NoStats /\ n < MAX_ROWS
    BY <1>1, <1>7, <1>11
  <2>2. stats.conns = K /\ connection_count' = p + K
    BY <1>1, <1>2, <1>3, <1>8, <1>10, <1>11, <1>5, <2>1
  <2>3. /\ Len(rows') = n + 1 /\ rows'[n + 1] = stats
        /\ \A i \in 1 .. n : rows'[i] = rows[i]
    BY <1>2, <1>3, <2>1, AppendProperties
  <2>4. \A i \in 1 .. n + 1 : i \in 1 .. n \/ i = n + 1
    BY <1>2
  <2>5. \A i \in 1 .. Len(rows') : rows'[i].conns = K
    BY <1>8, <2>2, <2>3, <2>4
  <2>6. Len(rows') * K = connection_count'
    BY <1>6, <2>2, <2>3
  <2>7. temp'.conns = 0 /\ connection_count' \in Nat
    BY <1>1, <1>2, <1>9, <2>1
  <2>8. Len(rows') * K <= connection_count' /\ connection_count' = Len(rows') * K + temp'.conns
        /\ temp'.conns < K
    BY <1>2, <2>6, <2>7
  <2> QED
    BY <2>5, <2>8 DEF RowsFull
<1>12. CASE ~full
  <2>1. rows' = rows /\ temp' = stats
    BY <1>1, <1>12
  <2>2. p <= connection_count'
    BY <1>1, <1>2, <1>8, <1>5
  <2>3. ASSUME n < MAX_ROWS PROVE connection_count' = p + temp'.conns /\ temp'.conns < K
    <3>1. temp.conns + 1 # K /\ temp.conns < K /\ connection_count = p + temp.conns
      BY <1>8, <1>10, <1>12, <2>3
    <3>2. temp'.conns = temp.conns + 1 /\ connection_count' = connection_count + 1
      BY <1>1, <1>3, <2>1
    <3>3. K \in Nat /\ p \in Nat /\ temp.conns \in Nat
      BY <1>2, <1>5
    <3> HIDE DEF K, n
    <3> QED
      BY <3>1, <3>2, <3>3
  <2> QED
    BY <1>8, <2>1, <2>2, <2>3 DEF RowsFull, p
<1> QED
  BY <1>11, <1>12

(* The last row is labelled with the number of all connections.            *)
LEMMA SaveRemainingRows ==
    ASSUME CountersOK, RowsFull, SaveRemaining
    PROVE  RowsMatchLabels'
<1> DEFINE K == SUMMARY_INTERVAL
           n == Len(rows)
           p == n * K
<1>1. RowsMatchLabels
  BY FullRowsMatch
<1>2. connection_count' = connection_count
  BY DEF SaveRemaining
<1>3. CASE rows' = rows
  BY <1>1, <1>2, <1>3 DEF RowsMatchLabels, LabelEnd
<1>4. CASE /\ rows' = Append(rows, temp)
           /\ n < MAX_ROWS
  <2>1. n \in Nat /\ K \in Nat \ {0} /\ temp.conns \in Nat /\ connection_count \in Nat
        /\ rows \in Seq(Stats) /\ temp \in Stats
    BY SizesAreNat, LenProperties DEF CountersOK, Stats
  <2>2. /\ Len(rows') = n + 1 /\ rows'[n + 1] = temp /\ rows' \in Seq(Stats)
        /\ \A i \in 1 .. n : rows'[i] = rows[i]
    BY <1>4, <2>1, AppendProperties
  <2>3. DOMAIN rows = 1 .. n /\ DOMAIN rows' = 1 .. n + 1
    BY <2>1, <2>2, LenProperties
  <2>4. connection_count = p + temp.conns /\ temp.conns < K
    BY <1>4 DEF RowsFull
  <2>5. p \in Nat /\ (n + 1) * K = p + K
    BY <2>1, NextMultiple
  <2>6. (n + 1) * K > connection_count
    <3> DEFINE q == (n + 1) * K
    <3>1. q = p + K
      BY <2>5
    <3> HIDE DEF p, q
    <3>2. q > connection_count
      BY <2>1, <2>4, <2>5, <3>1
    <3> QED
      BY <3>2 DEF q
  <2>7. LabelEnd(n + 1) = connection_count
    BY <2>1, <2>6, RowLabel
  <2>8. LabelEnd(n + 1) - ((n + 1) - 1) * K = temp.conns
    <3>1. (n + 1) - 1 = n
      BY <2>1
    <3>2. connection_count - p = temp.conns
      <4> HIDE DEF p
      <4> QED
        BY <2>1, <2>4, <2>5
    <3> QED
      BY <2>7, <3>1, <3>2
  <2>9. \A i \in 1 .. n : rows'[i].conns = LabelEnd(i) - (i - 1) * K
    BY <1>1, <2>2, <2>3 DEF RowsMatchLabels
  <2>10. \A i \in 1 .. n + 1 : i \in 1 .. n \/ i = n + 1
    BY <2>1
  <2>11. \A i \in DOMAIN rows' : rows'[i].conns = LabelEnd(i) - (i - 1) * K
    BY <2>2, <2>3, <2>8, <2>9, <2>10
  <2> QED
    BY <1>2, <2>11 DEF RowsMatchLabels, LabelEnd
<1> QED
  BY <1>3, <1>4 DEF SaveRemaining

(* Every step keeps the rows as RowsInv says.                              *)
LEMMA RowsStep == StatsInv /\ RowsInv /\ [Next]_vars => RowsInv'
<1> SUFFICES ASSUME StatsInv, RowsInv, [Next]_vars PROVE RowsInv'
  OBVIOUS
<1>1. TypeOK /\ CountersOK
  BY DEF StatsInv, TypeInv
<1>2. CASE pc = "exited"
  BY <1>2, StatsExited DEF RowsInv, RowsMatchLabels, LabelEnd, statsVars
<1>3. CASE pc # "exited" /\ CountedExit
  <2>1. pc' = "exited" /\ batch' = {} /\ SaveRemaining
    BY <1>3 DEF CountedExit, Exit
  <2> QED
    BY <1>1, <1>3, <2>1, SaveRemainingRows DEF RowsInv
<1>4. CASE pc # "exited" /\ ~CountedExit
  <2>1. pc' # "exited"
    BY <1>4, CountingGoesOn
  <2>2. RowsFull
    BY <1>4 DEF RowsInv
  <2>3. CASE UNCHANGED <<temp, rows, connection_count>>
    BY <2>1, <2>2, <2>3 DEF RowsInv, RowsFull
  <2>4. CASE CountEnd
    BY <1>1, <2>1, <2>2, <2>4, CountEndRows DEF RowsInv
  <2>5. CountEnd \/ UNCHANGED <<temp, rows, connection_count>>
    BY <1>4 DEF Next, vars, statsVars, CountedSecond, CountedReap, Uncounted, CountedClose,
                CountedData, CountedPersistentData, CountedNonPersistentData,
                CountedMoveToSlot, CountedMoveToQueue
  <2> QED
    BY <2>3, <2>4, <2>5
<1> QED
  BY <1>2, <1>3, <1>4

(* However many connections end and whenever the loop does, each row of    *)
(* the report holds the connections that its label names.                  *)
THEOREM LabelsAreRight == Spec => []RowsMatchLabels
<1>1. StatsInit => RowsInv
  <2> SUFFICES ASSUME StatsInit PROVE RowsInv
    OBVIOUS
  <2>1. pc # "exited" /\ rows = <<>> /\ Len(rows) = 0 /\ connection_count = 0 /\ temp.conns = 0
    BY DEF StatsInit, ServerInit, NoStats
  <2>2. Len(rows) * SUMMARY_INTERVAL = 0
    BY <2>1, SizesAreNat
  <2> QED
    BY <2>1, <2>2, SizesAreNat DEF RowsInv, RowsFull
<1>2. StatsInv /\ RowsInv => RowsMatchLabels
  BY FullRowsMatch DEF StatsInv, RowsInv
<1> QED
  BY <1>1, <1>2, StatsInitHolds, StatsStep, RowsStep, PTL DEF Spec

=============================================================================
