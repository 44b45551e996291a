-------------------------- MODULE Exp1ServerProofs --------------------------
(***************************************************************************)
(* Theorems about the servers of experiment 1, for any number of           *)
(* connections and packets, any length of the lines and of the buffers,    *)
(* and any way in which the stream is cut.                                 *)
(***************************************************************************)
EXTENDS Exp1Server, SocketLayerProofs

-----------------------------------------------------------------------------
(* Places in the stream.                                                   *)

(* Up to where the lines of c have been handled.                           *)
Place(c) == IF pc = "lines" /\ conn = c THEN start ELSE HasRead(c) - buf_used[c]

(* Where the server stands in each stream; server6.c has logged exactly    *)
(* the lines before that place.                                            *)
PlaceOK ==
    /\ pc = "lines" => conn \in Conns /\ start <= end /\ end = HasRead(conn)
    /\ \A c \in Conns : inbox[c] <= sent[c]
    /\ program = FINAL => \A c \in Conns : buf_used[c] = 0
    /\ program = LOGS => running
    /\ program = LOGS => \A c \in Conns : Place(c) = packet_count[c] * LINE

TypeInv == TypeOK /\ PlaceOK

(* The sizes are numbers.                                                  *)
LEMMA SizesAreNat ==
    /\ LINE \in Nat \ {0} /\ BUFFER_SIZE \in Nat /\ BUFFER_SIZE >= LINE
    /\ MAX_OUT_OF_ORDER \in Nat /\ TCP_CONN \in Nat /\ Conns = 1 .. TCP_CONN
BY Exp1Assumption

(* The two servers have different names.                                   *)
LEMMA ServersDiffer == FINAL # LOGS
BY DEF FINAL, LOGS

(* Products of numbers are numbers.                                        *)
LEMMA ProductIsNat == \A m, n \in Nat : m * n \in Nat /\ (m + 1) * n = m * n + n
OBVIOUS

(* Division undoes multiplication.                                         *)
LEMMA DivOfProduct ==
    ASSUME NEW k \in Nat, NEW n \in Nat \ {0}
    PROVE  (k * n) \div n = k
OBVIOUS

(* The next newline is less than one line away, and the end of the k-th    *)
(* line is the start of the next.                                          *)
LEMMA NextNewline ==
    ASSUME start \in Nat
    PROVE  /\ AfterNewline \in Nat /\ start < AfterNewline /\ AfterNewline <= start + LINE
           /\ \A k \in Nat : start = k * LINE => AfterNewline = (k + 1) * LINE
<1> DEFINE q == start \div LINE
<1>1. LINE \in Nat \ {0}
  BY SizesAreNat
<1>2. q \in Nat /\ start = LINE * q + (start % LINE) /\ start % LINE \in 0 .. LINE - 1
  BY <1>1
<1>3. (q + 1) * LINE = LINE * q + LINE /\ LINE * q \in Nat
  BY <1>1, <1>2
<1>4. AfterNewline = (q + 1) * LINE
  BY DEF AfterNewline
<1>5. AfterNewline \in Nat /\ start < AfterNewline /\ AfterNewline <= start + LINE
  <2> DEFINE p == LINE * q
  <2>1. p \in Nat /\ start = p + (start % LINE) /\ AfterNewline = p + LINE
        /\ start % LINE \in 0 .. LINE - 1
    BY <1>2, <1>3, <1>4
  <2> HIDE DEF p
  <2> QED
    BY <1>1, <2>1
<1>6. ASSUME NEW k \in Nat, start = k * LINE PROVE AfterNewline = (k + 1) * LINE
  <2>1. q = k
    BY <1>1, <1>6, DivOfProduct
  <2> QED
    BY <1>4, <2>1
<1> QED
  BY <1>5, <1>6

(* The state before the loop.                                              *)
LEMMA InitTyped == Init => TypeInv
<1> SUFFICES ASSUME Init PROVE TypeInv
  OBVIOUS
<1>1. SocketTypeOK
  BY SocketAssumption DEF Init, SocketInit, SocketTypeOK
<1>2. program \in {FINAL, LOGS} /\ running \in BOOLEAN
  BY Exp1Assumption DEF Init
<1>3. buf_used \in [Conns -> 0 .. LINE - 1]
  BY SizesAreNat DEF Init
<1>4. out_of_order \in Seq(Nat) /\ Len(out_of_order) <= MAX_OUT_OF_ORDER
      /\ parsed \in Seq(Nat) /\ log \in Seq([conn : Conns, pkt : Nat, place : Nat])
  BY SizesAreNat DEF Init
<1>5. packet_count \in [Conns -> Nat] /\ batch = {} /\ edge = {} /\ cutShort = {} /\ conn = NoConn
      /\ start = 0 /\ end = 0 /\ global_expected_seq = 1 /\ pc = "loop"
  BY DEF Init
<1>6. PlaceOK
  <2>1. \A c \in Conns : inbox[c] = 0 /\ sent[c] = 0 /\ buf_used[c] = 0 /\ packet_count[c] = 0
    BY DEF Init, SocketInit
  <2>2. 0 * LINE = 0
    BY SizesAreNat
  <2>3. running
    BY DEF Init
  <2> QED
    BY <1>5, <2>1, <2>2, <2>3 DEF PlaceOK, Place, HasRead
<1> QED
  BY <1>1, <1>2, <1>3, <1>4, <1>5, <1>6 DEF TypeInv, TypeOK

(* Steps that change none of this keep the places.                         *)
LEMMA SamePlaces ==
    ASSUME PlaceOK,
           UNCHANGED <<program, conn, start, end, buf_used, packet_count, sent, inbox>>,
           running' = running \/ program # LOGS, (pc = "lines") <=> (pc' = "lines")
    PROVE  PlaceOK'
<1>1. \A c \in Conns : HasRead(c)' = HasRead(c)
  BY DEF HasRead
<1>2. \A c \in Conns : Place(c)' = Place(c)
  BY <1>1 DEF Place
<1> QED
  BY <1>1, <1>2 DEF PlaceOK

(* The steps of the kernel, of the loop and of the accept loop.            *)
LEMMA PollTyped ==
    ASSUME TypeInv,
           \/ LoopTest \/ EpollWait \/ EpollReturnsNothing
           \/ AcceptEvent \/ Accept \/ AcceptFails \/ Signal
    PROVE  TypeInv'
<1> USE DEF TypeInv, TypeOK
<1>1. UNCHANGED sockVars => SocketTypeOK' /\ UNCHANGED <<sent, inbox>>
  BY DEF sockVars, SocketTypeOK, FDs
<1>2. CASE EpollWait
  <2>1. batch' \subseteq edge /\ edge' \subseteq edge
    BY <1>2 DEF EpollWait
  <2> QED
    BY <1>1, <1>2, <2>1, SamePlaces DEF EpollWait, lineVars, orderVars, logVars
<1>3. CASE AcceptEvent
  BY <1>1, <1>3, SamePlaces DEF AcceptEvent, Handle, lineVars, orderVars, logVars
<1>4. CASE Accept
  <2>1. LowestFree \in FDs /\ backlog # <<>>
    BY <1>4, LowestFreeIsFree DEF Accept, CanAccept, FreeFds
  <2>2. SocketTypeOK' /\ UNCHANGED <<sent, inbox>>
    <3>1. AcceptAs(LowestFree, {LowestFree})
      BY <1>4 DEF Accept
    <3>2. SocketTypeOK'
      BY <2>1, <3>1, AcceptAsTyped
    <3> QED
      BY <3>1, <3>2 DEF AcceptAs
  <2>3. edge' \subseteq FDs \cup {ListenFd}
    BY <1>4, <2>1 DEF Accept, EdgeWhenAdded
  <2> QED
    BY <1>4, <2>2, <2>3, SamePlaces DEF Accept, lineVars, orderVars, logVars
<1>5. CASE AcceptFails
  <2>1. cutShort' \subseteq FDs \cup {ListenFd}
    BY <1>5 DEF AcceptFails
  <2> QED
    BY <1>1, <1>5, <2>1, SamePlaces DEF AcceptFails, lineVars, orderVars, logVars
<1>6. CASE Signal
  <2>1. program # LOGS
    BY <1>6, ServersDiffer DEF Signal
  <2>2. running' \in BOOLEAN
    BY <1>6 DEF Signal
  <2> QED
    BY <1>1, <1>6, <2>1, <2>2, SamePlaces DEF Signal, lineVars, orderVars, logVars
<1>7. CASE LoopTest \/ EpollReturnsNothing
  BY <1>1, <1>7, SamePlaces
     DEF LoopTest, EpollReturnsNothing, pollVars, lineVars, orderVars, logVars
<1> QED
  BY <1>2, <1>3, <1>4, <1>5, <1>6, <1>7

(* A recv continues where the kept part of the line ends.                  *)
LEMMA ReceiveTyped == ASSUME TypeInv, NEW f \in FDs, Receive(f) PROVE TypeInv'
<1> USE DEF TypeInv, TypeOK
<1>1. PICK c \in Conns : c = owner[f] /\ IsOpen(f)
  BY DEF Receive, HasData, IsOpen, OpenFds, SocketTypeOK
<1> DEFINE received == Received(c)
<1>2. inbox[c] \in Nat /\ sent[c] \in Nat /\ inbox[c] <= sent[c] /\ Room(c) \in Nat
  <2>1. buf_used[c] \in 0 .. LINE - 1
    BY <1>1
  <2>2. Room(c) \in Nat
    BY <2>1, SizesAreNat DEF Room
  <2> QED
    BY <1>1, <2>2 DEF PlaceOK, SocketTypeOK
<1>3. received \in Nat /\ received <= inbox[c] /\ Take(f, received)
  BY <1>1, <1>2 DEF Receive, Received
<1>4. SocketTypeOK'
  BY <1>1, <1>3, TakeTyped
<1>5. /\ conn' = c /\ start' = HasRead(c) - buf_used[c] /\ end' = HasRead(c) + received
      /\ pc = "loop" /\ pc' = "lines" /\ batch' \subseteq batch
      /\ cutShort' \subseteq FDs \cup {ListenFd}
  BY <1>1 DEF Receive, HandleData, Handle
<1>6. /\ sent' = sent /\ inbox' = [inbox EXCEPT ![c] = @ - received]
  BY <1>1, <1>3 DEF Take
<1> HIDE DEF received
<1>7. HasRead(c) \in Nat /\ buf_used[c] \in Nat /\ Place(c) = HasRead(c) - buf_used[c]
  BY <1>1, <1>2, <1>5 DEF HasRead, Place
<1>8. start' \in Nat
  <2>1. CASE program = FINAL
    <3>1. buf_used[c] = 0
      BY <1>1, <2>1 DEF PlaceOK
    <3> QED
      BY <1>5, <1>7, <3>1
  <2>2. CASE program = LOGS
    <3>1. Place(c) = packet_count[c] * LINE /\ packet_count[c] \in Nat
      BY <1>1, <2>2 DEF PlaceOK
    <3>2. packet_count[c] * LINE \in Nat
      BY <3>1, SizesAreNat, ProductIsNat
    <3> QED
      BY <1>5, <1>7, <3>1, <3>2
  <2> QED
    BY <2>1, <2>2
<1>9. end' \in Nat /\ start' <= end'
  BY <1>3, <1>5, <1>7, <1>8
<1>10. HasRead(c)' = HasRead(c) + received
  <2>1. inbox'[c] = inbox[c] - received
    BY <1>1, <1>6 DEF SocketTypeOK
  <2> QED
    BY <1>2, <1>3, <1>6, <2>1 DEF HasRead
<1>11. UNCHANGED <<program, running, edge, buf_used, global_expected_seq, out_of_order, parsed,
                   packet_count, log>>
  BY DEF Receive, orderVars, logVars
<1>12. \A d \in Conns : inbox'[d] <= sent'[d]
  BY <1>2, <1>3, <1>6 DEF PlaceOK, SocketTypeOK
<1>13. \A d \in Conns : Place(d)' = Place(d)
  <2>1. ASSUME NEW d \in Conns, d # c PROVE Place(d)' = Place(d)
    BY <1>5, <1>6, <1>11, <2>1 DEF Place, HasRead, SocketTypeOK
  <2>2. Place(c)' = Place(c)
    BY <1>5, <1>7 DEF Place
  <2> QED
    BY <2>1, <2>2
<1>14. PlaceOK'
  <2>1. conn' \in Conns /\ start' <= end'
    BY <1>1, <1>5, <1>9
  <2>2. end' = HasRead(conn)'
    BY <1>5, <1>10 DEF HasRead
  <2> QED
    BY <1>11, <1>12, <1>13, <2>1, <2>2 DEF PlaceOK
<1> QED
  BY <1>1, <1>4, <1>5, <1>8, <1>9, <1>11, <1>14

(* The end of a connection: nothing that the server has not read is lost.  *)
LEMMA EndTyped == ASSUME TypeInv, NEW f \in FDs, ReceiveEnd(f) PROVE TypeInv'
<1> USE DEF TypeInv, TypeOK
<1>1. CloseAndAdd({f}, {}) /\ RecvEnds(f) /\ pc = "loop" /\ batch' \subseteq batch
  BY DEF ReceiveEnd, HandleData, Handle
<1>2. SocketTypeOK'
  BY <1>1, CloseAndAddTyped
<1>3. UNCHANGED <<sent, inbox>>
  <2>1. ASSUME NEW c \in Conns, owner[f] = c PROVE inbox[c] = 0
    BY <1>1, <2>1, SocketAssumption DEF RecvEnds, IsDrained, IsOpen, OpenFds
  <2>2. \A c \in Conns : inbox'[c] = inbox[c]
    BY <1>1, <2>1 DEF CloseAndAdd
  <2>3. inbox' = inbox
    BY <1>2, <2>2 DEF SocketTypeOK
  <2> QED
    BY <1>1, <2>3 DEF CloseAndAdd
<1> QED
  BY <1>1, <1>2, <1>3, SamePlaces DEF ReceiveEnd, lineVars, orderVars, logVars

(* The end of main, which only server_final.c reaches.                     *)
LEMMA ExitTyped == ASSUME TypeInv, Exit PROVE TypeInv'
<1> USE DEF TypeInv, TypeOK
<1>1. SocketTypeOK'
  BY CloseAndAddTyped DEF Exit
<1>2. program' = FINAL /\ program = FINAL /\ FINAL # LOGS
  BY ServersDiffer DEF Exit, PlaceOK
<1>3. \A c \in Conns : inbox'[c] <= sent'[c]
  BY DEF Exit, CloseAndAdd, PlaceOK, SocketTypeOK
<1> QED
  BY <1>1, <1>2, <1>3 DEF Exit, PlaceOK, pollVars, lineVars, orderVars, logVars

-----------------------------------------------------------------------------
(* The lines.                                                              *)

(* The number in a line is a number from 1 on.                             *)
LEMMA PacketIsNat ==
    ASSUME TypeInv, pc = "lines"
    PROVE  packet_seq \in Nat \ {0}
<1>1. conn \in Nat \ {0} /\ start \in Nat
  BY SizesAreNat DEF TypeInv, TypeOK, PlaceOK
<1>2. start \div LINE \in Nat
  BY <1>1, SizesAreNat
<1>3. (start \div LINE) * TCP_CONN \in Nat
  BY <1>2, SizesAreNat, ProductIsNat
<1> QED
  BY <1>1, <1>3 DEF packet_seq

(* What recording a gap gives, entry by entry: the old entries, then the   *)
(* gap's numbers as far as the array has room.                             *)
LEMMA GapRecorded ==
    ASSUME TypeOK, RecordGap, packet_seq \in Nat, packet_seq > global_expected_seq
    PROVE  /\ out_of_order' \in Seq(Nat)
           /\ Len(out_of_order') <= MAX_OUT_OF_ORDER
           /\ Len(out_of_order) <= Len(out_of_order')
           /\ \A k \in 1 .. Len(out_of_order) : out_of_order'[k] = out_of_order[k]
           /\ \A k \in Len(out_of_order) + 1 .. Len(out_of_order') :
                out_of_order'[k] = global_expected_seq + (k - Len(out_of_order)) - 1
           /\ \/ Len(out_of_order') = Len(out_of_order) + (packet_seq - global_expected_seq)
              \/ Len(out_of_order') = MAX_OUT_OF_ORDER
                 /\ MAX_OUT_OF_ORDER < Len(out_of_order) + (packet_seq - global_expected_seq)
<1> DEFINE n == packet_seq - global_expected_seq
<1> DEFINE len == Len(out_of_order)
<1> DEFINE all == out_of_order \o Gap
<1>1. n \in Nat \ {0} /\ global_expected_seq \in Nat \ {0} /\ out_of_order \in Seq(Nat)
      /\ len \in Nat /\ len <= MAX_OUT_OF_ORDER /\ MAX_OUT_OF_ORDER \in Nat
  BY SizesAreNat, LenProperties DEF TypeOK
<1>2. Gap \in Seq(Nat) /\ Len(Gap) = n /\ \A k \in 1 .. n : Gap[k] = global_expected_seq + k - 1
  <2>1. Gap = [k \in 1 .. n |-> global_expected_seq + k - 1]
    BY DEF Gap
  <2>2. \A k \in 1 .. n : global_expected_seq + k - 1 \in Nat
    BY <1>1
  <2> HIDE DEF n
  <2>3. Gap \in [1 .. n -> Nat]
    BY <2>1, <2>2
  <2>4. Gap \in Seq(Nat)
    <3>1. n \in Nat
      BY <1>1
    <3> QED
      BY <2>3, <3>1, SeqDef, Zenon
  <2>5. Len(Gap) = n
    BY <1>1, <2>3, <2>4, LenProperties
  <2> QED
    BY <2>1, <2>4, <2>5
<1> HIDE DEF n
<1>3. all \in Seq(Nat) /\ Len(all) = len + n
      /\ \A k \in 1 .. len + n : all[k] = IF k <= len THEN out_of_order[k] ELSE Gap[k - len]
  BY <1>1, <1>2, ConcatProperties
<1>4. \A k \in 1 .. len : all[k] = out_of_order[k]
  BY <1>1, <1>3
<1>5. \A k \in len + 1 .. len + n : all[k] = global_expected_seq + (k - len) - 1
  <2> SUFFICES ASSUME NEW k \in len + 1 .. len + n
               PROVE  all[k] = global_expected_seq + (k - len) - 1
    OBVIOUS
  <2>1. k - len \in 1 .. n /\ k \in 1 .. len + n /\ ~(k <= len)
    BY <1>1
  <2> QED
    BY <1>2, <1>3, <2>1
<1>6. out_of_order' = IF Len(all) <= MAX_OUT_OF_ORDER THEN all
                      ELSE SubSeq(all, 1, MAX_OUT_OF_ORDER)
  BY DEF RecordGap
<1> HIDE DEF all, len
<1>7. CASE len + n <= MAX_OUT_OF_ORDER
  <2>1. out_of_order' = all
    BY <1>3, <1>6, <1>7
  <2> QED
    BY <1>1, <1>3, <1>4, <1>5, <1>7, <2>1 DEF n, len
<1>8. CASE len + n > MAX_OUT_OF_ORDER
  <2>1. out_of_order' = SubSeq(all, 1, MAX_OUT_OF_ORDER)
    BY <1>1, <1>3, <1>6, <1>8
  <2>2. /\ out_of_order' \in Seq(Nat) /\ Len(out_of_order') = MAX_OUT_OF_ORDER
        /\ \A k \in 1 .. MAX_OUT_OF_ORDER : out_of_order'[k] = all[k]
    BY <1>1, <1>3, <1>8, <2>1, SubSeqProperties
  <2>3. \A k \in 1 .. len : out_of_order'[k] = out_of_order[k]
    BY <1>1, <1>4, <2>2
  <2>4. \A k \in len + 1 .. MAX_OUT_OF_ORDER :
           out_of_order'[k] = global_expected_seq + (k - len) - 1
    <3>1. ASSUME NEW k \in len + 1 .. MAX_OUT_OF_ORDER
          PROVE  k \in 1 .. MAX_OUT_OF_ORDER /\ k \in len + 1 .. len + n
      BY <1>1, <1>8
    <3> QED
      BY <1>5, <2>2, <3>1
  <2> QED
    BY <1>1, <1>8, <2>2, <2>3, <2>4 DEF n, len
<1> QED
  BY <1>1, <1>7, <1>8

(* A line moves `start` behind its newline, and no further than `end`.     *)
LEMMA LineAdvances ==
    ASSUME TypeInv, LineComplete, start' = AfterNewline
    PROVE  start' \in Nat /\ start' <= end /\ conn \in Conns /\ end = HasRead(conn)
BY NextNewline DEF TypeInv, TypeOK, PlaceOK, LineComplete

(* The lines that server_final.c reads.                                    *)
LEMMA FinalLineTyped ==
    ASSUME TypeInv, LineExpected \/ LineOld \/ LineOvertakes \/ TailIgnored
    PROVE  TypeInv'
<1> USE DEF TypeInv, TypeOK
<1>1. /\ program = FINAL /\ program' = FINAL /\ FINAL # LOGS /\ LineComplete
      /\ pc = "lines" /\ pc' = "lines" /\ start' = AfterNewline
      /\ UNCHANGED <<sockVars, running, batch, edge, cutShort, conn, end, buf_used, packet_count, log>>
  BY ServersDiffer DEF LineExpected, LineOld, LineOvertakes, TailIgnored, LineComplete,
                       pollVars, logVars
<1>2. SocketTypeOK' /\ UNCHANGED <<sent, inbox>>
  BY <1>1 DEF sockVars, SocketTypeOK, FDs
<1>3. start' \in Nat /\ start' <= end
  BY <1>1, LineAdvances
<1>4. PlaceOK'
  <2>1. \A c \in Conns : HasRead(c)' = HasRead(c)
    BY <1>2 DEF HasRead
  <2> QED
    BY <1>1, <1>2, <1>3, <2>1 DEF PlaceOK
<1>5. packet_seq \in Nat \ {0}
  BY <1>1, PacketIsNat
<1>6. /\ global_expected_seq' \in Nat \ {0}
      /\ out_of_order' \in Seq(Nat) /\ Len(out_of_order') <= MAX_OUT_OF_ORDER
      /\ parsed' \in Seq(Nat)
  <2>1. Append(parsed, packet_seq) \in Seq(Nat)
    BY <1>5, AppendProperties
  <2>2. CASE LineExpected
    BY <1>5, <2>1, <2>2 DEF LineExpected, ExpectNext
  <2>3. CASE LineOld
    BY <2>1, <2>3 DEF LineOld
  <2>4. CASE LineOvertakes
    <3>1. RecordGap /\ packet_seq > global_expected_seq
      BY <2>4 DEF LineOvertakes
    <3>2. out_of_order' \in Seq(Nat) /\ Len(out_of_order') <= MAX_OUT_OF_ORDER
      BY <1>5, <3>1, GapRecorded
    <3> QED
      BY <1>5, <2>1, <2>4, <3>2 DEF LineOvertakes, ExpectNext
  <2>5. CASE TailIgnored
    BY <2>5 DEF TailIgnored, orderVars
  <2> QED
    BY <2>2, <2>3, <2>4, <2>5
<1> QED
  BY <1>1, <1>2, <1>3, <1>4, <1>6

(* The line that server6.c logs is the next one of its connection.         *)
LEMMA LoggedLineIsNext ==
    ASSUME TypeInv, LineLogged
    PROVE  /\ program = LOGS /\ pc = "lines" /\ conn \in Conns
           /\ packet_count[conn] \in Nat
           /\ start = packet_count[conn] * LINE
           /\ start' = (packet_count[conn] + 1) * LINE
<1> USE DEF TypeInv, TypeOK
<1>1. program = LOGS /\ pc = "lines" /\ start' = AfterNewline
  BY DEF LineLogged, LineComplete
<1>2. conn \in Conns /\ packet_count[conn] \in Nat
  BY <1>1 DEF PlaceOK
<1>3. start = packet_count[conn] * LINE
  BY <1>1, <1>2 DEF PlaceOK, Place
<1> QED
  BY <1>1, <1>2, <1>3, NextNewline

(* The lines that server6.c logs.                                          *)
LEMMA LoggedTyped == ASSUME TypeInv, LineLogged PROVE TypeInv'
<1> USE DEF TypeInv, TypeOK
<1>1. /\ program = LOGS /\ pc = "lines" /\ conn \in Conns /\ packet_count[conn] \in Nat
      /\ start' = (packet_count[conn] + 1) * LINE
  BY LoggedLineIsNext
<1>2. /\ program' = LOGS /\ pc' = "lines" /\ LineComplete /\ start' = AfterNewline
      /\ packet_count' = [packet_count EXCEPT ![conn] = @ + 1]
      /\ log' = Append(log, [conn |-> conn, pkt |-> packet_count[conn] + 1, place |-> start])
      /\ UNCHANGED <<sockVars, running, batch, edge, cutShort, conn, end, buf_used,
                     global_expected_seq, out_of_order, parsed>>
  BY <1>1 DEF LineLogged, pollVars, orderVars
<1>3. SocketTypeOK' /\ UNCHANGED <<sent, inbox>>
  BY <1>2 DEF sockVars, SocketTypeOK, FDs
<1>4. start' \in Nat /\ start' <= end
  BY <1>2, LineAdvances
<1>5. packet_count' \in [Conns -> Nat]
  BY <1>1, <1>2
<1>6. log' \in Seq([conn : Conns, pkt : Nat, place : Nat])
  <2>1. [conn |-> conn, pkt |-> packet_count[conn] + 1, place |-> start]
            \in [conn : Conns, pkt : Nat, place : Nat]
    BY <1>1
  <2> QED
    BY <1>2, <2>1, AppendProperties
<1>7. PlaceOK'
  <2>1. \A c \in Conns : HasRead(c)' = HasRead(c)
    BY <1>3 DEF HasRead
  <2>2. ASSUME NEW c \in Conns, c # conn PROVE Place(c)' = packet_count'[c] * LINE
    BY <1>1, <1>2, <2>1, <2>2 DEF PlaceOK, Place
  <2>3. Place(conn)' = packet_count'[conn] * LINE
    BY <1>1, <1>2 DEF Place
  <2>4. \A c \in Conns : Place(c)' = packet_count'[c] * LINE
    BY <1>1, <1>2, <2>2, <2>3 DEF Place
  <2> QED
    BY <1>1, <1>2, <1>3, <1>4, <2>1, <2>4, ServersDiffer DEF PlaceOK
<1> QED
  BY <1>1, <1>2, <1>3, <1>4, <1>5, <1>6, <1>7

(* The rest that is kept is less than a line.                              *)
LEMMA RestTyped == ASSUME TypeInv, NoMoreLines PROVE TypeInv'
<1> USE DEF TypeInv, TypeOK
<1>1. /\ pc = "lines" /\ pc' = "loop" /\ ~LineComplete /\ KeepRest
      /\ UNCHANGED <<sockVars, program, running, batch, edge, cutShort, conn, start, end,
                     global_expected_seq, out_of_order, parsed, packet_count, log>>
  BY DEF NoMoreLines, pollVars, lineVars, orderVars, logVars
<1>2. SocketTypeOK' /\ UNCHANGED <<sent, inbox>>
  BY <1>1 DEF sockVars, SocketTypeOK, FDs
<1>3. conn \in Conns /\ start <= end /\ end = HasRead(conn)
  BY <1>1 DEF PlaceOK
<1>4. end - start \in 0 .. LINE - 1
  <2>1. AfterNewline \in Nat /\ AfterNewline <= start + LINE /\ ~(AfterNewline <= end)
    BY <1>1, NextNewline DEF LineComplete
  <2> QED
    BY <1>3, <2>1, SizesAreNat
<1>5. buf_used' \in [Conns -> 0 .. LINE - 1]
  BY <1>1, <1>3, <1>4 DEF KeepRest
<1>6. PlaceOK'
  <2>1. \A c \in Conns : HasRead(c)' = HasRead(c)
    BY <1>2 DEF HasRead
  <2>2. CASE program = FINAL
    <3>1. buf_used' = buf_used
      BY <1>1, <2>2, ServersDiffer DEF KeepRest
    <3> QED
      BY <1>1, <1>2, <2>2, <3>1, ServersDiffer DEF PlaceOK
  <2>3. CASE program = LOGS
    <3>1. buf_used' = [buf_used EXCEPT ![conn] = end - start]
      BY <1>1, <2>3 DEF KeepRest
    <3>2. Place(conn)' = Place(conn)
      <4>1. buf_used'[conn] = end - start
        BY <1>3, <3>1
      <4>2. HasRead(conn)' = end
        BY <1>1, <1>3, <2>1 DEF HasRead
      <4>3. end - (end - start) = start
        OBVIOUS
      <4> QED
        BY <1>1, <4>1, <4>2, <4>3 DEF Place
    <3>3. ASSUME NEW c \in Conns, c # conn PROVE Place(c)' = Place(c)
      BY <1>1, <2>1, <3>1, <3>3 DEF Place
    <3>4. \A c \in Conns : Place(c)' = Place(c)
      BY <1>1, <3>2, <3>3 DEF Place
    <3> QED
      BY <1>1, <1>2, <2>3, <3>4, ServersDiffer DEF PlaceOK
  <2> QED
    BY <2>2, <2>3
<1> QED
  BY <1>1, <1>2, <1>5, <1>6

(* What arrives was sent and waits to be read.                             *)
LEMMA DeliverKeepsPlaces ==
    ASSUME SocketTypeOK, \A d \in Conns : inbox[d] <= sent[d], NEW c \in Conns, Deliver(c)
    PROVE  \A d \in Conns : HasRead(d)' = HasRead(d) /\ inbox'[d] <= sent'[d]
<1> SUFFICES ASSUME NEW d \in Conns PROVE HasRead(d)' = HasRead(d) /\ inbox'[d] <= sent'[d]
  OBVIOUS
<1>1. sent[d] \in Nat /\ inbox[d] \in Nat /\ inbox[d] <= sent[d]
  BY DEF SocketTypeOK
<1>2. CASE d = c
  <2>1. sent'[d] = sent[d] + 1 /\ inbox'[d] = inbox[d] + 1
    BY <1>2 DEF Deliver, SocketTypeOK
  <2> QED
    BY <1>1, <2>1 DEF HasRead
<1>3. CASE d # c
  <2>1. sent'[d] = sent[d] /\ inbox'[d] = inbox[d]
    BY <1>3 DEF Deliver, SocketTypeOK
  <2> QED
    BY <1>1, <2>1 DEF HasRead
<1> QED
  BY <1>2, <1>3

(* What arrives moves no place.                                            *)
LEMMA ClientStepTyped == ASSUME TypeInv, NEW c \in Conns, Clients(c) PROVE TypeInv'
<1> USE DEF TypeInv, TypeOK
<1>1. SocketTypeOK'
  BY ClientTyped DEF Clients
<1>2. edge' \subseteq FDs \cup {ListenFd}
  BY DEF Clients, FdsOf
<1>3. /\ \A d \in Conns : HasRead(d)' = HasRead(d)
      /\ \A d \in Conns : inbox'[d] <= sent'[d]
  <2>1. CASE Connect(c) \/ Hangup(c)
    BY <2>1 DEF Connect, Hangup, HasRead, PlaceOK
  <2>2. CASE Deliver(c)
    BY <2>2, DeliverKeepsPlaces DEF PlaceOK
  <2> QED
    BY <2>1, <2>2 DEF Clients
<1>4. UNCHANGED <<program, pc, running, batch, cutShort, conn, start, end, buf_used,
                  global_expected_seq, out_of_order, parsed, packet_count, log>>
  BY DEF Clients, lineVars, orderVars, logVars
<1>5. \A d \in Conns : Place(d)' = Place(d)
  BY <1>3, <1>4 DEF Place
<1>6. PlaceOK'
  BY <1>3, <1>4, <1>5 DEF PlaceOK
<1> QED
  BY <1>1, <1>2, <1>4, <1>6

(* Every step keeps the state well typed and the places right.             *)
LEMMA StepTyped == TypeInv /\ [Next]_vars => TypeInv'
<1> SUFFICES ASSUME TypeInv, [Next]_vars PROVE TypeInv'
  OBVIOUS
<1>1. CASE \/ LoopTest \/ EpollWait \/ EpollReturnsNothing
           \/ AcceptEvent \/ Accept \/ AcceptFails \/ Signal
  BY <1>1, PollTyped
<1>2. CASE LineStep
  BY <1>2, FinalLineTyped, LoggedTyped, RestTyped DEF LineStep
<1>3. ASSUME NEW f \in FDs, Receive(f) \/ ReceiveEnd(f) PROVE TypeInv'
  BY <1>3, ReceiveTyped, EndTyped
<1>4. CASE Exit
  BY <1>4, ExitTyped
<1>5. ASSUME NEW c \in Conns, Clients(c) PROVE TypeInv'
  BY <1>5, ClientStepTyped
<1>6. CASE UNCHANGED vars
  <2>1. SocketTypeOK' /\ UNCHANGED <<sent, inbox>>
    BY <1>6 DEF vars, sockVars, TypeInv, TypeOK, SocketTypeOK, FDs
  <2> QED
    BY <1>6, <2>1, SamePlaces
       DEF vars, TypeInv, TypeOK, pollVars, lineVars, orderVars, logVars
<1> QED
  BY <1>1, <1>2, <1>3, <1>4, <1>5, <1>6 DEF Next, ServerStep

(* The types with the places, for the proofs that follow.                  *)
LEMMA AlwaysTyped == Spec => []TypeInv
<1>1. Init => TypeInv
  BY InitTyped
<1>2. TypeInv /\ [Next]_vars => TypeInv'
  BY StepTyped
<1> QED
  BY <1>1, <1>2, PTL DEF Spec

(* out_of_order never outgrows its array (79), and less than a line is     *)
(* kept in a buffer (server6.c 64), so that recv always has room for the   *)
(* rest of it.                                                             *)
THEOREM TypeCorrect == Spec => []TypeOK
<1>1. TypeInv => TypeOK
  BY DEF TypeInv
<1> QED
  BY <1>1, AlwaysTyped, PTL

-----------------------------------------------------------------------------
(* The log of server6.c.                                                   *)

(* Every step keeps the log in step with the stream.                       *)
LEMMA StepLog == TypeInv /\ LogFollowsStream /\ [Next]_vars => LogFollowsStream'
<1> SUFFICES ASSUME TypeInv, LogFollowsStream, [Next]_vars PROVE LogFollowsStream'
  OBVIOUS
<1>1. CASE UNCHANGED log
  BY <1>1 DEF LogFollowsStream
<1>2. CASE LineLogged
  <2> DEFINE entry == [conn |-> conn, pkt |-> packet_count[conn] + 1, place |-> start]
  <2>1. packet_count[conn] \in Nat /\ start = packet_count[conn] * LINE /\ conn \in Conns
    BY <1>2, LoggedLineIsNext
  <2>2. /\ entry.place = (entry.pkt - 1) * LINE
        /\ entry \in [conn : Conns, pkt : Nat, place : Nat]
    <3>1. (packet_count[conn] + 1) - 1 = packet_count[conn]
      BY <2>1
    <3> QED
      BY <2>1, <3>1 DEF TypeInv, TypeOK
  <2>3. log' = Append(log, entry)
    BY <1>2 DEF LineLogged
  <2> HIDE DEF entry
  <2>4. /\ Len(log) \in Nat /\ DOMAIN log = 1 .. Len(log)
        /\ DOMAIN log' = 1 .. Len(log) + 1
        /\ \A k \in 1 .. Len(log) : log'[k] = log[k]
        /\ log'[Len(log) + 1] = entry
    BY <2>2, <2>3, AppendProperties, LenProperties DEF TypeInv, TypeOK
  <2> QED
    BY <2>2, <2>4 DEF LogFollowsStream
<1>3. CASE ServerStep /\ ~LineLogged
  BY <1>1, <1>3 DEF ServerStep, LineStep, LoopTest, EpollWait, EpollReturnsNothing, AcceptEvent, Accept, AcceptFails, Exit,
                    LineExpected, LineOld, LineOvertakes, TailIgnored, NoMoreLines, Receive,
                    ReceiveEnd, logVars
<1>4. CASE Signal \/ (\E c \in Conns : Clients(c)) \/ UNCHANGED vars
  BY <1>1, <1>4 DEF Signal, Clients, vars, logVars
<1> QED
  BY <1>2, <1>3, <1>4 DEF Next

(* server6.c logs every packet of a connection, in order and once, however *)
(* the stream is cut into pieces.                                          *)
THEOREM LogAlwaysFollows == Spec => []LogFollowsStream
<1>1. Init => LogFollowsStream
  BY DEF Init, LogFollowsStream
<1>2. TypeInv /\ LogFollowsStream /\ [Next]_vars => LogFollowsStream'
  BY StepLog
<1> QED
  BY <1>1, <1>2, AlwaysTyped, PTL DEF Spec

-----------------------------------------------------------------------------
(* The report of server_final.c.                                           *)

(* The greatest number read is the one before the expected one, and the    *)
(* array and the numbers that were read lie below it.                      *)
ReportInv ==
    /\ ReportsOvertaken
    /\ \A k \in DOMAIN parsed : parsed[k] \in Nat \ {0}
    /\ global_expected_seq > 1 => \E k \in DOMAIN parsed : parsed[k] = global_expected_seq - 1
    /\ \A k \in DOMAIN out_of_order :
         out_of_order[k] \in Nat /\ out_of_order[k] < global_expected_seq

(* A number that is greater than all before it is in time; another is not. *)
LEMMA InTimeGrows ==
    ASSUME parsed \in Seq(Nat), NEW p \in Nat, parsed' = Append(parsed, p)
    PROVE  /\ DOMAIN parsed' = 1 .. Len(parsed) + 1 /\ DOMAIN parsed = 1 .. Len(parsed)
           /\ Len(parsed) \in Nat
           /\ \A k \in DOMAIN parsed : parsed'[k] = parsed[k]
           /\ parsed'[Len(parsed) + 1] = p
           /\ (\A k \in DOMAIN parsed : parsed[k] < p) => InTime' = InTime \cup {p}
           /\ (\E k \in DOMAIN parsed : parsed[k] >= p) => InTime' = InTime
<1> DEFINE len == Len(parsed)
<1>1. /\ len \in Nat /\ DOMAIN parsed = 1 .. len /\ DOMAIN parsed' = 1 .. len + 1
      /\ \A k \in 1 .. len : parsed'[k] = parsed[k] /\ parsed[k] \in Nat
      /\ parsed'[len + 1] = p
  BY AppendProperties, LenProperties, ElementOfSeq
<1> HIDE DEF len
<1> DEFINE early(k) == \A j \in 1 .. k - 1 : parsed[j] < parsed[k]
<1> DEFINE early1(k) == \A j \in 1 .. k - 1 : parsed'[j] < parsed'[k]
<1>2. /\ \A x : x \in InTime <=> \E k \in 1 .. len : early(k) /\ parsed[k] = x
      /\ \A x : x \in InTime' <=> \E k \in 1 .. len + 1 : early1(k) /\ parsed'[k] = x
  BY <1>1 DEF InTime
<1>3. \A k \in 1 .. len : early1(k) <=> early(k)
  <2> SUFFICES ASSUME NEW k \in 1 .. len PROVE early1(k) <=> early(k)
    OBVIOUS
  <2>1. \A j \in 1 .. k - 1 : j \in 1 .. len
    BY <1>1
  <2> QED
    BY <1>1, <2>1
<1>4. early1(len + 1) <=> \A j \in 1 .. len : parsed[j] < p
  <2>1. (len + 1) - 1 = len
    BY <1>1
  <2> QED
    BY <1>1, <2>1
<1>5. \A k : k \in 1 .. len + 1 <=> k \in 1 .. len \/ k = len + 1
  BY <1>1
<1> HIDE DEF early, early1
<1>6. \A x : x \in InTime' <=> x \in InTime \/ (early1(len + 1) /\ x = p)
  BY <1>1, <1>2, <1>3, <1>5
<1>7. (\A k \in DOMAIN parsed : parsed[k] < p) => InTime' = InTime \cup {p}
  BY <1>1, <1>4, <1>6
<1>8. (\E k \in DOMAIN parsed : parsed[k] >= p) => InTime' = InTime
  <2>1. ASSUME NEW k \in DOMAIN parsed, parsed[k] >= p PROVE ~early1(len + 1)
    BY <1>1, <1>4, <2>1
  <2> QED
    BY <1>6, <2>1
<1> QED
  BY <1>1, <1>7, <1>8 DEF len

(* What is in time was read, and what is not lies below the expected one.  *)
LEMMA SetsAreNumbers ==
    ASSUME TypeInv, ReportInv
    PROVE  /\ \A n \in InTime : n \in Nat \ {0} /\ n < global_expected_seq
           /\ \A n : n \in NotInTime <=>
                /\ n \in Nat \ {0} /\ n < global_expected_seq /\ n \notin InTime
           /\ \A n : n \in Reported <=> \E k \in 1 .. Len(out_of_order) : out_of_order[k] = n
<1>1. global_expected_seq \in Nat \ {0} /\ DOMAIN out_of_order = 1 .. Len(out_of_order)
  BY LenProperties DEF TypeInv, TypeOK
<1>2. \A n \in InTime : n \in Nat \ {0} /\ n < global_expected_seq
  BY DEF InTime, ReportInv, ReportsOvertaken
<1>3. \A n : n \in 1 .. global_expected_seq - 1 <=> n \in Nat \ {0} /\ n < global_expected_seq
  BY <1>1
<1> QED
  BY <1>1, <1>2, <1>3 DEF NotInTime, Reported

(* The packet that was expected, and one that was not greater than all     *)
(* before it: the report stays as it is.                                   *)
LEMMA QuietLineReports ==
    ASSUME TypeInv, ReportInv, LineExpected \/ LineOld
    PROVE  ReportInv'
<1> DEFINE g == global_expected_seq
<1>1. PICK p \in Nat \ {0} : p = packet_seq
  <2>1. pc = "lines"
    BY DEF LineExpected, LineOld, LineComplete
  <2> QED
    BY <2>1, PacketIsNat
<1>2. g \in Nat \ {0} /\ parsed \in Seq(Nat)
  BY DEF TypeInv, TypeOK
<1>3. parsed' = Append(parsed, p) /\ out_of_order' = out_of_order
  BY <1>1 DEF LineExpected, LineOld
<1>4. /\ DOMAIN parsed' = 1 .. Len(parsed) + 1 /\ DOMAIN parsed = 1 .. Len(parsed)
      /\ Len(parsed) \in Nat
      /\ \A k \in DOMAIN parsed : parsed'[k] = parsed[k]
      /\ parsed'[Len(parsed) + 1] = p
      /\ (\A k \in DOMAIN parsed : parsed[k] < p) => InTime' = InTime \cup {p}
      /\ (\E k \in DOMAIN parsed : parsed[k] >= p) => InTime' = InTime
  BY <1>1, <1>2, <1>3, InTimeGrows
<1>5. /\ \A k \in DOMAIN parsed : parsed[k] \in Nat \ {0} /\ parsed[k] < g
      /\ g > 1 => \E k \in DOMAIN parsed : parsed[k] = g - 1
  BY DEF ReportInv, ReportsOvertaken
<1>6. \A k \in DOMAIN parsed' : k \in DOMAIN parsed \/ parsed'[k] = p
  BY <1>4
<1>7. PICK h \in Nat \ {0} : h = global_expected_seq' /\ h >= g /\ p < h
                           /\ \E k \in DOMAIN parsed' : parsed'[k] = h - 1
                           /\ \A n \in 1 .. h - 1 : n \in 1 .. g - 1 \/ n = p
  <2>1. CASE LineExpected
    <3>1. p = g /\ global_expected_seq' = p + 1
      BY <1>1, <2>1 DEF LineExpected, ExpectNext
    <3>2. Len(parsed) + 1 \in DOMAIN parsed' /\ parsed'[Len(parsed) + 1] = (p + 1) - 1
      BY <1>4
    <3>3. \A n \in 1 .. (p + 1) - 1 : n \in 1 .. g - 1 \/ n = p
      BY <1>2, <3>1
    <3> QED
      BY <1>2, <3>1, <3>2, <3>3
  <2>2. CASE LineOld
    <3>1. p < g /\ global_expected_seq' = g
      BY <1>1, <2>2 DEF LineOld
    <3>2. g > 1
      BY <1>2, <3>1
    <3>3. PICK k \in DOMAIN parsed : parsed[k] = g - 1
      BY <1>5, <3>2
    <3>4. k \in DOMAIN parsed' /\ parsed'[k] = g - 1
      BY <1>4, <3>3
    <3> QED
      BY <1>2, <3>1, <3>4
  <2> QED
    BY <2>1, <2>2
<1>8. \A n : n \in NotInTime' <=> n \in NotInTime
  <2>1. \A n : n \in NotInTime' <=> n \in 1 .. h - 1 /\ n \notin InTime'
    BY <1>7 DEF NotInTime
  <2>2. \A n : n \in NotInTime <=> n \in 1 .. g - 1 /\ n \notin InTime
    BY DEF NotInTime
  <2>3. \A n : n \in 1 .. g - 1 => n \in 1 .. h - 1
    <3>1. g \in Nat /\ h \in Nat /\ g <= h
      BY <1>2, <1>7
    <3> HIDE DEF g
    <3> QED
      BY <3>1
  <2>4. CASE LineExpected
    <3>1. p = g
      BY <1>1, <2>4 DEF LineExpected
    <3>2. InTime' = InTime \cup {p}
      BY <1>4, <1>5, <3>1
    <3>3. p \notin 1 .. g - 1
      BY <1>2, <3>1
    <3> QED
      BY <1>7, <2>1, <2>2, <2>3, <3>2, <3>3
  <2>5. CASE LineOld
    <3>1. p < g /\ h = g
      BY <1>1, <1>7, <2>5 DEF LineOld
    <3>2. g > 1
      BY <1>2, <3>1
    <3>3. \E k \in DOMAIN parsed : parsed[k] >= p
      <4>1. PICK k \in DOMAIN parsed : parsed[k] = g - 1
        BY <1>5, <3>2
      <4> QED
        BY <1>2, <3>1, <4>1
    <3>4. InTime' = InTime
      BY <1>4, <3>3
    <3> QED
      BY <2>1, <2>2, <3>1, <3>4
  <2> QED
    BY <2>4, <2>5
<1>9. Reported' = Reported
  BY <1>3 DEF Reported
<1>10. ReportsOvertaken'
  <2>1. \A k \in DOMAIN parsed' : parsed'[k] < global_expected_seq'
    <3>1. ASSUME NEW k \in DOMAIN parsed PROVE parsed'[k] < h
      BY <1>2, <1>4, <1>5, <1>7
    <3> QED
      BY <1>6, <1>7, <3>1
  <2>2. \A i, j \in DOMAIN out_of_order' : i < j => out_of_order'[i] < out_of_order'[j]
    BY <1>3 DEF ReportInv, ReportsOvertaken
  <2>3. Reported' \subseteq NotInTime'
    BY <1>8, <1>9 DEF ReportInv, ReportsOvertaken
  <2>4. \A n \in NotInTime' \ Reported' :
           Len(out_of_order') = MAX_OUT_OF_ORDER /\ \A r \in Reported' : r < n
    BY <1>3, <1>8, <1>9 DEF ReportInv, ReportsOvertaken
  <2> QED
    BY <2>1, <2>2, <2>3, <2>4 DEF ReportsOvertaken
<1>11. \A k \in DOMAIN parsed' : parsed'[k] \in Nat \ {0}
  BY <1>1, <1>4, <1>5, <1>6
<1>12. \A k \in DOMAIN out_of_order' :
          out_of_order'[k] \in Nat /\ out_of_order'[k] < global_expected_seq'
  <2>1. \A k \in DOMAIN out_of_order : out_of_order[k] \in Nat /\ out_of_order[k] < g
    BY DEF ReportInv
  <2>2. \A n \in Nat : n < g => n < h
    BY <1>2, <1>7
  <2> QED
    BY <1>3, <1>7, <2>1, <2>2
<1> QED
  BY <1>7, <1>10, <1>11, <1>12 DEF ReportInv

(* A packet that overtakes: all the numbers of the gap are not in time,    *)
(* and they are reported as far as the array has room.                     *)
LEMMA OvertakingLineReports ==
    ASSUME TypeInv, ReportInv, LineOvertakes
    PROVE  ReportInv'
<1> DEFINE g == global_expected_seq
<1> DEFINE len == Len(out_of_order)
<1> DEFINE new == Len(out_of_order')
<1>1. PICK p \in Nat \ {0} : p = packet_seq
  <2>1. pc = "lines"
    BY DEF LineOvertakes, LineComplete
  <2> QED
    BY <2>1, PacketIsNat
<1>2. g \in Nat \ {0} /\ parsed \in Seq(Nat) /\ out_of_order \in Seq(Nat) /\ p > g
  BY <1>1 DEF TypeInv, TypeOK, LineOvertakes
<1>3. /\ parsed' = Append(parsed, p) /\ global_expected_seq' = p + 1 /\ RecordGap
  BY <1>1 DEF LineOvertakes, ExpectNext
<1>4. /\ DOMAIN parsed' = 1 .. Len(parsed) + 1 /\ DOMAIN parsed = 1 .. Len(parsed)
      /\ Len(parsed) \in Nat
      /\ \A k \in DOMAIN parsed : parsed'[k] = parsed[k]
      /\ parsed'[Len(parsed) + 1] = p
      /\ (\A k \in DOMAIN parsed : parsed[k] < p) => InTime' = InTime \cup {p}
  BY <1>1, <1>2, <1>3, InTimeGrows
<1>5. \A k \in DOMAIN parsed : parsed[k] \in Nat \ {0} /\ parsed[k] < g
  BY DEF ReportInv, ReportsOvertaken
<1>6. InTime' = InTime \cup {p}
  <2>1. \A k \in DOMAIN parsed : parsed[k] < p
    BY <1>1, <1>2, <1>5
  <2> QED
    BY <1>4, <2>1
<1>7. /\ \A n \in InTime : n \in Nat \ {0} /\ n < g
      /\ \A n : n \in NotInTime <=> n \in Nat \ {0} /\ n < g /\ n \notin InTime
      /\ \A n : n \in Reported <=> \E k \in 1 .. len : out_of_order[k] = n
  BY SetsAreNumbers
<1>8. \A n : n \in NotInTime' <=> n \in NotInTime \/ (n \in Nat /\ g <= n /\ n < p)
  <2>1. \A n : n \in NotInTime' <=> n \in 1 .. (p + 1) - 1 /\ n \notin InTime'
    BY <1>3 DEF NotInTime
  <2>2. \A n : n \in 1 .. (p + 1) - 1 <=> n \in Nat \ {0} /\ (n < g \/ (g <= n /\ n < p) \/ n = p)
    BY <1>1, <1>2
  <2>3. \A n \in Nat : n < g => n # p
    BY <1>1, <1>2
  <2>4. \A n \in Nat : g <= n /\ n < p => n # 0 /\ n # p /\ ~(n < g)
    BY <1>1, <1>2
  <2>5. ~(p < g) /\ ~(p < p)
    BY <1>1, <1>2
  <2> QED
    BY <1>6, <1>7, <2>1, <2>2, <2>3, <2>4, <2>5
<1>9. /\ out_of_order' \in Seq(Nat) /\ new <= MAX_OUT_OF_ORDER /\ len <= new
      /\ \A k \in 1 .. len : out_of_order'[k] = out_of_order[k]
      /\ \A k \in len + 1 .. new : out_of_order'[k] = g + (k - len) - 1
      /\ \/ new = len + (p - g)
         \/ new = MAX_OUT_OF_ORDER /\ MAX_OUT_OF_ORDER < len + (p - g)
  BY <1>1, <1>2, <1>3, GapRecorded DEF TypeInv
<1>10. /\ len \in Nat /\ new \in Nat
       /\ DOMAIN out_of_order = 1 .. len /\ DOMAIN out_of_order' = 1 .. new
       /\ len <= MAX_OUT_OF_ORDER /\ MAX_OUT_OF_ORDER \in Nat
  BY <1>2, <1>9, LenProperties, SizesAreNat DEF TypeInv, TypeOK
<1>11. \A k \in 1 .. len : out_of_order[k] \in Nat /\ out_of_order[k] < g
  BY <1>10 DEF ReportInv
<1>12. \A i, j \in 1 .. len : i < j => out_of_order[i] < out_of_order[j]
  BY <1>10 DEF ReportInv, ReportsOvertaken
<1>13. \A n : n \in Reported' <=> \E k \in 1 .. new : out_of_order'[k] = n
  BY <1>10 DEF Reported
<1>14. Reported \subseteq NotInTime
       /\ \A n \in NotInTime \ Reported :
            len = MAX_OUT_OF_ORDER /\ \A r \in Reported : r < n
  BY DEF ReportInv, ReportsOvertaken
<1> HIDE DEF g, len, new
<1>15. \A k \in 1 .. new : \/ k \in 1 .. len
                           \/ k \in len + 1 .. new /\ k > len
  BY <1>10
<1>16. \A k \in len + 1 .. new :
          out_of_order'[k] \in Nat /\ g <= out_of_order'[k] /\ out_of_order'[k] < p
  <2> SUFFICES ASSUME NEW k \in len + 1 .. new
               PROVE  LET v == g + (k - len) - 1 IN v \in Nat /\ g <= v /\ v < p
    BY <1>9
  <2>1. new <= len + (p - g)
    BY <1>2, <1>9, <1>10
  <2> QED
    BY <1>2, <1>10, <2>1
<1>17. \A i, j \in 1 .. new : i < j => out_of_order'[i] < out_of_order'[j]
  <2> SUFFICES ASSUME NEW i \in 1 .. new, NEW j \in 1 .. new, i < j
               PROVE  out_of_order'[i] < out_of_order'[j]
    OBVIOUS
  <2>1. CASE j \in 1 .. len
    <3>1. i \in 1 .. len
      BY <1>10, <2>1
    <3> QED
      BY <1>9, <1>12, <2>1, <3>1
  <2>2. CASE i \in 1 .. len /\ j \in len + 1 .. new
    <3>1. /\ out_of_order'[i] = out_of_order[i]
          /\ out_of_order[i] \in Nat /\ out_of_order[i] < g
          /\ out_of_order'[j] \in Nat /\ g <= out_of_order'[j]
      BY <1>9, <1>11, <1>16, <2>2
    <3> QED
      BY <1>2, <3>1
  <2>3. CASE i \in len + 1 .. new /\ j \in len + 1 .. new
    <3>1. out_of_order'[i] = g + (i - len) - 1 /\ out_of_order'[j] = g + (j - len) - 1
      BY <1>9, <2>3
    <3> QED
      BY <1>2, <1>10, <3>1
  <2>4. j \in len + 1 .. new => i \in 1 .. len \/ i \in len + 1 .. new
    BY <1>10
  <2> QED
    BY <1>15, <2>1, <2>2, <2>3, <2>4
<1>18. Reported' \subseteq NotInTime'
  <2> SUFFICES ASSUME NEW k \in 1 .. new PROVE out_of_order'[k] \in NotInTime'
    BY <1>13
  <2>1. CASE k \in 1 .. len
    BY <1>7, <1>8, <1>9, <1>14, <2>1
  <2>2. CASE k \in len + 1 .. new
    BY <1>8, <1>16, <2>2
  <2> QED
    BY <1>15, <2>1, <2>2
<1>19. Reported \subseteq Reported'
  <2>1. ASSUME NEW k \in 1 .. len PROVE out_of_order[k] \in Reported'
    <3>1. k \in 1 .. new
      BY <1>9, <1>10
    <3> QED
      BY <1>9, <1>13, <3>1
  <2> QED
    BY <1>7, <2>1
<1>20. ASSUME NEW n \in NotInTime', n \notin Reported'
       PROVE  new = MAX_OUT_OF_ORDER /\ \A k \in 1 .. new : out_of_order'[k] < n
  <2>1. CASE n \in NotInTime
    <3>1. len = MAX_OUT_OF_ORDER /\ \A r \in Reported : r < n
      BY <1>14, <1>19, <1>20, <2>1
    <3>2. new = len
      BY <1>9, <1>10, <3>1
    <3>3. \A k \in 1 .. len : out_of_order'[k] \in Reported
      BY <1>7, <1>9
    <3> QED
      BY <3>1, <3>2, <3>3
  <2>2. CASE n \in Nat /\ g <= n /\ n < p
    <3>1. PICK k \in Nat : k = len + (n - g) + 1
      <4>1. len + (n - g) + 1 \in Nat
        BY <1>2, <1>10, <2>2
      <4> QED
        BY <4>1
    <3>2. k > new
      <4>1. ASSUME k <= new PROVE FALSE
        <5>1. k \in len + 1 .. new /\ k \in 1 .. new
          BY <1>2, <1>10, <2>2, <3>1, <4>1
        <5>2. out_of_order'[k] = g + (k - len) - 1
          BY <1>9, <5>1
        <5>3. g + (k - len) - 1 = n
          BY <1>2, <1>10, <2>2, <3>1
        <5> QED
          BY <1>13, <1>20, <5>1, <5>2, <5>3
      <4> QED
        BY <1>10, <4>1
    <3>3. new = MAX_OUT_OF_ORDER
      <4>1. k <= len + (p - g)
        BY <1>2, <1>10, <2>2, <3>1
      <4> QED
        BY <1>2, <1>9, <1>10, <3>2, <4>1
    <3>4. ASSUME NEW i \in 1 .. new PROVE out_of_order'[i] < n
      <4>1. CASE i \in 1 .. len
        <5>1. out_of_order'[i] = out_of_order[i] /\ out_of_order[i] \in Nat
              /\ out_of_order[i] < g
          BY <1>9, <1>11, <4>1
        <5> QED
          BY <1>2, <2>2, <5>1
      <4>2. CASE i \in len + 1 .. new
        <5>1. out_of_order'[i] = g + (i - len) - 1 /\ i < k
          BY <1>9, <1>10, <3>2, <4>2
        <5> QED
          BY <1>2, <1>10, <2>2, <3>1, <4>2, <5>1
      <4> QED
        BY <1>15, <4>1, <4>2
    <3> QED
      BY <3>3, <3>4
  <2> QED
    BY <1>8, <1>20, <2>1, <2>2
<1>21. ReportsOvertaken'
  <2>1. \A k \in DOMAIN parsed' : parsed'[k] < global_expected_seq'
    <3>1. ASSUME NEW k \in DOMAIN parsed PROVE parsed'[k] < p + 1
      BY <1>1, <1>2, <1>4, <1>5, <3>1 DEF g
    <3>2. \A k \in DOMAIN parsed' : k \in DOMAIN parsed \/ parsed'[k] = p
      BY <1>4
    <3> QED
      BY <1>1, <1>3, <3>1, <3>2
  <2>2. \A n \in NotInTime' \ Reported' :
           Len(out_of_order') = MAX_OUT_OF_ORDER /\ \A r \in Reported' : r < n
    BY <1>13, <1>20 DEF new
  <2> QED
    BY <1>10, <1>17, <1>18, <2>1, <2>2 DEF ReportsOvertaken
<1>22. \A k \in DOMAIN parsed' : parsed'[k] \in Nat \ {0}
  BY <1>1, <1>4, <1>5
<1>23. \E k \in DOMAIN parsed' : parsed'[k] = global_expected_seq' - 1
  <2>1. Len(parsed) + 1 \in DOMAIN parsed' /\ (p + 1) - 1 = p
    BY <1>1, <1>4
  <2> QED
    BY <1>3, <1>4, <2>1
<1>24. \A k \in DOMAIN out_of_order' :
          out_of_order'[k] \in Nat /\ out_of_order'[k] < global_expected_seq'
  <2> SUFFICES ASSUME NEW k \in 1 .. new
               PROVE  out_of_order'[k] \in Nat /\ out_of_order'[k] < p + 1
    BY <1>3, <1>10
  <2>1. CASE k \in 1 .. len
    <3>1. out_of_order'[k] = out_of_order[k] /\ out_of_order[k] \in Nat /\ out_of_order[k] < g
      BY <1>9, <1>11, <2>1
    <3> QED
      BY <1>2, <3>1
  <2>2. CASE k \in len + 1 .. new
    <3>1. out_of_order'[k] \in Nat /\ out_of_order'[k] < p
      BY <1>16, <2>2
    <3> QED
      BY <1>1, <3>1
  <2> QED
    BY <1>15, <2>1, <2>2
<1> QED
  BY <1>21, <1>22, <1>23, <1>24 DEF ReportInv

(* Every step keeps the report right.                                      *)
LEMMA StepReport == TypeInv /\ ReportInv /\ [Next]_vars => ReportInv'
<1> SUFFICES ASSUME TypeInv, ReportInv, [Next]_vars PROVE ReportInv'
  OBVIOUS
<1>1. CASE UNCHANGED orderVars
  BY <1>1 DEF orderVars, ReportInv, ReportsOvertaken, InTime, NotInTime, Reported
<1>2. CASE LineExpected \/ LineOld
  BY <1>2, QuietLineReports
<1>3. CASE LineOvertakes
  BY <1>3, OvertakingLineReports
<1>4. CASE ServerStep /\ ~(LineExpected \/ LineOld \/ LineOvertakes)
  BY <1>1, <1>4 DEF ServerStep, LineStep, LoopTest, EpollWait, EpollReturnsNothing, AcceptEvent, Accept, AcceptFails, Exit,
                    TailIgnored, LineLogged, NoMoreLines, Receive, ReceiveEnd
<1>5. CASE Signal \/ (\E c \in Conns : Clients(c)) \/ UNCHANGED vars
  BY <1>1, <1>5 DEF Signal, Clients, vars
<1> QED
  BY <1>2, <1>3, <1>4, <1>5 DEF Next

(* server_final.c reports exactly the packets that were overtaken or lost, *)
(* each once and in order, and the first ones if the array is full.        *)
THEOREM ReportAlwaysRight == Spec => []ReportsOvertaken
<1>1. Init => ReportInv
  <2>1. Init => NotInTime = {}
    BY DEF Init, NotInTime
  <2> QED
    BY <2>1 DEF Init, ReportInv, ReportsOvertaken, Reported
<1>2. TypeInv /\ ReportInv /\ [Next]_vars => ReportInv'
  BY StepReport
<1>3. ReportInv => ReportsOvertaken
  BY DEF ReportInv
<1> QED
  BY <1>1, <1>2, <1>3, AlwaysTyped, PTL DEF Spec

-----------------------------------------------------------------------------
(* Edges: what is in the system without an event for it.                   *)

(* epoll watches every open descriptor, and is asked for events when none  *)
(* is left to be handled.                                                  *)
WatchInv ==
    /\ OpenFds \subseteq registered
    /\ pc = "wait" => batch = {}

EdgeInv == WatchInv /\ NothingStranded

(* Every step keeps epoll watching.                                        *)
LEMMA StepWatch == ASSUME TypeInv, WatchInv, [Next]_vars PROVE WatchInv'
<1> USE DEF WatchInv
<1>1. SocketTypeOK
  BY DEF TypeInv, TypeOK
<1>2. ASSUME UNCHANGED <<owner, registered>> PROVE (OpenFds \subseteq registered)'
  BY <1>2 DEF OpenFds, FDs
<1>3. CASE LoopTest \/ EpollWait \/ EpollReturnsNothing \/ AcceptEvent \/ AcceptFails
  BY <1>2, <1>3
     DEF LoopTest, EpollWait, EpollReturnsNothing, AcceptEvent, AcceptFails, Handle, sockVars,
         pollVars
<1>4. CASE Accept
  <2>1. backlog # <<>> /\ FreeFds # {} /\ AcceptAs(LowestFree, {LowestFree}) /\ pc' = "accept"
    BY <1>4 DEF Accept, CanAccept
  <2>2. OpenFds' = OpenFds \cup {LowestFree}
    BY <1>1, <2>1, AcceptOpensOne
  <2> QED
    BY <2>1, <2>2 DEF AcceptAs
<1>5. ASSUME NEW f \in FDs, Receive(f) PROVE WatchInv'
  BY <1>2, <1>5 DEF Receive, Take
<1>6. ASSUME NEW S, CloseAndAdd(S, {}) PROVE (OpenFds \subseteq registered)'
  <2>1. OpenFds' \subseteq OpenFds \ S /\ registered' = registered \ S
    BY <1>6 DEF CloseAndAdd, OpenFds
  <2> QED
    BY <2>1
<1>7. CASE Exit \/ \E f \in FDs : ReceiveEnd(f)
  <2>1. pc' # "wait"
    BY <1>7 DEF Exit, ReceiveEnd, HandleData, Handle
  <2> QED
    BY <1>6, <1>7, <2>1 DEF Exit, ReceiveEnd
<1>8. CASE \E c \in Conns : Clients(c)
  BY <1>2, <1>8 DEF Clients, Connect, Deliver, Hangup
<1>9. CASE LineStep \/ Signal \/ UNCHANGED vars
  BY <1>2, <1>9
     DEF LineStep, LineExpected, LineOld, LineOvertakes, TailIgnored, LineLogged, NoMoreLines,
         LineComplete, Signal, vars, sockVars, pollVars
<1> QED
  BY <1>3, <1>4, <1>5, <1>7, <1>8, <1>9 DEF Next, ServerStep

(* A step that changes nothing that waits and takes nothing from epoll.    *)
LEMMA SameWaiting ==
    ASSUME NothingStranded, UNCHANGED <<peer, inbox, backlog, owner, edge, batch, cutShort>>,
           pc = "accept" => pc' = "accept"
    PROVE  NothingStranded'
<1>1. Waiting' = Waiting
  BY DEF Waiting, OpenFds, FDs, ListenFd
<1>2. BeingServed \subseteq BeingServed'
  BY DEF BeingServed, ListenFd
<1> QED
  BY <1>1, <1>2 DEF NothingStranded

(* epoll_wait reports, or keeps for the next time, what has an edge.       *)
LEMMA WaitStrandsNone ==
    ASSUME WatchInv, NothingStranded, EpollWait
    PROVE  NothingStranded'
<1>1. /\ batch = {} /\ pc = "wait" /\ edge' \cup batch' = edge \cap Ready
      /\ UNCHANGED <<peer, inbox, backlog, owner, cutShort>>
  BY DEF EpollWait, WatchInv, sockVars
<1>2. Waiting' = Waiting
  BY <1>1 DEF Waiting, OpenFds, FDs, ListenFd
<1>3. Waiting \subseteq Ready
  BY DEF WatchInv, Waiting, Ready, HasData, IsOpen
<1>4. Waiting \subseteq edge \cup cutShort
  BY <1>1 DEF NothingStranded, BeingServed
<1> QED
  BY <1>1, <1>2, <1>3, <1>4 DEF NothingStranded, BeingServed

(* The accept loop leaves a connection only for lack of descriptors.       *)
LEMMA AcceptStrandsNone ==
    ASSUME TypeInv, NothingStranded, AcceptEvent \/ Accept \/ AcceptFails
    PROVE  NothingStranded'
<1>1. SocketTypeOK
  BY DEF TypeInv, TypeOK
<1>2. CASE AcceptEvent
  <2>1. /\ UNCHANGED <<peer, inbox, backlog, owner, edge, cutShort>>
        /\ batch' = batch \ {ListenFd} /\ pc' = "accept" /\ pc = "loop"
    BY <1>2 DEF AcceptEvent, Handle, sockVars
  <2>2. Waiting' = Waiting
    BY <2>1 DEF Waiting, OpenFds, FDs, ListenFd
  <2> QED
    BY <2>1, <2>2 DEF NothingStranded, BeingServed, ListenFd
<1>3. CASE Accept
  <2>1. /\ backlog # <<>> /\ FreeFds # {} /\ AcceptAs(LowestFree, {LowestFree})
        /\ pc = "accept" /\ pc' = "accept"
        /\ edge' = edge \cup EdgeWhenAdded(Head(backlog)) /\ UNCHANGED <<batch, cutShort>>
    BY <1>3 DEF Accept, CanAccept, pollVars
  <2>2. LowestFree \in FDs /\ OpenFds' = OpenFds \cup {LowestFree} /\ LowestFree \notin OpenFds
    BY <1>1, <2>1, AcceptOpensOne, LowestFreeIsFree DEF FreeFds
  <2>3. owner' = [owner EXCEPT ![LowestFree] = Head(backlog)] /\ UNCHANGED <<peer, inbox>>
    BY <2>1 DEF AcceptAs
  <2>4. owner'[LowestFree] = Head(backlog)
        /\ \A f \in FDs : f # LowestFree => owner'[f] = owner[f]
    BY <1>1, <2>2, <2>3 DEF SocketTypeOK
  <2>5. ListenFd \in BeingServed' /\ BeingServed \subseteq BeingServed'
    BY <2>1 DEF BeingServed, ListenFd
  <2>6. LowestFree \in Waiting' => LowestFree \in edge' \cup {ListenFd}
    BY <2>1, <2>3, <2>4 DEF Waiting, EdgeWhenAdded, ListenFd
  <2>7. ASSUME NEW f \in Waiting', f # LowestFree, f # ListenFd PROVE f \in Waiting
    BY <2>2, <2>3, <2>4, <2>7 DEF Waiting, OpenFds, FDs, ListenFd
  <2> QED
    BY <2>1, <2>5, <2>6, <2>7 DEF NothingStranded
<1>4. CASE AcceptFails
  <2>1. /\ UNCHANGED <<peer, inbox, backlog, owner, edge, batch>>
        /\ pc' = "loop" /\ cutShort \ {ListenFd} \subseteq cutShort'
        /\ backlog = <<>> \/ ListenFd \in cutShort'
    BY <1>4 DEF AcceptFails, CanAccept, sockVars
  <2>2. Waiting' = Waiting
    BY <2>1 DEF Waiting, OpenFds, FDs, ListenFd
  <2>3. ListenFd \in Waiting => backlog # <<>>
    BY SocketAssumption DEF Waiting, OpenFds, FDs, ListenFd
  <2> QED
    BY <2>1, <2>2, <2>3 DEF NothingStranded, BeingServed
<1> QED
  BY <1>2, <1>3, <1>4

(* One recv leaves something only if it could not take everything.         *)
LEMMA RecvStrandsNone ==
    ASSUME TypeInv, NothingStranded, NEW f \in FDs, Receive(f)
    PROVE  NothingStranded'
<1> DEFINE c == owner[f]
<1>1. SocketTypeOK
  BY DEF TypeInv, TypeOK
<1>2. /\ Take(f, Received(c)) /\ batch' = batch \ {f} /\ edge' = edge
      /\ f # ListenFd /\ pc = "loop" /\ pc' = "lines"
      /\ cutShort' = IF inbox[c] > Room(c) \/ peer[c] = "gone"
                     THEN cutShort \cup {f} ELSE cutShort \ {f}
  BY DEF Receive, HandleData, Handle
<1>3. c \in Conns /\ inbox[c] \in Nat
  BY <1>1 DEF Receive, HasData, IsOpen, OpenFds, SocketTypeOK
<1>4. Room(c) \in Nat
  <2>1. buf_used[c] \in 0 .. LINE - 1
    BY <1>3 DEF TypeInv, TypeOK
  <2> QED
    BY <2>1, SizesAreNat DEF Room
<1>5. Received(c) \in Nat /\ (inbox[c] <= Room(c) => Received(c) = inbox[c])
  BY <1>3, <1>4 DEF Received
<1>6. inbox' = [inbox EXCEPT ![c] = @ - Received(c)] /\ UNCHANGED <<peer, backlog, owner>>
  BY <1>2 DEF Take
<1>7. inbox'[c] = inbox[c] - Received(c) /\ \A d \in Conns : d # c => inbox'[d] = inbox[d]
  BY <1>1, <1>3, <1>6 DEF SocketTypeOK
<1>8. ASSUME NEW g \in Waiting', g # f PROVE g \in Waiting
  <2>1. CASE g = ListenFd /\ g \notin FDs
    BY <1>6, <2>1 DEF Waiting, OpenFds, FDs, ListenFd
  <2>2. CASE g \in OpenFds
    <3>1. inbox'[owner[g]] > 0 \/ peer[owner[g]] = "gone"
      BY <1>6, <2>2, SocketAssumption DEF Waiting, OpenFds, FDs, ListenFd
    <3>2. owner[g] \in Conns
      BY <1>1, <2>2 DEF OpenFds, SocketTypeOK
    <3>3. inbox'[owner[g]] > 0 => inbox[owner[g]] > 0
      BY <1>3, <1>5, <1>7, <3>2
    <3> QED
      BY <2>2, <3>1, <3>3 DEF Waiting
  <2>3. g \in OpenFds \/ (g = ListenFd /\ g \notin FDs)
    BY <1>6, SocketAssumption DEF Waiting, OpenFds, FDs, ListenFd
  <2> QED
    BY <2>1, <2>2, <2>3
<1>9. f \in Waiting' => f \in cutShort'
  <2> SUFFICES ASSUME f \in Waiting', f \notin cutShort' PROVE FALSE
    OBVIOUS
  <2>1. inbox[c] <= Room(c) /\ peer[c] # "gone"
    BY <1>2, <1>3, <1>4
  <2>2. inbox'[c] = 0
    BY <1>3, <1>5, <1>7, <2>1
  <2>3. inbox'[c] > 0 \/ peer'[c] = "gone"
    BY <1>2, <1>6 DEF Waiting
  <2> QED
    BY <1>6, <2>1, <2>2, <2>3
<1>10. BeingServed \ {f} \subseteq BeingServed' /\ cutShort \ {f} \subseteq cutShort'
  BY <1>2 DEF BeingServed
<1> QED
  BY <1>2, <1>8, <1>9, <1>10 DEF NothingStranded

(* What is closed does not wait; the others are where they were.           *)
LEMMA CloseStrandsNone ==
    ASSUME TypeInv, NothingStranded, NEW S \in SUBSET FDs, CloseAndAdd(S, {}),
           edge \ S \subseteq edge', batch \ S \subseteq batch', cutShort \ S \subseteq cutShort',
           pc # "accept"
    PROVE  NothingStranded'
<1>1. SocketTypeOK
  BY DEF TypeInv, TypeOK
<1>2. UNCHANGED <<peer, backlog>>
  BY DEF CloseAndAdd
<1>3. ASSUME NEW g \in FDs, g \in OpenFds'
      PROVE  /\ g \notin S /\ g \in OpenFds /\ owner'[g] = owner[g]
             /\ inbox'[owner[g]] > 0 => inbox[owner[g]] > 0
  <2>1. g \notin S /\ owner'[g] = owner[g] /\ g \in OpenFds
    BY <1>3 DEF CloseAndAdd, OpenFds
  <2>2. owner[g] \in Conns
    BY <1>1, <2>1 DEF OpenFds, SocketTypeOK
  <2>3. inbox'[owner[g]] = 0 \/ inbox'[owner[g]] = inbox[owner[g]]
    BY <2>2 DEF CloseAndAdd
  <2> QED
    BY <2>1, <2>3
<1>4. Waiting' \subseteq Waiting \ S
  <2> SUFFICES ASSUME NEW g \in Waiting' PROVE g \in Waiting \ S
    OBVIOUS
  <2>1. CASE g \in OpenFds' /\ (inbox'[owner'[g]] > 0 \/ peer'[owner'[g]] = "gone")
    <3>1. g \in FDs
      BY <2>1 DEF OpenFds, FDs
    <3> QED
      BY <1>2, <1>3, <2>1, <3>1 DEF Waiting
  <2>2. CASE g = ListenFd /\ backlog' # <<>>
    BY <1>2, <2>2, SocketAssumption DEF Waiting, ListenFd, FDs
  <2> QED
    BY <2>1, <2>2 DEF Waiting, ListenFd
<1>5. BeingServed \ S \subseteq BeingServed'
  BY DEF BeingServed
<1> QED
  BY <1>4, <1>5 DEF NothingStranded

(* Whatever a client does sets the edge of the descriptor concerned.       *)
LEMMA ClientStrandsNone ==
    ASSUME TypeInv, NothingStranded, NEW c \in Conns, Clients(c)
    PROVE  NothingStranded'
<1>1. SocketTypeOK
  BY DEF TypeInv, TypeOK
<1>2. UNCHANGED <<owner, batch, cutShort, pc>> /\ edge \subseteq edge'
  BY DEF Clients, Connect, Deliver, Hangup
<1>3. BeingServed' = BeingServed /\ OpenFds' = OpenFds
  BY <1>2 DEF BeingServed, OpenFds, FDs, ListenFd
<1>4. CASE Connect(c) /\ edge' = edge \cup {ListenFd}
  <2>1. /\ \A d \in Conns : peer'[d] = "gone" => peer[d] = "gone"
        /\ inbox' = inbox
    BY <1>1, <1>4 DEF Connect, SocketTypeOK
  <2>2. \A f \in OpenFds : owner[f] \in Conns
    BY <1>1 DEF OpenFds, SocketTypeOK
  <2>3. Waiting' \subseteq Waiting \cup {ListenFd}
    BY <1>2, <1>3, <2>1, <2>2 DEF Waiting, ListenFd
  <2> QED
    BY <1>2, <1>3, <1>4, <2>3 DEF NothingStranded
<1>5. CASE (Deliver(c) \/ Hangup(c)) /\ edge' = edge \cup FdsOf(c)
  <2>1. /\ backlog' = backlog
        /\ \A d \in Conns : d # c => peer'[d] = peer[d] /\ inbox'[d] = inbox[d]
    BY <1>1, <1>5 DEF Deliver, Hangup, SocketTypeOK
  <2>2. \A f \in OpenFds : owner[f] \in Conns /\ f \in FDs
    BY <1>1 DEF OpenFds, SocketTypeOK
  <2>3. Waiting' \subseteq Waiting \cup FdsOf(c)
    BY <1>2, <1>3, <2>1, <2>2 DEF Waiting, FdsOf, ListenFd
  <2> QED
    BY <1>2, <1>3, <1>5, <2>3 DEF NothingStranded
<1> QED
  BY <1>4, <1>5 DEF Clients

(* No step strands anything.                                               *)
LEMMA StepStrandsNone == ASSUME TypeInv, EdgeInv, [Next]_vars PROVE NothingStranded'
<1>1. WatchInv /\ NothingStranded
  BY DEF EdgeInv
<1>2. CASE LoopTest \/ EpollReturnsNothing \/ LineStep \/ Signal \/ UNCHANGED vars
  <2>1. UNCHANGED <<sockVars, edge, batch, cutShort>> /\ (pc = "accept" => pc' = "accept")
    BY <1>2
       DEF LoopTest, EpollReturnsNothing, LineStep, LineExpected, LineOld, LineOvertakes,
           TailIgnored, LineLogged, NoMoreLines, LineComplete, Signal, vars, pollVars
  <2> QED
    BY <1>1, <2>1, SameWaiting DEF sockVars
<1>3. CASE EpollWait
  BY <1>1, <1>3, WaitStrandsNone
<1>4. CASE AcceptEvent \/ Accept \/ AcceptFails
  BY <1>1, <1>4, AcceptStrandsNone
<1>5. ASSUME NEW f \in FDs, Receive(f) PROVE NothingStranded'
  BY <1>1, <1>5, RecvStrandsNone
<1>6. ASSUME NEW f \in FDs, ReceiveEnd(f) PROVE NothingStranded'
  <2>1. /\ {f} \in SUBSET FDs /\ CloseAndAdd({f}, {}) /\ edge' = edge \ {f}
        /\ batch' = batch \ {f} /\ cutShort' = cutShort \ {f} /\ pc # "accept"
    BY <1>6 DEF ReceiveEnd, HandleData, Handle
  <2> QED
    BY <1>1, <2>1, CloseStrandsNone
<1>7. CASE Exit
  <2>1. /\ FDs \in SUBSET FDs /\ CloseAndAdd(FDs, {}) /\ edge' = edge /\ batch' = batch
        /\ cutShort' = cutShort /\ pc # "accept"
    BY <1>7 DEF Exit, pollVars
  <2> QED
    BY <1>1, <2>1, CloseStrandsNone
<1>8. ASSUME NEW c \in Conns, Clients(c) PROVE NothingStranded'
  BY <1>1, <1>8, ClientStrandsNone
<1> QED
  BY <1>2, <1>3, <1>4, <1>5, <1>6, <1>7, <1>8 DEF Next, ServerStep

(* Although epoll reports each arrival only once, nothing waits without an *)
(* event but what a handler itself left: the rest of more than a buffer    *)
(* (37), a close behind data, a connection for which there was no          *)
(* descriptor (156).                                                       *)
THEOREM NothingIsStranded == Spec => []NothingStranded
<1>1. Init => EdgeInv
  <2> SUFFICES ASSUME Init PROVE EdgeInv
    OBVIOUS
  <2>1. OpenFds = {} /\ backlog = <<>> /\ pc = "loop"
    BY DEF Init, SocketInit, OpenFds
  <2> QED
    BY <2>1 DEF EdgeInv, WatchInv, NothingStranded, Waiting
<1>2. TypeInv /\ EdgeInv /\ [Next]_vars => EdgeInv'
  BY StepWatch, StepStrandsNone DEF EdgeInv
<1>3. EdgeInv => NothingStranded
  BY DEF EdgeInv
<1> QED
  BY <1>1, <1>2, <1>3, AlwaysTyped, PTL DEF Spec

=============================================================================
