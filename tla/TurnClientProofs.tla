-------------------------- MODULE TurnClientProofs --------------------------
(***************************************************************************)
(* Theorems about the clients that take turns, for any number of           *)
(* connections and packets: no wakeup is lost, packets go out in strict    *)
(* connection order, shares are equal, and a standstill has one cause.     *)
(***************************************************************************)
EXTENDS TurnClient, TLAPS

Holding == {"check", "send", "pass"}
Engaged == Holding \cup {"lock", "parked", "woken"}

(* The mutex is held by the thread that is between lock and unlock.        *)
LockOK == \A t \in Threads : (pc[t] \in Holding) <=> (holder = t)

NotYetCreated == \A t \in Threads : t > created => pc[t] = "none"

EngagedHasPackets == \A t \in Threads : pc[t] \in Engaged => i[t] < PACKETS

TurnIsHeld == \A t \in Threads : pc[t] \in {"send", "pass"} => current_conn = t

PacketIsRound == program = ROUNDS => current_packet = i[TCP_CONN] + 1

Inv ==
    /\ TypeOK
    /\ LockOK
    /\ NotYetCreated
    /\ EngagedHasPackets
    /\ TurnIsHeld
    /\ PacketIsRound
    /\ FairShares
    /\ NoLostWakeup

-----------------------------------------------------------------------------

LEMMA ConstantsOK ==
    /\ TCP_CONN \in Nat \ {0} /\ PACKETS \in Nat /\ MaxSpurious \in Nat
    /\ TCP_CONN \in Threads /\ 1 \in Threads
BY TurnAssumption DEF TurnAssumption, Threads

(* The next of a connection is a connection: the one after it, or 1.       *)
LEMMA NextConnOf ==
    ASSUME NEW c \in Threads
    PROVE  /\ NextConn(c) \in Threads
           /\ NextConn(c) = IF c = TCP_CONN THEN 1 ELSE c + 1
<1>1. /\ TCP_CONN \in Nat /\ TCP_CONN > 0
      /\ c \in Nat /\ c >= 1 /\ c <= TCP_CONN
  BY ConstantsOK DEF Threads
<1>2. CASE c = TCP_CONN
  <2>1. c % TCP_CONN = 0
    BY <1>1, <1>2
  <2> QED
    BY <2>1, <1>1, <1>2 DEF NextConn, Threads
<1>3. CASE c < TCP_CONN
  <2>1. c % TCP_CONN = c
    BY <1>1, <1>3
  <2> QED
    BY <2>1, <1>1, <1>3 DEF NextConn, Threads
<1> QED
  BY <1>1, <1>2, <1>3

LEMMA InitInv == Init => Inv
BY ConstantsOK, TurnAssumption
   DEF Init, Inv, TypeOK, LockOK, NotYetCreated, EngagedHasPackets, TurnIsHeld,
       PacketIsRound, FairShares, NoLostWakeup, Holding, Engaged, Places, Packet,
       Threads, NoThread, TurnAssumption

(* With the shares as they are, the packet counter of client8.c adds       *)
(* nothing to the test of the turn.                                        *)
LEMMA TurnIsEnough ==
    ASSUME TypeOK, PacketIsRound, FairShares, NEW t \in Threads
    PROVE  MyTurn(t) <=> current_conn = t
<1>1. current_conn = t => i[t] = i[TCP_CONN]
  BY ConstantsOK DEF TypeOK, FairShares, Threads
<1> QED
  BY <1>1 DEF MyTurn, PacketIsRound

-----------------------------------------------------------------------------
(* One lemma for the steps that only move a thread between places, with    *)
(* the mutex; the steps that send or pass the turn follow in the theorem.  *)

LEMMA TypeStep == TypeOK /\ EngagedHasPackets /\ [Next]_vars => TypeOK'
<1> SUFFICES ASSUME TypeOK, EngagedHasPackets, [Next]_vars PROVE TypeOK'
  OBVIOUS
<1> USE ConstantsOK DEF TypeOK, Places, At, Goto, vars, threadVars, turnVars, netVars, timeVars
<1>1. CASE CreateThread
  BY <1>1 DEF CreateThread, Threads
<1>2. CASE JoinAll
  BY <1>2 DEF JoinAll
<1>3. CASE Expire
  BY <1>3 DEF Expire
<1>4. ASSUME NEW t \in Threads, Connect(t) PROVE TypeOK'
  BY <1>4 DEF Connect
<1>5. ASSUME NEW t \in Threads, StartPacket(t) PROVE TypeOK'
  BY <1>5 DEF StartPacket
<1>6. ASSUME NEW t \in Threads, Leave(t) PROVE TypeOK'
  BY <1>6 DEF Leave
<1>7. ASSUME NEW t \in Threads, Lock(t) PROVE TypeOK'
  BY <1>7 DEF Lock, AfterWait
<1>8. ASSUME NEW t \in Threads, Wait(t) PROVE TypeOK'
  BY <1>8 DEF Wait
<1>9. ASSUME NEW t \in Threads, TakeTurn(t) PROVE TypeOK'
  BY <1>9 DEF TakeTurn
<1>10. ASSUME NEW t \in Threads, Send(t) PROVE TypeOK'
  <2>1. PacketNumber(t) \in Nat
    BY TurnAssumption DEF PacketNumber, TurnAssumption
  <2>2. log' \in Seq(Packet)
    BY <1>10, <2>1 DEF Send, Packet
  <2> QED
    BY <1>10, <2>2 DEF Send
<1>11. ASSUME NEW t \in Threads, BrokenPipe(t) PROVE TypeOK'
  BY <1>11 DEF BrokenPipe
<1>12. ASSUME NEW t \in Threads, PassTurn(t) PROVE TypeOK'
  <2>1. i[t] < PACKETS
    BY <1>12 DEF PassTurn, EngagedHasPackets, Engaged, Holding
  <2>2. i' \in [Threads -> 0..PACKETS]
    BY <1>12, <2>1 DEF PassTurn
  <2>3. pc' \in [Threads -> Places]
    BY <1>12 DEF PassTurn, Woken
  <2>4. NextConn(current_conn) \in Threads
    BY NextConnOf
  <2>5. NextPacket(current_packet) \in Nat
    BY DEF NextPacket
  <2> QED
    BY <1>12, <2>2, <2>3, <2>4, <2>5 DEF PassTurn
<1>13. ASSUME NEW t \in Threads, ConnectFails(t) PROVE TypeOK'
  BY <1>13 DEF ConnectFails
<1>14. ASSUME NEW t \in Threads, WakeSpuriously(t) PROVE TypeOK'
  BY <1>14 DEF WakeSpuriously
<1>15. ASSUME NEW t \in Threads, Reset(t) PROVE TypeOK'
  BY <1>15 DEF Reset
<1>16. CASE UNCHANGED vars
  BY <1>16
<1> QED
  BY <1>1, <1>2, <1>3, <1>4, <1>5, <1>6, <1>7, <1>8, <1>9, <1>10, <1>11, <1>12,
     <1>13, <1>14, <1>15, <1>16 DEF Next, ThreadStep

(* Who holds the mutex, who may send, who still waits.                     *)
Guarding == LockOK /\ NotYetCreated /\ EngagedHasPackets /\ TurnIsHeld
Sharing == PacketIsRound /\ FairShares /\ NoLostWakeup

LEMMA GuardingStep == Inv /\ [Next]_vars => Guarding'
<1> SUFFICES ASSUME Inv, [Next]_vars PROVE Guarding'
  OBVIOUS
<1> USE ConstantsOK DEF Inv, TypeOK, Guarding, LockOK, NotYetCreated, EngagedHasPackets,
        TurnIsHeld, Holding, Engaged, NoThread, Threads, At, Goto, vars, threadVars,
        turnVars, netVars, timeVars
<1>1. CASE CreateThread
  <2>1. created + 1 \in Threads /\ pc[created + 1] = "none"
    BY <1>1 DEF CreateThread
  <2>2. \A u \in Threads : pc'[u] = IF u = created + 1 THEN "connect" ELSE pc[u]
    BY <1>1 DEF CreateThread
  <2>3. LockOK'
    BY <1>1, <2>1, <2>2 DEF CreateThread
  <2>4. NotYetCreated'
    BY <1>1, <2>2 DEF CreateThread
  <2>5. EngagedHasPackets' /\ TurnIsHeld'
    BY <1>1, <2>1, <2>2 DEF CreateThread
  <2> QED
    BY <2>3, <2>4, <2>5
<1>2. CASE JoinAll
  BY <1>2 DEF JoinAll
<1>3. CASE Expire
  BY <1>3 DEF Expire
<1>4. ASSUME NEW t \in Threads, Connect(t) PROVE Guarding'
  BY <1>4 DEF Connect
<1>5. ASSUME NEW t \in Threads, StartPacket(t) PROVE Guarding'
  BY <1>5 DEF StartPacket
<1>6. ASSUME NEW t \in Threads, Leave(t) PROVE Guarding'
  BY <1>6 DEF Leave
<1>7. ASSUME NEW t \in Threads, Lock(t) PROVE Guarding'
  BY <1>7 DEF Lock, AfterWait
<1>8. ASSUME NEW t \in Threads, TakeTurn(t) PROVE Guarding'
  BY <1>8 DEF TakeTurn, MyTurn
<1>9. ASSUME NEW t \in Threads, Send(t) PROVE Guarding'
  BY <1>9 DEF Send
<1>10. ASSUME NEW t \in Threads, BrokenPipe(t) PROVE Guarding'
  BY <1>10 DEF BrokenPipe
<1>11. ASSUME NEW t \in Threads, ConnectFails(t) PROVE Guarding'
  BY <1>11 DEF ConnectFails
<1>12. ASSUME NEW t \in Threads, WakeSpuriously(t) PROVE Guarding'
  BY <1>12 DEF WakeSpuriously
<1>13. ASSUME NEW t \in Threads, Reset(t) PROVE Guarding'
  BY <1>13 DEF Reset
<1>14. ASSUME NEW t \in Threads, Wait(t) PROVE Guarding'
  BY <1>14 DEF Wait
<1>15. ASSUME NEW t \in Threads, PassTurn(t) PROVE Guarding'
  <2>1. \A u \in Threads : u # t => pc[u] \notin Holding
    BY <1>15 DEF PassTurn
  <2>2. \A u \in Threads : pc'[u] \notin Holding
    BY <1>15, <2>1 DEF PassTurn, Woken
  <2>3. LockOK' /\ TurnIsHeld'
    BY <1>15, <2>2 DEF PassTurn
  <2>4. NotYetCreated'
    BY <1>15 DEF PassTurn, Woken
  <2>5. EngagedHasPackets'
    BY <1>15 DEF PassTurn, Woken
  <2> QED
    BY <2>3, <2>4, <2>5
<1>16. CASE UNCHANGED vars
  BY <1>16
<1> QED
  BY <1>1, <1>2, <1>3, <1>4, <1>5, <1>6, <1>7, <1>8, <1>9, <1>10, <1>11, <1>12, <1>13, <1>14, <1>15, <1>16
     DEF Next, ThreadStep

(* The turn moves on by one, and so does the share of the one who had it.  *)
LEMMA PassShares ==
    ASSUME Inv, NEW t \in Threads, PassTurn(t)
    PROVE  Sharing'
<1>1. /\ current_conn = t
      /\ current_conn' = IF t = TCP_CONN THEN 1 ELSE t + 1
      /\ \A u \in Threads : i'[u] = IF u = t THEN i[u] + 1 ELSE i[u]
      /\ i \in [Threads -> Nat]
  BY NextConnOf DEF Inv, TypeOK, TurnIsHeld, PassTurn, At
<1>2. PacketIsRound'
  BY <1>1, ConstantsOK DEF Inv, TypeOK, PassTurn, NextPacket, PacketIsRound
<1>3. FairShares'
  BY <1>1, ConstantsOK DEF Inv, FairShares, Threads
<1>4. NoLostWakeup'
  BY DEF Inv, TypeOK, PassTurn, Woken, NoLostWakeup
<1> QED
  BY <1>2, <1>3, <1>4 DEF Sharing

LEMMA SharingStep == Inv /\ [Next]_vars => Sharing'
<1> SUFFICES ASSUME Inv, [Next]_vars PROVE Sharing'
  OBVIOUS
<1> USE DEF Inv, TypeOK, Sharing, PacketIsRound, FairShares, NoLostWakeup, At, Goto, vars,
        threadVars, turnVars, netVars, timeVars
<1>1. CASE CreateThread
  BY <1>1 DEF CreateThread
<1>2. CASE JoinAll
  BY <1>2 DEF JoinAll
<1>3. CASE Expire
  BY <1>3 DEF Expire
<1>4. ASSUME NEW t \in Threads, Connect(t) PROVE Sharing'
  BY <1>4 DEF Connect
<1>5. ASSUME NEW t \in Threads, StartPacket(t) PROVE Sharing'
  BY <1>5 DEF StartPacket
<1>6. ASSUME NEW t \in Threads, Leave(t) PROVE Sharing'
  BY <1>6 DEF Leave
<1>7. ASSUME NEW t \in Threads, Lock(t) PROVE Sharing'
  BY <1>7 DEF Lock, AfterWait
<1>8. ASSUME NEW t \in Threads, TakeTurn(t) PROVE Sharing'
  BY <1>8 DEF TakeTurn
<1>9. ASSUME NEW t \in Threads, Send(t) PROVE Sharing'
  BY <1>9 DEF Send
<1>10. ASSUME NEW t \in Threads, BrokenPipe(t) PROVE Sharing'
  BY <1>10 DEF BrokenPipe
<1>11. ASSUME NEW t \in Threads, ConnectFails(t) PROVE Sharing'
  BY <1>11 DEF ConnectFails
<1>12. ASSUME NEW t \in Threads, WakeSpuriously(t) PROVE Sharing'
  BY <1>12 DEF WakeSpuriously
<1>13. ASSUME NEW t \in Threads, Reset(t) PROVE Sharing'
  BY <1>13 DEF Reset
<1>14. ASSUME NEW t \in Threads, Wait(t) PROVE Sharing'
  <2>1. current_conn # t
    BY <1>14, TurnIsEnough DEF Wait
  <2> QED
    BY <1>14, <2>1 DEF Wait
<1>15. ASSUME NEW t \in Threads, PassTurn(t) PROVE Sharing'
  BY <1>15, PassShares
<1>16. CASE UNCHANGED vars
  BY <1>16
<1> QED
  BY <1>1, <1>2, <1>3, <1>4, <1>5, <1>6, <1>7, <1>8, <1>9, <1>10, <1>11, <1>12, <1>13, <1>14, <1>15, <1>16
     DEF Next, ThreadStep

THEOREM InvHolds == Spec => []Inv
<1>1. Inv /\ [Next]_vars => Inv'
  BY TypeStep, GuardingStep, SharingStep DEF Inv, Guarding, Sharing
<1> QED
  BY <1>1, InitInv, PTL DEF Spec

-----------------------------------------------------------------------------

(* Types, and no thread sends more than its packets.                       *)
THEOREM TurnClientTypeCorrect == Spec => []TypeOK
BY InvHolds, PTL DEF Inv

(* A thread whose turn it is never waits (client_final.c 34-44).           *)
THEOREM NoWakeupIsLost == Spec => []NoLostWakeup
BY InvHolds, PTL DEF Inv

(* No connection is more than one packet ahead (clientexp2_time.c 84-85).  *)
THEOREM SharesAreFair == Spec => []FairShares
BY InvHolds, PTL DEF Inv

(* The round counter of client8.c never delays a turn (49, 74).            *)
THEOREM RoundCounterAgrees == Spec => []RoundsAgree
<1>1. Inv => RoundsAgree
  BY TurnIsEnough DEF Inv, RoundsAgree
<1> QED
  BY <1>1, InvHolds, PTL

-----------------------------------------------------------------------------
(* The order of the packets. Between send and the passing of the turn the  *)
(* last packet is that of the turn, otherwise the turn is the next one.    *)

Passing == \E t \in Threads : pc[t] = "pass"

LastPacket == log[Len(log)]

LogOK ==
    /\ program = COUNTED => global_packet_id = Len(log) + 1
    /\ Passing => /\ log # <<>>
                  /\ LastPacket.conn = current_conn
                  /\ program = ROUNDS => LastPacket.id = current_packet
    /\ ~Passing /\ log = <<>> => current_conn = 1 /\ current_packet = 1
    /\ ~Passing /\ log # <<>> =>
         /\ current_conn = NextConn(LastPacket.conn)
         /\ program = ROUNDS =>
              current_packet = LastPacket.id + (IF current_conn = 1 THEN 1 ELSE 0)

Ordered == StrictConnectionOrder /\ LogOK

LEMMA InitOrdered == Init => Ordered
BY DEF Init, Ordered, StrictConnectionOrder, LogOK, Passing

LEMMA SendOrdered ==
    ASSUME Inv, Ordered, NEW t \in Threads, Send(t)
    PROVE  Ordered'
<1> DEFINE p == [conn |-> t, id |-> PacketNumber(t), taken |-> link[t] = "up"]
<1>1. /\ t = current_conn /\ MyTurn(t)
      /\ pc[t] = "send" /\ pc' = [pc EXCEPT ![t] = "pass"]
      /\ UNCHANGED <<program, current_conn, current_packet>>
      /\ i[t] \in Nat /\ current_packet \in Nat /\ pc \in [Threads -> Places]
      /\ program \in {COUNTED, ROUNDS, TIMED}
  BY TurnIsEnough, TurnAssumption
     DEF Inv, TypeOK, TurnIsHeld, Send, At, Goto, turnVars, TurnAssumption
<1>2. ~Passing /\ Passing'
  BY <1>1 DEF Inv, LockOK, Holding, Passing
<1>3. /\ log \in Seq(Packet) /\ Len(log) \in Nat
      /\ log' = Append(log, p)
      /\ Len(log') = Len(log) + 1
      /\ log'[Len(log) + 1] = p
      /\ \A k \in 1..Len(log) : log'[k] = log[k]
      /\ DOMAIN log = 1..Len(log) /\ DOMAIN log' = 1..(Len(log) + 1)
  <2>1. log \in Seq(Packet) /\ log' = Append(log, p)
    BY DEF Inv, TypeOK, Send
  <2> HIDE DEF p
  <2> QED
    BY <2>1
<1>4. /\ program = COUNTED => p.id = global_packet_id
      /\ program = ROUNDS => p.id = current_packet
      /\ p.conn = t
  BY <1>1 DEF PacketNumber, MyTurn, COUNTED, ROUNDS, TIMED
<1> HIDE DEF p
<1>5. LogOK'
  <2>1. program' = COUNTED => global_packet_id' = Len(log') + 1
    BY <1>1, <1>3 DEF Ordered, LogOK, Send
  <2>2. log' # <<>> /\ LastPacket' = p
    BY <1>3 DEF LastPacket
  <2> QED
    BY <1>1, <1>2, <1>4, <2>1, <2>2 DEF LogOK
<1>6. StrictConnectionOrder'
  <2>1. SUFFICES ASSUME NEW k \in DOMAIN log'
        PROVE  /\ log'[k].conn = IF k = 1 THEN 1 ELSE NextConn(log'[k - 1].conn)
               /\ program = COUNTED => log'[k].id = k
               /\ program = ROUNDS =>
                    log'[k].id = IF k = 1 THEN 1
                                 ELSE log'[k - 1].id + (IF log'[k].conn = 1 THEN 1 ELSE 0)
    BY <1>1 DEF StrictConnectionOrder, NextConn
  <2>2. CASE k \in 1..Len(log)
    <3>1. /\ log'[k] = log[k] /\ k \in DOMAIN log
          /\ k # 1 => log'[k - 1] = log[k - 1]
      BY <1>3, <2>2
    <3> QED
      BY <3>1 DEF Ordered, StrictConnectionOrder
  <2>3. CASE k = Len(log) + 1
    <3>1. log'[k] = p
      BY <1>3, <2>3
    <3>2. CASE log = <<>>
      <4>1. k = 1 /\ t = 1 /\ current_packet = 1
        BY <1>1, <1>2, <1>3, <2>3, <3>2 DEF Ordered, LogOK
      <4>2. program = COUNTED => global_packet_id = 1
        BY <3>2, <1>3, <2>3, <4>1 DEF Ordered, LogOK
      <4> QED
        BY <3>1, <4>1, <4>2, <1>4
    <3>3. CASE log # <<>>
      <4>1. k # 1 /\ log'[k - 1] = LastPacket
        <5>1. Len(log) \in 1..Len(log)
          BY <1>3, <3>3
        <5>2. log'[Len(log)] = log[Len(log)]
          BY <1>3, <5>1
        <5>3. k # 1 /\ k - 1 = Len(log)
          BY <1>3, <2>3, <5>1
        <5> QED
          BY <5>2, <5>3 DEF LastPacket
      <4>2. /\ t = NextConn(LastPacket.conn)
            /\ program = COUNTED => global_packet_id = k
            /\ program = ROUNDS =>
                 current_packet = LastPacket.id + (IF t = 1 THEN 1 ELSE 0)
        BY <1>1, <1>2, <2>3, <3>3 DEF Ordered, LogOK
      <4> QED
        BY <3>1, <4>1, <4>2, <1>4
    <3> QED
      BY <3>2, <3>3
  <2> QED
    BY <1>3, <2>2, <2>3
<1> QED
  BY <1>5, <1>6 DEF Ordered

LEMMA PassOrdered ==
    ASSUME Inv, Ordered, NEW t \in Threads, PassTurn(t)
    PROVE  Ordered'
<1>1. UNCHANGED <<program, log, global_packet_id>>
  BY DEF PassTurn, netVars
<1>2. Passing /\ ~Passing'
  <2>1. pc[t] = "pass" /\ pc' = [Woken(pc) EXCEPT ![t] = "test"]
    BY DEF PassTurn, At
  <2>2. \A u \in Threads : u # t => pc[u] # "pass"
    BY <2>1 DEF Inv, LockOK, Holding
  <2> QED
    BY <2>1, <2>2 DEF Passing, Woken
<1>3. /\ current_conn' = NextConn(current_conn)
      /\ current_conn' = 1 <=> current_conn = TCP_CONN
      /\ current_packet' = NextPacket(current_packet)
  <2>1. current_conn \in Threads /\ current_conn' = NextConn(current_conn)
    BY DEF Inv, TypeOK, PassTurn
  <2>2. NextConn(current_conn) = 1 <=> current_conn = TCP_CONN
    BY <2>1, NextConnOf, ConstantsOK DEF Threads
  <2> QED
    BY <2>1, <2>2 DEF PassTurn
<1>4. LogOK'
  BY <1>1, <1>2, <1>3 DEF Ordered, LogOK, LastPacket, NextPacket, Inv, TypeOK
<1>5. StrictConnectionOrder'
  BY <1>1 DEF Ordered, StrictConnectionOrder, NextConn
<1> QED
  BY <1>4, <1>5 DEF Ordered

(* No other step sends, or passes the turn.                                *)
LEMMA OtherSteps ==
    ASSUME Inv, [Next]_vars, \A t \in Threads : ~Send(t) /\ ~PassTurn(t)
    PROVE  /\ UNCHANGED <<program, log, global_packet_id, current_conn, current_packet, i>>
           /\ Passing' <=> Passing
<1> DEFINE Same == /\ UNCHANGED <<program, log, global_packet_id, current_conn, current_packet, i>>
                   /\ Passing' <=> Passing
<1> USE DEF Inv, TypeOK, Passing, At, Goto, vars, threadVars, turnVars, netVars, timeVars
<1>1. CASE CreateThread
  <2>1. created + 1 \in Threads /\ pc[created + 1] = "none"
    BY <1>1, ConstantsOK DEF CreateThread, NotYetCreated, Threads
  <2> QED
    BY <1>1, <2>1 DEF CreateThread
<1>2. CASE JoinAll
  BY <1>2 DEF JoinAll
<1>3. CASE Expire
  BY <1>3 DEF Expire
<1>4. ASSUME NEW t \in Threads, Connect(t) PROVE Same
  BY <1>4 DEF Connect
<1>5. ASSUME NEW t \in Threads, StartPacket(t) PROVE Same
  BY <1>5 DEF StartPacket
<1>6. ASSUME NEW t \in Threads, Leave(t) PROVE Same
  BY <1>6 DEF Leave
<1>7. ASSUME NEW t \in Threads, Lock(t) PROVE Same
  BY <1>7 DEF Lock, AfterWait
<1>8. ASSUME NEW t \in Threads, Wait(t) PROVE Same
  BY <1>8 DEF Wait
<1>9. ASSUME NEW t \in Threads, TakeTurn(t) PROVE Same
  BY <1>9 DEF TakeTurn
<1>10. ASSUME NEW t \in Threads, BrokenPipe(t) PROVE Same
  BY <1>10 DEF BrokenPipe
<1>11. ASSUME NEW t \in Threads, ConnectFails(t) PROVE Same
  BY <1>11 DEF ConnectFails
<1>12. ASSUME NEW t \in Threads, WakeSpuriously(t) PROVE Same
  BY <1>12 DEF WakeSpuriously
<1>13. ASSUME NEW t \in Threads, Reset(t) PROVE Same
  BY <1>13 DEF Reset
<1>14. CASE UNCHANGED vars
  BY <1>14
<1> QED
  BY <1>1, <1>2, <1>3, <1>4, <1>5, <1>6, <1>7, <1>8, <1>9, <1>10, <1>11, <1>12, <1>13, <1>14
     DEF Next, ThreadStep

(* Packets go out in strict connection order (client_final.c 66), whatever *)
(* the threads' interleaving, refused or reset connections or wakeups.     *)
THEOREM PacketsInOrder == Spec => []StrictConnectionOrder
<1>1. Inv /\ Ordered /\ [Next]_vars => Ordered'
  <2> SUFFICES ASSUME Inv, Ordered, [Next]_vars PROVE Ordered'
    OBVIOUS
  <2>1. CASE \A t \in Threads : ~Send(t) /\ ~PassTurn(t)
    <3>1. /\ UNCHANGED <<program, log, global_packet_id, current_conn, current_packet>>
          /\ Passing' <=> Passing
      BY <2>1, OtherSteps
    <3> QED
      BY <3>1 DEF Ordered, StrictConnectionOrder, LogOK, LastPacket, NextConn
  <2> QED
    BY <2>1, SendOrdered, PassOrdered
<1> QED
  BY <1>1, InvHolds, InitOrdered, PTL DEF Spec, Ordered

(* The threads implement the abstract round robin (client_final.c 34-43).  *)
THEOREM ClientsTakeTurns == Spec => TakesTurns
<1>1. Init => Rounds!RoundInit
  BY DEF Init, Rounds!RoundInit, Rounds!Members, Threads
<1>2. Inv /\ [Next]_vars => [Rounds!TakeTurn]_(Rounds!roundVars)
  <2> SUFFICES ASSUME Inv, [Next]_vars
               PROVE  Rounds!TakeTurn \/ UNCHANGED <<current_conn, i>>
    BY DEF Rounds!roundVars
  <2>1. CASE \A t \in Threads : ~Send(t) /\ ~PassTurn(t)
    BY <2>1, OtherSteps
  <2>2. ASSUME NEW t \in Threads, Send(t) PROVE UNCHANGED <<current_conn, i>>
    BY <2>2 DEF Send, turnVars
  <2>3. ASSUME NEW t \in Threads, PassTurn(t) PROVE Rounds!TakeTurn
    BY <2>3 DEF PassTurn, At, Inv, TurnIsHeld, Rounds!TakeTurn, NextConn
  <2> QED
    BY <2>1, <2>2, <2>3
<1> QED
  BY <1>1, <1>2, InvHolds, PTL DEF Spec, TakesTurns, Rounds!RoundSpec

=============================================================================
