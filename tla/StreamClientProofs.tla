------------------------- MODULE StreamClientProofs -------------------------
(***************************************************************************)
(* Theorems about the sending clients, for messages, socket buffers and    *)
(* counts of any size.                                                     *)
(***************************************************************************)
EXTENDS StreamClient, TLAPS

(* The sizes are numbers.                                                  *)
LEMMA SizesAreNat ==
    /\ BUFFER_SIZE \in Nat \ {0} /\ SNDBUF \in Nat \ {0} /\ MSGS_PER_CONN \in Nat \ {0}
    /\ NUM_MESSAGES \in Nat /\ CHECK_EVERY \in Nat \ {0} /\ MaxMsgs \in Nat
BY ClientAssumption

-----------------------------------------------------------------------------
(* Type correctness.                                                       *)

(* Nothing is half taken outside a blocking send, which per.c never makes; *)
(* non.c sends no more than msgs_per_conn messages on a connection;        *)
(* clientexp2.c is not interrupted.                                        *)
SendOK ==
    /\ pc # "sending" => copied = 0
    /\ program = PER => pc # "sending"
    /\ program = NON =>
         /\ msgs_sent <= MSGS_PER_CONN
         /\ pc = "sending" => msgs_sent < MSGS_PER_CONN
    /\ program \notin {PER, NON} => running

TypeInv == TypeOK /\ SendOK

(* The names of the programs are different.                                *)
LEMMA ProgramsDiffer ==
    /\ PER # NON /\ PER # PERSISTENT /\ PER # FREQUENT
    /\ NON # PERSISTENT /\ NON # FREQUENT
BY DEF PER, NON, PERSISTENT, FREQUENT

(* The state before the first connection is well typed.                    *)
LEMMA InitTyped == Init => TypeInv
<1> SUFFICES ASSUME Init PROVE TypeInv
  OBVIOUS
<1>1. bytes_to_send \in 1 .. BUFFER_SIZE /\ copied \in 0 .. bytes_to_send
      /\ buffered \in 0 .. SNDBUF
  BY SizesAreNat DEF Init
<1>2. program \in Programs
  BY ClientAssumption DEF Init, Programs
<1>3. msgs_sent <= MSGS_PER_CONN /\ copied = 0 /\ pc = "start" /\ running
  BY SizesAreNat DEF Init
<1> QED
  BY <1>1, <1>2, <1>3 DEF Init, TypeInv, TypeOK, SendOK

(* What the counting of a send keeps.                                      *)
LEMMA CountSentTyped ==
    ASSUME TypeOK, NEW n \in Nat, n <= bytes_to_send, CountSent(n)
    PROVE  /\ bytes_to_send' \in 1 .. BUFFER_SIZE
           /\ msgs_sent' \in Nat /\ total_msgs_sent' \in Nat
           /\ \/ Counts(n) /\ bytes_to_send' = BUFFER_SIZE
                 /\ msgs_sent' = msgs_sent + 1 /\ total_msgs_sent' = total_msgs_sent + 1
              \/ ~Counts(n) /\ bytes_to_send' = bytes_to_send - n
                 /\ msgs_sent' = msgs_sent /\ total_msgs_sent' = total_msgs_sent
<1>1. bytes_to_send \in 1 .. BUFFER_SIZE /\ msgs_sent \in Nat /\ total_msgs_sent \in Nat
      /\ BUFFER_SIZE \in Nat \ {0}
  BY SizesAreNat DEF TypeOK
<1>2. CASE Counts(n)
  BY <1>1, <1>2 DEF CountSent
<1>3. CASE ~Counts(n)
  <2>1. n < bytes_to_send
    BY <1>1, <1>3 DEF Counts
  <2> QED
    BY <1>1, <1>3, <2>1 DEF CountSent
<1> QED
  BY <1>2, <1>3

(* Looking at the clock or not, `over` is a Boolean.                       *)
LEMMA OverTyped ==
    ASSUME TypeOK, LookAtClock \/ UNCHANGED over
    PROVE  over' \in BOOLEAN
BY Zenon DEF TypeOK, LookAtClock

(* A step of per.c keeps the state well typed.                             *)
LEMMA SendNowTyped ==
    ASSUME TypeInv, NEW n \in 1 .. BUFFER_SIZE, SendNow(n)
    PROVE  TypeInv'
<1>1. n \in Nat /\ n <= bytes_to_send /\ CountSent(n) /\ buffered + n <= SNDBUF
      /\ buffered' = buffered + n
  BY SizesAreNat DEF SendNow
<1>2. bytes_to_send' \in 1 .. BUFFER_SIZE /\ msgs_sent' \in Nat /\ total_msgs_sent' \in Nat
  BY <1>1, CountSentTyped DEF TypeInv
<1>3. over' \in BOOLEAN
  BY OverTyped DEF SendNow, TypeInv
<1>4. copied' = 0 /\ copied' \in 0 .. bytes_to_send'
  BY <1>2, SizesAreNat DEF SendNow, TypeInv, SendOK
<1>5. buffered' \in 0 .. SNDBUF /\ total_bytes_sent' \in Nat
  BY <1>1, SizesAreNat DEF SendNow, TypeInv, TypeOK
<1>6. program' = PER /\ pc' = "send"
  BY DEF SendNow
<1>7. /\ running' \in BOOLEAN /\ time_up' \in BOOLEAN /\ sent_in_time' \in Nat /\ i' \in Nat
      /\ total_connections' \in Nat /\ non_complete' \in Nat
      /\ link' \in {"none", "up", "closed", "reset", "broken"}
      /\ arrived' \in Nat /\ lost' \in Nat /\ closes' \in Nat
  BY DEF SendNow, TypeInv, TypeOK
<1> QED
  BY <1>2, <1>3, <1>4, <1>5, <1>6, <1>7, ProgramsDiffer DEF TypeInv, TypeOK, SendOK, Programs

(* The steps of a blocking send keep it well typed.                        *)
LEMMA SendTyped ==
    ASSUME TypeInv, Send \/ SendTakes \/ SendReturns \/ SendFails \/ LastSent
    PROVE  TypeInv'
<1> USE DEF TypeInv, TypeOK, SendOK
<1>1. CASE Send
  <2>1. program = NON => msgs_sent < MSGS_PER_CONN
    BY <1>1, ProgramsDiffer DEF Send, SendsAgain
  <2> QED
    BY <1>1, <2>1 DEF Send, timeVars, msgVars, totalVars, netVars
<1>2. CASE SendTakes
  <2>1. copied' \in 0 .. bytes_to_send' /\ buffered' \in 0 .. SNDBUF
        /\ bytes_to_send' = bytes_to_send /\ msgs_sent' = msgs_sent /\ pc' = "sending"
        /\ pc = "sending" /\ program' = program
    BY <1>2, SizesAreNat DEF SendTakes
  <2> QED
    BY <1>2, <2>1 DEF SendTakes, timeVars, totalVars
<1>3. CASE SendReturns
  <2>1. copied \in Nat /\ copied <= bytes_to_send /\ CountSent(copied)
    BY <1>3, SizesAreNat DEF SendReturns
  <2>2. /\ bytes_to_send' \in 1 .. BUFFER_SIZE /\ msgs_sent' \in Nat
        /\ total_msgs_sent' \in Nat /\ msgs_sent' <= msgs_sent + 1
    BY <2>1, CountSentTyped
  <2>3. copied' = 0 /\ copied' \in 0 .. bytes_to_send' /\ pc = "sending" /\ pc' = "send"
        /\ program' = program
    BY <1>3, <2>2, SizesAreNat DEF SendReturns
  <2>4. program = NON => msgs_sent' <= MSGS_PER_CONN
    BY <2>2, <2>3, SizesAreNat
  <2> QED
    BY <1>3, <2>2, <2>3, <2>4 DEF SendReturns, timeVars, netVars
<1>4. CASE SendFails
  <2>1. pc' \in {"done", "killed"} /\ copied = 0
    BY <1>4 DEF SendFails
  <2> QED
    BY <1>4, <2>1 DEF SendFails, timeVars, msgVars, totalVars, netVars
<1>5. CASE LastSent
  BY <1>5 DEF LastSent, timeVars, msgVars, totalVars, netVars
<1> QED
  BY <1>1, <1>2, <1>3, <1>4, <1>5

(* Opening and closing connections keeps the state well typed.             *)
LEMMA ConnectionTyped ==
    ASSUME TypeInv, LoopTest \/ SocketFails \/ Connect \/ ConnectFails \/ Leave \/ Close
    PROVE  TypeInv'
<1> USE DEF TypeInv, TypeOK, SendOK
<1>1. NextConnection => i' \in Nat
  BY SizesAreNat DEF NextConnection
<1>2. CASE Connect
  <2>1. bytes_to_send' \in 1 .. BUFFER_SIZE /\ copied' \in 0 .. bytes_to_send'
        /\ copied' = 0 /\ msgs_sent' = 0 /\ msgs_sent' <= MSGS_PER_CONN
        /\ buffered' \in 0 .. SNDBUF /\ pc' = "send"
    BY <1>2, SizesAreNat DEF Connect
  <2> QED
    BY <1>2, <2>1 DEF Connect, timeVars, totalVars
<1>3. CASE ConnectFails
  <2>1. over' \in BOOLEAN
    BY <1>3, OverTyped DEF ConnectFails
  <2>2. pc' \in {"start", "exited"} /\ pc = "socket"
    BY <1>3 DEF ConnectFails
  <2> QED
    BY <1>1, <1>3, <2>1, <2>2 DEF ConnectFails, msgVars, totalVars, netVars
<1>4. CASE Leave
  BY <1>4 DEF Leave, timeVars, msgVars, totalVars, netVars
<1>5. CASE Close
  <2>1. over' \in BOOLEAN
    BY <1>5, OverTyped DEF Close
  <2>2. pc' \in {"start", "exited"} /\ pc = "done"
    BY <1>5 DEF Close
  <2>3. total_connections' \in Nat /\ non_complete' \in Nat
    BY <1>5 DEF Close, CountConnection
  <2>4. arrived' \in Nat /\ lost' \in Nat /\ buffered' \in 0 .. SNDBUF
    BY <1>5, SizesAreNat DEF Close
  <2> QED
    BY <1>1, <1>5, <2>1, <2>2, <2>3, <2>4 DEF Close, msgVars
<1>6. CASE LoopTest
  BY <1>6 DEF LoopTest, timeVars, msgVars, totalVars, netVars
<1>7. CASE SocketFails
  <2>1. pc' \in {"start", "exited"} /\ pc = "socket"
    BY <1>7 DEF SocketFails
  <2> QED
    BY <1>1, <1>7, <2>1 DEF SocketFails, timeVars, msgVars, totalVars, netVars
<1> QED
  BY <1>2, <1>3, <1>4, <1>5, <1>6, <1>7

(* The network, the server, the clock and a signal keep it well typed.     *)
LEMMA OutsideTyped ==
    ASSUME TypeInv, ServerStep \/ TimeIsUp \/ Signal
    PROVE  TypeInv'
<1> USE DEF TypeInv, TypeOK, SendOK
<1>1. CASE Arrive
  <2>1. buffered' \in 0 .. SNDBUF /\ arrived' \in Nat
    BY <1>1, SizesAreNat DEF Arrive
  <2> QED
    BY <1>1, <2>1 DEF Arrive, timeVars, msgVars, totalVars
<1>2. CASE ServerResets \/ ServerAnswers
  <2>1. buffered' \in 0 .. SNDBUF /\ lost' \in Nat /\ closes' \in Nat
    BY <1>2, SizesAreNat DEF ServerResets, ServerAnswers
  <2> QED
    BY <1>2, <2>1 DEF ServerResets, ServerAnswers, timeVars, msgVars, totalVars
<1>3. CASE ServerCloses
  BY <1>3 DEF ServerCloses, timeVars, msgVars, totalVars
<1>4. CASE TimeIsUp
  BY <1>4 DEF TimeIsUp, msgVars, totalVars, netVars
<1>5. CASE Signal
  BY <1>5 DEF Signal, timeVars, msgVars, totalVars, netVars
<1> QED
  BY <1>1, <1>2, <1>3, <1>4, <1>5 DEF ServerStep

(* Every step keeps the state well typed.                                  *)
LEMMA StepTyped == TypeInv /\ [Next]_vars => TypeInv'
<1> SUFFICES ASSUME TypeInv, [Next]_vars PROVE TypeInv'
  OBVIOUS
<1>1. CASE ClientStep
  BY <1>1, SendNowTyped, SendTyped, ConnectionTyped DEF ClientStep
<1>2. CASE ServerStep \/ TimeIsUp \/ Signal
  BY <1>2, OutsideTyped
<1>3. CASE UNCHANGED vars
  BY <1>3 DEF vars, timeVars, msgVars, totalVars, netVars, TypeInv, TypeOK, SendOK
<1> QED
  BY <1>1, <1>2, <1>3 DEF Next

(* The length passed to send is always that of the rest of the present     *)
(* message, at least 1 and at most BUFFER_SIZE (non.c 117-127, per.c       *)
(* 108-119).                                                               *)
THEOREM TypeCorrect == Spec => []TypeOK
<1>1. Init => TypeInv
  BY InitTyped
<1>2. TypeInv /\ [Next]_vars => TypeInv'
  BY StepTyped
<1>3. TypeInv => TypeOK
  BY DEF TypeInv
<1> QED
  BY <1>1, <1>2, <1>3, PTL DEF Spec

(* The stronger invariant, for the proofs that follow.                     *)
LEMMA AlwaysTyped == Spec => []TypeInv
<1>1. Init => TypeInv
  BY InitTyped
<1>2. TypeInv /\ [Next]_vars => TypeInv'
  BY StepTyped
<1> QED
  BY <1>1, <1>2, PTL DEF Spec

-----------------------------------------------------------------------------
(* The stream.                                                             *)

(* per.c's total is that of its only connection.                           *)
StreamInv ==
    /\ StreamIsWhole
    /\ program = PER /\ pc \in {"start", "socket"} => total_bytes_sent = 0

(* One message more is BUFFER_SIZE units more.                             *)
LEMMA OneMore == \A m, b \in Nat : (m + 1) * b = m * b + b
OBVIOUS

(* Counting a send adds to the stream what send has taken.                 *)
LEMMA CountSentAdds ==
    ASSUME TypeOK, NEW n \in Nat, n <= bytes_to_send, CountSent(n),
           program \in {PER, NON} \/ n = bytes_to_send
    PROVE  Sent \in Int /\ Sent' = Sent + n
<1>1. /\ bytes_to_send \in 1 .. BUFFER_SIZE /\ msgs_sent \in Nat /\ BUFFER_SIZE \in Nat
  BY SizesAreNat DEF TypeOK
<1> DEFINE whole == msgs_sent * BUFFER_SIZE
<1>2. whole \in Nat /\ (msgs_sent + 1) * BUFFER_SIZE = whole + BUFFER_SIZE
  BY <1>1, OneMore
<1>3. Sent = whole + (BUFFER_SIZE - bytes_to_send)
  BY DEF Sent
<1>4. CASE n = bytes_to_send
  <2>1. bytes_to_send' = BUFFER_SIZE /\ msgs_sent' = msgs_sent + 1
    BY <1>1, <1>4, CountSentTyped DEF Counts
  <2>2. Sent' = (msgs_sent + 1) * BUFFER_SIZE + (BUFFER_SIZE - BUFFER_SIZE)
    BY <2>1 DEF Sent
  <2> HIDE DEF whole
  <2> QED
    BY <1>1, <1>2, <1>3, <1>4, <2>2
<1>5. CASE n # bytes_to_send
  <2>1. bytes_to_send' = bytes_to_send - n /\ msgs_sent' = msgs_sent
    BY <1>1, <1>5, CountSentTyped, ProgramsDiffer DEF Counts
  <2>2. Sent' = whole + (BUFFER_SIZE - (bytes_to_send - n))
    BY <2>1 DEF Sent
  <2> HIDE DEF whole
  <2> QED
    BY <1>1, <1>2, <1>3, <2>2
<1> QED
  BY <1>4, <1>5

(* A new connection starts a new stream.                                   *)
LEMMA NewStream ==
    ASSUME TypeOK, Connect
    PROVE  Sent' = 0
<1>1. msgs_sent' = 0 /\ bytes_to_send' = BUFFER_SIZE /\ BUFFER_SIZE \in Nat
  BY SizesAreNat DEF Connect
<1> QED
  BY <1>1 DEF Sent

(* No step loses or invents a unit.                                        *)
LEMMA StepWhole == TypeInv /\ StreamInv /\ [Next]_vars => StreamInv'
<1> SUFFICES ASSUME TypeInv, StreamInv, [Next]_vars PROVE StreamInv'
  OBVIOUS
<1> USE DEF StreamInv, StreamIsWhole
<1>0. /\ Sent \in Int /\ copied \in Nat /\ arrived \in Nat /\ buffered \in Nat
      /\ lost \in Nat /\ bytes_to_send \in Nat /\ total_bytes_sent \in Nat
  <2>1. /\ copied \in Nat /\ arrived \in Nat /\ buffered \in Nat /\ lost \in Nat
        /\ bytes_to_send \in Nat /\ total_bytes_sent \in Nat /\ msgs_sent \in Nat
        /\ BUFFER_SIZE \in Nat
    BY SizesAreNat DEF TypeInv, TypeOK
  <2> QED
    BY <2>1 DEF Sent
<1>1. UNCHANGED <<bytes_to_send, msgs_sent>> => Sent' = Sent
  BY DEF Sent
<1>2. ASSUME UNCHANGED <<program, msgVars, total_bytes_sent, arrived, buffered, lost>>,
             pc' \in {"start", "socket"} => pc \in {"start", "socket"},
             link' \in {"up", "closed"} => link \in {"up", "closed"}
      PROVE  StreamInv'
  BY <1>1, <1>2 DEF msgVars
<1>3. CASE Connect
  BY <1>3, NewStream DEF Connect, timeVars, totalVars, TypeInv
<1>4. CASE ConnectFails
  BY <1>2, <1>4 DEF ConnectFails, totalVars, netVars
<1>5. CASE LoopTest \/ SocketFails \/ Leave \/ Send \/ SendFails \/ LastSent
  BY <1>2, <1>5
     DEF LoopTest, SocketFails, Leave, Send, SendFails, LastSent, totalVars, netVars
<1>6. ASSUME NEW n \in 1 .. BUFFER_SIZE, SendNow(n) PROVE StreamInv'
  <2>1. n \in Nat /\ n <= bytes_to_send /\ CountSent(n) /\ buffered' = buffered + n
        /\ total_bytes_sent' = total_bytes_sent + n
        /\ UNCHANGED <<program, pc, copied, arrived, lost, link>> /\ pc = "send"
        /\ program \in {PER, NON}
    BY <1>6, SizesAreNat DEF SendNow
  <2>2. Sent' = Sent + n
    BY <2>1, CountSentAdds DEF TypeInv
  <2> QED
    BY <1>0, <2>1, <2>2
<1>7. CASE SendTakes
  <2>1. copied' = copied + 1 /\ buffered' = buffered + 1
        /\ UNCHANGED <<program, pc, link, bytes_to_send, msgs_sent, arrived, lost,
                       total_bytes_sent>>
    BY <1>7 DEF SendTakes, totalVars
  <2> QED
    BY <1>0, <1>1, <2>1
<1>8. CASE SendReturns
  <2>1. copied \in Nat /\ copied <= bytes_to_send /\ CountSent(copied) /\ copied' = 0
        /\ UNCHANGED <<program, link, buffered, arrived, lost, total_bytes_sent>>
        /\ pc = "sending" /\ pc' = "send"
    BY <1>8, SizesAreNat DEF SendReturns, netVars, TypeInv, TypeOK
  <2>2. program \in {PER, NON} \/ link \in {"up", "closed"} => Sent' = Sent + copied
    <3>1. program \in {PER, NON} \/ link \notin {"up", "closed"} \/ copied = bytes_to_send
      BY <1>8 DEF SendReturns, TypeInv, SendOK
    <3> QED
      BY <2>1, <3>1, CountSentAdds DEF TypeInv
  <2>3. program # PER
    BY <2>1 DEF TypeInv, SendOK
  <2> QED
    BY <1>0, <2>1, <2>2, <2>3
<1>9. CASE Close
  <2>1. /\ arrived' + buffered' + lost' = arrived + buffered + lost
        /\ UNCHANGED <<program, bytes_to_send, msgs_sent, copied, total_bytes_sent>>
        /\ program = PER => pc' = "exited"
        /\ link' = "none"
    BY <1>0, <1>9 DEF Close, msgVars, OneConnection
  <2> QED
    BY <1>0, <1>1, <2>1
<1>10. CASE Arrive
  BY <1>0, <1>1, <1>10 DEF Arrive, msgVars, totalVars
<1>11. CASE ServerResets \/ ServerAnswers
  <2>1. /\ buffered' = 0 /\ lost' = lost + buffered
        /\ link' \notin {"up", "closed"}
        /\ UNCHANGED <<program, pc, bytes_to_send, msgs_sent, copied, total_bytes_sent, arrived>>
    BY <1>11 DEF ServerResets, ServerAnswers, msgVars, totalVars
  <2> QED
    BY <1>0, <1>1, <2>1
<1>12. CASE ServerCloses \/ TimeIsUp \/ Signal
  BY <1>2, <1>12 DEF ServerCloses, TimeIsUp, Signal, totalVars, netVars
<1>13. CASE UNCHANGED vars
  BY <1>2, <1>13 DEF vars, msgVars, totalVars, netVars
<1> QED
  BY <1>3, <1>4, <1>5, <1>6, <1>7, <1>8, <1>9, <1>10, <1>11, <1>12, <1>13
     DEF Next, ClientStep, ServerStep

(* However send divides the messages, and whatever becomes of the          *)
(* connections, the counters say exactly what was handed to the network.   *)
THEOREM StreamAlwaysWhole == Spec => []StreamIsWhole
<1>1. Init => StreamInv
  <2> SUFFICES ASSUME Init PROVE StreamInv
    OBVIOUS
  <2>1. Sent = 0
    BY SizesAreNat DEF Init, Sent
  <2> QED
    BY <2>1 DEF Init, StreamInv, StreamIsWhole
<1>2. TypeInv /\ StreamInv /\ [Next]_vars => StreamInv'
  BY StepWhole
<1>3. StreamInv => StreamIsWhole
  BY DEF StreamInv
<1> QED
  BY <1>1, <1>2, <1>3, AlwaysTyped, PTL DEF Spec

-----------------------------------------------------------------------------
(* The totals of non.c.                                                    *)

(* One more of anything.                                                   *)
LEMMA OneMoreOf == \A n \in Nat, m \in Int : n * m \in Int /\ (n + 1) * m = n * m + m
OBVIOUS

(* Closing a connection moves its messages into the totals.                *)
LEMMA CloseAddsUp ==
    ASSUME TypeInv, ReportAddsUp, program = NON, Close
    PROVE  ReportAddsUp'
<1>1. /\ pc = "done" /\ pc' = "start" /\ total_msgs_sent' = total_msgs_sent
      /\ msgs_sent' = msgs_sent /\ CountConnection
  BY ProgramsDiffer DEF Close, msgVars, OneConnection
<1> DEFINE whole == total_connections * MSGS_PER_CONN
<1> DEFINE parts == non_complete * (MSGS_PER_CONN - 1)
<1> DEFINE rest == total_msgs_sent - msgs_sent - whole
<1>2. /\ total_msgs_sent \in Nat /\ msgs_sent \in Nat /\ msgs_sent <= MSGS_PER_CONN
      /\ total_connections \in Nat /\ non_complete \in Nat
      /\ MSGS_PER_CONN \in Nat \ {0} /\ MSGS_PER_CONN - 1 \in Nat
  BY SizesAreNat DEF TypeInv, TypeOK, SendOK
<1>3. /\ whole \in Int /\ (total_connections + 1) * MSGS_PER_CONN = whole + MSGS_PER_CONN
      /\ parts \in Int
      /\ (non_complete + 1) * (MSGS_PER_CONN - 1) = parts + (MSGS_PER_CONN - 1)
  BY <1>2, OneMoreOf
<1>4. 0 <= rest /\ rest <= parts
  BY <1>1 DEF ReportAddsUp, OfOpenConnection
<1>5. OfOpenConnection' = 0
  BY <1>1 DEF OfOpenConnection
<1>6. CASE msgs_sent = MSGS_PER_CONN
  <2>1. total_connections' = total_connections + 1 /\ non_complete' = non_complete
    BY <1>1, <1>6 DEF CountConnection
  <2>2. SUFFICES /\ 0 <= total_msgs_sent - 0 - (total_connections + 1) * MSGS_PER_CONN
                 /\ total_msgs_sent - 0 - (total_connections + 1) * MSGS_PER_CONN <= parts
    BY <1>1, <1>5, <2>1 DEF ReportAddsUp
  <2> HIDE DEF whole, parts
  <2> QED
    BY <1>2, <1>3, <1>4, <1>6
<1>7. CASE msgs_sent # MSGS_PER_CONN
  <2>1. total_connections' = total_connections /\ non_complete' = non_complete + 1
    BY <1>1, <1>7 DEF CountConnection
  <2>2. SUFFICES /\ 0 <= total_msgs_sent - 0 - whole
                 /\ total_msgs_sent - 0 - whole <= (non_complete + 1) * (MSGS_PER_CONN - 1)
    BY <1>1, <1>5, <2>1 DEF ReportAddsUp
  <2> HIDE DEF whole, parts
  <2> QED
    BY <1>2, <1>3, <1>4, <1>7
<1> QED
  BY <1>6, <1>7

(* Every step keeps the totals in agreement.                               *)
LEMMA StepAddsUp == TypeInv /\ ReportAddsUp /\ [Next]_vars => ReportAddsUp'
<1> SUFFICES ASSUME TypeInv, ReportAddsUp, [Next]_vars, program' = NON, pc' # "killed"
             PROVE  ReportAddsUp'
  BY DEF ReportAddsUp
<1>1. program = NON
  BY DEF Next, ClientStep, ServerStep, LoopTest, SocketFails, Connect, ConnectFails, Leave, SendNow, Send,
         SendTakes, SendReturns, SendFails, LastSent, Close, Arrive, ServerResets,
         ServerCloses, ServerAnswers, TimeIsUp, Signal, vars
<1>2. ASSUME UNCHANGED <<program, total_connections, non_complete>>, pc # "killed",
             total_msgs_sent' - OfOpenConnection' = total_msgs_sent - OfOpenConnection
      PROVE  ReportAddsUp'
  BY <1>1, <1>2 DEF ReportAddsUp
<1>3. total_msgs_sent \in Nat /\ msgs_sent \in Nat
  BY DEF TypeInv, TypeOK
<1>4. CASE Connect
  BY <1>2, <1>4 DEF Connect, totalVars, OfOpenConnection
<1>5. CASE LoopTest \/ SocketFails \/ ConnectFails \/ Leave
  BY <1>2, <1>5 DEF LoopTest, SocketFails, ConnectFails, Leave, totalVars, msgVars, OfOpenConnection
<1>6. CASE Send \/ SendTakes \/ SendFails \/ LastSent
  BY <1>2, <1>6 DEF Send, SendTakes, SendFails, LastSent, totalVars, msgVars,
                    OfOpenConnection
<1>7. ASSUME NEW n \in 1 .. BUFFER_SIZE PROVE ~SendNow(n)
  BY <1>1, ProgramsDiffer DEF SendNow
<1>8. CASE SendReturns
  <2>1. copied \in Nat /\ copied <= bytes_to_send /\ CountSent(copied)
    BY <1>8, SizesAreNat DEF SendReturns, TypeInv, TypeOK
  <2>2. \/ msgs_sent' = msgs_sent + 1 /\ total_msgs_sent' = total_msgs_sent + 1
        \/ msgs_sent' = msgs_sent /\ total_msgs_sent' = total_msgs_sent
    BY <2>1, CountSentTyped DEF TypeInv
  <2>3. OfOpenConnection = msgs_sent /\ OfOpenConnection' = msgs_sent'
    BY <1>8 DEF SendReturns, OfOpenConnection
  <2>4. total_msgs_sent' - OfOpenConnection' = total_msgs_sent - OfOpenConnection
    BY <1>3, <2>2, <2>3
  <2> QED
    BY <1>2, <1>8, <2>4 DEF SendReturns
<1>9. CASE Close
  BY <1>1, <1>9, CloseAddsUp
<1>10. CASE ServerStep \/ TimeIsUp \/ Signal \/ UNCHANGED vars
  BY <1>2, <1>10 DEF ServerStep, Arrive, ServerResets, ServerCloses, ServerAnswers, TimeIsUp,
                     Signal, vars, totalVars, msgVars, OfOpenConnection
<1> QED
  BY <1>4, <1>5, <1>6, <1>7, <1>8, <1>9, <1>10 DEF Next, ClientStep

(* The report of non.c accounts for every message, with any number per     *)
(* connection, however the connections end.                                *)
THEOREM ReportAlwaysAddsUp == Spec => []ReportAddsUp
<1>1. Init => ReportAddsUp
  <2> SUFFICES ASSUME Init PROVE ReportAddsUp
    OBVIOUS
  <2>1. 0 * MSGS_PER_CONN = 0 /\ 0 * (MSGS_PER_CONN - 1) = 0
    BY SizesAreNat
  <2> QED
    BY <2>1 DEF Init, ReportAddsUp, OfOpenConnection
<1>2. TypeInv /\ ReportAddsUp /\ [Next]_vars => ReportAddsUp'
  BY StepAddsUp
<1> QED
  BY <1>1, <1>2, AlwaysTyped, PTL DEF Spec

-----------------------------------------------------------------------------
(* The run time.                                                           *)

(* Of any CHECK_EVERY numbers in a row one is a multiple of CHECK_EVERY.   *)
LEMMA MultipleWithin ==
    ASSUME NEW c \in Nat \ {0}, NEW s \in Nat
    PROVE  \E m \in Nat : s < m /\ m <= s + c /\ m % c = 0
<1> DEFINE q == s \div c
<1>1. q \in Nat /\ s = c * q + (s % c) /\ s % c \in 0 .. c - 1
  OBVIOUS
<1>2. (q + 1) * c = c * q + c /\ c * q \in Nat
  BY <1>1
<1>3. ((q + 1) * c) % c = 0
  <2>1. \A k \in Nat : (k * c) % c = 0
    OBVIOUS
  <2> QED
    BY <1>1, <2>1
<1>4. s < (q + 1) * c /\ (q + 1) * c <= s + c /\ (q + 1) * c \in Nat
  <2> DEFINE p == c * q
  <2>1. p \in Nat /\ s = p + (s % c) /\ (q + 1) * c = p + c /\ s % c \in 0 .. c - 1
    BY <1>1, <1>2
  <2> HIDE DEF p
  <2> QED
    BY <2>1
<1> QED
  BY <1>3, <1>4

(* per.c cannot pass a multiple of CHECK_EVERY without seeing the time;    *)
(* non.c opens no connection after it has closed one in overtime.          *)
TimeInv ==
    /\ sent_in_time <= total_msgs_sent
    /\ program = PER /\ time_up =>
         /\ total_msgs_sent <= sent_in_time + CHECK_EVERY
         /\ ~over => \A m \in Nat : sent_in_time < m /\ m <= total_msgs_sent
                                     => m % CHECK_EVERY # 0
    /\ program = NON /\ time_up =>
         /\ total_msgs_sent <= sent_in_time + MSGS_PER_CONN
         /\ pc \in {"start", "socket"} /\ ~over => total_msgs_sent = sent_in_time
         /\ pc \in {"send", "sending", "done"} =>
              total_msgs_sent <= sent_in_time + msgs_sent
    /\ program = NON /\ pc = "socket" => ~over
    /\ ~time_up => sent_in_time = 0

(* A send of per.c keeps the bound: at the latest the multiple of          *)
(* CHECK_EVERY makes it look at the clock.                                 *)
LEMMA SendNowInTime ==
    ASSUME TypeInv, TimeInv, NEW n \in 1 .. BUFFER_SIZE, SendNow(n)
    PROVE  TimeInv'
<1>1. /\ program = PER /\ program' = PER /\ ~over /\ PER # NON
      /\ time_up' = time_up /\ sent_in_time' = sent_in_time
      /\ total_msgs_sent' % CHECK_EVERY = 0 => over' = time_up
      /\ CountSent(n) /\ n \in Nat /\ n <= bytes_to_send
  BY SizesAreNat, ProgramsDiffer DEF SendNow, SendsAgain, LookAtClock
<1>2. /\ total_msgs_sent \in Nat /\ sent_in_time \in Nat /\ CHECK_EVERY \in Nat \ {0}
  BY SizesAreNat DEF TypeInv, TypeOK
<1>3. total_msgs_sent' \in {total_msgs_sent, total_msgs_sent + 1}
  BY <1>1, CountSentTyped DEF TypeInv
<1>4. sent_in_time' <= total_msgs_sent'
  BY <1>1, <1>2, <1>3 DEF TimeInv
<1>5. CASE ~time_up
  BY <1>1, <1>4, <1>5 DEF TimeInv
<1>6. CASE time_up
  <2>1. \A m \in Nat : sent_in_time < m /\ m <= total_msgs_sent => m % CHECK_EVERY # 0
    BY <1>1, <1>6 DEF TimeInv
  <2>2. PICK m \in Nat : sent_in_time < m /\ m <= sent_in_time + CHECK_EVERY
                          /\ m % CHECK_EVERY = 0
    BY <1>2, MultipleWithin
  <2>3. m > total_msgs_sent
    BY <1>2, <2>1, <2>2
  <2>4. total_msgs_sent' <= sent_in_time + CHECK_EVERY
    BY <1>2, <1>3, <2>2, <2>3
  <2>5. ASSUME ~over', NEW k \in Nat, sent_in_time < k, k <= total_msgs_sent'
        PROVE  k % CHECK_EVERY # 0
    <3>1. CASE k <= total_msgs_sent
      BY <2>1, <2>5, <3>1
    <3>2. CASE k > total_msgs_sent
      <4>1. k = total_msgs_sent'
        BY <1>2, <1>3, <2>5, <3>2
      <4> QED
        BY <1>1, <1>6, <2>5, <4>1
    <3> QED
      BY <1>2, <3>1, <3>2
  <2> QED
    BY <1>1, <1>4, <1>6, <2>4, <2>5 DEF TimeInv
<1> QED
  BY <1>5, <1>6

(* Every step keeps the bound.                                             *)
LEMMA StepInTime == TypeInv /\ TimeInv /\ [Next]_vars => TimeInv'
<1> SUFFICES ASSUME TypeInv, TimeInv, [Next]_vars PROVE TimeInv'
  OBVIOUS
<1>0. /\ total_msgs_sent \in Nat /\ sent_in_time \in Nat /\ msgs_sent \in Nat
      /\ CHECK_EVERY \in Nat \ {0} /\ MSGS_PER_CONN \in Nat \ {0} /\ PER # NON
      /\ (program = NON => msgs_sent <= MSGS_PER_CONN)
  BY SizesAreNat, ProgramsDiffer DEF TypeInv, TypeOK, SendOK
<1>1. ASSUME UNCHANGED <<program, timeVars, total_msgs_sent, msgs_sent>>,
             \/ pc' = pc
             \/ pc' \in {"exited", "killed"}
             \/ pc = "socket" /\ pc' = "start"
             \/ pc \in {"send", "sending"} /\ pc' \in {"sending", "done"}
      PROVE  TimeInv'
  BY <1>0, <1>1 DEF TimeInv, timeVars
<1>2. CASE Connect
  <2>1. /\ pc = "socket" /\ pc' = "send" /\ msgs_sent' = 0
        /\ UNCHANGED <<program, timeVars, total_msgs_sent>>
    BY <1>2 DEF Connect, totalVars
  <2> QED
    BY <1>0, <2>1 DEF TimeInv, timeVars
<1>3. CASE ConnectFails
  <2>1. /\ pc = "socket" /\ pc' \in {"start", "exited"}
        /\ UNCHANGED <<program, time_up, sent_in_time, total_msgs_sent, msgs_sent>>
        /\ program = NON => over' = time_up
        /\ program # NON => over' = over
    BY <1>3 DEF ConnectFails, totalVars, msgVars, LookAtClock
  <2> QED
    BY <1>0, <2>1 DEF TimeInv
<1>4. CASE SocketFails \/ Leave \/ Send \/ SendTakes \/ SendFails \/ LastSent
  BY <1>1, <1>4
     DEF SocketFails, Leave, Send, SendTakes, SendFails, LastSent, totalVars, msgVars
<1>5. ASSUME NEW n \in 1 .. BUFFER_SIZE, SendNow(n) PROVE TimeInv'
  BY <1>5, SendNowInTime
<1>6. CASE SendReturns
  <2>1. copied \in Nat /\ copied <= bytes_to_send /\ CountSent(copied)
        /\ pc = "sending" /\ pc' = "send" /\ UNCHANGED <<program, timeVars>>
    BY <1>6, SizesAreNat DEF SendReturns, TypeInv, TypeOK
  <2>2. \/ msgs_sent' = msgs_sent + 1 /\ total_msgs_sent' = total_msgs_sent + 1
        \/ msgs_sent' = msgs_sent /\ total_msgs_sent' = total_msgs_sent
    BY <2>1, CountSentTyped DEF TypeInv
  <2>3. program # PER /\ (program = NON => msgs_sent < MSGS_PER_CONN)
    BY <2>1 DEF TypeInv, SendOK
  <2> QED
    BY <1>0, <2>1, <2>2, <2>3 DEF TimeInv, timeVars
<1>7. CASE Close
  <2>1. /\ pc = "done" /\ pc' \in {"start", "exited"}
        /\ UNCHANGED <<program, time_up, sent_in_time, total_msgs_sent, msgs_sent>>
        /\ program = NON => over' = time_up
        /\ program # NON => over' = over
    BY <1>7 DEF Close, msgVars, LookAtClock
  <2>2. CASE program = NON /\ time_up
    <3>1. over' /\ time_up' /\ program' # PER
      BY <1>0, <2>1, <2>2
    <3>2. total_msgs_sent <= sent_in_time + MSGS_PER_CONN
      BY <1>0, <2>2 DEF TimeInv
    <3> QED
      BY <1>0, <2>1, <2>2, <3>1, <3>2 DEF TimeInv
  <2>3. CASE program # NON \/ ~time_up
    BY <1>0, <2>1, <2>3 DEF TimeInv
  <2> QED
    BY <2>2, <2>3
<1>8. CASE ServerStep \/ Signal \/ UNCHANGED vars
  BY <1>1, <1>8 DEF ServerStep, Arrive, ServerResets, ServerCloses, ServerAnswers, Signal,
                    vars, totalVars, msgVars
<1>9. CASE TimeIsUp
  <2>1. /\ time_up' = TRUE /\ sent_in_time' = total_msgs_sent
        /\ UNCHANGED <<program, pc, over, msgs_sent, total_msgs_sent>>
    BY <1>9 DEF TimeIsUp, msgVars, totalVars
  <2> QED
    BY <1>0, <2>1 DEF TimeInv
<1>10. CASE LoopTest
  <2>1. /\ pc = "start" /\ pc' = "socket"
        /\ UNCHANGED <<program, timeVars, total_msgs_sent, msgs_sent>>
        /\ program = NON => ~over
    BY <1>0, <1>10, ProgramsDiffer
       DEF LoopTest, totalVars, msgVars, ConnectsAgain, OneConnection
  <2> QED
    BY <1>0, <2>1 DEF TimeInv, timeVars
<1> QED
  BY <1>2, <1>3, <1>4, <1>5, <1>6, <1>7, <1>8, <1>9, <1>10 DEF Next, ClientStep

(* After the run time is over, per.c sends at most CHECK_EVERY messages    *)
(* and non.c at most those of one connection.                              *)
THEOREM OverrunAlwaysBounded == Spec => []OverrunIsBounded
<1>1. Init => TimeInv
  BY DEF Init, TimeInv
<1>2. TypeInv /\ TimeInv /\ [Next]_vars => TimeInv'
  BY StepInTime
<1>3. TimeInv => OverrunIsBounded
  BY DEF TimeInv, OverrunIsBounded
<1> QED
  BY <1>1, <1>2, <1>3, AlwaysTyped, PTL DEF Spec

=============================================================================
