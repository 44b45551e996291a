---------------------------- MODULE MCExp1Server ----------------------------
(***************************************************************************)
(* The servers of experiment 1 with three connections that take turns, the *)
(* third of which loses its packet, and descriptors for two: what arrives  *)
(* fits into the buffer or not, lines arrive in pieces, and everything may *)
(* be delayed.  The connections are opened in their order.                 *)
(***************************************************************************)
EXTENDS Exp1Server

ThreeConns == 1 .. 3
BothServers == {FINAL, LOGS}
Packets == <<2 * LINE, LINE, 0>>
StartOrder == [c \in ThreeConns |-> 1 .. c - 1]
NoneBefore == [c \in ThreeConns |-> {}]

FairSpec == Spec /\ WF_vars(ServerStep)

(* What has arrived is read in the end, unless the server is stopped, or   *)
(* the last recv on the connection did not take everything (37), or the    *)
(* connection waits and the last accept found no descriptor (156): what is *)
(* left then is read only if the kernel has a new event for it.            *)
LeftBehind(c) ==
    \/ \E f \in FdsOf(c) : f \in cutShort
    \/ FdsOf(c) = {} /\ ListenFd \in cutShort

ArrivedIsRead ==
    \A c \in Conns : (inbox[c] > 0) ~> (inbox[c] = 0 \/ LeftBehind(c) \/ ~running)

=============================================================================
