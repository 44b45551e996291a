--------------------------- MODULE MCStreamClient ---------------------------
(***************************************************************************)
(* Each of the four senders, with messages that the socket's buffer may    *)
(* take in parts, a server that may close one connection first or stop     *)
(* reading, a signal, and time that may be up at any moment.               *)
(***************************************************************************)
EXTENDS StreamClient

AllPrograms == {PER, NON, PERSISTENT, FREQUENT}

FairSpec == Spec /\ WF_vars(ClientStep) /\ WF_vars(TimeIsUp) /\ WF_vars(ServerAnswers)

Ended == pc \in {"exited", "killed"}
Full == link = "up" /\ buffered = SNDBUF

(* What keeps a client from ending is a server that stops reading, in      *)
(* per.c by an endless loop (108-133), in the others by a send that blocks *)
(* for ever; or, in non.c, a socket() that never succeeds again: it goes   *)
(* on (95) without setting elapsed, which the loop tests (90).             *)
NoSocket == []<><<program = NON /\ SocketFails>>_vars

EndsOrIsHeldUp == <>Ended \/ <>[]Full \/ NoSocket

=============================================================================
