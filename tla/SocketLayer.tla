---------------------------- MODULE SocketLayer ----------------------------
(***************************************************************************)
(* The part of the Linux kernel that the servers of this repository talk   *)
(* to: the listen backlog, the descriptor table of the server process, the *)
(* epoll interest set, and the bytes that wait on each connection.  None   *)
(* of it is in the repository; it is modelled from the calls the servers   *)
(* make (accept, recv, epoll_ctl, shutdown, close).  The clients' side     *)
(* (connect, send, close) follows non.c and per.c.                         *)
(*                                                                         *)
(* A descriptor is a small integer and accept returns the lowest free one, *)
(* so a number is used again as soon as its connection is closed.  close   *)
(* takes a descriptor out of the interest set, and data that waited on the *)
(* connection is discarded.                                                *)
(***************************************************************************)
EXTENDS Integers, Sequences, FiniteSets

CONSTANTS
    Conns,       \* the connections that clients open during a run
    NoConn,      \* "no connection": the owner of a free descriptor
    MaxFd,       \* descriptors 1..MaxFd are free for connections
    Units,       \* Units[c]: how many units of data the client of c sends
    Ended,       \* Ended[c]: the client of c first waits until both ends of these are closed
    Started,     \* Started[c]: the client of c first waits for these to open
    Outlasts     \* Outlasts[c]: c stays open until both ends of these are closed

FDs == 1 .. MaxFd
NoFd == -1       \* the servers' "no descriptor"
ListenFd == 0    \* stands for server_fd

ASSUME SocketAssumption ==
    /\ NoConn \notin Conns
    /\ MaxFd \in Nat
    /\ Units \in [Conns -> Nat]
    /\ Ended \in [Conns -> SUBSET Conns]
    /\ Started \in [Conns -> SUBSET Conns]
    /\ Outlasts \in [Conns -> SUBSET Conns]

VARIABLES
    peer,        \* peer[c]: what the client of c has done
    sent,        \* sent[c]: units that have reached the server's host
    inbox,       \* inbox[c]: those of them that recv has not returned yet
    backlog,     \* connections waiting in accept's queue
    owner,       \* owner[f]: the connection descriptor f refers to
    registered   \* the descriptors in the epoll interest set

sockVars == <<peer, sent, inbox, backlog, owner, registered>>

SocketTypeOK ==
    /\ peer \in [Conns -> {"new", "open", "gone"}]
    /\ sent \in [Conns -> Nat]
    /\ inbox \in [Conns -> Nat]
    /\ backlog \in Seq(Conns)
    /\ owner \in [FDs -> Conns \cup {NoConn}]
    /\ registered \subseteq FDs

SocketInit ==
    /\ peer = [c \in Conns |-> "new"]
    /\ sent = [c \in Conns |-> 0]
    /\ inbox = [c \in Conns |-> 0]
    /\ backlog = <<>>
    /\ owner = [f \in FDs |-> NoConn]
    /\ registered = {}

-----------------------------------------------------------------------------
(* What the server can see of a descriptor.                                *)

OpenFds == {f \in FDs : owner[f] # NoConn}
FreeFds == FDs \ OpenFds
LowestFree == CHOOSE f \in FreeFds : \A g \in FreeFds : f <= g
IsOpen(f) == f \in OpenFds
HasData(f) == IsOpen(f) /\ inbox[owner[f]] > 0
IsDrained(f) == IsOpen(f) /\ inbox[owner[f]] = 0

(* The server's end of c still exists: c waits in the backlog or is open.  *)
Established(c) ==
    \/ \E i \in DOMAIN backlog : backlog[i] = c
    \/ \E f \in FDs : owner[f] = c

(* Level-triggered readiness: data or end of stream on a registered        *)
(* descriptor, a waiting connection on the listening one.                  *)
Ready ==
    {f \in registered : HasData(f) \/ (IsOpen(f) /\ peer[owner[f]] = "gone")}
        \cup {f \in {ListenFd} : backlog # <<>>}

(* recv with an error, or 0: the descriptor is not open, or the client has *)
(* closed and everything it sent has been read.                            *)
RecvEnds(f) == ~IsOpen(f) \/ (IsDrained(f) /\ peer[owner[f]] = "gone")

(* recv with EAGAIN: the descriptor now refers to a connection on which    *)
(* nothing has arrived.                                                    *)
RecvWouldBlock(f) == IsDrained(f) /\ peer[owner[f]] = "open"

-----------------------------------------------------------------------------
(* What the server does to the kernel's state, as parts of its actions.    *)

(* close every descriptor of `closing`, then EPOLL_CTL_ADD those of        *)
(* `adding`.  Closing a number that is not open is EBADF and does nothing. *)
CloseAndAdd(closing, adding) ==
    /\ owner' = [f \in FDs |-> IF f \in closing THEN NoConn ELSE owner[f]]
    /\ registered' = (registered \ closing) \cup adding
    /\ inbox' = [c \in Conns |->
                    IF \E f \in closing \cap FDs : owner[f] = c
                    THEN 0 ELSE inbox[c]]
    /\ UNCHANGED <<peer, sent, backlog>>

(* accept returns f, and EPOLL_CTL_ADD registers those of `adding`.        *)
AcceptAs(f, adding) ==
    /\ owner' = [owner EXCEPT ![f] = Head(backlog)]
    /\ backlog' = Tail(backlog)
    /\ registered' = registered \cup adding
    /\ UNCHANGED <<peer, sent, inbox>>

(* accept returns a descriptor that the same handler closes again.         *)
AcceptAndClose ==
    /\ backlog' = Tail(backlog)
    /\ inbox' = [inbox EXCEPT ![Head(backlog)] = 0]
    /\ UNCHANGED <<peer, sent, owner, registered>>

(* recv takes n units from the connection of descriptor f.                 *)
Take(f, n) ==
    /\ inbox' = [inbox EXCEPT ![owner[f]] = @ - n]
    /\ UNCHANGED <<peer, sent, backlog, owner, registered>>

-----------------------------------------------------------------------------
(* The clients.                                                            *)

(* connect() succeeds: the connection enters the backlog.                  *)
Connect(c) ==
    /\ peer[c] = "new"
    /\ \A d \in Ended[c] : peer[d] = "gone" /\ ~Established(d)
    /\ \A d \in Started[c] : peer[d] # "new"
    /\ peer' = [peer EXCEPT ![c] = "open"]
    /\ backlog' = Append(backlog, c)
    /\ UNCHANGED <<sent, inbox, owner, registered>>

(* One unit of what send() was given arrives at the server's host.         *)
Deliver(c) ==
    /\ peer[c] = "open"
    /\ Established(c)
    /\ sent[c] < Units[c]
    /\ sent' = [sent EXCEPT ![c] = @ + 1]
    /\ inbox' = [inbox EXCEPT ![c] = @ + 1]
    /\ UNCHANGED <<peer, backlog, owner, registered>>

(* The client closes its socket: its loop is over, its time is up, it was  *)
(* interrupted, or a send failed because the server had closed first.      *)
Hangup(c) ==
    /\ peer[c] = "open"
    /\ \A d \in Outlasts[c] : peer[d] = "gone" /\ ~Established(d)
    /\ peer' = [peer EXCEPT ![c] = "gone"]
    /\ UNCHANGED <<sent, inbox, backlog, owner, registered>>

=============================================================================
