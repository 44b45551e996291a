--------------------------- MODULE Exp3Deployment ---------------------------
(***************************************************************************)
(* How the report runs server_epx3.c: per.c is started first and given the *)
(* longest time, non.c opens the other connections, and no call fails.     *)
(* There are two cases, several short connections at once and one          *)
(* connection after the other, and what the server promises in each.       *)
(***************************************************************************)
EXTENDS Exp3Server

CONSTANT p1      \* the connection of per.c

Others == Conns \ {p1}

(* The persistent connection is opened first and closed when the server    *)
(* has closed the others.  The code's INACTIVE_TIMEOUT is 10 seconds.      *)
PersistentLasts ==
    /\ p1 \in Conns /\ Kind[p1] = "P"
    /\ \A c \in Others : Kind[c] = "N" /\ p1 \in Started[c] /\ c \in Outlasts[p1]
    /\ MaxFailures = 0
    /\ INACTIVE_TIMEOUT > 0

(* Non-persistent connections come in any number at once; none lasts long  *)
(* enough for epoll_wait to sleep for a second.                            *)
ShortVisits == PersistentLasts /\ Others \subseteq Brisk

(* One non-persistent connection after the other: non.c opens the next one *)
(* after the server has closed the one before (it waits 100 ms "for server *)
(* cleanup") and sends its first message without delay.                    *)
OneAtATime ==
    /\ PersistentLasts
    /\ IsFiniteSet(Conns)
    /\ \A c \in Others : c \in Prompt /\ Units[c] > 0
    /\ \A c, d \in Others : c # d => c \in Ended[d] \/ d \in Ended[c]

(* The two ways the report runs it.                                        *)
Deployed == ShortVisits \/ OneAtATime

-----------------------------------------------------------------------------

(* A reachable descriptor has one role: the places that the server keeps   *)
(* descriptors in (lines 340, 376, 386, 397) never hold the same number    *)
(* twice, a queued connection is open and unknown to epoll, so that its    *)
(* EPOLL_CTL_ADD can succeed, and an occupied slot refers to an open one.  *)
PlacesDisjoint ==
    /\ persistent_fd # NoFd => persistent_fd # non_persistent_fd
    /\ \A i \in DOMAIN queue :
            /\ queue[i].fd \notin {persistent_fd, non_persistent_fd} \cup registered
            /\ IsOpen(queue[i].fd)
            /\ \A j \in DOMAIN queue : queue[i].fd = queue[j].fd => i = j
    /\ pc # "exited" =>
            /\ persistent_fd # NoFd => IsOpen(persistent_fd)
            /\ non_persistent_fd # NoFd => IsOpen(non_persistent_fd)

(* The slot and the queue are a first-come-first-served service of the     *)
(* non-persistent clients (lines 385-405 and 336-342, 547-553): a new      *)
(* connection never overtakes a queued one, is turned away only when the   *)
(* queue is full, and a freed slot goes to the head of the queue at once.  *)
Served == IF non_persistent_fd = NoFd \/ ~IsOpen(non_persistent_fd)
          THEN NoConn ELSE owner[non_persistent_fd]
Waiters == [i \in DOMAIN queue |-> owner[queue[i].fd]]
Gone == {c \in Others : peer[c] # "new" /\ ~Established(c)}

Service == INSTANCE FirstComeService WITH
    Clients <- Others, Nobody <- NoConn, MaxWaiting <- MAX_NON_PERSISTENT,
    serving <- Served, waiting <- Waiters, left <- Gone

ServesInOrder == Service!ServiceSpec

(* The stop test of line 567 ends the loop only when no connection is left *)
(* open, so never under the persistent client, whose connection is "single,*)
(* long-lived".                                                            *)
StopsWhenNoneIsLeft ==
    [][running /\ ~running' /\ batch' # batch => \A f \in FDs : owner'[f] = NoConn]_serverVars

(* active_clients is the number of connections that are open (lines 292,   *)
(* 369, 497).                                                              *)
ActiveClientsExact == pc # "exited" => active_clients = Cardinality(OpenFds)

=============================================================================
