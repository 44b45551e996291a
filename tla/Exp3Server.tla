----------------------------- MODULE Exp3Server -----------------------------
(***************************************************************************)
(* The connection layer of server_epx3.c: one epoll loop that gives one    *)
(* connection the persistent slot, one the non-persistent slot, lets up to *)
(* MAX_NON_PERSISTENT wait in a queue outside epoll, rejects the rest, and *)
(* ends the non-persistent connection when its client closes it or when it *)
(* has sent nothing for INACTIVE_TIMEOUT seconds.                          *)
(*                                                                         *)
(* One iteration of the loop is: LoopTest, at most one Second (epoll_wait  *)
(* sleeps), one of the actions that end epoll_wait (with the no-event and  *)
(* inactivity tests that follow it), then one action per event of the      *)
(* batch, in any order.                                                    *)
(* What the handlers count for the report is added in Exp3Stats.           *)
(*                                                                         *)
(* Time: each timestamp the code keeps is modelled by its age in seconds,  *)
(* which stops growing once it no longer changes any test.  The timestamp  *)
(* {0} of the code is therefore the greatest age.                          *)
(***************************************************************************)
EXTENDS SocketLayer

CONSTANTS
    Kind,                \* Kind[c]: "P" if the client sends 'P' bytes (per.c), else "N"
    Prompt,              \* clients that send something within a second of connecting
    Brisk,               \* clients whose connections last less than a second
    MAX_NON_PERSISTENT,  \* size of non_persistent_queue
    BUFFER_SIZE,         \* the most units one recv returns
    INACTIVE_TIMEOUT,    \* seconds
    NO_EVENT_TIMEOUT,    \* seconds
    Signals,             \* whether SIGINT or SIGTERM may arrive
    MaxFailures          \* bound on the calls that fail for lack of kernel memory

ASSUME ServerAssumption ==
    /\ Kind \in [Conns -> {"P", "N"}]
    /\ Prompt \subseteq Conns
    /\ Brisk \subseteq Conns
    /\ MAX_NON_PERSISTENT \in Nat
    /\ BUFFER_SIZE \in Nat \ {0}
    /\ INACTIVE_TIMEOUT \in Nat
    /\ NO_EVENT_TIMEOUT \in Nat
    /\ Signals \in BOOLEAN
    /\ MaxFailures \in Nat

VARIABLES
    running,             \* the loop's condition
    pc,                  \* "loop": at the loop's test or in its for; "wait": in epoll_wait
    batch,               \* events of this epoll_wait not handled yet
    waited,              \* epoll_wait has slept for its second
    persistent_fd,
    non_persistent_fd,
    np_age,              \* age of non_persistent_connect_time
    conn1_age,           \* age of conn1_start
    conn1_started,
    idle_age,            \* age of last_event_time
    queue,               \* non_persistent_queue[0 .. queue_count - 1]
    active_clients,
    rejected,
    per_bytes_read,
    nonper_bytes_read,
    failures             \* calls that have failed for lack of kernel memory

loopVars == <<running, pc, batch, waited, idle_age>>
slotVars == <<persistent_fd, non_persistent_fd, np_age, queue>>
conn1Vars == <<conn1_age, conn1_started>>
countVars == <<active_clients, rejected>>
byteVars == <<per_bytes_read, nonper_bytes_read>>
serverVars == <<sockVars, loopVars, slotVars, conn1Vars, countVars, byteVars,
                failures>>

Ages == 0 .. INACTIVE_TIMEOUT
Waiting == [fd : FDs, age : Ages]

TypeOK ==
    /\ SocketTypeOK
    /\ running \in BOOLEAN
    /\ pc \in {"loop", "wait", "exited"}
    /\ batch \subseteq FDs \cup {ListenFd}
    /\ waited \in BOOLEAN
    /\ persistent_fd \in FDs \cup {NoFd}
    /\ non_persistent_fd \in FDs \cup {NoFd}
    /\ np_age \in Ages
    /\ conn1_age \in Ages
    /\ conn1_started \in BOOLEAN
    /\ idle_age \in 0 .. NO_EVENT_TIMEOUT
    /\ queue \in Seq(Waiting)
    /\ Len(queue) <= MAX_NON_PERSISTENT
    /\ active_clients \in Int
    /\ rejected \in Nat
    /\ per_bytes_read \in Nat
    /\ nonper_bytes_read \in Nat
    /\ failures \in 0 .. MaxFailures

ServerInit ==
    /\ SocketInit
    /\ running = TRUE
    /\ pc = "loop"
    /\ batch = {}
    /\ waited = FALSE
    /\ persistent_fd = NoFd
    /\ non_persistent_fd = NoFd
    /\ np_age = INACTIVE_TIMEOUT
    /\ conn1_age = INACTIVE_TIMEOUT
    /\ conn1_started = FALSE
    /\ idle_age = 0
    /\ queue = <<>>
    /\ active_clients = 0
    /\ rejected = 0
    /\ per_bytes_read = 0
    /\ nonper_bytes_read = 0
    /\ failures = 0

-----------------------------------------------------------------------------
(* Time passing while epoll_wait sleeps.                                   *)

Older(age, limit) == IF age < limit THEN age + 1 ELSE limit

(* What a client does within the second keeps the second from passing.     *)
Connected(c) == peer[c] = "open" /\ Established(c)
Busy ==
    \/ \E c \in Prompt : Connected(c) /\ sent[c] = 0 /\ Units[c] > 0
    \/ \E c \in Brisk : Connected(c)

(* epoll_wait's timeout is 1000 ms: it sleeps a second only when nothing   *)
(* is ready, and the loop runs once before it sleeps another.              *)
Second ==
    /\ pc = "wait" /\ ~waited
    /\ Ready = {}
    /\ ~Busy
    /\ waited' = TRUE
    /\ np_age' = Older(np_age, INACTIVE_TIMEOUT)
    /\ conn1_age' = Older(conn1_age, INACTIVE_TIMEOUT)
    /\ idle_age' = Older(idle_age, NO_EVENT_TIMEOUT)
    /\ queue' = [i \in DOMAIN queue |->
                    [queue[i] EXCEPT !.age = Older(@, INACTIVE_TIMEOUT)]]
    /\ UNCHANGED <<sockVars, running, pc, batch, persistent_fd, non_persistent_fd,
                   conn1_started, countVars, byteVars, failures>>

-----------------------------------------------------------------------------
(* The end of the non-persistent connection of descriptor e: close it and  *)
(* give its slot to the head of the queue.  Shared by the inactivity test  *)
(* and by the handler of a closed connection, which repeat the same lines. *)

(* EPOLL_CTL_ADD of f after e was closed: EBADF if f is not open, EEXIST   *)
(* if it is registered already.                                            *)
AddRefused(f, e) == f \notin OpenFds \ {e} \/ f \in registered \ {e}

(* A call that needs kernel memory (EPOLL_CTL_ADD, accept) fails.          *)
OutOfMemory ==
    /\ failures < MaxFailures
    /\ failures' = failures + 1

(* Mutant: the counter of the persistent side is not reset.                *)
ResetOneCounter ==
    /\ nonper_bytes_read' = 0
    /\ UNCHANGED per_bytes_read

ResetCounters ==
    /\ per_bytes_read' = 0
    /\ nonper_bytes_read' = 0

(* Mutant: the client is not taken off active_clients.                     *)
EndUncounted(e) ==
    /\ queue = <<>>
    /\ non_persistent_fd' = NoFd
    /\ CloseAndAdd({e}, {})
    /\ ResetCounters
    /\ UNCHANGED <<np_age, queue, failures, active_clients>>

EndNobodyWaits(e) ==
    /\ queue = <<>>
    /\ non_persistent_fd' = NoFd
    /\ active_clients' = active_clients - 1
    /\ CloseAndAdd({e}, {})
    /\ ResetCounters
    /\ UNCHANGED <<np_age, queue, failures>>

(* Mutant: the promoted descriptor is not registered with epoll.           *)
EndPromoteUnwatched(e) ==
    /\ queue # <<>>
    /\ ~AddRefused(Head(queue).fd, e)
    /\ non_persistent_fd' = Head(queue).fd
    /\ np_age' = Head(queue).age
    /\ queue' = Tail(queue)
    /\ active_clients' = active_clients - 1
    /\ CloseAndAdd({e}, {})
    /\ ResetCounters
    /\ UNCHANGED failures

(* Mutant: the slot is left empty although somebody waits.                 *)
EndLeavesQueue(e) ==
    /\ queue # <<>>
    /\ non_persistent_fd' = NoFd
    /\ active_clients' = active_clients - 1
    /\ CloseAndAdd({e}, {})
    /\ ResetCounters
    /\ UNCHANGED <<np_age, queue, failures>>

(* Mutant: the rest of the queue is not shifted to its front.              *)
EndPromoteUnshifted(e) ==
    /\ queue # <<>>
    /\ ~AddRefused(Head(queue).fd, e)
    /\ non_persistent_fd' = Head(queue).fd
    /\ np_age' = Head(queue).age
    /\ queue' = SubSeq(queue, 1, Len(queue) - 1)
    /\ active_clients' = active_clients - 1
    /\ CloseAndAdd({e}, {Head(queue).fd})
    /\ ResetCounters
    /\ UNCHANGED failures

EndPromote(e) ==
    /\ queue # <<>>
    /\ ~AddRefused(Head(queue).fd, e)
    /\ non_persistent_fd' = Head(queue).fd
    /\ np_age' = Head(queue).age
    /\ queue' = Tail(queue)
    /\ active_clients' = active_clients - 1
    /\ CloseAndAdd({e}, {Head(queue).fd})
    /\ ResetCounters
    /\ UNCHANGED failures

(* Mutant: the client whose promotion failed stays in active_clients.      *)
EndPromoteFailsUncounted(e) ==
    /\ queue # <<>>
    /\ \/ AddRefused(Head(queue).fd, e) /\ UNCHANGED failures
       \/ ~AddRefused(Head(queue).fd, e) /\ OutOfMemory
    /\ non_persistent_fd' = NoFd
    /\ np_age' = Head(queue).age
    /\ queue' = Tail(queue)
    /\ active_clients' = active_clients - 1
    /\ CloseAndAdd({e, Head(queue).fd}, {})
    /\ ResetCounters

EndPromoteFails(e) ==
    /\ queue # <<>>
    /\ \/ AddRefused(Head(queue).fd, e) /\ UNCHANGED failures
       \/ ~AddRefused(Head(queue).fd, e) /\ OutOfMemory
    /\ non_persistent_fd' = NoFd
    /\ np_age' = Head(queue).age
    /\ queue' = Tail(queue)
    /\ active_clients' = active_clients - 2
    /\ CloseAndAdd({e, Head(queue).fd}, {})
    /\ ResetCounters

-----------------------------------------------------------------------------
(* One iteration: the loop's test, epoll_wait, and after it the no-event   *)
(* test and the inactivity test.                                           *)

LoopTest ==
    /\ pc = "loop" /\ batch = {} /\ running
    /\ pc' = "wait"
    /\ UNCHANGED <<sockVars, running, batch, waited, idle_age, slotVars, conn1Vars,
                   countVars, byteVars, failures>>

(* epoll_wait returns what is ready, nothing after a second's sleep, or    *)
(* nothing because a signal interrupted it.                                *)
EpollReturns ==
    /\ pc = "wait"
    /\ Ready # {} \/ waited \/ ~running
    /\ pc' = "loop"
    /\ waited' = FALSE

NoEventsForLong == waited /\ Ready = {} /\ idle_age >= NO_EVENT_TIMEOUT

TimeoutStop ==
    /\ EpollReturns
    /\ NoEventsForLong
    /\ running' = FALSE
    /\ UNCHANGED <<sockVars, batch, idle_age, slotVars, conn1Vars, countVars, byteVars,
                   failures>>

(* epoll_wait did not return 0 events after a time without any.            *)
GoesOn == ~NoEventsForLong \/ ~running

(* Mutant: last_event_time is set after every epoll_wait.                  *)
NoteEveryWait == idle_age' = 0

(* (An interrupted wait sets it too, but then nothing tests it again.)     *)
NoteEvents == idle_age' = IF Ready = {} THEN idle_age ELSE 0

Inactive ==
    /\ non_persistent_fd # NoFd
    /\ np_age >= INACTIVE_TIMEOUT
    /\ nonper_bytes_read = 0

TakeBatch == batch' = Ready \/ (~running /\ batch' = {})

Collect ==
    /\ EpollReturns
    /\ GoesOn
    /\ ~Inactive
    /\ NoteEvents
    /\ TakeBatch
    /\ UNCHANGED <<sockVars, running, slotVars, conn1Vars, countVars, byteVars,
                   failures>>

ReapInactive ==
    /\ EpollReturns
    /\ GoesOn
    /\ Inactive
    /\ NoteEvents
    /\ \/ EndNobodyWaits(non_persistent_fd) /\ TakeBatch
       \/ EndPromote(non_persistent_fd) /\ TakeBatch
       \/ EndPromoteFails(non_persistent_fd) /\ UNCHANGED batch
    /\ UNCHANGED <<running, persistent_fd, conn1Vars, rejected>>

-----------------------------------------------------------------------------
(* An event of the batch on the listening descriptor: accept one           *)
(* connection and give it the first place that is free.                    *)

Handle(e) == e \in batch /\ batch' = batch \ {e}

AcceptEvent == Handle(ListenFd) /\ FreeFds # {}

AcceptPersistent ==
    /\ AcceptEvent
    /\ persistent_fd = NoFd
    /\ persistent_fd' = LowestFree
    /\ \/ /\ AcceptAs(LowestFree, {LowestFree})
          /\ active_clients' = active_clients + 1
          /\ UNCHANGED failures
       \/ OutOfMemory /\ AcceptAndClose /\ UNCHANGED active_clients
    /\ UNCHANGED <<running, pc, waited, idle_age, non_persistent_fd, np_age, queue,
                   conn1Vars, rejected, byteVars>>

AcceptNonPersistent ==
    /\ AcceptEvent
    /\ persistent_fd # NoFd
    /\ non_persistent_fd = NoFd
    /\ non_persistent_fd' = LowestFree
    /\ np_age' = 0
    /\ \/ /\ AcceptAs(LowestFree, {LowestFree})
          /\ active_clients' = active_clients + 1
          /\ UNCHANGED failures
       \/ OutOfMemory /\ AcceptAndClose /\ UNCHANGED active_clients
    /\ UNCHANGED <<running, pc, waited, idle_age, persistent_fd, queue, conn1Vars,
                   rejected, byteVars>>

BothActive == persistent_fd # NoFd /\ non_persistent_fd # NoFd

(* Mutants: the limit is off by one.                                       *)
QueueHasOneTooMany == Len(queue) <= MAX_NON_PERSISTENT
QueueHasOneTooFew == Len(queue) + 1 < MAX_NON_PERSISTENT

QueueHasRoom == Len(queue) < MAX_NON_PERSISTENT

(* Mutant: a queued connection is registered with epoll at once.           *)
AcceptQueuedWatched ==
    /\ AcceptEvent
    /\ BothActive
    /\ QueueHasRoom
    /\ queue' = Append(queue, [fd |-> LowestFree, age |-> 0])
    /\ active_clients' = active_clients + 1
    /\ AcceptAs(LowestFree, {LowestFree})
    /\ UNCHANGED <<running, pc, waited, idle_age, persistent_fd, non_persistent_fd,
                   np_age, conn1Vars, rejected, byteVars, failures>>

AcceptQueued ==
    /\ AcceptEvent
    /\ BothActive
    /\ QueueHasRoom
    /\ queue' = Append(queue, [fd |-> LowestFree, age |-> 0])
    /\ active_clients' = active_clients + 1
    /\ AcceptAs(LowestFree, {})
    /\ UNCHANGED <<running, pc, waited, idle_age, persistent_fd, non_persistent_fd,
                   np_age, conn1Vars, rejected, byteVars, failures>>

AcceptRejected ==
    /\ AcceptEvent
    /\ BothActive
    /\ ~QueueHasRoom
    /\ rejected' = rejected + 1
    /\ AcceptAndClose
    /\ UNCHANGED <<running, pc, waited, idle_age, slotVars, conn1Vars, active_clients,
                   byteVars, failures>>

(* accept fails with EMFILE or ENOMEM: the connection stays in the backlog. *)
AcceptFails ==
    /\ Handle(ListenFd)
    /\ IF FreeFds = {} THEN UNCHANGED failures ELSE OutOfMemory
    /\ UNCHANGED <<sockVars, running, pc, waited, idle_age, slotVars, conn1Vars,
                   countVars, byteVars>>

-----------------------------------------------------------------------------
(* An event of the batch on a connection's descriptor: recv returns data.  *)

Received(e) ==
    IF inbox[owner[e]] < BUFFER_SIZE THEN inbox[owner[e]] ELSE BUFFER_SIZE

DataEvent(e) == Handle(e) /\ e # ListenFd /\ HasData(e)

Misidentified(e) == e = persistent_fd /\ Kind[owner[e]] # "P"

(* The persistent slot's connection is not a persistent one, and the       *)
(* non-persistent slot is free: move it there and count what was read.     *)
MoveToSlot(e) ==
    /\ DataEvent(e)
    /\ Misidentified(e)
    /\ non_persistent_fd = NoFd
    /\ non_persistent_fd' = persistent_fd
    /\ np_age' = conn1_age
    /\ persistent_fd' = NoFd
    /\ conn1_started' = FALSE
    /\ nonper_bytes_read' = per_bytes_read + Received(e)
    /\ per_bytes_read' = 0
    /\ Take(e, Received(e))
    /\ UNCHANGED <<running, pc, waited, idle_age, queue, conn1_age, countVars,
                   failures>>

(* The slot is taken: the connection joins the queue, still registered     *)
(* with epoll, and the data just read is dropped (unless the other slot    *)
(* holds the same number).                                                 *)
MoveToQueue(e) ==
    /\ DataEvent(e)
    /\ Misidentified(e)
    /\ non_persistent_fd # NoFd
    /\ QueueHasRoom
    /\ queue' = Append(queue, [fd |-> persistent_fd, age |-> conn1_age])
    /\ persistent_fd' = NoFd
    /\ conn1_started' = FALSE
    /\ nonper_bytes_read' =
            nonper_bytes_read + (IF e = non_persistent_fd THEN Received(e) ELSE 0)
    /\ per_bytes_read' = 0
    /\ Take(e, Received(e))
    /\ UNCHANGED <<running, pc, waited, idle_age, non_persistent_fd, np_age, conn1_age,
                   countVars, failures>>

RejectMisidentified(e) ==
    /\ DataEvent(e)
    /\ Misidentified(e)
    /\ non_persistent_fd # NoFd
    /\ ~QueueHasRoom
    /\ CloseAndAdd({e}, {})
    /\ active_clients' = active_clients - 1
    /\ persistent_fd' = NoFd
    /\ conn1_started' = FALSE
    /\ rejected' = rejected + 1
    /\ UNCHANGED <<running, pc, waited, idle_age, non_persistent_fd, np_age, queue,
                   conn1_age, byteVars, failures>>

PersistentData(e) ==
    /\ DataEvent(e)
    /\ e = persistent_fd
    /\ ~Misidentified(e)
    /\ conn1_age' = IF conn1_started THEN conn1_age ELSE 0
    /\ conn1_started' = TRUE
    /\ per_bytes_read' = per_bytes_read + Received(e)
    /\ Take(e, Received(e))
    /\ UNCHANGED <<running, pc, waited, idle_age, slotVars, countVars,
                   nonper_bytes_read, failures>>

(* A 'P' on this slot is noticed by the code and changes nothing.          *)
NonPersistentData(e) ==
    /\ DataEvent(e)
    /\ e # persistent_fd
    /\ e = non_persistent_fd
    /\ nonper_bytes_read' = nonper_bytes_read + Received(e)
    /\ Take(e, Received(e))
    /\ UNCHANGED <<running, pc, waited, idle_age, slotVars, conn1Vars, countVars,
                   per_bytes_read, failures>>

(* Data of a connection that holds no slot: read and dropped.              *)
UnclaimedData(e) ==
    /\ DataEvent(e)
    /\ e \notin {persistent_fd, non_persistent_fd}
    /\ Take(e, Received(e))
    /\ UNCHANGED <<running, pc, waited, idle_age, slotVars, conn1Vars, countVars,
                   byteVars, failures>>

(* recv would block: nothing happens.                                      *)
SpuriousEvent(e) ==
    /\ Handle(e)
    /\ e # ListenFd
    /\ RecvWouldBlock(e)
    /\ UNCHANGED <<sockVars, running, pc, waited, idle_age, slotVars, conn1Vars,
                   countVars, byteVars, failures>>

-----------------------------------------------------------------------------
(* An event of the batch on a connection's descriptor: recv returns 0 or   *)
(* an error.  One client less, whichever descriptor it is.                 *)

EndEvent(e) == Handle(e) /\ e # ListenFd /\ RecvEnds(e)

(* Mutant: only the queue is tested.                                       *)
StopTestQueueOnly == running' = (running /\ queue' # <<>>)

(* The loop stops when it counts no client and nobody waits.               *)
StopTest == running' = (running /\ ~(active_clients' = 0 /\ queue' = <<>>))

ClosePersistent(e) ==
    /\ EndEvent(e)
    /\ e = persistent_fd
    /\ persistent_fd' = NoFd
    /\ conn1_started' = FALSE
    /\ active_clients' = active_clients - 1
    /\ CloseAndAdd({e}, {})
    /\ UNCHANGED <<pc, waited, idle_age, non_persistent_fd, np_age, queue, conn1_age,
                   rejected, byteVars, failures>>
    /\ StopTest

CloseNonPersistent(e) ==
    /\ EndEvent(e)
    /\ e # persistent_fd
    /\ e = non_persistent_fd
    /\ \/ EndNobodyWaits(e) /\ StopTest
       \/ EndPromote(e) /\ StopTest
       \/ EndPromoteFails(e) /\ UNCHANGED running
    /\ UNCHANGED <<pc, waited, idle_age, persistent_fd, conn1Vars, rejected>>

CloseOther(e) ==
    /\ EndEvent(e)
    /\ e \notin {persistent_fd, non_persistent_fd}
    /\ active_clients' = active_clients - 1
    /\ CloseAndAdd({e}, {})
    /\ UNCHANGED <<pc, waited, idle_age, slotVars, conn1Vars, rejected, byteVars,
                   failures>>
    /\ StopTest

-----------------------------------------------------------------------------
(* SIGINT or SIGTERM, and the code after the loop.                         *)

Signal ==
    /\ Signals /\ running
    /\ running' = FALSE
    /\ UNCHANGED <<sockVars, pc, batch, waited, idle_age, slotVars, conn1Vars,
                   countVars, byteVars, failures>>

Exit ==
    /\ pc = "loop" /\ batch = {} /\ ~running
    /\ pc' = "exited"
    /\ active_clients' = active_clients - Len(queue)
    /\ queue' = <<>>
    /\ CloseAndAdd(FDs, {})
    /\ UNCHANGED <<running, batch, waited, idle_age, persistent_fd, non_persistent_fd,
                   np_age, conn1Vars, rejected, byteVars, failures>>

-----------------------------------------------------------------------------

ServerUnchanged == UNCHANGED <<loopVars, slotVars, conn1Vars, countVars, byteVars,
                               failures>>

ClientStep(c) == (Connect(c) \/ Deliver(c) \/ Hangup(c)) /\ pc # "exited" /\ ServerUnchanged

EventStep(e) ==
    \/ MoveToSlot(e) \/ MoveToQueue(e) \/ RejectMisidentified(e)
    \/ PersistentData(e) \/ NonPersistentData(e) \/ UnclaimedData(e)
    \/ SpuriousEvent(e)
    \/ ClosePersistent(e) \/ CloseNonPersistent(e) \/ CloseOther(e)

AcceptStep ==
    \/ AcceptPersistent \/ AcceptNonPersistent \/ AcceptQueued \/ AcceptRejected
    \/ AcceptFails

WaitStep == LoopTest \/ Second \/ TimeoutStop \/ Collect \/ ReapInactive

ServerStep == WaitStep \/ AcceptStep \/ (\E e \in FDs : EventStep(e)) \/ Exit

ServerNext == ServerStep \/ Signal \/ \E c \in Conns : ClientStep(c)

ServerSpec == ServerInit /\ [][ServerNext]_serverVars

-----------------------------------------------------------------------------
(* Every descriptor the server holds open is watched by epoll or waits in  *)
(* the queue (lines 361-405, 336-354, 496-565): none is forgotten, whatever*)
(* fails on the way.                                                       *)
NoForgottenConnection ==
    \A f \in OpenFds : f \in registered \/ \E i \in DOMAIN queue : queue[i].fd = f

(* active_clients never exceeds the connections that are open (lines 292,  *)
(* 369, 403, 497 and the failure paths): a connection that is gone never   *)
(* keeps the server from stopping.                                         *)
NeverOvercounts == pc # "exited" => active_clients <= Cardinality(OpenFds)

=============================================================================
