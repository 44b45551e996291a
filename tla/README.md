# A verification project for the TCP fairness experiments

The repository measures how Linux serves a persistent TCP connection (one socket
for the whole run) against non-persistent ones (a new socket per request). It
holds three generations of C programs (experiments 1, 2 and 3), the logs they
wrote, and scripts that plot the logs. This project models the programs that
keep state, checks the models with TLC and proves theorems about them with TLAPS.

## Inventory

| component | source | state | operations | status |
|---|---|---|---|---|
| exp3 server, connection layer | `server_epx3.c` | `running`, `persistent_fd`, `non_persistent_fd`, `non_persistent_connect_time`, `conn1_start/started`, `last_event_time`, `non_persistent_queue`, `active_clients`, `rejected`, the epoll batch | one iteration of the epoll loop: wait, stop after silence, end an inactive connection, accept into slot / queue / reject, receive, move a misidentified connection, close, promote, stop; signals; exit | modelled: `Exp3Server` |
| exp3 server, statistics | `server_epx3.c` | current, overall and per-row counters, `pick`, `conn2_*`, `temp_stats`, `stats_array`, `connection_count` | count a read, count a pair, close a connection's counters, close a row, save the remainder | modelled: `Exp3Stats` |
| sockets and epoll | the kernel (external) | backlog, descriptor table, interest set, receive queues | accept, recv, close, epoll_ctl, epoll_wait | modelled: `SocketLayer` |
| exp3 clients | `per.c`, `non.c` | the socket and its buffer, the rest of the present message, message and connection counters, `elapsed` | connect, send in parts, look at the clock, count the connection, close with or without `SO_LINGER`, signal | modelled: `StreamClient` |
| exp2 client by count | `clientexp2.c` | the same, without clock and signal | the same | modelled: `StreamClient` |
| turn-taking clients | `exp1/client_final.c`, `exp1/client9copy.c`, `exp1/client8.c`, `client_op.c`, `clientexp2_time.c` | `current_conn`, `global_packet_id`, a mutex, a condition variable, per-thread counters | connect, wait for the turn, send, pass the turn, give up | modelled: `TurnClient` |
| exp2 server | `serverexp2.c` | `count`, `active_clients`, `first_socket`, `second_socket`, `pick`, counters for each side | test the loop, wait, accept, take or refuse data, count pairs, close, stop by count or signal | modelled: `Exp2Server` |
| exp1 servers | `exp1/server_final.c`, `exp1/server7.c`, `exp1/server6.c` | the buffer of each connection, `global_expected_seq`, `out_of_order`, `packet_count` | accept until it fails, receive once for each event, split into lines, record gaps or log, signal | modelled: `Exp1Server` |
| exp1 first servers | `exp1/server.c`, `exp1/server8 copy.c` | a printed buffer; a parser of bare numbers | | not modelled, see below |
| exp1 first clients | `exp1/client.c`, `exp1/client7.c` | nothing shared but a mutex around a send | | not modelled, see below |
| scripts and results | `*.py`, logs | none | text processing, plots | not modelled: no state of their own |

How they interact. A server and its clients share nothing but TCP connections:
bytes, their order within one connection, and the end of the stream. The exp3
server is one thread; what makes it hard is that the kernel, the clients and the
clock act between its steps, and that **a batch of events is a snapshot**:
events fetched by one `epoll_wait` are handled after the descriptors they name
may have been closed, and even reused, by the handlers before them.

Behaviours that are hard, and where:

- a stale event in a batch (lines 289-356 close a descriptor whose event is in
  the batch; line 500 frees a number that line 364 hands out again);
- two copies of the same twenty lines (297-354 and 507-564) that must agree;
- calls that fail after the state has been changed (347, 379, 390, 557);
- several counts of the same thing that must agree (`active_clients`,
  `queue_count`, the slots, the descriptors; the rows, `temp_stats`, the totals);
- counters that outlive the connection they belong to (`pick`, `conn2_start`,
  `per_bytes_read`);
- unsigned differences (155, 156, 305, 306, 515, 516);
- two ways of stopping, by count (567) and by silence (280-283).

(All lines above are of `server_epx3.c`.) In the other programs:

- serverexp2.c takes data only while exactly two connections have been accepted
  (386) and never clears the two descriptors it remembers (327), whose numbers
  the kernel hands out again;
- the servers of experiment 1 are edge-triggered: whatever one call leaves behind
  waits for another arrival; and they cut the stream into lines that `recv` has
  already cut differently;
- `send` takes a part of a message, fails, or kills the process, and the clock is
  looked at only now and then;
- threads that share one condition variable leave at different times.

PROJECT.json lists these as hazards, each with its line and its properties.
What makes each component correct:

- connection layer: no descriptor is forgotten; the places that hold descriptors
  are disjoint; waiting clients are served in order and in the end; the client
  count never exceeds what is open, so the server stops when everybody has left,
  and it does not stop before;
- statistics: pairs are credited to exactly one side; every byte is counted once
  and under its sender; rows add up to totals and cover the connections they are
  labelled with; the differences of the totals (155, 156) do not wrap;
- turn-taking clients: strict order, equal shares, no lost wakeup, and no
  standstill but behind a thread that has gone;
- sending clients: the stream consists of whole messages, the totals agree with
  each other, the run time is overrun by a bounded amount, only a server that
  stops reading or a socket() that keeps failing holds a client up;
- exp2 server: the printed differences are not negative, bytes add up, no open
  connection is missed by the count that stops the server;
- exp1 servers: exactly the overtaken or lost packets are reported, each line is
  logged once and whole, and no arrival is forgotten except what a handler itself
  leaves: `recv` and the last `accept` are called once for each event, whether or
  not they could take everything.

## Modules

| module | what it is |
|---|---|
| `SocketLayer` | the kernel as the servers use it, and the clients' connect, send, close |
| `Exp3Server` | the connection layer; EXTENDS `SocketLayer`; `ServerSpec` |
| `Exp3Stats` | the same actions together with what they count; EXTENDS `Exp3Server`; `Spec` |
| `FirstComeService` | what the slot and the queue promise, without sockets |
| `Exp3Deployment` | the two ways the report runs the server, named as assumptions on the clients, and what `Exp3Server` promises in them; EXTENDS `Exp3Server` |
| `Sums` | sums over sequences and finite sets, for the properties of the counters |
| `MCExp3Open`, `MCExp3Counts`, `MCExp3Queue`, `MCExp3Experiment` | the environments, with the properties checked in each |
| `TurnClient` | the threads that take turns, with their lock, condition variable and connections |
| `RoundRobin` | what taking turns promises, without threads |
| `MCTurnClient` | three threads of each program |
| `StreamClient`, `MCStreamClient` | per.c, non.c and the two threads of clientexp2.c |
| `Exp2Server`, `MCExp2Server` | serverexp2.c; EXTENDS `SocketLayer` |
| `MCExp2Experiment` | `TurnClient` and `Exp2Server` composed: the timed client against its server |
| `Exp1Server`, `MCExp1Server` | server_final.c and server6.c; EXTENDS `SocketLayer` |
| `SocketLayerProofs` | lemmas about the kernel's part that the proofs about the servers share |
| `Exp3ServerProofs`, `Exp3StatsProofs`, `Exp3DeploymentProofs`, `TurnClientProofs`, `StreamClientProofs`, `Exp2ServerProofs`, `Exp1ServerProofs` | the theorems |

### From the code to the model

`pc` says where the loop is: `"loop"` at the loop's test or in its `for`,
`"wait"` in `epoll_wait`, `"exited"` after `main` returned. One iteration is

    LoopTest -> [Second] -> TimeoutStop | ReapInactive | Collect -> one action per event

`Second` is the one second `epoll_wait` sleeps when nothing is ready.
`TimeoutStop`, `ReapInactive` and `Collect` are the lines from `epoll_wait`'s
return to the `for` (275-356). Then each event of `batch` is one action, in any
order: `AcceptPersistent`, `AcceptNonPersistent`, `AcceptQueued`,
`AcceptRejected`, `AcceptFails` for the listening socket (361-405);
`PersistentData`, `NonPersistentData`, `UnclaimedData`, `MoveToSlot`,
`MoveToQueue`, `RejectMisidentified` for a read (407-495); `ClosePersistent`,
`CloseNonPersistent`, `CloseOther` for the end of a stream (496-570);
`SpuriousEvent` for a recv that would block. A handler is one action because
nothing it reads can change while it runs; a read of a descriptor is evaluated
when the event is handled, not when it was fetched, so stale events behave as
they do in the code. `EndNobodyWaits`, `EndPromote`, `EndPromoteFails` are the
lines that end the non-persistent connection, which the code has twice.

Abstractions:

- **Data.** A connection is a model value; its bytes are counted in units and the
  only content that matters, the first byte `'P'` or `'N'`, is `Kind`. A `recv`
  returns what is there, at most `BUFFER_SIZE`.
- **Descriptors** are numbers, lowest free first, because their reuse matters.
- **Time.** A timestamp is its age in whole seconds, capped where no test
  distinguishes it any more; the initial timestamp `{0}` is the greatest age.
  Time passes only while nothing is ready. `Prompt` and `Brisk` name clients
  whose behaviour takes less than a second.
- **Left out:** the servers' start-up failures, socket options, thread affinity,
  ratios and throughputs computed from the counters, the layout of the log, the
  100 ms pause of non.c, and the `MAX_EVENTS` of server_epx3.c (2000, more than
  the connections that can have events at once: the two slots, the queue, the
  listener). `Exp1Server` has its `MAX_EVENTS`.

`Exp3Stats` conjoins to each action what its handler counts; an action that
counts nothing is in `Uncounted`. Its counter `conns` is not in the code: it
counts the connections added to a row, so that labels can be compared to it.

`TurnClient` is the three programs `client_final.c`, `client8.c` and
`clientexp2_time.c` at once: the variable `program`, chosen initially, selects
the loop's condition (by count or by time), the test of the turn (with or
without the round) and the number a packet carries. A thread goes
`connect -> test -> lock -> check -> send -> pass -> test ... -> returned`;
`Wait` parks it and releases the mutex in one step, as `pthread_cond_wait` does,
and it comes back through `woken`, by a broadcast or spuriously. Inside the
critical section only the test, the send and the passing are separate steps.
`deadlines` orders the threads by their start times, since the duration is the
same for all: the first to connect is the first whose time is up. A connection
that was reset fails one `send`, and the next raises SIGPIPE.

`StreamClient` is four senders at once, chosen by `program` in the same way.
Each connection begins with `LoopTest`, and then `socket()` fails (`SocketFails`),
`connect` fails (`ConnectFails`) or the connection is open (`Connect`). non.c looks
at the clock after the second and after a connection, but not after the first
(93-96).
`bytes_to_send` is the rest of the present message; `copied` is what a blocking
send has taken so far, so that a signal or the end of the connection may cut it
short; per.c's sends do not block and are one step. Units go from `buffered` to
`arrived`, or to `lost` when the connection is reset, or when non.c closes with
`SO_LINGER` and no time. `over` is what the program knows about `time_up`.

`Exp2Server` has `"loop"`, `"enter"` (between the loop's test and `epoll_wait`)
and `"wait"`, because its `epoll_wait` has no timeout and a signal acts
differently in each. The sides are numbered 1 and 2, so that the code's two
copies of each counter are functions of the side. `count` is compared with 2
only and stops at `MaxCount`. In `MCExp2Experiment` a thread of `TurnClient` and
a connection of `SocketLayer` are one: `Connect` and `Close` are steps of both,
what a thread gave to `send` arrives later, and a connection that the server has
closed is reset under the thread.

`Exp1Server` counts a stream in units and a line has `LINE` of them; `start` and
`end` are the code's pointers as places in the stream, so that a line is whole
if it starts at a multiple of `LINE`, and the number in it follows from its
place and its connection because the clients take turns. `edge` holds the
descriptors that epoll has yet to report, of which `EpollWait` returns up to
`MAX_EVENTS`; `"wait"` lies between the loop's test and the return of
`epoll_wait`, so that a signal may come there too. `cutShort` is a history
variable: the descriptors where the last handler did not get to the end of what
waited, because the buffer was full, the end of the stream stood behind the data,
or no descriptor was free. `connections` is indexed by the descriptor without a
test, so the model assumes that descriptors are fewer than its entries
(`MaxFd < MAX_CONNECTIONS`, 1000 in server6.c). The reading of one line is one
action; a signal between the numbers of one gap (77-83) only changes what the
signal handler prints.
`NoMoreLines` is the end of `handle_connection`, where server6.c keeps the rest
and server_final.c drops it. server7.c is server_final.c without the signal, and
its behaviours are those of server_final.c in which none arrives. `parsed`
is a history variable.

## Runs

All bounds are in the cfg files. `CHECK_DEADLOCK FALSE` everywhere: a server
that has exited stops.

| run | environment | shows |
|---|---|---|
| `exp3_open` | one `P` and two `N` clients without any rule, one call may fail for lack of memory, signals; without the counters | `NoForgottenConnection`, `NeverOvercounts`; `StopsWhenQuiet`: when nothing happens any more, or all clients have left, the server exits |
| `exp3_counts` | the same clients and failures, with the counters | `StatsTypeOK`, `PairsAreSplit` |
| `exp3_queue` | a lasting `P` client, four short `N` clients at once, a queue of two | `PlacesDisjoint`; `ServesInOrder` (refinement of `FirstComeService`); `WaitersAreServed`; `StopsWhenNoneIsLeft` |
| `exp3_experiment` | the report's deployment: a lasting `P` client, three `N` connections one after the other, signals | `BytesFollowTheSender`, `RowsAddUp`, `RowsMatchLabels`, `PairsWithinEvents`, `ActiveClientsExact` |
| `exp3_early_stop` | as `exp3_queue`, but connections may last for seconds | violation: the server stops under the persistent client |
| `exp3_only_counts`, `exp3_duration` | as `exp3_experiment` | violations: see Findings |
| `turns` | three threads of each program, two packets each; connection 2 may be refused, connection 1 reset, one spurious wakeup | `TypeOK`, `NoLostWakeup`, `StrictConnectionOrder`, `RoundsAgree`, `FairShares`; `TakesTurns` (refinement of `RoundRobin`); `EndsOrStandsBehindLeaver`: main returns, or the turn stands for ever at a thread that has gone with packets unsent |
| `clients` | each of the four senders; a server that resets or closes two connections or stops reading; `socket` and `connect` that fail; a signal; time up at any moment | `TypeOK`, `StreamIsWhole`, `ReportAddsUp`, `OverrunIsBounded`; `EndsOrIsHeldUp` |
| `exp2` | three connections on two descriptors that send, connect and leave at will; one failing call; a signal | `PairsWithinReads`, `BytesHaveASide`, `NeverUndercounts`; `StopsOnlyWhenEmpty`; `EndsWhenAllHaveLeft`, `SignalStops` |
| `exp2_early` | clientexp2_time.c and serverexp2.c together | violation: the server closes a connection that sent too early |
| `exp1` | both servers; three connections on two descriptors, two lines, one and none, in pieces, late, and more at once than the buffer holds | `TypeOK`, `ReportsOvertaken`, `LogFollowsStream`, `NothingStranded`: whatever waits will be reported, but for what a handler itself left; `ArrivedIsRead`: and is read in the end |

Why the bounds are enough. In `exp3_open` and `exp3_counts` three connections
fill the two slots and a queue of one; a failed call or an end makes one overtake
another, and three descriptors force reuse. (A connection that waits leaves a
descriptor free there, so that `accept` fails for lack of memory only; running out
of descriptors is met in `exp1` and `exp2`.) In `exp3_queue` five connections fill
both slots and a queue of two, whose rest has to keep its order when the head is
promoted, and leave one to be rejected. Timeouts of one and two seconds keep the order
`INACTIVE_TIMEOUT < NO_EVENT_TIMEOUT` of the code (10 and 180). A row of one or
two connections with one or two rows makes rows complete, remain, and overflow.
`BUFFER_SIZE` and `PACKET_SIZE` of two units make a packet that arrives in
parts. `WORD` is the modulus of the unsigned counters; `MaxClock` bounds the
clock of the one run whose property reads it.
Three threads are the fewest with which a broadcast wakes a thread whose turn it
is not; two packets make the turn come round twice; `PACKETS` also bounds the
packets of the timed program.
In `clients` a message has three units and the socket's buffer four, so that
messages are taken in parts and parts of two messages wait together; seven
messages pass two of per.c's looks at the clock and two connections of non.c.
In `exp2` a third connection makes `count` pass 2 and reuses a number. In `exp1`
the numbers of a third connection that sends nothing are always missing, so that
gaps add up to more than `out_of_order` (two) can hold; the third connection finds
no descriptor or reuses a number; a line of two units is cut in the middle, and a
buffer of three takes a line and a half, so that one recv takes everything or not.
The connections are opened one after the other there; what is sent over them
arrives in any order.

Fairness. `exp3_open` and `exp3_queue` assume that the server's loop runs as
long as the process does (weak fairness of its steps). `exp3_queue` also assumes
that what a client has sent arrives and that a non-persistent client closes in
the end: `non.c` sends a bounded number of messages per connection and then
closes. Nothing is assumed of the persistent client's leaving or of signals.
`turns` assumes weak fairness of every thread and of main, and that time passes.
Locking needs no more than that: whoever takes the lock out of turn releases it
to wait, and spurious wakeups are finitely many (`MaxSpurious`).
`exp1` and `exp2` assume the server's steps only: its process is scheduled, and
the clients owe nothing. `clients` assumes the client's steps, that time passes,
and that a packet sent to a closed connection is answered by the kernel; neither
that the server reads, nor that `socket` ever succeeds, nor that a signal comes.

The order in which the four clients of `exp3_queue` connect is given by their
names, which is no loss: but for n3, which sends nothing, they are alike.

The clients of `exp3_queue` and `exp3_experiment` are not fixed by the modules but
described by assumptions of `Exp3Deployment`. `PersistentLasts`: per.c connects
first, is closed last, and no call fails for lack of memory. `ShortVisits`: in
addition the other connections, any number at once, last less than the second
`epoll_wait` sleeps. `OneAtATime`: in addition to `PersistentLasts` they follow
each other, as non.c's pause "for server cleanup" intends, send something, and
send the first of it within a second, but may last for any time. `Deployed` is
either of the two. TLC evaluates the assumptions on the two instances; the
theorems have them as hypotheses. `exp3_early_stop` is what happens under
`PersistentLasts` alone.

Each property of a passing run has a mutant in PROJECT.json: a change to the
model as a plausible bug in the code would make it, after which TLC finds the
property violated. The mutated forms stand before the definitions they replace.

## Findings

- `exp3_early_stop`: an inactive connection whose data is in the current batch is
  closed at line 295; its event then fails with EBADF and line 497 counts it off
  again. `active_clients` reaches 0 while the persistent client is connected, and
  line 567 stops the server.
- `exp3_only_counts`: `pick` is not reset with the other counters (324-334), so a
  pair that straddles two connections makes the unsigned difference of line 305
  or 306 wrap.
- `exp3_duration`: a connection that ends without data adds the duration of the
  previous one again (297, 507).
- `exp2_early`: serverexp2.c takes data only while `count` is 2 (386). A packet of
  the first thread that is read before the second connection is accepted falls
  into the branch of a failed recv: "Receive failed" is printed (471), the
  connection is closed (477), and the rest of the experiment runs on one.

Smaller findings, without a run:

- server_epx3.c: "Save any remaining stats" (575) saves nothing unless a pair was
  counted; packets are counted per recv (455), so one that arrives in parts is
  not; a misidentified connection in the queue stays registered with epoll and
  its data is dropped; a client that waited ten seconds in the queue is closed
  right after its promotion; after a failed promotion the slot stays empty and
  the next accept overtakes the queue; a failed `EPOLL_CTL_ADD` after accept
  leaves the closed number in the slot.
- serverexp2.c: a signal between the loop's test and `epoll_wait` (284-286) is
  noticed only with the next event; `count` counts accepts that fail; after a
  refusal or a failed call `active_clients` never returns to 0, so that only a
  signal ends the server.
- server_final.c: the rest of a line that `recv` has split is dropped, so that
  its packet is reported as overtaken; `recv` is called once for each edge, so that
  what arrived beyond `BUFFER_SIZE` stays until something else arrives on the
  connection, and a close that arrives together with data is never noticed; the
  "Final out-of-order packets" of the handler (97) are printed while the loop may
  still add to them.
- non.c: when `socket` fails (93-96) the loop continues without updating `elapsed`,
  so a failure that lasts keeps it running beyond its time; `SO_LINGER` with no time (144) discards data that was counted as sent;
  on SIGINT it does not complete the current connection, as line 28 says, but
  stops within it; "Invalid MSGS_PER_CONN, using default" (53) uses none.
- per.c and non.c are killed by SIGPIPE when they send again on a connection that
  the server has closed; per.c does not look at the clock while the buffer is
  full.
- clientexp2.c: "sends 10 messages per connection" (66), but `BATCH_SIZE` is 1000.
- clientexp2_time.c: `total_responses * 480` (130) stands beside "60 bytes per
  packet" and overflows an int from 4.47 million packets on. The timed clients
  may stand still for ever when the thread that connected first runs out of time
  first and the turn comes back to it. "All packets sent in strict TCP connection
  order." is printed also when nothing could be sent, as in client_final.c (66).

## Proofs

For every value of the constants that satisfies the named assumptions of the
modules (limits are natural numbers, `BUFFER_SIZE`, `PACKET_SIZE`,
`SUMMARY_INTERVAL`, `WORD`, `LINE` and the other sizes are not zero, a buffer of
experiment 1 holds a line), TLAPS checks:

- `ServerTypeCorrect`: `TypeInv`, that is `TypeOK` and `BatchOK`. `BatchOK` (an
  event on the listener implies a waiting connection) is needed because accept
  takes the head of the backlog; it is inductive because only the handler of
  that event takes from the backlog and a batch holds it once.
- `ForgetsNoConnection` (`NoForgottenConnection`): inductive with `TypeInv`. The
  argument is `CloseForgetsNone`: whoever leaves the queue is closed or
  registered by the same handler.
- `CountNeverTooHigh` (`NeverOvercounts`): inductive with `TypeInv`. Every
  handler that subtracts n closes at most n descriptors (`CloseCount`), and a
  counted accept opens one that was free (`LowestFreeIsFree`). The converse
  inequality is false, which is finding `exp3_early_stop`.
- `StatsTypeCorrect` (`StatsTypeOK`) and `PairsAlwaysSplit` (`PairsAreSplit`),
  from `StatsInv`; `WholeServerSafe` carries the connection layer's invariants
  to the whole server, each counted action being an action of the server by its
  definition (`StatsImplementServer`, a lemma).
- `LabelsAreRight` (`RowsMatchLabels`), for every client and every failing call:
  the connections in the present row are those since the last label
  (`conns` follows `connection_count`), so a row is as long as its label says.
- In the deployments of the report (`Exp3DeploymentProofs`), with any number of
  connections, descriptors, rows and units: `OneRoleEach` (`PlacesDisjoint`),
  `CountExact` (`ActiveClientsExact`), `StopsForNobody` (`StopsWhenNoneIsLeft`),
  `FirstComeFirstServed` (`ServesInOrder`), `PairsAlwaysWithinEvents`
  (`PairsWithinEvents`, the differences of lines 155-156; those of 305-306 and
  515-516 wrap even there, see Findings), `ReportAddsUp` (`RowsAddUp`) under
  `Deployed`; `BytesOfTheSender` (`BytesFollowTheSender`) under `OneAtATime`,
  where every connection stays in the slot accept gave it.
- For the clients that take turns, with any number of connections and packets:
  `PacketsInOrder`, `ClientsTakeTurns`, `NoWakeupIsLost`, `SharesAreFair`,
  `RoundCounterAgrees`, `TurnClientTypeCorrect`. The inductive invariant `Inv` says who holds the mutex
  (`LockOK`), that only the one whose turn it is sends (`TurnIsHeld`), and that
  shares are equal up to the turn (`FairShares`), from which the round counter
  follows (`PacketIsRound`) and with it that nobody waits in turn. For the order
  of packets `LogOK` relates the last packet to the turn: equal between sending
  and passing, one behind otherwise.

- For the senders: `TypeCorrect` (`TypeOK`), `StreamAlwaysWhole`,
  `ReportAlwaysAddsUp`, `OverrunAlwaysBounded`. `SendOK` says when a send is
  half done and how many messages a connection of non.c has; the stream is then
  a sum that each step keeps (`CountSentAdds`). For the overrun `TimeInv` says
  that between the end of the time and the last look at the clock lies no
  multiple of `CHECK_EVERY`, and `MultipleWithin` that there is one in every
  interval of that length.
- For serverexp2.c: `TypeCorrect` (the state is well typed, a batch names open
  descriptors), `PairsNeverExceedReads` (a pending `pick` owes its side one
  read), `EveryByteHasASide` (from `NamesOK`: while `count` is at most 2 every
  open descriptor is one of the remembered two, since every accepted connection
  was counted and noted), `CountNeverTooLow`, and from it the action property
  `NeverStopsUnderAClient`.
- For the servers of experiment 1: `TypeCorrect` (`TypeOK`; `PlaceOK` says where
  the server stands in each stream, and for server6.c that it is
  `packet_count` lines from the start), `LogAlwaysFollows`, `ReportAlwaysRight`
  (`ReportInv`: the greatest number read is the one before the expected one; a
  line that overtakes adds to what is not in time exactly the numbers of the gap,
  and `GapRecorded` says which of them the array takes), and `NothingIsStranded`
  (`WatchInv`: every open descriptor is registered, and the batch is empty before
  `epoll_wait`; then each step is shown to leave no descriptor that waits without
  its edge, its event or the mark that its handler left it). It holds for buffers
  and streams of any size; its only condition is that descriptors are fewer than
  the entries of `connections`.

The argument for the deployments. The inductive invariant `RunInv` has as its core
`RolesInv`: the open descriptors are exactly those of the slots and the queue,
each with one role; the slots' are registered, and only they and the listener
have events in the batch; the persistent connection, and nothing else, is in the
persistent slot; nobody waits for an empty slot; `active_clients` is the number
of open descriptors. None of this survives lines 289-356 when the connection
that they end has an event in the batch, so the proof shows that nobody is ended
for inactivity in either deployment, for a different reason in each.
With `ShortVisits` whoever holds the slot or waits came less than a second ago
(`JustCome`), since `epoll_wait` sleeps only while no such connection is left.
With `OneAtATime` the queue stays empty (`InTurn`), and by the time the
connection in the slot has been there for a second it has been heard (`Heard`,
which rests on `ReadSoFar`: `nonper_bytes_read` is what was read of it), while
lines 289-356 end only one that was not. `NobodyReaped` states it, and each
step of the server is then one of the few that `Steps` lists.

From `RunInv` follow the places, the count and the stop. The refinement maps the
slot and the queue to the owners of their descriptors; `ServiceStep` has one case
for each action, and a connection that leaves is never reused, so that the
service's `left` only grows. For the pairs `PairsInv` adds that a pair that has
begun, whichever connection's descriptor `pick` holds now, still lacks an event
of the other side. `RowsAddUp` is inductive with `StatsInv`: `InRowsAppend` says
what a stored row adds to the sums. For `BytesFollowTheSender`, `ReadFromChange`
and `ReadFromSame` say how one `recv` changes a sum over connections. Sums are
recursive functions; that they are defined everywhere is proved by the least
element for which they are not (`Exp3StatsProofs`), which needs no induction
theorem.

The lemmas about descriptors, the backlog and their number are shared
(`SocketLayerProofs`).

Only model-checked: liveness, which the prover cannot reach (`StopsWhenQuiet`,
`WaitersAreServed`, `EndsOrStandsBehindLeaver`, `EndsOrIsHeldUp`,
`EndsWhenAllHaveLeft`, `SignalStops`, `ArrivedIsRead`). Every other property of a
passing run is stated by a theorem, most of them without a condition on the
clients. Of those of `exp3_queue` and `exp3_experiment` only `RowsMatchLabels` is
unconditional; the others have the deployment as hypothesis because the code does
not keep them otherwise. With the clients and failures of `exp3_counts` TLC
violates `PlacesDisjoint`, `ActiveClientsExact`, `RowsAddUp`, `PairsWithinEvents`
and `BytesFollowTheSender`: a connection of kind `N` that is moved out of the
persistent slot, a failed `EPOLL_CTL_ADD` after accept, or an inactive connection
that is ended is enough.

## Not modelled

- `exp1/server.c` appends what it reads to one buffer that a thread prints under
  the same mutex; it keeps nothing else. `exp1/server8 copy.c` is server7.c with
  a parser that takes the first number of a line, so that what it reads of a
  split line depends on the text of the line, which the models leave out.
- `exp1/client.c` is one thread that sends sixteen packets one after the other;
  the threads of `exp1/client7.c` share a mutex but no data.
- The scripts read logs and plot; `exp3`'s ratios and throughputs are computed
  from the counters by formulas without state.
- Start-up failures (`socket`, `bind`, `listen`, `epoll_create1`) end the servers
  before any state exists. (Those of the sending clients' `socket` are modelled:
  non.c and clientexp2.c call it for every connection.)
