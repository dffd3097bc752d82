# A verification project for raft-leader-election

TLA+ models of the leader election of this repository, the TLC runs that check
them on small instances, and TLAPS proofs of the main safety properties for
every instance.  All paths are relative to the repository.

## 1. The system

Each server is a process with one `RaftFSM`.  It has three kinds of threads:
the *executor* of its `Scheduler`, which runs the election timeout and the
heartbeat; the *network* thread (the `io_context` inside `start()`), which
decodes events and calls `RaftFSM::handle`; and *user* threads, which call
`start`, `stop`, `block`, `unblock` and `stay_follower`.

| Component (source) | State | Operations | Interacts through | Correct if | Module |
|---|---|---|---|---|---|
| `RaftFSM`, `Voter` (`include/fsm.hpp`) | `role_`, `term_`, `voter_`, `voted_peers_`, two `ScheduledTask`s, `blocked_` | `handle` for five kinds of events; role conversions; the user's methods | actor (send), scheduler (timers), callbacks of the user | one leader per term, from real votes; timers fit the role; a stale leader gives up; a silenced server stays silent, an unblocked one takes part again (it does not) | `RaftFSM`, `Election`, `FsmThreads` |
| `Scheduler`, `ScheduledTask`, `Task` (`include/scheduler.hpp`) | task queue, due times, `paused_`, `cancelled_`, three kinds of locks, a condition variable | constructor, `schedule`, `reset`, `pause`, `resume`, `cancel`, the executor loop, destructor | calls `RaftFSM` while it holds its mutex | a timer is neither lost, doubled nor early; pause sticks; no deadlock; destruction ends | `Scheduler`, `FsmThreads` |
| Events, `NetworkUtil` (`include/protocol.hpp`) | none | encode and decode | every message | a number arrives as it was sent | `NetworkUtil`; `Wire` in `RaftFSM` |
| `RemoteRaftActor` (`include/raft_actor.hpp`) | `server_`, `client_`, peers | `start`, `stop`, `send`, `majority` | hands messages to `handle` | messages reach running servers only | in `RaftFSM` and `Transport` |
| `Server`, `ServerConnection`, `Client` (`include/node.hpp`) | acceptor, sockets, a read loop per connection | accept, read header and body, `send`, `stop` | actor, pool | a message arrives at most once and unmixed; `send` returns | `Transport`, `Delivery` |
| `ConnectionPool` (`include/connection_pool.hpp`) | one connection per peer, `closed_` | `get`, `create`, `write` | used by executor and network thread | one connection at a time, made anew after an error | `Transport` |
| `BlockingQueue`, `CountDownLatch` (`include/concurrent.hpp`) | queue, count | `put`, `get`, `clear`; `count_down`, `await` | the tests of `node.hpp`; `Scheduler` | no wakeup lost | `BlockingQueue`, `Delivery`, `Scheduler` |
| `utils.hpp`, `raft_factory.hpp` | none | clock, concatenation, options | - | - | the clock in `Scheduler` |
| Examples | - | the lock: `on_become_leader` calls `stay_follower()` | callback | each term has one holder | `Releasers` in `RaftFSM` |

What is hard here: handlers, timers and user calls interleave under three
different locks, and some run under none; messages are lost, delayed and
overtaken; sockets fill up, break and are made anew while two threads write to
them; nothing is persisted; terms pass through a codec that changes some of
them.  `PROJECT.json` lists the hazards, each at its line, with the properties
that watch it or the reason why none does.

## 2. The modules

### RaftFSM

A cluster of servers.  `fsm[s]` is one record with the fields of the `RaftFSM`
of server `s` and where its executor is; `msgs` holds the
messages in flight; `ballots` is a history variable, every vote `Voter` ever
granted.  The member functions of `fsm.hpp` are operators on a record and keep
their names; an action applies one of them.

| Action | Code |
|---|---|
| `Start`, `Stop` | `start()` and `stop()`; `stop()` ends the network thread only |
| `ElectionTimeoutDue`, then `HandleElectionTimeout` or `IgnoreElectionTimeout` | `Task::call` finds the timer not paused; then `handle(ElectionTimeoutEvent)` waits for `handler_mtx_` |
| `HeartbeatDue`, then `SendHeartbeat` per peer | the heartbeat callable, which holds no lock of the fsm and reads `term_` each time |
| `HandleRequestVote`, `HandleRequestVoteResponse`, `HandleAppendEntries`, `HandleAppendEntriesResponse` | `handle(event)` with the common rule for higher terms and the handler's reply |
| `LoseMessage`, and `reached` in `HandleElectionTimeout` | no connection to a peer (`Client::send`), loss in the network, a server that is not listening |
| `Restart` (in `RestartSpec` only) | the process ends and is started again with nothing remembered |

Abstractions.

- A handler is one step because it runs under `handler_mtx_`.  `stay_follower()`,
  `block()` and `unblock()`, called by a user thread, do *not* take it and may fall
  into the middle of a handler.  They are left out here and modelled in
  `FsmThreads`, where a handler is not one step; what is shown of `RaftFSM` is
  shown of clusters in which no user thread calls them.
- No clock: an active timer may fire at any time, so `reset()` is invisible.
- Messages are a set.  Two equal ones in flight are one; all handlers treat an
  immediate repetition as the first (a tally is a set, `Voter` repeats its
  answer).  Order is not kept: one TCP connection keeps it, a reconnection does
  not, and the comment at `Client::send` promises none.
- `Wire(t)` is the term that arrives when `t` is sent.  `WireAssumption` says
  what the proofs need of it: it never shrinks a term and changes it only once.
  `NetworkUtil` shows both of the code.
- `Releasers` are the servers whose `on_become_leader` calls `stay_follower()`,
  as in `examples/distributed_lock.cpp`; the callback runs inside the handler, under
  `handler_mtx_`, and is part of the conversion.  Two short moments of a releaser are
  lost with that: a heartbeat that falls due between `start_heartbeat()` and
  `stay_follower()`, and its paused election timer falling due while `reset()` has
  queued the new task and not yet paused it (`FsmThreads` has the second).
- `Stoppers` are the servers that may be stopped.  `stop()` ends the network thread
  between two events.

### Election

What `RaftFSM` promises, without messages, votes and timers: `winner[t]`, decided
at most once per term; `term[s]`, which only grows; `leads`, which a server enters
only from the term it is the winner of, going up one term.  The mapping is in
`RaftFSM` (`Abstract`): `winner[t]` is the server for which a majority of
`ballots` of term `t` exists, `leads` the servers with role `leader`.  A term is
decided by the vote that completes a majority, usually before the candidate
learns of it and sometimes without it ever learning; so the abstract election and
the abstract inauguration are separate steps, and the former coincides with
the move of the voter into its present term.

### FsmThreads

One started server with its executor, its network thread and one user thread,
at the granularity of lock operations.  `todo[t]` is the sequence of operations
that thread `t` has still to perform; `handler(e, r)` gives those of a handler,
`method(m)` those of a user's call, and an operation that branches on `role_` or
on a null pointer is replaced by its branch when it is executed.  `owner` says
who holds `Scheduler::mtx`, `handler_mtx_` and the mutex of each
`ScheduledTask`.  The user's methods hold none of them across operations, so they
come anywhere: between the role test at `fsm.hpp:432` and the insert at 434,
between `role_ = follower` and `init_follower_state()` (276, 277), in the middle of
`convert_to_leader`.  `role_` is read anew wherever the code reads it:
`convert_to_follower` and `clear_prev_state` are operations that branch.

Terms and messages are abstracted: an event may or may not come with a higher
term, and a vote may or may not complete a majority.  Of `voted_peers_` the model
keeps whether there are votes in it (`votes` is `none`, `fresh` or `stale`), and
whether all were cast in the present term: `inc_term` and the adoption of a
higher term make a tally that is not empty stale.  Two history variables:
`meddled`, a user method has been called; `overlapped`, a call has overlapped a
handler.

Left out: `Task::mtx_`, which only the executor takes; due times (any queued
task may be due; `Scheduler` has them); the sending of heartbeats (no state
here); `cancelled` in `reset()`, which is false as long as the `RaftFSM` exists;
the callbacks of the user; the data races on the `shared_ptr`s and on the
`unordered_set` themselves, each operation on which is one step.  `run_after` and
the store of its result in the `ScheduledTask` are one step.

### Scheduler

One `Scheduler` against a clock, with its executor and one client thread.

| Action | Code |
|---|---|
| `Constructed`, `Destroy`, `NotifyExecutor`, `Join` | the constructor, which waits for the latch; the destructor, whose store and notification are two steps without the mutex |
| `Enter`, `Block`, `Wake`, `Timeout`, `ReadTop` | the executor's loop and `wait_for`, including the moment between the test of the predicate and the wait, and `top()` of an empty queue (`undefined`) |
| `ExecuteDueTask`, `Return`, `EndBatch` | `execute_due_tasks`, under the mutex; the callable takes time, during which a client may pause, cancel or reset |
| `Schedule`, `ResetBegin`, `Push` | `run_after`: the task and its due time first, then the queue under the mutex; for `reset()` the old task is cancelled before |
| `SetFlag` | `pause`, `resume`, `cancel`: flags of the task, no mutex |
| `Tick` | the clock |

A time is the number of ticks left.  Tasks that are overdue are not told apart,
so the executor takes them in any order, where the code takes the earliest
first.  A task that `reset()` replaced stays in the queue, cancelled, until it is
due (`replaced`); it matters for the emptiness of the queue and for the wait.
`max_calls`, which no caller sets, and `ttl()`, which changes nothing, are left
out.

### Transport, BlockingQueue, Delivery

`Transport` is one process sending to one endpoint, and the `Server` there.  A
socket carries *parts*: the header and the body of a message are two, `encode`
gives both, and `asio::write` writes as many of them as the socket has room for,
then waits.  No lock is held, so another thread may write in between: the reader
then takes a body for a header.  What happens next depends on the bytes, so a
reader that is out of step (`garbled`) may do anything: swallow what arrives or
close.  What it would hand to `on_message` then is not modelled.

| Action | Code |
|---|---|
| `Send`, `GetConnection`, `Connect`, `ConnectFails` | `RemoteRaftActor::send`, `Client::send`, `ConnectionPool::get` and `create`, the latter under the pool's mutex for as long as connecting takes |
| `Write`, `WriteFails` | `Connection::write`; an error sets `closed_`, the message is dropped |
| `Break` (external) | the connection is lost, or the sender's system learns that the peer closed |
| `ServerLife`, `Run` | the peer's `Server` is made, started, stopped; its process ends and comes back |
| `Accept`, `ReadHeader`, `ReadBody`, `ReadGarbled`, `ReadFails` | `Server::accept` and the read loop of `ServerConnection`, with the test of the length |

`stop()` ends the `io_context` and closes the acceptor but no connection: the
peer's sockets stay open and unread.  Connections that were not accepted yet are
reset.

`BlockingQueue` is the class of that name; a getter that found the queue empty
holds the mutex until it waits, `clear()` does not take the mutex and its two
stores are two steps.  `Delivery` composes the two as `test/node_test.cpp` does:
`on_message` is `put()`, so a getter that holds the mutex delays all
connections of the `Server`.

### NetworkUtil

A number as the function from significance to byte, the array as the function
from index to `char`.  `hton`, `ntoh`, `ntoa`, `aton`, `htoa`, `atoh` are the
functions of the same names.  `aton` models the sign extension of
`static_cast<T>(a[i])`: it fills all higher bytes with ones.  `Encode` and
`Decode` send a number from machine to machine, as terms are.

### MCRaftFSM and the proof modules

`MCRaftFSM` defines two codecs (the identity, which is what the code does with
terms below 2^15 as `SmallNumbersIntact` shows, and one that enlarges a term, as
the code does to some from 2^15 on)
and the symmetry of servers.  Symmetry is used for safety only.  The proof
modules (`RaftFSMProofs`, `RaftFSMRefinement`, `RaftFSMRoleProofs`,
`NetworkUtilProofs`, `BlockingQueueProofs`, `SchedulerProofs`, `DeliveryProofs`,
`FsmThreadsProofs`) are described in section 4.

## 3. The runs

Runs that pass:

| Run | Instance | Properties |
|---|---|---|
| `election` | 3 servers, one of which releases at once, terms to 3, 2 messages in flight | `TypeOK`, `ElectionSafety`, `OneWinnerPerTerm`, `TallyIsReal`, `LeaderWonPreviousTerm`, `TimersMatchRole`, `NonLeaderTimesOut`, `HeartbeatFromWinner`, `LeadershipChange`, and `ImplementsElection`, the refinement |
| `step_down` | 2 servers that may be stopped, terms to 4, a codec that turns 3 into 4, fairness | `IndInv`, `ChangedTermsElectNobody`, `TermsOnlyGrow`, `StaleLeaderStepsDown` |
| `number_codec` | all numbers of 3 bytes of 8 values, both byte orders, 2 hops | `TypeOK`, `BytesGrow`, `SmallNumbersIntact`, `OnlyFirstHop` |
| `timers` | 3 tasks, all three user calls at any moment | `TypeOK`, `OneTaskPerTimer`, `PauseSticks`, `TimersMatchRoleAtRest`, `TallyOfOneTerm` (the two until a call has overlapped a handler), `OneWayToGetStuck`, `SilenceKept` |
| `scheduler` | 2 timers, interval 2, idle wait 3, fairness | `TypeOK`, `TopDefined`, `ResetPostpones`, `DestructorReturns`, `TimerIsCalled` |
| `delivery` | 2 sending threads, 3 messages, one of them too long, 2 connections with room for 3 parts, 1 getter, fairness | `TypeOK`, `OneConnection`, `OvertakenAfterError`, `GarbledAfterStall`, `NoLostWakeup`, `SendReturns`, `WrittenArrives` |

What the less obvious ones say.  `ChangedTermsElectNobody`: a term that the codec
changes elects nobody, because its votes are recorded under another term.
`StaleLeaderStepsDown` has a stopped leader as its exception: it hears nothing and
leads for ever, while the heartbeats of one that was stopped still depose others.
`TimersMatchRoleAtRest` and `TallyOfOneTerm` justify that `RaftFSM` takes a handler
as one step.  Once a call has overlapped a handler both are false: the run
`block_race` shows it of the timers, and without its premise TLC refutes
`TallyOfOneTerm` with a vote that is inserted after `stay_follower()` has cleared the
tally, is found by a timeout that was under way, and is compared with the majority
in the next term; in a cluster of five it elects a leader with two real votes, its
own included.  `SilenceKept`: when a server has been told to stay follower, by
`stay_follower()` or by `block()`, and the conversions and timeouts that were under
way are over, no event makes it stand for election again, nor does `unblock()`.
The one exception is the moment in `reset()` before the pause is carried over.
The end of what was under way is a premise because the code needs it: a call that
falls between the lines 276 and 277 is undone by the handler, and a timeout past
the test of `paused_` still starts an election.  `OneWayToGetStuck`: the
deadlock of the run `deadlock` is the only cycle of waiting; no thread waits for
itself, which the executor would if a timeout rescheduled its timer.  `TopDefined` says
exactly when `top()` is read on an empty queue: only when no timer is active,
which includes the moment in which the only one is being reset.  `SendReturns`,
`WrittenArrives`, `OvertakenAfterError` and `GarbledAfterStall` state the
conditions under which the transport disappoints; each condition is needed.

Runs that show a disagreement between the code and what is said of it (the
quotations are in `PROJECT.json`, "findings"):

| Run | Claim | What happens |
|---|---|---|
| `three_leaders` | at most two leaders | a leader grants its vote in its own term without stepping down; three leaders of three servers.  The `SignOffLeader` exchange of the README, which should leave one, is not implemented |
| `restart` | leaders co-exist only in different terms | a restarted voter votes twice; two leaders in one term |
| `round_trip` | decoding gives the number back | sign extension changes it |
| `deadlock` | `handle()` returns | executor and network thread wait for each other |
| `block_race` | a blocked server gives way to others | `block()` overlapping `convert_to_leader` leaves a blocked leader with running heartbeats |
| `unblock` | `unblock()` makes the server re-join the group | the election timer that `block()` paused stays paused; `SilenceKept` says that nothing starts it again |

Other behaviours that the models have and no run of its own is kept for:

- A timeout that is past `paused()` when `stay_follower()` is called starts an
  election afterwards (`ExecuteDueTask`, the user's operations, then `handle` of the
  executor in `FsmThreads`).
- A leader deposed in the middle of its loop sends the remaining heartbeats with
  the term it has just adopted, and a candidate of that term gives up for them.
- A little-endian host puts the least significant byte first on the wire, where
  the comment at `htoa` says big-endian.
- The executor spins while the queue is not empty and nothing is due, since the
  predicate of its `wait_for` is then true at once; so it waits on an empty queue
  only, and `wait_time` is at that point what some earlier task left.
- With one timer, `reset()` cancels it before the new task is pushed; if the
  executor drops the old one in between and its wait ends, it reads `top()` of an
  empty queue.
- A process whose peer called `stop()` fills the socket and then blocks in
  `asio::write`; the comment at `Client::send` says that it returns immediately,
  and speaks of a new connection for each message where the pool keeps one.
- `clear()` of `BlockingQueue` may notify before a getter waits, which then
  sleeps on.

Bounds.  A candidate of term `t` needs `t + 1` as well, to lead with, so `MaxTerm`
3 allows elections in the terms 1 and 2, enough for two leaders in a row and for
candidates of neighbouring terms; 4 adds the last election
of `step_down`, in the term 3, which the codec enlarges.  `MaxInFlight` delays the steps
that would exceed it.  Two messages are enough for the requests of two
candidates to reach the same voter, or a request and a late response to cross,
since a request need not reach every peer (`reached` in `HandleElectionTimeout`).
With three servers a candidate's tally is its own vote until the one that elects
it, so larger tallies are a matter of the proofs, which hold for any cluster.
At the bound on terms a timeout is ignored, and since a
timer that is ignored comes again, the runs of `RaftFSM` that pass are free of
deadlocks, which TLC checks.  It does not where the system may really stop: in
`FsmThreads` the deadlock of the run `deadlock` exists, a `Scheduler` ends with its
destructor, a number stops after
`MaxHops`, and in `Delivery` all messages are sent in the end.  `MaxTasks` 3 is the
election task, its replacement and the heartbeat task; a thread that finds no
free one waits until a cancelled task has been dropped.  States that differ only in
which `Task` object serves what, or in objects that are in no queue and that no
pointer holds, are taken as one (`VIEW InUse`); no operation depends on either.  Bytes of 8 values and width 3 have all the cases
of the sign extension: bytes below, between and above a negative one.  In
`Scheduler` an interval of 2 lets a timer be due, half due and freshly reset, and
the idle wait of 3 ends neither with nor before a timer; two timers are what a
`RaftFSM` has.  In `Delivery` three messages of two threads include two of one
thread, for the order, and one of the other, to come between its header and
its body; room for 3 parts takes one and a half messages, so that a write is
split; the second connection is the one made after an error, and at the bound a
further attempt fails, as connecting may.

Fairness.  `FairSpec` of `RaftFSM`, for `step_down`: strong fairness of the
executor's due tasks: its loop (`scheduler.hpp:146-160`) runs every task that is
due and a heartbeat is due every 50 ms.  Strong fairness of handling *some*
message from each server to each other one: links are fair-lossy, an assumption
on the network, not on the code.  Strong rather than weak, because the bound on
messages disables steps now and then.  A message to a server that is not running is
handled by being found without a receiver, so it does not clog the link.  A stopped
server's executor goes on and is as fair as before.  No election has to happen.  The run
depends on the absence of the deadlock that `deadlock` shows.

`Scheduler`: weak fairness of the clock, of the executor (its thread is
scheduled and callables return; a callable is required to be non-blocking) and
of the calls of the client that have begun.  No call has to be made.

`Delivery`: weak fairness of `connect` and `write` (they return when they can), of
the start of a `Server` that listens (`RemoteRaftActor::start` does both), of what
is ready on each connection (the `io_context` runs every ready handler;
`on_message` must not block, as the comment of `Options` says), of the news that
a peer has closed, and of the getters.  None for losing a connection, or for the
life of the peer.

Each property has a mutant of the code, listed in `PROJECT.json`, that breaks it;
the mutated operators stand before the originals in the modules.

## 4. The proofs

Assumptions on the constants: `Server` is finite, `MaxTerm` is a natural number,
the codec satisfies `WireAssumption`; for `NetworkUtil` any width, any even
radix, any set of byte orders; for `BlockingQueue` any finite set of getters and
any values; for `Scheduler` any set of timers, any finite set of intervals of at
least one tick and any idle wait of at least one; for `Delivery` any finite set of
threads, any number of messages and connections, any capacity of at least one
part; for `FsmThreads` at least one `Task` object and any of the three user
methods.  In `RaftFSM` `Stoppers`, `Releasers` and `MaxInFlight` are arbitrary; that no
user thread calls `stay_follower()` or `block()` is a matter of that model.

| Theorem | States |
|---|---|
| `Invariance` | `Spec => []IndInv` |
| `TypeCorrect` | `TypeOK` |
| `UniqueWinners`, `SafeElections` | `OneWinnerPerTerm`, `ElectionSafety` |
| `TalliesReal`, `LeadersElected` | `TallyIsReal`, `LeaderWonPreviousTerm` |
| `HeartbeatsEarned` | `HeartbeatFromWinner` |
| `TermsMonotone` | the action property `TermsOnlyGrow` |
| `TimersRight` | `TimersMatchRole` |
| `Refinement` (`RaftFSMRefinement`) | `ImplementsElection`: every step is a step of `Election` or none |
| `ChangedTerms`, `PeersElect` (`RaftFSMRefinement`) | `ChangedTermsElectNobody`, and `LeaderHasPeerVote`: nobody leads without the vote of another server, so a cluster of one has no leader (no run has one) |
| `NobodyFallsSilent`, `OrderlyLeadership` (`RaftFSMRoleProofs`) | `NonLeaderTimesOut` and the action property `LeadershipChange` |
| `CodecTypes`, `TermsNeverShrink`, `SmallNumbersKept`, `FirstHopOnly` (`NetworkUtilProofs`) | `TypeOK`, `BytesGrow`, `SmallNumbersIntact`, `OnlyFirstHop` |
| `WakeupsKept` (`BlockingQueueProofs`) | `NoLostWakeup`, for the queue by itself and any values |
| `SchedulerInvariance`, `SchedulerTypes` (`SchedulerProofs`) | `Spec => []SchedInv`, `TypeOK` |
| `TopOfNothing`, `NoEarlyCall` (`SchedulerProofs`) | the action properties `TopDefined`, `ResetPostpones` |
| `NetworkInvariance`, `QueueInvariance`, `DeliveryTypes` (`DeliveryProofs`) | `Spec => []NetInv`, `Spec => []QueueInv`, `TypeOK` |
| `PoolKeepsOne`, `NoOvertaking`, `InStepUntilStall` (`DeliveryProofs`) | `OneConnection`, `OvertakenAfterError`, `GarbledAfterStall` |
| `ArrivalsWake` (`DeliveryProofs`) | `NoLostWakeup`, for the queue that the network feeds |
| `FsmInvariance`, `ThreadsTypes` (`FsmThreadsProofs`) | `Spec => []FsmInv`, `TypeOK` |
| `OneTask`, `PauseKept`, `TimersAtRest`, `TalliesAreFresh`, `OneDeadlock` (`FsmThreadsProofs`) | `OneTaskPerTimer`, `PauseSticks`, `TimersMatchRoleAtRest`, `TallyOfOneTerm`, `OneWayToGetStuck` |
| `SilencedStaysSilent` (`FsmThreadsProofs`) | the action property `SilenceKept` |

The argument.  `ElectionSafety` alone is not inductive: it says nothing of the
votes a leader was elected with.  `IndInv` ties together what each server
remembers (`VotesRecorded`: `Voter` holds the last vote and no server has voted
twice in a term), what is in flight (`MessagesTrue`: a granted vote in flight
was cast), what is counted (`TallyIsReal`) and what was won
(`LeaderWonPreviousTerm`, `HeartbeatEarned`, `HeartbeatFromWinner`).
`MessagesTrue` also says that a term in flight is a fixed point of the codec:
this is why a vote recorded with the term that arrived is the vote the
response speaks of.  Most steps are `Quiet`: they change one node without casting
a vote or winning, and one lemma covers them.  The remaining cases are a
timeout (the candidate's own vote), a vote request (the voter's ballot) and a
vote response (the tally and the win).  Two majorities share a server
(`WinnersAgree`), which voted once in the term; so a term has one winner, and
since a leader won the term before its own, a term has one leader.
`TimersMatchRole` is inductive by itself once a server that was not started is
known to be a follower without timers.

The refinement rests on one fact about steps, `Effect`: a step moves one server;
the new ballots are its own, of its new term, and, unless cast for itself, of a
term the codec leaves alone; and a server that begins to lead has won the term
before.  `WinnerIsWon` says that the `CHOOSE` in `winner` is no choice, since a
term has one winner.  Ballots are never withdrawn, so a winner stays
(`WinnerStep`); a new leader takes office from the term it won (`OfficeStep`);
together a step is a `Move` of `Election` or a stutter.  `ChangedTerms` follows
from the same classification: a term the codec changes has only the
candidates' own ballots.  `PeersElect` adds that the response which makes a server
leader comes from another one (`VotesFromPeers`: requests go to peers, answers
back).

The theorems on roles look at one node at a time.  `RoleStep` says what any
operation may do to the role and the timers of a node that satisfies
`TimersMatchRole`; the operators of `RaftFSM` are shown to respect it one by one,
then the actions.

For the codec, what `aton` does to a byte depends on whether a negative byte is
decoded into a lower place; decoding fills all places above the first such byte
with ones, which are negative themselves, so a second pass finds nothing left to
change.  That small numbers are kept needs the value of `Number`, a recursive
function.  Induction over an operator is out of the provers' reach; the proof
takes the least place at which a bound on the partial sums would fail instead
(`HornerExists`, `NumberIs`, `NumberBounds`).  A number below the limit has no
negative byte that is decoded before another one, so it is a fixed point of the
codec (`SmallIsFixed`).

For the queue, `NoLostWakeup` needs to know that a getter that has found the queue
empty and is about to wait still finds it so (`BQInv`): it holds the mutex, so
no `put()` comes in between.  `clear()` does, which is why the property ends with
it.  `BQSpec` is the queue with any callers; in `Delivery` the only caller of
`put()` is the read loop.

For the scheduler, `SchedInv` says where a `Task` is and why: it leaves the queue for
good only if it was cancelled, out of the queue it is being called, the tasks of
a batch are due, and the time until a task is due makes up for what is missing to
an interval since the last `reset()` (`DueAfterReset`).  From the first,
an empty queue means that no timer is active; from the last, a task that is due has
waited long enough.  `Min` and `Max` of finite sets of numbers exist by `Extremes`,
which looks at a least subset without them.

For the network, `NetInv` has four parts besides the shape of the state.
`PoolGuarded`: one thread at a time connects, and only if there is no usable
connection, so connecting leaves one open.  `Framing`: until a write has to wait,
headers and bodies take turns on a connection, from what the reader expects to
the end of a message.  `OrderInv`: bodies on their way and bodies handed over
carry numbers in the order of connections and, within one, of positions, because
a thread's number (`Last`) and the last connection it may have written to (`Reach`)
only grow.  A message that arrives late therefore came over an older connection,
which `OneConnection` knows to be closed.  The queue behind the network has `BQInv`
again (`QueueInv`): every step of `Delivery` is a step of the queue or leaves
it alone.

For the threads of one server, `FsmInv` says what must hold at each operation that
a thread is about to perform:

- `Shapes`: the operations in `todo` follow one another as in the member
  functions (`Follows`), so the first determines what may come after it;
- `Locks`: who holds which mutex is decided by the first operation of each thread;
- `Tasks`: the tasks in the queue or in the executor's hands that are not cancelled
  are those the timers point to, except while `reset()` has cancelled one and not
  yet scheduled the next;
- `Pauses`: a task is paused as its timer was last asked, and within `reset()`
  `was_paused` remembers it;
- `Roles`: as long as no call has overlapped a handler, timers, role and tally match
  while neither is under way (`Settled`), and within either they are as far as
  `Needs` says of the operation that comes next.

There is one lemma per operation.  Operations that only branch (`Branched`) put the
chain of their branch in their place; that the chain is linked to what came before
and after is shown once, for all.  `OneTaskPerTimer` is `Tasks` outside of `reset()`,
`PauseSticks` is `Pauses`, `TimersMatchRoleAtRest` and `TallyOfOneTerm` are `Roles`.  `Locks` alone says who
can wait for whom (`WaitingFor`): for `handler_mtx_` a thread outside of handlers for
one inside, for `Scheduler::mtx` the network thread for the executor, for the
election timer's mutex the others for the network thread in `reset()`; the only
cycle among these is that of the run `deadlock`.  `SilenceKept` goes through the
operations once more: none that is left to any thread converts the server, a branch
puts none in their place while the role is follower, and the executor finds the
election task paused, by `Pauses`, unless `reset()` is just before `carry_over`; this
needs nothing of `Roles` and so holds with overlapping calls.  `FsmInv` was
checked with TLC, with three tasks and all user calls, before it was proved.

Every invariant and every safety action property of the runs that pass is stated
by one of these theorems.  Only model-checked: liveness (`StaleLeaderStepsDown`,
`DestructorReturns`, `TimerIsCalled`, `SendReturns`, `WrittenArrives`), since the
prover handles neither fairness nor `ENABLED`; and the counterexamples of the runs
that expect a violation.

## 5. What is not modelled

- Durations in elections: randomised timeouts against message delays, hence any
  claim that an election succeeds.  `Scheduler` has a clock, one that only goes
  forward, while `TimeUtils::now_ms` reads `system_clock`, which may be set.
- `max_calls` and `ttl()` of `Task`.
- A heartbeat loop under way when `block()` is called, which goes on after `block()` has
  returned: `FsmThreads` has the timers, not the messages.
- The life cycle of the actor: a timeout before `client_` exists, `stop()` before
  `start()`, an unknown server id.  The order in which the members of `RaftFSM` are
  destroyed.
- Exceptions (`resolve`, `remote_endpoint`) other than as the end of a process.
- Both directions of traffic at once in `Transport`; servers that block in their
  replies to each other would need thousands of unread ones.
- Server ids that the codec changes; the layout of an event in its buffer.
- `leader_`, which is never assigned; `RaftFactory`, which copies options.
- `asio` itself, other than as `Transport` uses it.

## 6. Plan

Done, in this order: `RaftFSM` with its runs and proofs, `NetworkUtil` with its
proofs, `FsmThreads`, `Election` with the refinement, `Scheduler`, `Transport`
and `BlockingQueue` with their composition `Delivery`; the proofs of the refinement,
of the roles and of the queue; the proofs about the codec's small numbers,
`Scheduler`, `Delivery` and `FsmThreads`.  Left: the actor's life cycle, where the
election timer runs before `client_` exists.
