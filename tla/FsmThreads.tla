----------------------------- MODULE FsmThreads -----------------------------
(***************************************************************************)
(* The threads and the locks of one started server: RaftFSM (fsm.hpp) on   *)
(* top of Scheduler, ScheduledTask and Task (scheduler.hpp).               *)
(*                                                                         *)
(* RaftFSM.tla takes a handler as one step.  Here a handler is the         *)
(* sequence of the operations it performs on role_, on the tally, on the   *)
(* two timers and on the locks, and the executor, the network thread and a *)
(* user thread, whose calls take no handler_mtx_, interleave between them. *)
(* todo[t] is what thread t has still to do; an operation that branches on *)
(* role_ puts the operations of its branch in its place when it is         *)
(* executed, so role_ is read anew wherever the code reads it.             *)
(*                                                                         *)
(* Terms and messages are abstracted to what an event makes a handler do,  *)
(* and voted_peers_ to whether there are votes in it and whether all of    *)
(* them were cast in the present term.                                     *)
(* Task::mtx_ is left out: only the executor takes it.  ScheduledTask's    *)
(* pause, resume and cancel hold their lock for one atomic store and are   *)
(* one step; reset holds it while it waits for Scheduler::mtx.             *)
(***************************************************************************)
EXTENDS Naturals, Sequences, FiniteSets

CONSTANTS
    MaxTasks,   \* bound on the Task objects that exist at any moment
    UserCalls   \* the methods the user thread calls

ASSUME MaxTasksAssumption == MaxTasks \in Nat \ {0}

ASSUME UserCallsAssumption == UserCalls \subseteq {"stay_follower", "block", "unblock"}

VARIABLES
    role,      \* role_
    blocked,   \* blocked_
    votes,     \* voted_peers_: empty, of the present term, or of earlier ones too
    task,      \* the Task objects: which timer they serve, cancelled_, paused_
    queue,     \* task_queue
    calling,   \* the Task the executor has popped, 0 if none
    timer,     \* the task_ of each ScheduledTask, 0 if that is a null pointer
    owner,     \* who holds each lock
    todo,      \* what each thread has still to do
    was_paused,\* the local variable paused of reset()
    asked,     \* history: the last of pause() and resume() called on a timer
    meddled,   \* history: the user thread has called a method
    overlapped \* history: one of its calls has overlapped a handler

vars == <<role, blocked, votes, task, queue, calling, timer, owner, todo, was_paused, asked,
          meddled, overlapped>>

\* What is remembered of the user thread's calls.
users == <<meddled, overlapped>>

Thread == {"executor", "network", "user"}
Timer == {"election", "heartbeat"}
Task == 1..MaxTasks

\* Each ScheduledTask has a lock of its own.
Lock == {"Scheduler::mtx", "handler_mtx_"} \cup Timer

TypeOK ==
    /\ role \in {"follower", "candidate", "leader"}
    /\ blocked \in BOOLEAN
    /\ votes \in {"none", "fresh", "stale"}
    /\ task \in [Task -> [timer : Timer, cancelled : BOOLEAN, paused : BOOLEAN]]
    /\ queue \in SUBSET Task
    /\ calling \in Task \cup {0}
    /\ timer \in [Timer -> Task \cup {0}]
    /\ owner \in [Lock -> Thread \cup {"none"}]
    /\ DOMAIN todo = Thread
    /\ was_paused \in BOOLEAN
    /\ asked \in [Timer -> {"pause", "resume"}]
    /\ meddled \in BOOLEAN
    /\ overlapped \in BOOLEAN

-----------------------------------------------------------------------------
(* What the member functions of RaftFSM do, as sequences of operations. *)

Op(name, arg) == [name |-> name, arg |-> arg]

reset(k) ==
    <<Op("lock", k), Op("read_paused", k), Op("run_after", k), Op("carry_over", k),
      Op("unlock", k)>>

\* stop_election_timeout and voted_peers_.clear().
clear_candidate_state == <<Op("stop", "election"), Op("clear_votes", 0)>>

\* The timer is started for a role; vote_self follows for a candidate.
init_follower_state == <<Op("start_election_timeout", "follower")>>

init_candidate_state == <<Op("start_election_timeout", "candidate"), Op("count_vote", 0)>>

clear_prev_state(r) ==
    CASE r = "follower"  -> <<>>
      [] r = "candidate" -> clear_candidate_state
      [] r = "leader"    -> <<Op("stop", "heartbeat")>>

\* Mutant: a follower is converted again, and its election timer resumed.
convert_to_follower_Again(r) ==
    <<Op("clear_prev_state", "follower"), Op("set_role", "follower")>> \o init_follower_state

\* The argument of clear_prev_state and inc_term is what the server is about to
\* become.
convert_to_follower(r) ==
    IF r = "follower" THEN <<>>
    ELSE <<Op("clear_prev_state", "follower"), Op("set_role", "follower")>>
           \o init_follower_state

convert_to_candidate ==
    <<Op("clear_prev_state", "candidate"), Op("inc_term", "candidate"),
      Op("set_role", "candidate")>> \o init_candidate_state

\* Mutant: a new election reschedules the timer, on the executor.
start_new_election_Rescheduled(r) == IF r = "candidate" THEN reset("election") ELSE <<>>

\* Mutant: the tally of the election that is given up is kept.
start_new_election_KeepTally(r) ==
    IF r = "candidate"
    THEN <<Op("inc_term", "new_election"), Op("stop", "election")>> \o init_candidate_state
    ELSE <<>>

start_new_election(r) ==
    IF r = "candidate"
    THEN <<Op("inc_term", "new_election")>> \o clear_candidate_state \o init_candidate_state
    ELSE <<>>

\* Mutant: the heartbeat is not started.
convert_to_leader_Silent ==
    <<Op("clear_prev_state", "leader"), Op("inc_term", "leader"), Op("set_role", "leader")>>

convert_to_leader ==
    <<Op("clear_prev_state", "leader"), Op("inc_term", "leader"), Op("set_role", "leader"),
      Op("start_heartbeat", 0)>>

pause_scheduled_tasks == <<Op("pause", "election"), Op("pause", "heartbeat")>>

\* The events, as far as handlers tell them apart; "other" is a stale event or
\* one that has no effect.  A higher term comes with any of them.
Event == {"request_vote", "vote_granted", "append_entries", "other"}

\* The part of handle() under handler_mtx_ that depends on event and role.
handler(e, r) ==
    CASE e = "election_timeout" /\ r = "follower"  -> convert_to_candidate
      [] e = "election_timeout" /\ r # "follower"  -> <<Op("start_new_election", 0)>>
      [] e = "request_vote" /\ r = "follower"      -> reset("election")
      [] e = "vote_granted" /\ r = "candidate"     ->
           <<Op("count_vote", 0), Op("test_majority", 0)>>
      [] e = "append_entries" /\ r = "follower"    -> reset("election")
      [] e = "append_entries" /\ r = "candidate"   ->
           reset("election") \o <<Op("convert_to_follower", 0)>>
      [] OTHER                                     -> <<>>

\* What the user thread may call.
method(m) ==
    CASE m = "stay_follower" ->
           <<Op("convert_to_follower", 0)>> \o pause_scheduled_tasks
      [] m = "block" ->
           <<Op("convert_to_follower", 0)>> \o pause_scheduled_tasks
             \o <<Op("set_blocked", TRUE)>>
      [] m = "unblock" -> <<Op("set_blocked", FALSE)>>

-----------------------------------------------------------------------------
\* After RaftFSM::start: a follower with its election timer scheduled.
Init ==
    /\ role = "follower"
    /\ blocked = FALSE
    /\ votes = "none"
    /\ task = [i \in Task |-> [timer |-> "election", cancelled |-> FALSE, paused |-> FALSE]]
    /\ queue = {1}
    /\ calling = 0
    /\ timer = [k \in Timer |-> IF k = "election" THEN 1 ELSE 0]
    /\ owner = [l \in Lock |-> "none"]
    /\ todo = [t \in Thread |-> <<>>]
    /\ was_paused = FALSE
    /\ asked = [k \in Timer |-> "resume"]
    /\ meddled = FALSE
    /\ overlapped = FALSE

Idle(t) == todo[t] = <<>>

Next_op(t, name) == ~Idle(t) /\ Head(todo[t]).name = name

Arg(t) == Head(todo[t]).arg

Done(t) == todo' = [todo EXCEPT ![t] = Tail(@)]

Then(t, ops) == todo' = [todo EXCEPT ![t] = ops \o Tail(@)]

-----------------------------------------------------------------------------
(* The operations. *)

AcquireLock(t) ==
    /\ Next_op(t, "lock")
    /\ owner[Arg(t)] = "none"
    /\ owner' = [owner EXCEPT ![Arg(t)] = t]
    /\ overlapped' = (overlapped \/ (Arg(t) = "handler_mtx_" /\ ~Idle("user")))
    /\ Done(t)
    /\ UNCHANGED <<role, blocked, votes, task, queue, calling, timer, was_paused,
                   asked, meddled>>

ReleaseLock(t) ==
    /\ Next_op(t, "unlock")
    /\ owner' = [owner EXCEPT ![Arg(t)] = "none"]
    /\ Done(t)
    /\ UNCHANGED <<role, blocked, votes, task, queue, calling, timer, was_paused,
                   asked, users>>

\* The next operation of t pauses or resumes a timer, and which one: by
\* pause_scheduled_tasks or stop_..., by start_heartbeat or start_election_timeout.
Pausing(t) == Next_op(t, "pause") \/ Next_op(t, "stop")

Resuming(t) == Next_op(t, "resume") \/ Next_op(t, "start_election_timeout")

Timer_of(t) == IF Next_op(t, "start_election_timeout") THEN "election" ELSE Arg(t)

\* ScheduledTask::pause and resume, and the null test of their callers.
PauseOrResume(t) ==
    /\ Pausing(t) \/ Resuming(t)
    /\ LET k == Timer_of(t)
       IN  IF timer[k] = 0 THEN UNCHANGED <<task, asked>>
           ELSE /\ owner[k] = "none"
                /\ task' = [task EXCEPT ![timer[k]].paused = Pausing(t)]
                /\ asked' = [asked EXCEPT ![k] = IF Pausing(t) THEN "pause" ELSE "resume"]
    /\ Done(t)
    /\ UNCHANGED <<role, blocked, votes, queue, calling, timer, owner, was_paused, users>>

\* Mutant: reset() does not cancel the old Task.
ReadPaused_NotCancelled(t) ==
    /\ Next_op(t, "read_paused")
    /\ was_paused' = task[timer[Arg(t)]].paused
    /\ Done(t)
    /\ UNCHANGED <<role, blocked, votes, task, queue, calling, timer, owner, asked, users>>

\* reset(): remembers paused_ and cancels the old Task ...
ReadPaused(t) ==
    /\ Next_op(t, "read_paused")
    /\ LET i == timer[Arg(t)]
       IN  /\ was_paused' = task[i].paused
           /\ task' = [task EXCEPT ![i].cancelled = TRUE]
    /\ Done(t)
    /\ UNCHANGED <<role, blocked, votes, queue, calling, timer, owner, asked, users>>

\* The Task objects that no shared_ptr holds.
Unused == Task \ (queue \cup {calling} \cup {timer[k] : k \in Timer})

\* ... has it replaced by a new one (as schedule() has one made) ...
RunAfter(t) ==
    /\ Next_op(t, "run_after")
    /\ owner["Scheduler::mtx"] = "none"
    /\ Unused # {}
    /\ LET i == CHOOSE j \in Unused : \A l \in Unused : j <= l
       IN  /\ task' = [task EXCEPT ![i] = [timer |-> Arg(t), cancelled |-> FALSE,
                                           paused |-> FALSE]]
           /\ queue' = queue \cup {i}
           /\ timer' = [timer EXCEPT ![Arg(t)] = i]
    /\ Done(t)
    /\ UNCHANGED <<role, blocked, votes, calling, owner, was_paused, asked, users>>

\* Mutant: the new Task runs although the old one was paused.
CarryOver_Forgotten(t) ==
    /\ Next_op(t, "carry_over")
    /\ Done(t)
    /\ UNCHANGED <<role, blocked, votes, task, queue, calling, timer, owner,
                   was_paused, asked, users>>

\* ... and pauses it if the old one was paused.
CarryOver(t) ==
    /\ Next_op(t, "carry_over")
    /\ task' = [task EXCEPT ![timer[Arg(t)]].paused = @ \/ was_paused]
    /\ was_paused' = FALSE
    /\ Done(t)
    /\ UNCHANGED <<role, blocked, votes, queue, calling, timer, owner, asked, users>>

SetRole(t) ==
    /\ Next_op(t, "set_role")
    /\ role' = Arg(t)
    /\ Done(t)
    /\ UNCHANGED <<blocked, votes, task, queue, calling, timer, owner, was_paused,
                   asked, users>>

SetBlocked(t) ==
    /\ Next_op(t, "set_blocked")
    /\ blocked' = Arg(t)
    /\ Done(t)
    /\ UNCHANGED <<role, votes, task, queue, calling, timer, owner, was_paused, asked,
                   users>>

\* voted_peers_.clear(), and insert() of a vote of the present term.
TallyVotes(t) ==
    /\ \/ Next_op(t, "clear_votes") /\ votes' = "none"
       \/ Next_op(t, "count_vote") /\ votes' = IF votes = "none" THEN "fresh" ELSE votes
    /\ Done(t)
    /\ UNCHANGED <<role, blocked, task, queue, calling, timer, owner, was_paused,
                   asked, users>>

\* inc_term(), or a higher term is adopted: the votes counted so far get old.
NewTerm(t) ==
    /\ Next_op(t, "inc_term") \/ Next_op(t, "adopt_term")
    /\ votes' = IF votes = "none" THEN "none" ELSE "stale"
    /\ Done(t)
    /\ UNCHANGED <<role, blocked, task, queue, calling, timer, owner, was_paused,
                   asked, users>>

\* The operations that only branch.
Branch(t) ==
    /\ \/ /\ Next_op(t, "convert_to_follower")
          /\ Then(t, convert_to_follower(role))
       \/ /\ Next_op(t, "clear_prev_state")
          /\ Then(t, clear_prev_state(role))
       \/ /\ Next_op(t, "start_new_election")
          /\ Then(t, start_new_election(role))
       \/ /\ Next_op(t, "test_majority")
          /\ \/ Then(t, <<>>)
             \/ votes # "none" /\ Then(t, convert_to_leader)
       \/ /\ Next_op(t, "start_heartbeat")
          /\ Then(t, <<Op(IF timer["heartbeat"] = 0 THEN "run_after" ELSE "resume",
                          "heartbeat")>>)
       \/ /\ Next_op(t, "handle")
          /\ Then(t, IF blocked THEN <<>>
                     ELSE <<Op("lock", "handler_mtx_"), Op("higher_term", Arg(t)),
                            Op("unlock", "handler_mtx_")>>)
       \/ /\ Next_op(t, "higher_term")
          /\ \/ Then(t, <<Op("event", Arg(t))>>)
             \/ /\ Arg(t) # "election_timeout"
                /\ Then(t, <<Op("adopt_term", 0), Op("convert_to_follower", 0),
                             Op("event", Arg(t))>>)
       \/ /\ Next_op(t, "event")
          /\ Then(t, handler(Arg(t), role))
    /\ UNCHANGED <<role, blocked, votes, task, queue, calling, timer, owner,
                   was_paused, asked, users>>

-----------------------------------------------------------------------------
(* Where the threads start. *)

\* The network thread decodes an event and calls handle().
Receive ==
    /\ Idle("network")
    /\ \E e \in Event : todo' = [todo EXCEPT !["network"] = <<Op("handle", e)>>]
    /\ UNCHANGED <<role, blocked, votes, task, queue, calling, timer, owner,
                   was_paused, asked, users>>

UserCall ==
    /\ Idle("user")
    /\ \E m \in UserCalls : todo' = [todo EXCEPT !["user"] = method(m)]
    /\ meddled' = TRUE
    /\ overlapped' = (overlapped \/ owner["handler_mtx_"] # "none")
    /\ UNCHANGED <<role, blocked, votes, task, queue, calling, timer, owner,
                   was_paused, asked>>

\* execute_due_tasks takes a due Task from the queue, under Scheduler::mtx; a
\* cancelled one is dropped, a paused one only renewed.
ExecuteDueTask ==
    /\ Idle("executor")
    /\ owner["Scheduler::mtx"] = "none"
    /\ \E i \in queue :
         /\ queue' = queue \ {i}
         /\ IF task[i].cancelled
            THEN UNCHANGED <<owner, calling, todo>>
            ELSE /\ owner' = [owner EXCEPT !["Scheduler::mtx"] = "executor"]
                 /\ calling' = i
                 /\ todo' = [todo EXCEPT !["executor"] =
                      (IF task[i].timer = "election" /\ ~task[i].paused
                       THEN <<Op("handle", "election_timeout")>> ELSE <<>>)
                      \o <<Op("renew", 0), Op("unlock", "Scheduler::mtx")>>]
    /\ UNCHANGED <<role, blocked, votes, task, timer, was_paused, asked, users>>

\* Mutant: the pointer is moved from before it is pushed.
Renew_Moved(t) ==
    /\ Next_op(t, "renew")
    /\ queue' = queue \cup {0}
    /\ calling' = 0
    /\ Done(t)
    /\ UNCHANGED <<role, blocked, votes, task, timer, owner, was_paused, asked, users>>

\* The Task that was called, or was paused, goes back into the queue.
Renew(t) ==
    /\ Next_op(t, "renew")
    /\ queue' = queue \cup {calling}
    /\ calling' = 0
    /\ Done(t)
    /\ UNCHANGED <<role, blocked, votes, task, timer, owner, was_paused, asked, users>>

Step(t) ==
    \/ AcquireLock(t)
    \/ ReleaseLock(t)
    \/ PauseOrResume(t)
    \/ ReadPaused(t)
    \/ RunAfter(t)
    \/ CarryOver(t)
    \/ SetRole(t)
    \/ SetBlocked(t)
    \/ TallyVotes(t)
    \/ NewTerm(t)
    \/ Branch(t)
    \/ Renew(t)

Next ==
    \/ \E t \in Thread : Step(t)
    \/ Receive
    \/ UserCall
    \/ ExecuteDueTask

Spec == Init /\ [][Next]_vars

-----------------------------------------------------------------------------
(* Properties. *)

\* Neither in a handler nor in a user call.
AtRest == owner["handler_mtx_"] = "none" /\ Idle("user")

\* The Tasks that may still be called for a timer.
Live(k) == {i \in queue \cup ({calling} \ {0}) : task[i].timer = k /\ ~task[i].cancelled}

Running(k) == \E i \in Live(k) : ~task[i].paused

(***************************************************************************)
(* A timer is never doubled and never lost: while no reset() is under way  *)
(* exactly the Task that its ScheduledTask points to can be called, however*)
(* often the network thread replaces it under the executor's hands.        *)
(***************************************************************************)
OneTaskPerTimer ==
    \A k \in Timer : owner[k] = "none" => Live(k) = {timer[k]} \ {0}

(***************************************************************************)
(* reset() on the network thread and pause() on the user thread do not     *)
(* undo each other: outside of reset() the Task that is scheduled is       *)
(* paused exactly if the last call on its ScheduledTask was pause().       *)
(***************************************************************************)
PauseSticks ==
    \A k \in Timer :
        owner[k] = "none" /\ timer[k] # 0
            => (task[timer[k]].paused <=> asked[k] = "pause")

(***************************************************************************)
(* Unless a user's call has overlapped a handler, the many small steps     *)
(* amount to whole ones: at rest heartbeats run exactly while leader, the  *)
(* election timer while candidate and not while leader, and a follower's   *)
(* runs until a user has called.                                           *)
(***************************************************************************)
TimersMatchRoleAtRest ==
    AtRest /\ ~overlapped =>
        /\ Running("heartbeat") <=> role = "leader"
        /\ role = "leader" => ~Running("election")
        /\ role = "candidate" => Running("election")
        /\ role = "follower" /\ ~meddled => Running("election")

(***************************************************************************)
(* Unless a user's call has overlapped a handler, voted_peers_ holds votes *)
(* of the present term whenever it is compared with the majority, and is   *)
(* empty at rest on all but candidates.                                    *)
(***************************************************************************)
TallyOfOneTerm ==
    ~overlapped =>
        /\ \A t \in Thread : Next_op(t, "test_majority") => votes = "fresh"
        /\ AtRest => votes = IF role = "candidate" THEN "fresh" ELSE "none"

\* A follower with its election timer paused, and no operation left to any
\* thread that converts the server or starts the timer.
Converts(o) ==
    \/ o.name \in {"clear_prev_state", "set_role", "start_election_timeout",
                   "start_new_election", "test_majority"}
    \/ o.name \in {"handle", "higher_term", "event"} /\ o.arg = "election_timeout"

Silenced ==
    /\ role = "follower"
    /\ asked["election"] = "pause"
    /\ \A t \in Thread : \A i \in 1..Len(todo[t]) : ~Converts(todo[t][i])

(***************************************************************************)
(* A server that stay_follower() or block() has silenced, and on which all *)
(* conversions and timeouts that were under way are over, stays silent: no *)
(* event starts its election timer, nor does unblock().  The one way out   *)
(* is the moment in reset() in which the new Task is queued and not yet    *)
(* paused as the old one was.                                              *)
(***************************************************************************)
SilenceKept == [][Silenced => Silenced' \/ Next_op("network", "carry_over")]_vars

\* Thread t cannot go on before u has released a lock.
WaitsFor(t, u) ==
    \/ Next_op(t, "lock") /\ owner[Arg(t)] = u
    \/ Next_op(t, "run_after") /\ owner["Scheduler::mtx"] = u
    \/ /\ Pausing(t) \/ Resuming(t)
       /\ timer[Timer_of(t)] # 0
       /\ owner[Timer_of(t)] = u

(***************************************************************************)
(* There is one way to get stuck: a thread never waits for itself (no lock *)
(* of the code is recursive, and the executor calls handle() with the one  *)
(* of the Scheduler in its hands) nor for the user thread, and two wait for*)
(* each other only if the executor is about to enter handle() while the    *)
(* network thread, in a handler, schedules a Task.                         *)
(***************************************************************************)
OneWayToGetStuck ==
    \A t, u \in Thread : WaitsFor(t, u) =>
        /\ t # u /\ u # "user"
        /\ WaitsFor(u, t) => /\ Next_op("executor", "lock") /\ Arg("executor") = "handler_mtx_"
                             /\ Next_op("network", "run_after")

\* The VIEW of a state: Task objects are interchangeable, and those that are no
\* longer in use make no difference.
Holders(i) == <<i \in queue, i = calling, {k \in Timer : timer[k] = i}>>

InUse ==
    LET used == {<<Holders(i), task[i]>> : i \in Task \ Unused}
    IN  <<role, blocked, votes,
          [u \in used |-> Cardinality({i \in Task : <<Holders(i), task[i]>> = u})],
          owner, todo, was_paused, asked, meddled, overlapped>>

-----------------------------------------------------------------------------
(* What the comments say. *)

(***************************************************************************)
(* fsm.hpp, handle(): "put the event into internal event queue and return  *)
(* immediately".  At the least it must be able to return: two threads      *)
(* never wait for each other.                                              *)
(***************************************************************************)
HandleCanReturn == \A t, u \in Thread : ~(WaitsFor(t, u) /\ WaitsFor(u, t))

(***************************************************************************)
(* fsm.hpp, block(): "block all incoming and outgoing messages, and revert *)
(* to and stay as follower.  this method gives other peers a chance of     *)
(* becoming leader": no heartbeats run while the server is blocked.        *)
(***************************************************************************)
BlockedIsSilent == blocked /\ AtRest => ~Running("heartbeat")

(***************************************************************************)
(* fsm.hpp, unblock(): "unblock the fsm. this makes the fsm re-joins the   *)
(* group": as long as nobody calls stay_follower(), a server that is not   *)
(* blocked leads or waits for its election timer, like any other member.   *)
(***************************************************************************)
UnblockRejoins == ~blocked /\ AtRest => role = "leader" \/ Running("election")

=============================================================================
