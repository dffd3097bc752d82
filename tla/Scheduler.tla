----------------------------- MODULE Scheduler -----------------------------
(***************************************************************************)
(* A Scheduler (scheduler.hpp) with its clock, its condition variable, its *)
(* construction and its destruction: the executor thread and one client    *)
(* thread that constructs it, schedules timers, pauses, resumes, resets    *)
(* and cancels them, and destroys it.                                      *)
(*                                                                         *)
(* Times are kept as the ticks that are left: of a Task until due_time_,   *)
(* of a wait until its deadline.  Tasks that are overdue are not told      *)
(* apart, so the executor takes them in any order.  Scheduler::mtx is held *)
(* by the executor except where MtxFree says; run_after holds it for one   *)
(* step.  max_calls is not modelled: no caller sets it.                    *)
(***************************************************************************)
EXTENDS Naturals, FiniteSetsExt

CONSTANTS
    Timer,      \* the ScheduledTasks of the client
    Intervals,  \* what the interval supplier of a Task may return
    IdleWait    \* the initial wait_time of the executor (60 s)

ASSUME TimesAssumption ==
    /\ Intervals # {} /\ IsFiniteSet(Intervals) /\ Intervals \subseteq Nat \ {0}
    /\ IdleWait \in Nat \ {0}

VARIABLES
    running,
    latch,     \* the count of the constructor's CountDownLatch
    task,      \* task[k]: the Task that ScheduledTask k points to
    replaced,  \* due times of the Tasks in the queue that reset() replaced
    exec,      \* the executor: where it is and its local variables
    notified,  \* the waiting executor has been notified
    client,    \* where the client thread is
    age        \* history: ticks since schedule() or reset() of each timer

vars == <<running, latch, task, replaced, exec, notified, client, age>>

MaxInterval == Max(Intervals)
MaxWait == Max(Intervals \cup {IdleWait})

\* "new": made by run_after and not yet pushed; "called": in the executor's hands.
Task == [at : {"none", "new", "queue", "called", "dropped"}, due : 0..MaxInterval,
         cancelled : BOOLEAN, paused : BOOLEAN]

NoTask == [at |-> "none", due |-> 0, cancelled |-> FALSE, paused |-> FALSE]

TypeOK ==
    /\ running \in BOOLEAN /\ notified \in BOOLEAN
    /\ latch \in {0, 1}
    /\ task \in [Timer -> Task]
    /\ replaced \subseteq 0..MaxInterval
    /\ exec \in [at : {"loop", "blocking", "waiting", "awake", "batch", "calling",
                       "undefined", "done"},
                 wait_time : 1..MaxWait, deadline : 0..MaxWait,
                 batch : SUBSET Timer, called : SUBSET Timer]
    /\ client \in {"constructing", "idle", "pushing", "stopping", "joining", "gone"}
    /\ age \in [Timer -> 0..MaxInterval]

-----------------------------------------------------------------------------
Init ==
    /\ running = TRUE
    /\ latch = 1
    /\ task = [k \in Timer |-> NoTask]
    /\ replaced = {}
    /\ exec = [at |-> "loop", wait_time |-> IdleWait, deadline |-> 0,
               batch |-> {}, called |-> {}]
    /\ notified = FALSE
    /\ client = "constructing"
    /\ age = [k \in Timer |-> 0]

\* The timers whose Task is in task_queue, and the due times in it.
Queued == {k \in Timer : task[k].at = "queue"}
Dues == {task[k].due : k \in Queued} \cup replaced

\* The executor is outside the mutex.
MtxFree == exec.at \in {"loop", "waiting", "done", "undefined"}

\* notify_one and notify_all: nothing is remembered for a thread not yet waiting.
Notify == notified' = (exec.at = "waiting")

Before(n) == IF n = 0 THEN 0 ELSE n - 1

\* Time passes, for whatever runs against the clock.
Tick ==
    /\ task' = [k \in Timer |-> [task[k] EXCEPT !.due = Before(@)]]
    /\ replaced' = {Before(d) : d \in replaced}
    /\ exec' = [exec EXCEPT !.deadline = Before(@)]
    /\ age' = [k \in Timer |-> Min({age[k] + 1, MaxInterval})]
    /\ UNCHANGED <<running, latch, notified, client>>

-----------------------------------------------------------------------------
(* The executor thread. *)

Predicate == Dues # {} \/ ~running

\* The head of the loop, the lock, the latch and the first test of wait_for.
Enter ==
    /\ exec.at = "loop"
    /\ latch' = IF running THEN 0 ELSE latch
    /\ exec' = IF ~running THEN [exec EXCEPT !.at = "done"]
               ELSE IF Predicate THEN [exec EXCEPT !.at = "awake"]
               ELSE [exec EXCEPT !.at = "blocking", !.deadline = exec.wait_time]
    /\ UNCHANGED <<running, task, replaced, notified, client, age>>

\* It starts to wait and releases the mutex.
Block ==
    /\ exec.at = "blocking"
    /\ exec' = [exec EXCEPT !.at = "waiting"]
    /\ UNCHANGED <<running, latch, task, replaced, notified, client, age>>

Wake ==
    /\ exec.at = "waiting" /\ notified
    /\ exec' = IF Predicate THEN [exec EXCEPT !.at = "awake", !.deadline = 0]
               ELSE [exec EXCEPT !.at = "blocking"]
    /\ notified' = FALSE
    /\ UNCHANGED <<running, latch, task, replaced, client, age>>

\* Mutant: wait instead of wait_for.
Timeout_Never == FALSE

Timeout ==
    /\ exec.at = "waiting" /\ exec.deadline = 0
    /\ exec' = [exec EXCEPT !.at = "awake"]
    /\ notified' = FALSE
    /\ UNCHANGED <<running, latch, task, replaced, client, age>>

\* Mutant: a task that is due now is taken for one that is not.
ReadTop_Late ==
    /\ exec.at = "awake"
    /\ exec' = IF ~running THEN [exec EXCEPT !.at = "done"]
               ELSE IF Dues = {} THEN [exec EXCEPT !.at = "undefined"]
               ELSE [exec EXCEPT !.at = "loop", !.wait_time = Min(Dues)]
    /\ UNCHANGED <<running, latch, task, replaced, notified, client, age>>

\* After wait_for.  top() of an empty queue is undefined.
ReadTop ==
    /\ exec.at = "awake"
    /\ exec' = IF ~running THEN [exec EXCEPT !.at = "done"]
               ELSE IF Dues = {} THEN [exec EXCEPT !.at = "undefined"]
               ELSE IF Min(Dues) > 0
               THEN [exec EXCEPT !.at = "loop", !.wait_time = Min(Dues)]
               ELSE [exec EXCEPT !.at = "batch",
                                 !.batch = {k \in Queued : task[k].due = 0}]
    /\ UNCHANGED <<running, latch, task, replaced, notified, client, age>>

\* Mutant: a paused task is dropped like a cancelled one.
ExecuteDueTask_DropPaused ==
    /\ exec.at = "batch"
    /\ \E k \in exec.batch :
         LET e == [exec EXCEPT !.batch = @ \ {k}]
         IN  IF task[k].cancelled \/ task[k].paused
             THEN task' = [task EXCEPT ![k].at = "dropped"] /\ exec' = e
             ELSE /\ task' = [task EXCEPT ![k].at = "called"]
                  /\ exec' = [e EXCEPT !.at = "calling", !.called = {k}]
    /\ UNCHANGED <<running, latch, replaced, notified, client, age>>

\* The loop of execute_due_tasks, up to the start of the callable.
ExecuteDueTask ==
    /\ exec.at = "batch"
    /\ \E k \in exec.batch :
         LET e == [exec EXCEPT !.batch = @ \ {k}]
         IN  IF task[k].cancelled
             THEN task' = [task EXCEPT ![k].at = "dropped"] /\ exec' = e
             ELSE IF task[k].paused
             THEN /\ \E d \in Intervals : task' = [task EXCEPT ![k].due = d]
                  /\ exec' = e
             ELSE /\ task' = [task EXCEPT ![k].at = "called"]
                  /\ exec' = [e EXCEPT !.at = "calling", !.called = {k}]
    /\ UNCHANGED <<running, latch, replaced, notified, client, age>>

\* Mutant: the Task is renewed and not pushed.
Return_NotPushed ==
    /\ exec.at = "calling"
    /\ task' = [k \in Timer |-> IF k \in exec.called THEN [task[k] EXCEPT !.at = "dropped"]
                                ELSE task[k]]
    /\ exec' = [exec EXCEPT !.at = "batch", !.called = {}]
    /\ UNCHANGED <<running, latch, replaced, notified, client, age>>

\* The callable returns; its Task, if replaced meanwhile, is pushed all the same.
Return ==
    /\ exec.at = "calling"
    /\ \E d \in Intervals :
         IF exec.called = {} THEN replaced' = replaced \cup {d} /\ UNCHANGED task
         ELSE /\ task' = [k \in Timer |->
                            IF k \in exec.called
                            THEN [task[k] EXCEPT !.at = "queue", !.due = d] ELSE task[k]]
              /\ UNCHANGED replaced
    /\ exec' = [exec EXCEPT !.at = "batch", !.called = {}]
    /\ UNCHANGED <<running, latch, notified, client, age>>

\* The Tasks that reset() has replaced are cancelled, and dropped when due.
EndBatch ==
    /\ exec.at = "batch" /\ exec.batch = {}
    /\ replaced' = replaced \ {0}
    /\ exec' = [exec EXCEPT !.at = "loop"]
    /\ UNCHANGED <<running, latch, task, notified, client, age>>

-----------------------------------------------------------------------------
(* The client thread. *)

\* The constructor returns when the latch has been counted down.
Constructed ==
    /\ client = "constructing" /\ latch = 0
    /\ client' = "idle"
    /\ UNCHANGED <<running, latch, task, replaced, exec, notified, age>>

\* run_after makes the Task before it takes the mutex.
Schedule(k) ==
    /\ client = "idle" /\ task[k] = NoTask
    /\ \E d \in Intervals : task' = [task EXCEPT ![k].at = "new", ![k].due = d]
    /\ client' = "pushing"
    /\ age' = [age EXCEPT ![k] = 0]
    /\ UNCHANGED <<running, latch, replaced, exec, notified>>

\* A ScheduledTask in use: a cancelled one "cannot be re-used".
Active(k) == task[k].at \notin {"none", "new"} /\ ~task[k].cancelled

\* Mutant: the new Task takes over the due time of the old one.
ResetBegin_SameDue(k) ==
    /\ client = "idle" /\ Active(k)
    /\ task' = [task EXCEPT ![k].at = "new"]
    /\ replaced' = IF task[k].at = "queue" THEN replaced \cup {task[k].due} ELSE replaced
    /\ exec' = [exec EXCEPT !.batch = @ \ {k}, !.called = @ \ {k}]
    /\ client' = "pushing"
    /\ age' = [age EXCEPT ![k] = 0]
    /\ UNCHANGED <<running, latch, notified>>

\* reset() cancels the old Task and makes the new one, which inherits paused_.
ResetBegin(k) ==
    /\ client = "idle" /\ Active(k)
    /\ \E d \in Intervals : task' = [task EXCEPT ![k].at = "new", ![k].due = d]
    /\ replaced' = IF task[k].at = "queue" THEN replaced \cup {task[k].due} ELSE replaced
    /\ exec' = [exec EXCEPT !.batch = @ \ {k}, !.called = @ \ {k}]
    /\ client' = "pushing"
    /\ age' = [age EXCEPT ![k] = 0]
    /\ UNCHANGED <<running, latch, notified>>

\* The rest of run_after, under the mutex.
Push ==
    /\ client = "pushing" /\ MtxFree
    /\ task' = [k \in Timer |-> IF task[k].at = "new" THEN [task[k] EXCEPT !.at = "queue"]
                                ELSE task[k]]
    /\ Notify
    /\ client' = "idle"
    /\ UNCHANGED <<running, latch, replaced, exec, age>>

\* ScheduledTask::pause, resume and cancel.
SetFlag(k) ==
    /\ client = "idle" /\ Active(k)
    /\ \/ task' = [task EXCEPT ![k].paused = ~@]
       \/ task' = [task EXCEPT ![k].cancelled = TRUE]
    /\ UNCHANGED <<running, latch, replaced, exec, notified, client, age>>

\* ~Scheduler: running is cleared, the executor notified without the mutex ...
Destroy ==
    /\ client = "idle"
    /\ running' = FALSE
    /\ client' = "stopping"
    /\ UNCHANGED <<latch, task, replaced, exec, notified, age>>

NotifyExecutor ==
    /\ client = "stopping"
    /\ Notify
    /\ client' = "joining"
    /\ UNCHANGED <<running, latch, task, replaced, exec, age>>

\* ... and joined.
Join ==
    /\ client = "joining" /\ exec.at = "done"
    /\ client' = "gone"
    /\ UNCHANGED <<running, latch, task, replaced, exec, notified, age>>

-----------------------------------------------------------------------------
Executor ==
    \/ Enter \/ Block \/ Wake \/ Timeout \/ ReadTop
    \/ ExecuteDueTask \/ Return \/ EndBatch

\* What a call of the client does before it returns.
Finish == Constructed \/ Push \/ NotifyExecutor \/ Join

Next ==
    \/ Tick
    \/ Executor
    \/ Finish
    \/ \E k \in Timer : Schedule(k) \/ ResetBegin(k) \/ SetFlag(k)
    \/ Destroy

\* The clock goes on, the threads are scheduled, callables return.
Fairness == WF_vars(Tick) /\ WF_vars(Executor) /\ WF_vars(Finish)

Spec == Init /\ [][Next]_vars /\ Fairness

-----------------------------------------------------------------------------
(* Properties. *)

(***************************************************************************)
(* The executor reads top() of an empty queue, which is undefined, only    *)
(* when no task is left to call: all were cancelled, or the only one is    *)
(* being replaced by reset(), or none was scheduled within IdleWait.  So   *)
(* one task that is neither cancelled nor being reset keeps it safe.       *)
(***************************************************************************)
TopDefined ==
    [][exec.at # "undefined" /\ exec'.at = "undefined" => \A k \in Timer : ~Active(k)]_vars

(***************************************************************************)
(* reset(): "will reset the timer back to 10s again, no matter how much    *)
(* time elapsed": no call of a timer starts before an interval has passed  *)
(* since it was scheduled or reset, even if it was due at that moment.     *)
(***************************************************************************)
ResetPostpones ==
    [][exec.at # "calling" => \A k \in exec'.called : age[k] >= Min(Intervals)]_vars

(***************************************************************************)
(* The destructor returns, although the executor may miss its notification *)
(* between the test of running and the wait.                               *)
(***************************************************************************)
DestructorReturns ==
    client = "stopping" ~> client = "gone" \/ exec.at = "undefined"

(***************************************************************************)
(* A timer that is neither paused nor cancelled nor reset nor destroyed is *)
(* called, whether it was paused before, or pushed while the executor      *)
(* slept.                                                                  *)
(***************************************************************************)
TimerIsCalled ==
    \A k \in Timer :
        Active(k) /\ ~task[k].paused
            ~> \/ k \in exec.called
               \/ ~Active(k) \/ task[k].paused
               \/ ~running \/ exec.at = "undefined"

=============================================================================
