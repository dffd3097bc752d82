--------------------------- MODULE SchedulerProofs ---------------------------
(***************************************************************************)
(* Proofs about Scheduler, for any set of timers, any finite set of        *)
(* intervals and any IdleWait.                                             *)
(***************************************************************************)
EXTENDS Scheduler, FiniteSetTheorems, WellFoundedInduction, TLAPS

-----------------------------------------------------------------------------
(* Minima and maxima. *)

(***************************************************************************)
(* A finite set of numbers has a least and a greatest element: take a      *)
(* least finite set without them and remove an element of it.              *)
(***************************************************************************)
LEMMA Extremes ==
    ASSUME NEW S, S \subseteq Nat, S # {}, IsFiniteSet(S)
    PROVE  /\ \E x \in S : \A y \in S : x <= y
           /\ \E x \in S : \A y \in S : x >= y
<1> DEFINE HasBoth(T) == /\ \E x \in T : \A y \in T : x <= y
                         /\ \E x \in T : \A y \in T : x >= y
           Bad == {T \in FiniteSubsetsOf(S) : T # {} /\ ~HasBoth(T)}
<1>1. Bad = {}
  <2> SUFFICES ASSUME Bad # {} PROVE FALSE
    OBVIOUS
  <2>1. PICK T \in Bad : \A U \in Bad : ~(<<U, T>> \in StrictSubsetOrdering(S))
    BY FS_StrictSubsetOrderingWellFounded, WFMin
  <2>2. PICK x \in T : TRUE
    BY <2>1
  <2>3. IsFiniteSet(T) /\ T \subseteq S
    BY <2>1 DEF FiniteSubsetsOf
  <2>4. T \ {x} \in FiniteSubsetsOf(S)
    BY <2>3, FS_RemoveElement DEF FiniteSubsetsOf
  <2>5. <<T \ {x}, T>> \in StrictSubsetOrdering(S)
    BY <2>2, <2>3 DEF StrictSubsetOrdering
  <2>6. T \ {x} = {} \/ HasBoth(T \ {x})
    BY <2>1, <2>4, <2>5
  <2>7. HasBoth(T)
    <3>1. CASE T \ {x} = {}
      BY <2>2, <2>3, <3>1
    <3>2. CASE HasBoth(T \ {x})
      <4>1. PICK m \in T \ {x} : \A y \in T \ {x} : m <= y
        BY <3>2
      <4>2. \E l \in T : \A y \in T : l <= y
        BY <2>2, <2>3, <4>1
      <4>3. PICK n \in T \ {x} : \A y \in T \ {x} : n >= y
        BY <3>2
      <4>4. \E g \in T : \A y \in T : g >= y
        BY <2>2, <2>3, <4>3
      <4> QED BY <4>2, <4>4
    <3> QED BY <2>6, <3>1, <3>2
  <2> QED BY <2>1, <2>7
<1>2. S \in FiniteSubsetsOf(S)
  BY DEF FiniteSubsetsOf
<1> QED BY <1>1, <1>2

(***************************************************************************)
(* A set of due times that is not empty has a least element, which is what *)
(* top() of the priority queue returns.                                    *)
(***************************************************************************)
LEMMA MinFacts ==
    ASSUME NEW S, S \subseteq Nat, S # {}
    PROVE  Min(S) \in S /\ \A y \in S : Min(S) <= y
<1>1. PICK n \in S : TRUE
  OBVIOUS
<1> DEFINE T == {y \in S : y <= n}
<1>2. IsFiniteSet(T) /\ T # {} /\ T \subseteq Nat
  <2>1. T \in SUBSET Nat /\ \A y \in T : y <= n
    OBVIOUS
  <2>2. IsFiniteSet(T)
    BY <1>1, <2>1, FS_BoundedSetOfNaturals
  <2>3. n \in T
    BY <1>1
  <2> QED BY <2>1, <2>2, <2>3
<1>3. PICK x \in T : \A y \in T : x <= y
  BY <1>2, Extremes
<1>4. \A y \in S : x <= y
  BY <1>1, <1>3
<1> QED BY <1>3, <1>4 DEF Min

\* Max of FiniteSetsExt, for a set of numbers that is not empty.
LEMMA MaxFacts ==
    ASSUME NEW S, S \subseteq Nat, S # {}, IsFiniteSet(S)
    PROVE  Max(S) \in S /\ \A y \in S : y <= Max(S)
<1>1. PICK x \in S : \A y \in S : x >= y
  BY Extremes
<1>2. Max(S) \in S /\ \A y \in S : Max(S) >= y
  BY <1>1 DEF Max
<1> QED BY <1>2

(***************************************************************************)
(* The bounds on times.                                                    *)
(***************************************************************************)
LEMMA Bounds ==
    /\ MaxInterval \in Nat \ {0} /\ MaxWait \in Nat \ {0}
    /\ MaxInterval <= MaxWait /\ IdleWait <= MaxWait
    /\ \A d \in Intervals : d \in Nat \ {0} /\ Min(Intervals) <= d /\ d <= MaxInterval
    /\ Min(Intervals) \in Nat \ {0} /\ Min(Intervals) <= MaxInterval
<1> DEFINE W == Intervals \cup {IdleWait}
<1>1. Intervals \subseteq Nat /\ Intervals # {} /\ IsFiniteSet(Intervals)
  BY TimesAssumption
<1>2. W \subseteq Nat /\ W # {} /\ IsFiniteSet(W)
  BY <1>1, TimesAssumption, FS_AddElement
<1>3. MaxInterval \in Intervals /\ \A d \in Intervals : d <= MaxInterval
  BY <1>1, MaxFacts DEF MaxInterval
<1>4. MaxWait \in W /\ \A d \in W : d <= MaxWait
  BY <1>2, MaxFacts DEF MaxWait
<1>5. Min(Intervals) \in Intervals /\ \A d \in Intervals : Min(Intervals) <= d
  BY <1>1, MinFacts
<1> QED BY <1>3, <1>4, <1>5, TimesAssumption

-----------------------------------------------------------------------------
(* The invariant. *)

(***************************************************************************)
(* What the executor holds and what the flags of a Task say about where it *)
(* is: a Task leaves the queue for good only if it was cancelled; a Task   *)
(* out of the queue is being called; the Tasks of a batch are due; and the *)
(* time until a Task is due makes up for what is missing to an interval    *)
(* since the last reset.                                                   *)
(***************************************************************************)
DroppedCancelled == \A k \in Timer : task[k].at = "dropped" => task[k].cancelled

CalledInHand ==
    /\ \A k \in Timer : task[k].at = "called" => k \in exec.called
    /\ \A k \in exec.called : task[k].at = "called"
    /\ exec.called # {} => exec.at = "calling"

BatchDue == \A k \in exec.batch : task[k].at = "queue" /\ task[k].due = 0

DueAfterReset ==
    \A k \in Timer :
        task[k].at \in {"new", "queue"} => age[k] + task[k].due >= Min(Intervals)

SchedInv == TypeOK /\ DroppedCancelled /\ CalledInHand /\ BatchDue /\ DueAfterReset

\* A scheduler starts with nothing scheduled.
LEMMA InitInv == Init => SchedInv
<1> SUFFICES ASSUME Init PROVE SchedInv
  OBVIOUS
<1>1. TypeOK
  <2>1. 0 \in 0..MaxInterval /\ 0 \in 0..MaxWait /\ IdleWait \in 1..MaxWait
    BY Bounds, TimesAssumption
  <2>2. NoTask \in Task
    BY <2>1 DEF NoTask, Task
  <2> QED BY <2>1, <2>2 DEF Init, TypeOK
<1>2. /\ \A k \in Timer : task[k].at = "none"
      /\ exec.called = {} /\ exec.batch = {}
  BY DEF Init, NoTask
<1>3. DroppedCancelled /\ CalledInHand /\ BatchDue /\ DueAfterReset
  BY <1>2 DEF DroppedCancelled, CalledInHand, BatchDue, DueAfterReset
<1> QED BY <1>1, <1>3 DEF SchedInv

(***************************************************************************)
(* The due times are numbers up to the longest interval.                   *)
(***************************************************************************)
LEMMA DuesType == TypeOK => Dues \subseteq 0..MaxInterval
  BY DEF TypeOK, Task, Dues, Queued

(***************************************************************************)
(* Time passes.                                                            *)
(***************************************************************************)
LEMMA TickInv == SchedInv /\ Tick => SchedInv'
<1> SUFFICES ASSUME SchedInv, Tick PROVE SchedInv'
  OBVIOUS
<1>1. \A n \in Nat : Before(n) \in Nat /\ Before(n) <= n /\ (n = 0 => Before(n) = 0)
                     /\ (n # 0 => Before(n) = n - 1)
  BY DEF Before
<1>2. \A k \in Timer : /\ task[k] \in Task /\ task[k].due \in 0..MaxInterval
                       /\ age[k] \in 0..MaxInterval
  BY DEF SchedInv, TypeOK, Task
<1>3. \A k \in Timer : task'[k] = [task[k] EXCEPT !.due = Before(task[k].due)]
  BY DEF Tick
<1>4. \A k \in Timer : /\ task'[k] \in Task
                       /\ task'[k].due = Before(task[k].due)
                       /\ task'[k].at = task[k].at
                       /\ task'[k].cancelled = task[k].cancelled
  <2> TAKE k \in Timer
  <2>1. Before(task[k].due) \in 0..MaxInterval
    BY <1>1, <1>2, Bounds
  <2> QED BY <1>2, <1>3, <2>1 DEF Task
<1>5. \A k \in Timer : /\ age'[k] \in {age[k] + 1, MaxInterval}
                       /\ age'[k] <= age[k] + 1 /\ age'[k] <= MaxInterval
  <2> TAKE k \in Timer
  <2>1. age'[k] = Min({age[k] + 1, MaxInterval})
    BY DEF Tick
  <2> QED BY <1>2, <2>1, MinFacts, Bounds
<1>6. exec' = [exec EXCEPT !.deadline = Before(exec.deadline)]
  BY DEF Tick
<1>7. TypeOK'
  <2>1. task' \in [Timer -> Task]
    BY <1>4 DEF Tick
  <2>2. age' \in [Timer -> 0..MaxInterval]
    <3>1. \A k \in Timer : age'[k] \in 0..MaxInterval
      BY <1>2, <1>5, Bounds
    <3>2. age' = [k \in Timer |-> age'[k]]
      BY DEF Tick
    <3> QED BY <3>1, <3>2
  <2>3. replaced' \subseteq 0..MaxInterval
    BY <1>1, Bounds DEF Tick, SchedInv, TypeOK
  <2>4. Before(exec.deadline) \in 0..MaxWait
    BY <1>1, Bounds DEF SchedInv, TypeOK
  <2> QED BY <1>6, <2>1, <2>2, <2>3, <2>4 DEF Tick, SchedInv, TypeOK
<1>8. DroppedCancelled' /\ CalledInHand' /\ BatchDue'
  <2>1. exec'.called = exec.called /\ exec'.batch = exec.batch /\ exec'.at = exec.at
        /\ exec.called \subseteq Timer /\ exec.batch \subseteq Timer
    BY <1>6 DEF SchedInv, TypeOK
  <2> QED BY <1>1, <1>4, <2>1
          DEF SchedInv, DroppedCancelled, CalledInHand, BatchDue
<1>9. DueAfterReset'
  <2> SUFFICES ASSUME NEW k \in Timer, task'[k].at \in {"new", "queue"}
               PROVE  age'[k] + task'[k].due >= Min(Intervals)
    BY DEF DueAfterReset
  <2>1. age[k] + task[k].due >= Min(Intervals)
    BY <1>4 DEF SchedInv, DueAfterReset
  <2>2. age[k] \in Nat /\ task[k].due \in Nat /\ task'[k].due \in Nat
    BY <1>1, <1>2, <1>4
  <2>3. task'[k].due >= task[k].due - 1
    BY <1>1, <1>4, <2>2
  <2>4. CASE age'[k] = MaxInterval
    BY <2>2, <2>4, Bounds
  <2>5. CASE age'[k] = age[k] + 1
    BY <2>1, <2>2, <2>3, <2>5, Bounds
  <2> QED BY <1>5, <2>4, <2>5
<1> QED BY <1>7, <1>8, <1>9 DEF SchedInv

(***************************************************************************)
(* The steps of the executor that do not touch a Task.                     *)
(***************************************************************************)
LEMMA LoopInv ==
    ASSUME SchedInv, Enter \/ Block \/ Wake \/ Timeout \/ ReadTop \/ EndBatch
    PROVE  SchedInv'
<1>1. /\ task' = task /\ age' = age /\ client' = client /\ running' = running
      /\ replaced' \subseteq replaced /\ exec'.called = exec.called
      /\ exec.at # "calling"
      /\ exec'.batch = exec.batch \/ (exec'.batch = {k \in Queued : task[k].due = 0})
      /\ latch' \in {latch, 0} /\ notified' \in {notified, FALSE}
  BY DEF SchedInv, TypeOK, Enter, Block, Wake, Timeout, ReadTop, EndBatch
<1>2. exec' \in [at : {"loop", "blocking", "waiting", "awake", "batch", "calling",
                       "undefined", "done"},
                 wait_time : 1..MaxWait, deadline : 0..MaxWait,
                 batch : SUBSET Timer, called : SUBSET Timer]
  <2>1. CASE Enter \/ Block \/ Wake \/ Timeout \/ EndBatch
    <3>1. exec.wait_time \in 0..MaxWait /\ 0 \in 0..MaxWait
      BY Bounds DEF SchedInv, TypeOK
    <3>2. CASE Enter
      BY <3>1, <3>2 DEF SchedInv, TypeOK, Enter
    <3>3. CASE Wake
      BY <3>1, <3>3 DEF SchedInv, TypeOK, Wake
    <3>4. CASE Block \/ Timeout \/ EndBatch
      BY <3>4 DEF SchedInv, TypeOK, Block, Timeout, EndBatch
    <3> QED BY <2>1, <3>2, <3>3, <3>4
  <2>2. CASE ReadTop
    <3>1. Dues # {} => Min(Dues) \in 0..MaxInterval
      BY DuesType, MinFacts, Bounds DEF SchedInv
    <3>2. Dues # {} /\ Min(Dues) > 0 => Min(Dues) \in 1..MaxWait
      BY <3>1, Bounds
    <3>3. {k \in Queued : task[k].due = 0} \in SUBSET Timer
      BY DEF Queued
    <3> QED BY <2>2, <3>2, <3>3 DEF SchedInv, TypeOK, ReadTop
  <2> QED BY <2>1, <2>2
<1>3. TypeOK'
  BY <1>1, <1>2 DEF SchedInv, TypeOK
<1>4. CalledInHand'
  BY <1>1 DEF SchedInv, CalledInHand
<1>5. BatchDue'
  BY <1>1 DEF SchedInv, BatchDue, Queued
<1> QED BY <1>1, <1>3, <1>4, <1>5 DEF SchedInv, DroppedCancelled, DueAfterReset

(***************************************************************************)
(* The executor takes a due Task: drops it, renews it or starts to call it.*)
(***************************************************************************)
LEMMA ExecuteInv ==
    ASSUME SchedInv, ExecuteDueTask
    PROVE  SchedInv'
<1>1. PICK k \in exec.batch :
        LET e == [exec EXCEPT !.batch = @ \ {k}]
        IN  \/ /\ task[k].cancelled
               /\ task' = [task EXCEPT ![k].at = "dropped"] /\ exec' = e
            \/ \E d \in Intervals : task' = [task EXCEPT ![k].due = d] /\ exec' = e
            \/ /\ task' = [task EXCEPT ![k].at = "called"]
               /\ exec' = [e EXCEPT !.at = "calling", !.called = {k}]
  BY DEF ExecuteDueTask
<1>2. /\ exec.at = "batch" /\ exec.called = {}
      /\ UNCHANGED <<running, latch, replaced, notified, client, age>>
  BY DEF ExecuteDueTask, SchedInv, CalledInHand
<1>3. k \in Timer /\ task[k].at = "queue" /\ task[k] \in Task
  BY DEF SchedInv, TypeOK, BatchDue
<1>4. /\ \A j \in Timer \ {k} : task'[j] = task[j]
      /\ exec'.batch = exec.batch \ {k}
  BY <1>1, <1>3 DEF SchedInv, TypeOK
<1>5. CASE task[k].cancelled /\ task' = [task EXCEPT ![k].at = "dropped"]
           /\ exec' = [exec EXCEPT !.batch = @ \ {k}]
  <2>1. TypeOK'
    BY <1>2, <1>3, <1>5 DEF SchedInv, TypeOK, Task
  <2>2. task'[k].at = "dropped" /\ task'[k].cancelled /\ exec'.called = {}
    BY <1>2, <1>3, <1>5 DEF SchedInv, TypeOK, Task
  <2> QED BY <1>2, <1>3, <1>4, <2>1, <2>2
          DEF SchedInv, TypeOK, DroppedCancelled, CalledInHand, BatchDue, DueAfterReset
<1>6. ASSUME NEW d \in Intervals, task' = [task EXCEPT ![k].due = d],
             exec' = [exec EXCEPT !.batch = @ \ {k}]
      PROVE  SchedInv'
  <2>0. d \in 0..MaxInterval /\ d >= Min(Intervals)
    BY Bounds
  <2>1. TypeOK'
    BY <1>2, <1>3, <1>6, <2>0 DEF SchedInv, TypeOK, Task
  <2>2. task'[k].at = "queue" /\ task'[k].due = d /\ exec'.called = {}
    BY <1>2, <1>3, <1>6 DEF SchedInv, TypeOK, Task
  <2>3. DueAfterReset'
    <3>1. age[k] + d >= Min(Intervals)
      BY <1>3, <2>0, Bounds DEF SchedInv, TypeOK
    <3> QED BY <1>2, <1>4, <2>2, <3>1 DEF SchedInv, DueAfterReset
  <2> QED BY <1>2, <1>3, <1>4, <2>1, <2>2, <2>3
          DEF SchedInv, TypeOK, DroppedCancelled, CalledInHand, BatchDue
<1>7. CASE /\ task' = [task EXCEPT ![k].at = "called"]
           /\ exec' = [exec EXCEPT !.batch = @ \ {k}, !.at = "calling", !.called = {k}]
  <2>1. TypeOK'
    BY <1>2, <1>3, <1>7 DEF SchedInv, TypeOK, Task
  <2>2. task'[k].at = "called" /\ exec'.called = {k} /\ exec'.at = "calling"
    BY <1>2, <1>3, <1>7 DEF SchedInv, TypeOK, Task
  <2> QED BY <1>2, <1>3, <1>4, <2>1, <2>2
          DEF SchedInv, TypeOK, DroppedCancelled, CalledInHand, BatchDue, DueAfterReset
<1> QED BY <1>1, <1>5, <1>6, <1>7

(***************************************************************************)
(* The callable returns and its Task goes back into the queue.             *)
(***************************************************************************)
LEMMA ReturnInv ==
    ASSUME SchedInv, Return
    PROVE  SchedInv'
<1>1. PICK d \in Intervals :
        \/ exec.called = {} /\ replaced' = replaced \cup {d} /\ task' = task
        \/ /\ task' = [k \in Timer |->
                         IF k \in exec.called
                         THEN [task[k] EXCEPT !.at = "queue", !.due = d] ELSE task[k]]
           /\ replaced' = replaced
  BY DEF Return
<1>2. /\ exec' = [exec EXCEPT !.at = "batch", !.called = {}]
      /\ UNCHANGED <<running, latch, notified, client, age>>
  BY DEF Return
<1>3. d \in 0..MaxInterval /\ d >= Min(Intervals)
  BY Bounds
<1>4. \A k \in Timer :
        \/ task'[k] = task[k] /\ task[k].at # "called"
        \/ /\ task[k].at = "called" /\ task'[k].at = "queue" /\ task'[k].due = d
           /\ task'[k] \in Task
  <2> TAKE k \in Timer
  <2>1. task[k] \in Task /\ (task[k].at = "called" <=> k \in exec.called)
    BY DEF SchedInv, TypeOK, CalledInHand
  <2>2. CASE k \notin exec.called
    BY <1>1, <2>1, <2>2
  <2>3. CASE k \in exec.called
    <3>1. task'[k] = [task[k] EXCEPT !.at = "queue", !.due = d]
      BY <1>1, <2>3
    <3> QED BY <1>3, <2>1, <2>3, <3>1 DEF Task
  <2> QED BY <2>2, <2>3
<1>5. exec'.at = "batch" /\ exec'.called = {} /\ exec'.batch = exec.batch
  BY <1>2 DEF SchedInv, TypeOK
<1>6. TypeOK'
  <2>1. task' \in [Timer -> Task]
    BY <1>1, <1>4 DEF SchedInv, TypeOK
  <2> QED BY <1>1, <1>2, <1>3, <2>1 DEF SchedInv, TypeOK
<1>7. DueAfterReset'
  <2>1. \A k \in Timer : age[k] + d >= Min(Intervals)
    BY <1>3, Bounds DEF SchedInv, TypeOK
  <2> QED BY <1>2, <1>4, <2>1 DEF SchedInv, DueAfterReset
<1>8. DroppedCancelled' /\ CalledInHand'
  BY <1>4, <1>5 DEF SchedInv, DroppedCancelled, CalledInHand
<1>9. BatchDue'
  BY <1>4, <1>5 DEF SchedInv, TypeOK, BatchDue
<1> QED BY <1>6, <1>7, <1>8, <1>9 DEF SchedInv

(***************************************************************************)
(* The client makes a Task, in schedule() or in reset(); the old one, if   *)
(* any, stays with the executor as a replaced one.                         *)
(***************************************************************************)
LEMMA MakeInv ==
    ASSUME SchedInv, NEW k \in Timer, Schedule(k) \/ ResetBegin(k)
    PROVE  SchedInv'
<1>1. PICK d \in Intervals : task' = [task EXCEPT ![k].at = "new", ![k].due = d]
  BY DEF Schedule, ResetBegin
<1>2. /\ age' = [age EXCEPT ![k] = 0] /\ client' = "pushing"
      /\ UNCHANGED <<running, latch, notified>>
  BY DEF Schedule, ResetBegin
<1>3. d \in 0..MaxInterval /\ d >= Min(Intervals) /\ 0 \in 0..MaxInterval
  BY Bounds
<1>4. task[k] \in Task /\ (task[k].at = "none" \/ ~task[k].cancelled)
  BY DEF SchedInv, TypeOK, Schedule, ResetBegin, Active, NoTask
<1>5. /\ task'[k].at = "new" /\ task'[k].due = d /\ task' \in [Timer -> Task]
      /\ \A j \in Timer \ {k} : task'[j] = task[j] /\ age'[j] = age[j]
      /\ age'[k] = 0 /\ age' \in [Timer -> 0..MaxInterval]
  BY <1>1, <1>2, <1>3, <1>4 DEF SchedInv, TypeOK, Task
<1>6. /\ exec'.batch = exec.batch \ {k} /\ exec'.called = exec.called \ {k}
      /\ exec'.at = exec.at
  <2>1. CASE Schedule(k)
    <3>1. exec' = exec /\ task[k].at = "none"
      BY <2>1 DEF Schedule, NoTask
    <3> QED BY <3>1 DEF SchedInv, TypeOK, CalledInHand, BatchDue
  <2>2. CASE ResetBegin(k)
    BY <2>2 DEF ResetBegin, SchedInv, TypeOK
  <2> QED BY <2>1, <2>2
<1>7. TypeOK'
  <2>1. exec' \in [at : {"loop", "blocking", "waiting", "awake", "batch", "calling",
                         "undefined", "done"},
                   wait_time : 1..MaxWait, deadline : 0..MaxWait,
                   batch : SUBSET Timer, called : SUBSET Timer]
    <3>1. \/ exec' = exec
          \/ exec' = [exec EXCEPT !.batch = @ \ {k}, !.called = @ \ {k}]
      BY DEF Schedule, ResetBegin
    <3>2. exec.batch \ {k} \in SUBSET Timer /\ exec.called \ {k} \in SUBSET Timer
      BY DEF SchedInv, TypeOK
    <3>3. CASE exec' = exec
      BY <3>3 DEF SchedInv, TypeOK
    <3>4. CASE exec' = [exec EXCEPT !.batch = @ \ {k}, !.called = @ \ {k}]
      BY <3>2, <3>4 DEF SchedInv, TypeOK
    <3> QED BY <3>1, <3>3, <3>4
  <2>2. replaced' \subseteq 0..MaxInterval
    BY DEF Schedule, ResetBegin, SchedInv, TypeOK, Task
  <2> QED BY <1>2, <1>5, <2>1, <2>2 DEF SchedInv, TypeOK
<1>8. DroppedCancelled' /\ CalledInHand'
  BY <1>5, <1>6 DEF SchedInv, TypeOK, DroppedCancelled, CalledInHand
<1>9. BatchDue'
  BY <1>5, <1>6 DEF SchedInv, TypeOK, BatchDue
<1>10. DueAfterReset'
  <2>1. 0 + d >= Min(Intervals)
    BY <1>3, Bounds
  <2> QED BY <1>5, <2>1 DEF SchedInv, DueAfterReset
<1> QED BY <1>7, <1>8, <1>9, <1>10 DEF SchedInv

(***************************************************************************)
(* The Task is pushed; or a flag of it is set, and cancelled_ is never     *)
(* taken back.                                                             *)
(***************************************************************************)
LEMMA TouchInv ==
    ASSUME SchedInv, Push \/ \E k \in Timer : SetFlag(k)
    PROVE  SchedInv'
<1>1. /\ age' = age /\ exec' = exec /\ replaced' = replaced
      /\ running' = running /\ latch' = latch
      /\ notified' \in BOOLEAN /\ client' \in {client, "idle"}
  BY DEF SchedInv, TypeOK, Push, SetFlag, Notify
<1>2. \A j \in Timer : /\ task'[j] \in Task /\ task'[j].due = task[j].due
                       /\ \/ task'[j].at = task[j].at
                          \/ task[j].at = "new" /\ task'[j].at = "queue"
                       /\ task[j].cancelled => task'[j].cancelled
  <2>1. CASE Push
    BY <2>1 DEF SchedInv, TypeOK, Push, Task
  <2>2. ASSUME NEW k \in Timer, SetFlag(k)
        PROVE  \A j \in Timer : /\ task'[j] \in Task /\ task'[j].due = task[j].due
                                /\ task'[j].at = task[j].at
                                /\ task[j].cancelled => task'[j].cancelled
    <3>1. task[k] \in Task /\ task \in [Timer -> Task]
      BY DEF SchedInv, TypeOK
    <3>2. \/ task' = [task EXCEPT ![k].paused = ~task[k].paused]
          \/ task' = [task EXCEPT ![k].cancelled = TRUE]
      BY <2>2 DEF SetFlag
    <3>3. (~task[k].paused) \in BOOLEAN
      OBVIOUS
    <3>4. CASE task' = [task EXCEPT ![k].cancelled = TRUE]
      BY <3>1, <3>4 DEF Task
    <3>5. CASE task' = [task EXCEPT ![k].paused = ~task[k].paused]
      BY <3>1, <3>3, <3>5 DEF Task
    <3> QED BY <3>2, <3>4, <3>5
  <2> QED BY <2>1, <2>2
<1>3. task' \in [Timer -> Task]
  <2>1. task' = [j \in Timer |-> task'[j]]
    BY DEF SchedInv, TypeOK, Push, SetFlag
  <2> QED BY <1>2, <2>1
<1>4. TypeOK'
  BY <1>1, <1>3 DEF SchedInv, TypeOK
<1>5. DroppedCancelled' /\ CalledInHand' /\ BatchDue' /\ DueAfterReset'
  BY <1>1, <1>2
     DEF SchedInv, TypeOK, DroppedCancelled, CalledInHand, BatchDue, DueAfterReset
<1> QED BY <1>4, <1>5 DEF SchedInv

(***************************************************************************)
(* The other steps of the client leave the Tasks and the executor alone.   *)
(***************************************************************************)
LEMMA LifeInv ==
    ASSUME SchedInv,
           Constructed \/ Destroy \/ NotifyExecutor \/ Join \/ UNCHANGED vars
    PROVE  SchedInv'
<1>1. /\ UNCHANGED <<latch, task, replaced, exec, age>>
      /\ running' \in BOOLEAN /\ notified' \in BOOLEAN
      /\ client' \in {client, "idle", "stopping", "joining", "gone"}
  BY DEF SchedInv, TypeOK, Constructed, Destroy, NotifyExecutor, Join, vars, Notify
<1> QED BY <1>1 DEF SchedInv, TypeOK, DroppedCancelled, CalledInHand, BatchDue,
                    DueAfterReset

\* Every step keeps the invariant.
LEMMA SchedulerStep == SchedInv /\ [Next]_vars => SchedInv'
  BY TickInv, LoopInv, ExecuteInv, ReturnInv, MakeInv, TouchInv, LifeInv
     DEF Next, Executor, Finish

(***************************************************************************)
(* The state of the scheduler keeps its type, and the executor's hands and *)
(* the flags of the Tasks agree: the Tasks out of the queue are the one    *)
(* that is called and cancelled ones.                                      *)
(***************************************************************************)
THEOREM SchedulerInvariance == Spec => []SchedInv
  BY InitInv, SchedulerStep, PTL DEF Spec

(***************************************************************************)
(* The type invariant, for any timers, intervals and IdleWait.             *)
(***************************************************************************)
THEOREM SchedulerTypes == Spec => []TypeOK
<1>1. SchedInv => TypeOK
  BY DEF SchedInv
<1> QED BY <1>1, SchedulerInvariance, PTL

(***************************************************************************)
(* top() is read on an empty queue only when no timer is active: a Task    *)
(* that is neither cancelled nor being replaced is in the queue whenever   *)
(* the executor reads it.                                                  *)
(***************************************************************************)
THEOREM TopOfNothing == Spec => TopDefined
<1>1. ASSUME SchedInv, [Next]_vars, exec.at # "undefined", exec'.at = "undefined",
             NEW k \in Timer
      PROVE  ~Active(k)
  <2>1. ReadTop /\ Dues = {}
    BY <1>1 DEF SchedInv, TypeOK, Next, vars, Executor, Finish, Tick, Enter, Block,
                Wake, Timeout, ReadTop, ExecuteDueTask, Return, EndBatch, Constructed,
                Schedule, ResetBegin, SetFlag, Push, Destroy, NotifyExecutor, Join
  <2>2. exec.at = "awake"
    BY <2>1 DEF ReadTop
  <2>3. task[k].at \in {"none", "new", "dropped"}
    BY <1>1, <2>1, <2>2 DEF SchedInv, TypeOK, Task, CalledInHand, Dues, Queued
  <2> QED BY <1>1, <2>3 DEF SchedInv, DroppedCancelled, Active
<1>2. SchedInv /\ [Next]_vars
        => [exec.at # "undefined" /\ exec'.at = "undefined" => \A k \in Timer : ~Active(k)]_vars
  BY <1>1
<1> QED BY <1>2, SchedulerInvariance, PTL DEF Spec, TopDefined

(***************************************************************************)
(* A timer is called no earlier than the shortest interval after it was    *)
(* scheduled or reset, wherever the executor was at that moment.           *)
(***************************************************************************)
THEOREM NoEarlyCall == Spec => ResetPostpones
<1>1. ASSUME SchedInv, [Next]_vars, exec.at # "calling", NEW k \in exec'.called
      PROVE  age[k] >= Min(Intervals)
  <2>1. exec.called = {}
    BY <1>1 DEF SchedInv, CalledInHand
  <2>2. ExecuteDueTask
    BY <1>1, <2>1 DEF SchedInv, TypeOK, Next, vars, Executor, Finish, Tick, Enter,
                Block, Wake, Timeout, ReadTop, ExecuteDueTask, Return, EndBatch,
                Constructed, Schedule, ResetBegin, SetFlag, Push, Destroy,
                NotifyExecutor, Join
  <2>3. k \in exec.batch
    <3>1. PICK j \in exec.batch :
            \/ exec' = [exec EXCEPT !.batch = @ \ {j}]
            \/ exec' = [exec EXCEPT !.batch = @ \ {j}, !.at = "calling", !.called = {j}]
      BY <2>2 DEF ExecuteDueTask
    <3>2. CASE exec' = [exec EXCEPT !.batch = @ \ {j}]
      <4>1. exec'.called = exec.called
        BY <1>1, <3>2 DEF SchedInv, TypeOK
      <4> QED BY <1>1, <2>1, <4>1
    <3>3. CASE exec' = [exec EXCEPT !.batch = @ \ {j}, !.at = "calling", !.called = {j}]
      <4>1. exec'.called = {j}
        BY <1>1, <3>3 DEF SchedInv, TypeOK
      <4> QED BY <1>1, <4>1
    <3> QED BY <3>1, <3>2, <3>3
  <2>4. k \in Timer /\ task[k].at = "queue" /\ task[k].due = 0
    BY <1>1, <2>3 DEF SchedInv, TypeOK, BatchDue
  <2>5. age[k] + 0 >= Min(Intervals) /\ age[k] \in Nat
    BY <1>1, <2>4 DEF SchedInv, TypeOK, DueAfterReset
  <2> QED BY <2>5, Bounds
<1>2. SchedInv /\ [Next]_vars
        => [exec.at # "calling" => \A k \in exec'.called : age[k] >= Min(Intervals)]_vars
  BY <1>1
<1> QED BY <1>2, SchedulerInvariance, PTL DEF Spec, ResetPostpones

=============================================================================
