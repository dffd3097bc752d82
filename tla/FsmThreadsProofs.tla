-------------------------- MODULE FsmThreadsProofs --------------------------
(***************************************************************************)
(* The timers and the tally of a server under its three threads, for any   *)
(* number of Task objects and whatever the user thread calls.              *)
(*                                                                         *)
(* What a thread is about to do decides what holds, so the invariant looks *)
(* at the first operation of todo[t] only; the operations behind it are    *)
(* known to follow one another as the member functions have them.          *)
(***************************************************************************)
EXTENDS FsmThreads, SequenceTheorems, WellFoundedInduction, TLAPS

H == "handler_mtx_"
Sched == "Scheduler::mtx"

\* The operations, as far as their parts go.
OpName == {"handle", "lock", "higher_term", "adopt_term", "convert_to_follower", "event",
           "unlock", "clear_prev_state", "inc_term", "stop", "clear_votes", "set_role",
           "start_election_timeout", "count_vote", "test_majority", "start_new_election",
           "start_heartbeat", "resume", "pause", "read_paused", "run_after", "carry_over",
           "set_blocked", "renew"}
OpArg == Lock \cup {"follower", "candidate", "leader", "new_election"} \cup Event
           \cup {"election_timeout", 0} \cup BOOLEAN
OpSet == [name : OpName, arg : OpArg]

\* An operation with its argument.
Is(o, n, v) == o.name = n /\ o.arg = v
IsLock(o, l) == Is(o, "lock", l)
IsUnlock(o, l) == Is(o, "unlock", l)

\* The events a thread handles.
EventOf(t) == IF t = "network" THEN Event ELSE {"election_timeout"}

\* The operations of each thread.
UserOp(o) ==
    \/ o.name \in {"convert_to_follower", "clear_votes"}
    \/ o.name \in {"clear_prev_state", "set_role", "start_election_timeout"}
         /\ o.arg = "follower"
    \/ o.name \in {"stop", "pause"} /\ o.arg \in Timer
    \/ o.name = "set_blocked" /\ o.arg \in BOOLEAN

HandlerOp(t, o) ==
    \/ o.name \in {"handle", "higher_term", "event"} /\ o.arg \in EventOf(t)
    \/ IsLock(o, H) \/ IsUnlock(o, H)
    \/ o.name \in {"clear_prev_state", "set_role"} /\ o.arg \in {"follower", "candidate", "leader"}
    \/ o.name = "inc_term" /\ o.arg \in {"candidate", "leader", "new_election"}
    \/ o.name = "stop" /\ o.arg \in Timer
    \/ o.name = "start_election_timeout" /\ o.arg \in {"follower", "candidate"}
    \/ o.name \in {"clear_votes", "count_vote", "start_new_election"}

NetworkOp(o) ==
    \/ o.name \in {"adopt_term", "convert_to_follower", "test_majority", "start_heartbeat"}
    \/ o.name \in {"lock", "unlock", "read_paused", "carry_over"} /\ o.arg = "election"
    \/ o.name = "run_after" /\ o.arg \in Timer
    \/ Is(o, "resume", "heartbeat")

OpOf(t, o) ==
    \/ t = "user" /\ UserOp(o)
    \/ t # "user" /\ HandlerOp(t, o)
    \/ t = "network" /\ NetworkOp(o)
    \/ t = "executor" /\ o.name = "renew"
    \/ t = "executor" /\ IsUnlock(o, Sched)

\* What follows convert_to_follower(), and what follows clear_prev_state().
AfterFollower(t, b) ==
    IF t = "user" THEN Is(b, "pause", "election") ELSE b.name = "event" \/ IsUnlock(b, H)

AfterClearing(b) ==
    \/ Is(b, "set_role", "follower")
    \/ b.name = "inc_term" /\ b.arg \in {"candidate", "leader"}

\* In thread t, b may come right after a.
Follows(t, a, b) ==
    /\ a.name = "handle" => t = "executor" /\ b.name = "renew"
    /\ IsLock(a, H) => b.name = "higher_term"
    /\ a.name \in {"higher_term", "event", "start_heartbeat", "start_new_election",
                   "test_majority", "resume"} => IsUnlock(b, H)
    /\ a.name = "adopt_term" => b.name = "convert_to_follower"
    /\ a.name = "convert_to_follower" => AfterFollower(t, b)
    /\ a.name = "clear_prev_state" => IF a.arg = "follower" THEN Is(b, "set_role", "follower")
                                      ELSE Is(b, "inc_term", a.arg)
    /\ a.name = "inc_term" => IF a.arg = "new_election" THEN Is(b, "stop", "election")
                              ELSE Is(b, "set_role", a.arg)
    /\ a.name = "stop" => IF a.arg = "election" THEN b.name = "clear_votes"
                          ELSE AfterClearing(b)
    /\ a.name = "clear_votes" => \/ AfterClearing(b)
                                 \/ Is(b, "start_election_timeout", "candidate")
    /\ a.name = "set_role" => IF a.arg = "leader" THEN b.name = "start_heartbeat"
                              ELSE Is(b, "start_election_timeout", a.arg)
    /\ a.name = "start_election_timeout" => IF a.arg = "candidate" THEN b.name = "count_vote"
                                            ELSE AfterFollower(t, b)
    /\ a.name = "count_vote" => b.name = "test_majority" \/ IsUnlock(b, H)
    /\ a.name = "pause" => IF a.arg = "election" THEN Is(b, "pause", "heartbeat")
                           ELSE b.name = "set_blocked"
    /\ IsLock(a, "election") => b.name = "read_paused"
    /\ a.name = "read_paused" => Is(b, "run_after", "election")
    /\ a.name = "run_after" => IF a.arg = "election" THEN b.name = "carry_over"
                               ELSE IsUnlock(b, H)
    /\ a.name = "carry_over" => IsUnlock(b, "election")
    /\ IsUnlock(a, "election") => b.name = "convert_to_follower" \/ IsUnlock(b, H)
    /\ IsUnlock(a, H) => t = "executor" /\ b.name = "renew"
    /\ a.name = "renew" => IsUnlock(b, Sched)
    /\ ~IsUnlock(a, Sched)
    /\ a.name # "set_blocked"

\* The last operation of an event, of a due Task, or of a call.
Final(t, o) ==
    \/ t = "network" /\ (o.name = "handle" \/ IsUnlock(o, H))
    \/ t = "executor" /\ IsUnlock(o, Sched)
    \/ t = "user" /\ (Is(o, "pause", "heartbeat") \/ o.name = "set_blocked")

Linked(t, s) ==
    \A i \in 1..Len(s) :
        /\ OpOf(t, s[i])
        /\ IF i = Len(s) THEN Final(t, s[i]) ELSE Follows(t, s[i], s[i + 1])

Shapes ==
    /\ todo \in [Thread -> Seq(OpSet)]
    /\ \A t \in Thread : Linked(t, todo[t])

-----------------------------------------------------------------------------
(* What holds when a thread is about to perform an operation. *)

\* What thread t does next.
First(t) == todo[t][1]

\* The network thread is about to perform such an operation of reset().
AtNet(n) == ~Idle("network") /\ First("network").name = n
Resetting == AtNet("run_after") /\ First("network").arg = "election"

\* Between the operations that take and release handler_mtx_, or in a call.
Inside(t) ==
    /\ ~Idle(t)
    /\ First(t).name \notin {"handle", "renew"}
    /\ ~IsLock(First(t), H) /\ ~IsUnlock(First(t), Sched)

\* The threads that run handlers.
Worker == {"network", "executor"}

\* Who holds which lock is decided by what the threads are about to do.
Locks ==
    /\ \A t \in Worker : owner[H] = t <=> Inside(t)
    /\ owner[H] # "user"
    /\ IF Idle("executor") THEN owner[Sched] = "none" ELSE owner[Sched] = "executor"
    /\ IF AtNet("read_paused") \/ Resetting \/ AtNet("carry_over")
            \/ (~Idle("network") /\ IsUnlock(First("network"), "election"))
       THEN owner["election"] = "network" ELSE owner["election"] = "none"
    /\ owner["heartbeat"] = "none"

\* The Tasks the executor may still look at.
Pending == queue \cup ({calling} \ {0})

\* The Tasks that are not cancelled are the ones the timers point to.
Tasks ==
    /\ calling \notin queue
    /\ calling # 0 <=> ~Idle("executor") /\ ~IsUnlock(First("executor"), Sched)
    /\ \A i \in Pending : ~task[i].cancelled => timer[task[i].timer] = i
    /\ \A k \in Timer : timer[k] # 0 =>
         /\ task[timer[k]].timer = k
         /\ task[timer[k]].cancelled <=> k = "election" /\ Resetting
         /\ ~task[timer[k]].cancelled => timer[k] \in Pending
    /\ timer["election"] # 0
    /\ AtNet("run_after") /\ First("network").arg = "heartbeat" => timer["heartbeat"] = 0

\* A Task is paused as its timer was last asked; within reset() the local
\* variable remembers it.
Pauses ==
    /\ \A k \in Timer : timer[k] = 0 => asked[k] = "resume"
    /\ \A k \in Timer : timer[k] # 0 /\ ~(k = "election" /\ AtNet("carry_over"))
         => (task[timer[k]].paused <=> asked[k] = "pause")
    /\ Resetting \/ AtNet("carry_over") => (was_paused <=> asked["election"] = "pause")
    /\ AtNet("carry_over") => ~task[timer["election"]].paused

\* Timer k is scheduled and not paused.
On(k) == timer[k] # 0 /\ asked[k] = "resume"

\* Timers and tally are as the role wants them.
TimersFit ==
    /\ On("heartbeat") <=> role = "leader"
    /\ role = "leader" => ~On("election")
    /\ role = "candidate" => On("election")
    /\ role = "follower" /\ ~meddled => On("election")

TallyFits == votes = IF role = "candidate" THEN "fresh" ELSE "none"

Settled == TimersFit /\ TallyFits

\* How far the conversion has got that is about to perform o.
Needs(o) ==
    /\ o.name \in {"higher_term", "event", "lock", "unlock", "read_paused", "carry_over",
                   "adopt_term", "start_new_election", "set_blocked"} => Settled
    /\ Is(o, "run_after", "election") => Settled
    /\ o.name = "pause" => Settled /\ role = "follower"
    /\ o.name = "test_majority" => Settled /\ role = "candidate"
    /\ Is(o, "inc_term", "new_election") => Settled /\ role = "candidate"
    /\ o.name \in {"convert_to_follower", "clear_prev_state"} =>
         TimersFit /\ (votes = "none" \/ role = "candidate")
    /\ Is(o, "clear_prev_state", "follower") => role # "follower"
    /\ Is(o, "clear_prev_state", "candidate") => role = "follower"
    /\ Is(o, "clear_prev_state", "leader") => role = "candidate"
    /\ Is(o, "stop", "election") => role = "candidate" /\ ~On("heartbeat")
    /\ Is(o, "stop", "heartbeat") => role = "leader" /\ ~On("election") /\ votes = "none"
    /\ o.name = "clear_votes" => role = "candidate" /\ ~On("election") /\ ~On("heartbeat")
    /\ o.name \in {"inc_term", "set_role"} /\ o.arg # "new_election" =>
         /\ ~On("heartbeat") /\ votes = "none"
         /\ o.arg = "leader" => ~On("election")
    /\ o.name = "start_election_timeout" =>
         role = o.arg /\ ~On("heartbeat") /\ votes = "none"
    /\ o.name = "count_vote" => TimersFit /\ role = "candidate" /\ votes # "stale"
    /\ o.name = "start_heartbeat" \/ o.name = "resume" \/ Is(o, "run_after", "heartbeat") =>
         /\ role = "leader" /\ ~On("election") /\ votes = "none"
         /\ o.name = "resume" => timer["heartbeat"] # 0

\* As long as no call has overlapped a handler, role, timers and tally match
\* outside of both, and are on their way within.
Roles ==
    ~overlapped =>
        /\ ~Idle("user") => meddled /\ owner[H] = "none"
        /\ owner[H] = "none" /\ Idle("user") => Settled
        /\ \A t \in Thread : Inside(t) => Needs(First(t))

FsmInv == TypeOK /\ Shapes /\ Locks /\ Tasks /\ Pauses /\ Roles

-----------------------------------------------------------------------------
(* What stands in todo[t] when an operation is done. *)

\* The rest of a thread's operations is in order again, and starts with one
\* that may follow the operation that is done.
LEMMA TailLinked ==
    ASSUME NEW t, NEW s \in Seq(OpSet), s # <<>>, Linked(t, s)
    PROVE  /\ Tail(s) \in Seq(OpSet) /\ Linked(t, Tail(s))
           /\ Head(s) = s[1] /\ OpOf(t, s[1])
           /\ Tail(s) = <<>> => Final(t, s[1])
           /\ Tail(s) # <<>> => Follows(t, s[1], Tail(s)[1]) /\ OpOf(t, Tail(s)[1])
  <1>1. /\ Len(s) \in Nat \ {0}
        /\ Tail(s) \in Seq(OpSet) /\ Len(Tail(s)) = Len(s) - 1
        /\ \A i \in 1..Len(Tail(s)) : Tail(s)[i] = s[i + 1]
        /\ Head(s) = s[1]
    BY EmptySeq, HeadTailProperties
  <1>a. Tail(s) = <<>> <=> Len(Tail(s)) = 0
    BY <1>1, EmptySeq
  <1>2. \A i \in 1..Len(s) : /\ OpOf(t, s[i])
                             /\ i = Len(s) => Final(t, s[i])
                             /\ i # Len(s) => Follows(t, s[i], s[i + 1])
    BY DEF Linked
  <1>3. OpOf(t, s[1]) /\ (Tail(s) = <<>> => Final(t, s[1]))
    <2>1. 1 \in 1..Len(s) /\ (Tail(s) = <<>> => Len(s) = 1)
      BY <1>1, <1>a
    <2> QED BY <1>2, <2>1
  <1>4. ASSUME Tail(s) # <<>>
        PROVE  Follows(t, s[1], Tail(s)[1]) /\ OpOf(t, Tail(s)[1])
    <2>1. /\ 1 \in 1..Len(s) /\ 2 \in 1..Len(s) /\ 1 # Len(s) /\ 1 \in 1..Len(Tail(s))
          /\ 1 + 1 = 2
      BY <1>1, <1>a, <1>4
    <2>2. Follows(t, s[1], s[1 + 1]) /\ OpOf(t, s[2])
      BY <1>2, <2>1
    <2>3. Tail(s)[1] = s[1 + 1]
      BY <1>1, <2>1
    <2> QED BY <2>1, <2>2, <2>3
  <1>5. Linked(t, Tail(s))
    <2>1. SUFFICES ASSUME NEW i \in 1..Len(Tail(s))
                   PROVE  /\ OpOf(t, Tail(s)[i])
                          /\ i = Len(Tail(s)) => Final(t, Tail(s)[i])
                          /\ i # Len(Tail(s)) => Follows(t, Tail(s)[i], Tail(s)[i + 1])
      BY DEF Linked
    <2>2. i + 1 \in 1..Len(s) /\ (i = Len(Tail(s)) <=> i + 1 = Len(s))
      BY <1>1
    <2>3. Tail(s)[i] = s[i + 1]
      BY <1>1
    <2>4. i # Len(Tail(s)) => i + 1 \in 1..Len(Tail(s))
      <3>1. \A n \in Nat : \A j \in 1..n : j # n => j + 1 \in 1..n
        OBVIOUS
      <3>2. Len(Tail(s)) \in Nat
        BY <1>1
      <3> QED BY <3>1, <3>2
    <2>5. i # Len(Tail(s)) => Tail(s)[i + 1] = s[(i + 1) + 1]
      BY <1>1, <2>4
    <2>6. /\ OpOf(t, s[i + 1])
          /\ i + 1 = Len(s) => Final(t, s[i + 1])
          /\ i + 1 # Len(s) => Follows(t, s[i + 1], s[(i + 1) + 1])
      BY <1>2, <2>2
    <2> QED BY <2>2, <2>3, <2>5, <2>6
  <1> QED BY <1>1, <1>3, <1>4, <1>5

\* A sequence of operations in an order the member functions have.
Chain(t, ops) ==
    /\ ops \in Seq(OpSet) /\ ops # <<>>
    /\ \A i \in 1..Len(ops) : OpOf(t, ops[i])
    /\ \A i \in 1..Len(ops) : i # Len(ops) => Follows(t, ops[i], ops[i + 1])

\* What may stand before the rest x of a thread's operations.
Joins(t, o, x) == IF x = <<>> THEN Final(t, o) ELSE Follows(t, o, x[1])

\* The operations of a branch take the place of the one that branched.
LEMMA ChainLinked ==
    ASSUME NEW t, NEW x \in Seq(OpSet), Linked(t, x), NEW ops, Chain(t, ops),
           Joins(t, ops[Len(ops)], x)
    PROVE  /\ ops \o x \in Seq(OpSet) /\ ops \o x # <<>> /\ Linked(t, ops \o x)
           /\ (ops \o x)[1] = ops[1]
  <1> DEFINE y == ops \o x
  <1>1. ops \in Seq(OpSet) /\ Len(ops) \in Nat \ {0} /\ Len(x) \in Nat
    BY EmptySeq DEF Chain
  <1>2. /\ y \in Seq(OpSet) /\ Len(y) = Len(ops) + Len(x)
        /\ \A i \in 1..(Len(ops) + Len(x)) :
              y[i] = IF i <= Len(ops) THEN ops[i] ELSE x[i - Len(ops)]
    BY <1>1, ConcatProperties
  <1>3. \A i \in 1..Len(ops) : /\ OpOf(t, ops[i])
                               /\ i # Len(ops) => Follows(t, ops[i], ops[i + 1])
    BY DEF Chain
  <1>4. \A i \in 1..Len(x) : /\ OpOf(t, x[i])
                             /\ i = Len(x) => Final(t, x[i])
                             /\ i # Len(x) => Follows(t, x[i], x[i + 1])
    BY DEF Linked
  <1>5. /\ Len(x) = 0 => Final(t, ops[Len(ops)])
        /\ Len(x) # 0 => Follows(t, ops[Len(ops)], x[1])
    BY EmptySeq DEF Joins
  <1> HIDE DEF y
  <1>6. ASSUME NEW i \in 1..Len(y)
        PROVE  /\ OpOf(t, y[i])
               /\ i = Len(y) => Final(t, y[i])
               /\ i # Len(y) => Follows(t, y[i], y[i + 1])
    <2>1. CASE i < Len(ops)
      <3>1. /\ i \in 1..Len(ops) /\ i # Len(ops) /\ i # Len(y)
            /\ y[i] = ops[i] /\ y[i + 1] = ops[i + 1]
        BY <1>1, <1>2, <2>1
      <3>2. OpOf(t, ops[i]) /\ Follows(t, ops[i], ops[i + 1])
        BY <1>3, <3>1
      <3> QED BY <3>1, <3>2
    <2>2. CASE i = Len(ops)
      <3>1. /\ i \in 1..Len(ops) /\ y[i] = ops[i] /\ (i = Len(y) <=> Len(x) = 0)
            /\ Len(x) # 0 => y[i + 1] = x[1]
        BY <1>1, <1>2, <2>2
      <3>2. OpOf(t, ops[i])
        BY <1>3, <3>1
      <3>3. /\ Len(x) = 0 => Final(t, ops[i])
            /\ Len(x) # 0 => Follows(t, ops[i], x[1])
        BY <1>5, <2>2
      <3> QED BY <3>1, <3>2, <3>3
    <2>3. CASE i > Len(ops)
      <3>1. /\ i - Len(ops) \in 1..Len(x) /\ y[i] = x[i - Len(ops)]
            /\ i = Len(y) <=> i - Len(ops) = Len(x)
        BY <1>1, <1>2, <2>3
      <3>2. i # Len(y) => y[i + 1] = x[(i - Len(ops)) + 1]
        <4>1. \A m, n \in Nat : \A j \in 1..(m + n) :
                 j # m + n /\ j > m => /\ j + 1 \in 1..(m + n) /\ ~(j + 1 <= m)
                                       /\ (j + 1) - m = (j - m) + 1
          OBVIOUS
        <4>2. i # Len(y) => /\ i + 1 \in 1..(Len(ops) + Len(x)) /\ ~(i + 1 <= Len(ops))
                            /\ (i + 1) - Len(ops) = (i - Len(ops)) + 1
          BY <1>1, <1>2, <2>3, <4>1
        <4> QED BY <1>2, <4>2
      <3>3. /\ OpOf(t, x[i - Len(ops)])
            /\ i - Len(ops) = Len(x) => Final(t, x[i - Len(ops)])
            /\ i - Len(ops) # Len(x) => Follows(t, x[i - Len(ops)], x[(i - Len(ops)) + 1])
        BY <1>4, <3>1
      <3> QED BY <3>1, <3>2, <3>3
    <2> QED BY <1>1, <1>2, <2>1, <2>2, <2>3
  <1>7. Linked(t, y)
    BY <1>6 DEF Linked
  <1>8. y # <<>> /\ y[1] = ops[1]
    BY <1>1, <1>2, EmptySeq
  <1> QED BY <1>2, <1>7, <1>8 DEF y

\* Head is the first element, and one of the thread's operations.
LEMMA FirstIsHead ==
    ASSUME Shapes, NEW t \in Thread, ~Idle(t)
    PROVE  /\ todo[t] \in Seq(OpSet) /\ todo[t] # <<>> /\ Head(todo[t]) = First(t)
           /\ \A n : Next_op(t, n) <=> First(t).name = n
           /\ Arg(t) = First(t).arg
           /\ OpOf(t, First(t))
  <1>1. todo[t] \in Seq(OpSet) /\ todo[t] # <<>> /\ Linked(t, todo[t])
    BY DEF Shapes, Idle
  <1>2. Head(todo[t]) = First(t)
    BY <1>1 DEF First
  <1>3. 1 \in 1..Len(todo[t])
    BY <1>1, EmptySeq
  <1>4. OpOf(t, First(t))
    BY <1>1, <1>3 DEF Linked, First
  <1> QED BY <1>1, <1>2, <1>4 DEF Next_op, Arg, Idle

\* Thread t has gone on to an operation that may follow the one it has done.
Ahead(t) ==
    /\ \A u \in Thread : u # t => todo'[u] = todo[u]
    /\ IF Idle(t)' THEN Final(t, First(t))
       ELSE OpOf(t, First(t)') /\ Follows(t, First(t), First(t)')

\* A thread whose operation is done goes on to one that may follow it.
LEMMA DoneAhead ==
    ASSUME Shapes, NEW t \in Thread, ~Idle(t), Done(t)
    PROVE  Shapes' /\ Ahead(t)
  <1>1. todo[t] \in Seq(OpSet) /\ todo[t] # <<>> /\ Linked(t, todo[t])
    BY DEF Shapes, Idle
  <1>2. /\ todo' = [todo EXCEPT ![t] = Tail(todo[t])]
        /\ \A u \in Thread : u # t => todo'[u] = todo[u]
        /\ todo'[t] = Tail(todo[t])
    BY DEF Shapes, Done
  <1>3. Tail(todo[t]) \in Seq(OpSet) /\ Linked(t, todo'[t])
    BY <1>1, <1>2, TailLinked
  <1>4. todo' \in [Thread -> Seq(OpSet)]
    BY <1>2, <1>3 DEF Shapes
  <1>5. Shapes'
    BY <1>2, <1>3, <1>4 DEF Shapes
  <1>6. Ahead(t)
    <2>1. /\ Tail(todo[t]) = <<>> => Final(t, todo[t][1])
          /\ Tail(todo[t]) # <<>> => /\ Follows(t, todo[t][1], Tail(todo[t])[1])
                                     /\ OpOf(t, Tail(todo[t])[1])
      BY <1>1, TailLinked
    <2> QED BY <1>2, <2>1 DEF Ahead, Idle, First
  <1> QED BY <1>5, <1>6

-----------------------------------------------------------------------------
(* The steps. *)

\* The members of a Task.
TaskObject == [timer : Timer, cancelled : BOOLEAN, paused : BOOLEAN]

\* Where a thread is, is read off the names of operations from here on.
USE DEF H, Sched, Is, IsLock, IsUnlock, First, Idle, Worker, Thread, AtNet, Resetting, users

\* As long as no call has overlapped a handler, one thread at most is inside.
LEMMA Alone ==
    ASSUME FsmInv, ~overlapped, NEW t \in Thread, NEW u \in Thread, Inside(t), Inside(u)
    PROVE  t = u
  <1>1. Locks /\ Roles
    BY DEF FsmInv
  <1>2. \A v \in Worker : Inside(v) => owner[H] = v
    BY <1>1 DEF Locks
  <1>3. Inside("user") => owner[H] = "none"
    BY <1>1 DEF Roles, Inside
  <1> QED BY <1>2, <1>3

\* What a step of a thread that is inside, and stays there unless a call ends,
\* has to see to.
LEMMA RolesKept ==
    ASSUME FsmInv, NEW t \in Thread, Inside(t), UNCHANGED <<meddled, overlapped>>,
           owner'[H] = owner[H],
           \A u \in Thread : u # t => todo'[u] = todo[u],
           t # "user" => Inside(t)',
           t = "user" /\ ~Idle(t)' => Inside(t)',
           ~overlapped /\ Needs(First(t)) =>
             IF Idle(t)' THEN Settled' ELSE Needs(First(t))'
    PROVE  Roles'
  <1>1. Locks /\ Roles
    BY DEF FsmInv
  <1>2. SUFFICES ASSUME ~overlapped
                 PROVE  /\ ~Idle("user")' => meddled /\ owner[H] = "none"
                        /\ owner[H] = "none" /\ Idle("user")' => Settled'
                        /\ \A u \in Thread : Inside(u)' => Needs(First(u))'
    BY DEF Roles
  <1>3. /\ ~Idle("user") => meddled /\ owner[H] = "none"
        /\ Needs(First(t))
    BY <1>1, <1>2 DEF Roles
  <1>4. IF Idle(t)' THEN Settled' ELSE Needs(First(t))'
    BY <1>2, <1>3
  <1>5. ASSUME NEW u \in Thread, u # t PROVE ~Inside(u)'
    <2>1. ~Inside(u)
      BY <1>2, <1>5, Alone
    <2> QED BY <1>5, <2>1 DEF Inside
  <1>6. CASE t = "user"
    BY <1>2, <1>3, <1>4, <1>5, <1>6 DEF Inside
  <1>7. CASE t # "user"
    <2>1. owner[H] = t
      BY <1>1, <1>7 DEF Locks
    <2> QED BY <1>2, <1>3, <1>4, <1>5, <1>7, <2>1 DEF Inside
  <1> QED BY <1>6, <1>7

\* What a step of thread t has to see to that leaves timers and locks alone.
Local(t) ==
    /\ UNCHANGED <<task, queue, calling, timer, owner, was_paused, asked, meddled, overlapped>>
    /\ role' \in {"follower", "candidate", "leader"} /\ blocked' \in BOOLEAN
    /\ votes' \in {"none", "fresh", "stale"}
    /\ Shapes' /\ \A u \in Thread : u # t => todo'[u] = todo[u]
    /\ Idle(t)' => t # "executor"
    /\ t # "user" => (Inside(t)' <=> Inside(t))
    /\ ~Idle(t)' =>
         /\ First(t)'.name \notin {"read_paused", "carry_over"}
         /\ ~IsUnlock(First(t)', "election") /\ ~IsUnlock(First(t)', Sched)
         /\ First(t)'.name = "run_after" => First(t)'.arg = "heartbeat" /\ timer["heartbeat"] = 0

\* The operations that leave timers and locks alone.
LocalOp == {"handle", "higher_term", "adopt_term", "convert_to_follower", "event",
            "clear_prev_state", "inc_term", "clear_votes", "set_role", "count_vote",
            "test_majority", "start_new_election", "start_heartbeat", "set_blocked"}

LEMMA LocalKeeps ==
    ASSUME FsmInv, NEW t \in Thread, ~Idle(t), First(t).name \in LocalOp, Local(t),
           ~Inside(t) => UNCHANGED <<role, votes>>,
           Inside(t) /\ ~overlapped /\ Needs(First(t)) =>
             IF Idle(t)' THEN Settled' ELSE Needs(First(t))'
    PROVE  FsmInv'
  <1> DEFINE a == First(t)
             b == First(t)'
  <1>0. TypeOK /\ Shapes /\ Locks /\ Tasks /\ Pauses /\ Roles
    BY DEF FsmInv
  <1>1. UNCHANGED <<task, queue, calling, timer, owner, was_paused, asked, meddled, overlapped>>
    BY DEF Local
  <1>2. Shapes' /\ \A u \in Thread : u # t => todo'[u] = todo[u]
    BY DEF Local
  <1>3. /\ Idle(t)' => t # "executor"
        /\ t # "user" => (Inside(t)' <=> Inside(t))
        /\ ~Idle(t)' =>
             /\ b.name \notin {"read_paused", "carry_over"}
             /\ ~IsUnlock(b, "election") /\ ~IsUnlock(b, Sched)
             /\ b.name = "run_after" => b.arg = "heartbeat" /\ timer["heartbeat"] = 0
    BY DEF Local
  <1>4. /\ a.name \notin {"read_paused", "carry_over", "run_after", "unlock", "lock", "renew"}
        /\ Inside(t) <=> a.name # "handle"
    BY DEF LocalOp, Inside
  <1>5. \A u \in Worker : Inside(u)' <=> Inside(u)
    BY <1>2, <1>3 DEF Inside
  <1>6. TypeOK'
    BY <1>0, <1>1, <1>2 DEF TypeOK, Shapes, Local
  <1>7. Locks'
    BY <1>0, <1>1, <1>2, <1>3, <1>4, <1>5 DEF Locks
  <1>8. Tasks'
    BY <1>0, <1>1, <1>2, <1>3, <1>4 DEF Tasks, Pending
  <1>9. Pauses'
    BY <1>0, <1>1, <1>2, <1>3, <1>4 DEF Pauses
  <1>10. Roles'
    <2>1. CASE Inside(t)
      <3>1. t = "user" /\ ~Idle(t)' => Inside(t)'
        <4>1. SUFFICES ASSUME t = "user", ~Idle(t)' PROVE Inside(t)'
          OBVIOUS
        <4>2. /\ todo'["user"] \in Seq(OpSet) /\ todo'["user"] # <<>>
              /\ Linked("user", todo'["user"])
          BY <1>2, <4>1 DEF Shapes
        <4>3. OpOf("user", b)
          BY <4>1, <4>2, TailLinked
        <4> QED BY <4>1, <4>3 DEF OpOf, UserOp, Inside
      <3> QED BY <1>1, <1>2, <1>3, <2>1, <3>1, RolesKept
    <2>2. CASE ~Inside(t)
      <3>1. UNCHANGED <<role, votes, timer, asked, owner, meddled, overlapped>>
        BY <1>1, <2>2
      <3>2. t # "user"
        <4>1. SUFFICES ASSUME t = "user" PROVE FALSE
          OBVIOUS
        <4>2. OpOf("user", a)
          BY <1>0, <4>1, FirstIsHead
        <4> QED BY <2>2, <4>1, <4>2 DEF OpOf, UserOp, Inside
      <3>3. /\ \A u \in Thread : Inside(u)' => Inside(u) /\ u # t
            /\ todo'["user"] = todo["user"]
        BY <1>2, <1>3, <2>2, <3>2 DEF Inside
      <3>4. \A o : Needs(o)' <=> Needs(o)
        BY <3>1 DEF Needs, Settled, TimersFit, TallyFits, On
      <3>5. Settled' <=> Settled
        BY <3>1 DEF Settled, TimersFit, TallyFits, On
      <3> QED BY <1>0, <1>2, <3>1, <3>2, <3>3, <3>4, <3>5 DEF Roles
    <2> QED BY <2>1, <2>2
  <1> QED BY <1>2, <1>6, <1>7, <1>8, <1>9, <1>10 DEF FsmInv

\* The role changes between the stop and the start of the timers.
LEMMA SetRoleKeeps ==
    ASSUME FsmInv, NEW t \in Thread, SetRole(t)
    PROVE  FsmInv'
  <1> DEFINE a == First(t)
             b == First(t)'
  <1>0. TypeOK /\ Shapes /\ Locks /\ Tasks /\ Pauses /\ Roles
    BY DEF FsmInv
  <1>1. ~Idle(t) /\ a.name = "set_role" /\ Arg(t) = a.arg /\ Done(t) /\ OpOf(t, a)
    BY <1>0, FirstIsHead DEF SetRole, Next_op
  <1>2. a.arg \in {"follower", "candidate", "leader"}
    BY <1>1 DEF OpOf, UserOp, HandlerOp, NetworkOp
  <1>3. Shapes' /\ Ahead(t)
    BY <1>0, <1>1, DoneAhead
  <1>4. /\ ~Idle(t)'
        /\ IF a.arg = "leader" THEN b.name = "start_heartbeat"
           ELSE Is(b, "start_election_timeout", a.arg)
    BY <1>1, <1>3 DEF Ahead, Follows, Final
  <1>5. /\ role' = a.arg
        /\ UNCHANGED <<blocked, votes, task, queue, calling, timer, owner, was_paused, asked,
                       meddled, overlapped>>
    BY <1>1 DEF SetRole
  <1>6. Inside(t) /\ Inside(t)'
    BY <1>1, <1>4 DEF Inside
  <1>7. Local(t)
    BY <1>0, <1>2, <1>3, <1>4, <1>5, <1>6 DEF Local, Ahead, TypeOK
  <1>8. Needs(a) => Needs(First(t))'
    BY <1>1, <1>2, <1>4, <1>5 DEF Needs, On
  <1> QED BY <1>1, <1>4, <1>6, <1>7, <1>8, LocalKeeps DEF LocalOp

\* block() and unblock() set the flag that only handle() looks at.
LEMMA SetBlockedKeeps ==
    ASSUME FsmInv, NEW t \in Thread, SetBlocked(t)
    PROVE  FsmInv'
  <1> DEFINE a == First(t)
  <1>0. TypeOK /\ Shapes /\ Locks /\ Tasks /\ Pauses /\ Roles
    BY DEF FsmInv
  <1>1. ~Idle(t) /\ a.name = "set_blocked" /\ Arg(t) = a.arg /\ Done(t) /\ OpOf(t, a)
    BY <1>0, FirstIsHead DEF SetBlocked, Next_op
  <1>2. t = "user" /\ a.arg \in BOOLEAN
    BY <1>1 DEF OpOf, UserOp, HandlerOp, NetworkOp
  <1>3. Shapes' /\ Ahead(t)
    BY <1>0, <1>1, DoneAhead
  <1>4. Idle(t)'
    BY <1>1, <1>3 DEF Ahead, Follows
  <1>5. /\ blocked' = a.arg
        /\ UNCHANGED <<role, votes, task, queue, calling, timer, owner, was_paused, asked,
                       meddled, overlapped>>
    BY <1>1 DEF SetBlocked
  <1>6. Local(t)
    BY <1>0, <1>2, <1>3, <1>4, <1>5 DEF Local, Ahead, TypeOK
  <1>7. Needs(a) => Settled'
    BY <1>1, <1>5 DEF Needs, Settled, TimersFit, TallyFits, On
  <1> QED BY <1>1, <1>4, <1>5, <1>6, <1>7, LocalKeeps DEF LocalOp

\* The tally is emptied while the election timer is stopped, and counts votes of
\* the present term otherwise.
LEMMA TallyVotesKeeps ==
    ASSUME FsmInv, NEW t \in Thread, TallyVotes(t)
    PROVE  FsmInv'
  <1> DEFINE a == First(t)
             b == First(t)'
  <1>0. TypeOK /\ Shapes /\ Locks /\ Tasks /\ Pauses /\ Roles
    BY DEF FsmInv
  <1>1. ~Idle(t) /\ Done(t)
    BY DEF TallyVotes, Next_op
  <1>2. /\ OpOf(t, a) /\ a.name \in {"clear_votes", "count_vote"}
        /\ a.name = "clear_votes" => votes' = "none"
        /\ a.name = "count_vote" => votes' = IF votes = "none" THEN "fresh" ELSE votes
    BY <1>0, <1>1, FirstIsHead DEF TallyVotes
  <1>3. Shapes' /\ Ahead(t)
    BY <1>0, <1>1, DoneAhead
  <1>4. /\ ~Idle(t)' /\ OpOf(t, b)
        /\ a.name = "clear_votes" => \/ AfterClearing(b)
                                     \/ Is(b, "start_election_timeout", "candidate")
        /\ a.name = "count_vote" => b.name = "test_majority" \/ IsUnlock(b, H)
    BY <1>2, <1>3 DEF Ahead, Follows, Final
  <1>5. UNCHANGED <<role, blocked, task, queue, calling, timer, owner, was_paused, asked,
                    meddled, overlapped>>
    BY DEF TallyVotes
  <1>6. Inside(t) /\ Inside(t)'
    BY <1>1, <1>2, <1>4 DEF Inside, AfterClearing
  <1>7. Local(t)
    BY <1>0, <1>2, <1>3, <1>4, <1>5, <1>6 DEF Local, Ahead, TypeOK, AfterClearing
  <1>8. Needs(a) => Needs(First(t))'
    BY <1>0, <1>2, <1>4, <1>5
       DEF Needs, Settled, TimersFit, TallyFits, On, AfterClearing, TypeOK
  <1> QED BY <1>1, <1>2, <1>4, <1>6, <1>7, <1>8, LocalKeeps DEF LocalOp

\* With a new term the tally gets old: it is empty, or about to be emptied.
LEMMA NewTermKeeps ==
    ASSUME FsmInv, NEW t \in Thread, NewTerm(t)
    PROVE  FsmInv'
  <1> DEFINE a == First(t)
             b == First(t)'
  <1>0. TypeOK /\ Shapes /\ Locks /\ Tasks /\ Pauses /\ Roles
    BY DEF FsmInv
  <1>1. ~Idle(t) /\ Done(t)
    BY DEF NewTerm, Next_op
  <1>2. OpOf(t, a) /\ a.name \in {"inc_term", "adopt_term"}
    BY <1>0, <1>1, FirstIsHead DEF NewTerm
  <1>3. Shapes' /\ Ahead(t)
    BY <1>0, <1>1, DoneAhead
  <1>4. /\ ~Idle(t)'
        /\ a.name = "adopt_term" => b.name = "convert_to_follower"
        /\ a.name = "inc_term" =>
             /\ a.arg \in {"candidate", "leader", "new_election"}
             /\ IF a.arg = "new_election" THEN Is(b, "stop", "election")
                ELSE Is(b, "set_role", a.arg)
    BY <1>2, <1>3 DEF Ahead, Follows, Final, OpOf, UserOp, HandlerOp, NetworkOp
  <1>5. /\ votes' = IF votes = "none" THEN "none" ELSE "stale"
        /\ UNCHANGED <<role, blocked, task, queue, calling, timer, owner, was_paused, asked,
                       meddled, overlapped>>
    BY DEF NewTerm
  <1>6. Inside(t) /\ Inside(t)'
    BY <1>1, <1>2, <1>4 DEF Inside
  <1>7. Local(t)
    BY <1>0, <1>2, <1>3, <1>4, <1>5, <1>6 DEF Local, Ahead, TypeOK
  <1>8. Needs(a) => Needs(First(t))'
    BY <1>0, <1>2, <1>4, <1>5 DEF Needs, Settled, TimersFit, TallyFits, On, TypeOK
  <1> QED BY <1>1, <1>2, <1>4, <1>6, <1>7, <1>8, LocalKeeps DEF LocalOp

\* handler_mtx_ at the start of a handler, or the lock of reset().
LEMMA AcquireLockKeeps ==
    ASSUME FsmInv, NEW t \in Thread, AcquireLock(t)
    PROVE  FsmInv'
  <1> DEFINE a == First(t)
             b == First(t)'
  <1>0. TypeOK /\ Shapes /\ Locks /\ Tasks /\ Pauses /\ Roles
    BY DEF FsmInv
  <1>1. ~Idle(t) /\ a.name = "lock" /\ Arg(t) = a.arg /\ Done(t) /\ OpOf(t, a)
    BY <1>0, FirstIsHead DEF AcquireLock, Next_op
  <1>2. Shapes' /\ Ahead(t)
    BY <1>0, <1>1, DoneAhead
  <1>3. t \in Worker /\ ~Idle(t)' /\ \/ a.arg = H /\ b.name = "higher_term"
                                     \/ /\ t = "network" /\ a.arg = "election"
                                        /\ b.name = "read_paused"
    BY <1>1, <1>2 DEF OpOf, UserOp, HandlerOp, NetworkOp, Ahead, Follows, Final
  <1>4. \A u \in Thread : u # t => todo'[u] = todo[u]
    BY <1>2 DEF Ahead
  <1>5. /\ owner[a.arg] = "none" /\ owner' = [owner EXCEPT ![a.arg] = t]
        /\ overlapped' = (overlapped \/ (a.arg = H /\ ~Idle("user")))
        /\ UNCHANGED <<role, blocked, votes, task, queue, calling, timer, was_paused, asked,
                       meddled>>
    BY <1>1 DEF AcquireLock
  <1>6. TypeOK'
    BY <1>0, <1>2, <1>5 DEF TypeOK, Shapes
  <1>7. Locks'
    BY <1>0, <1>1, <1>3, <1>4, <1>5 DEF Locks, Inside, TypeOK, Lock, Timer
  <1>8. Tasks'
    BY <1>0, <1>1, <1>3, <1>4, <1>5 DEF Tasks, Pending
  <1>9. Pauses'
    BY <1>0, <1>1, <1>3, <1>4, <1>5 DEF Pauses
  <1>10. Roles'
    <2>1. CASE a.arg = "election"
      <3>1. Inside(t) /\ Inside(t)' /\ owner'[H] = owner[H] /\ overlapped' = overlapped
        BY <1>0, <1>1, <1>3, <1>5, <2>1 DEF Inside, TypeOK, Lock, Timer
      <3>2. Needs(a) => Needs(First(t))'
        BY <1>1, <1>3, <1>5, <2>1 DEF Needs, Settled, TimersFit, TallyFits, On
      <3> QED BY <1>3, <1>4, <1>5, <3>1, <3>2, RolesKept
    <2>2. CASE a.arg = H
      <3>1. SUFFICES ASSUME ~overlapped' PROVE Roles'
        BY DEF Roles
      <3>2. ~overlapped /\ Idle("user") /\ Idle("user")' /\ owner[H] = "none"
        BY <1>0, <1>3, <1>4, <1>5, <2>2, <3>1 DEF TypeOK
      <3>3. Settled /\ \A u \in Worker : ~Inside(u)
        BY <1>0, <3>2 DEF Locks, Roles
      <3>4. Settled'
        BY <1>5, <3>3 DEF Settled, TimersFit, TallyFits, On
      <3>5. Needs(First(t))'
        BY <1>3, <2>2, <3>4 DEF Needs
      <3>6. \A u \in Thread : Inside(u)' => u = t
        BY <1>4, <3>2, <3>3 DEF Inside
      <3>7. owner'[H] = t
        BY <1>0, <1>5, <2>2 DEF TypeOK, Lock
      <3> QED BY <1>3, <3>2, <3>5, <3>6, <3>7 DEF Roles
    <2> QED BY <1>3, <2>1, <2>2
  <1> QED BY <1>2, <1>6, <1>7, <1>8, <1>9, <1>10 DEF FsmInv

\* The end of a handler, of reset(), or of execute_due_tasks.
LEMMA ReleaseLockKeeps ==
    ASSUME FsmInv, NEW t \in Thread, ReleaseLock(t)
    PROVE  FsmInv'
  <1> DEFINE a == First(t)
             b == First(t)'
  <1>0. TypeOK /\ Shapes /\ Locks /\ Tasks /\ Pauses /\ Roles
    BY DEF FsmInv
  <1>1. ~Idle(t) /\ a.name = "unlock" /\ Arg(t) = a.arg /\ Done(t) /\ OpOf(t, a)
    BY <1>0, FirstIsHead DEF ReleaseLock, Next_op
  <1>2. Shapes' /\ Ahead(t)
    BY <1>0, <1>1, DoneAhead
  <1>3. \/ t = "network" /\ a.arg = H /\ Idle(t)'
        \/ t = "executor" /\ a.arg = H /\ ~Idle(t)' /\ b.name = "renew"
        \/ /\ t = "network" /\ a.arg = "election" /\ ~Idle(t)'
           /\ b.name = "convert_to_follower" \/ IsUnlock(b, H)
        \/ t = "executor" /\ a.arg = Sched /\ Idle(t)'
    BY <1>1, <1>2 DEF OpOf, UserOp, HandlerOp, NetworkOp, Ahead, Follows, Final
  <1>4. \A u \in Thread : u # t => todo'[u] = todo[u]
    BY <1>2 DEF Ahead
  <1>5. /\ owner' = [owner EXCEPT ![a.arg] = "none"]
        /\ UNCHANGED <<role, blocked, votes, task, queue, calling, timer, was_paused, asked,
                       meddled, overlapped>>
    BY <1>1 DEF ReleaseLock
  <1>6. TypeOK'
    BY <1>0, <1>2, <1>5 DEF TypeOK, Shapes
  <1>7. Locks'
    BY <1>0, <1>1, <1>3, <1>4, <1>5 DEF Locks, Inside, TypeOK, Lock, Timer
  <1>8. Tasks'
    BY <1>0, <1>1, <1>3, <1>4, <1>5 DEF Tasks, Pending
  <1>9. Pauses'
    BY <1>0, <1>1, <1>3, <1>4, <1>5 DEF Pauses
  <1>10. Roles'
    <2>1. CASE a.arg = "election"
      <3>1. t = "network" /\ Inside(t) /\ Inside(t)' /\ ~Idle(t)' /\ owner'[H] = owner[H]
        BY <1>0, <1>1, <1>3, <1>5, <2>1 DEF Inside, TypeOK, Lock, Timer
      <3>2. Needs(a) => Needs(First(t))'
        BY <1>1, <1>3, <1>5, <2>1 DEF Needs, Settled, TimersFit, TallyFits, On
      <3> QED BY <1>3, <1>4, <1>5, <3>1, <3>2, RolesKept
    <2>2. CASE a.arg = H
      <3>1. SUFFICES ASSUME ~overlapped PROVE Roles'
        BY <1>5 DEF Roles
      <3>2. Inside(t) /\ owner[H] = t /\ ~Inside(t)'
        BY <1>0, <1>1, <1>3, <2>2 DEF Locks, Inside
      <3>3. Settled /\ Idle("user")
        BY <1>0, <1>1, <1>3, <3>1, <3>2 DEF Roles, Needs
      <3>4. Settled'
        BY <1>5, <3>3 DEF Settled, TimersFit, TallyFits, On
      <3>5. \A u \in Thread : ~Inside(u)'
        <4>1. \A u \in Thread : u # t => ~Inside(u)
          BY <3>1, <3>2, Alone
        <4> QED BY <1>4, <3>2, <4>1 DEF Inside
      <3>6. Idle("user")'
        BY <1>3, <1>4, <3>3
      <3> QED BY <3>4, <3>5, <3>6 DEF Roles
    <2>3. CASE a.arg = Sched
      <3>1. /\ \A u \in Thread : Inside(u)' => Inside(u) /\ todo'[u] = todo[u]
            /\ t # "user" /\ todo'["user"] = todo["user"] /\ owner'[H] = owner[H]
        BY <1>0, <1>3, <1>4, <1>5, <2>3 DEF Inside, TypeOK, Lock
      <3>2. \A o : Needs(o)' <=> Needs(o)
        BY <1>5 DEF Needs, Settled, TimersFit, TallyFits, On
      <3>3. Settled' <=> Settled
        BY <1>5 DEF Settled, TimersFit, TallyFits, On
      <3> QED BY <1>0, <1>5, <3>1, <3>2, <3>3 DEF Roles
    <2> QED BY <1>3, <2>1, <2>2, <2>3
  <1> QED BY <1>2, <1>6, <1>7, <1>8, <1>9, <1>10 DEF FsmInv

\* reset() cancels the old Task: from here on no live Task serves the timer.
LEMMA ReadPausedKeeps ==
    ASSUME FsmInv, NEW t \in Thread, ReadPaused(t)
    PROVE  FsmInv'
  <1> DEFINE a == First(t)
             b == First(t)'
             i == timer["election"]
  <1>0. TypeOK /\ Shapes /\ Locks /\ Tasks /\ Pauses /\ Roles
    BY DEF FsmInv
  <1>1. ~Idle(t) /\ a.name = "read_paused" /\ Arg(t) = a.arg /\ Done(t) /\ OpOf(t, a)
    BY <1>0, FirstIsHead DEF ReadPaused, Next_op
  <1>2. Shapes' /\ Ahead(t)
    BY <1>0, <1>1, DoneAhead
  <1>3. t = "network" /\ a.arg = "election" /\ ~Idle(t)' /\ Is(b, "run_after", "election")
    BY <1>1, <1>2 DEF OpOf, UserOp, HandlerOp, NetworkOp, Ahead, Follows, Final
  <1>4. \A u \in Thread : u # t => todo'[u] = todo[u]
    BY <1>2 DEF Ahead
  <1>5. /\ was_paused' = task[i].paused
        /\ task' = [task EXCEPT ![i].cancelled = TRUE]
        /\ UNCHANGED <<role, blocked, votes, queue, calling, timer, owner, asked, meddled,
                       overlapped>>
    BY <1>1, <1>3 DEF ReadPaused
  <1>6. i \in Task /\ i \in {timer[k] : k \in Timer} /\ task \in [Task -> TaskObject]
    BY <1>0 DEF TypeOK, Tasks, Timer, TaskObject
  <1>7. /\ task' \in [Task -> TaskObject]
        /\ \A j \in Task : j # i => task'[j] = task[j]
        /\ task'[i].timer = task[i].timer /\ task'[i].paused = task[i].paused
        /\ task'[i].cancelled
    <2> HIDE DEF i
    <2>1. task' = [task EXCEPT ![i].cancelled = TRUE]
      BY <1>5
    <2> QED BY <1>6, <2>1 DEF TaskObject
  <1>8. TypeOK'
    <2>1. was_paused' \in BOOLEAN
      BY <1>5, <1>6 DEF TaskObject
    <2> QED BY <1>0, <1>2, <1>5, <1>7, <2>1 DEF TypeOK, Shapes, TaskObject
  <1>9. Locks'
    BY <1>0, <1>1, <1>3, <1>4, <1>5 DEF Locks, Inside, TypeOK, Lock, Timer
  <1>10. Tasks'
    BY <1>0, <1>1, <1>3, <1>4, <1>5, <1>6, <1>7 DEF Tasks, Pending, TypeOK, Timer
  <1>11. Pauses'
    <2>1. timer["heartbeat"] # 0 =>
            task'[timer["heartbeat"]].paused = task[timer["heartbeat"]].paused
      BY <1>0, <1>6, <1>7 DEF TypeOK, Tasks, Timer
    <2>2. timer["election"] # 0 /\ (task[i].paused <=> asked["election"] = "pause")
      BY <1>0, <1>1, <1>3 DEF Pauses, Tasks, Timer
    <2> QED BY <1>0, <1>3, <1>5, <1>7, <2>1, <2>2 DEF Pauses, Timer
  <1>12. Roles'
    <2>1. Inside(t) /\ Inside(t)'
      BY <1>1, <1>3 DEF Inside
    <2>2. Needs(a) => Needs(First(t))'
      BY <1>1, <1>3, <1>5 DEF Needs, Settled, TimersFit, TallyFits, On
    <2> QED BY <1>3, <1>4, <1>5, <2>1, <2>2, RolesKept
  <1> QED BY <1>2, <1>8, <1>9, <1>10, <1>11, <1>12 DEF FsmInv

\* reset() pauses the new Task if the old one was paused.
LEMMA CarryOverKeeps ==
    ASSUME FsmInv, NEW t \in Thread, CarryOver(t)
    PROVE  FsmInv'
  <1> DEFINE a == First(t)
             b == First(t)'
             i == timer["election"]
  <1>0. TypeOK /\ Shapes /\ Locks /\ Tasks /\ Pauses /\ Roles
    BY DEF FsmInv
  <1>1. ~Idle(t) /\ a.name = "carry_over" /\ Arg(t) = a.arg /\ Done(t) /\ OpOf(t, a)
    BY <1>0, FirstIsHead DEF CarryOver, Next_op
  <1>2. Shapes' /\ Ahead(t)
    BY <1>0, <1>1, DoneAhead
  <1>3. t = "network" /\ a.arg = "election" /\ ~Idle(t)' /\ IsUnlock(b, "election")
    BY <1>1, <1>2 DEF OpOf, UserOp, HandlerOp, NetworkOp, Ahead, Follows, Final
  <1>4. \A u \in Thread : u # t => todo'[u] = todo[u]
    BY <1>2 DEF Ahead
  <1>5. /\ task' = [task EXCEPT ![i].paused = task[i].paused \/ was_paused]
        /\ was_paused' = FALSE
        /\ UNCHANGED <<role, blocked, votes, queue, calling, timer, owner, asked, meddled,
                       overlapped>>
    BY <1>1, <1>3 DEF CarryOver
  <1>6. task \in [Task -> TaskObject] /\ i \in Task /\ was_paused \in BOOLEAN
    BY <1>0 DEF TypeOK, TaskObject, Tasks, Timer
  <1>7. /\ task' \in [Task -> TaskObject]
        /\ \A j \in Task : /\ task'[j].timer = task[j].timer
                           /\ task'[j].cancelled <=> task[j].cancelled
                           /\ j # i => task'[j] = task[j]
        /\ task'[i].paused <=> task[i].paused \/ was_paused
    <2> HIDE DEF i
    <2>1. task' = [task EXCEPT ![i].paused = task[i].paused \/ was_paused]
      BY <1>5
    <2> QED BY <1>6, <2>1 DEF TaskObject
  <1>8. TypeOK'
    BY <1>0, <1>2, <1>5, <1>7 DEF TypeOK, Shapes, TaskObject
  <1>9. Locks'
    BY <1>0, <1>1, <1>3, <1>4, <1>5 DEF Locks, Inside
  <1>10. Tasks'
    BY <1>0, <1>1, <1>3, <1>4, <1>5, <1>7 DEF Tasks, Pending, TypeOK, Timer
  <1>11. Pauses'
    BY <1>0, <1>1, <1>3, <1>4, <1>5, <1>6, <1>7 DEF Pauses, Tasks, TypeOK, Timer
  <1>12. Roles'
    <2>1. Inside(t) /\ Inside(t)'
      BY <1>1, <1>3 DEF Inside
    <2>2. Needs(a) => Needs(First(t))'
      BY <1>1, <1>3, <1>5 DEF Needs, Settled, TimersFit, TallyFits, On
    <2> QED BY <1>3, <1>4, <1>5, <2>1, <2>2, RolesKept
  <1> QED BY <1>2, <1>8, <1>9, <1>10, <1>11, <1>12 DEF FsmInv

\* Pausing and resuming, in a handler or in a call of the user: neither can come
\* between the operations of reset(), which holds the lock.
LEMMA PauseOrResumeKeeps ==
    ASSUME FsmInv, NEW t \in Thread, PauseOrResume(t)
    PROVE  FsmInv'
  <1> DEFINE a == First(t)
             b == First(t)'
             k == Timer_of(t)
             p == a.name \in {"pause", "stop"}
  <1>0. TypeOK /\ Shapes /\ Locks /\ Tasks /\ Pauses /\ Roles
    BY DEF FsmInv
  <1>1. ~Idle(t) /\ Done(t)
    BY DEF PauseOrResume, Pausing, Resuming, Next_op
  <1>2. /\ OpOf(t, a) /\ a.name \in {"pause", "stop", "resume", "start_election_timeout"}
        /\ Pausing(t) <=> p
        /\ k = IF a.name = "start_election_timeout" THEN "election" ELSE a.arg
    BY <1>0, <1>1, FirstIsHead DEF PauseOrResume, Pausing, Resuming, Timer_of
  <1>3. k \in Timer /\ (a.name = "resume" => a.arg = "heartbeat")
    BY <1>2 DEF OpOf, UserOp, HandlerOp, NetworkOp, Timer
  <1>4. /\ UNCHANGED <<role, blocked, votes, queue, calling, timer, owner, was_paused, meddled,
                       overlapped>>
        /\ timer[k] = 0 => UNCHANGED <<task, asked>>
        /\ timer[k] # 0 => /\ owner[k] = "none"
                           /\ task' = [task EXCEPT ![timer[k]].paused = Pausing(t)]
                           /\ asked' = [asked EXCEPT ![k] = IF Pausing(t) THEN "pause"
                                                            ELSE "resume"]
    BY DEF PauseOrResume
  <1>5. Shapes' /\ Ahead(t)
    BY <1>0, <1>1, DoneAhead
  <1>6. /\ \A u \in Thread : u # t => todo'[u] = todo[u]
        /\ Idle(t)' => t = "user" /\ Is(a, "pause", "heartbeat")
        /\ ~Idle(t)' =>
             /\ OpOf(t, b)
             /\ Is(a, "pause", "election") => Is(b, "pause", "heartbeat")
             /\ Is(a, "pause", "heartbeat") => b.name = "set_blocked"
             /\ Is(a, "stop", "election") => b.name = "clear_votes"
             /\ Is(a, "stop", "heartbeat") => AfterClearing(b)
             /\ Is(a, "start_election_timeout", "candidate") => b.name = "count_vote"
             /\ Is(a, "start_election_timeout", "follower") => AfterFollower(t, b)
             /\ a.name = "resume" => IsUnlock(b, H)
    BY <1>2, <1>5 DEF Ahead, Follows, Final
  <1>7. task \in [Task -> TaskObject] /\ (timer[k] # 0 => timer[k] \in Task)
    BY <1>0, <1>3 DEF TypeOK, TaskObject
  <1>a. Pausing(t) \in BOOLEAN
    BY DEF Pausing, Next_op
  <1>8. /\ task' \in [Task -> TaskObject]
        /\ \A j \in Task : /\ task'[j].timer = task[j].timer
                           /\ task'[j].cancelled <=> task[j].cancelled
                           /\ j # timer[k] => task'[j] = task[j]
        /\ timer[k] # 0 => (task'[timer[k]].paused <=> Pausing(t))
    <2> HIDE DEF k
    <2>1. CASE timer[k] = 0
      BY <1>4, <1>7, <2>1
    <2>2. CASE timer[k] # 0
      <3> DEFINE q == Pausing(t)
      <3>1. task' = [task EXCEPT ![timer[k]].paused = q] /\ timer[k] \in Task
        BY <1>4, <1>7, <2>2
      <3>2. q \in BOOLEAN
        BY <1>a
      <3> HIDE DEF q
      <3>3. /\ task' \in [Task -> TaskObject]
            /\ \A j \in Task : /\ task'[j].timer = task[j].timer
                               /\ task'[j].cancelled <=> task[j].cancelled
                               /\ j # timer[k] => task'[j] = task[j]
            /\ task'[timer[k]].paused <=> q
        BY <1>7, <2>2, <3>1, <3>2 DEF TaskObject
      <3> QED BY <3>3 DEF q
    <2> QED BY <2>1, <2>2
  <1>9. /\ asked' \in [Timer -> {"pause", "resume"}]
        /\ timer[k] # 0 => asked'[k] = IF p THEN "pause" ELSE "resume"
        /\ timer[k] = 0 => asked' = asked
        /\ \A l \in Timer : l # k => asked'[l] = asked[l]
    BY <1>0, <1>2, <1>3, <1>4 DEF TypeOK
  <1>10. TypeOK'
    BY <1>0, <1>4, <1>5, <1>8, <1>9 DEF TypeOK, Shapes, TaskObject
  <1> HIDE DEF k
  <1>11. /\ Inside(t) /\ (~Idle(t)' => Inside(t)')
         /\ t # "user" => ~Idle(t)'
         /\ ~Idle(t)' => b.name \notin {"read_paused", "run_after", "carry_over"}
                           /\ ~IsUnlock(b, "election")
    BY <1>1, <1>2, <1>3, <1>6
       DEF Inside, OpOf, UserOp, HandlerOp, NetworkOp, AfterClearing, AfterFollower, Timer
  <1>12. Locks'
    BY <1>0, <1>1, <1>2, <1>4, <1>6, <1>11 DEF Locks, Inside
  <1>13. Tasks'
    BY <1>0, <1>1, <1>2, <1>4, <1>6, <1>8, <1>11 DEF Tasks, Pending, TypeOK, Timer, Inside
  <1>14. Pauses'
    <2>1. t # "network" => (AtNet("carry_over")' <=> AtNet("carry_over"))
                             /\ (Resetting' <=> Resetting)
      BY <1>6
    <2>2. t = "network" => /\ ~AtNet("carry_over") /\ ~Resetting
                           /\ ~AtNet("carry_over")' /\ ~Resetting'
      BY <1>2, <1>11
    <2>3. timer[k] # 0 /\ k = "election" => ~AtNet("carry_over") /\ ~Resetting
      BY <1>0, <1>4 DEF Locks
    <2>4. /\ AtNet("carry_over")' <=> AtNet("carry_over")
          /\ Resetting' <=> Resetting
      BY <2>1, <2>2
    <2>5. timer[k] # 0 => /\ task'[timer[k]].paused <=> p
                          /\ asked'[k] = "pause" <=> p
      BY <1>2, <1>8, <1>9
    <2>6. ASSUME NEW l \in Timer, l # k
          PROVE  /\ asked'[l] = asked[l]
                 /\ timer[l] # 0 => task'[timer[l]] = task[timer[l]]
      <3>1. timer[l] # 0 => timer[l] \in Task /\ (timer[k] # 0 => timer[l] # timer[k])
        BY <1>0, <1>3, <2>6 DEF Tasks, TypeOK
      <3>2. timer[l] # 0 => timer[l] # timer[k]
        BY <3>1
      <3> QED BY <1>8, <1>9, <2>6, <3>1, <3>2
    <2>7. timer[k] = 0 => asked' = asked
      BY <1>9
    <2>8. \A l \in Timer : timer'[l] = 0 => asked'[l] = "resume"
      BY <1>0, <1>4, <2>6, <2>7 DEF Pauses
    <2>9. \A l \in Timer : timer'[l] # 0 /\ ~(l = "election" /\ AtNet("carry_over")')
                            => (task'[timer'[l]].paused <=> asked'[l] = "pause")
      <3>1. SUFFICES ASSUME NEW l \in Timer, timer[l] # 0,
                            ~(l = "election" /\ AtNet("carry_over"))
                     PROVE  task'[timer[l]].paused <=> asked'[l] = "pause"
        BY <1>4, <2>4
      <3>2. CASE l = k
        BY <2>5, <3>1, <3>2
      <3>3. CASE l # k
        <4>1. task[timer[l]].paused <=> asked[l] = "pause"
          BY <1>0, <3>1 DEF Pauses
        <4> QED BY <2>6, <3>1, <3>3, <4>1
      <3> QED BY <3>2, <3>3
    <2>10. Resetting \/ AtNet("carry_over") =>
             asked'["election"] = asked["election"]
      BY <2>3, <2>6, <2>7 DEF Timer
    <2>11. Resetting' \/ AtNet("carry_over")' => (was_paused' <=> asked'["election"] = "pause")
      BY <1>0, <1>4, <2>4, <2>10 DEF Pauses
    <2>12. AtNet("carry_over")' => ~task'[timer'["election"]].paused
      <3>1. SUFFICES ASSUME AtNet("carry_over") PROVE ~task'[timer["election"]].paused
        BY <1>4, <2>4
      <3>2. timer["election"] # 0 /\ ~task[timer["election"]].paused
        BY <1>0, <3>1 DEF Pauses, Tasks
      <3>3. k # "election"
        BY <2>3, <3>1, <3>2
      <3> QED BY <2>6, <3>2, <3>3 DEF Timer
    <2> QED BY <2>8, <2>9, <2>11, <2>12 DEF Pauses
  <1>15. Roles'
    <2>1. ASSUME ~overlapped, Needs(a)
          PROVE  IF Idle(t)' THEN Settled' ELSE Needs(First(t))'
      <3>1. t = "user" => meddled
        BY <1>0, <1>1, <2>1 DEF Roles
      <3>2. timer["election"] # 0 /\ role \in {"follower", "candidate", "leader"}
              /\ asked \in [Timer -> {"pause", "resume"}]
        BY <1>0 DEF Tasks, TypeOK
      <3>3. CASE a.name = "pause"
        <4>1. /\ t = "user" /\ role = "follower" /\ Settled /\ k = a.arg /\ a.arg \in Timer
          BY <1>2, <1>3, <2>1, <3>3 DEF Needs, OpOf, HandlerOp, NetworkOp
        <4>2. Settled'
          BY <1>4, <1>9, <3>1, <3>2, <3>3, <4>1
             DEF Settled, TimersFit, TallyFits, On, Timer
        <4>3. ~Idle(t)' => b.name \in {"pause", "set_blocked"}
          BY <1>6, <3>3, <4>1 DEF Timer
        <4> QED BY <1>4, <4>1, <4>2, <4>3 DEF Needs
      <3>4. CASE a.name = "stop" /\ a.arg = "election"
        <4>1. k = "election" /\ ~Idle(t)' /\ b.name = "clear_votes"
          BY <1>2, <1>6, <3>4
        <4>2. ~On("election")' /\ ~On("heartbeat")' /\ role' = "candidate"
          BY <1>4, <1>9, <2>1, <3>2, <3>4, <4>1 DEF Needs, On, Timer
        <4> QED BY <4>1, <4>2 DEF Needs
      <3>5. CASE a.name = "stop" /\ a.arg = "heartbeat"
        <4>1. k = "heartbeat" /\ ~Idle(t)' /\ AfterClearing(b)
          BY <1>2, <1>6, <3>5
        <4>2. ~On("election")' /\ ~On("heartbeat")' /\ votes' = "none"
          BY <1>4, <1>9, <2>1, <3>2, <3>5, <4>1 DEF Needs, On, Timer
        <4> QED BY <4>1, <4>2 DEF Needs, AfterClearing
      <3>6. CASE a.name = "resume"
        <4>1. /\ k = "heartbeat" /\ timer[k] # 0 /\ ~Idle(t)' /\ IsUnlock(b, H)
              /\ role = "leader" /\ ~On("election") /\ votes = "none"
          BY <1>2, <1>3, <1>6, <1>11, <2>1, <3>6 DEF Needs
        <4>2. Settled'
          BY <1>4, <1>9, <3>2, <3>6, <4>1 DEF Settled, TimersFit, TallyFits, On, Timer
        <4> QED BY <4>1, <4>2 DEF Needs
      <3>7. CASE a.name = "start_election_timeout"
        <4>1. /\ k = "election" /\ ~Idle(t)' /\ a.arg \in {"follower", "candidate"}
              /\ role = a.arg /\ ~On("heartbeat") /\ votes = "none"
          BY <1>2, <1>6, <1>11, <2>1, <3>7 DEF Needs, OpOf, UserOp, HandlerOp, NetworkOp
        <4>2. TimersFit' /\ role' = a.arg /\ votes' = "none"
          BY <1>4, <1>9, <3>2, <3>7, <4>1 DEF TimersFit, On, Timer
        <4>3. CASE a.arg = "candidate"
          <5>1. b.name = "count_vote"
            BY <1>6, <3>7, <4>1, <4>3
          <5> QED BY <4>1, <4>2, <4>3, <5>1 DEF Needs
        <4>4. CASE a.arg = "follower"
          <5>1. b.name \in {"event", "unlock", "pause"}
            BY <1>6, <3>7, <4>1, <4>4 DEF AfterFollower
          <5>2. Settled'
            BY <4>2, <4>4 DEF Settled, TallyFits
          <5> QED BY <4>1, <4>2, <4>4, <5>1, <5>2 DEF Needs
        <4> QED BY <4>1, <4>3, <4>4
      <3> QED BY <1>2, <1>3, <3>3, <3>4, <3>5, <3>6, <3>7 DEF Timer
    <2> QED BY <1>4, <1>6, <1>11, <2>1, RolesKept
  <1> QED BY <1>5, <1>10, <1>12, <1>13, <1>14, <1>15 DEF FsmInv

\* The Task that RunAfter takes is an unused one.
LEMMA TakesUnused ==
    ASSUME Unused # {}
    PROVE  (CHOOSE j \in Unused : \A l \in Unused : j <= l) \in Unused
  <1>1. Unused \subseteq Nat
    BY MaxTasksAssumption DEF Unused, Task
  <1>2. PICK x \in Unused : \A y \in Unused : ~(<<y, x>> \in OpToRel(<, Nat))
    BY <1>1, NatLessThanWellFounded, WFMin
  <1>3. \A y \in Unused : ~(y < x)
    BY <1>1, <1>2 DEF OpToRel
  <1>4. \A y \in Unused : x <= y
    BY <1>1, <1>3
  <1> QED BY <1>4

\* A new Task takes the place of the cancelled one, or is the first heartbeat.
LEMMA RunAfterKeeps ==
    ASSUME FsmInv, NEW t \in Thread, RunAfter(t)
    PROVE  FsmInv'
  <1> DEFINE a == First(t)
             b == First(t)'
             k == First(t).arg
  <1>0. TypeOK /\ Shapes /\ Locks /\ Tasks /\ Pauses /\ Roles
    BY DEF FsmInv
  <1>1. ~Idle(t) /\ a.name = "run_after" /\ Arg(t) = a.arg /\ Done(t) /\ OpOf(t, a)
    BY <1>0, FirstIsHead DEF RunAfter, Next_op
  <1>3. Shapes' /\ Ahead(t)
    BY <1>0, <1>1, DoneAhead
  <1>4. /\ t = "network" /\ ~Idle(t)'
        /\ \/ k = "election" /\ b.name = "carry_over"
           \/ k = "heartbeat" /\ IsUnlock(b, H)
    BY <1>1, <1>3 DEF OpOf, UserOp, HandlerOp, NetworkOp, Ahead, Follows, Final, Timer
  <1>5. \A u \in Thread : u # t => todo'[u] = todo[u]
    BY <1>3 DEF Ahead
  <1>6. PICK i \in Unused :
          /\ task' = [task EXCEPT ![i] = [timer |-> k, cancelled |-> FALSE, paused |-> FALSE]]
          /\ queue' = queue \cup {i}
          /\ timer' = [timer EXCEPT ![k] = i]
    BY <1>1, TakesUnused DEF RunAfter
  <1>7. UNCHANGED <<role, blocked, votes, calling, owner, was_paused, asked, meddled,
                    overlapped>>
    BY DEF RunAfter
  <1>8. /\ i \in Task /\ i # 0 /\ i \notin queue /\ i # calling
        /\ \A l \in Timer : timer[l] # i
    BY <1>6, MaxTasksAssumption DEF Unused, Task
  <1>9. task \in [Task -> TaskObject] /\ k \in Timer
    BY <1>0, <1>4 DEF TypeOK, TaskObject, Timer
  <1>10. /\ task' \in [Task -> TaskObject]
         /\ \A j \in Task : j # i => task'[j] = task[j]
         /\ task'[i].timer = k /\ ~task'[i].cancelled /\ ~task'[i].paused
    BY <1>6, <1>8, <1>9 DEF TaskObject
  <1>11. /\ timer' \in [Timer -> Task \cup {0}]
         /\ timer'[k] = i
         /\ \A l \in Timer : l # k => timer'[l] = timer[l]
    BY <1>0, <1>6, <1>8, <1>9 DEF TypeOK
  <1>12. TypeOK'
    BY <1>0, <1>3, <1>6, <1>7, <1>8, <1>10, <1>11 DEF TypeOK, Shapes, TaskObject
  <1>13. Locks'
    BY <1>0, <1>1, <1>4, <1>5, <1>7 DEF Locks, Inside
  <1>14. Tasks'
    <2>1. calling' \notin queue' /\ Pending' = Pending \cup {i}
      BY <1>0, <1>6, <1>7, <1>8 DEF Tasks, Pending
    <2>2. \A l \in Timer : l # k => /\ timer[l] # 0 => ~task[timer[l]].cancelled
                                    /\ ~(l = "election" /\ Resetting')
      BY <1>0, <1>1, <1>4 DEF Tasks, Timer
    <2>3. k = "election" => task[timer[k]].cancelled /\ timer[k] # 0
      BY <1>0, <1>1, <1>4 DEF Tasks, Timer
    <2>4. k = "heartbeat" => timer[k] = 0
      BY <1>0, <1>1, <1>4 DEF Tasks
    <2>5. Pending \subseteq Task /\ i \notin Pending
      BY <1>0, <1>8 DEF TypeOK, Pending
    <2>6. \A j \in Pending : task[j].cancelled \/ (task[j].timer # k /\ timer[task[j].timer] = j)
      <3>1. SUFFICES ASSUME NEW j \in Pending, ~task[j].cancelled
                     PROVE  task[j].timer # k /\ timer[task[j].timer] = j
        OBVIOUS
      <3>2. timer[task[j].timer] = j
        BY <1>0, <3>1 DEF Tasks
      <3>3. j # 0
        BY <2>5, MaxTasksAssumption DEF Task
      <3> QED BY <1>4, <2>3, <2>4, <3>1, <3>2, <3>3
    <2>7. \A j \in Pending' : ~task'[j].cancelled => timer'[task'[j].timer] = j
      BY <1>9, <1>10, <1>11, <2>1, <2>5, <2>6 DEF TaskObject
    <2>8. \A l \in Timer : timer'[l] # 0 =>
            /\ task'[timer'[l]].timer = l
            /\ task'[timer'[l]].cancelled <=> l = "election" /\ Resetting'
            /\ ~task'[timer'[l]].cancelled => timer'[l] \in Pending'
      <3>1. SUFFICES ASSUME NEW l \in Timer, timer'[l] # 0
                     PROVE  /\ task'[timer'[l]].timer = l
                            /\ task'[timer'[l]].cancelled <=> l = "election" /\ Resetting'
                            /\ ~task'[timer'[l]].cancelled => timer'[l] \in Pending'
        OBVIOUS
      <3>2. CASE l = k
        BY <1>4, <1>10, <1>11, <2>1, <3>2
      <3>3. CASE l # k
        <4>1. timer'[l] = timer[l] /\ timer[l] \in Task /\ timer[l] # i
          BY <1>0, <1>8, <1>11, <3>1, <3>3 DEF TypeOK
        <4>2. task'[timer'[l]] = task[timer[l]]
          BY <1>10, <4>1
        <4>3. /\ task[timer[l]].timer = l /\ ~task[timer[l]].cancelled
              /\ timer[l] \in Pending
          BY <1>0, <2>2, <3>1, <3>3, <4>1 DEF Tasks
        <4> QED BY <2>1, <2>2, <3>3, <4>1, <4>2, <4>3
      <3> QED BY <3>2, <3>3
    <2>9. timer'["election"] # 0
      BY <1>0, <1>4, <1>8, <1>11 DEF Tasks, Timer
    <2>10. calling' # 0 <=> (~Idle("executor") /\ ~IsUnlock(First("executor"), Sched))'
      BY <1>0, <1>4, <1>5, <1>7 DEF Tasks
    <2>11. (AtNet("run_after") /\ First("network").arg = "heartbeat" => timer["heartbeat"] = 0)'
      BY <1>4
    <2> QED BY <2>1, <2>7, <2>8, <2>9, <2>10, <2>11 DEF Tasks
  <1>15. Pauses'
    BY <1>0, <1>1, <1>4, <1>5, <1>7, <1>8, <1>10, <1>11 DEF Pauses, Tasks, TypeOK, Timer
  <1>16. Roles'
    <2>1. Inside(t) /\ Inside(t)'
      BY <1>1, <1>4 DEF Inside
    <2>2. CASE k = "election"
      <3>2. (On("election")' <=> On("election")) /\ (On("heartbeat")' <=> On("heartbeat"))
        BY <1>0, <1>7, <1>8, <1>11, <2>2 DEF On, Tasks, Timer
      <3>3. Needs(a) => Needs(First(t))'
        BY <1>1, <1>4, <1>7, <2>2, <3>2 DEF Needs, Settled, TimersFit, TallyFits
      <3> QED BY <1>4, <1>5, <1>7, <2>1, <3>3, RolesKept
    <2>3. CASE k = "heartbeat"
      <3>1. timer["heartbeat"] = 0 /\ asked["heartbeat"] = "resume"
        BY <1>0, <1>1, <1>4, <2>3 DEF Tasks, Pauses, Timer
      <3>2. On("heartbeat")' /\ (On("election")' <=> On("election"))
        BY <1>7, <1>8, <1>11, <2>3, <3>1 DEF On, Timer
      <3>3. Needs(a) => Needs(First(t))'
        BY <1>1, <1>4, <1>7, <2>3, <3>2 DEF Needs, Settled, TimersFit, TallyFits
      <3> QED BY <1>4, <1>5, <1>7, <2>1, <3>3, RolesKept
    <2> QED BY <1>4, <2>2, <2>3
  <1> QED BY <1>3, <1>12, <1>13, <1>14, <1>15, <1>16 DEF FsmInv

\* The Task that was called is in the queue again.
LEMMA RenewKeeps ==
    ASSUME FsmInv, NEW t \in Thread, Renew(t)
    PROVE  FsmInv'
  <1> DEFINE a == First(t)
             b == First(t)'
  <1>0. TypeOK /\ Shapes /\ Locks /\ Tasks /\ Pauses /\ Roles
    BY DEF FsmInv
  <1>1. ~Idle(t) /\ a.name = "renew" /\ Done(t) /\ OpOf(t, a)
    BY <1>0, FirstIsHead DEF Renew, Next_op
  <1>2. Shapes' /\ Ahead(t)
    BY <1>0, <1>1, DoneAhead
  <1>3. t = "executor" /\ ~Idle(t)' /\ IsUnlock(b, Sched)
    BY <1>1, <1>2 DEF OpOf, UserOp, HandlerOp, NetworkOp, Ahead, Follows, Final
  <1>4. \A u \in Thread : u # t => todo'[u] = todo[u]
    BY <1>2 DEF Ahead
  <1>5. /\ queue' = queue \cup {calling}
        /\ calling' = 0
        /\ UNCHANGED <<role, blocked, votes, task, timer, owner, was_paused, asked, meddled,
                       overlapped>>
    BY DEF Renew
  <1>6. calling # 0 /\ calling \in Task /\ 0 \notin Task
    BY <1>0, <1>1, <1>3, MaxTasksAssumption DEF Tasks, TypeOK, Task
  <1>7. Pending' = Pending
    BY <1>0, <1>5, <1>6 DEF Pending, TypeOK
  <1>8. TypeOK'
    BY <1>0, <1>2, <1>5, <1>6 DEF TypeOK, Shapes
  <1>9. Locks'
    BY <1>0, <1>1, <1>3, <1>4, <1>5 DEF Locks, Inside
  <1>10. Tasks'
    BY <1>0, <1>1, <1>3, <1>4, <1>5, <1>6, <1>7 DEF Tasks, TypeOK
  <1>11. Pauses'
    BY <1>0, <1>1, <1>3, <1>4, <1>5 DEF Pauses
  <1>12. Roles'
    <2>1. \A u \in Thread : Inside(u)' => Inside(u) /\ todo'[u] = todo[u]
      BY <1>3, <1>4 DEF Inside
    <2>2. todo'["user"] = todo["user"]
      BY <1>3, <1>4
    <2>3. \A o : Needs(o)' <=> Needs(o)
      BY <1>5 DEF Needs, Settled, TimersFit, TallyFits, On
    <2>4. Settled' <=> Settled
      BY <1>5 DEF Settled, TimersFit, TallyFits, On
    <2> QED BY <1>0, <1>5, <2>1, <2>2, <2>3, <2>4 DEF Roles
  <1> QED BY <1>2, <1>8, <1>9, <1>10, <1>11, <1>12 DEF FsmInv

-----------------------------------------------------------------------------
(* The operations that branch. *)

\* The branch stands where the operation stood.
LEMMA ThenAhead ==
    ASSUME Shapes, NEW t \in Thread, ~Idle(t), NEW ops, Then(t, ops), Chain(t, ops),
           \A x : Follows(t, First(t), x) => Follows(t, ops[Len(ops)], x),
           Final(t, First(t)) => Final(t, ops[Len(ops)])
    PROVE  /\ Shapes' /\ ~Idle(t)' /\ First(t)' = ops[1]
           /\ \A u \in Thread : u # t => todo'[u] = todo[u]
  <1> DEFINE x == Tail(todo[t])
  <1>1. todo[t] \in Seq(OpSet) /\ todo[t] # <<>> /\ Linked(t, todo[t])
    BY DEF Shapes
  <1>2. /\ x \in Seq(OpSet) /\ Linked(t, x)
        /\ x = <<>> => Final(t, First(t))
        /\ x # <<>> => Follows(t, First(t), x[1])
    BY <1>1, TailLinked
  <1>3. Joins(t, ops[Len(ops)], x)
    BY <1>2 DEF Joins
  <1> HIDE DEF x
  <1>4. /\ ops \o x \in Seq(OpSet) /\ ops \o x # <<>> /\ Linked(t, ops \o x)
        /\ (ops \o x)[1] = ops[1]
    BY <1>2, <1>3, ChainLinked
  <1>5. /\ todo' = [todo EXCEPT ![t] = ops \o x]
        /\ \A u \in Thread : u # t => todo'[u] = todo[u]
        /\ todo'[t] = ops \o x
    BY DEF Shapes, Then, x
  <1>6. todo' \in [Thread -> Seq(OpSet)]
    BY <1>4, <1>5 DEF Shapes
  <1>7. \A u \in Thread : Linked(u, todo'[u])
    BY <1>4, <1>5 DEF Shapes
  <1> QED BY <1>4, <1>5, <1>6, <1>7 DEF Shapes

\* An empty branch.
LEMMA ThenNothing ==
    ASSUME Shapes, NEW t \in Thread, ~Idle(t), Then(t, <<>>)
    PROVE  Done(t)
  <1>1. todo[t] \in Seq(OpSet) /\ todo[t] # <<>>
    BY DEF Shapes
  <1>2. Tail(todo[t]) \in Seq(OpSet)
    BY <1>1
  <1>3. <<>> \o Tail(todo[t]) = Tail(todo[t])
    BY <1>2, ConcatEmptySeq
  <1> QED BY <1>3 DEF Then, Done

\* Operations are operations.
LEMMA OpTypes ==
    ASSUME NEW n \in OpName, NEW v \in OpArg
    PROVE  Op(n, v) \in OpSet /\ Op(n, v).name = n /\ Op(n, v).arg = v
  BY DEF Op, OpSet

\* A chain from one operation to another.
Path(t, ops, a, z) == Chain(t, ops) /\ ops[1] = a /\ ops[Len(ops)] = z

\* Chains of one, two, three and four operations.
LEMMA Path1 ==
    ASSUME NEW t, NEW o \in OpSet, OpOf(t, o)
    PROVE  Path(t, <<o>>, o, o)
  BY DEF Chain, Path

LEMMA Path2 ==
    ASSUME NEW t, NEW o \in OpSet, NEW p \in OpSet, OpOf(t, o), OpOf(t, p), Follows(t, o, p)
    PROVE  Path(t, <<o, p>>, o, p)
  <1> DEFINE s == <<o, p>>
  <1>1. s \in Seq(OpSet) /\ s # <<>> /\ Len(s) = 2 /\ s[1] = o /\ s[2] = p
    OBVIOUS
  <1> HIDE DEF s
  <1>2. \A i \in 1..2 : i = 1 \/ i = 2
    OBVIOUS
  <1>3. Chain(t, s)
    BY <1>1, <1>2 DEF Chain
  <1> QED BY <1>1, <1>3 DEF s, Path

LEMMA Path3 ==
    ASSUME NEW t, NEW o \in OpSet, NEW p \in OpSet, NEW q \in OpSet,
           OpOf(t, o), OpOf(t, p), OpOf(t, q), Follows(t, o, p), Follows(t, p, q)
    PROVE  Path(t, <<o, p, q>>, o, q)
  <1> DEFINE s == <<o, p, q>>
  <1>1. s \in Seq(OpSet) /\ s # <<>> /\ Len(s) = 3 /\ s[1] = o /\ s[2] = p /\ s[3] = q
    OBVIOUS
  <1> HIDE DEF s
  <1>2. \A i \in 1..3 : i = 1 \/ i = 2 \/ i = 3
    OBVIOUS
  <1>3. Chain(t, s)
    BY <1>1, <1>2 DEF Chain
  <1> QED BY <1>1, <1>3 DEF s, Path

LEMMA Path4 ==
    ASSUME NEW t, NEW o \in OpSet, NEW p \in OpSet, NEW q \in OpSet, NEW r \in OpSet,
           OpOf(t, o), OpOf(t, p), OpOf(t, q), OpOf(t, r),
           Follows(t, o, p), Follows(t, p, q), Follows(t, q, r)
    PROVE  Path(t, <<o, p, q, r>>, o, r)
  <1> DEFINE s == <<o, p, q, r>>
  <1>1. /\ s \in Seq(OpSet) /\ s # <<>> /\ Len(s) = 4
        /\ s[1] = o /\ s[2] = p /\ s[3] = q /\ s[4] = r
    OBVIOUS
  <1> HIDE DEF s
  <1>2. \A i \in 1..4 : i = 1 \/ i = 2 \/ i = 3 \/ i = 4
    OBVIOUS
  <1>3. Chain(t, s)
    BY <1>1, <1>2 DEF Chain
  <1> QED BY <1>1, <1>3 DEF s, Path

\* Two chains, one after the other.
LEMMA PathConcat ==
    ASSUME NEW t, NEW r, NEW s, NEW a, NEW b, NEW y, NEW z, Path(t, r, a, y),
           Path(t, s, b, z), Follows(t, y, b)
    PROVE  Path(t, r \o s, a, z)
  <1> DEFINE x == r \o s
  <1>1. /\ r \in Seq(OpSet) /\ Len(r) \in Nat \ {0} /\ s \in Seq(OpSet) /\ Len(s) \in Nat \ {0}
        /\ r[1] = a /\ r[Len(r)] = y /\ s[1] = b /\ s[Len(s)] = z
    BY EmptySeq DEF Path, Chain
  <1>a. Len(r) \in Nat \ {0} /\ Len(s) \in Nat \ {0}
    BY <1>1
  <1>2. /\ x \in Seq(OpSet) /\ Len(x) = Len(r) + Len(s)
        /\ \A i \in 1..(Len(r) + Len(s)) : x[i] = IF i <= Len(r) THEN r[i] ELSE s[i - Len(r)]
    BY <1>1, ConcatProperties
  <1>3. /\ \A i \in 1..Len(r) : OpOf(t, r[i]) /\ (i # Len(r) => Follows(t, r[i], r[i + 1]))
        /\ \A i \in 1..Len(s) : OpOf(t, s[i]) /\ (i # Len(s) => Follows(t, s[i], s[i + 1]))
    BY DEF Path, Chain
  <1> HIDE DEF x
  <1>4. ASSUME NEW i \in 1..Len(x)
        PROVE  OpOf(t, x[i]) /\ (i # Len(x) => Follows(t, x[i], x[i + 1]))
    <2>1. CASE i < Len(r)
      <3>1. i \in 1..Len(r) /\ i # Len(r) /\ x[i] = r[i] /\ x[i + 1] = r[i + 1]
        BY <1>1, <1>2, <2>1
      <3> QED BY <1>3, <3>1
    <2>2. CASE i = Len(r)
      <3>1. /\ i \in 1..Len(r) /\ i \in 1..(Len(r) + Len(s)) /\ i <= Len(r)
            /\ i + 1 \in 1..(Len(r) + Len(s)) /\ ~(i + 1 <= Len(r)) /\ i + 1 - Len(r) = 1
        BY <1>a, <2>2
      <3>2. x[i] = r[i] /\ x[i + 1] = s[1]
        BY <1>2, <3>1
      <3> QED BY <1>1, <1>3, <2>2, <3>1, <3>2
    <2>3. CASE i > Len(r)
      <3>a. /\ i \in 1..(Len(r) + Len(s)) /\ ~(i <= Len(r)) /\ i - Len(r) \in 1..Len(s)
            /\ i # Len(x) => i - Len(r) # Len(s)
        BY <1>a, <1>2, <2>3
      <3>1. /\ i - Len(r) \in 1..Len(s) /\ x[i] = s[i - Len(r)]
            /\ i # Len(x) => i - Len(r) # Len(s)
        BY <1>2, <3>a
      <3>2. i # Len(x) => x[i + 1] = s[(i - Len(r)) + 1]
        <4>1. \A m, n \in Nat : \A j \in 1..(m + n) :
                 j # m + n /\ j > m => /\ j + 1 \in 1..(m + n) /\ ~(j + 1 <= m)
                                       /\ (j + 1) - m = (j - m) + 1
          OBVIOUS
        <4>2. i # Len(x) => /\ i + 1 \in 1..(Len(r) + Len(s)) /\ ~(i + 1 <= Len(r))
                            /\ (i + 1) - Len(r) = (i - Len(r)) + 1
          BY <1>1, <1>2, <2>3, <4>1
        <4> QED BY <1>2, <4>2
      <3> QED BY <1>3, <3>1, <3>2
    <2> QED BY <1>1, <1>2, <2>1, <2>2, <2>3
  <1>5. x # <<>> /\ x[1] = a /\ x[Len(x)] = z
    BY <1>1, <1>2, EmptySeq
  <1>6. Chain(t, x)
    BY <1>2, <1>4, <1>5 DEF Chain
  <1> QED BY <1>5, <1>6 DEF Path, x

\* The operations that only branch, under handler_mtx_ or in a call.
Branching == {"higher_term", "convert_to_follower", "event", "clear_prev_state",
              "test_majority", "start_new_election", "start_heartbeat"}

\* All of the state but todo.
Unchanged ==
    UNCHANGED <<role, blocked, votes, task, queue, calling, timer, owner, was_paused, asked,
                meddled, overlapped>>

\* A branch that starts with o.
LEMMA BranchPath ==
    ASSUME FsmInv, NEW t \in Thread, ~Idle(t), First(t).name \in Branching, Unchanged,
           NEW ops, NEW o, NEW z, Then(t, ops), Path(t, ops, o, z),
           \A x : Follows(t, First(t), x) => Follows(t, z, x),
           o.name \notin {"handle", "renew", "read_paused", "carry_over", "unlock"},
           ~IsLock(o, H),
           o.name = "run_after" => o.arg = "heartbeat" /\ timer["heartbeat"] = 0,
           Needs(First(t)) => Needs(o)
    PROVE  FsmInv'
  <1>0. Shapes /\ TypeOK
    BY DEF FsmInv
  <1>1. ~Final(t, First(t))
    BY DEF Branching, Final
  <1>2. Chain(t, ops) /\ ops[1] = o /\ ops[Len(ops)] = z
    BY DEF Path
  <1>3. /\ Shapes' /\ ~Idle(t)' /\ First(t)' = o
        /\ \A u \in Thread : u # t => todo'[u] = todo[u]
    BY <1>0, <1>1, <1>2, ThenAhead
  <1>4. Inside(t) /\ Inside(t)'
    BY <1>3 DEF Inside, Branching
  <1>5. Local(t)
    BY <1>0, <1>3, <1>4 DEF Local, Unchanged, TypeOK
  <1>6. Needs(First(t)) => Needs(First(t))'
    BY <1>3 DEF Needs, Settled, TimersFit, TallyFits, On, Unchanged
  <1> QED BY <1>3, <1>4, <1>5, <1>6, LocalKeeps DEF Branching, LocalOp

\* A branch without operations.
LEMMA BranchEmpty ==
    ASSUME FsmInv, NEW t \in Thread, ~Idle(t), First(t).name \in Branching, Unchanged,
           Then(t, <<>>),
           First(t).name \notin {"start_heartbeat", "higher_term"},
           First(t).name \in {"convert_to_follower", "clear_prev_state"} => role = "follower"
    PROVE  FsmInv'
  <1> DEFINE a == First(t)
             b == First(t)'
  <1>0. Shapes /\ TypeOK
    BY DEF FsmInv
  <1>1. Done(t) /\ OpOf(t, a)
    BY <1>0, ThenNothing, FirstIsHead
  <1>2. Shapes' /\ Ahead(t)
    BY <1>0, <1>1, DoneAhead
  <1>3. ~Idle(t)'
    BY <1>2 DEF Ahead, Final, Branching
  <1>4. /\ a.name = "convert_to_follower" => b.name \in {"event", "pause"} \/ IsUnlock(b, H)
        /\ a.name = "clear_prev_state" =>
             /\ a.arg \in {"follower", "candidate", "leader"}
             /\ IF a.arg = "follower" THEN Is(b, "set_role", "follower")
                ELSE Is(b, "inc_term", a.arg)
        /\ a.name \in {"event", "test_majority", "start_new_election"} => IsUnlock(b, H)
    BY <1>1, <1>2, <1>3
       DEF Ahead, Follows, AfterFollower, OpOf, UserOp, HandlerOp, NetworkOp
  <1>5. Inside(t) /\ Inside(t)'
    BY <1>3, <1>4 DEF Inside, Branching
  <1>6. Local(t)
    BY <1>0, <1>2, <1>3, <1>4, <1>5 DEF Local, Unchanged, TypeOK, Ahead, Branching
  <1>7. Needs(First(t)) => Needs(First(t))'
    <2>1. SUFFICES ASSUME Needs(a) PROVE Needs(First(t))'
      OBVIOUS
    <2>2. CASE a.name = "clear_prev_state"
      <3>1. /\ a.arg = "candidate" /\ role = "follower" /\ ~On("heartbeat") /\ votes = "none"
            /\ Is(b, "inc_term", "candidate")
        BY <1>4, <2>1, <2>2 DEF Needs, TimersFit
      <3> QED BY <3>1 DEF Needs, On, Unchanged
    <2>3. CASE a.name # "clear_prev_state"
      <3>1. Settled
        BY <2>1, <2>3 DEF Needs, Settled, TallyFits, Branching
      <3>2. Settled'
        BY <3>1 DEF Settled, TimersFit, TallyFits, On, Unchanged
      <3>3. b.name \in {"event", "pause", "unlock"} /\ (b.name = "pause" => role' = "follower")
        BY <1>4, <2>3 DEF Branching, Unchanged
      <3> QED BY <3>2, <3>3 DEF Needs
    <2> QED BY <2>2, <2>3
  <1> QED BY <1>3, <1>5, <1>6, <1>7, LocalKeeps DEF Branching, LocalOp

\* convert_to_follower(), in a handler and in a call.
LEMMA ConvertBranches ==
    ASSUME FsmInv, NEW t \in Thread, ~Idle(t), First(t).name = "convert_to_follower", Unchanged,
           Then(t, convert_to_follower(role))
    PROVE  FsmInv'
  <1> DEFINE a == First(t)
             o == Op("clear_prev_state", "follower")
             p == Op("set_role", "follower")
             q == Op("start_election_timeout", "follower")
  <1>1. CASE role = "follower"
    BY <1>1, BranchEmpty DEF convert_to_follower, Branching
  <1>2. CASE role # "follower"
    <2>1. /\ o \in OpSet /\ Is(o, "clear_prev_state", "follower")
          /\ p \in OpSet /\ Is(p, "set_role", "follower")
          /\ q \in OpSet /\ Is(q, "start_election_timeout", "follower")
      BY OpTypes DEF OpName, OpArg
    <2>2. Then(t, <<o, p>> \o <<q>>)
      BY <1>2 DEF convert_to_follower, init_follower_state
    <2> HIDE DEF o, p, q
    <2>3. /\ OpOf(t, o) /\ OpOf(t, p) /\ OpOf(t, q) /\ Follows(t, o, p) /\ Follows(t, p, q)
          /\ \A x : Follows(t, a, x) => Follows(t, q, x)
      BY <2>1 DEF OpOf, UserOp, HandlerOp, Follows
    <2>4. Path(t, <<o, p>> \o <<q>>, o, q)
      BY <2>1, <2>3, Path1, Path2, PathConcat
    <2>5. Needs(a) => Needs(o)
      BY <1>2, <2>1 DEF Needs
    <2> QED BY <2>1, <2>2, <2>3, <2>4, <2>5, BranchPath DEF Branching
  <1> QED BY <1>1, <1>2

\* clear_prev_state(): what there is to stop depends on the role.
LEMMA ClearBranches ==
    ASSUME FsmInv, NEW t \in Thread, ~Idle(t), First(t).name = "clear_prev_state", Unchanged,
           Then(t, clear_prev_state(role))
    PROVE  FsmInv'
  <1> DEFINE a == First(t)
             o == Op("stop", "election")
             p == Op("clear_votes", 0)
             q == Op("stop", "heartbeat")
  <1>0. Shapes /\ TypeOK
    BY DEF FsmInv
  <1>a. OpOf(t, a)
    BY <1>0, FirstIsHead
  <1>1. CASE role = "follower"
    BY <1>1, BranchEmpty DEF clear_prev_state, Branching
  <1>2. /\ o \in OpSet /\ Is(o, "stop", "election") /\ p \in OpSet /\ p.name = "clear_votes"
        /\ q \in OpSet /\ Is(q, "stop", "heartbeat")
    <2>1. /\ "stop" \in OpName /\ "clear_votes" \in OpName
          /\ "election" \in OpArg /\ "heartbeat" \in OpArg /\ 0 \in OpArg
      BY DEF OpName, OpArg, Lock, Timer
    <2> QED BY <2>1, OpTypes
  <1>b. (role = "candidate" => Then(t, <<o, p>>)) /\ (role = "leader" => Then(t, <<q>>))
    BY DEF clear_prev_state, clear_candidate_state
  <1> HIDE DEF o, p, q
  <1>3. /\ OpOf(t, o) /\ OpOf(t, p) /\ OpOf(t, q) /\ Follows(t, o, p)
        /\ \A x : Follows(t, a, x) => Follows(t, p, x) /\ Follows(t, q, x)
    BY <1>2, <1>a DEF OpOf, UserOp, HandlerOp, NetworkOp, Follows, AfterClearing, Timer
  <1>4. CASE role = "candidate"
    <2>1. Path(t, <<o, p>>, o, p)
      BY <1>2, <1>3, Path2
    <2>2. Needs(a) => Needs(o)
      BY <1>2, <1>4 DEF Needs, TimersFit
    <2> QED BY <1>2, <1>3, <1>4, <1>b, <2>1, <2>2, BranchPath DEF Branching
  <1>5. CASE role = "leader"
    <2>1. Path(t, <<q>>, q, q)
      BY <1>2, <1>3, Path1
    <2>2. Needs(a) => Needs(q)
      BY <1>2, <1>5 DEF Needs, TimersFit
    <2> QED BY <1>2, <1>3, <1>5, <1>b, <2>1, <2>2, BranchPath DEF Branching
  <1> QED BY <1>0, <1>1, <1>4, <1>5 DEF TypeOK

\* A candidate stands again.
LEMMA ElectionBranches ==
    ASSUME FsmInv, NEW t \in Thread, ~Idle(t), First(t).name = "start_new_election", Unchanged,
           Then(t, start_new_election(role))
    PROVE  FsmInv'
  <1> DEFINE a == First(t)
             o == Op("inc_term", "new_election")
             p == Op("stop", "election")
             q == Op("clear_votes", 0)
             r == Op("start_election_timeout", "candidate")
             s == Op("count_vote", 0)
  <1>0. Shapes
    BY DEF FsmInv
  <1>1. CASE role # "candidate"
    BY <1>1, BranchEmpty DEF start_new_election, Branching
  <1>2. CASE role = "candidate"
    <2>1. /\ o \in OpSet /\ Is(o, "inc_term", "new_election")
          /\ p \in OpSet /\ Is(p, "stop", "election") /\ q \in OpSet /\ q.name = "clear_votes"
          /\ r \in OpSet /\ Is(r, "start_election_timeout", "candidate")
          /\ s \in OpSet /\ s.name = "count_vote"
      <3>1. /\ "inc_term" \in OpName /\ "stop" \in OpName /\ "clear_votes" \in OpName
            /\ "start_election_timeout" \in OpName /\ "count_vote" \in OpName
            /\ "new_election" \in OpArg /\ "election" \in OpArg /\ "candidate" \in OpArg
            /\ 0 \in OpArg
        BY DEF OpName, OpArg, Lock, Timer
      <3> QED BY <3>1, OpTypes
    <2>2. Then(t, (<<o>> \o <<p, q>>) \o <<r, s>>)
      BY <1>2 DEF start_new_election, clear_candidate_state, init_candidate_state
    <2> HIDE DEF o, p, q, r, s
    <2>3. OpOf(t, a)
      BY <1>0, FirstIsHead
    <2>4. /\ OpOf(t, o) /\ OpOf(t, p) /\ OpOf(t, q) /\ OpOf(t, r) /\ OpOf(t, s)
          /\ Follows(t, o, p) /\ Follows(t, p, q) /\ Follows(t, q, r) /\ Follows(t, r, s)
          /\ \A x : Follows(t, a, x) => Follows(t, s, x)
      BY <2>1, <2>3 DEF OpOf, UserOp, HandlerOp, NetworkOp, Follows, AfterClearing, Timer
    <2>5. Path(t, <<o>>, o, o) /\ Path(t, <<p, q>>, p, q) /\ Path(t, <<r, s>>, r, s)
      BY <2>1, <2>4, Path1, Path2
    <2>6. Path(t, (<<o>> \o <<p, q>>) \o <<r, s>>, o, s)
      BY <2>4, <2>5, PathConcat
    <2>7. Needs(a) => Needs(o)
      BY <1>2, <2>1 DEF Needs
    <2> QED BY <2>1, <2>2, <2>4, <2>6, <2>7, BranchPath DEF Branching
  <1> QED BY <1>1, <1>2

\* The test for the majority, with which a candidate becomes leader.
LEMMA MajorityBranches ==
    ASSUME FsmInv, NEW t \in Thread, ~Idle(t), First(t).name = "test_majority", Unchanged,
           Then(t, <<>>) \/ Then(t, convert_to_leader)
    PROVE  FsmInv'
  <1> DEFINE a == First(t)
             o == Op("clear_prev_state", "leader")
             p == Op("inc_term", "leader")
             q == Op("set_role", "leader")
             r == Op("start_heartbeat", 0)
  <1>0. Shapes
    BY DEF FsmInv
  <1>1. CASE Then(t, <<>>)
    BY <1>1, BranchEmpty DEF Branching
  <1>2. CASE Then(t, convert_to_leader)
    <2>1. /\ o \in OpSet /\ Is(o, "clear_prev_state", "leader")
          /\ p \in OpSet /\ Is(p, "inc_term", "leader")
          /\ q \in OpSet /\ Is(q, "set_role", "leader")
          /\ r \in OpSet /\ r.name = "start_heartbeat"
      BY OpTypes DEF OpName, OpArg
    <2>2. Then(t, <<o, p, q, r>>)
      BY <1>2 DEF convert_to_leader
    <2> HIDE DEF o, p, q, r
    <2>3. OpOf(t, a)
      BY <1>0, FirstIsHead
    <2>4. /\ OpOf(t, o) /\ OpOf(t, p) /\ OpOf(t, q) /\ OpOf(t, r)
          /\ Follows(t, o, p) /\ Follows(t, p, q) /\ Follows(t, q, r)
          /\ \A x : Follows(t, a, x) => Follows(t, r, x)
      BY <2>1, <2>3 DEF OpOf, UserOp, HandlerOp, NetworkOp, Follows
    <2>5. Path(t, <<o, p, q, r>>, o, r)
      BY <2>1, <2>4, Path4
    <2>6. Needs(a) => Needs(o)
      BY <2>1 DEF Needs, Settled
    <2> QED BY <2>1, <2>2, <2>4, <2>5, <2>6, BranchPath DEF Branching
  <1> QED BY <1>1, <1>2

\* The end of convert_to_leader(): the heartbeat is started or resumed.
LEMMA HeartbeatBranches ==
    ASSUME FsmInv, NEW t \in Thread, ~Idle(t), First(t).name = "start_heartbeat", Unchanged,
           Then(t, <<Op(IF timer["heartbeat"] = 0 THEN "run_after" ELSE "resume", "heartbeat")>>)
    PROVE  FsmInv'
  <1> DEFINE a == First(t)
             o == Op(IF timer["heartbeat"] = 0 THEN "run_after" ELSE "resume", "heartbeat")
  <1>0. Shapes
    BY DEF FsmInv
  <1>1. /\ o \in OpSet /\ o.arg = "heartbeat"
        /\ o.name = IF timer["heartbeat"] = 0 THEN "run_after" ELSE "resume"
    BY OpTypes DEF OpName, OpArg, Lock, Timer
  <1> HIDE DEF o
  <1>2. OpOf(t, a)
    BY <1>0, FirstIsHead
  <1>3. OpOf(t, o) /\ \A x : Follows(t, a, x) => Follows(t, o, x)
    BY <1>1, <1>2 DEF OpOf, UserOp, HandlerOp, NetworkOp, Follows, Timer
  <1>4. Path(t, <<o>>, o, o)
    BY <1>1, <1>3, Path1
  <1>5. Needs(a) => Needs(o)
    BY <1>1 DEF Needs
  <1>6. Then(t, <<o>>)
    BY DEF o
  <1> QED BY <1>1, <1>3, <1>4, <1>5, <1>6, BranchPath DEF Branching

\* The test for a higher term, with which a server becomes a follower.
LEMMA HigherTermBranches ==
    ASSUME FsmInv, NEW t \in Thread, ~Idle(t), First(t).name = "higher_term", Unchanged,
           \/ Then(t, <<Op("event", First(t).arg)>>)
           \/ /\ First(t).arg # "election_timeout"
              /\ Then(t, <<Op("adopt_term", 0), Op("convert_to_follower", 0),
                           Op("event", First(t).arg)>>)
    PROVE  FsmInv'
  <1> DEFINE a == First(t)
             o == Op("adopt_term", 0)
             p == Op("convert_to_follower", 0)
             q == Op("event", First(t).arg)
  <1>0. Shapes
    BY DEF FsmInv
  <1>1. OpOf(t, a)
    BY <1>0, FirstIsHead
  <1>2. t # "user" /\ a.arg \in EventOf(t)
    BY <1>1 DEF OpOf, UserOp, HandlerOp, NetworkOp
  <1>3. a.arg \in OpArg /\ (a.arg # "election_timeout" => t = "network")
    BY <1>2 DEF EventOf, OpArg
  <1>4. /\ o \in OpSet /\ o.name = "adopt_term" /\ p \in OpSet /\ p.name = "convert_to_follower"
        /\ q \in OpSet /\ Is(q, "event", a.arg)
    BY <1>3, OpTypes DEF OpName, OpArg
  <1> HIDE DEF o, p, q
  <1>5. OpOf(t, q) /\ \A x : Follows(t, a, x) => Follows(t, q, x)
    BY <1>2, <1>4 DEF OpOf, HandlerOp, Follows
  <1>6. CASE Then(t, <<q>>)
    <2>1. Path(t, <<q>>, q, q)
      BY <1>4, <1>5, Path1
    <2>2. Needs(a) => Needs(q)
      BY <1>4 DEF Needs
    <2> QED BY <1>4, <1>5, <1>6, <2>1, <2>2, BranchPath DEF Branching
  <1>7. CASE a.arg # "election_timeout" /\ Then(t, <<o, p, q>>)
    <2>1. OpOf(t, o) /\ OpOf(t, p) /\ Follows(t, o, p) /\ Follows(t, p, q)
      BY <1>3, <1>4, <1>7 DEF OpOf, NetworkOp, Follows, AfterFollower
    <2>2. Path(t, <<o, p, q>>, o, q)
      BY <1>4, <1>5, <2>1, Path3
    <2>3. Needs(a) => Needs(o)
      BY <1>4 DEF Needs
    <2> QED BY <1>4, <1>5, <1>7, <2>2, <2>3, BranchPath DEF Branching
  <1> QED BY <1>6, <1>7 DEF o, p, q

\* The operations of reset().
LEMMA PathReset ==
    Path("network", reset("election"), Op("lock", "election"), Op("unlock", "election"))
  <1> DEFINE s == reset("election")
             o == Op("lock", "election")
             p == Op("read_paused", "election")
             q == Op("run_after", "election")
             r == Op("carry_over", "election")
             z == Op("unlock", "election")
  <1>1. /\ o \in OpSet /\ Is(o, "lock", "election") /\ p \in OpSet /\ Is(p, "read_paused", "election")
        /\ q \in OpSet /\ Is(q, "run_after", "election")
        /\ r \in OpSet /\ Is(r, "carry_over", "election")
        /\ z \in OpSet /\ Is(z, "unlock", "election")
    <2>1. /\ "lock" \in OpName /\ "read_paused" \in OpName /\ "run_after" \in OpName
          /\ "carry_over" \in OpName /\ "unlock" \in OpName /\ "election" \in OpArg
      BY DEF OpName, OpArg, Lock, Timer
    <2> QED BY <2>1, OpTypes
  <1>2. s = <<o, p, q, r, z>>
    BY DEF reset
  <1> HIDE DEF s, o, p, q, r, z
  <1>3. /\ s \in Seq(OpSet) /\ s # <<>> /\ Len(s) = 5
        /\ s[1] = o /\ s[2] = p /\ s[3] = q /\ s[4] = r /\ s[5] = z
    BY <1>1, <1>2
  <1>4. /\ OpOf("network", o) /\ OpOf("network", p) /\ OpOf("network", q)
        /\ OpOf("network", r) /\ OpOf("network", z)
        /\ Follows("network", o, p) /\ Follows("network", p, q) /\ Follows("network", q, r)
        /\ Follows("network", r, z)
    BY <1>1 DEF OpOf, NetworkOp, Follows, Timer
  <1>5. \A i \in 1..5 : i = 1 \/ i = 2 \/ i = 3 \/ i = 4 \/ i = 5
    OBVIOUS
  <1>6. Chain("network", s)
    BY <1>3, <1>4, <1>5 DEF Chain
  <1> QED BY <1>3, <1>6 DEF Path, s, o, z

\* The handlers.
LEMMA EventBranches ==
    ASSUME FsmInv, NEW t \in Thread, ~Idle(t), First(t).name = "event", Unchanged,
           Then(t, handler(First(t).arg, role))
    PROVE  FsmInv'
  <1> DEFINE a == First(t)
             e == First(t).arg
             ops == handler(e, role)
  <1>0. Shapes
    BY DEF FsmInv
  <1>1. OpOf(t, a)
    BY <1>0, FirstIsHead
  <1>2. t # "user" /\ e \in EventOf(t)
    BY <1>1 DEF OpOf, UserOp, HandlerOp, NetworkOp
  <1>3. \A x : Follows(t, a, x) => IsUnlock(x, H)
    BY DEF Follows
  <1>4. CASE ops = <<>>
    BY <1>4, BranchEmpty DEF Branching
  <1>5. CASE ops = convert_to_candidate /\ role = "follower"
    <2> DEFINE o == Op("clear_prev_state", "candidate")
               p == Op("inc_term", "candidate")
               q == Op("set_role", "candidate")
               r == Op("start_election_timeout", "candidate")
               s == Op("count_vote", 0)
    <2>1. /\ o \in OpSet /\ Is(o, "clear_prev_state", "candidate")
          /\ p \in OpSet /\ Is(p, "inc_term", "candidate")
          /\ q \in OpSet /\ Is(q, "set_role", "candidate")
          /\ r \in OpSet /\ Is(r, "start_election_timeout", "candidate")
          /\ s \in OpSet /\ s.name = "count_vote"
      <3>1. /\ "clear_prev_state" \in OpName /\ "inc_term" \in OpName /\ "set_role" \in OpName
            /\ "start_election_timeout" \in OpName /\ "count_vote" \in OpName
            /\ "candidate" \in OpArg /\ 0 \in OpArg
        BY DEF OpName, OpArg
      <3> QED BY <3>1, OpTypes
    <2>2. Then(t, <<o, p, q>> \o <<r, s>>)
      BY <1>5 DEF convert_to_candidate, init_candidate_state
    <2> HIDE DEF o, p, q, r, s
    <2>3. /\ OpOf(t, o) /\ OpOf(t, p) /\ OpOf(t, q) /\ OpOf(t, r) /\ OpOf(t, s)
          /\ Follows(t, o, p) /\ Follows(t, p, q) /\ Follows(t, q, r) /\ Follows(t, r, s)
          /\ \A x : Follows(t, a, x) => Follows(t, s, x)
      BY <1>2, <1>3, <2>1 DEF OpOf, HandlerOp, Follows
    <2>4. Path(t, <<o, p, q>>, o, q) /\ Path(t, <<r, s>>, r, s)
      BY <2>1, <2>3, Path2, Path3
    <2>5. Path(t, <<o, p, q>> \o <<r, s>>, o, s)
      BY <2>3, <2>4, PathConcat
    <2>6. Needs(a) => Needs(o)
      BY <1>5, <2>1 DEF Needs, Settled, TallyFits
    <2> QED BY <2>1, <2>2, <2>3, <2>5, <2>6, BranchPath DEF Branching
  <1>6. CASE ops = <<Op("start_new_election", 0)>>
    <2> DEFINE o == Op("start_new_election", 0)
    <2>1. o \in OpSet /\ o.name = "start_new_election"
      BY OpTypes DEF OpName, OpArg
    <2>2. Then(t, <<o>>)
      BY <1>6
    <2> HIDE DEF o
    <2>3. OpOf(t, o) /\ \A x : Follows(t, a, x) => Follows(t, o, x)
      BY <1>2, <1>3, <2>1 DEF OpOf, HandlerOp, Follows
    <2>4. Path(t, <<o>>, o, o)
      BY <2>1, <2>3, Path1
    <2>5. Needs(a) => Needs(o)
      BY <2>1 DEF Needs
    <2> QED BY <2>1, <2>2, <2>3, <2>4, <2>5, BranchPath DEF Branching
  <1>7. CASE ops = <<Op("count_vote", 0), Op("test_majority", 0)>> /\ role = "candidate"
               /\ t = "network"
    <2> DEFINE o == Op("count_vote", 0)
               p == Op("test_majority", 0)
    <2>1. o \in OpSet /\ o.name = "count_vote" /\ p \in OpSet /\ p.name = "test_majority"
      BY OpTypes DEF OpName, OpArg
    <2>2. Then(t, <<o, p>>)
      BY <1>7
    <2> HIDE DEF o, p
    <2>3. /\ OpOf(t, o) /\ OpOf(t, p) /\ Follows(t, o, p)
          /\ \A x : Follows(t, a, x) => Follows(t, p, x)
      BY <1>2, <1>3, <1>7, <2>1 DEF OpOf, HandlerOp, NetworkOp, Follows
    <2>4. Path(t, <<o, p>>, o, p)
      BY <2>1, <2>3, Path2
    <2>5. Needs(a) => Needs(o)
      BY <1>7, <2>1 DEF Needs, Settled, TallyFits
    <2> QED BY <2>1, <2>2, <2>3, <2>4, <2>5, BranchPath DEF Branching
  <1>8. CASE ops = reset("election") /\ t = "network"
    <2> DEFINE o == Op("lock", "election")
               z == Op("unlock", "election")
    <2>1. Is(o, "lock", "election") /\ Is(z, "unlock", "election")
      BY DEF Op
    <2>2. Path(t, ops, o, z)
      BY <1>8, PathReset
    <2> HIDE DEF ops, o, z
    <2>3. \A x : Follows(t, a, x) => Follows(t, z, x)
      BY <1>3, <2>1 DEF Follows
    <2>4. Needs(a) => Needs(o)
      BY <2>1 DEF Needs
    <2>5. Then(t, ops)
      BY DEF ops
    <2> QED BY <2>1, <2>2, <2>3, <2>4, <2>5, BranchPath DEF Branching
  <1>9. CASE ops = reset("election") \o <<Op("convert_to_follower", 0)>> /\ t = "network"
    <2> DEFINE o == Op("lock", "election")
               y == Op("unlock", "election")
               z == Op("convert_to_follower", 0)
    <2>1. /\ Is(o, "lock", "election") /\ Is(y, "unlock", "election")
          /\ z \in OpSet /\ z.name = "convert_to_follower"
      <3>1. z \in OpSet /\ z.name = "convert_to_follower"
        BY OpTypes DEF OpName, OpArg
      <3> QED BY <3>1 DEF Op
    <2>2. Path(t, reset("election"), o, y) /\ ops = reset("election") \o <<z>>
      BY <1>9, PathReset
    <2> HIDE DEF ops, o, y, z
    <2>3. /\ OpOf(t, z) /\ Follows(t, y, z)
          /\ \A x : Follows(t, a, x) => Follows(t, z, x)
      BY <1>3, <1>9, <2>1 DEF OpOf, NetworkOp, Follows, AfterFollower
    <2>4. Path(t, <<z>>, z, z)
      BY <2>1, <2>3, Path1
    <2>5. Path(t, ops, o, z)
      BY <2>2, <2>3, <2>4, PathConcat
    <2>6. Needs(a) => Needs(o)
      BY <2>1 DEF Needs
    <2>7. Then(t, ops)
      BY DEF ops
    <2> QED BY <2>1, <2>3, <2>5, <2>6, <2>7, BranchPath DEF Branching
  <1>10. \/ ops = <<>>
         \/ ops = convert_to_candidate /\ role = "follower"
         \/ ops = <<Op("start_new_election", 0)>>
         \/ /\ ops = <<Op("count_vote", 0), Op("test_majority", 0)>> /\ role = "candidate"
            /\ t = "network"
         \/ ops = reset("election") /\ t = "network"
         \/ ops = reset("election") \o <<Op("convert_to_follower", 0)>> /\ t = "network"
    BY <1>2 DEF handler, EventOf
  <1> QED BY <1>4, <1>5, <1>6, <1>7, <1>8, <1>9, <1>10

\* handle() returns at once if the server is blocked, or waits for handler_mtx_.
LEMMA HandleBranches ==
    ASSUME FsmInv, NEW t \in Thread, ~Idle(t), First(t).name = "handle", Unchanged,
           Then(t, IF blocked THEN <<>>
                   ELSE <<Op("lock", "handler_mtx_"), Op("higher_term", First(t).arg),
                          Op("unlock", "handler_mtx_")>>)
    PROVE  FsmInv'
  <1> DEFINE a == First(t)
             b == First(t)'
             o == Op("lock", H)
             p == Op("higher_term", First(t).arg)
             q == Op("unlock", H)
  <1>0. Shapes /\ TypeOK
    BY DEF FsmInv
  <1>1. OpOf(t, a)
    BY <1>0, FirstIsHead
  <1>2. t # "user" /\ a.arg \in EventOf(t) /\ ~Inside(t)
    BY <1>1 DEF OpOf, UserOp, HandlerOp, NetworkOp, Inside
  <1>3. CASE blocked
    <2>1. Done(t)
      BY <1>0, <1>3, ThenNothing
    <2>2. Shapes' /\ Ahead(t)
      BY <1>0, <2>1, DoneAhead
    <2>3. IF t = "network" THEN Idle(t)' ELSE ~Idle(t)' /\ b.name = "renew"
      BY <1>2, <2>2 DEF Ahead, Follows, Final
    <2>4. Local(t)
      BY <1>0, <1>2, <2>2, <2>3 DEF Local, Ahead, Inside, Unchanged, TypeOK
    <2> QED BY <1>2, <2>4, LocalKeeps DEF LocalOp, Unchanged
  <1>4. CASE ~blocked
    <2>1. /\ o \in OpSet /\ Is(o, "lock", H) /\ p \in OpSet /\ Is(p, "higher_term", a.arg)
          /\ q \in OpSet /\ Is(q, "unlock", H)
      <3>1. /\ "lock" \in OpName /\ "higher_term" \in OpName /\ "unlock" \in OpName
            /\ H \in OpArg /\ a.arg \in OpArg
        BY <1>2 DEF OpName, OpArg, EventOf, Lock
      <3> QED BY <3>1, OpTypes
    <2>2. Then(t, <<o, p, q>>)
      BY <1>4
    <2> HIDE DEF o, p, q
    <2>3. /\ OpOf(t, o) /\ OpOf(t, p) /\ OpOf(t, q) /\ Follows(t, o, p) /\ Follows(t, p, q)
          /\ \A x : Follows(t, a, x) => Follows(t, q, x)
          /\ Final(t, a) => Final(t, q)
      BY <1>2, <2>1 DEF OpOf, HandlerOp, Follows, Final
    <2>4. Path(t, <<o, p, q>>, o, q)
      BY <2>1, <2>3, Path3
    <2>5. /\ Shapes' /\ ~Idle(t)' /\ b = o
          /\ \A u \in Thread : u # t => todo'[u] = todo[u]
      BY <1>0, <2>2, <2>3, <2>4, ThenAhead DEF Path
    <2>6. Local(t)
      BY <1>0, <1>2, <2>1, <2>5 DEF Local, Inside, Unchanged, TypeOK
    <2> QED BY <1>2, <2>6, LocalKeeps DEF LocalOp, Unchanged
  <1> QED BY <1>3, <1>4

\* Every operation that branches, on every thread.
LEMMA BranchKeeps ==
    ASSUME FsmInv, NEW t \in Thread, Branch(t)
    PROVE  FsmInv'
  <1>0. Shapes
    BY DEF FsmInv
  <1>1. ~Idle(t) /\ Unchanged
    BY DEF Branch, Next_op, Unchanged
  <1>2. (\A n : Next_op(t, n) <=> First(t).name = n) /\ Arg(t) = First(t).arg
    BY <1>0, <1>1, FirstIsHead
  <1> DEFINE n == First(t).name
             e == First(t).arg
  <1>3. \/ n = "convert_to_follower" /\ Then(t, convert_to_follower(role))
        \/ n = "clear_prev_state" /\ Then(t, clear_prev_state(role))
        \/ n = "start_new_election" /\ Then(t, start_new_election(role))
        \/ n = "test_majority" /\ (Then(t, <<>>) \/ Then(t, convert_to_leader))
        \/ n = "start_heartbeat"
             /\ Then(t, <<Op(IF timer["heartbeat"] = 0 THEN "run_after" ELSE "resume",
                             "heartbeat")>>)
        \/ n = "handle"
             /\ Then(t, IF blocked THEN <<>>
                        ELSE <<Op("lock", "handler_mtx_"), Op("higher_term", e),
                               Op("unlock", "handler_mtx_")>>)
        \/ n = "higher_term"
             /\ \/ Then(t, <<Op("event", e)>>)
                \/ /\ e # "election_timeout"
                   /\ Then(t, <<Op("adopt_term", 0), Op("convert_to_follower", 0),
                                Op("event", e)>>)
        \/ n = "event" /\ Then(t, handler(e, role))
    BY <1>2 DEF Branch
  <1> QED BY <1>1, <1>3, ConvertBranches, ClearBranches, ElectionBranches, MajorityBranches,
             HeartbeatBranches, HandleBranches, HigherTermBranches, EventBranches

-----------------------------------------------------------------------------
(* Where the threads start. *)

\* A thread that was idle starts.
LEMMA ThreadStarts ==
    ASSUME Shapes, NEW t \in Thread, NEW ops, NEW o, NEW z, Path(t, ops, o, z), Final(t, z),
           todo' = [todo EXCEPT ![t] = ops]
    PROVE  /\ Shapes' /\ ~Idle(t)' /\ First(t)' = o
           /\ \A u \in Thread : u # t => todo'[u] = todo[u]
  <1>1. ops \in Seq(OpSet) /\ ops # <<>> /\ ops[1] = o /\ Linked(t, ops)
    BY DEF Path, Chain, Linked
  <1>2. /\ todo' \in [Thread -> Seq(OpSet)]
        /\ todo'[t] = ops /\ \A u \in Thread : u # t => todo'[u] = todo[u]
    BY <1>1 DEF Shapes
  <1>3. \A u \in Thread : Linked(u, todo'[u])
    BY <1>1, <1>2 DEF Shapes
  <1> QED BY <1>1, <1>2, <1>3 DEF Shapes

\* The network thread starts to handle an event.
LEMMA ReceiveKeeps ==
    ASSUME FsmInv, Receive
    PROVE  FsmInv'
  <1>0. TypeOK /\ Shapes /\ Locks /\ Tasks /\ Pauses /\ Roles
    BY DEF FsmInv
  <1>1. PICK e \in Event : todo' = [todo EXCEPT !["network"] = <<Op("handle", e)>>]
    BY DEF Receive
  <1>2. Idle("network") /\ Unchanged
    BY DEF Receive, Unchanged
  <1> DEFINE o == Op("handle", e)
  <1>3. o \in OpSet /\ o.name = "handle" /\ o.arg = e
    <2>1. e \in OpArg
      BY DEF OpArg
    <2> QED BY <2>1, OpTypes DEF OpName
  <1>4. todo' = [todo EXCEPT !["network"] = <<o>>]
    BY <1>1
  <1> HIDE DEF o
  <1>5. OpOf("network", o) /\ Final("network", o)
    BY <1>3 DEF OpOf, HandlerOp, EventOf, Final
  <1>6. Path("network", <<o>>, o, o)
    BY <1>3, <1>5, Path1
  <1>7. /\ Shapes' /\ ~Idle("network")' /\ First("network")' = o
        /\ \A u \in Thread : u # "network" => todo'[u] = todo[u]
    BY <1>0, <1>4, <1>5, <1>6, ThreadStarts
  <1>8. TypeOK'
    BY <1>0, <1>2, <1>7 DEF TypeOK, Shapes, Unchanged
  <1>9. Locks'
    BY <1>0, <1>2, <1>3, <1>7 DEF Locks, Inside, Unchanged
  <1>10. Tasks'
    BY <1>0, <1>2, <1>3, <1>7 DEF Tasks, Pending, Unchanged
  <1>11. Pauses'
    BY <1>0, <1>2, <1>3, <1>7 DEF Pauses, Unchanged
  <1>12. Roles'
    <2>1. \A u \in Thread : Inside(u)' => Inside(u) /\ todo'[u] = todo[u]
      BY <1>3, <1>7 DEF Inside
    <2>2. \A x : Needs(x)' <=> Needs(x)
      BY <1>2 DEF Needs, Settled, TimersFit, TallyFits, On, Unchanged
    <2>3. Settled' <=> Settled
      BY <1>2 DEF Settled, TimersFit, TallyFits, On, Unchanged
    <2> QED BY <1>0, <1>2, <1>7, <2>1, <2>2, <2>3 DEF Roles, Unchanged
  <1> QED BY <1>7, <1>8, <1>9, <1>10, <1>11, <1>12 DEF FsmInv

\* What stay_follower(), block() and unblock() start with and end with.
LEMMA MethodOps ==
    ASSUME NEW m \in UserCalls
    PROVE  \E o, z : /\ Path("user", method(m), o, z) /\ Final("user", z)
                     /\ o.name \in {"convert_to_follower", "set_blocked"}
  <1> DEFINE o == Op("convert_to_follower", 0)
             p == Op("pause", "election")
             q == Op("pause", "heartbeat")
             x == Op("set_blocked", TRUE)
             y == Op("set_blocked", FALSE)
  <1>1. m \in {"stay_follower", "block", "unblock"}
    BY UserCallsAssumption
  <1>2. /\ o \in OpSet /\ o.name = "convert_to_follower"
        /\ p \in OpSet /\ Is(p, "pause", "election") /\ q \in OpSet /\ Is(q, "pause", "heartbeat")
    <2>1. /\ "convert_to_follower" \in OpName /\ "pause" \in OpName
          /\ 0 \in OpArg /\ "election" \in OpArg /\ "heartbeat" \in OpArg
      BY DEF OpName, OpArg, Lock, Timer
    <2> QED BY <2>1, OpTypes
  <1>3. /\ x \in OpSet /\ x.name = "set_blocked" /\ x.arg \in BOOLEAN
        /\ y \in OpSet /\ y.name = "set_blocked" /\ y.arg \in BOOLEAN
    <2>1. "set_blocked" \in OpName /\ TRUE \in OpArg /\ FALSE \in OpArg
      BY DEF OpName, OpArg
    <2>2. /\ x \in OpSet /\ x.name = "set_blocked" /\ x.arg = TRUE
          /\ y \in OpSet /\ y.name = "set_blocked" /\ y.arg = FALSE
      BY <2>1, OpTypes
    <2> QED BY <2>2
  <1>4. /\ m = "stay_follower" => method(m) = <<o>> \o <<p, q>>
        /\ m = "block" => method(m) = (<<o>> \o <<p, q>>) \o <<x>>
        /\ m = "unblock" => method(m) = <<y>>
    BY DEF method, pause_scheduled_tasks
  <1> HIDE DEF o, p, q, x, y
  <1>5. /\ OpOf("user", o) /\ OpOf("user", p) /\ OpOf("user", q)
        /\ Follows("user", o, p) /\ Follows("user", p, q) /\ Final("user", q)
    BY <1>2 DEF OpOf, UserOp, Follows, AfterFollower, Final, Timer
  <1>6. /\ OpOf("user", x) /\ OpOf("user", y) /\ Follows("user", q, x)
        /\ Final("user", x) /\ Final("user", y)
    BY <1>2, <1>3 DEF OpOf, UserOp, Follows, Final
  <1>7. Path("user", <<o>>, o, o) /\ Path("user", <<p, q>>, p, q)
          /\ Path("user", <<x>>, x, x) /\ Path("user", <<y>>, y, y)
    BY <1>2, <1>3, <1>5, <1>6, Path1, Path2
  <1>8. Path("user", <<o>> \o <<p, q>>, o, q)
    BY <1>5, <1>7, PathConcat
  <1>9. Path("user", (<<o>> \o <<p, q>>) \o <<x>>, o, x)
    BY <1>6, <1>7, <1>8, PathConcat
  <1>10. CASE m = "stay_follower"
    BY <1>2, <1>4, <1>5, <1>8, <1>10
  <1>11. CASE m = "block"
    BY <1>2, <1>4, <1>6, <1>9, <1>11
  <1>12. CASE m = "unblock"
    BY <1>3, <1>4, <1>6, <1>7, <1>12
  <1> QED BY <1>1, <1>10, <1>11, <1>12

\* The user thread starts to call a method.
LEMMA UserCallKeeps ==
    ASSUME FsmInv, UserCall
    PROVE  FsmInv'
  <1>0. TypeOK /\ Shapes /\ Locks /\ Tasks /\ Pauses /\ Roles
    BY DEF FsmInv
  <1>1. PICK m \in UserCalls : todo' = [todo EXCEPT !["user"] = method(m)]
    BY DEF UserCall
  <1>2. /\ Idle("user") /\ meddled' = TRUE
        /\ overlapped' = (overlapped \/ owner[H] # "none")
        /\ UNCHANGED <<role, blocked, votes, task, queue, calling, timer, owner, was_paused,
                       asked>>
    BY DEF UserCall
  <1>3. PICK o, z : /\ Path("user", method(m), o, z) /\ Final("user", z)
                    /\ o.name \in {"convert_to_follower", "set_blocked"}
    BY MethodOps
  <1>4. /\ Shapes' /\ ~Idle("user")' /\ First("user")' = o
        /\ \A u \in Thread : u # "user" => todo'[u] = todo[u]
    BY <1>0, <1>1, <1>3, ThreadStarts
  <1>5. TypeOK'
    BY <1>0, <1>2, <1>4 DEF TypeOK, Shapes
  <1>6. Locks' /\ Tasks' /\ Pauses'
    BY <1>0, <1>2, <1>4 DEF Locks, Inside, Tasks, Pending, Pauses
  <1>7. Roles'
    <2>1. SUFFICES ASSUME ~overlapped' PROVE Roles'
      BY DEF Roles
    <2>2. ~overlapped /\ owner[H] = "none" /\ Settled
      BY <1>0, <1>2, <2>1 DEF Roles, TypeOK
    <2>3. Settled' /\ (votes = "none" \/ role = "candidate")
      BY <1>2, <2>2 DEF Settled, TimersFit, TallyFits, On
    <2>4. Needs(First("user"))'
      BY <1>2, <1>3, <1>4, <2>3 DEF Needs, Settled
    <2>5. \A u \in Thread : Inside(u)' => u = "user"
      <3>1. \A u \in Worker : ~Inside(u)
        BY <1>0, <2>2 DEF Locks
      <3> QED BY <1>4, <3>1 DEF Inside
    <2> QED BY <1>2, <1>4, <2>2, <2>4, <2>5 DEF Roles
  <1> QED BY <1>4, <1>5, <1>6, <1>7 DEF FsmInv

\* What the executor does with a Task that is not cancelled.
LEMMA ExecutorOps ==
    ASSUME NEW c \in BOOLEAN
    PROVE  LET ops == (IF c THEN <<Op("handle", "election_timeout")>> ELSE <<>>)
                        \o <<Op("renew", 0), Op("unlock", "Scheduler::mtx")>>
           IN  \E o, z : /\ Path("executor", ops, o, z) /\ Final("executor", z)
                         /\ o.name \in {"handle", "renew"}
  <1> DEFINE o == Op("handle", "election_timeout")
             p == Op("renew", 0)
             q == Op("unlock", Sched)
  <1>1. /\ o \in OpSet /\ o.name = "handle" /\ o.arg = "election_timeout"
        /\ p \in OpSet /\ p.name = "renew"
        /\ q \in OpSet /\ q.name = "unlock" /\ q.arg = Sched
    <2>1. /\ "handle" \in OpName /\ "renew" \in OpName /\ "unlock" \in OpName
          /\ "election_timeout" \in OpArg /\ 0 \in OpArg /\ Sched \in OpArg
      BY DEF OpName, OpArg, Lock
    <2> QED BY <2>1, OpTypes
  <1> HIDE DEF o, p, q
  <1>2. /\ OpOf("executor", o) /\ OpOf("executor", p) /\ OpOf("executor", q)
        /\ Follows("executor", o, p) /\ Follows("executor", p, q) /\ Final("executor", q)
    BY <1>1 DEF OpOf, HandlerOp, EventOf, Follows, Final
  <1>3. Path("executor", <<o>>, o, o) /\ Path("executor", <<p, q>>, p, q)
    BY <1>1, <1>2, Path1, Path2
  <1>4. Path("executor", <<o>> \o <<p, q>>, o, q)
    BY <1>2, <1>3, PathConcat
  <1>5. <<>> \o <<p, q>> = <<p, q>>
    <2>1. <<p, q>> \in Seq(OpSet)
      BY <1>1
    <2> QED BY <2>1, ConcatEmptySeq
  <1>6. LET ops == (IF c THEN <<o>> ELSE <<>>) \o <<p, q>>
        IN  \E v, z : /\ Path("executor", ops, v, z) /\ Final("executor", z)
                      /\ v.name \in {"handle", "renew"}
    <2>1. CASE c
      BY <1>1, <1>2, <1>4, <2>1
    <2>2. CASE ~c
      BY <1>1, <1>2, <1>3, <1>5, <2>2
    <2> QED BY <2>1, <2>2
  <1> QED BY <1>6 DEF o, p, q

\* The executor drops a cancelled Task, or starts to call the Task it pops.
LEMMA ExecuteDueTaskKeeps ==
    ASSUME FsmInv, ExecuteDueTask
    PROVE  FsmInv'
  <1>0. TypeOK /\ Shapes /\ Locks /\ Tasks /\ Pauses /\ Roles
    BY DEF FsmInv
  <1>1. /\ Idle("executor") /\ owner[Sched] = "none"
        /\ UNCHANGED <<role, blocked, votes, task, timer, was_paused, asked, meddled, overlapped>>
    BY DEF ExecuteDueTask
  <1>2. calling = 0
    BY <1>0, <1>1 DEF Tasks
  <1>3. PICK i \in queue :
          /\ queue' = queue \ {i}
          /\ IF task[i].cancelled
             THEN UNCHANGED <<owner, calling, todo>>
             ELSE /\ owner' = [owner EXCEPT ![Sched] = "executor"]
                  /\ calling' = i
                  /\ todo' = [todo EXCEPT !["executor"] =
                       (IF task[i].timer = "election" /\ ~task[i].paused
                        THEN <<Op("handle", "election_timeout")>> ELSE <<>>)
                       \o <<Op("renew", 0), Op("unlock", "Scheduler::mtx")>>]
    BY DEF ExecuteDueTask
  <1>4. i \in Task /\ i # 0 /\ 0 \notin Task
    BY <1>0, MaxTasksAssumption DEF TypeOK, Task
  <1>5. CASE task[i].cancelled
    <2>1. queue' = queue \ {i} /\ UNCHANGED <<owner, calling, todo>>
      BY <1>3, <1>5
    <2>2. TypeOK' /\ Shapes'
      BY <1>0, <1>1, <2>1 DEF TypeOK, Shapes
    <2>3. Locks' /\ Pauses'
      BY <1>0, <1>1, <2>1 DEF Locks, Inside, Pauses
    <2>5. Roles'
      BY <1>0, <1>1, <2>1 DEF Roles, Inside, Needs, Settled, TimersFit, TallyFits, On
    <2>4. Tasks'
      BY <1>0, <1>1, <1>5, <2>1 DEF Tasks, Pending
    <2> QED BY <2>2, <2>3, <2>4, <2>5 DEF FsmInv
  <1>6. CASE ~task[i].cancelled
    <2> DEFINE c == task[i].timer = "election" /\ ~task[i].paused
               ops == (IF c THEN <<Op("handle", "election_timeout")>> ELSE <<>>)
                         \o <<Op("renew", 0), Op("unlock", "Scheduler::mtx")>>
    <2>1. /\ queue' = queue \ {i} /\ owner' = [owner EXCEPT ![Sched] = "executor"]
          /\ calling' = i /\ todo' = [todo EXCEPT !["executor"] = ops]
      BY <1>3, <1>6
    <2>2. c \in BOOLEAN
      OBVIOUS
    <2> HIDE DEF c
    <2>3. PICK o, z : /\ Path("executor", ops, o, z) /\ Final("executor", z)
                      /\ o.name \in {"handle", "renew"}
      BY <2>2, ExecutorOps
    <2> HIDE DEF ops
    <2>4. /\ Shapes' /\ ~Idle("executor")' /\ First("executor")'.name \in {"handle", "renew"}
          /\ \A u \in Thread : u # "executor" => todo'[u] = todo[u]
      BY <1>0, <2>1, <2>3, ThreadStarts
    <2>5. TypeOK'
      BY <1>0, <1>1, <1>4, <2>1, <2>4 DEF TypeOK, Shapes
    <2>6. Locks'
      BY <1>0, <1>1, <2>1, <2>4 DEF Locks, Inside, TypeOK, Lock, Timer
    <2>7. Pending' = Pending /\ calling' \notin queue'
      BY <1>2, <1>4, <2>1 DEF Pending
    <2>8. Tasks'
      BY <1>0, <1>1, <1>4, <2>1, <2>4, <2>7 DEF Tasks
    <2>9. Pauses'
      BY <1>0, <1>1, <2>4 DEF Pauses
    <2>10. Roles'
      <3>1. /\ \A u \in Thread : Inside(u)' => Inside(u) /\ todo'[u] = todo[u]
            /\ todo'["user"] = todo["user"] /\ owner'[H] = owner[H]
        BY <1>0, <2>1, <2>4 DEF Inside, TypeOK, Lock
      <3>2. \A x : Needs(x)' <=> Needs(x)
        BY <1>1 DEF Needs, Settled, TimersFit, TallyFits, On
      <3>3. Settled' <=> Settled
        BY <1>1 DEF Settled, TimersFit, TallyFits, On
      <3> QED BY <1>0, <1>1, <3>1, <3>2, <3>3 DEF Roles
    <2> QED BY <2>4, <2>5, <2>6, <2>8, <2>9, <2>10 DEF FsmInv
  <1> QED BY <1>5, <1>6

-----------------------------------------------------------------------------
(* The theorems. *)

\* A server that was just started.
LEMMA InitFsmInv == Init => FsmInv
  <1> SUFFICES ASSUME Init PROVE FsmInv
    OBVIOUS
  <1>1. /\ role = "follower" /\ queue = {1} /\ calling = 0
        /\ timer["election"] = 1 /\ timer["heartbeat"] = 0
        /\ \A t \in Thread : Idle(t)
        /\ \A l \in Lock : owner[l] = "none"
        /\ \A k \in Timer : asked[k] = "resume"
    BY DEF Init, Timer
  <1>2. /\ 1 \in Task /\ 0 \notin Task
        /\ task[1].timer = "election" /\ ~task[1].cancelled /\ ~task[1].paused
    BY MaxTasksAssumption DEF Init, Task
  <1>3. TypeOK
    <2>1. task \in [Task -> [timer : Timer, cancelled : BOOLEAN, paused : BOOLEAN]]
      BY DEF Init, Timer
    <2>2. timer \in [Timer -> Task \cup {0}] /\ queue \in SUBSET Task
      BY <1>2 DEF Init
    <2> QED BY <2>1, <2>2 DEF Init, TypeOK
  <1>4. Shapes
    <2>1. todo \in [Thread -> Seq(OpSet)]
      BY DEF Init
    <2>2. \A t \in Thread : 1..Len(todo[t]) = {}
      BY <1>1
    <2> QED BY <2>1, <2>2 DEF Shapes, Linked
  <1>5. Locks
    BY <1>1 DEF Locks, Inside, Lock, Timer
  <1>6. Tasks
    BY <1>1, <1>2 DEF Tasks, Pending, Timer
  <1>7. Pauses
    BY <1>1, <1>2 DEF Pauses, Timer
  <1>8. Roles
    BY <1>1 DEF Init, Roles, Inside, Settled, TimersFit, TallyFits, On, Timer
  <1> QED BY <1>3, <1>4, <1>5, <1>6, <1>7, <1>8 DEF FsmInv

\* The invariant is inductive.
LEMMA NextFsmInv == FsmInv /\ [Next]_vars => FsmInv'
  <1> SUFFICES ASSUME FsmInv, [Next]_vars PROVE FsmInv'
    OBVIOUS
  <1>1. ASSUME NEW t \in Thread, Step(t) PROVE FsmInv'
    BY <1>1, AcquireLockKeeps, ReleaseLockKeeps, PauseOrResumeKeeps, ReadPausedKeeps,
       RunAfterKeeps, CarryOverKeeps, SetRoleKeeps, SetBlockedKeeps, TallyVotesKeeps,
       NewTermKeeps, BranchKeeps, RenewKeeps DEF Step
  <1>2. CASE UNCHANGED vars
    <2>1. UNCHANGED <<role, blocked, votes, task, queue, calling, timer, owner, todo,
                      was_paused, asked, meddled, overlapped>>
      BY <1>2 DEF vars
    <2>2. TypeOK' /\ Shapes' /\ Locks' /\ Tasks' /\ Pauses'
      BY <2>1 DEF FsmInv, TypeOK, Shapes, Locks, Inside, Tasks, Pending, Pauses
    <2>3. Roles'
      BY <2>1 DEF FsmInv, Roles, Inside, Needs, Settled, TimersFit, TallyFits, On
    <2> QED BY <2>2, <2>3 DEF FsmInv
  <1> QED BY <1>1, <1>2, ReceiveKeeps, UserCallKeeps, ExecuteDueTaskKeeps DEF Next

(***************************************************************************)
(* The invariant of the threads holds in every state.                      *)
(***************************************************************************)
THEOREM FsmInvariance == Spec => []FsmInv
  BY InitFsmInv, NextFsmInv, PTL DEF Spec

(***************************************************************************)
(* The members of RaftFSM, the two ScheduledTasks and the Scheduler keep   *)
(* their types; task_queue never holds a null pointer.                     *)
(***************************************************************************)
THEOREM ThreadsTypes == Spec => []TypeOK
  <1>1. FsmInv => TypeOK
    BY DEF FsmInv
  <1> QED BY <1>1, FsmInvariance, PTL

\* The Tasks that may be called for a timer no reset() is under way for.
LEMMA LiveIsCurrent ==
    ASSUME FsmInv, NEW k \in Timer, owner[k] = "none"
    PROVE  Live(k) = {timer[k]} \ {0}
  <1>0. TypeOK /\ Locks /\ Tasks
    BY DEF FsmInv
  <1>1. ~(k = "election" /\ Resetting)
    BY <1>0 DEF Locks
  <1>2. Live(k) = {i \in Pending : task[i].timer = k /\ ~task[i].cancelled}
    BY DEF Live, Pending
  <1>3. 0 \notin Pending
    BY <1>0, MaxTasksAssumption DEF TypeOK, Pending, Task
  <1>4. ASSUME NEW i \in Live(k) PROVE i \in {timer[k]} \ {0}
    BY <1>0, <1>2, <1>3 DEF Tasks
  <1>5. ASSUME timer[k] # 0 PROVE timer[k] \in Live(k)
    BY <1>0, <1>1, <1>2, <1>5 DEF Tasks
  <1> QED BY <1>4, <1>5

(***************************************************************************)
(* Whatever the three threads do, no timer is ever doubled or lost: while  *)
(* no reset() is under way for it, exactly the Task its ScheduledTask      *)
(* points to can still be called.                                          *)
(***************************************************************************)
THEOREM OneTask == Spec => []OneTaskPerTimer
  <1>1. FsmInv => OneTaskPerTimer
    BY LiveIsCurrent DEF OneTaskPerTimer
  <1> QED BY <1>1, FsmInvariance, PTL

(***************************************************************************)
(* A pause() of one thread survives the reset() of another, and so does a  *)
(* resume(): ScheduledTask::reset carries the flag over to the new Task.   *)
(***************************************************************************)
THEOREM PauseKept == Spec => []PauseSticks
  <1>1. ASSUME FsmInv PROVE PauseSticks
    <2>1. owner["election"] = "none" => ~AtNet("carry_over")
      BY <1>1 DEF FsmInv, Locks
    <2> QED BY <1>1, <2>1 DEF FsmInv, Pauses, PauseSticks
  <1> QED BY <1>1, FsmInvariance, PTL

\* Outside of reset() a timer that is on is one that may be called.
LEMMA RunningIsOn ==
    ASSUME FsmInv, NEW k \in Timer, owner[k] = "none"
    PROVE  Running(k) <=> On(k)
  <1>1. Live(k) = {timer[k]} \ {0}
    BY LiveIsCurrent
  <1>2. ~(k = "election" /\ AtNet("carry_over"))
    BY DEF FsmInv, Locks
  <1>3. timer[k] # 0 => (task[timer[k]].paused <=> asked[k] = "pause")
    BY <1>2 DEF FsmInv, Pauses
  <1>4. asked[k] \in {"pause", "resume"}
    BY DEF FsmInv, TypeOK
  <1> QED BY <1>1, <1>3, <1>4 DEF Running, On

\* At rest role, timers and tally match.
LEMMA AtRestSettled ==
    ASSUME FsmInv, AtRest, ~overlapped
    PROVE  /\ Settled
           /\ Running("heartbeat") <=> On("heartbeat")
           /\ Running("election") <=> On("election")
  <1>0. Locks /\ Roles
    BY DEF FsmInv
  <1>1. owner[H] = "none" /\ Idle("user")
    BY DEF AtRest
  <1>2. ~Inside("network") /\ Settled
    BY <1>0, <1>1 DEF Locks, Roles
  <1>3. owner["election"] = "none" /\ owner["heartbeat"] = "none"
    BY <1>0, <1>2 DEF Locks, Inside
  <1> QED BY <1>2, <1>3, RunningIsOn DEF Timer

(***************************************************************************)
(* As long as no call of the user has overlapped a handler, the heartbeat  *)
(* runs at rest exactly on a leader, a leader's election timer does not    *)
(* run, a candidate's does, and so does a follower's until a user calls.   *)
(***************************************************************************)
THEOREM TimersAtRest == Spec => []TimersMatchRoleAtRest
  <1>1. FsmInv => TimersMatchRoleAtRest
    BY AtRestSettled DEF TimersMatchRoleAtRest, Settled, TimersFit
  <1> QED BY <1>1, FsmInvariance, PTL

(***************************************************************************)
(* As long as no call of the user has overlapped a handler, the majority   *)
(* is only ever tested on votes of the present term, and a server at rest  *)
(* that is no candidate has an empty tally.                                *)
(***************************************************************************)
THEOREM TalliesAreFresh == Spec => []TallyOfOneTerm
  <1>1. ASSUME FsmInv, ~overlapped, NEW t \in Thread, Next_op(t, "test_majority")
        PROVE  votes = "fresh"
    <2>1. Shapes /\ Roles /\ ~Idle(t)
      BY <1>1 DEF FsmInv, Next_op
    <2>2. First(t).name = "test_majority"
      BY <1>1, <2>1, FirstIsHead
    <2>3. Inside(t)
      BY <2>1, <2>2 DEF Inside
    <2> QED BY <1>1, <2>1, <2>2, <2>3 DEF Roles, Needs, Settled, TallyFits
  <1>2. FsmInv => TallyOfOneTerm
    BY <1>1, AtRestSettled DEF TallyOfOneTerm, Settled, TallyFits
  <1> QED BY <1>2, FsmInvariance, PTL

\* The operations that pause or resume a timer.
TimerOp == {"pause", "stop", "resume", "start_election_timeout"}

(***************************************************************************)
(* Who waits for whom: for handler_mtx_ a thread that is outside of the    *)
(* handlers waits for one inside; for Scheduler::mtx the network thread    *)
(* for the executor; for the mutex of the election timer the others wait   *)
(* for the network thread, while it is in reset().                         *)
(***************************************************************************)
LEMMA WaitingFor ==
    ASSUME FsmInv, NEW t \in Thread, NEW u \in Thread, WaitsFor(t, u)
    PROVE  \/ t # "user" /\ IsLock(First(t), H) /\ ~Idle(t) /\ owner[H] = u
           \/ t = "network" /\ AtNet("run_after") /\ u = "executor"
           \/ /\ t # "network" /\ u = "network" /\ owner["election"] = "network"
              /\ ~Idle(t) /\ First(t).name \in TimerOp
  <1> DEFINE a == First(t)
             k == IF a.name = "start_election_timeout" THEN "election" ELSE a.arg
  <1>0. TypeOK /\ Shapes /\ Locks
    BY DEF FsmInv
  <1>1. ~Idle(t)
    BY DEF WaitsFor, Pausing, Resuming, Next_op
  <1>2. OpOf(t, a) /\ (\A n : Next_op(t, n) <=> a.name = n) /\ Arg(t) = a.arg
    BY <1>0, <1>1, FirstIsHead
  <1>3. \/ a.name = "lock" /\ owner[a.arg] = u
        \/ a.name = "run_after" /\ owner[Sched] = u
        \/ a.name \in TimerOp /\ owner[k] = u
    BY <1>2 DEF WaitsFor, Pausing, Resuming, Timer_of, TimerOp
  <1>4. owner["election"] \in {"network", "none"} /\ owner[Sched] \in {"executor", "none"}
          /\ owner["heartbeat"] = "none"
    BY <1>0 DEF Locks
  <1>5. CASE a.name = "lock" /\ owner[a.arg] = u
    <2>1. t # "user" /\ (IsLock(a, H) \/ (t = "network" /\ IsLock(a, "election")))
      BY <1>2, <1>5 DEF OpOf, UserOp, HandlerOp, NetworkOp
    <2>2. t = "network" => owner["election"] = "none"
      BY <1>0, <1>5 DEF Locks
    <2> QED BY <1>1, <1>5, <2>1, <2>2
  <1>6. CASE a.name = "run_after" /\ owner[Sched] = u
    <2>1. t = "network"
      BY <1>2, <1>6 DEF OpOf, UserOp, HandlerOp, NetworkOp
    <2> QED BY <1>1, <1>4, <1>6, <2>1
  <1>7. CASE a.name \in TimerOp /\ owner[k] = u
    <2>1. k \in Timer
      BY <1>2, <1>7 DEF OpOf, UserOp, HandlerOp, NetworkOp, TimerOp, Timer
    <2>2. k = "election" /\ u = "network"
      BY <1>4, <1>7, <2>1 DEF Timer
    <2>3. t # "network"
      BY <1>0, <1>7, <2>2 DEF Locks, TimerOp
    <2> QED BY <1>1, <1>7, <2>2, <2>3
  <1> QED BY <1>3, <1>5, <1>6, <1>7

(***************************************************************************)
(* The only deadlock of the three threads is the one of the executor in    *)
(* handle() with the network thread in run_after: the locks modelled here  *)
(* allow no other, whatever the user thread calls and however many Tasks   *)
(* there are.                                                              *)
(***************************************************************************)
THEOREM OneDeadlock == Spec => []OneWayToGetStuck
  <1>1. ASSUME FsmInv, NEW t \in Thread, NEW u \in Thread, WaitsFor(t, u)
        PROVE  t # u /\ u # "user"
    <2>0. Locks
      BY <1>1 DEF FsmInv
    <2>1. CASE t # "user" /\ IsLock(First(t), H) /\ ~Idle(t) /\ owner[H] = u
      <3>1. ~Inside(t)
        BY <2>1 DEF Inside
      <3> QED BY <2>0, <2>1, <3>1 DEF Locks, Thread
    <2> QED BY <1>1, <2>1, WaitingFor
  <1>2. ASSUME FsmInv, NEW t \in Thread, NEW u \in Thread, WaitsFor(t, u), WaitsFor(u, t)
        PROVE  /\ Next_op("executor", "lock") /\ Arg("executor") = "handler_mtx_"
               /\ Next_op("network", "run_after")
    <2>0. Shapes /\ Locks
      BY <1>2 DEF FsmInv
    <2>1. WaitsFor("executor", "network") /\ WaitsFor("network", "executor")
      <3>1. t # u /\ u # "user"
        BY <1>1, <1>2
      <3>2. t # "user"
        BY <1>1, <1>2
      <3>3. \/ t = "executor" /\ u = "network"
            \/ t = "network" /\ u = "executor"
        BY <3>1, <3>2 DEF Thread
      <3> QED BY <1>2, <3>3
    <2>2. \/ IsLock(First("executor"), H) /\ ~Idle("executor") /\ owner[H] = "network"
          \/ /\ owner["election"] = "network" /\ ~Idle("executor")
             /\ First("executor").name \in TimerOp
      BY <1>2, <2>1, WaitingFor DEF Thread
    <2>3. \/ IsLock(First("network"), H) /\ ~Idle("network") /\ owner[H] = "executor"
          \/ AtNet("run_after")
      BY <1>2, <2>1, WaitingFor DEF Thread
    <2>4. CASE owner["election"] = "network" /\ ~Idle("executor")
                 /\ First("executor").name \in TimerOp
      <3>1. Inside("executor")
        BY <2>4 DEF Inside, TimerOp
      <3>2. owner[H] = "executor"
        BY <2>0, <3>1 DEF Locks
      <3>3. ~IsLock(First("network"), H)
        BY <2>0, <2>4 DEF Locks, AtNet, Resetting, IsLock, IsUnlock
      <3>4. Inside("network")
        BY <2>3, <3>3 DEF Inside, AtNet, IsLock, IsUnlock
      <3>5. owner[H] = "network"
        BY <2>0, <3>4 DEF Locks
      <3> QED BY <3>2, <3>5
    <2>5. CASE IsLock(First("executor"), H) /\ ~Idle("executor") /\ owner[H] = "network"
      <3>1. AtNet("run_after")
        BY <2>3, <2>5
      <3>2. todo["executor"] \in Seq(OpSet) /\ todo["network"] \in Seq(OpSet)
        BY <2>0 DEF Shapes, Thread
      <3>3. /\ First("executor") = Head(todo["executor"])
            /\ First("network") = Head(todo["network"])
        BY <2>5, <3>1, <3>2 DEF First, Idle, AtNet
      <3> QED BY <2>5, <3>1, <3>3 DEF Next_op, Arg, AtNet, IsLock, H
    <2> QED BY <2>2, <2>4, <2>5
  <1>3. FsmInv => OneWayToGetStuck
    BY <1>1, <1>2 DEF OneWayToGetStuck
  <1> QED BY <1>3, FsmInvariance, PTL

-----------------------------------------------------------------------------
(* A silenced server. *)

\* Operations that neither convert the server nor start its election timer.
Calm(s) == \A i \in 1..Len(s) : ~Converts(s[i])

\* What is left to do, and what is put before it, stays calm.
LEMMA CalmTail ==
    ASSUME NEW s \in Seq(OpSet), s # <<>>, Calm(s)
    PROVE  Calm(Tail(s)) /\ ~Converts(s[1])
  <1>1. /\ Len(s) \in Nat \ {0} /\ Len(Tail(s)) = Len(s) - 1
        /\ \A i \in 1..Len(Tail(s)) : Tail(s)[i] = s[i + 1]
    BY EmptySeq, HeadTailProperties
  <1>2. ASSUME NEW i \in 1..Len(Tail(s)) PROVE ~Converts(Tail(s)[i])
    <2>1. i + 1 \in 1..Len(s) /\ Tail(s)[i] = s[i + 1]
      BY <1>1
    <2> QED BY <2>1 DEF Calm
  <1>3. 1 \in 1..Len(s)
    BY <1>1
  <1> QED BY <1>2, <1>3 DEF Calm

LEMMA CalmConcat ==
    ASSUME NEW r \in Seq(OpSet), NEW s \in Seq(OpSet), Calm(r), Calm(s)
    PROVE  Calm(r \o s) /\ r \o s \in Seq(OpSet)
  <1> DEFINE x == r \o s
  <1>1. /\ x \in Seq(OpSet) /\ Len(x) = Len(r) + Len(s)
        /\ \A i \in 1..(Len(r) + Len(s)) : x[i] = IF i <= Len(r) THEN r[i] ELSE s[i - Len(r)]
    BY ConcatProperties
  <1>2. Len(r) \in Nat /\ Len(s) \in Nat
    OBVIOUS
  <1> HIDE DEF x
  <1>3. ASSUME NEW i \in 1..Len(x) PROVE ~Converts(x[i])
    <2>1. CASE i <= Len(r)
      <3>1. i \in 1..Len(r) /\ i \in 1..(Len(r) + Len(s))
        BY <1>1, <1>2, <2>1
      <3> QED BY <1>1, <2>1, <3>1 DEF Calm
    <2>2. CASE ~(i <= Len(r))
      <3>1. i - Len(r) \in 1..Len(s) /\ i \in 1..(Len(r) + Len(s))
        BY <1>1, <1>2, <2>2
      <3> QED BY <1>1, <2>2, <3>1 DEF Calm
    <2> QED BY <2>1, <2>2
  <1> QED BY <1>1, <1>3 DEF Calm, x

\* One, two and three calm operations.
LEMMA CalmFew ==
    ASSUME NEW o \in OpSet, NEW p \in OpSet, NEW q \in OpSet,
           ~Converts(o), ~Converts(p), ~Converts(q)
    PROVE  /\ Calm(<<o>>) /\ <<o>> \in Seq(OpSet)
           /\ Calm(<<o, p>>) /\ <<o, p>> \in Seq(OpSet)
           /\ Calm(<<o, p, q>>) /\ <<o, p, q>> \in Seq(OpSet)
  <1>1. Calm(<<o>>) /\ <<o>> \in Seq(OpSet)
    BY DEF Calm
  <1>2. Calm(<<o, p>>) /\ <<o, p>> \in Seq(OpSet)
    <2> DEFINE s == <<o, p>>
    <2>1. s \in Seq(OpSet) /\ Len(s) = 2 /\ s[1] = o /\ s[2] = p
      OBVIOUS
    <2> HIDE DEF s
    <2>2. \A i \in 1..2 : i = 1 \/ i = 2
      OBVIOUS
    <2>3. Calm(s)
      BY <2>1, <2>2 DEF Calm
    <2> QED BY <2>1, <2>3 DEF s
  <1>3. Calm(<<o, p, q>>) /\ <<o, p, q>> \in Seq(OpSet)
    <2> DEFINE s == <<o, p, q>>
    <2>1. s \in Seq(OpSet) /\ Len(s) = 3 /\ s[1] = o /\ s[2] = p /\ s[3] = q
      OBVIOUS
    <2> HIDE DEF s
    <2>2. \A i \in 1..3 : i = 1 \/ i = 2 \/ i = 3
      OBVIOUS
    <2>3. Calm(s)
      BY <2>1, <2>2 DEF Calm
    <2> QED BY <2>1, <2>3 DEF s
  <1> QED BY <1>1, <1>2, <1>3

\* reset() is calm.
LEMMA CalmReset == Calm(reset("election")) /\ reset("election") \in Seq(OpSet)
  <1> DEFINE s == reset("election")
             o == Op("lock", "election")
             p == Op("read_paused", "election")
             q == Op("run_after", "election")
             r == Op("carry_over", "election")
             z == Op("unlock", "election")
  <1>1. /\ o.name = "lock" /\ p.name = "read_paused" /\ q.name = "run_after"
        /\ r.name = "carry_over" /\ z.name = "unlock"
    BY DEF Op
  <1>2. s = <<o, p, q, r, z>>
    BY DEF reset
  <1>3. s \in Seq(OpSet)
    BY PathReset DEF Path, Chain
  <1> HIDE DEF s, o, p, q, r, z
  <1>4. Len(s) = 5 /\ s[1] = o /\ s[2] = p /\ s[3] = q /\ s[4] = r /\ s[5] = z
    BY <1>2
  <1>5. \A i \in 1..5 : i = 1 \/ i = 2 \/ i = 3 \/ i = 4 \/ i = 5
    OBVIOUS
  <1>6. ~Converts(o) /\ ~Converts(p) /\ ~Converts(q) /\ ~Converts(r) /\ ~Converts(z)
    BY <1>1 DEF Converts
  <1>7. Calm(s)
    BY <1>4, <1>5, <1>6 DEF Calm
  <1> QED BY <1>3, <1>7 DEF s

\* What stands in todo after an operation of a silenced server is done, after a
\* branch, and after a thread has started.
LEMMA DoneCalm ==
    ASSUME Shapes, \A u \in Thread : Calm(todo[u]), NEW t \in Thread, ~Idle(t), Done(t)
    PROVE  \A u \in Thread : Calm(todo'[u])
  <1>1. todo[t] \in Seq(OpSet) /\ todo[t] # <<>>
    BY DEF Shapes
  <1>2. Calm(Tail(todo[t]))
    BY <1>1, CalmTail
  <1>3. todo'[t] = Tail(todo[t]) /\ \A u \in Thread : u # t => todo'[u] = todo[u]
    BY DEF Shapes, Done
  <1> QED BY <1>2, <1>3

LEMMA ThenCalm ==
    ASSUME Shapes, \A u \in Thread : Calm(todo[u]), NEW t \in Thread, ~Idle(t),
           NEW ops \in Seq(OpSet), Calm(ops), Then(t, ops)
    PROVE  \A u \in Thread : Calm(todo'[u])
  <1>1. todo[t] \in Seq(OpSet) /\ todo[t] # <<>>
    BY DEF Shapes
  <1>2. Calm(Tail(todo[t])) /\ Tail(todo[t]) \in Seq(OpSet)
    BY <1>1, CalmTail
  <1>3. Calm(ops \o Tail(todo[t]))
    BY <1>2, CalmConcat
  <1>4. todo'[t] = ops \o Tail(todo[t]) /\ \A u \in Thread : u # t => todo'[u] = todo[u]
    BY DEF Shapes, Then
  <1> QED BY <1>3, <1>4

LEMMA StartCalm ==
    ASSUME Shapes, \A u \in Thread : Calm(todo[u]), NEW t \in Thread, NEW ops, Calm(ops),
           todo' = [todo EXCEPT ![t] = ops]
    PROVE  \A u \in Thread : Calm(todo'[u])
  <1>1. todo'[t] = ops /\ \A u \in Thread : u # t => todo'[u] = todo[u]
    BY DEF Shapes
  <1> QED BY <1>1

\* A silenced server branches nowhere.
LEMMA BranchCalm ==
    ASSUME FsmInv, role = "follower", \A u \in Thread : Calm(todo[u]), NEW t \in Thread, Branch(t)
    PROVE  \A u \in Thread : Calm(todo'[u])
  <1>0. Shapes
    BY DEF FsmInv
  <1>1. ~Idle(t)
    BY DEF Branch, Next_op
  <1>2. (\A n : Next_op(t, n) <=> First(t).name = n) /\ Arg(t) = First(t).arg /\ OpOf(t, First(t))
    BY <1>0, <1>1, FirstIsHead
  <1> DEFINE n == First(t).name
             e == First(t).arg
             h == Op(IF timer["heartbeat"] = 0 THEN "run_after" ELSE "resume", "heartbeat")
  <1>3. ~Converts(First(t))
    <2>1. todo[t] \in Seq(OpSet) /\ todo[t] # <<>>
      BY <1>0, <1>1 DEF Shapes
    <2> QED BY <2>1, CalmTail
  <1>4. /\ n \notin {"clear_prev_state", "start_new_election", "test_majority"}
        /\ n \in {"handle", "higher_term", "event"} => e \in Event
    BY <1>2, <1>3 DEF Converts, OpOf, UserOp, HandlerOp, NetworkOp, EventOf
  <1>5. \/ n = "convert_to_follower" /\ Then(t, <<>>)
        \/ n = "start_heartbeat" /\ Then(t, <<h>>)
        \/ n = "handle" /\ Then(t, <<>>)
        \/ n = "handle" /\ Then(t, <<Op("lock", H), Op("higher_term", e), Op("unlock", H)>>)
        \/ n = "higher_term" /\ Then(t, <<Op("event", e)>>)
        \/ /\ n = "higher_term"
           /\ Then(t, <<Op("adopt_term", 0), Op("convert_to_follower", 0), Op("event", e)>>)
        \/ n = "event" /\ Then(t, handler(e, role))
    BY <1>2, <1>4 DEF Branch, convert_to_follower
  <1>6. CASE Then(t, <<>>)
    BY <1>0, <1>1, <1>6, ThenNothing, DoneCalm
  <1>7. CASE Then(t, <<h>>)
    <2>1. h \in OpSet /\ h.name \in {"run_after", "resume"}
      BY OpTypes DEF OpName, OpArg, Lock, Timer
    <2> HIDE DEF h
    <2>2. Calm(<<h>>) /\ <<h>> \in Seq(OpSet)
      BY <2>1, CalmFew DEF Converts
    <2> QED BY <1>0, <1>1, <1>7, <2>2, ThenCalm
  <1>8. CASE n = "handle" /\ Then(t, <<Op("lock", H), Op("higher_term", e), Op("unlock", H)>>)
    <2> DEFINE o == Op("lock", H)
               p == Op("higher_term", e)
               q == Op("unlock", H)
    <2>1. /\ o \in OpSet /\ o.name = "lock" /\ p \in OpSet /\ p.name = "higher_term" /\ p.arg = e
          /\ q \in OpSet /\ q.name = "unlock"
      <3>1. /\ "lock" \in OpName /\ "higher_term" \in OpName /\ "unlock" \in OpName
            /\ H \in OpArg /\ e \in OpArg
        BY <1>4, <1>8 DEF OpName, OpArg, Lock
      <3> QED BY <3>1, OpTypes
    <2>2. e # "election_timeout" /\ Then(t, <<o, p, q>>)
      BY <1>4, <1>8 DEF Event
    <2> HIDE DEF o, p, q
    <2>3. Calm(<<o, p, q>>) /\ <<o, p, q>> \in Seq(OpSet)
      BY <2>1, <2>2, CalmFew DEF Converts
    <2> QED BY <1>0, <1>1, <2>2, <2>3, ThenCalm
  <1>9. CASE /\ n = "higher_term"
             /\ \/ Then(t, <<Op("event", e)>>)
                \/ Then(t, <<Op("adopt_term", 0), Op("convert_to_follower", 0), Op("event", e)>>)
    <2> DEFINE o == Op("adopt_term", 0)
               p == Op("convert_to_follower", 0)
               q == Op("event", e)
    <2>1. /\ o \in OpSet /\ o.name = "adopt_term" /\ p \in OpSet /\ p.name = "convert_to_follower"
          /\ q \in OpSet /\ q.name = "event" /\ q.arg = e
      <3>1. /\ "adopt_term" \in OpName /\ "convert_to_follower" \in OpName /\ "event" \in OpName
            /\ 0 \in OpArg /\ e \in OpArg
        BY <1>4, <1>9 DEF OpName, OpArg
      <3> QED BY <3>1, OpTypes
    <2>2. e # "election_timeout" /\ (Then(t, <<q>>) \/ Then(t, <<o, p, q>>))
      BY <1>4, <1>9 DEF Event
    <2> HIDE DEF o, p, q
    <2>3. /\ Calm(<<o, p, q>>) /\ <<o, p, q>> \in Seq(OpSet)
          /\ Calm(<<q>>) /\ <<q>> \in Seq(OpSet)
      BY <2>1, <2>2, CalmFew DEF Converts
    <2> QED BY <1>0, <1>1, <2>2, <2>3, ThenCalm
  <1>10. CASE n = "event" /\ Then(t, handler(e, role))
    <2>1. handler(e, role) = <<>> \/ handler(e, role) = reset("election")
      BY <1>4, <1>10 DEF handler, Event
    <2> QED BY <1>0, <1>1, <1>6, <1>10, <2>1, CalmReset, ThenCalm
  <1> QED BY <1>5, <1>6, <1>7, <1>8, <1>9, <1>10

\* What a user calls is calm: it converts nobody who is a follower already.
LEMMA MethodCalm ==
    ASSUME NEW m \in UserCalls
    PROVE  Calm(method(m))
  <1> DEFINE o == Op("convert_to_follower", 0)
             p == Op("pause", "election")
             q == Op("pause", "heartbeat")
             x == Op("set_blocked", TRUE)
             y == Op("set_blocked", FALSE)
  <1>1. m \in {"stay_follower", "block", "unblock"}
    BY UserCallsAssumption
  <1>2. /\ o \in OpSet /\ o.name = "convert_to_follower" /\ p \in OpSet /\ p.name = "pause"
        /\ q \in OpSet /\ q.name = "pause" /\ x \in OpSet /\ x.name = "set_blocked"
        /\ y \in OpSet /\ y.name = "set_blocked"
    <2>1. /\ "convert_to_follower" \in OpName /\ "pause" \in OpName /\ "set_blocked" \in OpName
          /\ 0 \in OpArg /\ "election" \in OpArg /\ "heartbeat" \in OpArg
          /\ TRUE \in OpArg /\ FALSE \in OpArg
      BY DEF OpName, OpArg, Lock, Timer
    <2> QED BY <2>1, OpTypes
  <1>3. /\ m = "stay_follower" => method(m) = <<o>> \o <<p, q>>
        /\ m = "block" => method(m) = (<<o>> \o <<p, q>>) \o <<x>>
        /\ m = "unblock" => method(m) = <<y>>
    BY DEF method, pause_scheduled_tasks
  <1> HIDE DEF o, p, q, x, y
  <1>4. ~Converts(o) /\ ~Converts(p) /\ ~Converts(q) /\ ~Converts(x) /\ ~Converts(y)
    BY <1>2 DEF Converts
  <1>5. /\ Calm(<<o>>) /\ <<o>> \in Seq(OpSet) /\ Calm(<<p, q>>) /\ <<p, q>> \in Seq(OpSet)
        /\ Calm(<<x>>) /\ <<x>> \in Seq(OpSet) /\ Calm(<<y>>)
    BY <1>2, <1>4, CalmFew
  <1>6. Calm(<<o>> \o <<p, q>>) /\ <<o>> \o <<p, q>> \in Seq(OpSet)
    BY <1>5, CalmConcat
  <1>7. Calm((<<o>> \o <<p, q>>) \o <<x>>)
    BY <1>5, <1>6, CalmConcat
  <1> QED BY <1>1, <1>3, <1>5, <1>6, <1>7

\* Every step of a silenced server.
LEMMA SilenceStep ==
    ASSUME FsmInv, Next, Silenced, ~Next_op("network", "carry_over")
    PROVE  Silenced'
  <1>0. TypeOK /\ Shapes /\ Locks /\ Tasks /\ Pauses
    BY DEF FsmInv
  <1>1. /\ role = "follower" /\ asked["election"] = "pause"
        /\ \A u \in Thread : Calm(todo[u])
    BY DEF Silenced, Calm
  <1>2. SUFFICES /\ role' = "follower" /\ asked'["election"] = "pause"
                 /\ \A u \in Thread : Calm(todo'[u])
    BY DEF Silenced, Calm
  <1>3. ASSUME NEW t \in Thread, Step(t)
        PROVE  /\ role' = "follower" /\ asked'["election"] = "pause"
               /\ \A u \in Thread : Calm(todo'[u])
    <2>1. ~Idle(t)
      BY <1>3 DEF Step, AcquireLock, ReleaseLock, PauseOrResume, Pausing, Resuming, ReadPaused,
                  RunAfter, CarryOver, SetRole, SetBlocked, TallyVotes, NewTerm, Branch, Renew,
                  Next_op
    <2>2. /\ \A n : Next_op(t, n) <=> First(t).name = n
          /\ Arg(t) = First(t).arg /\ OpOf(t, First(t))
      BY <1>0, <2>1, FirstIsHead
    <2>3. ~Converts(First(t))
      <3>1. todo[t] \in Seq(OpSet) /\ todo[t] # <<>>
        BY <1>0, <2>1 DEF Shapes
      <3> QED BY <1>1, <3>1, CalmTail
    <2>4. CASE Branch(t)
      <3>1. \A u \in Thread : Calm(todo'[u])
        BY <1>1, <2>4, BranchCalm
      <3> QED BY <1>1, <2>4, <3>1 DEF Branch
    <2>5. CASE PauseOrResume(t)
      <3>1. \A u \in Thread : Calm(todo'[u])
        BY <1>0, <1>1, <2>1, <2>5, DoneCalm DEF PauseOrResume
      <3>2. First(t).name # "start_election_timeout"
        BY <2>3 DEF Converts
      <3>3. ~Pausing(t) => Timer_of(t) = "heartbeat"
        BY <2>2, <2>5, <3>2
           DEF PauseOrResume, Pausing, Resuming, Timer_of, OpOf, UserOp, HandlerOp, NetworkOp
      <3>4. asked'["election"] = "pause"
        BY <1>0, <1>1, <2>5, <3>3 DEF PauseOrResume, TypeOK, Timer
      <3> QED BY <1>1, <2>5, <3>1, <3>4 DEF PauseOrResume
    <2>6. CASE SetRole(t)
      BY <2>2, <2>3, <2>6 DEF SetRole, Converts
    <2>7. CASE /\ ~Branch(t) /\ ~PauseOrResume(t) /\ ~SetRole(t)
      <3>1. Done(t) /\ UNCHANGED <<role, asked>>
        BY <1>3, <2>7 DEF Step, AcquireLock, ReleaseLock, ReadPaused, RunAfter, CarryOver,
                          SetBlocked, TallyVotes, NewTerm, Renew
      <3> QED BY <1>0, <1>1, <2>1, <3>1, DoneCalm
    <2> QED BY <2>4, <2>5, <2>6, <2>7
  <1>4. CASE Receive
    <2>1. PICK e \in Event : todo' = [todo EXCEPT !["network"] = <<Op("handle", e)>>]
      BY <1>4 DEF Receive
    <2> DEFINE o == Op("handle", e)
    <2>2. o \in OpSet /\ o.name = "handle" /\ o.arg = e
      <3>1. "handle" \in OpName /\ e \in OpArg
        BY DEF OpName, OpArg
      <3> QED BY <3>1, OpTypes
    <2>3. e # "election_timeout" /\ todo' = [todo EXCEPT !["network"] = <<o>>]
      BY <2>1 DEF Event
    <2> HIDE DEF o
    <2>4. Calm(<<o>>)
      BY <2>2, <2>3, CalmFew DEF Converts
    <2> QED BY <1>0, <1>1, <1>4, <2>3, <2>4, StartCalm DEF Receive
  <1>5. CASE UserCall
    <2>1. PICK m \in UserCalls : todo' = [todo EXCEPT !["user"] = method(m)]
      BY <1>5 DEF UserCall
    <2> QED BY <1>0, <1>1, <1>5, <2>1, MethodCalm, StartCalm DEF UserCall
  <1>6. CASE ExecuteDueTask
    <2>1. PICK i \in queue :
            IF task[i].cancelled THEN todo' = todo
            ELSE todo' = [todo EXCEPT !["executor"] =
                   (IF task[i].timer = "election" /\ ~task[i].paused
                    THEN <<Op("handle", "election_timeout")>> ELSE <<>>)
                   \o <<Op("renew", 0), Op("unlock", "Scheduler::mtx")>>]
      BY <1>6 DEF ExecuteDueTask
    <2>2. UNCHANGED <<role, asked>>
      BY <1>6 DEF ExecuteDueTask
    <2>3. CASE task[i].cancelled
      BY <1>1, <2>1, <2>2, <2>3
    <2>4. CASE ~task[i].cancelled
      <3>1. timer[task[i].timer] = i /\ i # 0
        BY <1>0, <2>4, MaxTasksAssumption DEF Tasks, Pending, TypeOK, Task
      <3>2. ~AtNet("carry_over")
        <4>1. SUFFICES ASSUME AtNet("carry_over") PROVE FALSE
          OBVIOUS
        <4> QED BY <1>0, <4>1, FirstIsHead
      <3>3. task[i].timer = "election" => task[i].paused
        BY <1>0, <1>1, <3>1, <3>2 DEF Pauses, Timer
      <3> DEFINE p == Op("renew", 0)
                 q == Op("unlock", Sched)
      <3>4. p \in OpSet /\ p.name = "renew" /\ q \in OpSet /\ q.name = "unlock"
        <4>1. "renew" \in OpName /\ "unlock" \in OpName /\ 0 \in OpArg /\ Sched \in OpArg
          BY DEF OpName, OpArg, Lock
        <4> QED BY <4>1, OpTypes
      <3>5. todo' = [todo EXCEPT !["executor"] = <<>> \o <<p, q>>]
        BY <2>1, <2>4, <3>3
      <3> HIDE DEF p, q
      <3>6. Calm(<<p, q>>) /\ <<p, q>> \in Seq(OpSet)
        BY <3>4, CalmFew DEF Converts
      <3>7. <<>> \o <<p, q>> = <<p, q>>
        BY <3>6, ConcatEmptySeq
      <3>8. todo' = [todo EXCEPT !["executor"] = <<p, q>>]
        BY <3>5, <3>7
      <3> QED BY <1>0, <1>1, <2>2, <3>6, <3>8, StartCalm
    <2> QED BY <2>3, <2>4
  <1> QED BY <1>3, <1>4, <1>5, <1>6 DEF Next

(***************************************************************************)
(* Whatever arrives and whatever a user calls, unblock() included, a       *)
(* follower whose election timer was paused last and on which no           *)
(* conversion is under way stays one, but for the moment in which reset()  *)
(* has queued a new Task and not yet paused it.                            *)
(***************************************************************************)
THEOREM SilencedStaysSilent == Spec => SilenceKept
  <1>1. FsmInv /\ [Next]_vars => [Silenced => Silenced' \/ Next_op("network", "carry_over")]_vars
    BY SilenceStep
  <1> QED BY <1>1, FsmInvariance, PTL DEF Spec, SilenceKept

=============================================================================
