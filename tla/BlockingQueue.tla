--------------------------- MODULE BlockingQueue ---------------------------
(***************************************************************************)
(* BlockingQueue (concurrent.hpp): a queue with a mutex and a condition    *)
(* variable.  put() and each stretch of get() without a wait are one step  *)
(* under the mutex; clear() does not take it.                              *)
(***************************************************************************)
EXTENDS Sequences, FiniteSets, Naturals

CONSTANT Getter   \* the threads that call get()

ASSUME GetterAssumption == IsFiniteSet(Getter)

VARIABLES
    q,
    quit,     \* "no"; "set" once clear() has stored it; "done" once it has notified
    getter,   \* where each getter is; a notified one has been woken
    taken     \* history: the values that get() returned

bqVars == <<q, quit, getter, taken>>

BQInit ==
    /\ q = <<>>
    /\ quit = "no"
    /\ getter = [g \in Getter |-> "idle"]
    /\ taken = {}

\* A getter that has found the queue empty holds the mutex until it waits.
QueueMtxFree == \A g \in Getter : getter[g] # "blocking"

At(where) == {g \in Getter : getter[g] = where}

\* Mutant: nobody is notified.
Put_Silent(v) ==
    /\ QueueMtxFree
    /\ q' = Append(q, v)
    /\ UNCHANGED <<quit, getter, taken>>

\* put(): one of the waiting getters, if there is any, is notified.
Put(v) ==
    /\ QueueMtxFree
    /\ q' = Append(q, v)
    /\ IF At("waiting") = {} THEN UNCHANGED getter
       ELSE \E g \in At("waiting") : getter' = [getter EXCEPT ![g] = "notified"]
    /\ UNCHANGED <<quit, taken>>

\* get(), from its call or from a notification to its return or its next wait.
Get(g) ==
    /\ getter[g] \in {"idle", "notified"}
    /\ QueueMtxFree
    /\ IF quit # "no"
       THEN getter' = [getter EXCEPT ![g] = "idle"] /\ UNCHANGED <<q, taken>>
       ELSE IF q # <<>>
       THEN /\ taken' = taken \cup {Head(q)}
            /\ q' = Tail(q)
            /\ getter' = [getter EXCEPT ![g] = "idle"]
       ELSE getter' = [getter EXCEPT ![g] = "blocking"] /\ UNCHANGED <<q, taken>>
    /\ UNCHANGED quit

Wait(g) ==
    /\ getter[g] = "blocking"
    /\ getter' = [getter EXCEPT ![g] = "waiting"]
    /\ UNCHANGED <<q, quit, taken>>

\* clear(): quit is set without the mutex, and those who wait by then are notified.
Clear ==
    /\ quit = "no"
    /\ quit' = "set"
    /\ UNCHANGED <<q, getter, taken>>

NotifyAll ==
    /\ quit = "set"
    /\ quit' = "done"
    /\ getter' = [g \in Getter |-> IF getter[g] = "waiting" THEN "notified" ELSE getter[g]]
    /\ UNCHANGED <<q, taken>>

-----------------------------------------------------------------------------
(***************************************************************************)
(* put() under the mutex loses no wakeup: while some getter waits without  *)
(* having been notified, there are no more values than getters on their    *)
(* way to take them.                                                       *)
(***************************************************************************)
NoLostWakeup ==
    quit = "no" /\ At("waiting") # {} => Len(q) <= Cardinality(At("notified"))

=============================================================================
