------------------------ MODULE BlockingQueueProofs ------------------------
(***************************************************************************)
(* BlockingQueue by itself, for any number of getters and any values: put  *)
(* under the mutex loses no wakeup.                                        *)
(***************************************************************************)
EXTENDS BlockingQueue, FiniteSetTheorems, TLAPS

\* Value is the set of what is put into the queue.
BQNext(Value) ==
    \/ \E v \in Value : Put(v)
    \/ \E g \in Getter : Get(g) \/ Wait(g)
    \/ Clear
    \/ NotifyAll

BQSpec(Value) == BQInit /\ [][BQNext(Value)]_bqVars

BQTypeOK(Value) ==
    /\ q \in Seq(Value)
    /\ getter \in [Getter -> {"idle", "blocking", "waiting", "notified"}]

(***************************************************************************)
(* A getter that is about to wait has seen an empty queue, and the mutex   *)
(* keeps it empty: so when it joins the waiting ones there is nothing to   *)
(* be woken for.                                                           *)
(***************************************************************************)
BQInv(Value) ==
    /\ BQTypeOK(Value)
    /\ quit = "no" /\ At("blocking") # {} => q = <<>>
    /\ NoLostWakeup

(***************************************************************************)
(* The getters at a place are finitely many.                               *)
(***************************************************************************)
LEMMA AtFinite ==
    ASSUME NEW w
    PROVE  IsFiniteSet(At(w)) /\ Cardinality(At(w)) \in Nat
<1>1. At(w) \subseteq Getter
  BY DEF At
<1>2. IsFiniteSet(At(w))
  BY <1>1, FS_Subset, GetterAssumption
<1> QED BY <1>2, FS_CardinalityType

(***************************************************************************)
(* put() adds a value and, if anybody waits, one getter to take it.        *)
(***************************************************************************)
LEMMA PutStep ==
    ASSUME NEW Value, BQInv(Value), NEW v \in Value, Put(v)
    PROVE  BQInv(Value)'
<1>1. /\ q \in Seq(Value) /\ q' = Append(q, v) /\ quit' = quit
      /\ q' \in Seq(Value) /\ Len(q') = Len(q) + 1 /\ Len(q) \in Nat
  BY DEF Put, BQInv, BQTypeOK
<1>2. At("blocking") = {}
  BY DEF Put, QueueMtxFree, At
<1>3. CASE At("waiting") = {}
  <2>1. getter' = getter
    BY <1>3 DEF Put
  <2>2. At("waiting")' = {} /\ At("blocking")' = {} /\ BQTypeOK(Value)'
    BY <1>1, <1>2, <1>3, <2>1 DEF At, BQInv, BQTypeOK
  <2> QED BY <2>2 DEF BQInv, NoLostWakeup
<1>4. CASE At("waiting") # {}
  <2>1. PICK g \in At("waiting") : getter' = [getter EXCEPT ![g] = "notified"]
    BY <1>4 DEF Put
  <2>2. g \in Getter /\ getter[g] = "waiting"
    BY DEF At
  <2>3. /\ BQTypeOK(Value)'
        /\ At("blocking")' = {}
        /\ At("notified")' = At("notified") \cup {g}
        /\ g \notin At("notified")
    BY <1>1, <1>2, <2>1, <2>2 DEF At, BQInv, BQTypeOK
  <2>4. Cardinality(At("notified")') = Cardinality(At("notified")) + 1
    BY <2>3, AtFinite, FS_AddElement
  <2>5. NoLostWakeup'
    <3>1. quit = "no" => Len(q) <= Cardinality(At("notified"))
      BY <1>4 DEF BQInv, NoLostWakeup
    <3> QED BY <1>1, <2>4, <3>1, AtFinite DEF NoLostWakeup
  <2> QED BY <2>3, <2>5 DEF BQInv
<1> QED BY <1>3, <1>4

(***************************************************************************)
(* get() takes a value, and with it at most one notified getter leaves.    *)
(***************************************************************************)
LEMMA GetStep ==
    ASSUME NEW Value, BQInv(Value), NEW g \in Getter, Get(g)
    PROVE  BQInv(Value)'
<1> DEFINE N == At("notified")
<1>1. /\ q \in Seq(Value) /\ Len(q) \in Nat /\ quit' = quit
      /\ getter \in [Getter -> {"idle", "blocking", "waiting", "notified"}]
      /\ getter[g] \in {"idle", "notified"}
      /\ At("blocking") = {}
  BY DEF Get, BQInv, BQTypeOK, QueueMtxFree, At
<1>2. ASSUME NEW w \in {"idle", "blocking"}, getter' = [getter EXCEPT ![g] = w]
      PROVE  /\ getter' \in [Getter -> {"idle", "blocking", "waiting", "notified"}]
             /\ At("waiting")' = At("waiting")
             /\ N' = N \ {g}
             /\ Cardinality(N') >= Cardinality(N) - 1
             /\ w = "idle" => At("blocking")' = {}
  <2>1. /\ getter' \in [Getter -> {"idle", "blocking", "waiting", "notified"}]
        /\ At("waiting")' = At("waiting")
        /\ At("notified")' = At("notified") \ {g}
        /\ w = "idle" => At("blocking")' = {}
    BY <1>1, <1>2 DEF At
  <2>2. Cardinality(At("notified") \ {g}) >= Cardinality(At("notified")) - 1
    <3>1. CASE g \in At("notified")
      <4>1. Cardinality(At("notified") \ {g}) = Cardinality(At("notified")) - 1
        BY <3>1, AtFinite, FS_RemoveElement
      <4> QED BY <4>1, AtFinite
    <3>2. CASE g \notin At("notified")
      <4>1. At("notified") \ {g} = At("notified")
        BY <3>2
      <4> QED BY <4>1, AtFinite
    <3> QED BY <3>1, <3>2
  <2> QED BY <2>1, <2>2
<1>3. CASE quit # "no"
  <2>1. getter' = [getter EXCEPT ![g] = "idle"] /\ q' = q
    BY <1>3 DEF Get
  <2> QED BY <1>1, <1>2, <1>3, <2>1 DEF BQInv, BQTypeOK, NoLostWakeup
<1>4. CASE quit = "no" /\ q # <<>>
  <2>1. getter' = [getter EXCEPT ![g] = "idle"] /\ q' = Tail(q)
    BY <1>4 DEF Get
  <2>2. q' \in Seq(Value) /\ Len(q') = Len(q) - 1
    BY <1>1, <1>4, <2>1
  <2>3. /\ getter' \in [Getter -> {"idle", "blocking", "waiting", "notified"}]
        /\ At("waiting")' = At("waiting")
        /\ Cardinality(At("notified")') >= Cardinality(At("notified")) - 1
        /\ At("blocking")' = {}
    BY <1>2, <2>1
  <2>4. Cardinality(At("notified")) \in Nat /\ Cardinality(At("notified")') \in Nat
    <3>1. At("notified")' \subseteq Getter
      BY DEF At
    <3> QED BY <3>1, AtFinite, FS_Subset, FS_CardinalityType, GetterAssumption
  <2>5. NoLostWakeup'
    BY <1>1, <1>4, <2>2, <2>3, <2>4 DEF BQInv, NoLostWakeup
  <2> QED BY <2>2, <2>3, <2>5 DEF BQInv, BQTypeOK
<1>5. CASE quit = "no" /\ q = <<>>
  <2>1. getter' = [getter EXCEPT ![g] = "blocking"] /\ q' = q
    BY <1>5 DEF Get
  <2>2. getter' \in [Getter -> {"idle", "blocking", "waiting", "notified"}]
    BY <1>2, <2>1
  <2>3. NoLostWakeup'
    <3>1. At("notified")' \subseteq Getter
      BY DEF At
    <3>2. Cardinality(At("notified")') \in Nat
      BY <3>1, FS_Subset, FS_CardinalityType, GetterAssumption
    <3>3. Len(q') = 0
      BY <1>5, <2>1
    <3> QED BY <3>2, <3>3 DEF NoLostWakeup
  <2> QED BY <1>1, <1>5, <2>1, <2>2, <2>3 DEF BQInv, BQTypeOK
<1> QED BY <1>3, <1>4, <1>5

(***************************************************************************)
(* The start of a wait, and clear().                                       *)
(***************************************************************************)
LEMMA OtherStep ==
    ASSUME NEW Value, BQInv(Value), (\E g \in Getter : Wait(g)) \/ Clear \/ NotifyAll \/ UNCHANGED bqVars
    PROVE  BQInv(Value)'
<1>1. ASSUME NEW g \in Getter, Wait(g)
      PROVE  BQInv(Value)'
  <2>1. /\ getter' = [getter EXCEPT ![g] = "waiting"] /\ q' = q /\ quit' = quit
        /\ g \in At("blocking")
    BY <1>1 DEF Wait, At
  <2>2. quit = "no" => q = <<>>
    BY <2>1 DEF BQInv
  <2>3. BQTypeOK(Value)'
    BY <2>1 DEF BQInv, BQTypeOK
  <2>4. NoLostWakeup'
    <3>1. At("notified")' \subseteq Getter
      BY DEF At
    <3>2. Cardinality(At("notified")') \in Nat
      BY <3>1, FS_Subset, FS_CardinalityType, GetterAssumption
    <3>3. quit' = "no" => Len(q') = 0
      BY <2>1, <2>2
    <3> QED BY <3>2, <3>3 DEF NoLostWakeup
  <2> QED BY <2>1, <2>2, <2>3, <2>4 DEF BQInv
<1>2. CASE Clear
  BY <1>2 DEF Clear, BQInv, BQTypeOK, NoLostWakeup
<1>3. CASE NotifyAll
  <2>1. quit' = "done" /\ q' = q
    BY <1>3 DEF NotifyAll
  <2>2. BQTypeOK(Value)'
    BY <1>3 DEF NotifyAll, BQInv, BQTypeOK
  <2> QED BY <2>1, <2>2 DEF BQInv, NoLostWakeup
<1>4. CASE UNCHANGED bqVars
  BY <1>4 DEF bqVars, BQInv, BQTypeOK, NoLostWakeup, At
<1> QED BY <1>1, <1>2, <1>3, <1>4

(***************************************************************************)
(* Whatever the number of getters, no value is left in the queue for want  *)
(* of a notification until clear() is called.                              *)
(***************************************************************************)
THEOREM WakeupsKept ==
    ASSUME NEW CONSTANT Value
    PROVE  BQSpec(Value) => []NoLostWakeup
<1>1. BQInit => BQInv(Value)
  <2> SUFFICES ASSUME BQInit PROVE BQInv(Value)
    OBVIOUS
  <2>1. BQTypeOK(Value)
    BY DEF BQInit, BQTypeOK
  <2>2. At("waiting") = {} /\ At("blocking") = {}
    BY DEF BQInit, At
  <2> QED BY <2>1, <2>2 DEF BQInv, NoLostWakeup
<1>2. BQInv(Value) /\ [BQNext(Value)]_bqVars => BQInv(Value)'
  BY PutStep, GetStep, OtherStep DEF BQNext
<1>3. BQInv(Value) => NoLostWakeup
  BY DEF BQInv
<1> QED BY <1>1, <1>2, <1>3, PTL DEF BQSpec
=============================================================================
