------------------------- MODULE NetworkUtilProofs -------------------------
(***************************************************************************)
(* What NetworkUtil does to a number of any width, on machines of either   *)
(* byte order.  The argument: encoding followed by decoding is RoundTripOf *)
(* below, which either keeps a byte or fills it with ones; and the bytes   *)
(* that make it fill others are negative before and after.                 *)
(***************************************************************************)
EXTENDS NetworkUtil, WellFoundedInduction, TLAPS

\* The bytes whose sign bits end up in byte j: the ones that aton shifts less.
Before(j, order) == IF order = "big" THEN {i \in Index : i < j}
                                     ELSE {i \in Index : i > j}

RoundTripOf(h, order) ==
    [j \in Index |-> IF \E i \in Before(j, order) : negative(h[i])
                     THEN Radix - 1 ELSE h[j]]

(***************************************************************************)
(* hton, ntoa, aton and ntoh put together.                                 *)
(***************************************************************************)
LEMMA CodecShape ==
    ASSUME NEW h \in T, NEW order
    PROVE  /\ htoa(h, order) \in T
           /\ atoh(htoa(h, order), order) = RoundTripOf(h, order)
           /\ RoundTripOf(h, order) \in T
<1> USE WidthAssumption, RadixAssumption
<1>1. \A k \in Index : Width - 1 - k \in Index /\ Width - 1 - (Width - 1 - k) = k
  BY DEF Index
<1>2. Radix - 1 \in Byte
  BY DEF Byte
<1>3. RoundTripOf(h, order) \in T
  BY <1>2 DEF RoundTripOf, T
<1>4. CASE order = "big"
  <2> DEFINE a == [i \in Index |-> h[Width - 1 - i]]
  <2>1. htoa(h, order) = a /\ a \in T
    BY <1>1, <1>4 DEF htoa, ntoa, hton, T
  <2>2. ASSUME NEW j \in Index
        PROVE  aton(a)[j] = RoundTripOf(h, order)[j]
    <3>1. a[Width - 1 - j] = h[j]
      BY <1>1
    <3>2. (\E i \in Index : Width - 1 - i < j /\ negative(a[i]))
            <=> (\E i \in Before(j, order) : negative(h[i]))
      <4>1. ASSUME NEW i \in Index, Width - 1 - i < j, negative(a[i])
            PROVE  \E k \in Before(j, order) : negative(h[k])
        BY <1>1, <1>4, <4>1 DEF Before
      <4>2. ASSUME NEW k \in Before(j, order), negative(h[k])
            PROVE  \E i \in Index : Width - 1 - i < j /\ negative(a[i])
        <5>1. k \in Index /\ k < j /\ Width - 1 - k \in Index
              /\ Width - 1 - (Width - 1 - k) = k
          BY <1>1, <1>4, <4>2 DEF Before
        <5>2. a[Width - 1 - k] = h[k]
          BY <5>1
        <5> QED BY <4>2, <5>1, <5>2
      <4> QED BY <4>1, <4>2
    <3> QED BY <3>1, <3>2 DEF aton, RoundTripOf
  <2>3. aton(a) = RoundTripOf(h, order)
    BY <2>2 DEF aton, RoundTripOf
  <2> QED BY <1>3, <1>4, <2>1, <2>3 DEF atoh, ntoh, hton
<1>5. CASE order # "big"
  <2>1. htoa(h, order) = h
    <3>1. htoa(h, order) = [i \in Index |-> h[i]]
      BY <1>1, <1>5 DEF htoa, ntoa, hton
    <3> QED BY <3>1 DEF T
  <2>2. ASSUME NEW j \in Index
        PROVE  aton(h)[Width - 1 - j] = RoundTripOf(h, order)[j]
    <3>1. (\E i \in Index : Width - 1 - i < Width - 1 - j /\ negative(h[i]))
            <=> (\E i \in Before(j, order) : negative(h[i]))
      BY <1>5 DEF Before, Index
    <3> QED BY <1>1, <3>1 DEF aton, RoundTripOf
  <2>3. atoh(h, order) = [j \in Index |-> aton(h)[Width - 1 - j]]
    BY <1>5 DEF atoh, ntoh, hton
  <2>4. atoh(h, order) = RoundTripOf(h, order)
    BY <2>2, <2>3 DEF RoundTripOf
  <2> QED BY <1>3, <2>1, <2>4
<1> QED BY <1>4, <1>5

(***************************************************************************)
(* A round trip keeps a byte or fills it with ones.                        *)
(***************************************************************************)
LEMMA RoundTripGrows ==
    ASSUME NEW h \in T, NEW order, NEW k \in Index
    PROVE  h[k] <= RoundTripOf(h, order)[k]
<1>1. h[k] \in Byte
  BY DEF T
<1> QED BY <1>1, RadixAssumption DEF RoundTripOf, Byte

(***************************************************************************)
(* A second round trip changes nothing.                                    *)
(***************************************************************************)
LEMMA RoundTripStable ==
    ASSUME NEW h \in T, NEW order
    PROVE  RoundTripOf(RoundTripOf(h, order), order) = RoundTripOf(h, order)
<1> USE WidthAssumption, RadixAssumption
<1> DEFINE r == RoundTripOf(h, order)
<1>1. negative(Radix - 1)
  BY DEF negative
<1>2. ASSUME NEW j \in Index
      PROVE  (\E i \in Before(j, order) : negative(r[i]))
               <=> (\E i \in Before(j, order) : negative(h[i]))
  <2>1. ASSUME NEW i \in Before(j, order), negative(h[i])
        PROVE  negative(r[i])
    BY <1>1, <2>1 DEF RoundTripOf, Before
  <2>2. ASSUME NEW i \in Before(j, order), negative(r[i]), ~negative(h[i])
        PROVE  \E k \in Before(j, order) : negative(h[k])
    <3>1. PICK k \in Before(i, order) : negative(h[k])
      BY <2>2 DEF RoundTripOf, Before
    <3>2. k \in Before(j, order)
      BY <2>2, <3>1 DEF Before, Index
    <3> QED BY <3>1, <3>2
  <2> QED BY <2>1, <2>2
<1>3. \A j \in Index : RoundTripOf(r, order)[j] = r[j]
  BY <1>2 DEF RoundTripOf
<1> QED BY <1>3 DEF RoundTripOf

-----------------------------------------------------------------------------
(* How large a number is that has a negative byte. *)

(***************************************************************************)
(* A set of numbers has a least element: induction without an operator.    *)
(***************************************************************************)
LEMMA Smallest ==
    ASSUME NEW S, S \subseteq Nat, S # {}
    PROVE  \E x \in S : \A y \in S : x <= y
<1>1. PICK x \in S : \A y \in S : ~(<<y, x>> \in OpToRel(<, Nat))
  BY NatLessThanWellFounded, WFMin
<1>2. \A y \in S : ~(y < x)
  BY <1>1 DEF OpToRel
<1> QED BY <1>2

\* f[k] is the number that the k most significant bytes of h make.
Horner(f, h, m) ==
    /\ f \in [0..m -> Nat]
    /\ f[0] = 0
    /\ \A k \in 1..m : f[k] = Radix * f[k - 1] + h[Width - k]

(***************************************************************************)
(* The recursion in Number has a solution.                                 *)
(***************************************************************************)
LEMMA HornerExists ==
    ASSUME NEW h \in T, NEW m \in 0..Width
    PROVE  \E f : Horner(f, h, m)
<1> USE WidthAssumption, RadixAssumption
<1> DEFINE Bad == {n \in 0..Width : ~\E f : Horner(f, h, n)}
<1> SUFFICES ASSUME Bad # {} PROVE FALSE
  OBVIOUS
<1>0. Bad \subseteq Nat
  OBVIOUS
<1>1. PICK n \in Bad : \A y \in Bad : n <= y
  <2> HIDE DEF Bad
  <2> QED BY <1>0, Smallest
<1>2. n # 0
  <2> DEFINE f == [k \in 0..0 |-> 0]
  <2>1. Horner(f, h, 0)
    BY DEF Horner
  <2> QED BY <1>1, <2>1
<1>3. n - 1 \in 0..Width /\ n - 1 \notin Bad /\ n \in 1..Width
  BY <1>1, <1>2
<1>4. PICK f : Horner(f, h, n - 1)
  BY <1>3
<1>5. h[Width - n] \in Nat /\ f[n - 1] \in Nat /\ Radix \in Nat
  BY <1>3, <1>4 DEF T, Index, Byte, Horner
<1>6. PICK v \in Nat : v = Radix * f[n - 1] + h[Width - n]
  BY <1>5
<1> DEFINE g == [k \in 0..n |-> IF k = n THEN v ELSE f[k]]
<1>7. g \in [0..n -> Nat] /\ g[0] = 0
  BY <1>3, <1>4, <1>6 DEF Horner
<1>8. ASSUME NEW k \in 1..n
      PROVE  g[k] = Radix * g[k - 1] + h[Width - k]
  <2>1. k - 1 \in 0..n /\ k - 1 # n /\ g[k - 1] = f[k - 1]
    BY <1>3, <1>8
  <2>2. CASE k = n
    BY <1>6, <2>1, <2>2
  <2>3. CASE k # n
    <3>1. k \in 1..(n - 1) /\ g[k] = f[k]
      BY <1>3, <1>8, <2>3
    <3> QED BY <1>4, <2>1, <3>1 DEF Horner
  <2> QED BY <2>2, <2>3
<1>9. Horner(g, h, n)
  <2> HIDE DEF g
  <2> QED BY <1>7, <1>8 DEF Horner
<1> QED BY <1>1, <1>9

(***************************************************************************)
(* Number is such a solution.                                              *)
(***************************************************************************)
LEMMA NumberIs ==
    ASSUME NEW h \in T
    PROVE  \E f : Horner(f, h, Width) /\ Number(h) = f[Width]
<1> USE WidthAssumption, RadixAssumption
<1> DEFINE Eqn(f) == f = [k \in 0..Width |->
                            IF k = 0 THEN 0 ELSE Radix * f[k - 1] + h[Width - k]]
           sum == CHOOSE f : Eqn(f)
<1>1. Number(h) = sum[Width]
  BY DEF Number
<1>2. \E f : Eqn(f)
  <2>1. PICK f : Horner(f, h, Width)
    BY HornerExists
  <2>2. \A k \in 0..Width : f[k] = IF k = 0 THEN 0 ELSE Radix * f[k - 1] + h[Width - k]
    BY <2>1 DEF Horner
  <2>3. Eqn(f)
    BY <2>1, <2>2 DEF Horner
  <2> QED BY <2>3
<1>3. Eqn(sum)
  <2> HIDE DEF Eqn
  <2> QED BY <1>2
<1> HIDE DEF sum
<1>4. Horner(sum, h, Width)
  <2> DEFINE Bad == {n \in 0..Width : sum[n] \notin Nat}
  <2>1. \A k \in 1..Width : sum[k] = Radix * sum[k - 1] + h[Width - k]
    BY <1>3
  <2>2. sum[0] = 0
    BY <1>3
  <2>3. Bad = {}
    <3> SUFFICES ASSUME Bad # {} PROVE FALSE
      OBVIOUS
    <3>0. Bad \subseteq Nat
      OBVIOUS
    <3>1. PICK n \in Bad : \A y \in Bad : n <= y
      <4> HIDE DEF Bad
      <4> QED BY <3>0, Smallest
    <3>2. n \in 1..Width /\ n - 1 \in 0..Width /\ n - 1 \notin Bad
      BY <2>2, <3>1
    <3>3. sum[n - 1] \in Nat /\ h[Width - n] \in Nat /\ Radix \in Nat
      BY <3>2 DEF T, Index, Byte
    <3>4. sum[n] = Radix * sum[n - 1] + h[Width - n]
      BY <2>1, <3>2
    <3>5. sum[n] \in Nat
      BY <3>3, <3>4
    <3> QED BY <3>1, <3>5
  <2>4. sum \in [0..Width -> Nat]
    BY <1>3, <2>3
  <2> QED BY <2>1, <2>2, <2>4 DEF Horner
<1> QED BY <1>1, <1>4

(***************************************************************************)
(* A number is not smaller than any of its bytes, nor than Radix times any *)
(* byte except the least significant one.                                  *)
(***************************************************************************)
LEMMA NumberBounds ==
    ASSUME NEW h \in T, NEW i \in Index
    PROVE  /\ Number(h) \in Nat /\ Number(h) >= h[i]
           /\ i > 0 => Number(h) >= Radix * h[i]
<1> USE WidthAssumption, RadixAssumption
<1>1. PICK f : Horner(f, h, Width) /\ Number(h) = f[Width]
  BY NumberIs
<1>2. \A k \in 0..Width : f[k] \in Nat
  BY <1>1 DEF Horner
<1>3. ASSUME NEW k \in 1..Width
      PROVE  f[k] >= f[k - 1] /\ f[k] >= h[Width - k] /\ f[k] >= Radix * f[k - 1]
  <2>1. f[k] = Radix * f[k - 1] + h[Width - k]
    BY <1>1 DEF Horner
  <2>2. f[k] \in Nat /\ f[k - 1] \in Nat /\ h[Width - k] \in Nat
    BY <1>2 DEF T, Index, Byte
  <2>3. \A a, b \in Nat : Radix * a + b >= a /\ Radix * a + b >= b /\ Radix * a + b >= Radix * a
    OBVIOUS
  <2> QED BY <2>1, <2>2, <2>3
<1>4. Width - i \in 1..Width /\ Width - (Width - i) = i /\ h[i] \in Nat
  BY DEF Index, T, Byte
<1>5. f[Width - i] >= h[i]
  BY <1>3, <1>4
<1>6. \A k \in (Width - i)..Width : f[k] >= h[i]
  <2> DEFINE Bad == {k \in (Width - i)..Width : ~(f[k] >= h[i])}
  <2> SUFFICES ASSUME Bad # {} PROVE FALSE
    OBVIOUS
  <2>0. Bad \subseteq Nat
    BY <1>4
  <2>1. PICK n \in Bad : \A y \in Bad : n <= y
    <3> HIDE DEF Bad
    <3> QED BY <2>0, Smallest
  <2>2. n \in 1..Width /\ n - 1 \in (Width - i)..Width /\ n - 1 \notin Bad
    BY <1>4, <1>5, <2>1
  <2>3. f[n - 1] >= h[i] /\ f[n] >= f[n - 1] /\ f[n] \in Nat /\ f[n - 1] \in Nat
    BY <1>2, <1>3, <2>2
  <2> QED BY <1>4, <2>1, <2>3
<1>7. Number(h) \in Nat /\ Number(h) >= h[i]
  BY <1>1, <1>2, <1>4, <1>6
<1>8. ASSUME i > 0
      PROVE  Number(h) >= Radix * h[i]
  <2>1. Width \in 1..Width /\ Width - 1 \in (Width - i)..Width /\ Width - 1 \in 0..Width
    BY <1>8 DEF Index
  <2>2. /\ f[Width - 1] >= h[i] /\ f[Width] >= Radix * f[Width - 1]
        /\ f[Width - 1] \in Nat /\ f[Width] \in Nat
    BY <1>2, <1>3, <1>6, <2>1
  <2>3. \A a, b \in Nat : a >= b => Radix * a >= Radix * b /\ Radix * a \in Nat /\ Radix * b \in Nat
    OBVIOUS
  <2> QED BY <1>1, <1>4, <2>2, <2>3
<1> QED BY <1>7, <1>8

(***************************************************************************)
(* A number below the limit has no negative byte that would fill others.   *)
(***************************************************************************)
LEMMA SmallIsFixed ==
    ASSUME NEW h \in T, NEW order \in {"little", "big"}, Number(h) < Limit(order)
    PROVE  RoundTripOf(h, order) = h
<1> USE WidthAssumption, RadixAssumption
<1> DEFINE half == Radix \div 2
<1>1. half \in Nat /\ 2 * half = Radix
  OBVIOUS
<1> HIDE DEF half
<1>2. ASSUME NEW j \in Index, NEW i \in Before(j, order)
      PROVE  ~negative(h[i])
  <2>1. i \in Index /\ h[i] \in Nat
    BY <1>2 DEF Before, T, Byte
  <2>2. Number(h) \in Nat /\ Number(h) >= h[i] /\ (i > 0 => Number(h) >= Radix * h[i])
    BY <2>1, NumberBounds
  <2>3. CASE order = "big"
    <3>1. Number(h) < half
      BY <2>3 DEF Limit, half
    <3> QED BY <1>1, <2>1, <2>2, <3>1 DEF negative
  <2>4. CASE order = "little"
    <3>1. Number(h) < Radix * half
      BY <2>4 DEF Limit, half
    <3>2. i > 0
      BY <1>2, <2>4 DEF Before, Index
    <3>3. Radix * h[i] < Radix * half
      <4>1. Radix * h[i] \in Nat /\ Radix * half \in Nat
        BY <1>1, <2>1
      <4> QED BY <2>2, <3>1, <3>2, <4>1
    <3>4. \A a, b \in Nat : Radix * a < Radix * b => a < b
      OBVIOUS
    <3>5. h[i] < half
      BY <1>1, <2>1, <3>3, <3>4
    <3> QED BY <1>1, <2>1, <3>5 DEF negative
  <2> QED BY <2>3, <2>4
<1>3. \A j \in Index : RoundTripOf(h, order)[j] = h[j]
  BY <1>2 DEF RoundTripOf
<1> QED BY <1>3 DEF RoundTripOf, T

-----------------------------------------------------------------------------
\* An array on its way encodes the number; a number that was decoded once is
\* a fixed point of the codec.
CodecInv ==
    /\ TypeOK
    /\ wire # NoArray => wire = htoa(value, host) /\ hops < MaxHops
    /\ hops = 0 => value = original
    /\ hops > 0 => RoundTripOf(value, host) = value
    /\ BytesGrow
    /\ SmallNumbersIntact

(***************************************************************************)
(* The invariant of a number that is sent from machine to machine.         *)
(***************************************************************************)
LEMMA CodecInvariance == Spec => []CodecInv
<1> USE WidthAssumption, RadixAssumption, HostsAssumption
<1>1. Init => CodecInv
  <2> SUFFICES ASSUME Init PROVE CodecInv
    OBVIOUS
  <2>1. \A k \in Index : original[k] <= value[k]
    BY DEF Init, T, Byte
  <2> QED BY <2>1 DEF Init, CodecInv, TypeOK, BytesGrow, SmallNumbersIntact
<1>2. CodecInv /\ [Next]_vars => CodecInv'
  <2> SUFFICES ASSUME CodecInv, [Next]_vars PROVE CodecInv'
    OBVIOUS
  <2>1. CASE UNCHANGED vars
    BY <2>1 DEF vars, CodecInv, TypeOK, BytesGrow, SmallNumbersIntact
  <2>2. CASE Encode
    <3>1. htoa(value, host) \in T
      BY CodecShape DEF CodecInv, TypeOK
    <3> QED BY <2>2, <3>1 DEF Encode, CodecInv, TypeOK, BytesGrow, SmallNumbersIntact
  <2>3. CASE Decode
    <3> DEFINE r == RoundTripOf(value, host)
    <3>1. /\ value' = r /\ r \in T
          /\ host' = host /\ original' = original
          /\ wire' = NoArray /\ hops' = hops + 1
      BY <2>3, CodecShape DEF Decode, CodecInv, TypeOK
    <3>2. hops' \in 0..MaxHops /\ hops' > 0
      BY <2>3, <3>1 DEF Decode, CodecInv, TypeOK
    <3>3. RoundTripOf(r, host) = r
      BY RoundTripStable DEF CodecInv, TypeOK
    <3>4. \A k \in Index : original[k] <= r[k]
      <4>1. ASSUME NEW k \in Index
            PROVE  original[k] <= r[k]
        <5>1. original[k] <= value[k] /\ value[k] <= r[k]
          BY RoundTripGrows DEF CodecInv, TypeOK, BytesGrow
        <5>2. original[k] \in Int /\ value[k] \in Int /\ r[k] \in Int
          BY <3>1 DEF CodecInv, TypeOK, T, Byte
        <5> QED BY <5>1, <5>2
      <4> QED BY <4>1
    <3> HIDE DEF r
    <3>5. TypeOK'
      BY <3>1, <3>2 DEF CodecInv, TypeOK
    <3>6. SmallNumbersIntact'
      <4> SUFFICES ASSUME Number(original) < Limit(host) PROVE value' = original
        BY <3>1 DEF SmallNumbersIntact
      <4>1. value = original /\ original \in T /\ host \in {"little", "big"}
        BY DEF CodecInv, TypeOK, SmallNumbersIntact
      <4> QED BY <3>1, <4>1, SmallIsFixed DEF r
    <3> QED BY <3>1, <3>2, <3>3, <3>4, <3>5, <3>6 DEF CodecInv, BytesGrow
  <2> QED BY <2>1, <2>2, <2>3 DEF Next
<1> QED BY <1>1, <1>2, PTL DEF Spec

(***************************************************************************)
(* htoa and atoh yield numbers and arrays of the type's width, whatever    *)
(* number they start from and whatever the byte order.                     *)
(***************************************************************************)
THEOREM CodecTypes == Spec => []TypeOK
<1>1. CodecInv => TypeOK
  BY DEF CodecInv
<1> QED BY <1>1, CodecInvariance, PTL

(***************************************************************************)
(* No byte of a number, and so no term, gets smaller on its way, however   *)
(* often it is sent on: the first half of RaftFSM's WireAssumption.        *)
(***************************************************************************)
THEOREM TermsNeverShrink == Spec => []BytesGrow
<1>1. CodecInv => BytesGrow
  BY DEF CodecInv
<1> QED BY <1>1, CodecInvariance, PTL

(***************************************************************************)
(* A number below the limit, on a little-endian machine Radix^2 / 2, comes *)
(* out of atoh as it went into htoa, however often it is sent on.          *)
(***************************************************************************)
THEOREM SmallNumbersKept == Spec => []SmallNumbersIntact
<1>1. CodecInv => SmallNumbersIntact
  BY DEF CodecInv
<1> QED BY <1>1, CodecInvariance, PTL

(***************************************************************************)
(* Only the first hop can change a number: the second half of RaftFSM's    *)
(* WireAssumption.                                                         *)
(***************************************************************************)
THEOREM FirstHopOnly == Spec => OnlyFirstHop
<1>1. CodecInv /\ [Next]_vars => [hops >= 1 => value' = value]_vars
  <2> SUFFICES ASSUME CodecInv, Next, hops >= 1 PROVE value' = value
    OBVIOUS
  <2>1. CASE Encode
    BY <2>1 DEF Encode
  <2>2. CASE Decode
    <3>1. value' = RoundTripOf(value, host)
      BY <2>2, CodecShape DEF Decode, CodecInv, TypeOK
    <3>2. hops > 0
      BY HostsAssumption DEF CodecInv, TypeOK
    <3> QED BY <3>1, <3>2 DEF CodecInv
  <2> QED BY <2>1, <2>2 DEF Next
<1> QED BY <1>1, CodecInvariance, PTL DEF Spec, OnlyFirstHop
=============================================================================
