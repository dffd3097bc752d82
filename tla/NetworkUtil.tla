---------------------------- MODULE NetworkUtil ----------------------------
(***************************************************************************)
(* How a number (a term, a server id, a message type) is encoded by        *)
(* NetworkUtil::htoa and decoded by NetworkUtil::atoh (protocol.hpp).      *)
(*                                                                         *)
(* A number of type T is the function from the significance of a byte (0   *)
(* is the least significant one) to the byte, an array the function from   *)
(* an index to the char stored there.  The code's shifts and masks move    *)
(* whole bytes.  A char is signed, so static_cast<T>(a[i]) of a byte with  *)
(* its top bit set fills every higher byte of the T with ones.             *)
(***************************************************************************)
EXTENDS Integers

CONSTANTS
    Width,   \* sizeof(T)
    Radix,   \* the number of values of a char: 256
    Hosts,   \* the byte orders of machines to consider
    MaxHops  \* bound on how often a number is sent on

ASSUME WidthAssumption == Width \in Nat \ {0}

ASSUME RadixAssumption == Radix \in Nat /\ Radix >= 2 /\ Radix % 2 = 0

ASSUME HostsAssumption == Hosts \subseteq {"little", "big"} /\ MaxHops \in Nat

Index == 0..(Width - 1)
Byte == 0..(Radix - 1)
T == [Index -> Byte]

VARIABLES
    host,      \* the byte order of all machines of the cluster
    original,  \* the number that was sent first
    value,     \* the number the machine holds that has it now
    wire,      \* the encoded number, while it is on its way
    hops       \* how often it has been decoded

vars == <<host, original, value, wire, hops>>

NoArray == [i \in {} |-> 0]

TypeOK ==
    /\ host \in Hosts
    /\ original \in T
    /\ value \in T
    /\ wire \in T \cup {NoArray}
    /\ hops \in 0..MaxHops

-----------------------------------------------------------------------------
(* NetworkUtil. *)

\* The byte with the top bit of a (signed) char.
negative(c) == 2 * c >= Radix

\* Reverses the bytes unless the host is big-endian.
hton(h, order) ==
    IF order = "big" THEN h ELSE [k \in Index |-> h[Width - 1 - k]]

\* Mutant: forgets to go back to the order of the host.
ntoh_Forgotten(n, order) == n

ntoh(n, order) == hton(n, order)

\* Mutant: the loop stops one byte short.
ntoa_Short(n) == [i \in Index \ {0} |-> n[Width - 1 - i]]

\* a[0] is the most significant byte of n.
ntoa(n) == [i \in Index |-> n[Width - 1 - i]]

\* Mutant: clears the top bit instead of extending it.
aton_Masked(a) == [k \in Index |-> a[Width - 1 - k] % (Radix \div 2)]

\* Mutant: the shift of the first byte is taken to be the shift of the last.
aton_Rotated(a) == [k \in Index |-> a[(Width - k) % Width]]

\* a[i] is shifted to byte Width - 1 - i, and so are its sign bits above it.
aton(a) ==
    [k \in Index |->
        IF \E i \in Index : Width - 1 - i < k /\ negative(a[i])
        THEN Radix - 1
        ELSE a[Width - 1 - k]]

htoa(h, order) == ntoa(hton(h, order))

atoh(a, order) == ntoh(aton(a), order)

-----------------------------------------------------------------------------
(* A number that is sent from machine to machine, as a term is. *)

Init ==
    /\ host \in Hosts
    /\ original \in T
    /\ value = original
    /\ wire = NoArray
    /\ hops = 0

Encode ==
    /\ wire = NoArray
    /\ hops < MaxHops
    /\ wire' = htoa(value, host)
    /\ UNCHANGED <<host, original, value, hops>>

Decode ==
    /\ wire # NoArray
    /\ value' = atoh(wire, host)
    /\ wire' = NoArray
    /\ hops' = hops + 1
    /\ UNCHANGED <<host, original>>

Next == Encode \/ Decode

Spec == Init /\ [][Next]_vars

-----------------------------------------------------------------------------
(* Properties. *)

\* The number itself, from its most significant byte down.
Number(h) ==
    LET sum[k \in 0..Width] == IF k = 0 THEN 0 ELSE Radix * sum[k - 1] + h[Width - k]
    IN  sum[Width]

\* Below this limit no byte that is decoded before another one is negative.
Limit(order) ==
    IF order = "little" THEN Radix * (Radix \div 2) ELSE Radix \div 2

(***************************************************************************)
(* atoh never makes a number smaller, so a term cannot go back on its way  *)
(* (RaftFSM's WireAssumption): not even one of its bytes gets smaller.     *)
(***************************************************************************)
BytesGrow == \A k \in Index : original[k] <= value[k]

(***************************************************************************)
(* Small numbers arrive as they were sent: on a little-endian machine all  *)
(* numbers below 2^15.                                                     *)
(***************************************************************************)
SmallNumbersIntact == Number(original) < Limit(host) => value = original

(***************************************************************************)
(* What atoh once changed, encoding and decoding again does not change:    *)
(* only the first hop matters (RaftFSM's WireAssumption).                  *)
(***************************************************************************)
OnlyFirstHop == [][hops >= 1 => value' = value]_vars

-----------------------------------------------------------------------------
(* What the comments and the tests say of NetworkUtil. *)

(***************************************************************************)
(* protocol.hpp, atoh: "convert a 4-byte array (in network byte order)     *)
(* back to T"; protocol_test.cpp expects to get the number it encoded.     *)
(***************************************************************************)
RoundTrip == value = original

=============================================================================
