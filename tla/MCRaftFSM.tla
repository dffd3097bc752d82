----------------------------- MODULE MCRaftFSM -----------------------------
(* Small instances of RaftFSM for TLC. *)
EXTENDS RaftFSM, TLC

\* Terms below 2^15 pass through NetworkUtil unchanged (module NetworkUtil).
SmallTermWire(t) == t

\* A codec that enlarges some terms, as NetworkUtil does to some from 2^15 on.
EnlargingWire(t) == IF t = MaxTerm - 1 THEN MaxTerm ELSE t

Symmetry == Permutations(Server \ (Releasers \cup Stoppers))
=============================================================================
