----------------------------- MODULE MCCctpRelay ----------------------------
(* Small instances of CctpRelay. *)
EXTENDS CctpRelay, TLC

CONSTANTS p1, p2, c1, c2, s1, s2

\* Two processes, each with a caller and a sweeper, of which an instance uses
\* the slots it declares.
SlotsOf == [w \in Workers |-> IF w \in {c1, s1} THEN p1 ELSE p2]

Interchangeable == Permutations(Execs) \cup Permutations(Digests)
=============================================================================
