----------------------------- MODULE MCRecovery -----------------------------
(* A writer for each namespace. *)
EXTENDS Recovery, TLC

CONSTANTS n1, n2, s1, s2

MCOwner == [s \in Setters |-> IF s = s1 THEN n1 ELSE n2]

\* Once a call has written elsewhere, or short, the properties say nothing.
Unspoiled == ~spoiled

Symmetry == Permutations(Keys) \cup Permutations(Values)
=============================================================================
