-------------------------- MODULE MCSharedStrings --------------------------
(* Small instances of SharedStrings for TLC. *)
EXTENDS SharedStrings, TLC

CONSTANTS k1, k2, r1, r2, r3

\* One lifetime that is not positive and one that is.
AskedLifetimes == {-1, 1}

\* Requests are interchangeable.
Symmetry == Permutations(Requests)
=============================================================================
