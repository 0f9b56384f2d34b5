----------------------------- MODULE MCAtWriter -----------------------------
(* Instances of AtWriter: interchangeable sessions.                        *)
EXTENDS AtWriter, TLC

CONSTANTS s1, s2

Symmetry == Permutations(Sessions)
=============================================================================
