--------------------------- MODULE MCLockRegistry ---------------------------
(* Two Devices on the same base page, and a second page both windows cover.  *)
EXTENDS LockRegistry, TLC

CONSTANTS d1, d2, k1, k2

MCBaseKey == (d1 :> k1) @@ (d2 :> k1)

Symmetry == Permutations(Threads) \cup Permutations(Locks) \cup Permutations(Devices)
=============================================================================
