----------------------------- MODULE MCLockFiles -----------------------------
(* Root and two users, one of them with two processes.                       *)
EXTENDS LockFiles, TLC

CONSTANTS p1, p2, p3, p4, alice, bob

MCUserOf == (p1 :> Root) @@ (p2 :> alice) @@ (p3 :> alice) @@ (p4 :> bob)
=============================================================================
