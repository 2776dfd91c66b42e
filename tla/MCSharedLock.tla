---------------------------- MODULE MCSharedLock ----------------------------
(* Two processes on one lock file: p1 with three threads, so that one of its *)
(* threads can own the lock while two wait; p2 with one.                     *)
EXTENDS SharedLock, TLC

CONSTANTS t1, t2, t3, t4, p1, p2

MCProcOf == (t1 :> p1) @@ (t2 :> p1) @@ (t3 :> p1) @@ (t4 :> p2)
=============================================================================
