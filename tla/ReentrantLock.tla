--------------------------- MODULE ReentrantLock ---------------------------
(***************************************************************************)
(* What lock.rs promises its callers: one lock per device or page file,    *)
(* held by at most one thread of at most one process, counted per holder.  *)
(* A LockGuard is taken in one atomic step, however many steps acquire     *)
(* needs for it; a process that dies gives up its guards.  SharedLock      *)
(* implements this module.                                                 *)
(***************************************************************************)
EXTENDS Naturals

CONSTANTS Threads,   \* every thread of every process using the file
          Procs,     \* the processes
          ProcOf     \* the process a thread runs in

VARIABLE guards      \* guards[t]: the LockGuards thread t holds

Init == guards = [t \in Threads |-> 0]

\* acquire returns a guard: first or nested, never while another thread has one.
TakeGuard(t) ==
    /\ \A u \in Threads \ {t} : guards[u] = 0
    /\ guards' = [guards EXCEPT ![t] = @ + 1]

\* A guard is dropped.
DropGuard(t) ==
    /\ guards[t] > 0
    /\ guards' = [guards EXCEPT ![t] = @ - 1]

\* The process exits or is killed; the kernel closes its descriptors.
Die(p) ==
    guards' = [t \in Threads |-> IF ProcOf[t] = p THEN 0 ELSE guards[t]]

Next ==
    \/ \E t \in Threads : TakeGuard(t) \/ DropGuard(t)
    \/ \E p \in Procs : Die(p)

Spec == Init /\ [][Next]_guards
=============================================================================
