----------------------------- MODULE SharedLock -----------------------------
(***************************************************************************)
(* lock.rs, SharedLock: one lock file shared by several processes.  Each   *)
(* process has one SharedLock for the file (one descriptor, a              *)
(* Mutex<OwnerState>, a Condvar); its threads call acquire and drop the    *)
(* guards they get.  Between processes the exclusion is flock(2), which    *)
(* belongs to the descriptor, so acquire waits on the condition variable   *)
(* while a thread of its own process owns the lock and only then calls     *)
(* flock -- with the state mutex held for as long as flock blocks.         *)
(*                                                                         *)
(* A step is a stretch of code no other thread or process can observe the  *)
(* inside of: under the state mutex everything is one step, except that    *)
(* the kernel's flock changes hands in a step of its own.                  *)
(***************************************************************************)
EXTENDS Naturals

CONSTANTS Threads,    \* every thread of every process that uses mmreg
          Procs,      \* those processes
          ProcOf,     \* [Threads -> Procs]
          Peers,      \* other programs that flock their own descriptor
          NoThread,   \* owner: None
          NoHolder,   \* nobody holds the flock
          MaxDepth,   \* bound: guards one thread nests
          MaxCalls    \* bound: outermost or nested acquire calls per thread

ASSUME ConstantsAssumption ==
    /\ ProcOf \in [Threads -> Procs]
    /\ NoThread \notin Threads
    /\ NoHolder \notin Procs \cup Peers
    /\ Procs \cap Peers = {}
    /\ MaxDepth \in Nat \ {0}
    /\ MaxCalls \in Nat

VARIABLES
    pc,       \* where in acquire or release each thread is
    guards,   \* guards[t]: LockGuards t holds and has not begun to drop
    calls,    \* acquire (or peer flock) calls made so far
    owner,    \* owner[p]: OwnerState.owner of p's SharedLock
    depth,    \* depth[p]: OwnerState.depth
    mutex,    \* mutex[p]: thread holding the state Mutex across a flock call
    flock,    \* whose descriptor holds the kernel's exclusive lock
    alive     \* processes not yet exited or killed

vars == <<pc, guards, calls, owner, depth, mutex, flock, alive>>

PCs == {"idle",      \* outside lock.rs, with or without guards
        "acquire",   \* in acquire, before the state mutex
        "asleep",    \* in cvar.wait
        "woken",     \* returned by the condvar, before the state mutex
        "flock",     \* in lock_exclusive, state mutex held
        "granted",   \* flock returned 0, owner not yet written
        "release",   \* in release, before the state mutex
        "unlocked",  \* flock(LOCK_UN) done, owner not yet cleared
        "dead"}

Asleep(p) == {t \in Threads : ProcOf[t] = p /\ pc[t] = "asleep"}

Init ==
    /\ pc = [t \in Threads |-> "idle"]
    /\ guards = [t \in Threads |-> 0]
    /\ calls = [c \in Threads \cup Peers |-> 0]
    /\ owner = [p \in Procs |-> NoThread]
    /\ depth = [p \in Procs |-> 0]
    /\ mutex = [p \in Procs |-> NoThread]
    /\ flock = NoHolder
    /\ alive = Procs

-----------------------------------------------------------------------------
(* acquire *)

\* DeviceLock::lock: a thread outside the module asks for a guard.
CallAcquire(t) ==
    /\ pc[t] = "idle"
    /\ guards[t] < MaxDepth
    /\ calls[t] < MaxCalls
    /\ pc' = [pc EXCEPT ![t] = "acquire"]
    /\ calls' = [calls EXCEPT ![t] = @ + 1]
    /\ UNCHANGED <<guards, owner, depth, mutex, flock, alive>>

\* Mutant of Reenter: a nested acquire counts twice.
ReenterTwice(t) ==
    LET p == ProcOf[t] IN
    /\ pc[t] = "acquire" /\ mutex[p] = NoThread /\ owner[p] = t
    /\ depth' = [depth EXCEPT ![p] = @ + 2]
    /\ guards' = [guards EXCEPT ![t] = @ + 1]
    /\ pc' = [pc EXCEPT ![t] = "idle"]
    /\ UNCHANGED <<calls, owner, mutex, flock, alive>>

\* Mutant of Reenter: any owner of the process will do, not only this thread.
ReenterAnyOwner(t) ==
    LET p == ProcOf[t] IN
    /\ pc[t] = "acquire" /\ mutex[p] = NoThread /\ owner[p] # NoThread
    /\ depth' = [depth EXCEPT ![p] = @ + 1]
    /\ guards' = [guards EXCEPT ![t] = @ + 1]
    /\ pc' = [pc EXCEPT ![t] = "idle"]
    /\ UNCHANGED <<calls, owner, mutex, flock, alive>>

\* The holding thread comes back: one more level, no flock.
Reenter(t) ==
    LET p == ProcOf[t] IN
    /\ pc[t] = "acquire"
    /\ mutex[p] = NoThread
    /\ owner[p] = t
    /\ depth' = [depth EXCEPT ![p] = @ + 1]
    /\ guards' = [guards EXCEPT ![t] = @ + 1]
    /\ pc' = [pc EXCEPT ![t] = "idle"]
    /\ UNCHANGED <<calls, owner, mutex, flock, alive>>

\* while state.owner.is_some(): cvar.wait releases the mutex and sleeps, atomically.
WaitForOwner(t) ==
    LET p == ProcOf[t] IN
    /\ \/ pc[t] = "acquire" /\ owner[p] # t
       \/ pc[t] = "woken"
    /\ mutex[p] = NoThread
    /\ owner[p] # NoThread
    /\ pc' = [pc EXCEPT ![t] = "asleep"]
    /\ UNCHANGED <<guards, calls, owner, depth, mutex, flock, alive>>

\* No owner in this process: call lock_exclusive, keeping the mutex.
CallFlock(t) ==
    LET p == ProcOf[t] IN
    /\ pc[t] \in {"acquire", "woken"}
    /\ mutex[p] = NoThread
    /\ owner[p] = NoThread
    /\ mutex' = [mutex EXCEPT ![p] = t]
    /\ pc' = [pc EXCEPT ![t] = "flock"]
    /\ UNCHANGED <<guards, calls, owner, depth, flock, alive>>

\* The kernel grants the exclusive lock to the process's descriptor.  A flock
\* interrupted by a signal (EINTR) is called again: the thread stays in "flock".
FlockGranted(t) ==
    /\ pc[t] = "flock"
    /\ flock = NoHolder
    /\ flock' = ProcOf[t]
    /\ pc' = [pc EXCEPT ![t] = "granted"]
    /\ UNCHANGED <<guards, calls, owner, depth, mutex, alive>>

\* owner and depth are written and the guard returned; the mutex is dropped.
TakeOwnership(t) ==
    LET p == ProcOf[t] IN
    /\ pc[t] = "granted"
    /\ owner' = [owner EXCEPT ![p] = t]
    /\ depth' = [depth EXCEPT ![p] = 1]
    /\ mutex' = [mutex EXCEPT ![p] = NoThread]
    /\ guards' = [guards EXCEPT ![t] = @ + 1]
    /\ pc' = [pc EXCEPT ![t] = "idle"]
    /\ UNCHANGED <<calls, flock, alive>>

\* cvar.notify_one: wakes one sleeper of p, any one, if there is one.
NotifyOne(p, t) ==
    IF Asleep(p) = {}
    THEN pc' = [pc EXCEPT ![t] = "idle"]
    ELSE \E w \in Asleep(p) : pc' = [pc EXCEPT ![t] = "idle", ![w] = "woken"]

\* Mutant of FlockFails: the error path does not notify.
FlockFailsSilently(t) ==
    /\ pc[t] = "flock"
    /\ pc' = [pc EXCEPT ![t] = "idle"]
    /\ mutex' = [mutex EXCEPT ![ProcOf[t]] = NoThread]
    /\ UNCHANGED <<guards, calls, owner, depth, flock, alive>>

\* flock fails (ENOLCK, EIO): pass the wakeup on and return LockAcquire.
FlockFails(t) ==
    LET p == ProcOf[t] IN
    /\ pc[t] = "flock"
    /\ NotifyOne(p, t)
    /\ mutex' = [mutex EXCEPT ![p] = NoThread]
    /\ UNCHANGED <<guards, calls, owner, depth, flock, alive>>

\* Condvar: wait may return without a notification.
SpuriousWake(t) ==
    /\ pc[t] = "asleep"
    /\ pc' = [pc EXCEPT ![t] = "woken"]
    /\ UNCHANGED <<guards, calls, owner, depth, mutex, flock, alive>>

-----------------------------------------------------------------------------
(* release *)

\* LockGuard::drop begins.
DropGuard(t) ==
    /\ pc[t] = "idle"
    /\ guards[t] > 0
    /\ guards' = [guards EXCEPT ![t] = @ - 1]
    /\ pc' = [pc EXCEPT ![t] = "release"]
    /\ UNCHANGED <<calls, owner, depth, mutex, flock, alive>>

\* Mutant of ReleaseNested: every release unlocks the file.
ReleaseNestedUnlocks(t) ==
    LET p == ProcOf[t] IN
    /\ pc[t] = "release" /\ mutex[p] = NoThread /\ depth[p] > 1
    /\ depth' = [depth EXCEPT ![p] = @ - 1]
    /\ flock' = IF flock = p THEN NoHolder ELSE flock
    /\ pc' = [pc EXCEPT ![t] = "idle"]
    /\ UNCHANGED <<guards, calls, owner, mutex, alive>>

\* A nested guard only lowers the depth.
ReleaseNested(t) ==
    LET p == ProcOf[t] IN
    /\ pc[t] = "release"
    /\ mutex[p] = NoThread
    /\ depth[p] > 1
    /\ depth' = [depth EXCEPT ![p] = @ - 1]
    /\ pc' = [pc EXCEPT ![t] = "idle"]
    /\ UNCHANGED <<guards, calls, owner, mutex, flock, alive>>

\* Mutant of ReleaseLast: the file is not unlocked.
ReleaseLastKeepsFlock(t) ==
    LET p == ProcOf[t] IN
    /\ pc[t] = "release" /\ mutex[p] = NoThread /\ depth[p] = 1
    /\ depth' = [depth EXCEPT ![p] = 0]
    /\ mutex' = [mutex EXCEPT ![p] = t]
    /\ pc' = [pc EXCEPT ![t] = "unlocked"]
    /\ UNCHANGED <<guards, calls, owner, flock, alive>>

\* The outermost guard: depth 0, flock(LOCK_UN), the mutex still held.
ReleaseLast(t) ==
    LET p == ProcOf[t] IN
    /\ pc[t] = "release"
    /\ mutex[p] = NoThread
    /\ depth[p] = 1
    /\ depth' = [depth EXCEPT ![p] = 0]
    /\ flock' = IF flock = p THEN NoHolder ELSE flock
    /\ mutex' = [mutex EXCEPT ![p] = t]
    /\ pc' = [pc EXCEPT ![t] = "unlocked"]
    /\ UNCHANGED <<guards, calls, owner, alive>>

\* Mutant of FinishRelease: the waiters are not notified.
FinishReleaseSilently(t) ==
    LET p == ProcOf[t] IN
    /\ pc[t] = "unlocked"
    /\ owner' = [owner EXCEPT ![p] = NoThread]
    /\ mutex' = [mutex EXCEPT ![p] = NoThread]
    /\ pc' = [pc EXCEPT ![t] = "idle"]
    /\ UNCHANGED <<guards, calls, depth, flock, alive>>

\* owner = None, notify_one, mutex dropped.
FinishRelease(t) ==
    LET p == ProcOf[t] IN
    /\ pc[t] = "unlocked"
    /\ owner' = [owner EXCEPT ![p] = NoThread]
    /\ mutex' = [mutex EXCEPT ![p] = NoThread]
    /\ NotifyOne(p, t)
    /\ UNCHANGED <<guards, calls, depth, flock, alive>>

-----------------------------------------------------------------------------
(* The rest of the world *)

\* Process p exits or is killed anywhere: its memory is gone and the kernel
\* closes its descriptor, which drops the flock.
Crash(p) ==
    /\ p \in alive
    /\ alive' = alive \ {p}
    /\ flock' = IF flock = p THEN NoHolder ELSE flock
    /\ pc' = [t \in Threads |-> IF ProcOf[t] = p THEN "dead" ELSE pc[t]]
    /\ guards' = [t \in Threads |-> IF ProcOf[t] = p THEN 0 ELSE guards[t]]
    /\ owner' = [owner EXCEPT ![p] = NoThread]
    /\ depth' = [depth EXCEPT ![p] = 0]
    /\ mutex' = [mutex EXCEPT ![p] = NoThread]
    /\ UNCHANGED calls

\* A program that follows the documented protocol with its own descriptor.
PeerLock(q) ==
    /\ flock = NoHolder
    /\ calls[q] < MaxCalls
    /\ flock' = q
    /\ calls' = [calls EXCEPT ![q] = @ + 1]
    /\ UNCHANGED <<pc, guards, owner, depth, mutex, alive>>

PeerUnlock(q) ==
    /\ flock = q
    /\ flock' = NoHolder
    /\ UNCHANGED <<pc, guards, calls, owner, depth, mutex, alive>>

-----------------------------------------------------------------------------
(* What a thread that runs keeps doing; the steps the environment chooses. *)
Step(t) ==
    \/ Reenter(t) \/ WaitForOwner(t) \/ CallFlock(t)
    \/ FlockGranted(t) \/ TakeOwnership(t)
    \/ DropGuard(t) \/ ReleaseNested(t) \/ ReleaseLast(t) \/ FinishRelease(t)

Environment ==
    \/ \E t \in Threads : CallAcquire(t) \/ FlockFails(t) \/ SpuriousWake(t)
    \/ \E p \in Procs : Crash(p)
    \/ \E q \in Peers : PeerLock(q)

Next ==
    \/ \E t \in Threads : Step(t)
    \/ \E q \in Peers : PeerUnlock(q)
    \/ Environment

\* The scheduler runs every thread, every guard is dropped in the end, every
\* peer unlocks; calls, failures, crashes and spurious wakeups need not happen.
Fairness ==
    /\ \A t \in Threads : WF_vars(Step(t))
    /\ \A q \in Peers : WF_vars(PeerUnlock(q))

Spec == Init /\ [][Next]_vars

FairSpec == Spec /\ Fairness

-----------------------------------------------------------------------------
(* Properties *)

\* Every variable stays in its domain; depth and guards never go below zero
\* (release computes depth -= 1 on a usize) nor above the bound.
TypeOK ==
    /\ pc \in [Threads -> PCs]
    /\ guards \in [Threads -> 0..MaxDepth]
    /\ calls \in [Threads \cup Peers -> 0..MaxCalls]
    /\ owner \in [Procs -> Threads \cup {NoThread}]
    /\ depth \in [Procs -> 0..MaxDepth]
    /\ mutex \in [Procs -> Threads \cup {NoThread}]
    /\ flock \in Procs \cup Peers \cup {NoHolder}
    /\ alive \in SUBSET Procs

\* While a thread holds a guard its process holds the flock, so no peer and no
\* other process is inside, and no other thread of any process has a guard.
Exclusion ==
    \A t \in Threads :
        guards[t] > 0 => /\ flock = ProcOf[t]
                         /\ \A u \in Threads \ {t} : guards[u] = 0

\* A process never keeps the flock with nobody left to drop it: some thread of
\* it holds a guard, is about to get one, or is on its way through release.
FlockHasReleaser ==
    \A p \in Procs :
        flock = p => \E t \in Threads :
                        /\ ProcOf[t] = p
                        /\ guards[t] > 0 \/ pc[t] \in {"granted", "release"}

\* Threads asleep on the condition variable are never forgotten: the lock has
\* an owner in their process (whose release notifies), or a thread already
\* woken or already past the wait is going to own it or to notify.
NoLostWakeup ==
    \A p \in Procs :
        Asleep(p) # {} =>
            \/ owner[p] # NoThread
            \/ \E t \in Threads :
                  ProcOf[t] = p /\ pc[t] \in {"woken", "flock", "granted"}

\* Every acquire call returns, with a guard or an error, unless its process
\* dies: no interleaving of releases, failures, crashes and wakeups strands it.
EveryAcquireReturns ==
    \A t \in Threads : pc[t] = "acquire" ~> pc[t] \in {"idle", "dead"}

\* acquire and drop look atomic to their callers.
Abstract == INSTANCE ReentrantLock WITH
    Threads <- Threads, Procs <- Procs, ProcOf <- ProcOf, guards <- guards
ImplementsReentrantLock == Abstract!Spec
=============================================================================
