-------------------------------- MODULE CApi --------------------------------
(***************************************************************************)
(* The C ABI (bindings/c/src/lib.rs): mmreg_open_*, mmreg_close,           *)
(* mmreg_lock and mmreg_unlock, and the register functions, called by the  *)
(* threads of one process.  An mmreg_dev keeps the guards of its sequences *)
(* on a stack behind a mutex; a guard records the lock it holds and not    *)
(* the thread that took it, so mmreg_unlock asks the lock for its owner.   *)
(*                                                                         *)
(* All handles are of one window, with one reentrant lock: `owner' and     *)
(* `depth' are those of its SharedLock.  Callers keep the documented       *)
(* contract: a handle is closed once, while no call uses it.               *)
(***************************************************************************)
EXTENDS Naturals, FiniteSets

CONSTANTS Threads, Handles, NoThread, NoHandle,
          MaxCalls    \* bound: calls per thread, mmreg_unlock not counted

ASSUME CApiAssumption ==
    NoThread \notin Threads /\ NoHandle \notin Handles /\ MaxCalls \in Nat

VARIABLES
    pc, at,      \* where in a call each thread is, and on which handle
    open,        \* handles mmreg_open_* returned and nobody has closed
    guards,      \* guards[h]: length of the guard stack of h
    owner, depth,
    sequences,   \* sequences[t][h]: mmreg_lock less mmreg_unlock calls of t that returned 0
    calls

vars == <<pc, at, open, guards, owner, depth, sequences, calls>>

Init ==
    /\ pc = [t \in Threads |-> "idle"]
    /\ at = [t \in Threads |-> NoHandle]
    /\ open = {}
    /\ guards = [h \in Handles |-> 0]
    /\ owner = NoThread /\ depth = 0
    /\ sequences = [t \in Threads |-> [h \in Handles |-> 0]]
    /\ calls = [t \in Threads |-> 0]

Go(t, where) == pc' = [pc EXCEPT ![t] = where]

Return(t) == Go(t, "idle") /\ at' = [at EXCEPT ![t] = NoHandle]

Call(t, h, where) ==
    /\ pc[t] = "idle" /\ calls[t] < MaxCalls
    /\ calls' = [calls EXCEPT ![t] = @ + 1]
    /\ at' = [at EXCEPT ![t] = h]
    /\ Go(t, where)

\* SharedLock::release: the guard need not be dropped by the thread that owns it.
Release ==
    /\ depth' = depth - 1
    /\ owner' = IF depth = 1 THEN NoThread ELSE owner

-----------------------------------------------------------------------------
\* open_with_builder succeeds; a failed open returns NULL and leaves nothing.
Open(t, h) ==
    /\ pc[t] = "idle" /\ calls[t] < MaxCalls
    /\ h \notin open /\ \A u \in Threads : at[u] # h
    /\ calls' = [calls EXCEPT ![t] = @ + 1]
    /\ open' = open \cup {h}
    /\ UNCHANGED <<pc, at, guards, owner, depth, sequences>>

\* mmreg_lock enters Device::lock.
CallLock(t, h) ==
    /\ h \in open
    /\ Call(t, h, "lock")
    /\ UNCHANGED <<open, guards, owner, depth, sequences>>

\* mmreg_rd*, mmreg_wr* and mmreg_update32 take the lock for one access.
CallAccess(t, h) ==
    /\ h \in open
    /\ Call(t, h, "access")
    /\ UNCHANGED <<open, guards, owner, depth, sequences>>

\* Mutant of Acquire: whoever has the lock.
AcquireAnyway(t) ==
    /\ pc[t] \in {"lock", "access"}
    /\ owner' = t
    /\ depth' = depth + 1
    /\ Go(t, IF pc[t] = "lock" THEN "push" ELSE "drop")
    /\ UNCHANGED <<at, open, guards, sequences, calls>>

\* acquire returns a guard: the access is made and ends, a sequence's is kept.
Acquire(t) ==
    /\ pc[t] \in {"lock", "access"}
    /\ owner \in {NoThread, t}
    /\ owner' = t
    /\ depth' = depth + 1
    /\ Go(t, IF pc[t] = "lock" THEN "push" ELSE "drop")
    /\ UNCHANGED <<at, open, guards, sequences, calls>>

\* The lock cannot be opened or taken: -1 and the thread's last error.
AcquireFails(t) ==
    /\ pc[t] \in {"lock", "access"}
    /\ Return(t)
    /\ UNCHANGED <<open, guards, owner, depth, sequences, calls>>

\* mmreg_lock pushes the guard and returns 0.
Push(t) ==
    LET h == at[t] IN
    /\ pc[t] = "push"
    /\ guards' = [guards EXCEPT ![h] = @ + 1]
    /\ sequences' = [sequences EXCEPT ![t][h] = @ + 1]
    /\ Return(t)
    /\ UNCHANGED <<open, owner, depth, calls>>

\* Mutant of Unlock: any thread pops the newest guard.
UnlockUnchecked(t, h) ==
    /\ pc[t] = "idle" /\ h \in open /\ guards[h] > 0
    /\ guards' = [guards EXCEPT ![h] = @ - 1]
    /\ sequences' = [sequences EXCEPT ![t][h] = IF @ > 0 THEN @ - 1 ELSE @]
    /\ at' = [at EXCEPT ![t] = h]
    /\ Go(t, "drop")
    /\ UNCHANGED <<open, owner, depth, calls>>

\* mmreg_unlock: pops the newest guard of the stack if the calling thread owns
\* its lock.  With an empty stack, or from another thread, it returns -1.
Unlock(t, h) ==
    /\ pc[t] = "idle" /\ h \in open
    /\ guards[h] > 0
    /\ owner = t
    /\ guards' = [guards EXCEPT ![h] = @ - 1]
    /\ sequences' = [sequences EXCEPT ![t][h] = @ - 1]
    /\ at' = [at EXCEPT ![t] = h]
    /\ Go(t, "drop")
    /\ UNCHANGED <<open, owner, depth, calls>>

\* Mutant of DropGuard: the last guard leaves its owner behind.
DropGuardKeepsOwner(t) ==
    /\ pc[t] = "drop"
    /\ depth' = depth - 1
    /\ Return(t)
    /\ UNCHANGED <<open, guards, owner, sequences, calls>>

\* The popped guard, or the one of an access, is dropped.
DropGuard(t) ==
    /\ pc[t] = "drop"
    /\ Release
    /\ Return(t)
    /\ UNCHANGED <<open, guards, sequences, calls>>

-----------------------------------------------------------------------------
\* mmreg_close, by any thread: nobody may use the handle from here on.
Close(t, h) ==
    /\ h \in open
    /\ \A u \in Threads : at[u] # h
    /\ Call(t, h, "close")
    /\ open' = open \ {h}
    /\ sequences' = [u \in Threads |-> [sequences[u] EXCEPT ![h] = 0]]
    /\ UNCHANGED <<guards, owner, depth>>

\* Mutant of CloseGuard: the stack is forgotten, its guards never dropped.
CloseForgets(t) ==
    /\ pc[t] = "close" /\ guards[at[t]] > 0
    /\ guards' = [guards EXCEPT ![at[t]] = 0]
    /\ UNCHANGED <<pc, at, open, owner, depth, sequences, calls>>

\* The guards still on the stack are dropped, one by one, ...
CloseGuard(t) ==
    /\ pc[t] = "close" /\ guards[at[t]] > 0
    /\ guards' = [guards EXCEPT ![at[t]] = @ - 1]
    /\ Release
    /\ UNCHANGED <<pc, at, open, sequences, calls>>

\* ... and then the Device.
FinishClose(t) ==
    /\ pc[t] = "close" /\ guards[at[t]] = 0
    /\ Return(t)
    /\ UNCHANGED <<open, guards, owner, depth, sequences, calls>>

-----------------------------------------------------------------------------
\* What a running thread keeps doing; ending its sequences is part of it.
Step(t) ==
    \/ Acquire(t) \/ Push(t) \/ DropGuard(t) \/ CloseGuard(t) \/ FinishClose(t)
    \/ \E h \in Handles : Unlock(t, h)

Environment(t) ==
    \/ AcquireFails(t)
    \/ \E h \in Handles : Open(t, h) \/ CallLock(t, h) \/ CallAccess(t, h) \/ Close(t, h)

Next == \E t \in Threads : Step(t) \/ Environment(t)

Spec == Init /\ [][Next]_vars

FairSpec == Spec /\ \A t \in Threads : WF_vars(Step(t))

-----------------------------------------------------------------------------
(* Properties *)

TypeOK ==
    /\ pc \in [Threads -> {"idle", "lock", "access", "push", "drop", "close"}]
    /\ at \in [Threads -> Handles \cup {NoHandle}]
    /\ open \subseteq Handles
    /\ guards \in [Handles -> Nat]
    /\ owner \in Threads \cup {NoThread}
    /\ depth \in Nat
    /\ sequences \in [Threads -> [Handles -> Nat]]
    /\ calls \in [Threads -> 0..MaxCalls]

\* "held until a matching mmreg_unlock call on the same thread (or
\* mmreg_close)": no other thread's call ends a sequence, and the unlock that
\* ends it will find a guard to pop.
HeldUntilUnlock ==
    \A t \in Threads, h \in open :
        sequences[t][h] > 0 => owner = t /\ guards[h] > 0

\* The guards on the stacks, and those in calls.
Stacked == UNION {{h} \X (1..guards[h]) : h \in Handles}
InFlight == {t \in Threads : pc[t] \in {"push", "drop"}}

\* The lock is held exactly as deep as there are guards on the stacks of all
\* handles and in calls: closing a handle in mid-sequence, from whichever
\* thread, leaks none and releases none of another handle's.
GuardsMatchDepth == depth = Cardinality(Stacked) + Cardinality(InFlight)

\* Every call returns: a thread blocked in mmreg_lock or in an access gets the
\* lock once the others end their sequences or their handles are closed.
EveryCallReturns == \A t \in Threads : pc[t] # "idle" ~> pc[t] = "idle"
=============================================================================
