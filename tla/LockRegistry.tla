---------------------------- MODULE LockRegistry ----------------------------
(***************************************************************************)
(* The per-process registry of lock files (lock.rs) and its users in       *)
(* device.rs: one process whose threads open lock files, share SharedLocks *)
(* by file key, cache the base page's lock in a Device, take guards and    *)
(* drop everything again.                                                  *)
(*                                                                         *)
(* The registry holds Weak references under a Mutex, but the last Arc of a *)
(* SharedLock may be dropped at any moment by a thread that does not hold  *)
(* that Mutex: between retain and upgrade, for instance.  A SharedLock is  *)
(* its allocation, which is not reused while a Weak points to it.  The     *)
(* kernel's exclusive lock belongs to the open file, so flock names the    *)
(* SharedLock whose descriptor has it; owner is SharedLock's own state.    *)
(***************************************************************************)
EXTENDS Naturals

CONSTANTS Threads,
          Keys,       \* (st_dev, st_ino) of the lock files
          Devices,    \* Device values of the process
          BaseKey,    \* [Devices -> Keys]: lock file of a Device's base page
          Locks,      \* allocations a SharedLock can have
          Nothing,    \* None
          MaxNest,    \* bound: guards of one lock a thread nests
          MaxCalls    \* bound: accesses per thread

ASSUME RegistryAssumption ==
    /\ BaseKey \in [Devices -> Keys]
    /\ Nothing \notin Threads \cup Keys \cup Devices \cup Locks
    /\ MaxNest \in Nat \ {0} /\ MaxCalls \in Nat

VARIABLES
    pc,       \* where in lock_at each thread is
    target,   \* target[t]: [dev, key] of the access in progress
    ref,      \* ref[t]: the SharedLock of t's own DeviceLock value
    guards,   \* guards[t][l]: LockGuards of l that t holds
    cached,   \* cached[d]: base_page_lock of Device d
    table,    \* the registry's entries: <<key, lock>>
    mutex,    \* thread inside the registry's Mutex
    key,      \* key[l]: the file a SharedLock is for
    open,     \* SharedLocks whose descriptor is open
    owner,    \* owner[l]: thread owning l
    flock,    \* flock[k]: the SharedLock holding the kernel's lock on file k
    calls

vars == <<pc, target, ref, guards, cached, table, mutex, key, open, owner, flock, calls>>

PCs == {"idle", "lock_at", "open", "registry", "upgrade", "got", "acquire"}

\* Mutant of Live: a guard does not keep an Arc.
LiveWithoutGuards(l) ==
    \/ \E t \in Threads : ref[t] = l
    \/ \E d \in Devices : cached[d] = l

\* The Arcs of l: DeviceLock values of threads, cached ones, and guards.
Live(l) ==
    \/ \E t \in Threads : ref[t] = l \/ guards[t][l] > 0
    \/ \E d \in Devices : cached[d] = l

NoTarget == [dev |-> Nothing, key |-> Nothing]

Init ==
    /\ pc = [t \in Threads |-> "idle"]
    /\ target = [t \in Threads |-> NoTarget]
    /\ ref = [t \in Threads |-> Nothing]
    /\ guards = [t \in Threads |-> [l \in Locks |-> 0]]
    /\ cached = [d \in Devices |-> Nothing]
    /\ table = {}
    /\ mutex = Nothing
    /\ key = [l \in Locks |-> Nothing]
    /\ open = {}
    /\ owner = [l \in Locks |-> Nothing]
    /\ flock = [k \in Keys |-> Nothing]
    /\ calls = [t \in Threads |-> 0]

-----------------------------------------------------------------------------
(* Device::lock_at and lock_page_in *)

\* An access through Device d to a register whose page has lock file k.
CallAccess(t, d, k) ==
    /\ pc[t] = "idle" /\ calls[t] < MaxCalls
    /\ \A l \in Locks : guards[t][l] < MaxNest
    /\ calls' = [calls EXCEPT ![t] = @ + 1]
    /\ target' = [target EXCEPT ![t] = [dev |-> d, key |-> k]]
    /\ pc' = [pc EXCEPT ![t] = "lock_at"]
    /\ UNCHANGED <<ref, guards, cached, table, mutex, key, open, owner, flock>>

OnBasePage(t) == target[t].key = BaseKey[target[t].dev]

\* base_page_lock.get(): lock the cached one, or open the page's file.
LookInCache(t) ==
    /\ pc[t] = "lock_at"
    /\ pc' = [pc EXCEPT ![t] = IF OnBasePage(t) /\ cached[target[t].dev] # Nothing
                               THEN "acquire" ELSE "open"]
    /\ UNCHANGED <<target, ref, guards, cached, table, mutex, key, open, owner, flock, calls>>

\* open_lock_file succeeds: t has a descriptor of its own, not yet registered.
OpenFile(t) ==
    /\ pc[t] = "open"
    /\ pc' = [pc EXCEPT ![t] = "registry"]
    /\ UNCHANGED <<target, ref, guards, cached, table, mutex, key, open, owner, flock, calls>>

Return(t) ==
    /\ pc' = [pc EXCEPT ![t] = "idle"]
    /\ target' = [target EXCEPT ![t] = NoTarget]
    /\ ref' = [ref EXCEPT ![t] = Nothing]

OpenFails(t) ==
    /\ pc[t] = "open"
    /\ Return(t)
    /\ UNCHANGED <<guards, cached, table, mutex, key, open, owner, flock, calls>>

-----------------------------------------------------------------------------
(* insert_or_get_shared_lock *)

\* Lock the registry and forget the entries whose SharedLock is gone.
Retain(t) ==
    /\ pc[t] = "registry" /\ mutex = Nothing
    /\ mutex' = t
    /\ table' = {e \in table : Live(e[2])}
    /\ pc' = [pc EXCEPT ![t] = "upgrade"]
    /\ UNCHANGED <<target, ref, guards, cached, key, open, owner, flock, calls>>

\* An entry for the key that can still be upgraded: share it, and close the
\* descriptor just opened.
Share(t, l) ==
    /\ pc[t] = "upgrade"
    /\ <<target[t].key, l>> \in table /\ Live(l)
    /\ ref' = [ref EXCEPT ![t] = l]
    /\ mutex' = Nothing
    /\ pc' = [pc EXCEPT ![t] = "got"]
    /\ UNCHANGED <<target, guards, cached, table, key, open, owner, flock, calls>>

\* Mutant of Create: a new SharedLock for every opened file.
CreateAlways(t, l) ==
    LET k == target[t].key IN
    /\ pc[t] = "upgrade"
    /\ ~Live(l) /\ l \notin open /\ \A e \in table : e[2] # l
    /\ key' = [key EXCEPT ![l] = k]
    /\ open' = open \cup {l}
    /\ table' = table \cup {<<k, l>>}
    /\ ref' = [ref EXCEPT ![t] = l]
    /\ mutex' = Nothing
    /\ pc' = [pc EXCEPT ![t] = "got"]
    /\ UNCHANGED <<target, guards, cached, owner, flock, calls>>

\* No entry for the key, or the one found died since retain: a new SharedLock
\* around the descriptor just opened.
Create(t, l) ==
    LET k == target[t].key
        found == {m \in Locks : <<k, m>> \in table} IN
    /\ pc[t] = "upgrade"
    /\ found = {} \/ \E m \in found : ~Live(m)
    /\ ~Live(l) /\ l \notin open /\ \A e \in table : e[2] # l
    /\ key' = [key EXCEPT ![l] = k]
    /\ open' = open \cup {l}
    /\ table' = table \cup {<<k, l>>}
    /\ ref' = [ref EXCEPT ![t] = l]
    /\ mutex' = Nothing
    /\ pc' = [pc EXCEPT ![t] = "got"]
    /\ UNCHANGED <<target, guards, cached, owner, flock, calls>>

-----------------------------------------------------------------------------
\* base_page_lock.set: keep the DeviceLock in the Device, or lose the race to
\* another thread and drop it.  Other pages are not cached.
KeepLock(t) ==
    LET d == target[t].dev IN
    /\ pc[t] = "got"
    /\ IF OnBasePage(t)
       THEN /\ cached' = [cached EXCEPT ![d] = IF @ = Nothing THEN ref[t] ELSE @]
            /\ ref' = [ref EXCEPT ![t] = Nothing]
       ELSE UNCHANGED <<cached, ref>>
    /\ pc' = [pc EXCEPT ![t] = "acquire"]
    /\ UNCHANGED <<target, guards, table, mutex, key, open, owner, flock, calls>>

LockOf(t) == IF OnBasePage(t) THEN cached[target[t].dev] ELSE ref[t]

\* Mutant of Acquire: a guard counts twice.
AcquireTwice(t) ==
    LET l == LockOf(t) IN
    /\ pc[t] = "acquire"
    /\ owner[l] = t \/ (owner[l] = Nothing /\ flock[key[l]] = Nothing)
    /\ owner' = [owner EXCEPT ![l] = t]
    /\ flock' = [flock EXCEPT ![key[l]] = l]
    /\ guards' = [guards EXCEPT ![t][l] = @ + 2]
    /\ Return(t)
    /\ UNCHANGED <<cached, table, mutex, key, open, calls>>

\* SharedLock::acquire returns a guard, which holds an Arc; the temporary
\* DeviceLock of an uncached page is dropped.
Acquire(t) ==
    LET l == LockOf(t) IN
    /\ pc[t] = "acquire"
    /\ owner[l] = t \/ (owner[l] = Nothing /\ flock[key[l]] = Nothing)
    /\ owner' = [owner EXCEPT ![l] = t]
    /\ flock' = [flock EXCEPT ![key[l]] = l]
    /\ guards' = [guards EXCEPT ![t][l] = @ + 1]
    /\ Return(t)
    /\ UNCHANGED <<cached, table, mutex, key, open, calls>>

AcquireFails(t) ==
    /\ pc[t] = "acquire"
    /\ Return(t)
    /\ UNCHANGED <<guards, cached, table, mutex, key, open, owner, flock, calls>>

\* Mutant of DropGuard: a nested guard unlocks the file.
DropGuardUnlocks(t, l) ==
    /\ pc[t] = "idle" /\ guards[t][l] > 0
    /\ guards' = [guards EXCEPT ![t][l] = @ - 1]
    /\ owner' = [owner EXCEPT ![l] = Nothing]
    /\ flock' = [flock EXCEPT ![key[l]] = Nothing]
    /\ UNCHANGED <<pc, target, ref, cached, table, mutex, key, open, calls>>

\* A guard is dropped: release, then its Arc.
DropGuard(t, l) ==
    /\ pc[t] = "idle" /\ guards[t][l] > 0
    /\ guards' = [guards EXCEPT ![t][l] = @ - 1]
    /\ IF guards[t][l] = 1
       THEN /\ owner' = [owner EXCEPT ![l] = Nothing]
            /\ flock' = [flock EXCEPT ![key[l]] = Nothing]
       ELSE UNCHANGED <<owner, flock>>
    /\ UNCHANGED <<pc, target, ref, cached, table, mutex, key, open, calls>>

\* A Device no call borrows is dropped (an OwnedLockGuard may outlive it) and
\* another one is opened in its place.
DropDevice(d) ==
    /\ cached[d] # Nothing
    /\ \A t \in Threads : target[t].dev # d
    /\ cached' = [cached EXCEPT ![d] = Nothing]
    /\ UNCHANGED <<pc, target, ref, guards, table, mutex, key, open, owner, flock, calls>>

\* The last Arc is gone: the SharedLock closes its descriptor, and with it
\* gives up the kernel's lock, some time later.
CloseFile(l) ==
    /\ l \in open /\ ~Live(l)
    /\ open' = open \ {l}
    /\ flock' = [k \in Keys |-> IF flock[k] = l THEN Nothing ELSE flock[k]]
    /\ UNCHANGED <<pc, target, ref, guards, cached, table, mutex, key, owner, calls>>

Next ==
    \/ \E t \in Threads :
          \/ \E d \in Devices, k \in Keys : CallAccess(t, d, k)
          \/ LookInCache(t) \/ OpenFile(t) \/ OpenFails(t) \/ Retain(t) \/ KeepLock(t)
          \/ Acquire(t) \/ AcquireFails(t)
          \/ \E l \in Locks : Share(t, l) \/ Create(t, l) \/ DropGuard(t, l)
    \/ \E d \in Devices : DropDevice(d)
    \/ \E l \in Locks : CloseFile(l)

Spec == Init /\ [][Next]_vars

-----------------------------------------------------------------------------
(* Properties *)

TypeOK ==
    /\ pc \in [Threads -> PCs]
    /\ target \in [Threads -> [dev : Devices, key : Keys] \cup {NoTarget}]
    /\ ref \in [Threads -> Locks \cup {Nothing}]
    /\ guards \in [Threads -> [Locks -> 0..MaxNest]]
    /\ cached \in [Devices -> Locks \cup {Nothing}]
    /\ table \subseteq Keys \X Locks
    /\ mutex \in Threads \cup {Nothing}
    /\ key \in [Locks -> Keys \cup {Nothing}]
    /\ open \subseteq Locks
    /\ owner \in [Locks -> Threads \cup {Nothing}]
    /\ flock \in [Keys -> Locks \cup {Nothing}]
    /\ calls \in [Threads -> 0..MaxCalls]

\* Every handle of the process to one file shares one SharedLock, however
\* opening, caching and the dropping of last references interleave.  Two of
\* them would make a thread that nests guards wait for itself in flock.
OneLockPerFile ==
    \A l, m \in Locks : l # m /\ Live(l) /\ Live(m) => key[l] # key[m]

\* A lock in use keeps its descriptor, and with it the kernel's lock.
HeldLockStaysOpen ==
    \A t \in Threads, l \in Locks :
        guards[t][l] > 0 => l \in open /\ owner[l] = t /\ flock[key[l]] = l

\* A thread never waits for a file lock that it holds itself.
NoSelfDeadlock ==
    \A t \in Threads :
        pc[t] = "acquire" =>
            \A m \in Locks : guards[t][m] > 0 /\ key[m] = target[t].key => m = LockOf(t)
=============================================================================
