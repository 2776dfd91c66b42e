-------------------------- MODULE LockRegistryProofs --------------------------
(***************************************************************************)
(* Proofs about LockRegistry, for any threads, files, Devices and          *)
(* allocations: type correctness, that the handles of a process to one     *)
(* lock file share one SharedLock, that a lock in use keeps its descriptor *)
(* and the kernel's lock, and that no thread waits for a lock of its own.  *)
(* At the end, about LockFiles: who gets a lock file to share.             *)
(***************************************************************************)
EXTENDS LockRegistry, TLAPS

\* A thread is past retain exactly while it is inside the Mutex.
MutexInv == \A t \in Threads : pc[t] = "upgrade" <=> mutex = t

\* What an access knows: its Device and file, and room for one more guard.
TargetInv ==
    \A t \in Threads :
        IF pc[t] = "idle"
        THEN target[t] = NoTarget /\ ref[t] = Nothing
        ELSE /\ target[t] \in [dev : Devices, key : Keys]
             /\ \A l \in Locks : guards[t][l] < MaxNest

\* A thread's own DeviceLock is for the file of its access, and there is a
\* lock, its own or the cached one, when it comes to acquiring it.
RefInv ==
    \A t \in Threads :
        /\ ref[t] # Nothing =>
               pc[t] \in {"got", "acquire"} /\ key[ref[t]] = target[t].key
        /\ pc[t] = "got" => ref[t] # Nothing
        /\ pc[t] = "acquire" => LockOf(t) # Nothing

\* A Device caches the lock of its base page.
CacheInv == \A d \in Devices : cached[d] # Nothing => key[cached[d]] = BaseKey[d]

\* A SharedLock with an Arc has its descriptor and its entry; every entry is
\* filed under the key of its SharedLock.
LiveInv == \A l \in Locks : Live(l) => l \in open /\ <<key[l], l>> \in table
EntryInv == \A e \in table : key[e[2]] = e[1]

\* Inside the Mutex no file has two entries, dead ones included: this is what
\* lets Create trust the one entry it looked at.
UniqueInv ==
    mutex # Nothing =>
        \A l, m \in Locks : <<key[l], l>> \in table /\ <<key[m], m>> \in table /\ key[l] = key[m]
                                => l = m

\* Guards, ownership and the kernel's lock go together.
OwnerInv == \A t \in Threads, l \in Locks : guards[t][l] > 0 <=> owner[l] = t
FlockInv ==
    /\ \A l \in Locks : owner[l] # Nothing => flock[key[l]] = l
    /\ \A k \in Keys : flock[k] # Nothing => owner[flock[k]] # Nothing /\ key[flock[k]] = k

IInv ==
    /\ TypeOK /\ MutexInv /\ TargetInv /\ RefInv /\ CacheInv
    /\ LiveInv /\ EntryInv /\ UniqueInv /\ OneLockPerFile
    /\ OwnerInv /\ FlockInv

-----------------------------------------------------------------------------
(* What most steps have in common *)

LEMMA InitIInv == Init => IInv
<1> SUFFICES ASSUME Init PROVE IInv
  OBVIOUS
<1>1. TypeOK
  BY RegistryAssumption DEF Init, TypeOK, PCs, NoTarget
<1>2. \A l \in Locks : ~Live(l)
  BY RegistryAssumption DEF Init, Live
<1>3. MutexInv /\ TargetInv /\ RefInv /\ CacheInv
  BY RegistryAssumption DEF Init, MutexInv, TargetInv, RefInv, CacheInv
<1>4. LiveInv /\ EntryInv /\ UniqueInv /\ OneLockPerFile
  BY <1>2 DEF Init, LiveInv, EntryInv, UniqueInv, OneLockPerFile
<1>5. OwnerInv /\ FlockInv
  BY RegistryAssumption DEF Init, OwnerInv, FlockInv
<1> QED BY <1>1, <1>3, <1>4, <1>5 DEF IInv

\* A step that adds no Arc to a lock without one leaves the table in order.
LEMMA NoNewLive ==
    ASSUME IInv, \A l \in Locks : Live(l)' => Live(l),
           UNCHANGED <<table, key, open>>, mutex' \in {mutex, Nothing}
    PROVE  LiveInv' /\ EntryInv' /\ UniqueInv' /\ OneLockPerFile'
<1>1. LiveInv' /\ OneLockPerFile'
  BY DEF IInv, LiveInv, OneLockPerFile
<1>2. EntryInv' /\ UniqueInv'
  BY DEF IInv, EntryInv, UniqueInv
<1> QED BY <1>1, <1>2

LEMMA SameGuards ==
    ASSUME IInv, UNCHANGED <<guards, owner, flock, key>>
    PROVE  OwnerInv' /\ FlockInv'
<1> QED BY DEF IInv, OwnerInv, FlockInv

\* The end of an access, with or without a guard: its thread knows nothing of
\* it any more.
LEMMA ReturnParts ==
    ASSUME IInv, NEW t \in Threads, pc[t] \notin {"idle", "upgrade"}, Return(t),
           UNCHANGED <<cached, mutex, key>>,
           guards' \in [Threads -> [Locks -> 0..MaxNest]],
           \A u \in Threads \ {t} : guards'[u] = guards[u]
    PROVE  /\ pc' \in [Threads -> PCs]
           /\ target' \in [Threads -> [dev : Devices, key : Keys] \cup {NoTarget}]
           /\ ref' \in [Threads -> Locks \cup {Nothing}]
           /\ MutexInv' /\ TargetInv' /\ RefInv' /\ CacheInv'
<1>1. /\ pc' \in [Threads -> PCs]
      /\ target' \in [Threads -> [dev : Devices, key : Keys] \cup {NoTarget}]
      /\ ref' \in [Threads -> Locks \cup {Nothing}]
  BY DEF Return, IInv, TypeOK, PCs
<1>2. /\ pc'[t] = "idle" /\ target'[t] = NoTarget /\ ref'[t] = Nothing
      /\ \A u \in Threads \ {t} :
            pc'[u] = pc[u] /\ target'[u] = target[u] /\ ref'[u] = ref[u]
  BY DEF Return, IInv, TypeOK
<1>3. MutexInv'
  BY <1>2 DEF IInv, MutexInv
<1>4. TargetInv'
  BY <1>2 DEF IInv, TargetInv
<1>5. RefInv'
  BY <1>2 DEF IInv, RefInv, LockOf, OnBasePage
<1>6. CacheInv'
  BY DEF IInv, CacheInv
<1> QED BY <1>1, <1>3, <1>4, <1>5, <1>6

-----------------------------------------------------------------------------
(* The steps *)

LEMMA CallAccessStep ==
    ASSUME IInv, NEW t \in Threads, NEW d \in Devices, NEW k \in Keys, CallAccess(t, d, k)
    PROVE  IInv'
<1> USE DEF CallAccess, IInv
<1>1. TypeOK'
  <2>1. calls[t] + 1 \in 0..MaxCalls
    BY RegistryAssumption DEF TypeOK
  <2> QED BY <2>1 DEF TypeOK, PCs
<1>2. /\ pc'[t] = "lock_at" /\ target'[t] = [dev |-> d, key |-> k]
      /\ \A u \in Threads \ {t} : pc'[u] = pc[u] /\ target'[u] = target[u]
  BY DEF TypeOK
<1>3. MutexInv' /\ TargetInv' /\ CacheInv'
  BY <1>2 DEF MutexInv, TargetInv, CacheInv
<1>4. RefInv'
  BY <1>2 DEF TargetInv, RefInv, LockOf, OnBasePage
<1>5. LiveInv' /\ EntryInv' /\ UniqueInv' /\ OneLockPerFile'
  BY NoNewLive DEF Live
<1> QED BY <1>1, <1>3, <1>4, <1>5, SameGuards

LEMMA LookInCacheStep ==
    ASSUME IInv, NEW t \in Threads, LookInCache(t)
    PROVE  IInv'
<1> USE DEF LookInCache, IInv
<1>1. TypeOK'
  BY DEF TypeOK, PCs
<1>2. /\ pc[t] = "lock_at" /\ pc'[t] \in {"acquire", "open"}
      /\ pc'[t] = "acquire" => OnBasePage(t) /\ cached[target[t].dev] # Nothing
      /\ \A u \in Threads \ {t} : pc'[u] = pc[u]
  BY DEF TypeOK
<1>3. MutexInv' /\ TargetInv' /\ CacheInv'
  BY <1>2 DEF MutexInv, TargetInv, CacheInv
<1>4. RefInv'
  BY <1>2 DEF TargetInv, RefInv, LockOf, OnBasePage
<1>5. LiveInv' /\ EntryInv' /\ UniqueInv' /\ OneLockPerFile'
  BY NoNewLive DEF Live
<1> QED BY <1>1, <1>3, <1>4, <1>5, SameGuards

LEMMA OpenFileStep ==
    ASSUME IInv, NEW t \in Threads, OpenFile(t)
    PROVE  IInv'
<1> USE DEF OpenFile, IInv
<1>1. TypeOK'
  BY DEF TypeOK, PCs
<1>2. /\ pc[t] = "open" /\ pc'[t] = "registry"
      /\ \A u \in Threads \ {t} : pc'[u] = pc[u]
  BY DEF TypeOK
<1>3. MutexInv' /\ TargetInv' /\ CacheInv'
  BY <1>2 DEF MutexInv, TargetInv, CacheInv
<1>4. RefInv'
  BY <1>2 DEF RefInv, LockOf, OnBasePage
<1>5. LiveInv' /\ EntryInv' /\ UniqueInv' /\ OneLockPerFile'
  BY NoNewLive DEF Live
<1> QED BY <1>1, <1>3, <1>4, <1>5, SameGuards

\* No access comes of it: the file cannot be opened or the lock not taken.
LEMMA FailStep ==
    ASSUME IInv, NEW t \in Threads, OpenFails(t) \/ AcquireFails(t)
    PROVE  IInv'
<1>1. /\ pc[t] \in {"open", "acquire"} /\ Return(t)
      /\ UNCHANGED <<guards, cached, table, mutex, key, open, owner, flock, calls>>
  BY DEF OpenFails, AcquireFails
<1>2. /\ pc' \in [Threads -> PCs]
      /\ target' \in [Threads -> [dev : Devices, key : Keys] \cup {NoTarget}]
      /\ ref' \in [Threads -> Locks \cup {Nothing}]
      /\ MutexInv' /\ TargetInv' /\ RefInv' /\ CacheInv'
  <2>1. guards' \in [Threads -> [Locks -> 0..MaxNest]]
    BY <1>1 DEF IInv, TypeOK
  <2> QED BY <1>1, <2>1, ReturnParts
<1>3. TypeOK'
  BY <1>1, <1>2 DEF IInv, TypeOK
<1>4. \A l \in Locks : Live(l)' => Live(l)
  BY <1>1, RegistryAssumption DEF IInv, TypeOK, Return, Live
<1>5. LiveInv' /\ EntryInv' /\ UniqueInv' /\ OneLockPerFile'
  BY <1>1, <1>4, NoNewLive
<1> QED BY <1>1, <1>2, <1>3, <1>5, SameGuards DEF IInv

\* Only live entries stay, and no two of these are for one file.
LEMMA RetainStep ==
    ASSUME IInv, NEW t \in Threads, Retain(t)
    PROVE  IInv'
<1> USE DEF Retain, IInv
<1>1. TypeOK'
  BY DEF TypeOK, PCs
<1>2. /\ pc[t] = "registry" /\ pc'[t] = "upgrade" /\ mutex = Nothing /\ mutex' = t
      /\ \A u \in Threads \ {t} : pc'[u] = pc[u]
  BY DEF TypeOK
<1>3. MutexInv' /\ TargetInv' /\ CacheInv'
  BY <1>2, RegistryAssumption DEF MutexInv, TargetInv, CacheInv
<1>4. RefInv'
  BY <1>2 DEF RefInv, LockOf, OnBasePage
<1>5. \A l \in Locks : Live(l)' <=> Live(l)
  BY DEF Live
<1>6. \A l \in Locks : <<key[l], l>> \in table' <=> <<key[l], l>> \in table /\ Live(l)
  OBVIOUS
<1>7. LiveInv' /\ EntryInv' /\ OneLockPerFile'
  BY <1>5, <1>6 DEF LiveInv, EntryInv, OneLockPerFile
<1>8. UniqueInv'
  BY <1>6 DEF UniqueInv, OneLockPerFile
<1> QED BY <1>1, <1>3, <1>4, <1>7, <1>8, SameGuards

LEMMA ShareStep ==
    ASSUME IInv, NEW t \in Threads, NEW l \in Locks, Share(t, l)
    PROVE  IInv'
<1> USE DEF Share, IInv
<1>1. TypeOK'
  BY DEF TypeOK, PCs
<1>2. /\ pc[t] = "upgrade" /\ pc'[t] = "got" /\ ref'[t] = l
      /\ \A u \in Threads \ {t} : pc'[u] = pc[u] /\ ref'[u] = ref[u]
  BY DEF TypeOK
<1>3. key[l] = target[t].key
  BY DEF EntryInv
<1>4. MutexInv' /\ TargetInv' /\ CacheInv'
  BY <1>2, RegistryAssumption DEF MutexInv, TargetInv, CacheInv
<1>5. RefInv'
  BY <1>2, <1>3, RegistryAssumption DEF RefInv, LockOf, OnBasePage
<1>6. \A m \in Locks : Live(m)' => Live(m)
  BY <1>2 DEF Live
<1>7. LiveInv' /\ EntryInv' /\ UniqueInv' /\ OneLockPerFile'
  BY <1>6, NoNewLive
<1> QED BY <1>1, <1>4, <1>5, <1>7, SameGuards

\* The interesting step: whatever entry was found dead was the only one of the
\* file, so no live SharedLock of it is left beside the new one.
LEMMA CreateStep ==
    ASSUME IInv, NEW t \in Threads, NEW l \in Locks, Create(t, l)
    PROVE  IInv'
<1> DEFINE k == target[t].key
<1>1. /\ pc[t] = "upgrade" /\ mutex = t /\ mutex # Nothing
      /\ k \in Keys /\ target[t].dev \in Devices
  BY RegistryAssumption DEF Create, IInv, MutexInv, TargetInv
<1>2. ~Live(l) /\ l \notin open /\ \A e \in table : e[2] # l
  BY DEF Create
<1>3. \A m \in Locks : Live(m) => key[m] # k
  <2> SUFFICES ASSUME NEW m \in Locks, Live(m), key[m] = k PROVE FALSE
    OBVIOUS
  <2>1. <<k, m>> \in table
    BY DEF IInv, LiveInv
  <2>2. PICK n \in Locks : <<k, n>> \in table /\ ~Live(n)
    BY <2>1 DEF Create
  <2>3. key[n] = k
    BY <2>2 DEF IInv, EntryInv
  <2> QED BY <1>1, <2>1, <2>2, <2>3 DEF IInv, UniqueInv
<1>4. /\ key' = [key EXCEPT ![l] = k] /\ open' = open \cup {l}
      /\ table' = table \cup {<<k, l>>} /\ ref' = [ref EXCEPT ![t] = l]
      /\ mutex' = Nothing /\ pc' = [pc EXCEPT ![t] = "got"]
      /\ UNCHANGED <<target, guards, cached, owner, flock, calls>>
  BY DEF Create
<1>5. TypeOK'
  BY <1>1, <1>4 DEF IInv, TypeOK, PCs
<1>6. /\ key'[l] = k /\ \A m \in Locks \ {l} : key'[m] = key[m]
      /\ pc'[t] = "got" /\ ref'[t] = l
      /\ \A u \in Threads \ {t} : pc'[u] = pc[u] /\ ref'[u] = ref[u]
  BY <1>4 DEF IInv, TypeOK
<1>7. \A m \in Locks \ {l} : Live(m)' => Live(m)
  BY <1>4, <1>6 DEF Live
<1>8. \A u \in Threads : ref[u] # l /\ guards[u][l] = 0
  BY <1>2 DEF Live, IInv, TypeOK
<1>9. MutexInv' /\ TargetInv'
  BY <1>1, <1>4, <1>6, RegistryAssumption DEF IInv, MutexInv, TargetInv
<1>10. RefInv'
  BY <1>4, <1>6, <1>8, RegistryAssumption DEF IInv, TypeOK, RefInv, LockOf, OnBasePage
<1>11. CacheInv'
  BY <1>2, <1>4, <1>6 DEF IInv, TypeOK, CacheInv, Live
<1>12. LiveInv'
  BY <1>4, <1>6, <1>7 DEF IInv, LiveInv
<1>13. EntryInv'
  BY <1>2, <1>4, <1>6 DEF IInv, TypeOK, EntryInv
<1>14. UniqueInv'
  BY <1>4 DEF UniqueInv
<1>15. OneLockPerFile'
  BY <1>3, <1>6, <1>7 DEF IInv, OneLockPerFile
<1>16. OwnerInv'
  BY <1>4 DEF IInv, OwnerInv
<1>17. owner[l] = Nothing
  BY <1>8 DEF IInv, TypeOK, OwnerInv
<1>18. FlockInv'
  BY <1>4, <1>6, <1>17 DEF IInv, TypeOK, FlockInv
<1> QED BY <1>5, <1>9, <1>10, <1>11, <1>12, <1>13, <1>14, <1>15, <1>16, <1>18 DEF IInv

\* The DeviceLock moves into the Device, or goes because another came first.
LEMMA KeepLockStep ==
    ASSUME IInv, NEW t \in Threads, KeepLock(t)
    PROVE  IInv'
<1> DEFINE d == target[t].dev
<1>1. /\ pc[t] = "got" /\ ref[t] # Nothing /\ ref[t] \in Locks /\ key[ref[t]] = target[t].key
      /\ target[t] \in [dev : Devices, key : Keys]
      /\ UNCHANGED <<target, guards, table, mutex, key, open, owner, flock, calls>>
      /\ pc'[t] = "acquire" /\ \A u \in Threads \ {t} : pc'[u] = pc[u] /\ ref'[u] = ref[u]
  BY DEF KeepLock, IInv, TypeOK, TargetInv, RefInv
<1>2. TypeOK'
  BY <1>1, ZenonT(60) DEF KeepLock, IInv, TypeOK, PCs
<1>3. /\ \A e \in Devices : cached[e] # Nothing => cached'[e] = cached[e]
      /\ \A e \in Devices : cached'[e] # cached[e] =>
            e = d /\ cached'[e] = ref[t] /\ BaseKey[d] = target[t].key
      /\ ref'[t] \in {ref[t], Nothing}
      /\ OnBasePage(t) => cached'[d] # Nothing
      /\ ~OnBasePage(t) => ref'[t] = ref[t]
  BY <1>1 DEF KeepLock, OnBasePage, IInv, TypeOK
<1>4. MutexInv' /\ TargetInv'
  BY <1>1, <1>3 DEF IInv, MutexInv, TargetInv
<1>5. CacheInv'
  BY <1>1, <1>3 DEF IInv, CacheInv
<1>6. RefInv'
  <2> SUFFICES ASSUME NEW u \in Threads
               PROVE  /\ ref'[u] # Nothing =>
                             pc'[u] \in {"got", "acquire"} /\ key[ref'[u]] = target[u].key
                      /\ pc'[u] = "got" => ref'[u] # Nothing
                      /\ pc'[u] = "acquire" => LockOf(u)' # Nothing
    BY <1>1 DEF RefInv
  <2>1. CASE u = t
    BY <1>1, <1>3, <2>1 DEF LockOf, OnBasePage
  <2>2. CASE u # t
    <3>1. pc[u] = "acquire" => target[u].dev \in Devices
      BY DEF IInv, TargetInv
    <3> QED BY <1>1, <1>3, <2>2, <3>1 DEF IInv, RefInv, LockOf, OnBasePage
  <2> QED BY <2>1, <2>2
<1>7. \A l \in Locks : Live(l)' => Live(l)
  <2> SUFFICES ASSUME NEW l \in Locks, Live(l)' PROVE Live(l)
    OBVIOUS
  <2>1. CASE \E u \in Threads : ref'[u] = l \/ guards'[u][l] > 0
    <3>1. PICK u \in Threads : ref'[u] = l \/ guards[u][l] > 0
      BY <1>1, <2>1
    <3>2. ref[u] = l \/ guards[u][l] > 0
      BY <1>1, <1>3, <3>1, RegistryAssumption
    <3> QED BY <3>2 DEF Live
  <2>2. CASE \E e \in Devices : cached'[e] = l
    <3>1. PICK e \in Devices : cached'[e] = l
      BY <2>2
    <3>2. cached[e] = l \/ ref[t] = l
      BY <1>3, <3>1
    <3> QED BY <3>2 DEF Live
  <2> QED BY <2>1, <2>2 DEF Live
<1>8. LiveInv' /\ EntryInv' /\ UniqueInv' /\ OneLockPerFile'
  BY <1>1, <1>7, NoNewLive
<1> QED BY <1>1, <1>2, <1>4, <1>5, <1>6, <1>8, SameGuards DEF IInv

\* The guard's Arc was there before: the thread's own DeviceLock or the cached
\* one.
LEMMA AcquireStep ==
    ASSUME IInv, NEW t \in Threads, Acquire(t)
    PROVE  IInv'
<1> DEFINE l == LockOf(t)
<1>1. /\ pc[t] = "acquire" /\ l # Nothing /\ target[t] \in [dev : Devices, key : Keys]
      /\ \A m \in Locks : guards[t][m] < MaxNest
  BY DEF Acquire, IInv, RefInv, TargetInv
<1>2. l \in Locks /\ Live(l)
  BY <1>1 DEF IInv, TypeOK, LockOf, Live
<1>3. key[l] \in Keys
  <2>1. <<key[l], l>> \in table
    BY <1>2 DEF IInv, LiveInv
  <2> QED BY <2>1 DEF IInv, TypeOK
<1>4. /\ owner[l] = t \/ (owner[l] = Nothing /\ flock[key[l]] = Nothing)
      /\ owner' = [owner EXCEPT ![l] = t]
      /\ flock' = [flock EXCEPT ![key[l]] = l]
      /\ guards' = [guards EXCEPT ![t][l] = @ + 1]
      /\ Return(t)
      /\ UNCHANGED <<cached, table, mutex, key, open, calls>>
  BY DEF Acquire
<1> HIDE DEF l
<1>5. /\ guards[t][l] \in 0..MaxNest /\ guards'[t][l] = guards[t][l] + 1
      /\ guards[t][l] + 1 \in 0..MaxNest
      /\ \A m \in Locks \ {l} : guards'[t][m] = guards[t][m]
      /\ \A u \in Threads \ {t} : guards'[u] = guards[u]
  BY <1>1, <1>2, <1>4, RegistryAssumption DEF IInv, TypeOK
<1>6. guards' \in [Threads -> [Locks -> 0..MaxNest]]
  BY <1>2, <1>4, <1>5 DEF IInv, TypeOK
<1>7. /\ pc' \in [Threads -> PCs]
      /\ target' \in [Threads -> [dev : Devices, key : Keys] \cup {NoTarget}]
      /\ ref' \in [Threads -> Locks \cup {Nothing}]
      /\ MutexInv' /\ TargetInv' /\ RefInv' /\ CacheInv'
  BY <1>1, <1>4, <1>5, <1>6, ReturnParts
<1>8. TypeOK'
  BY <1>2, <1>3, <1>4, <1>6, <1>7 DEF IInv, TypeOK
<1>9. \A m \in Locks : Live(m)' => Live(m)
  <2> SUFFICES ASSUME NEW m \in Locks, Live(m)' PROVE Live(m)
    OBVIOUS
  <2>1. CASE m = l
    BY <1>2, <2>1
  <2>2. CASE m # l
    <3>1. \A u \in Threads : guards'[u][m] = guards[u][m]
      BY <1>5, <2>2
    <3>2. \A u \in Threads : ref'[u] = m => ref[u] = m
      BY <1>4, RegistryAssumption DEF Return, IInv, TypeOK
    <3> QED BY <1>4, <3>1, <3>2 DEF Live
  <2> QED BY <2>1, <2>2
<1>10. LiveInv' /\ EntryInv' /\ UniqueInv' /\ OneLockPerFile'
  BY <1>4, <1>9, NoNewLive
<1>11. OwnerInv'
  <2> SUFFICES ASSUME NEW u \in Threads, NEW m \in Locks
               PROVE  guards'[u][m] > 0 <=> owner'[m] = u
    BY DEF OwnerInv
  <2>1. guards[u][m] > 0 <=> owner[m] = u
    BY DEF IInv, OwnerInv
  <2>2. CASE m # l
    BY <1>4, <1>5, <2>1, <2>2 DEF IInv, TypeOK
  <2>3. CASE m = l
    \* t, and nobody else, has guards of l now
    <3>1. owner'[l] = t
      BY <1>2, <1>4 DEF IInv, TypeOK
    <3>2. CASE u = t
      BY <1>5, <2>3, <3>1, <3>2
    <3>3. CASE u # t
      BY <1>4, <1>5, <2>1, <2>3, <3>1, <3>3, RegistryAssumption
    <3> QED BY <3>2, <3>3
  <2> QED BY <2>2, <2>3
<1>12. FlockInv'
  <2>1. /\ owner'[l] = t /\ flock'[key[l]] = l /\ t # Nothing
        /\ \A m \in Locks \ {l} : owner'[m] = owner[m]
        /\ \A k \in Keys \ {key[l]} : flock'[k] = flock[k]
    BY <1>2, <1>3, <1>4, RegistryAssumption DEF IInv, TypeOK
  <2>2. \A m \in Locks \ {l} : owner[m] # Nothing => key[m] # key[l]
    \* an owned lock of the same file would hold the kernel's lock
    BY <1>2, <1>4, RegistryAssumption DEF IInv, FlockInv
  <2>3. \A m \in Locks : owner[m] # Nothing => key[m] \in Keys
    \* an owned lock is live, so it has a key
    <3> SUFFICES ASSUME NEW m \in Locks, owner[m] # Nothing PROVE key[m] \in Keys
      OBVIOUS
    <3>1. guards[owner[m]][m] > 0 /\ owner[m] \in Threads
      BY DEF IInv, TypeOK, OwnerInv
    <3>2. <<key[m], m>> \in table
      BY <3>1 DEF IInv, LiveInv, Live
    <3> QED BY <3>2 DEF IInv, TypeOK
  <2>4. \A m \in Locks : owner'[m] # Nothing => flock'[key'[m]] = m
    BY <1>4, <2>1, <2>2, <2>3 DEF IInv, FlockInv
  <2>5. \A k \in Keys : flock'[k] # Nothing => owner'[flock'[k]] # Nothing /\ key'[flock'[k]] = k
    BY <1>2, <1>4, <2>1, <2>2 DEF IInv, TypeOK, FlockInv
  <2> QED BY <2>4, <2>5 DEF FlockInv
<1> QED BY <1>7, <1>8, <1>10, <1>11, <1>12 DEF IInv

LEMMA DropGuardStep ==
    ASSUME IInv, NEW t \in Threads, NEW l \in Locks, DropGuard(t, l)
    PROVE  IInv'
<1>1. /\ pc[t] = "idle" /\ guards[t][l] > 0 /\ guards[t][l] \in 0..MaxNest
      /\ guards' = [guards EXCEPT ![t][l] = @ - 1]
      /\ IF guards[t][l] = 1
         THEN /\ owner' = [owner EXCEPT ![l] = Nothing]
              /\ flock' = [flock EXCEPT ![key[l]] = Nothing]
         ELSE UNCHANGED <<owner, flock>>
      /\ UNCHANGED <<pc, target, ref, cached, table, mutex, key, open, calls>>
  BY DEF DropGuard, IInv, TypeOK
<1>2. /\ guards'[t][l] = guards[t][l] - 1 /\ guards[t][l] - 1 \in 0..MaxNest
      /\ \A m \in Locks \ {l} : guards'[t][m] = guards[t][m]
      /\ \A u \in Threads \ {t} : guards'[u] = guards[u]
  BY <1>1, RegistryAssumption DEF IInv, TypeOK
<1>3. owner[l] = t /\ flock[key[l]] = l /\ key[l] \in Keys
  <2>1. owner[l] = t
    BY <1>1 DEF IInv, OwnerInv
  <2>2. <<key[l], l>> \in table
    BY <1>1 DEF IInv, LiveInv, Live
  <2> QED BY <2>1, <2>2, RegistryAssumption DEF IInv, TypeOK, FlockInv
<1>4. TypeOK'
  <2>1. guards' \in [Threads -> [Locks -> 0..MaxNest]]
    BY <1>1, <1>2 DEF IInv, TypeOK
  <2> QED BY <1>1, <1>3, <2>1 DEF IInv, TypeOK
<1>5. MutexInv' /\ CacheInv'
  BY <1>1 DEF IInv, MutexInv, CacheInv
<1>6. TargetInv'
  BY <1>1, <1>2 DEF IInv, TargetInv
<1>7. RefInv'
  BY <1>1 DEF IInv, RefInv, LockOf, OnBasePage
<1>8. \A m \in Locks : Live(m)' => Live(m)
  <2>1. \A u \in Threads, m \in Locks : guards'[u][m] > 0 => guards[u][m] > 0
    BY <1>1, <1>2
  <2> QED BY <1>1, <2>1 DEF Live
<1>9. LiveInv' /\ EntryInv' /\ UniqueInv' /\ OneLockPerFile'
  BY <1>1, <1>8, NoNewLive
<1>10. CASE guards[t][l] # 1
  <2>1. \A u \in Threads, m \in Locks : guards'[u][m] > 0 <=> guards[u][m] > 0
    BY <1>1, <1>2, <1>10
  <2> QED BY <1>1, <1>4, <1>5, <1>6, <1>7, <1>9, <1>10, <2>1 DEF IInv, OwnerInv, FlockInv
<1>11. CASE guards[t][l] = 1
  <2>1. /\ owner'[l] = Nothing /\ flock'[key[l]] = Nothing
        /\ \A m \in Locks \ {l} : owner'[m] = owner[m]
        /\ \A k \in Keys \ {key[l]} : flock'[k] = flock[k]
    BY <1>1, <1>3, <1>11 DEF IInv, TypeOK
  <2>2. OwnerInv'
    BY <1>1, <1>2, <1>3, <1>11, <2>1, RegistryAssumption DEF IInv, OwnerInv
  <2>3. FlockInv'
    <3>1. \A m \in Locks \ {l} : owner[m] # Nothing => key[m] # key[l]
      BY <1>3 DEF IInv, FlockInv
    <3>2. \A m \in Locks : owner[m] # Nothing => key[m] \in Keys
      <4> SUFFICES ASSUME NEW m \in Locks, owner[m] # Nothing PROVE key[m] \in Keys
        OBVIOUS
      <4>1. guards[owner[m]][m] > 0 /\ owner[m] \in Threads
        BY DEF IInv, TypeOK, OwnerInv
      <4>2. <<key[m], m>> \in table
        BY <4>1 DEF IInv, LiveInv, Live
      <4> QED BY <4>2 DEF IInv, TypeOK
    <3>3. \A m \in Locks : owner'[m] # Nothing => flock'[key'[m]] = m
      BY <1>1, <2>1, <3>1, <3>2 DEF IInv, FlockInv
    <3>4. \A k \in Keys : flock'[k] # Nothing => owner'[flock'[k]] # Nothing /\ key'[flock'[k]] = k
      <4> SUFFICES ASSUME NEW k \in Keys, flock'[k] # Nothing
                   PROVE  owner'[flock'[k]] # Nothing /\ key'[flock'[k]] = k
        OBVIOUS
      <4>1. k # key[l] /\ flock'[k] = flock[k]
        BY <2>1
      <4>2. flock[k] \in Locks /\ owner[flock[k]] # Nothing /\ key[flock[k]] = k
        BY <4>1 DEF IInv, TypeOK, FlockInv
      <4>3. flock[k] # l
        BY <4>1, <4>2
      <4> QED BY <1>1, <2>1, <4>1, <4>2, <4>3
    <3> QED BY <3>3, <3>4 DEF FlockInv
  <2> QED BY <1>4, <1>5, <1>6, <1>7, <1>9, <2>2, <2>3 DEF IInv
<1> QED BY <1>10, <1>11

\* Only a Device that no access uses goes, so every access still has its lock.
LEMMA DropDeviceStep ==
    ASSUME IInv, NEW d \in Devices, DropDevice(d)
    PROVE  IInv'
<1> USE DEF DropDevice, IInv
<1>1. TypeOK'
  BY DEF TypeOK
<1>2. MutexInv' /\ TargetInv'
  BY DEF MutexInv, TargetInv
<1>3. CacheInv'
  BY DEF TypeOK, CacheInv
<1>4. RefInv'
  BY DEF TypeOK, TargetInv, RefInv, LockOf, OnBasePage
<1>5. \A l \in Locks : Live(l)' => Live(l)
  BY RegistryAssumption DEF TypeOK, Live
<1>6. LiveInv' /\ EntryInv' /\ UniqueInv' /\ OneLockPerFile'
  BY <1>5, NoNewLive
<1> QED BY <1>1, <1>2, <1>3, <1>4, <1>6, SameGuards

\* A descriptor is closed after the last Arc, and by then the kernel's lock is
\* already given up.
LEMMA CloseFileStep ==
    ASSUME IInv, NEW l \in Locks, CloseFile(l)
    PROVE  IInv'
<1> USE DEF CloseFile, IInv
<1>1. \A k \in Keys : flock[k] # l
  <2>1. \A t \in Threads : owner[l] # t
    BY DEF TypeOK, OwnerInv, Live
  <2> QED BY <2>1, RegistryAssumption DEF TypeOK, FlockInv
<1>2. flock' = flock
  BY <1>1 DEF TypeOK
<1>3. TypeOK'
  BY <1>2 DEF TypeOK
<1>4. MutexInv' /\ TargetInv' /\ CacheInv' /\ RefInv'
  BY DEF MutexInv, TargetInv, CacheInv, RefInv, LockOf, OnBasePage
<1>5. \A m \in Locks : Live(m)' <=> Live(m)
  BY DEF Live
<1>6. LiveInv' /\ OneLockPerFile'
  BY <1>5 DEF LiveInv, OneLockPerFile
<1>7. EntryInv' /\ UniqueInv'
  BY DEF EntryInv, UniqueInv
<1> QED BY <1>2, <1>3, <1>4, <1>6, <1>7, SameGuards

LEMMA NextIInv == IInv /\ [Next]_vars => IInv'
<1> SUFFICES ASSUME IInv, [Next]_vars PROVE IInv'
  OBVIOUS
<1>1. ASSUME NEW t \in Threads,
             \/ \E d \in Devices, k \in Keys : CallAccess(t, d, k)
             \/ LookInCache(t) \/ OpenFile(t) \/ OpenFails(t) \/ Retain(t) \/ KeepLock(t)
             \/ Acquire(t) \/ AcquireFails(t)
      PROVE  IInv'
  BY <1>1, CallAccessStep, LookInCacheStep, OpenFileStep, FailStep, RetainStep,
     KeepLockStep, AcquireStep
<1>2. ASSUME NEW t \in Threads, NEW l \in Locks, Share(t, l) \/ Create(t, l) \/ DropGuard(t, l)
      PROVE  IInv'
  BY <1>2, ShareStep, CreateStep, DropGuardStep
<1>3. ASSUME NEW d \in Devices, DropDevice(d) PROVE IInv'
  BY <1>3, DropDeviceStep
<1>4. ASSUME NEW l \in Locks, CloseFile(l) PROVE IInv'
  BY <1>4, CloseFileStep
<1>5. CASE UNCHANGED vars
  BY <1>5 DEF vars, IInv, TypeOK, MutexInv, TargetInv, RefInv, CacheInv, LiveInv, EntryInv,
              UniqueInv, OneLockPerFile, OwnerInv, FlockInv, Live, LockOf, OnBasePage
<1> QED BY <1>1, <1>2, <1>3, <1>4, <1>5 DEF Next

LEMMA Invariance == Spec => []IInv
<1> QED BY InitIInv, NextIInv, PTL DEF Spec

-----------------------------------------------------------------------------
\* Every variable keeps its domain; in particular no thread nests more guards
\* than its accesses took, so no count of guards is ever negative.
THEOREM TypeCorrect == Spec => []TypeOK
<1>1. IInv => TypeOK
  BY DEF IInv
<1> QED BY <1>1, Invariance, PTL

\* However threads interleave in insert_or_get_shared_lock, and whenever last
\* Arcs are dropped around it, a lock file has one SharedLock in the process.
THEOREM OneLockPerFileHolds == Spec => []OneLockPerFile
<1>1. IInv => OneLockPerFile
  BY DEF IInv
<1> QED BY <1>1, Invariance, PTL

\* Whoever holds a guard has an open descriptor, the SharedLock and the
\* kernel's lock of the file.
THEOREM HeldLockStaysOpenHolds == Spec => []HeldLockStaysOpen
<1>1. ASSUME IInv, NEW t \in Threads, NEW l \in Locks, guards[t][l] > 0
      PROVE  l \in open /\ owner[l] = t /\ flock[key[l]] = l
  <2>1. Live(l)
    BY <1>1 DEF Live
  <2>2. owner[l] = t /\ t # Nothing
    BY <1>1, RegistryAssumption DEF IInv, OwnerInv
  <2> QED BY <1>1, <2>1, <2>2 DEF IInv, LiveInv, FlockInv
<1>2. IInv => HeldLockStaysOpen
  BY <1>1 DEF HeldLockStaysOpen
<1> QED BY <1>2, Invariance, PTL

\* The lock a thread is about to wait for is the one it may already hold for
\* the file, so it re-enters it instead of waiting for itself in flock.
THEOREM NoSelfDeadlockHolds == Spec => []NoSelfDeadlock
<1>1. ASSUME IInv, NEW t \in Threads, pc[t] = "acquire",
             NEW m \in Locks, guards[t][m] > 0, key[m] = target[t].key
      PROVE  m = LockOf(t)
  <2>1. Live(m)
    BY <1>1 DEF Live
  <2>2. LockOf(t) \in Locks /\ Live(LockOf(t)) /\ key[LockOf(t)] = target[t].key
    <3>1. LockOf(t) # Nothing /\ target[t] \in [dev : Devices, key : Keys]
      BY <1>1 DEF IInv, RefInv, TargetInv
    <3> QED BY <1>1, <3>1 DEF IInv, TypeOK, RefInv, CacheInv, LockOf, OnBasePage, Live
  <2> QED BY <1>1, <2>1, <2>2 DEF IInv, OneLockPerFile
<1>2. IInv => NoSelfDeadlock
  BY <1>1 DEF NoSelfDeadlock
<1> QED BY <1>2, Invariance, PTL

-----------------------------------------------------------------------------
(* The directory that the lock files are in: LockFiles, where processes of *)
(* different users create it and the file of one page.                     *)

CONSTANTS Procs, Users, UserOf, Root, Nobody

VARIABLES mode, dirOwner, file, call   \* call is LockFiles' pc

Files == INSTANCE LockFiles WITH pc <- call

\* Once the directory is 1777 a process is never refused, unless it comes to the
\* second plain open while the file is missing.
Served(p) ==
    /\ mode = "1777"
    /\ call[p] \in {"mkdir", "chmod", "open", "creat", "reopen", "opened", "dead"}
    /\ call[p] = "reopen" => file # Nobody

LEMMA NextFilesType ==
    ASSUME Files!FilesAssumption, Files!TypeOK, [Files!Next]_(Files!vars)
    PROVE  Files!TypeOK'
<1> USE DEF Files!TypeOK
<1>1. CASE UNCHANGED Files!vars
  BY <1>1 DEF Files!vars
<1>2. ASSUME NEW q \in Procs, Files!Step(q) \/ Files!Kill(q) PROVE Files!TypeOK'
  BY <1>2 DEF Files!FilesAssumption, Files!Step, Files!MakeDir, Files!Chmod, Files!Open, Files!Creat,
              Files!Reopen, Files!Kill, Files!Go
<1> QED BY <1>1, <1>2 DEF Files!Next

LEMMA NextServed ==
    ASSUME Files!FilesAssumption, Files!TypeOK, [Files!Next]_(Files!vars), NEW p \in Procs, Served(p)
    PROVE  Served(p)'
<1> USE DEF Files!TypeOK, Served
<1>1. CASE UNCHANGED Files!vars
  BY <1>1 DEF Files!vars
<1>2. ASSUME NEW q \in Procs, Files!Step(q) \/ Files!Kill(q) PROVE Served(p)'
  <2> USE DEF Files!Step, Files!MakeDir, Files!Chmod, Files!Open, Files!Creat, Files!Reopen, Files!Kill,
              Files!Go
  <2>1. mode' = "1777" /\ (file # Nobody => file' # Nobody)
    BY <1>2 DEF Files!FilesAssumption
  <2>2. CASE q # p
    <3>1. call'[p] = call[p]
      BY <1>2, <2>2
    <3> QED BY <2>1, <3>1
  <2>3. CASE q = p
    BY <1>2, <2>1, <2>3 DEF Files!MayCreate
  <2> QED BY <2>2, <2>3
<1> QED BY <1>1, <1>2 DEF Files!Next

\* Who the directory and the file belong to, and the calls of lock_dir and open_lock_file.
LEMMA FilesTypeCorrect ==
    ASSUME Files!FilesAssumption
    PROVE  Files!Spec => []Files!TypeOK
<1>1. Files!Init => Files!TypeOK
  BY DEF Files!Init, Files!TypeOK
<1> QED BY <1>1, NextFilesType, PTL DEF Files!Spec

\* SharedDirServesAll: of any number of processes and users, none that comes to the
\* directory once it is 1777 ends with LockOpen: what chmod gave stays, a file that
\* appears between the plain open and O_CREAT is opened by the second plain open, and
\* a file that O_CREAT refuses is there.
THEOREM SharedDirServesAllHolds ==
    ASSUME Files!FilesAssumption
    PROVE  Files!Spec => Files!SharedDirServesAll
<1>1. ASSUME NEW p \in Procs
      PROVE  Files!Spec => [](mode = "1777" /\ call[p] \in {"mkdir", "chmod", "open", "creat"}
                               => [](call[p] # "failed"))
  <2>1. mode = "1777" /\ call[p] \in {"mkdir", "chmod", "open", "creat"} => Served(p)
    BY DEF Served
  <2>2. Served(p) => call[p] # "failed"
    BY DEF Served
  <2>3. Files!TypeOK /\ Served(p) /\ [Files!Next]_(Files!vars) => Served(p)'
    BY NextServed
  <2> QED BY <2>1, <2>2, <2>3, FilesTypeCorrect, PTL DEF Files!Spec
<1> QED BY <1>1 DEF Files!SharedDirServesAll
=============================================================================
