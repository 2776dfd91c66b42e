-------------------------- MODULE SharedLockProofs --------------------------
(***************************************************************************)
(* Proofs about SharedLock, for any number of processes, threads and       *)
(* peers: type correctness, exclusion, no lost wakeup, and that it         *)
(* implements ReentrantLock.  All of them rest on IInv.                    *)
(***************************************************************************)
EXTENDS SharedLock, TLAPS

\* The threads that hold a process's state mutex are those in the middle of a
\* flock call or between flock and the owner field.
MutexInv ==
    /\ \A p \in Procs : mutex[p] # NoThread =>
          /\ ProcOf[mutex[p]] = p
          /\ pc[mutex[p]] \in {"flock", "granted", "unlocked"}
    /\ \A t \in Threads :
          pc[t] \in {"flock", "granted", "unlocked"} => mutex[ProcOf[t]] = t

\* What owner says: nobody else of the process has guards or is releasing one;
\* depth counts the owner's guards, the one being dropped included; until
\* the unlock the process holds the flock.
OwnerInv ==
    \A p \in Procs :
        /\ owner[p] = NoThread => depth[p] = 0
        /\ owner[p] # NoThread =>
              /\ ProcOf[owner[p]] = p
              /\ pc[owner[p]] \in {"idle", "acquire", "release", "unlocked"}
              /\ pc[owner[p]] = "release" => depth[p] = guards[owner[p]] + 1
              /\ pc[owner[p]] # "release" => depth[p] = guards[owner[p]]
              /\ pc[owner[p]] = "unlocked" => depth[p] = 0
              /\ pc[owner[p]] # "unlocked" => depth[p] > 0 /\ flock = p

\* A thread that is not the owner has no guards and is not in release; the one
\* past the wait sees no owner.
ThreadInv ==
    \A t \in Threads :
        /\ owner[ProcOf[t]] # t =>
              guards[t] = 0 /\ pc[t] \notin {"release", "unlocked"}
        /\ pc[t] \in {"flock", "granted"} => owner[ProcOf[t]] = NoThread
        /\ pc[t] = "granted" => flock = ProcOf[t]
        /\ pc[t] \in {"acquire", "release"} => guards[t] < MaxDepth

\* A process that holds the flock has an owner before its unlock, or a thread
\* that was just granted it.
FlockInv ==
    \A p \in Procs : flock = p =>
        \/ owner[p] # NoThread /\ pc[owner[p]] # "unlocked"
        \/ mutex[p] # NoThread /\ pc[mutex[p]] = "granted"

IInv == TypeOK /\ MutexInv /\ OwnerInv /\ ThreadInv /\ FlockInv /\ NoLostWakeup

-----------------------------------------------------------------------------
\* NotifyOne: the caller goes idle, at most one sleeper of its process wakes,
\* and if there was a sleeper then one did.
LEMMA NotifyOneEffect ==
    ASSUME pc \in [Threads -> PCs], NEW t \in Threads, pc[t] # "asleep",
           NEW p \in Procs, NotifyOne(p, t)
    PROVE  /\ pc' \in [Threads -> PCs]
           /\ pc'[t] = "idle"
           /\ \A u \in Threads \ {t} :
                 pc'[u] # pc[u] => pc[u] = "asleep" /\ ProcOf[u] = p /\ pc'[u] = "woken"
           /\ Asleep(p) = {} \/ \E w \in Threads : ProcOf[w] = p /\ pc'[w] = "woken"
<1>1. CASE Asleep(p) = {}
  BY <1>1 DEF NotifyOne, PCs
<1>2. CASE Asleep(p) # {}
  BY <1>2 DEF NotifyOne, Asleep, PCs
<1> QED BY <1>1, <1>2

LEMMA InitIInv == Init => IInv
BY ConstantsAssumption
   DEF Init, IInv, TypeOK, PCs, MutexInv, OwnerInv, ThreadInv, FlockInv, NoLostWakeup, Asleep

\* Every step keeps the inductive invariant.
LEMMA StepIInv == IInv /\ [Next]_vars => IInv'
<1> SUFFICES ASSUME IInv, [Next]_vars PROVE IInv'
  OBVIOUS
<1> USE ConstantsAssumption DEF IInv
<1>1. ASSUME NEW t \in Threads, CallAcquire(t) PROVE IInv'
  <2>1. TypeOK'
    BY <1>1 DEF CallAcquire, TypeOK, PCs, ThreadInv, OwnerInv
  <2>2. MutexInv'
    BY <1>1 DEF CallAcquire, TypeOK, MutexInv
  <2>3. OwnerInv'
    BY <1>1 DEF CallAcquire, TypeOK, PCs, MutexInv, OwnerInv, ThreadInv
  <2>4. ThreadInv'
    BY <1>1 DEF CallAcquire, TypeOK, PCs, MutexInv, OwnerInv, ThreadInv
  <2>5. FlockInv'
    BY <1>1 DEF CallAcquire, TypeOK, PCs, MutexInv, OwnerInv, ThreadInv, FlockInv
  <2>6. NoLostWakeup'
    BY <1>1 DEF CallAcquire, TypeOK, PCs, MutexInv, OwnerInv, ThreadInv, NoLostWakeup, Asleep
  <2> QED BY <2>1, <2>2, <2>3, <2>4, <2>5, <2>6
<1>2. ASSUME NEW t \in Threads, Reenter(t) PROVE IInv'
  <2>1. TypeOK'
    BY <1>2 DEF Reenter, TypeOK, PCs, ThreadInv, OwnerInv
  <2>2. MutexInv'
    BY <1>2 DEF Reenter, TypeOK, MutexInv
  <2>3. OwnerInv'
    BY <1>2 DEF Reenter, TypeOK, PCs, MutexInv, OwnerInv, ThreadInv
  <2>4. ThreadInv'
    BY <1>2 DEF Reenter, TypeOK, PCs, MutexInv, OwnerInv, ThreadInv
  <2>5. FlockInv'
    BY <1>2 DEF Reenter, TypeOK, PCs, MutexInv, OwnerInv, ThreadInv, FlockInv
  <2>6. NoLostWakeup'
    BY <1>2 DEF Reenter, TypeOK, PCs, MutexInv, OwnerInv, ThreadInv, NoLostWakeup, Asleep
  <2> QED BY <2>1, <2>2, <2>3, <2>4, <2>5, <2>6
<1>3. ASSUME NEW t \in Threads, WaitForOwner(t) PROVE IInv'
  <2>1. TypeOK'
    BY <1>3 DEF WaitForOwner, TypeOK, PCs, ThreadInv, OwnerInv
  <2>2. MutexInv'
    BY <1>3 DEF WaitForOwner, TypeOK, MutexInv
  <2>3. OwnerInv'
    BY <1>3 DEF WaitForOwner, TypeOK, PCs, MutexInv, OwnerInv, ThreadInv
  <2>4. ThreadInv'
    BY <1>3 DEF WaitForOwner, TypeOK, PCs, MutexInv, OwnerInv, ThreadInv
  <2>5. FlockInv'
    BY <1>3 DEF WaitForOwner, TypeOK, PCs, MutexInv, OwnerInv, ThreadInv, FlockInv
  <2>6. NoLostWakeup'
    BY <1>3 DEF WaitForOwner, TypeOK, PCs, MutexInv, OwnerInv, ThreadInv, NoLostWakeup, Asleep
  <2> QED BY <2>1, <2>2, <2>3, <2>4, <2>5, <2>6
<1>4. ASSUME NEW t \in Threads, CallFlock(t) PROVE IInv'
  <2>1. TypeOK'
    BY <1>4 DEF CallFlock, TypeOK, PCs, ThreadInv, OwnerInv
  <2>2. MutexInv'
    BY <1>4 DEF CallFlock, TypeOK, MutexInv
  <2>3. OwnerInv'
    BY <1>4 DEF CallFlock, TypeOK, PCs, MutexInv, OwnerInv, ThreadInv
  <2>4. ThreadInv'
    BY <1>4 DEF CallFlock, TypeOK, PCs, MutexInv, OwnerInv, ThreadInv
  <2>5. FlockInv'
    BY <1>4 DEF CallFlock, TypeOK, PCs, MutexInv, OwnerInv, ThreadInv, FlockInv
  <2>6. NoLostWakeup'
    BY <1>4 DEF CallFlock, TypeOK, PCs, MutexInv, OwnerInv, ThreadInv, NoLostWakeup, Asleep
  <2> QED BY <2>1, <2>2, <2>3, <2>4, <2>5, <2>6
<1>5. ASSUME NEW t \in Threads, FlockGranted(t) PROVE IInv'
  <2>1. TypeOK'
    BY <1>5 DEF FlockGranted, TypeOK, PCs, ThreadInv, OwnerInv
  <2>2. MutexInv'
    BY <1>5 DEF FlockGranted, TypeOK, MutexInv
  <2>3. OwnerInv'
    BY <1>5 DEF FlockGranted, TypeOK, PCs, MutexInv, OwnerInv, ThreadInv
  <2>4. ThreadInv'
    BY <1>5 DEF FlockGranted, TypeOK, PCs, MutexInv, OwnerInv, ThreadInv
  <2>5. FlockInv'
    <3>1. /\ mutex'[ProcOf[t]] = t /\ pc'[t] = "granted"
          /\ flock' = ProcOf[t] /\ t # NoThread
      BY <1>5 DEF FlockGranted, TypeOK, MutexInv
    <3> QED BY <3>1 DEF FlockInv
  <2>6. NoLostWakeup'
    BY <1>5 DEF FlockGranted, TypeOK, PCs, MutexInv, OwnerInv, ThreadInv, NoLostWakeup, Asleep
  <2> QED BY <2>1, <2>2, <2>3, <2>4, <2>5, <2>6
<1>6. ASSUME NEW t \in Threads, TakeOwnership(t) PROVE IInv'
  <2>1. TypeOK'
    BY <1>6 DEF TakeOwnership, TypeOK, PCs, ThreadInv, OwnerInv
  <2>2. MutexInv'
    BY <1>6 DEF TakeOwnership, TypeOK, MutexInv
  <2>3. OwnerInv'
    BY <1>6 DEF TakeOwnership, TypeOK, PCs, MutexInv, OwnerInv, ThreadInv
  <2>4. ThreadInv'
    BY <1>6 DEF TakeOwnership, TypeOK, PCs, MutexInv, OwnerInv, ThreadInv
  <2>5. FlockInv'
    BY <1>6 DEF TakeOwnership, TypeOK, PCs, MutexInv, OwnerInv, ThreadInv, FlockInv
  <2>6. NoLostWakeup'
    BY <1>6 DEF TakeOwnership, TypeOK, PCs, MutexInv, OwnerInv, ThreadInv, NoLostWakeup, Asleep
  <2> QED BY <2>1, <2>2, <2>3, <2>4, <2>5, <2>6
<1>7. ASSUME NEW t \in Threads, FlockFails(t) PROVE IInv'
  <2>0. /\ pc' \in [Threads -> PCs]
        /\ pc'[t] = "idle"
        /\ \A u \in Threads \ {t} :
              pc'[u] # pc[u] => /\ pc[u] = "asleep" /\ ProcOf[u] = ProcOf[t]
                                /\ pc'[u] = "woken"
        /\ Asleep(ProcOf[t]) = {} \/ \E w \in Threads : ProcOf[w] = ProcOf[t] /\ pc'[w] = "woken"
    BY <1>7, NotifyOneEffect DEF FlockFails, TypeOK
  <2>1. TypeOK'
    BY <1>7, <2>0 DEF FlockFails, TypeOK, PCs, ThreadInv, OwnerInv
  <2>2. MutexInv'
    BY <1>7, <2>0 DEF FlockFails, TypeOK, MutexInv
  <2>3. OwnerInv'
    BY <1>7, <2>0 DEF FlockFails, TypeOK, PCs, MutexInv, OwnerInv, ThreadInv
  <2>4. ThreadInv'
    BY <1>7, <2>0 DEF FlockFails, TypeOK, PCs, MutexInv, OwnerInv, ThreadInv
  <2>5. FlockInv'
    BY <1>7, <2>0 DEF FlockFails, TypeOK, PCs, MutexInv, OwnerInv, ThreadInv, FlockInv
  <2>6. NoLostWakeup'
    BY <1>7, <2>0 DEF FlockFails, TypeOK, PCs, MutexInv, OwnerInv, ThreadInv, NoLostWakeup, Asleep
  <2> QED BY <2>1, <2>2, <2>3, <2>4, <2>5, <2>6
<1>8. ASSUME NEW t \in Threads, SpuriousWake(t) PROVE IInv'
  <2>1. TypeOK'
    BY <1>8 DEF SpuriousWake, TypeOK, PCs, ThreadInv, OwnerInv
  <2>2. MutexInv'
    BY <1>8 DEF SpuriousWake, TypeOK, MutexInv
  <2>3. OwnerInv'
    BY <1>8 DEF SpuriousWake, TypeOK, PCs, MutexInv, OwnerInv, ThreadInv
  <2>4. ThreadInv'
    BY <1>8 DEF SpuriousWake, TypeOK, PCs, MutexInv, OwnerInv, ThreadInv
  <2>5. FlockInv'
    BY <1>8 DEF SpuriousWake, TypeOK, PCs, MutexInv, OwnerInv, ThreadInv, FlockInv
  <2>6. NoLostWakeup'
    BY <1>8 DEF SpuriousWake, TypeOK, PCs, MutexInv, OwnerInv, ThreadInv, NoLostWakeup, Asleep
  <2> QED BY <2>1, <2>2, <2>3, <2>4, <2>5, <2>6
<1>9. ASSUME NEW t \in Threads, DropGuard(t) PROVE IInv'
  <2>1. TypeOK'
    BY <1>9 DEF DropGuard, TypeOK, PCs, ThreadInv, OwnerInv
  <2>2. MutexInv'
    BY <1>9 DEF DropGuard, TypeOK, MutexInv
  <2>3. OwnerInv'
    BY <1>9 DEF DropGuard, TypeOK, PCs, MutexInv, OwnerInv, ThreadInv
  <2>4. ThreadInv'
    BY <1>9 DEF DropGuard, TypeOK, PCs, MutexInv, OwnerInv, ThreadInv
  <2>5. FlockInv'
    BY <1>9 DEF DropGuard, TypeOK, PCs, MutexInv, OwnerInv, ThreadInv, FlockInv
  <2>6. NoLostWakeup'
    BY <1>9 DEF DropGuard, TypeOK, PCs, MutexInv, OwnerInv, ThreadInv, NoLostWakeup, Asleep
  <2> QED BY <2>1, <2>2, <2>3, <2>4, <2>5, <2>6
<1>10. ASSUME NEW t \in Threads, ReleaseNested(t) PROVE IInv'
  <2>1. TypeOK'
    BY <1>10 DEF ReleaseNested, TypeOK, PCs, ThreadInv, OwnerInv
  <2>2. MutexInv'
    BY <1>10 DEF ReleaseNested, TypeOK, MutexInv
  <2>3. OwnerInv'
    BY <1>10 DEF ReleaseNested, TypeOK, PCs, MutexInv, OwnerInv, ThreadInv
  <2>4. ThreadInv'
    BY <1>10 DEF ReleaseNested, TypeOK, PCs, MutexInv, OwnerInv, ThreadInv
  <2>5. FlockInv'
    BY <1>10 DEF ReleaseNested, TypeOK, PCs, MutexInv, OwnerInv, ThreadInv, FlockInv
  <2>6. NoLostWakeup'
    BY <1>10 DEF ReleaseNested, TypeOK, PCs, MutexInv, OwnerInv, ThreadInv, NoLostWakeup, Asleep
  <2> QED BY <2>1, <2>2, <2>3, <2>4, <2>5, <2>6
<1>11. ASSUME NEW t \in Threads, ReleaseLast(t) PROVE IInv'
  <2>1. TypeOK'
    BY <1>11 DEF ReleaseLast, TypeOK, PCs, ThreadInv, OwnerInv
  <2>2. MutexInv'
    BY <1>11 DEF ReleaseLast, TypeOK, MutexInv
  <2>3. OwnerInv'
    BY <1>11 DEF ReleaseLast, TypeOK, PCs, MutexInv, OwnerInv, ThreadInv
  <2>4. ThreadInv'
    BY <1>11 DEF ReleaseLast, TypeOK, PCs, MutexInv, OwnerInv, ThreadInv
  <2>5. FlockInv'
    BY <1>11 DEF ReleaseLast, TypeOK, PCs, MutexInv, OwnerInv, ThreadInv, FlockInv
  <2>6. NoLostWakeup'
    BY <1>11 DEF ReleaseLast, TypeOK, PCs, MutexInv, OwnerInv, ThreadInv, NoLostWakeup, Asleep
  <2> QED BY <2>1, <2>2, <2>3, <2>4, <2>5, <2>6
<1>12. ASSUME NEW t \in Threads, FinishRelease(t) PROVE IInv'
  <2>0. /\ pc' \in [Threads -> PCs]
        /\ pc'[t] = "idle"
        /\ \A u \in Threads \ {t} :
              pc'[u] # pc[u] => /\ pc[u] = "asleep" /\ ProcOf[u] = ProcOf[t]
                                /\ pc'[u] = "woken"
        /\ Asleep(ProcOf[t]) = {} \/ \E w \in Threads : ProcOf[w] = ProcOf[t] /\ pc'[w] = "woken"
    BY <1>12, NotifyOneEffect DEF FinishRelease, TypeOK
  <2>1. TypeOK'
    BY <1>12, <2>0 DEF FinishRelease, TypeOK, PCs, ThreadInv, OwnerInv
  <2>2. MutexInv'
    BY <1>12, <2>0 DEF FinishRelease, TypeOK, MutexInv
  <2>3. OwnerInv'
    BY <1>12, <2>0 DEF FinishRelease, TypeOK, PCs, MutexInv, OwnerInv, ThreadInv
  <2>4. ThreadInv'
    BY <1>12, <2>0 DEF FinishRelease, TypeOK, PCs, MutexInv, OwnerInv, ThreadInv
  <2>5. FlockInv'
    BY <1>12, <2>0 DEF FinishRelease, TypeOK, PCs, MutexInv, OwnerInv, ThreadInv, FlockInv
  <2>6. NoLostWakeup'
    BY <1>12, <2>0 DEF FinishRelease, TypeOK, PCs, MutexInv, OwnerInv, ThreadInv, NoLostWakeup, Asleep
  <2> QED BY <2>1, <2>2, <2>3, <2>4, <2>5, <2>6
<1>13. ASSUME NEW p \in Procs, Crash(p) PROVE IInv'
  <2>1. TypeOK'
    BY <1>13 DEF Crash, TypeOK, PCs, ThreadInv, OwnerInv
  <2>2. MutexInv'
    BY <1>13 DEF Crash, TypeOK, MutexInv
  <2>3. OwnerInv'
    BY <1>13 DEF Crash, TypeOK, PCs, MutexInv, OwnerInv, ThreadInv
  <2>4. ThreadInv'
    BY <1>13 DEF Crash, TypeOK, PCs, MutexInv, OwnerInv, ThreadInv
  <2>5. FlockInv'
    BY <1>13 DEF Crash, TypeOK, PCs, MutexInv, OwnerInv, ThreadInv, FlockInv
  <2>6. NoLostWakeup'
    BY <1>13 DEF Crash, TypeOK, PCs, MutexInv, OwnerInv, ThreadInv, NoLostWakeup, Asleep
  <2> QED BY <2>1, <2>2, <2>3, <2>4, <2>5, <2>6
<1>14. ASSUME NEW q \in Peers, PeerLock(q) PROVE IInv'
  <2>1. TypeOK'
    BY <1>14 DEF PeerLock, TypeOK, PCs, ThreadInv, OwnerInv
  <2>2. MutexInv'
    BY <1>14 DEF PeerLock, TypeOK, MutexInv
  <2>3. OwnerInv'
    BY <1>14 DEF PeerLock, TypeOK, PCs, MutexInv, OwnerInv, ThreadInv
  <2>4. ThreadInv'
    BY <1>14 DEF PeerLock, TypeOK, PCs, MutexInv, OwnerInv, ThreadInv
  <2>5. FlockInv'
    BY <1>14 DEF PeerLock, TypeOK, PCs, MutexInv, OwnerInv, ThreadInv, FlockInv
  <2>6. NoLostWakeup'
    BY <1>14 DEF PeerLock, TypeOK, PCs, MutexInv, OwnerInv, ThreadInv, NoLostWakeup, Asleep
  <2> QED BY <2>1, <2>2, <2>3, <2>4, <2>5, <2>6
<1>15. ASSUME NEW q \in Peers, PeerUnlock(q) PROVE IInv'
  <2>1. TypeOK'
    BY <1>15 DEF PeerUnlock, TypeOK, PCs, ThreadInv, OwnerInv
  <2>2. MutexInv'
    BY <1>15 DEF PeerUnlock, TypeOK, MutexInv
  <2>3. OwnerInv'
    BY <1>15 DEF PeerUnlock, TypeOK, PCs, MutexInv, OwnerInv, ThreadInv
  <2>4. ThreadInv'
    BY <1>15 DEF PeerUnlock, TypeOK, PCs, MutexInv, OwnerInv, ThreadInv
  <2>5. FlockInv'
    BY <1>15 DEF PeerUnlock, TypeOK, PCs, MutexInv, OwnerInv, ThreadInv, FlockInv
  <2>6. NoLostWakeup'
    BY <1>15 DEF PeerUnlock, TypeOK, PCs, MutexInv, OwnerInv, ThreadInv, NoLostWakeup, Asleep
  <2> QED BY <2>1, <2>2, <2>3, <2>4, <2>5, <2>6
<1>16. CASE UNCHANGED vars
  BY <1>16 DEF vars, TypeOK, PCs, MutexInv, OwnerInv, ThreadInv, FlockInv, NoLostWakeup, Asleep
<1> QED
  BY <1>1, <1>2, <1>3, <1>4, <1>5, <1>6, <1>7, <1>8, <1>9, <1>10, <1>11, <1>12, <1>13, <1>14, <1>15, <1>16 DEF Next, Step, Environment

\* Every behaviour of SharedLock satisfies the inductive invariant.
THEOREM Invariance == Spec => []IInv
BY InitIInv, StepIInv, PTL DEF Spec

\* The state of every SharedLock stays well-formed; depth never underflows.
THEOREM TypeCorrect == Spec => []TypeOK
<1>1. IInv => TypeOK
  BY DEF IInv
<1> QED BY <1>1, Invariance, PTL

\* A live guard excludes every other thread, process and peer, for any number
\* of them, whatever crashes, flock failures and wakeups happen.
THEOREM ExclusionHolds == Spec => []Exclusion
<1>1. IInv => Exclusion
  <2> SUFFICES ASSUME IInv, NEW t \in Threads, guards[t] > 0
               PROVE  /\ flock = ProcOf[t]
                      /\ \A u \in Threads \ {t} : guards[u] = 0
    BY DEF Exclusion
  <2>1. owner[ProcOf[t]] = t /\ ProcOf[t] \in Procs /\ t # NoThread
    BY ConstantsAssumption DEF IInv, TypeOK, ThreadInv
  <2>2. depth[ProcOf[t]] > 0
    BY <2>1 DEF IInv, TypeOK, OwnerInv
  <2>3. flock = ProcOf[t]
    BY <2>1, <2>2 DEF IInv, TypeOK, OwnerInv
  <2>4. ASSUME NEW u \in Threads \ {t}, guards[u] # 0 PROVE FALSE
    <3>1. owner[ProcOf[u]] = u /\ ProcOf[u] \in Procs /\ u # NoThread
      BY <2>4, ConstantsAssumption DEF IInv, ThreadInv
    <3>2. depth[ProcOf[u]] > 0
      BY <2>4, <3>1 DEF IInv, TypeOK, OwnerInv
    <3>3. flock = ProcOf[u]
      BY <3>1, <3>2 DEF IInv, TypeOK, OwnerInv
    <3> QED BY <2>1, <2>3, <3>1, <3>3
  <2> QED BY <2>3, <2>4
<1> QED BY <1>1, Invariance, PTL

\* A process that holds the flock always has a thread that will drop it.
THEOREM FlockHasReleaserHolds == Spec => []FlockHasReleaser
<1>1. IInv => FlockHasReleaser
  <2> SUFFICES ASSUME IInv, NEW p \in Procs, flock = p
               PROVE  \E t \in Threads :
                         /\ ProcOf[t] = p
                         /\ guards[t] > 0 \/ pc[t] \in {"granted", "release"}
    BY DEF FlockHasReleaser
  <2>1. CASE owner[p] # NoThread /\ pc[owner[p]] # "unlocked"
    BY <2>1 DEF IInv, TypeOK, OwnerInv
  <2>2. CASE mutex[p] # NoThread /\ pc[mutex[p]] = "granted"
    BY <2>2 DEF IInv, TypeOK, MutexInv
  <2> QED BY <2>1, <2>2 DEF IInv, FlockInv
<1> QED BY <1>1, Invariance, PTL

\* No sleeper is ever left without somebody who will notify it.
THEOREM NoLostWakeupHolds == Spec => []NoLostWakeup
<1>1. IInv => NoLostWakeup
  BY DEF IInv
<1> QED BY <1>1, Invariance, PTL

-----------------------------------------------------------------------------
\* Every step of SharedLock takes one guard, drops one, kills a process, or is
\* invisible to callers: SharedLock implements the atomic reentrant lock.
THEOREM Refinement == Spec => ImplementsReentrantLock
<1>1. Init => Abstract!Init
  BY DEF Init, Abstract!Init
<1>2. IInv /\ IInv' /\ [Next]_vars => [Abstract!Next]_guards
  <2> SUFFICES ASSUME IInv, IInv', [Next]_vars PROVE [Abstract!Next]_guards
    OBVIOUS
  <2> USE ConstantsAssumption
  <2>1. ASSUME NEW t \in Threads, Reenter(t) \/ TakeOwnership(t) PROVE Abstract!Next
    <3>1. guards' = [guards EXCEPT ![t] = @ + 1] /\ guards'[t] > 0
      BY <2>1 DEF Reenter, TakeOwnership, IInv, TypeOK
    <3>2. \A u \in Threads \ {t} : guards'[u] = 0
      <4>1. owner'[ProcOf[t]] = t /\ flock' = ProcOf[t] /\ ProcOf[t] \in Procs
        BY <2>1 DEF Reenter, TakeOwnership, IInv, TypeOK, OwnerInv, ThreadInv
      <4>2. SUFFICES ASSUME NEW u \in Threads \ {t}, guards'[u] # 0 PROVE FALSE
        OBVIOUS
      <4>3. owner'[ProcOf[u]] = u /\ ProcOf[u] \in Procs /\ u # NoThread
        BY <4>2 DEF IInv, ThreadInv
      <4>4. depth'[ProcOf[u]] > 0
        BY <4>2, <4>3 DEF IInv, TypeOK, OwnerInv
      <4>5. flock' = ProcOf[u]
        BY <4>3, <4>4 DEF IInv, TypeOK, OwnerInv
      <4> QED BY <4>1, <4>2, <4>3, <4>5
    <3>3. \A u \in Threads \ {t} : guards[u] = 0
      BY <3>1, <3>2 DEF IInv, TypeOK
    <3> QED BY <3>1, <3>3 DEF Abstract!Next, Abstract!TakeGuard
  <2>2. ASSUME NEW t \in Threads, DropGuard(t) PROVE Abstract!Next
    BY <2>2 DEF DropGuard, Abstract!Next, Abstract!DropGuard
  <2>3. ASSUME NEW p \in Procs, Crash(p) PROVE Abstract!Next
    BY <2>3 DEF Crash, Abstract!Next, Abstract!Die
  <2>4. ASSUME NEW t \in Threads,
               \/ CallAcquire(t) \/ WaitForOwner(t) \/ CallFlock(t) \/ FlockGranted(t)
               \/ FlockFails(t) \/ SpuriousWake(t)
               \/ ReleaseNested(t) \/ ReleaseLast(t) \/ FinishRelease(t)
        PROVE  UNCHANGED guards
    BY <2>4 DEF CallAcquire, WaitForOwner, CallFlock, FlockGranted, FlockFails,
                SpuriousWake, ReleaseNested, ReleaseLast, FinishRelease
  <2>5. ASSUME NEW q \in Peers, PeerLock(q) \/ PeerUnlock(q) PROVE UNCHANGED guards
    BY <2>5 DEF PeerLock, PeerUnlock
  <2>6. CASE UNCHANGED vars
    BY <2>6 DEF vars
  <2> QED
    BY <2>1, <2>2, <2>3, <2>4, <2>5, <2>6 DEF Next, Step, Environment
<1> QED
  BY <1>1, <1>2, Invariance, PTL DEF Spec, ImplementsReentrantLock, Abstract!Spec
=============================================================================
