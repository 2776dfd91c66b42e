--------------------------- MODULE LifecycleProofs ---------------------------
(***************************************************************************)
(* Proofs about Lifecycle, for any handles, custom mappers, permissions    *)
(* and kills: type correctness, that every way out of open and of a Device *)
(* releases what it took, that a UIO window never goes without its lock,   *)
(* that power/control is restored, and only after the unmap, and that a    *)
(* custom mapper is returned.                                              *)
(***************************************************************************)
EXTENDS Lifecycle, TLAPS

\* What a handle has, by where its thread is.
\* A Device exists between its installation and the drop of its backend.
DeviceInv ==
    \A h \in Handles :
        /\ device[h] => pc[h] \in {"idle", "op", "drop_backend"}
        /\ pc[h] \in {"op", "drop_backend"} => device[h]

\* Only the last steps of open have a mapping or a lock without a Device.
WindowInv ==
    \A h \in Handles :
        /\ mapping[h] # "none" => device[h] \/ pc[h] \in {"uio_lock", "opened"}
        /\ uioLock[h] => device[h] \/ pc[h] = "opened"
        /\ mapping[h] = "Uio" /\ ~uioLock[h] => pc[h] = "uio_lock"

\* A runtime-PM guard belongs to an open, a Device, or the tail of their drop.
GuardInv ==
    \A h \in Handles :
        saved[h] # "none" =>
            device[h] \/ pc[h] \in {"pm_write", "map", "uio_lock", "opened", "drop_pm", "dead"}

IInv == TypeOK /\ DeviceInv /\ WindowInv /\ GuardInv

-----------------------------------------------------------------------------
LEMMA InitIInv == Init => IInv
<1> SUFFICES ASSUME Init PROVE IInv
  OBVIOUS
<1>1. TypeOK
  <2>1. 0 \in 0..MaxCalls
    BY LifecycleAssumption
  <2> QED BY <2>1, LifecycleAssumption DEF Init, TypeOK, PCs
<1>2. DeviceInv /\ WindowInv /\ GuardInv
  BY DEF Init, DeviceInv, WindowInv, GuardInv
<1> QED BY <1>1, <1>2 DEF IInv

\* A call keeps the call counter in its bound.
LEMMA CountCallType ==
    ASSUME IInv, NEW h \in Handles, CountCall(h)
    PROVE  calls' \in [Handles -> 0..MaxCalls]
<1>1. calls[h] \in 0..MaxCalls /\ calls[h] < MaxCalls
  BY DEF CountCall, IInv, TypeOK
<1>2. calls[h] + 1 \in 0..MaxCalls
  BY <1>1, LifecycleAssumption
<1> QED BY <1>2 DEF CountCall, IInv, TypeOK

\* map, access and unmap on entry.
LEMMA CallStep ==
    ASSUME IInv, NEW h \in Handles, Call(h)
    PROVE  IInv'
<1>1. CASE MapRefused(h)
  <2>1. TypeOK'
    BY <1>1, CountCallType DEF MapRefused, IInv, TypeOK
  <2> QED BY <1>1, <2>1 DEF MapRefused, IInv, DeviceInv, WindowInv, GuardInv
<1>2. CASE BeginAccess(h)
  <2>1. TypeOK'
    BY <1>2, CountCallType DEF BeginAccess, Go, IInv, TypeOK, PCs
  <2> QED BY <1>2, <2>1
          DEF BeginAccess, CountCall, Go, IInv, TypeOK, DeviceInv, WindowInv, GuardInv
<1>3. CASE CallUnmap(h)
  <2>1. TypeOK'
    BY <1>3 DEF CallUnmap, Go, IInv, TypeOK, PCs
  <2> QED BY <1>3, <2>1
          DEF CallUnmap, Go, IInv, TypeOK, DeviceInv, WindowInv, GuardInv
<1>4. ASSUME NEW forAccess \in BOOLEAN, BeginMap(h, forAccess) PROVE IInv'
  <2>1. TypeOK'
    BY <1>4, CountCallType DEF BeginMap, Go, IInv, TypeOK, PCs
  <2> QED BY <1>4, <2>1
          DEF BeginMap, CountCall, Go, IInv, TypeOK, DeviceInv, WindowInv, GuardInv
<1> QED BY <1>1, <1>2, <1>3, <1>4 DEF Call

\* The failures of open: none of them has a Device, a lock or, after FailOpen,
\* a mapping.
LEMMA FailStep ==
    ASSUME IInv, NEW h \in Handles,
           ResolveFails(h) \/ MapFails(h) \/ UioLockFails(h)
    PROVE  IInv'
<1>1. TypeOK'
  BY ZenonT(60) DEF ResolveFails, MapFails, UioLockFails, FailOpen, Go, HasCustom, IInv, TypeOK, PCs
<1>2. /\ pc[h] \in {"open", "map", "uio_lock"} /\ FailOpen(h)
      /\ UNCHANGED <<device, uioLock, saved>>
  BY DEF ResolveFails, MapFails, UioLockFails
<1>3. DeviceInv' /\ WindowInv' /\ GuardInv'
  BY <1>2 DEF FailOpen, Go, IInv, TypeOK, DeviceInv, WindowInv, GuardInv
<1> QED BY <1>1, <1>3 DEF IInv

\* The successful steps of open.
LEMMA OpenStep ==
    ASSUME IInv, NEW h \in Handles,
           \/ \E k \in Kinds : Resolve(h, k)
           \/ PmRead(h) \/ PmWrite(h) \/ MapWindow(h) \/ TakeUioLock(h) \/ Install(h)
    PROVE  IInv'
<1>1. ASSUME NEW k \in Kinds, Resolve(h, k) PROVE IInv'
  <2>1. TypeOK'
    BY <1>1, LifecycleAssumption DEF Resolve, Go, IInv, TypeOK, PCs
  <2> QED BY <1>1, <2>1
          DEF Resolve, Go, IInv, TypeOK, DeviceInv, WindowInv, GuardInv
<1>2. CASE PmRead(h)
  <2>1. TypeOK'
    BY <1>2 DEF PmRead, Go, IInv, TypeOK, PCs
  <2> QED BY <1>2, <2>1
          DEF PmRead, Go, IInv, TypeOK, DeviceInv, WindowInv, GuardInv
<1>3. CASE PmWrite(h)
  <2>1. TypeOK'
    BY <1>3 DEF PmWrite, Go, IInv, TypeOK, PCs
  <2> QED BY <1>3, <2>1
          DEF PmWrite, Go, IInv, TypeOK, DeviceInv, WindowInv, GuardInv
<1>4. CASE MapWindow(h)
  <2>1. TypeOK'
    BY <1>4 DEF MapWindow, Go, IInv, TypeOK, PCs
  <2> QED BY <1>4, <2>1
          DEF MapWindow, Go, HasCustom, IInv, TypeOK, DeviceInv, WindowInv, GuardInv
<1>5. CASE TakeUioLock(h)
  <2>1. TypeOK'
    BY <1>5 DEF TakeUioLock, Go, IInv, TypeOK, PCs
  <2> QED BY <1>5, <2>1
          DEF TakeUioLock, Go, IInv, TypeOK, DeviceInv, WindowInv, GuardInv
<1>6. CASE Install(h)
  <2>1. TypeOK'
    BY <1>6 DEF Install, Go, HasCustom, IInv, TypeOK, PCs
  <2> QED BY <1>6, <2>1
          DEF Install, Go, IInv, TypeOK, DeviceInv, WindowInv, GuardInv
<1> QED BY <1>1, <1>2, <1>3, <1>4, <1>5, <1>6

\* The end of an access, the two halves of the drop, and a kill.
LEMMA CloseStep ==
    ASSUME IInv, NEW h \in Handles,
           EndAccess(h) \/ DropBackend(h) \/ DropPmGuard(h) \/ Kill(h)
    PROVE  IInv'
<1>1. CASE EndAccess(h)
  <2>1. TypeOK'
    BY <1>1 DEF EndAccess, Go, IInv, TypeOK, PCs
  <2> QED BY <1>1, <2>1
          DEF EndAccess, Go, IInv, TypeOK, DeviceInv, WindowInv, GuardInv
<1>2. CASE DropBackend(h)
  <2>1. TypeOK'
    BY <1>2 DEF DropBackend, Go, IInv, TypeOK, PCs
  <2> QED BY <1>2, <2>1
          DEF DropBackend, Go, IInv, TypeOK, DeviceInv, WindowInv, GuardInv
<1>3. CASE DropPmGuard(h)
  <2>1. TypeOK'
    BY <1>3 DEF DropPmGuard, Go, IInv, TypeOK, PCs
  <2> QED BY <1>3, <2>1
          DEF DropPmGuard, Go, IInv, TypeOK, DeviceInv, WindowInv, GuardInv
<1>4. CASE Kill(h)
  <2>1. TypeOK'
    BY <1>4 DEF Kill, Go, IInv, TypeOK, PCs
  <2> QED BY <1>4, <2>1
          DEF Kill, Go, IInv, TypeOK, DeviceInv, WindowInv, GuardInv
<1> QED BY <1>1, <1>2, <1>3, <1>4

LEMMA NextIInv == IInv /\ [Next]_vars => IInv'
<1> SUFFICES ASSUME IInv, [Next]_vars PROVE IInv'
  OBVIOUS
<1>1. ASSUME NEW h \in Handles, Step(h) \/ Call(h) \/ Kill(h) PROVE IInv'
  BY <1>1, CallStep, FailStep, OpenStep, CloseStep DEF Step
<1>2. CASE UNCHANGED vars
  BY <1>2 DEF vars, IInv, TypeOK, DeviceInv, WindowInv, GuardInv
<1> QED BY <1>1, <1>2 DEF Next

LEMMA Invariance == Spec => []IInv
<1> QED BY InitIInv, NextIInv, PTL DEF Spec

-----------------------------------------------------------------------------
\* Every variable keeps its domain; in particular a RuntimePmGuard never saves
\* "on", so dropping one never turns autosuspend off for good.
THEOREM TypeCorrect == Spec => []TypeOK
<1>1. IInv => TypeOK
  BY DEF IInv
<1> QED BY <1>1, Invariance, PTL

\* Wherever DeviceBuilder::open fails and however a Device is closed, the
\* Interface is left without mapping, lock handle and runtime-PM guard.
THEOREM ErrorPathsReleaseHolds == Spec => []ErrorPathsRelease
<1>1. IInv => ErrorPathsRelease
  BY DEF IInv, TypeOK, WindowInv, GuardInv, ErrorPathsRelease
<1> QED BY <1>1, Invariance, PTL

\* A Device with a UIO window always has the lock of /dev/uioN.
THEOREM UioWindowHasLockHolds == Spec => []UioWindowHasLock
<1>1. IInv => UioWindowHasLock
  BY DEF IInv, TypeOK, DeviceInv, WindowInv, UioWindowHasLock
<1> QED BY <1>1, Invariance, PTL

\* A RuntimePmGuard goes only after the window it protects is unmapped.
THEOREM RestoreAfterUnmapHolds == Spec => RestoreAfterUnmap
<1> DEFINE A == \A h \in Handles :
                    saved[h] # "none" /\ saved'[h] = "none" => mapping[h] = "none"
<1>1. IInv /\ [Next]_vars => [A]_vars
  <2> SUFFICES ASSUME IInv, Next, NEW h \in Handles,
                      saved[h] # "none", saved'[h] = "none"
               PROVE  mapping[h] = "none"
    BY DEF vars
  <2>1. PICK g \in Handles : Step(g) \/ Call(g) \/ Kill(g)
    BY DEF Next
  <2>2. PmWrite(g) \/ DropPmGuard(g) \/ PmRead(g)
    BY <2>1 DEF Step, Call, Resolve, ResolveFails, MapWindow, MapFails, TakeUioLock,
                UioLockFails, Install, EndAccess, DropBackend, MapRefused, BeginAccess,
                CallUnmap, BeginMap, Kill
  <2>3. g = h /\ pc[h] \in {"pm_write", "drop_pm"}
    BY <2>2 DEF PmWrite, DropPmGuard, PmRead, IInv, TypeOK
  <2> QED BY <2>3 DEF IInv, DeviceInv, WindowInv
<1> QED BY <1>1, Invariance, PTL DEF Spec, RestoreAfterUnmap
-----------------------------------------------------------------------------
(* power/control is restored *)

\* Whoever finds power/control "on" in a guarded world has somebody to thank
\* for it: a guard that wrote "on" and has not been dropped.  A guard is only
\* created where the file read "auto", and only that value is written back.
ControlInv ==
    /\ InitControl = "on" => control = "on" /\ \A h \in Handles : saved[h] = "none"
    /\ InitControl = "auto" /\ control = "on" =>
           \E h \in Handles : saved[h] # "none" /\ pc[h] # "pm_write"
    /\ \A h \in Handles : pc[h] = "pm_write" => saved[h] # "none"

LEMMA InitControlInv == Init => ControlInv
<1> QED BY LifecycleAssumption DEF Init, ControlInv

\* The steps that leave power/control and every guard alone.
LEMMA ControlUntouched ==
    ASSUME IInv, ControlInv, UNCHANGED <<saved, control>>,
           NEW h \in Handles, pc[h] # "pm_write",
           NEW where \in PCs \ {"pm_write"}, pc' = [pc EXCEPT ![h] = where]
    PROVE  ControlInv'
<1>1. \A g \in Handles : pc'[g] = "pm_write" => pc[g] = "pm_write"
  BY DEF IInv, TypeOK
<1>2. \A g \in Handles : pc[g] # "pm_write" => pc'[g] # "pm_write"
  BY DEF IInv, TypeOK
<1> QED BY <1>1, <1>2 DEF ControlInv

LEMMA NextControlInv == IInv /\ ControlInv /\ [Next]_vars => ControlInv'
<1> SUFFICES ASSUME IInv, ControlInv, [Next]_vars PROVE ControlInv'
  OBVIOUS
<1>1. ASSUME NEW h \in Handles, PmRead(h) PROVE ControlInv'
  <2>1. CASE control = "on"
    BY <1>1, <2>1, ControlUntouched DEF PmRead, Go, PCs
  <2>2. CASE control # "on"
    BY <1>1, <2>2 DEF PmRead, Go, IInv, TypeOK, ControlInv
  <2> QED BY <2>1, <2>2
<1>2. ASSUME NEW h \in Handles, PmWrite(h) PROVE ControlInv'
  <2>1. saved[h] # "none" /\ pc[h] = "pm_write" /\ pc'[h] = "map"
    BY <1>2 DEF PmWrite, Go, IInv, TypeOK, ControlInv
  <2>2. InitControl = "auto"
    BY <2>1, LifecycleAssumption DEF ControlInv
  <2>3. \A g \in Handles \ {h} : pc'[g] = pc[g] /\ saved'[g] = saved[g]
    BY <1>2 DEF PmWrite, Go, IInv, TypeOK
  <2>4. CASE h \in Root
    \* the guard of h is the one the invariant asks for
    <3>1. saved'[h] # "none"
      BY <1>2, <2>1, <2>4 DEF PmWrite
    <3> QED BY <2>1, <2>2, <2>3, <3>1 DEF ControlInv
  <2>5. CASE h \notin Root
    \* h gives its guard up, but it was not the one that wrote "on"
    BY <1>2, <2>1, <2>2, <2>3, <2>5 DEF PmWrite, ControlInv
  <2> QED BY <2>4, <2>5
<1>3. ASSUME NEW h \in Handles, DropPmGuard(h) PROVE ControlInv'
  <2>1. pc[h] = "drop_pm" /\ pc'[h] = "idle" /\ saved'[h] = "none"
    BY <1>3 DEF DropPmGuard, Go, IInv, TypeOK
  <2>2. \A g \in Handles \ {h} : pc'[g] = pc[g] /\ saved'[g] = saved[g]
    BY <1>3 DEF DropPmGuard, Go, IInv, TypeOK
  <2>3. CASE saved[h] = "none"
    BY <1>3, <2>1, <2>2, <2>3 DEF DropPmGuard, ControlInv
  <2>4. CASE saved[h] # "none"
    <3>1. InitControl = "auto" /\ control' = "auto"
      BY <1>3, <2>4, LifecycleAssumption DEF DropPmGuard, IInv, TypeOK, ControlInv
    <3> QED BY <2>1, <2>2, <3>1 DEF ControlInv
  <2> QED BY <2>3, <2>4
<1>4. ASSUME NEW h \in Handles, MapRefused(h) PROVE ControlInv'
  BY <1>4 DEF MapRefused, ControlInv
<1>5. ASSUME NEW h \in Handles,
             \/ \E k \in Kinds : Resolve(h, k)
             \/ ResolveFails(h) \/ MapWindow(h) \/ MapFails(h) \/ TakeUioLock(h)
             \/ UioLockFails(h) \/ Install(h) \/ EndAccess(h) \/ DropBackend(h)
             \/ BeginAccess(h) \/ CallUnmap(h) \/ Kill(h)
             \/ \E forAccess \in BOOLEAN : BeginMap(h, forAccess)
      PROVE  ControlInv'
  <2>1. UNCHANGED <<saved, control>>
    BY <1>5 DEF Resolve, ResolveFails, MapWindow, MapFails, TakeUioLock, UioLockFails,
                Install, EndAccess, DropBackend, BeginAccess, CallUnmap, Kill, BeginMap
  <2>2. CASE pc[h] = "pm_write"
    \* of these only a kill finds a thread about to write power/control
    <3>1. pc' = [pc EXCEPT ![h] = "dead"]
      BY <1>5, <2>2
         DEF Resolve, ResolveFails, MapWindow, MapFails, TakeUioLock, UioLockFails,
             Install, EndAccess, DropBackend, BeginAccess, CallUnmap, Kill, BeginMap,
             CountCall, Go
    <3> QED BY <2>1, <2>2, <3>1 DEF IInv, TypeOK, ControlInv
  <2>3. CASE pc[h] # "pm_write"
    <3>1. \E where \in PCs \ {"pm_write"} : pc' = [pc EXCEPT ![h] = where]
      <4>1. CASE \E k \in Kinds : Resolve(h, k)
        BY <4>1 DEF Resolve, Go, PCs
      <4>2. CASE Install(h) \/ EndAccess(h) \/ MapWindow(h)
        BY <4>2 DEF Install, EndAccess, MapWindow, Go, PCs
      <4>3. CASE ResolveFails(h) \/ MapFails(h) \/ UioLockFails(h) \/ TakeUioLock(h)
        BY <4>3 DEF ResolveFails, MapFails, UioLockFails, FailOpen, TakeUioLock, Go, PCs
      <4>4. CASE \/ DropBackend(h) \/ BeginAccess(h) \/ CallUnmap(h) \/ Kill(h)
                 \/ \E forAccess \in BOOLEAN : BeginMap(h, forAccess)
        BY <4>4 DEF DropBackend, BeginAccess, CallUnmap, Kill, BeginMap, Go, PCs
      <4> QED BY <1>5, <4>1, <4>2, <4>3, <4>4
    <3> QED BY <2>1, <2>3, <3>1, ControlUntouched
  <2> QED BY <2>2, <2>3
<1>6. CASE UNCHANGED vars
  BY <1>6 DEF vars, ControlInv
<1> QED BY <1>1, <1>2, <1>3, <1>4, <1>5, <1>6 DEF Next, Step, Call

\* However opens, closes and kills of any number of processes interleave: when
\* every handle is closed again, power/control is what it was before the first
\* RuntimePmGuard.
THEOREM ControlRestoredHolds == Spec => []ControlRestored
<1>1. Spec => []ControlInv
  BY InitControlInv, NextControlInv, Invariance, PTL DEF Spec
<1>2. IInv /\ ControlInv => ControlRestored
  BY LifecycleAssumption DEF IInv, TypeOK, GuardInv, ControlInv, ControlRestored
<1> QED BY <1>1, <1>2, Invariance, PTL

-----------------------------------------------------------------------------
(* The custom mapper is handed back *)

\* Where the custom mapper is, by where the handle's thread is, as long as no
\* open has failed, and what it alone may map.
CustomInv ==
    \A h \in Custom :
        custom[h] # "dropped" =>
            /\ pc[h] = "idle" => custom[h] = IF device[h] THEN "device" ELSE "iface"
            /\ pc[h] \in {"open", "pm_read", "pm_write", "map", "uio_lock", "opened"} =>
                   custom[h] = "builder"
            /\ pc[h] \in {"op", "drop_backend"} => custom[h] = "device"
            /\ pc[h] = "drop_pm" => custom[h] = "iface"
            /\ mapping[h] \in {"none", "custom"}

\* A step of one handle leaves the mappers of all others where they are.
LEMMA NextCustomInv == IInv /\ CustomInv /\ [Next]_vars => CustomInv'
<1> SUFFICES ASSUME IInv, CustomInv, [Next]_vars PROVE CustomInv'
  OBVIOUS
<1> USE LifecycleAssumption DEF IInv, TypeOK, DeviceInv, CustomInv, Go
<1>1. ASSUME NEW h \in Handles, Call(h) PROVE CustomInv'
  <2>1. CASE MapRefused(h) \/ BeginAccess(h) \/ CallUnmap(h)
    BY <2>1 DEF MapRefused, BeginAccess, CallUnmap, CountCall
  <2>2. CASE \E forAccess \in BOOLEAN : BeginMap(h, forAccess)
    BY <2>2 DEF BeginMap, CountCall
  <2> QED BY <1>1, <2>1, <2>2 DEF Call
<1>2. ASSUME NEW h \in Handles, Step(h) PROVE CustomInv'
  <2>1. CASE (\E k \in Kinds : Resolve(h, k)) \/ PmRead(h) \/ PmWrite(h) \/ TakeUioLock(h)
    BY <2>1 DEF Resolve, PmRead, PmWrite, TakeUioLock
  <2>2. CASE ResolveFails(h) \/ MapFails(h) \/ UioLockFails(h)
    BY <2>2 DEF ResolveFails, MapFails, UioLockFails, FailOpen, HasCustom
  <2>3. CASE MapWindow(h)
    BY <2>3 DEF MapWindow, HasCustom
  <2>4. CASE Install(h)
    BY <2>4 DEF Install, HasCustom
  <2>5. CASE EndAccess(h) \/ DropBackend(h) \/ DropPmGuard(h)
    BY <2>5 DEF EndAccess, DropBackend, DropPmGuard
  <2> QED BY <1>2, <2>1, <2>2, <2>3, <2>4, <2>5 DEF Step
<1>3. ASSUME NEW h \in Handles, Kill(h) PROVE CustomInv'
  BY <1>3 DEF Kill
<1>4. CASE UNCHANGED vars
  BY <1>4 DEF vars
<1> QED BY <1>1, <1>2, <1>3, <1>4 DEF Next

\* Unless an open failed, take_custom_mapper gives every unmap its mapper back,
\* and no window of the handle is ever mapped by anything else.
THEOREM CustomMapperReturnedHolds == Spec => []CustomMapperReturned
<1>1. Init => CustomInv
  BY LifecycleAssumption DEF Init, CustomInv
<1>2. Spec => []CustomInv
  BY <1>1, NextCustomInv, Invariance, PTL DEF Spec
<1>3. CustomInv => CustomMapperReturned
  BY DEF CustomInv, CustomMapperReturned
<1> QED BY <1>2, <1>3, PTL
=============================================================================
