------------------------------ MODULE Lifecycle ------------------------------
(***************************************************************************)
(* Opening and closing: Interface::map, unmap and access (interface.rs),   *)
(* DeviceBuilder::open and the drop of a Device (device.rs), the mappers   *)
(* (memregs.rs) and RuntimePmGuard (memcheck.rs).                          *)
(*                                                                         *)
(* Every handle is an Interface of its own process, and all of them map    *)
(* registers of one peripheral: `control' is that peripheral's             *)
(* power/control file, shared by everybody and outliving every process.    *)
(***************************************************************************)
EXTENDS Naturals

CONSTANTS Handles,
          Custom,       \* handles built with with_custom_mapper
          Kinds,        \* what resolve may choose: a subset of {"DevMem", "Uio"}
          Debug,        \* built with the debug feature
          Root,         \* handles of processes that may write power/control
          Kills,        \* processes may be killed
          InitControl,  \* power/control before the first mapping: "auto" or "on"
          MaxCalls      \* bound: calls per handle

ASSUME LifecycleAssumption ==
    /\ Custom \subseteq Handles /\ Root \subseteq Handles
    /\ Kinds \subseteq {"DevMem", "Uio"}
    /\ Debug \in BOOLEAN /\ Kills \in BOOLEAN
    /\ InitControl \in {"auto", "on"}
    /\ MaxCalls \in Nat

VARIABLES
    pc,         \* where in map or unmap the handle's thread is
    calls,
    transient,  \* access found the window unmapped and will unmap it again
    kind,       \* mapper that resolve chose for this open
    device,     \* Interface.device.is_some()
    custom,     \* where the custom mapper is: "iface", "builder", "device", "dropped", "none"
    mapping,    \* what maps the window: "none", "DevMem", "Uio", "custom"
    uioLock,    \* the Device has its DeviceLock of /dev/uioN
    saved,      \* RuntimePmGuard.previous, or "none" without a guard
    control     \* contents of power/control

vars == <<pc, calls, transient, kind, device, custom, mapping, uioLock, saved, control>>

PCs == {"idle", "open", "pm_read", "pm_write", "map", "uio_lock", "opened", "op",
        "drop_backend", "drop_pm", "dead"}

Init ==
    /\ pc = [h \in Handles |-> "idle"]
    /\ calls = [h \in Handles |-> 0]
    /\ transient = [h \in Handles |-> FALSE]
    /\ kind = [h \in Handles |-> "none"]
    /\ device = [h \in Handles |-> FALSE]
    /\ custom = [h \in Handles |-> IF h \in Custom THEN "iface" ELSE "none"]
    /\ mapping = [h \in Handles |-> "none"]
    /\ uioLock = [h \in Handles |-> FALSE]
    /\ saved = [h \in Handles |-> "none"]
    /\ control = InitControl

HasCustom(h) == custom[h] = "builder"

Go(h, where) == pc' = [pc EXCEPT ![h] = where]

CountCall(h) ==
    /\ pc[h] = "idle"
    /\ calls[h] < MaxCalls
    /\ calls' = [calls EXCEPT ![h] = @ + 1]

-----------------------------------------------------------------------------
(* Interface::map and Interface::access *)

\* The layout or the safety profile is refused: nothing has been touched yet.
MapRefused(h) ==
    /\ CountCall(h) /\ ~device[h]
    /\ UNCHANGED <<pc, transient, kind, device, custom, mapping, uioLock, saved, control>>

\* map() of an unmapped window, from a caller (forAccess = FALSE) or from
\* access: the custom mapper moves into the builder.
BeginMap(h, forAccess) ==
    /\ CountCall(h) /\ ~device[h]
    /\ custom' = [custom EXCEPT ![h] = IF @ = "iface" THEN "builder" ELSE @]
    /\ transient' = [transient EXCEPT ![h] = forAccess]
    /\ Go(h, "open")
    /\ UNCHANGED <<kind, device, mapping, uioLock, saved, control>>

\* access to a window that is already mapped.
BeginAccess(h) ==
    /\ CountCall(h) /\ device[h]
    /\ Go(h, "op")
    /\ UNCHANGED <<transient, kind, device, custom, mapping, uioLock, saved, control>>

\* The register operation returns, with a value or an error; a transient
\* mapping is undone either way.
EndAccess(h) ==
    /\ pc[h] = "op"
    /\ Go(h, IF transient[h] THEN "drop_backend" ELSE "idle")
    /\ transient' = [transient EXCEPT ![h] = FALSE]
    /\ UNCHANGED <<calls, kind, device, custom, mapping, uioLock, saved, control>>

-----------------------------------------------------------------------------
(* DeviceBuilder::open *)

\* Mutant of FailOpen: the window stays mapped.
FailOpenMapped(h) ==
    /\ custom' = [custom EXCEPT ![h] = IF HasCustom(h) THEN "dropped" ELSE @]
    /\ transient' = [transient EXCEPT ![h] = FALSE]
    /\ UNCHANGED mapping
    /\ Go(h, "drop_pm")

\* open returns an error: the builder, with the custom mapper in it, and the
\* locals are dropped; the PM guard, if any, last.
FailOpen(h) ==
    /\ custom' = [custom EXCEPT ![h] = IF HasCustom(h) THEN "dropped" ELSE @]
    /\ transient' = [transient EXCEPT ![h] = FALSE]
    /\ mapping' = [mapping EXCEPT ![h] = "none"]
    /\ Go(h, "drop_pm")

\* resolve refuses the address (blueprint, pre-flight).
ResolveFails(h) ==
    /\ pc[h] = "open"
    /\ FailOpen(h)
    /\ UNCHANGED <<calls, kind, device, uioLock, saved, control>>

\* resolve picks the mapper; only a /dev/mem mapping of a debug build takes a
\* runtime-PM guard.
Resolve(h, k) ==
    /\ pc[h] = "open"
    /\ kind' = [kind EXCEPT ![h] = k]
    /\ Go(h, IF k = "DevMem" /\ ~HasCustom(h) /\ Debug THEN "pm_read" ELSE "map")
    /\ UNCHANGED <<calls, transient, device, custom, mapping, uioLock, saved, control>>

\* Mutant of PmRead: "on" is saved and restored like any other value.
PmReadSavesOn(h) ==
    /\ pc[h] = "pm_read"
    /\ Go(h, "pm_write") /\ saved' = [saved EXCEPT ![h] = control]
    /\ UNCHANGED <<calls, transient, kind, device, custom, mapping, uioLock, control>>

\* RuntimePmGuard::acquire reads power/control: no guard when it is already on.
PmRead(h) ==
    /\ pc[h] = "pm_read"
    /\ IF control = "on"
       THEN Go(h, "map") /\ UNCHANGED saved
       ELSE Go(h, "pm_write") /\ saved' = [saved EXCEPT ![h] = control]
    /\ UNCHANGED <<calls, transient, kind, device, custom, mapping, uioLock, control>>

\* ... and writes "on"; without permission a warning is recorded and no guard kept.
PmWrite(h) ==
    /\ pc[h] = "pm_write"
    /\ IF h \in Root
       THEN control' = "on" /\ UNCHANGED saved
       ELSE saved' = [saved EXCEPT ![h] = "none"] /\ UNCHANGED control
    /\ Go(h, "map")
    /\ UNCHANGED <<calls, transient, kind, device, custom, mapping, uioLock>>

\* The custom mapper maps, or OsMapper opens and mmaps /dev/mem or /dev/uioN.
MapWindow(h) ==
    /\ pc[h] = "map"
    /\ HasCustom(h) \/ kind[h] = "Uio" \/ Debug
    /\ mapping' = [mapping EXCEPT ![h] = IF HasCustom(h) THEN "custom" ELSE kind[h]]
    /\ Go(h, IF kind[h] = "Uio" /\ ~HasCustom(h) THEN "uio_lock" ELSE "opened")
    /\ UNCHANGED <<calls, transient, kind, device, custom, uioLock, saved, control>>

\* custom.map, open(2), mmap(2) or the region check fails; /dev/mem always
\* does without the debug feature.
MapFails(h) ==
    /\ pc[h] = "map"
    /\ FailOpen(h)
    /\ UNCHANGED <<calls, kind, device, uioLock, saved, control>>

TakeUioLock(h) ==
    /\ pc[h] = "uio_lock"
    /\ uioLock' = [uioLock EXCEPT ![h] = TRUE]
    /\ Go(h, "opened")
    /\ UNCHANGED <<calls, transient, kind, device, custom, mapping, saved, control>>

\* Mutant of UioLockFails: the error is swallowed.
UioLockIgnored(h) ==
    /\ pc[h] = "uio_lock"
    /\ Go(h, "opened")
    /\ UNCHANGED <<calls, transient, kind, device, custom, mapping, uioLock, saved, control>>

\* The lock of /dev/uioN cannot be registered: the window is unmapped again.
UioLockFails(h) ==
    /\ pc[h] = "uio_lock"
    /\ FailOpen(h)
    /\ UNCHANGED <<calls, kind, device, uioLock, saved, control>>

\* map() installs the Device, which owns the custom mapper from now on.
Install(h) ==
    /\ pc[h] = "opened"
    /\ device' = [device EXCEPT ![h] = TRUE]
    /\ custom' = [custom EXCEPT ![h] = IF HasCustom(h) THEN "device" ELSE @]
    /\ Go(h, IF transient[h] THEN "op" ELSE "idle")
    /\ UNCHANGED <<calls, transient, kind, mapping, uioLock, saved, control>>

-----------------------------------------------------------------------------
(* Interface::unmap and the drop of the Device, field by field *)

\* Mutant of CallUnmap: the PM guard is the first field to be dropped.
CallUnmapPmFirst(h) ==
    /\ pc[h] = "idle" /\ device[h]
    /\ Go(h, "drop_pm")
    /\ UNCHANGED <<calls, transient, kind, device, custom, mapping, uioLock, saved, control>>

CallUnmap(h) ==
    /\ pc[h] = "idle" /\ device[h]
    /\ Go(h, "drop_backend")
    /\ UNCHANGED <<calls, transient, kind, device, custom, mapping, uioLock, saved, control>>

\* Mutant of DropBackend: the custom mapper is not handed back.
DropBackendKeepsMapper(h) ==
    /\ pc[h] = "drop_backend"
    /\ device' = [device EXCEPT ![h] = FALSE]
    /\ mapping' = [mapping EXCEPT ![h] = "none"]
    /\ uioLock' = [uioLock EXCEPT ![h] = FALSE]
    /\ Go(h, "drop_pm")
    /\ UNCHANGED <<calls, transient, kind, custom, saved, control>>

\* take_custom_mapper unmaps and hands the mapper back; any other backend
\* unmaps when dropped.  Then the lock handle goes.
DropBackend(h) ==
    /\ pc[h] = "drop_backend"
    /\ device' = [device EXCEPT ![h] = FALSE]
    /\ mapping' = [mapping EXCEPT ![h] = "none"]
    /\ uioLock' = [uioLock EXCEPT ![h] = FALSE]
    /\ custom' = [custom EXCEPT ![h] = IF @ = "device" THEN "iface" ELSE @]
    /\ Go(h, "drop_pm")
    /\ UNCHANGED <<calls, transient, kind, saved, control>>

\* Mutant of DropPmGuard: restores without having saved.
DropPmGuardAlways(h) ==
    /\ pc[h] = "drop_pm"
    /\ control' = saved[h]
    /\ saved' = [saved EXCEPT ![h] = "none"]
    /\ kind' = [kind EXCEPT ![h] = "none"]
    /\ Go(h, "idle")
    /\ UNCHANGED <<calls, transient, device, custom, mapping, uioLock>>

\* RuntimePmGuard::drop writes the previous value back.
DropPmGuard(h) ==
    /\ pc[h] = "drop_pm"
    /\ control' = IF saved[h] # "none" THEN saved[h] ELSE control
    /\ saved' = [saved EXCEPT ![h] = "none"]
    /\ Go(h, "idle")
    /\ kind' = [kind EXCEPT ![h] = "none"]
    /\ UNCHANGED <<calls, transient, device, custom, mapping, uioLock>>

\* The process is killed: the kernel unmaps and closes, no destructor runs.
Kill(h) ==
    /\ Kills /\ pc[h] # "dead"
    /\ Go(h, "dead")
    /\ device' = [device EXCEPT ![h] = FALSE]
    /\ mapping' = [mapping EXCEPT ![h] = "none"]
    /\ uioLock' = [uioLock EXCEPT ![h] = FALSE]
    /\ UNCHANGED <<calls, transient, kind, custom, saved, control>>

-----------------------------------------------------------------------------
Step(h) ==
    \/ \E k \in Kinds : Resolve(h, k)
    \/ ResolveFails(h) \/ PmRead(h) \/ PmWrite(h) \/ MapWindow(h) \/ MapFails(h)
    \/ TakeUioLock(h) \/ UioLockFails(h) \/ Install(h) \/ EndAccess(h)
    \/ DropBackend(h) \/ DropPmGuard(h)

Call(h) ==
    \/ MapRefused(h) \/ BeginAccess(h) \/ CallUnmap(h)
    \/ \E forAccess \in BOOLEAN : BeginMap(h, forAccess)

Next == \E h \in Handles : Step(h) \/ Call(h) \/ Kill(h)

Spec == Init /\ [][Next]_vars

-----------------------------------------------------------------------------
(* Properties *)

TypeOK ==
    /\ pc \in [Handles -> PCs]
    /\ calls \in [Handles -> 0..MaxCalls]
    /\ transient \in [Handles -> BOOLEAN]
    /\ kind \in [Handles -> {"none", "DevMem", "Uio"}]
    /\ device \in [Handles -> BOOLEAN]
    /\ custom \in [Handles -> {"none", "iface", "builder", "device", "dropped"}]
    /\ mapping \in [Handles -> {"none", "DevMem", "Uio", "custom"}]
    /\ uioLock \in [Handles -> BOOLEAN]
    /\ saved \in [Handles -> {"none", "auto"}]
    /\ control \in {"auto", "on"}

\* Whatever fails in open, and however the Device goes, an Interface without a
\* Device holds no mapping, no lock handle and no runtime-PM guard.
ErrorPathsRelease ==
    \A h \in Handles :
        pc[h] = "idle" /\ ~device[h] =>
            mapping[h] = "none" /\ ~uioLock[h] /\ saved[h] = "none"

\* A UIO window in use always has the device's lock: no Device of a UIO
\* mapping falls back to page locks, which other UIO users do not take.
UioWindowHasLock ==
    \A h \in Handles : device[h] /\ mapping[h] = "Uio" => uioLock[h]

\* power/control is given back only after the window it protects is unmapped.
RestoreAfterUnmap ==
    [][\A h \in Handles :
          saved[h] # "none" /\ saved'[h] = "none" => mapping[h] = "none"]_vars

\* Once every handle is closed, power/control is what it was before the first
\* one was opened, however the opens and closes interleaved.
ControlRestored ==
    (\A h \in Handles : pc[h] = "idle" /\ ~device[h]) => control = InitControl

\* "Holds <device>/power/control at "on" while a /dev/mem mapping is active, so
\* the kernel cannot autosuspend the device mid-access" (memcheck.rs).
PowerHeldWhileMapped ==
    \A h \in Root : mapping[h] = "DevMem" => control = "on"

\* "A custom mapper is kept across unmap() and failed map() calls"
\* (docs/developers/02-memory-mappers.md).
CustomMapperKept ==
    \A h \in Custom : pc[h] = "idle" => custom[h] \in {"iface", "device"}

\* A handle configured with a custom mapper whose opens never failed uses only
\* that mapper: unmap returns it to the Interface for the next map.
CustomMapperReturned ==
    \A h \in Custom :
        custom[h] # "dropped" =>
            /\ mapping[h] \in {"none", "custom"}
            /\ pc[h] = "idle" => custom[h] = IF device[h] THEN "device" ELSE "iface"
=============================================================================
