------------------------------ MODULE Preflight ------------------------------
(***************************************************************************)
(* What DeviceBuilder::open decides before it maps anything: the window of *)
(* the request, the UIO region or platform device that owns it, the        *)
(* Blueprint check against /proc/iomem and the Hardware Pre-Flight of the  *)
(* owner (memcheck.rs).  Each directory entry or line that the code reads  *)
(* is one step; `sys' is what it reads, and does not change meanwhile.     *)
(*                                                                         *)
(* Addresses have Width bits.  A clock line is reduced to the columns the  *)
(* code looks at, a `reg' property to the (start, len) pairs that the cell *)
(* layouts tried decode it into.                                           *)
(***************************************************************************)
EXTENDS Naturals, Sequences, FiniteSets

CONSTANTS Width,               \* address bits
          Page,                \* bytes per page
          Devices, NoDevice,   \* sysfs device directories
          Systems              \* families of requests and sysfs contents to start from

ASSUME PreflightAssumption ==
    Width \in Nat /\ Page \in Nat \ {0} /\ NoDevice \notin Devices

\* The kernel prints no range that ends before it begins.
IomemLines == {e \in [indent : Nat, start : Nat, end : Nat, restricted : BOOLEAN] : e.start <= e.end}

\* A check of a profile, and what is in its register.
RegisterChecks ==
    [addr : Nat, mask : SUBSET Nat, expected : SUBSET Nat, actual : SUBSET Nat, readable : BOOLEAN]

\* What may be asked for and read.
IsSystem(s) ==
    /\ s.request \in {"auto", "devmem", "uio", "uio_at"}
    /\ s.base \in Nat /\ s.size \in Nat
    /\ s.force \in BOOLEAN /\ s.custom \in BOOLEAN /\ s.privileged \in BOOLEAN
    /\ s.uioOwner \in Devices \cup {NoDevice}
    /\ s.maps \in Seq([dev : Devices, addr : Nat, size : Nat])
    /\ s.regs \in Seq([dev : Devices, start : Nat, len : Nat])
    /\ s.iomem \in Seq(IomemLines)
    /\ s.health \in [Devices -> [status : STRING, power : STRING, suppliers : Seq(STRING),
                                 idleClocks : Nat, fpga : BOOLEAN]]
    /\ s.clocks \in Seq([row : BOOLEAN, names : SUBSET Devices, count : Nat, hw : {"Y", "N", "unknown"}])
    /\ s.managers \in Seq(STRING)
    /\ s.profile \in Seq(RegisterChecks)

ASSUME SystemsAssumption == \A family \in Systems : \A s \in family : IsSystem(s)

VARIABLES
    sys,       \* the request and the files it is decided on
    pc, i,     \* the check being made, and the entry or line it is at
    window,    \* base and size to map
    mapper,    \* "devmem" or "uio"
    owner,     \* sysfs device owning the window
    listed, pending,   \* parse_iomem: found; the indent of a covering entry, if any
    row,       \* check_clk_summary: number of the last clock row, 0 before any
    warnings,  \* warnings collected
    verdict    \* "none" until resolve returns

vars == <<sys, pc, i, window, mapper, owner, listed, pending, row, warnings, verdict>>

Top == 2^Width

\* checked_add gives a value.
Fits(a, b) == a + b < Top

Init ==
    /\ \E family \in Systems : sys \in family
    /\ pc = "profile" /\ i = 1
    /\ window = [base |-> sys.base, size |-> sys.size]
    /\ mapper = "none" /\ owner = NoDevice
    /\ listed = FALSE /\ pending = {}
    /\ row = 0 /\ warnings = 0
    /\ verdict = "none"

\* with_force(true) skips the checks, not the lookups.
Check == ~sys.force

\* Moves on to another check, at its first entry.
Proceed(phase) == pc' = phase /\ i' = 1 /\ UNCHANGED verdict

\* Moves on to the next entry or line.
Advance == i' = i + 1 /\ UNCHANGED <<pc, verdict>>

Finish(result) == pc' = "done" /\ verdict' = result /\ i' = i

-----------------------------------------------------------------------------
(* The safety profile, with or without force *)

\* SafetyProfile::execute_with, one check per step: the masked bits of a register,
\* which must be readable, are as expected.
Passes(check) ==
    check.readable /\ check.actual \cap check.mask = check.expected \cap check.mask

ProfileCheck ==
    /\ pc = "profile" /\ i <= Len(sys.profile)
    /\ IF Passes(sys.profile[i]) THEN Advance
       ELSE Finish("profile")
    /\ UNCHANGED <<sys, window, mapper, owner, listed, pending, row, warnings>>

EndProfile ==
    /\ pc = "profile" /\ i > Len(sys.profile)
    /\ Proceed("spec")
    /\ UNCHANGED <<sys, window, mapper, owner, listed, pending, row, warnings>>

-----------------------------------------------------------------------------
(* The window *)

\* An address window must not be empty, nor end beyond the last address.
WindowEmpty == sys.size = 0 \/ ~Fits(sys.base, sys.size)

AddrSpec ==
    /\ pc = "spec" /\ sys.request \in {"auto", "devmem"}
    /\ IF WindowEmpty
       THEN Finish("out_of_bounds")
       ELSE Proceed(IF sys.request = "auto" THEN "maps" ELSE "devices")
    /\ UNCHANGED <<sys, window, mapper, owner, listed, pending, row, warnings>>

\* with_mapper_type(Uio): the caller names the UIO device that maps an address.
\* Its owner is checked; whether the window is in its region, map_uio finds out.
UioAddrSpec ==
    /\ pc = "spec" /\ sys.request = "uio_at"
    /\ IF WindowEmpty
       THEN Finish("out_of_bounds") /\ UNCHANGED <<mapper, owner>>
       ELSE /\ mapper' = "uio"
            /\ owner' = sys.uioOwner
            /\ IF Check /\ owner' # NoDevice THEN Proceed("status") ELSE Finish("accept")
    /\ UNCHANGED <<sys, window, listed, pending, row, warnings>>

\* uio_region_window: the registers begin at an offset into a page-aligned region.
UioWindow(r) ==
    IF r.addr % Page = 0 /\ r.offset > 0 /\ r.offset < r.size
    THEN [base |-> (r.addr + r.offset) % Top, size |-> r.size - r.offset]
    ELSE [base |-> r.addr, size |-> r.size]

\* find_uio wants exactly one device of the name.
NamedOnce == sys.matches = 1

\* The region's sysfs attributes can be read, and it is not empty.
RegionReadable == sys.region.size > 0

\* resolve_uio_spec: the region of the device gives the window; resolve then
\* checks the device unless its sysfs directory is gone.
UioRegionSpec ==
    /\ pc = "spec" /\ sys.request = "uio"
    /\ NamedOnce /\ RegionReadable
    /\ window' = UioWindow(sys.region)
    /\ owner' = sys.uioOwner
    /\ mapper' = "uio"
    /\ IF Check /\ owner' # NoDevice THEN Proceed("status") ELSE Finish("accept")
    /\ UNCHANGED <<sys, listed, pending, row, warnings>>

\* A custom mapper with force stands in for a device that is not there.
UioMockSpec ==
    /\ pc = "spec" /\ sys.request = "uio"
    /\ ~(NamedOnce /\ RegionReadable)
    /\ sys.custom /\ sys.force
    /\ window' = [base |-> 0, size |-> Page]
    /\ mapper' = "uio"
    /\ Finish("accept")
    /\ UNCHANGED <<sys, owner, listed, pending, row, warnings>>

UioSpecFails ==
    /\ pc = "spec" /\ sys.request = "uio"
    /\ ~(NamedOnce /\ RegionReadable)
    /\ ~(sys.custom /\ sys.force)
    /\ Finish("uio_invalid")
    /\ UNCHANGED <<sys, window, mapper, owner, listed, pending, row, warnings>>

-----------------------------------------------------------------------------
(* The owner *)

\* Mutant of MapContains: only the first byte of the window is looked at.
MapContainsStart(m, w) == w.size > 0 /\ w.base >= m.addr /\ w.base - m.addr < m.size

\* UioMap::contains.
MapContains(m, w) ==
    /\ w.size > 0 /\ m.size > 0
    /\ w.base >= m.addr
    /\ Fits(w.base - m.addr, w.size)
    /\ w.base - m.addr + w.size <= m.size

\* find_uio_region, one map per step; only Auto looks for a UIO region.
ScanMap ==
    /\ pc = "maps" /\ i <= Len(sys.maps)
    /\ IF MapContains(sys.maps[i], window)
       THEN /\ mapper' = "uio"
            /\ owner' = sys.maps[i].dev
            /\ IF Check THEN Proceed("status") ELSE Finish("accept")
       ELSE Advance /\ UNCHANGED <<mapper, owner>>
    /\ UNCHANGED <<sys, window, listed, pending, row, warnings>>

EndMaps ==
    /\ pc = "maps" /\ i > Len(sys.maps)
    /\ Proceed("devices")
    /\ UNCHANGED <<sys, window, mapper, owner, listed, pending, row, warnings>>

\* reg_covers: the end of the entry saturates at the last address.
RegCovers(r, w) ==
    LET size == IF w.size = 0 THEN 1 ELSE w.size
        end  == IF Fits(r.start, r.len) THEN r.start + r.len ELSE Top - 1
    IN  Fits(w.base, size) /\ r.len > 0 /\ w.base >= r.start /\ w.base + size <= end

\* find_owning_device, one reg entry per step, the first that covers the window.
ScanDevice ==
    /\ pc = "devices" /\ i <= Len(sys.regs) /\ owner = NoDevice
    /\ owner' = IF RegCovers(sys.regs[i], window) THEN sys.regs[i].dev ELSE NoDevice
    /\ i' = i + 1
    /\ UNCHANGED <<sys, pc, window, mapper, listed, pending, row, warnings, verdict>>

EndDevices ==
    /\ pc = "devices" /\ (i > Len(sys.regs) \/ owner # NoDevice)
    /\ mapper' = "devmem"
    /\ IF Check THEN Proceed("iomem") ELSE Finish("accept")
    /\ UNCHANGED <<sys, window, owner, listed, pending, row, warnings>>

-----------------------------------------------------------------------------
(* Blueprint: /proc/iomem *)

LastByte(w) == w.base + w.size - 1

Overlaps(e, w) == w.base <= e.end /\ LastByte(w) >= e.start

Covers(e, w) == w.base >= e.start /\ LastByte(w) <= e.end

\* Without privilege every range reads 00000000-00000000 and is skipped.
IomemHidden ==
    /\ pc = "iomem" /\ i <= Len(sys.iomem) /\ ~sys.privileged
    /\ i' = i + 1
    /\ UNCHANGED <<sys, pc, window, mapper, owner, listed, pending, row, warnings, verdict>>

\* Mutant of IomemEntry: a sibling does not end the entry before it.
IomemEntryDeeper ==
    LET e == sys.iomem[i] IN
    /\ pc = "iomem" /\ i <= Len(sys.iomem) /\ sys.privileged
    /\ listed' = (listed \/ \E p \in pending : e.indent < p)
    /\ pending' = IF Covers(e, window) THEN {e.indent} ELSE {}
    /\ IF e.restricted /\ Overlaps(e, window)
       THEN Finish("ram") ELSE Advance
    /\ UNCHANGED <<sys, window, mapper, owner, row, warnings>>

\* One line of parse_iomem: an entry that covers the window counts once the
\* next line shows that it is a leaf; memory that is not MMIO refuses at once.
IomemEntry ==
    LET e == sys.iomem[i]
        refused == e.restricted /\ Overlaps(e, window)
    IN
    /\ pc = "iomem" /\ i <= Len(sys.iomem) /\ sys.privileged
    /\ listed' = (listed \/ \E p \in pending : e.indent <= p)
    /\ pending' = IF Covers(e, window) /\ ~refused THEN {e.indent} ELSE {}
    /\ IF refused
       THEN Finish("ram") ELSE Advance
    /\ UNCHANGED <<sys, window, mapper, owner, row, warnings>>

\* The last entry has no line after it.
EndIomem ==
    /\ pc = "iomem" /\ i > Len(sys.iomem)
    /\ listed' = (listed \/ pending # {})
    /\ Proceed("listed")
    /\ UNCHANGED <<sys, window, mapper, owner, pending, row, warnings>>

\* An owner goes on to the Pre-Flight; without one a leaf must be listed.
Blueprint ==
    /\ pc = "listed"
    /\ IF owner # NoDevice THEN Proceed("status")
       ELSE Finish(IF listed THEN "accept" ELSE "unmapped")
    /\ UNCHANGED <<sys, window, mapper, owner, listed, pending, row, warnings>>

-----------------------------------------------------------------------------
(* Hardware Pre-Flight of the owner *)

Health == sys.health[owner]

\* An absent or empty Device Tree status is fine.
CheckStatus ==
    /\ pc = "status"
    /\ IF Health.status \notin {"absent", "okay"} THEN Finish("dt_status")
       ELSE Proceed("power")
    /\ UNCHANGED <<sys, window, mapper, owner, listed, pending, row, warnings>>

\* bad_runtime_pm: an unreadable status is not bad.
BadRuntimePm(status) == status \in {"suspended", "suspending", "error"}

CheckPower ==
    /\ pc = "power"
    /\ IF BadRuntimePm(Health.power) THEN Finish("runtime_pm")
       ELSE Proceed("suppliers")
    /\ UNCHANGED <<sys, window, mapper, owner, listed, pending, row, warnings>>

\* Mutant of CheckSupplier: the first supplier decides for all.
CheckSupplierFirst ==
    /\ pc = "suppliers" /\ i <= Len(Health.suppliers)
    /\ IF BadRuntimePm(Health.suppliers[i]) THEN Finish("supplier_pm")
       ELSE i' = Len(Health.suppliers) + 1 /\ UNCHANGED <<pc, verdict>>
    /\ UNCHANGED <<sys, window, mapper, owner, listed, pending, row, warnings>>

CheckSupplier ==
    /\ pc = "suppliers" /\ i <= Len(Health.suppliers)
    /\ IF BadRuntimePm(Health.suppliers[i]) THEN Finish("supplier_pm")
       ELSE Advance
    /\ UNCHANGED <<sys, window, mapper, owner, listed, pending, row, warnings>>

\* check_device_clocks: without clk_summary only the enable counts of the
\* Device Tree's clocks are there, and they warn at most.
EndSuppliers ==
    /\ pc = "suppliers" /\ i > Len(Health.suppliers)
    /\ Proceed(IF sys.debugfs = "summary" THEN "clocks" ELSE "fabric")
    /\ warnings' = warnings + (IF sys.debugfs = "counts" THEN Health.idleClocks ELSE 0)
    /\ UNCHANGED <<sys, window, mapper, owner, listed, pending, row>>

\* Mutant of ClockLine: a line that is no clock row forgets the clock above it.
ClockLineForgets ==
    LET line == sys.clocks[i]
        at == IF line.row THEN i ELSE 0
        mine == owner \in line.names /\ at # 0
    IN
    /\ pc = "clocks" /\ i <= Len(sys.clocks)
    /\ row' = at
    /\ warnings' = IF mine /\ line.hw = "unknown" /\ line.count = 0
                   THEN warnings + 1 ELSE warnings
    /\ IF mine /\ line.hw = "N" THEN Finish("clock_gated")
       ELSE Advance
    /\ UNCHANGED <<sys, window, mapper, owner, listed, pending>>

\* One line of check_clk_summary: a clock row, or a consumer of the clock in the
\* row above.  A line that names the device has the clock's state evaluated.
ClockLine ==
    LET line == sys.clocks[i]
        at == IF line.row THEN i ELSE row
        mine == owner \in line.names /\ at # 0
        clock == sys.clocks[at]
    IN
    /\ pc = "clocks" /\ i <= Len(sys.clocks)
    /\ row' = at
    /\ warnings' = IF mine /\ clock.hw = "unknown" /\ clock.count = 0
                   THEN warnings + 1 ELSE warnings
    /\ IF mine /\ clock.hw = "N" THEN Finish("clock_gated")
       ELSE Advance
    /\ UNCHANGED <<sys, window, mapper, owner, listed, pending>>

EndClocks ==
    /\ pc = "clocks" /\ i > Len(sys.clocks)
    /\ Proceed("fabric")
    /\ UNCHANGED <<sys, window, mapper, owner, listed, pending, row, warnings>>

\* Only a device on the FPGA fabric needs its managers.
CheckFabric ==
    /\ pc = "fabric"
    /\ IF Health.fpga THEN Proceed("managers") ELSE Finish("accept")
    /\ UNCHANGED <<sys, window, mapper, owner, listed, pending, row, warnings>>

\* check_fpga_manager_operating, one manager per step.
CheckManager ==
    /\ pc = "managers"
    /\ IF i > Len(sys.managers) THEN Finish("accept")
       ELSE IF sys.managers[i] = "other" THEN Finish("fpga_state")
       ELSE Advance
    /\ UNCHANGED <<sys, window, mapper, owner, listed, pending, row, warnings>>

-----------------------------------------------------------------------------
\* DeviceBuilder::open once the safety profile has passed.
Resolving ==
    \/ AddrSpec \/ UioAddrSpec
    \/ UioRegionSpec \/ UioMockSpec \/ UioSpecFails
    \/ ScanMap \/ EndMaps \/ ScanDevice \/ EndDevices
    \/ IomemHidden \/ IomemEntry \/ EndIomem \/ Blueprint
    \/ CheckStatus \/ CheckPower \/ CheckSupplier \/ EndSuppliers
    \/ ClockLine \/ EndClocks \/ CheckFabric \/ CheckManager

Next == ProfileCheck \/ EndProfile \/ Resolving

Spec == Init /\ [][Next]_vars

-----------------------------------------------------------------------------
(* Properties.  The references count bytes, in integers of any size, and look *)
(* at each file as a whole.                                                    *)

TypeOK ==
    /\ pc \in {"profile", "spec", "maps", "devices", "iomem", "listed", "status", "power",
               "suppliers", "clocks", "fabric", "managers", "done"}
    /\ i \in Nat \ {0}
    /\ window \in [base : 0..(Top - 1), size : 0..Top]
    /\ mapper \in {"none", "devmem", "uio"}
    /\ owner \in Devices \cup {NoDevice}
    /\ listed \in BOOLEAN
    /\ pending \subseteq Nat /\ Cardinality(pending) <= 1
    /\ row \in 0..Len(sys.clocks)
    /\ warnings \in Nat
    /\ verdict # "none" <=> pc = "done"

Bytes(start, size) == {start + n : n \in 0..(size - 1)}

WindowBytes == Bytes(window.base, window.size)

UioCovering == {m \in 1..Len(sys.maps) :
    WindowBytes \subseteq Bytes(sys.maps[m].addr, sys.maps[m].size)}

RegCovering == {r \in 1..Len(sys.regs) :
    WindowBytes \subseteq Bytes(sys.regs[r].start, sys.regs[r].len)}

\* The device that the checks are made on owns every byte of the window: that
\* of a UIO region if Auto finds one, else that of a Device Tree node, and there
\* is no owner only if no device covers the window.
RightOwner ==
    sys.request \in {"auto", "devmem"} /\ mapper # "none" =>
        \/ /\ mapper = "uio" /\ sys.request = "auto"
           /\ owner \in {sys.maps[m].dev : m \in UioCovering}
        \/ /\ mapper = "devmem"
           /\ sys.request = "auto" => UioCovering = {}
           /\ IF RegCovering = {} THEN owner = NoDevice
              ELSE owner \in {sys.regs[r].dev : r \in RegCovering}

Visible == IF sys.privileged THEN 1..Len(sys.iomem) ELSE {}

EntryBytes(k) == sys.iomem[k].start..sys.iomem[k].end

\* k is the parent of j in the tree that the indentation draws.
ParentOf(j, k) ==
    /\ k < j /\ sys.iomem[k].indent < sys.iomem[j].indent
    /\ \A m \in (k + 1)..(j - 1) : sys.iomem[m].indent >= sys.iomem[j].indent

CoveredByLeaf == \E k \in Visible :
    /\ WindowBytes \subseteq EntryBytes(k)
    /\ ~\E j \in Visible : ParentOf(j, k)

TouchesMemory == \E k \in Visible :
    sys.iomem[k].restricted /\ EntryBytes(k) \cap WindowBytes # {}

\* The line-by-line scan of /proc/iomem finds what a scan of the whole tree
\* would: a leaf that covers the window, or a byte of memory in it.
IomemExact ==
    /\ pc = "listed" => ~TouchesMemory /\ (listed <=> CoveredByLeaf)
    /\ verdict = "ram" => TouchesMemory

\* The row that a line of clk_summary speaks of, 0 if none is above it.
RowOf(j) ==
    LET rows == {k \in 1..j : sys.clocks[k].row} IN
    IF rows = {} THEN 0 ELSE CHOOSE k \in rows : \A m \in rows : m <= k

Mentions(d) == {j \in 1..Len(sys.clocks) : d \in sys.clocks[j].names /\ RowOf(j) # 0}

GatedMentions(d) == {j \in Mentions(d) : sys.clocks[RowOf(j)].hw = "N"}

IdleMentions(d) == {j \in Mentions(d) :
    sys.clocks[RowOf(j)].hw = "unknown" /\ sys.clocks[RowOf(j)].count = 0}

\* The clock scan refuses exactly a device one of whose clocks is gated, and
\* otherwise warns once for every mention of a clock that nobody counts on and
\* whose hardware state is not known.
ClocksExact ==
    /\ verdict = "clock_gated" => GatedMentions(owner) # {}
    /\ pc = "fabric" /\ sys.debugfs = "summary" =>
        GatedMentions(owner) = {} /\ warnings = Cardinality(IdleMentions(owner))

Healthy(d) ==
    LET health == sys.health[d] IN
    /\ health.status \in {"absent", "okay"}
    /\ ~BadRuntimePm(health.power)
    /\ \A s \in 1..Len(health.suppliers) : ~BadRuntimePm(health.suppliers[s])
    /\ sys.debugfs = "summary" => GatedMentions(d) = {}
    /\ health.fpga => \A m \in 1..Len(sys.managers) : sys.managers[m] # "other"

\* A window is mapped without force exactly if it is a real window, all of its
\* bytes are a device's or a leaf's and none is memory (unless UIO maps it), and
\* its owner passes every check of the Pre-Flight; with force, if it is real.
\* A safety profile is never skipped: no masked bit of it may differ.
VerdictExact ==
    pc = "done" =>
        (verdict = "accept" <=>
            /\ \A k \in 1..Len(sys.profile) :
                LET check == sys.profile[k] IN
                check.readable /\ \A b \in check.mask : b \in check.actual <=> b \in check.expected
            /\ IF sys.request = "uio"
               THEN \/ sys.matches = 1 /\ sys.region.size > 0
                    \/ sys.custom /\ sys.force
               ELSE sys.size > 0 /\ sys.base + sys.size < Top
            /\ Check /\ owner # NoDevice => Healthy(owner)
            /\ Check /\ mapper = "devmem" =>
                ~TouchesMemory /\ (owner # NoDevice \/ CoveredByLeaf))
=============================================================================
