--------------------------- MODULE PreflightProofs ---------------------------
(***************************************************************************)
(* Proofs about Preflight as the front ends run it, for every request,     *)
(* every content of sysfs, procfs and debugfs, every address width and     *)
(* page size: the line-by-line scans decide what the references, which     *)
(* look at whole files, decide; every access is one that is warranted; and *)
(* a command line of any length does what it means, or nothing.            *)
(***************************************************************************)
EXTENDS FrontEnds, ParsersProofs, FiniteSetTheorems, SequenceTheorems

PhaseNames == {"profile", "spec", "maps", "devices", "iomem", "listed", "status", "power",
               "suppliers", "clocks", "fabric", "managers", "done"}

\* The checks of the owner, and those of them from each one on.
OwnerPhases == {"status", "power", "suppliers", "clocks", "fabric", "managers"}
PastStatus == OwnerPhases \ {"status"}
PastPower == PastStatus \ {"power"}
PastSuppliers == PastPower \ {"suppliers"}
PastClocks == PastSuppliers \ {"clocks"}

TypeInv ==
    /\ IsSystem(sys)
    /\ pc \in PhaseNames
    /\ i \in Nat \ {0}
    /\ mapper \in {"none", "devmem", "uio"}
    /\ owner \in Devices \cup {NoDevice}
    /\ warnings \in Nat
    /\ verdict = "none" <=> pc # "done"

\* What is not looked for yet has not been found.
FreshInv ==
    /\ pc \in {"profile", "spec", "maps"} => owner = NoDevice
    /\ pc \in {"profile", "spec", "maps", "devices"} => mapper = "none" /\ ~listed /\ pending = {}
    /\ pc \in {"profile", "spec", "maps", "devices", "iomem", "listed", "status", "power",
               "suppliers"} => warnings = 0 /\ row = 0

ByAddress == sys.request \in {"auto", "devmem"}

\* The window is a real one, or the region that the name stands for.
RequestValid ==
    IF sys.request = "uio"
    THEN \/ sys.matches = 1 /\ sys.region.size > 0
         \/ sys.custom /\ sys.force
    ELSE sys.size > 0 /\ sys.base + sys.size < Top

\* Which requests get to which check, and with which window.
WindowInv ==
    /\ sys.request # "uio" => window = [base |-> sys.base, size |-> sys.size]
    /\ pc \notin {"profile", "spec", "done"} => RequestValid
    /\ pc \in {"maps", "devices", "iomem", "listed"} => ByAddress
    /\ pc = "maps" => sys.request = "auto"
    /\ pc \in {"iomem", "listed"} \cup OwnerPhases => Check
    /\ pc \in {"iomem", "listed"} => mapper = "devmem"
    /\ pc \in OwnerPhases => owner # NoDevice /\ mapper # "none"

BaseInv == TypeInv /\ FreshInv /\ WindowInv

\* The entries tried so far do not cover the window.
OwnerInv ==
    /\ RightOwner
    /\ pc = "maps" => \A m \in UioCovering : m >= i
    /\ pc = "devices" =>
        /\ sys.request = "auto" => UioCovering = {}
        /\ IF owner = NoDevice THEN \A r \in RegCovering : r >= i
           ELSE owner \in {sys.regs[r].dev : r \in RegCovering}

CoversWindow(k) == WindowBytes \subseteq EntryBytes(k)
InMemory(k) == sys.iomem[k].restricted /\ EntryBytes(k) \cap WindowBytes # {}

\* What the scan knows when it comes to line i.
IomemInv ==
    /\ IomemExact
    /\ pc = "iomem" =>
        /\ i <= Len(sys.iomem) + 1
        /\ \A k \in Visible : k < i => ~InMemory(k)
        /\ listed <=> \E k \in Visible :
            k + 1 < i /\ CoversWindow(k) /\ sys.iomem[k + 1].indent <= sys.iomem[k].indent
        /\ pending = {sys.iomem[k].indent : k \in {j \in Visible : j + 1 = i /\ CoversWindow(j)}}
    /\ pc \in OwnerPhases /\ mapper = "devmem" => ~TouchesMemory

\* What the scan knows when it comes to line i.
ClocksInv ==
    /\ ClocksExact
    /\ pc = "clocks" =>
        /\ row = RowOf(i - 1)
        /\ \A j \in GatedMentions(owner) : j >= i
        /\ warnings = Cardinality({j \in IdleMentions(owner) : j < i})

ProfilePasses(k) ==
    LET check == sys.profile[k] IN
    check.readable /\ \A b \in check.mask : b \in check.actual <=> b \in check.expected

\* The four things that VerdictExact demands; RequestValid is one of them.
ChecksHold == \A k \in 1..Len(sys.profile) : ProfilePasses(k)
OwnerFit == Check /\ owner # NoDevice => Healthy(owner)
NoMemory == Check /\ mapper = "devmem" =>
    ~TouchesMemory /\ (owner # NoDevice \/ CoveredByLeaf)

\* What has been checked so far.
VerdictInv ==
    /\ VerdictExact
    /\ pc = "profile" => \A k \in 1..Len(sys.profile) : k < i => ProfilePasses(k)
    /\ pc \notin {"profile", "done"} => ChecksHold
    /\ pc \in PastStatus => Health.status \in {"absent", "okay"}
    /\ pc \in PastPower => ~BadRuntimePm(Health.power)
    /\ pc = "suppliers" => \A s \in 1..Len(Health.suppliers) : s < i => ~BadRuntimePm(Health.suppliers[s])
    /\ pc \in PastSuppliers => \A s \in 1..Len(Health.suppliers) : ~BadRuntimePm(Health.suppliers[s])
    /\ pc = "clocks" => sys.debugfs = "summary"
    /\ pc \in PastClocks /\ sys.debugfs = "summary" => GatedMentions(owner) = {}
    /\ pc = "managers" => Health.fpga /\ \A m \in 1..Len(sys.managers) : m < i => sys.managers[m] # "other"

-----------------------------------------------------------------------------
(* The front ends *)

\* Whichever mapper was chosen, a region's window is that of uio_region_window.
UioInv ==
    /\ sys.request = "uio" /\ mapper # "none" =>
        /\ mapper = "uio"
        /\ window = IF NamedOnce /\ RegionReadable THEN UioWindow(sys.region)
                    ELSE [base |-> 0, size |-> Page]
    /\ verdict = "accept" => mapper # "none"
    /\ verdict # "ok"

\* Before DeviceBuilder::open.
Preparing == {"oneshot", "interface", "capi", "cli"}

LineTokens == {Line[k] : k \in 1..Len(Line)}

CliTypes ==
    [at : Nat \ {0}, force : BOOLEAN, radix : {10, 16}, bytes : Reg!Widths,
     paths : Seq({token.text : token \in LineTokens}), words : Seq(LineTokens)]

Accesses == [addr : Nat, bytes : Reg!Widths, write : BOOLEAN, value : Nat]

FrontType ==
    /\ IsCaller(sys)
    /\ \A token \in LineTokens, radix \in {10, 16} : ParseNumber(token, radix, Top) \subseteq Nat
    /\ step \in Preparing \cup {"load", "check", "resolve", "access", "exited"}
    /\ cli \in CliTypes
    /\ IsAccess(op)
    /\ log \in Seq(Accesses)
    /\ step # "exited" => exit = "none"

\* Where Preflight is, by what the front end does.
StepInv ==
    /\ step \in Preparing => pc = "profile" /\ i = 1 /\ log = <<>>
    /\ step = "cli" => sys.profile = <<>>
    /\ step = "load" => pc = "profile" /\ ChecksHold
    /\ step = "check" => pc \in {"profile", "done"} /\ verdict # "accept"
    /\ step = "access" => pc = "done" /\ verdict = "accept" /\ MapError = "ok"

\* Every access so far but the one that was asked for is a check of a profile.
LogInv ==
    /\ \A k \in 1..Len(log) :
        /\ log[k].addr % log[k].bytes = 0
        /\ ~sys.debug => InUioRegion(log[k])
        /\ log[k].write => k = Len(log) /\ exit = "ok" /\ ~sys.custom /\ ~sys.readOnly
    /\ exit = "ok" /\ ~sys.custom =>
        /\ log # <<>>
        /\ Bytes(log[Len(log)].addr, log[Len(log)].bytes) \subseteq WindowBytes
        /\ mapper = "uio" => InUioRegion(log[Len(log)])

FrontInv == FrontType /\ StepInv /\ LogInv

-----------------------------------------------------------------------------
(* Requests, windows and the order of the checks *)

LEMMA EntryTypes ==
    ASSUME IsSystem(sys)
    PROVE  /\ Len(sys.maps) \in Nat /\ Len(sys.regs) \in Nat /\ Len(sys.iomem) \in Nat
           /\ \A k \in 1..Len(sys.maps) :
                sys.maps[k].dev \in Devices /\ sys.maps[k].addr \in Nat /\ sys.maps[k].size \in Nat
           /\ \A k \in 1..Len(sys.regs) :
                sys.regs[k].dev \in Devices /\ sys.regs[k].start \in Nat /\ sys.regs[k].len \in Nat
           /\ \A k \in 1..Len(sys.iomem) : sys.iomem[k] \in IomemLines
<1>1. ASSUME NEW S, NEW q \in Seq(S) PROVE Len(q) \in Nat /\ \A k \in 1..Len(q) : q[k] \in S
  BY <1>1
<1>2. \A k \in 1..Len(sys.maps) : sys.maps[k] \in [dev : Devices, addr : Nat, size : Nat]
  BY <1>1 DEF IsSystem
<1>3. \A k \in 1..Len(sys.regs) : sys.regs[k] \in [dev : Devices, start : Nat, len : Nat]
  BY <1>1 DEF IsSystem
<1>4. \A k \in 1..Len(sys.iomem) : sys.iomem[k] \in IomemLines
  BY <1>1 DEF IsSystem
<1>5. Len(sys.maps) \in Nat /\ Len(sys.regs) \in Nat /\ Len(sys.iomem) \in Nat
  BY <1>1 DEF IsSystem
<1> QED BY <1>2, <1>3, <1>4, <1>5

LEMMA InitBase == Init => BaseInv
<1> SUFFICES ASSUME Init PROVE BaseInv
  OBVIOUS
<1>1. IsSystem(sys)
  BY SystemsAssumption DEF Init
<1> QED BY <1>1 DEF Init, BaseInv, TypeInv, PhaseNames, FreshInv, WindowInv, OwnerPhases

LEMMA ProfileKeepsBase ==
    ASSUME BaseInv, ProfileCheck \/ EndProfile
    PROVE  BaseInv'
<1> USE DEF BaseInv
<1>1. CASE ProfileCheck
  BY <1>1 DEF ProfileCheck, Advance, Finish, TypeInv, PhaseNames, FreshInv, WindowInv, RequestValid,
              ByAddress, Check, OwnerPhases
<1>2. CASE EndProfile
  BY <1>2 DEF EndProfile, Proceed, TypeInv, PhaseNames, FreshInv, WindowInv, RequestValid,
              ByAddress, Check, OwnerPhases
<1> QED BY <1>1, <1>2

LEMMA SpecKeepsBase ==
    ASSUME BaseInv,
           AddrSpec \/ UioAddrSpec \/ UioRegionSpec \/ UioMockSpec \/ UioSpecFails
    PROVE  BaseInv'
<1> USE DEF BaseInv, TypeInv, PhaseNames, FreshInv, WindowInv, RequestValid, ByAddress, Check,
            OwnerPhases, Proceed, Finish
<1>1. CASE AddrSpec
  <2>1. WindowEmpty \/ (sys.size > 0 /\ sys.base + sys.size < Top)
    BY DEF WindowEmpty, Fits, IsSystem
  <2> QED BY <1>1, <2>1 DEF AddrSpec
<1>2. CASE UioAddrSpec
  <2>1. WindowEmpty \/ (sys.size > 0 /\ sys.base + sys.size < Top)
    BY DEF WindowEmpty, Fits, IsSystem
  <2>2. sys.uioOwner \in Devices \cup {NoDevice}
    BY DEF IsSystem
  <2> QED BY <1>2, <2>1, <2>2 DEF UioAddrSpec
<1>3. CASE UioRegionSpec
  <2>1. sys.uioOwner \in Devices \cup {NoDevice}
    BY DEF IsSystem
  <2> QED BY <1>3, <2>1 DEF UioRegionSpec, NamedOnce, RegionReadable
<1>4. CASE UioMockSpec \/ UioSpecFails
  BY <1>4 DEF UioMockSpec, UioSpecFails
<1> QED BY <1>1, <1>2, <1>3, <1>4

LEMMA SearchKeepsBase ==
    ASSUME BaseInv, ScanMap \/ EndMaps \/ ScanDevice \/ EndDevices
    PROVE  BaseInv'
<1> USE DEF BaseInv, TypeInv, PhaseNames, FreshInv, WindowInv, RequestValid, ByAddress, Check,
            OwnerPhases, Proceed, Finish, Advance
<1>1. CASE ScanMap
  <2>1. sys.maps[i].dev \in Devices /\ sys.maps[i].dev # NoDevice
    BY <1>1, EntryTypes, PreflightAssumption DEF ScanMap
  <2> QED BY <1>1, <2>1 DEF ScanMap
<1>2. CASE ScanDevice
  <2>1. sys.regs[i].dev \in Devices
    BY <1>2, EntryTypes DEF ScanDevice
  <2> QED BY <1>2, <2>1 DEF ScanDevice
<1>3. CASE EndMaps \/ EndDevices
  BY <1>3 DEF EndMaps, EndDevices
<1> QED BY <1>1, <1>2, <1>3

LEMMA BlueprintKeepsBase ==
    ASSUME BaseInv, IomemHidden \/ IomemEntry \/ EndIomem \/ Blueprint
    PROVE  BaseInv'
<1> USE DEF BaseInv, TypeInv, PhaseNames, FreshInv, WindowInv, RequestValid, ByAddress, Check,
            OwnerPhases, Proceed, Finish, Advance
<1>1. CASE IomemHidden \/ EndIomem
  BY <1>1 DEF IomemHidden, EndIomem
<1>2. CASE IomemEntry \/ Blueprint
  BY <1>2 DEF IomemEntry, Blueprint
<1> QED BY <1>1, <1>2

LEMMA OwnerChecksKeepBase ==
    ASSUME BaseInv,
           \/ CheckStatus \/ CheckPower \/ CheckSupplier \/ EndSuppliers
           \/ ClockLine \/ EndClocks \/ CheckFabric \/ CheckManager
    PROVE  BaseInv'
<1> USE DEF BaseInv, TypeInv, PhaseNames, FreshInv, WindowInv, RequestValid, ByAddress, Check,
            OwnerPhases, Proceed, Finish, Advance
<1>1. CASE CheckStatus \/ CheckPower
  BY <1>1 DEF CheckStatus, CheckPower
<1>2. CASE CheckSupplier
  BY <1>2 DEF CheckSupplier
<1>3. CASE EndSuppliers
  <2>1. sys.health[owner].idleClocks \in Nat
    BY <1>3 DEF EndSuppliers, IsSystem
  <2> QED BY <1>3, <2>1 DEF EndSuppliers, Health
<1>4. CASE ClockLine
  BY <1>4 DEF ClockLine
<1>5. CASE EndClocks \/ CheckFabric \/ CheckManager
  BY <1>5 DEF EndClocks, CheckFabric, CheckManager
<1> QED BY <1>1, <1>2, <1>3, <1>4, <1>5

LEMMA NextBase == BaseInv /\ [Next]_vars => BaseInv'
<1> SUFFICES ASSUME BaseInv, [Next]_vars PROVE BaseInv'
  OBVIOUS
<1>1. CASE UNCHANGED vars
  BY <1>1 DEF vars, BaseInv, TypeInv, FreshInv, WindowInv, RequestValid, ByAddress, Check
<1>2. CASE Next
  BY <1>2, ProfileKeepsBase, SpecKeepsBase, SearchKeepsBase, BlueprintKeepsBase,
     OwnerChecksKeepBase DEF Next, Resolving
<1> QED BY <1>1, <1>2

-----------------------------------------------------------------------------
(* The owner of the window *)

LEMMA TopType == Top \in Int
<1> QED BY PreflightAssumption DEF Top

LEMMA BytesInterval ==
    ASSUME NEW start \in Nat, NEW size \in Nat
    PROVE  Bytes(start, size) = start..(start + size - 1)
<1>1. ASSUME NEW x \in start..(start + size - 1) PROVE x \in Bytes(start, size)
  <2>1. x - start \in 0..(size - 1) /\ x = start + (x - start)
    OBVIOUS
  <2> QED BY <2>1 DEF Bytes
<1> QED BY <1>1 DEF Bytes

\* Interval inclusion: that of the two ends.
LEMMA IntervalInside ==
    ASSUME NEW a \in Int, NEW b \in Int, NEW c \in Int, NEW e \in Int, a <= b
    PROVE  a..b \subseteq c..e <=> c <= a /\ b <= e
<1>1. a \in a..b /\ b \in a..b
  OBVIOUS
<1> QED BY <1>1

\* The comparison of the two ends, as map and reg entries make it.
LEMMA EndsInside ==
    ASSUME NEW a \in Nat, NEW s \in Nat, NEW b \in Nat, NEW l \in Nat, l > 0
    PROVE  /\ (s > 0 /\ b >= a /\ b - a + l <= s) <=> (a <= b /\ b + l - 1 <= a + s - 1)
           /\ (s > 0 /\ b >= a /\ b + l <= a + s) <=> (a <= b /\ b + l - 1 <= a + s - 1)
  OBVIOUS

\* The window of a request by address, once it is known to be one.
LEMMA RealWindow ==
    ASSUME BaseInv, ByAddress, pc \notin {"profile", "spec", "done"}
    PROVE  /\ window = [base |-> sys.base, size |-> sys.size]
           /\ window.base \in Nat /\ window.size \in Nat
           /\ window.size > 0 /\ window.base + window.size < Top
           /\ WindowBytes = window.base..(window.base + window.size - 1)
<1>1. window = [base |-> sys.base, size |-> sys.size] /\ sys.base \in Nat /\ sys.size \in Nat
  BY DEF BaseInv, TypeInv, IsSystem, WindowInv, ByAddress
<1>2. sys.size > 0 /\ sys.base + sys.size < Top
  BY DEF BaseInv, WindowInv, RequestValid, ByAddress
<1>3. window.base = sys.base /\ window.size = sys.size
  BY <1>1
<1>4. WindowBytes = window.base..(window.base + window.size - 1)
  BY <1>1, <1>3, BytesInterval DEF WindowBytes
<1> QED BY <1>1, <1>2, <1>3, <1>4

\* UioMap::contains computes what it means: every byte is the region's.
LEMMA ContainsIsInclusion ==
    ASSUME BaseInv, ByAddress, pc \notin {"profile", "spec", "done"}, NEW m \in 1..Len(sys.maps)
    PROVE  MapContains(sys.maps[m], window) <=> m \in UioCovering
<1> DEFINE r == sys.maps[m]
           w == window
<1>1. r.addr \in Nat /\ r.size \in Nat
  BY EntryTypes DEF BaseInv, TypeInv
<1>2. /\ w.base \in Nat /\ w.size \in Nat /\ w.size > 0 /\ w.base + w.size < Top
      /\ WindowBytes = w.base..(w.base + w.size - 1)
  BY RealWindow
<1>3. Bytes(r.addr, r.size) = r.addr..(r.addr + r.size - 1)
  BY <1>1, BytesInterval
<1> HIDE DEF r, w
<1>4. WindowBytes \subseteq Bytes(r.addr, r.size) <=>
        r.addr <= w.base /\ w.base + w.size - 1 <= r.addr + r.size - 1
  <2>1. /\ w.base \in Int /\ w.base + w.size - 1 \in Int /\ w.base <= w.base + w.size - 1
        /\ r.addr \in Int /\ r.addr + r.size - 1 \in Int
    BY <1>1, <1>2, SMTT(30)
  <2> QED BY <1>2, <1>3, <2>1, IntervalInside
<1>5. MapContains(r, w) <=> r.addr <= w.base /\ w.base + w.size - 1 <= r.addr + r.size - 1
  <2>1. MapContains(r, w) <=>
            /\ r.size > 0 /\ w.base >= r.addr
            /\ w.base - r.addr + w.size < Top /\ w.base - r.addr + w.size <= r.size
    BY <1>2 DEF MapContains, Fits
  <2>2. w.base >= r.addr => w.base - r.addr + w.size < Top
    BY <1>1, <1>2, TopType
  <2>3. MapContains(r, w) <=> r.size > 0 /\ w.base >= r.addr /\ w.base - r.addr + w.size <= r.size
    BY <2>1, <2>2
  <2> QED BY <1>1, <1>2, <2>3, EndsInside
<1> QED BY <1>4, <1>5 DEF UioCovering, r, w

\* And so does reg_covers, although the end of its entry saturates.
LEMMA RegCoversIsInclusion ==
    ASSUME BaseInv, ByAddress, pc \notin {"profile", "spec", "done"}, NEW n \in 1..Len(sys.regs)
    PROVE  RegCovers(sys.regs[n], window) <=> n \in RegCovering
<1> DEFINE r == sys.regs[n]
           w == window
<1>1. r.start \in Nat /\ r.len \in Nat
  BY EntryTypes DEF BaseInv, TypeInv
<1>2. /\ w.base \in Nat /\ w.size \in Nat /\ w.size > 0 /\ w.base + w.size < Top
      /\ WindowBytes = w.base..(w.base + w.size - 1)
  BY RealWindow
<1>3. Bytes(r.start, r.len) = r.start..(r.start + r.len - 1)
  BY <1>1, BytesInterval
<1> HIDE DEF r, w
<1>4. WindowBytes \subseteq Bytes(r.start, r.len) <=>
        r.start <= w.base /\ w.base + w.size - 1 <= r.start + r.len - 1
  <2>1. /\ w.base \in Int /\ w.base + w.size - 1 \in Int /\ w.base <= w.base + w.size - 1
        /\ r.start \in Int /\ r.start + r.len - 1 \in Int
    BY <1>1, <1>2, SMTT(30)
  <2> QED BY <1>2, <1>3, <2>1, IntervalInside
<1>5. RegCovers(r, w) <=> r.start <= w.base /\ w.base + w.size - 1 <= r.start + r.len - 1
  <2> DEFINE end == IF Fits(r.start, r.len) THEN r.start + r.len ELSE Top - 1
  <2>1. RegCovers(r, w) <=>
            Fits(w.base, w.size) /\ r.len > 0 /\ w.base >= r.start /\ w.base + w.size <= end
    BY <1>2 DEF RegCovers
  <2>2. Fits(w.base, w.size)
    BY <1>2 DEF Fits
  <2>3. CASE r.start + r.len < Top
    <3>1. end = r.start + r.len
      BY <2>3 DEF Fits
    <3>2. RegCovers(r, w) <=>
              r.len > 0 /\ w.base >= r.start /\ w.base + w.size <= r.start + r.len
      BY <2>1, <2>2, <3>1
    <3> QED BY <1>1, <1>2, <3>2, EndsInside
  <2>4. CASE ~(r.start + r.len < Top)
    <3>1. end = Top - 1
      BY <2>4 DEF Fits
    <3>2. w.base + w.size <= Top - 1 /\ w.base + w.size <= r.start + r.len
      BY <1>1, <1>2, <2>4, TopType
    <3>3. r.start <= w.base => r.len > 0
      BY <1>1, <1>2, <3>2
    <3>4. RegCovers(r, w) <=> r.start <= w.base
      BY <1>1, <1>2, <2>1, <2>2, <3>1, <3>2, <3>3
    <3> QED BY <1>1, <1>2, <3>2, <3>4
  <2> QED BY <2>3, <2>4
<1> QED BY <1>4, <1>5 DEF RegCovering, r, w

\* What the references are of.
LEMMA SameFiles ==
    ASSUME UNCHANGED <<sys, window>>
    PROVE  /\ UNCHANGED <<WindowBytes, UioCovering, RegCovering, Visible, TouchesMemory, CoveredByLeaf>>
           /\ \A k : EntryBytes(k)' = EntryBytes(k)
           /\ \A k : CoversWindow(k)' = CoversWindow(k) /\ InMemory(k)' = InMemory(k)
<1>1. UNCHANGED <<WindowBytes, Visible>> /\ \A k : EntryBytes(k)' = EntryBytes(k)
  BY DEF WindowBytes, Bytes, Visible, EntryBytes
<1>2. UNCHANGED <<UioCovering, RegCovering>>
  BY <1>1 DEF UioCovering, RegCovering, Bytes
<1>3. UNCHANGED <<TouchesMemory, CoveredByLeaf>>
  BY <1>1 DEF TouchesMemory, CoveredByLeaf, ParentOf
<1> QED BY <1>1, <1>2, <1>3 DEF CoversWindow, InMemory

\* Once the owner is found nothing changes it.
LEMMA FoundOwnerStays ==
    ASSUME OwnerInv, UNCHANGED <<sys, window, mapper, owner>>, pc' \notin {"maps", "devices"}
    PROVE  OwnerInv'
<1> QED BY SameFiles DEF OwnerInv, RightOwner

LEMMA SpecKeepsOwner ==
    ASSUME BaseInv, OwnerInv,
           AddrSpec \/ UioAddrSpec \/ UioRegionSpec \/ UioMockSpec \/ UioSpecFails
    PROVE  OwnerInv'
<1>1. CASE AddrSpec
  <2>1. /\ UNCHANGED <<sys, window, mapper, owner>> /\ mapper = "none" /\ owner = NoDevice
        /\ pc' \in {"done", "maps", "devices"}
        /\ pc' = "maps" => i' = 1
        /\ pc' = "devices" => i' = 1 /\ sys.request # "auto"
    BY <1>1 DEF AddrSpec, Proceed, Finish, BaseInv, FreshInv
  <2>2. RightOwner'
    BY <2>1 DEF RightOwner
  <2>3. pc' = "maps" => \A m \in UioCovering : m >= 1
    BY DEF UioCovering
  <2>4. \A r \in RegCovering : r >= 1
    BY DEF RegCovering
  <2> QED BY <2>1, <2>2, <2>3, <2>4, SameFiles DEF OwnerInv
<1>2. CASE UioAddrSpec \/ UioRegionSpec \/ UioMockSpec
  <2>1. sys'.request \notin {"auto", "devmem"} /\ pc' \notin {"maps", "devices"}
    BY <1>2 DEF UioAddrSpec, UioRegionSpec, UioMockSpec, Proceed, Finish
  <2> QED BY <2>1 DEF OwnerInv, RightOwner
<1>3. CASE UioSpecFails
  BY <1>3, FoundOwnerStays DEF UioSpecFails, Finish
<1> QED BY <1>1, <1>2, <1>3

\* The first entry that covers the window is taken; the end is reached only if
\* none does.
LEMMA SearchKeepsOwner ==
    ASSUME BaseInv, OwnerInv, ScanMap \/ EndMaps \/ ScanDevice \/ EndDevices
    PROVE  OwnerInv'
<1>1. ByAddress /\ pc \in {"maps", "devices"} /\ mapper = "none" /\ UNCHANGED <<sys, window>>
  BY DEF ScanMap, EndMaps, ScanDevice, EndDevices, BaseInv, FreshInv, WindowInv
<1>2. i \in Nat /\ Len(sys.maps) \in Nat /\ Len(sys.regs) \in Nat
  BY EntryTypes DEF BaseInv, TypeInv
<1>3. CASE ScanMap
  <2>1. i \in 1..Len(sys.maps) /\ sys.request = "auto" /\ \A m \in UioCovering : m >= i
    BY <1>2, <1>3 DEF ScanMap, OwnerInv, BaseInv, TypeInv, WindowInv
  <2>2. CASE MapContains(sys.maps[i], window)
    <3>1. i \in UioCovering
      BY <1>1, <2>1, <2>2, ContainsIsInclusion
    <3>2. mapper' = "uio" /\ owner' = sys.maps[i].dev /\ pc' \in {"status", "done"}
      BY <1>3, <2>2 DEF ScanMap, Proceed, Finish
    <3> QED BY <1>1, <2>1, <3>1, <3>2, SameFiles DEF OwnerInv, RightOwner
  <2>3. CASE ~MapContains(sys.maps[i], window)
    <3>1. i \notin UioCovering
      BY <1>1, <2>1, <2>3, ContainsIsInclusion
    <3>2. \A m \in UioCovering : m \in Nat /\ m >= i + 1
      BY <1>2, <2>1, <3>1 DEF UioCovering
    <3>3. pc' = "maps" /\ i' = i + 1 /\ mapper' = "none"
      BY <1>1, <1>3, <2>3 DEF ScanMap, Advance
    <3> QED BY <1>1, <3>2, <3>3, SameFiles DEF OwnerInv, RightOwner
  <2> QED BY <2>2, <2>3
<1>4. CASE EndMaps
  <2>1. UioCovering = {}
    BY <1>2, <1>4 DEF EndMaps, OwnerInv, UioCovering
  <2>2. pc' = "devices" /\ i' = 1 /\ mapper' = "none" /\ owner' = NoDevice
    BY <1>1, <1>4 DEF EndMaps, Proceed, BaseInv, FreshInv
  <2>3. \A r \in RegCovering : r >= 1
    BY DEF RegCovering
  <2> QED BY <1>1, <2>1, <2>2, <2>3, SameFiles DEF OwnerInv, RightOwner
<1>5. CASE ScanDevice
  <2>1. /\ i \in 1..Len(sys.regs) /\ \A r \in RegCovering : r >= i
        /\ sys.request = "auto" => UioCovering = {}
    BY <1>2, <1>5 DEF ScanDevice, OwnerInv, BaseInv, TypeInv
  <2>2. pc' = "devices" /\ i' = i + 1 /\ mapper' = "none"
    BY <1>1, <1>5 DEF ScanDevice
  <2>3. CASE RegCovers(sys.regs[i], window)
    <3>1. i \in RegCovering
      BY <1>1, <2>1, <2>3, RegCoversIsInclusion
    <3>2. owner' = sys.regs[i].dev /\ owner' # NoDevice
      BY <1>5, <2>1, <2>3, EntryTypes, PreflightAssumption DEF ScanDevice, BaseInv, TypeInv
    <3> QED BY <1>1, <2>1, <2>2, <3>1, <3>2, SameFiles DEF OwnerInv, RightOwner
  <2>4. CASE ~RegCovers(sys.regs[i], window)
    <3>1. i \notin RegCovering
      BY <1>1, <2>1, <2>4, RegCoversIsInclusion
    <3>2. \A r \in RegCovering : r \in Nat /\ r >= i + 1
      BY <1>2, <2>1, <3>1 DEF RegCovering
    <3>3. owner' = NoDevice
      BY <1>5, <2>4 DEF ScanDevice
    <3> QED BY <1>1, <2>1, <2>2, <3>2, <3>3, SameFiles DEF OwnerInv, RightOwner
  <2> QED BY <2>3, <2>4
<1>6. CASE EndDevices
  <2>1. owner = NoDevice => RegCovering = {}
    BY <1>2, <1>6 DEF EndDevices, OwnerInv, RegCovering
  <2>2. mapper' = "devmem" /\ owner' = owner /\ pc' \in {"iomem", "done"}
    BY <1>6 DEF EndDevices, Proceed, Finish
  <2>3. /\ sys.request = "auto" => UioCovering = {}
        /\ owner # NoDevice => owner \in {sys.regs[r].dev : r \in RegCovering}
    BY <1>6 DEF EndDevices, OwnerInv
  <2>4. IF RegCovering = {} THEN owner = NoDevice
        ELSE owner \in {sys.regs[r].dev : r \in RegCovering}
    BY <2>1, <2>3
  <2> QED BY <1>1, <2>2, <2>3, <2>4, SameFiles DEF OwnerInv, RightOwner
<1> QED BY <1>3, <1>4, <1>5, <1>6

LEMMA NextOwner == BaseInv /\ OwnerInv /\ [Next]_vars => OwnerInv'
<1> SUFFICES ASSUME BaseInv, OwnerInv, [Next]_vars PROVE OwnerInv'
  OBVIOUS
<1>1. CASE UNCHANGED vars
  <2>1. UNCHANGED <<sys, window, mapper, owner, pc, i>>
    BY <1>1 DEF vars
  <2> QED BY <2>1, SameFiles DEF OwnerInv, RightOwner
<1>2. CASE ProfileCheck \/ EndProfile
  BY <1>2, FoundOwnerStays DEF ProfileCheck, EndProfile, Advance, Proceed, Finish
<1>3. CASE IomemHidden \/ IomemEntry \/ EndIomem \/ Blueprint
  BY <1>3, FoundOwnerStays DEF IomemHidden, IomemEntry, EndIomem, Blueprint, Advance, Proceed, Finish
<1>4. CASE CheckStatus \/ CheckPower \/ CheckSupplier \/ EndSuppliers
  BY <1>4, FoundOwnerStays DEF CheckStatus, CheckPower, CheckSupplier, EndSuppliers, Advance,
                               Proceed, Finish
<1>5. CASE ClockLine \/ EndClocks \/ CheckFabric \/ CheckManager
  BY <1>5, FoundOwnerStays DEF ClockLine, EndClocks, CheckFabric, CheckManager, Advance, Proceed,
                               Finish
<1> QED BY <1>1, <1>2, <1>3, <1>4, <1>5, SpecKeepsOwner, SearchKeepsOwner DEF Next, Resolving

-----------------------------------------------------------------------------
(* Blueprint *)

LEMMA IndentType ==
    ASSUME BaseInv, NEW k \in 1..Len(sys.iomem)
    PROVE  /\ sys.iomem[k].indent \in Nat
           /\ sys.iomem[k].start \in Nat /\ sys.iomem[k].end \in Nat
           /\ sys.iomem[k].start <= sys.iomem[k].end
<1>1. sys.iomem[k] \in IomemLines
  BY EntryTypes DEF BaseInv, TypeInv
<1> QED BY <1>1 DEF IomemLines

\* The comparisons of ends in parse_iomem are inclusion and intersection.
LEMMA LineMeaning ==
    ASSUME BaseInv, pc = "iomem", NEW k \in 1..Len(sys.iomem)
    PROVE  /\ Covers(sys.iomem[k], window) <=> CoversWindow(k)
           /\ Overlaps(sys.iomem[k], window) <=> EntryBytes(k) \cap WindowBytes # {}
<1> DEFINE a == window.base
           z == window.base + window.size - 1
           s == sys.iomem[k].start
           e == sys.iomem[k].end
<1>1. a \in Nat /\ z \in Nat /\ a <= z /\ WindowBytes = a..z /\ LastByte(window) = z
  BY RealWindow DEF BaseInv, WindowInv, LastByte
<1>2. s \in Nat /\ e \in Nat /\ s <= e /\ EntryBytes(k) = s..e
  BY IndentType DEF EntryBytes
<1>3. Covers(sys.iomem[k], window) <=> s <= a /\ z <= e
  BY <1>1, <1>2 DEF Covers
<1>4. Overlaps(sys.iomem[k], window) <=> a <= e /\ s <= z
  BY <1>1, <1>2 DEF Overlaps
<1> HIDE DEF a, z, s, e
<1>5. a..z \subseteq s..e <=> s <= a /\ z <= e
  <2>1. a \in Int /\ z \in Int /\ s \in Int /\ e \in Int /\ a <= z
    BY <1>1, <1>2
  <2> QED BY <2>1, IntervalInside, ZenonT(60)
<1>6. (s..e) \cap (a..z) # {} <=> a <= e /\ s <= z
  <2>1. ASSUME a <= e, s <= z PROVE (s..e) \cap (a..z) # {}
    <3>1. a \in (s..e) \cap (a..z) \/ s \in (s..e) \cap (a..z)
      BY <1>1, <1>2, <2>1
    <3> QED BY <3>1
  <2>2. ASSUME NEW x \in (s..e) \cap (a..z) PROVE a <= e /\ s <= z
    BY <1>1, <1>2
  <2> QED BY <2>1, <2>2
<1> QED BY <1>1, <1>2, <1>3, <1>4, <1>5, <1>6 DEF CoversWindow

\* A line has children exactly if the next one is deeper.
LEMMA LeafByNextLine ==
    ASSUME BaseInv, NEW k \in Visible
    PROVE  (\E j \in Visible : ParentOf(j, k))
             <=> k + 1 \in Visible /\ sys.iomem[k + 1].indent > sys.iomem[k].indent
<1>1. /\ Visible = 1..Len(sys.iomem) /\ Len(sys.iomem) \in Nat /\ k \in Nat
      /\ \A j \in Visible : j \in Nat /\ sys.iomem[j].indent \in Nat
  BY EntryTypes, IndentType DEF Visible, BaseInv, TypeInv
<1>2. ASSUME k + 1 \in Visible, sys.iomem[k + 1].indent > sys.iomem[k].indent
      PROVE  ParentOf(k + 1, k)
  BY <1>1, <1>2 DEF ParentOf
<1>3. ASSUME NEW j \in Visible, ParentOf(j, k)
      PROVE  k + 1 \in Visible /\ sys.iomem[k + 1].indent > sys.iomem[k].indent
  <2>1. k < j /\ j \in Nat /\ k + 1 \in Visible
    BY <1>1, <1>3 DEF ParentOf
  <2>2. CASE j = k + 1
    BY <1>1, <1>3, <2>1, <2>2 DEF ParentOf
  <2>3. CASE j # k + 1
    <3>1. k + 1 \in (k + 1)..(j - 1)
      BY <1>1, <2>1, <2>3
    <3>2. sys.iomem[k + 1].indent >= sys.iomem[j].indent /\ sys.iomem[k].indent < sys.iomem[j].indent
      BY <1>3, <3>1 DEF ParentOf
    <3> QED BY <1>1, <2>1, <3>2
  <2> QED BY <2>2, <2>3
<1> QED BY <1>1, <1>2, <1>3

\* Any step outside the scan.
LEMMA NotScanning ==
    ASSUME IomemInv, UNCHANGED <<sys, window>>, pc' \notin {"iomem", "listed"},
           verdict' # "ram",
           pc' \in OwnerPhases /\ mapper' = "devmem" => ~TouchesMemory
    PROVE  IomemInv'
<1> QED BY SameFiles DEF IomemInv, IomemExact

LEMMA BeginIomem ==
    ASSUME BaseInv, IomemInv, EndDevices
    PROVE  IomemInv'
<1>1. UNCHANGED <<sys, window>> /\ pc' \in {"iomem", "done"} /\ verdict' # "ram"
  BY DEF EndDevices, Proceed, Finish, BaseInv, TypeInv
<1>2. CASE pc' = "done"
  BY <1>1, <1>2, NotScanning DEF OwnerPhases
<1>3. CASE pc' = "iomem"
  <2>1. i' = 1 /\ ~listed' /\ pending' = {}
    BY <1>3 DEF EndDevices, Proceed, Finish, BaseInv, FreshInv
  <2>2. \A k \in Visible : k \in Nat /\ k >= 1
    BY EntryTypes DEF Visible, BaseInv, TypeInv
  <2>3. Len(sys.iomem) \in Nat
    BY EntryTypes DEF BaseInv, TypeInv
  <2>4. {sys.iomem[k].indent : k \in {j \in Visible : j + 1 = 1 /\ CoversWindow(j)}} = {}
    BY <2>2
  <2>5. ~ \E k \in Visible :
            k + 1 < 1 /\ CoversWindow(k) /\ sys.iomem[k + 1].indent <= sys.iomem[k].indent
    BY <2>2
  <2>6. \A k \in Visible : ~(k < 1)
    BY <2>2
  <2> QED BY <1>1, <1>3, <2>1, <2>3, <2>4, <2>5, <2>6, SameFiles DEF IomemInv, IomemExact, OwnerPhases
<1> QED BY <1>1, <1>2, <1>3

LEMMA IomemHiddenKeeps ==
    ASSUME BaseInv, IomemInv, IomemHidden
    PROVE  IomemInv'
<1>1. Visible = {} /\ UNCHANGED <<sys, window, listed, pending, verdict>> /\ pc' = "iomem" /\ i' = i + 1
  BY DEF IomemHidden, Visible
<1>2. i + 1 <= Len(sys.iomem) + 1
  BY EntryTypes DEF IomemHidden, BaseInv, TypeInv
<1>3. ~listed /\ pending = {} /\ verdict # "ram"
  BY <1>1 DEF IomemHidden, IomemInv, BaseInv, TypeInv
<1> QED BY <1>1, <1>2, <1>3, SameFiles DEF IomemInv, IomemExact, OwnerPhases

LEMMA IomemEntryKeeps ==
    ASSUME BaseInv, IomemInv, IomemEntry
    PROVE  IomemInv'
<1> DEFINE e == sys.iomem[i]
<1>1. /\ pc = "iomem" /\ UNCHANGED <<sys, window>>
      /\ i \in Visible /\ Visible = 1..Len(sys.iomem) /\ Len(sys.iomem) \in Nat /\ i \in Nat
  BY EntryTypes DEF IomemEntry, Visible, BaseInv, TypeInv
<1>2. (e.restricted /\ Overlaps(e, window)) <=> InMemory(i)
  BY <1>1, LineMeaning DEF InMemory
<1>3. CASE InMemory(i)
  <2>1. pc' = "done" /\ TouchesMemory
    BY <1>1, <1>2, <1>3 DEF IomemEntry, Finish, TouchesMemory, InMemory
  <2> QED BY <1>1, <2>1, SameFiles DEF IomemInv, IomemExact, OwnerPhases
<1>4. CASE ~InMemory(i)
  <2>1. /\ pc' = "iomem" /\ i' = i + 1 /\ verdict' # "ram"
        /\ listed' = (listed \/ \E p \in pending : e.indent <= p)
        /\ pending' = IF CoversWindow(i) THEN {e.indent} ELSE {}
    BY <1>1, <1>2, <1>4, LineMeaning DEF IomemEntry, Advance, BaseInv, TypeInv
  <2>2. \A k \in Visible : k < i + 1 => ~InMemory(k)
    BY <1>1, <1>4 DEF IomemInv
  <2>3. pending' = {sys.iomem[k].indent : k \in {j \in Visible : j + 1 = i + 1 /\ CoversWindow(j)}}
    <3>1. {j \in Visible : j + 1 = i + 1 /\ CoversWindow(j)} = IF CoversWindow(i) THEN {i} ELSE {}
      BY <1>1
    <3> QED BY <2>1, <3>1
  <2>4. (\E p \in pending : e.indent <= p) <=>
        \E k \in Visible : k + 1 = i /\ CoversWindow(k) /\ sys.iomem[k + 1].indent <= sys.iomem[k].indent
    <3>1. pending = {sys.iomem[k].indent : k \in {j \in Visible : j + 1 = i /\ CoversWindow(j)}}
      BY <1>1 DEF IomemInv
    <3> QED BY <3>1
  <2>5. listed <=> \E k \in Visible :
            k + 1 < i /\ CoversWindow(k) /\ sys.iomem[k + 1].indent <= sys.iomem[k].indent
    BY <1>1 DEF IomemInv
  <2>6. listed' <=> \E k \in Visible :
            k + 1 < i + 1 /\ CoversWindow(k) /\ sys.iomem[k + 1].indent <= sys.iomem[k].indent
    <3>1. \A k \in Visible : k + 1 < i + 1 <=> k + 1 < i \/ k + 1 = i
      BY <1>1
    <3> QED BY <2>1, <2>4, <2>5, <3>1
  <2>7. i + 1 <= Len(sys.iomem) + 1
    BY <1>1
  <2> QED BY <1>1, <2>1, <2>2, <2>3, <2>6, <2>7, SameFiles DEF IomemInv, IomemExact, OwnerPhases
<1> QED BY <1>3, <1>4

LEMMA EndIomemKeeps ==
    ASSUME BaseInv, IomemInv, EndIomem
    PROVE  IomemInv'
<1>1. /\ pc = "iomem" /\ UNCHANGED <<sys, window, verdict>> /\ pc' = "listed"
      /\ listed' = (listed \/ pending # {})
      /\ verdict # "ram"
  BY DEF EndIomem, Proceed, BaseInv, TypeInv
<1>2. Len(sys.iomem) \in Nat /\ i = Len(sys.iomem) + 1
  BY <1>1, EntryTypes DEF EndIomem, IomemInv, BaseInv, TypeInv
<1>3. \A k \in Visible : k \in 1..Len(sys.iomem)
  BY DEF Visible
<1>4. ~TouchesMemory
  BY <1>1, <1>2, <1>3 DEF IomemInv, TouchesMemory, InMemory
<1>5. CoveredByLeaf <=> \E k \in Visible :
        CoversWindow(k) /\ ~(k + 1 \in Visible /\ sys.iomem[k + 1].indent > sys.iomem[k].indent)
  BY LeafByNextLine DEF CoveredByLeaf, CoversWindow
<1>6. \A k \in Visible :
        ~(k + 1 \in Visible /\ sys.iomem[k + 1].indent > sys.iomem[k].indent)
          <=> k + 1 = i \/ (k + 1 < i /\ sys.iomem[k + 1].indent <= sys.iomem[k].indent)
  <2> SUFFICES ASSUME NEW k \in Visible
               PROVE  ~(k + 1 \in Visible /\ sys.iomem[k + 1].indent > sys.iomem[k].indent)
                        <=> k + 1 = i \/ (k + 1 < i /\ sys.iomem[k + 1].indent <= sys.iomem[k].indent)
    OBVIOUS
  <2>1. k \in Nat /\ (k + 1 \in Visible <=> k + 1 < i) /\ (k + 1 < i \/ k + 1 = i)
    BY <1>2, <1>3 DEF Visible
  <2>2. k + 1 \in Visible =>
            sys.iomem[k].indent \in Nat /\ sys.iomem[k + 1].indent \in Nat
    BY <1>3, IndentType
  <2> QED BY <1>2, <2>1, <2>2
<1>7. pending # {} <=> \E k \in Visible : k + 1 = i /\ CoversWindow(k)
  <2>1. pending = {sys.iomem[k].indent : k \in {j \in Visible : j + 1 = i /\ CoversWindow(j)}}
    BY <1>1 DEF IomemInv
  <2> QED BY <2>1
<1>8. listed <=> \E k \in Visible :
        k + 1 < i /\ CoversWindow(k) /\ sys.iomem[k + 1].indent <= sys.iomem[k].indent
  BY <1>1 DEF IomemInv
<1>9. listed' <=> CoveredByLeaf
  BY <1>1, <1>5, <1>6, <1>7, <1>8
<1> QED BY <1>1, <1>4, <1>9, SameFiles DEF IomemInv, IomemExact, OwnerPhases

LEMMA NextIomem == BaseInv /\ IomemInv /\ [Next]_vars => IomemInv'
<1> SUFFICES ASSUME BaseInv, IomemInv, [Next]_vars PROVE IomemInv'
  OBVIOUS
<1> USE DEF Advance, Proceed, Finish
<1>1. CASE UNCHANGED vars
  <2>1. UNCHANGED <<sys, window, mapper, pc, i, listed, pending, verdict>>
    BY <1>1 DEF vars
  <2> QED BY <2>1, SameFiles DEF IomemInv, IomemExact
<1>2. CASE ProfileCheck \/ EndProfile
  BY <1>2, NotScanning DEF ProfileCheck, EndProfile, OwnerPhases, BaseInv, TypeInv
<1>3. CASE AddrSpec \/ UioAddrSpec \/ UioSpecFails
  BY <1>3, NotScanning DEF AddrSpec, UioAddrSpec, UioSpecFails, OwnerPhases, BaseInv, TypeInv
<1>4. CASE UioRegionSpec \/ UioMockSpec
  <2>1. pc' \in {"status", "done"} /\ mapper' = "uio" /\ verdict' # "ram"
    BY <1>4 DEF UioRegionSpec, UioMockSpec, BaseInv, TypeInv
  <2> QED BY <2>1 DEF IomemInv, IomemExact
<1>5. CASE ScanMap \/ EndMaps \/ ScanDevice
  BY <1>5, NotScanning DEF ScanMap, EndMaps, ScanDevice, OwnerPhases, BaseInv, TypeInv
<1>6. CASE Blueprint
  <2>1. ~TouchesMemory
    BY <1>6 DEF Blueprint, IomemInv, IomemExact
  <2> QED BY <1>6, <2>1, NotScanning DEF Blueprint, BaseInv, TypeInv
<1>7. CASE CheckStatus \/ CheckPower \/ CheckSupplier \/ EndSuppliers
  <2>1. mapper = "devmem" => ~TouchesMemory
    BY <1>7 DEF CheckStatus, CheckPower, CheckSupplier, EndSuppliers, IomemInv, OwnerPhases
  <2> QED BY <1>7, <2>1, NotScanning DEF CheckStatus, CheckPower, CheckSupplier, EndSuppliers,
                                         BaseInv, TypeInv
<1>8. CASE ClockLine \/ EndClocks \/ CheckFabric \/ CheckManager
  <2>1. mapper = "devmem" => ~TouchesMemory
    BY <1>8 DEF ClockLine, EndClocks, CheckFabric, CheckManager, IomemInv, OwnerPhases
  <2> QED BY <1>8, <2>1, NotScanning DEF ClockLine, EndClocks, CheckFabric, CheckManager,
                                         BaseInv, TypeInv
<1> QED BY <1>1, <1>2, <1>3, <1>4, <1>5, <1>6, <1>7, <1>8, BeginIomem, IomemHiddenKeeps,
           IomemEntryKeeps, EndIomemKeeps DEF Next, Resolving

-----------------------------------------------------------------------------
(* The clocks of the owner *)

\* The row that a line speaks of is its own, or that of the line above.
LEMMA RowOfLine ==
    ASSUME NEW j \in Nat \ {0}
    PROVE  RowOf(j) = IF sys.clocks[j].row THEN j ELSE RowOf(j - 1)
<1> DEFINE rows(m) == {k \in 1..m : sys.clocks[k].row}
           Latest(S) == IF S = {} THEN 0 ELSE CHOOSE k \in S : \A m \in S : m <= k
<1>1. RowOf(j) = Latest(rows(j)) /\ RowOf(j - 1) = Latest(rows(j - 1))
  BY DEF RowOf
<1>2. CASE sys.clocks[j].row
  <2>1. j \in rows(j) /\ \A m \in rows(j) : m <= j /\ m \in Nat
    BY <1>2
  <2>2. \A k \in rows(j) : (\A m \in rows(j) : m <= k) => k = j
    BY <2>1
  <2>3. Latest(rows(j)) = j
    BY <2>1, <2>2
  <2> HIDE DEF rows, Latest
  <2> QED BY <1>1, <1>2, <2>3
<1>3. CASE ~sys.clocks[j].row
  <2>1. rows(j) = rows(j - 1)
    BY <1>3
  <2> HIDE DEF rows, Latest
  <2> QED BY <1>1, <1>3, <2>1
<1> QED BY <1>2, <1>3

\* What the references are of.
LEMMA SameClocks ==
    ASSUME UNCHANGED sys
    PROVE  /\ \A j : RowOf(j)' = RowOf(j)
           /\ \A d : GatedMentions(d)' = GatedMentions(d) /\ IdleMentions(d)' = IdleMentions(d)
<1>1. \A j : RowOf(j)' = RowOf(j)
  BY DEF RowOf
<1> QED BY <1>1 DEF Mentions, GatedMentions, IdleMentions

LEMMA OutsideClocks ==
    ASSUME ClocksInv, UNCHANGED sys, pc' # "clocks", verdict' # "clock_gated",
           pc' = "fabric" => sys.debugfs # "summary"
    PROVE  ClocksInv'
<1> QED BY DEF ClocksInv, ClocksExact

LEMMA BeginClocks ==
    ASSUME BaseInv, ClocksInv, EndSuppliers
    PROVE  ClocksInv'
<1>1. /\ UNCHANGED <<sys, owner, verdict, row>> /\ i' = 1 /\ verdict # "clock_gated"
      /\ pc' = (IF sys.debugfs = "summary" THEN "clocks" ELSE "fabric")
      /\ warnings' = warnings + (IF sys.debugfs = "counts" THEN Health.idleClocks ELSE 0)
      /\ warnings = 0 /\ row = 0
  BY DEF EndSuppliers, Proceed, BaseInv, TypeInv, FreshInv
<1>2. CASE sys.debugfs # "summary"
  BY <1>1, <1>2, OutsideClocks
<1>3. CASE sys.debugfs = "summary"
  <2>1. warnings' = 0 /\ pc' = "clocks"
    BY <1>1, <1>3
  <2>2. RowOf(0) = 0
    BY DEF RowOf
  <2>3. /\ \A j \in GatedMentions(owner) : j >= 1
        /\ {j \in IdleMentions(owner) : j < 1} = {}
    BY DEF GatedMentions, IdleMentions, Mentions
  <2>4. warnings' = Cardinality({j \in IdleMentions(owner) : j < 1})
    BY <2>1, <2>3, FS_EmptySet
  <2>5. RowOf(i' - 1) = 0
    BY <1>1, <2>2
  <2> QED BY <1>1, <2>1, <2>3, <2>4, <2>5, SameClocks DEF ClocksInv, ClocksExact
<1> QED BY <1>2, <1>3

LEMMA ClockLineKeeps ==
    ASSUME BaseInv, ClocksInv, ClockLine
    PROVE  ClocksInv'
<1> DEFINE line == sys.clocks[i]
           clock == sys.clocks[RowOf(i)]
           mine == owner \in line.names /\ RowOf(i) # 0
           idle == clock.hw = "unknown" /\ clock.count = 0
<1>1. /\ pc = "clocks" /\ UNCHANGED <<sys, owner>> /\ verdict = "none"
      /\ i \in Nat \ {0} /\ Len(sys.clocks) \in Nat /\ i \in 1..Len(sys.clocks)
      /\ warnings \in Nat
  <2>1. Len(sys.clocks) \in Nat
    BY DEF BaseInv, TypeInv, IsSystem
  <2> QED BY <2>1 DEF ClockLine, BaseInv, TypeInv
<1>2. RowOf(i) = IF line.row THEN i ELSE row
  BY <1>1, RowOfLine DEF ClocksInv
<1>3. /\ row' = RowOf(i)
      /\ warnings' = IF mine /\ idle THEN warnings + 1 ELSE warnings
      /\ IF mine /\ clock.hw = "N" THEN Finish("clock_gated") ELSE Advance
  BY <1>2 DEF ClockLine
<1>4. /\ i \in GatedMentions(owner) <=> mine /\ clock.hw = "N"
      /\ i \in IdleMentions(owner) <=> mine /\ idle
  BY <1>1 DEF GatedMentions, IdleMentions, Mentions
<1>5. CASE mine /\ clock.hw = "N"
  BY <1>1, <1>3, <1>4, <1>5, SameClocks DEF Finish, ClocksInv, ClocksExact
<1>6. CASE ~(mine /\ clock.hw = "N")
  <2>1. pc' = "clocks" /\ i' = i + 1 /\ verdict' = "none"
    BY <1>1, <1>3, <1>6 DEF Advance
  <2>2. \A j \in GatedMentions(owner) : j >= i + 1
    <3>1. \A j \in GatedMentions(owner) : j \in Nat /\ j >= i /\ j # i
      BY <1>1, <1>4, <1>6 DEF ClocksInv, GatedMentions, Mentions
    <3> QED BY <1>1, <3>1
  <2>3. warnings' = Cardinality({j \in IdleMentions(owner) : j < i + 1})
    <3> DEFINE before == {j \in IdleMentions(owner) : j < i}
               upto == {j \in IdleMentions(owner) : j < i + 1}
    <3>1. warnings = Cardinality(before)
      BY <1>1 DEF ClocksInv
    <3>2. IsFiniteSet(before)
      <4>1. before \subseteq 1..Len(sys.clocks)
        BY DEF IdleMentions, Mentions
      <4>2. IsFiniteSet(1..Len(sys.clocks))
        BY <1>1, FS_Interval
      <4> QED BY <4>1, <4>2, FS_Subset
    <3>3. \A j \in IdleMentions(owner) : j \in Nat
      BY DEF IdleMentions, Mentions
    <3>4. CASE mine /\ idle
      <4>1. upto = before \cup {i} /\ i \notin before
        BY <1>1, <1>4, <3>3, <3>4
      <4>2. Cardinality(upto) = Cardinality(before) + 1
        BY <3>2, <4>1, FS_AddElement
      <4> QED BY <1>3, <3>1, <3>4, <4>2
    <3>5. CASE ~(mine /\ idle)
      <4>1. upto = before
        BY <1>1, <1>4, <3>3, <3>5
      <4> QED BY <1>3, <3>1, <3>5, <4>1
    <3> QED BY <3>4, <3>5
  <2>4. row' = RowOf(i' - 1)
    BY <1>1, <1>3, <2>1
  <2> QED BY <1>1, <2>1, <2>2, <2>3, <2>4, SameClocks DEF ClocksInv, ClocksExact
<1> QED BY <1>5, <1>6

LEMMA EndClocksKeeps ==
    ASSUME BaseInv, ClocksInv, EndClocks
    PROVE  ClocksInv'
<1>1. /\ UNCHANGED <<sys, owner, verdict, warnings>> /\ pc' = "fabric" /\ verdict # "clock_gated"
      /\ i \in Nat /\ Len(sys.clocks) \in Nat /\ i > Len(sys.clocks)
  <2>1. Len(sys.clocks) \in Nat
    BY DEF BaseInv, TypeInv, IsSystem
  <2> QED BY <2>1 DEF EndClocks, Proceed, BaseInv, TypeInv
<1>2. \A j \in 1..Len(sys.clocks) : j < i /\ ~(j >= i)
  BY <1>1
<1>3. GatedMentions(owner) = {} /\ {j \in IdleMentions(owner) : j < i} = IdleMentions(owner)
  BY <1>2 DEF EndClocks, ClocksInv, GatedMentions, IdleMentions, Mentions
<1>4. warnings = Cardinality(IdleMentions(owner))
  BY <1>3 DEF EndClocks, ClocksInv
<1> QED BY <1>1, <1>3, <1>4, SameClocks DEF ClocksInv, ClocksExact

LEMMA NextClocks == BaseInv /\ ClocksInv /\ [Next]_vars => ClocksInv'
<1> SUFFICES ASSUME BaseInv, ClocksInv, [Next]_vars PROVE ClocksInv'
  OBVIOUS
<1> USE DEF Advance, Proceed, Finish
<1>1. CASE UNCHANGED vars
  <2>1. UNCHANGED <<sys, owner, pc, i, row, warnings, verdict>>
    BY <1>1 DEF vars
  <2> QED BY <2>1, SameClocks DEF ClocksInv, ClocksExact
<1>2. CASE ProfileCheck \/ EndProfile
  BY <1>2, OutsideClocks DEF ProfileCheck, EndProfile, BaseInv, TypeInv
<1>3. CASE AddrSpec \/ UioAddrSpec \/ UioRegionSpec \/ UioMockSpec \/ UioSpecFails
  BY <1>3, OutsideClocks DEF AddrSpec, UioAddrSpec, UioRegionSpec, UioMockSpec, UioSpecFails,
                             BaseInv, TypeInv
<1>4. CASE ScanMap \/ EndMaps \/ ScanDevice \/ EndDevices
  BY <1>4, OutsideClocks DEF ScanMap, EndMaps, ScanDevice, EndDevices, BaseInv, TypeInv
<1>5. CASE IomemHidden \/ IomemEntry \/ EndIomem \/ Blueprint
  BY <1>5, OutsideClocks DEF IomemHidden, IomemEntry, EndIomem, Blueprint, BaseInv, TypeInv
<1>6. CASE CheckStatus \/ CheckPower \/ CheckSupplier \/ CheckFabric \/ CheckManager
  BY <1>6, OutsideClocks DEF CheckStatus, CheckPower, CheckSupplier, CheckFabric, CheckManager,
                             BaseInv, TypeInv
<1> QED BY <1>1, <1>2, <1>3, <1>4, <1>5, <1>6, BeginClocks, ClockLineKeeps, EndClocksKeeps
           DEF Next, Resolving

-----------------------------------------------------------------------------
(* The verdict *)

\* `(actual & mask) == (expected & mask)' says it of every bit of the mask.
LEMMA PassesMeaning ==
    ASSUME BaseInv, NEW k \in 1..Len(sys.profile)
    PROVE  Passes(sys.profile[k]) <=> ProfilePasses(k)
<1> QED BY DEF Passes, ProfilePasses

LEMMA SameSystem ==
    ASSUME UNCHANGED sys
    PROVE  /\ UNCHANGED <<ChecksHold, RequestValid, Check>>
           /\ \A k : ProfilePasses(k)' = ProfilePasses(k)
           /\ \A d : Healthy(d)' = Healthy(d)
<1>1. \A k : ProfilePasses(k)' = ProfilePasses(k)
  BY DEF ProfilePasses
<1>2. UNCHANGED <<ChecksHold, RequestValid, Check>>
  BY <1>1 DEF ChecksHold, RequestValid, Check
<1>3. \A d : Healthy(d)' = Healthy(d)
  BY SameClocks DEF Healthy
<1> QED BY <1>1, <1>2, <1>3

\* Before the owner is checked only the profile has been.
LEMMA BeforeOwner ==
    ASSUME VerdictInv, UNCHANGED sys, pc \notin {"profile", "done"},
           pc' \in {"spec", "maps", "devices", "iomem", "listed", "status"}
    PROVE  VerdictInv'
<1> QED BY SameSystem DEF VerdictInv, VerdictExact, PastStatus, PastPower, PastSuppliers, PastClocks,
                          OwnerPhases

\* At the end only the verdict counts.
LEMMA AtTheEnd ==
    ASSUME VerdictExact', pc' = "done"
    PROVE  VerdictInv'
<1> QED BY DEF VerdictInv, PastStatus, PastPower, PastSuppliers, PastClocks, OwnerPhases

LEMMA ProfileKeepsVerdict ==
    ASSUME BaseInv, VerdictInv, ProfileCheck \/ EndProfile
    PROVE  VerdictInv'
<1>1. UNCHANGED sys /\ pc = "profile" /\ i \in Nat \ {0} /\ Len(sys.profile) \in Nat
      /\ \A k \in 1..Len(sys.profile) : k < i => ProfilePasses(k)
  <2>1. Len(sys.profile) \in Nat
    BY DEF BaseInv, TypeInv, IsSystem
  <2> QED BY <2>1 DEF ProfileCheck, EndProfile, BaseInv, TypeInv, VerdictInv
<1>2. CASE ProfileCheck /\ Passes(sys.profile[i])
  <2>1. pc' = "profile" /\ i' = i + 1
    BY <1>2 DEF ProfileCheck, Advance
  <2>2. ProfilePasses(i)
    BY <1>1, <1>2, PassesMeaning DEF ProfileCheck
  <2>3. \A k \in 1..Len(sys.profile) : k < i + 1 => ProfilePasses(k)
    BY <1>1, <2>2
  <2> QED BY <1>1, <2>1, <2>3, SameSystem DEF VerdictInv, VerdictExact, PastStatus, PastPower,
                                              PastSuppliers, PastClocks, OwnerPhases
<1>3. CASE ProfileCheck /\ ~Passes(sys.profile[i])
  <2>1. pc' = "done" /\ verdict' = "profile"
    BY <1>3 DEF ProfileCheck, Finish
  <2>2. ~ChecksHold
    BY <1>1, <1>3, PassesMeaning DEF ProfileCheck, ChecksHold
  <2>3. ~ChecksHold'
    BY <1>1, <2>2, SameSystem
  <2>4. VerdictExact'
    BY <2>1, <2>3 DEF VerdictExact, ChecksHold, ProfilePasses
  <2> QED BY <2>1, <2>4, AtTheEnd
<1>4. CASE EndProfile
  <2>1. pc' = "spec"
    BY <1>4 DEF EndProfile, Proceed
  <2>2. ChecksHold
    BY <1>1, <1>4 DEF EndProfile, ChecksHold
  <2> QED BY <1>1, <2>1, <2>2, SameSystem DEF VerdictInv, VerdictExact, PastStatus, PastPower,
                                              PastSuppliers, PastClocks, OwnerPhases
<1> QED BY <1>2, <1>3, <1>4

\* What a step that ends the decision has to show of the state it ends in.
LEMMA Decided ==
    ASSUME UNCHANGED sys, VerdictInv, pc \notin {"profile", "done"}, pc' = "done",
           verdict' = "accept" <=> RequestValid' /\ OwnerFit' /\ NoMemory'
    PROVE  VerdictInv'
<1>1. ChecksHold'
  BY SameSystem DEF VerdictInv
<1>2. VerdictExact'
  BY <1>1 DEF VerdictExact, ChecksHold, ProfilePasses, RequestValid, OwnerFit, NoMemory
<1> QED BY <1>2, AtTheEnd

LEMMA SpecKeepsVerdict ==
    ASSUME BaseInv, VerdictInv,
           AddrSpec \/ UioAddrSpec \/ UioRegionSpec \/ UioMockSpec \/ UioSpecFails
    PROVE  VerdictInv'
<1>1. UNCHANGED sys /\ pc = "spec"
  BY DEF AddrSpec, UioAddrSpec, UioRegionSpec, UioMockSpec, UioSpecFails
<1>2. sys.request # "uio" => (WindowEmpty <=> ~RequestValid)
  BY DEF WindowEmpty, Fits, RequestValid, BaseInv, TypeInv, IsSystem
<1>3. UNCHANGED <<RequestValid, Check>>
  BY <1>1, SameSystem
<1>4. CASE pc' # "done"
  <2>1. pc' \in {"maps", "devices", "status"}
    BY <1>4 DEF AddrSpec, UioAddrSpec, UioRegionSpec, UioMockSpec, UioSpecFails, Proceed, Finish
  <2> QED BY <1>1, <2>1, BeforeOwner
<1>5. CASE pc' = "done" /\ AddrSpec
  <2>1. verdict' = "out_of_bounds" /\ ~RequestValid
    BY <1>2, <1>5 DEF AddrSpec, Proceed, Finish
  <2> QED BY <1>1, <1>3, <1>5, <2>1, Decided
<1>6. CASE pc' = "done" /\ UioAddrSpec
  <2>1. CASE WindowEmpty
    <3>1. verdict' = "out_of_bounds" /\ ~RequestValid
      BY <1>2, <1>6, <2>1 DEF UioAddrSpec, Finish
    <3> QED BY <1>1, <1>3, <1>6, <3>1, Decided
  <2>2. CASE ~WindowEmpty
    <3>1. /\ verdict' = "accept" /\ mapper' = "uio" /\ ~(Check /\ owner' # NoDevice)
          /\ RequestValid
      BY <1>2, <1>6, <2>2 DEF UioAddrSpec, Proceed, Finish
    <3>2. OwnerFit' /\ NoMemory'
      BY <1>3, <3>1 DEF OwnerFit, NoMemory
    <3> QED BY <1>1, <1>3, <1>6, <3>1, <3>2, Decided
  <2> QED BY <2>1, <2>2
<1>7. CASE pc' = "done" /\ UioRegionSpec
  <2>1. /\ verdict' = "accept" /\ mapper' = "uio" /\ ~(Check /\ owner' # NoDevice)
        /\ RequestValid
    BY <1>7 DEF UioRegionSpec, NamedOnce, RegionReadable, RequestValid, Proceed, Finish
  <2>2. OwnerFit' /\ NoMemory'
    BY <1>3, <2>1 DEF OwnerFit, NoMemory
  <2> QED BY <1>1, <1>3, <1>7, <2>1, <2>2, Decided
<1>8. CASE UioMockSpec
  <2>1. pc' = "done" /\ verdict' = "accept" /\ mapper' = "uio" /\ ~Check /\ RequestValid
    BY <1>8 DEF UioMockSpec, RequestValid, Check, Finish
  <2>2. OwnerFit' /\ NoMemory'
    BY <1>3, <2>1 DEF OwnerFit, NoMemory
  <2> QED BY <1>1, <1>3, <2>1, <2>2, Decided
<1>9. CASE UioSpecFails
  <2>1. pc' = "done" /\ verdict' = "uio_invalid" /\ ~RequestValid
    BY <1>9 DEF UioSpecFails, NamedOnce, RegionReadable, RequestValid, Finish
  <2> QED BY <1>1, <1>3, <2>1, Decided
<1> QED BY <1>4, <1>5, <1>6, <1>7, <1>8, <1>9

LEMMA SearchKeepsVerdict ==
    ASSUME BaseInv, VerdictInv, ScanMap \/ EndMaps \/ ScanDevice \/ EndDevices
    PROVE  VerdictInv'
<1>1. UNCHANGED sys /\ pc \in {"maps", "devices"} /\ UNCHANGED <<RequestValid, Check>>
  BY SameSystem DEF ScanMap, EndMaps, ScanDevice, EndDevices
<1>2. CASE pc' # "done"
  <2>1. pc' \in {"maps", "devices", "iomem", "status"}
    BY <1>2 DEF ScanMap, EndMaps, ScanDevice, EndDevices, Advance, Proceed, Finish
  <2> QED BY <1>1, <2>1, BeforeOwner
<1>3. CASE pc' = "done"
  <2>1. verdict' = "accept" /\ ~Check
    BY <1>3 DEF ScanMap, EndMaps, ScanDevice, EndDevices, Advance, Proceed, Finish
  <2>2. OwnerFit' /\ NoMemory'
    BY <1>1, <2>1 DEF OwnerFit, NoMemory
  <2>3. RequestValid
    BY <1>1 DEF BaseInv, WindowInv
  <2> QED BY <1>1, <1>3, <2>1, <2>2, <2>3, Decided
<1> QED BY <1>2, <1>3

LEMMA BlueprintKeepsVerdict ==
    ASSUME BaseInv, IomemInv, IomemInv', VerdictInv,
           IomemHidden \/ IomemEntry \/ EndIomem \/ Blueprint
    PROVE  VerdictInv'
<1>1. /\ pc \in {"iomem", "listed"} /\ UNCHANGED <<sys, window, mapper, owner>>
      /\ UNCHANGED <<RequestValid, Check, TouchesMemory, CoveredByLeaf>>
  BY SameSystem, SameFiles DEF IomemHidden, IomemEntry, EndIomem, Blueprint
<1>2. RequestValid /\ Check /\ mapper = "devmem"
  BY <1>1 DEF BaseInv, WindowInv
<1>3. CASE pc' # "done"
  <2>1. pc' \in {"iomem", "listed", "status"}
    BY <1>3 DEF IomemHidden, IomemEntry, EndIomem, Blueprint, Advance, Proceed, Finish
  <2> QED BY <1>1, <2>1, BeforeOwner
<1>4. CASE pc' = "done" /\ IomemEntry
  <2>1. verdict' = "ram"
    BY <1>4 DEF IomemEntry, Advance, Finish
  <2>2. ~NoMemory'
    BY <1>1, <1>2, <2>1 DEF NoMemory, IomemInv, IomemExact
  <2> QED BY <1>1, <1>4, <2>1, <2>2, Decided
<1>5. CASE pc' = "done" /\ Blueprint
  <2>1. owner = NoDevice /\ verdict' = (IF listed THEN "accept" ELSE "unmapped")
    BY <1>5 DEF Blueprint, Proceed, Finish
  <2>2. ~TouchesMemory /\ (listed <=> CoveredByLeaf)
    BY <1>5 DEF Blueprint, IomemInv, IomemExact
  <2>3. OwnerFit' /\ (NoMemory' <=> CoveredByLeaf)
    BY <1>1, <1>2, <2>1, <2>2 DEF OwnerFit, NoMemory
  <2>4. verdict' = "accept" <=> CoveredByLeaf
    BY <2>1, <2>2
  <2> QED BY <1>1, <1>2, <1>5, <2>3, <2>4, Decided
<1>6. CASE pc' = "done" /\ (IomemHidden \/ EndIomem)
  BY <1>6, <1>1 DEF IomemHidden, EndIomem, Proceed
<1> QED BY <1>3, <1>4, <1>5, <1>6

\* A check of the owner that fails, with a device that is not healthy; the last
\* one that passes, with one that is.
LEMMA OwnerDecided ==
    ASSUME BaseInv, IomemInv, VerdictInv, pc \in OwnerPhases,
           UNCHANGED <<sys, window, mapper, owner>>, pc' = "done",
           verdict' = "accept" <=> Healthy(owner)
    PROVE  VerdictInv'
<1>1. /\ UNCHANGED <<RequestValid, Check, TouchesMemory>>
      /\ Healthy(owner)' = Healthy(owner)
  BY SameSystem, SameFiles
<1>2. /\ RequestValid /\ Check /\ owner # NoDevice
      /\ pc \notin {"profile", "done"}
      /\ mapper = "devmem" => ~TouchesMemory
  BY DEF BaseInv, WindowInv, IomemInv, OwnerPhases
<1>3. NoMemory'
  BY <1>1, <1>2 DEF NoMemory
<1>4. OwnerFit' <=> Healthy(owner)
  BY <1>1, <1>2 DEF OwnerFit
<1> QED BY <1>1, <1>2, <1>3, <1>4, Decided

LEMMA OwnerType ==
    ASSUME BaseInv, pc \in OwnerPhases
    PROVE  owner \in Devices /\ Len(sys.health[owner].suppliers) \in Nat
<1>1. owner \in Devices /\ IsSystem(sys)
  BY DEF BaseInv, TypeInv, WindowInv
<1>2. sys.health[owner].suppliers \in Seq(STRING)
  BY <1>1 DEF IsSystem
<1> QED BY <1>1, <1>2

LEMMA PowerKeepsVerdict ==
    ASSUME BaseInv, IomemInv, VerdictInv, CheckStatus \/ CheckPower \/ CheckSupplier \/ EndSuppliers
    PROVE  VerdictInv'
<1>1. /\ UNCHANGED <<sys, window, mapper, owner>> /\ pc \in OwnerPhases
      /\ UNCHANGED <<ChecksHold, Health>> /\ ChecksHold
  BY SameSystem DEF CheckStatus, CheckPower, CheckSupplier, EndSuppliers, Health, OwnerPhases,
                    VerdictInv
<1>2. Len(Health.suppliers) \in Nat /\ i \in Nat \ {0}
  BY <1>1, OwnerType DEF Health, BaseInv, TypeInv
<1> USE DEF Advance, Proceed, Finish
<1>3. CASE CheckStatus
  <2>1. CASE Health.status \in {"absent", "okay"}
    BY <1>1, <1>3, <2>1 DEF CheckStatus, VerdictInv, VerdictExact, PastStatus, PastPower,
                            PastSuppliers, PastClocks, OwnerPhases
  <2>2. CASE Health.status \notin {"absent", "okay"}
    <3>1. pc' = "done" /\ verdict' # "accept" /\ ~Healthy(owner)
      BY <1>3, <2>2 DEF CheckStatus, Health, Healthy
    <3> QED BY <1>1, <3>1, OwnerDecided
  <2> QED BY <2>1, <2>2
<1>4. CASE CheckPower
  <2>1. CASE ~BadRuntimePm(Health.power)
    <3>1. pc' = "suppliers" /\ i' = 1 /\ Health.status \in {"absent", "okay"}
      BY <1>4, <2>1 DEF CheckPower, VerdictInv, PastStatus, OwnerPhases
    <3>2. \A s \in 1..Len(Health.suppliers) : ~(s < 1)
      OBVIOUS
    <3> QED BY <1>1, <2>1, <3>1, <3>2 DEF VerdictInv, VerdictExact, PastStatus, PastPower,
                                          PastSuppliers, PastClocks, OwnerPhases
  <2>2. CASE BadRuntimePm(Health.power)
    <3>1. pc' = "done" /\ verdict' # "accept" /\ ~Healthy(owner)
      BY <1>4, <2>2 DEF CheckPower, Health, Healthy
    <3> QED BY <1>1, <3>1, OwnerDecided
  <2> QED BY <2>1, <2>2
<1>5. CASE CheckSupplier
  <2>1. i \in 1..Len(Health.suppliers)
    BY <1>2, <1>5 DEF CheckSupplier
  <2>2. CASE ~BadRuntimePm(Health.suppliers[i])
    <3>1. /\ pc = "suppliers" /\ pc' = "suppliers" /\ i' = i + 1
          /\ Health.status \in {"absent", "okay"} /\ ~BadRuntimePm(Health.power)
      BY <1>5, <2>2 DEF CheckSupplier, VerdictInv, PastStatus, PastPower, OwnerPhases
    <3>2. \A s \in 1..Len(Health.suppliers) : s < i + 1 => ~BadRuntimePm(Health.suppliers[s])
      BY <1>2, <2>2, <3>1 DEF VerdictInv
    <3> QED BY <1>1, <3>1, <3>2 DEF VerdictInv, VerdictExact, PastStatus, PastPower, PastSuppliers,
                                    PastClocks, OwnerPhases
  <2>3. CASE BadRuntimePm(Health.suppliers[i])
    <3>1. pc' = "done" /\ verdict' # "accept" /\ ~Healthy(owner)
      BY <1>5, <2>1, <2>3 DEF CheckSupplier, Health, Healthy
    <3> QED BY <1>1, <3>1, OwnerDecided
  <2> QED BY <2>2, <2>3
<1>6. CASE EndSuppliers
  <2>1. /\ pc = "suppliers" /\ pc' = IF sys.debugfs = "summary" THEN "clocks" ELSE "fabric"
        /\ Health.status \in {"absent", "okay"} /\ ~BadRuntimePm(Health.power)
    BY <1>6 DEF EndSuppliers, VerdictInv, PastStatus, PastPower, OwnerPhases
  <2>2. \A s \in 1..Len(Health.suppliers) : ~BadRuntimePm(Health.suppliers[s])
    BY <1>2, <1>6, <2>1 DEF EndSuppliers, VerdictInv
  <2> QED BY <1>1, <2>1, <2>2 DEF VerdictInv, VerdictExact, PastStatus, PastPower, PastSuppliers,
                                  PastClocks, OwnerPhases
<1> QED BY <1>3, <1>4, <1>5, <1>6

LEMMA ClocksKeepVerdict ==
    ASSUME BaseInv, IomemInv, ClocksInv', VerdictInv, ClockLine \/ EndClocks \/ CheckFabric \/ CheckManager
    PROVE  VerdictInv'
<1>1. /\ UNCHANGED <<sys, window, mapper, owner>> /\ pc \in OwnerPhases
      /\ UNCHANGED <<ChecksHold, Health, GatedMentions(owner)>> /\ ChecksHold
      /\ Health.status \in {"absent", "okay"} /\ ~BadRuntimePm(Health.power)
      /\ \A s \in 1..Len(Health.suppliers) : ~BadRuntimePm(Health.suppliers[s])
  <2>1. UNCHANGED <<sys, window, mapper, owner>> /\ pc \in PastSuppliers
    BY DEF ClockLine, EndClocks, CheckFabric, CheckManager, PastSuppliers, PastPower, PastStatus,
           OwnerPhases
  <2>2. /\ pc \in OwnerPhases /\ ChecksHold
        /\ Health.status \in {"absent", "okay"} /\ ~BadRuntimePm(Health.power)
        /\ \A s \in 1..Len(Health.suppliers) : ~BadRuntimePm(Health.suppliers[s])
    BY <2>1 DEF VerdictInv, PastSuppliers, PastPower, PastStatus, OwnerPhases
  <2>3. UNCHANGED <<ChecksHold, Health, GatedMentions(owner)>>
    BY <2>1, SameSystem, SameClocks DEF Health
  <2> QED BY <2>1, <2>2, <2>3
<1> USE DEF Advance, Proceed, Finish
<1>2. CASE ClockLine /\ pc' = "clocks"
  <2>1. sys.debugfs = "summary"
    BY <1>2 DEF ClockLine, VerdictInv
  <2> QED BY <1>1, <1>2, <2>1 DEF VerdictInv, VerdictExact, PastStatus, PastPower, PastSuppliers,
                                  PastClocks, OwnerPhases
<1>3. CASE ClockLine /\ pc' # "clocks"
  <2>1. pc' = "done" /\ verdict' = "clock_gated" /\ sys.debugfs = "summary"
    BY <1>3 DEF ClockLine, VerdictInv
  <2>2. GatedMentions(owner) # {}
    BY <1>1, <2>1 DEF ClocksInv, ClocksExact
  <2>3. ~Healthy(owner)
    BY <2>1, <2>2 DEF Healthy
  <2> QED BY <1>1, <2>1, <2>3, OwnerDecided
<1>4. CASE EndClocks
  <2>1. pc' = "fabric" /\ sys.debugfs = "summary"
    BY <1>4 DEF EndClocks, VerdictInv
  <2>2. GatedMentions(owner)' = {}
    BY <1>1, <2>1 DEF ClocksInv, ClocksExact
  <2> QED BY <1>1, <2>1, <2>2 DEF VerdictInv, VerdictExact, PastStatus, PastPower, PastSuppliers,
                                  PastClocks, OwnerPhases
<1>5. pc \in {"fabric", "managers"} /\ sys.debugfs = "summary" => GatedMentions(owner) = {}
  BY DEF VerdictInv, PastStatus, PastPower, PastSuppliers, PastClocks, OwnerPhases
<1>6. CASE CheckFabric
  <2>1. CASE Health.fpga
    <3>1. pc' = "managers" /\ i' = 1 /\ pc = "fabric"
      BY <1>6, <2>1 DEF CheckFabric
    <3>2. \A m \in 1..Len(sys.managers) : ~(m < 1)
      OBVIOUS
    <3> QED BY <1>1, <1>5, <2>1, <3>1, <3>2 DEF VerdictInv, VerdictExact, PastStatus, PastPower,
                                                PastSuppliers, PastClocks, OwnerPhases
  <2>2. CASE ~Health.fpga
    <3>1. pc' = "done" /\ verdict' = "accept" /\ pc = "fabric"
      BY <1>6, <2>2 DEF CheckFabric
    <3>2. Healthy(owner)
      BY <1>1, <1>5, <2>2, <3>1 DEF Healthy, Health
    <3> QED BY <1>1, <3>1, <3>2, OwnerDecided
  <2> QED BY <2>1, <2>2
<1>7. CASE CheckManager
  <2>1. /\ pc = "managers" /\ Health.fpga /\ i \in Nat \ {0} /\ Len(sys.managers) \in Nat
        /\ \A m \in 1..Len(sys.managers) : m < i => sys.managers[m] # "other"
    <3>1. Len(sys.managers) \in Nat
      BY DEF BaseInv, TypeInv, IsSystem
    <3> QED BY <1>7, <3>1 DEF CheckManager, BaseInv, TypeInv, VerdictInv
  <2>2. CASE i > Len(sys.managers)
    <3>1. pc' = "done" /\ verdict' = "accept"
      BY <1>7, <2>2 DEF CheckManager
    <3>2. \A m \in 1..Len(sys.managers) : sys.managers[m] # "other"
      BY <2>1, <2>2
    <3>3. Healthy(owner)
      BY <1>1, <1>5, <2>1, <3>2 DEF Healthy, Health
    <3> QED BY <1>1, <3>1, <3>3, OwnerDecided
  <2>3. CASE i <= Len(sys.managers) /\ sys.managers[i] = "other"
    <3>1. pc' = "done" /\ verdict' # "accept"
      BY <1>7, <2>1, <2>3 DEF CheckManager
    <3>2. ~Healthy(owner)
      BY <2>1, <2>3 DEF Healthy, Health
    <3> QED BY <1>1, <3>1, <3>2, OwnerDecided
  <2>4. CASE i <= Len(sys.managers) /\ sys.managers[i] # "other"
    <3>1. pc' = "managers" /\ i' = i + 1
      BY <1>7, <2>1, <2>4 DEF CheckManager
    <3>2. \A m \in 1..Len(sys.managers) : m < i + 1 => sys.managers[m] # "other"
      BY <2>1, <2>4
    <3> QED BY <1>1, <1>5, <2>1, <3>1, <3>2 DEF VerdictInv, VerdictExact, PastStatus, PastPower,
                                                PastSuppliers, PastClocks, OwnerPhases
  <2> QED BY <2>1, <2>2, <2>3, <2>4
<1> QED BY <1>2, <1>3, <1>4, <1>6, <1>7

LEMMA NextVerdict ==
    BaseInv /\ IomemInv /\ IomemInv' /\ ClocksInv' /\ VerdictInv /\ [Next]_vars => VerdictInv'
<1> SUFFICES ASSUME BaseInv, IomemInv, IomemInv', ClocksInv', VerdictInv, [Next]_vars
             PROVE  VerdictInv'
  OBVIOUS
<1>1. CASE UNCHANGED vars
  <2>1. UNCHANGED <<sys, window, mapper, owner, pc, i, verdict>>
    BY <1>1 DEF vars
  <2>2. UNCHANGED <<ChecksHold, Health>> /\ VerdictExact' = VerdictExact
    BY <2>1, SameSystem, SameFiles, SameClocks DEF Health, VerdictExact, Check
  <2> QED BY <2>1, <2>2, SameSystem, SameClocks DEF VerdictInv
<1> QED BY <1>1, ProfileKeepsVerdict, SpecKeepsVerdict, SearchKeepsVerdict, BlueprintKeepsVerdict,
           PowerKeepsVerdict, ClocksKeepVerdict DEF Next, Resolving

-----------------------------------------------------------------------------
(* The front ends *)

LEMMA NextUio == BaseInv /\ UioInv /\ [Next]_vars => UioInv'
<1> SUFFICES ASSUME BaseInv, UioInv, [Next]_vars PROVE UioInv'
  OBVIOUS
<1> USE DEF Advance, Proceed, Finish, NamedOnce, RegionReadable, UioWindow, UioInv
<1>1. CASE UNCHANGED vars
  BY <1>1 DEF vars
<1>2. CASE ProfileCheck \/ EndProfile
  BY <1>2 DEF ProfileCheck, EndProfile
<1>3. CASE AddrSpec \/ UioAddrSpec \/ UioRegionSpec \/ UioMockSpec \/ UioSpecFails
  <2>1. mapper = "none"
    BY <1>3 DEF AddrSpec, UioAddrSpec, UioRegionSpec, UioMockSpec, UioSpecFails, BaseInv, TypeInv,
                FreshInv, WindowInv, OwnerPhases, PhaseNames
  <2> QED BY <1>3, <2>1 DEF AddrSpec, UioAddrSpec, UioRegionSpec, UioMockSpec, UioSpecFails
<1>4. CASE ScanMap \/ EndMaps \/ ScanDevice \/ EndDevices
  <2>1. sys.request # "uio"
    BY <1>4 DEF ScanMap, EndMaps, ScanDevice, EndDevices, BaseInv, WindowInv, ByAddress
  <2> QED BY <1>4, <2>1 DEF ScanMap, EndMaps, ScanDevice, EndDevices
<1>5. CASE IomemHidden \/ IomemEntry \/ EndIomem \/ Blueprint
  <2>1. mapper # "none"
    BY <1>5 DEF IomemHidden, IomemEntry, EndIomem, Blueprint, BaseInv, WindowInv
  <2> QED BY <1>5, <2>1 DEF IomemHidden, IomemEntry, EndIomem, Blueprint
<1>6. CASE \/ CheckStatus \/ CheckPower \/ CheckSupplier \/ EndSuppliers
           \/ ClockLine \/ EndClocks \/ CheckFabric \/ CheckManager
  <2>1. /\ mapper # "none" /\ UNCHANGED <<sys, window, mapper, owner>>
        /\ verdict' \in {verdict, "dt_status", "runtime_pm", "supplier_pm", "clock_gated", "accept",
                         "fpga_state"}
    BY <1>6 DEF CheckStatus, CheckPower, CheckSupplier, EndSuppliers, ClockLine, EndClocks,
                CheckFabric, CheckManager, BaseInv, WindowInv, OwnerPhases
  <2> QED BY <2>1
<1> QED BY <1>1, <1>2, <1>3, <1>4, <1>5, <1>6 DEF Next, Resolving

\* The steps at which a front end decides what DeviceBuilder is told.
Prepare == OneShot \/ OpenWithBuilder \/ LoadProfile \/ OpenTarget

\* All others are steps of the decision, or leave it alone.
LEMMA FrontSteps ==
    ASSUME [FNext]_<<vars, fvars>>
    PROVE  [Next]_vars \/ Prepare
<1>1. CASE Resolve \/ RunCheck \/ EndChecks
  BY <1>1 DEF Resolve, RunCheck, EndChecks, Next
<1>2. CASE HelpOrVersion \/ ScanFlag \/ ScanProfile \/ ScanWidth \/ ScanUnknown \/ ScanWord \/ Operands
  BY <1>2 DEF HelpOrVersion, ScanFlag, ScanProfile, ScanWidth, ScanUnknown, ScanWord, Operands
<1>3. CASE InterfaceMap \/ Refuse \/ MapWindow \/ OpenFails \/ Access \/ LockFails
  BY <1>3 DEF InterfaceMap, Refuse, MapWindow, OpenFails, Access, LockFails
<1>4. CASE UNCHANGED <<vars, fvars>>
  BY <1>4
<1> QED BY <1>1, <1>2, <1>3, <1>4 DEF FNext, Prepare

\* What no front end changes of its system.
GivenFields ==
    {"privileged", "uioOwner", "maps", "regs", "iomem", "health", "clocks", "managers", "entry", "op",
     "debug", "line", "files", "profiles", "named", "memory", "flags", "regionIndex", "regions",
     "registers", "debugfs"}

LEMMA StillCaller ==
    ASSUME IsCaller(sys), NEW s, DOMAIN s = Fields,
           \A f \in GivenFields : s[f] = sys[f],
           s.request \in {"auto", "devmem", "uio", "uio_at"}, s.base \in Nat, s.size \in Nat,
           s.force \in BOOLEAN, s.custom \in BOOLEAN, s.readOnly \in BOOLEAN, IsRegion(s.region),
           s.profile \in Seq(RegisterChecks),
           \A k \in 1..Len(s.profile) : s.profile[k].readable => Reachable(sys, s.profile[k].addr)
    PROVE  IsCaller(s)
<1>1. /\ s.privileged = sys.privileged /\ s.uioOwner = sys.uioOwner /\ s.maps = sys.maps
      /\ s.regs = sys.regs /\ s.iomem = sys.iomem /\ s.health = sys.health
      /\ s.clocks = sys.clocks /\ s.managers = sys.managers
  BY DEF GivenFields
<1>2. /\ s.entry = sys.entry /\ s.op = sys.op /\ s.debug = sys.debug /\ s.line = sys.line
      /\ s.files = sys.files /\ s.memory = sys.memory /\ s.regionIndex = sys.regionIndex
      /\ s.regions = sys.regions
  BY DEF GivenFields
<1>3. IsSystem(s)
  BY <1>1 DEF IsCaller, IsSystem
<1>4. \A addr : Reachable(s, addr) <=> Reachable(sys, addr)
  BY <1>1, <1>2 DEF Reachable
<1> QED BY <1>2, <1>3, <1>4 DEF IsCaller

LEMMA FunctionIsSeq ==
    ASSUME NEW S, NEW n \in Nat, NEW f \in [1..n -> S]
    PROVE  f \in Seq(S)
<1>1. f \in UNION {[1..m -> S] : m \in Nat}
  OBVIOUS
<1> QED BY <1>1, SeqDef

\* What is told to DeviceBuilder is what a caller may ask for, and its checks are
\* yet to be made or, on the command line, have been made.
Configures ==
    /\ IsCaller(sys)'
    /\ \A f \in GivenFields : sys'[f] = sys[f]
    /\ pc = "profile" /\ pc' \in {"profile", "spec"} /\ i' = 1
    /\ UNCHANGED <<mapper, owner, listed, pending, row, warnings, verdict, op, log>>
    /\ sys'.request # "uio" => window' = [base |-> sys'.base, size |-> sys'.size]
    /\ pc' = "spec" => UNCHANGED ChecksHold /\ ChecksHold

LEMMA PrepareKeeps ==
    ASSUME BaseInv, FrontInv, Prepare
    PROVE  UNCHANGED vars \/ Configures
<1> USE DEF FrontInv, FrontType, CliTypes, IsAccess
<1>1. IsCaller(sys) /\ DOMAIN sys = Fields
  BY DEF IsCaller
<1>2. /\ sys.request \in {"auto", "devmem", "uio", "uio_at"} /\ sys.base \in Nat /\ sys.size \in Nat
      /\ sys.force \in BOOLEAN /\ sys.custom \in BOOLEAN /\ sys.readOnly \in BOOLEAN
      /\ IsRegion(sys.region)
      /\ sys.profile \in Seq(RegisterChecks)
      /\ \A k \in 1..Len(sys.profile) : sys.profile[k].readable => Reachable(sys, sys.profile[k].addr)
  BY DEF IsCaller, IsSystem
<1>3. sys.request # "uio" => window = [base |-> sys.base, size |-> sys.size]
  BY DEF BaseInv, WindowInv
<1>4. step \in Preparing => pc = "profile" /\ i = 1
  BY DEF StepInv
<1>5. step = "load" => pc = "profile" /\ ChecksHold
  BY DEF StepInv
<1>6. CASE OneShot
  <2>1. step = "oneshot" /\ UNCHANGED <<pc, i, mapper, owner, listed, pending, row, warnings, verdict, op, log>>
    BY <1>6 DEF OneShot
  <2>2. CASE UNCHANGED <<sys, window>>
    BY <2>1, <2>2 DEF vars
  <2>3. CASE Request([sys EXCEPT !.request = "auto", !.size = 4, !.readOnly = ~op.write])
    <3>1. /\ DOMAIN sys' = Fields /\ \A f \in GivenFields : sys'[f] = sys[f]
          /\ sys'.request = "auto" /\ sys'.size = 4 /\ sys'.readOnly = ~op.write
          /\ sys'.base = sys.base /\ sys'.force = sys.force /\ sys'.custom = sys.custom
          /\ sys'.region = sys.region /\ sys'.profile = sys.profile
      BY <1>1, <2>3 DEF Request, Fields, GivenFields
    <3>2. IsCaller(sys')
      <4>1. /\ sys'.request \in {"auto", "devmem", "uio", "uio_at"} /\ sys'.base \in Nat /\ sys'.size \in Nat
            /\ sys'.force \in BOOLEAN /\ sys'.custom \in BOOLEAN
        BY <1>2, <3>1
      <4>2. sys'.readOnly \in BOOLEAN
        BY <3>1
      <4>3. IsRegion(sys'.region)
        BY <1>2, <3>1
      <4>4. /\ sys'.profile \in Seq(RegisterChecks)
            /\ \A k \in 1..Len(sys'.profile) : sys'.profile[k].readable => Reachable(sys, sys'.profile[k].addr)
        BY <1>2, <3>1
      <4> QED BY <1>1, <3>1, <4>1, <4>2, <4>3, <4>4, StillCaller
    <3>3. window' = [base |-> sys'.base, size |-> sys'.size]
      BY <2>3 DEF Request
    <3> QED BY <1>4, <2>1, <3>1, <3>2, <3>3 DEF Preparing, Configures
  <2> QED BY <1>6, <2>2, <2>3 DEF OneShot
<1>7. CASE OpenWithBuilder
  <2>1. step = "capi" /\ UNCHANGED <<pc, i, mapper, owner, listed, pending, row, warnings, verdict, op, log>>
    BY <1>7 DEF OpenWithBuilder
  <2>2. CASE UNCHANGED <<sys, window>>
    BY <2>1, <2>2 DEF vars
  <2>3. CASE Request([sys EXCEPT !.readOnly = "rdonly" \in sys.flags,
                                 !.force = "force" \in sys.flags,
                                 !.custom = "mock" \in sys.flags,
                                 !.region = Region(sys.regionIndex)])
    <3>1. /\ DOMAIN sys' = Fields /\ \A f \in GivenFields : sys'[f] = sys[f]
          /\ sys'.request = sys.request /\ sys'.base = sys.base /\ sys'.size = sys.size
          /\ sys'.region = Region(sys.regionIndex) /\ sys'.profile = sys.profile
      BY <1>1, <2>3 DEF Request, Fields, GivenFields
    <3>2. sys'.readOnly \in BOOLEAN /\ sys'.force \in BOOLEAN /\ sys'.custom \in BOOLEAN
      BY <1>1, <2>3 DEF Request, Fields
    <3>3. IsRegion(Region(sys.regionIndex))
      <4>1. /\ sys.regionIndex \in Nat /\ Len(sys.regions) \in Nat
            /\ \A k \in 1..Len(sys.regions) : IsRegion(sys.regions[k])
        BY DEF IsCaller
      <4>2. CASE sys.regionIndex < Len(sys.regions)
        <5>1. sys.regionIndex + 1 \in 1..Len(sys.regions)
          BY <4>1, <4>2
        <5> QED BY <4>1, <4>2, <5>1 DEF Region
      <4>3. CASE ~(sys.regionIndex < Len(sys.regions))
        <5>1. 0 <= Top
          BY <1>2, TopType DEF IsRegion
        <5> QED BY <4>3, <5>1, TopType DEF Region, IsRegion
      <4> QED BY <4>2, <4>3
    <3>4. /\ sys'.request \in {"auto", "devmem", "uio", "uio_at"} /\ sys'.base \in Nat /\ sys'.size \in Nat
          /\ IsRegion(sys'.region) /\ sys'.profile \in Seq(RegisterChecks)
          /\ \A k \in 1..Len(sys'.profile) : sys'.profile[k].readable => Reachable(sys, sys'.profile[k].addr)
      BY <1>2, <3>1, <3>3
    <3>5. IsCaller(sys')
      BY <1>1, <3>1, <3>2, <3>4, StillCaller
    <3>6. window' = [base |-> sys'.base, size |-> sys'.size]
      BY <2>3 DEF Request
    <3> QED BY <1>4, <2>1, <3>1, <3>5, <3>6 DEF Preparing, Configures
  <2> QED BY <1>7, <2>2, <2>3 DEF OpenWithBuilder
<1>8. CASE LoadProfile
  <2>1. /\ step = "load" /\ cli.paths # <<>>
        /\ UNCHANGED <<pc, window, mapper, owner, listed, pending, row, warnings, verdict, op, log>>
    BY <1>8 DEF LoadProfile
  <2>2. CASE ChecksOf(Head(cli.paths)) = {}
    <3>1. UNCHANGED <<sys, i>>
      BY <1>8, <2>2 DEF LoadProfile
    <3> QED BY <2>1, <3>1 DEF vars
  <2>3. CASE ChecksOf(Head(cli.paths)) # {}
    <3>1. /\ i' = 1
          /\ \E checks \in ChecksOf(Head(cli.paths)) :
                sys' = [sys EXCEPT !.profile = [k \in 1..Len(checks) |-> Prepared(checks[k])]]
      BY <1>8, <2>3 DEF LoadProfile
    <3>2. PICK checks \in ChecksOf(Head(cli.paths)) :
             sys' = [sys EXCEPT !.profile = [k \in 1..Len(checks) |-> Prepared(checks[k])]]
      BY <3>1
    <3>3. checks \in Seq([CheckKeys -> Nat])
      <4>1. PICK n \in DOMAIN Contents : checks \in ParseProfile(Contents[n])
        BY <3>2 DEF ChecksOf, IsCaller
      <4> QED BY <4>1, ContentsAssumption, ProfileExact
    <3>4. /\ DOMAIN sys' = Fields /\ \A f \in GivenFields : sys'[f] = sys[f]
          /\ sys'.request = sys.request /\ sys'.base = sys.base /\ sys'.size = sys.size
          /\ sys'.readOnly = sys.readOnly /\ sys'.force = sys.force /\ sys'.custom = sys.custom
          /\ sys'.region = sys.region
          /\ sys'.profile = [k \in 1..Len(checks) |-> Prepared(checks[k])]
      BY <1>1, <3>2 DEF Fields, GivenFields
    <3>5. \A k \in 1..Len(checks) :
              /\ Prepared(checks[k]) \in RegisterChecks
              /\ Prepared(checks[k]).readable => Reachable(sys, Prepared(checks[k]).addr)
      <4> SUFFICES ASSUME NEW k \in 1..Len(checks)
                   PROVE  /\ Prepared(checks[k]) \in RegisterChecks
                          /\ Prepared(checks[k]).readable => Reachable(sys, Prepared(checks[k]).addr)
        OBVIOUS
      <4>1. checks[k] \in [CheckKeys -> Nat]
        BY <3>3
      <4>2. checks[k].addr \in Nat
        BY <4>1 DEF CheckKeys
      <4>3. \A v : Bits(v) \subseteq Nat
        BY PreflightAssumption DEF Bits
      <4>4. Readable(checks[k].addr) \in BOOLEAN
        BY DEF Readable, Reachable
      <4>5. (IF Readable(checks[k].addr) THEN sys.memory[checks[k].addr] ELSE {}) \subseteq Nat
        BY DEF Readable, IsCaller
      <4>6. Prepared(checks[k]).readable => Reachable(sys, Prepared(checks[k]).addr)
        BY DEF Prepared, Readable
      <4> QED BY <4>2, <4>3, <4>4, <4>5, <4>6 DEF Prepared, RegisterChecks
    <3>6. /\ sys'.profile \in Seq(RegisterChecks)
          /\ \A k \in 1..Len(sys'.profile) : sys'.profile[k].readable => Reachable(sys, sys'.profile[k].addr)
      <4>1. Len(checks) \in Nat
        BY <3>3
      <4>2. sys'.profile \in [1..Len(checks) -> RegisterChecks]
        BY <3>4, <3>5
      <4>3. sys'.profile \in Seq(RegisterChecks)
        BY <4>1, <4>2, FunctionIsSeq
      <4>4. Len(sys'.profile) \in Nat /\ 1..Len(sys'.profile) = 1..Len(checks)
        BY <3>4, <4>3, LenProperties
      <4> QED BY <3>4, <3>5, <4>3, <4>4
    <3>7. IsCaller(sys')
      BY <1>1, <1>2, <3>4, <3>6, StillCaller
    <3> QED BY <1>3, <1>5, <2>1, <3>1, <3>4, <3>7 DEF Configures
  <2> QED BY <2>2, <2>3
<1>9. CASE OpenTarget
  <2>1. step = "load" /\ UNCHANGED <<mapper, owner, listed, pending, row, warnings, verdict, op, log>>
    BY <1>9 DEF OpenTarget
  <2>2. CASE UNCHANGED <<sys, window, pc, i>>
    BY <2>1, <2>2 DEF vars
  <2>3. CASE /\ Request([sys EXCEPT !.request = IF op.uio THEN "uio" ELSE "auto",
                                   !.base = op.base, !.size = op.bytes,
                                   !.matches = Matches(op.name),
                                   !.force = cli.force, !.readOnly = ~op.write])
             /\ pc' = "spec" /\ i' = 1
    <3>1. /\ DOMAIN sys' = Fields /\ \A f \in GivenFields : sys'[f] = sys[f]
          /\ sys'.request = IF op.uio THEN "uio" ELSE "auto"
          /\ sys'.base = op.base /\ sys'.size = op.bytes /\ sys'.force = cli.force
          /\ sys'.readOnly = ~op.write /\ sys'.custom = sys.custom
          /\ sys'.region = sys.region /\ sys'.profile = sys.profile
      BY <1>1, <2>3 DEF Request, Fields, GivenFields
    <3>2. /\ sys'.request \in {"auto", "devmem", "uio", "uio_at"}
          /\ sys'.base \in Nat /\ sys'.size \in Nat
      BY <3>1 DEF Reg!Widths
    <3>3. sys'.force \in BOOLEAN
      BY <3>1
    <3>4. sys'.readOnly \in BOOLEAN
      BY <3>1
    <3>5. /\ IsRegion(sys'.region) /\ sys'.profile \in Seq(RegisterChecks) /\ sys'.custom \in BOOLEAN
          /\ \A k \in 1..Len(sys'.profile) : sys'.profile[k].readable => Reachable(sys, sys'.profile[k].addr)
      BY <1>2, <3>1
    <3>6. IsCaller(sys')
      BY <1>1, <3>1, <3>2, <3>3, <3>4, <3>5, StillCaller
    <3>7. window' = [base |-> sys'.base, size |-> sys'.size]
      BY <2>3 DEF Request
    <3>8. ChecksHold' = ChecksHold
      BY <3>1 DEF ChecksHold, ProfilePasses
    <3> QED BY <1>5, <2>1, <2>3, <3>1, <3>6, <3>7, <3>8 DEF Configures
  <2> QED BY <1>9, <2>2, <2>3 DEF OpenTarget
<1> QED BY <1>6, <1>7, <1>8, <1>9 DEF Prepare

LEMMA ConfiguresKeeps ==
    ASSUME BaseInv, OwnerInv, IomemInv, ClocksInv, VerdictInv, UioInv, Configures
    PROVE  BaseInv' /\ OwnerInv' /\ IomemInv' /\ ClocksInv' /\ VerdictInv' /\ UioInv'
<1>1. /\ pc = "profile" /\ pc' \in {"profile", "spec"} /\ i' = 1
      /\ UNCHANGED <<mapper, owner, listed, pending, row, warnings, verdict>>
      /\ mapper = "none" /\ owner = NoDevice /\ verdict = "none" /\ row = 0 /\ warnings = 0
  BY DEF Configures, BaseInv, TypeInv, FreshInv
<1>2. BaseInv'
  <2>1. IsSystem(sys)'
    BY DEF Configures, IsCaller
  <2>2. sys'.request # "uio" => window' = [base |-> sys'.base, size |-> sys'.size]
    BY DEF Configures
  <2>3. TypeInv' /\ FreshInv'
    BY <1>1, <2>1 DEF BaseInv, TypeInv, FreshInv, PhaseNames
  <2>4. WindowInv'
    BY <1>1, <2>2 DEF WindowInv, OwnerPhases
  <2> QED BY <2>3, <2>4 DEF BaseInv
<1>3. OwnerInv' /\ UioInv'
  BY <1>1 DEF OwnerInv, RightOwner, UioInv
<1>4. IomemInv' /\ ClocksInv'
  BY <1>1 DEF IomemInv, IomemExact, ClocksInv, ClocksExact, OwnerPhases
<1>5. VerdictInv'
  <2>1. \A k \in 1..Len(sys'.profile) : ~(k < 1)
    OBVIOUS
  <2>2. pc' = "spec" => ChecksHold'
    BY DEF Configures
  <2> QED BY <1>1, <2>1, <2>2 DEF VerdictInv, VerdictExact, PastStatus, PastPower, PastSuppliers,
                              PastClocks, OwnerPhases
<1> QED BY <1>2, <1>3, <1>4, <1>5

\* The decision's own invariants hold in every front end.
DecisionInv == BaseInv /\ OwnerInv /\ IomemInv /\ ClocksInv /\ VerdictInv /\ UioInv

LEMMA NextDecision == DecisionInv /\ FrontInv /\ [FNext]_<<vars, fvars>> => DecisionInv'
<1> SUFFICES ASSUME DecisionInv, FrontInv, [FNext]_<<vars, fvars>> PROVE DecisionInv'
  OBVIOUS
<1>1. [Next]_vars \/ Configures
  BY FrontSteps, PrepareKeeps DEF DecisionInv
<1>2. CASE [Next]_vars
  <2>1. BaseInv' /\ OwnerInv' /\ IomemInv' /\ ClocksInv' /\ UioInv'
    BY <1>2, NextBase, NextOwner, NextIomem, NextClocks, NextUio DEF DecisionInv
  <2> QED BY <1>2, <2>1, NextVerdict DEF DecisionInv
<1>3. CASE Configures
  BY <1>3, ConfiguresKeeps DEF DecisionInv
<1> QED BY <1>1, <1>2, <1>3

\* What a step of a front end never changes.
LEMMA SameGiven ==
    ASSUME DecisionInv, FrontInv, [FNext]_<<vars, fvars>>
    PROVE  /\ IsCaller(sys)'
           /\ UNCHANGED <<sys.maps, sys.debug, sys.entry, LineTokens>>
           /\ step \notin Preparing => UNCHANGED sys.region
<1>1. [Next]_vars \/ Configures
  BY FrontSteps, PrepareKeeps DEF DecisionInv
<1>2. CASE [Next]_vars
  <2>1. sys' = sys
    BY <1>2 DEF Next, Resolving, vars, ProfileCheck, EndProfile, AddrSpec, UioAddrSpec, UioRegionSpec,
       UioMockSpec, UioSpecFails, ScanMap, EndMaps, ScanDevice, EndDevices, IomemHidden, IomemEntry,
       EndIomem, Blueprint, CheckStatus, CheckPower, CheckSupplier, EndSuppliers, ClockLine, EndClocks,
       CheckFabric, CheckManager
  <2>2. IsCaller(sys)
    BY DEF FrontInv, FrontType
  <2>3. IsCaller(sys)'
    BY <2>1, <2>2
  <2> QED BY <2>1, <2>3 DEF LineTokens, Line
<1>3. CASE Configures
  <2>1. UNCHANGED <<sys.maps, sys.debug, sys.entry, sys.line>>
    BY <1>3 DEF Configures, GivenFields
  <2>2. step \notin Preparing => UNCHANGED sys.region
    <3>1. CASE LoadProfile \/ OpenTarget
      BY <3>1 DEF LoadProfile, OpenTarget, Request, FrontInv, FrontType, IsCaller, Fields
    <3>2. CASE OneShot \/ OpenWithBuilder
      BY <3>2 DEF OneShot, OpenWithBuilder, Preparing
    <3>3. CASE ~Prepare
      <4>1. [Next]_vars
        BY <3>3, FrontSteps
      <4> QED BY <4>1, <1>2
    <3> QED BY <3>1, <3>2, <3>3 DEF Prepare
  <2> QED BY <1>3, <2>1, <2>2 DEF Configures, LineTokens, Line
<1> QED BY <1>1, <1>2, <1>3

\* The words of a line that names a target are numbers in range.
LEMMA TargetType ==
    ASSUME FrontType, UsageError(cli.words) = "ok", NEW a \in Targets(cli.words)
    PROVE  IsAccess(a)
<1> DEFINE w == cli.words
<1>1. w \in Seq(LineTokens) /\ cli.radix \in {10, 16} /\ cli.bytes \in Reg!Widths
  BY DEF FrontType, CliTypes
<1> HIDE DEF w
<1>2. /\ w # <<>> /\ Len(w) # 1 /\ ~(Len(w) < AddressWords(w))
      /\ ~(Len(w) > UioWords(w))
  <2>1. UsageError(w) = "ok"
    BY DEF w
  <2> QED BY <2>1 DEF UsageError
<1>3. Len(w) \in Nat /\ Len(w) >= 2 /\ (Len(w) = UioWords(w) => Len(w) >= 3)
  <2>1. Len(w) \in Nat /\ UioWords(w) \in {3, 4}
    BY <1>1 DEF UioWords
  <2> QED BY <1>2, <2>1 DEF AddressWords
<1>4. \A k \in 1..Len(w) : ParseNumber(w[k], cli.radix, Top) \subseteq Nat
  <2>1. \A k \in 1..Len(w) : w[k] \in LineTokens
    BY <1>1
  <2> QED BY <1>1, <2>1 DEF FrontType
<1>5. /\ ParseAddress(w[2]) \subseteq Nat
      /\ Len(w) = UioWords(w) => ParseOffset(w[3]) \subseteq Nat
      /\ ParseValue(w[Len(w)]) \subseteq Nat
  <2>1. 2 \in 1..Len(w) /\ Len(w) \in 1..Len(w) /\ (Len(w) = UioWords(w) => 3 \in 1..Len(w))
    BY <1>3
  <2> QED BY <1>4, <2>1 DEF ParseAddress, ParseOffset, ParseValue
<1>6. PICK b \in IF Len(w) = UioWords(w) THEN {0} ELSE ParseAddress(w[2]),
           o \in IF Len(w) = UioWords(w) THEN ParseOffset(w[3]) ELSE {0},
           v \in IF w[1].text = "write" THEN ParseValue(w[Len(w)]) ELSE {0} :
           a = [uio |-> Len(w) = UioWords(w), base |-> b, name |-> w[2].text, offset |-> o,
                bytes |-> cli.bytes, write |-> w[1].text = "write", value |-> v]
  BY DEF Targets, w
<1>7. b \in Nat /\ o \in Nat /\ v \in Nat
  BY <1>5, <1>6
<1> QED BY <1>1, <1>6, <1>7 DEF IsAccess

\* An option and its argument, or a word, is read off the line.
LEMMA ScanKeepsCli ==
    ASSUME FrontType, UNCHANGED LineTokens, ScanFlag \/ ScanProfile \/ ScanWidth \/ ScanWord
    PROVE  cli' \in CliTypes'
<1> DEFINE texts == {token.text : token \in LineTokens}
           P == Seq(texts)
           W == Seq(LineTokens)
           C == [at : Nat \ {0}, force : BOOLEAN, radix : {10, 16}, bytes : Reg!Widths,
                 paths : P, words : W]
<1>1. CliTypes' = C /\ cli \in C
  BY DEF CliTypes, FrontType
<1>2. Len(sys.line) \in Nat /\ cli.at \in Nat \ {0}
  BY DEF FrontType, CliTypes, IsCaller
<1>3. cli.at <= Len(sys.line) => Token \in LineTokens
  BY <1>2 DEF Token, LineTokens, Line
<1>4. Argument \subseteq LineTokens
  BY DEF Argument, LineTokens, Line
<1>5. cli.paths \in P /\ cli.words \in W
  BY <1>1
<1>6. \A path \in Argument : Append(cli.paths, path.text) \in P
  <2>1. \A path \in Argument : path.text \in texts
    BY <1>4
  <2> HIDE DEF texts
  <2> QED BY <1>5, <2>1
<1>7. cli.at <= Len(sys.line) => Append(cli.words, Token) \in W
  BY <1>3, <1>5
<1> HIDE DEF P, W, texts
<1>8. cli.at + 1 \in Nat \ {0} /\ cli.at + 2 \in Nat \ {0}
  BY <1>2
<1>9. ASSUME NEW c \in C
      PROVE  /\ \A n \in Nat \ {0} : [c EXCEPT !.at = n] \in C
             /\ \A f \in BOOLEAN : [c EXCEPT !.force = f] \in C
             /\ \A n \in {10, 16} : [c EXCEPT !.radix = n] \in C
             /\ \A n \in Reg!Widths : [c EXCEPT !.bytes = n] \in C
             /\ \A q \in P : [c EXCEPT !.paths = q] \in C
             /\ \A q \in W : [c EXCEPT !.words = q] \in C
  OBVIOUS
<1> HIDE DEF C
<1>10. CASE ScanFlag
  <2> DEFINE at == cli.at + 1
             force == cli.force \/ Token.text = "-f"
             radix == IF Token.text = "-d" THEN 10 ELSE cli.radix
  <2>1. force \in BOOLEAN
    OBVIOUS
  <2>2. radix \in {10, 16}
    BY <1>1 DEF C
  <2>3. cli' = [[[cli EXCEPT !.at = at] EXCEPT !.force = force] EXCEPT !.radix = radix]
    <3>1. cli' = [cli EXCEPT !.at = @ + 1, !.force = @ \/ Token.text = "-f",
                             !.radix = IF Token.text = "-d" THEN 10 ELSE @]
      BY <1>10 DEF ScanFlag
    <3> QED BY <3>1, Zenon
  <2> HIDE DEF at, force, radix
  <2>4. [cli EXCEPT !.at = at] \in C
    BY <1>1, <1>8, <1>9 DEF at
  <2>5. [[cli EXCEPT !.at = at] EXCEPT !.force = force] \in C
    BY <1>9, <2>1, <2>4
  <2> QED BY <1>1, <1>9, <2>2, <2>3, <2>5
<1>11. CASE ScanProfile
  <2>1. CASE cli' = cli
    BY <1>1, <2>1
  <2>2. CASE \E path \in Argument : cli' = [cli EXCEPT !.at = @ + 2, !.paths = Append(@, path.text)]
    <3>1. PICK path \in Argument : cli' = [cli EXCEPT !.at = @ + 2, !.paths = Append(@, path.text)]
      BY <2>2
    <3> DEFINE at == cli.at + 2
               paths == Append(cli.paths, path.text)
    <3>2. cli' = [[cli EXCEPT !.at = at] EXCEPT !.paths = paths]
      BY <3>1, Zenon
    <3>3. at \in Nat \ {0} /\ paths \in P
      BY <1>6, <1>8
    <3> HIDE DEF at, paths
    <3>4. [cli EXCEPT !.at = at] \in C
      BY <1>1, <1>9, <3>3
    <3> QED BY <1>1, <1>9, <3>2, <3>3, <3>4
  <2> QED BY <1>11, <2>1, <2>2 DEF ScanProfile
<1>12. CASE ScanWidth
  <2>1. \A raw : ParseWidth(raw) \subseteq Reg!Widths
    BY DEF ParseWidth
  <2>2. CASE cli' = cli
    BY <1>1, <2>2
  <2>3. CASE \E raw \in Argument : \E bytes \in ParseWidth(raw) :
               cli' = [cli EXCEPT !.at = @ + 2, !.bytes = bytes]
    <3>1. PICK bytes \in Reg!Widths : cli' = [cli EXCEPT !.at = @ + 2, !.bytes = bytes]
      BY <2>1, <2>3
    <3> DEFINE at == cli.at + 2
    <3>2. cli' = [[cli EXCEPT !.at = at] EXCEPT !.bytes = bytes]
      BY <3>1, Zenon
    <3>3. at \in Nat \ {0}
      BY <1>8
    <3> HIDE DEF at
    <3>4. [cli EXCEPT !.at = at] \in C
      BY <1>1, <1>9, <3>3
    <3>5. \A n \in Reg!Widths : [[cli EXCEPT !.at = at] EXCEPT !.bytes = n] \in C
      BY <1>9, <3>4
    <3>6. cli' \in C
      BY <3>1, <3>2, <3>5, Zenon
    <3> QED BY <1>1, <3>6
  <2> QED BY <1>12, <2>2, <2>3 DEF ScanWidth
<1>13. CASE ScanWord
  <2> DEFINE at == cli.at + 1
             words == Append(cli.words, Token)
  <2>1. cli' = [[cli EXCEPT !.at = at] EXCEPT !.words = words]
    BY <1>13, Zenon DEF ScanWord
  <2>2. at \in Nat \ {0} /\ words \in W
    BY <1>7, <1>8, <1>13 DEF ScanWord, Scanning
  <2> HIDE DEF at, words
  <2>3. [cli EXCEPT !.at = at] \in C
    BY <1>1, <1>9, <2>2
  <2> QED BY <1>1, <1>9, <2>1, <2>2, <2>3
<1> QED BY <1>10, <1>11, <1>12, <1>13

LEMMA SmallRemainder ==
    ASSUME NEW a \in Nat, NEW n \in Nat, a < n
    PROVE  a % n = a
<1> QED OBVIOUS

\* A window that open() accepts is a real one, whichever way it was named.
LEMMA AcceptedWindow ==
    ASSUME DecisionInv, IsCaller(sys), verdict = "accept"
    PROVE  window.base \in Nat /\ window.size \in Nat /\ WindowWarranted
<1>1. pc = "done" /\ mapper # "none" /\ RequestValid
  BY DEF DecisionInv, BaseInv, TypeInv, UioInv, VerdictInv, VerdictExact, RequestValid
<1>2. CASE sys.request # "uio"
  <2>1. /\ window = [base |-> sys.base, size |-> sys.size] /\ sys.size > 0
        /\ sys.base \in Nat /\ sys.size \in Nat
    BY <1>1, <1>2 DEF DecisionInv, BaseInv, TypeInv, WindowInv, RequestValid, IsSystem
  <2> QED BY <1>2, <2>1 DEF WindowWarranted
<1>3. CASE sys.request = "uio"
  <2>1. window = IF NamedOnce /\ RegionReadable THEN UioWindow(sys.region)
                 ELSE [base |-> 0, size |-> Page]
    BY <1>1, <1>3 DEF DecisionInv, UioInv
  <2>2. CASE NamedOnce /\ RegionReadable
    <3> DEFINE r == sys.region
    <3>1. r.addr \in Nat /\ r.size \in Nat /\ r.offset \in Nat /\ r.addr + r.size <= Top /\ r.size > 0
      BY <2>2 DEF IsCaller, IsRegion, RegionReadable
    <3>2. window = UioWindow(r)
      BY <2>1, <2>2
    <3> HIDE DEF r
    <3>3. CASE r.addr % Page = 0 /\ r.offset > 0 /\ r.offset < r.size
      <4>1. window = [base |-> (r.addr + r.offset) % Top, size |-> r.size - r.offset]
        BY <3>2, <3>3 DEF UioWindow
      <4>2. r.addr + r.offset \in Nat /\ Top \in Nat /\ r.addr + r.offset < Top
        BY <3>1, <3>3, TopType
      <4>3. (r.addr + r.offset) % Top = r.addr + r.offset
        BY <4>2, SmallRemainder
      <4>4. window.base = r.addr + r.offset /\ window.size = r.size - r.offset
        BY <4>1, <4>3
      <4> QED BY <1>3, <3>1, <3>3, <4>4 DEF WindowWarranted, r
    <3>4. CASE ~(r.addr % Page = 0 /\ r.offset > 0 /\ r.offset < r.size)
      <4>1. window = [base |-> r.addr, size |-> r.size]
        BY <3>2, <3>4 DEF UioWindow
      <4> QED BY <1>3, <3>1, <4>1 DEF WindowWarranted, r
    <3> QED BY <3>3, <3>4
  <2>3. CASE ~(NamedOnce /\ RegionReadable)
    <3>1. window = [base |-> 0, size |-> Page] /\ Page \in Nat \ {0}
      BY <2>1, <2>3, PreflightAssumption
    <3> QED BY <1>3, <2>3, <3>1 DEF WindowWarranted, NamedOnce, RegionReadable
  <2> QED BY <2>2, <2>3
<1> QED BY <1>2, <1>3

\* Every step of a front end but these leaves the line, the access and the log alone.
LEMMA QuietSteps ==
    ASSUME [FNext]_<<vars, fvars>>
    PROVE  /\ \/ ScanFlag \/ ScanProfile \/ ScanWidth \/ ScanWord
              \/ LoadProfile \/ UNCHANGED cli
           /\ Operands \/ UNCHANGED op
           /\ RunCheck \/ Access \/ UNCHANGED log
<1>1. CASE OneShot \/ InterfaceMap \/ OpenWithBuilder \/ LoadProfile \/ OpenTarget
  BY <1>1 DEF OneShot, InterfaceMap, OpenWithBuilder, LoadProfile, OpenTarget
<1>2. CASE HelpOrVersion \/ ScanFlag \/ ScanProfile \/ ScanWidth \/ ScanUnknown \/ ScanWord \/ Operands
  BY <1>2 DEF HelpOrVersion, ScanFlag, ScanProfile, ScanWidth, ScanUnknown, ScanWord, Operands
<1>3. CASE RunCheck \/ EndChecks \/ Resolve \/ Refuse
  BY <1>3 DEF RunCheck, EndChecks, Resolve, fvars, Refuse
<1>4. CASE MapWindow \/ OpenFails \/ Access \/ LockFails
  BY <1>4 DEF MapWindow, OpenFails, Access, LockFails
<1>5. CASE UNCHANGED <<vars, fvars>>
  BY <1>5 DEF fvars
<1> QED BY <1>1, <1>2, <1>3, <1>4, <1>5 DEF FNext

LEMMA NextCli ==
    ASSUME FrontType, UNCHANGED LineTokens, [FNext]_<<vars, fvars>>
    PROVE  cli' \in CliTypes'
<1>1. CASE UNCHANGED cli
  BY <1>1 DEF FrontType, CliTypes
<1>2. CASE LoadProfile
  <2> DEFINE P == Seq({token.text : token \in LineTokens})
  <2>1. CliTypes' = CliTypes /\ cli \in CliTypes /\ cli.paths \in P
    BY DEF CliTypes, FrontType
  <2>2. cli.paths # <<>> => Tail(cli.paths) \in P
    BY <2>1
  <2>3. cli' \in {cli, [cli EXCEPT !.paths = Tail(@)]} /\ cli.paths # <<>>
    BY <1>2 DEF LoadProfile
  <2> HIDE DEF P
  <2> QED BY <2>1, <2>2, <2>3, Zenon DEF CliTypes, P
<1> QED BY <1>1, <1>2, QuietSteps, ScanKeepsCli

LEMMA NextOp ==
    ASSUME FrontType, [FNext]_<<vars, fvars>>
    PROVE  IsAccess(op)'
<1>1. CASE UNCHANGED op
  BY <1>1 DEF FrontType
<1>2. CASE Operands
  <2>1. UNCHANGED op \/ (UsageError(cli.words) = "ok" /\ op' \in Targets(cli.words))
    BY <1>2 DEF Operands
  <2> QED BY <1>1, <2>1, TargetType
<1> QED BY <1>1, <1>2, QuietSteps

\* The access that a check of a profile makes, and the one that was asked for.
LEMMA RunCheckAccess ==
    ASSUME FrontType, BaseInv, RunCheck
    PROVE  /\ i \in 1..Len(sys.profile) /\ sys.profile[i].addr \in Nat
           /\ \/ UNCHANGED log
              \/ /\ sys.profile[i].readable
                 /\ log' = Append(log, [addr |-> sys.profile[i].addr, bytes |-> 4,
                                        write |-> FALSE, value |-> 0])
<1>1. sys.profile \in Seq(RegisterChecks) /\ i \in Nat \ {0}
  BY DEF BaseInv, TypeInv, IsSystem
<1>2. i <= Len(sys.profile)
  BY DEF RunCheck, ProfileCheck
<1>3. i \in 1..Len(sys.profile)
  BY <1>1, <1>2
<1>4. sys.profile[i] \in RegisterChecks
  BY <1>1, <1>3
<1> QED BY <1>3, <1>4 DEF RunCheck, RegisterChecks

LEMMA AccessMade ==
    ASSUME FrontType, Access
    PROVE  /\ UNCHANGED vars /\ exit' = AccessError
           /\ AccessError = "ok" =>
                /\ (window.base + op.offset) % op.bytes = 0
                /\ ~(op.offset + op.bytes > window.size)
                /\ op.write => ~sys.readOnly
           /\ log' = IF AccessError # "ok" \/ sys.custom THEN log
                     ELSE Append(log, [addr |-> window.base + op.offset, bytes |-> op.bytes,
                                       write |-> op.write, value |-> op.value])
<1>1. AccessError = "ok" =>
        /\ (window.base + op.offset) % op.bytes = 0
        /\ ~(op.offset + op.bytes > window.size)
        /\ op.write => ~sys.readOnly
  BY DEF AccessError, Reg!CheckAccess, Reg!Unaligned
<1> QED BY <1>1 DEF Access, Leave

LEMMA NextLogType ==
    ASSUME DecisionInv, FrontInv, [FNext]_<<vars, fvars>>
    PROVE  log' \in Seq(Accesses)
<1>1. log \in Seq(Accesses) /\ IsAccess(op) /\ IsCaller(sys)
  BY DEF FrontInv, FrontType
<1>2. CASE RunCheck
  <2>1. sys.profile[i].addr \in Nat => [addr |-> sys.profile[i].addr, bytes |-> 4, write |-> FALSE, value |-> 0] \in Accesses
    BY DEF Accesses, Reg!Widths
  <2> QED BY <1>1, <1>2, <2>1, RunCheckAccess DEF FrontInv, DecisionInv
<1>3. CASE Access
  <2>1. window.base \in Nat
    BY <1>1, <1>3, AcceptedWindow DEF Access, FrontInv, StepInv
  <2>2. [addr |-> window.base + op.offset, bytes |-> op.bytes, write |-> op.write, value |-> op.value]
           \in Accesses
    BY <1>1, <2>1 DEF IsAccess, Accesses
  <2> QED BY <1>1, <1>3, <2>2, AccessMade DEF FrontInv
<1> QED BY <1>1, <1>2, <1>3, QuietSteps

LEMMA NextStep ==
    ASSUME FrontType, [FNext]_<<vars, fvars>>
    PROVE  /\ step' \in Preparing \cup {"load", "check", "resolve", "access", "exited"}
           /\ step' # "exited" => exit' = "none"
<1> USE DEF Leave, Go, Preparing
<1>1. /\ step \in Preparing \cup {"load", "check", "resolve", "access", "exited"}
      /\ step # "exited" => exit = "none"
  BY DEF FrontType
<1>2. CASE OneShot \/ InterfaceMap \/ OpenWithBuilder \/ LoadProfile \/ OpenTarget
  BY <1>1, <1>2 DEF OneShot, InterfaceMap, OpenWithBuilder, LoadProfile, OpenTarget
<1>3. CASE HelpOrVersion \/ ScanFlag \/ ScanProfile \/ ScanWidth \/ ScanUnknown \/ ScanWord \/ Operands
  BY <1>1, <1>3 DEF HelpOrVersion, ScanFlag, ScanProfile, ScanWidth, ScanUnknown, ScanWord, Operands,
                    Scanning
<1>4. CASE RunCheck \/ EndChecks \/ Resolve \/ Refuse
  BY <1>1, <1>4 DEF RunCheck, EndChecks, Resolve, fvars, Refuse
<1>5. CASE MapWindow \/ OpenFails \/ Access \/ LockFails
  BY <1>1, <1>5 DEF MapWindow, OpenFails, Access, LockFails
<1>6. CASE UNCHANGED <<vars, fvars>>
  BY <1>1, <1>6 DEF fvars
<1> QED BY <1>2, <1>3, <1>4, <1>5, <1>6 DEF FNext

LEMMA NextFrontType ==
    ASSUME DecisionInv, FrontInv, [FNext]_<<vars, fvars>>
    PROVE  FrontType'
<1>1. FrontType
  BY DEF FrontInv
<1>2. IsCaller(sys)' /\ UNCHANGED LineTokens
  BY SameGiven
<1>3. \A token \in LineTokens', radix \in {10, 16} : ParseNumber(token, radix, Top) \subseteq Nat
  BY <1>1, <1>2 DEF FrontType
<1>4. cli' \in CliTypes' /\ IsAccess(op)' /\ log' \in Seq(Accesses)
  BY <1>1, <1>2, NextCli, NextOp, NextLogType
<1> QED BY <1>1, <1>2, <1>3, <1>4, NextStep DEF FrontType

\* The order in which a front end goes through its steps.
LEMMA NextStepInv ==
    ASSUME DecisionInv, FrontInv, [FNext]_<<vars, fvars>>
    PROVE  StepInv'
<1> USE DEF Leave, Go, Preparing
<1>1. StepInv /\ FrontType /\ BaseInv /\ VerdictInv /\ (verdict = "none" <=> pc # "done")
  BY DEF FrontInv, DecisionInv, BaseInv, TypeInv
<1>2. UNCHANGED vars => UNCHANGED ChecksHold /\ UNCHANGED MapError
  BY DEF vars, ChecksHold, ProfilePasses, MapError, MockError, MappedRegions, Through, MapContains, Fits
<1>3. CASE UNCHANGED <<vars, fvars>>
  BY <1>1, <1>2, <1>3 DEF StepInv, vars, fvars
<1>4. CASE OneShot \/ OpenWithBuilder
  <2>1. step' \in {"check", "exited"} /\ pc' = "profile" /\ verdict' = "none"
    BY <1>1, <1>4 DEF OneShot, OpenWithBuilder, StepInv
  <2> QED BY <2>1 DEF StepInv
<1>5. CASE InterfaceMap
  <2>1. step' \in {"check", "exited"} /\ pc' = "profile" /\ verdict' = "none"
    BY <1>1, <1>5 DEF InterfaceMap, StepInv, vars
  <2> QED BY <2>1 DEF StepInv
<1>6. CASE LoadProfile \/ OpenTarget
  <2>1. \/ step' \in {"resolve", "exited"}
        \/ step' = "check" /\ pc' = "profile" /\ verdict' = "none"
    BY <1>1, <1>6 DEF LoadProfile, OpenTarget, StepInv
  <2> QED BY <2>1 DEF StepInv
<1>7. CASE HelpOrVersion \/ ScanFlag \/ ScanProfile \/ ScanWidth \/ ScanUnknown \/ ScanWord
  <2>1. step = "cli" /\ step' \in {"cli", "exited"} /\ UNCHANGED <<vars, log>>
    BY <1>7 DEF HelpOrVersion, ScanFlag, ScanProfile, ScanWidth, ScanUnknown, ScanWord, Scanning
  <2> QED BY <1>1, <2>1 DEF StepInv, vars
<1>8. CASE Operands
  <2>1. step = "cli" /\ step' \in {"load", "exited"} /\ UNCHANGED vars
    BY <1>8 DEF Operands
  <2>2. ChecksHold
    BY <1>1, <2>1 DEF StepInv, ChecksHold
  <2> QED BY <1>1, <1>2, <2>1, <2>2 DEF StepInv, vars
<1>9. CASE RunCheck
  <2>1. step = "check" /\ step' = "check" /\ pc' \in {"profile", "done"} /\ verdict' # "accept"
    BY <1>1, <1>9 DEF RunCheck, ProfileCheck, Advance, Finish, StepInv
  <2> QED BY <2>1 DEF StepInv
<1>10. CASE EndChecks
  <2>1. CASE sys.entry = "cli"
    <3>1. pc = "profile" /\ i > Len(sys.profile) /\ step' = "load" /\ UNCHANGED vars
      BY <1>10, <2>1 DEF EndChecks
    <3>2. i \in Nat /\ Len(sys.profile) \in Nat
      BY DEF DecisionInv, BaseInv, TypeInv, IsSystem
    <3>3. ChecksHold
      BY <1>1, <3>1, <3>2 DEF VerdictInv, ChecksHold
    <3> QED BY <1>2, <3>1, <3>3 DEF StepInv, vars
  <2>2. CASE sys.entry # "cli"
    BY <1>10, <2>2 DEF EndChecks, StepInv
  <2> QED BY <2>1, <2>2
<1>11. CASE Resolve
  BY <1>11 DEF Resolve, fvars, StepInv
<1>12. CASE Refuse \/ OpenFails \/ Access \/ LockFails
  BY <1>12 DEF Refuse, OpenFails, Access, LockFails, StepInv
<1>13. CASE MapWindow
  <2>1. CASE MapError = "ok"
    <3>1. step' = "access" /\ verdict = "accept" /\ UNCHANGED vars
      BY <1>13, <2>1 DEF MapWindow
    <3> QED BY <1>1, <1>2, <2>1, <3>1 DEF StepInv, vars
  <2>2. CASE MapError # "ok"
    BY <1>13, <2>2 DEF MapWindow, StepInv
  <2> QED BY <2>1, <2>2
<1> QED BY <1>3, <1>4, <1>5, <1>6, <1>7, <1>8, <1>9, <1>10, <1>11, <1>12, <1>13 DEF FNext

\* Bytes of a window that UioMap::contains found in a region are the region's.
LEMMA InsideRegion ==
    ASSUME NEW a \in Nat, NEW n \in Nat, NEW x \in Nat, NEW l \in Nat \ {0},
           a <= x, x + l <= a + n
    PROVE  Bytes(x, l) \subseteq Bytes(a, n)
<1>1. Bytes(x, l) = x..(x + l - 1) /\ Bytes(a, n) = a..(a + n - 1)
  BY BytesInterval
<1>2. x..(x + l - 1) \subseteq a..(a + n - 1)
  OBVIOUS
<1> QED BY <1>1, <1>2

\* They are if the access is in the window.
LEMMA InsideMapped ==
    ASSUME NEW r, r.addr \in Nat, r.size \in Nat,
           NEW w, w.base \in Nat, w.size \in Nat, MapContains(r, w),
           NEW offset \in Nat, NEW l \in Nat \ {0}, offset + l <= w.size
    PROVE  Bytes(w.base + offset, l) \subseteq Bytes(r.addr, r.size)
<1>1. w.base >= r.addr /\ w.base - r.addr + w.size <= r.size
  BY DEF MapContains
<1>2. ASSUME NEW b \in Nat, NEW s \in Nat, NEW a \in Nat, NEW n \in Nat,
             b >= a, b - a + s <= n, offset + l <= s
      PROVE  b + offset \in Nat /\ a <= b + offset /\ b + offset + l <= a + n
  BY <1>2
<1>3. w.base + offset \in Nat /\ r.addr <= w.base + offset /\ w.base + offset + l <= r.addr + r.size
  BY <1>1, <1>2
<1> QED BY <1>3, InsideRegion

\* What stays true of a log that grows by no access.
LEMMA SameLog ==
    ASSUME LogInv, exit = "none", log' = log, exit' # "ok",
           UNCHANGED <<sys.maps, sys.debug, sys.region>>
    PROVE  LogInv'
<1>1. \A a : InUioRegion(a) <=> InUioRegion(a)'
  BY DEF InUioRegion
<1> QED BY <1>1 DEF LogInv

\* Or by one that is warranted itself.
LEMMA LongerLog ==
    ASSUME LogInv, log \in Seq(Accesses), exit = "none", NEW a \in Accesses, log' = Append(log, a),
           UNCHANGED <<sys.maps, sys.debug, sys.region, sys.custom, sys.readOnly>>,
           a.addr % a.bytes = 0,
           ~sys.debug => InUioRegion(a),
           a.write => exit' = "ok" /\ ~sys.custom /\ ~sys.readOnly,
           exit' = "ok" /\ ~sys.custom =>
               /\ Bytes(a.addr, a.bytes) \subseteq WindowBytes'
               /\ mapper' = "uio" => InUioRegion(a)
    PROVE  LogInv'
<1>1. \A x : InUioRegion(x) <=> InUioRegion(x)'
  BY DEF InUioRegion
<1>2. /\ Len(log) \in Nat /\ Len(log') = Len(log) + 1 /\ log'[Len(log')] = a /\ log' # <<>>
      /\ \A k \in 1..Len(log') : k # Len(log') => k \in 1..Len(log) /\ log'[k] = log[k]
  <2>1. Len(log') = Len(log) + 1
    OBVIOUS
  <2>2. log'[Len(log')] = a /\ log' # <<>>
    BY <2>1
  <2>3. \A k \in 1..Len(log') : k # Len(log') => k \in 1..Len(log) /\ log'[k] = log[k]
    BY <2>1
  <2> QED BY <2>1, <2>2, <2>3
<1>3. ASSUME NEW k \in 1..Len(log')
      PROVE  /\ log'[k].addr % log'[k].bytes = 0
             /\ ~sys'.debug => InUioRegion(log[k])'
             /\ log'[k].write => k = Len(log') /\ exit' = "ok" /\ ~sys'.custom /\ ~sys'.readOnly
  <2>1. CASE k = Len(log')
    BY <1>1, <1>2, <2>1
  <2>2. CASE k # Len(log')
    <3>1. k \in 1..Len(log) /\ log'[k] = log[k]
      BY <1>2, <2>2
    <3>2. log[k].addr % log[k].bytes = 0 /\ (~sys.debug => InUioRegion(log[k])) /\ ~log[k].write
      BY <3>1 DEF LogInv
    <3> QED BY <1>1, <3>1, <3>2
  <2> QED BY <2>1, <2>2
<1>4. exit' = "ok" /\ ~sys'.custom =>
        /\ Bytes(log'[Len(log')].addr, log'[Len(log')].bytes) \subseteq WindowBytes'
        /\ mapper' = "uio" => InUioRegion(log[Len(log)])'
  BY <1>1, <1>2
<1> QED BY <1>2, <1>3, <1>4 DEF LogInv

LEMMA RunCheckKeepsLog ==
    ASSUME DecisionInv, FrontInv, RunCheck
    PROVE  LogInv'
<1>1. /\ LogInv /\ FrontType /\ BaseInv /\ IsCaller(sys) /\ exit = "none" /\ UNCHANGED <<sys, exit>>
      /\ log \in Seq(Accesses)
  BY DEF FrontInv, FrontType, DecisionInv, RunCheck, ProfileCheck
<1>2. CASE UNCHANGED log
  BY <1>1, <1>2, SameLog
<1>3. CASE /\ sys.profile[i].readable
           /\ log' = Append(log, [addr |-> sys.profile[i].addr, bytes |-> 4, write |-> FALSE, value |-> 0])
  <2> DEFINE a == [addr |-> sys.profile[i].addr, bytes |-> 4, write |-> FALSE, value |-> 0]
  <2>1. sys.profile[i].addr \in Nat /\ Reachable(sys, sys.profile[i].addr)
    BY <1>1, <1>3, RunCheckAccess DEF IsCaller
  <2>2. a \in Accesses /\ a.addr % a.bytes = 0
    BY <2>1 DEF Accesses, Reg!Widths, Reachable
  <2>3. ~sys.debug => InUioRegion(a)
    <3> SUFFICES ASSUME ~sys.debug PROVE InUioRegion(a)
      OBVIOUS
    <3> DEFINE w == [base |-> sys.profile[i].addr, size |-> 4]
    <3>1. PICK m \in 1..Len(sys.maps) : MapContains(sys.maps[m], w)
      BY <2>1 DEF Reachable, Through
    <3>2. sys.maps[m].addr \in Nat /\ sys.maps[m].size \in Nat
      BY <1>1, EntryTypes DEF BaseInv, TypeInv
    <3>3. w.base = sys.profile[i].addr /\ w.base \in Nat /\ w.size = 4
      BY <2>1
    <3>4. Bytes(w.base, 4) \subseteq Bytes(sys.maps[m].addr, sys.maps[m].size)
      <4> DEFINE r == sys.maps[m]
                 l == 4
      <4>1. l \in Nat \ {0} /\ w.size = l
        BY <3>3
      <4> HIDE DEF w, r, l
      <4>2. w.base >= r.addr /\ w.base - r.addr + w.size <= r.size
        BY <3>1 DEF MapContains, r
      <4>3. r.addr \in Nat /\ r.size \in Nat
        BY <3>2 DEF r
      <4>4. r.addr <= w.base /\ w.base + l <= r.addr + r.size
        BY <3>3, <4>1, <4>2, <4>3
      <4>5. Bytes(w.base, l) \subseteq Bytes(r.addr, r.size)
        BY <3>3, <4>1, <4>3, <4>4, InsideRegion
      <4> QED BY <4>5 DEF l, r
    <3>5. w.base = a.addr /\ a.bytes = 4
      OBVIOUS
    <3> QED BY <3>4, <3>5 DEF InUioRegion
  <2>4. log' = Append(log, a) /\ ~a.write
    BY <1>3
  <2> HIDE DEF a
  <2> QED BY <1>1, <2>2, <2>3, <2>4, LongerLog
<1> QED BY <1>1, <1>2, <1>3, RunCheckAccess

\* The access itself: check_access keeps it in the window, map_uio the window in its region.
LEMMA AccessKeepsLog ==
    ASSUME DecisionInv, FrontInv, Access
    PROVE  LogInv'
<1>1. /\ LogInv /\ FrontType /\ IsCaller(sys) /\ IsAccess(op) /\ exit = "none" /\ log \in Seq(Accesses)
      /\ verdict = "accept" /\ MapError = "ok"
  BY DEF FrontInv, FrontType, StepInv, Access
<1>2. UNCHANGED <<sys, window, mapper>> /\ exit' = AccessError
  BY <1>1, AccessMade DEF vars
<1>3. CASE AccessError # "ok"
  <2>1. log' = log
    BY <1>1, <1>3, AccessMade
  <2> QED BY <1>1, <1>2, <1>3, <2>1, SameLog
<1>4. CASE AccessError = "ok" /\ sys.custom
  <2>1. log' = log
    BY <1>1, <1>4, AccessMade
  <2>2. \A a : InUioRegion(a) <=> InUioRegion(a)'
    BY <1>2 DEF InUioRegion
  <2> QED BY <1>1, <1>2, <1>4, <2>1, <2>2 DEF LogInv
<1>5. CASE AccessError = "ok" /\ ~sys.custom
  <2> DEFINE a == [addr |-> window.base + op.offset, bytes |-> op.bytes,
                   write |-> op.write, value |-> op.value]
  <2>1. /\ op.offset \in Nat /\ op.bytes \in Nat \ {0} /\ op.bytes \in Reg!Widths
        /\ op.write \in BOOLEAN /\ op.value \in Nat
        /\ window.base \in Nat /\ window.size \in Nat
    BY <1>1, AcceptedWindow DEF IsAccess, Reg!Widths
  <2>2. /\ log' = Append(log, a)
        /\ a.addr % a.bytes = 0 /\ (a.write => ~sys.readOnly)
        /\ op.offset + op.bytes <= window.size
    BY <1>1, <1>5, <2>1, AccessMade
  <2>3. a \in Accesses
    BY <2>1 DEF Accesses
  <2>4. Bytes(a.addr, a.bytes) \subseteq WindowBytes
    <3>1. window.base <= window.base + op.offset
          /\ window.base + op.offset + op.bytes <= window.base + window.size
      BY <2>1, <2>2
    <3> QED BY <2>1, <3>1, InsideRegion DEF WindowBytes
  <2>5. mapper = "uio" => InUioRegion(a)
    <3> SUFFICES ASSUME mapper = "uio" PROVE InUioRegion(a)
      OBVIOUS
    <3>1. PICK r \in MappedRegions : MapContains(r, window)
      BY <1>1, <1>5 DEF MapError, Through
    <3>2. r \in {sys.region} \cup {sys.maps[m] : m \in 1..Len(sys.maps)}
      BY <3>1 DEF MappedRegions
    <3>3. r.addr \in Nat /\ r.size \in Nat
      <4>1. sys.region.addr \in Nat /\ sys.region.size \in Nat
        BY <1>1 DEF IsCaller, IsRegion
      <4>2. \A m \in 1..Len(sys.maps) : sys.maps[m].addr \in Nat /\ sys.maps[m].size \in Nat
        BY <1>1, EntryTypes DEF IsCaller
      <4> QED BY <3>2, <4>1, <4>2
    <3>4. Bytes(window.base + op.offset, op.bytes) \subseteq Bytes(r.addr, r.size)
      BY <2>1, <2>2, <3>1, <3>3, InsideMapped
    <3> QED BY <3>2, <3>4 DEF InUioRegion
  <2>6. ~sys.debug => InUioRegion(a)
    <3>1. mapper \in {"devmem", "uio"}
      BY <1>1 DEF DecisionInv, BaseInv, TypeInv, UioInv
    <3>2. mapper = "devmem" => sys.debug
      BY <1>1, <1>5 DEF MapError
    <3> QED BY <2>5, <3>1, <3>2
  <2>7. UNCHANGED WindowBytes
    BY <1>2 DEF WindowBytes
  <2> HIDE DEF a
  <2> QED BY <1>1, <1>2, <1>5, <2>2, <2>3, <2>4, <2>5, <2>6, <2>7, LongerLog
<1> QED BY <1>3, <1>4, <1>5

LEMMA NextLog ==
    ASSUME DecisionInv, FrontInv, [FNext]_<<vars, fvars>>
    PROVE  LogInv'
<1>1. LogInv /\ StepInv /\ FrontType /\ (step # "exited" => exit = "none")
  BY DEF FrontInv, FrontType
<1>2. /\ UNCHANGED <<sys.maps, sys.debug>>
      /\ step \notin Preparing => UNCHANGED sys.region
  BY SameGiven
<1>3. CASE OneShot \/ OpenWithBuilder
  <2>1. log = <<>> /\ log' = log /\ exit' # "ok"
    BY <1>1, <1>3 DEF OneShot, OpenWithBuilder, StepInv, Preparing, Leave, Go
  <2> QED BY <2>1 DEF LogInv
<1>4. CASE LoadProfile \/ OpenTarget \/ Resolve
  <2>1. step \notin Preparing /\ exit = "none" /\ log' = log /\ exit' # "ok"
    BY <1>1, <1>4 DEF LoadProfile, OpenTarget, Resolve, Leave, Go, Preparing, fvars
  <2> QED BY <1>1, <1>2, <2>1, SameLog
<1>5. CASE \/ HelpOrVersion \/ ScanFlag \/ ScanProfile \/ ScanWidth \/ ScanUnknown \/ ScanWord
           \/ Operands
  <2>1. exit = "none" /\ UNCHANGED vars /\ log' = log /\ exit' # "ok"
    BY <1>1, <1>5 DEF HelpOrVersion, ScanFlag, ScanProfile, ScanWidth, ScanUnknown, ScanWord, Operands,
                      Scanning, Leave, Go
  <2> QED BY <1>1, <2>1, SameLog DEF vars
<1>6. CASE InterfaceMap \/ Refuse \/ MapWindow \/ OpenFails \/ LockFails
  <2>1. verdict # "ok"
    BY DEF DecisionInv, UioInv
  <2>2. exit = "none" /\ UNCHANGED vars /\ log' = log /\ exit' # "ok"
    BY <1>1, <1>6, <2>1 DEF InterfaceMap, Refuse, MapWindow, OpenFails, LockFails, Leave, Go
  <2> QED BY <1>1, <2>2, SameLog DEF vars
<1>7. CASE EndChecks
  <2>1. exit = "none" /\ log' = log /\ exit' = exit /\ UNCHANGED sys
    BY <1>1, <1>7 DEF EndChecks, EndProfile, Go, vars
  <2> QED BY <1>1, <2>1, SameLog
<1>8. CASE UNCHANGED <<vars, fvars>>
  <2>1. UNCHANGED <<sys, window, mapper, log, exit>>
    BY <1>8 DEF vars, fvars
  <2>2. \A a : InUioRegion(a) <=> InUioRegion(a)'
    BY <2>1 DEF InUioRegion
  <2>3. UNCHANGED WindowBytes
    BY <2>1 DEF WindowBytes
  <2> QED BY <1>1, <2>1, <2>2, <2>3 DEF LogInv
<1> QED BY <1>3, <1>4, <1>5, <1>6, <1>7, <1>8, RunCheckKeepsLog, AccessKeepsLog DEF FNext

-----------------------------------------------------------------------------
(* The theorems, whichever front end the request comes from *)

LEMMA InitDecision == Init => DecisionInv
<1> SUFFICES ASSUME Init PROVE DecisionInv
  OBVIOUS
<1>1. OwnerInv /\ UioInv
  BY DEF Init, OwnerInv, RightOwner, UioInv
<1>2. IomemInv /\ ClocksInv
  BY DEF Init, IomemInv, IomemExact, ClocksInv, ClocksExact, OwnerPhases
<1>3. VerdictInv
  BY DEF Init, VerdictInv, VerdictExact, PastStatus, PastPower, PastSuppliers, PastClocks, OwnerPhases
<1> QED BY <1>1, <1>2, <1>3, InitBase DEF DecisionInv

LEMMA InitFront == FInit => FrontInv
<1> SUFFICES ASSUME FInit PROVE FrontInv
  OBVIOUS
<1>1. PICK family \in Systems : sys \in family
  BY DEF FInit, Init
<1>2. IsCaller(sys) /\ (sys.entry = "cli" => sys.profile = <<>>)
  BY <1>1, CallersAssumption
<1>3. \A token \in LineTokens, radix \in {10, 16} : ParseNumber(token, radix, Top) \subseteq Nat
  <2>1. \A token \in LineTokens : IsSpelling(token)
    BY <1>2 DEF LineTokens, Line, IsCaller, IsToken
  <2>2. Top \in Nat
    BY FrontEndsAssumption, ProfileAssumption DEF Top
  <2>3. \A token \in LineTokens, radix \in {10, 16} : ParseNumber(token, radix, Top) \subseteq 0..(Top - 1)
    BY <2>1, <2>2, NumberType
  <2> QED BY <2>2, <2>3
<1>4. /\ step = IF sys.entry = "builder" THEN "check" ELSE sys.entry
      /\ sys.entry \in Entries /\ op = sys.op /\ log = <<>> /\ exit = "none"
      /\ pc = "profile" /\ i = 1 /\ verdict = "none"
  BY <1>2 DEF FInit, Init, IsCaller
<1>5. cli \in CliTypes
  BY DEF FInit, NoOptions, CliTypes, Reg!Widths
<1>6. FrontType
  BY <1>2, <1>3, <1>4, <1>5 DEF FrontType, IsCaller, Entries, Preparing
<1>7. StepInv
  BY <1>2, <1>4 DEF StepInv, Entries, Preparing
<1>8. LogInv
  BY <1>4 DEF LogInv
<1> QED BY <1>6, <1>7, <1>8 DEF FrontInv

LEMMA FrontHolds == FSpec => [](DecisionInv /\ FrontInv)
<1>1. FInit => DecisionInv /\ FrontInv
  BY InitDecision, InitFront DEF FInit
<1>2. DecisionInv /\ FrontInv /\ [FNext]_<<vars, fvars>> => DecisionInv' /\ FrontInv'
  BY NextDecision, NextFrontType, NextStepInv, NextLog DEF FrontInv
<1> QED BY <1>1, <1>2, PTL DEF FSpec

\* RightOwner: the scans of the UIO maps and of the Device Tree nodes compare
\* ends, saturate and stop at the first match (UioMap::contains, reg_covers,
\* find_uio_region, find_owning_device), and yet the device they settle on has
\* every byte of the window, and there is none only if no device has.
THEOREM RightOwnerHolds == FSpec => []RightOwner
<1>1. DecisionInv => RightOwner
  BY DEF DecisionInv, OwnerInv
<1> QED BY <1>1, FrontHolds, PTL

\* IomemExact: parse_iomem keeps one indentation from line to line and decides
\* about an entry when it reads the next; that amounts to looking for a leaf of
\* the tree, or for memory, in the whole of /proc/iomem.
THEOREM IomemExactHolds == FSpec => []IomemExact
<1>1. DecisionInv => IomemExact
  BY DEF DecisionInv, IomemInv
<1> QED BY <1>1, FrontHolds, PTL

\* ClocksExact: check_clk_summary remembers the last clock row while it reads
\* consumer lines; it refuses exactly a device that a gated clock's lines name,
\* and its warnings are as many as the idle mentions in the whole file.
THEOREM ClocksExactHolds == FSpec => []ClocksExact
<1>1. DecisionInv => ClocksExact
  BY DEF DecisionInv, ClocksInv
<1> QED BY <1>1, FrontHolds, PTL

\* VerdictExact: open() goes on exactly when the profile holds, the request is
\* a window or a region, and, unless it is forced, no byte of a /dev/mem window
\* is memory, some leaf or owner has it, and the owner passes every check.
THEOREM VerdictExactHolds == FSpec => []VerdictExact
<1>1. DecisionInv => VerdictExact
  BY DEF DecisionInv, VerdictInv
<1> QED BY <1>1, FrontHolds, PTL

\* AccessWarranted: read_register_at, Interface::map, the C open functions, run_cli
\* and DeviceBuilder itself configure a request each in their own way, and a profile
\* reads registers of its own; but no access is made outside the window that open()
\* accepted, none outside the UIO regions without the `debug' feature, and no write
\* but the one that was asked for.
THEOREM AccessWarrantedHolds == FSpec => []AccessWarranted
<1>1. ASSUME DecisionInv, FrontInv PROVE AccessWarranted
  <2>1. IsCaller(sys) /\ LogInv
    BY <1>1 DEF FrontInv, FrontType
  <2>2. verdict = "accept" => WindowWarranted
    BY <1>1, <2>1, AcceptedWindow
  <2> QED BY <2>1, <2>2 DEF LogInv, AccessWarranted
<1> QED BY <1>1, FrontHolds, PTL

-----------------------------------------------------------------------------
(* What the tokens of a line are, one after the other *)

\* The options just before the k-th token that take an argument.
OptionsBefore(k) == {j \in 1..(k - 1) : \A m \in j..(k - 1) : TakesArgument(m)}

\* An option that takes an argument has the next token, whatever that looks like.
LEMMA ArgumentNext ==
    ASSUME NEW k \in Nat \ {0}
    PROVE  /\ ~IsArgument(1)
           /\ IsArgument(k + 1) <=> TakesArgument(k) /\ ~IsArgument(k)
<1>1. OptionsBefore(1) = {}
  BY DEF OptionsBefore
<1>2. IsFiniteSet(OptionsBefore(k)) /\ Cardinality(OptionsBefore(k)) \in Nat
  <2>1. IsFiniteSet(1..(k - 1))
    BY FS_Interval
  <2>2. OptionsBefore(k) \in SUBSET (1..(k - 1))
    BY DEF OptionsBefore
  <2> QED BY <2>1, <2>2, FS_Subset, FS_CardinalityType
<1>3. CASE TakesArgument(k)
  <2>1. \A j : j \in 1..k <=> j \in 1..(k - 1) \/ j = k
    OBVIOUS
  <2>2. \A j \in 1..k : \A m : m \in j..k <=> m \in j..(k - 1) \/ m = k
    OBVIOUS
  <2>3. OptionsBefore(k + 1) = OptionsBefore(k) \cup {k}
    <3>1. \A j \in 1..(k - 1) : (\A m \in j..k : TakesArgument(m)) <=> \A m \in j..(k - 1) : TakesArgument(m)
      BY <1>3, <2>2
    <3>2. \A m \in k..k : TakesArgument(m)
      BY <1>3
    <3> QED BY <2>1, <3>1, <3>2 DEF OptionsBefore
  <2>4. k \notin OptionsBefore(k)
    BY DEF OptionsBefore
  <2>5. Cardinality(OptionsBefore(k + 1)) = Cardinality(OptionsBefore(k)) + 1
    BY <1>2, <2>3, <2>4, FS_AddElement
  <2>6. \A n \in Nat : (n + 1) % 2 = 1 <=> ~(n % 2 = 1)
    OBVIOUS
  <2> QED BY <1>1, <1>2, <1>3, <2>5, <2>6, FS_EmptySet DEF IsArgument, OptionsBefore
<1>4. CASE ~TakesArgument(k)
  <2>1. OptionsBefore(k + 1) = {}
    BY <1>4 DEF OptionsBefore
  <2> QED BY <1>1, <1>4, <2>1, FS_EmptySet DEF IsArgument, OptionsBefore
<1> QED BY <1>3, <1>4

\* A sequence and one more element, as functions.
LEMMA FunctionAppend ==
    ASSUME NEW n \in Nat, NEW f, f = [k \in 1..n |-> f[k]], NEW x
    PROVE  /\ Len(f) = n
           /\ Append(f, x) = [k \in 1..(n + 1) |-> IF k = n + 1 THEN x ELSE f[k]]
<1> DEFINE S == {f[k] : k \in 1..n} \cup {x}
           g == Append(f, x)
<1>1. f \in [1..n -> S] /\ x \in S
  OBVIOUS
<1> HIDE DEF S
<1>2. f \in Seq(S) /\ Len(f) = n
  BY <1>1, FunctionIsSeq, LenProperties
<1>3. /\ g \in Seq(S) /\ Len(g) = n + 1
      /\ \A k \in 1..n : g[k] = f[k]
      /\ g[n + 1] = x
  BY <1>1, <1>2, AppendProperties
<1> HIDE DEF g
<1>4. g = [k \in 1..(n + 1) |-> g[k]]
  BY <1>3, LenProperties
<1>5. \A k \in 1..(n + 1) : g[k] = IF k = n + 1 THEN x ELSE f[k]
  <2>1. \A k \in 1..(n + 1) : k \in 1..n \/ k = n + 1
    OBVIOUS
  <2> QED BY <1>3, <2>1
<1> QED BY <1>2, <1>4, <1>5 DEF g

\* The tokens of some places, and one further on, in their order.
LEMMA InOrderAppend ==
    ASSUME NEW K \in SUBSET Nat, IsFiniteSet(K), NEW m \in Nat, \A k \in K : k < m
    PROVE  InOrder(K \cup {m}) = Append(InOrder(K), Line[m])
<1> DEFINE N == Cardinality(K)
           Rank(S, x) == Cardinality({j \in S : j <= x})
           Places(S, n) == {x \in S : Rank(S, x) = n}
           S == K \cup {m}
<1>1. m \notin K /\ \A k \in K : k \in Nat /\ k <= m /\ ~(m <= k)
  OBVIOUS
<1>2. N \in Nat /\ Cardinality(S) = N + 1
  BY <1>1, FS_AddElement, FS_CardinalityType
<1>3. ASSUME NEW x \in K
      PROVE  Rank(S, x) = Rank(K, x) /\ Rank(K, x) \in 0..N
  <2>1. {j \in K : j <= x} \in SUBSET K
    OBVIOUS
  <2>2. Cardinality({j \in K : j <= x}) \in Nat /\ Cardinality({j \in K : j <= x}) <= N
    BY <2>1, FS_Subset, FS_CardinalityType
  <2>3. {j \in S : j <= x} = {j \in K : j <= x}
    BY <1>1
  <2> QED BY <1>2, <2>2, <2>3
<1>4. Rank(S, m) = N + 1
  <2>1. {j \in S : j <= m} = S
    <3>1. m <= m
      OBVIOUS
    <3> QED BY <1>1, <3>1
  <2> QED BY <1>2, <2>1
<1> HIDE DEF Rank, N
<1>5. ASSUME NEW n \in 1..N PROVE Places(S, n) = Places(K, n)
  <2>1. N + 1 # n
    BY <1>2
  <2>2. \A x \in S : Rank(S, x) = n <=> x \in K /\ Rank(K, x) = n
    BY <1>3, <1>4, <2>1
  <2> QED BY <2>2
<1>6. Places(S, N + 1) = {m}
  <2>1. N + 1 \notin 0..N
    BY <1>2
  <2>2. \A x \in S : Rank(S, x) = N + 1 <=> x = m
    BY <1>3, <1>4, <2>1
  <2> QED BY <2>2
<1>7. \A n \in 1..N : Nth(S, n) = Nth(K, n)
  BY <1>5 DEF Nth, Rank
<1>8. Nth(S, N + 1) = m
  <2>1. Nth(S, N + 1) = CHOOSE k \in {m} : TRUE
    BY <1>6 DEF Nth, Rank
  <2> QED BY <2>1
<1> DEFINE line(n) == Line[Nth(K, n)]
<1>9. InOrder(K) = [n \in 1..N |-> line(n)]
  BY DEF InOrder, N
<1>10. InOrder(S) = [n \in 1..(N + 1) |-> IF n = N + 1 THEN Line[m] ELSE line(n)]
  <2>1. \A n \in 1..(N + 1) : n \in 1..N \/ n = N + 1
    BY <1>2
  <2>2. \A n \in 1..(N + 1) : Line[Nth(S, n)] = IF n = N + 1 THEN Line[m] ELSE line(n)
    BY <1>7, <1>8, <2>1
  <2>3. InOrder(S) = [n \in 1..(N + 1) |-> Line[Nth(S, n)]]
    BY <1>2 DEF InOrder, N
  <2> HIDE DEF S, line
  <2> QED BY <2>2, <2>3
<1> HIDE DEF N, S, line
<1>11. Append(InOrder(K), Line[m]) =
         [n \in 1..(N + 1) |-> IF n = N + 1 THEN Line[m] ELSE InOrder(K)[n]]
  BY <1>2, <1>9, FunctionAppend
<1>12. \A n \in 1..(N + 1) : n # N + 1 => InOrder(K)[n] = line(n)
  <2>1. \A n \in 1..(N + 1) : n \in 1..N \/ n = N + 1
    BY <1>2
  <2> QED BY <1>9, <2>1
<1> QED BY <1>10, <1>11, <1>12 DEF S

\* As many tokens as places.
LEMMA InOrderType ==
    ASSUME NEW K, IsFiniteSet(K)
    PROVE  /\ Len(InOrder(K)) = Cardinality(K) /\ Len(InOrder(K)) \in Nat
           /\ InOrder(K) = [n \in 1..Len(InOrder(K)) |-> InOrder(K)[n]]
<1> DEFINE N == Cardinality(K)
           f == InOrder(K)
<1>1. N \in Nat
  BY FS_CardinalityType
<1>2. f = [n \in 1..N |-> f[n]]
  BY DEF InOrder
<1> HIDE DEF f, N
<1>3. Len(f) = N
  BY <1>1, <1>2, FunctionAppend
<1> QED BY <1>1, <1>2, <1>3 DEF f, N

-----------------------------------------------------------------------------
(* What the tokens before the n-th amount to *)

WordPlaces(n) == {k \in 1..(n - 1) : ~IsArgument(k) /\ ~Line[k].dash}

ArgumentPlaces(option, n) == {k \in 1..(n - 1) : IsArgument(k) /\ Line[k - 1].text = option}

OptionIn(text, n) == \E k \in 1..(n - 1) : ~IsArgument(k) /\ Line[k].text = text

Texts(words) == [k \in 1..Len(words) |-> words[k].text]

LastOf(K) == CHOOSE k \in K : \A j \in K : j <= k

WidthAmong(K) ==
    IF K = {} THEN 4 ELSE CHOOSE bytes \in WidthGiven(Line[LastOf(K)]) : TRUE

\* An option is known, and is not the end of the line if it takes an argument.
TokenFits(k) ==
    /\ Line[k].dash => Line[k].text \in KnownOptions
    /\ TakesArgument(k) => k < Len(Line)

ValidTo(n) ==
    /\ \A k \in 1..(n - 1) : ~IsArgument(k) => TokenFits(k)
    /\ \A k \in ArgumentPlaces("-w", n) : WidthGiven(Line[k]) # {}

\* The places of words and arguments before the n-th token come before it.
LEMMA PlacesFinite ==
    ASSUME NEW n \in Nat \ {0}
    PROVE  /\ WordPlaces(n) \in SUBSET Nat /\ IsFiniteSet(WordPlaces(n))
           /\ \A k \in WordPlaces(n) : k < n
           /\ \A option :
                /\ ArgumentPlaces(option, n) \in SUBSET Nat /\ IsFiniteSet(ArgumentPlaces(option, n))
                /\ \A k \in ArgumentPlaces(option, n) : k < n
<1>1. IsFiniteSet(1..(n - 1)) /\ \A k \in 1..(n - 1) : k \in Nat /\ k < n
  BY FS_Interval
<1>2. WordPlaces(n) \in SUBSET (1..(n - 1))
  BY DEF WordPlaces
<1>3. \A option : ArgumentPlaces(option, n) \in SUBSET (1..(n - 1))
  BY DEF ArgumentPlaces
<1> QED BY <1>1, <1>2, <1>3, FS_Subset

\* What one more token adds to the places, and to what makes a line valid.
LEMMA PlacesNext ==
    ASSUME NEW n \in Nat \ {0}
    PROVE  /\ WordPlaces(n + 1) =
                WordPlaces(n) \cup (IF ~IsArgument(n) /\ ~Line[n].dash THEN {n} ELSE {})
           /\ \A option : ArgumentPlaces(option, n + 1) =
                ArgumentPlaces(option, n) \cup
                    (IF IsArgument(n) /\ Line[n - 1].text = option THEN {n} ELSE {})
           /\ \A text : OptionIn(text, n + 1) <=>
                OptionIn(text, n) \/ (~IsArgument(n) /\ Line[n].text = text)
           /\ ValidTo(n + 1) <=>
                /\ ValidTo(n) /\ (~IsArgument(n) => TokenFits(n))
                /\ IsArgument(n) /\ Line[n - 1].text = "-w" => WidthGiven(Line[n]) # {}
<1>1. \A k : k \in 1..n <=> k \in 1..(n - 1) \/ k = n
  OBVIOUS
<1>2. (n + 1) - 1 = n
  OBVIOUS
<1>3. WordPlaces(n + 1) =
        WordPlaces(n) \cup (IF ~IsArgument(n) /\ ~Line[n].dash THEN {n} ELSE {})
  BY <1>1, <1>2 DEF WordPlaces
<1>4. \A option : ArgumentPlaces(option, n + 1) =
        ArgumentPlaces(option, n) \cup
            (IF IsArgument(n) /\ Line[n - 1].text = option THEN {n} ELSE {})
  BY <1>1, <1>2 DEF ArgumentPlaces
<1>5. \A text : OptionIn(text, n + 1) <=>
        OptionIn(text, n) \/ (~IsArgument(n) /\ Line[n].text = text)
  BY <1>1, <1>2 DEF OptionIn
<1>6. (\A k \in ArgumentPlaces("-w", n + 1) : WidthGiven(Line[k]) # {}) <=>
        /\ \A k \in ArgumentPlaces("-w", n) : WidthGiven(Line[k]) # {}
        /\ IsArgument(n) /\ Line[n - 1].text = "-w" => WidthGiven(Line[n]) # {}
  BY <1>4
<1>7. (\A k \in 1..n : ~IsArgument(k) => TokenFits(k)) <=>
        /\ \A k \in 1..(n - 1) : ~IsArgument(k) => TokenFits(k)
        /\ ~IsArgument(n) => TokenFits(n)
  BY <1>1
<1> QED BY <1>2, <1>3, <1>4, <1>5, <1>6, <1>7 DEF ValidTo

\* Words and paths are kept as texts.
LEMMA TextsNext ==
    ASSUME NEW K \in SUBSET Nat, IsFiniteSet(K), NEW m \in Nat, \A k \in K : k < m
    PROVE  Texts(InOrder(K \cup {m})) = Append(Texts(InOrder(K)), Line[m].text)
<1> DEFINE w == InOrder(K)
           N == Len(w)
           v == Append(w, Line[m])
           t == Texts(w)
<1>1. N \in Nat /\ w = [n \in 1..N |-> w[n]]
  BY InOrderType
<1>2. t = [n \in 1..N |-> w[n].text]
  BY DEF Texts
<1> HIDE DEF w, N, t
<1>3. v = [n \in 1..(N + 1) |-> IF n = N + 1 THEN Line[m] ELSE w[n]]
  BY <1>1, FunctionAppend
<1>4. Len(v) = N + 1
  <2>1. N + 1 \in Nat
    BY <1>1
  <2> HIDE DEF v
  <2>2. v = [n \in 1..(N + 1) |-> v[n]]
    BY <1>3
  <2> QED BY <2>1, <2>2, FunctionAppend
<1>5. Append(t, Line[m].text) = [n \in 1..(N + 1) |-> IF n = N + 1 THEN Line[m].text ELSE t[n]]
  <2>1. t = [n \in 1..N |-> t[n]]
    BY <1>2
  <2> QED BY <1>1, <2>1, FunctionAppend
<1>6. Texts(v) = [n \in 1..(N + 1) |-> v[n].text]
  BY <1>4 DEF Texts
<1>7. \A n \in 1..(N + 1) : v[n].text = IF n = N + 1 THEN Line[m].text ELSE t[n]
  <2>1. \A n \in 1..(N + 1) : n \in 1..N \/ n = N + 1
    BY <1>1
  <2> QED BY <1>2, <1>3, <2>1
<1>8. InOrder(K \cup {m}) = v
  BY InOrderAppend DEF w
<1> HIDE DEF v
<1> QED BY <1>5, <1>6, <1>7, <1>8 DEF t, w

\* The last -w counts.
LEMMA LastNext ==
    ASSUME NEW K \in SUBSET Nat, NEW m \in Nat, \A k \in K : k < m
    PROVE  WidthAmong(K \cup {m}) = CHOOSE bytes \in WidthGiven(Line[m]) : TRUE
<1>1. LastOf(K \cup {m}) = m
  <2>1. \A k \in K \cup {m} : k <= m /\ (m <= k => k = m)
    OBVIOUS
  <2> QED BY <2>1 DEF LastOf
<1> QED BY <1>1 DEF WidthAmong

-----------------------------------------------------------------------------
(* The scan *)

\* What run_cli knows of the line when it comes to the n-th token.
ScanOf(n) ==
    [at |-> n,
     force |-> OptionIn("-f", n),
     radix |-> IF OptionIn("-d", n) THEN 10 ELSE 16,
     bytes |-> WidthAmong(ArgumentPlaces("-w", n)),
     paths |-> Texts(InOrder(ArgumentPlaces("-v", n))),
     words |-> InOrder(WordPlaces(n))]

\* parse_width's match is that of the four decimal spellings.
LEMMA WidthExact ==
    ASSUME NEW token, IsSpelling(token)
    PROVE  ParseWidth(token) = WidthGiven(token) /\ \A b, c \in WidthGiven(token) : b = c
<1> DEFINE D == IF token.prefix = "none" /\ ~Separated(token) THEN Denotes(token, 10, 65) ELSE {}
<1>1. ParseNumber(token, 10, 65) = Denotes(token, 10, 65)
  BY NumberExact
<1>2. ParseWidth(token) = {bytes \in Reg!Widths : 8 * bytes \in D}
  BY <1>1 DEF ParseWidth, Separated
<1>3. \A v, w \in D : v = w
  BY DEF Denotes
<1>4. WidthGiven(token) = {Widths8To64[bits] : bits \in {8, 16, 32, 64} \cap D}
  BY DEF WidthGiven, Widths8To64
<1> HIDE DEF D
<1>5. /\ Widths8To64[8] = 1 /\ Widths8To64[16] = 2 /\ Widths8To64[32] = 4 /\ Widths8To64[64] = 8
  BY DEF Widths8To64
<1>6. WidthGiven(token) = {bytes \in Reg!Widths : 8 * bytes \in D}
  <2>1. /\ 8 * 1 = 8 /\ 8 * 2 = 16 /\ 8 * 4 = 32 /\ 8 * 8 = 64
    OBVIOUS
  <2> QED BY <1>4, <1>5, <2>1 DEF Reg!Widths
<1>7. \A b, c \in WidthGiven(token) : b = c
  BY <1>3, <1>4
<1> QED BY <1>2, <1>6, <1>7

\* Before the first token nothing is known.
LEMMA FirstScan == ScanOf(1) = NoOptions /\ ValidTo(1) /\ ~IsArgument(1)
<1>1. /\ ~OptionIn("-f", 1) /\ ~OptionIn("-d", 1) /\ WordPlaces(1) = {}
      /\ ArgumentPlaces("-w", 1) = {} /\ ArgumentPlaces("-v", 1) = {}
  BY DEF OptionIn, WordPlaces, ArgumentPlaces
<1>2. InOrder({}) = <<>>
  BY FS_EmptySet DEF InOrder
<1>3. Texts(<<>>) = <<>>
  BY DEF Texts
<1>4. ValidTo(1)
  BY <1>1 DEF ValidTo
<1>5. OptionIn("-f", 1) = FALSE
  BY <1>1 DEF OptionIn
<1>6. ~IsArgument(1)
  <2>1. 1 \in Nat \ {0}
    OBVIOUS
  <2> QED BY <2>1, ArgumentNext
<1> QED BY <1>1, <1>2, <1>3, <1>4, <1>5, <1>6 DEF ScanOf, WidthAmong, NoOptions

\* The n-th token is no argument: an option, or a word.
LEMMA ScanToken ==
    ASSUME NEW n \in Nat \ {0}, ~IsArgument(n)
    PROVE  ScanOf(n + 1) =
             [at |-> n + 1,
              force |-> ScanOf(n).force \/ Line[n].text = "-f",
              radix |-> IF Line[n].text = "-d" THEN 10 ELSE ScanOf(n).radix,
              bytes |-> ScanOf(n).bytes,
              paths |-> ScanOf(n).paths,
              words |-> IF Line[n].dash THEN ScanOf(n).words
                        ELSE Append(ScanOf(n).words, Line[n])]
<1>1. WordPlaces(n + 1) = IF Line[n].dash THEN WordPlaces(n) ELSE WordPlaces(n) \cup {n}
  BY PlacesNext
<1>2. \A option : ArgumentPlaces(option, n + 1) = ArgumentPlaces(option, n)
  BY PlacesNext
<1>3. \A text : OptionIn(text, n + 1) <=> OptionIn(text, n) \/ Line[n].text = text
  BY PlacesNext
<1>4. InOrder(WordPlaces(n) \cup {n}) = Append(InOrder(WordPlaces(n)), Line[n])
  BY PlacesFinite, InOrderAppend
<1>5. InOrder(WordPlaces(n + 1)) =
        IF Line[n].dash THEN InOrder(WordPlaces(n)) ELSE Append(InOrder(WordPlaces(n)), Line[n])
  BY <1>1, <1>4
<1>6. OptionIn("-f", n + 1) = (OptionIn("-f", n) \/ Line[n].text = "-f")
  <2>1. OptionIn("-f", n + 1) \in BOOLEAN
    BY DEF OptionIn
  <2> QED BY <1>3, <2>1
<1>7. (IF OptionIn("-d", n + 1) THEN 10 ELSE 16) =
        IF Line[n].text = "-d" THEN 10 ELSE IF OptionIn("-d", n) THEN 10 ELSE 16
  BY <1>3
<1> QED BY <1>2, <1>5, <1>6, <1>7 DEF ScanOf

\* The n-th token is the argument of an option.
LEMMA ScanArgument ==
    ASSUME NEW n \in Nat \ {0}, IsArgument(n)
    PROVE  ScanOf(n + 1) =
             [at |-> n + 1,
              force |-> ScanOf(n).force,
              radix |-> ScanOf(n).radix,
              bytes |-> IF Line[n - 1].text = "-w"
                        THEN CHOOSE bytes \in WidthGiven(Line[n]) : TRUE ELSE ScanOf(n).bytes,
              paths |-> IF Line[n - 1].text = "-v"
                        THEN Append(ScanOf(n).paths, Line[n].text) ELSE ScanOf(n).paths,
              words |-> ScanOf(n).words]
<1>1. WordPlaces(n + 1) = WordPlaces(n)
  BY PlacesNext
<1>2. ASSUME NEW option
      PROVE  ArgumentPlaces(option, n + 1) =
                IF Line[n - 1].text = option THEN ArgumentPlaces(option, n) \cup {n}
                ELSE ArgumentPlaces(option, n)
  <2>1. ArgumentPlaces(option, n + 1) =
            ArgumentPlaces(option, n) \cup (IF Line[n - 1].text = option THEN {n} ELSE {})
    BY PlacesNext
  <2> QED BY <2>1
<1>3. \A text : OptionIn(text, n + 1) <=> OptionIn(text, n)
  BY PlacesNext
<1>4. Texts(InOrder(ArgumentPlaces("-v", n) \cup {n})) =
        Append(Texts(InOrder(ArgumentPlaces("-v", n))), Line[n].text)
  BY PlacesFinite, TextsNext
<1>5. WidthAmong(ArgumentPlaces("-w", n) \cup {n}) = CHOOSE bytes \in WidthGiven(Line[n]) : TRUE
  BY PlacesFinite, LastNext
<1>6. OptionIn("-f", n + 1) = OptionIn("-f", n)
  <2>1. OptionIn("-f", n + 1) \in BOOLEAN /\ OptionIn("-f", n) \in BOOLEAN
    BY DEF OptionIn
  <2> QED BY <1>3, <2>1
<1>7. (IF OptionIn("-d", n + 1) THEN 10 ELSE 16) = IF OptionIn("-d", n) THEN 10 ELSE 16
  BY <1>3
<1>8. Texts(InOrder(ArgumentPlaces("-v", n + 1))) =
        IF Line[n - 1].text = "-v"
        THEN Append(Texts(InOrder(ArgumentPlaces("-v", n))), Line[n].text)
        ELSE Texts(InOrder(ArgumentPlaces("-v", n)))
  BY <1>2, <1>4
<1>9. WidthAmong(ArgumentPlaces("-w", n + 1)) =
        IF Line[n - 1].text = "-w" THEN CHOOSE bytes \in WidthGiven(Line[n]) : TRUE
        ELSE WidthAmong(ArgumentPlaces("-w", n))
  BY <1>2, <1>5
<1> QED BY <1>1, <1>6, <1>7, <1>8, <1>9 DEF ScanOf

\* The references look at the line only.
LEMMA SameLine ==
    ASSUME sys'.line = sys.line
    PROVE  /\ \A n : (IsArgument(n)' <=> IsArgument(n)) /\ (ValidTo(n)' <=> ValidTo(n))
           /\ \A n : ScanOf(n)' = ScanOf(n)
<1>1. Line' = Line
  BY DEF Line
<1>2. \A n : TakesArgument(n)' <=> TakesArgument(n)
  BY <1>1 DEF TakesArgument
<1>3. \A n : IsArgument(n)' <=> IsArgument(n)
  BY <1>1 DEF IsArgument, TakesArgument
<1>4. \A n : WordPlaces(n)' = WordPlaces(n) /\ \A option : ArgumentPlaces(option, n)' = ArgumentPlaces(option, n)
  BY <1>1, <1>3 DEF WordPlaces, ArgumentPlaces
<1>5. \A n : ValidTo(n)' <=> ValidTo(n)
  BY <1>1, <1>2, <1>3, <1>4 DEF ValidTo, TokenFits
<1>6. \A n, text : OptionIn(text, n)' <=> OptionIn(text, n)
  BY <1>1, <1>3 DEF OptionIn
<1>7. \A n : OptionIn("-f", n)' = OptionIn("-f", n)
  <2>1. \A n : OptionIn("-f", n)' \in BOOLEAN /\ OptionIn("-f", n) \in BOOLEAN
    BY DEF OptionIn
  <2> QED BY <1>6, <2>1
<1>8. \A n : InOrder(WordPlaces(n))' = InOrder(WordPlaces(n))
  BY <1>1, <1>4 DEF InOrder
<1>9. \A n : Texts(InOrder(ArgumentPlaces("-v", n)))' = Texts(InOrder(ArgumentPlaces("-v", n)))
  <2> TAKE n
  <2>1. InOrder(ArgumentPlaces("-v", n))' = InOrder(ArgumentPlaces("-v", n))
    BY <1>1, <1>4 DEF InOrder
  <2> QED BY <2>1 DEF Texts
<1>10. \A n : WidthAmong(ArgumentPlaces("-w", n))' = WidthAmong(ArgumentPlaces("-w", n))
  <2> TAKE n
  <2>1. ArgumentPlaces("-w", n)' = ArgumentPlaces("-w", n)
    BY <1>4
  <2>2. LastOf(ArgumentPlaces("-w", n))' = LastOf(ArgumentPlaces("-w", n))
    BY <2>1 DEF LastOf
  <2>3. Line[LastOf(ArgumentPlaces("-w", n))]' = Line[LastOf(ArgumentPlaces("-w", n))]
    BY <1>1, <2>2
  <2>4. WidthGiven(Line[LastOf(ArgumentPlaces("-w", n))])' = WidthGiven(Line[LastOf(ArgumentPlaces("-w", n))])
    BY <2>3 DEF WidthGiven, Separated, Denotes
  <2> DEFINE G == WidthGiven(Line[LastOf(ArgumentPlaces("-w", n))])
             K == ArgumentPlaces("-w", n)
  <2>5. WidthAmong(K) = IF K = {} THEN 4 ELSE CHOOSE bytes \in G : TRUE
    BY DEF WidthAmong
  <2>6. WidthAmong(K)' = IF K' = {} THEN 4 ELSE CHOOSE bytes \in G' : TRUE
    BY DEF WidthAmong
  <2>7. G' = G /\ K' = K
    BY <2>1, <2>4
  <2> HIDE DEF G, K
  <2>8. WidthAmong(K)' = WidthAmong(K)
    BY <2>5, <2>6, <2>7
  <2> QED BY <2>8 DEF K
<1>11. \A n : (IF OptionIn("-d", n) THEN 10 ELSE 16)' = IF OptionIn("-d", n) THEN 10 ELSE 16
  BY <1>6
<1>12. \A n : ScanOf(n)' = ScanOf(n)
  BY <1>7, <1>8, <1>9, <1>10, <1>11 DEF ScanOf
<1> QED BY <1>3, <1>5, <1>12

\* At the end of the line the scan has what the references find in it.
LEMMA LastScan ==
    ASSUME Len(Line) \in Nat
    PROVE  /\ ScanOf(Len(Line) + 1) =
                [at |-> Len(Line) + 1, force |-> Option("-f"), radix |-> LineRadix,
                 bytes |-> LineBytes, paths |-> LineFiles, words |-> LineWords]
           /\ ValidTo(Len(Line) + 1) <=> OptionsValid
<1> DEFINE n == Len(Line) + 1
<1>1. n - 1 = Len(Line)
  OBVIOUS
<1> HIDE DEF n
<1>2. WordPlaces(n) = {k \in Tokens : ~Line[k].dash}
  BY <1>1 DEF WordPlaces, Tokens
<1>3. \A option : ArgumentPlaces(option, n) = ArgumentsOf(option)
  BY <1>1 DEF ArgumentPlaces, ArgumentsOf, Tokens
<1>4. \A text : OptionIn(text, n) <=> Option(text)
  BY <1>1 DEF OptionIn, Option, Tokens
<1>5. OptionIn("-f", n) = Option("-f")
  <2>1. OptionIn("-f", n) \in BOOLEAN /\ Option("-f") \in BOOLEAN
    BY DEF OptionIn, Option
  <2> QED BY <1>4, <2>1
<1>6. (IF OptionIn("-d", n) THEN 10 ELSE 16) = LineRadix
  BY <1>4 DEF LineRadix
<1>7. WidthAmong(ArgumentPlaces("-w", n)) = LineBytes
  <2> DEFINE K == ArgumentsOf("-w")
  <2>1. WidthAmong(K) = LineBytes
    <3> HIDE DEF K
    <3> QED BY Zenon DEF WidthAmong, LineBytes, LastOf, K
  <2> QED BY <1>3, <2>1
<1>8. Texts(InOrder(ArgumentPlaces("-v", n))) = LineFiles
  BY <1>3 DEF Texts, LineFiles
<1>9. InOrder(WordPlaces(n)) = LineWords
  BY <1>2 DEF LineWords
<1>10. ValidTo(n) <=> OptionsValid
  <2>1. (\A k \in 1..(n - 1) : ~IsArgument(k) => TokenFits(k)) <=>
           /\ \A k \in Tokens : Line[k].dash => Line[k].text \in KnownOptions
           /\ \A k \in Tokens : TakesArgument(k) => k < Len(Line)
    BY <1>1 DEF Tokens, TokenFits
  <2> QED BY <1>3, <2>1 DEF ValidTo, OptionsValid
<1> QED BY <1>5, <1>6, <1>7, <1>8, <1>9, <1>10 DEF ScanOf, n

\* The scan is at the n-th token, which is no argument.
Scanned(n) ==
    /\ n \in Nat \ {0} /\ n <= Len(Line) + 1
    /\ cli = ScanOf(n) /\ ~IsArgument(n) /\ ValidTo(n)

\* The scan gets to the n-th token.
ScannedNext(n) ==
    /\ n \in Nat \ {0} /\ n <= Len(Line) + 1
    /\ cli' = ScanOf(n) /\ ~IsArgument(n) /\ ValidTo(n)

\* The scan's token, and the one that may be its argument, are the line's.
LEMMA ScanTokenAt ==
    ASSUME IsCaller(sys), NEW n, Scanned(n), Scanning
    PROVE  /\ n \in 1..Len(Line) /\ n + 1 <= Len(Line) + 1 /\ n + 1 \in Nat \ {0}
           /\ Len(Line) \in Nat
           /\ Token = Line[n] /\ IsToken(Line[n]) /\ cli.at = n
           /\ Argument = {Line[k] : k \in {n + 1} \cap 1..Len(Line)}
<1>1. cli.at = n
  BY DEF Scanned, ScanOf
<1>2. n \in Nat \ {0} /\ n <= Len(Line) /\ Line = sys.line
  BY <1>1 DEF Scanned, Scanning, Line
<1>3. Len(Line) \in Nat
  <2>1. sys.line \in Seq(ToSet(sys.line))
    BY DEF IsCaller, IsSequence
  <2> HIDE DEF ToSet
  <2> QED BY <2>1 DEF Line
<1>4. n \in 1..Len(Line) /\ n + 1 <= Len(Line) + 1 /\ n + 1 \in Nat \ {0}
  BY <1>2, <1>3
<1>5. IsToken(Line[n])
  BY <1>2, <1>4 DEF IsCaller
<1>6. Token = Line[n] /\ Argument = {Line[k] : k \in {n + 1} \cap 1..Len(Line)}
  BY <1>1, <1>2 DEF Token, Argument
<1> QED BY <1>1, <1>3, <1>4, <1>5, <1>6

\* The changes that run_cli's loop makes to its local variables.
LEMMA Updates ==
    ASSUME NEW at, NEW force, NEW radix, NEW bytes, NEW paths, NEW words, NEW c,
           c = [at |-> at, force |-> force, radix |-> radix, bytes |-> bytes, paths |-> paths, words |-> words],
           NEW x, NEW y, NEW z
    PROVE  /\ [c EXCEPT !.at = x, !.force = y, !.radix = z] =
                [at |-> x, force |-> y, radix |-> z, bytes |-> bytes, paths |-> paths, words |-> words]
           /\ [c EXCEPT !.at = x, !.words = y] =
                [at |-> x, force |-> force, radix |-> radix, bytes |-> bytes, paths |-> paths, words |-> y]
           /\ [c EXCEPT !.at = x, !.paths = y] =
                [at |-> x, force |-> force, radix |-> radix, bytes |-> bytes, paths |-> y, words |-> words]
           /\ [c EXCEPT !.at = x, !.bytes = y] =
                [at |-> x, force |-> force, radix |-> radix, bytes |-> y, paths |-> paths, words |-> words]
<1> DEFINE Record(a, f, r, b, p, w) ==
             [at |-> a, force |-> f, radix |-> r, bytes |-> b, paths |-> p, words |-> w]
<1>1. \A a, f, r, b, p, w, v :
        /\ [Record(a, f, r, b, p, w) EXCEPT !.at = v] = Record(v, f, r, b, p, w)
        /\ [Record(a, f, r, b, p, w) EXCEPT !.force = v] = Record(a, v, r, b, p, w)
        /\ [Record(a, f, r, b, p, w) EXCEPT !.radix = v] = Record(a, f, v, b, p, w)
        /\ [Record(a, f, r, b, p, w) EXCEPT !.bytes = v] = Record(a, f, r, v, p, w)
        /\ [Record(a, f, r, b, p, w) EXCEPT !.paths = v] = Record(a, f, r, b, v, w)
        /\ [Record(a, f, r, b, p, w) EXCEPT !.words = v] = Record(a, f, r, b, p, v)
  OBVIOUS
<1>2. c = Record(at, force, radix, bytes, paths, words)
  OBVIOUS
<1> DEFINE d == [c EXCEPT !.at = x]
<1>3. /\ [c EXCEPT !.at = x, !.force = y, !.radix = z] = [[d EXCEPT !.force = y] EXCEPT !.radix = z]
      /\ [c EXCEPT !.at = x, !.words = y] = [d EXCEPT !.words = y]
      /\ [c EXCEPT !.at = x, !.paths = y] = [d EXCEPT !.paths = y]
      /\ [c EXCEPT !.at = x, !.bytes = y] = [d EXCEPT !.bytes = y]
  BY Zenon
<1>4. d = Record(x, force, radix, bytes, paths, words)
  <2> HIDE DEF Record
  <2> QED BY <1>1, <1>2
<1>5. /\ [c EXCEPT !.at = x, !.force = y, !.radix = z] = Record(x, y, z, bytes, paths, words)
      /\ [c EXCEPT !.at = x, !.words = y] = Record(x, force, radix, bytes, paths, y)
      /\ [c EXCEPT !.at = x, !.paths = y] = Record(x, force, radix, bytes, y, words)
      /\ [c EXCEPT !.at = x, !.bytes = y] = Record(x, force, radix, y, paths, words)
  <2> HIDE DEF d, Record
  <2>1. [[d EXCEPT !.force = y] EXCEPT !.radix = z] = Record(x, y, z, bytes, paths, words)
    <3>1. [d EXCEPT !.force = y] = Record(x, y, radix, bytes, paths, words)
      BY <1>1, <1>4
    <3>2. [Record(x, y, radix, bytes, paths, words) EXCEPT !.radix = z] = Record(x, y, z, bytes, paths, words)
      BY <1>1
    <3> QED BY <3>1, <3>2, Zenon
  <2>2. /\ [d EXCEPT !.words = y] = Record(x, force, radix, bytes, paths, y)
        /\ [d EXCEPT !.paths = y] = Record(x, force, radix, bytes, y, words)
        /\ [d EXCEPT !.bytes = y] = Record(x, force, radix, y, paths, words)
    BY <1>1, <1>4
  <2> QED BY <1>3, <2>1, <2>2, Zenon
<1> QED BY <1>5, Zenon

\* A flag or a word.
LEMMA NextToken ==
    ASSUME IsCaller(sys), NEW n, Scanned(n), ScanFlag \/ ScanWord
    PROVE  ScannedNext(n + 1)
<1>1. Scanning
  BY DEF ScanFlag, ScanWord
<1>2. /\ n \in 1..Len(Line) /\ n + 1 <= Len(Line) + 1 /\ n + 1 \in Nat \ {0}
      /\ Token = Line[n] /\ IsToken(Line[n]) /\ cli.at = n
  BY <1>1, ScanTokenAt
<1>3. ~TakesArgument(n) /\ TokenFits(n)
  <2>1. CASE ScanFlag
    BY <1>2, <2>1 DEF ScanFlag, TakesArgument, TokenFits, KnownOptions
  <2>2. CASE ScanWord
    BY <1>2, <2>2 DEF ScanWord, TakesArgument, TokenFits, KnownOptions, IsToken
  <2> QED BY <2>1, <2>2
<1>4. n \in Nat \ {0} /\ cli = ScanOf(n) /\ ~IsArgument(n) /\ ValidTo(n)
  BY DEF Scanned
<1>5. ~IsArgument(n + 1) /\ ValidTo(n + 1)
  BY <1>3, <1>4, ArgumentNext, PlacesNext
<1>6. cli = [at |-> cli.at, force |-> cli.force, radix |-> cli.radix, bytes |-> cli.bytes,
             paths |-> cli.paths, words |-> cli.words]
  BY <1>4 DEF ScanOf
<1>7. ScanOf(n + 1) =
        [at |-> n + 1,
         force |-> cli.force \/ Line[n].text = "-f",
         radix |-> IF Line[n].text = "-d" THEN 10 ELSE cli.radix,
         bytes |-> cli.bytes,
         paths |-> cli.paths,
         words |-> IF Line[n].dash THEN cli.words ELSE Append(cli.words, Line[n])]
  BY <1>4, ScanToken
<1>8. cli' = ScanOf(n + 1)
  <2>1. CASE ScanFlag
    <3>1. Line[n].dash
      BY <1>2, <2>1 DEF ScanFlag, IsToken, KnownOptions
    <3>2. cli' = [cli EXCEPT !.at = @ + 1, !.force = @ \/ Line[n].text = "-f",
                             !.radix = IF Line[n].text = "-d" THEN 10 ELSE @]
      BY <1>2, <2>1 DEF ScanFlag
    <3>3. cli' = [at |-> n + 1, force |-> cli.force \/ Line[n].text = "-f",
                  radix |-> IF Line[n].text = "-d" THEN 10 ELSE cli.radix,
                  bytes |-> cli.bytes, paths |-> cli.paths, words |-> cli.words]
      BY <1>2, <1>6, <3>2, Updates
    <3> QED BY <1>7, <3>1, <3>3
  <2>2. CASE ScanWord
    <3>1. ~Line[n].dash /\ Line[n].text # "-f" /\ Line[n].text # "-d"
      BY <1>2, <2>2 DEF ScanWord, IsToken, KnownOptions
    <3>2. cli' = [cli EXCEPT !.at = @ + 1, !.words = Append(@, Line[n])]
      BY <1>2, <2>2 DEF ScanWord
    <3>3. cli.force \in BOOLEAN
      BY <1>4 DEF ScanOf, OptionIn
    <3>4. cli' = [at |-> n + 1, force |-> cli.force, radix |-> cli.radix, bytes |-> cli.bytes,
                  paths |-> cli.paths, words |-> Append(cli.words, Line[n])]
      BY <1>2, <1>6, <3>2, Updates
    <3> QED BY <1>7, <3>1, <3>3, <3>4
  <2> QED BY <2>1, <2>2
<1> QED BY <1>2, <1>5, <1>8 DEF ScannedNext

\* An option and its argument: the scan of both.
LEMMA NextPair ==
    ASSUME IsCaller(sys), NEW n, Scanned(n), Scanning, TakesArgument(n), Argument # {},
           Line[n].text = "-w" => WidthGiven(Line[n + 1]) # {}
    PROVE  /\ Argument = {Line[n + 1]} /\ IsSpelling(Line[n + 1])
           /\ n + 2 \in Nat \ {0} /\ n + 2 <= Len(Line) + 1
           /\ ~IsArgument(n + 2) /\ ValidTo(n + 2)
           /\ ScanOf(n + 2) =
                [at |-> cli.at + 2, force |-> cli.force, radix |-> cli.radix,
                 bytes |-> IF Line[n].text = "-w"
                           THEN CHOOSE bytes \in WidthGiven(Line[n + 1]) : TRUE ELSE cli.bytes,
                 paths |-> IF Line[n].text = "-v"
                           THEN Append(cli.paths, Line[n + 1].text) ELSE cli.paths,
                 words |-> cli.words]
<1>1. /\ n \in 1..Len(Line) /\ n + 1 \in Nat \ {0} /\ Len(Line) \in Nat
      /\ Token = Line[n] /\ IsToken(Line[n]) /\ cli.at = n
      /\ Argument = {Line[k] : k \in {n + 1} \cap 1..Len(Line)}
  BY ScanTokenAt
<1>2. n + 1 \in 1..Len(Line)
  BY <1>1
<1>3. Argument = {Line[n + 1]} /\ n < Len(Line)
  BY <1>1, <1>2
<1>4. n \in Nat \ {0} /\ cli = ScanOf(n) /\ ~IsArgument(n) /\ ValidTo(n)
  BY DEF Scanned
<1>5. IsArgument(n + 1)
  BY <1>4, ArgumentNext
<1>6. (n + 1) + 1 = n + 2 /\ (n + 1) - 1 = n /\ n + 2 \in Nat \ {0} /\ n + 2 <= Len(Line) + 1
  BY <1>1, <1>2
<1>7. ~IsArgument(n + 2)
  BY <1>1, <1>5, <1>6, ArgumentNext
<1>8. Line[n].text \in {"-v", "-w"}
  BY DEF TakesArgument
<1>9. Line[n].dash
  BY <1>1, <1>8 DEF IsToken, KnownOptions
<1>10. TokenFits(n)
  BY <1>3, <1>8 DEF TokenFits, KnownOptions
<1>11. ValidTo(n + 1)
  BY <1>4, <1>10, PlacesNext
<1>12. ValidTo((n + 1) + 1) <=>
            /\ ValidTo(n + 1) /\ (~IsArgument(n + 1) => TokenFits(n + 1))
            /\ IsArgument(n + 1) /\ Line[(n + 1) - 1].text = "-w" => WidthGiven(Line[n + 1]) # {}
  BY <1>1, PlacesNext
<1>13. ValidTo(n + 2)
  BY <1>5, <1>6, <1>11, <1>12
<1>14. ScanOf(n + 1) =
        [at |-> n + 1,
         force |-> cli.force \/ Line[n].text = "-f",
         radix |-> IF Line[n].text = "-d" THEN 10 ELSE cli.radix,
         bytes |-> cli.bytes,
         paths |-> cli.paths,
         words |-> IF Line[n].dash THEN cli.words ELSE Append(cli.words, Line[n])]
  BY <1>4, ScanToken
<1>15. cli.force \in BOOLEAN
  BY <1>4 DEF ScanOf, OptionIn
<1>16. /\ ScanOf(n + 1).force = cli.force /\ ScanOf(n + 1).radix = cli.radix
       /\ ScanOf(n + 1).bytes = cli.bytes /\ ScanOf(n + 1).paths = cli.paths
       /\ ScanOf(n + 1).words = cli.words
  BY <1>8, <1>9, <1>14, <1>15
<1>17. ScanOf((n + 1) + 1) =
             [at |-> (n + 1) + 1,
              force |-> ScanOf(n + 1).force,
              radix |-> ScanOf(n + 1).radix,
              bytes |-> IF Line[(n + 1) - 1].text = "-w"
                        THEN CHOOSE bytes \in WidthGiven(Line[n + 1]) : TRUE ELSE ScanOf(n + 1).bytes,
              paths |-> IF Line[(n + 1) - 1].text = "-v"
                        THEN Append(ScanOf(n + 1).paths, Line[n + 1].text) ELSE ScanOf(n + 1).paths,
              words |-> ScanOf(n + 1).words]
  BY <1>1, <1>5, ScanArgument
<1>18. IsSpelling(Line[n + 1])
  BY <1>2 DEF IsCaller, IsToken, Line
<1> QED BY <1>1, <1>3, <1>6, <1>7, <1>13, <1>16, <1>17, <1>18

\* -v and -w, each with its argument or without.
LEMMA NextOption ==
    ASSUME IsCaller(sys), NEW n, Scanned(n), ScanProfile \/ ScanWidth
    PROVE  \/ step' = step /\ ScannedNext(n + 2)
           \/ step' = "exited" /\ exit' \in UsageErrors /\ ~OptionsValid
<1>1. Scanning
  BY DEF ScanProfile, ScanWidth
<1>2. /\ n \in 1..Len(Line) /\ n + 1 \in Nat \ {0} /\ Len(Line) \in Nat
      /\ Token = Line[n] /\ cli.at = n
      /\ Argument = {Line[k] : k \in {n + 1} \cap 1..Len(Line)}
  BY <1>1, ScanTokenAt
<1>3. TakesArgument(n) /\ n \in Nat \ {0} /\ ~IsArgument(n) /\ n \in Tokens
  BY <1>2 DEF ScanProfile, ScanWidth, TakesArgument, Scanned, Tokens
<1>4. IsArgument(n + 1)
  BY <1>3, ArgumentNext
<1>5. cli = [at |-> cli.at, force |-> cli.force, radix |-> cli.radix, bytes |-> cli.bytes,
             paths |-> cli.paths, words |-> cli.words]
  BY DEF Scanned, ScanOf
<1>6. CASE Argument = {}
  <2>1. ~(n < Len(Line))
    <3>1. n < Len(Line) => n + 1 \in 1..Len(Line)
      BY <1>2
    <3> QED BY <1>2, <1>6, <3>1
  <2>2. ~OptionsValid
    BY <1>3, <2>1 DEF OptionsValid
  <2> QED BY <1>6, <2>2 DEF ScanProfile, ScanWidth, Leave, UsageErrors
<1>7. CASE Argument # {} /\ ScanProfile
  <2>1. Line[n].text = "-v"
    BY <1>2, <1>7 DEF ScanProfile
  <2>2. /\ Argument = {Line[n + 1]}
        /\ n + 2 \in Nat \ {0} /\ n + 2 <= Len(Line) + 1
        /\ ~IsArgument(n + 2) /\ ValidTo(n + 2)
        /\ ScanOf(n + 2) =
                [at |-> cli.at + 2, force |-> cli.force, radix |-> cli.radix, bytes |-> cli.bytes,
                 paths |-> Append(cli.paths, Line[n + 1].text), words |-> cli.words]
    BY <1>1, <1>3, <1>7, <2>1, NextPair
  <2>3. PICK path \in Argument : cli' = [cli EXCEPT !.at = @ + 2, !.paths = Append(@, path.text)]
    BY <1>7 DEF ScanProfile
  <2>4. cli' = ScanOf(n + 2)
    <3>1. cli' = [cli EXCEPT !.at = cli.at + 2, !.paths = Append(cli.paths, Line[n + 1].text)]
      BY <2>2, <2>3, Zenon
    <3>2. cli' = [at |-> cli.at + 2, force |-> cli.force, radix |-> cli.radix, bytes |-> cli.bytes,
                  paths |-> Append(cli.paths, Line[n + 1].text), words |-> cli.words]
      BY <1>5, <3>1, Updates
    <3> QED BY <2>2, <3>2, Zenon
  <2> QED BY <1>7, <2>2, <2>4 DEF ScannedNext, ScanProfile
<1>8. CASE Argument # {} /\ ScanWidth
  <2>1. Line[n].text = "-w"
    BY <1>2, <1>8 DEF ScanWidth
  <2>2. n + 1 \in 1..Len(Line) /\ Argument = {Line[n + 1]}
    BY <1>2, <1>8
  <2>3. IsSpelling(Line[n + 1])
    BY <2>2 DEF IsCaller, IsToken, Line
  <2>4. /\ ParseWidth(Line[n + 1]) = WidthGiven(Line[n + 1])
        /\ \A b, c \in WidthGiven(Line[n + 1]) : b = c
    BY <2>3, WidthExact
  <2>5. CASE WidthGiven(Line[n + 1]) = {}
    <3>1. n + 1 \in ArgumentsOf("-w")
      BY <1>2, <1>4, <2>1, <2>2 DEF ArgumentsOf, Tokens
    <3>2. ~OptionsValid
      BY <2>5, <3>1 DEF OptionsValid
    <3> QED BY <1>8, <2>2, <2>4, <2>5, <3>2 DEF ScanWidth, Leave, UsageErrors
  <2>6. CASE WidthGiven(Line[n + 1]) # {}
    <3>1. /\ n + 2 \in Nat \ {0} /\ n + 2 <= Len(Line) + 1
          /\ ~IsArgument(n + 2) /\ ValidTo(n + 2)
          /\ ScanOf(n + 2) =
                [at |-> cli.at + 2, force |-> cli.force, radix |-> cli.radix,
                 bytes |-> CHOOSE bytes \in WidthGiven(Line[n + 1]) : TRUE,
                 paths |-> cli.paths, words |-> cli.words]
      BY <1>1, <1>3, <1>8, <2>1, <2>6, NextPair
    <3>2. PICK bytes \in WidthGiven(Line[n + 1]) : cli' = [cli EXCEPT !.at = @ + 2, !.bytes = bytes]
      BY <1>8, <2>2, <2>4, <2>6 DEF ScanWidth
    <3>3. bytes = CHOOSE b \in WidthGiven(Line[n + 1]) : TRUE
      BY <2>2, <2>4, <3>2
    <3>4. cli' = ScanOf(n + 2)
      <4>1. cli' = [cli EXCEPT !.at = cli.at + 2, !.bytes = bytes]
        BY <3>2, Zenon
      <4>2. cli' = [at |-> cli.at + 2, force |-> cli.force, radix |-> cli.radix, bytes |-> bytes,
                    paths |-> cli.paths, words |-> cli.words]
        BY <1>5, <4>1, Updates
      <4> QED BY <3>1, <3>3, <4>2, Zenon
    <3> QED BY <1>8, <2>2, <2>4, <2>6, <3>1, <3>4 DEF ScannedNext, ScanWidth
  <2> QED BY <2>5, <2>6
<1> QED BY <1>6, <1>7, <1>8

-----------------------------------------------------------------------------
(* The operands *)

\* The limits of an address, an offset and a value.
LEMMA LimitsExact ==
    ASSUME NEW token, IsSpelling(token), NEW radix \in {10, 16}, NEW bytes \in Reg!Widths
    PROVE  /\ ParseNumber(token, radix, Top) = Denotes(token, radix, Top)
           /\ {v \in ParseNumber(token, radix, Top) : v < Top32} = Denotes(token, radix, Top32)
           /\ {v \in ParseNumber(token, radix, Top) : v < 2^WidthBits[bytes]} =
                Denotes(token, radix, 2^WidthBits[bytes])
<1>1. Top64 = Top /\ Top32 \in Nat /\ Top64 \in Nat /\ Top32 <= Top64
  BY FrontEndsAssumption, ProfileAssumption DEF Top
<1>2. 2^WidthBits[bytes] \in 1..Top
  BY FrontEndsAssumption
<1> DEFINE limit == 2^WidthBits[bytes]
<1>3. limit \in Nat /\ limit <= Top
  <2> HIDE DEF limit
  <2>1. limit \in 1..Top
    BY <1>2 DEF limit
  <2> QED BY <1>1, <2>1
<1>4. ParseNumber(token, radix, Top) = Denotes(token, radix, Top)
  <2>1. radix \in Nat \ {0} /\ Top \in Nat
    BY <1>1
  <2> QED BY <2>1, NumberExact
<1> HIDE DEF limit
<1>5. Denotes(token, radix, limit) = {v \in Denotes(token, radix, Top) : v < limit}
  BY <1>1, <1>3, DenotesBelow
<1>6. Denotes(token, radix, Top32) = {v \in Denotes(token, radix, Top) : v < Top32}
  BY <1>1, DenotesBelow
<1> QED BY <1>4, <1>5, <1>6 DEF limit

\* The access that a meaning of the line stands for.
Meant(a) ==
    [uio |-> a.uio, base |-> a.base, name |-> a.name, offset |-> a.offset,
     bytes |-> LineBytes, write |-> LineWords[1].text = "write", value |-> a.value]

\* The meanings of two operands, one of them the name of a device, or of one.
RegionsOf(text, A, B) ==
    {[uio |-> TRUE, base |-> 0, name |-> text, offset |-> o, value |-> v] : o \in A, v \in B}

AddressesOf(text, A, B) ==
    {[uio |-> FALSE, base |-> b, name |-> text, offset |-> 0, value |-> v] : b \in A, v \in B}

\* The meanings of an operand: one for each address or offset and value it may denote.
LEMMA OperandSets ==
    ASSUME NEW text, NEW A, NEW B
    PROVE  /\ \A s : s \in AddressesOf(text, A, B) <=> \E b \in A, v \in B :
                s = [uio |-> FALSE, base |-> b, name |-> text, offset |-> 0, value |-> v]
           /\ \A s : s \in RegionsOf(text, A, B) <=> \E o \in A, v \in B :
                s = [uio |-> TRUE, base |-> 0, name |-> text, offset |-> o, value |-> v]
           /\ AddressesOf(text, A, B) # {} <=> A # {} /\ B # {}
           /\ RegionsOf(text, A, B) # {} <=> A # {} /\ B # {}
<1>1. \A s : s \in AddressesOf(text, A, B) <=> \E b \in A, v \in B :
                s = [uio |-> FALSE, base |-> b, name |-> text, offset |-> 0, value |-> v]
  BY DEF AddressesOf
<1>2. \A s : s \in RegionsOf(text, A, B) <=> \E o \in A, v \in B :
                s = [uio |-> TRUE, base |-> 0, name |-> text, offset |-> o, value |-> v]
  BY DEF RegionsOf
<1>3. AddressesOf(text, A, B) # {} <=> A # {} /\ B # {}
  BY <1>1, Zenon
<1>4. RegionsOf(text, A, B) # {} <=> A # {} /\ B # {}
  BY <1>2, Zenon
<1> QED BY <1>1, <1>2, <1>3, <1>4

\* The usage errors of the operands are those of a line without meaning.
LEMMA OperandsExact ==
    ASSUME IsCaller(sys), FrontType, OptionsValid,
           cli.words = LineWords, cli.radix = LineRadix, cli.bytes = LineBytes
    PROVE  /\ UsageError(cli.words) \in UsageErrors \cup {"ok"}
           /\ UsageError(cli.words) = "ok" <=> Meanings # {}
           /\ UsageError(cli.words) = "ok" =>
                \A t \in Targets(cli.words) : \E a \in Meanings : t = Meant(a)
<1> DEFINE w == LineWords
           number(word, top) == Denotes(word, LineRadix, top)
           write == w[1].text = "write"
           value == IF write THEN number(w[Len(w)], 2^WidthBits[LineBytes]) ELSE {0}
           operands == Len(w) - (IF write THEN 2 ELSE 1)
           named == w[2].prefix = "none" /\ (w[2].chars = <<>> \/ w[2].chars[1] > 9)
           Addressed == AddressesOf(w[2].text, number(w[2], Top), value)
           Regions == RegionsOf(w[2].text, number(w[3], Top32), value)
<1>1. Meanings =
        IF ~OptionsValid \/ w = <<>> THEN {}
        ELSE IF w[1].text \notin {"read", "write"} THEN {}
        ELSE IF operands = 1 THEN Addressed
        ELSE IF operands = 2 /\ (named \/ number(w[2], Top) = {}) THEN Regions
        ELSE {}
  BY DEF Meanings, AddressesOf, RegionsOf
<1>2. w \in Seq(LineTokens) /\ LineRadix \in {10, 16} /\ LineBytes \in Reg!Widths
  BY DEF FrontType, CliTypes
<1>3. \A token \in LineTokens : IsSpelling(token)
  BY DEF LineTokens, Line, IsCaller, IsToken
<1> HIDE DEF w, Addressed, Regions
<1>4. Len(w) \in Nat /\ (w # <<>> => Len(w) # 0) /\ \A k \in 1..Len(w) : w[k] \in LineTokens
  BY <1>2
<1>5. \A k \in 1..Len(w) :
        /\ ParseAddress(w[k]) = number(w[k], Top)
        /\ ParseOffset(w[k]) = number(w[k], Top32)
        /\ ParseValue(w[k]) = number(w[k], 2^WidthBits[LineBytes])
        /\ IsSpelling(w[k])
  BY <1>2, <1>3, <1>4, LimitsExact DEF ParseAddress, ParseOffset, ParseValue
<1>6. UsageError(w) \in UsageErrors \cup {"ok"}
  BY DEF UsageError, UsageErrors
<1>7. CASE w = <<>>
  BY <1>1, <1>6, <1>7 DEF UsageError, w
<1>8. CASE w # <<>> /\ w[1].text \notin {"read", "write"}
  BY <1>1, <1>6, <1>8 DEF UsageError, Commands, w
<1>9. CASE w # <<>> /\ w[1].text \in {"read", "write"}
  <2> DEFINE n == IF write THEN 3 ELSE 2
  <2>1. AddressWords(w) = n /\ UioWords(w) = n + 1 /\ n \in {2, 3} /\ operands = Len(w) - (n - 1)
    BY <1>9 DEF AddressWords, UioWords
  <2>2. UsageError(w) =
          IF Len(w) = 1 THEN "E_CLI_MISSING_ADDR"
          ELSE IF Len(w) < n THEN "E_CLI_MISSING_VAL"
          ELSE IF Len(w) > n + 1 THEN "E_CLI_EXTRA_ARGS"
          ELSE IF Len(w) = n /\ ParseAddress(w[2]) = {} THEN "E_CLI_INVALID_ADDR"
          ELSE IF Len(w) = n + 1 /\ LooksLikeAddress(w[2], cli.radix) THEN "E_CLI_EXTRA_ARGS"
          ELSE IF Len(w) = n + 1 /\ ParseOffset(w[3]) = {} THEN "E_CLI_INVALID_OFFSET"
          ELSE IF write /\ ParseValue(w[Len(w)]) = {} THEN "E_CLI_INVALID_VAL"
          ELSE "ok"
    BY <1>9, <2>1 DEF UsageError, Commands
  <2>3. Targets(w) =
          {[uio |-> Len(w) = n + 1, base |-> b, name |-> w[2].text, offset |-> o,
            bytes |-> LineBytes, write |-> write, value |-> v] :
              b \in IF Len(w) = n + 1 THEN {0} ELSE ParseAddress(w[2]),
              o \in IF Len(w) = n + 1 THEN ParseOffset(w[3]) ELSE {0},
              v \in IF write THEN ParseValue(w[Len(w)]) ELSE {0}}
    BY <2>1 DEF Targets
  <2>4. operands = 1 <=> Len(w) = n
    BY <1>4, <2>1
  <2>5. operands = 2 <=> Len(w) = n + 1
    BY <1>4, <2>1
  <2> HIDE DEF operands
  <2>6. CASE Len(w) = n
    <3>1. 2 \in 1..Len(w) /\ Len(w) \in 1..Len(w) /\ Len(w) # 1 /\ ~(Len(w) < n) /\ ~(Len(w) > n + 1) /\ Len(w) # n + 1
      BY <1>4, <2>1, <2>6
    <3>2. Meanings = Addressed
      BY <1>1, <1>9, <2>4, <2>6
    <3>3. (IF write THEN ParseValue(w[Len(w)]) ELSE {0}) = value /\ ParseAddress(w[2]) = number(w[2], Top)
      BY <1>5, <3>1
    <3>4. UsageError(w) = "ok" <=> number(w[2], Top) # {} /\ value # {}
      BY <2>2, <2>6, <3>1, <3>3
    <3> HIDE DEF value, n
    <3>5. Addressed # {} <=> number(w[2], Top) # {} /\ value # {}
      BY OperandSets DEF Addressed
    <3>6. ASSUME NEW t \in Targets(w) PROVE \E a \in Meanings : t = Meant(a)
      <4>1. PICK b \in IF Len(w) = n + 1 THEN {0} ELSE ParseAddress(w[2]),
                 o \in IF Len(w) = n + 1 THEN ParseOffset(w[3]) ELSE {0},
                 v \in IF write THEN ParseValue(w[Len(w)]) ELSE {0} :
              t = [uio |-> Len(w) = n + 1, base |-> b, name |-> w[2].text, offset |-> o,
                   bytes |-> LineBytes, write |-> write, value |-> v]
        BY <2>3, <3>6
      <4>2. b \in number(w[2], Top) /\ o = 0 /\ v \in value /\ (Len(w) = n + 1) = FALSE
        BY <3>1, <3>3, <4>1
      <4> DEFINE a == [uio |-> FALSE, base |-> b, name |-> w[2].text, offset |-> 0, value |-> v]
      <4>3. a \in Meanings
        BY <3>2, <4>2, OperandSets DEF Addressed
      <4>4. t = Meant(a)
        BY <4>1, <4>2 DEF Meant, w
      <4> QED BY <4>3, <4>4
    <3> QED BY <1>6, <3>2, <3>4, <3>5, <3>6 DEF w
  <2>7. CASE Len(w) = n + 1
    <3>1. /\ 2 \in 1..Len(w) /\ 3 \in 1..Len(w) /\ Len(w) \in 1..Len(w) /\ Len(w) # 1
          /\ ~(Len(w) < n) /\ ~(Len(w) > n + 1) /\ Len(w) # n
      BY <1>4, <2>1, <2>7
    <3>2. (IF write THEN ParseValue(w[Len(w)]) ELSE {0}) = value /\ ParseOffset(w[3]) = number(w[3], Top32)
      BY <1>5, <3>1
    <3>3. LooksLikeAddress(w[2], cli.radix) <=> ~(named \/ number(w[2], Top) = {})
      <4>1. ParseNumber(w[2], cli.radix, Top) = number(w[2], Top)
        BY <1>5, <3>1 DEF ParseAddress
      <4>2. IsSpelling(w[2])
        BY <1>5, <3>1
      <4>3. w[2].chars \in Seq(0..17)
        BY <4>2 DEF IsSpelling, Other
      <4>4. w[2].chars # <<>> => Head(w[2].chars) = w[2].chars[1] /\ w[2].chars[1] \in 0..17
        BY <4>3
      <4>5. \A c \in 0..17 : c \in 0..9 <=> ~(c > 9)
        OBVIOUS
      <4>6. w[2].chars # <<>> => (Head(w[2].chars) \in 0..9 <=> ~(w[2].chars[1] > 9))
        BY <4>4, <4>5
      <4> QED BY <4>1, <4>6 DEF LooksLikeAddress
    <3>4. Meanings = IF named \/ number(w[2], Top) = {} THEN Regions ELSE {}
      BY <1>1, <1>9, <2>4, <2>5, <2>7, <3>1
    <3>5. UsageError(w) = "ok" <=>
            (named \/ number(w[2], Top) = {}) /\ number(w[3], Top32) # {} /\ value # {}
      BY <2>2, <2>7, <3>1, <3>2, <3>3
    <3> HIDE DEF value, n, named
    <3>6. Regions # {} <=> number(w[3], Top32) # {} /\ value # {}
      BY OperandSets DEF Regions
    <3>7. ASSUME UsageError(w) = "ok", NEW t \in Targets(w) PROVE \E a \in Meanings : t = Meant(a)
      <4>1. PICK b \in IF Len(w) = n + 1 THEN {0} ELSE ParseAddress(w[2]),
                 o \in IF Len(w) = n + 1 THEN ParseOffset(w[3]) ELSE {0},
                 v \in IF write THEN ParseValue(w[Len(w)]) ELSE {0} :
              t = [uio |-> Len(w) = n + 1, base |-> b, name |-> w[2].text, offset |-> o,
                   bytes |-> LineBytes, write |-> write, value |-> v]
        BY <2>3, <3>7
      <4>2. b = 0 /\ o \in number(w[3], Top32) /\ v \in value /\ (Len(w) = n + 1) = TRUE
        BY <2>7, <3>2, <4>1
      <4> DEFINE a == [uio |-> TRUE, base |-> 0, name |-> w[2].text, offset |-> o, value |-> v]
      <4>3. a \in Meanings
        BY <3>4, <3>5, <3>7, <4>2, OperandSets DEF Regions
      <4>4. t = Meant(a)
        BY <4>1, <4>2 DEF Meant, w
      <4> QED BY <4>3, <4>4
    <3> QED BY <1>6, <3>4, <3>5, <3>6, <3>7 DEF w
  <2>8. CASE Len(w) # n /\ Len(w) # n + 1
    <3>1. Meanings = {}
      BY <1>1, <2>4, <2>5, <2>8
    <3>2. Len(w) < n \/ Len(w) > n + 1
      <4> HIDE DEF n
      <4>1. Len(w) \in Nat /\ n \in Nat
        BY <1>4, <2>1
      <4> QED BY <2>8, <4>1
    <3>3. UsageError(w) # "ok"
      BY <2>2, <3>2
    <3> QED BY <1>6, <3>1, <3>3 DEF w
  <2> QED BY <2>6, <2>7, <2>8
<1> QED BY <1>7, <1>8, <1>9

-----------------------------------------------------------------------------
(* From the last token to the access *)

\* Everything that ends the decision: none of it is a usage error.
Verdicts ==
    {"none", "accept", "profile", "out_of_bounds", "uio_invalid", "ram", "unmapped", "dt_status",
     "runtime_pm", "supplier_pm", "clock_gated", "fpga_state"}

\* The first m profiles of the line have been loaded.
Behind(m) ==
    /\ m \in 0..Len(LineFiles)
    /\ Len(cli.paths) = Len(LineFiles) - m
    /\ \A k \in 1..Len(cli.paths) : cli.paths[k] = LineFiles[m + k]

Held(m) == \A k \in 1..m : ProfileHolds(LineFiles[k])

\* The checks to be made are those of a profile that is a file.
Loaded(path) ==
    /\ path \in DOMAIN sys.files /\ sys.profiles
    /\ LET file == Contents[sys.files[path]] IN
        /\ IsProfile(file) /\ Len(CheckList(file)) = Len(sys.profile)
        /\ \A k \in 1..Len(sys.profile) : ProfilePasses(k) => Holds(CheckList(file)[k])

\* DeviceBuilder is told what the line means.
Asked ==
    /\ sys.request = IF op.uio THEN "uio" ELSE "auto"
    /\ sys.base = op.base /\ sys.matches = Matches(op.name)
    /\ sys.force = Option("-f")

Understood ==
    /\ \E a \in Meanings : op = Meant(a)
    /\ cli.force = Option("-f")

CommandInv ==
    sys.entry = "cli" =>
        /\ ~sys.custom /\ verdict \in Verdicts
        /\ step \in {"cli", "load", "check", "resolve", "access", "exited"}
        /\ step = "cli" => \E n : Scanned(n)
        /\ step \in {"load", "check", "resolve", "access"} => Understood
        /\ step = "load" => \E m : Behind(m) /\ Held(m)
        /\ step = "check" => \E m : Behind(m) /\ m # 0 /\ Held(m - 1) /\ Loaded(LineFiles[m])
        /\ step \in {"resolve", "access"} => Asked /\ Held(Len(LineFiles))
        /\ CommandExact

\* The decision changes nothing of what it looks at.
LEMMA KeepsSystem == [Next]_vars => UNCHANGED sys
BY DEF Next, Resolving, vars, ProfileCheck, EndProfile, AddrSpec, UioAddrSpec, UioRegionSpec,
       UioMockSpec, UioSpecFails, ScanMap, EndMaps, ScanDevice, EndDevices, IomemHidden, IomemEntry,
       EndIomem, Blueprint, CheckStatus, CheckPower, CheckSupplier, EndSuppliers, ClockLine, EndClocks,
       CheckFabric, CheckManager

\* The decision ends with no usage error.
LEMMA KeepsVerdicts == verdict \in Verdicts /\ [Next]_vars => verdict' \in Verdicts
<1> SUFFICES ASSUME verdict \in Verdicts, [Next]_vars PROVE verdict' \in Verdicts
  OBVIOUS
<1> USE DEF Proceed, Advance, Finish, Verdicts
<1>1. CASE ProfileCheck \/ EndProfile
  BY <1>1 DEF ProfileCheck, EndProfile
<1>2. CASE AddrSpec \/ UioAddrSpec \/ UioRegionSpec \/ UioMockSpec \/ UioSpecFails
  BY <1>2 DEF AddrSpec, UioAddrSpec, UioRegionSpec, UioMockSpec, UioSpecFails
<1>3. CASE ScanMap \/ EndMaps \/ ScanDevice \/ EndDevices
  BY <1>3 DEF ScanMap, EndMaps, ScanDevice, EndDevices
<1>4. CASE IomemHidden \/ IomemEntry \/ EndIomem \/ Blueprint
  BY <1>4 DEF IomemHidden, IomemEntry, EndIomem, Blueprint
<1>5. CASE CheckStatus \/ CheckPower \/ CheckSupplier \/ EndSuppliers
  BY <1>5 DEF CheckStatus, CheckPower, CheckSupplier, EndSuppliers
<1>6. CASE ClockLine \/ EndClocks \/ CheckFabric \/ CheckManager
  BY <1>6 DEF ClockLine, EndClocks, CheckFabric, CheckManager
<1>7. CASE UNCHANGED vars
  BY <1>7 DEF vars
<1> QED BY <1>1, <1>2, <1>3, <1>4, <1>5, <1>6, <1>7 DEF Next, Resolving

\* What the references look at does not change.
LEMMA SameCommand ==
    ASSUME DecisionInv, FrontInv, [FNext]_<<vars, fvars>>
    PROVE  /\ \A f \in GivenFields : sys'[f] = sys[f]
           /\ sys.entry = "cli" /\ step \in {"cli", "load", "check", "resolve", "access", "exited"} =>
                UNCHANGED sys.custom
           /\ verdict \in Verdicts => verdict' \in Verdicts
<1>1. [Next]_vars \/ Configures
  BY FrontSteps, PrepareKeeps DEF DecisionInv
<1>2. \A f \in GivenFields : sys'[f] = sys[f]
  BY <1>1, KeepsSystem DEF Configures
<1>3. verdict \in Verdicts => verdict' \in Verdicts
  BY <1>1, KeepsVerdicts DEF Configures
<1>4. ASSUME step \in {"cli", "load", "check", "resolve", "access", "exited"} PROVE UNCHANGED sys.custom
  <2>1. CASE LoadProfile \/ OpenTarget
    BY <2>1 DEF LoadProfile, OpenTarget, Request, FrontInv, FrontType, IsCaller, Fields
  <2>2. CASE ~(LoadProfile \/ OpenTarget)
    <3>1. ~Prepare
      BY <1>4, <2>2 DEF Prepare, OneShot, OpenWithBuilder
    <3> QED BY <3>1, FrontSteps, KeepsSystem
  <2> QED BY <2>1, <2>2
<1> QED BY <1>2, <1>3, <1>4

\* Nor do their values.
LEMMA SameReferences ==
    ASSUME \A f \in GivenFields : sys'[f] = sys[f]
    PROVE  /\ UNCHANGED <<sys.entry, sys.line, sys.named, sys.files, sys.profiles, sys.memory>>
           /\ LineWords' = LineWords /\ LineBytes' = LineBytes /\ LineFiles' = LineFiles
           /\ Meanings' = Meanings /\ Option("-f")' = Option("-f")
           /\ \A a : Meant(a)' = Meant(a)
           /\ \A path : ProfileHolds(path)' <=> ProfileHolds(path)
<1>1. UNCHANGED <<sys.entry, sys.line, sys.named, sys.files, sys.profiles, sys.memory>>
  BY DEF GivenFields
<1>2. Line' = Line
  BY <1>1 DEF Line
<1>3. \A n : IsArgument(n)' <=> IsArgument(n)
  BY <1>2 DEF IsArgument, TakesArgument
<1>4. Tokens' = Tokens
  BY <1>2, <1>3 DEF Tokens
<1>5. ArgumentsOf("-w")' = ArgumentsOf("-w") /\ ArgumentsOf("-v")' = ArgumentsOf("-v")
  BY <1>2, <1>4 DEF ArgumentsOf
<1>6. Option("-f")' = Option("-f") /\ Option("-d")' = Option("-d")
  BY <1>2, <1>4 DEF Option
<1>7. LineRadix' = LineRadix
  BY <1>6 DEF LineRadix
<1>8. LineWords' = LineWords
  BY <1>2, <1>4 DEF LineWords, InOrder
<1>9. LineFiles' = LineFiles
  <2>1. InOrder(ArgumentsOf("-v"))' = InOrder(ArgumentsOf("-v"))
    BY <1>2, <1>5 DEF InOrder
  <2> QED BY <2>1 DEF LineFiles
<1>10. LineBytes' = LineBytes
  <2> DEFINE K == ArgumentsOf("-w")
             G == WidthGiven(Line[LastOf(K)])
  <2>1. LineBytes = IF K = {} THEN 4 ELSE CHOOSE bytes \in G : TRUE
    BY Zenon DEF LineBytes, LastOf
  <2>2. LineBytes' = IF K' = {} THEN 4 ELSE CHOOSE bytes \in G' : TRUE
    BY Zenon DEF LineBytes, LastOf
  <2>3. K' = K
    BY <1>5
  <2>4. Line[LastOf(K)]' = Line[LastOf(K)]
    BY <1>2, <2>3 DEF LastOf
  <2>5. G' = G
    BY <2>4 DEF WidthGiven, Separated, Denotes
  <2> HIDE DEF G, K
  <2> QED BY <2>1, <2>2, <2>3, <2>5
<1>11. OptionsValid' <=> OptionsValid
  BY <1>2, <1>4, <1>5 DEF OptionsValid, TakesArgument
<1>12. Meanings' = Meanings
  BY <1>7, <1>8, <1>10, <1>11 DEF Meanings
<1>13. \A a : Meant(a)' = Meant(a)
  BY <1>8, <1>10 DEF Meant
<1>14. \A path : ProfileHolds(path)' <=> ProfileHolds(path)
  BY <1>1 DEF ProfileHolds, Holds
<1> QED BY <1>1, <1>6, <1>8, <1>9, <1>10, <1>12, <1>13, <1>14

CommandSteps == {"cli", "load", "check", "resolve", "access", "exited"}

\* A step of the command line.
Commanding ==
    DecisionInv /\ FrontInv /\ CommandInv /\ sys.entry = "cli" /\ [FNext]_<<vars, fvars>>

\* What every step of the command line may rely on.
LEMMA CommandContext ==
    ASSUME Commanding
    PROVE  /\ \A f \in GivenFields : sys'[f] = sys[f]
           /\ UNCHANGED <<sys.entry, sys.line, sys.named, sys.files, sys.profiles, sys.memory>>
           /\ ~sys.custom /\ ~sys'.custom /\ verdict' \in Verdicts
           /\ step \in CommandSteps /\ IsCaller(sys) /\ FrontType /\ StepInv
BY SameCommand, SameReferences DEF Commanding, CommandInv, FrontInv, FrontType, CommandSteps

\* The profiles loaded and held remain so.
LEMMA SameProgress ==
    ASSUME \A f \in GivenFields : sys'[f] = sys[f], UNCHANGED cli
    PROVE  \A m : (Behind(m)' <=> Behind(m)) /\ (Held(m)' <=> Held(m))
<1>1. LineFiles' = LineFiles /\ \A path : ProfileHolds(path)' <=> ProfileHolds(path)
  BY SameReferences
<1>2. \A m : Behind(m)' <=> Behind(m)
  BY <1>1 DEF Behind
<1>3. \A m : Held(m)' <=> Held(m)
  BY <1>1 DEF Held
<1> QED BY <1>2, <1>3

\* An access once taken from the line stays that of the line.
LEMMA SameUnderstood ==
    ASSUME \A f \in GivenFields : sys'[f] = sys[f], UNCHANGED <<cli.force, op>>
    PROVE  Understood' <=> Understood
<1>1. Meanings' = Meanings /\ Option("-f")' = Option("-f") /\ \A a : Meant(a)' = Meant(a)
  BY SameReferences
<1> QED BY <1>1 DEF Understood

\* An end that is neither a usage error nor a success.
LEMMA Refused ==
    ASSUME Commanding, step' = "exited", exit' \notin UsageErrors \cup {"ok"}, Understood
    PROVE  CommandInv'
<1>1. Meanings' # {}
  BY CommandContext, SameReferences DEF Understood
<1>2. CommandExact'
  BY <1>1 DEF CommandExact
<1> QED BY <1>2, CommandContext DEF CommandInv

\* A usage error leaves a line without meaning, and nothing done.
LEMMA UsageRefused ==
    ASSUME Commanding, step = "cli", step' = "exited", exit' \in UsageErrors, Meanings = {}, UNCHANGED log
    PROVE  CommandInv'
<1>1. log' = <<>> /\ Meanings' = {}
  BY CommandContext, SameReferences DEF StepInv, Preparing
<1>2. exit' # "ok"
  BY DEF UsageErrors
<1>3. CommandExact'
  BY <1>1, <1>2 DEF CommandExact
<1> QED BY <1>3, CommandContext DEF CommandInv

\* The profiles of a line are as many as its -v options.
LEMMA LineFilesType ==
    ASSUME IsCaller(sys)
    PROVE  Len(Line) \in Nat /\ Len(LineFiles) \in Nat
<1>1. Len(Line) \in Nat
  <2>1. sys.line \in Seq(ToSet(sys.line))
    BY DEF IsCaller, IsSequence
  <2> HIDE DEF ToSet
  <2> QED BY <2>1 DEF Line
<1> DEFINE K == ArgumentsOf("-v")
           paths == InOrder(K)
<1>2. IsFiniteSet(K)
  <2>1. K \in SUBSET (1..Len(Line)) /\ IsFiniteSet(1..Len(Line))
    BY <1>1, FS_Interval DEF ArgumentsOf
  <2> QED BY <2>1, FS_Subset
<1>3. LineFiles = [n \in 1..Len(paths) |-> paths[n].text]
  BY DEF LineFiles
<1> HIDE DEF K
<1>4. Len(paths) \in Nat
  BY <1>2, InOrderType
<1> HIDE DEF paths
<1>5. LineFiles = [n \in 1..Len(paths) |-> LineFiles[n]]
  BY <1>3
<1>6. Len(LineFiles) = Len(paths)
  BY <1>4, <1>5, FunctionAppend
<1> QED BY <1>1, <1>4, <1>6

\* One token scanned, or the scan ended by an error, --help or --version.
LEMMA ScanKeepsCommand ==
    ASSUME Commanding,
           HelpOrVersion \/ ScanFlag \/ ScanProfile \/ ScanWidth \/ ScanUnknown \/ ScanWord
    PROVE  CommandInv'
<1>1. step = "cli" /\ UNCHANGED <<vars, op, log>>
  BY DEF HelpOrVersion, ScanFlag, ScanProfile, ScanWidth, ScanUnknown, ScanWord, Scanning
<1>2. PICK n : Scanned(n)
  BY <1>1 DEF Commanding, CommandInv
<1>3. IsCaller(sys) /\ sys'.line = sys.line
  BY CommandContext
<1>4. ASSUME NEW m, step' = "cli", ScannedNext(m) PROVE CommandInv'
  <2>1. Scanned(m)'
    <3>1. Line' = Line
      BY <1>3 DEF Line
    <3> QED BY <1>3, <1>4, <3>1, SameLine DEF ScannedNext, Scanned
  <2>2. CommandExact'
    BY <1>4 DEF CommandExact
  <2> QED BY <1>4, <2>1, <2>2, CommandContext DEF CommandInv
<1>5. ASSUME step' = "exited", exit' \in UsageErrors, ~OptionsValid PROVE CommandInv'
  <2>1. Meanings = {}
    BY <1>5 DEF Meanings
  <2> QED BY <1>1, <1>5, <2>1, UsageRefused
<1>6. CASE ScanFlag \/ ScanWord
  <2>1. step' = "cli"
    BY <1>1, <1>6 DEF ScanFlag, ScanWord
  <2> QED BY <1>2, <1>3, <1>4, <1>6, <2>1, NextToken
<1>7. CASE ScanProfile \/ ScanWidth
  BY <1>1, <1>2, <1>3, <1>4, <1>5, <1>7, NextOption
<1>8. CASE ScanUnknown
  <2>1. n \in Tokens /\ Token = Line[n]
    <3>1. n \in 1..Len(Line) /\ Token = Line[n]
      BY <1>2, <1>3, <1>8, ScanTokenAt DEF ScanUnknown
    <3> QED BY <1>2, <3>1 DEF Scanned, Tokens
  <2>2. ~OptionsValid
    BY <1>8, <2>1 DEF ScanUnknown, OptionsValid
  <2> QED BY <1>5, <1>8, <2>2 DEF ScanUnknown, Leave, UsageErrors
<1>9. CASE HelpOrVersion
  <2>1. step' = "exited" /\ exit' \in {"help", "version"}
    BY <1>9 DEF HelpOrVersion, Leave
  <2>2. CommandExact'
    BY <2>1 DEF CommandExact
  <2> QED BY <2>1, <2>2, CommandContext DEF CommandInv
<1> QED BY <1>6, <1>7, <1>8, <1>9

\* The operands parsed.
LEMMA OperandsKeepCommand ==
    ASSUME Commanding, Operands
    PROVE  CommandInv'
<1>1. step = "cli" /\ UNCHANGED <<vars, cli, log>> /\ cli.at > Len(sys.line)
  BY DEF Operands
<1>2. PICK n : Scanned(n)
  BY <1>1 DEF Commanding, CommandInv
<1>3. IsCaller(sys) /\ FrontType
  BY CommandContext
<1>4. Len(Line) \in Nat
  BY <1>3, LineFilesType
<1>5. n = Len(Line) + 1
  BY <1>1, <1>2, <1>4 DEF Scanned, ScanOf, Line
<1>6. /\ OptionsValid /\ cli.force = Option("-f") /\ cli.radix = LineRadix /\ cli.bytes = LineBytes
      /\ cli.paths = LineFiles /\ cli.words = LineWords
  BY <1>2, <1>4, <1>5, LastScan DEF Scanned
<1>7. /\ UsageError(cli.words) \in UsageErrors \cup {"ok"}
      /\ UsageError(cli.words) = "ok" <=> Meanings # {}
      /\ UsageError(cli.words) = "ok" => \A t \in Targets(cli.words) : \E a \in Meanings : t = Meant(a)
  BY <1>3, <1>6, OperandsExact
<1>8. CASE UsageError(cli.words) # "ok"
  <2>1. step' = "exited" /\ exit' \in UsageErrors /\ Meanings = {}
    BY <1>7, <1>8 DEF Operands, Leave
  <2> QED BY <1>1, <2>1, UsageRefused
<1>9. CASE UsageError(cli.words) = "ok"
  <2>1. step' = "load" /\ \E a \in Meanings : op' = Meant(a)
    BY <1>7, <1>9 DEF Operands, Go
  <2>2. Understood'
    BY <1>1, <1>6, <2>1, CommandContext, SameReferences DEF Understood
  <2>3. Behind(0) /\ Held(0)
    <3>1. Len(LineFiles) \in Nat
      BY <1>3, LineFilesType
    <3> QED BY <1>6, <3>1 DEF Behind, Held
  <2>4. \E m : Behind(m)' /\ Held(m)'
    BY <1>1, <2>3, CommandContext, SameProgress
  <2>5. CommandExact'
    BY <2>1 DEF CommandExact
  <2> QED BY <2>1, <2>2, <2>4, <2>5, CommandContext DEF CommandInv
<1> QED BY <1>8, <1>9

\* A check that passes, prepared as DeviceBuilder runs it, holds in memory.
LEMMA PreparedHolds ==
    ASSUME NEW check, NEW fields,
           \A key \in NumberKeys : check[key] = FieldOf(fields, key),
           LET p == Prepared(check) IN
           p.readable /\ \A b \in p.mask : b \in p.actual <=> b \in p.expected
    PROVE  Holds(fields)
<1>1. /\ check["addr"] = FieldOf(fields, "addr") /\ check["mask"] = FieldOf(fields, "mask")
      /\ check["expected"] = FieldOf(fields, "expected")
  BY DEF NumberKeys
<1>2. Readable(check.addr)
  BY DEF Prepared
<1>3. check.addr \in DOMAIN sys.memory
  BY <1>2 DEF Readable
<1>4. \A b \in Bits(check.mask) : b \in sys.memory[check.addr] <=> b \in Bits(check.expected)
  BY <1>2 DEF Prepared
<1> QED BY <1>1, <1>3, <1>4 DEF Holds

\* The next profile loaded, or none left.
LEMMA LoadKeepsCommand ==
    ASSUME Commanding, LoadProfile
    PROVE  CommandInv'
<1>1. step = "load" /\ cli.paths # <<>> /\ UNCHANGED op
  BY DEF LoadProfile
<1>2. PICK m : Behind(m) /\ Held(m)
  BY <1>1 DEF Commanding, CommandInv
<1>3. Understood
  BY <1>1 DEF Commanding, CommandInv
<1>4. IsCaller(sys) /\ FrontType /\ \A f \in GivenFields : sys'[f] = sys[f]
  BY CommandContext
<1> DEFINE path == Head(cli.paths)
           found == ChecksOf(path)
<1>5. CASE found = {}
  <2>1. step' = "exited" /\ exit' \in {"E_VALIDATION_PROFILE_PARSE", "E_CLI_NO_PROFILE"}
    BY <1>5 DEF LoadProfile, Leave
  <2> QED BY <1>3, <2>1, Refused DEF UsageErrors
<1>6. CASE found # {}
  <2>1. PICK checks \in found :
          sys' = [sys EXCEPT !.profile = [k \in 1..Len(checks) |-> Prepared(checks[k])]]
    BY <1>6 DEF LoadProfile
  <2>2. step' = "check" /\ cli' = [cli EXCEPT !.paths = Tail(@)]
    BY <1>6 DEF LoadProfile, Go
  <2> DEFINE P == Seq({token.text : token \in LineTokens})
  <2>3. cli.paths \in P /\ cli \in CliTypes /\ P = Seq({token.text : token \in LineTokens})
    BY <1>4 DEF FrontType, CliTypes
  <2>4. cli'.paths = Tail(cli.paths) /\ cli'.force = cli.force
    <3> HIDE DEF P
    <3> QED BY <2>2, <2>3 DEF CliTypes
  <2> HIDE DEF P, path, found
  <2>5. /\ Len(cli.paths) \in Nat \ {0} /\ path = cli.paths[1]
        /\ Len(Tail(cli.paths)) = Len(cli.paths) - 1
        /\ \A k \in 1..(Len(cli.paths) - 1) : Tail(cli.paths)[k] = cli.paths[k + 1]
    <3>1. ASSUME NEW S, NEW s \in Seq(S), s # <<>>
          PROVE  /\ Len(s) \in Nat \ {0} /\ Head(s) = s[1] /\ Len(Tail(s)) = Len(s) - 1
                 /\ \A k \in 1..(Len(s) - 1) : Tail(s)[k] = s[k + 1]
      BY <3>1
    <3> QED BY <1>1, <2>3, <3>1 DEF P, path
  <2>6. LineFiles' = LineFiles /\ Len(LineFiles) \in Nat /\ m \in Nat /\ Len(cli.paths) = Len(LineFiles) - m
        /\ m + 1 \in 0..Len(LineFiles) /\ m + 1 # 0 /\ (m + 1) - 1 = m
    <3>1. LineFiles' = LineFiles
      BY <1>4, SameReferences
    <3>2. Len(LineFiles) \in Nat
      BY <1>4, LineFilesType
    <3> QED BY <1>2, <2>5, <3>1, <3>2 DEF Behind
  <2>7. path = LineFiles[m + 1]
    <3>1. 1 \in 1..Len(cli.paths)
      BY <2>5
    <3> QED BY <1>2, <2>5, <3>1 DEF Behind
  <2>8. Behind(m + 1)'
    <3>1. Len(cli'.paths) = Len(LineFiles') - (m + 1)
      BY <2>4, <2>5, <2>6
    <3>2. ASSUME NEW k \in 1..Len(cli'.paths) PROVE cli'.paths[k] = LineFiles'[(m + 1) + k]
      <4>1. k \in 1..(Len(cli.paths) - 1) /\ k + 1 \in 1..Len(cli.paths) /\ m + (k + 1) = (m + 1) + k
        BY <2>4, <2>5, <2>6, <3>2
      <4>2. cli.paths[k + 1] = LineFiles[m + (k + 1)]
        BY <1>2, <4>1 DEF Behind
      <4> QED BY <2>4, <2>5, <2>6, <4>1, <4>2
    <3> QED BY <2>6, <3>1, <3>2 DEF Behind
  <2>9. Held((m + 1) - 1)'
    <3>1. \A q : ProfileHolds(q)' <=> ProfileHolds(q)
      BY <1>4, SameReferences
    <3> QED BY <1>2, <2>6, <3>1 DEF Held
  <2>10. Loaded(LineFiles[m + 1])'
    <3>0. PICK file : file = Contents[sys.files[path]]
      OBVIOUS
    <3>1. path \in DOMAIN sys.files /\ sys.profiles /\ checks \in ParseProfile(file)
      BY <2>1, <3>0 DEF found, ChecksOf
    <3>2. IsFile(file)
      BY <1>4, <3>0, <3>1, ContentsAssumption DEF IsCaller
    <3>3. /\ IsProfile(file) /\ Len(checks) = Len(CheckList(file)) /\ Len(checks) \in Nat
          /\ \A k \in 1..Len(checks), key \in NumberKeys : checks[k][key] = FieldOf(CheckList(file)[k], key)
      <4>1. checks \in Seq([CheckKeys -> Nat])
        BY <3>1, <3>2, ProfileExact
      <4>2. Len(checks) \in Nat
        BY <4>1
      <4> QED BY <3>1, <3>2, <4>2, ProfileExact
    <3> DEFINE p == [k \in 1..Len(checks) |-> Prepared(checks[k])]
    <3>4. sys'.profile = p
      BY <1>4, <2>1 DEF IsCaller, Fields
    <3>5. UNCHANGED <<sys.files, sys.profiles, sys.memory>>
      BY <1>4, SameReferences
    <3>6. Len(p) = Len(checks)
      <4>1. p = [k \in 1..Len(checks) |-> p[k]]
        OBVIOUS
      <4> HIDE DEF p
      <4> QED BY <3>3, <4>1, FunctionAppend
    <3>7. ASSUME NEW k \in 1..Len(checks), ProfilePasses(k)' PROVE Holds(CheckList(file)[k])'
      <4>1. sys'.profile[k] = Prepared(checks[k])
        BY <3>4
      <4>2. Holds(CheckList(file)[k])
        BY <3>3, <3>7, <4>1, PreparedHolds DEF ProfilePasses
      <4> QED BY <3>5, <4>2 DEF Holds
    <3>8. file = Contents[sys'.files[LineFiles'[m + 1]]]
      BY <2>6, <2>7, <3>0, <3>5
    <3>9. LineFiles'[m + 1] \in DOMAIN sys'.files /\ sys'.profiles
      BY <2>6, <2>7, <3>1, <3>5
    <3> HIDE DEF p
    <3>10. \A k \in 1..Len(sys'.profile) : ProfilePasses(k)' => Holds(CheckList(file)[k])'
      BY <3>4, <3>6, <3>7
    <3> QED BY <3>3, <3>4, <3>6, <3>8, <3>9, <3>10, Zenon DEF Loaded
  <2>11. Understood'
    BY <1>1, <1>3, <1>4, <2>4, SameUnderstood
  <2>12. CommandExact'
    BY <2>2 DEF CommandExact
  <2>13. \E n : (Behind(n) /\ n # 0 /\ Held(n - 1) /\ Loaded(LineFiles[n]))'
    BY <2>6, <2>8, <2>9, <2>10
  <2> QED BY <2>2, <2>11, <2>12, <2>13, CommandContext DEF CommandInv
<1> QED BY <1>5, <1>6

\* DeviceBuilder told what to open.
LEMMA OpenKeepsCommand ==
    ASSUME Commanding, OpenTarget
    PROVE  CommandInv'
<1>1. step = "load" /\ cli.paths = <<>> /\ UNCHANGED <<cli, op>>
  BY DEF OpenTarget
<1>2. PICK m : Behind(m) /\ Held(m)
  BY <1>1 DEF Commanding, CommandInv
<1>3. Understood
  BY <1>1 DEF Commanding, CommandInv
<1>4. IsCaller(sys) /\ \A f \in GivenFields : sys'[f] = sys[f]
  BY CommandContext
<1>5. CASE ~op.uio /\ op.base % op.bytes # 0
  <2>1. step' = "exited" /\ exit' = "E_UNALIGNED_WIDTH"
    BY <1>5 DEF OpenTarget, Leave
  <2> QED BY <1>3, <2>1, Refused DEF UsageErrors
<1>6. CASE ~(~op.uio /\ op.base % op.bytes # 0)
  <2>1. /\ step' = "resolve"
        /\ sys' = [sys EXCEPT !.request = IF op.uio THEN "uio" ELSE "auto",
                              !.base = op.base, !.size = op.bytes,
                              !.matches = Matches(op.name),
                              !.force = cli.force, !.readOnly = ~op.write]
    BY <1>6 DEF OpenTarget, Request, Go
  <2>2. /\ sys'.request = IF op.uio THEN "uio" ELSE "auto"
        /\ sys'.base = op.base /\ sys'.matches = Matches(op.name) /\ sys'.force = cli.force
    BY <1>4, <2>1 DEF IsCaller, Fields
  <2>3. Option("-f")' = Option("-f") /\ LineFiles' = LineFiles /\ UNCHANGED sys.named
    BY <1>4, SameReferences
  <2>4. Asked'
    <3>1. Matches(op.name)' = Matches(op.name)
      BY <1>1, <2>3 DEF Matches
    <3> QED BY <1>1, <1>3, <2>2, <2>3, <3>1 DEF Asked, Understood
  <2>5. Held(Len(LineFiles))'
    <3>1. Len(LineFiles) \in Nat
      BY <1>4, LineFilesType
    <3>2. m = Len(LineFiles)
      BY <1>1, <1>2, <3>1 DEF Behind
    <3>3. Held(m)'
      BY <1>1, <1>2, <1>4, SameProgress
    <3> QED BY <2>3, <3>2, <3>3 DEF Held
  <2>6. Understood'
    BY <1>1, <1>3, <1>4, SameUnderstood
  <2>7. CommandExact'
    BY <2>1 DEF CommandExact
  <2> QED BY <2>1, <2>4, <2>5, <2>6, <2>7, CommandContext DEF CommandInv
<1> QED BY <1>5, <1>6

\* The profile under way stays that of its file.
LEMMA SameLoaded ==
    ASSUME UNCHANGED sys
    PROVE  \A path : Loaded(path)' <=> Loaded(path)
BY DEF Loaded, Holds, ProfilePasses

\* One check of a profile made.
LEMMA RunCheckKeepsCommand ==
    ASSUME Commanding, RunCheck
    PROVE  CommandInv'
<1>1. step = "check" /\ UNCHANGED <<sys, step, cli, op, exit>>
  BY DEF RunCheck, ProfileCheck
<1>2. PICK m : Behind(m) /\ m # 0 /\ Held(m - 1) /\ Loaded(LineFiles[m])
  BY <1>1 DEF Commanding, CommandInv
<1>3. LineFiles' = LineFiles
  BY CommandContext, SameReferences
<1>4. Loaded(LineFiles[m])'
  <2>1. PICK path : path = LineFiles[m]
    OBVIOUS
  <2>2. Loaded(path)'
    BY <1>1, <1>2, <2>1, SameLoaded
  <2>3. path = LineFiles'[m]
    BY <1>3, <2>1
  <2> QED BY <2>2, <2>3 DEF Loaded
<1>5. Behind(m)' /\ Held(m - 1)'
  BY <1>1, <1>2, CommandContext, SameProgress
<1>6. Understood'
  <2>1. Understood
    BY <1>1 DEF Commanding, CommandInv
  <2> QED BY <1>1, <2>1, CommandContext, SameUnderstood
<1>7. CommandExact'
  BY <1>1 DEF CommandExact
<1>8. \E n : (Behind(n) /\ n # 0 /\ Held(n - 1) /\ Loaded(LineFiles[n]))'
  BY <1>2, <1>4, <1>5
<1> QED BY <1>1, <1>6, <1>7, <1>8, CommandContext DEF CommandInv

\* All checks of a profile passed, or one failed.
LEMMA EndChecksKeepCommand ==
    ASSUME Commanding, EndChecks
    PROVE  CommandInv'
<1>1. step = "check" /\ step' = "load" /\ UNCHANGED <<vars, cli, op>> /\ pc = "profile" /\ i > Len(sys.profile)
  BY DEF EndChecks, Commanding, Go
<1>2. PICK m : Behind(m) /\ m # 0 /\ Held(m - 1) /\ Loaded(LineFiles[m])
  BY <1>1 DEF Commanding, CommandInv
<1>3. i \in Nat /\ Len(sys.profile) \in Nat
  BY DEF Commanding, DecisionInv, BaseInv, TypeInv, IsSystem
<1>4. \A k \in 1..Len(sys.profile) : ProfilePasses(k)
  BY <1>1, <1>3 DEF Commanding, DecisionInv, VerdictInv
<1>5. ProfileHolds(LineFiles[m])
  BY <1>2, <1>4 DEF Loaded, ProfileHolds
<1>6. m \in Nat
  <2>1. Len(LineFiles) \in Nat
    BY CommandContext, LineFilesType
  <2> QED BY <1>2, <2>1 DEF Behind
<1>7. Held(m)
  <2>1. \A k \in 1..m : k \in 1..(m - 1) \/ k = m
    BY <1>6
  <2> QED BY <1>2, <1>5, <2>1 DEF Held
<1>8. Behind(m)' /\ Held(m)'
  BY <1>1, <1>2, <1>7, CommandContext, SameProgress
<1>9. Understood'
  <2>1. Understood
    BY <1>1 DEF Commanding, CommandInv
  <2> QED BY <1>1, <2>1, CommandContext, SameUnderstood
<1>10. CommandExact'
  BY <1>1 DEF CommandExact
<1>11. \E n : Behind(n)' /\ Held(n)'
  BY <1>8
<1> QED BY <1>1, <1>9, <1>10, <1>11, CommandContext DEF CommandInv

\* The request stays what it is while it is decided on.
LEMMA DecidingKeepsCommand ==
    ASSUME Commanding, step \in {"resolve", "access"}, step' \in {"resolve", "access"},
           UNCHANGED <<sys, cli, op>>
    PROVE  CommandInv'
<1>1. Understood /\ Asked /\ Held(Len(LineFiles))
  BY DEF Commanding, CommandInv
<1>2. \A f \in GivenFields : sys'[f] = sys[f]
  BY CommandContext
<1>3. LineFiles' = LineFiles /\ Option("-f")' = Option("-f")
  BY <1>2, SameReferences
<1>4. Understood'
  BY <1>1, <1>2, SameUnderstood
<1>5. Asked'
  <2>1. Matches(op.name)' = Matches(op.name)
    BY DEF Matches
  <2> QED BY <1>1, <1>3, <2>1 DEF Asked
<1>6. Held(Len(LineFiles))'
  <2>1. PICK m : m = Len(LineFiles)
    OBVIOUS
  <2>2. Held(m)'
    BY <1>1, <1>2, <2>1, SameProgress
  <2> QED BY <1>3, <2>1, <2>2 DEF Held
<1>7. CommandExact'
  BY DEF CommandExact
<1> QED BY <1>4, <1>5, <1>6, <1>7, CommandContext DEF CommandInv

\* The decision, and what may fail after it.
LEMMA ResolveKeepsCommand ==
    ASSUME Commanding, Resolve \/ Refuse \/ MapWindow \/ OpenFails \/ LockFails
    PROVE  CommandInv'
<1>1. step \in {"check", "resolve", "access"}
  BY DEF Resolve, Refuse, MapWindow, OpenFails, LockFails
<1>2. Understood
  BY <1>1 DEF Commanding, CommandInv
<1>3. CASE Resolve
  <2>1. [Next]_vars
    BY <1>3 DEF Resolve, Next
  <2>2. UNCHANGED <<sys, step, cli, op>> /\ step = "resolve"
    BY <1>3, <2>1, KeepsSystem DEF Resolve, fvars
  <2> QED BY <2>2, DecidingKeepsCommand
<1>4. CASE Refuse
  <2>1. step' = "exited" /\ exit' = verdict /\ pc = "done" /\ verdict # "accept"
    BY <1>4 DEF Refuse, Leave
  <2>2. verdict \in Verdicts
    BY DEF Commanding, CommandInv
  <2>3. verdict \notin UsageErrors \cup {"ok"}
    BY <2>2 DEF Verdicts, UsageErrors
  <2> QED BY <1>2, <2>1, <2>3, Refused
<1>5. CASE MapWindow
  <2>1. verdict = "accept" /\ step = "resolve" /\ UNCHANGED <<vars, cli, op>>
    BY <1>5 DEF MapWindow
  <2>2. mapper \in {"devmem", "uio"} /\ ~sys.custom
    BY <2>1, CommandContext DEF Commanding, DecisionInv, BaseInv, TypeInv, UioInv
  <2>3. MapError \in {"ok", "E_DEBUG_DISABLED", "E_UIO_ADDRESS_INVALID"}
    BY <2>2 DEF MapError
  <2>4. CASE MapError = "ok"
    <3>1. step' = "access"
      BY <1>5, <2>4 DEF MapWindow, Go
    <3> QED BY <2>1, <3>1, DecidingKeepsCommand DEF vars
  <2>5. CASE MapError # "ok"
    <3>1. step' = "exited" /\ exit' = MapError
      BY <1>5, <2>5 DEF MapWindow, Leave
    <3> QED BY <1>2, <2>3, <2>5, <3>1, Refused DEF UsageErrors
  <2> QED BY <2>4, <2>5
<1>6. CASE OpenFails \/ LockFails
  <2>1. step' = "exited" /\ exit' \in {"open", "lock"}
    BY <1>6 DEF OpenFails, LockFails, Leave
  <2> QED BY <1>2, <2>1, Refused DEF UsageErrors
<1> QED BY <1>3, <1>4, <1>5, <1>6

\* The one access of a command.
LEMMA AccessKeepsCommand ==
    ASSUME Commanding, Access
    PROVE  CommandInv'
<1>1. step = "access" /\ step' = "exited" /\ exit' = AccessError /\ UNCHANGED <<vars, cli, op>>
  BY DEF Access, Leave
<1>2. Understood /\ Asked /\ Held(Len(LineFiles))
  BY <1>1 DEF Commanding, CommandInv
<1>3. CASE AccessError # "ok"
  <2>1. AccessError \in {"E_READ_ONLY", "E_UNALIGNED_WIDTH", "E_OUT_OF_BOUNDS"}
    BY <1>3 DEF AccessError, Reg!CheckAccess
  <2> QED BY <1>1, <1>2, <2>1, Refused DEF UsageErrors
<1>4. CASE AccessError = "ok"
  <2>1. verdict = "accept" /\ pc = "done" /\ ~sys.custom /\ FrontType
    BY <1>1, CommandContext DEF StepInv
  <2>2. PICK a \in Meanings : op = Meant(a)
    BY <1>2 DEF Understood
  <2>3. /\ op.uio = a.uio /\ op.base = a.base /\ op.name = a.name /\ op.offset = a.offset
        /\ op.bytes = LineBytes /\ op.write = (LineWords[1].text = "write") /\ op.value = a.value
    BY <2>2 DEF Meant
  <2>4. a.uio => sys.named[a.name] = 1
    <3>1. a.uio => sys.matches = 1
      <4>1. a.uio => sys.request = "uio"
        BY <1>2, <2>3 DEF Asked
      <4> QED BY <2>1, <4>1 DEF Commanding, DecisionInv, VerdictInv, VerdictExact
    <3> QED BY <1>2, <2>3, <3>1 DEF Asked, Matches
  <2>5. ~a.uio => window.base = a.base
    <3>1. ~a.uio => sys.request # "uio" /\ sys.base = a.base
      BY <1>2, <2>3 DEF Asked
    <3> QED BY <3>1 DEF Commanding, DecisionInv, BaseInv, WindowInv
  <2> DEFINE made == [addr |-> window.base + op.offset, bytes |-> op.bytes, write |-> op.write,
                      value |-> op.value]
             wanted == [addr |-> (IF a.uio THEN window.base ELSE a.base) + a.offset,
                        bytes |-> LineBytes, write |-> LineWords[1].text = "write", value |-> a.value]
  <2>6. made = wanted
    BY <2>3, <2>5
  <2>7. log' = Append(log, made)
    BY <1>4, <2>1 DEF Access
  <2>8. log'[Len(log')] = wanted
    <3>1. log \in Seq(Accesses) /\ IsAccess(op) /\ window.base \in Nat
      BY <2>1, CommandContext, AcceptedWindow DEF FrontType, Commanding
    <3>2. made \in Accesses
      BY <3>1 DEF IsAccess, Accesses
    <3> HIDE DEF made, wanted
    <3>3. Len(log') = Len(log) + 1 /\ log'[Len(log) + 1] = made
      BY <2>7, <3>1, <3>2, AppendProperties
    <3> QED BY <2>6, <3>3
  <2>9. /\ Meanings' = Meanings /\ LineBytes' = LineBytes /\ LineWords' = LineWords /\ LineFiles' = LineFiles
        /\ Option("-f")' = Option("-f") /\ \A path : ProfileHolds(path)' <=> ProfileHolds(path)
        /\ UNCHANGED <<sys, window>>
    BY <1>1, CommandContext, SameReferences DEF vars
  <2>10. \E b \in Meanings' :
            /\ log'[Len(log')] =
                [addr |-> (IF b.uio THEN window'.base ELSE b.base) + b.offset,
                 bytes |-> LineBytes', write |-> LineWords'[1].text = "write", value |-> b.value]
            /\ b.uio => sys'.named[b.name] = 1
    BY <2>2, <2>4, <2>8, <2>9
  <2>11. \A n \in 1..Len(LineFiles') : ProfileHolds(LineFiles[n])'
    <3>1. ASSUME NEW n \in 1..Len(LineFiles) PROVE ProfileHolds(LineFiles[n])'
      <4>1. PICK path : path = LineFiles[n]
        OBVIOUS
      <4>2. ProfileHolds(path)'
        BY <1>2, <2>9, <4>1 DEF Held
      <4>3. path = LineFiles'[n]
        BY <2>9, <4>1
      <4> QED BY <4>2, <4>3 DEF ProfileHolds
    <3> QED BY <2>9, <3>1
  <2>12. sys'.force = Option("-f")'
    BY <1>2, <2>9 DEF Asked
  <2>13. CommandExact'
    <3>1. exit' = "ok" /\ "ok" \notin UsageErrors /\ Meanings' # {}
      BY <1>1, <1>4, <2>2, <2>9 DEF UsageErrors
    <3> QED BY <2>10, <2>11, <2>12, <3>1 DEF CommandExact
  <2> QED BY <1>1, <2>13, CommandContext DEF CommandInv
<1> QED BY <1>3, <1>4

\* A front end that has ended does nothing more.
LEMMA ExitedStays ==
    ASSUME step = "exited", [FNext]_<<vars, fvars>>
    PROVE  UNCHANGED <<vars, fvars>>
<1>1. ~OneShot /\ ~InterfaceMap /\ ~OpenWithBuilder /\ ~LoadProfile /\ ~OpenTarget
  BY DEF OneShot, InterfaceMap, OpenWithBuilder, LoadProfile, OpenTarget
<1>2. ~HelpOrVersion /\ ~ScanFlag /\ ~ScanProfile /\ ~ScanWidth /\ ~ScanUnknown /\ ~ScanWord /\ ~Operands
  BY DEF HelpOrVersion, ScanFlag, ScanProfile, ScanWidth, ScanUnknown, ScanWord, Operands, Scanning
<1>3. ~RunCheck /\ ~EndChecks /\ ~Resolve /\ ~Refuse
  BY DEF RunCheck, EndChecks, Resolve, Refuse
<1>4. ~MapWindow /\ ~OpenFails /\ ~Access /\ ~LockFails
  BY DEF MapWindow, OpenFails, Access, LockFails
<1> QED BY <1>1, <1>2, <1>3, <1>4 DEF FNext

\* Nor does a step of others change anything.
LEMMA StutterKeepsCommand ==
    ASSUME Commanding, UNCHANGED <<vars, fvars>>
    PROVE  CommandInv'
<1>1. UNCHANGED <<sys, window, step, cli, op, log, exit, verdict>>
  BY DEF vars, fvars
<1>2. /\ Meanings' = Meanings /\ LineBytes' = LineBytes /\ LineWords' = LineWords /\ LineFiles' = LineFiles
      /\ Option("-f")' = Option("-f") /\ \A path : ProfileHolds(path)' <=> ProfileHolds(path)
  BY CommandContext, SameReferences
<1>3. CASE step = "cli"
  <2>1. PICK n : Scanned(n)
    BY <1>3 DEF Commanding, CommandInv
  <2>2. Scanned(n)'
    <3>1. Line' = Line /\ sys'.line = sys.line
      BY <1>1 DEF Line
    <3> QED BY <1>1, <2>1, <3>1, SameLine DEF Scanned
  <2>3. CommandExact'
    BY <1>1, <1>3 DEF CommandExact
  <2> QED BY <1>1, <1>3, <2>2, <2>3, CommandContext DEF CommandInv
<1>4. CASE step = "load"
  <2>1. PICK m : Behind(m) /\ Held(m)
    BY <1>4 DEF Commanding, CommandInv
  <2>2. Behind(m)' /\ Held(m)'
    BY <1>1, <2>1, CommandContext, SameProgress
  <2>3. Understood'
    <3>1. Understood
      BY <1>4 DEF Commanding, CommandInv
    <3> QED BY <1>1, <3>1, CommandContext, SameUnderstood
  <2>4. CommandExact'
    BY <1>1, <1>4 DEF CommandExact
  <2>5. \E n : Behind(n)' /\ Held(n)'
    BY <2>2
  <2> QED BY <1>1, <1>4, <2>3, <2>4, <2>5, CommandContext DEF CommandInv
<1>5. CASE step = "check"
  <2>1. PICK m : Behind(m) /\ m # 0 /\ Held(m - 1) /\ Loaded(LineFiles[m])
    BY <1>5 DEF Commanding, CommandInv
  <2>2. Loaded(LineFiles[m])'
    <3>1. PICK path : path = LineFiles[m]
      OBVIOUS
    <3>2. Loaded(path)'
      BY <1>1, <2>1, <3>1, SameLoaded
    <3>3. path = LineFiles'[m]
      BY <1>2, <3>1
    <3> QED BY <3>2, <3>3 DEF Loaded
  <2>3. Behind(m)' /\ Held(m - 1)'
    BY <1>1, <2>1, CommandContext, SameProgress
  <2>4. Understood'
    <3>1. Understood
      BY <1>5 DEF Commanding, CommandInv
    <3> QED BY <1>1, <3>1, CommandContext, SameUnderstood
  <2>5. CommandExact'
    BY <1>1, <1>5 DEF CommandExact
  <2>6. \E n : (Behind(n) /\ n # 0 /\ Held(n - 1) /\ Loaded(LineFiles[n]))'
    BY <2>1, <2>2, <2>3
  <2> QED BY <1>1, <1>5, <2>4, <2>5, <2>6, CommandContext DEF CommandInv
<1>6. CASE step \in {"resolve", "access"}
  BY <1>1, <1>6, DecidingKeepsCommand
<1>7. CASE step = "exited"
  <2>1. CommandExact
    BY DEF Commanding, CommandInv
  <2>2. \A n : ProfileHolds(LineFiles[n])' <=> ProfileHolds(LineFiles[n])
    <3> TAKE n
    <3>1. PICK path : path = LineFiles[n]
      OBVIOUS
    <3>2. path = LineFiles'[n]
      BY <1>2, <3>1
    <3>3. ProfileHolds(path)' <=> ProfileHolds(path)
      BY <1>2
    <3> QED BY <3>1, <3>2, <3>3 DEF ProfileHolds
  <2>3. CommandExact'
    BY <1>1, <1>2, <2>1, <2>2 DEF CommandExact
  <2> QED BY <1>1, <1>7, <2>3, CommandContext DEF CommandInv
<1> QED BY <1>3, <1>4, <1>5, <1>6, <1>7, CommandContext DEF CommandSteps

\* Every step keeps CommandInv.
LEMMA NextCommand ==
    DecisionInv /\ FrontInv /\ CommandInv /\ [FNext]_<<vars, fvars>> => CommandInv'
<1> SUFFICES ASSUME DecisionInv, FrontInv, CommandInv, [FNext]_<<vars, fvars>> PROVE CommandInv'
  OBVIOUS
<1>1. CASE sys.entry # "cli"
  <2>1. sys'.entry = sys.entry
    BY SameCommand, SameReferences
  <2> QED BY <1>1, <2>1 DEF CommandInv
<1>2. CASE sys.entry = "cli"
  <2>1. Commanding
    BY <1>2 DEF Commanding
  <2>2. ~OneShot /\ ~InterfaceMap /\ ~OpenWithBuilder
    BY <2>1, CommandContext DEF OneShot, InterfaceMap, OpenWithBuilder, CommandSteps
  <2>3. CASE HelpOrVersion \/ ScanFlag \/ ScanProfile \/ ScanWidth \/ ScanUnknown \/ ScanWord \/ Operands
    BY <2>1, <2>3, ScanKeepsCommand, OperandsKeepCommand
  <2>4. CASE LoadProfile \/ OpenTarget \/ RunCheck \/ EndChecks
    BY <2>1, <2>4, LoadKeepsCommand, OpenKeepsCommand, RunCheckKeepsCommand, EndChecksKeepCommand
  <2>5. CASE Resolve \/ Refuse \/ MapWindow \/ OpenFails \/ Access \/ LockFails
    BY <2>1, <2>5, ResolveKeepsCommand, AccessKeepsCommand
  <2>6. CASE UNCHANGED <<vars, fvars>>
    BY <2>1, <2>6, StutterKeepsCommand
  <2> QED BY <2>2, <2>3, <2>4, <2>5, <2>6 DEF FNext
<1> QED BY <1>1, <1>2

\* The scan begins at the first token with no option set.
LEMMA InitCommand == FInit => CommandInv
<1> SUFFICES ASSUME FInit, sys.entry = "cli" PROVE CommandInv
  BY DEF CommandInv
<1>1. step = "cli" /\ cli = NoOptions /\ verdict = "none" /\ ~sys.custom /\ IsCaller(sys)
  <2>1. PICK family \in Systems : sys \in family
    BY DEF FInit, Init
  <2>2. IsCaller(sys) /\ ~sys.custom
    BY <2>1, CallersAssumption
  <2> QED BY <2>2 DEF FInit, Init
<1>2. Scanned(1)
  <2>1. 1 \in Nat \ {0} /\ 1 <= Len(Line) + 1
    BY <1>1, LineFilesType
  <2> QED BY <1>1, <2>1, FirstScan DEF Scanned
<1>3. CommandExact
  BY <1>1 DEF CommandExact
<1> QED BY <1>1, <1>2, <1>3 DEF CommandInv, Verdicts

\* CommandExact: run_cli takes the line apart in one pass, an option and its argument
\* at a time, and its operands by their number; what it does is what the line means
\* as a whole, with the last of its widths, and after every one of its profiles.
THEOREM CommandExactHolds == FSpec => []CommandExact
<1>1. FInit => DecisionInv /\ FrontInv /\ CommandInv
  BY InitDecision, InitFront, InitCommand DEF FInit
<1>2. DecisionInv /\ FrontInv /\ CommandInv /\ [FNext]_<<vars, fvars>>
        => DecisionInv' /\ FrontInv' /\ CommandInv'
  BY NextDecision, NextFrontType, NextStepInv, NextLog, NextCommand DEF FrontInv
<1>3. DecisionInv /\ FrontInv /\ CommandInv => CommandExact
  BY DEF CommandInv, CommandExact
<1> QED BY <1>1, <1>2, <1>3, PTL DEF FSpec

=============================================================================
