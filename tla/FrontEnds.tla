------------------------------ MODULE FrontEnds ------------------------------
(***************************************************************************)
(* The ways to one register access: the command line (main.rs), the        *)
(* one-shot functions (lib.rs), Interface::map (interface.rs), the C open  *)
(* functions (bindings/c) and DeviceBuilder itself, composed with the      *)
(* decision of DeviceBuilder::open (Preflight), the mapping of the window  *)
(* and the checks of the access.  `sys' also holds what the front end is   *)
(* given: its entry, the access to make (op), the command line, the files  *)
(* of its profiles, the flags, and the features of the build.              *)
(*                                                                         *)
(* A token of a command line is its text, whether that begins with a dash, *)
(* and its spelling as a number; -f stands for --force too, and so on.     *)
(***************************************************************************)
EXTENDS Preflight, SafetyProfile

CONSTANTS WidthBits,   \* bits of a value of each width: Top32 and Top64 are two's
          MockMax,     \* MOCK_MAX_SIZE
          Contents     \* the files there may be: sys.files[path] is the number of one

Reg == INSTANCE RegisterWindow WITH PageSize <- Page

ASSUME FrontEndsAssumption ==
    /\ WidthBits \in [Reg!Widths -> 1..Width]
    /\ Top32 = 2^WidthBits[4] /\ Top64 = 2^WidthBits[8] /\ WidthBits[8] = Width
    /\ \A bytes \in Reg!Widths : 2^WidthBits[bytes] \in 1..Top
    /\ MockMax \in Nat

VARIABLES
    step,   \* what the front end does next
    cli,    \* the options and words scanned so far
    op,     \* the access to make once the device is open
    log,    \* the accesses made to registers
    exit    \* "none", "ok", or the error that ended it

fvars == <<step, cli, op, log, exit>>

NoOptions == [at |-> 1, force |-> FALSE, radix |-> 16, bytes |-> 4,
              paths |-> <<>>, words |-> <<>>]

FInit ==
    /\ Init
    /\ step = IF sys.entry = "builder" THEN "check" ELSE sys.entry
    /\ cli = NoOptions
    /\ op = sys.op
    /\ log = <<>>
    /\ exit = "none"

Leave(result) == step' = "exited" /\ exit' = result

Go(next) == step' = next /\ UNCHANGED exit

\* What DeviceBuilder is told, and the window it resolves.
Request(builder) ==
    /\ sys' = builder
    /\ window' = [base |-> builder.base, size |-> builder.size]

-----------------------------------------------------------------------------
(* read_register_at, write_register_at; Interface::map; mmreg_open_* *)

OneShot ==
    /\ step = "oneshot"
    /\ IF sys.base % 4 # 0 THEN Leave("E_UNALIGNED_ACCESS") /\ UNCHANGED <<sys, window>>
       ELSE /\ Request([sys EXCEPT !.request = "auto", !.size = 4, !.readOnly = ~op.write])
            /\ Go("check")
    /\ UNCHANGED <<pc, i, mapper, owner, listed, pending, row, warnings, verdict, cli, op, log>>

\* The layout comes first, then the profile and the rest of map().
InterfaceMap ==
    /\ step = "interface"
    /\ IF Reg!LayoutValid(window, sys.registers) /\ ~WindowEmpty
       THEN Go("check") ELSE Leave("layout")
    /\ UNCHANGED <<vars, cli, op, log>>

\* parse_flags, and the region that open_with_builder allows a UIO device only.
FlagsInvalid ==
    \/ "unknown" \in sys.flags
    \/ "mock" \in sys.flags /\ "force" \notin sys.flags
    \/ sys.regionIndex # 0 /\ sys.request # "uio"

\* A region that is not there cannot be read.
Region(k) == IF k < Len(sys.regions) THEN sys.regions[k + 1]
             ELSE [addr |-> 0, size |-> 0, offset |-> 0]

OpenWithBuilder ==
    /\ step = "capi"
    /\ IF FlagsInvalid THEN Leave("E_INVALID_ARG") /\ UNCHANGED <<sys, window>>
       ELSE /\ Request([sys EXCEPT !.readOnly = "rdonly" \in sys.flags,
                                   !.force = "force" \in sys.flags,
                                   !.custom = "mock" \in sys.flags,
                                   !.region = Region(sys.regionIndex)])
            /\ Go("check")
    /\ UNCHANGED <<pc, i, mapper, owner, listed, pending, row, warnings, verdict, cli, op, log>>

-----------------------------------------------------------------------------
(* run_cli: the options *)

Has(text) == \E k \in 1..Len(sys.line) : sys.line[k].text = text

\* Help and the version are printed wherever they are asked for, help first.
HelpOrVersion ==
    /\ step = "cli" /\ cli.at = 1 /\ (Has("-h") \/ Has("-V"))
    /\ Leave(IF Has("-h") THEN "help" ELSE "version")
    /\ UNCHANGED <<vars, cli, op, log>>

Scanning == step = "cli" /\ ~Has("-h") /\ ~Has("-V") /\ cli.at <= Len(sys.line)

Token == sys.line[cli.at]

\* The argument of the option at hand, if the line goes on.
Argument == {sys.line[k] : k \in {cli.at + 1} \cap 1..Len(sys.line)}

ScanFlag ==
    /\ Scanning /\ Token.text \in {"-f", "-d"}
    /\ cli' = [cli EXCEPT !.at = @ + 1, !.force = @ \/ Token.text = "-f",
                          !.radix = IF Token.text = "-d" THEN 10 ELSE @]
    /\ UNCHANGED <<vars, step, op, log, exit>>

ScanProfile ==
    /\ Scanning /\ Token.text = "-v"
    /\ IF Argument = {} THEN Leave("E_CLI_MISSING_PROFILE") /\ UNCHANGED cli
       ELSE /\ \E path \in Argument :
                cli' = [cli EXCEPT !.at = @ + 2, !.paths = Append(@, path.text)]
            /\ UNCHANGED <<step, exit>>
    /\ UNCHANGED <<vars, op, log>>

\* parse_width: the bytes of a width given in bits.
ParseWidth(token) ==
    IF token.prefix = "none" /\ Separator \notin ToSet(token.chars)
    THEN {bytes \in Reg!Widths : 8 * bytes \in ParseNumber(token, 10, 65)}
    ELSE {}

ScanWidth ==
    /\ Scanning /\ Token.text = "-w"
    /\ IF Argument = {} THEN Leave("E_CLI_MISSING_WIDTH") /\ UNCHANGED cli
       ELSE IF \A raw \in Argument : ParseWidth(raw) = {}
       THEN Leave("E_CLI_INVALID_WIDTH") /\ UNCHANGED cli
       ELSE /\ \E raw \in Argument : \E bytes \in ParseWidth(raw) :
                cli' = [cli EXCEPT !.at = @ + 2, !.bytes = bytes]
            /\ UNCHANGED <<step, exit>>
    /\ UNCHANGED <<vars, op, log>>

KnownOptions == {"-f", "-d", "-v", "-w", "-h", "-V"}

ScanUnknown ==
    /\ Scanning /\ Token.dash /\ Token.text \notin KnownOptions
    /\ Leave("E_CLI_UNKNOWN_OPT")
    /\ UNCHANGED <<vars, cli, op, log>>

ScanWord ==
    /\ Scanning /\ ~Token.dash
    /\ cli' = [cli EXCEPT !.at = @ + 1, !.words = Append(@, Token)]
    /\ UNCHANGED <<vars, step, op, log, exit>>

-----------------------------------------------------------------------------
(* run_cli: the operands, all of them parsed before any register is read *)

\* Mutant of LooksLikeAddress: adc0 is taken for an address.
LooksLikeNumber(word, radix) == ParseNumber(word, radix, Top) # {}

\* looks_like_address: hexadecimal letters alone may be the name of a device.
LooksLikeAddress(word, radix) ==
    /\ word.prefix # "none" \/ (word.chars # <<>> /\ Head(word.chars) \in 0..9)
    /\ ParseNumber(word, radix, Top) # {}

ParseAddress(word) == ParseNumber(word, cli.radix, Top)

ParseOffset(word) == {v \in ParseNumber(word, cli.radix, Top) : v < Top32}

\* parse_value: the value fits the width that the whole line gives.
ParseValue(word) == {v \in ParseNumber(word, cli.radix, Top) : v < 2^WidthBits[cli.bytes]}

Commands == {"read", "write"}

\* The words of the longest command, and of one that gives an address.
UioWords(w) == IF w[1].text = "write" THEN 4 ELSE 3
AddressWords(w) == UioWords(w) - 1

\* The usage error of the words, "ok" if they name a target.
UsageError(w) ==
    IF w = <<>> THEN "E_CLI_MISSING_CMD"
    ELSE IF w[1].text \notin Commands THEN "E_CLI_UNKNOWN_CMD"
    ELSE IF Len(w) = 1 THEN "E_CLI_MISSING_ADDR"
    ELSE IF Len(w) < AddressWords(w) THEN "E_CLI_MISSING_VAL"
    ELSE IF Len(w) > UioWords(w) THEN "E_CLI_EXTRA_ARGS"
    ELSE IF Len(w) = AddressWords(w) /\ ParseAddress(w[2]) = {} THEN "E_CLI_INVALID_ADDR"
    ELSE IF Len(w) = UioWords(w) /\ LooksLikeAddress(w[2], cli.radix) THEN "E_CLI_EXTRA_ARGS"
    ELSE IF Len(w) = UioWords(w) /\ ParseOffset(w[3]) = {} THEN "E_CLI_INVALID_OFFSET"
    ELSE IF w[1].text = "write" /\ ParseValue(w[Len(w)]) = {} THEN "E_CLI_INVALID_VAL"
    ELSE "ok"

\* CliTarget and the value, for words without usage error.
Targets(w) ==
    {[uio |-> Len(w) = UioWords(w), base |-> b, name |-> w[2].text, offset |-> o,
      bytes |-> cli.bytes, write |-> w[1].text = "write", value |-> v] :
        b \in IF Len(w) = UioWords(w) THEN {0} ELSE ParseAddress(w[2]),
        o \in IF Len(w) = UioWords(w) THEN ParseOffset(w[3]) ELSE {0},
        v \in IF w[1].text = "write" THEN ParseValue(w[Len(w)]) ELSE {0}}

Operands ==
    /\ step = "cli" /\ cli.at > Len(sys.line) /\ ~Has("-h") /\ ~Has("-V")
    /\ IF UsageError(cli.words) # "ok"
       THEN Leave(UsageError(cli.words)) /\ UNCHANGED op
       ELSE op' \in Targets(cli.words) /\ Go("load")
    /\ UNCHANGED <<vars, cli, log>>

-----------------------------------------------------------------------------
(* run_cli: the profiles, one after the other, and the access *)

\* A UIO region maps the whole window.
Through(r, w) == MapContains(r, w)

\* read_register_at reaches a register through /dev/mem or through a UIO region.
Reachable(s, addr) ==
    /\ addr % 4 = 0 /\ Fits(addr, 4)
    /\ \/ s.debug
       \/ \E m \in 1..Len(s.maps) : Through(s.maps[m], [base |-> addr, size |-> 4])

\* read_register_at(addr, true), for a check of a profile.
Readable(addr) == Reachable(sys, addr) /\ addr \in DOMAIN sys.memory

Bits(v) == {b \in 0..(Width - 1) : (v \div 2^b) % 2 = 1}

\* A check as Preflight executes it.
Prepared(check) ==
    [addr |-> check.addr, mask |-> Bits(check.mask), expected |-> Bits(check.expected),
     readable |-> Readable(check.addr),
     actual |-> IF Readable(check.addr) THEN sys.memory[check.addr] ELSE {}]

\* A file that is not there, or is not read without the `profile' feature, holds
\* no checks.
ChecksOf(path) ==
    IF path \in DOMAIN sys.files /\ sys.profiles THEN ParseProfile(Contents[sys.files[path]]) ELSE {}

LoadProfile ==
    /\ step = "load" /\ cli.paths # <<>>
    /\ LET found == ChecksOf(Head(cli.paths)) IN
       IF found = {}
       THEN /\ Leave(IF sys.profiles THEN "E_VALIDATION_PROFILE_PARSE" ELSE "E_CLI_NO_PROFILE")
            /\ UNCHANGED <<sys, i, cli>>
       ELSE /\ \E checks \in found :
                sys' = [sys EXCEPT !.profile = [k \in 1..Len(checks) |-> Prepared(checks[k])]]
            /\ i' = 1
            /\ cli' = [cli EXCEPT !.paths = Tail(@)]
            /\ Go("check")
    /\ UNCHANGED <<pc, window, mapper, owner, listed, pending, row, warnings, verdict, op, log>>

\* The devices of that name in /sys/class/uio.
Matches(name) == IF name \in DOMAIN sys.named THEN sys.named[name] ELSE 0

\* open_target: an address must be aligned to the width, a UIO device has its own
\* window; a read opens the device read-only.
OpenTarget ==
    /\ step = "load" /\ cli.paths = <<>>
    /\ IF ~op.uio /\ op.base % op.bytes # 0
       THEN Leave("E_UNALIGNED_WIDTH") /\ UNCHANGED <<sys, window, pc, i>>
       ELSE /\ Request([sys EXCEPT !.request = IF op.uio THEN "uio" ELSE "auto",
                                   !.base = op.base, !.size = op.bytes,
                                   !.matches = Matches(op.name),
                                   !.force = cli.force, !.readOnly = ~op.write])
            /\ pc' = "spec" /\ i' = 1
            /\ Go("resolve")
    /\ UNCHANGED <<mapper, owner, listed, pending, row, warnings, verdict, cli, op, log>>

-----------------------------------------------------------------------------
(* DeviceBuilder::open, and the access *)

\* One check of a profile: the register is read, if it can be.
RunCheck ==
    /\ step = "check" /\ ProfileCheck
    /\ LET check == sys.profile[i] IN
       log' = IF ~check.readable THEN log
              ELSE Append(log, [addr |-> check.addr, bytes |-> 4, write |-> FALSE, value |-> 0])
    /\ UNCHANGED <<step, cli, op, exit>>

\* The command line goes on with its next profile, a builder with its window.
EndChecks ==
    /\ step = "check"
    /\ IF sys.entry = "cli"
       THEN pc = "profile" /\ i > Len(sys.profile) /\ Go("load") /\ UNCHANGED vars
       ELSE EndProfile /\ Go("resolve")
    /\ UNCHANGED <<cli, op, log>>

Resolve ==
    /\ step = "resolve" /\ Resolving
    /\ UNCHANGED fvars

Refuse ==
    /\ step \in {"check", "resolve"} /\ pc = "done" /\ verdict # "accept"
    /\ Leave(verdict)
    /\ UNCHANGED <<vars, cli, op, log>>

\* The region map_uio maps: the one named, or the one that find_uio_region found.
MappedRegions ==
    IF sys.request \in {"uio", "uio_at"} THEN {sys.region}
    ELSE {sys.maps[m] : m \in 1..Len(sys.maps)}

\* CapiMockMapper::map.
MockError ==
    IF sys.entry = "capi" /\ window.size > MockMax THEN "E_INVALID_ARG" ELSE "ok"

\* Mutant of MapError: map_uio does not look at the region again.
MapErrorUnchecked ==
    IF mapper = "devmem" /\ ~sys.custom /\ ~sys.debug THEN "E_DEBUG_DISABLED" ELSE "ok"

\* What map() finds out by itself: a mock window too large, /dev/mem without the
\* `debug' feature, a window that is not in the region of its UIO device.
MapError ==
    CASE sys.custom -> MockError
      [] ~sys.custom /\ mapper = "devmem" ->
            IF sys.debug THEN "ok" ELSE "E_DEBUG_DISABLED"
      [] ~sys.custom /\ mapper = "uio" ->
            IF \E r \in MappedRegions : Through(r, window) THEN "ok" ELSE "E_UIO_ADDRESS_INVALID"

MapWindow ==
    /\ step = "resolve" /\ verdict = "accept"
    /\ IF MapError = "ok" THEN Go("access") ELSE Leave(MapError)
    /\ UNCHANGED <<vars, cli, op, log>>

\* The device file cannot be opened, mapped or locked.
OpenFails ==
    /\ step = "resolve" /\ verdict = "accept" /\ ~sys.custom
    /\ Leave("open")
    /\ UNCHANGED <<vars, cli, op, log>>

AccessError ==
    Reg!CheckAccess([base |-> window.base, size |-> window.size, readOnly |-> sys.readOnly],
                    op.offset, op.bytes, op.write)

\* Device::read or write.
Access ==
    /\ step = "access"
    /\ log' = IF AccessError # "ok" \/ sys.custom THEN log
              ELSE Append(log, [addr |-> window.base + op.offset, bytes |-> op.bytes,
                                write |-> op.write, value |-> op.value])
    /\ Leave(AccessError)
    /\ UNCHANGED <<vars, cli, op>>

\* The lock of the register cannot be taken.
LockFails ==
    /\ step = "access" /\ AccessError = "ok"
    /\ Leave("lock")
    /\ UNCHANGED <<vars, cli, op, log>>

-----------------------------------------------------------------------------
(* What the front ends are given *)

\* No region of the kernel's goes beyond the last address.
IsRegion(r) ==
    r.addr \in Nat /\ r.size \in Nat /\ r.offset \in Nat /\ r.addr + r.size <= Top

IsAccess(a) ==
    /\ a.base \in Nat /\ a.offset \in Nat /\ a.value \in Nat
    /\ a.bytes \in Reg!Widths /\ a.write \in BOOLEAN

\* No option is spelled without its dash.
IsToken(token) ==
    /\ IsSpelling(token) /\ token.dash \in BOOLEAN
    /\ token.text \in KnownOptions => token.dash

Entries == {"builder", "oneshot", "interface", "capi", "cli"}

Fields ==
    {"request", "base", "size", "force", "custom", "privileged", "uioOwner", "maps", "regs",
     "iomem", "health", "clocks", "managers", "profile", "matches", "region", "debugfs",
     "entry", "op", "readOnly", "debug", "line", "files", "profiles", "named", "memory",
     "flags", "regionIndex", "regions", "registers"}

\* A builder's profile says of each check whether its register can be read.
IsCaller(s) ==
    /\ IsSystem(s) /\ DOMAIN s = Fields
    /\ s.entry \in Entries
    /\ IsAccess(s.op)
    /\ s.readOnly \in BOOLEAN /\ s.debug \in BOOLEAN
    /\ IsRegion(s.region)
    /\ s.regionIndex \in Nat /\ Len(s.regions) \in Nat
    /\ \A k \in 1..Len(s.regions) : IsRegion(s.regions[k])
    /\ \A k \in 1..Len(s.profile) : s.profile[k].readable => Reachable(s, s.profile[k].addr)
    /\ IsSequence(s.line) /\ \A k \in 1..Len(s.line) : IsToken(s.line[k])
    /\ \A path \in DOMAIN s.files : s.files[path] \in DOMAIN Contents
    /\ \A addr \in DOMAIN s.memory : s.memory[addr] \subseteq Nat

\* A command line has no profile before it loads one, and no mapper of its own.
ASSUME CallersAssumption ==
    \A family \in Systems : \A s \in family :
        IsCaller(s) /\ (s.entry = "cli" => s.profile = <<>> /\ ~s.custom)

\* Whatever a file holds, it has fields, or none.
ASSUME ContentsAssumption == \A n \in DOMAIN Contents : IsFile(Contents[n])

-----------------------------------------------------------------------------
FNext ==
    \/ OneShot \/ InterfaceMap \/ OpenWithBuilder
    \/ HelpOrVersion \/ ScanFlag \/ ScanProfile \/ ScanWidth \/ ScanUnknown \/ ScanWord
    \/ Operands \/ LoadProfile \/ OpenTarget
    \/ RunCheck \/ EndChecks \/ Resolve \/ Refuse
    \/ MapWindow \/ OpenFails \/ Access \/ LockFails

FSpec == FInit /\ [][FNext]_<<vars, fvars>>

-----------------------------------------------------------------------------
(* Properties *)

\* A UIO window is a non-empty part of its region that ends where it does, and it
\* is what the device was asked for otherwise.
WindowWarranted ==
    /\ window.size > 0
    /\ IF sys.request # "uio" THEN window = [base |-> sys.base, size |-> sys.size]
       ELSE sys.matches = 1 /\ sys.region.size > 0 =>
            /\ window.base >= sys.region.addr
            /\ window.base + window.size = sys.region.addr + sys.region.size

\* Every byte of an access is in one UIO region.
InUioRegion(a) ==
    \E r \in {sys.region} \cup {sys.maps[m] : m \in 1..Len(sys.maps)} :
        Bytes(a.addr, a.bytes) \subseteq Bytes(r.addr, r.size)

\* Whichever way a register is reached, the access is aligned in physical memory
\* and lies in the window that was decided on, which is what was asked for or the
\* rest of a UIO region.  Without the `debug' feature, and whenever UIO maps the
\* window, no byte outside the UIO regions is touched, not even by the checks of a
\* profile.  A write is the last access, to a device that was opened for writing;
\* with a custom mapper there is none but the reads of the profile.
AccessWarranted ==
    /\ verdict = "accept" => WindowWarranted
    /\ \A k \in 1..Len(log) :
        LET a == log[k]
            last == exit = "ok" /\ k = Len(log) /\ ~sys.custom
        IN
        /\ a.addr % a.bytes = 0
        /\ ~sys.debug => InUioRegion(a)
        /\ a.write => last /\ ~sys.readOnly
        /\ last => /\ Bytes(a.addr, a.bytes) \subseteq WindowBytes
                   /\ mapper = "uio" => InUioRegion(a)

-----------------------------------------------------------------------------
(* What a command line means, all of it looked at at once *)

Line == sys.line

TakesArgument(k) == Line[k].text \in {"-v", "-w"}

\* A token is the argument of the option before it unless that is an argument itself:
\* the last of an odd number of options that take one.
IsArgument(k) ==
    Cardinality({j \in 1..(k - 1) : \A m \in j..(k - 1) : TakesArgument(m)}) % 2 = 1

Tokens == {k \in 1..Len(Line) : ~IsArgument(k)}

ArgumentsOf(option) ==
    {k \in 1..Len(Line) \ Tokens : Line[k - 1].text = option}

\* The n-th of the numbers in K.
Nth(K, n) == CHOOSE k \in {x \in K : Cardinality({j \in K : j <= x}) = n} : TRUE

\* The tokens at the places in K, from left to right.
InOrder(K) == [n \in 1..Cardinality(K) |-> Line[Nth(K, n)]]

LineWords == InOrder({k \in Tokens : ~Line[k].dash})

Option(text) == \E k \in Tokens : Line[k].text = text

LineRadix == IF Option("-d") THEN 10 ELSE 16

Widths8To64 == [bits \in {8, 16, 32, 64} |-> bits \div 8]

WidthGiven(token) ==
    {Widths8To64[bits] : bits \in DOMAIN Widths8To64 \cap
        (IF token.prefix = "none" /\ ~Separated(token)
         THEN Denotes(token, 10, 65) ELSE {})}

\* The last width of the line, 32 bits if it gives none.
LineBytes ==
    IF ArgumentsOf("-w") = {} THEN 4
    ELSE LET last == CHOOSE k \in ArgumentsOf("-w") : \A j \in ArgumentsOf("-w") : j <= k
         IN  CHOOSE bytes \in WidthGiven(Line[last]) : TRUE

OptionsValid ==
    /\ \A k \in Tokens : Line[k].dash => Line[k].text \in KnownOptions
    /\ \A k \in Tokens : TakesArgument(k) => k < Len(Line)
    /\ \A k \in ArgumentsOf("-w") : WidthGiven(Line[k]) # {}

\* The accesses that the words can mean: at most one.
Meanings ==
    LET w == LineWords
        number(word, top) == Denotes(word, LineRadix, top)
        write == w[1].text = "write"
        value == IF write THEN number(w[Len(w)], 2^WidthBits[LineBytes]) ELSE {0}
        operands == Len(w) - (IF write THEN 2 ELSE 1)
        named == w[2].prefix = "none" /\ (w[2].chars = <<>> \/ w[2].chars[1] > 9)
    IN
    IF ~OptionsValid \/ w = <<>> THEN {}
    ELSE IF w[1].text \notin {"read", "write"} THEN {}
    ELSE IF operands = 1
    THEN {[uio |-> FALSE, base |-> b, name |-> w[2].text, offset |-> 0, value |-> v] :
            b \in number(w[2], Top), v \in value}
    ELSE IF operands = 2 /\ (named \/ number(w[2], Top) = {})
    THEN {[uio |-> TRUE, base |-> 0, name |-> w[2].text, offset |-> o, value |-> v] :
            o \in number(w[3], Top32), v \in value}
    ELSE {}

UsageErrors ==
    {"E_CLI_MISSING_PROFILE", "E_CLI_MISSING_WIDTH", "E_CLI_INVALID_WIDTH",
     "E_CLI_UNKNOWN_OPT", "E_CLI_MISSING_CMD", "E_CLI_UNKNOWN_CMD", "E_CLI_MISSING_ADDR",
     "E_CLI_MISSING_VAL", "E_CLI_EXTRA_ARGS", "E_CLI_INVALID_ADDR", "E_CLI_INVALID_OFFSET",
     "E_CLI_INVALID_VAL"}

\* The profiles of the line, in order, as the files they are in.
LineFiles ==
    LET paths == InOrder(ArgumentsOf("-v"))
    IN  [n \in 1..Len(paths) |-> paths[n].text]

\* A check holds in memory.
Holds(check) ==
    LET addr == FieldOf(check, "addr") IN
    /\ addr \in DOMAIN sys.memory
    /\ \A b \in Bits(FieldOf(check, "mask")) :
        b \in sys.memory[addr] <=> b \in Bits(FieldOf(check, "expected"))

ProfileHolds(path) ==
    /\ path \in DOMAIN sys.files /\ sys.profiles
    /\ LET file == Contents[sys.files[path]] IN
        IsProfile(file) /\ \A k \in 1..Len(CheckList(file)) : Holds(CheckList(file)[k])

\* A line without meaning touches no register, whatever its profiles; and only such a
\* line is a usage error.  A successful command has made the one access the line means
\* (its target, its direction, its value, the last of its widths), after every check
\* of every profile of the line held; -f is what it is opened with, wherever it stands.
CommandExact ==
    sys.entry = "cli" /\ step = "exited" /\ exit \notin {"help", "version"} =>
        /\ exit \in UsageErrors <=> Meanings = {}
        /\ exit \in UsageErrors => log = <<>>
        /\ exit = "ok" =>
            /\ \E a \in Meanings :
                /\ log[Len(log)] =
                    [addr |-> (IF a.uio THEN window.base ELSE a.base) + a.offset,
                     bytes |-> LineBytes, write |-> LineWords[1].text = "write",
                     value |-> a.value]
                /\ a.uio => sys.named[a.name] = 1
            /\ \A n \in 1..Len(LineFiles) : ProfileHolds(LineFiles[n])
            /\ sys.force = Option("-f")
=============================================================================
