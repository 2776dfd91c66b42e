---------------------------- MODULE MCPreflight ----------------------------
(* Small instances of FrontEnds and Preflight: families of systems, each of    *)
(* which varies one part of what is read and keeps the rest plain.             *)
EXTENDS FrontEnds

CONSTANTS d, u   \* a platform device, and a UIO device

Well == [status |-> "okay", power |-> "active", suppliers |-> <<>>,
         idleClocks |-> 0, fpga |-> FALSE]

MCWidthBits == [bytes \in {1, 2, 4, 8} |->
    CASE bytes = 1 -> 1 [] bytes = 2 -> 2 [] bytes = 4 -> 3 [] bytes = 8 -> 4]

ReadAt(offset, bytes) ==
    [uio |-> FALSE, base |-> 0, name |-> "", offset |-> offset, bytes |-> bytes,
     write |-> FALSE, value |-> 0]

WriteAt(offset, bytes) == [ReadAt(offset, bytes) EXCEPT !.write = TRUE, !.value = 1]

Plain ==
    [entry |-> "builder", op |-> ReadAt(0, 4), readOnly |-> FALSE, debug |-> TRUE,
     line |-> <<>>, files |-> <<>>, profiles |-> TRUE, named |-> <<>>, memory |-> <<>>,
     flags |-> {}, regionIndex |-> 0, regions |-> <<>>, registers |-> {},
     profile |-> <<>>, request |-> "auto", base |-> 4, size |-> 4, force |-> FALSE, custom |-> FALSE,
     matches |-> 0, region |-> [addr |-> 0, size |-> 0, offset |-> 0],
     uioOwner |-> NoDevice, maps |-> <<>>, regs |-> <<>>,
     iomem |-> <<>>, privileged |-> TRUE, health |-> [x \in Devices |-> Well],
     debugfs |-> "none", clocks |-> <<>>, managers |-> <<>>]

UpTo3(S) == UNION {[1..n -> S] : n \in 0..3}

-----------------------------------------------------------------------------
\* /proc/iomem draws a tree: a line is at most one deeper than the line above,
\* lies in its parent, and siblings follow each other without overlap.
IsTree(lines) ==
    \A k \in 1..Len(lines) :
        LET e == lines[k] IN
        /\ IF k = 1 THEN e.indent = 0 ELSE e.indent <= lines[k - 1].indent + 1
        /\ \A j \in 1..(k - 1) :
            LET p == lines[j]
                siblings == \A m \in (j + 1)..(k - 1) : lines[m].indent >= e.indent
            IN  /\ p.indent < e.indent /\ siblings => e.start >= p.start /\ e.end <= p.end
                /\ p.indent = e.indent /\ siblings => p.end < e.start

Ranges == {<<0, 7>>, <<4, 7>>, <<4, 15>>, <<8, 15>>, <<12, 15>>}

Lines == {[indent |-> n, start |-> r[1], end |-> r[2], restricted |-> m] :
            n \in 0..2, r \in Ranges, m \in BOOLEAN}

Trees == {t \in UpTo3(Lines) : IsTree(t)}

Windows == {<<0, 0>>, <<3, 1>>, <<4, 4>>, <<6, 4>>, <<12, 3>>, <<12, 4>>}

Node == [dev |-> d, start |-> 4, len |-> 5]

IomemSystems ==
    {[Plain EXCEPT !.iomem = t, !.base = w[1], !.size = w[2], !.regs = r, !.privileged = p] :
        t \in Trees, w \in Windows, r \in {<<>>, <<Node>>}, p \in BOOLEAN}

-----------------------------------------------------------------------------
ClockLines ==
    [row : {TRUE}, names : {{}, {d}}, count : 0..1, hw : {"Y", "N", "unknown"}]
        \cup [row : {FALSE}, names : {{}, {d}}, count : {0}, hw : {"unknown"}]

ClockSystems ==
    {[Plain EXCEPT !.clocks = c, !.debugfs = "summary", !.regs = <<Node>>, !.request = "devmem"] :
        c \in UpTo3(ClockLines)}

-----------------------------------------------------------------------------
\* Two devices on the platform bus, one of them with two UIO regions.
Board ==
    [Plain EXCEPT
        !.maps = <<[dev |-> u, addr |-> 0, size |-> 6], [dev |-> u, addr |-> 8, size |-> 8]>>,
        !.regs = <<[dev |-> d, start |-> 12, len |-> 4], [dev |-> u, start |-> 4, len |-> 12]>>]

Ills ==
    [status : {"absent", "okay", "disabled"}, power : {"active", "suspended"},
     suppliers : {<<>>, <<"active", "error">>}, idleClocks : 0..1, fpga : BOOLEAN]

OwnerSystems ==
    {[Board EXCEPT !.request = q, !.force = f, !.base = w[1], !.size = w[2],
            !.health = [x \in Devices |-> IF x = d THEN h ELSE Well], !.debugfs = c,
            !.managers = <<"unreadable", m>>] :
        q \in {"auto", "devmem"}, f \in BOOLEAN, w \in {<<4, 4>>, <<8, 4>>, <<12, 3>>},
        h \in Ills, c \in {"none", "counts"}, m \in {"operating", "other"}}

\* Page-aligned regions with a usable offset, with one past their end and with
\* none, an unaligned one, and one that cannot be read.
Regions ==
    {[addr |-> 0, size |-> 8, offset |-> 4], [addr |-> 0, size |-> 4, offset |-> 6],
     [addr |-> 8, size |-> 4, offset |-> 0], [addr |-> 6, size |-> 4, offset |-> 2],
     [addr |-> 4, size |-> 0, offset |-> 0]}

UioSystems ==
    {[Board EXCEPT !.request = "uio", !.force = f, !.custom = c, !.matches = n,
            !.region = g, !.uioOwner = o, !.op = a, !.readOnly = r,
            !.health = [x \in Devices |-> [Well EXCEPT !.power = s]]] :
        f \in BOOLEAN, c \in BOOLEAN, n \in 0..2, g \in Regions,
        a \in {ReadAt(2, 2), ReadAt(4, 4), ReadAt(0, 8), WriteAt(0, 2)}, r \in BOOLEAN,
        o \in {u, NoDevice}, s \in {"active", "suspending"}}

-----------------------------------------------------------------------------
Registers == SUBSET {0, 1}

Checks ==
    [addr : {8}, mask : {{}, {0}, {0, 1}}, expected : {{0}, {1}}, actual : Registers,
     readable : {TRUE}]
    \cup [addr : {6}, mask : {{}}, expected : {{}}, actual : {{}}, readable : {FALSE}]

ProfileSystems ==
    {[Board EXCEPT !.profile = c, !.force = f] :
        c \in UNION {[1..n -> Checks] : n \in 0..2}, f \in BOOLEAN}

-----------------------------------------------------------------------------
(* The front ends of the library *)

OneShotSystems ==
    {[Board EXCEPT !.entry = "oneshot", !.op = a, !.force = f, !.debug = b, !.base = x] :
        a \in {ReadAt(0, 4), WriteAt(0, 4)}, f \in BOOLEAN, b \in BOOLEAN, x \in 0..15}

InterfaceSystems ==
    {[Board EXCEPT !.entry = "interface", !.request = q, !.region = g, !.uioOwner = u,
            !.registers = {0, a.offset}, !.op = a, !.base = w[1], !.size = w[2], !.custom = c,
            !.debug = b, !.force = f] :
        q \in {"auto", "devmem", "uio_at"}, g \in Regions, a \in {ReadAt(4, 4), WriteAt(0, 4), ReadAt(2, 4)},
        w \in {<<0, 0>>, <<0, 6>>, <<2, 8>>, <<4, 8>>, <<8, 6>>, <<8, 8>>, <<12, 3>>},
        c \in BOOLEAN, b \in BOOLEAN, f \in BOOLEAN}

CApiSystems ==
    {[Board EXCEPT !.entry = "capi", !.request = q, !.matches = n, !.flags = f, !.regionIndex = r,
            !.regions = <<[addr |-> 0, size |-> 6, offset |-> 0], [addr |-> 8, size |-> 8, offset |-> 4]>>,
            !.uioOwner = u, !.op = a, !.size = z, !.debug = b] :
        q \in {"auto", "uio"}, n \in 0..1, f \in SUBSET {"rdonly", "force", "mock", "unknown"}, r \in 0..2,
        a \in {ReadAt(0, 4), WriteAt(2, 2)}, z \in {4, 10}, b \in BOOLEAN}

-----------------------------------------------------------------------------
(* Command lines *)

Word(text) == [text |-> text, dash |-> FALSE, prefix |-> "none", chars |-> <<Other>>]
Dash(text) == [Word(text) EXCEPT !.dash = TRUE]
Number(text, prefix, chars) ==
    [text |-> text, dash |-> FALSE, prefix |-> prefix, chars |-> chars]

\* A name, one of hexadecimal letters, and numbers that are in range in one radix only,
\* have a separator, or have no digit.
Operand ==
    {Word("gpio"), Number("a", "none", <<10>>), Number("0x4", "0x", <<4>>),
     Number("10", "none", <<1, 0>>), Number("8_", "none", <<8, Separator>>),
     Number("0x_", "0x", <<Separator>>)}

WidthOption(bits) == <<Dash("-w"), bits>>
Bits8  == Number("8", "none", <<8>>)
Bits16 == Number("16", "none", <<1, 6>>)
Bits24 == Number("24", "none", <<2, 4>>)
Bits64 == Number("64", "none", <<6, 4>>)

Before ==
    {<<>>, <<Dash("-f")>>, <<Dash("-d")>>, <<Dash("-x")>>, <<Dash("-V"), Dash("-h")>>, <<Dash("-V")>>,
     WidthOption(Bits64), WidthOption(Bits8) \o WidthOption(Bits16), WidthOption(Bits24) \o WidthOption(Bits64), WidthOption(Dash("-f")),
     <<Dash("-f")>> \o WidthOption(Bits16)}

After == {<<>>, <<Dash("-d")>>, WidthOption(Bits64), <<Dash("-w")>>, <<Dash("-v")>>, <<Dash("-f")>>}

Sentences ==
    {<<>>} \cup {<<Word(c)>> \o w : c \in {"read", "write"}, w \in UpTo3(Operand)}
           \cup {<<Word("erase")>> \o w : w \in [1..1 -> Operand]}

CommandLines == {b \o w \o a : b \in Before, w \in Sentences, a \in After}

\* Two UIO devices, one of them named like a number.
Names == [n \in {"gpio", "a"} |-> 1]

CommandSystems ==
    {[Board EXCEPT !.entry = "cli", !.line = l, !.named = Names, !.debug = b,
            !.region = [addr |-> 8, size |-> 8, offset |-> 0], !.uioOwner = u] :
        l \in CommandLines, b \in BOOLEAN}

-----------------------------------------------------------------------------
(* Safety profiles *)

Quoted(key, num) == [key |-> key, ok |-> TRUE, quoted |-> TRUE, num |-> num]
Bare(key, num) == [Quoted(key, num) EXCEPT !.quoted = FALSE]
N(chars) == Number("", "none", chars)

Check0 == <<Quoted("name", N(<<>>)), Quoted("addr", Number("", "0x", <<8>>)),
            Bare("mask", N(<<2>>)), Quoted("expected", Number("", "0x", <<Separator, 3>>))>>

Spellings ==
    <<Quoted("mask", N(<<1, 2>>)), Bare("mask", N(<<0, 1>>)), Bare("mask", N(<<0>>)),
      Bare("mask", N(<<1, Separator>>)), Bare("mask", Number("", "0x", <<1>>)),
      Quoted("mask", N(<<1, Separator>>)), Quoted("mask", N(<<10>>)), Bare("mask", N(<<7>>)),
      [Quoted("mask", N(<<1>>)) EXCEPT !.ok = FALSE],
      Quoted(Extension, N(<<>>)), Quoted("unknown", N(<<1>>))>>

Addresses == <<<<4>>, <<1, 2>>, <<0>>, <<1, 6>>, <<6>>>>

\* Each a check, or what one mistake makes of it.
Objects ==
    <<Check0>>
        \o [k \in 1..4 |-> RemoveAt(Check0, k)]
        \o [k \in 1..4 |-> Append(Check0, Check0[k])]
        \o [k \in 1..Len(Spellings) |-> ReplaceAt(Check0, 3, Spellings[k])]
        \o [k \in 1..Len(Spellings) |-> <<Spellings[k]>> \o Check0]
        \o [k \in 1..Len(Addresses) |-> ReplaceAt(Check0, 2, Quoted("addr", N(Addresses[k])))]

Name == [key |-> "name", ok |-> TRUE, checks |-> <<>>]
List(checks) == [Name EXCEPT !.key = "checks", !.checks = checks]
File(fields) == [fields |-> fields, trailing |-> FALSE]

\* The first file is a profile that holds where there is memory.
MCContents ==
    <<File(<<Name, List(<<Check0>>)>>), [File(<<Name, List(<<Check0>>)>>) EXCEPT !.trailing = TRUE],
      File(<<Name>>), File(<<List(<<Check0>>)>>), File(<<Name, List(<<>>)>>),
      File(<<Name, Name, List(<<Check0>>)>>), File(<<Name, List(<<Check0>>), List(<<Check0>>)>>),
      File(<<[Name EXCEPT !.key = Extension], Name, List(<<Check0>>)>>),
      File(<<Name, [Name EXCEPT !.key = "unknown"], List(<<Check0>>)>>),
      File(<<[Name EXCEPT !.ok = FALSE], List(<<Check0>>)>>)>>
    \o [k \in 1..Len(Objects) |-> File(<<Name, List(<<Objects[k]>>)>>)]
    \o [k \in 1..Len(Objects) |-> File(<<List(<<Check0, Objects[k]>>), Name>>)]

Profile(path) == <<Dash("-v"), Word(path)>>

ProfileLines ==
    {Profile("p") \o <<Word("read"), Word("gpio"), Number("4", "none", <<4>>)>>,
     Profile("q") \o Profile("p") \o <<Word("write"), Number("0x8", "0x", <<8>>), N(<<1>>)>>,
     Profile("p") \o Profile("q") \o <<Dash("-f"), Word("read"), Number("0x8", "0x", <<8>>)>>,
     Profile("p") \o <<Word("write"), Number("0x8", "0x", <<8>>), Word("zz")>>,
     <<Dash("-v"), Dash("-f"), Word("read"), Number("0x8", "0x", <<8>>)>>}

ProfileFileSystems ==
    {[Board EXCEPT !.entry = "cli", !.line = l, !.named = Names, !.region = [addr |-> 8, size |-> 8, offset |-> 0],
            !.uioOwner = u, !.debug = b, !.profiles = e,
            !.memory = [a \in {4, 8} |-> {1}],
            !.files = [p \in {"p", "q"} |-> IF p = "p" THEN f ELSE 1]] :
        l \in ProfileLines, f \in 1..Len(MCContents), b \in BOOLEAN, e \in BOOLEAN}

MCSystems ==
    {IomemSystems, ClockSystems, OwnerSystems, UioSystems, ProfileSystems,
     OneShotSystems, InterfaceSystems, CApiSystems, CommandSystems, ProfileFileSystems}
=============================================================================
