-------------------------- MODULE DeviceAccessProofs --------------------------
(***************************************************************************)
(* What check_access ensures about locks and mappings and what a field     *)
(* write does to a register: facts about RegisterWindow and BitFields, for *)
(* every page size, window, offset, width and field.                       *)
(*                                                                         *)
(* Then the proofs about DeviceAccess, for any threads, windows, lock      *)
(* files, page size and calls: type correctness, that no lock is leaked,   *)
(* that no two threads are ever at one byte, that Mapping::register's      *)
(* assertion holds, and that accesses and sequences implement              *)
(* AtomicRegisters.                                                        *)
(***************************************************************************)
EXTENDS DeviceAccess, TLAPS

-----------------------------------------------------------------------------
(* Windows, accesses and fields *)

LEMMA ModBounds ==
    ASSUME NEW a \in Int, NEW n \in Nat, n > 0
    PROVE  a % n \in 0..n - 1 /\ a = n * (a \div n) + (a % n) /\ a \div n \in Int
  OBVIOUS

\* A multiple of n plus a remainder below n has that remainder.
LEMMA ModUnique ==
    ASSUME NEW q \in Int, NEW r \in Int, NEW n \in Nat, n > 0, 0 <= r, r < n
    PROVE  (n * q + r) % n = r /\ (n * q + r) \div n = q
  OBVIOUS

LEMMA PageFacts ==
    ASSUME NEW a \in Nat
    PROVE  /\ PageOf(a) \in Nat
           /\ PageOf(a) = PageSize * (a \div PageSize)
           /\ PageOf(a) <= a /\ a < PageOf(a) + PageSize
<1>1. PageSize \in Nat /\ PageSize > 0
  BY PageAssumption
<1>2. /\ a % PageSize \in 0..PageSize - 1
      /\ a = PageSize * (a \div PageSize) + (a % PageSize)
      /\ a \div PageSize \in Int
  BY <1>1, ModBounds
<1>3. a \div PageSize >= 0
  BY <1>1, <1>2
<1> QED BY <1>1, <1>2, <1>3 DEF PageOf

\* Whatever lies between a page's start and its end has that page.
LEMMA SamePage ==
    ASSUME NEW a \in Nat, NEW x \in Nat, PageOf(a) <= x, x < PageOf(a) + PageSize
    PROVE  PageOf(x) = PageOf(a)
<1>1. PageSize \in Nat /\ PageSize > 0
  BY PageAssumption
<1> DEFINE q == a \div PageSize
           r == x - PageOf(a)
<1>2. q \in Int
  BY <1>1, ModBounds
<1>3. PageOf(a) \in Nat /\ PageOf(a) = PageSize * q
  BY PageFacts
<1>4. r \in Int /\ 0 <= r /\ r < PageSize /\ x = PageSize * q + r
  BY <1>1, <1>3
<1>5. x % PageSize = r
  <2>1. (PageSize * q + r) % PageSize = r
    BY <1>1, <1>2, <1>4, ModUnique
  <2> QED BY <2>1, <1>4
<1> QED BY <1>3, <1>5 DEF PageOf

\* An aligned register ends in the page it begins in.
LEMMA AlignedFits ==
    ASSUME NEW a \in Nat, NEW b \in Widths, a % b = 0
    PROVE  a + b <= PageOf(a) + PageSize
<1> DEFINE q == a \div PageSize
           r == a % PageSize
<1>1. PICK k \in 1..PageSize : PageSize = 8 * k
  BY PageAssumption
<1>2. PageSize \in Nat /\ PageSize > 0 /\ k \in Nat
  BY PageAssumption
<1>3. r \in 0..PageSize - 1 /\ a = PageSize * q + r /\ q \in Int
  BY <1>2, ModBounds
<1>4. PICK z \in Int : z = k * q
  BY <1>2, <1>3
<1>5. PageSize * q = 8 * z
  BY <1>1, <1>2, <1>3, <1>4
<1>6. r = a - 8 * z /\ r < 8 * k
  BY <1>1, <1>2, <1>3, <1>5
<1>7. r + b <= PageSize
  BY <1>1, <1>2, <1>4, <1>6 DEF Widths
<1> QED BY <1>2, <1>3, <1>7 DEF PageOf, Widths

-----------------------------------------------------------------------------
LEMMA CheckedAccess ==
    ASSUME NEW w \in Windows, NEW offset \in Nat, NEW b \in Widths, NEW write \in BOOLEAN,
           CheckAccess(w, offset, b, write) = "ok"
    PROVE  /\ offset % b = 0 /\ (w.base + offset) % b = 0
           /\ offset + b <= w.size
           /\ write => ~w.readOnly
  BY DEF CheckAccess, Unaligned, Windows, Widths

\* check_access admits no access that leaves the page it begins in: the one
\* page lock that lock_at takes covers every byte of it.
THEOREM AccessInOnePage ==
    ASSUME NEW w \in Windows, NEW offset \in Nat, NEW b \in Widths, NEW write \in BOOLEAN,
           CheckAccess(w, offset, b, write) = "ok"
    PROVE  \A x \in Bytes(w, offset, b) : PageOf(x) = PageOf(w.base + offset)
<1> DEFINE a == w.base + offset
<1>1. a \in Nat /\ b \in Nat
  BY DEF Windows, Widths
<1>2. a % b = 0
  BY CheckedAccess
<1>3. PageOf(a) \in Nat /\ PageOf(a) <= a /\ a + b <= PageOf(a) + PageSize
  BY <1>1, <1>2, PageFacts, AlignedFits
<1> SUFFICES ASSUME NEW x \in Bytes(w, offset, b) PROVE PageOf(x) = PageOf(a)
  OBVIOUS
<1>4. x \in Nat /\ a <= x /\ x <= a + b - 1
  BY <1>1 DEF Bytes, Windows
<1>5. PageSize \in Nat
  BY PageAssumption
<1> QED BY <1>1, <1>3, <1>4, <1>5, SamePage

\* The page lock of an access to a window is among the locks a sequence over
\* that window takes: a sequence excludes every access to its registers.
THEOREM SequenceTakesAccessLock ==
    ASSUME NEW w \in Windows, NEW offset \in Nat, NEW b \in Widths, NEW write \in BOOLEAN,
           CheckAccess(w, offset, b, write) = "ok"
    PROVE  \E i \in 1..PageCount(w) : PageNumber(w, i) = PageOf(w.base + offset)
<1> DEFINE a == w.base + offset
           last == w.base + w.size - 1
           first == w.base \div PageSize
           i == (a \div PageSize) - first + 1
<1>1. w.base \in Nat /\ a \in Nat /\ last \in Nat /\ w.base <= a /\ a <= last
  BY CheckedAccess DEF Windows, Widths
<1>2. PageSize \in Nat /\ PageSize > 0
  BY PageAssumption
<1>3. first \in Int /\ a \div PageSize \in Int /\ last \div PageSize \in Int
  BY <1>1, <1>2, ModBounds
<1>4. /\ PageOf(w.base) = PageSize * first
      /\ PageOf(a) = PageSize * (a \div PageSize)
      /\ PageOf(last) = PageSize * (last \div PageSize)
  BY <1>1, PageFacts
<1>5. first <= a \div PageSize /\ a \div PageSize <= last \div PageSize
  BY <1>1, <1>2
<1>6. PageCount(w) = (last \div PageSize) - first + 1
  <2>1. PageOf(last) - PageOf(w.base) = PageSize * ((last \div PageSize) - first) + 0
    BY <1>2, <1>3, <1>4
  <2>2. (PageOf(last) - PageOf(w.base)) \div PageSize = (last \div PageSize) - first
    <3>1. (last \div PageSize) - first \in Int
      BY <1>3
    <3>2. (PageSize * ((last \div PageSize) - first) + 0) \div PageSize
             = (last \div PageSize) - first
      BY <3>1, <1>2, ModUnique
    <3> QED BY <2>1, <3>2
  <2> QED BY <2>2 DEF PageCount
<1>7. i \in 1..PageCount(w)
  BY <1>3, <1>5, <1>6
<1>8. PageNumber(w, i) = PageOf(a)
  BY <1>2, <1>3, <1>4 DEF PageNumber
<1> QED BY <1>7, <1>8

\* Mapping::register's assertion holds for every access check_access admits,
\* in a UIO mapping, which begins at the page of the region's address...
THEOREM UioAssertHolds ==
    ASSUME NEW w \in Windows, NEW addr \in Nat, addr <= w.base,
           NEW offset \in Nat, NEW b \in Widths, NEW write \in BOOLEAN,
           CheckAccess(w, offset, b, write) = "ok"
    PROVE  RegisterInMapping(UioOffset(addr, w), w, offset, b)
<1> DEFINE q == addr \div PageSize
           at == UioOffset(addr, w) + offset
<1>1. PICK k \in 1..PageSize : PageSize = 8 * k
  BY PageAssumption
<1>2. PageSize \in Nat /\ PageSize > 0 /\ k \in Nat
  BY PageAssumption
<1>3. q \in Int /\ PageOf(addr) \in Nat /\ PageOf(addr) = PageSize * q
  <2>1. addr \in Int
    OBVIOUS
  <2>2. q \in Int
    BY <1>2, <2>1, ModBounds
  <2>3. PageOf(addr) \in Nat /\ PageOf(addr) = PageSize * (addr \div PageSize)
    BY PageFacts
  <2> QED BY <2>2, <2>3
<1>4. PICK z \in Int : z = k * q
  BY <1>2, <1>3
<1>5. PageOf(addr) = 8 * z
  BY <1>1, <1>2, <1>3, <1>4
<1>6. w.base \in Nat /\ w.size \in Nat /\ at \in Int /\ at = w.base + offset - 8 * z
  BY <1>3, <1>5 DEF UioOffset, Windows
<1>7. (w.base + offset) % b = 0 /\ offset + b <= w.size
  BY CheckedAccess
<1>8. at % b = 0
  BY <1>4, <1>6, <1>7 DEF Widths
<1>9. at + b <= MapLength(UioOffset(addr, w), w)
  BY <1>3, <1>6, <1>7 DEF MapLength, UioOffset, Widths
<1> QED BY <1>8, <1>9 DEF RegisterInMapping

\* ...and in a /dev/mem mapping, which begins at the page of the window.
THEOREM DevMemAssertHolds ==
    ASSUME NEW w \in Windows, NEW offset \in Nat, NEW b \in Widths, NEW write \in BOOLEAN,
           CheckAccess(w, offset, b, write) = "ok"
    PROVE  RegisterInMapping(DevMemOffset(w), w, offset, b)
<1>1. w.base \in Nat /\ w.base <= w.base
  BY DEF Windows
<1>2. RegisterInMapping(UioOffset(w.base, w), w, offset, b)
  BY <1>1, UioAssertHolds
<1> QED BY <1>2 DEF UioOffset, DevMemOffset

-----------------------------------------------------------------------------
\* A field write leaves every bit outside the field as it was: the neighbours
\* in a shared register are not disturbed.
THEOREM FieldWriteKeepsOthers ==
    ASSUME NEW f \in SubRegisters, NEW raw \in Values, NEW value \in Values
    PROVE  WithField(f, raw, value) \ Mask(f) = raw \ Mask(f)
  BY DEF WithField, Masked

\* A field reads back as what was written to it, cut to the field's width: the
\* shift left and the shift right are by the same count, and no bit of the
\* value is lost at the top of the register or leaks from outside the field.
THEOREM FieldReadsBack ==
    ASSUME NEW f \in SubRegisters, NEW raw \in Values, NEW value \in Values,
           Mask(f) # {}
    PROVE  FieldOf(f, WithField(f, raw, value)) = Fitting(f, value)
<1>1. /\ f.msb \in Nat /\ f.lsb \in Nat /\ RegisterBits \in Nat
      /\ f.lsb <= f.msb /\ f.msb <= RegisterBits - 1
      /\ Mask(f) = f.lsb..f.msb
  BY RegisterBitsAssumption DEF Mask, SubRegisters
<1>2. WithField(f, raw, value) \cap Mask(f)
        = {i \in f.lsb..f.msb : i - f.lsb \in value}
  BY <1>1 DEF WithField, Masked, FieldValue, ShiftLeft
<1>3. FieldOf(f, WithField(f, raw, value))
        = {i \in 0..RegisterBits - 1 : i + f.lsb \in {j \in f.lsb..f.msb : j - f.lsb \in value}}
  BY <1>2 DEF FieldOf, ShiftRight
<1>4. \A i \in 0..RegisterBits - 1 :
        i + f.lsb \in {j \in f.lsb..f.msb : j - f.lsb \in value}
          <=> i \in value /\ i <= f.msb - f.lsb
  BY <1>1
<1>5. value \subseteq 0..RegisterBits - 1
  BY DEF Values
<1> QED BY <1>3, <1>4, <1>5 DEF Fitting

-----------------------------------------------------------------------------
(* The inductive invariant *)

AtRegister(t) == pc[t] \in {"read", "write", "drop"}
InAccess(t) == pc[t] = "lock_at" \/ AtRegister(t)

\* The lock of the access in progress, and those of the sequence.
OpLock(t) == LockAt(op[t].dev, AddressOf(op[t]))
SeqLocks(t) == {LockNumber(seq[t], i) : i \in 1..taken[t]}

\* How much of its sequence guard a thread has, by where it is.
SeqOK(t) ==
    IF seq[t] = NoDevice
    THEN taken[t] = 0 /\ pc[t] \notin {"locking", "unlocking"}
    ELSE /\ pc[t] # "dead"
         /\ taken[t] \in 0..LockCount(seq[t])
         /\ pc[t] = "locking" => taken[t] < LockCount(seq[t])
         /\ pc[t] = "unlocking" => taken[t] > 0
         /\ InSequence(t) => taken[t] = LockCount(seq[t])

\* Only an access that passed its checks gets past CallAccess, and the steps it
\* goes through are those of its kind.
OpOK(t) ==
    IF InAccess(t)
    THEN /\ op[t] \in AllCalls /\ ~Refused(op[t])
         /\ pc[t] = "read" => op[t].kind # "write"
         /\ pc[t] = "write" => op[t].kind # "read"
    ELSE op[t] = NoAccess

\* What an update has read is still what is in memory when it writes.
ValOK(t) ==
    /\ pc[t] = "write" =>
           val[t] = IF op[t].kind = "write" THEN {} ELSE mem \cap RegisterOf(op[t])
    /\ pc[t] \notin {"write", "drop"} => val[t] = {}

\* A thread's nesting depth in a lock is one for its sequence plus one for its
\* access: no path takes a lock twice or keeps one.
Depth(l, t) ==
    (IF l \in SeqLocks(t) THEN 1 ELSE 0) + (IF AtRegister(t) /\ l = OpLock(t) THEN 1 ELSE 0)

HeldInv == \A l \in Locks, t \in Threads : held[l][t] = Depth(l, t)

MutexInv ==
    \A l \in Locks, t, u \in Threads : t # u => held[l][t] = 0 \/ held[l][u] = 0

IInv ==
    /\ TypeOK /\ HeldInv /\ MutexInv
    /\ \A t \in Threads : SeqOK(t) /\ OpOK(t) /\ ValOK(t)
-----------------------------------------------------------------------------
(* Windows, locks, bytes and bits *)

LEMMA ByteBitsFacts == ByteBits \in Nat /\ ByteBits > 0
<1>1. RegisterBits \in Nat /\ RegisterBits > 0 /\ RegisterBits % 4 = 0
  BY DeviceAssumption, RegisterBitsAssumption
<1> QED BY <1>1 DEF ByteBits

LEMMA AccessFacts ==
    ASSUME NEW a \in AllCalls
    PROVE  /\ a \in Accesses /\ a.dev \in Devices /\ Window[a.dev] \in Windows
           /\ a.offset \in Nat /\ a.bytes \in Widths /\ a.kind # "none"
           /\ AddressOf(a) \in Nat
<1>1. a \in Accesses
  BY DeviceAssumption DEF AllCalls
<1>2. a.dev \in Devices /\ a.offset \in Nat /\ a.bytes \in Widths /\ a.kind # "none"
  BY <1>1 DEF Accesses
<1>3. Window[a.dev] \in Windows
  BY <1>2, DeviceAssumption
<1> QED BY <1>1, <1>2, <1>3 DEF AddressOf, Windows

LEMMA PageCountFacts ==
    ASSUME NEW w \in Windows
    PROVE  PageCount(w) \in Nat \ {0}
<1>1. w.base \in Nat /\ w.size \in Nat \ {0} /\ w.base + w.size - 1 \in Nat
  BY DEF Windows
<1>2. PageSize \in Nat /\ PageSize > 0
  BY PageAssumption
<1>3. w.base <= w.base + w.size - 1
  BY <1>1
<1> DEFINE q == w.base \div PageSize
           r == (w.base + w.size - 1) \div PageSize
<1>4. q \in Int /\ r \in Int /\ q <= r
  BY <1>1, <1>2, <1>3
<1>5. PageOf(w.base + w.size - 1) - PageOf(w.base) = PageSize * (r - q) + 0
  <2>1. PageOf(w.base) = PageSize * q /\ PageOf(w.base + w.size - 1) = PageSize * r
    BY <1>1, PageFacts
  <2> QED BY <1>2, <1>4, <2>1
<1>6. (PageSize * (r - q) + 0) \div PageSize = r - q
  <2>1. r - q \in Int
    BY <1>4
  <2> HIDE DEF q, r
  <2> QED BY <1>2, <2>1, ModUnique
<1>7. PageCount(w) = r - q + 1
  BY <1>5, <1>6 DEF PageCount
<1> QED BY <1>4, <1>7

LEMMA LockCountFacts ==
    ASSUME NEW d \in Devices
    PROVE  LockCount(d) \in Nat \ {0}
<1>1. PageCount(Window[d]) \in Nat \ {0}
  BY DeviceAssumption, PageCountFacts
<1> QED BY <1>1 DEF LockCount

\* A sequence takes no lock twice.
LEMMA LockNumberInjective ==
    ASSUME NEW d \in Devices, NEW i \in 1..LockCount(d), NEW j \in 1..LockCount(d),
           LockNumber(d, i) = LockNumber(d, j)
    PROVE  i = j
<1>1. LockCount(d) \in Nat \ {0}
  BY LockCountFacts
<1>2. CASE UioLock[d] # NoLock
  BY <1>1, <1>2 DEF LockCount
<1>3. CASE UioLock[d] = NoLock
  <2>1. Window[d].base \in Nat
    BY DeviceAssumption DEF Windows
  <2>2. PageOf(Window[d].base) \in Nat /\ PageSize \in Nat /\ PageSize > 0
    <3>1. PageSize \in Nat /\ PageSize > 0
      BY PageAssumption
    <3>2. PageOf(Window[d].base) \in Nat
      BY <2>1, PageFacts
    <3> QED BY <3>1, <3>2
  <2>3. \A k \in 1..LockCount(d) :
           /\ PageNumber(Window[d], k) \in Nat
           /\ PageNumber(Window[d], k) = PageSize * ((Window[d].base \div PageSize) + k - 1)
    <3>1. PageOf(Window[d].base) = PageSize * (Window[d].base \div PageSize)
      BY <2>1, PageFacts
    <3>2. Window[d].base \div PageSize \in Nat
      BY <2>1, <2>2
    <3> QED BY <1>1, <2>1, <2>2, <3>1, <3>2 DEF PageNumber
  <2>4. \A k \in 1..LockCount(d) :
           PageOf(PageNumber(Window[d], k)) = PageNumber(Window[d], k)
    <3> SUFFICES ASSUME NEW k \in 1..LockCount(d)
                 PROVE  PageNumber(Window[d], k) % PageSize = 0
      BY <2>2, <2>3 DEF PageOf
    <3> DEFINE q == (Window[d].base \div PageSize) + k - 1
    <3>1. q \in Int
      BY <2>1, <2>2, <1>1
    <3>2. (PageSize * q + 0) % PageSize = 0
      <4> HIDE DEF q
      <4> QED BY <2>2, <3>1, ModUnique
    <3> QED BY <2>2, <2>3, <3>1, <3>2
  <2>5. PageNumber(Window[d], i) = PageNumber(Window[d], j)
    BY <1>3, <2>4 DEF LockNumber, LockAt
  <2>6. (i - 1) * PageSize = (j - 1) * PageSize
    BY <1>1, <2>2, <2>5 DEF PageNumber
  <2> QED BY <1>1, <2>2, <2>6
<1> QED BY <1>2, <1>3

LEMMA LockNumberInLocks ==
    ASSUME NEW d \in Devices, NEW i \in 1..LockCount(d)
    PROVE  LockNumber(d, i) \in Locks
<1>1. PageCount(Window[d]) \in Nat \ {0}
  BY DeviceAssumption, PageCountFacts
<1>2. i \in 1..PageCount(Window[d])
  BY <1>1 DEF LockCount
<1> QED BY <1>2 DEF Locks

\* The lock of a byte of the window is one of those a sequence takes.
LEMMA LockOfByte ==
    ASSUME NEW d \in Devices, NEW x \in Extent(d)
    PROVE  \E i \in 1..LockCount(d) : LockNumber(d, i) = LockAt(d, x)
<1> DEFINE w == Window[d]
           o == x - w.base
<1>1. w \in Windows /\ w.base \in Nat /\ w.size \in Nat \ {0}
  BY DeviceAssumption DEF Windows
<1>2. x \in Nat /\ o \in Nat /\ o + 1 <= w.size /\ w.base + o = x
  BY <1>1 DEF Extent, Bytes
<1>3. CASE UioLock[d] # NoLock
  BY <1>3 DEF LockCount, LockNumber, LockAt
<1>4. CASE UioLock[d] = NoLock
  <2>1. CheckAccess(w, o, 1, FALSE) = "ok"
    BY <1>1, <1>2 DEF CheckAccess, Unaligned
  <2>2. PICK i \in 1..PageCount(w) : PageNumber(w, i) = PageOf(x)
    <3>1. 1 \in Widths
      BY DEF Widths
    <3> HIDE DEF w, o
    <3> QED BY <1>1, <1>2, <2>1, <3>1, SequenceTakesAccessLock
  <2>3. PageOf(PageOf(x)) = PageOf(x)
    BY <1>2, PageFacts, PageAssumption, SamePage
  <2> QED BY <1>4, <2>2, <2>3 DEF LockCount, LockNumber, LockAt
<1> QED BY <1>3, <1>4

\* An access that passed its checks stays in the window, and the lock it takes
\* is the lock of each of its bytes.
LEMMA AdmittedAccess ==
    ASSUME NEW a \in AllCalls, ~Refused(a)
    PROVE  /\ \A x \in Bytes(Window[a.dev], a.offset, a.bytes) :
                  x \in Extent(a.dev) /\ LockAt(a.dev, x) = LockAt(a.dev, AddressOf(a))
           /\ LockAt(a.dev, AddressOf(a)) \in Locks
           /\ CheckAccess(Window[a.dev], a.offset, a.bytes, a.kind # "read") = "ok"
<1> DEFINE w == Window[a.dev]
<1>1. /\ a.dev \in Devices /\ w \in Windows /\ a.offset \in Nat /\ a.bytes \in Widths
      /\ w.base \in Nat /\ w.size \in Nat
  BY AccessFacts DEF Windows
<1>2. CheckAccess(w, a.offset, a.bytes, a.kind # "read") = "ok" /\ (a.kind # "read") \in BOOLEAN
  BY DEF Refused
<1>3. a.offset + a.bytes <= w.size
  BY <1>1, <1>2, CheckedAccess
<1>4. ASSUME NEW x \in Bytes(w, a.offset, a.bytes)
      PROVE  x \in Extent(a.dev) /\ LockAt(a.dev, x) = LockAt(a.dev, AddressOf(a))
  <2>1. x \in Extent(a.dev)
    BY <1>1, <1>3 DEF Extent, Bytes, Widths
  <2>2. PageOf(x) = PageOf(w.base + a.offset)
    BY <1>1, <1>2, AccessInOnePage
  <2> QED BY <2>1, <2>2 DEF LockAt, AddressOf
<1>5. AddressOf(a) \in Bytes(w, a.offset, a.bytes)
  BY <1>1 DEF AddressOf, Bytes, Widths
<1>6. LockAt(a.dev, AddressOf(a)) \in Locks
  BY <1>1, <1>4, <1>5, LockOfByte, LockNumberInLocks
<1> QED BY <1>2, <1>4, <1>6

\* Which byte a bit of memory is in.
LEMMA ByteOfBit ==
    ASSUME NEW base \in Nat, NEW i \in Nat, NEW n \in Nat, i <= ByteBits * n - 1
    PROVE  /\ (ByteBits * base + i) \div ByteBits \in base..base + n - 1
<1> DEFINE q == i \div ByteBits
           r == i % ByteBits
<1>1. ByteBits \in Nat /\ ByteBits > 0
  BY ByteBitsFacts
<1>2. i = ByteBits * q + r /\ q \in Int /\ r \in 0..ByteBits - 1
  BY <1>1, ModBounds
<1>3. q >= 0
  BY <1>1
<1> HIDE DEF q, r
<1>4. q < n
  <2> SUFFICES ASSUME q >= n PROVE FALSE
    BY <1>2
  <2>1. PICK k \in Nat : q = n + k
    BY <1>2, <1>3
  <2>2. ByteBits * q = ByteBits * n + ByteBits * k /\ ByteBits * k >= 0
    BY <1>1, <2>1
  <2> QED BY <1>1, <1>2, <2>2
<1>5. ByteBits * base + i = ByteBits * (base + q) + r
  BY <1>1, <1>2
<1>6. (ByteBits * (base + q) + r) \div ByteBits = base + q
  <2>1. base + q \in Int /\ r \in Int /\ 0 <= r /\ r < ByteBits
    BY <1>1, <1>2
  <2> QED BY <1>1, <2>1, ModUnique
<1> QED BY <1>2, <1>3, <1>4, <1>5, <1>6

LEMMA RegisterBytes ==
    ASSUME NEW a \in AllCalls, NEW x \in RegisterOf(a)
    PROVE  x \div ByteBits \in Bytes(Window[a.dev], a.offset, a.bytes)
<1>1. AddressOf(a) \in Nat /\ a.bytes \in Nat /\ ByteBits \in Nat
  BY AccessFacts, ByteBitsFacts DEF Widths
<1>2. PICK i \in 0..ByteBits * a.bytes - 1 : x = ByteBits * AddressOf(a) + i
  BY DEF RegisterOf, InMemory
<1>3. i \in Nat /\ i <= ByteBits * a.bytes - 1
  BY <1>1, <1>2
<1>4. x \div ByteBits \in AddressOf(a)..AddressOf(a) + a.bytes - 1
  BY <1>1, <1>2, <1>3, ByteOfBit
<1> QED BY <1>4 DEF AddressOf, Bytes

LEMMA ExtentBytes ==
    ASSUME NEW d \in Devices, NEW x \in ExtentBits(d)
    PROVE  x \div ByteBits \in Extent(d)
<1>1. PICK b \in Extent(d), i \in 0..ByteBits - 1 : x = ByteBits * b + i
  BY DEF ExtentBits
<1>2. ByteBits \in Nat /\ b \in Nat
  BY <1>1, ByteBitsFacts, DeviceAssumption DEF Extent, Bytes, Windows
<1>3. i \in Nat /\ i <= ByteBits * 1 - 1
  BY <1>1, <1>2
<1>4. x \div ByteBits \in b..b + 1 - 1
  BY <1>1, <1>2, <1>3, ByteOfBit
<1> QED BY <1>1, <1>2, <1>4

-----------------------------------------------------------------------------
(* What the invariant says of a state *)

LEMMA OpFacts ==
    ASSUME IInv, NEW t \in Threads, InAccess(t)
    PROVE  op[t] \in AllCalls /\ ~Refused(op[t]) /\ OpLock(t) \in Locks
<1>1. op[t] \in AllCalls /\ ~Refused(op[t])
  BY DEF IInv, OpOK
<1> QED BY <1>1, AdmittedAccess DEF OpLock

LEMMA SeqFacts ==
    ASSUME IInv, NEW t \in Threads, seq[t] # NoDevice
    PROVE  /\ seq[t] \in Devices /\ LockCount(seq[t]) \in Nat \ {0}
           /\ taken[t] \in 0..LockCount(seq[t])
<1>1. seq[t] \in Devices
  BY DEF IInv, TypeOK
<1> QED BY <1>1, LockCountFacts DEF IInv, SeqOK

\* Two threads are never at registers with a common bit.
RegistersApart ==
    \A t, u \in Threads :
        t # u /\ AtRegister(t) /\ AtRegister(u) => RegisterOf(op[t]) \cap RegisterOf(op[u]) = {}

\* A register in use and a sequence of somebody else have no common bit...
SequenceApart ==
    \A t, u \in Threads :
        t # u /\ AtRegister(t) /\ InSequence(u) => RegisterOf(op[t]) \cap ExtentBits(seq[u]) = {}

\* ...nor do two sequences.
SequencesApart ==
    \A t, u \in Threads :
        t # u /\ InSequence(t) /\ InSequence(u) => ExtentBits(seq[t]) \cap ExtentBits(seq[u]) = {}

\* The lock of a byte at a register, or of a byte of a sequence, is held.
LEMMA RegisterByteHeld ==
    ASSUME IInv, NEW t \in Threads, AtRegister(t), NEW x \in RegisterOf(op[t])
    PROVE  /\ op[t].dev \in Devices /\ x \div ByteBits \in Extent(op[t].dev)
           /\ LockAt(op[t].dev, x \div ByteBits) \in Locks
           /\ held[LockAt(op[t].dev, x \div ByteBits)][t] > 0
<1>1. op[t] \in AllCalls /\ ~Refused(op[t]) /\ OpLock(t) \in Locks
  BY OpFacts DEF InAccess
<1>2. x \div ByteBits \in Bytes(Window[op[t].dev], op[t].offset, op[t].bytes)
  BY <1>1, RegisterBytes
<1>3. /\ op[t].dev \in Devices /\ x \div ByteBits \in Extent(op[t].dev)
      /\ LockAt(op[t].dev, x \div ByteBits) = OpLock(t)
  BY <1>1, <1>2, AccessFacts, AdmittedAccess DEF OpLock
<1>4. held[OpLock(t)][t] > 0
  BY <1>1 DEF IInv, HeldInv, Depth
<1> QED BY <1>1, <1>3, <1>4

LEMMA SequenceByteHeld ==
    ASSUME IInv, NEW t \in Threads, InSequence(t), NEW x \in ExtentBits(seq[t])
    PROVE  /\ seq[t] \in Devices /\ x \div ByteBits \in Extent(seq[t])
           /\ LockAt(seq[t], x \div ByteBits) \in Locks
           /\ held[LockAt(seq[t], x \div ByteBits)][t] > 0
<1>1. /\ seq[t] \in Devices /\ taken[t] = LockCount(seq[t])
      /\ LockCount(seq[t]) \in Nat \ {0}
  BY SeqFacts DEF IInv, SeqOK, InSequence
<1>2. x \div ByteBits \in Extent(seq[t])
  BY <1>1, ExtentBytes
<1>3. PICK i \in 1..LockCount(seq[t]) : LockNumber(seq[t], i) = LockAt(seq[t], x \div ByteBits)
  BY <1>1, <1>2, LockOfByte
<1>4. LockNumber(seq[t], i) \in Locks
  BY <1>1, LockNumberInLocks
<1>5. LockNumber(seq[t], i) \in SeqLocks(t)
  BY <1>1 DEF SeqLocks
<1>6. held[LockNumber(seq[t], i)][t] > 0
  BY <1>4, <1>5 DEF IInv, HeldInv, Depth
<1> QED BY <1>1, <1>2, <1>3, <1>4, <1>6

\* Two Devices with a byte in common lock it by the same file.
LEMMA SameLock ==
    ASSUME NEW d \in Devices, NEW e \in Devices, NEW b \in Extent(d), b \in Extent(e)
    PROVE  LockAt(d, b) = LockAt(e, b)
<1>1. UioLock[d] = UioLock[e]
  BY SameRegistersSameLock
<1> QED BY <1>1 DEF LockAt

LEMMA NeverBoth ==
    ASSUME IInv, NEW t \in Threads, NEW u \in Threads, t # u, NEW l \in Locks, held[l][t] > 0
    PROVE  ~(held[l][u] > 0)
  BY DEF IInv, TypeOK, MutexInv

LEMMA Exclusion == IInv => RegistersApart /\ SequenceApart /\ SequencesApart
<1> SUFFICES ASSUME IInv PROVE RegistersApart /\ SequenceApart /\ SequencesApart
  OBVIOUS
<1>1. RegistersApart
  <2> SUFFICES ASSUME NEW t \in Threads, NEW u \in Threads, t # u, AtRegister(t), AtRegister(u),
                      NEW x \in RegisterOf(op[t]), x \in RegisterOf(op[u])
               PROVE  FALSE
    BY DEF RegistersApart
  <2> QED BY RegisterByteHeld, SameLock, NeverBoth
<1>2. SequenceApart
  <2> SUFFICES ASSUME NEW t \in Threads, NEW u \in Threads, t # u, AtRegister(t), InSequence(u),
                      NEW x \in RegisterOf(op[t]), x \in ExtentBits(seq[u])
               PROVE  FALSE
    BY DEF SequenceApart
  <2> QED BY RegisterByteHeld, SequenceByteHeld, SameLock, NeverBoth
<1>3. SequencesApart
  <2> SUFFICES ASSUME NEW t \in Threads, NEW u \in Threads, t # u, InSequence(t), InSequence(u),
                      NEW x \in ExtentBits(seq[t]), x \in ExtentBits(seq[u])
               PROVE  FALSE
    BY DEF SequencesApart
  <2> QED BY SequenceByteHeld, SameLock, NeverBoth
<1> QED BY <1>1, <1>2, <1>3

-----------------------------------------------------------------------------
(* What every step has in common *)

OthersSame(t) ==
    \A u \in Threads \ {t} :
        /\ pc'[u] = pc[u] /\ seq'[u] = seq[u] /\ taken'[u] = taken[u]
        /\ op'[u] = op[u] /\ val'[u] = val[u]

\* A step of t that takes no lock of another thread, and writes nothing where
\* another is at a register, only has to keep t's own part of the invariant.
LEMMA OwnStep ==
    ASSUME IInv, NEW t \in Threads, OthersSame(t), TypeOK',
           SeqOK(t)', OpOK(t)', ValOK(t)',
           \A l \in Locks : held'[l][t] = Depth(l, t)',
           \A l \in Locks : \A u \in Threads \ {t} : held'[l][u] = held[l][u],
           \A l \in Locks : held'[l][t] > 0 => held[l][t] > 0 \/ Free(l, t),
           \A u \in Threads \ {t} :
               AtRegister(u) => mem' \cap RegisterOf(op[u]) = mem \cap RegisterOf(op[u])
    PROVE  IInv'
<1>1. ASSUME NEW u \in Threads \ {t} PROVE SeqOK(u)' /\ OpOK(u)' /\ ValOK(u)'
  <2>1. /\ pc'[u] = pc[u] /\ seq'[u] = seq[u] /\ taken'[u] = taken[u]
        /\ op'[u] = op[u] /\ val'[u] = val[u]
    BY DEF OthersSame
  <2>2. SeqOK(u)' /\ OpOK(u)'
    BY <2>1 DEF IInv, SeqOK, OpOK, InSequence, InAccess, AtRegister
  <2>3. ValOK(u)'
    BY <2>1, ZenonT(60) DEF IInv, ValOK, AtRegister
  <2> QED BY <2>2, <2>3
<1>2. HeldInv'
  <2> SUFFICES ASSUME NEW l \in Locks, NEW u \in Threads PROVE held'[l][u] = Depth(l, u)'
    BY DEF HeldInv
  <2>1. CASE u = t
    BY <2>1
  <2>2. CASE u # t
    <3>1. /\ pc'[u] = pc[u] /\ seq'[u] = seq[u] /\ taken'[u] = taken[u] /\ op'[u] = op[u]
      BY <2>2 DEF OthersSame
    <3>2. Depth(l, u)' = Depth(l, u)
      BY <3>1 DEF Depth, SeqLocks, AtRegister, OpLock
    <3> QED BY <2>2, <3>2 DEF IInv, HeldInv
  <2> QED BY <2>1, <2>2
<1>3. MutexInv'
  <2> SUFFICES ASSUME NEW l \in Locks, NEW u \in Threads \ {t}
               PROVE  held'[l][t] = 0 \/ held'[l][u] = 0
    <3>1. \A v, u \in Threads \ {t}, l \in Locks :
              v # u => held'[l][v] = 0 \/ held'[l][u] = 0
      BY DEF IInv, MutexInv
    <3> QED BY <3>1 DEF MutexInv
  <2>1. held'[l][t] \in Nat /\ held[l][u] \in Nat /\ held[l][t] \in Nat
    BY DEF IInv, TypeOK
  <2> QED BY <2>1 DEF IInv, MutexInv, Free
<1> QED BY <1>1, <1>2, <1>3 DEF IInv

\* Most steps leave the locks, or the memory, as they are.
LEMMA DepthSame ==
    ASSUME IInv, NEW t \in Threads, UNCHANGED held,
           \A l \in Locks : Depth(l, t)' = Depth(l, t)
    PROVE  /\ \A l \in Locks : held'[l][t] = Depth(l, t)'
           /\ \A l \in Locks : \A u \in Threads \ {t} : held'[l][u] = held[l][u]
           /\ \A l \in Locks : held'[l][t] > 0 => held[l][t] > 0 \/ Free(l, t)
  BY DEF IInv, HeldInv

-----------------------------------------------------------------------------
(* The steps *)

LEMMA InitIInv == Init => IInv
<1> SUFFICES ASSUME Init PROVE IInv
  OBVIOUS
<1>1. TypeOK
  BY DeviceAssumption DEF Init, TypeOK, PCs
<1>2. \A t \in Threads : SeqOK(t) /\ OpOK(t) /\ ValOK(t)
  BY DEF Init, SeqOK, OpOK, ValOK, InAccess, AtRegister
<1>3. \A l \in Locks, t \in Threads : Depth(l, t) = 0
  BY DEF Init, Depth, SeqLocks, AtRegister
<1>4. HeldInv /\ MutexInv
  BY <1>3 DEF Init, HeldInv, MutexInv
<1> QED BY <1>1, <1>2, <1>4 DEF IInv

LEMMA CallLockStep ==
    ASSUME IInv, NEW t \in Threads, NEW d \in Devices, CallLock(t, d)
    PROVE  IInv'
<1>1. /\ pc[t] = "idle" /\ seq[t] = NoDevice /\ taken[t] = 0
      /\ UNCHANGED <<taken, op, val, held, mem>>
      /\ LockCount(d) \in Nat \ {0} /\ d # NoDevice
  BY LockCountFacts, DeviceAssumption DEF CallLock, IInv, SeqOK
<1>2. TypeOK'
  <2>1. calls[t] + 1 \in 0..MaxCalls
    BY DeviceAssumption DEF CallLock, IInv, TypeOK
  <2> QED BY <1>1, <2>1 DEF CallLock, IInv, TypeOK, PCs
<1>3. OthersSame(t)
  BY <1>1 DEF CallLock, IInv, TypeOK, OthersSame
<1>4. (pc'[t] = "locking" /\ seq'[t] = d) \/ (pc'[t] = "idle" /\ seq'[t] = NoDevice)
  BY <1>1 DEF CallLock, IInv, TypeOK
<1>5. SeqOK(t)' /\ OpOK(t)' /\ ValOK(t)'
  <2>1. SeqOK(t)'
    BY <1>1, <1>4 DEF SeqOK, InSequence
  <2>2. OpOK(t)' /\ ValOK(t)'
    BY <1>1, <1>4 DEF IInv, OpOK, ValOK, InAccess, AtRegister
  <2> QED BY <2>1, <2>2
<1>6. \A l \in Locks : Depth(l, t)' = Depth(l, t)
  BY <1>1, <1>4 DEF Depth, SeqLocks, AtRegister
<1> QED BY <1>1, <1>2, <1>3, <1>5, <1>6, DepthSame, OwnStep

\* Nothing is taken yet, or the guard over what is taken begins to drop.
LEMMA LockFailsStep ==
    ASSUME IInv, NEW t \in Threads, OpenFails(t) \/ AcquireFails(t) \/ DropSequence(t)
    PROVE  IInv'
<1>1. /\ pc[t] \in {"idle", "locking"} /\ seq[t] # NoDevice
      /\ UNCHANGED <<taken, op, val, held, mem, calls>>
      /\ \/ taken[t] = 0 /\ pc'[t] = "idle" /\ seq'[t] = NoDevice
         \/ taken[t] # 0 /\ pc'[t] = "unlocking" /\ seq'[t] = seq[t]
  <2>1. CASE OpenFails(t) \/ AcquireFails(t)
    BY <2>1 DEF OpenFails, AcquireFails, IInv, TypeOK, SeqOK
  <2>2. CASE DropSequence(t)
    \* the guard exists, so it has at least one lock
    <3>1. taken[t] = LockCount(seq[t]) /\ LockCount(seq[t]) \in Nat \ {0}
      BY <2>2, SeqFacts DEF DropSequence, IInv, SeqOK, InSequence
    <3> QED BY <2>2, <3>1 DEF DropSequence, IInv, TypeOK
  <2> QED BY <2>1, <2>2
<1>2. TypeOK'
  BY DEF OpenFails, AcquireFails, DropSequence, IInv, TypeOK, PCs
<1>3. OthersSame(t)
  BY DEF OpenFails, AcquireFails, DropSequence, IInv, TypeOK, OthersSame
<1>4. taken[t] \in 0..LockCount(seq[t]) /\ LockCount(seq[t]) \in Nat
  BY <1>1, SeqFacts
<1>5. SeqOK(t)' /\ OpOK(t)' /\ ValOK(t)'
  <2>1. SeqOK(t)'
    BY <1>1, <1>4 DEF SeqOK, InSequence
  <2>2. OpOK(t)' /\ ValOK(t)'
    BY <1>1 DEF IInv, OpOK, ValOK, InAccess, AtRegister
  <2> QED BY <2>1, <2>2
<1>6. \A l \in Locks : Depth(l, t)' = Depth(l, t)
  BY <1>1 DEF Depth, SeqLocks, AtRegister
<1> QED BY <1>1, <1>2, <1>3, <1>5, <1>6, DepthSame, OwnStep

\* The next lock of the sequence is none of those already taken.
LEMMA TakeNextStep ==
    ASSUME IInv, NEW t \in Threads, TakeNext(t)
    PROVE  IInv'
<1> DEFINE n == taken[t] + 1
           lock == LockNumber(seq[t], n)
<1>1. /\ pc[t] = "locking" /\ seq[t] \in Devices /\ seq[t] # NoDevice
      /\ taken[t] \in Nat /\ taken[t] < LockCount(seq[t]) /\ LockCount(seq[t]) \in Nat \ {0}
      /\ n \in 1..LockCount(seq[t])
  BY SeqFacts DEF TakeNext, IInv, SeqOK
<1>2. /\ Free(lock, t) /\ held' = [held EXCEPT ![lock][t] = @ + 1]
      /\ taken'[t] = n /\ pc'[t] = (IF n = LockCount(seq[t]) THEN "idle" ELSE "locking")
      /\ UNCHANGED <<seq, op, val, mem, calls>>
  BY DEF TakeNext, Take, IInv, TypeOK
<1>3. lock \in Locks
  BY <1>1, LockNumberInLocks
<1>4. lock \notin SeqLocks(t)
  BY <1>1, LockNumberInjective DEF SeqLocks
<1>5. SeqLocks(t)' = SeqLocks(t) \cup {lock}
  <2>1. 1..n = (1..taken[t]) \cup {n}
    BY <1>1
  <2> QED BY <1>2, <2>1 DEF SeqLocks
<1> HIDE DEF lock
<1>6. /\ held'[lock][t] = held[lock][t] + 1
      /\ \A l \in Locks \ {lock} : held'[l][t] = held[l][t]
      /\ \A l \in Locks : \A u \in Threads \ {t} : held'[l][u] = held[l][u]
  BY <1>2, <1>3 DEF IInv, TypeOK
<1>7. \A l \in Locks : held'[l][t] = Depth(l, t)'
  <2> SUFFICES ASSUME NEW l \in Locks PROVE held'[l][t] = Depth(l, t)'
    OBVIOUS
  <2>1. held[l][t] = (IF l \in SeqLocks(t) THEN 1 ELSE 0)
    BY <1>1 DEF IInv, HeldInv, Depth, AtRegister
  <2>2. Depth(l, t)' = (IF l \in SeqLocks(t)' THEN 1 ELSE 0)
    BY <1>2 DEF Depth, AtRegister
  <2> QED BY <1>4, <1>5, <1>6, <2>1, <2>2
<1>8. TypeOK'
  <2>1. held' \in [Locks -> [Threads -> Nat]]
    BY <1>2, <1>3 DEF IInv, TypeOK
  <2> QED BY <1>1, <1>2, <2>1 DEF TakeNext, IInv, TypeOK, PCs
<1>9. OthersSame(t)
  BY DEF TakeNext, IInv, TypeOK, OthersSame
<1>10. SeqOK(t)' /\ OpOK(t)' /\ ValOK(t)'
  <2>1. SeqOK(t)'
    BY <1>1, <1>2 DEF SeqOK, InSequence
  <2>2. OpOK(t)' /\ ValOK(t)'
    BY <1>1, <1>2 DEF IInv, OpOK, ValOK, InAccess, AtRegister
  <2> QED BY <2>1, <2>2
<1>11. \A l \in Locks : held'[l][t] > 0 => held[l][t] > 0 \/ Free(l, t)
  BY <1>2, <1>6
<1> QED BY <1>2, <1>6, <1>7, <1>8, <1>9, <1>10, <1>11, OwnStep

\* The lock that goes is not one of those that stay.
LEMMA ReleaseNextStep ==
    ASSUME IInv, NEW t \in Threads, ReleaseNext(t)
    PROVE  IInv'
<1> DEFINE n == taken[t]
           lock == LockNumber(seq[t], n)
<1>1. /\ pc[t] = "unlocking" /\ seq[t] \in Devices /\ seq[t] # NoDevice
      /\ n \in 1..LockCount(seq[t]) /\ LockCount(seq[t]) \in Nat \ {0}
  <2>1. pc[t] = "unlocking" /\ seq[t] # NoDevice /\ n > 0
    BY DEF ReleaseNext, IInv, SeqOK
  <2> QED BY <2>1, SeqFacts
<1>2. /\ held' = [held EXCEPT ![lock][t] = @ - 1]
      /\ taken'[t] = n - 1 /\ UNCHANGED <<op, val, mem, calls>>
      /\ IF n = 1
         THEN pc'[t] = "idle" /\ seq'[t] = NoDevice
         ELSE pc'[t] = "unlocking" /\ seq'[t] = seq[t]
  BY <1>1 DEF ReleaseNext, Drop, IInv, TypeOK
<1>3. lock \in Locks /\ lock \in SeqLocks(t)
  BY <1>1, LockNumberInLocks DEF SeqLocks
<1>4. SeqLocks(t)' = SeqLocks(t) \ {lock}
  <2>1. CASE n = 1
    BY <1>2, <2>1 DEF SeqLocks
  <2>2. CASE n # 1
    <3>1. 1..n = (1..n - 1) \cup {n} /\ n \notin 1..n - 1
      BY <1>1
    <3>2. \A i \in 1..n - 1 : LockNumber(seq[t], i) # lock
      BY <1>1, LockNumberInjective
    <3> QED BY <1>2, <2>2, <3>1, <3>2 DEF SeqLocks
  <2> QED BY <2>1, <2>2
<1> HIDE DEF lock
<1>5. /\ held'[lock][t] = held[lock][t] - 1
      /\ \A l \in Locks \ {lock} : held'[l][t] = held[l][t]
      /\ \A l \in Locks : \A u \in Threads \ {t} : held'[l][u] = held[l][u]
  BY <1>2, <1>3 DEF IInv, TypeOK
<1>6. \A l \in Locks : held[l][t] = IF l \in SeqLocks(t) THEN 1 ELSE 0
  BY <1>1 DEF IInv, HeldInv, Depth, AtRegister
<1>7. \A l \in Locks : held'[l][t] = Depth(l, t)'
  <2> SUFFICES ASSUME NEW l \in Locks PROVE held'[l][t] = Depth(l, t)'
    OBVIOUS
  <2>1. Depth(l, t)' = (IF l \in SeqLocks(t)' THEN 1 ELSE 0)
    BY <1>2 DEF Depth, AtRegister
  <2> QED BY <1>3, <1>4, <1>5, <1>6, <2>1
<1>8. TypeOK'
  <2>1. held[lock][t] - 1 \in Nat
    BY <1>3, <1>6
  <2>2. held' \in [Locks -> [Threads -> Nat]]
    BY <1>2, <1>3, <2>1 DEF IInv, TypeOK
  <2> QED BY <1>1, <1>2, <2>2 DEF ReleaseNext, IInv, TypeOK, PCs
<1>9. OthersSame(t)
  BY DEF ReleaseNext, IInv, TypeOK, OthersSame
<1>10. SeqOK(t)' /\ OpOK(t)' /\ ValOK(t)'
  <2>1. SeqOK(t)'
    BY <1>1, <1>2 DEF SeqOK, InSequence
  <2>2. OpOK(t)' /\ ValOK(t)'
    BY <1>1, <1>2 DEF IInv, OpOK, ValOK, InAccess, AtRegister
  <2> QED BY <2>1, <2>2
<1>11. \A l \in Locks : held'[l][t] > 0 => held[l][t] > 0 \/ Free(l, t)
  BY <1>3, <1>5, <1>6
<1> QED BY <1>2, <1>5, <1>7, <1>8, <1>9, <1>10, <1>11, OwnStep

LEMMA CallAccessStep ==
    ASSUME IInv, NEW t \in Threads, NEW a \in Calls[t], CallAccess(t, a)
    PROVE  IInv'
<1>1. /\ pc[t] = "idle" /\ op[t] = NoAccess /\ val[t] = {} /\ a \in AllCalls
      /\ UNCHANGED <<seq, taken, val, held, mem>>
      /\ \/ pc'[t] = "idle" /\ op'[t] = NoAccess
         \/ pc'[t] = "lock_at" /\ op'[t] = a /\ ~Refused(a)
  BY DEF CallAccess, IInv, TypeOK, OpOK, ValOK, InAccess, AtRegister, AllCalls
<1>2. TypeOK'
  <2>1. calls[t] + 1 \in 0..MaxCalls
    BY DeviceAssumption DEF CallAccess, IInv, TypeOK
  <2> QED BY <1>1, <2>1, SMTT(30) DEF CallAccess, IInv, TypeOK, PCs
<1>3. OthersSame(t)
  BY DEF CallAccess, IInv, TypeOK, OthersSame
<1>4. SeqOK(t)'
  BY <1>1 DEF IInv, SeqOK, InSequence
<1>5. OpOK(t)' /\ ValOK(t)'
  BY <1>1 DEF OpOK, ValOK, InAccess, AtRegister
<1>6. \A l \in Locks : Depth(l, t)' = Depth(l, t)
  BY <1>1 DEF Depth, SeqLocks, AtRegister
<1> QED BY <1>1, <1>2, <1>3, <1>4, <1>5, <1>6, DepthSame, OwnStep

\* Within a sequence the lock is taken a second time.
LEMMA LockAccessStep ==
    ASSUME IInv, NEW t \in Threads, LockAccess(t)
    PROVE  IInv'
<1> DEFINE lock == OpLock(t)
<1>1. /\ pc[t] = "lock_at" /\ op[t] \in AllCalls /\ ~Refused(op[t]) /\ lock \in Locks
      /\ val[t] = {}
  <2>1. InAccess(t) /\ pc[t] = "lock_at"
    BY DEF LockAccess, InAccess
  <2> QED BY <2>1, OpFacts DEF IInv, ValOK
<1>2. /\ Free(lock, t) /\ held' = [held EXCEPT ![lock][t] = @ + 1]
      /\ pc'[t] = (IF op[t].kind = "write" THEN "write" ELSE "read")
      /\ UNCHANGED <<seq, taken, op, val, mem, calls>>
  BY DEF LockAccess, Take, OpLock, IInv, TypeOK
<1>3. AtRegister(t)' /\ ~AtRegister(t) /\ OpLock(t)' = lock /\ SeqLocks(t)' = SeqLocks(t)
  BY <1>1, <1>2 DEF AtRegister, OpLock, SeqLocks
<1> HIDE DEF lock
<1>4. /\ held'[lock][t] = held[lock][t] + 1
      /\ \A l \in Locks \ {lock} : held'[l][t] = held[l][t]
      /\ \A l \in Locks : \A u \in Threads \ {t} : held'[l][u] = held[l][u]
  BY <1>1, <1>2 DEF IInv, TypeOK
<1>5. \A l \in Locks : held'[l][t] = Depth(l, t)'
  BY <1>3, <1>4 DEF IInv, HeldInv, Depth
<1>6. TypeOK'
  <2>1. held' \in [Locks -> [Threads -> Nat]]
    BY <1>1, <1>2 DEF IInv, TypeOK
  <2> QED BY <1>2, <2>1 DEF LockAccess, IInv, TypeOK, PCs
<1>7. OthersSame(t)
  BY DEF LockAccess, IInv, TypeOK, OthersSame
<1>8. SeqOK(t)'
  BY <1>1, <1>2 DEF IInv, SeqOK, InSequence
<1>9. OpOK(t)' /\ ValOK(t)'
  BY <1>1, <1>2 DEF OpOK, ValOK, InAccess, AtRegister
<1>10. \A l \in Locks : held'[l][t] > 0 => held[l][t] > 0 \/ Free(l, t)
  BY <1>2, <1>4
<1> QED BY <1>2, <1>4, <1>5, <1>6, <1>7, <1>8, <1>9, <1>10, OwnStep

LEMMA LockAccessFailsStep ==
    ASSUME IInv, NEW t \in Threads, LockAccessFails(t)
    PROVE  IInv'
<1>1. /\ pc[t] = "lock_at" /\ pc'[t] = "idle" /\ op'[t] = NoAccess /\ val'[t] = {}
      /\ UNCHANGED <<seq, taken, held, mem, calls>>
  BY DEF LockAccessFails, EndAccess, IInv, TypeOK
<1>2. TypeOK' /\ OthersSame(t)
  BY DEF LockAccessFails, EndAccess, IInv, TypeOK, PCs, OthersSame
<1>3. SeqOK(t)'
  BY <1>1 DEF IInv, SeqOK, InSequence
<1>4. OpOK(t)' /\ ValOK(t)'
  BY <1>1 DEF OpOK, ValOK, InAccess, AtRegister
<1>5. \A l \in Locks : Depth(l, t)' = Depth(l, t)
  BY <1>1 DEF Depth, SeqLocks, AtRegister
<1> QED BY <1>1, <1>2, <1>3, <1>4, <1>5, DepthSame, OwnStep

LEMMA ReadRegisterStep ==
    ASSUME IInv, NEW t \in Threads, ReadRegister(t)
    PROVE  IInv'
<1>1. /\ pc[t] = "read" /\ val'[t] = mem \cap RegisterOf(op[t])
      /\ pc'[t] = (IF op[t].kind = "read" THEN "drop" ELSE "write")
      /\ UNCHANGED <<seq, taken, op, held, mem, calls>>
  BY DEF ReadRegister, IInv, TypeOK
<1>2. op[t] \in AllCalls /\ ~Refused(op[t]) /\ op[t].kind # "write"
  BY <1>1 DEF IInv, OpOK, InAccess, AtRegister
<1>3. TypeOK'
  BY <1>1 DEF ReadRegister, IInv, TypeOK, PCs
<1>4. OthersSame(t)
  BY DEF ReadRegister, IInv, TypeOK, OthersSame
<1>5. SeqOK(t)'
  BY <1>1 DEF IInv, SeqOK, InSequence
<1>6. OpOK(t)' /\ ValOK(t)'
  BY <1>1, <1>2 DEF OpOK, ValOK, InAccess, AtRegister
<1>7. \A l \in Locks : Depth(l, t)' = Depth(l, t)
  BY <1>1 DEF Depth, SeqLocks, AtRegister, OpLock
<1> QED BY <1>1, <1>3, <1>4, <1>5, <1>6, <1>7, DepthSame, OwnStep

\* What a write leaves lies in its register and has its mask's bits from value.
LEMMA WrittenBits ==
    ASSUME IInv, NEW t \in Threads, pc[t] = "write"
    PROVE  /\ Updated(op[t], val[t]) \subseteq RegisterOf(op[t])
           /\ RegisterOf(op[t]) \subseteq Nat
           /\ InMemory(op[t], op[t].mask) \subseteq RegisterOf(op[t])
           /\ op[t].kind = "write" => InMemory(op[t], op[t].mask) = RegisterOf(op[t])
<1>1. op[t] \in AllCalls
  BY OpFacts DEF InAccess, AtRegister
<1>2. /\ op[t].mask \subseteq 0..ByteBits * op[t].bytes - 1
      /\ op[t].kind = "write" => op[t].mask = 0..ByteBits * op[t].bytes - 1
  BY <1>1, AccessFacts DEF Accesses
<1>3. InMemory(op[t], op[t].mask) \subseteq RegisterOf(op[t])
  BY <1>2 DEF InMemory, RegisterOf
<1>4. val[t] \subseteq RegisterOf(op[t])
  BY DEF IInv, ValOK
<1>5. RegisterOf(op[t]) \subseteq Nat
  <2>1. AddressOf(op[t]) \in Nat /\ ByteBits \in Nat /\ op[t].bytes \in Nat
    BY <1>1, AccessFacts, ByteBitsFacts DEF Widths
  <2> QED BY <2>1 DEF RegisterOf, InMemory
<1> QED BY <1>2, <1>3, <1>4, <1>5 DEF Updated, Masked, RegisterOf

\* The bits others are about to write back are none of those written now.
LEMMA WriteRegisterStep ==
    ASSUME IInv, NEW t \in Threads, WriteRegister(t)
    PROVE  IInv'
<1> DEFINE new == Updated(op[t], val[t])
<1>1. /\ pc[t] = "write" /\ pc'[t] = "drop"
      /\ mem' = (mem \ RegisterOf(op[t])) \cup new
      /\ val' = [val EXCEPT ![t] = IF op[t].kind = "write" THEN {} ELSE new]
      /\ UNCHANGED <<seq, taken, op, held, calls>>
  BY DEF WriteRegister, IInv, TypeOK
<1>2. new \subseteq RegisterOf(op[t]) /\ RegisterOf(op[t]) \subseteq Nat
  BY <1>1, WrittenBits
<1>3. op[t] \in AllCalls /\ ~Refused(op[t])
  BY <1>1 DEF IInv, OpOK, InAccess, AtRegister
<1> HIDE DEF new
<1>4. TypeOK'
  BY <1>1, <1>2 DEF WriteRegister, IInv, TypeOK, PCs
<1>5. OthersSame(t)
  BY <1>1 DEF WriteRegister, IInv, TypeOK, OthersSame
<1>6. SeqOK(t)'
  BY <1>1 DEF IInv, SeqOK, InSequence
<1>7. OpOK(t)' /\ ValOK(t)'
  BY <1>1, <1>3 DEF OpOK, ValOK, InAccess, AtRegister
<1>8. \A l \in Locks : Depth(l, t)' = Depth(l, t)
  BY <1>1 DEF Depth, SeqLocks, AtRegister, OpLock
<1>9. ASSUME NEW u \in Threads \ {t}, AtRegister(u)
      PROVE  mem' \cap RegisterOf(op[u]) = mem \cap RegisterOf(op[u])
  <2>1. RegisterOf(op[t]) \cap RegisterOf(op[u]) = {}
    BY <1>1, <1>9, Exclusion DEF RegistersApart, AtRegister
  <2> QED BY <1>1, <1>2, <2>1
<1> QED BY <1>1, <1>4, <1>5, <1>6, <1>7, <1>8, <1>9, DepthSame, OwnStep

LEMMA DropAccessStep ==
    ASSUME IInv, NEW t \in Threads, DropAccess(t)
    PROVE  IInv'
<1> DEFINE lock == OpLock(t)
<1>1. /\ pc[t] = "drop" /\ lock \in Locks /\ held[lock][t] \in Nat /\ held[lock][t] > 0
  <2>1. pc[t] = "drop" /\ InAccess(t)
    BY DEF DropAccess, InAccess, AtRegister
  <2>2. lock \in Locks
    BY <2>1, OpFacts
  <2> QED BY <2>1, <2>2 DEF IInv, TypeOK, HeldInv, Depth, AtRegister
<1>2. /\ held' = [held EXCEPT ![lock][t] = @ - 1]
      /\ pc'[t] = "idle" /\ op'[t] = NoAccess /\ val'[t] = {}
      /\ UNCHANGED <<seq, taken, mem, calls>>
  BY DEF DropAccess, Drop, OpLock, EndAccess, IInv, TypeOK
<1>3. AtRegister(t) /\ ~AtRegister(t)' /\ SeqLocks(t)' = SeqLocks(t)
  BY <1>1, <1>2 DEF AtRegister, SeqLocks
<1>4. \A l \in Locks : held[l][t] = (IF l \in SeqLocks(t) THEN 1 ELSE 0)
                                    + (IF l = lock THEN 1 ELSE 0)
  BY <1>3 DEF IInv, HeldInv, Depth
<1> HIDE DEF lock
<1>5. /\ held'[lock][t] = held[lock][t] - 1
      /\ \A l \in Locks \ {lock} : held'[l][t] = held[l][t]
      /\ \A l \in Locks : \A u \in Threads \ {t} : held'[l][u] = held[l][u]
  BY <1>1, <1>2 DEF IInv, TypeOK
<1>6. \A l \in Locks : held'[l][t] = Depth(l, t)'
  BY <1>3, <1>4, <1>5 DEF Depth
<1>7. TypeOK'
  <2>1. held' \in [Locks -> [Threads -> Nat]]
    BY <1>1, <1>2 DEF IInv, TypeOK
  <2> QED BY <2>1 DEF DropAccess, EndAccess, IInv, TypeOK, PCs
<1>8. OthersSame(t)
  BY DEF DropAccess, EndAccess, IInv, TypeOK, OthersSame
<1>9. SeqOK(t)'
  BY <1>1, <1>2 DEF IInv, SeqOK, InSequence
<1>10. OpOK(t)' /\ ValOK(t)'
  BY <1>2 DEF OpOK, ValOK, InAccess, AtRegister
<1>11. \A l \in Locks : held'[l][t] > 0 => held[l][t] > 0 \/ Free(l, t)
  BY <1>1, <1>5
<1> QED BY <1>2, <1>5, <1>6, <1>7, <1>8, <1>9, <1>10, <1>11, OwnStep

LEMMA CrashStep ==
    ASSUME IInv, NEW t \in Threads, Crash(t)
    PROVE  IInv'
<1>1. /\ pc'[t] = "dead" /\ seq'[t] = NoDevice /\ taken'[t] = 0 /\ op'[t] = NoAccess
      /\ val'[t] = {} /\ UNCHANGED <<mem, calls>>
  BY DEF Crash, IInv, TypeOK
<1>2. /\ \A l \in Locks : held'[l][t] = 0
      /\ \A l \in Locks : \A u \in Threads \ {t} : held'[l][u] = held[l][u]
  BY DEF Crash, IInv, TypeOK
<1>3. TypeOK' /\ OthersSame(t)
  BY DEF Crash, IInv, TypeOK, PCs, OthersSame
<1>4. SeqOK(t)' /\ OpOK(t)' /\ ValOK(t)'
  BY <1>1 DEF SeqOK, OpOK, ValOK, InAccess, AtRegister
<1>5. \A l \in Locks : held'[l][t] = Depth(l, t)'
  BY <1>1, <1>2 DEF Depth, SeqLocks, AtRegister
<1> QED BY <1>1, <1>2, <1>3, <1>4, <1>5, OwnStep

LEMMA NextIInv == IInv /\ [Next]_vars => IInv'
<1> SUFFICES ASSUME IInv, [Next]_vars PROVE IInv'
  OBVIOUS
<1>1. ASSUME NEW t \in Threads, Step(t) PROVE IInv'
  BY <1>1, TakeNextStep, LockFailsStep, ReleaseNextStep, LockAccessStep, ReadRegisterStep,
     WriteRegisterStep, DropAccessStep
     DEF Step
<1>2. ASSUME NEW t \in Threads, Environment(t) PROVE IInv'
  <2>1. \A a \in Calls[t] : a.dev \in Devices
    BY DeviceAssumption DEF Accesses
  <2> QED BY <1>2, <2>1, CallLockStep, CallAccessStep, LockFailsStep, LockAccessFailsStep,
             CrashStep
          DEF Environment
<1>3. CASE UNCHANGED vars
  BY <1>3 DEF vars, IInv, TypeOK, HeldInv, MutexInv, Depth, SeqOK, OpOK, ValOK, InSequence,
              InAccess, AtRegister, SeqLocks, OpLock
<1> QED BY <1>1, <1>2, <1>3 DEF Next

LEMMA Invariance == Spec => []IInv
<1> QED BY InitIInv, NextIInv, PTL DEF Spec

-----------------------------------------------------------------------------
\* Every variable keeps its domain; in particular no lock is released more
\* often than it was taken.
THEOREM TypeCorrect == Spec => []TypeOK
<1>1. IInv => TypeOK
  BY DEF IInv
<1> QED BY <1>1, Invariance, PTL

\* Whatever fails in Device::lock or in an access, a thread that is in neither
\* and has no guard holds no lock.
THEOREM NothingLeakedHolds == Spec => []NothingLeaked
<1>1. ASSUME IInv, NEW t \in Threads, pc[t] \in {"idle", "dead"}, seq[t] = NoDevice,
             NEW l \in Locks
      PROVE  held[l][t] = 0
  <2>1. taken[t] = 0
    BY <1>1 DEF IInv, SeqOK
  <2>2. Depth(l, t) = 0
    BY <1>1, <2>1 DEF Depth, SeqLocks, AtRegister
  <2> QED BY <1>1, <2>2 DEF IInv, HeldInv
<1>2. IInv => NothingLeaked
  BY <1>1 DEF NothingLeaked
<1> QED BY <1>2, Invariance, PTL

\* Any two threads, of any processes, at any registers of any windows at the
\* same time are at different bytes.
THEOREM ByteExclusionHolds == Spec => []ByteExclusion
<1>1. IInv => ByteExclusion
  BY Exclusion DEF RegistersApart, ByteExclusion, Accessing, AtRegister
<1> QED BY <1>1, Invariance, PTL

\* Mapping::register's assertion holds in every access, through /dev/mem and
\* through a UIO region.
THEOREM MappingAssertHoldsAlways == Spec => []MappingAssertHolds
<1>1. ASSUME IInv, NEW t \in Threads, Accessing(t)
      PROVE  RegisterInMapping(DataOffset(op[t].dev), Window[op[t].dev],
                               op[t].offset, op[t].bytes)
  <2> DEFINE d == op[t].dev
             o == op[t].offset
             b == op[t].bytes
             write == op[t].kind # "read"
  <2>1. op[t] \in AllCalls /\ ~Refused(op[t])
    BY <1>1, OpFacts DEF Accessing, InAccess, AtRegister
  <2>2. /\ d \in Devices /\ Window[d] \in Windows /\ o \in Nat /\ b \in Widths
        /\ write \in BOOLEAN
    BY <2>1, AccessFacts
  <2>3. CheckAccess(Window[d], o, b, write) = "ok"
    BY <2>1, AdmittedAccess
  <2>4. UioAddr[d] \in Nat /\ (UioLock[d] # NoLock => UioAddr[d] <= Window[d].base)
    BY <2>2, DeviceAssumption
  <2> HIDE DEF d, o, b, write
  <2>5. RegisterInMapping(DataOffset(d), Window[d], o, b)
    <3>1. CASE UioLock[d] # NoLock
      BY <2>2, <2>3, <2>4, <3>1, UioAssertHolds DEF DataOffset
    <3>2. CASE UioLock[d] = NoLock
      BY <2>2, <2>3, <3>2, DevMemAssertHolds DEF DataOffset
    <3> QED BY <3>1, <3>2
  <2> QED BY <2>5 DEF d, o, b
<1>2. IInv => MappingAssertHolds
  BY <1>1 DEF MappingAssertHolds
<1> QED BY <1>2, Invariance, PTL

-----------------------------------------------------------------------------
(* Accesses and sequences implement atomic registers *)

\* Only the thread that steps changes its part of the abstract state.
LEMMA AbstractOthers ==
    ASSUME NEW t \in Threads, OthersSame(t), NEW u \in Threads \ {t}
    PROVE  /\ SequenceBits(u)' = SequenceBits(u) /\ RequestOf(u)' = RequestOf(u)
           /\ Performed(u)' = Performed(u) /\ ResultOf(u)' = ResultOf(u)
<1>1. pc'[u] = pc[u] /\ seq'[u] = seq[u] /\ op'[u] = op[u] /\ val'[u] = val[u]
  BY DEF OthersSame
<1> QED BY <1>1 DEF SequenceBits, RequestOf, Performed, ResultOf, InSequence, Accessing

\* So the abstract variables change at t only.
LEMMA AbstractUpdate ==
    ASSUME NEW t \in Threads, OthersSame(t)
    PROVE  /\ [u \in Threads |-> SequenceBits(u)]'
                = [[u \in Threads |-> SequenceBits(u)] EXCEPT ![t] = SequenceBits(t)']
           /\ [u \in Threads |-> RequestOf(u)]'
                = [[u \in Threads |-> RequestOf(u)] EXCEPT ![t] = RequestOf(t)']
           /\ [u \in Threads |-> Performed(u)]'
                = [[u \in Threads |-> Performed(u)] EXCEPT ![t] = Performed(t)']
           /\ [u \in Threads |-> ResultOf(u)]'
                = [[u \in Threads |-> ResultOf(u)] EXCEPT ![t] = ResultOf(t)']
  BY AbstractOthers

LEMMA AbstractSame ==
    ASSUME NEW t \in Threads, OthersSame(t)
    PROVE  /\ SequenceBits(t)' = SequenceBits(t) =>
                  [u \in Threads |-> SequenceBits(u)]' = [u \in Threads |-> SequenceBits(u)]
           /\ RequestOf(t)' = RequestOf(t) =>
                  [u \in Threads |-> RequestOf(u)]' = [u \in Threads |-> RequestOf(u)]
           /\ Performed(t)' = Performed(t) =>
                  [u \in Threads |-> Performed(u)]' = [u \in Threads |-> Performed(u)]
           /\ ResultOf(t)' = ResultOf(t) =>
                  [u \in Threads |-> ResultOf(u)]' = [u \in Threads |-> ResultOf(u)]
  BY AbstractOthers

\* Taking and dropping locks, and reading for an update, change nothing that
\* a caller can see.
LEMMA StutterStep ==
    ASSUME NEW t \in Threads, OthersSame(t), mem' = mem,
           SequenceBits(t)' = SequenceBits(t), RequestOf(t)' = RequestOf(t),
           Performed(t)' = Performed(t), ResultOf(t)' = ResultOf(t)
    PROVE  UNCHANGED Registers!vars
  BY AbstractSame DEF Registers!vars

\* The steps that lock or fail to lock, with no effect on registers.
LEMMA LockingStutters ==
    ASSUME IInv, NEW t \in Threads,
           \/ \E d \in Devices : CallLock(t, d)
           \/ OpenFails(t) \/ AcquireFails(t) \/ ReleaseNext(t) \/ LockAccess(t)
    PROVE  UNCHANGED Registers!vars
<1>1. OthersSame(t) /\ mem' = mem /\ op' = op /\ val' = val
  BY DEF IInv, TypeOK, CallLock, OpenFails, AcquireFails, ReleaseNext, LockAccess, OthersSame
<1>2. CASE LockAccess(t)
  <2>1. pc[t] = "lock_at" /\ pc'[t] \in {"read", "write"} /\ seq' = seq
    BY <1>2 DEF IInv, TypeOK, LockAccess
  <2>2. /\ SequenceBits(t)' = SequenceBits(t) /\ RequestOf(t)' = RequestOf(t)
        /\ Performed(t)' = Performed(t) /\ ResultOf(t)' = ResultOf(t)
    BY <1>1, <2>1 DEF SequenceBits, RequestOf, Performed, ResultOf, InSequence, Accessing
  <2> QED BY <1>1, <2>2, StutterStep
<1>3. CASE ~LockAccess(t)
  <2>1. /\ pc[t] \in {"idle", "locking", "unlocking"}
        /\ pc'[t] \in {"idle", "locking", "unlocking"}
    BY <1>3 DEF IInv, TypeOK, CallLock, OpenFails, AcquireFails, ReleaseNext
  <2>2. ~InSequence(t) /\ ~InSequence(t)'
    BY <1>3, DeviceAssumption
       DEF IInv, TypeOK, CallLock, OpenFails, AcquireFails, ReleaseNext, InSequence
  <2>3. /\ SequenceBits(t)' = SequenceBits(t) /\ RequestOf(t)' = RequestOf(t)
        /\ Performed(t)' = Performed(t) /\ ResultOf(t)' = ResultOf(t)
    BY <2>1, <2>2 DEF SequenceBits, RequestOf, Performed, ResultOf, Accessing
  <2> QED BY <1>1, <2>3, StutterStep
<1> QED BY <1>2, <1>3

\* The last lock of a sequence is where it begins: nobody else's covers any of
\* its registers.
LEMMA TakeNextImplements ==
    ASSUME IInv, IInv', NEW t \in Threads, TakeNext(t)
    PROVE  Registers!BeginSequence(t) \/ UNCHANGED Registers!vars
<1>1. /\ OthersSame(t) /\ pc[t] = "locking" /\ pc'[t] \in {"idle", "locking"}
      /\ UNCHANGED <<seq, op, val, mem>>
  BY DEF IInv, TypeOK, TakeNext, OthersSame
<1>2. seq[t] \in Devices /\ seq[t] # NoDevice
  BY <1>1 DEF IInv, TypeOK, SeqOK
<1>3. /\ RequestOf(t)' = RequestOf(t) /\ Performed(t)' = Performed(t)
      /\ ResultOf(t)' = ResultOf(t) /\ SequenceBits(t) = {}
  BY <1>1 DEF SequenceBits, RequestOf, Performed, ResultOf, InSequence, Accessing
<1>4. CASE pc'[t] = "locking"
  <2>1. SequenceBits(t)' = {}
    BY <1>4 DEF SequenceBits, InSequence
  <2> QED BY <1>1, <1>3, <2>1, StutterStep
<1>5. CASE pc'[t] = "idle"
  <2>1. InSequence(t)' /\ SequenceBits(t)' = ExtentBits(seq[t])
    BY <1>1, <1>2, <1>5 DEF SequenceBits, InSequence
  <2>2. ASSUME NEW u \in Threads \ {t}
        PROVE  [v \in Threads |-> SequenceBits(v)][u] \cap ExtentBits(seq[t]) = {}
    <3>1. SequencesApart'
      BY Exclusion, PTL
    <3>2. SequenceBits(u)' = SequenceBits(u)
      BY <1>1, AbstractOthers
    <3>3. InSequence(u)' => ExtentBits(seq'[t]) \cap ExtentBits(seq'[u]) = {}
      BY <2>1, <3>1 DEF SequencesApart
    <3>4. SequenceBits(u)' \cap ExtentBits(seq[t]) = {}
      BY <1>1, <3>3 DEF SequenceBits
    <3> QED BY <3>2, <3>4
  <2>3. Registers!Undisturbed(t, ExtentBits(seq[t]))
    BY <2>2 DEF Registers!Undisturbed
  <2>4. ExtentBits(seq[t]) \in {ExtentBits(d) : d \in Devices}
    BY <1>2
  <2>5. [u \in Threads |-> SequenceBits(u)]'
           = [[u \in Threads |-> SequenceBits(u)] EXCEPT ![t] = ExtentBits(seq[t])]
    BY <1>1, <2>1, AbstractUpdate
  <2>6. [u \in Threads |-> SequenceBits(u)][t] = {}
    BY <1>3
  <2>7. /\ [u \in Threads |-> RequestOf(u)]' = [u \in Threads |-> RequestOf(u)]
        /\ [u \in Threads |-> Performed(u)]' = [u \in Threads |-> Performed(u)]
        /\ [u \in Threads |-> ResultOf(u)]' = [u \in Threads |-> ResultOf(u)]
    BY <1>1, <1>3, AbstractSame
  <2>8. Registers!BeginSequence(t)
    BY <1>1, <2>3, <2>4, <2>5, <2>6, <2>7, Zenon DEF Registers!BeginSequence
  <2> QED BY <2>8
<1> QED BY <1>1, <1>4, <1>5

\* A sequence ends when its guard begins to drop.
LEMMA DropSequenceImplements ==
    ASSUME IInv, NEW t \in Threads, DropSequence(t)
    PROVE  Registers!EndSequence(t)
<1>1. /\ OthersSame(t) /\ pc[t] = "idle" /\ pc'[t] = "unlocking" /\ mem' = mem
      /\ UNCHANGED <<op, val>>
  BY DEF IInv, TypeOK, DropSequence, OthersSame
<1>2. /\ RequestOf(t)' = RequestOf(t) /\ Performed(t)' = Performed(t)
      /\ ResultOf(t)' = ResultOf(t) /\ SequenceBits(t)' = {}
  BY <1>1 DEF SequenceBits, RequestOf, Performed, ResultOf, InSequence, Accessing
<1> QED BY <1>1, <1>2, AbstractUpdate, AbstractSame DEF Registers!EndSequence

LEMMA CallAccessImplements ==
    ASSUME IInv, NEW t \in Threads, NEW a \in Calls[t], CallAccess(t, a)
    PROVE  Registers!Call(t) \/ UNCHANGED Registers!vars
<1>1. /\ OthersSame(t) /\ pc[t] = "idle" /\ mem' = mem /\ UNCHANGED <<seq, val>>
      /\ \/ pc'[t] = "idle" /\ op'[t] = op[t]
         \/ pc'[t] = "lock_at" /\ op'[t] = a
  BY DEF IInv, TypeOK, CallAccess, OthersSame
<1>2. /\ SequenceBits(t)' = SequenceBits(t) /\ Performed(t)' = Performed(t)
      /\ ResultOf(t)' = ResultOf(t) /\ RequestOf(t) = NoAccess
  BY <1>1 DEF SequenceBits, RequestOf, Performed, ResultOf, InSequence, Accessing
<1>3. CASE pc'[t] = "idle"
  BY <1>1, <1>2, <1>3, StutterStep DEF RequestOf, Accessing
<1>4. CASE pc'[t] = "lock_at"
  <2>1. RequestOf(t)' = Request(a)
    BY <1>1, <1>4 DEF RequestOf
  <2>2. Request(a) \in {Request(b) : b \in AllCalls}
    BY DEF AllCalls
  <2> QED BY <1>1, <1>2, <2>1, <2>2, AbstractUpdate, AbstractSame DEF Registers!Call
<1> QED BY <1>1, <1>3, <1>4

LEMMA RequestFacts ==
    ASSUME NEW a \in AllCalls
    PROVE  /\ Request(a) # NoAccess
           /\ Request(a).kind = (IF a.kind = "field" THEN "update" ELSE a.kind)
           /\ Request(a).bits = RegisterOf(a)
           /\ Request(a).mask = InMemory(a, a.mask) /\ Request(a).value = InMemory(a, a.value)
           /\ a.kind \in {"read", "write", "update", "field"}
           /\ a.kind = "read" => InMemory(a, a.mask) = {}
<1>1. a \in Accesses
  BY AccessFacts
<1>2. a.kind \in {"read", "write", "update", "field"} /\ (a.kind = "read" => a.mask = {})
  BY <1>1 DEF Accesses
<1>3. /\ Request(a).kind = (IF a.kind = "field" THEN "update" ELSE a.kind)
      /\ Request(a).bits = RegisterOf(a)
      /\ Request(a).mask = InMemory(a, a.mask) /\ Request(a).value = InMemory(a, a.value)
  BY DEF Request
<1>4. Request(a).kind # "none"
  BY <1>2, <1>3
<1>5. Request(a) # NoAccess
  BY <1>4 DEF NoAccess
<1> QED BY <1>2, <1>3, <1>5 DEF InMemory

\* The abstract effect of the access at a register, all of whose bits are out of
\* every other thread's sequence.
LEMMA PerformStep ==
    ASSUME IInv, NEW t \in Threads, pc[t] \in {"read", "write"}, pc'[t] = "drop", OthersSame(t),
           UNCHANGED <<seq, op>>,
           mem' = (mem \ InMemory(op[t], op[t].mask))
                     \cup (InMemory(op[t], op[t].value) \cap InMemory(op[t], op[t].mask)),
           val'[t] = CASE op[t].kind = "read" -> mem \cap RegisterOf(op[t])
                       [] op[t].kind = "write" -> {}
                       [] OTHER -> mem' \cap RegisterOf(op[t])
    PROVE  Registers!Perform(t)
<1>1. op[t] \in AllCalls
  BY OpFacts DEF InAccess, AtRegister
<1>2. RequestOf(t) = Request(op[t]) /\ RequestOf(t)' = RequestOf(t)
  BY DEF RequestOf, Accessing
<1>3. /\ ~Performed(t) /\ Performed(t)' /\ ResultOf(t)' = val'[t]
      /\ SequenceBits(t)' = SequenceBits(t)
  BY DEF Performed, ResultOf, SequenceBits, InSequence
<1>4. ASSUME NEW u \in Threads \ {t}
      PROVE  [v \in Threads |-> SequenceBits(v)][u] \cap RegisterOf(op[t]) = {}
  BY Exclusion DEF SequenceApart, SequenceBits, AtRegister
<1> DEFINE call == [u \in Threads |-> RequestOf(u)]
<1>5. call[t] = Request(op[t])
  BY <1>2
<1>6. /\ call[t] # NoAccess /\ call[t].bits = RegisterOf(op[t])
      /\ call[t].mask = InMemory(op[t], op[t].mask)
      /\ call[t].value = InMemory(op[t], op[t].value)
      /\ call[t].kind \in {"read", "write", "update"}
      /\ call[t].kind = "read" <=> op[t].kind = "read"
      /\ call[t].kind = "write" <=> op[t].kind = "write"
  BY <1>1, <1>5, RequestFacts
<1> HIDE DEF call
<1>7. mem' = Registers!After(call[t])
  BY <1>6 DEF Registers!After
<1>8. val'[t] = Registers!Result(call[t])
  BY <1>6, <1>7 DEF Registers!Result
<1>9. Registers!Undisturbed(t, call[t].bits)
  BY <1>4, <1>6 DEF Registers!Undisturbed
<1> QED BY <1>2, <1>3, <1>6, <1>7, <1>8, <1>9, AbstractUpdate, AbstractSame
        DEF Registers!Perform, call

LEMMA ReadRegisterImplements ==
    ASSUME IInv, NEW t \in Threads, ReadRegister(t)
    PROVE  Registers!Perform(t) \/ UNCHANGED Registers!vars
<1>1. /\ OthersSame(t) /\ pc[t] = "read" /\ UNCHANGED <<seq, op, mem>>
      /\ val'[t] = mem \cap RegisterOf(op[t])
      /\ pc'[t] = (IF op[t].kind = "read" THEN "drop" ELSE "write")
  BY DEF IInv, TypeOK, ReadRegister, OthersSame
<1>2. op[t] \in AllCalls
  BY <1>1, OpFacts DEF InAccess, AtRegister
<1>3. CASE op[t].kind = "read"
  <2>1. InMemory(op[t], op[t].mask) = {}
    BY <1>2, <1>3, RequestFacts
  <2>2. mem' = (mem \ InMemory(op[t], op[t].mask))
                  \cup (InMemory(op[t], op[t].value) \cap InMemory(op[t], op[t].mask))
    BY <1>1, <2>1
  <2> QED BY <1>1, <1>3, <2>2, PerformStep
<1>4. CASE op[t].kind # "read"
  <2>1. /\ SequenceBits(t)' = SequenceBits(t) /\ RequestOf(t)' = RequestOf(t)
        /\ Performed(t)' = Performed(t) /\ ResultOf(t)' = ResultOf(t)
    BY <1>1, <1>4 DEF SequenceBits, RequestOf, Performed, ResultOf, InSequence, Accessing
  <2> QED BY <1>1, <2>1, StutterStep
<1> QED BY <1>3, <1>4

\* What an update computed from is what is in memory when it writes.
LEMMA WriteRegisterImplements ==
    ASSUME IInv, NEW t \in Threads, WriteRegister(t)
    PROVE  Registers!Perform(t)
<1> DEFINE R == RegisterOf(op[t])
           M == InMemory(op[t], op[t].mask)
           V == InMemory(op[t], op[t].value)
           new == (val[t] \ M) \cup (V \cap M)
<1>1. /\ OthersSame(t) /\ pc[t] = "write" /\ pc'[t] = "drop" /\ UNCHANGED <<seq, op>>
      /\ mem' = (mem \ R) \cup new
      /\ val'[t] = IF op[t].kind = "write" THEN {} ELSE new
  BY DEF IInv, TypeOK, WriteRegister, OthersSame, Updated, Masked
<1>2. M \subseteq R /\ (op[t].kind = "write" => M = R) /\ op[t].kind # "read"
  BY <1>1, WrittenBits DEF IInv, OpOK, InAccess, AtRegister
<1>3. val[t] = IF op[t].kind = "write" THEN {} ELSE mem \cap R
  BY <1>1 DEF IInv, ValOK
<1> HIDE DEF R, M, V
<1>4. mem' = (mem \ M) \cup (V \cap M)
  BY <1>1, <1>2, <1>3
<1>5. op[t].kind # "write" => val'[t] = mem' \cap R
  BY <1>1, <1>2, <1>3
<1>6. val'[t] = CASE op[t].kind = "read" -> mem \cap R
                  [] op[t].kind = "write" -> {}
                  [] OTHER -> mem' \cap R
  BY <1>1, <1>2, <1>5
<1> QED BY <1>1, <1>4, <1>6, PerformStep DEF R, M, V

LEMMA ReturnImplements ==
    ASSUME IInv, NEW t \in Threads, DropAccess(t) \/ LockAccessFails(t)
    PROVE  Registers!Return(t)
<1>1. /\ OthersSame(t) /\ pc[t] \in {"lock_at", "drop"} /\ pc'[t] = "idle" /\ mem' = mem
      /\ seq' = seq
  BY DEF IInv, TypeOK, DropAccess, LockAccessFails, EndAccess, OthersSame
<1>2. op[t] \in AllCalls
  BY <1>1, OpFacts DEF InAccess, AtRegister
<1>3. RequestOf(t) # NoAccess
  BY <1>1, <1>2, RequestFacts DEF RequestOf
<1>4. /\ RequestOf(t)' = NoAccess /\ ~Performed(t)' /\ ResultOf(t)' = {}
      /\ SequenceBits(t)' = SequenceBits(t)
  BY <1>1 DEF SequenceBits, RequestOf, Performed, ResultOf, InSequence, Accessing
<1>5. Performed(t)' = FALSE
  BY <1>4 DEF Performed
<1> QED BY <1>1, <1>3, <1>4, <1>5, AbstractUpdate, AbstractSame DEF Registers!Return

LEMMA CrashImplements ==
    ASSUME IInv, NEW t \in Threads, Crash(t)
    PROVE  Registers!Stop(t)
<1>1. OthersSame(t) /\ pc'[t] = "dead" /\ seq'[t] = NoDevice /\ mem' = mem
  BY DEF IInv, TypeOK, Crash, OthersSame
<1>2. /\ RequestOf(t)' = NoAccess /\ Performed(t)' = FALSE /\ ResultOf(t)' = {}
      /\ SequenceBits(t)' = {}
  BY <1>1 DEF SequenceBits, RequestOf, Performed, ResultOf, InSequence, Accessing
<1> QED BY <1>1, <1>2, AbstractUpdate DEF Registers!Stop

\* device.rs implements atomic registers: every access takes effect at one
\* instant, from and with what is in memory at that instant, whatever windows,
\* widths, page size and threads there are, and never inside the sequence of
\* another thread over the same registers.
THEOREM AtomicRegistersImplemented == Spec => ImplementsAtomicRegisters
<1>1. Init => Registers!Init
  <2> SUFFICES ASSUME Init PROVE Registers!Init
    OBVIOUS
  <2>1. \A t \in Threads : /\ SequenceBits(t) = {} /\ RequestOf(t) = NoAccess
                           /\ Performed(t) = FALSE /\ ResultOf(t) = {}
    BY DEF Init, SequenceBits, RequestOf, Performed, ResultOf, InSequence, Accessing
  <2> QED BY <2>1 DEF Init, Registers!Init
<1>2. IInv /\ IInv' /\ [Next]_vars => [Registers!Next]_(Registers!vars)
  <2> SUFFICES ASSUME IInv, IInv', [Next]_vars
               PROVE  [Registers!Next]_(Registers!vars)
    OBVIOUS
  <2>1. ASSUME NEW t \in Threads, Step(t) PROVE [Registers!Next]_(Registers!vars)
    BY <2>1, TakeNextImplements, DropSequenceImplements, LockingStutters,
       ReadRegisterImplements, WriteRegisterImplements, ReturnImplements
       DEF Step, Registers!Next
  <2>2. ASSUME NEW t \in Threads, Environment(t) PROVE [Registers!Next]_(Registers!vars)
    <3>1. \A a \in Calls[t] : a.dev \in Devices
      BY DeviceAssumption DEF Accesses
    <3> QED BY <2>2, <3>1, LockingStutters, CallAccessImplements, ReturnImplements,
               CrashImplements
            DEF Environment, Registers!Next
  <2>3. CASE UNCHANGED vars
    BY <2>3 DEF vars, Registers!vars, SequenceBits, RequestOf, Performed, ResultOf, InSequence,
                Accessing
  <2> QED BY <2>1, <2>2, <2>3 DEF Next
<1> QED BY <1>1, <1>2, Invariance, PTL DEF Spec, ImplementsAtomicRegisters, Registers!Spec
=============================================================================
