---------------------------- MODULE DeviceAccess ----------------------------
(***************************************************************************)
(* device.rs: register accesses and sequence guards of open Devices.       *)
(* Every read, write and update_u32 takes the lock of the page it touches  *)
(* (a UIO device: the device's one lock); Device::lock takes every page    *)
(* lock of the window, in ascending order (lock.rs, lock_all).  A lock is  *)
(* the atomic reentrant lock that SharedLock implements: held[l][t] is     *)
(* ReentrantLock's guards for lock l; a page's lock is its address.        *)
(*                                                                         *)
(* mem is the set of the bits of physical memory that are 1; the bits of   *)
(* the byte at address a are those from ByteBits * a on.  A thread stands  *)
(* for a thread of any process.                                            *)
(***************************************************************************)
EXTENDS RegisterWindow, BitFields

CONSTANTS Threads, Devices,
          Window,            \* [Devices -> Windows]
          UioLock,           \* [Devices -> lock of /dev/uioN, or NoLock for /dev/mem]
          UioAddr,           \* [Devices -> address of the UIO region the window is in]
          NoLock, NoDevice,
          Calls,             \* [Threads -> sets of accesses], refused ones included
          MaxSequencePages,  \* Device::MAX_SEQUENCE_PAGES
          MaxCalls           \* bound: calls per thread

ByteBits == RegisterBits \div 4

Extent(d) == Bytes(Window[d], 0, Window[d].size)

\* What callers may request: a read touches no bit of its register, a write all.
Accesses ==
    {a \in [kind : {"read", "write", "update", "field"}, dev : Devices, offset : Nat,
            bytes : Widths, mask : SUBSET Nat, value : SUBSET Nat] :
        /\ a.mask \subseteq 0..ByteBits * a.bytes - 1
        /\ a.kind = "read" => a.mask = {}
        /\ a.kind = "write" => a.mask = 0..ByteBits * a.bytes - 1}

ASSUME DeviceAssumption ==
    /\ RegisterBits % 4 = 0
    /\ Window \in [Devices -> Windows]
    /\ \A d \in Devices : UioLock[d] \notin Nat
    /\ UioAddr \in [Devices -> Nat]
    /\ \A d \in Devices : UioLock[d] # NoLock => UioAddr[d] <= Window[d].base
    /\ NoDevice \notin Devices
    /\ \A t \in Threads : Calls[t] \subseteq Accesses
    /\ MaxSequencePages \in Nat \ {0}
    /\ MaxCalls \in Nat

\* Devices are opened as documented, UIO first: windows over the same registers
\* share their lock file.
ASSUME SameRegistersSameLock ==
    \A d, e \in Devices : Extent(d) \cap Extent(e) # {} => UioLock[d] = UioLock[e]

VARIABLES
    pc,      \* where in a call each thread is
    seq,     \* seq[t]: the Device whose LockGuard t holds, takes or drops
    taken,   \* taken[t]: how many of that guard's locks t has
    op,      \* op[t]: the access in progress
    val,     \* val[t]: the value an access has read, at last the one it returns
    held,    \* held[l][t]: nesting depth of lock l in t
    mem,
    calls

vars == <<pc, seq, taken, op, val, held, mem, calls>>

PCs == {"idle", "locking", "unlocking", "lock_at", "read", "write", "drop", "dead"}

\* Mutant of LockAt: the cached base page lock serves every page of the window.
LockAtBasePage(d, address) ==
    IF UioLock[d] # NoLock THEN UioLock[d] ELSE PageOf(Window[d].base)

\* lock_at: the UIO device's lock, or the lock file of the register's page.
LockAt(d, address) == IF UioLock[d] # NoLock THEN UioLock[d] ELSE PageOf(address)

\* Mutant of LockCount: a sequence takes its first lock only.
LockCountOne(d) == 1

\* lock: how many locks a sequence guard takes.
LockCount(d) == IF UioLock[d] # NoLock THEN 1 ELSE PageCount(Window[d])

\* Mutant of LockNumber: the base page, whose lock is cached, last.
LockNumberBaseLast(d, i) ==
    LockAt(d, PageNumber(Window[d], IF i = LockCount(d) THEN 1 ELSE i + 1))

\* The i-th lock a sequence takes.
LockNumber(d, i) == LockAt(d, PageNumber(Window[d], i))

Locks == UNION {{LockNumber(d, i) : i \in 1..PageCount(Window[d])} : d \in Devices}

(* The accesses callers make: read and write of a width, update_u32, and     *)
(* write_subregister of a field.                                             *)
NoAccess == [kind |-> "none"]
Read(d, offset, bytes) ==
    [kind |-> "read", dev |-> d, offset |-> offset, bytes |-> bytes,
     mask |-> {}, value |-> {}]
Write(d, offset, bytes, value) ==
    [kind |-> "write", dev |-> d, offset |-> offset, bytes |-> bytes,
     mask |-> 0..ByteBits * bytes - 1, value |-> value]
Update(d, offset, mask, value) ==
    [kind |-> "update", dev |-> d, offset |-> offset, bytes |-> 4,
     mask |-> mask, value |-> value]
WriteField(d, offset, f, value) ==
    [Update(d, offset, Mask(f), FieldValue(f, value)) EXCEPT !.kind = "field"]

AddressOf(a) == Window[a.dev].base + a.offset

\* Where the bits of a register's value are in memory.
InMemory(a, value) == {ByteBits * AddressOf(a) + i : i \in value}
RegisterOf(a) == InMemory(a, 0..ByteBits * a.bytes - 1)

\* Refused before any lock: a failed check, or a field without bits.
Refused(a) ==
    \/ CheckAccess(Window[a.dev], a.offset, a.bytes, a.kind # "read") # "ok"
    \/ a.kind = "field" /\ a.mask = {}

Init ==
    /\ pc = [t \in Threads |-> "idle"]
    /\ seq = [t \in Threads |-> NoDevice]
    /\ taken = [t \in Threads |-> 0]
    /\ op = [t \in Threads |-> NoAccess]
    /\ val = [t \in Threads |-> {}]
    /\ held = [l \in Locks |-> [t \in Threads |-> 0]]
    /\ mem = {}
    /\ calls = [t \in Threads |-> 0]

-----------------------------------------------------------------------------
Free(l, t) == \A u \in Threads \ {t} : held[l][u] = 0
Take(l, t) == Free(l, t) /\ held' = [held EXCEPT ![l][t] = @ + 1]
Drop(l, t) == held' = [held EXCEPT ![l][t] = @ - 1]

(* Device::lock *)

\* A window of too many pages is refused; any other call starts locking.
CallLock(t, d) ==
    /\ pc[t] = "idle" /\ seq[t] = NoDevice
    /\ calls[t] < MaxCalls
    /\ calls' = [calls EXCEPT ![t] = @ + 1]
    /\ IF LockCount(d) > MaxSequencePages
       THEN UNCHANGED <<pc, seq>>
       ELSE /\ pc' = [pc EXCEPT ![t] = "locking"]
            /\ seq' = [seq EXCEPT ![t] = d]
    /\ UNCHANGED <<taken, op, val, held, mem>>

\* A page lock file cannot be opened; all are opened before any is locked.
OpenFails(t) ==
    /\ pc[t] = "locking" /\ taken[t] = 0
    /\ UioLock[seq[t]] = NoLock
    /\ pc' = [pc EXCEPT ![t] = "idle"]
    /\ seq' = [seq EXCEPT ![t] = NoDevice]
    /\ UNCHANGED <<taken, op, val, held, mem, calls>>

\* lock_all: the next lock; with the last one the guard is returned.
TakeNext(t) ==
    /\ pc[t] = "locking"
    /\ Take(LockNumber(seq[t], taken[t] + 1), t)
    /\ taken' = [taken EXCEPT ![t] = @ + 1]
    /\ pc' = [pc EXCEPT ![t] = IF taken[t] + 1 = LockCount(seq[t])
                               THEN "idle" ELSE "locking"]
    /\ UNCHANGED <<seq, op, val, mem, calls>>

\* Mutant of AcquireFails: the error returns with the locks still held.
AcquireFailsKeeps(t) ==
    /\ pc[t] = "locking"
    /\ pc' = [pc EXCEPT ![t] = "idle"]
    /\ seq' = [seq EXCEPT ![t] = NoDevice]
    /\ taken' = [taken EXCEPT ![t] = 0]
    /\ UNCHANGED <<op, val, held, mem, calls>>

\* lock_all: acquire fails; the guard over the locks taken so far is dropped.
AcquireFails(t) ==
    /\ pc[t] = "locking"
    /\ IF taken[t] = 0
       THEN /\ pc' = [pc EXCEPT ![t] = "idle"]
            /\ seq' = [seq EXCEPT ![t] = NoDevice]
       ELSE /\ pc' = [pc EXCEPT ![t] = "unlocking"]
            /\ UNCHANGED seq
    /\ UNCHANGED <<taken, op, val, held, mem, calls>>

\* LockGuard::drop begins.
DropSequence(t) ==
    /\ pc[t] = "idle" /\ seq[t] # NoDevice
    /\ pc' = [pc EXCEPT ![t] = "unlocking"]
    /\ UNCHANGED <<seq, taken, op, val, held, mem, calls>>

\* release_all: the locks go in reverse order of acquisition.
ReleaseNext(t) ==
    /\ pc[t] = "unlocking"
    /\ Drop(LockNumber(seq[t], taken[t]), t)
    /\ taken' = [taken EXCEPT ![t] = @ - 1]
    /\ IF taken[t] = 1
       THEN /\ pc' = [pc EXCEPT ![t] = "idle"]
            /\ seq' = [seq EXCEPT ![t] = NoDevice]
       ELSE UNCHANGED <<pc, seq>>
    /\ UNCHANGED <<op, val, mem, calls>>

-----------------------------------------------------------------------------
(* read, write, update_u32 *)

\* A call that passes its checks goes on to take its lock; within a sequence,
\* to a register of the sequence's own device.
CallAccess(t, a) ==
    /\ pc[t] = "idle" /\ seq[t] \in {NoDevice, a.dev}
    /\ calls[t] < MaxCalls
    /\ calls' = [calls EXCEPT ![t] = @ + 1]
    /\ IF Refused(a)
       THEN UNCHANGED <<op, pc>>
       ELSE /\ op' = [op EXCEPT ![t] = a]
            /\ pc' = [pc EXCEPT ![t] = "lock_at"]
    /\ UNCHANGED <<seq, taken, val, held, mem>>

EndAccess(t) ==
    /\ pc' = [pc EXCEPT ![t] = "idle"]
    /\ op' = [op EXCEPT ![t] = NoAccess]
    /\ val' = [val EXCEPT ![t] = {}]

LockAccess(t) ==
    /\ pc[t] = "lock_at"
    /\ Take(LockAt(op[t].dev, AddressOf(op[t])), t)
    /\ pc' = [pc EXCEPT ![t] = IF op[t].kind = "write" THEN "write" ELSE "read"]
    /\ UNCHANGED <<seq, taken, op, val, mem, calls>>

\* The lock file cannot be opened or locked: the access returns the error.
LockAccessFails(t) ==
    /\ pc[t] = "lock_at"
    /\ EndAccess(t)
    /\ UNCHANGED <<seq, taken, held, mem, calls>>

ReadRegister(t) ==
    /\ pc[t] = "read"
    /\ val' = [val EXCEPT ![t] = mem \cap RegisterOf(op[t])]
    /\ pc' = [pc EXCEPT ![t] = IF op[t].kind = "read" THEN "drop" ELSE "write"]
    /\ UNCHANGED <<seq, taken, op, held, mem, calls>>

\* What an access leaves in its register, given what it read there.
Updated(a, current) == Masked(current, InMemory(a, a.mask), InMemory(a, a.value))

WriteRegister(t) ==
    /\ pc[t] = "write"
    /\ LET new == Updated(op[t], val[t])
       IN  /\ mem' = (mem \ RegisterOf(op[t])) \cup new
           /\ val' = [val EXCEPT ![t] = IF op[t].kind = "write" THEN {} ELSE new]
    /\ pc' = [pc EXCEPT ![t] = "drop"]
    /\ UNCHANGED <<seq, taken, op, held, calls>>

\* Mutant of DropAccess: the guard is released twice.
DropAccessTwice(t) ==
    /\ pc[t] = "drop"
    /\ held' = [held EXCEPT ![LockAt(op[t].dev, AddressOf(op[t]))][t] = @ - 2]
    /\ EndAccess(t)
    /\ UNCHANGED <<seq, taken, mem, calls>>

DropAccess(t) ==
    /\ pc[t] = "drop"
    /\ Drop(LockAt(op[t].dev, AddressOf(op[t])), t)
    /\ EndAccess(t)
    /\ UNCHANGED <<seq, taken, mem, calls>>

-----------------------------------------------------------------------------
\* The thread's process is killed: the kernel drops its locks, the register
\* keeps whatever was written.
Crash(t) ==
    /\ pc[t] # "dead"
    /\ pc' = [pc EXCEPT ![t] = "dead"]
    /\ seq' = [seq EXCEPT ![t] = NoDevice]
    /\ taken' = [taken EXCEPT ![t] = 0]
    /\ op' = [op EXCEPT ![t] = NoAccess]
    /\ val' = [val EXCEPT ![t] = {}]
    /\ held' = [l \in Locks |-> [held[l] EXCEPT ![t] = 0]]
    /\ UNCHANGED <<mem, calls>>

Step(t) ==
    \/ TakeNext(t) \/ DropSequence(t) \/ ReleaseNext(t)
    \/ LockAccess(t) \/ ReadRegister(t) \/ WriteRegister(t) \/ DropAccess(t)

Environment(t) ==
    \/ \E d \in {a.dev : a \in Calls[t]} : CallLock(t, d)
    \/ \E a \in Calls[t] : CallAccess(t, a)
    \/ OpenFails(t) \/ AcquireFails(t) \/ LockAccessFails(t) \/ Crash(t)

Next == \E t \in Threads : Step(t) \/ Environment(t)

Spec == Init /\ [][Next]_vars

\* Threads run and drop their guards; calls, errors and crashes need not happen.
FairSpec == Spec /\ \A t \in Threads : WF_vars(Step(t))

-----------------------------------------------------------------------------
(* Properties *)

AllCalls == UNION {Calls[t] : t \in Threads}

TypeOK ==
    /\ pc \in [Threads -> PCs]
    /\ seq \in [Threads -> Devices \cup {NoDevice}]
    /\ taken \in [Threads -> Nat]
    /\ op \in [Threads -> AllCalls \cup {NoAccess}]
    /\ val \in [Threads -> SUBSET Nat]
    /\ held \in [Locks -> [Threads -> Nat]]
    /\ mem \subseteq Nat
    /\ calls \in [Threads -> 0..MaxCalls]

\* No path through Device::lock or an access, failing ones included, keeps a
\* lock: a thread with no guard and no call in progress holds none.
NothingLeaked ==
    \A t \in Threads :
        pc[t] \in {"idle", "dead"} /\ seq[t] = NoDevice =>
            \A l \in Locks : held[l][t] = 0

Accessing(t) == pc[t] \in {"read", "write"}

\* Two threads are never at the same byte at the same time, through whichever
\* windows, offsets and widths they reach it: a 64-bit access that the
\* processor splits into two is still one access to everybody else.
ByteExclusion ==
    \A t, u \in Threads :
        t # u /\ Accessing(t) /\ Accessing(u) => RegisterOf(op[t]) \cap RegisterOf(op[u]) = {}

\* The offset of the window in its mapping (memregs.rs).
DataOffset(d) ==
    IF UioLock[d] # NoLock THEN UioOffset(UioAddr[d], Window[d]) ELSE DevMemOffset(Window[d])

\* The assertion in Mapping::register never fails: an access that check_access
\* lets through is aligned and in bounds in the mapping too, which starts at
\* another address than the window.
MappingAssertHolds ==
    \A t \in Threads :
        Accessing(t) =>
            RegisterInMapping(DataOffset(op[t].dev), Window[op[t].dev],
                              op[t].offset, op[t].bytes)

\* t holds a complete sequence guard.
InSequence(t) ==
    seq[t] # NoDevice /\ pc[t] \notin {"locking", "unlocking"}

\* The operation an access requests, in terms of memory.
Request(a) ==
    [kind |-> IF a.kind = "field" THEN "update" ELSE a.kind, bits |-> RegisterOf(a),
     mask |-> InMemory(a, a.mask), value |-> InMemory(a, a.value)]

ExtentBits(d) ==
    {ByteBits * b + i : b \in Extent(d), i \in 0..ByteBits - 1}

\* What a thread's sequence covers, what it has requested, whether that has
\* taken effect and with which result.
SequenceBits(t) == IF InSequence(t) THEN ExtentBits(seq[t]) ELSE {}
RequestOf(t) == IF Accessing(t) \/ pc[t] \in {"lock_at", "drop"} THEN Request(op[t]) ELSE NoAccess
Performed(t) == pc[t] = "drop"
ResultOf(t) == IF Performed(t) THEN val[t] ELSE {}

Registers == INSTANCE AtomicRegisters WITH
    mem <- mem,
    seq <- [t \in Threads |-> SequenceBits(t)],
    call <- [t \in Threads |-> RequestOf(t)],
    done <- [t \in Threads |-> Performed(t)],
    ret <- [t \in Threads |-> ResultOf(t)],
    Threads <- Threads,
    Ops <- {Request(a) : a \in AllCalls},
    NoOp <- NoAccess,
    Extents <- {ExtentBits(d) : d \in Devices}

\* Reads, writes, updates and sequences implement atomic registers: each
\* access takes effect at one instant, computed from and returning what is in
\* memory at that instant, and nobody else's takes effect on a window while a
\* sequence guard over it is held.
ImplementsAtomicRegisters == Registers!Spec

\* Every call returns: sequences over overlapping windows do not deadlock with
\* each other or with single accesses.
EveryCallReturns ==
    \A t \in Threads : pc[t] \notin {"idle", "dead"} ~> pc[t] \in {"idle", "dead"}
=============================================================================
