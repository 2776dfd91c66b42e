# A TLA+ model of mmreg

mmreg is a Rust library (with a C ABI, a Python binding and a command line) for reading and writing
memory-mapped device registers from user space, through `/dev/uioN` or `/dev/mem`. It promises that
accesses of several threads and processes do not interfere, that a window is mapped only if the
kernel knows it as a healthy device, and that whatever open() set up is given back. This directory
models the parts of the code those promises rest on, checks them with TLC on small instances, and
proves with TLAPS that they hold for any number of threads, processes, windows, files and lines: every
safety property that a run checks (of the lock, its registry and files, register access, opening and
closing, interrupts, the C ABI, the Python binding, the pre-flight and the front ends), three
refinements, and that the parsers of numbers and profiles are exact. Liveness is left to TLC.

Paths below are relative to the repository; `lock.rs:80` means line 80 of `src/lock.rs`.

## 1. Inventory

| Component | State | Operations | Interacts through |
|---|---|---|---|
| Reentrant lock `SharedLock` (lock.rs, mmio.rs) | owner, depth behind a mutex, condition variable, the file's `flock` | acquire, release | threads of the process, other processes via the kernel |
| Lock registry and cache (lock.rs, device.rs) | table of weak references by `(st_dev, st_ino)`, a Device's `base_page_lock` | insert_or_get_shared_lock, lock_at, drops | shared by all Devices of the process |
| Lock directory and files (lock.rs) | a directory and one file per page | lock_dir, open_lock_file | all processes of all users |
| Register access (device.rs, interface.rs, register.rs) | the registers; guards held | lock, read, write, update_u32, write_subregister | takes the locks above |
| Windows and bitfields (register.rs, memregs.rs, mmio.rs) | none | pages of a window, check_access, mapping offsets, masks and shifts | called by every access |
| Opening and closing (interface.rs, device.rs, memregs.rs, memcheck.rs) | mapping, UIO lock handle, custom mapper, saved `power/control` | map, unmap, access, open, drops | `power/control` is shared by all processes |
| Blueprint and Pre-Flight (memcheck.rs, validation.rs) | none beyond the scans | resolve and the checks it makes | reads sysfs, procfs, debugfs |
| UIO interrupts (mmio.rs, device.rs) | descriptor's read counter, the line's mask | irq_wait, irq_unmask | threads sharing a Device, the kernel |
| C ABI (bindings/c) | stack of guards per handle | open, close, lock, unlock, register functions | threads of a C program |
| Safety profiles (validation.rs, parse.rs) | none | parse_profile, parse_check, parse_u64_radix, execute_with | reads registers before a device is opened |
| Front ends: command line (main.rs), one-shot functions (lib.rs), `Interface::map`, `mmreg_open_*` | options and words scanned so far | run_cli, read_register_at, write_register_at | each ends in `DeviceBuilder::open` and one access |
| Python binding (bindings/python) | a Device's handle, a LockGuard's flag, named registers and fields | open, close, with blocks, accesses, field writes | the C ABI; other threads, the hardware's write-1-to-clear bits |
| Not modelled | | error.rs, JSON text | see section 7 |

What is hard here:

* **Concurrency.** A lock made of a mutex, a condition variable and a kernel lock, of which the
  last blocks with the first held; weak references whose last strong one goes away at any moment;
  several page locks per sequence; one descriptor polled and read by several threads.
* **Failure.** `flock` errors after a wakeup was consumed, the third of five locks failing, every
  step of `open` failing, processes killed anywhere.
* **Ordering.** mkdir before chmod, unmap before the power setting is restored, line-by-line scans
  whose meaning depends on the line before or after.
* **Numeric edges.** Inclusive, exclusive, checked, wrapping and saturating window ends; windows
  that begin anywhere in a page.
* **Many ways to one register.** Seven entries set the window, the mapper, force and read-only
  differently, and what a command line means depends on options that may stand after the words.

`hazards` in PROJECT.json lists each of them at its line, with the properties that cover it.

## 2. Modules

| Module | Models | One step is |
|---|---|---|
| `ReentrantLock` | what a lock promises: one holder, who may hold it several times; a dead process holds nothing | a guard taken or dropped |
| `SharedLock` | `SharedLock::acquire` and `release` on one file | what happens between two points where another thread or process can run: taking the state mutex, waiting, flock called, granted, failed; unlock; notify |
| `AtomicRegisters` | what register accesses promise: each takes effect at one instant, or not at all, and not inside another thread's sequence | a call, its effect, its return |
| `RegisterWindow` | the arithmetic of a window: pages, `check_access`, `validate_layout`, the mappers' offsets, `Mapping::register` | operators only |
| `BitFields` | `SubRegister` masks and shifts | operators only |
| `DeviceAccess` | `Device::lock`, `lock_at`, `lock_all`, `read`, `write`, `update_u32`, `write_subregister` | one lock taken or dropped, one register read or written |
| `LockRegistry` | `insert_or_get_shared_lock`, `Device::lock_at`'s cache, the drops of Arcs, guards and Devices | one critical section or one drop |
| `LockFiles` | `lock_dir`, `open_lock_file` | one system call |
| `Lifecycle` | `Interface::map`/`unmap`/`access`, `DeviceBuilder::open`, `RuntimePmGuard` | one fallible operation of open, one drop |
| `UioIrq` | `irq_wait`, `irq_unmask`, the kernel's UIO counter and mask | one system call |
| `CApi` | the C handle and its guard stack | one call's entry, lock, push or pop, drop |
| `PyDevice` | the Python binding's Device and LockGuard, over `CApi` | one statement of `__enter__`, `__exit__` or `close`, or one step of the C call it makes |
| `InlineRegister` | the Python binding's named registers and fields, over `BitFields` | a call, its failure, its read, its write, an event of the hardware |
| `Preflight` | `DeviceBuilder::open` up to the mapping: safety profile, window, `resolve` | one directory entry or line read |
| `Numbers` | parse.rs, digit by digit | operators only |
| `SafetyProfile` | which files are profiles, and the checks they hold | operators only |
| `FrontEnds` | command line, one-shot functions, `Interface::map`, `mmreg_open_*` and `DeviceBuilder`, over `Preflight`: from what the caller says to the access | one token scanned, one profile loaded, one step of `Preflight`, the mapping, the access |
| `SharedLockProofs`, `LockRegistryProofs`, `DeviceAccessProofs`, `UioIrqProofs`, `LifecycleProofs`, `BindingsProofs`, `ParsersProofs`, `PreflightProofs` | theorems about the module each is named after (`LockRegistryProofs`: also `LockFiles`; `DeviceAccessProofs`: also `RegisterWindow` and `BitFields`; `BindingsProofs`: `CApi`, `PyDevice`, `InlineRegister` and `MCBindings`; `ParsersProofs`: `Numbers` and `SafetyProfile`; `PreflightProofs`: `Preflight` and `FrontEnds`) | |
| `MC*` | instances for TLC | |

Composition. Three abstract specifications, three refinements, each of them checked and proved.
`SharedLock` implements `ReentrantLock` by the refinement mapping `guards |-> guards`. `DeviceAccess` takes
that abstract lock as given (`held[l]` is its `guards` for lock `l`) and implements `AtomicRegisters`. `PyDevice`
implements `InlineRegister`. `CApi` takes
the lock as given too, as `owner` and `depth`. `LockRegistry` is what makes "one lock per file" true
inside a process, `LockFiles` what makes "one file per page" true between users.

`PyDevice` extends `CApi`: each of its steps is a step of the C library, one of the Python code, or both.
It writes a register as `InlineRegister` says, under the C library's lock, where `InlineRegister` takes
it for granted that one thread at a time is between its read and its write; that the one implements the
other is checked and proved, and with it `InlineRegister`'s theorem holds of `PyDevice`. `MCBindings` runs programs of both kinds.

`RegisterWindow` is shared: `DeviceAccess` extends it for the locks and checks of an access, `FrontEnds`
instantiates it for the layout of an Interface and the final check. `FrontEnds` extends `Preflight` (the
decision of open) and `SafetyProfile` (which extends `Numbers`). `Lifecycle` takes the outcome of
`resolve` as a choice, `Preflight` says which outcome it is.

PROJECT.json maps every definition to the lines it translates. External definitions stand for the
kernel, std and foreign programs, as this code uses them.

### How state and actions correspond

* `SharedLock`: `mutex[p]` is the holder of `OwnerState`'s mutex, `owner`/`depth` its fields, `pc`
  where in `acquire` or `release` a thread is, `flock` the kernel's lock on the file. `"flock"` is a
  thread blocked in flock(2), with the mutex held as in the code. `NotifyOne` wakes one sleeper of
  the process, chosen freely; `SpuriousWake` may wake any. `Crash` ends a process: the kernel frees
  its flock. `Peers` are programs that only use flock(1) or flock(2) on the file.
* `DeviceAccess`: a Device is its window and its UIO lock or `NoLock`. Memory is the set of the bits
  that are 1, by physical address, so windows overlap as they do in hardware and `update_u32` is
  `(old \ mask) \cup (value \cap mask)`. Refused calls (unaligned, out of bounds, read-only, a field
  without bits) return without a lock. The refinement mapping to `AtomicRegisters` is at the end of the
  module: an operation takes effect when the register is written, a read when it is read.
* `LockRegistry`: `table` holds weak references; `Live(l)` says that some Arc is left. An allocation
  is not reused while a weak reference points to it. `Share` and `Create` are the two outcomes of
  the look-up, after `Retain` and possibly after drops in between.
* `LockFiles`: owner and mode of the directory, owner of the file, users with `fs.protected_regular`.
* `Lifecycle`: the fields of the Interface, builder and Device of each handle; each handle is a
  process of its own, all of them on one peripheral with one `power/control`.
* `UioIrq`: `event` is the kernel's counter, `seen[f]` the count last read through descriptor `f`. A
  deadline is ahead or passed. EINTR and poll's `i32::MAX` cap restart the same call.
* `CApi`: `guards[h]` is the length of `mmreg_dev.guards`; a guard on the stack does not know its
  thread, `mmreg_unlock` compares the lock's owner instead. `sequences` is a history variable:
  what the callers believe they hold.
* `PyDevice`: `py[t]` is where in `__enter__` or `__exit__` a thread is, `active` the LockGuards with
  `_active`, `blocks[t]` the with blocks it is in; `closed` are Devices whose `_handle` is 0 again. A
  LockGuard is entered while it is in use only if `Reuse`. `write[t]` is `InlineRegister`'s `pc`.
* `InlineRegister`: `op[t]` is what a call passes to `update_u32`, with `target`, the bits the caller
  means; `given` is a history variable: what the register must hold if each write changed only its
  target and each event stayed until somebody wrote 1 to its bit. A bit of no w1c field keeps what is
  written; write-1-to-pulse bits clear themselves, which `w1c` covers.
* `Preflight`: `sys` holds the request and the files' contents. The `reg` property is the pairs that
  the tried cell layouts decode; a clock line is its kind, whom it names, the enable count and the
  hardware column. A request is `auto` or `devmem` by address, `uio` by name, or `uio_at`, an address
  with a UIO device that the caller names.
* `Numbers`, `SafetyProfile`: a text is its prefix and its characters, a file the sequence of its
  fields. A parser goes through them once, as the code's loop does: a recursive function whose value at n
  is the loop's local variables after n characters or fields. A result is a set, empty for an error. Both
  modules also give the reference (positional notation; each key exactly once) that is proved to agree.
* `FrontEnds`: `step` is what the front end does next, `cli` the local variables of `run_cli`'s loop,
  `op` the access to make, `log` the accesses that reached hardware, `exit` the error code. Tokens are
  their text, a dash, and their spelling as a number. `"open"` and `"lock"` are the failures of
  the system calls in `map` and in the access. With a custom mapper nothing reaches `log` but the
  checks of a profile.

## 3. Runs

| Run | Instance | Shows |
|---|---|---|
| `lock` | 3 threads in one process, 1 in another, 1 foreign locker, 2 calls each, nesting 2 | exclusion, no abandoned flock, no lost wakeup, every acquire returns, refinement of `ReentrantLock` |
| `access` | overlapping windows of 2 and 3 pages of 8 bytes, one of them not aligned to 8, a read-only one and one in a UIO region; 2 threads, 3 calls each, nested sequences, kills | registers are atomic and sequences isolate them (`AtomicRegisters`), no byte of memory is accessed by two threads at once, the mapping's assertion holds, error paths keep nothing, no deadlock |
| `lifecycle` | 3 handles (one custom mapper, two privileged), 2 maps each, kills | error paths release everything, UIO windows have their lock, `power/control` restored, and only after the unmap |
| `irq` | 3 threads on 2 descriptors, 2 interrupts, 2 waits each | a masked line has a server, no double delivery, a lone waiter keeps its deadline, asserted interrupts are served |
| `registry` | 2 threads, 2 files, 2 Devices, 4 allocations | one live SharedLock per file, its descriptor open while held, no thread blocks on itself |
| `files` | 4 processes of 3 users | once the directory is `1777`, everybody gets the file |
| `bindings` | a C program: 2 threads, 2 handles of one window, 4 calls each; or a Python program: 2 threads, 2 Devices, 3 LockGuards, blocks nested twice, 3 calls each, a register with a w1c and a plain field | only the owner's unlock or a close ends a sequence; guards match the lock's depth; every call returns; in a with block a thread has the lock, once per block; writes of fields change no other field and clear no other event; the binding implements `InlineRegister` |
| `preflight` | ten families of systems and requests (538,000 states), 4-bit addresses | window, owner, verdict and warnings are those of a reference that looks at whole files; every access of every front end is warranted; a command does what its line means, or nothing |
| `lifecycle_power` | 2 processes | **violation**, finding 1 |
| `irq_deadline` | 2 threads on one descriptor | **violation**, finding 2 |
| `lifecycle_mapper` | 1 handle with a custom mapper | **violation**, finding 3 |
| `files_first` | 4 processes of 3 users, no directory yet | **violation**, finding 4 |

Every property of a passing run has a mutant: a changed form of a mapped definition (`...Twice`,
`...Silently`, and so on, next to the definition) under which TLC finds that property violated.

`TypeOK` of `LockFiles`, `CApi` and `Preflight` documents the types of their variables; no run checks it.

`CHECK_DEADLOCK FALSE` is set in all of them: calls are bounded, so every behaviour ends with idle
threads. That nobody is stuck is what the liveness properties say.

### Bounds

* *Threads and calls.* A lost wakeup or a handover in `SharedLock` involves an owner, a sleeper and
  a newcomer: three threads of one process. A second process and a peer make flock contended. Two
  calls let a thread meet the state its own first call left.
* *Pages.* Two windows need two common pages, and one of them a third, for an order of locks to go
  wrong in a cycle. Pages have 8 bytes, the widest register, so that a register can lie across two of
  them; registers of 32 bits are modelled with 4 bits, one per byte, so that fields have ends to get
  wrong. `MaxSequencePages` is 3, so no window of the instance is refused; the refusal comes before any
  effect.
* *Handles.* The interplay on `power/control` takes two; the third one has the custom mapper.
* *Interrupts.* Two, since a level-triggered line is masked until served and the second meets what
  the first left. Two descriptors, one of them shared.
* *Allocations.* Four: two files, each with a lock in use and one dying.
* *Python.* Two guards of one Device and one of another of the same window nest in every way that
  shares a lock; the third call leaves room for a close or an access within two blocks. Two bits hold a
  w1c and a plain field: a write of either may disturb the other, and a second thread and the hardware
  come between the read and the write of the first. All other divisions of a register are left to the
  theorem.
* *Preflight.* Files of up to three lines contain parent, child and sibling, and a clock row,
  another and a consumer. Windows and regions touch both ends of the 16-byte address space
  (`Width` 4, `Page` 8). The families of inputs vary one file each; the checks are made one after the
  other and share no state. `/proc/iomem` inputs are trees: children inside their parent, siblings in
  order.
* *Front ends.* Values have 1, 2, 3 and 4 bits for the four widths, offsets and masks are below
  `Top32` = 8, addresses below `Top64` = 16, so that every limit lies between two one-digit numbers.
  `MockMax` is 8 bytes, between the mock windows of 4 and 10. A command line has up to four option tokens before
  its command, three operands of six spellings (a name, a name of hexadecimal letters, numbers that
  are in range in one radix only, a separator, a prefix without digits) and up to two tokens after.
  Profiles have one check with any one mistake (a key left out, repeated, unknown, misspelt number), as
  the first or second check and in the first or second file of the line.

### Fairness

* `SharedLock`, `DeviceAccess`, `CApi`, `PyDevice`: weak fairness of each thread's `Step` (`PyStep`). A running thread goes
  on, ends the sequences it began and drops its guards; nothing obliges it to make a call, and
  failures, spurious wakeups and kills are never fair. Foreign programs release what they lock. Calls
  are bounded, hence weak fairness is enough for a thread that competes with others: the code's
  condition variable and flock(2) promise no order, and against endless competition nothing would.
* `UioIrq`: the kernel handles an unmasked asserted line, time passes, threads run. Raising
  interrupts, calling irq_wait and errors are not fair.
* The other modules state safety only.

## 4. What is proved

`SharedLockProofs`, for every set of threads, processes and peers and every bound, from
`ConstantsAssumption` alone (threads belong to processes; `NoThread` and `NoHolder` are none of them; bounds are naturals):

| Theorem | Property |
|---|---|
| `TypeCorrect` | `TypeOK` |
| `ExclusionHolds` | `Exclusion`: a thread with a guard is its process's owner, its process has the flock, and nobody else has a guard |
| `FlockHasReleaserHolds` | `FlockHasReleaser`: a held flock has a thread that will drop it |
| `NoLostWakeupHolds` | `NoLostWakeup`: sleepers have an owner or a thread already past the wait to wake them |
| `Refinement` | `ImplementsReentrantLock` |

`Exclusion` is not inductive: a step that takes ownership preserves it only because a thread in
`"granted"` has the flock while no owner is set, and that in turn because the state mutex is held
from before the flock call. `IInv` adds these links: `MutexInv` (who holds the mutex is in the
middle of a flock call, and conversely), `OwnerInv` (`depth` counts the owner's guards, the one being
dropped included, and the process has the flock until its unlock), `ThreadInv` (who is not the owner
has no guards) and `FlockInv` (a held flock has an owner or a thread just granted). The proof has
one step per action; `NotifyOneEffect` states once what notify_one may do. The refinement proof
maps `Reenter` and `TakeOwnership` to `TakeGuard`, `DropGuard` to `DropGuard`, `Crash` to `Die`, and every
other action to a stutter.

`UioIrqProofs`, for every set of threads and descriptors and every bound, from `IrqAssumption`
(each thread waits on one of at least one descriptors; bounds are naturals):

| Theorem | Property |
|---|---|
| `TypeCorrect` | `TypeOK` |
| `MaskHasServerHolds` | `MaskHasServer`: a masked line has an interrupt not yet read or a thread about to unmask it |
| `DeliveredOnceHolds` | `DeliveredOnce`: no interrupt is returned twice through one descriptor |

`DeliveredOnce` needs `GotInv`: what a thread got is not above what its descriptor has read. A
successful read returns a count different from `seen`, hence above it, hence above what every thread
of that descriptor got before. `MaskHasServer` needs a descriptor to exist: without one a masked
line is nobody's.

`LifecycleProofs`, for every set of handles, custom mappers and permissions, with and without kills
and the debug feature, from `LifecycleAssumption`:

| Theorem | Property |
|---|---|
| `TypeCorrect` | `TypeOK` |
| `ErrorPathsReleaseHolds` | `ErrorPathsRelease`: an Interface without a Device holds nothing |
| `UioWindowHasLockHolds` | `UioWindowHasLock`: a Device of a UIO window has the lock of /dev/uioN |
| `RestoreAfterUnmapHolds` | `RestoreAfterUnmap`: power/control is restored only after the unmap |
| `ControlRestoredHolds` | `ControlRestored`: once every handle is closed, power/control is what it was at first |
| `CustomMapperReturnedHolds` | `CustomMapperReturned`: without failed opens a custom mapper is the only one used, and unmap returns it |

The properties speak of a handle at rest or of a single step; `DeviceInv`, `WindowInv` and `GuardInv`
say for every point in between what the handle's thread has: a Device between its installation and
the drop of its backend, a mapping or lock without a Device only at the end of open, a runtime-PM
guard only within an open, a Device or their drop. There is one step per action, grouped by calls,
failures, the rest of open, and closing. `ControlRestored` needs `ControlInv`: where autosuspend was on
at first, whoever finds "on" owes it to a guard that wrote it and is not yet dropped. Handles may
hand "on" to each other without end, and a killed process keeps its guard for ever, but when none
is left nobody has written "on" last. `CustomInv` follows the custom mapper from the
Interface through builder and Device and back.

`LockRegistryProofs`, for every set of threads, files, Devices and allocations, from `RegistryAssumption`
(each Device has a base page; `Nothing` is nothing else; bounds are naturals):

| Theorem | Property |
|---|---|
| `TypeCorrect` | `TypeOK` |
| `OneLockPerFileHolds` | `OneLockPerFile`: a lock file has at most one live SharedLock in a process |
| `HeldLockStaysOpenHolds` | `HeldLockStaysOpen`: a held lock's file is open, its holder is the owner and has the flock |
| `NoSelfDeadlockHolds` | `NoSelfDeadlock`: no thread waits for a file lock it has through another SharedLock |
| `SharedDirServesAllHolds` | `SharedDirServesAll` of `LockFiles`: no process that comes to the 1777 directory is refused its file |

The dangerous moment is between the look-up, which found nothing or a dead entry, and the insertion:
Arcs and Devices may be dropped in between. `LiveInv` says that whatever has an Arc has its descriptor
and its entry, `UniqueInv` that inside the Mutex, after `retain`, no file has two entries; so if the
one entry cannot be upgraded, there is no live lock of that file. Outside the Mutex `UniqueInv`
is false: a dead entry stays until somebody else's `retain`. `OwnerInv` and `FlockInv` tie guards to the
owner and the owner to the kernel's lock.

The last theorem is about any processes and users, from `FilesAssumption` (each process has a user, one of them
root, and `Nobody` is none). Its property is a box within a box; `Served(p)` is what holds from the first one
on, the inductive part being that a process refused by O_CREAT comes to the second plain open with
the file in place.

`DeviceAccessProofs`, first about the arithmetic, for every page size that is a multiple of 8
(`PageAssumption`), every register width (`RegisterBitsAssumption`), window and offset:

| Theorem | Establishes |
|---|---|
| `AccessInOnePage` | the bytes of an admitted access lie in the page of the first, so one page lock is enough |
| `SequenceTakesAccessLock` | that page is one of those `Device::lock` takes |
| `UioAssertHolds`, `DevMemAssertHolds` | `Mapping::register`'s assertion holds for an admitted access |
| `FieldWriteKeepsOthers` | a field write keeps the bits outside the field |
| `FieldReadsBack` | a field reads back as what was written, cut to its width |

They rest on `AlignedFits`: a register aligned to its width does not cross a page, because the page
size is a multiple of every width; that is why `check_access` must align the physical address
and not the offset only. Then about the threads, for every set of threads, Devices, windows and calls, from
`DeviceAssumption` (windows and accesses are what their types say, a UIO region begins no later than its
window) and `SameRegistersSameLock` (Devices with a register in common lock the same file, see section 7):

| Theorem | Property |
|---|---|
| `TypeCorrect` | `TypeOK` |
| `NothingLeakedHolds` | `NothingLeaked`: a thread outside calls and sequences holds no lock |
| `ByteExclusionHolds` | `ByteExclusion`: no two threads are at one byte at the same time |
| `MappingAssertHoldsAlways` | `MappingAssertHolds` |
| `AtomicRegistersImplemented` | `ImplementsAtomicRegisters` |

The inductive invariant says exactly what a thread holds of each lock (`HeldInv`: one for its sequence if the
lock is among the first `taken` of it, one for its access from the grant to the drop), so that every error path
is seen to give back what it took, no more. `MutexInv` is the abstract lock's exclusion. Two threads at
one byte would by `LockOfByte` hold the lock of that byte's page both. `ValOK` says that what an update
has read is still in memory when it writes, which makes its read and its write one instant: the
refinement maps the write (or a read's only step) to the effect, and the locking to stutters.
That no effect falls into another thread's sequence is again `LockOfByte`: the sequence has the lock of every
page of its window.

`BindingsProofs`, for every set of threads and handles, from `CApiAssumption` and `PyAssumption` (`NoThread`,
`NoHandle`, `NoGuard` are none of the others, each LockGuard has a Device):

| Theorem | Property |
|---|---|
| `HeldUntilUnlockHolds` | `HeldUntilUnlock`: a sequence is its caller's until its own unlock or a close |
| `GuardsMatchDepthHolds` | `GuardsMatchDepth`: the lock is as deep as there are guards |
| `RegisterTypeCorrect`, `RegisterFieldsIndependent` | `TypeOK` and `FieldsIndependent` of `InlineRegister`, for every register width, set of threads and accepted fields, from `RegisterBitsAssumption` |
| `WithBlockHeldHolds` | `WithBlockHeld`, if no LockGuard is entered while it is in use (`~Reuse`) |
| `InlineRegisterImplemented` | `ImplementsInlineRegister` |
| `FieldsIndependentHolds` | `FieldsIndependent`, for every program of the Python binding |

Guards are counted as tokens, the k-th of each handle's stack, plus those in a call's hands; a push or pop adds
or takes one token, a close takes them one by one. `SequenceInv` is what mmreg_unlock relies on when it
pops a guard that does not know its thread: the guards on an open handle are all the lock's owner's, as many as
the sequences it believes in. For the with blocks, `BlockInv` says that a thread's sequences on an open Device are
its blocks on it, the one just entered or being left included; with it goes `OnceInv`, that a LockGuard is
in use once, which is what `Reuse` breaks.

The invariant of `InlineRegister` adds what makes a stale read harmless: `OpInv`, the mask of every call covers
all w1c bits, so none is written back as it was read; `HolderInv`, between read and write the other bits cannot
change, since the thread is alone there. `StoredIsIntended` is the algebra of one write. `WriteInv` finds a field write between its read and its
write only while its C call has the lock in hand, so no other thread is there: that is the refinement, and the
theorem about `InlineRegister` then applies to every program.

`PreflightProofs`, about `FSpec`, that is `Preflight` as every front end runs it, for every address width, page
size and set of devices, files and command lines of any length. From `PreflightAssumption`, `SystemsAssumption`,
`CallersAssumption` and `ContentsAssumption` (what is asked for and read has its types; the kernel prints no
/proc/iomem range that ends before it begins and has no UIO region beyond the last address; a command line brings
no mapper and no profile but those it loads; files have fields, or none) and from `FrontEndsAssumption` and
`ProfileAssumption` (register widths, and the 32 and 64 bits of the code's integer types):

| Theorem | Property |
|---|---|
| `RightOwnerHolds` | `RightOwner`: the device checked owns every byte of the window |
| `IomemExactHolds` | `IomemExact`: the scan of /proc/iomem finds the covering leaf and the memory that there is |
| `ClocksExactHolds` | `ClocksExact`: the scan of clk_summary finds the gated clocks and counts the idle ones |
| `VerdictExactHolds` | `VerdictExact`: open goes on exactly when all conditions hold |
| `AccessWarrantedHolds` | `AccessWarranted`: no front end makes an access that is not |
| `CommandExactHolds` | `CommandExact`: a command does what its line means, or nothing |

The argument is one invariant per scan, of what is known at line `i`: no entry before it covers the window
(`OwnerInv`), some covering line before it was a leaf or the last one may become one (`IomemInv`), `row` is
the clock row that the line above speaks of (`ClocksInv`). `RegCoversIsInclusion` and `ContainsIsInclusion`
show that comparing ends, one of them saturated, means inclusion of bytes. A line has a child exactly
if the next one is deeper, whatever follows: that is why one remembered indentation is enough for a tree.
`VerdictInv` adds up what the checks passed so far have established.

A step of a front end is one of the decision or tells DeviceBuilder something (`FrontSteps`). The latter happens
only before the decision and leaves a request that a caller may make (`Configures`), so the invariants of
the decision start anew from it. That is the reason for `StepInv`: a front end that could still change the
request once the window is resolved would break every one of them. `LogInv` says of each access made so far that it
is warranted; the checks of a profile are by `Reachable`, the last access by `check_access` within the window
(`AcceptedWindow`: a real one, whether it was given or is that of a region) and, through UIO, by
`map_uio` finding the window in its region (`InsideMapped`).

`CommandExact` compares `run_cli`, which goes through the tokens once and then through the words, with references
that look at the line as a whole: the words are the tokens that are neither options nor arguments, in their order;
a token is an argument if the run of options before it that take one is of odd length; the width is that of the
last `-w`, the profiles those of every `-v`. Its invariant, `CommandInv`, says at each point of the command how
much of that has been found out:

* while scanning, `cli` is `ScanOf(n)`, what the first n - 1 tokens amount to, and the n-th is no argument
  (`Scanned`). `ArgumentNext` is why one step of parity is enough: a token is an argument exactly if the one before
  takes one and is none itself. A token is scanned alone (`NextToken`) or with its argument (`NextPair`); each
  adds at most one place to the words or to the arguments of one option (`PlacesNext`), at the end of the sequence
  (`InOrderAppend`). `LastScan`: at the end of the line these are the references.
* at the operands, `OperandsExact`: the usage errors are those of lines that mean nothing, and each target is a
  meaning of the line. What a word denotes as a number is `NumberExact`.
* while profiles are loaded and their checks made, the first m of the line held (`Behind`, `Held`) and the checks
  under way are those that `ProfileExact` says stand in the next (`Loaded`).
* from the request on, DeviceBuilder was told what the line means (`Asked`), and the one access left is that.

The property as it was first written said less than its comment: a conjunct was swallowed by an implication within
a quantifier, so that it did not compare the access made with the one the line means. Stating the steps of the
proof showed it; TLC passes on the property as it now stands.

`ParsersProofs`, for texts and files of any length:

| Theorem | Establishes |
|---|---|
| `NumberExact` | `parse_u64_radix` yields exactly what a positional reading of the text denotes, nothing if that is too large for its type or if there is a character that is no digit |
| `CheckExact` | `parse_check` accepts an object exactly if each key of a check is in it once, with a value of its type, and takes those values |
| `ProfileExact` | `parse_profile` accepts a file exactly if it is a profile, and takes all of its checks, in their order |

An induction theorem of the library takes an operator as parameter, which the provers cannot instantiate.
`Induction` does without: it is about a set of naturals, and follows from their being well-founded. With it
`RecursionExists` gives a recursive function its equations, and each theorem is an induction over the loop:
the value after n characters is the positional value of the first n (`HornerIsPositional`: multiplying what was read
by the radix is what raises all its powers by one), and the overflow check on the way refuses exactly what is
too large in the end, since the value never decreases. For objects, `ValueSoFar` is what the loop has
for a key after n fields: the value of its only occurrence (`ValueMeansOccurrence`).

Only model-checked: liveness, that is `EveryAcquireReturns` of `SharedLock`, `EveryCallReturns` of `DeviceAccess` and of
the bindings, and `LoneWaitEnds` and `RaisedIsServed` of `UioIrq`. Under fairness it is outside what the prover handles.

## 5. Findings

1. **The power setting is not held for a second process** (memcheck.rs:747, run `lifecycle_power`).
   `RuntimePmGuard::acquire` takes no guard if `power/control` already reads "on". If it does because
   another process mapped the device first, that process's unmap restores "auto" under the second
   mapping. memcheck.rs:735 and README.md:27 say that the device is held runtime-active while mapped.
2. **A timed wait can outlast its timeout** (mmio.rs:135, run `irq_deadline`). Two threads sharing a
   Device are both told POLLIN; the second one's read blocks until the next interrupt.
   device.rs:638 says "Waits up to `timeout`".
3. **A failed map() loses the custom mapper** (interface.rs:198, run `lifecycle_mapper`), against
   docs/developers/02-memory-mappers.md:60, "kept across `unmap()` and failed `map()` calls".
4. **First use by several users can fail** (lock.rs:372, run `files_first`): between mkdir and chmod
   of the lock directory, or after a creator that died there, other users cannot create their lock
   files, against lock.rs:361 and lock.rs:374.

## 6. Plan

Done: the lock and its abstract specification, register access with its arithmetic and its abstract
specification, registry, lock files, lifecycle, interrupts, C ABI, Python binding, pre-flight and the front
ends; the proofs of section 4.

Left: the C ABI's per-thread last error, and the hazards of PROJECT.json that have a note in place of a
property.

## 7. Not modelled

* `error.rs`: codes and wording. The models keep which error is returned where a property tells
  them apart.
* JSON text (`validation.rs`: strings, escapes, nesting, white space) and printing: the models begin
  at fields and tokens. `str::parse`'s leading `+`.
* Of the Python binding: loading the library, attribute look-up and the checks of names, `define`'s
  alignment check, and a close() that races a call of another thread on the same Device
  (`__init__.py:578`): the C ABI forbids it, so what happens is not in this code.
* A LockGuard entered again inside its own block (`Reuse` = FALSE in `Bindings.cfg`). It has one flag for
  all its blocks (`__init__.py:498`): the inner `__exit__` clears it and the outer one does not unlock, so the
  thread keeps the lock; with `Reuse` = TRUE, TLC shows it as a violation of `WithBlockHeld`. A call of
  `dev.lock()` for each block, as in the documentation, makes a new guard.
* Non-Unix builds, where locks and interrupts are stubs.
* One register window reached both through `/dev/uioN` and through an explicit `/dev/mem` mapper:
  the two Devices take different locks (device.rs:461), so their updates are not atomic to each
  other; the instances follow the documented use, UIO first.
* Sequences of several Devices nested in one another, whose order is the caller's.
* Memory ordering of the register accesses themselves, which the code leaves to volatile accesses.
* Changes of sysfs between the pre-flight and the access.

## 8. Running

    tlc -workers 2 -config SharedLock.cfg MCSharedLock
    tlapm SharedLockProofs.tla

and likewise for the other runs in PROJECT.json and the other proof modules.
