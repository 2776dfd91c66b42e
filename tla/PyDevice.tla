------------------------------ MODULE PyDevice ------------------------------
(***************************************************************************)
(* The Python binding's Device and LockGuard over the C ABI (CApi): with   *)
(* blocks on dev.lock(), accesses, and close(), which any thread may call. *)
(* A Device is its C handle; `closed' are those whose _handle is 0 again,  *)
(* on which every method raises.  _require_handle and the C call it is for *)
(* are one step: as in CApi, nobody closes a Device during a call on it.   *)
(*                                                                         *)
(* An access may write an inline register of the window, the same on every *)
(* Device (InlineRegister); `write' is where in that write a thread is.    *)
(***************************************************************************)
EXTENDS CApi, SequencesExt

CONSTANTS Guards,        \* LockGuard objects
          GuardDevice,   \* [Guards -> Handles]: the Device each was made by
          NoGuard,
          Reuse,         \* whether a LockGuard is entered while it is in use
          MaxNesting,    \* bound: with blocks a thread nests
          RegisterBits,
          Definitions    \* what the program may define the register as

ASSUME PyAssumption ==
    /\ GuardDevice \in [Guards -> Handles]
    /\ NoGuard \notin Guards
    /\ Reuse \in BOOLEAN /\ MaxNesting \in Nat
    /\ RegisterBits \in Nat \ {0}

VARIABLES
    py, guard,   \* where in __enter__ or __exit__ a thread is, and of which guard
    active,      \* guards with _active
    blocks,      \* the guards of the with blocks a thread is in, innermost last
    closed,
    fields, w1c, reg, write, op, old, given

pyvars == <<py, guard, active, blocks, closed>>
regvars == <<fields, w1c, reg, write, op, old, given>>

Register == INSTANCE InlineRegister WITH pc <- write

PyInit ==
    /\ Init
    /\ Register!Init /\ <<fields, w1c>> \in Definitions
    /\ py = [t \in Threads |-> "run"]
    /\ guard = [t \in Threads |-> NoGuard]
    /\ active = {}
    /\ blocks = [t \in Threads |-> <<>>]
    /\ closed = {}

Running(t) == py[t] = "run" /\ pc[t] = "idle"

Moves(t, where, g) == py' = [py EXCEPT ![t] = where] /\ guard' = [guard EXCEPT ![t] = g]

Returns(t) == Moves(t, "run", NoGuard)

Pop(t) == blocks' = [blocks EXCEPT ![t] = Front(@)]

\* open_uio, open_uio_path, open_addr: a Device that was closed stays so.
OpenDevice(t, h) ==
    /\ Running(t) /\ h \notin closed
    /\ Open(t, h)
    /\ UNCHANGED <<pyvars, regvars>>

InUse(g) == \E t \in Threads : guard[t] = g \/ g \in ToSet(blocks[t])

\* __enter__ of a guard calls mmreg_lock.
Enter(t, g) ==
    /\ Running(t) /\ Len(blocks[t]) < MaxNesting
    /\ InUse(g) => Reuse
    /\ CallLock(t, GuardDevice[g])
    /\ Moves(t, "enter", g)
    /\ UNCHANGED <<active, blocks, closed, regvars>>

Locked(t) ==
    /\ py[t] = "enter" /\ Push(t)
    /\ Moves(t, "locked", guard[t])
    /\ UNCHANGED <<active, blocks, closed, regvars>>

\* Mutant of EnterFails: the block runs whatever mmreg_lock returned.
EnterFailsSilently(t) ==
    /\ py[t] = "enter" /\ AcquireFails(t)
    /\ Moves(t, "locked", guard[t])
    /\ UNCHANGED <<active, blocks, closed, regvars>>

\* mmreg_lock returned -1: __enter__ raises, and the block is not run.
EnterFails(t) ==
    /\ py[t] = "enter" /\ AcquireFails(t)
    /\ Returns(t)
    /\ UNCHANGED <<active, blocks, closed, regvars>>

\* __enter__ returns, and the block begins.
Begin(t) ==
    /\ py[t] = "locked"
    /\ active' = active \cup {guard[t]}
    /\ blocks' = [blocks EXCEPT ![t] = Append(@, guard[t])]
    /\ Returns(t)
    /\ UNCHANGED <<vars, closed, regvars>>

\* A block ends, by an exception or not: __exit__ of its guard, which
\* unlocks only if the guard is active.
Leave(t) ==
    /\ Running(t) /\ blocks[t] # <<>>
    /\ LET g == Last(blocks[t]) IN
        IF g \in active THEN Moves(t, "leave", g) /\ active' = active \ {g}
        ELSE UNCHANGED <<py, guard, active>>
    /\ Pop(t)
    /\ UNCHANGED <<vars, closed, regvars>>

\* mmreg_unlock takes this thread's guard from the stack.
Unlocks(t) ==
    /\ py[t] = "leave"
    /\ Unlock(t, GuardDevice[guard[t]])
    /\ Returns(t)
    /\ UNCHANGED <<active, blocks, closed, regvars>>

\* _release_lock raises: the Device was closed, or mmreg_unlock returned -1.
ReleaseFails(t) ==
    LET h == GuardDevice[guard[t]] IN
    /\ py[t] = "leave"
    /\ h \notin open \/ guards[h] = 0 \/ owner # t
    /\ Returns(t)
    /\ UNCHANGED <<vars, active, blocks, closed, regvars>>

\* read_u*, and the writes of other registers.
Access(t, h) == Running(t) /\ CallAccess(t, h) /\ UNCHANGED <<pyvars, regvars>>

\* The register or a field of it is written.
AccessRegister(t, h) ==
    Running(t) /\ CallAccess(t, h) /\ Register!Call(t) /\ UNCHANGED pyvars

AccessFails(t) ==
    /\ py[t] = "run" /\ AcquireFails(t)
    /\ IF write[t] = "lock" THEN Register!Fail(t) ELSE UNCHANGED regvars
    /\ UNCHANGED pyvars

\* close(), __exit__ and __del__ of a Device: _handle is 0 from here on.
CloseDevice(t, h) ==
    /\ Running(t) /\ Close(t, h)
    /\ closed' = closed \cup {h}
    /\ UNCHANGED <<py, guard, active, blocks, regvars>>

\* The C call at hand goes on: what it does to the register is between taking and
\* dropping its guard.
InC(t) ==
    /\ write[t] = "idle"
    /\ Acquire(t) \/ DropGuard(t) \/ CloseGuard(t) \/ FinishClose(t)
    /\ UNCHANGED <<pyvars, regvars>>

LoadRegister(t) == Acquire(t) /\ Register!Load(t) /\ UNCHANGED pyvars

StoreRegister(t) == Register!Write(t) /\ UNCHANGED <<vars, pyvars>>

Event == Register!Raise /\ UNCHANGED <<vars, pyvars>>

\* As CApi's Step: what a running thread keeps doing, leaving its blocks included.
PyStep(t) ==
    \/ Locked(t) \/ Begin(t) \/ Leave(t) \/ Unlocks(t) \/ ReleaseFails(t)
    \/ InC(t) \/ LoadRegister(t) \/ StoreRegister(t)

PyNext ==
    \/ Event
    \/ \E t \in Threads :
        \/ PyStep(t) \/ EnterFails(t) \/ AccessFails(t)
        \/ \E h \in Handles :
            OpenDevice(t, h) \/ Access(t, h) \/ AccessRegister(t, h) \/ CloseDevice(t, h)
        \/ \E g \in Guards : Enter(t, g)

PySpec == PyInit /\ [][PyNext]_<<vars, pyvars, regvars>>

-----------------------------------------------------------------------------
(* Properties *)

\* The with blocks of a thread on a Device.
BlocksOn(t, h) == {k \in 1..Len(blocks[t]) : GuardDevice[blocks[t][k]] = h}

\* Inside a with block on a Device that is not closed a thread has the lock, as many
\* times as it has nested such blocks, and no more after it has left them: a failed
\* lock runs no block, and closing one Device ends no block of another's.
BlocksHold ==
    \A t \in Threads, h \in open : Running(t) =>
        /\ sequences[t][h] = Cardinality(BlocksOn(t, h))
        /\ BlocksOn(t, h) # {} => owner = t

\* The C ABI's lock is the exclusion that InlineRegister takes for granted: in a with
\* block or not, through one Device or two, no write comes between another's read and
\* write.
ImplementsInlineRegister == Register!Spec

\* Writes through any Devices of the window, in with blocks or not, interfere neither
\* with each other's fields nor with events that nobody has cleared.
FieldsIndependent == Register!FieldsIndependent
=============================================================================
