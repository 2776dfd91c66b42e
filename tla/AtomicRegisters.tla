-------------------------- MODULE AtomicRegisters --------------------------
(***************************************************************************)
(* What device.rs promises of register accesses, whatever locks it takes:  *)
(* between its call and its return a read, write or update takes effect at *)
(* one instant or fails without effect, and while a thread has a sequence  *)
(* nobody else's access takes effect on the registers the sequence covers. *)
(*                                                                         *)
(* mem is the set of the bits of physical memory that are 1.  An operation *)
(* replaces the bits of its mask by those of its value.                    *)
(***************************************************************************)
CONSTANTS Threads,
          Ops,       \* the operations callers may request
          NoOp,
          Extents    \* the sets of bits a sequence may cover

VARIABLES
    mem,
    seq,     \* seq[t]: the bits t's sequence covers, {} without one
    call,    \* call[t]: the operation t has requested
    done,    \* done[t]: that operation has taken effect
    ret      \* ret[t]: the bits it returns

vars == <<mem, seq, call, done, ret>>

Init ==
    /\ mem = {}
    /\ seq = [t \in Threads |-> {}]
    /\ call = [t \in Threads |-> NoOp]
    /\ done = [t \in Threads |-> FALSE]
    /\ ret = [t \in Threads |-> {}]

Undisturbed(t, bits) == \A u \in Threads \ {t} : seq[u] \cap bits = {}

\* The memory after an operation; update_u32 returns the new register value.
After(o) == (mem \ o.mask) \cup (o.value \cap o.mask)
Result(o) == CASE o.kind = "read" -> mem \cap o.bits
               [] o.kind = "write" -> {}
               [] o.kind = "update" -> After(o) \cap o.bits

Call(t) ==
    /\ call[t] = NoOp
    /\ \E o \in Ops : call' = [call EXCEPT ![t] = o]
    /\ UNCHANGED <<mem, seq, done, ret>>

Perform(t) ==
    /\ call[t] # NoOp /\ ~done[t]
    /\ Undisturbed(t, call[t].bits)
    /\ mem' = After(call[t])
    /\ done' = [done EXCEPT ![t] = TRUE]
    /\ ret' = [ret EXCEPT ![t] = Result(call[t])]
    /\ UNCHANGED <<seq, call>>

\* With the result, or with an error when it has had no effect.
Return(t) ==
    /\ call[t] # NoOp
    /\ call' = [call EXCEPT ![t] = NoOp]
    /\ done' = [done EXCEPT ![t] = FALSE]
    /\ ret' = [ret EXCEPT ![t] = {}]
    /\ UNCHANGED <<mem, seq>>

BeginSequence(t) ==
    /\ seq[t] = {}
    /\ \E bits \in Extents : Undisturbed(t, bits) /\ seq' = [seq EXCEPT ![t] = bits]
    /\ UNCHANGED <<mem, call, done, ret>>

EndSequence(t) ==
    /\ seq' = [seq EXCEPT ![t] = {}]
    /\ UNCHANGED <<mem, call, done, ret>>

\* The thread's process ends, in the middle of whatever it was doing.
Stop(t) ==
    /\ seq' = [seq EXCEPT ![t] = {}]
    /\ call' = [call EXCEPT ![t] = NoOp]
    /\ done' = [done EXCEPT ![t] = FALSE]
    /\ ret' = [ret EXCEPT ![t] = {}]
    /\ UNCHANGED mem

Next == \E t \in Threads :
    \/ Call(t) \/ Perform(t) \/ Return(t)
    \/ BeginSequence(t) \/ EndSequence(t) \/ Stop(t)

Spec == Init /\ [][Next]_vars
=============================================================================
