--------------------------- MODULE InlineRegister ---------------------------
(***************************************************************************)
(* The Python binding's InlineRegister and InlineField: a register whose   *)
(* fields the program names, some of them write-1-to-clear (w1c).  Threads *)
(* write fields with update_u32, the register with write_u32, each under   *)
(* the register's lock; meanwhile the hardware raises w1c bits.  The other *)
(* bits, those of no field included, keep what is written.                 *)
(***************************************************************************)
EXTENDS BitFields

CONSTANT Threads

VARIABLES
    fields, w1c,   \* the fields of the register, and which of them are w1c
    reg,           \* the bits of the register that are 1
    pc, op, old,   \* where each thread is, the call it makes, the value it has read
    given          \* the bits that the callers and the hardware have made 1

vars == <<fields, w1c, reg, pc, op, old, given>>

\* _parse_bit_spec: the ranges of bits a specification can stand for; others raise.
ParsedSpecs == {f \in [msb : 0..RegisterBits - 1, lsb : 0..RegisterBits - 1] : f.lsb <= f.msb}

\* InlineRegister.__init__ refuses fields that overlap.
Accepted(defs) == \A f, g \in defs : f # g => Mask(f) \cap Mask(g) = {}

BitsOf(defs) == UNION {Mask(f) : f \in defs}

\* Mutant of OtherW1c: a field's write leaves the other w1c bits as it read them.
OtherW1cNone(f) == {}

\* _other_w1c_mask
OtherW1c(f) == BitsOf(w1c) \ Mask(f)

NoOp == [mask |-> {}, value |-> {}, target |-> {}]

\* InlineField.write: the value fits the field (_check_uint).
FieldWrites ==
    UNION {{[mask |-> Mask(f) \cup OtherW1c(f), value |-> v, target |-> Mask(f)] :
                v \in SUBSET Mask(f)} : f \in fields}

RegisterWrites ==
    {[mask |-> 0..RegisterBits - 1, value |-> v, target |-> 0..RegisterBits - 1] : v \in Values}

Init ==
    /\ fields \in SUBSET ParsedSpecs
    /\ Accepted(fields)
    /\ w1c \in SUBSET fields
    /\ reg = {} /\ given = {}
    /\ pc = [t \in Threads |-> "idle"]
    /\ op = [t \in Threads |-> NoOp]
    /\ old = [t \in Threads |-> {}]

\* An event: the hardware sets a bit of a w1c field.
Raise ==
    /\ \E b \in BitsOf(w1c) : reg' = reg \cup {b} /\ given' = given \cup {b}
    /\ UNCHANGED <<fields, w1c, pc, op, old>>

Go(t, where, o, bits) ==
    /\ pc' = [pc EXCEPT ![t] = where]
    /\ op' = [op EXCEPT ![t] = o]
    /\ old' = [old EXCEPT ![t] = bits]
    /\ UNCHANGED <<fields, w1c>>

Call(t) ==
    /\ pc[t] = "idle"
    /\ \E o \in FieldWrites \cup RegisterWrites : Go(t, "lock", o, {})
    /\ UNCHANGED <<reg, given>>

\* The lock cannot be taken: the call raises MmregError.
Fail(t) ==
    /\ pc[t] = "lock"
    /\ Go(t, "idle", NoOp, {})
    /\ UNCHANGED <<reg, given>>

\* update_u32 reads the register; write_u32 has no use for what it would read.
Load(t) ==
    /\ pc[t] = "lock"
    /\ Go(t, "write", op[t], reg)
    /\ UNCHANGED <<reg, given>>

\* One thread at a time is between its read and its write.
Read(t) == (\A u \in Threads : pc[u] # "write") /\ Load(t)

\* What a write of v makes of the bits r: it clears the w1c bits that are 1 in v.
Stored(r, v) == (v \ BitsOf(w1c)) \cup ((r \cap BitsOf(w1c)) \ v)

\* The caller's intention: only the bits of its target, in the value it gave.
Intended(r, o) ==
    LET rw == o.target \ BitsOf(w1c)
    IN  ((r \ rw) \cup (o.value \cap rw)) \ (o.value \cap BitsOf(w1c))

Write(t) ==
    /\ pc[t] = "write"
    /\ reg' = Stored(reg, Masked(old[t], op[t].mask, op[t].value))
    /\ given' = Intended(given, op[t])
    /\ Go(t, "idle", NoOp, {})

Next == Raise \/ \E t \in Threads : Call(t) \/ Fail(t) \/ Read(t) \/ Write(t)

Spec == Init /\ [][Next]_vars

-----------------------------------------------------------------------------
(* Properties *)

TypeOK ==
    /\ \A f \in fields : f \in SubRegisters /\ Mask(f) \subseteq 0..RegisterBits - 1
    /\ w1c \subseteq fields
    /\ reg \in Values /\ given \in Values
    /\ pc \in [Threads -> {"idle", "lock", "write"}]
    /\ op \in [Threads -> [mask : Values, value : Values, target : Values]]
    /\ old \in [Threads -> Values]

\* "writing this field neither changes other fields nor clears pending bits": the
\* register holds what its callers gave each of its fields, and every event that was
\* raised until somebody wrote 1 to its own bit, whichever threads write which fields
\* and whenever the hardware raises one.
FieldsIndependent == reg = given
=============================================================================
