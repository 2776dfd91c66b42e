----------------------------- MODULE BitFields -----------------------------
(***************************************************************************)
(* register.rs and interface.rs: bitfields of a 32-bit register.  A value  *)
(* is the set of its bits that are 1, numbered from 0 at the least         *)
(* significant end; a register has RegisterBits of them.                   *)
(***************************************************************************)
EXTENDS Integers

CONSTANT RegisterBits

ASSUME RegisterBitsAssumption == RegisterBits \in Nat \ {0}

Values == SUBSET (0..RegisterBits - 1)
SubRegisters == [msb : Nat, lsb : Nat]

\* SubRegister::mask: empty when the range is invalid.
Mask(f) == IF f.msb < f.lsb \/ f.msb > RegisterBits - 1 THEN {} ELSE f.lsb..f.msb

\* `value << n` drops what leaves the register; `value >> n` what is below n.
ShiftLeft(v, n) == {i \in 0..RegisterBits - 1 : i - n \in v}
ShiftRight(v, n) == {i \in 0..RegisterBits - 1 : i + n \in v}

\* (old & !mask) | (value & mask)
Masked(old, mask, value) == (old \ mask) \cup (value \cap mask)

\* read_subregister and parse_subregister: the field of a register's value.
FieldOf(f, raw) == ShiftRight(raw \cap Mask(f), f.lsb)

\* write_subregister: what update_u32 is passed as value, and leaves behind.
FieldValue(f, value) == ShiftLeft(value, f.lsb)
WithField(f, raw, value) == Masked(raw, Mask(f), FieldValue(f, value))

\* The bits of a value that fit a field: the ones above are ignored.
Fitting(f, value) == {i \in value : i <= f.msb - f.lsb}
=============================================================================
