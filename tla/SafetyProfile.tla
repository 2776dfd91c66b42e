---------------------------- MODULE SafetyProfile ----------------------------
(***************************************************************************)
(* validation.rs: which files are safety profiles, and the checks they     *)
(* hold.  A file is the sequence of the fields of its outermost object, as *)
(* they stand in the text, duplicates and all; a field of `checks' holds a *)
(* sequence of objects, each the sequence of its fields.  A field is wrong *)
(* (ok FALSE) when its value is not JSON or not of the type its key wants. *)
(***************************************************************************)
EXTENDS Numbers

CONSTANTS Top64, Top32   \* integers of 64 and of 32 bits are below

ASSUME ProfileAssumption == Top32 \in Nat /\ Top64 \in Nat /\ Top32 <= Top64

ProfileKeys == {"name", "checks"}
CheckKeys   == {"name", "addr", "mask", "expected"}
Extension   == "x-"      \* any key that begins so

\* Parser::parse_u64: quoted, a number as on a decimal command line; bare, JSON's
\* (no prefix, no separator, no leading zero).
JsonNumber(f) ==
    IF f.quoted THEN ParseNumber(f.num, 10, Top64)
    ELSE IF /\ f.num.prefix = "none"
            /\ Separator \notin ToSet(f.num.chars)
            /\ Len(f.num.chars) > 1 => Head(f.num.chars) # 0
         THEN ParseNumber(f.num, 10, Top64)
         ELSE {}

\* The value of a field of a check: parse_u64 for addr, parse_u32 for the others.
CheckValue(f) ==
    CASE f.key = "addr" -> JsonNumber(f)
      [] f.key \in {"mask", "expected"} -> {v \in JsonNumber(f) : v < Top32}
      [] OTHER -> {0}

\* Mutant of CheckField: the last of several fields of one key counts.
CheckFieldLast(acc, f) ==
    IF ~f.ok \/ f.key \notin CheckKeys \cup {Extension} THEN {}
    ELSE IF f.key = Extension THEN acc
    ELSE {[a EXCEPT ![f.key] = CheckValue(f)] : a \in {x \in acc : CheckValue(f) # {}}}

\* One field of parse_check; acc holds the values of the keys seen, {} for one not
\* seen, and is itself {} once the check is refused.
CheckField(acc, f) ==
    IF ~f.ok THEN {}
    ELSE IF f.key = Extension THEN acc
    ELSE {[a EXCEPT ![f.key] = CheckValue(f)] :
            a \in {x \in acc : f.key \in CheckKeys /\ x[f.key] = {} /\ CheckValue(f) # {}}}

\* parse_check: no key of a check may be missing.
ParseCheck(fields) ==
    LET acc[n \in 0..Len(fields)] ==
            IF n = 0 THEN {[k \in CheckKeys |-> {}]} ELSE CheckField(acc[n - 1], fields[n])
    IN  {[k \in CheckKeys |-> CHOOSE v \in a[k] : TRUE] :
            a \in {x \in acc[Len(fields)] : \A k \in CheckKeys : x[k] # {}}}

\* One field of parse_profile.  The checks of the profile are one of its fields'.
ProfileField(acc, f) ==
    IF ~f.ok THEN {}
    ELSE IF f.key = Extension THEN acc
    ELSE {[name |-> a.name \/ f.key = "name",
           checks |-> IF f.key = "checks" THEN {f.checks} ELSE a.checks] :
            a \in {x \in acc :
                \/ f.key = "name" /\ ~x.name
                \/ /\ f.key = "checks" /\ x.checks = {}
                   /\ \A k \in 1..Len(f.checks) : ParseCheck(f.checks[k]) # {}}}

\* parse_profile: the sequence of checks of a file, if it is a profile.
ParseProfile(file) ==
    LET acc[n \in 0..Len(file.fields)] ==
            IF n = 0 THEN {[name |-> FALSE, checks |-> {}]}
            ELSE ProfileField(acc[n - 1], file.fields[n])
        found == UNION {a.checks : a \in {x \in acc[Len(file.fields)] : x.name}}
    IN  {[k \in 1..Len(c) |-> CHOOSE v \in ParseCheck(c[k]) : TRUE] :
            c \in {x \in found : x # <<>> /\ ~file.trailing}}

-----------------------------------------------------------------------------
(* The reference: a profile has each of its keys once and no other. *)

\* Whatever a text holds, it is a sequence of fields.
IsSequence(s) == s \in Seq(ToSet(s))

IsFields(fields) ==
    /\ IsSequence(fields)
    /\ \A k \in 1..Len(fields) : fields[k].ok \in BOOLEAN /\ IsSpelling(fields[k].num)

IsFile(file) ==
    /\ IsSequence(file.fields) /\ file.trailing \in BOOLEAN
    /\ \A k \in 1..Len(file.fields) :
        /\ file.fields[k].ok \in BOOLEAN /\ IsSequence(file.fields[k].checks)
        /\ \A n \in 1..Len(file.fields[k].checks) : IsFields(file.fields[k].checks[n])

Occurrences(fields, key) == {k \in 1..Len(fields) : fields[k].key = key}

Object(fields, keys) ==
    /\ \A k \in 1..Len(fields) : fields[k].ok /\ fields[k].key \in keys \cup {Extension}
    /\ \A key \in keys : \E k \in 1..Len(fields) : Occurrences(fields, key) = {k}

BareNumber(num) ==
    /\ num.prefix = "none" /\ ~Separated(num)
    /\ Head(num.chars) = 0 => Len(num.chars) = 1

\* The number a field of a check stands for.
FieldDenotes(f, top) ==
    IF f.quoted \/ BareNumber(f.num) THEN Denotes(f.num, 10, top) ELSE {}

IsCheck(fields) ==
    /\ Object(fields, CheckKeys)
    /\ \A k \in 1..Len(fields) :
        /\ fields[k].key = "addr" => FieldDenotes(fields[k], Top64) # {}
        /\ fields[k].key \in {"mask", "expected"} => FieldDenotes(fields[k], Top32) # {}

\* The number that a check gives for a key.
FieldOf(fields, key) ==
    LET f == fields[CHOOSE k \in Occurrences(fields, key) : TRUE]
    IN  CHOOSE v \in FieldDenotes(f, Top64) : TRUE

\* The list of checks of a file that is a profile.
CheckList(file) == file.fields[CHOOSE k \in Occurrences(file.fields, "checks") : TRUE].checks

IsProfile(file) ==
    /\ ~file.trailing /\ Object(file.fields, ProfileKeys)
    /\ CheckList(file) # <<>>
    /\ \A k \in 1..Len(CheckList(file)) : IsCheck(CheckList(file)[k])
=============================================================================
