------------------------------- MODULE Numbers -------------------------------
(***************************************************************************)
(* parse.rs: integers in command lines, safety profiles and sysfs files.   *)
(* A spelling is the prefix of a trimmed text and the characters after it: *)
(* 0..15 for the hexadecimal digits, Separator for `_', Other for the rest *)
(* (a sign, a letter, a second prefix).  A result is the set of its value, *)
(* empty when the text is refused.  (str::parse also takes a leading +,     *)
(* which no modelled text has.)                                            *)
(***************************************************************************)
EXTENDS Integers, SequencesExt

Separator == 16
Other     == 17

\* A prefix decides the radix, whatever the default.
Radix(s, default) ==
    CASE s.prefix = "0x" -> 16
      [] s.prefix = "0d" -> 10
      [] s.prefix = "none" -> default

\* One character of parse_u64_radix: acc is the value so far and whether a digit
\* was seen, {} once the text is refused.
ParseDigit(acc, c, radix, top) ==
    IF c = Separator THEN acc
    ELSE {[value |-> a.value * radix + c, sawDigit |-> TRUE] :
            a \in {x \in acc : c < radix /\ x.value * radix + c < top}}

\* parse_u64_radix, for integers below top; acc[k] is what the first k characters give.
ParseNumber(s, default, top) ==
    LET acc[k \in 0..Len(s.chars)] ==
            IF k = 0 THEN {[value |-> 0, sawDigit |-> FALSE]}
            ELSE ParseDigit(acc[k - 1], s.chars[k], Radix(s, default), top)
    IN  {a.value : a \in {x \in acc[Len(s.chars)] : x.sawDigit}}

-----------------------------------------------------------------------------
(* The reference: positional notation. *)

IsSpelling(s) == s.prefix \in {"none", "0x", "0d"} /\ s.chars \in Seq(0..Other)

Separated(s) == Separator \in ToSet(s.chars)

\* What a digit with j characters to its right counts for, separators aside.
PlaceValue(chars, radix) ==
    LET place[j \in 0..Len(chars)] ==
            IF j = 0 THEN 1
            ELSE IF chars[Len(chars) - j + 1] = Separator THEN place[j - 1]
            ELSE radix * place[j - 1]
    IN  place

Positional(chars, radix) ==
    LET sum[k \in 0..Len(chars)] ==
            IF k = 0 THEN 0
            ELSE IF chars[k] = Separator THEN sum[k - 1]
            ELSE sum[k - 1] + chars[k] * PlaceValue(chars, radix)[Len(chars) - k]
    IN  sum[Len(chars)]

Denotes(s, default, top) ==
    LET digits == ToSet(s.chars) \ {Separator}
    IN  IF digits # {} /\ \A c \in digits : c < Radix(s, default)
        THEN {Positional(s.chars, Radix(s, default))} \cap 0..(top - 1)
        ELSE {}
=============================================================================
