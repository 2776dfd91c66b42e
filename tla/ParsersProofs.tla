---------------------------- MODULE ParsersProofs ----------------------------
(***************************************************************************)
(* Proofs about Numbers and SafetyProfile, for texts and files of any      *)
(* length: what the parsers, which go through them once, accept, and the   *)
(* values they return, are what the references say of the whole.           *)
(***************************************************************************)
EXTENDS SafetyProfile, WellFoundedInduction, TLAPS

(* Induction over the naturals, by their well-foundedness. *)

\* A set of naturals that is not empty has a least element.
LEMMA LeastNatural ==
    ASSUME NEW T, T \subseteq Nat, T # {}
    PROVE  \E n \in T : \A m \in T : n <= m
<1>1. IsWellFoundedOn(OpToRel(<, Nat), Nat)
    BY NatLessThanWellFounded
<1>2. PICK n \in T : \A m \in T : ~(<<m, n>> \in OpToRel(<, Nat))
    BY <1>1, WFMin
<1>3. \A m \in T : ~(m < n)
    BY <1>2 DEF OpToRel
<1> QED BY <1>3

\* What holds at 0 and of each next number up to N holds of all of them.
LEMMA Induction ==
    ASSUME NEW N \in Nat, NEW T, 0 \in T,
           \A n \in 1..N : n - 1 \in T => n \in T
    PROVE  0..N \subseteq T
<1> DEFINE Rest == (0..N) \ T
<1> SUFFICES ASSUME Rest # {} PROVE FALSE OBVIOUS
<1>1. Rest \subseteq Nat OBVIOUS
<1> HIDE DEF Rest
<1>2. PICK n \in Rest : \A m \in Rest : n <= m BY <1>1, LeastNatural
<1> USE DEF Rest
<1>3. n \in 1..N /\ n - 1 \in 0..N /\ ~(n <= n - 1) BY <1>2
<1>4. n - 1 \in T BY <1>2, <1>3
<1> QED BY <1>2, <1>3, <1>4

\* f goes from its first value through N steps, each a function of the value before.
Steps(f, N, A, first, step) ==
    /\ f \in [0..N -> A] /\ f[0] = first
    /\ \A n \in 1..N : f[n] = step[<<f[n - 1], n>>]

\* There is such a function, whatever the step.
LEMMA RecursionExists ==
    ASSUME NEW N \in Nat, NEW A, NEW first \in A, NEW step \in [A \X (1..N) -> A]
    PROVE  \E f : Steps(f, N, A, first, step)
<1> DEFINE Up(f, k) == f[0] = first /\ \A n \in 1..k : f[n] = step[<<f[n - 1], n>>]
           T == {k \in 0..N : \E f \in [0..N -> A] : Up(f, k)}
<1>1. 0 \in T
    <2>1. [n \in 0..N |-> first] \in [0..N -> A] /\ Up([n \in 0..N |-> first], 0) OBVIOUS
    <2> HIDE DEF Up
    <2> QED BY <2>1
<1>2. ASSUME NEW k \in 1..N, k - 1 \in T PROVE k \in T
    <2>1. PICK f \in [0..N -> A] : Up(f, k - 1) BY <1>2
    <2> DEFINE g == [f EXCEPT ![k] = step[<<f[k - 1], k>>]]
    <2>2. g \in [0..N -> A] OBVIOUS
    <2>3. \A n \in 0..(k - 1) : g[n] = f[n] OBVIOUS
    <2>4. g[k] = step[<<f[k - 1], k>>] OBVIOUS
    <2>5. Up(g, k)
        <3>1. g[0] = first BY <2>1, <2>3
        <3>2. ASSUME NEW n \in 1..k PROVE g[n] = step[<<g[n - 1], n>>]
            <4>1. CASE n = k
                <5>1. k - 1 \in 0..(k - 1) OBVIOUS
                <5> HIDE DEF g
                <5>2. g[k - 1] = f[k - 1] BY <5>1, <2>3
                <5> QED BY <4>1, <5>2, <2>4, Zenon
            <4>2. CASE n < k
                <5>1. n \in 1..(k - 1) /\ n - 1 \in 0..(k - 1) BY <4>2
                <5>2. f[n] = step[<<f[n - 1], n>>] BY <5>1, <2>1
                <5>3. n \in 0..(k - 1) BY <5>1
                <5> HIDE DEF g
                <5>4. g[n] = f[n] BY <5>3, <2>3
                <5>5. g[n - 1] = f[n - 1] BY <5>1, <2>3
                <5> QED BY <5>2, <5>4, <5>5, Zenon
            <4> QED BY <4>1, <4>2
        <3> QED BY <3>1, <3>2
    <2> HIDE DEF Up, g
    <2> QED BY <2>2, <2>5
<1> HIDE DEF T
<1>3. 0..N \subseteq T BY <1>1, <1>2, Induction
<1>4. N \in T BY <1>3
<1> QED BY <1>4 DEF T, Steps

-----------------------------------------------------------------------------
(* Numbers *)

LEMMA CharTypes ==
    ASSUME NEW chars, chars \in Seq(0..Other)
    PROVE  Len(chars) \in Nat /\ \A k \in 1..Len(chars) : chars[k] \in 0..Other
<1>1. ASSUME NEW S, chars \in Seq(S)
      PROVE  Len(chars) \in Nat /\ \A k \in 1..Len(chars) : chars[k] \in S
    BY <1>1
<1> QED BY <1>1

\* The recursions of Numbers are what they say they are.
LEMMA PlaceValueSteps ==
    ASSUME NEW chars \in Seq(0..Other), NEW radix \in Nat
    PROVE  LET place == PlaceValue(chars, radix) IN
           /\ place = [j \in 0..Len(chars) |-> place[j]] /\ place[0] = 1
           /\ \A j \in 1..Len(chars) :
                place[j] = IF chars[Len(chars) - j + 1] = Separator THEN place[j - 1]
                           ELSE radix * place[j - 1]
<1> DEFINE N == Len(chars)
           step == [p \in Nat \X (1..N) |->
                        IF chars[N - p[2] + 1] = Separator THEN p[1] ELSE radix * p[1]]
           place[j \in 0..Len(chars)] ==
               IF j = 0 THEN 1
               ELSE IF chars[Len(chars) - j + 1] = Separator THEN place[j - 1]
               ELSE radix * place[j - 1]
<1>1. N \in Nat /\ 1 \in Nat /\ step \in [Nat \X (1..N) -> Nat] OBVIOUS
<1>2. PICK f : Steps(f, N, Nat, 1, step)
    <2> HIDE DEF N, step, place
    <2> QED BY <1>1, RecursionExists
<1> USE DEF Steps
<1>3. f = [j \in 0..Len(chars) |->
              IF j = 0 THEN 1
              ELSE IF chars[Len(chars) - j + 1] = Separator THEN f[j - 1]
              ELSE radix * f[j - 1]]
    <2>1. ASSUME NEW j \in 1..N
          PROVE  f[j] = IF chars[N - j + 1] = Separator THEN f[j - 1] ELSE radix * f[j - 1]
        <3>1. f[j - 1] \in Nat BY <1>2
        <3>2. <<f[j - 1], j>> \in Nat \X (1..N) BY <3>1
        <3> QED BY <1>2, <3>2
    <2> QED BY <1>2, <2>1
<1>4. PlaceValue(chars, radix) = place BY Zenon DEF PlaceValue
<1>5. place = [j \in 0..Len(chars) |->
              IF j = 0 THEN 1
              ELSE IF chars[Len(chars) - j + 1] = Separator THEN place[j - 1]
              ELSE radix * place[j - 1]]
    BY <1>3, Zenon
<1> HIDE DEF place
<1>6. place = [j \in 0..Len(chars) |-> place[j]] BY <1>5
<1>7. place[0] = 1 BY <1>1, <1>5
<1>8. ASSUME NEW j \in 1..Len(chars)
      PROVE  place[j] = IF chars[Len(chars) - j + 1] = Separator THEN place[j - 1]
                        ELSE radix * place[j - 1]
    <2>1. j \in 0..Len(chars) /\ j # 0 OBVIOUS
    <2> QED BY <1>5, <2>1
<1> QED BY <1>4, <1>6, <1>7, <1>8

\* Place values are positive.
LEMMA PlaceValuePositive ==
    ASSUME NEW chars \in Seq(0..Other), NEW radix \in Nat \ {0}, NEW j \in 0..Len(chars)
    PROVE  PlaceValue(chars, radix)[j] \in Nat \ {0}
<1> DEFINE N == Len(chars)
           place == PlaceValue(chars, radix)
           T == {k \in 0..N : place[k] \in Nat \ {0}}
<1>1. /\ place[0] = 1
      /\ \A k \in 1..N : place[k] = IF chars[N - k + 1] = Separator THEN place[k - 1]
                                    ELSE radix * place[k - 1]
    BY PlaceValueSteps
<1>2. \A a, b \in Nat \ {0} : a * b \in Nat \ {0} OBVIOUS
<1> HIDE DEF place
<1>3. 0 \in T BY <1>1
<1>4. ASSUME NEW k \in 1..N, k - 1 \in T PROVE k \in T BY <1>1, <1>2, <1>4, SMTT(30)
<1>5. N \in Nat OBVIOUS
<1> HIDE DEF T, N
<1>6. 0..N \subseteq T BY <1>3, <1>4, <1>5, Induction
<1> QED BY <1>6 DEF T, N, place

LEMMA PositionalSteps ==
    ASSUME NEW chars \in Seq(0..Other), NEW radix \in Nat \ {0}
    PROVE  \E sum :
           /\ Positional(chars, radix) = sum[Len(chars)] /\ sum[0] = 0
           /\ \A k \in 1..Len(chars) :
                sum[k] = IF chars[k] = Separator THEN sum[k - 1]
                         ELSE sum[k - 1] + chars[k] * PlaceValue(chars, radix)[Len(chars) - k]
<1> DEFINE N == Len(chars)
           place == PlaceValue(chars, radix)
           step == [p \in Nat \X (1..N) |->
                        IF chars[p[2]] = Separator THEN p[1] ELSE p[1] + chars[p[2]] * place[N - p[2]]]
           sum[k \in 0..Len(chars)] ==
               IF k = 0 THEN 0
               ELSE IF chars[k] = Separator THEN sum[k - 1]
               ELSE sum[k - 1] + chars[k] * PlaceValue(chars, radix)[Len(chars) - k]
<1>0. N \in Nat OBVIOUS
<1>1. N \in Nat /\ 0 \in Nat /\ step \in [Nat \X (1..N) -> Nat]
    <2> HIDE DEF sum, place, step
    <2>1. \A k \in 1..N : chars[k] \in 0..Other /\ N - k \in 0..N BY CharTypes
    <2>2. \A j \in 0..N : place[j] \in Nat BY PlaceValuePositive DEF place
    <2>3. \A a, b, c \in Nat : a + b * c \in Nat OBVIOUS
    <2>4. \A k \in 1..N : place[N - k] \in Nat /\ chars[k] \in Nat
        <3> SUFFICES ASSUME NEW k \in 1..N
                     PROVE  place[N - k] \in Nat /\ chars[k] \in Nat
            OBVIOUS
        <3>0. \A c \in 0..Other : c \in Nat OBVIOUS
        <3>1. chars[k] \in Nat BY <2>1, <3>0
        <3>2. place[N - k] \in Nat BY <2>1, <2>2
        <3> QED BY <3>1, <3>2
    <2> HIDE DEF N
    <2> QED BY <2>3, <2>4, <1>0 DEF step
<1>2. PICK f : Steps(f, N, Nat, 0, step)
    <2> HIDE DEF N, step, sum
    <2> QED BY <1>1, RecursionExists
<1> USE DEF Steps
<1>3. f = [k \in 0..Len(chars) |->
              IF k = 0 THEN 0
              ELSE IF chars[k] = Separator THEN f[k - 1]
              ELSE f[k - 1] + chars[k] * PlaceValue(chars, radix)[Len(chars) - k]]
    <2>1. ASSUME NEW k \in 1..N
          PROVE  f[k] = IF chars[k] = Separator THEN f[k - 1]
                        ELSE f[k - 1] + chars[k] * place[N - k]
        <3>1. f[k - 1] \in Nat BY <1>2
        <3>2. <<f[k - 1], k>> \in Nat \X (1..N) BY <3>1
        <3> HIDE DEF place
        <3> QED BY <1>2, <3>2
    <2> QED BY <1>2, <2>1
<1>4. Positional(chars, radix) = sum[N] BY Zenon DEF Positional
<1>5. sum = [k \in 0..Len(chars) |->
              IF k = 0 THEN 0
              ELSE IF chars[k] = Separator THEN sum[k - 1]
              ELSE sum[k - 1] + chars[k] * PlaceValue(chars, radix)[Len(chars) - k]]
    BY <1>3, Zenon
<1> HIDE DEF sum
<1>6. sum[0] = 0 BY <1>1, <1>5
<1>7. ASSUME NEW k \in 1..Len(chars)
      PROVE  sum[k] = IF chars[k] = Separator THEN sum[k - 1]
                      ELSE sum[k - 1] + chars[k] * PlaceValue(chars, radix)[Len(chars) - k]
    <2>1. k \in 0..Len(chars) /\ k # 0 OBVIOUS
    <2> QED BY <1>5, <2>1
<1> QED BY <1>4, <1>6, <1>7

\* The results of parse_u64_radix after each character.
Parsed == [value : Nat, sawDigit : BOOLEAN]

LEMMA ParseDigitType ==
    ASSUME NEW acc \in SUBSET Parsed, NEW c \in 0..Other, NEW radix \in Nat, NEW top
    PROVE  ParseDigit(acc, c, radix, top) \in SUBSET Parsed
<1>1. \A v \in Nat : v * radix + c \in Nat BY DEF Other
<1>2. \A x \in acc : x.value \in Nat BY DEF Parsed
<1>3. \A x \in acc : [value |-> x.value * radix + c, sawDigit |-> TRUE] \in Parsed
    BY <1>1, <1>2 DEF Parsed
<1> QED BY <1>3 DEF ParseDigit

\* acc is what ParseNumber goes through.
IsParse(acc, s, default, top) ==
    /\ ParseNumber(s, default, top) = {a.value : a \in {x \in acc[Len(s.chars)] : x.sawDigit}}
    /\ acc[0] = {[value |-> 0, sawDigit |-> FALSE]}
    /\ \A k \in 1..Len(s.chars) :
         acc[k] = ParseDigit(acc[k - 1], s.chars[k], Radix(s, default), top)

LEMMA ParseSteps ==
    ASSUME NEW s, IsSpelling(s), NEW default, Radix(s, default) \in Nat, NEW top
    PROVE  \E acc : IsParse(acc, s, default, top)
<1> DEFINE N == Len(s.chars)
           first == {[value |-> 0, sawDigit |-> FALSE]}
           step == [p \in (SUBSET Parsed) \X (1..N) |->
                        ParseDigit(p[1], s.chars[p[2]], Radix(s, default), top)]
           acc[k \in 0..Len(s.chars)] ==
               IF k = 0 THEN {[value |-> 0, sawDigit |-> FALSE]}
               ELSE ParseDigit(acc[k - 1], s.chars[k], Radix(s, default), top)
<1>1. N \in Nat /\ \A k \in 1..N : s.chars[k] \in 0..Other
    <2> HIDE DEF acc, step
    <2>1. s.chars \in Seq(0..Other) BY DEF IsSpelling
    <2> QED BY <2>1, CharTypes
<1>2. first \in SUBSET Parsed BY DEF Parsed
<1>3. step \in [(SUBSET Parsed) \X (1..N) -> SUBSET Parsed]
    BY <1>1, ParseDigitType
<1>4. PICK f : Steps(f, N, SUBSET Parsed, first, step)
    <2> HIDE DEF N, step, acc, first
    <2> QED BY <1>1, <1>2, <1>3, RecursionExists
<1> USE DEF Steps
<1>5. f = [k \in 0..Len(s.chars) |->
              IF k = 0 THEN {[value |-> 0, sawDigit |-> FALSE]}
              ELSE ParseDigit(f[k - 1], s.chars[k], Radix(s, default), top)]
    <2>1. ASSUME NEW k \in 1..N
          PROVE  f[k] = ParseDigit(f[k - 1], s.chars[k], Radix(s, default), top)
        <3>1. k - 1 \in 0..N BY <1>1
        <3>2. f[k - 1] \in SUBSET Parsed BY <1>4, <3>1
        <3>3. <<f[k - 1], k>> \in (SUBSET Parsed) \X (1..N) BY <3>2
        <3> QED BY <1>4, <3>3
    <2> QED BY <1>1, <1>4, <2>1
<1>6. ParseNumber(s, default, top) = {a.value : a \in {x \in acc[N] : x.sawDigit}}
    BY Zenon DEF ParseNumber
<1>7. acc = [k \in 0..Len(s.chars) |->
              IF k = 0 THEN {[value |-> 0, sawDigit |-> FALSE]}
              ELSE ParseDigit(acc[k - 1], s.chars[k], Radix(s, default), top)]
    BY <1>5, Zenon
<1> HIDE DEF acc
<1>8. acc[0] = first BY <1>1, <1>7
<1>9. ASSUME NEW k \in 1..Len(s.chars)
      PROVE  acc[k] = ParseDigit(acc[k - 1], s.chars[k], Radix(s, default), top)
    <2>1. k \in 0..Len(s.chars) /\ k # 0 BY <1>1
    <2> QED BY <1>7, <2>1
<1> QED BY <1>6, <1>8, <1>9 DEF IsParse

LEMMA RadixType ==
    ASSUME NEW s, IsSpelling(s), NEW default \in Nat \ {0}
    PROVE  Radix(s, default) \in Nat \ {0}
BY DEF IsSpelling, Radix

\* Horner's scheme, which is what a parser computes when nothing is refused.
LEMMA HornerSteps ==
    ASSUME NEW chars \in Seq(0..Other), NEW radix \in Nat \ {0}
    PROVE  \E v \in [0..Len(chars) -> Nat] :
           /\ v[0] = 0
           /\ \A k \in 1..Len(chars) :
                v[k] = IF chars[k] = Separator THEN v[k - 1] ELSE v[k - 1] * radix + chars[k]
<1> DEFINE N == Len(chars)
           step == [p \in Nat \X (1..N) |->
                        IF chars[p[2]] = Separator THEN p[1] ELSE p[1] * radix + chars[p[2]]]
<1>1. N \in Nat /\ \A k \in 1..N : chars[k] \in 0..Other BY CharTypes
<1>2. step \in [Nat \X (1..N) -> Nat]
    <2>1. \A a \in Nat, c \in 0..Other : a * radix + c \in Nat BY DEF Other
    <2> HIDE DEF N
    <2> QED BY <1>1, <2>1
<1>3. PICK v : Steps(v, N, Nat, 0, step)
    <2> HIDE DEF N, step
    <2> QED BY <1>1, <1>2, RecursionExists
<1>4. ASSUME NEW k \in 1..N
      PROVE  v[k] = IF chars[k] = Separator THEN v[k - 1] ELSE v[k - 1] * radix + chars[k]
    <2>1. k - 1 \in 0..N BY <1>1
    <2>2. v[k - 1] \in Nat BY <1>3, <2>1 DEF Steps
    <2>3. <<v[k - 1], k>> \in Nat \X (1..N) BY <2>2
    <2> QED BY <1>3, <2>3 DEF Steps
<1> HIDE DEF step
<1> QED BY <1>3, <1>4 DEF Steps

\* Each step of Horner's scheme multiplies by the radix what positional notation
\* gives the weight of the characters to come: the two agree at the end.
LEMMA HornerIsPositional ==
    ASSUME NEW chars \in Seq(0..Other), NEW radix \in Nat \ {0},
           NEW v \in [0..Len(chars) -> Nat], v[0] = 0,
           \A k \in 1..Len(chars) :
               v[k] = IF chars[k] = Separator THEN v[k - 1] ELSE v[k - 1] * radix + chars[k]
    PROVE  Positional(chars, radix) = v[Len(chars)]
<1> DEFINE N == Len(chars)
           place == PlaceValue(chars, radix)
<1>1. N \in Nat /\ \A k \in 1..N : chars[k] \in 0..Other BY CharTypes
<1>2. PICK sum :
        /\ Positional(chars, radix) = sum[N] /\ sum[0] = 0
        /\ \A k \in 1..N : sum[k] = IF chars[k] = Separator THEN sum[k - 1]
                                    ELSE sum[k - 1] + chars[k] * place[N - k]
    BY PositionalSteps
<1>3. /\ place[0] = 1
      /\ \A j \in 1..N : place[j] = IF chars[N - j + 1] = Separator THEN place[j - 1]
                                    ELSE radix * place[j - 1]
    BY PlaceValueSteps
<1>4. \A j \in 0..N : place[j] \in Nat BY PlaceValuePositive
<1> DEFINE T == {k \in 0..N : sum[k] = v[k] * place[N - k]}
<1> HIDE DEF place
<1>5. 0 \in T
    <2>1. N - 0 = N /\ place[N] \in Nat BY <1>1, <1>4
    <2>2. 0 * place[N] = 0 BY <2>1
    <2> QED BY <1>1, <1>2, <2>1, <2>2
<1>6. ASSUME NEW k \in 1..N, k - 1 \in T PROVE k \in T
    <2>1. sum[k - 1] = v[k - 1] * place[N - (k - 1)] BY <1>6
    <2>2. /\ N - k + 1 \in 1..N /\ N - (k - 1) = N - k + 1 /\ N - (N - k + 1) + 1 = k
          /\ N - k + 1 - 1 = N - k /\ N - k \in 0..N /\ k - 1 \in 0..N /\ k \in 0..N
        BY <1>1
    <2>3. place[N - k + 1] = IF chars[k] = Separator THEN place[N - k]
                             ELSE radix * place[N - k]
        BY <1>3, <2>2
    <2>4. place[N - k] \in Nat /\ v[k - 1] \in Nat /\ chars[k] \in Nat
        <3>1. \A c \in 0..Other : c \in Nat OBVIOUS
        <3> QED BY <1>1, <1>4, <2>2, <3>1
    <2>5. CASE chars[k] = Separator
        BY <1>2, <2>1, <2>2, <2>3, <2>5
    <2>6. CASE chars[k] # Separator
        <3>1. sum[k] = v[k - 1] * (radix * place[N - k]) + chars[k] * place[N - k]
            BY <1>2, <2>1, <2>2, <2>3, <2>6
        <3>2. v[k] = v[k - 1] * radix + chars[k] BY <2>6
        <3>3. \A a, r, p, c \in Nat : a * (r * p) + c * p = (a * r + c) * p
            OBVIOUS
        <3>4. sum[k] = (v[k - 1] * radix + chars[k]) * place[N - k] BY <2>4, <3>1, <3>3, SMTT(30)
        <3> QED BY <2>2, <3>2, <3>4
    <2> QED BY <2>5, <2>6
<1> HIDE DEF T, N
<1>7. 0..N \subseteq T BY <1>1, <1>5, <1>6, Induction
<1>8. N \in T BY <1>1, <1>7
<1>9. sum[N] = v[N] * place[N - N] /\ N - N = 0 /\ v[N] \in Nat BY <1>1, <1>8 DEF T, N
<1>10. v[N] * 1 = v[N] BY <1>9
<1> QED BY <1>2, <1>3, <1>9, <1>10 DEF N

\* What a digit makes of a value.
LEMMA ParseDigitEffect ==
    ASSUME NEW value, NEW saw, NEW c, c # Separator, NEW radix, NEW top
    PROVE  ParseDigit({[value |-> value, sawDigit |-> saw]}, c, radix, top) =
               IF c < radix /\ value * radix + c < top
               THEN {[value |-> value * radix + c, sawDigit |-> TRUE]} ELSE {}
<1> DEFINE r == [value |-> value, sawDigit |-> saw]
           Below(x) == c < radix /\ x.value * radix + c < top
<1>1. Below(r) <=> c < radix /\ value * radix + c < top OBVIOUS
<1>2. r.value = value OBVIOUS
<1>3. ParseDigit({r}, c, radix, top) =
        {[value |-> a.value * radix + c, sawDigit |-> TRUE] : a \in {x \in {r} : Below(x)}}
    BY DEF ParseDigit
<1> HIDE DEF r, Below
<1>4. {x \in {r} : Below(x)} = IF Below(r) THEN {r} ELSE {} OBVIOUS
<1>5. CASE Below(r) BY <1>1, <1>2, <1>3, <1>4, <1>5 DEF r
<1>6. CASE ~Below(r) BY <1>1, <1>3, <1>4, <1>6 DEF r
<1> QED BY <1>5, <1>6

LEMMA ParseDigitRefused ==
    ASSUME NEW c, NEW radix, NEW top
    PROVE  ParseDigit({}, c, radix, top) = {}
BY DEF ParseDigit

LEMMA ParseSeparator ==
    ASSUME NEW acc, NEW radix, NEW top
    PROVE  ParseDigit(acc, Separator, radix, top) = acc
BY DEF ParseDigit

\* A number is accepted exactly if its digits, of which there is one, are digits of the
\* radix and what they denote in positional notation is below the limit (the width of the
\* integer), however many digits and separators there are; and that is its value.
\* parse_u64_radix finds out by one pass, multiplying and checking as it goes.
THEOREM NumberExact ==
    ASSUME NEW s, IsSpelling(s), NEW default \in Nat \ {0}, NEW top \in Nat
    PROVE  ParseNumber(s, default, top) = Denotes(s, default, top)
<1> DEFINE chars == s.chars
           radix == Radix(s, default)
           N == Len(chars)
           seen(k) == \E j \in 1..k : chars[j] # Separator
           good(k) == \A j \in 1..k : chars[j] # Separator => chars[j] < radix
           result(v, k) == IF good(k) /\ (seen(k) => v[k] < top)
                           THEN {[value |-> v[k], sawDigit |-> seen(k)]} ELSE {}
<1>1. chars \in Seq(0..Other) BY DEF IsSpelling
<1>2. radix \in Nat \ {0} BY RadixType
<1>3. N \in Nat /\ \A k \in 1..N : chars[k] \in 0..Other BY <1>1, CharTypes
<1>4. PICK v \in [0..N -> Nat] :
        /\ v[0] = 0
        /\ \A k \in 1..N :
             v[k] = IF chars[k] = Separator THEN v[k - 1] ELSE v[k - 1] * radix + chars[k]
    BY <1>1, <1>2, HornerSteps
<1>5. Positional(chars, radix) = v[N]
    BY <1>1, <1>2, <1>4, HornerIsPositional
<1>6. PICK acc : IsParse(acc, s, default, top)
    <2>1. Radix(s, default) \in Nat BY <1>2
    <2> HIDE DEF chars, radix, N, seen, good, result
    <2> QED BY <2>1, ParseSteps
<1>7. /\ ParseNumber(s, default, top) = {a.value : a \in {x \in acc[N] : x.sawDigit}}
      /\ acc[0] = {[value |-> 0, sawDigit |-> FALSE]}
      /\ \A k \in 1..N : acc[k] = ParseDigit(acc[k - 1], chars[k], radix, top)
    BY <1>6 DEF IsParse
<1> DEFINE T == {k \in 0..N : acc[k] = result(v, k)}
<1> HIDE DEF chars, radix, N
<1>8. 0 \in T
    <2>1. good(0) /\ seen(0) = FALSE OBVIOUS
    <2> HIDE DEF seen, good
    <2>2. result(v, 0) = {[value |-> 0, sawDigit |-> FALSE]} BY <1>4, <2>1
    <2> HIDE DEF result
    <2>3. 0 \in 0..N /\ acc[0] = result(v, 0) BY <1>3, <1>7, <2>2
    <2> QED BY <2>3
<1>9. ASSUME NEW k \in 1..N, k - 1 \in T PROVE k \in T
    <2>0. acc[k - 1] = result(v, k - 1) /\ k \in 0..N
        <3> HIDE DEF result
        <3> QED BY <1>3, <1>9
    <2>1. /\ acc[k] = ParseDigit(acc[k - 1], chars[k], radix, top)
          /\ v[k] = IF chars[k] = Separator THEN v[k - 1] ELSE v[k - 1] * radix + chars[k]
          /\ v[k - 1] \in Nat /\ chars[k] \in 0..Other
        <3> HIDE DEF T
        <3>1. k - 1 \in 0..N BY <1>3
        <3> QED BY <1>3, <1>4, <1>7, <3>1
    <2>2. /\ seen(k) <=> seen(k - 1) \/ chars[k] # Separator
          /\ good(k) <=> good(k - 1) /\ (chars[k] # Separator => chars[k] < radix)
        <3>1. \A j : j \in 1..k <=> j \in 1..(k - 1) \/ j = k BY <1>3
        <3> QED BY <3>1
    <2>3. /\ seen(k) \in BOOLEAN /\ seen(k - 1) \in BOOLEAN
          /\ good(k) \in BOOLEAN /\ good(k - 1) \in BOOLEAN
        OBVIOUS
    <2> HIDE DEF seen, good
    <2>4. CASE chars[k] = Separator
        <3>1. acc[k] = acc[k - 1] BY <2>1, <2>4, ParseSeparator
        <3>2. seen(k) = seen(k - 1) /\ good(k) = good(k - 1) /\ v[k] = v[k - 1]
            <4> HIDE DEF result, T
            <4>1. v[k] = v[k - 1] BY <2>1, <2>4
            <4>2. seen(k) <=> seen(k - 1) BY <2>2, <2>4
            <4>3. good(k) <=> good(k - 1) BY <2>2, <2>4
            <4> QED BY <4>1, <4>2, <4>3, <2>3
        <3> QED BY <2>0, <3>1, <3>2
    <2>5. CASE chars[k] # Separator
        <3>1. seen(k) = TRUE BY <2>2, <2>3, <2>5
        <3>2. v[k] = v[k - 1] * radix + chars[k] BY <2>1, <2>5
        <3>3. v[k] \in Nat /\ v[k - 1] <= v[k]
            <4>1. \A a \in Nat, r \in Nat \ {0}, c \in 0..Other : a <= a * r + c /\ a * r + c \in Nat
                BY DEF Other
            <4> QED BY <1>2, <2>1, <3>2, <4>1
        <3>4. CASE good(k - 1) /\ (seen(k - 1) => v[k - 1] < top)
            <4>1. acc[k - 1] = {[value |-> v[k - 1], sawDigit |-> seen(k - 1)]}
                BY <2>0, <3>4
            <4>2. acc[k] = IF chars[k] < radix /\ v[k] < top
                           THEN {[value |-> v[k], sawDigit |-> TRUE]} ELSE {}
                <5> DEFINE value == v[k - 1]
                           saw == seen(k - 1)
                <5>0. value \in Nat /\ saw \in BOOLEAN /\ radix \in Nat BY <1>2, <2>1, <2>3
                <5> HIDE DEF result, T, value, saw
                <5>1. ParseDigit({[value |-> value, sawDigit |-> saw]}, chars[k], radix, top) =
                        IF chars[k] < radix /\ value * radix + chars[k] < top
                        THEN {[value |-> value * radix + chars[k], sawDigit |-> TRUE]} ELSE {}
                    BY <2>5, ParseDigitEffect
                <5> QED BY <2>1, <3>2, <4>1, <5>1 DEF value, saw
            <4>3. acc[k] = result(v, k) BY <2>2, <2>5, <3>1, <3>4, <4>2
            <4> QED BY <2>0, <4>3
        <3>5. CASE ~(good(k - 1) /\ (seen(k - 1) => v[k - 1] < top))
            <4>1. acc[k - 1] = {} BY <2>0, <3>5
            <4>2. acc[k] = {} BY <2>1, <4>1, ParseDigitRefused
            <4>3. ~(good(k) /\ v[k] < top) BY <2>1, <2>2, <3>3, <3>5
            <4> QED BY <2>0, <3>1, <4>2, <4>3
        <3> QED BY <3>4, <3>5
    <2> QED BY <2>4, <2>5
<1> HIDE DEF T
<1>10. 0..N \subseteq T
    <2> QED BY <1>3, <1>8, <1>9, Induction
<1>11. acc[N] = result(v, N)
    <2> HIDE DEF result
    <2>1. N \in T BY <1>3, <1>10
    <2> QED BY <2>1 DEF T
<1>12. ParseNumber(s, default, top) = IF good(N) /\ seen(N) /\ v[N] < top THEN {v[N]} ELSE {}
    <2>0. seen(N) \in BOOLEAN OBVIOUS
    <2> HIDE DEF seen, good
    <2>1. CASE good(N) /\ seen(N) /\ v[N] < top
        <3>1. acc[N] = {[value |-> v[N], sawDigit |-> TRUE]} BY <1>11, <2>0, <2>1
        <3> HIDE DEF result
        <3>2. {x \in acc[N] : x.sawDigit} = acc[N] BY <3>1
        <3>3. {a.value : a \in acc[N]} = {v[N]} BY <3>1
        <3> QED BY <1>7, <2>1, <3>2, <3>3
    <2>2. CASE ~(good(N) /\ seen(N) /\ v[N] < top)
        <3>1. \A x \in acc[N] : ~x.sawDigit BY <1>11, <2>2
        <3>2. {a.value : a \in {x \in acc[N] : x.sawDigit}} = {} BY <3>1
        <3> HIDE DEF result
        <3> QED BY <1>7, <2>2, <3>2
    <2> QED BY <2>1, <2>2
<1>13. Denotes(s, default, top) = IF good(N) /\ seen(N) /\ v[N] < top THEN {v[N]} ELSE {}
    <2>1. DOMAIN chars = 1..N BY <1>1 DEF N
    <2>2. ToSet(chars) \ {Separator} # {} <=> seen(N) BY <2>1 DEF ToSet
    <2>3. (\A c \in ToSet(chars) \ {Separator} : c < radix) <=> good(N) BY <2>1 DEF ToSet
    <2>4. v[N] \in Nat BY <1>3, <1>4
    <2>5. {v[N]} \cap 0..(top - 1) = IF v[N] < top THEN {v[N]} ELSE {} BY <2>4
    <2>6. Denotes(s, default, top) =
            IF seen(N) /\ good(N) THEN {v[N]} \cap 0..(top - 1) ELSE {}
        BY <1>5, <2>2, <2>3 DEF Denotes, chars, radix
    <2> HIDE DEF seen, good
    <2> QED BY <2>5, <2>6
<1> QED BY <1>12, <1>13

\* A number is unique, natural and below the limit.
LEMMA NumberType ==
    ASSUME NEW s, IsSpelling(s), NEW default \in Nat \ {0}, NEW top \in Nat
    PROVE  /\ ParseNumber(s, default, top) \subseteq 0..(top - 1)
           /\ \A v, w \in ParseNumber(s, default, top) : v = w
BY NumberExact DEF Denotes

\* A lower limit refuses the numbers beyond it and no others.
LEMMA DenotesBelow ==
    ASSUME NEW s, NEW default, NEW top \in Nat, NEW low \in Nat, low <= top
    PROVE  Denotes(s, default, low) = {v \in Denotes(s, default, top) : v < low}
<1> DEFINE x == Positional(s.chars, Radix(s, default))
<1>1. {x} \cap 0..(low - 1) = {v \in {x} \cap 0..(top - 1) : v < low}
    <2> HIDE DEF x
    <2> QED OBVIOUS
<1> QED BY <1>1 DEF Denotes

-----------------------------------------------------------------------------
(* The fields of a check *)

LEMMA FieldNumber ==
    ASSUME NEW f, IsSpelling(f.num)
    PROVE  /\ JsonNumber(f) = FieldDenotes(f, Top64)
           /\ {v \in JsonNumber(f) : v < Top32} = FieldDenotes(f, Top32)
<1> DEFINE chars == f.num.chars
           bare == /\ f.num.prefix = "none" /\ Separator \notin ToSet(f.num.chars)
                   /\ Len(f.num.chars) > 1 => Head(f.num.chars) # 0
<1>1. Top32 \in Nat /\ Top64 \in Nat /\ Top32 <= Top64 BY ProfileAssumption
<1>2. ParseNumber(f.num, 10, Top64) = Denotes(f.num, 10, Top64) BY <1>1, NumberExact
<1>3. Denotes(f.num, 10, Top32) = {v \in Denotes(f.num, 10, Top64) : v < Top32}
    BY <1>1, DenotesBelow
<1>4. JsonNumber(f) = IF f.quoted \/ bare THEN Denotes(f.num, 10, Top64) ELSE {}
    BY <1>2 DEF JsonNumber
<1>5. CASE chars # <<>>
    <2>1. chars \in Seq(0..Other) BY DEF IsSpelling
    <2>2. Len(chars) \in Nat /\ Len(chars) >= 1 BY <1>5, <2>1
    <2>3. bare <=> BareNumber(f.num)
        <3> DEFINE len == Len(f.num.chars)
                   zero == Head(f.num.chars) = 0
        <3>1. len \in Nat /\ len >= 1 BY <2>2
        <3>2. BareNumber(f.num) <=> /\ f.num.prefix = "none" /\ ~Separated(f.num)
                                    /\ zero => len = 1
            BY DEF BareNumber
        <3>3. bare <=> /\ f.num.prefix = "none" /\ ~Separated(f.num)
                       /\ len > 1 => ~zero
            BY DEF Separated
        <3> HIDE DEF len, zero, bare
        <3> QED BY <3>1, <3>2, <3>3
    <2> QED BY <1>3, <1>4, <2>3 DEF FieldDenotes
<1>6. CASE chars = <<>>
    <2>1. ToSet(chars) = {} BY <1>6 DEF ToSet
    <2>2. \A top : Denotes(f.num, 10, top) = {} BY <2>1 DEF Denotes
    <2> QED BY <1>4, <2>2 DEF FieldDenotes
<1> QED BY <1>5, <1>6

\* The keys of a check whose values are numbers, and their limits.
NumberKeys == {"addr", "mask", "expected"}
Limit(key) == IF key = "addr" THEN Top64 ELSE Top32

LEMMA FieldValue ==
    ASSUME NEW f, IsSpelling(f.num), NEW key \in CheckKeys, f.key = key
    PROVE  /\ CheckValue(f) \subseteq Nat
           /\ CheckValue(f) # {} <=> (key \in NumberKeys => FieldDenotes(f, Limit(key)) # {})
           /\ key \in NumberKeys => CheckValue(f) = FieldDenotes(f, Limit(key))
<1>1. /\ key = "addr" => CheckValue(f) = FieldDenotes(f, Top64)
      /\ key \in {"mask", "expected"} => CheckValue(f) = FieldDenotes(f, Top32)
      /\ key = "name" => CheckValue(f) = {0}
    BY FieldNumber DEF CheckValue
<1>2. FieldDenotes(f, Top64) \subseteq Nat /\ FieldDenotes(f, Top32) \subseteq Nat
    <2>1. \A n : 0..(n - 1) \subseteq Nat OBVIOUS
    <2> QED BY <2>1 DEF FieldDenotes, Denotes
<1> QED BY <1>1, <1>2 DEF CheckKeys, NumberKeys, Limit

\* acc is what ParseCheck goes through.
IsCheckScan(acc, fields) ==
    /\ ParseCheck(fields) = {[k \in CheckKeys |-> CHOOSE v \in a[k] : TRUE] :
                                a \in {x \in acc[Len(fields)] : \A k \in CheckKeys : x[k] # {}}}
    /\ acc[0] = {[k \in CheckKeys |-> {}]}
    /\ \A n \in 1..Len(fields) : acc[n] = CheckField(acc[n - 1], fields[n])

\* The values of a check so far.
Values == [CheckKeys -> SUBSET Nat]

LEMMA CheckFieldType ==
    ASSUME NEW acc \in SUBSET Values, NEW f, IsSpelling(f.num)
    PROVE  CheckField(acc, f) \in SUBSET Values
<1>1. f.key \in CheckKeys => CheckValue(f) \subseteq Nat BY FieldValue
<1>2. ASSUME NEW x \in acc, f.key \in CheckKeys
      PROVE  [x EXCEPT ![f.key] = CheckValue(f)] \in Values
    BY <1>1, <1>2 DEF Values
<1>3. {[a EXCEPT ![f.key] = CheckValue(f)] :
            a \in {x \in acc : f.key \in CheckKeys /\ x[f.key] = {} /\ CheckValue(f) # {}}}
        \subseteq Values
    BY <1>2
<1> QED BY <1>3 DEF CheckField

LEMMA CheckSteps ==
    ASSUME NEW fields, IsFields(fields)
    PROVE  \E acc : IsCheckScan(acc, fields)
<1> DEFINE N == Len(fields)
           first == {[k \in CheckKeys |-> {}]}
           step == [p \in (SUBSET Values) \X (1..N) |-> CheckField(p[1], fields[p[2]])]
           acc[n \in 0..Len(fields)] ==
               IF n = 0 THEN {[k \in CheckKeys |-> {}]} ELSE CheckField(acc[n - 1], fields[n])
<1>1. N \in Nat /\ \A k \in 1..N : IsSpelling(fields[k].num)
    BY DEF IsFields, IsSequence
<1>2. first \in SUBSET Values BY DEF Values
<1>3. step \in [(SUBSET Values) \X (1..N) -> SUBSET Values]
    BY <1>1, CheckFieldType
<1>4. PICK f : Steps(f, N, SUBSET Values, first, step)
    <2> HIDE DEF N, step, acc, first
    <2> QED BY <1>1, <1>2, <1>3, RecursionExists
<1> USE DEF Steps
<1>5. f = [n \in 0..Len(fields) |->
              IF n = 0 THEN {[k \in CheckKeys |-> {}]} ELSE CheckField(f[n - 1], fields[n])]
    <2>1. ASSUME NEW n \in 1..N PROVE f[n] = CheckField(f[n - 1], fields[n])
        <3>1. n - 1 \in 0..N BY <1>1
        <3>2. f[n - 1] \in SUBSET Values BY <1>4, <3>1
        <3>3. <<f[n - 1], n>> \in (SUBSET Values) \X (1..N) BY <3>2
        <3> QED BY <1>4, <3>3
    <2> QED BY <1>1, <1>4, <2>1
<1>6. ParseCheck(fields) = {[k \in CheckKeys |-> CHOOSE v \in a[k] : TRUE] :
                                a \in {x \in acc[N] : \A k \in CheckKeys : x[k] # {}}}
    BY Zenon DEF ParseCheck
<1>7. acc = [n \in 0..Len(fields) |->
              IF n = 0 THEN {[k \in CheckKeys |-> {}]} ELSE CheckField(acc[n - 1], fields[n])]
    BY <1>5, Zenon
<1> HIDE DEF acc
<1>8. acc[0] = first BY <1>1, <1>7
<1>9. ASSUME NEW n \in 1..Len(fields) PROVE acc[n] = CheckField(acc[n - 1], fields[n])
    <2>1. n \in 0..Len(fields) /\ n # 0 BY <1>1
    <2> QED BY <1>7, <2>1
<1> QED BY <1>6, <1>8, <1>9 DEF IsCheckScan

\* The first n fields are fields of a check, each key once, and their values.
Accepted(fields, n) ==
    \A k \in 1..n :
        /\ fields[k].ok
        /\ fields[k].key # Extension =>
            /\ fields[k].key \in CheckKeys /\ CheckValue(fields[k]) # {}
            /\ \A j \in 1..(k - 1) : fields[j].key # fields[k].key

ValueSoFar(fields, n, key) ==
    UNION {CheckValue(fields[k]) : k \in {j \in 1..n : fields[j].key = key}}

CheckSoFar(fields, n) ==
    IF Accepted(fields, n) THEN {[key \in CheckKeys |-> ValueSoFar(fields, n, key)]} ELSE {}

LEMMA KeysDiffer == Extension \notin CheckKeys
BY DEF Extension, CheckKeys

LEMMA AcceptedNext ==
    ASSUME NEW fields, NEW n \in Nat \ {0}
    PROVE  Accepted(fields, n) <=>
               /\ Accepted(fields, n - 1) /\ fields[n].ok
               /\ fields[n].key # Extension =>
                    /\ fields[n].key \in CheckKeys /\ CheckValue(fields[n]) # {}
                    /\ \A j \in 1..(n - 1) : fields[j].key # fields[n].key
<1>1. \A k : k \in 1..n <=> k \in 1..(n - 1) \/ k = n OBVIOUS
<1> QED BY <1>1 DEF Accepted

LEMMA ValueNext ==
    ASSUME NEW fields, NEW n \in Nat \ {0}, NEW key
    PROVE  ValueSoFar(fields, n, key) =
               IF fields[n].key = key THEN ValueSoFar(fields, n - 1, key) \cup CheckValue(fields[n])
               ELSE ValueSoFar(fields, n - 1, key)
<1>1. \A k : k \in 1..n <=> k \in 1..(n - 1) \/ k = n OBVIOUS
<1>2. {j \in 1..n : fields[j].key = key} =
        {j \in 1..(n - 1) : fields[j].key = key} \cup (IF fields[n].key = key THEN {n} ELSE {})
    BY <1>1
<1> DEFINE J == {j \in 1..(n - 1) : fields[j].key = key}
<1> HIDE DEF J
<1>3. UNION {CheckValue(fields[k]) : k \in J \cup {n}} =
        (UNION {CheckValue(fields[k]) : k \in J}) \cup CheckValue(fields[n])
    OBVIOUS
<1> QED BY <1>2, <1>3 DEF J, ValueSoFar

\* A key has a value if it occurred, since all the values accepted are there.
LEMMA ValueMeansOccurrence ==
    ASSUME NEW fields, NEW n \in Nat, Accepted(fields, n), NEW key \in CheckKeys
    PROVE  ValueSoFar(fields, n, key) = {} <=> \A j \in 1..n : fields[j].key # key
BY KeysDiffer DEF ValueSoFar, Accepted

LEMMA CheckFieldEffect ==
    ASSUME NEW fields, IsFields(fields), NEW n \in 1..Len(fields)
    PROVE  CheckField(CheckSoFar(fields, n - 1), fields[n]) = CheckSoFar(fields, n)
<1> DEFINE f == fields[n]
           key == f.key
           before == [k \in CheckKeys |-> ValueSoFar(fields, n - 1, k)]
           after == [k \in CheckKeys |-> ValueSoFar(fields, n, k)]
<1>1. n \in Nat \ {0} /\ n - 1 \in Nat /\ f.ok \in BOOLEAN /\ IsSpelling(f.num)
    BY DEF IsFields, IsSequence
<1>2. Accepted(fields, n) <=>
        /\ Accepted(fields, n - 1) /\ f.ok
        /\ key # Extension =>
             /\ key \in CheckKeys /\ CheckValue(f) # {}
             /\ \A j \in 1..(n - 1) : fields[j].key # key
    BY <1>1, AcceptedNext
<1>3. \A k : ValueSoFar(fields, n, k) =
        IF key = k THEN ValueSoFar(fields, n - 1, k) \cup CheckValue(f)
        ELSE ValueSoFar(fields, n - 1, k)
    BY <1>1, ValueNext
<1>4. ASSUME Accepted(fields, n - 1), key \in CheckKeys
      PROVE  before[key] = {} <=> \A j \in 1..(n - 1) : fields[j].key # key
    <2>1. before[key] = ValueSoFar(fields, n - 1, key) BY <1>4
    <2> HIDE DEF before, after
    <2> QED BY <1>1, <1>4, <2>1, ValueMeansOccurrence
<1> HIDE DEF f
<1>5. CASE ~Accepted(fields, n - 1)
    <2>1. CheckSoFar(fields, n - 1) = {} /\ CheckSoFar(fields, n) = {}
        BY <1>2, <1>5 DEF CheckSoFar
    <2>2. CheckField({}, f) = {} BY DEF CheckField
    <2> QED BY <2>1, <2>2 DEF f
<1>6. CASE Accepted(fields, n - 1)
    <2>1. CheckSoFar(fields, n - 1) = {before} BY <1>6 DEF CheckSoFar
    <2>2. CheckSoFar(fields, n) = IF Accepted(fields, n) THEN {after} ELSE {}
        BY DEF CheckSoFar
    <2>3. CASE ~f.ok
        <3>1. CheckField({before}, f) = {} BY <2>3 DEF CheckField
        <3> QED BY <1>2, <2>1, <2>2, <2>3, <3>1 DEF f
    <2>4. CASE f.ok /\ key = Extension
        <3>1. CheckField({before}, f) = {before} BY <2>4 DEF CheckField
        <3>2. before = after BY <1>3, <2>4, KeysDiffer
        <3>3. Accepted(fields, n) BY <1>2, <1>6, <2>4
        <3> QED BY <2>1, <2>2, <3>1, <3>2, <3>3 DEF f
    <2>5. CASE f.ok /\ key # Extension
        <3> DEFINE Fits(x) == key \in CheckKeys /\ x[key] = {} /\ CheckValue(f) # {}
        <3>1. CheckField({before}, f) =
                {[a EXCEPT ![key] = CheckValue(f)] : a \in {x \in {before} : Fits(x)}}
            BY <2>5 DEF CheckField
        <3>2. Accepted(fields, n) <=> Fits(before) BY <1>2, <1>4, <1>6, <2>5
        <3>3. ASSUME Fits(before) PROVE [before EXCEPT ![key] = CheckValue(f)] = after
            <4>1. ValueSoFar(fields, n - 1, key) = {} BY <3>3
            <4>2. \A k \in CheckKeys : after[k] = IF key = k THEN CheckValue(f) ELSE before[k]
                BY <1>3, <4>1
            <4> HIDE DEF key
            <4>3. \A k \in CheckKeys :
                    [before EXCEPT ![key] = CheckValue(f)][k] = IF key = k THEN CheckValue(f) ELSE before[k]
                OBVIOUS
            <4> QED BY <4>2, <4>3
        <3> HIDE DEF Fits, before, after, key
        <3>4. {x \in {before} : Fits(x)} = IF Fits(before) THEN {before} ELSE {} OBVIOUS
        <3>5. CheckField({before}, f) = IF Fits(before) THEN {after} ELSE {}
            <4>1. CASE Fits(before) BY <3>1, <3>3, <3>4, <4>1
            <4>2. CASE ~Fits(before) BY <3>1, <3>4, <4>2
            <4> QED BY <4>1, <4>2
        <3> QED BY <2>1, <2>2, <3>2, <3>5 DEF f
    <2> QED BY <1>1, <2>3, <2>4, <2>5
<1> QED BY <1>5, <1>6

LEMMA ParseCheckResult ==
    ASSUME NEW fields, IsFields(fields)
    PROVE  ParseCheck(fields) =
             {[k \in CheckKeys |-> CHOOSE v \in a[k] : TRUE] :
                a \in {x \in CheckSoFar(fields, Len(fields)) : \A k \in CheckKeys : x[k] # {}}}
<1> DEFINE N == Len(fields)
<1>1. N \in Nat BY DEF IsFields, IsSequence
<1>2. PICK acc : IsCheckScan(acc, fields)
    BY CheckSteps
<1> DEFINE T == {n \in 0..N : acc[n] = CheckSoFar(fields, n)}
<1>3. 0 \in T
    <2>1. Accepted(fields, 0) BY DEF Accepted
    <2>2. \A key : ValueSoFar(fields, 0, key) = {} BY DEF ValueSoFar
    <2>3. CheckSoFar(fields, 0) = {[k \in CheckKeys |-> {}]} BY <2>1, <2>2 DEF CheckSoFar
    <2>4. acc[0] = CheckSoFar(fields, 0) BY <1>2, <2>3 DEF IsCheckScan
    <2> QED BY <1>1, <2>4
<1>4. ASSUME NEW n \in 1..N, n - 1 \in T PROVE n \in T
    <2>1. acc[n] = CheckField(acc[n - 1], fields[n]) BY <1>2 DEF IsCheckScan
    <2>2. acc[n - 1] = CheckSoFar(fields, n - 1) /\ n \in 0..N BY <1>1, <1>4
    <2> QED BY <2>1, <2>2, CheckFieldEffect
<1> HIDE DEF T
<1>5. 0..N \subseteq T
    <2> HIDE DEF N
    <2> QED BY <1>1, <1>3, <1>4, Induction
<1>6. acc[N] = CheckSoFar(fields, N) BY <1>1, <1>5 DEF T
<1> QED BY <1>2, <1>6 DEF IsCheckScan

\* A key that occurs once has the value of that field.
LEMMA ValueOfOccurrence ==
    ASSUME NEW fields, NEW key, NEW k, Occurrences(fields, key) = {k}
    PROVE  ValueSoFar(fields, Len(fields), key) = CheckValue(fields[k])
BY DEF Occurrences, ValueSoFar

\* An object of checks is accepted exactly if each key of a check occurs once and with a
\* value of its type, whatever else the parser, which sees one field after the other,
\* could make of a key left out, repeated or unknown; and its numbers are those of the
\* fields.
THEOREM CheckExact ==
    ASSUME NEW fields, IsFields(fields)
    PROVE  /\ ParseCheck(fields) # {} <=> IsCheck(fields)
           /\ \A c \in ParseCheck(fields) :
                c \in [CheckKeys -> Nat] /\ \A key \in NumberKeys : c[key] = FieldOf(fields, key)
<1> DEFINE N == Len(fields)
           values == [key \in CheckKeys |-> ValueSoFar(fields, N, key)]
<1>1. /\ N \in Nat
      /\ \A k \in 1..N : fields[k].ok \in BOOLEAN /\ IsSpelling(fields[k].num)
    BY DEF IsFields, IsSequence
<1>2. ParseCheck(fields) =
        IF Accepted(fields, N) /\ \A key \in CheckKeys : values[key] # {}
        THEN {[key \in CheckKeys |-> CHOOSE v \in values[key] : TRUE]} ELSE {}
    <2> DEFINE Full(x) == \A key \in CheckKeys : x[key] # {}
               picked(a) == [key \in CheckKeys |-> CHOOSE v \in a[key] : TRUE]
    <2>1. ParseCheck(fields) = {picked(a) : a \in {x \in CheckSoFar(fields, N) : Full(x)}}
        BY ParseCheckResult
    <2>2. CheckSoFar(fields, N) = IF Accepted(fields, N) THEN {values} ELSE {}
        BY DEF CheckSoFar
    <2> HIDE DEF picked, values, Full, N
    <2>3. {x \in CheckSoFar(fields, N) : Full(x)} =
            IF Accepted(fields, N) /\ Full(values) THEN {values} ELSE {}
        BY <2>2
    <2>4. ParseCheck(fields) =
            IF Accepted(fields, N) /\ Full(values) THEN {picked(values)} ELSE {}
        BY <2>1, <2>3
    <2> QED BY <2>4 DEF picked, Full
<1>3. ASSUME NEW key \in CheckKeys, Accepted(fields, N), values[key] # {}
      PROVE  \E k \in 1..N : Occurrences(fields, key) = {k}
    <2>1. values[key] = ValueSoFar(fields, N, key) OBVIOUS
    <2>2. ~(\A j \in 1..N : fields[j].key # key)
        <3> HIDE DEF values, N
        <3> QED BY <1>1, <1>3, <2>1, ValueMeansOccurrence
    <2>3. PICK k \in 1..N : fields[k].key = key BY <2>2
    <2>4. \A j \in 1..N : fields[j].key = key => j = k
        <3>1. \A j, m \in 1..N : fields[j].key = key /\ fields[m].key = key => ~(j < m)
            BY <1>3, KeysDiffer DEF Accepted
        <3> QED BY <1>1, <2>3, <3>1
    <2> QED BY <2>3, <2>4 DEF Occurrences
<1>4. ASSUME NEW k \in 1..N, fields[k].key \in CheckKeys
      PROVE  CheckValue(fields[k]) # {} <=>
               (fields[k].key \in NumberKeys => FieldDenotes(fields[k], Limit(fields[k].key)) # {})
    BY <1>1, <1>4, FieldValue
<1>5. IsCheck(fields) <=> Accepted(fields, N) /\ \A key \in CheckKeys : values[key] # {}
    <2>1. ASSUME IsCheck(fields)
          PROVE  Accepted(fields, N) /\ \A key \in CheckKeys : values[key] # {}
        <3>1. /\ \A k \in 1..N : fields[k].ok /\ fields[k].key \in CheckKeys \cup {Extension}
              /\ \A key \in CheckKeys : \E k \in 1..N : Occurrences(fields, key) = {k}
            BY <2>1 DEF IsCheck, Object
        <3>2. ASSUME NEW k \in 1..N, fields[k].key # Extension
              PROVE  /\ fields[k].key \in CheckKeys /\ CheckValue(fields[k]) # {}
                     /\ \A j \in 1..(k - 1) : fields[j].key # fields[k].key
            <4>1. fields[k].key \in CheckKeys BY <3>1, <3>2
            <4>2. CheckValue(fields[k]) # {}
                BY <1>4, <2>1, <4>1 DEF IsCheck, NumberKeys, Limit
            <4>3. PICK m \in 1..N : Occurrences(fields, fields[k].key) = {m} BY <3>1, <4>1
            <4>4. \A j \in 1..N : fields[j].key = fields[k].key => j = m
                BY <4>3 DEF Occurrences
            <4>5. \A j \in 1..(k - 1) : fields[j].key # fields[k].key
                <5>1. k = m BY <4>4
                <5> QED BY <1>1, <4>4, <5>1
            <4> QED BY <4>1, <4>2, <4>5
        <3>3. Accepted(fields, N) BY <3>1, <3>2 DEF Accepted
        <3>4. ASSUME NEW key \in CheckKeys PROVE values[key] # {}
            <4>1. PICK k \in 1..N : Occurrences(fields, key) = {k} BY <3>1
            <4>2. fields[k].key = key BY <4>1 DEF Occurrences
            <4>3. ~(\A j \in 1..N : fields[j].key # key) BY <4>2
            <4> QED BY <1>1, <3>3, <4>3, ValueMeansOccurrence
        <3> QED BY <3>3, <3>4
    <2>2. ASSUME Accepted(fields, N), \A key \in CheckKeys : values[key] # {}
          PROVE  IsCheck(fields)
        <3>1. \A key \in CheckKeys : \E k \in 1..N : Occurrences(fields, key) = {k}
            <4> HIDE DEF values, N
            <4> QED BY <1>3, <2>2
        <3>2. \A k \in 1..N : fields[k].ok /\ fields[k].key \in CheckKeys \cup {Extension}
            BY <2>2 DEF Accepted
        <3>3. ASSUME NEW k \in 1..N, fields[k].key \in NumberKeys
              PROVE  FieldDenotes(fields[k], Limit(fields[k].key)) # {}
            <4>1. fields[k].key \in CheckKeys /\ fields[k].key # Extension
                BY <3>3 DEF NumberKeys, CheckKeys, Extension
            <4>2. CheckValue(fields[k]) # {} BY <2>2, <4>1 DEF Accepted
            <4> QED BY <1>4, <3>3, <4>1, <4>2
        <3> QED BY <3>1, <3>2, <3>3 DEF IsCheck, Object, NumberKeys, Limit
    <2> QED BY <2>1, <2>2
<1>6. ASSUME NEW c \in ParseCheck(fields)
      PROVE  c \in [CheckKeys -> Nat] /\ \A key \in NumberKeys : c[key] = FieldOf(fields, key)
    <2>1. /\ Accepted(fields, N) /\ \A key \in CheckKeys : values[key] # {}
          /\ c = [key \in CheckKeys |-> CHOOSE v \in values[key] : TRUE]
        <3> HIDE DEF values, N
        <3> QED BY <1>2, <1>6
    <2>2. ASSUME NEW key \in CheckKeys
          PROVE  c[key] \in Nat /\ (key \in NumberKeys => c[key] = FieldOf(fields, key))
        <3>1. PICK k \in 1..N : Occurrences(fields, key) = {k}
            <4> HIDE DEF values, N
            <4> QED BY <1>3, <2>1
        <3>2. values[key] = CheckValue(fields[k]) /\ fields[k].key = key
            <4>1. fields[k].key = key BY <3>1 DEF Occurrences
            <4> QED BY <3>1, <4>1, ValueOfOccurrence
        <3>3. /\ CheckValue(fields[k]) \subseteq Nat
              /\ key \in NumberKeys => CheckValue(fields[k]) = FieldDenotes(fields[k], Limit(key))
            BY <1>1, <3>2, FieldValue
        <3> HIDE DEF values, N
        <3>4. c[key] = CHOOSE v \in values[key] : TRUE BY <2>1
        <3>5. c[key] \in values[key] BY <2>1, <3>4, Zenon
        <3>6. (CHOOSE j \in Occurrences(fields, key) : TRUE) = k BY <3>1
        <3>7. FieldOf(fields, key) = CHOOSE v \in FieldDenotes(fields[k], Top64) : TRUE
            BY <3>6 DEF FieldOf
        <3>8. ASSUME key \in NumberKeys PROVE c[key] = FieldOf(fields, key)
            <4>1. c[key] \in FieldDenotes(fields[k], Limit(key)) BY <3>2, <3>3, <3>5, <3>8
            <4>2. c[key] \in FieldDenotes(fields[k], Top64)
                <5>1. Denotes(fields[k].num, 10, Top32) \subseteq Denotes(fields[k].num, 10, Top64)
                    BY ProfileAssumption, DenotesBelow
                <5> QED BY <4>1, <5>1 DEF Limit, FieldDenotes
            <4>3. \A v, w \in FieldDenotes(fields[k], Top64) : v = w
                BY DEF FieldDenotes, Denotes
            <4> QED BY <3>7, <4>2, <4>3, Zenon
        <3> QED BY <3>2, <3>3, <3>5, <3>8
    <2> QED BY <2>1, <2>2 DEF NumberKeys, CheckKeys
<1> QED BY <1>2, <1>5, <1>6

-----------------------------------------------------------------------------
(* The fields of a profile *)

\* acc is what ParseProfile goes through.
IsProfileScan(acc, file) ==
    /\ ParseProfile(file) =
        {[k \in 1..Len(c) |-> CHOOSE v \in ParseCheck(c[k]) : TRUE] :
            c \in {x \in UNION {a.checks : a \in {y \in acc[Len(file.fields)] : y.name}} :
                     x # <<>> /\ ~file.trailing}}
    /\ acc[0] = {[name |-> FALSE, checks |-> {}]}
    /\ \A n \in 1..Len(file.fields) : acc[n] = ProfileField(acc[n - 1], file.fields[n])

\* The checks of a field are checks.
FieldParses(f) == \A k \in 1..Len(f.checks) : ParseCheck(f.checks[k]) # {}

\* The first n fields are fields of a profile, each key once, and what they hold.
Taken(fields, n) ==
    \A k \in 1..n :
        /\ fields[k].ok
        /\ fields[k].key # Extension =>
            /\ fields[k].key \in ProfileKeys
            /\ fields[k].key = "checks" => FieldParses(fields[k])
            /\ \A j \in 1..(k - 1) : fields[j].key # fields[k].key

Named(fields, n) == \E k \in 1..n : fields[k].key = "name"

ListsSoFar(fields, n) == {fields[k].checks : k \in {j \in 1..n : fields[j].key = "checks"}}

ProfileSoFar(fields, n) ==
    IF Taken(fields, n) THEN {[name |-> Named(fields, n), checks |-> ListsSoFar(fields, n)]}
    ELSE {}

LEMMA ProfileScan ==
    ASSUME NEW file, IsFile(file)
    PROVE  \E acc : IsProfileScan(acc, file)
<1> DEFINE fields == file.fields
           N == Len(file.fields)
           Lists == {fields[k].checks : k \in 1..N}
           Found == [name : BOOLEAN, checks : SUBSET Lists]
           first == {[name |-> FALSE, checks |-> {}]}
           step == [p \in (SUBSET Found) \X (1..N) |-> ProfileField(p[1], fields[p[2]])]
           acc[n \in 0..Len(file.fields)] ==
               IF n = 0 THEN {[name |-> FALSE, checks |-> {}]}
               ELSE ProfileField(acc[n - 1], file.fields[n])
<1>1. N \in Nat BY DEF IsFile, IsSequence
<1>2. first \in SUBSET Found OBVIOUS
<1>3. ASSUME NEW a \in SUBSET Found, NEW n \in 1..N
      PROVE  ProfileField(a, fields[n]) \in SUBSET Found
    <2> DEFINE f == fields[n]
               next(x) == [name |-> x.name \/ f.key = "name",
                           checks |-> IF f.key = "checks" THEN {f.checks} ELSE x.checks]
               Good(x) == \/ f.key = "name" /\ ~x.name
                          \/ /\ f.key = "checks" /\ x.checks = {}
                             /\ \A k \in 1..Len(f.checks) : ParseCheck(f.checks[k]) # {}
    <2>1. f.checks \in Lists OBVIOUS
    <2>2. ASSUME NEW x \in a PROVE next(x) \in Found BY <2>1
    <2>3. ProfileField(a, f) = IF ~f.ok THEN {} ELSE IF f.key = Extension THEN a
                               ELSE {next(x) : x \in {y \in a : Good(y)}}
        BY DEF ProfileField
    <2> HIDE DEF next, Good, Found, f
    <2> QED BY <2>2, <2>3 DEF f
<1>4. step \in [(SUBSET Found) \X (1..N) -> SUBSET Found]
    <2> HIDE DEF Found, N, fields
    <2> QED BY <1>3
<1>5. PICK f : Steps(f, N, SUBSET Found, first, step)
    <2> HIDE DEF N, step, acc, first, Found
    <2> QED BY <1>1, <1>2, <1>4, RecursionExists
<1> USE DEF Steps
<1>6. f = [n \in 0..Len(file.fields) |->
              IF n = 0 THEN {[name |-> FALSE, checks |-> {}]}
              ELSE ProfileField(f[n - 1], file.fields[n])]
    <2> HIDE DEF Found
    <2>1. ASSUME NEW n \in 1..N PROVE f[n] = ProfileField(f[n - 1], file.fields[n])
        <3>1. n - 1 \in 0..N BY <1>1
        <3>2. f[n - 1] \in SUBSET Found BY <1>5, <3>1
        <3>3. <<f[n - 1], n>> \in (SUBSET Found) \X (1..N) BY <3>2
        <3> QED BY <1>5, <3>3
    <2> QED BY <1>1, <1>5, <2>1
<1>7. ParseProfile(file) =
        {[k \in 1..Len(c) |-> CHOOSE v \in ParseCheck(c[k]) : TRUE] :
            c \in {x \in UNION {a.checks : a \in {y \in acc[Len(file.fields)] : y.name}} :
                     x # <<>> /\ ~file.trailing}}
    BY Zenon DEF ParseProfile
<1>8. acc = [n \in 0..Len(file.fields) |->
              IF n = 0 THEN {[name |-> FALSE, checks |-> {}]}
              ELSE ProfileField(acc[n - 1], file.fields[n])]
    BY <1>6, Zenon
<1> HIDE DEF acc, Found
<1>9. acc[0] = first BY <1>1, <1>8
<1>10. ASSUME NEW n \in 1..Len(file.fields)
       PROVE  acc[n] = ProfileField(acc[n - 1], file.fields[n])
    <2>1. n \in 0..Len(file.fields) /\ n # 0 BY <1>1
    <2> QED BY <1>8, <2>1
<1> QED BY <1>7, <1>9, <1>10 DEF IsProfileScan

LEMMA TakenNext ==
    ASSUME NEW fields, NEW n \in Nat \ {0}
    PROVE  /\ Taken(fields, n) <=>
               /\ Taken(fields, n - 1) /\ fields[n].ok
               /\ fields[n].key # Extension =>
                    /\ fields[n].key \in ProfileKeys
                    /\ fields[n].key = "checks" => FieldParses(fields[n])
                    /\ \A j \in 1..(n - 1) : fields[j].key # fields[n].key
           /\ Named(fields, n) <=> Named(fields, n - 1) \/ fields[n].key = "name"
           /\ ListsSoFar(fields, n) =
                ListsSoFar(fields, n - 1) \cup
                    (IF fields[n].key = "checks" THEN {fields[n].checks} ELSE {})
<1>1. \A k : k \in 1..n <=> k \in 1..(n - 1) \/ k = n OBVIOUS
<1>2. {j \in 1..n : fields[j].key = "checks"} =
        {j \in 1..(n - 1) : fields[j].key = "checks"} \cup
            (IF fields[n].key = "checks" THEN {n} ELSE {})
    BY <1>1
<1> QED BY <1>1, <1>2 DEF Taken, Named, ListsSoFar

LEMMA ProfileFieldEffect ==
    ASSUME NEW fields, NEW n \in Nat \ {0}
    PROVE  ProfileField(ProfileSoFar(fields, n - 1), fields[n]) = ProfileSoFar(fields, n)
<1> DEFINE f == fields[n]
           name == Named(fields, n - 1)
           lists == ListsSoFar(fields, n - 1)
           before == [name |-> name, checks |-> lists]
           after == [name |-> Named(fields, n), checks |-> ListsSoFar(fields, n)]
<1>1. /\ Taken(fields, n) <=>
            /\ Taken(fields, n - 1) /\ f.ok
            /\ f.key # Extension =>
                 /\ f.key \in ProfileKeys
                 /\ f.key = "checks" => FieldParses(f)
                 /\ \A j \in 1..(n - 1) : fields[j].key # f.key
      /\ Named(fields, n) <=> name \/ f.key = "name"
      /\ ListsSoFar(fields, n) = lists \cup (IF f.key = "checks" THEN {f.checks} ELSE {})
    BY TakenNext
<1>2. /\ ~name <=> \A j \in 1..(n - 1) : fields[j].key # "name"
      /\ lists = {} <=> \A j \in 1..(n - 1) : fields[j].key # "checks"
    BY DEF Named, ListsSoFar
<1>3. Named(fields, n) \in BOOLEAN /\ name \in BOOLEAN BY DEF Named
<1> HIDE DEF f, name, lists
<1>4. CASE ~Taken(fields, n - 1)
    <2>1. ProfileSoFar(fields, n - 1) = {} /\ ProfileSoFar(fields, n) = {}
        BY <1>1, <1>4 DEF ProfileSoFar
    <2>2. ProfileField({}, f) = {} BY DEF ProfileField
    <2> QED BY <2>1, <2>2 DEF f
<1>5. CASE Taken(fields, n - 1)
    <2>1. ProfileSoFar(fields, n - 1) = {before} BY <1>5 DEF ProfileSoFar, name, lists
    <2>2. ProfileSoFar(fields, n) = IF Taken(fields, n) THEN {after} ELSE {}
        BY DEF ProfileSoFar
    <2>3. CASE ~f.ok
        <3>1. ProfileField({before}, f) = {} BY <2>3 DEF ProfileField
        <3> QED BY <1>1, <2>1, <2>2, <2>3, <3>1 DEF f
    <2>4. CASE f.ok /\ f.key = Extension
        <3>1. ProfileField({before}, f) = {before} BY <2>4 DEF ProfileField
        <3>2. f.key # "name" /\ f.key # "checks" BY <2>4 DEF Extension
        <3>3. Named(fields, n) = name BY <1>1, <1>3, <3>2
        <3>4. before = after BY <1>1, <3>2, <3>3
        <3>5. Taken(fields, n) BY <1>1, <1>5, <2>4
        <3> QED BY <2>1, <2>2, <3>1, <3>4, <3>5 DEF f
    <2>5. CASE f.ok /\ f.key # Extension
        <3> DEFINE next(x) == [name |-> x.name \/ f.key = "name",
                               checks |-> IF f.key = "checks" THEN {f.checks} ELSE x.checks]
                   Good(x) == \/ f.key = "name" /\ ~x.name
                              \/ /\ f.key = "checks" /\ x.checks = {}
                                 /\ \A k \in 1..Len(f.checks) : ParseCheck(f.checks[k]) # {}
        <3>1. ProfileField({before}, f) = {next(x) : x \in {y \in {before} : Good(y)}}
            BY <2>5 DEF ProfileField
        <3>2. Good(before) <=> \/ f.key = "name" /\ ~name
                               \/ f.key = "checks" /\ lists = {} /\ FieldParses(f)
            BY DEF FieldParses
        <3>3. Taken(fields, n) <=> Good(before)
            BY <1>1, <1>2, <1>5, <2>5, <3>2 DEF ProfileKeys
        <3>4. ASSUME Good(before) PROVE next(before) = after
            <4>1. (name \/ f.key = "name") = Named(fields, n) BY <1>1, <1>3
            <4>2. (IF f.key = "checks" THEN {f.checks} ELSE lists) = ListsSoFar(fields, n)
                BY <1>1, <3>2, <3>4
            <4> QED BY <4>1, <4>2
        <3> HIDE DEF next, Good, before, after
        <3>5. {y \in {before} : Good(y)} = IF Good(before) THEN {before} ELSE {} OBVIOUS
        <3>6. ProfileField({before}, f) = IF Good(before) THEN {after} ELSE {}
            <4>1. CASE Good(before) BY <3>1, <3>4, <3>5, <4>1
            <4>2. CASE ~Good(before) BY <3>1, <3>5, <4>2
            <4> QED BY <4>1, <4>2
        <3> QED BY <2>1, <2>2, <3>3, <3>6 DEF f
    <2> QED BY <2>3, <2>4, <2>5
<1> QED BY <1>4, <1>5

LEMMA ParseProfileResult ==
    ASSUME NEW file, IsFile(file)
    PROVE  ParseProfile(file) =
             IF Taken(file.fields, Len(file.fields)) /\ Named(file.fields, Len(file.fields))
             THEN {[k \in 1..Len(c) |-> CHOOSE v \in ParseCheck(c[k]) : TRUE] :
                     c \in {x \in ListsSoFar(file.fields, Len(file.fields)) :
                              x # <<>> /\ ~file.trailing}}
             ELSE {}
<1> DEFINE fields == file.fields
           N == Len(fields)
<1>1. N \in Nat BY DEF IsFile, IsSequence
<1>2. PICK acc : IsProfileScan(acc, file)
    BY ProfileScan
<1> DEFINE T == {n \in 0..N : acc[n] = ProfileSoFar(fields, n)}
<1>3. 0 \in T
    <2>1. Taken(fields, 0) BY DEF Taken
    <2>2. Named(fields, 0) = FALSE /\ ListsSoFar(fields, 0) = {} BY DEF Named, ListsSoFar
    <2>3. ProfileSoFar(fields, 0) = {[name |-> FALSE, checks |-> {}]}
        BY <2>1, <2>2 DEF ProfileSoFar
    <2>4. acc[0] = ProfileSoFar(fields, 0) BY <1>2, <2>3 DEF IsProfileScan
    <2> QED BY <1>1, <2>4
<1>4. ASSUME NEW n \in 1..N, n - 1 \in T PROVE n \in T
    <2>1. acc[n] = ProfileField(acc[n - 1], fields[n]) BY <1>2 DEF IsProfileScan
    <2>2. acc[n - 1] = ProfileSoFar(fields, n - 1) /\ n \in 0..N /\ n \in Nat \ {0}
        BY <1>1, <1>4
    <2> QED BY <2>1, <2>2, ProfileFieldEffect
<1> HIDE DEF T
<1>5. 0..N \subseteq T
    <2> HIDE DEF N
    <2> QED BY <1>1, <1>3, <1>4, Induction
<1>6. acc[N] = ProfileSoFar(fields, N) BY <1>1, <1>5 DEF T
<1> DEFINE result(c) == [k \in 1..Len(c) |-> CHOOSE v \in ParseCheck(c[k]) : TRUE]
           lists == UNION {a.checks : a \in {y \in acc[N] : y.name}}
<1>7. ParseProfile(file) = {result(c) : c \in {x \in lists : x # <<>> /\ ~file.trailing}}
    BY <1>2 DEF IsProfileScan
<1>8. lists = IF Taken(fields, N) /\ Named(fields, N) THEN ListsSoFar(fields, N) ELSE {}
    <2> DEFINE found == [name |-> Named(fields, N), checks |-> ListsSoFar(fields, N)]
    <2>1. acc[N] = IF Taken(fields, N) THEN {found} ELSE {} BY <1>6 DEF ProfileSoFar
    <2>2. CASE Taken(fields, N) /\ Named(fields, N)
        <3>1. {y \in acc[N] : y.name} = {found} BY <2>1, <2>2
        <3>2. lists = found.checks
            <4> HIDE DEF found
            <4> QED BY <3>1
        <3> QED BY <2>2, <3>2
    <2>3. CASE ~(Taken(fields, N) /\ Named(fields, N))
        <3>1. {y \in acc[N] : y.name} = {} BY <2>1, <2>3
        <3> QED BY <2>3, <3>1
    <2> QED BY <2>2, <2>3
<1> HIDE DEF lists
<1> QED BY <1>7, <1>8

\* A file is accepted exactly if it is a profile: nothing follows the object, each of
\* its keys stands in it once, and it lists checks, at least one; and the numbers to be
\* compared are those of the checks it lists, in their order.
THEOREM ProfileExact ==
    ASSUME NEW file, IsFile(file)
    PROVE  /\ ParseProfile(file) # {} <=> IsProfile(file)
           /\ \A checks \in ParseProfile(file) :
                /\ checks \in Seq([CheckKeys -> Nat])
                /\ Len(checks) = Len(CheckList(file))
                /\ \A k \in 1..Len(checks), key \in NumberKeys :
                     checks[k][key] = FieldOf(CheckList(file)[k], key)
<1> DEFINE fields == file.fields
           N == Len(fields)
           List == CheckList(file)
           result(c) == [k \in 1..Len(c) |-> CHOOSE v \in ParseCheck(c[k]) : TRUE]
<1>1. /\ N \in Nat /\ file.trailing \in BOOLEAN
      /\ \A k \in 1..N : /\ fields[k].ok \in BOOLEAN /\ Len(fields[k].checks) \in Nat
                         /\ \A n \in 1..Len(fields[k].checks) : IsFields(fields[k].checks[n])
    BY DEF IsFile, IsSequence
<1>2. ParseProfile(file) =
        IF Taken(fields, N) /\ Named(fields, N)
        THEN {result(c) : c \in {x \in ListsSoFar(fields, N) : x # <<>> /\ ~file.trailing}}
        ELSE {}
    BY ParseProfileResult
<1>3. ASSUME NEW k \in 1..N
      PROVE  FieldParses(fields[k]) <=> \A n \in 1..Len(fields[k].checks) : IsCheck(fields[k].checks[n])
    BY <1>1, CheckExact DEF FieldParses
<1>4. ASSUME Taken(fields, N), NEW key \in ProfileKeys, NEW j \in 1..N, fields[j].key = key
      PROVE  Occurrences(fields, key) = {j}
    <2>1. key # Extension BY DEF ProfileKeys, Extension
    <2>2. \A m, n \in 1..N : fields[m].key = key /\ fields[n].key = key => ~(m < n)
        BY <1>4, <2>1 DEF Taken
    <2>3. \A m \in 1..N : fields[m].key = key => m = j BY <1>1, <1>4, <2>2
    <2> QED BY <1>4, <2>3 DEF Occurrences
<1>5. ASSUME NEW j \in 1..N, Occurrences(fields, "checks") = {j}
      PROVE  List = fields[j].checks /\ ListsSoFar(fields, N) = {List}
    <2>1. (CHOOSE k \in Occurrences(fields, "checks") : TRUE) = j BY <1>5
    <2>2. List = fields[j].checks BY <2>1 DEF CheckList
    <2> HIDE DEF List
    <2>3. {k \in 1..N : fields[k].key = "checks"} = {j} BY <1>5 DEF Occurrences
    <2>4. ListsSoFar(fields, N) = {fields[k].checks : k \in {j}} BY <2>3 DEF ListsSoFar
    <2> QED BY <2>2, <2>4
<1>6. ASSUME NEW c \in ListsSoFar(fields, N), Taken(fields, N), Named(fields, N)
      PROVE  /\ Object(fields, ProfileKeys)
             /\ List = c /\ ListsSoFar(fields, N) = {List} /\ Len(List) \in Nat
             /\ \A n \in 1..Len(List) : IsFields(List[n]) /\ IsCheck(List[n])
    <2>1. PICK j \in 1..N : fields[j].key = "checks" /\ c = fields[j].checks
        BY DEF ListsSoFar
    <2>2. PICK m \in 1..N : fields[m].key = "name" BY <1>6 DEF Named
    <2>3. Occurrences(fields, "checks") = {j} /\ Occurrences(fields, "name") = {m}
        BY <1>4, <1>6, <2>1, <2>2 DEF ProfileKeys
    <2>4. Object(fields, ProfileKeys)
        <3>1. \A k \in 1..N : fields[k].ok /\ fields[k].key \in ProfileKeys \cup {Extension}
            BY <1>6 DEF Taken
        <3>2. \A key \in ProfileKeys : \E k \in 1..N : Occurrences(fields, key) = {k}
            BY <2>3 DEF ProfileKeys
        <3> QED BY <3>1, <3>2 DEF Object
    <2>5. List = fields[j].checks /\ ListsSoFar(fields, N) = {List} BY <1>5, <2>3
    <2>6. FieldParses(fields[j])
        <3>1. "checks" # Extension BY DEF Extension
        <3> QED BY <1>6, <2>1, <3>1 DEF Taken
    <2> HIDE DEF List
    <2> QED BY <1>1, <1>3, <2>1, <2>4, <2>5, <2>6
<1>7. ASSUME ParseProfile(file) # {}
      PROVE  IsProfile(file)
    <2>1. PICK c \in ListsSoFar(fields, N) :
            Taken(fields, N) /\ Named(fields, N) /\ c # <<>> /\ ~file.trailing
        <3> HIDE DEF N, fields, result
        <3> QED BY <1>2, <1>7
    <2>2. Object(fields, ProfileKeys) /\ List = c /\ \A n \in 1..Len(List) : IsCheck(List[n])
        BY <1>6, <2>1
    <2> QED BY <2>1, <2>2 DEF IsProfile
<1>8. ASSUME IsProfile(file)
      PROVE  ParseProfile(file) # {}
    <2>1. Object(fields, ProfileKeys) /\ ~file.trailing /\ List # <<>>
          /\ \A n \in 1..Len(List) : IsCheck(List[n])
        BY <1>8 DEF IsProfile
    <2>2. /\ \A k \in 1..N : fields[k].ok /\ fields[k].key \in ProfileKeys \cup {Extension}
          /\ \A key \in ProfileKeys : \E k \in 1..N : Occurrences(fields, key) = {k}
        BY <2>1 DEF Object
    <2>3. PICK j \in 1..N : Occurrences(fields, "checks") = {j} BY <2>2 DEF ProfileKeys
    <2>4. PICK m \in 1..N : Occurrences(fields, "name") = {m} BY <2>2 DEF ProfileKeys
    <2>5. List = fields[j].checks /\ ListsSoFar(fields, N) = {List} BY <1>5, <2>3
    <2>6. Named(fields, N) BY <2>4 DEF Named, Occurrences
    <2>7. FieldParses(fields[j])
        <3> HIDE DEF List, N, fields
        <3> QED BY <1>3, <2>1, <2>5
    <2>8. ASSUME NEW k \in 1..N, fields[k].key # Extension
          PROVE  /\ fields[k].key \in ProfileKeys
                 /\ fields[k].key = "checks" => FieldParses(fields[k])
                 /\ \A i \in 1..(k - 1) : fields[i].key # fields[k].key
        <3>1. fields[k].key \in ProfileKeys BY <2>2, <2>8
        <3>2. PICK i \in 1..N : Occurrences(fields, fields[k].key) = {i} BY <2>2, <3>1
        <3>3. \A n \in 1..N : fields[n].key = fields[k].key => n = i BY <3>2 DEF Occurrences
        <3>4. fields[k].key = "checks" => k = j
            <4>1. \A n \in 1..N : fields[n].key = "checks" => n = j BY <2>3 DEF Occurrences
            <4> QED BY <4>1
        <3>5. k = i BY <3>3
        <3> QED BY <1>1, <2>7, <3>1, <3>3, <3>4, <3>5
    <2>9. Taken(fields, N) BY <2>2, <2>8 DEF Taken
    <2> HIDE DEF result, List, fields, N
    <2> QED BY <1>2, <2>1, <2>5, <2>6, <2>9
<1>9. ASSUME NEW checks \in ParseProfile(file)
      PROVE  /\ checks \in Seq([CheckKeys -> Nat])
             /\ Len(checks) = Len(List)
             /\ \A k \in 1..Len(checks), key \in NumberKeys :
                  checks[k][key] = FieldOf(List[k], key)
    <2>1. PICK c \in ListsSoFar(fields, N) :
            Taken(fields, N) /\ Named(fields, N) /\ checks = result(c)
        <3> HIDE DEF N, fields, result
        <3> QED BY <1>2, <1>9
    <2>2. /\ checks = result(List) /\ Len(List) \in Nat
          /\ \A n \in 1..Len(List) : IsFields(List[n]) /\ IsCheck(List[n])
        BY <1>6, <2>1
    <2> HIDE DEF List
    <2>3. ASSUME NEW k \in 1..Len(List)
          PROVE  /\ checks[k] \in [CheckKeys -> Nat]
                 /\ \A key \in NumberKeys : checks[k][key] = FieldOf(List[k], key)
        <3>1. checks = [m \in 1..Len(List) |-> CHOOSE v \in ParseCheck(List[m]) : TRUE] BY <2>2, Zenon
        <3>2. checks[k] = CHOOSE v \in ParseCheck(List[k]) : TRUE BY <3>1, Zenon
        <3>3. ParseCheck(List[k]) # {} BY <2>2, CheckExact
        <3>4. checks[k] \in ParseCheck(List[k]) BY <3>2, <3>3, Zenon
        <3> QED BY <2>2, <3>4, CheckExact
    <2>4. checks \in [1..Len(List) -> [CheckKeys -> Nat]] BY <2>2, <2>3
    <2>5. checks \in Seq([CheckKeys -> Nat]) /\ Len(checks) = Len(List)
        <3>1. ASSUME NEW S, NEW n \in Nat, NEW s \in [1..n -> S] PROVE s \in Seq(S) /\ Len(s) = n
            OBVIOUS
        <3> QED BY <2>2, <2>4, <3>1, ZenonT(60)
    <2> QED BY <2>3, <2>5
<1> QED BY <1>7, <1>8, <1>9
=============================================================================
