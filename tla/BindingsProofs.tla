--------------------------- MODULE BindingsProofs ---------------------------
(***************************************************************************)
(* Theorems about the C ABI and the Python binding, for any set of threads *)
(* and of handles, finite or not: what mmreg_lock and mmreg_unlock promise *)
(* their callers (CApi), what with blocks and inline registers promise     *)
(* Python programs (PyDevice, MCBindings).                                 *)
(***************************************************************************)
EXTENDS MCBindings, TLAPS, FiniteSetTheorems, SequenceTheorems

-----------------------------------------------------------------------------
(* Guards are counted as tokens <<h, k>>: the k-th guard on the stack of h. *)

Tokens(g) == UNION {{h} \X (1..g[h]) : h \in Handles}

Flying(where) == {t \in Threads : where[t] \in {"push", "drop"}}

LEMMA StackedTokens == Stacked = Tokens(guards) /\ InFlight = Flying(pc)
  BY DEF Stacked, Tokens, InFlight, Flying

LEMMA TokenOf ==
    ASSUME NEW g \in [Handles -> Nat], NEW x
    PROVE  x \in Tokens(g) <=> \E h \in Handles, k \in Nat : x = <<h, k>> /\ 1 <= k /\ k <= g[h]
<1>1. \A h \in Handles : g[h] \in Nat
  OBVIOUS
<1>2. ASSUME NEW h \in Handles, x \in {h} \X (1..g[h])
      PROVE  \E k \in Nat : x = <<h, k>> /\ 1 <= k /\ k <= g[h]
  BY <1>1, <1>2
<1>3. ASSUME NEW h \in Handles, NEW k \in Nat, x = <<h, k>>, 1 <= k, k <= g[h]
      PROVE  x \in {h} \X (1..g[h])
  BY <1>1, <1>3
<1> QED
  BY <1>2, <1>3 DEF Tokens

\* mmreg_lock puts one token on a stack.
LEMMA TokensPush ==
    ASSUME NEW g \in [Handles -> Nat], NEW h \in Handles, IsFiniteSet(Tokens(g))
    PROVE  /\ IsFiniteSet(Tokens([g EXCEPT ![h] = @ + 1]))
           /\ Cardinality(Tokens([g EXCEPT ![h] = @ + 1])) = Cardinality(Tokens(g)) + 1
<1> DEFINE more == [g EXCEPT ![h] = @ + 1]
           new == <<h, g[h] + 1>>
<1>1. more \in [Handles -> Nat] /\ g[h] \in Nat
  OBVIOUS
<1>2. new \notin Tokens(g)
  BY <1>1, TokenOf
<1>3. Tokens(more) = Tokens(g) \cup {new}
  <2>1. ASSUME NEW x \in Tokens(more) PROVE x \in Tokens(g) \cup {new}
    <3>1. PICK i \in Handles, k \in Nat : x = <<i, k>> /\ 1 <= k /\ k <= more[i]
      BY <1>1, <2>1, TokenOf
    <3>2. CASE i = h /\ k = g[h] + 1
      BY <3>1, <3>2
    <3>3. CASE ~(i = h /\ k = g[h] + 1)
      <4>1. k <= g[i]
        BY <1>1, <3>1, <3>3
      <4> QED
        BY <3>1, <4>1, TokenOf
    <3> QED
      BY <3>2, <3>3
  <2>2. ASSUME NEW x \in Tokens(g) PROVE x \in Tokens(more)
    <3>1. PICK i \in Handles, k \in Nat : x = <<i, k>> /\ 1 <= k /\ k <= g[i]
      BY <2>2, TokenOf
    <3>2. k <= more[i]
      BY <1>1, <3>1
    <3> QED
      BY <1>1, <3>1, <3>2, TokenOf
  <2>3. new \in Tokens(more)
    <3>1. more[h] = g[h] + 1 /\ 1 <= g[h] + 1 /\ g[h] + 1 <= more[h] /\ g[h] + 1 \in Nat
      BY <1>1
    <3> QED
      BY <1>1, <3>1, TokenOf
  <2> QED
    BY <2>1, <2>2, <2>3
<1>4. /\ IsFiniteSet(Tokens(g) \cup {new})
      /\ Cardinality(Tokens(g) \cup {new}) = Cardinality(Tokens(g)) + 1
  BY <1>2, FS_AddElement
<1> HIDE DEF new
<1> QED
  BY <1>3, <1>4

\* mmreg_unlock and mmreg_close take the newest one off.
LEMMA TokensPop ==
    ASSUME NEW g \in [Handles -> Nat], NEW h \in Handles, g[h] > 0, IsFiniteSet(Tokens(g))
    PROVE  /\ IsFiniteSet(Tokens([g EXCEPT ![h] = @ - 1]))
           /\ Cardinality(Tokens([g EXCEPT ![h] = @ - 1])) = Cardinality(Tokens(g)) - 1
<1> DEFINE fewer == [g EXCEPT ![h] = @ - 1]
           top == <<h, g[h]>>
<1>1. fewer \in [Handles -> Nat] /\ g[h] \in Nat
  OBVIOUS
<1>2. top \in Tokens(g)
  <2>1. 1 <= g[h] /\ g[h] <= g[h]
    BY <1>1
  <2> QED
    BY <1>1, <2>1, TokenOf
<1>3. Tokens(fewer) = Tokens(g) \ {top}
  <2>1. ASSUME NEW x \in Tokens(fewer) PROVE x \in Tokens(g) \ {top}
    <3>1. PICK i \in Handles, k \in Nat : x = <<i, k>> /\ 1 <= k /\ k <= fewer[i]
      BY <1>1, <2>1, TokenOf
    <3>2. k <= g[i] /\ x # top
      BY <1>1, <3>1
    <3> QED
      BY <3>1, <3>2, TokenOf
  <2>2. ASSUME NEW x \in Tokens(g) \ {top} PROVE x \in Tokens(fewer)
    <3>1. PICK i \in Handles, k \in Nat : x = <<i, k>> /\ 1 <= k /\ k <= g[i]
      BY <2>2, TokenOf
    <3>2. k <= fewer[i]
      BY <1>1, <2>2, <3>1
    <3> QED
      BY <1>1, <3>1, <3>2, TokenOf
  <2> QED
    BY <2>1, <2>2
<1> QED
  BY <1>2, <1>3, FS_RemoveElement, ZenonT(60)

\* No tokens, no guards.
LEMMA NoTokens ==
    ASSUME NEW g \in [Handles -> Nat], IsFiniteSet(Tokens(g)), Cardinality(Tokens(g)) = 0
    PROVE  \A h \in Handles : g[h] = 0
<1>1. Tokens(g) = {}
  BY FS_EmptySet
<1> SUFFICES ASSUME NEW h \in Handles, g[h] # 0 PROVE FALSE
  OBVIOUS
<1>2. g[h] \in Nat /\ 1 \in Nat /\ 1 <= 1 /\ 1 <= g[h]
  OBVIOUS
<1>3. <<h, 1>> \in Tokens(g)
  BY <1>2, TokenOf
<1> QED
  BY <1>1, <1>3

-----------------------------------------------------------------------------
(* The C ABI. *)

\* The lock has an owner while it is held; who has a guard in hand is that owner.
OwnerInv ==
    /\ depth = 0 <=> owner = NoThread
    /\ \A t \in Threads : pc[t] \in {"push", "drop"} => owner = t

\* A call is on an open handle, but for the one that is closing it.
CallInv == \A t \in Threads :
    /\ pc[t] = "idle" <=> at[t] = NoHandle
    /\ pc[t] \in {"lock", "access", "push", "drop"} => at[t] \in open
    /\ pc[t] = "close" => at[t] \in Handles \ open

\* The guards on the stack of an open handle are the sequences of the lock's owner;
\* those of a handle that is not open are being dropped.
SequenceInv == \A h \in Handles :
    IF h \in open
    THEN \A t \in Threads : sequences[t][h] = IF t = owner THEN guards[h] ELSE 0
    ELSE /\ \A t \in Threads : sequences[t][h] = 0
         /\ guards[h] > 0 => \E t \in Threads : pc[t] = "close" /\ at[t] = h

CountInv == IsFiniteSet(Stacked) /\ GuardsMatchDepth

CInv == TypeOK /\ OwnerInv /\ CallInv /\ SequenceInv /\ CountInv

LEMMA FlyingAlone ==
    ASSUME NEW t \in Threads
    PROVE  Cardinality({t}) = 1 /\ Cardinality({}) = 0
  BY FS_Singleton, FS_EmptySet

\* With the counts: a lock nobody owns has no guards on any stack and none in hand, and
\* one in hand is the only one.
LEMMA Counted ==
    ASSUME CInv
    PROVE  /\ IsFiniteSet(Tokens(guards)) /\ Cardinality(Tokens(guards)) \in Nat
           /\ depth = Cardinality(Tokens(guards)) + Cardinality(Flying(pc))
           /\ \A t \in Threads : pc[t] \in {"push", "drop"} =>
                Flying(pc) = {t} /\ depth = Cardinality(Tokens(guards)) + 1
           /\ (\A t \in Threads : pc[t] \notin {"push", "drop"}) =>
                Flying(pc) = {} /\ depth = Cardinality(Tokens(guards))
           /\ owner = NoThread => \A h \in Handles : guards[h] = 0
<1> USE DEF CInv
<1>1. /\ IsFiniteSet(Tokens(guards)) /\ Cardinality(Tokens(guards)) \in Nat
      /\ depth = Cardinality(Tokens(guards)) + Cardinality(Flying(pc))
  BY StackedTokens, FS_CardinalityType DEF CountInv, GuardsMatchDepth
<1>2. ASSUME NEW t \in Threads, pc[t] \in {"push", "drop"}
      PROVE  Flying(pc) = {t} /\ depth = Cardinality(Tokens(guards)) + 1
  <2>1. Flying(pc) = {t}
    BY <1>2 DEF Flying, OwnerInv
  <2> QED
    BY <1>1, <2>1, FS_Singleton
<1>3. ASSUME \A t \in Threads : pc[t] \notin {"push", "drop"}
      PROVE  Flying(pc) = {} /\ depth = Cardinality(Tokens(guards))
  <2>1. Flying(pc) = {}
    BY <1>3 DEF Flying
  <2> QED
    BY <1>1, <2>1, FS_EmptySet
<1>4. ASSUME owner = NoThread PROVE \A h \in Handles : guards[h] = 0
  <2>1. \A t \in Threads : pc[t] \notin {"push", "drop"}
    BY <1>4, CApiAssumption DEF OwnerInv
  <2>2. Cardinality(Tokens(guards)) = 0
    BY <1>3, <1>4, <2>1 DEF OwnerInv
  <2> QED
    BY <1>1, <2>2, NoTokens DEF TypeOK
<1> QED
  BY <1>1, <1>2, <1>3, <1>4

LEMMA InitCInv == Init => CInv
<1> SUFFICES ASSUME Init PROVE CInv
  OBVIOUS
<1>1. TypeOK /\ OwnerInv /\ CallInv /\ SequenceInv
  BY CApiAssumption DEF Init, TypeOK, OwnerInv, CallInv, SequenceInv
<1>2. Stacked = {} /\ InFlight = {}
  BY DEF Init, Stacked, InFlight
<1>3. CountInv
  BY <1>2, FS_EmptySet DEF Init, CountInv, GuardsMatchDepth
<1> QED
  BY <1>1, <1>3 DEF CInv

\* What neither touches the stacks nor takes or drops a guard keeps the count.
LEMMA CountKept ==
    ASSUME CInv, UNCHANGED <<guards, depth>>,
           \A t \in Threads : pc'[t] \in {"push", "drop"} <=> pc[t] \in {"push", "drop"}
    PROVE  CountInv'
<1>1. Stacked' = Stacked
  BY DEF Stacked
<1>2. InFlight' = InFlight
  BY DEF InFlight
<1> QED
  BY <1>1, <1>2 DEF CInv, CountInv, GuardsMatchDepth

\* The counts after a step, from those of its tokens.
LEMMA CountOf ==
    ASSUME IsFiniteSet(Tokens(guards')),
           depth' = Cardinality(Tokens(guards')) + Cardinality(Flying(pc'))
    PROVE  CountInv'
<1>1. Stacked' = Tokens(guards') /\ InFlight' = Flying(pc')
  BY DEF Stacked, Tokens, InFlight, Flying
<1> QED
  BY <1>1 DEF CountInv, GuardsMatchDepth

\* Calls that begin, and calls that fail: the lock stays as it is.
LEMMA QuietKeepsCInv ==
    ASSUME CInv, NEW t \in Threads, NEW h \in Handles,
           \/ Open(t, h) \/ CallLock(t, h) \/ CallAccess(t, h) \/ Close(t, h)
           \/ AcquireFails(t) \/ FinishClose(t)
    PROVE  CInv'
<1> USE DEF CInv
<1>1. CASE Open(t, h)
  <2>1. TypeOK' /\ OwnerInv' /\ CallInv'
    BY <1>1, CApiAssumption DEF Open, TypeOK, OwnerInv, CallInv
  <2>2. guards[h] = 0 /\ \A u \in Threads : sequences[u][h] = 0
    BY <1>1 DEF Open, SequenceInv, TypeOK
  <2>3. SequenceInv'
    BY <1>1, <2>2 DEF Open, SequenceInv
  <2>4. CountInv'
    BY <1>1, CountKept DEF Open
  <2> QED
    BY <2>1, <2>3, <2>4
<1>2. CASE CallLock(t, h) \/ CallAccess(t, h)
  <2> USE DEF CallLock, CallAccess, Call, Go
  <2>1. TypeOK' /\ OwnerInv'
    <3>1. calls' \in [Threads -> 0..MaxCalls]
      BY <1>2, CApiAssumption DEF TypeOK
    <3>2. pc' \in [Threads -> {"idle", "lock", "access", "push", "drop", "close"}]
      BY <1>2 DEF TypeOK
    <3>3. at' \in [Threads -> Handles \cup {NoHandle}]
      BY <1>2 DEF TypeOK
    <3>4. OwnerInv'
      BY <1>2 DEF TypeOK, OwnerInv
    <3> QED
      BY <1>2, <3>1, <3>2, <3>3, <3>4 DEF TypeOK
  <2>2. CallInv'
    BY <1>2, CApiAssumption DEF TypeOK, CallInv
  <2>3. SequenceInv'
    BY <1>2 DEF TypeOK, SequenceInv
  <2>4. CountInv'
    BY <1>2, CountKept DEF TypeOK
  <2> QED
    BY <2>1, <2>2, <2>3, <2>4
<1>3. CASE Close(t, h)
  <2> USE DEF Close, Call, Go
  <2>1. TypeOK' /\ OwnerInv'
    <3>1. \A u \in Threads : [sequences[u] EXCEPT ![h] = 0] \in [Handles -> Nat]
      BY DEF TypeOK
    <3>2. sequences' \in [Threads -> [Handles -> Nat]]
      BY <1>3, <3>1
    <3>3. TypeOK'
      BY <1>3, <3>2, CApiAssumption DEF TypeOK
    <3>4. OwnerInv'
      BY <1>3 DEF TypeOK, OwnerInv
    <3> QED
      BY <3>3, <3>4
  <2>2. CallInv'
    BY <1>3, CApiAssumption DEF TypeOK, CallInv
  <2>3. SequenceInv'
    BY <1>3 DEF TypeOK, SequenceInv
  <2>4. CountInv'
    BY <1>3, CountKept DEF TypeOK
  <2> QED
    BY <2>1, <2>2, <2>3, <2>4
<1>4. CASE AcquireFails(t) \/ FinishClose(t)
  <2> USE DEF AcquireFails, FinishClose, Return, Go
  <2>1. TypeOK' /\ OwnerInv'
    BY <1>4, CApiAssumption DEF TypeOK, OwnerInv
  <2>2. CallInv'
    BY <1>4, CApiAssumption DEF TypeOK, CallInv
  <2>3. SequenceInv'
    BY <1>4 DEF TypeOK, SequenceInv
  <2>4. CountInv'
    BY <1>4, CountKept DEF TypeOK
  <2> QED
    BY <2>1, <2>2, <2>3, <2>4
<1> QED
  BY <1>1, <1>2, <1>3, <1>4

LEMMA AcquireKeepsCInv ==
    ASSUME CInv, NEW t \in Threads, Acquire(t)
    PROVE  CInv'
<1> USE DEF CInv, Acquire, Go
<1>1. TypeOK' /\ OwnerInv' /\ CallInv'
  <2>1. TypeOK'
    BY DEF TypeOK
  <2>2. OwnerInv'
    BY CApiAssumption DEF TypeOK, OwnerInv
  <2>3. CallInv'
    BY DEF TypeOK, CallInv
  <2> QED
    BY <2>1, <2>2, <2>3
\* An owner that was not there before has no guards on any stack.
<1>2. SequenceInv'
  <2>1. CASE owner = t
    BY <2>1 DEF TypeOK, SequenceInv
  <2>2. CASE owner = NoThread
    BY <2>2, Counted, CApiAssumption DEF TypeOK, SequenceInv
  <2> QED
    BY <2>1, <2>2
<1>3. CountInv'
  <2>1. \A u \in Threads : pc[u] \notin {"push", "drop"}
    BY CApiAssumption DEF OwnerInv
  <2>2. Flying(pc') = {t}
    BY <2>1 DEF Flying, TypeOK
  <2>3. Cardinality(Flying(pc')) = 1
    BY <2>2, FS_Singleton
  <2> QED
    BY <2>1, <2>3, Counted, CountOf
<1> QED
  BY <1>1, <1>2, <1>3

LEMMA PushKeepsCInv ==
    ASSUME CInv, NEW t \in Threads, Push(t)
    PROVE  CInv'
<1> DEFINE h == at[t]
<1> USE DEF CInv, Push, Return, Go
<1>1. h \in open /\ h \in Handles /\ owner = t
  BY DEF CallInv, OwnerInv, TypeOK
<1>2. TypeOK'
  BY <1>1 DEF TypeOK
<1>3. OwnerInv' /\ CallInv'
  BY <1>1, CApiAssumption DEF TypeOK, OwnerInv, CallInv
<1>4. SequenceInv'
  BY <1>1 DEF TypeOK, SequenceInv
<1>5. CountInv'
  <2>1. Flying(pc') = {} /\ Cardinality(Flying(pc')) = 0
    <3>1. Flying(pc') = {}
      BY <1>1, CApiAssumption DEF Flying, TypeOK, OwnerInv
    <3> QED
      BY <3>1, FS_EmptySet
  <2>2. IsFiniteSet(Tokens(guards')) /\ Cardinality(Tokens(guards')) = Cardinality(Tokens(guards)) + 1
    BY <1>1, Counted, TokensPush DEF TypeOK
  <2>3. depth = Cardinality(Tokens(guards)) + 1 /\ Cardinality(Tokens(guards)) \in Nat
    BY Counted
  <2> QED
    BY <2>1, <2>2, <2>3, CountOf
<1> QED
  BY <1>2, <1>3, <1>4, <1>5

LEMMA UnlockKeepsCInv ==
    ASSUME CInv, NEW t \in Threads, NEW h \in Handles, Unlock(t, h)
    PROVE  CInv'
<1> USE DEF CInv, Unlock, Go
<1>1. sequences[t][h] = guards[h] /\ guards[h] > 0 /\ guards[h] \in Nat
  BY DEF SequenceInv, TypeOK
<1>2. TypeOK'
  BY <1>1 DEF TypeOK
<1>3. OwnerInv'
  BY CApiAssumption DEF TypeOK, OwnerInv
<1>4. CallInv'
  BY CApiAssumption DEF TypeOK, CallInv
<1>5. SequenceInv'
  BY <1>1 DEF TypeOK, SequenceInv
<1>6. CountInv'
  <2>1. \A u \in Threads : pc[u] \notin {"push", "drop"}
    BY DEF OwnerInv
  <2>2. Flying(pc') = {t} /\ Cardinality(Flying(pc')) = 1
    <3>1. Flying(pc') = {t}
      BY <2>1 DEF Flying, TypeOK
    <3> QED
      BY <3>1, FS_Singleton
  <2>3. IsFiniteSet(Tokens(guards')) /\ Cardinality(Tokens(guards')) = Cardinality(Tokens(guards)) - 1
    BY <1>1, Counted, TokensPop DEF TypeOK
  <2>4. depth = Cardinality(Tokens(guards)) /\ Cardinality(Tokens(guards)) \in Nat
    BY <2>1, Counted
  <2> QED
    BY <2>2, <2>3, <2>4, CountOf
<1> QED
  BY <1>2, <1>3, <1>4, <1>5, <1>6

\* Dropping a guard, in hand or of a stack that is being closed: the last one frees the
\* lock, and then no stack holds one.
LEMMA DropGuardKeepsCInv ==
    ASSUME CInv, NEW t \in Threads, DropGuard(t)
    PROVE  CInv'
<1> USE DEF CInv, DropGuard, Release, Return, Go
<1>1. /\ depth = Cardinality(Tokens(guards)) + 1 /\ Cardinality(Tokens(guards)) \in Nat
      /\ IsFiniteSet(Tokens(guards)) /\ Flying(pc) = {t} /\ owner = t
  BY Counted DEF OwnerInv
<1>2. \A u \in Threads : u # t => pc[u] \notin {"push", "drop"}
  BY <1>1 DEF OwnerInv
<1>3. TypeOK'
  BY <1>1 DEF TypeOK
<1>4. OwnerInv'
  BY <1>1, <1>2, CApiAssumption DEF TypeOK, OwnerInv
<1>5. CallInv'
  BY CApiAssumption DEF TypeOK, CallInv
<1>6. SequenceInv'
  <2>1. CASE depth = 1
    <3>1. Cardinality(Tokens(guards)) = 0 /\ guards \in [Handles -> Nat]
      BY <1>1, <2>1 DEF TypeOK
    <3>2. \A h \in Handles : guards[h] = 0
      BY <1>1, <3>1, NoTokens
    <3> QED
      BY <2>1, <3>2 DEF TypeOK, SequenceInv
  <2>2. CASE depth # 1
    BY <2>2 DEF TypeOK, SequenceInv
  <2> QED
    BY <2>1, <2>2
<1>7. CountInv'
  <2>1. Flying(pc') = {}
    BY <1>2 DEF Flying, TypeOK
  <2>2. Cardinality(Flying(pc')) = 0
    BY <2>1, FS_EmptySet
  <2> QED
    BY <1>1, <2>2, CountOf
<1> QED
  BY <1>3, <1>4, <1>5, <1>6, <1>7

LEMMA CloseGuardKeepsCInv ==
    ASSUME CInv, NEW t \in Threads, CloseGuard(t)
    PROVE  CInv'
<1> DEFINE h == at[t]
<1> USE DEF CInv, CloseGuard, Release
<1>1. h \in Handles \ open /\ guards[h] \in Nat /\ guards[h] > 0
  BY DEF CallInv, TypeOK
<1>2. /\ IsFiniteSet(Tokens(guards')) /\ Cardinality(Tokens(guards')) \in Nat
      /\ Cardinality(Tokens(guards')) = Cardinality(Tokens(guards)) - 1
  BY <1>1, Counted, TokensPop, FS_CardinalityType DEF TypeOK
<1>3. guards' \in [Handles -> Nat]
  BY <1>1 DEF TypeOK
<1>4. Flying(pc') = Flying(pc) /\ Cardinality(Flying(pc)) \in Nat /\ Cardinality(Tokens(guards)) \in Nat
  <2>1. Flying(pc) = {} \/ \E u \in Threads : Flying(pc) = {u}
    BY Counted
  <2>2. CASE Flying(pc) = {}
    BY <2>2, Counted, FS_EmptySet
  <2>3. ASSUME NEW u \in Threads, Flying(pc) = {u} PROVE Cardinality(Flying(pc)) \in Nat
    <3>1. Cardinality({u}) = 1
      BY FS_Singleton
    <3> QED
      BY <2>3, <3>1
  <2> QED
    BY <2>1, <2>2, <2>3, Counted
<1>5. /\ depth = Cardinality(Tokens(guards)) + Cardinality(Flying(pc)) /\ depth \in Nat /\ depth # 0
      /\ depth' = Cardinality(Tokens(guards')) + Cardinality(Flying(pc'))
  BY <1>2, <1>4, Counted DEF TypeOK
<1>6. ASSUME depth = 1 PROVE /\ \A i \in Handles : guards'[i] = 0
                             /\ \A u \in Threads : pc[u] \notin {"push", "drop"}
  <2>1. Cardinality(Tokens(guards')) = 0 /\ Cardinality(Flying(pc)) = 0
    BY <1>2, <1>4, <1>5, <1>6
  <2>2. \A u \in Threads : pc[u] \notin {"push", "drop"}
    <3>1. ASSUME NEW u \in Threads, pc[u] \in {"push", "drop"} PROVE FALSE
      <4>1. Flying(pc) = {u}
        BY <3>1, Counted
      <4>2. Cardinality({u}) = 1
        BY FS_Singleton
      <4> QED
        BY <2>1, <4>1, <4>2
    <3> QED
      BY <3>1
  <2> QED
    BY <1>2, <1>3, <2>1, <2>2, NoTokens
<1>7. TypeOK'
  <2>1. depth' \in Nat
    BY <1>2, <1>4, <1>5
  <2>2. owner' \in Threads \cup {NoThread}
    BY DEF TypeOK
  <2> QED
    BY <1>3, <2>1, <2>2 DEF TypeOK
<1>8. OwnerInv'
  BY <1>5, <1>6 DEF TypeOK, OwnerInv
<1>9. CallInv'
  BY DEF CallInv
<1>10. SequenceInv'
  <2>1. CASE depth = 1
    <3>1. \A i \in Handles : i # h => guards'[i] = guards[i]
      BY <1>1 DEF TypeOK
    <3> QED
      BY <1>1, <1>6, <2>1, <3>1 DEF TypeOK, SequenceInv
  <2>2. CASE depth # 1
    BY <1>1, <2>2 DEF TypeOK, SequenceInv
  <2> QED
    BY <2>1, <2>2
<1>11. CountInv'
  BY <1>2, <1>5, CountOf
<1> QED
  BY <1>7, <1>8, <1>9, <1>10, <1>11

LEMMA NextCInv == CInv /\ [Next]_vars => CInv'
<1> SUFFICES ASSUME CInv, [Next]_vars PROVE CInv'
  OBVIOUS
<1>1. ASSUME NEW t \in Threads, Step(t) PROVE CInv'
  <2>1. CASE FinishClose(t)
    <3>1. at[t] \in Handles
      BY <2>1 DEF FinishClose, CInv, CallInv
    <3> QED
      BY <2>1, <3>1, QuietKeepsCInv
  <2>2. ASSUME NEW h \in Handles, Unlock(t, h) PROVE CInv'
    BY <2>2, UnlockKeepsCInv
  <2> QED
    BY <1>1, <2>1, <2>2, AcquireKeepsCInv, PushKeepsCInv, DropGuardKeepsCInv, CloseGuardKeepsCInv
       DEF Step
<1>2. ASSUME NEW t \in Threads, Environment(t) PROVE CInv'
  <2>1. CASE AcquireFails(t)
    <3>1. at[t] \in Handles
      BY <2>1 DEF AcquireFails, CInv, CallInv, TypeOK
    <3> QED
      BY <2>1, <3>1, QuietKeepsCInv
  <2>2. ASSUME NEW h \in Handles, Open(t, h) \/ CallLock(t, h) \/ CallAccess(t, h) \/ Close(t, h)
        PROVE  CInv'
    BY <2>2, QuietKeepsCInv
  <2> QED
    BY <1>2, <2>1, <2>2 DEF Environment
<1>3. CASE UNCHANGED vars
  BY <1>3 DEF vars, CInv, TypeOK, OwnerInv, CallInv, SequenceInv, CountInv, GuardsMatchDepth,
              Stacked, InFlight
<1> QED
  BY <1>1, <1>2, <1>3 DEF Next

LEMMA CInvHolds == Spec => []CInv
  BY InitCInv, NextCInv, PTL DEF Spec

LEMMA CInvProperties == CInv => HeldUntilUnlock /\ GuardsMatchDepth
  BY DEF CInv, TypeOK, SequenceInv, CountInv, HeldUntilUnlock

\* A sequence that mmreg_lock began is the caller's until its own mmreg_unlock or
\* mmreg_close, however other threads open, lock, access, unlock and close handles.
THEOREM HeldUntilUnlockHolds == Spec => []HeldUntilUnlock
  BY CInvHolds, CInvProperties, PTL

\* mmreg_dev's guard stacks never leak a guard or drop one too many, mmreg_close in
\* the middle of a sequence included.
THEOREM GuardsMatchDepthHolds == Spec => []GuardsMatchDepth
  BY CInvHolds, CInvProperties, PTL

-----------------------------------------------------------------------------
(* The Python binding's with blocks, when no LockGuard is entered while it is in use. *)

PyType ==
    /\ py \in [Threads -> {"run", "enter", "locked", "leave"}]
    /\ guard \in [Threads -> Guards \cup {NoGuard}]
    /\ \A t \in Threads : guard[t] = NoGuard <=> py[t] = "run"
    /\ active \subseteq Guards
    /\ blocks \in [Threads -> Seq(Guards)]
    /\ closed \subseteq Handles

\* Where the C call that __enter__ or __exit__ makes can be.
PhaseInv == \A t \in Threads :
    /\ py[t] = "run" => pc[t] \notin {"lock", "push"}
    /\ py[t] = "enter" => pc[t] \in {"lock", "push"} /\ at[t] = GuardDevice[guard[t]]
    /\ py[t] \in {"locked", "leave"} => pc[t] = "idle"

\* A guard in use is of a Device that is open or was closed meanwhile.
DeviceInv ==
    /\ open \cap closed = {}
    /\ \A t \in Threads :
        /\ guard[t] # NoGuard => GuardDevice[guard[t]] \in open \cup closed
        /\ \A k \in 1..Len(blocks[t]) : GuardDevice[blocks[t][k]] \in open \cup closed

\* No guard is in use twice.
OnceInv == \A t, u \in Threads :
    /\ guard[t] = guard[u] /\ guard[t] # NoGuard => t = u
    /\ \A j \in 1..Len(blocks[t]) : blocks[t][j] # guard[u]
    /\ \A j \in 1..Len(blocks[t]), k \in 1..Len(blocks[u]) :
        blocks[t][j] = blocks[u][k] => t = u /\ j = k

ActiveInv == \A t \in Threads : \A k \in 1..Len(blocks[t]) : blocks[t][k] \in active

\* The block that is about to begin, or that has ended but not yet unlocked.
Pending(t, h) == IF py[t] \in {"locked", "leave"} /\ GuardDevice[guard[t]] = h THEN 1 ELSE 0

\* The sequences of a thread on an open Device are its blocks on it.
BlockInv == \A t \in Threads : \A h \in open :
    sequences[t][h] = Cardinality(BlocksOn(t, h)) + Pending(t, h)

PyInv == PyType /\ PhaseInv /\ DeviceInv /\ OnceInv /\ ActiveInv /\ BlockInv

\* Where a write of the inline register is, against the C call that makes it.
WriteInv ==
    /\ write \in [Threads -> {"idle", "lock", "write"}]
    /\ \A t \in Threads :
        /\ write[t] = "lock" => pc[t] = "access" /\ py[t] = "run"
        /\ write[t] = "write" => pc[t] = "drop"

LEMMA FrontAndLast ==
    ASSUME NEW s \in Seq(Guards), s # <<>>
    PROVE  /\ Len(s) \in Nat /\ Len(s) >= 1
           /\ Front(s) \in Seq(Guards) /\ Len(Front(s)) = Len(s) - 1
           /\ \A k \in 1..Len(s) - 1 : Front(s)[k] = s[k]
           /\ Last(s) = s[Len(s)] /\ Last(s) \in Guards
<1>1. Len(s) \in Nat /\ Len(s) >= 1
  OBVIOUS
<1>2. /\ Front(s) \in Seq(Guards) /\ Len(Front(s)) = Len(s) - 1
      /\ \A k \in 1..Len(s) - 1 : Front(s)[k] = s[k]
  <2> DEFINE n == Len(s)
  <2>1. /\ n - 1 \in Int /\ 1 \in Int /\ n - 1 - 1 + 1 = n - 1
        /\ \A k \in 1..n - 1 : s[k] \in Guards /\ 1 + k - 1 = k
        /\ (IF 1 <= n - 1 THEN n - 1 - 1 + 1 ELSE 0) = n - 1
    <3>1. \A k \in 1..n - 1 : s[k] \in Guards
      BY <1>1
    <3>2. n \in Nat /\ n >= 1
      BY <1>1
    <3> HIDE DEF n
    <3> QED
      BY <3>1, <3>2
  <2>2. /\ SubSeq(s, 1, Len(s) - 1) \in Seq(Guards)
        /\ Len(SubSeq(s, 1, Len(s) - 1)) = IF 1 <= Len(s) - 1 THEN Len(s) - 1 - 1 + 1 ELSE 0
        /\ \A k \in 1..Len(s) - 1 - 1 + 1 : SubSeq(s, 1, Len(s) - 1)[k] = s[1 + k - 1]
    BY <2>1, SubSeqProperties
  <2> QED
    BY <2>1, <2>2 DEF Front
<1>3. Last(s) = s[Len(s)] /\ Last(s) \in Guards
  BY <1>1 DEF Last
<1> QED
  BY <1>1, <1>2, <1>3

\* BlocksOn, of any stack of with blocks.
On(s, h) == {k \in 1..Len(s) : GuardDevice[s[k]] = h}

Is(g, h) == IF GuardDevice[g] = h THEN 1 ELSE 0

LEMMA OnFinite ==
    ASSUME NEW s \in Seq(Guards), NEW h
    PROVE  IsFiniteSet(On(s, h)) /\ Cardinality(On(s, h)) \in Nat
<1>1. IsFiniteSet(1..Len(s))
  BY FS_Interval
<1>2. On(s, h) \subseteq 1..Len(s)
  BY DEF On
<1>3. IsFiniteSet(On(s, h))
  BY <1>1, <1>2, FS_Subset
<1> QED
  BY <1>3, FS_CardinalityType

LEMMA OnNone ==
    ASSUME NEW s \in Seq(Guards), NEW h, \A k \in 1..Len(s) : GuardDevice[s[k]] # h
    PROVE  Cardinality(On(s, h)) = 0
<1>1. On(s, h) = {}
  BY DEF On
<1> QED
  BY <1>1, FS_EmptySet

\* __enter__ adds a block ...
LEMMA OnAppend ==
    ASSUME NEW s \in Seq(Guards), NEW g \in Guards, NEW h
    PROVE  Cardinality(On(Append(s, g), h)) = Cardinality(On(s, h)) + Is(g, h)
<1>1. Len(s) \in Nat /\ Len(s) + 1 \notin On(s, h)
  BY DEF On
<1>2. CASE GuardDevice[g] = h
  <2>1. On(Append(s, g), h) = On(s, h) \cup {Len(s) + 1}
    BY <1>1, <1>2 DEF On
  <2>2. Cardinality(On(s, h) \cup {Len(s) + 1}) = Cardinality(On(s, h)) + 1
    BY <1>1, OnFinite, FS_AddElement
  <2> QED
    BY <1>2, <2>1, <2>2 DEF Is
<1>3. CASE GuardDevice[g] # h
  <2>1. On(Append(s, g), h) = On(s, h)
    BY <1>1, <1>3 DEF On
  <2> QED
    BY <1>3, <2>1, OnFinite DEF Is
<1> QED
  BY <1>2, <1>3

\* ... and __exit__ ends the innermost.
LEMMA OnFront ==
    ASSUME NEW s \in Seq(Guards), s # <<>>, NEW h
    PROVE  Cardinality(On(s, h)) = Cardinality(On(Front(s), h)) + Is(Last(s), h)
<1>1. /\ Len(s) \in Nat /\ Len(s) >= 1 /\ Front(s) \in Seq(Guards) /\ Len(Front(s)) = Len(s) - 1
      /\ \A k \in 1..Len(s) - 1 : Front(s)[k] = s[k]
      /\ Last(s) = s[Len(s)]
  BY FrontAndLast
<1>2. On(Front(s), h) = On(s, h) \ {Len(s)}
  BY <1>1 DEF On
<1>3. CASE GuardDevice[Last(s)] = h
  <2>1. Len(s) \in On(s, h)
    BY <1>1, <1>3 DEF On
  <2>2. Cardinality(On(s, h) \ {Len(s)}) = Cardinality(On(s, h)) - 1
    BY <2>1, OnFinite, FS_RemoveElement
  <2>3. Cardinality(On(s, h)) \in Nat /\ Is(Last(s), h) = 1
    BY <1>3, OnFinite DEF Is
  <2>4. Cardinality(On(Front(s), h)) = Cardinality(On(s, h)) - 1
    BY <1>2, <2>2
  <2> QED
    BY <2>3, <2>4
<1>4. CASE GuardDevice[Last(s)] # h
  <2>1. On(s, h) \ {Len(s)} = On(s, h)
    BY <1>1, <1>4 DEF On
  <2>2. Cardinality(On(s, h)) \in Nat /\ Is(Last(s), h) = 0
    BY <1>4, OnFinite DEF Is
  <2>3. Cardinality(On(Front(s), h)) = Cardinality(On(s, h))
    BY <1>2, <2>1
  <2> QED
    BY <2>2, <2>3
<1> QED
  BY <1>3, <1>4

\* Every step of a Python program is one of the C ABI, or none.
LEMMA PyNextIsNext ==
    ASSUME PyType, [PyNext]_<<vars, pyvars, regvars>>
    PROVE  [Next]_vars
<1>1. ASSUME NEW t \in Threads, PyStep(t) \/ EnterFails(t) \/ AccessFails(t) PROVE [Next]_vars
  <2>1. CASE Begin(t) \/ Leave(t) \/ ReleaseFails(t) \/ StoreRegister(t)
    BY <2>1 DEF Begin, Leave, ReleaseFails, StoreRegister
  <2>2. CASE Unlocks(t)
    <3>1. GuardDevice[guard[t]] \in Handles
      BY <2>2, PyAssumption DEF Unlocks, PyType
    <3> QED
      BY <2>2, <3>1 DEF Unlocks, Step, Next
  <2>3. CASE Locked(t) \/ InC(t) \/ LoadRegister(t)
    BY <2>3 DEF Locked, InC, LoadRegister, Step, Next
  <2>4. CASE EnterFails(t) \/ AccessFails(t)
    BY <2>4 DEF EnterFails, AccessFails, Environment, Next
  <2> QED
    BY <1>1, <2>1, <2>2, <2>3, <2>4 DEF PyStep
<1>2. ASSUME NEW t \in Threads, NEW h \in Handles,
             OpenDevice(t, h) \/ Access(t, h) \/ AccessRegister(t, h) \/ CloseDevice(t, h)
      PROVE  [Next]_vars
  BY <1>2 DEF OpenDevice, Access, AccessRegister, CloseDevice, Environment, Next
<1>3. ASSUME NEW t \in Threads, NEW g \in Guards, Enter(t, g) PROVE [Next]_vars
  <2>1. GuardDevice[g] \in Handles
    BY PyAssumption
  <2> QED
    BY <1>3, <2>1 DEF Enter, Environment, Next
<1>4. CASE Event
  BY <1>4 DEF Event
<1>5. CASE UNCHANGED <<vars, pyvars, regvars>>
  BY <1>5
<1> QED
  BY <1>1, <1>2, <1>3, <1>4, <1>5 DEF PyNext

LEMMA PyTypeStep == PyType /\ [PyNext]_<<vars, pyvars, regvars>> => PyType'
<1> SUFFICES ASSUME PyType, [PyNext]_<<vars, pyvars, regvars>> PROVE PyType'
  OBVIOUS
<1> USE DEF PyType, pyvars
<1>1. ASSUME NEW t \in Threads, Locked(t) PROVE PyType'
  BY <1>1 DEF Locked, Moves
<1>2. ASSUME NEW t \in Threads, EnterFails(t) \/ Unlocks(t) \/ ReleaseFails(t) PROVE PyType'
  BY <1>2, PyAssumption DEF EnterFails, Unlocks, ReleaseFails, Returns, Moves
<1>3. ASSUME NEW t \in Threads, Begin(t) PROVE PyType'
  <2>1. guard[t] \in Guards
    BY <1>3 DEF Begin
  <2>2. Append(blocks[t], guard[t]) \in Seq(Guards)
    BY <2>1
  <2>3. blocks' \in [Threads -> Seq(Guards)]
    BY <1>3, <2>2 DEF Begin
  <2> QED
    BY <1>3, <2>1, <2>3, PyAssumption DEF Begin, Returns, Moves
<1>4. ASSUME NEW t \in Threads, Leave(t) PROVE PyType'
  <2>1. Front(blocks[t]) \in Seq(Guards) /\ Last(blocks[t]) \in Guards
    BY <1>4, FrontAndLast DEF Leave
  <2>2. blocks' \in [Threads -> Seq(Guards)]
    BY <1>4, <2>1 DEF Leave, Pop
  <2> QED
    BY <1>4, <2>1, <2>2, PyAssumption DEF Leave, Moves
<1>5. ASSUME NEW t \in Threads,
             InC(t) \/ LoadRegister(t) \/ StoreRegister(t) \/ AccessFails(t)
      PROVE  PyType'
  BY <1>5 DEF InC, LoadRegister, StoreRegister, AccessFails
<1>6. ASSUME NEW t \in Threads, NEW h \in Handles,
             OpenDevice(t, h) \/ Access(t, h) \/ AccessRegister(t, h) \/ CloseDevice(t, h)
      PROVE  PyType'
  BY <1>6 DEF OpenDevice, Access, AccessRegister, CloseDevice
<1>7. ASSUME NEW t \in Threads, NEW g \in Guards, Enter(t, g) PROVE PyType'
  BY <1>7, PyAssumption DEF Enter, Moves
<1>8. CASE Event \/ UNCHANGED <<vars, pyvars, regvars>>
  BY <1>8 DEF Event
<1> QED
  BY <1>1, <1>2, <1>3, <1>4, <1>5, <1>6, <1>7, <1>8 DEF PyNext, PyStep

LEMMA InitPyInv == PyInit => PyInv
<1> SUFFICES ASSUME PyInit PROVE PyInv
  OBVIOUS
<1> USE DEF PyInit, Init
<1>1. PyType /\ PhaseInv /\ DeviceInv /\ OnceInv /\ ActiveInv /\ BlockInv
  BY PyAssumption DEF PyType, PhaseInv, DeviceInv, OnceInv, ActiveInv, BlockInv
<1> QED
  BY <1>1 DEF PyInv

LEMMA BlocksOnIsOn == \A t \in Threads : \A h : BlocksOn(t, h) = On(blocks[t], h)
  BY DEF BlocksOn, On

\* Steps that are none of a LockGuard leave the blocks as they are.
LEMMA BlocksKept ==
    ASSUME UNCHANGED <<py, guard, active, blocks>>
    PROVE  /\ \A t \in Threads : \A h : BlocksOn(t, h)' = BlocksOn(t, h) /\ Pending(t, h)' = Pending(t, h)
           /\ OnceInv => OnceInv'
           /\ ActiveInv => ActiveInv'
  BY DEF BlocksOn, Pending, OnceInv, ActiveInv

LEMMA CallsKeepPyInv ==
    ASSUME CInv, PyInv, NEW t \in Threads, PyType',
           \/ \E h \in Handles : OpenDevice(t, h) \/ Access(t, h) \/ AccessRegister(t, h) \/ CloseDevice(t, h)
           \/ InC(t) \/ LoadRegister(t) \/ AccessFails(t)
    PROVE  PyInv'
<1> USE DEF PyInv, pyvars
<1> SUFFICES ASSUME UNCHANGED <<py, guard, active, blocks>> PROVE PhaseInv' /\ DeviceInv' /\ BlockInv'
  <2>1. UNCHANGED <<py, guard, active, blocks>>
    BY DEF OpenDevice, Access, AccessRegister, CloseDevice, InC, LoadRegister, AccessFails
  <2> QED
    BY <2>1, BlocksKept
<1>1. ASSUME NEW h \in Handles, OpenDevice(t, h) PROVE PhaseInv' /\ DeviceInv' /\ BlockInv'
  <2> USE <1>1 DEF OpenDevice, Open
  <2>1. PhaseInv' /\ DeviceInv'
    BY DEF PhaseInv, DeviceInv
  <2>2. ASSUME NEW u \in Threads
        PROVE  sequences[u][h] = 0 /\ Cardinality(BlocksOn(u, h)) = 0 /\ Pending(u, h) = 0
    <3>1. sequences[u][h] = 0
      BY DEF CInv, SequenceInv
    <3>2. \A k \in 1..Len(blocks[u]) : GuardDevice[blocks[u][k]] # h
      BY DEF DeviceInv
    <3>3. Cardinality(BlocksOn(u, h)) = 0
      BY <3>2, OnNone, BlocksOnIsOn DEF PyType
    <3>4. Pending(u, h) = 0
      BY DEF Pending, DeviceInv, PyType
    <3> QED
      BY <3>1, <3>3, <3>4
  <2>3. BlockInv'
    <3>1. ASSUME NEW u \in Threads, NEW i \in open'
          PROVE  sequences'[u][i] = Cardinality(BlocksOn(u, i)) + Pending(u, i)
      BY <2>2 DEF BlockInv
    <3> QED
      BY <3>1, BlocksKept DEF BlockInv
  <2> QED
    BY <2>1, <2>3
<1>2. ASSUME NEW h \in Handles, Access(t, h) \/ AccessRegister(t, h)
      PROVE  PhaseInv' /\ DeviceInv' /\ BlockInv'
  <2> USE <1>2 DEF Access, AccessRegister, CallAccess, Call, Go, Running
  <2>1. PhaseInv' /\ DeviceInv'
    BY DEF PhaseInv, DeviceInv, CInv, TypeOK
  <2>2. BlockInv'
    BY BlocksKept DEF BlockInv
  <2> QED
    BY <2>1, <2>2
<1>3. CASE AccessFails(t)
  <2> USE <1>3 DEF AccessFails, AcquireFails, Return, Go
  <2>1. PhaseInv' /\ DeviceInv'
    BY DEF PhaseInv, DeviceInv, CInv, TypeOK
  <2>2. BlockInv'
    BY BlocksKept DEF BlockInv
  <2> QED
    BY <2>1, <2>2
<1>4. ASSUME NEW h \in Handles, CloseDevice(t, h) PROVE PhaseInv' /\ DeviceInv' /\ BlockInv'
  <2> USE <1>4 DEF CloseDevice, Close, Call, Go, Running
  <2>1. PhaseInv'
    BY DEF PhaseInv, CInv, TypeOK
  <2>2. DeviceInv'
    BY DEF DeviceInv
  <2>3. BlockInv'
    <3>1. ASSUME NEW u \in Threads, NEW i \in open'
          PROVE  sequences'[u][i] = Cardinality(BlocksOn(u, i)) + Pending(u, i)
      <4>1. i # h /\ i \in open
        OBVIOUS
      <4>2. sequences'[u][i] = sequences[u][i]
        BY <4>1 DEF CInv, TypeOK
      <4> QED
        BY <4>1, <4>2 DEF BlockInv
    <3> QED
      BY <3>1, BlocksKept DEF BlockInv
  <2> QED
    BY <2>1, <2>2, <2>3
<1>5. CASE InC(t) \/ LoadRegister(t)
  <2>1. UNCHANGED <<open, closed, sequences>>
    BY <1>5 DEF InC, LoadRegister, Acquire, DropGuard, CloseGuard, FinishClose
  <2>2. ASSUME Acquire(t) PROVE PhaseInv'
    BY <2>2 DEF Acquire, Go, PhaseInv, CInv, TypeOK
  <2>3. ASSUME DropGuard(t) \/ FinishClose(t) PROVE PhaseInv'
    BY <2>3 DEF DropGuard, FinishClose, Return, Go, PhaseInv, PyType, CInv, TypeOK
  <2>4. ASSUME CloseGuard(t) PROVE PhaseInv'
    BY <2>4 DEF CloseGuard, PhaseInv
  <2>5. PhaseInv'
    BY <1>5, <2>2, <2>3, <2>4 DEF InC, LoadRegister
  <2>6. DeviceInv'
    BY <2>1 DEF DeviceInv
  <2>7. BlockInv'
    BY <2>1, BlocksKept DEF BlockInv
  <2> QED
    BY <2>5, <2>6, <2>7
<1> QED
  BY <1>1, <1>2, <1>3, <1>4, <1>5

LEMMA CountNat ==
    ASSUME PyType
    PROVE  \A t \in Threads : \A h : Cardinality(BlocksOn(t, h)) \in Nat /\ Pending(t, h) \in {0, 1}
  BY OnFinite, BlocksOnIsOn DEF PyType, Pending

\* __enter__ calls mmreg_lock with a guard that nobody uses.
LEMMA EnterKeepsPyInv ==
    ASSUME ~Reuse, CInv, PyInv, PyType', NEW t \in Threads, NEW g \in Guards, Enter(t, g)
    PROVE  PyInv'
<1> USE DEF PyInv, Enter, Running, Moves, CallLock, Call, Go
<1>1. guard[t] = NoGuard /\ guard' = [guard EXCEPT ![t] = g] /\ guard \in [Threads -> Guards \cup {NoGuard}]
  BY DEF PyType
<1>2. ASSUME NEW u \in Threads
      PROVE  guard[u] # g /\ \A k \in 1..Len(blocks[u]) : blocks[u][k] # g
  <2>1. guard[u] # g /\ g \notin ToSet(blocks[u])
    BY DEF InUse
  <2>2. blocks[u] \in Seq(Guards)
    BY DEF PyType
  <2> QED
    BY <2>1, <2>2 DEF ToSet
<1>3. PhaseInv'
  BY DEF PhaseInv, CInv, TypeOK, PyType
<1>4. DeviceInv'
  BY <1>1 DEF DeviceInv
<1>5. OnceInv'
  BY <1>1, <1>2, PyAssumption DEF OnceInv
<1>6. ActiveInv'
  BY DEF ActiveInv
<1>7. BlockInv'
  <2>1. \A u \in Threads : \A h : Pending(u, h)' = Pending(u, h)
    BY <1>1 DEF Pending, PyType
  <2>2. \A u \in Threads : \A h : BlocksOn(u, h)' = BlocksOn(u, h)
    BY DEF BlocksOn
  <2> QED
    BY <2>1, <2>2 DEF BlockInv
<1> QED
  BY <1>3, <1>4, <1>5, <1>6, <1>7

\* mmreg_lock has returned 0, and the block is about to begin.
LEMMA LockedKeepsPyInv ==
    ASSUME CInv, PyInv, PyType', NEW t \in Threads, Locked(t)
    PROVE  PyInv'
<1> USE DEF PyInv, Locked, Moves, Push, Return, Go
<1> DEFINE h == at[t]
<1>1. h = GuardDevice[guard[t]] /\ h \in Handles /\ guard' = guard
  BY DEF PhaseInv, CInv, CallInv, TypeOK, PyType
<1>2. PhaseInv'
  BY DEF PhaseInv, CInv, TypeOK, PyType
<1>3. DeviceInv' /\ OnceInv' /\ ActiveInv'
  BY <1>1 DEF DeviceInv, OnceInv, ActiveInv
<1>4. BlockInv'
  <2> SUFFICES ASSUME NEW u \in Threads, NEW i \in open
               PROVE  sequences'[u][i] = Cardinality(BlocksOn(u, i)') + Pending(u, i)'
    BY DEF BlockInv
  <2>1. BlocksOn(u, i)' = BlocksOn(u, i)
    BY DEF BlocksOn
  <2>2. CASE u = t /\ i = h
    <3>1. Pending(u, i) = 0 /\ Pending(u, i)' = 1
      BY <1>1, <2>2 DEF Pending, PyType
    <3>2. sequences'[u][i] = sequences[u][i] + 1
      BY <1>1, <2>2 DEF CInv, TypeOK
    <3>3. sequences[u][i] = Cardinality(BlocksOn(u, i)) + 0 /\ Cardinality(BlocksOn(u, i)) \in Nat
      BY <3>1, CountNat DEF BlockInv
    <3> QED
      BY <2>1, <3>1, <3>2, <3>3
  <2>3. CASE ~(u = t /\ i = h)
    <3>1. Pending(u, i)' = Pending(u, i)
      BY <1>1, <2>3 DEF Pending, PyType
    <3>2. sequences'[u][i] = sequences[u][i]
      BY <1>1, <2>3 DEF CInv, TypeOK
    <3> QED
      BY <2>1, <3>1, <3>2 DEF BlockInv
  <2> QED
    BY <2>2, <2>3
<1> QED
  BY <1>2, <1>3, <1>4

\* mmreg_lock has failed, and there is no block.
LEMMA EnterFailsKeepsPyInv ==
    ASSUME CInv, PyInv, PyType', NEW t \in Threads, EnterFails(t)
    PROVE  PyInv'
<1> USE DEF PyInv, EnterFails, Returns, Moves, AcquireFails, Return, Go
<1>1. PhaseInv'
  BY DEF PhaseInv, CInv, TypeOK, PyType
<1>2. DeviceInv' /\ OnceInv' /\ ActiveInv'
  <2>1. guard' = [guard EXCEPT ![t] = NoGuard] /\ guard \in [Threads -> Guards \cup {NoGuard}]
    BY DEF PyType
  <2>2. \A u \in Threads : \A k \in 1..Len(blocks[u]) : blocks[u][k] # NoGuard
    BY PyAssumption DEF PyType
  <2> QED
    BY <2>1, <2>2 DEF DeviceInv, OnceInv, ActiveInv
<1>3. \A u \in Threads : \A h : Pending(u, h)' = Pending(u, h) /\ BlocksOn(u, h)' = BlocksOn(u, h)
  BY DEF Pending, BlocksOn, PyType
<1>4. BlockInv'
  BY <1>3 DEF BlockInv
<1> QED
  BY <1>1, <1>2, <1>4

\* The block that begins takes over the sequence that was pending.
LEMMA BeginKeepsPyInv ==
    ASSUME CInv, PyInv, PyType', NEW t \in Threads, Begin(t)
    PROVE  PyInv'
<1> DEFINE g == guard[t]
           s == blocks[t]
<1> USE DEF PyInv, Begin, Returns, Moves
<1>1. /\ g \in Guards /\ s \in Seq(Guards) /\ Len(s) \in Nat
      /\ blocks' = [blocks EXCEPT ![t] = Append(s, g)]
      /\ guard' = [guard EXCEPT ![t] = NoGuard]
      /\ guard \in [Threads -> Guards \cup {NoGuard}]
  BY DEF PyType
<1>2. /\ Len(blocks'[t]) = Len(s) + 1 /\ blocks'[t][Len(s) + 1] = g
      /\ \A k \in 1..Len(s) : blocks'[t][k] = s[k]
      /\ \A u \in Threads \ {t} : blocks'[u] = blocks[u]
  BY <1>1 DEF PyType
<1>3. \A k \in 1..Len(blocks'[t]) : k = Len(s) + 1 \/ k \in 1..Len(s)
  BY <1>1, <1>2
<1>4. PhaseInv'
  BY DEF PhaseInv, CInv, TypeOK, PyType, vars
<1>5. DeviceInv'
  <2>1. ASSUME NEW u \in Threads, NEW k \in 1..Len(blocks'[u])
        PROVE  GuardDevice[blocks'[u][k]] \in open \cup closed
    <3>1. CASE u # t
      BY <1>2, <2>1, <3>1 DEF DeviceInv
    <3>2. CASE u = t /\ k = Len(s) + 1
      BY <1>1, <1>2, <3>2, PyAssumption DEF DeviceInv
    <3>3. CASE u = t /\ k \in 1..Len(s)
      BY <1>2, <3>3 DEF DeviceInv
    <3> QED
      BY <1>3, <2>1, <3>1, <3>2, <3>3
  <2> QED
    BY <2>1, <1>1 DEF DeviceInv, vars
<1>6. OnceInv'
  <2>1. \A u \in Threads : \A k \in 1..Len(blocks'[u]) : blocks'[u][k] \in Guards
    BY DEF PyType
  <2>2. \A u \in Threads : guard'[u] = IF u = t THEN NoGuard ELSE guard[u]
    BY <1>1
  <2>3. \A u, v \in Threads : \A j \in 1..Len(blocks'[u]) : blocks'[u][j] # guard'[v]
    BY <1>1, <1>2, <1>3, <2>1, <2>2, PyAssumption DEF OnceInv
  <2>4. ASSUME NEW u \in Threads, NEW v \in Threads,
               NEW j \in 1..Len(blocks'[u]), NEW k \in 1..Len(blocks'[v]), blocks'[u][j] = blocks'[v][k]
        PROVE  u = v /\ j = k
    <3>1. CASE u # t /\ v # t
      BY <1>2, <2>4, <3>1 DEF OnceInv
    <3>2. CASE u = t /\ v # t
      BY <1>2, <1>3, <2>4, <3>2 DEF OnceInv
    <3>3. CASE u # t /\ v = t
      BY <1>2, <1>3, <2>4, <3>3 DEF OnceInv
    <3>4. CASE u = t /\ v = t
      BY <1>2, <1>3, <2>4, <3>4 DEF OnceInv
    <3> QED
      BY <3>1, <3>2, <3>3, <3>4
  <2> QED
    BY <2>2, <2>3, <2>4 DEF OnceInv
<1>7. ActiveInv'
  BY <1>2, <1>3 DEF ActiveInv
<1>8. BlockInv'
  <2> SUFFICES ASSUME NEW u \in Threads, NEW i \in open
               PROVE  sequences[u][i] = Cardinality(BlocksOn(u, i)') + Pending(u, i)'
    BY DEF BlockInv, vars
  <2>1. CASE u = t
    <3>1. BlocksOn(u, i)' = On(Append(s, g), i)
      BY <1>1, <2>1 DEF BlocksOn, On, PyType
    <3>2. Cardinality(On(Append(s, g), i)) = Cardinality(On(s, i)) + Is(g, i) /\ Cardinality(On(s, i)) \in Nat
      BY <1>1, OnAppend, OnFinite
    <3>3. Pending(u, i) = Is(g, i) /\ Is(g, i) \in {0, 1} /\ Pending(u, i)' = 0
      BY <2>1 DEF Pending, Is, PyType
    <3>4. sequences[u][i] = Cardinality(On(s, i)) + Is(g, i)
      BY <2>1, <3>3, BlocksOnIsOn DEF BlockInv
    <3>5. Cardinality(BlocksOn(u, i)') = Cardinality(On(s, i)) + Is(g, i)
      BY <3>1, <3>2
    <3> HIDE DEF s, g
    <3> QED
      BY <3>2, <3>3, <3>4, <3>5
  <2>2. CASE u # t
    <3>1. BlocksOn(u, i)' = BlocksOn(u, i) /\ Pending(u, i)' = Pending(u, i)
      BY <1>1, <1>2, <2>2 DEF BlocksOn, Pending, PyType
    <3> QED
      BY <3>1 DEF BlockInv
  <2> QED
    BY <2>1, <2>2
<1> QED
  BY <1>4, <1>5, <1>6, <1>7, <1>8

\* A block has ended: its guard is active, and its sequence is pending.
LEMMA LeaveKeepsPyInv ==
    ASSUME CInv, PyInv, PyType', NEW t \in Threads, Leave(t)
    PROVE  PyInv'
<1> DEFINE s == blocks[t]
           g == Last(s)
<1> USE DEF PyInv, Leave, Running, Moves, Pop
<1>1. /\ s \in Seq(Guards) /\ s # <<>> /\ Len(s) \in Nat /\ Len(s) >= 1
      /\ g = s[Len(s)] /\ g \in Guards
      /\ Len(Front(s)) = Len(s) - 1 /\ \A k \in 1..Len(s) - 1 : Front(s)[k] = s[k]
  BY FrontAndLast DEF PyType
<1>2. g \in active
  BY <1>1 DEF ActiveInv
<1>3. /\ py' = [py EXCEPT ![t] = "leave"] /\ guard' = [guard EXCEPT ![t] = g]
      /\ active' = active \ {g} /\ blocks' = [blocks EXCEPT ![t] = Front(s)]
      /\ UNCHANGED <<open, closed, sequences, pc, at>> /\ guard[t] = NoGuard
  BY <1>2 DEF vars, PyType
<1>4. /\ \A u \in Threads : guard'[u] = IF u = t THEN g ELSE guard[u]
      /\ \A u \in Threads : \A k \in 1..Len(blocks'[u]) :
            k \in 1..Len(blocks[u]) /\ blocks'[u][k] = blocks[u][k] /\ (u = t => k # Len(s))
  BY <1>1, <1>3 DEF PyType
<1> HIDE DEF s, g
<1>5. PhaseInv'
  BY <1>3 DEF PhaseInv, PyType
<1>6. DeviceInv'
  <2>1. GuardDevice[g] \in open \cup closed
    BY <1>1 DEF DeviceInv, s
  <2> QED
    BY <2>1, <1>3, <1>4 DEF DeviceInv
\* The guard that leaves its block was in that block only.
<1>7. \A u \in Threads : \A k \in 1..Len(blocks'[u]) : blocks'[u][k] # g
  BY <1>1, <1>4 DEF OnceInv, s
<1>8. OnceInv'
  <2>1. \A u \in Threads : guard[u] # g
    BY <1>1 DEF OnceInv, s
  <2>2. \A u, v \in Threads : guard'[u] = guard'[v] /\ guard'[u] # NoGuard => u = v
    BY <1>4, <2>1 DEF OnceInv
  <2>3. \A u, v \in Threads : \A j \in 1..Len(blocks'[u]) : blocks'[u][j] # guard'[v]
    BY <1>4, <1>7 DEF OnceInv
  <2>4. \A u, v \in Threads : \A j \in 1..Len(blocks'[u]), k \in 1..Len(blocks'[v]) :
            blocks'[u][j] = blocks'[v][k] => u = v /\ j = k
    BY <1>4 DEF OnceInv
  <2> QED
    BY <2>2, <2>3, <2>4 DEF OnceInv
<1>9. ActiveInv'
  BY <1>3, <1>4, <1>7 DEF ActiveInv
<1>10. BlockInv'
  <2> SUFFICES ASSUME NEW u \in Threads, NEW i \in open
               PROVE  sequences[u][i] = Cardinality(BlocksOn(u, i)') + Pending(u, i)'
    BY <1>3 DEF BlockInv
  <2>1. CASE u = t
    <3>1. BlocksOn(u, i)' = On(Front(s), i)
      BY <1>3, <2>1 DEF BlocksOn, On, PyType
    <3>2. Cardinality(On(s, i)) = Cardinality(On(Front(s), i)) + Is(g, i)
      BY <1>1, OnFront DEF g
    <3>3. Pending(u, i) = 0 /\ Pending(u, i)' = Is(g, i)
      BY <1>3, <2>1 DEF Pending, Is, PyType
    <3>4. sequences[u][i] = Cardinality(On(s, i)) + 0 /\ Cardinality(On(s, i)) \in Nat
      BY <1>1, <2>1, <3>3, BlocksOnIsOn, OnFinite DEF BlockInv, s
    <3> QED
      BY <3>1, <3>2, <3>3, <3>4
  <2>2. CASE u # t
    <3>1. BlocksOn(u, i)' = BlocksOn(u, i) /\ Pending(u, i)' = Pending(u, i)
      BY <1>3, <2>2 DEF BlocksOn, Pending, PyType
    <3> QED
      BY <3>1 DEF BlockInv
  <2> QED
    BY <2>1, <2>2
<1> QED
  BY <1>5, <1>6, <1>8, <1>9, <1>10

\* mmreg_unlock has ended the sequence of the block.
LEMMA UnlocksKeepsPyInv ==
    ASSUME CInv, PyInv, PyType', NEW t \in Threads, Unlocks(t)
    PROVE  PyInv'
<1> DEFINE h == GuardDevice[guard[t]]
<1> USE DEF PyInv, Unlocks, Returns, Moves, Unlock, Go
<1>1. h \in Handles /\ h \in open
  BY DEF CInv, TypeOK
<1>2. PhaseInv'
  BY DEF PhaseInv, CInv, TypeOK, PyType
<1>3. DeviceInv' /\ OnceInv' /\ ActiveInv'
  <2>1. guard' = [guard EXCEPT ![t] = NoGuard] /\ guard \in [Threads -> Guards \cup {NoGuard}]
    BY DEF PyType
  <2>2. \A u \in Threads : \A k \in 1..Len(blocks[u]) : blocks[u][k] # NoGuard
    BY PyAssumption DEF PyType
  <2> QED
    BY <2>1, <2>2 DEF DeviceInv, OnceInv, ActiveInv
<1>4. BlockInv'
  <2> SUFFICES ASSUME NEW u \in Threads, NEW i \in open
               PROVE  sequences'[u][i] = Cardinality(BlocksOn(u, i)') + Pending(u, i)'
    BY DEF BlockInv
  <2>1. BlocksOn(u, i)' = BlocksOn(u, i)
    BY DEF BlocksOn
  <2>2. CASE u = t /\ i = h
    <3>1. Pending(u, i) = 1 /\ Pending(u, i)' = 0
      BY <2>2 DEF Pending, PyType
    <3>2. sequences'[u][i] = sequences[u][i] - 1
      BY <1>1, <2>2 DEF CInv, TypeOK
    <3>3. sequences[u][i] = Cardinality(BlocksOn(u, i)) + 1 /\ Cardinality(BlocksOn(u, i)) \in Nat
      BY <3>1, CountNat DEF BlockInv
    <3> QED
      BY <2>1, <3>1, <3>2, <3>3
  <2>3. CASE ~(u = t /\ i = h)
    <3>1. Pending(u, i)' = Pending(u, i)
      BY <2>3 DEF Pending, PyType
    <3>2. sequences'[u][i] = sequences[u][i]
      BY <1>1, <2>3 DEF CInv, TypeOK
    <3> QED
      BY <2>1, <3>1, <3>2 DEF BlockInv
  <2> QED
    BY <2>2, <2>3
<1> QED
  BY <1>2, <1>3, <1>4

\* mmreg_unlock fails for a block only if its Device has been closed.
LEMMA ReleaseFailsKeepsPyInv ==
    ASSUME CInv, PyInv, PyType', NEW t \in Threads, ReleaseFails(t)
    PROVE  PyInv'
<1> DEFINE h == GuardDevice[guard[t]]
<1> USE DEF PyInv, ReleaseFails, Returns, Moves
<1>1. h \notin open
  <2> SUFFICES ASSUME h \in open PROVE FALSE
    OBVIOUS
  <2>1. Pending(t, h) = 1
    BY DEF Pending
  <2>2. sequences[t][h] = Cardinality(BlocksOn(t, h)) + 1 /\ Cardinality(BlocksOn(t, h)) \in Nat
    BY <2>1, CountNat DEF BlockInv
  <2>3. sequences[t][h] > 0
    BY <2>2
  <2> QED
    BY <2>3, CInvProperties DEF HeldUntilUnlock
<1>2. PhaseInv'
  BY DEF PhaseInv, PyType, vars
<1>3. DeviceInv' /\ OnceInv' /\ ActiveInv'
  <2>1. guard' = [guard EXCEPT ![t] = NoGuard] /\ guard \in [Threads -> Guards \cup {NoGuard}]
    BY DEF PyType
  <2>2. \A u \in Threads : \A k \in 1..Len(blocks[u]) : blocks[u][k] # NoGuard
    BY PyAssumption DEF PyType
  <2> QED
    BY <2>1, <2>2 DEF DeviceInv, OnceInv, ActiveInv, vars
<1>4. \A u \in Threads : \A i \in open : Pending(u, i)' = Pending(u, i) /\ BlocksOn(u, i)' = BlocksOn(u, i)
  BY <1>1 DEF Pending, BlocksOn, PyType
<1>5. BlockInv'
  BY <1>4 DEF BlockInv, vars
<1> QED
  BY <1>2, <1>3, <1>5

\* What only touches the register.
LEMMA StutterKeepsPyInv ==
    ASSUME PyInv, UNCHANGED <<vars, pyvars>>
    PROVE  PyInv'
<1>1. PyType'
  BY DEF PyType, pyvars, PyInv
<1>2. PhaseInv' /\ DeviceInv'
  BY DEF PhaseInv, DeviceInv, vars, pyvars, PyInv
<1>3. OnceInv' /\ ActiveInv'
  BY DEF OnceInv, ActiveInv, pyvars, PyInv
<1>4. \A t \in Threads : \A h \in open :
        Pending(t, h)' = Pending(t, h) /\ BlocksOn(t, h)' = BlocksOn(t, h)
  BY DEF Pending, BlocksOn, pyvars
<1>5. BlockInv'
  BY <1>4 DEF BlockInv, vars, PyInv
<1> QED
  BY <1>1, <1>2, <1>3, <1>5 DEF PyInv

LEMMA NextPyInv ==
    ASSUME ~Reuse, CInv, PyInv, [PyNext]_<<vars, pyvars, regvars>>
    PROVE  CInv' /\ PyInv'
<1>1. PyType'
  BY PyTypeStep DEF PyInv
<1>2. CInv'
  BY PyNextIsNext, NextCInv DEF PyInv
<1>3. ASSUME NEW t \in Threads, PyStep(t) PROVE PyInv'
  <2>1. CASE StoreRegister(t)
    BY <2>1, StutterKeepsPyInv DEF StoreRegister
  <2>2. CASE Locked(t) \/ Begin(t) \/ Leave(t)
    BY <1>1, <2>2, LockedKeepsPyInv, BeginKeepsPyInv, LeaveKeepsPyInv
  <2>3. CASE Unlocks(t) \/ ReleaseFails(t)
    BY <1>1, <2>3, UnlocksKeepsPyInv, ReleaseFailsKeepsPyInv
  <2>4. CASE InC(t) \/ LoadRegister(t)
    BY <1>1, <2>4, CallsKeepPyInv
  <2> QED
    BY <1>3, <2>1, <2>2, <2>3, <2>4 DEF PyStep
<1>4. ASSUME NEW t \in Threads, EnterFails(t) \/ AccessFails(t) PROVE PyInv'
  BY <1>1, <1>4, EnterFailsKeepsPyInv, CallsKeepPyInv
<1>5. ASSUME NEW t \in Threads, NEW h \in Handles,
             OpenDevice(t, h) \/ Access(t, h) \/ AccessRegister(t, h) \/ CloseDevice(t, h)
      PROVE  PyInv'
  BY <1>1, <1>5, CallsKeepPyInv
<1>6. ASSUME NEW t \in Threads, NEW g \in Guards, Enter(t, g) PROVE PyInv'
  BY <1>1, <1>6, EnterKeepsPyInv
<1>7. ASSUME Event \/ UNCHANGED <<vars, pyvars, regvars>> PROVE PyInv'
  BY <1>7, StutterKeepsPyInv DEF Event
<1> QED
  BY <1>2, <1>3, <1>4, <1>5, <1>6, <1>7 DEF PyNext

LEMMA PyInvBlocksHold == CInv /\ PyInv => BlocksHold
<1> SUFFICES ASSUME CInv, PyInv, NEW t \in Threads, NEW h \in open, Running(t)
             PROVE  /\ sequences[t][h] = Cardinality(BlocksOn(t, h))
                    /\ BlocksOn(t, h) # {} => owner = t
  BY DEF BlocksHold
<1>1. Pending(t, h) = 0 /\ Cardinality(BlocksOn(t, h)) \in Nat
  BY CountNat DEF Pending, Running, PyInv
<1>2. sequences[t][h] = Cardinality(BlocksOn(t, h)) + 0
  BY <1>1 DEF PyInv, BlockInv
<1>3. ASSUME BlocksOn(t, h) # {} PROVE owner = t
  <2>1. IsFiniteSet(BlocksOn(t, h))
    BY OnFinite, BlocksOnIsOn DEF PyInv, PyType
  <2>2. Cardinality(BlocksOn(t, h)) # 0
    BY <1>3, <2>1, FS_EmptySet
  <2>3. sequences[t][h] > 0
    BY <1>1, <1>2, <2>2
  <2> QED
    BY <2>3, CInvProperties DEF HeldUntilUnlock
<1> QED
  BY <1>1, <1>2, <1>3

-----------------------------------------------------------------------------
(* A program over the one or over the other (MCBindings). *)

MCIInv == CInv /\ (program = "python" => PyInv)

LEMMA InitMCIInv == MCInit => MCIInv
  BY InitCInv, InitPyInv DEF MCInit, MCIInv, PyInit

LEMMA NextMCIInv ==
    ASSUME ~Reuse, MCIInv, [MCNext]_mcvars
    PROVE  MCIInv'
<1>1. CASE InCProgram(Next)
  BY <1>1, NextCInv DEF InCProgram, MCIInv
<1>2. CASE InPython(PyNext)
  BY <1>2, NextPyInv DEF InPython, MCIInv
<1>3. CASE UNCHANGED mcvars
  <2>1. UNCHANGED <<vars, pyvars, regvars>> /\ UNCHANGED program /\ [Next]_vars
    BY <1>3 DEF mcvars
  <2> QED
    BY <2>1, NextCInv, NextPyInv DEF MCIInv
<1> QED
  BY <1>1, <1>2, <1>3 DEF MCNext

\* LockGuard: inside a with block on an open Device the thread has the lock, as often
\* as it has nested blocks on it, however other threads lock, unlock and close.
THEOREM WithBlockHeldHolds ==
    ASSUME ~Reuse
    PROVE  MCSpec => []WithBlockHeld
<1>1. MCInit => MCIInv
  BY InitMCIInv
<1>2. MCIInv /\ [MCNext]_mcvars => MCIInv'
  BY NextMCIInv
<1>3. MCIInv => WithBlockHeld
  BY PyInvBlocksHold DEF MCIInv, WithBlockHeld
<1> QED
  BY <1>1, <1>2, <1>3, PTL DEF MCSpec

-----------------------------------------------------------------------------
(* The inline register: for every width, set of threads and accepted fields. *)

W1cBits == Register!BitsOf(w1c)

\* A call covers every w1c bit, and the others of its target only.
RegisterOpInv == \A t \in Threads : write[t] # "idle" =>
    /\ op[t].value \subseteq op[t].target
    /\ op[t].target \subseteq op[t].mask
    /\ W1cBits \subseteq op[t].mask
    /\ op[t].mask \ W1cBits = op[t].target \ W1cBits

\* Between its read and its write a thread is alone, and what it has read of the bits
\* that the hardware does not change is still there.
RegisterHolderInv == \A t \in Threads : write[t] = "write" =>
    /\ \A u \in Threads : write[u] = "write" => u = t
    /\ old[t] \ W1cBits = reg \ W1cBits

RegisterInv == Register!TypeOK /\ RegisterOpInv /\ RegisterHolderInv /\ Register!FieldsIndependent

LEMMA WInValues ==
    ASSUME Register!TypeOK
    PROVE  W1cBits \in Register!Values
  BY DEF Register!TypeOK, W1cBits, Register!BitsOf, Register!Values

LEMMA EmptyIsValue ==
    /\ {} \in Register!Values
    /\ Register!NoOp \in [mask : Register!Values, value : Register!Values, target : Register!Values]
  BY DEF Register!Values, Register!NoOp

\* What Python code and hardware make of a write is what the caller intended.
LEMMA StoredIsIntended ==
    ASSUME NEW r \in Register!Values, NEW before \in Register!Values,
           NEW o \in [mask : Register!Values, value : Register!Values, target : Register!Values],
           o.value \subseteq o.target, o.target \subseteq o.mask, W1cBits \subseteq o.mask,
           o.mask \ W1cBits = o.target \ W1cBits, before \ W1cBits = r \ W1cBits
    PROVE  Register!Stored(r, Register!Masked(before, o.mask, o.value)) = Register!Intended(r, o)
  BY DEF Register!Stored, Register!Masked, Register!Intended, W1cBits

LEMMA InitRegisterInv == Register!Init => RegisterInv
<1> SUFFICES ASSUME Register!Init PROVE RegisterInv
  OBVIOUS
<1>1. RegisterBits \in Nat \ {0}
  BY PyAssumption
<1>2. Register!TypeOK
  <2>1. \A f \in fields : f \in Register!SubRegisters /\ Register!Mask(f) \subseteq 0..RegisterBits - 1
    BY <1>1 DEF Register!Init, Register!ParsedSpecs, Register!SubRegisters, Register!Mask
  <2> QED
    BY <2>1, EmptyIsValue DEF Register!Init, Register!TypeOK
<1> QED
  BY <1>2 DEF Register!Init, RegisterInv, RegisterOpInv, RegisterHolderInv, Register!FieldsIndependent

\* The calls a program can make have the form that RegisterOpInv states.
LEMMA CallsCover ==
    ASSUME Register!TypeOK, NEW o \in Register!FieldWrites \cup Register!RegisterWrites
    PROVE  /\ o \in [mask : Register!Values, value : Register!Values, target : Register!Values]
           /\ o.value \subseteq o.target /\ o.target \subseteq o.mask
           /\ W1cBits \subseteq o.mask /\ o.mask \ W1cBits = o.target \ W1cBits
<1>1. W1cBits \in Register!Values
  BY WInValues
<1>2. CASE o \in Register!RegisterWrites
  <2>1. PICK v \in Register!Values :
          o = [mask |-> 0..RegisterBits - 1, value |-> v, target |-> 0..RegisterBits - 1]
    BY <1>2 DEF Register!RegisterWrites
  <2> QED
    BY <1>1, <2>1 DEF Register!Values
<1>3. CASE o \in Register!FieldWrites
  <2>1. PICK f \in fields : \E v \in SUBSET Register!Mask(f) :
          o = [mask |-> Register!Mask(f) \cup Register!OtherW1c(f), value |-> v, target |-> Register!Mask(f)]
    BY <1>3 DEF Register!FieldWrites
  <2>2. Register!Mask(f) \in Register!Values
    BY DEF Register!TypeOK, Register!Values
  <2>3. PICK v \in SUBSET Register!Mask(f) :
          o = [mask |-> Register!Mask(f) \cup Register!OtherW1c(f), value |-> v, target |-> Register!Mask(f)]
    BY <2>1
  <2> QED
    BY <1>1, <2>2, <2>3 DEF Register!OtherW1c, W1cBits, Register!Values
<1> QED
  BY <1>2, <1>3

LEMMA NextRegisterInv == RegisterInv /\ [Register!Next]_(Register!vars) => RegisterInv'
<1> SUFFICES ASSUME RegisterInv, [Register!Next]_(Register!vars) PROVE RegisterInv'
  OBVIOUS
<1> USE DEF RegisterInv
<1>1. W1cBits \in Register!Values
  BY WInValues
<1>2. CASE Register!Raise
  <2>1. PICK bit \in W1cBits : reg' = reg \cup {bit} /\ given' = given \cup {bit}
    BY <1>2 DEF Register!Raise, W1cBits
  <2>2. W1cBits' = W1cBits
    BY <1>2 DEF Register!Raise, W1cBits, Register!BitsOf
  <2>3. Register!TypeOK'
    BY <1>1, <1>2, <2>1 DEF Register!Raise, Register!TypeOK, Register!Values
  <2>4. RegisterOpInv' /\ RegisterHolderInv' /\ Register!FieldsIndependent'
    BY <1>2, <2>1, <2>2 DEF Register!Raise, RegisterOpInv, RegisterHolderInv, Register!FieldsIndependent
  <2> QED
    BY <2>3, <2>4
<1>3. ASSUME NEW t \in Threads, Register!Call(t) PROVE RegisterInv'
  <2>1. PICK o \in Register!FieldWrites \cup Register!RegisterWrites : Register!Go(t, "lock", o, {})
    BY <1>3 DEF Register!Call
  <2>2. W1cBits' = W1cBits
    BY <2>1 DEF Register!Go, W1cBits, Register!BitsOf
  <2>3. Register!TypeOK'
    BY <1>3, <2>1, CallsCover, EmptyIsValue DEF Register!Call, Register!Go, Register!TypeOK
  <2>4. RegisterOpInv'
    BY <1>3, <2>1, <2>2, CallsCover, EmptyIsValue DEF Register!Call, Register!Go, Register!TypeOK, RegisterOpInv
  <2>5. RegisterHolderInv' /\ Register!FieldsIndependent'
    BY <1>3, <2>1, <2>2 DEF Register!Call, Register!Go, Register!TypeOK, RegisterHolderInv, Register!FieldsIndependent
  <2> QED
    BY <2>3, <2>4, <2>5
<1>4. ASSUME NEW t \in Threads, Register!Fail(t) PROVE RegisterInv'
  <2>1. W1cBits' = W1cBits
    BY <1>4, EmptyIsValue DEF Register!Fail, Register!Go, W1cBits, Register!BitsOf
  <2>2. Register!TypeOK'
    BY <1>4, EmptyIsValue DEF Register!Fail, Register!Go, Register!TypeOK
  <2> QED
    BY <1>4, <2>1, <2>2 DEF Register!Fail, Register!Go, Register!TypeOK, RegisterOpInv, RegisterHolderInv, Register!FieldsIndependent
<1>5. ASSUME NEW t \in Threads, Register!Read(t) PROVE RegisterInv'
  <2>1. W1cBits' = W1cBits
    BY <1>5 DEF Register!Read, Register!Load, Register!Go, W1cBits, Register!BitsOf
  <2>2. Register!TypeOK'
    BY <1>5 DEF Register!Read, Register!Load, Register!Go, Register!TypeOK
  <2>3. RegisterOpInv' /\ Register!FieldsIndependent'
    BY <1>5, <2>1 DEF Register!Read, Register!Load, Register!Go, Register!TypeOK, RegisterOpInv, Register!FieldsIndependent
  <2>4. RegisterHolderInv'
    BY <1>5, <2>1 DEF Register!Read, Register!Load, Register!Go, Register!TypeOK, RegisterHolderInv
  <2> QED
    BY <2>2, <2>3, <2>4
<1>6. ASSUME NEW t \in Threads, Register!Write(t) PROVE RegisterInv'
  <2>1. W1cBits' = W1cBits
    BY <1>6 DEF Register!Write, Register!Go, W1cBits, Register!BitsOf
  <2>2. /\ op[t] \in [mask : Register!Values, value : Register!Values, target : Register!Values]
        /\ reg \in Register!Values /\ old[t] \in Register!Values
    BY DEF Register!TypeOK
  <2>3. Register!FieldsIndependent'
    <3>1. /\ op[t].value \subseteq op[t].target /\ op[t].target \subseteq op[t].mask
          /\ W1cBits \subseteq op[t].mask /\ op[t].mask \ W1cBits = op[t].target \ W1cBits
          /\ old[t] \ W1cBits = reg \ W1cBits
      BY <1>6 DEF Register!Write, RegisterOpInv, RegisterHolderInv
    <3>2. reg' = Register!Intended(reg, op[t])
      BY <1>6, <2>2, <3>1, StoredIsIntended DEF Register!Write
    <3> QED
      BY <1>6, <3>2 DEF Register!Write, Register!FieldsIndependent
  <2>4. Register!TypeOK'
    <3>1. given' \in Register!Values
      BY <1>6, <2>2, <1>1 DEF Register!Write, Register!Intended, Register!TypeOK, Register!Values
    <3>2. reg' \in Register!Values
      BY <2>3, <3>1 DEF Register!FieldsIndependent
    <3> QED
      BY <1>6, <3>1, <3>2, EmptyIsValue DEF Register!Write, Register!Go, Register!TypeOK
  <2>5. RegisterOpInv'
    BY <1>6, <2>1 DEF Register!Write, Register!Go, Register!TypeOK, RegisterOpInv
  \* Nobody else is between its read and its write.
  <2>6. RegisterHolderInv'
    BY <1>6, <2>1 DEF Register!Write, Register!Go, Register!TypeOK, RegisterHolderInv
  <2> QED
    BY <2>3, <2>4, <2>5, <2>6
<1>7. CASE UNCHANGED Register!vars
  <2>1. W1cBits' = W1cBits
    BY <1>7 DEF Register!vars, W1cBits, Register!BitsOf
  <2> QED
    BY <1>7, <2>1 DEF Register!vars, Register!TypeOK, RegisterOpInv, RegisterHolderInv, Register!FieldsIndependent
<1> QED
  BY <1>2, <1>3, <1>4, <1>5, <1>6, <1>7 DEF Register!Next

\* The variables of the register keep their types; the fields stay those that __init__
\* accepted.
THEOREM RegisterTypeCorrect == Register!Spec => []Register!TypeOK
<1>1. RegisterInv => Register!TypeOK
  BY DEF RegisterInv
<1> QED
  BY <1>1, InitRegisterInv, NextRegisterInv, PTL DEF Register!Spec

\* However threads and hardware interleave, a write of a field changes no other field
\* and clears no pending event but its own (InlineField.write).
THEOREM RegisterFieldsIndependent == Register!Spec => []Register!FieldsIndependent
<1>1. RegisterInv => Register!FieldsIndependent
  BY DEF RegisterInv
<1> QED
  BY <1>1, InitRegisterInv, NextRegisterInv, PTL DEF Register!Spec

-----------------------------------------------------------------------------
(* Inline registers, in any Python program. *)

WInv == CInv /\ PyType /\ WriteInv

LEMMA InitWInv == PyInit => WInv /\ Register!Init
  BY InitCInv, InitPyInv DEF PyInit, Init, Register!Init, WInv, PyInv, WriteInv

\* Acquire excludes the other threads from the register until their guard is dropped.
LEMMA LoadIsRead ==
    ASSUME WInv, NEW t \in Threads, LoadRegister(t)
    PROVE  Register!Read(t)
<1>1. ASSUME NEW u \in Threads, write[u] = "write" PROVE FALSE
  <2>1. pc[u] = "drop" /\ owner = u /\ u # NoThread
    BY <1>1, CApiAssumption DEF WInv, WriteInv, CInv, OwnerInv
  <2>2. owner \in {NoThread, t} /\ pc[t] \in {"lock", "access"}
    BY DEF LoadRegister, Acquire
  <2> QED
    BY <2>1, <2>2
<1> QED
  BY <1>1 DEF LoadRegister, Register!Read

LEMMA NextWriteInv ==
    ASSUME WInv, [PyNext]_<<vars, pyvars, regvars>>
    PROVE  WriteInv' /\ [Register!Next]_(Register!vars)
<1> USE DEF WInv, WriteInv
<1>1. ASSUME NEW t \in Threads, Locked(t) \/ EnterFails(t) \/ Begin(t) \/ Leave(t) \/ Unlocks(t) \/ ReleaseFails(t)
      PROVE  WriteInv' /\ UNCHANGED regvars
  <2>1. UNCHANGED regvars /\ write' = write
    BY <1>1 DEF Locked, EnterFails, Begin, Leave, Unlocks, ReleaseFails, regvars
  <2>2. write[t] # "lock" /\ (write[t] = "write" => pc'[t] = "drop")
    BY <1>1 DEF Locked, EnterFails, Begin, Leave, Unlocks, ReleaseFails, Running, Push, Unlock,
                AcquireFails, vars, PyType
  <2>3. \A u \in Threads \ {t} : pc'[u] = pc[u] /\ py'[u] = py[u]
    BY <1>1 DEF Locked, EnterFails, Begin, Leave, Unlocks, ReleaseFails, Push, Unlock,
                AcquireFails, Return, Returns, Moves, Go, vars, CInv, TypeOK, PyType
  <2> QED
    BY <2>1, <2>2, <2>3
<1>2. ASSUME NEW t \in Threads, NEW g \in Guards, Enter(t, g) PROVE WriteInv' /\ UNCHANGED regvars
  BY <1>2 DEF Enter, Running, CallLock, Call, Go, Moves, regvars, CInv, TypeOK, PyType
<1>3. ASSUME NEW t \in Threads, NEW h \in Handles, OpenDevice(t, h) \/ Access(t, h) \/ CloseDevice(t, h)
      PROVE  WriteInv' /\ UNCHANGED regvars
  BY <1>3 DEF OpenDevice, Access, CloseDevice, Open, CallAccess, Close, Running, Call, Go, regvars, pyvars,
              CInv, TypeOK
<1>4. ASSUME NEW t \in Threads, NEW h \in Handles, AccessRegister(t, h)
      PROVE  WriteInv' /\ Register!Next
  BY <1>4 DEF AccessRegister, Register!Next, Register!Call, Register!Go, CallAccess, Running, Call, Go,
              pyvars, CInv, TypeOK
<1>5. ASSUME NEW t \in Threads, AccessFails(t) PROVE WriteInv' /\ [Register!Next]_(Register!vars)
  <2>1. CASE write[t] = "lock"
    BY <1>5, <2>1 DEF AccessFails, AcquireFails, Return, Go, Register!Next, Register!Fail, Register!Go,
                      pyvars, CInv, TypeOK
  <2>2. CASE write[t] # "lock"
    BY <1>5, <2>2 DEF AccessFails, AcquireFails, Return, Go, pyvars, regvars, Register!vars, CInv, TypeOK
  <2> QED
    BY <2>1, <2>2
<1>6. ASSUME NEW t \in Threads, InC(t) PROVE WriteInv' /\ UNCHANGED regvars
  BY <1>6 DEF InC, Acquire, DropGuard, CloseGuard, FinishClose, Return, Go, pyvars, regvars, CInv, TypeOK
<1>7. ASSUME NEW t \in Threads, LoadRegister(t) PROVE WriteInv' /\ Register!Next
  <2>1. Register!Read(t)
    BY <1>7, LoadIsRead
  <2>2. WriteInv'
    BY <1>7 DEF LoadRegister, Acquire, Go, Register!Load, Register!Go, pyvars, CInv, TypeOK
  <2> QED
    BY <2>1, <2>2 DEF Register!Next
<1>8. ASSUME NEW t \in Threads, StoreRegister(t) PROVE WriteInv' /\ Register!Next
  BY <1>8 DEF StoreRegister, Register!Next, Register!Write, Register!Go, vars, pyvars
<1>9. CASE Event
  BY <1>9 DEF Event, Register!Next, Register!Raise, vars, pyvars
<1>10. CASE UNCHANGED <<vars, pyvars, regvars>>
  BY <1>10 DEF vars, pyvars, regvars, Register!vars
<1>11. UNCHANGED regvars => UNCHANGED Register!vars
  BY DEF regvars, Register!vars
<1>12. CASE PyNext
  <2>1. ASSUME NEW t \in Threads, PyStep(t) PROVE WriteInv' /\ [Register!Next]_(Register!vars)
    BY <2>1, <1>1, <1>6, <1>7, <1>8, <1>11 DEF PyStep
  <2> QED
    BY <1>12, <2>1, <1>1, <1>2, <1>3, <1>4, <1>5, <1>9, <1>11 DEF PyNext
<1> QED
  BY <1>10, <1>12

LEMMA NextWInv == WInv /\ [PyNext]_<<vars, pyvars, regvars>> => WInv'
  BY NextWriteInv, PyTypeStep, PyNextIsNext, NextCInv DEF WInv

\* The lock of the C ABI makes the binding's read-modify-writes of an inline register
\* one at a time, whichever Devices and with blocks they are made through.
THEOREM InlineRegisterImplemented == PySpec => ImplementsInlineRegister
<1>1. WInv /\ [PyNext]_<<vars, pyvars, regvars>> => [Register!Next]_(Register!vars)
  BY NextWriteInv
<1> QED
  BY <1>1, InitWInv, NextWInv, PTL DEF PySpec, ImplementsInlineRegister, Register!Spec

\* "writing this field neither changes other fields nor clears pending bits": so for
\* every program over the binding, whatever registers it defines and whichever Devices,
\* threads and with blocks it writes them from.
THEOREM FieldsIndependentHolds == PySpec => []FieldsIndependent
BY InlineRegisterImplemented, RegisterFieldsIndependent, PTL
   DEF ImplementsInlineRegister, FieldsIndependent
=============================================================================
