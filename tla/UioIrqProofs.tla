---------------------------- MODULE UioIrqProofs ----------------------------
(***************************************************************************)
(* Proofs about UioIrq, for any number of threads, descriptors, interrupts *)
(* and calls: type correctness, that a masked line has somebody to unmask  *)
(* it, and that no interrupt is delivered twice through one descriptor.    *)
(***************************************************************************)
EXTENDS UioIrq, TLAPS

\* What irq_wait last returned to a thread is not ahead of its descriptor: the
\* next count read through that descriptor is one it has not seen.
GotInv == \A t \in Threads : got[t] <= seen[FileOf[t]]

IInv == TypeOK /\ MaskHasServer /\ GotInv /\ DeliveredOnce

-----------------------------------------------------------------------------
LEMMA InitIInv == Init => IInv
<1> SUFFICES ASSUME Init PROVE IInv
  OBVIOUS
<1>1. TypeOK
  <2>1. 0 \in 0..MaxRaises /\ 0 \in 0..MaxCalls /\ 0 \in 0..event
    BY IrqAssumption DEF Init
  <2>2. seen \in [Files -> 0..event] /\ got \in [Threads -> 0..event]
    BY <2>1 DEF Init
  <2>3. calls \in [Threads -> 0..MaxCalls]
    BY <2>1 DEF Init
  <2>4. /\ pc \in [Threads -> {"idle", "poll", "read", "serve", "unmask"}]
        /\ deadline \in [Threads -> {"none", "ahead", "passed"}]
    BY DEF Init
  <2> QED BY <2>1, <2>2, <2>3, <2>4 DEF Init, TypeOK
<1>2. MaskHasServer
  BY DEF Init, MaskHasServer
<1>3. ASSUME NEW t \in Threads PROVE got[t] = 0 /\ seen[FileOf[t]] = 0
  BY IrqAssumption DEF Init
<1>4. GotInv /\ DeliveredOnce
  BY <1>3 DEF GotInv, DeliveredOnce
<1> QED BY <1>1, <1>2, <1>4 DEF IInv

\* The steps that leave counters and results alone.
LEMMA QuietStep ==
    ASSUME IInv, TypeOK',
           UNCHANGED <<event, seen, got>>,
           masked' => masked,
           masked' => \A t \in Threads : pc[t] \in {"serve", "unmask"} =>
                          pc'[t] \in {"serve", "unmask"}
    PROVE  IInv'
BY DEF IInv, TypeOK, MaskHasServer, GotInv, DeliveredOnce, Pending

\* The interrupt handler makes every descriptor readable.
LEMMA FireStep == IInv /\ Fire => IInv'
<1> SUFFICES ASSUME IInv, Fire PROVE IInv'
  OBVIOUS
<1>1. event' \in Nat /\ event' = event + 1 /\ seen' = seen /\ got' = got
  BY DEF Fire, IInv, TypeOK
<1>2. TypeOK'
  <2>1. seen \in [Files -> 0..event'] /\ got \in [Threads -> 0..event']
    BY <1>1 DEF IInv, TypeOK
  <2> QED BY <1>1, <2>1 DEF Fire, IInv, TypeOK
<1>3. MaskHasServer'
  <2>1. PICK f \in Files : TRUE
    BY IrqAssumption
  <2>2. seen[f] \in 0..event
    BY DEF IInv, TypeOK
  <2>3. event' # seen'[f]
    BY <1>1, <2>2 DEF IInv, TypeOK
  <2> QED BY <2>3 DEF MaskHasServer, Pending
<1>4. GotInv' /\ DeliveredOnce'
  BY <1>1 DEF IInv, GotInv, DeliveredOnce
<1> QED BY <1>2, <1>3, <1>4 DEF IInv

\* A successful read returns a count above all that its descriptor returned.
LEMMA ReadStep ==
    ASSUME IInv, NEW t \in Threads, ReadCount(t)
    PROVE  IInv'
<1> DEFINE f == FileOf[t]
<1>1. f \in Files /\ event \in Nat /\ event' = event
  BY IrqAssumption DEF ReadCount, IInv, TypeOK
<1>2. seen' = [seen EXCEPT ![f] = event] /\ got' = [got EXCEPT ![t] = event]
  BY DEF ReadCount
<1>3. TypeOK'
  BY <1>1, <1>2 DEF ReadCount, IInv, TypeOK
<1>4. MaskHasServer'
  <2>1. pc'[t] = "serve"
    BY DEF ReadCount, IInv, TypeOK
  <2> QED BY <2>1 DEF MaskHasServer
<1>5. seen[f] < event
  <2>1. seen[f] \in 0..event /\ event # seen[f]
    BY <1>1 DEF ReadCount, Pending, IInv, TypeOK
  <2> QED BY <1>1, <2>1
<1>6. ASSUME NEW u \in Threads
      PROVE  /\ FileOf[u] \in Files
             /\ got[u] \in Nat /\ seen[FileOf[u]] \in 0..event
             /\ got[u] <= seen[FileOf[u]]
             /\ got'[u] = IF u = t THEN event ELSE got[u]
             /\ seen'[FileOf[u]] = IF FileOf[u] = f THEN event ELSE seen[FileOf[u]]
  <2>1. FileOf[u] \in Files
    BY IrqAssumption
  <2>2. got[u] \in 0..event /\ seen[FileOf[u]] \in 0..event /\ got[u] <= seen[FileOf[u]]
    BY <2>1 DEF IInv, TypeOK, GotInv
  <2>3. got'[u] = IF u = t THEN event ELSE got[u]
    BY <1>2 DEF IInv, TypeOK
  <2>4. seen'[FileOf[u]] = IF FileOf[u] = f THEN event ELSE seen[FileOf[u]]
    BY <1>2, <2>1 DEF IInv, TypeOK
  <2> QED BY <1>1, <2>1, <2>2, <2>3, <2>4
<1>7. GotInv'
  BY <1>1, <1>6 DEF GotInv
<1>8. DeliveredOnce'
  <2> SUFFICES ASSUME NEW u \in Threads, NEW w \in Threads,
                      u # w, FileOf[u] = FileOf[w], got'[u] = got'[w]
               PROVE  got'[u] = 0
    BY DEF DeliveredOnce
  <2>1. CASE u # t /\ w # t
    BY <2>1, <1>6 DEF IInv, DeliveredOnce
  <2>2. CASE u = t \/ w = t
    BY <2>2, <1>1, <1>5, <1>6
  <2> QED BY <2>1, <2>2
<1> QED BY <1>3, <1>4, <1>7, <1>8 DEF IInv

LEMMA NextIInv == IInv /\ [Next]_vars => IInv'
<1> SUFFICES ASSUME IInv, [Next]_vars PROVE IInv'
  OBVIOUS
<1>1. CASE Raise
  <2>1. TypeOK'
    BY <1>1, IrqAssumption DEF Raise, IInv, TypeOK
  <2> QED BY <1>1, <2>1, QuietStep DEF Raise
<1>2. CASE Fire
  BY <1>2, FireStep
<1>3. ASSUME NEW t \in Threads,
             Expire(t) \/ PollReady(t) \/ PollTimeout(t) \/ WaitFails(t)
                \/ ClearCause(t) \/ \E d \in {"none", "ahead"} : CallWait(t, d)
      PROVE  IInv'
  <2>1. TypeOK'
    <3>1. /\ pc' \in [Threads -> {"idle", "poll", "read", "serve", "unmask"}]
          /\ deadline' \in [Threads -> {"none", "ahead", "passed"}]
          /\ line' \in BOOLEAN
      BY <1>3, ZenonT(60)
         DEF Expire, PollReady, PollTimeout, WaitFails, ClearCause, CallWait, IInv, TypeOK
    <3>2. calls' \in [Threads -> 0..MaxCalls]
      <4>1. CASE UNCHANGED calls
        BY <4>1 DEF IInv, TypeOK
      <4>2. CASE \E d \in {"none", "ahead"} : CallWait(t, d)
        <5>1. calls[t] \in 0..MaxCalls /\ calls[t] < MaxCalls
          BY <4>2 DEF CallWait, IInv, TypeOK
        <5>2. calls[t] + 1 \in 0..MaxCalls
          BY <5>1, IrqAssumption
        <5>3. calls' = [calls EXCEPT ![t] = calls[t] + 1]
          BY <4>2 DEF CallWait
        <5> QED BY <5>2, <5>3 DEF IInv, TypeOK
      <4> QED BY <1>3, <4>1, <4>2 DEF Expire, PollReady, PollTimeout, WaitFails, ClearCause
    <3>3. UNCHANGED <<masked, event, seen, raises, got>>
      BY <1>3 DEF Expire, PollReady, PollTimeout, WaitFails, ClearCause, CallWait
    <3> QED BY <3>1, <3>2, <3>3 DEF IInv, TypeOK
  <2>2. \A u \in Threads : pc[u] \in {"serve", "unmask"} => pc'[u] \in {"serve", "unmask"}
    BY <1>3 DEF Expire, PollReady, PollTimeout, WaitFails, ClearCause, CallWait, IInv, TypeOK
  <2>3. UNCHANGED <<event, seen, got, masked>>
    BY <1>3 DEF Expire, PollReady, PollTimeout, WaitFails, ClearCause, CallWait
  <2> QED BY <2>1, <2>2, <2>3, QuietStep
<1>4. ASSUME NEW t \in Threads, ReadCount(t) PROVE IInv'
  BY <1>4, ReadStep
<1>5. ASSUME NEW t \in Threads, Unmask(t) PROVE IInv'
  <2>1. TypeOK' /\ ~masked' /\ UNCHANGED <<event, seen, got>>
    BY <1>5 DEF Unmask, IInv, TypeOK
  <2> QED BY <2>1, QuietStep
<1>6. CASE UNCHANGED vars
  BY <1>6 DEF vars, IInv, TypeOK, MaskHasServer, GotInv, DeliveredOnce, Pending
<1> QED BY <1>1, <1>2, <1>3, <1>4, <1>5, <1>6 DEF Next, Step

LEMMA Invariance == Spec => []IInv
<1> QED BY InitIInv, NextIInv, PTL DEF Spec

-----------------------------------------------------------------------------
\* Every variable of irq_wait, irq_unmask and the kernel's side keeps its
\* domain; no descriptor or thread is ahead of the kernel's counter.
THEOREM TypeCorrect == Spec => []TypeOK
<1>1. IInv => TypeOK
  BY DEF IInv
<1> QED BY <1>1, Invariance, PTL

\* However irq_wait calls overlap, fail or time out, a line that the kernel has
\* masked has an interrupt left to deliver or a thread about to unmask it.
THEOREM MaskHasServerHolds == Spec => []MaskHasServer
<1>1. IInv => MaskHasServer
  BY DEF IInv
<1> QED BY <1>1, Invariance, PTL

\* Threads of one Device never both get one interrupt from irq_wait.
THEOREM DeliveredOnceHolds == Spec => []DeliveredOnce
<1>1. IInv => DeliveredOnce
  BY DEF IInv
<1> QED BY <1>1, Invariance, PTL
=============================================================================
