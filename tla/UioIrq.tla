-------------------------------- MODULE UioIrq --------------------------------
(***************************************************************************)
(* UIO interrupts: Device::irq_wait and irq_unmask (device.rs, mmio.rs),   *)
(* called by threads that share a descriptor of /dev/uioN (one Device) or  *)
(* have their own.                                                         *)
(*                                                                         *)
(* The kernel side is what the code relies on: a level-triggered line that *)
(* uio_pdrv_genirq masks when it fires, a counter `event' per device and,  *)
(* per open descriptor, the count last read; poll reports POLLIN, and read *)
(* returns without blocking, only when the two differ.                     *)
(*                                                                         *)
(* A signal (EINTR) makes poll, read and write be called again, and so     *)
(* does poll's i32::MAX cap before the deadline: none of these is a step.  *)
(* An irq_unmask that fails changes nothing and leaves its caller owing it. *)
(***************************************************************************)
EXTENDS Naturals

CONSTANTS Threads, Files,
          FileOf,      \* [Threads -> Files]: the descriptor a thread's Device holds
          MaxRaises,   \* bound: times the peripheral asserts its interrupt
          MaxCalls     \* bound: irq_wait calls per thread

ASSUME IrqAssumption ==
    /\ FileOf \in [Threads -> Files] /\ Files # {}
    /\ MaxRaises \in Nat /\ MaxCalls \in Nat

VARIABLES
    line,     \* the peripheral asserts its interrupt
    masked,   \* the kernel has disabled the line
    event,    \* interrupts handled by the kernel so far
    seen,     \* seen[f]: counter value last read through descriptor f
    raises,
    pc,       \* where in its wait-serve-unmask loop a thread is
    deadline, \* of the call in progress: "none" (Duration::MAX), "ahead" or "passed"
    got,      \* got[t]: last count irq_wait returned to t
    calls

vars == <<line, masked, event, seen, raises, pc, deadline, got, calls>>

Init ==
    /\ line = FALSE /\ masked = FALSE
    /\ event = 0 /\ raises = 0
    /\ seen = [f \in Files |-> 0]
    /\ pc = [t \in Threads |-> "idle"]
    /\ deadline = [t \in Threads |-> "none"]
    /\ got = [t \in Threads |-> 0]
    /\ calls = [t \in Threads |-> 0]

Pending(f) == event # seen[f]

-----------------------------------------------------------------------------
(* The peripheral and the kernel *)

Raise ==
    /\ ~line /\ raises < MaxRaises
    /\ line' = TRUE
    /\ raises' = raises + 1
    /\ UNCHANGED <<masked, event, seen, pc, deadline, got, calls>>

\* The handler counts the interrupt and disables the line.
Fire ==
    /\ line /\ ~masked
    /\ masked' = TRUE
    /\ event' = event + 1
    /\ UNCHANGED <<line, seen, raises, pc, deadline, got, calls>>

-----------------------------------------------------------------------------
(* irq_wait *)

\* d is "ahead", or "none" when Instant::now() + timeout overflows.
CallWait(t, d) ==
    /\ pc[t] = "idle" /\ calls[t] < MaxCalls
    /\ calls' = [calls EXCEPT ![t] = @ + 1]
    /\ deadline' = [deadline EXCEPT ![t] = d]
    /\ pc' = [pc EXCEPT ![t] = "poll"]
    /\ UNCHANGED <<line, masked, event, seen, raises, got>>

Expire(t) ==
    /\ pc[t] \in {"poll", "read"} /\ deadline[t] = "ahead"
    /\ deadline' = [deadline EXCEPT ![t] = "passed"]
    /\ UNCHANGED <<line, masked, event, seen, raises, pc, got, calls>>

\* Mutant of PollReady: any return of poll counts as ready.
PollAlwaysReady(t) ==
    /\ pc[t] = "poll"
    /\ pc' = [pc EXCEPT ![t] = "read"]
    /\ UNCHANGED <<line, masked, event, seen, raises, deadline, got, calls>>

\* poll reports POLLIN.
PollReady(t) ==
    /\ pc[t] = "poll" /\ Pending(FileOf[t])
    /\ pc' = [pc EXCEPT ![t] = "read"]
    /\ UNCHANGED <<line, masked, event, seen, raises, deadline, got, calls>>

\* poll returns 0 at the deadline: Ok(None).
PollTimeout(t) ==
    /\ pc[t] = "poll" /\ deadline[t] = "passed" /\ ~Pending(FileOf[t])
    /\ pc' = [pc EXCEPT ![t] = "idle"]
    /\ UNCHANGED <<line, masked, event, seen, raises, deadline, got, calls>>

\* Mutant of ReadCount: returns the number of the next interrupt.
ReadNextCount(t) ==
    /\ pc[t] = "read" /\ Pending(FileOf[t])
    /\ seen' = [seen EXCEPT ![FileOf[t]] = event]
    /\ got' = [got EXCEPT ![t] = event + 1]
    /\ pc' = [pc EXCEPT ![t] = "serve"]
    /\ UNCHANGED <<line, masked, event, raises, deadline, calls>>

\* Mutant of ReadCount: the count is consumed but reported as no interrupt.
ReadCountDropped(t) ==
    /\ pc[t] = "read" /\ Pending(FileOf[t])
    /\ seen' = [seen EXCEPT ![FileOf[t]] = event]
    /\ pc' = [pc EXCEPT ![t] = "idle"]
    /\ UNCHANGED <<line, masked, event, raises, deadline, got, calls>>

\* Mutant of ReadCount: a failed read returns the buffer as it is.
ReadCountStale(t) ==
    /\ pc[t] = "read"
    /\ seen' = [seen EXCEPT ![FileOf[t]] = event]
    /\ got' = [got EXCEPT ![t] = event]
    /\ pc' = [pc EXCEPT ![t] = "serve"]
    /\ UNCHANGED <<line, masked, event, raises, deadline, calls>>

\* The blocking 4-byte read: Ok(Some(count)).
ReadCount(t) ==
    /\ pc[t] = "read" /\ Pending(FileOf[t])
    /\ seen' = [seen EXCEPT ![FileOf[t]] = event]
    /\ got' = [got EXCEPT ![t] = event]
    /\ pc' = [pc EXCEPT ![t] = "serve"]
    /\ UNCHANGED <<line, masked, event, raises, deadline, calls>>

\* poll or read fails: the error is returned.
WaitFails(t) ==
    /\ pc[t] \in {"poll", "read"}
    /\ pc' = [pc EXCEPT ![t] = "idle"]
    /\ UNCHANGED <<line, masked, event, seen, raises, deadline, got, calls>>

-----------------------------------------------------------------------------
(* The caller, in the order irq_unmask documents: clear the cause, then unmask *)

ClearCause(t) ==
    /\ pc[t] = "serve"
    /\ line' = FALSE
    /\ pc' = [pc EXCEPT ![t] = "unmask"]
    /\ UNCHANGED <<masked, event, seen, raises, deadline, got, calls>>

\* Mutant of Unmask: writes 0.
UnmaskWritesZero(t) ==
    /\ pc[t] = "unmask"
    /\ masked' = TRUE
    /\ pc' = [pc EXCEPT ![t] = "idle"]
    /\ UNCHANGED <<line, event, seen, raises, deadline, got, calls>>

\* irq_unmask: write 1 to the descriptor.
Unmask(t) ==
    /\ pc[t] = "unmask"
    /\ masked' = FALSE
    /\ pc' = [pc EXCEPT ![t] = "idle"]
    /\ UNCHANGED <<line, event, seen, raises, deadline, got, calls>>

Step(t) == PollReady(t) \/ PollTimeout(t) \/ ReadCount(t) \/ ClearCause(t) \/ Unmask(t)

Next ==
    \/ Raise \/ Fire
    \/ \E t \in Threads :
          \/ Step(t) \/ Expire(t) \/ WaitFails(t)
          \/ \E d \in {"none", "ahead"} : CallWait(t, d)

\* The kernel handles an unmasked line, clocks advance and threads run; whether
\* an interrupt is raised, a call made or an error returned is nobody's duty.
Fairness ==
    /\ WF_vars(Fire)
    /\ \A t \in Threads : WF_vars(Step(t)) /\ WF_vars(Expire(t))

Spec == Init /\ [][Next]_vars /\ Fairness

-----------------------------------------------------------------------------
(* Properties *)

TypeOK ==
    /\ line \in BOOLEAN /\ masked \in BOOLEAN
    /\ event \in Nat /\ raises \in 0..MaxRaises
    /\ seen \in [Files -> 0..event]
    /\ pc \in [Threads -> {"idle", "poll", "read", "serve", "unmask"}]
    /\ deadline \in [Threads -> {"none", "ahead", "passed"}]
    /\ got \in [Threads -> 0..event]
    /\ calls \in [Threads -> 0..MaxCalls]

\* The line is never left disabled with nobody to enable it: a masked line has
\* an interrupt some descriptor has yet to deliver, or a thread that was given
\* it and has not unmasked.
MaskHasServer ==
    masked => \/ \E f \in Files : Pending(f)
              \/ \E t \in Threads : pc[t] \in {"serve", "unmask"}

\* Two waits never return the same interrupt through one descriptor.
DeliveredOnce ==
    \A t, u \in Threads :
        t # u /\ FileOf[t] = FileOf[u] /\ got[t] = got[u] => got[t] = 0

\* t is the only thread that waits on its descriptor.
Alone(t) == \A u \in Threads \ {t} : FileOf[u] # FileOf[t]

Waiting(t) == pc[t] \in {"poll", "read"}

\* "Ok(None) if the timeout elapsed before an interrupt arrived" (device.rs):
\* a wait is over some time after its deadline, interrupt or not.
WaitEndsAfterDeadline ==
    \A t \in Threads : Waiting(t) /\ deadline[t] = "passed" ~> ~Waiting(t)

\* The same of threads that do not share their Device with another waiter.
LoneWaitEnds ==
    \A t \in Threads :
        Alone(t) => (Waiting(t) /\ deadline[t] = "passed" ~> ~Waiting(t))

\* An asserted interrupt does not go unserved while somebody waits: the wait
\* ends, or another thread given the interrupt clears it.  No mask, count or
\* error left over from earlier calls makes the waiters sleep through.
RaisedIsServed ==
    \A t \in Threads : Waiting(t) /\ line ~> ~Waiting(t) \/ ~line
=============================================================================
