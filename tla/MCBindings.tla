---------------------------- MODULE MCBindings ----------------------------
(* A program over the C ABI or one over the Python binding; two Devices of one   *)
(* window; two LockGuards of the first, one of the second.                       *)
EXTENDS PyDevice

CONSTANTS a, b, g1, g2, g3,
          MaxPythonCalls   \* bound: calls of a Python thread

MCGuardDevice == [g \in Guards |-> IF g = g3 THEN b ELSE a]

\* A w1c field and a plain one.
Bit(n) == [msb |-> n, lsb |-> n]
MCDefinitions == {<<{Bit(0), Bit(1)}, {Bit(0)}>>}

VARIABLE program

mcvars == <<vars, pyvars, regvars, program>>

MCInit ==
    /\ PyInit
    /\ program \in {"c", "python"}

InCProgram(step) == program = "c" /\ step /\ UNCHANGED <<pyvars, regvars, program>>

InPython(step) == program = "python" /\ step /\ UNCHANGED program

MCNext ==
    \/ InCProgram(Next)
    \/ InPython(PyNext) /\ \A t \in Threads : calls'[t] <= MaxPythonCalls

MCSpec ==
    /\ MCInit /\ [][MCNext]_mcvars
    /\ \A t \in Threads :
        WF_mcvars(InCProgram(Step(t))) /\ WF_mcvars(InPython(PyStep(t)))

-----------------------------------------------------------------------------
(* Properties *)

\* LockGuard's with blocks, see BlocksHold; a C program has none.
WithBlockHeld == program = "python" => BlocksHold
=============================================================================
