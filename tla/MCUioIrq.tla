------------------------------ MODULE MCUioIrq ------------------------------
(* Two threads sharing one Device and, in the passing instance, a third with *)
(* a Device of its own on the same /dev/uioN.                                *)
EXTENDS UioIrq, TLC

CONSTANTS t1, t2, t3, f1, f2

TwoFiles == (t1 :> f1) @@ (t2 :> f1) @@ (t3 :> f2)
OneFile == [t \in Threads |-> f1]
=============================================================================
