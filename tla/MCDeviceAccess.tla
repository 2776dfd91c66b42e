--------------------------- MODULE MCDeviceAccess ---------------------------
(* Pages of 8 bytes, registers of 4 bits.  lo and big are /dev/mem windows   *)
(* that overlap without sharing their first page, view is a read-only one in *)
(* the first page of big, and sub is a window in a UIO region, which t1 and   *)
(* t2 both use.  lo starts in the middle of a page: its 64-bit registers are *)
(* not at multiples of 8 of its offset.                                      *)
EXTENDS DeviceAccess, TLC

CONSTANTS t1, t2, lo, big, view, sub, uio0

W(base, size, readOnly) == [base |-> base, size |-> size, readOnly |-> readOnly]

MCWindow == (lo :> W(20, 12, FALSE)) @@ (big :> W(8, 24, FALSE))
         @@ (view :> W(8, 8, TRUE)) @@ (sub :> W(44, 4, FALSE))
MCUioLock == [d \in Devices |-> IF d = sub THEN uio0 ELSE NoLock]
MCUioAddr == [d \in Devices |-> IF d = sub THEN 40 ELSE 0]

F(msb, lsb) == [msb |-> msb, lsb |-> lsb]

\* Each thread also makes calls that are refused: unaligned, out of bounds, a
\* write to a read-only window, fields without bits.
MCCalls ==
    (t1 :> {WriteField(lo, 4, F(3, 2), {0, 1}), WriteField(lo, 4, F(2, 3), {0}),
            WriteField(lo, 4, F(4, 0), {0}), Write(lo, 0, 8, {0, 5}),
            Read(view, 0, 8), Write(view, 0, 4, {0}), Update(sub, 0, {0}, {0})})
 @@ (t2 :> {Update(big, 16, {0, 1}, {0, 1, 2}), Write(big, 0, 8, {1, 4, 7}),
            Read(big, 16, 8), Read(big, 24, 4), Update(sub, 0, {1}, {1})})
=============================================================================
