--------------------------- MODULE RegisterWindow ---------------------------
(***************************************************************************)
(* The address arithmetic of a mapped window: pages, page locks, the check *)
(* of an access (device.rs, check_access), the layout check of an          *)
(* Interface and the mapping behind a window (memregs.rs, mmio.rs).        *)
(* Addresses, offsets and sizes count bytes.  A window is a record of its  *)
(* base, its size and whether it was opened read-only; it ends below 2^64, *)
(* which Preflight's windows and Interface::validate_layout ensure.        *)
(***************************************************************************)
EXTENDS Integers

CONSTANT PageSize

\* Width::bytes.
Widths == {1, 2, 4, 8}

\* sysconf(_SC_PAGESIZE) or 4096: a page holds whole registers of every width.
ASSUME PageAssumption ==
    /\ PageSize \in Nat \ {0}
    /\ \E k \in 1..PageSize : PageSize = 8 * k

Windows == [base : Nat, size : Nat \ {0}, readOnly : BOOLEAN]

\* address & !(page_size - 1)
PageOf(a) == a - (a % PageSize)

\* The pages Device::lock takes: how many, and the i-th of them.
PageCount(w) == ((PageOf(w.base + w.size - 1) - PageOf(w.base)) \div PageSize) + 1
PageNumber(w, i) == PageOf(w.base) + (i - 1) * PageSize

-----------------------------------------------------------------------------
(* check_access: the error an access gets, or "ok" *)

Unaligned(w, offset, bytes) ==
    offset % bytes # 0 \/ (w.base + offset) % bytes # 0

\* Mutant of CheckAccess: only the offset is aligned, not the address.
CheckAccessOffsetOnly(w, offset, bytes, write) ==
    CASE write /\ w.readOnly -> "E_READ_ONLY"
      [] offset % bytes # 0 -> "E_UNALIGNED_WIDTH"
      [] offset + bytes > w.size -> "E_OUT_OF_BOUNDS"
      [] OTHER -> "ok"

\* The order of the checks decides the error a caller sees.
CheckAccess(w, offset, bytes, write) ==
    IF write /\ w.readOnly THEN "E_READ_ONLY"
    ELSE IF Unaligned(w, offset, bytes) THEN "E_UNALIGNED_WIDTH"
    ELSE IF offset + bytes > w.size THEN "E_OUT_OF_BOUNDS"
    ELSE "ok"

\* The physical bytes of an access.
Bytes(w, offset, bytes) == w.base + offset .. w.base + offset + bytes - 1

\* Interface::validate_layout, for registers at the given offsets.
LayoutValid(w, offsets) ==
    /\ w.base % 4 = 0
    /\ w.size # 0
    /\ \A o \in offsets : o % 4 = 0 /\ o + 4 <= w.size

-----------------------------------------------------------------------------
(* Mapping: which byte of the mmap an offset of the window is *)

\* map_devmem maps from the window's page.
DevMemOffset(w) == w.base - PageOf(w.base)

\* uio_data_offset: the kernel maps a UIO region from the page that holds its
\* address addr; the window lies in the region.
UioOffset(addr, w) == w.base - PageOf(addr)

\* Mapping::new: the length of the mmap.
MapLength(dataOffset, w) == dataOffset + w.size

\* Mapping::register: the assertion under every volatile access.
RegisterInMapping(dataOffset, w, offset, bytes) ==
    LET at == dataOffset + offset
    IN  at % bytes = 0 /\ at + bytes <= MapLength(dataOffset, w)
=============================================================================
