----------------------------- MODULE Allocations ----------------------------
(***************************************************************************)
(* Device memory as the two memory hooks see it: what the driver holds,    *)
(* and the allocation or the free that each thread is in.                  *)
(***************************************************************************)
EXTENDS Calls, Totals

CONSTANTS
    Ptrs,           \* device pointers
    Sizes,          \* bytes an allocation asks for
    NoPtr

VARIABLES
    live,           \* bytes the driver holds at a pointer, 0 if free
    ptr, bytes      \* per thread: the pointer and the size of its call

LiveBytes == Total(live)
=============================================================================
