--------------------------- MODULE MCSlotRegistry ---------------------------
EXTENDS SlotRegistry

\* two processes of tenant "a", one each of "b" and "c"; "c" has no environment
Four    == {1, 2, 3, 4}
FourIds == <<"a", "a", "b", "c">>
FourSM  == <<2, 2, 1, 0>>
FourMem == <<1, 1, 1, 0>>
=============================================================================
