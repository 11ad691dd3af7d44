----------------------------- MODULE MCTimeGate -----------------------------
EXTENDS TimeGate

\* unlimited, and blocked
SomeCredits == {-1, 0}

\* a refused limit, and a loan of one microsecond
SomeLimits == {-1, 1}
=============================================================================
