----------------------------- MODULE MCGateCore -----------------------------
EXTENDS GateCore

\* unlimited, blocked, a balance within the cap and one above it
SomeCredits == {-1, 0, 1, CREDIT_CAP_US + 1}
=============================================================================
