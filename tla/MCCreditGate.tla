---------------------------- MODULE MCCreditGate ----------------------------
EXTENDS CreditGate

\* a negative argument, exhausted, less than a burst, a burst, and more
SomeQuotas == {-2, 0, 2, 3, 5}
=============================================================================
