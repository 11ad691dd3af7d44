---------------------------- MODULE MCKillerGate ----------------------------
EXTENDS KillerGate

\* Two tenants with slices of 2 and 1 microseconds, and a policy that starves
\* tenant 1 (weight 0) and leaves the round length to the default.
TwoPolicies ==
    { [round_duration_us |-> 3, weights |-> [i \in Tenants |-> 2 - (i % 2)]],
      [round_duration_us |-> 0, weights |-> [i \in Tenants |-> 1 - (i % 2)]] }

OnePolicy ==
    { [round_duration_us |-> 2, weights |-> [i \in Tenants |-> 1]] }
=============================================================================
