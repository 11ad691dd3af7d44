----------------------------- MODULE MCNpuProxy -----------------------------
EXTENDS NpuProxy

\* All connections belong to the same tenant.
OneTenant == [c \in Conns |-> CHOOSE n \in Names : TRUE]
=============================================================================
