--------------------------- MODULE MCPriorityGate ---------------------------
EXTENDS PriorityGate

\* the three priorities and an argument out of range
AnyRequest == Priority \cup {"OUT_OF_RANGE"}
=============================================================================
