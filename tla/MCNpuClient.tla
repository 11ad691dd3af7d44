----------------------------- MODULE MCNpuClient ----------------------------
EXTENDS NpuClient
=============================================================================
