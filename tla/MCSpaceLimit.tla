---------------------------- MODULE MCSpaceLimit ----------------------------
EXTENDS SpaceLimit

\* In QMD mode the request of the environment and one command are two masks.
CommandsByMode == [m \in SpaceModes |-> IF m = "CTX" THEN 2 ELSE 1]
=============================================================================
