-------------------------------- MODULE Calls -------------------------------
(***************************************************************************)
(* The threads of one process, each at a place of the call it is in.       *)
(***************************************************************************)
CONSTANT Threads

VARIABLE pc     \* per thread

Transition(t, from, to) == pc[t] = from /\ pc' = [pc EXCEPT ![t] = to]
=============================================================================
