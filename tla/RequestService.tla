--------------------------- MODULE RequestService ---------------------------
(***************************************************************************)
(* What the NPU proxy promises the connections of its tenants, whatever its *)
(* threads do: a request is taken once and settled at most once, with a     *)
(* result, with an error or not at all, and the results of a connection     *)
(* come in the order of its requests.  An error may overtake a result.      *)
(***************************************************************************)
EXTENDS Integers

CONSTANTS Conns, MaxRequests

VARIABLE status   \* of every request of every connection

Requests == Conns \X (1 .. MaxRequests)
Statuses == {"new", "pending", "result", "error", "lost"}

Init == status = [r \in Requests |-> "new"]

Settle(r, from, to) ==
    /\ status[r] = from
    /\ status' = [status EXCEPT ![r] = to]

\* Requests are taken in the order in which the connection carries them.
Taken(r) == \A k \in 1 .. r[2] - 1 : status[<<r[1], k>>] # "new"

Accept(r) == Settle(r, "new", "pending") /\ Taken(r)

\* No tenant of that name: the connection is given up with the request.
Reject(r) == Settle(r, "new", "lost") /\ Taken(r)

\* A result never comes before the result of an earlier request.
Answer(r) ==
    /\ Settle(r, "pending", "result")
    /\ \A k \in r[2] + 1 .. MaxRequests : status[<<r[1], k>>] # "result"

\* The tenant is dropped with the request in its queue.
Refuse(r) == Settle(r, "pending", "error")

\* The run failed, or nobody is there to be answered.
Lose(r) == Settle(r, "pending", "lost")

Next == \E r \in Requests :
            Accept(r) \/ Reject(r) \/ Answer(r) \/ Refuse(r) \/ Lose(r)

Spec == Init /\ [][Next]_status
=============================================================================
