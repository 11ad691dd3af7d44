------------------------------ MODULE GateCore ------------------------------
(***************************************************************************)
(* The request gate of the NPU proxy (gate_core.py).  One scheduler thread  *)
(* takes one request at a time from the tenants' queues and runs it on the *)
(* only runner of the PE, then sends the reply before it takes the next;    *)
(* connection, control and admin threads change the tenants meanwhile.     *)
(* Every method holds the lock, except that step() releases it while the    *)
(* request runs: Dispatch and Finish are two actions and anything may      *)
(* happen between them.                                                    *)
(***************************************************************************)
EXTENDS Integers

CONSTANTS
    Names,           \* tenant names
    CREDIT_CAP_US,   \* cap of the balance
    MaxRunUs,        \* longest run of a request
    Adds,            \* budgets the feeder injects (time_add)
    Credits,         \* arguments of time_credit; negative is unlimited
    work_conserving, \* GateCore(work_conserving=...)
    LEGACY_REPAY,    \* environment switch for the former accounting
    NoRun,           \* nothing is running
    MaxGranted,      \* bound: budget granted to a tenant
    MaxSubmits       \* bound: requests submitted in all

ASSUME GateAssumption ==
    /\ CREDIT_CAP_US \in Nat /\ MaxRunUs \in Nat
    /\ Adds \subseteq Nat /\ Credits \subseteq Int
    /\ work_conserving \in BOOLEAN /\ LEGACY_REPAY \in BOOLEAN
    /\ NoRun \notin Names
    /\ MaxGranted \in Nat /\ MaxSubmits \in Nat

VARIABLES
    registered,   \* name in _tenants
    queue,        \* length of the queue (requests are alike here)
    armed, unlimited, credit_us, granted_us, charged_us, last_run_t,
    running,      \* the tenant whose request runs, or NoRun
    sending,      \* the scheduler thread is in sendall of the reply
    extra,        \* step()'s local: the request rides on idle time
    orphan,       \* its tenant object has been dropped from _tenants
    disarmed,     \* history: the tenant has received time_mode 0
    submits, now  \* requests submitted; runs finished (the clock)

balance == <<credit_us, granted_us, charged_us>>
gate    == <<armed, unlimited, disarmed>>
run     == <<running, sending, extra, orphan>>
count   == <<submits, now>>
vars    == <<registered, queue, gate, balance, last_run_t, run, count>>

TypeOK ==
    /\ registered \in [Names -> BOOLEAN]
    /\ queue \in [Names -> Nat]
    /\ armed \in [Names -> BOOLEAN]
    /\ unlimited \in [Names -> BOOLEAN]
    /\ disarmed \in [Names -> BOOLEAN]
    /\ credit_us \in [Names -> Int]
    /\ granted_us \in [Names -> Int]
    /\ charged_us \in [Names -> Nat]
    /\ last_run_t \in [Names -> Nat]
    /\ running \in Names \cup {NoRun}
    /\ sending \in BOOLEAN
    /\ extra \in BOOLEAN
    /\ orphan \in BOOLEAN
    /\ submits \in 0 .. MaxSubmits
    /\ now \in Nat

Init ==
    /\ registered = [t \in Names |-> FALSE]
    /\ queue = [t \in Names |-> 0]
    /\ armed = [t \in Names |-> FALSE]
    /\ unlimited = [t \in Names |-> TRUE]
    /\ disarmed = [t \in Names |-> FALSE]
    /\ credit_us = [t \in Names |-> 0]
    /\ granted_us = [t \in Names |-> 0]
    /\ charged_us = [t \in Names |-> 0]
    /\ last_run_t = [t \in Names |-> 0]
    /\ running = NoRun
    /\ sending = FALSE
    /\ extra = FALSE
    /\ orphan = FALSE
    /\ submits = 0
    /\ now = 0

Capped(v) == IF v > CREDIT_CAP_US THEN CREDIT_CAP_US ELSE v

-----------------------------------------------------------------------------
(* Tenants *)

\* register creates a fresh Tenant unless the name is there already.
Register(t) ==
    /\ ~registered[t]
    /\ registered' = [registered EXCEPT ![t] = TRUE]
    /\ queue' = [queue EXCEPT ![t] = 0]
    /\ armed' = [armed EXCEPT ![t] = FALSE]
    /\ unlimited' = [unlimited EXCEPT ![t] = TRUE]
    /\ disarmed' = [disarmed EXCEPT ![t] = FALSE]
    /\ credit_us' = [credit_us EXCEPT ![t] = 0]
    /\ granted_us' = [granted_us EXCEPT ![t] = 0]
    /\ charged_us' = [charged_us EXCEPT ![t] = 0]
    /\ last_run_t' = [last_run_t EXCEPT ![t] = 0]
    /\ UNCHANGED <<run, count>>

\* unregister hands the queue to its caller; a request that is running keeps
\* the old object, whose accounting nobody sees any more.
Unregister(t) ==
    /\ registered[t]
    /\ registered' = [registered EXCEPT ![t] = FALSE]
    /\ queue' = [queue EXCEPT ![t] = 0]
    /\ orphan' = (orphan \/ running = t)
    /\ UNCHANGED <<gate, balance, last_run_t, running, sending, extra, count>>

Submit(t) ==
    /\ registered[t]
    /\ submits < MaxSubmits
    /\ queue' = [queue EXCEPT ![t] = @ + 1]
    /\ submits' = submits + 1
    /\ UNCHANGED <<registered, gate, balance, last_run_t, run, now>>

-----------------------------------------------------------------------------
(* Control commands: cmd *)

\* Arming also ends "unlimited"; disarming leaves it.
TimeMode(t, on) ==
    /\ registered[t]
    /\ armed' = [armed EXCEPT ![t] = on]
    /\ unlimited' = [unlimited EXCEPT ![t] = @ /\ ~on]
    /\ disarmed' = [disarmed EXCEPT ![t] = @ \/ ~on]
    /\ UNCHANGED <<registered, queue, balance, last_run_t, run, count>>

TimeCredit(t, v) ==
    /\ registered[t]
    /\ unlimited' = [unlimited EXCEPT ![t] = v < 0]
    /\ credit_us' = [credit_us EXCEPT ![t] = IF v < 0 THEN 0 ELSE Capped(v)]
    /\ UNCHANGED <<registered, queue, armed, disarmed, granted_us,
                   charged_us, last_run_t, run, count>>

\* Faulty variant: budget that the cap throws away counts as granted.
TimeAddGrantsAll(t, v) ==
    /\ registered[t]
    /\ granted_us[t] + v <= MaxGranted
    /\ credit_us' = [credit_us EXCEPT ![t] = Capped(@ + v)]
    /\ granted_us' = [granted_us EXCEPT ![t] = @ + v]
    /\ UNCHANGED <<registered, queue, gate, charged_us, last_run_t, run, count>>

\* Only what the cap lets in counts as granted.
TimeAdd(t, v) ==
    /\ registered[t]
    /\ granted_us[t] + v <= MaxGranted
    /\ credit_us' = [credit_us EXCEPT ![t] = Capped(@ + v)]
    /\ granted_us' = [granted_us EXCEPT ![t] =
           @ + (IF LEGACY_REPAY THEN v ELSE Capped(credit_us[t] + v) - credit_us[t])]
    /\ UNCHANGED <<registered, queue, gate, charged_us, last_run_t, run, count>>

-----------------------------------------------------------------------------
(* step: choice, run, accounting *)

\* Faulty variant: tenants without requests count as ready.
ReadyAlways == {t \in Names : registered[t]}

Ready      == {t \in Names : registered[t] /\ queue[t] > 0}
Candidates == {t \in Ready : unlimited[t] \/ ~armed[t] \/ credit_us[t] > 0}

\* _key: the contract ratio charged / max(granted, 1), then the time of the
\* last run.  Ratios are compared by cross multiplication.
Share(t) == IF granted_us[t] > 1 THEN granted_us[t] ELSE 1

KeyLeq(t, u) ==
    LET a == charged_us[t] * Share(u)
        b == charged_us[u] * Share(t)
    IN  a < b \/ (a = b /\ last_run_t[t] <= last_run_t[u])

\* min(S, key=_key), ties in either order
Chosen(S) == {t \in S : \A u \in S : KeyLeq(t, u)}

\* _eligible: a contract run while some ready tenant qualifies for one ...
Contract == Chosen(Candidates)

\* Faulty variant: with all credit spent the PE idles although there is work.
NoRide == {}

\* ... and otherwise, if work conserving, a ride on the idle PE.
Ride == IF Candidates = {} /\ work_conserving THEN Chosen(Ready) ELSE {}

\* The first half of step(): pop the request and let go of the lock.
Start(t, ride) ==
    /\ running = NoRun
    /\ ~sending
    /\ running' = t
    /\ extra' = ride
    /\ orphan' = FALSE
    /\ queue' = [queue EXCEPT ![t] = @ - 1]
    /\ UNCHANGED <<registered, gate, balance, last_run_t, sending, count>>

Dispatch ==
    \/ \E t \in Contract : Start(t, FALSE)
    \/ \E t \in Ride : Start(t, TRUE)

\* Faulty variant: a ride is paid for like a contract run.
FinishCharges(d) ==
    /\ running # NoRun
    /\ running' = NoRun
    /\ sending' = TRUE
    /\ extra' = FALSE
    /\ orphan' = FALSE
    /\ now' = now + 1
    /\ charged_us' = [charged_us EXCEPT ![running] = @ + d]
    /\ credit_us' = [credit_us EXCEPT ![running] = @ - d]
    /\ last_run_t' = [last_run_t EXCEPT ![running] = now + 1]
    /\ UNCHANGED <<registered, queue, gate, granted_us, submits>>

\* The accounting of a run of d microseconds.  A ride leaves the contract
\* alone; a contract run is charged, and paid for if the gate is armed now.
Finish(d) ==
    /\ running # NoRun
    /\ running' = NoRun
    /\ sending' = TRUE
    /\ extra' = FALSE
    /\ orphan' = FALSE
    /\ now' = now + 1
    /\ LET t        == running
           contract == ~orphan /\ (~extra \/ LEGACY_REPAY)
           pays     == contract /\ armed[t] /\ ~unlimited[t]
       IN  /\ charged_us' = IF contract
                            THEN [charged_us EXCEPT ![t] = @ + d] ELSE charged_us
           /\ credit_us' = IF pays
                           THEN [credit_us EXCEPT ![t] = @ - d] ELSE credit_us
           /\ last_run_t' = IF orphan THEN last_run_t
                            ELSE [last_run_t EXCEPT ![t] = now + 1]
    /\ UNCHANGED <<registered, queue, gate, granted_us, submits>>

\* The runner raises: the request is gone and nothing is accounted.
RunFails ==
    /\ running # NoRun
    /\ running' = NoRun
    /\ extra' = FALSE
    /\ orphan' = FALSE
    /\ UNCHANGED <<registered, queue, gate, balance, last_run_t, sending, count>>

\* sendall returns, also when the client has left.  It has no timeout: while
\* a client does not read its replies the scheduler thread stays here.
Sent ==
    /\ sending
    /\ sending' = FALSE
    /\ UNCHANGED <<registered, queue, gate, balance, last_run_t, running, extra,
                   orphan, count>>

-----------------------------------------------------------------------------
Control(t) ==
    \/ \E on \in BOOLEAN : TimeMode(t, on)
    \/ \E v \in Credits : TimeCredit(t, v)
    \/ \E v \in Adds : TimeAdd(t, v)

Complete == (\E d \in 0 .. MaxRunUs : Finish(d)) \/ RunFails

Next ==
    \/ \E t \in Names : Register(t) \/ Unregister(t) \/ Submit(t) \/ Control(t)
    \/ Dispatch
    \/ Complete
    \/ Sent

Spec == Init /\ [][Next]_vars

\* The scheduler loop calls step() again and again and a run ends; nothing is
\* assumed of feeder and administrator, nor of clients, which need not read
\* what they are sent (no fairness of Sent).
LiveSpec == Spec /\ WF_vars(Dispatch) /\ WF_vars(Complete)

-----------------------------------------------------------------------------
(* Properties *)

\* The balance never exceeds the cap, and a tenant whose gate was never
\* disarmed owes at most one run: it is chosen only with a positive balance,
\* or before it was armed, when it owed nothing.
DebtBounded ==
    ~LEGACY_REPAY =>
        \A t \in Names : registered[t] =>
            /\ credit_us[t] <= CREDIT_CAP_US
            /\ ~disarmed[t] => credit_us[t] >= -MaxRunUs

\* Nothing is lost between the three accounts of a gated tenant: what is
\* granted enters the balance, what is charged leaves it, a ride touches
\* neither.  Only time_credit may break the sum.
ContractConserved ==
    [][~LEGACY_REPAY =>
       \A t \in Names :
           registered[t] /\ registered'[t] /\ armed[t] /\ ~unlimited[t] =>
               \/ credit_us'[t] - granted_us'[t] + charged_us'[t]
                      = credit_us[t] - granted_us[t] + charged_us[t]
               \/ \E v \in Credits : TimeCredit(t, v)]_vars

\* Credit says who is next, not whether to stop (_eligible, lines 164-179, and
\* src/README.md:33): once no more requests arrive, every queue empties,
\* whatever the balances are and the commands do, unless some client stops
\* reading for ever and the scheduler thread with it.  The docstrings of
\* gate_core.py (lines 15-16) and npu_proxy.py (line 22) and
\* npu_proxy/README.md:58 say the contrary, that the PE idles when all credit
\* is spent; that holds of work_conserving = FALSE, which no caller passes.
NoStall ==
    work_conserving =>
        (\A t \in Names : queue[t] > 0 ~> queue[t] = 0) \/ <>[]sending
=============================================================================
