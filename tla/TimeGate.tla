------------------------------ MODULE TimeGate ------------------------------
(***************************************************************************)
(* The time credit gate of libbless.  The threads of one process launch    *)
(* kernels; in time mode a launch first passes time_credit_gate(), then    *)
(* opens (or joins) the thread's batch, whose wall-clock time is charged   *)
(* to the process-wide balance time_credit_us when the thread synchronises. *)
(* A control thread executes the feeder's commands meanwhile.              *)
(*                                                                         *)
(* Time is not a variable: a batch costs any amount up to MaxBatchUs.  Two  *)
(* inputs of the control thread are read in one place only and are chosen  *)
(* where they are read: pause/resume (a launch is held for any time) and   *)
(* peer_idle (fresh, stale or absent each time a waiting thread looks).    *)
(***************************************************************************)
EXTENDS Integers, FiniteSets

CONSTANTS
    Threads,
    MaxBatchUs,    \* longest batch between two synchronisations
    UrgentLimits,  \* arguments of urgent_limit; the largest is the default
    Adds,          \* arguments of time_add
    Credits,       \* arguments of time_credit; negative is unlimited
    WcOn,          \* BLESS_TIME_WC
    NoStore,       \* the control thread is between two commands
    MaxCredit,     \* bound: time_add is not sent beyond this balance
    MaxDebt        \* bound: a boosted thread does not launch below -MaxDebt

Most(S) == CHOOSE x \in S : \A y \in S : x >= y

ASSUME TimeAssumption ==
    /\ IsFiniteSet(Threads) /\ Threads # {}
    /\ MaxBatchUs \in Nat \ {0} /\ MaxCredit \in Nat /\ MaxDebt \in Nat
    /\ UrgentLimits \subseteq Int
    /\ \E l \in UrgentLimits : l >= 0 /\ \A m \in UrgentLimits : l >= m
    /\ Adds \subseteq Nat /\ Credits \subseteq Int /\ NoStore \notin Int
    /\ WcOn \in BOOLEAN

VARIABLES
    \* set by the control thread
    credit_mode, time_unlimited, boost_mode,
    current_priority,   \* URGENT or not
    urgent_limit_us,
    storing,            \* time_credit between its two stores: the value to store
    boosted,            \* history: boost_mode has been on
    \* shared
    time_credit_us,
    \* per thread
    pc,
    credit, wake_at,    \* locals of time_credit_gate
    open,               \* tl_batch_kernel_count > 0
    tl_wc_riding,
    elapsed             \* local of time_batch_end_and_charge

config  == <<credit_mode, boost_mode, current_priority, urgent_limit_us, boosted>>
control == <<config, time_unlimited, storing>>
locals  == <<credit, wake_at>>
batch   == <<open, tl_wc_riding, elapsed>>
vars    == <<control, time_credit_us, pc, locals, batch>>

TypeOK ==
    /\ credit_mode \in {0, 1}
    /\ time_unlimited \in BOOLEAN /\ boost_mode \in BOOLEAN
    /\ boosted \in BOOLEAN
    /\ current_priority \in {"URGENT", "NORMAL"}
    /\ urgent_limit_us \in UrgentLimits /\ urgent_limit_us >= 0
    /\ storing = NoStore \/ storing \in Int
    /\ time_credit_us \in Int
    /\ pc \in [Threads -> {"app", "held", "gate", "credit", "borrow",
                           "settle", "settle_deduct", "arm", "wait", "poll", "passed",
                           "sync", "sync_deduct"}]
    /\ credit \in [Threads -> Int] /\ wake_at \in [Threads -> Int]
    /\ open \in [Threads -> BOOLEAN]
    /\ tl_wc_riding \in [Threads -> BOOLEAN]
    /\ elapsed \in [Threads -> 0 .. MaxBatchUs]

Init ==
    /\ credit_mode = 0
    /\ time_unlimited = TRUE /\ boost_mode = FALSE
    /\ current_priority = "NORMAL"
    /\ urgent_limit_us = Most(UrgentLimits)
    /\ storing = NoStore /\ boosted = FALSE
    /\ time_credit_us = -1
    /\ pc = [t \in Threads |-> "app"]
    /\ credit = [t \in Threads |-> 0] /\ wake_at = [t \in Threads |-> 0]
    /\ open = [t \in Threads |-> FALSE]
    /\ tl_wc_riding = [t \in Threads |-> FALSE]
    /\ elapsed = [t \in Threads |-> 0]

Goto(t, label) == pc' = [pc EXCEPT ![t] = label]
Transition(t, from, to) == pc[t] = from /\ Goto(t, to)

-----------------------------------------------------------------------------
(* The launch interceptors, up to the credit gate *)

\* Before the credit gate a launch waits while the process is paused (or an
\* urgent peer is pending), whatever the state of the thread's batch: Unheld
\* comes at any time, or never.
Launch(t) ==
    /\ Transition(t, "app", "held")
    /\ UNCHANGED <<control, time_credit_us, locals, batch>>

\* credit_mode selects the gate; kernel_credit_gate is module CreditGate.
Unheld(t) ==
    /\ Transition(t, "held", IF credit_mode = 1 THEN "gate" ELSE "app")
    /\ UNCHANGED <<control, time_credit_us, locals, batch>>

-----------------------------------------------------------------------------
(* time_credit_gate *)

ReadFlags(t) ==
    /\ boost_mode => time_credit_us >= -MaxDebt
    /\ Transition(t, "gate", IF boost_mode \/ time_unlimited
                             THEN "passed" ELSE "credit")
    /\ UNCHANGED <<control, time_credit_us, locals, batch>>

ReadCredit(t) ==
    /\ Transition(t, "credit", IF time_credit_us > 0 THEN "passed" ELSE "borrow")
    /\ credit' = [credit EXCEPT ![t] = time_credit_us]
    /\ UNCHANGED <<control, time_credit_us, wake_at, batch>>

\* Faulty variant: an urgent thread borrows without looking at the limit.
BorrowAny(t) ==
    /\ Transition(t, "borrow", IF current_priority = "URGENT"
                               THEN "passed" ELSE "settle")
    /\ UNCHANGED <<control, time_credit_us, locals, batch>>

\* URGENT passes while the balance it has read is within the loan limit.
Borrow(t) ==
    /\ Transition(t, "borrow",
                  IF current_priority = "URGENT" /\ credit[t] > -urgent_limit_us
                  THEN "passed" ELSE "settle")
    /\ UNCHANGED <<control, time_credit_us, locals, batch>>

\* wake_at is computed once, from the priority at this moment.
Arm(t) ==
    LET w == IF current_priority = "URGENT" THEN -urgent_limit_us ELSE 0
    IN  /\ Transition(t, "arm", IF credit[t] <= w THEN "wait" ELSE "passed")
        /\ wake_at' = [wake_at EXCEPT ![t] = w]
        /\ credit' = [credit EXCEPT ![t] = 0]
        /\ UNCHANGED <<control, time_credit_us, batch>>

\* What peer_idle says when it is read: an idle peer not longer than 20 ms ago.
PeerIdle == {FALSE, WcOn}

\* Head of the waiting loop: ride on an idle peer's time if the signal is fresh.
CheckRide(t) ==
    \E ride \in PeerIdle :
        /\ Transition(t, "wait", IF ride THEN "passed" ELSE "poll")
        /\ tl_wc_riding' = [tl_wc_riding EXCEPT ![t] = @ \/ ride]
        /\ UNCHANGED <<control, time_credit_us, locals, open, elapsed>>

\* Faulty variant: the loop does not load the balance again; the one it has is
\* not above wake_at, or it would not be here.
PollStale(t) ==
    /\ Transition(t, "poll", IF time_unlimited THEN "passed" ELSE "wait")
    /\ UNCHANGED <<control, time_credit_us, locals, batch>>

\* Rest of the loop, after the yield: mode and balance are loaded again.
Poll(t) ==
    /\ Transition(t, "poll", IF time_unlimited \/ time_credit_us > wake_at[t]
                             THEN "passed" ELSE "wait")
    /\ UNCHANGED <<control, time_credit_us, locals, batch>>

\* The gate returns (its locals end), time_batch_start, and the kernel is
\* launched.
StartBatch(t) ==
    /\ Transition(t, "passed", "app")
    /\ credit' = [credit EXCEPT ![t] = 0]
    /\ wake_at' = [wake_at EXCEPT ![t] = 0]
    /\ open' = [open EXCEPT ![t] = TRUE]
    /\ UNCHANGED <<control, time_credit_us, tl_wc_riding, elapsed>>

-----------------------------------------------------------------------------
(* time_batch_end_and_charge, from a synchronisation or before a wait *)

\* cudaDeviceSynchronize, cudaStreamSynchronize; in kernel mode no charge.
Synchronise(t) ==
    /\ credit_mode = 1
    /\ Transition(t, "app", "sync")
    /\ UNCHANGED <<control, time_credit_us, locals, batch>>

\* Faulty variant: the thread waits with its batch window open.
MeasureOnlyAtSync(t, from, deduct, done) ==
    /\ pc[t] = from
    /\ IF from = "sync" /\ open[t] /\ ~tl_wc_riding[t] /\ ~time_unlimited
       THEN /\ Goto(t, deduct)
            /\ elapsed' \in {[elapsed EXCEPT ![t] = d] : d \in 0 .. MaxBatchUs}
            /\ UNCHANGED <<open, tl_wc_riding>>
       ELSE /\ Goto(t, done)
            /\ UNCHANGED batch
    /\ UNCHANGED <<control, time_credit_us, locals>>

\* No batch: nothing to do.  A ride is kept out of the accounts.  Otherwise the
\* time is taken off the balance unless the process is unlimited by now.
Measure(t, from, deduct, done) ==
    /\ pc[t] = from
    /\ \/ /\ open[t] /\ ~tl_wc_riding[t] /\ ~time_unlimited
          /\ Goto(t, deduct)
          /\ elapsed' \in {[elapsed EXCEPT ![t] = d] : d \in 0 .. MaxBatchUs}
          /\ UNCHANGED <<open, tl_wc_riding>>
       \/ /\ open[t] /\ (tl_wc_riding[t] \/ time_unlimited)
          /\ Goto(t, done)
          /\ open' = [open EXCEPT ![t] = FALSE]
          /\ tl_wc_riding' = [tl_wc_riding EXCEPT ![t] = FALSE]
          /\ UNCHANGED elapsed
       \/ /\ ~open[t]
          /\ Goto(t, done)
          /\ UNCHANGED batch
    /\ UNCHANGED <<control, time_credit_us, locals>>

\* fetch_sub of the measured time, then the batch is reset.
Deduct(t, from, done) ==
    /\ Transition(t, from, done)
    /\ time_credit_us' = time_credit_us - elapsed[t]
    /\ open' = [open EXCEPT ![t] = FALSE]
    /\ elapsed' = [elapsed EXCEPT ![t] = 0]
    /\ UNCHANGED <<control, locals, tl_wc_riding>>

Charge(t) ==
    \/ Measure(t, "sync", "sync_deduct", "app")
    \/ Measure(t, "settle", "settle_deduct", "arm")
    \/ Deduct(t, "sync_deduct", "app")
    \/ Deduct(t, "settle_deduct", "arm")

-----------------------------------------------------------------------------
(* The control thread; its commands are executed one after the other *)

\* time_credit and time_unlimited: the flag first, the balance second.
TimeCredit(v) ==
    /\ storing = NoStore
    /\ time_unlimited' = (v < 0)
    /\ storing' = IF v < 0 THEN -1 ELSE v
    /\ UNCHANGED <<config, time_credit_us, pc, locals, batch>>

StoreCredit ==
    /\ storing # NoStore
    /\ time_credit_us' = storing
    /\ storing' = NoStore
    /\ UNCHANGED <<config, time_unlimited, pc, locals, batch>>

TimeAdd(v) ==
    /\ storing = NoStore
    /\ time_credit_us + v <= MaxCredit
    /\ time_credit_us' = time_credit_us + v
    /\ UNCHANGED <<control, pc, locals, batch>>

\* time_mode, boost_on/off, priority_set
Configure ==
    /\ storing = NoStore
    /\ \/ /\ credit_mode' \in {0, 1}
          /\ UNCHANGED <<boost_mode, boosted, current_priority>>
       \/ /\ boost_mode' \in BOOLEAN
          /\ boosted' = (boosted \/ boost_mode')
          /\ UNCHANGED <<credit_mode, current_priority>>
       \/ /\ current_priority' \in {"URGENT", "NORMAL"}
          /\ UNCHANGED <<credit_mode, boost_mode, boosted>>
    /\ UNCHANGED <<urgent_limit_us, time_unlimited, storing, time_credit_us, pc,
                   locals, batch>>

\* Faulty variant: a negative limit is not refused.
UrgentLimitAny(v) ==
    /\ storing = NoStore
    /\ urgent_limit_us' = v
    /\ UNCHANGED <<credit_mode, boost_mode, current_priority, boosted,
                   time_unlimited, storing, time_credit_us, pc, locals, batch>>

UrgentLimit(v) ==
    /\ storing = NoStore
    /\ v >= 0
    /\ urgent_limit_us' = v
    /\ UNCHANGED <<credit_mode, boost_mode, current_priority, boosted,
                   time_unlimited, storing, time_credit_us, pc, locals, batch>>

-----------------------------------------------------------------------------
Gate(t) ==
    \/ ReadFlags(t) \/ ReadCredit(t) \/ Borrow(t) \/ Arm(t)
    \/ CheckRide(t) \/ Poll(t) \/ StartBatch(t) \/ Charge(t)

Feed == \E v \in Adds : TimeAdd(v)

Next ==
    \/ \E t \in Threads : Launch(t) \/ Unheld(t) \/ Synchronise(t) \/ Gate(t)
    \/ \E v \in Credits : TimeCredit(v)
    \/ \E v \in UrgentLimits : UrgentLimit(v)
    \/ StoreCredit \/ Feed \/ Configure

Spec == Init /\ [][Next]_vars

\* A thread inside the library keeps running, and so does the control thread.
ThreadFairness ==
    /\ \A t \in Threads : WF_vars(Gate(t))
    /\ WF_vars(StoreCredit)

\* The feeder injects budget at every tick.
FedSpec == Spec /\ ThreadFairness /\ SF_vars(Feed)

-----------------------------------------------------------------------------
(* Properties *)

\* Without boost the debt of a limited process is bounded: the largest loan
\* and two batches per thread.  Two and not one, because the first test of
\* "credit <= wake_at" uses the balance read before the open batch is charged:
\* a thread that becomes URGENT at that moment passes on a stale balance.
\* (While time_credit is between its two stores, or the process is unlimited,
\* late charges of older batches may go below.)
LoanBounded ==
    ~boosted /\ ~time_unlimited /\ storing = NoStore =>
        time_credit_us > -(Most(UrgentLimits)
                             + 2 * Cardinality(Threads) * MaxBatchUs)

\* Waiting for credit is not usage: a thread blocked in time_credit_gate has
\* no open batch, so the time it waits is charged to nobody.
WaitNotCharged ==
    \A t \in Threads : pc[t] \in {"arm", "wait", "poll"} => ~open[t]

\* When threads wait for credit and the feeder keeps injecting, some launch of
\* the process goes through, whatever else the control thread does, unless a
\* time_credit command overwrites the balance.  Which thread's launch is not
\* promised: the balance belongs to the process, and one thread may use up
\* every injection between two polls of another.
DebtRepaid ==
    (\E t \in Threads : pc[t] = "wait")
        ~> (\E u \in Threads : pc[u] = "passed") \/ storing # NoStore
=============================================================================
