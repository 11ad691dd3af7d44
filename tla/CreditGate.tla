----------------------------- MODULE CreditGate -----------------------------
(***************************************************************************)
(* The kernel credit gate of libbless (kernel_credit_gate).  credit_remain *)
(* is the number of kernels the process may still launch, negative for no  *)
(* limit.  A thread takes up to BURST credits at once with a compare-and-  *)
(* swap and keeps what it does not use at once in tl_burst; a control      *)
(* thread overwrites credit_remain meanwhile.                              *)
(***************************************************************************)
EXTENDS Integers, FiniteSets, Calls, Totals

CONSTANTS
    BURST,          \* credits taken at once
    CreditQuotas    \* arguments of credit_set

ASSUME CreditAssumption ==
    /\ IsFiniteSet(Threads) /\ Threads # {}
    /\ BURST \in Nat \ {0}
    /\ CreditQuotas \subseteq Int

VARIABLES
    boost_mode,
    credit_remain,
    tl_burst,   \* per thread: credits taken and not used yet
    cur,        \* per thread: local, the value the CAS expects
    off,        \* history: the last credit command asked for no limit
    granted,    \* history: credits in the process at the last credit_set
    launched    \* history: kernels paid for since

ghosts     == <<off, granted, launched>>
CreditVars == <<boost_mode, credit_remain, pc, tl_burst, cur, ghosts>>

CreditTypeOK ==
    /\ boost_mode \in BOOLEAN
    /\ credit_remain \in Int
    /\ pc \in [Threads -> {"app", "read", "load", "cas"}]
    /\ tl_burst \in [Threads -> 0 .. BURST - 1]
    /\ cur \in [Threads -> Int]
    /\ off \in BOOLEAN
    /\ granted \in Int
    /\ launched \in Nat

CreditInit ==
    /\ boost_mode = FALSE
    /\ credit_remain = -1
    /\ pc = [t \in Threads |-> "app"]
    /\ tl_burst = [t \in Threads |-> 0]
    /\ cur = [t \in Threads |-> 0]
    /\ off = TRUE
    /\ granted = 0
    /\ launched = 0

\* Credits in the threads' hands.
Cached == Total(tl_burst)

-----------------------------------------------------------------------------
(* kernel_credit_gate *)

\* A boosted launch passes and changes nothing.
Enter(t) ==
    /\ ~boost_mode
    /\ Transition(t, "app", "read")
    /\ UNCHANGED <<boost_mode, credit_remain, tl_burst, cur, ghosts>>

\* No limit: pass.  Otherwise a cached credit pays, or the loop begins.
Read(t) ==
    \/ /\ credit_remain < 0
       /\ Transition(t, "read", "app")
       /\ UNCHANGED <<boost_mode, credit_remain, tl_burst, cur, ghosts>>
    \/ /\ credit_remain >= 0
       /\ tl_burst[t] > 0
       /\ Transition(t, "read", "app")
       /\ tl_burst' = [tl_burst EXCEPT ![t] = @ - 1]
       /\ launched' = launched + 1
       /\ UNCHANGED <<boost_mode, credit_remain, cur, off, granted>>
    \/ /\ credit_remain >= 0
       /\ tl_burst[t] = 0
       /\ Transition(t, "read", "load")
       /\ UNCHANGED <<boost_mode, credit_remain, tl_burst, cur, ghosts>>

\* Faulty variant: less than a burst counts as exhausted.
LoadWantsBurst(t) ==
    /\ Transition(t, "load", IF credit_remain < 0 THEN "app"
                             ELSE IF credit_remain < BURST THEN "load" ELSE "cas")
    /\ cur' = [cur EXCEPT ![t] = credit_remain]
    /\ UNCHANGED <<boost_mode, credit_remain, tl_burst, ghosts>>

\* Head of the loop; on zero the thread yields and loads again.
Load(t) ==
    /\ Transition(t, "load", IF credit_remain < 0 THEN "app"
                             ELSE IF credit_remain = 0 THEN "load" ELSE "cas")
    /\ cur' = [cur EXCEPT ![t] = credit_remain]
    /\ UNCHANGED <<boost_mode, credit_remain, tl_burst, ghosts>>

Chunk(c) == IF c >= BURST THEN BURST ELSE c

\* Faulty variant: takes BURST whatever is left, as before the clamp.
TakeFull(t) ==
    /\ Transition(t, "cas", "app")
    /\ credit_remain' = credit_remain - BURST
    /\ tl_burst' = [tl_burst EXCEPT ![t] = BURST - 1]
    /\ launched' = launched + 1
    /\ UNCHANGED <<boost_mode, cur, off, granted>>

\* Faulty variant: a plain store instead of the compare-and-swap.
TakeStores(t) ==
    /\ Transition(t, "cas", "app")
    /\ credit_remain' = cur[t] - Chunk(cur[t])
    /\ tl_burst' = [tl_burst EXCEPT ![t] = Chunk(cur[t]) - 1]
    /\ launched' = launched + 1
    /\ UNCHANGED <<boost_mode, cur, off, granted>>

\* The compare-and-swap succeeds: one credit pays, the rest is cached.
Take(t) ==
    /\ credit_remain = cur[t]
    /\ Transition(t, "cas", "app")
    /\ credit_remain' = cur[t] - Chunk(cur[t])
    /\ tl_burst' = [tl_burst EXCEPT ![t] = Chunk(cur[t]) - 1]
    /\ launched' = launched + 1
    /\ UNCHANGED <<boost_mode, cur, off, granted>>

\* It fails: the value has changed, or spuriously (compare_exchange_weak).
Retry(t) ==
    /\ Transition(t, "cas", "load")
    /\ UNCHANGED <<boost_mode, credit_remain, tl_burst, cur, ghosts>>

-----------------------------------------------------------------------------
(* The control thread *)

\* credit_set: overwrites what is left.
CreditSet(q) ==
    /\ credit_remain' = q
    /\ off' = (q < 0)
    /\ granted' = q + Cached
    /\ launched' = 0
    /\ UNCHANGED <<boost_mode, pc, tl_burst, cur>>

CreditOff ==
    /\ credit_remain' = -1
    /\ off' = TRUE
    /\ launched' = 0
    /\ UNCHANGED <<boost_mode, pc, tl_burst, cur, granted>>

\* boost_on, boost_off
Boost ==
    /\ boost_mode' \in BOOLEAN
    /\ UNCHANGED <<credit_remain, pc, tl_burst, cur, ghosts>>

-----------------------------------------------------------------------------
Gate(t) == Read(t) \/ Load(t) \/ Take(t) \/ Retry(t)

CreditNext ==
    \/ \E t \in Threads : Enter(t) \/ Gate(t)
    \/ \E q \in CreditQuotas : CreditSet(q)
    \/ CreditOff \/ Boost

CreditSpec == CreditInit /\ [][CreditNext]_CreditVars

\* A thread inside the gate keeps running; a weak compare-and-swap that is
\* tried again and again with the expected value succeeds at last.
LiveSpec ==
    /\ CreditSpec
    /\ \A t \in Threads : WF_CreditVars(Read(t)) /\ WF_CreditVars(Load(t))
                          /\ WF_CreditVars(Take(t) \/ Retry(t)) /\ SF_CreditVars(Take(t))

-----------------------------------------------------------------------------
(* Properties *)

\* The clamp: a negative credit_remain, which every thread takes for "no
\* limit", only ever comes from the control thread, however the takers race.
NoUnderflow == credit_remain < 0 => off

\* Every credit is spent once: what is left, what threads have cached and the
\* kernels launched add up to what was there at the last credit_set, even if
\* that command fell between a taker's load and its compare-and-swap.
CreditConserved ==
    ~off => credit_remain + Cached + launched = granted

\* A thread in the loop does not miss a refill: with credits left it passes,
\* unless others or the control thread exhaust them.
RefillSeen ==
    \A t \in Threads : pc[t] \in {"load", "cas"} ~> (pc[t] = "app" \/ credit_remain = 0)

\* The accounts add up in states of the right type: no thread ever caches a
\* whole burst, since one credit of it has paid for the kernel that took it.
CreditInv == CreditTypeOK /\ CreditConserved
=============================================================================
