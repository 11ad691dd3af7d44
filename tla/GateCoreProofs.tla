--------------------------- MODULE GateCoreProofs ---------------------------
(***************************************************************************)
(* The accounts of the NPU request gate, for any tenants, budgets and run  *)
(* lengths.                                                                *)
(***************************************************************************)
EXTENDS GateCore, TLAPS

\* TypeOK is inductive.
LEMMA TypeInductive == TypeOK /\ [Next]_vars => TypeOK'
  <1> SUFFICES ASSUME TypeOK, [Next]_vars PROVE TypeOK'
    OBVIOUS
  <1> USE GateAssumption DEF TypeOK, run, count, gate, balance
  <1>1. ASSUME NEW t \in Names, Register(t) PROVE TypeOK'
    BY <1>1 DEF Register
  <1>2. ASSUME NEW t \in Names, Unregister(t) PROVE TypeOK'
    BY <1>2 DEF Unregister
  <1>3. ASSUME NEW t \in Names, Submit(t) PROVE TypeOK'
    BY <1>3 DEF Submit
  <1>4. ASSUME NEW t \in Names, NEW on \in BOOLEAN, TimeMode(t, on) PROVE TypeOK'
    BY <1>4 DEF TimeMode
  <1>5. ASSUME NEW t \in Names, NEW v \in Credits, TimeCredit(t, v) PROVE TypeOK'
    BY <1>5 DEF TimeCredit, Capped
  <1>6. ASSUME NEW t \in Names, NEW v \in Adds, TimeAdd(t, v) PROVE TypeOK'
    BY <1>6 DEF TimeAdd, Capped
  <1>7. CASE Dispatch
    <2>1. PICK t \in Ready, ride \in BOOLEAN : Start(t, ride)
      BY <1>7 DEF Dispatch, Contract, Ride, Chosen, Candidates, Ready
    <2>2. extra' \in BOOLEAN /\ orphan' \in BOOLEAN
      BY <2>1 DEF Start
    <2> QED
      BY <2>1, <2>2 DEF Start, Ready
  <1>8. ASSUME NEW d \in 0 .. MaxRunUs, Finish(d) PROVE TypeOK'
    <2>1. extra' \in BOOLEAN /\ orphan' \in BOOLEAN /\ sending' \in BOOLEAN
      BY <1>8 DEF Finish
    <2> QED
      BY <1>8, <2>1 DEF Finish
  <1>9. CASE RunFails
    BY <1>9 DEF RunFails
  <1>10. CASE Sent
    BY <1>10 DEF Sent
  <1>11. CASE UNCHANGED vars
    BY <1>11 DEF vars
  <1> QED
    BY <1>1, <1>2, <1>3, <1>4, <1>5, <1>6, <1>7, <1>8, <1>9, <1>10, <1>11
       DEF Next, Control, Complete

\* The proxy starts with no tenant and an idle runner.
LEMMA InitTyped == Init => TypeOK
  <1>1. Init => extra \in BOOLEAN /\ orphan \in BOOLEAN /\ sending \in BOOLEAN
    BY Zenon DEF Init
  <1> QED
    BY <1>1, GateAssumption DEF Init, TypeOK

\* The type invariant; in particular no queue is popped when it is empty.
THEOREM TypeCorrect == Spec => []TypeOK
  BY InitTyped, TypeInductive, PTL DEF Spec

-----------------------------------------------------------------------------
(***************************************************************************)
(* The debt.  A tenant that was never disarmed owes nothing while it is not *)
(* armed, while it is unlimited, and while a contract run of it is under   *)
(* way: the run is then the first thing it owes.                           *)
(***************************************************************************)
ContractRun(t) == running = t /\ ~orphan /\ ~extra

DebtInv ==
    \A t \in Names : registered[t] =>
        /\ credit_us[t] <= CREDIT_CAP_US
        /\ ~disarmed[t] =>
               /\ credit_us[t] >= -MaxRunUs
               /\ ~armed[t] \/ unlimited[t] \/ ContractRun(t)
                      => credit_us[t] >= 0

\* A run belongs to a tenant object that is still registered, or is orphaned.
RunInv == running # NoRun /\ ~orphan => registered[running]

\* RunInv is inductive: unregister orphans the run of the tenant it drops.
LEMMA RunInductive == TypeOK /\ RunInv /\ [Next]_vars => RunInv'
  <1> SUFFICES ASSUME TypeOK, RunInv, [Next]_vars PROVE RunInv'
    OBVIOUS
  <1> USE GateAssumption DEF TypeOK, RunInv, run, count, gate, balance
  <1>1. ASSUME NEW t \in Names, Register(t) \/ Unregister(t) \/ Submit(t)
        PROVE RunInv'
    BY <1>1 DEF Register, Unregister, Submit
  <1>2. ASSUME NEW t \in Names, Control(t) PROVE RunInv'
    BY <1>2 DEF Control, TimeMode, TimeCredit, TimeAdd
  <1>3. CASE Dispatch
    BY <1>3 DEF Dispatch, Start, Contract, Ride, Chosen, Candidates, Ready
  <1>4. CASE Complete
    BY <1>4 DEF Complete, Finish, RunFails
  <1>5. CASE Sent
    BY <1>5 DEF Sent
  <1>6. CASE UNCHANGED vars
    BY <1>6 DEF vars
  <1> QED
    BY <1>1, <1>2, <1>3, <1>4, <1>5, <1>6 DEF Next

\* DebtInv is inductive: _eligible chooses a contract run only for tenants that
\* owe nothing, and Finish takes one run at most off the balance.
LEMMA DebtInductive ==
    ~LEGACY_REPAY /\ TypeOK /\ RunInv /\ DebtInv /\ [Next]_vars => DebtInv'
  <1> SUFFICES ASSUME ~LEGACY_REPAY, TypeOK, RunInv, DebtInv, [Next]_vars
               PROVE  DebtInv'
    OBVIOUS
  <1> USE GateAssumption
      DEF TypeOK, RunInv, DebtInv, ContractRun, run, count, gate, balance
  <1>1. ASSUME NEW t \in Names, Register(t) PROVE DebtInv'
    BY <1>1 DEF Register
  <1>2. ASSUME NEW t \in Names, Unregister(t) PROVE DebtInv'
    BY <1>2 DEF Unregister
  <1>3. ASSUME NEW t \in Names, Submit(t) PROVE DebtInv'
    BY <1>3 DEF Submit
  <1>4. ASSUME NEW t \in Names, NEW on \in BOOLEAN, TimeMode(t, on) PROVE DebtInv'
    BY <1>4 DEF TimeMode
  <1>5. ASSUME NEW t \in Names, NEW v \in Credits, TimeCredit(t, v) PROVE DebtInv'
    BY <1>5 DEF TimeCredit, Capped
  <1>6. ASSUME NEW t \in Names, NEW v \in Adds, TimeAdd(t, v) PROVE DebtInv'
    BY <1>6 DEF TimeAdd, Capped
  <1>7. CASE Dispatch
    BY <1>7 DEF Dispatch, Start, Contract, Ride, Chosen, Candidates, Ready
  <1>8. ASSUME NEW d \in 0 .. MaxRunUs, Finish(d) PROVE DebtInv'
    BY <1>8 DEF Finish
  <1>9. CASE RunFails
    BY <1>9 DEF RunFails
  <1>10. CASE Sent
    BY <1>10 DEF Sent
  <1>11. CASE UNCHANGED vars
    BY <1>11 DEF vars
  <1> QED
    BY <1>1, <1>2, <1>3, <1>4, <1>5, <1>6, <1>7, <1>8, <1>9, <1>10, <1>11
       DEF Next, Control, Complete

\* The balance stays below the cap, and a tenant that was never disarmed owes
\* at most one run.
THEOREM DebtSafe == Spec => []DebtBounded
  <1>1. CASE LEGACY_REPAY
    <2>1. DebtBounded
      BY <1>1 DEF DebtBounded
    <2> QED
      BY <2>1, PTL
  <1>2. CASE ~LEGACY_REPAY
    <2>1. Init => TypeOK /\ RunInv /\ DebtInv
      BY InitTyped, GateAssumption DEF Init, RunInv, DebtInv, ContractRun
    <2>2. DebtInv => DebtBounded
      BY DEF DebtInv, DebtBounded
    <2> QED
      BY <1>2, <2>1, <2>2, TypeInductive, RunInductive, DebtInductive, PTL
         DEF Spec
  <1> QED
    BY <1>1, <1>2

\* The three accounts of a gated tenant balance in every step.
THEOREM ContractSafe == Spec => ContractConserved
  <1> DEFINE Conserved ==
        ~LEGACY_REPAY =>
            \A t \in Names :
                registered[t] /\ registered'[t] /\ armed[t] /\ ~unlimited[t] =>
                    \/ credit_us'[t] - granted_us'[t] + charged_us'[t]
                           = credit_us[t] - granted_us[t] + charged_us[t]
                    \/ \E v \in Credits : TimeCredit(t, v)
  <1>1. TypeOK /\ [Next]_vars => [Conserved]_vars
    <2> SUFFICES ASSUME TypeOK, Next, ~LEGACY_REPAY, NEW u \in Names,
                        registered[u], registered'[u], armed[u], ~unlimited[u],
                        ~ \E v \in Credits : TimeCredit(u, v)
                 PROVE  credit_us'[u] - granted_us'[u] + charged_us'[u]
                            = credit_us[u] - granted_us[u] + charged_us[u]
      OBVIOUS
    <2> USE GateAssumption DEF TypeOK, run, count, gate, balance
    <2>1. ASSUME NEW t \in Names, Register(t) \/ Unregister(t) \/ Submit(t)
          PROVE credit_us'[u] - granted_us'[u] + charged_us'[u]
                    = credit_us[u] - granted_us[u] + charged_us[u]
      BY <2>1 DEF Register, Unregister, Submit
    <2>2. ASSUME NEW t \in Names, NEW on \in BOOLEAN, TimeMode(t, on)
          PROVE credit_us'[u] - granted_us'[u] + charged_us'[u]
                    = credit_us[u] - granted_us[u] + charged_us[u]
      BY <2>2 DEF TimeMode
    <2>3. ASSUME NEW t \in Names, NEW v \in Credits, TimeCredit(t, v)
          PROVE credit_us'[u] - granted_us'[u] + charged_us'[u]
                    = credit_us[u] - granted_us[u] + charged_us[u]
      BY <2>3 DEF TimeCredit
    <2>4. ASSUME NEW t \in Names, NEW v \in Adds, TimeAdd(t, v)
          PROVE credit_us'[u] - granted_us'[u] + charged_us'[u]
                    = credit_us[u] - granted_us[u] + charged_us[u]
      BY <2>4 DEF TimeAdd, Capped
    <2>5. CASE Dispatch
      BY <2>5 DEF Dispatch, Start
    <2>6. ASSUME NEW d \in 0 .. MaxRunUs, Finish(d)
          PROVE credit_us'[u] - granted_us'[u] + charged_us'[u]
                    = credit_us[u] - granted_us[u] + charged_us[u]
      BY <2>6 DEF Finish
    <2>7. CASE RunFails
      BY <2>7 DEF RunFails
    <2>8. CASE Sent
      BY <2>8 DEF Sent
    <2> QED
      BY <2>1, <2>2, <2>3, <2>4, <2>5, <2>6, <2>7, <2>8 DEF Next, Control, Complete
  <1> QED
    BY <1>1, TypeCorrect, PTL DEF Spec, ContractConserved
=============================================================================
