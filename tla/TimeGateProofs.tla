--------------------------- MODULE TimeGateProofs ---------------------------
(***************************************************************************)
(* The safety properties of the time credit gate, for any number of        *)
(* threads, any batch length and any commands of the feeder.               *)
(*                                                                         *)
(* A thread that has read a balance above the largest loan may still       *)
(* charge up to two batches without a look at the balance: the one that is *)
(* open and the one its stale reading lets it start.  The debt is bounded  *)
(* because each charge uses up one of these; they are counted as the       *)
(* sizes of two sets of threads.                                           *)
(***************************************************************************)
EXTENDS TimeGate, FiniteSetTheorems, TLAPS

MaxLoan == Most(UrgentLimits)

\* The open batch of t will be charged.
Chargeable(t) == open[t] /\ ~tl_wc_riding[t]

\* The balance t has read, and has not used yet, lets it start a batch.
Admitted(t) ==
    \/ pc[t] \in {"borrow", "settle", "settle_deduct", "arm"}
       /\ credit[t] > -MaxLoan
    \/ pc[t] = "passed" /\ ~open[t] /\ ~tl_wc_riding[t]

\* Threads with no charge in store, and those with less than two.
NoCharge  == {t \in Threads : ~Chargeable(t) /\ ~Admitted(t)}
OneCharge == {t \in Threads : ~Chargeable(t) \/ ~Admitted(t)}

Limited == ~boosted /\ ~time_unlimited /\ storing = NoStore

DebtBound ==
    Limited =>
        time_credit_us > -(MaxLoan + MaxBatchUs * (Cardinality(NoCharge)
                                                    + Cardinality(OneCharge)))

\* What a thread's locals are worth where it is.
Locals ==
    \A t \in Threads :
        /\ wake_at[t] >= -MaxLoan
        /\ pc[t] \in {"borrow", "settle", "settle_deduct", "arm"} =>
               credit[t] <= 0
        /\ pc[t] \in {"sync_deduct", "settle_deduct"} => Chargeable(t)
        /\ pc[t] \in {"arm", "wait", "poll"} => ~open[t]

Commands ==
    /\ boost_mode => boosted
    /\ storing # NoStore /\ ~time_unlimited => storing >= 0

-----------------------------------------------------------------------------
(* Constants *)

LEMMA LoanFacts ==
    /\ MaxLoan \in UrgentLimits /\ MaxLoan \in Nat
    /\ \A l \in UrgentLimits : MaxLoan >= l
  <1>1. MaxLoan \in UrgentLimits /\ \A l \in UrgentLimits : MaxLoan >= l
    BY TimeAssumption DEF MaxLoan, Most
  <1> QED
    BY <1>1, TimeAssumption

-----------------------------------------------------------------------------
(* Types *)

LEMMA TypeInit == Init => TypeOK
  <1> SUFFICES ASSUME Init PROVE TypeOK
    OBVIOUS
  <1>1. urgent_limit_us \in UrgentLimits /\ urgent_limit_us >= 0
    BY LoanFacts DEF Init, MaxLoan
  <1>2. elapsed \in [Threads -> 0 .. MaxBatchUs]
    BY TimeAssumption DEF Init
  <1>3. /\ time_unlimited \in BOOLEAN /\ boost_mode \in BOOLEAN
        /\ boosted \in BOOLEAN
        /\ open \in [Threads -> BOOLEAN] /\ tl_wc_riding \in [Threads -> BOOLEAN]
    BY Zenon DEF Init
  <1> QED
    BY <1>1, <1>2, <1>3 DEF Init, TypeOK

LEMMA TypeStep == TypeOK /\ [Next]_vars => TypeOK'
  <1> SUFFICES ASSUME TypeOK, [Next]_vars PROVE TypeOK'
    OBVIOUS
  <1> USE DEF TypeOK, Goto, Transition, control, config, locals, batch
  <1>1. ASSUME NEW t \in Threads, Launch(t) PROVE TypeOK'
    BY <1>1 DEF Launch
  <1>2. ASSUME NEW t \in Threads, Synchronise(t) PROVE TypeOK'
    BY <1>2 DEF Synchronise
  <1>3. ASSUME NEW t \in Threads, Unheld(t) PROVE TypeOK'
    BY <1>3 DEF Unheld
  <1>4. ASSUME NEW t \in Threads, ReadFlags(t) PROVE TypeOK'
    BY <1>4 DEF ReadFlags
  <1>5. ASSUME NEW t \in Threads, ReadCredit(t) PROVE TypeOK'
    BY <1>5 DEF ReadCredit
  <1>6. ASSUME NEW t \in Threads, Borrow(t) PROVE TypeOK'
    BY <1>6 DEF Borrow
  <1>7. ASSUME NEW t \in Threads, Arm(t) PROVE TypeOK'
    BY <1>7, TimeAssumption DEF Arm
  <1>8. ASSUME NEW t \in Threads, CheckRide(t) PROVE TypeOK'
    BY <1>8 DEF CheckRide
  <1>9. ASSUME NEW t \in Threads, Poll(t) PROVE TypeOK'
    BY <1>9 DEF Poll
  <1>10. ASSUME NEW t \in Threads, StartBatch(t) PROVE TypeOK'
    BY <1>10 DEF StartBatch
  <1>11. ASSUME NEW t \in Threads, Measure(t, "sync", "sync_deduct", "app")
         PROVE  TypeOK'
    BY <1>11 DEF Measure
  <1>12. ASSUME NEW t \in Threads, Measure(t, "settle", "settle_deduct", "arm")
         PROVE  TypeOK'
    BY <1>12 DEF Measure
  <1>13. ASSUME NEW t \in Threads, Deduct(t, "sync_deduct", "app")
         PROVE  TypeOK'
    BY <1>13, TimeAssumption DEF Deduct
  <1>14. ASSUME NEW t \in Threads, Deduct(t, "settle_deduct", "arm")
         PROVE  TypeOK'
    BY <1>14, TimeAssumption DEF Deduct
  <1>15. ASSUME NEW v \in Credits, TimeCredit(v) PROVE TypeOK'
    BY <1>15, TimeAssumption DEF TimeCredit
  <1>16. ASSUME NEW v \in UrgentLimits, UrgentLimit(v) PROVE TypeOK'
    BY <1>16, TimeAssumption DEF UrgentLimit
  <1>17. ASSUME StoreCredit PROVE TypeOK'
    BY <1>17 DEF StoreCredit
  <1>18. ASSUME NEW v \in Adds, TimeAdd(v) PROVE TypeOK'
    BY <1>18, TimeAssumption DEF TimeAdd
  <1>19. ASSUME Configure PROVE TypeOK'
    BY <1>19 DEF Configure
  <1>20. CASE UNCHANGED vars
    BY <1>20 DEF vars
  <1> QED
    BY <1>1, <1>2, <1>3, <1>4, <1>5, <1>6, <1>7, <1>8, <1>9, <1>10, <1>11,
       <1>12, <1>13, <1>14, <1>15, <1>16, <1>17, <1>18, <1>19, <1>20
       DEF Next, Gate, Charge, Feed

\* Every variable keeps its type.
THEOREM TypeCorrect == Spec => []TypeOK
  BY TypeInit, TypeStep, PTL DEF Spec

-----------------------------------------------------------------------------
(* Locals and commands *)

LEMMA LocalsStep == TypeOK /\ Locals /\ [Next]_vars => Locals'
  <1> SUFFICES ASSUME TypeOK, Locals, [Next]_vars PROVE Locals'
    OBVIOUS
  <1> USE LoanFacts
  <1> USE DEF TypeOK, Locals, Chargeable, Goto, Transition, control, config,
              locals, batch
  <1>1. ASSUME NEW t \in Threads, Launch(t) PROVE Locals'
    BY <1>1 DEF Launch
  <1>2. ASSUME NEW t \in Threads, Synchronise(t) PROVE Locals'
    BY <1>2 DEF Synchronise
  <1>3. ASSUME NEW t \in Threads, Unheld(t) PROVE Locals'
    BY <1>3 DEF Unheld
  <1>4. ASSUME NEW t \in Threads, ReadFlags(t) PROVE Locals'
    BY <1>4 DEF ReadFlags
  <1>5. ASSUME NEW t \in Threads, ReadCredit(t) PROVE Locals'
    BY <1>5 DEF ReadCredit
  <1>6. ASSUME NEW t \in Threads, Borrow(t) PROVE Locals'
    BY <1>6 DEF Borrow
  <1>7. ASSUME NEW t \in Threads, Arm(t) PROVE Locals'
    BY <1>7 DEF Arm
  <1>8. ASSUME NEW t \in Threads, CheckRide(t) PROVE Locals'
    BY <1>8 DEF CheckRide
  <1>9. ASSUME NEW t \in Threads, Poll(t) PROVE Locals'
    BY <1>9 DEF Poll
  <1>10. ASSUME NEW t \in Threads, StartBatch(t) PROVE Locals'
    BY <1>10 DEF StartBatch
  <1>11. ASSUME NEW t \in Threads, Measure(t, "sync", "sync_deduct", "app")
         PROVE  Locals'
    BY <1>11 DEF Measure
  <1>12. ASSUME NEW t \in Threads, Measure(t, "settle", "settle_deduct", "arm")
         PROVE  Locals'
    BY <1>12 DEF Measure
  <1>13. ASSUME NEW t \in Threads, Deduct(t, "sync_deduct", "app")
         PROVE  Locals'
    BY <1>13 DEF Deduct
  <1>14. ASSUME NEW t \in Threads, Deduct(t, "settle_deduct", "arm")
         PROVE  Locals'
    BY <1>14 DEF Deduct
  <1>15. ASSUME NEW v \in Credits, TimeCredit(v) PROVE Locals'
    BY <1>15 DEF TimeCredit
  <1>16. ASSUME NEW v \in UrgentLimits, UrgentLimit(v) PROVE Locals'
    BY <1>16 DEF UrgentLimit
  <1>17. ASSUME StoreCredit PROVE Locals'
    BY <1>17 DEF StoreCredit
  <1>18. ASSUME NEW v \in Adds, TimeAdd(v) PROVE Locals'
    BY <1>18 DEF TimeAdd
  <1>19. ASSUME Configure PROVE Locals'
    BY <1>19 DEF Configure
  <1>20. CASE UNCHANGED vars
    BY <1>20 DEF vars
  <1> QED
    BY <1>1, <1>2, <1>3, <1>4, <1>5, <1>6, <1>7, <1>8, <1>9, <1>10, <1>11,
       <1>12, <1>13, <1>14, <1>15, <1>16, <1>17, <1>18, <1>19, <1>20
       DEF Next, Gate, Charge, Feed

LEMMA CommandsStep == TypeOK /\ Commands /\ [Next]_vars => Commands'
  <1> SUFFICES ASSUME TypeOK, Commands, [Next]_vars PROVE Commands'
    OBVIOUS
  <1> USE DEF TypeOK, Commands, control, config
  <1>1. ASSUME NEW t \in Threads, Launch(t) PROVE Commands'
    BY <1>1 DEF Launch
  <1>2. ASSUME NEW t \in Threads, Synchronise(t) PROVE Commands'
    BY <1>2 DEF Synchronise
  <1>3. ASSUME NEW t \in Threads, Unheld(t) PROVE Commands'
    BY <1>3 DEF Unheld
  <1>4. ASSUME NEW t \in Threads, ReadFlags(t) PROVE Commands'
    BY <1>4 DEF ReadFlags
  <1>5. ASSUME NEW t \in Threads, ReadCredit(t) PROVE Commands'
    BY <1>5 DEF ReadCredit
  <1>6. ASSUME NEW t \in Threads, Borrow(t) PROVE Commands'
    BY <1>6 DEF Borrow
  <1>7. ASSUME NEW t \in Threads, Arm(t) PROVE Commands'
    BY <1>7 DEF Arm
  <1>8. ASSUME NEW t \in Threads, CheckRide(t) PROVE Commands'
    BY <1>8 DEF CheckRide
  <1>9. ASSUME NEW t \in Threads, Poll(t) PROVE Commands'
    BY <1>9 DEF Poll
  <1>10. ASSUME NEW t \in Threads, StartBatch(t) PROVE Commands'
    BY <1>10 DEF StartBatch
  <1>11. ASSUME NEW t \in Threads, Measure(t, "sync", "sync_deduct", "app")
         PROVE  Commands'
    BY <1>11 DEF Measure
  <1>12. ASSUME NEW t \in Threads, Measure(t, "settle", "settle_deduct", "arm")
         PROVE  Commands'
    BY <1>12 DEF Measure
  <1>13. ASSUME NEW t \in Threads, Deduct(t, "sync_deduct", "app")
         PROVE  Commands'
    BY <1>13 DEF Deduct
  <1>14. ASSUME NEW t \in Threads, Deduct(t, "settle_deduct", "arm")
         PROVE  Commands'
    BY <1>14 DEF Deduct
  <1>15. ASSUME NEW v \in Credits, TimeCredit(v) PROVE Commands'
    <2>1. v \in Int
      BY TimeAssumption
    <2>2. CASE v < 0
      BY <1>15, <2>1, <2>2 DEF TimeCredit
    <2>3. CASE ~(v < 0)
      BY <1>15, <2>1, <2>3 DEF TimeCredit
    <2> QED
      BY <2>2, <2>3
  <1>16. ASSUME NEW v \in UrgentLimits, UrgentLimit(v) PROVE Commands'
    BY <1>16 DEF UrgentLimit
  <1>17. ASSUME StoreCredit PROVE Commands'
    BY <1>17 DEF StoreCredit
  <1>18. ASSUME NEW v \in Adds, TimeAdd(v) PROVE Commands'
    BY <1>18 DEF TimeAdd
  <1>19. ASSUME Configure PROVE Commands'
    BY <1>19 DEF Configure
  <1>20. CASE UNCHANGED vars
    BY <1>20 DEF vars
  <1> QED
    BY <1>1, <1>2, <1>3, <1>4, <1>5, <1>6, <1>7, <1>8, <1>9, <1>10, <1>11,
       <1>12, <1>13, <1>14, <1>15, <1>16, <1>17, <1>18, <1>19, <1>20
       DEF Next, Gate, Charge, Feed

-----------------------------------------------------------------------------
(* The debt *)

\* Sets of threads are finite.
LEMMA ThreadSets ==
    ASSUME NEW S \in SUBSET Threads
    PROVE  IsFiniteSet(S) /\ Cardinality(S) \in Nat
           /\ Cardinality(S) <= Cardinality(Threads)
           /\ Cardinality(Threads) \in Nat
  BY TimeAssumption, FS_CardinalityType, FS_Subset

LEMMA ChargeSets ==
    /\ NoCharge \in SUBSET Threads /\ OneCharge \in SUBSET Threads
    /\ NoCharge' \in SUBSET Threads /\ OneCharge' \in SUBSET Threads
  BY DEF NoCharge, OneCharge

\* Sets that differ in t at most.
LEMMA DifferInOne ==
    ASSUME NEW S \in SUBSET Threads, NEW R \in SUBSET Threads, NEW t \in Threads,
           \A u \in Threads \ {t} : u \in R <=> u \in S
    PROVE  /\ t \in R => R = S \cup {t}
           /\ (t \in R <=> t \in S) => R = S
  OBVIOUS

\* A step that takes nothing off the balance and lets no thread charge more.
LEMMA DebtKept ==
    ASSUME TypeOK, TypeOK', DebtBound,
           Limited' => Limited /\ time_credit_us' >= time_credit_us,
           NoCharge \subseteq NoCharge', OneCharge \subseteq OneCharge'
    PROVE  DebtBound'
  <1> DEFINE n == Cardinality(NoCharge) + Cardinality(OneCharge)
             m == Cardinality(NoCharge') + Cardinality(OneCharge')
  <1>1. n \in Nat /\ m \in Nat
    BY ThreadSets, ChargeSets
  <1>2. n <= m
    <2>1. /\ Cardinality(NoCharge) <= Cardinality(NoCharge')
          /\ Cardinality(OneCharge) <= Cardinality(OneCharge')
      BY ThreadSets, ChargeSets, FS_Subset
    <2> QED
      BY <2>1, ThreadSets, ChargeSets
  <1>3. MaxBatchUs \in Nat /\ MaxLoan \in Nat
    BY TimeAssumption, LoanFacts
  <1> HIDE DEF n, m
  <1>4. MaxBatchUs * n <= MaxBatchUs * m /\ MaxBatchUs * n \in Int
        /\ MaxBatchUs * m \in Int
    BY <1>1, <1>2, <1>3
  <1>5. Limited => time_credit_us > -(MaxLoan + MaxBatchUs * n)
    BY DEF DebtBound, n
  <1>6. time_credit_us \in Int /\ time_credit_us' \in Int
    BY DEF TypeOK
  <1>7. Limited' => time_credit_us' > -(MaxLoan + MaxBatchUs * m)
    BY <1>3, <1>4, <1>5, <1>6
  <1> QED
    BY <1>7 DEF DebtBound, m

\* A balance above the largest loan covers whatever the threads may charge.
LEMMA DebtCovered ==
    ASSUME TypeOK', Limited' => time_credit_us' > -MaxLoan
    PROVE  DebtBound'
  <1> DEFINE m == Cardinality(NoCharge') + Cardinality(OneCharge')
  <1>1. m \in Nat
    BY ThreadSets, ChargeSets
  <1>2. MaxBatchUs \in Nat /\ MaxLoan \in Nat
    BY TimeAssumption, LoanFacts
  <1> HIDE DEF m
  <1>3. MaxBatchUs * m >= 0 /\ MaxBatchUs * m \in Int
    BY <1>1, <1>2
  <1>4. time_credit_us' \in Int
    BY DEF TypeOK
  <1>5. Limited' => time_credit_us' > -(MaxLoan + MaxBatchUs * m)
    BY <1>2, <1>3, <1>4
  <1> QED
    BY <1>5 DEF DebtBound, m

\* A charge of at most one batch by a thread that has one less after it.
LEMMA DebtPaid ==
    ASSUME TypeOK, TypeOK', DebtBound, NEW t \in Threads,
           Limited' => Limited,
           time_credit_us' >= time_credit_us - MaxBatchUs,
           \/ /\ t \notin NoCharge /\ NoCharge' = NoCharge \cup {t}
              /\ OneCharge' = OneCharge
           \/ /\ t \notin OneCharge /\ OneCharge' = OneCharge \cup {t}
              /\ NoCharge' = NoCharge
    PROVE  DebtBound'
  <1> DEFINE n == Cardinality(NoCharge) + Cardinality(OneCharge)
             m == Cardinality(NoCharge') + Cardinality(OneCharge')
  <1>1. n \in Nat /\ m = n + 1
    <2>1. /\ IsFiniteSet(NoCharge) /\ IsFiniteSet(OneCharge)
          /\ Cardinality(NoCharge) \in Nat /\ Cardinality(OneCharge) \in Nat
      BY ThreadSets, ChargeSets
    <2>2. CASE /\ t \notin NoCharge /\ NoCharge' = NoCharge \cup {t}
               /\ OneCharge' = OneCharge
      <3>1. Cardinality(NoCharge') = Cardinality(NoCharge) + 1
        BY <2>1, <2>2, FS_AddElement
      <3> QED
        BY <2>1, <2>2, <3>1
    <2>3. CASE /\ t \notin OneCharge /\ OneCharge' = OneCharge \cup {t}
               /\ NoCharge' = NoCharge
      <3>1. Cardinality(OneCharge') = Cardinality(OneCharge) + 1
        BY <2>1, <2>3, FS_AddElement
      <3> QED
        BY <2>1, <2>3, <3>1
    <2> QED
      BY <2>2, <2>3
  <1>2. MaxBatchUs \in Nat /\ MaxLoan \in Nat
    BY TimeAssumption, LoanFacts
  <1> HIDE DEF n, m
  <1>3. MaxBatchUs * m = MaxBatchUs * n + MaxBatchUs /\ MaxBatchUs * n \in Int
    BY <1>1, <1>2
  <1>4. Limited => time_credit_us > -(MaxLoan + MaxBatchUs * n)
    BY DEF DebtBound, n
  <1>5. time_credit_us \in Int /\ time_credit_us' \in Int
    BY DEF TypeOK
  <1>6. Limited' => time_credit_us' > -(MaxLoan + MaxBatchUs * m)
    BY <1>2, <1>3, <1>4, <1>5
  <1> QED
    BY <1>6 DEF DebtBound, m

LEMMA DebtStep ==
    TypeOK /\ Locals /\ Commands /\ DebtBound /\ [Next]_vars => DebtBound'
  <1> SUFFICES ASSUME TypeOK, Locals, Commands, DebtBound, [Next]_vars
               PROVE  DebtBound'
    OBVIOUS
  <1>0. TypeOK'
    BY TypeStep
  <1> USE <1>0
  <1> USE DEF TypeOK, Goto, Transition, control, config, locals, batch
  <1>1. ASSUME NEW t \in Threads, Launch(t) PROVE DebtBound'
    <2>1. NoCharge \subseteq NoCharge' /\ OneCharge \subseteq OneCharge'
      BY <1>1 DEF Launch, NoCharge, OneCharge, Chargeable, Admitted
    <2>2. Limited' => Limited /\ time_credit_us' >= time_credit_us
      BY <1>1 DEF Launch, Limited
    <2> QED
      BY <2>1, <2>2, DebtKept
  <1>2. ASSUME NEW t \in Threads, Synchronise(t) PROVE DebtBound'
    <2>1. NoCharge \subseteq NoCharge' /\ OneCharge \subseteq OneCharge'
      BY <1>2 DEF Synchronise, NoCharge, OneCharge, Chargeable, Admitted
    <2>2. Limited' => Limited /\ time_credit_us' >= time_credit_us
      BY <1>2 DEF Synchronise, Limited
    <2> QED
      BY <2>1, <2>2, DebtKept
  <1>3. ASSUME NEW t \in Threads, Unheld(t) PROVE DebtBound'
    <2>1. NoCharge \subseteq NoCharge' /\ OneCharge \subseteq OneCharge'
      BY <1>3 DEF Unheld, NoCharge, OneCharge, Chargeable, Admitted
    <2>2. Limited' => Limited /\ time_credit_us' >= time_credit_us
      BY <1>3 DEF Unheld, Limited
    <2> QED
      BY <2>1, <2>2, DebtKept
  <1>4. ASSUME NEW t \in Threads, ReadFlags(t) PROVE DebtBound'
    <2>1. CASE Limited
      <3>1. NoCharge \subseteq NoCharge' /\ OneCharge \subseteq OneCharge'
        BY <1>4, <2>1 DEF ReadFlags, NoCharge, OneCharge, Chargeable, Admitted,
                       Limited, Commands
      <3>2. Limited' => Limited /\ time_credit_us' >= time_credit_us
        BY <1>4 DEF ReadFlags, Limited
      <3> QED
        BY <3>1, <3>2, DebtKept
    <2>2. CASE ~Limited
      BY <1>4, <2>2 DEF ReadFlags, Limited, DebtBound
    <2> QED
      BY <2>1, <2>2
  <1>5. ASSUME NEW t \in Threads, ReadCredit(t) PROVE DebtBound'
    <2>1. CASE time_credit_us > -MaxLoan
      <3>1. Limited' => time_credit_us' > -MaxLoan
        BY <1>5, <2>1 DEF ReadCredit
      <3> QED
        BY <3>1, DebtCovered
    <2>2. CASE ~(time_credit_us > -MaxLoan)
      <3>1. ~(time_credit_us > 0)
        BY <2>2, LoanFacts
      <3>2. NoCharge \subseteq NoCharge' /\ OneCharge \subseteq OneCharge'
        BY <1>5, <2>2, <3>1 DEF ReadCredit, NoCharge, OneCharge, Chargeable, Admitted
      <3>3. Limited' => Limited /\ time_credit_us' >= time_credit_us
        BY <1>5 DEF ReadCredit, Limited
      <3> QED
        BY <3>2, <3>3, DebtKept
    <2> QED
      BY <2>1, <2>2
  <1>6. ASSUME NEW t \in Threads, Borrow(t) PROVE DebtBound'
    <2>1. NoCharge \subseteq NoCharge' /\ OneCharge \subseteq OneCharge'
      BY <1>6, LoanFacts DEF Borrow, Locals, NoCharge, OneCharge, Chargeable, Admitted
    <2>2. Limited' => Limited /\ time_credit_us' >= time_credit_us
      BY <1>6 DEF Borrow, Limited
    <2> QED
      BY <2>1, <2>2, DebtKept
  <1>7. ASSUME NEW t \in Threads, Arm(t) PROVE DebtBound'
    <2>1. NoCharge \subseteq NoCharge' /\ OneCharge \subseteq OneCharge'
      BY <1>7, LoanFacts DEF Arm, Locals, NoCharge, OneCharge, Chargeable, Admitted
    <2>2. Limited' => Limited /\ time_credit_us' >= time_credit_us
      BY <1>7 DEF Arm, Limited
    <2> QED
      BY <2>1, <2>2, DebtKept
  <1>8. ASSUME NEW t \in Threads, CheckRide(t) PROVE DebtBound'
    <2>1. NoCharge \subseteq NoCharge' /\ OneCharge \subseteq OneCharge'
      BY <1>8 DEF CheckRide, Locals, NoCharge, OneCharge, Chargeable, Admitted
    <2>2. Limited' => Limited /\ time_credit_us' >= time_credit_us
      BY <1>8 DEF CheckRide, Limited
    <2> QED
      BY <2>1, <2>2, DebtKept
  <1>9. ASSUME NEW t \in Threads, Poll(t) PROVE DebtBound'
    <2>1. CASE time_unlimited
      BY <1>9, <2>1 DEF Poll, Limited, DebtBound
    <2>2. CASE ~time_unlimited /\ time_credit_us > wake_at[t]
      <3>1. Limited' => time_credit_us' > -MaxLoan
        BY <1>9, <2>2, LoanFacts DEF Poll, Locals
      <3> QED
        BY <3>1, DebtCovered
    <2>3. CASE ~time_unlimited /\ ~(time_credit_us > wake_at[t])
      <3>1. NoCharge \subseteq NoCharge' /\ OneCharge \subseteq OneCharge'
        BY <1>9, <2>3 DEF Poll, NoCharge, OneCharge, Chargeable, Admitted
      <3>2. Limited' => Limited /\ time_credit_us' >= time_credit_us
        BY <1>9 DEF Poll, Limited
      <3> QED
        BY <3>1, <3>2, DebtKept
    <2> QED
      BY <2>1, <2>2, <2>3
  <1>10. ASSUME NEW t \in Threads, StartBatch(t) PROVE DebtBound'
    <2>1. NoCharge \subseteq NoCharge' /\ OneCharge \subseteq OneCharge'
      BY <1>10 DEF StartBatch, NoCharge, OneCharge, Chargeable, Admitted
    <2>2. Limited' => Limited /\ time_credit_us' >= time_credit_us
      BY <1>10 DEF StartBatch, Limited
    <2> QED
      BY <2>1, <2>2, DebtKept
  <1>11. ASSUME NEW t \in Threads, Measure(t, "sync", "sync_deduct", "app")
         PROVE  DebtBound'
    <2>1. NoCharge \subseteq NoCharge' /\ OneCharge \subseteq OneCharge'
      BY <1>11 DEF Measure, NoCharge, OneCharge, Chargeable, Admitted
    <2>2. Limited' => Limited /\ time_credit_us' >= time_credit_us
      BY <1>11 DEF Measure, Limited
    <2> QED
      BY <2>1, <2>2, DebtKept
  <1>12. ASSUME NEW t \in Threads, Measure(t, "settle", "settle_deduct", "arm")
         PROVE  DebtBound'
    <2>1. NoCharge \subseteq NoCharge' /\ OneCharge \subseteq OneCharge'
      BY <1>12 DEF Measure, NoCharge, OneCharge, Chargeable, Admitted
    <2>2. Limited' => Limited /\ time_credit_us' >= time_credit_us
      BY <1>12 DEF Measure, Limited
    <2> QED
      BY <2>1, <2>2, DebtKept
  <1>13. ASSUME NEW t \in Threads, Deduct(t, "sync_deduct", "app")
         PROVE  DebtBound'
    <2>1. Limited' => Limited
      BY <1>13 DEF Deduct, Limited
    <2>2. time_credit_us' >= time_credit_us - MaxBatchUs
      BY <1>13, TimeAssumption DEF Deduct
    <2>3. \A u \in Threads \ {t} :
              /\ u \in NoCharge' <=> u \in NoCharge
              /\ u \in OneCharge' <=> u \in OneCharge
      BY <1>13 DEF Deduct, NoCharge, OneCharge, Chargeable, Admitted
    <2>4. /\ t \notin NoCharge /\ t \in OneCharge'
          /\ t \in NoCharge' <=> t \in OneCharge
      BY <1>13 DEF Deduct, Locals, NoCharge, OneCharge, Chargeable, Admitted
    <2>5. CASE t \notin OneCharge
      <3>1. OneCharge' = OneCharge \cup {t} /\ NoCharge' = NoCharge
        BY <2>3, <2>4, <2>5, ChargeSets, DifferInOne
      <3> QED
        BY <2>1, <2>2, <2>5, <3>1, DebtPaid
    <2>6. CASE t \in OneCharge
      <3>1. NoCharge' = NoCharge \cup {t}
        BY <2>3, <2>4, <2>6, ChargeSets, DifferInOne
      <3>2. /\ \A u \in Threads \ {t} : u \in OneCharge' <=> u \in OneCharge
            /\ t \in OneCharge' <=> t \in OneCharge
        BY <2>3, <2>4, <2>6
      <3>3. OneCharge' = OneCharge
        BY ONLY <3>2, ChargeSets, DifferInOne, t \in Threads
      <3> QED
        BY <2>1, <2>2, <2>4, <3>1, <3>3, DebtPaid
    <2> QED
      BY <2>5, <2>6
  <1>14. ASSUME NEW t \in Threads, Deduct(t, "settle_deduct", "arm")
         PROVE  DebtBound'
    <2>1. Limited' => Limited
      BY <1>14 DEF Deduct, Limited
    <2>2. time_credit_us' >= time_credit_us - MaxBatchUs
      BY <1>14, TimeAssumption DEF Deduct
    <2>3. \A u \in Threads \ {t} :
              /\ u \in NoCharge' <=> u \in NoCharge
              /\ u \in OneCharge' <=> u \in OneCharge
      BY <1>14 DEF Deduct, NoCharge, OneCharge, Chargeable, Admitted
    <2>4. /\ t \notin NoCharge /\ t \in OneCharge'
          /\ t \in NoCharge' <=> t \in OneCharge
      BY <1>14 DEF Deduct, Locals, NoCharge, OneCharge, Chargeable, Admitted
    <2>5. CASE t \notin OneCharge
      <3>1. OneCharge' = OneCharge \cup {t} /\ NoCharge' = NoCharge
        BY <2>3, <2>4, <2>5, ChargeSets, DifferInOne
      <3> QED
        BY <2>1, <2>2, <2>5, <3>1, DebtPaid
    <2>6. CASE t \in OneCharge
      <3>1. NoCharge' = NoCharge \cup {t}
        BY <2>3, <2>4, <2>6, ChargeSets, DifferInOne
      <3>2. /\ \A u \in Threads \ {t} : u \in OneCharge' <=> u \in OneCharge
            /\ t \in OneCharge' <=> t \in OneCharge
        BY <2>3, <2>4, <2>6
      <3>3. OneCharge' = OneCharge
        BY ONLY <3>2, ChargeSets, DifferInOne, t \in Threads
      <3> QED
        BY <2>1, <2>2, <2>4, <3>1, <3>3, DebtPaid
    <2> QED
      BY <2>5, <2>6
  <1>15. ASSUME NEW v \in Credits, TimeCredit(v) PROVE DebtBound'
    BY <1>15, TimeAssumption DEF TimeCredit, Limited, DebtBound
  <1>16. ASSUME NEW v \in UrgentLimits, UrgentLimit(v) PROVE DebtBound'
    <2>1. NoCharge \subseteq NoCharge' /\ OneCharge \subseteq OneCharge'
      BY <1>16 DEF UrgentLimit, NoCharge, OneCharge, Chargeable, Admitted
    <2>2. Limited' => Limited /\ time_credit_us' >= time_credit_us
      BY <1>16 DEF UrgentLimit, Limited
    <2> QED
      BY <2>1, <2>2, DebtKept
  <1>17. ASSUME StoreCredit PROVE DebtBound'
    <2>1. PICK t \in Threads : TRUE
      BY TimeAssumption
    <2>2. CASE time_unlimited
      BY <1>17, <2>2 DEF StoreCredit, Limited, DebtBound
    <2>3. CASE ~time_unlimited /\ MaxLoan > 0
      <3>1. time_credit_us' > -MaxLoan
        BY <1>17, <2>3, LoanFacts DEF StoreCredit, Commands
      <3> QED
        BY <3>1, DebtCovered
    <2>4. CASE ~time_unlimited /\ ~(MaxLoan > 0)
      <3>1. MaxLoan = 0 /\ time_credit_us' >= 0 /\ time_credit_us' \in Int
        BY <1>17, <2>4, LoanFacts DEF StoreCredit, Commands
      <3>2. t \in OneCharge'
        <4>1. CASE pc[t] = "passed"
          BY <1>17, <4>1 DEF StoreCredit, OneCharge, Chargeable, Admitted
        <4>2. CASE pc[t] # "passed"
          BY <1>17, <4>2, <3>1 DEF StoreCredit, OneCharge, Admitted, Locals
        <4> QED
          BY <4>1, <4>2
      <3>3. /\ Cardinality(NoCharge') \in Nat /\ Cardinality(OneCharge') \in Nat
            /\ IsFiniteSet(OneCharge')
        BY ChargeSets, ThreadSets
      <3>4. Cardinality(OneCharge') # 0
        BY <3>2, <3>3, FS_EmptySet
      <3> DEFINE m == Cardinality(NoCharge') + Cardinality(OneCharge')
      <3>5. m \in Nat /\ m >= 1
        BY <3>3, <3>4
      <3> HIDE DEF m
      <3>6. MaxBatchUs * m >= 1
        BY <3>5, TimeAssumption
      <3>7. time_credit_us' > -(MaxLoan + MaxBatchUs * m)
        BY <3>1, <3>5, <3>6, TimeAssumption
      <3> QED
        BY <3>7 DEF DebtBound, m
    <2> QED
      BY <2>2, <2>3, <2>4
  <1>18. ASSUME NEW v \in Adds, TimeAdd(v) PROVE DebtBound'
    <2>1. NoCharge \subseteq NoCharge' /\ OneCharge \subseteq OneCharge'
      BY <1>18 DEF TimeAdd, NoCharge, OneCharge, Chargeable, Admitted
    <2>2. Limited' => Limited /\ time_credit_us' >= time_credit_us
      BY <1>18, TimeAssumption DEF TimeAdd, Limited
    <2> QED
      BY <2>1, <2>2, DebtKept
  <1>19. ASSUME Configure PROVE DebtBound'
    <2>1. NoCharge \subseteq NoCharge' /\ OneCharge \subseteq OneCharge'
      BY <1>19 DEF Configure, NoCharge, OneCharge, Chargeable, Admitted
    <2>2. Limited' => Limited /\ time_credit_us' >= time_credit_us
      BY <1>19 DEF Configure, Limited
    <2> QED
      BY <2>1, <2>2, DebtKept
  <1>20. CASE UNCHANGED vars
    BY <1>20 DEF vars, DebtBound, Limited, NoCharge, OneCharge, Chargeable,
                    Admitted
  <1> QED
    BY <1>1, <1>2, <1>3, <1>4, <1>5, <1>6, <1>7, <1>8, <1>9, <1>10, <1>11,
       <1>12, <1>13, <1>14, <1>15, <1>16, <1>17, <1>18, <1>19, <1>20
       DEF Next, Gate, Charge, Feed

-----------------------------------------------------------------------------
(* The theorems *)

IInv == TypeOK /\ Locals /\ Commands /\ DebtBound

LEMMA Invariant == Spec => []IInv
  <1>1. Init => IInv
    <2> SUFFICES ASSUME Init PROVE IInv
      OBVIOUS
    <2>1. Locals
      BY LoanFacts DEF Init, Locals
    <2>2. Commands /\ DebtBound
      BY DEF Init, Commands, DebtBound, Limited
    <2> QED
      BY <2>1, <2>2, TypeInit DEF IInv
  <1>2. IInv /\ [Next]_vars => IInv'
    BY TypeStep, LocalsStep, CommandsStep, DebtStep DEF IInv
  <1> QED
    BY <1>1, <1>2, PTL DEF Spec

\* The time a thread waits in time_credit_gate is charged to nobody.
THEOREM WaitIsFree == Spec => []WaitNotCharged
  <1>1. IInv => WaitNotCharged
    BY DEF IInv, Locals, WaitNotCharged
  <1> QED
    BY Invariant, <1>1, PTL

\* The debt of a limited process is bounded by the largest loan and two
\* batches per thread, for any number of threads.
THEOREM DebtIsBounded == Spec => []LoanBounded
  <1>1. IInv => LoanBounded
    <2> SUFFICES ASSUME IInv, Limited
                 PROVE  time_credit_us > -(Most(UrgentLimits)
                                            + 2 * Cardinality(Threads) * MaxBatchUs)
      BY DEF LoanBounded, Limited
    <2> DEFINE k == Cardinality(Threads)
               n == Cardinality(NoCharge) + Cardinality(OneCharge)
    <2>1. k \in Nat /\ n \in Nat /\ n <= 2 * k
      BY ThreadSets, ChargeSets
    <2>2. time_credit_us > -(MaxLoan + MaxBatchUs * n)
      BY DEF IInv, DebtBound, n
    <2>3. time_credit_us \in Int /\ MaxBatchUs \in Nat /\ MaxLoan \in Nat
      BY TimeAssumption, LoanFacts DEF IInv, TypeOK
    <2> HIDE DEF k, n
    <2>4. MaxBatchUs * n <= 2 * k * MaxBatchUs /\ MaxBatchUs * n \in Int
      BY <2>1, <2>3
    <2>5. time_credit_us > -(MaxLoan + 2 * k * MaxBatchUs)
      BY <2>1, <2>2, <2>3, <2>4
    <2> QED
      BY <2>5 DEF MaxLoan, k
  <1> QED
    BY Invariant, <1>1, PTL
=============================================================================
