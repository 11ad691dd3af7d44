------------------------- MODULE PriorityGateProofs -------------------------
(***************************************************************************)
(* The counters of the priority gate are right for any number of threads   *)
(* and any number of changes of priority.                                  *)
(*                                                                         *)
(* Neither part of QueueInv is inductive.  That the counts are exact rests *)
(* on the threads in a launch having read the priority the process still   *)
(* has (SamePriority).  That a negative counter is transient needs to know *)
(* how negative it can be: as many as have counted themselves out to give  *)
(* way (NotBelow).                                                         *)
(***************************************************************************)
EXTENDS PriorityGate, FiniteSetTheorems, TLAPS

InQueue(p)  == {t \in Threads : pc[t] \in Counted /\ my[t] = p}
Yielding(p) == {t \in Threads : pc[t] = "yield" /\ my[t] = p}

\* Until priority_set falls into a launch, the threads between gate and done
\* have read the priority the process has, and no counter needs repair.
SamePriority ==
    sets = 0 => \A t \in Threads :
        /\ pc[t] # "clamp"
        /\ pc[t] \in Counted \cup {"yield"} => my[t] = current_priority

\* Unless some thread is about to store zero, a counter lacks no more than the
\* threads that have counted themselves out to give way.
NotBelow ==
    \A p \in Priority :
        \/ \E t \in Threads : pc[t] = "clamp" /\ my[t] = p
        \/ queue_len[p] + Cardinality(Yielding(p)) >= 0

IInv == TypeOK /\ SamePriority /\ QueueCounts /\ NotBelow

-----------------------------------------------------------------------------
(* Counting threads *)

\* What one thread adds to the size of a set of threads.
LEMMA DifferInOne ==
    ASSUME NEW S \in SUBSET Threads, NEW R \in SUBSET Threads, NEW t \in Threads,
           \A u \in Threads \ {t} : u \in R <=> u \in S
    PROVE  /\ Cardinality(S) \in Nat /\ Cardinality(R) \in Nat
           /\ Cardinality(R) = Cardinality(S) + (IF t \in R THEN 1 ELSE 0)
                                              - (IF t \in S THEN 1 ELSE 0)
  <1>1. IsFiniteSet(S) /\ IsFiniteSet(R)
    BY PriorityAssumption, FS_Subset
  <1>2. Cardinality(S) \in Nat /\ Cardinality(R) \in Nat
    BY <1>1, FS_CardinalityType
  <1>3. R \ {t} = S \ {t}
    OBVIOUS
  <1>4. Cardinality(R \ {t}) =
            IF t \in R THEN Cardinality(R) - 1 ELSE Cardinality(R)
    BY <1>1, FS_RemoveElement
  <1>5. Cardinality(S \ {t}) =
            IF t \in S THEN Cardinality(S) - 1 ELSE Cardinality(S)
    BY <1>1, FS_RemoveElement
  <1>6. Cardinality(R \ {t}) = Cardinality(S \ {t})
    BY <1>3
  <1> QED
    BY <1>2, <1>4, <1>5, <1>6

\* A step of thread t changes the sizes of the queues by what t does.
LEMMA QueueSizes ==
    ASSUME NEW t \in Threads,
           \A u \in Threads \ {t} : pc'[u] = pc[u] /\ my'[u] = my[u],
           NEW p \in Priority
    PROVE  /\ Cardinality(InQueue(p)) \in Nat /\ Cardinality(InQueue(p)') \in Nat
           /\ Cardinality(InQueue(p)') = Cardinality(InQueue(p))
                  + (IF pc'[t] \in Counted /\ my'[t] = p THEN 1 ELSE 0)
                  - (IF pc[t] \in Counted /\ my[t] = p THEN 1 ELSE 0)
           /\ Cardinality(Yielding(p)) \in Nat /\ Cardinality(Yielding(p)') \in Nat
           /\ Cardinality(Yielding(p)') = Cardinality(Yielding(p))
                  + (IF pc'[t] = "yield" /\ my'[t] = p THEN 1 ELSE 0)
                  - (IF pc[t] = "yield" /\ my[t] = p THEN 1 ELSE 0)
  <1>1. /\ InQueue(p) \in SUBSET Threads /\ InQueue(p)' \in SUBSET Threads
        /\ \A u \in Threads \ {t} : u \in InQueue(p)' <=> u \in InQueue(p)
        /\ t \in InQueue(p) <=> pc[t] \in Counted /\ my[t] = p
        /\ t \in InQueue(p)' <=> pc'[t] \in Counted /\ my'[t] = p
    BY DEF InQueue
  <1>2. /\ Yielding(p) \in SUBSET Threads /\ Yielding(p)' \in SUBSET Threads
        /\ \A u \in Threads \ {t} : u \in Yielding(p)' <=> u \in Yielding(p)
        /\ t \in Yielding(p) <=> pc[t] = "yield" /\ my[t] = p
        /\ t \in Yielding(p)' <=> pc'[t] = "yield" /\ my'[t] = p
    BY DEF Yielding
  <1>3. /\ Cardinality(InQueue(p)) \in Nat /\ Cardinality(InQueue(p)') \in Nat
        /\ Cardinality(InQueue(p)') = Cardinality(InQueue(p))
               + (IF t \in InQueue(p)' THEN 1 ELSE 0)
               - (IF t \in InQueue(p) THEN 1 ELSE 0)
    BY <1>1, DifferInOne
  <1>4. /\ Cardinality(Yielding(p)) \in Nat /\ Cardinality(Yielding(p)') \in Nat
        /\ Cardinality(Yielding(p)') = Cardinality(Yielding(p))
               + (IF t \in Yielding(p)' THEN 1 ELSE 0)
               - (IF t \in Yielding(p) THEN 1 ELSE 0)
    BY <1>2, DifferInOne
  <1> QED
    BY <1>1, <1>2, <1>3, <1>4

-----------------------------------------------------------------------------
(* Types *)

LEMMA TypeStep == TypeOK /\ [Next]_vars => TypeOK'
  <1> SUFFICES ASSUME TypeOK, [Next]_vars PROVE TypeOK'
    OBVIOUS
  <1> USE DEF TypeOK, control, Goto, Transition, Add, Counted, Waiting, Priority
  <1>1. ASSUME NEW t \in Threads, Launch(t) \/ Step(t) PROVE TypeOK'
    <2>1. CASE Launch(t)
      BY <2>1, <1>1 DEF Launch
    <2>2. CASE Enter(t)
      BY <2>2, <1>1 DEF Enter
    <2>3. CASE CheckUrgent(t)
      BY <2>3, <1>1 DEF CheckUrgent
    <2>4. CASE Yield(t)
      BY <2>4, <1>1 DEF Yield
    <2>5. CASE CheckBackground(t)
      BY <2>5, <1>1 DEF CheckBackground
    <2>6. CASE CheckPreempt(t)
      <3>1. again' \in [Threads -> BOOLEAN]
        <4>1. CASE again' = again
          BY <4>1
        <4>2. CASE again' = [again EXCEPT ![t] = TRUE]
          BY <4>2
        <4> QED
          BY <2>6, <4>1, <4>2 DEF CheckPreempt
      <3> QED
        BY <2>6, <3>1, <1>1 DEF CheckPreempt, CountOut
    <2>7. CASE Done(t)
      BY <2>7, <1>1 DEF Done, CountOut
    <2>8. CASE Clamp(t)
      BY <2>8, <1>1 DEF Clamp
    <2> QED
      BY <2>1, <2>2, <2>3, <2>4, <2>5, <2>6, <2>7, <2>8, <1>1 DEF Step
  <1>2. ASSUME NEW p \in Requests, PrioritySet(p) PROVE TypeOK'
    <2>1. sets' \in 0 .. MaxSets
      BY <1>2, PriorityAssumption DEF PrioritySet
    <2> QED
      BY <1>2, <2>1 DEF PrioritySet
  <1>3. ASSUME NEW b \in BOOLEAN, Urgent(b) PROVE TypeOK'
    BY <1>3 DEF Urgent
  <1>4. CASE Preempt
    BY <1>4 DEF Preempt
  <1>5. CASE UNCHANGED vars
    BY <1>5 DEF vars
  <1> QED
    BY <1>1, <1>2, <1>3, <1>4, <1>5 DEF Next

-----------------------------------------------------------------------------
(* Launches *)

LEMMA OnlyOneMoves ==
    ASSUME TypeOK, NEW t \in Threads, Launch(t) \/ Step(t)
    PROVE  /\ \A u \in Threads \ {t} : pc'[u] = pc[u] /\ my'[u] = my[u]
           /\ UNCHANGED control
  <1> USE DEF TypeOK, Goto, Transition
  <1>1. CASE Launch(t)
    BY <1>1 DEF Launch
  <1>2. CASE Enter(t)
    BY <1>2 DEF Enter
  <1>3. CASE CheckUrgent(t)
    BY <1>3 DEF CheckUrgent
  <1>4. CASE Yield(t)
    BY <1>4 DEF Yield
  <1>5. CASE CheckBackground(t)
    BY <1>5 DEF CheckBackground
  <1>6. CASE CheckPreempt(t)
    BY <1>6 DEF CheckPreempt, CountOut
  <1>7. CASE Done(t)
    BY <1>7 DEF Done, CountOut
  <1>8. CASE Clamp(t)
    BY <1>8 DEF Clamp
  <1> QED
    BY <1>1, <1>2, <1>3, <1>4, <1>5, <1>6, <1>7, <1>8 DEF Step

LEMMA LaunchStep ==
    ASSUME IInv, TypeOK', NEW t \in Threads, Launch(t) \/ Step(t)
    PROVE  SamePriority' /\ QueueCounts' /\ NotBelow'
  <1>a. \A u \in Threads \ {t} : pc'[u] = pc[u] /\ my'[u] = my[u]
    BY OnlyOneMoves DEF IInv
  <1>b. current_priority' = current_priority /\ sets' = sets
    BY OnlyOneMoves DEF IInv, control
  <1> DEFINE In(p)  == Cardinality(InQueue(p))
             Out(p) == Cardinality(Yielding(p))
             NewIn(p)  == Cardinality(InQueue(p)')
             NewOut(p) == Cardinality(Yielding(p)')
  <1>c. \A p \in Priority :
            /\ In(p) \in Nat /\ NewIn(p) \in Nat
            /\ NewIn(p) = In(p) + (IF pc'[t] \in Counted /\ my'[t] = p THEN 1 ELSE 0)
                               - (IF pc[t] \in Counted /\ my[t] = p THEN 1 ELSE 0)
    BY <1>a, QueueSizes
  <1>d. \A p \in Priority :
            /\ Out(p) \in Nat /\ NewOut(p) \in Nat
            /\ NewOut(p) = Out(p) + (IF pc'[t] = "yield" /\ my'[t] = p THEN 1 ELSE 0)
                                 - (IF pc[t] = "yield" /\ my[t] = p THEN 1 ELSE 0)
    BY <1>a, QueueSizes
  <1>e. sets = 0 => \A p \in Priority : queue_len[p] = In(p)
    BY DEF IInv, QueueCounts, InQueue
  <1>f. \A p \in Priority :
            \/ \E u \in Threads : pc[u] = "clamp" /\ my[u] = p
            \/ queue_len[p] + Out(p) >= 0
    BY DEF IInv, NotBelow
  <1>g. TypeOK /\ SamePriority
    BY DEF IInv
  <1> HIDE DEF In, Out, NewIn, NewOut
  <1> USE DEF Transition, Goto, Add, Counted, Waiting, Priority, TypeOK
  <1>1. SamePriority'
    <2>1. CASE Launch(t)
      BY <2>1, <1>a, <1>b, <1>c, <1>e, <1>g DEF SamePriority, Launch
    <2>2. CASE Enter(t)
      BY <2>2, <1>a, <1>b, <1>c, <1>e, <1>g DEF SamePriority, Enter
    <2>3. CASE CheckUrgent(t)
      BY <2>3, <1>a, <1>b, <1>c, <1>e, <1>g DEF SamePriority, CheckUrgent
    <2>4. CASE Yield(t)
      BY <2>4, <1>a, <1>b, <1>c, <1>e, <1>g DEF SamePriority, Yield
    <2>5. CASE CheckBackground(t)
      BY <2>5, <1>a, <1>b, <1>c, <1>e, <1>g DEF SamePriority, CheckBackground
    <2>6. CASE CheckPreempt(t)
      BY <2>6, <1>a, <1>b, <1>c, <1>e, <1>g DEF SamePriority, CheckPreempt, CountOut
    <2>7. CASE Done(t)
      BY <2>7, <1>a, <1>b, <1>c, <1>e, <1>g DEF SamePriority, Done, CountOut
    <2>8. CASE Clamp(t)
      BY <2>8, <1>a, <1>b, <1>c, <1>e, <1>g DEF SamePriority, Clamp
    <2> QED
      BY <2>1, <2>2, <2>3, <2>4, <2>5, <2>6, <2>7, <2>8 DEF Step
  <1>2. sets = 0 => \A p \in Priority : queue_len'[p] = NewIn(p)
    <2>1. CASE Launch(t)
      BY <2>1, <1>c, <1>e, <1>g DEF SamePriority, Launch
    <2>2. CASE Enter(t)
      BY <2>2, <1>c, <1>e, <1>g DEF SamePriority, Enter
    <2>3. CASE CheckUrgent(t)
      BY <2>3, <1>c, <1>e, <1>g DEF SamePriority, CheckUrgent
    <2>4. CASE Yield(t)
      BY <2>4, <1>c, <1>e, <1>g DEF SamePriority, Yield
    <2>5. CASE CheckBackground(t)
      BY <2>5, <1>c, <1>e, <1>g DEF SamePriority, CheckBackground
    <2>6. CASE CheckPreempt(t)
      BY <2>6, <1>c, <1>e, <1>g DEF SamePriority, CheckPreempt, CountOut
    <2>7. CASE Done(t)
      BY <2>7, <1>c, <1>e, <1>g DEF SamePriority, Done, CountOut
    <2>8. CASE Clamp(t)
      BY <2>8, <1>c, <1>e, <1>g DEF SamePriority, Clamp
    <2> QED
      BY <2>1, <2>2, <2>3, <2>4, <2>5, <2>6, <2>7, <2>8 DEF Step
  <1>3. \A p \in Priority :
            \/ \E u \in Threads : pc'[u] = "clamp" /\ my'[u] = p
            \/ queue_len'[p] + NewOut(p) >= 0
    <2>1. CASE Launch(t)
      BY <2>1, <1>a, <1>d, <1>f, <1>g DEF Launch
    <2>2. CASE Enter(t)
      BY <2>2, <1>a, <1>d, <1>f, <1>g DEF Enter
    <2>3. CASE CheckUrgent(t)
      BY <2>3, <1>a, <1>d, <1>f, <1>g DEF CheckUrgent
    <2>4. CASE Yield(t)
      BY <2>4, <1>a, <1>d, <1>f, <1>g DEF Yield
    <2>5. CASE CheckBackground(t)
      BY <2>5, <1>a, <1>d, <1>f, <1>g DEF CheckBackground
    <2>6. CASE CheckPreempt(t)
      BY <2>6, <1>a, <1>d, <1>f, <1>g DEF CheckPreempt, CountOut
    <2>7. CASE Done(t)
      BY <2>7, <1>a, <1>d, <1>f, <1>g DEF Done, CountOut
    <2>8. CASE Clamp(t)
      BY <2>8, <1>a, <1>d, <1>f, <1>g DEF Clamp
    <2> QED
      BY <2>1, <2>2, <2>3, <2>4, <2>5, <2>6, <2>7, <2>8 DEF Step
  <1> QED
    BY <1>1, <1>2, <1>3, <1>b DEF QueueCounts, NotBelow, NewIn, NewOut, InQueue, Yielding

-----------------------------------------------------------------------------
(* Commands *)

LEMMA CommandStep ==
    ASSUME IInv, TypeOK',
           \/ \E p \in Requests : PrioritySet(p)
           \/ \E b \in BOOLEAN : Urgent(b)
           \/ Preempt
           \/ UNCHANGED vars
    PROVE  SamePriority' /\ QueueCounts' /\ NotBelow'
  <1>1. pc' = pc /\ my' = my /\ queue_len' = queue_len
    BY DEF PrioritySet, Urgent, Preempt, vars
  <1>2. \/ sets' = sets /\ current_priority' = current_priority
        \/ sets' = sets /\ \A t \in Threads : pc[t] = "app"
        \/ sets' = sets + 1
    BY DEF PrioritySet, Quiet, Urgent, Preempt, vars, control
  <1>3. sets \in Nat
    BY PriorityAssumption DEF IInv, TypeOK
  <1>4. SamePriority'
    BY <1>1, <1>2, <1>3 DEF IInv, SamePriority, Counted, Waiting
  <1>5. QueueCounts'
    BY <1>1, <1>2, <1>3 DEF IInv, QueueCounts
  <1>6. NotBelow'
    BY <1>1 DEF IInv, NotBelow, Yielding
  <1> QED
    BY <1>4, <1>5, <1>6

-----------------------------------------------------------------------------
(* The theorems *)

LEMMA Initially == Init => IInv
  <1> SUFFICES ASSUME Init PROVE IInv
    OBVIOUS
  <1>1. TypeOK
    <2>1. urgent_pending \in BOOLEAN /\ preempt_requested \in BOOLEAN
      BY Zenon DEF Init
    <2>2. again \in [Threads -> BOOLEAN]
      BY DEF Init
    <2> QED
      BY <2>1, <2>2, PriorityAssumption DEF Init, TypeOK, Priority
  <1>2. SamePriority
    BY DEF Init, SamePriority, Counted, Waiting
  <1>3. \A p \in Priority : InQueue(p) = {} /\ Yielding(p) = {}
    BY DEF Init, InQueue, Yielding, Counted, Waiting
  <1>4. QueueCounts
    <2>1. \A p \in Priority : queue_len[p] = Cardinality(InQueue(p))
      BY <1>3, FS_EmptySet DEF Init
    <2> QED
      BY <2>1 DEF QueueCounts, InQueue
  <1>5. NotBelow
    BY <1>3, FS_EmptySet DEF Init, NotBelow
  <1> QED
    BY <1>1, <1>2, <1>4, <1>5 DEF IInv

LEMMA Invariant == Spec => []IInv
  <1>1. IInv /\ [Next]_vars => IInv'
    <2> SUFFICES ASSUME IInv, [Next]_vars PROVE IInv'
      OBVIOUS
    <2>1. TypeOK'
      BY TypeStep DEF IInv
    <2>2. CASE \E t \in Threads : Launch(t) \/ Step(t)
      BY <2>1, <2>2, LaunchStep DEF IInv
    <2>3. CASE ~\E t \in Threads : Launch(t) \/ Step(t)
      BY <2>1, <2>3, CommandStep DEF IInv, Next
    <2> QED
      BY <2>2, <2>3
  <1> QED
    BY <1>1, Initially, PTL DEF Spec

\* priority_queue_gate and priority_queue_done: queue_len counts the kernels
\* between them exactly as long as priority_set has not fallen into a launch,
\* and a counter is negative only while some thread is going to repair it, for
\* any number of threads and of commands.
THEOREM CountersCorrect == Spec => []QueueInv
  <1>1. IInv => QueueInv
    <2> SUFFICES ASSUME IInv PROVE UnderflowTransient
      BY DEF IInv, QueueInv
    <2> SUFFICES ASSUME NEW p \in Priority, queue_len[p] < 0,
                        ~\E t \in Threads : pc[t] = "clamp" /\ my[t] = p
                 PROVE  \E t \in Threads : pc[t] = "yield" /\ my[t] = p
      BY DEF UnderflowTransient
    <2>1. queue_len[p] + Cardinality(Yielding(p)) >= 0
      BY DEF IInv, NotBelow
    <2>2. IsFiniteSet(Yielding(p))
      BY PriorityAssumption, FS_Subset DEF Yielding
    <2>3. Cardinality(Yielding(p)) # 0
      BY <2>1 DEF IInv, TypeOK
    <2>4. Yielding(p) # {}
      BY <2>2, <2>3, FS_EmptySet
    <2> QED
      BY <2>4 DEF Yielding
  <1> QED
    BY <1>1, Invariant, PTL
=============================================================================
