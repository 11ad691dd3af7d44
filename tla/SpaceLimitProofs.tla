-------------------------- MODULE SpaceLimitProofs --------------------------
(***************************************************************************)
(* The safety properties of the limited context and of the TPC mask, for   *)
(* any number of threads, TPCs, contexts and commands.                     *)
(*                                                                         *)
(* The proof goes up in layers: who may be where (StartInv), what the      *)
(* pointer to the limited context is worth (ContextInv), what the mask     *)
(* holds (MaskInv) and where allocations are (AllocInv).                   *)
(***************************************************************************)
EXTENDS SpaceLimit, FiniteSetTheorems, TLAPS

ThreadPcs  == {"app", "ended"} \cup ReconfPcs \cup InitPcs \cup LaunchPcs
                \cup ExitPcs
ControlPcs == {"off", "recv", "set_route", "ended"} \cup ReconfPcs
WordPcs    == {"word0", "word1", "word2"}

\* A thread and the control thread have different programs, and only the
\* control thread's stores end in its loop.
Roles ==
    /\ pc[Control] \in ControlPcs
    /\ \A t \in Threads : pc[t] \in ThreadPcs
    /\ \A t \in Threads : pc[t] \in WordPcs => job.next = "activate"

\* The mutex admits one initialiser; the control thread starts once it is
\* through with reconf_limited_ctx.
InitialiserAlone ==
    /\ \A t \in Threads :
         /\ pc[t] \in ReconfPcs \cup {"serve"} =>
                init_mu = t /\ ~inited /\ pc[Control] = "off"
         /\ pc[t] \in {"attach", "attached"} =>
                init_mu = t /\ ~inited /\ pc[Control] # "off"
         /\ init_mu = t =>
                pc[t] \in ReconfPcs \cup {"serve", "attach", "attached"}
         /\ pc[t] \in LaunchPcs => inited
    /\ inited => pc[Control] # "off"
    /\ ~inited /\ init_mu = None => pc[Control] = "off"

\* The destructor runs when nobody else does.
DestructorAlone ==
    \A t \in Threads :
        /\ pc[t] \in ExitPcs \cup {"ended"} =>
               inited /\ \A u \in Threads \ {t} : pc[u] = "app"
        /\ pc[t] \in {"free", "ended"} => pc[Control] = "ended"

StartInv == Roles /\ InitialiserAlone /\ DestructorAlone

\* The pointer to the limited context is good, but for the time from Destroy
\* to Create and after the destructor.
PointerGood ==
    /\ live \subseteq 1 .. contexts
    /\ \A a \in Actors :
         /\ pc[a] \in {"close", "destroy"} => ctx_limited # 0
         /\ pc[a] = "destroy" => gate = 1
         /\ pc[a] = "create" => gate = 1 \/ ctx_limited = 0
    /\ /\ \A a \in Actors : pc[a] # "create"
       /\ \A t \in Threads : pc[t] # "ended"
       => ctx_limited \in live \cup {0}

\* A call that is past the gate, with no reconfiguration begun since.
SafeCalls ==
    \A t \in Threads : safe[t] =>
        /\ pc[t] \in {"guard", "switch", "use", "w0", "w1", "w2", "submit",
                      "attached"}
        /\ \A a \in Actors : /\ pc[a] # "destroy"
                             /\ pc[a] = "create" => ctx_limited = 0
        /\ pc[t] # "guard" => target[t] \in live \cup {Unlimited, Own, 0}

ContextInv == PointerGood /\ SafeCalls

\* The set of TPCs granted by the request in force.
Granted == AllowedTpcs[PctToTpc(asked)][layout]

\* What the words of the mask hold, whole or in the middle of a request.
MaskWords ==
    /\ \A a \in Actors :
        /\ pc[a] \in WordPcs => job.tpcs = Granted
        /\ pc[a] \in {"word1", "word2"} => mask[0] = Word(Granted, 0)
        /\ pc[a] = "word2" => mask[1] = Word(Granted, 1)
    /\ (\A a \in Actors : pc[a] \notin WordPcs) =>
           \A w \in Words : mask[w] = Word(Granted, w)

\* TPC 0 is in every grant, and the callback is registered and active from the
\* initialisation on, or never.
FirstTpc ==
    /\ 0 \in mask[0]
    /\ ~inited /\ init_mu = None => ~subscribed
    /\ \A t \in Threads :
         /\ pc[t] = "reconf" => ~subscribed
         /\ pc[t] \in (ReconfPcs \cup {"serve"}) \ {"reconf"} =>
                (space_mode = "QMD" => qmd_setup_done)
         /\ pc[t] \in (ReconfPcs \cup {"serve"})
                        \ (WordPcs \cup {"reconf", "activate"}) =>
                (subscribed => qmd_active)
         /\ pc[t] \in {"w1", "w2"} => 0 \in seen[t]
         /\ pc[t] = "submit" /\ subscribed => 0 \in seen[t]
    /\ pc[Control] # "off" =>
         /\ subscribed => qmd_active
         /\ space_mode = "QMD" => qmd_setup_done

MaskInv == MaskWords /\ FirstTpc

\* Where a call goes, as things stand: what Guard and Switch compute.
RoutedTo == IF route = "LIMITED" /\ ctx_limited # 0 THEN ctx_limited
            ELSE Unlimited
Place    == IF limited_applied = 0 THEN Own ELSE RoutedTo

\* After the first allocation nothing moves, unless it came in the middle of
\* a command.
AllocInv ==
    /\ space_mode = "MPS_ENV" => pc[Control] \notin ReconfPcs
    /\ any_alloc => inited
    /\ holding # {} => any_alloc
    /\ \A t \in Threads :
         /\ pc[t] \in {"route", "gate"} => op[t] = "launch"
         /\ /\ op[t] = "malloc"
            /\ pc[t] \in {"guard", "switch", "use", "w0", "w1", "w2", "submit"}
            => any_alloc
         /\ late[t] => holding # {}
    /\ any_alloc /\ ~overtaken =>
         /\ pc[Control] \notin DecidedPcs
         /\ holding \subseteq {Place}
         /\ \A t \in Threads : op[t] = "malloc" \/ late[t] =>
              /\ pc[t] = "switch" => target[t] = RoutedTo
              /\ pc[t] \in {"use", "w0", "w1", "w2", "submit"} =>
                     target[t] = Place

-----------------------------------------------------------------------------
(* The operators *)

LEMMA Apart == Control \notin Threads /\ None \notin Threads
  BY SpaceAssumption

\* The percentage is clamped.
LEMMA Clamp ==
    ASSUME NEW p \in Int
    PROVE  Max({1, Min({p, 100})}) \in 1 .. 100
  <1>1. Min({p, 100}) \in {p, 100} /\ Min({p, 100}) <= 100
    <2>1. \E x \in {p, 100} : \A y \in {p, 100} : x =< y
      <3>1. CASE p <= 100
        BY <3>1
      <3>2. CASE ~(p <= 100)
        BY <3>2
      <3> QED
        BY <3>1, <3>2
    <2> QED
      BY <2>1 DEF Min
  <1> DEFINE m == Min({p, 100})
  <1>2. m \in Int /\ m <= 100
    BY <1>1
  <1> HIDE DEF m
  <1>3. \E x \in {1, m} : \A y \in {1, m} : x >= y
    <2>1. CASE m <= 1
      BY <2>1, <1>2
    <2>2. CASE ~(m <= 1)
      BY <2>2, <1>2
    <2> QED
      BY <2>1, <2>2
  <1>4. Max({1, m}) \in {1, m} /\ \A y \in {1, m} : Max({1, m}) >= y
    BY <1>3 DEF Max
  <1>5. Max({1, m}) \in 1 .. 100
    BY <1>2, <1>4
  <1> QED
    BY <1>5 DEF m

\* The number of TPCs is the share, rounded up, and never zero.
LEMMA PctToTpcRange ==
    ASSUME NEW p \in Int
    PROVE  /\ PctToTpc(p) \in 1 .. TpcTotal
           /\ 100 * (PctToTpc(p) - 1) < TpcTotal * Max({1, Min({p, 100})})
           /\ TpcTotal * Max({1, Min({p, 100})}) <= 100 * PctToTpc(p)
  <1> DEFINE q == Max({1, Min({p, 100})})
             r == TpcTotal * q
  <1>1. q \in 1 .. 100
    BY Clamp
  <1>2. TpcTotal \in Nat /\ TpcTotal >= 1
    BY SpaceAssumption
  <1>3. PctToTpc(p) = (r + 99) \div 100
    BY DEF PctToTpc
  <1> HIDE DEF q
  <1>4. r \in Int /\ r >= TpcTotal /\ r <= TpcTotal * 100
    BY <1>1, <1>2
  <1> HIDE DEF r
  <1>5. /\ (r + 99) \div 100 \in Int
        /\ 100 * ((r + 99) \div 100) <= r + 99
        /\ r <= 100 * ((r + 99) \div 100)
    BY <1>4
  <1>6. /\ (r + 99) \div 100 \in 1 .. TpcTotal
        /\ 100 * ((r + 99) \div 100 - 1) < r
    BY <1>2, <1>4, <1>5
  <1> QED
    BY <1>3, <1>5, <1>6 DEF q, r

\* A grant is a set of TPCs.
LEMMA AllowedType ==
    ASSUME NEW n \in 1 .. TpcTotal, NEW l \in Layouts
    PROVE  AllowedTpcs[n][l] \in SUBSET Tpcs
  BY DEF AllowedTpcs, FirstOf

LEMMA WordType ==
    ASSUME NEW S \in SUBSET Tpcs, NEW w
    PROVE  Word(S, w) \in SUBSET Tpcs /\ Word(Word(S, w), w) = Word(S, w)
  BY DEF Word
\* The first n TPCs.
LEMMA FirstTpcs ==
    ASSUME NEW n \in 1 .. TpcTotal
    PROVE  FirstOf(n, Tpcs) = 0 .. n - 1
  <1>1. TpcTotal \in Nat
    BY SpaceAssumption
  <1>2. \A x \in Tpcs : Cardinality({y \in Tpcs : y < x}) = x
    <2> SUFFICES ASSUME NEW x \in Tpcs
                 PROVE  Cardinality({y \in Tpcs : y < x}) = x
      OBVIOUS
    <2>1. x \in Int /\ 0 <= x
      BY <1>1 DEF Tpcs
    <2>2. {y \in Tpcs : y < x} = 0 .. x - 1
      BY <1>1 DEF Tpcs
    <2>3. Cardinality(0 .. x - 1) = IF 0 > x - 1 THEN 0 ELSE x - 1 - 0 + 1
      BY <2>1, FS_Interval
    <2>4. Cardinality(0 .. x - 1) = x
      BY <2>1, <2>3
    <2> QED
      BY <2>2, <2>4, Zenon
  <1>3. FirstOf(n, Tpcs) = {x \in Tpcs : x < n}
    BY <1>2 DEF FirstOf
  <1>4. {x \in Tpcs : x < n} = 0 .. n - 1
    BY <1>1 DEF Tpcs
  <1> QED
    BY <1>3, <1>4, Zenon

\* The first k multiples of a stride are k numbers.
Multiples(s, k) == {j * s : j \in 0 .. k - 1}

LEMMA MultiplesCount ==
    ASSUME NEW s \in Nat \ {0}, NEW k \in Nat
    PROVE  IsFiniteSet(Multiples(s, k)) /\ Cardinality(Multiples(s, k)) = k
  <1> DEFINE f == [j \in 0 .. k - 1 |-> j * s]
  <1>1. f \in [0 .. k - 1 -> Multiples(s, k)]
    BY DEF Multiples
  <1>2. ASSUME NEW i \in 0 .. k - 1, NEW j \in 0 .. k - 1, f[i] = f[j]
        PROVE  i = j
    <2>1. i * s = j * s
      BY <1>2
    <2> QED
      BY <2>1
  <1>3. \A x \in Multiples(s, k) : \E j \in 0 .. k - 1 : f[j] = x
    BY DEF Multiples
  <1>4. f \in Bijection(0 .. k - 1, Multiples(s, k))
    BY <1>1, <1>2, <1>3 DEF Bijection, Injection, Surjection, IsInjective
  <1>5. ExistsBijection(0 .. k - 1, Multiples(s, k))
    BY <1>4 DEF ExistsBijection
  <1>6. /\ IsFiniteSet(0 .. k - 1)
        /\ Cardinality(0 .. k - 1) = IF 0 > k - 1 THEN 0 ELSE k - 1 - 0 + 1
    BY FS_Interval
  <1>7. Cardinality(0 .. k - 1) = k
    BY <1>6
  <1> QED
    BY <1>5, <1>6, <1>7, FS_Bijection

\* There are always enough TPCs at the stride TpcTotal \div n, so the spread
\* layout never takes more from the front.
LEMMA FirstStrided ==
    ASSUME NEW n \in 1 .. TpcTotal
    PROVE  FirstOf(n, {x \in Tpcs : x % (TpcTotal \div n) = 0})
               = Multiples(TpcTotal \div n, n)
  <1> DEFINE s == TpcTotal \div n
             strided == {x \in Tpcs : x % s = 0}
  <1>1. TpcTotal \in Nat /\ n \in Nat \ {0}
    BY SpaceAssumption
  <1>2. s \in Nat \ {0} /\ n * s <= TpcTotal
    BY <1>1
  <1> HIDE DEF s
  <1>3. \A x \in strided : \E k \in Nat : x = k * s
    <2> SUFFICES ASSUME NEW x \in strided PROVE \E k \in Nat : x = k * s
      OBVIOUS
    <2>1. x \in Nat /\ x % s = 0
      BY <1>1 DEF Tpcs
    <2>2. \E k \in Nat : x = s * k
      BY <1>2, <2>1
    <2> QED
      BY <1>2, <2>2
  <1>4. \A k \in Nat : (k * s) % s = 0
    BY <1>2
  <1>5. ASSUME NEW k \in Nat, k * s < TpcTotal
        PROVE  {y \in strided : y < k * s} = Multiples(s, k)
    <2>1. ASSUME NEW y \in strided, y < k * s PROVE y \in Multiples(s, k)
      <3>1. PICK j \in Nat : y = j * s
        BY <1>3
      <3>2. j < k
        BY <1>2, <2>1, <3>1
      <3> QED
        BY <3>1, <3>2 DEF Multiples
    <2>2. ASSUME NEW y \in Multiples(s, k) PROVE y \in strided /\ y < k * s
      <3>1. PICK j \in 0 .. k - 1 : y = j * s
        BY DEF Multiples
      <3>2. y \in Nat /\ y < k * s
        BY <1>2, <3>1
      <3>3. y % s = 0
        BY <1>4, <3>1
      <3> QED
        BY <1>1, <1>2, <1>5, <3>2, <3>3 DEF Tpcs
    <2> QED
      BY <2>1, <2>2
  <1>6. ASSUME NEW x \in strided, Cardinality({y \in strided : y < x}) < n
        PROVE  x \in Multiples(s, n)
    <2>1. PICK k \in Nat : x = k * s
      BY <1>3
    <2>2. {y \in strided : y < x} = Multiples(s, k)
      BY <1>1, <1>5, <2>1 DEF Tpcs
    <2>3. k < n
      BY <1>2, <1>6, <2>2, MultiplesCount
    <2> QED
      BY <2>1, <2>3, <1>1 DEF Multiples
  <1>7. ASSUME NEW x \in Multiples(s, n)
        PROVE  x \in strided /\ Cardinality({y \in strided : y < x}) < n
    <2>1. PICK k \in 0 .. n - 1 : x = k * s
      BY DEF Multiples
    <2>2. k \in Nat /\ k < n
      BY <1>1, <2>1
    <2>3. k * s < n * s /\ k * s \in Nat
      BY <1>1, <1>2, <2>2
    <2>4. k * s < TpcTotal
      BY <1>1, <1>2, <2>2, <2>3
    <2>5. x \in strided
      BY <1>1, <1>4, <2>1, <2>2, <2>3, <2>4 DEF Tpcs
    <2>6. Cardinality({y \in strided : y < x}) = k
      BY <1>2, <1>5, <2>1, <2>2, <2>4, MultiplesCount
    <2> QED
      BY <2>2, <2>5, <2>6
  <1>8. FirstOf(n, strided) = Multiples(s, n)
    BY <1>6, <1>7 DEF FirstOf
  <1> QED
    BY <1>8 DEF s

\* A grant of n is n TPCs, the first one among them, in both layouts.
LEMMA AllowedCount ==
    ASSUME NEW n \in 1 .. TpcTotal, NEW l \in Layouts
    PROVE  /\ IsFiniteSet(AllowedTpcs[n][l])
           /\ Cardinality(AllowedTpcs[n][l]) = n
           /\ 0 \in AllowedTpcs[n][l]
  <1> DEFINE s == TpcTotal \div n
             strided == {x \in Tpcs : x % s = 0}
             spread  == FirstOf(n, strided)
  <1>1. TpcTotal \in Nat /\ n \in Nat \ {0}
    BY SpaceAssumption
  <1>2. s \in Nat \ {0}
    BY <1>1
  <1>3. CASE l = "spread"
    <2>1. AllowedTpcs[n][l] =
              spread \cup FirstOf(n - Cardinality(spread), Tpcs \ spread)
      BY <1>3 DEF AllowedTpcs
    <2>2. spread = Multiples(s, n)
      BY FirstStrided
    <2> HIDE DEF spread, s
    <2>3. IsFiniteSet(spread) /\ Cardinality(spread) = n
      BY <1>1, <1>2, <2>2, MultiplesCount
    <2>4. FirstOf(n - Cardinality(spread), Tpcs \ spread) = {}
      <3> SUFFICES ASSUME NEW x \in Tpcs \ spread,
                          Cardinality({y \in Tpcs \ spread : y < x})
                              < n - Cardinality(spread)
                   PROVE  FALSE
        BY DEF FirstOf
      <3>1. Tpcs = 0 .. TpcTotal - 1
        BY DEF Tpcs
      <3>2. IsFiniteSet(Tpcs)
        BY <1>1, <3>1, FS_Interval
      <3>3. IsFiniteSet({y \in Tpcs \ spread : y < x})
        BY <3>2, FS_Subset
      <3>4. Cardinality({y \in Tpcs \ spread : y < x}) \in Nat
        BY <3>3, FS_CardinalityType
      <3> QED
        BY <1>1, <2>3, <3>4
    <2>5. 0 \in spread
      <3>1. 0 \in 0 .. n - 1 /\ 0 = 0 * s
        BY <1>1, <1>2
      <3> QED
        BY <3>1, <2>2 DEF Multiples
    <2> QED
      BY <2>1, <2>3, <2>4, <2>5
  <1>4. CASE l # "spread"
    <2>1. AllowedTpcs[n][l] = 0 .. n - 1
      BY <1>4, FirstTpcs DEF AllowedTpcs
    <2>2. /\ IsFiniteSet(0 .. n - 1)
          /\ Cardinality(0 .. n - 1) = IF 0 > n - 1 THEN 0 ELSE n - 1 - 0 + 1
      BY <1>1, FS_Interval
    <2> QED
      BY <1>1, <2>1, <2>2
  <1> QED
    BY <1>3, <1>4

-----------------------------------------------------------------------------
(* Types and roles *)

LEMMA TypeInit == Init => TypeOK
  <1> SUFFICES ASSUME Init PROVE TypeOK
    OBVIOUS
  <1>1. space_mode \in SpaceModes /\ layout \in Layouts
    <2>1. (CHOOSE l \in Layouts : TRUE) \in Layouts
      BY SpaceAssumption
    <2> QED
      BY <2>1 DEF Init, Environment
  <1>2. \A w \in Words : /\ Word(Tpcs, w) \in SUBSET Tpcs
                         /\ Word(Word(Tpcs, w), w) = Word(Tpcs, w)
    BY WordType
  <1>3. job \in Jobs
    BY DEF Init, NoJob, Jobs
  <1>4. MaxCommands[space_mode] \in Nat /\ MaxContexts \in Nat
    BY <1>1, SpaceAssumption
  <1>5. mask = [w \in Words |-> Word(Tpcs, w)]
    BY DEF Init
  <1>6. /\ mask \in [Words -> SUBSET Tpcs]
        /\ \A w \in Words : mask[w] = Word(mask[w], w)
    BY <1>2, <1>5
  <1>7. pc \in [Actors -> Pcs]
    BY DEF Init, Actors, Pcs
  <1>8. /\ commands \in 0 .. MaxCommands[space_mode]
        /\ contexts \in 0 .. MaxContexts
        /\ ctx_limited \in 0 .. MaxContexts /\ live \subseteq 1 .. MaxContexts
    BY <1>4 DEF Init
  <1>9. /\ target \in [Threads -> Contexts] /\ holding \subseteq Contexts
        /\ seen \in [Threads -> SUBSET Tpcs]
        /\ op \in [Threads -> {"launch", "malloc", "exit"}]
    BY DEF Init, Contexts
  <1>10. safe \in [Threads -> BOOLEAN] /\ late \in [Threads -> BOOLEAN]
    BY DEF Init
  <1>11. gate \in {0, 1} /\ limited_applied \in {0, 1} /\ asked \in Int
    BY DEF Init
  <1>12. /\ inited \in BOOLEAN /\ init_mu \in Threads \cup {None}
         /\ route \in {"LIMITED", "UNLIMITED"}
         /\ new_route \in {"LIMITED", "UNLIMITED"}
         /\ any_alloc \in BOOLEAN /\ overtaken \in BOOLEAN
         /\ qmd_setup_done \in BOOLEAN /\ qmd_active \in BOOLEAN
         /\ subscribed \in BOOLEAN
    BY Zenon DEF Init
  <1> QED
    BY <1>1, <1>3, <1>6, <1>7, <1>8, <1>9, <1>10, <1>11, <1>12 DEF TypeOK

LEMMA TypeStep == TypeOK /\ [Next]_vars => TypeOK'
  <1> SUFFICES ASSUME TypeOK, [Next]_vars PROVE TypeOK'
    OBVIOUS
  <1> USE DEF TypeOK, Actors, Pcs, ReconfPcs, InitPcs, LaunchPcs, ExitPcs,
              Contexts, Unlimited, Own, Goto, Transition, env, start, limited,
              qmd, calls, command, alloc
  <1>1. ASSUME NEW a \in Actors, Reconf(a) PROVE TypeOK'
    <2>1. EnvPct \in Int
      BY SpaceAssumption
    <2>2. AllowedTpcs[PctToTpc(EnvPct)][layout] \in SUBSET Tpcs
      BY <2>1, PctToTpcRange, AllowedType
    <2>3. [tpcs |-> AllowedTpcs[PctToTpc(EnvPct)][layout], next |-> "activate"]
              \in Jobs
      BY <2>2 DEF Jobs
    <2>4. pc' \in [Actors -> Pcs]
      BY <1>1 DEF Reconf, Return
    <2>5. job' \in Jobs /\ asked' \in Int
      BY <1>1, <2>1, <2>3 DEF Reconf
    <2>6. /\ gate' \in {0, 1} /\ limited_applied' \in {0, 1}
          /\ ctx_limited' \in 0 .. MaxContexts
      BY <1>1, SpaceAssumption DEF Reconf
    <2>7. qmd_setup_done' \in BOOLEAN /\ subscribed' \in BOOLEAN
      BY <1>1, Zenon DEF Reconf, QmdSetup
    <2>8. UNCHANGED <<live, contexts, qmd_active, mask>>
      BY <1>1 DEF Reconf
    <2> QED
      BY <1>1, <2>4, <2>5, <2>6, <2>7, <2>8 DEF Reconf
  <1>2. ASSUME NEW a \in Actors, SetAllowed(a) PROVE TypeOK'
    <2>1. job.tpcs \in SUBSET Tpcs /\ job.next \in {"recv", "activate"}
      BY DEF Jobs
    <2>2. ASSUME NEW w \in Words, NEW from, NEW to \in Pcs,
                 StoreWord(a, from, w, to)
          PROVE  TypeOK'
      <3>1. /\ Word(job.tpcs, w) \in SUBSET Tpcs
            /\ Word(Word(job.tpcs, w), w) = Word(job.tpcs, w)
        BY <2>1, WordType
      <3>2. /\ mask' \in [Words -> SUBSET Tpcs]
            /\ \A v \in Words : mask'[v] = Word(mask'[v], v)
        BY <2>2, <3>1 DEF StoreWord
      <3>3. job' \in Jobs
        BY <2>2 DEF StoreWord, NoJob, Jobs
      <3>4. pc' \in [Actors -> Pcs]
        BY <2>2 DEF StoreWord
      <3> QED
        BY <2>2, <3>2, <3>3, <3>4 DEF StoreWord
    <2>3. 0 \in Words /\ 1 \in Words /\ 2 \in Words
      BY DEF Words
    <2>4. {"word1", "word2", job.next} \subseteq Pcs
      BY <2>1
    <2> QED
      BY <1>2, <2>2, <2>3, <2>4 DEF SetAllowed
  <1>3. ASSUME NEW a \in Actors, Activate(a) PROVE TypeOK'
    <2>1. NoJob \in Jobs
      BY DEF NoJob, Jobs
    <2> QED
      BY <1>3, <2>1 DEF Activate
  <1>4. ASSUME NEW a \in Actors, CheckAlloc(a) PROVE TypeOK'
    BY <1>4 DEF CheckAlloc, Return
  <1>5. ASSUME NEW a \in Actors, CloseGate(a) PROVE TypeOK'
    BY <1>5 DEF CloseGate
  <1>6. ASSUME NEW a \in Actors, Destroy(a) PROVE TypeOK'
    BY <1>6 DEF Destroy
  <1>7. ASSUME NEW a \in Actors, Create(a) PROVE TypeOK'
    <2>1. contexts < MaxContexts => contexts + 1 \in 1 .. MaxContexts
      BY SpaceAssumption
    <2>2. /\ contexts' \in 0 .. MaxContexts /\ ctx_limited' \in 0 .. MaxContexts
          /\ live' \subseteq 1 .. MaxContexts
      <3>1. CASE contexts < MaxContexts /\ contexts' = contexts + 1
        <4>1. /\ ctx_limited' = contexts + 1 \/ ctx_limited' = 0
              /\ live' = live \cup {contexts + 1} \/ live' = live
          BY <1>7 DEF Create
        <4>2. /\ 0 \in 0 .. MaxContexts
              /\ 1 .. MaxContexts \subseteq 0 .. MaxContexts
          BY SpaceAssumption
        <4> QED
          BY <2>1, <3>1, <4>1, <4>2
      <3>2. CASE ctx_limited' = 0 /\ UNCHANGED <<contexts, live>>
        BY <3>2, SpaceAssumption
      <3> QED
        BY <1>7, <3>1, <3>2 DEF Create
    <2>3. pc' \in [Actors -> Pcs]
      BY <1>7 DEF Create
    <2> QED
      BY <1>7, <2>2, <2>3 DEF Create
  <1>8. ASSUME NEW a \in Actors, StoreApplied(a, "applied", 1) PROVE TypeOK'
    BY <1>8 DEF StoreApplied
  <1>9. ASSUME NEW a \in Actors, StoreApplied(a, "fallback", 0) PROVE TypeOK'
    BY <1>9 DEF StoreApplied
  <1>10. ASSUME NEW a \in Actors, OpenGate(a) PROVE TypeOK'
    BY <1>10 DEF OpenGate, Return
  <1>11. ASSUME NEW t \in Threads, Entry(t) PROVE TypeOK'
    BY <1>11 DEF Entry, Body
  <1>12. ASSUME NEW t \in Threads, Lock(t) PROVE TypeOK'
    BY <1>12 DEF Lock, Body
  <1>13. ASSUME NEW t \in Threads, StartControlServer(t) PROVE TypeOK'
    BY <1>13 DEF StartControlServer
  <1>14. ASSUME NEW t \in Threads, Attach(t) PROVE TypeOK'
    BY <1>14 DEF Attach
  <1>15. ASSUME NEW t \in Threads, Inited(t) PROVE TypeOK'
    BY <1>15 DEF Inited, Body
  <1>16. ASSUME NEW t \in Threads, CheckRoute(t) PROVE TypeOK'
    BY <1>16 DEF CheckRoute
  <1>17. ASSUME NEW t \in Threads, PassGate(t) PROVE TypeOK'
    BY <1>17 DEF PassGate
  <1>18. ASSUME NEW t \in Threads, MarkAlloc(t) PROVE TypeOK'
    BY <1>18 DEF MarkAlloc
  <1>19. ASSUME NEW t \in Threads, Guard(t) PROVE TypeOK'
    BY <1>19 DEF Guard
  <1>20. ASSUME NEW t \in Threads, Switch(t) PROVE TypeOK'
    BY <1>20 DEF Switch
  <1>21. ASSUME NEW t \in Threads, Use(t) PROVE TypeOK'
    <2>1. pc' \in [Actors -> Pcs]
      BY <1>21 DEF Use
    <2>2. holding' \subseteq Contexts /\ target' \in [Threads -> Contexts]
      <3>1. target[t] \in Contexts /\ Own \in Contexts
        OBVIOUS
      <3> HIDE DEF Contexts, Own
      <3> QED
        BY <1>21, <3>1 DEF Use
    <2>3. safe' \in [Threads -> BOOLEAN] /\ late' \in [Threads -> BOOLEAN]
      BY <1>21 DEF Use
    <2> QED
      BY <1>21, <2>1, <2>2, <2>3 DEF Use
  <1>22. ASSUME NEW t \in Threads, Callback(t) PROVE TypeOK'
    <2>1. ASSUME NEW w \in Words, NEW from, NEW to \in Pcs,
                 ReadWord(t, from, w, to)
          PROVE  TypeOK'
      BY <2>1 DEF ReadWord
    <2>2. 0 \in Words /\ 1 \in Words /\ 2 \in Words
      BY DEF Words
    <2> QED
      BY <1>22, <2>1, <2>2 DEF Callback
  <1>23. ASSUME NEW t \in Threads, Submit(t) PROVE TypeOK'
    BY <1>23 DEF Submit
  <1>24. ASSUME NEW t \in Threads, Join(t) PROVE TypeOK'
    BY <1>24 DEF Join
  <1>25. ASSUME NEW t \in Threads, FreeContexts(t) PROVE TypeOK'
    BY <1>25 DEF FreeContexts
  <1>26. ASSUME NEW t \in Threads, Exit(t) PROVE TypeOK'
    BY <1>26 DEF Exit
  <1>27. ASSUME NEW t \in Threads, NEW o \in {"launch", "malloc"}, Call(t, o)
         PROVE  TypeOK'
    BY <1>27 DEF Call
  <1>28. ASSUME StoreRoute PROVE TypeOK'
    BY <1>28 DEF StoreRoute
  <1>29. ASSUME Quit PROVE TypeOK'
    BY <1>29 DEF Quit
  <1>30. ASSUME ReconfSm PROVE TypeOK'
    <2>1. commands' \in 0 .. MaxCommands[space_mode]
      BY <1>30, SpaceAssumption DEF ReconfSm, Receive
    <2>2. pc' \in [Actors -> Pcs]
      BY <1>30 DEF ReconfSm, Receive
    <2> QED
      BY <1>30, <2>1, <2>2 DEF ReconfSm, Receive
  <1>31. ASSUME QuitCommand PROVE TypeOK'
    <2>1. commands' \in 0 .. MaxCommands[space_mode]
      BY <1>31, SpaceAssumption DEF QuitCommand, Receive
    <2>2. pc' \in [Actors -> Pcs]
      BY <1>31 DEF QuitCommand, Receive
    <2> QED
      BY <1>31, <2>1, <2>2 DEF QuitCommand, Receive
  <1>32. ASSUME NEW r \in {"LIMITED", "UNLIMITED"}, SetRoute(r) PROVE TypeOK'
    <2>1. commands' \in 0 .. MaxCommands[space_mode]
      BY <1>32, SpaceAssumption DEF SetRoute, Receive
    <2>2. pc' \in [Actors -> Pcs]
      BY <1>32 DEF SetRoute, Receive
    <2> QED
      BY <1>32, <2>1, <2>2 DEF SetRoute, Receive
  <1>33. ASSUME NEW p \in Pcts, QmdPct(p) PROVE TypeOK'
    <2>1. p \in Int
      BY SpaceAssumption
    <2>2. AllowedTpcs[PctToTpc(p)][layout] \in SUBSET Tpcs
      BY <2>1, PctToTpcRange, AllowedType
    <2>3. [tpcs |-> AllowedTpcs[PctToTpc(p)][layout], next |-> "recv"] \in Jobs
      BY <2>2 DEF Jobs
    <2>4. job' \in Jobs /\ asked' \in Int
      BY <1>33, <2>1, <2>3 DEF QmdPct
    <2>5. commands' \in 0 .. MaxCommands[space_mode]
      BY <1>33, SpaceAssumption DEF QmdPct, Receive
    <2>6. pc' \in [Actors -> Pcs]
      BY <1>33 DEF QmdPct, Receive
    <2> QED
      BY <1>33, <2>4, <2>5, <2>6 DEF QmdPct, Receive
  <1>34. CASE UNCHANGED vars
    BY <1>34 DEF vars
  <1> QED
    BY <1>1, <1>2, <1>3, <1>4, <1>5, <1>6, <1>7, <1>8, <1>9, <1>10, <1>11,
       <1>12, <1>13, <1>14, <1>15, <1>16, <1>17, <1>18, <1>19, <1>20,
       <1>21, <1>22, <1>23, <1>24, <1>25, <1>26, <1>27, <1>28, <1>29,
       <1>30, <1>31, <1>32, <1>33, <1>34
       DEF Next, Inside, Serve, ReconfLimitedCtx, Actors

\* Every variable keeps its type: the pointer is one of the contexts created,
\* every word of the mask holds its own TPCs only.
THEOREM TypeCorrect == Spec => []TypeOK
  BY TypeInit, TypeStep, PTL DEF Spec


-----------------------------------------------------------------------------
(* Who may be where *)

LEMMA StartInit == Init => StartInv
  BY Apart DEF Init, StartInv, Roles, InitialiserAlone, DestructorAlone, Actors,
               ThreadPcs, ControlPcs, WordPcs, ReconfPcs, LaunchPcs, ExitPcs

LEMMA InitialiserStep ==
    TypeOK /\ Roles /\ InitialiserAlone /\ [Next]_vars
        => Roles' /\ InitialiserAlone'
  <1> DEFINE Inv == Roles /\ InitialiserAlone
  <1> SUFFICES ASSUME TypeOK, Inv, [Next]_vars PROVE Inv'
    OBVIOUS
  <1> USE DEF Roles, InitialiserAlone, ThreadPcs, ControlPcs, WordPcs, Goto,
              Transition, command, start, Actors, ReconfPcs, InitPcs, LaunchPcs,
              ExitPcs
  <1>0. /\ pc \in [Actors -> Pcs] /\ job.next \in {"recv", "activate"}
        /\ init_mu \in Threads \cup {None}
    BY DEF TypeOK, Jobs
  <1>1. ASSUME NEW a \in Actors, Reconf(a) PROVE Inv'
    BY <1>1, <1>0, Apart DEF Reconf, QmdSetup, Return
  <1>2. ASSUME NEW a \in Actors, SetAllowed(a) PROVE Inv'
    <2>1. CASE StoreWord(a, "word0", 0, "word1")
      BY <2>1, <1>0, Apart DEF StoreWord
    <2>2. CASE StoreWord(a, "word1", 1, "word2")
      BY <2>2, <1>0, Apart DEF StoreWord
    <2>3. CASE StoreWord(a, "word2", 2, job.next)
      BY <2>3, <1>0, Apart DEF StoreWord
    <2> QED
      BY <1>2, <2>1, <2>2, <2>3 DEF SetAllowed
  <1>3. ASSUME NEW a \in Actors, Activate(a) PROVE Inv'
    BY <1>3, <1>0, Apart DEF Activate
  <1>4. ASSUME NEW a \in Actors, CheckAlloc(a) PROVE Inv'
    BY <1>4, <1>0, Apart DEF CheckAlloc, Return
  <1>5. ASSUME NEW a \in Actors, CloseGate(a) PROVE Inv'
    BY <1>5, <1>0, Apart DEF CloseGate
  <1>6. ASSUME NEW a \in Actors, Destroy(a) PROVE Inv'
    BY <1>6, <1>0, Apart DEF Destroy
  <1>7. ASSUME NEW a \in Actors, Create(a) PROVE Inv'
    BY <1>7, <1>0, Apart DEF Create
  <1>8. ASSUME NEW a \in Actors, StoreApplied(a, "applied", 1) PROVE Inv'
    BY <1>8, <1>0, Apart DEF StoreApplied
  <1>9. ASSUME NEW a \in Actors, StoreApplied(a, "fallback", 0) PROVE Inv'
    BY <1>9, <1>0, Apart DEF StoreApplied
  <1>10. ASSUME NEW a \in Actors, OpenGate(a) PROVE Inv'
    BY <1>10, <1>0, Apart DEF OpenGate, Return
  <1>11. ASSUME NEW t \in Threads, Entry(t) PROVE Inv'
    BY <1>11, <1>0, Apart DEF Entry, Body
  <1>12. ASSUME NEW t \in Threads, Lock(t) PROVE Inv'
    BY <1>12, <1>0, Apart DEF Lock, Body
  <1>13. ASSUME NEW t \in Threads, StartControlServer(t) PROVE Inv'
    BY <1>13, <1>0, Apart DEF StartControlServer
  <1>14. ASSUME NEW t \in Threads, Attach(t) PROVE Inv'
    BY <1>14, <1>0, Apart DEF Attach
  <1>15. ASSUME NEW t \in Threads, Inited(t) PROVE Inv'
    BY <1>15, <1>0, Apart DEF Inited, Body
  <1>16. ASSUME NEW t \in Threads, CheckRoute(t) PROVE Inv'
    BY <1>16, <1>0, Apart DEF CheckRoute
  <1>17. ASSUME NEW t \in Threads, PassGate(t) PROVE Inv'
    BY <1>17, <1>0, Apart DEF PassGate
  <1>18. ASSUME NEW t \in Threads, MarkAlloc(t) PROVE Inv'
    BY <1>18, <1>0, Apart DEF MarkAlloc
  <1>19. ASSUME NEW t \in Threads, Guard(t) PROVE Inv'
    BY <1>19, <1>0, Apart DEF Guard
  <1>20. ASSUME NEW t \in Threads, Switch(t) PROVE Inv'
    BY <1>20, <1>0, Apart DEF Switch
  <1>21. ASSUME NEW t \in Threads, Use(t) PROVE Inv'
    BY <1>21, <1>0, Apart DEF Use
  <1>22. ASSUME NEW t \in Threads, Callback(t) PROVE Inv'
    BY <1>22, <1>0, Apart DEF Callback, ReadWord
  <1>23. ASSUME NEW t \in Threads, Submit(t) PROVE Inv'
    BY <1>23, <1>0, Apart DEF Submit
  <1>24. ASSUME NEW t \in Threads, Join(t) PROVE Inv'
    BY <1>24, <1>0, Apart DEF Join
  <1>25. ASSUME NEW t \in Threads, FreeContexts(t) PROVE Inv'
    BY <1>25, <1>0, Apart DEF FreeContexts
  <1>26. ASSUME NEW t \in Threads, Exit(t) PROVE Inv'
    BY <1>26, <1>0, Apart DEF Exit
  <1>27. ASSUME NEW t \in Threads, NEW o \in {"launch", "malloc"}, Call(t, o)
         PROVE  Inv'
    BY <1>27, <1>0, Apart DEF Call
  <1>28. ASSUME StoreRoute PROVE Inv'
    BY <1>28, <1>0, Apart DEF StoreRoute
  <1>29. ASSUME Quit PROVE Inv'
    BY <1>29, <1>0, Apart DEF Quit
  <1>30. ASSUME ReconfSm PROVE Inv'
    BY <1>30, <1>0, Apart DEF ReconfSm, Receive
  <1>31. ASSUME QuitCommand PROVE Inv'
    BY <1>31, <1>0, Apart DEF QuitCommand, Receive
  <1>32. ASSUME NEW r \in {"LIMITED", "UNLIMITED"}, SetRoute(r) PROVE Inv'
    BY <1>32, <1>0, Apart DEF SetRoute, Receive
  <1>33. ASSUME NEW p \in Pcts, QmdPct(p) PROVE Inv'
    BY <1>33, <1>0, Apart DEF QmdPct, Receive
  <1>34. CASE UNCHANGED vars
    BY <1>34 DEF vars
  <1> QED
    BY <1>1, <1>2, <1>3, <1>4, <1>5, <1>6, <1>7, <1>8, <1>9, <1>10, <1>11,
       <1>12, <1>13, <1>14, <1>15, <1>16, <1>17, <1>18, <1>19, <1>20,
       <1>21, <1>22, <1>23, <1>24, <1>25, <1>26, <1>27, <1>28, <1>29,
       <1>30, <1>31, <1>32, <1>33, <1>34
       DEF Next, Inside, Serve, ReconfLimitedCtx, Actors

LEMMA DestructorStep ==
    TypeOK /\ StartInv /\ [Next]_vars => DestructorAlone'
  <1> SUFFICES ASSUME TypeOK, StartInv, [Next]_vars PROVE DestructorAlone'
    OBVIOUS
  <1> USE DEF StartInv, DestructorAlone, Goto, Transition, start
  <1> USE DEF Roles, InitialiserAlone, ThreadPcs, ControlPcs, WordPcs, Actors,
              ReconfPcs, InitPcs, LaunchPcs, ExitPcs, Exiting
  <1>0. /\ pc \in [Actors -> Pcs] /\ job.next \in {"recv", "activate"}
        /\ init_mu \in Threads \cup {None}
    BY DEF TypeOK, Jobs
  <1>1. ASSUME NEW a \in Actors, Reconf(a) PROVE DestructorAlone'
    BY <1>1, <1>0, Apart DEF Reconf, QmdSetup, Return
  <1>2. ASSUME NEW a \in Actors, SetAllowed(a) PROVE DestructorAlone'
    <2>1. CASE StoreWord(a, "word0", 0, "word1")
      BY <2>1, <1>0, Apart DEF StoreWord
    <2>2. CASE StoreWord(a, "word1", 1, "word2")
      BY <2>2, <1>0, Apart DEF StoreWord
    <2>3. CASE StoreWord(a, "word2", 2, job.next)
      BY <2>3, <1>0, Apart DEF StoreWord
    <2> QED
      BY <1>2, <2>1, <2>2, <2>3 DEF SetAllowed
  <1>3. ASSUME NEW a \in Actors, Activate(a) PROVE DestructorAlone'
    BY <1>3, <1>0, Apart DEF Activate
  <1>4. ASSUME NEW a \in Actors, CheckAlloc(a) PROVE DestructorAlone'
    BY <1>4, <1>0, Apart DEF CheckAlloc, Return
  <1>5. ASSUME NEW a \in Actors, CloseGate(a) PROVE DestructorAlone'
    BY <1>5, <1>0, Apart DEF CloseGate
  <1>6. ASSUME NEW a \in Actors, Destroy(a) PROVE DestructorAlone'
    BY <1>6, <1>0, Apart DEF Destroy
  <1>7. ASSUME NEW a \in Actors, Create(a) PROVE DestructorAlone'
    BY <1>7, <1>0, Apart DEF Create
  <1>8. ASSUME NEW a \in Actors, StoreApplied(a, "applied", 1)
        PROVE  DestructorAlone'
    BY <1>8, <1>0, Apart DEF StoreApplied
  <1>9. ASSUME NEW a \in Actors, StoreApplied(a, "fallback", 0)
        PROVE  DestructorAlone'
    BY <1>9, <1>0, Apart DEF StoreApplied
  <1>10. ASSUME NEW a \in Actors, OpenGate(a) PROVE DestructorAlone'
    BY <1>10, <1>0, Apart DEF OpenGate, Return
  <1>11. ASSUME NEW t \in Threads, Entry(t) PROVE DestructorAlone'
    BY <1>11, <1>0, Apart DEF Entry, Body
  <1>12. ASSUME NEW t \in Threads, Lock(t) PROVE DestructorAlone'
    BY <1>12, <1>0, Apart DEF Lock, Body
  <1>13. ASSUME NEW t \in Threads, StartControlServer(t)
         PROVE  DestructorAlone'
    BY <1>13, <1>0, Apart DEF StartControlServer
  <1>14. ASSUME NEW t \in Threads, Attach(t) PROVE DestructorAlone'
    BY <1>14, <1>0, Apart DEF Attach
  <1>15. ASSUME NEW t \in Threads, Inited(t) PROVE DestructorAlone'
    BY <1>15, <1>0, Apart DEF Inited, Body
  <1>16. ASSUME NEW t \in Threads, CheckRoute(t) PROVE DestructorAlone'
    BY <1>16, <1>0, Apart DEF CheckRoute
  <1>17. ASSUME NEW t \in Threads, PassGate(t) PROVE DestructorAlone'
    BY <1>17, <1>0, Apart DEF PassGate
  <1>18. ASSUME NEW t \in Threads, MarkAlloc(t) PROVE DestructorAlone'
    BY <1>18, <1>0, Apart DEF MarkAlloc
  <1>19. ASSUME NEW t \in Threads, Guard(t) PROVE DestructorAlone'
    BY <1>19, <1>0, Apart DEF Guard
  <1>20. ASSUME NEW t \in Threads, Switch(t) PROVE DestructorAlone'
    BY <1>20, <1>0, Apart DEF Switch
  <1>21. ASSUME NEW t \in Threads, Use(t) PROVE DestructorAlone'
    BY <1>21, <1>0, Apart DEF Use
  <1>22. ASSUME NEW t \in Threads, Callback(t) PROVE DestructorAlone'
    BY <1>22, <1>0, Apart DEF Callback, ReadWord
  <1>23. ASSUME NEW t \in Threads, Submit(t) PROVE DestructorAlone'
    BY <1>23, <1>0, Apart DEF Submit
  <1>24. ASSUME NEW t \in Threads, Join(t) PROVE DestructorAlone'
    BY <1>24, <1>0, Apart DEF Join
  <1>25. ASSUME NEW t \in Threads, FreeContexts(t) PROVE DestructorAlone'
    BY <1>25, <1>0, Apart DEF FreeContexts
  <1>26. ASSUME NEW t \in Threads, Exit(t) PROVE DestructorAlone'
    BY <1>26, <1>0, Apart DEF Exit
  <1>27. ASSUME NEW t \in Threads, NEW o \in {"launch", "malloc"}, Call(t, o)
         PROVE  DestructorAlone'
    BY <1>27, <1>0, Apart DEF Call
  <1>28. ASSUME StoreRoute PROVE DestructorAlone'
    BY <1>28, <1>0, Apart DEF StoreRoute
  <1>29. ASSUME Quit PROVE DestructorAlone'
    BY <1>29, <1>0, Apart DEF Quit
  <1>30. ASSUME ReconfSm PROVE DestructorAlone'
    BY <1>30, <1>0, Apart DEF ReconfSm, Receive
  <1>31. ASSUME QuitCommand PROVE DestructorAlone'
    BY <1>31, <1>0, Apart DEF QuitCommand, Receive
  <1>32. ASSUME NEW r \in {"LIMITED", "UNLIMITED"}, SetRoute(r)
         PROVE  DestructorAlone'
    BY <1>32, <1>0, Apart DEF SetRoute, Receive
  <1>33. ASSUME NEW p \in Pcts, QmdPct(p) PROVE DestructorAlone'
    BY <1>33, <1>0, Apart DEF QmdPct, Receive
  <1>34. CASE UNCHANGED vars
    BY <1>34 DEF vars
  <1> QED
    BY <1>1, <1>2, <1>3, <1>4, <1>5, <1>6, <1>7, <1>8, <1>9, <1>10, <1>11,
       <1>12, <1>13, <1>14, <1>15, <1>16, <1>17, <1>18, <1>19, <1>20,
       <1>21, <1>22, <1>23, <1>24, <1>25, <1>26, <1>27, <1>28, <1>29,
       <1>30, <1>31, <1>32, <1>33, <1>34
       DEF Next, Inside, Serve, ReconfLimitedCtx, Actors


LEMMA StartStep == TypeOK /\ StartInv /\ [Next]_vars => StartInv'
  BY InitialiserStep, DestructorStep DEF StartInv

\* One actor at a time is in reconf_limited_ctx, and none when the destructor
\* frees the context.
LEMMA ReconfAlone ==
    ASSUME TypeOK, StartInv, NEW a \in Actors, pc[a] \in ReconfPcs
    PROVE  /\ \A b \in Actors \ {a} : pc[b] \notin ReconfPcs
           /\ \A t \in Threads : pc[t] \notin {"free", "ended"}
  BY Apart DEF TypeOK, StartInv, Roles, InitialiserAlone, DestructorAlone, Actors,
               ReconfPcs, ThreadPcs, ControlPcs, InitPcs, LaunchPcs, ExitPcs

-----------------------------------------------------------------------------
(* The limited context *)

LEMMA ContextInit == Init => ContextInv
  BY DEF Init, ContextInv, PointerGood, SafeCalls, Actors

LEMMA PointerStep ==
    TypeOK /\ StartInv /\ PointerGood /\ [Next]_vars => PointerGood'
  <1> SUFFICES ASSUME TypeOK, StartInv, PointerGood, [Next]_vars
               PROVE  PointerGood'
    OBVIOUS
  <1> USE DEF PointerGood, Goto, Transition, limited, Actors
  <1>0. /\ pc \in [Actors -> Pcs] /\ job.next \in {"recv", "activate"}
        /\ contexts \in Nat
    BY DEF TypeOK, Jobs
  <1>a. \A a \in Actors : pc[a] \in ReconfPcs =>
           /\ \A b \in Actors \ {a} : pc[b] \notin ReconfPcs
           /\ \A t \in Threads : pc[t] \notin {"free", "ended"}
    BY ReconfAlone
  <1> USE DEF ReconfPcs
  <1>1. ASSUME NEW a \in Actors, Reconf(a) PROVE PointerGood'
    BY <1>1, <1>0, <1>a, Apart DEF Reconf, QmdSetup, Return
  <1>2. ASSUME NEW a \in Actors, SetAllowed(a) PROVE PointerGood'
    <2>1. CASE StoreWord(a, "word0", 0, "word1")
      BY <2>1, <1>0, <1>a, Apart DEF StoreWord
    <2>2. CASE StoreWord(a, "word1", 1, "word2")
      BY <2>2, <1>0, <1>a, Apart DEF StoreWord
    <2>3. CASE StoreWord(a, "word2", 2, job.next)
      BY <2>3, <1>0, <1>a, Apart DEF StoreWord
    <2> QED
      BY <1>2, <2>1, <2>2, <2>3 DEF SetAllowed
  <1>3. ASSUME NEW a \in Actors, Activate(a) PROVE PointerGood'
    BY <1>3, <1>0, <1>a, Apart DEF Activate
  <1>4. ASSUME NEW a \in Actors, CheckAlloc(a) PROVE PointerGood'
    BY <1>4, <1>0, <1>a, Apart DEF CheckAlloc, Return
  <1>5. ASSUME NEW a \in Actors, CloseGate(a) PROVE PointerGood'
    BY <1>5, <1>0, <1>a, Apart DEF CloseGate
  <1>6. ASSUME NEW a \in Actors, Destroy(a) PROVE PointerGood'
    BY <1>6, <1>0, <1>a, Apart DEF Destroy
  <1>7. ASSUME NEW a \in Actors, Create(a) PROVE PointerGood'
    <2>1. CASE /\ contexts' = contexts + 1 /\ ctx_limited' = contexts + 1
               /\ live' = live \cup {contexts + 1} /\ Goto(a, "applied")
      <3>1. live' \subseteq 1 .. contexts'
        BY <1>0, <2>1
      <3> QED
        BY <1>7, <2>1, <3>1, <1>0, <1>a, Apart DEF Create
    <2>2. CASE /\ ctx_limited' = 0 /\ Goto(a, "fallback")
               /\ UNCHANGED <<contexts, live>>
      BY <1>7, <2>2, <1>0, <1>a, Apart DEF Create
    <2> QED
      BY <1>7, <2>1, <2>2 DEF Create
  <1>8. ASSUME NEW a \in Actors, StoreApplied(a, "applied", 1)
        PROVE  PointerGood'
    BY <1>8, <1>0, <1>a, Apart DEF StoreApplied
  <1>9. ASSUME NEW a \in Actors, StoreApplied(a, "fallback", 0)
        PROVE  PointerGood'
    BY <1>9, <1>0, <1>a, Apart DEF StoreApplied
  <1>10. ASSUME NEW a \in Actors, OpenGate(a) PROVE PointerGood'
    BY <1>10, <1>0, <1>a, Apart DEF OpenGate, Return
  <1>11. ASSUME NEW t \in Threads, Entry(t) PROVE PointerGood'
    BY <1>11, <1>0, <1>a, Apart DEF Entry, Body
  <1>12. ASSUME NEW t \in Threads, Lock(t) PROVE PointerGood'
    BY <1>12, <1>0, <1>a, Apart DEF Lock, Body
  <1>13. ASSUME NEW t \in Threads, StartControlServer(t) PROVE PointerGood'
    <2>1. pc[Control] = "off"
      BY <1>13 DEF StartControlServer, StartInv, InitialiserAlone
    <2> QED
      BY <1>13, <2>1, <1>0, Apart DEF StartControlServer
  <1>14. ASSUME NEW t \in Threads, Attach(t) PROVE PointerGood'
    BY <1>14, <1>0, <1>a, Apart DEF Attach
  <1>15. ASSUME NEW t \in Threads, Inited(t) PROVE PointerGood'
    BY <1>15, <1>0, <1>a, Apart DEF Inited, Body
  <1>16. ASSUME NEW t \in Threads, CheckRoute(t) PROVE PointerGood'
    BY <1>16, <1>0, <1>a, Apart DEF CheckRoute
  <1>17. ASSUME NEW t \in Threads, PassGate(t) PROVE PointerGood'
    BY <1>17, <1>0, <1>a, Apart DEF PassGate
  <1>18. ASSUME NEW t \in Threads, MarkAlloc(t) PROVE PointerGood'
    BY <1>18, <1>0, <1>a, Apart DEF MarkAlloc
  <1>19. ASSUME NEW t \in Threads, Guard(t) PROVE PointerGood'
    BY <1>19, <1>0, <1>a, Apart DEF Guard
  <1>20. ASSUME NEW t \in Threads, Switch(t) PROVE PointerGood'
    BY <1>20, <1>0, <1>a, Apart DEF Switch
  <1>21. ASSUME NEW t \in Threads, Use(t) PROVE PointerGood'
    BY <1>21, <1>0, <1>a, Apart DEF Use
  <1>22. ASSUME NEW t \in Threads, Callback(t) PROVE PointerGood'
    BY <1>22, <1>0, <1>a, Apart DEF Callback, ReadWord
  <1>23. ASSUME NEW t \in Threads, Submit(t) PROVE PointerGood'
    BY <1>23, <1>0, <1>a, Apart DEF Submit
  <1>24. ASSUME NEW t \in Threads, Join(t) PROVE PointerGood'
    BY <1>24, <1>0, <1>a, Apart DEF Join
  <1>25. ASSUME NEW t \in Threads, FreeContexts(t) PROVE PointerGood'
    BY <1>25, <1>0, <1>a, Apart DEF FreeContexts
  <1>26. ASSUME NEW t \in Threads, Exit(t) PROVE PointerGood'
    BY <1>26, <1>0, <1>a, Apart DEF Exit
  <1>27. ASSUME NEW t \in Threads, NEW o \in {"launch", "malloc"}, Call(t, o)
         PROVE  PointerGood'
    BY <1>27, <1>0, <1>a, Apart DEF Call
  <1>28. ASSUME StoreRoute PROVE PointerGood'
    BY <1>28, <1>0, <1>a, Apart DEF StoreRoute
  <1>29. ASSUME Quit PROVE PointerGood'
    BY <1>29, <1>0, <1>a, Apart DEF Quit
  <1>30. ASSUME ReconfSm PROVE PointerGood'
    BY <1>30, <1>0, <1>a, Apart DEF ReconfSm, Receive
  <1>31. ASSUME QuitCommand PROVE PointerGood'
    BY <1>31, <1>0, <1>a, Apart DEF QuitCommand, Receive
  <1>32. ASSUME NEW r \in {"LIMITED", "UNLIMITED"}, SetRoute(r)
         PROVE  PointerGood'
    BY <1>32, <1>0, <1>a, Apart DEF SetRoute, Receive
  <1>33. ASSUME NEW p \in Pcts, QmdPct(p) PROVE PointerGood'
    BY <1>33, <1>0, <1>a, Apart DEF QmdPct, Receive
  <1>34. CASE UNCHANGED vars
    BY <1>34 DEF vars
  <1> QED
    BY <1>1, <1>2, <1>3, <1>4, <1>5, <1>6, <1>7, <1>8, <1>9, <1>10, <1>11,
       <1>12, <1>13, <1>14, <1>15, <1>16, <1>17, <1>18, <1>19, <1>20,
       <1>21, <1>22, <1>23, <1>24, <1>25, <1>26, <1>27, <1>28, <1>29,
       <1>30, <1>31, <1>32, <1>33, <1>34
       DEF Next, Inside, Serve, ReconfLimitedCtx, Actors

LEMMA SafeStep ==
    TypeOK /\ StartInv /\ ContextInv /\ [Next]_vars => SafeCalls'
  <1> SUFFICES ASSUME TypeOK, StartInv, ContextInv, [Next]_vars
               PROVE  SafeCalls'
    OBVIOUS
  <1> USE DEF ContextInv, PointerGood, SafeCalls, Goto, Transition, limited,
              calls, Actors
  <1>0. /\ pc \in [Actors -> Pcs] /\ job.next \in {"recv", "activate"}
        /\ contexts \in Nat /\ safe \in [Threads -> BOOLEAN]
        /\ target \in [Threads -> Contexts]
    BY DEF TypeOK, Jobs
  <1>a. \A a \in Actors : pc[a] \in ReconfPcs =>
           /\ \A b \in Actors \ {a} : pc[b] \notin ReconfPcs
           /\ \A t \in Threads : pc[t] \notin {"free", "ended"}
    BY ReconfAlone
  <1> USE DEF ReconfPcs
  <1>1. ASSUME NEW a \in Actors, Reconf(a) PROVE SafeCalls'
    BY <1>1, <1>0, <1>a, Apart DEF Reconf, QmdSetup, Return
  <1>2. ASSUME NEW a \in Actors, SetAllowed(a) PROVE SafeCalls'
    <2>1. CASE StoreWord(a, "word0", 0, "word1")
      BY <2>1, <1>0, <1>a, Apart DEF StoreWord
    <2>2. CASE StoreWord(a, "word1", 1, "word2")
      BY <2>2, <1>0, <1>a, Apart DEF StoreWord
    <2>3. CASE StoreWord(a, "word2", 2, job.next)
      BY <2>3, <1>0, <1>a, Apart DEF StoreWord
    <2> QED
      BY <1>2, <2>1, <2>2, <2>3 DEF SetAllowed
  <1>3. ASSUME NEW a \in Actors, Activate(a) PROVE SafeCalls'
    BY <1>3, <1>0, <1>a, Apart DEF Activate
  <1>4. ASSUME NEW a \in Actors, CheckAlloc(a) PROVE SafeCalls'
    BY <1>4, <1>0, <1>a, Apart DEF CheckAlloc, Return
  <1>5. ASSUME NEW a \in Actors, CloseGate(a) PROVE SafeCalls'
    BY <1>5, <1>0, <1>a, Apart DEF CloseGate
  <1>6. ASSUME NEW a \in Actors, Destroy(a) PROVE SafeCalls'
    BY <1>6, <1>0, <1>a, Apart DEF Destroy
  <1>7. ASSUME NEW a \in Actors, Create(a) PROVE SafeCalls'
    BY <1>7, <1>0, <1>a, Apart DEF Create
  <1>8. ASSUME NEW a \in Actors, StoreApplied(a, "applied", 1)
        PROVE  SafeCalls'
    BY <1>8, <1>0, <1>a, Apart DEF StoreApplied
  <1>9. ASSUME NEW a \in Actors, StoreApplied(a, "fallback", 0)
        PROVE  SafeCalls'
    BY <1>9, <1>0, <1>a, Apart DEF StoreApplied
  <1>10. ASSUME NEW a \in Actors, OpenGate(a) PROVE SafeCalls'
    BY <1>10, <1>0, <1>a, Apart DEF OpenGate, Return
  <1>11. ASSUME NEW t \in Threads, Entry(t) PROVE SafeCalls'
    BY <1>11, <1>0, <1>a, Apart DEF Entry, Body
  <1>12. ASSUME NEW t \in Threads, Lock(t) PROVE SafeCalls'
    BY <1>12, <1>0, <1>a, Apart DEF Lock, Body
  <1>13. ASSUME NEW t \in Threads, StartControlServer(t) PROVE SafeCalls'
    BY <1>13, <1>0, <1>a, Apart DEF StartControlServer
  <1>14. ASSUME NEW t \in Threads, Attach(t) PROVE SafeCalls'
    <2>1. /\ \A u \in Threads : pc[u] # "ended"
          /\ \A u \in Threads : pc[u] \notin ReconfPcs
      BY <1>14 DEF Attach, StartInv, InitialiserAlone, DestructorAlone
    <2> QED
      BY <1>14, <2>1, <1>0, Apart DEF Attach
  <1>15. ASSUME NEW t \in Threads, Inited(t) PROVE SafeCalls'
    BY <1>15, <1>0, <1>a, Apart DEF Inited, Body
  <1>16. ASSUME NEW t \in Threads, CheckRoute(t) PROVE SafeCalls'
    BY <1>16, <1>0, <1>a, Apart DEF CheckRoute
  <1>17. ASSUME NEW t \in Threads, PassGate(t) PROVE SafeCalls'
    BY <1>17, <1>0, <1>a, Apart DEF PassGate
  <1>18. ASSUME NEW t \in Threads, MarkAlloc(t) PROVE SafeCalls'
    BY <1>18, <1>0, <1>a, Apart DEF MarkAlloc
  <1>19. ASSUME NEW t \in Threads, Guard(t) PROVE SafeCalls'
    <2>1. \A u \in Threads : pc[u] # "ended"
      BY <1>19 DEF Guard, StartInv, DestructorAlone
    <2> QED
      BY <1>19, <2>1, <1>0, <1>a, Apart DEF Guard
  <1>20. ASSUME NEW t \in Threads, Switch(t) PROVE SafeCalls'
    BY <1>20, <1>0, <1>a, Apart DEF Switch
  <1>21. ASSUME NEW t \in Threads, Use(t) PROVE SafeCalls'
    BY <1>21, <1>0, <1>a, Apart DEF Use
  <1>22. ASSUME NEW t \in Threads, Callback(t) PROVE SafeCalls'
    BY <1>22, <1>0, <1>a, Apart DEF Callback, ReadWord
  <1>23. ASSUME NEW t \in Threads, Submit(t) PROVE SafeCalls'
    BY <1>23, <1>0, <1>a, Apart DEF Submit
  <1>24. ASSUME NEW t \in Threads, Join(t) PROVE SafeCalls'
    BY <1>24, <1>0, <1>a, Apart DEF Join
  <1>25. ASSUME NEW t \in Threads, FreeContexts(t) PROVE SafeCalls'
    <2>1. \A u \in Threads \ {t} : pc[u] = "app"
      BY <1>25 DEF FreeContexts, StartInv, DestructorAlone, ExitPcs
    <2> QED
      BY <1>25, <2>1, <1>0, Apart DEF FreeContexts
  <1>26. ASSUME NEW t \in Threads, Exit(t) PROVE SafeCalls'
    BY <1>26, <1>0, <1>a, Apart DEF Exit
  <1>27. ASSUME NEW t \in Threads, NEW o \in {"launch", "malloc"}, Call(t, o)
         PROVE  SafeCalls'
    BY <1>27, <1>0, <1>a, Apart DEF Call
  <1>28. ASSUME StoreRoute PROVE SafeCalls'
    BY <1>28, <1>0, <1>a, Apart DEF StoreRoute
  <1>29. ASSUME Quit PROVE SafeCalls'
    BY <1>29, <1>0, <1>a, Apart DEF Quit
  <1>30. ASSUME ReconfSm PROVE SafeCalls'
    BY <1>30, <1>0, <1>a, Apart DEF ReconfSm, Receive
  <1>31. ASSUME QuitCommand PROVE SafeCalls'
    BY <1>31, <1>0, <1>a, Apart DEF QuitCommand, Receive
  <1>32. ASSUME NEW r \in {"LIMITED", "UNLIMITED"}, SetRoute(r)
         PROVE  SafeCalls'
    BY <1>32, <1>0, <1>a, Apart DEF SetRoute, Receive
  <1>33. ASSUME NEW p \in Pcts, QmdPct(p) PROVE SafeCalls'
    BY <1>33, <1>0, <1>a, Apart DEF QmdPct, Receive
  <1>34. CASE UNCHANGED vars
    BY <1>34 DEF vars
  <1> QED
    BY <1>1, <1>2, <1>3, <1>4, <1>5, <1>6, <1>7, <1>8, <1>9, <1>10, <1>11,
       <1>12, <1>13, <1>14, <1>15, <1>16, <1>17, <1>18, <1>19, <1>20,
       <1>21, <1>22, <1>23, <1>24, <1>25, <1>26, <1>27, <1>28, <1>29,
       <1>30, <1>31, <1>32, <1>33, <1>34
       DEF Next, Inside, Serve, ReconfLimitedCtx, Actors


LEMMA ContextStep ==
    TypeOK /\ StartInv /\ ContextInv /\ [Next]_vars => ContextInv'
  BY PointerStep, SafeStep DEF ContextInv

-----------------------------------------------------------------------------
(* The mask *)

\* At first the mask allows everything, which is what 100 percent means.
LEMMA FullGrant ==
    ASSUME NEW l \in Layouts
    PROVE  AllowedTpcs[PctToTpc(100)][l] = Tpcs
  <1>1. Max({1, Min({100, 100})}) = 100
    <2>1. Min({100, 100}) = 100
      BY DEF Min
    <2>2. \E x \in {1, 100} : \A y \in {1, 100} : x >= y
      OBVIOUS
    <2>3. Max({1, 100}) = 100
      BY <2>2 DEF Max
    <2> QED
      BY <2>1, <2>3
  <1>2. TpcTotal \in Nat \ {0}
    BY SpaceAssumption
  <1>3. PctToTpc(100) = TpcTotal
    BY <1>1, <1>2, PctToTpcRange
  <1>4. TpcTotal \in 1 .. TpcTotal
    BY <1>2
  <1>5. /\ AllowedTpcs[TpcTotal][l] \in SUBSET Tpcs
        /\ Cardinality(AllowedTpcs[TpcTotal][l]) = TpcTotal
    BY <1>4, AllowedType, AllowedCount
  <1>6. IsFiniteSet(Tpcs) /\ Cardinality(Tpcs) = TpcTotal
    <2>1. /\ IsFiniteSet(0 .. TpcTotal - 1)
          /\ Cardinality(0 .. TpcTotal - 1) =
                 IF 0 > TpcTotal - 1 THEN 0 ELSE TpcTotal - 1 - 0 + 1
      BY <1>2, FS_Interval
    <2> QED
      BY <1>2, <2>1 DEF Tpcs
  <1> QED
    BY <1>3, <1>5, <1>6, FS_Subset

\* Every request grants TPC 0, which the first word describes.
LEMMA ZeroGranted ==
    ASSUME TypeOK
    PROVE  0 \in Word(Granted, 0)
  <1>1. PctToTpc(asked) \in 1 .. TpcTotal /\ layout \in Layouts
    BY PctToTpcRange DEF TypeOK
  <1>2. 0 \in Granted
    BY <1>1, AllowedCount DEF Granted
  <1>3. 0 \div WordBits = 0
    BY SpaceAssumption
  <1> QED
    BY <1>2, <1>3 DEF Word

LEMMA MaskInit == Init => MaskInv
  <1> SUFFICES ASSUME Init PROVE MaskInv
    OBVIOUS
  <1>1. TypeOK
    BY TypeInit
  <1>2. Granted = Tpcs
    BY <1>1, FullGrant DEF Init, TypeOK, Granted
  <1>3. MaskWords
    BY <1>2, Apart DEF Init, MaskWords, Actors, WordPcs
  <1>4. 0 \in mask[0]
    BY <1>1, <1>2, ZeroGranted DEF Init, Words
  <1> QED
    BY <1>3, <1>4, Apart DEF MaskInv, FirstTpc, Init, Actors, ReconfPcs,
                            WordPcs

LEMMA MaskWordsStep ==
    TypeOK /\ StartInv /\ MaskWords /\ [Next]_vars => MaskWords'
  <1> SUFFICES ASSUME TypeOK, StartInv, MaskWords, [Next]_vars PROVE MaskWords'
    OBVIOUS
  <1> USE DEF MaskWords, WordPcs, Goto, Transition, env, qmd, command, Actors
  <1>0. /\ pc \in [Actors -> Pcs] /\ job.next \in {"recv", "activate"}
        /\ mask \in [Words -> SUBSET Tpcs]
    BY DEF TypeOK, Jobs
  <1>1a. /\ \A a \in Actors : pc[a] \in ReconfPcs =>
                \A b \in Actors \ {a} : pc[b] \notin ReconfPcs
         /\ pc[Control] # "off" => \A t \in Threads : pc[t] \notin ReconfPcs
    BY ReconfAlone DEF StartInv, InitialiserAlone
  <1>1b. asked' = asked /\ layout' = layout => Granted' = Granted
    BY DEF Granted
  <1>1c. Words = {0, 1, 2}
    BY DEF Words
  <1> USE DEF ReconfPcs
  <1>1. ASSUME NEW a \in Actors, Reconf(a) PROVE MaskWords'
    <2>1. CASE space_mode = "QMD" /\ pc'[a] = "word0"
      <3>1. /\ job'.tpcs = AllowedTpcs[PctToTpc(EnvPct)][layout]
            /\ asked' = EnvPct /\ layout' = layout
        BY <1>1, <2>1, <1>0 DEF Reconf
      <3>2. job'.tpcs = Granted'
        BY <3>1 DEF Granted
      <3> QED
        BY <1>1, <2>1, <3>2, <1>0, <1>1a, Apart DEF Reconf, Return
    <2>2. CASE ~(space_mode = "QMD" /\ pc'[a] = "word0")
      <3>1. UNCHANGED <<job, asked, layout, mask>>
        BY <1>1, <2>2, <1>0 DEF Reconf
      <3> QED
        BY <1>1, <2>2, <3>1, <1>0, <1>1a, <1>1b, Apart DEF Reconf, Return
    <2> QED
      BY <2>1, <2>2
  <1>2. ASSUME NEW a \in Actors, SetAllowed(a) PROVE MaskWords'
    <2>1. CASE StoreWord(a, "word0", 0, "word1")
      BY <2>1, <1>0, <1>1a, <1>1b, Apart, <1>1c DEF StoreWord
    <2>2. CASE StoreWord(a, "word1", 1, "word2")
      BY <2>2, <1>0, <1>1a, <1>1b, Apart, <1>1c DEF StoreWord
    <2>3. CASE StoreWord(a, "word2", 2, job.next)
      BY <2>3, <1>0, <1>1a, <1>1b, Apart, <1>1c DEF StoreWord
    <2> QED
      BY <1>2, <2>1, <2>2, <2>3 DEF SetAllowed
  <1>3. ASSUME NEW a \in Actors, Activate(a) PROVE MaskWords'
    BY <1>3, <1>0, <1>1a, <1>1b, Apart DEF Activate
  <1>4. ASSUME NEW a \in Actors, CheckAlloc(a) PROVE MaskWords'
    BY <1>4, <1>0, <1>1a, <1>1b, Apart DEF CheckAlloc, Return
  <1>5. ASSUME NEW a \in Actors, CloseGate(a) PROVE MaskWords'
    BY <1>5, <1>0, <1>1a, <1>1b, Apart DEF CloseGate
  <1>6. ASSUME NEW a \in Actors, Destroy(a) PROVE MaskWords'
    BY <1>6, <1>0, <1>1a, <1>1b, Apart DEF Destroy
  <1>7. ASSUME NEW a \in Actors, Create(a) PROVE MaskWords'
    BY <1>7, <1>0, <1>1a, <1>1b, Apart DEF Create
  <1>8. ASSUME NEW a \in Actors, StoreApplied(a, "applied", 1)
        PROVE  MaskWords'
    BY <1>8, <1>0, <1>1a, <1>1b, Apart DEF StoreApplied
  <1>9. ASSUME NEW a \in Actors, StoreApplied(a, "fallback", 0)
        PROVE  MaskWords'
    BY <1>9, <1>0, <1>1a, <1>1b, Apart DEF StoreApplied
  <1>10. ASSUME NEW a \in Actors, OpenGate(a) PROVE MaskWords'
    BY <1>10, <1>0, <1>1a, <1>1b, Apart DEF OpenGate, Return
  <1>11. ASSUME NEW t \in Threads, Entry(t) PROVE MaskWords'
    BY <1>11, <1>0, <1>1a, <1>1b, Apart DEF Entry, Body
  <1>12. ASSUME NEW t \in Threads, Lock(t) PROVE MaskWords'
    BY <1>12, <1>0, <1>1a, <1>1b, Apart DEF Lock, Body
  <1>13. ASSUME NEW t \in Threads, StartControlServer(t) PROVE MaskWords'
    <2>1. pc[Control] = "off"
      BY <1>13 DEF StartControlServer, StartInv, InitialiserAlone
    <2> QED
      BY <1>13, <2>1, <1>0, <1>1b, Apart DEF StartControlServer
  <1>14. ASSUME NEW t \in Threads, Attach(t) PROVE MaskWords'
    BY <1>14, <1>0, <1>1a, <1>1b, Apart DEF Attach
  <1>15. ASSUME NEW t \in Threads, Inited(t) PROVE MaskWords'
    BY <1>15, <1>0, <1>1a, <1>1b, Apart DEF Inited, Body
  <1>16. ASSUME NEW t \in Threads, CheckRoute(t) PROVE MaskWords'
    BY <1>16, <1>0, <1>1a, <1>1b, Apart DEF CheckRoute
  <1>17. ASSUME NEW t \in Threads, PassGate(t) PROVE MaskWords'
    BY <1>17, <1>0, <1>1a, <1>1b, Apart DEF PassGate
  <1>18. ASSUME NEW t \in Threads, MarkAlloc(t) PROVE MaskWords'
    BY <1>18, <1>0, <1>1a, <1>1b, Apart DEF MarkAlloc
  <1>19. ASSUME NEW t \in Threads, Guard(t) PROVE MaskWords'
    BY <1>19, <1>0, <1>1a, <1>1b, Apart DEF Guard
  <1>20. ASSUME NEW t \in Threads, Switch(t) PROVE MaskWords'
    BY <1>20, <1>0, <1>1a, <1>1b, Apart DEF Switch
  <1>21. ASSUME NEW t \in Threads, Use(t) PROVE MaskWords'
    BY <1>21, <1>0, <1>1a, <1>1b, Apart DEF Use
  <1>22. ASSUME NEW t \in Threads, Callback(t) PROVE MaskWords'
    BY <1>22, <1>0, <1>1a, <1>1b, Apart DEF Callback, ReadWord
  <1>23. ASSUME NEW t \in Threads, Submit(t) PROVE MaskWords'
    BY <1>23, <1>0, <1>1a, <1>1b, Apart DEF Submit
  <1>24. ASSUME NEW t \in Threads, Join(t) PROVE MaskWords'
    BY <1>24, <1>0, <1>1a, <1>1b, Apart DEF Join
  <1>25. ASSUME NEW t \in Threads, FreeContexts(t) PROVE MaskWords'
    BY <1>25, <1>0, <1>1a, <1>1b, Apart DEF FreeContexts
  <1>26. ASSUME NEW t \in Threads, Exit(t) PROVE MaskWords'
    BY <1>26, <1>0, <1>1a, <1>1b, Apart DEF Exit
  <1>27. ASSUME NEW t \in Threads, NEW o \in {"launch", "malloc"}, Call(t, o)
         PROVE  MaskWords'
    BY <1>27, <1>0, <1>1a, <1>1b, Apart DEF Call
  <1>28. ASSUME StoreRoute PROVE MaskWords'
    BY <1>28, <1>0, <1>1a, <1>1b, Apart DEF StoreRoute
  <1>29. ASSUME Quit PROVE MaskWords'
    BY <1>29, <1>0, <1>1a, <1>1b, Apart DEF Quit
  <1>30. ASSUME ReconfSm PROVE MaskWords'
    BY <1>30, <1>0, <1>1a, <1>1b, Apart DEF ReconfSm, Receive
  <1>31. ASSUME QuitCommand PROVE MaskWords'
    BY <1>31, <1>0, <1>1a, <1>1b, Apart DEF QuitCommand, Receive
  <1>32. ASSUME NEW r \in {"LIMITED", "UNLIMITED"}, SetRoute(r)
         PROVE  MaskWords'
    BY <1>32, <1>0, <1>1a, <1>1b, Apart DEF SetRoute, Receive
  <1>33. ASSUME NEW p \in Pcts, QmdPct(p) PROVE MaskWords'
    <2>1. CASE space_mode = "QMD"
      <3>1. /\ job'.tpcs = AllowedTpcs[PctToTpc(p)][layout]
            /\ asked' = p /\ layout' = layout
        BY <1>33, <2>1 DEF QmdPct
      <3>2. job'.tpcs = Granted'
        BY <3>1 DEF Granted
      <3> QED
        BY <1>33, <2>1, <3>2, <1>0, <1>1a, Apart DEF QmdPct, Receive
    <2>2. CASE space_mode # "QMD"
      BY <1>33, <2>2, <1>0, <1>1a, <1>1b, Apart DEF QmdPct, Receive
    <2> QED
      BY <2>1, <2>2
  <1>34. CASE UNCHANGED vars
    BY <1>34, <1>1b DEF vars
  <1> QED
    BY <1>1, <1>2, <1>3, <1>4, <1>5, <1>6, <1>7, <1>8, <1>9, <1>10, <1>11,
       <1>12, <1>13, <1>14, <1>15, <1>16, <1>17, <1>18, <1>19, <1>20,
       <1>21, <1>22, <1>23, <1>24, <1>25, <1>26, <1>27, <1>28, <1>29,
       <1>30, <1>31, <1>32, <1>33, <1>34
       DEF Next, Inside, Serve, ReconfLimitedCtx, Actors

LEMMA FirstTpcStep ==
    TypeOK /\ StartInv /\ MaskInv /\ [Next]_vars => FirstTpc'
  <1> SUFFICES ASSUME TypeOK, StartInv, MaskInv, [Next]_vars PROVE FirstTpc'
    OBVIOUS
  <1> USE DEF start, MaskInv, FirstTpc, Goto, Transition, env, qmd, calls, Actors,
              WordPcs
  <1>0. /\ pc \in [Actors -> Pcs] /\ job.next \in {"recv", "activate"}
        /\ mask \in [Words -> SUBSET Tpcs]
        /\ seen \in [Threads -> SUBSET Tpcs]
    BY DEF TypeOK, Jobs
  <1>1a. /\ \A a \in Actors : pc[a] \in ReconfPcs =>
                \A b \in Actors \ {a} : pc[b] \notin ReconfPcs
         /\ pc[Control] # "off" => \A t \in Threads : pc[t] \notin ReconfPcs
    BY ReconfAlone DEF StartInv, InitialiserAlone
  <1>1b. 0 \in Word(Granted, 0) /\ Words = {0, 1, 2}
    BY ZeroGranted DEF Words
  <1>1d. /\ \A t \in Threads :
              /\ pc[t] \in ReconfPcs \cup {"serve"} =>
                     init_mu = t /\ ~inited /\ pc[Control] = "off"
              /\ pc[t] = "submit" => inited
         /\ ~inited /\ init_mu = None => pc[Control] = "off"
    BY DEF StartInv, InitialiserAlone, LaunchPcs
  <1>1c. space_mode \in {"CTX", "MPS_ENV", "QMD"}
    BY SpaceAssumption DEF TypeOK
  <1> USE DEF ReconfPcs
  <1>1. ASSUME NEW a \in Actors, Reconf(a) PROVE FirstTpc'
    <2>1. CASE space_mode = "CTX"
      BY <1>1, <2>1, <1>0, <1>1a, <1>1d, Apart DEF Reconf
    <2>2. CASE space_mode = "MPS_ENV"
      BY <1>1, <2>2, <1>0, <1>1a, <1>1d, Apart DEF Reconf, Return
    <2>3. CASE space_mode = "QMD"
      <3>1. PICK ok \in BOOLEAN :
                QmdSetup(ok) /\ Goto(a, IF ok THEN "word0" ELSE "check")
        BY <1>1, <2>3 DEF Reconf
      <3>2. UNCHANGED <<env, start, qmd_active, mask, seen>>
        BY <1>1, <2>3 DEF Reconf
      <3>3. pc[a] = "reconf"
        BY <1>1 DEF Reconf
      <3>4. /\ qmd_setup_done'
            /\ a \in Threads => (subscribed' => ok)
            /\ a = Control => UNCHANGED subscribed
        BY <2>3, <3>1, <3>3, <1>1d, Apart DEF QmdSetup
      <3>5. CASE ok
        BY <2>3, <3>1, <3>2, <3>3, <3>4, <3>5, <1>0, <1>1a, <1>1d, Apart
      <3>6. CASE ~ok
        BY <2>3, <3>1, <3>2, <3>3, <3>4, <3>6, <1>0, <1>1a, <1>1d, Apart
      <3> QED
        BY <3>5, <3>6
    <2> QED
      BY <1>1, <2>1, <2>2, <2>3 DEF Reconf
  <1>2. ASSUME NEW a \in Actors, SetAllowed(a) PROVE FirstTpc'
    <2>1. CASE StoreWord(a, "word0", 0, "word1")
      <3>1. Word(job.tpcs, 0) = Word(Granted, 0)
        BY <2>1 DEF StoreWord, MaskWords, WordPcs
      <3> QED
        BY <2>1, <3>1, <1>0, <1>1a, <1>1b, Apart DEF StoreWord
    <2>2. CASE StoreWord(a, "word1", 1, "word2")
      BY <2>2, <1>0, <1>1a, <1>1b, Apart DEF StoreWord
    <2>3. CASE StoreWord(a, "word2", 2, job.next)
      BY <2>3, <1>0, <1>1a, <1>1b, Apart DEF StoreWord
    <2> QED
      BY <1>2, <2>1, <2>2, <2>3 DEF SetAllowed
  <1>3. ASSUME NEW a \in Actors, Activate(a) PROVE FirstTpc'
    BY <1>3, <1>0, <1>1a, <1>1d, Apart DEF Activate
  <1>4. ASSUME NEW a \in Actors, CheckAlloc(a) PROVE FirstTpc'
    BY <1>4, <1>0, <1>1a, <1>1d, Apart DEF CheckAlloc, Return
  <1>5. ASSUME NEW a \in Actors, CloseGate(a) PROVE FirstTpc'
    BY <1>5, <1>0, <1>1a, <1>1d, Apart DEF CloseGate
  <1>6. ASSUME NEW a \in Actors, Destroy(a) PROVE FirstTpc'
    BY <1>6, <1>0, <1>1a, <1>1d, Apart DEF Destroy
  <1>7. ASSUME NEW a \in Actors, Create(a) PROVE FirstTpc'
    BY <1>7, <1>0, <1>1a, <1>1d, Apart DEF Create
  <1>8. ASSUME NEW a \in Actors, StoreApplied(a, "applied", 1) PROVE FirstTpc'
    BY <1>8, <1>0, <1>1a, <1>1d, Apart DEF StoreApplied
  <1>9. ASSUME NEW a \in Actors, StoreApplied(a, "fallback", 0)
        PROVE  FirstTpc'
    BY <1>9, <1>0, <1>1a, <1>1d, Apart DEF StoreApplied
  <1>10. ASSUME NEW a \in Actors, OpenGate(a) PROVE FirstTpc'
    BY <1>10, <1>0, <1>1a, <1>1d, Apart DEF OpenGate, Return
  <1>11. ASSUME NEW t \in Threads, Entry(t) PROVE FirstTpc'
    BY <1>11, <1>0, <1>1a, <1>1d, Apart DEF Entry, Body
  <1>12. ASSUME NEW t \in Threads, Lock(t) PROVE FirstTpc'
    BY <1>12, <1>0, <1>1a, <1>1d, Apart DEF Lock, Body
  <1>13. ASSUME NEW t \in Threads, StartControlServer(t) PROVE FirstTpc'
    <2>1. pc[Control] = "off"
      BY <1>13 DEF StartControlServer, StartInv, InitialiserAlone
    <2> QED
      BY <1>13, <2>1, <1>0, Apart DEF StartControlServer
  <1>14. ASSUME NEW t \in Threads, Attach(t) PROVE FirstTpc'
    BY <1>14, <1>0, <1>1a, <1>1d, Apart DEF Attach
  <1>15. ASSUME NEW t \in Threads, Inited(t) PROVE FirstTpc'
    BY <1>15, <1>0, <1>1a, <1>1d, Apart DEF Inited, Body
  <1>16. ASSUME NEW t \in Threads, CheckRoute(t) PROVE FirstTpc'
    BY <1>16, <1>0, <1>1a, <1>1d, Apart DEF CheckRoute
  <1>17. ASSUME NEW t \in Threads, PassGate(t) PROVE FirstTpc'
    BY <1>17, <1>0, <1>1a, <1>1d, Apart DEF PassGate
  <1>18. ASSUME NEW t \in Threads, MarkAlloc(t) PROVE FirstTpc'
    BY <1>18, <1>0, <1>1a, <1>1d, Apart DEF MarkAlloc
  <1>19. ASSUME NEW t \in Threads, Guard(t) PROVE FirstTpc'
    BY <1>19, <1>0, <1>1a, <1>1d, Apart DEF Guard
  <1>20. ASSUME NEW t \in Threads, Switch(t) PROVE FirstTpc'
    BY <1>20, <1>0, <1>1a, <1>1d, Apart DEF Switch
  <1>21. ASSUME NEW t \in Threads, Use(t) PROVE FirstTpc'
    <2>1. inited /\ pc[Control] # "off"
      BY <1>21 DEF Use, StartInv, InitialiserAlone, LaunchPcs
    <2> QED
      BY <1>21, <2>1, <1>0, Apart DEF Use
  <1>22. ASSUME NEW t \in Threads, Callback(t) PROVE FirstTpc'
    BY <1>22, <1>0, <1>1a, <1>1d, Apart DEF Callback, ReadWord
  <1>23. ASSUME NEW t \in Threads, Submit(t) PROVE FirstTpc'
    BY <1>23, <1>0, <1>1a, <1>1d, Apart DEF Submit
  <1>24. ASSUME NEW t \in Threads, Join(t) PROVE FirstTpc'
    BY <1>24, <1>0, <1>1a, <1>1d, Apart DEF Join
  <1>25. ASSUME NEW t \in Threads, FreeContexts(t) PROVE FirstTpc'
    BY <1>25, <1>0, <1>1a, <1>1d, Apart DEF FreeContexts
  <1>26. ASSUME NEW t \in Threads, Exit(t) PROVE FirstTpc'
    BY <1>26, <1>0, <1>1a, <1>1d, Apart DEF Exit
  <1>27. ASSUME NEW t \in Threads, NEW o \in {"launch", "malloc"}, Call(t, o)
         PROVE  FirstTpc'
    BY <1>27, <1>0, <1>1a, <1>1d, Apart DEF Call
  <1>28. ASSUME StoreRoute PROVE FirstTpc'
    BY <1>28, <1>0, <1>1a, <1>1d, Apart DEF StoreRoute
  <1>29. ASSUME Quit PROVE FirstTpc'
    BY <1>29, <1>0, <1>1a, <1>1d, Apart DEF Quit
  <1>30. ASSUME ReconfSm PROVE FirstTpc'
    BY <1>30, <1>0, <1>1a, <1>1d, Apart DEF ReconfSm, Receive
  <1>31. ASSUME QuitCommand PROVE FirstTpc'
    BY <1>31, <1>0, <1>1a, <1>1d, Apart DEF QuitCommand, Receive
  <1>32. ASSUME NEW r \in {"LIMITED", "UNLIMITED"}, SetRoute(r)
         PROVE  FirstTpc'
    BY <1>32, <1>0, <1>1a, <1>1d, Apart DEF SetRoute, Receive
  <1>33. ASSUME NEW p \in Pcts, QmdPct(p) PROVE FirstTpc'
    BY <1>33, <1>0, <1>1a, <1>1d, Apart DEF QmdPct, Receive
  <1>34. CASE UNCHANGED vars
    BY <1>34 DEF vars
  <1> QED
    BY <1>1, <1>2, <1>3, <1>4, <1>5, <1>6, <1>7, <1>8, <1>9, <1>10, <1>11,
       <1>12, <1>13, <1>14, <1>15, <1>16, <1>17, <1>18, <1>19, <1>20,
       <1>21, <1>22, <1>23, <1>24, <1>25, <1>26, <1>27, <1>28, <1>29,
       <1>30, <1>31, <1>32, <1>33, <1>34
       DEF Next, Inside, Serve, ReconfLimitedCtx, Actors

LEMMA MaskStep == TypeOK /\ StartInv /\ MaskInv /\ [Next]_vars => MaskInv'
  BY MaskWordsStep, FirstTpcStep DEF MaskInv


-----------------------------------------------------------------------------
(* The allocations *)

LEMMA AllocInit == Init => AllocInv
  BY Apart DEF Init, AllocInv, Actors, ReconfPcs

LEMMA AllocStep == TypeOK /\ StartInv /\ AllocInv /\ [Next]_vars => AllocInv'
  <1> SUFFICES ASSUME TypeOK, StartInv, AllocInv, [Next]_vars PROVE AllocInv'
    OBVIOUS
  <1> USE DEF AllocInv, RoutedTo, Place, Goto, Transition, env, start, limited,
              alloc, calls, Actors
  <1>0. /\ pc \in [Actors -> Pcs] /\ job.next \in {"recv", "activate"}
        /\ op \in [Threads -> {"launch", "malloc", "exit"}]
        /\ target \in [Threads -> Contexts] /\ late \in [Threads -> BOOLEAN]
    BY DEF TypeOK, Jobs
  <1>1a. \A t \in Threads :
             /\ pc[t] \in ReconfPcs => ~inited /\ pc[Control] = "off"
             /\ pc[t] \in {"mark", "use"} => inited
    BY DEF StartInv, InitialiserAlone, LaunchPcs
  <1> USE DEF ReconfPcs, DecidedPcs
  <1>1. ASSUME NEW a \in Actors, Reconf(a) PROVE AllocInv'
    BY <1>1, <1>0, <1>1a, Apart DEF Reconf, QmdSetup, Return
  <1>2. ASSUME NEW a \in Actors, SetAllowed(a) PROVE AllocInv'
    <2>1. CASE StoreWord(a, "word0", 0, "word1")
      BY <2>1, <1>0, <1>1a, Apart DEF StoreWord
    <2>2. CASE StoreWord(a, "word1", 1, "word2")
      BY <2>2, <1>0, <1>1a, Apart DEF StoreWord
    <2>3. CASE StoreWord(a, "word2", 2, job.next)
      BY <2>3, <1>0, <1>1a, Apart DEF StoreWord
    <2> QED
      BY <1>2, <2>1, <2>2, <2>3 DEF SetAllowed
  <1>3. ASSUME NEW a \in Actors, Activate(a) PROVE AllocInv'
    BY <1>3, <1>0, <1>1a, Apart DEF Activate
  <1>4. ASSUME NEW a \in Actors, CheckAlloc(a) PROVE AllocInv'
    BY <1>4, <1>0, <1>1a, Apart DEF CheckAlloc, Return
  <1>5. ASSUME NEW a \in Actors, CloseGate(a) PROVE AllocInv'
    BY <1>5, <1>0, <1>1a, Apart DEF CloseGate
  <1>6. ASSUME NEW a \in Actors, Destroy(a) PROVE AllocInv'
    BY <1>6, <1>0, <1>1a, Apart DEF Destroy
  <1>7. ASSUME NEW a \in Actors, Create(a) PROVE AllocInv'
    BY <1>7, <1>0, <1>1a, Apart DEF Create
  <1>8. ASSUME NEW a \in Actors, StoreApplied(a, "applied", 1) PROVE AllocInv'
    BY <1>8, <1>0, <1>1a, Apart DEF StoreApplied
  <1>9. ASSUME NEW a \in Actors, StoreApplied(a, "fallback", 0)
        PROVE  AllocInv'
    BY <1>9, <1>0, <1>1a, Apart DEF StoreApplied
  <1>10. ASSUME NEW a \in Actors, OpenGate(a) PROVE AllocInv'
    BY <1>10, <1>0, <1>1a, Apart DEF OpenGate, Return
  <1>11. ASSUME NEW t \in Threads, Entry(t) PROVE AllocInv'
    BY <1>11, <1>0, <1>1a, Apart DEF Entry, Body
  <1>12. ASSUME NEW t \in Threads, Lock(t) PROVE AllocInv'
    BY <1>12, <1>0, <1>1a, Apart DEF Lock, Body
  <1>13. ASSUME NEW t \in Threads, StartControlServer(t) PROVE AllocInv'
    <2>1. pc[Control] = "off"
      BY <1>13 DEF StartControlServer, StartInv, InitialiserAlone
    <2> QED
      BY <1>13, <2>1, <1>0, Apart DEF StartControlServer
  <1>14. ASSUME NEW t \in Threads, Attach(t) PROVE AllocInv'
    BY <1>14, <1>0, <1>1a, Apart DEF Attach
  <1>15. ASSUME NEW t \in Threads, Inited(t) PROVE AllocInv'
    BY <1>15, <1>0, <1>1a, Apart DEF Inited, Body
  <1>16. ASSUME NEW t \in Threads, CheckRoute(t) PROVE AllocInv'
    BY <1>16, <1>0, <1>1a, Apart DEF CheckRoute
  <1>17. ASSUME NEW t \in Threads, PassGate(t) PROVE AllocInv'
    BY <1>17, <1>0, <1>1a, Apart DEF PassGate
  <1>18. ASSUME NEW t \in Threads, MarkAlloc(t) PROVE AllocInv'
    BY <1>18, <1>0, <1>1a, Apart DEF MarkAlloc
  <1>19. ASSUME NEW t \in Threads, Guard(t) PROVE AllocInv'
    BY <1>19, <1>0, <1>1a, Apart DEF Guard
  <1>20. ASSUME NEW t \in Threads, Switch(t) PROVE AllocInv'
    BY <1>20, <1>0, <1>1a, Apart DEF Switch
  <1>21. ASSUME NEW t \in Threads, Use(t) PROVE AllocInv'
    BY <1>21, <1>0, <1>1a, Apart DEF Use
  <1>22. ASSUME NEW t \in Threads, Callback(t) PROVE AllocInv'
    BY <1>22, <1>0, <1>1a, Apart DEF Callback, ReadWord
  <1>23. ASSUME NEW t \in Threads, Submit(t) PROVE AllocInv'
    BY <1>23, <1>0, <1>1a, Apart DEF Submit
  <1>24. ASSUME NEW t \in Threads, Join(t) PROVE AllocInv'
    BY <1>24, <1>0, <1>1a, Apart DEF Join
  <1>25. ASSUME NEW t \in Threads, FreeContexts(t) PROVE AllocInv'
    BY <1>25, <1>0, <1>1a, Apart DEF FreeContexts
  <1>26. ASSUME NEW t \in Threads, Exit(t) PROVE AllocInv'
    BY <1>26, <1>0, <1>1a, Apart DEF Exit
  <1>27. ASSUME NEW t \in Threads, NEW o \in {"launch", "malloc"}, Call(t, o)
         PROVE  AllocInv'
    BY <1>27, <1>0, <1>1a, Apart DEF Call
  <1>28. ASSUME StoreRoute PROVE AllocInv'
    BY <1>28, <1>0, <1>1a, Apart DEF StoreRoute
  <1>29. ASSUME Quit PROVE AllocInv'
    BY <1>29, <1>0, <1>1a, Apart DEF Quit
  <1>30. ASSUME ReconfSm PROVE AllocInv'
    BY <1>30, <1>0, <1>1a, Apart DEF ReconfSm, Receive
  <1>31. ASSUME QuitCommand PROVE AllocInv'
    BY <1>31, <1>0, <1>1a, Apart DEF QuitCommand, Receive
  <1>32. ASSUME NEW r \in {"LIMITED", "UNLIMITED"}, SetRoute(r)
         PROVE  AllocInv'
    BY <1>32, <1>0, <1>1a, Apart DEF SetRoute, Receive
  <1>33. ASSUME NEW p \in Pcts, QmdPct(p) PROVE AllocInv'
    BY <1>33, <1>0, <1>1a, Apart DEF QmdPct, Receive
  <1>34. CASE UNCHANGED vars
    BY <1>34 DEF vars
  <1> QED
    BY <1>1, <1>2, <1>3, <1>4, <1>5, <1>6, <1>7, <1>8, <1>9, <1>10, <1>11,
       <1>12, <1>13, <1>14, <1>15, <1>16, <1>17, <1>18, <1>19, <1>20,
       <1>21, <1>22, <1>23, <1>24, <1>25, <1>26, <1>27, <1>28, <1>29,
       <1>30, <1>31, <1>32, <1>33, <1>34
       DEF Next, Inside, Serve, ReconfLimitedCtx, Actors

-----------------------------------------------------------------------------
(* The theorems *)

IInv == TypeOK /\ StartInv /\ ContextInv /\ MaskInv /\ AllocInv

\* The whole invariant holds in every reachable state.
THEOREM Invariant == Spec => []IInv
  <1>1. Init => IInv
    BY TypeInit, StartInit, ContextInit, MaskInit, AllocInit DEF IInv
  <1>2. IInv /\ [Next]_vars => IInv'
    BY TypeStep, StartStep, ContextStep, MaskStep, AllocStep DEF IInv
  <1> QED
    BY <1>1, <1>2, PTL DEF Spec

\* The reconf gate protects: a call that has passed it uses no context that
\* reconf_limited_ctx has destroyed.
THEOREM GateSafe == Spec => []GateProtects
  <1>1. IInv => GateProtects
    BY DEF IInv, ContextInv, SafeCalls, GateProtects
  <1> QED
    BY Invariant, <1>1, PTL

\* No context is handed to cuCtxDestroy twice.
THEOREM NoDoubleDestroy == Spec => []DestroyedOnce
  <1>1. IInv => DestroyedOnce
    <2> SUFFICES ASSUME IInv, NEW a \in Actors
                 PROVE  /\ pc[a] = "destroy" => ctx_limited \in live
                        /\ pc[a] = "free" => ctx_limited \in live \cup {0}
      BY DEF DestroyedOnce
    <2> USE DEF IInv, ContextInv, PointerGood
    <2>1. ASSUME pc[a] = "destroy" PROVE ctx_limited \in live
      <3>1. /\ \A b \in Actors : pc[b] # "create"
            /\ \A t \in Threads : pc[t] # "ended"
        BY <2>1, ReconfAlone DEF ReconfPcs
      <3> QED
        BY <2>1, <3>1
    <2>2. ASSUME pc[a] = "free" PROVE ctx_limited \in live \cup {0}
      <3>1. a \in Threads /\ pc[Control] = "ended"
        BY <2>2 DEF StartInv, Roles, DestructorAlone, Actors, ControlPcs,
                    ReconfPcs
      <3>2. \A t \in Threads \ {a} : pc[t] = "app"
        BY <2>2, <3>1 DEF StartInv, DestructorAlone, ExitPcs
      <3> QED
        BY <2>2, <3>1, <3>2 DEF Actors
    <2> QED
      BY <2>1, <2>2
  <1> QED
    BY Invariant, <1>1, PTL

\* any_alloc freezes routing: unless the first allocation comes in the middle
\* of a command, allocations are together in a context that exists, and kernels
\* launched after them run there.
THEOREM AllocationsReachable == Spec => []DataReachable
  <1>1. IInv => DataReachable
    <2> SUFFICES ASSUME IInv, ~overtaken, any_alloc \/ holding # {}
                 PROVE  /\ ~Exiting => Cardinality(holding) <= 1
                        /\ ~Exiting =>
                               holding \subseteq live \cup {Unlimited, Own}
                        /\ KernelMeetsData
      <3>1. CASE ~overtaken /\ (any_alloc \/ holding # {})
        BY <3>1 DEF DataReachable, AllocationsTogether
      <3>2. CASE holding = {}
        <4>1. Cardinality(holding) = 0
          BY <3>2, FS_EmptySet
        <4> QED
          BY <3>2, <4>1 DEF DataReachable, AllocationsTogether, KernelMeetsData,
                            IInv, AllocInv
      <3>3. CASE overtaken
        BY <3>3 DEF DataReachable, AllocationsTogether, KernelMeetsData
      <3> QED
        BY <3>1, <3>2, <3>3
    <2> USE DEF IInv, AllocInv
    <2>1. /\ holding \subseteq {Place} /\ pc[Control] \notin DecidedPcs
          /\ inited
      OBVIOUS
    <2>2. Cardinality(holding) <= 1
      <3>1. IsFiniteSet({Place}) /\ Cardinality({Place}) = 1
        BY FS_Singleton
      <3>2. holding \in SUBSET {Place}
        BY <2>1
      <3> QED
        BY <3>1, <3>2, FS_Subset
    <2>3. ASSUME ~Exiting
          PROVE  holding \subseteq live \cup {Unlimited, Own}
      <3>1. \A t \in Threads : pc[t] # "ended"
        BY <2>3 DEF Exiting
      <3>2. \A a \in Actors : pc[a] # "create"
        BY <2>1 DEF StartInv, InitialiserAlone, Actors, ReconfPcs, DecidedPcs
      <3>3. ctx_limited \in live \cup {0}
        BY <3>1, <3>2 DEF ContextInv, PointerGood
      <3> QED
        BY <2>1, <3>3 DEF Place, RoutedTo
    <2>4. KernelMeetsData
      BY <2>1 DEF KernelMeetsData
    <2> QED
      BY <2>2, <2>3, <2>4
  <1> QED
    BY Invariant, <1>1, PTL

\* No kernel is left without a TPC, whatever mixture of requests its callback
\* reads.
THEOREM SomeTpcAlways == Spec => []NeverZeroTpcs
  <1>1. IInv => NeverZeroTpcs
    BY DEF IInv, MaskInv, FirstTpc, NeverZeroTpcs
  <1> QED
    BY Invariant, <1>1, PTL

\* Between two requests the mask grants the share asked for, rounded up to a
\* whole TPC.
THEOREM ShareIsExact == Spec => []ShareGranted
  <1>1. IInv => ShareGranted
    <2> SUFFICES ASSUME IInv, \A a \in Actors : pc[a] \notin WordPcs
                 PROVE  LET granted == Cardinality(UNION {mask[w] : w \in Words})
                            share   == TpcTotal * Max({1, Min({asked, 100})})
                        IN  100 * (granted - 1) < share /\ share <= 100 * granted
      BY DEF ShareGranted, WordPcs
    <2>1. asked \in Int /\ layout \in Layouts
      BY DEF IInv, TypeOK
    <2>2. PctToTpc(asked) \in 1 .. TpcTotal
      BY <2>1, PctToTpcRange
    <2>3. \A w \in Words : mask[w] = Word(Granted, w)
      BY DEF IInv, MaskInv, MaskWords
    <2>4. UNION {mask[w] : w \in Words} = UNION {Word(Granted, w) : w \in Words}
      BY <2>3
    <2>5. Granted \in SUBSET Tpcs
      BY <2>1, <2>2, AllowedType DEF Granted
    <2>6. UNION {Word(Granted, w) : w \in Words} = Granted
      <3>1. \A x \in Tpcs : x \div WordBits \in Words
        BY SpaceAssumption DEF Tpcs, Words
      <3> QED
        BY <2>5, <3>1 DEF Word
    <2>7. Cardinality(UNION {mask[w] : w \in Words}) = PctToTpc(asked)
      BY <2>1, <2>2, <2>4, <2>6, AllowedCount DEF Granted
    <2> QED
      BY <2>1, <2>7, PctToTpcRange
  <1> QED
    BY Invariant, <1>1, PTL

=============================================================================
