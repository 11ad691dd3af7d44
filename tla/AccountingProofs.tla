-------------------------- MODULE AccountingProofs --------------------------
(***************************************************************************)
(* Four parts of the runtime keep accounts: the credits of a process that  *)
(* its threads have cached (CreditGate), the bytes of a tenant (VirtualMem *)
(* in libkraken, MemTrack in libbless) and the shares of the SMs in the    *)
(* slot table (SlotRegistry).  Their accounts are shown to add up, for any *)
(* number of threads, pointers, processes and slots.  A theorem speaks of  *)
(* the specification of one of them.                                       *)
(***************************************************************************)
EXTENDS CreditGate, VirtualMem, MemTrack, SlotRegistry, FiniteSetTheorems, TLAPS

LEMMA UnitOf ==
    ASSUME NEW S, NEW f \in [S -> Nat], NEW u
    PROVE  u \in Units(f) <=>
               \E x \in S : \E n \in Nat : u = <<x, n>> /\ 1 <= n /\ n <= f[x]
  <1>1. DOMAIN f = S
    OBVIOUS
  <1>2. u \in Units(f) <=> \E x \in S : u \in {x} \X (1 .. f[x])
    BY <1>1 DEF Units
  <1>3. ASSUME NEW x \in S
        PROVE  u \in {x} \X (1 .. f[x]) <=>
                   \E n \in Nat : u = <<x, n>> /\ 1 <= n /\ n <= f[x]
    <2>1. f[x] \in Nat
      OBVIOUS
    <2>2. \A n : n \in 1 .. f[x] <=> n \in Nat /\ 1 <= n /\ n <= f[x]
      BY <2>1
    <2>3. u \in {x} \X (1 .. f[x]) <=> \E n \in 1 .. f[x] : u = <<x, n>>
      OBVIOUS
    <2> QED
      BY <2>2, <2>3
  <1> QED
    BY <1>2, <1>3

\* The units at one x.
LEMMA UnitsAt ==
    ASSUME NEW x, NEW k \in Nat
    PROVE  IsFiniteSet({x} \X (1 .. k)) /\ Cardinality({x} \X (1 .. k)) = k
  <1>1. IsFiniteSet(1 .. k) /\ Cardinality(1 .. k) = k
    BY FS_Interval
  <1>2. IsFiniteSet({x}) /\ Cardinality({x}) = 1
    BY FS_Singleton
  <1>3. IsFiniteSet({x} \X (1 .. k))
        /\ Cardinality({x} \X (1 .. k)) = Cardinality({x}) * Cardinality(1 .. k)
    BY <1>1, <1>2, FS_Product
  <1> QED
    BY <1>1, <1>2, <1>3

LEMMA TotalIsNatural ==
    ASSUME NEW S, IsFiniteSet(S), NEW f \in [S -> Nat]
    PROVE  IsFiniteSet(Units(f)) /\ Total(f) \in Nat
  <1> DEFINE Part == [x \in S |-> {x} \X (1 .. f[x])]
             Parts == {{x} \X (1 .. f[x]) : x \in S}
  <1>1. Part \in Surjection(S, Parts)
    <2>1. Part \in [S -> Parts]
      OBVIOUS
    <2>2. \A y \in Parts : \E x \in S : Part[x] = y
      OBVIOUS
    <2> QED
      BY <2>1, <2>2 DEF Surjection
  <1> HIDE DEF Part, Parts
  <1>2. IsFiniteSet(Parts)
    BY <1>1, FS_Surjection
  <1>3. \A y \in Parts : IsFiniteSet(y)
    <2>1. \A x \in S : IsFiniteSet({x} \X (1 .. f[x]))
      BY UnitsAt
    <2> QED
      BY <2>1, Zenon DEF Parts
  <1>4. IsFiniteSet(UNION Parts)
    BY <1>2, <1>3, FS_UNION
  <1>5. Units(f) = UNION Parts
    BY DEF Units, Parts
  <1> QED
    BY <1>4, <1>5, FS_CardinalityType DEF Total

\* A change at one x changes the total by as much.
LEMMA TotalExcept ==
    ASSUME NEW S, IsFiniteSet(S), NEW f \in [S -> Nat], NEW x \in S, NEW k \in Nat
    PROVE  Total([f EXCEPT ![x] = k]) = Total(f) - f[x] + k
  <1> DEFINE g == [f EXCEPT ![x] = k]
             h == [f EXCEPT ![x] = 0]
  <1>1. ASSUME NEW j \in Nat
        PROVE  Total([f EXCEPT ![x] = j]) = Total(h) + j
    <2> DEFINE e == [f EXCEPT ![x] = j]
               new == {x} \X (1 .. j)
    <2>1. e \in [S -> Nat] /\ h \in [S -> Nat]
      OBVIOUS
    <2>2. \A y \in S : e[y] = (IF y = x THEN j ELSE f[y]) /\ h[y] = (IF y = x THEN 0 ELSE f[y])
      OBVIOUS
    <2>3. \A u : u \in new <=> \E n \in Nat : u = <<x, n>> /\ 1 <= n /\ n <= j
      <3>1. \A n : n \in 1 .. j <=> n \in Nat /\ 1 <= n /\ n <= j
        OBVIOUS
      <3>2. \A u : u \in new <=> \E n \in 1 .. j : u = <<x, n>>
        OBVIOUS
      <3> QED
        BY <3>1, <3>2
    <2> HIDE DEF e, h, new
    <2>4. \A u : u \in Units(e) <=>
             \E y \in S : \E n \in Nat : u = <<y, n>> /\ 1 <= n /\ n <= e[y]
      BY <2>1, UnitOf
    <2>5. \A u : u \in Units(h) <=>
             \E y \in S : \E n \in Nat : u = <<y, n>> /\ 1 <= n /\ n <= h[y]
      BY <2>1, UnitOf
    <2>6. Units(e) = Units(h) \cup new
      <3>1. ASSUME NEW u \in Units(e) PROVE u \in Units(h) \cup new
        BY <2>2, <2>3, <2>4, <2>5
      <3>2. ASSUME NEW u \in Units(h) PROVE u \in Units(e)
        <4>1. PICK y \in S : \E n \in Nat : u = <<y, n>> /\ 1 <= n /\ n <= h[y]
          BY <2>5
        <4>2. y # x /\ h[y] = e[y]
          BY <2>2, <4>1
        <4> QED
          BY <2>4, <4>1, <4>2
      <3>3. ASSUME NEW u \in new PROVE u \in Units(e)
        BY <2>2, <2>3, <2>4
      <3> QED
        BY <3>1, <3>2, <3>3
    <2>7. Units(h) \cap new = {}
      <3> SUFFICES ASSUME NEW u \in Units(h), u \in new PROVE FALSE
        OBVIOUS
      <3>1. PICK n \in Nat : u = <<x, n>>
        BY <2>3
      <3>2. PICK y \in S, m \in Nat : u = <<y, m>> /\ 1 <= m /\ m <= h[y]
        BY <2>5
      <3>3. y = x
        BY <3>1, <3>2
      <3> QED
        BY <2>2, <3>2, <3>3
    <2>8. IsFiniteSet(Units(h)) /\ Total(h) \in Nat
      BY <2>1, TotalIsNatural
    <2>9. IsFiniteSet(new) /\ Cardinality(new) = j
      BY UnitsAt DEF new
    <2>10. Cardinality(Units(e)) = Total(h) + j - Cardinality({})
      BY <2>6, <2>7, <2>8, <2>9, FS_Union DEF Total
    <2>11. Total(e) = Total(h) + j
      BY <2>8, <2>10, FS_EmptySet DEF Total
    <2> QED
      BY <2>11 DEF e
  <1>2. f = [f EXCEPT ![x] = f[x]] /\ f[x] \in Nat
    OBVIOUS
  <1>3. Total(h) \in Nat
    BY TotalIsNatural
  <1>4. Total(f) = Total(h) + f[x]
    BY <1>1, <1>2
  <1>5. Total(g) = Total(h) + k
    BY <1>1
  <1> QED
    BY <1>2, <1>3, <1>4, <1>5

LEMMA TotalMonotone ==
    ASSUME NEW S, IsFiniteSet(S), NEW f \in [S -> Nat], NEW g \in [S -> Nat],
           \A x \in S : f[x] <= g[x]
    PROVE  Total(f) <= Total(g)
  <1>1. Units(f) \subseteq Units(g)
    <2> SUFFICES ASSUME NEW u \in Units(f) PROVE u \in Units(g)
      OBVIOUS
    <2>1. PICK x \in S, n \in Nat : u = <<x, n>> /\ 1 <= n /\ n <= f[x]
      BY UnitOf
    <2>2. n <= g[x]
      BY <2>1
    <2> QED
      BY <2>1, <2>2, UnitOf
  <1> QED
    BY <1>1, TotalIsNatural, FS_Subset DEF Total

\* A total is zero just when there is nothing to count.
LEMMA TotalZero ==
    ASSUME NEW S, IsFiniteSet(S), NEW f \in [S -> Nat]
    PROVE  Total(f) = 0 <=> \A x \in S : f[x] = 0
  <1>1. Total(f) = 0 <=> Units(f) = {}
    BY TotalIsNatural, FS_EmptySet DEF Total
  <1>2. ASSUME NEW x \in S, f[x] # 0 PROVE Units(f) # {}
    <2>1. f[x] \in Nat /\ 1 <= f[x]
      BY <1>2
    <2>2. <<x, f[x]>> \in Units(f)
      BY <2>1, UnitOf
    <2> QED
      BY <2>2
  <1>3. ASSUME NEW u \in Units(f) PROVE \E x \in S : f[x] # 0
    <2>1. PICK x \in S, n \in Nat : u = <<x, n>> /\ 1 <= n /\ n <= f[x]
      BY UnitOf
    <2> QED
      BY <2>1
  <1> QED
    BY <1>1, <1>2, <1>3

\* ... and no more than the largest value for every x.
LEMMA TotalBounded ==
    ASSUME NEW S, IsFiniteSet(S), NEW m \in Nat, NEW f \in [S -> 0 .. m]
    PROVE  Total(f) <= Cardinality(S) * m
  <1>1. IsFiniteSet(1 .. m) /\ Cardinality(1 .. m) = m
    BY FS_Interval
  <1>2. IsFiniteSet(S \X (1 .. m)) /\ Cardinality(S \X (1 .. m)) = Cardinality(S) * m
    BY <1>1, FS_Product
  <1>3. f \in [S -> Nat]
    OBVIOUS
  <1>4. Units(f) \subseteq S \X (1 .. m)
    <2> SUFFICES ASSUME NEW u \in Units(f) PROVE u \in S \X (1 .. m)
      OBVIOUS
    <2>1. PICK x \in S, n \in Nat : u = <<x, n>> /\ 1 <= n /\ n <= f[x]
      BY <1>3, UnitOf
    <2>2. n \in 1 .. m
      BY <2>1
    <2> QED
      BY <2>1, <2>2
  <1> QED
    BY <1>2, <1>4, FS_Subset DEF Total

LEMMA TotalOfNothing ==
    ASSUME NEW S, IsFiniteSet(S)
    PROVE  Total([x \in S |-> 0]) = 0
  <1>1. [x \in S |-> 0] \in [S -> Nat]
    OBVIOUS
  <1> QED
    BY <1>1, TotalZero

\* A set of numbers that is not empty has a smallest one.
LEMMA SmallestNumber ==
    ASSUME NEW S \in SUBSET Nat, S # {}
    PROVE  Min(S) \in S
  <1>1. \E x \in S : \A y \in S : ~(<<y, x>> \in OpToRel(<, Nat))
    BY NatLessThanWellFounded, WFMin
  <1>2. PICK x \in S : \A y \in S : ~(<<y, x>> \in OpToRel(<, Nat))
    BY <1>1
  <1>3. \A y \in S : x =< y
    <2>1. \A y \in S : ~(y < x)
      BY <1>2, Zenon DEF OpToRel
    <2> QED
      BY <2>1
  <1> QED
    BY <1>3 DEF Min

-----------------------------------------------------------------------------
(* CreditGate: no credit is lost or spent twice *)

\* The part of the type the clamp depends on.
CacheTypes ==
    /\ credit_remain \in Int
    /\ pc \in [Threads -> {"app", "read", "load", "cas"}]
    /\ tl_burst \in [Threads -> 0 .. BURST - 1]
    /\ cur \in [Threads -> Int]

ClampInv ==
    /\ CacheTypes
    /\ \A t \in Threads : pc[t] = "cas" => cur[t] > 0
    /\ NoUnderflow

LEMMA CreditConstants ==
    IsFiniteSet(Threads) /\ BURST \in Nat \ {0} /\ CreditQuotas \subseteq Int
  BY CreditAssumption

\* A positive balance yields a chunk that leaves nothing negative.
LEMMA ChunkBounded ==
    ASSUME NEW c \in Int, c > 0
    PROVE  Chunk(c) \in 1 .. BURST /\ c - Chunk(c) \in Nat
  BY CreditConstants DEF Chunk

\* Every step of kernel_credit_gate and of the control thread keeps the clamp.
LEMMA ClampInductive ==
    ASSUME ClampInv, [CreditNext]_CreditVars
    PROVE  ClampInv'
<1> USE CreditConstants DEF ClampInv, CacheTypes, NoUnderflow, Transition
<1>1. ASSUME NEW t \in Threads, Enter(t) PROVE ClampInv'
  BY <1>1 DEF Enter, ghosts
<1>2. ASSUME NEW t \in Threads, Read(t) PROVE ClampInv'
  BY <1>2 DEF Read, ghosts
<1>3. ASSUME NEW t \in Threads, Load(t) PROVE ClampInv'
  <2>1. PICK l \in {"app", "load", "cas"} :
            /\ pc' = [pc EXCEPT ![t] = l]
            /\ l = "cas" => credit_remain > 0
    <3>1. CASE credit_remain < 0
      BY <1>3, <3>1 DEF Load
    <3>2. CASE credit_remain = 0
      BY <1>3, <3>2 DEF Load
    <3>3. CASE credit_remain > 0
      BY <1>3, <3>3 DEF Load
    <3> QED BY <3>1, <3>2, <3>3
  <2>2. /\ cur' = [cur EXCEPT ![t] = credit_remain]
        /\ UNCHANGED <<credit_remain, tl_burst, off>>
    BY <1>3 DEF Load, ghosts
  <2>3. CacheTypes' /\ NoUnderflow'
    BY <2>1, <2>2
  <2>4. \A u \in Threads : pc'[u] = "cas" => cur'[u] > 0
    BY <2>1, <2>2
  <2> QED BY <2>3, <2>4
<1>4. ASSUME NEW t \in Threads, Take(t) PROVE ClampInv'
  <2>1. cur[t] \in Int /\ cur[t] > 0
    BY <1>4 DEF Take
  <2>2. Chunk(cur[t]) \in 1 .. BURST /\ cur[t] - Chunk(cur[t]) \in Nat
    BY <2>1, ChunkBounded
  <2> QED BY <1>4, <2>2 DEF Take
<1>5. ASSUME NEW t \in Threads, Retry(t) PROVE ClampInv'
  BY <1>5 DEF Retry, ghosts
<1>6. ASSUME NEW q \in CreditQuotas, CreditSet(q) PROVE ClampInv'
  BY <1>6 DEF CreditSet
<1>7. CASE CreditOff
  BY <1>7 DEF CreditOff
<1>8. CASE Boost
  BY <1>8 DEF Boost, ghosts
<1>9. CASE UNCHANGED CreditVars
  BY <1>9 DEF CreditVars, ghosts
<1> QED BY <1>1, <1>2, <1>3, <1>4, <1>5, <1>6, <1>7, <1>8, <1>9 DEF CreditNext, Gate

\* No interleaving of takers makes credit_remain negative (the underflow that
\* kernel_credit_gate would read as "no limit"): only the control thread does.
THEOREM ClampSafe ==
    CreditSpec => []NoUnderflow
<1>1. CreditInit => ClampInv
  BY CreditConstants DEF CreditInit, ClampInv, CacheTypes, NoUnderflow
<1>2. ClampInv => NoUnderflow
  BY DEF ClampInv
<1>3. ClampInv /\ [CreditNext]_CreditVars => ClampInv'
  BY ClampInductive
<1> QED BY <1>1, <1>2, <1>3, PTL DEF CreditSpec

-----------------------------------------------------------------------------
(* Credits are conserved *)

\* Only a thread that has used up its cached credits goes for new ones.
EmptyHanded == \A t \in Threads : pc[t] \in {"load", "cas"} => tl_burst[t] = 0

AccountInv == CreditTypeOK /\ ClampInv /\ EmptyHanded /\ CreditConserved

LEMMA CachedNatural ==
    ASSUME CreditTypeOK
    PROVE  Cached \in Nat
  <1>1. tl_burst \in [Threads -> Nat] /\ IsFiniteSet(Threads)
    BY CreditConstants DEF CreditTypeOK
  <1> QED
    BY <1>1, TotalIsNatural DEF Cached

\* A thread that uses or takes credits changes the number by what it has more.
LEMMA CacheChange ==
    ASSUME CreditTypeOK, NEW t \in Threads, NEW k \in Nat,
           tl_burst' = [tl_burst EXCEPT ![t] = k]
    PROVE  Cached' = Cached - tl_burst[t] + k
  <1>1. tl_burst \in [Threads -> Nat] /\ IsFiniteSet(Threads)
    BY CreditConstants DEF CreditTypeOK
  <1>2. Total([tl_burst EXCEPT ![t] = k]) = Total(tl_burst) - tl_burst[t] + k
    BY <1>1, TotalExcept
  <1>3. Cached' = Total(tl_burst') /\ Cached = Total(tl_burst)
    BY DEF Cached
  <1> QED
    BY <1>2, <1>3

LEMMA NothingCached == tl_burst' = tl_burst => Cached' = Cached
  BY DEF Cached

LEMMA AccountInductive ==
    ASSUME AccountInv, [CreditNext]_CreditVars
    PROVE  AccountInv'
  <1>0. /\ CreditTypeOK /\ EmptyHanded /\ CreditConserved /\ Cached \in Nat
        /\ \A t \in Threads : pc[t] = "cas" => cur[t] > 0
    BY CachedNatural DEF AccountInv, ClampInv
  <1>1. ClampInv'
    BY ClampInductive DEF AccountInv
  <1> SUFFICES CreditTypeOK' /\ EmptyHanded' /\ CreditConserved'
    BY <1>1 DEF AccountInv
  <1> USE DEF CreditTypeOK, EmptyHanded, CreditConserved, Transition, ghosts
  <1>2. ASSUME NEW t \in Threads, Enter(t) PROVE CreditTypeOK' /\ EmptyHanded' /\ CreditConserved'
    BY <1>0, <1>2, NothingCached DEF Enter
  <1>3. ASSUME NEW t \in Threads, Read(t) PROVE CreditTypeOK' /\ EmptyHanded' /\ CreditConserved'
    <2>1. CASE tl_burst' = tl_burst /\ launched' = launched
      BY <1>0, <1>3, <2>1, NothingCached DEF Read
    <2>2. CASE /\ tl_burst[t] > 0 /\ tl_burst' = [tl_burst EXCEPT ![t] = @ - 1]
               /\ launched' = launched + 1 /\ pc[t] = "read"
               /\ pc' = [pc EXCEPT ![t] = "app"]
               /\ UNCHANGED <<boost_mode, credit_remain, cur, off, granted>>
      <3>1. Cached' = Cached - 1
        <4>1. tl_burst[t] - 1 \in Nat
          BY <1>0, <2>2, CreditConstants
        <4>2. Cached' = Cached - tl_burst[t] + (tl_burst[t] - 1)
          BY <1>0, <2>2, <4>1, CacheChange
        <4> QED
          BY <1>0, <4>1, <4>2
      <3>2. CreditTypeOK'
        <4>1. tl_burst[t] - 1 \in 0 .. BURST - 1
          BY <1>0, <2>2, CreditConstants
        <4>2. tl_burst' \in [Threads -> 0 .. BURST - 1]
          BY <1>0, <2>2, <4>1
        <4> QED
          BY <1>0, <2>2, <4>2
      <3> QED
        BY <1>0, <2>2, <3>1, <3>2
    <2> QED
      BY <1>3, <2>1, <2>2 DEF Read
  <1>4. ASSUME NEW t \in Threads, Load(t) PROVE CreditTypeOK' /\ EmptyHanded' /\ CreditConserved'
    <2>1. CreditTypeOK' /\ EmptyHanded'
      BY <1>0, <1>4 DEF Load
    <2>2. CreditConserved'
      BY <1>0, <1>4, NothingCached DEF Load
    <2> QED
      BY <2>1, <2>2
  <1>5. ASSUME NEW t \in Threads, Take(t) PROVE CreditTypeOK' /\ EmptyHanded' /\ CreditConserved'
    <2>1. Chunk(cur[t]) \in 1 .. BURST /\ cur[t] \in Int /\ BURST \in Nat
      BY <1>0, <1>5, ChunkBounded, CreditConstants DEF Take
    <2> DEFINE k == Chunk(cur[t]) - 1
    <2>2. k \in 0 .. BURST - 1 /\ k \in Nat /\ k + 1 = Chunk(cur[t])
      BY <2>1
    <2>3. /\ tl_burst[t] = 0 /\ tl_burst' = [tl_burst EXCEPT ![t] = k]
          /\ credit_remain' = credit_remain - (k + 1) /\ launched' = launched + 1
          /\ pc' = [pc EXCEPT ![t] = "app"]
          /\ UNCHANGED <<boost_mode, cur, off, granted>>
      BY <1>0, <1>5, <2>2 DEF Take
    <2> HIDE DEF k
    <2>4. Cached' = Cached + k
      <3>1. Cached' = Cached - tl_burst[t] + k
        BY <1>0, <2>2, <2>3, CacheChange
      <3> QED
        BY <1>0, <2>2, <2>3, <3>1
    <2>5. CreditTypeOK' /\ EmptyHanded'
      BY <1>0, <2>1, <2>2, <2>3
    <2>6. CreditConserved'
      BY <1>0, <2>1, <2>2, <2>3, <2>4
    <2> QED
      BY <2>5, <2>6
  <1>6. ASSUME NEW t \in Threads, Retry(t) PROVE CreditTypeOK' /\ EmptyHanded' /\ CreditConserved'
    BY <1>0, <1>6, NothingCached DEF Retry
  <1>7. ASSUME NEW q \in CreditQuotas, CreditSet(q) PROVE CreditTypeOK' /\ EmptyHanded' /\ CreditConserved'
    <2>1. q \in Int /\ Cached' = Cached /\ granted' = q + Cached
      BY <1>7, CreditConstants, NothingCached DEF CreditSet
    <2>2. off' \in BOOLEAN
      BY <1>7, <2>1 DEF CreditSet
    <2> QED
      BY <1>0, <1>7, <2>1, <2>2 DEF CreditSet
  <1>8. ASSUME CreditOff PROVE CreditTypeOK' /\ EmptyHanded' /\ CreditConserved'
    <2>1. off'
      BY <1>8 DEF CreditOff
    <2>2. off' \in BOOLEAN
      BY <1>8, Zenon DEF CreditOff
    <2> QED
      BY <1>0, <1>8, <2>1, <2>2 DEF CreditOff
  <1>9. ASSUME Boost PROVE CreditTypeOK' /\ EmptyHanded' /\ CreditConserved'
    BY <1>0, <1>9, NothingCached DEF Boost
  <1>10. CASE UNCHANGED CreditVars
    BY <1>0, <1>10, NothingCached DEF CreditVars
  <1> QED
    BY <1>2, <1>3, <1>4, <1>5, <1>6, <1>7, <1>8, <1>9, <1>10 DEF CreditNext, Gate

\* Every credit is spent once, however many threads race for chunks and wherever
\* credit_set falls between a load and its compare-and-swap.
THEOREM CreditsAddUp ==
    CreditSpec => []CreditInv
  <1>1. CreditInit => AccountInv
    <2> SUFFICES ASSUME CreditInit PROVE AccountInv
      OBVIOUS
    <2>1. boost_mode \in BOOLEAN /\ off \in BOOLEAN /\ off
      BY Zenon DEF CreditInit
    <2>2. CreditTypeOK
      BY <2>1, CreditConstants DEF CreditInit, CreditTypeOK
    <2>3. ClampInv
      BY <2>1, CreditConstants DEF CreditInit, ClampInv, CacheTypes, NoUnderflow
    <2> QED
      BY <2>1, <2>2, <2>3 DEF CreditInit, AccountInv, EmptyHanded, CreditConserved
  <1>2. AccountInv => CreditInv
    BY DEF AccountInv, CreditInv
  <1>3. AccountInv /\ [CreditNext]_CreditVars => AccountInv'
    BY AccountInductive
  <1> QED
    BY <1>1, <1>2, <1>3, PTL DEF CreditSpec

-----------------------------------------------------------------------------
(* SlotRegistry: a tenant keeps its slot, and its shares are counted once *)

\* A process has a slot from the pass that finds it until it ends.
HasSlot ==
    \A p \in Procs :
        stage[p] \in {"name", "check", "activate", "attached"} \cup Filling =>
            tenant_idx[p] \in Slots

\* No two slots carry one id.
Distinct ==
    \A i, j \in Slots :
        tenant_id[i] = tenant_id[j] /\ tenant_id[i] # NoId => i = j

\* The slot a process is about to name is its own or empty, and then no other is
\* its own; who has chosen the same empty slot belongs to the same tenant.
Claims ==
    /\ \A p \in Procs : stage[p] = "name" =>
           \/ tenant_id[tenant_idx[p]] = TenantOf[p]
           \/ tenant_id[tenant_idx[p]] = NoId /\ Mine(p) = {}
    /\ \A p, q \in Procs : Choosing(p) /\ Choosing(q) =>
           (tenant_idx[p] = tenant_idx[q] <=> TenantOf[p] = TenantOf[q])

SlotInv == RegistryTypeOK /\ HasSlot /\ (raced \/ (Distinct /\ Claims))

\* What a process that fills a slot has found there is still so, and no other
\* fills it.
Fills ==
    /\ \A p \in Procs : /\ stage[p] \in {"fill", "fill_mem"} => HasEnv(p)
                        /\ stage[p] = "fill" => virtual_sm[tenant_idx[p]] = 0
                        /\ stage[p] = "fill_mem" => /\ virtual_sm[tenant_idx[p]] > 0
                                                    /\ virtual_mem_mb[tenant_idx[p]] = 0
    /\ \A p, q \in Procs :
           /\ stage[p] \in {"fill", "fill_mem"} /\ stage[q] \in {"fill", "fill_mem"}
           /\ tenant_idx[p] = tenant_idx[q]
           => p = q

\* The two shares of a slot come together, except between the two stores.
Pairs ==
    \A i \in Slots :
        /\ virtual_sm[i] = 0 => virtual_mem_mb[i] = 0
        /\ virtual_sm[i] > 0 /\ virtual_mem_mb[i] = 0 =>
               i \in cut \/ \E p \in Procs : stage[p] = "fill_mem" /\ tenant_idx[p] = i

\* Shares that are in a slot and will be added to the total.
OwedSm  == [p \in Procs |-> IF stage[p] \in {"fill_mem", "total"} THEN VirtualSM[p] ELSE 0]
OwedMem == [p \in Procs |-> IF stage[p] \in {"total", "mem_total"} THEN VirtualMem[p] ELSE 0]

\* A total lacks what is owed, and what killed processes never add.
Accounts ==
    /\ virtual_sm_total + Total(OwedSm) <= Total(virtual_sm)
    /\ virtual_mem_total + Total(OwedMem) <= Total(virtual_mem_mb)
    /\ cut = {} => /\ virtual_sm_total + Total(OwedSm) = Total(virtual_sm)
                   /\ virtual_mem_total + Total(OwedMem) = Total(virtual_mem_mb)

ShareInv == raced \/ (Fills /\ Pairs /\ Accounts)

LEMMA SlotConstants ==
    /\ MAX_TENANTS \in Nat /\ MaxOpens \in Nat
    /\ Slots = 1 .. MAX_TENANTS /\ IsFiniteSet(Slots)
    /\ 0 \notin Slots /\ Slots \subseteq Nat /\ IsFiniteSet(Procs)
    /\ \A p \in Procs : /\ VirtualSM[p] \in Nat /\ VirtualMem[p] \in Nat
                        /\ TenantOf[p] # NoId /\ TenantOf[p] \in Ids
  <1>1. MAX_TENANTS \in Nat /\ MaxOpens \in Nat
    BY SlotAssumption
  <1>2. IsFiniteSet(1 .. MAX_TENANTS)
    BY <1>1, FS_Interval
  <1> QED
    BY <1>1, <1>2, SlotAssumption DEF Slots, Ids

\* The slots the two passes take.
LEMMA SlotChosen ==
    /\ \A p \in Procs : Mine(p) # {} => Min(Mine(p)) \in Mine(p)
    /\ EmptySlots # {} => Min(EmptySlots) \in EmptySlots
  <1>1. EmptySlots \in SUBSET Nat /\ \A p \in Procs : Mine(p) \in SUBSET Nat
    BY SlotConstants DEF EmptySlots, Mine
  <1> QED
    BY <1>1, SmallestNumber

\* The slot the controller fills: the tenant's own, or an empty one.
LEMMA SlotRegistered ==
    ASSUME NEW p \in Procs, Register(p)
    PROVE  \E i \in Slots :
               /\ tenant_id[i] = TenantOf[p] \/ (tenant_id[i] = NoId /\ Mine(p) = {})
               /\ virtual_sm[i] = 0 /\ HasEnv(p)
               /\ tenant_id' = [tenant_id EXCEPT ![i] = TenantOf[p]]
               /\ virtual_sm' = [virtual_sm EXCEPT ![i] = VirtualSM[p]]
               /\ virtual_mem_mb' = [virtual_mem_mb EXCEPT ![i] = VirtualMem[p]]
               /\ virtual_sm_total' = virtual_sm_total + VirtualSM[p]
               /\ virtual_mem_total' = virtual_mem_total + VirtualMem[p]
               /\ raced' = (raced \/ AboutToFill(i) \/
                      \E q \in Procs : Clash(q, TenantOf[p], i))
               /\ UNCHANGED <<active, process, cut>>
  <1> DEFINE where == IF Mine(p) # {} THEN Mine(p) ELSE EmptySlots
             i == Min(where)
  <1>1. /\ where # {} /\ virtual_sm[i] = 0 /\ HasEnv(p)
        /\ tenant_id' = [tenant_id EXCEPT ![i] = TenantOf[p]]
        /\ virtual_sm' = [virtual_sm EXCEPT ![i] = VirtualSM[p]]
        /\ virtual_mem_mb' = [virtual_mem_mb EXCEPT ![i] = VirtualMem[p]]
        /\ virtual_sm_total' = virtual_sm_total + VirtualSM[p]
        /\ virtual_mem_total' = virtual_mem_total + VirtualMem[p]
        /\ raced' = (raced \/ AboutToFill(i) \/
               \E q \in Procs : Clash(q, TenantOf[p], i))
        /\ UNCHANGED <<active, process, cut>>
    BY DEF Register
  <1>2. i \in where
    BY <1>1, SlotChosen
  <1>3. /\ i \in Slots
        /\ tenant_id[i] = TenantOf[p] \/ (tenant_id[i] = NoId /\ Mine(p) = {})
    BY <1>2 DEF Mine, EmptySlots
  <1> HIDE DEF where, i
  <1> QED
    BY <1>1, <1>3

\* Types, whoever starts when.
LEMMA SlotTypeInductive ==
    ASSUME RegistryTypeOK, HasSlot, [RegistryNext]_RegistryVars
    PROVE  RegistryTypeOK' /\ HasSlot'
  <1> USE SlotConstants DEF RegistryTypeOK, HasSlot, Advance, shares, process, NoSlot,
                            Filling
  <1>1. ASSUME NEW p \in Procs, Open(p) PROVE RegistryTypeOK' /\ HasSlot'
    BY <1>1 DEF Open
  <1>2. ASSUME NEW p \in Procs, Reconnect(p) PROVE RegistryTypeOK' /\ HasSlot'
    <2>1. CASE Mine(p) # {}
      <3>1. Min(Mine(p)) \in Slots
        BY <2>1, SlotChosen DEF Mine
      <3>2. /\ Advance(p, "reconnect", "name")
            /\ tenant_idx' = [tenant_idx EXCEPT ![p] = Min(Mine(p))]
            /\ UNCHANGED <<tenant_id, shares, active, opens, cut, raced>>
        BY <1>2, <2>1 DEF Reconnect
      <3> QED
        BY <3>1, <3>2
    <2>2. CASE Mine(p) = {}
      <3>1. /\ Advance(p, "reconnect", "empty")
            /\ UNCHANGED <<tenant_id, shares, active, tenant_idx, opens, cut, raced>>
        BY <1>2, <2>2 DEF Reconnect
      <3> QED
        BY <3>1
    <2> QED
      BY <2>1, <2>2
  <1>3. ASSUME NEW p \in Procs, FindEmpty(p) PROVE RegistryTypeOK' /\ HasSlot'
    <2>1. CASE EmptySlots # {}
      <3>1. Min(EmptySlots) \in Slots
        BY <2>1, SlotChosen DEF EmptySlots
      <3>2. /\ Advance(p, "empty", "name")
            /\ tenant_idx' = [tenant_idx EXCEPT ![p] = Min(EmptySlots)]
            /\ UNCHANGED <<tenant_id, shares, active, opens, cut>>
        BY <1>3, <2>1 DEF FindEmpty
      <3>3. raced' \in BOOLEAN
        BY <1>3, Zenon DEF FindEmpty
      <3> QED
        BY <3>1, <3>2, <3>3
    <2>2. CASE EmptySlots = {}
      <3>1. /\ Advance(p, "empty", "out")
            /\ UNCHANGED <<tenant_id, shares, active, tenant_idx, opens, cut, raced>>
        BY <1>3, <2>2 DEF FindEmpty
      <3> QED
        BY <3>1
    <2> QED
      BY <2>1, <2>2
  <1>4. ASSUME NEW p \in Procs, WriteId(p) PROVE RegistryTypeOK' /\ HasSlot'
    BY <1>4 DEF WriteId
  <1>5. ASSUME NEW p \in Procs, CheckAlloc(p) PROVE RegistryTypeOK' /\ HasSlot'
    <2>1. raced' \in BOOLEAN
      BY <1>5, Zenon DEF CheckAlloc
    <2> QED
      BY <1>5, <2>1 DEF CheckAlloc
  <1>6. ASSUME NEW p \in Procs, FillAlloc(p) PROVE RegistryTypeOK' /\ HasSlot'
    BY <1>6 DEF FillAlloc
  <1>7. ASSUME NEW p \in Procs, FillMem(p) PROVE RegistryTypeOK' /\ HasSlot'
    BY <1>7 DEF FillMem
  <1>8. ASSUME NEW p \in Procs, AddTotal(p) PROVE RegistryTypeOK' /\ HasSlot'
    <2>1. virtual_sm_total' \in Nat
      BY <1>8 DEF AddTotal
    <2>2. /\ stage[p] = "total" /\ stage' = [stage EXCEPT ![p] = "mem_total"]
          /\ UNCHANGED <<tenant_id, virtual_sm, virtual_mem_mb, virtual_mem_total, active,
                         tenant_idx, opens, cut, raced>>
      BY <1>8 DEF AddTotal
    <2> QED
      BY <2>1, <2>2
  <1>9. ASSUME NEW p \in Procs, AddMemTotal(p) PROVE RegistryTypeOK' /\ HasSlot'
    <2>1. virtual_mem_total' \in Nat
      BY <1>9 DEF AddMemTotal
    <2>2. /\ stage[p] = "mem_total" /\ stage' = [stage EXCEPT ![p] = "activate"]
          /\ UNCHANGED <<tenant_id, virtual_sm, virtual_mem_mb, virtual_sm_total, active,
                         tenant_idx, opens, cut, raced>>
      BY <1>9 DEF AddMemTotal
    <2> QED
      BY <2>1, <2>2
  <1>10. ASSUME NEW p \in Procs, Activate(p) PROVE RegistryTypeOK' /\ HasSlot'
    BY <1>10 DEF Activate
  <1>11. ASSUME NEW p \in Procs, Close(p) PROVE RegistryTypeOK' /\ HasSlot'
    BY <1>11 DEF Close
  <1>12. ASSUME NEW p \in Procs, Crash(p) PROVE RegistryTypeOK' /\ HasSlot'
    BY <1>12 DEF Crash
  <1>13. ASSUME NEW p \in Procs, Register(p) PROVE RegistryTypeOK' /\ HasSlot'
    <2>1. raced' \in BOOLEAN
      BY <1>13, SlotRegistered, Zenon
    <2>2. PICK i \in Slots :
              /\ tenant_id' = [tenant_id EXCEPT ![i] = TenantOf[p]]
              /\ virtual_sm' = [virtual_sm EXCEPT ![i] = VirtualSM[p]]
              /\ virtual_mem_mb' = [virtual_mem_mb EXCEPT ![i] = VirtualMem[p]]
              /\ virtual_sm_total' = virtual_sm_total + VirtualSM[p]
              /\ virtual_mem_total' = virtual_mem_total + VirtualMem[p]
              /\ UNCHANGED <<active, process, cut>>
      BY <1>13, SlotRegistered
    <2>3. virtual_sm_total' \in Nat /\ virtual_mem_total' \in Nat
      BY <2>2
    <2>4. /\ tenant_id' \in [Slots -> Ids \cup {NoId}]
          /\ virtual_sm' \in [Slots -> Nat] /\ virtual_mem_mb' \in [Slots -> Nat]
      BY <2>2
    <2>5. UNCHANGED <<active, stage, tenant_idx, opens, cut>>
      BY <2>2
    <2> QED
      BY <2>1, <2>3, <2>4, <2>5
  <1>14. CASE UNCHANGED RegistryVars
    BY <1>14 DEF RegistryVars
  <1> QED
    BY <1>1, <1>2, <1>3, <1>4, <1>5, <1>6, <1>7, <1>8, <1>9, <1>10, <1>11, <1>12,
       <1>13, <1>14
       DEF RegistryNext, RegistryStep

\* Once raced, always raced.
LEMMA RacedStays ==
    ASSUME [RegistryNext]_RegistryVars, raced
    PROVE  raced'
  BY DEF RegistryNext, RegistryStep, RegistryVars, Open, Reconnect, FindEmpty, WriteId,
         CheckAlloc, FillAlloc, FillMem, AddTotal, AddMemTotal, Activate, Close, Crash,
         Register

\* An id is written where the other processes that have chosen an empty slot do not
\* object: they write the same there, or something else elsewhere.
LEMMA IdWritten ==
    ASSUME RegistryTypeOK, HasSlot, Distinct, Claims, RegistryTypeOK',
           NEW p \in Procs, NEW i \in Slots,
           tenant_id[i] = TenantOf[p] \/ (tenant_id[i] = NoId /\ Mine(p) = {}),
           tenant_id' = [tenant_id EXCEPT ![i] = TenantOf[p]],
           \A q \in Procs : Choosing(q) => (tenant_idx[q] = i <=> TenantOf[q] = TenantOf[p]),
           tenant_idx' = tenant_idx,
           \A q \in Procs : stage'[q] = "name" => stage[q] = "name"
    PROVE  Distinct' /\ Claims'
  <1> USE SlotConstants
  <1>0. tenant_id \in [Slots -> Ids \cup {NoId}] /\ Slots' = Slots
    BY DEF RegistryTypeOK, Slots
  <1>1. CASE tenant_id[i] = TenantOf[p]
    <2>1. tenant_id' = tenant_id
      BY <1>0, <1>1
    <2>2. \A q \in Procs : Mine(q)' = Mine(q)
      BY <1>0, <2>1 DEF Mine
    <2> QED
      BY <1>0, <2>1, <2>2 DEF Distinct, Claims, Choosing
  <1>2. CASE tenant_id[i] = NoId /\ Mine(p) = {}
    <2>1. \A j \in Slots : tenant_id'[j] = IF j = i THEN TenantOf[p] ELSE tenant_id[j]
      BY <1>0
    <2>2. Distinct'
      BY <1>0, <1>2, <2>1 DEF Distinct, Mine
    <2>3. ASSUME NEW q \in Procs, stage'[q] = "name"
          PROVE  \/ tenant_id'[tenant_idx[q]] = TenantOf[q]
                 \/ /\ tenant_id'[tenant_idx[q]] = NoId /\ Mine(q)' = {}
                    /\ Choosing(q)
      <3>1. stage[q] = "name" /\ tenant_idx[q] \in Slots
        BY <2>3 DEF HasSlot
      <3>2. CASE tenant_idx[q] = i /\ Choosing(q)
        BY <2>1, <3>1, <3>2
      <3>3. CASE tenant_idx[q] # i /\ Choosing(q)
        <4>1. TenantOf[q] # TenantOf[p] /\ Mine(q) = {} /\ tenant_id[tenant_idx[q]] = NoId
          BY <3>1, <3>3 DEF Claims, Choosing
        <4>2. Mine(q)' = {}
          BY <1>0, <2>1, <4>1 DEF Mine
        <4> QED
          BY <2>1, <3>1, <3>3, <4>1, <4>2
      <3>4. CASE ~Choosing(q)
        <4>1. tenant_id[tenant_idx[q]] = TenantOf[q] /\ tenant_idx[q] # i
          BY <1>2, <3>1, <3>4 DEF Claims, Choosing
        <4> QED
          BY <2>1, <3>1, <4>1
      <3> QED
        BY <3>2, <3>3, <3>4
    <2>4. \A q \in Procs : Choosing(q)' => Choosing(q)
      BY <2>3 DEF Choosing
    <2> QED
      BY <2>2, <2>3, <2>4 DEF Claims
  <1> QED
    BY <1>1, <1>2

LEMMA SlotInductive ==
    ASSUME SlotInv, [RegistryNext]_RegistryVars
    PROVE  SlotInv'
  <1>1. RegistryTypeOK' /\ HasSlot'
    BY SlotTypeInductive DEF SlotInv
  <1> SUFFICES ASSUME ~raced' PROVE Distinct' /\ Claims'
    BY <1>1 DEF SlotInv
  <1>2. ~raced
    BY RacedStays
  <1>3. RegistryTypeOK /\ HasSlot /\ Distinct /\ Claims
    BY <1>2 DEF SlotInv
  <1>4. ASSUME tenant_id' = tenant_id, tenant_idx' = tenant_idx,
               \A q \in Procs : stage'[q] = "name" => stage[q] = "name"
        PROVE  Distinct' /\ Claims'
    BY <1>3, <1>4 DEF Distinct, Claims, Choosing, Mine
  <1>5. ASSUME tenant_id' = tenant_id, NEW p \in Procs, NEW to,
               stage' = [stage EXCEPT ![p] = to], to # "name",
               tenant_idx' = [tenant_idx EXCEPT ![p] = NoSlot]
        PROVE  Distinct' /\ Claims'
    BY <1>3, <1>5 DEF Distinct, Claims, Choosing, Mine, RegistryTypeOK
  <1> USE SlotConstants DEF Advance, shares, process
  <1>6. ASSUME NEW p \in Procs, Open(p) PROVE Distinct' /\ Claims'
    BY <1>3, <1>4, <1>6 DEF Open, RegistryTypeOK
  <1>7. ASSUME NEW p \in Procs, Reconnect(p) PROVE Distinct' /\ Claims'
    <2>1. CASE Mine(p) # {}
      <3>1. tenant_id[Min(Mine(p))] = TenantOf[p]
        BY <2>1, SlotChosen DEF Mine
      <3>2. /\ stage' = [stage EXCEPT ![p] = "name"] /\ tenant_id' = tenant_id
            /\ tenant_idx' = [tenant_idx EXCEPT ![p] = Min(Mine(p))]
        BY <1>7, <2>1 DEF Reconnect
      <3>3. \A q \in Procs : Mine(q)' = Mine(q)
        BY <3>2 DEF Mine
      <3>4. \A q \in Procs \ {p} : /\ Choosing(q)' = Choosing(q)
                                   /\ tenant_idx'[q] = tenant_idx[q]
                                   /\ stage'[q] = stage[q]
        BY <1>3, <3>2 DEF RegistryTypeOK, Choosing
      <3>5. tenant_id'[tenant_idx'[p]] = TenantOf[p]
        BY <1>3, <3>1, <3>2 DEF RegistryTypeOK
      <3>6. ~Choosing(p)'
        BY <3>5 DEF Choosing
      <3> QED
        BY <1>3, <3>2, <3>3, <3>4, <3>5, <3>6 DEF Claims, Distinct
    <2>2. CASE Mine(p) = {}
      BY <1>3, <1>4, <1>7, <2>2 DEF Reconnect, RegistryTypeOK
    <2> QED
      BY <2>1, <2>2
  <1>8. ASSUME NEW p \in Procs, FindEmpty(p) PROVE Distinct' /\ Claims'
    <2>1. CASE EmptySlots # {}
      <3> DEFINE i == Min(EmptySlots)
      <3>1. tenant_id[i] = NoId
        BY <2>1, SlotChosen DEF EmptySlots
      <3>2. /\ stage' = [stage EXCEPT ![p] = "name"] /\ tenant_id' = tenant_id
            /\ tenant_idx' = [tenant_idx EXCEPT ![p] = i] /\ stage[p] = "empty"
            /\ Mine(p) = {} /\ \A q \in Procs : ~Clash(q, TenantOf[p], i)
        BY <1>8, <2>1 DEF FindEmpty
      <3> HIDE DEF i
      <3>3. \A q \in Procs : Mine(q)' = Mine(q)
        BY <3>2 DEF Mine
      <3>4. \A q \in Procs \ {p} : /\ Choosing(q)' = Choosing(q)
                                   /\ tenant_idx'[q] = tenant_idx[q]
                                   /\ stage'[q] = stage[q]
        BY <1>3, <3>2 DEF RegistryTypeOK, Choosing
      <3>5. tenant_idx'[p] = i /\ tenant_id' = tenant_id
        BY <1>3, <3>2 DEF RegistryTypeOK
      <3>6. \A q \in Procs \ {p} : Choosing(q) =>
                (tenant_idx[q] = i <=> TenantOf[q] = TenantOf[p])
        BY <3>2 DEF Clash
      <3> QED
        BY <1>3, <3>1, <3>2, <3>3, <3>4, <3>5, <3>6 DEF Claims, Distinct
    <2>2. CASE EmptySlots = {}
      BY <1>3, <1>4, <1>8, <2>2 DEF FindEmpty, RegistryTypeOK
    <2> QED
      BY <2>1, <2>2
  <1>9. ASSUME NEW p \in Procs, WriteId(p) PROVE Distinct' /\ Claims'
    <2>1. /\ tenant_idx[p] \in Slots /\ stage[p] = "name"
          /\ tenant_id' = [tenant_id EXCEPT ![tenant_idx[p]] = TenantOf[p]]
          /\ stage' = [stage EXCEPT ![p] = "check"] /\ tenant_idx' = tenant_idx
      BY <1>3, <1>9 DEF WriteId, HasSlot
    <2>2. CASE Choosing(p)
      <3>1. \A q \in Procs : stage'[q] = "name" => stage[q] = "name"
        BY <1>3, <2>1 DEF RegistryTypeOK
      <3>2. \A q \in Procs : Choosing(q) =>
                (tenant_idx[q] = tenant_idx[p] <=> TenantOf[q] = TenantOf[p])
        BY <1>3, <2>2 DEF Claims
      <3>3. tenant_id[tenant_idx[p]] = TenantOf[p] \/
                (tenant_id[tenant_idx[p]] = NoId /\ Mine(p) = {})
        BY <1>3, <2>1 DEF Claims
      <3> DEFINE i == tenant_idx[p]
      <3> HIDE DEF i
      <3>4. /\ i \in Slots /\ tenant_id' = [tenant_id EXCEPT ![i] = TenantOf[p]]
            /\ tenant_id[i] = TenantOf[p] \/ (tenant_id[i] = NoId /\ Mine(p) = {})
            /\ \A q \in Procs : Choosing(q) =>
                   (tenant_idx[q] = i <=> TenantOf[q] = TenantOf[p])
        BY <2>1, <3>2, <3>3 DEF i
      <3> QED
        BY <1>1, <1>3, <2>1, <3>1, <3>4, IdWritten
    <2>3. CASE ~Choosing(p)
      <3>1. tenant_id[tenant_idx[p]] = TenantOf[p]
        BY <1>3, <2>1, <2>3 DEF Claims, Choosing
      <3>2. tenant_id' = tenant_id
        BY <1>3, <2>1, <3>1 DEF RegistryTypeOK
      <3> QED
        BY <1>3, <1>4, <2>1, <3>2 DEF RegistryTypeOK
    <2> QED
      BY <2>2, <2>3
  <1>10. ASSUME NEW p \in Procs, CheckAlloc(p) PROVE Distinct' /\ Claims'
    BY <1>3, <1>4, <1>10 DEF CheckAlloc, RegistryTypeOK
  <1>11. ASSUME NEW p \in Procs, FillAlloc(p) PROVE Distinct' /\ Claims'
    BY <1>3, <1>4, <1>11 DEF FillAlloc, RegistryTypeOK
  <1>12. ASSUME NEW p \in Procs, FillMem(p) PROVE Distinct' /\ Claims'
    BY <1>3, <1>4, <1>12 DEF FillMem, RegistryTypeOK
  <1>13. ASSUME NEW p \in Procs, AddTotal(p) PROVE Distinct' /\ Claims'
    BY <1>3, <1>4, <1>13 DEF AddTotal, RegistryTypeOK
  <1>14. ASSUME NEW p \in Procs, AddMemTotal(p) PROVE Distinct' /\ Claims'
    BY <1>3, <1>4, <1>14 DEF AddMemTotal, RegistryTypeOK
  <1>15. ASSUME NEW p \in Procs, Activate(p) PROVE Distinct' /\ Claims'
    BY <1>3, <1>4, <1>15 DEF Activate, RegistryTypeOK
  <1>16. ASSUME NEW p \in Procs, Close(p) \/ Crash(p) PROVE Distinct' /\ Claims'
    BY <1>5, <1>16 DEF Close, Crash
  <1>17. ASSUME NEW p \in Procs, Register(p) PROVE Distinct' /\ Claims'
    <2>1. PICK i \in Slots :
              /\ tenant_id[i] = TenantOf[p] \/ (tenant_id[i] = NoId /\ Mine(p) = {})
              /\ tenant_id' = [tenant_id EXCEPT ![i] = TenantOf[p]]
              /\ \A q \in Procs : ~Clash(q, TenantOf[p], i)
              /\ UNCHANGED process
      BY <1>17, SlotRegistered
    <2>2. \A q \in Procs : Choosing(q) => (tenant_idx[q] = i <=> TenantOf[q] = TenantOf[p])
      BY <2>1 DEF Clash
    <2> QED
      BY <1>1, <1>3, <2>1, <2>2, IdWritten
  <1>18. CASE UNCHANGED RegistryVars
    BY <1>4, <1>18 DEF RegistryVars
  <1> QED
    BY <1>6, <1>7, <1>8, <1>9, <1>10, <1>11, <1>12, <1>13, <1>14, <1>15, <1>16, <1>17,
       <1>18 DEF RegistryNext, RegistryStep

LEMMA SlotInit == ASSUME RegistryInit PROVE SlotInv /\ ShareInv
  <1> USE SlotConstants DEF RegistryInit
  <1>1. RegistryTypeOK
    <2>1. opens \in 0 .. MaxOpens
      OBVIOUS
    <2>2. raced \in BOOLEAN /\ active \in [Slots -> BOOLEAN]
      OBVIOUS
    <2> QED
      BY <2>1, <2>2 DEF RegistryTypeOK, NoSlot, Filling
  <1>h. HasSlot
    BY DEF HasSlot, Filling
  <1>2. Distinct /\ Claims /\ Fills /\ Pairs
    BY DEF Distinct, Claims, Choosing, Fills, Pairs
  <1>3. Total(virtual_sm) = 0 /\ Total(virtual_mem_mb) = 0
    BY TotalOfNothing
  <1>4. OwedSm = [p \in Procs |-> 0] /\ OwedMem = [p \in Procs |-> 0]
    BY DEF OwedSm, OwedMem
  <1>5. Total(OwedSm) = 0 /\ Total(OwedMem) = 0
    BY <1>4, TotalOfNothing
  <1>6. Accounts
    BY <1>3, <1>5 DEF Accounts
  <1> QED
    BY <1>1, <1>h, <1>2, <1>6 DEF SlotInv, ShareInv

\* No step replaces an id, unless two writers clash or have clashed.
LEMMA IdKept ==
    ASSUME SlotInv, [RegistryNext]_RegistryVars, ~raced,
           NEW i \in Slots, tenant_id[i] # NoId
    PROVE  tenant_id'[i] = tenant_id[i]
  <1>0. RegistryTypeOK /\ HasSlot /\ Claims
    BY DEF SlotInv
  <1>1. ASSUME NEW p \in Procs, WriteId(p) PROVE tenant_id'[i] = tenant_id[i]
    <2>1. /\ tenant_idx[p] \in Slots
          /\ tenant_id[tenant_idx[p]] \in {TenantOf[p], NoId}
          /\ tenant_id' = [tenant_id EXCEPT ![tenant_idx[p]] = TenantOf[p]]
      BY <1>0, <1>1 DEF WriteId, Advance, HasSlot, Claims
    <2> QED
      BY <1>0, <2>1 DEF RegistryTypeOK
  <1>2. ASSUME NEW p \in Procs, Register(p) PROVE tenant_id'[i] = tenant_id[i]
    <2>1. PICK j \in Slots : /\ tenant_id[j] \in {TenantOf[p], NoId}
                             /\ tenant_id' = [tenant_id EXCEPT ![j] = TenantOf[p]]
      BY <1>2, SlotRegistered
    <2> QED
      BY <1>0, <2>1 DEF RegistryTypeOK
  <1>3. ASSUME tenant_id' = tenant_id PROVE tenant_id'[i] = tenant_id[i]
    BY <1>3
  <1> QED
    BY <1>1, <1>2, <1>3
       DEF RegistryNext, RegistryStep, RegistryVars, Open, Reconnect, FindEmpty,
           CheckAlloc, FillAlloc, FillMem, AddTotal, AddMemTotal, Activate, Close, Crash

\* A tenant keeps its slot over restarts and crashes of any number of processes,
\* whenever they start and whatever the controller fills meanwhile, until two of
\* them have chosen at odds with each other: kraken_shm_open finds the slot by its
\* id, never takes another tenant's, and never leaves the id in two slots.
THEOREM TenantKeepsSlot == RegistrySpec => SlotKept
  <1>1. RegistryInit => SlotInv
    BY SlotInit
  <1>2. SlotInv /\ [RegistryNext]_RegistryVars => SlotInv'
    BY SlotInductive
  <1>3. SlotInv /\ SlotInv' /\ [RegistryNext]_RegistryVars =>
            [~raced' =>
                 \A i \in Slots : tenant_id[i] # NoId =>
                     /\ tenant_id'[i] = tenant_id[i]
                     /\ \A j \in Slots : tenant_id'[j] = tenant_id[i] => j = i]_RegistryVars
    <2> SUFFICES ASSUME SlotInv, SlotInv', [RegistryNext]_RegistryVars, ~raced',
                        NEW i \in Slots, tenant_id[i] # NoId
                 PROVE  /\ tenant_id'[i] = tenant_id[i]
                        /\ \A j \in Slots : tenant_id'[j] = tenant_id[i] => j = i
      OBVIOUS
    <2>0. ~raced
      BY RacedStays
    <2>1. tenant_id'[i] = tenant_id[i]
      BY <2>0, IdKept
    <2>2. Distinct' /\ Slots' = Slots
      BY DEF SlotInv, Slots
    <2> QED
      BY <2>1, <2>2 DEF Distinct
  <1> QED
    BY <1>1, <1>2, <1>3, PTL DEF RegistrySpec, SlotKept

\* What is owed changes with the stage of the process that takes a step.
LEMMA OwedAfter ==
    ASSUME NEW p \in Procs, \A q \in Procs \ {p} : stage'[q] = stage[q]
    PROVE  /\ Total(OwedSm') = Total(OwedSm)
                - (IF stage[p] \in {"fill_mem", "total"} THEN VirtualSM[p] ELSE 0)
                + (IF stage'[p] \in {"fill_mem", "total"} THEN VirtualSM[p] ELSE 0)
           /\ Total(OwedMem') = Total(OwedMem)
                - (IF stage[p] \in {"total", "mem_total"} THEN VirtualMem[p] ELSE 0)
                + (IF stage'[p] \in {"total", "mem_total"} THEN VirtualMem[p] ELSE 0)
  <1> DEFINE k == IF stage'[p] \in {"fill_mem", "total"} THEN VirtualSM[p] ELSE 0
             m == IF stage'[p] \in {"total", "mem_total"} THEN VirtualMem[p] ELSE 0
  <1>1. /\ k \in Nat /\ m \in Nat
        /\ OwedSm \in [Procs -> Nat] /\ OwedMem \in [Procs -> Nat]
    BY SlotConstants DEF OwedSm, OwedMem
  <1>2. OwedSm' = [OwedSm EXCEPT ![p] = k] /\ OwedMem' = [OwedMem EXCEPT ![p] = m]
    BY DEF OwedSm, OwedMem
  <1>3. /\ OwedSm[p] = (IF stage[p] \in {"fill_mem", "total"} THEN VirtualSM[p] ELSE 0)
        /\ OwedMem[p] = (IF stage[p] \in {"total", "mem_total"} THEN VirtualMem[p] ELSE 0)
    BY DEF OwedSm, OwedMem
  <1> HIDE DEF k, m
  <1>f. IsFiniteSet(Procs)
    BY SlotConstants
  <1>4. Total([OwedSm EXCEPT ![p] = k]) = Total(OwedSm) - OwedSm[p] + k
    BY <1>1, <1>f, TotalExcept
  <1>5. Total([OwedMem EXCEPT ![p] = m]) = Total(OwedMem) - OwedMem[p] + m
    BY <1>1, <1>f, TotalExcept
  <1> QED
    BY <1>2, <1>3, <1>4, <1>5 DEF k, m

LEMMA OwedNumbers ==
    ASSUME RegistryTypeOK
    PROVE  /\ Total(OwedSm) \in Nat /\ Total(OwedMem) \in Nat
           /\ Total(virtual_sm) \in Nat /\ Total(virtual_mem_mb) \in Nat
           /\ virtual_sm_total \in Nat /\ virtual_mem_total \in Nat
  <1>1. OwedSm \in [Procs -> Nat] /\ OwedMem \in [Procs -> Nat]
    BY SlotConstants DEF OwedSm, OwedMem
  <1> QED
    BY <1>1, SlotConstants, TotalIsNatural DEF RegistryTypeOK

\* A share is added to its total once, after it has been stored in its slot.
LEMMA ShareInductive ==
    ASSUME RegistryTypeOK, HasSlot, ShareInv, [RegistryNext]_RegistryVars
    PROVE  ShareInv'
  <1> SUFFICES ASSUME ~raced' PROVE Fills' /\ Pairs' /\ Accounts'
    BY DEF ShareInv
  <1>1. ~raced /\ Fills /\ Pairs /\ Accounts
    BY RacedStays DEF ShareInv
  <1>2. /\ stage = [q \in Procs |-> stage[q]] /\ tenant_idx \in [Procs -> Slots \cup {NoSlot}]
        /\ virtual_sm \in [Slots -> Nat] /\ virtual_mem_mb \in [Slots -> Nat]
        /\ Slots' = Slots
    BY DEF RegistryTypeOK, Filling, Slots
  <1>f. /\ IsFiniteSet(Slots)
        /\ virtual_sm \in [Slots -> Nat] /\ virtual_mem_mb \in [Slots -> Nat]
    BY <1>2, SlotConstants
  <1>sm. ASSUME NEW i \in Slots, NEW k \in Nat
         PROVE  Total([virtual_sm EXCEPT ![i] = k]) = Total(virtual_sm) - virtual_sm[i] + k
    BY <1>f, TotalExcept
  <1>mem. ASSUME NEW i \in Slots, NEW k \in Nat
          PROVE  Total([virtual_mem_mb EXCEPT ![i] = k]) =
                     Total(virtual_mem_mb) - virtual_mem_mb[i] + k
    BY <1>f, TotalExcept
  <1>3. ASSUME NEW p \in Procs, NEW to, stage' = [stage EXCEPT ![p] = to],
               to \notin Filling, stage[p] \notin Filling \ {"fill"},
               \A q \in Procs \ {p} : tenant_idx'[q] = tenant_idx[q],
               UNCHANGED <<shares, cut>>
        PROVE  Fills' /\ Pairs' /\ Accounts'
    <2>1. \A q \in Procs : stage'[q] = IF q = p THEN to ELSE stage[q]
      BY <1>2, <1>3
    <2>2. UNCHANGED <<virtual_sm, virtual_mem_mb, virtual_sm_total, virtual_mem_total, cut>>
      BY <1>3 DEF shares
    <2>3. Fills'
      BY <1>1, <1>3, <2>1, <2>2 DEF Fills, Filling, HasEnv
    <2>4. Pairs'
      BY <1>1, <1>2, <1>3, <2>1, <2>2 DEF Pairs, Filling
    <2>5. Total(OwedSm') = Total(OwedSm) /\ Total(OwedMem') = Total(OwedMem)
      BY <1>3, <2>1, OwedAfter, OwedNumbers DEF Filling
    <2>6. Accounts'
      BY <1>1, <2>2, <2>5 DEF Accounts
    <2> QED
      BY <2>3, <2>4, <2>6
  <1> USE SlotConstants DEF Advance
  <1>4. ASSUME NEW p \in Procs, Open(p) \/ Reconnect(p) \/ FindEmpty(p) \/ WriteId(p)
                                \/ Activate(p) \/ Close(p)
        PROVE  Fills' /\ Pairs' /\ Accounts'
    <2>1. \E to \in {"out", "reconnect", "empty", "name", "check", "attached"} :
              stage' = [stage EXCEPT ![p] = to]
      BY <1>4 DEF Open, Reconnect, FindEmpty, WriteId, Activate, Close
    <2>2. /\ stage[p] \notin Filling /\ UNCHANGED <<shares, cut>>
          /\ \A q \in Procs \ {p} : tenant_idx'[q] = tenant_idx[q]
      BY <1>2, <1>4 DEF Open, Reconnect, FindEmpty, WriteId, Activate, Close, Filling
    <2> QED
      BY <1>3, <2>1, <2>2 DEF Filling
  <1>5. ASSUME NEW p \in Procs, CheckAlloc(p) PROVE Fills' /\ Pairs' /\ Accounts'
    <2>1. CASE stage' = [stage EXCEPT ![p] = "activate"]
      <3>1. /\ stage[p] \notin Filling /\ UNCHANGED <<shares, cut>>
            /\ \A q \in Procs \ {p} : tenant_idx'[q] = tenant_idx[q]
        BY <1>5 DEF CheckAlloc, Filling
      <3> QED
        BY <1>3, <2>1, <3>1 DEF Filling
    <2>2. CASE stage' # [stage EXCEPT ![p] = "activate"]
      <3>1. /\ stage[p] = "check" /\ stage' = [stage EXCEPT ![p] = "fill"]
            /\ virtual_sm[tenant_idx[p]] = 0 /\ HasEnv(p)
            /\ raced' = (raced \/ AboutToFill(tenant_idx[p]))
            /\ UNCHANGED <<shares, cut, tenant_idx>>
        BY <1>5, <2>2 DEF CheckAlloc
      <3>2. \A q \in Procs : stage[q] = "fill" => tenant_idx[q] # tenant_idx[p]
        BY <3>1 DEF AboutToFill
      <3>3. /\ \A q \in Procs : stage'[q] = IF q = p THEN "fill" ELSE stage[q]
            /\ UNCHANGED <<virtual_sm, virtual_mem_mb, virtual_sm_total,
                           virtual_mem_total, cut, tenant_idx>>
        BY <1>2, <3>1 DEF shares
      <3>4. tenant_idx[p] \in Slots
        BY <3>1 DEF HasSlot
      <3>5. \A q \in Procs : stage[q] \in {"fill", "fill_mem"} => tenant_idx[q] # tenant_idx[p]
        BY <1>1, <1>2, <3>1, <3>2, <3>4 DEF Fills
      <3>6. Fills'
        BY <1>1, <3>1, <3>3, <3>5 DEF Fills, HasEnv
      <3>7. Pairs'
        BY <1>1, <1>2, <3>1, <3>3 DEF Pairs
      <3>8. Total(OwedSm') = Total(OwedSm) /\ Total(OwedMem') = Total(OwedMem)
        BY <3>1, <3>3, OwedAfter, OwedNumbers
      <3>9. Accounts'
        BY <1>1, <3>3, <3>8 DEF Accounts
      <3> QED
        BY <3>6, <3>7, <3>9
    <2> QED
      BY <2>1, <2>2
  <1>6. ASSUME NEW p \in Procs, FillAlloc(p) PROVE Fills' /\ Pairs' /\ Accounts'
    <2> DEFINE i == tenant_idx[p]
    <2>1. /\ i \in Slots /\ virtual_sm[i] = 0 /\ virtual_mem_mb[i] = 0 /\ HasEnv(p)
          /\ virtual_sm' = [virtual_sm EXCEPT ![i] = VirtualSM[p]]
          /\ stage[p] = "fill" /\ stage' = [stage EXCEPT ![p] = "fill_mem"]
          /\ UNCHANGED <<virtual_mem_mb, virtual_sm_total, virtual_mem_total, tenant_idx, cut>>
      BY <1>1, <1>6 DEF FillAlloc, HasSlot, Fills, Pairs, Filling
    <2>2. \A q \in Procs \ {p} : stage[q] \in {"fill", "fill_mem"} => tenant_idx[q] # i
      BY <1>1, <2>1 DEF Fills
    <2>a. i = tenant_idx[p]
      OBVIOUS
    <2> HIDE DEF i
    <2>3. /\ \A q \in Procs : stage'[q] = IF q = p THEN "fill_mem" ELSE stage[q]
          /\ \A j \in Slots : virtual_sm'[j] = IF j = i THEN VirtualSM[p] ELSE virtual_sm[j]
      BY <1>2, <2>1
    <2>4. VirtualSM[p] > 0
      BY <2>1 DEF HasEnv
    <2>5. \A q \in Procs : stage[q] \in Filling => tenant_idx[q] \in Slots
      BY DEF HasSlot
    <2>6. Fills'
      BY <1>1, <2>1, <2>2, <2>3, <2>4, <2>5, <2>a DEF Fills, HasEnv, Filling
    <2>7. Pairs'
      BY <1>1, <1>2, <2>1, <2>3, <2>4, <2>a DEF Pairs
    <2>8. /\ Total(OwedSm') = Total(OwedSm) + VirtualSM[p]
          /\ Total(OwedMem') = Total(OwedMem)
      BY <2>1, <2>3, OwedAfter, OwedNumbers
    <2>9. Total(virtual_sm') = Total(virtual_sm) - 0 + VirtualSM[p]
      BY <1>sm, <2>1
    <2>10. Accounts'
      BY <1>1, <2>1, <2>8, <2>9, OwedNumbers DEF Accounts
    <2> QED
      BY <2>6, <2>7, <2>10
  <1>7. ASSUME NEW p \in Procs, FillMem(p) PROVE Fills' /\ Pairs' /\ Accounts'
    <2> DEFINE i == tenant_idx[p]
    <2>1. /\ i \in Slots /\ virtual_sm[i] > 0 /\ virtual_mem_mb[i] = 0 /\ HasEnv(p)
          /\ virtual_mem_mb' = [virtual_mem_mb EXCEPT ![i] = VirtualMem[p]]
          /\ stage[p] = "fill_mem" /\ stage' = [stage EXCEPT ![p] = "total"]
          /\ UNCHANGED <<virtual_sm, virtual_sm_total, virtual_mem_total, tenant_idx, cut>>
      BY <1>1, <1>7 DEF FillMem, HasSlot, Fills, Filling
    <2>2. \A q \in Procs \ {p} : stage[q] \in {"fill", "fill_mem"} => tenant_idx[q] # i
      BY <1>1, <2>1 DEF Fills
    <2>a. i = tenant_idx[p]
      OBVIOUS
    <2> HIDE DEF i
    <2>3. /\ \A q \in Procs : stage'[q] = IF q = p THEN "total" ELSE stage[q]
          /\ \A j \in Slots :
                 virtual_mem_mb'[j] = IF j = i THEN VirtualMem[p] ELSE virtual_mem_mb[j]
      BY <1>2, <2>1
    <2>4. VirtualMem[p] > 0
      BY <2>1 DEF HasEnv
    <2>5. \A q \in Procs : stage[q] \in Filling => tenant_idx[q] \in Slots
      BY DEF HasSlot
    <2>6. Fills'
      BY <1>1, <2>1, <2>2, <2>3, <2>5 DEF Fills, HasEnv, Filling
    <2>7. Pairs'
      BY <1>1, <1>2, <2>1, <2>3, <2>4, <2>a DEF Pairs
    <2>8. /\ Total(OwedSm') = Total(OwedSm)
          /\ Total(OwedMem') = Total(OwedMem) + VirtualMem[p]
      BY <2>1, <2>3, OwedAfter, OwedNumbers
    <2>9. Total(virtual_mem_mb') = Total(virtual_mem_mb) - 0 + VirtualMem[p]
      BY <1>mem, <2>1
    <2>10. Accounts'
      BY <1>1, <2>1, <2>8, <2>9, OwedNumbers DEF Accounts
    <2> QED
      BY <2>6, <2>7, <2>10
  <1>8. ASSUME NEW p \in Procs, AddTotal(p) \/ AddMemTotal(p)
        PROVE  Fills' /\ Pairs' /\ Accounts'
    <2>1. /\ stage[p] \in {"total", "mem_total"}
          /\ UNCHANGED <<virtual_sm, virtual_mem_mb, tenant_idx, cut>>
          /\ \E to \in {"mem_total", "activate"} : stage' = [stage EXCEPT ![p] = to]
      BY <1>8 DEF AddTotal, AddMemTotal
    <2>2. \A q \in Procs : /\ q # p => stage'[q] = stage[q]
                           /\ stage'[p] \in {"mem_total", "activate"}
      BY <1>2, <2>1
    <2>3. Fills'
      BY <1>1, <2>1, <2>2 DEF Fills, HasEnv
    <2>4. Pairs'
      BY <1>1, <1>2, <2>1, <2>2 DEF Pairs
    <2>5. CASE AddTotal(p)
      <3>1. /\ virtual_sm_total' = virtual_sm_total + VirtualSM[p]
            /\ virtual_mem_total' = virtual_mem_total
            /\ stage[p] = "total"
            /\ \A q \in Procs : stage'[q] = IF q = p THEN "mem_total" ELSE stage[q]
        BY <1>2, <2>5 DEF AddTotal
      <3>v. VirtualSM[p] \in Nat /\ VirtualMem[p] \in Nat /\ stage'[p] = "mem_total"
        BY <3>1
      <3>a. /\ Total(OwedSm') = Total(OwedSm) - VirtualSM[p] + 0
            /\ Total(OwedMem') = Total(OwedMem) - VirtualMem[p] + VirtualMem[p]
        BY <3>1, <3>v, OwedAfter
      <3>2. /\ Total(OwedSm') = Total(OwedSm) - VirtualSM[p]
            /\ Total(OwedMem') = Total(OwedMem)
        BY <3>v, <3>a, OwedNumbers
      <3> QED
        BY <1>1, <2>1, <2>3, <2>4, <3>1, <3>2, OwedNumbers DEF Accounts
    <2>6. CASE AddMemTotal(p)
      <3>1. /\ virtual_mem_total' = virtual_mem_total + VirtualMem[p]
            /\ virtual_sm_total' = virtual_sm_total
            /\ stage[p] = "mem_total"
            /\ \A q \in Procs : stage'[q] = IF q = p THEN "activate" ELSE stage[q]
        BY <1>2, <2>6 DEF AddMemTotal
      <3>2. /\ Total(OwedSm') = Total(OwedSm)
            /\ Total(OwedMem') = Total(OwedMem) - VirtualMem[p]
        BY <3>1, OwedAfter, OwedNumbers
      <3> QED
        BY <1>1, <2>1, <2>3, <2>4, <3>1, <3>2, OwedNumbers DEF Accounts
    <2> QED
      BY <1>8, <2>5, <2>6
  <1>9. ASSUME NEW p \in Procs, Crash(p) PROVE Fills' /\ Pairs' /\ Accounts'
    <2>1. /\ stage' = [stage EXCEPT ![p] = "out"]
          /\ \A q \in Procs \ {p} : tenant_idx'[q] = tenant_idx[q]
          /\ UNCHANGED <<virtual_sm, virtual_mem_mb, virtual_sm_total, virtual_mem_total>>
          /\ cut' = cut \cup (IF stage[p] \in Filling \ {"fill"} THEN {tenant_idx[p]} ELSE {})
      BY <1>2, <1>9 DEF Crash, shares
    <2>2. CASE stage[p] \notin Filling \ {"fill"}
      <3>1. UNCHANGED <<shares, cut>>
        BY <2>1, <2>2 DEF shares
      <3> QED
        BY <1>3, <2>1, <2>2, <3>1 DEF Filling
    <2>3. CASE stage[p] \in Filling \ {"fill"}
      <3>1. cut' = cut \cup {tenant_idx[p]} /\ cut' # {}
        BY <2>1, <2>3
      <3>2. \A q \in Procs : stage'[q] = IF q = p THEN "out" ELSE stage[q]
        BY <1>2, <2>1
      <3>3. Fills'
        BY <1>1, <2>1, <3>2 DEF Fills, HasEnv
      <3>4. Pairs'
        BY <1>1, <1>2, <2>1, <3>1, <3>2 DEF Pairs
      <3>5. Total(OwedSm') <= Total(OwedSm) /\ Total(OwedMem') <= Total(OwedMem)
        BY <3>2, OwedAfter, OwedNumbers
      <3>6. Total(OwedSm') \in Int /\ Total(OwedMem') \in Int
        BY <3>2, OwedAfter, OwedNumbers
      <3> QED
        BY <1>1, <2>1, <3>1, <3>3, <3>4, <3>5, <3>6, OwedNumbers DEF Accounts
    <2> QED
      BY <2>2, <2>3
  <1>10. ASSUME NEW p \in Procs, Register(p) PROVE Fills' /\ Pairs' /\ Accounts'
    <2>1. PICK i \in Slots :
              /\ virtual_sm[i] = 0 /\ HasEnv(p)
              /\ virtual_sm' = [virtual_sm EXCEPT ![i] = VirtualSM[p]]
              /\ virtual_mem_mb' = [virtual_mem_mb EXCEPT ![i] = VirtualMem[p]]
              /\ virtual_sm_total' = virtual_sm_total + VirtualSM[p]
              /\ virtual_mem_total' = virtual_mem_total + VirtualMem[p]
              /\ ~AboutToFill(i) /\ UNCHANGED <<stage, tenant_idx, cut>>
      BY <1>10, SlotRegistered DEF process
    <2>2. /\ virtual_mem_mb[i] = 0
          /\ \A q \in Procs : stage[q] \in {"fill", "fill_mem"} => tenant_idx[q] # i
      BY <1>1, <2>1 DEF Pairs, Fills, AboutToFill
    <2>3. \A j \in Slots :
              /\ virtual_sm'[j] = IF j = i THEN VirtualSM[p] ELSE virtual_sm[j]
              /\ virtual_mem_mb'[j] = IF j = i THEN VirtualMem[p] ELSE virtual_mem_mb[j]
      BY <1>2, <2>1
    <2>4. \A q \in Procs : stage[q] \in Filling => tenant_idx[q] \in Slots
      BY DEF HasSlot
    <2>5. Fills'
      BY <1>1, <2>1, <2>2, <2>3, <2>4 DEF Fills, HasEnv, Filling
    <2>6. Pairs'
      BY <1>1, <1>2, <2>1, <2>3 DEF Pairs, HasEnv
    <2>7. OwedSm' = OwedSm /\ OwedMem' = OwedMem
      BY <2>1 DEF OwedSm, OwedMem
    <2>v. VirtualSM[p] \in Nat /\ VirtualMem[p] \in Nat
      OBVIOUS
    <2>8. Total(virtual_sm') = Total(virtual_sm) - 0 + VirtualSM[p]
      BY <1>sm, <2>v, <2>1
    <2>m. Total(virtual_mem_mb') = Total(virtual_mem_mb) - 0 + VirtualMem[p]
      BY <1>mem, <2>v, <2>1, <2>2
    <2>u. cut' = cut
      BY <2>1
    <2>t. /\ virtual_sm_total' = virtual_sm_total + VirtualSM[p]
          /\ virtual_mem_total' = virtual_mem_total + VirtualMem[p]
      BY <2>1
    <2>o. Total(OwedSm') = Total(OwedSm) /\ Total(OwedMem') = Total(OwedMem)
      BY <2>7
    <2>a. /\ virtual_sm_total' + Total(OwedSm') <= Total(virtual_sm')
          /\ cut = {} => virtual_sm_total' + Total(OwedSm') = Total(virtual_sm')
      BY <1>1, <2>v, <2>t, <2>o, <2>8, OwedNumbers DEF Accounts
    <2>b. /\ virtual_mem_total' + Total(OwedMem') <= Total(virtual_mem_mb')
          /\ cut = {} => virtual_mem_total' + Total(OwedMem') = Total(virtual_mem_mb')
      BY <1>1, <2>v, <2>t, <2>o, <2>m, OwedNumbers DEF Accounts
    <2>9. Accounts'
      BY <2>u, <2>a, <2>b DEF Accounts
    <2> QED
      BY <2>5, <2>6, <2>9
  <1>11. CASE UNCHANGED RegistryVars
    <2>1. UNCHANGED <<virtual_sm, virtual_mem_mb, virtual_sm_total, virtual_mem_total,
                      stage, tenant_idx, cut>>
      BY <1>11 DEF RegistryVars, shares, process
    <2>2. OwedSm' = OwedSm /\ OwedMem' = OwedMem
      BY <2>1 DEF OwedSm, OwedMem
    <2> QED
      BY <1>1, <1>2, <2>1, <2>2 DEF Fills, HasEnv, Pairs, Accounts
  <1> QED
    BY <1>4, <1>5, <1>6, <1>7, <1>8, <1>9, <1>10, <1>11 DEF RegistryNext, RegistryStep

\* The slot table accounts for every share, whoever starts, dies or registers when,
\* until two writers have clashed: no share is added to a total twice, one that is
\* stored comes with a memory quota and is in both totals once its process has
\* passed kraken_shm_open, and only a process killed there leaves a gap.
THEOREM RegistryCorrect == RegistrySpec => []RegistryInv
  <1>1. RegistryInit => SlotInv /\ ShareInv
    BY SlotInit
  <1>2. SlotInv /\ [RegistryNext]_RegistryVars => SlotInv'
    BY SlotInductive
  <1>3. SlotInv /\ ShareInv /\ [RegistryNext]_RegistryVars => ShareInv'
    BY ShareInductive DEF SlotInv
  <1>4. SlotInv /\ ShareInv => RegistryInv
    <2> SUFFICES ASSUME SlotInv, ShareInv, ~raced
                 PROVE  TotalsNotInflated /\ QuotasComplete /\ TotalsExact
      BY DEF SlotInv, RegistryInv
    <2>1. RegistryTypeOK /\ HasSlot /\ Fills /\ Pairs /\ Accounts
      BY DEF SlotInv, ShareInv
    <2>2. TotalsNotInflated
      BY <2>1, OwedNumbers DEF Accounts, TotalsNotInflated
    <2>3. QuotasComplete
      BY <2>1 DEF QuotasComplete, Settled, Pairs, Filling, RegistryTypeOK
    <2>4. ASSUME \A i \in Slots : Settled(i)
          PROVE  /\ virtual_sm_total = Total(virtual_sm)
                 /\ virtual_mem_total = Total(virtual_mem_mb)
      <3>1. cut = {}
        BY <2>1, <2>4 DEF Settled, RegistryTypeOK
      <3>2. \A p \in Procs : stage[p] \notin Filling
        BY <2>1, <2>4 DEF Settled, HasSlot
      <3>3. OwedSm = [p \in Procs |-> 0] /\ OwedMem = [p \in Procs |-> 0]
        BY <3>2 DEF OwedSm, OwedMem, Filling
      <3>4. Total(OwedSm) = 0 /\ Total(OwedMem) = 0
        BY <3>3, SlotConstants, TotalOfNothing
      <3> QED
        BY <2>1, <3>1, <3>4, OwedNumbers DEF Accounts
    <2> QED
      BY <2>2, <2>3, <2>4 DEF TotalsExact
  <1> QED
    BY <1>1, <1>2, <1>3, <1>4, PTL DEF RegistrySpec

-----------------------------------------------------------------------------
(* MemTrack: the statistics of libbless are exact, its quota nearly so *)

\* The places at which a thread works on a pointer.
AtPointer == {"insert", "add", "peak", "erase", "sub", "free"}

\* A thread has the pointer it works on for itself.
Owners ==
    \A t \in Threads :
        /\ pc[t] \in AtPointer => ptr[t] \in Ptrs /\ live[ptr[t]] > 0
        /\ pc[t] \notin AtPointer => ptr[t] = NoPtr
        /\ pc[t] = "malloc" => bytes[t] > 0
        /\ \A u \in Threads : ptr[t] = ptr[u] /\ ptr[t] # NoPtr => t = u

\* Its local size is the driver's.
SizesKnown ==
    \A t \in Threads :
        pc[t] \in {"insert", "add", "sub", "free"} => bytes[t] = live[ptr[t]]

\* The map has every pointer in use but those a thread is about to enter, and
\* those it has taken out to free them.
NotInMap(p) ==
    \E t \in Threads : ptr[t] = p /\ pc[t] \in {"insert", "sub", "free"}

MapExact ==
    \A p \in Ptrs : alloc_size_map[p] = IF NotInMap(p) THEN 0 ELSE live[p]

\* Bytes the driver holds that are not in mem_current_bytes: not yet, or not any
\* more.
Missing(place, n) == IF place \in {"insert", "add", "free"} THEN n ELSE 0
Uncounted == [t \in Threads |-> Missing(pc[t], bytes[t])]

\* The peak is the highest usage, or a thread that saw it is about to raise it.
PeakComing ==
    /\ mem_peak_bytes <= highest
    /\ \A t \in Threads : pc[t] = "peak" => seen[t] <= highest
    /\ \/ mem_peak_bytes = highest
       \/ \E t \in Threads : pc[t] = "peak" /\ seen[t] = highest

\* Bytes a thread has been admitted with that are not in mem_current_bytes.
Pending(place, n) == IF place \in {"malloc", "insert", "add", "free"} THEN n ELSE 0
Admission == [t \in Threads |-> Pending(pc[t], bytes[t])]

\* The most by which the quota may be exceeded: check_quota and the allocation it
\* admits are not atomic.
Margin == (Cardinality(Threads) - 1) * Max(Sizes)

\* The books, as long as nobody has spoiled them; the last two lines tell the
\* provers that the terms are numbers.
Ledger ==
    /\ mem_tracking_enabled /\ SizesKnown /\ MapExact /\ PeakComing
    /\ Total(live) = mem_current_bytes + Total(Uncounted)
    /\ (early /\ mem_quota_bytes >= 0 =>
            mem_current_bytes + Total(Admission) <= mem_quota_bytes + Margin)
    /\ Margin \in Nat /\ mem_current_bytes \in Int /\ mem_quota_bytes \in Int
    /\ Total(live) \in Nat /\ Total(Uncounted) \in Nat /\ Total(Admission) \in Nat

\* What the assumption on the constants gives.
TrackConstants ==
    /\ IsFiniteSet(Threads) /\ Threads # {} /\ IsFiniteSet(Ptrs)
    /\ Sizes \subseteq Nat \ {0} /\ 0 \notin Sizes
    /\ Max(Sizes) \in Nat /\ \A b \in Sizes : b <= Max(Sizes)
    /\ Quotas \subseteq Int /\ NoPtr \notin Ptrs /\ MaxControls \in Nat
    /\ Cardinality(Threads) \in Nat /\ Cardinality(Threads) >= 1

LEMMA TrackAssumed ==
    TrackConstants
  <1>1. /\ IsFiniteSet(Threads) /\ Threads # {} /\ IsFiniteSet(Ptrs)
        /\ Sizes \subseteq Nat \ {0} /\ \E m \in Sizes : \A b \in Sizes : b <= m
        /\ Quotas \subseteq Int /\ NoPtr \notin Ptrs /\ MaxControls \in Nat
    BY TrackAssumption
  <1>2. Max(Sizes) \in Sizes /\ \A b \in Sizes : Max(Sizes) >= b
    <2>1. \E m \in Sizes : \A b \in Sizes : m >= b
      BY <1>1
    <2> QED
      BY <2>1 DEF Max
  <1>3. Cardinality(Threads) \in Nat /\ Cardinality(Threads) # 0
    BY <1>1, FS_CardinalityType, FS_EmptySet
  <1>4. /\ 0 \notin Sizes /\ Max(Sizes) \in Nat
        /\ \A b \in Sizes : b <= Max(Sizes)
    BY <1>1, <1>2
  <1>5. Cardinality(Threads) >= 1
    BY <1>3
  <1> QED
    BY <1>1, <1>3, <1>4, <1>5 DEF TrackConstants

\* The larger of two numbers.
LEMMA MaxOfTwo ==
    ASSUME NEW a \in Int, NEW b \in Int
    PROVE  /\ Max({a, b}) \in {a, b}
           /\ Max({a, b}) >= a /\ Max({a, b}) >= b
  <1>1. \E x \in {a, b} : \A y \in {a, b} : x >= y
    BY Z3
  <1>2. Max({a, b}) \in {a, b} /\ \A y \in {a, b} : Max({a, b}) >= y
    BY <1>1 DEF Max
  <1> QED
    BY <1>2

-----------------------------------------------------------------------------
(* Types and pointers, whatever the control thread does *)

LEMMA TrackTypeInductive ==
    ASSUME TrackConstants, TrackTypeOK, Owners, [TrackNext]_TrackVars
    PROVE  TrackTypeOK' /\ Owners'
  <1> USE DEF TrackConstants, TrackTypeOK, Owners, AtPointer, Transition, stats,
          ctl, TrackLocals
  <1>1. ASSUME NEW t \in Threads, NEW b \in Sizes, Malloc(t, b)
        PROVE  TrackTypeOK' /\ Owners'
    BY <1>1 DEF Malloc
  <1>2. ASSUME NEW t \in Threads, NEW p \in Ptrs, Free(t, p)
        PROVE  TrackTypeOK' /\ Owners'
    BY <1>2 DEF Free
  <1>3. ASSUME NEW t \in Threads, RealMalloc(t) PROVE TrackTypeOK' /\ Owners'
    <2>1. CASE TrackReturn(t, "malloc") /\ UNCHANGED <<live, alloc_size_map, stats, ctl>>
      BY <2>1 DEF TrackReturn
    <2>2. ASSUME NEW p \in Ptrs, live[p] = 0, live' = [live EXCEPT ![p] = bytes[t]],
                 TrackReturn(t, "malloc"), UNCHANGED <<alloc_size_map, stats, ctl>>
          PROVE  TrackTypeOK' /\ Owners'
      BY <2>2 DEF TrackReturn
    <2>3. ASSUME NEW p \in Ptrs, live[p] = 0, live' = [live EXCEPT ![p] = bytes[t]],
                 pc[t] = "malloc", pc' = [pc EXCEPT ![t] = "insert"],
                 ptr' = [ptr EXCEPT ![t] = p],
                 UNCHANGED <<bytes, seen, alloc_size_map, stats, ctl>>
          PROVE  TrackTypeOK' /\ Owners'
      <3>1. TrackTypeOK'
        BY <2>3
      <3>2. \A u \in Threads : ptr[u] # p
        BY <2>3
      <3>3. bytes[t] > 0
        BY <2>3
      <3>4. ASSUME NEW u \in Threads PROVE ptr'[u] = IF u = t THEN p ELSE ptr[u]
        BY <2>3
      <3>5. Owners'
        BY <2>3, <3>2, <3>3, <3>4
      <3> QED
        BY <3>1, <3>5
    <2> QED
      BY <1>3, <2>1, <2>2, <2>3 DEF RealMalloc
  <1>4. ASSUME NEW t \in Threads, Insert(t) PROVE TrackTypeOK' /\ Owners'
    BY <1>4 DEF Insert
  <1>5. ASSUME NEW t \in Threads, AddCurrent(t) PROVE TrackTypeOK' /\ Owners'
    <2>1. mem_current_bytes' \in Int
      BY <1>5 DEF AddCurrent
    <2>2. highest' \in Int
      BY <1>5, <2>1, MaxOfTwo DEF AddCurrent
    <2>3. TrackTypeOK'
      BY <1>5, <2>1, <2>2 DEF AddCurrent
    <2>4. Owners'
      BY <1>5 DEF AddCurrent
    <2> QED
      BY <2>3, <2>4
  <1>6. ASSUME NEW t \in Threads, RaisePeak(t) PROVE TrackTypeOK' /\ Owners'
    <2>1. mem_peak_bytes' \in Int
      <3>1. seen[t] \in Int /\ mem_peak_bytes \in Int
        OBVIOUS
      <3>2. Max({mem_peak_bytes, seen[t]}) \in {mem_peak_bytes, seen[t]}
        BY <3>1, MaxOfTwo
      <3> QED
        BY <1>6, <3>1, <3>2 DEF RaisePeak
    <2>2. TrackTypeOK'
      BY <1>6, <2>1 DEF RaisePeak, TrackReturn
    <2>3. Owners'
      BY <1>6 DEF RaisePeak, TrackReturn
    <2> QED
      BY <2>2, <2>3
  <1>7. ASSUME NEW t \in Threads, Erase(t) PROVE TrackTypeOK' /\ Owners'
    BY <1>7 DEF Erase
  <1>8. ASSUME NEW t \in Threads, SubCurrent(t) PROVE TrackTypeOK' /\ Owners'
    BY <1>8 DEF SubCurrent
  <1>9. ASSUME NEW t \in Threads, RealFree(t) PROVE TrackTypeOK' /\ Owners'
    BY <1>9 DEF RealFree, TrackReturn
  <1>10. ASSUME NEW q \in Quotas, MemQuota(q) PROVE TrackTypeOK' /\ Owners'
    <2>1. early' \in BOOLEAN
      BY <1>10, Zenon DEF MemQuota, Unused
    <2>2. q \in Int /\ mem_quota_bytes' = IF q < 0 THEN -1 ELSE q
      BY <1>10 DEF MemQuota
    <2>3. mem_quota_bytes' = -1 \/ mem_quota_bytes' \in Nat
      BY <2>2
    <2> QED
      BY <1>10, <2>1, <2>3 DEF MemQuota
  <1>11. ASSUME NEW b \in BOOLEAN, MemTracking(b) PROVE TrackTypeOK' /\ Owners'
    BY <1>11 DEF MemTracking
  <1>12. ASSUME MemReset PROVE TrackTypeOK' /\ Owners'
    BY <1>12 DEF MemReset
  <1>13. CASE UNCHANGED TrackVars
    BY <1>13 DEF TrackVars
  <1> QED
    BY <1>1, <1>2, <1>3, <1>4, <1>5, <1>6, <1>7, <1>8, <1>9, <1>10, <1>11, <1>12, <1>13
       DEF TrackNext, TrackStep

-----------------------------------------------------------------------------
(* The books, as long as nobody has spoiled them *)

\* The types, with the constants' assumption applied.
LEMMA TrackTypes ==
    ASSUME TrackConstants, TrackTypeOK
    PROVE  /\ IsFiniteSet(Threads) /\ IsFiniteSet(Ptrs)
           /\ live \in [Ptrs -> Nat]
           /\ DOMAIN pc = Threads /\ DOMAIN bytes = Threads
           /\ pc = [u \in Threads |-> pc[u]] /\ bytes = [u \in Threads |-> bytes[u]]
           /\ \A u \in Threads : bytes[u] \in Nat /\ bytes[u] <= Max(Sizes)
  <1>1. /\ IsFiniteSet(Threads) /\ IsFiniteSet(Ptrs) /\ {0} \cup Sizes \subseteq Nat
        /\ \A b \in {0} \cup Sizes : b <= Max(Sizes)
    BY DEF TrackConstants
  <1>2. live \in [Ptrs -> {0} \cup Sizes] /\ bytes \in [Threads -> {0} \cup Sizes]
    BY DEF TrackTypeOK
  <1>3. DOMAIN pc = Threads /\ pc = [u \in Threads |-> pc[u]]
    BY DEF TrackTypeOK
  <1>4. live \in [Ptrs -> Nat]
    BY <1>1, <1>2
  <1>5. \A u \in Threads : bytes[u] \in Nat /\ bytes[u] <= Max(Sizes)
    BY <1>1, <1>2
  <1>6. DOMAIN bytes = Threads /\ bytes = [u \in Threads |-> bytes[u]]
    BY <1>2
  <1> QED
    BY <1>1, <1>3, <1>4, <1>5, <1>6

\* A thread's step changes the two accounts by its own bytes.
LEMMA AccountsOfStep ==
    ASSUME TrackConstants, TrackTypeOK, NEW t \in Threads, NEW s, NEW k \in Nat,
           pc' = [pc EXCEPT ![t] = s], bytes' = [bytes EXCEPT ![t] = k]
    PROVE  /\ Total(Uncounted') =
                  Total(Uncounted) - Missing(pc[t], bytes[t]) + Missing(s, k)
           /\ Total(Admission') =
                  Total(Admission) - Pending(pc[t], bytes[t]) + Pending(s, k)
           /\ Total(Uncounted') \in Nat /\ Total(Admission') \in Nat
  <1>1. /\ IsFiniteSet(Threads)
        /\ pc = [u \in Threads |-> pc[u]] /\ bytes = [u \in Threads |-> bytes[u]]
        /\ \A u \in Threads : bytes[u] \in Nat
    BY TrackTypes
  <1>2. Missing(s, k) \in Nat /\ Pending(s, k) \in Nat
    BY DEF Missing, Pending
  <1>3. Uncounted \in [Threads -> Nat] /\ Admission \in [Threads -> Nat]
    BY <1>1 DEF Uncounted, Admission, Missing, Pending
  <1>4. Uncounted' = [Uncounted EXCEPT ![t] = Missing(s, k)]
    BY <1>1 DEF Uncounted
  <1>5. Admission' = [Admission EXCEPT ![t] = Pending(s, k)]
    BY <1>1 DEF Admission
  <1> HIDE DEF Uncounted, Admission
  <1>6. Total([Uncounted EXCEPT ![t] = Missing(s, k)])
            = Total(Uncounted) - Uncounted[t] + Missing(s, k)
    BY <1>1, <1>2, <1>3, TotalExcept
  <1>7. Total([Admission EXCEPT ![t] = Pending(s, k)])
            = Total(Admission) - Admission[t] + Pending(s, k)
    BY <1>1, <1>2, <1>3, TotalExcept
  <1>8. Uncounted[t] = Missing(pc[t], bytes[t]) /\ Admission[t] = Pending(pc[t], bytes[t])
    BY DEF Uncounted, Admission
  <1>9. Uncounted' \in [Threads -> Nat] /\ Admission' \in [Threads -> Nat]
    BY <1>2, <1>3, <1>4, <1>5
  <1>10. Total(Uncounted') \in Nat /\ Total(Admission') \in Nat
    BY <1>1, <1>9, TotalIsNatural
  <1> QED
    BY <1>4, <1>5, <1>6, <1>7, <1>8, <1>10

LEMMA AccountsAreNumbers ==
    ASSUME TrackConstants, TrackTypeOK
    PROVE  /\ Total(live) \in Nat /\ Total(Uncounted) \in Nat /\ Total(Admission) \in Nat
           /\ Total(Uncounted) <= Total(Admission)
           /\ \A t \in Threads : bytes[t] \in Nat
  <1>1. IsFiniteSet(Threads) /\ IsFiniteSet(Ptrs)
        /\ \A t \in Threads : bytes[t] \in Nat
    BY TrackTypes
  <1>2. Uncounted \in [Threads -> Nat] /\ Admission \in [Threads -> Nat]
    BY <1>1 DEF Uncounted, Admission, Missing, Pending
  <1>3. live \in [Ptrs -> Nat]
    BY TrackTypes
  <1>4. \A t \in Threads : Uncounted[t] <= Admission[t]
    BY <1>1 DEF Uncounted, Admission, Missing, Pending
  <1> QED
    BY <1>1, <1>2, <1>3, <1>4, TotalIsNatural, TotalMonotone

\* What the driver holds changes at one pointer.
LEMMA LiveOfStep ==
    ASSUME TrackConstants, TrackTypeOK, NEW p \in Ptrs, NEW k \in Nat,
           live' = [live EXCEPT ![p] = k]
    PROVE  Total(live') = Total(live) - live[p] + k /\ Total(live') \in Nat
  <1>1. IsFiniteSet(Ptrs) /\ live \in [Ptrs -> Nat]
    BY TrackTypes
  <1>2. Total([live EXCEPT ![p] = k]) = Total(live) - live[p] + k
    BY <1>1, TotalExcept
  <1>3. live' \in [Ptrs -> Nat]
    BY <1>1
  <1> QED
    BY <1>1, <1>2, <1>3, TotalIsNatural

\* A thread that has not been admitted leaves room for one allocation of each
\* of the others.
LEMMA AdmissionOfOthers ==
    ASSUME TrackConstants, TrackTypeOK, NEW t \in Threads, pc[t] = "app"
    PROVE  Total(Admission) <= (Cardinality(Threads) - 1) * Max(Sizes)
  <1> DEFINE m == Max(Sizes)
             n == Cardinality(Threads)
             full == [Admission EXCEPT ![t] = m]
  <1>1. /\ IsFiniteSet(Threads) /\ m \in Nat /\ n \in Nat
        /\ \A u \in Threads : bytes[u] \in 0 .. m
    BY TrackTypes DEF TrackConstants
  <1> HIDE DEF m, n
  <1>2. Admission \in [Threads -> 0 .. m] /\ Admission[t] = 0
    BY <1>1 DEF Admission, Pending
  <1>3. full \in [Threads -> 0 .. m]
    BY <1>1, <1>2
  <1>10. IsFiniteSet(Threads) /\ Admission \in [Threads -> Nat] /\ m \in Nat
    BY <1>1, <1>2
  <1>4. Total(full) <= n * m
    BY <1>1, <1>3, TotalBounded DEF n
  <1>5. Total(full) = Total(Admission) - Admission[t] + m
    BY <1>10, TotalExcept
  <1>6. Total(Admission) \in Nat
    BY <1>10, TotalIsNatural
  <1>7. n * m = (n - 1) * m + m
    BY <1>1
  <1>8. (n - 1) * m \in Int
    BY <1>1
  <1>9. Total(Admission) <= (n - 1) * m
    BY <1>1, <1>2, <1>4, <1>5, <1>6, <1>7, <1>8
  <1> QED
    BY <1>9 DEF n, m

\* With no call under way and nothing in use every account is empty.
LEMMA UnusedIsZero ==
    ASSUME TrackConstants, TrackTypeOK, Owners, Ledger, Unused
    PROVE  /\ mem_current_bytes = 0 /\ Total(Uncounted) = 0 /\ Total(Admission) = 0
           /\ Total(live) = 0 /\ mem_peak_bytes = highest
           /\ \A p \in Ptrs : live[p] = 0 /\ alloc_size_map[p] = 0
           /\ \A t \in Threads : pc[t] = "app" /\ ptr[t] = NoPtr
  <1>1. /\ IsFiniteSet(Threads) /\ IsFiniteSet(Ptrs) /\ NoPtr \notin Ptrs
        /\ live \in [Ptrs -> Nat]
    BY TrackTypes DEF TrackConstants
  <1>2. Total(live) = 0 /\ \A t \in Threads : pc[t] = "app"
    BY DEF Unused, Quiet, LiveBytes
  <1>3. \A p \in Ptrs : live[p] = 0
    BY <1>1, <1>2, TotalZero
  <1>4. \A t \in Threads : ptr[t] = NoPtr
    BY <1>2 DEF Owners, AtPointer
  <1>5. \A p \in Ptrs : alloc_size_map[p] = 0
    BY <1>3 DEF Ledger, MapExact
  <1>6. /\ Uncounted = [t \in Threads |-> 0]
        /\ Admission = [t \in Threads |-> 0]
    BY <1>2 DEF Uncounted, Admission, Missing, Pending
  <1>7. Total(Uncounted) = 0 /\ Total(Admission) = 0
    BY <1>1, <1>6, TotalOfNothing
  <1>8. mem_current_bytes = 0
    BY <1>2, <1>7 DEF Ledger, TrackTypeOK
  <1>9. mem_peak_bytes = highest
    BY <1>2 DEF Ledger, PeakComing
  <1> QED
    BY <1>2, <1>3, <1>4, <1>5, <1>7, <1>8, <1>9

-----------------------------------------------------------------------------

\* No step makes spoiled books good.
LEMMA CleanOnlyFalls ==
    ASSUME TrackTypeOK, [TrackNext]_TrackVars, clean'
    PROVE  clean
  BY DEF TrackTypeOK, TrackNext, TrackStep, TrackVars, ctl, Malloc, Free,
         RealMalloc, Insert, AddCurrent, RaisePeak, Erase,
         SubCurrent, RealFree, MemQuota, MemTracking, MemReset

LEMMA LedgerKeptByMalloc ==
    ASSUME TrackConstants, TrackTypeOK, Owners, Ledger,
           NEW t \in Threads, NEW b \in Sizes, Malloc(t, b)
    PROVE  Ledger'
  <1>1. /\ pc[t] = "app" /\ pc' = [pc EXCEPT ![t] = "malloc"]
        /\ bytes' = [bytes EXCEPT ![t] = b]
        /\ UNCHANGED <<live, alloc_size_map, mem_current_bytes, mem_peak_bytes, highest,
                       mem_quota_bytes, mem_tracking_enabled, early, ptr, seen>>
        /\ mem_quota_bytes >= 0 => mem_current_bytes + b <= mem_quota_bytes
    BY DEF Malloc, Transition, stats, ctl, CheckQuota, TrackTypeOK
  <1>2. b \in Nat /\ \A u \in Threads : bytes[u] \in Nat
    BY AccountsAreNumbers DEF TrackConstants
  <1>3. /\ Total(Uncounted') = Total(Uncounted) /\ Total(Uncounted') \in Nat
        /\ Total(Admission') = Total(Admission) + b /\ Total(Admission') \in Nat
    <2>1. /\ Missing(pc[t], bytes[t]) = 0 /\ Missing("malloc", b) = 0
          /\ Pending(pc[t], bytes[t]) = 0 /\ Pending("malloc", b) = b
      BY <1>1 DEF Missing, Pending
    <2>2. /\ Total(Uncounted') =
                 Total(Uncounted) - Missing(pc[t], bytes[t]) + Missing("malloc", b)
          /\ Total(Admission') =
                 Total(Admission) - Pending(pc[t], bytes[t]) + Pending("malloc", b)
          /\ Total(Uncounted') \in Nat /\ Total(Admission') \in Nat
      BY <1>1, <1>2, AccountsOfStep
    <2> QED
      BY <1>2, <2>1, <2>2 DEF Ledger
  <1>4. SizesKnown'
    BY <1>1 DEF Ledger, SizesKnown, TrackTypeOK
  <1>5. MapExact'
    <2>1. ASSUME NEW p \in Ptrs PROVE NotInMap(p)' <=> NotInMap(p)
      BY <1>1 DEF NotInMap, TrackTypeOK
    <2> QED
      BY <1>1, <2>1 DEF Ledger, MapExact
  <1>6. PeakComing'
    BY <1>1 DEF Ledger, PeakComing, TrackTypeOK
  <1>7. Total(Admission) <= Margin
    BY <1>1, AdmissionOfOthers DEF Margin
  <1>8. Margin' = Margin /\ mem_tracking_enabled' /\ Total(live') = Total(live)
    BY <1>1 DEF Margin, Ledger
  <1> QED
    BY <1>1, <1>2, <1>3, <1>4, <1>5, <1>6, <1>7, <1>8 DEF Ledger

LEMMA LedgerKeptByFree ==
    ASSUME TrackConstants, TrackTypeOK, Owners, Ledger,
           NEW t \in Threads, NEW p \in Ptrs, Free(t, p)
    PROVE  Ledger'
  <1>1. /\ pc[t] = "app" /\ pc' = [pc EXCEPT ![t] = "erase"]
        /\ ptr' = [ptr EXCEPT ![t] = p] /\ live[p] > 0
        /\ \A u \in Threads : ptr[u] # p
        /\ UNCHANGED <<live, alloc_size_map, mem_current_bytes, mem_peak_bytes, highest,
                       mem_quota_bytes, mem_tracking_enabled, early, bytes, seen>>
    BY DEF Free, Transition, stats, ctl, Ledger
  <1>2. bytes[t] \in Nat /\ bytes' = [bytes EXCEPT ![t] = bytes[t]]
    BY <1>1, AccountsAreNumbers, TrackTypes
  <1>3. Total(Uncounted') = Total(Uncounted) /\ Total(Admission') = Total(Admission)
    <2>1. /\ Missing(pc[t], bytes[t]) = 0 /\ Missing("erase", bytes[t]) = 0
          /\ Pending(pc[t], bytes[t]) = 0 /\ Pending("erase", bytes[t]) = 0
      BY <1>1 DEF Missing, Pending
    <2>2. /\ Total(Uncounted') =
                 Total(Uncounted) - Missing(pc[t], bytes[t]) + Missing("erase", bytes[t])
          /\ Total(Admission') =
                 Total(Admission) - Pending(pc[t], bytes[t]) + Pending("erase", bytes[t])
      BY <1>1, <1>2, AccountsOfStep
    <2> QED
      BY <2>1, <2>2 DEF Ledger
  <1>4. SizesKnown'
    BY <1>1 DEF Ledger, SizesKnown, TrackTypeOK
  <1>5. MapExact'
    <2>1. ASSUME NEW q \in Ptrs PROVE NotInMap(q)' <=> NotInMap(q)
      BY <1>1 DEF NotInMap, TrackTypeOK
    <2> QED
      BY <1>1, <2>1 DEF Ledger, MapExact
  <1>6. PeakComing'
    BY <1>1 DEF Ledger, PeakComing, TrackTypeOK
  <1>8. Margin' = Margin /\ mem_tracking_enabled' /\ Total(live') = Total(live)
    BY <1>1 DEF Margin, Ledger
  <1> QED
    BY <1>1, <1>2, <1>3, <1>4, <1>5, <1>6, <1>8 DEF Ledger

LEMMA LedgerKeptByRealMalloc ==
    ASSUME TrackConstants, TrackTypeOK, Owners, Ledger, NEW t \in Threads, RealMalloc(t)
    PROVE  Ledger'
  <1>1. /\ pc[t] = "malloc"
        /\ UNCHANGED <<alloc_size_map, mem_current_bytes, mem_peak_bytes, highest,
                       mem_quota_bytes, mem_tracking_enabled, early>>
        /\ Margin' = Margin
    BY DEF RealMalloc, TrackReturn, Transition, stats, ctl, Margin
  <1>2. ptr[t] = NoPtr /\ NoPtr \notin Ptrs
    BY <1>1 DEF Owners, AtPointer, TrackConstants
  <1>3. /\ bytes[t] \in Nat /\ 0 \in Nat /\ Missing(pc[t], bytes[t]) = 0
        /\ Pending(pc[t], bytes[t]) = bytes[t]
    BY <1>1, AccountsAreNumbers DEF Missing, Pending
  <1>4. CASE TrackReturn(t, "malloc") /\ live' = live
    <2>1. /\ pc' = [pc EXCEPT ![t] = "app"] /\ bytes' = [bytes EXCEPT ![t] = 0]
          /\ ptr' = [ptr EXCEPT ![t] = NoPtr] /\ seen' = [seen EXCEPT ![t] = 0]
      BY <1>4 DEF TrackReturn, Transition
    <2>2. /\ Total(Uncounted') = Total(Uncounted)
          /\ Total(Admission') = Total(Admission) - bytes[t] /\ Total(Admission') \in Nat
      <3>1. Missing("app", 0) = 0 /\ Pending("app", 0) = 0
        BY DEF Missing, Pending
      <3>2. /\ Total(Uncounted') =
                   Total(Uncounted) - Missing(pc[t], bytes[t]) + Missing("app", 0)
            /\ Total(Admission') =
                   Total(Admission) - Pending(pc[t], bytes[t]) + Pending("app", 0)
            /\ Total(Admission') \in Nat
        BY <1>3, <2>1, AccountsOfStep
      <3> QED
        BY <1>3, <3>1, <3>2 DEF Ledger
    <2>3. SizesKnown'
      BY <1>1, <1>4, <2>1 DEF Ledger, SizesKnown, TrackTypeOK
    <2>4. MapExact'
      <3>1. ASSUME NEW q \in Ptrs PROVE NotInMap(q)' <=> NotInMap(q)
        BY <1>1, <2>1 DEF NotInMap, TrackTypeOK
      <3> QED
        BY <1>1, <1>4, <3>1 DEF Ledger, MapExact
    <2>5. PeakComing'
      BY <1>1, <2>1 DEF Ledger, PeakComing, TrackTypeOK
    <2> QED
      BY <1>1, <1>3, <1>4, <2>2, <2>3, <2>4, <2>5 DEF Ledger
  <1>5. ASSUME NEW p \in Ptrs, live[p] = 0, live' = [live EXCEPT ![p] = bytes[t]],
               pc' = [pc EXCEPT ![t] = "insert"], ptr' = [ptr EXCEPT ![t] = p],
               bytes' = bytes, seen' = seen
        PROVE  Ledger'
    <2>1. \A u \in Threads : ptr[u] # p
      BY <1>2, <1>5 DEF Owners
    <2>2. Total(live') = Total(live) + bytes[t] /\ Total(live') \in Nat
      <3>1. Total(live') = Total(live) - live[p] + bytes[t] /\ Total(live') \in Nat
        BY <1>3, <1>5, LiveOfStep
      <3> QED
        BY <1>3, <1>5, <3>1 DEF Ledger
    <2>3. bytes' = [bytes EXCEPT ![t] = bytes[t]]
      BY <1>5, TrackTypes
    <2>4. /\ Total(Uncounted') = Total(Uncounted) + bytes[t] /\ Total(Uncounted') \in Nat
          /\ Total(Admission') = Total(Admission)
      <3>1. Missing("insert", bytes[t]) = bytes[t] /\ Pending("insert", bytes[t]) = bytes[t]
        BY DEF Missing, Pending
      <3>2. /\ Total(Uncounted') =
                   Total(Uncounted) - Missing(pc[t], bytes[t]) + Missing("insert", bytes[t])
            /\ Total(Admission') =
                   Total(Admission) - Pending(pc[t], bytes[t]) + Pending("insert", bytes[t])
            /\ Total(Uncounted') \in Nat
        BY <1>3, <1>5, <2>3, AccountsOfStep
      <3> QED
        BY <1>3, <3>1, <3>2 DEF Ledger
    <2>5. SizesKnown'
      <3>1. ASSUME NEW u \in Threads, pc'[u] \in {"insert", "add", "sub", "free"}
            PROVE  bytes'[u] = live'[ptr'[u]]
        <4>1. CASE u = t
          BY <1>5, <4>1 DEF TrackTypeOK
        <4>2. CASE u # t
          <5>1. pc'[u] = pc[u] /\ ptr'[u] = ptr[u] /\ ptr[u] # p /\ ptr[u] \in Ptrs
            BY <1>5, <2>1, <3>1, <4>2 DEF TrackTypeOK, Owners, AtPointer
          <5>2. live'[ptr'[u]] = live[ptr[u]]
            BY <1>5, <5>1 DEF TrackTypeOK
          <5> QED
            BY <1>5, <3>1, <5>1, <5>2 DEF Ledger, SizesKnown
        <4> QED
          BY <4>1, <4>2
      <3> QED
        BY <3>1 DEF SizesKnown
    <2>6. MapExact'
      <3>1. NotInMap(p)' /\ ~NotInMap(p)
        BY <1>5, <2>1 DEF NotInMap, TrackTypeOK
      <3>2. ASSUME NEW q \in Ptrs, q # p PROVE NotInMap(q)' <=> NotInMap(q)
        BY <1>1, <1>2, <1>5, <3>2 DEF NotInMap, TrackTypeOK
      <3>3. alloc_size_map'[p] = 0
        BY <1>1, <1>5, <3>1 DEF Ledger, MapExact
      <3>4. \A q \in Ptrs : q # p => live'[q] = live[q]
        BY <1>5 DEF TrackTypeOK
      <3> QED
        BY <1>1, <3>1, <3>2, <3>3, <3>4 DEF Ledger, MapExact
    <2>7. PeakComing'
      BY <1>1, <1>5 DEF Ledger, PeakComing, TrackTypeOK
    <2> QED
      BY <1>1, <1>3, <2>2, <2>4, <2>5, <2>6, <2>7 DEF Ledger
  <1> QED
    BY <1>4, <1>5 DEF RealMalloc, Transition, Ledger

LEMMA LedgerKeptByInsert ==
    ASSUME TrackConstants, TrackTypeOK, Owners, Ledger, NEW t \in Threads, Insert(t)
    PROVE  Ledger'
  <1>1. /\ pc[t] = "insert" /\ pc' = [pc EXCEPT ![t] = "add"]
        /\ alloc_size_map' = [alloc_size_map EXCEPT ![ptr[t]] = bytes[t]]
        /\ UNCHANGED <<live, mem_current_bytes, mem_peak_bytes, highest,
                       mem_quota_bytes, mem_tracking_enabled, early, ptr, bytes, seen>>
    BY DEF Insert, Transition, stats, ctl, TrackLocals
  <1>2. bytes[t] \in Nat /\ bytes' = [bytes EXCEPT ![t] = bytes[t]]
    BY <1>1, AccountsAreNumbers, TrackTypes
  <1>3. Total(Uncounted') = Total(Uncounted) /\ Total(Admission') = Total(Admission)
    <2>1. /\ Missing(pc[t], bytes[t]) = bytes[t] /\ Missing("add", bytes[t]) = bytes[t]
          /\ Pending(pc[t], bytes[t]) = bytes[t] /\ Pending("add", bytes[t]) = bytes[t]
      BY <1>1 DEF Missing, Pending
    <2>2. /\ Total(Uncounted') =
                 Total(Uncounted) - Missing(pc[t], bytes[t]) + Missing("add", bytes[t])
          /\ Total(Admission') =
                 Total(Admission) - Pending(pc[t], bytes[t]) + Pending("add", bytes[t])
      BY <1>1, <1>2, AccountsOfStep
    <2> QED
      BY <1>2, <2>1, <2>2 DEF Ledger
  <1>4. SizesKnown'
    BY <1>1 DEF Ledger, SizesKnown, TrackTypeOK
  <1>5. MapExact'
    <2>1. ptr[t] \in Ptrs /\ bytes[t] = live[ptr[t]]
      BY <1>1 DEF Owners, AtPointer, Ledger, SizesKnown
    <2>2. ~NotInMap(ptr[t])'
      <3> SUFFICES ASSUME NEW u \in Threads, ptr[u] = ptr[t],
                          pc'[u] \in {"insert", "sub", "free"}
                   PROVE  FALSE
        BY <1>1 DEF NotInMap
      <3>1. u = t
        BY <2>1 DEF Owners, TrackConstants
      <3> QED
        BY <1>1, <3>1 DEF TrackTypeOK
    <2>3. ASSUME NEW q \in Ptrs, q # ptr[t] PROVE NotInMap(q)' <=> NotInMap(q)
      BY <1>1, <2>3 DEF NotInMap, TrackTypeOK
    <2>4. /\ alloc_size_map'[ptr[t]] = live[ptr[t]]
          /\ \A q \in Ptrs : q # ptr[t] => alloc_size_map'[q] = alloc_size_map[q]
      BY <1>1, <2>1 DEF TrackTypeOK
    <2> QED
      BY <1>1, <2>1, <2>2, <2>3, <2>4 DEF Ledger, MapExact
  <1>6. PeakComing'
    BY <1>1 DEF Ledger, PeakComing, TrackTypeOK
  <1>7. Margin' = Margin /\ Total(live') = Total(live)
    BY <1>1 DEF Margin
  <1> QED
    BY <1>1, <1>3, <1>4, <1>5, <1>6, <1>7 DEF Ledger

LEMMA LedgerKeptByAddCurrent ==
    ASSUME TrackConstants, TrackTypeOK, Owners, Ledger, NEW t \in Threads, AddCurrent(t)
    PROVE  Ledger'
  <1>1. /\ pc[t] = "add" /\ pc' = [pc EXCEPT ![t] = "peak"]
        /\ mem_current_bytes' = mem_current_bytes + bytes[t]
        /\ seen' = [seen EXCEPT ![t] = mem_current_bytes']
        /\ highest' = Max({highest, mem_current_bytes'})
        /\ UNCHANGED <<live, alloc_size_map, mem_peak_bytes,
                       mem_quota_bytes, mem_tracking_enabled, early, ptr, bytes>>
    BY DEF AddCurrent, Transition, ctl
  <1>2. bytes[t] \in Nat /\ bytes' = [bytes EXCEPT ![t] = bytes[t]]
    BY <1>1, AccountsAreNumbers, TrackTypes
  <1>3. /\ Total(Uncounted') = Total(Uncounted) - bytes[t] /\ Total(Uncounted') \in Nat
        /\ Total(Admission') = Total(Admission) - bytes[t] /\ Total(Admission') \in Nat
    <2>1. /\ Missing(pc[t], bytes[t]) = bytes[t] /\ Missing("peak", bytes[t]) = 0
          /\ Pending(pc[t], bytes[t]) = bytes[t] /\ Pending("peak", bytes[t]) = 0
      BY <1>1 DEF Missing, Pending
    <2>2. /\ Total(Uncounted') =
                 Total(Uncounted) - Missing(pc[t], bytes[t]) + Missing("peak", bytes[t])
          /\ Total(Admission') =
                 Total(Admission) - Pending(pc[t], bytes[t]) + Pending("peak", bytes[t])
          /\ Total(Uncounted') \in Nat /\ Total(Admission') \in Nat
      BY <1>1, <1>2, AccountsOfStep
    <2> QED
      BY <1>2, <2>1, <2>2 DEF Ledger
  <1>4. SizesKnown'
    BY <1>1 DEF Ledger, SizesKnown, TrackTypeOK
  <1>5. MapExact'
    <2>1. ASSUME NEW q \in Ptrs PROVE NotInMap(q)' <=> NotInMap(q)
      BY <1>1 DEF NotInMap, TrackTypeOK
    <2> QED
      BY <1>1, <2>1 DEF Ledger, MapExact
  <1>6. PeakComing'
    <2>1. /\ highest \in Int /\ mem_peak_bytes \in Int /\ mem_current_bytes' \in Int
          /\ \A u \in Threads : seen[u] \in Int
      BY <1>1, <1>2 DEF TrackTypeOK
    <2>2. /\ highest' \in {highest, mem_current_bytes'}
          /\ highest' >= highest /\ highest' >= mem_current_bytes'
      BY <1>1, <2>1, MaxOfTwo
    <2>3. \A u \in Threads :
              IF u = t THEN pc'[u] = "peak" /\ seen'[u] = mem_current_bytes'
                       ELSE pc'[u] = pc[u] /\ seen'[u] = seen[u]
      BY <1>1 DEF TrackTypeOK
    <2>4. mem_peak_bytes' <= highest'
      BY <1>1, <2>1, <2>2 DEF Ledger, PeakComing
    <2>5. \A u \in Threads : pc'[u] = "peak" => seen'[u] <= highest'
      BY <2>1, <2>2, <2>3 DEF Ledger, PeakComing
    <2>6. \/ mem_peak_bytes' = highest'
          \/ \E u \in Threads : pc'[u] = "peak" /\ seen'[u] = highest'
      <3>1. CASE highest' = mem_current_bytes'
        BY <2>3, <3>1
      <3>2. CASE highest' = highest /\ mem_peak_bytes = highest
        BY <1>1, <3>2
      <3>3. CASE highest' = highest /\ mem_peak_bytes # highest
        <4>1. PICK u \in Threads : pc[u] = "peak" /\ seen[u] = highest
          BY <3>3 DEF Ledger, PeakComing
        <4>2. u # t
          BY <1>1, <4>1
        <4> QED
          BY <2>3, <3>3, <4>1, <4>2
      <3> QED
        BY <2>2, <3>1, <3>2, <3>3
    <2> QED
      BY <2>4, <2>5, <2>6 DEF PeakComing
  <1>7. Margin' = Margin /\ Total(live') = Total(live)
    BY <1>1 DEF Margin
  <1> QED
    BY <1>1, <1>2, <1>3, <1>4, <1>5, <1>6, <1>7 DEF Ledger

LEMMA LedgerKeptByRaisePeak ==
    ASSUME TrackConstants, TrackTypeOK, Owners, Ledger, NEW t \in Threads, RaisePeak(t)
    PROVE  Ledger'
  <1>1. /\ pc[t] = "peak" /\ pc' = [pc EXCEPT ![t] = "app"]
        /\ ptr' = [ptr EXCEPT ![t] = NoPtr] /\ bytes' = [bytes EXCEPT ![t] = 0]
        /\ seen' = [seen EXCEPT ![t] = 0]
        /\ mem_peak_bytes' = Max({mem_peak_bytes, seen[t]})
        /\ UNCHANGED <<live, alloc_size_map, mem_current_bytes, highest,
                       mem_quota_bytes, mem_tracking_enabled, early>>
    BY DEF RaisePeak, TrackReturn, Transition, ctl
  <1>3. Total(Uncounted') = Total(Uncounted) /\ Total(Admission') = Total(Admission)
    <2>1. /\ Missing(pc[t], bytes[t]) = 0 /\ Missing("app", 0) = 0
          /\ Pending(pc[t], bytes[t]) = 0 /\ Pending("app", 0) = 0
      BY <1>1 DEF Missing, Pending
    <2>2. /\ Total(Uncounted') =
                 Total(Uncounted) - Missing(pc[t], bytes[t]) + Missing("app", 0)
          /\ Total(Admission') =
                 Total(Admission) - Pending(pc[t], bytes[t]) + Pending("app", 0)
      BY <1>1, AccountsOfStep
    <2> QED
      BY <2>1, <2>2 DEF Ledger
  <1>4. SizesKnown'
    BY <1>1 DEF Ledger, SizesKnown, TrackTypeOK
  <1>5. MapExact'
    <2>1. ASSUME NEW q \in Ptrs PROVE NotInMap(q)' <=> NotInMap(q)
      BY <1>1 DEF NotInMap, TrackTypeOK
    <2> QED
      BY <1>1, <2>1 DEF Ledger, MapExact
  <1>6. PeakComing'
    <2>1. highest \in Int /\ mem_peak_bytes \in Int /\ \A u \in Threads : seen[u] \in Int
      BY DEF TrackTypeOK
    <2>2. /\ mem_peak_bytes' \in {mem_peak_bytes, seen[t]}
          /\ mem_peak_bytes' >= mem_peak_bytes /\ mem_peak_bytes' >= seen[t]
      BY <1>1, <2>1, MaxOfTwo
    <2>3. \A u \in Threads :
              IF u = t THEN pc'[u] = "app" ELSE pc'[u] = pc[u] /\ seen'[u] = seen[u]
      BY <1>1 DEF TrackTypeOK
    <2>4. mem_peak_bytes' <= highest'
      BY <1>1, <2>1, <2>2 DEF Ledger, PeakComing
    <2>5. \A u \in Threads : pc'[u] = "peak" => seen'[u] <= highest'
      BY <1>1, <2>3 DEF Ledger, PeakComing
    <2>6. \/ mem_peak_bytes' = highest'
          \/ \E u \in Threads : pc'[u] = "peak" /\ seen'[u] = highest'
      <3>1. CASE mem_peak_bytes = highest \/ seen[t] = highest
        BY <1>1, <2>1, <2>2, <2>4, <3>1
      <3>2. CASE mem_peak_bytes # highest /\ seen[t] # highest
        <4>1. PICK u \in Threads : pc[u] = "peak" /\ seen[u] = highest
          BY <3>2 DEF Ledger, PeakComing
        <4> QED
          BY <1>1, <2>3, <3>2, <4>1
      <3> QED
        BY <3>1, <3>2
    <2> QED
      BY <2>4, <2>5, <2>6 DEF PeakComing
  <1>7. Margin' = Margin /\ Total(live') = Total(live)
    BY <1>1 DEF Margin
  <1> QED
    BY <1>1, <1>3, <1>4, <1>5, <1>6, <1>7 DEF Ledger

LEMMA LedgerKeptByErase ==
    ASSUME TrackConstants, TrackTypeOK, Owners, Ledger, NEW t \in Threads, Erase(t)
    PROVE  Ledger'
  <1>1. ptr[t] \in Ptrs /\ live[ptr[t]] > 0 /\ pc[t] = "erase"
    BY DEF Erase, Transition, Owners, AtPointer
  <1>2. \A u \in Threads : ptr[u] = ptr[t] => u = t
    BY <1>1 DEF Owners, TrackConstants
  <1>3. alloc_size_map[ptr[t]] = live[ptr[t]]
    <2>1. ~NotInMap(ptr[t])
      BY <1>1, <1>2 DEF NotInMap
    <2> QED
      BY <1>1, <2>1 DEF Ledger, MapExact
  <1>4. /\ pc' = [pc EXCEPT ![t] = "sub"]
        /\ bytes' = [bytes EXCEPT ![t] = live[ptr[t]]]
        /\ alloc_size_map' = [alloc_size_map EXCEPT ![ptr[t]] = 0]
        /\ UNCHANGED <<live, mem_current_bytes, mem_peak_bytes, highest,
                       mem_quota_bytes, mem_tracking_enabled, early, ptr, seen>>
    BY <1>1, <1>3 DEF Erase, Transition, stats, ctl
  <1>5. Total(Uncounted') = Total(Uncounted) /\ Total(Admission') = Total(Admission)
    <2>1. /\ Missing(pc[t], bytes[t]) = 0 /\ Missing("sub", live[ptr[t]]) = 0
          /\ Pending(pc[t], bytes[t]) = 0 /\ Pending("sub", live[ptr[t]]) = 0
      BY <1>1 DEF Missing, Pending
    <2>2. live[ptr[t]] \in Nat
      BY <1>1, TrackTypes
    <2>3. /\ Total(Uncounted') =
                 Total(Uncounted) - Missing(pc[t], bytes[t]) + Missing("sub", live[ptr[t]])
          /\ Total(Admission') =
                 Total(Admission) - Pending(pc[t], bytes[t]) + Pending("sub", live[ptr[t]])
      BY <1>4, <2>2, AccountsOfStep
    <2> QED
      BY <2>1, <2>3 DEF Ledger
  <1>6. SizesKnown'
    BY <1>4 DEF Ledger, SizesKnown, TrackTypeOK
  <1>7. MapExact'
    <2>1. NotInMap(ptr[t])'
      BY <1>4 DEF NotInMap, TrackTypeOK
    <2>2. ASSUME NEW q \in Ptrs, q # ptr[t] PROVE NotInMap(q)' <=> NotInMap(q)
      BY <1>4, <2>2 DEF NotInMap, TrackTypeOK
    <2>3. /\ alloc_size_map'[ptr[t]] = 0
          /\ \A q \in Ptrs : q # ptr[t] => alloc_size_map'[q] = alloc_size_map[q]
      BY <1>1, <1>4 DEF TrackTypeOK
    <2> QED
      BY <1>4, <2>1, <2>2, <2>3 DEF Ledger, MapExact
  <1>8. PeakComing'
    BY <1>1, <1>4 DEF Ledger, PeakComing, TrackTypeOK
  <1>9. Margin' = Margin /\ Total(live') = Total(live)
    BY <1>4 DEF Margin
  <1> QED
    BY <1>4, <1>5, <1>6, <1>7, <1>8, <1>9 DEF Ledger

LEMMA LedgerKeptBySubCurrent ==
    ASSUME TrackConstants, TrackTypeOK, Owners, Ledger, NEW t \in Threads, SubCurrent(t)
    PROVE  Ledger'
  <1>1. /\ pc[t] = "sub" /\ pc' = [pc EXCEPT ![t] = "free"]
        /\ mem_current_bytes' = mem_current_bytes - bytes[t]
        /\ UNCHANGED <<live, alloc_size_map, mem_peak_bytes, highest,
                       mem_quota_bytes, mem_tracking_enabled, early, ptr, bytes, seen>>
    BY DEF SubCurrent, Transition, ctl, TrackLocals
  <1>2. bytes[t] \in Nat /\ bytes' = [bytes EXCEPT ![t] = bytes[t]]
    BY <1>1, AccountsAreNumbers, TrackTypes
  <1>3. /\ Total(Uncounted') = Total(Uncounted) + bytes[t] /\ Total(Uncounted') \in Nat
        /\ Total(Admission') = Total(Admission) + bytes[t] /\ Total(Admission') \in Nat
    <2>1. /\ Missing(pc[t], bytes[t]) = 0 /\ Missing("free", bytes[t]) = bytes[t]
          /\ Pending(pc[t], bytes[t]) = 0 /\ Pending("free", bytes[t]) = bytes[t]
      BY <1>1 DEF Missing, Pending
    <2>2. /\ Total(Uncounted') =
                 Total(Uncounted) - Missing(pc[t], bytes[t]) + Missing("free", bytes[t])
          /\ Total(Admission') =
                 Total(Admission) - Pending(pc[t], bytes[t]) + Pending("free", bytes[t])
          /\ Total(Uncounted') \in Nat /\ Total(Admission') \in Nat
      BY <1>1, <1>2, AccountsOfStep
    <2> QED
      BY <1>2, <2>1, <2>2 DEF Ledger
  <1>4. SizesKnown'
    BY <1>1 DEF Ledger, SizesKnown, TrackTypeOK
  <1>5. MapExact'
    <2>1. ASSUME NEW q \in Ptrs PROVE NotInMap(q)' <=> NotInMap(q)
      BY <1>1 DEF NotInMap, TrackTypeOK
    <2> QED
      BY <1>1, <2>1 DEF Ledger, MapExact
  <1>6. PeakComing'
    BY <1>1 DEF Ledger, PeakComing, TrackTypeOK
  <1>7. Margin' = Margin /\ Total(live') = Total(live)
    BY <1>1 DEF Margin
  <1> QED
    BY <1>1, <1>2, <1>3, <1>4, <1>5, <1>6, <1>7 DEF Ledger

LEMMA LedgerKeptByRealFree ==
    ASSUME TrackConstants, TrackTypeOK, Owners, Ledger, NEW t \in Threads, RealFree(t)
    PROVE  Ledger'
  <1>1. /\ pc[t] = "free" /\ pc' = [pc EXCEPT ![t] = "app"]
        /\ ptr' = [ptr EXCEPT ![t] = NoPtr] /\ bytes' = [bytes EXCEPT ![t] = 0]
        /\ seen' = [seen EXCEPT ![t] = 0]
        /\ live' = [live EXCEPT ![ptr[t]] = 0]
        /\ UNCHANGED <<alloc_size_map, mem_current_bytes, mem_peak_bytes, highest,
                       mem_quota_bytes, mem_tracking_enabled, early>>
    BY DEF RealFree, TrackReturn, Transition, stats, ctl
  <1>2. /\ ptr[t] \in Ptrs /\ bytes[t] = live[ptr[t]] /\ bytes[t] \in Nat
        /\ NoPtr \notin Ptrs /\ 0 \in Nat
    BY <1>1, AccountsAreNumbers DEF Owners, AtPointer, Ledger, SizesKnown, TrackConstants
  <1>3. \A u \in Threads : ptr[u] = ptr[t] => u = t
    BY <1>2 DEF Owners
  <1>4. Total(live') = Total(live) - bytes[t] /\ Total(live') \in Nat
    <2>1. Total(live') = Total(live) - live[ptr[t]] + 0 /\ Total(live') \in Nat
      BY <1>1, <1>2, LiveOfStep
    <2> QED
      BY <1>2, <2>1 DEF Ledger
  <1>5. /\ Total(Uncounted') = Total(Uncounted) - bytes[t] /\ Total(Uncounted') \in Nat
        /\ Total(Admission') = Total(Admission) - bytes[t] /\ Total(Admission') \in Nat
    <2>1. /\ Missing(pc[t], bytes[t]) = bytes[t] /\ Missing("app", 0) = 0
          /\ Pending(pc[t], bytes[t]) = bytes[t] /\ Pending("app", 0) = 0
      BY <1>1 DEF Missing, Pending
    <2>2. /\ Total(Uncounted') =
                 Total(Uncounted) - Missing(pc[t], bytes[t]) + Missing("app", 0)
          /\ Total(Admission') =
                 Total(Admission) - Pending(pc[t], bytes[t]) + Pending("app", 0)
          /\ Total(Uncounted') \in Nat /\ Total(Admission') \in Nat
      BY <1>1, <1>2, AccountsOfStep
    <2> QED
      BY <1>2, <2>1, <2>2 DEF Ledger
  <1>6. SizesKnown'
    <2>1. ASSUME NEW u \in Threads, pc'[u] \in {"insert", "add", "sub", "free"}
          PROVE  bytes'[u] = live'[ptr'[u]]
      <3>1. u # t
        BY <1>1, <2>1 DEF TrackTypeOK
      <3>2. pc'[u] = pc[u] /\ ptr'[u] = ptr[u] /\ bytes'[u] = bytes[u]
        BY <1>1, <3>1 DEF TrackTypeOK
      <3>3. ptr[u] \in Ptrs /\ ptr[u] # ptr[t]
        BY <1>3, <2>1, <3>1, <3>2 DEF Owners, AtPointer
      <3>4. live'[ptr[u]] = live[ptr[u]]
        BY <1>1, <3>3 DEF TrackTypeOK
      <3> QED
        BY <2>1, <3>2, <3>4 DEF Ledger, SizesKnown
    <2> QED
      BY <2>1 DEF SizesKnown
  <1>7. MapExact'
    <2>1. ASSUME NEW q \in Ptrs, q = ptr[t]
          PROVE  alloc_size_map'[q] = 0 /\ live'[q] = 0
      <3>1. NotInMap(q)
        BY <1>1, <2>1 DEF NotInMap
      <3> QED
        BY <1>1, <2>1, <3>1 DEF Ledger, MapExact, TrackTypeOK
    <2>2. ASSUME NEW q \in Ptrs, q # ptr[t]
          PROVE  (NotInMap(q)' <=> NotInMap(q)) /\ live'[q] = live[q]
      BY <1>1, <1>2, <2>2 DEF NotInMap, TrackTypeOK
    <2> QED
      BY <1>1, <2>1, <2>2 DEF Ledger, MapExact
  <1>8. PeakComing'
    BY <1>1 DEF Ledger, PeakComing, TrackTypeOK
  <1>9. Margin' = Margin
    BY DEF Margin
  <1> QED
    BY <1>1, <1>2, <1>4, <1>5, <1>6, <1>7, <1>8, <1>9 DEF Ledger

LEMMA LedgerKeptByControl ==
    ASSUME TrackConstants, TrackTypeOK, Owners, Ledger, clean',
           \/ \E q \in Quotas : MemQuota(q)
           \/ \E b \in BOOLEAN : MemTracking(b)
           \/ MemReset
    PROVE  Ledger'
  <1>1. /\ UNCHANGED <<live, pc, ptr, bytes, seen>>
        /\ Margin' = Margin /\ Uncounted' = Uncounted /\ Admission' = Admission
        /\ \A p \in Ptrs : NotInMap(p)' <=> NotInMap(p)
    <2>1. UNCHANGED <<live, pc, ptr, bytes, seen>>
      BY DEF MemQuota, MemTracking, MemReset, TrackLocals
    <2> QED
      BY <2>1 DEF Margin, Uncounted, Admission, NotInMap
  <1>2. SizesKnown'
    BY <1>1 DEF Ledger, SizesKnown
  <1>3. Unused =>
            /\ mem_current_bytes = 0 /\ Total(Uncounted) = 0 /\ Total(Admission) = 0
            /\ mem_peak_bytes = highest
            /\ \A p \in Ptrs : live[p] = 0 /\ alloc_size_map[p] = 0
            /\ \A t \in Threads : pc[t] = "app"
    BY UnusedIsZero
  <1>4. ASSUME NEW q \in Quotas, MemQuota(q) PROVE Ledger'
    <2>1. /\ UNCHANGED <<alloc_size_map, mem_current_bytes, mem_peak_bytes, highest,
                         mem_tracking_enabled>>
          /\ mem_quota_bytes' = IF q < 0 THEN -1 ELSE q
          /\ early' = Unused
      BY <1>4 DEF MemQuota, stats
    <2>2. mem_quota_bytes' \in Int
      BY <2>1 DEF TrackConstants
    <2>3. MapExact' /\ PeakComing'
      BY <1>1, <2>1 DEF Ledger, MapExact, PeakComing
    <2>4. early' => mem_current_bytes = 0 /\ Total(Admission) = 0
      BY <1>3, <2>1
    <2>5. Margin \in Nat /\ mem_current_bytes' = mem_current_bytes
      BY <2>1 DEF Ledger
    <2>6. early' /\ mem_quota_bytes' >= 0 =>
              mem_current_bytes' + Total(Admission') <= mem_quota_bytes' + Margin'
      <3>1. Margin' = Margin /\ Total(Admission') = Total(Admission)
        BY <1>1
      <3> SUFFICES ASSUME early', mem_quota_bytes' >= 0
                   PROVE  mem_current_bytes + Total(Admission) <= mem_quota_bytes' + Margin
        BY <2>5, <3>1
      <3>2. mem_current_bytes = 0 /\ Total(Admission) = 0
        BY <2>4
      <3>3. \A x \in Int, y \in Nat : x >= 0 => 0 + 0 <= x + y
        OBVIOUS
      <3>4. 0 + 0 <= mem_quota_bytes' + Margin
        BY <2>2, <2>5, <3>3
      <3> QED
        BY <3>2, <3>4
    <2> QED
      BY <1>1, <1>2, <2>1, <2>2, <2>3, <2>6 DEF Ledger
  <1>5. ASSUME NEW b \in BOOLEAN, MemTracking(b) PROVE Ledger'
    <2>1. /\ UNCHANGED <<alloc_size_map, mem_current_bytes, mem_peak_bytes, highest,
                         mem_quota_bytes, early>>
          /\ mem_tracking_enabled'
      BY <1>5 DEF MemTracking, stats
    <2>2. MapExact' /\ PeakComing'
      BY <1>1, <2>1 DEF Ledger, MapExact, PeakComing
    <2> QED
      BY <1>1, <1>2, <2>1, <2>2 DEF Ledger
  <1>6. CASE MemReset
    <2>1. Unused /\ UNCHANGED <<mem_quota_bytes, mem_tracking_enabled, early>>
      BY <1>6 DEF MemReset
    <2>2. mem_current_bytes' = mem_current_bytes
      BY <1>3, <1>6, <2>1 DEF MemReset, stats
    <2>3. mem_peak_bytes' = highest' /\ highest' \in Int
      BY <1>3, <1>6, <2>1 DEF MemReset, stats, TrackTypeOK
    <2>4. \A p \in Ptrs : alloc_size_map'[p] = 0
      BY <1>3, <1>6, <2>1 DEF MemReset
    <2>5. MapExact'
      BY <1>1, <1>3, <2>1, <2>4 DEF MapExact
    <2>6. PeakComing'
      BY <1>1, <1>3, <2>1, <2>3 DEF PeakComing
    <2> QED
      BY <1>1, <1>2, <2>1, <2>2, <2>5, <2>6 DEF Ledger
  <1> QED
    BY <1>4, <1>5, <1>6

LEMMA LedgerInductive ==
    ASSUME TrackConstants, TrackTypeOK, Owners, Ledger, [TrackNext]_TrackVars, clean'
    PROVE  Ledger'
  <1>1. CASE UNCHANGED TrackVars
    <2>1. UNCHANGED <<live, alloc_size_map, mem_current_bytes, mem_peak_bytes, highest,
                      mem_quota_bytes, mem_tracking_enabled, early, pc, ptr, bytes, seen>>
      BY <1>1 DEF TrackVars, stats, ctl, TrackLocals
    <2> QED
      BY <2>1 DEF Ledger, SizesKnown, MapExact, NotInMap, PeakComing, Uncounted,
                  Admission, Margin
  <1>2. ASSUME NEW t \in Threads, TrackStep(t) PROVE Ledger'
    BY <1>2, LedgerKeptByMalloc, LedgerKeptByFree, LedgerKeptByRealMalloc,
       LedgerKeptByInsert, LedgerKeptByAddCurrent, LedgerKeptByRaisePeak,
       LedgerKeptByErase, LedgerKeptBySubCurrent, LedgerKeptByRealFree DEF TrackStep
  <1> QED
    BY <1>1, <1>2, LedgerKeptByControl DEF TrackNext

\* The inductive invariant of the memory tracking.
LEMMA TrackInvariant ==
    TrackSpec => [](TrackTypeOK /\ Owners /\ (clean => Ledger))
  <1> DEFINE Inv == TrackTypeOK /\ Owners /\ (clean => Ledger)
  <1>1. TrackConstants
    BY TrackAssumed
  <1>2. TrackInit => Inv
    <2> SUFFICES ASSUME TrackInit PROVE Inv
      OBVIOUS
    <2>1. TrackTypeOK /\ Owners
      <3>1. TrackTypeOK
        <4>1. controls \in 0 .. MaxControls
          BY <1>1 DEF TrackInit, TrackConstants
        <4>2. /\ live \in [Ptrs -> {0} \cup Sizes] /\ alloc_size_map \in [Ptrs -> {0} \cup Sizes]
              /\ ptr \in [Threads -> Ptrs \cup {NoPtr}]
              /\ bytes \in [Threads -> {0} \cup Sizes] /\ seen \in [Threads -> Int]
          BY DEF TrackInit
        <4>3. pc \in [Threads -> {"app", "malloc", "insert", "add", "peak", "erase",
                                  "sub", "free"}]
          BY DEF TrackInit
        <4>4. /\ mem_current_bytes \in Int /\ mem_peak_bytes \in Int /\ highest \in Int
              /\ mem_quota_bytes = -1 /\ resetting \in {"no", "peak", "map"}
          BY DEF TrackInit
        <4>5. mem_tracking_enabled \in BOOLEAN /\ clean \in BOOLEAN /\ early \in BOOLEAN
          BY Zenon DEF TrackInit
        <4> QED
          BY <4>1, <4>2, <4>3, <4>4, <4>5 DEF TrackTypeOK
      <3>2. \A t \in Threads : pc[t] = "app" /\ ptr[t] = NoPtr
        BY DEF TrackInit
      <3>3. Owners
        BY <3>2 DEF Owners, AtPointer
      <3> QED
        BY <3>1, <3>3
    <2>2. /\ live = [p \in Ptrs |-> 0] /\ Uncounted = [t \in Threads |-> 0]
          /\ Admission = [t \in Threads |-> 0]
      BY DEF TrackInit, Uncounted, Admission, Missing, Pending
    <2>3. IsFiniteSet(Threads) /\ IsFiniteSet(Ptrs)
      BY <1>1 DEF TrackConstants
    <2>4. Total(live) = 0 /\ Total(Uncounted) = 0 /\ Total(Admission) = 0
      BY <2>2, <2>3, TotalOfNothing
    <2>5. SizesKnown /\ MapExact /\ PeakComing
      BY DEF TrackInit, SizesKnown, MapExact, NotInMap, PeakComing
    <2>6. Margin \in Nat
      BY <1>1 DEF Margin, TrackConstants
    <2> QED
      BY <2>1, <2>4, <2>5, <2>6 DEF TrackInit, Ledger
  <1>3. Inv /\ [TrackNext]_TrackVars => Inv'
    BY <1>1, TrackTypeInductive, CleanOnlyFalls, LedgerInductive
  <1> QED
    BY <1>2, <1>3, PTL DEF TrackSpec

\* Between calls the statistics of track_alloc and track_free are exact (current
\* usage, alloc_size_map and the peak), for any number of threads and pointers and
\* however their calls interleave, unless somebody reset them with memory in use
\* or switched the tracking off.
THEOREM StatisticsExact ==
    TrackSpec => []StatisticsInv
  <1>1. TrackConstants
    BY TrackAssumed
  <1>2. TrackTypeOK /\ Owners /\ (clean => Ledger) => StatisticsInv
    <2> SUFFICES ASSUME TrackTypeOK, Owners, clean => Ledger
                 PROVE  CurrentExact /\ PeakExact
      BY DEF StatisticsInv
    <2>1. ASSUME Quiet, clean
          PROVE  /\ mem_current_bytes = LiveBytes /\ alloc_size_map = live
                 /\ mem_peak_bytes = highest
      <3>1. \A t \in Threads : pc[t] = "app"
        BY <2>1 DEF Quiet
      <3>2. Uncounted = [t \in Threads |-> 0] /\ IsFiniteSet(Threads)
        BY <1>1, <3>1 DEF Uncounted, Missing, TrackConstants
      <3>3. Total(Uncounted) = 0
        BY <3>2, TotalOfNothing
      <3>4. mem_current_bytes = LiveBytes
        BY <2>1, <3>3 DEF Ledger, LiveBytes
      <3>5. \A p \in Ptrs : alloc_size_map[p] = live[p]
        BY <2>1, <3>1 DEF Ledger, MapExact, NotInMap
      <3>6. alloc_size_map = live
        BY <3>5 DEF TrackTypeOK
      <3>7. mem_peak_bytes = highest
        BY <2>1, <3>1 DEF Ledger, PeakComing
      <3> QED
        BY <3>4, <3>6, <3>7
    <2> QED
      BY <2>1 DEF CurrentExact, PeakExact
  <1> QED
    BY <1>2, TrackInvariant, PTL

\* check_quota and the allocation it admits are not atomic: with a quota set
\* before anything was in use the driver never holds more than the quota and one
\* largest allocation for every other thread.
THEOREM QuotaNearlyKept ==
    TrackSpec => []QuotaOverrun
  <1>1. TrackConstants
    BY TrackAssumed
  <1>2. TrackTypeOK /\ Owners /\ (clean => Ledger) => QuotaOverrun
    <2> SUFFICES ASSUME TrackTypeOK, clean, Ledger, early, mem_quota_bytes >= 0
                 PROVE  LiveBytes <=
                            mem_quota_bytes + (Cardinality(Threads) - 1) * Max(Sizes)
      BY DEF QuotaOverrun
    <2>1. Total(Uncounted) <= Total(Admission)
      BY <1>1, AccountsAreNumbers
    <2>2. Total(live) <= mem_quota_bytes + Margin
      BY <2>1 DEF Ledger
    <2> QED
      BY <2>2 DEF LiveBytes, Margin
  <1> QED
    BY <1>2, TrackInvariant, PTL

-----------------------------------------------------------------------------
(* VirtualMem: the usage of libkraken is counted, its quota nearly kept *)

\* The thread has a pointer that is not in the table: not yet, or not any more.
Off(t) ==
    \/ pc[t] \in {"find", "room", "uncount", "unstat", "free"}
    \/ pc[t] \in {"write", "new"} /\ "ptr" \in todo[t]
    \/ pc[t] = "erase" /\ "ptr" \notin todo[t]

\* The locals of a call, whatever the other threads do.
CallOf(t) ==
    /\ pc[t] \in {"app", "malloc"} => ptr[t] = NoPtr
    /\ pc[t] \in {"app", "search", "read"} => bytes[t] = 0
    /\ pc[t] = "malloc" => bytes[t] > 0
    /\ pc[t] \notin {"app", "malloc"} => ptr[t] \in Ptrs /\ live[ptr[t]] > 0
    /\ pc[t] \in {"find", "room", "write", "new", "count", "stat"} =>
           bytes[t] = live[ptr[t]] /\ ptr[t] \notin unfreed
    /\ pc[t] \in {"find", "search"} => slot[t] >= 1
    /\ pc[t] \in {"write", "read", "erase"} => slot[t] \in Cells
    /\ pc[t] \in {"write", "erase"} => todo[t] \subseteq {"ptr", "size"}
    /\ pc[t] \notin {"write", "new", "erase"} => todo[t] = {}

VmemCalls ==
    /\ \A t \in Threads : CallOf(t)
    /\ \A t, u \in Threads : ptr[t] = ptr[u] /\ ptr[t] # NoPtr => t = u
    /\ \A p \in unfreed : live[p] > 0

\* The thread in the table is alone there: what it has read is still so.
AloneOf(t) ==
    /\ pc[t] \in {"find", "room", "search"} => size_read[t] = alloc_table_size
    /\ pc[t] \in {"write", "read", "erase"} => slot[t] <= alloc_table_size
    /\ pc[t] = "new" =>
           IF "count" \in todo[t]
           THEN size_read[t] = alloc_table_size /\ alloc_table_size < MAX_ALLOC_ENTRIES
           ELSE alloc_table_size = size_read[t] + 1

TableAlone ==
    /\ \A t, u \in Threads : pc[t] \in InTable /\ pc[u] \in InTable => t = u
    /\ alloc_table_size <= MAX_ALLOC_ENTRIES
    /\ \A t \in Threads : AloneOf(t)

\* The entry that a thread is storing to.
EntryOf(t) == IF pc[t] = "new" THEN size_read[t] + 1 ELSE slot[t]

\* The size in the entry of the thread's pointer is not there yet, or not any more.
SizeOpen(t) ==
    \/ pc[t] \in {"write", "new"} /\ "size" \in todo[t]
    \/ pc[t] = "erase" /\ "size" \notin todo[t]

\* What is in the table is right: an entry belongs to one pointer in use.
TableSound ==
    /\ \A i \in Cells : tab_ptr[i] # NoPtr =>
           /\ tab_ptr[i] \notin unfreed /\ live[tab_ptr[i]] > 0
           /\ i <= alloc_table_size \/ \E t \in Threads : pc[t] = "new" /\ i = EntryOf(t)
           /\ \A t \in Threads : ptr[t] = tab_ptr[i] => ~Off(t)
           /\ \/ tab_size[i] = live[tab_ptr[i]]
              \/ \E t \in Threads : ptr[t] = tab_ptr[i] /\ SizeOpen(t)
    /\ \A i, j \in Cells : tab_ptr[i] = tab_ptr[j] /\ tab_ptr[i] # NoPtr => i = j

\* What a thread has done to the table so far.
WorkOf(t) ==
    /\ pc[t] \in {"write", "new"} =>
           /\ tab_ptr[EntryOf(t)] = IF "ptr" \in todo[t] THEN NoPtr ELSE ptr[t]
           /\ "size" \notin todo[t] => tab_size[EntryOf(t)] = bytes[t]
    /\ pc[t] = "search" => \A i \in Cells : i < slot[t] => tab_ptr[i] # ptr[t]
    /\ pc[t] = "read" => tab_ptr[slot[t]] = ptr[t]
    /\ pc[t] = "erase" => tab_ptr[slot[t]] = IF "ptr" \in todo[t] THEN ptr[t] ELSE NoPtr
    /\ pc[t] \in {"erase", "uncount", "unstat"} =>
           bytes[t] = live[ptr[t]] /\ ptr[t] \notin unfreed
    /\ pc[t] = "free" => \/ bytes[t] = live[ptr[t]] /\ ptr[t] \notin unfreed
                         \/ bytes[t] = 0 /\ (overflowed \/ ptr[t] \in unfreed)

TableWork == \A t \in Threads : WorkOf(t)

\* Nothing is missing in the table, unless it has been full.
TableComplete ==
    overflowed \/
    \A p \in Ptrs : live[p] > 0 /\ p \notin unfreed =>
        (\E i \in Cells : tab_ptr[i] = p) \/ (\E t \in Threads : ptr[t] = p /\ Off(t))

TableInv == TableAlone /\ TableSound /\ TableWork /\ TableComplete

\* Bytes that are held and not counted, not yet or not any more; and those that
\* have been admitted besides.
OwedAt(place, n)   == IF place \in {"find", "room", "write", "new", "count", "unstat",
                                    "free"} THEN n ELSE 0
ClaimAt(place, n)  == IF place = "malloc" THEN n ELSE OwedAt(place, n)
VmemOwed   == [t \in Threads |-> OwedAt(pc[t], bytes[t])]
VmemClaims == [t \in Threads |-> ClaimAt(pc[t], bytes[t])]

VmemMargin == (Cardinality(Threads) - 1) * Max(Sizes)

UsageBooks ==
    /\ Held <= mem_used_bytes + Total(VmemOwed)
    /\ ~overflowed => Held = mem_used_bytes + Total(VmemOwed)
    /\ Quota > 0 => mem_used_bytes + Total(VmemClaims) <= Quota + VmemMargin

\* What the monitor's counter lags behind, in either direction.
StatAt(place, n)   == IF place = "stat" THEN n ELSE 0
UnstatAt(place, n) == IF place = "unstat" THEN n ELSE 0
ToAdd  == [t \in Threads |-> StatAt(pc[t], bytes[t])]
ToTake == [t \in Threads |-> UnstatAt(pc[t], bytes[t])]

MonitorBooks == shm_used_bytes + Total(ToAdd) = mem_used_bytes + inherited + Total(ToTake)


\* What the assumption on the constants gives.
VmemFacts ==
    /\ IsFiniteSet(Threads) /\ Threads # {} /\ IsFiniteSet(Ptrs)
    /\ Sizes \subseteq Nat \ {0} /\ 0 \notin Sizes
    /\ Max(Sizes) \in Nat /\ \A b \in Sizes : b <= Max(Sizes)
    /\ Quota \in Nat /\ MAX_ALLOC_ENTRIES \in Nat \ {0}
    /\ MaxCells \in Nat /\ MAX_ALLOC_ENTRIES <= MaxCells
    /\ MaxRestarts \in Nat /\ NoPtr \notin Ptrs
    /\ Cardinality(Threads) \in Nat /\ Cardinality(Threads) >= 1

LEMMA VmemAssumed ==
    VmemFacts
  <1>1. /\ IsFiniteSet(Threads) /\ Threads # {} /\ IsFiniteSet(Ptrs)
        /\ Sizes \subseteq Nat \ {0} /\ \E m \in Sizes : \A b \in Sizes : b <= m
        /\ Quota \in Nat /\ MAX_ALLOC_ENTRIES \in Nat \ {0}
        /\ MaxCells \in Nat /\ MaxCells >= MAX_ALLOC_ENTRIES
        /\ MaxRestarts \in Nat /\ NoPtr \notin Ptrs
    BY MemAssumption
  <1>2. Max(Sizes) \in Sizes /\ \A b \in Sizes : Max(Sizes) >= b
    <2>1. \E m \in Sizes : \A b \in Sizes : m >= b
      BY <1>1
    <2> QED
      BY <2>1 DEF Max
  <1>3. Cardinality(Threads) \in Nat /\ Cardinality(Threads) # 0
    BY <1>1, FS_CardinalityType, FS_EmptySet
  <1>4. /\ 0 \notin Sizes /\ Max(Sizes) \in Nat
        /\ \A b \in Sizes : b <= Max(Sizes)
    BY <1>1, <1>2
  <1>5. Cardinality(Threads) >= 1 /\ MAX_ALLOC_ENTRIES <= MaxCells
    BY <1>1, <1>3
  <1> QED
    BY <1>1, <1>3, <1>4, <1>5 DEF VmemFacts

-----------------------------------------------------------------------------
(* Types and locals, whatever the threads do *)

\* A store changes one entry, or the number of entries, and the thread's locals.
LEMMA StoreTyped ==
    ASSUME VmemFacts, VmemTypeOK, NEW t \in Threads, NEW i \in Cells, NEW w,
           NEW p \in Ptrs \cup {NoPtr}, NEW b \in {0} \cup Sizes,
           NEW from \in {"write", "new", "erase"}, NEW to \in {"count", "uncount"},
           StoreIn(t, i, w, p, b, from, to)
    PROVE  VmemTypeOK'
  <1>1. /\ tab_ptr' \in [Cells -> Ptrs \cup {NoPtr}]
        /\ tab_size' \in [Cells -> {0} \cup Sizes]
    BY DEF StoreIn, VmemTypeOK
  <1>2. alloc_table_size' \in 0 .. MaxCells
    BY DEF StoreIn, VmemTypeOK, Cells, VmemFacts
  <1>3. i - 1 \in 0 .. MaxCells
    BY DEF Cells, VmemFacts
  <1>4. /\ pc' \in [Threads -> {"app", "malloc", "count", "stat", "uncount", "unstat", "free"}
                                  \cup InTable]
        /\ slot' \in [Threads -> 0 .. MaxCells + 1]
        /\ size_read' \in [Threads -> 0 .. MaxCells]
        /\ todo' \in [Threads -> SUBSET {"ptr", "size", "count"}]
    BY <1>3 DEF StoreIn, Transition, Keep, VmemTypeOK, InTable, NoEntry, VmemFacts
  <1> QED
    BY <1>1, <1>2, <1>4 DEF StoreIn, VmemTypeOK, usage, lifetime, VmemHistory

LEMMA VmemTypeKept ==
    ASSUME VmemFacts, VmemTypeOK, VmemCalls, [VmemNext]_VmemVars
    PROVE  VmemTypeOK'
  <1>0. /\ MaxCells \in Nat /\ Sizes \subseteq Nat
        /\ \A u \in Threads : CallOf(u)
    BY DEF VmemFacts, VmemCalls
  <1> USE DEF Transition, VmemLocals, table, usage, lifetime, VmemHistory, Keep,
              VmemReturn, EnterTable
  <1>1. ASSUME NEW t \in Threads, NEW b \in Sizes, VmemCheckAlloc(t, b)
        PROVE  VmemTypeOK'
    BY <1>1 DEF VmemCheckAlloc, VmemTypeOK
  <1>2. ASSUME NEW t \in Threads, NEW p \in Ptrs, VmemFree(t, p)
        PROVE  VmemTypeOK'
    <2>1. 1 \in 0 .. MaxCells + 1
      BY <1>0
    <2>2. collided' \in BOOLEAN
      BY <1>2, Zenon DEF VmemFree
    <2> QED
      BY <1>2, <2>1, <2>2 DEF VmemFree, VmemTypeOK, InTable
  <1>3. ASSUME NEW t \in Threads, VmemRealMalloc(t) PROVE VmemTypeOK'
    <2>1. 1 \in 0 .. MaxCells + 1 /\ 0 \in 0 .. MaxCells + 1 /\ 0 \in 0 .. MaxCells
      BY <1>0
    <2>2. collided' \in BOOLEAN
      <3>1. collided' = collided
            \/ collided' = (collided \/ \E u \in Threads \ {t} : pc[u] \in InTable)
        BY <1>3, Zenon DEF VmemRealMalloc
      <3> QED
        BY <3>1, Zenon DEF VmemTypeOK
    <2> QED
      BY <1>3, <2>1, <2>2 DEF VmemRealMalloc, VmemTypeOK, InTable, NoEntry
  <1>4. ASSUME NEW t \in Threads, FindEntry(t) PROVE VmemTypeOK'
    <2>1. \A n \in Reads(t) : n \in 0 .. MaxCells
      BY DEF Reads, VmemTypeOK
    <2>2. \A n \in Reads(t) : slot[t] <= n => slot[t] + 1 \in 0 .. MaxCells + 1
      BY <1>0, <2>1 DEF VmemTypeOK
    <2>3. 0 \in 0 .. MaxCells + 1 /\ 0 \in 0 .. MaxCells
      BY <1>0
    <2> QED
      BY <1>4, <2>1, <2>2, <2>3 DEF FindEntry, VmemTypeOK, InTable, NoEntry
  <1>5. ASSUME NEW t \in Threads, Room(t) PROVE VmemTypeOK'
    <2>1. (\A n \in Reads(t) : n \in 0 .. MaxCells) /\ 0 \in 0 .. MaxCells
      BY <1>0 DEF Reads, VmemTypeOK
    <2>2. overflowed' \in BOOLEAN
      <3>1. overflowed' = overflowed \/ overflowed' = TRUE
        BY <1>5, Zenon DEF Room
      <3> QED
        BY <3>1, Zenon DEF VmemTypeOK
    <2>3. /\ pc' \in [Threads -> {"app", "malloc", "count", "stat", "uncount", "unstat", "free"}
                                    \cup InTable]
          /\ size_read' \in [Threads -> 0 .. MaxCells]
          /\ todo' \in [Threads -> SUBSET {"ptr", "size", "count"}]
      BY <1>5, <2>1 DEF Room, VmemTypeOK, InTable
    <2> QED
      BY <1>5, <2>2, <2>3 DEF Room, VmemTypeOK
  <1>6. ASSUME NEW t \in Threads, NEW w, WriteEntry(t, w) PROVE VmemTypeOK'
    <2>1. slot[t] \in Cells
      BY <1>0, <1>6 DEF WriteEntry, StoreIn, CallOf
    <2>2. ptr[t] \in Ptrs \cup {NoPtr} /\ bytes[t] \in {0} \cup Sizes
      BY DEF VmemTypeOK
    <2> QED
      BY <1>6, <2>1, <2>2, StoreTyped DEF WriteEntry
  <1>7. ASSUME NEW t \in Threads, NEW w, NewEntry(t, w) PROVE VmemTypeOK'
    <2>1. PICK n \in Reads(t) :
              n < MaxCells /\ StoreIn(t, n + 1, w, ptr[t], bytes[t], "new", "count")
      BY <1>7 DEF NewEntry, Reads
    <2>2. n + 1 \in Cells
      BY <1>0, <2>1 DEF Reads, VmemTypeOK, Cells
    <2>3. ptr[t] \in Ptrs \cup {NoPtr} /\ bytes[t] \in {0} \cup Sizes
      BY DEF VmemTypeOK
    <2> QED
      BY <2>1, <2>2, <2>3, StoreTyped
  <1>8. ASSUME NEW t \in Threads, NEW w, EraseEntry(t, w) PROVE VmemTypeOK'
    <2>1. slot[t] \in Cells
      BY <1>0, <1>8 DEF EraseEntry, StoreIn, CallOf
    <2> QED
      BY <1>8, <2>1, StoreTyped DEF EraseEntry
  <1>9. ASSUME NEW t \in Threads, Count(t) \/ Stat(t) \/ Uncount(t) \/ Unstat(t)
        PROVE  VmemTypeOK'
    <2>1. bytes[t] \in Int
      <3>1. bytes[t] \in {0} \cup Sizes
        BY DEF VmemTypeOK
      <3>2. bytes[t] = 0 \/ bytes[t] \in Sizes
        BY <3>1
      <3>3. 0 \in Int /\ \A b \in Sizes : b \in Int
        BY <1>0
      <3> QED
        BY <3>2, <3>3, Zenon
    <2>2. mem_used_bytes' \in Int /\ shm_used_bytes' \in Int
      BY <1>9, <2>1 DEF Count, Stat, Uncount, Unstat, VmemTypeOK
    <2>3. 0 \in 0 .. MaxCells + 1 /\ 0 \in 0 .. MaxCells
      BY <1>0
    <2> QED
      BY <1>9, <2>2, <2>3 DEF Count, Stat, Uncount, Unstat, VmemTypeOK, NoEntry
  <1>10. ASSUME NEW t \in Threads, FindRecord(t) PROVE VmemTypeOK'
    <2>1. \A n \in Reads(t) : n \in 0 .. MaxCells
      BY DEF Reads, VmemTypeOK
    <2>2. \A n \in Reads(t) : slot[t] <= n => slot[t] + 1 \in 0 .. MaxCells + 1
      BY <1>0, <2>1 DEF VmemTypeOK
    <2>3. 0 \in 0 .. MaxCells + 1 /\ 0 \in 0 .. MaxCells
      BY <1>0
    <2> QED
      BY <1>10, <2>1, <2>2, <2>3 DEF FindRecord, VmemTypeOK, InTable, NoEntry
  <1>11. ASSUME NEW t \in Threads, ReadSize(t) PROVE VmemTypeOK'
    <2>1. slot[t] \in Cells
      BY <1>0, <1>11 DEF ReadSize, CallOf
    <2> QED
      BY <1>11, <2>1 DEF ReadSize, VmemTypeOK, InTable
  <1>12. ASSUME NEW t \in Threads, VmemRealFree(t) PROVE VmemTypeOK'
    <2>1. 0 \in 0 .. MaxCells + 1 /\ 0 \in 0 .. MaxCells
      BY <1>0
    <2>2. ptr[t] \in Ptrs
      BY <1>0, <1>12 DEF VmemRealFree, CallOf
    <2> QED
      BY <1>12, <2>1, <2>2 DEF VmemRealFree, VmemTypeOK, NoEntry
  <1>13. CASE Restart
    <2>1. 0 \in 0 .. MaxCells + 1 /\ 0 \in 0 .. MaxCells
      BY <1>0
    <2>2. restarts' \in 0 .. MaxRestarts
      BY <1>13 DEF Restart, VmemTypeOK, VmemFacts
    <2>3. /\ live' \in [Ptrs -> {0} \cup Sizes]
          /\ tab_ptr' \in [Cells -> Ptrs \cup {NoPtr}]
          /\ tab_size' \in [Cells -> {0} \cup Sizes]
          /\ ptr' \in [Threads -> Ptrs \cup {NoPtr}]
          /\ bytes' \in [Threads -> {0} \cup Sizes]
      BY <1>13 DEF Restart
    <2>4. /\ pc' \in [Threads -> {"app", "malloc", "count", "stat", "uncount", "unstat", "free"}
                                    \cup InTable]
          /\ slot' \in [Threads -> 0 .. MaxCells + 1]
          /\ size_read' \in [Threads -> 0 .. MaxCells]
          /\ todo' \in [Threads -> SUBSET {"ptr", "size", "count"}]
      BY <1>13, <2>1 DEF Restart, NoEntry
    <2>5. /\ alloc_table_size' \in 0 .. MaxCells
          /\ mem_used_bytes' \in Int /\ shm_used_bytes' \in Int /\ inherited' \in Int
      BY <1>13, <2>1 DEF Restart, VmemTypeOK
    <2>6. unfreed' \in SUBSET Ptrs /\ overflowed' \in BOOLEAN /\ collided' \in BOOLEAN
      BY <1>13, Zenon DEF Restart
    <2> QED
      BY <2>2, <2>3, <2>4, <2>5, <2>6 DEF VmemTypeOK
  <1>14. CASE UNCHANGED VmemVars
    BY <1>14 DEF VmemVars, VmemTypeOK
  <1> QED
    BY <1>1, <1>2, <1>3, <1>4, <1>5, <1>6, <1>7, <1>8, <1>9, <1>10, <1>11, <1>12,
       <1>13, <1>14 DEF VmemNext, VmemStep

\* A step changes the locals of its thread, and the driver's memory at most at the
\* thread's pointer.
LEMMA OthersKept ==
    ASSUME VmemTypeOK, NEW t \in Threads, VmemStep(t)
    PROVE  /\ \A u \in Threads : u # t =>
                  /\ pc'[u] = pc[u] /\ ptr'[u] = ptr[u] /\ bytes'[u] = bytes[u]
                  /\ slot'[u] = slot[u] /\ size_read'[u] = size_read[u] /\ todo'[u] = todo[u]
           /\ \A p \in Ptrs : p # ptr[t] /\ p # ptr'[t] =>
                  live'[p] = live[p] /\ (p \in unfreed' <=> p \in unfreed)
           /\ restarts' = restarts /\ inherited' = inherited
           /\ collided => collided'
  <1> DEFINE Goal ==
           /\ \A u \in Threads : u # t =>
                  /\ pc'[u] = pc[u] /\ ptr'[u] = ptr[u] /\ bytes'[u] = bytes[u]
                  /\ slot'[u] = slot[u] /\ size_read'[u] = size_read[u] /\ todo'[u] = todo[u]
           /\ \A p \in Ptrs : p # ptr[t] /\ p # ptr'[t] =>
                  live'[p] = live[p] /\ (p \in unfreed' <=> p \in unfreed)
           /\ restarts' = restarts /\ inherited' = inherited
           /\ collided => collided'
  <1> SUFFICES Goal
    OBVIOUS
  <1> USE DEF Transition, VmemLocals, table, usage, lifetime, VmemHistory, Keep,
              VmemReturn, EnterTable, VmemTypeOK
  <1>1. ASSUME NEW b \in Sizes, VmemCheckAlloc(t, b) PROVE Goal
    BY <1>1 DEF VmemCheckAlloc
  <1>2. ASSUME NEW p \in Ptrs, VmemFree(t, p) PROVE Goal
    BY <1>2 DEF VmemFree
  <1>3. CASE VmemRealMalloc(t)
    <2>1. CASE VmemReturn(t, "malloc") /\ UNCHANGED <<live, table, usage, lifetime, VmemHistory>>
      BY <2>1
    <2>2. ASSUME NEW p \in Ptrs, EnterTable(t, "malloc", "find", p),
                 live' = [live EXCEPT ![p] = bytes[t]],
                 UNCHANGED <<table, usage, bytes, todo, lifetime, unfreed, overflowed>>
          PROVE  Goal
      BY <2>2
    <2> QED
      BY <1>3, <2>1, <2>2 DEF VmemRealMalloc
  <1>4. CASE FindEntry(t)
    BY <1>4 DEF FindEntry
  <1>5. CASE Room(t)
    BY <1>5 DEF Room
  <1>6. ASSUME NEW i, NEW w, NEW p, NEW b, NEW from, NEW to,
               StoreIn(t, i, w, p, b, from, to)
        PROVE  Goal
    BY <1>6 DEF StoreIn
  <1>7. CASE Count(t) \/ Stat(t) \/ Uncount(t) \/ Unstat(t)
    BY <1>7 DEF Count, Stat, Uncount, Unstat
  <1>8. CASE FindRecord(t)
    BY <1>8 DEF FindRecord
  <1>9. CASE ReadSize(t)
    BY <1>9 DEF ReadSize
  <1>10. CASE VmemRealFree(t)
    BY <1>10 DEF VmemRealFree
  <1> QED
    <2>1. ASSUME NEW w, WriteEntry(t, w) \/ NewEntry(t, w) \/ EraseEntry(t, w) PROVE Goal
      BY <1>6, <2>1 DEF WriteEntry, NewEntry, EraseEntry
    <2> HIDE DEF Goal
    <2> QED
      BY <1>1, <1>2, <1>3, <1>4, <1>5, <1>7, <1>8, <1>9, <1>10, <2>1 DEF VmemStep

\* The locals of the thread itself.
LEMMA OwnCallKept ==
    ASSUME VmemFacts, VmemTypeOK, VmemCalls, NEW t \in Threads, VmemStep(t)
    PROVE  CallOf(t)'
  <1>0. /\ MaxCells \in Nat /\ Sizes \subseteq Nat /\ \A b \in Sizes : b > 0
        /\ NoPtr \notin Ptrs /\ 0 \notin Sizes
        /\ CallOf(t) /\ \A p \in unfreed : live[p] > 0
    BY DEF VmemFacts, VmemCalls
  <1> USE DEF Transition, VmemLocals, table, usage, lifetime, VmemHistory, Keep,
              VmemReturn, EnterTable, VmemTypeOK
  <1>1. ASSUME NEW b \in Sizes, VmemCheckAlloc(t, b) PROVE CallOf(t)'
    BY <1>0, <1>1 DEF VmemCheckAlloc, CallOf
  <1>2. ASSUME NEW p \in Ptrs, VmemFree(t, p) PROVE CallOf(t)'
    BY <1>0, <1>2 DEF VmemFree, CallOf
  <1>3. CASE VmemRealMalloc(t)
    <2>1. CASE VmemReturn(t, "malloc") /\ UNCHANGED <<live, table, usage, lifetime, VmemHistory>>
      BY <2>1 DEF CallOf
    <2>2. ASSUME NEW p \in Ptrs, live[p] = 0, EnterTable(t, "malloc", "find", p),
                 live' = [live EXCEPT ![p] = bytes[t]],
                 UNCHANGED <<table, usage, bytes, todo, lifetime, unfreed, overflowed>>
          PROVE  CallOf(t)'
      BY <1>0, <2>2 DEF CallOf
    <2> QED
      BY <1>3, <2>1, <2>2 DEF VmemRealMalloc
  <1>4. CASE FindEntry(t)
    <2>1. \A n \in Reads(t) : n \in Nat /\ n <= MaxCells
      BY <1>0 DEF Reads
    <2>2. \A n \in Reads(t) : pc[t] = "find" /\ slot[t] <= n => slot[t] \in Cells /\ slot[t] + 1 >= 1
      BY <1>0, <2>1 DEF CallOf, Cells
    <2> QED
      BY <1>0, <1>4, <2>2 DEF FindEntry, CallOf
  <1>5. CASE Room(t)
    BY <1>0, <1>5 DEF Room, CallOf
  <1>6. ASSUME NEW i, NEW w, NEW p, NEW b, NEW from, NEW to,
               StoreIn(t, i, w, p, b, from, to),
               <<from, to>> \in {<<"write", "count">>, <<"new", "count">>, <<"erase", "uncount">>}
        PROVE  CallOf(t)'
    <2>1. /\ pc[t] = from /\ pc'[t] \in {from, to} /\ todo'[t] \subseteq todo[t]
          /\ pc'[t] = from => slot'[t] = slot[t]
          /\ pc'[t] = to => todo'[t] = {}
          /\ UNCHANGED <<live, ptr, bytes, unfreed>>
      BY <1>6 DEF StoreIn
    <2>2. \/ from = "write" /\ to = "count"
          \/ from = "new" /\ to = "count"
          \/ from = "erase" /\ to = "uncount"
      BY <1>6
    <2> QED
      BY <1>0, <2>1, <2>2 DEF CallOf
  <1>7. CASE Count(t) \/ Stat(t) \/ Uncount(t) \/ Unstat(t)
    BY <1>0, <1>7 DEF Count, Stat, Uncount, Unstat, CallOf
  <1>8. CASE FindRecord(t)
    <2>1. \A n \in Reads(t) : n \in Nat /\ n <= MaxCells
      BY <1>0 DEF Reads
    <2>2. \A n \in Reads(t) : pc[t] = "search" /\ slot[t] <= n => slot[t] \in Cells /\ slot[t] + 1 >= 1
      BY <1>0, <2>1 DEF CallOf, Cells
    <2> QED
      BY <1>0, <1>8, <2>2 DEF FindRecord, CallOf
  <1>9. CASE ReadSize(t)
    BY <1>0, <1>9 DEF ReadSize, CallOf
  <1>10. CASE VmemRealFree(t)
    BY <1>0, <1>10 DEF VmemRealFree, CallOf
  <1> QED
    <2>1. ASSUME NEW w, WriteEntry(t, w) \/ NewEntry(t, w) \/ EraseEntry(t, w)
          PROVE  CallOf(t)'
      BY <1>6, <2>1 DEF WriteEntry, NewEntry, EraseEntry
    <2> QED
      BY <1>1, <1>2, <1>3, <1>4, <1>5, <1>7, <1>8, <1>9, <1>10, <2>1 DEF VmemStep

\* A thread's pointer stays its own.
LEMMA PointersApart ==
    ASSUME VmemFacts, VmemTypeOK, VmemCalls, NEW t \in Threads, VmemStep(t)
    PROVE  \A u \in Threads : u # t /\ ptr[u] # NoPtr => ptr[u] # ptr[t] /\ ptr[u] # ptr'[t]
  <1>1. \A u \in Threads : u # t /\ ptr[u] # NoPtr => ptr[u] \in Ptrs /\ live[ptr[u]] > 0 /\ ptr[u] # ptr[t]
    BY DEF VmemCalls, CallOf, VmemTypeOK
  <1>2. \/ ptr'[t] \in {ptr[t], NoPtr}
        \/ ptr'[t] \in Ptrs /\ live[ptr'[t]] = 0
        \/ ptr'[t] \in Ptrs /\ pc[t] = "app" /\ \A u \in Threads : ptr[u] # ptr'[t]
    <2> USE DEF Transition, VmemLocals, table, usage, lifetime, VmemHistory, Keep,
                VmemReturn, EnterTable, VmemTypeOK
    <2>1. ASSUME NEW b \in Sizes, VmemCheckAlloc(t, b) PROVE ptr'[t] = ptr[t]
      BY <2>1 DEF VmemCheckAlloc
    <2>2. ASSUME NEW p \in Ptrs, VmemFree(t, p)
          PROVE  ptr'[t] \in Ptrs /\ pc[t] = "app" /\ \A u \in Threads : ptr[u] # ptr'[t]
      BY <2>2 DEF VmemFree
    <2>3. CASE VmemRealMalloc(t)
      BY <2>3 DEF VmemRealMalloc
    <2>4. CASE FindEntry(t) \/ Room(t) \/ FindRecord(t) \/ ReadSize(t)
      BY <2>4 DEF FindEntry, Room, FindRecord, ReadSize
    <2>5. ASSUME NEW w, WriteEntry(t, w) \/ NewEntry(t, w) \/ EraseEntry(t, w)
          PROVE  ptr'[t] = ptr[t]
      BY <2>5 DEF WriteEntry, NewEntry, EraseEntry, StoreIn
    <2>6. CASE Count(t) \/ Stat(t) \/ Uncount(t) \/ Unstat(t) \/ VmemRealFree(t)
      BY <2>6 DEF Count, Stat, Uncount, Unstat, VmemRealFree
    <2> QED
      BY <2>1, <2>2, <2>3, <2>4, <2>5, <2>6 DEF VmemStep
  <1>3. ASSUME NEW u \in Threads, u # t, ptr[u] # NoPtr PROVE ptr[u] # ptr'[t]
    <2>1. live[ptr[u]] # 0 /\ ptr[u] # ptr[t]
      BY <1>1, <1>3 DEF VmemTypeOK, VmemFacts
    <2> QED
      BY <1>2, <1>3, <2>1
  <1> QED
    BY <1>1, <1>3

\* The driver's memory changes in two steps only.
LEMMA DriverSteps ==
    ASSUME NEW t \in Threads, VmemStep(t)
    PROVE  \/ UNCHANGED <<live, unfreed>>
           \/ VmemRealFree(t) /\ pc[t] = "free" /\ pc' = [pc EXCEPT ![t] = "app"]
              /\ \/ live' = [live EXCEPT ![ptr[t]] = 0] /\ unfreed' = unfreed \ {ptr[t]}
                 \/ live' = live /\ unfreed' = unfreed \cup {ptr[t]}
           \/ \E p \in Ptrs :
                  /\ live[p] = 0 /\ pc[t] = "malloc" /\ EnterTable(t, "malloc", "find", p)
                  /\ live' = [live EXCEPT ![p] = bytes[t]]
                  /\ UNCHANGED <<table, usage, bytes, todo, unfreed, overflowed>>
  <1> USE DEF VmemHistory
  <1>1. CASE VmemRealMalloc(t)
    BY <1>1 DEF VmemRealMalloc, EnterTable, Transition
  <1>2. CASE VmemRealFree(t)
    BY <1>2 DEF VmemRealFree, VmemReturn, Transition
  <1>3. ASSUME NEW w, WriteEntry(t, w) \/ NewEntry(t, w) \/ EraseEntry(t, w)
        PROVE  UNCHANGED <<live, unfreed>>
    BY <1>3 DEF WriteEntry, NewEntry, EraseEntry, StoreIn
  <1>4. ASSUME \/ \E b \in Sizes : VmemCheckAlloc(t, b)
               \/ \E p \in Ptrs : VmemFree(t, p)
               \/ FindEntry(t) \/ Room(t) \/ Count(t) \/ Stat(t)
               \/ FindRecord(t) \/ ReadSize(t) \/ Uncount(t) \/ Unstat(t)
        PROVE  UNCHANGED <<live, unfreed>>
    BY <1>4 DEF VmemCheckAlloc, VmemFree, FindEntry, Room, Count, Stat, FindRecord, ReadSize,
                Uncount, Unstat
  <1> QED
    BY <1>1, <1>2, <1>3, <1>4 DEF VmemStep

LEMMA VmemCallsKept ==
    ASSUME VmemFacts, VmemTypeOK, VmemCalls, [VmemNext]_VmemVars
    PROVE  VmemCalls'
  <1>1. ASSUME NEW t \in Threads, VmemStep(t) PROVE VmemCalls'
    <2>1. VmemTypeOK'
      BY <1>1, VmemTypeKept DEF VmemNext
    <2>2. CallOf(t)'
      BY <1>1, OwnCallKept
    <2>3. /\ \A u \in Threads : u # t =>
                  /\ pc'[u] = pc[u] /\ ptr'[u] = ptr[u] /\ bytes'[u] = bytes[u]
                  /\ slot'[u] = slot[u] /\ size_read'[u] = size_read[u] /\ todo'[u] = todo[u]
          /\ \A p \in Ptrs : p # ptr[t] /\ p # ptr'[t] =>
                  live'[p] = live[p] /\ (p \in unfreed' <=> p \in unfreed)
      BY <1>1, OthersKept
    <2>4. \A u \in Threads : u # t /\ ptr[u] # NoPtr => ptr[u] # ptr[t] /\ ptr[u] # ptr'[t]
      BY <1>1, PointersApart
    <2>5. ASSUME NEW u \in Threads, u # t PROVE CallOf(u)'
      <3>1. CallOf(u)
        BY DEF VmemCalls
      <3>2. ptr[u] \in Ptrs =>
                live'[ptr[u]] = live[ptr[u]] /\ (ptr[u] \in unfreed' <=> ptr[u] \in unfreed)
        BY <2>3, <2>4, <2>5 DEF VmemFacts
      <3> QED
        BY <2>3, <2>5, <3>1, <3>2 DEF CallOf
    <2>6. ASSUME NEW u \in Threads, NEW v \in Threads, ptr'[u] = ptr'[v], ptr'[u] # NoPtr
          PROVE  u = v
      BY <2>3, <2>4, <2>6 DEF VmemCalls
    <2>7. ASSUME NEW p \in unfreed' PROVE live'[p] > 0
      <3>0. \A q \in unfreed : q \in Ptrs /\ live[q] > 0
        BY DEF VmemCalls, VmemTypeOK
      <3>1. CASE UNCHANGED <<live, unfreed>>
        BY <2>7, <3>0, <3>1
      <3>2. CASE pc[t] = "free"
                 /\ \/ live' = [live EXCEPT ![ptr[t]] = 0] /\ unfreed' = unfreed \ {ptr[t]}
                    \/ live' = live /\ unfreed' = unfreed \cup {ptr[t]}
        <4>1. ptr[t] \in Ptrs /\ live[ptr[t]] > 0
          BY <3>2 DEF VmemCalls, CallOf
        <4> QED
          BY <2>7, <3>0, <3>2, <4>1 DEF VmemTypeOK
      <3>3. ASSUME NEW q \in Ptrs, live[q] = 0, pc[t] = "malloc",
                   live' = [live EXCEPT ![q] = bytes[t]], unfreed' = unfreed
            PROVE  live'[p] > 0
        <4>1. bytes[t] > 0
          BY <3>3 DEF VmemCalls, CallOf
        <4> QED
          BY <2>7, <3>0, <3>3, <4>1 DEF VmemTypeOK
      <3> QED
        BY <1>1, <3>1, <3>2, <3>3, DriverSteps
    <2> QED
      BY <2>2, <2>5, <2>6, <2>7 DEF VmemCalls
  <1>2. CASE Restart
    <2>1. \A t \in Threads : pc'[t] = "app" /\ ptr'[t] = NoPtr /\ bytes'[t] = 0 /\ todo'[t] = {}
      BY <1>2 DEF Restart
    <2>2. unfreed' = {}
      BY <1>2 DEF Restart
    <2> QED
      BY <2>1, <2>2 DEF VmemCalls, CallOf
  <1>3. CASE UNCHANGED VmemVars
    <2>1. UNCHANGED <<live, pc, ptr, bytes, slot, todo, unfreed>>
      BY <1>3 DEF VmemVars, VmemLocals, VmemHistory
    <2> QED
      BY <2>1 DEF VmemCalls, CallOf
  <1> QED
    BY <1>1, <1>2, <1>3 DEF VmemNext

-----------------------------------------------------------------------------
(* The accounts of the threads *)

LEMMA VmemNumbers ==
    ASSUME VmemFacts, VmemTypeOK
    PROVE  /\ live \in [Ptrs -> Nat] /\ bytes \in [Threads -> Nat]
           /\ \A t \in Threads : bytes[t] \in 0 .. Max(Sizes)
           /\ VmemOwed \in [Threads -> Nat] /\ VmemClaims \in [Threads -> Nat]
           /\ ToAdd \in [Threads -> Nat] /\ ToTake \in [Threads -> Nat]
           /\ Total(VmemOwed) \in Nat /\ Total(VmemClaims) \in Nat
           /\ Total(ToAdd) \in Nat /\ Total(ToTake) \in Nat
           /\ Total(VmemOwed) <= Total(VmemClaims)
  <1>1. /\ \A b \in {0} \cup Sizes : b \in Nat /\ b <= Max(Sizes)
        /\ Max(Sizes) \in Nat /\ IsFiniteSet(Threads)
    BY DEF VmemFacts
  <1>2. live \in [Ptrs -> {0} \cup Sizes] /\ bytes \in [Threads -> {0} \cup Sizes]
    BY DEF VmemTypeOK
  <1>3. live \in [Ptrs -> Nat] /\ bytes \in [Threads -> Nat]
    BY <1>1, <1>2
  <1>4. \A t \in Threads : bytes[t] \in 0 .. Max(Sizes)
    <2>1. \A t \in Threads : bytes[t] \in {0} \cup Sizes
      BY <1>2
    <2>2. \A b \in {0} \cup Sizes : b \in 0 .. Max(Sizes)
      BY <1>1
    <2> QED
      BY <2>1, <2>2
  <1>5. VmemOwed \in [Threads -> Nat] /\ VmemClaims \in [Threads -> Nat]
    BY <1>3 DEF VmemOwed, VmemClaims, OwedAt, ClaimAt
  <1>6. ToAdd \in [Threads -> Nat] /\ ToTake \in [Threads -> Nat]
    BY <1>3 DEF ToAdd, ToTake, StatAt, UnstatAt
  <1>7. \A t \in Threads : VmemOwed[t] <= VmemClaims[t]
    BY <1>3 DEF VmemOwed, VmemClaims, OwedAt, ClaimAt
  <1>8. Total(VmemOwed) \in Nat /\ Total(VmemClaims) \in Nat
    BY <1>1, <1>5, TotalIsNatural
  <1>9. Total(ToAdd) \in Nat /\ Total(ToTake) \in Nat
    BY <1>1, <1>6, TotalIsNatural
  <1>10. Total(VmemOwed) <= Total(VmemClaims)
    BY <1>1, <1>5, <1>7, TotalMonotone
  <1> QED
    BY <1>3, <1>4, <1>5, <1>6, <1>8, <1>9, <1>10

\* A step changes each account by what its own thread stands for.
LEMMA VmemAccounts ==
    ASSUME VmemFacts, VmemTypeOK, VmemTypeOK', NEW t \in Threads, VmemStep(t)
    PROVE  /\ Total(VmemOwed)' =
                  Total(VmemOwed) - OwedAt(pc[t], bytes[t]) + OwedAt(pc'[t], bytes'[t])
           /\ Total(VmemClaims)' =
                  Total(VmemClaims) - ClaimAt(pc[t], bytes[t]) + ClaimAt(pc'[t], bytes'[t])
           /\ Total(ToAdd)' =
                  Total(ToAdd) - StatAt(pc[t], bytes[t]) + StatAt(pc'[t], bytes'[t])
           /\ Total(ToTake)' =
                  Total(ToTake) - UnstatAt(pc[t], bytes[t]) + UnstatAt(pc'[t], bytes'[t])
  <1>1. /\ IsFiniteSet(Threads) /\ bytes'[t] \in Nat
        /\ VmemOwed \in [Threads -> Nat] /\ VmemClaims \in [Threads -> Nat]
        /\ ToAdd \in [Threads -> Nat] /\ ToTake \in [Threads -> Nat]
    <2>1. \A b \in {0} \cup Sizes : b \in Nat
      BY DEF VmemFacts
    <2>2. bytes'[t] \in {0} \cup Sizes
      BY DEF VmemTypeOK
    <2>3. bytes'[t] \in Nat
      BY <2>1, <2>2
    <2> QED
      BY <2>3, VmemNumbers DEF VmemFacts
  <1>2. \A u \in Threads : u # t => pc'[u] = pc[u] /\ bytes'[u] = bytes[u]
    BY OthersKept
  <1> DEFINE a == OwedAt(pc'[t], bytes'[t])
             b == ClaimAt(pc'[t], bytes'[t])
             c == StatAt(pc'[t], bytes'[t])
             d == UnstatAt(pc'[t], bytes'[t])
  <1>3. a \in Nat /\ b \in Nat /\ c \in Nat /\ d \in Nat
    BY <1>1 DEF OwedAt, ClaimAt, StatAt, UnstatAt
  <1>4. VmemOwed' = [VmemOwed EXCEPT ![t] = a] /\ VmemClaims' = [VmemClaims EXCEPT ![t] = b]
    BY <1>2 DEF VmemOwed, VmemClaims
  <1>5. ToAdd' = [ToAdd EXCEPT ![t] = c] /\ ToTake' = [ToTake EXCEPT ![t] = d]
    BY <1>2 DEF ToAdd, ToTake
  <1>6. /\ VmemOwed[t] = OwedAt(pc[t], bytes[t]) /\ VmemClaims[t] = ClaimAt(pc[t], bytes[t])
        /\ ToAdd[t] = StatAt(pc[t], bytes[t]) /\ ToTake[t] = UnstatAt(pc[t], bytes[t])
    BY DEF VmemOwed, VmemClaims, ToAdd, ToTake
  <1> HIDE DEF a, b, c, d
  <1>7. Total([VmemOwed EXCEPT ![t] = a]) = Total(VmemOwed) - VmemOwed[t] + a
    BY <1>1, <1>3, TotalExcept
  <1>8. Total([VmemClaims EXCEPT ![t] = b]) = Total(VmemClaims) - VmemClaims[t] + b
    BY <1>1, <1>3, TotalExcept
  <1>9. Total([ToAdd EXCEPT ![t] = c]) = Total(ToAdd) - ToAdd[t] + c
    BY <1>1, <1>3, TotalExcept
  <1>10. Total([ToTake EXCEPT ![t] = d]) = Total(ToTake) - ToTake[t] + d
    BY <1>1, <1>3, TotalExcept
  <1> QED
    BY <1>4, <1>5, <1>6, <1>7, <1>8, <1>9, <1>10 DEF a, b, c, d

\* Where a step takes its thread, and what it does to the counters.
LEMMA CounterSteps ==
    ASSUME VmemTypeOK, NEW t \in Threads, VmemStep(t)
    PROVE  \/ /\ pc[t] \notin {"count", "stat", "uncount", "unstat"} /\ pc'[t] \notin {"stat", "unstat"}
              /\ UNCHANGED usage
           \/ /\ pc[t] = "count" /\ pc'[t] = "stat" /\ bytes' = bytes /\ UNCHANGED shm_used_bytes
              /\ mem_used_bytes' = mem_used_bytes + bytes[t]
           \/ /\ pc[t] = "stat" /\ pc'[t] = "app" /\ bytes'[t] = 0 /\ UNCHANGED mem_used_bytes
              /\ shm_used_bytes' = shm_used_bytes + bytes[t]
           \/ /\ pc[t] = "uncount" /\ pc'[t] = "unstat" /\ bytes' = bytes /\ UNCHANGED shm_used_bytes
              /\ mem_used_bytes' = mem_used_bytes - bytes[t]
           \/ /\ pc[t] = "unstat" /\ pc'[t] = "free" /\ bytes' = bytes /\ UNCHANGED mem_used_bytes
              /\ shm_used_bytes' = shm_used_bytes - bytes[t]
  <1> USE DEF Transition, VmemLocals, Keep, VmemReturn, EnterTable, VmemTypeOK
  <1>1. CASE Count(t) \/ Stat(t) \/ Uncount(t) \/ Unstat(t)
    BY <1>1 DEF Count, Stat, Uncount, Unstat
  <1>2. ASSUME NEW w, WriteEntry(t, w) \/ NewEntry(t, w) \/ EraseEntry(t, w)
        PROVE  /\ pc[t] \notin {"count", "stat", "uncount", "unstat"}
               /\ pc'[t] \notin {"stat", "unstat"} /\ UNCHANGED usage
    BY <1>2 DEF WriteEntry, NewEntry, EraseEntry, StoreIn
  <1>3. ASSUME \/ \E b \in Sizes : VmemCheckAlloc(t, b)
               \/ \E p \in Ptrs : VmemFree(t, p)
               \/ FindEntry(t) \/ Room(t) \/ VmemRealMalloc(t) \/ VmemRealFree(t)
               \/ FindRecord(t) \/ ReadSize(t)
        PROVE  /\ pc[t] \notin {"count", "stat", "uncount", "unstat"}
               /\ pc'[t] \notin {"stat", "unstat"} /\ UNCHANGED usage
    BY <1>3 DEF VmemCheckAlloc, VmemFree, FindEntry, Room, VmemRealMalloc, VmemRealFree,
                FindRecord, ReadSize
  <1> QED
    BY <1>1, <1>2, <1>3 DEF VmemStep

\* Nobody is in a call: every account is empty.
LEMMA NoCallNoAccount ==
    ASSUME VmemFacts, \A t \in Threads : pc[t] = "app"
    PROVE  /\ Total(VmemOwed) = 0 /\ Total(VmemClaims) = 0
           /\ Total(ToAdd) = 0 /\ Total(ToTake) = 0
  <1>1. /\ VmemOwed = [t \in Threads |-> 0] /\ VmemClaims = [t \in Threads |-> 0]
        /\ ToAdd = [t \in Threads |-> 0] /\ ToTake = [t \in Threads |-> 0]
    BY DEF VmemOwed, VmemClaims, ToAdd, ToTake, OwedAt, ClaimAt, StatAt, UnstatAt
  <1>2. Total([t \in Threads |-> 0]) = 0
    BY TotalOfNothing DEF VmemFacts
  <1> QED
    BY <1>1, <1>2

LEMMA MonitorKept ==
    ASSUME VmemFacts, VmemTypeOK, VmemTypeOK', MonitorBooks, [VmemNext]_VmemVars
    PROVE  MonitorBooks'
  <1>1. ASSUME NEW t \in Threads, VmemStep(t) PROVE MonitorBooks'
    <2>1. /\ Total(ToAdd)' =
                  Total(ToAdd) - StatAt(pc[t], bytes[t]) + StatAt(pc'[t], bytes'[t])
          /\ Total(ToTake)' =
                  Total(ToTake) - UnstatAt(pc[t], bytes[t]) + UnstatAt(pc'[t], bytes'[t])
      BY <1>1, VmemAccounts
    <2>2. inherited' = inherited
      BY <1>1, OthersKept
    <2>3. /\ Total(ToAdd) \in Nat /\ Total(ToTake) \in Nat /\ bytes[t] \in Nat
          /\ mem_used_bytes \in Int /\ shm_used_bytes \in Int /\ inherited \in Int
      BY VmemNumbers DEF VmemTypeOK
    <2>4. CASE /\ pc[t] \notin {"count", "stat", "uncount", "unstat"}
               /\ pc'[t] \notin {"stat", "unstat"} /\ UNCHANGED usage
      <3>1. /\ StatAt(pc[t], bytes[t]) = 0 /\ StatAt(pc'[t], bytes'[t]) = 0
            /\ UnstatAt(pc[t], bytes[t]) = 0 /\ UnstatAt(pc'[t], bytes'[t]) = 0
        BY <2>4 DEF StatAt, UnstatAt
      <3>2. Total(ToAdd)' = Total(ToAdd) /\ Total(ToTake)' = Total(ToTake)
        BY <2>1, <2>3, <3>1
      <3> QED
        BY <2>2, <2>4, <3>2 DEF MonitorBooks, usage
    <2>5. CASE /\ pc[t] = "count" /\ pc'[t] = "stat" /\ bytes' = bytes /\ UNCHANGED shm_used_bytes
               /\ mem_used_bytes' = mem_used_bytes + bytes[t]
      <3>1. Total(ToAdd)' = Total(ToAdd) + bytes[t] /\ Total(ToTake)' = Total(ToTake)
        BY <2>1, <2>3, <2>5 DEF StatAt, UnstatAt
      <3> QED
        BY <2>2, <2>3, <2>5, <3>1 DEF MonitorBooks
    <2>6. CASE /\ pc[t] = "stat" /\ pc'[t] = "app" /\ bytes'[t] = 0 /\ UNCHANGED mem_used_bytes
               /\ shm_used_bytes' = shm_used_bytes + bytes[t]
      <3>1. Total(ToAdd)' = Total(ToAdd) - bytes[t] /\ Total(ToTake)' = Total(ToTake)
        BY <2>1, <2>3, <2>6 DEF StatAt, UnstatAt
      <3> QED
        BY <2>2, <2>3, <2>6, <3>1 DEF MonitorBooks
    <2>7. CASE /\ pc[t] = "uncount" /\ pc'[t] = "unstat" /\ bytes' = bytes /\ UNCHANGED shm_used_bytes
               /\ mem_used_bytes' = mem_used_bytes - bytes[t]
      <3>1. Total(ToAdd)' = Total(ToAdd) /\ Total(ToTake)' = Total(ToTake) + bytes[t]
        BY <2>1, <2>3, <2>7 DEF StatAt, UnstatAt
      <3> QED
        BY <2>2, <2>3, <2>7, <3>1 DEF MonitorBooks
    <2>8. CASE /\ pc[t] = "unstat" /\ pc'[t] = "free" /\ bytes' = bytes /\ UNCHANGED mem_used_bytes
               /\ shm_used_bytes' = shm_used_bytes - bytes[t]
      <3>1. Total(ToAdd)' = Total(ToAdd) /\ Total(ToTake)' = Total(ToTake) - bytes[t]
        BY <2>1, <2>3, <2>8 DEF StatAt, UnstatAt
      <3> QED
        BY <2>2, <2>3, <2>8, <3>1 DEF MonitorBooks
    <2> QED
      BY <1>1, <2>4, <2>5, <2>6, <2>7, <2>8, CounterSteps
  <1>2. CASE Restart
    <2>1. /\ \A t \in Threads : pc'[t] = "app"
          /\ mem_used_bytes' = 0 /\ inherited' = shm_used_bytes
          /\ shm_used_bytes' = shm_used_bytes
      BY <1>2 DEF Restart
    <2>2. Total(ToAdd)' = 0 /\ Total(ToTake)' = 0
      <3>1. ToAdd' = [t \in Threads |-> 0] /\ ToTake' = [t \in Threads |-> 0]
        BY <2>1 DEF ToAdd, ToTake, StatAt, UnstatAt
      <3>2. Total([t \in Threads |-> 0]) = 0
        BY TotalOfNothing DEF VmemFacts
      <3> QED
        BY <3>1, <3>2
    <2> QED
      BY <2>1, <2>2 DEF MonitorBooks, VmemTypeOK
  <1>3. CASE UNCHANGED VmemVars
    <2>1. UNCHANGED <<pc, bytes, mem_used_bytes, shm_used_bytes, inherited>>
      BY <1>3 DEF VmemVars, VmemLocals, usage, lifetime
    <2>2. Total(ToAdd)' = Total(ToAdd) /\ Total(ToTake)' = Total(ToTake)
      BY <2>1 DEF ToAdd, ToTake
    <2> QED
      BY <2>1, <2>2 DEF MonitorBooks
  <1> QED
    BY <1>1, <1>2, <1>3 DEF VmemNext

-----------------------------------------------------------------------------
(* The table, as long as no two threads have been in it at once *)

\* The table and the locals of its users change in few steps.
LEMMA TableSteps ==
    ASSUME VmemTypeOK, NEW t \in Threads, VmemStep(t)
    PROVE  /\ \/ UNCHANGED table /\ pc[t] \notin {"write", "new", "erase"}
              \/ \E w \in {"ptr", "size", "count"} :
                     WriteEntry(t, w) \/ NewEntry(t, w) \/ EraseEntry(t, w)
           /\ overflowed => overflowed'
           /\ pc'[t] \in InTable =>
                  pc[t] \in InTable \/ collided' \/ \A u \in Threads : u # t => pc[u] \notin InTable
           /\ UNCHANGED table => alloc_table_size' = alloc_table_size
  <1> DEFINE Goal ==
           /\ UNCHANGED table /\ pc[t] \notin {"write", "new", "erase"}
           /\ overflowed => overflowed'
           /\ pc'[t] \in InTable =>
                  pc[t] \in InTable \/ collided' \/ \A u \in Threads : u # t => pc[u] \notin InTable
  <1> USE DEF Transition, VmemLocals, VmemHistory, Keep, VmemReturn, VmemTypeOK
  <1>1. ASSUME \/ \E b \in Sizes : VmemCheckAlloc(t, b)
               \/ Count(t) \/ Stat(t) \/ Uncount(t) \/ Unstat(t) \/ VmemRealFree(t)
        PROVE  Goal
    BY <1>1 DEF VmemCheckAlloc, Count, Stat, Uncount, Unstat, VmemRealFree, InTable, table
  <1>2. ASSUME FindEntry(t) \/ Room(t) \/ FindRecord(t) \/ ReadSize(t) PROVE Goal
    BY <1>2 DEF FindEntry, Room, FindRecord, ReadSize, InTable, table
  <1>3. ASSUME NEW p \in Ptrs, VmemFree(t, p) PROVE Goal
    BY <1>3 DEF VmemFree, EnterTable, table
  <1>4. ASSUME VmemRealMalloc(t) PROVE Goal
    BY <1>4 DEF VmemRealMalloc, EnterTable, InTable, table
  <1>5. ASSUME NEW w \in {"ptr", "size", "count"},
               WriteEntry(t, w) \/ NewEntry(t, w) \/ EraseEntry(t, w)
        PROVE  overflowed' = overflowed /\ pc[t] \in InTable
    BY <1>5 DEF WriteEntry, NewEntry, EraseEntry, StoreIn, InTable
  <1>6. UNCHANGED table => alloc_table_size' = alloc_table_size
    BY DEF table
  <1> QED
    BY <1>1, <1>2, <1>3, <1>4, <1>5, <1>6 DEF VmemStep

\* The other threads' part of the invariant stays.
LEMMA OthersWork ==
    ASSUME VmemFacts, VmemTypeOK, VmemCalls, TableAlone, TableWork,
           NEW t \in Threads, VmemStep(t), NEW u \in Threads, u # t
    PROVE  /\ Off(u)' <=> Off(u)
           /\ SizeOpen(u)' <=> SizeOpen(u)
           /\ EntryOf(u)' = EntryOf(u)
           /\ WorkOf(u)' /\ AloneOf(u)'
           /\ ptr[u] # NoPtr => /\ live'[ptr[u]] = live[ptr[u]]
                                /\ ptr[u] \in unfreed' <=> ptr[u] \in unfreed
  <1>1. /\ pc'[u] = pc[u] /\ ptr'[u] = ptr[u] /\ bytes'[u] = bytes[u]
        /\ slot'[u] = slot[u] /\ size_read'[u] = size_read[u] /\ todo'[u] = todo[u]
    BY OthersKept
  <1>2. ptr[u] # NoPtr => /\ live'[ptr[u]] = live[ptr[u]]
                          /\ ptr[u] \in unfreed' <=> ptr[u] \in unfreed
    <2>1. ptr[u] # NoPtr => ptr[u] \in Ptrs /\ ptr[u] # ptr[t] /\ ptr[u] # ptr'[t]
      BY PointersApart DEF VmemTypeOK
    <2> QED
      BY <2>1, OthersKept
  <1>3. /\ Off(u)' <=> Off(u)
        /\ SizeOpen(u)' <=> SizeOpen(u)
        /\ EntryOf(u)' = EntryOf(u)
    BY <1>1 DEF Off, SizeOpen, EntryOf
  <1>4. pc[u] \in InTable => UNCHANGED table
    <2>1. ASSUME NEW w, WriteEntry(t, w) \/ NewEntry(t, w) \/ EraseEntry(t, w)
          PROVE  pc[t] \in InTable
      BY <2>1 DEF WriteEntry, NewEntry, EraseEntry, StoreIn, Transition, InTable
    <2> QED
      BY <2>1, TableSteps DEF TableAlone
  <1>5. WorkOf(u) /\ AloneOf(u) /\ CallOf(u)
    BY DEF TableWork, TableAlone, VmemCalls
  <1>6. overflowed => overflowed'
    BY TableSteps
  <1>7. AloneOf(u)'
    BY <1>1, <1>4, <1>5 DEF AloneOf, InTable, table
  <1>8. WorkOf(u)'
    <2>1. CASE pc[u] \in InTable
      <3>1. UNCHANGED <<tab_ptr, tab_size, alloc_table_size>>
        BY <1>4, <2>1 DEF table
      <3> QED
        BY <1>1, <1>2, <1>3, <1>5, <2>1, <3>1 DEF WorkOf, CallOf, VmemFacts, InTable
    <2>2. CASE pc[u] \notin InTable
      <3>1. pc[u] \in {"uncount", "unstat", "free"} => ptr[u] # NoPtr
        BY <1>5 DEF CallOf, VmemFacts
      <3> QED
        BY <1>1, <1>2, <1>5, <1>6, <2>2, <3>1 DEF WorkOf, InTable
    <2> QED
      BY <2>1, <2>2
  <1> QED
    BY <1>2, <1>3, <1>7, <1>8

\* Only the thread's own part is left.
LEMMA AloneIfOwn ==
    ASSUME VmemFacts, VmemTypeOK, VmemCalls, TableAlone, TableWork,
           NEW t \in Threads, VmemStep(t), ~collided',
           AloneOf(t)', alloc_table_size' <= MAX_ALLOC_ENTRIES
    PROVE  TableAlone'
  <1>1. \A u \in Threads : u # t => pc'[u] = pc[u] /\ AloneOf(u)'
    BY OthersWork, OthersKept
  <1>2. pc'[t] \in InTable => pc[t] \in InTable \/ \A u \in Threads : u # t => pc[u] \notin InTable
    BY TableSteps
  <1>3. \A u \in Threads : u # t => ~(pc'[t] \in InTable /\ pc'[u] \in InTable)
    BY <1>1, <1>2 DEF TableAlone
  <1>4. \A u, v \in Threads : pc'[u] \in InTable /\ pc'[v] \in InTable => u = v
    BY <1>1, <1>3 DEF TableAlone
  <1> QED
    BY <1>1, <1>4 DEF TableAlone

\* Entries after the end are empty, unless a thread is about to move the end.
LEMMA EmptyAfterEnd ==
    ASSUME VmemTypeOK, TableAlone, TableSound, NEW t \in Threads, pc[t] \in InTable,
           pc[t] # "new", NEW i \in Cells, tab_ptr[i] # NoPtr
    PROVE  i <= alloc_table_size
  <1>1. i <= alloc_table_size \/ \E u \in Threads : pc[u] = "new"
    BY DEF TableSound
  <1> QED
    BY <1>1 DEF TableAlone, InTable

\* A search that reaches the end has not missed the pointer.
LEMMA SearchedAll ==
    ASSUME VmemFacts, VmemTypeOK, VmemCalls, TableAlone, TableSound, TableWork,
           NEW t \in Threads, pc[t] = "search", slot[t] > alloc_table_size
    PROVE  \A i \in Cells : tab_ptr[i] # ptr[t]
  <1>1. ptr[t] # NoPtr /\ \A i \in Cells : i < slot[t] => tab_ptr[i] # ptr[t]
    BY DEF VmemCalls, CallOf, VmemFacts, TableWork, WorkOf
  <1>2. ASSUME NEW i \in Cells, tab_ptr[i] = ptr[t] PROVE i < slot[t]
    <2>1. i <= alloc_table_size
      BY <1>1, <1>2, EmptyAfterEnd DEF InTable
    <2>2. i \in Nat /\ alloc_table_size \in Nat /\ slot[t] \in Nat
      BY DEF Cells, VmemTypeOK, VmemFacts
    <2> QED
      BY <2>1, <2>2
  <1> QED
    BY <1>1, <1>2

\* A step of t that stores nothing to the table.
StoresNothing(t) ==
    \/ \E b \in Sizes : VmemCheckAlloc(t, b)
    \/ \E p \in Ptrs : VmemFree(t, p)
    \/ VmemRealMalloc(t) \/ FindEntry(t) \/ Room(t) \/ Count(t) \/ Stat(t)
    \/ FindRecord(t) \/ ReadSize(t) \/ Uncount(t) \/ Unstat(t) \/ VmemRealFree(t)

LEMMA OwnAlone ==
    ASSUME VmemFacts, VmemTypeOK, TableAlone, NEW t \in Threads, StoresNothing(t)
    PROVE  AloneOf(t)'
  <1>0. AloneOf(t) /\ alloc_table_size \in Nat
    BY DEF TableAlone, VmemTypeOK, VmemFacts
  <1>1. pc[t] \in {"find", "room", "search"} => Reads(t) = {alloc_table_size}
    BY <1>0 DEF AloneOf, Reads
  <1> USE DEF Transition, VmemLocals, VmemHistory, Keep, VmemReturn, EnterTable, VmemTypeOK, table
  <1>2. ASSUME \/ \E b \in Sizes : VmemCheckAlloc(t, b)
               \/ \E p \in Ptrs : VmemFree(t, p)
               \/ VmemRealMalloc(t) \/ Count(t) \/ Stat(t)
               \/ Uncount(t) \/ Unstat(t) \/ VmemRealFree(t)
        PROVE  AloneOf(t)'
    BY <1>2 DEF VmemCheckAlloc, VmemFree, VmemRealMalloc, Count, Stat, Uncount, Unstat,
                VmemRealFree, AloneOf
  <1>3. CASE FindEntry(t)
    BY <1>0, <1>1, <1>3 DEF FindEntry, AloneOf
  <1>4. CASE Room(t)
    BY <1>0, <1>1, <1>4 DEF Room, AloneOf
  <1>5. CASE FindRecord(t)
    BY <1>0, <1>1, <1>5 DEF FindRecord, AloneOf
  <1>6. CASE ReadSize(t)
    BY <1>0, <1>6 DEF ReadSize, AloneOf
  <1> QED
    BY <1>2, <1>3, <1>4, <1>5, <1>6 DEF StoresNothing

LEMMA OwnWork ==
    ASSUME VmemFacts, VmemTypeOK, VmemCalls, TableInv, NEW t \in Threads, StoresNothing(t)
    PROVE  WorkOf(t)'
  <1>0. /\ WorkOf(t) /\ CallOf(t) /\ AloneOf(t) /\ alloc_table_size \in Nat /\ MaxCells \in Nat
        /\ TableAlone /\ TableSound /\ TableWork /\ TableComplete
    BY DEF TableInv, TableWork, VmemCalls, TableAlone, VmemTypeOK, VmemFacts
  <1>1. pc[t] \in {"find", "room", "search"} => Reads(t) = {alloc_table_size}
    BY <1>0 DEF AloneOf, Reads
  <1> USE DEF Transition, VmemLocals, VmemHistory, Keep, VmemReturn, EnterTable, VmemTypeOK, table
  <1>2. ASSUME \/ \E b \in Sizes : VmemCheckAlloc(t, b)
               \/ VmemRealMalloc(t) \/ Count(t) \/ Stat(t) \/ VmemRealFree(t)
        PROVE  WorkOf(t)'
    BY <1>2 DEF VmemCheckAlloc, VmemRealMalloc, Count, Stat, VmemRealFree, WorkOf
  <1>3. ASSUME NEW p \in Ptrs, VmemFree(t, p) PROVE WorkOf(t)'
    <2>1. \A i \in Cells : ~(i < 1)
      BY <1>0 DEF Cells
    <2> QED
      BY <1>3, <2>1 DEF VmemFree, WorkOf
  <1>4. CASE Uncount(t) \/ Unstat(t)
    BY <1>0, <1>4 DEF Uncount, Unstat, WorkOf
  <1>5. CASE FindEntry(t)
    BY <1>5 DEF FindEntry, WorkOf, EntryOf
  <1>6. CASE Room(t)
    <2>1. CASE pc'[t] = "new"
      <3>1. /\ pc[t] = "room" /\ size_read'[t] = alloc_table_size
            /\ alloc_table_size < MAX_ALLOC_ENTRIES
            /\ todo'[t] = {"ptr", "size", "count"} /\ tab_ptr' = tab_ptr
        BY <1>1, <1>6, <2>1 DEF Room
      <3>2. EntryOf(t)' = alloc_table_size + 1 /\ alloc_table_size + 1 \in Cells
        BY <1>0, <2>1, <3>1 DEF EntryOf, Cells, VmemFacts
      <3>3. tab_ptr[alloc_table_size + 1] = NoPtr
        BY <1>0, <3>1, <3>2, EmptyAfterEnd DEF InTable
      <3> QED
        BY <2>1, <3>1, <3>2, <3>3 DEF WorkOf
    <2>2. CASE pc'[t] # "new"
      BY <1>6, <2>2 DEF Room, WorkOf
    <2> QED
      BY <2>1, <2>2
  <1>7. CASE FindRecord(t)
    <2>1. CASE pc'[t] = "read"
      BY <1>7, <2>1 DEF FindRecord, WorkOf
    <2>2. CASE pc'[t] = "search"
      <3>1. /\ pc[t] = "search" /\ slot'[t] = slot[t] + 1 /\ tab_ptr[slot[t]] # ptr[t]
            /\ tab_ptr' = tab_ptr /\ ptr' = ptr
        BY <1>7, <2>2 DEF FindRecord
      <3>2. \A i \in Cells : i < slot[t] + 1 => i < slot[t] \/ i = slot[t]
        BY DEF Cells
      <3>3. \A i \in Cells : i < slot[t] => tab_ptr[i] # ptr[t]
        BY <1>0, <3>1 DEF WorkOf
      <3> QED
        BY <2>2, <3>1, <3>2, <3>3 DEF WorkOf
    <2>3. CASE pc'[t] = "free"
      <3>1. /\ pc[t] = "search" /\ slot[t] > alloc_table_size /\ ptr' = ptr /\ bytes' = bytes
            /\ UNCHANGED <<live, unfreed, overflowed>>
        BY <1>1, <1>7, <2>3 DEF FindRecord
      <3>2. ptr[t] \in Ptrs /\ live[ptr[t]] > 0 /\ bytes[t] = 0
        BY <1>0, <3>1 DEF CallOf
      <3>3. overflowed \/ ptr[t] \in unfreed
        <4>1. \A i \in Cells : tab_ptr[i] # ptr[t]
          BY <1>0, <3>1, SearchedAll
        <4>2. \A u \in Threads : ptr[u] = ptr[t] => ~Off(u)
          BY <3>1, <3>2 DEF VmemCalls, Off, VmemFacts
        <4> QED
          BY <1>0, <3>2, <4>1, <4>2 DEF TableComplete
      <3> QED
        BY <2>3, <3>1, <3>2, <3>3 DEF WorkOf
    <2> QED
      BY <1>7, <2>1, <2>2, <2>3 DEF FindRecord
  <1>8. CASE ReadSize(t)
    <2>1. /\ pc[t] = "read" /\ pc'[t] = "erase" /\ bytes'[t] = tab_size[slot[t]]
          /\ todo'[t] = {"ptr", "size"} /\ UNCHANGED <<live, tab_ptr, ptr, slot, unfreed>>
      BY <1>8 DEF ReadSize
    <2>2. slot[t] \in Cells /\ tab_ptr[slot[t]] = ptr[t] /\ ptr[t] # NoPtr
      BY <1>0, <2>1 DEF WorkOf, CallOf, VmemFacts
    <2>3. \A u \in Threads : ptr[u] = ptr[t] => ~SizeOpen(u)
      BY <2>1, <2>2 DEF VmemCalls, SizeOpen
    <2>4. tab_size[slot[t]] = live[ptr[t]] /\ ptr[t] \notin unfreed
      BY <1>0, <2>2, <2>3 DEF TableSound
    <2> QED
      BY <2>1, <2>2, <2>4 DEF WorkOf
  <1> QED
    BY <1>2, <1>3, <1>4, <1>5, <1>6, <1>7, <1>8 DEF StoresNothing

\* What a step that stores nothing does to its thread's standing.
LEMMA OwnStanding ==
    ASSUME VmemFacts, VmemTypeOK, VmemCalls, TableInv, NEW t \in Threads, StoresNothing(t)
    PROVE  /\ ptr'[t] # NoPtr /\ Off(t)' => \A i \in Cells : tab_ptr[i] # ptr'[t]
           /\ Off(t) => (Off(t)' /\ ptr'[t] = ptr[t]) \/ overflowed' \/ live'[ptr[t]] = 0 \/ ptr[t] \in unfreed'
           /\ \A i \in Cells : tab_ptr[i] # NoPtr =>
                  live'[tab_ptr[i]] = live[tab_ptr[i]] /\ tab_ptr[i] \notin unfreed'
           /\ \A p \in Ptrs : live'[p] > 0 /\ p \notin unfreed' =>
                  (live[p] > 0 /\ p \notin unfreed) \/ (ptr'[t] = p /\ Off(t)')
  <1> DEFINE Goal ==
           /\ ptr'[t] # NoPtr /\ Off(t)' => \A i \in Cells : tab_ptr[i] # ptr'[t]
           /\ Off(t) => (Off(t)' /\ ptr'[t] = ptr[t]) \/ overflowed' \/ live'[ptr[t]] = 0 \/ ptr[t] \in unfreed'
           /\ \A i \in Cells : tab_ptr[i] # NoPtr =>
                  live'[tab_ptr[i]] = live[tab_ptr[i]] /\ tab_ptr[i] \notin unfreed'
           /\ \A p \in Ptrs : live'[p] > 0 /\ p \notin unfreed' =>
                  (live[p] > 0 /\ p \notin unfreed) \/ (ptr'[t] = p /\ Off(t)')
  <1> SUFFICES Goal
    OBVIOUS
  <1>0. /\ CallOf(t) /\ AloneOf(t) /\ WorkOf(t) /\ NoPtr \notin Ptrs
        /\ TableAlone /\ TableSound /\ TableWork
    BY DEF TableInv, TableWork, VmemCalls, TableAlone, VmemFacts
  <1>1. \A i \in Cells : tab_ptr[i] # NoPtr =>
            tab_ptr[i] \in Ptrs /\ tab_ptr[i] \notin unfreed /\ live[tab_ptr[i]] > 0
    BY <1>0 DEF TableSound, VmemTypeOK
  <1>2. Off(t) /\ ptr[t] # NoPtr => \A i \in Cells : tab_ptr[i] # ptr[t]
    BY <1>0 DEF TableSound
  <1> USE DEF Transition, VmemLocals, VmemHistory, Keep, VmemReturn, EnterTable, VmemTypeOK, table
  <1>3. ASSUME \/ \E b \in Sizes : VmemCheckAlloc(t, b)
               \/ \E p \in Ptrs : VmemFree(t, p)
               \/ Count(t) \/ Stat(t) \/ Uncount(t) \/ Unstat(t) \/ ReadSize(t)
        PROVE  Goal
    <2>1. UNCHANGED <<live, unfreed>>
      BY <1>3 DEF VmemCheckAlloc, VmemFree, Count, Stat, Uncount, Unstat, ReadSize
    <2>2. /\ Off(t)' => ptr'[t] = ptr[t] /\ Off(t)
          /\ Off(t) => Off(t)' /\ ptr'[t] = ptr[t]
      BY <1>3 DEF VmemCheckAlloc, VmemFree, Count, Stat, Uncount, Unstat, ReadSize, Off
    <2> QED
      BY <1>1, <1>2, <2>1, <2>2
  <1>4. CASE FindEntry(t)
    <2>1. UNCHANGED <<live, unfreed, ptr>> /\ Off(t) /\ Off(t)'
      BY <1>4 DEF FindEntry, Off
    <2> QED
      BY <1>1, <1>2, <2>1
  <1>5. CASE Room(t)
    <2>1. UNCHANGED <<live, unfreed, ptr>> /\ Off(t) /\ (Off(t)' \/ overflowed')
      BY <1>5 DEF Room, Off
    <2> QED
      BY <1>1, <1>2, <2>1
  <1>6. CASE FindRecord(t)
    <2>1. UNCHANGED <<live, unfreed, ptr>> /\ ~Off(t)
      BY <1>6 DEF FindRecord, Off
    <2>2. pc[t] = "search" => Reads(t) = {alloc_table_size}
      BY <1>0 DEF AloneOf, Reads
    <2>3. Off(t)' => pc[t] = "search" /\ slot[t] > alloc_table_size
      BY <1>6, <2>2 DEF FindRecord, Off
    <2>4. Off(t)' => \A i \in Cells : tab_ptr[i] # ptr[t]
      BY <1>0, <2>3, SearchedAll
    <2> QED
      BY <1>1, <2>1, <2>4
  <1>7. CASE VmemRealMalloc(t)
    <2>1. CASE VmemReturn(t, "malloc") /\ UNCHANGED <<live, table, usage, lifetime, VmemHistory>>
      <3>1. UNCHANGED <<live, unfreed>> /\ ~Off(t) /\ ptr'[t] = NoPtr
        BY <2>1 DEF Off
      <3> QED
        BY <1>1, <3>1
    <2>2. ASSUME NEW p \in Ptrs, live[p] = 0, EnterTable(t, "malloc", "find", p),
                 live' = [live EXCEPT ![p] = bytes[t]],
                 UNCHANGED <<table, usage, bytes, todo, lifetime, unfreed, overflowed>>
          PROVE  Goal
      <3>1. /\ ~Off(t) /\ ptr'[t] = p /\ Off(t)' /\ unfreed' = unfreed
            /\ \A q \in Ptrs : q # p => live'[q] = live[q]
        BY <2>2 DEF Off
      <3>2. \A i \in Cells : tab_ptr[i] # p
        BY <1>0, <1>1, <2>2
      <3> QED
        BY <1>1, <3>1, <3>2
    <2> QED
      BY <1>7, <2>1, <2>2 DEF VmemRealMalloc
  <1>8. CASE VmemRealFree(t)
    <2>1. /\ Off(t) /\ ptr[t] \in Ptrs /\ ptr'[t] = NoPtr
          /\ \A q \in Ptrs : q # ptr[t] => live'[q] = live[q] /\ (q \in unfreed' <=> q \in unfreed)
          /\ live'[ptr[t]] = 0 \/ ptr[t] \in unfreed'
      BY <1>0, <1>8 DEF VmemRealFree, Off, CallOf
    <2>2. \A i \in Cells : tab_ptr[i] # ptr[t]
      BY <1>0, <1>2, <2>1
    <2>3. ~(0 > 0)
      OBVIOUS
    <2> QED
      BY <1>1, <2>1, <2>2, <2>3
  <1> HIDE DEF Goal
  <1> QED
    BY <1>3, <1>4, <1>5, <1>6, <1>7, <1>8 DEF StoresNothing

LEMMA TableKeptQuietly ==
    ASSUME VmemFacts, VmemTypeOK, VmemCalls, VmemCalls', TableInv,
           NEW t \in Threads, StoresNothing(t), ~collided'
    PROVE  TableInv'
  <1>0. VmemStep(t) /\ TableAlone /\ TableSound /\ TableWork /\ TableComplete
    BY DEF StoresNothing, VmemStep, TableInv
  <1>1. /\ tab_ptr' = tab_ptr /\ tab_size' = tab_size /\ alloc_table_size' = alloc_table_size
        /\ pc[t] \notin {"write", "new", "erase"}
    <2>1. StoresNothing(t) => UNCHANGED table /\ pc[t] \notin {"write", "new", "erase"}
      BY DEF StoresNothing, VmemCheckAlloc, VmemFree, Count, Stat, Uncount, Unstat, ReadSize,
             FindEntry, Room, FindRecord, VmemRealMalloc, VmemRealFree, Transition, VmemReturn,
             EnterTable
    <2> QED
      BY <2>1 DEF table
  <1>2. /\ ptr'[t] # NoPtr /\ Off(t)' => \A i \in Cells : tab_ptr[i] # ptr'[t]
        /\ Off(t) => (Off(t)' /\ ptr'[t] = ptr[t]) \/ overflowed' \/ live'[ptr[t]] = 0 \/ ptr[t] \in unfreed'
        /\ \A i \in Cells : tab_ptr[i] # NoPtr =>
               live'[tab_ptr[i]] = live[tab_ptr[i]] /\ tab_ptr[i] \notin unfreed'
        /\ \A p \in Ptrs : live'[p] > 0 /\ p \notin unfreed' =>
               (live[p] > 0 /\ p \notin unfreed) \/ (ptr'[t] = p /\ Off(t)')
    BY OwnStanding
  <1>3. \A u \in Threads : u # t =>
            /\ pc'[u] = pc[u] /\ ptr'[u] = ptr[u] /\ EntryOf(u)' = EntryOf(u)
            /\ (Off(u)' <=> Off(u)) /\ (SizeOpen(u)' <=> SizeOpen(u)) /\ WorkOf(u)'
    BY <1>0, OthersKept, OthersWork
  <1>4. TableAlone'
    <2>1. AloneOf(t)'
      BY <1>0, OwnAlone
    <2> QED
      BY <1>0, <1>1, <2>1, AloneIfOwn DEF TableAlone
  <1>5. TableWork'
    BY <1>3, OwnWork DEF TableWork
  <1>6. TableSound'
    <2>1. ASSUME NEW i \in Cells, tab_ptr'[i] # NoPtr
          PROVE  /\ tab_ptr'[i] \notin unfreed' /\ live'[tab_ptr'[i]] > 0
                 /\ i <= alloc_table_size' \/ \E u \in Threads : pc'[u] = "new" /\ i = EntryOf(u)'
                 /\ \A u \in Threads : ptr'[u] = tab_ptr'[i] => ~Off(u)'
                 /\ \/ tab_size'[i] = live'[tab_ptr'[i]]
                    \/ \E u \in Threads : ptr'[u] = tab_ptr'[i] /\ SizeOpen(u)'
      <3>1. tab_ptr[i] # NoPtr /\ tab_ptr'[i] = tab_ptr[i] /\ tab_size'[i] = tab_size[i]
        BY <1>1, <2>1
      <3>2. /\ live[tab_ptr[i]] > 0
            /\ i <= alloc_table_size \/ \E u \in Threads : pc[u] = "new" /\ i = EntryOf(u)
            /\ \A u \in Threads : ptr[u] = tab_ptr[i] => ~Off(u)
            /\ \/ tab_size[i] = live[tab_ptr[i]]
               \/ \E u \in Threads : ptr[u] = tab_ptr[i] /\ SizeOpen(u)
        BY <1>0, <3>1 DEF TableSound
      <3>3. tab_ptr'[i] \notin unfreed' /\ live'[tab_ptr'[i]] = live[tab_ptr[i]]
        BY <1>2, <3>1
      <3>4. i <= alloc_table_size' \/ \E u \in Threads : pc'[u] = "new" /\ i = EntryOf(u)'
        BY <1>1, <1>3, <3>2
      <3>5. \A u \in Threads : ptr'[u] = tab_ptr'[i] => ~Off(u)'
        BY <1>2, <1>3, <3>1, <3>2
      <3>6. ~SizeOpen(t)
        BY <1>1 DEF SizeOpen
      <3>7. \/ tab_size'[i] = live'[tab_ptr'[i]]
            \/ \E u \in Threads : ptr'[u] = tab_ptr'[i] /\ SizeOpen(u)'
        BY <1>3, <3>1, <3>2, <3>3, <3>6
      <3> QED
        BY <3>2, <3>3, <3>4, <3>5, <3>7
    <2>2. \A i, j \in Cells : tab_ptr'[i] = tab_ptr'[j] /\ tab_ptr'[i] # NoPtr => i = j
      BY <1>0, <1>1 DEF TableSound
    <2> QED
      BY <2>1, <2>2 DEF TableSound
  <1>7. TableComplete'
    <2> SUFFICES ASSUME ~overflowed', NEW p \in Ptrs, live'[p] > 0, p \notin unfreed'
                 PROVE  (\E i \in Cells : tab_ptr'[i] = p)
                        \/ (\E u \in Threads : ptr'[u] = p /\ Off(u)')
      BY DEF TableComplete
    <2>1. CASE ptr'[t] = p /\ Off(t)'
      BY <2>1
    <2>2. CASE live[p] > 0 /\ p \notin unfreed
      <3>1. ~overflowed
        BY <1>0, TableSteps
      <3>2. CASE \E i \in Cells : tab_ptr[i] = p
        BY <1>1, <3>2
      <3>3. ASSUME NEW u \in Threads, ptr[u] = p, Off(u)
            PROVE  \E v \in Threads : ptr'[v] = p /\ Off(v)'
        <4>1. CASE u # t
          BY <1>3, <3>3, <4>1
        <4>2. CASE u = t
          <5>1. live'[p] # 0
            BY VmemNumbers DEF VmemTypeOK, VmemCalls
          <5> QED
            BY <1>2, <3>3, <4>2, <5>1
        <4> QED
          BY <4>1, <4>2
      <3> QED
        BY <1>0, <2>2, <3>1, <3>2, <3>3 DEF TableComplete
    <2> QED
      BY <1>2, <2>1, <2>2
  <1> QED
    BY <1>4, <1>5, <1>6, <1>7 DEF TableInv

\* What a store does.
LEMMA StoreEffect ==
    ASSUME VmemTypeOK, NEW t \in Threads, NEW i \in Cells, NEW w, NEW p, NEW b,
           NEW from, NEW to, from # to, StoreIn(t, i, w, p, b, from, to)
    PROVE  /\ \A j \in Cells : tab_ptr'[j] = IF w = "ptr" /\ j = i THEN p ELSE tab_ptr[j]
           /\ \A j \in Cells : tab_size'[j] = IF w = "size" /\ j = i THEN b ELSE tab_size[j]
           /\ alloc_table_size' = IF w = "count" THEN i ELSE alloc_table_size
           /\ w \in todo[t] /\ todo'[t] = todo[t] \ {w} /\ pc[t] = from
           /\ pc'[t] = IF todo[t] = {w} THEN to ELSE from
           /\ pc'[t] = from => slot'[t] = slot[t]
           /\ pc'[t] = from /\ from = "new" => size_read'[t] = i - 1
           /\ UNCHANGED <<live, usage, ptr, bytes, unfreed, overflowed, collided>>
  <1>1. /\ w \in todo[t] /\ todo'[t] = todo[t] \ {w} /\ pc[t] = from
        /\ alloc_table_size' = IF w = "count" THEN i ELSE alloc_table_size
        /\ UNCHANGED <<live, usage, ptr, bytes, unfreed, overflowed, collided>>
    BY DEF StoreIn, Keep, Transition, VmemTypeOK, VmemHistory
  <1>2. /\ \A j \in Cells : tab_ptr'[j] = IF w = "ptr" /\ j = i THEN p ELSE tab_ptr[j]
        /\ \A j \in Cells : tab_size'[j] = IF w = "size" /\ j = i THEN b ELSE tab_size[j]
    BY DEF StoreIn, VmemTypeOK
  <1>3. /\ pc'[t] = IF todo[t] = {w} THEN to ELSE from
        /\ pc'[t] = from => slot'[t] = slot[t]
        /\ pc'[t] = from /\ from = "new" => size_read'[t] = i - 1
    BY DEF StoreIn, Keep, Transition, VmemTypeOK
  <1> QED
    BY <1>1, <1>2, <1>3

\* The record of t in entry i is being written.
LEMMA TableKeptByFill ==
    ASSUME VmemFacts, VmemTypeOK, VmemCalls, TableInv, ~collided',
           NEW t \in Threads, NEW w, VmemStep(t), NEW from \in {"write", "new"},
           NEW i \in Cells, i = EntryOf(t),
           StoreIn(t, i, w, ptr[t], bytes[t], from, "count")
    PROVE  TableInv'
  <1>0. /\ CallOf(t) /\ AloneOf(t) /\ WorkOf(t) /\ NoPtr \notin Ptrs
        /\ TableAlone /\ TableSound /\ TableWork /\ TableComplete
    BY DEF TableInv, TableWork, VmemCalls, TableAlone, VmemFacts
  <1>1. /\ \A j \in Cells : tab_ptr'[j] = IF w = "ptr" /\ j = i THEN ptr[t] ELSE tab_ptr[j]
        /\ \A j \in Cells : tab_size'[j] = IF w = "size" /\ j = i THEN bytes[t] ELSE tab_size[j]
        /\ alloc_table_size' = IF w = "count" THEN i ELSE alloc_table_size
        /\ w \in todo[t] /\ todo'[t] = todo[t] \ {w} /\ pc[t] = from
        /\ pc'[t] = IF todo[t] = {w} THEN "count" ELSE from
        /\ pc'[t] = from => slot'[t] = slot[t]
        /\ pc'[t] = from /\ from = "new" => size_read'[t] = i - 1
        /\ UNCHANGED <<live, usage, ptr, bytes, unfreed, overflowed, collided>>
    BY StoreEffect
  <1>2. /\ ptr[t] \in Ptrs /\ live[ptr[t]] > 0 /\ ptr[t] \notin unfreed
        /\ bytes[t] = live[ptr[t]]
        /\ from = "write" => todo[t] \subseteq {"ptr", "size"}
    BY <1>0, <1>1 DEF CallOf
  <1>3. /\ tab_ptr[i] = IF "ptr" \in todo[t] THEN NoPtr ELSE ptr[t]
        /\ "size" \notin todo[t] => tab_size[i] = bytes[t]
    BY <1>0, <1>1 DEF WorkOf
  <1>4. \A u \in Threads : u # t =>
            /\ pc'[u] = pc[u] /\ ptr'[u] = ptr[u] /\ EntryOf(u)' = EntryOf(u)
            /\ (Off(u)' <=> Off(u)) /\ (SizeOpen(u)' <=> SizeOpen(u)) /\ WorkOf(u)'
            /\ ptr[u] # ptr[t] /\ pc[u] \notin InTable
    <2>1. \A u \in Threads : u # t => ptr[u] # ptr[t] /\ pc[u] \notin InTable
      BY <1>0, <1>1, <1>2 DEF VmemCalls, TableAlone, InTable
    <2> QED
      BY <1>0, <2>1, OthersKept, OthersWork
  <1>5. /\ i \in Nat /\ alloc_table_size \in Nat /\ size_read[t] \in Nat
        /\ MAX_ALLOC_ENTRIES \in Nat /\ alloc_table_size <= MAX_ALLOC_ENTRIES
    BY <1>0 DEF Cells, VmemTypeOK, VmemFacts, TableAlone
  <1>6. /\ from = "write" => i = slot[t] /\ i <= alloc_table_size
        /\ from = "new" => /\ i = size_read[t] + 1
                           /\ "count" \in todo[t] => /\ i = alloc_table_size + 1
                                                     /\ alloc_table_size < MAX_ALLOC_ENTRIES
                           /\ "count" \notin todo[t] => i = alloc_table_size
    BY <1>0, <1>1, <1>5 DEF EntryOf, AloneOf
  <1>7. /\ alloc_table_size <= alloc_table_size' /\ alloc_table_size' <= MAX_ALLOC_ENTRIES
        /\ alloc_table_size' \in Nat
    BY <1>1, <1>2, <1>5, <1>6
  <1>8. pc'[t] = from => EntryOf(t)' = i
    BY <1>1, <1>5, <1>6 DEF EntryOf
  <1>9. \A j \in Cells : j # i => tab_ptr[j] # ptr[t]
    <2>1. CASE "ptr" \in todo[t]
      BY <1>0, <1>1, <1>2, <2>1 DEF TableSound, Off
    <2>2. CASE "ptr" \notin todo[t]
      BY <1>0, <1>2, <1>3, <2>2 DEF TableSound
    <2> QED
      BY <2>1, <2>2
  <1>10. /\ tab_ptr'[i] = IF "ptr" \in todo'[t] THEN NoPtr ELSE ptr[t]
         /\ "size" \notin todo'[t] => tab_size'[i] = bytes[t]
         /\ \A j \in Cells : j # i => tab_ptr'[j] = tab_ptr[j] /\ tab_size'[j] = tab_size[j]
    BY <1>1, <1>3
  <1>11. TableAlone'
    <2>1. AloneOf(t)'
      <3>1. CASE pc'[t] = "count"
        BY <3>1 DEF AloneOf
      <3>2. CASE pc'[t] = "write"
        BY <1>1, <1>2, <1>6, <3>2 DEF AloneOf
      <3>3. CASE pc'[t] = "new"
        <4>1. from = "new" /\ size_read'[t] = i - 1
          BY <1>1, <3>3
        <4>2. CASE "count" \in todo'[t]
          BY <1>1, <1>5, <1>6, <3>3, <4>1, <4>2 DEF AloneOf
        <4>3. CASE "count" \notin todo'[t]
          <5>1. alloc_table_size' = i
            BY <1>1, <1>6, <4>1, <4>3
          <5> QED
            BY <1>5, <3>3, <4>1, <4>3, <5>1 DEF AloneOf
        <4> QED
          BY <4>2, <4>3
      <3> QED
        BY <1>1, <3>1, <3>2, <3>3
    <2> QED
      BY <1>0, <1>7, <2>1, AloneIfOwn
  <1>12. TableWork'
    <2>1. WorkOf(t)'
      <3>1. CASE pc'[t] = "count"
        BY <3>1 DEF WorkOf
      <3>2. CASE pc'[t] = from
        BY <1>1, <1>8, <1>10, <3>2 DEF WorkOf
      <3> QED
        BY <1>1, <3>1, <3>2
    <2> QED
      BY <1>4, <2>1 DEF TableWork
  <1>13. TableSound'
    <2>1. ASSUME NEW j \in Cells, tab_ptr'[j] # NoPtr
          PROVE  /\ tab_ptr'[j] \notin unfreed' /\ live'[tab_ptr'[j]] > 0
                 /\ j <= alloc_table_size' \/ \E u \in Threads : pc'[u] = "new" /\ j = EntryOf(u)'
                 /\ \A u \in Threads : ptr'[u] = tab_ptr'[j] => ~Off(u)'
                 /\ \/ tab_size'[j] = live'[tab_ptr'[j]]
                    \/ \E u \in Threads : ptr'[u] = tab_ptr'[j] /\ SizeOpen(u)'
      <3>1. CASE j = i
        <4>1. "ptr" \notin todo'[t] /\ tab_ptr'[j] = ptr[t]
          BY <1>10, <2>1, <3>1
        <4>2. ~Off(t)'
          BY <1>1, <4>1 DEF Off
        <4>3. \A u \in Threads : ptr'[u] = tab_ptr'[j] => ~Off(u)'
          BY <1>1, <1>4, <4>1, <4>2
        <4>4. i <= alloc_table_size' \/ pc'[t] = "new"
          <5>1. CASE from = "write"
            BY <1>5, <1>6, <1>7, <5>1
          <5>2. CASE from = "new" /\ pc'[t] # "new"
            <6>1. todo[t] = {w}
              BY <1>1, <5>2
            <6>2. alloc_table_size' = i
              BY <1>1, <1>6, <5>2, <6>1
            <6> QED
              BY <1>5, <6>2
          <5> QED
            BY <5>1, <5>2
        <4>5. i <= alloc_table_size' \/ \E u \in Threads : pc'[u] = "new" /\ i = EntryOf(u)'
          BY <1>1, <1>8, <4>4
        <4>6. tab_size'[i] = live[ptr[t]] \/ SizeOpen(t)'
          <5>1. CASE "size" \in todo'[t]
            BY <1>1, <5>1 DEF SizeOpen
          <5>2. CASE "size" \notin todo'[t]
            BY <1>2, <1>10, <5>2
          <5> QED
            BY <5>1, <5>2
        <4> QED
          BY <1>1, <1>2, <3>1, <4>1, <4>3, <4>5, <4>6
      <3>2. CASE j # i
        <4>1. tab_ptr'[j] = tab_ptr[j] /\ tab_size'[j] = tab_size[j] /\ tab_ptr[j] # NoPtr
          BY <1>10, <2>1, <3>2
        <4>2. /\ tab_ptr[j] \notin unfreed /\ live[tab_ptr[j]] > 0
              /\ j <= alloc_table_size \/ \E u \in Threads : pc[u] = "new" /\ j = EntryOf(u)
              /\ \A u \in Threads : ptr[u] = tab_ptr[j] => ~Off(u)
              /\ \/ tab_size[j] = live[tab_ptr[j]]
                 \/ \E u \in Threads : ptr[u] = tab_ptr[j] /\ SizeOpen(u)
          BY <1>0, <4>1 DEF TableSound
        <4>3. tab_ptr[j] # ptr[t]
          BY <1>9, <3>2
        <4>4. j <= alloc_table_size'
          <5>1. j <= alloc_table_size
            BY <1>4, <3>2, <4>2 DEF InTable
          <5> QED
            BY <1>5, <1>7, <5>1 DEF Cells
        <4>5. \A u \in Threads : ptr'[u] = tab_ptr'[j] => ~Off(u)'
          BY <1>1, <1>4, <4>1, <4>2, <4>3
        <4>6. \/ tab_size'[j] = live'[tab_ptr'[j]]
              \/ \E u \in Threads : ptr'[u] = tab_ptr'[j] /\ SizeOpen(u)'
          BY <1>1, <1>4, <4>1, <4>2, <4>3
        <4> QED
          BY <1>1, <4>1, <4>2, <4>4, <4>5, <4>6
      <3> QED
        BY <3>1, <3>2
    <2>2. \A j, k \in Cells : tab_ptr'[j] = tab_ptr'[k] /\ tab_ptr'[j] # NoPtr => j = k
      BY <1>0, <1>9, <1>10 DEF TableSound
    <2> QED
      BY <2>1, <2>2 DEF TableSound
  <1>14. TableComplete'
    <2> SUFFICES ASSUME ~overflowed, NEW p \in Ptrs, live[p] > 0, p \notin unfreed
                 PROVE  (\E j \in Cells : tab_ptr'[j] = p)
                        \/ (\E u \in Threads : ptr'[u] = p /\ Off(u)')
      BY <1>1 DEF TableComplete
    <2>1. ASSUME NEW j \in Cells, tab_ptr[j] = p PROVE tab_ptr'[j] = p
      BY <1>0, <1>1, <1>3, <2>1
    <2>2. ASSUME NEW u \in Threads, u # t, ptr[u] = p, Off(u) PROVE ptr'[u] = p /\ Off(u)'
      BY <1>4, <2>2
    <2>3. CASE ptr[t] = p /\ Off(t)
      <3>1. CASE w = "ptr"
        BY <1>1, <2>3, <3>1
      <3>2. CASE w # "ptr"
        <4>1. "ptr" \in todo[t]
          BY <1>1, <2>3 DEF Off
        <4>2. "ptr" \in todo'[t] /\ pc'[t] = from /\ ptr'[t] = p
          BY <1>1, <2>3, <3>2, <4>1
        <4>3. Off(t)'
          BY <4>2 DEF Off
        <4> QED
          BY <4>2, <4>3
      <3> QED
        BY <3>1, <3>2
    <2> QED
      BY <1>0, <2>1, <2>2, <2>3 DEF TableComplete
  <1> QED
    BY <1>11, <1>12, <1>13, <1>14 DEF TableInv

\* The record of t is being erased.
LEMMA TableKeptByErase ==
    ASSUME VmemFacts, VmemTypeOK, VmemCalls, TableInv, ~collided',
           NEW t \in Threads, NEW w, EraseEntry(t, w), VmemStep(t)
    PROVE  TableInv'
  <1>0. /\ CallOf(t) /\ AloneOf(t) /\ WorkOf(t) /\ NoPtr \notin Ptrs
        /\ TableAlone /\ TableSound /\ TableWork /\ TableComplete
    BY DEF TableInv, TableWork, VmemCalls, TableAlone, VmemFacts
  <1>a. pc[t] = "erase"
    BY DEF EraseEntry, StoreIn, Transition
  <1>b. PICK i \in Cells : i = slot[t]
    BY <1>0, <1>a DEF CallOf
  <1>c. StoreIn(t, i, w, NoPtr, 0, "erase", "uncount")
    BY <1>b DEF EraseEntry, StoreIn
  <1>1. /\ \A j \in Cells : tab_ptr'[j] = IF w = "ptr" /\ j = i THEN NoPtr ELSE tab_ptr[j]
        /\ \A j \in Cells : tab_size'[j] = IF w = "size" /\ j = i THEN 0 ELSE tab_size[j]
        /\ alloc_table_size' = IF w = "count" THEN i ELSE alloc_table_size
        /\ w \in todo[t] /\ todo'[t] = todo[t] \ {w}
        /\ pc'[t] = IF todo[t] = {w} THEN "uncount" ELSE "erase"
        /\ pc'[t] = "erase" => slot'[t] = slot[t]
        /\ UNCHANGED <<live, usage, ptr, bytes, unfreed, overflowed, collided>>
    <2>1. "erase" # "uncount"
      OBVIOUS
    <2> QED
      BY <1>a, <1>c, <2>1, StoreEffect
  <1>2. ptr[t] \in Ptrs /\ todo[t] \subseteq {"ptr", "size"}
    BY <1>0, <1>a DEF CallOf
  <1>3. /\ tab_ptr[i] = IF "ptr" \in todo[t] THEN ptr[t] ELSE NoPtr
        /\ bytes[t] = live[ptr[t]] /\ ptr[t] \notin unfreed /\ i <= alloc_table_size
    BY <1>0, <1>a, <1>b DEF WorkOf, AloneOf
  <1>4. \A u \in Threads : u # t =>
            /\ pc'[u] = pc[u] /\ ptr'[u] = ptr[u] /\ EntryOf(u)' = EntryOf(u)
            /\ (Off(u)' <=> Off(u)) /\ (SizeOpen(u)' <=> SizeOpen(u)) /\ WorkOf(u)'
            /\ ptr[u] # ptr[t] /\ pc[u] \notin InTable
    <2>1. \A u \in Threads : u # t => ptr[u] # ptr[t] /\ pc[u] \notin InTable
      BY <1>0, <1>a, <1>2 DEF VmemCalls, TableAlone, InTable
    <2> QED
      BY <1>0, <2>1, OthersKept, OthersWork
  <1>5. w \in {"ptr", "size"} /\ alloc_table_size' = alloc_table_size
    BY <1>1, <1>2
  <1>6. \A j \in Cells : j # i => tab_ptr[j] # ptr[t]
    <2>1. CASE "ptr" \in todo[t]
      BY <1>0, <1>b, <1>2, <1>3, <2>1 DEF TableSound
    <2>2. CASE "ptr" \notin todo[t]
      BY <1>0, <1>a, <1>2, <2>2 DEF TableSound, Off
    <2> QED
      BY <2>1, <2>2
  <1>7. /\ tab_ptr'[i] = IF "ptr" \in todo'[t] THEN ptr[t] ELSE NoPtr
        /\ \A j \in Cells : j # i => tab_ptr'[j] = tab_ptr[j] /\ tab_size'[j] = tab_size[j]
    BY <1>b, <1>1, <1>3
  <1>8. "ptr" \notin todo'[t] => Off(t)'
    BY <1>1 DEF Off
  <1>9. "ptr" \in todo'[t] => pc'[t] = "erase" /\ w = "size" /\ ~Off(t)' /\ SizeOpen(t)'
    BY <1>1, <1>5 DEF Off, SizeOpen
  <1>10. TableAlone'
    <2>1. AloneOf(t)'
      BY <1>b, <1>1, <1>3, <1>5 DEF AloneOf
    <2>2. alloc_table_size' <= MAX_ALLOC_ENTRIES
      BY <1>0, <1>5 DEF TableAlone
    <2> QED
      BY <1>0, <2>1, <2>2, AloneIfOwn
  <1>11. TableWork'
    <2>1. WorkOf(t)'
      BY <1>b, <1>1, <1>3, <1>7 DEF WorkOf
    <2> QED
      BY <1>4, <2>1 DEF TableWork
  <1>12. TableSound'
    <2>1. ASSUME NEW j \in Cells, tab_ptr'[j] # NoPtr
          PROVE  /\ tab_ptr'[j] \notin unfreed' /\ live'[tab_ptr'[j]] > 0
                 /\ j <= alloc_table_size'
                 /\ \A u \in Threads : ptr'[u] = tab_ptr'[j] => ~Off(u)'
                 /\ \/ tab_size'[j] = live'[tab_ptr'[j]]
                    \/ \E u \in Threads : ptr'[u] = tab_ptr'[j] /\ SizeOpen(u)'
      <3>0. tab_ptr[j] # NoPtr
        BY <1>1, <2>1
      <3>1. /\ tab_ptr[j] \notin unfreed /\ live[tab_ptr[j]] > 0
            /\ j <= alloc_table_size \/ \E u \in Threads : pc[u] = "new"
            /\ \A u \in Threads : ptr[u] = tab_ptr[j] => ~Off(u)
            /\ \/ tab_size[j] = live[tab_ptr[j]]
               \/ \E u \in Threads : ptr[u] = tab_ptr[j] /\ SizeOpen(u)
        BY <1>0, <3>0 DEF TableSound
      <3>2. j <= alloc_table_size'
        BY <1>a, <1>4, <1>5, <3>1 DEF InTable
      <3>3. CASE j = i
        <4>1. "ptr" \in todo'[t] /\ tab_ptr'[j] = ptr[t] /\ tab_ptr[j] = tab_ptr'[j]
          BY <1>1, <1>7, <2>1, <3>3
        <4> QED
          BY <1>1, <1>4, <1>9, <3>1, <3>2, <4>1
      <3>4. CASE j # i
        <4>1. tab_ptr[j] # ptr[t] /\ tab_ptr'[j] = tab_ptr[j] /\ tab_size'[j] = tab_size[j]
          BY <1>6, <1>7, <3>4
        <4>2. \A u \in Threads : ptr'[u] = tab_ptr'[j] => ~Off(u)'
          BY <1>1, <1>4, <3>1, <4>1
        <4>3. \/ tab_size'[j] = live'[tab_ptr'[j]]
              \/ \E u \in Threads : ptr'[u] = tab_ptr'[j] /\ SizeOpen(u)'
          BY <1>1, <1>4, <3>1, <4>1
        <4> QED
          BY <1>1, <3>1, <3>2, <4>1, <4>2, <4>3
      <3> QED
        BY <3>3, <3>4
    <2>2. \A j, k \in Cells : tab_ptr'[j] = tab_ptr'[k] /\ tab_ptr'[j] # NoPtr => j = k
      BY <1>0, <1>1 DEF TableSound
    <2> QED
      BY <2>1, <2>2 DEF TableSound
  <1>13. TableComplete'
    <2> SUFFICES ASSUME ~overflowed, NEW p \in Ptrs, live[p] > 0, p \notin unfreed
                 PROVE  (\E j \in Cells : tab_ptr'[j] = p)
                        \/ (\E u \in Threads : ptr'[u] = p /\ Off(u)')
      BY <1>1 DEF TableComplete
    <2>1. CASE p # ptr[t]
      <3>1. ASSUME NEW j \in Cells, tab_ptr[j] = p PROVE tab_ptr'[j] = p
        <4>1. j # i
          BY <1>0, <1>3, <2>1, <3>1
        <4> QED
          BY <1>7, <3>1, <4>1
      <3>2. ASSUME NEW u \in Threads, ptr[u] = p, Off(u) PROVE ptr'[u] = p /\ Off(u)'
        BY <1>4, <2>1, <3>2
      <3> QED
        BY <1>0, <3>1, <3>2 DEF TableComplete
    <2>2. CASE p = ptr[t]
      BY <1>b, <1>1, <1>7, <1>8, <2>2
    <2> QED
      BY <2>1, <2>2
  <1> QED
    BY <1>10, <1>11, <1>12, <1>13 DEF TableInv

LEMMA TableKept ==
    ASSUME VmemFacts, VmemTypeOK, VmemCalls, VmemCalls', TableInv,
           NEW t \in Threads, VmemStep(t), ~collided'
    PROVE  TableInv'
  <1>1. CASE StoresNothing(t)
    BY <1>1, TableKeptQuietly
  <1>2. ASSUME NEW w \in {"ptr", "size", "count"}, WriteEntry(t, w) PROVE TableInv'
    <2>1. pc[t] = "write"
      BY <1>2 DEF WriteEntry, StoreIn, Transition
    <2>2. PICK i \in Cells : i = slot[t]
      BY <2>1 DEF VmemCalls, CallOf
    <2>3. i = EntryOf(t) /\ StoreIn(t, i, w, ptr[t], bytes[t], "write", "count")
      BY <1>2, <2>1, <2>2 DEF EntryOf, WriteEntry, StoreIn
    <2> QED
      BY <2>3, TableKeptByFill
  <1>3. ASSUME NEW w \in {"ptr", "size", "count"}, NewEntry(t, w) PROVE TableInv'
    <2>1. PICK n \in IF "count" \in todo[t] THEN Reads(t) ELSE {size_read[t]} :
              n < MaxCells /\ StoreIn(t, n + 1, w, ptr[t], bytes[t], "new", "count")
      BY <1>3 DEF NewEntry
    <2>2. pc[t] = "new"
      BY <2>1 DEF StoreIn, Transition
    <2>3. n = size_read[t]
      BY <2>1, <2>2 DEF TableInv, TableAlone, AloneOf, Reads
    <2>4. n + 1 \in Cells /\ n + 1 = EntryOf(t)
      BY <2>1, <2>2, <2>3 DEF EntryOf, Cells, VmemTypeOK, VmemFacts
    <2> QED
      BY <2>1, <2>4, TableKeptByFill
  <1>4. ASSUME NEW w \in {"ptr", "size", "count"}, EraseEntry(t, w) PROVE TableInv'
    BY <1>4, TableKeptByErase
  <1> QED
    BY <1>1, <1>2, <1>3, <1>4 DEF VmemStep, StoresNothing

-----------------------------------------------------------------------------
(* The books of the bytes *)

HeldAt == [p \in Ptrs |-> IF p \in unfreed THEN 0 ELSE live[p]]

LEMMA HeldNumbers ==
    ASSUME VmemFacts, VmemTypeOK
    PROVE  HeldAt \in [Ptrs -> Nat] /\ Held = Total(HeldAt) /\ Held \in Nat
  <1>1. HeldAt \in [Ptrs -> Nat]
    BY VmemNumbers DEF HeldAt
  <1>2. Held = Total(HeldAt)
    BY DEF Held, HeldAt
  <1> QED
    BY <1>1, <1>2, TotalIsNatural DEF VmemFacts

\* What is held changes at one pointer.
LEMMA HeldOfStep ==
    ASSUME VmemFacts, VmemTypeOK, VmemTypeOK', NEW p \in Ptrs,
           \A q \in Ptrs : q # p => live'[q] = live[q] /\ (q \in unfreed' <=> q \in unfreed)
    PROVE  Held' = Held - HeldAt[p] + HeldAt'[p]
  <1>1. HeldAt \in [Ptrs -> Nat] /\ Held = Total(HeldAt) /\ IsFiniteSet(Ptrs)
    BY HeldNumbers DEF VmemFacts
  <1>2. live' \in [Ptrs -> {0} \cup Sizes] /\ \A b \in {0} \cup Sizes : b \in Nat
    BY DEF VmemTypeOK, VmemFacts
  <1>3. HeldAt'[p] \in Nat
    BY <1>2 DEF HeldAt
  <1>4. HeldAt' = [HeldAt EXCEPT ![p] = HeldAt'[p]]
    BY DEF HeldAt
  <1>5. Held' = Total(HeldAt')
    BY DEF Held, HeldAt
  <1>6. ASSUME NEW k \in Nat
        PROVE  Total([HeldAt EXCEPT ![p] = k]) = Total(HeldAt) - HeldAt[p] + k
    BY <1>1, TotalExcept
  <1> QED
    BY <1>1, <1>3, <1>4, <1>5, <1>6

\* A thread that has not been admitted leaves room for one allocation of each
\* of the others.
LEMMA ClaimsOfOthers ==
    ASSUME VmemFacts, VmemTypeOK, NEW t \in Threads, pc[t] = "app"
    PROVE  Total(VmemClaims) <= VmemMargin
  <1> DEFINE m == Max(Sizes)
             n == Cardinality(Threads)
             full == [VmemClaims EXCEPT ![t] = m]
  <1>1. /\ IsFiniteSet(Threads) /\ m \in Nat /\ n \in Nat
        /\ \A u \in Threads : bytes[u] \in 0 .. m
    BY VmemNumbers DEF VmemFacts
  <1> HIDE DEF m, n
  <1>2. VmemClaims \in [Threads -> 0 .. m] /\ VmemClaims[t] = 0
    BY <1>1 DEF VmemClaims, ClaimAt, OwedAt
  <1>3. full \in [Threads -> 0 .. m]
    BY <1>1, <1>2
  <1>4. Total(full) <= n * m
    BY <1>1, <1>3, TotalBounded DEF n
  <1>5. VmemClaims \in [Threads -> Nat]
    BY <1>1, <1>2
  <1>6. Total(full) = Total(VmemClaims) - VmemClaims[t] + m
    BY <1>1, <1>5, TotalExcept
  <1>7. Total(VmemClaims) \in Nat
    BY <1>1, <1>5, TotalIsNatural
  <1>8. n * m = (n - 1) * m + m /\ (n - 1) * m \in Int
    BY <1>1
  <1>9. Total(VmemClaims) <= (n - 1) * m
    BY <1>1, <1>2, <1>4, <1>6, <1>7, <1>8
  <1> QED
    BY <1>9 DEF n, m, VmemMargin

\* Most steps leave a thread's accounts as they are.
LEMMA BooksUntouched ==
    ASSUME VmemFacts, VmemTypeOK, VmemCalls, NEW t \in Threads,
           \/ \E p \in Ptrs : VmemFree(t, p)
           \/ FindEntry(t) \/ Room(t) \/ Stat(t) \/ FindRecord(t) \/ ReadSize(t) \/ Unstat(t)
           \/ \E w \in {"ptr", "size", "count"} :
                  WriteEntry(t, w) \/ NewEntry(t, w) \/ EraseEntry(t, w)
    PROVE  /\ OwedAt(pc'[t], bytes'[t]) = OwedAt(pc[t], bytes[t])
           /\ ClaimAt(pc'[t], bytes'[t]) = ClaimAt(pc[t], bytes[t])
           /\ UNCHANGED <<live, unfreed, mem_used_bytes>>
  <1>1. CallOf(t)
    BY DEF VmemCalls
  <1> USE DEF Transition, VmemLocals, VmemHistory, Keep, VmemReturn, EnterTable, VmemTypeOK, usage
  <1>2. ASSUME \/ \E p \in Ptrs : VmemFree(t, p)
               \/ FindEntry(t) \/ Room(t) \/ Stat(t) \/ ReadSize(t) \/ Unstat(t) \/ FindRecord(t)
        PROVE  /\ UNCHANGED <<live, unfreed, mem_used_bytes>>
               /\ \/ bytes'[t] = bytes[t] /\ ClaimAt(pc'[t], 1) = ClaimAt(pc[t], 1)
                  \/ bytes'[t] = bytes[t] /\ bytes[t] = 0
                  \/ pc[t] \in {"stat", "read"} /\ pc'[t] \in {"app", "erase"}
    BY <1>1, <1>2 DEF VmemFree, FindEntry, Room, Stat, ReadSize, Unstat, FindRecord, CallOf,
                ClaimAt, OwedAt
  <1>3. ASSUME NEW w, WriteEntry(t, w) \/ NewEntry(t, w) \/ EraseEntry(t, w)
        PROVE  /\ UNCHANGED <<live, unfreed, mem_used_bytes>> /\ bytes'[t] = bytes[t]
               /\ ClaimAt(pc'[t], 1) = ClaimAt(pc[t], 1) /\ pc[t] # "malloc" /\ pc'[t] # "malloc"
    BY <1>3 DEF WriteEntry, NewEntry, EraseEntry, StoreIn, ClaimAt, OwedAt
  <1>4. ASSUME \/ \E p \in Ptrs : VmemFree(t, p)
               \/ FindEntry(t) \/ Room(t) \/ Stat(t) \/ ReadSize(t) \/ Unstat(t) \/ FindRecord(t)
        PROVE  pc[t] # "malloc" /\ pc'[t] # "malloc"
    BY <1>4 DEF VmemFree, FindEntry, Room, Stat, ReadSize, Unstat, FindRecord
  <1>5. UNCHANGED <<live, unfreed, mem_used_bytes>> /\ pc[t] # "malloc" /\ pc'[t] # "malloc"
    BY <1>2, <1>3, <1>4
  <1>6. \/ bytes'[t] = bytes[t] /\ ClaimAt(pc'[t], 1) = ClaimAt(pc[t], 1)
        \/ bytes'[t] = bytes[t] /\ bytes[t] = 0
        \/ pc[t] \in {"stat", "read"} /\ pc'[t] \in {"app", "erase"}
    BY <1>2, <1>3
  <1> QED
    BY <1>5, <1>6 DEF ClaimAt, OwedAt

LEMMA BooksKept ==
    ASSUME VmemFacts, VmemTypeOK, VmemTypeOK', VmemCalls, TableInv, UsageBooks,
           NEW t \in Threads, VmemStep(t)
    PROVE  UsageBooks'
  <1>0. /\ Held \in Nat /\ Total(VmemOwed) \in Nat /\ Total(VmemClaims) \in Nat
        /\ mem_used_bytes \in Int /\ bytes[t] \in Nat /\ Quota \in Nat
        /\ CallOf(t) /\ WorkOf(t) /\ HeldAt \in [Ptrs -> Nat]
    BY HeldNumbers, VmemNumbers DEF VmemTypeOK, VmemFacts, VmemCalls, TableInv, TableWork
  <1>1. VmemMargin \in Int /\ VmemMargin' = VmemMargin
    BY DEF VmemMargin, VmemFacts
  <1>2. /\ Total(VmemOwed)' =
               Total(VmemOwed) - OwedAt(pc[t], bytes[t]) + OwedAt(pc'[t], bytes'[t])
        /\ Total(VmemClaims)' =
               Total(VmemClaims) - ClaimAt(pc[t], bytes[t]) + ClaimAt(pc'[t], bytes'[t])
    BY VmemAccounts
  <1>3. overflowed => overflowed'
    BY TableSteps
  <1>4. UNCHANGED <<live, unfreed>> => Held' = Held
    BY DEF Held
  <1> HIDE DEF Held, VmemMargin
  <1>5. ASSUME NEW b \in Sizes, VmemCheckAlloc(t, b) PROVE UsageBooks'
    <2>1. /\ pc[t] = "app" /\ pc'[t] = "malloc" /\ bytes'[t] = b /\ b \in Nat
          /\ UNCHANGED <<live, unfreed, mem_used_bytes>>
          /\ Quota > 0 => mem_used_bytes + b <= Quota
      BY <1>5 DEF VmemCheckAlloc, Transition, VmemTypeOK, VmemFacts, usage, VmemHistory
    <2>2. Total(VmemOwed)' = Total(VmemOwed) /\ Total(VmemClaims)' = Total(VmemClaims) + b
      BY <1>0, <1>2, <2>1 DEF OwedAt, ClaimAt
    <2>3. Total(VmemClaims) <= VmemMargin
      BY <2>1, ClaimsOfOthers
    <2> QED
      BY <1>0, <1>1, <1>3, <1>4, <2>1, <2>2, <2>3 DEF UsageBooks
  <1>6. CASE VmemRealMalloc(t)
    <2>1. CASE VmemReturn(t, "malloc") /\ UNCHANGED <<live, table, usage, lifetime, VmemHistory>>
      <3>1. /\ pc[t] = "malloc" /\ pc'[t] = "app"
            /\ UNCHANGED <<live, unfreed, mem_used_bytes>>
        BY <2>1 DEF VmemReturn, Transition, VmemTypeOK, usage, VmemHistory
      <3>2. /\ Total(VmemOwed)' = Total(VmemOwed)
            /\ Total(VmemClaims)' = Total(VmemClaims) - bytes[t]
        BY <1>0, <1>2, <3>1 DEF OwedAt, ClaimAt
      <3> QED
        BY <1>0, <1>1, <1>3, <1>4, <3>1, <3>2 DEF UsageBooks
    <2>2. ASSUME NEW p \in Ptrs, live[p] = 0, EnterTable(t, "malloc", "find", p),
                 live' = [live EXCEPT ![p] = bytes[t]],
                 UNCHANGED <<table, usage, bytes, todo, lifetime, unfreed, overflowed>>
          PROVE  UsageBooks'
      <3>1. /\ pc[t] = "malloc" /\ pc'[t] = "find" /\ bytes' = bytes
            /\ UNCHANGED <<unfreed, mem_used_bytes>>
        BY <2>2 DEF EnterTable, Transition, VmemTypeOK, usage
      <3>2. p \notin unfreed
        BY <2>2 DEF VmemCalls
      <3>3. HeldAt[p] = 0 /\ HeldAt'[p] = bytes[t]
        BY <2>2, <3>1, <3>2 DEF HeldAt, VmemTypeOK
      <3>4. Held' = Held - HeldAt[p] + HeldAt'[p]
        <4>1. \A q \in Ptrs : q # p => live'[q] = live[q] /\ (q \in unfreed' <=> q \in unfreed)
          BY <2>2, <3>1 DEF VmemTypeOK
        <4> QED
          BY <4>1, HeldOfStep
      <3>5. Held' = Held + bytes[t]
        BY <1>0, <3>3, <3>4
      <3>6. /\ Total(VmemOwed)' = Total(VmemOwed) + bytes[t]
            /\ Total(VmemClaims)' = Total(VmemClaims)
        BY <1>0, <1>2, <3>1 DEF OwedAt, ClaimAt
      <3> QED
        BY <1>0, <1>1, <1>3, <3>1, <3>5, <3>6 DEF UsageBooks
    <2> QED
      BY <1>6, <2>1, <2>2 DEF VmemRealMalloc
  <1>7. CASE Count(t)
    <2>1. /\ pc[t] = "count" /\ pc'[t] = "stat" /\ mem_used_bytes' = mem_used_bytes + bytes[t]
          /\ UNCHANGED <<live, unfreed>>
      BY <1>7 DEF Count, Transition, VmemTypeOK, VmemHistory
    <2>2. /\ Total(VmemOwed)' = Total(VmemOwed) - bytes[t]
          /\ Total(VmemClaims)' = Total(VmemClaims) - bytes[t]
      BY <1>0, <1>2, <2>1 DEF OwedAt, ClaimAt
    <2> QED
      BY <1>0, <1>1, <1>3, <1>4, <2>1, <2>2 DEF UsageBooks
  <1>8. CASE Uncount(t)
    <2>1. /\ pc[t] = "uncount" /\ pc'[t] = "unstat" /\ mem_used_bytes' = mem_used_bytes - bytes[t]
          /\ bytes' = bytes /\ UNCHANGED <<live, unfreed>>
      BY <1>8 DEF Uncount, Transition, VmemTypeOK, VmemHistory, VmemLocals
    <2>2. /\ Total(VmemOwed)' = Total(VmemOwed) + bytes[t]
          /\ Total(VmemClaims)' = Total(VmemClaims) + bytes[t]
      BY <1>0, <1>2, <2>1 DEF OwedAt, ClaimAt
    <2> QED
      BY <1>0, <1>1, <1>3, <1>4, <2>1, <2>2 DEF UsageBooks
  <1>9. CASE VmemRealFree(t)
    <2>1. /\ pc[t] = "free" /\ pc'[t] = "app" /\ UNCHANGED <<mem_used_bytes, overflowed>>
          /\ \/ live' = [live EXCEPT ![ptr[t]] = 0] /\ unfreed' = unfreed \ {ptr[t]}
             \/ live' = live /\ unfreed' = unfreed \cup {ptr[t]}
      BY <1>9 DEF VmemRealFree, VmemReturn, Transition, VmemTypeOK, usage
    <2>2. PICK p \in Ptrs : p = ptr[t]
      BY <1>0, <2>1 DEF CallOf
    <2>3. /\ HeldAt'[p] = 0
          /\ \A q \in Ptrs : q # p => live'[q] = live[q] /\ (q \in unfreed' <=> q \in unfreed)
      BY <2>1, <2>2 DEF HeldAt, VmemTypeOK
    <2>4. Held' = Held - HeldAt[p] + HeldAt'[p]
      BY <2>3, HeldOfStep
    <2>5. HeldAt[p] = bytes[t] \/ (bytes[t] = 0 /\ overflowed)
      BY <1>0, <2>1, <2>2 DEF WorkOf, HeldAt
    <2>6. HeldAt[p] \in Nat
      BY <1>0
    <2>7. /\ Total(VmemOwed)' = Total(VmemOwed) - bytes[t]
          /\ Total(VmemClaims)' = Total(VmemClaims) - bytes[t]
      BY <1>0, <1>2, <2>1 DEF OwedAt, ClaimAt
    <2>8. Held' = Held - HeldAt[p]
      BY <1>0, <2>3, <2>4, <2>6
    <2> QED
      BY <1>0, <1>1, <2>1, <2>5, <2>6, <2>7, <2>8 DEF UsageBooks
  <1>10. ASSUME \/ \E p \in Ptrs : VmemFree(t, p)
                \/ FindEntry(t) \/ Room(t) \/ Stat(t) \/ FindRecord(t) \/ ReadSize(t) \/ Unstat(t)
                \/ \E w \in {"ptr", "size", "count"} :
                       WriteEntry(t, w) \/ NewEntry(t, w) \/ EraseEntry(t, w)
         PROVE  UsageBooks'
    <2>1. /\ OwedAt(pc'[t], bytes'[t]) = OwedAt(pc[t], bytes[t])
          /\ ClaimAt(pc'[t], bytes'[t]) = ClaimAt(pc[t], bytes[t])
          /\ UNCHANGED <<live, unfreed, mem_used_bytes>>
      BY <1>10, BooksUntouched
    <2>2. OwedAt(pc[t], bytes[t]) \in Nat /\ ClaimAt(pc[t], bytes[t]) \in Nat
      BY <1>0 DEF OwedAt, ClaimAt
    <2>3. Total(VmemOwed)' = Total(VmemOwed) /\ Total(VmemClaims)' = Total(VmemClaims)
      BY <1>0, <1>2, <2>1, <2>2
    <2> QED
      BY <1>0, <1>1, <1>3, <1>4, <2>1, <2>3 DEF UsageBooks
  <1> QED
    BY <1>5, <1>6, <1>7, <1>8, <1>9, <1>10 DEF VmemStep

-----------------------------------------------------------------------------

\* Without a collision the table and the books are right.
VmemInv ==
    /\ VmemTypeOK /\ VmemCalls /\ MonitorBooks
    /\ collided \/ (TableInv /\ UsageBooks)

\* The process starts with an empty table and empty books.
Fresh ==
    /\ \A p \in Ptrs : live[p] = 0
    /\ \A i \in Cells : tab_ptr[i] = NoPtr
    /\ \A t \in Threads : pc[t] = "app"
    /\ alloc_table_size = 0 /\ mem_used_bytes = 0 /\ unfreed = {}

LEMMA FreshProcess ==
    VmemFacts /\ VmemTypeOK /\ Fresh => TableInv /\ UsageBooks
  <1> SUFFICES ASSUME VmemFacts, VmemTypeOK, Fresh PROVE TableInv /\ UsageBooks
    OBVIOUS
  <1>1. TableAlone
    <2>1. 0 <= MAX_ALLOC_ENTRIES
      BY DEF VmemFacts
    <2> QED
      BY <2>1 DEF Fresh, TableAlone, AloneOf, InTable
  <1>2. TableSound /\ TableWork /\ TableComplete
    <2>1. ~(0 > 0)
      OBVIOUS
    <2> QED
      BY <2>1 DEF Fresh, TableSound, TableWork, WorkOf, TableComplete
  <1>3. Held = 0
    <2>1. \A p \in Ptrs : HeldAt[p] = 0
      BY DEF Fresh, HeldAt
    <2> QED
      BY <2>1, HeldNumbers, TotalZero DEF VmemFacts
  <1>4. Total(VmemOwed) = 0 /\ Total(VmemClaims) = 0
    BY NoCallNoAccount DEF Fresh
  <1>5. VmemMargin \in Nat /\ Quota \in Nat
    <2>1. Cardinality(Threads) - 1 \in Nat /\ Max(Sizes) \in Nat /\ Quota \in Nat
      BY DEF VmemFacts
    <2> QED
      BY <2>1 DEF VmemMargin
  <1>6. UsageBooks
    BY <1>3, <1>4, <1>5 DEF Fresh, UsageBooks
  <1> QED
    BY <1>1, <1>2, <1>6 DEF TableInv

LEMMA FreshAgain ==
    (VmemFacts /\ VmemTypeOK /\ Fresh => TableInv /\ UsageBooks)'
  BY FreshProcess, PTL

LEMMA VmemInitially ==
    ASSUME VmemFacts, VmemInit
    PROVE  VmemInv
  <1>1. VmemTypeOK
    <2>1. 0 \in 0 .. MaxCells /\ 0 \in 0 .. MaxCells + 1 /\ 0 \in 0 .. MaxRestarts
      BY DEF VmemFacts
    <2>2. overflowed \in BOOLEAN /\ collided \in BOOLEAN
      BY Zenon DEF VmemInit
    <2> QED
      BY <2>1, <2>2 DEF VmemInit, VmemTypeOK, NoEntry
  <1>2. VmemCalls
    BY DEF VmemInit, VmemCalls, CallOf
  <1>3. Fresh
    BY DEF VmemInit, Fresh
  <1>4. TableInv /\ UsageBooks
    BY <1>1, <1>3, FreshProcess
  <1>5. Total(ToAdd) = 0 /\ Total(ToTake) = 0
    BY <1>3, NoCallNoAccount DEF Fresh
  <1>6. MonitorBooks
    BY <1>5 DEF VmemInit, MonitorBooks
  <1> QED
    BY <1>1, <1>2, <1>4, <1>6 DEF VmemInv

LEMMA VmemInductive ==
    ASSUME VmemFacts, VmemInv, [VmemNext]_VmemVars
    PROVE  VmemInv'
  <1>1. VmemTypeOK' /\ VmemCalls'
    BY VmemTypeKept, VmemCallsKept DEF VmemInv
  <1>2. MonitorBooks'
    BY <1>1, MonitorKept DEF VmemInv
  <1>3. ASSUME NEW t \in Threads, VmemStep(t), ~collided' PROVE TableInv' /\ UsageBooks'
    <2>1. ~collided
      BY <1>3, OthersKept DEF VmemInv
    <2>2. VmemTypeOK /\ VmemCalls /\ TableInv /\ UsageBooks
      BY <2>1 DEF VmemInv
    <2> QED
      BY <1>1, <1>3, <2>2, TableKept, BooksKept
  <1>4. CASE Restart
    <2>1. Fresh' /\ VmemFacts'
      BY <1>4 DEF Restart, Fresh, VmemFacts
    <2>2. TableInv' /\ UsageBooks'
      BY <1>1, <2>1, FreshAgain
    <2> QED
      BY <1>1, <1>2, <2>2 DEF VmemInv
  <1>5. CASE UNCHANGED VmemVars
    <2>1. TableInv /\ UsageBooks => TableInv' /\ UsageBooks'
      BY <1>5 DEF VmemVars, table, usage, VmemLocals, VmemHistory, TableInv, TableAlone, AloneOf,
                  TableSound, TableWork, WorkOf, TableComplete, EntryOf, Off, SizeOpen,
                  UsageBooks, Held, VmemOwed, VmemClaims, VmemMargin
    <2>2. collided' = collided
      BY <1>5 DEF VmemVars, VmemHistory
    <2> QED
      BY <1>1, <1>2, <2>1, <2>2 DEF VmemInv
  <1> QED
    BY <1>1, <1>2, <1>3, <1>4, <1>5 DEF VmemNext, VmemInv

\* The strengthened invariant holds in every state.
LEMMA VmemInvariant ==
    VmemSpec => []VmemInv
  <1>1. VmemFacts
    BY VmemAssumed
  <1>2. VmemInit => VmemInv
    BY <1>1, VmemInitially
  <1>3. VmemInv /\ [VmemNext]_VmemVars => VmemInv'
    BY <1>1, VmemInductive
  <1> QED
    BY <1>2, <1>3, PTL DEF VmemSpec

\* UsageInv: for any number of threads, pointers and entries, mem_used_bytes of
\* virtual_mem.cpp is what the process holds whenever nobody is in a call, and
\* alloc_table_size stays within the table, as long as no two threads have been
\* in the table at once.  Whatever the threads do, the monitor's number differs
\* from it by what former processes have left in the segment, and by no more.
THEOREM UsageCounted ==
    VmemSpec => []UsageInv
  <1>1. ASSUME VmemInv, VmemFacts PROVE UsageInv
    <2>1. VmemTypeOK /\ VmemCalls /\ MonitorBooks
      BY <1>1 DEF VmemInv
    <2>2. ~collided => TableInv /\ UsageBooks
      BY <1>1 DEF VmemInv
    <2>3. ~collided => alloc_table_size <= MAX_ALLOC_ENTRIES
      BY <2>2 DEF TableInv, TableAlone
    <2>4. ASSUME \A t \in Threads : pc[t] = "app"
          PROVE  /\ ~collided => UsageExact
                 /\ shm_used_bytes = mem_used_bytes + inherited
      <3>1. Total(VmemOwed) = 0 /\ Total(ToAdd) = 0 /\ Total(ToTake) = 0
        BY <1>1, <2>4, NoCallNoAccount
      <3>2. mem_used_bytes \in Int /\ shm_used_bytes \in Int /\ inherited \in Int /\ Held \in Nat
        BY <1>1, <2>1, HeldNumbers DEF VmemTypeOK
      <3>3. shm_used_bytes = mem_used_bytes + inherited
        BY <2>1, <3>1, <3>2 DEF MonitorBooks
      <3>4. ~collided => UsageExact
        BY <2>2, <3>1, <3>2 DEF UsageBooks, UsageExact
      <3> QED
        BY <3>3, <3>4
    <2> QED
      BY <2>1, <2>3, <2>4 DEF UsageInv
  <1> QED
    BY <1>1, VmemAssumed, VmemInvariant, PTL

\* QuotaBounded: what the process holds exceeds the quota of virtual_mem.cpp by at
\* most one allocation for every thread but one, although the check and the
\* allocation it admits are not atomic, as long as no two threads have been in the
\* table at once.
THEOREM QuotaNearlyExact ==
    VmemSpec => []QuotaBounded
  <1>1. ASSUME VmemInv, VmemFacts PROVE QuotaBounded
    <2> SUFFICES ASSUME Quota > 0, ~collided
                 PROVE  Held <= Quota + (Cardinality(Threads) - 1) * Max(Sizes)
      BY DEF QuotaBounded
    <2>1. VmemTypeOK /\ UsageBooks
      BY <1>1 DEF VmemInv
    <2>2. /\ Held \in Nat /\ mem_used_bytes \in Int /\ Quota \in Nat /\ VmemMargin \in Int
          /\ Total(VmemOwed) \in Nat /\ Total(VmemClaims) \in Nat
          /\ Total(VmemOwed) <= Total(VmemClaims)
      BY <1>1, <2>1, HeldNumbers, VmemNumbers DEF VmemTypeOK, VmemFacts, VmemMargin
    <2>3. /\ Held <= mem_used_bytes + Total(VmemOwed)
          /\ mem_used_bytes + Total(VmemClaims) <= Quota + VmemMargin
      BY <2>1 DEF UsageBooks
    <2>4. Held <= Quota + VmemMargin
      BY <2>2, <2>3
    <2> QED
      BY <2>4 DEF VmemMargin
  <1> QED
    BY <1>1, VmemAssumed, VmemInvariant, PTL
=============================================================================
