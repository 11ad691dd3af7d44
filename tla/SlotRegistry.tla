---------------------------- MODULE SlotRegistry ----------------------------
(***************************************************************************)
(* Registration of a tenant in the shared segment of its group             *)
(* (kraken_shm_open, kraken_fini).  A process looks for the slot that      *)
(* carries its tenant_id, else for an empty one, writes its id there,      *)
(* completes the allocation from its environment and becomes active.       *)
(* Nothing locks the segment: processes start and die at any time, and the *)
(* controller fills slots meanwhile.  One action is one pass over the      *)
(* slots or one store; raced records that two of them have got in each     *)
(* other's way.                                                            *)
(***************************************************************************)
EXTENDS Integers, FiniteSetsExt, Totals

CONSTANTS
    Procs,         \* processes
    TenantOf,      \* KRAKEN_TENANT of a process
    VirtualSM,     \* KRAKEN_VIRTUAL_SM of a process, 0 if it is not set
    VirtualMem,    \* KRAKEN_VIRTUAL_MEM_MB of a process, 0 if it is not set
    MAX_TENANTS,
    NoId,          \* an empty tenant_id
    MaxOpens       \* bound: starts of all processes

Slots == 1 .. MAX_TENANTS
NoSlot == 0

ASSUME SlotAssumption ==
    /\ MAX_TENANTS \in Nat /\ MaxOpens \in Nat
    /\ IsFiniteSet(Procs)
    /\ \A p \in Procs : /\ VirtualSM[p] \in Nat /\ VirtualMem[p] \in Nat
                        /\ TenantOf[p] # NoId

VARIABLES
    tenant_id,         \* shm->alloc[i].tenant_id
    virtual_sm,        \* shm->alloc[i].virtual_sm
    virtual_mem_mb,    \* shm->alloc[i].virtual_mem_mb
    virtual_sm_total,  \* shm->virtual_sm_total
    virtual_mem_total, \* shm->virtual_mem_total_mb
    active,            \* shm->tenants[i].active
    stage,             \* per process: how far it has come
    tenant_idx,        \* per process: g_kraken.tenant_idx
    opens,             \* starts so far
    cut,               \* history: slots whose process was killed while filling them
    raced              \* history: two starts, or a start and the controller, clashed

shares       == <<virtual_sm, virtual_mem_mb, virtual_sm_total, virtual_mem_total>>
process      == <<stage, tenant_idx, opens>>
RegistryVars == <<tenant_id, shares, active, process, cut, raced>>

Ids     == {TenantOf[p] : p \in Procs}
Filling == {"fill", "fill_mem", "total", "mem_total"}

RegistryTypeOK ==
    /\ tenant_id \in [Slots -> Ids \cup {NoId}]
    /\ virtual_sm \in [Slots -> Nat] /\ virtual_mem_mb \in [Slots -> Nat]
    /\ virtual_sm_total \in Nat /\ virtual_mem_total \in Nat
    /\ active \in [Slots -> BOOLEAN]
    /\ stage \in [Procs -> {"out", "reconnect", "empty", "name", "check", "activate",
                            "attached"} \cup Filling]
    /\ tenant_idx \in [Procs -> Slots \cup {NoSlot}]
    /\ opens \in 0 .. MaxOpens
    /\ cut \in SUBSET Slots /\ raced \in BOOLEAN

RegistryInit ==
    /\ tenant_id = [i \in Slots |-> NoId]
    /\ virtual_sm = [i \in Slots |-> 0] /\ virtual_mem_mb = [i \in Slots |-> 0]
    /\ virtual_sm_total = 0 /\ virtual_mem_total = 0
    /\ active = [i \in Slots |-> FALSE]
    /\ stage = [p \in Procs |-> "out"]
    /\ tenant_idx = [p \in Procs |-> NoSlot]
    /\ opens = 0
    /\ cut = {} /\ raced = FALSE

Advance(p, from, to) == stage[p] = from /\ stage' = [stage EXCEPT ![p] = to]

-----------------------------------------------------------------------------
(* kraken_shm_open *)

\* The segment exists and its magic is right.
Open(p) ==
    /\ opens < MaxOpens
    /\ Advance(p, "out", "reconnect")
    /\ opens' = opens + 1
    /\ UNCHANGED <<tenant_id, shares, active, tenant_idx, cut, raced>>

Mine(p) == {i \in Slots : tenant_id[i] = TenantOf[p]}

\* First pass: a slot that already carries my tenant_id.
Reconnect(p) ==
    \/ /\ Mine(p) # {}
       /\ Advance(p, "reconnect", "name")
       /\ tenant_idx' = [tenant_idx EXCEPT ![p] = Min(Mine(p))]
       /\ UNCHANGED <<tenant_id, shares, active, opens, cut, raced>>
    \/ /\ Mine(p) = {}
       /\ Advance(p, "reconnect", "empty")
       /\ UNCHANGED <<tenant_id, shares, active, tenant_idx, opens, cut, raced>>

\* Faulty variant: a slot whose tenant has left counts as empty.
EmptySlotsInactive == {i \in Slots : ~active[i]}

EmptySlots == {i \in Slots : ~active[i] /\ tenant_id[i] = NoId}

\* Process q has chosen an empty slot and has not named it yet.
Choosing(q) == stage[q] = "name" /\ tenant_id[tenant_idx[q]] = NoId

\* An id of tenant id in slot i is at odds with what q is about to write.
Clash(q, id, i) == Choosing(q) /\ (tenant_idx[q] = i) # (TenantOf[q] = id)

\* Second pass: an empty slot; without one the process runs ungated.
FindEmpty(p) ==
    \/ /\ EmptySlots # {}
       /\ Advance(p, "empty", "name")
       /\ tenant_idx' = [tenant_idx EXCEPT ![p] = Min(EmptySlots)]
       /\ raced' = (raced \/ Mine(p) # {} \/
              \E q \in Procs : Clash(q, TenantOf[p], Min(EmptySlots)))
       /\ UNCHANGED <<tenant_id, shares, active, opens, cut>>
    \/ /\ EmptySlots = {}
       /\ Advance(p, "empty", "out")
       /\ UNCHANGED <<tenant_id, shares, active, tenant_idx, opens, cut, raced>>

WriteId(p) ==
    /\ Advance(p, "name", "check")
    /\ tenant_id' = [tenant_id EXCEPT ![tenant_idx[p]] = TenantOf[p]]
    /\ UNCHANGED <<shares, active, tenant_idx, opens, cut, raced>>

HasEnv(p) == VirtualSM[p] > 0 /\ VirtualMem[p] > 0

\* Some process has found slot i without a share and is about to fill it.
AboutToFill(i) == \E q \in Procs : stage[q] = "fill" /\ tenant_idx[q] = i

\* Faulty variant: an allocation already present is added once more.
CheckAllocAlways(p) ==
    /\ Advance(p, "check", IF HasEnv(p) THEN "fill" ELSE "activate")
    /\ raced' = (raced \/ AboutToFill(tenant_idx[p]))
    /\ UNCHANGED <<tenant_id, shares, active, tenant_idx, opens, cut>>

\* The environment completes the slot only if nobody has filled it.
CheckAlloc(p) ==
    /\ \/ /\ Advance(p, "check", "fill")
          /\ virtual_sm[tenant_idx[p]] = 0 /\ HasEnv(p)
          /\ raced' = (raced \/ AboutToFill(tenant_idx[p]))
       \/ /\ Advance(p, "check", "activate")
          /\ virtual_sm[tenant_idx[p]] > 0 \/ ~HasEnv(p)
          /\ UNCHANGED raced
    /\ UNCHANGED <<tenant_id, shares, active, tenant_idx, opens, cut>>

FillAlloc(p) ==
    /\ Advance(p, "fill", "fill_mem")
    /\ virtual_sm' = [virtual_sm EXCEPT ![tenant_idx[p]] = VirtualSM[p]]
    /\ UNCHANGED <<tenant_id, virtual_mem_mb, virtual_sm_total, virtual_mem_total, active,
                   tenant_idx, opens, cut, raced>>

\* The memory quota, and mps_pct after it, which only the monitor reads.
FillMem(p) ==
    /\ Advance(p, "fill_mem", "total")
    /\ virtual_mem_mb' = [virtual_mem_mb EXCEPT ![tenant_idx[p]] = VirtualMem[p]]
    /\ UNCHANGED <<tenant_id, virtual_sm, virtual_sm_total, virtual_mem_total, active,
                   tenant_idx, opens, cut, raced>>

AddTotal(p) ==
    /\ Advance(p, "total", "mem_total")
    /\ virtual_sm_total' = virtual_sm_total + VirtualSM[p]
    /\ UNCHANGED <<tenant_id, virtual_sm, virtual_mem_mb, virtual_mem_total, active,
                   tenant_idx, opens, cut, raced>>

AddMemTotal(p) ==
    /\ Advance(p, "mem_total", "activate")
    /\ virtual_mem_total' = virtual_mem_total + VirtualMem[p]
    /\ UNCHANGED <<tenant_id, virtual_sm, virtual_mem_mb, virtual_sm_total, active,
                   tenant_idx, opens, cut, raced>>

Activate(p) ==
    /\ Advance(p, "activate", "attached")
    /\ active' = [active EXCEPT ![tenant_idx[p]] = TRUE]
    /\ UNCHANGED <<tenant_id, shares, tenant_idx, opens, cut, raced>>

\* kraken_fini: neither the id nor the allocation is withdrawn.
Close(p) ==
    /\ Advance(p, "attached", "out")
    /\ active' = [active EXCEPT ![tenant_idx[p]] = FALSE]
    /\ tenant_idx' = [tenant_idx EXCEPT ![p] = NoSlot]
    /\ UNCHANGED <<tenant_id, shares, opens, cut, raced>>

\* Killed: no destructor runs.
Crash(p) ==
    /\ stage[p] # "out"
    /\ stage' = [stage EXCEPT ![p] = "out"]
    /\ tenant_idx' = [tenant_idx EXCEPT ![p] = NoSlot]
    /\ cut' = cut \cup (IF stage[p] \in Filling \ {"fill"} THEN {tenant_idx[p]} ELSE {})
    /\ UNCHANGED <<tenant_id, shares, active, opens, raced>>

-----------------------------------------------------------------------------
(* The controller (/register, and its polls), which is not part of this       *)
(* repository: at any time it fills a slot that has no share yet, the one of  *)
(* the tenant or an empty one.                                                *)
Register(p) ==
    LET where == IF Mine(p) # {} THEN Mine(p) ELSE EmptySlots
        i     == Min(where)
    IN  /\ HasEnv(p) /\ where # {} /\ virtual_sm[i] = 0
        /\ tenant_id' = [tenant_id EXCEPT ![i] = TenantOf[p]]
        /\ virtual_sm' = [virtual_sm EXCEPT ![i] = VirtualSM[p]]
        /\ virtual_mem_mb' = [virtual_mem_mb EXCEPT ![i] = VirtualMem[p]]
        /\ virtual_sm_total' = virtual_sm_total + VirtualSM[p]
        /\ virtual_mem_total' = virtual_mem_total + VirtualMem[p]
        /\ raced' = (raced \/ AboutToFill(i) \/
               \E q \in Procs : Clash(q, TenantOf[p], i))
        /\ UNCHANGED <<active, process, cut>>

RegistryStep(p) ==
    \/ Open(p) \/ Reconnect(p) \/ FindEmpty(p) \/ WriteId(p) \/ CheckAlloc(p)
    \/ FillAlloc(p) \/ FillMem(p) \/ AddTotal(p) \/ AddMemTotal(p) \/ Activate(p)
    \/ Close(p) \/ Crash(p)

RegistryNext == \E p \in Procs : RegistryStep(p) \/ Register(p)

RegistrySpec == RegistryInit /\ [][RegistryNext]_RegistryVars

-----------------------------------------------------------------------------
(* Properties *)

\* A tenant keeps its slot over restarts and crashes, its shares with it: at
\* most one slot carries its id, and an id is never replaced.  Processes may
\* start at the same time; the property ends when one of them has chosen a slot
\* while another was about to name it, or its own name had appeared elsewhere.
SlotKept ==
    [][~raced' =>
           \A i \in Slots : tenant_id[i] # NoId =>
               /\ tenant_id'[i] = tenant_id[i]
               /\ \A j \in Slots : tenant_id'[j] = tenant_id[i] => j = i]_RegistryVars

\* The totals that the overcommit manager computes its mode from are never more
\* than the shares in the slots: no allocation is added twice, not after a
\* restart, not by two processes of a tenant and not with the controller's help.
TotalsNotInflated ==
    /\ virtual_sm_total <= Total(virtual_sm)
    /\ virtual_mem_total <= Total(virtual_mem_mb)

\* Nobody is in the middle of the stores to slot i, nor was killed there.
Settled(i) == i \notin cut /\ \A p \in Procs : stage[p] \in Filling => tenant_idx[p] # i

\* A share of the SMs comes with a memory quota (0 would mean none) ...
QuotasComplete ==
    \A i \in Slots : Settled(i) => (virtual_sm[i] > 0 <=> virtual_mem_mb[i] > 0)

\* ... and both are in the totals once all slots are settled.
TotalsExact ==
    (\A i \in Slots : Settled(i)) =>
        /\ virtual_sm_total = Total(virtual_sm)
        /\ virtual_mem_total = Total(virtual_mem_mb)

\* The slot table stays within its slots and, until two writers have clashed,
\* accounts for every share.  A process killed between its stores leaves its slot
\* unsettled for good: nobody completes it, and the totals stay too small.
RegistryInv ==
    /\ RegistryTypeOK
    /\ ~raced => TotalsNotInflated /\ QuotasComplete /\ TotalsExact
=============================================================================
