----------------------------- MODULE KillerGate -----------------------------
(***************************************************************************)
(* The killer gate of libkraken: every launch of a "killer" kernel passes  *)
(* gate_killer_enter() before it is submitted and gate_killer_exit() once  *)
(* the stream is synchronised.  The gates of different tenants (processes) *)
(* meet only in POSIX shared memory: each tenant spends a private time     *)
(* slice, waits at the end of it, and the tenant that sees everyone        *)
(* waiting starts the next round by refilling all slices.                  *)
(*                                                                         *)
(* One action is one atomic access to shared memory (a load, a store or a  *)
(* compare-and-swap), so that every interleaving of the tenants' spin      *)
(* loops is explored.  Loads that are adjacent in the code and concern one *)
(* slot (active, then gate_state) are one step.                            *)
(***************************************************************************)
EXTENDS Integers, FiniteSetsExt

CONSTANTS
    TenantCount,      \* shm->tenant_count
    Policies,         \* scheduler policies the controller may publish
    DefaultRoundUs,   \* round length when the policy has none (100 ms)
    Modes,            \* modes the controller uses
    MinKernelUs,      \* shortest and
    MaxKernelUs,      \* longest execution of one killer kernel
    MaxDebt,          \* bound: time_remain_us stays above -MaxDebt
    MaxAttaches,      \* bound: process starts per slot
    MaxCrashes,       \* bound: crashes in all
    MaxVersion        \* bound: killer_policy_version

Tenants == 0 .. TenantCount - 1

(***************************************************************************)
(* calc_slice_us: round_duration * weight / total weight of the active     *)
(* tenants, truncated.  Weights are natural numbers here (float in the     *)
(* code); a total of zero counts as one.                                   *)
(***************************************************************************)
TotalWeight(p, S) ==
    LET w == MapThenSumSet(LAMBDA i : p.weights[i], S)
    IN  IF w <= 0 THEN 1 ELSE w

RoundUs(p) ==
    IF p.round_duration_us > 0 THEN p.round_duration_us ELSE DefaultRoundUs

SliceUs(p, S, i) == (RoundUs(p) * p.weights[i]) \div TotalWeight(p, S)

ASSUME TenantAssumption == TenantCount \in Nat \ {0}

ASSUME KernelAssumption ==
    MinKernelUs \in Nat /\ MaxKernelUs \in Nat /\ MinKernelUs <= MaxKernelUs

ASSUME BoundAssumption ==
    /\ MaxDebt \in Nat /\ MaxAttaches \in Nat
    /\ MaxCrashes \in Nat /\ MaxVersion \in Nat

ASSUME ModeAssumption ==
    /\ Modes # {}
    /\ Modes \subseteq {"FREE", "OVERCOMMIT", "PROFILING"}

\* No policy yields a negative slice, whichever tenants are active.
ASSUME PolicyAssumption ==
    /\ Policies # {}
    /\ \A p \in Policies, S \in SUBSET Tenants, i \in Tenants :
           SliceUs(p, S, i) \in Nat

VARIABLES
    \* written by the controller, which is not part of this repository
    mode,                   \* shm->mode
    profiling_tenant_idx,   \* shm->profiling_tenant_idx
    policy,                 \* shm->policy
    killer_policy_version,  \* shm->killer_policy_version
    \* written by the tenants
    active,                 \* shm->tenants[i].active
    gate_state,             \* shm->tenants[i].gate_state
    time_remain_us,         \* shm->tenants[i].time_remain_us
    round_trigger_lock,     \* shm->round_trigger_lock
    \* private to one process
    pc,                     \* where its launching thread is
    idx,                    \* the variable of the loop it is in
    loaded_killer_version,  \* g_kraken.loaded_killer_version
    \* bounds
    attaches, crashes,
    freed                   \* history: the mode has been FREE

control == <<mode, profiling_tenant_idx, policy, killer_policy_version, freed>>
slots   == <<active, gate_state, time_remain_us>>
bounds  == <<attaches, crashes>>
vars    == <<control, slots, round_trigger_lock, pc, idx,
             loaded_killer_version, bounds>>

\* program counters, grouped by the function the thread is in
CheckPcs  == {"profiling", "mode", "exhausted", "set_waiting"}
RoundPcs  == {"recharge", "set_running", "unlock"}
WaitPcs   == {"all_waiting", "cas", "spin"} \cup RoundPcs
PeerPcs   == {"scan", "peer", "mark"}
KernelPcs == {"gpu", "exit"}
Pcs == {"out", "idle"} \cup CheckPcs \cup WaitPcs \cup PeerPcs \cup KernelPcs

TypeOK ==
    /\ mode \in Modes
    /\ profiling_tenant_idx \in Tenants
    /\ policy \in Policies
    /\ killer_policy_version \in 0 .. MaxVersion
    /\ active \in [Tenants -> BOOLEAN]
    /\ gate_state \in [Tenants -> {"RUNNING", "WAITING", "KILLER_ACTIVE"}]
    /\ time_remain_us \in [Tenants -> Int]
    /\ round_trigger_lock \in {0, 1}
    /\ pc \in [Tenants -> Pcs]
    /\ idx \in [Tenants -> 0 .. TenantCount]
    /\ loaded_killer_version \in [Tenants -> 0 .. MaxVersion]
    /\ attaches \in [Tenants -> 0 .. MaxAttaches]
    /\ crashes \in 0 .. MaxCrashes
    /\ freed \in BOOLEAN

\* The controller has created the segment; no tenant has attached yet.
Init ==
    /\ mode \in Modes
    /\ profiling_tenant_idx \in Tenants
    /\ policy \in Policies
    /\ killer_policy_version = 0
    /\ active = [t \in Tenants |-> FALSE]
    /\ gate_state = [t \in Tenants |-> "RUNNING"]
    /\ time_remain_us = [t \in Tenants |-> 0]
    /\ round_trigger_lock = 0
    /\ pc = [t \in Tenants |-> "out"]
    /\ idx = [t \in Tenants |-> 0]
    /\ loaded_killer_version = [t \in Tenants |-> 0]
    /\ attaches = [t \in Tenants |-> 0]
    /\ crashes = 0
    /\ freed = (mode = "FREE")

Goto(t, label) == pc' = [pc EXCEPT ![t] = label]
Loop(t, i)     == idx' = [idx EXCEPT ![t] = i]
Transition(t, from, to) == pc[t] = from /\ Goto(t, to)

-----------------------------------------------------------------------------
(* Process lifetime *)

(***************************************************************************)
(* kraken_init with kraken_shm_open: the slot becomes active and the       *)
(* current killer policy counts as loaded.  gate_state and time_remain_us  *)
(* keep what the previous owner of the slot left there.                    *)
(***************************************************************************)
Attach(t) ==
    /\ attaches[t] < MaxAttaches
    /\ Transition(t, "out", "idle")
    /\ active' = [active EXCEPT ![t] = TRUE]
    /\ loaded_killer_version' =
           [loaded_killer_version EXCEPT ![t] = killer_policy_version]
    /\ attaches' = [attaches EXCEPT ![t] = @ + 1]
    /\ UNCHANGED <<control, gate_state, time_remain_us, round_trigger_lock,
                   idx, crashes>>

\* kraken_fini: the slot is released, its gate and slice stay.
Detach(t) ==
    /\ Transition(t, "idle", "out")
    /\ active' = [active EXCEPT ![t] = FALSE]
    /\ UNCHANGED <<control, gate_state, time_remain_us, round_trigger_lock,
                   idx, loaded_killer_version, bounds>>

\* The process is killed: no destructor runs, shared memory stays as it is.
Crash(t) ==
    /\ crashes < MaxCrashes
    /\ pc[t] # "out"
    /\ Goto(t, "out")
    /\ crashes' = crashes + 1
    /\ UNCHANGED <<control, slots, round_trigger_lock, idx,
                   loaded_killer_version, attaches>>

-----------------------------------------------------------------------------
(* gate_killer_enter *)

\* cuLaunchKernel, cuLaunchKernelEx, cudaLaunchKernel with is_killer true.
\* Other kernels are submitted without touching the gate.
LaunchKiller(t) ==
    /\ Transition(t, "idle", "profiling")
    /\ UNCHANGED <<control, slots, round_trigger_lock, idx,
                   loaded_killer_version, bounds>>

\* while (mode == MODE_PROFILING && profiling_tenant_idx != my) usleep
AwaitProfiling(t) ==
    /\ mode # "PROFILING" \/ profiling_tenant_idx = t
    /\ Transition(t, "profiling", "mode")
    /\ UNCHANGED <<control, slots, round_trigger_lock, idx,
                   loaded_killer_version, bounds>>

\* MODE_FREE: no gating.
ReadMode(t) ==
    /\ Transition(t, "mode", IF mode = "FREE" THEN "mark" ELSE "exhausted")
    /\ UNCHANGED <<control, slots, round_trigger_lock, idx,
                   loaded_killer_version, bounds>>

\* Faulty variant: the slice of slot 0 is read instead of the tenant's own.
CheckSliceOfFirst(t) ==
    /\ Transition(t, "exhausted",
                  IF time_remain_us[0] <= 0 THEN "set_waiting" ELSE "scan")
    /\ Loop(t, 0)
    /\ UNCHANGED <<control, slots, round_trigger_lock,
                   loaded_killer_version, bounds>>

\* timeslice_exhausted: remain <= 0
CheckSlice(t) ==
    /\ Transition(t, "exhausted",
                  IF time_remain_us[t] <= 0 THEN "set_waiting" ELSE "scan")
    /\ Loop(t, 0)
    /\ UNCHANGED <<control, slots, round_trigger_lock,
                   loaded_killer_version, bounds>>

\* timeslice_set_waiting, then round_check_and_trigger
SetWaiting(t) ==
    /\ Transition(t, "set_waiting", "all_waiting")
    /\ Loop(t, 0)
    /\ gate_state' = [gate_state EXCEPT ![t] = "WAITING"]
    /\ UNCHANGED <<control, active, time_remain_us, round_trigger_lock,
                   loaded_killer_version, bounds>>

\* Faulty variant: the spin never re-evaluates the round, so a peer that
\* detaches while this tenant waits is never noticed.
SpinOnGateOnce(t) ==
    /\ gate_state[t] # "WAITING"
    /\ Transition(t, "spin", "scan")
    /\ Loop(t, 0)
    /\ UNCHANGED <<control, slots, round_trigger_lock,
                   loaded_killer_version, bounds>>

\* The spin of gate_killer_enter: still WAITING, then re-evaluate the round.
SpinOnGate(t) ==
    /\ Transition(t, "spin",
                  IF gate_state[t] = "WAITING" THEN "all_waiting" ELSE "scan")
    /\ Loop(t, 0)
    /\ UNCHANGED <<control, slots, round_trigger_lock,
                   loaded_killer_version, bounds>>

\* Wait until no active peer is KILLER_ACTIVE, one slot after the other.
PeerBusy(t, i) == i # t /\ active[i] /\ gate_state[i] = "KILLER_ACTIVE"

ScanPeers(t) ==
    /\ pc[t] = "scan"
    /\ \/ /\ idx[t] = TenantCount
          /\ Goto(t, "mark")
          /\ UNCHANGED idx
       \/ /\ idx[t] < TenantCount
          /\ PeerBusy(t, idx[t])
          /\ Goto(t, "peer")
          /\ UNCHANGED idx
       \/ /\ idx[t] < TenantCount
          /\ ~PeerBusy(t, idx[t])
          /\ Loop(t, idx[t] + 1)
          /\ UNCHANGED pc
    /\ UNCHANGED <<control, slots, round_trigger_lock,
                   loaded_killer_version, bounds>>

\* Faulty variant: the loop variable is advanced twice.
AwaitPeerTwice(t) ==
    /\ Transition(t, "peer", "scan")
    /\ gate_state[idx[t]] # "KILLER_ACTIVE"
    /\ Loop(t, idx[t] + 2)
    /\ UNCHANGED <<control, slots, round_trigger_lock,
                   loaded_killer_version, bounds>>

\* The inner loop looks at gate_state alone, no longer at active.
AwaitPeer(t) ==
    /\ Transition(t, "peer", "scan")
    /\ gate_state[idx[t]] # "KILLER_ACTIVE"
    /\ Loop(t, idx[t] + 1)
    /\ UNCHANGED <<control, slots, round_trigger_lock,
                   loaded_killer_version, bounds>>

\* mark_active; the kernel is then submitted.
MarkActive(t) ==
    /\ Transition(t, "mark", "gpu")
    /\ gate_state' = [gate_state EXCEPT ![t] = "KILLER_ACTIVE"]
    /\ UNCHANGED <<control, active, time_remain_us, round_trigger_lock, idx,
                   loaded_killer_version, bounds>>

-----------------------------------------------------------------------------
(* round_check_and_trigger *)

\* all_waiting, one slot per step: the first active tenant that is not
\* WAITING ends the scan; nobody left: try to start the round.
ScanWaiting(t) ==
    /\ pc[t] = "all_waiting"
    /\ \/ /\ idx[t] = TenantCount
          /\ Goto(t, "cas")
          /\ UNCHANGED idx
       \/ /\ idx[t] < TenantCount
          /\ active[idx[t]] => gate_state[idx[t]] = "WAITING"
          /\ Loop(t, idx[t] + 1)
          /\ UNCHANGED pc
       \/ /\ idx[t] < TenantCount
          /\ active[idx[t]] /\ gate_state[idx[t]] # "WAITING"
          /\ Goto(t, "spin")
          /\ UNCHANGED idx
    /\ UNCHANGED <<control, slots, round_trigger_lock,
                   loaded_killer_version, bounds>>

\* reload_killer_policy_if_needed: afterwards the list of killers is that of the
\* published version (from whichever file is there).
ReloadKillerPolicy(t) ==
    loaded_killer_version' =
        [loaded_killer_version EXCEPT ![t] = killer_policy_version]

\* Faulty variant: the lock is stored without comparing.
TryRoundLockBlind(t) ==
    /\ Transition(t, "cas", "recharge")
    /\ round_trigger_lock' = 1
    /\ Loop(t, 0)
    /\ ReloadKillerPolicy(t)
    /\ UNCHANGED <<control, slots, bounds>>

\* start_new_round: the compare-and-swap; its winner reloads its own killer
\* policy (reload_killer_policy_if_needed) before it refills the slices.
TryRoundLock(t) ==
    /\ pc[t] = "cas"
    /\ \/ /\ round_trigger_lock = 0
          /\ round_trigger_lock' = 1
          /\ Goto(t, "recharge")
          /\ Loop(t, 0)
          /\ ReloadKillerPolicy(t)
       \/ /\ round_trigger_lock = 1
          /\ Goto(t, "spin")
          /\ UNCHANGED <<round_trigger_lock, idx, loaded_killer_version>>
    /\ UNCHANGED <<control, slots, bounds>>

\* timeslice_recharge, first store: the slice of active tenant idx[t].
Recharge(t) ==
    /\ pc[t] = "recharge"
    /\ \/ /\ idx[t] = TenantCount
          /\ Goto(t, "unlock")
          /\ UNCHANGED <<idx, time_remain_us>>
       \/ /\ idx[t] < TenantCount
          /\ ~active[idx[t]]
          /\ Loop(t, idx[t] + 1)
          /\ UNCHANGED <<pc, time_remain_us>>
       \/ /\ idx[t] < TenantCount
          /\ active[idx[t]]
          /\ time_remain_us' = [time_remain_us EXCEPT ![idx[t]] =
                 SliceUs(policy, {u \in Tenants : active[u]}, idx[t])]
          /\ Goto(t, "set_running")
          /\ UNCHANGED idx
    /\ UNCHANGED <<control, active, gate_state, round_trigger_lock,
                   loaded_killer_version, bounds>>

\* timeslice_recharge, second store: the tenant may run, whatever it does now.
Resume(t) ==
    /\ Transition(t, "set_running", "recharge")
    /\ gate_state' = [gate_state EXCEPT ![idx[t]] = "RUNNING"]
    /\ Loop(t, idx[t] + 1)
    /\ UNCHANGED <<control, active, time_remain_us, round_trigger_lock,
                   loaded_killer_version, bounds>>

\* The round ids are written (they are only reported) and the lock released.
ReleaseRoundLock(t) ==
    /\ Transition(t, "unlock", "spin")
    /\ round_trigger_lock' = 0
    /\ UNCHANGED <<control, slots, idx, loaded_killer_version, bounds>>

-----------------------------------------------------------------------------
(* The kernel and gate_killer_exit *)

\* The stream is synchronised after d microseconds and timeslice_deduct
\* takes them off the slice.
KernelDone(t) ==
    \E d \in MinKernelUs .. MaxKernelUs :
        /\ time_remain_us[t] - d >= -MaxDebt
        /\ Transition(t, "gpu", "exit")
        /\ time_remain_us' = [time_remain_us EXCEPT ![t] = @ - d]
        /\ UNCHANGED <<control, active, gate_state, round_trigger_lock, idx,
                       loaded_killer_version, bounds>>

\* Faulty variant: the gate is not released.
GateExitForgets(t) ==
    /\ Transition(t, "exit", "idle")
    /\ UNCHANGED <<control, slots, round_trigger_lock, idx,
                   loaded_killer_version, bounds>>

\* gate_killer_exit releases the gate.
GateExit(t) ==
    /\ Transition(t, "exit", "idle")
    /\ gate_state' = [gate_state EXCEPT ![t] = "RUNNING"]
    /\ UNCHANGED <<control, active, time_remain_us, round_trigger_lock, idx,
                   loaded_killer_version, bounds>>

-----------------------------------------------------------------------------
(* The controller *)

SetMode(m) ==
    /\ m # mode
    /\ mode' = m
    /\ freed' = (freed \/ m = "FREE")
    /\ profiling_tenant_idx' \in Tenants
    /\ UNCHANGED <<policy, killer_policy_version, slots, round_trigger_lock,
                   pc, idx, loaded_killer_version, bounds>>

SetPolicy(p) ==
    /\ p # policy
    /\ policy' = p
    /\ UNCHANGED <<mode, profiling_tenant_idx, killer_policy_version, freed, slots,
                   round_trigger_lock, pc, idx, loaded_killer_version, bounds>>

PublishKillers ==
    /\ killer_policy_version < MaxVersion
    /\ killer_policy_version' = killer_policy_version + 1
    /\ UNCHANGED <<mode, profiling_tenant_idx, policy, freed, slots,
                   round_trigger_lock, pc, idx, loaded_killer_version, bounds>>

-----------------------------------------------------------------------------
Enter(t) ==
    \/ AwaitProfiling(t) \/ ReadMode(t) \/ CheckSlice(t) \/ SetWaiting(t)
    \/ SpinOnGate(t) \/ ScanPeers(t) \/ AwaitPeer(t) \/ MarkActive(t)

Round(t) ==
    \/ ScanWaiting(t) \/ TryRoundLock(t) \/ Recharge(t) \/ Resume(t)
    \/ ReleaseRoundLock(t)

Step(t) == Enter(t) \/ Round(t) \/ KernelDone(t) \/ GateExit(t)

Controller ==
    \/ \E m \in Modes : SetMode(m)
    \/ \E p \in Policies : SetPolicy(p)
    \/ PublishKillers

Next ==
    \/ \E t \in Tenants :
           Attach(t) \/ Detach(t) \/ Crash(t) \/ LaunchKiller(t) \/ Step(t)
    \/ Controller

Spec == Init /\ [][Next]_vars

\* A thread inside the gate keeps running, and an attached application
\* launches its next killer or ends.  Nothing is assumed of the controller.
Fairness ==
    \A t \in Tenants :
        WF_vars(Step(t)) /\ WF_vars(LaunchKiller(t) \/ Detach(t))

LiveSpec == Spec /\ Fairness

-----------------------------------------------------------------------------
(* Properties *)

\* The round lock is a lock: while a tenant refills slices it alone does, and
\* round_trigger_lock is 1 (start_new_round's compare-and-swap).
RoundLockExclusive ==
    \A t \in Tenants : pc[t] \in RoundPcs =>
        /\ round_trigger_lock = 1
        /\ \A u \in Tenants : pc[u] \in RoundPcs => u = t

\* Without crashes gate_state never claims what its tenant is not doing:
\* KILLER_ACTIVE only between mark_active and the exit of the kernel, WAITING
\* only inside the waiting loop.  A peer that waits on either waits for a
\* thread that is on its way.  Round triggers rewrite the states of others,
\* which is why this is not obvious.
GateStateOwned ==
    crashes = 0 =>
        \A t \in Tenants :
            /\ gate_state[t] = "KILLER_ACTIVE" => pc[t] \in KernelPcs
            /\ gate_state[t] = "WAITING" => pc[t] \in WaitPcs

\* As long as gating is on, a tenant overdraws its slice by at most two kernels: one
\* that began with the slice not yet spent, and one that a late GATE_RUNNING
\* store of a round trigger lets through (timeslice_recharge is two stores;
\* a tenant woken in gate_killer_enter does not look at its slice again).
OverdraftBounded ==
    ~freed =>
        \A t \in Tenants : time_remain_us[t] >= -(2 * MaxKernelUs)

\* Every launch of a killer reaches the GPU: no tenant starves in the waiting
\* loop or behind its peers, although those end, restart or wait themselves
\* (in mode OVERCOMMIT and without crashes: a killed peer leaves its gate_state).
EveryKillerRuns ==
    \A t \in Tenants : pc[t] = "profiling" ~> pc[t] = "gpu"
=============================================================================
