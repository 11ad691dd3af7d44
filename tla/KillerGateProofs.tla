-------------------------- MODULE KillerGateProofs --------------------------
(***************************************************************************)
(* The safety properties of the killer gate, for any number of tenants,    *)
(* any policies and any kernel lengths.                                    *)
(***************************************************************************)
EXTENDS KillerGate, TLAPS

\* A slice is a natural number: what Recharge stores.
LEMMA SliceIsNat ==
    ASSUME TypeOK, NEW i \in Tenants
    PROVE  SliceUs(policy, {u \in Tenants : active[u]}, i) \in Nat
  <1>1. policy \in Policies
    BY DEF TypeOK
  <1>2. {u \in Tenants : active[u]} \in SUBSET Tenants
    OBVIOUS
  <1> QED
    BY <1>1, <1>2, PolicyAssumption

\* Inside the bodies of the two loops the loop variable names a slot.
LoopOK ==
    \A t \in Tenants :
        pc[t] \in {"peer", "set_running"} => idx[t] < TenantCount

TypeInv == TypeOK /\ LoopOK

\* TypeInv is inductive.
LEMMA TypeInductive == TypeInv /\ [Next]_vars => TypeInv'
  <1> SUFFICES ASSUME TypeInv, [Next]_vars PROVE TypeInv'
    OBVIOUS
  <1> USE TenantAssumption, KernelAssumption, BoundAssumption
  <1> USE DEF TypeInv, TypeOK, LoopOK, Pcs, CheckPcs, WaitPcs, RoundPcs,
              PeerPcs, KernelPcs, Goto, Loop, Transition, control, slots, bounds
  <1>1. ASSUME NEW t \in Tenants, Attach(t) PROVE TypeInv'
    BY <1>1 DEF Attach
  <1>2. ASSUME NEW t \in Tenants, Detach(t) PROVE TypeInv'
    BY <1>2 DEF Detach
  <1>3. ASSUME NEW t \in Tenants, Crash(t) PROVE TypeInv'
    BY <1>3 DEF Crash
  <1>4. ASSUME NEW t \in Tenants, LaunchKiller(t) PROVE TypeInv'
    BY <1>4 DEF LaunchKiller
  <1>5. ASSUME NEW t \in Tenants, AwaitProfiling(t) PROVE TypeInv'
    BY <1>5 DEF AwaitProfiling
  <1>6. ASSUME NEW t \in Tenants, ReadMode(t) PROVE TypeInv'
    BY <1>6 DEF ReadMode
  <1>7. ASSUME NEW t \in Tenants, CheckSlice(t) PROVE TypeInv'
    BY <1>7 DEF CheckSlice
  <1>8. ASSUME NEW t \in Tenants, SetWaiting(t) PROVE TypeInv'
    BY <1>8 DEF SetWaiting
  <1>9. ASSUME NEW t \in Tenants, SpinOnGate(t) PROVE TypeInv'
    BY <1>9 DEF SpinOnGate
  <1>10. ASSUME NEW t \in Tenants, ScanPeers(t) PROVE TypeInv'
    BY <1>10 DEF ScanPeers
  <1>11. ASSUME NEW t \in Tenants, AwaitPeer(t) PROVE TypeInv'
    BY <1>11 DEF AwaitPeer
  <1>12. ASSUME NEW t \in Tenants, MarkActive(t) PROVE TypeInv'
    BY <1>12 DEF MarkActive
  <1>13. ASSUME NEW t \in Tenants, ScanWaiting(t) PROVE TypeInv'
    BY <1>13 DEF ScanWaiting
  <1>14. ASSUME NEW t \in Tenants, TryRoundLock(t) PROVE TypeInv'
    BY <1>14 DEF TryRoundLock, ReloadKillerPolicy
  <1>15. ASSUME NEW t \in Tenants, Recharge(t) PROVE TypeInv'
    <2>1. CASE idx[t] = TenantCount
      BY <1>15, <2>1 DEF Recharge
    <2>2. CASE idx[t] < TenantCount /\ ~active[idx[t]]
      BY <1>15, <2>2 DEF Recharge
    <2>3. CASE idx[t] < TenantCount /\ active[idx[t]]
      <3>1. idx[t] \in Tenants
        BY <2>3 DEF Tenants
      <3>2. SliceUs(policy, {u \in Tenants : active[u]}, idx[t]) \in Nat
        BY <3>1, SliceIsNat
      <3> QED
        BY <1>15, <2>3, <3>1, <3>2 DEF Recharge
    <2> QED
      BY <1>15, <2>1, <2>2, <2>3 DEF Recharge
  <1>16. ASSUME NEW t \in Tenants, Resume(t) PROVE TypeInv'
    <2>1. idx[t] < TenantCount /\ idx[t] \in 0 .. TenantCount
      BY <1>16 DEF Resume
    <2>2. idx[t] + 1 \in 0 .. TenantCount
      BY <2>1
    <2> QED
      BY <1>16, <2>2 DEF Resume
  <1>17. ASSUME NEW t \in Tenants, ReleaseRoundLock(t) PROVE TypeInv'
    BY <1>17 DEF ReleaseRoundLock
  <1>18. ASSUME NEW t \in Tenants, KernelDone(t) PROVE TypeInv'
    BY <1>18 DEF KernelDone
  <1>19. ASSUME NEW t \in Tenants, GateExit(t) PROVE TypeInv'
    BY <1>19 DEF GateExit
  <1>20. ASSUME NEW m \in Modes, SetMode(m) PROVE TypeInv'
    BY <1>20 DEF SetMode
  <1>21. ASSUME NEW p \in Policies, SetPolicy(p) PROVE TypeInv'
    BY <1>21 DEF SetPolicy
  <1>22. CASE PublishKillers
    BY <1>22 DEF PublishKillers
  <1>23. CASE UNCHANGED vars
    BY <1>23 DEF vars
  <1> QED
    BY <1>1, <1>2, <1>3, <1>4, <1>5, <1>6, <1>7, <1>8, <1>9, <1>10, <1>11,
       <1>12, <1>13, <1>14, <1>15, <1>16, <1>17, <1>18, <1>19, <1>20, <1>21,
       <1>22, <1>23
       DEF Next, Step, Enter, Round, Controller

\* The type invariant, and with it that no loop of the gate runs past the
\* tenant table (all_waiting, start_new_round, the peer scan).
THEOREM TypeCorrect == Spec => []TypeOK
  <1>1. Init => TypeInv
    BY TenantAssumption, BoundAssumption, ModeAssumption
       DEF Init, TypeInv, TypeOK, LoopOK, Pcs, Tenants
  <1>2. TypeInv => TypeOK
    BY DEF TypeInv
  <1> QED
    BY <1>1, <1>2, TypeInductive, PTL DEF Spec

\* The round lock excludes: the compare-and-swap succeeds only on 0, and only
\* the tenant that won it stores 0 again.
LEMMA RoundLockInductive ==
    TypeInv /\ RoundLockExclusive /\ [Next]_vars => RoundLockExclusive'
  <1> SUFFICES ASSUME TypeInv, RoundLockExclusive, [Next]_vars
               PROVE  RoundLockExclusive'
    OBVIOUS
  <1> USE TenantAssumption
  <1> USE DEF RoundLockExclusive, TypeInv, TypeOK, LoopOK, Pcs, CheckPcs, WaitPcs, RoundPcs,
              PeerPcs, KernelPcs, Goto, Loop, Transition, control, slots, bounds
  <1>1. ASSUME NEW t \in Tenants, Attach(t) PROVE RoundLockExclusive'
    BY <1>1 DEF Attach
  <1>2. ASSUME NEW t \in Tenants, Detach(t) PROVE RoundLockExclusive'
    BY <1>2 DEF Detach
  <1>3. ASSUME NEW t \in Tenants, Crash(t) PROVE RoundLockExclusive'
    BY <1>3 DEF Crash
  <1>4. ASSUME NEW t \in Tenants, LaunchKiller(t) PROVE RoundLockExclusive'
    BY <1>4 DEF LaunchKiller
  <1>5. ASSUME NEW t \in Tenants, AwaitProfiling(t) PROVE RoundLockExclusive'
    BY <1>5 DEF AwaitProfiling
  <1>6. ASSUME NEW t \in Tenants, ReadMode(t) PROVE RoundLockExclusive'
    BY <1>6 DEF ReadMode
  <1>7. ASSUME NEW t \in Tenants, CheckSlice(t) PROVE RoundLockExclusive'
    BY <1>7 DEF CheckSlice
  <1>8. ASSUME NEW t \in Tenants, SetWaiting(t) PROVE RoundLockExclusive'
    BY <1>8 DEF SetWaiting
  <1>9. ASSUME NEW t \in Tenants, SpinOnGate(t) PROVE RoundLockExclusive'
    BY <1>9 DEF SpinOnGate
  <1>10. ASSUME NEW t \in Tenants, ScanPeers(t) PROVE RoundLockExclusive'
    BY <1>10 DEF ScanPeers
  <1>11. ASSUME NEW t \in Tenants, AwaitPeer(t) PROVE RoundLockExclusive'
    BY <1>11 DEF AwaitPeer
  <1>12. ASSUME NEW t \in Tenants, MarkActive(t) PROVE RoundLockExclusive'
    BY <1>12 DEF MarkActive
  <1>13. ASSUME NEW t \in Tenants, ScanWaiting(t) PROVE RoundLockExclusive'
    BY <1>13 DEF ScanWaiting
  <1>14. ASSUME NEW t \in Tenants, TryRoundLock(t) PROVE RoundLockExclusive'
    BY <1>14 DEF TryRoundLock, ReloadKillerPolicy
  <1>15. ASSUME NEW t \in Tenants, Recharge(t) PROVE RoundLockExclusive'
    BY <1>15 DEF Recharge
  <1>16. ASSUME NEW t \in Tenants, Resume(t) PROVE RoundLockExclusive'
    BY <1>16 DEF Resume
  <1>17. ASSUME NEW t \in Tenants, ReleaseRoundLock(t) PROVE RoundLockExclusive'
    BY <1>17 DEF ReleaseRoundLock
  <1>18. ASSUME NEW t \in Tenants, KernelDone(t) PROVE RoundLockExclusive'
    BY <1>18 DEF KernelDone
  <1>19. ASSUME NEW t \in Tenants, GateExit(t) PROVE RoundLockExclusive'
    BY <1>19 DEF GateExit
  <1>20. CASE Controller
    BY <1>20 DEF Controller, SetMode, SetPolicy, PublishKillers
  <1>21. CASE UNCHANGED vars
    BY <1>21 DEF vars
  <1> QED
    BY <1>1, <1>2, <1>3, <1>4, <1>5, <1>6, <1>7, <1>8, <1>9, <1>10, <1>11,
       <1>12, <1>13, <1>14, <1>15, <1>16, <1>17, <1>18, <1>19, <1>20, <1>21
       DEF Next, Step, Enter, Round

\* At most one tenant at a time refills the slices, and only with the lock.
THEOREM RoundLockSafe == Spec => []RoundLockExclusive
  <1>1. Init => TypeInv /\ RoundLockExclusive
    BY TenantAssumption, BoundAssumption, ModeAssumption
       DEF Init, TypeInv, TypeOK, LoopOK, Pcs, RoundPcs, RoundLockExclusive, Tenants
  <1> QED
    BY <1>1, TypeInductive, RoundLockInductive, PTL DEF Spec

\* A tenant leaves KILLER_ACTIVE and WAITING behind only by crashing.
LEMMA GateStateInductive ==
    TypeInv /\ GateStateOwned /\ [Next]_vars => GateStateOwned'
  <1> SUFFICES ASSUME TypeInv, GateStateOwned, [Next]_vars
               PROVE  GateStateOwned'
    OBVIOUS
  <1> USE TenantAssumption, BoundAssumption
  <1> USE DEF GateStateOwned, TypeInv, TypeOK, LoopOK, Pcs, CheckPcs, WaitPcs, RoundPcs,
              PeerPcs, KernelPcs, Goto, Loop, Transition, control, slots, bounds
  <1>1. ASSUME NEW t \in Tenants, Attach(t) PROVE GateStateOwned'
    BY <1>1 DEF Attach
  <1>2. ASSUME NEW t \in Tenants, Detach(t) PROVE GateStateOwned'
    BY <1>2 DEF Detach
  <1>3. ASSUME NEW t \in Tenants, Crash(t) PROVE GateStateOwned'
    BY <1>3 DEF Crash
  <1>4. ASSUME NEW t \in Tenants, LaunchKiller(t) PROVE GateStateOwned'
    BY <1>4 DEF LaunchKiller
  <1>5. ASSUME NEW t \in Tenants, AwaitProfiling(t) PROVE GateStateOwned'
    BY <1>5 DEF AwaitProfiling
  <1>6. ASSUME NEW t \in Tenants, ReadMode(t) PROVE GateStateOwned'
    BY <1>6 DEF ReadMode
  <1>7. ASSUME NEW t \in Tenants, CheckSlice(t) PROVE GateStateOwned'
    BY <1>7 DEF CheckSlice
  <1>8. ASSUME NEW t \in Tenants, SetWaiting(t) PROVE GateStateOwned'
    BY <1>8 DEF SetWaiting
  <1>9. ASSUME NEW t \in Tenants, SpinOnGate(t) PROVE GateStateOwned'
    BY <1>9 DEF SpinOnGate
  <1>10. ASSUME NEW t \in Tenants, ScanPeers(t) PROVE GateStateOwned'
    BY <1>10 DEF ScanPeers
  <1>11. ASSUME NEW t \in Tenants, AwaitPeer(t) PROVE GateStateOwned'
    BY <1>11 DEF AwaitPeer
  <1>12. ASSUME NEW t \in Tenants, MarkActive(t) PROVE GateStateOwned'
    BY <1>12 DEF MarkActive
  <1>13. ASSUME NEW t \in Tenants, ScanWaiting(t) PROVE GateStateOwned'
    BY <1>13 DEF ScanWaiting
  <1>14. ASSUME NEW t \in Tenants, TryRoundLock(t) PROVE GateStateOwned'
    BY <1>14 DEF TryRoundLock, ReloadKillerPolicy
  <1>15. ASSUME NEW t \in Tenants, Recharge(t) PROVE GateStateOwned'
    BY <1>15 DEF Recharge
  <1>16. ASSUME NEW t \in Tenants, Resume(t) PROVE GateStateOwned'
    BY <1>16 DEF Resume
  <1>17. ASSUME NEW t \in Tenants, ReleaseRoundLock(t) PROVE GateStateOwned'
    BY <1>17 DEF ReleaseRoundLock
  <1>18. ASSUME NEW t \in Tenants, KernelDone(t) PROVE GateStateOwned'
    BY <1>18 DEF KernelDone
  <1>19. ASSUME NEW t \in Tenants, GateExit(t) PROVE GateStateOwned'
    BY <1>19 DEF GateExit
  <1>20. CASE Controller
    BY <1>20 DEF Controller, SetMode, SetPolicy, PublishKillers
  <1>21. CASE UNCHANGED vars
    BY <1>21 DEF vars
  <1> QED
    BY <1>1, <1>2, <1>3, <1>4, <1>5, <1>6, <1>7, <1>8, <1>9, <1>10, <1>11,
       <1>12, <1>13, <1>14, <1>15, <1>16, <1>17, <1>18, <1>19, <1>20, <1>21
       DEF Next, Step, Enter, Round

\* Without crashes the gate states tell the truth about their tenants.
THEOREM GateStateSafe == Spec => []GateStateOwned
  <1>1. Init => TypeInv /\ GateStateOwned
    BY TenantAssumption, BoundAssumption, ModeAssumption
       DEF Init, TypeInv, TypeOK, LoopOK, Pcs, GateStateOwned, Tenants
  <1> QED
    BY <1>1, TypeInductive, GateStateInductive, PTL DEF Spec

-----------------------------------------------------------------------------
(***************************************************************************)
(* The overdraft.  A tenant is cleared when it will run a kernel without    *)
(* looking at its slice again: it is past CheckSlice, or it is waiting and  *)
(* a round has set its gate to RUNNING.                                    *)
(***************************************************************************)
Cleared(t) ==
    \/ pc[t] \in {"scan", "peer", "mark", "gpu"}
    \/ pc[t] \in WaitPcs /\ gate_state[t] # "WAITING"

\* h has stored the slice of tenant i and not yet its GATE_RUNNING.
HalfRecharged(h, i) == pc[h] = "set_running" /\ idx[h] = i

OverdraftInv ==
    ~freed =>
        /\ mode # "FREE"
        /\ \A t \in Tenants :
            /\ time_remain_us[t] >= -(2 * MaxKernelUs)
            /\ Cleared(t) => time_remain_us[t] >= -MaxKernelUs
            /\ \A h \in Tenants : HalfRecharged(h, t) =>
                   /\ time_remain_us[t] >= -MaxKernelUs
                   /\ Cleared(t) => time_remain_us[t] >= 0

\* A round trigger refills slice and gate in two stores; the lock is needed so
\* that no second trigger is between them for the same tenant.
LEMMA OverdraftInductive ==
    TypeInv /\ RoundLockExclusive /\ OverdraftInv /\ [Next]_vars => OverdraftInv'
  <1> SUFFICES ASSUME TypeInv, RoundLockExclusive, OverdraftInv, [Next]_vars
               PROVE  OverdraftInv'
    OBVIOUS
  <1> USE TenantAssumption, KernelAssumption, BoundAssumption
  <1> USE DEF OverdraftInv, Cleared, HalfRecharged, RoundLockExclusive, TypeInv, TypeOK, LoopOK, Pcs, CheckPcs, WaitPcs, RoundPcs,
              PeerPcs, KernelPcs, Goto, Loop, Transition, control, slots, bounds
  <1>1. ASSUME NEW t \in Tenants, Attach(t) PROVE OverdraftInv'
    BY <1>1 DEF Attach
  <1>2. ASSUME NEW t \in Tenants, Detach(t) PROVE OverdraftInv'
    BY <1>2 DEF Detach
  <1>3. ASSUME NEW t \in Tenants, Crash(t) PROVE OverdraftInv'
    BY <1>3 DEF Crash
  <1>4. ASSUME NEW t \in Tenants, LaunchKiller(t) PROVE OverdraftInv'
    BY <1>4 DEF LaunchKiller
  <1>5. ASSUME NEW t \in Tenants, AwaitProfiling(t) PROVE OverdraftInv'
    BY <1>5 DEF AwaitProfiling
  <1>6. ASSUME NEW t \in Tenants, ReadMode(t) PROVE OverdraftInv'
    BY <1>6 DEF ReadMode
  <1>7. ASSUME NEW t \in Tenants, CheckSlice(t) PROVE OverdraftInv'
    BY <1>7 DEF CheckSlice
  <1>8. ASSUME NEW t \in Tenants, SetWaiting(t) PROVE OverdraftInv'
    BY <1>8 DEF SetWaiting
  <1>9. ASSUME NEW t \in Tenants, SpinOnGate(t) PROVE OverdraftInv'
    BY <1>9 DEF SpinOnGate
  <1>10. ASSUME NEW t \in Tenants, ScanPeers(t) PROVE OverdraftInv'
    BY <1>10 DEF ScanPeers
  <1>11. ASSUME NEW t \in Tenants, AwaitPeer(t) PROVE OverdraftInv'
    BY <1>11 DEF AwaitPeer
  <1>12. ASSUME NEW t \in Tenants, MarkActive(t) PROVE OverdraftInv'
    BY <1>12 DEF MarkActive
  <1>13. ASSUME NEW t \in Tenants, ScanWaiting(t) PROVE OverdraftInv'
    BY <1>13 DEF ScanWaiting
  <1>14. ASSUME NEW t \in Tenants, TryRoundLock(t) PROVE OverdraftInv'
    BY <1>14 DEF TryRoundLock, ReloadKillerPolicy
  <1>15. ASSUME NEW t \in Tenants, Recharge(t) PROVE OverdraftInv'
    <2>1. CASE idx[t] = TenantCount
      BY <1>15, <2>1 DEF Recharge
    <2>2. CASE idx[t] < TenantCount /\ ~active[idx[t]]
      BY <1>15, <2>2 DEF Recharge
    <2>3. CASE idx[t] < TenantCount /\ active[idx[t]]
      <3>1. idx[t] \in Tenants
        BY <2>3 DEF Tenants
      <3>2. SliceUs(policy, {u \in Tenants : active[u]}, idx[t]) \in Nat
        BY <3>1, SliceIsNat
      <3> QED
        BY <1>15, <2>3, <3>1, <3>2 DEF Recharge
    <2> QED
      BY <1>15, <2>1, <2>2, <2>3 DEF Recharge
  <1>16. ASSUME NEW t \in Tenants, Resume(t) PROVE OverdraftInv'
    BY <1>16 DEF Resume
  <1>17. ASSUME NEW t \in Tenants, ReleaseRoundLock(t) PROVE OverdraftInv'
    BY <1>17 DEF ReleaseRoundLock
  <1>18. ASSUME NEW t \in Tenants, KernelDone(t) PROVE OverdraftInv'
    BY <1>18 DEF KernelDone
  <1>19. ASSUME NEW t \in Tenants, GateExit(t) PROVE OverdraftInv'
    BY <1>19 DEF GateExit
  <1>20. CASE Controller
    BY <1>20 DEF Controller, SetMode, SetPolicy, PublishKillers
  <1>21. CASE UNCHANGED vars
    BY <1>21 DEF vars
  <1> QED
    BY <1>1, <1>2, <1>3, <1>4, <1>5, <1>6, <1>7, <1>8, <1>9, <1>10, <1>11,
       <1>12, <1>13, <1>14, <1>15, <1>16, <1>17, <1>18, <1>19, <1>20, <1>21
       DEF Next, Step, Enter, Round

\* With gating on, a tenant overdraws its slice by at most two kernels.
THEOREM OverdraftSafe == Spec => []OverdraftBounded
  <1>1. Init => TypeInv /\ RoundLockExclusive
    BY TenantAssumption, BoundAssumption, ModeAssumption
       DEF Init, TypeInv, TypeOK, LoopOK, Pcs, RoundPcs, Tenants,
           RoundLockExclusive
  <1>2. Init => OverdraftInv
    <2> SUFFICES ASSUME Init, ~freed PROVE OverdraftInv
      BY DEF OverdraftInv
    <2>1. mode # "FREE"
      BY DEF Init
    <2>2. ASSUME NEW t \in Tenants
          PROVE  time_remain_us[t] = 0 /\ pc[t] = "out"
      BY DEF Init
    <2> QED
      BY <2>1, <2>2, KernelAssumption
         DEF OverdraftInv, Cleared, HalfRecharged, WaitPcs, RoundPcs
  <1>3. OverdraftInv => OverdraftBounded
    BY DEF OverdraftInv, OverdraftBounded
  <1> QED
    BY <1>1, <1>2, <1>3, TypeInductive, RoundLockInductive, OverdraftInductive, PTL
       DEF Spec
=============================================================================
