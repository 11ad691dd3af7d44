# TLA+ verification of the KRAKEN kernel and request scheduling runtime

The repository shares one accelerator between tenants by intervening in the
execution path.  On a GPU two preloaded libraries intercept CUDA calls
(`libkraken`: killer gating through POSIX shared memory; `libbless`: credits,
priorities and quotas inside one process).  On an NPU, where calls cannot be
intercepted, a proxy process owns the device and schedules whole requests.

This directory holds TLA+ modules of the parts that carry state, TLC
configurations that check them on small instances, and TLAPS proofs of what
matters most for every instance.  `PROJECT.json` maps each definition to the
lines it models and lists runs, mutants (faulty variants every property must
catch), hazards and theorems.

## 1. Inventory

| Part | State | Operations | Meets others through |
|---|---|---|---|
| Killer gate (`gating/stream_gate.cpp`) | `gate_state` of each slot | `gate_killer_enter`, `gate_killer_exit` | shared memory, spinning |
| Time slices and rounds (`timeslice/`) | `time_remain_us`, `round_trigger_lock`, policy | exhausted, set_waiting, deduct, recharge, `round_check_and_trigger` | shared memory, one compare-and-swap |
| CUDA hooks (`hooks/cuda_hooks.cpp`) | killer policy and its version, next kernel index | launch, allocation, free, constructor, destructor | calls into gate and quota |
| Shared memory client (`shm/shm_client.cpp`) | slot table: `tenant_id`, `virtual_sm`, totals, `active` | open, register, reconnect | controller (not in the repository), other tenants |
| Virtual memory (`resource/virtual_mem.cpp`) | `alloc_table`, two byte counters | check, track_alloc, track_free | memory hooks, monitor |
| Virtual SM, event pool, CUPTI | none | one comparison; stubs | - |
| libbless time credits | `time_credit_us`, batch of each thread, ride flag | `time_credit_gate`, `time_batch_start`, `time_batch_end_and_charge` | control thread (feeder) |
| libbless kernel credits | `credit_remain`, burst cache of each thread | `kernel_credit_gate` | control thread |
| libbless priorities | `queue_len[3]`, `current_priority`, urgent and preempt flags | `priority_queue_gate`, preemption check, `priority_queue_done` | control thread, other threads |
| libbless memory | `alloc_size_map`, current, peak, quota | check_quota, track_alloc, track_free | control thread |
| libbless contexts, routing, QMD | contexts, `any_alloc`, route, reconf gate, TPC mask in three words | initialisation, `reconf_limited_ctx`, `ScopedCtxGuard`, `kraken_qmd_set_allowed` and its callback, destructor | all threads, control thread, driver |
| libbless control server | none of its own | datagram commands | all of the above |
| NPU gate core (`npu_proxy/gate_core.py`) | queue and accounts of each tenant | register, submit, cmd, step | one lock, released during a run |
| NPU proxy (`npu_proxy.py`) | connections, `logs`, `ctrl_socks`, socket paths | `_conn_loop`, `ensure_tenant`, `drop_tenant`, `_admin_loop`, `_sched_loop` | gate core, sockets, one thread per connection |
| NPU client (`client.py`) | depth semaphore, `submits`, socket and its epoch | request loop, `receiver`, `drop_inflight`, `reconnect_loop` | data socket, two threads |

What is hard here: spinning protocols over shared memory whose every load and
store interleaves with other processes; processes that end, restart or are
killed between two stores; check-then-act sequences (peer scan and mark,
all_waiting and lock, quota and allocation, slot search and claim); values read
once and used later (balance, priority, mode); control commands that arrive in
the middle of a launch; a lock that is released while a request runs; tables
filled in several steps without a lock; a connection whose break two threads
notice; a context destroyed while threads are on their way to it.

What makes the parts correct: exclusive rounds, gate states that never claim
what nobody does, slices overdrawn by a bounded amount, no starvation behind
the gate; balances bounded below and above, budget neither lost nor spent
twice, waiting not charged, blocked threads resumed; counters that count what
they say; slots that stay with their tenant; requests settled once and results
in order; permits that are not lost with a connection; kernels that run where
their data is, in a context that exists, with at least one TPC.

## 2. Modules and how they correspond to the code

Every module has one action per atomic step of the code (a load, a store, an
atomic operation, a call made under a lock), a variable per shared field under
the name it has in the code, and a `pc` per thread (in SlotRegistry a `stage` per
process) for the place in a function.
Operators commented "Faulty variant" stand next to the definition they are a
bug of; they are no part of any specification.

**KillerGate** (`stream_gate.cpp`, `time_slice.cpp`, `round_manager.cpp`, the
launch hooks, constructor and destructor of `cuda_hooks.cpp`).  Tenants are
slots `0 .. TenantCount-1`, each with one launching thread.  `Attach`, `Detach`
and `Crash` are the life of a process; gate and slice survive it, as in shared
memory.  `LaunchKiller` to `MarkActive` are `gate_killer_enter`; `ScanWaiting` to
`ReleaseRoundLock` are `round_check_and_trigger` with `start_new_round` and
`timeslice_recharge`, whose two stores (slice, then state) are two actions;
`KernelDone` and `GateExit` are the synchronisation with its deduction and
`gate_killer_exit`.  The controller is external: it changes mode, policy and
the version of the killer policy at any time.  Weights are natural numbers
(floats in the code), the slice is the truncated quotient, and the policy fields
that a recharge computes it from are read in one step; only killers are
modelled because other kernels do not touch the gate.

**GateCore** (`gate_core.py`, the scheduler loop of `npu_proxy.py`).  Methods
under the lock are one action each.  `step()` is two, `Dispatch` and
`Finish`/`RunFails`, because the lock is released while the request runs;
registering, unregistering and all commands may fall between them.  A run whose
tenant is dropped meanwhile charges an object nobody sees any more (`orphan`).
The choice compares charged/granted ratios by cross multiplication, ties in
either order.  Requests are alike, queues are their lengths.  After a run the
scheduler thread is in `sendall` (`sending`) and takes no request until that
returns (`Sent`), which a client that does not read puts off for ever.

**TimeGate** (`libbless.cpp`, time credits).  Threads of one process and the
control thread.  `ReadFlags`, `ReadCredit`, `Borrow`, `Arm`, `CheckRide`, `Poll` are
the loads of `time_credit_gate`, with its locals `credit` and `wake_at`; `Measure`
and `Deduct` are `time_batch_end_and_charge`, called at a synchronisation and
before waiting.  `TimeCredit` and `StoreCredit` are the two stores of one command.
The clock is abstracted: a batch costs 0 to `MaxBatchUs`.  Two inputs are read in
one place only and are chosen there: `pause`, which holds a launch before the gate
for any time (`Unheld`), and `peer_idle`, which is fresh, stale or absent each time
a waiting thread looks (`PeerIdle`).  `time_add` with a negative argument, which the
control server would accept, is left out: the feeder injects.

**CreditGate** (`libbless.cpp`, `kernel_credit_gate`).  The burst cache, the load
and the weak compare-and-swap, which may fail spuriously (`Retry`).  `granted`,
`launched` and `off` are history variables.

**Totals** has the one sum the modules need: `Total(f)` adds up a function to the
natural numbers by counting its units, the pairs of an argument and one of its
units, so that a sum is the cardinality of a finite set and facts about it can be
proved.  CreditGate adds up the cached credits of the threads with it, VirtualMem
and MemTrack the bytes the driver holds, SlotRegistry the shares of the SMs.

**Calls** and **Allocations** declare what these modules have in common: the
threads of a process with their places (CreditGate, VirtualMem, MemTrack), and the
driver's memory with the pointer and the size of the call each thread is in
(VirtualMem, MemTrack).

**PriorityGate** (`libbless.cpp`, `priority_queue_gate`, the preemption check,
`priority_queue_done`).  The gates between them take any time.  `urgent_request`
and `urgent_clear` store two flags one after the other.

**VirtualMem** (`virtual_mem.cpp` and the memory hooks of libkraken).  The table
has no lock and plain fields, so the model takes what a compiler and a race can
make of it: each round of the two loops is an action (`FindEntry`, `FindRecord`); a
plain read of `alloc_table_size` gives the present value or the one the call has
read before; the stores of an entry (`WriteEntry`, `NewEntry`, `EraseEntry`) are
actions of their own in any order; the index of a new entry is read again for
each store; and an index may leave the table, into `MaxCells` places after it,
which are taken as zero at first and used by nobody else.  (g++ -O2 keeps the
count in a register and stores it once: one of these behaviours.)  The driver
(external) hands out any free pointer or refuses, and may fail to free, after
which the record is gone and the memory is not (`unfreed`).  `Restart` ends the
process at any step and starts it anew: table and `mem_used_bytes` begin at zero,
the monitor's counter in the segment stays (`inherited`).  `collided` records that
two threads were in the table at once.  One process per tenant adds to the
monitor's counter.

**MemTrack** (`libbless.cpp`, memory hooks and commands).  The map is guarded by
a mutex, counters are atomic, their sequence is not.  The driver's free is taken
to succeed.

**SlotRegistry** (`shm_client.cpp`, `kraken_fini`).  One action per pass over the
slots or per store to a slot: id, share of the SMs, memory quota (with `mps_pct`,
which only the monitor reads), the two totals, `active`.  Any number of processes
start at the same time and are killed between any two stores; the controller
(external, `Register`, one step) fills a slot at any time.  Two history variables:
`raced`, that a process has chosen a slot while another was about to name it or
its own name had appeared elsewhere, or that two writers fill one share; `cut`,
the slots whose process was killed in the middle of filling them.

**RequestService** is the abstract specification of the proxy: a request is
taken once, in the order of its connection, and settled at most once by a
result, an error or silence; the results of a connection come in order.

**NpuProxy** (`npu_proxy.py`) implements it; the refinement mapping `Status` reads
the state of a request from queues, the running request and the replies.
Connection threads and the admin
thread run `ensure_tenant` step by step (`InLogs` to `Publish`), because nothing
locks it; `Unregister`, `Refuse`, `CloseCtrl`, `RemovePath`, `Forget` are
`drop_tenant`; `Start`, `Finish`, `RunFails` are the scheduler with its replies.
Clients may leave at any time (`Leave`, `Hangup`); what they sent before is still
read.  `sendall` has no timeout: `Block` and `Unblock` are a client that is connected
and does not read, for a while or for ever, and hold up the thread that sends,
scheduler or admin.  A request whose tenant is gone kills the connection's thread
(`SubmitFails`, KeyError) and leaves the socket open.  Which tenant is next is
GateCore's matter, so any tenant with work may be: every behaviour of the
proxy with GateCore's choice is one of this module.  `overlapped` is a history
variable.

**NpuClient** (`client.py`).  The request loop (`Acquire` to `SendFails`) and
`receiver` (`Top` to `Release`), each with its own idea of socket and epoch, and
`drop_inflight` with `reconnect_loop`, which either may run (`Handle`).  The test of
`submits`, `popleft` and `sem.release` are three steps.  The
proxy is external: it answers, loses a request when a run fails, goes down and
comes back.  A receiver blocked on a socket that the other thread closes keeps
the connection alive, as the kernel does.  `raced` is a history variable.

**SpaceLimit** (`libbless.cpp`, initialisation, contexts, routing, QMD).  One
procedure `reconf_limited_ctx` with two callers, the thread that initialises and
the control thread, which is started before the initialisation is over.
`CheckRoute`, `PassGate`, `Guard`, `Switch`, `Use` are the loads of a launch, in
their order; `MarkAlloc` begins an allocation, which does not look at the gate.
`StoreWord` and `ReadWord` are the relaxed stores and loads of the mask.  The
driver is external: it may refuse a context or the callback.  `safe`, `late`,
`overtaken`, `holding` and `asked` are history variables.  A failing creation of the
unlimited context and a failing `cudaMalloc` are left out.  The other gates of the
launch path are left to their own modules.

`MC*` modules define the constants that a `.cfg` cannot write, and symmetry.

## 3. Runs

Bounds are constants, named in the modules.  Deadlock is checked except for
KillerGate, SlotRegistry and SpaceLimit, where all processes or threads may have
ended for good, and VirtualMem, where the bounds end all calls.

Invariants that speak of the same state are checked as one conjunction of named
parts: `CreditInv` is `CreditTypeOK` and `CreditConserved`; `QueueInv` is `TypeOK`,
`QueueCounts` and `UnderflowTransient`; `StatisticsInv` is `TrackTypeOK`,
`CurrentExact` and `PeakExact`; `UsageInv` is `VmemTypeOK`, the bound of the table,
`UsageExact` and the monitor's number; `RegistryInv` is `RegistryTypeOK`,
`TotalsNotInflated`, `QuotasComplete` and `TotalsExact`; `TablesInv` is `TypeOK` and
`TablesAgree`; `DataReachable` is `AllocationsTogether` and `KernelMeetsData`.  The
other runs check `TypeOK` by itself.

Several properties are claimed only until a race happens that the code does not
prevent.  The race is in the model and in the run, a history variable records it
(`raced`, `collided`, `overlapped`, `overtaken`, `clean`), the property names it, and
section 6 says what comes of it.

| Run | Instance | Shows |
|---|---|---|
| `killer_safety` | 2 tenants, 3 modes, 2 policies, 2 starts each, 1 crash | `TypeOK`, `RoundLockExclusive`, `GateStateOwned` (before a crash), `OverdraftBounded` (until mode FREE): the bound of two kernels is reached, by a late `GATE_RUNNING` store of a round trigger that lets a tenant run on a spent slice |
| `killer_live` | 2 tenants, mode OVERCOMMIT, 2 starts each | `EveryKillerRuns`: peers may end while a tenant waits, because the spin re-evaluates the round |
| `npu_gate` | 2 tenants, cap 1, runs of at most 1, 2 requests | `DebtBounded`, `ContractConserved` with commands in the middle of runs; `NoStall`: queues empty with all credit spent, against the docstrings (section 6), unless a client stops reading for ever |
| `time_gate` | 2 threads, batches of at most 1, loans of at most 1, all commands | `LoanBounded` (until a boost: largest loan and two batches per thread), `WaitNotCharged`, `DebtRepaid`: when threads wait and the feeder injects, some launch of the process goes through; a single thread may starve behind another |
| `credit_gate` | 2 threads, burst 3, quotas negative, 0, below, equal to and above a burst | `NoUnderflow`, `CreditConserved`, `RefillSeen` |
| `priority_gate` | 2 threads, 3 changes of priority in mid-launch | `QueueCounts` (before the first such change), `UnderflowTransient`, `LaunchCompletes` |
| `vmem` | 2 threads, 3 pointers, table of 2 entries, 1 place after it, 1 restart, frees that fail | `QuotaBounded`: the race between check and count exceeds the quota by at most one allocation of the other thread; `UsageInv`: the count is exact, or too large after an overflow, until both threads have been in the table at once, and the monitor sees it with what the former process left in every case |
| `mem_track` | 2 threads, 3 pointers, 1 reset or switch | `CurrentExact`, `PeakExact`, `QuotaOverrun` (the race exceeds the quota by at most one allocation per other thread) |
| `slots` | 4 processes of 3 tenants, 2 slots, controller, crashes, 4 starts | `SlotKept`; `RegistryInv`: no share added twice, quotas complete, totals exact where nobody is filling or was killed doing so; both until two writers clash |
| `npu_proxy` | 2 connections of 1 tenant, 2 requests each, 1 admin command, failing runs, clients that leave or do not read | `ImplementsService` (refinement of RequestService); `EveryRequestSettled`, unless a client stops reading for ever; `NoneForgotten`: one answer to each request of a present client but those of failing runs and of a KeyError; `TablesInv` (unless a tenant is dropped in mid-registration) |
| `npu_client` | depth 2, 2 restarts of the proxy, 1 failing run per connection, 6 sockets | `PermitsKept`: breaks do not narrow the pipeline; `DepthKept`, `RepliesKeepComing`; all as long as each break is dealt with by one thread |
| `space_limit` | 2 threads, 3 space modes, 2 layouts, 7 TPCs in words of 3, 2 limited contexts | `GateProtects`, `AllocationsTogether`, `KernelMeetsData`, `NeverZeroTpcs`, `ShareGranted`, `DestroyedOnce`, `CallsReturn` |

Why the bounds are enough.

- `MaxDebt` of KillerGate cuts off balances below three kernels, one more than
  `OverdraftBounded` allows, so a violation would be seen; it only bites in mode
  FREE, where slices are not looked at.  Two starts (`MaxAttaches`) give a
  restart on a slot left behind, one crash (`MaxCrashes`) can hit any step.
  `MaxVersion` = 1 gives one new killer policy.  Slices are 0, 1, 2 microseconds:
  spent by no, one and two kernels.
- `MaxGranted`, `MaxSubmits` of GateCore: two requests and two grants suffice for
  a run with the other tenant waiting, a discarded grant, and a second choice;
  `DebtBounded` and `ContractConserved` are proved without the bounds mattering.
- `MaxCredit` of TimeGate limits `time_add`; at 2 it lies above every value a thread
  waits for, so that an injection is never withheld from a waiting thread.  The
  balance below zero is limited by the code itself, except that boosted threads
  may launch at any balance: `MaxDebt` stops those, and only those.  The bound of
  `LoanBounded` is reached with one thread and batches of 2; `LoanBounded` and
  `WaitNotCharged` are proved for any number of threads.
- `MaxSets` = 3 changes in mid-launch drive a counter negative, clamp it, and do
  so again.  The same properties were also checked with three threads and one
  change; `QueueInv` is proved for any number of both.
- `MaxControls` and `MaxOpens` end resets and restarts.  Two slots for three tenants
  make one of them find none; four starts give two processes of one tenant, one
  of another and a restart, in any overlap.
- VirtualMem: three pointers for a table of two entries make it overflow, and one
  place after it (`MaxCells`) is what two threads can reach.  `MaxUsed` is the quota
  and the largest allocation of the other thread.  One restart (`MaxRestarts`) can
  hit any step.  With `CallsAfter` = FALSE new allocations end when the two threads
  have met in the table, while both calls go on to their end, and frees too:
  count and quota are claimed until then only, and what is claimed beyond, the
  monitor's number, is proved without these bounds mattering.
- `MaxRequests` and `MaxCommands` of NpuProxy: two requests per connection give
  one running and one queued when a tenant is dropped, and a later request that
  could overtake; one command can fall between any two steps of a registration.
- `MaxSocks` of NpuClient lets both threads reconnect after each of two restarts
  (`MaxRestarts`); `MaxFlight` is one above the depth, so an excess is seen;
  `MaxFails` is below the depth, since the code never gives back the permit of a
  request whose run failed.
- `MaxContexts` = 2 and two commands in mode CTX give a context made by the
  initialisation, one recreated and one refused.  In mode QMD one command is
  enough, because the request of the environment is the other mask.  Seven TPCs
  in words of three leave the last word partly unused, as 94 in words of 32 do.

## 4. Fairness

- A thread inside a library function keeps running: weak fairness of `Step`,
  `Gate` or the single steps per thread.  The code spins with `usleep` or
  `sched_yield` and takes no lock there.
- `killer_live`: an attached application launches its next killer or ends
  (weak fairness of the disjunction).  Without it a tenant that is idle for ever
  keeps all others in WAITING, which the code permits: the round waits for every
  active slot.
- `npu_gate`: the scheduler loop calls `step()` for ever and runs end.  Nothing is
  assumed of clients, feeder and administrator; they may stop or never stop
  (requests are bounded by `MaxSubmits`), and a client need not read, so that
  `sendall` need not return (no fairness of `Sent`).
- `time_gate`: the feeder injects at every tick (strong fairness of `Feed`,
  because other commands disable it for a moment); the control thread ends a
  command it has begun.
- `credit_gate`: a weak compare-and-swap that is tried again and again with the
  expected value succeeds (strong fairness of `Take`).
- `priority_gate`: threads and the second store of an urgent command.
- `npu_proxy`: the scheduler starts a request when there is one, runs end, and
  `drop_tenant` goes on once it has begun.  Clients, connection threads and
  administrator need not do anything.  A `sendall` to a client that reads again and
  again gets through (strong fairness: the kernel hands on what is read); one to
  a client that has stopped reading does not, and no fairness says it would.
- `npu_client`: both threads run, the proxy answers the requests it has and is
  restarted after it went down; it need not fail or go down.
- `space_limit`: threads inside the library and the control thread run; no
  command need ever come, and the application need not exit.

## 5. Proofs

All for any number of tenants, threads or connections and any values of the
constants that satisfy the assumptions named in the modules.  The assumptions
are of three kinds: bounds are natural numbers (those that the code fixes, such
as the burst, the number of TPCs, the depth or the longest batch, at least 1);
sets that are counted are finite (the threads in `TimeAssumption`,
`CreditAssumption`, `PriorityAssumption`, threads and pointers in
`MemAssumption` and `TrackAssumption`); and markers are no values of what they
mark (`None` is no thread and no request, `NoStore` no integer).
`TimeAssumption` says besides that there is a largest loan and that it is not
negative, as the debt could not be bounded otherwise, `TrackAssumption` and
`MemAssumption` that there is a thread and a largest allocation, which the
bounds on the overrun name, and `SpaceAssumption` that the TPCs fit into the
three words of the mask.

Each property below was checked by TLC on the instance of the module's run
before it was proved.

- `KillerGateProofs!TypeCorrect`: with `LoopOK`, that an index in the middle of a
  loop body is below the tenant count; so no loop runs past the table.
- `KillerGateProofs!RoundLockSafe`: inductive with the type.  A trigger holds the
  lock from its compare-and-swap to its release; a crash only removes a holder.
- `KillerGateProofs!GateStateSafe`: each state is stored by its owner on the way
  in, and `Resume`, which writes the slots of others, only ever writes RUNNING.
- `KillerGateProofs!OverdraftSafe`.  The bound alone is not inductive: one must
  know who will run a kernel without looking at the slice again (`Cleared`), and
  that a trigger between its two stores (`HalfRecharged`) has a fresh slice
  behind it from which at most one kernel has been taken.  A cleared tenant owes
  at most one kernel; one that is half recharged and cleared owes nothing.
  `RoundLockExclusive` is needed so that two triggers are never half way for the
  same tenant.  The history variable `freed` records that the mode has been FREE;
  until then every launch looks at its slice or is woken by a round.
- `GateCoreProofs!TypeCorrect`: queue lengths stay natural, so only a queued
  request is started.
- `GateCoreProofs!DebtSafe`: a tenant that was never disarmed owes nothing while
  it is disarmed, unlimited or in the middle of a contract run (`DebtInv`); a run
  belongs to a registered tenant or is an orphan (`RunInv`).
- `GateCoreProofs!ContractSafe`: each step keeps balance - granted + charged of a
  gated tenant, or is `time_credit`; needs `RunInv`.
- `AccountingProofs` has the theorems about CreditGate, SlotRegistry, MemTrack and
  VirtualMem, which all rest on the same lemmas about `Total`: a change at one
  argument changes the total by as much (`TotalExcept`), totals are monotone
  (`TotalMonotone`), bounded by the largest value (`TotalBounded`), and zero only if
  everything is (`TotalZero`).  They follow from the library's facts about
  cardinality, without induction over data.  The module extends all
  four, which is why their initial predicates, next-state relations and other
  common names carry a prefix (`Credit`, `Vmem`, `Track`, `Registry`) and two of them
  share what Allocations declares; a theorem speaks of one specification.
  - `ClampSafe` (CreditGate): a thread between load and compare-and-swap expects a
    positive value (`ClampInv`), so the chunk it takes leaves nothing negative.
  - `CreditsAddUp` (`CreditInv` of CreditGate).  `AccountInv` adds `EmptyHanded`, that a
    thread goes to the shared counter only with an empty cache: the chunk a
    compare-and-swap takes is then the whole of the new cache, and nothing is
    overwritten.
  - `TenantKeepsSlot` and `RegistryCorrect` (SlotRegistry), for any number of
    processes that start at any time, with the controller and crashes.  `SlotInv`:
    two slots have different tenants (`Distinct`), and a slot about to be named is
    the process's own or empty, in which case it has no other and whoever has
    chosen the same slot is of the same tenant (`Claims`), until `raced`.  `ShareInv`:
    nobody else fills the slot a process fills (`Fills`), share and quota come
    together except between the two stores (`Pairs`), and the totals lack exactly
    what is still owed, or less than the slots if a process was killed there
    (`Accounts`).
  - `StatisticsExact` and `QuotaNearlyKept` (MemTrack).  `Owners`, which holds
    always: a thread has the pointer it works on for itself, so a pointer used
    again cannot be confused with its former life.  `Ledger`, as long as nobody has
    spoiled the books: the map has every live pointer but those a thread is about
    to enter or has taken out (`MapExact`); the driver holds `mem_current_bytes` and
    what is not counted yet or no longer (`Uncounted`); the peak is the highest
    usage or a thread that saw it is about to raise it (`PeakComing`); and usage
    with all admitted bytes (`Admission`) is within the quota and `Margin`.  A thread
    that is admitted has itself nothing outstanding, hence one allocation for every
    *other* thread.
  - `UsageCounted` and `QuotaNearlyExact` (VirtualMem), for any number of threads and
    with no assumption about how they call.  `VmemInv` has two layers.  Always, so
    also after a collision: types, the locals of each call (`VmemCalls`), and the
    monitor's counter, which differs from `mem_used_bytes` by what was inherited and
    by what calls have counted in one and not yet in the other (`MonitorBooks`).
    Until two threads have been in the table at once: the thread in the table is
    alone there and what it has read is still so (`TableAlone`); an entry belongs to
    one pointer in use, with its size unless its thread is just storing it
    (`TableSound`, `TableWork`); nothing is missing unless the table has been full
    (`TableComplete`); and the driver holds what is counted and what calls still owe
    (`UsageBooks`), admitted bytes included within the quota and one allocation for
    every other thread.  The threads before and after the table (in the check, the
    driver, the counters) interleave freely in both layers.
- `TimeGateProofs!TypeCorrect`, `WaitIsFree`, `DebtIsBounded`.  `LoanBounded` is not
  inductive: at the moment a thread charges one must know that the charge was
  foreseen.  `DebtBound` therefore says that the balance is above minus the largest
  loan and one batch for each charge that has already been used: a thread has in
  store its open batch (`Chargeable`) and the batch that a balance it has read
  and not used yet lets it start (`Admitted`).  The charges used are the sizes of
  two sets, `NoCharge` and `OneCharge`, and each step moves at most one thread in
  or out of them.  `Locals` says what the locals of the gate are worth at each
  place, `Commands` what a command between its two stores has done.
- `PriorityGateProofs!CountersCorrect` (`QueueInv`).  Before a change in mid-launch a
  thread's own copy of the priority is the current one (`SamePriority`), so that
  `priority_queue_done`, which reads it again, counts out where the gate counted
  in.  After such changes only `NotBelow` remains: a counter and the threads that
  have counted themselves out to give way are together not negative, unless a
  thread is about to clamp it.
- `SpaceLimitProofs`.  Four layers, each used by the next.  `StartInv`: one thread
  initialises, the control thread starts after its `reconf_limited_ctx`, the
  destructor runs when no other thread is in the library.  `ContextInv`: the
  pointer is good except between `Destroy` and `Create`, where the gate is closed,
  and after the destructor; this gives `GateSafe` and `NoDoubleDestroy`.
  `MaskInv`: what each word holds before, during and after the three stores, and
  that TPC 0 is in the first word of every mask, so that words of two requests
  still leave a kernel one TPC (`SomeTpcAlways`); `ShareIsExact` rests on lemmas
  that a grant of n is a set of exactly n TPCs in both layouts, and that the
  strided layout has enough TPCs of its stride before it fills up.  `AllocInv`:
  from the first allocation on the route is frozen and its context lives
  (`AllocationsReachable`).
- `NpuProxyProofs!ServiceImplemented`: the refinement of RequestService.  The
  initial state maps to its initial state, and each step of the proxy to a step
  of the service or to a stutter.  `RequestInv` is what the mapping needs: the
  requests of a connection that are pending were taken and have no reply yet
  (`Numbers`); each is in one place, and they queue in order behind the one that
  runs and those being refused (`Order`); no result has overtaken one of them
  (`Results`).  One lemma per kind of step says how it changes `Status`.
- `NpuProxyProofs!RequestsAnswered` (`NoneForgotten`), from the same invariant:
  a request leaves the pending ones only with an answer, by a failing run, or
  when nobody is there, and one that never became pending is the last that a
  dead thread has read.  `TablesConsistent` (`TablesInv`), from `Tables`, which
  says how far each thread inside `ensure_tenant` or `drop_tenant` has come with
  its tables, as long as the two have not overlapped.
- `NpuClientProofs!DepthIsKept` and `PipelineKept` (`PermitsKept`).
  `SocketInv`, which holds always: a thread's socket is the current one or an
  older, closed one, and nothing is under way on a connection that was never the
  current one.  `OneHandler`, as long as no break has been dealt with twice: the
  main thread comes to a break only after the receiver has renewed the
  connection, nobody else renews the one the receiver works with, what is under
  way is noted in `submits` (`Noted`) and nothing else is but requests of
  failing runs, because the receiver has taken out all the rest before it
  connects anew (`Answerable`), and free permits, noted requests and permits in
  hand add up to the depth (`PermitsExact`).

Only model-checked:

- everything temporal, as fairness and leads-to are beyond the prover:
  `EveryKillerRuns`, `NoStall`, `DebtRepaid`, `RefillSeen`, `LaunchCompletes`,
  `EveryRequestSettled`, `RepliesKeepComing`, `CallsReturn`.

Every other property of a run is the subject of a theorem.

## 6. Disagreements between comments and code

Met while the modules were written.  The models contain the behaviour; the
properties above are stated so that they hold with it.

libkraken:

- `stream_gate.cpp:55`: `gate_killer_enter` scans the peers and stores
  KILLER_ACTIVE afterwards, so two tenants that both scan before either stores
  run killers at the same time; `cuda_hooks.cpp:239` says that overlap with a
  peer is prevented.
- `round_manager.cpp:48`: `all_waiting()` is not repeated after the
  compare-and-swap; a delayed tenant starts a second round under a running killer
  (comment at lines 45-46).
- `round_manager.cpp:55`: only the trigger of a round reloads the killer policy
  (comment at line 4).
- `stream_gate.cpp:44`: a tenant that waits when the mode becomes FREE waits on
  while a peer runs ungated (comment at line 28).
- `cuda_hooks.cpp:470`: the number of killer indices is also the number of names
  that `is_killer_by_name` looks at; a policy with names only matches nothing, and
  with more indices than names the empty names match every kernel.  (Not
  modelled: classification is an input of KillerGate.)
- `virtual_mem.cpp:43, 51`: with two threads the quota can be exceeded (by at most
  one allocation per other thread, `QuotaBounded`), and once two are in the table
  together an entry may be lost or overwritten, the count go wrong for good and an
  index leave the table (comments at lines 7 and 10).
- `virtual_mem.cpp:70`: nobody takes the bytes of a process that ended off the
  monitor's counter (comment at line 11); after a restart the monitor sees them on
  top of what is in use.
- `cuda_hooks.cpp:377, 402`: a free that the driver refuses is not counted any
  more, so that the memory it leaves is outside the quota.
- `shm_client.cpp:71`: two processes that start together may take one slot
  (comment at line 60), and two processes of a tenant, or one and the controller,
  that both find a slot without a share add it twice (comment at lines 91-93).
- `shm_client.cpp:101`: a process killed between this store and the next ones leaves
  a slot whose memory quota is 0, which means none, and totals that are too
  small; the test of line 94 keeps every later start from completing it.

libbless:

- `libbless.cpp:1461`: in the BACKGROUND wait `waited` is reset at 50 and compared
  with 100; the limit of 10 ms stated at line 1460 never applies.  A count left
  behind by a change of priority then blocks for ever.
- `:1490`: the pause loop does not close the batch, so a pause is charged (comment
  at line 556); `:395`: a ride ends at the next charge, not at the next tick
  (comment at 570); `:568`: boost does not release a waiting thread (comment at
  168); `:1468`: `priority_queue_done` reads the priority again and may count out
  of the wrong counter (comment at 275).
- `:460`: `kraken_qmd_setup` returns true whenever it has been called before, so
  after a failed first call a `reconf_sm` activates a mask that no callback
  applies; the failure's message (line 465) says that the former mode is kept,
  but `space_mode` stays QMD.
- `:734`: in mode QMD a `reconf_sm` sets the mask back to BLESS_LIMIT_PCT before it
  looks at `any_alloc`, even if it then reports "ignored" (line 760).
- `:759`: an allocation that begins after this check, or before line 1038 stores
  the route, finds its context destroyed or the route changed; lines 727 and 1040
  say that this is excluded.  `GateProtects` and `AllocationsTogether` say what
  remains true.
- `:715`: `attach_runtime_if_needed` uses the limited context without the reconf
  gate, after the control thread has begun to accept commands.
- `:505`: a kernel whose callback falls between the stores may get fewer or more
  TPCs than either request grants, but never none.

NPU:

- `gate_core.py:164-179`: with all credit spent the gate still serves who has work;
  `work_conserving` is on by default and no caller turns it off.  The repository's
  `README.md:33, 42` says so too, but the module's docstring (lines 15-16: a tenant
  without credit does not run, no work-conserving fallback), `npu_proxy.py:22`
  (strict) and `npu_proxy/README.md:58, 63-64` (all out of credit: the PE idles; no
  fallback exists) say the opposite.  `NoStall` states what the code does, and
  `PROJECT.json` lists the disagreement as a finding of run `npu_gate`.
- `npu_proxy.py:206`: `sendall` has no timeout, and the only scheduler thread makes
  it: a connected client that stops reading stops the requests of all tenants
  (and at line 164 the admin thread).  The comment at line 208 foresees only
  clients that leave.
- `npu_proxy.py:189`: a request that comes after its tenant was unregistered raises
  KeyError; the connection's thread ends without closing the socket, and the
  client waits.
- `npu_proxy.py:113`: a tenant dropped while one of its requests runs gets the
  errors for the queued ones first and the older result after them; line 15
  promises replies in FIFO order.
- `npu_proxy.py:95`: a tenant dropped between `core.register` and the opening of its
  log is in `logs` but not in the core, and every later handshake takes it for
  registered; `client.py:9` calls `ensure_tenant` idempotent.
- `client.py:77`: the docstring says that a break another thread has dealt with is
  ignored; if both threads pass the test of the epoch before either connects,
  both connect, and the request in between is lost.  A reply of the old
  connection that is counted after `drop_inflight` gives a permit back twice, so
  more than `depth` requests may be under way (line 4).

## 7. Not modelled, and the plan

Not modelled for good: `event_pool.cpp` and `cupti_hooks.cpp` (stubs),
`virtual_sm.cpp` (one comparison nobody calls), `context_manager.hpp` and
`routing.hpp` (declarations nothing includes), classification of kernels by name
or index and JSON parsing (pure look-ups), symbol resolution, statistics that
are only reported, squad and share accounting of libbless (a notification to
the master that gates nothing), `bless_bind_thread` (the application's own choice
of a context), sockets as such, the controller and the CUDA driver (external,
represented by what they may do).  Two launching threads per tenant in
KillerGate: they share `killer_start`, and the code says nothing about them.

Modules, in the order they were written: KillerGate, GateCore, TimeGate,
CreditGate, PriorityGate, SlotRegistry, VirtualMem, MemTrack, RequestService,
NpuProxy, NpuClient, SpaceLimit, Totals, Calls, Allocations.

Theorems left to prove: none of the safety properties; the temporal ones stay
with TLC.
