------------------------------ MODULE MemTrack ------------------------------
(***************************************************************************)
(* Memory tracking of libbless: cudaMalloc and cudaMallocManaged check the *)
(* quota, call the driver and call track_alloc; cudaFree calls track_free  *)
(* and then the driver.  alloc_size_map is guarded by a mutex, the counters *)
(* are atomic, and the sequence of them is not.  A control thread sets the *)
(* quota, switches the tracking and resets the statistics.                 *)
(***************************************************************************)
EXTENDS Integers, FiniteSetsExt, Allocations

CONSTANTS
    Quotas,     \* arguments of mem_quota; negative is unlimited
    MaxControls \* bound: mem_reset and mem_track commands

ASSUME TrackAssumption ==
    /\ IsFiniteSet(Threads) /\ Threads # {} /\ IsFiniteSet(Ptrs)
    /\ Sizes \subseteq Nat \ {0} /\ \E m \in Sizes : \A b \in Sizes : b <= m
    /\ Quotas \subseteq Int
    /\ NoPtr \notin Ptrs
    /\ MaxControls \in Nat

VARIABLES
    alloc_size_map,       \* recorded size, 0 if there is no entry
    mem_current_bytes, mem_peak_bytes, mem_quota_bytes,
    mem_tracking_enabled,
    resetting,            \* mem_reset: what it has still to clear
    seen,                 \* per thread: locals current and peak of track_alloc
    highest,              \* history: the largest value mem_current_bytes had
    clean,                \* history: no reset with memory in use, no tracking off
    early,                \* history: the quota was set before anything was in use
    controls              \* mem_reset and mem_track commands so far

stats       == <<mem_current_bytes, mem_peak_bytes, highest>>
ctl         == <<mem_quota_bytes, mem_tracking_enabled, resetting, clean, early, controls>>
TrackLocals == <<ptr, bytes, seen>>
TrackVars   == <<live, alloc_size_map, stats, ctl, pc, TrackLocals>>

TrackTypeOK ==
    /\ live \in [Ptrs -> {0} \cup Sizes]
    /\ alloc_size_map \in [Ptrs -> {0} \cup Sizes]
    /\ mem_current_bytes \in Int /\ mem_peak_bytes \in Int
    /\ mem_quota_bytes = -1 \/ mem_quota_bytes \in Nat
    /\ mem_tracking_enabled \in BOOLEAN
    /\ resetting \in {"no", "peak", "map"}
    /\ pc \in [Threads -> {"app", "malloc", "insert", "add", "peak", "erase",
                           "sub", "free"}]
    /\ ptr \in [Threads -> Ptrs \cup {NoPtr}]
    /\ bytes \in [Threads -> {0} \cup Sizes]
    /\ seen \in [Threads -> Int]
    /\ highest \in Int
    /\ clean \in BOOLEAN /\ early \in BOOLEAN
    /\ controls \in 0 .. MaxControls

TrackInit ==
    /\ live = [p \in Ptrs |-> 0]
    /\ alloc_size_map = [p \in Ptrs |-> 0]
    /\ mem_current_bytes = 0 /\ mem_peak_bytes = 0
    /\ mem_quota_bytes = -1
    /\ mem_tracking_enabled = TRUE
    /\ resetting = "no"
    /\ pc = [t \in Threads |-> "app"]
    /\ ptr = [t \in Threads |-> NoPtr]
    /\ bytes = [t \in Threads |-> 0]
    /\ seen = [t \in Threads |-> 0]
    /\ highest = 0
    /\ clean = TRUE /\ early = FALSE
    /\ controls = 0

Quiet  == \A t \in Threads : pc[t] = "app"
Unused == Quiet /\ LiveBytes = 0

\* The hook returns; its locals end.
TrackReturn(t, from) ==
    /\ Transition(t, from, "app")
    /\ ptr' = [ptr EXCEPT ![t] = NoPtr]
    /\ bytes' = [bytes EXCEPT ![t] = 0]
    /\ seen' = [seen EXCEPT ![t] = 0]

-----------------------------------------------------------------------------
(* cudaMalloc, cudaMallocManaged *)

\* Faulty variant: the quota is compared with the usage before the allocation.
CheckQuotaBefore(b) == mem_quota_bytes < 0 \/ mem_current_bytes <= mem_quota_bytes

\* check_quota
CheckQuota(b) == mem_quota_bytes < 0 \/ mem_current_bytes + b <= mem_quota_bytes

\* A rejected call changes nothing.
Malloc(t, b) ==
    /\ CheckQuota(b)
    /\ Transition(t, "app", "malloc")
    /\ bytes' = [bytes EXCEPT ![t] = b]
    /\ UNCHANGED <<live, alloc_size_map, stats, ctl, ptr, seen>>

\* The driver hands out a pointer (and track_alloc begins), or fails.
RealMalloc(t) ==
    \/ \E p \in {q \in Ptrs : live[q] = 0} :
           /\ live' = [live EXCEPT ![p] = bytes[t]]
           /\ \/ /\ mem_tracking_enabled
                 /\ Transition(t, "malloc", "insert")
                 /\ ptr' = [ptr EXCEPT ![t] = p]
                 /\ UNCHANGED <<bytes, seen>>
              \/ ~mem_tracking_enabled /\ TrackReturn(t, "malloc")
           /\ UNCHANGED <<alloc_size_map, stats, ctl>>
    \/ /\ TrackReturn(t, "malloc")
       /\ UNCHANGED <<live, alloc_size_map, stats, ctl>>

\* track_alloc, under the mutex
Insert(t) ==
    /\ Transition(t, "insert", "add")
    /\ alloc_size_map' = [alloc_size_map EXCEPT ![ptr[t]] = bytes[t]]
    /\ UNCHANGED <<live, stats, ctl, TrackLocals>>

\* fetch_add, whose result is the local current
AddCurrent(t) ==
    /\ Transition(t, "add", "peak")
    /\ mem_current_bytes' = mem_current_bytes + bytes[t]
    /\ seen' = [seen EXCEPT ![t] = mem_current_bytes']
    /\ highest' = Max({highest, mem_current_bytes'})
    /\ UNCHANGED <<live, alloc_size_map, mem_peak_bytes, ctl, ptr, bytes>>

\* Faulty variant: the peak is stored without comparing.
RaisePeakBlind(t) ==
    /\ TrackReturn(t, "peak")
    /\ mem_peak_bytes' = seen[t]
    /\ UNCHANGED <<live, alloc_size_map, mem_current_bytes, highest, ctl>>

\* The compare-and-swap loop: it ends with the peak at least what was seen.
RaisePeak(t) ==
    /\ TrackReturn(t, "peak")
    /\ mem_peak_bytes' = Max({mem_peak_bytes, seen[t]})
    /\ UNCHANGED <<live, alloc_size_map, mem_current_bytes, highest, ctl>>

-----------------------------------------------------------------------------
(* cudaFree *)

\* The application frees a pointer that no other thread is working on.
Free(t, p) ==
    /\ live[p] > 0
    /\ \A u \in Threads : ptr[u] # p
    /\ Transition(t, "app", IF mem_tracking_enabled THEN "erase" ELSE "free")
    /\ ptr' = [ptr EXCEPT ![t] = p]
    /\ UNCHANGED <<live, alloc_size_map, stats, ctl, bytes, seen>>

\* track_free, under the mutex: look up and erase; no entry, no accounting.
Erase(t) ==
    /\ Transition(t, "erase",
                  IF alloc_size_map[ptr[t]] > 0 THEN "sub" ELSE "free")
    /\ bytes' = [bytes EXCEPT ![t] = alloc_size_map[ptr[t]]]
    /\ alloc_size_map' = [alloc_size_map EXCEPT ![ptr[t]] = 0]
    /\ UNCHANGED <<live, stats, ctl, ptr, seen>>

SubCurrent(t) ==
    /\ Transition(t, "sub", "free")
    /\ mem_current_bytes' = mem_current_bytes - bytes[t]
    /\ UNCHANGED <<live, alloc_size_map, mem_peak_bytes, highest, ctl, TrackLocals>>

RealFree(t) ==
    /\ TrackReturn(t, "free")
    /\ live' = [live EXCEPT ![ptr[t]] = 0]
    /\ UNCHANGED <<alloc_size_map, stats, ctl>>

-----------------------------------------------------------------------------
(* The control thread *)

MemQuota(q) ==
    /\ resetting = "no"
    /\ mem_quota_bytes' = IF q < 0 THEN -1 ELSE q
    /\ early' = Unused
    /\ UNCHANGED <<live, alloc_size_map, stats, mem_tracking_enabled, resetting,
                   clean, controls, pc, TrackLocals>>

MemTracking(b) ==
    /\ resetting = "no" /\ controls < MaxControls
    /\ controls' = controls + 1
    /\ mem_tracking_enabled' = b
    /\ clean' = (clean /\ b)
    /\ UNCHANGED <<live, alloc_size_map, stats, mem_quota_bytes, resetting, early,
                   pc, TrackLocals>>

\* mem_reset: current, then peak, then (under the mutex) the map.
MemReset ==
    /\ \/ /\ resetting = "no" /\ controls < MaxControls
          /\ controls' = controls + 1
          /\ resetting' = "peak"
          /\ mem_current_bytes' = 0
          /\ UNCHANGED <<alloc_size_map, mem_peak_bytes, highest>>
       \/ /\ resetting = "peak"
          /\ resetting' = "map"
          /\ mem_peak_bytes' = 0
          /\ highest' = 0
          /\ UNCHANGED <<alloc_size_map, mem_current_bytes, controls>>
       \/ /\ resetting = "map"
          /\ resetting' = "no"
          /\ alloc_size_map' = [p \in Ptrs |-> 0]
          /\ UNCHANGED <<stats, controls>>
    /\ clean' = (clean /\ Unused)
    /\ UNCHANGED <<live, mem_quota_bytes, mem_tracking_enabled, early, pc, TrackLocals>>

-----------------------------------------------------------------------------
TrackStep(t) ==
    \/ \E b \in Sizes : Malloc(t, b)
    \/ \E p \in Ptrs : Free(t, p)
    \/ RealMalloc(t) \/ Insert(t) \/ AddCurrent(t) \/ RaisePeak(t)
    \/ Erase(t) \/ SubCurrent(t) \/ RealFree(t)

TrackNext ==
    \/ \E t \in Threads : TrackStep(t)
    \/ \E q \in Quotas : MemQuota(q)
    \/ \E b \in BOOLEAN : MemTracking(b)
    \/ MemReset

TrackSpec == TrackInit /\ [][TrackNext]_TrackVars

-----------------------------------------------------------------------------
(* Properties *)

\* Between calls the statistics are exact, however allocations and frees of
\* different threads interleave and pointers are reused, as long as nobody has
\* reset them with memory in use or switched the tracking off.
CurrentExact ==
    Quiet /\ clean => mem_current_bytes = LiveBytes /\ alloc_size_map = live

\* The peak misses nothing: between calls it is the highest usage since the
\* last reset (the threads raise it by compare-and-swap, each from what it saw).
PeakExact == Quiet /\ clean => mem_peak_bytes = highest

\* check_quota and the allocation are not atomic, and the bytes of a free are
\* given back before the driver has them: a quota may be exceeded, but never by
\* more than one allocation for every other thread.
QuotaOverrun ==
    clean /\ early /\ mem_quota_bytes >= 0 =>
        LiveBytes <= mem_quota_bytes + (Cardinality(Threads) - 1) * Max(Sizes)

\* The statistics of track_alloc and track_free, which mem_stats reports: current
\* usage, the map and the peak.
StatisticsInv == TrackTypeOK /\ CurrentExact /\ PeakExact
=============================================================================
