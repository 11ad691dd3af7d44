----------------------------- MODULE VirtualMem -----------------------------
(***************************************************************************)
(* The memory quota of libkraken (virtual_mem.cpp) and the hooks that use  *)
(* it: cuMemAlloc, cudaMalloc check the quota, call the driver and record  *)
(* the pointer in alloc_table; cuMemFree, cudaFree clear the record and    *)
(* then call the driver.  The counters are atomic, the table has no lock:  *)
(* a plain read of alloc_table_size may give the present value or the one  *)
(* the call has read before, plain stores to the table may happen in any   *)
(* order, and an index may leave the table.  The driver hands out any      *)
(* pointer that is not in use, or refuses, and may fail to free.  The      *)
(* process may end at any time and start again; the segment stays.         *)
(***************************************************************************)
EXTENDS Integers, FiniteSetsExt, Allocations

CONSTANTS
    Quota,              \* virtual_mem_mb of the tenant, in bytes
    MAX_ALLOC_ENTRIES,
    MaxCells,           \* bound: entries, and places after the table, that are modelled
    MaxUsed,            \* bound: allocations stop outside 0 .. MaxUsed
    MaxRestarts,        \* bound: restarts of the process
    CallsAfter          \* bound: do allocations go on after a collision?

ASSUME MemAssumption ==
    /\ IsFiniteSet(Threads) /\ Threads # {} /\ IsFiniteSet(Ptrs)
    /\ Sizes \subseteq Nat \ {0} /\ \E m \in Sizes : \A b \in Sizes : b <= m
    /\ Quota \in Nat /\ MAX_ALLOC_ENTRIES \in Nat \ {0}
    /\ MaxCells \in Nat /\ MaxCells >= MAX_ALLOC_ENTRIES
    /\ MaxUsed \in Nat /\ MaxRestarts \in Nat /\ CallsAfter \in BOOLEAN
    /\ NoPtr \notin Ptrs

VARIABLES
    tab_ptr, tab_size,  \* alloc_table, and the memory after it
    alloc_table_size,
    mem_used_bytes,     \* g_kraken.mem_used_bytes, the one the check reads
    shm_used_bytes,     \* shm->tenants[idx].mem_used_bytes, for the monitor
    slot,               \* per thread: loop variable
    size_read,          \* per thread: the alloc_table_size it last read
    todo,               \* per thread: stores to the table still to be made
    restarts,           \* starts of the process after the first
    inherited,          \* history: shm_used_bytes when the process started
    unfreed,            \* history: pointers whose free the driver has refused
    overflowed,         \* history: an allocation found the table full
    collided            \* history: two threads were in the table at once

table       == <<tab_ptr, tab_size, alloc_table_size>>
usage       == <<mem_used_bytes, shm_used_bytes>>
VmemLocals  == <<ptr, bytes, slot, size_read, todo>>
lifetime    == <<restarts, inherited>>
VmemHistory == <<unfreed, overflowed, collided>>
VmemVars    == <<live, table, usage, pc, VmemLocals, lifetime, VmemHistory>>

Cells   == 1 .. MaxCells
NoEntry == 0

\* Places of a call between its first and its last access to the table.
InTable == {"find", "room", "new", "write", "search", "read", "erase"}

VmemTypeOK ==
    /\ live \in [Ptrs -> {0} \cup Sizes]
    /\ tab_ptr \in [Cells -> Ptrs \cup {NoPtr}]
    /\ tab_size \in [Cells -> {0} \cup Sizes]
    /\ alloc_table_size \in 0 .. MaxCells
    /\ mem_used_bytes \in Int /\ shm_used_bytes \in Int
    /\ pc \in [Threads -> {"app", "malloc", "count", "stat", "uncount", "unstat", "free"}
                              \cup InTable]
    /\ ptr \in [Threads -> Ptrs \cup {NoPtr}]
    /\ bytes \in [Threads -> {0} \cup Sizes]
    /\ slot \in [Threads -> 0 .. MaxCells + 1]
    /\ size_read \in [Threads -> 0 .. MaxCells]
    /\ todo \in [Threads -> SUBSET {"ptr", "size", "count"}]
    /\ restarts \in 0 .. MaxRestarts /\ inherited \in Int
    /\ unfreed \in SUBSET Ptrs /\ overflowed \in BOOLEAN /\ collided \in BOOLEAN

VmemInit ==
    /\ live = [p \in Ptrs |-> 0]
    /\ tab_ptr = [i \in Cells |-> NoPtr] /\ tab_size = [i \in Cells |-> 0]
    /\ alloc_table_size = 0
    /\ mem_used_bytes = 0 /\ shm_used_bytes = 0
    /\ pc = [t \in Threads |-> "app"]
    /\ ptr = [t \in Threads |-> NoPtr] /\ bytes = [t \in Threads |-> 0]
    /\ slot = [t \in Threads |-> NoEntry] /\ size_read = [t \in Threads |-> 0]
    /\ todo = [t \in Threads |-> {}]
    /\ restarts = 0 /\ inherited = 0
    /\ unfreed = {} /\ overflowed = FALSE /\ collided = FALSE

\* The process ends, in the middle of anything, and is started again.  The
\* driver releases its memory; nobody takes its bytes off the segment.
Restart ==
    /\ restarts < MaxRestarts /\ restarts' = restarts + 1
    /\ live' = [p \in Ptrs |-> 0]
    /\ tab_ptr' = [i \in Cells |-> NoPtr] /\ tab_size' = [i \in Cells |-> 0]
    /\ alloc_table_size' = 0
    /\ mem_used_bytes' = 0 /\ inherited' = shm_used_bytes
    /\ pc' = [t \in Threads |-> "app"]
    /\ ptr' = [t \in Threads |-> NoPtr] /\ bytes' = [t \in Threads |-> 0]
    /\ slot' = [t \in Threads |-> NoEntry] /\ size_read' = [t \in Threads |-> 0]
    /\ todo' = [t \in Threads |-> {}]
    /\ unfreed' = {} /\ overflowed' = FALSE /\ collided' = FALSE
    /\ UNCHANGED shm_used_bytes

\* The thread returns to the application; its locals end.
VmemReturn(t, from) ==
    /\ Transition(t, from, "app")
    /\ ptr' = [ptr EXCEPT ![t] = NoPtr]
    /\ bytes' = [bytes EXCEPT ![t] = 0]
    /\ slot' = [slot EXCEPT ![t] = NoEntry]
    /\ size_read' = [size_read EXCEPT ![t] = 0]
    /\ todo' = [todo EXCEPT ![t] = {}]

\* The thread starts its loop over the table, with pointer p.
EnterTable(t, from, to, p) ==
    /\ Transition(t, from, to)
    /\ ptr' = [ptr EXCEPT ![t] = p]
    /\ slot' = [slot EXCEPT ![t] = 1]
    /\ size_read' = [size_read EXCEPT ![t] = alloc_table_size]
    /\ collided' = (collided \/ \E u \in Threads \ {t} : pc[u] \in InTable)

-----------------------------------------------------------------------------
(* cuMemAlloc, cudaMalloc *)

\* The bounds of the model on a new allocation.
Continues(b) ==
    /\ 0 <= mem_used_bytes /\ mem_used_bytes + b <= MaxUsed
    /\ collided => CallsAfter

\* Faulty variant: a quota that is just exhausted does not refuse.
VmemCheckAllocStrict(t, b) ==
    /\ Quota > 0 => mem_used_bytes < Quota
    /\ Continues(b)
    /\ Transition(t, "app", "malloc")
    /\ bytes' = [bytes EXCEPT ![t] = b]
    /\ UNCHANGED <<live, table, usage, ptr, slot, size_read, todo, lifetime, VmemHistory>>

\* vmem_check_alloc; a quota of 0 stands for none.  A refused call changes
\* nothing.
VmemCheckAlloc(t, b) ==
    /\ Quota > 0 => mem_used_bytes + b <= Quota
    /\ Continues(b)
    /\ Transition(t, "app", "malloc")
    /\ bytes' = [bytes EXCEPT ![t] = b]
    /\ UNCHANGED <<live, table, usage, ptr, slot, size_read, todo, lifetime, VmemHistory>>

VmemRealMalloc(t) ==
    \/ \E p \in {q \in Ptrs : live[q] = 0} :
           /\ EnterTable(t, "malloc", "find", p)
           /\ live' = [live EXCEPT ![p] = bytes[t]]
           /\ UNCHANGED <<table, usage, bytes, todo, lifetime, unfreed, overflowed>>
    \/ /\ VmemReturn(t, "malloc")
       /\ UNCHANGED <<live, table, usage, lifetime, VmemHistory>>

\* What a plain read of alloc_table_size may give.
Reads(t) == {size_read[t], alloc_table_size}

\* A local of the thread, which is reset where nothing reads it any more.
Keep(x, t, v) == x' = [x EXCEPT ![t] = v]

\* One round of the loop of vmem_track_alloc: an empty entry is taken.
FindEntry(t) ==
    /\ \E n \in Reads(t) :
           \/ /\ Transition(t, "find", "write")
              /\ slot[t] <= n /\ tab_ptr[slot[t]] = NoPtr
              /\ Keep(size_read, t, 0) /\ Keep(todo, t, {"ptr", "size"})
              /\ UNCHANGED slot
           \/ /\ Transition(t, "find", "find")
              /\ slot[t] <= n /\ tab_ptr[slot[t]] # NoPtr
              /\ Keep(size_read, t, n) /\ Keep(slot, t, slot[t] + 1)
              /\ UNCHANGED todo
           \/ /\ Transition(t, "find", "room")
              /\ slot[t] > n
              /\ Keep(size_read, t, n) /\ Keep(slot, t, NoEntry)
              /\ UNCHANGED todo
    /\ UNCHANGED <<live, table, usage, ptr, bytes, lifetime, VmemHistory>>

\* Is there room for a new entry?
Room(t) ==
    /\ \E n \in Reads(t) :
           \/ /\ Transition(t, "room", "new")
              /\ n < MAX_ALLOC_ENTRIES
              /\ Keep(size_read, t, n) /\ Keep(todo, t, {"ptr", "size", "count"})
              /\ UNCHANGED overflowed
           \/ /\ Transition(t, "room", "count")
              /\ n >= MAX_ALLOC_ENTRIES
              /\ Keep(size_read, t, 0)
              /\ overflowed' = TRUE
              /\ UNCHANGED todo
    /\ UNCHANGED <<live, table, usage, ptr, bytes, slot, lifetime, unfreed, collided>>

\* The store w of the record (p, b) to entry i; after the last the thread goes on.
StoreIn(t, i, w, p, b, from, to) ==
    /\ w \in todo[t]
    /\ Keep(todo, t, todo[t] \ {w})
    /\ tab_ptr' = IF w = "ptr" THEN [tab_ptr EXCEPT ![i] = p] ELSE tab_ptr
    /\ tab_size' = IF w = "size" THEN [tab_size EXCEPT ![i] = b] ELSE tab_size
    /\ alloc_table_size' = IF w = "count" THEN i ELSE alloc_table_size
    /\ \/ /\ todo[t] # {w} /\ Transition(t, from, from)
          /\ UNCHANGED slot /\ Keep(size_read, t, IF from = "new" THEN i - 1 ELSE 0)
       \/ /\ todo[t] = {w} /\ Transition(t, from, to)
          /\ Keep(slot, t, NoEntry) /\ Keep(size_read, t, 0)
    /\ UNCHANGED <<live, usage, ptr, bytes, lifetime, VmemHistory>>

\* Into the entry found, ...
WriteEntry(t, w) == StoreIn(t, slot[t], w, ptr[t], bytes[t], "write", "count")

\* ... or into a new one, whose index is read again for every store, unless
\* alloc_table_size has been increased before.
NewEntry(t, w) ==
    \E n \in IF "count" \in todo[t] THEN Reads(t) ELSE {size_read[t]} :
        n < MaxCells /\ StoreIn(t, n + 1, w, ptr[t], bytes[t], "new", "count")

Count(t) ==
    /\ Transition(t, "count", "stat")
    /\ mem_used_bytes' = mem_used_bytes + bytes[t]
    /\ UNCHANGED <<live, table, shm_used_bytes, VmemLocals, lifetime, VmemHistory>>

Stat(t) ==
    /\ VmemReturn(t, "stat")
    /\ shm_used_bytes' = shm_used_bytes + bytes[t]
    /\ UNCHANGED <<live, table, mem_used_bytes, lifetime, VmemHistory>>

-----------------------------------------------------------------------------
(* cuMemFree, cudaFree *)

\* The application frees a pointer that no other thread is working on.
VmemFree(t, p) ==
    /\ live[p] > 0
    /\ \A u \in Threads : ptr[u] # p
    /\ EnterTable(t, "app", "search", p)
    /\ UNCHANGED <<live, table, usage, bytes, todo, lifetime, unfreed, overflowed>>

\* One round of the loop of vmem_track_free.
FindRecord(t) ==
    /\ \E n \in Reads(t) :
           \/ /\ Transition(t, "search", "read")
              /\ slot[t] <= n /\ tab_ptr[slot[t]] = ptr[t]
              /\ Keep(size_read, t, 0)
              /\ UNCHANGED slot
           \/ /\ Transition(t, "search", "search")
              /\ slot[t] <= n /\ tab_ptr[slot[t]] # ptr[t]
              /\ Keep(size_read, t, n) /\ Keep(slot, t, slot[t] + 1)
           \/ /\ Transition(t, "search", "free")
              /\ slot[t] > n
              /\ Keep(size_read, t, 0) /\ Keep(slot, t, NoEntry)
    /\ UNCHANGED <<live, table, usage, ptr, bytes, todo, lifetime, VmemHistory>>

ReadSize(t) ==
    /\ Transition(t, "read", "erase")
    /\ Keep(bytes, t, tab_size[slot[t]]) /\ Keep(todo, t, {"ptr", "size"})
    /\ UNCHANGED <<live, table, usage, ptr, slot, size_read, lifetime, VmemHistory>>

EraseEntry(t, w) == StoreIn(t, slot[t], w, NoPtr, 0, "erase", "uncount")

\* Faulty variant: twice the size is taken off.
UncountTwice(t) ==
    /\ Transition(t, "uncount", "unstat")
    /\ mem_used_bytes' = mem_used_bytes - 2 * bytes[t]
    /\ UNCHANGED <<live, table, shm_used_bytes, VmemLocals, lifetime, VmemHistory>>

Uncount(t) ==
    /\ Transition(t, "uncount", "unstat")
    /\ mem_used_bytes' = mem_used_bytes - bytes[t]
    /\ UNCHANGED <<live, table, shm_used_bytes, VmemLocals, lifetime, VmemHistory>>

Unstat(t) ==
    /\ Transition(t, "unstat", "free")
    /\ shm_used_bytes' = shm_used_bytes - bytes[t]
    /\ UNCHANGED <<live, table, mem_used_bytes, VmemLocals, lifetime, VmemHistory>>

\* The driver's answer is passed on; the record is gone either way.
VmemRealFree(t) ==
    /\ VmemReturn(t, "free")
    /\ \/ live' = [live EXCEPT ![ptr[t]] = 0] /\ unfreed' = unfreed \ {ptr[t]}
       \/ unfreed' = unfreed \cup {ptr[t]} /\ UNCHANGED live
    /\ UNCHANGED <<table, usage, lifetime, overflowed, collided>>

-----------------------------------------------------------------------------
VmemStep(t) ==
    \/ \E b \in Sizes : VmemCheckAlloc(t, b)
    \/ \E p \in Ptrs : VmemFree(t, p)
    \/ VmemRealMalloc(t) \/ FindEntry(t) \/ Room(t)
    \/ \E w \in {"ptr", "size", "count"} :
           WriteEntry(t, w) \/ NewEntry(t, w) \/ EraseEntry(t, w)
    \/ Count(t) \/ Stat(t)
    \/ FindRecord(t) \/ ReadSize(t)
    \/ Uncount(t) \/ Unstat(t) \/ VmemRealFree(t)

VmemNext == Restart \/ \E t \in Threads : VmemStep(t)

VmemSpec == VmemInit /\ [][VmemNext]_VmemVars

-----------------------------------------------------------------------------
(* Properties *)

\* What the driver holds for the process and has not refused to free.
Held == Total([p \in Ptrs |-> IF p \in unfreed THEN 0 ELSE live[p]])

\* virtual_mem.cpp refuses an allocation beyond the quota.  Threads that have
\* been checked and not yet counted, and frees already counted and not yet done,
\* exceed it by at most one allocation for every other thread, as long as no two
\* threads have been in the table at once.  Memory that the driver did not free
\* is not counted any more and comes on top.
QuotaBounded ==
    Quota > 0 /\ ~collided => Held <= Quota + (Cardinality(Threads) - 1) * Max(Sizes)

\* Between calls, mem_used_bytes is what the process holds; a full table may only
\* make it too large (the bytes of an unrecorded pointer are never given back).
UsageExact ==
    /\ mem_used_bytes >= Held
    /\ ~overflowed => mem_used_bytes = Held

\* The usage is counted, until two threads have been in the table at once; only
\* then does an index leave the table.  The monitor, in every case, sees that
\* number and what former processes of the tenant have left in the segment.
UsageInv ==
    /\ VmemTypeOK
    /\ ~collided => alloc_table_size <= MAX_ALLOC_ENTRIES
    /\ (\A t \in Threads : pc[t] = "app") =>
           /\ ~collided => UsageExact
           /\ shm_used_bytes = mem_used_bytes + inherited
=============================================================================
