----------------------------- MODULE SpaceLimit -----------------------------
(***************************************************************************)
(* How libbless limits the part of the GPU a process may use.  Kernels and *)
(* allocations are routed to a limited CUDA context, which the control     *)
(* thread may destroy and create again (reconf_limited_ctx), or, in QMD    *)
(* mode, the callback before a kernel's upload writes a mask of forbidden  *)
(* TPCs, kept in three words, into it.  The library is initialised by the  *)
(* first intercepted call, which starts the control thread before it is    *)
(* through with the contexts.                                              *)
(*                                                                         *)
(* reconf_limited_ctx is one procedure with two callers: the thread that   *)
(* initialises and the control thread.  Its steps take the caller as their *)
(* parameter.  Contexts are numbered in the order of their creation; 0 is  *)
(* nullptr.  The other gates of the launch path are modules PriorityGate,  *)
(* TimeGate and CreditGate.                                                *)
(***************************************************************************)
EXTENDS Integers, FiniteSets, FiniteSetsExt

CONSTANTS
    Threads,      \* application threads
    Control,      \* the control thread
    None,         \* no holder of init_mu
    SpaceModes,   \* values of space_mode the environment may ask for
    Layouts,      \* BLESS_QMD_SPREAD: "contiguous" or "spread"
    TpcTotal,     \* QMD_TPC_TOTAL (94)
    WordBits,     \* TPCs per mask word (32); three words
    EnvPct,       \* BLESS_LIMIT_PCT
    Pcts,         \* arguments of qmd_pct
    MaxCommands,  \* bound: commands to the control thread, by space mode
    MaxContexts   \* bound: limited contexts created in all

ASSUME SpaceAssumption ==
    /\ Control \notin Threads /\ None \notin Threads
    /\ SpaceModes \subseteq {"CTX", "MPS_ENV", "QMD"}
    /\ Layouts \subseteq {"contiguous", "spread"} /\ Layouts # {}
    /\ TpcTotal \in Nat \ {0} /\ WordBits \in Nat \ {0}
    /\ TpcTotal <= 3 * WordBits
    /\ EnvPct \in 1 .. 100 /\ Pcts \subseteq Int
    /\ MaxCommands \in [SpaceModes -> Nat] /\ MaxContexts \in Nat

Words == 0 .. 2
Tpcs  == 0 .. TpcTotal - 1
Unlimited == -1      \* ctx_unlimited
Own       == -2      \* whatever context the application has made current

-----------------------------------------------------------------------------
(* The mask of allowed TPCs *)

\* Faulty variant: rounded down.
PctToTpcDown(pct) ==
    LET p == Max({1, Min({pct, 100})})
    IN  Max({1, (TpcTotal * p) \div 100})

\* kraken_qmd_pct_to_tpc: rounded up, so that no share falls short.
PctToTpc(pct) ==
    LET p == Max({1, Min({pct, 100})})
    IN  (TpcTotal * p + 99) \div 100

\* The n smallest members of S.
FirstOf(n, S) == {x \in S : Cardinality({y \in S : y < x}) < n}

\* kraken_qmd_set_allowed, for n of TpcTotal: the first n TPCs, or n of them at
\* a fixed stride and, if these are too few, more from the front.
AllowedTpcs ==
    [n \in 1 .. TpcTotal |-> [l \in Layouts |->
        LET strided == {x \in Tpcs : x % (TpcTotal \div n) = 0}
            spread  == FirstOf(n, strided)
        IN  IF l = "spread"
            THEN spread \cup FirstOf(n - Cardinality(spread), Tpcs \ spread)
            ELSE FirstOf(n, Tpcs)]]

\* The part of a set of TPCs that word w of the mask describes.
Word(S, w) == {x \in S : x \div WordBits = w}

-----------------------------------------------------------------------------
VARIABLES
    space_mode, layout,   \* fixed by the environment
    \* shared by all threads
    inited, init_mu,
    route,                \* LIMITED or UNLIMITED
    any_alloc,
    gate,                 \* 1: LIMITED is being reconfigured
    ctx_limited, limited_applied,
    qmd_setup_done, qmd_active,
    mask,                 \* qmd_mask_w0 .. w2, as sets of allowed TPCs
    \* the driver
    live,                 \* the limited contexts that exist
    subscribed,           \* the launch callback is registered
    \* per thread
    pc,
    op,                   \* the intercepted call: launch or malloc
    target,               \* the context it will use
    seen,                 \* TPCs its callback has found allowed so far
    \* the control thread's command
    job,                  \* the mask it stores and where it goes on
    new_route,
    \* history
    holding,              \* contexts with allocations
    overtaken,            \* the first allocation came in the middle of a command
    safe,                 \* past the reconf gate, which has not closed since
    late,                 \* its call began after an allocation
    asked,                \* the percentage the mask is for
    commands, contexts    \* bounds

env     == <<space_mode, layout>>
start   == <<inited, init_mu>>
limited == <<gate, ctx_limited, limited_applied, live, contexts>>
qmd     == <<qmd_setup_done, qmd_active, mask, subscribed>>
calls   == <<op, target, seen>>
command == <<job, new_route, commands, asked>>
alloc   == <<any_alloc, holding, overtaken>>
vars    == <<env, start, route, alloc, limited, qmd, pc, calls, command,
             safe, late>>

Actors == Threads \cup {Control}

ReconfPcs  == {"reconf", "word0", "word1", "word2", "activate", "check",
               "close", "destroy", "create", "applied", "fallback", "open"}
\* past the check of any_alloc
DecidedPcs == {"close", "destroy", "create", "applied", "fallback", "open",
               "set_route"}
InitPcs    == {"entry", "lock", "serve", "attach", "attached"}
LaunchPcs  == {"route", "gate", "guard", "switch", "use", "w0", "w1", "w2",
               "submit", "mark"}
ExitPcs    == {"join", "free"}
Pcs == {"off", "app", "recv", "set_route", "ended"} \cup ReconfPcs \cup InitPcs
         \cup LaunchPcs \cup ExitPcs

Contexts == {Unlimited, Own} \cup 0 .. MaxContexts
Jobs     == [tpcs : SUBSET Tpcs, next : {"recv", "activate"}]

TypeOK ==
    /\ space_mode \in SpaceModes /\ layout \in Layouts
    /\ inited \in BOOLEAN /\ init_mu \in Threads \cup {None}
    /\ route \in {"LIMITED", "UNLIMITED"}
    /\ any_alloc \in BOOLEAN /\ gate \in {0, 1}
    /\ ctx_limited \in 0 .. MaxContexts /\ limited_applied \in {0, 1}
    /\ qmd_setup_done \in BOOLEAN /\ qmd_active \in BOOLEAN
    /\ subscribed \in BOOLEAN
    /\ mask \in [Words -> SUBSET Tpcs]
    /\ \A w \in Words : mask[w] = Word(mask[w], w)
    /\ live \subseteq 1 .. MaxContexts
    /\ pc \in [Actors -> Pcs]
    /\ op \in [Threads -> {"launch", "malloc", "exit"}]
    /\ target \in [Threads -> Contexts]
    /\ seen \in [Threads -> SUBSET Tpcs]
    /\ job \in Jobs
    /\ new_route \in {"LIMITED", "UNLIMITED"}
    /\ holding \subseteq Contexts
    /\ overtaken \in BOOLEAN
    /\ safe \in [Threads -> BOOLEAN] /\ late \in [Threads -> BOOLEAN]
    /\ asked \in Int
    /\ commands \in 0 .. MaxCommands[space_mode] /\ contexts \in 0 .. MaxContexts

NoJob == [tpcs |-> {}, next |-> "recv"]

\* BLESS_SPACE_MODE and BLESS_QMD_SPREAD, whose effect is in QMD mode only; an
\* unverified driver or an unknown value leaves the mode CTX.
Environment ==
    /\ space_mode \in SpaceModes
    /\ layout \in IF space_mode = "QMD" THEN Layouts
                  ELSE {CHOOSE l \in Layouts : TRUE}

Init ==
    /\ Environment
    /\ inited = FALSE /\ init_mu = None
    /\ route = "LIMITED"
    /\ any_alloc = FALSE /\ gate = 0
    /\ ctx_limited = 0 /\ limited_applied = 0 /\ live = {}
    /\ qmd_setup_done = FALSE /\ qmd_active = FALSE /\ subscribed = FALSE
    /\ mask = [w \in Words |-> Word(Tpcs, w)]
    /\ pc = [a \in Actors |-> IF a = Control THEN "off" ELSE "app"]
    /\ op = [t \in Threads |-> "launch"]
    /\ target = [t \in Threads |-> Own]
    /\ seen = [t \in Threads |-> {}]
    /\ job = NoJob /\ new_route = "LIMITED"
    /\ holding = {} /\ overtaken = FALSE
    /\ safe = [t \in Threads |-> FALSE] /\ late = [t \in Threads |-> FALSE]
    /\ asked = 100 /\ commands = 0 /\ contexts = 0

Goto(a, label) == pc' = [pc EXCEPT ![a] = label]
Transition(a, from, to) == pc[a] = from /\ Goto(a, to)

-----------------------------------------------------------------------------
(* reconf_limited_ctx, called by a *)

Return(a) == IF a = Control THEN "recv" ELSE "serve"

\* kraken_qmd_setup registers the callback the first time, which may fail, and
\* says "done" ever after, whether or not it was successful.
QmdSetup(ok) ==
    /\ qmd_setup_done => ok
    /\ qmd_setup_done' = TRUE
    /\ subscribed' = IF qmd_setup_done THEN subscribed ELSE ok

\* Entry: the space mode decides.
Reconf(a) ==
    /\ pc[a] = "reconf"
    /\ \/ /\ space_mode = "CTX"
          /\ Goto(a, "check")
          /\ UNCHANGED <<limited, qmd, job, asked>>
       \/ /\ space_mode = "MPS_ENV"
          /\ ctx_limited' = 0 /\ limited_applied' = 0 /\ gate' = 0
          /\ Goto(a, Return(a))
          /\ UNCHANGED <<live, contexts, qmd, job, asked>>
       \/ /\ space_mode = "QMD"
          /\ \E ok \in BOOLEAN :
                /\ QmdSetup(ok)
                /\ job' = IF ok THEN [tpcs |-> AllowedTpcs[PctToTpc(EnvPct)][layout],
                                     next |-> "activate"] ELSE job
                /\ asked' = IF ok THEN EnvPct ELSE asked
                /\ Goto(a, IF ok THEN "word0" ELSE "check")
          /\ UNCHANGED <<limited, qmd_active, mask>>
    /\ UNCHANGED <<env, start, route, alloc, calls, new_route, commands, safe,
                   late>>

\* Faulty variant: the words are stored in the wrong order.
StoreWordSwapped(a, from, w, to) ==
    /\ Transition(a, from, to)
    /\ mask' = [mask EXCEPT ![w] = Word(job.tpcs, 2 - w)]
    /\ job' = IF to = "recv" THEN NoJob ELSE job
    /\ UNCHANGED <<env, start, route, alloc, limited, qmd_setup_done, qmd_active,
                   subscribed, calls, new_route, commands, asked, safe, late>>

\* kraken_qmd_set_allowed stores the words one after the other.
StoreWord(a, from, w, to) ==
    /\ Transition(a, from, to)
    /\ mask' = [mask EXCEPT ![w] = Word(job.tpcs, w)]
    /\ job' = IF to = "recv" THEN NoJob ELSE job
    /\ UNCHANGED <<env, start, route, alloc, limited, qmd_setup_done, qmd_active,
                   subscribed, calls, new_route, commands, asked, safe, late>>

SetAllowed(a) ==
    \/ StoreWord(a, "word0", 0, "word1")
    \/ StoreWord(a, "word1", 1, "word2")
    \/ StoreWord(a, "word2", 2, job.next)

Activate(a) ==
    /\ Transition(a, "activate", "check")
    /\ qmd_active' = TRUE
    /\ job' = NoJob
    /\ UNCHANGED <<env, start, route, alloc, limited, qmd_setup_done, mask,
                   subscribed, calls, new_route, commands, asked, safe, late>>

\* "safe (re)create LIMITED only if no allocations yet"
CheckAlloc(a) ==
    /\ Transition(a, "check",
                  IF any_alloc THEN Return(a)
                  ELSE IF ctx_limited # 0 THEN "close" ELSE "create")
    /\ UNCHANGED <<env, start, route, alloc, limited, qmd, calls, command, safe,
                   late>>

\* Faulty variant: the gate stays open.
CloseGateNot(a) ==
    /\ Transition(a, "close", "destroy")
    /\ safe' = [t \in Threads |-> FALSE]
    /\ UNCHANGED <<env, start, route, alloc, limited, qmd, calls, command, late>>

CloseGate(a) ==
    /\ Transition(a, "close", "destroy")
    /\ gate' = 1
    /\ safe' = [t \in Threads |-> FALSE]
    /\ UNCHANGED <<env, start, route, alloc, ctx_limited, limited_applied, live,
                   contexts, qmd, calls, command, late>>

\* cuCtxSynchronize and cuCtxDestroy; the pointer keeps its value.
Destroy(a) ==
    /\ Transition(a, "destroy", "create")
    /\ live' = live \ {ctx_limited}
    /\ UNCHANGED <<env, start, route, alloc, gate, ctx_limited, limited_applied,
                   contexts, qmd, calls, command, safe, late>>

\* bless_ctx_create succeeds under MPS only.
Create(a) ==
    /\ pc[a] = "create"
    /\ \/ /\ contexts < MaxContexts
          /\ contexts' = contexts + 1
          /\ ctx_limited' = contexts + 1
          /\ live' = live \cup {contexts + 1}
          /\ Goto(a, "applied")
       \/ /\ ctx_limited' = 0
          /\ Goto(a, "fallback")
          /\ UNCHANGED <<contexts, live>>
    /\ UNCHANGED <<env, start, route, alloc, gate, limited_applied, qmd, calls,
                   command, safe, late>>

\* Faulty variant: after a failed creation the function returns at once.
StoreAppliedReturns(a, from, v) ==
    /\ Transition(a, from, IF v = 1 THEN "open" ELSE Return(a))
    /\ limited_applied' = v
    /\ UNCHANGED <<env, start, route, alloc, gate, ctx_limited, live, contexts,
                   qmd, calls, command, safe, late>>

StoreApplied(a, from, v) ==
    /\ Transition(a, from, "open")
    /\ limited_applied' = v
    /\ UNCHANGED <<env, start, route, alloc, gate, ctx_limited, live, contexts,
                   qmd, calls, command, safe, late>>

OpenGate(a) ==
    /\ Transition(a, "open", Return(a))
    /\ gate' = 0
    /\ UNCHANGED <<env, start, route, alloc, ctx_limited, limited_applied, live,
                   contexts, qmd, calls, command, safe, late>>

ReconfLimitedCtx(a) ==
    \/ Reconf(a) \/ SetAllowed(a) \/ Activate(a) \/ CheckAlloc(a)
    \/ CloseGate(a) \/ Destroy(a) \/ Create(a) \/ OpenGate(a)
    \/ StoreApplied(a, "applied", 1) \/ StoreApplied(a, "fallback", 0)

-----------------------------------------------------------------------------
(* ensure_init and attach_runtime_if_needed, run by the first call *)

\* An intercepted call; none is made once the application has begun to exit.
Exiting == \E t \in Threads : pc[t] \in ExitPcs \cup {"ended"}

Call(t, o) ==
    /\ ~Exiting
    /\ Transition(t, "app", "entry")
    /\ op' = [op EXCEPT ![t] = o]
    /\ UNCHANGED <<env, start, route, alloc, limited, qmd, target, seen, command,
                   safe, late>>

Body(t) == IF op[t] = "launch" THEN "route" ELSE "mark"

\* The unlocked test of inited, and the caller's first step after it.
Entry(t) ==
    /\ Transition(t, "entry", IF inited THEN Body(t) ELSE "lock")
    /\ UNCHANGED <<env, start, route, alloc, limited, qmd, calls, command, safe,
                   late>>

\* Under init_mu inited is tested again.
Lock(t) ==
    /\ init_mu = None
    /\ Transition(t, "lock", IF inited THEN Body(t) ELSE "reconf")
    /\ init_mu' = IF inited THEN None ELSE t
    /\ UNCHANGED <<env, inited, route, alloc, limited, qmd, calls, command, safe,
                   late>>

\* The control thread runs from here on, unless it has no socket to listen on;
\* inited is not set yet.
StartControlServer(t) ==
    /\ pc[t] = "serve"
    /\ \E label \in {"recv", "ended"} :
           pc' = [pc EXCEPT ![t] = "attach", ![Control] = label]
    /\ UNCHANGED <<env, start, route, alloc, limited, qmd, calls, command, safe,
                   late>>

\* attach_runtime_if_needed makes ctx_limited current without a look at the
\* gate.  The second step stands for the rest of the initialisation.
Attach(t) ==
    /\ Transition(t, "attach", "attached")
    /\ target' = [target EXCEPT ![t] = ctx_limited]
    /\ safe' = [safe EXCEPT ![t] = pc[Control] \notin ReconfPcs]
    /\ UNCHANGED <<env, start, route, alloc, limited, qmd, op, seen, command,
                   late>>

Inited(t) ==
    /\ Transition(t, "attached", Body(t))
    /\ inited' = TRUE /\ init_mu' = None
    /\ target' = [target EXCEPT ![t] = Own]
    /\ safe' = [safe EXCEPT ![t] = FALSE]
    /\ UNCHANGED <<env, route, alloc, limited, qmd, op, seen, command, late>>

-----------------------------------------------------------------------------
(* cudaLaunchKernel, cuLaunchKernel, cudaMalloc, cudaMallocManaged *)

\* The gate is for the LIMITED route.
CheckRoute(t) ==
    /\ Transition(t, "route", IF route = "LIMITED" THEN "gate" ELSE "guard")
    /\ late' = [late EXCEPT ![t] = holding # {}]
    /\ UNCHANGED <<env, start, route, alloc, limited, qmd, calls, command, safe>>

PassGate(t) ==
    /\ gate = 0
    /\ Transition(t, "gate", "guard")
    /\ safe' = [safe EXCEPT ![t] = TRUE]
    /\ UNCHANGED <<env, start, route, alloc, limited, qmd, calls, command, late>>

\* An allocation declares itself first; it does not look at the gate.
MarkAlloc(t) ==
    /\ Transition(t, "mark", "guard")
    /\ any_alloc' = TRUE
    /\ overtaken' = (overtaken \/ (~any_alloc /\ pc[Control] \in DecidedPcs))
    /\ UNCHANGED <<env, start, route, holding, limited, qmd, calls, command, safe,
                   late>>

\* ScopedCtxGuard reads the route again and the pointer; nullptr falls back to
\* the unlimited context.
Guard(t) ==
    /\ Transition(t, "guard", "switch")
    /\ target' = [target EXCEPT ![t] =
                     IF route = "LIMITED" /\ ctx_limited # 0 THEN ctx_limited
                     ELSE Unlimited]
    /\ UNCHANGED <<env, start, route, alloc, limited, qmd, op, seen, command, safe,
                   late>>

\* Without an effective limit the context is not switched at all.
Switch(t) ==
    /\ Transition(t, "switch", "use")
    /\ target' = [target EXCEPT ![t] = IF limited_applied = 0 THEN Own ELSE @]
    /\ UNCHANGED <<env, start, route, alloc, limited, qmd, op, seen, command, safe,
                   late>>

\* The real call, in context target[t]; a launch runs the callback if there is
\* one and it is active.
Use(t) ==
    /\ pc[t] = "use"
    /\ \/ /\ op[t] = "malloc"
          /\ holding' = holding \cup {target[t]}
          /\ Goto(t, "app")
          /\ target' = [target EXCEPT ![t] = Own]
          /\ safe' = [safe EXCEPT ![t] = FALSE]
          /\ late' = [late EXCEPT ![t] = FALSE]
       \/ /\ op[t] = "launch"
          /\ Goto(t, IF subscribed /\ qmd_active THEN "w0" ELSE "submit")
          /\ UNCHANGED <<holding, target, safe, late>>
    /\ UNCHANGED <<env, start, route, any_alloc, overtaken, limited, qmd, op, seen,
                   command>>

\* Faulty variant: every word is written to the same place in the QMD.
ReadWordOver(t, from, w, to) ==
    /\ Transition(t, from, to)
    /\ seen' = [seen EXCEPT ![t] = mask[w]]
    /\ UNCHANGED <<env, start, route, alloc, limited, qmd, op, target, command,
                   safe, late>>

\* kraken_qmd_callback reads the words one after the other.
ReadWord(t, from, w, to) ==
    /\ Transition(t, from, to)
    /\ seen' = [seen EXCEPT ![t] = @ \cup mask[w]]
    /\ UNCHANGED <<env, start, route, alloc, limited, qmd, op, target, command,
                   safe, late>>

Callback(t) ==
    \/ ReadWord(t, "w0", 0, "w1")
    \/ ReadWord(t, "w1", 1, "w2")
    \/ ReadWord(t, "w2", 2, "submit")

Submit(t) ==
    /\ Transition(t, "submit", "app")
    /\ target' = [target EXCEPT ![t] = Own]
    /\ seen' = [seen EXCEPT ![t] = {}]
    /\ safe' = [safe EXCEPT ![t] = FALSE]
    /\ late' = [late EXCEPT ![t] = FALSE]
    /\ UNCHANGED <<env, start, route, alloc, limited, qmd, op, command>>

-----------------------------------------------------------------------------
(* Commands *)

Receive(label) ==
    /\ commands < MaxCommands[space_mode]
    /\ Transition(Control, "recv", label)
    /\ commands' = commands + 1

\* Faulty variant: the route changes under the allocations.
SetRouteAlways(r) ==
    /\ Receive("set_route")
    /\ new_route' = r
    /\ UNCHANGED <<env, start, route, alloc, limited, qmd, calls, job, asked, safe,
                   late>>

\* limited, unlimited, set_route: ignored once there are allocations
SetRoute(r) ==
    /\ Receive(IF any_alloc THEN "recv" ELSE "set_route")
    /\ new_route' = IF any_alloc THEN new_route ELSE r
    /\ UNCHANGED <<env, start, route, alloc, limited, qmd, calls, job, asked, safe,
                   late>>

StoreRoute ==
    /\ Transition(Control, "set_route", "recv")
    /\ route' = new_route
    /\ new_route' = "LIMITED"
    /\ UNCHANGED <<env, start, alloc, limited, qmd, calls, job, commands, asked,
                   safe, late>>

\* reconf_sm, set_limit_pct: rejected when MPS does the work
ReconfSm ==
    /\ Receive(IF space_mode = "MPS_ENV" THEN "recv" ELSE "reconf")
    /\ UNCHANGED <<env, start, route, alloc, limited, qmd, calls, job, new_route,
                   asked, safe, late>>

\* qmd_pct: rejected in the other modes
QmdPct(pct) ==
    /\ Receive(IF space_mode = "QMD" THEN "word0" ELSE "recv")
    /\ job' = IF space_mode = "QMD"
              THEN [tpcs |-> AllowedTpcs[PctToTpc(pct)][layout], next |-> "recv"]
              ELSE job
    /\ asked' = IF space_mode = "QMD" THEN pct ELSE asked
    /\ UNCHANGED <<env, start, route, alloc, limited, qmd, calls, new_route, safe,
                   late>>

\* quit: the control thread ends, the application goes on
QuitCommand ==
    /\ Receive("ended")
    /\ UNCHANGED <<env, start, route, alloc, limited, qmd, calls, job, new_route,
                   asked, safe, late>>

-----------------------------------------------------------------------------
(* bless_dtor: the application's other threads are idle by then *)

Exit(t) ==
    /\ inited
    /\ \A u \in Threads : pc[u] = "app"
    /\ Transition(t, "app", "join")
    /\ op' = [op EXCEPT ![t] = "exit"]
    /\ UNCHANGED <<env, start, route, alloc, limited, qmd, target, seen, command,
                   safe, late>>

\* The control thread leaves its loop when ctrl_running is FALSE.
Quit ==
    /\ Exiting
    /\ Transition(Control, "recv", "ended")
    /\ UNCHANGED <<env, start, route, alloc, limited, qmd, calls, command, safe,
                   late>>

\* Faulty variant: the destructor does not wait for the control thread.
JoinNot(t) ==
    /\ Transition(t, "join", "free")
    /\ UNCHANGED <<env, start, route, alloc, limited, qmd, calls, command, safe,
                   late>>

Join(t) ==
    /\ pc[Control] = "ended"
    /\ Transition(t, "join", "free")
    /\ UNCHANGED <<env, start, route, alloc, limited, qmd, calls, command, safe,
                   late>>

FreeContexts(t) ==
    /\ Transition(t, "free", "ended")
    /\ live' = live \ {ctx_limited}
    /\ UNCHANGED <<env, start, route, alloc, gate, ctx_limited, limited_applied,
                   contexts, qmd, calls, command, safe, late>>

-----------------------------------------------------------------------------
Inside(t) ==
    \/ Entry(t) \/ Lock(t) \/ ReconfLimitedCtx(t) \/ StartControlServer(t)
    \/ Attach(t) \/ Inited(t) \/ CheckRoute(t) \/ PassGate(t) \/ MarkAlloc(t)
    \/ Guard(t) \/ Switch(t) \/ Use(t) \/ Callback(t) \/ Submit(t)
    \/ Join(t) \/ FreeContexts(t)

Serve == ReconfLimitedCtx(Control) \/ StoreRoute \/ Quit

Next ==
    \/ \E t \in Threads :
           Inside(t) \/ Exit(t) \/ \E o \in {"launch", "malloc"} : Call(t, o)
    \/ Serve \/ ReconfSm \/ QuitCommand
    \/ \E r \in {"LIMITED", "UNLIMITED"} : SetRoute(r)
    \/ \E p \in Pcts : QmdPct(p)

Spec == Init /\ [][Next]_vars

\* Threads inside the library and the control thread are scheduled.
LiveSpec ==
    /\ Spec
    /\ \A t \in Threads : WF_vars(Inside(t))
    /\ WF_vars(Serve)

-----------------------------------------------------------------------------
(* Properties *)

\* The reconf gate does what it is for: a call that passed it, with no
\* reconfiguration begun since, does not use a context that is destroyed.
\* (A call that reads the pointer and is then overtaken may; so may one that
\* was on the UNLIMITED route when it came to the gate.)
GateProtects ==
    \A t \in Threads :
        /\ pc[t] \in {"use", "w0", "w1", "w2", "submit", "attached"}
        /\ safe[t]
        => target[t] \in live \cup {Unlimited, Own, 0}

\* any_alloc freezes routing: unless the first allocation came in the middle of
\* a command, all allocations are in one context, which still exists.
AllocationsTogether ==
    ~overtaken /\ ~Exiting =>
        /\ Cardinality(holding) <= 1
        /\ holding \subseteq live \cup {Unlimited, Own}

\* ... and a kernel launched after an allocation runs where the allocation is.
KernelMeetsData ==
    ~overtaken =>
        \A t \in Threads : pc[t] = "submit" /\ late[t] => target[t] \in holding

\* No kernel is left without a TPC, which would stop it for ever, even if the
\* words its callback reads belong to different requests.
NeverZeroTpcs ==
    \A t \in Threads :
        pc[t] = "submit" /\ subscribed /\ qmd_active => seen[t] # {}

\* Between two requests the mask grants the share asked for, rounded up to a
\* whole TPC and not more, in both layouts.
ShareGranted ==
    LET granted == Cardinality(UNION {mask[w] : w \in Words})
        share   == TpcTotal * Max({1, Min({asked, 100})})
    IN  (\A a \in Actors : pc[a] \notin {"word0", "word1", "word2"}) =>
            100 * (granted - 1) < share /\ share <= 100 * granted

\* The limited context is never destroyed twice, neither by reconfigurations
\* nor by the destructor that overtakes one.
DestroyedOnce ==
    \A a \in Actors :
        /\ pc[a] = "destroy" => ctx_limited \in live
        /\ pc[a] = "free" => ctx_limited \in live \cup {0}

\* Every call returns: the gate is opened again whatever the driver answers,
\* and the initialisation ends.
CallsReturn == \A t \in Threads : pc[t] = "entry" ~> pc[t] = "app"

\* Both together: what any_alloc is for.
DataReachable == AllocationsTogether /\ KernelMeetsData
=============================================================================
