---------------------------- MODULE PriorityGate ----------------------------
(***************************************************************************)
(* The priority gate of libbless: priority_queue_gate at the beginning of  *)
(* a kernel launch, priority_queue_done at its end, and the preemption     *)
(* check between them.  queue_len counts the kernels between the two per   *)
(* priority.  The priority belongs to the process; a control thread        *)
(* changes it and raises or clears the urgent flags.  The other gates of   *)
(* the launch (pause, reconfiguration, credit) stand between Gated and     *)
(* Done here and take any time.                                            *)
(***************************************************************************)
EXTENDS Integers, FiniteSets

CONSTANTS
    Threads,
    Requests,   \* arguments of priority_set, valid or not
    MaxSets     \* bound: changes of priority while launches are in progress

ASSUME PriorityAssumption ==
    /\ IsFiniteSet(Threads)
    /\ MaxSets \in Nat

Priority == {"URGENT", "NORMAL", "BACKGROUND"}

VARIABLES
    current_priority, queue_len, urgent_pending, preempt_requested,
    pc,     \* per thread
    my,     \* per thread: my_priority, local to gate and done
    again,  \* per thread: the gate is passed a second time, after preemption
    sets    \* changes of priority while launches are in progress

control == <<current_priority, urgent_pending, preempt_requested, sets>>
vars    == <<control, queue_len, pc, my, again>>

Waiting == {"urgent", "background"}   \* inside priority_queue_gate, counted
Counted == Waiting \cup {"gated", "launch"}

TypeOK ==
    /\ current_priority \in Priority
    /\ queue_len \in [Priority -> Int]
    /\ urgent_pending \in BOOLEAN /\ preempt_requested \in BOOLEAN
    /\ pc \in [Threads -> Counted \cup {"app", "enter", "yield", "clamp"}]
    /\ my \in [Threads -> Priority]
    /\ again \in [Threads -> BOOLEAN]
    /\ sets \in 0 .. MaxSets

Init ==
    /\ current_priority = "NORMAL"
    /\ queue_len = [p \in Priority |-> 0]
    /\ urgent_pending = FALSE /\ preempt_requested = FALSE
    /\ pc = [t \in Threads |-> "app"]
    /\ my = [t \in Threads |-> "NORMAL"]
    /\ again = [t \in Threads |-> FALSE]
    /\ sets = 0

Goto(t, label) == pc' = [pc EXCEPT ![t] = label]
Transition(t, from, to) == pc[t] = from /\ Goto(t, to)
Add(p, n) == queue_len' = [queue_len EXCEPT ![p] = @ + n]

-----------------------------------------------------------------------------
(* priority_queue_gate *)

\* cudaLaunchKernel, cuLaunchKernel
Launch(t) ==
    /\ Transition(t, "app", "enter")
    /\ UNCHANGED <<control, queue_len, my, again>>

\* Read the priority once and count the kernel in.
Enter(t) ==
    /\ Transition(t, "enter", "urgent")
    /\ my' = [my EXCEPT ![t] = current_priority]
    /\ Add(current_priority, 1)
    /\ UNCHANGED <<control, again>>

\* Test of the first loop; a kernel that gives way is counted out meanwhile.
CheckUrgent(t) ==
    \/ /\ my[t] # "URGENT" /\ urgent_pending
       /\ Transition(t, "urgent", "yield")
       /\ Add(my[t], -1)
       /\ UNCHANGED <<control, my, again>>
    \/ /\ my[t] = "URGENT" \/ ~urgent_pending
       /\ Transition(t, "urgent", "background")
       /\ UNCHANGED <<control, queue_len, my, again>>

Yield(t) ==
    /\ Transition(t, "yield", "urgent")
    /\ Add(my[t], 1)
    /\ UNCHANGED <<control, my, again>>

\* Faulty variant: BACKGROUND counts itself among the others.
OthersWaitAll(t) == \E p \in Priority : queue_len[p] > 0

\* The condition of the second loop.
OthersWait(t) ==
    \/ queue_len["URGENT"] > 0
    \/ queue_len["NORMAL"] > queue_len["BACKGROUND"]

\* Its time limit never applies: waited is reset at 50 and compared with 100.
CheckBackground(t) ==
    /\ my[t] = "BACKGROUND" => ~OthersWait(t)
    /\ Transition(t, "background", IF again[t] THEN "launch" ELSE "gated")
    /\ UNCHANGED <<control, queue_len, my, again>>

-----------------------------------------------------------------------------
(* priority_queue_done, and its two uses *)

\* Faulty variant: a counter that was zero is not noticed.
CountOutLate(t, next) ==
    /\ my' = [my EXCEPT ![t] = current_priority]
    /\ Add(current_priority, -1)
    /\ Goto(t, IF queue_len[current_priority] < 0 THEN "clamp" ELSE next)

\* Counts the kernel out of the priority the process has now.  If the counter
\* was not positive, a second step stores zero.
CountOut(t, next) ==
    /\ my' = [my EXCEPT ![t] = current_priority]
    /\ Add(current_priority, -1)
    /\ Goto(t, IF queue_len[current_priority] <= 0 THEN "clamp" ELSE next)

\* Preemption check before the credit gate.
CheckPreempt(t) ==
    /\ pc[t] = "gated"
    /\ \/ /\ preempt_requested /\ current_priority # "URGENT"
          /\ CountOut(t, "enter")
          /\ again' = [again EXCEPT ![t] = TRUE]
       \/ /\ ~preempt_requested \/ current_priority = "URGENT"
          /\ Goto(t, "launch")
          /\ UNCHANGED <<queue_len, my, again>>
    /\ UNCHANGED control

\* The kernel has been handed to the driver.  again is reset: it is the place
\* in the code, and the next launch begins at the first gate.
Done(t) ==
    /\ pc[t] = "launch"
    /\ CountOut(t, "app")
    /\ again' = [again EXCEPT ![t] = FALSE]
    /\ UNCHANGED control

Clamp(t) ==
    /\ Transition(t, "clamp", IF again[t] THEN "enter" ELSE "app")
    /\ queue_len' = [queue_len EXCEPT ![my[t]] = 0]
    /\ UNCHANGED <<control, my, again>>

-----------------------------------------------------------------------------
(* The control thread *)

Between == preempt_requested = urgent_pending   \* between two commands

Quiet == \A t \in Threads : pc[t] = "app"

PrioritySet(p) ==
    /\ Between
    /\ p \in Priority
    /\ current_priority' = p
    /\ IF Quiet THEN UNCHANGED sets ELSE sets < MaxSets /\ sets' = sets + 1
    /\ UNCHANGED <<queue_len, urgent_pending, preempt_requested, pc, my, again>>

\* urgent_request, urgent_clear: first one flag, then the other.
Urgent(b) ==
    /\ Between
    /\ urgent_pending' = b
    /\ UNCHANGED <<queue_len, current_priority, preempt_requested, pc, my, again,
                   sets>>

Preempt ==
    /\ ~Between
    /\ preempt_requested' = urgent_pending
    /\ UNCHANGED <<queue_len, current_priority, urgent_pending, pc, my, again,
                   sets>>

-----------------------------------------------------------------------------
Step(t) ==
    \/ Enter(t) \/ CheckUrgent(t) \/ Yield(t) \/ CheckBackground(t)
    \/ CheckPreempt(t) \/ Done(t) \/ Clamp(t)

Next ==
    \/ \E t \in Threads : Launch(t) \/ Step(t)
    \/ \E p \in Requests : PrioritySet(p)
    \/ \E b \in BOOLEAN : Urgent(b)
    \/ Preempt

Spec == Init /\ [][Next]_vars

\* A launching thread keeps running, and so does the control thread.
LiveSpec == Spec /\ (\A t \in Threads : WF_vars(Step(t))) /\ WF_vars(Preempt)

-----------------------------------------------------------------------------
(* Properties *)

\* queue_len is the number of kernels between gate and done, per priority (a
\* kernel that gives way to an urgent one is not counted meanwhile), as long as
\* priority_set has only come while no launch was in progress.  After one that
\* fell between gate and done, priority_queue_done counts out of the wrong
\* priority and a kernel stays counted for ever.
QueueCounts ==
    sets = 0 => \A p \in Priority :
        queue_len[p] = Cardinality({t \in Threads : pc[t] \in Counted /\ my[t] = p})

\* priority_queue_done prevents underflow: whatever priority_set leaves behind, a
\* counter is negative only while a thread is about to reset it, or has counted
\* itself out to give way and will count itself in again.
UnderflowTransient ==
    \A p \in Priority :
        queue_len[p] < 0 =>
            \E t \in Threads : pc[t] \in {"clamp", "yield"} /\ my[t] = p

\* When urgent requests stop, every launch goes through: no thread is left in
\* either loop, and preemption does not send it round for ever, unless a
\* priority_set in the middle of a launch has spoilt the counts.
LaunchCompletes ==
    <>[](~urgent_pending) =>
        \A t \in Threads : pc[t] = "enter" ~> pc[t] = "app" \/ sets > 0

\* The counters of priority_queue_gate and priority_queue_done together: right
\* as long as they can be, and never left negative.
QueueInv == TypeOK /\ QueueCounts /\ UnderflowTransient
=============================================================================
