------------------------------ MODULE NpuProxy ------------------------------
(***************************************************************************)
(* The NPU proxy process (npu_proxy.py): one thread per connection, the     *)
(* admin thread and the scheduler thread.  Connections register their       *)
(* tenant in the handshake (ensure_tenant, without a lock) and queue        *)
(* requests; the administrator registers and drops tenants; the scheduler   *)
(* runs one request at a time and answers it.  sendall has no timeout: the  *)
(* scheduler and the administrator wait for a client that does not read.    *)
(* Which tenant is next, and the control commands, are the matter of module *)
(* GateCore: here any tenant with work may be next.  A request <<c, k>> is  *)
(* the k-th of connection c.                                                *)
(***************************************************************************)
EXTENDS Integers, Sequences, SequencesExt

CONSTANTS
    Names,         \* tenant names
    Conns,         \* connections that clients make
    TenantOf,      \* the tenant a connection says hello for
    Admin,         \* the admin thread
    None,          \* no request, no connection, no tenant
    MaxRequests,   \* bound: requests of a connection
    MaxCommands    \* bound: commands to the admin socket

ASSUME ProxyAssumption ==
    /\ TenantOf \in [Conns -> Names]
    /\ Admin \notin Conns /\ None \notin Conns \cup Names
    /\ None \notin Conns \X (1 .. MaxRequests)
    /\ MaxRequests \in Nat /\ MaxCommands \in Nat

VARIABLES
    pc,           \* where each connection thread and the admin thread is
    registered,   \* name in core._tenants
    queue,        \* requests queued at the tenant
    logs,         \* name in self.logs
    ctrl,         \* name in self.ctrl_socks
    path,         \* <sock-dir>/<name>.sock exists
    running,      \* the request of the scheduler thread, or None
    failed,       \* history: requests whose run failed
    target,       \* tenant of the admin command in progress
    dropped,      \* drop_tenant: requests still to be answered with an error
    gone,         \* the client has closed its end
    sent,         \* requests read from the connection
    replies,      \* what the client has received: <<k, "result" or "error">>
    commands,     \* admin commands so far
    blocked,      \* threads in a sendall that waits for the client to read
    overlapped    \* history: a tenant was dropped in the middle of ensure_tenant

tenants == <<registered, queue>>
tables  == <<logs, ctrl, path>>
admin   == <<target, dropped, commands>>
work    == <<running, failed, blocked>>
client  == <<gone, sent, replies>>
vars    == <<pc, tenants, tables, work, admin, client, overlapped>>

Threads  == Conns \cup {Admin}
Requests == Conns \X (1 .. MaxRequests)
Ensuring == {"check", "register", "log", "unlink", "bind", "publish"}
Dropping == {"refuse", "close", "remove", "forget"}
NoLife   == {"closed", "dead"}
Senders  == {"scheduler", "admin"}

TypeOK ==
    /\ pc \in [Threads -> {"idle", "serve"} \cup Ensuring \cup Dropping \cup NoLife]
    /\ registered \in [Names -> BOOLEAN]
    /\ queue \in [Names -> Seq(Requests)]
    /\ logs \in [Names -> BOOLEAN]
    /\ ctrl \in [Names -> BOOLEAN]
    /\ path \in [Names -> BOOLEAN]
    /\ running \in Requests \cup {None}
    /\ target \in Names \cup {None}
    /\ dropped \in Seq(Requests)
    /\ failed \in SUBSET Requests
    /\ blocked \in SUBSET Senders
    /\ gone \in [Conns -> BOOLEAN]
    /\ sent \in [Conns -> 0 .. MaxRequests]
    /\ replies \in [Conns -> Seq((1 .. MaxRequests) \X {"result", "error"})]
    /\ commands \in 0 .. MaxCommands
    /\ overlapped \in BOOLEAN

Init ==
    /\ pc = [t \in Threads |-> "idle"]
    /\ registered = [n \in Names |-> FALSE]
    /\ queue = [n \in Names |-> <<>>]
    /\ logs = [n \in Names |-> FALSE]
    /\ ctrl = [n \in Names |-> FALSE]
    /\ path \in [Names -> BOOLEAN]       \* a former proxy may have left it
    /\ running = None /\ failed = {} /\ blocked = {}
    /\ target = None
    /\ dropped = <<>>
    /\ gone = [c \in Conns |-> FALSE]
    /\ sent = [c \in Conns |-> 0]
    /\ replies = [c \in Conns |-> <<>>]
    /\ commands = 0
    /\ overlapped = FALSE

Transition(t, from, to) ==
    /\ pc[t] = from
    /\ pc' = [pc EXCEPT ![t] = to]

\* The tenant a thread is concerned with.
NameOf(t) == IF t = Admin THEN target ELSE TenantOf[t]

\* Where ensure_tenant returns to.
Return(t) == IF t = Admin THEN "idle" ELSE "serve"

\* Requests that wait, run or are to be refused.
Pending == (UNION {Range(queue[n]) : n \in Names}) \cup Range(dropped)
               \cup ({running} \ {None})

-----------------------------------------------------------------------------
(* ensure_tenant, by a connection or by the administrator *)

\* accept and the handshake line
Hello(c) ==
    /\ Transition(c, "idle", "check")
    /\ UNCHANGED <<tenants, tables, work, admin, client, overlapped>>

InLogs(t) ==
    /\ Transition(t, "check", Return(t))
    /\ logs[NameOf(t)]
    /\ UNCHANGED <<tenants, tables, work, admin, client, overlapped>>

NotInLogs(t) ==
    /\ Transition(t, "check", "register")
    /\ ~logs[NameOf(t)]
    /\ overlapped' = (overlapped \/
           (t # Admin /\ pc[Admin] \in Dropping /\ target = NameOf(t)))
    /\ UNCHANGED <<tenants, tables, work, admin, client>>

\* core.register: the tenant that is there, or a new one
Register(t) ==
    /\ Transition(t, "register", "log")
    /\ registered' = [registered EXCEPT ![NameOf(t)] = TRUE]
    /\ UNCHANGED <<queue, tables, work, admin, client, overlapped>>

OpenLog(t) ==
    /\ Transition(t, "log", "unlink")
    /\ logs' = [logs EXCEPT ![NameOf(t)] = TRUE]
    /\ UNCHANGED <<tenants, ctrl, path, work, admin, client, overlapped>>

Unlink(t) ==
    /\ Transition(t, "unlink", "bind")
    /\ path' = [path EXCEPT ![NameOf(t)] = FALSE]
    /\ UNCHANGED <<tenants, logs, ctrl, work, admin, client, overlapped>>

Bind(t) ==
    /\ Transition(t, "bind", "publish")
    /\ ~path[NameOf(t)]
    /\ path' = [path EXCEPT ![NameOf(t)] = TRUE]
    /\ UNCHANGED <<tenants, logs, ctrl, work, admin, client, overlapped>>

\* Another thread has bound the path since: OSError, which nobody catches.
BindFails(t) ==
    /\ Transition(t, "bind", "dead")
    /\ path[NameOf(t)]
    /\ UNCHANGED <<tenants, tables, work, admin, client, overlapped>>

\* ctrl_socks and the control thread
Publish(t) ==
    /\ Transition(t, "publish", Return(t))
    /\ ctrl' = [ctrl EXCEPT ![NameOf(t)] = TRUE]
    /\ UNCHANGED <<tenants, logs, path, work, admin, client, overlapped>>

Ensure(t) ==
    \/ InLogs(t) \/ NotInLogs(t) \/ Register(t) \/ OpenLog(t)
    \/ Unlink(t) \/ Bind(t) \/ BindFails(t) \/ Publish(t)

-----------------------------------------------------------------------------
(* The rest of a connection thread *)

\* A frame that the client has sent, perhaps before it left.
Read(c) ==
    /\ sent[c] < MaxRequests
    /\ sent' = [sent EXCEPT ![c] = @ + 1]

Submit(c) ==
    /\ Read(c)
    /\ registered[TenantOf[c]]
    /\ Transition(c, "serve", "serve")
    /\ queue' = [queue EXCEPT ![TenantOf[c]] = Append(@, <<c, sent[c] + 1>>)]
    /\ UNCHANGED <<registered, tables, work, admin, gone, replies,
                   overlapped>>

\* The tenant has been dropped: KeyError ends the thread with the request.
SubmitFails(c) ==
    /\ Read(c)
    /\ ~registered[TenantOf[c]]
    /\ Transition(c, "serve", "dead")
    /\ UNCHANGED <<tenants, tables, work, admin, gone, replies,
                   overlapped>>

\* The client goes away, at any time; the thread finds out when it reads.
Leave(c) ==
    /\ ~gone[c] /\ pc[c] # "idle"
    /\ gone' = [gone EXCEPT ![c] = TRUE]
    /\ UNCHANGED <<pc, tenants, tables, work, admin, sent, replies,
                   overlapped>>

\* End of stream, before or after the handshake, or a frame of the wrong
\* length: conn.close().
Hangup(c) ==
    /\ pc[c] \in {"idle", "serve"}
    /\ pc' = [pc EXCEPT ![c] = "closed"]
    /\ UNCHANGED <<tenants, tables, work, admin, client, overlapped>>

\* The request a thread sends the answer to (the scheduler: may be sending).
Answering(s) == IF s = "scheduler" THEN running
                ELSE IF pc[Admin] = "refuse" /\ dropped # <<>> THEN Head(dropped)
                ELSE None

\* Either end is closed: sendall fails, unnoticed.  A thread that died has not
\* closed its end: the request holds the socket.
NoPeer(c) == gone[c] \/ pc[c] = "closed"

\* The client does not read, and no more bytes fit into the socket ...
Block(s) ==
    /\ Answering(s) # None /\ s \notin blocked
    /\ ~NoPeer(Answering(s)[1])
    /\ blocked' = blocked \cup {s}
    /\ UNCHANGED <<pc, tenants, tables, running, failed, admin, client, overlapped>>

\* ... until it reads on.
Unblock(s) ==
    /\ s \in blocked
    /\ blocked' = blocked \ {s}
    /\ UNCHANGED <<pc, tenants, tables, running, failed, admin, client, overlapped>>

\* sendall by thread s returns; one that waits is not ended by conn.close().
Reply(s, r, what) ==
    /\ s \notin blocked \/ gone[r[1]]
    /\ blocked' = blocked \ {s}
    /\ replies' = IF NoPeer(r[1]) THEN replies
                  ELSE [replies EXCEPT ![r[1]] = Append(@, <<r[2], what>>)]

-----------------------------------------------------------------------------
(* The admin thread *)

Command(n, to) ==
    /\ commands < MaxCommands
    /\ commands' = commands + 1
    /\ target' = n
    /\ Transition(Admin, "idle", to)

AdminRegister(n) ==
    /\ Command(n, "check")
    /\ UNCHANGED <<tenants, tables, work, dropped, client, overlapped>>

\* Some connection of the tenant is past the test of ensure_tenant.
MidRegistration(n) ==
    \E c \in Conns : TenantOf[c] = n /\ pc[c] \in Ensuring \ {"check"}

\* Faulty variant: the dropped tenant's requests stay where the scheduler
\* finds them.
UnregisterKeeps(n) ==
    /\ Command(n, "refuse")
    /\ registered' = [registered EXCEPT ![n] = FALSE]
    /\ dropped' = queue[n]
    /\ overlapped' = (overlapped \/ MidRegistration(n))
    /\ UNCHANGED <<queue, tables, work, client>>

\* Faulty variant: the queue is thrown away with the tenant.
UnregisterForgets(n) ==
    /\ Command(n, "refuse")
    /\ registered' = [registered EXCEPT ![n] = FALSE]
    /\ queue' = [queue EXCEPT ![n] = <<>>]
    /\ dropped' = <<>>
    /\ overlapped' = (overlapped \/ MidRegistration(n))
    /\ UNCHANGED <<tables, work, client>>

\* drop_tenant begins: core.unregister returns the queue.
Unregister(n) ==
    /\ Command(n, "refuse")
    /\ registered' = [registered EXCEPT ![n] = FALSE]
    /\ queue' = [queue EXCEPT ![n] = <<>>]
    /\ dropped' = queue[n]
    /\ overlapped' = (overlapped \/ MidRegistration(n))
    /\ UNCHANGED <<tables, work, client>>

\* _reply_err for one request after the other
Refuse ==
    /\ dropped # <<>>
    /\ Transition(Admin, "refuse", "refuse")
    /\ dropped' = Tail(dropped)
    /\ Reply("admin", Head(dropped), "error")
    /\ UNCHANGED <<tenants, tables, running, failed, target, commands, gone, sent,
                   overlapped>>

\* The control socket, if there is one, is closed, ...
CloseCtrl ==
    /\ pc[Admin] = "refuse" /\ dropped = <<>>
    /\ Transition(Admin, "refuse", IF ctrl[target] THEN "remove" ELSE "forget")
    /\ ctrl' = [ctrl EXCEPT ![target] = FALSE]
    /\ UNCHANGED <<tenants, logs, path, work, admin, client, overlapped>>

\* ... its path removed ...
RemovePath ==
    /\ Transition(Admin, "remove", "forget")
    /\ path' = [path EXCEPT ![target] = FALSE]
    /\ UNCHANGED <<tenants, logs, ctrl, work, admin, client, overlapped>>

\* Faulty variant: the log of a dropped tenant stays open.
ForgetNothing ==
    /\ Transition(Admin, "forget", "idle")
    /\ UNCHANGED <<tenants, tables, work, admin, client, overlapped>>

\* ... and the log closed.
Forget ==
    /\ Transition(Admin, "forget", "idle")
    /\ logs' = [logs EXCEPT ![target] = FALSE]
    /\ UNCHANGED <<tenants, ctrl, path, work, admin, client, overlapped>>

Drop == Refuse \/ CloseCtrl \/ RemovePath \/ Forget

-----------------------------------------------------------------------------
(* The scheduler thread *)

\* Faulty variant: a request whose client has left is passed over.
StartSkipsGone(n) ==
    /\ running = None /\ queue[n] # <<>> /\ ~gone[Head(queue[n])[1]]
    /\ running' = Head(queue[n])
    /\ queue' = [queue EXCEPT ![n] = Tail(@)]
    /\ UNCHANGED <<pc, registered, tables, failed, blocked, admin, client,
                   overlapped>>

\* step() takes the oldest request of some tenant and runs it.
Start(n) ==
    /\ running = None /\ queue[n] # <<>>
    /\ running' = Head(queue[n])
    /\ queue' = [queue EXCEPT ![n] = Tail(@)]
    /\ UNCHANGED <<pc, registered, tables, failed, blocked, admin, client,
                   overlapped>>

\* The run is over and the result is sent.
Finish ==
    /\ running # None
    /\ running' = None
    /\ Reply("scheduler", running, "result")
    /\ UNCHANGED <<pc, tenants, tables, failed, admin, gone, sent, overlapped>>

\* The runner raises: run_error is logged and the client hears nothing.
RunFails ==
    /\ running # None /\ "scheduler" \notin blocked
    /\ running' = None
    /\ failed' = failed \cup {running}
    /\ UNCHANGED <<pc, tenants, tables, blocked, admin, client, overlapped>>

-----------------------------------------------------------------------------
Connection(c) == Hello(c) \/ Submit(c) \/ SubmitFails(c) \/ Leave(c) \/ Hangup(c)
Schedule      == \E n \in Names : Start(n)
Complete      == Finish \/ RunFails

\* The process may rest for ever: all connections over, no command, no work.
Rest ==
    /\ \A c \in Conns : pc[c] \in NoLife
    /\ pc[Admin] = "dead" \/ (pc[Admin] = "idle" /\ commands = MaxCommands)
    /\ Pending = {}
    /\ UNCHANGED vars

Next ==
    \/ \E c \in Conns : Connection(c)
    \/ \E s \in Senders : Block(s) \/ Unblock(s)
    \/ \E t \in Threads : Ensure(t)
    \/ \E n \in Names : AdminRegister(n) \/ Unregister(n)
    \/ Drop \/ Schedule \/ Complete \/ Rest

\* The scheduler goes on, runs end, and drop_tenant goes on once it has begun.
\* Clients, connection threads and administrator need not do anything; a sendall
\* to a client that reads again and again gets its bytes through (strong
\* fairness), one to a client that does not, waits.
Spec ==
    /\ Init /\ [][Next]_vars
    /\ WF_vars(Schedule) /\ SF_vars(Complete) /\ SF_vars(Drop)

-----------------------------------------------------------------------------
(* Properties *)

Received(r) == IF <<r[2], "result">> \in Range(replies[r[1]]) THEN "result"
               ELSE IF <<r[2], "error">> \in Range(replies[r[1]]) THEN "error"
               ELSE "lost"

Status == LET pending == Pending
          IN  [r \in Requests |-> IF r[2] > sent[r[1]] THEN "new"
                                 ELSE IF r \in pending THEN "pending"
                                 ELSE Received(r)]

\* The proxy implements RequestService: however handshakes, dropping and the
\* scheduler interleave, a request is settled at most once and the results of
\* a connection come in order.
Service == INSTANCE RequestService WITH status <- Status

ImplementsService == Service!Spec

\* While no thread is inside ensure_tenant or drop_tenant, a name is in logs,
\* which is all that ensure_tenant looks at, just when the core knows the tenant
\* and its control socket can be reached: otherwise every later handshake would
\* pass and every request fail.  Holds until a tenant is dropped in the middle
\* of its registration.
Quiet == \A t \in Threads : pc[t] \notin (Ensuring \ {"check"}) \cup Dropping

TablesAgree ==
    Quiet /\ ~overlapped =>
        \A n \in Names : /\ logs[n] = registered[n]
                         /\ logs[n] => path[n] /\ ctrl[n]

\* The types of the variables, and the agreement of the tables.
TablesInv == TypeOK /\ TablesAgree

\* Every request in the proxy is settled, also when its client has left, its
\* tenant is dropped, a run before it fails or its thread has died (clients send
\* a bounded number, so that all are settled in the end) -- unless some client
\* stays connected and stops reading for ever: its sendall holds up the
\* scheduler or the administrator, and with it the requests of everyone.
EveryRequestSettled ==
    []<>(Pending = {}) \/ \E s \in Senders : <>[](s \in blocked)

\* A client that is still there, on a connection that is not closed, gets one
\* answer to every request that was read from it, unless the run failed (the
\* scheduler loop only logs it) or the request is the one whose submit raised
\* KeyError and killed the connection's thread.
AnswerOf(c, k) == {i \in 1 .. Len(replies[c]) : replies[c][i][1] = k}

Excused(c, k) == <<c, k>> \in failed \/ (pc[c] = "dead" /\ k = sent[c])

NoneForgotten ==
    \A c \in Conns : \A k \in 1 .. sent[c] :
        /\ \A i, j \in AnswerOf(c, k) : i = j
        /\ \/ gone[c] \/ pc[c] = "closed"
           \/ <<c, k>> \in Pending \/ AnswerOf(c, k) # {} \/ Excused(c, k)
=============================================================================
