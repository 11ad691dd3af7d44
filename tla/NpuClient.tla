----------------------------- MODULE NpuClient ------------------------------
(***************************************************************************)
(* A tenant of the NPU proxy (client.py).  The main thread keeps up to      *)
(* depth requests under way on one connection: it takes a permit, notes the *)
(* request in submits and sends it.  The receiver thread takes the request  *)
(* out with every reply and then gives the permit back.  Both notice a      *)
(* broken connection by themselves, drop what is under way, one request and *)
(* one permit at a time, and connect again.                                 *)
(*                                                                          *)
(* The proxy is external: it answers the requests of a connection in order, *)
(* loses one when a run fails, and may be restarted at any time, which ends *)
(* all connections.  (Dropping a tenant is in module NpuProxy.)             *)
(***************************************************************************)
EXTENDS Integers, FiniteSetsExt

CONSTANTS
    depth,                \* --depth
    reconnect_enabled,    \* not --no-reconnect
    MaxSocks,             \* bound: connections made
    MaxFlight,            \* bound: requests and replies under way on a socket
    MaxRestarts,          \* bound: restarts of the proxy
    MaxFails              \* bound: failing runs of one connection

ASSUME ClientAssumption ==
    /\ depth \in Nat \ {0} /\ reconnect_enabled \in BOOLEAN
    /\ MaxSocks \in Nat \ {0} /\ MaxFlight \in Nat /\ MaxRestarts \in Nat /\ MaxFails \in Nat

VARIABLES
    sem, submits,     \* free permits; length of the deque of requests under way
    sock, epoch,      \* Connection: the socket and its generation
    pc, s, ep,        \* per thread: place, local socket and generation
    conn,             \* per thread: the socket connect() has made
    closed,           \* sockets the client has closed
    up, alive,        \* the proxy runs; its end of a socket is open
    wire, back,       \* requests at the proxy, replies on their way, per socket
    restarts,
    fails,            \* runs that failed, per socket whose connection lasts
    raced             \* history: both threads have had to do with one break

permits == <<sem, submits>>
link    == <<sock, epoch, closed>>
locals  == <<s, ep, conn>>
proxy   == <<up, alive, wire, back, restarts, fails>>
vars    == <<permits, link, pc, locals, proxy, raced>>

Main     == "main"
Receiver == "receiver"
Threads  == {Main, Receiver}
Socks    == 1 .. MaxSocks
Handling == {"drop", "drop_pop", "drop_release", "reconnect", "connect", "install"}

TypeOK ==
    /\ sem \in Nat /\ submits \in Nat
    /\ sock \in Socks /\ epoch \in Nat
    /\ pc \in [Threads -> {"acquire", "append", "send", "top", "call", "recv", "got",
                           "pop", "release", "end", "dead"} \cup Handling]
    /\ s \in [Threads -> Socks] /\ ep \in [Threads -> 1 .. epoch]
    /\ conn \in [Threads -> Socks]
    /\ closed \subseteq Socks /\ alive \subseteq Socks
    /\ up \in BOOLEAN
    /\ wire \in [Socks -> Nat] /\ back \in [Socks -> Nat]
    /\ restarts \in 0 .. MaxRestarts /\ fails \in [Socks -> 0 .. MaxFails]
    /\ raced \in BOOLEAN

\* The first connection is up.
Init ==
    /\ sem = depth /\ submits = 0
    /\ sock = 1 /\ epoch = 1
    /\ pc = [t \in Threads |-> IF t = Main THEN "acquire" ELSE "top"]
    /\ s = [t \in Threads |-> 1] /\ ep = [t \in Threads |-> 1]
    /\ conn = [t \in Threads |-> 1]
    /\ closed = {} /\ alive = {1} /\ up = TRUE
    /\ wire = [k \in Socks |-> 0] /\ back = [k \in Socks |-> 0]
    /\ restarts = 0 /\ fails = [k \in Socks |-> 0]
    /\ raced = FALSE

Goto(t, label) == pc' = [pc EXCEPT ![t] = label]
Transition(t, from, to) == pc[t] = from /\ Goto(t, to)

\* Where a thread goes on after reconnect_loop.
Back(t) == IF t = Main THEN "acquire" ELSE "top"

\* conn.current()
Current(t) ==
    /\ s' = [s EXCEPT ![t] = sock]
    /\ ep' = [ep EXCEPT ![t] = epoch]

\* A thread has noticed that its connection is broken.
Notice(t, from) ==
    /\ Transition(t, from, "drop")
    /\ raced' = \/ raced
                \/ t = Main /\ ep[t] = epoch
                \/ \E u \in Threads \ {t} : pc[u] \in Handling

-----------------------------------------------------------------------------
(* The main thread *)

Works(k)  == k \in alive \ closed
Flight(k) == wire[k] + back[k]

\* Faulty variant: a wait for a permit that timed out counts as one.
AcquireTimedOut ==
    /\ Flight(sock) < MaxFlight
    /\ Transition(Main, "acquire", "append")
    /\ sem' = sem - 1
    /\ Current(Main)
    /\ UNCHANGED <<submits, link, conn, proxy, raced>>

Acquire ==
    /\ sem > 0 /\ Flight(sock) < MaxFlight
    /\ Transition(Main, "acquire", "append")
    /\ sem' = sem - 1
    /\ Current(Main)
    /\ UNCHANGED <<submits, link, conn, proxy, raced>>

NoteSubmit ==
    /\ Transition(Main, "append", "send")
    /\ submits' = submits + 1
    /\ UNCHANGED <<sem, link, locals, proxy, raced>>

Send ==
    /\ Works(s[Main])
    /\ Transition(Main, "send", "acquire")
    /\ wire' = [wire EXCEPT ![s[Main]] = @ + 1]
    /\ UNCHANGED <<permits, link, locals, up, alive, back, restarts, fails, raced>>

SendFails ==
    /\ ~Works(s[Main])
    /\ Notice(Main, "send")
    /\ UNCHANGED <<permits, link, locals, proxy>>

\* The time is over: stop is set, the socket closed, and the process ends.
Stop ==
    /\ Transition(Main, "acquire", "end")
    /\ closed' = closed \cup {sock}
    /\ UNCHANGED <<permits, sock, epoch, locals, proxy, raced>>

-----------------------------------------------------------------------------
(* The receiver thread *)

Top ==
    /\ Transition(Receiver, "top", "call")
    /\ Current(Receiver)
    /\ UNCHANGED <<permits, link, conn, proxy, raced>>

\* recv on a socket that has been closed fails; a call under way when the
\* socket is closed stays blocked.
Call ==
    /\ s[Receiver] \notin closed
    /\ Transition(Receiver, "call", "recv")
    /\ UNCHANGED <<permits, link, locals, proxy, raced>>

CallFails ==
    /\ s[Receiver] \in closed
    /\ Notice(Receiver, "call")
    /\ UNCHANGED <<permits, link, locals, proxy>>

Receive ==
    LET k == s[Receiver]
    IN  /\ back[k] > 0
        /\ Transition(Receiver, "recv", "got")
        /\ back' = [back EXCEPT ![k] = @ - 1]
        /\ UNCHANGED <<permits, link, locals, up, alive, wire, restarts, fails,
                       raced>>

EndOfStream ==
    /\ s[Receiver] \notin alive /\ back[s[Receiver]] = 0
    /\ Notice(Receiver, "recv")
    /\ UNCHANGED <<permits, link, locals, proxy>>

\* "if submits": is there a request to take the reply for?
Got ==
    /\ submits > 0
    /\ Transition(Receiver, "got", "pop")
    /\ UNCHANGED <<permits, link, locals, proxy, raced>>

\* There is none, and the permit is given back all the same.
GotNothing ==
    /\ submits = 0
    /\ Transition(Receiver, "got", "release")
    /\ UNCHANGED <<permits, link, locals, proxy, raced>>

\* popleft; IndexError if the other thread has emptied submits meanwhile
PopLeft(t, from, to) ==
    /\ submits > 0
    /\ Transition(t, from, to)
    /\ submits' = submits - 1
    /\ UNCHANGED <<sem, link, locals, proxy, raced>>

PopFails(t, from) ==
    /\ submits = 0
    /\ Transition(t, from, "dead")
    /\ UNCHANGED <<permits, link, locals, proxy, raced>>

\* Faulty variant: drop_inflight gives no permit back.
ReleaseForReply(t, from, to) ==
    /\ Transition(t, from, to)
    /\ sem' = sem + (IF from = "release" THEN 1 ELSE 0)
    /\ UNCHANGED <<submits, link, locals, proxy, raced>>

\* sem.release()
Release(t, from, to) ==
    /\ Transition(t, from, to)
    /\ sem' = sem + 1
    /\ UNCHANGED <<submits, link, locals, proxy, raced>>

-----------------------------------------------------------------------------
(* drop_inflight and reconnect_loop, by either thread *)

\* Faulty variant: what is under way stays noted.
DropNothing(t) ==
    /\ Transition(t, "drop", "reconnect")
    /\ UNCHANGED <<permits, link, locals, proxy, raced>>

DropInflight(t) ==
    /\ Transition(t, "drop", IF submits = 0 THEN "reconnect" ELSE "drop_pop")
    /\ UNCHANGED <<permits, link, locals, proxy, raced>>

\* Faulty variant: a renewed connection is renewed once more.
ReconnectAlways(t) ==
    /\ Transition(t, "reconnect", "connect")
    /\ UNCHANGED <<permits, link, locals, proxy, raced>>

\* Has the other thread renewed the connection already?  Without reconnection
\* the receiver ends and the main thread goes on to fail.
Reconnect(t) ==
    /\ Transition(t, "reconnect",
           IF ~reconnect_enabled THEN (IF t = Main THEN "acquire" ELSE "end")
           ELSE IF epoch # ep[t] THEN Back(t) ELSE "connect")
    /\ UNCHANGED <<permits, link, locals, proxy, raced>>

Made == {sock} \cup {conn[t] : t \in Threads} \cup alive \cup closed

\* Connection and handshake succeed as soon as the proxy is there; until
\* then the loop sleeps and tries again.
Connect(t) ==
    /\ up
    /\ Socks \ Made # {}
    /\ Transition(t, "connect", "install")
    /\ conn' = [conn EXCEPT ![t] = Min(Socks \ Made)]
    /\ alive' = alive \cup {conn'[t]}
    /\ UNCHANGED <<permits, link, s, ep, up, wire, back, restarts, fails, raced>>

\* The new socket becomes the current one, whatever the generation is by now.
\* The former one is closed and its connection ends, except that a receiver
\* blocked on it keeps it.
Install(t) ==
    LET ends == {sock} \ {s[u] : u \in {v \in Threads : pc[v] = "recv"}}
    IN  /\ Transition(t, "install", Back(t))
        /\ sock' = conn[t]
        /\ epoch' = epoch + 1
        /\ closed' = closed \cup {sock}
        /\ alive' = alive \ ends
        /\ wire' = [k \in Socks |-> IF k \in ends THEN 0 ELSE wire[k]]
        /\ back' = [k \in Socks |-> IF k \in ends THEN 0 ELSE back[k]]
        /\ fails' = [k \in Socks |-> IF k \in ends THEN 0 ELSE fails[k]]
        /\ UNCHANGED <<permits, locals, up, restarts, raced>>

Handle(t) ==
    \/ DropInflight(t) \/ Reconnect(t) \/ Connect(t) \/ Install(t)
    \/ PopLeft(t, "drop_pop", "drop_release") \/ PopFails(t, "drop_pop")
    \/ Release(t, "drop_release", "drop")

-----------------------------------------------------------------------------
(* The proxy *)

Answer(k) ==
    /\ k \in alive /\ wire[k] > 0
    /\ wire' = [wire EXCEPT ![k] = @ - 1]
    /\ back' = [back EXCEPT ![k] = @ + 1]
    /\ UNCHANGED <<permits, link, pc, locals, up, alive, restarts, fails, raced>>

\* A run fails: no reply.
Fail(k) ==
    /\ k \in alive /\ wire[k] > 0
    /\ fails[k] < MaxFails
    /\ fails' = [fails EXCEPT ![k] = @ + 1]
    /\ wire' = [wire EXCEPT ![k] = @ - 1]
    /\ UNCHANGED <<permits, link, pc, locals, up, alive, back, restarts, raced>>

\* The proxy ends: the requests are gone, replies in the sockets are not.
Down ==
    /\ up /\ restarts < MaxRestarts
    /\ up' = FALSE
    /\ alive' = {}
    /\ wire' = [k \in Socks |-> 0]
    /\ fails' = [k \in Socks |-> 0]
    /\ restarts' = restarts + 1
    /\ UNCHANGED <<permits, link, pc, locals, back, raced>>

Up ==
    /\ ~up
    /\ up' = TRUE
    /\ UNCHANGED <<permits, link, pc, locals, alive, wire, back, restarts, fails, raced>>

-----------------------------------------------------------------------------
MainStep ==
    \/ Acquire \/ NoteSubmit \/ Send \/ SendFails \/ Handle(Main)

ReceiverStep ==
    \/ Top \/ Call \/ CallFails \/ Receive \/ EndOfStream \/ Got \/ GotNothing
    \/ PopLeft(Receiver, "pop", "release") \/ PopFails(Receiver, "pop")
    \/ Release(Receiver, "release", "top") \/ Handle(Receiver)

Ended == pc[Main] \in {"end", "dead"}
Rest  == Ended /\ UNCHANGED vars

Next ==
    \/ ~Ended /\ (MainStep \/ ReceiverStep \/ Stop)
    \/ ~Ended /\ (Down \/ Up \/ \E k \in Socks : Answer(k) \/ Fail(k))
    \/ Rest

Spec == Init /\ [][Next]_vars

\* Threads run, the proxy answers and is restarted after it went down.
LiveSpec ==
    /\ Spec
    /\ WF_vars(MainStep /\ ~Ended) /\ WF_vars(ReceiverStep /\ ~Ended)
    /\ WF_vars(Up /\ ~Ended)
    /\ \A k \in Socks : WF_vars(Answer(k) /\ ~Ended)

-----------------------------------------------------------------------------
(* Properties *)

\* Permits that a thread has taken and not used, or is about to give back.
Releasing(t) == IF pc[t] \in {"release", "drop_release"} THEN 1 ELSE 0
InHand       == (IF pc[Main] = "append" THEN 1 ELSE 0) + Releasing(Main) + Releasing(Receiver)

\* A request that is being sent, a reply that is being taken.
Sending  == IF pc[Main] = "send" THEN 1 ELSE 0
Replying == IF pc[Receiver] \in {"got", "pop"} THEN 1 ELSE 0

\* Breaks do not narrow the pipeline: on a connection that works, every permit
\* is free, in a thread's hands or stands for a request of this connection that
\* will be answered -- but for one permit per failing run, which nobody answers.
\* The receiver frees all that was under way before it connects anew.  Holds as
\* long as each break is dealt with by one thread.
PermitsKept ==
    ~raced /\ Works(sock) /\ (\A t \in Threads : pc[t] \notin Handling) =>
        sem + InHand + Sending + Flight(sock) + Replying + fails[sock] >= depth

\* As long as each break is dealt with by one thread, no permit is given back
\* twice and no more than depth requests are under way.
DepthKept ==
    ~raced =>
        /\ sem + submits + InHand = depth
        /\ Flight(sock) <= depth

\* The client outlives the proxy: unless the time is over, replies keep coming,
\* if on each connection fewer runs fail than there are permits and each break is
\* dealt with by one thread.
RepliesKeepComing ==
    \/ <>(Ended \/ raced \/ fails[sock] >= depth)
    \/ []<>(pc[Receiver] = "got")
=============================================================================
