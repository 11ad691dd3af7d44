---------------------------- MODULE NpuProxyProofs ---------------------------
(***************************************************************************)
(* The NPU proxy keeps its promises to any number of tenants, connections  *)
(* and requests: it implements RequestService, forgets no request, and its *)
(* tables agree.                                                           *)
(*                                                                         *)
(* The first two rest on where a request can be (Numbers, Order, Results), *)
(* the last on what a thread in the middle of ensure_tenant has done and   *)
(* will do (Tables).                                                       *)
(***************************************************************************)
EXTENDS NpuProxy, TLAPS

\* Requests in a queue, and those the scheduler may still answer.
Queued == UNION {Range(queue[n]) : n \in Names}
Active == Queued \cup ({running} \ {None})

Before(a, b) == a[1] = b[1] => a[2] < b[2]
Sorted(q)    == \A i, j \in 1 .. Len(q) : i < j => Before(q[i], q[j])

\* A pending request has been read and not been answered; nothing has been
\* answered that was not read.
Numbers ==
    /\ \A r \in Pending :
           r[2] <= sent[r[1]] /\ \A m \in Range(replies[r[1]]) : m[1] # r[2]
    /\ \A c \in Conns : \A m \in Range(replies[c]) : m[1] <= sent[c]

\* Every request is in one place.  The requests of a connection wait in order,
\* behind the one that runs and behind those being refused.
Order ==
    /\ \A n \in Names : /\ Sorted(queue[n])
                        /\ \A r \in Range(queue[n]) : TenantOf[r[1]] = n
    /\ Sorted(dropped)
    /\ \A q \in Queued : /\ \A d \in Range(dropped) : Before(d, q)
                         /\ running # None => Before(running, q)
    /\ running \notin Range(dropped)
    /\ dropped # <<>> => pc[Admin] = "refuse"

\* Results come in order: none has overtaken a request that may get one.
Results ==
    \A r \in Active : \A m \in Range(replies[r[1]]) :
        m[2] = "result" => m[1] < r[2]

RequestInv == TypeOK /\ Numbers /\ Order /\ Results

\* A thread is at one of the places in ensure_tenant, for tenant n.
At(n, places) == \E t \in Threads : pc[t] \in places /\ NameOf(t) = n

\* drop_tenant is at work on tenant n.
BeingDropped(n) == pc[Admin] \in Dropping /\ target = n

\* Until a tenant is dropped in the middle of its registration: nobody registers
\* a tenant that is being dropped, and else a thread that has left something
\* undone is on its way to do it.
Tables ==
    ~overlapped => \A n \in Names :
        IF BeingDropped(n)
        THEN ~registered[n] /\ ~At(n, Ensuring \ {"check"})
        ELSE /\ At(n, {"log", "unlink", "bind", "publish"}) => registered[n]
             /\ At(n, {"unlink", "bind", "publish"}) => logs[n]
             /\ registered[n] => logs[n] \/ At(n, {"log"})
             /\ logs[n] => /\ registered[n]
                           /\ path[n] \/ At(n, {"unlink", "bind"})
                           /\ path[n] => ctrl[n] \/ At(n, {"unlink", "publish"})

-----------------------------------------------------------------------------
(* Sequences of requests *)

LEMMA RangeAppend ==
    ASSUME NEW S, NEW q \in Seq(S), NEW x \in S
    PROVE  Range(Append(q, x)) = Range(q) \cup {x}
  <1>1. /\ Append(q, x) \in Seq(S) /\ DOMAIN Append(q, x) = 1 .. Len(q) + 1
        /\ DOMAIN q = 1 .. Len(q) /\ Len(q) \in Nat
        /\ \A i \in 1 .. Len(q) : Append(q, x)[i] = q[i]
        /\ Append(q, x)[Len(q) + 1] = x
    OBVIOUS
  <1> QED
    BY <1>1 DEF Range

LEMMA RangeTail ==
    ASSUME NEW S, NEW q \in Seq(S), q # <<>>
    PROVE  /\ Head(q) \in S /\ Tail(q) \in Seq(S)
           /\ Range(q) = Range(Tail(q)) \cup {Head(q)}
  <1>1. /\ Tail(q) \in Seq(S) /\ DOMAIN Tail(q) = 1 .. Len(q) - 1
        /\ DOMAIN q = 1 .. Len(q) /\ Len(q) \in Nat \ {0}
        /\ \A i \in 1 .. Len(q) - 1 : Tail(q)[i] = q[i + 1]
        /\ Head(q) = q[1] /\ Head(q) \in S
    OBVIOUS
  <1>2. \A i \in 2 .. Len(q) : i - 1 \in 1 .. Len(q) - 1 /\ Tail(q)[i - 1] = q[i]
    BY <1>1
  <1>3. ASSUME NEW y \in Range(q) PROVE y \in Range(Tail(q)) \cup {Head(q)}
    <2>1. PICK i \in 1 .. Len(q) : y = q[i]
      BY <1>1, <1>3 DEF Range
    <2>2. CASE i = 1
      BY <2>1, <2>2, <1>1
    <2>3. CASE i \in 2 .. Len(q)
      BY <2>1, <2>3, <1>1, <1>2 DEF Range
    <2> QED
      BY <2>2, <2>3, <1>1
  <1>4. ASSUME NEW y \in Range(Tail(q)) \cup {Head(q)} PROVE y \in Range(q)
    <2>1. CASE y = Head(q)
      BY <2>1, <1>1 DEF Range
    <2>2. CASE y \in Range(Tail(q))
      <3>1. PICK i \in 1 .. Len(q) - 1 : y = Tail(q)[i]
        BY <1>1, <2>2 DEF Range
      <3>2. y = q[i + 1] /\ i + 1 \in 1 .. Len(q)
        BY <3>1, <1>1
      <3> QED
        BY <3>2, <1>1 DEF Range
    <2> QED
      BY <1>4, <2>1, <2>2
  <1> QED
    BY <1>1, <1>3, <1>4

\* A sorted queue stays so when a request is added behind those of its
\* connection, or the first one is taken; that one was before all others.
LEMMA SortedAppend ==
    ASSUME NEW q \in Seq(Requests), NEW x \in Requests, Sorted(q),
           \A y \in Range(q) : Before(y, x)
    PROVE  Sorted(Append(q, x))
  <1>1. /\ Len(Append(q, x)) = Len(q) + 1 /\ Len(q) \in Nat
        /\ \A i \in 1 .. Len(q) : Append(q, x)[i] = q[i] /\ q[i] \in Range(q)
        /\ Append(q, x)[Len(q) + 1] = x
    BY DEF Range
  <1> SUFFICES ASSUME NEW i \in 1 .. Len(q) + 1, NEW j \in 1 .. Len(q) + 1, i < j
               PROVE  Before(Append(q, x)[i], Append(q, x)[j])
    BY <1>1 DEF Sorted
  <1>2. i \in 1 .. Len(q)
    BY <1>1
  <1>3. CASE j \in 1 .. Len(q)
    <2>1. Before(q[i], q[j])
      BY <1>2, <1>3 DEF Sorted
    <2> QED
      BY <2>1, <1>1, <1>2, <1>3
  <1>4. CASE j = Len(q) + 1
    <2>1. Before(q[i], x)
      BY <1>1, <1>2
    <2> QED
      BY <2>1, <1>1, <1>2, <1>4
  <1> QED
    BY <1>1, <1>3, <1>4

LEMMA SortedTail ==
    ASSUME NEW q \in Seq(Requests), q # <<>>, Sorted(q)
    PROVE  Sorted(Tail(q)) /\ \A y \in Range(Tail(q)) : Before(Head(q), y)
  <1>1. /\ Len(Tail(q)) = Len(q) - 1 /\ Len(q) \in Nat \ {0}
        /\ DOMAIN Tail(q) = 1 .. Len(q) - 1
        /\ \A i \in 1 .. Len(q) - 1 : Tail(q)[i] = q[i + 1] /\ i + 1 \in 1 .. Len(q)
        /\ Head(q) = q[1]
    OBVIOUS
  <1>2. Sorted(Tail(q))
    <2> SUFFICES ASSUME NEW i \in 1 .. Len(q) - 1, NEW j \in 1 .. Len(q) - 1, i < j
                 PROVE  Before(Tail(q)[i], Tail(q)[j])
      BY <1>1 DEF Sorted
    <2>1. Before(q[i + 1], q[j + 1])
      BY <1>1 DEF Sorted
    <2> QED
      BY <2>1, <1>1
  <1>3. ASSUME NEW y \in Range(Tail(q)) PROVE Before(Head(q), y)
    <2>1. PICK i \in 1 .. Len(q) - 1 : y = Tail(q)[i]
      BY <1>1, <1>3 DEF Range
    <2>2. Before(q[1], q[i + 1])
      BY <1>1 DEF Sorted
    <2> QED
      BY <2>1, <2>2, <1>1
  <1> QED
    BY <1>2, <1>3

-----------------------------------------------------------------------------
(* Types *)

LEMMA ReplyType ==
    ASSUME TypeOK, NEW s \in Senders, NEW r \in Requests,
           NEW what \in {"result", "error"}, Reply(s, r, what)
    PROVE  /\ replies' \in [Conns -> Seq((1 .. MaxRequests) \X {"result", "error"})]
           /\ blocked' \in SUBSET Senders
  <1>1. r[1] \in Conns /\ <<r[2], what>> \in (1 .. MaxRequests) \X {"result", "error"}
    BY DEF Requests
  <1> QED
    BY <1>1 DEF Reply, TypeOK

LEMMA TypeStep == TypeOK /\ [Next]_vars => TypeOK'
  <1> SUFFICES ASSUME TypeOK, [Next]_vars PROVE TypeOK'
    OBVIOUS
  <1> USE DEF TypeOK, Transition, Return, Ensuring, Dropping, NoLife, Threads,
              tenants, tables, work, admin, client
  <1>1. ASSUME NEW c \in Conns, Hello(c) PROVE TypeOK'
    BY <1>1 DEF Hello
  <1>2. ASSUME NEW t \in Threads, InLogs(t) PROVE TypeOK'
    BY <1>2 DEF InLogs
  <1>3. ASSUME NEW t \in Threads, NotInLogs(t) PROVE TypeOK'
    BY <1>3 DEF NotInLogs
  <1>4. ASSUME NEW t \in Threads, Register(t) PROVE TypeOK'
    BY <1>4 DEF Register
  <1>5. ASSUME NEW t \in Threads, OpenLog(t) PROVE TypeOK'
    BY <1>5 DEF OpenLog
  <1>6. ASSUME NEW t \in Threads, Unlink(t) PROVE TypeOK'
    BY <1>6 DEF Unlink
  <1>7. ASSUME NEW t \in Threads, Bind(t) PROVE TypeOK'
    BY <1>7 DEF Bind
  <1>8. ASSUME NEW t \in Threads, BindFails(t) PROVE TypeOK'
    BY <1>8 DEF BindFails
  <1>9. ASSUME NEW t \in Threads, Publish(t) PROVE TypeOK'
    BY <1>9 DEF Publish
  <1>10. ASSUME NEW c \in Conns, Submit(c) PROVE TypeOK'
    <2>1. sent[c] + 1 \in 1 .. MaxRequests /\ <<c, sent[c] + 1>> \in Requests
      BY <1>10, ProxyAssumption DEF Submit, Read, Requests
    <2>2. sent' \in [Conns -> 0 .. MaxRequests]
      BY <1>10, <2>1 DEF Submit, Read
    <2>3. queue' \in [Names -> Seq(Requests)]
      BY <1>10, <2>1, ProxyAssumption DEF Submit
    <2> QED
      BY <1>10, <2>2, <2>3 DEF Submit
  <1>11. ASSUME NEW c \in Conns, SubmitFails(c) PROVE TypeOK'
    <2>1. sent' \in [Conns -> 0 .. MaxRequests]
      BY <1>11, ProxyAssumption DEF SubmitFails, Read
    <2> QED
      BY <1>11, <2>1 DEF SubmitFails
  <1>12. ASSUME NEW c \in Conns, Leave(c) PROVE TypeOK'
    BY <1>12 DEF Leave
  <1>13. ASSUME NEW c \in Conns, Hangup(c) PROVE TypeOK'
    BY <1>13 DEF Hangup
  <1>14. ASSUME NEW n \in Names, AdminRegister(n) PROVE TypeOK'
    <2>1. commands' \in 0 .. MaxCommands
      BY <1>14, ProxyAssumption DEF AdminRegister, Command
    <2> QED
      BY <1>14, <2>1 DEF AdminRegister, Command
  <1>15. ASSUME NEW n \in Names, Unregister(n) PROVE TypeOK'
    <2>1. commands' \in 0 .. MaxCommands
      BY <1>15, ProxyAssumption DEF Unregister, Command
    <2>2. overlapped' \in BOOLEAN
      BY <1>15, Zenon DEF Unregister
    <2>3. /\ queue' \in [Names -> Seq(Requests)] /\ dropped' \in Seq(Requests)
          /\ registered' \in [Names -> BOOLEAN]
      BY <1>15 DEF Unregister
    <2> QED
      BY <1>15, <2>1, <2>2, <2>3 DEF Unregister, Command
  <1>16. ASSUME Refuse PROVE TypeOK'
    <2>1. Head(dropped) \in Requests /\ Tail(dropped) \in Seq(Requests)
      BY <1>16, RangeTail DEF Refuse
    <2>2. /\ replies' \in [Conns -> Seq((1 .. MaxRequests) \X {"result", "error"})]
          /\ blocked' \in SUBSET Senders
      BY <1>16, <2>1, ReplyType DEF Refuse, Senders
    <2> QED
      BY <1>16, <2>1, <2>2 DEF Refuse
  <1>17. ASSUME CloseCtrl PROVE TypeOK'
    BY <1>17 DEF CloseCtrl
  <1>18. ASSUME RemovePath PROVE TypeOK'
    BY <1>18 DEF RemovePath
  <1>19. ASSUME Forget PROVE TypeOK'
    BY <1>19 DEF Forget
  <1>20. ASSUME NEW n \in Names, Start(n) PROVE TypeOK'
    <2>1. Head(queue[n]) \in Requests /\ Tail(queue[n]) \in Seq(Requests)
      BY <1>20, RangeTail DEF Start
    <2> QED
      BY <1>20, <2>1 DEF Start
  <1>21. ASSUME Finish PROVE TypeOK'
    <2>1. /\ replies' \in [Conns -> Seq((1 .. MaxRequests) \X {"result", "error"})]
          /\ blocked' \in SUBSET Senders
      BY <1>21, ReplyType DEF Finish, Senders
    <2> QED
      BY <1>21, <2>1 DEF Finish
  <1>22. ASSUME RunFails PROVE TypeOK'
    BY <1>22 DEF RunFails
  <1>23. ASSUME NEW s \in Senders, Block(s) \/ Unblock(s) PROVE TypeOK'
    BY <1>23 DEF Block, Unblock
  <1>24. CASE UNCHANGED vars
    BY <1>24 DEF vars
  <1> QED
    BY <1>1, <1>2, <1>3, <1>4, <1>5, <1>6, <1>7, <1>8, <1>9, <1>10, <1>11,
       <1>12, <1>13, <1>14, <1>15, <1>16, <1>17, <1>18, <1>19, <1>20,
       <1>21, <1>22, <1>23, <1>24
       DEF Next, Connection, Ensure, Drop, Schedule, Complete, Rest

\* Every variable keeps its type.
THEOREM TypeCorrect == Spec => []TypeOK
  <1>1. Init => TypeOK
    <2> SUFFICES ASSUME Init PROVE TypeOK
      OBVIOUS
    <2>1. overlapped \in BOOLEAN
      BY Zenon DEF Init
    <2>2. /\ registered \in [Names -> BOOLEAN] /\ logs \in [Names -> BOOLEAN]
          /\ ctrl \in [Names -> BOOLEAN] /\ path \in [Names -> BOOLEAN]
          /\ gone \in [Conns -> BOOLEAN]
      BY DEF Init
    <2> QED
      BY <2>1, <2>2, ProxyAssumption DEF Init, TypeOK
  <1> QED
    BY <1>1, TypeStep, PTL DEF Spec

-----------------------------------------------------------------------------
(* What the steps do to the requests *)

requests == <<queue, dropped, running, sent, replies>>

\* The steps that concern requests.
Work ==
    \/ \E c \in Conns : Submit(c) \/ SubmitFails(c)
    \/ \E n \in Names : Unregister(n) \/ Start(n)
    \/ Refuse \/ Finish \/ RunFails

LEMMA OtherSteps ==
    ASSUME TypeOK, Order, [Next]_vars, ~Work
    PROVE  UNCHANGED requests /\ (dropped # <<>> => pc'[Admin] = "refuse")
  <1> USE DEF requests, tenants, tables, work, admin, client, Transition
  <1>0. /\ pc \in [Threads -> {"idle", "serve"} \cup Ensuring \cup Dropping \cup NoLife]
        /\ dropped # <<>> => pc[Admin] = "refuse"
        /\ Admin \in Threads /\ Admin \notin Conns
    BY ProxyAssumption DEF TypeOK, Order, Threads
  <1>1. ASSUME NEW c \in Conns, Hello(c)
        PROVE  UNCHANGED requests /\ (dropped # <<>> => pc'[Admin] = "refuse")
    BY <1>0, <1>1 DEF Hello
  <1>2. ASSUME NEW t \in Threads, InLogs(t)
        PROVE  UNCHANGED requests /\ (dropped # <<>> => pc'[Admin] = "refuse")
    BY <1>0, <1>2 DEF InLogs
  <1>3. ASSUME NEW t \in Threads, NotInLogs(t)
        PROVE  UNCHANGED requests /\ (dropped # <<>> => pc'[Admin] = "refuse")
    BY <1>0, <1>3 DEF NotInLogs
  <1>4. ASSUME NEW t \in Threads, Register(t)
        PROVE  UNCHANGED requests /\ (dropped # <<>> => pc'[Admin] = "refuse")
    BY <1>0, <1>4 DEF Register
  <1>5. ASSUME NEW t \in Threads, OpenLog(t)
        PROVE  UNCHANGED requests /\ (dropped # <<>> => pc'[Admin] = "refuse")
    BY <1>0, <1>5 DEF OpenLog
  <1>6. ASSUME NEW t \in Threads, Unlink(t)
        PROVE  UNCHANGED requests /\ (dropped # <<>> => pc'[Admin] = "refuse")
    BY <1>0, <1>6 DEF Unlink
  <1>7. ASSUME NEW t \in Threads, Bind(t)
        PROVE  UNCHANGED requests /\ (dropped # <<>> => pc'[Admin] = "refuse")
    BY <1>0, <1>7 DEF Bind
  <1>8. ASSUME NEW t \in Threads, BindFails(t)
        PROVE  UNCHANGED requests /\ (dropped # <<>> => pc'[Admin] = "refuse")
    BY <1>0, <1>8 DEF BindFails
  <1>9. ASSUME NEW t \in Threads, Publish(t)
        PROVE  UNCHANGED requests /\ (dropped # <<>> => pc'[Admin] = "refuse")
    BY <1>0, <1>9 DEF Publish
  <1>10. ASSUME NEW c \in Conns, Leave(c)
        PROVE  UNCHANGED requests /\ (dropped # <<>> => pc'[Admin] = "refuse")
    BY <1>0, <1>10 DEF Leave
  <1>11. ASSUME NEW c \in Conns, Hangup(c)
        PROVE  UNCHANGED requests /\ (dropped # <<>> => pc'[Admin] = "refuse")
    BY <1>0, <1>11 DEF Hangup
  <1>12. ASSUME NEW n \in Names, AdminRegister(n)
        PROVE  UNCHANGED requests /\ (dropped # <<>> => pc'[Admin] = "refuse")
    BY <1>0, <1>12 DEF AdminRegister, Command
  <1>13. ASSUME CloseCtrl
        PROVE  UNCHANGED requests /\ (dropped # <<>> => pc'[Admin] = "refuse")
    BY <1>0, <1>13 DEF CloseCtrl
  <1>14. ASSUME RemovePath
        PROVE  UNCHANGED requests /\ (dropped # <<>> => pc'[Admin] = "refuse")
    BY <1>0, <1>14 DEF RemovePath
  <1>15. ASSUME Forget
        PROVE  UNCHANGED requests /\ (dropped # <<>> => pc'[Admin] = "refuse")
    BY <1>0, <1>15 DEF Forget
  <1>16. ASSUME NEW s \in Senders, Block(s) \/ Unblock(s)
        PROVE  UNCHANGED requests /\ (dropped # <<>> => pc'[Admin] = "refuse")
    BY <1>0, <1>16 DEF Block, Unblock
  <1>17. CASE UNCHANGED vars
    BY <1>0, <1>17 DEF vars
  <1> QED
    BY <1>1, <1>2, <1>3, <1>4, <1>5, <1>6, <1>7, <1>8,
       <1>9, <1>10, <1>11, <1>12, <1>13, <1>14, <1>15, <1>16, <1>17
    DEF Work, Next, Connection, Ensure, Drop, Schedule, Complete, Rest

\* Requests are equal when connection and number are.
LEMMA SameRequest ==
    \A a, b \in Requests : a[1] = b[1] /\ a[2] = b[2] => a = b
  BY DEF Requests

\* Reply appends one answer, or none.
LEMMA ReplyEffect ==
    ASSUME TypeOK, NEW s \in Senders, NEW r \in Requests,
           NEW what \in {"result", "error"}, Reply(s, r, what)
    PROVE  /\ \A c \in Conns : c # r[1] => replies'[c] = replies[c]
           /\ \/ replies' = replies
              \/ Range(replies'[r[1]]) = Range(replies[r[1]]) \cup {<<r[2], what>>}
  <1>1. r[1] \in Conns /\ <<r[2], what>> \in (1 .. MaxRequests) \X {"result", "error"}
    BY DEF Requests
  <1>2. Range(Append(replies[r[1]], <<r[2], what>>)) =
            Range(replies[r[1]]) \cup {<<r[2], what>>}
    <2>1. replies[r[1]] \in Seq((1 .. MaxRequests) \X {"result", "error"})
      BY <1>1 DEF TypeOK
    <2> QED
      BY <1>1, <2>1, RangeAppend
  <1> QED
    BY <1>1, <1>2 DEF Reply, TypeOK

LEMMA QueuedMember ==
    \A x : x \in Queued <=> \E n \in Names : x \in Range(queue[n])
  BY DEF Queued

LEMMA QueuedMemberNext ==
    \A x : x \in Queued' <=> \E n \in Names : x \in Range(queue'[n])
  BY DEF Queued

LEMMA RequestTypes ==
    ASSUME TypeOK
    PROVE  /\ \A n \in Names : queue[n] \in Seq(Requests)
           /\ \A n \in Names : Range(queue[n]) \subseteq Requests
           /\ Queued \subseteq Requests /\ Active \subseteq Requests
           /\ Range(dropped) \subseteq Requests /\ Pending \subseteq Requests
           /\ Pending = Active \cup Range(dropped)
  <1>1. ASSUME NEW q \in Seq(Requests) PROVE Range(q) \subseteq Requests
    BY DEF Range
  <1>2. \A n \in Names : queue[n] \in Seq(Requests)
    BY DEF TypeOK
  <1>3. \A n \in Names : Range(queue[n]) \subseteq Requests
    BY <1>1, <1>2
  <1>4. Queued \subseteq Requests
    BY <1>3, QueuedMember
  <1>5. Range(dropped) \subseteq Requests
    BY <1>1 DEF TypeOK
  <1>6. Active \subseteq Requests
    BY <1>4 DEF Active, TypeOK
  <1>7. Pending = Active \cup Range(dropped)
    BY DEF Pending, Active, Queued
  <1> QED
    BY <1>2, <1>3, <1>4, <1>5, <1>6, <1>7

LEMMA SubmitEffect ==
    ASSUME RequestInv, NEW c \in Conns, Submit(c)
    PROVE  LET r == <<c, sent[c] + 1>>
           IN  /\ r \in Requests /\ r \notin Pending
               /\ Queued' = Queued \cup {r}
               /\ \A n \in Names :
                      /\ Sorted(queue'[n])
                      /\ \A x \in Range(queue'[n]) : TenantOf[x[1]] = n
  <1> DEFINE r == <<c, sent[c] + 1>>
             n == TenantOf[c]
  <1>1. r \in Requests /\ r[1] = c /\ r[2] = sent[c] + 1 /\ n \in Names /\ sent[c] \in Nat
    <2>1. sent[c] \in Nat /\ sent[c] + 1 \in 1 .. MaxRequests
      BY ProxyAssumption DEF RequestInv, TypeOK, Submit, Read
    <2> QED
      BY <2>1, ProxyAssumption DEF Requests
  <1>2. r \notin Pending
    BY <1>1 DEF RequestInv, Numbers
  <1>3. /\ queue'[n] = Append(queue[n], r)
        /\ \A m \in Names \ {n} : queue'[m] = queue[m]
    BY <1>1 DEF RequestInv, TypeOK, Submit
  <1>4. queue[n] \in Seq(Requests) /\ Range(queue[n]) \subseteq Pending
    BY <1>1, RequestTypes, QueuedMember DEF RequestInv, Active
  <1>5. Range(queue'[n]) = Range(queue[n]) \cup {r}
    BY <1>1, <1>3, <1>4, RangeAppend
  <1>6. \A y \in Range(queue[n]) : Before(y, r)
    <2>1. ASSUME NEW y \in Range(queue[n]), y[1] = c PROVE y[2] < sent[c] + 1
      <3>1. y \in Pending /\ y \in Requests
        BY <1>4, <2>1, RequestTypes DEF RequestInv
      <3>2. y[2] <= sent[c] /\ y[2] \in Nat
        BY <2>1, <3>1 DEF RequestInv, Numbers, Requests
      <3> QED
        BY <1>1, <3>2
    <2> QED
      BY <1>1, <2>1 DEF Before
  <1>7. Sorted(queue'[n])
    BY <1>1, <1>3, <1>4, <1>6, SortedAppend DEF RequestInv, Order
  <1>8. Queued' = Queued \cup {r}
    BY <1>1, <1>3, <1>5, QueuedMember, QueuedMemberNext
  <1>9. ASSUME NEW m \in Names
        PROVE  Sorted(queue'[m]) /\ \A x \in Range(queue'[m]) : TenantOf[x[1]] = m
    <2>1. Sorted(queue[m]) /\ \A x \in Range(queue[m]) : TenantOf[x[1]] = m
      BY DEF RequestInv, Order
    <2>2. CASE m = n
      BY <1>1, <1>5, <1>7, <2>1, <2>2
    <2>3. CASE m # n
      BY <1>3, <2>1, <2>3
    <2> QED
      BY <2>2, <2>3
  <1> HIDE DEF r, n
  <1> QED
    BY <1>1, <1>2, <1>8, <1>9 DEF r

LEMMA StartEffect ==
    ASSUME RequestInv, NEW n \in Names, Start(n)
    PROVE  /\ running' \in Requests /\ running' # None /\ running' \notin Queued'
           /\ Queued = Queued' \cup {running'}
           /\ \A q \in Queued' : Before(running', q)
           /\ \A m \in Names :
                  /\ Sorted(queue'[m])
                  /\ \A x \in Range(queue'[m]) : TenantOf[x[1]] = m
           /\ running = None /\ Pending' = Pending
  <1>1. queue[n] \in Seq(Requests) /\ queue[n] # <<>>
    BY RequestTypes DEF RequestInv, Start
  <1>2. /\ running' = Head(queue[n]) /\ queue'[n] = Tail(queue[n])
        /\ \A m \in Names \ {n} : queue'[m] = queue[m]
        /\ running = None /\ dropped' = dropped
    BY DEF RequestInv, TypeOK, Start, admin
  <1>3. running' \in Requests /\ Range(queue[n]) = Range(queue'[n]) \cup {running'}
    BY <1>1, <1>2, RangeTail
  <1>4. running' # None
    BY <1>3, ProxyAssumption DEF Requests
  <1>5. Sorted(queue'[n]) /\ \A q \in Range(queue'[n]) : Before(running', q)
    BY <1>1, <1>2, SortedTail DEF RequestInv, Order
  <1>6. \A m \in Names : /\ Sorted(queue'[m])
                         /\ \A x \in Range(queue'[m]) : TenantOf[x[1]] = m
    <2>1. \A m \in Names : /\ Sorted(queue[m])
                           /\ \A x \in Range(queue[m]) : TenantOf[x[1]] = m
      BY DEF RequestInv, Order
    <2> QED
      BY <1>2, <1>3, <1>5, <2>1
  <1>7. Queued = Queued' \cup {running'}
    BY <1>2, <1>3, QueuedMember, QueuedMemberNext
  <1>8. ASSUME NEW q \in Queued' PROVE Before(running', q)
    <2>1. PICK m \in Names : q \in Range(queue'[m])
      BY QueuedMemberNext
    <2>2. TenantOf[q[1]] = m /\ TenantOf[running'[1]] = n
      BY <1>3, <1>6, <2>1 DEF RequestInv, Order
    <2> QED
      BY <1>5, <2>1, <2>2 DEF Before
  <1>9. running' \notin Queued'
    <2>1. running'[2] \in Nat
      BY <1>3 DEF Requests
    <2>2. ~Before(running', running')
      BY <2>1 DEF Before
    <2> QED
      BY <1>8, <2>2
  <1>10. Pending' = Pending
    <2>1. Pending = Queued \cup Range(dropped)
      BY <1>2 DEF Pending, Queued
    <2>2. Pending' = Queued' \cup Range(dropped) \cup {running'}
      BY <1>2, <1>4 DEF Pending, Queued
    <2> QED
      BY <1>7, <2>1, <2>2
  <1> QED
    BY <1>2, <1>3, <1>4, <1>6, <1>7, <1>8, <1>9, <1>10

LEMMA UnregisterEffect ==
    ASSUME RequestInv, NEW n \in Names, Unregister(n)
    PROVE  /\ dropped = <<>> /\ dropped' = queue[n] /\ queue'[n] = <<>>
           /\ \A m \in Names \ {n} : queue'[m] = queue[m]
           /\ Queued = Queued' \cup Range(dropped')
           /\ \A q \in Queued' : TenantOf[q[1]] # n
           /\ Range(dropped) = {} /\ Pending' = Pending /\ running' = running
  <1>1. dropped = <<>>
    BY DEF RequestInv, Order, Unregister, Command, Transition
  <1>2. /\ dropped' = queue[n] /\ queue'[n] = <<>> /\ running' = running
        /\ \A m \in Names \ {n} : queue'[m] = queue[m]
    BY DEF RequestInv, TypeOK, Unregister, work
  <1>3. Range(<<>>) = {}
    BY DEF Range
  <1>4. Queued = Queued' \cup Range(dropped')
    BY <1>2, <1>3, QueuedMember, QueuedMemberNext
  <1>5. \A q \in Queued' : TenantOf[q[1]] # n
    <2>1. ASSUME NEW q \in Queued' PROVE TenantOf[q[1]] # n
      <3>1. PICK m \in Names : q \in Range(queue'[m])
        BY QueuedMemberNext
      <3>2. m # n /\ q \in Range(queue[m])
        BY <1>2, <1>3, <3>1
      <3> QED
        BY <3>2 DEF RequestInv, Order
    <2> QED
      BY <2>1
  <1>6. Pending' = Pending
    BY <1>1, <1>2, <1>3, <1>4 DEF Pending, Queued
  <1> QED
    BY <1>1, <1>2, <1>3, <1>4, <1>5, <1>6

LEMMA RefuseEffect ==
    ASSUME RequestInv, Refuse
    PROVE  LET r == Head(dropped)
           IN  /\ r \in Requests /\ Range(dropped) = Range(dropped') \cup {r}
               /\ Sorted(dropped') /\ r \notin Range(dropped') /\ r \notin Active
               /\ Pending' = Pending \ {r} /\ Queued' = Queued /\ Active' = Active
  <1> DEFINE r == Head(dropped)
  <1>1. dropped \in Seq(Requests) /\ dropped # <<>> /\ dropped' = Tail(dropped)
    BY DEF RequestInv, TypeOK, Refuse
  <1>2. r \in Requests /\ Range(dropped) = Range(dropped') \cup {r}
    BY <1>1, RangeTail
  <1>3. Sorted(dropped') /\ \A y \in Range(dropped') : Before(r, y)
    BY <1>1, SortedTail DEF RequestInv, Order
  <1>4. ~Before(r, r)
    <2>1. r[2] \in Nat
      BY <1>2 DEF Requests
    <2> QED
      BY <2>1 DEF Before
  <1>5. r \notin Range(dropped') /\ r \notin Queued /\ r # running
    <2>1. r \in Range(dropped)
      BY <1>2
    <2> HIDE DEF r
    <2> QED
      BY <1>3, <1>4, <2>1 DEF RequestInv, Order
  <1>6. r \notin Active
    BY <1>5 DEF Active
  <1>7. queue' = queue /\ running' = running
    BY DEF Refuse, tenants
  <1>8. Queued' = Queued /\ Active' = Active
    BY <1>7 DEF Queued, Active
  <1>9. Pending = Active \cup Range(dropped) /\ Pending' = Active' \cup Range(dropped')
    BY DEF Pending, Active, Queued
  <1> HIDE DEF r
  <1>10. Pending' = Pending \ {r}
    BY <1>2, <1>5, <1>6, <1>8, <1>9
  <1> QED
    BY <1>2, <1>3, <1>5, <1>6, <1>8, <1>10 DEF r

\* The end of a run, with or without a result.
LEMMA CompleteEffect ==
    ASSUME RequestInv, Complete
    PROVE  /\ running \in Requests /\ running \notin Queued
           /\ running' = None /\ Queued' = Queued /\ Active' = Queued
           /\ Pending' = Pending \ {running} /\ dropped' = dropped
  <1>1. running \in Requests /\ running # None /\ running' = None
    BY DEF RequestInv, TypeOK, Complete, Finish, RunFails
  <1>2. queue' = queue /\ dropped' = dropped
    BY DEF Complete, Finish, RunFails, tenants, admin
  <1>3. running \notin Queued
    <2>1. running[2] \in Nat
      BY <1>1 DEF Requests
    <2>2. ~Before(running, running)
      BY <2>1 DEF Before
    <2> QED
      BY <1>1, <2>2 DEF RequestInv, Order
  <1>4. running \notin Range(dropped)
    BY DEF RequestInv, Order
  <1>5. Queued' = Queued /\ Active = Queued \cup {running} /\ Active' = Queued
    BY <1>1, <1>2 DEF Active, Queued
  <1>6. Pending = Active \cup Range(dropped) /\ Pending' = Active' \cup Range(dropped)
    BY <1>2 DEF Pending, Active, Queued
  <1> QED
    BY <1>1, <1>2, <1>3, <1>4, <1>5, <1>6

-----------------------------------------------------------------------------
(* Requests are in one place and in order *)

LEMMA ReplyNumbers ==
    ASSUME TypeOK
    PROVE  \A c \in Conns : \A m \in Range(replies[c]) : m[1] \in Nat
  <1>1. \A c \in Conns : replies[c] \in Seq((1 .. MaxRequests) \X {"result", "error"})
    BY DEF TypeOK
  <1> QED
    BY <1>1 DEF Range

LEMMA RequestNumbers == \A r \in Requests : r[1] \in Conns /\ r[2] \in Nat
  BY DEF Requests

\* No request is before itself.
LEMMA NotBeforeItself == \A r \in Requests : ~Before(r, r)
  BY RequestNumbers DEF Before

LEMMA SubmitStep ==
    ASSUME RequestInv, NEW c \in Conns, Submit(c)
    PROVE  Numbers' /\ Order' /\ Results'
  <1> DEFINE r == <<c, sent[c] + 1>>
  <1>1. r \in Requests /\ r \notin Pending /\ Queued' = Queued \cup {r}
    BY SubmitEffect
  <1>2. /\ running' = running /\ dropped' = dropped /\ replies' = replies
        /\ sent[c] \in Nat /\ sent'[c] = sent[c] + 1
        /\ \A x \in Conns \ {c} : sent'[x] = sent[x]
    BY DEF RequestInv, TypeOK, Submit, Read, work, admin
  <1>3. Pending' = Pending \cup {r} /\ Active' = Active \cup {r}
    BY <1>1, <1>2 DEF Pending, Active, Queued
  <1>4. r[1] = c /\ r[2] = sent[c] + 1
    OBVIOUS
  <1> HIDE DEF r
  <1>5. \A x \in Conns : sent[x] \in Nat /\ sent'[x] \in Nat /\ sent[x] <= sent'[x]
    <2>1. \A x \in Conns : sent[x] \in Nat
      BY DEF RequestInv, TypeOK
    <2> QED
      BY <1>2, <2>1
  <1>6. \A x \in Pending : x \in Requests /\ x[1] \in Conns /\ x[2] \in Nat
    BY RequestTypes, RequestNumbers DEF RequestInv
  <1>7. \A x \in Pending : Before(x, r)
    BY <1>2, <1>4, <1>6 DEF RequestInv, Numbers, Before
  <1>8. \A x \in Conns : \A m \in Range(replies[x]) : m[1] \in Nat /\ m[1] <= sent[x]
    BY ReplyNumbers DEF RequestInv, Numbers
  <1>9. Numbers'
    <2>1. \A x \in Pending : /\ x[2] <= sent[x[1]]
                             /\ \A m \in Range(replies[x[1]]) : m[1] # x[2]
      BY DEF RequestInv, Numbers
    <2>2. ASSUME NEW x \in Pending'
          PROVE  x[2] <= sent'[x[1]] /\ \A m \in Range(replies[x[1]]) : m[1] # x[2]
      <3>1. CASE x = r
        BY <3>1, <1>2, <1>4, <1>8
      <3>2. CASE x \in Pending
        BY <3>2, <2>1, <1>5, <1>6
      <3> QED
        BY <1>3, <2>2, <3>1, <3>2
    <2>3. \A x \in Conns : \A m \in Range(replies[x]) : m[1] <= sent'[x]
      BY <1>5, <1>8
    <2> QED
      BY <1>2, <2>2, <2>3 DEF Numbers
  <1>10. Order'
    <2>1. \A n \in Names : /\ Sorted(queue'[n])
                           /\ \A x \in Range(queue'[n]) : TenantOf[x[1]] = n
      BY SubmitEffect
    <2>2. Range(dropped) \subseteq Pending /\ (running # None => running \in Pending)
      BY DEF Pending
    <2>3. \A q \in Queued' : /\ \A d \in Range(dropped) : Before(d, q)
                             /\ running # None => Before(running, q)
      BY <1>1, <1>7, <2>2 DEF RequestInv, Order
    <2>4. pc'[Admin] = pc[Admin]
      BY ProxyAssumption DEF RequestInv, TypeOK, Submit, Transition, Threads
    <2>5. Sorted(dropped) /\ running \notin Range(dropped)
      BY DEF RequestInv, Order
    <2>6. dropped # <<>> => pc[Admin] = "refuse"
      BY DEF RequestInv, Order
    <2> QED
      BY <1>2, <2>1, <2>3, <2>4, <2>5, <2>6 DEF Order
  <1>11. Results'
    <2>1. \A m \in Range(replies[c]) : m[1] < r[2]
      BY <1>2, <1>4, <1>8
    <2> QED
      BY <1>2, <1>3, <1>4, <2>1 DEF RequestInv, Results
  <1> QED
    BY <1>9, <1>10, <1>11

LEMMA SubmitFailsStep ==
    ASSUME RequestInv, NEW c \in Conns, SubmitFails(c)
    PROVE  Numbers' /\ Order' /\ Results'
  <1>1. /\ queue' = queue /\ running' = running /\ dropped' = dropped
        /\ replies' = replies
        /\ sent[c] \in Nat /\ sent'[c] = sent[c] + 1
        /\ \A x \in Conns \ {c} : sent'[x] = sent[x]
    BY DEF RequestInv, TypeOK, SubmitFails, Read, tenants, work, admin
  <1>2. \A x \in Conns : sent[x] \in Nat /\ sent'[x] \in Nat /\ sent[x] <= sent'[x]
    <2>1. \A x \in Conns : sent[x] \in Nat
      BY DEF RequestInv, TypeOK
    <2> QED
      BY <1>1, <2>1
  <1>3. Pending' = Pending /\ Queued' = Queued /\ Active' = Active
    BY <1>1 DEF Pending, Active, Queued
  <1>4. pc'[Admin] = pc[Admin]
    BY ProxyAssumption DEF RequestInv, TypeOK, SubmitFails, Transition, Threads
  <1>5. Numbers'
    <2>1. \A x \in Pending : x[1] \in Conns /\ x[2] \in Nat
      BY RequestTypes, RequestNumbers DEF RequestInv
    <2>2. \A x \in Conns : \A m \in Range(replies[x]) : m[1] \in Nat
      BY ReplyNumbers DEF RequestInv
    <2> QED
      BY <1>1, <1>2, <1>3, <2>1, <2>2 DEF RequestInv, Numbers
  <1>6. Order'
    BY <1>1, <1>3, <1>4 DEF RequestInv, Order
  <1>7. Results'
    BY <1>1, <1>3 DEF RequestInv, Results
  <1> QED
    BY <1>5, <1>6, <1>7

LEMMA UnregisterStep ==
    ASSUME RequestInv, NEW n \in Names, Unregister(n)
    PROVE  Numbers' /\ Order' /\ Results'
  <1>1. /\ dropped' = queue[n] /\ queue'[n] = <<>> /\ running' = running
        /\ \A m \in Names \ {n} : queue'[m] = queue[m]
        /\ Queued = Queued' \cup Range(dropped')
        /\ \A q \in Queued' : TenantOf[q[1]] # n
        /\ Pending' = Pending
    BY UnregisterEffect
  <1>2. sent' = sent /\ replies' = replies
    BY DEF Unregister, client
  <1>3. Numbers'
    BY <1>1, <1>2 DEF RequestInv, Numbers
  <1>4. Order'
    <2>1. \A m \in Names : /\ Sorted(queue'[m])
                           /\ \A r \in Range(queue'[m]) : TenantOf[r[1]] = m
      <3>1. Sorted(<<>>) /\ Range(<<>>) = {}
        BY DEF Sorted, Range
      <3> QED
        BY <1>1, <3>1 DEF RequestInv, Order
    <2>2. Sorted(dropped')
      BY <1>1 DEF RequestInv, Order
    <2>3. \A q \in Queued', d \in Range(dropped') : Before(d, q)
      BY <1>1 DEF RequestInv, Order, Before
    <2>4. \A q \in Queued' : running # None => Before(running, q)
      BY <1>1 DEF RequestInv, Order
    <2>5. running \notin Range(dropped')
      <3>1. Queued \subseteq Requests
        BY RequestTypes DEF RequestInv
      <3>2. None \notin Requests
        BY ProxyAssumption DEF Requests
      <3> QED
        BY <1>1, <3>1, <3>2, NotBeforeItself DEF RequestInv, Order
    <2>6. pc'[Admin] = "refuse"
      BY DEF RequestInv, TypeOK, Unregister, Command, Transition, Threads
    <2> QED
      BY <1>1, <2>1, <2>2, <2>3, <2>4, <2>5, <2>6 DEF Order
  <1>5. Results'
    <2>1. Active' \subseteq Active
      BY <1>1 DEF Active
    <2> QED
      BY <1>2, <2>1 DEF RequestInv, Results
  <1> QED
    BY <1>3, <1>4, <1>5

LEMMA StartStep ==
    ASSUME RequestInv, NEW n \in Names, Start(n)
    PROVE  Numbers' /\ Order' /\ Results'
  <1>1. /\ running' \in Requests /\ running' # None
        /\ Queued = Queued' \cup {running'}
        /\ \A q \in Queued' : Before(running', q)
        /\ \A m \in Names : /\ Sorted(queue'[m])
                            /\ \A x \in Range(queue'[m]) : TenantOf[x[1]] = m
        /\ running = None /\ Pending' = Pending
    BY StartEffect
  <1>2. /\ sent' = sent /\ replies' = replies /\ pc' = pc
        /\ dropped' = dropped
    BY DEF Start, admin, client
  <1>3. Numbers'
    BY <1>1, <1>2 DEF RequestInv, Numbers
  <1>4. running' \notin Range(dropped)
    BY <1>1, NotBeforeItself DEF RequestInv, Order
  <1>5. Order'
    <2>1. \A q \in Queued' : \A d \in Range(dropped) : Before(d, q)
      BY <1>1 DEF RequestInv, Order
    <2>2. Sorted(dropped) /\ (dropped # <<>> => pc[Admin] = "refuse")
      BY DEF RequestInv, Order
    <2> QED
      BY <1>1, <1>2, <1>4, <2>1, <2>2 DEF Order
  <1>6. Results'
    <2>1. Active' \subseteq Active
      BY <1>1 DEF Active
    <2> QED
      BY <1>2, <2>1 DEF RequestInv, Results
  <1> QED
    BY <1>3, <1>5, <1>6

\* Answering a request that is not pending any more leaves the numbers right.
LEMMA AnswerNumbers ==
    ASSUME RequestInv, NEW s \in Senders, NEW r \in Pending,
           NEW what \in {"result", "error"}, Reply(s, r, what), Pending' = Pending \ {r}, sent' = sent
    PROVE  Numbers'
  <1>1. \A x \in Pending : x \in Requests /\ x[1] \in Conns /\ x[2] \in Nat
    BY RequestTypes, RequestNumbers DEF RequestInv
  <1>2. /\ \A c \in Conns : c # r[1] => replies'[c] = replies[c]
        /\ \/ replies' = replies
           \/ Range(replies'[r[1]]) = Range(replies[r[1]]) \cup {<<r[2], what>>}
    BY <1>1, ReplyEffect DEF RequestInv
  <1>3. \A c \in Conns : \A m \in Range(replies'[c]) :
            m \in Range(replies[c]) \/ (c = r[1] /\ m = <<r[2], what>>)
    BY <1>2
  <1>4. ASSUME NEW x \in Pending \ {r}, NEW m \in Range(replies'[x[1]])
        PROVE  m[1] # x[2]
    <2>1. CASE m \in Range(replies[x[1]])
      BY <2>1 DEF RequestInv, Numbers
    <2>2. CASE x[1] = r[1] /\ m = <<r[2], what>>
      <3>1. m[1] = r[2]
        BY <2>2
      <3>2. x[2] # r[2]
        BY <1>1, <2>2, SameRequest
      <3> QED
        BY <3>1, <3>2
    <2> QED
      BY <1>1, <1>3, <2>1, <2>2
  <1>5. ASSUME NEW c \in Conns, NEW m \in Range(replies'[c]) PROVE m[1] <= sent[c]
    <2>1. CASE m \in Range(replies[c])
      BY <2>1 DEF RequestInv, Numbers
    <2>2. CASE c = r[1] /\ m = <<r[2], what>>
      <3>1. m[1] = r[2]
        BY <2>2
      <3> QED
        BY <2>2, <3>1 DEF RequestInv, Numbers
    <2> QED
      BY <1>3, <2>1, <2>2
  <1>6. \A x \in Pending : x[2] <= sent[x[1]]
    BY DEF RequestInv, Numbers
  <1> QED
    BY <1>4, <1>5, <1>6 DEF Numbers

LEMMA RefuseStep ==
    ASSUME RequestInv, Refuse
    PROVE  Numbers' /\ Order' /\ Results'
  <1> DEFINE r == Head(dropped)
  <1>1. /\ r \in Requests /\ Range(dropped) = Range(dropped') \cup {r}
        /\ Sorted(dropped')
        /\ Pending' = Pending \ {r} /\ Queued' = Queued /\ Active' = Active
    BY RefuseEffect
  <1>2. sent' = sent /\ queue' = queue /\ running' = running /\ Reply("admin", r, "error")
    BY DEF Refuse, tenants
  <1> HIDE DEF r
  <1>3. r \in Pending
    BY <1>1 DEF Pending
  <1>4. Numbers'
    BY <1>1, <1>2, <1>3, AnswerNumbers DEF Senders
  <1>5. pc' = pc
    BY DEF RequestInv, TypeOK, Refuse, Transition
  <1>6. Order'
    <2>1. pc[Admin] = "refuse"
      BY DEF Refuse, Transition
    <2> QED
      BY <1>1, <1>2, <1>5, <2>1 DEF RequestInv, Order
  <1>7. Results'
    <2>1. \A x \in Active : x[1] \in Conns
      BY RequestTypes, RequestNumbers DEF RequestInv
    <2>2. \A c \in Conns : \A m \in Range(replies'[c]) :
              m \in Range(replies[c]) \/ m = <<r[2], "error">>
      BY <1>1, <1>2, ReplyEffect DEF RequestInv, Senders
    <2>3. <<r[2], "error">>[2] # "result"
      OBVIOUS
    <2> QED
      BY <1>1, <2>1, <2>2, <2>3 DEF RequestInv, Results
  <1> QED
    BY <1>4, <1>6, <1>7

LEMMA CompleteStep ==
    ASSUME RequestInv, Complete
    PROVE  Numbers' /\ Order' /\ Results'
  <1>1. /\ running \in Requests /\ running \notin Queued
        /\ running' = None /\ Queued' = Queued /\ Active' = Queued
        /\ Pending' = Pending \ {running} /\ dropped' = dropped
    BY CompleteEffect
  <1>2. /\ sent' = sent /\ queue' = queue /\ pc' = pc
        /\ replies' = replies \/ Reply("scheduler", running, "result")
    BY DEF Complete, Finish, RunFails, tenants, client
  <1>3. running # None
    BY DEF Complete, Finish, RunFails
  <1>4. Numbers'
    <2>1. CASE replies' = replies
      BY <1>1, <1>2, <2>1 DEF RequestInv, Numbers
    <2>2. CASE Reply("scheduler", running, "result")
      <3>1. running \in Pending
        BY <1>3 DEF Pending
      <3> QED
        BY <1>1, <1>2, <2>2, <3>1, AnswerNumbers DEF Senders
    <2> QED
      BY <1>2, <2>1, <2>2
  <1>5. Order'
    <2>1. Range(dropped) \subseteq Requests /\ None \notin Requests
      BY RequestTypes, ProxyAssumption DEF RequestInv, Requests
    <2> QED
      BY <1>1, <1>2, <2>1 DEF RequestInv, Order
  <1>6. Results'
    <2>1. \A x \in Active : x[1] \in Conns
      BY RequestTypes, RequestNumbers DEF RequestInv
    <2>2. Queued \subseteq Active
      BY DEF Active
    <2>3. \A c \in Conns : \A m \in Range(replies'[c]) :
              m \in Range(replies[c]) \/ (c = running[1] /\ m = <<running[2], "result">>)
      BY <1>1, <1>2, ReplyEffect DEF RequestInv, Senders
    <2>4. \A x \in Queued : x[1] = running[1] => running[2] < x[2]
      BY <1>3 DEF RequestInv, Order, Before
    <2>5. <<running[2], "result">>[1] = running[2]
      OBVIOUS
    <2> QED
      BY <1>1, <2>1, <2>2, <2>3, <2>4, <2>5 DEF RequestInv, Results
  <1> QED
    BY <1>4, <1>5, <1>6

LEMMA RequestStep == RequestInv /\ [Next]_vars => RequestInv'
  <1> SUFFICES ASSUME RequestInv, [Next]_vars PROVE RequestInv'
    OBVIOUS
  <1>1. TypeOK'
    BY TypeStep DEF RequestInv
  <1>2. CASE Work
    BY <1>1, <1>2, SubmitStep, SubmitFailsStep, UnregisterStep, StartStep, RefuseStep,
       CompleteStep
    DEF RequestInv, Work, Complete
  <1>3. CASE ~Work
    <2>1. UNCHANGED requests /\ (dropped # <<>> => pc'[Admin] = "refuse")
      BY <1>3, OtherSteps DEF RequestInv
    <2>2. /\ queue' = queue /\ dropped' = dropped /\ running' = running
          /\ sent' = sent /\ replies' = replies
      BY <2>1 DEF requests
    <2>3. Pending' = Pending /\ Queued' = Queued /\ Active' = Active
      BY <2>2 DEF Pending, Active, Queued
    <2> QED
      BY <1>1, <2>1, <2>2, <2>3 DEF RequestInv, Numbers, Order, Results
  <1> QED
    BY <1>2, <1>3

LEMMA RequestInvariant == Spec => []RequestInv
  <1>1. Init /\ TypeOK => RequestInv
    <2> SUFFICES ASSUME Init, TypeOK PROVE Numbers /\ Order /\ Results
      BY DEF RequestInv
    <2>1. Range(<<>>) = {} /\ Sorted(<<>>)
      BY DEF Range, Sorted
    <2>2. Queued = {} /\ Active = {} /\ Pending = {} /\ Range(dropped) = {}
      BY <2>1 DEF Init, Queued, Active, Pending
    <2>3. \A c \in Conns : Range(replies[c]) = {}
      BY <2>1 DEF Init
    <2>4. \A n \in Names : Sorted(queue[n]) /\ Range(queue[n]) = {}
      BY <2>1 DEF Init
    <2>5. Sorted(dropped) /\ dropped = <<>>
      BY <2>1 DEF Init
    <2> QED
      BY <2>2, <2>3, <2>4, <2>5 DEF Numbers, Order, Results
  <1> QED
    BY <1>1, RequestStep, TypeCorrect, PTL DEF Spec

-----------------------------------------------------------------------------
(* The proxy implements RequestService *)

LEMMA StatusOf ==
    ASSUME NEW x \in Requests
    PROVE  /\ Status[x] = IF x[2] > sent[x[1]] THEN "new"
                          ELSE IF x \in Pending THEN "pending" ELSE Received(x)
           /\ Status'[x] = IF x[2] > sent'[x[1]] THEN "new"
                           ELSE IF x \in Pending' THEN "pending" ELSE Received(x)'
           /\ Received(x) \in {"result", "error", "lost"}
  BY DEF Status, Received

\* A step that concerns one request.
LEMMA OneSettled ==
    ASSUME NEW r \in Requests, NEW to, Status'[r] = to,
           \A x \in Requests \ {r} : Status'[x] = Status[x]
    PROVE  Status' = [Status EXCEPT ![r] = to]
  <1>1. /\ Status = [x \in Requests |-> Status[x]]
        /\ Status' = [x \in Requests |-> Status'[x]]
    BY DEF Status
  <1> QED
    BY <1>1

LEMMA NothingSettled ==
    ASSUME Pending' = Pending, sent' = sent, replies' = replies
    PROVE  Status' = Status
  BY DEF Status, Received

\* A request without an answer.
LEMMA NotReceived ==
    ASSUME NEW r \in Requests, \A m \in Range(replies[r[1]]) : m[1] # r[2]
    PROVE  /\ Received(r) = "lost"
           /\ \A what : <<r[2], what>> \notin Range(replies[r[1]])
  <1>1. \A what : <<r[2], what>>[1] = r[2]
    OBVIOUS
  <1>2. \A what : <<r[2], what>> \notin Range(replies[r[1]])
    BY <1>1
  <1> QED
    BY <1>2 DEF Received

\* The next request of a connection.
LEMMA ReadStatus ==
    ASSUME RequestInv, NEW c \in Conns, NEW r, r = <<c, sent[c] + 1>>,
           Read(c), replies' = replies,
           Pending' \subseteq Pending \cup {r}, Pending \subseteq Pending'
    PROVE  /\ r \in Requests /\ Status[r] = "new" /\ Service!Taken(r)
           /\ Status' = [Status EXCEPT ![r] =
                             IF r \in Pending' THEN "pending" ELSE "lost"]
  <1>1. /\ \A x \in Conns : sent[x] \in Nat
        /\ sent'[c] = sent[c] + 1 /\ \A x \in Conns \ {c} : sent'[x] = sent[x]
        /\ sent[c] + 1 \in 1 .. MaxRequests
    BY ProxyAssumption DEF RequestInv, TypeOK, Read
  <1>2. r \in Requests /\ r[1] = c /\ r[2] = sent[c] + 1
    BY <1>1 DEF Requests
  <1>3. \A m \in Range(replies[c]) : m[1] # r[2]
    <2>1. \A m \in Range(replies[c]) : m[1] \in Nat /\ m[1] <= sent[c]
      BY ReplyNumbers DEF RequestInv, Numbers
    <2> QED
      BY <1>1, <1>2, <2>1
  <1>4. Service!Taken(r)
    <2> SUFFICES ASSUME NEW k \in 1 .. r[2] - 1 PROVE Status[<<r[1], k>>] # "new"
      BY DEF Service!Taken
    <2>1. k \in 1 .. MaxRequests /\ k <= sent[c]
      BY <1>1, <1>2, ProxyAssumption
    <2> DEFINE x == <<c, k>>
    <2>2. x \in Requests /\ x[1] = c /\ x[2] = k
      BY <2>1 DEF Requests
    <2>3. ~(x[2] > sent[x[1]])
      BY <1>1, <2>1, <2>2
    <2> HIDE DEF x
    <2>4. Status[x] # "new"
      BY <2>2, <2>3, StatusOf
    <2> QED
      BY <1>2, <2>4 DEF x
  <1>5. Status[r] = "new"
    BY <1>1, <1>2, StatusOf
  <1>6. Received(r)' = "lost"
    <2>1. Received(r) = "lost"
      BY <1>2, <1>3, NotReceived
    <2> QED
      BY <2>1 DEF Received
  <1>7. Status'[r] = IF r \in Pending' THEN "pending" ELSE "lost"
    BY <1>1, <1>2, <1>6, StatusOf
  <1>8. ASSUME NEW x \in Requests \ {r} PROVE Status'[x] = Status[x]
    <2>1. x[1] \in Conns /\ x[2] \in Nat
      BY RequestNumbers
    <2>2. x[2] > sent'[x[1]] <=> x[2] > sent[x[1]]
      BY <1>1, <1>2, <2>1, SameRequest
    <2>3. x \in Pending' <=> x \in Pending
      OBVIOUS
    <2>4. Received(x)' = Received(x)
      BY DEF Received
    <2> QED
      BY <2>2, <2>3, <2>4, StatusOf
  <1>9. Status' = [Status EXCEPT ![r] = IF r \in Pending' THEN "pending" ELSE "lost"]
    BY <1>2, <1>7, <1>8, OneSettled
  <1> QED
    BY <1>2, <1>4, <1>5, <1>9

\* A pending request is answered, or found to have nobody to answer to.
LEMMA AnswerStatus ==
    ASSUME RequestInv, NEW s \in Senders, NEW r \in Pending,
           NEW what \in {"result", "error"}, Reply(s, r, what) \/ replies' = replies, Pending' = Pending \ {r}, sent' = sent
    PROVE  /\ r \in Requests /\ Status[r] = "pending"
           /\ \/ Status' = [Status EXCEPT ![r] = what] /\ Reply(s, r, what)
              \/ Status' = [Status EXCEPT ![r] = "lost"]
  <1>1. r \in Requests /\ r[1] \in Conns /\ r[2] \in Nat /\ sent[r[1]] \in Nat
    BY RequestTypes, RequestNumbers DEF RequestInv, TypeOK
  <1>2. /\ r[2] <= sent[r[1]]
        /\ \A m \in Range(replies[r[1]]) : m[1] # r[2]
    BY DEF RequestInv, Numbers
  <1>3. Status[r] = "pending"
    BY <1>1, <1>2, StatusOf
  <1>4. /\ \A c \in Conns : c # r[1] => replies'[c] = replies[c]
        /\ \/ replies' = replies
           \/ /\ Range(replies'[r[1]]) = Range(replies[r[1]]) \cup {<<r[2], what>>}
              /\ Reply(s, r, what)
    BY <1>1, ReplyEffect DEF RequestInv
  <1>5. ASSUME NEW x \in Requests \ {r} PROVE Status'[x] = Status[x]
    <2>1. x[1] \in Conns
      BY RequestNumbers
    <2>2. \A w : <<x[2], w>> \in Range(replies'[x[1]]) <=>
                 <<x[2], w>> \in Range(replies[x[1]])
      <3>1. x[1] = r[1] => \A w : <<x[2], w>> # <<r[2], what>>
        BY <1>1, SameRequest
      <3> QED
        BY <1>4, <2>1, <3>1
    <2>3. Received(x)' = Received(x)
      BY <2>2 DEF Received
    <2> QED
      BY <2>3, StatusOf
  <1>6. ~(r[2] > sent'[r[1]]) /\ r \notin Pending'
    BY <1>1, <1>2
  <1>7. Status'[r] = Received(r)'
    BY <1>1, <1>6, StatusOf
  <1>8. \A w : <<r[2], w>> \notin Range(replies[r[1]])
    BY <1>1, <1>2, NotReceived
  <1>9. CASE replies' = replies
    <2>1. Received(r)' = "lost"
      BY <1>8, <1>9 DEF Received
    <2> QED
      BY <1>1, <1>3, <1>5, <1>7, <2>1, OneSettled
  <1>10. CASE /\ Range(replies'[r[1]]) = Range(replies[r[1]]) \cup {<<r[2], what>>}
              /\ Reply(s, r, what)
    <2>1. \A w : <<r[2], w>> \in Range(replies'[r[1]]) <=> w = what
      BY <1>8, <1>10
    <2>2. Received(r)' = what
      BY <2>1 DEF Received
    <2> QED
      BY <1>1, <1>3, <1>5, <1>7, <1>10, <2>2, OneSettled
  <1> QED
    BY <1>4, <1>9, <1>10

LEMMA ServiceStep == RequestInv /\ [Next]_vars => [Service!Next]_Status
  <1> SUFFICES ASSUME RequestInv, [Next]_vars PROVE Service!Next \/ Status' = Status
    OBVIOUS
  <1>0. Requests = Service!Requests
    BY DEF Requests, Service!Requests
  <1>1. ASSUME NEW c \in Conns, Submit(c) PROVE Service!Next
    <2> DEFINE r == <<c, sent[c] + 1>>
    <2>1. Queued' = Queued \cup {r} /\ dropped' = dropped /\ running' = running
      BY <1>1, SubmitEffect DEF Submit, work, admin
    <2>2. Pending' = Pending \cup {r}
      BY <2>1 DEF Pending, Queued
    <2>3. Read(c) /\ replies' = replies
      BY <1>1 DEF Submit
    <2>4. /\ r \in Requests /\ Status[r] = "new" /\ Service!Taken(r)
          /\ Status' = [Status EXCEPT ![r] = IF r \in Pending' THEN "pending" ELSE "lost"]
      BY <2>2, <2>3, ReadStatus
    <2>5. Service!Accept(r)
      BY <2>2, <2>4 DEF Service!Accept, Service!Settle
    <2> QED
      BY <1>0, <2>4, <2>5 DEF Service!Next
  <1>2. ASSUME NEW c \in Conns, SubmitFails(c) PROVE Service!Next
    <2> DEFINE r == <<c, sent[c] + 1>>
    <2>1. queue' = queue /\ dropped' = dropped /\ running' = running
      BY <1>2 DEF SubmitFails, tenants, work, admin
    <2>2. Pending' = Pending
      BY <2>1 DEF Pending
    <2>3. Read(c) /\ replies' = replies
      BY <1>2 DEF SubmitFails
    <2>4. /\ r \in Requests /\ Status[r] = "new" /\ Service!Taken(r)
          /\ Status' = [Status EXCEPT ![r] = IF r \in Pending' THEN "pending" ELSE "lost"]
      BY <2>2, <2>3, ReadStatus
    <2>5. r \notin Pending
      <3>1. sent[c] \in Nat /\ r[1] = c /\ r[2] = sent[c] + 1
        BY DEF RequestInv, TypeOK
      <3> HIDE DEF r
      <3> QED
        BY <3>1 DEF RequestInv, Numbers
    <2>6. Service!Reject(r)
      BY <2>2, <2>4, <2>5 DEF Service!Reject, Service!Settle
    <2> QED
      BY <1>0, <2>4, <2>6 DEF Service!Next
  <1>3. ASSUME NEW n \in Names, Unregister(n) \/ Start(n) PROVE Status' = Status
    <2>1. Pending' = Pending
      BY <1>3, UnregisterEffect, StartEffect
    <2>2. sent' = sent /\ replies' = replies
      BY <1>3 DEF Unregister, Start, client
    <2> QED
      BY <2>1, <2>2, NothingSettled
  <1>4. CASE Refuse
    <2> DEFINE r == Head(dropped)
    <2>1. r \in Pending /\ Pending' = Pending \ {r}
      BY <1>4, RefuseEffect, RequestTypes DEF RequestInv
    <2>2. sent' = sent /\ Reply("admin", r, "error")
      BY <1>4 DEF Refuse
    <2> HIDE DEF r
    <2>3. /\ r \in Requests /\ Status[r] = "pending"
          /\ \/ Status' = [Status EXCEPT ![r] = "error"]
             \/ Status' = [Status EXCEPT ![r] = "lost"]
      BY <2>1, <2>2, AnswerStatus DEF Senders
    <2>4. Service!Refuse(r) \/ Service!Lose(r)
      BY <2>3 DEF Service!Refuse, Service!Lose, Service!Settle
    <2> QED
      BY <1>0, <2>3, <2>4 DEF Service!Next
  <1>5. CASE Finish \/ RunFails
    <2> DEFINE r == running
    <2>1. r \in Requests /\ r # None /\ Pending' = Pending \ {r}
      BY <1>5, CompleteEffect DEF Complete, Finish, RunFails
    <2>2. r \in Active /\ r \in Pending
      BY <2>1 DEF Active, Pending
    <2>3. sent' = sent /\ (Reply("scheduler", r, "result") \/ replies' = replies)
      BY <1>5 DEF Finish, RunFails, client
    <2>4. r[1] \in Conns /\ r[2] \in Nat
      BY <2>1, RequestNumbers
    <2> HIDE DEF r
    <2>5. /\ Status[r] = "pending"
          /\ \/ Status' = [Status EXCEPT ![r] = "result"]
             \/ Status' = [Status EXCEPT ![r] = "lost"]
      BY <2>2, <2>3, <2>1, AnswerStatus DEF Senders
    <2>6. \A k \in r[2] + 1 .. MaxRequests : Status[<<r[1], k>>] # "result"
      <3> SUFFICES ASSUME NEW k \in r[2] + 1 .. MaxRequests
                   PROVE  Status[<<r[1], k>>] # "result"
        OBVIOUS
      <3> DEFINE x == <<r[1], k>>
      <3>1. x \in Requests /\ x[1] = r[1] /\ x[2] = k /\ ~(k < r[2])
        BY <2>4, ProxyAssumption DEF Requests
      <3>2. <<k, "result">> \notin Range(replies[r[1]])
        <4>1. <<k, "result">>[1] = k /\ <<k, "result">>[2] = "result"
          OBVIOUS
        <4> QED
          BY <2>2, <3>1, <4>1 DEF RequestInv, Results
      <3> HIDE DEF x
      <3>3. Received(x) # "result"
        BY <3>1, <3>2 DEF Received
      <3>4. Status[x] # "result"
        BY <3>1, <3>3, StatusOf
      <3> QED
        BY <3>4 DEF x
    <2>7. Service!Answer(r) \/ Service!Lose(r)
      BY <2>5, <2>6 DEF Service!Answer, Service!Lose, Service!Settle
    <2> QED
      BY <1>0, <2>1, <2>7 DEF Service!Next
  <1>6. CASE ~Work
    <2>1. UNCHANGED requests
      BY <1>6, OtherSteps DEF RequestInv
    <2>2. Pending' = Pending /\ sent' = sent /\ replies' = replies
      BY <2>1 DEF requests, Pending
    <2> QED
      BY <2>2, NothingSettled
  <1> QED
    BY <1>1, <1>2, <1>3, <1>4, <1>5, <1>6 DEF Work

\* The proxy implements RequestService: whatever its threads do, a request is
\* taken once, in order, and settled at most once, and the results of a
\* connection come in the order of its requests.
THEOREM ServiceImplemented == Spec => ImplementsService
  <1>1. Init => Service!Init
    <2> SUFFICES ASSUME Init PROVE Status = [r \in Requests |-> "new"]
      BY DEF Service!Init, Service!Requests, Requests
    <2>1. \A r \in Requests : r[2] > sent[r[1]]
      BY DEF Init, Requests
    <2> QED
      BY <2>1 DEF Status
  <1> QED
    BY <1>1, ServiceStep, RequestInvariant, PTL DEF Spec, ImplementsService, Service!Spec

-----------------------------------------------------------------------------
(* No request is forgotten *)

\* An answer is appended to those of the connection, if somebody is there.
LEMMA ReplySent ==
    ASSUME TypeOK, NEW s \in Senders, NEW r \in Requests,
           NEW what \in {"result", "error"}, Reply(s, r, what)
    PROVE  /\ \A c \in Conns : c # r[1] => replies'[c] = replies[c]
           /\ IF NoPeer(r[1])
              THEN replies' = replies
              ELSE replies'[r[1]] = Append(replies[r[1]], <<r[2], what>>)
  <1>1. r[1] \in Conns
    BY DEF Requests
  <1> QED
    BY <1>1 DEF TypeOK, Reply

\* Appending an answer adds one to those of its request and none to the others.
LEMMA AnswerAdded ==
    ASSUME TypeOK, NEW r \in Requests, NEW what \in {"result", "error"},
           replies'[r[1]] = Append(replies[r[1]], <<r[2], what>>),
           NEW k \in Nat
    PROVE  AnswerOf(r[1], k)' = AnswerOf(r[1], k) \cup
               (IF k = r[2] THEN {Len(replies[r[1]]) + 1} ELSE {})
  <1> DEFINE q == replies[r[1]]
             x == <<r[2], what>>
  <1>1. /\ q \in Seq((1 .. MaxRequests) \X {"result", "error"})
        /\ x \in (1 .. MaxRequests) \X {"result", "error"} /\ x[1] = r[2]
    BY DEF TypeOK, Requests
  <1> HIDE DEF q, x
  <1>2. /\ Len(Append(q, x)) = Len(q) + 1 /\ Len(q) \in Nat
        /\ \A i \in 1 .. Len(q) : Append(q, x)[i] = q[i]
        /\ Append(q, x)[Len(q) + 1] = x
    BY <1>1
  <1>3. 1 .. Len(q) + 1 = (1 .. Len(q)) \cup {Len(q) + 1}
    BY <1>2
  <1>4. AnswerOf(r[1], k) = {i \in 1 .. Len(q) : q[i][1] = k}
    BY DEF AnswerOf, q
  <1>5. AnswerOf(r[1], k)' =
            {i \in 1 .. Len(Append(q, x)) : Append(q, x)[i][1] = k}
    BY DEF AnswerOf, q, x
  <1>6. AnswerOf(r[1], k)' =
            {i \in (1 .. Len(q)) \cup {Len(q) + 1} : Append(q, x)[i][1] = k}
    BY <1>2, <1>3, <1>5
  <1>7. Len(q) + 1 \notin 1 .. Len(q)
    BY <1>2
  <1> QED
    BY <1>1, <1>2, <1>4, <1>6, <1>7 DEF q

\* A request that is not among the answers has none.
LEMMA NoAnswer ==
    ASSUME TypeOK, NEW c \in Conns, NEW k \in Nat,
           \A m \in Range(replies[c]) : m[1] # k
    PROVE  AnswerOf(c, k) = {}
  <1>1. DOMAIN replies[c] = 1 .. Len(replies[c])
    BY DEF TypeOK
  <1> QED
    BY <1>1 DEF AnswerOf, Range

\* A connection that is over stays so, and nothing is read from it any more once
\* its thread is dead.
LEMMA OverIsOver ==
    ASSUME TypeOK, [Next]_vars, NEW c \in Conns
    PROVE  /\ gone[c] => gone'[c]
           /\ pc[c] = "closed" => pc'[c] = "closed"
           /\ pc[c] = "dead" => pc'[c] = "dead" /\ sent'[c] = sent[c]
           /\ failed \subseteq failed'
  <1> USE DEF Transition, Return, Threads, tenants, tables, work, admin, client
  <1> DEFINE Over == /\ gone[c] => gone'[c]
                     /\ pc[c] = "closed" => pc'[c] = "closed"
                     /\ pc[c] = "dead" => pc'[c] = "dead" /\ sent'[c] = sent[c]
                     /\ failed \subseteq failed'
  <1>0. /\ pc \in [Threads -> {"idle", "serve"} \cup Ensuring \cup Dropping \cup NoLife]
        /\ gone \in [Conns -> BOOLEAN] /\ sent \in [Conns -> 0 .. MaxRequests]
        /\ c \in Threads /\ c # Admin
    BY ProxyAssumption DEF TypeOK
  <1>1. ASSUME NEW t \in Threads, Ensure(t) PROVE Over
    BY <1>0, <1>1 DEF Ensure, InLogs, NotInLogs, Register, OpenLog, Unlink, Bind,
                      BindFails, Publish
  <1>2. ASSUME NEW d \in Conns, Hello(d) \/ Leave(d) \/ Hangup(d) PROVE Over
    BY <1>0, <1>2 DEF Hello, Leave, Hangup
  <1>3. ASSUME NEW d \in Conns, Submit(d) \/ SubmitFails(d) PROVE Over
    BY <1>0, <1>3 DEF Submit, SubmitFails, Read
  <1>4. ASSUME NEW s \in Senders, Block(s) \/ Unblock(s) PROVE Over
    BY <1>0, <1>4 DEF Block, Unblock
  <1>5. ASSUME NEW n \in Names, AdminRegister(n) \/ Unregister(n) PROVE Over
    BY <1>0, <1>5 DEF AdminRegister, Unregister, Command
  <1>6. CASE Drop
    BY <1>0, <1>6 DEF Drop, Refuse, CloseCtrl, RemovePath, Forget
  <1>7. CASE Schedule \/ Complete
    BY <1>0, <1>7 DEF Schedule, Start, Complete, Finish, RunFails
  <1>8. CASE UNCHANGED vars
    BY <1>8 DEF vars
  <1> QED
    BY <1>1, <1>2, <1>3, <1>4, <1>5, <1>6, <1>7, <1>8 DEF Next, Connection, Rest

\* What NoneForgotten says of one request.
Kept(c, k) ==
    /\ \A i, j \in AnswerOf(c, k) : i = j
    /\ \/ gone[c] \/ pc[c] = "closed"
       \/ <<c, k>> \in Pending \/ AnswerOf(c, k) # {} \/ Excused(c, k)

\* Nothing happens to the answers and the pending requests.
LEMMA KeptWhenQuiet ==
    ASSUME TypeOK, [Next]_vars, NEW c \in Conns, NEW k \in Nat, Kept(c, k),
           replies'[c] = replies[c], <<c, k>> \in Pending => <<c, k>> \in Pending'
    PROVE  Kept(c, k)'
  <1>1. AnswerOf(c, k)' = AnswerOf(c, k)
    BY DEF AnswerOf
  <1> QED
    BY <1>1, OverIsOver DEF Kept, Excused

\* A pending request is taken out by the answer to it, or finds its client gone.
LEMMA KeptWhenAnswered ==
    ASSUME RequestInv, [Next]_vars, NEW s \in Senders, NEW r \in Pending,
           NEW what \in {"result", "error"}, Reply(s, r, what),
           Pending' = Pending \ {r}, NEW c \in Conns, NEW k \in Nat, Kept(c, k)
    PROVE  Kept(c, k)'
  <1>1. r \in Requests /\ r[1] \in Conns /\ r[2] \in Nat
    BY RequestTypes, RequestNumbers DEF RequestInv
  <1>2. CASE c # r[1]
    <2>1. replies'[c] = replies[c]
      BY <1>1, <1>2, ReplySent DEF RequestInv
    <2>2. <<c, k>> # r
      BY <1>2
    <2> QED
      BY <2>1, <2>2, KeptWhenQuiet DEF RequestInv
  <1>3. CASE c = r[1] /\ NoPeer(c)
    <2>1. AnswerOf(c, k)' = AnswerOf(c, k)
      BY <1>1, <1>3, ReplySent DEF RequestInv, AnswerOf
    <2> QED
      BY <1>3, <2>1, OverIsOver DEF RequestInv, Kept, NoPeer
  <1>4. CASE c = r[1] /\ ~NoPeer(c)
    <2>1. replies'[c] = Append(replies[c], <<r[2], what>>)
      BY <1>1, <1>4, ReplySent DEF RequestInv
    <2>2. AnswerOf(c, k)' = AnswerOf(c, k) \cup
              (IF k = r[2] THEN {Len(replies[c]) + 1} ELSE {})
      BY <1>1, <1>4, <2>1, AnswerAdded DEF RequestInv
    <2>3. CASE k = r[2]
      <3>1. AnswerOf(c, k) = {}
        BY <1>1, <1>4, <2>3, NoAnswer DEF RequestInv, Numbers
      <3> QED
        BY <2>2, <2>3, <3>1 DEF Kept
    <2>4. CASE k # r[2]
      <3>1. <<c, k>> # r
        BY <2>4
      <3> QED
        BY <2>2, <2>4, <3>1, OverIsOver DEF RequestInv, Kept, Excused
    <2> QED
      BY <2>3, <2>4
  <1> QED
    BY <1>2, <1>3, <1>4

\* The request that is read has no answer yet.
LEMMA KeptWhenRead ==
    ASSUME RequestInv, NEW c \in Conns, Read(c), replies' = replies,
           NEW k, k = sent[c] + 1, <<c, k>> \in Pending' \/ pc'[c] = "dead"
    PROVE  Kept(c, k)'
  <1>1. sent[c] \in Nat /\ k \in Nat /\ sent'[c] = k
    BY DEF RequestInv, TypeOK, Read
  <1>2. \A m \in Range(replies[c]) : m[1] # k
    BY <1>1, ReplyNumbers DEF RequestInv, Numbers
  <1>3. AnswerOf(c, k) = {}
    BY <1>1, <1>2, NoAnswer DEF RequestInv
  <1>4. AnswerOf(c, k)' = {}
    BY <1>3 DEF AnswerOf
  <1> QED
    BY <1>1, <1>4 DEF Kept, Excused

LEMMA ForgottenStep == RequestInv /\ NoneForgotten /\ [Next]_vars => NoneForgotten'
  <1> SUFFICES ASSUME RequestInv, NoneForgotten, [Next]_vars,
                      NEW c \in Conns, NEW k \in 1 .. sent'[c]
               PROVE  Kept(c, k)'
    BY DEF NoneForgotten, Kept
  <1>0. TypeOK /\ k \in Nat /\ \A n \in 1 .. sent[c] : Kept(c, n)
    BY DEF RequestInv, NoneForgotten, Kept
  <1>1. ASSUME NEW d \in Conns, Submit(d) \/ SubmitFails(d) PROVE Kept(c, k)'
    <2>1. Read(d) /\ replies' = replies
      BY <1>1 DEF Submit, SubmitFails
    <2>2. /\ sent[c] \in Nat
          /\ IF c = d THEN sent'[c] = sent[c] + 1 ELSE sent'[c] = sent[c]
      BY <1>0, <2>1 DEF TypeOK, Read
    <2>3. /\ Pending \subseteq Pending'
          /\ <<d, sent[d] + 1>> \in Pending' \/ pc'[d] = "dead"
      <3>1. CASE Submit(d)
        <4>1. /\ Queued' = Queued \cup {<<d, sent[d] + 1>>}
              /\ dropped' = dropped /\ running' = running
          BY <3>1, SubmitEffect DEF Submit, work, admin
        <4> QED
          BY <4>1 DEF Pending, Queued
      <3>2. CASE SubmitFails(d)
        <4>1. Pending' = Pending
          BY <3>2 DEF SubmitFails, tenants, work, admin, Pending
        <4>2. pc'[d] = "dead"
          BY <1>0, <3>2 DEF SubmitFails, Transition, TypeOK, Threads
        <4> QED
          BY <4>1, <4>2
      <3> QED
        BY <1>1, <3>1, <3>2
    <2>4. CASE k \in 1 .. sent[c]
      BY <1>0, <2>1, <2>3, <2>4, KeptWhenQuiet
    <2>5. CASE c = d /\ k = sent[c] + 1
      BY <2>1, <2>3, <2>5, KeptWhenRead
    <2> QED
      BY <2>2, <2>4, <2>5
  <1>2. ASSUME sent' = sent, replies' = replies, Pending \subseteq Pending'
        PROVE  Kept(c, k)'
    BY <1>0, <1>2, KeptWhenQuiet
  <1>3. ASSUME NEW n \in Names, Unregister(n) \/ Start(n) PROVE Kept(c, k)'
    <2>1. Pending' = Pending
      BY <1>3, UnregisterEffect, StartEffect
    <2>2. sent' = sent /\ replies' = replies
      BY <1>3 DEF Unregister, Start, client
    <2> QED
      BY <1>2, <2>1, <2>2
  <1>4. CASE Refuse
    <2> DEFINE r == Head(dropped)
    <2>1. r \in Pending /\ Pending' = Pending \ {r}
      BY <1>4, RefuseEffect, RequestTypes DEF RequestInv
    <2>2. sent' = sent /\ Reply("admin", r, "error")
      BY <1>4 DEF Refuse
    <2> HIDE DEF r
    <2> QED
      BY <1>0, <2>1, <2>2, KeptWhenAnswered DEF Senders
  <1>5. CASE Finish
    <2> DEFINE r == running
    <2>1. r \in Pending /\ Pending' = Pending \ {r}
      BY <1>5, CompleteEffect DEF Complete, Finish, Pending
    <2>2. sent' = sent /\ Reply("scheduler", r, "result")
      BY <1>5 DEF Finish
    <2> HIDE DEF r
    <2> QED
      BY <1>0, <2>1, <2>2, KeptWhenAnswered DEF Senders
  <1>6. CASE RunFails
    <2>1. Pending' = Pending \ {running}
      BY <1>6, CompleteEffect DEF Complete
    <2>2. sent' = sent /\ replies' = replies /\ failed' = failed \cup {running}
      BY <1>6 DEF RunFails, client
    <2>3. CASE <<c, k>> \in Pending \ Pending'
      <3>1. AnswerOf(c, k)' = AnswerOf(c, k)
        BY <2>2 DEF AnswerOf
      <3> QED
        BY <1>0, <2>1, <2>2, <2>3, <3>1 DEF Kept, Excused
    <2>4. CASE <<c, k>> \notin Pending \ Pending'
      BY <1>0, <2>2, <2>4, KeptWhenQuiet
    <2> QED
      BY <2>3, <2>4
  <1>7. CASE ~Work
    <2>1. UNCHANGED requests
      BY <1>7, OtherSteps DEF RequestInv
    <2>2. Pending' = Pending /\ sent' = sent /\ replies' = replies
      BY <2>1 DEF requests, Pending
    <2> QED
      BY <1>2, <2>2
  <1> QED
    BY <1>1, <1>3, <1>4, <1>5, <1>6, <1>7 DEF Work

\* A client that is still there, on a connection that is not closed, has one
\* answer to every request that was read from it and is not pending, unless its
\* run failed or its submit raised KeyError and killed the connection's thread.
THEOREM RequestsAnswered == Spec => []NoneForgotten
  <1>1. Init => NoneForgotten
    BY DEF Init, NoneForgotten
  <1> QED
    BY <1>1, ForgottenStep, RequestInvariant, PTL DEF Spec

-----------------------------------------------------------------------------
(* The tables agree *)

LEMMA TablesStep == TypeOK /\ Tables /\ [Next]_vars => Tables'
  <1> SUFFICES ASSUME TypeOK, Tables, [Next]_vars, ~overlapped' PROVE Tables'
    BY DEF Tables
  <1> USE DEF Transition, Return, Ensuring, Dropping, NoLife, Threads, NameOf, At,
              BeingDropped, tenants, tables, work, admin, client
  <1>a. ~overlapped
    BY DEF Next, Connection, Ensure, Drop, Schedule, Complete, Rest, Hello, InLogs,
           NotInLogs, Register, OpenLog, Unlink, Bind, BindFails, Publish, Submit,
           SubmitFails, Leave, Hangup, AdminRegister, Unregister, Refuse, CloseCtrl,
           RemovePath, Forget, Start, Finish, RunFails, Block, Unblock, vars
  <1>b. /\ pc \in [Threads -> {"idle", "serve"} \cup Ensuring \cup Dropping \cup NoLife]
        /\ registered \in [Names -> BOOLEAN] /\ logs \in [Names -> BOOLEAN]
        /\ path \in [Names -> BOOLEAN] /\ ctrl \in [Names -> BOOLEAN]
        /\ Admin \notin Conns
    BY ProxyAssumption DEF TypeOK
  <1>1. ASSUME NEW c \in Conns, Hello(c) PROVE Tables'
    BY <1>1, <1>a, <1>b DEF Tables, Hello
  <1>2. ASSUME NEW t \in Threads, InLogs(t) PROVE Tables'
    BY <1>2, <1>a, <1>b DEF Tables, InLogs
  <1>3. ASSUME NEW t \in Threads, NotInLogs(t) PROVE Tables'
    <2>1. ~(t # Admin /\ BeingDropped(NameOf(t)))
      BY <1>3, Zenon DEF NotInLogs
    <2>2. /\ pc[t] = "check" /\ pc' = [pc EXCEPT ![t] = "register"]
          /\ target' = target /\ registered' = registered
          /\ logs' = logs /\ path' = path /\ ctrl' = ctrl
      BY <1>3 DEF Tables, NotInLogs
    <2> QED
      BY <1>a, <1>b, <2>1, <2>2 DEF Tables
  <1>4. ASSUME NEW t \in Threads, Register(t) PROVE Tables'
    BY <1>4, <1>a, <1>b DEF Tables, Register
  <1>5. ASSUME NEW t \in Threads, OpenLog(t) PROVE Tables'
    BY <1>5, <1>a, <1>b DEF Tables, OpenLog
  <1>6. ASSUME NEW t \in Threads, Unlink(t) PROVE Tables'
    BY <1>6, <1>a, <1>b DEF Tables, Unlink
  <1>7. ASSUME NEW t \in Threads, Bind(t) PROVE Tables'
    BY <1>7, <1>a, <1>b DEF Tables, Bind
  <1>8. ASSUME NEW t \in Threads, BindFails(t) PROVE Tables'
    BY <1>8, <1>a, <1>b DEF Tables, BindFails
  <1>9. ASSUME NEW t \in Threads, Publish(t) PROVE Tables'
    BY <1>9, <1>a, <1>b DEF Tables, Publish
  <1>10. ASSUME NEW c \in Conns, Submit(c) PROVE Tables'
    BY <1>10, <1>a, <1>b DEF Tables, Submit, Read
  <1>11. ASSUME NEW c \in Conns, SubmitFails(c) PROVE Tables'
    BY <1>11, <1>a, <1>b DEF Tables, SubmitFails, Read
  <1>12. ASSUME NEW c \in Conns, Leave(c) PROVE Tables'
    BY <1>12, <1>a, <1>b DEF Tables, Leave
  <1>13. ASSUME NEW c \in Conns, Hangup(c) PROVE Tables'
    BY <1>13, <1>a, <1>b DEF Tables, Hangup
  <1>14. ASSUME NEW n \in Names, AdminRegister(n) PROVE Tables'
    BY <1>14, <1>a, <1>b DEF Tables, AdminRegister, Command
  <1>15. ASSUME NEW n \in Names, Unregister(n) PROVE Tables'
    <2>1. ~\E c \in Conns : TenantOf[c] = n /\ pc[c] \in Ensuring \ {"check"}
      BY <1>15, Zenon DEF Unregister, MidRegistration
    <2>2. /\ pc[Admin] = "idle" /\ pc' = [pc EXCEPT ![Admin] = "refuse"]
          /\ target' = n /\ registered' = [registered EXCEPT ![n] = FALSE]
          /\ logs' = logs /\ path' = path /\ ctrl' = ctrl
      BY <1>15 DEF Unregister, Command
    <2> QED
      BY <1>a, <1>b, <2>1, <2>2 DEF Tables
  <1>16. ASSUME Refuse PROVE Tables'
    BY <1>16, <1>a, <1>b DEF Tables, Refuse
  <1>17. ASSUME CloseCtrl PROVE Tables'
    BY <1>17, <1>a, <1>b DEF Tables, CloseCtrl
  <1>18. ASSUME RemovePath PROVE Tables'
    BY <1>18, <1>a, <1>b DEF Tables, RemovePath
  <1>19. ASSUME Forget PROVE Tables'
    BY <1>19, <1>a, <1>b DEF Tables, Forget
  <1>20. ASSUME NEW n \in Names, Start(n) PROVE Tables'
    BY <1>20, <1>a, <1>b DEF Tables, Start
  <1>21. ASSUME Finish PROVE Tables'
    BY <1>21, <1>a, <1>b DEF Tables, Finish
  <1>22. ASSUME RunFails PROVE Tables'
    BY <1>22, <1>a, <1>b DEF Tables, RunFails
  <1>23. ASSUME NEW s \in Senders, Block(s) \/ Unblock(s) PROVE Tables'
    BY <1>23, <1>a, <1>b DEF Tables, Block, Unblock
  <1>24. CASE UNCHANGED vars
    BY <1>24 DEF Tables, vars
  <1> QED
    BY <1>1, <1>2, <1>3, <1>4, <1>5, <1>6, <1>7, <1>8, <1>9, <1>10, <1>11,
       <1>12, <1>13, <1>14, <1>15, <1>16, <1>17, <1>18, <1>19, <1>20,
       <1>21, <1>22, <1>23, <1>24
       DEF Next, Connection, Ensure, Drop, Schedule, Complete, Rest

\* While no thread is inside ensure_tenant or drop_tenant, logs, which is all that
\* ensure_tenant looks at, tells the truth about the core, the control socket
\* and its path, unless a tenant was dropped in the middle of its registration.
THEOREM TablesConsistent == Spec => []TablesInv
  <1>1. Init => Tables
    <2> SUFFICES ASSUME Init PROVE Tables
      OBVIOUS
    <2>1. \A t \in Threads : pc[t] = "idle"
      BY DEF Init
    <2>2. \A n \in Names : ~registered[n] /\ ~logs[n]
      BY DEF Init
    <2> QED
      BY <2>1, <2>2 DEF Tables, At, BeingDropped, Dropping, Threads
  <1>2. TypeOK /\ Tables => TablesAgree
    <2> SUFFICES ASSUME TypeOK, Tables, Quiet, ~overlapped, NEW n \in Names
                 PROVE  logs[n] = registered[n] /\ (logs[n] => path[n] /\ ctrl[n])
      BY DEF TablesAgree
    <2>1. ~BeingDropped(n)
      BY DEF Quiet, BeingDropped, Threads
    <2>2. /\ ~At(n, {"log"}) /\ ~At(n, {"unlink", "bind"})
          /\ ~At(n, {"unlink", "publish"})
      BY DEF Quiet, At, Ensuring
    <2>3. logs[n] \in BOOLEAN /\ registered[n] \in BOOLEAN
      BY DEF TypeOK
    <2> QED
      BY <2>1, <2>2, <2>3 DEF Tables
  <1> QED
    BY <1>1, <1>2, TablesStep, TypeCorrect, PTL DEF Spec, TablesInv
=============================================================================
