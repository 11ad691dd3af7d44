--------------------------- MODULE NpuClientProofs --------------------------
(***************************************************************************)
(* The safety properties of the NPU client, for any depth, any number of   *)
(* connections, restarts and failing runs.                                 *)
(*                                                                         *)
(* Both need to know what the two threads believe of the connection:       *)
(* SocketInv holds always, OneHandler as long as no break has been dealt   *)
(* with by both threads.  Noted bounds submits from below by what is under *)
(* way on the connection (no permit is given back twice), Answerable from  *)
(* above (no permit stands for a request that nobody answers).             *)
(***************************************************************************)
EXTENDS NpuClient, FiniteSetTheorems, TLAPS

\* The two threads have different programs.
Roles ==
    /\ pc[Main] \in {"acquire", "append", "send", "end", "dead"} \cup Handling
    /\ pc[Receiver] \in {"top", "call", "recv", "got", "pop", "release", "end", "dead"}
                          \cup Handling

\* A thread's socket is the current one, or an older one that is closed.
Stamps ==
    \A t \in Threads : \/ ep[t] = epoch /\ s[t] = sock
                       \/ ep[t] < epoch /\ s[t] \in closed

\* Requests wait only where the proxy's end is open, and nothing is under way
\* on a connection that has never been the current one.
OnTheWay ==
    \A k \in Socks : /\ k \notin alive => wire[k] = 0
                     /\ Flight(k) > 0 => k \in {sock} \cup closed

\* A connection that is not installed yet is in nobody else's hands.
Prepared ==
    /\ \A t \in Threads : pc[t] = "install" => conn[t] \notin {sock} \cup closed
    /\ pc[Main] = "install" /\ pc[Receiver] = "install" =>
           conn[Main] # conn[Receiver]

SocketInv ==
    /\ Stamps /\ OnTheWay /\ Prepared
    /\ Ended \/ sock \notin closed

\* The main thread deals with a break only after the receiver has renewed the
\* connection.
MainIsLate ==
    pc[Main] \in Handling =>
        /\ pc[Receiver] \notin Handling /\ ep[Main] # epoch
        /\ pc[Main] \notin {"connect", "install"}

\* Nobody else renews the connection the receiver works with.
ReceiverIsCurrent ==
    pc[Receiver] \in {"call", "recv", "got", "pop"} \cup Handling =>
        ep[Receiver] = epoch

\* What is under way is noted in submits, unless the connection is broken or
\* the main thread does not use it yet: nothing is under way then.
Noted ==
    /\ ep[Main] # epoch => Flight(sock) = 0 /\ Replying = 0
    /\ IF pc[Receiver] \in Handling \cup {"end", "dead"}
       THEN Flight(sock) = 0 /\ sock \notin alive
       ELSE ep[Main] = epoch => Flight(sock) + Replying + Sending <= submits

\* Nothing else is noted in submits, except the requests of failing runs: before
\* the receiver connects anew it has taken out all but what the main thread may
\* have noted meanwhile, and the main thread, when it is late, all.
Answerable ==
    /\ pc[Main] = "reconnect" => submits = 0
    /\ pc[Receiver] \in {"reconnect", "connect", "install"} => submits <= Sending
    /\ (\A t \in Threads : pc[t] \notin Handling) /\ sock \in alive =>
           submits <= Flight(sock) + Replying + Sending + fails[sock]

PermitsExact == sem + submits + InHand = depth

\* As long as no break is dealt with by both threads:
OneHandler == MainIsLate /\ ReceiverIsCurrent /\ Noted /\ Answerable /\ PermitsExact

-----------------------------------------------------------------------------
(* Types *)

\* A set of numbers that is not empty has a smallest one.
LEMMA MinOfNumbers ==
    ASSUME NEW S \in SUBSET Nat, S # {}
    PROVE  Min(S) \in S
  <1>1. \E x \in S : \A y \in S : ~(<<y, x>> \in OpToRel(<, Nat))
    BY NatLessThanWellFounded, WFMin
  <1>2. PICK x \in S : \A y \in S : ~(<<y, x>> \in OpToRel(<, Nat))
    BY <1>1
  <1>3. \A y \in S : x =< y
    <2>1. \A y \in S : ~(y < x)
      BY <1>2, Zenon DEF OpToRel
    <2> QED
      BY <2>1
  <1> QED
    BY <1>3 DEF Min

\* The socket of a new connection is one that has not been used.
LEMMA FreshSocket ==
    ASSUME Socks \ Made # {}
    PROVE  Min(Socks \ Made) \in Socks \ Made
  <1>1. Socks \ Made \in SUBSET Nat
    BY ClientAssumption DEF Socks
  <1> QED
    BY <1>1, MinOfNumbers

LEMMA TypeInit == Init => TypeOK /\ Roles
  <1> SUFFICES ASSUME Init PROVE TypeOK /\ Roles
    OBVIOUS
  <1>1. 1 \in Socks
    BY ClientAssumption DEF Socks
  <1>2. up \in BOOLEAN /\ raced \in BOOLEAN
    BY Zenon DEF Init
  <1> QED
    BY <1>1, <1>2, ClientAssumption DEF Init, TypeOK, Roles, Main, Receiver, Threads

LEMMA TypeStep == TypeOK /\ [Next]_vars => TypeOK'
  <1> SUFFICES ASSUME TypeOK, [Next]_vars PROVE TypeOK'
    OBVIOUS
  <1> USE DEF TypeOK, Goto, Transition, Handling, Threads, Main, Receiver, permits,
              link, locals, proxy
  <1>1. ASSUME Acquire PROVE TypeOK'
    BY <1>1 DEF Acquire, Current
  <1>2. ASSUME NoteSubmit PROVE TypeOK'
    BY <1>2 DEF NoteSubmit
  <1>3. ASSUME Send PROVE TypeOK'
    BY <1>3 DEF Send
  <1>4. ASSUME SendFails PROVE TypeOK'
    <2>1. raced' \in BOOLEAN
      BY <1>4, Zenon DEF SendFails, Notice
    <2> QED
      BY <1>4, <2>1 DEF SendFails, Notice
  <1>5. ASSUME Stop PROVE TypeOK'
    BY <1>5 DEF Stop
  <1>6. ASSUME Top PROVE TypeOK'
    BY <1>6 DEF Top, Current
  <1>7. ASSUME Call PROVE TypeOK'
    BY <1>7 DEF Call
  <1>8. ASSUME ~Ended, CallFails PROVE TypeOK'
    <2>1. raced' \in BOOLEAN
      BY <1>8, Zenon DEF CallFails, Notice
    <2> QED
      BY <1>8, <2>1 DEF CallFails, Notice
  <1>9. ASSUME Receive PROVE TypeOK'
    BY <1>9 DEF Receive
  <1>10. ASSUME EndOfStream PROVE TypeOK'
    <2>1. raced' \in BOOLEAN
      BY <1>10, Zenon DEF EndOfStream, Notice
    <2> QED
      BY <1>10, <2>1 DEF EndOfStream, Notice
  <1>11. ASSUME Got PROVE TypeOK'
    BY <1>11 DEF Got
  <1>12. ASSUME GotNothing PROVE TypeOK'
    BY <1>12 DEF GotNothing
  <1>13. ASSUME PopLeft(Receiver, "pop", "release") PROVE TypeOK'
    BY <1>13 DEF PopLeft
  <1>14. ASSUME PopFails(Receiver, "pop") PROVE TypeOK'
    BY <1>14 DEF PopFails
  <1>15. ASSUME NEW t \in Threads, DropInflight(t) PROVE TypeOK'
    BY <1>15 DEF DropInflight
  <1>16. ASSUME NEW t \in Threads, Reconnect(t) PROVE TypeOK'
    BY <1>16 DEF Reconnect, Back
  <1>17. ASSUME NEW t \in Threads, Connect(t) PROVE TypeOK'
    <2>1. Min(Socks \ Made) \in Socks
      BY <1>17, FreshSocket DEF Connect
    <2> QED
      BY <1>17, <2>1 DEF Connect
  <1>18. ASSUME NEW t \in Threads, Install(t) PROVE TypeOK'
    BY <1>18, ClientAssumption DEF Install, Back
  <1>19. ASSUME NEW t \in Threads, PopLeft(t, "drop_pop", "drop_release")
         PROVE  TypeOK'
    BY <1>19 DEF PopLeft
  <1>20. ASSUME NEW t \in Threads, PopFails(t, "drop_pop") PROVE TypeOK'
    BY <1>20 DEF PopFails
  <1>21. ASSUME Down PROVE TypeOK'
    <2>1. up' \in BOOLEAN /\ raced' \in BOOLEAN
      BY <1>21, Zenon DEF Down
    <2>2. restarts' \in 0 .. MaxRestarts
      BY <1>21, ClientAssumption DEF Down
    <2> QED
      BY <1>21, <2>1, <2>2, ClientAssumption DEF Down
  <1>22. ASSUME Up PROVE TypeOK'
    BY <1>22 DEF Up
  <1>23. ASSUME NEW k \in Socks, Answer(k) PROVE TypeOK'
    BY <1>23 DEF Answer
  <1>24. ASSUME NEW k \in Socks, Fail(k) PROVE TypeOK'
    BY <1>24, ClientAssumption DEF Fail
  <1>25. ASSUME Release(Receiver, "release", "top") PROVE TypeOK'
    BY <1>25 DEF Release
  <1>26. ASSUME NEW t \in Threads, Release(t, "drop_release", "drop") PROVE TypeOK'
    BY <1>26 DEF Release
  <1>27. CASE UNCHANGED vars
    BY <1>27 DEF vars
  <1> QED
    BY <1>1, <1>2, <1>3, <1>4, <1>5, <1>6, <1>7, <1>8, <1>9, <1>10, <1>11,
       <1>12, <1>13, <1>14, <1>15, <1>16, <1>17, <1>18, <1>19, <1>20,
       <1>21, <1>22, <1>23, <1>24, <1>25, <1>26, <1>27
       DEF Next, MainStep, ReceiverStep, Handle, Rest, Threads

LEMMA RolesStep == TypeOK /\ Roles /\ [Next]_vars => Roles'
  <1> SUFFICES ASSUME TypeOK, Roles, [Next]_vars PROVE Roles'
    OBVIOUS
  <1> USE DEF Roles, Goto, Transition, Handling, Threads, Main, Receiver
  <1>0. pc = [t \in Threads |-> pc[t]]
    BY DEF TypeOK
  <1>1. ASSUME Acquire PROVE Roles'
    BY <1>1, <1>0 DEF Acquire, Current
  <1>2. ASSUME NoteSubmit PROVE Roles'
    BY <1>2, <1>0 DEF NoteSubmit
  <1>3. ASSUME Send PROVE Roles'
    BY <1>3, <1>0 DEF Send
  <1>4. ASSUME SendFails PROVE Roles'
    BY <1>4, <1>0 DEF SendFails, Notice
  <1>5. ASSUME Stop PROVE Roles'
    BY <1>5, <1>0 DEF Stop
  <1>6. ASSUME Top PROVE Roles'
    BY <1>6, <1>0 DEF Top, Current
  <1>7. ASSUME Call PROVE Roles'
    BY <1>7, <1>0 DEF Call
  <1>8. ASSUME ~Ended, CallFails PROVE Roles'
    BY <1>8, <1>0 DEF CallFails, Notice
  <1>9. ASSUME Receive PROVE Roles'
    BY <1>9, <1>0 DEF Receive
  <1>10. ASSUME EndOfStream PROVE Roles'
    BY <1>10, <1>0 DEF EndOfStream, Notice
  <1>11. ASSUME Got PROVE Roles'
    BY <1>11, <1>0 DEF Got
  <1>12. ASSUME GotNothing PROVE Roles'
    BY <1>12, <1>0 DEF GotNothing
  <1>13. ASSUME PopLeft(Receiver, "pop", "release") PROVE Roles'
    BY <1>13, <1>0 DEF PopLeft
  <1>14. ASSUME PopFails(Receiver, "pop") PROVE Roles'
    BY <1>14, <1>0 DEF PopFails
  <1>15. ASSUME NEW t \in Threads, DropInflight(t) PROVE Roles'
    BY <1>15, <1>0 DEF DropInflight
  <1>16. ASSUME NEW t \in Threads, Reconnect(t) PROVE Roles'
    BY <1>16, <1>0 DEF Reconnect, Back
  <1>17. ASSUME NEW t \in Threads, Connect(t) PROVE Roles'
    BY <1>17, <1>0 DEF Connect
  <1>18. ASSUME NEW t \in Threads, Install(t) PROVE Roles'
    BY <1>18, <1>0 DEF Install, Back
  <1>19. ASSUME NEW t \in Threads, PopLeft(t, "drop_pop", "drop_release")
         PROVE  Roles'
    BY <1>19, <1>0 DEF PopLeft
  <1>20. ASSUME NEW t \in Threads, PopFails(t, "drop_pop") PROVE Roles'
    BY <1>20, <1>0 DEF PopFails
  <1>21. ASSUME Down PROVE Roles'
    BY <1>21, <1>0 DEF Down
  <1>22. ASSUME Up PROVE Roles'
    BY <1>22, <1>0 DEF Up
  <1>23. ASSUME NEW k \in Socks, Answer(k) PROVE Roles'
    BY <1>23, <1>0 DEF Answer
  <1>24. ASSUME NEW k \in Socks, Fail(k) PROVE Roles'
    BY <1>24, <1>0 DEF Fail
  <1>25. ASSUME Release(Receiver, "release", "top") PROVE Roles'
    BY <1>25, <1>0 DEF Release
  <1>26. ASSUME NEW t \in Threads, Release(t, "drop_release", "drop") PROVE Roles'
    BY <1>26, <1>0 DEF Release
  <1>27. CASE UNCHANGED vars
    BY <1>27 DEF vars
  <1> QED
    BY <1>1, <1>2, <1>3, <1>4, <1>5, <1>6, <1>7, <1>8, <1>9, <1>10, <1>11,
       <1>12, <1>13, <1>14, <1>15, <1>16, <1>17, <1>18, <1>19, <1>20,
       <1>21, <1>22, <1>23, <1>24, <1>25, <1>26, <1>27
       DEF Next, MainStep, ReceiverStep, Handle, Rest, Threads

\* Every variable keeps its type; a thread's generation is never ahead of the
\* connection's.
THEOREM TypeCorrect == Spec => []TypeOK
  <1>1. Init => TypeOK
    BY TypeInit
  <1> QED
    BY <1>1, TypeStep, PTL DEF Spec

-----------------------------------------------------------------------------
(* Sockets *)

LEMMA SocketStep ==
    TypeOK /\ Roles /\ SocketInv /\ [Next]_vars => SocketInv'
  <1> SUFFICES ASSUME TypeOK, Roles, SocketInv, [Next]_vars PROVE SocketInv'
    OBVIOUS
  <1> USE DEF SocketInv, Stamps, OnTheWay, Prepared, Flight, Ended, Goto, Transition,
              Threads, Main, Receiver, permits, link, locals, proxy
  <1>0. /\ pc = [t \in Threads |-> pc[t]]
        /\ wire \in [Socks -> Nat] /\ back \in [Socks -> Nat]
        /\ epoch \in Nat /\ ep \in [Threads -> 1 .. epoch]
        /\ s \in [Threads -> Socks] /\ conn \in [Threads -> Socks]
        /\ sock \in Socks
    BY DEF TypeOK
  <1>1. ASSUME Acquire PROVE SocketInv'
    BY <1>1, <1>0 DEF Acquire, Current
  <1>2. ASSUME NoteSubmit PROVE SocketInv'
    BY <1>2, <1>0 DEF NoteSubmit
  <1>3. ASSUME Send PROVE SocketInv'
    BY <1>3, <1>0 DEF Send, Works
  <1>4. ASSUME SendFails PROVE SocketInv'
    BY <1>4, <1>0 DEF SendFails, Notice
  <1>5. ASSUME Stop PROVE SocketInv'
    BY <1>5, <1>0 DEF Stop
  <1>6. ASSUME Top PROVE SocketInv'
    BY <1>6, <1>0 DEF Top, Current
  <1>7. ASSUME Call PROVE SocketInv'
    BY <1>7, <1>0 DEF Call
  <1>8. ASSUME ~Ended, CallFails PROVE SocketInv'
    BY <1>8, <1>0 DEF CallFails, Notice
  <1>9. ASSUME Receive PROVE SocketInv'
    BY <1>9, <1>0 DEF Receive
  <1>10. ASSUME EndOfStream PROVE SocketInv'
    BY <1>10, <1>0 DEF EndOfStream, Notice
  <1>11. ASSUME Got PROVE SocketInv'
    BY <1>11, <1>0 DEF Got
  <1>12. ASSUME GotNothing PROVE SocketInv'
    BY <1>12, <1>0 DEF GotNothing
  <1>13. ASSUME PopLeft(Receiver, "pop", "release") PROVE SocketInv'
    BY <1>13, <1>0 DEF PopLeft
  <1>14. ASSUME PopFails(Receiver, "pop") PROVE SocketInv'
    BY <1>14, <1>0 DEF PopFails
  <1>15. ASSUME NEW t \in Threads, DropInflight(t) PROVE SocketInv'
    BY <1>15, <1>0 DEF DropInflight
  <1>16. ASSUME NEW t \in Threads, Reconnect(t) PROVE SocketInv'
    BY <1>16, <1>0 DEF Reconnect, Back
  <1>17. ASSUME NEW t \in Threads, Connect(t) PROVE SocketInv'
    <2>1. Min(Socks \ Made) \in Socks \ Made
      BY <1>17, FreshSocket DEF Connect
    <2> QED
      BY <1>17, <1>0, <2>1 DEF Connect, Made
  <1>18. ASSUME NEW t \in Threads, Install(t) PROVE SocketInv'
    BY <1>18, <1>0 DEF Install, Back
  <1>19. ASSUME NEW t \in Threads, PopLeft(t, "drop_pop", "drop_release")
         PROVE  SocketInv'
    BY <1>19, <1>0 DEF PopLeft
  <1>20. ASSUME NEW t \in Threads, PopFails(t, "drop_pop") PROVE SocketInv'
    BY <1>20, <1>0 DEF PopFails
  <1>21. ASSUME Down PROVE SocketInv'
    BY <1>21, <1>0 DEF Down
  <1>22. ASSUME Up PROVE SocketInv'
    BY <1>22, <1>0 DEF Up
  <1>23. ASSUME NEW k \in Socks, Answer(k) PROVE SocketInv'
    BY <1>23, <1>0 DEF Answer
  <1>24. ASSUME NEW k \in Socks, Fail(k) PROVE SocketInv'
    BY <1>24, <1>0 DEF Fail
  <1>25. ASSUME Release(Receiver, "release", "top") PROVE SocketInv'
    BY <1>25, <1>0 DEF Release
  <1>26. ASSUME NEW t \in Threads, Release(t, "drop_release", "drop") PROVE SocketInv'
    BY <1>26, <1>0 DEF Release
  <1>27. CASE UNCHANGED vars
    BY <1>27 DEF vars
  <1> QED
    BY <1>1, <1>2, <1>3, <1>4, <1>5, <1>6, <1>7, <1>8, <1>9, <1>10, <1>11,
       <1>12, <1>13, <1>14, <1>15, <1>16, <1>17, <1>18, <1>19, <1>20,
       <1>21, <1>22, <1>23, <1>24, <1>25, <1>26, <1>27
       DEF Next, MainStep, ReceiverStep, Handle, Rest, Threads

-----------------------------------------------------------------------------
(* Depth *)

LEMMA HandlerStep ==
    TypeOK /\ Roles /\ SocketInv /\ (raced \/ OneHandler) /\ [Next]_vars =>
        (raced \/ OneHandler)'
  <1> SUFFICES ASSUME TypeOK, Roles, SocketInv, raced \/ OneHandler, [Next]_vars,
                      ~raced'
               PROVE  OneHandler'
    OBVIOUS
  <1> USE DEF OneHandler, MainIsLate, ReceiverIsCurrent, Noted, Answerable,
              PermitsExact, InHand, Releasing, Sending, Replying, Flight, Roles, Handling, Goto, Transition,
              Threads, Main, Receiver, permits, link, locals, proxy
  <1>a. /\ pc = [t \in Threads |-> pc[t]]
        /\ wire \in [Socks -> Nat] /\ back \in [Socks -> Nat]
        /\ epoch \in Nat /\ ep \in [Threads -> 1 .. epoch]
        /\ s \in [Threads -> Socks] /\ conn \in [Threads -> Socks]
        /\ sock \in Socks /\ sem \in Nat /\ submits \in Nat
        /\ fails \in [Socks -> Nat]
    BY DEF TypeOK
  <1>b. ~raced
    BY DEF Next, MainStep, ReceiverStep, Handle, Acquire, NoteSubmit, Send, SendFails,
           Stop, Top, Call, CallFails, Receive, EndOfStream, Got, GotNothing, PopLeft,
           PopFails, Release, DropInflight, Reconnect, Connect, Install, Down, Up, Answer,
           Fail, Rest, Notice, vars
  <1>c. OneHandler
    BY <1>b
  <1>1. ASSUME Acquire PROVE OneHandler'
    BY <1>1, <1>a, <1>c DEF Acquire, Current
  <1>2. ASSUME NoteSubmit PROVE OneHandler'
    BY <1>2, <1>a, <1>c DEF NoteSubmit
  <1>3. ASSUME Send PROVE OneHandler'
    BY <1>3, <1>a, <1>c DEF Send, Works, SocketInv, Stamps
  <1>4. ASSUME SendFails PROVE OneHandler'
    BY <1>4, <1>a, <1>c DEF SendFails, Notice
  <1>5. ASSUME Stop PROVE OneHandler'
    BY <1>5, <1>a, <1>c DEF Stop
  <1>6. ASSUME Top PROVE OneHandler'
    BY <1>6, <1>a, <1>c DEF Top, Current
  <1>7. ASSUME Call PROVE OneHandler'
    BY <1>7, <1>a, <1>c DEF Call
  <1>8. ASSUME ~Ended, CallFails PROVE OneHandler'
    BY <1>8, <1>a, <1>c DEF CallFails, Notice, SocketInv, Stamps, Ended
  <1>9. ASSUME Receive PROVE OneHandler'
    BY <1>9, <1>a, <1>c DEF Receive, SocketInv, Stamps
  <1>10. ASSUME EndOfStream PROVE OneHandler'
    BY <1>10, <1>a, <1>c DEF EndOfStream, Notice, SocketInv, Stamps, OnTheWay
  <1>11. ASSUME Got PROVE OneHandler'
    BY <1>11, <1>a, <1>c DEF Got
  <1>12. ASSUME GotNothing PROVE OneHandler'
    BY <1>12, <1>a, <1>c DEF GotNothing
  <1>13. ASSUME PopLeft(Receiver, "pop", "release") PROVE OneHandler'
    BY <1>13, <1>a, <1>c DEF PopLeft
  <1>14. ASSUME PopFails(Receiver, "pop") PROVE OneHandler'
    BY <1>14, <1>a, <1>c DEF PopFails
  <1>15. ASSUME NEW t \in Threads, DropInflight(t) PROVE OneHandler'
    BY <1>15, <1>a, <1>c DEF DropInflight
  <1>16. ASSUME NEW t \in Threads, Reconnect(t) PROVE OneHandler'
    BY <1>16, <1>a, <1>c DEF Reconnect, Back
  <1>17. ASSUME NEW t \in Threads, Connect(t) PROVE OneHandler'
    <2>1. Min(Socks \ Made) \in Socks \ Made
      BY <1>17, FreshSocket DEF Connect
    <2> QED
      BY <1>17, <1>a, <1>c, <2>1 DEF Connect, Made
  <1>18. ASSUME NEW t \in Threads, Install(t) PROVE OneHandler'
    <2>1. MainIsLate' /\ ReceiverIsCurrent' /\ PermitsExact'
      BY <1>18, <1>a, <1>c DEF Install, Back
    <2>2. Noted'
      <3>1. t = Receiver /\ pc[t] = "install" /\ pc'[t] = "top" /\ sock' = conn[t]
        BY <1>18, <1>a, <1>c DEF Install, Back
      <3>2. wire[conn[t]] = 0 /\ back[conn[t]] = 0
        BY <3>1, <1>a DEF SocketInv, OnTheWay, Prepared
      <3>3. Flight(sock)' = 0
        BY <1>18, <1>a, <3>1, <3>2 DEF Install
      <3>4. ep'[Main] # epoch'
        BY <1>18, <1>a DEF Install
      <3> QED
        BY <3>1, <3>3, <3>4
    <2>3. t = Receiver /\ submits' = submits /\ submits <= Sending
      BY <1>18, <1>c DEF Install
    <2>4. fails'[sock'] \in Nat /\ Flight(sock)' \in Nat
      BY <1>18, <1>a DEF Install
    <2>5. Answerable'
      BY <1>18, <1>a, <1>c, <2>3, <2>4 DEF Install, Back
    <2> QED
      BY <2>1, <2>2, <2>5
  <1>19. ASSUME NEW t \in Threads, PopLeft(t, "drop_pop", "drop_release")
         PROVE  OneHandler'
    BY <1>19, <1>a, <1>c DEF PopLeft
  <1>20. ASSUME NEW t \in Threads, PopFails(t, "drop_pop") PROVE OneHandler'
    BY <1>20, <1>a, <1>c DEF PopFails
  <1>21. ASSUME Down PROVE OneHandler'
    BY <1>21, <1>a, <1>c DEF Down
  <1>22. ASSUME Up PROVE OneHandler'
    BY <1>22, <1>a, <1>c DEF Up
  <1>23. ASSUME NEW k \in Socks, Answer(k) PROVE OneHandler'
    BY <1>23, <1>a, <1>c DEF Answer
  <1>24. ASSUME NEW k \in Socks, Fail(k) PROVE OneHandler'
    BY <1>24, <1>a, <1>c DEF Fail
  <1>25. ASSUME Release(Receiver, "release", "top") PROVE OneHandler'
    BY <1>25, <1>a, <1>c DEF Release
  <1>26. ASSUME NEW t \in Threads, Release(t, "drop_release", "drop") PROVE OneHandler'
    BY <1>26, <1>a, <1>c DEF Release
  <1>27. CASE UNCHANGED vars
    BY <1>27 DEF vars
  <1> QED
    BY <1>1, <1>2, <1>3, <1>4, <1>5, <1>6, <1>7, <1>8, <1>9, <1>10, <1>11,
       <1>12, <1>13, <1>14, <1>15, <1>16, <1>17, <1>18, <1>19, <1>20,
       <1>21, <1>22, <1>23, <1>24, <1>25, <1>26, <1>27
       DEF Next, MainStep, ReceiverStep, Handle, Rest, Threads

IInv == TypeOK /\ Roles /\ SocketInv /\ (raced \/ OneHandler)

LEMMA Invariant == Spec => []IInv
  <1>1. Init => IInv
    <2> SUFFICES ASSUME Init PROVE IInv
      OBVIOUS
    <2>1. SocketInv
      BY ClientAssumption
      DEF Init, SocketInv, Stamps, OnTheWay, Prepared, Flight, Ended, Threads, Main,
          Receiver
    <2>2. OneHandler
      BY ClientAssumption
      DEF Init, OneHandler, MainIsLate, ReceiverIsCurrent, Noted, Answerable,
          PermitsExact, InHand, Releasing, Sending, Replying, Flight, Handling, Socks, Threads, Main, Receiver
    <2> QED
      BY <2>1, <2>2, TypeInit DEF IInv
  <1>2. IInv /\ [Next]_vars => IInv'
    BY TypeStep, RolesStep, SocketStep, HandlerStep DEF IInv
  <1> QED
    BY <1>1, <1>2, PTL DEF Spec

\* As long as every break is dealt with by one thread, no permit is given back
\* twice and no more than depth requests are under way.
THEOREM DepthIsKept == Spec => []DepthKept
  <1>1. IInv => DepthKept
    <2> SUFFICES ASSUME IInv, ~raced PROVE PermitsExact /\ Flight(sock) <= depth
      BY DEF DepthKept, PermitsExact
    <2>1. /\ sem \in Nat /\ submits \in Nat /\ sock \in Socks
          /\ wire \in [Socks -> Nat] /\ back \in [Socks -> Nat]
      BY DEF IInv, TypeOK
    <2>2. OneHandler
      BY DEF IInv
    <2> QED
      BY <2>1, <2>2, ClientAssumption
      DEF OneHandler, Noted, PermitsExact, InHand, Releasing, Sending, Replying, Flight
  <1> QED
    BY <1>1, Invariant, PTL

\* As long as every break is dealt with by one thread, breaks do not narrow the
\* pipeline: on a connection that works, every permit is free, in a thread's
\* hands or stands for a request that will be answered, but for one per failing
\* run of this connection.
THEOREM PipelineKept == Spec => []PermitsKept
  <1>1. IInv => PermitsKept
    <2> SUFFICES ASSUME IInv, ~raced, Works(sock),
                        \A t \in Threads : pc[t] \notin Handling
                 PROVE  sem + InHand + Sending + Flight(sock) + Replying + fails[sock]
                            >= depth
      BY DEF PermitsKept
    <2>1. /\ sem \in Nat /\ submits \in Nat /\ sock \in Socks
          /\ wire \in [Socks -> Nat] /\ back \in [Socks -> Nat]
          /\ fails \in [Socks -> Nat]
      BY DEF IInv, TypeOK
    <2>2. Answerable /\ PermitsExact
      BY DEF IInv, OneHandler
    <2>3. submits <= Flight(sock) + Replying + Sending + fails[sock]
      BY <2>2 DEF Answerable, Works
    <2> QED
      BY <2>1, <2>2, <2>3, ClientAssumption
      DEF PermitsExact, InHand, Releasing, Sending, Replying, Flight
  <1> QED
    BY <1>1, Invariant, PTL
=============================================================================
