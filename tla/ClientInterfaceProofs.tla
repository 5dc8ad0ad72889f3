------------------------ MODULE ClientInterfaceProofs ------------------------
(***************************************************************************)
(* Proofs about ClientInterface, for any number of connections and         *)
(* messages.  The type of the state is kept by every application; the      *)
(* rest is proved of the careful one, which calls Disconnect before it     *)
(* connects again.                                                         *)
(*                                                                         *)
(* The inductive invariant is that an application with no connection has   *)
(* no thread either (ThreadInv), so that every new thread finds the old    *)
(* one joined; and that whatever the context still has to run belongs to   *)
(* an object that exists (ObjectInv), because Disconnect releases its      *)
(* pointer instead of destroying the object.                               *)
(***************************************************************************)
EXTENDS ClientInterface, TLAPS

\* A call in progress has a connection.
ConnInv == app \in {"thread", "send"} => conn # 0

ThreadInv ==
  /\ app # "terminated"
  /\ (app = "idle" /\ conn = 0) \/ app \in {"thread", "ended"} => runner = "none"

ObjectInv ==
  /\ \A o \in pending : o.on \in alive
  /\ runner = "busy" => current.on \in alive
  /\ conn # 0 => conn \in alive

TInv == TypeOK /\ ConnInv
CInv == TInv /\ ThreadInv /\ ObjectInv

-----------------------------------------------------------------------------
(* Types.                                                                  *)

LEMMA TInvInit == Init => TInv
<1> SUFFICES ASSUME Init PROVE TypeOK /\ ConnInv
  BY DEF TInv
<1>1. sock \in [Conns -> {"none", "open", "closed"}] /\ inbox \in [Conns -> 0..MaxMessages]
  BY BoundAssumption DEF Init
<1>2. /\ made \in 0..MaxConnects /\ conn \in 0..made
      /\ alive \subseteq 1..made /\ pending \subseteq [on : 1..made, kind : OpKinds]
  BY BoundAssumption DEF Init
<1>3. QED BY <1>1, <1>2 DEF Init, TypeOK, ConnInv

LEMMA TInvNext == TInv /\ [Next]_vars => TInv'
<1> SUFFICES ASSUME TypeOK, ConnInv, [Next]_vars PROVE TypeOK' /\ ConnInv'
  BY DEF TInv
<1> USE BoundAssumption DEF TypeOK, ConnInv
<1>1. CASE MakeConnection
  <2>1. made' \in 0..MaxConnects /\ made' = made + 1 /\ conn' = made' /\ conn' \in Conns
    BY <1>1 DEF MakeConnection, Conns
  <2>2. alive' \subseteq 1..made'
    BY <1>1, <2>1 DEF MakeConnection
  <2>3. pending' \subseteq [on : 1..made', kind : OpKinds]
    BY <1>1, <2>1 DEF MakeConnection, Op, OpKinds
  <2>4. current' \in {NoOp} \cup [on : 1..made', kind : OpKinds]
    BY <1>1, <2>1 DEF MakeConnection
  <2>5. sock' \in [Conns -> {"none", "open", "closed"}]
    BY <1>1, <2>1 DEF MakeConnection
  <2>6. QED BY <1>1, <2>1, <2>2, <2>3, <2>4, <2>5 DEF MakeConnection
<1>2. CASE StartThread
  BY <1>2 DEF StartThread, objects
<1>3. CASE Send
  <2>1. CASE CallSend
    BY <2>1 DEF CallSend, IsConnected, objects, context
  <2>2. CASE PostSend
    <3>1. conn \in 1..made /\ conn' = conn /\ made' = made
      BY <2>2 DEF PostSend, objects
    <3>2. pending' \subseteq [on : 1..made', kind : OpKinds]
      BY <2>2, <3>1 DEF PostSend, Op, OpKinds
    <3>3. QED BY <2>2, <3>1, <3>2 DEF PostSend, objects
  <2>3. QED BY <1>3, <2>1, <2>2 DEF Send
<1>4. ASSUME NEW destroy \in BOOLEAN, CallDisconnect(destroy) PROVE TypeOK' /\ ConnInv'
  BY <1>4 DEF CallDisconnect, objects, context
<1>5. CASE PostClose
  BY <1>5 DEF PostClose, IsConnected, objects, Op, OpKinds
<1>6. CASE Stop
  BY <1>6 DEF Stop, objects
<1>7. CASE Join
  BY <1>7 DEF Join
<1>8. CASE RunReturns
  BY <1>8 DEF RunReturns, InRun, objects
<1>9. ASSUME NEW c \in Conns, NEW kind \in OpKinds, Begin(Op(c, kind)) PROVE TypeOK' /\ ConnInv'
  BY <1>9 DEF Begin, InRun, objects
<1>10. ASSUME NEW next \in SUBSET OpKinds, Finish(next), current # NoOp,
              sock' \in [Conns -> {"none", "open", "closed"}],
              inbox' \in [Conns -> 0..MaxMessages]
       PROVE  TypeOK' /\ ConnInv'
  BY <1>10 DEF Finish, InRun, objects, Op
<1>11. CASE OnConnect \/ RunSend \/ OnWrite
  BY <1>10, <1>11 DEF OnConnect, RunSend, OnWrite, NoOp, Op, OpKinds
<1>12. CASE OnRead
  <2>1. current # NoOp /\ {"read"} \in SUBSET OpKinds
    BY <1>12 DEF OnRead, NoOp, Op, OpKinds
  <2>2. Finish({"read"}) /\ sock' = sock
    BY <1>12 DEF OnRead
  <2>3. current.on \in Conns
    BY <2>1 DEF Conns
  <2>4. inbox' \in [Conns -> 0..MaxMessages]
    <3>1. CASE UNCHANGED inbox
      BY <3>1
    <3>2. CASE /\ inbox[current.on] < MaxMessages
               /\ inbox' = [inbox EXCEPT ![current.on] = @ + 1]
      <4>1. inbox[current.on] + 1 \in 0..MaxMessages
        BY <2>3, <3>2
      <4>2. QED BY <2>3, <3>2, <4>1
    <3>3. QED BY <1>12, <3>1, <3>2 DEF OnRead
  <2>5. sock' \in [Conns -> {"none", "open", "closed"}]
    BY <2>2
  <2>6. QED BY <1>10, <2>1, <2>2, <2>4, <2>5
<1>13. CASE CloseSocket
  <2>1. current # NoOp /\ Finish({}) /\ inbox' = inbox
    BY <1>13 DEF CloseSocket, NoOp, Op
  <2>2. sock' \in [Conns -> {"none", "open", "closed"}]
    BY <1>13 DEF CloseSocket
  <2>3. QED BY <1>10, <2>1, <2>2
<1>14. CASE UNCHANGED vars
  BY <1>14 DEF vars
<1>15. QED
  BY <1>1, <1>2, <1>3, <1>4, <1>5, <1>6, <1>7, <1>8, <1>9, <1>11, <1>12, <1>13, <1>14
  DEF Next, Connect, Disconnect, ContextThread

\* The state of the client and of its context keeps its type, however it is used.
THEOREM TypeCorrect == Spec => []TypeOK
<1>1. TInv => TypeOK
  BY DEF TInv
<1>2. QED BY <1>1, TInvInit, TInvNext, PTL DEF Spec

-----------------------------------------------------------------------------
(* The careful application.                                                *)

LEMMA CInvInit == Init => CInv
<1> SUFFICES ASSUME Init PROVE CInv
  OBVIOUS
<1>1. TInv
  BY TInvInit
<1>2. ThreadInv /\ ObjectInv
  BY DEF Init, ThreadInv, ObjectInv
<1>3. QED BY <1>1, <1>2 DEF CInv

LEMMA CInvNext ==
  ASSUME Careful
  PROVE  CInv /\ [Next]_vars => CInv'
<1> SUFFICES ASSUME CInv, [Next]_vars PROVE CInv'
  OBVIOUS
<1>a. TypeOK /\ ConnInv /\ ThreadInv /\ ObjectInv
  BY DEF CInv, TInv
<1>b. TInv'
  BY TInvNext DEF CInv
<1> SUFFICES ThreadInv' /\ ObjectInv'
  BY <1>b DEF CInv
<1>1. CASE MakeConnection
  \* conn = 0, which is no object: nothing is destroyed.
  <2>1. conn = 0 /\ 0 \notin alive /\ runner' = runner /\ runner = "none"
    BY <1>1, <1>a DEF MakeConnection, TypeOK, ThreadInv
  <2>2. alive' = alive \cup {conn'} /\ pending' = pending \cup {Op(conn', "connect")}
    BY <1>1, <2>1 DEF MakeConnection
  <2>3. ThreadInv'
    BY <1>1, <2>1 DEF MakeConnection, ThreadInv
  <2>4. ObjectInv'
    BY <1>a, <2>1, <2>2 DEF ObjectInv, Op
  <2>5. QED BY <2>3, <2>4
<1>2. CASE StartThread
  <2>1. runner = "none" /\ conn # 0
    BY <1>2, <1>a DEF StartThread, ThreadInv, ConnInv
  <2>2. QED BY <1>2, <1>a, <2>1 DEF StartThread, objects, ThreadInv, ObjectInv
<1>3. CASE CallSend \/ PostSend
  <2>1. ThreadInv'
    BY <1>3, <1>a DEF CallSend, PostSend, IsConnected, objects, context, ThreadInv, ConnInv
  <2>2. CASE CallSend
    BY <2>1, <2>2, <1>a DEF CallSend, objects, context, ObjectInv
  <2>3. CASE PostSend
    <3>1. conn \in alive
      BY <2>3, <1>a DEF PostSend, ConnInv, ObjectInv
    <3>2. QED BY <2>1, <2>3, <3>1, <1>a DEF PostSend, objects, ObjectInv, Op
  <2>4. QED BY <1>3, <2>1, <2>2, <2>3
<1>4. ASSUME NEW destroy \in BOOLEAN, CallDisconnect(destroy) PROVE ThreadInv' /\ ObjectInv'
  BY <1>4, <1>a DEF CallDisconnect, objects, context, ThreadInv, ObjectInv
<1>5. CASE PostClose
  <2>1. ThreadInv'
    BY <1>5, <1>a DEF PostClose, objects, ThreadInv
  <2>2. IsConnected => conn \in alive
    BY <1>a DEF IsConnected, ObjectInv
  <2>3. ObjectInv'
    BY <1>5, <2>2, <1>a DEF PostClose, objects, ObjectInv, Op
  <2>4. QED BY <2>1, <2>3
<1>6. CASE Stop
  BY <1>6, <1>a DEF Stop, objects, ThreadInv, ObjectInv
<1>7. CASE Join
  BY <1>7, <1>a DEF Join, TypeOK, ThreadInv, ObjectInv
<1>8. CASE RunReturns
  BY <1>8, <1>a DEF RunReturns, InRun, objects, ThreadInv, ObjectInv
<1>9. ASSUME NEW c \in Conns, NEW kind \in OpKinds, Begin(Op(c, kind))
      PROVE  ThreadInv' /\ ObjectInv'
  BY <1>9, <1>a DEF Begin, InRun, objects, ThreadInv, ObjectInv
<1>10. ASSUME NEW next, Finish(next) PROVE ThreadInv' /\ ObjectInv'
  BY <1>10, <1>a DEF Finish, InRun, objects, ThreadInv, ObjectInv, Op
<1>11. CASE OnConnect \/ OnRead \/ RunSend \/ OnWrite \/ CloseSocket
  BY <1>10, <1>11 DEF OnConnect, OnRead, RunSend, OnWrite, CloseSocket
<1>12. CASE UNCHANGED vars
  BY <1>12, <1>a DEF vars, ThreadInv, ObjectInv
<1>13. QED
  BY <1>1, <1>2, <1>3, <1>4, <1>5, <1>6, <1>7, <1>8, <1>9, <1>11, <1>12
  DEF Next, Connect, Send, Disconnect, ContextThread

\* No handler runs on a connection object that has been destroyed.
THEOREM NoUseAfterFree ==
  ASSUME Careful
  PROVE  Spec => []HandlersLive
<1>1. CInv => HandlersLive
  BY DEF CInv, ObjectInv, HandlersLive
<1>2. QED BY <1>1, CInvInit, CInvNext, PTL DEF Spec

\* Connect and the destructor always find the old thread joined.
THEOREM ThreadsJoined ==
  ASSUME Careful
  PROVE  Spec => []NoTerminate
<1>1. CInv => NoTerminate
  BY DEF CInv, ThreadInv, NoTerminate
<1>2. QED BY <1>1, CInvInit, CInvNext, PTL DEF Spec

\* After Disconnect has returned nothing is pushed into m_qMessagesIn.
THEOREM QueueIsTheApplications ==
  ASSUME Careful
  PROVE  Spec => QuietWhenDisconnected
<1>1. CInv /\ [Next]_vars
      => [(app = "idle" /\ conn = 0) \/ app = "ended" => UNCHANGED inbox]_vars
  <2> SUFFICES ASSUME CInv, [Next]_vars, (app = "idle" /\ conn = 0) \/ app = "ended"
               PROVE  UNCHANGED inbox
    OBVIOUS
  <2>1. runner = "none"
    BY DEF CInv, ThreadInv
  <2>2. ~ OnRead
    BY <2>1 DEF OnRead, Finish, InRun
  <2>3. QED
    BY <2>2
    DEF Next, Connect, MakeConnection, StartThread, Send, CallSend, PostSend, CallDisconnect,
        Disconnect, PostClose, Stop, Join, ContextThread, RunReturns, Begin, OnConnect,
        RunSend, OnWrite, CloseSocket, vars
<1>2. QED BY <1>1, CInvInit, CInvNext, PTL DEF Spec, QuietWhenDisconnected
=============================================================================
