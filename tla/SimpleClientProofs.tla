------------------------- MODULE SimpleClientProofs -------------------------
(***************************************************************************)
(* Proof that SimpleClient, with its two threads that call the interface,  *)
(* uses it as one thread does.  The argument is where the threads can be   *)
(* (PlaceInv): the keyboard thread is inside Send only while the main      *)
(* thread is in its loop or waits to join, and calls nothing.  What        *)
(* ClientInterfaceProofs shows of a client then carries over.              *)
(***************************************************************************)
EXTENDS SimpleClient, TLAPS

PlaceInv ==
  /\ phase \in {"connect", "loop", "join", "leave"}
  /\ keys \in {"idle", "send"}
  /\ phase = "connect" => keys = "idle" /\ runner = "none"
  /\ phase \in {"loop", "join"} => main = "idle"
  /\ phase = "leave" => keys = "idle" /\ keyboard # "reading"
  /\ keys = "send" => keyboard = "reading"

\* Init establishes it.
LEMMA PlaceInit == Init => PlaceInv
BY DEF Init, PlaceInv, MainCall!Init, KeyCall!Init

\* Every step keeps it.
LEMMA PlaceNext == PlaceInv /\ [Next]_vars => PlaceInv'
<1> SUFFICES ASSUME PlaceInv, [Next]_vars PROVE PlaceInv'
  OBVIOUS
<1> USE DEF PlaceInv, interface, program
<1>1. CASE Connect
  BY <1>1 DEF Connect, MainCall!MakeConnection, MainCall!StartThread, MainCall!objects
<1>2. CASE ConnectFails
  BY <1>2 DEF ConnectFails
<1>3. CASE TakeMessage \/ ServerDown \/ LeaveLoop
  BY <1>3 DEF TakeMessage, ServerDown, LeaveLoop, InLoop
<1>4. CASE JoinKeyboard
  BY <1>4 DEF JoinKeyboard
<1>5. CASE Destroy
  BY <1>5 DEF Destroy
<1>6. CASE QuitKey \/ KeyboardFails
  BY <1>6 DEF QuitKey, KeyboardFails, AtKeyboard
<1>7. CASE RequestKey
  BY <1>7 DEF RequestKey, AtKeyboard, KeyCall!CallSend
<1>8. CASE SendRequest
  BY <1>8 DEF SendRequest, KeyCall!PostSend
<1>9. CASE ContextThread
  <2>1. UNCHANGED <<program, keys>>
    BY <1>9 DEF ContextThread
  <2>2. UNCHANGED main /\ runner # "none"
    BY <1>9 DEF ContextThread, MainCall!ContextThread, MainCall!RunReturns, MainCall!Begin,
       MainCall!OnConnect, MainCall!OnRead, MainCall!RunSend, MainCall!OnWrite,
       MainCall!CloseSocket, MainCall!Finish, MainCall!InRun
  <2> QED
    BY <2>1, <2>2
<1>10. CASE UNCHANGED vars
  BY <1>10 DEF vars
<1> QED
  BY <1>1, <1>2, <1>3, <1>4, <1>5, <1>6, <1>7, <1>8, <1>9, <1>10 DEF Next, Main

-----------------------------------------------------------------------------
(* The calls as the interface sees them.                                   *)

\* A call of the main thread is one of the one caller's, for it is made while the keyboard
\* thread calls nothing.
LEMMA MainStep == PlaceInv /\ (Connect \/ Destroy) => OneCaller!Next
<1> SUFFICES ASSUME PlaceInv, Connect \/ Destroy PROVE OneCaller!Next
  OBVIOUS
<1>1. keys = "idle" /\ keys' = "idle"
  BY DEF PlaceInv, Connect, Destroy
<1>2. CASE Connect
  <2>1. CASE MainCall!MakeConnection
    <3>1. OneCaller!MakeConnection
      BY <1>1, <2>1 DEF MainCall!MakeConnection, OneCaller!MakeConnection, MainCall!Conns,
         OneCaller!Conns, MainCall!Op, OneCaller!Op
    <3> QED
      BY <3>1 DEF OneCaller!Next, OneCaller!Connect
  <2>2. CASE MainCall!StartThread
    <3>1. OneCaller!StartThread
      BY <1>1, <2>2 DEF MainCall!StartThread, OneCaller!StartThread, MainCall!objects,
         OneCaller!objects
    <3> QED
      BY <3>1 DEF OneCaller!Next, OneCaller!Connect
  <2> QED
    BY <1>2, <2>1, <2>2 DEF Connect
<1>3. CASE MainCall!CallDisconnect(TRUE)
  <2>1. OneCaller!CallDisconnect(TRUE)
    BY <1>1, <1>3 DEF MainCall!CallDisconnect, OneCaller!CallDisconnect, MainCall!IsConnected,
       OneCaller!IsConnected, MainCall!objects, OneCaller!objects, MainCall!context,
       OneCaller!context
  <2> QED
    BY <2>1 DEF OneCaller!Next
<1>4. CASE MainCall!Disconnect
  <2>1. CASE MainCall!PostClose
    <3>1. OneCaller!PostClose
      BY <1>1, <2>1 DEF MainCall!PostClose, OneCaller!PostClose, MainCall!IsConnected,
         OneCaller!IsConnected, MainCall!objects, OneCaller!objects, MainCall!Op, OneCaller!Op
    <3> QED
      BY <3>1 DEF OneCaller!Next, OneCaller!Disconnect
  <2>2. CASE MainCall!Stop
    <3>1. OneCaller!Stop
      BY <1>1, <2>2 DEF MainCall!Stop, OneCaller!Stop, MainCall!objects, OneCaller!objects
    <3> QED
      BY <3>1 DEF OneCaller!Next, OneCaller!Disconnect
  <2>3. CASE MainCall!Join
    <3>1. OneCaller!Join
      BY <1>1, <2>3 DEF MainCall!Join, OneCaller!Join
    <3> QED
      BY <3>1 DEF OneCaller!Next, OneCaller!Disconnect
  <2> QED
    BY <1>4, <2>1, <2>2, <2>3 DEF MainCall!Disconnect
<1> QED
  BY <1>2, <1>3, <1>4 DEF Destroy

\* A call of the keyboard thread finds the main thread outside the interface.
LEMMA KeyStep == PlaceInv /\ (RequestKey \/ SendRequest) => OneCaller!Next
<1> SUFFICES ASSUME PlaceInv, RequestKey \/ SendRequest PROVE OneCaller!Next
  OBVIOUS
<1>1. main = "idle" /\ main' = "idle"
  BY DEF PlaceInv, RequestKey, SendRequest, AtKeyboard, KeyCall!PostSend
<1>2. CASE RequestKey
  <2>1. OneCaller!CallSend
    BY <1>1, <1>2 DEF RequestKey, KeyCall!CallSend, OneCaller!CallSend, KeyCall!IsConnected,
       OneCaller!IsConnected, KeyCall!objects, OneCaller!objects, KeyCall!context,
       OneCaller!context
  <2> QED
    BY <2>1 DEF OneCaller!Next, OneCaller!Send
<1>3. CASE SendRequest
  <2>1. OneCaller!PostSend
    BY <1>1, <1>3 DEF SendRequest, KeyCall!PostSend, OneCaller!PostSend, KeyCall!objects,
       OneCaller!objects, KeyCall!Op, OneCaller!Op
  <2> QED
    BY <2>1 DEF OneCaller!Next, OneCaller!Send
<1> QED
  BY <1>2, <1>3

\* The context thread does not tell the two threads from one.
LEMMA ContextStep == PlaceInv /\ ContextThread => OneCaller!Next
<1> DEFINE caller == IF keys = "send" THEN "send" ELSE main
<1> SUFFICES ASSUME PlaceInv, ContextThread PROVE OneCaller!ContextThread
  BY DEF OneCaller!Next
<1>1. UNCHANGED <<program, keys>> /\ MainCall!ContextThread
  BY DEF ContextThread
<1>2. UNCHANGED main /\ main # "terminated"
  BY <1>1 DEF MainCall!ContextThread, MainCall!RunReturns, MainCall!Begin, MainCall!OnConnect,
     MainCall!OnRead, MainCall!RunSend, MainCall!OnWrite, MainCall!CloseSocket,
     MainCall!Finish, MainCall!InRun
<1>3. UNCHANGED caller /\ caller # "terminated"
  BY <1>1, <1>2
<1>4. CASE MainCall!RunReturns
  <2>1. OneCaller!RunReturns
    BY <1>3, <1>4 DEF MainCall!RunReturns, OneCaller!RunReturns, MainCall!InRun,
       OneCaller!InRun, MainCall!objects, OneCaller!objects
  <2> QED
    BY <2>1 DEF OneCaller!ContextThread
<1>5. ASSUME NEW c \in MainCall!Conns, NEW kind \in MainCall!OpKinds,
             MainCall!Begin(MainCall!Op(c, kind))
      PROVE  OneCaller!ContextThread
  <2>1. OneCaller!Begin(OneCaller!Op(c, kind))
    BY <1>3, <1>5 DEF MainCall!Begin, OneCaller!Begin, MainCall!InRun, OneCaller!InRun,
       MainCall!objects, OneCaller!objects, MainCall!Op, OneCaller!Op
  <2>2. c \in OneCaller!Conns /\ kind \in OneCaller!OpKinds
    BY DEF MainCall!Conns, OneCaller!Conns, MainCall!OpKinds, OneCaller!OpKinds
  <2> QED
    BY <2>1, <2>2 DEF OneCaller!ContextThread
<1>6. ASSUME NEW next, MainCall!Finish(next) PROVE OneCaller!Finish(next)
  BY <1>3, <1>6 DEF MainCall!Finish, OneCaller!Finish, MainCall!InRun, OneCaller!InRun,
     MainCall!objects, OneCaller!objects, MainCall!Op, OneCaller!Op, MainCall!NoOp,
     OneCaller!NoOp
<1>7. CASE MainCall!OnConnect
  <2>1. OneCaller!OnConnect
    BY <1>6, <1>7 DEF MainCall!OnConnect, OneCaller!OnConnect
  <2> QED
    BY <2>1 DEF OneCaller!ContextThread
<1>8. CASE MainCall!OnRead
  <2>1. OneCaller!OnRead
    BY <1>6, <1>8 DEF MainCall!OnRead, OneCaller!OnRead
  <2> QED
    BY <2>1 DEF OneCaller!ContextThread
<1>9. CASE MainCall!RunSend
  <2>1. OneCaller!RunSend
    BY <1>6, <1>9 DEF MainCall!RunSend, OneCaller!RunSend
  <2> QED
    BY <2>1 DEF OneCaller!ContextThread
<1>10. CASE MainCall!OnWrite
  <2>1. OneCaller!OnWrite
    BY <1>6, <1>10 DEF MainCall!OnWrite, OneCaller!OnWrite
  <2> QED
    BY <2>1 DEF OneCaller!ContextThread
<1>11. CASE MainCall!CloseSocket
  <2>1. OneCaller!CloseSocket
    BY <1>6, <1>11 DEF MainCall!CloseSocket, OneCaller!CloseSocket
  <2> QED
    BY <2>1 DEF OneCaller!ContextThread
<1> QED
  BY <1>1, <1>4, <1>5, <1>7, <1>8, <1>9, <1>10, <1>11 DEF MainCall!ContextThread

-----------------------------------------------------------------------------

\* The interface, which nothing protects from two callers, is used by the two threads of
\* the program as by one that connects once: whatever is true of such a client, from the
\* threads that are joined to the handlers that find their connection, is true here.
THEOREM UsedByOne == Spec => OneCallerSpec
<1>1. Init => OneCaller!Init
  BY DEF Init, MainCall!Init, KeyCall!Init, OneCaller!Init, MainCall!Conns, OneCaller!Conns,
     MainCall!NoOp, OneCaller!NoOp, MainCall!Op, OneCaller!Op
<1>2. PlaceInv /\ [Next]_vars => [OneCaller!Next]_(OneCaller!vars)
  <2> SUFFICES ASSUME PlaceInv, [Next]_vars PROVE OneCaller!Next \/ UNCHANGED OneCaller!vars
    OBVIOUS
  <2>1. CASE UNCHANGED interface
    BY <2>1 DEF interface, OneCaller!vars
  <2>2. ConnectFails \/ TakeMessage \/ ServerDown \/ LeaveLoop \/ JoinKeyboard \/ QuitKey
        \/ KeyboardFails \/ UNCHANGED vars => UNCHANGED interface
    BY DEF ConnectFails, TakeMessage, ServerDown, LeaveLoop, InLoop, JoinKeyboard, QuitKey,
       KeyboardFails, vars
  <2> QED
    BY <2>1, <2>2, MainStep, KeyStep, ContextStep DEF Next, Main
<1> QED
  BY <1>1, <1>2, PlaceInit, PlaceNext, PTL DEF Spec, OneCallerSpec, OneCaller!Spec

-----------------------------------------------------------------------------
(* What ClientInterfaceProofs shows of a careful client that connects once *)
(* is true of the one that the two threads make up (UsedByOne), and so of  *)
(* the program.                                                            *)

One == INSTANCE ClientInterfaceProofs
       WITH app <- IF keys = "send" THEN "send" ELSE main,
            MaxConnects <- 1, Careful <- TRUE

LEMMA OneBounds == One!BoundAssumption
BY MessagesAssumption DEF One!BoundAssumption

\* OneCaller is that client.
LEMMA OneSpec == OneCallerSpec => One!Spec
<1>1. OneCaller!Init => One!Init
  BY DEF OneCaller!Init, One!Init, OneCaller!Conns, One!Conns, OneCaller!Op, One!Op,
     OneCaller!NoOp, One!NoOp
<1>2. OneCaller!Next => One!Next
  BY DEF OneCaller!Next, One!Next, OneCaller!Connect, One!Connect,
     OneCaller!MakeConnection, One!MakeConnection, OneCaller!StartThread,
     One!StartThread, OneCaller!Send, One!Send, OneCaller!CallSend, One!CallSend,
     OneCaller!PostSend, One!PostSend, OneCaller!CallDisconnect, One!CallDisconnect,
     OneCaller!Disconnect, One!Disconnect, OneCaller!PostClose, One!PostClose,
     OneCaller!Stop, One!Stop, OneCaller!Join, One!Join, OneCaller!ContextThread,
     One!ContextThread, OneCaller!RunReturns, One!RunReturns, OneCaller!Begin,
     One!Begin, OneCaller!OnConnect, One!OnConnect, OneCaller!OnRead, One!OnRead,
     OneCaller!RunSend, One!RunSend, OneCaller!OnWrite, One!OnWrite,
     OneCaller!CloseSocket, One!CloseSocket, OneCaller!Finish, One!Finish,
     OneCaller!InRun, One!InRun, OneCaller!IsConnected, One!IsConnected,
     OneCaller!objects, One!objects, OneCaller!context, One!context, OneCaller!Conns,
     One!Conns, OneCaller!OpKinds, One!OpKinds, OneCaller!Op, One!Op, OneCaller!NoOp,
     One!NoOp
<1>3. [OneCaller!Next]_(OneCaller!vars) => [One!Next]_(One!vars)
  BY <1>2 DEF OneCaller!vars, One!vars
<1> QED
  BY <1>1, <1>3, PTL DEF OneCallerSpec, OneCaller!Spec, One!Spec

LEMMA OneTypes == Spec => []One!TypeOK
BY OneBounds, One!TypeCorrect, UsedByOne, OneSpec, PTL

\* What the interface does not hold: among it the messages the main thread has taken, no
\* more than the server sent.
TakenInv ==
  /\ bQuit \in BOOLEAN
  /\ keyboard \in {"reading", "quit", "failed"}
  /\ popped \in 0..MaxMessages

LEMMA TakenInit == Init => TakenInv
<1> SUFFICES ASSUME Init PROVE TakenInv
  OBVIOUS
<1>1. bQuit \in BOOLEAN /\ keyboard = "reading"
  BY DEF Init
<1>2. popped \in 0..MaxMessages
  BY MessagesAssumption DEF Init
<1> QED
  BY <1>1, <1>2 DEF TakenInv

LEMMA TakenNext == One!TypeOK /\ TakenInv /\ [Next]_vars => TakenInv'
<1> SUFFICES ASSUME One!TypeOK, TakenInv, [Next]_vars PROVE TakenInv'
  OBVIOUS
<1> USE DEF TakenInv
<1>1. CASE TakeMessage
  <2>1. popped' = popped + 1 /\ popped < inbox[conn] /\ UNCHANGED <<bQuit, keyboard>>
    BY <1>1 DEF TakeMessage, InLoop
  <2>2. conn \in 1..1
    BY <1>1 DEF TakeMessage, IsConnected, MainCall!IsConnected, One!TypeOK
  <2>3. inbox[conn] \in 0..MaxMessages
    BY <2>2 DEF One!TypeOK, One!Conns
  <2> QED
    BY <2>1, <2>3, MessagesAssumption
<1>2. CASE QuitKey \/ ServerDown
  BY <1>2 DEF QuitKey, ServerDown, InLoop
<1>3. CASE KeyboardFails
  BY <1>3 DEF KeyboardFails
<1>4. ConnectFails \/ LeaveLoop \/ JoinKeyboard \/ Connect \/ Destroy \/ RequestKey
      \/ SendRequest \/ ContextThread \/ UNCHANGED vars
      => UNCHANGED <<bQuit, popped, keyboard>>
  BY DEF ConnectFails, LeaveLoop, InLoop, JoinKeyboard, Connect, Destroy, RequestKey,
     SendRequest, ContextThread, vars, program
<1> QED
  BY <1>1, <1>2, <1>3, <1>4 DEF Next, Main

\* The two threads and the interface they share keep their types.
THEOREM ProgramTypes == Spec => []TypeOK
<1>1. PlaceInv /\ One!TypeOK /\ TakenInv => TypeOK
  BY DEF PlaceInv, TakenInv, TypeOK, MainCall!TypeOK, One!TypeOK, MainCall!Conns, One!Conns,
     MainCall!OpKinds, One!OpKinds, MainCall!NoOp, One!NoOp, MainCall!Op, One!Op
<1> QED
  BY <1>1, PlaceInit, PlaceNext, TakenInit, TakenNext, OneTypes, PTL DEF Spec

\* With the keyboard thread in Send, or not, no handler runs on a connection that has been
\* destroyed and no std::thread is replaced or destroyed before it is joined.
THEOREM ProgramInterface == Spec => [](MainCall!HandlersLive /\ MainCall!NoTerminate)
<1>1. One!HandlersLive => MainCall!HandlersLive
  BY DEF One!HandlersLive, MainCall!HandlersLive
<1>2. PlaceInv /\ One!NoTerminate => MainCall!NoTerminate
  BY DEF PlaceInv, One!NoTerminate, MainCall!NoTerminate
<1>3. Spec => []One!HandlersLive /\ []One!NoTerminate
  BY OneBounds, One!NoUseAfterFree, One!ThreadsJoined, UsedByOne, OneSpec, PTL
<1> QED
  BY <1>1, <1>2, <1>3, PlaceInit, PlaceNext, PTL DEF Spec
=============================================================================
