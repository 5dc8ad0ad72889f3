--------------------------- MODULE ClientInterface ---------------------------
(***************************************************************************)
(* hjw::net::client_interface (networking/src/net_client.hpp): the         *)
(* connections it makes one after the other, its io_context, and the       *)
(* thread it starts to run that context.  The application thread calls     *)
(* Connect, Send and Disconnect; the context thread runs the handlers of   *)
(* every connection that still has an operation pending, whether or not    *)
(* the interface still points to it.                                       *)
(*                                                                         *)
(* What a connection reads and writes is the subject of Connection.  Here  *)
(* an operation is only pending, then run, and its handler starts the next *)
(* one, or closes the socket.  A handler that runs is "busy" for a while,  *)
(* so that Disconnect and the handler overlap.                             *)
(***************************************************************************)
EXTENDS Naturals

CONSTANTS MaxConnects,  \* bound: calls of Connect
          MaxMessages,  \* bound: messages a connection pushes
          Careful       \* TRUE if the application calls Disconnect before it connects again

ASSUME BoundAssumption == MaxConnects \in Nat /\ MaxMessages \in Nat /\ Careful \in BOOLEAN

Conns == 1..MaxConnects

VARIABLES
  app,       \* where the application thread is
  leaving,   \* it is in the destructor
  made,      \* connections made so far
  conn,      \* m_pConnection, 0 when null
  alive,     \* the connection objects that exist
  sock,      \* their m_oSocket
  pending,   \* operations and lambdas m_oContext has not run
  stopped,   \* m_oContext.stopped()
  runner,    \* m_tContextThread: none, in run(), in a handler, or returned from run()
  current,   \* the handler it is in
  inbox      \* messages each connection has pushed into m_qMessagesIn

vars == <<app, leaving, made, conn, alive, sock, pending, stopped, runner, current, inbox>>
objects == <<made, conn, alive>>
context == <<pending, stopped, runner, current>>

OpKinds == {"connect", "read", "write", "send", "close"}
Op(c, kind) == [on |-> c, kind |-> kind]
NoOp == Op(0, "none")

\* IsConnected
IsConnected == conn # 0 /\ sock[conn] = "open"

Init == /\ app = "idle" /\ leaving = FALSE
        /\ made = 0 /\ conn = 0 /\ alive = {}
        /\ sock = [c \in Conns |-> "none"]
        /\ pending = {} /\ stopped = FALSE
        /\ runner = "none" /\ current = NoOp
        /\ inbox = [c \in Conns |-> 0]

-----------------------------------------------------------------------------
(* The application thread: Connect.                                        *)

\* A Connect whose resolve throws changes nothing.  Otherwise m_pConnection takes the new
\* connection, which destroys the one it held, and async_connect opens the new socket.
MakeConnection ==
  /\ app = "idle" /\ made < MaxConnects
  /\ Careful => conn = 0
  /\ app' = "thread"
  /\ made' = made + 1
  /\ conn' = made'
  /\ alive' = (alive \ {conn}) \cup {conn'}
  /\ sock' = [c \in Conns |-> CASE c = conn' -> "open"
                                [] c = conn  -> "closed"
                                [] OTHER     -> sock[c]]
  /\ pending' = pending \cup {Op(conn', "connect")}
  /\ UNCHANGED <<leaving, stopped, runner, current, inbox>>

\* A thread that cannot be started leaves the connection to nobody: Connect returns false.
\* Assigning to a std::thread that is still joinable ends the program.
StartThread ==
  /\ app = "thread"
  /\ IF runner = "none" THEN app' = "idle" /\ runner' \in {"none", "running"}
                        ELSE app' = "terminated" /\ UNCHANGED runner
  /\ UNCHANGED <<leaving, objects, sock, pending, stopped, current, inbox>>

-----------------------------------------------------------------------------
(* Send, and Disconnect, which the destructor calls too.  A socket found   *)
(* open may be closed by the time the lambda is posted.                    *)

\* (Mutant: m_pConnection is not tested.)
CallSend_Unchecked == /\ app = "idle"
                      /\ app' = "send"
                      /\ UNCHANGED <<leaving, objects, sock, context, inbox>>
CallSend == /\ app = "idle" /\ IsConnected
            /\ app' = "send"
            /\ UNCHANGED <<leaving, objects, sock, context, inbox>>

PostSend == /\ app = "send"
            /\ app' = "idle"
            /\ pending' = pending \cup {Op(conn, "send")}
            /\ UNCHANGED <<leaving, objects, sock, stopped, runner, current, inbox>>

CallDisconnect(destroy) ==
  /\ app = "idle"
  /\ leaving' = destroy
  /\ app' = IF IsConnected THEN "post" ELSE "stop"
  /\ UNCHANGED <<objects, sock, context, inbox>>

\* connection::Disconnect looks at the socket once more.
PostClose == /\ app = "post"
             /\ app' = "stop"
             /\ pending' = IF IsConnected THEN pending \cup {Op(conn, "close")} ELSE pending
             /\ UNCHANGED <<leaving, objects, sock, stopped, runner, current, inbox>>

\* (Mutant: the context is left to run out of work by itself.)
Stop_Omitted == /\ app = "stop"
                /\ app' = "join"
                /\ UNCHANGED <<leaving, objects, sock, context, inbox>>
Stop == /\ app = "stop"
        /\ app' = "join"
        /\ stopped' = TRUE
        /\ UNCHANGED <<leaving, objects, sock, pending, runner, current, inbox>>

\* join, then m_pConnection.release(): the pointer is forgotten, the object is not
\* destroyed.  (Mutants: join only where the connection was open; reset() and restart() to
\* make the client ready for the next Connect; detach() instead of join().)
Join_IfConnected ==
  /\ app = "join"
  /\ IsConnected => runner \in {"none", "ended"}
  /\ runner' = IF IsConnected THEN "none" ELSE runner
  /\ conn' = 0
  /\ app' = IF leaving THEN IF runner' = "none" THEN "ended" ELSE "terminated" ELSE "idle"
  /\ UNCHANGED <<leaving, made, alive, sock, pending, stopped, current, inbox>>
Join_ResetRestart ==
  /\ app = "join"
  /\ runner \in {"none", "ended"}
  /\ runner' = "none"
  /\ conn' = 0 /\ alive' = alive \ {conn} /\ stopped' = FALSE
  /\ app' = IF leaving THEN "ended" ELSE "idle"
  /\ UNCHANGED <<leaving, made, sock, pending, current, inbox>>
Join_Detach ==
  /\ app = "join"
  /\ conn' = 0
  /\ app' = IF leaving THEN "ended" ELSE "idle"
  /\ UNCHANGED <<leaving, made, alive, sock, context, inbox>>
Join ==
  /\ app = "join"
  /\ runner \in {"none", "ended"}
  /\ runner' = "none"
  /\ conn' = 0
  /\ app' = IF leaving THEN "ended" ELSE "idle"
  /\ UNCHANGED <<leaving, made, alive, sock, pending, stopped, current, inbox>>

-----------------------------------------------------------------------------
(* The context thread.  Nothing runs after std::terminate.                 *)

InRun(state) == app # "terminated" /\ runner = state

\* run() returns when the context is stopped, and stops it when no work is left.
RunReturns == /\ InRun("running")
              /\ stopped \/ pending = {}
              /\ runner' = "ended"
              /\ stopped' = TRUE
              /\ UNCHANGED <<app, leaving, objects, sock, pending, current, inbox>>

Begin(op) == /\ InRun("running") /\ ~stopped
             /\ op \in pending
             /\ pending' = pending \ {op}
             /\ runner' = "busy"
             /\ current' = op
             /\ UNCHANGED <<app, leaving, objects, sock, stopped, inbox>>

\* The handler in progress ends, having started the operations next.
Finish(next) == /\ InRun("busy")
                /\ runner' = "running"
                /\ current' = NoOp
                /\ pending' = pending \cup {Op(current.on, kind) : kind \in next}
                /\ UNCHANGED <<app, leaving, objects, stopped>>

\* async_connect succeeded: read the validation word.
OnConnect == /\ current.kind = "connect" /\ sock[current.on] = "open"
             /\ Finish({"read"})
             /\ UNCHANGED <<sock, inbox>>

\* A read completed part of a message, or all of it: AddToIncomingMessageQueue.
OnRead == /\ current.kind = "read"
          /\ Finish({"read"})
          /\ \/ UNCHANGED inbox
             \/ /\ inbox[current.on] < MaxMessages
                /\ inbox' = [inbox EXCEPT ![current.on] = @ + 1]
          /\ UNCHANGED sock

RunSend == /\ current.kind = "send"
           /\ Finish({"write"})
           /\ UNCHANGED <<sock, inbox>>

OnWrite == /\ current.kind = "write"
           /\ \/ Finish({"write"})
              \/ Finish({})
           /\ UNCHANGED <<sock, inbox>>

\* The posted close, and the error path of every handler.
CloseSocket == /\ current.kind \in {"close", "connect", "read", "write"}
               /\ Finish({})
               /\ sock' = [sock EXCEPT ![current.on] = "closed"]
               /\ UNCHANGED inbox

-----------------------------------------------------------------------------

Connect == MakeConnection \/ StartThread
Send == CallSend \/ PostSend
Disconnect == PostClose \/ Stop \/ Join

ContextThread == \/ RunReturns
                 \/ \E c \in Conns, kind \in OpKinds : Begin(Op(c, kind))
                 \/ OnConnect \/ OnRead \/ RunSend \/ OnWrite \/ CloseSocket

Next == \/ Connect
        \/ Send
        \/ \E destroy \in BOOLEAN : CallDisconnect(destroy)
        \/ Disconnect
        \/ ContextThread

Spec == Init /\ [][Next]_vars

\* The two threads keep running; the application is free to call nothing more.
Fairness == WF_vars(StartThread \/ PostSend \/ Disconnect) /\ WF_vars(ContextThread)
FairSpec == Spec /\ Fairness

-----------------------------------------------------------------------------
(* Properties.                                                             *)

TypeOK == /\ app \in {"idle", "thread", "send", "post", "stop", "join", "ended", "terminated"}
          /\ leaving \in BOOLEAN
          /\ made \in 0..MaxConnects
          /\ conn \in 0..made
          /\ alive \subseteq 1..made
          /\ sock \in [Conns -> {"none", "open", "closed"}]
          /\ pending \subseteq [on : 1..made, kind : OpKinds]
          /\ stopped \in BOOLEAN
          /\ runner \in {"none", "running", "busy", "ended"}
          /\ current \in {NoOp} \cup [on : 1..made, kind : OpKinds]
          /\ inbox \in [Conns -> 0..MaxMessages]

\* No handler, which holds a raw pointer to its connection, runs on one that has been
\* destroyed.
HandlersLive == runner = "busy" => current.on \in alive

\* Every std::thread is joined before another takes its place and before it is destroyed.
NoTerminate == app # "terminated"

\* Once Disconnect has returned nothing is pushed into m_qMessagesIn any more: the
\* application may use the queue, or destroy it, without the context thread.
QuietWhenDisconnected == [][(app = "idle" /\ conn = 0) \/ app = "ended" => UNCHANGED inbox]_vars

\* Disconnect, and with it the destructor, returns: join never waits for a thread that
\* waits for the network.
DisconnectReturns == app = "post" ~> app \in {"idle", "ended"}
=============================================================================
