-------------------------------- MODULE Server --------------------------------
(***************************************************************************)
(* hjw::net::server_interface (networking/src/net_server.hpp) as           *)
(* SimpleServer.cpp uses it.  The thread of m_oContext runs the accept     *)
(* handler and the handlers of the connections; the application thread     *)
(* runs update, whose OnMessage answers a ping or broadcasts to the others,*)
(* and finally Stop.  They share m_qMessagesIn, whose operations are atomic*)
(* (TsQueue), and m_dqConnections, which nothing protects.                 *)
(*                                                                         *)
(* A connection exists while a shared_ptr to it does: in m_dqConnections,  *)
(* in a queued message, or in the message update is handling.  Its handlers*)
(* hold a raw pointer.  What they read and write is the subject of         *)
(* Connection; here an operation is only pending, then run.                *)
(*                                                                         *)
(* Where C++ gives the program no meaning (a data race on m_dqConnections, *)
(* a handler of a destroyed connection) anything may follow: the behaviour *)
(* ends in the state "undefined".                                          *)
(***************************************************************************)
EXTENDS SequencesExt, Naturals

CONSTANTS MaxClients,   \* bound: clients that connect
          MaxMessages   \* bound: messages the clients send

ASSUME BoundAssumption == MaxClients \in Nat /\ MaxMessages \in Nat

Clients == 1..MaxClients
Null == 0
MessageKinds == {"ServerPing", "MessageAll"}
Message == [remote : Clients, kind : MessageKinds]

VARIABLES
  app,         \* where the application thread is
  msg,         \* <<>>, or <<m>> for the message update is handling
  at,          \* MessageAllClients: the index it is at
  invalid,     \* MessageAllClients: bInvalidConnectionsExist
  dq,          \* m_dqConnections
  inbox,       \* m_qMessagesIn
  runner,      \* the context thread: none, in run(), in a handler, returned
  stopped,     \* m_oContext.stopped()
  accepting,   \* an async_accept is pending
  made,        \* clients the accept handler has dealt with
  sock,        \* m_oSocket of each connection
  pending,     \* operations and lambdas of the connections still to run, one of a kind for each
  received,    \* messages the clients have sent
  told,        \* history: OnClientDisconnect calls for each client
  reached      \* history: clients the broadcast in progress has been sent to

vars == <<app, msg, at, invalid, dq, inbox, runner, stopped, accepting, made,
          sock, pending, received, told, reached>>
loop    == <<at, invalid, reached>>
context == <<runner, stopped, accepting, made>>

\* A read and the writes of a connection, a posted Send, OnClientConnection's among them,
\* and a read that completed before its socket was closed.
OpKinds == {"read", "write", "send", "greet", "late"}
Op(c, kind) == [on |-> c, kind |-> kind]

\* The shared pointers to c.
Held(c) == \/ c \in Range(dq)
           \/ \E i \in DOMAIN inbox : inbox[i].remote = c
           \/ \E i \in DOMAIN msg : msg[i].remote = c

\* The program still runs, with a meaning.
Defined == app \notin {"undefined", "terminated"}

Init == /\ app = "new" /\ msg = <<>> /\ at = 0 /\ invalid = FALSE
        /\ dq = <<>> /\ inbox = <<>>
        /\ runner = "none" /\ stopped = FALSE /\ accepting = FALSE
        /\ made = 0
        /\ sock = [c \in Clients |-> "none"]
        /\ pending = {}
        /\ received = 0
        /\ told = [c \in Clients |-> 0]
        /\ reached = {}

-----------------------------------------------------------------------------
(* The application thread.                                                 *)

\* The accept is primed, then the thread started; if it cannot be, Start only says so.
Start == /\ app = "new"
         /\ app' = "idle"
         /\ accepting' = TRUE
         /\ runner' \in {"none", "running"}
         /\ UNCHANGED <<msg, loop, dq, inbox, stopped, made, sock, pending, received, told>>

\* update takes the next message ...
TakeMessage == /\ app = "idle" /\ inbox # <<>>
               /\ app' = "handle"
               /\ msg' = <<Head(inbox)>>
               /\ inbox' = Tail(inbox)
               /\ UNCHANGED <<loop, dq, context, sock, pending, received, told>>

\* ... and OnMessage sends a ping back, whether or not its client is still connected.
BouncePing == /\ app = "handle" /\ msg[1].kind = "ServerPing"
              /\ pending' = pending \cup {Op(msg[1].remote, "send")}
              /\ app' = "idle"
              /\ msg' = <<>>
              /\ UNCHANGED <<loop, dq, inbox, context, sock, received, told>>

\* MessageAllClients(msgOut, client): the loop, one element at a time, then the erase.  The
\* loop never meets a null (ToldOnce).
BeginBroadcast == /\ app = "handle" /\ msg[1].kind = "MessageAll"
                  /\ app' = "visit"
                  /\ at' = 1 /\ invalid' = FALSE /\ reached' = {}
                  /\ UNCHANGED <<msg, dq, inbox, context, sock, pending, received, told>>

Visiting == app = "visit" /\ at <= Len(dq)

VisitOpen == /\ Visiting /\ dq[at] # Null /\ sock[dq[at]] = "open"
             /\ IF dq[at] # msg[1].remote
                THEN /\ pending' = pending \cup {Op(dq[at], "send")}
                     /\ reached' = reached \cup {dq[at]}
                ELSE UNCHANGED <<pending, reached>>
             /\ at' = at + 1
             /\ UNCHANGED <<app, msg, invalid, dq, inbox, context, sock, received, told>>

\* OnClientDisconnect(client), client.reset().  (Mutant: the element is erased in the loop.)
VisitClosed_Erase ==
  /\ Visiting /\ dq[at] # Null /\ sock[dq[at]] = "closed"
  /\ told' = [told EXCEPT ![dq[at]] = @ + 1]
  /\ dq' = RemoveAt(dq, at)
  /\ at' = at + 1
  /\ UNCHANGED <<app, msg, invalid, reached, inbox, context, sock, pending, received>>
VisitClosed ==
  /\ Visiting /\ dq[at] # Null /\ sock[dq[at]] = "closed"
  /\ told' = [told EXCEPT ![dq[at]] = @ + 1]
  /\ dq' = [dq EXCEPT ![at] = Null]
  /\ invalid' = TRUE
  /\ at' = at + 1
  /\ UNCHANGED <<app, msg, reached, inbox, context, sock, pending, received>>

\* erase(remove(...)): the entries that are left, in their order; f says where each was.
Kept == {i \in DOMAIN dq : dq[i] # Null}
EraseNulls == \E f \in [1..Cardinality(Kept) -> Kept] :
                 /\ \A i, j \in DOMAIN f : i < j => f[i] < f[j]
                 /\ dq' = [i \in DOMAIN f |-> dq[f[i]]]

\* The end of the loop, and the erase of what it has reset.  (Mutant: no erase.)
EndBroadcast_NoErase == /\ app = "visit" /\ at > Len(dq)
                        /\ app' = "idle"
                        /\ msg' = <<>>
                        /\ at' = 0 /\ invalid' = FALSE /\ reached' = {}
                        /\ UNCHANGED <<dq, inbox, context, sock, pending, received, told>>
EndBroadcast == /\ app = "visit" /\ at > Len(dq)
                /\ IF invalid THEN EraseNulls ELSE UNCHANGED dq
                /\ app' = "idle"
                /\ msg' = <<>>
                /\ at' = 0 /\ invalid' = FALSE /\ reached' = {}
                /\ UNCHANGED <<inbox, context, sock, pending, received, told>>

\* Stop, which the destructor calls too.  (Mutant of Join: the thread is not joined.)
Stop == /\ app = "idle"
        /\ app' = "join"
        /\ stopped' = TRUE
        /\ UNCHANGED <<msg, loop, dq, inbox, runner, accepting, made, sock, pending,
                       received, told>>

Join_Detach == /\ app = "join"
               /\ app' = "stopped"
               /\ UNCHANGED <<msg, loop, dq, inbox, context, sock, pending, received, told>>
Join == /\ app = "join" /\ runner \in {"none", "ended"}
        /\ app' = "stopped"
        /\ UNCHANGED <<msg, loop, dq, inbox, context, sock, pending, received, told>>

\* The members are destroyed in the reverse of their order: m_oContext with its services
\* first, then the connections whose sockets those services keep.
Destroy == /\ app = "stopped"
           /\ app' = IF \E c \in Clients : Held(c) THEN "undefined" ELSE "destroyed"
           /\ UNCHANGED <<msg, loop, dq, inbox, context, sock, pending, received, told>>

-----------------------------------------------------------------------------
(* The context thread: the accept handler.                                 *)

\* A handler begins while the context is not stopped.  What it does takes effect at its
\* end, which Stop does not prevent.
Begin == /\ Defined /\ runner = "running" /\ ~stopped
         /\ pending # {} \/ (accepting /\ made < MaxClients)
         /\ runner' = "busy"
         /\ UNCHANGED <<app, msg, loop, dq, inbox, stopped, accepting, made, sock, pending,
                        received, told>>

\* WaitForClientConnection is called again at the end of the handler, whatever happened.
\* (Mutant: only after a connection.)
Reprimed_OnConnection(outcome) == outcome # "error"
Reprimed(outcome) == TRUE

AcceptHandler(outcome) ==
  /\ Defined /\ runner = "busy"
  /\ accepting /\ made < MaxClients
  /\ runner' = "running"
  /\ made' = made + 1
  /\ accepting' = Reprimed(outcome)
  /\ UNCHANGED <<msg, loop, inbox, stopped, received, told>>

\* m_dqConnections is pushed to while the application iterates over it.
Race == app = "visit"

\* OnClientConnection greets the client, which posts a Send, and approves it;
\* ConnectToClient starts the write of the validation word and the read of the answer.  (Mutant: they start on
\* m_dqConnections.back() as it was before the push_back.)
Approve_Previous == /\ AcceptHandler("approved")
                    /\ sock' = [sock EXCEPT ![made'] = "open"]
                    /\ dq' = Append(dq, made')
                    /\ pending' = pending \cup {Op(made, kind) : kind \in {"read", "write", "greet"}}
                    /\ app' = IF Race THEN "undefined" ELSE app
Approve == /\ AcceptHandler("approved")
           /\ sock' = [sock EXCEPT ![made'] = "open"]
           /\ dq' = Append(dq, made')
           /\ pending' = pending \cup {Op(made', kind) : kind \in {"read", "write", "greet"}}
           /\ app' = IF Race THEN "undefined" ELSE app

\* OnClientConnection refuses it without a word: the connection is destroyed.
Deny == /\ AcceptHandler("denied")
        /\ sock' = [sock EXCEPT ![made'] = "closed"]
        /\ UNCHANGED <<app, dq, pending>>

AcceptError == /\ AcceptHandler("error")
               /\ UNCHANGED <<app, sock, dq, pending>>

\* remote_endpoint() throws for a client that is already gone; nothing catches it.
AcceptThrows == /\ AcceptHandler("throws")
                /\ app' = "terminated"
                /\ UNCHANGED <<sock, dq, pending>>

-----------------------------------------------------------------------------
(* The context thread: the handlers of the connections.                    *)

\* A handler of c that leaves next pending in place of done.  The Send of the greeting was
\* posted before anything else of c was started: it is the first to run.
Run(c, done, next) ==
  /\ Defined /\ runner = "busy"
  /\ \A kind \in done : Op(c, kind) \in pending
  /\ Op(c, "greet") \in pending => done = {"greet"}
  /\ runner' = "running"
  /\ pending' = (pending \ {Op(c, kind) : kind \in done}) \cup {Op(c, kind) : kind \in next}
  /\ UNCHANGED <<msg, loop, dq, stopped, accepting, made, told>>

\* A read that was not the last of its message, or that ends one, pushed with a shared_ptr.
\* Either way the next read is started, on a closed socket too.
OnRead(c) == /\ \/ sock[c] = "open" /\ Run(c, {"read"}, {"read"})
                \/ Run(c, {"late"}, {"read"})
             /\ Held(c)
             /\ \/ UNCHANGED <<inbox, received>>
                \/ /\ received < MaxMessages
                   /\ received' = received + 1
                   /\ \E kind \in MessageKinds :
                        inbox' = Append(inbox, [remote |-> c, kind |-> kind])
             /\ UNCHANGED <<app, sock>>

\* A write that has another to follow, or not; a send that starts one if there is none.
OnWrite(c) == /\ \E next \in {{}, {"write"}} : Run(c, {"write"}, next)
              /\ Held(c)
              /\ UNCHANGED <<app, sock, inbox, received>>

RunSend(c) == /\ \E kind \in {"greet", "send"} : Run(c, {kind}, {"write"})
              /\ Held(c)
              /\ UNCHANGED <<app, sock, inbox, received>>

\* The error path of every handler; the peer may fail at any time.  A write may fail when
\* the read has completed, and waits for its turn.
OnError(c) == /\ \/ \E kind \in {"read", "write"} : Run(c, {kind}, {})
                 \/ sock[c] = "open" /\ Run(c, {"read", "write"}, {"late"})
              /\ Held(c)
              /\ sock' = [sock EXCEPT ![c] = "closed"]
              /\ UNCHANGED <<app, inbox, received>>

\* Any handler of a connection that has been destroyed.
OnDestroyed(c) == /\ \E kind \in OpKinds : Run(c, {kind}, {})
                  /\ ~Held(c)
                  /\ app' = "undefined"
                  /\ UNCHANGED <<sock, inbox, received>>

\* run() returns when the context is stopped or has no work left.
RunReturns == /\ Defined /\ runner = "running"
              /\ stopped \/ (~accepting /\ pending = {})
              /\ runner' = "ended"
              /\ stopped' = TRUE
              /\ UNCHANGED <<app, msg, loop, dq, inbox, accepting, made, sock,
                             pending, received, told>>

-----------------------------------------------------------------------------

MessageAllClients == VisitOpen \/ VisitClosed \/ EndBroadcast

Update == TakeMessage \/ BouncePing \/ BeginBroadcast \/ MessageAllClients

Application == Start \/ Update \/ Stop \/ Join \/ Destroy

AcceptClient == Approve \/ Deny \/ AcceptError \/ AcceptThrows

ConnectionHandler(c) == OnRead(c) \/ OnWrite(c) \/ RunSend(c) \/ OnError(c) \/ OnDestroyed(c)

Next == \/ Application
        \/ Begin
        \/ AcceptClient
        \/ \E c \in Clients : ConnectionHandler(c)
        \/ RunReturns

Spec == Init /\ [][Next]_vars

-----------------------------------------------------------------------------
(* Properties.                                                             *)

TypeOK == /\ app \in {"new", "idle", "handle", "visit", "join", "stopped", "destroyed",
                      "undefined", "terminated"}
          /\ msg \in {<<>>} \cup {<<m>> : m \in Message}
          /\ at \in Nat /\ invalid \in BOOLEAN
          /\ dq \in Seq(Clients \cup {Null})
          /\ inbox \in Seq(Message)
          /\ runner \in {"none", "running", "busy", "ended"}
          /\ stopped \in BOOLEAN /\ accepting \in BOOLEAN
          /\ made \in 0..MaxClients
          /\ sock \in [Clients -> {"none", "open", "closed"}]
          /\ pending \subseteq [on : 1..made, kind : OpKinds]
          /\ received \in 0..MaxMessages
          /\ told \in [Clients -> Nat]
          /\ reached \subseteq Clients

\* OnClientDisconnect is called at most once for a client, once its socket has closed, and
\* the list then forgets it.  It is never called with the null left by an earlier call:
\* the only null entries are those the loop in progress has passed.
ToldOnce ==
  /\ \A c \in Clients : /\ told[c] <= 1
                        /\ told[c] = 1 => sock[c] = "closed" /\ c \notin Range(dq)
  /\ \A i \in DOMAIN dq : dq[i] = Null => app \in {"visit", "undefined", "terminated"} /\ i < at

\* When the loop of a broadcast ends, every client still in the list but the sender has
\* been sent the message or has closed: a client found closed on the way hides no other.
BroadcastReaches ==
  app = "visit" /\ at > Len(dq) =>
      \A c \in Range(dq) \ {Null, msg[1].remote} : c \in reached \/ sock[c] = "closed"

\* Once Stop has returned the context thread touches nothing: what it shares with the
\* application may be used, or destroyed, without it.
QuietWhenStopped ==
  [][(app \in {"stopped", "destroyed"}) =>
        UNCHANGED <<dq, inbox, runner, sock, pending, made>>]_vars

\* The context thread serves until Stop: whatever clients were approved, denied or lost, it
\* has an accept to wait for.
ServesUntilStop == runner = "ended" => app \in {"join", "stopped", "destroyed", "undefined"}

\* "client cannot be conntacted so must be disconnected": a connection that is let go has
\* no handler left to run.
LetGoIsDone == \A o \in pending : Held(o.on)
=============================================================================
