------------------------------ MODULE WssClient ------------------------------
(***************************************************************************)
(* hjw::wss: the client_interface that opens and closes a secure websocket *)
(* (wss_client_interface.hpp), its io_context run by several threads, and  *)
(* the session (wss_session.hpp) whose handlers those threads run: resolve,*)
(* connect, TLS handshake, websocket handshake, one write, then reads for  *)
(* as long as they succeed.  Each handler starts the next operation, so a  *)
(* session has one operation pending; its handlers, but for OnResolve, are *)
(* bound to the strand m_oAsioStrand.                                      *)
(*                                                                         *)
(* A thread that runs a handler enters it, starts the next operation, and  *)
(* is still inside when that operation completes: it leaves later.         *)
(***************************************************************************)
EXTENDS Naturals

CONSTANTS MaxOpens,     \* bound: calls of Open
          Counts,       \* the thread counts an application sets; 3 by default
          MaxThreads,   \* bound: threads made ...
          MaxAfterThrow \* ... none above this one, once an Open has failed

ASSUME BoundAssumption == /\ MaxOpens \in Nat /\ MaxThreads \in Nat /\ MaxAfterThrow \in Nat
                          /\ Counts \subseteq Nat

Sessions == 1..MaxOpens
Threads  == 1..MaxThreads

VARIABLES
  app,           \* where the application thread is
  nThreadCount,  \* m_nThreadCount
  left,          \* threads Open has still to make
  bOpenSocket,   \* m_bOpenSocket
  made,          \* sessions made; the last is m_pSession
  stage,         \* the operation a session is at; "dead" once a handler has failed
  op,            \* that operation: "waiting", completed "ok" or "failed", or "none"
  timer,         \* a time limit is set on it
  stopped,       \* m_oAsioContext.stopped()
  thread,        \* the threads: unmade, in run(), in a handler, returned, joined
  work,          \* the handler a thread is in
  threw          \* history: a thread could not be created

vars == <<app, nThreadCount, left, bOpenSocket, made, stage, op, timer, stopped, thread, work, threw>>
interface == <<app, nThreadCount, left, bOpenSocket, made, threw>>
session   == <<stage, op, timer>>

Stages == {"resolve", "connect", "ssl", "handshake", "write", "read"}

NoWork == [on |-> 0, stage |-> "none", ok |-> FALSE]

\* The operation each handler starts.
Following == [resolve |-> "connect", connect |-> "ssl", ssl |-> "handshake",
              handshake |-> "write", write |-> "read", read |-> "read"]

\* expires_after before the TCP connection and the TLS handshake, the suggested timeout on
\* the websocket handshake, none on the rest.  (Mutant: OnConnect does not renew it.)
Limited_NotSSL(s) == s \in {"connect", "handshake"}
Limited(s) == s \in {"connect", "ssl", "handshake"}

\* The executor each handler is bound to: OnResolve runs on the resolver's own strand.
Executor == [resolve |-> "m_oResolver", connect |-> "m_oAsioStrand", ssl |-> "m_oAsioStrand",
             handshake |-> "m_oAsioStrand", write |-> "m_oAsioStrand", read |-> "m_oAsioStrand"]

Inside(t) == thread[t] \in {"enter", "leave"}

\* The vector holds a std::thread that has not been joined: destroying it ends the program.
Joinable == \E t \in Threads : thread[t] \notin {"unmade", "joined"}

Init == /\ app = "idle" /\ nThreadCount = 3 /\ left = 0 /\ bOpenSocket = FALSE /\ made = 0
        /\ stage = [s \in Sessions |-> "none"]
        /\ op = [s \in Sessions |-> "none"]
        /\ timer = [s \in Sessions |-> FALSE]
        /\ stopped = FALSE
        /\ thread = [t \in Threads |-> "unmade"]
        /\ work = [t \in Threads |-> NoWork]
        /\ threw = FALSE

-----------------------------------------------------------------------------
(* The application thread.                                                 *)

SetThreadCount(n) ==
  /\ app = "idle" /\ ~bOpenSocket
  /\ nThreadCount' = n
  /\ app' = IF Joinable THEN "terminated" ELSE "idle"
  /\ thread' = IF Joinable THEN thread ELSE [t \in Threads |-> "unmade"]
  /\ UNCHANGED <<left, bOpenSocket, made, session, stopped, work, threw>>

\* Open, when the socket is not open already: a new session, its async_resolve, ...
Open ==
  /\ app = "idle" /\ ~bOpenSocket /\ made < MaxOpens
  /\ made' = made + 1
  /\ stage' = [stage EXCEPT ![made'] = "resolve"]
  /\ op' = [op EXCEPT ![made'] = "waiting"]
  /\ app' = "spawn"
  /\ left' = nThreadCount
  /\ UNCHANGED <<nThreadCount, bOpenSocket, timer, stopped, thread, work, threw>>

\* m_tvThreads grows at its end.
NextThread(t) == /\ thread[t] = "unmade" /\ \A u \in Threads : u < t => thread[u] # "unmade"
                 /\ threw => t <= MaxAfterThrow

\* ... the threads, one by one, ...  (Mutant: i <= m_nThreadCount.)
Spawn_OneMore(t) ==
  /\ app = "spawn" /\ left >= 0
  /\ NextThread(t)
  /\ thread' = [thread EXCEPT ![t] = "running"]
  /\ left' = left - 1
  /\ UNCHANGED <<app, nThreadCount, bOpenSocket, made, session, stopped, work, threw>>
Spawn(t) ==
  /\ app = "spawn" /\ left > 0
  /\ NextThread(t)
  /\ thread' = [thread EXCEPT ![t] = "running"]
  /\ left' = left - 1
  /\ UNCHANGED <<app, nThreadCount, bOpenSocket, made, session, stopped, work, threw>>

\* ... or an exception, caught by Open, ...
SpawnThrows == /\ app = "spawn" /\ left > 0
               /\ app' = "idle"
               /\ left' = 0
               /\ threw' = TRUE
               /\ UNCHANGED <<nThreadCount, bOpenSocket, made, session, stopped, thread, work>>

\* ... and the flag.  (Mutant: it is set only when the session is connected.)
Opened_Late == /\ app = "spawn" /\ left = 0
               /\ app' = "idle"
               /\ bOpenSocket' = (stage[made] \in {"write", "read"})
               /\ UNCHANGED <<nThreadCount, left, made, session, stopped, thread, work, threw>>
Opened == /\ app = "spawn" /\ left = 0
          /\ app' = "idle"
          /\ bOpenSocket' = TRUE
          /\ UNCHANGED <<nThreadCount, left, made, session, stopped, thread, work, threw>>

\* Close, which the application calls if isOpen(): it stops the context ...  (Mutant: it
\* only joins.)
Close_NoStop == /\ app = "idle" /\ bOpenSocket
                /\ app' = "join"
                /\ UNCHANGED <<nThreadCount, left, bOpenSocket, made, session, stopped, thread, work, threw>>
Close == /\ app = "idle" /\ bOpenSocket
         /\ app' = "join"
         /\ stopped' = TRUE
         /\ UNCHANGED <<nThreadCount, left, bOpenSocket, made, session, thread, work, threw>>

\* ... joins the threads, and clears the flag.  (Mutant: they are detached.)
Join_Detach == /\ app = "join"
               /\ thread' = [t \in Threads |-> IF thread[t] = "ended" THEN "joined" ELSE thread[t]]
               /\ bOpenSocket' = FALSE
               /\ app' = "idle"
               /\ UNCHANGED <<nThreadCount, left, made, session, stopped, work, threw>>
Join == /\ app = "join"
        /\ \A t \in Threads : thread[t] \in {"unmade", "ended", "joined"}
        /\ thread' = [t \in Threads |-> IF thread[t] = "ended" THEN "joined" ELSE thread[t]]
        /\ bOpenSocket' = FALSE
        /\ app' = "idle"
        /\ UNCHANGED <<nThreadCount, left, made, session, stopped, work, threw>>

\* The destructor, once the application has closed what it believes open.
Destroy == /\ app = "idle" /\ ~bOpenSocket
           /\ app' = IF Joinable THEN "terminated" ELSE "gone"
           /\ UNCHANGED <<nThreadCount, left, bOpenSocket, made, session, stopped, thread, work, threw>>

-----------------------------------------------------------------------------
(* The network and the timers.                                             *)

\* The threads in run() also drive the reactor, as long as the context is not stopped.
Complete(s, result) == /\ op[s] = "waiting" /\ ~stopped
                       /\ op' = [op EXCEPT ![s] = result]
                       /\ timer' = [timer EXCEPT ![s] = FALSE]
                       /\ UNCHANGED <<interface, stage, stopped, thread, work>>

Timeout(s) == timer[s] /\ Complete(s, "failed")

-----------------------------------------------------------------------------
(* The threads of the context.                                             *)

RunReturns(t) ==
  /\ thread[t] = "running"
  /\ \/ stopped
     \/ \A s \in Sessions : op[s] = "none" /\ \A u \in Threads : ~Inside(u)
  /\ thread' = [thread EXCEPT ![t] = "ended"]
  /\ stopped' = TRUE
  /\ UNCHANGED <<interface, session, work>>

\* What asio promises of a strand: none of its handlers starts while a thread is inside one.
StrandFree(s) == \A u \in Threads :
    Inside(u) /\ work[u].on = s => Executor[work[u].stage] # Executor[stage[s]]

Enter(t, s) ==
  /\ thread[t] = "running" /\ ~stopped
  /\ op[s] \in {"ok", "failed"}
  /\ StrandFree(s)
  /\ thread' = [thread EXCEPT ![t] = "enter"]
  /\ work' = [work EXCEPT ![t] = [on |-> s, stage |-> stage[s], ok |-> op[s] = "ok"]]
  /\ op' = [op EXCEPT ![s] = "none"]
  /\ UNCHANGED <<interface, stage, timer, stopped>>

\* OnResolve, OnConnect, OnSSLHandshake, OnHandshake, OnWrite and OnRead, without an error.
StartNext(t) ==
  /\ thread[t] = "enter" /\ work[t].ok
  /\ LET s == work[t].on
         next == Following[work[t].stage]
     IN  /\ stage' = [stage EXCEPT ![s] = next]
         /\ op' = [op EXCEPT ![s] = "waiting"]
         /\ timer' = [timer EXCEPT ![s] = Limited(next)]
  /\ thread' = [thread EXCEPT ![t] = "leave"]
  /\ UNCHANGED <<interface, stopped, work>>

\* With an error, or when the host name cannot be set: fail prints it, nothing is started.
Fail(t) ==
  /\ thread[t] = "enter"
  /\ work[t].ok => work[t].stage = "connect"
  /\ stage' = [stage EXCEPT ![work[t].on] = "dead"]
  /\ thread' = [thread EXCEPT ![t] = "leave"]
  /\ UNCHANGED <<interface, op, timer, stopped, work>>

Leave(t) == /\ thread[t] = "leave"
            /\ thread' = [thread EXCEPT ![t] = "running"]
            /\ work' = [work EXCEPT ![t] = NoWork]
            /\ UNCHANGED <<interface, session, stopped>>

-----------------------------------------------------------------------------

Application == \/ \E n \in Counts : SetThreadCount(n)
               \/ Open \/ SpawnThrows \/ Opened \/ Close \/ Join \/ Destroy
               \/ \E t \in Threads : Spawn(t)

Network == \E s \in Sessions : Timeout(s) \/ \E result \in {"ok", "failed"} : Complete(s, result)

Run(t) == RunReturns(t) \/ (\E s \in Sessions : Enter(t, s)) \/ StartNext(t) \/ Fail(t) \/ Leave(t)

Next == Application \/ Network \/ \E t \in Threads : Run(t)

Spec == Init /\ [][Next]_vars

(***************************************************************************)
(* The threads run, calls of the application that have begun go on, timers *)
(* expire, and the context's queue of completed operations is first in     *)
(* first out: the handler of one session is not passed over for ever for   *)
(* those of another.  The network owes nothing: a peer may stay silent.    *)
(***************************************************************************)
Fairness == /\ \A t \in Threads : WF_vars(Run(t))
            /\ \A s \in Sessions : SF_vars(\E t \in Threads : Enter(t, s))
            /\ \A s \in Sessions : WF_vars(Timeout(s))
            /\ WF_vars(Opened \/ Join \/ \E t \in Threads : Spawn(t))

FairSpec == Spec /\ Fairness

-----------------------------------------------------------------------------
(* Properties.                                                             *)

TypeOK == /\ app \in {"idle", "spawn", "join", "gone", "terminated"}
          /\ nThreadCount \in Nat /\ left \in Nat /\ bOpenSocket \in BOOLEAN
          /\ made \in 0..MaxOpens
          /\ stage \in [Sessions -> Stages \cup {"none", "dead"}]
          /\ op \in [Sessions -> {"none", "waiting", "ok", "failed"}]
          /\ timer \in [Sessions -> BOOLEAN]
          /\ stopped \in BOOLEAN /\ threw \in BOOLEAN
          /\ thread \in [Threads -> {"unmade", "running", "enter", "leave", "ended", "joined"}]
          /\ work \in [Threads -> {NoWork} \cup [on : Sessions, stage : Stages, ok : BOOLEAN]]

\* Nothing is open, and no Open has failed half way, which leaves threads running.
Closed == app \in {"idle", "gone"} /\ ~bOpenSocket /\ ~threw

\* Once Close has returned no thread touches a session any more, although its stop may find
\* some half way through a handler and leaves operations pending: the next Open, or the
\* destructor, may let the session go.
QuietWhenClosed ==
  [][Closed => /\ UNCHANGED <<work, stopped>>
               /\ \A s \in 1..made : /\ stage'[s] = stage[s] /\ op'[s] = op[s]
                                     /\ timer'[s] = timer[s]]_vars

\* Every thread is joined before the vector that holds it is cleared or destroyed, for an
\* application that closes what isOpen() says is open, unless Open failed to create one: it
\* then leaves the others running and isOpen() false.
NoTerminate == app = "terminated" => threw

\* A session cannot hang before its websocket is open: each step that waits for the peer
\* has a time limit.
HandshakeEnds == \A s \in Sessions :
    stage[s] = "connect" ~> stage[s] \in {"write", "read", "dead"} \/ stopped

\* Close returns.
CloseReturns == app = "join" ~> app = "idle"
=============================================================================
