----------------------------- MODULE RestService -----------------------------
(***************************************************************************)
(* hjw::rest::Interface with its Listener and its Sessions                 *)
(* (networking/src/rest_*.hpp), and the program that owns an object of a   *)
(* class derived from Interface.  One thread runs m_ioc: the accept        *)
(* coroutine, one coroutine per session, and the handler of the signal.    *)
(* A coroutine runs from one co_await to the next without interruption;    *)
(* only the request handler, which is the derived class's own code, takes  *)
(* time here, so that it overlaps the destructor.                          *)
(*                                                                         *)
(* The derived object is destroyed before ~Interface joins the thread.  A  *)
(* request handler that is running then, or is called after, has no        *)
(* meaning in C++: the behaviour ends in the state "undefined".            *)
(***************************************************************************)
CONSTANTS Clients,   \* each connects at most once
          NoClient

ASSUME ClientAssumption == NoClient \notin Clients

VARIABLES
  app,       \* where the owner is; "joining" is inside ~Interface
  thread,    \* m_ctxThread: none, in run(), returned from it
  guard,     \* m_ctxGuard owns work
  stopped,   \* m_ioc.stopped()
  signal,    \* SIGINT or SIGTERM: none, raised, its handler has run
  listener,  \* co_accept: none, accepting, ended; broken if it has no port
  stage,     \* each client's session
  serving    \* the session whose request handler is running

vars == <<app, thread, guard, stopped, signal, listener, stage, serving>>
context == <<thread, guard, stopped>>

Stages == {"absent", "connecting", "reading", "requested", "handling", "writing",
           "answered", "failed"}

Defined == app # "undefined"

Init == /\ app = "new" /\ thread = "none"
        /\ guard = TRUE /\ stopped = FALSE
        /\ signal = "none" /\ listener = "none"
        /\ stage = [c \in Clients |-> "absent"]
        /\ serving = NoClient

MoveTo(c, s) == stage' = [stage EXCEPT ![c] = s]

-----------------------------------------------------------------------------
(* The owner.                                                              *)

\* The constructor of Listener only prints that it could not open, bind or listen.
Listen == listener' \in {"accepting", "broken"}

Start == /\ app = "new"
         /\ app' = "running"
         /\ Listen
         /\ thread' = "running"
         /\ UNCHANGED <<guard, stopped, signal, stage, serving>>

\* make_address, or the constructor of the thread, throws: ~Interface has nothing to join.
StartThrows == /\ app = "new"
               /\ app' = "destroyed"
               /\ UNCHANGED <<context, signal, listener, stage, serving>>

DestroyDerived == /\ app = "running"
                  /\ app' = IF serving = NoClient THEN "joining" ELSE "undefined"
                  /\ UNCHANGED <<context, signal, listener, stage, serving>>

\* The end of ~Interface.  (Mutant: detach instead of join.)
Join_Detach == /\ app = "joining"
               /\ app' = "destroyed"
               /\ UNCHANGED <<context, signal, listener, stage, serving>>
Join == /\ app = "joining" /\ thread = "ended"
        /\ app' = "destroyed"
        /\ UNCHANGED <<context, signal, listener, stage, serving>>

-----------------------------------------------------------------------------
(* The outside: a signal, which the set keeps until it is waited for, and  *)
(* the clients, whom the system connects while the port is open, accepted  *)
(* or not.                                                                 *)

RaiseSignal == /\ Defined /\ app # "destroyed" /\ signal = "none"
               /\ signal' = "raised"
               /\ UNCHANGED <<app, context, listener, stage, serving>>

Connect(c) == /\ Defined /\ app # "destroyed"
              /\ listener \in {"accepting", "ended"} /\ stage[c] = "absent"
              /\ MoveTo(c, "connecting")
              /\ UNCHANGED <<app, context, signal, listener, serving>>

\* async_read has the whole request.
Request(c) == /\ Defined /\ app # "destroyed" /\ stage[c] = "reading"
              /\ MoveTo(c, "requested")
              /\ UNCHANGED <<app, context, signal, listener, serving>>

-----------------------------------------------------------------------------
(* The context thread.                                                     *)

\* It can start another handler.  (Mutant: several threads run the context.)
Ready_Threads == Defined /\ thread = "running" /\ ~stopped
Ready == Defined /\ thread = "running" /\ ~stopped /\ serving = NoClient

\* (Mutant: only the guard is reset.)
OnSignal_NoStop == /\ Ready /\ signal = "raised"
                   /\ signal' = "handled"
                   /\ guard' = FALSE
                   /\ UNCHANGED <<app, thread, stopped, listener, stage, serving>>
OnSignal == /\ Ready /\ signal = "raised"
            /\ signal' = "handled"
            /\ guard' = FALSE
            /\ stopped' = TRUE
            /\ UNCHANGED <<app, thread, listener, stage, serving>>

\* co_accept spawns the session and accepts again.  (Mutant: it awaits session->run().)
Accept_Awaits(c) == /\ Ready /\ listener = "accepting" /\ stage[c] = "connecting"
                    /\ \A d \in Clients : stage[d] \in {"absent", "connecting", "answered", "failed"}
                    /\ MoveTo(c, "reading")
                    /\ UNCHANGED <<app, context, signal, listener, serving>>
Accept(c) == /\ Ready /\ listener = "accepting" /\ stage[c] = "connecting"
             /\ MoveTo(c, "reading")
             /\ UNCHANGED <<app, context, signal, listener, serving>>

\* async_accept throws, and the detached coroutine ends without a word.
AcceptThrows == /\ Ready /\ listener = "accepting"
                /\ listener' = "ended"
                /\ UNCHANGED <<app, context, signal, stage, serving>>

\* Interface::handler calls the derived class's function for the method of the request.
Handler(c) == IF app = "running"
              THEN MoveTo(c, "handling") /\ serving' = c /\ UNCHANGED app
              ELSE app' = "undefined" /\ UNCHANGED <<stage, serving>>

CallHandler(c) == /\ Ready /\ stage[c] = "requested"
                  /\ Handler(c)
                  /\ UNCHANGED <<context, signal, listener>>

\* The handler's answer is written.  (Mutant: the session reads on instead.)
HandlerReturns_ReadsOn(c) == /\ Defined /\ serving = c
                             /\ MoveTo(c, "reading")
                             /\ serving' = NoClient
                             /\ UNCHANGED <<app, context, signal, listener>>
HandlerReturns(c) == /\ Defined /\ serving = c
                     /\ MoveTo(c, "writing")
                     /\ serving' = NoClient
                     /\ UNCHANGED <<app, context, signal, listener>>

Written(c) == /\ Ready /\ stage[c] = "writing"
              /\ MoveTo(c, "answered")
              /\ UNCHANGED <<app, context, signal, listener, serving>>

\* async_read, the request handler or async_write throws: only this session ends.
\* (Mutant: the exception leaves run(), which the thread catches.)
SessionThrows_Rethrown(c) ==
  /\ \/ Ready /\ stage[c] \in {"reading", "writing"}
     \/ Defined /\ serving = c
  /\ MoveTo(c, "failed")
  /\ serving' = NoClient
  /\ thread' = "ended"
  /\ UNCHANGED <<app, guard, stopped, signal, listener>>
SessionThrows(c) == /\ \/ Ready /\ stage[c] \in {"reading", "writing"}
                       \/ Defined /\ serving = c
                    /\ MoveTo(c, "failed")
                    /\ serving' = NoClient
                    /\ UNCHANGED <<app, context, signal, listener>>

Work == \/ guard \/ signal # "handled" \/ listener = "accepting"
        \/ \E c \in Clients : stage[c] \in {"reading", "requested", "writing"}

RunReturns == /\ Defined /\ thread = "running" /\ serving = NoClient
              /\ stopped \/ ~Work
              /\ thread' = "ended" /\ stopped' = TRUE
              /\ UNCHANGED <<app, guard, signal, listener, stage, serving>>

-----------------------------------------------------------------------------

Owner == Start \/ StartThrows \/ DestroyDerived \/ Join

Session(c) == CallHandler(c) \/ HandlerReturns(c) \/ Written(c) \/ SessionThrows(c)

Next == \/ Owner
        \/ RaiseSignal
        \/ OnSignal \/ AcceptThrows \/ RunReturns
        \/ \E c \in Clients : Connect(c) \/ Request(c) \/ Accept(c) \/ Session(c)

Spec == Init /\ [][Next]_vars

\* The context takes its handlers in the order they became ready, so none is passed over
\* for ever; the derived class's handlers return or throw.  Nobody owes it a signal, a
\* client, or a request.
Fairness == /\ WF_vars(Join) /\ WF_vars(RunReturns) /\ SF_vars(OnSignal)
            /\ \A c \in Clients : /\ SF_vars(Accept(c))
                                  /\ SF_vars(CallHandler(c))
                                  /\ WF_vars(serving = c /\ (HandlerReturns(c) \/ SessionThrows(c)))
FairSpec == Spec /\ Fairness

-----------------------------------------------------------------------------
(* Properties.                                                             *)

\* The types; a request handler is entered by one session at a time.
TypeOK == /\ app \in {"new", "running", "joining", "destroyed", "undefined"}
          /\ thread \in {"none", "running", "ended"}
          /\ guard \in BOOLEAN /\ stopped \in BOOLEAN
          /\ signal \in {"none", "raised", "handled"}
          /\ listener \in {"none", "accepting", "ended", "broken"}
          /\ stage \in [Clients -> Stages]
          /\ serving \in Clients \cup {NoClient}
          /\ \A c \in Clients : stage[c] = "handling" <=> serving = c

\* "Handle CRTL+C to gracefully stop": the context thread returns from run() for a signal
\* only, whatever became of the sessions and of the listener.
RunsUntilSignal == thread = "ended" => signal = "handled"

\* Once ~Interface has returned no coroutine or handler of it runs: the lambdas given to
\* the listener and to the signal set hold a raw this.
QuietWhenDestroyed == [][app = "destroyed" => UNCHANGED vars]_vars

\* A signal ends the wait of ~Interface, although clients that keep silent have sessions,
\* and the listener an accept, still pending.
SignalEnds == app = "joining" /\ signal = "raised" ~> app \in {"destroyed", "undefined"}

\* A client that has connected is accepted, however many others have said nothing yet,
\* unless async_accept has failed once or the service stops.
Accepted ==
  \A c \in Clients : stage[c] = "connecting" ~>
      stage[c] # "connecting" \/ listener = "ended" \/ stopped \/ app = "undefined"

\* A session answers a whole request with its handler's response, or with nothing because
\* something threw; it is lost otherwise only when the service stops.
Handled ==
  \A c \in Clients : stage[c] = "requested" ~>
      stage[c] \in {"writing", "failed"} \/ stopped \/ app = "undefined"
=============================================================================
