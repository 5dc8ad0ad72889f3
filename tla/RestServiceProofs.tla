-------------------------- MODULE RestServiceProofs --------------------------
(***************************************************************************)
(* Proofs about RestService, for any set of clients.                       *)
(***************************************************************************)
EXTENDS RestService, TLAPS

\* A request handler runs inside run(); the thread has left run() only after the signal's
\* handler has stopped the context; and the owner is past ~Interface only without a thread.
ThreadInv == /\ serving # NoClient => thread = "running"
             /\ thread = "ended" \/ stopped \/ ~guard => signal = "handled"
             /\ app = "new" => thread = "none"
             /\ app = "destroyed" => thread # "running"

IInv == TypeOK /\ ThreadInv

\* The service starts with the invariant.
LEMMA InitInv == Init => IInv
BY ClientAssumption DEF Init, IInv, TypeOK, Stages, ThreadInv

\* Every step keeps it.
LEMMA StepInv == IInv /\ [Next]_vars => IInv'
<1> SUFFICES ASSUME IInv, [Next]_vars PROVE IInv'
  OBVIOUS
<1> USE ClientAssumption DEF IInv, TypeOK, Stages, ThreadInv, context
<1>1. CASE Start            BY <1>1 DEF Start, Listen
<1>2. CASE StartThrows      BY <1>2 DEF StartThrows
<1>3. CASE DestroyDerived   BY <1>3 DEF DestroyDerived
<1>4. CASE Join             BY <1>4 DEF Join
<1>5. CASE RaiseSignal      BY <1>5 DEF RaiseSignal
<1>6. CASE OnSignal         BY <1>6 DEF OnSignal, Ready
<1>7. CASE AcceptThrows     BY <1>7 DEF AcceptThrows, Ready
<1>8. CASE RunReturns       BY <1>8 DEF RunReturns, Work
<1>9. ASSUME NEW c \in Clients, Connect(c) PROVE IInv'
  BY <1>9 DEF Connect, MoveTo
<1>10. ASSUME NEW c \in Clients, Request(c) PROVE IInv'
  BY <1>10 DEF Request, MoveTo
<1>11. ASSUME NEW c \in Clients, Accept(c) PROVE IInv'
  BY <1>11 DEF Accept, MoveTo, Ready
<1>12. ASSUME NEW c \in Clients, CallHandler(c) PROVE IInv'
  BY <1>12 DEF CallHandler, Handler, MoveTo, Ready, Defined
<1>13. ASSUME NEW c \in Clients, HandlerReturns(c) PROVE IInv'
  BY <1>13 DEF HandlerReturns, MoveTo
<1>14. ASSUME NEW c \in Clients, Written(c) PROVE IInv'
  BY <1>14 DEF Written, MoveTo, Ready
<1>15. ASSUME NEW c \in Clients, SessionThrows(c) PROVE IInv'
  BY <1>15 DEF SessionThrows, MoveTo, Ready
<1>16. CASE UNCHANGED vars  BY <1>16 DEF vars
<1> QED
  BY <1>1, <1>2, <1>3, <1>4, <1>5, <1>6, <1>7, <1>8, <1>9, <1>10, <1>11, <1>12, <1>13,
     <1>14, <1>15, <1>16 DEF Next, Owner, Session

\* In every reachable state.
LEMMA Inductive == Spec => []IInv
<1>1. Init => IInv
  BY InitInv
<1>2. IInv /\ [Next]_vars => IInv'
  BY StepInv
<1> QED
  BY <1>1, <1>2, PTL DEF Spec

\* The variables keep their types, and a request handler is entered by one session at a
\* time, for any number of clients.
THEOREM TypeCorrect == Spec => []TypeOK
<1>1. IInv => TypeOK
  BY DEF IInv
<1> QED
  BY <1>1, Inductive, PTL

\* The context thread returns from run() for a signal only: no client, and no exception of
\* a session or of the listener, ends the service.
THEOREM ServesUntilSignal == Spec => []RunsUntilSignal
<1>1. IInv => RunsUntilSignal
  BY DEF IInv, ThreadInv, RunsUntilSignal
<1> QED
  BY <1>1, Inductive, PTL

\* No handler or coroutine runs once ~Interface has returned.
THEOREM DestroyedIsQuiet == Spec => QuietWhenDestroyed
<1>1. IInv /\ [Next]_vars => [app = "destroyed" => UNCHANGED vars]_vars
  <2> SUFFICES ASSUME IInv, Next, app = "destroyed" PROVE FALSE
    OBVIOUS
  <2>1. thread # "running" /\ serving = NoClient
    BY DEF IInv, ThreadInv
  <2>2. serving \notin Clients
    BY <2>1, ClientAssumption
  <2> QED
    BY <2>1, <2>2 DEF Next, Owner, Session, Start, StartThrows, DestroyDerived, Join,
       RaiseSignal, OnSignal, AcceptThrows, RunReturns, Connect, Request, Accept, CallHandler,
       HandlerReturns, Written, SessionThrows, Ready
<1> QED
  BY <1>1, Inductive, PTL DEF Spec, QuietWhenDestroyed
=============================================================================
