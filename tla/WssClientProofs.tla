--------------------------- MODULE WssClientProofs ---------------------------
(***************************************************************************)
(* Proofs about WssClient, for any numbers of sessions and threads and any *)
(* thread counts an application sets.                                      *)
(***************************************************************************)
EXTENDS WssClient, TLAPS

\* While nothing is open and no Open has failed, every thread ever made has been joined, and
\* the context has been stopped if any session was made.
JoinInv == /\ Closed => ~Joinable /\ (made = 0 \/ stopped)
           /\ app = "join" => stopped
           /\ app = "terminated" => threw

\* A session has one operation at a time: pending, or completed, or taken by the one thread
\* that has entered its handler and not yet started the next.
OperationInv ==
  /\ \A s \in Sessions : op[s] # "none" => s \in 1..made /\ stage[s] \in Stages
  /\ \A t \in Threads : Inside(t) => work[t].on \in 1..made
  /\ \A t \in Threads : thread[t] = "enter" => op[work[t].on] = "none"
  /\ \A t, u \in Threads :
       thread[t] = "enter" /\ thread[u] = "enter" /\ work[t].on = work[u].on => t = u

IInv == TypeOK /\ OperationInv /\ JoinInv

\* The client starts with the invariant.
LEMMA InitInv == Init => IInv
<1> SUFFICES ASSUME Init PROVE IInv
  OBVIOUS
<1>1. TypeOK
  <2>1. work \in [Threads -> {NoWork} \cup [on : Sessions, stage : Stages, ok : BOOLEAN]]
    BY DEF Init
  <2>2. made \in 0..MaxOpens
    BY BoundAssumption DEF Init
  <2> QED
    BY <2>1, <2>2 DEF Init, TypeOK
<1>2. \A t \in Threads : thread[t] = "unmade"
  BY DEF Init
<1>3. \A s \in Sessions : op[s] = "none"
  BY DEF Init
<1>4. OperationInv
  BY <1>2, <1>3 DEF OperationInv, Inside
<1>5. JoinInv
  BY <1>2 DEF Init, JoinInv, Joinable, Closed
<1> QED
  BY <1>1, <1>4, <1>5 DEF IInv

-----------------------------------------------------------------------------
(* The application thread.                                                 *)

\* Its steps keep the types.
LEMMA ApplicationTypes == TypeOK /\ Application => TypeOK'
<1> SUFFICES ASSUME TypeOK, Application PROVE TypeOK'
  OBVIOUS
<1> USE BoundAssumption DEF TypeOK, session, Sessions, Threads
<1>1. ASSUME NEW n \in Counts, SetThreadCount(n) PROVE TypeOK'
  BY <1>1 DEF SetThreadCount
<1>2. CASE Open         BY <1>2 DEF Open, Stages
<1>3. CASE SpawnThrows  BY <1>3 DEF SpawnThrows
<1>4. CASE Opened       BY <1>4 DEF Opened
<1>5. CASE Close        BY <1>5 DEF Close
<1>6. CASE Join         BY <1>6 DEF Join
<1>7. CASE Destroy      BY <1>7 DEF Destroy
<1>8. ASSUME NEW t \in Threads, Spawn(t) PROVE TypeOK'
  BY <1>8 DEF Spawn
<1> QED
  BY <1>1, <1>2, <1>3, <1>4, <1>5, <1>6, <1>7, <1>8 DEF Application

\* They make no thread enter or leave a handler, and the only operation they start is that
\* of a session made by the same step.
LEMMA ApplicationHandlers ==
  TypeOK /\ Application =>
    /\ work' = work
    /\ \A t \in Threads : Inside(t)' => Inside(t) /\ thread'[t] = thread[t]
    /\ made' \in Nat /\ made' >= made
    /\ \A s \in Sessions : \/ op'[s] = op[s] /\ stage'[s] = stage[s]
                           \/ s \in 1..made' /\ s \notin 1..made /\ stage'[s] \in Stages
<1> SUFFICES ASSUME TypeOK, Application
             PROVE  /\ work' = work
                    /\ \A t \in Threads : Inside(t)' => Inside(t) /\ thread'[t] = thread[t]
                    /\ made' \in Nat /\ made' >= made
                    /\ \A s \in Sessions : \/ op'[s] = op[s] /\ stage'[s] = stage[s]
                                           \/ s \in 1..made' /\ s \notin 1..made /\ stage'[s] \in Stages
  OBVIOUS
<1> USE BoundAssumption DEF TypeOK, session, Inside
<1>1. ASSUME NEW n \in Counts, SetThreadCount(n)
      PROVE  UNCHANGED <<work, made, op, stage>> /\ \A t \in Threads : Inside(t)' => thread'[t] = thread[t]
  BY <1>1 DEF SetThreadCount
<1>2. CASE Open
  BY <1>2 DEF Open, Stages, Sessions
<1>3. CASE SpawnThrows \/ Opened \/ Close \/ Destroy
  BY <1>3 DEF SpawnThrows, Opened, Close, Destroy
<1>4. CASE Join
  BY <1>4 DEF Join
<1>5. ASSUME NEW t \in Threads, Spawn(t)
      PROVE  UNCHANGED <<work, made, op, stage>> /\ \A u \in Threads : Inside(u)' => thread'[u] = thread[u]
  BY <1>5 DEF Spawn
<1> QED
  BY <1>1, <1>2, <1>3, <1>4, <1>5 DEF Application

\* So they keep a session to its one operation.
LEMMA ApplicationOperations == TypeOK /\ OperationInv /\ Application => OperationInv'
<1> SUFFICES ASSUME TypeOK, OperationInv, Application PROVE OperationInv'
  OBVIOUS
<1>1. \A s \in Sessions : op'[s] # "none" => s \in 1..made' /\ stage'[s] \in Stages
  <2>1. made \in Nat
    BY BoundAssumption DEF TypeOK
  <2> QED
    BY <2>1, ApplicationHandlers DEF OperationInv
<1>2. \A t \in Threads : Inside(t)' => work'[t].on \in 1..made /\ work'[t].on \in 1..made'
  <2>1. made \in Nat
    BY BoundAssumption DEF TypeOK
  <2> QED
    BY <2>1, ApplicationHandlers DEF OperationInv
<1>3. \A t \in Threads : thread'[t] = "enter" => op'[work'[t].on] = "none"
  <2> SUFFICES ASSUME NEW t \in Threads, thread'[t] = "enter"
               PROVE  op'[work'[t].on] = "none"
    OBVIOUS
  <2>1. thread[t] = "enter" /\ work'[t] = work[t] /\ Inside(t)
    BY ApplicationHandlers DEF Inside
  <2>2. work[t].on \in 1..made /\ op[work[t].on] = "none"
    BY <2>1 DEF OperationInv
  <2>3. work[t].on \in Sessions
    BY <2>2, BoundAssumption DEF TypeOK, Sessions
  <2> QED
    BY <2>1, <2>2, <2>3, ApplicationHandlers
<1>4. \A t, u \in Threads :
        thread'[t] = "enter" /\ thread'[u] = "enter" /\ work'[t].on = work'[u].on => t = u
  BY ApplicationHandlers DEF OperationInv, Inside
<1> QED
  BY <1>1, <1>2, <1>3, <1>4 DEF OperationInv

\* A std::thread that has not been joined is never destroyed, unless Open threw; what Join
\* ends, Close has stopped.
LEMMA ApplicationJoins == TypeOK /\ JoinInv /\ Application => JoinInv'
<1> SUFFICES ASSUME TypeOK, JoinInv, Application PROVE JoinInv'
  OBVIOUS
<1> USE BoundAssumption DEF TypeOK, JoinInv, Joinable, Closed, session
<1>1. ASSUME NEW n \in Counts, SetThreadCount(n) PROVE JoinInv'
  BY <1>1 DEF SetThreadCount
<1>2. CASE Open         BY <1>2 DEF Open
<1>3. CASE SpawnThrows  BY <1>3 DEF SpawnThrows
<1>4. CASE Opened       BY <1>4 DEF Opened
<1>5. CASE Close        BY <1>5 DEF Close
<1>6. CASE Join         BY <1>6 DEF Join
<1>7. CASE Destroy      BY <1>7 DEF Destroy
<1>8. ASSUME NEW t \in Threads, Spawn(t) PROVE JoinInv'
  BY <1>8 DEF Spawn
<1> QED
  BY <1>1, <1>2, <1>3, <1>4, <1>5, <1>6, <1>7, <1>8 DEF Application

-----------------------------------------------------------------------------
(* The network, the timers and the threads of the context.                 *)

\* The completion of an operation, in time or not.
LEMMA NetworkStep == IInv /\ Network => IInv'
<1> SUFFICES ASSUME IInv, NEW s \in Sessions, NEW result \in {"ok", "failed"}, Complete(s, result)
             PROVE  IInv'
  BY DEF Network, Timeout
<1> USE DEF IInv, Complete, interface
<1>1. TypeOK'
  BY DEF TypeOK
<1>2. JoinInv'
  BY DEF JoinInv, Joinable, Closed
<1>3. OperationInv'
  <2>1. \A r \in Sessions : op'[r] # "none" => op[r] # "none"
    BY DEF TypeOK
  <2>2. \A t \in Threads : Inside(t)' <=> Inside(t)
    BY DEF Inside
  <2>3. \A t \in Threads : thread[t] = "enter" => work[t].on \in Sessions
    BY BoundAssumption DEF OperationInv, Inside, TypeOK, Sessions
  <2>4. \A t \in Threads : thread[t] = "enter" => op'[work[t].on] = "none"
    BY <2>3 DEF OperationInv, TypeOK
  <2> QED
    BY <2>1, <2>2, <2>4 DEF OperationInv
<1> QED
  BY <1>1, <1>2, <1>3

\* Returning from run().
LEMMA ReturnStep == ASSUME IInv, NEW t \in Threads, RunReturns(t) PROVE IInv'
<1> USE DEF IInv, RunReturns, interface, session
<1>1. TypeOK'
  BY DEF TypeOK
<1>2. \A u \in Threads : Inside(u)' => Inside(u) /\ thread'[u] = thread[u]
  BY DEF TypeOK, Inside
<1>3. OperationInv'
  BY <1>2 DEF OperationInv, Inside
<1>4. JoinInv'
  BY DEF JoinInv, Joinable, Closed, TypeOK
<1> QED
  BY <1>1, <1>3, <1>4

\* Entering a handler: the completed operation is taken.
LEMMA EnterStep ==
  ASSUME IInv, NEW t \in Threads, NEW s \in Sessions, Enter(t, s) PROVE IInv'
<1> USE DEF IInv, Enter, interface
<1>1. stage[s] \in Stages /\ op[s] # "none"
  BY DEF OperationInv
<1>2. TypeOK'
  BY <1>1 DEF TypeOK
<1>3. work'[t].on = s /\ work'[t].stage = stage[s] /\ op'[s] = "none" /\ thread'[t] = "enter"
  BY DEF TypeOK
<1>4. \A u \in Threads \ {t} : thread'[u] = thread[u] /\ work'[u] = work[u] /\ (Inside(u)' <=> Inside(u))
  BY DEF TypeOK, Inside
<1>5. OperationInv'
  <2>1. \A r \in Sessions : op'[r] # "none" => op[r] # "none"
    BY DEF TypeOK
  <2>2. \A u \in Threads : thread[u] = "enter" => work[u].on \in Sessions /\ work[u].on # s
    BY <1>1, BoundAssumption DEF OperationInv, Inside, TypeOK, Sessions
  <2>3. \A u \in Threads \ {t} : thread'[u] = "enter" =>
          op'[work'[u].on] = "none" /\ work'[u].on # s
    BY <1>4, <2>2 DEF OperationInv, TypeOK
  <2>4. \A u \in Threads : Inside(u)' => work'[u].on \in 1..made'
    BY <1>1, <1>3, <1>4 DEF OperationInv
  <2> QED
    BY <1>3, <1>4, <2>1, <2>3, <2>4 DEF OperationInv
<1>6. JoinInv'
  BY DEF JoinInv, Joinable, Closed, TypeOK
<1> QED
  BY <1>2, <1>5, <1>6

\* The body of a handler, which starts the next operation of its session or fails.
LEMMA HandlerStep ==
  ASSUME IInv, NEW t \in Threads, StartNext(t) \/ Fail(t) PROVE IInv'
<1> DEFINE s == work[t].on
<1> USE DEF IInv, interface, session
<1>1. thread[t] = "enter" /\ s \in Sessions /\ s \in 1..made /\ op[s] = "none"
      /\ work[t].stage \in Stages
  <2>1. thread[t] = "enter"
    BY DEF StartNext, Fail
  <2>2. s \in 1..made /\ op[s] = "none"
    BY <2>1 DEF OperationInv, Inside
  <2>3. work[t] # NoWork
    BY <2>2, BoundAssumption DEF NoWork, TypeOK
  <2> QED
    BY <2>1, <2>2, <2>3, BoundAssumption DEF TypeOK, Sessions
<1>2. TypeOK' /\ UNCHANGED <<app, bOpenSocket, threw, made, stopped, work>>
  <2>1. Following[work[t].stage] \in Stages
    BY <1>1 DEF Following, Stages
  <2>2. CASE StartNext(t)
    BY <1>1, <2>1, <2>2 DEF TypeOK, StartNext, Limited
  <2>3. CASE Fail(t)
    BY <1>1, <2>3 DEF TypeOK, Fail
  <2> QED
    BY <2>2, <2>3
<1>3. thread' = [thread EXCEPT ![t] = "leave"]
  BY DEF StartNext, Fail
<1>4. \A r \in Sessions \ {s} : op'[r] = op[r] /\ stage'[r] = stage[r]
  BY <1>1 DEF TypeOK, StartNext, Fail
<1>5. op'[s] # "none" => stage'[s] \in Stages
  BY <1>1 DEF TypeOK, StartNext, Fail, Following, Stages
<1>6. \A u \in Threads : Inside(u)' => Inside(u)
  BY <1>1, <1>3 DEF TypeOK, Inside
<1>7. OperationInv'
  <2>1. \A r \in Sessions : op'[r] # "none" => r \in 1..made' /\ stage'[r] \in Stages
    BY <1>1, <1>2, <1>4, <1>5 DEF OperationInv
  <2>2. \A u \in Threads : thread'[u] = "enter" =>
          thread[u] = "enter" /\ work[u].on # s /\ work[u].on \in Sessions
    BY <1>1, <1>3, BoundAssumption DEF OperationInv, TypeOK, Inside, Sessions
  <2>3. \A u \in Threads : thread'[u] = "enter" => op'[work'[u].on] = "none"
    BY <1>2, <1>4, <2>2 DEF OperationInv
  <2> QED
    BY <1>2, <1>6, <2>1, <2>2, <2>3 DEF OperationInv
<1>8. JoinInv'
  BY <1>1, <1>2, <1>3 DEF JoinInv, Joinable, Closed, TypeOK
<1> QED
  BY <1>2, <1>7, <1>8

\* Back in run().
LEMMA LeaveStep == ASSUME IInv, NEW t \in Threads, Leave(t) PROVE IInv'
<1> USE DEF IInv, Leave, interface, session
<1>1. TypeOK'
  BY DEF TypeOK
<1>2. \A u \in Threads : Inside(u)' => Inside(u) /\ thread'[u] = thread[u] /\ work'[u] = work[u]
  BY DEF TypeOK, Inside
<1>3. OperationInv'
  BY <1>2 DEF OperationInv, Inside
<1>4. JoinInv'
  BY DEF JoinInv, Joinable, Closed, TypeOK
<1> QED
  BY <1>1, <1>3, <1>4

-----------------------------------------------------------------------------

\* In every reachable state.
LEMMA Inductive == Spec => []IInv
<1>1. Init => IInv
  BY InitInv
<1>2. IInv /\ [Next]_vars => IInv'
  <2> SUFFICES ASSUME IInv, [Next]_vars PROVE IInv'
    OBVIOUS
  <2>1. CASE Application
    BY <2>1, ApplicationTypes, ApplicationOperations, ApplicationJoins DEF IInv
  <2>2. CASE Network
    BY <2>2, NetworkStep
  <2>3. ASSUME NEW t \in Threads, Run(t) PROVE IInv'
    BY <2>3, ReturnStep, EnterStep, HandlerStep, LeaveStep DEF Run
  <2>4. CASE UNCHANGED vars
    BY <2>4 DEF vars, IInv, TypeOK, OperationInv, Inside, JoinInv, Joinable, Closed
  <2> QED
    BY <2>1, <2>2, <2>3, <2>4 DEF Next
<1> QED
  BY <1>1, <1>2, PTL DEF Spec

\* The variables keep their types, whatever counts SetThreadCount is given.
THEOREM TypeCorrect == Spec => []TypeOK
<1>1. IInv => TypeOK
  BY DEF IInv
<1> QED
  BY <1>1, Inductive, PTL

\* When nothing is open, a step leaves every session made so far as it is: no thread is left
\* to run a handler, and the stopped context completes nothing.
LEMMA ClosedStep == IInv /\ [Next]_vars =>
  (Closed => /\ UNCHANGED <<work, stopped>>
             /\ \A s \in 1..made : /\ stage'[s] = stage[s] /\ op'[s] = op[s]
                                   /\ timer'[s] = timer[s])
<1> DEFINE Quiet == /\ UNCHANGED <<work, stopped>>
                    /\ \A s \in 1..made : /\ stage'[s] = stage[s] /\ op'[s] = op[s]
                                          /\ timer'[s] = timer[s]
<1> SUFFICES ASSUME IInv, [Next]_vars, Closed PROVE Quiet
  OBVIOUS
<1>1. app # "join" /\ app # "spawn" /\ ~bOpenSocket
  BY DEF Closed
<1>2. CASE Application
  <2>1. ASSUME NEW n \in Counts, SetThreadCount(n) PROVE Quiet
    BY <2>1 DEF SetThreadCount, session
  <2>2. CASE Open
    BY <2>2, BoundAssumption DEF Open, IInv, TypeOK, Sessions
  <2>3. CASE Destroy
    BY <2>3 DEF Destroy, session
  <2> QED
    BY <1>1, <1>2, <2>1, <2>2, <2>3 DEF Application, SpawnThrows, Opened, Close, Join, Spawn
<1>3. ASSUME NEW s \in Sessions, op[s] = "waiting", ~stopped PROVE FALSE
  BY <1>3, BoundAssumption DEF IInv, OperationInv, JoinInv
<1>4. ASSUME NEW t \in Threads, Run(t) PROVE FALSE
  <2>1. thread[t] \in {"running", "enter", "leave"}
    BY <1>4 DEF Run, RunReturns, Enter, StartNext, Fail, Leave
  <2> QED
    BY <2>1 DEF IInv, JoinInv, Joinable
<1>5. CASE UNCHANGED vars
  BY <1>5 DEF vars
<1> QED
  BY <1>2, <1>3, <1>4, <1>5 DEF Next, Network, Timeout, Complete

\* However many threads run the context and whatever they were in the middle of when Close
\* stopped it, a closed client's sessions are left alone until the next Open, or for good.
THEOREM ClosedIsQuiet == Spec => QuietWhenClosed
<1>1. IInv /\ [Next]_vars =>
        [Closed => /\ UNCHANGED <<work, stopped>>
                   /\ \A s \in 1..made : /\ stage'[s] = stage[s] /\ op'[s] = op[s]
                                         /\ timer'[s] = timer[s]]_vars
  BY ClosedStep
<1> QED
  BY <1>1, Inductive, PTL DEF Spec, QuietWhenClosed

\* With any number of threads, SetThreadCount and the destructor never destroy one that has
\* not been joined, unless Open failed to create one.
THEOREM ThreadsJoined == Spec => []NoTerminate
<1>1. IInv => NoTerminate
  BY DEF IInv, JoinInv, NoTerminate
<1> QED
  BY <1>1, Inductive, PTL
=============================================================================
