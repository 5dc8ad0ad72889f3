----------------------------- MODULE ServerProofs -----------------------------
(***************************************************************************)
(* Proofs about Server, for any numbers of clients and messages.  The      *)
(* first part is about the two threads: the context thread returns only    *)
(* after Stop, and touches nothing once Stop has returned (ThreadInv,      *)
(* which does not depend on what the queue and the list hold).  The second *)
(* is about m_dqConnections: it holds each client once (ListInv), so that  *)
(* a broadcast tells the application of a closed one once, and leaves no   *)
(* other out (PassedInv).                                                  *)
(***************************************************************************)
EXTENDS Server, SequenceTheorems, FiniteSetTheorems, TLAPS

Stopping == {"join", "stopped", "destroyed", "undefined"}

\* The thread has an accept to wait for from Start on, so that run() returns for want of
\* work only if it was stopped; and Stop is over only when there is no thread.
ThreadInv ==
  /\ app = "new" => runner = "none" /\ ~stopped
  /\ runner # "none" => accepting
  /\ stopped => app \in Stopping \cup {"terminated"}
  /\ runner = "ended" => stopped /\ app \in Stopping
  /\ app \in {"stopped", "destroyed"} => runner \in {"none", "ended"}

\* The server starts with the invariant.
LEMMA InitInv == Init => ThreadInv
BY DEF Init, ThreadInv

\* Every step of the application thread keeps it.
LEMMA ApplicationStep == ThreadInv /\ Application => ThreadInv'
<1> SUFFICES ASSUME ThreadInv, Application PROVE ThreadInv'
  OBVIOUS
<1> USE DEF ThreadInv, Stopping, context
<1>1. CASE Start           BY <1>1 DEF Start
<1>2. CASE TakeMessage     BY <1>2 DEF TakeMessage
<1>3. CASE BouncePing      BY <1>3 DEF BouncePing
<1>4. CASE BeginBroadcast  BY <1>4 DEF BeginBroadcast
<1>5. CASE VisitOpen       BY <1>5 DEF VisitOpen, Visiting
<1>6. CASE VisitClosed     BY <1>6 DEF VisitClosed, Visiting
<1>7. CASE EndBroadcast    BY <1>7 DEF EndBroadcast
<1>8. CASE Stop            BY <1>8 DEF Stop
<1>9. CASE Join            BY <1>9 DEF Join
<1>10. CASE Destroy        BY <1>10 DEF Destroy
<1> QED
  BY <1>1, <1>2, <1>3, <1>4, <1>5, <1>6, <1>7, <1>8, <1>9, <1>10
     DEF Application, Update, MessageAllClients

\* The context thread is in run(), or in a handler, when it takes a step.
LEMMA ContextActs ==
  Begin \/ AcceptClient \/ (\E c \in Clients : ConnectionHandler(c)) \/ RunReturns
    => Defined /\ runner \in {"running", "busy"}
BY DEF Begin, AcceptClient, Approve, Deny, AcceptError, AcceptThrows, AcceptHandler,
       ConnectionHandler, OnRead, OnWrite, RunSend, OnError, OnDestroyed, Run, RunReturns

\* Every step of the context thread keeps it.
LEMMA ContextStep ==
  ThreadInv /\ (Begin \/ AcceptClient \/ (\E c \in Clients : ConnectionHandler(c)) \/ RunReturns)
    => ThreadInv'
<1> SUFFICES ASSUME ThreadInv,
                    Begin \/ AcceptClient \/ (\E c \in Clients : ConnectionHandler(c)) \/ RunReturns
             PROVE  ThreadInv'
  OBVIOUS
<1>a. Defined /\ runner \in {"running", "busy"}
  BY ContextActs
<1>b. app \notin {"new", "stopped", "destroyed", "undefined", "terminated"} /\ accepting
  BY <1>a DEF ThreadInv, Defined
<1> USE <1>a, <1>b DEF ThreadInv, Stopping
<1>1. CASE Begin
  BY <1>1 DEF Begin
<1>2. CASE AcceptClient
  <2>1. runner' = "running" /\ accepting' /\ stopped' = stopped
    BY <1>2 DEF AcceptClient, Approve, Deny, AcceptError, AcceptThrows, AcceptHandler, Reprimed
  <2>2. app' \in {app, "undefined", "terminated"}
    BY <1>2 DEF AcceptClient, Approve, Deny, AcceptError, AcceptThrows
  <2> QED
    BY <2>1, <2>2
<1>3. ASSUME NEW c \in Clients, ConnectionHandler(c) PROVE ThreadInv'
  <2>1. runner' = "running" /\ UNCHANGED <<accepting, stopped>>
    BY <1>3 DEF ConnectionHandler, OnRead, OnWrite, RunSend, OnError, OnDestroyed, Run
  <2>2. app' \in {app, "undefined"}
    BY <1>3 DEF ConnectionHandler, OnRead, OnWrite, RunSend, OnError, OnDestroyed
  <2> QED
    BY <2>1, <2>2
<1>4. CASE RunReturns
  BY <1>4 DEF RunReturns
<1> QED
  BY <1>1, <1>2, <1>3, <1>4

\* In every reachable state.
LEMMA Inductive == Spec => []ThreadInv
<1>1. Init => ThreadInv
  BY InitInv
<1>2. ThreadInv /\ [Next]_vars => ThreadInv'
  <2>1. ThreadInv /\ UNCHANGED vars => ThreadInv'
    BY DEF ThreadInv, vars
  <2> QED
    BY <2>1, ApplicationStep, ContextStep DEF Next
<1> QED
  BY <1>1, <1>2, PTL DEF Spec

-----------------------------------------------------------------------------

\* Whatever clients were approved, denied or lost, the context thread leaves run() only
\* after Stop: WaitForClientConnection is called again by every accept handler.
THEOREM AcceptsUntilStop == Spec => []ServesUntilStop
<1>1. ThreadInv => ServesUntilStop
  BY DEF ThreadInv, Stopping, ServesUntilStop
<1> QED
  BY <1>1, Inductive, PTL

\* Once Stop has joined the context thread, nothing it shares with the application, nor
\* the thread, changes any more, until the members are destroyed and after.
THEOREM StoppedIsQuiet == Spec => QuietWhenStopped
<1> DEFINE Quiet == (app \in {"stopped", "destroyed"}) =>
                       UNCHANGED <<dq, inbox, runner, sock, pending, made>>
<1>1. ThreadInv /\ [Next]_vars => [Quiet]_vars
  <2> SUFFICES ASSUME ThreadInv, [Next]_vars, app \in {"stopped", "destroyed"}
               PROVE  UNCHANGED <<dq, inbox, runner, sock, pending, made>>
    OBVIOUS
  <2>1. CASE Application
    <3>1. Destroy
      BY <2>1 DEF Application, Update, MessageAllClients, Start, TakeMessage, BouncePing,
         BeginBroadcast, VisitOpen, VisitClosed, Visiting, EndBroadcast, Stop, Join
    <3> QED
      BY <3>1 DEF Destroy, context
  <2>2. CASE Begin \/ AcceptClient \/ (\E c \in Clients : ConnectionHandler(c)) \/ RunReturns
    BY <2>2, ContextActs DEF ThreadInv
  <2>3. CASE UNCHANGED vars
    BY <2>3 DEF vars
  <2> QED
    BY <2>1, <2>2, <2>3 DEF Next
<1> QED
  BY <1>1, Inductive, PTL DEF Spec, QuietWhenStopped

-----------------------------------------------------------------------------
(* Types.  Whatever names a client, in the list, in a message or in an     *)
(* operation, names one the accept handler has made.                       *)

Made == 1..made

TypeInv ==
  /\ TypeOK
  /\ dq \in Seq(Made \cup {Null})
  /\ inbox \in Seq([remote : Made, kind : MessageKinds])
  /\ msg \in {<<>>} \cup {<<m>> : m \in [remote : Made, kind : MessageKinds]}
  /\ app \in {"handle", "visit"} => msg # <<>>
  /\ app = "visit" => at \in Nat \ {0}

LEMMA TypeInit == Init => TypeInv
<1> SUFFICES ASSUME Init PROVE TypeInv
  OBVIOUS
<1>1. /\ dq = <<>> /\ inbox = <<>> /\ msg = <<>> /\ at = 0 /\ made = 0 /\ pending = {}
      /\ received = 0 /\ reached = {}
  BY DEF Init
<1>2. app = "new" /\ runner = "none"
  BY DEF Init
<1>3. invalid \in BOOLEAN /\ stopped \in BOOLEAN /\ accepting \in BOOLEAN
  BY DEF Init
<1>4. sock \in [Clients -> {"none", "open", "closed"}] /\ told \in [Clients -> Nat]
  BY DEF Init
<1> QED
  BY <1>1, <1>2, <1>3, <1>4, BoundAssumption DEF TypeInv, TypeOK

\* A function of the first places is a sequence.
LEMMA FunctionIsSeq ==
  ASSUME NEW S, NEW n \in Nat, NEW f \in [1..n -> S]
  PROVE  f \in Seq(S)
BY SeqDef

\* The erase leaves entries of the list, each at most once and none of them null.
LEMMA EraseFacts ==
  ASSUME NEW S, dq \in Seq(S \cup {Null}), EraseNulls
  PROVE  /\ dq' \in Seq(S)
         /\ \A i \in DOMAIN dq' : dq'[i] # Null /\ dq'[i] \in Range(dq)
         /\ \A i, j \in DOMAIN dq' :
              i # j => \E k, l \in DOMAIN dq : k # l /\ dq'[i] = dq[k] /\ dq'[j] = dq[l]
<1> DEFINE n == Cardinality(Kept)
<1>1. n \in Nat
  <2>1. DOMAIN dq = 1..Len(dq) /\ Len(dq) \in Nat
    OBVIOUS
  <2>2. IsFiniteSet(DOMAIN dq)
    BY <2>1, FS_Interval
  <2>3. IsFiniteSet(Kept)
    BY <2>2, FS_Subset DEF Kept
  <2> QED
    BY <2>3, FS_CardinalityType
<1>2. PICK f \in [1..n -> Kept] : /\ \A i, j \in DOMAIN f : i < j => f[i] < f[j]
                                  /\ dq' = [i \in DOMAIN f |-> dq[f[i]]]
  BY DEF EraseNulls
<1> HIDE DEF n
<1>3. DOMAIN f = 1..n /\ DOMAIN dq' = 1..n
  BY <1>2
<1>4. \A i \in 1..n : /\ f[i] \in DOMAIN dq /\ dq'[i] = dq[f[i]]
                      /\ dq[f[i]] # Null /\ dq[f[i]] \in S \cup {Null}
  BY <1>2, <1>3 DEF Kept
<1>5. \A i \in 1..n : dq'[i] \in S
  BY <1>4
<1>6. dq' \in Seq(S)
  <2>1. dq' \in [1..n -> S]
    BY <1>2, <1>3, <1>5
  <2> QED
    BY <2>1, <1>1, FunctionIsSeq
<1>7. \A i \in DOMAIN dq' : dq'[i] # Null /\ dq'[i] \in Range(dq)
  BY <1>3, <1>4 DEF Range
<1>8. ASSUME NEW i \in DOMAIN dq', NEW j \in DOMAIN dq', i # j
      PROVE  \E k, l \in DOMAIN dq : k # l /\ dq'[i] = dq[k] /\ dq'[j] = dq[l]
  <2>1. i \in 1..n /\ j \in 1..n /\ (i < j \/ j < i)
    BY <1>8, <1>3, <1>1
  <2>2. f[i] \in Nat /\ f[j] \in Nat
    BY <2>1, <1>4
  <2>3. f[i] # f[j]
    BY <2>1, <2>2, <1>2, <1>3
  <2> QED
    BY <2>1, <2>3, <1>4
<1> QED
  BY <1>6, <1>7, <1>8

\* A sequence over a set is one over a larger set; a sequence that is not empty has a head
\* and a tail over the same set.
LEMMA SeqFacts ==
  ASSUME NEW A, NEW B, A \subseteq B, NEW s \in Seq(A)
  PROVE  s \in Seq(B) /\ (s # <<>> => Head(s) \in A /\ Tail(s) \in Seq(A))
<1>1. Len(s) \in Nat /\ s \in [1..Len(s) -> A]
  OBVIOUS
<1>2. s \in [1..Len(s) -> B]
  BY <1>1
<1> QED
  BY <1>1, <1>2

\* The handlers of the connections keep it: each runs for a client that was made.
LEMMA TypeHandler ==
  ASSUME TypeInv, NEW c \in Clients, ConnectionHandler(c)
  PROVE  TypeInv'
<1> DEFINE Ops(m) == [on : 1..m, kind : OpKinds]
<1>1. made \in Nat /\ UNCHANGED <<msg, at, invalid, dq, reached, stopped, accepting, made, told>>
  BY DEF TypeInv, TypeOK, ConnectionHandler, OnRead, OnWrite, RunSend, OnError, OnDestroyed, Run,
     loop
<1>2. runner' = "running" /\ app' \in {app, "undefined"}
  BY DEF ConnectionHandler, OnRead, OnWrite, RunSend, OnError, OnDestroyed, Run
<1>3. ASSUME NEW done, NEW kind \in done, NEW next \in SUBSET OpKinds, Run(c, done, next)
      PROVE  c \in Made /\ pending' \subseteq Ops(made')
  <2>1. Op(c, kind) \in pending /\ pending \subseteq Ops(made)
    BY <1>3 DEF Run, TypeInv, TypeOK
  <2>2. c \in Made
    BY <2>1 DEF Op, Made
  <2>3. \A k \in next : Op(c, k) \in Ops(made)
    BY <2>2 DEF Op, Made
  <2> QED
    BY <1>1, <1>3, <2>1, <2>2, <2>3 DEF Run
<1>4. c \in Made /\ pending' \subseteq Ops(made')
  <2>1. \A kind \in {"read", "write", "late"} : {kind} \in SUBSET OpKinds
    BY DEF OpKinds
  <2>2. CASE OnRead(c)
    BY <1>3, <2>1, <2>2 DEF OnRead
  <2>3. CASE OnWrite(c)
    <3>1. PICK next \in {{}, {"write"}} : Run(c, {"write"}, next)
      BY <2>3 DEF OnWrite
    <3> QED
      BY <1>3, <2>1, <3>1
  <2>4. CASE RunSend(c)
    BY <1>3, <2>1, <2>4 DEF RunSend
  <2>5. CASE OnError(c)
    BY <1>3, <2>1, <2>5 DEF OnError
  <2>6. CASE OnDestroyed(c)
    <3>1. PICK kind \in OpKinds : Run(c, {kind}, {})
      BY <2>6 DEF OnDestroyed
    <3> QED
      BY <1>3, <3>1
  <2> QED
    BY <2>2, <2>3, <2>4, <2>5, <2>6 DEF ConnectionHandler
<1>5. sock' \in [Clients -> {"none", "open", "closed"}]
  <2>1. sock' = sock \/ sock' = [sock EXCEPT ![c] = "closed"]
    BY DEF ConnectionHandler, OnRead, OnWrite, RunSend, OnError, OnDestroyed
  <2> QED
    BY <2>1 DEF TypeInv, TypeOK
<1>6. /\ inbox' \in Seq(Message) /\ inbox' \in Seq([remote : Made, kind : MessageKinds])
      /\ received' \in 0..MaxMessages
  <2>1. CASE UNCHANGED <<inbox, received>>
    BY <2>1 DEF TypeInv, TypeOK
  <2>2. CASE OnRead(c) /\ ~ UNCHANGED <<inbox, received>>
    <3>1. PICK kind \in MessageKinds : inbox' = Append(inbox, [remote |-> c, kind |-> kind])
      BY <2>2 DEF OnRead
    <3>2. received < MaxMessages /\ received' = received + 1
      BY <2>2 DEF OnRead
    <3>3. [remote |-> c, kind |-> kind] \in [remote : Made, kind : MessageKinds]
      BY <1>4
    <3>4. [remote |-> c, kind |-> kind] \in Message
      BY DEF Message
    <3>5. inbox' \in Seq(Message) /\ inbox' \in Seq([remote : Made, kind : MessageKinds])
      BY <3>1, <3>3, <3>4 DEF TypeInv, TypeOK
    <3> QED
      BY <3>2, <3>5, BoundAssumption DEF TypeInv, TypeOK
  <2> QED
    BY <2>1, <2>2 DEF ConnectionHandler, OnWrite, RunSend, OnError, OnDestroyed
<1>7. TypeOK'
  BY <1>1, <1>2, <1>4, <1>5, <1>6 DEF TypeInv, TypeOK
<1> QED
  BY <1>1, <1>2, <1>6, <1>7 DEF TypeInv, Made

\* So does the accept handler, which makes the next one.
LEMMA TypeAccept ==
  ASSUME TypeInv, AcceptClient
  PROVE  TypeInv'
<1>a. /\ made' = made + 1 /\ made < MaxClients /\ runner' = "running" /\ accepting' = TRUE
      /\ UNCHANGED <<msg, at, invalid, reached, inbox, stopped, received, told>>
  BY DEF AcceptClient, Approve, Deny, AcceptError, AcceptThrows, AcceptHandler, Reprimed, loop
<1>b. made \in Nat /\ made' = made + 1 /\ made' \in 0..MaxClients /\ made' \in Clients
  BY <1>a, BoundAssumption DEF TypeInv, TypeOK, Clients
<1>1. /\ made \in Nat /\ made' = made + 1 /\ made' \in 0..MaxClients /\ made' \in Clients
      /\ runner' = "running" /\ accepting' \in BOOLEAN
      /\ UNCHANGED <<msg, at, invalid, reached, inbox, stopped, received, told>>
  BY <1>a, <1>b
<1>2. app' \in {app, "undefined", "terminated"}
  BY DEF AcceptClient, Approve, Deny, AcceptError, AcceptThrows
<1>3. Made \subseteq Made' /\ made' \in Made'
  BY <1>1 DEF Made
<1>4. dq' \in Seq(Made' \cup {Null}) /\ dq' \in Seq(Clients \cup {Null})
  <2>1. dq' = dq \/ dq' = Append(dq, made')
    BY DEF AcceptClient, Approve, Deny, AcceptError, AcceptThrows
  <2>2. dq \in Seq(Made' \cup {Null}) /\ dq \in Seq(Clients \cup {Null})
    BY <1>3 DEF TypeInv, TypeOK
  <2> QED
    BY <1>1, <1>3, <2>1, <2>2
<1>5. pending' \subseteq [on : 1..made', kind : OpKinds]
  <2>1. pending \subseteq [on : 1..made', kind : OpKinds]
    BY <1>1 DEF TypeInv, TypeOK
  <2>2. \A kind \in OpKinds : Op(made', kind) \in [on : 1..made', kind : OpKinds]
    BY <1>1 DEF Op
  <2>3. {"read", "write", "greet"} \subseteq OpKinds
    BY DEF OpKinds
  <2>4. pending' = pending \/ pending' = pending \cup {Op(made', kind) : kind \in {"read", "write", "greet"}}
    BY DEF AcceptClient, Approve, Deny, AcceptError, AcceptThrows
  <2> QED
    BY <2>1, <2>2, <2>3, <2>4
<1>6. sock' \in [Clients -> {"none", "open", "closed"}]
  <2>1. sock \in [Clients -> {"none", "open", "closed"}]
    BY DEF TypeInv, TypeOK
  <2> QED
    BY <2>1 DEF AcceptClient, Approve, Deny, AcceptError, AcceptThrows
<1>7. inbox \in Seq([remote : Made', kind : MessageKinds])
  <2> DEFINE A == [remote : Made, kind : MessageKinds]
             B == [remote : Made', kind : MessageKinds]
  <2>1. A \subseteq B /\ inbox \in Seq(A)
    BY <1>3 DEF TypeInv
  <2> HIDE DEF A, B
  <2>2. inbox \in Seq(B)
    BY <2>1, SeqFacts
  <2> QED
    BY <2>2 DEF B
<1>8. msg' \in {<<>>} \cup {<<m>> : m \in [remote : Made', kind : MessageKinds]}
  BY <1>1, <1>3 DEF TypeInv
<1>9. TypeOK'
  BY <1>1, <1>2, <1>4, <1>5, <1>6 DEF TypeInv, TypeOK
<1> QED
  BY <1>1, <1>2, <1>4, <1>7, <1>8, <1>9 DEF TypeInv

\* So does the application thread, which makes none.
LEMMA TypeApplication ==
  ASSUME TypeInv, Application
  PROVE  TypeInv'
<1> DEFINE Msgs == [remote : Made, kind : MessageKinds]
<1>1. UNCHANGED <<made, sock, received>> /\ Made' = Made
  BY DEF Application, Start, Update, TakeMessage, BouncePing, BeginBroadcast, MessageAllClients,
     VisitOpen, VisitClosed, Visiting, EndBroadcast, Stop, Join, Destroy, context, Made
<1>2. TypeOK /\ dq \in Seq(Made \cup {Null}) /\ inbox \in Seq(Msgs) /\ made \in Nat
  BY DEF TypeInv, TypeOK
<1> USE DEF TypeInv, TypeOK, context, loop
<1>3. CASE Start
  BY <1>1, <1>3 DEF Start
<1>4. CASE TakeMessage
  <2>1. Head(inbox) \in Msgs /\ Tail(inbox) \in Seq(Msgs)
        /\ Head(inbox) \in Message /\ Tail(inbox) \in Seq(Message)
    <3>1. inbox # <<>> /\ inbox \in Seq(Message) /\ inbox \in Seq(Msgs)
      BY <1>4, <1>2 DEF TakeMessage
    <3> HIDE DEF Msgs
    <3> QED
      BY <3>1, SeqFacts
  <2>2. msg' # <<>> /\ msg' \in {<<m>> : m \in Msgs} /\ msg' \in {<<m>> : m \in Message}
    BY <1>4, <2>1 DEF TakeMessage
  <2> QED
    BY <1>1, <1>2, <1>4, <2>1, <2>2 DEF TakeMessage
<1>5. CASE BouncePing
  <2>1. msg # <<>>
    BY <1>5 DEF BouncePing
  <2>2. msg[1].remote \in Made
    BY <2>1
  <2>3. Op(msg[1].remote, "send") \in [on : 1..made, kind : OpKinds]
    BY <2>2 DEF Op, OpKinds, Made
  <2>4. pending' \subseteq [on : 1..made, kind : OpKinds]
    BY <1>5, <2>3 DEF BouncePing
  <2> QED
    BY <1>1, <1>2, <1>5, <2>4 DEF BouncePing
<1>6. CASE BeginBroadcast
  <2>1. at' = 1 /\ reached' = {} /\ app' = "visit" /\ msg # <<>>
        /\ UNCHANGED <<msg, dq, inbox, runner, stopped, accepting, pending, told>>
    BY <1>6 DEF BeginBroadcast
  <2>2. invalid' \in BOOLEAN
    BY <1>6 DEF BeginBroadcast
  <2> QED
    BY <1>1, <1>2, <2>1, <2>2
<1>7. CASE VisitOpen
  <2>1. dq[at] \in Made /\ at \in Nat \ {0}
    BY <1>2, <1>7 DEF VisitOpen, Visiting
  <2>2. Op(dq[at], "send") \in [on : 1..made, kind : OpKinds] /\ dq[at] \in Clients
    <3>1. dq[at] \in 1..made /\ "send" \in OpKinds
      BY <2>1 DEF Made, OpKinds
    <3>2. dq[at] \in Clients
      BY <3>1, <1>2, BoundAssumption DEF Clients
    <3> QED
      BY <3>1, <3>2 DEF Op
  <2>3. pending' \subseteq [on : 1..made, kind : OpKinds] /\ reached' \subseteq Clients
    BY <1>7, <2>2 DEF VisitOpen
  <2> QED
    BY <1>1, <1>2, <1>7, <2>1, <2>3 DEF VisitOpen, Visiting
<1>8. CASE VisitClosed
  <2>1. dq[at] \in Made /\ at \in Nat \ {0} /\ dq[at] \in Clients
    BY <1>2, <1>8 DEF VisitClosed, Visiting, Made, Clients
  <2>2. dq' \in Seq(Made \cup {Null}) /\ dq' \in Seq(Clients \cup {Null})
    <3>1. dq' = [dq EXCEPT ![at] = Null]
      BY <1>8 DEF VisitClosed
    <3>2. ASSUME NEW S, dq \in Seq(S \cup {Null}) PROVE dq' \in Seq(S \cup {Null})
      <4>1. Len(dq) \in Nat /\ dq \in [1..Len(dq) -> S \cup {Null}]
        BY <3>2
      <4>2. dq' \in [1..Len(dq) -> S \cup {Null}]
        BY <3>1, <4>1
      <4> QED
        BY <4>1, <4>2, FunctionIsSeq
    <3>3. dq \in Seq(Clients \cup {Null})
      OBVIOUS
    <3> QED
      BY <1>2, <3>2, <3>3
  <2>3. told' \in [Clients -> Nat]
    BY <2>1, <1>8 DEF VisitClosed
  <2> QED
    BY <1>1, <1>2, <1>8, <2>1, <2>2, <2>3 DEF VisitClosed, Visiting
<1>9. CASE EndBroadcast
  <2>1. dq' \in Seq(Made \cup {Null}) /\ dq' \in Seq(Clients \cup {Null})
    <3>1. CASE EraseNulls
      <4>1. dq' \in Seq(Made) /\ dq' \in Seq(Clients)
        BY <1>2, <3>1, EraseFacts
      <4> QED
        BY <4>1
    <3>2. CASE UNCHANGED dq
      BY <1>2, <3>2
    <3> QED
      BY <1>9, <3>1, <3>2 DEF EndBroadcast
  <2> QED
    BY <1>1, <1>2, <1>9, <2>1 DEF EndBroadcast
<1>10. CASE Stop
  BY <1>1, <1>10 DEF Stop
<1>11. CASE Join
  BY <1>1, <1>11 DEF Join
<1>12. CASE Destroy
  BY <1>1, <1>12 DEF Destroy
<1> QED
  BY <1>3, <1>4, <1>5, <1>6, <1>7, <1>8, <1>9, <1>10, <1>11, <1>12
     DEF Application, Update, MessageAllClients

LEMMA TypeNext == TypeInv /\ [Next]_vars => TypeInv'
<1> SUFFICES ASSUME TypeInv, [Next]_vars PROVE TypeInv'
  OBVIOUS
<1>1. CASE Begin
  BY <1>1 DEF Begin, TypeInv, TypeOK, Made, loop
<1>2. CASE RunReturns
  BY <1>2 DEF RunReturns, TypeInv, TypeOK, Made, loop
<1>3. CASE UNCHANGED vars
  BY <1>3 DEF vars, TypeInv, TypeOK, Made
<1> QED
  BY <1>1, <1>2, <1>3, TypeHandler, TypeAccept, TypeApplication DEF Next

\* What the two threads share and keep has its type, whatever the clients send.
THEOREM ServerTypes == Spec => []TypeOK
<1>1. TypeInv => TypeOK
  BY DEF TypeInv
<1> QED
  BY <1>1, TypeInit, TypeNext, PTL DEF Spec

-----------------------------------------------------------------------------
(* The list: who is in it, and what a broadcast makes of it.               *)

\* No client is in the list twice; only those it met are told about; and a loop that has
\* met no closed one leaves no null to erase.
ListInv ==
  /\ ToldOnce
  /\ \A c \in Clients : told[c] = 1 => c <= made
  /\ \A i, j \in DOMAIN dq : i # j /\ dq[i] = dq[j] => dq[i] = Null
  /\ app = "visit" /\ ~invalid => \A i \in DOMAIN dq : dq[i] # Null

\* A broadcast has reached whom it has passed, or found them closed.
PassedInv ==
  app = "visit" =>
    \A i \in DOMAIN dq : i < at =>
      dq[i] \in {Null, msg[1].remote} \cup reached \/ sock[dq[i]] = "closed"

LEMMA ListInit == Init => ListInv /\ PassedInv
<1> SUFFICES ASSUME Init PROVE ListInv /\ PassedInv
  OBVIOUS
<1>1. app = "new" /\ dq = <<>> /\ told = [c \in Clients |-> 0]
  BY DEF Init
<1> QED
  BY <1>1 DEF ListInv, PassedInv, ToldOnce

\* A client that is in the list was made and has not been told about.
LEMMA Listed ==
  ASSUME TypeInv, ListInv, NEW i \in DOMAIN dq, dq[i] # Null
  PROVE  dq[i] \in Made /\ dq[i] \in Clients /\ told[dq[i]] = 0
<1>1. dq[i] \in Made /\ dq[i] \in Clients
  BY DEF TypeInv, TypeOK
<1>2. told[dq[i]] \in Nat /\ told[dq[i]] <= 1
  BY <1>1 DEF ListInv, ToldOnce, TypeInv, TypeOK
<1>3. told[dq[i]] # 1
  BY <1>1 DEF ListInv, ToldOnce, Range
<1> QED
  BY <1>1, <1>2, <1>3

\* What leaves the list alone, and opens no socket of a client made before, keeps ListInv.
LEMMA ListKept ==
  ASSUME TypeInv, ListInv, UNCHANGED <<dq, told, at>>, made' \in Nat, made <= made',
         \A c \in Made : sock[c] = "closed" => sock'[c] = "closed",
         app \in {"visit", "undefined", "terminated"}
           => app' \in {"visit", "undefined", "terminated"},
         app' = "visit" => app = "visit" /\ UNCHANGED invalid
  PROVE  ListInv'
<1>1. made \in Nat
  BY DEF TypeInv, TypeOK
<1>2. \A c \in Clients : told[c] = 1 => c \in Made /\ c <= made'
  BY <1>1 DEF ListInv, Made, Clients
<1>3. ToldOnce'
  BY <1>2 DEF ListInv, ToldOnce, Range
<1> QED
  BY <1>2, <1>3 DEF ListInv

\* What leaves the list and the loop alone keeps PassedInv.
LEMMA PassedKept ==
  ASSUME TypeInv, PassedInv,
         \A c \in Made : sock[c] = "closed" => sock'[c] = "closed",
         app' = "visit" => app = "visit" /\ UNCHANGED <<dq, at, msg, reached>>
  PROVE  PassedInv'
<1>1. \A i \in DOMAIN dq : dq[i] # Null => dq[i] \in Made
  BY DEF TypeInv
<1> QED
  BY <1>1 DEF PassedInv

LEMMA ListHandler ==
  ASSUME TypeInv, ListInv, PassedInv, NEW c \in Clients, ConnectionHandler(c)
  PROVE  ListInv' /\ PassedInv'
<1>1. UNCHANGED <<msg, at, invalid, dq, reached, made, told>>
  BY DEF ConnectionHandler, OnRead, OnWrite, RunSend, OnError, OnDestroyed, Run, loop
<1>2. app' \in {app, "undefined"}
  BY DEF ConnectionHandler, OnRead, OnWrite, RunSend, OnError, OnDestroyed
<1>3. \A d \in Clients : sock[d] = "closed" => sock'[d] = "closed"
  BY DEF ConnectionHandler, OnRead, OnWrite, RunSend, OnError, OnDestroyed, TypeInv, TypeOK
<1>4. made \in Nat /\ Made \subseteq Clients
  BY BoundAssumption DEF TypeInv, TypeOK, Made, Clients
<1> QED
  BY <1>1, <1>2, <1>3, <1>4, ListKept, PassedKept

\* The accept handler puts a client in the list that was not there, and does it while a
\* broadcast iterates only at the price of the program's meaning.
LEMMA ListAccept ==
  ASSUME TypeInv, ListInv, PassedInv, AcceptClient
  PROVE  ListInv' /\ PassedInv'
<1>a. UNCHANGED <<msg, at, invalid, reached, told>> /\ made' = made + 1 /\ made < MaxClients
  BY DEF AcceptClient, Approve, Deny, AcceptError, AcceptThrows, AcceptHandler, loop
<1>b. made \in Nat /\ made' \in Clients /\ Made \subseteq Clients
  BY <1>a, BoundAssumption DEF TypeInv, TypeOK, Made, Clients
<1>c. \A d \in Made : sock'[d] = sock[d]
  <2>1. \A d \in Made : d \in Clients /\ d # made'
    BY <1>a, <1>b DEF Made
  <2>2. sock \in [Clients -> {"none", "open", "closed"}]
    BY DEF TypeInv, TypeOK
  <2>3. \/ sock' = sock
        \/ sock' = [sock EXCEPT ![made'] = "open"]
        \/ sock' = [sock EXCEPT ![made'] = "closed"]
    BY DEF AcceptClient, Approve, Deny, AcceptError, AcceptThrows
  <2> QED
    BY <2>1, <2>2, <2>3
<1>d. app' \in {app, "undefined", "terminated"}
  BY DEF AcceptClient, Approve, Deny, AcceptError, AcceptThrows
<1>1. CASE UNCHANGED dq
  BY <1>1, <1>a, <1>b, <1>c, <1>d, ListKept, PassedKept
<1>2. CASE Approve
  <2>1. dq' = Append(dq, made') /\ app' # "visit" /\ (app = "visit" => app' = "undefined")
    BY <1>2 DEF Approve, Race
  <2>2. dq \in Seq(Made \cup {Null}) /\ made' \notin Made /\ made' # Null
    BY <1>a, <1>b DEF TypeInv, Made, Null
  <2>3. /\ Len(dq) \in Nat /\ DOMAIN dq = 1..Len(dq) /\ DOMAIN dq' = 1..Len(dq) + 1
        /\ dq'[Len(dq) + 1] = made'
        /\ \A i \in DOMAIN dq : dq'[i] = dq[i] /\ dq[i] \in Made \cup {Null}
    BY <2>1, <2>2
  <2>4. \A i \in DOMAIN dq' : i \in DOMAIN dq \/ i = Len(dq) + 1
    BY <2>3
  <2>5. \A d \in Clients : told[d] = 1 => d \in Made /\ d # made' /\ d <= made'
    BY <1>a, <1>b DEF ListInv, Made, Clients
  <2>6. \A i, j \in DOMAIN dq' : i # j /\ dq'[i] = dq'[j] => dq'[i] = Null
    BY <2>2, <2>3, <2>4 DEF ListInv
  <2>7. \A i \in DOMAIN dq' : dq'[i] = Null
          => app' \in {"visit", "undefined", "terminated"} /\ i < at'
    BY <1>a, <1>d, <2>2, <2>3, <2>4 DEF ListInv, ToldOnce
  <2>8. \A d \in Clients : told'[d] = 1 => sock'[d] = "closed" /\ d \notin Range(dq')
    <3> SUFFICES ASSUME NEW d \in Clients, told'[d] = 1
                 PROVE  sock'[d] = "closed" /\ d \notin Range(dq')
      OBVIOUS
    <3>1. d \in Made /\ d # made' /\ sock[d] = "closed" /\ d \notin Range(dq)
      BY <1>a, <2>5 DEF ListInv, ToldOnce
    <3>2. \A i \in DOMAIN dq' : dq'[i] # d
      BY <3>1, <2>3, <2>4 DEF Range
    <3> QED
      BY <3>1, <3>2, <1>c DEF Range
  <2>9. \A d \in Clients : told'[d] <= 1
    BY <1>a DEF ListInv, ToldOnce
  <2> QED
    BY <1>a, <2>1, <2>5, <2>6, <2>7, <2>8, <2>9 DEF ListInv, ToldOnce, PassedInv
<1> QED
  BY <1>1, <1>2 DEF AcceptClient, Deny, AcceptError, AcceptThrows

\* The steps of the application thread outside the loop.
LEMMA ListOutside ==
  ASSUME TypeInv, ListInv, PassedInv,
         Start \/ TakeMessage \/ BouncePing \/ BeginBroadcast \/ Stop \/ Join \/ Destroy
  PROVE  ListInv' /\ PassedInv'
<1>1. UNCHANGED <<dq, told, sock, made>> /\ made \in Nat
  BY DEF Start, TakeMessage, BouncePing, BeginBroadcast, Stop, Join, Destroy, context, TypeInv,
     TypeOK
<1>2. app \notin {"visit", "undefined", "terminated"}
  BY DEF Start, TakeMessage, BouncePing, BeginBroadcast, Stop, Join, Destroy
<1>3. CASE BeginBroadcast
  <2>1. \A i \in DOMAIN dq : dq[i] # Null
    BY <1>2 DEF ListInv, ToldOnce
  <2>2. at' = 1 /\ DOMAIN dq \subseteq Nat \ {0}
    BY <1>3 DEF BeginBroadcast, TypeInv
  <2>3. ListInv'
    BY <1>1, <2>1 DEF ListInv, ToldOnce, Range
  <2>4. PassedInv'
    BY <1>1, <2>2 DEF PassedInv
  <2> QED
    BY <2>3, <2>4
<1>4. CASE ~BeginBroadcast
  <2>1. app' # "visit" /\ UNCHANGED at
    BY <1>4 DEF Start, TakeMessage, BouncePing, Stop, Join, Destroy, loop
  <2> QED
    BY <1>1, <1>2, <2>1, ListKept, PassedKept
<1> QED
  BY <1>3, <1>4

\* The loop at an open client: it moves on, having sent the message unless it is the sender.
LEMMA ListVisitOpen ==
  ASSUME TypeInv, ListInv, PassedInv, VisitOpen
  PROVE  ListInv' /\ PassedInv'
<1>1. /\ UNCHANGED <<app, msg, invalid, dq, made, sock, told>> /\ at' = at + 1
      /\ app = "visit" /\ at \in DOMAIN dq /\ dq[at] # Null /\ at \in Nat
  BY DEF VisitOpen, Visiting, context, TypeInv
<1>2. reached \subseteq reached' /\ dq[at] \in {msg[1].remote} \cup reached'
  BY DEF VisitOpen
<1>3. \A i \in DOMAIN dq : i \in Nat /\ (i < at' => i < at \/ i = at)
  BY <1>1 DEF TypeInv
<1>4. \A i \in DOMAIN dq : i < at => i < at'
  BY <1>1, <1>3
<1>5. ListInv'
  BY <1>1, <1>4 DEF ListInv, ToldOnce, Range
<1>6. PassedInv'
  BY <1>1, <1>2, <1>3 DEF PassedInv
<1> QED
  BY <1>5, <1>6

\* The loop at a closed client, which is in the list once: it is told about and leaves it.
LEMMA ListVisitClosed ==
  ASSUME TypeInv, ListInv, PassedInv, VisitClosed
  PROVE  ListInv' /\ PassedInv'
<1>1. /\ UNCHANGED <<app, msg, reached, made, sock>> /\ at' = at + 1 /\ invalid' = TRUE
      /\ app = "visit" /\ at \in DOMAIN dq /\ dq[at] # Null /\ at \in Nat
      /\ sock[dq[at]] = "closed"
  BY DEF VisitClosed, Visiting, context, TypeInv
<1>2. dq[at] \in Made /\ dq[at] \in Clients /\ told[dq[at]] = 0
  BY <1>1, Listed
<1>3. DOMAIN dq' = DOMAIN dq /\ dq'[at] = Null /\ \A i \in DOMAIN dq : i # at => dq'[i] = dq[i]
  BY <1>1 DEF VisitClosed, TypeInv
<1>4. \A i \in DOMAIN dq : i # at => dq'[i] # dq[at]
  BY <1>1, <1>3 DEF ListInv
<1>5. \A c \in Clients : told'[c] = IF c = dq[at] THEN 1 ELSE told[c]
  BY <1>2 DEF VisitClosed, TypeInv, TypeOK
<1>6. \A i \in DOMAIN dq : i \in Nat /\ (i < at => i < at') /\ (i < at' => i < at \/ i = at)
  BY <1>1 DEF TypeInv
<1>7. \A c \in Range(dq') : c # dq[at] /\ (c = Null \/ c \in Range(dq))
  BY <1>1, <1>3, <1>4 DEF Range
<1>8. \A c \in Clients : told'[c] <= 1 /\ (told'[c] = 1 => sock'[c] = "closed" /\ c <= made'
                                                          /\ c \notin Range(dq'))
  <2> SUFFICES ASSUME NEW c \in Clients
               PROVE  told'[c] <= 1 /\ (told'[c] = 1 => sock'[c] = "closed" /\ c <= made'
                                                          /\ c \notin Range(dq'))
    OBVIOUS
  <2>1. CASE c = dq[at]
    BY <1>1, <1>2, <1>5, <1>7, <2>1 DEF Made
  <2>2. CASE c # dq[at]
    <3>1. told'[c] = told[c] /\ c # Null
      BY <1>5, <2>2 DEF Clients, Null
    <3> QED
      BY <1>1, <1>7, <3>1 DEF ListInv, ToldOnce
  <2> QED
    BY <2>1, <2>2
<1>9. \A i \in DOMAIN dq' : dq'[i] = Null => i < at'
  BY <1>1, <1>3, <1>6 DEF ListInv, ToldOnce
<1>10. \A i, j \in DOMAIN dq' : i # j /\ dq'[i] = dq'[j] => dq'[i] = Null
  BY <1>1, <1>3 DEF ListInv
<1>11. ListInv'
  BY <1>1, <1>8, <1>9, <1>10 DEF ListInv, ToldOnce
<1>12. PassedInv'
  BY <1>1, <1>3, <1>6 DEF PassedInv
<1> QED
  BY <1>11, <1>12

\* The end of the loop: the erase, if it met a closed client, leaves no null.
LEMMA ListEnd ==
  ASSUME TypeInv, ListInv, PassedInv, EndBroadcast
  PROVE  ListInv' /\ PassedInv'
<1>1. UNCHANGED <<made, sock, told>> /\ app = "visit" /\ app' = "idle"
  BY DEF EndBroadcast, context
<1>2. PassedInv'
  BY <1>1 DEF PassedInv
<1>3. /\ \A i \in DOMAIN dq' : dq'[i] # Null
      /\ \A c \in Range(dq') : c \in Range(dq)
      /\ \A i, j \in DOMAIN dq' : i # j => dq'[i] # dq'[j]
  <2>1. CASE invalid
    <3>1. EraseNulls /\ dq \in Seq(Made \cup {Null})
      BY <2>1 DEF EndBroadcast, TypeInv
    <3>2. /\ \A i \in DOMAIN dq' : dq'[i] # Null /\ dq'[i] \in Range(dq)
          /\ \A i, j \in DOMAIN dq' :
               i # j => \E k, l \in DOMAIN dq : k # l /\ dq'[i] = dq[k] /\ dq'[j] = dq[l]
      BY <3>1, EraseFacts
    <3>3. \A i, j \in DOMAIN dq' : i # j => dq'[i] # dq'[j]
      BY <3>2 DEF ListInv
    <3> QED
      BY <3>2, <3>3 DEF Range
  <2>2. CASE ~invalid
    <3>1. dq' = dq /\ \A i \in DOMAIN dq : dq[i] # Null
      BY <1>1, <2>2 DEF EndBroadcast, ListInv
    <3> QED
      BY <3>1 DEF ListInv
  <2> QED
    BY <2>1, <2>2
<1>4. ListInv'
  BY <1>1, <1>3 DEF ListInv, ToldOnce
<1> QED
  BY <1>2, <1>4

LEMMA ListNext == TypeInv /\ ListInv /\ PassedInv /\ [Next]_vars => ListInv' /\ PassedInv'
<1> SUFFICES ASSUME TypeInv, ListInv, PassedInv, [Next]_vars PROVE ListInv' /\ PassedInv'
  OBVIOUS
<1>1. CASE Begin \/ RunReturns \/ UNCHANGED vars
  <2>1. UNCHANGED <<app, msg, loop, dq, made, sock, told>> /\ made \in Nat
    BY <1>1 DEF Begin, RunReturns, vars, loop, TypeInv, TypeOK
  <2> QED
    BY <2>1, ListKept, PassedKept DEF loop
<1> QED
  BY <1>1, ListHandler, ListAccept, ListOutside, ListVisitOpen, ListVisitClosed, ListEnd
     DEF Next, Application, Update, MessageAllClients

LEMMA ListAlways == Spec => [](TypeInv /\ ListInv /\ PassedInv)
<1>1. Init => TypeInv /\ ListInv /\ PassedInv
  BY TypeInit, ListInit
<1>2. (TypeInv /\ ListInv /\ PassedInv) /\ [Next]_vars => (TypeInv /\ ListInv /\ PassedInv)'
  BY TypeNext, ListNext
<1> QED
  BY <1>1, <1>2, PTL DEF Spec

\* OnClientDisconnect is called once at most for a client, after its socket has closed, and
\* never with a null: each client is in m_dqConnections once, and the erase leaves nothing
\* of one that was reset, for the next broadcast to meet.
THEOREM DisconnectToldOnce == Spec => []ToldOnce
<1>1. ListInv => ToldOnce
  BY DEF ListInv
<1> QED
  BY <1>1, ListAlways, PTL

\* A broadcast that comes to the end of m_dqConnections has been sent to every client in it
\* but the sender, or found it closed, whatever it reset on its way.
THEOREM BroadcastComplete == Spec => []BroadcastReaches
<1>1. TypeInv /\ PassedInv => BroadcastReaches
  <2> SUFFICES ASSUME TypeInv, PassedInv, app = "visit", at > Len(dq),
                      NEW c \in Range(dq) \ {Null, msg[1].remote}
               PROVE  c \in reached \/ sock[c] = "closed"
    BY DEF BroadcastReaches
  <2>1. PICK i \in DOMAIN dq : dq[i] = c
    BY DEF Range
  <2>2. i < at
    BY <2>1 DEF TypeInv
  <2> QED
    BY <2>1, <2>2 DEF PassedInv
<1> QED
  BY <1>1, ListAlways, PTL
=============================================================================
