--------------------------- MODULE ConnectionProofs ---------------------------
(***************************************************************************)
(* Proofs about Connection, for all messages, greetings, handshake words   *)
(* and scramblings, whatever the server sends back.                        *)
(*                                                                         *)
(* The messages an application builds are those Connection assumes         *)
(* (BuiltWellFormed).                                                      *)
(*                                                                         *)
(* The validation barrier of the server.  NothingBeforeValidation is not   *)
(* inductive: a second answer to the handshake could take the validation   *)
(* back. GateInv adds that the handshake is read once, from a connection   *)
(* accepted once: while the server waits for the answer, or has accepted   *)
(* nothing, it has validated nothing.                                      *)
(*                                                                         *)
(* The types, the write discipline and the listening.  PipeInv relates     *)
(* what is pending at each end (wq, wdone, read, rdone) to its queue, its  *)
(* socket and the handshake: one message and one validation word at most   *)
(* are being written, the message from the front of m_qMessagesOut         *)
(* (WriteOK); a read that has completed has its cells (ReadOK); the client *)
(* reads nothing while it writes its answer (StartInv); and what it reads  *)
(* first is the validation word (LeadInv), so that the word it scrambles   *)
(* is one.                                                                 *)
(***************************************************************************)
EXTENDS Connection, SequenceTheorems, FiniteSetTheorems, TLAPS

-----------------------------------------------------------------------------
(* Messages.                                                               *)

\* A message built with operator<< and operator>> announces the body it has: the header
\* that is written agrees with what WriteHeader decides from body.size().  (A message
\* that is received may not: see DeliveredIntact.)
LEMMA BuiltWellFormed ==
  ASSUME NEW m \in MessageType, NEW i \in Ids, NEW d \in Data
  PROVE  /\ WellFormed(Blank(i))
         /\ WellFormed(PushData(m, d))
         /\ m.body # <<>> => WellFormed(PopData(m))
<1>1. WellFormed(Blank(i))
  BY DEF WellFormed, Blank, BodyLength, EightBytes
<1>2. ASSUME NEW b \in Seq(CellType) PROVE WellFormed(WithBody(m, b))
  <2>1. WithBody(m, b).body = b /\ WithBody(m, b).size = 1 + Len(b) /\ Len(b) \in Nat
    BY <1>2, LenProperties DEF WithBody, PacketSize, HeaderSize, MessageType
  <2>2. QED BY <2>1 DEF WellFormed, BodyLength, PacketSize, HeaderSize, EightBytes
<1>3. m.body \in Seq(CellType)
  BY DEF MessageType
<1>4. Append(m.body, [kind |-> "data", val |-> d]) \in Seq(CellType)
  <2>1. [kind |-> "data", val |-> d] \in CellType
    BY DEF CellType, DataCells
  <2>2. QED BY <1>3, <2>1, AppendProperties
<1>5. ASSUME m.body # <<>> PROVE SubSeq(m.body, 1, Len(m.body) - 1) \in Seq(CellType)
  <2>1. Len(m.body) \in Nat \ {0}
    BY <1>3, <1>5, EmptySeq
  <2>2. \A k \in 1..(Len(m.body) - 1) : m.body[k] \in CellType
    BY <1>3, <2>1, ElementOfSeq
  <2>3. QED BY <1>3, <2>1, <2>2, SubSeqProperties
<1>6. QED BY <1>1, <1>2, <1>4, <1>5 DEF PushData, PopData

-----------------------------------------------------------------------------
(* The validation barrier.                                                 *)

\* The functions of the ends stay functions of the ends.
ShapeInv == /\ sock  = [e \in Ends |-> sock[e]]
            /\ read  = [e \in Ends |-> read[e]]
            /\ inbox = [e \in Ends |-> inbox[e]]

GateInv ==
  /\ sock["server"] = "none" => /\ ~validated
                                /\ inbox["server"] = <<>>
                                /\ read["server"] = "none"
  /\ read["server"] = "validation" => ~validated
  /\ validated \in BOOLEAN
  /\ NothingBeforeValidation

VInv == ShapeInv /\ GateInv

LEMMA VInvInit == Init => VInv
BY DEF Init, VInv, ShapeInv, GateInv, NothingBeforeValidation, Ends

\* An action that touches neither the server's socket, its read, its inbox nor the
\* validation keeps the invariant.
LEMMA Elsewhere ==
  ASSUME VInv, ShapeInv',
         sock'["server"] = sock["server"] \/ sock'["server"] = "closed",
         read'["server"] = read["server"] \/ read'["server"] = "none",
         inbox'["server"] = inbox["server"],
         validated' = validated
  PROVE  VInv'
BY DEF VInv, GateInv, NothingBeforeValidation

LEMMA VInvNext == VInv /\ [Next]_vars => VInv'
<1> SUFFICES ASSUME VInv, [Next]_vars PROVE VInv'
  OBVIOUS
<1>a. ShapeInv /\ GateInv
  BY DEF VInv
<1>e. "client" \in Ends /\ "server" \in Ends /\ \A e \in Ends : e # "server" => e = "client"
  BY DEF Ends
<1>d. DOMAIN sock = Ends /\ DOMAIN read = Ends /\ DOMAIN inbox = Ends
  BY <1>a DEF ShapeInv
<1>1. CASE UNCHANGED <<sock, read, inbox, validated>>
  BY <1>1, <1>a, Elsewhere DEF ShapeInv
<1>2. ASSUME NEW e \in Ends, RunClose(e) \/ OnReadError(e) \/ OnWriteError(e) PROVE VInv'
  <2>1. ShapeInv'
    BY <1>2, <1>a DEF ShapeInv, RunClose, OnReadError, OnWriteError, readVars
  <2>2. /\ sock'["server"] = sock["server"] \/ sock'["server"] = "closed"
        /\ read'["server"] = read["server"] \/ read'["server"] = "none"
        /\ inbox' = inbox /\ validated' = validated
    BY <1>2, <1>d, <1>e DEF RunClose, OnReadError, OnWriteError, readVars, hsVars
  <2>3. QED BY <2>1, <2>2, Elsewhere
<1>3. CASE (\E g \in Greetings : Accept(g)) \/ Deny
  <2>1. sock["server"] = "none" /\ inbox' = inbox /\ validated' = validated
    BY <1>3 DEF Accept, ConnectToClient, Deny, readVars, hsVars
  <2>2. ShapeInv'
    BY <1>3, <1>a DEF ShapeInv, Accept, ConnectToClient, Deny, readVars
  <2>3. sock'["server"] # "none" /\ read'["server"] \in {"none", "validation"}
    BY <1>3, <1>a, <1>e DEF ShapeInv, GateInv, Accept, ConnectToClient, Deny, readVars
  <2>4. QED
    BY <1>a, <2>1, <2>2, <2>3 DEF VInv, GateInv, NothingBeforeValidation
<1>4. CASE CheckValidation
  <2>1. read["server"] = "validation" /\ inbox' = inbox
    BY <1>4 DEF CheckValidation, Take
  <2>2. sock["server"] # "none" /\ inbox["server"] = <<>>
    BY <1>a, <2>1 DEF GateInv, NothingBeforeValidation
  <2>3. ShapeInv'
    BY <1>4, <1>a DEF ShapeInv, CheckValidation
  <2>4. /\ validated' \in BOOLEAN
        /\ read'["server"] = IF validated' THEN "header" ELSE "none"
        /\ sock'["server"] # "none"
    BY <1>4, <1>a, <1>e, <2>2 DEF ShapeInv, CheckValidation, AfterCheck
  <2>5. QED
    BY <2>1, <2>2, <2>3, <2>4 DEF VInv, GateInv, NothingBeforeValidation
<1>5. CASE OnConnect \/ OnConnectError \/ AnswerValidation
  <2>1. /\ inbox' = inbox /\ validated' = validated
        /\ sock' = sock \/ sock' = [sock EXCEPT !["client"] = "closed"]
        /\ \E r \in ReadKinds : read' = [read EXCEPT !["client"] = r]
    BY <1>5 DEF OnConnect, OnConnectError, AnswerValidation, hsVars, ReadKinds
  <2>2. ShapeInv'
    BY <2>1, <1>a DEF ShapeInv
  <2>3. sock'["server"] = sock["server"] /\ read'["server"] = read["server"]
    BY <2>1, <1>d, <1>e
  <2>4. QED BY <2>1, <2>2, <2>3, Elsewhere
<1>6. ASSUME NEW e \in Ends, OnHeader(e) \/ OnBody(e) PROVE VInv'
  <2>1. /\ read[e] \in {"header", "body"}
        /\ \E r \in {"header", "body"} : read' = [read EXCEPT ![e] = r]
        /\ inbox' = inbox \/ \E m : inbox' = [inbox EXCEPT ![e] = m]
        /\ sock' = sock /\ validated' = validated
    BY <1>6 DEF OnHeader, OnBody, Take, AddToIncoming, hsVars
  <2>2. ShapeInv'
    BY <2>1, <1>a DEF ShapeInv
  <2>3. CASE e = "server"
    <3>1. validated /\ sock["server"] # "none"
      BY <1>a, <2>1, <2>3 DEF GateInv, NothingBeforeValidation
    <3>2. read'["server"] # "validation"
      BY <1>a, <1>e, <2>1, <2>3 DEF ShapeInv
    <3>3. QED
      BY <2>1, <2>2, <3>1, <3>2 DEF VInv, GateInv, NothingBeforeValidation
  <2>4. CASE e # "server"
    <3>1. read'["server"] = read["server"] /\ inbox'["server"] = inbox["server"]
      BY <1>d, <1>e, <2>1, <2>4
    <3>2. QED BY <2>1, <2>2, <3>1, Elsewhere
  <2>5. QED BY <2>3, <2>4
<1>7. ASSUME NEW e \in Ends, OnValidationWritten(e) PROVE VInv'
  <2>1. /\ inbox' = inbox /\ sock' = sock /\ validated' = validated
        /\ read' = read \/ read' = [read EXCEPT !["client"] = "header"]
    BY <1>7 DEF OnValidationWritten, hsVars
  <2>2. read'["server"] = read["server"]
    BY <2>1, <1>d, <1>e
  <2>3. ShapeInv'
    BY <2>1, <1>a DEF ShapeInv
  <2>4. QED BY <2>1, <2>2, <2>3, Elsewhere
<1>8. CASE Application \/ Establish \/ Break
  BY <1>8, <1>1 DEF Application, Send, Bounce, Disconnect, Establish, Break, readVars, hsVars
<1>9. ASSUME NEW e \in Ends, Reactor(e) \/ RunSend(e) \/ OnMessageWritten(e) PROVE VInv'
  BY <1>9, <1>1 DEF Reactor, Transfer, ReadComplete, RunSend, OnMessageWritten, readVars, hsVars
<1>10. CASE UNCHANGED vars
  BY <1>10, <1>1 DEF vars
<1>11. QED
  BY <1>2, <1>3, <1>4, <1>5, <1>6, <1>7, <1>8, <1>9, <1>10
  DEF Next, Handler, ClientHandshake, ServerHandshake

\* Until the client has answered the handshake the server neither reads a message header
\* from it nor pushes anything into m_qMessagesIn.
THEOREM ValidationBarrier == Spec => []NothingBeforeValidation
<1>1. VInv => NothingBeforeValidation
  BY DEF VInv, GateInv
<1>2. QED BY <1>1, VInvInit, VInvNext, PTL DEF Spec

-----------------------------------------------------------------------------
(* Sequences with at most one element of a set.                            *)

Some(s, S)      == \E i \in DOMAIN s : s[i] \in S
AtMostOne(s, S) == \A i, j \in DOMAIN s : s[i] \in S /\ s[j] \in S => i = j

\* The empty sequence has none.
LEMMA SomeEmpty == ASSUME NEW S PROVE ~Some(<<>>, S) /\ AtMostOne(<<>>, S)
BY DEF Some, AtMostOne

\* Appending x adds x, and nothing else.
LEMMA SomeAppend ==
  ASSUME NEW T, NEW s \in Seq(T), NEW x \in T, NEW S
  PROVE  /\ Some(Append(s, x), S) <=> Some(s, S) \/ x \in S
         /\ AtMostOne(s, S) /\ ~ (x \in S /\ Some(s, S)) => AtMostOne(Append(s, x), S)
<1> DEFINE t == Append(s, x)
<1>1. /\ Len(s) \in Nat /\ DOMAIN s = 1..Len(s) /\ DOMAIN t = 1..(Len(s) + 1)
      /\ \A i \in 1..Len(s) : t[i] = s[i]
      /\ t[Len(s) + 1] = x
  BY AppendProperties, LenProperties
<1> HIDE DEF t
<1>2. \A i \in DOMAIN t : i \in DOMAIN s \/ i = Len(s) + 1
  BY <1>1
<1>3. DOMAIN s \subseteq DOMAIN t /\ Len(s) + 1 \in DOMAIN t
  BY <1>1
<1>4. Some(t, S) <=> Some(s, S) \/ x \in S
  BY <1>1, <1>2, <1>3 DEF Some
<1>5. AtMostOne(s, S) /\ ~ (x \in S /\ Some(s, S)) => AtMostOne(t, S)
  BY <1>1, <1>2, <1>3 DEF Some, AtMostOne
<1> QED
  BY <1>4, <1>5 DEF t

\* Dropping the head drops it alone.
LEMMA SomeTail ==
  ASSUME NEW T, NEW s \in Seq(T), s # <<>>, NEW S
  PROVE  /\ Some(s, S) <=> Some(Tail(s), S) \/ Head(s) \in S
         /\ AtMostOne(s, S) => AtMostOne(Tail(s), S)
         /\ AtMostOne(s, S) /\ Head(s) \in S => ~Some(Tail(s), S)
<1> DEFINE t == Tail(s)
<1>1. /\ Len(s) \in Nat \ {0} /\ DOMAIN s = 1..Len(s) /\ DOMAIN t = 1..(Len(s) - 1)
      /\ \A i \in 1..(Len(s) - 1) : t[i] = s[i + 1]
      /\ Head(s) = s[1]
  BY HeadTailProperties, LenProperties, EmptySeq
<1> HIDE DEF t
<1>2. \A i \in DOMAIN t : i + 1 \in DOMAIN s /\ i + 1 # 1 /\ t[i] = s[i + 1]
  BY <1>1
<1>3. \A i \in DOMAIN s : i = 1 \/ (i - 1 \in DOMAIN t /\ t[i - 1] = s[i])
  BY <1>1
<1>4. Some(s, S) <=> Some(t, S) \/ Head(s) \in S
  <2>1. Some(s, S) => Some(t, S) \/ Head(s) \in S
    BY <1>1, <1>3 DEF Some
  <2>2. Some(t, S) \/ Head(s) \in S => Some(s, S)
    BY <1>1, <1>2 DEF Some
  <2> QED
    BY <2>1, <2>2
<1>5. AtMostOne(s, S) => AtMostOne(t, S)
  <2> SUFFICES ASSUME AtMostOne(s, S), NEW i \in DOMAIN t, NEW j \in DOMAIN t, t[i] \in S, t[j] \in S
               PROVE  i = j
    BY DEF AtMostOne
  <2>1. i + 1 = j + 1
    BY <1>2 DEF AtMostOne
  <2> QED
    BY <2>1, <1>1
<1>6. AtMostOne(s, S) /\ Head(s) \in S => ~Some(t, S)
  <2> SUFFICES ASSUME AtMostOne(s, S), s[1] \in S, NEW i \in DOMAIN t, t[i] \in S PROVE FALSE
    BY <1>1 DEF Some
  <2>1. 1 \in DOMAIN s
    BY <1>1
  <2> QED
    BY <1>2, <2>1 DEF AtMostOne
<1> QED
  BY <1>4, <1>5, <1>6 DEF t

\* Replacing s by s \o <<x>>, or by s \o <<>>.
LEMMA ConcatOne ==
  ASSUME NEW T, NEW s \in Seq(T), NEW x \in T
  PROVE  s \o <<x>> = Append(s, x) /\ s \o <<>> = s
BY AppendIsConcat, ConcatEmptySeq

\* What is left of a sequence after its first n elements, and a part of it.
LEMMA SubSeqType ==
  ASSUME NEW T, NEW s \in Seq(T), NEW a \in Nat \ {0}, NEW b \in Nat, b <= Len(s)
  PROVE  /\ SubSeq(s, a, b) \in Seq(T)
         /\ Len(SubSeq(s, a, b)) = IF a <= b THEN b - a + 1 ELSE 0
         /\ \A i \in 1..(b - a + 1) : SubSeq(s, a, b)[i] = s[a + i - 1]
<1>1. \A i \in a..b : s[i] \in T
  BY LenProperties, ElementOfSeq
<1> QED
  BY <1>1, SubSeqProperties

-----------------------------------------------------------------------------
(* The inductive invariant of the reads and the writes of each end.        *)

Ops           == [kind : WriteKinds, off : Nat]
MessageOps    == {o \in Ops : o.kind # "validation"}
ValidationOps == {o \in Ops : o.kind = "validation"}
MessageDone    == {"header", "body"}
ValidationDone == {"validation"}

\* At most one operation of a sort, in progress or with its handler still to run.
Once(e, ops, kinds) == /\ AtMostOne(wq[e], ops) /\ AtMostOne(wdone[e], kinds)
                       /\ ~ (Some(wq[e], ops) /\ Some(wdone[e], kinds))

Busy(e)     == Some(wq[e], MessageOps) \/ Some(wdone[e], MessageDone)
Greeting(e) == Some(wq[e], ValidationOps) \/ Some(wdone[e], ValidationDone)

\* Each end writes one message and one validation word at a time; the message being written
\* stays in m_qMessagesOut, and one that waits there is being written or never will be.
WriteOK(e) == /\ Once(e, MessageOps, MessageDone)
              /\ Once(e, ValidationOps, ValidationDone)
              /\ Busy(e) => qOut[e] # <<>>
              /\ qOut[e] # <<>> /\ sock[e] = "open" => Busy(e)

\* A read that has completed has its cells; a body is read only when there is one.
ReadOK(e) == /\ rdone[e] => read[e] # "none"
             /\ rdone[e] /\ read[e] # "connect" => Len(stream[e]) >= Needed(e)
             /\ read[e] = "body" => tmpIn[e].size > EightBytes

\* The client connects once, and reads nothing while it writes its answer; the server's
\* connection does nothing before the accept handler.
StartInv ==
  /\ read["server"] # "connect"
  /\ sock["client"] # "none"
  /\ link = "down" => /\ ~rdone["client"] /\ read["client"] \in {"none", "connect"}
                      /\ ~Greeting("client") /\ sock["server"] = "none"
                      /\ sock["client"] = "open" => read["client"] = "connect"
  /\ Greeting("client") => read["client"] = "none"
  /\ sock["server"] = "none" => /\ read["server"] = "none"
                                /\ wq["server"] = <<>> /\ wdone["server"] = <<>>
                                /\ posted["server"] = <<>> /\ qOut["server"] = <<>>
                                /\ sent["server"] = <<>>

\* Nothing more passes, at least in one direction: for good.
Cut == link = "broken" \/ \E e \in Ends : sock[e] = "closed"

\* The validation word leads what the server writes, and what the client reads.
LeadInv ==
  /\ \A i \in DOMAIN wq["server"] : wq["server"][i].kind = "validation" => i = 1
  /\ read["client"] \in {"connect", "validation"} =>
       IF stream["client"] = <<>>
       THEN \/ Cut \/ sock["server"] = "none"
            \/ wq["server"] # <<>> /\ Head(wq["server"]).kind = "validation"
       ELSE Head(stream["client"]) \in NonceCells

\* An open end reads, or is the client that writes its answer.
Listening == \A e \in Ends : sock[e] = "open" => read[e] # "none" \/ (e = "client" /\ Greeting(e))

PipeInv == /\ VInv
           /\ TypeOK
           /\ \A e \in Ends : WriteOK(e) /\ ReadOK(e)
           /\ StartInv
           /\ LeadInv
           /\ Listening

-----------------------------------------------------------------------------
(* The types.                                                              *)

\* The two ends are each other's peer.
LEMMA EndsFacts ==
  /\ "client" \in Ends /\ "server" \in Ends
  /\ \A e \in Ends : e = "client" \/ e = "server"
  /\ Peer("client") = "server" /\ Peer("server") = "client"
  /\ \A e \in Ends : Peer(e) \in Ends /\ Peer(e) # e /\ Peer(Peer(e)) = e
<1>1. Peer("client") = "server" /\ Peer("server") = "client"
  BY DEF Peer, Ends
<1> QED
  BY <1>1 DEF Ends

\* A header is a cell; what stray bytes say when read as a header is one too.
LEMMA HeaderTypes ==
  /\ \A m \in MessageType : HeaderCell(m) \in HeaderCells
  /\ \A cell \in CellType : \A h \in HeadersIn(cell) : h.id \in Ids /\ h.size \in Nat
<1>1. ASSUME NEW m \in MessageType PROVE HeaderCell(m) \in HeaderCells
  BY DEF MessageType, HeaderCell, HeaderCells
<1>2. ASSUME NEW cell \in CellType, NEW h \in HeadersIn(cell)
      PROVE  h.id \in Ids /\ h.size \in Nat
  <2>1. CASE cell.kind = "header"
    <3>1. cell \notin DataCells /\ cell \notin NonceCells
      BY <2>1 DEF DataCells, NonceCells
    <3>2. cell \in HeaderCells
      BY <3>1 DEF CellType
    <3>3. h = cell
      BY <2>1 DEF HeadersIn
    <3> QED
      BY <3>2, <3>3 DEF HeaderCells
  <2>2. CASE cell.kind # "header"
    <3>1. h \in [kind : {"header"}, id : Ids, size : AnySize]
      BY <2>2 DEF HeadersIn
    <3> QED
      BY <3>1 DEF AnySize
  <2> QED
    BY <2>1, <2>2
<1> QED
  BY <1>1, <1>2

\* The memory of every write that is pending holds cells.
LEMMA BufferType ==
  ASSUME TypeOK, NEW e \in Ends, NEW kind \in WriteKinds,
         kind # "validation" => qOut[e] # <<>>
  PROVE  Buffer(e, kind) \in Seq(CellType)
<1>1. CASE kind = "validation"
  <2>1. NonceCell(hsOut[e]) \in CellType
    BY DEF TypeOK, NonceCell, CellType, NonceCells
  <2> QED
    BY <2>1, <1>1 DEF Buffer
<1>2. CASE kind # "validation"
  <2>1. Head(qOut[e]) \in MessageType
    BY <1>2, HeadTailProperties DEF TypeOK
  <2>2. HeaderCell(Head(qOut[e])) \in CellType
    BY <2>1, HeaderTypes DEF CellType
  <2>3. Head(qOut[e]).body \in Seq(CellType)
    BY <2>1 DEF MessageType
  <2> QED
    BY <1>2, <2>2, <2>3 DEF Buffer, WriteKinds
<1> QED
  BY <1>1, <1>2

\* A pending write has the message it is of in m_qMessagesOut.
LEMMA BusyQueue ==
  ASSUME TypeOK, NEW e \in Ends, WriteOK(e)
  PROVE  /\ wq[e] # <<>> => /\ Head(wq[e]) \in Ops /\ Tail(wq[e]) \in Seq(Ops)
                            /\ Head(wq[e]).kind # "validation" => qOut[e] # <<>>
         /\ wdone[e] # <<>> => /\ Head(wdone[e]) \in WriteKinds /\ Tail(wdone[e]) \in Seq(WriteKinds)
                               /\ Head(wdone[e]) # "validation" => qOut[e] # <<>>
<1>1. wq[e] \in Seq(Ops) /\ wdone[e] \in Seq(WriteKinds)
  BY DEF TypeOK, Ops
<1>2. ASSUME wq[e] # <<>>
      PROVE  /\ Head(wq[e]) \in Ops /\ Tail(wq[e]) \in Seq(Ops)
             /\ Head(wq[e]).kind # "validation" => qOut[e] # <<>>
  <2>1. Head(wq[e]) \in Ops /\ Tail(wq[e]) \in Seq(Ops)
    BY <1>1, <1>2, HeadTailProperties
  <2>2. Head(wq[e]).kind # "validation" => Some(wq[e], MessageOps)
    BY <1>1, <1>2, <2>1, SomeTail DEF MessageOps
  <2> QED
    BY <2>1, <2>2 DEF WriteOK, Busy
<1>3. ASSUME wdone[e] # <<>>
      PROVE  /\ Head(wdone[e]) \in WriteKinds /\ Tail(wdone[e]) \in Seq(WriteKinds)
             /\ Head(wdone[e]) # "validation" => qOut[e] # <<>>
  <2>1. Head(wdone[e]) \in WriteKinds /\ Tail(wdone[e]) \in Seq(WriteKinds)
    BY <1>1, <1>3, HeadTailProperties
  <2>2. Head(wdone[e]) # "validation" => Some(wdone[e], MessageDone)
    BY <1>1, <1>3, <2>1, SomeTail DEF MessageDone, WriteKinds
  <2> QED
    BY <2>1, <2>2 DEF WriteOK, Busy
<1> QED
  BY <1>2, <1>3

\* The network and asio only move cells.
LEMMA ReactorTypes ==
  ASSUME PipeInv, NEW e \in Ends, Reactor(e) PROVE TypeOK'
<1>a. TypeOK /\ WriteOK(e)
  BY DEF PipeInv
<1>1. CASE ReadComplete(e)
  BY <1>1, <1>a DEF ReadComplete, TypeOK, netVars, outVars, appVars, hsVars
<1>2. CASE Transfer(e)
  <2> DEFINE op  == Head(wq[e])
             buf == Buffer(e, op.kind)
  <2>1. wq[e] # <<>> /\ op \in Ops /\ Tail(wq[e]) \in Seq(Ops)
    BY <1>2, <1>a, BusyQueue DEF Transfer
  <2>2. op.kind \in WriteKinds /\ op.off \in Nat
    BY <2>1 DEF Ops
  <2>3. buf \in Seq(CellType) /\ Len(buf) \in Nat
    BY <1>a, <2>1, <2>2, BufferType, BusyQueue, LenProperties
  <2>4. PICK n \in 1..(Len(buf) - op.off) :
          /\ stream' = IF link = "up" /\ sock[Peer(e)] # "closed"
                       THEN [stream EXCEPT ![Peer(e)] = @ \o SubSeq(buf, op.off + 1, op.off + n)]
                       ELSE stream
          /\ IF op.off + n = Len(buf)
             THEN /\ wq' = [wq EXCEPT ![e] = Tail(@)]
                  /\ wdone' = [wdone EXCEPT ![e] = Append(@, op.kind)]
             ELSE /\ wq' = [wq EXCEPT ![e] = Append(Tail(@), [op EXCEPT !.off = @ + n])]
                  /\ UNCHANGED wdone
    BY <1>2 DEF Transfer
  <2>5. n \in Nat /\ op.off + n \in Nat /\ op.off + 1 \in Nat \ {0} /\ op.off + n <= Len(buf)
    BY <2>2, <2>3
  <2>6. SubSeq(buf, op.off + 1, op.off + n) \in Seq(CellType)
    BY <2>3, <2>5, SubSeqType
  <2>7. stream' \in [Ends -> Seq(CellType)]
    <3>1. stream[Peer(e)] \o SubSeq(buf, op.off + 1, op.off + n) \in Seq(CellType)
      BY <1>a, <2>6, EndsFacts, ConcatProperties DEF TypeOK
    <3> QED
      BY <1>a, <2>4, <3>1 DEF TypeOK
  <2>8. [op EXCEPT !.off = @ + n] \in Ops
    BY <2>1, <2>5 DEF Ops
  <2>9. wq' \in [Ends -> Seq(Ops)]
    <3>1. Append(Tail(wq[e]), [op EXCEPT !.off = @ + n]) \in Seq(Ops)
      BY <2>1, <2>8, AppendProperties
    <3>2. wq \in [Ends -> Seq(Ops)] /\ Tail(wq[e]) \in Seq(Ops)
      BY <1>a, <2>1 DEF TypeOK, Ops
    <3>3. wq' = [wq EXCEPT ![e] = Tail(wq[e])]
          \/ wq' = [wq EXCEPT ![e] = Append(Tail(wq[e]), [op EXCEPT !.off = @ + n])]
      BY <2>4
    <3> QED
      <4>1. CASE wq' = [wq EXCEPT ![e] = Tail(wq[e])]
        BY <3>2, <4>1 DEF Ops
      <4>2. CASE wq' = [wq EXCEPT ![e] = Append(Tail(wq[e]), [op EXCEPT !.off = @ + n])]
        BY <3>1, <3>2, <4>2 DEF Ops
      <4> QED
        BY <3>3, <4>1, <4>2
  <2>10. wdone' \in [Ends -> Seq(WriteKinds)]
    <3>1. Append(wdone[e], op.kind) \in Seq(WriteKinds)
      BY <1>a, <2>2, AppendProperties DEF TypeOK
    <3>2. wdone \in [Ends -> Seq(WriteKinds)]
      BY <1>a DEF TypeOK
    <3>3. wdone' = wdone \/ wdone' = [wdone EXCEPT ![e] = Append(wdone[e], op.kind)]
      BY <2>4
    <3> QED
      BY <3>1, <3>2, <3>3
  <2> HIDE DEF op, buf
  <2> QED
    BY <1>2, <1>a, <2>7, <2>9, <2>10 DEF Transfer, TypeOK, Ops, readVars, appVars, hsVars
<1> QED
  BY <1>1, <1>2 DEF Reactor

\* What Send posts is a message.
LEMMA PostTypes ==
  ASSUME TypeOK, NEW e \in Ends, NEW m \in MessageType, Post(e, m)
  PROVE  posted' \in [Ends -> Seq(TaskType)] /\ sent' \in [Ends -> Seq(MessageType)]
<1>1. SendTask(m) \in TaskType
  BY DEF SendTask, TaskType
<1>2. Append(posted[e], SendTask(m)) \in Seq(TaskType) /\ Append(sent[e], m) \in Seq(MessageType)
  BY <1>1, AppendProperties DEF TypeOK
<1> QED
  BY <1>2 DEF Post, TypeOK

\* The applications, the network and the accept keep the types.
LEMMA OutsideTypes ==
  ASSUME PipeInv, Application \/ Establish \/ Break \/ (\E g \in Greetings : Accept(g)) \/ Deny
  PROVE  TypeOK'
<1>a. TypeOK
  BY DEF PipeInv
<1> USE DEF netVars, readVars, outVars, appVars, hsVars, Disturb
<1>1. ASSUME NEW e \in Ends, NEW m \in Outgoing[e], Send(e, m) PROVE TypeOK'
  <2>1. m \in MessageType
    BY OutgoingAssumption
  <2>2. posted' \in [Ends -> Seq(TaskType)] /\ sent' \in [Ends -> Seq(MessageType)]
    BY <1>1, <1>a, <2>1, PostTypes DEF Send
  <2> QED
    BY <1>1, <1>a, <2>2 DEF Send, TypeOK
<1>2. CASE Bounce
  <2>1. PICK i \in DOMAIN inbox["server"] :
          /\ answered' = i
          /\ Post("server", inbox["server"][i])
          /\ UNCHANGED <<netVars, sock, readVars, outVars, hsVars, calm>>
    BY <1>2 DEF Bounce
  <2>2. inbox["server"] \in Seq(MessageType)
    BY <1>a, EndsFacts DEF TypeOK
  <2>3. i \in Nat /\ inbox["server"][i] \in MessageType
    BY <2>2, LenProperties, ElementOfSeq
  <2>4. posted' \in [Ends -> Seq(TaskType)] /\ sent' \in [Ends -> Seq(MessageType)]
    BY <1>a, <2>1, <2>3, PostTypes, EndsFacts
  <2> QED
    BY <1>a, <2>1, <2>3, <2>4 DEF TypeOK
<1>3. CASE Disconnect
  <2>1. Append(posted["client"], CloseTask) \in Seq(TaskType)
    BY <1>a, EndsFacts, AppendProperties DEF TypeOK, TaskType
  <2> QED
    BY <1>3, <1>a, <2>1 DEF Disconnect, TypeOK
<1>4. CASE Establish
  BY <1>4, <1>a DEF Establish, TypeOK
<1>5. CASE Break
  BY <1>5, <1>a DEF Break, TypeOK
<1>6. CASE Deny
  BY <1>6, <1>a DEF Deny, TypeOK
<1>7. ASSUME NEW g \in Greetings, Accept(g) PROVE TypeOK'
  <2>1. g \in Seq(MessageType) /\ Len(g) \in Nat
    <3>1. g \in Seq(Outgoing["server"]) /\ Outgoing["server"] \subseteq MessageType
      BY OutgoingAssumption, EndsFacts
    <3> QED
      BY <3>1, SeqMonotonic, LenProperties
  <2>2. [i \in DOMAIN g |-> SendTask(g[i])] \in Seq(TaskType)
    <3>1. \A i \in 1..Len(g) : SendTask(g[i]) \in TaskType
      BY <2>1, ElementOfSeq DEF SendTask, TaskType
    <3>2. [i \in 1..Len(g) |-> SendTask(g[i])] \in [1..Len(g) -> TaskType]
      BY <3>1
    <3>3. [1..Len(g) -> TaskType] \subseteq Seq(TaskType)
      BY <2>1, SeqDef
    <3> QED
      BY <2>1, <3>2, <3>3, LenProperties
  <2>3. <<Write("validation")>> \in Seq(Ops)
    BY DEF Write, Ops, WriteKinds
  <2> QED
    BY <1>7, <1>a, <2>1, <2>2, <2>3 DEF Accept, ConnectToClient, TypeOK, Ops, ReadKinds
<1> QED
  BY <1>1, <1>2, <1>3, <1>4, <1>5, <1>6, <1>7 DEF Application

\* The handlers of lambdas and of writes keep the types.
LEMMA WriterTypes ==
  ASSUME PipeInv, NEW e \in Ends,
         \/ RunSend(e) \/ RunClose(e)
         \/ OnValidationWritten(e) \/ OnMessageWritten(e) \/ OnWriteError(e)
  PROVE  TypeOK'
<1>a. TypeOK /\ WriteOK(e)
  BY DEF PipeInv
<1>b. wq[e] \in Seq(Ops) /\ \A kind \in WriteKinds : Write(kind) \in Ops
  BY <1>a DEF TypeOK, Ops, Write
<1> USE DEF netVars, readVars, outVars, appVars, hsVars
<1>1. CASE RunSend(e)
  <2>1. posted[e] # <<>> /\ Head(posted[e]).task = "send" /\ posted[e] \in Seq(TaskType)
    BY <1>1, <1>a DEF RunSend, TypeOK
  <2>2. Head(posted[e]) \in TaskType /\ Tail(posted[e]) \in Seq(TaskType)
    BY <2>1, HeadTailProperties
  <2>3. Head(posted[e]).msg \in MessageType
    <3>1. Head(posted[e]) \notin {CloseTask}
      BY <2>1 DEF CloseTask
    <3> QED
      BY <2>2, <3>1 DEF TaskType
  <2>4. Append(qOut[e], Head(posted[e]).msg) \in Seq(MessageType)
    BY <1>a, <2>3, AppendProperties DEF TypeOK
  <2>5. Append(wq[e], Write("header")) \in Seq(Ops)
    BY <1>b, AppendProperties DEF WriteKinds
  <2>6. /\ posted' \in [Ends -> Seq(TaskType)]
        /\ qOut' \in [Ends -> Seq(MessageType)]
        /\ wq' \in [Ends -> Seq(Ops)]
    BY <1>1, <1>a, <2>2, <2>4, <2>5 DEF RunSend, TypeOK, Ops
  <2>7. calm' \in BOOLEAN
    BY <1>1, <1>a DEF RunSend, TypeOK
  <2> QED
    BY <1>1, <1>a, <2>6, <2>7 DEF RunSend, TypeOK, Ops
<1>2. CASE RunClose(e)
  <2>1. Tail(posted[e]) \in Seq(TaskType)
    BY <1>2, <1>a, HeadTailProperties DEF RunClose, TypeOK
  <2> QED
    BY <1>2, <1>a, <2>1 DEF RunClose, TypeOK
<1>3. CASE OnValidationWritten(e)
  <2>1. Tail(wdone[e]) \in Seq(WriteKinds)
    BY <1>3, <1>a, BusyQueue DEF OnValidationWritten
  <2> QED
    BY <1>3, <1>a, <2>1 DEF OnValidationWritten, TypeOK, ReadKinds
<1>4. CASE OnMessageWritten(e)
  <2>1. Tail(wdone[e]) \in Seq(WriteKinds) /\ qOut[e] # <<>>
    BY <1>4, <1>a, BusyQueue DEF OnMessageWritten
  <2>2. Tail(qOut[e]) \in Seq(MessageType)
    BY <1>a, <2>1, HeadTailProperties DEF TypeOK
  <2>3. /\ Append(wq[e], Write("body")) \in Seq(Ops)
        /\ wq[e] \o NextWrite(Tail(qOut[e])) \in Seq(Ops)
    <3>1. Append(wq[e], Write("body")) \in Seq(Ops) /\ Append(wq[e], Write("header")) \in Seq(Ops)
      BY <1>b, AppendProperties DEF WriteKinds
    <3>2. wq[e] \o NextWrite(Tail(qOut[e])) \in {wq[e], Append(wq[e], Write("header"))}
      BY <1>b, ConcatOne DEF NextWrite, WriteKinds
    <3> QED
      BY <1>b, <3>1, <3>2
  <2>4. wq' \in [Ends -> Seq(Ops)] /\ qOut' \in [Ends -> Seq(MessageType)]
    BY <1>4, <1>a, <2>2, <2>3 DEF OnMessageWritten, TypeOK, Ops
  <2> QED
    BY <1>4, <1>a, <2>1, <2>4 DEF OnMessageWritten, TypeOK, Ops
<1>5. CASE OnWriteError(e)
  <2>1. Tail(wq[e]) \in Seq(Ops)
    BY <1>5, <1>a, BusyQueue DEF OnWriteError
  <2> QED
    BY <1>5, <1>a, <2>1 DEF OnWriteError, TypeOK, Ops
<1> QED
  BY <1>1, <1>2, <1>3, <1>4, <1>5

\* A read that is delivered takes cells that have arrived.
LEMMA TakeFacts ==
  ASSUME PipeInv, NEW e \in Ends, NEW kind \in {"validation", "header", "body"}, Take(e, kind)
  PROVE  /\ Needed(e) \in Nat \ {0} /\ Needed(e) <= Len(stream[e])
         /\ stream[e] # <<>> /\ Head(stream[e]) = stream[e][1] /\ stream[e][1] \in CellType
         /\ SubSeq(stream[e], Needed(e) + 1, Len(stream[e])) \in Seq(CellType)
         /\ Len(SubSeq(stream[e], Needed(e) + 1, Len(stream[e]))) = Len(stream[e]) - Needed(e)
         /\ \A i \in 1..(Len(stream[e]) - Needed(e)) :
              SubSeq(stream[e], Needed(e) + 1, Len(stream[e]))[i] = stream[e][Needed(e) + i]
<1>1. read[e] = kind /\ rdone[e] /\ stream[e] \in Seq(CellType) /\ tmpIn[e] \in MessageType
  BY DEF Take, PipeInv, TypeOK
<1>2. Len(stream[e]) >= Needed(e) /\ (read[e] = "body" => tmpIn[e].size > EightBytes)
  BY <1>1 DEF PipeInv, ReadOK
<1>3. Len(stream[e]) \in Nat
  BY <1>1, LenProperties
<1>4. Needed(e) \in Nat \ {0}
  <2>1. tmpIn[e].size \in Nat
    BY <1>1 DEF MessageType
  <2> QED
    BY <1>2, <2>1 DEF Needed, BodyLength, EightBytes
<1>5. stream[e] # <<>>
  BY <1>2, <1>3, <1>4, EmptySeq
<1>6. Head(stream[e]) = stream[e][1] /\ stream[e][1] \in CellType
  BY <1>1, <1>2, <1>3, <1>4, <1>5, ElementOfSeq
<1>7. Needed(e) + 1 \in Nat \ {0} /\ Len(stream[e]) <= Len(stream[e])
  BY <1>3, <1>4
<1>8. /\ SubSeq(stream[e], Needed(e) + 1, Len(stream[e])) \in Seq(CellType)
      /\ Len(SubSeq(stream[e], Needed(e) + 1, Len(stream[e])))
           = IF Needed(e) + 1 <= Len(stream[e]) THEN Len(stream[e]) - (Needed(e) + 1) + 1 ELSE 0
      /\ \A i \in 1..(Len(stream[e]) - (Needed(e) + 1) + 1) :
            SubSeq(stream[e], Needed(e) + 1, Len(stream[e]))[i] = stream[e][Needed(e) + 1 + i - 1]
  BY <1>1, <1>3, <1>7, SubSeqType
<1> HIDE DEF Needed
<1> DEFINE rest == SubSeq(stream[e], Needed(e) + 1, Len(stream[e]))
           L    == Len(stream[e])
           N    == Needed(e)
<1>9. Len(rest) = L - N
  BY <1>2, <1>3, <1>4, <1>8
<1>10. \A i \in 1..(L - N) : rest[i] = stream[e][N + i]
  <2> SUFFICES ASSUME NEW i \in 1..(L - N) PROVE rest[i] = stream[e][N + i]
    OBVIOUS
  <2>1. i \in 1..(L - (N + 1) + 1) /\ N + 1 + i - 1 = N + i
    BY <1>3, <1>4
  <2>2. rest[i] = stream[e][N + 1 + i - 1]
    BY <1>8, <2>1
  <2> QED
    BY <2>1, <2>2
<1> QED
  BY <1>2, <1>4, <1>5, <1>6, <1>8, <1>9, <1>10

\* The handlers of the reads keep the types.
LEMMA ReaderTypes ==
  ASSUME PipeInv, NEW e \in Ends, OnHeader(e) \/ OnBody(e) \/ OnReadError(e)
  PROVE  TypeOK'
<1>a. TypeOK
  BY DEF PipeInv
<1>b. tmpIn[e] \in MessageType /\ stream[e] \in Seq(CellType)
  BY <1>a DEF TypeOK
<1> USE DEF netVars, readVars, outVars, appVars, hsVars
<1>1. ASSUME NEW m \in MessageType, NEW kind \in {"header", "body"}, Take(e, kind),
             \/ tmpIn' = [tmpIn EXCEPT ![e] = m] /\ read' = [read EXCEPT ![e] = "body"] /\ UNCHANGED inbox
             \/ AddToIncoming(e, m),
             UNCHANGED <<link, sock, outVars, appVars, hsVars, calm>>
      PROVE  TypeOK'
  <2>1. SubSeq(stream[e], Needed(e) + 1, Len(stream[e])) \in Seq(CellType)
    BY <1>1, TakeFacts
  <2>2. Append(inbox[e], m) \in Seq(MessageType)
    BY <1>a, AppendProperties DEF TypeOK
  <2>3. stream' \in [Ends -> Seq(CellType)] /\ rdone' \in [Ends -> BOOLEAN]
    BY <1>a, <1>1, <2>1 DEF TypeOK, Take
  <2>4. /\ tmpIn' \in [Ends -> MessageType] /\ inbox' \in [Ends -> Seq(MessageType)]
        /\ read' \in [Ends -> ReadKinds]
    <3>1. /\ tmpIn' = [tmpIn EXCEPT ![e] = m]
          /\ inbox' = inbox \/ inbox' = [inbox EXCEPT ![e] = Append(@, m)]
          /\ read' = [read EXCEPT ![e] = "body"] \/ read' = [read EXCEPT ![e] = "header"]
      BY <1>1 DEF AddToIncoming
    <3>2. tmpIn \in [Ends -> MessageType] /\ inbox \in [Ends -> Seq(MessageType)]
          /\ read \in [Ends -> ReadKinds] /\ {"header", "body"} \subseteq ReadKinds
      BY <1>a DEF TypeOK, ReadKinds
    <3>3. tmpIn' \in [Ends -> MessageType]
      BY <3>1, <3>2
    <3>4. inbox' \in [Ends -> Seq(MessageType)]
      BY <2>2, <3>1, <3>2
    <3>5. read' \in [Ends -> ReadKinds]
      BY <3>1, <3>2
    <3> QED
      BY <3>3, <3>4, <3>5
  <2> QED
    BY <1>a, <1>1, <2>3, <2>4 DEF TypeOK
<1>2. CASE OnHeader(e)
  <2>1. Take(e, "header")
    BY <1>2 DEF OnHeader
  <2>2. Head(stream[e]) \in CellType
    BY <2>1, TakeFacts
  <2>3. PICK h \in HeadersIn(Head(stream[e])) :
          LET m == [tmpIn[e] EXCEPT !.id = h.id, !.size = h.size]
          IN  IF h.size > EightBytes
              THEN /\ tmpIn' = [tmpIn EXCEPT ![e] = m]
                   /\ read' = [read EXCEPT ![e] = "body"]
                   /\ UNCHANGED inbox
              ELSE AddToIncoming(e, m)
    BY <1>2 DEF OnHeader
  <2>4. h.id \in Ids /\ h.size \in Nat
    BY <2>2, HeaderTypes
  <2>5. [tmpIn[e] EXCEPT !.id = h.id, !.size = h.size] \in MessageType
    BY <1>b, <2>4 DEF MessageType
  <2>6. UNCHANGED <<link, sock, outVars, appVars, hsVars, calm>>
    BY <1>2 DEF OnHeader
  <2> QED
    BY <1>1, <2>1, <2>3, <2>5, <2>6
<1>3. CASE OnBody(e)
  <2>1. Take(e, "body")
    BY <1>3 DEF OnBody
  <2>2. SubSeq(stream[e], 1, Needed(e)) \in Seq(CellType)
    BY <1>b, <2>1, TakeFacts, SubSeqType
  <2>3. [tmpIn[e] EXCEPT !.body = SubSeq(stream[e], 1, Needed(e))] \in MessageType
    BY <1>b, <2>2 DEF MessageType
  <2> QED
    BY <1>3, <1>1, <2>1, <2>3 DEF OnBody
<1>4. CASE OnReadError(e)
  BY <1>4, <1>a DEF OnReadError, TypeOK, ReadKinds
<1> QED
  BY <1>2, <1>3, <1>4

\* What the client reads as the validation word is one: the server writes it first.
LEMMA FirstIsNonce ==
  ASSUME PipeInv, Take("client", "validation")
  PROVE  stream["client"][1] \in NonceCells
<1>1. stream["client"] # <<>> /\ Head(stream["client"]) = stream["client"][1]
  BY TakeFacts, EndsFacts
<1>2. read["client"] = "validation"
  BY DEF Take
<1> QED
  BY <1>1, <1>2 DEF PipeInv, LeadInv

\* The handlers of the handshake keep the types.
LEMMA HandshakeTypes ==
  ASSUME PipeInv, OnConnect \/ OnConnectError \/ AnswerValidation \/ CheckValidation
  PROVE  TypeOK'
<1>a. TypeOK
  BY DEF PipeInv
<1> USE EndsFacts DEF netVars, readVars, outVars, appVars, hsVars
<1>1. CASE OnConnect
  BY <1>1, <1>a DEF OnConnect, TypeOK, ReadKinds
<1>2. CASE OnConnectError
  BY <1>2, <1>a DEF OnConnectError, TypeOK, ReadKinds, Disturb
<1>3. CASE AnswerValidation
  <2>1. Take("client", "validation")
    BY <1>3 DEF AnswerValidation
  <2>2. SubSeq(stream["client"], Needed("client") + 1, Len(stream["client"])) \in Seq(CellType)
    BY <2>1, TakeFacts
  <2>3. Answer \in Nonces
    <3>1. Head(stream["client"]) = stream["client"][1]
      BY <2>1, TakeFacts
    <3>2. Head(stream["client"]).val \in Nonces
      BY <2>1, <3>1, FirstIsNonce DEF NonceCells
    <3> QED
      BY <3>2, HandshakeAssumption DEF Answer
  <2>4. Append(wq["client"], Write("validation")) \in Seq(Ops)
    <3>1. Write("validation") \in Ops /\ wq["client"] \in Seq(Ops)
      BY <1>a DEF Write, Ops, WriteKinds, TypeOK
    <3> QED
      BY <3>1, AppendProperties
  <2>5. stream' \in [Ends -> Seq(CellType)] /\ rdone' \in [Ends -> BOOLEAN]
    BY <1>a, <2>1, <2>2 DEF TypeOK, Take
  <2>6. /\ wq' \in [Ends -> Seq(Ops)] /\ hsOut' \in [Ends -> Nonces]
        /\ read' \in [Ends -> ReadKinds]
    BY <1>3, <1>a, <2>3, <2>4 DEF AnswerValidation, TypeOK, Ops, ReadKinds
  <2> QED
    BY <1>3, <1>a, <2>5, <2>6 DEF AnswerValidation, TypeOK, Ops
<1>4. CASE CheckValidation
  <2>1. Take("server", "validation")
    BY <1>4 DEF CheckValidation
  <2>2. SubSeq(stream["server"], Needed("server") + 1, Len(stream["server"])) \in Seq(CellType)
    BY <2>1, TakeFacts
  <2>3. stream' \in [Ends -> Seq(CellType)] /\ rdone' \in [Ends -> BOOLEAN]
    BY <1>a, <2>1, <2>2 DEF TypeOK, Take
  <2>4. validated' \in BOOLEAN
    BY <1>4 DEF CheckValidation
  <2>5. read' \in [Ends -> ReadKinds] /\ sock' \in [Ends -> {"none", "open", "closed"}]
    BY <1>4, <1>a DEF CheckValidation, TypeOK, ReadKinds, AfterCheck
  <2> QED
    BY <1>4, <1>a, <2>3, <2>4, <2>5 DEF CheckValidation, TypeOK
<1> QED
  BY <1>1, <1>2, <1>3, <1>4

LEMMA TypeStep == PipeInv /\ [Next]_vars => TypeOK'
<1>1. PipeInv /\ UNCHANGED vars => TypeOK'
  BY DEF PipeInv, TypeOK, vars
<1> QED
  BY <1>1, ReactorTypes, OutsideTypes, WriterTypes, ReaderTypes, HandshakeTypes
  DEF Next, Handler, ClientHandshake, ServerHandshake

-----------------------------------------------------------------------------
(* The write discipline.                                                   *)

\* An end whose queue and writes do not change, and whose socket does not open, keeps it.
LEMMA WritesUntouched ==
  ASSUME NEW e \in Ends, WriteOK(e),
         wq'[e] = wq[e], wdone'[e] = wdone[e], qOut'[e] = qOut[e],
         sock'[e] = "open" => sock[e] = "open"
  PROVE  WriteOK(e)'
BY DEF WriteOK, Once, Busy

\* The kinds of an operation in progress, and of a completed one, of the same sort.
LEMMA SortOfKind ==
  /\ \A o \in Ops : /\ o \in MessageOps <=> o.kind \in MessageDone
                    /\ o \in ValidationOps <=> o.kind \in ValidationDone
                    /\ o \in MessageOps <=> o \notin ValidationOps
  /\ \A kind \in WriteKinds : /\ kind \in MessageDone <=> kind \notin ValidationDone
                              /\ Write(kind) \in Ops
                              /\ Write(kind).kind = kind
BY DEF Ops, MessageOps, ValidationOps, MessageDone, ValidationDone, WriteKinds, Write

\* An operation that is started for the first time, or moves on, is the only one of its sort.
LEMMA WritesMove ==
  ASSUME PipeInv, NEW e \in Ends, Transfer(e)
  PROVE  WriteOK(e)' /\ (Greeting(e) <=> Greeting(e)')
<1>a. TypeOK /\ WriteOK(e) /\ wq[e] # <<>>
  BY DEF PipeInv, Transfer
<1> DEFINE op   == Head(wq[e])
           rest == Tail(wq[e])
<1>b. op \in Ops /\ rest \in Seq(Ops) /\ wq[e] \in Seq(Ops) /\ wdone[e] \in Seq(WriteKinds)
  BY <1>a, BusyQueue DEF TypeOK, Ops
<1>c. /\ qOut'[e] = qOut[e] /\ sock'[e] = sock[e]
      /\ \/ wq'[e] = rest /\ wdone'[e] = Append(wdone[e], op.kind)
         \/ /\ \E n \in Nat : wq'[e] = Append(rest, [op EXCEPT !.off = @ + n])
            /\ wdone'[e] = wdone[e]
  <2>1. op.kind \in WriteKinds /\ op.off \in Nat
    BY <1>b DEF Ops
  <2>2. Buffer(e, op.kind) \in Seq(CellType) /\ Len(Buffer(e, op.kind)) \in Nat
    BY <1>a, <2>1, BufferType, BusyQueue, LenProperties
  <2> HIDE DEF op, rest
  <2>3. 1..(Len(Buffer(e, op.kind)) - op.off) \subseteq Nat
    BY <2>1, <2>2
  <2> QED
    BY <1>a, <2>3 DEF Transfer, TypeOK, op, rest
<1>d. ASSUME NEW O, NEW K,
             \A o \in Ops : o \in O <=> o.kind \in K,
             Once(e, O, K)
      PROVE  /\ Once(e, O, K)'
             /\ (Some(wq[e], O) \/ Some(wdone[e], K)) <=> (Some(wq'[e], O) \/ Some(wdone'[e], K))
  <2>1. /\ Some(wq[e], O) <=> Some(rest, O) \/ op \in O
        /\ AtMostOne(wq[e], O) => AtMostOne(rest, O)
        /\ AtMostOne(wq[e], O) /\ op \in O => ~Some(rest, O)
    BY <1>a, <1>b, SomeTail
  <2>2. op.kind \in WriteKinds /\ (op \in O <=> op.kind \in K)
    BY <1>b, <1>d DEF Ops
  <2>3. CASE wq'[e] = rest /\ wdone'[e] = Append(wdone[e], op.kind)
    <3>1. /\ Some(wdone'[e], K) <=> Some(wdone[e], K) \/ op.kind \in K
          /\ AtMostOne(wdone[e], K) /\ ~ (op.kind \in K /\ Some(wdone[e], K)) => AtMostOne(wdone'[e], K)
      BY <1>b, <2>2, <2>3, SomeAppend
    <3> HIDE DEF op, rest
    <3> QED
      BY <1>d, <2>1, <2>2, <2>3, <3>1 DEF Once
  <2>4. ASSUME NEW n \in Nat, wq'[e] = Append(rest, [op EXCEPT !.off = @ + n]), wdone'[e] = wdone[e]
        PROVE  /\ Once(e, O, K)'
               /\ (Some(wq[e], O) \/ Some(wdone[e], K)) <=> (Some(wq'[e], O) \/ Some(wdone'[e], K))
    <3> DEFINE next == [op EXCEPT !.off = @ + n]
    <3>1. next \in Ops /\ next.kind = op.kind
      BY <1>b DEF Ops
    <3>2. next \in O <=> op \in O
      BY <1>b, <1>d, <3>1
    <3>3. wq'[e] = Append(rest, next)
      BY <2>4
    <3> HIDE DEF op, rest, next
    <3>4. /\ Some(wq'[e], O) <=> Some(rest, O) \/ next \in O
          /\ AtMostOne(rest, O) /\ ~ (next \in O /\ Some(rest, O)) => AtMostOne(wq'[e], O)
      BY <1>b, <3>1, <3>3, SomeAppend
    <3> QED
      BY <1>d, <2>1, <2>4, <3>2, <3>4 DEF Once
  <2> QED
    BY <1>c, <2>3, <2>4
<1>e. /\ Once(e, MessageOps, MessageDone) /\ Once(e, ValidationOps, ValidationDone)
      /\ Busy(e) => qOut[e] # <<>>
      /\ qOut[e] # <<>> /\ sock[e] = "open" => Busy(e)
  BY <1>a DEF WriteOK
<1>1. Once(e, MessageOps, MessageDone)' /\ (Busy(e) <=> Busy(e)')
  BY <1>d, <1>e, SortOfKind DEF Busy, MessageOps, MessageDone
<1>2. Once(e, ValidationOps, ValidationDone)' /\ (Greeting(e) <=> Greeting(e)')
  BY <1>d, <1>e, SortOfKind DEF Greeting, ValidationOps, ValidationDone
<1> QED
  BY <1>c, <1>e, <1>1, <1>2 DEF WriteOK

\* A write is started only when none of its sort is outstanding.
LEMMA WritesStart ==
  ASSUME PipeInv, NEW e \in Ends, NEW kind \in WriteKinds,
         wdone'[e] = wdone[e],
         wq'[e] = Append(wq[e], Write(kind)),
         IF kind = "validation" THEN ~Greeting(e) /\ qOut'[e] = qOut[e] /\ sock'[e] = sock[e]
                                ELSE ~Busy(e) /\ qOut'[e] # <<>>
  PROVE  WriteOK(e)'
<1>a. WriteOK(e) /\ wq[e] \in Seq(Ops)
  BY DEF PipeInv, TypeOK, Ops
<1>b. Write(kind) \in Ops /\ (Write(kind) \in MessageOps <=> kind # "validation")
                          /\ (Write(kind) \in ValidationOps <=> kind = "validation")
  BY SortOfKind DEF MessageDone, ValidationDone, WriteKinds
<1>c. \A O : /\ Some(wq'[e], O) <=> Some(wq[e], O) \/ Write(kind) \in O
             /\ AtMostOne(wq[e], O) /\ ~ (Write(kind) \in O /\ Some(wq[e], O)) => AtMostOne(wq'[e], O)
  BY <1>a, <1>b, SomeAppend
<1>d. /\ Some(wq'[e], MessageOps) <=> Some(wq[e], MessageOps) \/ kind # "validation"
      /\ AtMostOne(wq[e], MessageOps) /\ ~ (kind # "validation" /\ Some(wq[e], MessageOps))
           => AtMostOne(wq'[e], MessageOps)
      /\ Some(wq'[e], ValidationOps) <=> Some(wq[e], ValidationOps) \/ kind = "validation"
      /\ AtMostOne(wq[e], ValidationOps) /\ ~ (kind = "validation" /\ Some(wq[e], ValidationOps))
           => AtMostOne(wq'[e], ValidationOps)
  BY <1>b, <1>c
<1> QED
  BY <1>a, <1>d DEF WriteOK, Once, Busy, Greeting

\* The handlers of lambdas and writes keep the discipline.
LEMMA WriterWrites ==
  ASSUME PipeInv, NEW e \in Ends,
         RunSend(e) \/ OnValidationWritten(e) \/ OnMessageWritten(e) \/ OnWriteError(e)
  PROVE  WriteOK(e)'
<1>a. TypeOK /\ WriteOK(e) /\ wq[e] \in Seq(Ops) /\ wdone[e] \in Seq(WriteKinds)
      /\ qOut[e] \in Seq(MessageType)
  BY DEF PipeInv, TypeOK, Ops
<1>b. e \in DOMAIN wq /\ e \in DOMAIN wdone /\ e \in DOMAIN qOut /\ e \in DOMAIN sock
  BY <1>a DEF TypeOK
<1>1. CASE RunSend(e)
  <2>1. qOut'[e] = Append(qOut[e], Head(posted[e]).msg) /\ wdone'[e] = wdone[e] /\ sock'[e] = sock[e]
        /\ wq'[e] = IF qOut[e] # <<>> THEN wq[e] ELSE Append(wq[e], Write("header"))
    BY <1>1, <1>b DEF RunSend, Writing, netVars
  <2>2. qOut'[e] # <<>>
    <3>1. Len(qOut'[e]) = Len(qOut[e]) + 1 /\ Len(qOut[e]) \in Nat
      BY <1>a, <2>1, LenProperties
    <3> QED
      BY <3>1
  <2>3. CASE qOut[e] # <<>>
    BY <1>a, <2>1, <2>2, <2>3 DEF WriteOK, Once, Busy
  <2>4. CASE qOut[e] = <<>>
    <3>1. ~Busy(e)
      BY <1>a, <2>4 DEF WriteOK
    <3> QED
      BY <2>1, <2>2, <2>4, <3>1, WritesStart DEF WriteKinds
  <2> QED
    BY <2>3, <2>4
<1>2. CASE OnValidationWritten(e) \/ OnMessageWritten(e)
  <2>1. /\ wdone[e] # <<>> /\ wdone'[e] = Tail(wdone[e]) /\ sock'[e] = sock[e]
        /\ Head(wdone[e]) \in WriteKinds
    BY <1>2, <1>a, <1>b, HeadTailProperties DEF OnValidationWritten, OnMessageWritten
  <2>2. \A K : /\ Some(wdone[e], K) <=> Some(wdone'[e], K) \/ Head(wdone[e]) \in K
               /\ AtMostOne(wdone[e], K) => AtMostOne(wdone'[e], K)
               /\ AtMostOne(wdone[e], K) /\ Head(wdone[e]) \in K => ~Some(wdone'[e], K)
    BY <1>a, <2>1, SomeTail
  <2>3. /\ Once(e, MessageOps, MessageDone) /\ Once(e, ValidationOps, ValidationDone)
        /\ Busy(e) => qOut[e] # <<>>
        /\ qOut[e] # <<>> /\ sock[e] = "open" => Busy(e)
    BY <1>a DEF WriteOK
  <2>4. CASE OnValidationWritten(e)
    <3>1. wq'[e] = wq[e] /\ qOut'[e] = qOut[e] /\ Head(wdone[e]) \notin MessageDone
      BY <2>4 DEF OnValidationWritten, MessageDone
    <3>2. Some(wdone[e], MessageDone) <=> Some(wdone'[e], MessageDone)
      BY <2>2, <3>1
    <3> QED
      BY <2>1, <2>2, <2>3, <3>1, <3>2 DEF WriteOK, Once, Busy
  <2>5. CASE OnMessageWritten(e)
    <3>1. Head(wdone[e]) \in MessageDone
      BY <2>5 DEF OnMessageWritten, MessageDone
    <3>2. ~Some(wdone'[e], MessageDone) /\ ~Some(wq[e], MessageOps) /\ qOut[e] # <<>>
      BY <2>2, <2>3, <3>1 DEF Once, Busy
    <3>3. \/ wq'[e] = Append(wq[e], Write("body")) /\ qOut'[e] = qOut[e]
          \/ wq'[e] = Append(wq[e], Write("header")) /\ qOut'[e] # <<>>
          \/ wq'[e] = wq[e] /\ qOut'[e] = <<>>
      <4>1. /\ wq[e] \o <<Write("header")>> = Append(wq[e], Write("header"))
            /\ wq[e] \o <<>> = wq[e]
        BY <1>a, SortOfKind, ConcatOne DEF WriteKinds
      <4>2. NextWrite(Tail(qOut[e])) = IF Tail(qOut[e]) # <<>> THEN <<Write("header")>> ELSE <<>>
        BY DEF NextWrite
      <4> QED
        BY <2>5, <1>b, <3>2, <4>1, <4>2 DEF OnMessageWritten
    <3>4. ASSUME NEW kind \in MessageDone, wq'[e] = Append(wq[e], Write(kind)), qOut'[e] # <<>>
          PROVE  WriteOK(e)'
      <4>1. kind \in WriteKinds /\ Write(kind) \in Ops /\ Write(kind) \in MessageOps
            /\ Write(kind) \notin ValidationOps
        BY <3>4, SortOfKind DEF MessageDone, WriteKinds, ValidationDone
      <4>2. \A O : /\ Some(wq'[e], O) <=> Some(wq[e], O) \/ Write(kind) \in O
                   /\ AtMostOne(wq[e], O) /\ ~ (Write(kind) \in O /\ Some(wq[e], O))
                        => AtMostOne(wq'[e], O)
        BY <1>a, <3>4, <4>1, SomeAppend
      <4> QED
        BY <2>2, <2>3, <3>2, <3>4, <4>1, <4>2 DEF WriteOK, Once, Busy
    <3>5. CASE wq'[e] = wq[e] /\ qOut'[e] = <<>>
      BY <2>2, <2>3, <3>2, <3>5 DEF WriteOK, Once, Busy
    <3> QED
      BY <3>2, <3>3, <3>4, <3>5 DEF MessageDone
  <2> QED
    BY <1>2, <2>4, <2>5
<1>3. CASE OnWriteError(e)
  <2>1. wq[e] # <<>> /\ wq'[e] = Tail(wq[e]) /\ wdone'[e] = wdone[e] /\ qOut'[e] = qOut[e]
        /\ sock'[e] = "closed"
    BY <1>3, <1>b DEF OnWriteError
  <2>2. \A O : /\ Some(wq[e], O) <=> Some(wq'[e], O) \/ Head(wq[e]) \in O
               /\ AtMostOne(wq[e], O) => AtMostOne(wq'[e], O)
    BY <1>a, <2>1, SomeTail
  <2> QED
    BY <1>a, <2>1, <2>2 DEF WriteOK, Once, Busy
<1> QED
  BY <1>1, <1>2, <1>3

\* The server's connection starts with the write of the validation word alone.
LEMMA AcceptWrites ==
  ASSUME PipeInv, NEW g \in Greetings, Accept(g) PROVE WriteOK("server")'
<1>1. /\ sock["server"] = "none"
      /\ wq'["server"] = <<Write("validation")>> /\ wdone'["server"] = wdone["server"]
      /\ qOut'["server"] = qOut["server"]
  BY EndsFacts DEF PipeInv, TypeOK, Accept, ConnectToClient
<1>2. wq["server"] = <<>> /\ wdone["server"] = <<>> /\ qOut["server"] = <<>>
  BY <1>1 DEF PipeInv, StartInv
<1>3. <<Write("validation")>> = Append(<<>>, Write("validation")) /\ <<>> \in Seq(Ops)
  BY EmptySeq
<1>4. Write("validation") \in Ops /\ Write("validation") \notin MessageOps
  BY SortOfKind DEF WriteKinds, MessageDone
<1>5. ASSUME NEW O
      PROVE  /\ Some(wq'["server"], O) <=> Write("validation") \in O
             /\ AtMostOne(wq'["server"], O)
  <2>1. /\ Some(Append(<<>>, Write("validation")), O) <=> Some(<<>>, O) \/ Write("validation") \in O
        /\ AtMostOne(<<>>, O) /\ ~ (Write("validation") \in O /\ Some(<<>>, O))
             => AtMostOne(Append(<<>>, Write("validation")), O)
    BY <1>3, <1>4, SomeAppend
  <2> QED
    BY <1>1, <1>3, <2>1, SomeEmpty
<1> QED
  BY <1>1, <1>2, <1>4, <1>5, SomeEmpty DEF WriteOK, Once, Busy

\* So every step keeps it, at both ends.
LEMMA WriteStep ==
  ASSUME PipeInv, [Next]_vars, NEW d \in Ends PROVE WriteOK(d)'
<1>a. TypeOK /\ \A e \in Ends : WriteOK(e)
  BY DEF PipeInv
<1>b. DOMAIN wq = Ends /\ DOMAIN wdone = Ends /\ DOMAIN qOut = Ends /\ DOMAIN sock = Ends
  BY <1>a DEF TypeOK
<1> USE EndsFacts DEF netVars, readVars, outVars, appVars, hsVars
<1>1. ASSUME NEW e \in Ends, Transfer(e) PROVE WriteOK(d)'
  <2>1. CASE d = e
    BY <1>1, <2>1, WritesMove
  <2>2. CASE d # e
    <3>1. wq'[d] = wq[d] /\ wdone'[d] = wdone[d] /\ qOut'[d] = qOut[d] /\ sock'[d] = sock[d]
      BY <1>1, <1>b, <2>2 DEF Transfer
    <3> QED
      BY <1>a, <3>1, WritesUntouched
  <2> QED
    BY <2>1, <2>2
<1>2. ASSUME NEW e \in Ends,
             RunSend(e) \/ OnValidationWritten(e) \/ OnMessageWritten(e) \/ OnWriteError(e)
      PROVE  WriteOK(d)'
  <2>1. CASE d = e
    BY <1>2, <2>1, WriterWrites
  <2>2. CASE d # e
    <3>1. wq'[d] = wq[d] /\ wdone'[d] = wdone[d] /\ qOut'[d] = qOut[d] /\ sock'[d] = sock[d]
      BY <1>2, <1>b, <2>2 DEF RunSend, OnValidationWritten, OnMessageWritten, OnWriteError
    <3> QED
      BY <1>a, <3>1, WritesUntouched
  <2> QED
    BY <2>1, <2>2
<1>3. ASSUME NEW g \in Greetings, Accept(g) PROVE WriteOK(d)'
  <2>1. CASE d = "server"
    BY <1>3, <2>1, AcceptWrites
  <2>2. CASE d # "server"
    <3>1. wq'[d] = wq[d] /\ wdone'[d] = wdone[d] /\ qOut'[d] = qOut[d] /\ sock'[d] = sock[d]
      BY <1>3, <1>b, <2>2 DEF Accept, ConnectToClient
    <3> QED
      BY <1>a, <3>1, WritesUntouched
  <2> QED
    BY <2>1, <2>2
<1>4. CASE AnswerValidation
  <2>1. read["client"] = "validation" /\ ~Greeting("client")
    BY <1>4 DEF AnswerValidation, Take, PipeInv, StartInv
  <2>2. CASE d = "client"
    <3>1. /\ wq'[d] = Append(wq[d], Write("validation")) /\ wdone'[d] = wdone[d]
          /\ qOut'[d] = qOut[d] /\ sock'[d] = sock[d]
      BY <1>4, <1>b, <2>2 DEF AnswerValidation
    <3> QED
      BY <2>1, <2>2, <3>1, WritesStart DEF WriteKinds
  <2>3. CASE d # "client"
    <3>1. wq'[d] = wq[d] /\ wdone'[d] = wdone[d] /\ qOut'[d] = qOut[d] /\ sock'[d] = sock[d]
      BY <1>4, <1>b, <2>3 DEF AnswerValidation
    <3> QED
      BY <1>a, <3>1, WritesUntouched
  <2> QED
    BY <2>2, <2>3
<1>5. ASSUME UNCHANGED <<qOut, wq, wdone>>, sock'[d] = "open" => sock[d] = "open"
      PROVE  WriteOK(d)'
  BY <1>5, <1>a, WritesUntouched
<1>6. CASE Application \/ Establish \/ Break \/ Deny \/ OnConnect \/ OnConnectError
           \/ CheckValidation
  <2>1. UNCHANGED <<qOut, wq, wdone>>
    BY <1>6 DEF Application, Send, Bounce, Disconnect, Establish, Break, Deny, OnConnect,
         OnConnectError, CheckValidation
  <2>2. sock'[d] = "open" => sock[d] = "open"
    BY <1>6, <1>b DEF Application, Send, Bounce, Disconnect, Establish, Break, Deny, OnConnect,
         OnConnectError, CheckValidation
  <2> QED
    BY <1>5, <2>1, <2>2
<1>7. ASSUME NEW e \in Ends, ReadComplete(e) \/ RunClose(e) \/ OnHeader(e) \/ OnBody(e) \/ OnReadError(e)
      PROVE  WriteOK(d)'
  <2>1. UNCHANGED <<qOut, wq, wdone>>
    BY <1>7 DEF ReadComplete, RunClose, OnHeader, OnBody, OnReadError
  <2>2. sock'[d] = "open" => sock[d] = "open"
    BY <1>7, <1>b DEF ReadComplete, RunClose, OnHeader, OnBody, OnReadError
  <2> QED
    BY <1>5, <2>1, <2>2
<1>8. CASE UNCHANGED vars
  BY <1>8, <1>5 DEF vars
<1> QED
  BY <1>1, <1>2, <1>3, <1>4, <1>6, <1>7, <1>8
  DEF Next, Reactor, Handler, ClientHandshake, ServerHandshake

-----------------------------------------------------------------------------
(* The reads.                                                              *)

\* Which steps begin or end the write of a validation word.
LEMMA GreetingSteps ==
  ASSUME PipeInv, NEW e \in Ends
  PROVE  /\ RunSend(e) \/ OnMessageWritten(e) => (Greeting(e) <=> Greeting(e)')
         /\ OnValidationWritten(e) => Greeting(e) /\ ~Greeting(e)'
         /\ OnWriteError(e) => (Greeting(e)' => Greeting(e))
<1>a. WriteOK(e) /\ wq[e] \in Seq(Ops) /\ wdone[e] \in Seq(WriteKinds)
  BY DEF PipeInv, TypeOK, Ops
<1>b. e \in DOMAIN wq /\ e \in DOMAIN wdone
  BY DEF PipeInv, TypeOK
<1>1. ASSUME NEW kind \in MessageDone, wq'[e] = Append(wq[e], Write(kind))
      PROVE  Some(wq'[e], ValidationOps) <=> Some(wq[e], ValidationOps)
  <2>1. Write(kind) \in Ops /\ Write(kind) \notin ValidationOps
    BY <1>1, SortOfKind DEF MessageDone, WriteKinds, ValidationDone
  <2> QED
    BY <1>a, <1>1, <2>1, SomeAppend
<1>2. ASSUME RunSend(e) PROVE Greeting(e) <=> Greeting(e)'
  <2>1. wdone'[e] = wdone[e] /\ (wq'[e] = wq[e] \/ wq'[e] = Append(wq[e], Write("header")))
    BY <1>2, <1>b DEF RunSend
  <2> QED
    BY <1>1, <2>1 DEF Greeting, MessageDone
<1>3. ASSUME wdone[e] # <<>>, wdone'[e] = Tail(wdone[e])
      PROVE  /\ Some(wdone[e], ValidationDone) <=>
                  Some(wdone'[e], ValidationDone) \/ Head(wdone[e]) \in ValidationDone
             /\ AtMostOne(wdone[e], ValidationDone) /\ Head(wdone[e]) \in ValidationDone =>
                  ~Some(wdone'[e], ValidationDone)
  BY <1>a, <1>3, SomeTail
<1>4. ASSUME OnMessageWritten(e) PROVE Greeting(e) <=> Greeting(e)'
  <2>1. /\ wdone[e] # <<>> /\ wdone'[e] = Tail(wdone[e])
        /\ Head(wdone[e]) \notin ValidationDone
    BY <1>4, <1>b DEF OnMessageWritten, ValidationDone
  <2>2. \/ wq'[e] = wq[e]
        \/ \E kind \in MessageDone : wq'[e] = Append(wq[e], Write(kind))
    <3>1. /\ wq[e] \o <<Write("header")>> = Append(wq[e], Write("header"))
          /\ wq[e] \o <<>> = wq[e]
      BY <1>a, SortOfKind, ConcatOne DEF WriteKinds
    <3>2. NextWrite(Tail(qOut[e])) \in {<<Write("header")>>, <<>>}
      BY DEF NextWrite
    <3> QED
      BY <1>4, <1>b, <3>1, <3>2 DEF OnMessageWritten, MessageDone
  <2> QED
    BY <1>1, <1>3, <2>1, <2>2 DEF Greeting
<1>5. ASSUME OnValidationWritten(e) PROVE Greeting(e) /\ ~Greeting(e)'
  <2>1. /\ wdone[e] # <<>> /\ wdone'[e] = Tail(wdone[e]) /\ wq'[e] = wq[e]
        /\ Head(wdone[e]) \in ValidationDone
    BY <1>5, <1>b DEF OnValidationWritten, ValidationDone
  <2>2. Once(e, ValidationOps, ValidationDone)
    BY <1>a DEF WriteOK
  <2> QED
    BY <1>3, <2>1, <2>2 DEF Greeting, Once
<1>6. ASSUME OnWriteError(e), Greeting(e)' PROVE Greeting(e)
  <2>1. wq[e] # <<>> /\ wq'[e] = Tail(wq[e]) /\ wdone'[e] = wdone[e]
    BY <1>6, <1>b DEF OnWriteError
  <2>2. Some(wq[e], ValidationOps) <=> Some(wq'[e], ValidationOps) \/ Head(wq[e]) \in ValidationOps
    BY <1>a, <2>1, SomeTail
  <2> QED
    BY <1>6, <2>1, <2>2 DEF Greeting
<1> QED
  BY <1>2, <1>4, <1>5, <1>6

\* An end whose read does not change keeps it, whatever more arrives.
LEMMA ReadsUntouched ==
  ASSUME NEW e \in Ends, ReadOK(e),
         read'[e] = read[e], rdone'[e] = rdone[e], tmpIn'[e] = tmpIn[e],
         Len(stream[e]) \in Nat, Len(stream'[e]) \in Nat, Needed(e) \in Nat,
         Len(stream'[e]) >= Len(stream[e])
  PROVE  ReadOK(e)'
<1>1. Needed(e)' = Needed(e)
  BY DEF Needed
<1> HIDE DEF Needed
<1> QED
  BY <1>1 DEF ReadOK

\* A network step adds to a stream, or leaves it.
LEMMA StreamGrows ==
  ASSUME PipeInv, NEW e \in Ends, Transfer(e), NEW d \in Ends
  PROVE  /\ Len(stream[d]) \in Nat /\ Len(stream'[d]) \in Nat
         /\ Len(stream'[d]) >= Len(stream[d])
         /\ stream[d] # <<>> => stream'[d] # <<>> /\ Head(stream'[d]) = Head(stream[d])
<1>1. TypeOK /\ TypeOK'
  BY TypeStep DEF PipeInv, Next, Reactor
<1>2. stream[d] \in Seq(CellType) /\ stream'[d] \in Seq(CellType)
  BY <1>1 DEF TypeOK
<1>3. Len(stream[d]) \in Nat /\ Len(stream'[d]) \in Nat
  BY <1>2, LenProperties
<1>4. stream'[d] = stream[d] \/ \E x \in Seq(CellType) : stream'[d] = stream[d] \o x
  <2> DEFINE op  == Head(wq[e])
             buf == Buffer(e, op.kind)
  <2>1. op \in Ops /\ (op.kind # "validation" => qOut[e] # <<>>)
    BY <1>1, BusyQueue DEF PipeInv, Transfer
  <2>2. op.kind \in WriteKinds /\ op.off \in Nat
    BY <2>1 DEF Ops
  <2>3. buf \in Seq(CellType) /\ Len(buf) \in Nat
    BY <1>1, <2>1, <2>2, BufferType, LenProperties
  <2>4. \E n \in 1..(Len(buf) - op.off) :
           stream' = IF link = "up" /\ sock[Peer(e)] # "closed"
                     THEN [stream EXCEPT ![Peer(e)] = @ \o SubSeq(buf, op.off + 1, op.off + n)]
                     ELSE stream
    BY DEF Transfer
  <2> HIDE DEF op, buf
  <2>5. \A n \in 1..(Len(buf) - op.off) : SubSeq(buf, op.off + 1, op.off + n) \in Seq(CellType)
    <3> SUFFICES ASSUME NEW n \in 1..(Len(buf) - op.off)
                 PROVE  SubSeq(buf, op.off + 1, op.off + n) \in Seq(CellType)
      OBVIOUS
    <3>1. op.off + 1 \in Nat \ {0} /\ op.off + n \in Nat /\ op.off + n <= Len(buf)
      BY <2>2, <2>3
    <3> QED
      BY <2>3, <3>1, SubSeqType
  <2>6. PICK x \in Seq(CellType) :
          stream' = stream \/ stream' = [stream EXCEPT ![Peer(e)] = @ \o x]
    BY <2>4, <2>5
  <2>7. DOMAIN stream = Ends
    BY <1>1 DEF TypeOK
  <2> QED
    BY <2>6, <2>7
<1>5. CASE stream'[d] = stream[d]
  BY <1>3, <1>5
<1>6. ASSUME NEW x \in Seq(CellType), stream'[d] = stream[d] \o x
      PROVE  /\ Len(stream'[d]) >= Len(stream[d])
             /\ stream[d] # <<>> => stream'[d] # <<>> /\ Head(stream'[d]) = Head(stream[d])
  <2>1. /\ Len(stream'[d]) = Len(stream[d]) + Len(x) /\ Len(x) \in Nat
        /\ \A i \in 1..(Len(stream[d]) + Len(x)) : i <= Len(stream[d]) => stream'[d][i] = stream[d][i]
    BY <1>2, <1>6, ConcatProperties, LenProperties
  <2>2. ASSUME stream[d] # <<>>
        PROVE  stream'[d] # <<>> /\ Head(stream'[d]) = Head(stream[d])
    <3>1. Len(stream[d]) \in Nat \ {0}
      BY <1>2, <2>2, EmptySeq
    <3>2. stream'[d] # <<>>
      BY <1>2, <2>1, <3>1, EmptySeq
    <3>3. stream'[d][1] = stream[d][1]
      BY <2>1, <3>1
    <3> QED
      BY <1>2, <2>2, <3>2, <3>3
  <2> QED
    BY <1>3, <2>1, <2>2
<1> QED
  BY <1>3, <1>4, <1>5, <1>6

\* Every step keeps what is known of the reads, at both ends.
LEMMA ReadStep ==
  ASSUME PipeInv, [Next]_vars, NEW d \in Ends PROVE ReadOK(d)'
<1>a. TypeOK /\ ReadOK(d)
  BY DEF PipeInv
<1>b. /\ DOMAIN read = Ends /\ DOMAIN rdone = Ends /\ DOMAIN tmpIn = Ends /\ DOMAIN stream = Ends
      /\ Len(stream[d]) \in Nat /\ tmpIn[d].size \in Nat
  BY <1>a, LenProperties DEF TypeOK, MessageType
<1>c. Needed(d) \in Nat
  BY <1>b DEF Needed, BodyLength, EightBytes
<1>d. ASSUME read'[d] = read[d], rdone'[d] = rdone[d], tmpIn'[d] = tmpIn[d], stream'[d] = stream[d]
      PROVE  ReadOK(d)'
  BY <1>a, <1>b, <1>c, <1>d, ReadsUntouched
<1>e. ASSUME ~rdone'[d], read'[d] # "body" PROVE ReadOK(d)'
  BY <1>e DEF ReadOK
<1> USE EndsFacts DEF netVars, readVars, outVars, appVars, hsVars
<1>1. ASSUME NEW e \in Ends, Transfer(e) PROVE ReadOK(d)'
  <2>1. read'[d] = read[d] /\ rdone'[d] = rdone[d] /\ tmpIn'[d] = tmpIn[d]
    BY <1>1 DEF Transfer
  <2> QED
    BY <1>1, <1>a, <1>c, <2>1, StreamGrows, ReadsUntouched
<1>2. ASSUME NEW e \in Ends, ReadComplete(e) PROVE ReadOK(d)'
  <2>1. CASE d = e
    <3>1. /\ read'[d] = read[d] /\ tmpIn'[d] = tmpIn[d] /\ stream'[d] = stream[d]
          /\ read[d] # "none" /\ Len(stream[d]) >= Needed(d)
      BY <1>2, <2>1 DEF ReadComplete
    <3>2. Needed(d)' = Needed(d)
      BY <3>1 DEF Needed
    <3> HIDE DEF Needed
    <3> QED
      BY <1>a, <3>1, <3>2 DEF ReadOK
  <2>2. CASE d # e
    BY <1>2, <1>b, <1>d, <2>2 DEF ReadComplete
  <2> QED
    BY <2>1, <2>2
<1>3. ASSUME NEW e \in Ends, OnHeader(e) \/ OnBody(e) \/ OnReadError(e) PROVE ReadOK(d)'
  <2>1. CASE d # e
    <3>1. CASE OnHeader(e)
      BY <3>1, <1>b, <1>d, <2>1 DEF OnHeader, Take, AddToIncoming
    <3>2. CASE OnBody(e)
      BY <3>2, <1>b, <1>d, <2>1 DEF OnBody, Take, AddToIncoming
    <3>3. CASE OnReadError(e)
      BY <3>3, <1>b, <1>d, <2>1 DEF OnReadError
    <3> QED
      BY <1>3, <3>1, <3>2, <3>3
  <2>2. CASE d = e /\ OnReadError(e)
    BY <1>b, <1>e, <2>2 DEF OnReadError
  <2>3. CASE d = e /\ OnBody(e)
    BY <1>b, <1>e, <2>3 DEF OnBody, Take, AddToIncoming
  <2>4. CASE d = e /\ OnHeader(e)
    <3>1. rdone'[d] = FALSE
      BY <1>b, <2>4 DEF OnHeader, Take
    <3>2. PICK h \in HeadersIn(Head(stream[e])) :
            LET m == [tmpIn[e] EXCEPT !.id = h.id, !.size = h.size]
            IN  IF h.size > EightBytes
                THEN /\ tmpIn' = [tmpIn EXCEPT ![e] = m]
                     /\ read' = [read EXCEPT ![e] = "body"]
                     /\ UNCHANGED inbox
                ELSE AddToIncoming(e, m)
      BY <2>4 DEF OnHeader
    <3>3. CASE h.size > EightBytes
      <4>1. tmpIn'[d] = [tmpIn[d] EXCEPT !.id = h.id, !.size = h.size]
        BY <1>b, <2>4, <3>2, <3>3
      <4>2. tmpIn[d] \in MessageType
        BY <1>a DEF TypeOK
      <4>3. tmpIn'[d].size = h.size
        BY <4>1, <4>2 DEF MessageType
      <4> QED
        BY <3>1, <3>3, <4>3 DEF ReadOK
    <3>4. CASE ~ (h.size > EightBytes)
      BY <1>b, <1>e, <2>4, <3>1, <3>2, <3>4 DEF AddToIncoming
    <3> QED
      BY <3>3, <3>4
  <2> QED
    BY <1>3, <2>1, <2>2, <2>3, <2>4
<1>4. ASSUME NEW e \in Ends, OnValidationWritten(e) PROVE ReadOK(d)'
  <2>1. CASE e = "client" /\ d = "client"
    <3>1. ~rdone["client"]
      BY <1>4, <1>a, <2>1, GreetingSteps DEF PipeInv, StartInv, ReadOK
    <3>2. rdone'[d] = FALSE /\ read'[d] = "header"
      BY <1>4, <1>a, <2>1, <3>1 DEF OnValidationWritten, TypeOK
    <3> QED
      BY <1>e, <3>2
  <2>2. CASE ~ (e = "client" /\ d = "client")
    BY <1>4, <1>b, <1>d, <2>2 DEF OnValidationWritten
  <2> QED
    BY <2>1, <2>2
<1>5. ASSUME NEW g \in Greetings, Accept(g) PROVE ReadOK(d)'
  <2>1. CASE d = "server"
    <3>1. ~rdone["server"]
      BY <1>5, <1>a, <2>1 DEF Accept, PipeInv, StartInv, ReadOK
    <3> QED
      BY <1>5, <1>a, <1>e, <2>1, <3>1 DEF Accept, ConnectToClient, TypeOK
  <2>2. CASE d # "server"
    BY <1>5, <1>b, <1>d, <2>2 DEF Accept, ConnectToClient
  <2> QED
    BY <2>1, <2>2
<1>6. CASE Establish
  <2>1. read["client"] = "connect"
    BY <1>6 DEF Establish, PipeInv, StartInv, IsConnected
  <2>2. CASE d = "client"
    BY <1>6, <1>b, <2>1, <2>2 DEF Establish, ReadOK
  <2>3. CASE d # "client"
    BY <1>6, <1>b, <1>d, <2>3 DEF Establish
  <2> QED
    BY <2>2, <2>3
<1>7. CASE OnConnect
  BY <1>7, <1>b, <1>d, <1>e DEF OnConnect
<1>8. CASE OnConnectError
  <2>1. ~rdone["client"] /\ rdone["client"] \in BOOLEAN
    BY <1>8, <1>a DEF OnConnectError, PipeInv, StartInv, TypeOK
  <2>2. CASE d = "client"
    BY <1>8, <1>b, <1>e, <2>1, <2>2 DEF OnConnectError
  <2>3. CASE d # "client"
    BY <1>8, <1>b, <1>d, <2>3 DEF OnConnectError
  <2> QED
    BY <2>2, <2>3
<1>9. CASE AnswerValidation
  BY <1>9, <1>b, <1>d, <1>e DEF AnswerValidation, Take
<1>10. CASE CheckValidation
  BY <1>10, <1>b, <1>d, <1>e DEF CheckValidation, Take, AfterCheck
<1>11. CASE Application \/ Break \/ Deny
  BY <1>11, <1>d DEF Application, Send, Bounce, Disconnect, Break, Deny
<1>12. ASSUME NEW e \in Ends, RunSend(e) \/ RunClose(e) \/ OnMessageWritten(e) \/ OnWriteError(e)
       PROVE  ReadOK(d)'
  BY <1>12, <1>d DEF RunSend, RunClose, OnMessageWritten, OnWriteError
<1>13. CASE UNCHANGED vars
  BY <1>13, <1>d DEF vars
<1> QED
  BY <1>1, <1>2, <1>3, <1>4, <1>5, <1>6, <1>7, <1>8, <1>9, <1>10, <1>11, <1>12, <1>13
  DEF Next, Reactor, Handler, ClientHandshake, ServerHandshake

-----------------------------------------------------------------------------
(* The beginnings of both ends, and what each listens to.                  *)

\* An action at the server that changes its queues finds its connection accepted, and an
\* action that leaves the writes of the client alone leaves its answer alone.
LEMMA StartUntouched ==
  ASSUME PipeInv,
         UNCHANGED link,
         sock'["client"] # "none", sock'["client"] = "open" => sock["client"] = "open",
         sock'["server"] = sock["server"] \/ (link # "down" /\ sock["server"] # "none" /\ sock'["server"] # "none"),
         rdone'["client"] => rdone["client"] \/ link # "down",
         read'["client"] = read["client"] \/ (link # "down" /\ read'["client"] = "none"),
         read'["server"] = read["server"] \/ (sock["server"] # "none" /\ read'["server"] # "connect"),
         Greeting("client")' => Greeting("client"),
         \/ sock'["server"] # "none"
         \/ /\ wq'["server"] = wq["server"] /\ wdone'["server"] = wdone["server"]
            /\ posted'["server"] = posted["server"] /\ qOut'["server"] = qOut["server"]
            /\ sent'["server"] = sent["server"]
  PROVE  StartInv'
BY DEF PipeInv, StartInv

\* The network and asio's reactor.
LEMMA ReactorStart ==
  ASSUME PipeInv, NEW e \in Ends, Reactor(e) PROVE StartInv'
<1>a. /\ DOMAIN sock = Ends /\ DOMAIN wq = Ends /\ DOMAIN wdone = Ends /\ DOMAIN rdone = Ends
      /\ sock["client"] # "none"
  BY DEF PipeInv, TypeOK, StartInv
<1> USE EndsFacts DEF netVars, readVars, outVars, appVars, hsVars
<1>1. CASE Transfer(e)
  <2>1. link' = link /\ sock' = sock /\ rdone' = rdone /\ read' = read
        /\ posted' = posted /\ qOut' = qOut /\ sent' = sent
    BY <1>1 DEF Transfer
  <2>2. Greeting("client")' => Greeting("client")
    <3>1. CASE e = "client"
      BY <1>1, <3>1, WritesMove
    <3>2. CASE e # "client"
      <4>1. wq'["client"] = wq["client"] /\ wdone'["client"] = wdone["client"]
        BY <1>1, <1>a, <3>2 DEF Transfer
      <4> QED
        BY <4>1 DEF Greeting
    <3> QED
      BY <3>1, <3>2
  <2>3. \/ sock'["server"] # "none"
        \/ wq'["server"] = wq["server"] /\ wdone'["server"] = wdone["server"]
    BY <1>1, <1>a DEF Transfer, IsConnected
  <2> QED
    BY <1>a, <2>1, <2>2, <2>3, StartUntouched
<1>2. CASE ReadComplete(e)
  <2>1. rdone'["client"] => rdone["client"] \/ link # "down"
    BY <1>2, <1>a DEF ReadComplete, PipeInv, StartInv
  <2>2. /\ link' = link /\ sock' = sock /\ read' = read /\ posted' = posted /\ qOut' = qOut
        /\ sent' = sent /\ wq' = wq /\ wdone' = wdone
    BY <1>2 DEF ReadComplete
  <2>3. Greeting("client")' => Greeting("client")
    BY <2>2 DEF Greeting
  <2> QED
    BY <1>a, <2>1, <2>2, <2>3, StartUntouched
<1> QED
  BY <1>1, <1>2 DEF Reactor

\* The handlers common to both ends.
LEMMA HandlerStart ==
  ASSUME PipeInv, NEW e \in Ends, Handler(e) PROVE StartInv'
<1>a. /\ DOMAIN sock = Ends /\ DOMAIN wq = Ends /\ DOMAIN wdone = Ends /\ DOMAIN rdone = Ends
      /\ DOMAIN read = Ends /\ DOMAIN posted = Ends /\ DOMAIN qOut = Ends
      /\ sock["client"] # "none"
  BY DEF PipeInv, TypeOK, StartInv
<1>b. sock["server"] = "none" => /\ read["server"] = "none"
                                 /\ wq["server"] = <<>> /\ wdone["server"] = <<>>
                                 /\ posted["server"] = <<>>
  BY DEF PipeInv, StartInv
<1>c. link = "down" => ~rdone["client"] /\ read["client"] \in {"none", "connect"}
                       /\ sock["server"] = "none"
  BY DEF PipeInv, StartInv
<1> USE EndsFacts DEF netVars, readVars, outVars, appVars, hsVars
<1>1. CASE RunSend(e)
  <2>1. Greeting("client")' => Greeting("client")
    <3>1. CASE e = "client"
      BY <1>1, <3>1, GreetingSteps
    <3>2. CASE e # "client"
      <4>1. wq'["client"] = wq["client"] /\ wdone'["client"] = wdone["client"]
        BY <1>1, <1>a, <3>2 DEF RunSend
      <4> QED
        BY <4>1 DEF Greeting
    <3> QED
      BY <3>1, <3>2
  <2>2. \/ sock'["server"] # "none"
        \/ /\ wq'["server"] = wq["server"] /\ wdone'["server"] = wdone["server"]
           /\ posted'["server"] = posted["server"] /\ qOut'["server"] = qOut["server"]
    BY <1>1, <1>a, <1>b DEF RunSend
  <2>3. link' = link /\ sock' = sock /\ rdone' = rdone /\ read' = read /\ sent' = sent
    BY <1>1 DEF RunSend
  <2> QED
    BY <1>a, <2>1, <2>2, <2>3, StartUntouched
<1>2. CASE RunClose(e)
  <2>1. /\ link' = link /\ rdone' = rdone /\ read' = read /\ sent' = sent /\ wq' = wq
        /\ wdone' = wdone /\ qOut' = qOut
    BY <1>2 DEF RunClose
  <2>2. sock["server"] = "none" => posted'["server"] = posted["server"] /\ sock'["server"] = sock["server"]
    BY <1>2, <1>a, <1>b DEF RunClose
  <2>3. \A d \in Ends : sock'[d] = sock[d] \/ sock'[d] = "closed"
    BY <1>2, <1>a DEF RunClose
  <2>4. Greeting("client")' => Greeting("client")
    BY <2>1 DEF Greeting
  <2> QED
    BY <1>a, <1>c, <2>1, <2>2, <2>3, <2>4, StartUntouched
<1>3. CASE OnHeader(e) \/ OnBody(e)
  <2>1. /\ link' = link /\ sock' = sock /\ posted' = posted /\ sent' = sent /\ wq' = wq
        /\ wdone' = wdone /\ qOut' = qOut
    BY <1>3 DEF OnHeader, OnBody
  <2>2. /\ rdone' = [rdone EXCEPT ![e] = FALSE] /\ read[e] \in {"header", "body"}
        /\ \E r \in {"header", "body"} : read' = [read EXCEPT ![e] = r]
    BY <1>3 DEF OnHeader, OnBody, Take, AddToIncoming
  <2>3. link # "down" \/ e = "server"
    BY <1>c, <2>2
  <2>4. Greeting("client")' = Greeting("client")
    BY <2>1 DEF Greeting
  <2> QED
    BY <1>a, <1>b, <1>c, <2>1, <2>2, <2>3, <2>4 DEF PipeInv, StartInv
<1>4. CASE OnReadError(e)
  <2>1. /\ link' = link /\ rdone' = rdone /\ posted' = posted /\ sent' = sent /\ wq' = wq
        /\ wdone' = wdone /\ qOut' = qOut
    BY <1>4 DEF OnReadError
  <2>2. read[e] \in {"validation", "header", "body"}
        /\ read' = [read EXCEPT ![e] = "none"] /\ sock' = [sock EXCEPT ![e] = "closed"]
    BY <1>4 DEF OnReadError
  <2>3. link # "down"
    BY <1>b, <1>c, <2>2
  <2>4. Greeting("client")' => Greeting("client")
    BY <2>1 DEF Greeting
  <2> QED
    BY <1>a, <1>b, <2>1, <2>2, <2>3, <2>4, StartUntouched
<1>5. CASE OnValidationWritten(e)
  <2>1. /\ link' = link /\ sock' = sock /\ rdone' = rdone /\ posted' = posted /\ sent' = sent
        /\ wq' = wq /\ qOut' = qOut
    BY <1>5 DEF OnValidationWritten
  <2>2. CASE e = "client"
    <3>1. Greeting("client") /\ ~Greeting("client")' /\ read["client"] = "none"
      BY <1>5, <2>2, GreetingSteps DEF PipeInv, StartInv
    <3>2. read'["client"] = "header" /\ read'["server"] = read["server"]
          /\ wdone'["server"] = wdone["server"] /\ link # "down"
      BY <1>5, <1>a, <2>2, <3>1 DEF OnValidationWritten, PipeInv, StartInv
    <3> QED
      BY <2>1, <3>1, <3>2 DEF PipeInv, StartInv
  <2>3. CASE e # "client"
    <3>1. read' = read /\ wdone'["client"] = wdone["client"] /\ sock["server"] # "none"
      BY <1>5, <1>a, <1>b, <2>3 DEF OnValidationWritten
    <3>2. Greeting("client")' => Greeting("client")
      BY <2>1, <3>1 DEF Greeting
    <3> QED
      BY <1>a, <2>1, <3>1, <3>2, StartUntouched
  <2> QED
    BY <2>2, <2>3
<1>6. CASE OnMessageWritten(e)
  <2>1. link' = link /\ sock' = sock /\ rdone' = rdone /\ read' = read /\ posted' = posted /\ sent' = sent
    BY <1>6 DEF OnMessageWritten
  <2>2. Greeting("client")' => Greeting("client")
    <3>1. CASE e = "client"
      BY <1>6, <3>1, GreetingSteps
    <3>2. CASE e # "client"
      <4>1. wq'["client"] = wq["client"] /\ wdone'["client"] = wdone["client"]
        BY <1>6, <1>a, <3>2 DEF OnMessageWritten
      <4> QED
        BY <4>1 DEF Greeting
    <3> QED
      BY <3>1, <3>2
  <2>3. \/ sock'["server"] # "none"
        \/ /\ wq'["server"] = wq["server"] /\ wdone'["server"] = wdone["server"]
           /\ qOut'["server"] = qOut["server"]
    BY <1>6, <1>a, <1>b, <2>1 DEF OnMessageWritten
  <2> QED
    BY <1>a, <2>1, <2>2, <2>3, StartUntouched
<1>7. CASE OnWriteError(e)
  <2>1. /\ link' = link /\ rdone' = rdone /\ read' = read /\ posted' = posted /\ sent' = sent
        /\ wdone' = wdone /\ qOut' = qOut
        /\ sock' = [sock EXCEPT ![e] = "closed"]
    BY <1>7 DEF OnWriteError
  <2>2. Greeting("client")' => Greeting("client")
    <3>1. CASE e = "client"
      BY <1>7, <3>1, GreetingSteps
    <3>2. CASE e # "client"
      <4>1. wq'["client"] = wq["client"] /\ wdone'["client"] = wdone["client"]
        BY <1>7, <1>a, <3>2 DEF OnWriteError
      <4> QED
        BY <4>1 DEF Greeting
    <3> QED
      BY <3>1, <3>2
  <2>3. e = "server" => sock["server"] # "none"
    BY <1>7, <1>b DEF OnWriteError
  <2>4. e = "client" => wq'["server"] = wq["server"]
    BY <1>7, <1>a DEF OnWriteError
  <2> QED
    BY <1>a, <1>c, <2>1, <2>2, <2>3, <2>4, StartUntouched
<1> QED
  BY <1>1, <1>2, <1>3, <1>4, <1>5, <1>6, <1>7 DEF Handler

\* The handshake, the network and the applications.
LEMMA OutsideStart ==
  ASSUME PipeInv, ClientHandshake \/ ServerHandshake \/ Establish \/ Break \/ Application
  PROVE  StartInv'
<1>a. /\ DOMAIN sock = Ends /\ DOMAIN wq = Ends /\ DOMAIN wdone = Ends /\ DOMAIN rdone = Ends
      /\ DOMAIN read = Ends /\ DOMAIN posted = Ends /\ DOMAIN qOut = Ends /\ DOMAIN sent = Ends
  BY DEF PipeInv, TypeOK
<1>b. StartInv /\ (sock["server"] = "none" => inbox["server"] = <<>>)
  BY DEF PipeInv, VInv, GateInv
<1> USE EndsFacts DEF netVars, readVars, outVars, appVars, hsVars
<1>1. CASE OnConnect
  <2>1. Greeting("client")' = Greeting("client")
    BY <1>1 DEF OnConnect, Greeting
  <2>2. link # "down" /\ ~Greeting("client")
    BY <1>1, <1>b DEF OnConnect, StartInv
  <2> QED
    BY <1>1, <1>a, <1>b, <2>1, <2>2 DEF OnConnect, StartInv
<1>2. CASE OnConnectError
  <2>1. Greeting("client")' = Greeting("client")
    BY <1>2 DEF OnConnectError, Greeting
  <2> QED
    BY <1>2, <1>a, <1>b, <2>1 DEF OnConnectError, StartInv
<1>3. CASE AnswerValidation
  <2>1. read["client"] = "validation" /\ link # "down" /\ read'["client"] = "none"
    BY <1>3, <1>a, <1>b DEF AnswerValidation, Take, StartInv
  <2>2. /\ read'["server"] = read["server"] /\ wq'["server"] = wq["server"]
    BY <1>3, <1>a DEF AnswerValidation
  <2>3. link' = link /\ sock' = sock /\ wdone' = wdone /\ posted' = posted /\ qOut' = qOut /\ sent' = sent
    BY <1>3 DEF AnswerValidation
  <2> QED
    BY <1>b, <2>1, <2>2, <2>3 DEF StartInv
<1>4. ASSUME NEW g \in Greetings, Accept(g) PROVE StartInv'
  <2>1. Greeting("client")' = Greeting("client")
    BY <1>4, <1>a DEF Accept, ConnectToClient, Greeting
  <2>2. /\ sock'["server"] = "open" /\ read'["server"] = "validation" /\ link' = "up"
        /\ sock'["client"] = sock["client"] /\ read'["client"] = read["client"]
    BY <1>4, <1>a DEF Accept, ConnectToClient
  <2> QED
    BY <1>b, <2>1, <2>2 DEF StartInv
<1>5. CASE Deny
  <2>1. Greeting("client")' = Greeting("client")
    BY <1>5 DEF Deny, Greeting
  <2> QED
    BY <1>5, <1>a, <1>b, <2>1 DEF Deny, StartInv
<1>6. CASE CheckValidation
  <2>1. Greeting("client")' = Greeting("client")
    BY <1>6 DEF CheckValidation, Greeting
  <2>2. sock["server"] # "none" /\ link # "down" /\ sock'["server"] # "none" /\ link' = link
        /\ sock'["client"] = sock["client"]
    BY <1>6, <1>a, <1>b DEF CheckValidation, Take, StartInv
  <2>3. read'["server"] \in {"header", "none"} /\ read'["client"] = read["client"]
        /\ rdone'["client"] = rdone["client"]
    BY <1>6, <1>a DEF CheckValidation, Take, AfterCheck
  <2> QED
    BY <1>b, <2>1, <2>2, <2>3 DEF StartInv
<1>7. CASE Establish
  <2>1. Greeting("client")' = Greeting("client")
    BY <1>7 DEF Establish, Greeting
  <2> QED
    BY <1>7, <1>a, <1>b, <2>1 DEF Establish, StartInv
<1>8. CASE Break
  <2>1. Greeting("client")' = Greeting("client")
    BY <1>8 DEF Break, Greeting
  <2> QED
    BY <1>8, <1>b, <2>1 DEF Break, StartInv
<1>9. CASE Application
  <2>1. link' = link /\ sock' = sock /\ read' = read /\ rdone' = rdone /\ wq' = wq /\ wdone' = wdone
        /\ qOut' = qOut
    BY <1>9 DEF Application, Send, Bounce, Disconnect
  <2>2. Greeting("client")' = Greeting("client")
    BY <2>1 DEF Greeting
  <2>3. sock["server"] = "none" => posted'["server"] = posted["server"] /\ sent'["server"] = sent["server"]
    <3>1. CASE \E e \in Ends : \E m \in Outgoing[e] : Send(e, m)
      BY <3>1, <1>a DEF Send, Post, IsConnected
    <3>2. CASE Bounce
      <4>1. inbox["server"] # <<>>
        BY <3>2 DEF Bounce
      <4> QED
        BY <4>1, <1>b
    <3>3. CASE Disconnect
      BY <3>3, <1>a DEF Disconnect
    <3> QED
      BY <1>9, <3>1, <3>2, <3>3 DEF Application
  <2> QED
    BY <1>b, <2>1, <2>2, <2>3 DEF StartInv
<1> QED
  BY <1>1, <1>2, <1>3, <1>4, <1>5, <1>6, <1>7, <1>8, <1>9 DEF ClientHandshake, ServerHandshake

LEMMA StartStep == PipeInv /\ [Next]_vars => StartInv'
<1>1. PipeInv /\ UNCHANGED vars => StartInv'
  BY DEF PipeInv, StartInv, Greeting, vars
<1> QED
  BY <1>1, ReactorStart, HandlerStart, OutsideStart DEF Next

-----------------------------------------------------------------------------
(* What comes first, and what each end listens to.                         *)

\* What a step of the network does, in full: some cells of the front write pass, and either
\* it is done or what is left of it waits behind the others.
Passed(e, n) == SubSeq(Buffer(e, Head(wq[e]).kind), Head(wq[e]).off + 1, Head(wq[e]).off + n)

LEMMA TransferFacts ==
  ASSUME PipeInv, NEW e \in Ends, Transfer(e)
  PROVE  /\ Head(wq[e]) \in Ops /\ Tail(wq[e]) \in Seq(Ops) /\ wq[e] # <<>>
         /\ Buffer(e, Head(wq[e]).kind) \in Seq(CellType)
         /\ Len(Buffer(e, Head(wq[e]).kind)) \in Nat
         /\ \E n \in Nat \ {0} :
              /\ Head(wq[e]).off + n <= Len(Buffer(e, Head(wq[e]).kind))
              /\ Passed(e, n) \in Seq(CellType) /\ Len(Passed(e, n)) = n
              /\ \A i \in 1..n : Passed(e, n)[i] = Buffer(e, Head(wq[e]).kind)[Head(wq[e]).off + i]
              /\ stream' = IF link = "up" /\ sock[Peer(e)] # "closed"
                           THEN [stream EXCEPT ![Peer(e)] = @ \o Passed(e, n)]
                           ELSE stream
              /\ IF Head(wq[e]).off + n = Len(Buffer(e, Head(wq[e]).kind))
                 THEN wq'[e] = Tail(wq[e]) /\ wdone'[e] = Append(wdone[e], Head(wq[e]).kind)
                 ELSE /\ wq'[e] = Append(Tail(wq[e]), [Head(wq[e]) EXCEPT !.off = @ + n])
                      /\ wdone'[e] = wdone[e]
<1> DEFINE op  == Head(wq[e])
           buf == Buffer(e, op.kind)
<1>1. TypeOK /\ WriteOK(e) /\ wq[e] # <<>> /\ DOMAIN wq = Ends /\ DOMAIN wdone = Ends
  BY DEF PipeInv, Transfer, TypeOK
<1>2. op \in Ops /\ Tail(wq[e]) \in Seq(Ops) /\ (op.kind # "validation" => qOut[e] # <<>>)
  BY <1>1, BusyQueue
<1>3. op.kind \in WriteKinds /\ op.off \in Nat
  BY <1>2 DEF Ops
<1>4. buf \in Seq(CellType) /\ Len(buf) \in Nat
  BY <1>1, <1>2, <1>3, BufferType, LenProperties
<1>5. PICK n \in 1..(Len(buf) - op.off) :
        /\ stream' = IF link = "up" /\ sock[Peer(e)] # "closed"
                     THEN [stream EXCEPT ![Peer(e)] = @ \o SubSeq(buf, op.off + 1, op.off + n)]
                     ELSE stream
        /\ IF op.off + n = Len(buf)
           THEN /\ wq' = [wq EXCEPT ![e] = Tail(@)]
                /\ wdone' = [wdone EXCEPT ![e] = Append(@, op.kind)]
           ELSE /\ wq' = [wq EXCEPT ![e] = Append(Tail(@), [op EXCEPT !.off = @ + n])]
                /\ UNCHANGED wdone
  BY DEF Transfer
<1> HIDE DEF op, buf
<1>6. /\ n \in Nat \ {0} /\ op.off + n \in Nat /\ op.off + n <= Len(buf) /\ op.off + 1 \in Nat \ {0}
      /\ op.off + n - (op.off + 1) + 1 = n
  BY <1>3, <1>4
<1>7. /\ SubSeq(buf, op.off + 1, op.off + n) \in Seq(CellType)
      /\ Len(SubSeq(buf, op.off + 1, op.off + n)) = n
      /\ \A i \in 1..n : SubSeq(buf, op.off + 1, op.off + n)[i] = buf[op.off + i]
  <2> DEFINE a == op.off + 1
             b == op.off + n
  <2>1. /\ a \in Nat \ {0} /\ b \in Nat /\ b <= Len(buf) /\ a <= b /\ b - a + 1 = n
        /\ \A i \in 1..n : a + i - 1 = op.off + i
    <3>1. op.off \in Nat /\ n \in Nat \ {0}
      BY <1>3, <1>6
    <3>2. a \in Nat \ {0} /\ b \in Nat /\ a <= b /\ b - a + 1 = n
      BY <3>1
    <3>3. \A i \in 1..n : a + i - 1 = op.off + i
      BY <3>1
    <3>4. b <= Len(buf)
      BY <1>6
    <3> QED
      BY <3>2, <3>3, <3>4
  <2> HIDE DEF a, b
  <2>2. /\ SubSeq(buf, a, b) \in Seq(CellType)
        /\ Len(SubSeq(buf, a, b)) = IF a <= b THEN b - a + 1 ELSE 0
        /\ \A i \in 1..(b - a + 1) : SubSeq(buf, a, b)[i] = buf[a + i - 1]
    BY <1>4, <2>1, SubSeqType
  <2>3. /\ SubSeq(buf, a, b) \in Seq(CellType) /\ Len(SubSeq(buf, a, b)) = n
        /\ \A i \in 1..n : SubSeq(buf, a, b)[i] = buf[op.off + i]
    BY <2>1, <2>2
  <2> QED
    BY <2>3 DEF a, b
<1>8. IF op.off + n = Len(buf)
      THEN wq'[e] = Tail(wq[e]) /\ wdone'[e] = Append(wdone[e], op.kind)
      ELSE wq'[e] = Append(Tail(wq[e]), [op EXCEPT !.off = @ + n]) /\ wdone'[e] = wdone[e]
  BY <1>1, <1>5
<1>9. Passed(e, n) = SubSeq(buf, op.off + 1, op.off + n)
  BY DEF Passed, op, buf
<1>10. stream' = IF link = "up" /\ sock[Peer(e)] # "closed"
                 THEN [stream EXCEPT ![Peer(e)] = @ \o Passed(e, n)]
                 ELSE stream
  BY <1>5, <1>9
<1> QED
  BY <1>1, <1>2, <1>4, <1>6, <1>7, <1>8, <1>9, <1>10 DEF op, buf

\* Nothing repairs a connection.
LEMMA CutStays == PipeInv /\ [Next]_vars /\ Cut => Cut'
<1> SUFFICES ASSUME PipeInv, [Next]_vars, Cut PROVE Cut'
  OBVIOUS
<1>a. DOMAIN sock = Ends
  BY DEF PipeInv, TypeOK
<1> USE EndsFacts DEF netVars, readVars, outVars, appVars, hsVars, Cut
<1>1. (link = "broken" => link' = "broken") /\ \A d \in Ends : sock[d] = "closed" => sock'[d] = "closed"
  <2>1. CASE \E e \in Ends : Reactor(e)
    BY <2>1 DEF Reactor, Transfer, ReadComplete
  <2>2. CASE \E e \in Ends : RunSend(e) \/ OnHeader(e) \/ OnBody(e)
    BY <2>2 DEF RunSend, OnHeader, OnBody
  <2>3. CASE \E e \in Ends : RunClose(e) \/ OnReadError(e) \/ OnWriteError(e)
    BY <2>3, <1>a DEF RunClose, OnReadError, OnWriteError
  <2>4. CASE \E e \in Ends : OnValidationWritten(e) \/ OnMessageWritten(e)
    BY <2>4 DEF OnValidationWritten, OnMessageWritten
  <2>5. CASE ClientHandshake
    BY <2>5, <1>a DEF ClientHandshake, OnConnect, OnConnectError, AnswerValidation
  <2>6. CASE ServerHandshake
    BY <2>6, <1>a DEF ServerHandshake, Accept, ConnectToClient, Deny, CheckValidation
  <2>7. CASE Establish \/ Break \/ Application
    BY <2>7 DEF Establish, Break, Application, Send, Bounce, Disconnect
  <2>8. CASE UNCHANGED vars
    BY <2>8 DEF vars
  <2> QED
    BY <2>1, <2>2, <2>3, <2>4, <2>5, <2>6, <2>7, <2>8 DEF Next, Handler
<1> QED
  BY <1>1

\* A step that leaves the client's stream and the server's front write alone keeps LeadInv.
LeadsWrites == \A i \in DOMAIN wq["server"] : wq["server"][i].kind = "validation" => i = 1

LEMMA LeadUntouched ==
  ASSUME PipeInv, [Next]_vars, LeadsWrites',
         read'["client"] \in {"connect", "validation"} =>
           /\ read["client"] \in {"connect", "validation"}
           /\ stream'["client"] = stream["client"],
         sock["server"] = "none" => sock'["server"] = "none",
         wq["server"] # <<>> => Cut' \/ (wq'["server"] # <<>> /\ Head(wq'["server"]) = Head(wq["server"]))
  PROVE  LeadInv'
<1>1. Cut => Cut'
  BY CutStays
<1>2. LeadInv
  BY DEF PipeInv
<1> HIDE DEF Cut
<1> QED
  BY <1>1, <1>2 DEF LeadInv, LeadsWrites

\* What the server starts to write later goes behind.
LEMMA LeadAppend ==
  ASSUME PipeInv, NEW kind \in WriteKinds \ {"validation"},
         wq'["server"] = Append(wq["server"], Write(kind))
  PROVE  /\ LeadsWrites'
         /\ wq["server"] # <<>> => wq'["server"] # <<>> /\ Head(wq'["server"]) = Head(wq["server"])
<1>1. wq["server"] \in Seq(Ops) /\ Write(kind) \in Ops /\ Write(kind).kind = kind
  BY EndsFacts, SortOfKind DEF PipeInv, TypeOK, Ops
<1>2. /\ Len(wq["server"]) \in Nat /\ DOMAIN wq["server"] = 1..Len(wq["server"])
      /\ wq'["server"] \in Seq(Ops) /\ wq'["server"] # <<>>
      /\ Len(wq'["server"]) = Len(wq["server"]) + 1
      /\ DOMAIN wq'["server"] = 1..(Len(wq["server"]) + 1)
      /\ \A i \in 1..Len(wq["server"]) : wq'["server"][i] = wq["server"][i]
      /\ wq'["server"][Len(wq["server"]) + 1] = Write(kind)
  BY <1>1, AppendProperties, LenProperties
<1>3. LeadsWrites'
  BY <1>1, <1>2 DEF LeadsWrites, PipeInv, LeadInv
<1>4. wq["server"] # <<>> => Head(wq'["server"]) = Head(wq["server"])
  BY <1>1, HeadTailAppend
<1> QED
  BY <1>2, <1>3, <1>4

\* The network and the reads.
LEMMA ReactorLead ==
  ASSUME PipeInv, NEW e \in Ends, Reactor(e) PROVE LeadInv'
<1>a. [Next]_vars
  BY DEF Next
<1>b. DOMAIN wq = Ends /\ DOMAIN stream = Ends /\ LeadInv /\ LeadsWrites
  BY DEF PipeInv, TypeOK, LeadInv, LeadsWrites
<1> USE EndsFacts DEF netVars, readVars, outVars, appVars, hsVars
<1>1. CASE ReadComplete(e)
  BY <1>1, <1>a, <1>b, LeadUntouched DEF ReadComplete, LeadsWrites
<1>2. CASE Transfer(e)
  <2>0. read' = read /\ sock' = sock /\ link' = link
    BY <1>2 DEF Transfer
  <2>1. CASE e = "client"
    <3>1. wq'["server"] = wq["server"] /\ stream'["client"] = stream["client"]
      BY <1>2, <1>b, <2>1 DEF Transfer
    <3> QED
      BY <1>a, <1>b, <2>0, <3>1, LeadUntouched DEF LeadsWrites
  <2>2. CASE e = "server"
    <3> DEFINE op  == Head(wq["server"])
               buf == Buffer("server", op.kind)
    <3>1. /\ op \in Ops /\ Tail(wq["server"]) \in Seq(Ops) /\ wq["server"] # <<>>
          /\ wq["server"] \in Seq(Ops) /\ stream["client"] \in Seq(CellType)
      BY <1>2, <2>2, TransferFacts DEF PipeInv, TypeOK, Ops
    <3>2. PICK n \in Nat \ {0} :
              /\ op.off + n <= Len(buf)
              /\ Passed("server", n) \in Seq(CellType) /\ Len(Passed("server", n)) = n
              /\ \A i \in 1..n : Passed("server", n)[i] = buf[op.off + i]
              /\ stream' = IF link = "up" /\ sock["client"] # "closed"
                           THEN [stream EXCEPT !["client"] = @ \o Passed("server", n)]
                           ELSE stream
              /\ IF op.off + n = Len(buf)
                 THEN wq'["server"] = Tail(wq["server"])
                 ELSE wq'["server"] = Append(Tail(wq["server"]), [op EXCEPT !.off = @ + n])
      <4>1. PICK n \in Nat \ {0} :
              /\ Head(wq["server"]).off + n <= Len(Buffer("server", Head(wq["server"]).kind))
              /\ Passed("server", n) \in Seq(CellType) /\ Len(Passed("server", n)) = n
              /\ \A i \in 1..n : Passed("server", n)[i]
                                   = Buffer("server", Head(wq["server"]).kind)[Head(wq["server"]).off + i]
              /\ stream' = IF link = "up" /\ sock[Peer("server")] # "closed"
                           THEN [stream EXCEPT ![Peer("server")] = @ \o Passed("server", n)]
                           ELSE stream
              /\ IF Head(wq["server"]).off + n = Len(Buffer("server", Head(wq["server"]).kind))
                 THEN wq'["server"] = Tail(wq["server"])
                      /\ wdone'["server"] = Append(wdone["server"], Head(wq["server"]).kind)
                 ELSE /\ wq'["server"] = Append(Tail(wq["server"]), [Head(wq["server"]) EXCEPT !.off = @ + n])
                      /\ wdone'["server"] = wdone["server"]
        BY <1>2, <2>2, TransferFacts
      <4>2. Peer("server") = "client"
        BY EndsFacts
      <4> WITNESS n \in Nat \ {0}
      <4> QED
        BY <4>1, <4>2
    <3>3. op.kind = "validation" => /\ buf = <<NonceCell(hsOut["server"])>> /\ Len(buf) = 1
                                    /\ op.off = 0 /\ n = 1
      BY <3>1, <3>2 DEF Buffer, Ops
    <3> HIDE DEF op, buf
    <3>4. LeadsWrites'
      <4>1. /\ Len(wq["server"]) \in Nat \ {0} /\ DOMAIN wq["server"] = 1..Len(wq["server"])
            /\ DOMAIN Tail(wq["server"]) = 1..(Len(wq["server"]) - 1)
            /\ Len(Tail(wq["server"])) = Len(wq["server"]) - 1
            /\ \A i \in 1..(Len(wq["server"]) - 1) : Tail(wq["server"])[i] = wq["server"][i + 1]
        BY <3>1, HeadTailProperties, LenProperties, EmptySeq
      <4>2. \A i \in DOMAIN Tail(wq["server"]) : Tail(wq["server"])[i].kind # "validation"
        BY <4>1, <1>b DEF LeadsWrites
      <4>3. CASE op.off + n = Len(buf)
        BY <3>2, <4>2, <4>3 DEF LeadsWrites
      <4>4. CASE op.off + n # Len(buf)
        <5> DEFINE next == [op EXCEPT !.off = @ + n]
        <5>1. next \in Ops /\ next.kind = op.kind /\ op.kind # "validation"
          <6>1. op.kind # "validation"
            <7> SUFFICES ASSUME op.kind = "validation" PROVE FALSE
              OBVIOUS
            <7>1. op.off = 0 /\ n = 1 /\ Len(buf) = 1
              BY <3>3
            <7>2. op.off + n = 1
              BY <7>1
            <7> QED
              BY <4>4, <7>1, <7>2
          <6>2. op.kind \in WriteKinds /\ op.off \in Nat /\ op.off + n \in Nat
                /\ op = [kind |-> op.kind, off |-> op.off]
            BY <3>1, <3>2 DEF Ops
          <6>3. next = [kind |-> op.kind, off |-> op.off + n]
            BY <6>2
          <6> QED
            BY <6>1, <6>2, <6>3 DEF Ops
        <5>2. wq'["server"] = Append(Tail(wq["server"]), next)
          BY <3>2, <4>4
        <5> HIDE DEF next
        <5>3. /\ DOMAIN wq'["server"] = 1..Len(wq["server"])
              /\ \A i \in 1..(Len(wq["server"]) - 1) : wq'["server"][i] = Tail(wq["server"])[i]
              /\ wq'["server"][Len(wq["server"])] = next
          <6>1. Len(Tail(wq["server"])) + 1 = Len(wq["server"])
            BY <4>1
          <6>2. /\ Append(Tail(wq["server"]), next) \in Seq(Ops)
                /\ Len(Append(Tail(wq["server"]), next)) = Len(Tail(wq["server"])) + 1
                /\ \A i \in 1..Len(Tail(wq["server"])) :
                     Append(Tail(wq["server"]), next)[i] = Tail(wq["server"])[i]
                /\ Append(Tail(wq["server"]), next)[Len(Tail(wq["server"])) + 1] = next
            BY <3>1, <5>1, AppendProperties
          <6>3. DOMAIN wq'["server"] = 1..Len(wq'["server"])
            BY <5>2, <6>2, LenProperties
          <6> QED
            BY <4>1, <5>2, <6>1, <6>2, <6>3
        <5> QED
          BY <4>1, <4>2, <5>1, <5>3 DEF LeadsWrites
      <4> QED
        BY <4>3, <4>4
    <3>5. CASE stream["client"] # <<>>
      <4>1. stream'["client"] # <<>> /\ Head(stream'["client"]) = Head(stream["client"])
        BY <1>2, <3>5, StreamGrows
      <4> QED
        BY <1>b, <2>0, <3>4, <3>5, <4>1 DEF LeadInv, LeadsWrites
    <3>6. CASE stream["client"] = <<>> /\ Cut
      <4>1. stream' = stream
        BY <1>2, <2>2, <3>2, <3>6 DEF Cut, Transfer, IsConnected
      <4>2. Cut'
        BY <2>0, <3>6 DEF Cut
      <4> QED
        BY <1>b, <2>0, <3>4, <3>6, <4>1, <4>2 DEF LeadInv, LeadsWrites
    <3>7. CASE stream["client"] = <<>> /\ ~Cut /\ read["client"] \in {"connect", "validation"}
      <4>1. op.kind = "validation"
        BY <1>2, <1>b, <2>2, <3>7 DEF LeadInv, Transfer, IsConnected, op
      <4>2. link = "up" /\ sock["client"] # "closed"
        BY <1>2, <3>7 DEF Cut, Transfer, PipeInv, TypeOK
      <4>3. stream'["client"] = <<>> \o Passed("server", n)
        BY <1>b, <3>2, <3>7, <4>2
      <4>4. stream'["client"] = Passed("server", n)
        BY <3>2, <4>3, ConcatEmptySeq
      <4>5. Len(Passed("server", n)) = 1 /\ Passed("server", n)[1] = NonceCell(hsOut["server"])
        BY <3>2, <3>3, <4>1
      <4>6. Passed("server", n) # <<>> /\ Head(Passed("server", n)) = NonceCell(hsOut["server"])
        BY <3>2, <4>5
      <4>7. NonceCell(hsOut["server"]) \in NonceCells
        BY DEF PipeInv, TypeOK, NonceCell, NonceCells
      <4> QED
        BY <3>4, <4>4, <4>6, <4>7 DEF LeadInv, LeadsWrites
    <3>8. CASE read["client"] \notin {"connect", "validation"}
      BY <2>0, <3>4, <3>8 DEF LeadInv, LeadsWrites
    <3> QED
      BY <3>5, <3>6, <3>7, <3>8
  <2> QED
    BY <2>1, <2>2
<1> QED
  BY <1>1, <1>2 DEF Reactor

\* Every other step.
LEMMA LeadStep ==
  PipeInv /\ [Next]_vars => LeadInv'
<1> SUFFICES ASSUME PipeInv, [Next]_vars PROVE LeadInv'
  OBVIOUS
<1>a. /\ DOMAIN wq = Ends /\ DOMAIN stream = Ends /\ DOMAIN read = Ends /\ DOMAIN sock = Ends
      /\ LeadsWrites /\ wq["server"] \in Seq(Ops)
  BY EndsFacts DEF PipeInv, TypeOK, LeadInv, LeadsWrites, Ops
<1> USE EndsFacts DEF netVars, readVars, outVars, appVars, hsVars
<1>1. ASSUME stream'["client"] = stream["client"], sock' = sock \/ sock["server"] # "none",
             read'["client"] \in {"connect", "validation"} => read["client"] \in {"connect", "validation"},
             \/ wq'["server"] = wq["server"]
             \/ \E kind \in WriteKinds \ {"validation"} : wq'["server"] = Append(wq["server"], Write(kind))
      PROVE  LeadInv'
  <2>1. /\ LeadsWrites'
        /\ wq["server"] # <<>> => wq'["server"] # <<>> /\ Head(wq'["server"]) = Head(wq["server"])
    BY <1>1, <1>a, LeadAppend DEF LeadsWrites
  <2> QED
    BY <1>1, <2>1, LeadUntouched
<1>2. ASSUME NEW e \in Ends, RunSend(e) \/ OnMessageWritten(e) PROVE LeadInv'
  <2>1. stream' = stream /\ sock' = sock /\ read' = read
    BY <1>2 DEF RunSend, OnMessageWritten
  <2>2. \/ wq'["server"] = wq["server"]
        \/ \E kind \in WriteKinds \ {"validation"} : wq'["server"] = Append(wq["server"], Write(kind))
    <3>1. /\ wq["server"] \o <<Write("header")>> = Append(wq["server"], Write("header"))
          /\ wq["server"] \o <<>> = wq["server"]
      BY <1>a, SortOfKind, ConcatOne DEF WriteKinds
    <3>2. NextWrite(Tail(qOut["server"])) \in {<<Write("header")>>, <<>>}
      BY DEF NextWrite
    <3>3. CASE RunSend(e)
      <4>1. wq' = wq \/ wq' = [wq EXCEPT ![e] = Append(@, Write("header"))]
        BY <3>3 DEF RunSend
      <4> QED
        BY <1>a, <4>1 DEF WriteKinds
    <3>4. CASE OnMessageWritten(e)
      <4>1. \/ wq' = [wq EXCEPT ![e] = Append(@, Write("body"))]
            \/ wq' = [wq EXCEPT ![e] = @ \o NextWrite(Tail(qOut[e]))]
        BY <3>4 DEF OnMessageWritten
      <4>2. CASE e = "server"
        BY <1>a, <3>1, <3>2, <4>1, <4>2 DEF WriteKinds
      <4>3. CASE e # "server"
        BY <1>a, <4>1, <4>3
      <4> QED
        BY <4>2, <4>3
    <3> QED
      BY <1>2, <3>3, <3>4
  <2> QED
    BY <1>1, <2>1, <2>2
<1>3. ASSUME NEW e \in Ends, OnHeader(e) \/ OnBody(e) PROVE LeadInv'
  <2>1. sock' = sock /\ wq' = wq /\ LeadsWrites'
    BY <1>3, <1>a DEF OnHeader, OnBody, LeadsWrites
  <2>2. CASE e = "client"
    <3>1. read'["client"] \in {"header", "body"}
      BY <1>3, <1>a, <2>2 DEF OnHeader, OnBody, AddToIncoming
    <3> QED
      BY <2>1, <3>1 DEF LeadInv, LeadsWrites
  <2>3. CASE e # "client"
    <3>1. stream'["client"] = stream["client"]
      BY <1>3, <1>a, <2>3 DEF OnHeader, OnBody, Take
    <3>2. read'["client"] = read["client"]
      BY <1>3, <1>a, <2>3 DEF OnHeader, OnBody, AddToIncoming
    <3> QED
      BY <1>1, <2>1, <3>1, <3>2
  <2> QED
    BY <2>2, <2>3
<1>4. ASSUME NEW e \in Ends, RunClose(e) \/ OnReadError(e) PROVE LeadInv'
  <2>1. /\ stream' = stream /\ wq' = wq /\ LeadsWrites'
        /\ read' = read \/ read' = [read EXCEPT ![e] = "none"]
        /\ sock["server"] = "none" => sock'["server"] = "none" \/ e = "server"
    BY <1>4, <1>a DEF RunClose, OnReadError, LeadsWrites
  <2>2. e = "server" => sock["server"] # "none"
    BY <1>4 DEF RunClose, OnReadError, PipeInv, StartInv
  <2> QED
    BY <1>a, <2>1, <2>2, LeadUntouched
<1>5. ASSUME NEW e \in Ends, OnValidationWritten(e) PROVE LeadInv'
  <2>1. stream' = stream /\ wq' = wq /\ sock' = sock
        /\ (read' = read \/ read' = [read EXCEPT !["client"] = "header"])
    BY <1>5 DEF OnValidationWritten
  <2> QED
    BY <1>1, <1>a, <2>1
<1>6. ASSUME NEW e \in Ends, OnWriteError(e) PROVE LeadInv'
  <2>1. stream' = stream /\ read' = read /\ wq[e] # <<>> /\ wq' = [wq EXCEPT ![e] = Tail(@)]
        /\ sock' = [sock EXCEPT ![e] = "closed"]
    BY <1>6 DEF OnWriteError
  <2>2. Cut'
    BY <1>a, <2>1 DEF Cut
  <2>3. LeadsWrites'
    <3>1. CASE e = "client"
      BY <1>a, <2>1, <3>1 DEF LeadsWrites
    <3>2. CASE e = "server"
      <4>1. /\ wq'["server"] = Tail(wq["server"]) /\ Len(wq["server"]) \in Nat \ {0}
            /\ DOMAIN wq["server"] = 1..Len(wq["server"])
            /\ DOMAIN Tail(wq["server"]) = 1..(Len(wq["server"]) - 1)
            /\ \A i \in 1..(Len(wq["server"]) - 1) : Tail(wq["server"])[i] = wq["server"][i + 1]
        BY <1>a, <2>1, <3>2, HeadTailProperties, LenProperties, EmptySeq
      <4> QED
        BY <1>a, <4>1 DEF LeadsWrites
    <3> QED
      BY <3>1, <3>2
  <2>4. CASE read["client"] \in {"connect", "validation"}
    BY <2>1, <2>2, <2>3, <2>4 DEF PipeInv, LeadInv, LeadsWrites
  <2>5. CASE read["client"] \notin {"connect", "validation"}
    BY <2>1, <2>3, <2>5 DEF LeadInv, LeadsWrites
  <2> QED
    BY <2>4, <2>5
<1>7. CASE ClientHandshake
  <2>1. CASE OnConnect
    <3>1. stream' = stream /\ wq' = wq /\ sock' = sock /\ read["client"] = "connect"
      BY <2>1 DEF OnConnect
    <3> QED
      BY <1>1, <3>1
  <2>2. CASE OnConnectError
    <3>1. stream' = stream /\ wq' = wq /\ read'["client"] = "none"
      BY <2>2, <1>a DEF OnConnectError
    <3> QED
      BY <1>a, <3>1 DEF LeadInv, LeadsWrites
  <2>3. CASE AnswerValidation
    <3>1. wq'["server"] = wq["server"] /\ read'["client"] = "none"
      BY <2>3, <1>a DEF AnswerValidation
    <3> QED
      BY <1>a, <3>1 DEF LeadInv, LeadsWrites
  <2> QED
    BY <1>7, <2>1, <2>2, <2>3 DEF ClientHandshake
<1>8. ASSUME NEW g \in Greetings, Accept(g) PROVE LeadInv'
  <2>1. /\ stream' = stream /\ wq'["server"] = <<Write("validation")>> /\ read'["client"] = read["client"]
    BY <1>8, <1>a DEF Accept, ConnectToClient
  <2>2. /\ wq'["server"] # <<>> /\ Head(wq'["server"]).kind = "validation"
        /\ LeadsWrites'
    BY <2>1 DEF Write, LeadsWrites
  <2> QED
    BY <2>1, <2>2 DEF PipeInv, LeadInv, LeadsWrites
<1>9. CASE Deny
  <2>1. /\ stream' = stream /\ wq' = wq /\ read' = read /\ sock' = [sock EXCEPT !["server"] = "closed"]
    BY <1>9 DEF Deny
  <2>2. Cut'
    BY <1>a, <2>1 DEF Cut
  <2> HIDE DEF Cut
  <2> QED
    BY <1>a, <2>1, <2>2 DEF PipeInv, LeadInv, LeadsWrites
<1>10. CASE CheckValidation
  <2>1. /\ wq' = wq /\ stream'["client"] = stream["client"] /\ read'["client"] = read["client"]
        /\ sock["server"] # "none"
    BY <1>10, <1>a DEF CheckValidation, Take, PipeInv, StartInv
  <2> QED
    BY <1>1, <2>1
<1>11. CASE Establish \/ Break \/ Application
  <2>1. stream' = stream /\ wq' = wq /\ sock' = sock /\ read' = read
    BY <1>11 DEF Establish, Break, Application, Send, Bounce, Disconnect
  <2> QED
    BY <1>1, <2>1
<1>12. CASE UNCHANGED vars
  BY <1>12, <1>1 DEF vars
<1> QED
  BY <1>2, <1>3, <1>4, <1>5, <1>6, <1>7, <1>8, <1>9, <1>10, <1>11, <1>12, ReactorLead
  DEF Next, Handler, ServerHandshake

LEMMA ListenStep == PipeInv /\ [Next]_vars => Listening'
<1> SUFFICES ASSUME PipeInv, [Next]_vars PROVE Listening'
  OBVIOUS
<1>a. /\ DOMAIN sock = Ends /\ DOMAIN read = Ends /\ DOMAIN wq = Ends /\ DOMAIN wdone = Ends
      /\ Listening
  BY DEF PipeInv, TypeOK
<1> USE EndsFacts DEF netVars, readVars, outVars, appVars, hsVars
<1>1. ASSUME \A d \in Ends : sock'[d] = "open" => sock[d] = "open" /\ (read'[d] = read[d] \/ read'[d] # "none"),
             sock'["client"] = "open" => (Greeting("client") => Greeting("client")' \/ read'["client"] # "none")
      PROVE  Listening'
  BY <1>1, <1>a DEF Listening
<1>2. ASSUME UNCHANGED <<wq, wdone>> PROVE Greeting("client")' = Greeting("client")
  BY <1>2 DEF Greeting
<1>3. ASSUME NEW e \in Ends, Transfer(e) \/ RunSend(e) \/ OnMessageWritten(e) PROVE Listening'
  <2>1. sock' = sock /\ read' = read
    BY <1>3 DEF Transfer, RunSend, OnMessageWritten
  <2>2. Greeting("client") <=> Greeting("client")'
    <3>1. CASE e = "client"
      BY <1>3, <3>1, WritesMove, GreetingSteps
    <3>2. CASE e # "client"
      <4>1. wq'["client"] = wq["client"] /\ wdone'["client"] = wdone["client"]
        BY <1>3, <1>a, <3>2 DEF Transfer, RunSend, OnMessageWritten
      <4> QED
        BY <4>1 DEF Greeting
    <3> QED
      BY <3>1, <3>2
  <2> QED
    BY <1>1, <2>1, <2>2
<1>4. ASSUME NEW e \in Ends, ReadComplete(e) PROVE Listening'
  BY <1>4, <1>1, <1>2 DEF ReadComplete
<1>5. ASSUME NEW e \in Ends, RunClose(e) \/ OnReadError(e) PROVE Listening'
  <2>1. UNCHANGED <<wq, wdone>>
    BY <1>5 DEF RunClose, OnReadError
  <2>2. \A d \in Ends : sock'[d] = "open" => sock[d] = "open" /\ read'[d] = read[d]
    BY <1>5, <1>a DEF RunClose, OnReadError
  <2> QED
    BY <1>1, <1>2, <2>1, <2>2
<1>6. ASSUME NEW e \in Ends, OnHeader(e) \/ OnBody(e) PROVE Listening'
  <2>1. UNCHANGED <<wq, wdone, sock>>
    BY <1>6 DEF OnHeader, OnBody
  <2>2. \E r \in {"header", "body"} : read' = [read EXCEPT ![e] = r]
    BY <1>6 DEF OnHeader, OnBody, AddToIncoming
  <2> QED
    BY <1>1, <1>2, <1>a, <2>1, <2>2
<1>7. ASSUME NEW e \in Ends, OnValidationWritten(e) PROVE Listening'
  <2>1. sock' = sock /\ wq' = wq /\ wdone' = [wdone EXCEPT ![e] = Tail(@)]
    BY <1>7 DEF OnValidationWritten
  <2>2. CASE e = "client"
    <3>1. read' = [read EXCEPT !["client"] = "header"]
      BY <1>7, <2>2 DEF OnValidationWritten
    <3> QED
      BY <1>1, <1>a, <2>1, <3>1
  <2>3. CASE e # "client"
    <3>1. read' = read /\ wdone'["client"] = wdone["client"]
      BY <1>7, <1>a, <2>1, <2>3 DEF OnValidationWritten
    <3>2. Greeting("client")' = Greeting("client")
      BY <2>1, <3>1 DEF Greeting
    <3> QED
      BY <1>1, <2>1, <3>1, <3>2
  <2> QED
    BY <2>2, <2>3
<1>8. ASSUME NEW e \in Ends, OnWriteError(e) PROVE Listening'
  <2>1. /\ read' = read /\ wdone' = wdone /\ sock' = [sock EXCEPT ![e] = "closed"]
        /\ wq' = [wq EXCEPT ![e] = Tail(@)]
    BY <1>8 DEF OnWriteError
  <2>2. CASE e = "client"
    BY <1>1, <1>a, <2>1, <2>2
  <2>3. CASE e # "client"
    <3>1. Greeting("client")' = Greeting("client")
      BY <1>a, <2>1, <2>3 DEF Greeting
    <3> QED
      BY <1>1, <1>a, <2>1, <3>1
  <2> QED
    BY <2>2, <2>3
<1>9. CASE OnConnect
  <2>1. UNCHANGED <<wq, wdone, sock>> /\ sock["client"] # "none" /\ sock["client"] \in {"none", "open", "closed"}
    BY <1>9 DEF OnConnect, PipeInv, StartInv, TypeOK
  <2>2. read' = [read EXCEPT !["client"] = IF sock["client"] = "open" THEN "validation" ELSE "none"]
    BY <1>9 DEF OnConnect, IsConnected
  <2> QED
    BY <1>1, <1>2, <1>a, <2>1, <2>2
<1>10. CASE OnConnectError
  <2>1. UNCHANGED <<wq, wdone>> /\ sock' = [sock EXCEPT !["client"] = "closed"]
        /\ read' = [read EXCEPT !["client"] = "none"]
    BY <1>10 DEF OnConnectError
  <2> QED
    BY <1>1, <1>2, <1>a, <2>1
<1>11. CASE AnswerValidation
  <2>1. sock' = sock /\ read' = [read EXCEPT !["client"] = "none"]
        /\ wq'["client"] = Append(wq["client"], Write("validation")) /\ wdone' = wdone
    BY <1>11, <1>a DEF AnswerValidation
  <2>2. Write("validation") \in Ops /\ Write("validation") \in ValidationOps /\ wq["client"] \in Seq(Ops)
    BY SortOfKind DEF WriteKinds, ValidationDone, PipeInv, TypeOK, Ops
  <2>3. Greeting("client")'
    BY <2>1, <2>2, SomeAppend DEF Greeting
  <2> QED
    BY <1>a, <2>1, <2>3 DEF Listening
<1>12. ASSUME NEW g \in Greetings, Accept(g) PROVE Listening'
  <2>1. /\ sock'["client"] = sock["client"] /\ read'["client"] = read["client"]
        /\ read'["server"] = "validation" /\ wq'["client"] = wq["client"] /\ wdone' = wdone
    BY <1>12, <1>a DEF Accept, ConnectToClient
  <2>2. Greeting("client")' = Greeting("client")
    BY <2>1 DEF Greeting
  <2> QED
    BY <1>a, <2>1, <2>2 DEF Listening
<1>13. CASE Deny
  <2>1. UNCHANGED <<wq, wdone, read>> /\ sock' = [sock EXCEPT !["server"] = "closed"]
    BY <1>13 DEF Deny
  <2> QED
    BY <1>1, <1>2, <1>a, <2>1
<1>14. CASE CheckValidation
  <2>1. UNCHANGED <<wq, wdone>>
    BY <1>14 DEF CheckValidation
  <2>2. \A d \in Ends : sock'[d] = "open" => sock[d] = "open" /\ (read'[d] = read[d] \/ read'[d] # "none")
    BY <1>14, <1>a DEF CheckValidation, AfterCheck
  <2> QED
    BY <1>1, <1>2, <2>1, <2>2
<1>15. CASE Establish \/ Break \/ Application
  <2>1. UNCHANGED <<wq, wdone, sock, read>>
    BY <1>15 DEF Establish, Break, Application, Send, Bounce, Disconnect
  <2> QED
    BY <1>1, <1>2, <2>1
<1>16. CASE UNCHANGED vars
  BY <1>16, <1>1, <1>2 DEF vars
<1> QED
  BY <1>3, <1>4, <1>5, <1>6, <1>7, <1>8, <1>9, <1>10, <1>11, <1>12, <1>13, <1>14, <1>15, <1>16
  DEF Next, Reactor, Handler, ClientHandshake, ServerHandshake

-----------------------------------------------------------------------------
(* In every reachable state.                                               *)

LEMMA PipeInit == Init => PipeInv
<1> SUFFICES ASSUME Init PROVE PipeInv
  OBVIOUS
<1> USE EndsFacts
<1>1. TypeOK
  <2>1. Blank(FirstId) \in MessageType
    BY OutgoingAssumption, EmptySeq DEF Blank, MessageType
  <2>2. /\ <<>> \in Seq(CellType) /\ <<>> \in Seq(MessageType) /\ <<>> \in Seq(TaskType)
        /\ <<>> \in Seq([kind : WriteKinds, off : Nat]) /\ <<>> \in Seq(WriteKinds)
    BY EmptySeq
  <2>3. hsOut \in [Ends -> Nonces]
    BY HandshakeAssumption DEF Init
  <2> QED
    BY <2>1, <2>2, <2>3 DEF Init, TypeOK, ReadKinds
<1>2. \A e \in Ends : wq[e] = <<>> /\ wdone[e] = <<>> /\ qOut[e] = <<>> /\ ~rdone[e]
  BY DEF Init
<1>3. \A e \in Ends : WriteOK(e) /\ ~Greeting(e)
  BY <1>2, SomeEmpty DEF WriteOK, Once, Busy, Greeting
<1>4. \A e \in Ends : ReadOK(e)
  BY <1>2 DEF Init, ReadOK
<1>5. StartInv
  BY <1>3 DEF Init, StartInv
<1>6. LeadInv
  BY DEF Init, LeadInv
<1>7. Listening
  BY DEF Init, Listening
<1> QED
  BY <1>1, <1>3, <1>4, <1>5, <1>6, <1>7, VInvInit DEF PipeInv

LEMMA PipeAlways == Spec => []PipeInv
<1>1. PipeInv /\ [Next]_vars => PipeInv'
  <2> SUFFICES ASSUME PipeInv, [Next]_vars PROVE PipeInv'
    OBVIOUS
  <2>1. VInv'
    BY VInvNext DEF PipeInv
  <2>2. TypeOK' /\ StartInv' /\ LeadInv' /\ Listening'
    BY TypeStep, StartStep, LeadStep, ListenStep
  <2>3. \A d \in Ends : WriteOK(d)' /\ ReadOK(d)'
    BY WriteStep, ReadStep
  <2> QED
    BY <2>1, <2>2, <2>3 DEF PipeInv
<1> QED
  BY <1>1, PipeInit, PTL DEF Spec

\* Every buffer, queue and cell keeps its type: in particular the client finds a handshake
\* word where it reads one, no handler takes cells that have not arrived, and none pops an
\* empty m_qMessagesOut.
THEOREM ConnectionTypes == Spec => []TypeOK
<1>1. PipeInv => TypeOK
  BY DEF PipeInv
<1> QED
  BY <1>1, PipeAlways, PTL

\* As many positions hold an element of the set as the sequence has one: none, or one.
LEMMA CountSome ==
  ASSUME NEW s, NEW S, AtMostOne(s, S)
  PROVE  Cardinality({i \in DOMAIN s : s[i] \in S}) = IF Some(s, S) THEN 1 ELSE 0
<1> DEFINE P == {i \in DOMAIN s : s[i] \in S}
<1>1. CASE Some(s, S)
  <2>1. PICK i \in DOMAIN s : s[i] \in S
    BY <1>1 DEF Some
  <2>2. P = {i}
    BY <2>1 DEF AtMostOne
  <2> QED
    BY <1>1, <2>2, FS_Singleton
<1>2. CASE ~Some(s, S)
  <2>1. P = {}
    BY <1>2 DEF Some
  <2> QED
    BY <1>2, <2>1, FS_EmptySet
<1> QED
  BY <1>1, <1>2

\* Outstanding counts the message writes: one when there is one.
LEMMA OutstandingCount ==
  ASSUME PipeInv, NEW e \in Ends
  PROVE  Outstanding(e) = IF Busy(e) THEN 1 ELSE 0
<1>1. wq[e] \in Seq(Ops) /\ wdone[e] \in Seq(WriteKinds) /\ Once(e, MessageOps, MessageDone)
  BY DEF PipeInv, TypeOK, Ops, WriteOK
<1>2. /\ \A i \in DOMAIN wq[e] : wq[e][i] \in MessageOps <=> wq[e][i].kind # "validation"
      /\ \A i \in DOMAIN wdone[e] : wdone[e][i] \in MessageDone <=> wdone[e][i] # "validation"
  <2>1. \A i \in DOMAIN wq[e] : wq[e][i] \in Ops
    BY <1>1, LenProperties, ElementOfSeq
  <2>2. \A i \in DOMAIN wdone[e] : wdone[e][i] \in WriteKinds
    BY <1>1, LenProperties, ElementOfSeq
  <2> QED
    BY <2>1, <2>2 DEF MessageOps, MessageDone, WriteKinds
<1>3. /\ {i \in DOMAIN wq[e] : wq[e][i].kind # "validation"} = {i \in DOMAIN wq[e] : wq[e][i] \in MessageOps}
      /\ {i \in DOMAIN wdone[e] : wdone[e][i] # "validation"} = {i \in DOMAIN wdone[e] : wdone[e][i] \in MessageDone}
  BY <1>2
<1>4. /\ Cardinality({i \in DOMAIN wq[e] : wq[e][i] \in MessageOps})
           = IF Some(wq[e], MessageOps) THEN 1 ELSE 0
      /\ Cardinality({i \in DOMAIN wdone[e] : wdone[e][i] \in MessageDone})
           = IF Some(wdone[e], MessageDone) THEN 1 ELSE 0
  BY <1>1, CountSome DEF Once
<1>5. Outstanding(e) = (IF Some(wq[e], MessageOps) THEN 1 ELSE 0) + (IF Some(wdone[e], MessageDone) THEN 1 ELSE 0)
  BY <1>3, <1>4 DEF Outstanding
<1> QED
  BY <1>1, <1>5 DEF Once, Busy

\* However sends, completions and errors interleave, at most one message is being written
\* at each end, and it is at the front of m_qMessagesOut while asio reads its memory.
THEOREM OneWriteOutstanding == Spec => []OneMessageAtATime
<1>1. PipeInv => OneMessageAtATime
  <2> SUFFICES ASSUME PipeInv, NEW e \in Ends
               PROVE  Outstanding(e) <= 1 /\ (Outstanding(e) = 1 => qOut[e] # <<>>)
    BY DEF OneMessageAtATime
  <2>1. Busy(e) => qOut[e] # <<>>
    BY DEF PipeInv, WriteOK
  <2> QED
    BY <2>1, OutstandingCount
<1> QED
  BY <1>1, PipeAlways, PTL

\* A message in m_qMessagesOut of an open connection always has its write under way: no
\* interleaving of Send and the write handlers leaves the queue waiting for a Send to come.
THEOREM WritesContinue == Spec => []WritesGoOn
<1>1. PipeInv => WritesGoOn
  <2> SUFFICES ASSUME PipeInv, NEW e \in Ends, qOut[e] # <<>>, sock[e] = "open"
               PROVE  Outstanding(e) = 1
    BY DEF WritesGoOn
  <2>1. Busy(e)
    BY DEF PipeInv, WriteOK
  <2> QED
    BY <2>1, OutstandingCount
<1> QED
  BY <1>1, PipeAlways, PTL

\* Asio is always primed: an open end waits for the network, or is the client about to.
THEOREM EndsListen == Spec => []AlwaysListening
<1>1. PipeInv => AlwaysListening
  BY DEF PipeInv, Listening, AlwaysListening, Greeting, Some, ValidationOps, ValidationDone
<1> QED
  BY <1>1, PipeAlways, PTL
=============================================================================
