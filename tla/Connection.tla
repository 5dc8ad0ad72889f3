------------------------------ MODULE Connection ------------------------------
(***************************************************************************)
(* The two hjw::net::connection objects (net_connection.hpp) of one client *)
(* and its server, joined by a TCP connection: the validation handshake,   *)
(* the queue of outgoing messages written header then body, the reads that *)
(* rebuild each message, and every error path.                             *)
(*                                                                         *)
(* Each end has an io_context run by one thread: its handlers run one at a *)
(* time, so a handler is one action.  The application threads of both ends *)
(* and the network interleave with them freely.  An asynchronous operation *)
(* is pending from the call that starts it until its handler runs:         *)
(*   - a read completes when enough cells have arrived (ReadComplete), and *)
(*     its handler runs later (rdone says one is ready);                   *)
(*   - writes wait in wq in the order they were started.  The front one    *)
(*     passes some of its cells to the network; asio starts the rest of a  *)
(*     partial write again, behind the others.  A completed write waits in *)
(*     wdone for its handler.  Cells are read from the live buffer the     *)
(*     code gave to asio, at the time they are written.                    *)
(***************************************************************************)
EXTENDS Message, FiniteSets

CONSTANTS Outgoing,   \* messages the application of each end builds
          Greetings,  \* what OnClientConnection may send: at most one message
          Bounced,    \* ids of the messages the server's OnMessage sends back
          FirstId,    \* the enumerator of value 0, the id of a message{}
          Nonces,     \* handshake words
          Zero,       \* the handshake word 0
          Clock,      \* the words the server's clock may read
          Scramble,   \* connection::Scramble, a function on handshake words
          MaxSends    \* bound: messages each end sends

Ends == {"client", "server"}
Peer(e) == CHOOSE p \in Ends : p # e

NonceCells  == [kind : {"nonce"}, val : Nonces]
HeaderCells == [kind : {"header"}, id : Ids, size : Nat]
CellType    == DataCells \cup NonceCells \cup HeaderCells
MessageType == [id : Ids, size : Nat, body : Seq(CellType)]

ASSUME OutgoingAssumption ==
    /\ \A e \in Ends : \A m \in Outgoing[e] : m \in MessageType /\ WellFormed(m)
    /\ \A g \in Greetings : g \in Seq(Outgoing["server"]) /\ Len(g) <= 1
    /\ FirstId \in Ids /\ Bounced \subseteq Ids
\* What the server sends back, a ping, was sent with a body, the time: a message received
\* without one keeps the body of the message before it (see DeliveredIntact).
ASSUME BounceAssumption == \A m \in Outgoing["client"] : m.id \in Bounced => m.body # <<>>
ASSUME HandshakeAssumption == Scramble \in [Nonces -> Nonces] /\ Zero \in Nonces /\ Clock \subseteq Nonces
ASSUME BoundAssumption == MaxSends \in [Ends -> Nat]

VARIABLES
  link,       \* the TCP connection: "down" before it is made, "up", "broken"
  sock,       \* m_oSocket; the server's is "none" until the accept handler
  stream,     \* cells on their way to each end, in order
  read,       \* the read or connect pending at each end, or "none"
  rdone,      \* that operation has completed and its handler is ready
  tmpIn,      \* m_msgTemporaryIn
  inbox,      \* what the end has pushed into its owner's m_qMessagesIn
  posted,     \* the lambdas given to asio::post that have not run
  qOut,       \* m_qMessagesOut
  wq, wdone,  \* writes in progress, and completed writes whose handler is ready
  hsOut,      \* m_nHandshakeOut
  validated,  \* the server has called OnClientValidated
  sent,       \* history: messages given to Send at each end
  answered,   \* messages of the server's inbox its OnMessage has dealt with
  calm        \* history: nothing has yet disturbed the connection (see Disturb)

netVars  == <<link, stream>>
readVars == <<read, rdone, tmpIn, inbox>>
outVars  == <<qOut, wq, wdone>>
appVars  == <<posted, sent, answered>>
hsVars   == <<hsOut, validated>>
vars == <<link, sock, stream, read, rdone, tmpIn, inbox, posted, qOut, wq, wdone,
          hsOut, validated, sent, answered, calm>>

-----------------------------------------------------------------------------
(* Cells, buffers and operations.                                          *)

NonceCell(n)  == [kind |-> "nonce", val |-> n]

\* (Mutant: the header announces the size of the body alone.)
HeaderCell_BodyOnly(m) == [kind |-> "header", id |-> m.id, size |-> m.size - HeaderSize]
HeaderCell(m) == [kind |-> "header", id |-> m.id, size |-> m.size]

\* What the eight bytes of a cell say when they are read as a header.  Those of a
\* body or of a handshake word can say anything.
AnySize == 0..2    \* bound: sizes that stray bytes may spell
HeadersIn(cell) == IF cell.kind = "header" THEN {cell}
                   ELSE [kind : {"header"}, id : Ids, size : AnySize]

\* The live memory a write of this kind was given.
Buffer(e, kind) == CASE kind = "validation" -> <<NonceCell(hsOut[e])>>
                     [] kind = "header"     -> <<HeaderCell(Head(qOut[e]))>>
                     [] kind = "body"       -> Head(qOut[e]).body

Write(kind) == [kind |-> kind, off |-> 0]

SendTask(m) == [task |-> "send", msg |-> m]
CloseTask   == [task |-> "close"]

\* Cells the pending read of e waits for.  (Mutant: body.resize(header.size).)
Needed_WholeSize(e) == IF read[e] = "body" THEN tmpIn[e].size ELSE 1
Needed(e) == IF read[e] = "body" THEN BodyLength(tmpIn[e].size) ELSE 1

\* bWritingMessages.  (Mutant: the lambda does not look.)
Writing_Unchecked(e) == FALSE
Writing(e) == qOut[e] # <<>>

\* if(!m_qMessagesOut.empty()) WriteHeader(), for the queue q a pop leaves.  (Mutant: the
\* next message is left to the next Send.)
NextWrite_Forgotten(q) == <<>>
NextWrite(q) == IF q # <<>> THEN <<Write("header")>> ELSE <<>>

Disturb == calm' = FALSE

\* connection::IsConnected
IsConnected(e) == sock[e] = "open"

-----------------------------------------------------------------------------
(* The client has called ConnectToServer: async_connect has opened its     *)
(* socket.  The server has a pending accept.                               *)

Init == /\ link = "down"
        /\ sock = [e \in Ends |-> IF e = "client" THEN "open" ELSE "none"]
        /\ stream = [e \in Ends |-> <<>>]
        /\ read = [e \in Ends |-> IF e = "client" THEN "connect" ELSE "none"]
        /\ rdone = [e \in Ends |-> FALSE]
        /\ tmpIn = [e \in Ends |-> Blank(FirstId)]
        /\ inbox = [e \in Ends |-> <<>>]
        /\ posted = [e \in Ends |-> <<>>]
        /\ qOut = [e \in Ends |-> <<>>]
        /\ wq = [e \in Ends |-> <<>>]
        /\ wdone = [e \in Ends |-> <<>>]
        /\ \E n \in Clock : hsOut = [e \in Ends |-> IF e = "client" THEN Zero ELSE n]
        /\ validated = FALSE
        /\ sent = [e \in Ends |-> <<>>]
        /\ answered = 0
        /\ calm = TRUE

-----------------------------------------------------------------------------
(* The network and asio's reactor.                                         *)

Establish == /\ link = "down"
             /\ IsConnected("client")
             /\ link' = "up"
             /\ rdone' = [rdone EXCEPT !["client"] = TRUE]
             /\ UNCHANGED <<sock, stream, read, tmpIn, inbox, outVars, appVars, hsVars, calm>>

Break == /\ link = "up"
         /\ link' = "broken"
         /\ Disturb
         /\ UNCHANGED <<sock, stream, readVars, outVars, appVars, hsVars>>

\* Bytes written to a peer that is gone are accepted by the kernel and lost.
Transfer(e) ==
  /\ link # "down" /\ IsConnected(e)
  /\ wq[e] # <<>>
  /\ LET op  == Head(wq[e])
         buf == Buffer(e, op.kind)
     IN  \E n \in 1..(Len(buf) - op.off) :
           /\ stream' = IF link = "up" /\ sock[Peer(e)] # "closed"
                        THEN [stream EXCEPT ![Peer(e)] = @ \o SubSeq(buf, op.off + 1, op.off + n)]
                        ELSE stream
           /\ IF op.off + n = Len(buf)
              THEN /\ wq' = [wq EXCEPT ![e] = Tail(@)]
                   /\ wdone' = [wdone EXCEPT ![e] = Append(@, op.kind)]
              ELSE /\ wq' = [wq EXCEPT ![e] = Append(Tail(@), [op EXCEPT !.off = @ + n])]
                   /\ UNCHANGED wdone
  /\ UNCHANGED <<link, sock, readVars, qOut, appVars, hsVars, calm>>

ReadComplete(e) ==
  /\ read[e] \in {"validation", "header", "body"} /\ ~rdone[e]
  /\ IsConnected(e)
  /\ Len(stream[e]) >= Needed(e)
  /\ rdone' = [rdone EXCEPT ![e] = TRUE]
  /\ UNCHANGED <<netVars, sock, read, tmpIn, inbox, outVars, appVars, hsVars, calm>>

-----------------------------------------------------------------------------
(* The applications.                                                       *)

\* connection::Send posts a lambda; the bound MaxSends is the model's.
Post(e, m) == /\ Len(sent[e]) < MaxSends[e]
              /\ posted' = [posted EXCEPT ![e] = Append(@, SendTask(m))]
              /\ sent' = [sent EXCEPT ![e] = Append(@, m)]

\* client_interface::Send and server_interface::MessageAllClients: the only guard is
\* that the socket is open, which it is before the handshake is over.
Send(e, m) == /\ IsConnected(e)
              /\ Post(e, m)
              /\ UNCHANGED <<netVars, sock, readVars, outVars, hsVars, answered, calm>>

\* server_interface::update calls OnMessage, which sends the next message of a bounced
\* kind back as it was received, whether or not the socket is still open.
Bounce == \E i \in DOMAIN inbox["server"] :
            LET Bounces(j) == j > answered /\ inbox["server"][j].id \in Bounced
            IN  /\ Bounces(i) /\ \A j \in 1..(i - 1) : ~Bounces(j)
                /\ answered' = i
                /\ Post("server", inbox["server"][i])
                /\ UNCHANGED <<netVars, sock, readVars, outVars, hsVars, calm>>

\* connection::Disconnect posts the close.  A second call before it runs would add
\* nothing; the guard keeps one.
Disconnect == /\ IsConnected("client")
              /\ \A i \in DOMAIN posted["client"] : posted["client"][i] # CloseTask
              /\ posted' = [posted EXCEPT !["client"] = Append(@, CloseTask)]
              /\ Disturb
              /\ UNCHANGED <<netVars, sock, readVars, outVars, hsVars, sent, answered>>

-----------------------------------------------------------------------------
(* Posted lambdas.                                                         *)

\* A message the client writes before its answer to the handshake disturbs it.
RunSend(e) ==
  /\ posted[e] # <<>> /\ Head(posted[e]).task = "send"
  /\ posted' = [posted EXCEPT ![e] = Tail(@)]
  /\ qOut' = [qOut EXCEPT ![e] = Append(@, Head(posted[e]).msg)]
  /\ wq' = IF Writing(e) THEN wq ELSE [wq EXCEPT ![e] = Append(@, Write("header"))]
  /\ calm' = (calm /\ (e = "client" => read[e] \notin {"connect", "validation"}))
  /\ UNCHANGED <<netVars, sock, readVars, wdone, hsVars, sent, answered>>

RunClose(e) ==
  /\ posted[e] # <<>> /\ Head(posted[e]).task = "close"
  /\ posted' = [posted EXCEPT ![e] = Tail(@)]
  /\ sock' = [sock EXCEPT ![e] = "closed"]
  /\ UNCHANGED <<netVars, readVars, outVars, hsVars, sent, answered, calm>>

-----------------------------------------------------------------------------
(* The handlers of the handshake.                                          *)

\* The server writes the validation word and waits for the answer.
ConnectToClient == /\ wq' = [wq EXCEPT !["server"] = <<Write("validation")>>]
                   /\ read' = [read EXCEPT !["server"] = "validation"]

\* The accept handler, when OnClientConnection approves: what it sends is posted first.
Accept(g) ==
  /\ sock["server"] = "none" /\ link = "up"
  /\ Len(g) <= MaxSends["server"]
  /\ sock' = [sock EXCEPT !["server"] = "open"]
  /\ posted' = [posted EXCEPT !["server"] = [i \in DOMAIN g |-> SendTask(g[i])]]
  /\ sent' = [sent EXCEPT !["server"] = g]
  /\ ConnectToClient
  /\ UNCHANGED <<netVars, rdone, tmpIn, inbox, qOut, wdone, hsVars, answered, calm>>

\* OnClientConnection returned false: the new connection and its socket are destroyed.
Deny ==
  /\ sock["server"] = "none" /\ link = "up"
  /\ sock' = [sock EXCEPT !["server"] = "closed"]
  /\ Disturb
  /\ UNCHANGED <<netVars, readVars, outVars, appVars, hsVars>>

\* asio reports an error if the socket was closed after the connection was made.
OnConnect ==
  /\ read["client"] = "connect" /\ rdone["client"]
  /\ read' = [read EXCEPT !["client"] = IF IsConnected("client") THEN "validation" ELSE "none"]
  /\ rdone' = [rdone EXCEPT !["client"] = FALSE]
  /\ UNCHANGED <<netVars, sock, tmpIn, inbox, outVars, appVars, hsVars, calm>>

OnConnectError ==
  /\ read["client"] = "connect" /\ link = "down"
  /\ sock' = [sock EXCEPT !["client"] = "closed"]
  /\ read' = [read EXCEPT !["client"] = "none"]
  /\ Disturb
  /\ UNCHANGED <<netVars, rdone, tmpIn, inbox, outVars, appVars, hsVars>>

\* The next cell of the stream goes to the handler of the pending read.
Take(e, kind) == /\ read[e] = kind /\ rdone[e]
                 /\ rdone' = [rdone EXCEPT ![e] = FALSE]
                 /\ stream' = [stream EXCEPT ![e] = SubSeq(@, Needed(e) + 1, Len(@))]

\* The client scrambles the word it read and writes the result.  (Mutant: it sends the
\* word back as it is.)
Answer_Unscrambled == Head(stream["client"]).val
Answer == Scramble[Head(stream["client"]).val]

AnswerValidation ==
  /\ Take("client", "validation")
  /\ hsOut' = [hsOut EXCEPT !["client"] = Answer]
  /\ wq' = [wq EXCEPT !["client"] = Append(@, Write("validation"))]
  /\ read' = [read EXCEPT !["client"] = "none"]
  /\ UNCHANGED <<link, sock, tmpIn, inbox, qOut, wdone, appVars, validated, calm>>

\* The server compares with m_nHandshakeCheck, the word it sent scrambled.
HandshakeCheck == NonceCell(Scramble[hsOut["server"]])

\* What the server reads once it has checked the answer.  (Mutant: it reads on even after
\* a wrong answer.)
AfterCheck_ReadOn(valid) == "header"
AfterCheck(valid) == IF valid THEN "header" ELSE "none"

CheckValidation ==
  /\ Take("server", "validation")
  /\ LET valid == Head(stream["server"]) = HandshakeCheck
     IN  /\ validated' = valid
         /\ read' = [read EXCEPT !["server"] = AfterCheck(valid)]
         /\ sock' = IF valid THEN sock ELSE [sock EXCEPT !["server"] = "closed"]
  /\ UNCHANGED <<link, tmpIn, inbox, outVars, appVars, hsOut, calm>>

-----------------------------------------------------------------------------
(* The handlers of the other reads.                                        *)

\* AddToIncomingMessageQueue: push a copy of the temporary message, read the next header.
\* (Mutants: it does not prime asio again; it pushes the message of the time before.)
AddToIncoming_NotPrimed(e, m) ==
  /\ tmpIn' = [tmpIn EXCEPT ![e] = m]
  /\ inbox' = [inbox EXCEPT ![e] = Append(@, m)]
  /\ read' = [read EXCEPT ![e] = "none"]
AddToIncoming_Late(e, m) ==
  /\ tmpIn' = [tmpIn EXCEPT ![e] = m]
  /\ inbox' = [inbox EXCEPT ![e] = Append(@, tmpIn[e])]
  /\ read' = [read EXCEPT ![e] = "header"]
AddToIncoming(e, m) ==
  /\ tmpIn' = [tmpIn EXCEPT ![e] = m]
  /\ inbox' = [inbox EXCEPT ![e] = Append(@, m)]
  /\ read' = [read EXCEPT ![e] = "header"]

\* Only the header of m_msgTemporaryIn is overwritten here; its body keeps whatever the
\* message before left in it, until ReadBody overwrites it.
OnHeader(e) ==
  /\ Take(e, "header")
  /\ \E h \in HeadersIn(Head(stream[e])) :
       LET m == [tmpIn[e] EXCEPT !.id = h.id, !.size = h.size]
       IN  IF h.size > EightBytes
           THEN /\ tmpIn' = [tmpIn EXCEPT ![e] = m]
                /\ read' = [read EXCEPT ![e] = "body"]
                /\ UNCHANGED inbox
           ELSE AddToIncoming(e, m)
  /\ UNCHANGED <<link, sock, outVars, appVars, hsVars, calm>>

OnBody(e) ==
  /\ Take(e, "body")
  /\ AddToIncoming(e, [tmpIn[e] EXCEPT !.body = SubSeq(stream[e], 1, Needed(e))])
  /\ UNCHANGED <<link, sock, outVars, appVars, hsVars, calm>>

\* The peer closed, reset or was lost, or the socket was closed here.
PeerGone(e) == link = "broken" \/ sock[Peer(e)] = "closed"

\* (Mutant: the handlers only print.)
OnReadError_NoClose(e) ==
  /\ read[e] \in {"validation", "header", "body"} /\ ~rdone[e]
  /\ sock[e] = "closed" \/ PeerGone(e)
  /\ read' = [read EXCEPT ![e] = "none"]
  /\ UNCHANGED <<netVars, sock, rdone, tmpIn, inbox, outVars, appVars, hsVars, calm>>
OnReadError(e) ==
  /\ read[e] \in {"validation", "header", "body"} /\ ~rdone[e]
  /\ sock[e] = "closed" \/ PeerGone(e)
  /\ sock' = [sock EXCEPT ![e] = "closed"]
  /\ read' = [read EXCEPT ![e] = "none"]
  /\ UNCHANGED <<netVars, rdone, tmpIn, inbox, outVars, appVars, hsVars, calm>>

-----------------------------------------------------------------------------
(* The handlers of the writes.                                             *)

\* WriteValidation's handler: the client then waits for messages.
OnValidationWritten(e) ==
  /\ wdone[e] # <<>> /\ Head(wdone[e]) = "validation"
  /\ wdone' = [wdone EXCEPT ![e] = Tail(@)]
  /\ read' = IF e = "client" THEN [read EXCEPT ![e] = "header"] ELSE read
  /\ UNCHANGED <<netVars, sock, rdone, tmpIn, inbox, qOut, wq, appVars, hsVars, calm>>

\* WriteHeader's and WriteBody's: write the body if there is one still to write,
\* otherwise pop the message and go on with the next.
OnMessageWritten(e) ==
  /\ wdone[e] # <<>> /\ Head(wdone[e]) \in {"header", "body"}
  /\ wdone' = [wdone EXCEPT ![e] = Tail(@)]
  /\ IF Head(wdone[e]) = "header" /\ Head(qOut[e]).body # <<>>
     THEN /\ wq' = [wq EXCEPT ![e] = Append(@, Write("body"))]
          /\ UNCHANGED qOut
     ELSE /\ qOut' = [qOut EXCEPT ![e] = Tail(@)]
          /\ wq' = [wq EXCEPT ![e] = @ \o NextWrite(Tail(qOut[e]))]
  /\ UNCHANGED <<netVars, sock, readVars, appVars, hsVars, calm>>

OnWriteError(e) ==
  /\ wq[e] # <<>>
  /\ sock[e] = "closed" \/ PeerGone(e)
  /\ wq' = [wq EXCEPT ![e] = Tail(@)]
  /\ sock' = [sock EXCEPT ![e] = "closed"]
  /\ UNCHANGED <<netVars, readVars, qOut, wdone, appVars, hsVars, calm>>

-----------------------------------------------------------------------------

Reactor(e) == Transfer(e) \/ ReadComplete(e)

Handler(e) == \/ RunSend(e) \/ RunClose(e)
              \/ OnHeader(e) \/ OnBody(e) \/ OnReadError(e)
              \/ OnValidationWritten(e) \/ OnMessageWritten(e) \/ OnWriteError(e)

ClientHandshake == OnConnect \/ OnConnectError \/ AnswerValidation
ServerHandshake == (\E g \in Greetings : Accept(g)) \/ Deny \/ CheckValidation

Application == \/ \E e \in Ends : \E m \in Outgoing[e] : Send(e, m)
               \/ Bounce
               \/ Disconnect

Next == \/ \E e \in Ends : Reactor(e) \/ Handler(e)
        \/ ClientHandshake
        \/ ServerHandshake
        \/ Establish
        \/ Break
        \/ Application

Spec == Init /\ [][Next]_vars

(***************************************************************************)
(* The context thread of an end keeps running the handlers that are ready, *)
(* and the network moves what it can, except that                          *)
(*   - client_interface::Disconnect stops the context right after it has   *)
(*     posted the close: from then on the client owes nothing, not even    *)
(*     the close.  Nor does one whose socket is closed, perhaps by it;     *)
(*   - a network that is lost tells nobody: with neither a keep-alive nor  *)
(*     a time limit, an idle read may stay pending for ever.               *)
(* Applications are not forced to act, nor the network to break.           *)
(***************************************************************************)
Leaving(e) == e = "client" /\ (sock[e] = "closed" \/ \E i \in DOMAIN posted[e] : posted[e][i] = CloseTask)
Owes(e)    == link # "broken" /\ ~Leaving(e)

Fairness == /\ \A e \in Ends : WF_vars(Owes(e) /\ Reactor(e)) /\ WF_vars(Owes(e) /\ Handler(e))
            /\ WF_vars(Owes("client") /\ ClientHandshake)
            /\ WF_vars(Owes("server") /\ ServerHandshake)
            /\ WF_vars(Owes("client") /\ Establish)

FairSpec == Spec /\ Fairness

-----------------------------------------------------------------------------
(* Properties.                                                             *)

WriteKinds == {"validation", "header", "body"}
ReadKinds  == {"none", "connect", "validation", "header", "body"}
TaskType   == {CloseTask} \cup [task : {"send"}, msg : MessageType]

TypeOK == /\ link \in {"down", "up", "broken"}
          /\ sock \in [Ends -> {"none", "open", "closed"}]
          /\ stream \in [Ends -> Seq(CellType)]
          /\ read \in [Ends -> ReadKinds]
          /\ rdone \in [Ends -> BOOLEAN]
          /\ tmpIn \in [Ends -> MessageType]
          /\ inbox \in [Ends -> Seq(MessageType)]
          /\ posted \in [Ends -> Seq(TaskType)]
          /\ qOut \in [Ends -> Seq(MessageType)]
          /\ wq \in [Ends -> Seq([kind : WriteKinds, off : Nat])]
          /\ wdone \in [Ends -> Seq(WriteKinds)]
          /\ hsOut \in [Ends -> Nonces]
          /\ validated \in BOOLEAN
          /\ sent \in [Ends -> Seq(MessageType)]
          /\ answered \in Nat
          /\ calm \in BOOLEAN

\* The server lets nothing of a client reach m_qMessagesIn, and reads no message header
\* from it, before it has answered the handshake.
NothingBeforeValidation ==
    \/ validated
    \/ inbox["server"] = <<>> /\ read["server"] \in {"none", "validation"}

\* Message writes outstanding at e, in progress or with their handler still to run.
Outstanding(e) ==
    Cardinality({i \in DOMAIN wq[e] : wq[e][i].kind # "validation"})
  + Cardinality({i \in DOMAIN wdone[e] : wdone[e][i] # "validation"})

\* "wanting to avoid multiple write header work load": at most one message is being
\* written, and while one is, it stays at the front of m_qMessagesOut, whose memory asio
\* is reading.
OneMessageAtATime == \A e \in Ends : /\ Outstanding(e) <= 1
                                     /\ Outstanding(e) = 1 => qOut[e] # <<>>

\* The chain of writes never stops while messages wait: a queue that is not empty is
\* being written, or its socket is closed.
WritesGoOn == \A e \in Ends : qOut[e] # <<>> /\ sock[e] = "open" => Outstanding(e) = 1

\* An open end always has a read pending, or is about to start one: it notices when its
\* peer goes away.
AlwaysListening ==
    \A e \in Ends : sock[e] = "open" =>
        \/ read[e] # "none"
        \/ e = "client" /\ \/ \E i \in DOMAIN wq[e] : wq[e][i].kind = "validation"
                           \/ \E i \in DOMAIN wdone[e] : wdone[e][i] = "validation"

\* The messages as a receiver that trusts header.size sees them.
View(m) == [id |-> m.id, body |-> IF m.size > EightBytes THEN m.body ELSE <<>>]
Views(s) == [i \in DOMAIN s |-> View(s[i])]

\* The framing implements a channel: messages arrive whole, in order, without loss or
\* duplication, whatever the interleaving of reads, writes, errors and closes.
Channel == INSTANCE MessageChannel WITH
             Contents <- {View(m) : m \in Outgoing["client"] \cup Outgoing["server"]},
             sent <- [e \in Ends |-> Views(sent[e])],
             got <- [e \in Ends |-> Views(inbox[e])]
ChannelSpec == Channel!Spec

\* While nothing disturbs the connection, every message sent is received: the client is
\* validated and neither end's chain of reads and writes stalls.
Delivery == \A e \in Ends : \A n \in 1..MaxSends[e] :
              []calm => (Len(sent[e]) >= n ~> Len(inbox[Peer(e)]) >= n)

\* Once an end has closed the other closes too, idle or not and at whatever step of the
\* handshake, unless the news is lost with the network or the other is a client that
\* Disconnect has stopped.
CloseSpreads == \A e \in Ends :
    sock[e] = "closed" /\ sock[Peer(e)] = "open"
      ~> sock[Peer(e)] = "closed" \/ link = "broken" \/ Leaving(Peer(e))

\* "if no message body then we pass the message to the incoming queue": what is received
\* is what was sent, body included.
DeliveredIntact == \A e \in Ends : \A i \in DOMAIN inbox[e] :
                     inbox[e][i] = sent[Peer(e)][i]

\* Both ends agree on where messages begin: what an end reads as a header was written as
\* one.
InSync == \A e \in Ends : read[e] = "header" /\ stream[e] # <<>>
                           => Head(stream[e]).kind = "header"

\* "the client would have read it and sent back the handshake": what the server reads as
\* the answer to its validation word is a handshake word.
AnswerComesFirst ==
    read["server"] = "validation" /\ stream["server"] # <<>>
        => Head(stream["server"]).kind = "nonce"
=============================================================================
