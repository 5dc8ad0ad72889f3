----------------------------- MODULE ChannelProofs -----------------------------
(***************************************************************************)
(* Proof that the framing of Connection implements MessageChannel, for all *)
(* messages, greetings and numbers of messages; that what is read as a     *)
(* header was written as one; and that bodies arrive as they were sent if  *)
(* every message has one.                                                  *)
(*                                                                         *)
(* The cells that e has sent are cut into messages in one way only.  The   *)
(* inductive invariant (Good) says where the messages begin in the stream  *)
(* to its peer: S[k] is the place of the header of the k-th message, which *)
(* is not positive once the reader has passed it.  The cells that have     *)
(* arrived are those of the messages at these places (Framed); the reader  *)
(* is at the place its state says (Reads); and the writer at the end of    *)
(* the stream, with what is still to come in its queues (Writes).          *)
(*                                                                         *)
(* Two ways out of it are for good: an end that reads no more (Stopped),   *)
(* and a server that waits for the answer to its validation word and will  *)
(* find something else (Early).                                            *)
(***************************************************************************)
EXTENDS ConnectionProofs

\* S is where the messages of snt begin in the stream st, which holds cells of theirs.
Framed(snt, st, S) ==
  /\ S \in [1..Len(snt) + 1 -> Int]
  /\ \A k \in 1..Len(snt) : S[k + 1] = S[k] + 1 + Len(snt[k].body)
  /\ \A k, l \in 1..Len(snt) + 1 : k < l => S[k] < S[l]
  /\ Len(st) < S[Len(snt) + 1]
  /\ \A k \in 1..Len(snt), i \in 1..Len(st) :
       /\ i = S[k] => st[i] = HeaderCell(snt[k])
       /\ S[k] < i /\ i < S[k + 1] => st[i] = snt[k].body[i - S[k]]

\* The reader p is before the handshake word, after it, at a header, or at a body.
Reads(p, S) ==
  /\ (read[p] \in {"connect", "validation"} \/ (read[p] = "none" /\ p = "server")) =>
       /\ inbox[p] = <<>> /\ S[1] = 2
       /\ stream[p] # <<>> => stream[p][1] \in NonceCells
  /\ read[p] = "none" /\ p = "client" => inbox[p] = <<>> /\ S[1] = 1
  /\ read[p] = "header" => S[Len(inbox[p]) + 1] = 1
  /\ read[p] = "body" => /\ S[Len(inbox[p]) + 1] = 0
                         /\ Len(inbox[p]) < Len(sent[Peer(p)])
                         /\ tmpIn[p].id = sent[Peer(p)][Len(inbox[p]) + 1].id
                         /\ tmpIn[p].size = sent[Peer(p)][Len(inbox[p]) + 1].size

\* The messages of e after the first n are in m_qMessagesOut and in the lambdas, those
\* before the close if there is one.
Closing(e, j) == \E i \in 1..j : posted[e][i] = CloseTask
Queued(e, n) ==
  /\ n \in Nat /\ n + Len(qOut[e]) <= Len(sent[e])
  /\ \A i \in 1..Len(qOut[e]) : qOut[e][i] = sent[e][n + i]
  /\ \A i \in 1..Len(posted[e]) : ~Closing(e, i) =>
       /\ n + Len(qOut[e]) + i <= Len(sent[e])
       /\ posted[e][i] = SendTask(sent[e][n + Len(qOut[e]) + i])
  /\ ~Closing(e, Len(posted[e])) => n + Len(qOut[e]) + Len(posted[e]) = Len(sent[e])

\* Nothing of e has been written: the validation word goes first, if e is the server.
NothingWritten(e, S) ==
  /\ stream[Peer(e)] = <<>> /\ S[1] = 2
  /\ wdone[e] = <<>>
  /\ \A i \in DOMAIN wq[e] : wq[e][i].kind # "body"
  /\ e = "server" /\ sock[e] = "open" => wq[e] # <<>> /\ Head(wq[e]).kind = "validation"

\* The first n messages of e have been written, and what wq and wdone say of the next.
Written(e, n, S) ==
  LET next == Len(stream[Peer(e)]) + 1
  IN  /\ link # "down" /\ (e = "server" => sock[e] # "none")
      /\ e = "client" => read["client"] \notin {"connect", "validation"}
      /\ qOut[e] = <<>> => next = S[n + 1]
      /\ \A i \in DOMAIN wq[e] : /\ wq[e][i].kind # "validation"
                                 /\ wq[e][i].kind = "header" => next = S[n + 1]
                                 /\ wq[e][i].kind = "body" => next = S[n + 1] + 1 + wq[e][i].off
      /\ \A i \in DOMAIN wdone[e] : /\ wdone[e][i] = "header" => next = S[n + 1] + 1
                                    /\ wdone[e][i] = "body" => next = S[n + 2]

Writes(e, S) == \E n \in Nat : /\ Queued(e, n)
                               /\ \/ n = 0 /\ NothingWritten(e, S)
                                  \/ Written(e, n, S)

\* An end that reads no more.
Stopped(p) == sock[p] = "closed" /\ read[p] = "none" /\ (p = "client" => ~Greeting(p))

\* The server will find something else than the answer to its validation word.
Early(p) == /\ p = "server" /\ read[p] \in {"none", "validation"}
            /\ stream[p] # <<>> /\ stream[p][1] \notin NonceCells

Good(e) == \E S : /\ Framed(sent[e], stream[Peer(e)], S)
                  /\ Reads(Peer(e), S)
                  /\ Cut \/ Writes(e, S)

FrameInv == \A e \in Ends : Stopped(Peer(e)) \/ Early(Peer(e)) \/ Good(e)

\* What is sent is an application's; what is received is what was sent, to a reader that
\* trusts header.size.
Same(m, o) == m.id = o.id /\ m.size = o.size /\ (o.size > EightBytes => m.body = o.body)

SentInv ==
  /\ \A i \in DOMAIN sent["client"] : sent["client"][i] \in Outgoing["client"]
  /\ \A i \in DOMAIN sent["server"] :
       sent["server"][i] \in Outgoing["client"] \cup Outgoing["server"]

MatchInv == \A e \in Ends : /\ Len(inbox[Peer(e)]) <= Len(sent[e])
                            /\ \A i \in DOMAIN inbox[Peer(e)] : Same(inbox[Peer(e)][i], sent[e][i])

ChanInv == PipeInv /\ SentInv /\ MatchInv /\ FrameInv

-----------------------------------------------------------------------------
(* Sequences of messages and the cells they make.                          *)

\* More cells arrive, each in its place.
LEMMA FramedGrow ==
  ASSUME NEW snt \in Seq(MessageType), NEW S,
         NEW st \in Seq(CellType), NEW st2 \in Seq(CellType), Framed(snt, st, S),
         Len(st2) >= Len(st), Len(st2) < S[Len(snt) + 1],
         \A i \in 1..Len(st) : st2[i] = st[i],
         \A k \in 1..Len(snt), i \in Len(st) + 1..Len(st2) :
            /\ i = S[k] => st2[i] = HeaderCell(snt[k])
            /\ S[k] < i /\ i < S[k + 1] => st2[i] = snt[k].body[i - S[k]]
  PROVE  Framed(snt, st2, S)
<1>1. Len(st) \in Nat /\ Len(st2) \in Nat
  OBVIOUS
<1>2. ASSUME NEW k \in 1..Len(snt), NEW i \in 1..Len(st2)
      PROVE  /\ i = S[k] => st2[i] = HeaderCell(snt[k])
             /\ S[k] < i /\ i < S[k + 1] => st2[i] = snt[k].body[i - S[k]]
  <2>1. CASE i \in 1..Len(st)
    BY <2>1 DEF Framed
  <2>2. CASE i \notin 1..Len(st)
    <3>1. i \in Len(st) + 1..Len(st2)
      BY <1>1, <2>2
    <3> QED
      BY <3>1
  <2> QED
    BY <2>1, <2>2
<1> QED
  BY <1>2 DEF Framed

\* The first d cells are taken.
LEMMA FramedTake ==
  ASSUME NEW snt \in Seq(MessageType), NEW S,
         NEW st \in Seq(CellType), NEW st2 \in Seq(CellType), Framed(snt, st, S),
         NEW d \in Nat, Len(st2) = Len(st) - d,
         \A i \in 1..Len(st) - d : st2[i] = st[d + i]
  PROVE  Framed(snt, st2, [k \in 1..Len(snt) + 1 |-> S[k] - d])
<1> DEFINE N == Len(snt)
           Z == [k \in 1..N + 1 |-> S[k] - d]
<1>1. N \in Nat /\ Len(st) \in Nat /\ Len(st2) \in Nat
  OBVIOUS
<1>2. \A k \in 1..N + 1 : S[k] \in Int /\ Z[k] = S[k] - d
  BY DEF Framed
<1>3. \A k \in 1..N : k \in 1..N + 1 /\ k + 1 \in 1..N + 1 /\ Len(snt[k].body) \in Nat
  <2>1. \A k \in 1..N : k \in 1..N + 1 /\ k + 1 \in 1..N + 1
    BY <1>1
  <2>2. \A k \in 1..N : snt[k] \in MessageType
    OBVIOUS
  <2>3. \A m \in MessageType : Len(m.body) \in Nat
    BY DEF MessageType
  <2> QED
    BY <2>1, <2>2, <2>3
<1>4. Z \in [1..N + 1 -> Int]
  BY <1>2
<1> HIDE DEF Z
<1>5. \A k \in 1..N : Z[k + 1] = Z[k] + 1 + Len(snt[k].body)
  <2> SUFFICES ASSUME NEW k \in 1..N PROVE Z[k + 1] = Z[k] + 1 + Len(snt[k].body)
    OBVIOUS
  <2>1. S[k + 1] = S[k] + 1 + Len(snt[k].body)
    BY DEF Framed
  <2>2. Z[k + 1] = S[k + 1] - d /\ Z[k] = S[k] - d /\ S[k] \in Int /\ Len(snt[k].body) \in Nat
    BY <1>2, <1>3
  <2>3. \A a \in Int, b \in Int, l \in Nat : b = a + 1 + l => b - d = (a - d) + 1 + l
    OBVIOUS
  <2>4. S[k + 1] \in Int
    BY <1>2, <1>3
  <2> HIDE DEF N
  <2>5. S[k + 1] - d = (S[k] - d) + 1 + Len(snt[k].body)
    BY <2>1, <2>2, <2>3, <2>4
  <2> QED
    BY <2>2, <2>5
<1>6. \A k, l \in 1..N + 1 : k < l => Z[k] < Z[l]
  <2> SUFFICES ASSUME NEW k \in 1..N + 1, NEW l \in 1..N + 1, k < l PROVE Z[k] < Z[l]
    OBVIOUS
  <2>1. S[k] < S[l]
    BY DEF Framed
  <2> QED
    BY <1>2, <2>1
<1>7. Len(st2) < Z[N + 1]
  <2>1. Len(st) < S[N + 1] /\ N + 1 \in 1..N + 1
    BY <1>1 DEF Framed
  <2> QED
    BY <1>1, <1>2, <2>1
<1>8. ASSUME NEW k \in 1..N, NEW i \in 1..Len(st2)
      PROVE  /\ i = Z[k] => st2[i] = HeaderCell(snt[k])
             /\ Z[k] < i /\ i < Z[k + 1] => st2[i] = snt[k].body[i - Z[k]]
  <2>1. i \in 1..Len(st) - d /\ d + i \in 1..Len(st)
    BY <1>1
  <2>2. st2[i] = st[d + i]
    BY <2>1
  <2>3. /\ d + i = S[k] => st[d + i] = HeaderCell(snt[k])
        /\ S[k] < d + i /\ d + i < S[k + 1] => st[d + i] = snt[k].body[(d + i) - S[k]]
    BY <2>1 DEF Framed
  <2>4. Z[k + 1] = S[k + 1] - d /\ Z[k] = S[k] - d /\ S[k] \in Int /\ S[k + 1] \in Int /\ i \in Int
    BY <1>2, <1>3
  <2>5. /\ i = Z[k] => d + i = S[k]
        /\ Z[k] < i => S[k] < d + i
        /\ i < Z[k + 1] => d + i < S[k + 1]
        /\ i - Z[k] = (d + i) - S[k]
    <3>1. \A a \in Int, b \in Int, j \in Int :
            /\ j = a - d => d + j = a
            /\ a - d < j => a < d + j
            /\ j < b - d => d + j < b
            /\ j - (a - d) = (d + j) - a
      OBVIOUS
    <3> HIDE DEF N
    <3>2. /\ i = S[k] - d => d + i = S[k]
          /\ S[k] - d < i => S[k] < d + i
          /\ i < S[k + 1] - d => d + i < S[k + 1]
          /\ i - (S[k] - d) = (d + i) - S[k]
      BY <2>4, <3>1
    <3> QED
      BY <2>4, <3>2
  <2> QED
    BY <2>2, <2>3, <2>5
<1>9. Framed(snt, st2, Z)
  BY <1>4, <1>5, <1>6, <1>7, <1>8 DEF Framed
<1> QED
  BY <1>9 DEF Z

\* One more message is sent.
Longer(S, n, m) == [k \in 1..n + 2 |-> IF k <= n + 1 THEN S[k] ELSE S[n + 1] + 1 + Len(m.body)]

LEMMA FramedSend ==
  ASSUME NEW snt \in Seq(MessageType), NEW S, NEW st \in Seq(CellType), Framed(snt, st, S),
         NEW m \in MessageType
  PROVE  /\ Framed(Append(snt, m), st, Longer(S, Len(snt), m))
         /\ \A k \in 1..Len(snt) + 1 : Longer(S, Len(snt), m)[k] = S[k]
<1> DEFINE N == Len(snt)
           Z == Longer(S, N, m)
           more == Append(snt, m)
<1>1. N \in Nat /\ Len(st) \in Nat /\ Len(m.body) \in Nat
  BY DEF MessageType
<1>2. /\ Len(more) = N + 1
      /\ \A k \in 1..N : more[k] = snt[k]
      /\ more[N + 1] = m
  OBVIOUS
<1>3. \A k \in 1..N + 1 : S[k] \in Int /\ Z[k] = S[k] /\ k \in 1..N + 2
  <2>1. \A k \in 1..N + 1 : k <= N + 1 /\ k \in 1..N + 2
    BY <1>1
  <2>2. \A k \in 1..N + 1 : S[k] \in Int
    BY DEF Framed
  <2> HIDE DEF N
  <2> QED
    BY <2>1, <2>2 DEF Longer
<1>4. Z[N + 2] = S[N + 1] + 1 + Len(m.body) /\ N + 1 \in 1..N + 1 /\ N + 2 \in 1..N + 2
  BY <1>1 DEF Longer
<1>5. S[N + 1] \in Int /\ Z[N + 2] \in Int /\ S[N + 1] < Z[N + 2]
  BY <1>1, <1>3, <1>4
<1>a. \A k \in 1..N + 2 : k \in 1..N + 1 \/ k = N + 2
  BY <1>1
<1>6. Z \in [1..N + 2 -> Int]
  <2>1. \A k \in 1..N + 2 : Z[k] \in Int
    BY <1>3, <1>5, <1>a
  <2> QED
    BY <2>1 DEF Longer
<1>7. \A k \in 1..N + 1 : Z[k + 1] = Z[k] + 1 + Len(more[k].body)
  <2> SUFFICES ASSUME NEW k \in 1..N + 1 PROVE Z[k + 1] = Z[k] + 1 + Len(more[k].body)
    OBVIOUS
  <2>1. CASE k \in 1..N
    <3>1. S[k + 1] = S[k] + 1 + Len(snt[k].body)
      BY <2>1 DEF Framed
    <3>2. k \in 1..N + 1 /\ k + 1 \in 1..N + 1
      BY <2>1, <1>1
    <3>3. Z[k] = S[k] /\ Z[k + 1] = S[k + 1] /\ more[k] = snt[k]
      BY <3>2, <1>3, <1>2, <2>1
    <3> QED
      BY <3>1, <3>3
  <2>2. CASE k = N + 1
    <3>1. Z[k] = S[N + 1] /\ more[k] = m /\ k + 1 = N + 2
      BY <2>2, <1>1, <1>2, <1>3, <1>4
    <3> QED
      BY <3>1, <1>4
  <2> QED
    BY <2>1, <2>2, <1>1
<1>8. \A k, l \in 1..N + 2 : k < l => Z[k] < Z[l]
  <2> SUFFICES ASSUME NEW k \in 1..N + 2, NEW l \in 1..N + 2, k < l PROVE Z[k] < Z[l]
    OBVIOUS
  <2>1. k \in 1..N + 1
    BY <1>1
  <2>2. CASE l \in 1..N + 1
    BY <2>1, <2>2, <1>3 DEF Framed
  <2>3. CASE l = N + 2
    <3>1. S[k] = S[N + 1] \/ S[k] < S[N + 1]
      <4>1. k = N + 1 \/ k < N + 1
        BY <2>1, <1>1
      <4> QED
        BY <4>1, <2>1, <1>4 DEF Framed
    <3>2. Z[k] = S[k] /\ S[k] \in Int
      BY <2>1, <1>3
    <3> QED
      BY <3>1, <3>2, <2>3, <1>5
  <2> QED
    BY <2>2, <2>3, <1>a
<1>9. Len(st) < Z[N + 2] /\ Len(st) < S[N + 1]
  <2>1. Len(st) < S[N + 1]
    BY DEF Framed
  <2> QED
    BY <2>1, <1>1, <1>5
<1>10. ASSUME NEW k \in 1..N + 1, NEW i \in 1..Len(st)
       PROVE  /\ i = Z[k] => st[i] = HeaderCell(more[k])
              /\ Z[k] < i /\ i < Z[k + 1] => st[i] = more[k].body[i - Z[k]]
  <2>1. CASE k \in 1..N
    <3>2. k \in 1..N + 1 /\ k + 1 \in 1..N + 1
      BY <2>1, <1>1
    <3>3. Z[k] = S[k] /\ Z[k + 1] = S[k + 1] /\ more[k] = snt[k]
      BY <3>2, <1>3, <1>2, <2>1
    <3> QED
      BY <2>1, <3>3 DEF Framed
  <2>2. CASE k = N + 1
    <3>1. Z[k] = S[N + 1]
      BY <2>2, <1>3, <1>4
    <3>2. ~(i = Z[k]) /\ ~(Z[k] < i)
      BY <3>1, <1>1, <1>5, <1>9
    <3> QED
      BY <3>2
  <2> QED
    BY <2>1, <2>2, <1>1
<1>11. Framed(more, st, Z)
  <2>1. Len(more) + 1 = N + 2
    BY <1>1, <1>2
  <2> HIDE DEF more, Z, N
  <2> QED
    BY <1>2, <2>1, <1>6, <1>7, <1>8, <1>9, <1>10 DEF Framed
<1> QED
  BY <1>3, <1>11

-----------------------------------------------------------------------------
(* Which steps touch what is said of the messages of an end.               *)

LEMMA EndTypes ==
  ASSUME TypeOK, NEW e \in Ends
  PROVE  /\ sent[e] \in Seq(MessageType) /\ posted[e] \in Seq(TaskType)
         /\ qOut[e] \in Seq(MessageType) /\ wq[e] \in Seq(Ops) /\ wdone[e] \in Seq(WriteKinds)
         /\ stream[e] \in Seq(CellType) /\ inbox[e] \in Seq(MessageType)
         /\ tmpIn[e] \in MessageType /\ read[e] \in ReadKinds
BY DEF TypeOK, Ops

SenderSame(e) == /\ sent'[e] = sent[e] /\ posted'[e] = posted[e] /\ qOut'[e] = qOut[e]
                 /\ wq'[e] = wq[e] /\ wdone'[e] = wdone[e]

ReaderSame(p) == /\ stream'[p] = stream[p] /\ read'[p] = read[p]
                 /\ inbox'[p] = inbox[p] /\ tmpIn'[p] = tmpIn[p]

SenderAct(e) == \/ RunSend(e) \/ RunClose(e)
                \/ OnValidationWritten(e) \/ OnMessageWritten(e) \/ OnWriteError(e)
                \/ \E m \in Outgoing[e] : Send(e, m)
                \/ e = "client" /\ (AnswerValidation \/ Disconnect)
                \/ e = "server" /\ (Bounce \/ \E g \in Greetings : Accept(g))

ReaderAct(p) == \/ OnHeader(p) \/ OnBody(p) \/ OnReadError(p)
                \/ p = "client" /\ (OnConnect \/ OnConnectError \/ AnswerValidation
                                    \/ OnValidationWritten("client"))
                \/ p = "server" /\ (CheckValidation \/ \E g \in Greetings : Accept(g))

\* A step is one of the sender, one of the reader, one of the network between them, or
\* none of these.
LEMMA SideStep ==
  ASSUME PipeInv, [Next]_vars, NEW e \in Ends
  PROVE  \/ SenderSame(e) /\ ReaderSame(Peer(e))
         \/ Transfer(e)
         \/ SenderAct(e) /\ ReaderSame(Peer(e))
         \/ ReaderAct(Peer(e)) /\ SenderSame(e)
<1> DEFINE p == Peer(e)
<1>e. /\ p \in Ends /\ p # e /\ \A d \in Ends : d = e \/ d = p
      /\ (e = "client" /\ p = "server") \/ (e = "server" /\ p = "client")
  <2>1. CASE e = "client"
    BY <2>1, EndsFacts
  <2>2. CASE e = "server"
    BY <2>2, EndsFacts
  <2> QED
    BY <2>1, <2>2, EndsFacts
<1> HIDE DEF p
<1>t. TypeOK
  BY DEF PipeInv
<1> SUFFICES \/ SenderSame(e) /\ ReaderSame(p)
             \/ Transfer(e)
             \/ SenderAct(e) /\ ReaderSame(p)
             \/ ReaderAct(p) /\ SenderSame(e)
  BY DEF p
<1> USE DEF SenderSame, ReaderSame, netVars, readVars, outVars, appVars, hsVars
<1>1. CASE Transfer(p)
  <2>1. UNCHANGED <<sent, posted, qOut, read, inbox, tmpIn>>
    BY <1>1 DEF Transfer
  <2>2. stream'[p] = stream[p]
    <3>1. stream' = stream \/ \E x : stream' = [stream EXCEPT ![Peer(p)] = x]
      BY <1>1 DEF Transfer
    <3>2. Peer(p) = e
      BY <1>e, EndsFacts
    <3> QED
      BY <3>1, <3>2, <1>e, <1>t DEF TypeOK
  <2>3. wq'[e] = wq[e] /\ wdone'[e] = wdone[e]
    <3>1. \E x : wq' = [wq EXCEPT ![p] = x]
      BY <1>1 DEF Transfer
    <3>2. wdone' = wdone \/ \E x : wdone' = [wdone EXCEPT ![p] = x]
      BY <1>1 DEF Transfer
    <3> QED
      BY <3>1, <3>2, <1>e, <1>t DEF TypeOK
  <2> QED
    BY <2>1, <2>2, <2>3
<1>2. ASSUME NEW d \in Ends, ReadComplete(d) PROVE SenderSame(e) /\ ReaderSame(p)
  BY <1>2 DEF ReadComplete
<1>3. CASE RunSend(e) \/ RunClose(e) \/ OnMessageWritten(e) \/ OnWriteError(e)
  BY <1>3 DEF SenderAct, RunSend, RunClose, OnMessageWritten, OnWriteError
<1>4. CASE RunSend(p)
  <2>1. UNCHANGED <<sent, stream, read, inbox, tmpIn, wdone>>
    BY <1>4 DEF RunSend
  <2>2. posted'[e] = posted[e] /\ qOut'[e] = qOut[e]
    BY <1>4, <1>e, <1>t DEF RunSend, TypeOK
  <2>3. wq'[e] = wq[e]
    BY <1>4, <1>e, <1>t DEF RunSend, TypeOK
  <2> QED
    BY <2>1, <2>2, <2>3
<1>5. CASE RunClose(p)
  BY <1>5, <1>e, <1>t DEF RunClose, TypeOK
<1>6. CASE OnMessageWritten(p)
  <2>1. UNCHANGED <<sent, posted, stream, read, inbox, tmpIn>>
    BY <1>6 DEF OnMessageWritten
  <2>2. wdone'[e] = wdone[e]
    BY <1>6, <1>e, <1>t DEF OnMessageWritten, TypeOK
  <2>3. qOut'[e] = qOut[e]
    BY <1>6, <1>e, <1>t DEF OnMessageWritten, TypeOK
  <2>4. wq'[e] = wq[e]
    <3>1. \E x : wq' = [wq EXCEPT ![p] = x]
      BY <1>6 DEF OnMessageWritten
    <3> QED
      BY <3>1, <1>e, <1>t DEF TypeOK
  <2> QED
    BY <2>1, <2>2, <2>3, <2>4
<1>7. CASE OnWriteError(p)
  BY <1>7, <1>e, <1>t DEF OnWriteError, TypeOK
<1>8. CASE OnValidationWritten(e)
  <2>1. read'[p] = read[p]
    BY <1>8, <1>e, <1>t DEF OnValidationWritten, TypeOK
  <2> QED
    BY <1>8, <2>1 DEF OnValidationWritten, SenderAct
<1>9. CASE OnValidationWritten(p)
  <2>1. wdone'[e] = wdone[e] /\ UNCHANGED <<sent, posted, qOut, wq, stream, inbox, tmpIn>>
    BY <1>9, <1>e, <1>t DEF OnValidationWritten, TypeOK
  <2>2. p = "client" \/ read' = read
    BY <1>9 DEF OnValidationWritten
  <2> QED
    BY <1>9, <2>1, <2>2 DEF ReaderAct
<1>10. CASE OnHeader(e) \/ OnBody(e) \/ OnReadError(e)
  <2>1. UNCHANGED <<sent, posted, qOut, wq, wdone>>
    BY <1>10 DEF OnHeader, OnBody, OnReadError
  <2>2. /\ stream' = stream \/ \E x : stream' = [stream EXCEPT ![e] = x]
        /\ \E x : read' = [read EXCEPT ![e] = x]
        /\ inbox' = inbox \/ \E x : inbox' = [inbox EXCEPT ![e] = x]
        /\ tmpIn' = tmpIn \/ \E x : tmpIn' = [tmpIn EXCEPT ![e] = x]
    BY <1>10 DEF OnHeader, OnBody, OnReadError, Take, AddToIncoming
  <2>3. stream'[p] = stream[p] /\ read'[p] = read[p]
    BY <2>2, <1>e, <1>t DEF TypeOK
  <2>4. inbox'[p] = inbox[p] /\ tmpIn'[p] = tmpIn[p]
    BY <2>2, <1>e, <1>t DEF TypeOK
  <2> QED
    BY <2>1, <2>3, <2>4
<1>11. CASE OnHeader(p) \/ OnBody(p) \/ OnReadError(p)
  BY <1>11 DEF OnHeader, OnBody, OnReadError, ReaderAct
<1>12. CASE OnConnect \/ OnConnectError
  <2>1. UNCHANGED <<sent, posted, qOut, wq, wdone, stream, inbox, tmpIn>>
    BY <1>12 DEF OnConnect, OnConnectError
  <2>2. e = "client" => read'[p] = read[p]
    BY <1>12, <1>e, <1>t DEF OnConnect, OnConnectError, TypeOK
  <2> QED
    BY <1>12, <1>e, <2>1, <2>2 DEF ReaderAct
<1>13. CASE AnswerValidation
  <2>1. UNCHANGED <<sent, posted, qOut, wdone, inbox, tmpIn>>
    BY <1>13 DEF AnswerValidation
  <2>2. e = "client" => read'[p] = read[p]
    BY <1>13, <1>e, <1>t DEF AnswerValidation, TypeOK
  <2>3. e = "client" => stream'[p] = stream[p]
    BY <1>13, <1>e, <1>t DEF AnswerValidation, Take, TypeOK
  <2>4. e = "server" => wq'[e] = wq[e]
    BY <1>13, <1>e, <1>t DEF AnswerValidation, TypeOK
  <2> QED
    BY <1>13, <1>e, <2>1, <2>2, <2>3, <2>4 DEF SenderAct, ReaderAct
<1>14. CASE CheckValidation
  <2>1. UNCHANGED <<sent, posted, qOut, wq, wdone, inbox, tmpIn>>
    BY <1>14 DEF CheckValidation
  <2>2. e = "server" => read'[p] = read[p]
    BY <1>14, <1>e, <1>t DEF CheckValidation, TypeOK
  <2>3. e = "server" => stream'[p] = stream[p]
    BY <1>14, <1>e, <1>t DEF CheckValidation, Take, TypeOK
  <2> QED
    BY <1>14, <1>e, <2>1, <2>2, <2>3 DEF ReaderAct
<1>15. ASSUME NEW g \in Greetings, Accept(g)
       PROVE  \/ SenderAct(e) /\ ReaderSame(p)
              \/ ReaderAct(p) /\ SenderSame(e)
  <2>1. UNCHANGED <<stream, inbox, tmpIn, qOut, wdone>>
    BY <1>15 DEF Accept
  <2>2. e = "server" => read'[p] = read[p]
    BY <1>15, <1>e, <1>t DEF Accept, ConnectToClient, TypeOK
  <2>3. e = "client" => sent'[e] = sent[e] /\ posted'[e] = posted[e]
    BY <1>15, <1>e, <1>t DEF Accept, TypeOK
  <2>4. e = "client" => wq'[e] = wq[e]
    BY <1>15, <1>e, <1>t DEF Accept, ConnectToClient, TypeOK
  <2>5. CASE e = "server"
    <3>1. SenderAct(e)
      BY <1>15, <2>5 DEF SenderAct
    <3>2. ReaderSame(p)
      BY <2>1, <2>2, <2>5
    <3> QED
      BY <3>1, <3>2
  <2>6. CASE e = "client" /\ p = "server"
    <3>1. ReaderAct(p)
      BY <1>15, <2>6 DEF ReaderAct
    <3> QED
      BY <3>1, <2>1, <2>3, <2>4, <2>6
  <2> QED
    BY <1>e, <2>5, <2>6
<1>16. CASE Deny \/ Establish \/ Break
  BY <1>16 DEF Deny, Establish, Break
<1>17. ASSUME NEW d \in Ends, NEW m, Post(d, m), UNCHANGED <<netVars, readVars, outVars>>
       PROVE  ReaderSame(p) /\ (d # e => SenderSame(e))
  <2>1. UNCHANGED <<stream, read, inbox, tmpIn, qOut, wq, wdone>>
    BY <1>17
  <2>2. d # e => sent'[e] = sent[e] /\ posted'[e] = posted[e]
    BY <1>17, <1>t DEF Post, TypeOK
  <2> QED
    BY <2>1, <2>2
<1>18. ASSUME NEW d \in Ends, NEW m \in Outgoing[d], Send(d, m)
       PROVE  ReaderSame(p) /\ (SenderSame(e) \/ SenderAct(e))
  <2>1. ReaderSame(p) /\ (d # e => SenderSame(e))
    BY <1>17, <1>18 DEF Send
  <2> QED
    BY <1>18, <2>1 DEF SenderAct
<1>19. CASE Bounce
  <2>1. PICK m : Post("server", m) /\ UNCHANGED <<netVars, readVars, outVars>>
    BY <1>19 DEF Bounce
  <2>2. ReaderSame(p) /\ ("server" # e => SenderSame(e))
    BY <1>17, <2>1, EndsFacts
  <2> QED
    BY <1>19, <2>2 DEF SenderAct
<1>20. CASE Disconnect
  <2>1. ReaderSame(p) /\ (e = "server" => SenderSame(e))
    BY <1>20, <1>t DEF Disconnect, TypeOK
  <2> QED
    BY <1>20, <1>e, <2>1 DEF SenderAct
<1>21. CASE UNCHANGED vars
  BY <1>21 DEF vars
<1> QED
  BY <1>e, <1>1, <1>2, <1>3, <1>4, <1>5, <1>6, <1>7, <1>8, <1>9, <1>10, <1>11, <1>12, <1>13, <1>14,
     <1>15, <1>16, <1>18, <1>19, <1>20, <1>21
     DEF Next, Reactor, Handler, ClientHandshake, ServerHandshake, Application

\* The connection is made once, each socket closes for good, and a client that reads messages
\* or has stopped never waits for the handshake again.
LEMMA FlagsStay ==
  ASSUME PipeInv, [Next]_vars
  PROVE  /\ link # "down" => link' # "down"
         /\ sock["server"] # "none" => sock'["server"] # "none"
         /\ sock'["server"] = "open" => sock["server"] = "open" \/ \E g \in Greetings : Accept(g)
         /\ \A d \in Ends : sock[d] = "closed" => sock'[d] = "closed"
         /\ read["client"] \notin {"connect", "validation"}
              => read'["client"] \notin {"connect", "validation"}
<1>t. /\ TypeOK /\ \A d \in Ends : d = "client" \/ d = "server"
      /\ "client" \in Ends /\ "server" \in Ends
  BY EndsFacts DEF PipeInv
<1>1. link # "down" => link' # "down"
  <2>1. UNCHANGED link \/ Establish \/ Break
    BY DEF Next, Reactor, Handler, ClientHandshake, ServerHandshake, Application, Transfer,
       ReadComplete, RunSend, RunClose, OnHeader, OnBody, OnReadError, OnValidationWritten,
       OnMessageWritten, OnWriteError, OnConnect, OnConnectError, AnswerValidation, Accept, Deny,
       CheckValidation, Send, Bounce, Disconnect, netVars, vars
  <2> QED
    BY <2>1 DEF Establish, Break
<1>2. \/ UNCHANGED sock
      \/ \E d \in Ends : sock' = [sock EXCEPT ![d] = "closed"]
      \/ /\ sock["server"] = "none" /\ sock' = [sock EXCEPT !["server"] = "open"]
         /\ \E g \in Greetings : Accept(g)
  BY <1>t DEF Next, Reactor, Handler, ClientHandshake, ServerHandshake, Application, Transfer,
     ReadComplete, RunSend, RunClose, OnHeader, OnBody, OnReadError, OnValidationWritten,
     OnMessageWritten, OnWriteError, OnConnect, OnConnectError, AnswerValidation, Accept, Deny,
     CheckValidation, Send, Bounce, Disconnect, Establish, Break, vars
<1>3. sock \in [Ends -> {"none", "open", "closed"}]
  BY <1>t DEF TypeOK
<1>4. /\ sock["server"] # "none" => sock'["server"] # "none"
      /\ sock'["server"] = "open" => sock["server"] = "open" \/ \E g \in Greetings : Accept(g)
      /\ \A d \in Ends : sock[d] = "closed" => sock'[d] = "closed"
  <2>1. CASE UNCHANGED sock
    BY <2>1
  <2>2. CASE \E d \in Ends : sock' = [sock EXCEPT ![d] = "closed"]
    BY <2>2, <1>3, <1>t
  <2>3. CASE /\ sock["server"] = "none" /\ sock' = [sock EXCEPT !["server"] = "open"]
             /\ \E g \in Greetings : Accept(g)
    BY <2>3, <1>3, <1>t
  <2> QED
    BY <1>2, <2>1, <2>2, <2>3
<1>5. read["client"] \notin {"connect", "validation"}
        => read'["client"] \notin {"connect", "validation"}
  <2>1. \/ ReaderSame("client") \/ Transfer("server") \/ ReaderAct("client")
    BY SideStep, EndsFacts
  <2>2. CASE ReaderSame("client")
    BY <2>2 DEF ReaderSame
  <2>3. CASE Transfer("server")
    BY <2>3 DEF Transfer, readVars
  <2>4. CASE ReaderAct("client")
    <3>1. \/ read["client"] \in {"connect", "validation"}
          \/ \E kind \in {"none", "header", "body"} : read' = [read EXCEPT !["client"] = kind]
      BY <2>4 DEF ReaderAct, OnHeader, OnBody, OnReadError, AddToIncoming, OnConnect,
         OnConnectError, AnswerValidation, OnValidationWritten, Take
    <3> QED
      BY <3>1, <1>t DEF TypeOK
  <2> QED
    BY <2>1, <2>2, <2>3, <2>4
<1> QED
  BY <1>1, <1>4, <1>5

\* An end that has stopped reading does not begin again.
LEMMA StoppedStays ==
  ASSUME PipeInv, [Next]_vars, NEW p \in Ends, Stopped(p) PROVE Stopped(p)'
<1>t. TypeOK /\ Peer(p) \in Ends /\ Peer(Peer(p)) = p /\ (p = "client" \/ p = "server")
      /\ "client" \in Ends
  BY EndsFacts DEF PipeInv
<1>1. sock'[p] = "closed"
  BY FlagsStay DEF Stopped
<1>2. read'[p] = "none"
  <2>1. ReaderSame(p) \/ Transfer(Peer(p)) \/ ReaderAct(p)
    BY SideStep, <1>t
  <2>2. CASE ReaderSame(p)
    BY <2>2 DEF ReaderSame, Stopped
  <2>3. CASE Transfer(Peer(p))
    BY <2>3 DEF Transfer, readVars, Stopped
  <2>4. CASE ReaderAct(p)
    <3>1. ~OnValidationWritten("client") \/ p = "server"
      BY GreetingSteps, <1>t DEF Stopped
    <3> QED
      BY <2>4, <3>1, <1>t DEF Stopped, ReaderAct, OnHeader, OnBody, OnReadError, OnConnect,
         OnConnectError, AnswerValidation, CheckValidation, Accept, Take
  <2> QED
    BY <2>1, <2>2, <2>3, <2>4
<1>3. ASSUME p = "client" PROVE ~Greeting(p)'
  <2>1. SenderSame(p) \/ Transfer(p) \/ SenderAct(p)
    BY SideStep
  <2>2. CASE SenderSame(p)
    BY <2>2, <1>3 DEF SenderSame, Greeting, Stopped
  <2>3. ~Transfer(p)
    BY DEF Transfer, IsConnected, Stopped
  <2>4. CASE SenderAct(p)
    <3>1. CASE RunSend(p) \/ OnMessageWritten(p) \/ OnValidationWritten(p) \/ OnWriteError(p)
      BY <3>1, <1>3, GreetingSteps DEF Stopped
    <3>2. CASE RunClose(p) \/ Disconnect \/ \E m \in Outgoing[p] : Send(p, m)
      <4>1. UNCHANGED <<wq, wdone>>
        BY <3>2 DEF RunClose, Disconnect, Send, outVars
      <4> QED
        BY <4>1, <1>3 DEF Greeting, Stopped
    <3>3. ~AnswerValidation
      BY <1>3 DEF AnswerValidation, Take, Stopped
    <3> QED
      BY <2>4, <1>3, <3>1, <3>2, <3>3 DEF SenderAct
  <2> QED
    BY <2>1, <2>2, <2>3, <2>4
<1> QED
  BY <1>1, <1>2, <1>3 DEF Stopped

\* A server whose client did not answer first finds it out, or stops.
LEMMA EarlyStays ==
  ASSUME PipeInv, [Next]_vars, NEW p \in Ends, Early(p) PROVE Early(p)' \/ Stopped(p)'
<1>t. /\ TypeOK /\ p = "server" /\ Peer(p) = "client" /\ Peer("client") = "server"
      /\ p \in Ends /\ "client" \in Ends
  BY EndsFacts DEF PipeInv, Early
<1>1. ReaderSame(p) \/ Transfer("client") \/ ReaderAct(p)
  BY SideStep, <1>t
<1>2. CASE ReaderSame(p)
  BY <1>2 DEF ReaderSame, Early
<1>3. CASE Transfer("client")
  <2>1. read' = read
    BY <1>3 DEF Transfer, readVars
  <2>2. stream'[p] # <<>> /\ Head(stream'[p]) = Head(stream[p])
    BY <1>3, <1>t, StreamGrows DEF Early
  <2>3. stream[p] \in Seq(CellType)
    BY <1>t DEF TypeOK
  <2>4. stream'[p][1] = stream[p][1]
    BY <2>2
  <2> QED
    BY <2>1, <2>2, <2>4 DEF Early
<1>4. CASE ReaderAct(p)
  <2>1. CASE OnHeader(p) \/ OnBody(p)
    BY <2>1 DEF OnHeader, OnBody, Take, Early
  <2>2. CASE OnReadError(p)
    BY <2>2, <1>t DEF OnReadError, Stopped, TypeOK
  <2>3. CASE CheckValidation
    <3>1. Take("server", "validation")
      BY <2>3 DEF CheckValidation
    <3>2. Head(stream["server"]) # HandshakeCheck
      <4>1. HandshakeCheck \in NonceCells
        BY <1>t, HandshakeAssumption DEF HandshakeCheck, NonceCell, NonceCells, TypeOK
      <4>2. Head(stream["server"]) = stream["server"][1]
        BY <3>1, <1>t, TakeFacts
      <4> QED
        BY <4>1, <4>2, <1>t DEF Early
    <3>3. sock' = [sock EXCEPT !["server"] = "closed"] /\ read' = [read EXCEPT !["server"] = "none"]
      BY <2>3, <3>2 DEF CheckValidation, AfterCheck
    <3> QED
      BY <3>3, <1>t DEF Stopped, TypeOK
  <2>4. ASSUME NEW g \in Greetings, Accept(g) PROVE Early(p)'
    <3>1. stream' = stream /\ read'["server"] = "validation"
      BY <2>4, <1>t DEF Accept, ConnectToClient, netVars, TypeOK
    <3> QED
      BY <3>1, <1>t DEF Early
  <2> QED
    BY <1>4, <1>t, <2>1, <2>2, <2>3, <2>4 DEF ReaderAct
<1> QED
  BY <1>1, <1>2, <1>3, <1>4

-----------------------------------------------------------------------------
(* The steps of the reader.                                                *)

\* The header that is next is the one of the next message.
LEMMA NextHeader ==
  ASSUME NEW snt \in Seq(MessageType), NEW st \in Seq(CellType), NEW S, Framed(snt, st, S),
         NEW n \in Nat, n <= Len(snt), S[n + 1] = 1, st # <<>>
  PROVE  n < Len(snt) /\ st[1] = HeaderCell(snt[n + 1])
<1>1. Len(snt) \in Nat /\ Len(st) \in Nat /\ Len(st) >= 1
  BY EmptySeq
<1>2. n < Len(snt)
  <2>1. Len(st) < S[Len(snt) + 1]
    BY DEF Framed
  <2>2. n # Len(snt)
    BY <1>1, <2>1
  <2> QED
    BY <1>1, <2>2
<1>3. n + 1 \in 1..Len(snt) /\ 1 \in 1..Len(st)
  BY <1>1, <1>2
<1> QED
  BY <1>2, <1>3 DEF Framed

\* What has been written stays written when cells are taken ...
LEMMA WritesTake ==
  ASSUME PipeInv, [Next]_vars, NEW e \in Ends, SenderSame(e), NEW S, Writes(e, S),
         S \in [1..Len(sent[e]) + 1 -> Int],
         NEW d \in Nat \ {0}, d <= Len(stream[Peer(e)]),
         Len(stream'[Peer(e)]) = Len(stream[Peer(e)]) - d,
         NEW Z, \A k \in 1..Len(sent[e]) + 1 : Z[k] = S[k] - d
  PROVE  Writes(e, Z)'
<1> DEFINE p == Peer(e)
           N == Len(sent[e])
<1>t. /\ TypeOK /\ p \in Ends /\ WriteOK(e)
      /\ stream[p] \in Seq(CellType) /\ Len(stream[p]) \in Nat /\ Len(stream'[p]) \in Int
      /\ N \in Nat /\ qOut[e] \in Seq(MessageType) /\ Len(qOut[e]) \in Nat
      /\ wq[e] \in Seq(Ops) /\ wdone[e] \in Seq(WriteKinds)
  <2>1. TypeOK /\ p \in Ends /\ WriteOK(e)
    BY EndsFacts DEF PipeInv
  <2>2. stream[p] \in Seq(CellType) /\ sent[e] \in Seq(MessageType) /\ qOut[e] \in Seq(MessageType)
        /\ wq[e] \in Seq(Ops) /\ wdone[e] \in Seq(WriteKinds)
    BY <2>1, EndTypes
  <2> QED
    BY <2>1, <2>2
<1>1. PICK n \in Nat : /\ Queued(e, n)
                       /\ \/ n = 0 /\ NothingWritten(e, S)
                          \/ Written(e, n, S)
  BY DEF Writes
<1>2. Written(e, n, S)
  <2>1. stream[p] # <<>>
    BY <1>t
  <2> QED
    BY <1>1, <2>1 DEF NothingWritten
<1>3. Queued(e, n)'
  BY <1>1 DEF Queued, Closing, SenderSame
<1>4. n + 1 \in 1..N + 1 /\ (qOut[e] # <<>> => n + 2 \in 1..N + 1)
  BY <1>1, <1>t DEF Queued
<1>5. S[n + 1] \in Int /\ Z[n + 1] = S[n + 1] - d
  BY <1>4
<1>6. qOut[e] # <<>> => S[n + 2] \in Int /\ Z[n + 2] = S[n + 2] - d
  BY <1>4
<1>7. (Len(stream[p]) + 1) - d = Len(stream'[p]) + 1
  BY <1>t
<1>a. ASSUME NEW o \in Nat, Len(stream[p]) + 1 = S[n + 1] + 1 + o
      PROVE  Len(stream'[p]) + 1 = Z[n + 1] + 1 + o
  <2>1. \A y \in Int : (y + 1 + o) - d = (y - d) + 1 + o
    OBVIOUS
  <2> HIDE DEF p, N
  <2>2. (S[n + 1] + 1 + o) - d = (S[n + 1] - d) + 1 + o
    BY <2>1, <1>5
  <2> QED
    BY <1>a, <1>5, <1>7, <2>2
<1>8. Written(e, n, Z)'
  <2>1. link' # "down" /\ (e = "server" => sock'[e] # "none")
        /\ (e = "client" => read'["client"] \notin {"connect", "validation"})
    BY <1>2, FlagsStay DEF Written
  <2>2. qOut'[e] = <<>> => Len(stream'[p]) + 1 = Z[n + 1]
    BY <1>2, <1>5, <1>7 DEF Written, SenderSame
  <2>3. ASSUME NEW i \in DOMAIN wq[e]
        PROVE  /\ wq[e][i].kind # "validation"
               /\ wq[e][i].kind = "header" => Len(stream'[p]) + 1 = Z[n + 1]
               /\ wq[e][i].kind = "body" => Len(stream'[p]) + 1 = Z[n + 1] + 1 + wq[e][i].off
    <3>0. wq[e][i] \in Ops
      BY <1>t
    <3>1. wq[e][i].off \in Nat
      BY <3>0 DEF Ops
    <3>2. /\ wq[e][i].kind # "validation"
          /\ wq[e][i].kind = "header" => Len(stream[p]) + 1 = S[n + 1]
          /\ wq[e][i].kind = "body" => Len(stream[p]) + 1 = S[n + 1] + 1 + wq[e][i].off
      BY <1>2 DEF Written
    <3>3. wq[e][i].kind = "body" => Len(stream'[p]) + 1 = Z[n + 1] + 1 + wq[e][i].off
      BY <3>1, <3>2, <1>a
    <3> QED
      BY <3>2, <3>3, <1>5, <1>7
  <2>4. ASSUME NEW i \in DOMAIN wdone[e]
        PROVE  /\ wdone[e][i] = "header" => Len(stream'[p]) + 1 = Z[n + 1] + 1
               /\ wdone[e][i] = "body" => Len(stream'[p]) + 1 = Z[n + 2]
    <3>1. /\ wdone[e][i] = "header" => Len(stream[p]) + 1 = S[n + 1] + 1
          /\ wdone[e][i] = "body" => Len(stream[p]) + 1 = S[n + 2]
      BY <1>2 DEF Written
    <3>2. wdone[e][i] = "body" => qOut[e] # <<>>
      BY <1>t DEF WriteOK, Busy, Some, MessageDone
    <3>3. wdone[e][i] = "header" => Len(stream'[p]) + 1 = Z[n + 1] + 1
      <4> HIDE DEF p, N
      <4>1. \A y \in Int : (y + 1) - d = (y - d) + 1
        OBVIOUS
      <4>2. (S[n + 1] + 1) - d = (S[n + 1] - d) + 1
        BY <4>1, <1>5
      <4> QED
        BY <3>1, <1>5, <1>7, <4>2
    <3> QED
      BY <3>1, <3>2, <3>3, <1>6, <1>7
  <2> QED
    BY <2>1, <2>2, <2>3, <2>4 DEF Written, SenderSame
<1> QED
  BY <1>3, <1>8 DEF Writes

\* ... and when nothing happens to it.
LEMMA WritesSame ==
  ASSUME PipeInv, [Next]_vars, NEW e \in Ends, SenderSame(e), NEW S, Writes(e, S),
         stream'[Peer(e)] = stream[Peer(e)]
  PROVE  Writes(e, S)'
<1>1. PICK n \in Nat : /\ Queued(e, n)
                       /\ \/ n = 0 /\ NothingWritten(e, S)
                          \/ Written(e, n, S)
  BY DEF Writes
<1>2. Queued(e, n)'
  BY <1>1 DEF Queued, Closing, SenderSame
<1>3. Written(e, n, S) => Written(e, n, S)'
  BY FlagsStay DEF Written, SenderSame
<1>4. NothingWritten(e, S) => NothingWritten(e, S)'
  <2>1. ASSUME e = "server", sock'["server"] = "open" PROVE sock["server"] = "open"
    <3>1. ASSUME NEW g \in Greetings, Accept(g) PROVE FALSE
      <4>1. wq["server"] = <<>>
        BY <3>1 DEF PipeInv, StartInv, Accept
      <4>2. wq'["server"] = <<Write("validation")>>
        BY <3>1, EndsFacts DEF PipeInv, TypeOK, Accept, ConnectToClient
      <4>3. wq'["server"] = wq["server"]
        BY <2>1 DEF SenderSame
      <4>4. \A x : <<x>> # <<>>
        OBVIOUS
      <4> QED
        BY <4>1, <4>2, <4>3, <4>4
    <3> QED
      BY <2>1, <3>1, FlagsStay
  <2> QED
    BY <2>1 DEF NothingWritten, SenderSame
<1> QED
  BY <1>1, <1>2, <1>3, <1>4 DEF Writes

\* What the reader takes shifts the places by as much.
LEMMA TakeShifts ==
  ASSUME PipeInv, [Next]_vars, NEW e \in Ends, SenderSame(e), NEW S,
         Framed(sent[e], stream[Peer(e)], S), Cut \/ Writes(e, S),
         NEW kind \in {"validation", "header", "body"}, Take(Peer(e), kind)
  PROVE  \E Z : /\ \A k \in 1..Len(sent[e]) + 1 : Z[k] = S[k] - Needed(Peer(e))
                /\ Framed(sent'[e], stream'[Peer(e)], Z)
                /\ Cut' \/ Writes(e, Z)'
<1> DEFINE p == Peer(e)
<1>t. TypeOK /\ p \in Ends /\ sent[e] \in Seq(MessageType) /\ stream[p] \in Seq(CellType)
      /\ Len(stream[p]) \in Nat
  <2>1. TypeOK /\ p \in Ends
    BY EndsFacts DEF PipeInv
  <2>2. sent[e] \in Seq(MessageType) /\ stream[p] \in Seq(CellType)
    BY <2>1, EndTypes
  <2> QED
    BY <2>1, <2>2
<1>d. PICK d \in Nat \ {0} : d = Needed(p)
  BY TakeFacts, <1>t
<1>Z. PICK Z : Z = [k \in 1..Len(sent[e]) + 1 |-> S[k] - d]
  OBVIOUS
<1>1. /\ d <= Len(stream[p])
      /\ stream'[p] = SubSeq(stream[p], d + 1, Len(stream[p]))
  BY <1>d, <1>t, TakeFacts DEF Take, TypeOK
<1>2. /\ stream'[p] \in Seq(CellType)
      /\ Len(stream'[p]) = Len(stream[p]) - d
      /\ \A i \in 1..(Len(stream[p]) - d) : stream'[p][i] = stream[p][d + i]
  <2>1. /\ SubSeq(stream[p], Needed(p) + 1, Len(stream[p])) \in Seq(CellType)
        /\ Len(SubSeq(stream[p], Needed(p) + 1, Len(stream[p]))) = Len(stream[p]) - Needed(p)
        /\ \A i \in 1..(Len(stream[p]) - Needed(p)) :
              SubSeq(stream[p], Needed(p) + 1, Len(stream[p]))[i] = stream[p][Needed(p) + i]
    BY <1>t, TakeFacts
  <2> QED
    BY <1>d, <1>1, <2>1
<1>3. Framed(sent[e], stream'[p], Z)
  <2>1. Framed(sent[e], stream'[p], [k \in 1..Len(sent[e]) + 1 |-> S[k] - d])
    <3>1. /\ sent[e] \in Seq(MessageType) /\ stream[p] \in Seq(CellType)
          /\ stream'[p] \in Seq(CellType) /\ Len(stream'[p]) = Len(stream[p]) - d
          /\ \A i \in 1..Len(stream[p]) - d : stream'[p][i] = stream[p][d + i]
      BY <1>2, <1>t
    <3>2. PICK snt \in Seq(MessageType), st \in Seq(CellType), st2 \in Seq(CellType) :
            /\ snt = sent[e] /\ st = stream[p] /\ st2 = stream'[p]
            /\ Len(st2) = Len(st) - d /\ \A i \in 1..Len(st) - d : st2[i] = st[d + i]
      BY <3>1
    <3>3. Framed(snt, st, S)
      BY <3>2
    <3>4. Framed(snt, st2, [k \in 1..Len(snt) + 1 |-> S[k] - d])
      <4>1. d \in Nat
        OBVIOUS
      <4>2. \A i \in 1..Len(st) - d : st2[i] = st[d + i]
        BY <3>2
      <4>3. Len(st2) = Len(st) - d
        BY <3>2
      <4> QED
        BY <3>3, <4>1, <4>2, <4>3, FramedTake
    <3> QED
      BY <3>2, <3>4
  <2> QED
    BY <2>1, <1>Z
<1>4. \A k \in 1..Len(sent[e]) + 1 : Z[k] = S[k] - d
  BY <1>Z
<1>5. Cut' \/ Writes(e, Z)'
  <2>1. CASE Cut
    BY <2>1, CutStays
  <2>2. CASE Writes(e, S)
    <3>1. S \in [1..Len(sent[e]) + 1 -> Int]
      BY DEF Framed
    <3>2. d <= Len(stream[Peer(e)]) /\ Len(stream'[Peer(e)]) = Len(stream[Peer(e)]) - d
      BY <1>1, <1>2
    <3> HIDE DEF p
    <3> QED
      BY <1>4, <2>2, <3>1, <3>2, WritesTake
  <2> QED
    BY <2>1, <2>2
<1>6. sent'[e] = sent[e]
  BY DEF SenderSame
<1> QED
  BY <1>d, <1>3, <1>4, <1>5, <1>6

\* What the end that e sends to has received is left alone, or grows by its next message.
Delivers(e) == \/ inbox'[Peer(e)] = inbox[Peer(e)]
               \/ /\ Len(inbox[Peer(e)]) < Len(sent[e])
                  /\ \E m \in MessageType :
                       /\ inbox'[Peer(e)] = Append(inbox[Peer(e)], m)
                       /\ Same(m, sent[e][Len(inbox[Peer(e)]) + 1])

LEMMA SentFacts ==
  ASSUME SentInv, NEW e \in Ends, NEW i \in 1..Len(sent[e])
  PROVE  sent[e][i] \in MessageType /\ WellFormed(sent[e][i])
<1>1. i \in DOMAIN sent[e] => sent[e][i] \in Outgoing["client"] \cup Outgoing["server"]
  BY EndsFacts DEF SentInv
<1>2. CASE i \in DOMAIN sent[e]
  BY <1>1, <1>2, OutgoingAssumption, EndsFacts
<1> QED
  BY <1>2

LEMMA HeaderStep ==
  ASSUME PipeInv, SentInv, MatchInv, [Next]_vars, NEW e \in Ends, SenderSame(e), Good(e),
         OnHeader(Peer(e))
  PROVE  Good(e)' /\ Delivers(e)
<1> DEFINE p == Peer(e)
           n == Len(inbox[p])
           o == sent[e][n + 1]
<1>t. /\ TypeOK /\ p \in Ends /\ Take(p, "header") /\ read[p] = "header"
      /\ sent[e] \in Seq(MessageType) /\ stream[p] \in Seq(CellType) /\ inbox[p] \in Seq(MessageType)
      /\ n \in Nat /\ n <= Len(sent[e]) /\ tmpIn[p] \in MessageType
      /\ p \in DOMAIN tmpIn /\ p \in DOMAIN inbox /\ p \in DOMAIN read
  <2>1. TypeOK /\ p \in Ends /\ Take(p, "header") /\ read[p] = "header"
    BY EndsFacts DEF PipeInv, OnHeader, Take
  <2>2. sent[e] \in Seq(MessageType) /\ stream[p] \in Seq(CellType) /\ inbox[p] \in Seq(MessageType)
        /\ tmpIn[p] \in MessageType
    BY <2>1, EndTypes
  <2>3. n <= Len(sent[e])
    BY DEF MatchInv
  <2>4. p \in DOMAIN tmpIn /\ p \in DOMAIN inbox /\ p \in DOMAIN read
    BY <2>1 DEF TypeOK
  <2> QED
    BY <2>1, <2>2, <2>3, <2>4
<1>1. PICK S : Framed(sent[e], stream[p], S) /\ Reads(p, S) /\ (Cut \/ Writes(e, S))
  BY DEF Good
<1>2. Needed(p) = 1 /\ stream[p] # <<>> /\ Head(stream[p]) = stream[p][1]
  BY <1>t, TakeFacts DEF Needed
<1>3. S[n + 1] = 1
  BY <1>1, <1>t DEF Reads
<1>4. n < Len(sent[e]) /\ stream[p][1] = HeaderCell(o)
  BY <1>1, <1>2, <1>3, <1>t, NextHeader
<1>5. PICK Z : /\ \A k \in 1..Len(sent[e]) + 1 : Z[k] = S[k] - 1
               /\ Framed(sent'[e], stream'[p], Z)
               /\ Cut' \/ Writes(e, Z)'
  BY <1>1, <1>2, <1>t, TakeShifts
<1>6. n + 1 \in 1..Len(sent[e]) /\ n + 1 \in 1..Len(sent[e]) + 1 /\ sent'[e] = sent[e]
  BY <1>4, <1>t DEF SenderSame
<1>7. o \in MessageType /\ WellFormed(o) /\ o.size \in Nat /\ Len(o.body) \in Nat
  <2>1. o \in MessageType /\ WellFormed(o)
    BY <1>6, SentFacts
  <2> QED
    BY <2>1 DEF MessageType
<1>8. Z[n + 1] = 0
  BY <1>3, <1>5, <1>6
<1>9. Z[(n + 1) + 1] = Z[n + 1] + 1 + Len(o.body)
  BY <1>5, <1>6 DEF Framed
<1>10. PICK m : /\ m = [tmpIn[p] EXCEPT !.id = o.id, !.size = o.size]
                /\ IF o.size > EightBytes
                   THEN /\ tmpIn' = [tmpIn EXCEPT ![p] = m]
                        /\ read' = [read EXCEPT ![p] = "body"]
                        /\ UNCHANGED inbox
                   ELSE AddToIncoming(p, m)
  <2>1. HeadersIn(Head(stream[p])) = {HeaderCell(o)}
    BY <1>2, <1>4 DEF HeadersIn, HeaderCell
  <2>2. HeaderCell(o).id = o.id /\ HeaderCell(o).size = o.size
    BY DEF HeaderCell
  <2> QED
    BY <2>1, <2>2 DEF OnHeader
<1>11. m \in MessageType /\ m.id = o.id /\ m.size = o.size
  BY <1>10, <1>7, <1>t DEF MessageType
<1>12. CASE o.size > EightBytes
  <2>1. read'[p] = "body" /\ inbox'[p] = inbox[p] /\ tmpIn'[p] = m
    BY <1>10, <1>12, <1>t
  <2>2. Reads(p, Z)'
    <3>1. Peer(p) = e
      BY EndsFacts
    <3>2. Z[Len(inbox'[p]) + 1] = 0 /\ Len(inbox'[p]) < Len(sent'[e])
          /\ tmpIn'[p].id = sent'[e][Len(inbox'[p]) + 1].id
          /\ tmpIn'[p].size = sent'[e][Len(inbox'[p]) + 1].size
      BY <2>1, <1>4, <1>6, <1>8, <1>11
    <3> HIDE DEF p, n, o
    <3> QED
      BY <2>1, <3>1, <3>2 DEF Reads
  <2> QED
    BY <1>5, <2>1, <2>2 DEF Good, Delivers
<1>13. CASE ~(o.size > EightBytes)
  <2>1. read'[p] = "header" /\ inbox'[p] = Append(inbox[p], m)
    BY <1>10, <1>13, <1>t DEF AddToIncoming
  <2>2. Len(inbox'[p]) = n + 1
    BY <2>1, <1>t
  <2>3. Len(o.body) = 0
    BY <1>7, <1>13 DEF WellFormed, BodyLength
  <2>4. Z[Len(inbox'[p]) + 1] = 1
    BY <2>2, <2>3, <1>8, <1>9
  <2>5. Reads(p, Z)'
    BY <2>1, <2>4 DEF Reads
  <2>6. Same(m, o)
    BY <1>11, <1>13 DEF Same
  <2> QED
    BY <1>4, <1>5, <1>11, <2>1, <2>5, <2>6 DEF Good, Delivers
<1> QED
  BY <1>12, <1>13

LEMMA BodyStep ==
  ASSUME PipeInv, SentInv, MatchInv, [Next]_vars, NEW e \in Ends, SenderSame(e), Good(e),
         OnBody(Peer(e))
  PROVE  Good(e)' /\ Delivers(e)
<1> DEFINE p == Peer(e)
           n == Len(inbox[p])
           o == sent[e][n + 1]
<1>t. /\ TypeOK /\ p \in Ends /\ Take(p, "body") /\ read[p] = "body"
      /\ sent[e] \in Seq(MessageType) /\ stream[p] \in Seq(CellType) /\ inbox[p] \in Seq(MessageType)
      /\ n \in Nat /\ Len(sent[e]) \in Nat /\ tmpIn[p] \in MessageType
      /\ p \in DOMAIN tmpIn /\ p \in DOMAIN inbox /\ p \in DOMAIN read /\ Peer(p) = e
  <2>1. TypeOK /\ p \in Ends /\ Take(p, "body") /\ read[p] = "body" /\ Peer(p) = e
    BY EndsFacts DEF PipeInv, OnBody, Take
  <2>2. sent[e] \in Seq(MessageType) /\ stream[p] \in Seq(CellType) /\ inbox[p] \in Seq(MessageType)
        /\ tmpIn[p] \in MessageType
    BY <2>1, EndTypes
  <2>3. p \in DOMAIN tmpIn /\ p \in DOMAIN inbox /\ p \in DOMAIN read
    BY <2>1 DEF TypeOK
  <2> QED
    BY <2>1, <2>2, <2>3
<1>1. PICK S : Framed(sent[e], stream[p], S) /\ Reads(p, S) /\ (Cut \/ Writes(e, S))
  BY DEF Good
<1>2. /\ Needed(p) \in Nat \ {0} /\ Needed(p) <= Len(stream[p])
      /\ Needed(p) = BodyLength(tmpIn[p].size)
  BY <1>t, TakeFacts DEF Needed
<1>3. S[n + 1] = 0 /\ n < Len(sent[e]) /\ tmpIn[p].id = o.id /\ tmpIn[p].size = o.size
  BY <1>1, <1>t DEF Reads
<1>4. n + 1 \in 1..Len(sent[e]) /\ (n + 1) + 1 \in 1..Len(sent[e]) + 1 /\ sent'[e] = sent[e]
  BY <1>3, <1>t DEF SenderSame
<1>5. o \in MessageType /\ WellFormed(o) /\ o.body \in Seq(CellType) /\ Len(o.body) \in Nat
  <2>1. o \in MessageType /\ WellFormed(o)
    BY <1>4, SentFacts
  <2> QED
    BY <2>1 DEF MessageType
<1>6. Needed(p) = Len(o.body)
  BY <1>2, <1>3, <1>5 DEF WellFormed
<1>7. S[(n + 1) + 1] = S[n + 1] + 1 + Len(o.body)
  BY <1>1, <1>4 DEF Framed
<1>8. SubSeq(stream[p], 1, Needed(p)) = o.body
  <2>1. \A i \in 1..Len(o.body) : stream[p][i] = o.body[i]
    <3> SUFFICES ASSUME NEW i \in 1..Len(o.body) PROVE stream[p][i] = o.body[i]
      OBVIOUS
    <3>1. i \in 1..Len(stream[p]) /\ S[n + 1] < i /\ i < S[(n + 1) + 1] /\ i - S[n + 1] = i
      BY <1>2, <1>3, <1>5, <1>6, <1>7, <1>t
    <3> QED
      BY <1>1, <1>4, <3>1 DEF Framed
  <2> DEFINE L == Len(o.body)
             got == SubSeq(stream[p], 1, L)
  <2>2. L \in Nat /\ L >= 1 /\ L <= Len(stream[p])
    BY <1>2, <1>5, <1>6
  <2>3. /\ got \in Seq(CellType) /\ Len(got) = L
        /\ \A i \in 1..L : got[i] = stream[p][i]
    <3> HIDE DEF L, p, o
    <3> QED
      BY <1>t, <2>2, SubSeqType
  <2>4. got = o.body
    <3>1. PICK a \in Seq(CellType), b \in Seq(CellType) :
            /\ a = got /\ b = o.body /\ Len(a) = Len(b) /\ \A i \in 1..Len(a) : a[i] = b[i]
      <4> HIDE DEF got
      <4> QED
        BY <1>5, <2>1, <2>3
    <3>2. a = b
      BY <3>1, SeqEqual
    <3> QED
      BY <3>1, <3>2
  <2> QED
    BY <1>6, <2>4
<1>9. PICK Z : /\ \A k \in 1..Len(sent[e]) + 1 : Z[k] = S[k] - Needed(p)
               /\ Framed(sent'[e], stream'[p], Z)
               /\ Cut' \/ Writes(e, Z)'
  BY <1>1, <1>t, TakeShifts
<1>10. Z[(n + 1) + 1] = 1
  <2>1. Z[(n + 1) + 1] = S[(n + 1) + 1] - Needed(p)
    BY <1>4, <1>9
  <2>2. S[(n + 1) + 1] = 1 + Len(o.body)
    BY <1>3, <1>5, <1>7
  <2>3. \A l \in Nat : (1 + l) - l = 1
    OBVIOUS
  <2> QED
    BY <2>1, <2>2, <2>3, <1>5, <1>6
<1>11. PICK m : m = [tmpIn[p] EXCEPT !.body = o.body] /\ AddToIncoming(p, m)
  BY <1>8 DEF OnBody
<1>12. m \in MessageType /\ Same(m, o)
  BY <1>11, <1>3, <1>5, <1>t DEF MessageType, Same
<1>13. read'[p] = "header" /\ inbox'[p] = Append(inbox[p], m)
  BY <1>11, <1>t DEF AddToIncoming
<1>14. Len(inbox'[p]) = n + 1
  BY <1>13, <1>t
<1>15. Reads(p, Z)'
  BY <1>10, <1>13, <1>14 DEF Reads
<1> QED
  BY <1>3, <1>9, <1>12, <1>13, <1>15 DEF Good, Delivers

LEMMA HandshakeStep ==
  ASSUME PipeInv, [Next]_vars, NEW e \in Ends, SenderSame(e), Good(e), ReaderAct(Peer(e)),
         ~OnHeader(Peer(e)), ~OnBody(Peer(e))
  PROVE  /\ Good(e)' \/ Stopped(Peer(e))'
         /\ inbox'[Peer(e)] = inbox[Peer(e)]
<1> DEFINE p == Peer(e)
<1>t. /\ TypeOK /\ p \in Ends /\ Peer(p) = e /\ (p = "client" \/ p = "server")
      /\ DOMAIN read = Ends /\ DOMAIN sock = Ends
      /\ stream[p] \in Seq(CellType)
      /\ Len(sent[e]) \in Nat /\ 1 \in 1..Len(sent[e]) + 1
  <2>1. TypeOK /\ p \in Ends /\ Peer(p) = e /\ (p = "client" \/ p = "server")
    BY EndsFacts DEF PipeInv
  <2>2. DOMAIN read = Ends /\ DOMAIN sock = Ends
    BY <2>1 DEF TypeOK
  <2>3. stream[p] \in Seq(CellType) /\ sent[e] \in Seq(MessageType)
    BY <2>1, EndTypes
  <2>4. Len(sent[e]) \in Nat
    BY <2>3
  <2> QED
    BY <2>1, <2>2, <2>3, <2>4
<1>i. inbox'[p] = inbox[p] /\ sent'[e] = sent[e]
  BY DEF ReaderAct, OnReadError, OnConnect, OnConnectError, AnswerValidation,
     OnValidationWritten, CheckValidation, Accept, readVars, SenderSame
<1>g. Greeting("client") => read["client"] = "none"
  BY DEF PipeInv, StartInv
<1>1. PICK S : Framed(sent[e], stream[p], S) /\ Reads(p, S) /\ (Cut \/ Writes(e, S))
  BY DEF Good
<1>2. ASSUME stream'[p] = stream[p], Reads(p, S)' PROVE Good(e)'
  <2>1. Cut' \/ Writes(e, S)'
    BY <1>1, <1>2, CutStays, WritesSame
  <2> QED
    BY <1>1, <1>2, <1>i, <2>1 DEF Good
<1>3. ASSUME Take(p, "validation"), read'[p] = "header" \/ (read'[p] = "none" /\ p = "client")
      PROVE  Good(e)'
  <2>1. PICK Z : /\ \A k \in 1..Len(sent[e]) + 1 : Z[k] = S[k] - Needed(p)
                 /\ Framed(sent'[e], stream'[p], Z)
                 /\ Cut' \/ Writes(e, Z)'
    BY <1>1, <1>3, TakeShifts
  <2>2. read[p] = "validation" /\ Needed(p) = 1
    BY <1>3 DEF Take, Needed
  <2>3. inbox[p] = <<>> /\ S[1] = 2
    BY <1>1, <2>2 DEF Reads
  <2>4. Z[1] = 1
    BY <2>1, <2>2, <2>3, <1>t
  <2>5. Len(inbox'[p]) = 0
    BY <2>3, <1>i
  <2>6. Reads(p, Z)'
    BY <1>3, <1>i, <2>3, <2>4, <2>5 DEF Reads
  <2> QED
    BY <2>1, <2>6 DEF Good
<1>4. CASE OnReadError(p)
  <2>1. sock'[p] = "closed" /\ read'[p] = "none" /\ UNCHANGED <<wq, wdone>>
    BY <1>4, <1>t DEF OnReadError, outVars
  <2>2. p = "client" => ~Greeting(p)'
    BY <1>4, <2>1, <1>g DEF OnReadError, Greeting
  <2> QED
    BY <2>1, <2>2, <1>i DEF Stopped
<1>5. CASE p = "client" /\ OnConnect
  <2>1. UNCHANGED <<stream, sock, wq, wdone>> /\ read[p] = "connect"
        /\ read'[p] = IF IsConnected("client") THEN "validation" ELSE "none"
    BY <1>5, <1>t DEF OnConnect, netVars, outVars
  <2>2. CASE IsConnected("client")
    <3>1. Reads(p, S)'
      BY <1>1, <2>1, <2>2, <1>i DEF Reads
    <3> QED
      BY <3>1, <2>1, <1>2, <1>i
  <2>3. CASE ~IsConnected("client")
    <3>1. sock[p] = "closed"
      <4>1. sock[p] # "none" /\ sock[p] \in {"none", "open", "closed"}
        BY <1>5, <1>t DEF PipeInv, StartInv, TypeOK
      <4> QED
        BY <4>1, <2>3, <1>5 DEF IsConnected
    <3>2. ~Greeting(p)'
      BY <2>1, <1>5, <1>g DEF Greeting
    <3> QED
      BY <3>1, <3>2, <2>1, <2>3, <1>i DEF Stopped
  <2> QED
    BY <2>2, <2>3
<1>6. CASE p = "client" /\ OnConnectError
  <2>1. sock'[p] = "closed" /\ read'[p] = "none" /\ UNCHANGED <<wq, wdone>> /\ read[p] = "connect"
    BY <1>6, <1>t DEF OnConnectError, outVars
  <2>2. ~Greeting(p)'
    BY <2>1, <1>6, <1>g DEF Greeting
  <2> QED
    BY <2>1, <2>2, <1>i DEF Stopped
<1>7. CASE p = "client" /\ AnswerValidation
  <2>1. Take(p, "validation") /\ read'[p] = "none"
    BY <1>7, <1>t DEF AnswerValidation
  <2> QED
    BY <2>1, <1>3, <1>7, <1>i
<1>8. CASE p = "client" /\ OnValidationWritten("client")
  <2>1. stream' = stream /\ read'[p] = "header"
    BY <1>8, <1>t DEF OnValidationWritten, netVars
  <2>2. read["client"] = "none"
    BY <1>8, <1>g, EndsFacts, GreetingSteps
  <2>3. inbox[p] = <<>> /\ S[1] = 1
    BY <1>1, <1>8, <2>2 DEF Reads
  <2>4. Len(inbox'[p]) = 0
    BY <2>3, <1>i
  <2>5. Reads(p, S)'
    BY <2>1, <2>3, <2>4, <1>i DEF Reads
  <2> QED
    BY <2>1, <2>5, <1>2, <1>i
<1>9. CASE p = "server" /\ CheckValidation
  <2>1. /\ Take(p, "validation")
        /\ \/ read'[p] = "header"
           \/ read'[p] = "none" /\ sock'[p] = "closed"
    BY <1>9, <1>t DEF CheckValidation, AfterCheck
  <2>2. CASE read'[p] = "header"
    BY <2>1, <2>2, <1>3, <1>i
  <2>3. CASE read'[p] = "none" /\ sock'[p] = "closed"
    BY <2>3, <1>9, <1>i DEF Stopped
  <2> QED
    BY <2>1, <2>2, <2>3
<1>10. ASSUME p = "server", NEW g \in Greetings, Accept(g) PROVE Good(e)'
  <2>1. stream' = stream /\ read'[p] = "validation"
    BY <1>10, <1>t DEF Accept, ConnectToClient, netVars
  <2>2. read[p] = "none"
    BY <1>10 DEF PipeInv, StartInv, Accept
  <2>3. Reads(p, S)'
    BY <1>1, <1>10, <2>1, <2>2, <1>i DEF Reads
  <2> QED
    BY <2>1, <2>3, <1>2
<1> QED
  BY <1>i, <1>4, <1>5, <1>6, <1>7, <1>8, <1>9, <1>10 DEF ReaderAct

\* A handler of the reader keeps the framing, or ends the reading.
LEMMA ReaderStep ==
  ASSUME PipeInv, SentInv, MatchInv, [Next]_vars, NEW e \in Ends, SenderSame(e), Good(e),
         ReaderAct(Peer(e))
  PROVE  (Good(e)' \/ Stopped(Peer(e))') /\ Delivers(e)
BY HeaderStep, BodyStep, HandshakeStep DEF Delivers

-----------------------------------------------------------------------------
(* The steps of the sender.                                                *)

\* The lambda of a message runs: the message is the next of m_qMessagesOut, and of the lambdas.
LEMMA RunSendQueue ==
  ASSUME PipeInv, NEW e \in Ends, RunSend(e), NEW n, Queued(e, n)
  PROVE  Queued(e, n)'
<1> DEFINE T == posted[e]
           L == Len(qOut[e])
           N == Len(sent[e])
           m == Head(posted[e]).msg
<1>t. /\ TypeOK /\ e \in DOMAIN posted /\ e \in DOMAIN qOut
      /\ T \in Seq(TaskType) /\ qOut[e] \in Seq(MessageType)
      /\ L \in Nat /\ N \in Nat /\ n \in Nat /\ Len(T) \in Nat \ {0}
  <2>1. TypeOK
    BY DEF PipeInv
  <2>2. T \in Seq(TaskType) /\ qOut[e] \in Seq(MessageType) /\ sent[e] \in Seq(MessageType)
    BY <2>1, EndTypes
  <2>3. e \in DOMAIN posted /\ e \in DOMAIN qOut
    BY <2>1 DEF TypeOK
  <2>4. T # <<>> /\ n \in Nat
    BY DEF RunSend, Queued
  <2> QED
    BY <2>1, <2>2, <2>3, <2>4
<1>1. posted'[e] = Tail(T) /\ qOut'[e] = Append(qOut[e], m) /\ sent' = sent
      /\ Head(T) = T[1] /\ T[1].task = "send"
  BY <1>t DEF RunSend
<1>2. /\ Len(posted'[e]) = Len(T) - 1
      /\ \A i \in 1..(Len(T) - 1) : posted'[e][i] = T[i + 1]
  BY <1>1, <1>t
<1>3. /\ Len(qOut'[e]) = L + 1
      /\ \A i \in 1..L : qOut'[e][i] = qOut[e][i]
      /\ qOut'[e][L + 1] = m
  BY <1>1, <1>t
<1>4. T[1] # CloseTask
  BY <1>1 DEF CloseTask
<1>5. 1 \in 1..Len(T) /\ ~Closing(e, 1)
  BY <1>4, <1>t DEF Closing
<1>6. n + L + 1 <= N /\ m = sent[e][n + L + 1]
  <2>1. n + L + 1 <= N /\ T[1] = SendTask(sent[e][n + L + 1])
    BY <1>5 DEF Queued
  <2> QED
    BY <2>1, <1>1 DEF SendTask
<1>7. ASSUME NEW i \in 0..(Len(T) - 1) PROVE Closing(e, i)' <=> Closing(e, i + 1)
  <2>1. ASSUME NEW j \in 1..i, posted'[e][j] = CloseTask
        PROVE  j + 1 \in 1..(i + 1) /\ T[j + 1] = CloseTask
    BY <2>1, <1>2, <1>t
  <2>2. ASSUME NEW j \in 1..(i + 1), T[j] = CloseTask
        PROVE  j - 1 \in 1..i /\ posted'[e][j - 1] = CloseTask
    <3>1. j # 1
      BY <2>2, <1>4
    <3>2. j - 1 \in 1..i /\ j - 1 \in 1..(Len(T) - 1) /\ (j - 1) + 1 = j
      BY <3>1, <1>t
    <3> QED
      BY <2>2, <3>2, <1>2
  <2> QED
    BY <2>1, <2>2 DEF Closing
<1>8. \A i \in 1..(L + 1) : qOut'[e][i] = sent[e][n + i]
  <2> SUFFICES ASSUME NEW i \in 1..(L + 1) PROVE qOut'[e][i] = sent[e][n + i]
    OBVIOUS
  <2>1. CASE i \in 1..L
    BY <2>1, <1>3 DEF Queued
  <2>2. CASE i = L + 1
    <3>1. n + (L + 1) = n + L + 1
      BY <1>t
    <3> QED
      BY <2>2, <3>1, <1>3, <1>6
  <2> QED
    BY <2>1, <2>2, <1>t
<1>9. ASSUME NEW i \in 1..(Len(T) - 1), ~Closing(e, i)'
      PROVE  /\ n + (L + 1) + i <= N
             /\ posted'[e][i] = SendTask(sent[e][n + (L + 1) + i])
  <2>1. i + 1 \in 1..Len(T) /\ ~Closing(e, i + 1) /\ n + (L + 1) + i = n + L + (i + 1)
    BY <1>7, <1>9, <1>t
  <2>2. n + L + (i + 1) <= N /\ T[i + 1] = SendTask(sent[e][n + L + (i + 1)])
    BY <2>1 DEF Queued
  <2> QED
    BY <2>1, <2>2, <1>2
<1>l. PICK l \in Nat : l = Len(T) - 1
  BY <1>t
<1>10. ~Closing(e, l)' => n + (L + 1) + l = N
  <2>1. l \in 0..(Len(T) - 1) /\ l + 1 = Len(T)
    BY <1>l, <1>t
  <2>2. Closing(e, l)' <=> Closing(e, Len(T))
    BY <2>1, <1>7
  <2>3. ~Closing(e, Len(T)) => n + L + Len(T) = N
    BY DEF Queued
  <2>4. n + (L + 1) + l = n + L + Len(T)
    BY <1>l, <1>t
  <2> QED
    BY <2>2, <2>3, <2>4
<1>11. n + (L + 1) <= N
  BY <1>6, <1>t
<1> HIDE DEF m
<1>12. Len(posted'[e]) = l /\ Len(qOut'[e]) = L + 1 /\ sent'[e] = sent[e]
  BY <1>1, <1>2, <1>3, <1>l
<1>13. ASSUME NEW i \in 1..l, ~\E j \in 1..i : posted'[e][j] = CloseTask
       PROVE  /\ n + (L + 1) + i <= N
              /\ posted'[e][i] = SendTask(sent[e][n + (L + 1) + i])
  BY <1>9, <1>13, <1>l DEF Closing
<1>14. (~\E j \in 1..l : posted'[e][j] = CloseTask) => n + (L + 1) + l = N
  BY <1>10 DEF Closing
<1> HIDE DEF L, N, T
<1> QED
  BY <1>t, <1>8, <1>11, <1>12, <1>13, <1>14 DEF Queued, Closing, N

LEMMA RunSendWrites ==
  ASSUME PipeInv, [Next]_vars, NEW e \in Ends, RunSend(e), NEW S, Writes(e, S),
         stream'[Peer(e)] = stream[Peer(e)]
  PROVE  Writes(e, S)'
<1>t. TypeOK /\ e \in DOMAIN wq /\ wq[e] \in Seq(Ops) /\ Len(wq[e]) \in Nat
      /\ e \in DOMAIN qOut /\ qOut[e] \in Seq(MessageType)
  <2>1. TypeOK
    BY DEF PipeInv
  <2>2. wq[e] \in Seq(Ops) /\ qOut[e] \in Seq(MessageType)
    BY <2>1, EndTypes
  <2>3. e \in DOMAIN wq /\ e \in DOMAIN qOut
    BY <2>1 DEF TypeOK
  <2> QED
    BY <2>1, <2>2, <2>3
<1>1. PICK n \in Nat : /\ Queued(e, n)
                       /\ \/ n = 0 /\ NothingWritten(e, S)
                          \/ Written(e, n, S)
  BY DEF Writes
<1>2. Queued(e, n)'
  BY <1>1, RunSendQueue
<1>3. wdone'[e] = wdone[e] /\ sock' = sock /\ qOut'[e] # <<>>
  <2>1. \A m : Append(qOut[e], m) # <<>>
    BY <1>t
  <2> QED
    BY <1>t, <2>1 DEF RunSend
<1>4. wq'[e] = wq[e] \/ (qOut[e] = <<>> /\ wq'[e] = Append(wq[e], Write("header")))
  BY <1>t DEF RunSend, Writing
<1>5. Write("header").kind = "header"
  BY DEF Write
<1>6. CASE wq'[e] = wq[e]
  <2>1. NothingWritten(e, S) => NothingWritten(e, S)'
    BY <1>3, <1>6 DEF NothingWritten
  <2>2. Written(e, n, S) => Written(e, n, S)'
    BY <1>3, <1>6, FlagsStay DEF Written
  <2> QED
    BY <1>1, <1>2, <2>1, <2>2 DEF Writes
<1>7. CASE qOut[e] = <<>> /\ wq'[e] = Append(wq[e], Write("header"))
  <2>1. /\ Len(wq'[e]) = Len(wq[e]) + 1
        /\ DOMAIN wq[e] = 1..Len(wq[e]) /\ DOMAIN wq'[e] = 1..(Len(wq[e]) + 1)
        /\ \A i \in 1..Len(wq[e]) : wq'[e][i] = wq[e][i]
        /\ wq'[e][Len(wq[e]) + 1] = Write("header")
    BY <1>7, <1>t
  <2>2. \A i \in DOMAIN wq'[e] : i \in DOMAIN wq[e] \/ i = Len(wq[e]) + 1
    BY <2>1, <1>t
  <2>3. wq[e] # <<>> => wq'[e] # <<>> /\ Head(wq'[e]) = Head(wq[e])
    BY <1>7, <1>t
  <2>4. NothingWritten(e, S) => NothingWritten(e, S)'
    BY <1>3, <1>5, <2>1, <2>2, <2>3 DEF NothingWritten
  <2>5. Written(e, n, S) => Written(e, n, S)'
    <3> SUFFICES ASSUME Written(e, n, S) PROVE Written(e, n, S)'
      OBVIOUS
    <3>1. Len(stream[Peer(e)]) + 1 = S[n + 1]
      BY <1>7 DEF Written
    <3>2. ASSUME NEW i \in DOMAIN wq'[e]
          PROVE  /\ wq'[e][i].kind # "validation"
                 /\ wq'[e][i].kind = "header" => Len(stream[Peer(e)]) + 1 = S[n + 1]
                 /\ wq'[e][i].kind = "body"
                      => Len(stream[Peer(e)]) + 1 = S[n + 1] + 1 + wq'[e][i].off
      <4>1. CASE i \in DOMAIN wq[e]
        BY <4>1, <2>1 DEF Written
      <4>2. CASE i = Len(wq[e]) + 1
        BY <4>2, <2>1, <1>5, <3>1
      <4> QED
        BY <2>2, <4>1, <4>2
    <3>3. \A i \in DOMAIN wdone[e] :
             /\ wdone[e][i] = "header" => Len(stream[Peer(e)]) + 1 = S[n + 1] + 1
             /\ wdone[e][i] = "body" => Len(stream[Peer(e)]) + 1 = S[n + 2]
      BY DEF Written
    <3>4. /\ link' # "down" /\ (e = "server" => sock'[e] # "none")
          /\ e = "client" => read'["client"] \notin {"connect", "validation"}
      BY FlagsStay DEF Written
    <3> QED
      BY <1>3, <3>2, <3>3, <3>4 DEF Written
  <2> QED
    BY <1>1, <1>2, <2>4, <2>5 DEF Writes
<1> QED
  BY <1>4, <1>6, <1>7

\* WriteValidation's handler has nothing to say of messages.
LEMMA ValidationWrittenWrites ==
  ASSUME PipeInv, [Next]_vars, NEW e \in Ends, OnValidationWritten(e), NEW S, Writes(e, S),
         stream'[Peer(e)] = stream[Peer(e)]
  PROVE  Writes(e, S)'
<1>t. TypeOK /\ e \in DOMAIN wdone /\ wdone[e] \in Seq(WriteKinds)
  <2>1. TypeOK
    BY DEF PipeInv
  <2>2. e \in DOMAIN wdone /\ wdone[e] \in Seq(WriteKinds)
    BY <2>1 DEF TypeOK
  <2> QED
    BY <2>1, <2>2
<1>1. PICK n \in Nat : /\ Queued(e, n)
                       /\ \/ n = 0 /\ NothingWritten(e, S)
                          \/ Written(e, n, S)
  BY DEF Writes
<1>2. /\ wdone[e] # <<>> /\ wdone'[e] = Tail(wdone[e])
      /\ UNCHANGED <<posted, sent, qOut, wq>>
  BY <1>t DEF OnValidationWritten, appVars
<1>3. Queued(e, n)'
  BY <1>1, <1>2 DEF Queued, Closing
<1>4. \A i \in DOMAIN wdone'[e] : i + 1 \in DOMAIN wdone[e] /\ wdone'[e][i] = wdone[e][i + 1]
  BY <1>2, <1>t
<1>5. Written(e, n, S)
  BY <1>1, <1>2 DEF NothingWritten
<1>6. Written(e, n, S)'
  BY <1>2, <1>4, <1>5, FlagsStay DEF Written
<1> QED
  BY <1>3, <1>6 DEF Writes

\* WriteHeader's goes on with the body of the message.
LEMMA BodyGoesOn ==
  ASSUME PipeInv, [Next]_vars, NEW e \in Ends, OnMessageWritten(e), NEW S, Writes(e, S),
         stream'[Peer(e)] = stream[Peer(e)], Framed(sent[e], stream[Peer(e)], S),
         Head(wdone[e]) = "header", Head(qOut[e]).body # <<>>
  PROVE  Writes(e, S)'
<1> DEFINE next == Len(stream[Peer(e)]) + 1
<1>t. /\ TypeOK /\ e \in DOMAIN wdone /\ e \in DOMAIN wq /\ wdone[e] \in Seq(WriteKinds)
      /\ wq[e] \in Seq(Ops) /\ wdone[e] # <<>> /\ Len(sent[e]) \in Nat /\ Len(qOut[e]) \in Nat
  <2>1. TypeOK
    BY DEF PipeInv
  <2>2. e \in DOMAIN wdone /\ e \in DOMAIN wq
    BY <2>1 DEF TypeOK
  <2>3. wdone[e] \in Seq(WriteKinds) /\ wq[e] \in Seq(Ops) /\ sent[e] \in Seq(MessageType)
        /\ qOut[e] \in Seq(MessageType)
    BY <2>1, EndTypes
  <2>4. wdone[e] # <<>>
    BY DEF OnMessageWritten
  <2>5. Len(sent[e]) \in Nat /\ Len(qOut[e]) \in Nat
    BY <2>3
  <2> QED
    BY <2>1, <2>2, <2>3, <2>4, <2>5
<1>1. PICK n \in Nat : Queued(e, n) /\ Written(e, n, S)
  BY <1>t DEF Writes, NothingWritten
<1>2. /\ wdone'[e] = Tail(wdone[e]) /\ wq'[e] = Append(wq[e], Write("body"))
      /\ UNCHANGED <<posted, sent, qOut>>
  BY <1>t DEF OnMessageWritten, appVars
<1>3. Queued(e, n)'
  BY <1>1, <1>2 DEF Queued, Closing
<1>4. \A i \in DOMAIN wdone'[e] : i + 1 \in DOMAIN wdone[e] /\ wdone'[e][i] = wdone[e][i + 1]
  BY <1>2, <1>t
<1>5. 1 \in DOMAIN wdone[e] /\ wdone[e][1] = "header"
  BY <1>t
<1>6. next = S[n + 1] + 1
  BY <1>1, <1>5 DEF Written
<1>7. n + 1 \in 1..Len(sent[e]) + 1
  BY <1>1, <1>t DEF Queued
<1>8. S[n + 1] \in Int
  BY <1>7 DEF Framed
<1>9. S[n + 1] + 1 + 0 = S[n + 1] + 1
  BY <1>8
<1>10. \A i \in DOMAIN wq'[e] : \/ i \in DOMAIN wq[e] /\ wq'[e][i] = wq[e][i]
                                \/ wq'[e][i] = Write("body")
  BY <1>2, <1>t
<1>11. Write("body").kind = "body" /\ Write("body").off = 0
  BY DEF Write
<1>12. ASSUME NEW i \in DOMAIN wq'[e]
       PROVE  /\ wq'[e][i].kind # "validation"
              /\ wq'[e][i].kind = "header" => next = S[n + 1]
              /\ wq'[e][i].kind = "body" => next = S[n + 1] + 1 + wq'[e][i].off
  <2>1. CASE i \in DOMAIN wq[e] /\ wq'[e][i] = wq[e][i]
    BY <2>1, <1>1 DEF Written
  <2>2. CASE wq'[e][i] = Write("body")
    BY <2>2, <1>6, <1>9, <1>11
  <2> QED
    BY <2>1, <2>2, <1>10
<1>13. \A i \in DOMAIN wdone'[e] : /\ wdone'[e][i] = "header" => next = S[n + 1] + 1
                                   /\ wdone'[e][i] = "body" => next = S[n + 2]
  BY <1>1, <1>4 DEF Written
<1>14. Written(e, n, S)'
  <2>1. qOut[e] = <<>> => next = S[n + 1]
    BY <1>1 DEF Written
  <2>2. /\ link' # "down" /\ (e = "server" => sock'[e] # "none")
        /\ e = "client" => read'["client"] \notin {"connect", "validation"}
    BY <1>1, FlagsStay DEF Written
  <2> QED
    BY <1>2, <1>12, <1>13, <2>1, <2>2 DEF Written
<1> QED
  BY <1>3, <1>14 DEF Writes

\* WriteHeader's or WriteBody's pops the message and goes on with the next.
LEMMA NextGoesOn ==
  ASSUME PipeInv, [Next]_vars, NEW e \in Ends, OnMessageWritten(e), NEW S, Writes(e, S),
         stream'[Peer(e)] = stream[Peer(e)], Framed(sent[e], stream[Peer(e)], S),
         ~(Head(wdone[e]) = "header" /\ Head(qOut[e]).body # <<>>)
  PROVE  Writes(e, S)'
<1> DEFINE next == Len(stream[Peer(e)]) + 1
           q == qOut[e]
           N == Len(sent[e])
<1>t. /\ TypeOK /\ e \in DOMAIN wdone /\ e \in DOMAIN wq /\ e \in DOMAIN qOut
      /\ wdone[e] \in Seq(WriteKinds) /\ wdone[e] # <<>>
      /\ wq[e] \in Seq(Ops) /\ N \in Nat /\ q \in Seq(MessageType) /\ Len(q) \in Nat
      /\ sent[e] \in Seq(MessageType) /\ WriteOK(e)
  <2>1. TypeOK /\ WriteOK(e)
    BY DEF PipeInv
  <2>2. e \in DOMAIN wdone /\ e \in DOMAIN wq /\ e \in DOMAIN qOut
    BY <2>1 DEF TypeOK
  <2>3. wdone[e] \in Seq(WriteKinds) /\ wq[e] \in Seq(Ops) /\ sent[e] \in Seq(MessageType)
        /\ q \in Seq(MessageType)
    BY <2>1, EndTypes
  <2>4. wdone[e] # <<>>
    BY DEF OnMessageWritten
  <2>5. N \in Nat /\ Len(q) \in Nat
    BY <2>3
  <2> QED
    BY <2>1, <2>2, <2>3, <2>4, <2>5
<1>1. PICK n \in Nat : Queued(e, n) /\ Written(e, n, S)
  BY <1>t DEF Writes, NothingWritten
<1>2. /\ wdone'[e] = Tail(wdone[e]) /\ qOut'[e] = Tail(q)
      /\ wq'[e] = wq[e] \o NextWrite(Tail(q))
      /\ UNCHANGED <<posted, sent>>
  BY <1>t DEF OnMessageWritten, appVars
<1>3. 1 \in DOMAIN wdone[e] /\ wdone[e][1] = Head(wdone[e]) /\ Head(wdone[e]) \in MessageDone
  BY <1>t DEF OnMessageWritten, MessageDone
<1>4. /\ q # <<>> /\ Len(q) >= 1 /\ Head(q) = q[1]
      /\ ~Some(wq[e], MessageOps)
      /\ \A i \in DOMAIN wdone[e] : wdone[e][i] \in MessageDone => i = 1
  <2>1. Some(wdone[e], MessageDone)
    BY <1>3 DEF Some
  <2>2. q # <<>> /\ ~Some(wq[e], MessageOps) /\ AtMostOne(wdone[e], MessageDone)
    BY <2>1, <1>t DEF WriteOK, Busy, Once
  <2>3. Len(q) >= 1 /\ Head(q) = q[1]
    BY <2>2, <1>t
  <2> QED
    BY <2>2, <2>3, <1>3 DEF AtMostOne
<1>5. /\ Len(qOut'[e]) = Len(q) - 1
      /\ \A i \in 1..(Len(q) - 1) : qOut'[e][i] = q[i + 1]
  BY <1>2, <1>4, <1>t
<1>6. n + 1 <= N /\ n + 1 \in 1..N /\ n + 1 \in 1..N + 1 /\ q[1] = sent[e][n + 1]
  <2>1. 1 \in 1..Len(q) /\ Len(q) >= 1
    BY <1>4, <1>t
  <2>2. n + Len(q) <= N /\ q[1] = sent[e][n + 1]
    BY <1>1, <2>1 DEF Queued
  <2> QED
    BY <2>1, <2>2, <1>t
<1>7. next = S[(n + 1) + 1]
  <2>1. CASE Head(wdone[e]) = "body"
    <3>1. next = S[n + 2]
      BY <1>1, <1>3, <2>1 DEF Written
    <3> QED
      BY <3>1, <1>6
  <2>2. CASE Head(wdone[e]) = "header"
    <3>1. next = S[n + 1] + 1
      BY <1>1, <1>3, <2>2 DEF Written
    <3>2. Len(sent[e][n + 1].body) = 0
      BY <2>2, <1>4, <1>6
    <3>3. S[(n + 1) + 1] = S[n + 1] + 1 + 0 /\ S[n + 1] \in Int
      BY <3>2, <1>6 DEF Framed
    <3> QED
      BY <3>1, <3>3
  <2> QED
    BY <1>3, <2>1, <2>2 DEF MessageDone
<1>8. Queued(e, n + 1)'
  <2> DEFINE M == Len(q) - 1
  <2>1. M \in Nat /\ Len(qOut'[e]) = M /\ (n + 1) + M = n + Len(q)
    BY <1>5, <1>4, <1>t
  <2>2. \A i \in 1..M : qOut'[e][i] = sent[e][(n + 1) + i]
    <3> SUFFICES ASSUME NEW i \in 1..M PROVE qOut'[e][i] = sent[e][(n + 1) + i]
      OBVIOUS
    <3>1. i + 1 \in 1..Len(q) /\ n + (i + 1) = (n + 1) + i
      BY <2>1, <1>t
    <3>2. q[i + 1] = sent[e][n + (i + 1)]
      BY <3>1, <1>1 DEF Queued
    <3> QED
      BY <3>1, <3>2, <1>5
  <2>3. (n + 1) + Len(qOut'[e]) = n + Len(q) /\ n + 1 \in Nat
    <3>1. n + 1 \in Nat
      OBVIOUS
    <3> HIDE DEF M
    <3> QED
      BY <2>1, <3>1
  <2> HIDE DEF M
  <2>4. \A i \in 1..Len(qOut'[e]) : qOut'[e][i] = sent[e][(n + 1) + i]
    BY <2>1, <2>2
  <2> DEFINE K == n + Len(q)
  <2>5. /\ K <= N
        /\ \A i \in 1..Len(posted[e]) : ~Closing(e, i) =>
             /\ K + i <= N
             /\ posted[e][i] = SendTask(sent[e][K + i])
        /\ ~Closing(e, Len(posted[e])) => K + Len(posted[e]) = N
    BY <1>1 DEF Queued
  <2>6. (n + 1) + Len(qOut'[e]) = K
    BY <2>3
  <2> HIDE DEF K
  <2> QED
    BY <2>3, <2>4, <2>5, <2>6, <1>2 DEF Queued, Closing
<1>9. \A i \in DOMAIN wdone'[e] : i + 1 \in DOMAIN wdone[e] /\ wdone'[e][i] = wdone[e][i + 1]
  BY <1>2, <1>t
<1>10. \A i \in DOMAIN wdone'[e] : wdone'[e][i] \notin {"header", "body"}
  <2> SUFFICES ASSUME NEW i \in DOMAIN wdone'[e], wdone'[e][i] \in {"header", "body"} PROVE FALSE
    OBVIOUS
  <2>1. i + 1 = 1
    BY <1>4, <1>9 DEF MessageDone
  <2>2. i \in 1..Len(wdone'[e])
    BY <1>2, <1>t
  <2> QED
    BY <2>1, <2>2
<1>11. wq[e] = <<>>
  <2> SUFFICES ASSUME wq[e] # <<>> PROVE FALSE
    OBVIOUS
  <2>1. 1 \in DOMAIN wq[e] /\ wq[e][1] \in Ops
    BY <1>t
  <2>2. wq[e][1].kind # "validation"
    BY <2>1, <1>1 DEF Written
  <2> QED
    BY <2>1, <2>2, <1>4 DEF Some, MessageOps
<1>12. wq'[e] = <<>> \/ wq'[e] = <<Write("header")>>
  BY <1>2, <1>11 DEF NextWrite
<1>13. \A i \in DOMAIN wq'[e] : wq'[e][i].kind = "header"
  BY <1>12 DEF Write
<1>14. Written(e, n + 1, S)'
  <2>1. /\ link' # "down" /\ (e = "server" => sock'[e] # "none")
        /\ e = "client" => read'["client"] \notin {"connect", "validation"}
    BY <1>1, FlagsStay DEF Written
  <2> QED
    BY <1>7, <1>10, <1>13, <2>1 DEF Written
<1> QED
  BY <1>8, <1>14 DEF Writes

\* The client that answers has written nothing: the answer goes before its messages, or they
\* go first and the server finds out.
LEMMA AnswerWrites ==
  ASSUME PipeInv, AnswerValidation, NEW S, Writes("client", S), stream'["server"] = stream["server"]
  PROVE  Writes("client", S)'
<1>t. /\ TypeOK /\ "client" \in DOMAIN wq /\ wq["client"] \in Seq(Ops)
      /\ Peer("client") = "server"
  <2>1. TypeOK
    BY DEF PipeInv
  <2>2. "client" \in DOMAIN wq /\ wq["client"] \in Seq(Ops)
    BY <2>1, EndsFacts, EndTypes DEF TypeOK
  <2> QED
    BY <2>1, <2>2, EndsFacts
<1>1. PICK n \in Nat : /\ Queued("client", n)
                       /\ \/ n = 0 /\ NothingWritten("client", S)
                          \/ Written("client", n, S)
  BY DEF Writes
<1>2. n = 0 /\ NothingWritten("client", S)
  BY <1>1 DEF Written, AnswerValidation, Take
<1>3. /\ wq'["client"] = Append(wq["client"], Write("validation"))
      /\ UNCHANGED <<posted, sent, qOut, wdone>>
  BY <1>t DEF AnswerValidation, appVars
<1>4. Queued("client", n)'
  BY <1>1, <1>3 DEF Queued, Closing
<1>5. \A i \in DOMAIN wq'["client"] :
         \/ i \in DOMAIN wq["client"] /\ wq'["client"][i] = wq["client"][i]
         \/ wq'["client"][i] = Write("validation")
  BY <1>3, <1>t
<1>6. Write("validation").kind # "body"
  BY DEF Write
<1>7. NothingWritten("client", S)'
  <2>1. \A i \in DOMAIN wq'["client"] : wq'["client"][i].kind # "body"
    BY <1>2, <1>5, <1>6 DEF NothingWritten
  <2>2. stream'[Peer("client")] = <<>> /\ S[1] = 2 /\ wdone'["client"] = <<>>
    BY <1>2, <1>3, <1>t DEF NothingWritten
  <2> QED
    BY <2>1, <2>2 DEF NothingWritten
<1> QED
  BY <1>2, <1>4, <1>7 DEF Writes

\* What is posted last comes last; after a close nothing more is written.
LEMMA PostedLast ==
  ASSUME TypeOK, NEW e \in Ends, NEW n, Queued(e, n), NEW x \in TaskType,
         posted'[e] = Append(posted[e], x), qOut'[e] = qOut[e],
         \/ x = CloseTask /\ sent'[e] = sent[e]
         \/ \E m \in MessageType : x = SendTask(m) /\ sent'[e] = Append(sent[e], m)
  PROVE  Queued(e, n)'
<1> DEFINE T == posted[e]
           q == qOut[e]
           N == Len(sent[e])
           K == n + Len(qOut[e])
<1>t. /\ T \in Seq(TaskType) /\ q \in Seq(MessageType) /\ sent[e] \in Seq(MessageType)
      /\ Len(T) \in Nat /\ Len(q) \in Nat /\ N \in Nat /\ n \in Nat /\ K \in Nat
  <2>1. T \in Seq(TaskType) /\ q \in Seq(MessageType) /\ sent[e] \in Seq(MessageType)
    BY EndTypes
  <2>2. n \in Nat
    BY DEF Queued
  <2> QED
    BY <2>1, <2>2
<1>1. /\ Len(posted'[e]) = Len(T) + 1
      /\ \A i \in 1..Len(T) : posted'[e][i] = T[i]
      /\ posted'[e][Len(T) + 1] = x
  BY <1>t
<1>2. /\ sent'[e] \in Seq(MessageType) /\ Len(sent'[e]) \in Nat /\ Len(sent'[e]) >= N
      /\ \A i \in 1..N : sent'[e][i] = sent[e][i]
  <2>1. CASE sent'[e] = sent[e]
    BY <2>1, <1>t
  <2>2. ASSUME NEW m \in MessageType, sent'[e] = Append(sent[e], m)
        PROVE  /\ sent'[e] \in Seq(MessageType) /\ Len(sent'[e]) = N + 1
               /\ \A i \in 1..N : sent'[e][i] = sent[e][i]
    <3> HIDE DEF N
    <3>1. N = Len(sent[e])
      BY DEF N
    <3> QED
      BY <2>2, <3>1, <1>t, AppendProperties
  <2>3. Len(sent'[e]) = N + 1 => Len(sent'[e]) \in Nat /\ Len(sent'[e]) >= N
    BY <1>t
  <2> QED
    BY <2>1, <2>2, <2>3
<1>3. /\ K <= N
      /\ \A i \in 1..Len(q) : q[i] = sent[e][n + i]
      /\ \A i \in 1..Len(T) : ~Closing(e, i) => K + i <= N /\ T[i] = SendTask(sent[e][K + i])
      /\ ~Closing(e, Len(T)) => K + Len(T) = N
  BY DEF Queued
<1>4. \A i \in 1..Len(q) : q[i] = sent'[e][n + i]
  <2> SUFFICES ASSUME NEW i \in 1..Len(q) PROVE q[i] = sent'[e][n + i]
    OBVIOUS
  <2>1. n + i \in 1..N
    BY <1>3, <1>t
  <2> QED
    BY <2>1, <1>2, <1>3
<1>5. ASSUME NEW i \in 1..Len(T), ~\E j \in 1..i : posted'[e][j] = CloseTask
      PROVE  K + i <= Len(sent'[e]) /\ posted'[e][i] = SendTask(sent'[e][K + i])
  <2>1. ~Closing(e, i)
    <3>1. \A j \in 1..i : posted'[e][j] = T[j]
      BY <1>1, <1>t
    <3> QED
      BY <3>1, <1>5 DEF Closing
  <2>2. K + i <= N /\ T[i] = SendTask(sent[e][K + i])
    BY <2>1, <1>3
  <2>3. K + i \in 1..N
    BY <2>2, <1>t
  <2>4. sent'[e][K + i] = sent[e][K + i] /\ posted'[e][i] = T[i]
    BY <2>3, <1>1, <1>2, <1>t
  <2>5. K + i <= Len(sent'[e])
    BY <2>3, <1>2, <1>t
  <2> QED
    BY <2>2, <2>4, <2>5
<1>6. ASSUME ~\E j \in 1..(Len(T) + 1) : posted'[e][j] = CloseTask
      PROVE  /\ K + (Len(T) + 1) = Len(sent'[e])
             /\ posted'[e][Len(T) + 1] = SendTask(sent'[e][K + (Len(T) + 1)])
  <2>1. ~Closing(e, Len(T))
    <3>1. \A j \in 1..Len(T) : posted'[e][j] = T[j] /\ j \in 1..(Len(T) + 1)
      BY <1>1, <1>t
    <3> QED
      BY <3>1, <1>6 DEF Closing
  <2>2. K + Len(T) = N
    BY <2>1, <1>3
  <2>3. x # CloseTask
    <3>1. Len(T) + 1 \in 1..(Len(T) + 1)
      BY <1>t
    <3> QED
      BY <3>1, <1>1, <1>6
  <2>4. PICK m \in MessageType : x = SendTask(m) /\ sent'[e] = Append(sent[e], m)
    BY <2>3
  <2>5. Len(sent'[e]) = N + 1 /\ sent'[e][N + 1] = m
    <3>1. \A s \in Seq(MessageType) : /\ Len(Append(s, m)) = Len(s) + 1
                                      /\ Append(s, m)[Len(s) + 1] = m
      OBVIOUS
    <3>2. /\ Len(Append(sent[e], m)) = N + 1
          /\ Append(sent[e], m)[N + 1] = m
      BY <3>1, <1>t
    <3> QED
      BY <2>4, <3>2
  <2>6. K + (Len(T) + 1) = N + 1
    <3>1. \A a, b, c \in Nat : a + b = c => a + (b + 1) = c + 1
      OBVIOUS
    <3>2. K \in Nat /\ Len(T) \in Nat /\ N \in Nat
      BY <1>t
    <3> HIDE DEF K, N, T
    <3> QED
      BY <2>2, <3>1, <3>2
  <2> QED
    BY <2>4, <2>5, <2>6, <1>1
<1>7. ASSUME NEW i \in 1..(Len(T) + 1), ~\E j \in 1..i : posted'[e][j] = CloseTask
      PROVE  K + i <= Len(sent'[e]) /\ posted'[e][i] = SendTask(sent'[e][K + i])
  <2>1. CASE i \in 1..Len(T)
    BY <2>1, <1>5, <1>7
  <2>2. CASE i = Len(T) + 1
    <3>1. K + i = Len(sent'[e])
      BY <2>2, <1>6, <1>7
    <3> QED
      BY <3>1, <2>2, <1>6, <1>7, <1>2
  <2> QED
    BY <2>1, <2>2, <1>t
<1>8. K <= Len(sent'[e])
  BY <1>2, <1>3, <1>t
<1>9. n + Len(qOut'[e]) = K /\ Len(qOut'[e]) = Len(q)
  OBVIOUS
<1> HIDE DEF K, T
<1> QED
  BY <1>1, <1>4, <1>6, <1>7, <1>8, <1>9, <1>t DEF Queued, Closing

\* One more message waits behind the others: what has been written is the same.
LEMMA PostedWrites ==
  ASSUME PipeInv, [Next]_vars, NEW e \in Ends, NEW S, Writes(e, S), NEW x \in TaskType,
         posted'[e] = Append(posted[e], x),
         \/ x = CloseTask /\ sent'[e] = sent[e]
         \/ \E m \in MessageType : x = SendTask(m) /\ sent'[e] = Append(sent[e], m),
         UNCHANGED <<qOut, wq, wdone, sock>>, stream'[Peer(e)] = stream[Peer(e)],
         NEW Z, \A k \in 1..Len(sent[e]) + 1 : Z[k] = S[k]
  PROVE  Writes(e, Z)'
<1>t. /\ TypeOK /\ WriteOK(e) /\ Len(sent[e]) \in Nat /\ Len(qOut[e]) \in Nat
      /\ qOut[e] \in Seq(MessageType)
      /\ wq[e] \in Seq(Ops) /\ wdone[e] \in Seq(WriteKinds)
  <2>1. TypeOK /\ WriteOK(e)
    BY DEF PipeInv
  <2>2. sent[e] \in Seq(MessageType) /\ qOut[e] \in Seq(MessageType)
        /\ wq[e] \in Seq(Ops) /\ wdone[e] \in Seq(WriteKinds)
    BY <2>1, EndTypes
  <2> QED
    BY <2>1, <2>2
<1>1. PICK n \in Nat : /\ Queued(e, n)
                       /\ \/ n = 0 /\ NothingWritten(e, S)
                          \/ Written(e, n, S)
  BY DEF Writes
<1>2. Queued(e, n)'
  BY <1>1, <1>t, PostedLast
<1>3. Z[1] = S[1]
  BY <1>t
<1>4. NothingWritten(e, S) => NothingWritten(e, Z)'
  BY <1>3 DEF NothingWritten
<1>5. Z[n + 1] = S[n + 1] /\ (qOut[e] # <<>> => Z[n + 2] = S[n + 2])
  <2>1. n + Len(qOut[e]) <= Len(sent[e])
    BY <1>1 DEF Queued
  <2>2. n + 1 \in 1..Len(sent[e]) + 1 /\ (qOut[e] # <<>> => n + 2 \in 1..Len(sent[e]) + 1)
    BY <1>1, <1>t, <2>1
  <2> QED
    BY <2>2
<1>6. \A i \in DOMAIN wdone[e] : wdone[e][i] = "body" => qOut[e] # <<>>
  BY <1>t DEF WriteOK, Busy, Some, MessageDone
<1>7. Written(e, n, S) => Written(e, n, Z)'
  BY <1>5, <1>6, FlagsStay DEF Written
<1> QED
  BY <1>1, <1>2, <1>4, <1>7 DEF Writes

\* What the reader has found stays so when more is sent.
LEMMA ReadsKept ==
  ASSUME PipeInv, NEW e \in Ends, ReaderSame(Peer(e)), NEW S, Reads(Peer(e), S),
         Len(inbox[Peer(e)]) <= Len(sent[e]),
         Len(sent'[e]) \in Nat, Len(sent'[e]) >= Len(sent[e]),
         \A k \in 1..Len(sent[e]) : sent'[e][k] = sent[e][k],
         NEW Z, \A k \in 1..Len(sent[e]) + 1 : Z[k] = S[k]
  PROVE  Reads(Peer(e), Z)'
<1> DEFINE p == Peer(e)
           n == Len(inbox[Peer(e)])
<1>t. n \in Nat /\ Len(sent[e]) \in Nat /\ Peer(p) = e
  <2>1. TypeOK /\ p \in Ends /\ Peer(p) = e
    BY EndsFacts DEF PipeInv
  <2>2. inbox[p] \in Seq(MessageType) /\ sent[e] \in Seq(MessageType)
    BY <2>1, EndTypes
  <2> QED
    BY <2>1, <2>2
<1>1. Z[n + 1] = S[n + 1] /\ Z[1] = S[1]
  <2>1. n + 1 \in 1..Len(sent[e]) + 1 /\ 1 \in 1..Len(sent[e]) + 1
    BY <1>t
  <2> QED
    BY <2>1
<1>2. n < Len(sent[e]) => n < Len(sent'[e]) /\ sent'[e][n + 1] = sent[e][n + 1]
  <2>1. n < Len(sent[e]) => n + 1 \in 1..Len(sent[e]) /\ n < Len(sent'[e])
    BY <1>t
  <2> QED
    BY <2>1
<1> QED
  BY <1>1, <1>2, <1>t DEF Reads, ReaderSame

\* What a call of Send or of OnMessage posts, and for which message.
LEMMA PostFacts ==
  ASSUME PipeInv, SentInv, MatchInv, NEW e \in Ends,
         (\E m \in Outgoing[e] : Send(e, m)) \/ (e = "server" /\ Bounce)
  PROVE  /\ UNCHANGED <<qOut, wq, wdone, sock>>
         /\ \E m \in MessageType :
              /\ m \in Outgoing["client"] \cup Outgoing[e]
              /\ posted' = [posted EXCEPT ![e] = Append(@, SendTask(m))]
              /\ sent' = [sent EXCEPT ![e] = Append(@, m)]
              /\ SendTask(m) \in TaskType
<1>t. TypeOK
  BY DEF PipeInv
<1>1. UNCHANGED <<qOut, wq, wdone, sock>>
  BY DEF Send, Bounce, outVars
<1>2. \A m \in MessageType : SendTask(m) \in TaskType
  BY DEF SendTask, TaskType
<1>3. ASSUME NEW m \in Outgoing[e], Send(e, m)
      PROVE  \E x \in MessageType :
               /\ x \in Outgoing["client"] \cup Outgoing[e]
               /\ posted' = [posted EXCEPT ![e] = Append(@, SendTask(x))]
               /\ sent' = [sent EXCEPT ![e] = Append(@, x)]
               /\ SendTask(x) \in TaskType
  BY <1>2, <1>3, OutgoingAssumption DEF Send, Post
<1>4. ASSUME e = "server", Bounce
      PROVE  \E x \in MessageType :
               /\ x \in Outgoing["client"] \cup Outgoing[e]
               /\ posted' = [posted EXCEPT ![e] = Append(@, SendTask(x))]
               /\ sent' = [sent EXCEPT ![e] = Append(@, x)]
               /\ SendTask(x) \in TaskType
  <2>1. PICK i \in DOMAIN inbox["server"] :
              inbox["server"][i].id \in Bounced /\ Post("server", inbox["server"][i])
    BY <1>4 DEF Bounce
  <2> DEFINE m == inbox["server"][i]
             o == sent["client"][i]
  <2>2. inbox["server"] \in Seq(MessageType) /\ sent["client"] \in Seq(MessageType)
        /\ Len(inbox["server"]) <= Len(sent["client"]) /\ Same(m, o)
    BY <1>t, EndTypes, EndsFacts DEF MatchInv
  <2>3. m \in MessageType /\ i \in DOMAIN sent["client"]
    BY <2>2
  <2>4. o \in Outgoing["client"]
    BY <2>3 DEF SentInv
  <2>5. o \in MessageType /\ WellFormed(o)
    BY <2>4, OutgoingAssumption, EndsFacts
  <2>6. o.body # <<>>
    BY <2>1, <2>2, <2>4, BounceAssumption DEF Same
  <2>7. o.size > EightBytes
    <3>1. o.body \in Seq(CellType) /\ o.size \in Nat
      BY <2>5 DEF MessageType
    <3>2. Len(o.body) # 0
      BY <2>6, <3>1
    <3> QED
      BY <2>5, <3>1, <3>2 DEF WellFormed, BodyLength
  <2>8. m = o
    <3>1. m.id = o.id /\ m.size = o.size /\ m.body = o.body
      BY <2>2, <2>7 DEF Same
    <3> HIDE DEF m, o
    <3> QED
      BY <2>3, <2>5, <3>1 DEF MessageType
  <2>9. Post("server", o)
    BY <2>1, <2>8
  <2> HIDE DEF o
  <2> QED
    BY <1>2, <1>4, <2>4, <2>5, <2>9 DEF Post
<1> QED
  BY <1>1, <1>3, <1>4

\* A message that is sent has its place after the others.
LEMMA PostStep ==
  ASSUME PipeInv, SentInv, MatchInv, [Next]_vars, NEW e \in Ends, ReaderSame(Peer(e)), Good(e),
         (\E m \in Outgoing[e] : Send(e, m)) \/ (e = "server" /\ Bounce)
  PROVE  Good(e)' /\ \E m \in MessageType : sent'[e] = Append(sent[e], m)
<1> DEFINE p == Peer(e)
<1>t. /\ TypeOK /\ e \in DOMAIN posted /\ e \in DOMAIN sent
      /\ sent[e] \in Seq(MessageType) /\ stream[p] \in Seq(CellType)
      /\ Len(inbox[p]) <= Len(sent[e])
  <2>1. TypeOK /\ p \in Ends
    BY EndsFacts DEF PipeInv
  <2>2. e \in DOMAIN posted /\ e \in DOMAIN sent
    BY <2>1 DEF TypeOK
  <2>3. sent[e] \in Seq(MessageType) /\ stream[p] \in Seq(CellType)
    BY <2>1, EndTypes
  <2> QED
    BY <2>1, <2>2, <2>3 DEF MatchInv
<1>1. PICK S : Framed(sent[e], stream[p], S) /\ Reads(p, S) /\ (Cut \/ Writes(e, S))
  BY DEF Good
<1>2. PICK m \in MessageType :
        /\ posted' = [posted EXCEPT ![e] = Append(@, SendTask(m))]
        /\ sent' = [sent EXCEPT ![e] = Append(@, m)]
        /\ SendTask(m) \in TaskType
        /\ UNCHANGED <<qOut, wq, wdone, sock>>
  BY PostFacts
<1>3. posted'[e] = Append(posted[e], SendTask(m)) /\ sent'[e] = Append(sent[e], m)
  BY <1>2, <1>t
<1>4. PICK Z : /\ Framed(sent'[e], stream[p], Z)
               /\ \A k \in 1..Len(sent[e]) + 1 : Z[k] = S[k]
  BY <1>1, <1>3, <1>t, FramedSend
<1>5. stream'[p] = stream[p]
  BY DEF ReaderSame
<1>6. /\ Len(sent'[e]) \in Nat /\ Len(sent'[e]) >= Len(sent[e])
      /\ \A k \in 1..Len(sent[e]) : sent'[e][k] = sent[e][k]
  BY <1>3, <1>t
<1>7. Reads(p, Z)'
  <2>1. Reads(p, S) /\ \A k \in 1..Len(sent[e]) + 1 : Z[k] = S[k]
    BY <1>1, <1>4
  <2>2. Len(inbox[p]) <= Len(sent[e])
    BY <1>t
  <2> QED
    BY <2>1, <2>2, <1>6, ReadsKept
<1>8. Cut' \/ Writes(e, Z)'
  <2>1. CASE Cut
    BY <2>1, CutStays
  <2>2. CASE Writes(e, S)
    <3> HIDE DEF p
    <3>1. stream'[Peer(e)] = stream[Peer(e)]
      BY <1>5 DEF p
    <3>2. UNCHANGED <<qOut, wq, wdone, sock>> /\ SendTask(m) \in TaskType
      BY <1>2
    <3>3. \A k \in 1..Len(sent[e]) + 1 : Z[k] = S[k]
      BY <1>4
    <3>4. \E x \in MessageType : SendTask(m) = SendTask(x) /\ sent'[e] = Append(sent[e], x)
      BY <1>3
    <3> QED
      BY <2>2, <1>3, <3>1, <3>2, <3>3, <3>4, PostedWrites
  <2> QED
    BY <1>1, <2>1, <2>2
<1> QED
  BY <1>3, <1>4, <1>5, <1>7, <1>8 DEF Good

\* What OnClientConnection sends is nothing, or a message of the server's.
LEMMA GreetingShape ==
  ASSUME NEW g \in Greetings
  PROVE  /\ g \in Seq(MessageType) /\ Len(g) \in Nat
         /\ g = <<>> \/ \E m \in Outgoing["server"] : m \in MessageType /\ g = Append(<<>>, m)
<1>1. g \in Seq(Outgoing["server"]) /\ Outgoing["server"] \subseteq MessageType /\ Len(g) <= 1
  BY OutgoingAssumption, EndsFacts
<1>2. g \in Seq(MessageType) /\ Len(g) \in Nat
  BY <1>1
<1>3. CASE Len(g) = 0
  BY <1>2, <1>3
<1>4. CASE Len(g) = 1
  <2>1. g[1] \in Outgoing["server"] /\ g[1] \in MessageType
    BY <1>1, <1>4
  <2>2. \A m \in MessageType : /\ Append(<<>>, m) \in Seq(MessageType)
                               /\ Len(Append(<<>>, m)) = 1 /\ Append(<<>>, m)[1] = m
    BY EmptySeq, AppendProperties
  <2>3. \A s, u \in Seq(MessageType) : Len(s) = 1 /\ Len(u) = 1 /\ s[1] = u[1] => s = u
    OBVIOUS
  <2>4. PICK m \in MessageType : m = g[1]
    BY <2>1
  <2>5. PICK u \in Seq(MessageType) : u = Append(<<>>, m) /\ Len(u) = 1 /\ u[1] = m
    BY <2>2
  <2>6. g = u
    BY <1>2, <1>4, <2>3, <2>4, <2>5
  <2>7. g = Append(<<>>, m) /\ m \in Outgoing["server"]
    BY <2>1, <2>4, <2>5, <2>6
  <2> QED
    BY <1>2, <2>7
<1>5. Len(g) = 0 \/ Len(g) = 1
  <2>1. \A l \in Nat : l <= 1 => l = 0 \/ l = 1
    OBVIOUS
  <2> QED
    BY <1>1, <1>2, <2>1
<1> QED
  BY <1>2, <1>3, <1>4, <1>5

\* What OnClientConnection sends is the first message; the validation word goes before it.
LEMMA AcceptStep ==
  ASSUME PipeInv, MatchInv, [Next]_vars, ReaderSame("client"), Good("server"),
         NEW g \in Greetings, Accept(g)
  PROVE  /\ Good("server")'
         /\ \/ sent'["server"] = sent["server"]
            \/ \E m \in MessageType : sent'["server"] = Append(sent["server"], m)
<1>t. /\ TypeOK /\ Peer("server") = "client" /\ Peer("client") = "server"
      /\ "client" \in Ends /\ "server" \in Ends
      /\ "server" \in DOMAIN posted /\ "server" \in DOMAIN sent /\ "server" \in DOMAIN wq
      /\ stream["client"] \in Seq(CellType)
  <2>1. TypeOK
    BY DEF PipeInv
  <2>2. "server" \in DOMAIN posted /\ "server" \in DOMAIN sent /\ "server" \in DOMAIN wq
    BY <2>1, EndsFacts DEF TypeOK
  <2>3. stream["client"] \in Seq(CellType)
    BY <2>1, EndTypes, EndsFacts
  <2> QED
    BY <2>1, <2>2, <2>3, EndsFacts
<1>1. PICK S : /\ Framed(sent["server"], stream["client"], S)
               /\ Reads("client", S) /\ (Cut \/ Writes("server", S))
  BY <1>t DEF Good
<1>2. /\ sock["server"] = "none" /\ posted["server"] = <<>> /\ qOut["server"] = <<>>
      /\ wdone["server"] = <<>> /\ sent["server"] = <<>>
  BY DEF Accept, PipeInv, StartInv
<1>4. g \in Seq(MessageType) /\ Len(g) \in Nat
  BY GreetingShape
<1>5. g = <<>> \/ \E m \in MessageType : g = Append(<<>>, m)
  BY GreetingShape
<1>6. /\ sent'["server"] = g /\ wq'["server"] = <<Write("validation")>>
      /\ posted'["server"] = [i \in DOMAIN g |-> SendTask(g[i])]
      /\ UNCHANGED <<stream, qOut, wdone>>
  BY <1>t DEF Accept, ConnectToClient, netVars
<1>7. PICK Z : /\ Framed(g, stream["client"], Z)
               /\ \A k \in 1..Len(sent["server"]) + 1 : Z[k] = S[k]
  <2>1. CASE g = <<>>
    BY <2>1, <1>1, <1>2
  <2>2. ASSUME NEW m \in MessageType, g = Append(<<>>, m)
        PROVE  \E Z : /\ Framed(g, stream["client"], Z)
                      /\ \A k \in 1..Len(sent["server"]) + 1 : Z[k] = S[k]
    <3>1. sent["server"] \in Seq(MessageType)
      BY <1>2
    <3>2. /\ Framed(Append(sent["server"], m), stream["client"], Longer(S, Len(sent["server"]), m))
          /\ \A k \in 1..Len(sent["server"]) + 1 : Longer(S, Len(sent["server"]), m)[k] = S[k]
      BY <3>1, <1>1, <1>t, FramedSend
    <3>3. g = Append(sent["server"], m)
      BY <2>2, <1>2
    <3> QED
      BY <3>2, <3>3
  <2> QED
    BY <1>5, <2>1, <2>2
<1>8. Z[1] = S[1]
  BY <1>2, <1>7
<1>9. Reads("client", Z)'
  <2>1. Len(inbox["client"]) <= Len(sent["server"])
    BY <1>t DEF MatchInv
  <2>2. /\ Len(sent'["server"]) \in Nat /\ Len(sent'["server"]) >= Len(sent["server"])
        /\ \A k \in 1..Len(sent["server"]) : sent'["server"][k] = sent["server"][k]
    BY <1>2, <1>4, <1>6
  <2>3. ReaderSame(Peer("server")) /\ Reads(Peer("server"), S)
    BY <1>1, <1>t
  <2>4. Reads(Peer("server"), Z)'
    BY <1>7, <1>t, <2>1, <2>2, <2>3, ReadsKept
  <2> QED
    BY <2>4, <1>t
<1>10. CASE Cut
  <2>1. Cut'
    BY <1>10, CutStays
  <2> QED
    BY <1>5, <1>2, <1>6, <1>7, <1>9, <1>t, <2>1 DEF Good
<1>11. CASE Writes("server", S)
  <2>1. NothingWritten("server", S)
    BY <1>11, <1>2 DEF Writes, Written
  <2>2. NothingWritten("server", Z)'
    <3>1. \A i \in DOMAIN wq'["server"] : wq'["server"][i] = Write("validation")
      BY <1>6
    <3>2. wq'["server"] # <<>> /\ Head(wq'["server"]) = Write("validation")
      BY <1>6
    <3>3. Write("validation").kind = "validation"
      BY DEF Write
    <3> QED
      BY <2>1, <3>1, <3>2, <3>3, <1>6, <1>8 DEF NothingWritten
  <2>3. Queued("server", 0)'
    <3>1. /\ Len(posted'["server"]) = Len(g) /\ qOut'["server"] = <<>>
          /\ \A i \in 1..Len(g) : posted'["server"][i] = SendTask(g[i])
      <4>1. DOMAIN g = 1..Len(g)
        BY <1>4
      <4> QED
        BY <1>2, <1>4, <1>6, <4>1
    <3>2. /\ Len(qOut'["server"]) = 0
          /\ \A i \in 1..Len(g) : 0 + 0 + i = i
          /\ 0 + 0 + Len(g) = Len(g) /\ 0 + 0 <= Len(g)
      BY <3>1, <1>4
    <3> QED
      BY <3>1, <3>2, <1>4, <1>6 DEF Queued
  <2>4. Writes("server", Z)'
    BY <2>2, <2>3 DEF Writes
  <2> QED
    BY <1>5, <1>2, <1>6, <1>7, <1>9, <1>t, <2>4 DEF Good
<1> QED
  BY <1>1, <1>10, <1>11

\* A handler of the sender keeps the framing.
LEMMA SenderStep ==
  ASSUME PipeInv, SentInv, MatchInv, [Next]_vars, NEW e \in Ends, ReaderSame(Peer(e)), Good(e),
         SenderAct(e)
  PROVE  /\ Good(e)'
         /\ \/ sent'[e] = sent[e]
            \/ \E m \in MessageType : sent'[e] = Append(sent[e], m)
<1> DEFINE p == Peer(e)
<1>t. /\ TypeOK /\ e \in DOMAIN posted /\ e \in DOMAIN sock
      /\ Len(sent[e]) \in Nat /\ Len(inbox[p]) <= Len(sent[e])
      /\ (e = "client" => p = "server")
  <2>1. TypeOK /\ (e = "client" => p = "server")
    BY EndsFacts DEF PipeInv
  <2>2. e \in DOMAIN posted /\ e \in DOMAIN sock
    BY <2>1 DEF TypeOK
  <2>3. sent[e] \in Seq(MessageType)
    BY <2>1, EndTypes
  <2> QED
    BY <2>1, <2>2, <2>3 DEF MatchInv
<1>1. PICK S : Framed(sent[e], stream[p], S) /\ Reads(p, S) /\ (Cut \/ Writes(e, S))
  BY DEF Good
<1>2. stream'[p] = stream[p]
  BY DEF ReaderSame
<1>3. ASSUME sent'[e] = sent[e], Cut' \/ Writes(e, S)' PROVE Good(e)' /\ sent'[e] = sent[e]
  <2>1. Reads(p, S)'
    BY <1>1, <1>3, <1>t, ReadsKept
  <2> QED
    BY <1>1, <1>2, <1>3, <2>1 DEF Good
<1>4. Cut => Cut'
  BY CutStays
<1>5. CASE RunSend(e)
  <2>1. sent'[e] = sent[e]
    BY <1>5 DEF RunSend
  <2>2. Writes(e, S) => Writes(e, S)'
    BY <1>2, <1>5, RunSendWrites
  <2> QED
    BY <1>1, <1>3, <1>4, <2>1, <2>2
<1>6. CASE RunClose(e) \/ OnWriteError(e)
  <2>1. sent' = sent /\ sock'[e] = "closed"
    BY <1>6, <1>t DEF RunClose, OnWriteError, appVars
  <2> QED
    BY <2>1, <1>3 DEF Cut
<1>7. CASE OnValidationWritten(e)
  <2>1. sent'[e] = sent[e]
    BY <1>7 DEF OnValidationWritten, appVars
  <2>2. Writes(e, S) => Writes(e, S)'
    BY <1>2, <1>7, ValidationWrittenWrites
  <2> QED
    BY <1>1, <1>3, <1>4, <2>1, <2>2
<1>8. CASE OnMessageWritten(e)
  <2>1. sent'[e] = sent[e]
    BY <1>8 DEF OnMessageWritten, appVars
  <2>2. Writes(e, S) => Writes(e, S)'
    BY <1>1, <1>2, <1>8, BodyGoesOn, NextGoesOn
  <2> QED
    BY <1>1, <1>3, <1>4, <2>1, <2>2
<1>9. CASE e = "client" /\ AnswerValidation
  <2>1. sent'[e] = sent[e]
    BY <1>9 DEF AnswerValidation, appVars
  <2>2. Writes(e, S) => Writes(e, S)'
    BY <1>2, <1>9, <1>t, AnswerWrites
  <2> QED
    BY <1>1, <1>3, <1>4, <2>1, <2>2
<1>10. CASE e = "client" /\ Disconnect
  <2>1. sent'[e] = sent[e] /\ posted'[e] = Append(posted[e], CloseTask)
        /\ UNCHANGED <<qOut, wq, wdone, sock>>
    BY <1>10, <1>t DEF Disconnect, outVars
  <2>2. CloseTask \in TaskType
    BY DEF TaskType
  <2>3. Writes(e, S) => Writes(e, S)'
    BY <1>2, <2>1, <2>2, PostedWrites
  <2> QED
    BY <1>1, <1>3, <1>4, <2>1, <2>3
<1>11. CASE (\E m \in Outgoing[e] : Send(e, m)) \/ (e = "server" /\ Bounce)
  BY <1>11, PostStep
<1>12. CASE e = "server" /\ \E g \in Greetings : Accept(g)
  BY <1>12, AcceptStep, EndsFacts
<1> QED
  BY <1>5, <1>6, <1>7, <1>8, <1>9, <1>10, <1>11, <1>12 DEF SenderAct

-----------------------------------------------------------------------------
(* The steps of the network.                                               *)

\* Only the message of place k0 has cells between its place and the next.
LEMMA PlaceFacts ==
  ASSUME NEW N \in Nat, NEW S \in [1..N + 1 -> Int],
         \A k, l \in 1..N + 1 : k < l => S[k] < S[l], NEW k0 \in 1..N
  PROVE  /\ S[k0 + 1] <= S[N + 1]
         /\ \A k \in 1..N, i \in Int : /\ S[k0] <= i /\ i < S[k0 + 1]
                                      /\ S[k] <= i /\ (i < S[k + 1] \/ i = S[k])
                                      => k = k0
<1>1. /\ k0 \in 1..N + 1 /\ k0 + 1 \in 1..N + 1 /\ N + 1 \in 1..N + 1
      /\ \A k \in 1..N : k \in 1..N + 1 /\ k + 1 \in 1..N + 1
  OBVIOUS
<1>2. \A k \in 1..N + 1 : S[k] \in Int
  OBVIOUS
<1>3. S[k0 + 1] <= S[N + 1]
  <2>1. k0 + 1 = N + 1 \/ k0 + 1 < N + 1
    OBVIOUS
  <2>2. S[k0 + 1] = S[N + 1] \/ S[k0 + 1] < S[N + 1]
    BY <2>1, <1>1
  <2> QED
    BY <2>2, <1>1, <1>2
<1>4. ASSUME NEW k \in 1..N, NEW i \in Int, S[k0] <= i, i < S[k0 + 1],
             S[k] <= i, i < S[k + 1] \/ i = S[k]
      PROVE  k = k0
  <2>2. S[k] \in Int /\ S[k + 1] \in Int /\ S[k0] \in Int /\ S[k0 + 1] \in Int
    BY <1>1, <1>2
  <2>3. k < k0 => (S[k + 1] = S[k0] \/ S[k + 1] < S[k0]) /\ S[k] < S[k0]
    <3>1. k < k0 => k + 1 = k0 \/ k + 1 < k0
      OBVIOUS
    <3> QED
      BY <3>1, <1>1
  <2>4. k0 < k => S[k0 + 1] = S[k] \/ S[k0 + 1] < S[k]
    <3>1. k0 < k => k0 + 1 = k \/ k0 + 1 < k
      OBVIOUS
    <3> QED
      BY <3>1, <1>1
  <2>5. k = k0 \/ k < k0 \/ k0 < k
    OBVIOUS
  <2> QED
    BY <1>4, <2>2, <2>3, <2>4, <2>5
<1> QED
  BY <1>3, <1>4

LEMMA ConcatFacts ==
  ASSUME NEW T, NEW s \in Seq(T), NEW c \in Seq(T)
  PROVE  /\ s \o c \in Seq(T) /\ Len(s \o c) = Len(s) + Len(c)
         /\ \A i \in 1..Len(s) : (s \o c)[i] = s[i]
         /\ \A i \in Len(s) + 1..Len(s) + Len(c) : (s \o c)[i] = c[i - Len(s)]
OBVIOUS

\* The cells c are cells of the message m, from its a-th on: its header is the 0-th.
Piece(c, m, a) == /\ c \in Seq(CellType) /\ Len(c) \in Nat \ {0} /\ a + Len(c) <= 1 + Len(m.body)
                  /\ \A t \in 1..Len(c) : c[t] = IF a + t - 1 = 0 THEN HeaderCell(m)
                                                 ELSE m.body[a + t - 1]

\* The next cell of st is the a-th of the message of place k0.
EndsAt(st, S, k0, a) == Len(st) + 1 = S[k0] + a

\* Cells of the message of place k0 arrive.
LEMMA FramedMore ==
  ASSUME NEW snt \in Seq(MessageType), NEW S, NEW st \in Seq(CellType), Framed(snt, st, S),
         NEW k0 \in 1..Len(snt), NEW a \in Nat, EndsAt(st, S, k0, a),
         NEW c, Piece(c, snt[k0], a)
  PROVE  Framed(snt, st \o c, S) /\ Len(st \o c) + 1 = S[k0] + a + Len(c)
<1>t. /\ Len(snt) \in Nat /\ Len(st) \in Nat /\ Len(snt[k0].body) \in Nat
      /\ c \in Seq(CellType) /\ Len(c) \in Nat \ {0}
      /\ S \in [1..Len(snt) + 1 -> Int] /\ (\A k, l \in 1..Len(snt) + 1 : k < l => S[k] < S[l])
      /\ S[k0 + 1] = S[k0] + 1 + Len(snt[k0].body) /\ a + Len(c) <= 1 + Len(snt[k0].body)
  <2>1. Len(snt) \in Nat /\ Len(st) \in Nat /\ Len(snt[k0].body) \in Nat
    BY DEF MessageType
  <2>2. c \in Seq(CellType) /\ Len(c) \in Nat \ {0} /\ a + Len(c) <= 1 + Len(snt[k0].body)
    BY DEF Piece
  <2>3. S \in [1..Len(snt) + 1 -> Int] /\ (\A k, l \in 1..Len(snt) + 1 : k < l => S[k] < S[l])
        /\ S[k0 + 1] = S[k0] + 1 + Len(snt[k0].body)
    BY DEF Framed
  <2> QED
    BY <2>1, <2>2, <2>3
<1>i. /\ S[k0] \in Int /\ S[k0 + 1] \in Int
      /\ \A k \in 1..Len(snt) : S[k] \in Int
  <2>1. k0 \in 1..Len(snt) + 1 /\ k0 + 1 \in 1..Len(snt) + 1
        /\ \A k \in 1..Len(snt) : k \in 1..Len(snt) + 1
    BY <1>t
  <2> QED
    BY <1>t, <2>1
<1>1. /\ st \o c \in Seq(CellType) /\ Len(st \o c) = Len(st) + Len(c)
      /\ \A i \in 1..Len(st) : (st \o c)[i] = st[i]
      /\ \A i \in Len(st) + 1..Len(st) + Len(c) : (st \o c)[i] = c[i - Len(st)]
  BY <1>t, ConcatFacts
<1>2. PICK x \in Nat, y \in Int, z \in Int, b \in Nat, l \in Nat \ {0} :
        x = Len(st) /\ y = S[k0] /\ z = S[k0 + 1] /\ b = Len(snt[k0].body) /\ l = Len(c)
  BY <1>t, <1>i
<1>b. x + 1 = y + a /\ z = y + 1 + b /\ a + l <= 1 + b
  BY <1>2, <1>t DEF EndsAt
<1>3. /\ y <= x + 1 /\ x + l < z /\ x + 1 \in Int /\ x + l \in Int
      /\ x + l + 1 = y + a + l
      /\ \A i \in Int : a + (i - x) - 1 = i - y
  BY <1>b
<1>4. /\ x + l < S[Len(snt) + 1]
      /\ \A k \in 1..Len(snt), i \in x + 1..x + l :
            S[k] <= i /\ (i < S[k + 1] \/ i = S[k]) => k = k0
  <2>1. PICK N \in Nat : N = Len(snt)
    BY <1>t
  <2>2. S \in [1..N + 1 -> Int] /\ (\A k, m \in 1..N + 1 : k < m => S[k] < S[m]) /\ k0 \in 1..N
    BY <2>1, <1>t
  <2>3. /\ z <= S[N + 1] /\ S[N + 1] \in Int
        /\ \A k \in 1..N, i \in Int : /\ y <= i /\ i < z
                                     /\ S[k] <= i /\ (i < S[k + 1] \/ i = S[k])
                                     => k = k0
    <3>1. S[N + 1] \in Int
      <4>1. N + 1 \in 1..N + 1
        OBVIOUS
      <4> QED
        BY <2>2, <4>1
    <3>2. /\ S[k0 + 1] <= S[N + 1]
          /\ \A k \in 1..N, i \in Int : /\ S[k0] <= i /\ i < S[k0 + 1]
                                       /\ S[k] <= i /\ (i < S[k + 1] \/ i = S[k])
                                       => k = k0
      BY <2>2, PlaceFacts
    <3>3. y = S[k0] /\ z = S[k0 + 1]
      BY <1>2
    <3> QED
      BY <3>1, <3>2, <3>3
  <2>4. x + l < S[N + 1]
    <3>1. PICK w \in Int, hi \in Int : w = S[N + 1] /\ hi = x + l
      BY <1>3, <2>3
    <3>2. hi < z /\ z <= w
      BY <1>3, <2>3, <3>1
    <3>3. hi < w
      BY <3>1, <3>2, <1>2
    <3> QED
      BY <3>1, <3>3
  <2>5. \A i \in x + 1..x + l : i \in Int /\ y <= i /\ i < z
    <3>1. PICK lo \in Int, hi \in Int : lo = x + 1 /\ hi = x + l /\ y <= lo /\ hi < z
      BY <1>3
    <3>2. \A i \in lo..hi : i \in Int /\ lo <= i /\ i <= hi
      OBVIOUS
    <3>3. \A i \in Int : (lo <= i => y <= i) /\ (i <= hi => i < z)
      BY <3>1
    <3> QED
      BY <3>1, <3>2, <3>3
  <2> QED
    BY <2>1, <2>3, <2>4, <2>5
<1>5. ASSUME NEW k \in 1..Len(snt), NEW i \in Len(st) + 1..Len(st) + Len(c)
      PROVE  /\ i = S[k] => (st \o c)[i] = HeaderCell(snt[k])
             /\ S[k] < i /\ i < S[k + 1] => (st \o c)[i] = snt[k].body[i - S[k]]
  <2>1. i \in Int /\ i - Len(st) \in 1..Len(c)
    BY <1>t
  <2>2. c[i - Len(st)] = IF a + (i - Len(st)) - 1 = 0 THEN HeaderCell(snt[k0])
                         ELSE snt[k0].body[a + (i - Len(st)) - 1]
    BY <2>1 DEF Piece
  <2>3. (st \o c)[i] = c[i - Len(st)] /\ a + (i - Len(st)) - 1 = i - S[k0]
    BY <2>1, <1>1, <1>2, <1>3
  <2>4. (st \o c)[i] = IF i - S[k0] = 0 THEN HeaderCell(snt[k0]) ELSE snt[k0].body[i - S[k0]]
    BY <2>2, <2>3
  <2>5. /\ i = S[k] => S[k] <= i /\ (k = k0 => i - S[k0] = 0)
        /\ S[k] < i => S[k] <= i /\ (k = k0 => i - S[k0] # 0)
    BY <2>1, <1>i
  <2>6. i = S[k] => (st \o c)[i] = HeaderCell(snt[k])
    BY <2>4, <2>5, <1>2, <1>4
  <2>7. S[k] < i /\ i < S[k + 1] => (st \o c)[i] = snt[k].body[i - S[k]]
    BY <2>4, <2>5, <1>2, <1>4
  <2> QED
    BY <2>6, <2>7
<1>6. Framed(snt, st \o c, S)
  <2>1. Len(st \o c) >= Len(st) /\ Len(st \o c) < S[Len(snt) + 1]
    BY <1>1, <1>2, <1>4, <1>t
  <2> QED
    BY <1>1, <1>5, <2>1, FramedGrow
<1> QED
  BY <1>1, <1>2, <1>3, <1>6

\* Cells pass while nothing is cut, and are lost afterwards.
LEMMA TransferSplit ==
  ASSUME PipeInv, NEW e \in Ends, Transfer(e)
  PROVE  /\ UNCHANGED <<link, sock, read, inbox, tmpIn, sent, posted, qOut>>
         /\ sock[e] = "open" /\ link # "down" /\ wq[e] # <<>>
         /\ \/ Cut /\ stream' = stream
            \/ /\ ~Cut
               /\ \E n \in Nat \ {0} :
                    /\ Head(wq[e]).off + n <= Len(Buffer(e, Head(wq[e]).kind))
                    /\ Passed(e, n) \in Seq(CellType) /\ Len(Passed(e, n)) = n
                    /\ \A i \in 1..n :
                         Passed(e, n)[i] = Buffer(e, Head(wq[e]).kind)[Head(wq[e]).off + i]
                    /\ stream'[Peer(e)] = stream[Peer(e)] \o Passed(e, n)
                    /\ IF Head(wq[e]).off + n = Len(Buffer(e, Head(wq[e]).kind))
                       THEN wq'[e] = Tail(wq[e]) /\ wdone'[e] = Append(wdone[e], Head(wq[e]).kind)
                       ELSE /\ wq'[e] = Append(Tail(wq[e]), [Head(wq[e]) EXCEPT !.off = @ + n])
                            /\ wdone'[e] = wdone[e]
<1>1. /\ UNCHANGED <<link, sock, read, inbox, tmpIn, sent, posted, qOut>>
      /\ sock[e] = "open" /\ link # "down" /\ wq[e] # <<>>
  BY DEF Transfer, readVars, appVars, IsConnected
<1>2. TypeOK /\ Peer(e) \in Ends /\ \A d \in Ends : d = e \/ d = Peer(e)
  <2>1. e = "client" \/ e = "server"
    BY EndsFacts
  <2> QED
    BY <2>1, EndsFacts DEF PipeInv
<1>3. DOMAIN stream = Ends /\ link \in {"down", "up", "broken"}
  BY <1>2 DEF TypeOK
<1>4. Cut <=> ~(link = "up" /\ sock[Peer(e)] # "closed")
  BY <1>1, <1>2, <1>3 DEF Cut
<1>5. CASE Cut
  BY <1>1, <1>4, <1>5, TransferFacts
<1>6. CASE ~Cut
  <2>1. link = "up" /\ sock[Peer(e)] # "closed"
    BY <1>4, <1>6
  <2>2. \A x : stream' = [stream EXCEPT ![Peer(e)] = @ \o x]
                 => stream'[Peer(e)] = stream[Peer(e)] \o x
    BY <1>2, <1>3
  <2> QED
    BY <1>1, <1>6, <2>1, <2>2, TransferFacts
<1> QED
  BY <1>5, <1>6

\* While the validation word is not being written, only one write is in progress.
LEMMA WritesAlone ==
  ASSUME TypeOK, NEW e \in Ends, WriteOK(e), wq[e] # <<>>,
         \A i \in DOMAIN wq[e] : wq[e][i].kind # "validation"
  PROVE  /\ Head(wq[e]) \in Ops /\ Head(wq[e]).kind \in {"header", "body"}
         /\ 1 \in DOMAIN wq[e] /\ Head(wq[e]) = wq[e][1]
         /\ Tail(wq[e]) = <<>> /\ qOut[e] # <<>>
         /\ \A i \in DOMAIN wdone[e] : wdone[e][i] = "validation"
<1>1. wq[e] \in Seq(Ops) /\ wdone[e] \in Seq(WriteKinds)
  BY EndTypes
<1>2. Head(wq[e]) \in Ops /\ Head(wq[e]) = wq[e][1] /\ 1 \in DOMAIN wq[e]
  BY <1>1
<1>3. \A i \in DOMAIN wq[e] : wq[e][i] \in Ops /\ wq[e][i] \in MessageOps
  BY <1>1 DEF MessageOps
<1>4. AtMostOne(wq[e], MessageOps) /\ ~(Some(wq[e], MessageOps) /\ Some(wdone[e], MessageDone))
  BY DEF WriteOK, Once
<1>5. Len(wq[e]) = 1
  <2>1. Len(wq[e]) \in Nat /\ DOMAIN wq[e] = 1..Len(wq[e])
    BY <1>1
  <2>2. ~(2 \in DOMAIN wq[e])
    <3>1. 1 # 2
      OBVIOUS
    <3> QED
      BY <3>1, <1>2, <1>3, <1>4 DEF AtMostOne
  <2>3. \A l \in Nat : 1 \in 1..l /\ ~(2 \in 1..l) => l = 1
    OBVIOUS
  <2> QED
    BY <2>1, <2>2, <2>3, <1>2
<1>6. Tail(wq[e]) = <<>>
  <2>1. Len(Tail(wq[e])) = 0 /\ Tail(wq[e]) \in Seq(Ops)
    BY <1>1, <1>5
  <2> QED
    BY <2>1, EmptySeq
<1>7. ~Some(wdone[e], MessageDone)
  BY <1>2, <1>3, <1>4 DEF Some
<1>8. \A i \in DOMAIN wdone[e] : wdone[e][i] \in WriteKinds
  BY <1>1
<1>9. \A i \in DOMAIN wdone[e] : wdone[e][i] = "validation"
  BY <1>7, <1>8 DEF Some, MessageDone, WriteKinds
<1>10. Head(wq[e]).kind \in {"header", "body"}
  BY <1>2 DEF Ops, WriteKinds
<1>11. qOut[e] # <<>>
  BY <1>2, <1>10, BusyQueue
<1> QED
  BY <1>2, <1>6, <1>9, <1>10, <1>11

\* The places of the messages go up from the first.
LEMMA PlacesGoUp ==
  ASSUME NEW snt \in Seq(MessageType), NEW st, NEW S, Framed(snt, st, S)
  PROVE  \A k \in 1..Len(snt) + 1 : S[k] \in Int /\ S[1] \in Int /\ S[k] >= S[1]
<1> SUFFICES ASSUME NEW k \in 1..Len(snt) + 1
             PROVE  S[k] \in Int /\ S[1] \in Int /\ S[k] >= S[1]
  OBVIOUS
<1>1. Len(snt) \in Nat /\ 1 \in 1..Len(snt) + 1
  OBVIOUS
<1>2. S[k] \in Int /\ S[1] \in Int
  BY <1>1 DEF Framed
<1>3. k = 1 \/ 1 < k
  BY <1>1
<1>4. S[k] = S[1] \/ S[1] < S[k]
  BY <1>1, <1>3 DEF Framed
<1> QED
  BY <1>2, <1>4

\* Where in its message the write in progress goes on.
Onward(e) == IF Head(wq[e]).kind = "header" THEN 0 ELSE 1 + Head(wq[e]).off

\* What the buffer of the write in progress holds is the message after the first w.
LEMMA PassedPiece ==
  ASSUME PipeInv, NEW e \in Ends, NEW S, NEW w \in Nat, Queued(e, w), Written(e, w, S),
         S[w + 1] \in Int, wq[e] # <<>>, NEW n \in Nat \ {0},
         Head(wq[e]).off + n <= Len(Buffer(e, Head(wq[e]).kind)),
         Passed(e, n) \in Seq(CellType), Len(Passed(e, n)) = n,
         \A i \in 1..n : Passed(e, n)[i] = Buffer(e, Head(wq[e]).kind)[Head(wq[e]).off + i]
  PROVE  /\ w + 1 \in 1..Len(sent[e]) /\ Onward(e) \in Nat
         /\ EndsAt(stream[Peer(e)], S, w + 1, Onward(e))
         /\ Piece(Passed(e, n), sent[e][w + 1], Onward(e))
         /\ Head(wq[e]).kind = "header" =>
              Head(wq[e]).off = 0 /\ n = 1 /\ Len(Buffer(e, Head(wq[e]).kind)) = 1
         /\ Head(wq[e]).kind = "body" =>
              Len(Buffer(e, Head(wq[e]).kind)) = Len(sent[e][w + 1].body)
<1> DEFINE op == Head(wq[e])
           c == Passed(e, n)
           m == sent[e][w + 1]
<1>t. TypeOK /\ WriteOK(e) /\ qOut[e] \in Seq(MessageType) /\ sent[e] \in Seq(MessageType)
      /\ stream[Peer(e)] \in Seq(CellType)
  <2>1. TypeOK /\ WriteOK(e) /\ Peer(e) \in Ends
    BY EndsFacts DEF PipeInv
  <2> QED
    BY <2>1, EndTypes
<1>1. /\ op \in Ops /\ op.kind \in {"header", "body"} /\ 1 \in DOMAIN wq[e] /\ op = wq[e][1]
      /\ qOut[e] # <<>>
  BY <1>t, WritesAlone DEF Written
<1>2. op.off \in Nat
  BY <1>1 DEF Ops
<1>3. Head(qOut[e]) = m /\ w + 1 \in 1..Len(sent[e]) /\ m \in MessageType
  <2>1. Len(qOut[e]) \in Nat \ {0} /\ Head(qOut[e]) = qOut[e][1] /\ Len(sent[e]) \in Nat
    <3>1. Len(sent[e]) \in Nat
      BY <1>t
    <3>2. Len(qOut[e]) \in Nat \ {0}
      BY <1>t, <1>1, EmptySeq
    <3> QED
      BY <1>t, <1>1, <3>1, <3>2
  <2>2. 1 \in 1..Len(qOut[e])
    BY <2>1
  <2>3. w + Len(qOut[e]) <= Len(sent[e]) /\ qOut[e][1] = sent[e][w + 1]
    BY <2>2 DEF Queued
  <2>4. w + 1 \in 1..Len(sent[e])
    BY <2>1, <2>3
  <2>5. \A i \in 1..Len(sent[e]) : sent[e][i] \in MessageType
    BY <1>t
  <2>6. sent[e][w + 1] \in MessageType
    BY <2>4, <2>5
  <2> QED
    BY <2>1, <2>3, <2>4, <2>6
<1>4. m.body \in Seq(CellType) /\ Len(m.body) \in Nat
  BY <1>3 DEF MessageType
<1> HIDE DEF m, c
<1>5. CASE op.kind = "header"
  <2>1. Buffer(e, op.kind) = <<HeaderCell(m)>>
    BY <1>5, <1>3 DEF Buffer
  <2>2. op.off = 0 /\ n = 1 /\ Len(Buffer(e, op.kind)) = 1
    BY <2>1, <1>2 DEF op
  <2>3. c[1] = HeaderCell(m)
    <3>1. 1 \in 1..n /\ op.off + 1 = 1
      BY <2>2
    <3>2. c[1] = Buffer(e, op.kind)[op.off + 1]
      BY <3>1 DEF c
    <3> QED
      BY <2>1, <3>1, <3>2
  <2>4. Onward(e) = 0
    BY <1>5 DEF Onward
  <2>5. EndsAt(stream[Peer(e)], S, w + 1, 0)
    <3>1. Len(stream[Peer(e)]) + 1 = S[w + 1]
      BY <1>1, <1>5 DEF Written
    <3>2. Len(stream[Peer(e)]) + 1 \in Int
      BY <1>t
    <3> QED
      BY <3>1, <3>2 DEF EndsAt
  <2>6. Piece(c, m, 0)
    <3>1. Len(c) = 1 /\ c \in Seq(CellType)
      BY <2>2 DEF c
    <3> QED
      BY <1>4, <2>3, <3>1 DEF Piece
  <2> QED
    BY <1>3, <1>5, <2>2, <2>4, <2>5, <2>6 DEF c, m
<1>6. CASE op.kind = "body"
  <2>1. Buffer(e, op.kind) = m.body
    BY <1>6, <1>3 DEF Buffer
  <2>2. PICK o \in Nat : o = op.off
    BY <1>2
  <2>3. Onward(e) = 1 + o
    BY <1>6, <2>2 DEF Onward
  <2>4. EndsAt(stream[Peer(e)], S, w + 1, 1 + o)
    <3>1. Len(stream[Peer(e)]) + 1 = S[w + 1] + 1 + o
      BY <1>1, <1>6, <2>2 DEF Written
    <3>2. Len(stream[Peer(e)]) + 1 \in Int
      BY <1>t
    <3>3. S[w + 1] + 1 + o = S[w + 1] + (1 + o)
      <4>1. \A y \in Int : y + 1 + o = y + (1 + o)
        OBVIOUS
      <4> QED
        BY <4>1
    <3> QED
      BY <3>1, <3>3 DEF EndsAt
  <2>5. Piece(c, m, 1 + o)
    <3>1. Len(c) = n /\ c \in Seq(CellType) /\ o + n <= Len(m.body)
      BY <2>1, <2>2 DEF c
    <3>2. ASSUME NEW t \in 1..n PROVE c[t] = IF 1 + o + t - 1 = 0 THEN HeaderCell(m)
                                             ELSE m.body[1 + o + t - 1]
      <4>1. c[t] = m.body[o + t]
        BY <2>1, <2>2 DEF c
      <4>2. 1 + o + t - 1 = o + t /\ o + t # 0
        OBVIOUS
      <4> QED
        BY <4>1, <4>2
    <3>3. 1 + o + Len(c) <= 1 + Len(m.body)
      BY <3>1, <1>4
    <3> QED
      BY <3>1, <3>2, <3>3 DEF Piece
  <2> QED
    BY <1>3, <1>6, <2>1, <2>3, <2>4, <2>5 DEF c, m
<1> QED
  BY <1>1, <1>5, <1>6

\* A message, or more of it, passes.
LEMMA MessagePasses ==
  ASSUME PipeInv, NEW e \in Ends, Transfer(e), ~Cut, NEW S,
         Framed(sent[e], stream[Peer(e)], S),
         NEW w \in Nat, Queued(e, w), Written(e, w, S)
  PROVE  /\ Framed(sent[e], stream'[Peer(e)], S)
         /\ Writes(e, S)'
         /\ stream[Peer(e)] # <<>> \/ S[1] # 2
<1> DEFINE op == Head(wq[e])
           T == sent[e]
           st == stream[Peer(e)]
           buf == Buffer(e, Head(wq[e]).kind)
<1>t. TypeOK /\ WriteOK(e) /\ T \in Seq(MessageType) /\ st \in Seq(CellType)
      /\ wdone[e] \in Seq(WriteKinds)
  <2>1. TypeOK /\ WriteOK(e) /\ Peer(e) \in Ends
    BY EndsFacts DEF PipeInv
  <2> QED
    BY <2>1, EndTypes
<1>u. /\ UNCHANGED <<link, sock, read, inbox, tmpIn, sent, posted, qOut>>
      /\ sock[e] = "open" /\ link # "down" /\ wq[e] # <<>>
  BY TransferSplit
<1>1. PICK n \in Nat \ {0} :
        /\ op.off + n <= Len(buf)
        /\ Passed(e, n) \in Seq(CellType) /\ Len(Passed(e, n)) = n
        /\ \A i \in 1..n : Passed(e, n)[i] = buf[op.off + i]
        /\ stream'[Peer(e)] = st \o Passed(e, n)
        /\ IF op.off + n = Len(buf)
           THEN wq'[e] = Tail(wq[e]) /\ wdone'[e] = Append(wdone[e], op.kind)
           ELSE /\ wq'[e] = Append(Tail(wq[e]), [op EXCEPT !.off = @ + n])
                /\ wdone'[e] = wdone[e]
  BY TransferSplit
<1>2. /\ op \in Ops /\ op.kind \in {"header", "body"} /\ qOut[e] # <<>> /\ Tail(wq[e]) = <<>>
      /\ \A i \in DOMAIN wdone[e] : wdone[e][i] = "validation"
  BY <1>t, <1>u, WritesAlone DEF Written
<1>3. w + 1 \in 1..Len(T) /\ S[w + 1] \in Int /\ S[w + 1] >= S[1] /\ S[1] \in Int
  <2>1. w + Len(qOut[e]) <= Len(T) /\ Len(qOut[e]) \in Nat \ {0} /\ Len(T) \in Nat
    <3>1. qOut[e] \in Seq(MessageType)
      BY <1>t, EndTypes
    <3>2. Len(qOut[e]) \in Nat \ {0}
      BY <3>1, <1>2, EmptySeq
    <3> QED
      BY <3>2, <1>t DEF Queued
  <2>2. w + 1 \in 1..Len(T)
    BY <2>1
  <2>3. w + 1 \in 1..Len(T) + 1
    BY <2>1
  <2> QED
    BY <2>2, <2>3, <1>t, PlacesGoUp
<1>4. /\ Onward(e) \in Nat
      /\ EndsAt(st, S, w + 1, Onward(e))
      /\ Piece(Passed(e, n), T[w + 1], Onward(e))
      /\ op.kind = "header" => op.off = 0 /\ n = 1 /\ Len(buf) = 1
      /\ op.kind = "body" => Len(buf) = Len(T[w + 1].body)
  BY <1>u, <1>1, <1>3, PassedPiece
<1>5. /\ Framed(T, stream'[Peer(e)], S)
      /\ Len(stream'[Peer(e)]) + 1 = S[w + 1] + Onward(e) + n
  <2>1. Piece(Passed(e, n), T[w + 1], Onward(e)) /\ EndsAt(st, S, w + 1, Onward(e))
        /\ Onward(e) \in Nat
    BY <1>4
  <2>2. T \in Seq(MessageType) /\ st \in Seq(CellType) /\ Framed(T, st, S) /\ w + 1 \in 1..Len(T)
    BY <1>t, <1>3
  <2> HIDE DEF T, st
  <2>3. Framed(T, st \o Passed(e, n), S)
        /\ Len(st \o Passed(e, n)) + 1 = S[w + 1] + Onward(e) + Len(Passed(e, n))
    BY <2>1, <2>2, FramedMore
  <2>4. Len(Passed(e, n)) = n /\ stream'[Peer(e)] = st \o Passed(e, n)
    BY <1>1
  <2> QED
    BY <2>3, <2>4
<1>6. st # <<>> \/ S[1] # 2
  <2>1. Len(st) + 1 = S[w + 1] + Onward(e)
    BY <1>4 DEF EndsAt
  <2>2. S[1] = 2 => Len(st) # 0
    BY <2>1, <1>3, <1>4, <1>t
  <2> QED
    BY <2>2
<1>7. Queued(e, w)'
  BY <1>u DEF Queued, Closing
<1>8. Written(e, w, S)'
  <2>u. /\ link' # "down" /\ (e = "server" => sock'[e] # "none")
        /\ (e = "client" => read'["client"] \notin {"connect", "validation"})
        /\ qOut'[e] # <<>>
    BY <1>u, <1>2 DEF Written
  <2>1. CASE op.kind = "header"
    <3>1. wq'[e] = <<>> /\ wdone'[e] = Append(wdone[e], "header")
      <4>1. op.off = 0 /\ n = 1 /\ Len(buf) = 1
        BY <1>4, <2>1
      <4>2. op.off + n = Len(buf)
        <5>1. \A a, b, d : a = 0 /\ b = 1 /\ d = 1 => a + b = d
          OBVIOUS
        <5> QED
          BY <4>1, <5>1
      <4> QED
        BY <1>1, <1>2, <2>1, <4>2
    <3>2. Len(stream'[Peer(e)]) + 1 = S[w + 1] + 1
      <4>1. Onward(e) = 0 /\ n = 1
        BY <1>4, <2>1 DEF Onward
      <4> QED
        BY <4>1, <1>5, <1>3
    <3>3. \A i \in DOMAIN wdone'[e] : wdone'[e][i] \in {"validation", "header"}
      BY <3>1, <1>2, <1>t
    <3> QED
      BY <2>u, <3>1, <3>2, <3>3 DEF Written
  <2>2. CASE op.kind = "body" /\ op.off + n = Len(buf)
    <3>1. wq'[e] = <<>> /\ wdone'[e] = Append(wdone[e], "body")
      BY <1>1, <1>2, <2>2
    <3>2. Len(stream'[Peer(e)]) + 1 = S[w + 2]
      <4>1. PICK o \in Nat, len \in Nat : o = op.off /\ len = Len(T[w + 1].body)
        <5>1. op.off \in Nat
          BY <1>2 DEF Ops
        <5>2. Len(T[w + 1].body) \in Nat
          <6>1. T[w + 1] \in MessageType
            BY <1>3, <1>t
          <6> QED
            BY <6>1 DEF MessageType
        <5> QED
          BY <5>1, <5>2
      <4>2. Onward(e) = 1 + o /\ o + n = len
        BY <4>1, <1>4, <2>2 DEF Onward
      <4>3. S[(w + 1) + 1] = S[w + 1] + 1 + len
        BY <1>3, <4>1 DEF Framed
      <4>4. (w + 1) + 1 = w + 2
        OBVIOUS
      <4>5. \A y \in Int : y + (1 + o) + n = y + 1 + len
        BY <4>2
      <4> QED
        BY <1>3, <1>5, <4>2, <4>3, <4>4, <4>5
    <3>3. \A i \in DOMAIN wdone'[e] : wdone'[e][i] \in {"validation", "body"}
      BY <3>1, <1>2, <1>t
    <3> QED
      BY <2>u, <3>1, <3>2, <3>3 DEF Written
  <2>3. CASE op.kind = "body" /\ op.off + n # Len(buf)
    <3>1. wq'[e] = <<[op EXCEPT !.off = @ + n]>> /\ wdone'[e] = wdone[e]
      BY <1>1, <1>2, <2>3
    <3>2. PICK o \in Nat : o = op.off
      BY <1>2 DEF Ops
    <3>3. [op EXCEPT !.off = @ + n].kind = "body" /\ [op EXCEPT !.off = @ + n].off = o + n
      BY <1>2, <2>3, <3>2 DEF Ops
    <3>4. Len(stream'[Peer(e)]) + 1 = S[w + 1] + 1 + (o + n)
      <4>1. Onward(e) = 1 + o
        BY <2>3, <3>2 DEF Onward
      <4>2. \A y \in Int : y + (1 + o) + n = y + 1 + (o + n)
        OBVIOUS
      <4> QED
        BY <4>1, <4>2, <1>3, <1>5
    <3>5. \A i \in DOMAIN wq'[e] : /\ wq'[e][i].kind = "body"
                                   /\ wq'[e][i].off = o + n
      <4>1. PICK x : x = [op EXCEPT !.off = @ + n]
        OBVIOUS
      <4>2. \A i \in DOMAIN <<x>> : <<x>>[i] = x
        OBVIOUS
      <4> QED
        BY <3>1, <3>3, <4>1, <4>2
    <3> QED
      BY <2>u, <3>1, <3>4, <3>5, <1>2 DEF Written
  <2> QED
    BY <2>1, <2>2, <2>3, <1>2
<1>9. Writes(e, S)'
  BY <1>7, <1>8 DEF Writes
<1> QED
  BY <1>5, <1>6, <1>9

\* The first cell passes: the validation word, or what the server does not expect.
LEMMA FirstPasses ==
  ASSUME PipeInv, MatchInv, NEW e \in Ends, Transfer(e), ~Cut, NEW S,
         Framed(sent[e], stream[Peer(e)], S), Reads(Peer(e), S),
         Queued(e, 0), NothingWritten(e, S)
  PROVE  \/ /\ Framed(sent[e], stream'[Peer(e)], S)
            /\ Writes(e, S)'
            /\ stream'[Peer(e)][1] \in NonceCells
         \/ Early(Peer(e))'
<1> DEFINE op == Head(wq[e])
           T == sent[e]
           p == Peer(e)
           buf == Buffer(e, Head(wq[e]).kind)
<1>t. /\ TypeOK /\ WriteOK(e) /\ T \in Seq(MessageType) /\ stream[p] \in Seq(CellType)
      /\ p \in Ends /\ (e = "client" => p = "server") /\ e \in {"client", "server"}
      /\ wq[e] \in Seq(Ops)
  <2>1. TypeOK /\ WriteOK(e) /\ p \in Ends
    BY EndsFacts DEF PipeInv
  <2> QED
    BY <2>1, EndTypes, EndsFacts
<1>u. /\ UNCHANGED <<link, sock, read, inbox, tmpIn, sent, posted, qOut>>
      /\ sock[e] = "open" /\ link # "down" /\ wq[e] # <<>>
  BY TransferSplit
<1>1. PICK n \in Nat \ {0} :
        /\ op.off + n <= Len(buf)
        /\ Passed(e, n) \in Seq(CellType) /\ Len(Passed(e, n)) = n
        /\ \A i \in 1..n : Passed(e, n)[i] = buf[op.off + i]
        /\ stream'[p] = stream[p] \o Passed(e, n)
        /\ IF op.off + n = Len(buf)
           THEN wq'[e] = Tail(wq[e]) /\ wdone'[e] = Append(wdone[e], op.kind)
           ELSE /\ wq'[e] = Append(Tail(wq[e]), [op EXCEPT !.off = @ + n])
                /\ wdone'[e] = wdone[e]
  BY TransferSplit
<1>2. /\ stream[p] = <<>> /\ S[1] = 2 /\ wdone[e] = <<>>
      /\ \A i \in DOMAIN wq[e] : wq[e][i].kind # "body"
      /\ e = "server" => op.kind = "validation"
  BY <1>u DEF NothingWritten
<1>3. op \in Ops /\ 1 \in DOMAIN wq[e] /\ op = wq[e][1] /\ op.off \in Nat
      /\ op.kind \in {"validation", "header"}
  <2>1. op \in Ops /\ 1 \in DOMAIN wq[e] /\ op = wq[e][1]
    BY <1>t, <1>u
  <2> QED
    BY <2>1, <1>2 DEF Ops, WriteKinds
<1>4. \E x : buf = <<x>> /\ (op.kind = "validation" => x \in NonceCells)
                         /\ (op.kind = "header" => x \notin NonceCells)
  <2>1. CASE op.kind = "validation"
    <3>1. buf = <<NonceCell(hsOut[e])>>
      BY <2>1 DEF Buffer
    <3>2. NonceCell(hsOut[e]) \in NonceCells
      BY <1>t DEF TypeOK, NonceCell, NonceCells
    <3> QED
      BY <2>1, <3>1, <3>2
  <2>2. CASE op.kind = "header"
    <3>1. buf = <<HeaderCell(Head(qOut[e]))>>
      BY <2>2 DEF Buffer
    <3>2. HeaderCell(Head(qOut[e])) \notin NonceCells
      BY DEF HeaderCell, NonceCells
    <3> QED
      BY <2>2, <3>1, <3>2
  <2> QED
    BY <2>1, <2>2, <1>3
<1>5. PICK x : buf = <<x>> /\ (op.kind = "validation" => x \in NonceCells)
                           /\ (op.kind = "header" => x \notin NonceCells)
  BY <1>4
<1> HIDE DEF buf, op
<1>6. n = 1 /\ op.off + n = Len(buf)
  <2>1. Len(buf) = 1
    BY <1>5
  <2> QED
    BY <2>1, <1>1, <1>3
<1>7. stream'[p] = <<x>>
  <2>1. Len(Passed(e, n)) = 1 /\ Passed(e, n)[1] = x
    <3>1. Passed(e, n)[1] = buf[op.off + 1] /\ Len(buf) = 1
      BY <1>1, <1>5, <1>6
    <3>2. op.off + 1 = 1
      BY <1>3, <1>6, <3>1
    <3> QED
      BY <3>1, <3>2, <1>1, <1>5, <1>6
  <2>2. Passed(e, n) = <<x>>
    BY <2>1, <1>1
  <2>3. stream'[p] = <<>> \o <<x>>
    BY <2>2, <1>1, <1>2
  <2> QED
    BY <2>3
<1>8. CASE op.kind = "header"
  <2>1. e = "client" /\ p = "server"
    BY <1>2, <1>8, <1>t
  <2>2. read["server"] \in {"none", "validation"}
    <3>1. read["server"] \in ReadKinds /\ read["server"] # "connect"
      BY <1>t DEF PipeInv, StartInv, TypeOK, Ends
    <3>2. S[Len(inbox[p]) + 1] \in Int /\ S[Len(inbox[p]) + 1] >= 2
      <4>1. inbox[p] \in Seq(MessageType) /\ Len(inbox[p]) <= Len(T)
        BY <1>t, EndTypes DEF MatchInv
      <4>2. Len(inbox[p]) + 1 \in 1..Len(T) + 1
        BY <4>1, <1>t
      <4> QED
        BY <4>2, <1>2, <1>t, PlacesGoUp
    <3>3. ~(S[Len(inbox[p]) + 1] = 1) /\ ~(S[Len(inbox[p]) + 1] = 0)
      BY <3>2
    <3>4. read[p] # "header" /\ read[p] # "body"
      BY <3>3 DEF Reads
    <3> QED
      BY <2>1, <3>1, <3>4 DEF ReadKinds
  <2>3. stream'[p] # <<>> /\ stream'[p][1] \notin NonceCells
    BY <1>5, <1>7, <1>8
  <2> QED
    BY <1>u, <2>1, <2>2, <2>3 DEF Early
<1>9. CASE op.kind = "validation"
  <2>1. stream'[p][1] \in NonceCells
    BY <1>5, <1>7, <1>9
  <2>2. \A k \in 1..Len(T) + 1 : S[k] \in Int /\ S[k] >= 2
    BY <1>2, <1>t, PlacesGoUp
  <2>3. Framed(T, stream'[p], S)
    <3>1. stream'[p] \in Seq(CellType) /\ Len(stream'[p]) = 1
      <4>1. x \in CellType
        BY <1>5, <1>9 DEF CellType
      <4> QED
        BY <4>1, <1>7
    <3>2. Len(T) \in Nat /\ Len(stream[p]) = 0
      BY <1>2, <1>t
    <3>3. Len(stream'[p]) < S[Len(T) + 1] /\ Len(stream'[p]) >= Len(stream[p])
      <4>1. Len(T) + 1 \in 1..Len(T) + 1
        BY <3>2
      <4> QED
        BY <4>1, <3>1, <3>2, <2>2
    <3>4. \A i \in 1..Len(stream[p]) : stream'[p][i] = stream[p][i]
      BY <3>2
    <3>5. \A k \in 1..Len(T), i \in Len(stream[p]) + 1..Len(stream'[p]) :
            ~(i = S[k]) /\ ~(S[k] < i)
      <4>1. \A i \in Len(stream[p]) + 1..Len(stream'[p]) : i = 1
        BY <3>1, <3>2
      <4>2. \A k \in 1..Len(T) : S[k] \in Int /\ S[k] >= 2
        BY <2>2, <3>2
      <4> QED
        BY <4>1, <4>2
    <3> HIDE DEF T, p
    <3> QED
      BY <1>t, <3>1, <3>3, <3>4, <3>5, FramedGrow DEF T, p
  <2>4. Writes(e, S)'
    <3>1. Queued(e, 0)'
      BY <1>u DEF Queued, Closing
    <3>2. wq'[e] = Tail(wq[e]) /\ wdone'[e] = <<"validation">>
      BY <1>1, <1>2, <1>6, <1>9
    <3>3. Len(stream'[p]) + 1 = S[1]
      BY <1>7, <1>2
    <3>4. \A i \in DOMAIN wq'[e] : wq'[e][i].kind = "header"
      <4>1. AtMostOne(wq[e], ValidationOps) /\ op \in ValidationOps
        BY <1>t, <1>3, <1>9 DEF WriteOK, Once, ValidationOps
      <4>2. ~Some(Tail(wq[e]), ValidationOps)
        BY <4>1, <1>t, <1>u, SomeTail DEF op
      <4>3. \A i \in DOMAIN Tail(wq[e]) : /\ Tail(wq[e])[i] \in Ops
                                          /\ Tail(wq[e])[i].kind # "body"
        <5>1. \A s \in Seq(Ops) : s # <<>> => \A i \in DOMAIN Tail(s) : /\ i + 1 \in DOMAIN s
                                                                        /\ s[i + 1] \in Ops
                                                                        /\ Tail(s)[i] = s[i + 1]
          OBVIOUS
        <5> QED
          BY <5>1, <1>2, <1>t, <1>u
      <4> QED
        BY <3>2, <4>2, <4>3 DEF Some, ValidationOps, Ops, WriteKinds
    <3>5. e = "client" => read["client"] \notin {"connect", "validation"}
      <4>1. Greeting(e)
        BY <1>3, <1>9 DEF Greeting, Some, ValidationOps
      <4> QED
        BY <4>1 DEF PipeInv, StartInv
    <3>6. Written(e, 0, S)'
      <4>1. 0 + 1 = 1
        OBVIOUS
      <4>2. \A i \in DOMAIN wdone'[e] : wdone'[e][i] = "validation"
        BY <3>2
      <4> QED
        BY <1>u, <3>3, <3>4, <3>5, <4>1, <4>2 DEF Written
    <3> QED
      BY <3>1, <3>6 DEF Writes
  <2> QED
    BY <2>1, <2>3, <2>4
<1> QED
  BY <1>3, <1>8, <1>9

\* What passes is what is queued, in its place.
LEMMA TransferStep ==
  ASSUME PipeInv, MatchInv, [Next]_vars, NEW e \in Ends, Transfer(e), Good(e)
  PROVE  /\ Good(e)' \/ Early(Peer(e))'
         /\ UNCHANGED <<sent, inbox>>
<1> DEFINE p == Peer(e)
<1>t. TypeOK /\ p \in Ends /\ stream[p] \in Seq(CellType)
  <2>1. TypeOK /\ p \in Ends
    BY EndsFacts DEF PipeInv
  <2> QED
    BY <2>1, EndTypes
<1>u. UNCHANGED <<link, sock, read, inbox, tmpIn, sent, posted, qOut>>
  BY TransferSplit
<1>1. PICK S : Framed(sent[e], stream[p], S) /\ Reads(p, S) /\ (Cut \/ Writes(e, S))
  BY DEF Good
<1>2. ASSUME stream[p] # <<>> \/ S[1] # 2 \/ stream'[p][1] \in NonceCells PROVE Reads(p, S)'
  <2>1. stream[p] # <<>> => stream'[p][1] = stream[p][1]
    <3>1. stream[p] # <<>> => stream'[p] # <<>> /\ Head(stream'[p]) = Head(stream[p])
      BY <1>t, StreamGrows
    <3> QED
      BY <3>1, <1>t
  <2> QED
    BY <1>1, <1>2, <1>u, <2>1, EndsFacts DEF Reads
<1>3. CASE Cut
  <2>1. stream' = stream /\ Cut'
    BY <1>3, TransferSplit, CutStays
  <2>2. Reads(p, S)'
    BY <1>1, <1>u, <2>1 DEF Reads
  <2> QED
    BY <1>1, <1>u, <2>1, <2>2 DEF Good
<1>4. CASE ~Cut
  <2>1. PICK w \in Nat : /\ Queued(e, w)
                         /\ \/ w = 0 /\ NothingWritten(e, S)
                            \/ Written(e, w, S)
    BY <1>1, <1>4 DEF Writes
  <2>2. CASE Written(e, w, S)
    <3>1. /\ Framed(sent[e], stream'[p], S) /\ Writes(e, S)'
          /\ stream[p] # <<>> \/ S[1] # 2
      BY <1>1, <1>4, <2>1, <2>2, MessagePasses
    <3>2. Reads(p, S)'
      BY <1>2, <3>1
    <3> QED
      BY <1>u, <3>1, <3>2 DEF Good
  <2>3. CASE w = 0 /\ NothingWritten(e, S)
    <3>1. \/ /\ Framed(sent[e], stream'[p], S)
             /\ Writes(e, S)'
             /\ stream'[p][1] \in NonceCells
          \/ Early(p)'
      BY <1>1, <1>4, <2>1, <2>3, FirstPasses
    <3> QED
      BY <1>2, <1>u, <3>1 DEF Good
  <2> QED
    BY <2>1, <2>2, <2>3
<1> QED
  BY <1>3, <1>4, <1>u

-----------------------------------------------------------------------------
(* What is sent and what is received.                                      *)

\* e sends m, and nothing else is sent or received.
Sends(e, m) == /\ m \in MessageType /\ m \in Outgoing["client"] \cup Outgoing[e]
               /\ sent' = [sent EXCEPT ![e] = Append(@, m)]
               /\ UNCHANGED inbox

\* p reads, and nothing is sent.
Receives(p) == /\ OnHeader(p) \/ OnBody(p)
               /\ \E s : inbox' = [inbox EXCEPT ![p] = s]
               /\ UNCHANGED sent

LEMMA StepShape ==
  ASSUME PipeInv, SentInv, MatchInv, [Next]_vars
  PROVE  \/ UNCHANGED <<sent, inbox>>
         \/ \E e \in Ends : \E m : Sends(e, m)
         \/ \E p \in Ends : Receives(p)
<1>t. TypeOK
  BY DEF PipeInv
<1> USE DEF readVars, appVars
<1>1. ASSUME NEW e \in Ends, Reactor(e) PROVE UNCHANGED <<sent, inbox>>
  BY <1>1 DEF Reactor, Transfer, ReadComplete
<1>2. ASSUME NEW e \in Ends, Handler(e)
      PROVE  UNCHANGED <<sent, inbox>> \/ Receives(e)
  <2>1. CASE RunSend(e) \/ RunClose(e) \/ OnReadError(e) \/ OnValidationWritten(e)
             \/ OnMessageWritten(e) \/ OnWriteError(e)
    BY <2>1 DEF RunSend, RunClose, OnReadError, OnValidationWritten, OnMessageWritten, OnWriteError
  <2>2. CASE OnHeader(e)
    <3>1. sent' = sent /\ (inbox' = inbox \/ \E s : inbox' = [inbox EXCEPT ![e] = s])
      BY <2>2 DEF OnHeader, AddToIncoming
    <3> QED
      BY <2>2, <3>1 DEF Receives
  <2>3. CASE OnBody(e)
    <3>1. sent' = sent /\ \E s : inbox' = [inbox EXCEPT ![e] = s]
      BY <2>3 DEF OnBody, AddToIncoming
    <3> QED
      BY <2>3, <3>1 DEF Receives
  <2> QED
    BY <1>2, <2>1, <2>2, <2>3 DEF Handler
<1>3. CASE ClientHandshake
  BY <1>3 DEF ClientHandshake, OnConnect, OnConnectError, AnswerValidation
<1>4. CASE Deny \/ CheckValidation
  BY <1>4 DEF Deny, CheckValidation
<1>5. ASSUME NEW g \in Greetings, Accept(g)
      PROVE  UNCHANGED <<sent, inbox>> \/ \E m : Sends("server", m)
  <2>1. sent' = [sent EXCEPT !["server"] = g] /\ inbox' = inbox
    BY <1>5 DEF Accept
  <2>2. sent["server"] = <<>> /\ sent \in [Ends -> Seq(MessageType)]
    BY <1>5, <1>t DEF Accept, PipeInv, StartInv, TypeOK
  <2>3. CASE g = <<>>
    <3>1. sent' = sent
      BY <2>1, <2>2, <2>3
    <3> QED
      BY <2>1, <3>1
  <2>4. ASSUME NEW m \in Outgoing["server"], m \in MessageType, g = Append(<<>>, m)
        PROVE  Sends("server", m)
    <3>1. sent' = [sent EXCEPT !["server"] = Append(@, m)]
      BY <2>1, <2>2, <2>4
    <3> QED
      BY <2>1, <2>4, <3>1 DEF Sends
  <2> QED
    BY <2>3, <2>4, GreetingShape
<1>6. CASE Establish \/ Break
  BY <1>6 DEF Establish, Break
<1>7. ASSUME NEW e \in Ends, (\E m \in Outgoing[e] : Send(e, m)) \/ (e = "server" /\ Bounce)
      PROVE  \E m : Sends(e, m)
  <2>1. inbox' = inbox
    BY <1>7 DEF Send, Bounce
  <2> QED
    BY <1>7, <2>1, PostFacts DEF Sends
<1>8. CASE Disconnect
  BY <1>8 DEF Disconnect
<1>9. CASE UNCHANGED vars
  BY <1>9 DEF vars
<1> HIDE DEF readVars, appVars
<1> QED
  BY <1>1, <1>2, <1>3, <1>4, <1>5, <1>6, <1>7, <1>8, <1>9, EndsFacts
     DEF Next, ServerHandshake, Application

\* Only messages of the applications are sent.
LEMMA SentStep ==
  ASSUME PipeInv, SentInv, MatchInv, [Next]_vars PROVE SentInv'
<1>1. CASE sent' = sent
  BY <1>1 DEF SentInv
<1>2. ASSUME NEW e \in Ends, NEW m, Sends(e, m) PROVE SentInv'
  <2>1. sent \in [Ends -> Seq(MessageType)]
    BY DEF PipeInv, TypeOK
  <2>2. /\ \A d \in Ends : d # e => sent'[d] = sent[d]
        /\ sent'[e] = Append(sent[e], m) /\ m \in MessageType
        /\ m \in Outgoing["client"] \cup Outgoing[e]
    BY <1>2, <2>1 DEF Sends
  <2>3. \A i \in DOMAIN sent'[e] : \/ i \in DOMAIN sent[e] /\ sent'[e][i] = sent[e][i]
                                 \/ sent'[e][i] = m
    BY <2>1, <2>2
  <2> QED
    BY <2>2, <2>3, EndsFacts DEF SentInv
<1> QED
  BY <1>1, <1>2, StepShape DEF Receives

\* An end that reads no more, or that waits for the answer to its validation word, receives
\* nothing.
LEMMA NoMoreReceived ==
  ASSUME PipeInv, NEW p \in Ends, Stopped(p) \/ Early(p) PROVE ~Receives(p)
BY DEF Stopped, Early, Receives, OnHeader, OnBody, Take

\* The framing is kept, and what is received is what was sent.
LEMMA FrameStep ==
  ASSUME PipeInv, SentInv, MatchInv, FrameInv, [Next]_vars, NEW e \in Ends
  PROVE  /\ Stopped(Peer(e))' \/ Early(Peer(e))' \/ Good(e)'
         /\ Delivers(e)
<1> DEFINE p == Peer(e)
<1>t. p \in Ends /\ inbox \in [Ends -> Seq(MessageType)]
  BY EndsFacts DEF PipeInv, TypeOK
<1>1. CASE Stopped(p) \/ Early(p)
  <2>1. Stopped(p)' \/ Early(p)'
    BY <1>1, <1>t, StoppedStays, EarlyStays
  <2>2. inbox'[p] = inbox[p]
    BY <1>1, <1>t, StepShape, NoMoreReceived DEF Sends, Receives
  <2> QED
    BY <2>1, <2>2 DEF Delivers
<1>2. CASE Good(e)
  <2>1. CASE SenderSame(e) /\ ReaderSame(p)
    <3>1. PICK S : Framed(sent[e], stream[p], S) /\ Reads(p, S) /\ (Cut \/ Writes(e, S))
      BY <1>2 DEF Good
    <3>2. Cut' \/ Writes(e, S)'
      BY <2>1, <3>1, CutStays, WritesSame DEF ReaderSame
    <3>3. sent'[e] = sent[e] /\ stream'[p] = stream[p] /\ inbox'[p] = inbox[p]
      BY <2>1 DEF SenderSame, ReaderSame
    <3>4. Reads(p, S)'
      <4>1. Len(inbox[p]) <= Len(sent[e]) /\ Len(sent[e]) \in Nat
        <5>1. sent[e] \in Seq(MessageType)
          BY EndTypes DEF PipeInv
        <5> QED
          BY <5>1 DEF MatchInv
      <4> QED
        BY <2>1, <3>1, <3>3, <4>1, ReadsKept
    <3> QED
      BY <3>1, <3>2, <3>3, <3>4 DEF Good, Delivers
  <2>2. CASE Transfer(e)
    BY <1>2, <2>2, TransferStep DEF Delivers
  <2>3. CASE SenderAct(e) /\ ReaderSame(p)
    BY <1>2, <2>3, SenderStep DEF ReaderSame, Delivers
  <2>4. CASE ReaderAct(p) /\ SenderSame(e)
    BY <1>2, <2>4, ReaderStep
  <2> QED
    BY <2>1, <2>2, <2>3, <2>4, SideStep
<1> QED
  BY <1>1, <1>2 DEF FrameInv

\* What has been received is what was sent, so far.
LEMMA MatchStep ==
  ASSUME PipeInv, SentInv, MatchInv, FrameInv, [Next]_vars PROVE MatchInv'
<1> SUFFICES ASSUME NEW e \in Ends
             PROVE  /\ Len(inbox'[Peer(e)]) <= Len(sent'[e])
                    /\ \A i \in DOMAIN inbox'[Peer(e)] : Same(inbox'[Peer(e)][i], sent'[e][i])
  BY DEF MatchInv
<1> DEFINE p == Peer(e)
<1>t. /\ p \in Ends /\ sent \in [Ends -> Seq(MessageType)]
      /\ sent[e] \in Seq(MessageType) /\ inbox[p] \in Seq(MessageType)
  BY EndsFacts DEF PipeInv, TypeOK
<1>1. /\ Len(inbox[p]) <= Len(sent[e])
      /\ \A i \in DOMAIN inbox[p] : Same(inbox[p][i], sent[e][i])
  BY DEF MatchInv
<1>2. CASE UNCHANGED <<sent, inbox>>
  BY <1>1, <1>2
<1>3. ASSUME NEW d \in Ends, NEW m, Sends(d, m)
      PROVE  /\ Len(inbox'[p]) <= Len(sent'[e])
             /\ \A i \in DOMAIN inbox'[p] : Same(inbox'[p][i], sent'[e][i])
  <2>1. m \in MessageType /\ inbox' = inbox
        /\ sent'[e] = IF d = e THEN Append(sent[e], m) ELSE sent[e]
    BY <1>3, <1>t DEF Sends
  <2>2. /\ Len(sent'[e]) >= Len(sent[e]) /\ Len(sent'[e]) \in Nat /\ Len(sent[e]) \in Nat
        /\ \A i \in 1..Len(sent[e]) : sent'[e][i] = sent[e][i]
    BY <1>t, <2>1
  <2>3. Len(inbox[p]) \in Nat /\ DOMAIN inbox[p] = 1..Len(inbox[p])
    BY <1>t
  <2>4. \A i \in DOMAIN inbox[p] : i \in 1..Len(sent[e])
    BY <1>1, <2>2, <2>3
  <2> QED
    BY <1>1, <2>1, <2>2, <2>3, <2>4
<1>4. CASE UNCHANGED sent
  <2>1. CASE inbox'[p] = inbox[p]
    BY <1>1, <1>4, <2>1
  <2>2. ASSUME NEW m \in MessageType, Len(inbox[p]) < Len(sent[e]),
               inbox'[p] = Append(inbox[p], m), Same(m, sent[e][Len(inbox[p]) + 1])
        PROVE  /\ Len(inbox'[p]) <= Len(sent'[e])
               /\ \A i \in DOMAIN inbox'[p] : Same(inbox'[p][i], sent'[e][i])
    <3>1. Len(inbox[p]) \in Nat /\ Len(sent[e]) \in Nat
      BY <1>t
    <3>2. /\ Len(inbox'[p]) = Len(inbox[p]) + 1
          /\ \A i \in DOMAIN inbox'[p] : \/ i \in DOMAIN inbox[p] /\ inbox'[p][i] = inbox[p][i]
                                         \/ i = Len(inbox[p]) + 1 /\ inbox'[p][i] = m
      BY <1>t, <2>2
    <3> QED
      BY <1>1, <1>4, <2>2, <3>1, <3>2
  <2> QED
    BY <2>1, <2>2, FrameStep DEF Delivers
<1> QED
  BY <1>2, <1>3, <1>4, StepShape DEF Receives

-----------------------------------------------------------------------------
(* The invariant of the channel, and what follows from it.                 *)

LEMMA ChanInit == Init => ChanInv
<1> SUFFICES ASSUME Init PROVE ChanInv
  OBVIOUS
<1>1. PipeInv
  BY PipeInit
<1>2. \A e \in Ends : /\ sent[e] = <<>> /\ stream[e] = <<>> /\ inbox[e] = <<>> /\ posted[e] = <<>>
                      /\ qOut[e] = <<>> /\ wq[e] = <<>> /\ wdone[e] = <<>>
  BY DEF Init
<1>3. read["client"] = "connect" /\ read["server"] = "none" /\ sock["server"] = "none"
  BY EndsFacts DEF Init
<1>4. SentInv
  BY <1>2, EndsFacts DEF SentInv
<1>5. MatchInv
  BY <1>2, EndsFacts DEF MatchInv
<1>6. ASSUME NEW e \in Ends PROVE Good(e)
  <2> DEFINE S == [k \in 1..1 |-> 2]
  <2>1. Framed(<<>>, <<>>, S) /\ S[1] = 2
    BY DEF Framed
  <2> HIDE DEF S
  <2>2. Peer(e) \in Ends
    BY EndsFacts
  <2>3. Reads(Peer(e), S)
    <3>1. \/ Peer(e) = "client" /\ read[Peer(e)] = "connect"
          \/ Peer(e) = "server" /\ read[Peer(e)] = "none"
      BY <1>3, <2>2, EndsFacts
    <3> QED
      BY <1>2, <2>1, <2>2, <3>1 DEF Reads
  <2>4. Queued(e, 0)
    <3>1. Len(qOut[e]) = 0 /\ Len(posted[e]) = 0 /\ Len(sent[e]) = 0
      BY <1>2
    <3> QED
      BY <3>1 DEF Queued, Closing
  <2>5. NothingWritten(e, S)
    BY <1>2, <1>3, <2>1, <2>2 DEF NothingWritten
  <2>6. Writes(e, S)
    BY <2>4, <2>5 DEF Writes
  <2> QED
    BY <1>2, <2>1, <2>2, <2>3, <2>6 DEF Good
<1>7. FrameInv
  BY <1>6 DEF FrameInv
<1> QED
  BY <1>1, <1>4, <1>5, <1>7 DEF ChanInv

LEMMA ChanAlways == Spec => []ChanInv
<1>1. Init => ChanInv
  BY ChanInit
<1>2. PipeInv /\ PipeInv' /\ ChanInv /\ [Next]_vars => ChanInv'
  <2> SUFFICES ASSUME PipeInv', ChanInv, [Next]_vars PROVE ChanInv'
    OBVIOUS
  <2>1. PipeInv /\ SentInv /\ MatchInv /\ FrameInv
    BY DEF ChanInv
  <2>2. FrameInv'
    <3>1. \A e \in Ends : Stopped(Peer(e))' \/ Early(Peer(e))' \/ Good(e)'
      BY <2>1, FrameStep
    <3> QED
      BY <3>1 DEF FrameInv
  <2> QED
    BY <2>1, <2>2, SentStep, MatchStep DEF ChanInv
<1> QED
  BY <1>1, <1>2, PipeAlways, PTL DEF Spec

\* Both ends agree on where messages begin, for all messages and whatever the stray bytes of
\* a handshake word would say if they were read as a header: what an end reads as a header
\* was written as one.
THEOREM MessagesInSync == Spec => []InSync
<1>1. ChanInv => InSync
  <2> SUFFICES ASSUME ChanInv, NEW p \in Ends, read[p] = "header", stream[p] # <<>>
               PROVE  Head(stream[p]).kind = "header"
    BY DEF InSync
  <2>1. PICK e \in Ends : Peer(e) = p
    BY EndsFacts
  <2>t. /\ sent[e] \in Seq(MessageType) /\ stream[p] \in Seq(CellType)
        /\ Len(inbox[p]) \in Nat /\ Len(inbox[p]) <= Len(sent[e])
    <3>1. TypeOK /\ Len(inbox[p]) <= Len(sent[e])
      BY <2>1 DEF ChanInv, PipeInv, MatchInv
    <3>2. inbox[p] \in Seq(MessageType)
      BY <3>1, EndTypes
    <3> QED
      BY <3>1, <3>2, EndTypes
  <2>2. Good(e)
    BY <2>1 DEF ChanInv, FrameInv, Stopped, Early
  <2>3. PICK S : Framed(sent[e], stream[p], S) /\ Reads(p, S)
    BY <2>1, <2>2 DEF Good
  <2>4. S[Len(inbox[p]) + 1] = 1
    BY <2>3 DEF Reads
  <2>5. stream[p][1] = HeaderCell(sent[e][Len(inbox[p]) + 1])
    BY <2>t, <2>3, <2>4, NextHeader
  <2>6. Head(stream[p]) = stream[p][1]
    BY <2>t
  <2> QED
    BY <2>5, <2>6 DEF HeaderCell
<1> QED
  BY <1>1, ChanAlways, PTL

-----------------------------------------------------------------------------
(* The channel.                                                            *)

Sent == [e \in Ends |-> Views(sent[e])]
Got  == [e \in Ends |-> Views(inbox[e])]

\* The receiver's view of a sequence of messages, one more at a time.
LEMMA ViewsGrow ==
  /\ Views(<<>>) = <<>>
  /\ \A s \in Seq(MessageType) :
       /\ Len(Views(s)) = Len(s)
       /\ \A i \in 1..Len(s) : Views(s)[i] = View(s[i])
       /\ \A m \in MessageType : Views(Append(s, m)) = Append(Views(s), View(m))
<1> DEFINE R == {View(m) : m \in MessageType}
<1>1. Views(<<>>) = <<>>
  BY DEF Views
<1>2. ASSUME NEW s \in Seq(MessageType)
      PROVE  /\ Views(s) \in Seq(R) /\ Len(Views(s)) = Len(s)
             /\ \A i \in 1..Len(s) : Views(s)[i] = View(s[i])
  <2>1. DOMAIN s = 1..Len(s) /\ Len(s) \in Nat /\ \A i \in 1..Len(s) : s[i] \in MessageType
    OBVIOUS
  <2>2. Views(s) \in [1..Len(s) -> R]
    BY <2>1 DEF Views
  <2>3. \A i \in 1..Len(s) : Views(s)[i] = View(s[i])
    BY <2>1 DEF Views
  <2> HIDE DEF R
  <2>4. Views(s) \in Seq(R) /\ Len(Views(s)) = Len(s)
    BY <2>1, <2>2
  <2> QED
    BY <2>3, <2>4
<1>3. ASSUME NEW s \in Seq(MessageType), NEW m \in MessageType
      PROVE  Views(Append(s, m)) = Append(Views(s), View(m))
  <2>1. View(m) \in R
    OBVIOUS
  <2> HIDE DEF R
  <2>2. PICK a \in Seq(R) : a = Views(s) /\ Len(a) = Len(s) /\ \A i \in 1..Len(s) : a[i] = View(s[i])
    BY <1>2
  <2>3. PICK u \in Seq(MessageType) : /\ u = Append(s, m) /\ Len(u) = Len(s) + 1 /\ u[Len(s) + 1] = m
                                      /\ \A i \in 1..Len(s) : u[i] = s[i]
    <3>1. Append(s, m) \in Seq(MessageType)
      BY AppendProperties
    <3>2. /\ Len(Append(s, m)) = Len(s) + 1 /\ Append(s, m)[Len(s) + 1] = m
          /\ \A i \in 1..Len(s) : Append(s, m)[i] = s[i]
      BY AppendProperties
    <3> QED
      BY <3>1, <3>2
  <2>4. PICK b \in Seq(R) : b = Views(u) /\ Len(b) = Len(u) /\ \A i \in 1..Len(u) : b[i] = View(u[i])
    BY <1>2
  <2>5. PICK v \in R : v = View(m)
    BY <2>1
  <2>6. /\ Append(a, v) \in Seq(R) /\ Len(Append(a, v)) = Len(a) + 1 /\ Append(a, v)[Len(a) + 1] = v
        /\ \A i \in 1..Len(a) : Append(a, v)[i] = a[i]
    OBVIOUS
  <2>7. \A i \in 1..Len(b) : b[i] = Append(a, v)[i]
    <3>1. \A i \in 1..Len(s) + 1 : i \in 1..Len(s) \/ i = Len(s) + 1
      OBVIOUS
    <3>2. Len(s) + 1 \in 1..Len(s) + 1
      OBVIOUS
    <3>3. \A i \in 1..Len(s) : i \in 1..Len(s) + 1
      OBVIOUS
    <3> QED
      BY <2>2, <2>3, <2>4, <2>5, <2>6, <3>1, <3>2, <3>3
  <2>8. b = Append(a, v)
    BY <2>2, <2>3, <2>4, <2>6, <2>7, SeqEqual
  <2> QED
    BY <2>2, <2>3, <2>4, <2>5, <2>8
<1> QED
  BY <1>1, <1>2, <1>3

\* Receivers that trust header.size do not see what Same leaves open.
LEMMA SameView == ASSUME NEW m, NEW o, Same(m, o) PROVE View(m) = View(o)
BY DEF Same, View

\* A message that is sent is sent over the channel.
LEMMA SendIsSend ==
  ASSUME TypeOK, NEW e \in Ends, NEW m, Sends(e, m)
  PROVE  /\ Sent' = [Sent EXCEPT ![e] = Append(@, View(m))] /\ Got' = Got
         /\ View(m) \in {View(x) : x \in Outgoing["client"] \cup Outgoing["server"]}
<1>1. /\ sent \in [Ends -> Seq(MessageType)] /\ m \in MessageType /\ inbox' = inbox
      /\ sent' = [sent EXCEPT ![e] = Append(@, m)]
      /\ m \in Outgoing["client"] \cup Outgoing["server"]
  BY EndsFacts DEF TypeOK, Sends
<1>2. Got' = Got
  BY <1>1 DEF Got
<1>3. \A d \in Ends : Views(sent'[d]) = IF d = e THEN Append(Views(sent[d]), View(m)) ELSE Views(sent[d])
  <2>1. \A d \in Ends : sent'[d] = IF d = e THEN Append(sent[d], m) ELSE sent[d]
    BY <1>1
  <2>2. \A d \in Ends : sent[d] \in Seq(MessageType)
    BY <1>1
  <2>3. Views(Append(sent[e], m)) = Append(Views(sent[e]), View(m))
    BY <1>1, <2>2, ViewsGrow
  <2> QED
    BY <2>1, <2>3
<1>4. Sent' = [Sent EXCEPT ![e] = Append(@, View(m))]
  BY <1>3 DEF Sent
<1> QED
  BY <1>1, <1>2, <1>4

\* A message that is read is delivered by the channel, or is not the channel's yet.
LEMMA ReceiveIsDeliver ==
  ASSUME ChanInv, [Next]_vars, NEW e \in Ends, Receives(Peer(e))
  PROVE  /\ Sent' = Sent
         /\ \/ Got' = Got
            \/ /\ Len(Got[Peer(e)]) < Len(Sent[e])
               /\ Got' = [Got EXCEPT ![Peer(e)] = Append(@, Sent[e][Len(@) + 1])]
<1> DEFINE p == Peer(e)
<1>t. /\ p \in Ends /\ sent[e] \in Seq(MessageType) /\ inbox[p] \in Seq(MessageType)
      /\ inbox \in [Ends -> Seq(MessageType)]
  BY EndsFacts DEF ChanInv, PipeInv, TypeOK
<1> HIDE DEF p
<1>1. sent' = sent /\ \E s : inbox' = [inbox EXCEPT ![p] = s]
  BY DEF Receives, p
<1>2. Sent' = Sent
  BY <1>1 DEF Sent
<1>3. CASE inbox'[p] = inbox[p]
  <2>1. inbox' = inbox
    BY <1>1, <1>3, <1>t
  <2> QED
    BY <1>2, <2>1 DEF Got
<1>4. ASSUME NEW m \in MessageType, Len(inbox[p]) < Len(sent[e]),
             inbox'[p] = Append(inbox[p], m), Same(m, sent[e][Len(inbox[p]) + 1])
      PROVE  /\ Len(Got[p]) < Len(Sent[e])
             /\ Got' = [Got EXCEPT ![p] = Append(@, Sent[e][Len(@) + 1])]
  <2>1. PICK n \in Nat : n = Len(inbox[p]) /\ n + 1 \in 1..Len(sent[e])
    <3>1. Len(inbox[p]) \in Nat /\ Len(sent[e]) \in Nat
      BY <1>t
    <3> QED
      BY <1>4, <3>1
  <2>2. Got[p] = Views(inbox[p]) /\ Sent[e] = Views(sent[e])
    BY <1>t DEF Got, Sent
  <2>3. Len(Got[p]) = n /\ Len(Sent[e]) = Len(sent[e]) /\ Sent[e][n + 1] = View(sent[e][n + 1])
    BY <2>1, <2>2, <1>t, ViewsGrow
  <2>4. View(m) = Sent[e][n + 1]
    BY <1>4, <2>1, <2>3, SameView
  <2>5. Views(inbox'[p]) = Append(Got[p], Sent[e][n + 1])
    BY <1>4, <1>t, <2>2, <2>4, ViewsGrow
  <2>6. \A d \in Ends : Views(inbox'[d]) = IF d = p THEN Append(Got[p], Sent[e][n + 1])
                                           ELSE Views(inbox[d])
    BY <1>1, <1>t, <2>5
  <2>7. Got' = [Got EXCEPT ![p] = Append(Got[p], Sent[e][n + 1])]
    BY <2>6 DEF Got
  <2>8. Got' = [Got EXCEPT ![p] = Append(@, Sent[e][Len(@) + 1])]
    BY <2>3, <2>7
  <2>9. Len(Got[p]) < Len(Sent[e])
    BY <1>4, <2>1, <2>3
  <2> QED
    BY <2>8, <2>9
<1>5. inbox'[p] = inbox[p] \/ \E m \in MessageType : /\ Len(inbox[p]) < Len(sent[e])
                                                     /\ inbox'[p] = Append(inbox[p], m)
                                                     /\ Same(m, sent[e][Len(inbox[p]) + 1])
  BY FrameStep DEF ChanInv, Delivers, p
<1>6. \/ Got' = Got
      \/ /\ Len(Got[p]) < Len(Sent[e])
         /\ Got' = [Got EXCEPT ![p] = Append(@, Sent[e][Len(@) + 1])]
  <2>1. CASE inbox'[p] = inbox[p]
    BY <1>3, <2>1 DEF p
  <2>2. CASE inbox'[p] # inbox[p]
    <3>1. PICK m \in MessageType : /\ Len(inbox[p]) < Len(sent[e])
                                   /\ inbox'[p] = Append(inbox[p], m)
                                   /\ Same(m, sent[e][Len(inbox[p]) + 1])
      BY <1>5, <2>2
    <3> QED
      BY <1>4, <3>1
  <2> QED
    BY <2>1, <2>2
<1> QED
  BY <1>2, <1>6 DEF p

\* The framing implements the channel: whatever the interleaving of reads, writes, errors and
\* closes, the messages of each end arrive whole, in order, none twice and none skipped.
THEOREM FramingIsChannel == Spec => ChannelSpec
<1>1. Init => Channel!Init
  <2> SUFFICES ASSUME Init PROVE Channel!Init
    OBVIOUS
  <2>1. \A e \in Ends : sent[e] = <<>> /\ inbox[e] = <<>>
    BY DEF Init
  <2> QED
    BY <2>1, ViewsGrow DEF Channel!Init
<1>2. ChanInv /\ [Next]_vars => [Channel!Next]_(Channel!vars)
  <2> SUFFICES ASSUME ChanInv, [Next]_vars PROVE [Channel!Next]_(Channel!vars)
    OBVIOUS
  <2>1. PipeInv /\ SentInv /\ MatchInv /\ TypeOK
    BY DEF ChanInv, PipeInv
  <2>2. CASE UNCHANGED <<sent, inbox>>
    BY <2>2 DEF Channel!vars
  <2>3. ASSUME NEW e \in Ends, NEW m, Sends(e, m) PROVE Channel!Next
    <3>1. Channel!Send(e, View(m))
      BY <2>1, <2>3, SendIsSend DEF Channel!Send, Sent, Got
    <3> QED
      BY <2>1, <2>3, <3>1, SendIsSend DEF Channel!Next
  <2>4. ASSUME NEW p \in Ends, Receives(p) PROVE [Channel!Next]_(Channel!vars)
    <3>1. PICK e \in Ends : Peer(e) = p /\ e # p
      BY EndsFacts
    <3>2. /\ Sent' = Sent
          /\ \/ Got' = Got
             \/ /\ Len(Got[p]) < Len(Sent[e])
                /\ Got' = [Got EXCEPT ![p] = Append(@, Sent[e][Len(@) + 1])]
      BY <2>4, <3>1, ReceiveIsDeliver
    <3>3. CASE Sent' = Sent /\ Got' = Got
      BY <3>3 DEF Channel!vars, Sent, Got
    <3>4. CASE Got' # Got
      <4>1. Channel!Deliver(p, e)
        BY <3>1, <3>2, <3>4 DEF Channel!Deliver, Sent, Got
      <4> QED
        BY <4>1 DEF Channel!Next
    <3> QED
      BY <3>2, <3>3, <3>4
  <2> QED
    BY <2>1, <2>2, <2>3, <2>4, StepShape
<1> QED
  BY <1>1, <1>2, ChanAlways, PTL DEF Spec, ChannelSpec, Channel!Spec

\* If every message an application builds has a body, each is received as it was sent, id,
\* size and body: only a message without one comes with the body of the message before it.
THEOREM BodiesIntact ==
  ASSUME \A m \in Outgoing["client"] \cup Outgoing["server"] : m.body # <<>>
  PROVE  Spec => []DeliveredIntact
<1>1. ChanInv => DeliveredIntact
  <2> SUFFICES ASSUME ChanInv, NEW p \in Ends, NEW i \in DOMAIN inbox[p]
               PROVE  inbox[p][i] = sent[Peer(p)][i]
    BY DEF DeliveredIntact
  <2> DEFINE e == Peer(p)
  <2>1. e \in Ends /\ Peer(e) = p
    BY EndsFacts
  <2>2. /\ sent[e] \in Seq(MessageType) /\ inbox[p] \in Seq(MessageType)
        /\ Len(inbox[p]) <= Len(sent[e]) /\ Same(inbox[p][i], sent[e][i])
    <3>1. TypeOK /\ SentInv /\ MatchInv
      BY DEF ChanInv, PipeInv
    <3> QED
      BY <2>1, <3>1, EndTypes DEF MatchInv
  <2>3. i \in 1..Len(sent[e]) /\ inbox[p][i] \in MessageType
    BY <2>2
  <2>4. sent[e][i] \in MessageType /\ WellFormed(sent[e][i]) /\ SentInv
    BY <2>1, <2>3, SentFacts DEF ChanInv
  <2>5. sent[e][i].body # <<>>
    <3>1. i \in DOMAIN sent[e]
      BY <2>2, <2>3
    <3>2. sent[e][i] \in Outgoing["client"] \cup Outgoing["server"]
      BY <2>1, <2>4, <3>1, EndsFacts DEF SentInv
    <3> QED
      BY <3>2
  <2>6. PICK o \in MessageType, m \in MessageType : o = sent[e][i] /\ m = inbox[p][i]
    BY <2>3, <2>4
  <2>7. o.size > EightBytes
    <3>1. o.body \in Seq(CellType) /\ o.size \in Nat /\ o.body # <<>>
      BY <2>5, <2>6 DEF MessageType
    <3>2. Len(o.body) # 0
      BY <3>1, EmptySeq
    <3> QED
      BY <2>4, <2>6, <3>1, <3>2 DEF WellFormed, BodyLength
  <2>8. m.id = o.id /\ m.size = o.size /\ m.body = o.body
    BY <2>2, <2>6, <2>7 DEF Same
  <2> QED
    BY <2>6, <2>8 DEF MessageType
<1> QED
  BY <1>1, ChanAlways, PTL
=============================================================================
