---------------------------- MODULE MCConnection ----------------------------
(* Values for the constants of Connection. *)
EXTENDS Connection

\* The programs' messages: a greeting and a request without a body, a ping with one, of two
\* values so that it may be written in parts.
MCData == {"t"}
Greet == Blank("ServerAccept")
All   == Blank("MessageAll")
Ping  == PushData(PushData(Blank("ServerPing"), "t"), "t")

MCIds == {"ServerAccept", "ServerPing", "MessageAll"}
MCGreetings == {<<>>, <<Greet>>}
OneGreeting == {<<Greet>>}
NoGreeting == {<<>>}

\* What the applications of the client and of the server send.
By(c, s) == [e \in Ends |-> IF e = "client" THEN c ELSE s]
Programs == By({Ping, All}, {Greet})
Few      == By({Greet, Ping}, {Greet, Ping})

\* The client's word starts at 0, the server's is 1 and its scrambled form 2.
MCNonces == 0..2
MCScramble == [n \in MCNonces |-> 2]

Sends11 == By(1, 1)
Sends21 == By(2, 1)
Sends20 == By(2, 0)
=============================================================================
