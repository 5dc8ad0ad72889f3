---------------------------- MODULE SimpleClient ----------------------------
(***************************************************************************)
(* The program netClient/src/SimpleClient.cpp: its main thread and the     *)
(* thread that reads the keyboard both call the one client_interface,      *)
(* whose io_context is a third thread.  Each of the two callers has a      *)
(* place of its own in the interface, main and keys, where ClientInterface *)
(* has the one variable app.                                               *)
(***************************************************************************)
EXTENDS Naturals

CONSTANT MaxMessages   \* bound: messages the server sends

ASSUME MessagesAssumption == MaxMessages \in Nat

VARIABLES
  phase,     \* the main thread: connect, loop, join, leave
  main,      \* where it is in the interface
  keyboard,  \* ioThread: reading, or ended by a quit key or by an error
  keys,      \* where it is in the interface
  bQuit,
  popped,    \* messages the loop has taken from Incoming()
  leaving, made, conn, alive, sock, pending, stopped, runner, current, inbox

program == <<phase, keyboard, bQuit, popped>>
interface == <<main, keys, leaving, made, conn, alive, sock, pending, stopped, runner,
               current, inbox>>
vars == <<program, interface>>

MainCall == INSTANCE ClientInterface WITH app <- main, MaxConnects <- 1, Careful <- TRUE
KeyCall  == INSTANCE ClientInterface WITH app <- keys, MaxConnects <- 1, Careful <- TRUE

IsConnected == MainCall!IsConnected

Init == /\ phase = "connect" /\ keyboard = "reading" /\ bQuit = FALSE /\ popped = 0
        /\ MainCall!Init /\ KeyCall!Init

-----------------------------------------------------------------------------
(* The main thread.                                                        *)

\* Connect returns, with or without a connection, before ioThread is started.
Connect ==
  /\ phase = "connect"
  /\ \/ MainCall!MakeConnection /\ UNCHANGED phase
     \/ MainCall!StartThread /\ phase' = "loop"
  /\ UNCHANGED <<keyboard, bQuit, popped, keys>>

ConnectFails ==
  /\ phase = "connect" /\ main = "idle"
  /\ phase' = "loop"
  /\ UNCHANGED <<keyboard, bQuit, popped, interface>>

InLoop == /\ phase = "loop"
          /\ UNCHANGED <<keyboard, interface>>

\* bQuit is a plain bool, which main reads once in each iteration.  (Mutant: a message is
\* taken only when another one waits behind it.)
TakeMessage_NotLast == /\ InLoop /\ IsConnected
                       /\ popped + 1 < inbox[conn]
                       /\ popped' = popped + 1
                       /\ UNCHANGED <<phase, bQuit>>
TakeMessage == /\ InLoop /\ IsConnected
               /\ popped < inbox[conn]
               /\ popped' = popped + 1
               /\ UNCHANGED <<phase, bQuit>>

ServerDown == /\ InLoop /\ ~IsConnected
              /\ bQuit' = TRUE
              /\ UNCHANGED <<phase, popped>>

LeaveLoop == /\ InLoop /\ bQuit
             /\ phase' = "join"
             /\ UNCHANGED <<bQuit, popped>>

\* (Mutant: ioThread is detached.)
JoinKeyboard_Detach ==
  /\ phase = "join"
  /\ phase' = "leave"
  /\ UNCHANGED <<keyboard, bQuit, popped, interface>>
JoinKeyboard ==
  /\ phase = "join" /\ keyboard # "reading"
  /\ phase' = "leave"
  /\ UNCHANGED <<keyboard, bQuit, popped, interface>>

\* The destructor of c.
Destroy == /\ phase = "leave"
           /\ MainCall!CallDisconnect(TRUE) \/ MainCall!Disconnect
           /\ UNCHANGED <<program, keys>>

-----------------------------------------------------------------------------
(* The keyboard thread.  Any other key, and a request while there is no    *)
(* connection, change nothing.                                             *)

AtKeyboard == phase # "connect" /\ keyboard = "reading" /\ keys = "idle"

\* 'q' or '3'.  (Mutant: the handler only returns.)
QuitKey_NoFlag == /\ AtKeyboard
                  /\ keyboard' = "quit"
                  /\ UNCHANGED <<phase, bQuit, popped, interface>>
QuitKey == /\ AtKeyboard
           /\ keyboard' = "quit"
           /\ bQuit' = TRUE
           /\ UNCHANGED <<phase, popped, interface>>

\* '1' or '2': PingServer, MessageAll.
RequestKey == /\ AtKeyboard
              /\ KeyCall!CallSend
              /\ UNCHANGED <<program, main>>

SendRequest == /\ KeyCall!PostSend
               /\ UNCHANGED <<program, main>>

\* End of file, or an error: the handler does not read on, and tells nobody.
KeyboardFails == /\ AtKeyboard
                 /\ keyboard' = "failed"
                 /\ UNCHANGED <<phase, bQuit, popped, interface>>

-----------------------------------------------------------------------------

Main == Connect \/ TakeMessage \/ ServerDown \/ LeaveLoop \/ JoinKeyboard \/ Destroy

ContextThread == MainCall!ContextThread /\ UNCHANGED <<program, keys>>

Next == \/ Main \/ ConnectFails
        \/ QuitKey \/ RequestKey \/ SendRequest \/ KeyboardFails
        \/ ContextThread

Spec == Init /\ [][Next]_vars

\* The threads keep running.  The user owes the program no key, the server no answer.
Fairness == WF_vars(Main) /\ WF_vars(SendRequest) /\ WF_vars(ContextThread)
FairSpec == Spec /\ Fairness

-----------------------------------------------------------------------------
(* Properties.                                                             *)

TypeOK == /\ phase \in {"connect", "loop", "join", "leave"}
          /\ keyboard \in {"reading", "quit", "failed"}
          /\ keys \in {"idle", "send"}
          /\ bQuit \in BOOLEAN
          /\ popped \in 0..MaxMessages
          /\ MainCall!TypeOK

\* The interface is not made for several threads.  Here two use it, and yet their calls
\* never overlap in a way one caller's could not: it sees the calls of a single thread,
\* which connects once and destroys it last.
OneCaller == INSTANCE ClientInterface
             WITH app <- IF keys = "send" THEN "send" ELSE main,
                  MaxConnects <- 1, Careful <- TRUE
OneCallerSpec == OneCaller!Spec

\* A quit key ends the program, and so does the loss of the server once the keyboard is
\* closed: whatever the server does, no thread is waited for in vain.
ProgramEnds == keyboard = "quit" \/ (bQuit /\ keyboard = "failed") ~> main = "ended"

\* The loop takes every message that has arrived, unless the program quits or the
\* connection closes first.
MessagesTaken ==
  \A n \in 1..MaxMessages : (\E c \in DOMAIN inbox : inbox[c] >= n) ~> popped >= n \/ bQuit
=============================================================================
