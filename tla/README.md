# asioNetworking in TLA+

TLA+ models of the `hjw` networking library and of the programs built on it, the TLC runs
that check them on small instances, and theorems about them that TLAPS proves for every
value of the constants. The C++ source is the only reference: the repository has no
documentation beyond its comments, and no tests. `PROJECT.json` maps every definition
to the lines it stands for, and lists the runs, the theorems, the findings, the hazards of
the code at their lines, and for each checked property a mutated definition that breaks it.

## 1. The system

The library is a set of headers in `networking/src`; each of them belongs to one of three
independent stacks.

* **net**: a message protocol over TCP. `SimpleServer` and `SimpleClient` are written on it.
* **wss**: a client for secure websockets. `SimpleWSSClient` is written on it.
* **rest**: an HTTP service with coroutines. No program of the repository uses it.

Every interface object (`client_interface`, `server_interface`, `wss::client_interface`,
`rest::Interface`) owns an `io_context` and the thread or threads that run it. Application
threads and context threads share the objects of the library; the one synchronised
structure is `tsqueue`, the rest is kept apart by posting lambdas to the context, by
strands, or by nothing.

| Component | State | Operations | Talks to | What is hard |
|---|---|---|---|---|
| `tsqueue` (net_tsQueue.hpp) | deque, its mutex, a condition variable with another mutex | push, pop, clear, empty, wait | pushed to by context threads, popped by the application | two nested mutexes; a test and a pop under separate locks; a wait without a predicate |
| `message` (net_message.hpp) | header (id, size), body | `<<`, `>>`, size | built by applications, copied by connections | header and body may disagree after a reception |
| `connection` (net_connection.hpp) | socket, incoming temporary, outgoing queue, handshake words | ConnectToServer, ConnectToClient, Send, Disconnect, the handlers of each read and write | its peer over TCP; pushes into its owner's queue | chains of asynchronous operations, the handshake against early sends, errors anywhere |
| `client_interface` (net_client.hpp) | context, thread, connection pointer, queue | Connect, Send, Disconnect, destructor | connection, tsqueue | lifetimes: handlers hold a raw pointer; stop against pending work |
| `server_interface` (net_server.hpp) | context, thread, acceptor, list of connections, queue | Start, Stop, accept handler, update, MessageAllClients, MessageClient | connections, tsqueue, the application's On... functions | the list is used by two threads; a connection let go while handlers are pending |
| wss `session` (wss_session.hpp) | stream, strand, timer, buffer | resolve, connect, TLS handshake, websocket handshake, write, read | a remote server | several threads in one context; time limits; silent failure |
| wss `client_interface` (wss_client_interface.hpp) | context, threads, session pointer, flag | SetThreadCount, Open, Close, destructor | session | the flag against the session; a stopped context; threads that throw |
| rest `Listener`, `Session`, `Interface` | context, thread, work guard, acceptor, signals | start, accept and session coroutines, destructor | HTTP clients, the process's signals, the derived class's handlers | detached coroutines end in silence; join under a work guard; the derived object goes first |
| `SimpleClient`, `SimpleServer`, `SimpleWSSClient` | a quit flag, a keyboard thread | main loops | the interfaces above | a busy loop on a plain bool; joining a thread that waits for the keyboard |

What makes each of them correct:

* tsqueue: the deque is never in a data race, a pop never finds it empty, no lock
  cycle, each operation is atomic, what is pushed is handled, a sleeper is woken.
* connection: nothing of a client passes before its validation; one message is written at a
  time and the chain never stops while messages wait; an open end listens, so
  that a close spreads while the network lasts; the two ends agree on message boundaries; together they are a
  channel that neither loses, reorders nor repeats messages.
* client_interface: no handler runs on a destroyed connection, every thread is joined,
  Disconnect returns, and after it the context thread is silent.
* server_interface: the accept chain lasts until Stop; a broadcast reaches everyone in the
  list; a lost client is told once; nothing is touched after Stop; what is let
  go has nothing left to run.
* wss: the handshake cannot hang, Close returns and leaves the session to nobody, every
  thread is joined.
* rest: the context runs until the signal whatever its sessions do, a signal lets the
  destructor return, silent clients hold up nobody, every request read is answered or fails
  alone, and nothing runs once the interface is destroyed.
* SimpleClient: its two threads together use the interface as one would, a quit key ends
  the program, what has arrived is taken.

## 2. The modules

| Module | Models | Extends or instantiates |
|---|---|---|
| `AtomicDeque` | what `tsqueue` promises: a deque with atomic operations | |
| `TsQueue` | `tsqueue` lock by lock, under `server_interface::update` | instantiates `AtomicDeque` |
| `Message` | `message`: header, size, body, and how a reader computes the body's length | |
| `MessageChannel` | what two joined connections promise | |
| `Connection` | both `connection` objects of a client and its server, the TCP stream and asio's reactor | extends `Message`, instantiates `MessageChannel` |
| `MCConnection` | values for the constants of `Connection` | extends `Connection` |
| `ClientInterface` | `client_interface` against its context thread | |
| `SimpleClient` | the program `SimpleClient`: main thread, keyboard thread, context thread | instantiates `ClientInterface`, for each of its callers and for the one they make together |
| `Server` | `server_interface` as `SimpleServer` uses it | |
| `WssClient` | wss `client_interface` and `session` | |
| `RestService` | rest `Interface`, `Listener` and `Session` | |
| `TsQueueProofs`, `ConnectionProofs`, `ClientInterfaceProofs`, `SimpleClientProofs`, `ServerProofs`, `WssClientProofs`, `RestServiceProofs` | theorems | extend the module they name |
| `ChannelProofs` | theorems about the framing of `Connection` | extends `ConnectionProofs` |

The modules cut the system where the code does. `Connection` knows what is read
and written and has one connection; `ClientInterface` and `Server` know which objects and
threads exist, and see an operation only as pending, then run; `TsQueue` justifies that the
others treat an operation of `m_qMessagesIn` as one step.

**TsQueue.** A step is what a thread does between two points where another may interfere:
taking a mutex, touching the deque, notifying. `push_back` is `PushLock` (m_oMuxQueue),
`Emplace`, `SignalLock` (m_oMuxBlocking, taken while the first is held), `Notify` (and both
released). The consumer is `update`: `Update` (its two arguments), `WaitCheck`, `WaitLock`,
`CvWait`, `WakeUp` for `wait`, then `TestEmpty`, `PopLock`, `PopRead`, `PopErase` in a loop.
`SpuriousWakeup` is the condition variable's own. `front`, `back` and `count` only read and
are left out.

**Message.** Sizes count cells of 8 bytes, the size of a header with a 4-byte enum, of a
handshake word and of the time stamp a ping carries. The literal 8 of `ReadHeader`
(`EightBytes`) and `sizeof(message_header<T>)` (`HeaderSize`) are definitions of their own,
equal for the programs' enums. The 4-byte client id of a ServerMessage is a cell as well: for the framing
only that there is a body counts.

**Connection.** Each end has one context thread, so a handler is one action, named after
what it handles (`OnHeader`, `OnBody`, `OnMessageWritten`, `CheckValidation`, ...).
A read is pending (`read`), then completed by the reactor (`ReadComplete`) when enough cells
have arrived, then handled. A write is started (`wq`), passes its cells to the stream in
parts (`Transfer`; asio queues the rest of a partial write behind the other writes of the
socket), and its handler runs later (`wdone`). Cells are taken from the live buffer at the
time they are written, so a message popped or a word overwritten too early would show. The
handlers of the error paths, the peer's close, a lost network (`Break`), a refused
connect and a denial are actions that may happen at any time. `Send` posts a lambda
(`posted`), which runs later (`RunSend`). Bytes that are not a header, read as one,
may say anything (`HeadersIn`).

**ClientInterface.** The application thread is cut at every call that another thread can
overlap: `MakeConnection`, `StartThread`, `CallSend`/`PostSend`, `CallDisconnect`,
`PostClose`, `Stop`, `Join`. The context thread picks a pending operation (`Begin`), is
inside its handler for a while, and ends it (`OnConnect`, `OnRead`, `RunSend`, `OnWrite`,
`CloseSocket`). A thread that cannot be created leaves the connection without one
(`StartThread`). `Careful` says that the application calls `Disconnect` before it connects
again; without it the program ends, as assigning to a joinable `std::thread` does.

**SimpleClient.** The main thread and the keyboard thread call the same interface object. Each
instantiates `ClientInterface` with a place of its own (`main`, `keys`) for its `app`, and
they share all else: the connection, the sockets, the context. The main loop is
`TakeMessage`, `ServerDown` and `LeaveLoop`, each an iteration that does something; then
`JoinKeyboard` and the destructor. The keyboard is `QuitKey`, `RequestKey` and its
`SendRequest`, or `KeyboardFails` at the end of the input. `OneCaller` is the interface as
those calls look to it, with `app` the place of whoever is inside a `Send`; that this
implements `ClientInterface` is what lets the results about one caller hold here.

**Server.** The application thread is `update` (`TakeMessage`), `OnMessage` (`BouncePing`,
`BeginBroadcast`), the loop of `MessageAllClients` one element at a time (`VisitOpen`,
`VisitClosed`, `EndBroadcast`), and `Stop`, `Join`, `Destroy`. `Start` may fail to create the thread, which it
only prints. The context thread runs the accept handler
(`Approve`, `Deny`, `AcceptError`, `AcceptThrows`) and the connections' handlers, each of which
begins before `Stop` (`Begin`) and may end after it. What a connection has pending is a set of
kinds: the `Send` of the greeting, which is posted first and runs first (`greet`), a posted
`Send`, a read, the writes, two of which count as one, and a read that had completed when a failed
write closed the socket (`late`), whose handler runs all the same. A connection exists while a `shared_ptr` does (`Held`). Where C++ gives no meaning, the list
pushed to during the loop, a handler of a destroyed connection, or a connection destroyed
after the context its socket belongs to (`Destroy`), the behaviour ends in
`app = "undefined"`.

**WssClient.** `Open` is `Open`, one `Spawn` for each thread, `Opened`; a thread constructor
may throw (`SpawnThrows`). A session is a chain of operations (`Following`), each completed
by the network, by its time limit (`Limited`, `Timeout`), or never. Any thread of the context may take the
handler (`Enter`) and starts the next operation (`StartNext`) or prints the error and ends
(`Fail`); it is still inside when that operation completes, and leaves later (`Leave`). `Executor`
says where each handler is bound: `OnResolve` to the resolver's own strand, all others to
`m_oAsioStrand`. That none of a strand's handlers starts while a thread is inside one is
asio's promise, and a guard here (`StrandFree`). `Close` is the stop, `Join` the rest of it.

**RestService.** The owner's steps are `Start` (the listener, which has a port or only says
that it has none, the signal's wait, the thread), `StartThrows`, and the two destructors,
`DestroyDerived` and then `Join` inside `~Interface`. One thread runs the context, so a
coroutine goes from one `co_await` to the next as one action: `Accept` spawns a session and
accepts again, `AcceptThrows` ends the accept coroutine, and a session is `CallHandler`
(the request has been read), `HandlerReturns`, `Written`, or `SessionThrows`. The request
handler is the derived class's code and the only thing that takes time. It belongs to the
derived object: if it runs while, or is called after, that object is destroyed, the
behaviour ends in `app = "undefined"`. `Connect`, `Request` and `RaiseSignal` are the
outside, which may do none of it. `Work` is what keeps `run()` from returning.

## 3. The runs

Each takes from a second to about two minutes with two workers.

| Run | Question | Bounds | Distinct states |
|---|---|---|---|
| `Queue` | Is the queue race free, without lock cycle, atomic, never popped empty, and are messages handled? (`TypeOK`, `DequeExclusive`, `PopFindsItem`, `NoLockCycle`, `AtomicSpec`, `Handled`) | 2 producers, 1 consumer, 2 items, 3 pushes, all operations, update with and without wait, for 1 or 3 messages | 12 thousand |
| `QueueWakeup` | Can the consumer sleep on a queue that is not empty? Yes (`NoLostWakeup` fails) | 1 producer, 2 pushes | |
| `ConnSafety` | Handshake, write discipline, listening, framing, and do two connections implement `MessageChannel`? (`TypeOK`, `NothingBeforeValidation`, `OneMessageAtATime`, `WritesGoOn`, `AlwaysListening`, `InSync`, `ChannelSpec`) | the programs' messages, 2 sends of the client, 1 of the server, which is a greeting or a bounce | 0.8 million |
| `ConnDelivery` | Does every message arrive, does a close spread while the network lasts? (`Delivery`, `CloseSpreads`) | 1 send at each end, of messages with and without body | 76 thousand |
| `ConnIntact` | Is what is received what was sent? No (`DeliveredIntact` fails) | 2 sends of the client | |
| `ConnEarlySend` | Is the answer to the handshake what the server reads first? No (`AnswerComesFirst` fails) | 1 send | |
| `Client` | Lifetimes and threads of a careful client (`TypeOK`, `HandlersLive`, `NoTerminate`, `QuietWhenDisconnected`, `DisconnectReturns`) | 3 connects, 2 messages per connection | 14 thousand |
| `SimpleClient` | Do two threads use the interface as one would, does the program end, does it take its messages? (`TypeOK`, `OneCallerSpec`, `ProgramEnds`, `MessagesTaken`) | 3 messages | 7 thousand |
| `Wss` | Threads, time limits, Close (`TypeOK`, `NoTerminate`, `QuietWhenClosed`, `HandshakeEnds`, `CloseReturns`) | 2 sessions, 3 threads, 2 once an `Open` has failed | 169 thousand |
| `Server` | Told once, broadcast, accept chain, Stop (`TypeOK`, `ToldOnce`, `BroadcastReaches`, `ServesUntilStop`, `QuietWhenStopped`) | 3 clients, 2 messages | 1.5 million |
| `Rest` | Signal, destructor, accept and sessions (`TypeOK`, `RunsUntilSignal`, `QuietWhenDestroyed`, `SignalEnds`, `Accepted`, `Handled`) | 3 clients | 8 thousand |
| `ServerLetGo` | Can a connection be destroyed with handlers pending? Yes (`LetGoIsDone` fails) | 2 clients, 2 messages | |

### Why the bounds are enough

* Queue: the hazards need one producer between two steps of the consumer, and a second
  producer to contend with the first. Three pushes let the queue hold several items while a
  pop is in progress, and `Budgets` {1, 3} let update return with and without emptying it.
* Connection: two sends at an end make a queue behind a write in progress; the server's one
  send is in some behaviours the greeting and in others the bounce of a ping; a body of two
  cells can be written and read in parts; a greeting, a ping and its bounce and a message
  without a body are all the shapes the programs use. `AnySize` 0..2 is what stray bytes may
  spell. The handshake needs three words: zero, the server's, and its scrambled form.
  `Scramble` is any function in the proofs, and one that tells the words apart in the runs.
* ClientInterface: two connections show reuse of the context and of the thread, a third one
  more than that. Server: the sender, a client that is lost and a client that follows it in the list.
* SimpleClient connects once. Three messages let one be taken while others wait and arrive.
* RestService: one client being served, one that is silent and one that knocks.
* WssClient: `MaxThreads` lets an `Open` of the default three threads complete, and `Counts` sets
  fewer. Two sessions share threads when an `Open` that failed is followed by another: the second then
  makes threads up to `MaxAfterThrow`, so that two contend for the two sessions, and no more.

### Why deadlock is not checked

Every configuration says `CHECK_DEADLOCK FALSE` because behaviours really end: the sends are
bounded, an application may stop calling, a program ends (`ended`, `gone`, `destroyed`), and so do
those that terminate or lose their meaning. The deadlocks the code could have are stated
as properties instead: `NoLockCycle`, `WritesGoOn`, `AlwaysListening`, `DisconnectReturns`,
`CloseReturns`, `SignalEnds`, `ProgramEnds`.

### Fairness

Weak fairness everywhere means that the operating system keeps running the threads that can
run, and asio the handlers that are ready.

* `TsQueue`: threads inside an operation go on, and the application calls `update` in a loop
  (`while(1) s.update()`). No push begins by itself, no spurious wakeup is owed. `Handled`
  assumes in its statement that updates keep returning, because of the lost wakeup.
* `Connection`: handlers, reactors and the handshake go on. Applications need not act, and
  nothing forces a close or a break. `Delivery` is about connections that nothing has
  disturbed: no close, no break, no denial, and no message of the client written before
  its answer to the handshake (`calm`), because of the finding `AnswerComesFirst`. After `Break`
  nothing is owed at either end: no keep-alive and no time limit is set, so an end may
  wait for ever. A client that has closed, or whose `Disconnect` has posted the close, owes nothing
  either (`Leaving`), as the context is stopped at once (net_client.hpp:65).
* `ClientInterface`: a call that has begun goes on, and so does the context thread. The server
  owes nothing, and `DisconnectReturns` does not need it to: Stop is enough for run() to return.
* `SimpleClient`: the main thread, a begun `Send` and the context thread go on. No key is
  owed, and no answer of the server: `ProgramEnds` is about a program that has been given
  a quit key, or whose server and keyboard are both gone.
* `WssClient`: threads and begun calls go on, and limits that are set expire. Strong fairness
  of `Enter` says that the context's queue of completed operations is first in, first out:
  the handler of a session that is ready does not lose to another session for ever. The
  network owes nothing, so a peer may be silent.
* `RestService`: the destructor and the context thread go on, and the derived class's
  handlers return or throw. Strong fairness of the signal's handler, of accepting each
  client and of calling each handler is again the context's queue, which passes over
  none of them. No signal, client or request is owed.
* `Server` has no liveness property yet.

## 4. What the checks show of the code

Properties that hold are the rule. These do not, and each is a run of its own and a finding
in `PROJECT.json`:

1. **A lost wakeup** (`NoLostWakeup`, net_tsQueue.hpp:94). `wait` tests `empty()` before it
   holds `m_oMuxBlocking`, and waits without a predicate. A push in between notifies nobody.
2. **A stale body** (`DeliveredIntact`, net_connection.hpp:133). `m_msgTemporaryIn.body` is
   not cleared, so a message without a body comes with that of the message before it.
3. **A message before the handshake** (`AnswerComesFirst`, net_connection.hpp:247).
   `Send` asks only that the socket is open, which it is while the connection is still being
   made. The server takes the message's header for the answer, and closes.
4. **A connection destroyed under its handlers** (`LetGoIsDone`, net_server.hpp:137).
   `client.reset()` in a broadcast may be the last reference while reads, writes or
   posted sends are pending with a raw `this`.

The models contain more behaviour that a user of the library should know, which no comment
or assertion of the repository contradicts and which therefore is no property:

* A client has no second life: `Disconnect` stops the context and nothing restarts it. A
  `Connect` after it makes a connection and starts a thread whose `run()` returns at once,
  and `IsConnected` says true of the socket that is never connected.
* `client_interface::Disconnect` posts the close of the socket and stops the context at once, so
  the close may never run, and the object is leaked by `release()` with its socket open.
* An end that only reads may never learn that the network is lost: `connection` sets
  neither keep-alive nor a time limit. `CloseSpreads` therefore excepts it.
* The greeting of `SimpleServer` is posted before the handshake is over: a client
  may print that it has been validated and then be refused.
* A server that bounced messages without a body would write the stale body of finding 2
  unannounced, and the stream would be out of step for good. `SimpleServer` bounces only
  pings, which always have a body; `InSync` holds for it.
* `m_bOpenSocket` of the wss client stays true after a session has failed, `Close` closes
  neither websocket nor connection, and after it `Open` starts threads on a stopped context.
* If a `std::thread` cannot be created in `Open`, `isOpen()` is false with threads running:
  the destructor, or `SetThreadCount`, then ends the program. `NoTerminate` says that this
  is the only way to that end.
* `remote_endpoint()` at net_server.hpp:84 throws for a client that has already gone, out of
  the thread, which ends the program (`AcceptThrows`).
* A client accepted while the application is inside `MessageAllClients` is a data
  race on the list (`Race`).
* `~server_interface` destroys `m_oContext` before `m_dqConnections` and `m_qMessagesIn`. If a
  connection is left in either, its socket is destroyed after the context's services
  (`Destroy`): only a server without clients is destroyed with a meaning.
* `SimpleClient` with its server down waits for a quit key before it ends; if its input has
  ended, only the loss of the server can end it. A message still in the queue when the
  connection closes is not shown. `bQuit` is a plain `bool` shared by two threads; the model reads it once in each iteration.
* An object derived from `rest::Interface` is destroyed before `~Interface` joins: a request
  that is being handled then, or that arrives before the signal, calls into an object that
  is gone. Only an owner that waits for the signal's effect before destroying it is safe, and
  the class offers nothing to wait for. `~Interface` is not virtual.
* If the port cannot be bound, or accepting fails once, the REST service says so at most on
  the console and runs on, without a port or without accepting whom the system connects.
* A REST session has no time limit and serves one request.
* The optional functions `handle_connect` ... `handle_purge` of `rest::Interface` are declared virtual and
  never defined, so a class that links has to override all of them.

## 5. The proofs

`tlapm` checks all of them; none has an unproved leaf. The assumptions are those stated in
the modules, which the runs evaluate.

* **TsQueueProofs**, for any sets of producers and items, any operations in use and any bound.
  The inductive invariant is `TypeOK`, `LockInv` (which program points hold which mutex,
  and nobody else does) and `PopInv` (between `TestEmpty` and `PopErase` the queue is not
  empty; between `PopRead` and `PopErase` the hand holds its front or back). `TypeOK`
  alone is not inductive: that the queue stays a sequence under `PopErase` needs
  that it is not empty, which only holds because the one consumer is the only one to take
  items away. From it follow `TypeCorrect`, `NoDataRace`, `PopIsDefined`,
  `LocksAcyclic`, and the refinement `Implements`, in which `Emplace`, `PopErase`
  and `Clear` are the steps of the abstract deque and all others stutter.
  `FirstInFirstOut` is the same argument with `pushed = popped \o queue` for
  a queue used with `push_back` and `pop_front` only.
* **ClientInterfaceProofs**, for any number of connects and messages. `TypeCorrect` holds
  for every application. `NoUseAfterFree`, `ThreadsJoined` and `QueueIsTheApplications` are
  proved for a careful one, from an invariant that relates where the application is to
  the thread (joined when there is no connection) and the pending operations to the objects that
  exist: since `Join` forgets a connection without destroying it, objects only go when `Connect` replaces
  one, which a careful application never does.
* **SimpleClientProofs**, for any number of messages. `UsedByOne`: the program implements
  `ClientInterface` with `OneCaller` as the mapping. The invariant `PlaceInv` says which places the two
  threads can be in together: while the keyboard thread is inside `Send` the main thread is
  outside every call, since it is in one only before that thread is started and after it has
  been joined. A step of the main thread is then the same step of the one caller, a key's call of
  `Send` is that caller's, and the loop's own steps stutter. What ClientInterfaceProofs
  shows of a careful client is thereby true of the program: `ProgramTypes` and `ProgramInterface`
  (no handler on a destroyed connection, no thread replaced or destroyed before it is joined).
* **RestServiceProofs**, for any set of clients. The inductive invariant is `TypeOK` and
  `ThreadInv`: a request handler runs only inside `run()`; the context is stopped, or its guard
  reset, or its thread returned, only once the signal's handler has run; and a destroyed
  interface has no running thread. `ServesUntilSignal` needs the second part, since `run()` also
  returns for want of work; `DestroyedIsQuiet` the first and the last, since a handler
  that is under way may finish at any time. `TypeCorrect` includes that one session at a time
  is in its request handler.
* **ServerProofs**, for any numbers of clients and messages. `ThreadInv` says that the context
  thread has an accept to wait for from `Start` on, that the context is stopped only by `Stop`
  and the thread ended only then, and that no thread is left once `Stop` has returned.
  `AcceptsUntilStop` and `StoppedIsQuiet` follow, whatever the list and the queue hold.
  For the other three the list counts. `TypeInv` adds to `TypeOK` which clients a message,
  a pending operation or the list can name (`ServerTypes`). `ListInv` adds to `ToldOnce` that
  only clients that were made are told of, that each is in `m_dqConnections` once, and that the list of a
  loop that has reset nothing, which will not be erased, holds no null: hence `DisconnectToldOnce`.
  `PassedInv` says that every element the loop has passed is null, the client to ignore, reached or closed;
  hence `BroadcastComplete`. The erase
  is stated as the increasing function from the new places to the old (`EraseNulls`), from which the
  provers can tell that it keeps the order and loses no client.
* **WssClientProofs**, for any numbers of sessions and threads and any thread counts.
  `TypeOK` is not inductive alone: that a handler starts the operation its stage says needs
  `OperationInv`, by which a session has one operation at a time, pending, completed or in the hands of the
  one thread that has entered its handler. With it `TypeCorrect`. `JoinInv`
  says that while nothing is open and no `Open` has thrown, every thread has been joined and the context is
  stopped, if there ever was a session. `ThreadsJoined` follows, and `ClosedIsQuiet`: without threads no
  handler runs, and a stopped context completes nothing, whatever a handler that `Close` found half way
  has started since.
* **ConnectionProofs**, for any messages, greetings, handshake words and scrambling.
  `ValidationBarrier`: the server reads no message header and pushes nothing before it has
  validated the client. The invariant adds that an unaccepted server has no read and that
  nothing after the check sets a read of the server but a handler that already
  had one. `BuiltWellFormed`: a message built with `<<` and `>>` announces
  the body it has, the assumption the runs make of what applications send.

  The others rest on `PipeInv`, of which the parts need each other. The code keeps no flag for "a write is
  in progress": `Send` starts one if it finds the queue empty, and the handlers go on while it is
  not. `WriteOK` says that this is enough: at each end one operation of the message
  writes at most is in `wq` or `wdone`, if one is then the queue is not empty, and if the queue of an open
  end is not empty then one is; and the same of the validation word.
  From it `OneWriteOutstanding` and `WritesContinue`. `ReadOK` says that a completed read has
  its cells. `StartInv` relates the stages of the connect and the handshake to the two ends, and `LeadInv` says
  that the validation word is the first the server writes and the client reads: without it the
  client could scramble a cell of a message, and `TypeOK` would not hold. `ConnectionTypes`
  and, with the reads each handler starts, `EndsListen`.
* **ChannelProofs**, for any messages, greetings and numbers of sends: the two connections
  implement `MessageChannel` (`FramingIsChannel`), and what is read as a header was written as one
  (`MessagesInSync`). The cells in a stream carry no mark of where a message begins; the invariant
  `FrameInv` supplies it. `Framed`: there is an increasing sequence `S` of places, the `k`-th message
  sent having its header at `S[k]` and its body up to `S[k+1]`, such that every cell in the stream is
  the cell of the message at its place; places that are not positive have been read. `Reads`: the
  reader's state says where its next message begins (a header at 1, a body at 1 after the
  header at 0). `Writes`: the queue and the lambdas hold the messages that have not been
  written, in order, and the writer is inside the message at the end of the stream. Two ends of
  all this are for good and are alternatives of the invariant: a reader that has stopped (`Stopped`), and
  a server that waits for the answer to its validation word while the stream begins with something
  else (`Early`, the finding `AnswerComesFirst`), which will close. With `MatchInv`, that what was received
  is, position by position, what was sent but perhaps for a stale body, each step of `Connection` is a step of the
  channel or a stutter. `BodiesIntact` is the other side of the finding `DeliveredIntact`: if
  every message an application builds has a body, each arrives with the id, size and body it was sent with.

Two assumptions on constants serve the proofs. `MessagesAssumption` (SimpleClient) says that the bound on
messages is a number. `BounceAssumption` (Connection) says that what the server bounces was sent with a body:
`SimpleServer` bounces `ServerPing` only (SimpleServer.cpp:44), and `SimpleClient` pushes the time into every
ping (SimpleClient.cpp:19).
Without it a bounce could write a stale body that its header does not announce, and the framing
would be lost (section 4).

Only model-checked: the liveness properties (`Handled` of both `TsQueue` and `RestService`, `Delivery`,
`CloseSpreads`, `DisconnectReturns`, `HandshakeEnds`, `CloseReturns`, `ProgramEnds`, `MessagesTaken`,
`SignalEnds`, `Accepted`), which are out of the prover's reach as fairness and `ENABLED` are. Every
invariant and action property of a run that passes is a theorem.

## 6. What is not modelled

* The bit arithmetic of `Scramble`: a constant function. That the answer cannot be guessed is
  no property of these models.
* `Send` of both `connection` and `client_interface` for what they return: `connection::Send`
  is declared `bool` and has no return statement, and no caller looks.
* The race on `is_open()` between the application and the context thread: the models let the
  socket change between the test and the use, but say nothing of the read itself.
* `MessageClient`: it names `erease`, so it cannot be instantiated. `Start` is called once,
  by the constructor's user. `update` is `protected`, though `SimpleServer`'s main
  calls it.
* `SimpleWSSClient`'s busy wait: a loop on a plain `bool` that another thread sets and that has
  no other effect, which a compiler may turn into an endless one. Its keyboard thread is
  `SimpleClient`'s without requests.
* Byte widths: enums of another size than 4, and `operator>>` on a body that is too
  short.
* The inside of Beast's composed operations and the strand of the stream they run on. That
  the handlers bound to `m_oAsioStrand` do not overlap is not checked but taken from asio.
  `OnClose` of the session is never called.
* Texts, endpoints, printing. `src/example.cpp` uses none of the library; `net_utils.hpp` and
  `hjw_net.hpp` only include.

## 7. Plan

Done, in this order: the queue (most shared, and the ground of all others), the connection,
the two interfaces of the net stack, the wss client, their first proofs; then the REST
service, the program `SimpleClient` as a composition over `ClientInterface`, the end of the
server, and proofs about all of them and the wss client.

To do, the model first:

1. `Server`: `OnClientConnection` that sends and then denies, and liveness: a client that
   knocks is dealt with, and a message received is handled.
2. An abstract specification of the server for its clients (who is in the list, who is told),
   refined by `Server`; and one of the REST service, in which each request read is
   answered at most once.
3. `Message` with byte lengths: the literal 8 as a parameter, `operator>>` and its underflow,
   checked against a reference definition over small bodies.
4. Several clients and the server as programs over `MessageChannel`, end to end.

Then the proofs:

1. `Connection`: a client that nothing has disturbed is validated (if `calm`, what the server
   finds first in the stream is the scrambled word), the other side of the finding `AnswerComesFirst`.
2. Of the modules above, their invariants and the refinements of the abstract specifications.
