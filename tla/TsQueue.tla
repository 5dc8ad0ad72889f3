------------------------------- MODULE TsQueue -------------------------------
(***************************************************************************)
(* hjw::net::tsqueue (networking/src/net_tsQueue.hpp): a deque guarded by  *)
(* one mutex and a condition variable guarded by another, as the threads   *)
(* of a server or a client use it.  The producers are the threads that run *)
(* the io_context, whose connections push what they read; the one consumer *)
(* is the application's thread, which runs server_interface::update.       *)
(*                                                                         *)
(* A step of a thread is what it does between two points where another     *)
(* thread can interfere: taking a mutex, touching the deque, notifying.    *)
(***************************************************************************)
EXTENDS Naturals, Sequences

CONSTANTS Producers,   \* threads that push
          Consumer,    \* the thread that waits and pops
          NoThread,    \* holder of a free mutex
          Items,       \* what the queue holds
          Ops,         \* the operations of the queue the threads call
          Waits,       \* the values of update's bWait
          Budgets,     \* the values of update's maxMesssages
          MaxPushes    \* bound: pushes in a behaviour

Threads == Producers \cup {Consumer}

ASSUME ThreadsAssumption == /\ Consumer \notin Producers
                            /\ NoThread \notin Threads

ASSUME UseAssumption ==
    /\ Ops \subseteq {"push_back", "push_front", "pop_front", "pop_back", "clear"}
    /\ Waits \subseteq BOOLEAN
    /\ Budgets \subseteq Nat
    /\ MaxPushes \in Nat

VARIABLES queue,        \* m_oDeqQueue, front first
          muxQueue,     \* holder of m_oMuxQueue
          muxBlocking,  \* holder of m_oMuxBlocking
          asleep,       \* the consumer is in the wait set of m_cvBlocking
          pc,           \* where each thread is
          hand,         \* <<>>, or <<t>> for the t a pop has moved out
          budget,       \* messages update may still take
          pushed,       \* history: every item pushed
          popped        \* history: every item a pop returned

vars == <<queue, muxQueue, muxBlocking, asleep, pc, hand, budget, pushed, popped>>
locks == <<muxQueue, muxBlocking>>
data  == <<queue, hand, pushed, popped>>

ProducerPc == {"idle", "emplace", "signal", "notify"}
ConsumerPc == {"idle", "waitcheck", "waitlock", "cvwait", "woken", "test",
               "poplock", "popread", "poperase"}

Goto(t, from, to) == pc[t] = from /\ pc' = [pc EXCEPT ![t] = to]

Init == /\ queue = <<>>
        /\ muxQueue = NoThread
        /\ muxBlocking = NoThread
        /\ asleep = FALSE
        /\ pc = [t \in Threads |-> "idle"]
        /\ hand = <<>>
        /\ budget = 0
        /\ pushed = <<>>
        /\ popped = <<>>

-----------------------------------------------------------------------------
(* push_back and push_front.                                               *)

PushLock(p) == /\ Len(pushed) < MaxPushes
               /\ Goto(p, "idle", "emplace")
               /\ muxQueue = NoThread
               /\ muxQueue' = p
               /\ UNCHANGED <<muxBlocking, asleep, budget, data>>

Emplace(p, i) == /\ Goto(p, "emplace", "signal")
                 /\ \/ "push_back" \in Ops /\ queue' = Append(queue, i)
                    \/ "push_front" \in Ops /\ queue' = <<i>> \o queue
                 /\ pushed' = Append(pushed, i)
                 /\ UNCHANGED <<locks, asleep, hand, budget, popped>>

SignalLock(p) == /\ Goto(p, "signal", "notify")
                 /\ muxBlocking = NoThread
                 /\ muxBlocking' = p
                 /\ UNCHANGED <<muxQueue, asleep, budget, data>>

\* notify_one, then both locks are released at the end of the scope.
Notify(p) == /\ Goto(p, "notify", "idle")
             /\ asleep' = FALSE
             /\ muxBlocking' = NoThread
             /\ muxQueue' = NoThread
             /\ UNCHANGED <<budget, data>>

-----------------------------------------------------------------------------
(* server_interface::update, and the wait it may begin with.               *)

Update(b, n) == /\ Goto(Consumer, "idle", IF b THEN "waitcheck" ELSE "test")
                /\ budget' = n
                /\ UNCHANGED <<locks, asleep, data>>

\* while(empty()): m_oMuxQueue is taken and released inside empty().
WaitCheck == /\ Goto(Consumer, "waitcheck", IF queue = <<>> THEN "waitlock" ELSE "test")
             /\ muxQueue = NoThread
             /\ UNCHANGED <<locks, asleep, budget, data>>

\* (Mutant: empty() is tested with m_oMuxBlocking held.)
WaitLock_TestInside == /\ Goto(Consumer, "waitlock", "waitcheck")
                       /\ muxBlocking = NoThread
                       /\ muxBlocking' = Consumer
                       /\ UNCHANGED <<muxQueue, asleep, budget, data>>
WaitLock == /\ Goto(Consumer, "waitlock", "cvwait")
            /\ muxBlocking = NoThread
            /\ muxBlocking' = Consumer
            /\ UNCHANGED <<muxQueue, asleep, budget, data>>

\* m_cvBlocking.wait(ul) joins the wait set and releases m_oMuxBlocking at once.
CvWait == /\ Goto(Consumer, "cvwait", "woken")
          /\ asleep' = TRUE
          /\ muxBlocking' = NoThread
          /\ UNCHANGED <<muxQueue, budget, data>>

\* A condition variable may wake its waiter for no reason.
SpuriousWakeup == /\ asleep
                  /\ asleep' = FALSE
                  /\ UNCHANGED <<locks, pc, budget, data>>

\* wait returns with m_oMuxBlocking held; ul releases it before the next empty().
WakeUp == /\ ~asleep
          /\ muxBlocking = NoThread
          /\ Goto(Consumer, "woken", "waitcheck")
          /\ UNCHANGED <<locks, asleep, budget, data>>

\* messageCount < maxMesssages && !m_qMessagesIn.empty().  (Mutants: the first half alone;
\* <= and one message too many; one too few.)
TestEmpty_Unchecked == /\ Goto(Consumer, "test", IF budget = 0 THEN "idle" ELSE "poplock")
                       /\ UNCHANGED <<locks, asleep, budget, data>>
TestEmpty_OneMore == /\ muxQueue = NoThread
                     /\ budget + 1 > 0
                     /\ Goto(Consumer, "test", IF queue = <<>> THEN "idle" ELSE "poplock")
                     /\ UNCHANGED <<locks, asleep, budget, data>>
TestEmpty_OneLess == /\ muxQueue = NoThread
                     /\ Goto(Consumer, "test",
                             IF budget <= 1 \/ queue = <<>> THEN "idle" ELSE "poplock")
                     /\ UNCHANGED <<locks, asleep, budget, data>>
TestEmpty == /\ \/ budget = 0 /\ Goto(Consumer, "test", "idle")
                \/ /\ budget > 0
                   /\ muxQueue = NoThread
                   /\ Goto(Consumer, "test", IF queue = <<>> THEN "idle" ELSE "poplock")
             /\ UNCHANGED <<locks, asleep, budget, data>>

\* (Mutant: no scoped_lock.)
PopLock_Unlocked == /\ Goto(Consumer, "poplock", "popread")
                    /\ UNCHANGED <<locks, asleep, budget, data>>
PopLock == /\ Goto(Consumer, "poplock", "popread")
           /\ muxQueue = NoThread
           /\ muxQueue' = Consumer
           /\ UNCHANGED <<muxBlocking, asleep, budget, data>>

\* auto t = std::move(front()), or back(): undefined when the deque is empty.
PopRead == /\ Goto(Consumer, "popread", "poperase")
           /\ queue # <<>>
           /\ \/ "pop_front" \in Ops /\ hand' = <<"front", Head(queue)>>
              \/ "pop_back" \in Ops /\ hand' = <<"back", queue[Len(queue)]>>
           /\ UNCHANGED <<locks, asleep, budget, queue, pushed, popped>>

\* The item leaves the deque, the lock is released and update hands it to OnMessage.
\* (Mutant: pop_front erases the back.)
PopErase_Back == /\ Goto(Consumer, "poperase", "test")
                 /\ queue' = SubSeq(queue, 1, Len(queue) - 1)
                 /\ popped' = Append(popped, hand[2])
                 /\ hand' = <<>>
                 /\ budget' = budget - 1
                 /\ muxQueue' = NoThread
                 /\ UNCHANGED <<muxBlocking, asleep, pushed>>
PopErase == /\ Goto(Consumer, "poperase", "test")
            /\ queue' = IF hand[1] = "front" THEN Tail(queue)
                                             ELSE SubSeq(queue, 1, Len(queue) - 1)
            /\ popped' = Append(popped, hand[2])
            /\ hand' = <<>>
            /\ budget' = budget - 1
            /\ muxQueue' = NoThread
            /\ UNCHANGED <<muxBlocking, asleep, pushed>>

\* clear, which the owner of the queue calls between two updates.
Clear == /\ "clear" \in Ops
         /\ pc[Consumer] = "idle"
         /\ muxQueue = NoThread
         /\ queue' = <<>>
         /\ UNCHANGED <<locks, asleep, pc, hand, budget, pushed, popped>>

-----------------------------------------------------------------------------

Push(p) == PushLock(p) \/ (\E i \in Items : Emplace(p, i)) \/ SignalLock(p) \/ Notify(p)

Wait == WaitCheck \/ WaitLock \/ CvWait \/ WakeUp

Pop == TestEmpty \/ PopLock \/ PopRead \/ PopErase

Next == \/ \E p \in Producers : Push(p)
        \/ \E b \in Waits, n \in Budgets : Update(b, n)
        \/ Wait
        \/ SpuriousWakeup
        \/ Pop
        \/ Clear

Spec == Init /\ [][Next]_vars

(***************************************************************************)
(* The operating system keeps running every thread that can run, and the   *)
(* application calls update in a loop; nothing forces a spurious wakeup.   *)
(***************************************************************************)
Fairness == /\ \A p \in Producers : WF_vars(SignalLock(p) \/ Notify(p))
            /\ \A p \in Producers : WF_vars(\E i \in Items : Emplace(p, i))
            /\ WF_vars(\E b \in Waits, n \in Budgets : Update(b, n))
            /\ WF_vars(Wait)
            /\ WF_vars(Pop)

FairSpec == Spec /\ Fairness

-----------------------------------------------------------------------------
(* Properties.                                                             *)

TypeOK == /\ queue \in Seq(Items)
          /\ muxQueue \in Threads \cup {NoThread}
          /\ muxBlocking \in Threads \cup {NoThread}
          /\ asleep \in BOOLEAN
          /\ pc \in [Threads -> ProducerPc \cup ConsumerPc]
          /\ \A p \in Producers : pc[p] \in ProducerPc
          /\ pc[Consumer] \in ConsumerPc
          /\ hand \in {<<>>} \cup ({"front", "back"} \X Items)
          /\ budget \in Nat
          /\ pushed \in Seq(Items)
          /\ popped \in Seq(Items)

\* Two threads never touch m_oDeqQueue at once, so the deque is never in a data race.
InDeque(t) == pc[t] \in {"emplace", "popread", "poperase"}
DequeExclusive == \A t, u \in Threads : InDeque(t) /\ InDeque(u) => t = u

\* update tests empty() and pops under two separate locks: the item it saw is still
\* there when it pops, so front() is never called on an empty deque.
PopFindsItem == pc[Consumer] \in {"poplock", "popread"} => queue # <<>>

\* Where only push_back and pop_front are used, what was pushed and not yet popped is in the
\* queue, in order: nothing is lost, doubled or reordered on the way from the connection to
\* the application.
Fifo == pushed = popped \o queue

\* push holds m_oMuxQueue while it waits for m_oMuxBlocking.  The consumer therefore
\* never wants m_oMuxQueue while it holds m_oMuxBlocking: no lock cycle.
NoLockCycle == ~ /\ muxBlocking = Consumer
                 /\ pc[Consumer] \in {"waitcheck", "test", "poplock"}

\* Every operation takes effect in one step.
Atomic == INSTANCE AtomicDeque WITH deque <- queue, taken <- popped
AtomicSpec == Atomic!Spec

\* An application whose calls of update keep returning (it polls, or its wait is woken)
\* handles every message that stays in the queue: update always takes the next one.
Handled ==
    []<>(pc[Consumer] = "idle") =>
        \A n \in 0..MaxPushes : queue # <<>> /\ Len(popped) = n
                                 ~> Len(popped) > n \/ queue = <<>>

\* "signal condition variable to wake up": a consumer sleeps on the condition variable
\* only while there is nothing to take or a push is still about to notify it.
NoLostWakeup == asleep => \/ queue = <<>>
                          \/ \E p \in Producers : pc[p] \in {"signal", "notify"}
=============================================================================
