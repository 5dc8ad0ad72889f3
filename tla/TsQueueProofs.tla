---------------------------- MODULE TsQueueProofs ----------------------------
(***************************************************************************)
(* Proofs about TsQueue, for any number of producers, any items, any use   *)
(* of the operations and any bound on the pushes.                          *)
(*                                                                         *)
(* The inductive invariant says what each program counter implies: which   *)
(* locks a thread holds (LockInv), and what the consumer knows of the      *)
(* deque between its test and its pop (PopInv).  The safety properties     *)
(* follow: only a thread in the deque holds m_oMuxQueue, and only the      *)
(* consumer removes items, so what it saw is still there.                  *)
(***************************************************************************)
EXTENDS TsQueue, SequenceTheorems, TLAPS

\* A lock is held exactly by the thread whose program counter is between its acquisition
\* and its release.
LockInv ==
  /\ \A p \in Producers : pc[p] \in {"emplace", "signal", "notify"} <=> muxQueue = p
  /\ pc[Consumer] \in {"popread", "poperase"} <=> muxQueue = Consumer
  /\ \A p \in Producers : pc[p] = "notify" <=> muxBlocking = p
  /\ pc[Consumer] = "cvwait" <=> muxBlocking = Consumer

\* From its test to its pop the consumer has budget and the deque an item; what it has
\* read is still at the end it read it from.
PopInv ==
  /\ pc[Consumer] \in {"poplock", "popread", "poperase"} => queue # <<>> /\ budget > 0
  /\ pc[Consumer] = "poperase" <=> hand # <<>>
  /\ hand # <<>> => hand[2] = IF hand[1] = "front" THEN queue[1] ELSE queue[Len(queue)]
  /\ hand # <<>> => \/ hand[1] = "front" /\ "pop_front" \in Ops
                    \/ hand[1] = "back" /\ "pop_back" \in Ops

IInv == TypeOK /\ LockInv /\ PopInv

-----------------------------------------------------------------------------
(* Facts about sequences.                                                  *)

\* The ends of a sequence that is not empty, and what is left without them.
LEMMA EndsOfSeq ==
  ASSUME NEW S, NEW s \in Seq(S), s # <<>>
  PROVE  /\ Len(s) \in Nat \ {0}
         /\ Head(s) = s[1] /\ s[1] \in S /\ s[Len(s)] \in S
         /\ Tail(s) \in Seq(S)
         /\ SubSeq(s, 1, Len(s) - 1) \in Seq(S)
<1>1. Len(s) \in Nat \ {0}
  BY EmptySeq
<1>2. \A i \in 1..Len(s) : s[i] \in S
  BY ElementOfSeq
<1>3. Tail(s) \in Seq(S)
  BY HeadTailProperties
<1>4. SubSeq(s, 1, Len(s) - 1) \in Seq(S)
  <2>1. \A i \in 1..(Len(s) - 1) : s[i] \in S
    BY <1>1, <1>2
  <2>2. QED BY <2>1, <1>1, SubSeqProperties
<1>5. QED BY <1>1, <1>2, <1>3, <1>4

\* Adding an item in front of a sequence gives a sequence.
LEMMA ConsSeq ==
  ASSUME NEW S, NEW s \in Seq(S), NEW e \in S
  PROVE  <<e>> \o s \in Seq(S) /\ <<e>> \o s # <<>>
<1>1. <<e>> \in Seq(S) /\ <<e>> # <<>>
  OBVIOUS
<1>2. QED BY <1>1, ConcatProperties, ConcatEqualIffEmpty

\* Moving the head of t to the end of s leaves their concatenation as it is.
LEMMA MoveHead ==
  ASSUME NEW S, NEW s \in Seq(S), NEW t \in Seq(S), t # <<>>
  PROVE  Append(s, Head(t)) \o Tail(t) = s \o t
<1>1. /\ Head(t) \in S /\ Tail(t) \in Seq(S) /\ Len(t) \in Nat \ {0}
      /\ Len(Tail(t)) = Len(t) - 1
      /\ \A i \in 1..Len(Tail(t)) : Tail(t)[i] = t[i + 1]
  BY EmptySeq, HeadTailProperties
<1>2. Append(s, Head(t)) = s \o <<Head(t)>> /\ <<Head(t)>> \in Seq(S)
  BY <1>1, AppendIsConcat
<1>3. <<Head(t)>> \o Tail(t) = t
  <2>1. Tail(t) = SubSeq(t, 2, Len(t))
    BY TailIsSubSeq
  <2>2. t = SubSeq(t, 1, Len(t))
    BY SubSeqFull
  <2>3. SubSeq(t, 1, Len(t)) = <<t[1]>> \o SubSeq(t, 2, Len(t))
    <3>1. 1 \in 1..Len(t) /\ Len(t) \in 1..Len(t) /\ 1 + 1 = 2
      BY <1>1
    <3>2. QED BY <3>1, SubSeqRecursiveFirst
  <2>4. QED BY <2>1, <2>2, <2>3
<1>4. (s \o <<Head(t)>>) \o Tail(t) = s \o (<<Head(t)>> \o Tail(t))
  BY <1>1, <1>2, ConcatAssociative
<1>5. QED BY <1>2, <1>3, <1>4

-----------------------------------------------------------------------------
(* The inductive invariant.                                                *)

LEMMA IInvInit == Init => IInv
<1> USE ThreadsAssumption, UseAssumption
<1> SUFFICES ASSUME Init PROVE IInv
  OBVIOUS
<1>1. TypeOK
  BY EmptySeq DEF Init, TypeOK, ProducerPc, ConsumerPc, Threads
<1>2. LockInv
  BY DEF Init, LockInv, Threads
<1>3. PopInv
  BY DEF Init, PopInv, Threads
<1>4. QED BY <1>1, <1>2, <1>3 DEF IInv

\* One step per action.
LEMMA IInvNext == IInv /\ [Next]_vars => IInv'
<1> SUFFICES ASSUME IInv, [Next]_vars PROVE IInv'
  OBVIOUS
<1> USE ThreadsAssumption, UseAssumption
<1>a. TypeOK /\ LockInv /\ PopInv
  BY DEF IInv
<1>b. Consumer \in Threads /\ Producers \subseteq Threads
  BY DEF Threads
<1>1. ASSUME NEW p \in Producers, PushLock(p) PROVE IInv'
  <2> USE <1>1 DEF PushLock, Goto, data
  <2>1. TypeOK'
    BY <1>a, <1>b DEF TypeOK, ProducerPc, ConsumerPc
  <2>2. LockInv'
    BY <1>a, <1>b DEF TypeOK, LockInv
  <2>3. PopInv'
    BY <1>a, <1>b DEF TypeOK, PopInv
  <2>4. QED BY <2>1, <2>2, <2>3 DEF IInv
<1>2. ASSUME NEW p \in Producers, NEW i \in Items, Emplace(p, i) PROVE IInv'
  <2> USE <1>2 DEF Emplace, Goto, locks
  <2>1. queue' \in Seq(Items) /\ queue' # <<>> /\ pushed' \in Seq(Items)
    <3>1. queue \in Seq(Items) /\ pushed \in Seq(Items)
      BY <1>a DEF TypeOK
    <3>2. /\ Append(queue, i) \in Seq(Items) /\ Append(queue, i) # <<>>
          /\ Append(pushed, i) \in Seq(Items)
      BY <3>1, AppendProperties
    <3>3. <<i>> \o queue \in Seq(Items) /\ <<i>> \o queue # <<>>
      BY <3>1, ConsSeq
    <3>4. QED BY <3>2, <3>3
  <2>2. TypeOK'
    BY <1>a, <1>b, <2>1 DEF TypeOK, ProducerPc, ConsumerPc
  <2>3. LockInv'
    BY <1>a, <1>b DEF TypeOK, LockInv
  <2>4. hand = <<>> /\ pc'[Consumer] = pc[Consumer] /\ pc[Consumer] # "poperase"
    BY <1>a, <1>b DEF TypeOK, LockInv, PopInv
  <2>5. PopInv'
    BY <1>a, <2>1, <2>4 DEF PopInv
  <2>6. QED BY <2>2, <2>3, <2>5 DEF IInv
<1>3. ASSUME NEW p \in Producers, SignalLock(p) PROVE IInv'
  <2> USE <1>3 DEF SignalLock, Goto, data
  <2>1. TypeOK'
    BY <1>a, <1>b DEF TypeOK, ProducerPc, ConsumerPc
  <2>2. LockInv'
    BY <1>a, <1>b DEF TypeOK, LockInv
  <2>3. PopInv'
    BY <1>a, <1>b DEF TypeOK, PopInv
  <2>4. QED BY <2>1, <2>2, <2>3 DEF IInv
<1>4. ASSUME NEW p \in Producers, Notify(p) PROVE IInv'
  <2> USE <1>4 DEF Notify, Goto, data
  <2>1. TypeOK'
    BY <1>a, <1>b DEF TypeOK, ProducerPc, ConsumerPc
  <2>2. LockInv'
    BY <1>a, <1>b DEF TypeOK, LockInv
  <2>3. PopInv'
    BY <1>a, <1>b DEF TypeOK, PopInv
  <2>4. QED BY <2>1, <2>2, <2>3 DEF IInv
<1>5. ASSUME NEW b \in Waits, NEW n \in Budgets, Update(b, n) PROVE IInv'
  <2> USE <1>5 DEF Update, Goto, data, locks
  <2>1. TypeOK'
    BY <1>a, <1>b DEF TypeOK, ProducerPc, ConsumerPc
  <2>2. LockInv'
    BY <1>a, <1>b DEF TypeOK, LockInv
  <2>3. PopInv'
    BY <1>a, <1>b DEF TypeOK, PopInv
  <2>4. QED BY <2>1, <2>2, <2>3 DEF IInv
<1>6. CASE Wait
  <2> USE <1>6 DEF Wait, WaitCheck, WaitLock, CvWait, WakeUp, Goto, data, locks
  <2>1. TypeOK'
    BY <1>a, <1>b DEF TypeOK, ProducerPc, ConsumerPc
  <2>2. LockInv'
    BY <1>a, <1>b DEF TypeOK, LockInv
  <2>3. PopInv'
    BY <1>a, <1>b DEF TypeOK, PopInv
  <2>4. QED BY <2>1, <2>2, <2>3 DEF IInv
<1>7. CASE SpuriousWakeup
  <2> USE <1>7 DEF SpuriousWakeup, data, locks
  <2>1. TypeOK' /\ LockInv' /\ PopInv'
    BY <1>a DEF TypeOK, LockInv, PopInv
  <2>2. QED BY <2>1 DEF IInv
<1>8. CASE TestEmpty
  <2> USE <1>8 DEF TestEmpty, Goto, data, locks
  <2>1. TypeOK'
    BY <1>a, <1>b DEF TypeOK, ProducerPc, ConsumerPc
  <2>2. LockInv'
    BY <1>a, <1>b DEF TypeOK, LockInv
  <2>3. PopInv'
    BY <1>a, <1>b DEF TypeOK, PopInv
  <2>4. QED BY <2>1, <2>2, <2>3 DEF IInv
<1>9. CASE PopLock
  <2> USE <1>9 DEF PopLock, Goto, data
  <2>1. TypeOK'
    BY <1>a, <1>b DEF TypeOK, ProducerPc, ConsumerPc
  <2>2. LockInv'
    BY <1>a, <1>b DEF TypeOK, LockInv
  <2>3. PopInv'
    BY <1>a, <1>b DEF TypeOK, PopInv
  <2>4. QED BY <2>1, <2>2, <2>3 DEF IInv
<1>10. CASE PopRead
  <2> USE <1>10 DEF PopRead, Goto, locks
  <2>1. /\ Head(queue) = queue[1] /\ queue[1] \in Items /\ queue[Len(queue)] \in Items
    BY <1>a, EndsOfSeq DEF TypeOK
  <2>2. hand' \in {"front", "back"} \X Items /\ hand' # <<>>
    BY <2>1
  <2>3. TypeOK'
    BY <1>a, <1>b, <2>2 DEF TypeOK, ProducerPc, ConsumerPc
  <2>4. LockInv'
    BY <1>a, <1>b DEF TypeOK, LockInv
  <2>5. PopInv'
    BY <1>a, <1>b, <2>1, <2>2 DEF TypeOK, PopInv
  <2>6. QED BY <2>3, <2>4, <2>5 DEF IInv
<1>11. CASE PopErase
  <2> USE <1>11 DEF PopErase, Goto
  <2>1. queue # <<>> /\ budget > 0 /\ hand # <<>>
    BY <1>a DEF PopInv
  <2>2. hand \in {"front", "back"} \X Items
    BY <1>a, <2>1 DEF TypeOK
  <2>3. queue' \in Seq(Items) /\ popped' \in Seq(Items)
    BY <1>a, <2>1, <2>2, EndsOfSeq, AppendProperties DEF TypeOK
  <2>4. TypeOK'
    BY <1>a, <1>b, <2>1, <2>3 DEF TypeOK, ProducerPc, ConsumerPc
  <2>5. LockInv'
    BY <1>a, <1>b DEF TypeOK, LockInv
  <2>6. PopInv'
    BY <1>a, <1>b DEF TypeOK, PopInv
  <2>7. QED BY <2>4, <2>5, <2>6 DEF IInv
<1>12. CASE Clear
  <2> USE <1>12 DEF Clear, locks
  <2>1. TypeOK'
    BY <1>a, EmptySeq DEF TypeOK
  <2>2. LockInv'
    BY <1>a DEF LockInv
  <2>3. PopInv'
    BY <1>a DEF PopInv
  <2>4. QED BY <2>1, <2>2, <2>3 DEF IInv
<1>13. CASE UNCHANGED vars
  BY <1>13, <1>a DEF IInv, vars, TypeOK, LockInv, PopInv
<1>14. QED
  BY <1>1, <1>2, <1>3, <1>4, <1>5, <1>6, <1>7, <1>8, <1>9, <1>10, <1>11, <1>12, <1>13
  DEF Next, Push, Pop

-----------------------------------------------------------------------------
(* The theorems.                                                           *)

\* The state of the queue and of its threads keeps its type.
THEOREM TypeCorrect == Spec => []TypeOK
<1>1. IInv => TypeOK
  BY DEF IInv
<1>2. QED BY <1>1, IInvInit, IInvNext, PTL DEF Spec

\* No two threads are in the deque at once: tsqueue's operations do not race on it.
THEOREM NoDataRace == Spec => []DequeExclusive
<1>1. IInv => DequeExclusive
  BY ThreadsAssumption DEF IInv, TypeOK, LockInv, DequeExclusive, InDeque, Threads, ProducerPc,
                           ConsumerPc
<1>2. QED BY <1>1, IInvInit, IInvNext, PTL DEF Spec

\* update never pops from an empty queue, although it tests and pops under two locks.
THEOREM PopIsDefined == Spec => []PopFindsItem
<1>1. IInv => PopFindsItem
  BY DEF IInv, PopInv, PopFindsItem
<1>2. QED BY <1>1, IInvInit, IInvNext, PTL DEF Spec

\* A push and a wait never hold one mutex each while they want the other's.
THEOREM LocksAcyclic == Spec => []NoLockCycle
<1>1. IInv => NoLockCycle
  BY DEF IInv, LockInv, NoLockCycle
<1>2. QED BY <1>1, IInvInit, IInvNext, PTL DEF Spec

\* With push_back and pop_front alone, as connections and update use the queue, what is
\* popped is what was pushed, in order, and the rest is in the queue.
THEOREM FirstInFirstOut ==
  ASSUME Ops = {"push_back", "pop_front"}
  PROVE  Spec => []Fifo
<1>1. Init => Fifo
  BY DEF Init, Fifo
<1>2. IInv /\ Fifo /\ [Next]_vars => Fifo'
  <2> SUFFICES ASSUME IInv, Fifo, [Next]_vars PROVE Fifo'
    OBVIOUS
  <2>a. queue \in Seq(Items) /\ pushed \in Seq(Items) /\ popped \in Seq(Items)
    BY DEF IInv, TypeOK
  <2>1. ASSUME NEW p \in Producers, NEW i \in Items, Emplace(p, i) PROVE Fifo'
    <3>1. queue' = Append(queue, i) /\ pushed' = Append(pushed, i) /\ popped' = popped
      BY <2>1 DEF Emplace
    <3>2. <<i>> \in Seq(Items)
      OBVIOUS
    <3>3. (popped \o queue) \o <<i>> = popped \o (queue \o <<i>>)
      BY <2>a, <3>2, ConcatAssociative
    <3>4. Append(queue, i) = queue \o <<i>> /\ Append(pushed, i) = pushed \o <<i>>
      BY <2>a, AppendIsConcat
    <3>5. QED BY <3>1, <3>3, <3>4 DEF Fifo
  <2>2. CASE PopErase
    <3>1. hand # <<>> /\ hand[1] = "front" /\ hand[2] = queue[1] /\ queue # <<>>
      BY <2>2 DEF IInv, PopInv, PopErase, Goto
    <3>2. queue' = Tail(queue) /\ popped' = Append(popped, Head(queue)) /\ pushed' = pushed
      BY <2>2, <2>a, <3>1, EndsOfSeq DEF PopErase
    <3>3. QED BY <2>a, <3>1, <3>2, MoveHead DEF Fifo
  <2>3. CASE UNCHANGED <<queue, pushed, popped>>
    BY <2>3 DEF Fifo
  <2>4. QED
    BY <2>1, <2>2, <2>3
    DEF Next, Push, PushLock, SignalLock, Notify, Update, Wait, WaitCheck, WaitLock, CvWait,
        WakeUp, SpuriousWakeup, Pop, TestEmpty, PopLock, PopRead, Clear, vars, data
<1>3. QED BY <1>1, <1>2, IInvInit, IInvNext, PTL DEF Spec

\* The queue with its two mutexes implements the atomic deque: a push takes effect when it
\* emplaces, a pop when it erases, a clear when it clears, and nothing else shows.
THEOREM Implements == Spec => AtomicSpec
<1>1. Init => Atomic!Init
  BY DEF Init, Atomic!Init
<1>2. IInv /\ [Next]_vars => [Atomic!Next]_(Atomic!vars)
  <2> SUFFICES ASSUME IInv, [Next]_vars PROVE [Atomic!Next]_(Atomic!vars)
    OBVIOUS
  <2>1. ASSUME NEW p \in Producers, NEW i \in Items, Emplace(p, i) PROVE Atomic!Next
    <3>1. Atomic!PushBack(i) \/ Atomic!PushFront(i)
      BY <2>1 DEF Emplace, Atomic!PushBack, Atomic!PushFront
    <3>2. QED BY <3>1 DEF Atomic!Next
  <2>2. CASE PopErase
    <3>1. /\ hand # <<>> /\ queue # <<>> /\ queue \in Seq(Items)
          /\ hand[2] = IF hand[1] = "front" THEN queue[1] ELSE queue[Len(queue)]
      BY <2>2 DEF IInv, TypeOK, PopInv, PopErase, Goto
    <3>2. Head(queue) = queue[1]
      BY <3>1, EndsOfSeq
    <3>3. CASE hand[1] = "front"
      BY <2>2, <3>1, <3>2, <3>3 DEF PopErase, Atomic!PopFront, Atomic!Next
    <3>4. CASE hand[1] # "front"
      BY <2>2, <3>1, <3>4 DEF PopErase, Atomic!PopBack, Atomic!Next
    <3>5. QED BY <3>3, <3>4
  <2>3. CASE Clear
    BY <2>3 DEF Clear, Atomic!Clear, Atomic!Next
  <2>4. CASE UNCHANGED <<queue, popped>>
    BY <2>4 DEF Atomic!vars
  <2>5. QED
    BY <2>1, <2>2, <2>3, <2>4
    DEF Next, Push, PushLock, SignalLock, Notify, Update, Wait, WaitCheck, WaitLock, CvWait,
        WakeUp, SpuriousWakeup, Pop, TestEmpty, PopLock, PopRead, vars, data
<1>3. QED BY <1>1, <1>2, IInvInit, IInvNext, PTL DEF Spec, AtomicSpec, Atomic!Spec
=============================================================================
