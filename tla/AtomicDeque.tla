----------------------------- MODULE AtomicDeque -----------------------------
(***************************************************************************)
(* What hjw::net::tsqueue promises to the threads that share it: a deque   *)
(* each of whose operations takes effect in one step.  TsQueue, which      *)
(* models the two mutexes and the condition variable, is shown to          *)
(* implement this specification.                                           *)
(***************************************************************************)
EXTENDS Naturals, Sequences

CONSTANT Items      \* what the queue holds

VARIABLES deque,    \* the content of the queue, front first
          taken     \* every item a pop returned, in the order of the pops

vars == <<deque, taken>>

Init == deque = <<>> /\ taken = <<>>

PushBack(i)  == deque' = Append(deque, i) /\ UNCHANGED taken

PushFront(i) == deque' = <<i>> \o deque /\ UNCHANGED taken

PopFront == /\ deque # <<>>
            /\ deque' = Tail(deque)
            /\ taken' = Append(taken, Head(deque))

PopBack == /\ deque # <<>>
           /\ deque' = SubSeq(deque, 1, Len(deque) - 1)
           /\ taken' = Append(taken, deque[Len(deque)])

Clear == deque' = <<>> /\ UNCHANGED taken

Next == \/ \E i \in Items : PushBack(i) \/ PushFront(i)
        \/ PopFront
        \/ PopBack
        \/ Clear

Spec == Init /\ [][Next]_vars
=============================================================================
