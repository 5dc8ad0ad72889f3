--------------------------- MODULE MessageChannel ---------------------------
(***************************************************************************)
(* What a connection promises the two applications it joins: each receives *)
(* the messages of the other, whole, in the order they were sent, none     *)
(* twice and none skipped.  A connection that is lost only stops           *)
(* delivering.                                                             *)
(***************************************************************************)
EXTENDS Naturals, Sequences

CONSTANTS Ends,      \* the two ends
          Contents   \* what an application can send

VARIABLES sent,      \* what each end has sent, in order
          got        \* what each end has received, in order

vars == <<sent, got>>

Init == /\ sent = [e \in Ends |-> <<>>]
        /\ got = [e \in Ends |-> <<>>]

Send(e, c) == /\ sent' = [sent EXCEPT ![e] = Append(@, c)]
              /\ UNCHANGED got

\* e receives the next message its peer p has sent.
Deliver(e, p) == /\ e # p
                 /\ Len(got[e]) < Len(sent[p])
                 /\ got' = [got EXCEPT ![e] = Append(@, sent[p][Len(@) + 1])]
                 /\ UNCHANGED sent

Next == \/ \E e \in Ends, c \in Contents : Send(e, c)
        \/ \E e, p \in Ends : Deliver(e, p)

Spec == Init /\ [][Next]_vars
=============================================================================
