------------------------------- MODULE Message -------------------------------
(***************************************************************************)
(* hjw::net::message (networking/src/net_message.hpp): a header with an id *)
(* and a size, and a body used as a stack.                                 *)
(*                                                                         *)
(* Sizes count cells of 8 bytes, the size of message_header<T> for the     *)
(* 4-byte enums the programs use, of a handshake word and of the time      *)
(* stamp a ping carries.  A cell holds a value, never its bytes.           *)
(***************************************************************************)
EXTENDS Naturals, Sequences

CONSTANTS Ids,     \* message types, the enumerators of T
          Data     \* values of 8 bytes that applications push

\* sizeof(message_header<T>), and the literal 8 that the connection uses for it.
HeaderSize == 1
EightBytes == 1

DataCells == [kind : {"data"}, val : Data]

\* message{}: header.size stays 0 until something is pushed.
Blank(i) == [id |-> i, size |-> 0, body |-> <<>>]

\* message::size
PacketSize(b) == HeaderSize + Len(b)

WithBody(m, b) == [m EXCEPT !.body = b, !.size = PacketSize(b)]

\* msg << data
PushData(m, d) == WithBody(m, Append(m.body, [kind |-> "data", val |-> d]))

\* msg >> data, for a body that holds at least one value
PopData(m) == WithBody(m, SubSeq(m.body, 1, Len(m.body) - 1))

\* The header tells the length of the body that follows it, as a reader computes it:
\* no body unless size exceeds the header's own.
BodyLength(size) == IF size > EightBytes THEN size - EightBytes ELSE 0
WellFormed(m) == Len(m.body) = BodyLength(m.size)
=============================================================================
