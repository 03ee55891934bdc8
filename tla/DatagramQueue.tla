--------------------------- MODULE DatagramQueue ---------------------------
(***************************************************************************)
(* What a datagram socket promises its reader, with no mbufs, no pointers  *)
(* and no interrupt levels: a FIFO of datagrams, each read whole or cut to *)
(* the reader's buffer, each read exactly once.                            *)
(***************************************************************************)
EXTENDS Integers, Sequences

CONSTANTS
  Datagram,   \* the datagrams that may arrive: [from, bytes]
  MaxRead     \* the largest buffer a reader offers

VARIABLES
  queue,      \* datagrams accepted and not yet read, oldest first
  out         \* what the current receive is about to return

absvars == <<queue, out>>

\* The part of datagram d that fits a buffer of n bytes.
Cut(d, n) ==
  [err   |-> FALSE,
   from  |-> <<d.from>>,
   bytes |-> SubSeq(d.bytes, 1, IF n < Len(d.bytes) THEN n ELSE Len(d.bytes)),
   trunc |-> n < Len(d.bytes)]

Nothing(e) == [err |-> e, from |-> <<>>, bytes |-> <<>>, trunc |-> FALSE]

AInit == queue = <<>> /\ out = Nothing(FALSE)

Arrive == /\ \E d \in Datagram : queue' = Append(queue, d)
          /\ UNCHANGED out

\* A datagram that exactly fills or exceeds the buffer may be reported as
\* truncated (a zero-length tail of the record counts as a remainder).
Matches(d, n) ==
  /\ out'.err = FALSE
  /\ out'.from \in {<<>>, <<d.from>>}
  /\ out'.bytes = Cut(d, n).bytes
  /\ Cut(d, n).trunc => out'.trunc

Take == /\ queue # <<>>
        /\ \E n \in 0 .. MaxRead : Matches(Head(queue), n) /\ out'.from # <<>>
        /\ queue' = Tail(queue)

Peek == /\ queue # <<>>
        /\ \E n \in 0 .. MaxRead : Matches(Head(queue), n)
        /\ UNCHANGED queue

\* EWOULDBLOCK, or a receive of zero bytes, on an empty queue.
FindEmpty == /\ queue = <<>>
             /\ out' \in {Nothing(TRUE), Nothing(FALSE)}
             /\ UNCHANGED queue

\* The call returns.
Return == out' = Nothing(FALSE) /\ UNCHANGED queue

ANext == Arrive \/ Take \/ Peek \/ FindEmpty \/ Return

ASpec == AInit /\ [][ANext]_absvars
=============================================================================
