------------------------- MODULE SockBufRefinement -------------------------
(***************************************************************************)
(* The pointer structure of SockBuf implements the FIFO of DatagramQueue.  *)
(***************************************************************************)
EXTENDS SockBuf

\* The mbufs of a record, from x on.
Chain(x) ==
  LET f[y \in Ptr] == IF y = NULL THEN <<>> ELSE <<y>> \o f[m_next[y]]
  IN  f[x]

\* The bytes of a chain of mbufs.
Bytes(x) ==
  LET f[y \in Ptr] == IF y = NULL THEN <<>> ELSE m_data[y] \o f[m_next[y]]
  IN  f[x]

\* The datagrams of the records from head x on.
Records(x) ==
  LET f[y \in Ptr] ==
        IF y = NULL THEN <<>>
        ELSE <<[from |-> m_data[y][1], bytes |-> Bytes(m_next[y])]>>
             \o f[m_nextpkt[y]]
  IN  f[x]

\* A record soreceive has begun to take apart still counts as queued, with
\* the bytes already copied to the user, until the loop ends.
AbsQueue ==
  IF pc \in {"loop", "uiomove"} /\ "PEEK" \notin flags
  THEN <<[from |-> m_data[from][1], bytes |-> user \o Bytes(m)]>>
       \o Records(IF m = NULL THEN nextpkt ELSE m_nextpkt[m])
  ELSE Records(sb_mb)

Abs == INSTANCE DatagramQueue WITH
         queue <- AbsQueue,
         Datagram <- {[from |-> p.from,
                       bytes |-> LET f[i \in 0 .. Len(p.segs)] ==
                                       IF i = 0 THEN <<>>
                                       ELSE f[i - 1] \o p.segs[i].bytes
                                 IN  f[Len(p.segs)]] : p \in Packet}

\* Whatever input arrives between the steps of a receive, datagrams are
\* delivered in order of arrival, whole or cut to the buffer, none twice and
\* none lost, with the address they came from.
ReadsFifo == Abs!ASpec
=============================================================================
