------------------------------ MODULE MCInput -------------------------------
(* What comes in while the program is elsewhere: datagrams for a socket, and *)
(* keys for the terminals.  They share no state, so that a behaviour         *)
(* exercises one of them, chosen at the start.                               *)
EXTENDS SockBufRefinement, Termio

VARIABLE part

\* Small packets: one data mbuf, two, an empty first one (the headers had an mbuf
\* of their own), a cut last one (mbuf_trim empties, never frees).
Seg(bs, e) == [bytes |-> bs, ext |-> e]

MCPacket ==
  {[from |-> "a", mp_len |-> 2, clusters |-> 1,
    segs |-> <<Seg(<<"a1", "a2">>, TRUE)>>],
   [from |-> "b", mp_len |-> 1, clusters |-> 1,
    segs |-> <<Seg(<<>>, FALSE), Seg(<<"b1">>, TRUE)>>],
   [from |-> "c", mp_len |-> 1, clusters |-> 0,
    segs |-> <<Seg(<<"c1">>, FALSE), Seg(<<>>, FALSE)>>]}

MCByte == {"a", "a1", "a2", "b", "b1", "c", "c1"}

MCWrites == {<<"a", "nl", "a", "nl", "a">>}

MCInit == Init /\ TermInit /\ part \in {"socket", "terminal"}

MCNext ==
  /\ \/ part = "socket" /\ Next /\ UNCHANGED termvars
     \/ part = "terminal" /\ TermNext /\ UNCHANGED vars
  /\ UNCHANGED part

\* A socket nobody receives from asks nothing of its reader, whereas a terminal
\* could always be read.
Turn == part = "terminal"
MCSpec ==
  /\ MCInit /\ [][MCNext]_<<vars, termvars, part>>
  /\ Fairness
  /\ WF_termvars(Turn /\ Sending) /\ WF_termvars(Turn /\ Reading) /\ SF_termvars(Turn /\ Reads)
=============================================================================
