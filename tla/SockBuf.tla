------------------------------ MODULE SockBuf ------------------------------
(***************************************************************************)
(* The receive buffer of a datagram socket (kernel/uipc_socket.c), at the  *)
(* level of its mbuf pointers.                                             *)
(*                                                                         *)
(* A record in the buffer is a chain of mbufs through m_next: an address   *)
(* mbuf followed by the data mbufs.  Records are chained through the       *)
(* m_nextpkt of their FIRST mbuf.  soreceive takes the first record apart  *)
(* mbuf by mbuf, so it has to carry that link along; sbappendaddr hooks a  *)
(* new record behind the last one.                                         *)
(*                                                                         *)
(* Nothing is preempted in embryo: protocol input runs inside splx(0), so  *)
(* sbappendaddr can run exactly where soreceive, or the code around it,    *)
(* lowers the level to 0.  Those points are the values of pc in Windows.   *)
(*                                                                         *)
(* All protocols of the inet domain are PRF_ATOMIC|PRF_ADDR (in_proto.c),  *)
(* recvit is the only caller of soreceive, and it passes an address        *)
(* pointer, no control pointer and no mbuf pointer: the branches for other *)
(* protocols and callers are not modelled.  The module follows one socket; *)
(* soclose and sofree give up its structure and leave the mbufs to leak.   *)
(***************************************************************************)
EXTENDS Integers, Sequences, FiniteSets, FiniteSetsExt

CONSTANTS
  Mbuf,      \* the mbufs the kernel heap can hold
  NULL,      \* the null pointer
  Byte,      \* the values of data bytes and of addresses
  Packet,    \* what udp_input and rip_input hand to sbappendaddr
  AddrLen,   \* sa_len of a source address
  MSize,     \* MSIZE, what one mbuf costs
  ClSize,    \* me_size, what its cluster costs on top
  HiWat,     \* sb_hiwat
  LoWat,     \* sb_lowat
  MbMax,     \* sb_mbmax
  Word,      \* 2^w: ulong arithmetic is modulo Word
  MaxRead    \* the largest buffer passed to recvfrom

ASSUME SockBufAssumption ==
  /\ NULL \notin Mbuf
  /\ AddrLen \in Nat \ {0} /\ MSize \in Nat \ {0} /\ ClSize \in Nat
  /\ HiWat \in Nat /\ LoWat \in Nat /\ MbMax \in Nat /\ MaxRead \in Nat
  /\ Word \in Nat \ {0}
  /\ Packet \subseteq [from : Byte, mp_len : Nat, clusters : Nat,
                       segs : Seq([bytes : Seq(Byte), ext : BOOLEAN])]

\* The packet header agrees with the chain behind it.
ASSUME PacketAssumption ==
  \A p \in Packet :
    /\ p.mp_len = SumFunctionOnSet([i \in DOMAIN p.segs |-> Len(p.segs[i].bytes)],
                                   DOMAIN p.segs)
    /\ p.clusters = Cardinality({i \in DOMAIN p.segs : p.segs[i].ext})

VARIABLES
  alloc,      \* the mbufs in use
  m_next, m_nextpkt, m_data, m_ext,             \* their fields
  sb_mb, sb_cc, sb_mbcnt, sb_flags,             \* struct sockbuf
  ipc, inew, ipos,                              \* sbappendaddr: step, m, n
  pc, flags, resid, m, nextpkt, moff, from, user,   \* soreceive
  out         \* what soreceive is about to return

mbufvars == <<alloc, m_next, m_nextpkt, m_data, m_ext>>
sbvars   == <<sb_mb, sb_cc, sb_mbcnt, sb_flags>>
invars   == <<ipc, inew, ipos>>
rcvvars  == <<pc, flags, resid, m, nextpkt, moff, from, user, out>>
vars     == <<mbufvars, sbvars, invars, rcvvars>>

Ptr   == Mbuf \cup {NULL}
Flag  == {"PEEK", "DONTWAIT", "WAITALL"}

\* m_len is the length of the data an mbuf holds.
m_len(x) == Len(m_data[x])

\* What sballoc and sbfree add to and subtract from sb_mbcnt.
Charge(x) == MSize + (IF m_ext[x] THEN ClSize ELSE 0)

\* sbspace(sb): both differences are unsigned.
sbspace ==
  LET bytes == (HiWat - sb_cc) % Word
      mbufs == (MbMax - sb_mbcnt) % Word
  IN  IF bytes < mbufs THEN bytes ELSE mbufs

Result(e, f, b, t) == [err |-> e, from |-> f, bytes |-> b, trunc |-> t]
NoResult == Result(FALSE, <<>>, <<>>, FALSE)

Init ==
  /\ alloc = {}
  /\ m_next = [x \in Mbuf |-> NULL] /\ m_nextpkt = [x \in Mbuf |-> NULL]
  /\ m_data = [x \in Mbuf |-> <<>>] /\ m_ext = [x \in Mbuf |-> FALSE]
  /\ sb_mb = NULL /\ sb_cc = 0 /\ sb_mbcnt = 0 /\ sb_flags = {}
  /\ ipc = "none" /\ inew = NULL /\ ipos = NULL
  /\ pc = "idle" /\ flags = {} /\ resid = 0 /\ m = NULL /\ nextpkt = NULL
  /\ moff = 0 /\ from = NULL /\ user = <<>>
  /\ out = NoResult

-----------------------------------------------------------------------------
(* Input: sbappendaddr and sowakeup, called by udp_input and rip_input.    *)

Windows == {"idle", "sblock", "locked", "uiomove"}

\* The ways to take k free mbufs, the address mbuf of a record first.  Which
\* ones the allocator hands out does not matter.
Supply(k) == Injection(1 .. k, Mbuf \ alloc)
Fresh(k) == CHOOSE s \in Supply(k) : TRUE

Accepts(p) ==
  /\ AddrLen + p.mp_len <= sbspace
  /\ Supply(Len(p.segs) + 1) # {}

\* The record is built and charged to the buffer.  On an empty buffer it
\* becomes the first record at once, otherwise the walk to the last one starts.
SbAppendAddr(p) ==
  /\ ipc = "none" /\ pc \in Windows
  /\ Accepts(p)
  /\ LET k == Len(p.segs)
         s == Fresh(k + 1)
         At(x) == CHOOSE i \in 1 .. k + 1 : s[i] = x
         new == {s[i] : i \in 1 .. k + 1}
     IN  /\ alloc' = alloc \cup new
         /\ m_next' = [x \in Mbuf |->
              IF x \in new THEN IF At(x) <= k THEN s[At(x) + 1] ELSE NULL
                           ELSE m_next[x]]
         /\ m_nextpkt' = [x \in Mbuf |-> IF x \in new THEN NULL ELSE m_nextpkt[x]]
         /\ m_data' = [x \in Mbuf |->
              IF x \in new
              THEN IF At(x) = 1 THEN [i \in 1 .. AddrLen |-> p.from]
                                ELSE p.segs[At(x) - 1].bytes
              ELSE m_data[x]]
         /\ m_ext' = [x \in Mbuf |->
              IF x \in new THEN At(x) # 1 /\ p.segs[At(x) - 1].ext ELSE m_ext[x]]
         /\ sb_cc' = sb_cc + AddrLen + p.mp_len
         /\ sb_mbcnt' = sb_mbcnt + (k + 1) * MSize + ClSize * p.clusters
         /\ IF sb_mb = NULL
            THEN /\ sb_mb' = s[1]
                 /\ sb_flags' = sb_flags \ {"WAITFORDATA"}
                 /\ UNCHANGED invars
            ELSE /\ ipc' = "walk" /\ inew' = s[1] /\ ipos' = sb_mb
                 /\ UNCHANGED <<sb_mb, sb_flags>>
  /\ UNCHANGED rcvvars

\* No room, or no mbuf for the address: the caller frees the packet.
Discard(p) ==
  /\ ipc = "none" /\ pc \in Windows
  /\ ~Accepts(p)
  /\ UNCHANGED vars

\* while(n->m_nextpkt) n = n->m_nextpkt
WalkOn ==
  /\ ipc = "walk" /\ m_nextpkt[ipos] # NULL
  /\ ipos' = m_nextpkt[ipos]
  /\ UNCHANGED <<mbufvars, sbvars, ipc, inew, rcvvars>>

\* n->m_nextpkt = m, then sowakeup.
HookRecord ==
  /\ ipc = "walk" /\ m_nextpkt[ipos] = NULL
  /\ m_nextpkt' = [m_nextpkt EXCEPT ![ipos] = inew]
  /\ sb_flags' = sb_flags \ {"WAITFORDATA"}
  /\ ipc' = "none" /\ inew' = NULL /\ ipos' = NULL
  /\ UNCHANGED <<alloc, m_next, m_data, m_ext, sb_mb, sb_cc, sb_mbcnt, rcvvars>>

-----------------------------------------------------------------------------
(* soreceive.                                                              *)

\* sbfree(sb, x)
SbFreeBytesOnly(x) == sb_cc' = sb_cc - m_len(x) /\ UNCHANGED sb_mbcnt
SbFree(x) == sb_cc' = sb_cc - m_len(x) /\ sb_mbcnt' = sb_mbcnt - Charge(x)

\* m_free(x), where the links between records are already what they shall be.
MFree(x, links) ==
  /\ alloc' = alloc \ {x}
  /\ m_next' = [m_next EXCEPT ![x] = NULL]
  /\ m_nextpkt' = [links EXCEPT ![x] = NULL]
  /\ m_data' = [m_data EXCEPT ![x] = <<>>]
  /\ m_ext' = [m_ext EXCEPT ![x] = FALSE]

\* if(m) m->m_nextpkt = nextpkt: x passes its link to its successor.
LinkForgotten(x) == m_nextpkt
PassLink(x) == [y \in Mbuf |-> IF y = m_next[x] THEN m_nextpkt[x] ELSE m_nextpkt[y]]

\* sbunlock: the flags that stay.
UnlockForgotten == sb_flags \ {"WAIT"}
Unlocked == sb_flags \ {"LOCK", "WAIT"}

\* recvfrom(fd, buf, n, f): the call reaches waitrecv.
Recv(n, f) ==
  /\ ipc = "none" /\ pc = "idle"
  /\ pc' = "sblock" /\ flags' = f /\ resid' = n
  /\ UNCHANGED <<mbufvars, sbvars, invars, m, nextpkt, moff, from, user, out>>

\* sblock.  A held lock would make this loop for ever: tsleep returns at
\* once and nothing else runs that could release it.
SbLock ==
  /\ ipc = "none" /\ pc = "sblock"
  /\ "LOCK" \notin sb_flags
  /\ sb_flags' = sb_flags \cup {"LOCK"}
  /\ pc' = "locked"
  /\ UNCHANGED <<mbufvars, sb_mb, sb_cc, sb_mbcnt, invars, flags, resid, m,
                 nextpkt, moff, from, user, out>>

\* The condition under which a receive waits for more.
WaitForAll ==
  sb_mb # NULL =>
    /\ "DONTWAIT" \notin flags
    /\ sb_cc < resid
    /\ m_nextpkt[sb_mb] = NULL
MustWait ==
  sb_mb # NULL =>
    /\ "DONTWAIT" \notin flags
    /\ sb_cc < resid
    /\ sb_cc < LoWat \/ ("WAITALL" \in flags /\ resid <= HiWat)
    /\ m_nextpkt[sb_mb] = NULL

\* EWOULDBLOCK, or a receive of nothing.
GiveUp ==
  /\ ipc = "none" /\ pc = "locked"
  /\ MustWait
  /\ "DONTWAIT" \in flags \/ resid = 0
  /\ pc' = "release"
  /\ out' = Result("DONTWAIT" \in flags, <<>>, <<>>, FALSE)
  /\ UNCHANGED <<mbufvars, sbvars, invars, flags, resid, m, nextpkt, moff, from,
                 user>>

\* splx, sbunlock, sbwait and back to waitrecv.
Wait ==
  /\ ipc = "none" /\ pc = "locked"
  /\ MustWait
  /\ "DONTWAIT" \notin flags /\ resid > 0
  /\ sb_flags' = Unlocked \cup {"WAITFORDATA"}
  /\ pc' = "sblock"
  /\ UNCHANGED <<mbufvars, sb_mb, sb_cc, sb_mbcnt, invars, flags, resid, m,
                 nextpkt, moff, from, user, out>>

\* The address mbuf leaves the buffer and passes its link to the data mbuf.
TakeAddr ==
  /\ ipc = "none" /\ pc = "locked"
  /\ ~MustWait /\ "PEEK" \notin flags
  /\ nextpkt' = m_nextpkt[sb_mb]
  /\ SbFree(sb_mb)
  /\ from' = sb_mb
  /\ sb_mb' = m_next[sb_mb]
  /\ m' = m_next[sb_mb]
  /\ m_next' = [m_next EXCEPT ![sb_mb] = NULL]
  /\ m_nextpkt' = PassLink(sb_mb)
  /\ pc' = "loop"
  /\ UNCHANGED <<alloc, m_data, m_ext, sb_flags, invars, flags, resid, moff,
                 user, out>>

\* MSG_PEEK: the address is copied, if there is an mbuf for it.
PeekAddr ==
  /\ ipc = "none" /\ pc = "locked"
  /\ ~MustWait /\ "PEEK" \in flags
  /\ nextpkt' = m_nextpkt[sb_mb]
  /\ m' = m_next[sb_mb]
  /\ IF Supply(1) = {}
     THEN from' = NULL /\ UNCHANGED mbufvars
     ELSE LET c == Fresh(1)[1]
          IN  /\ from' = c
              /\ alloc' = alloc \cup {c}
              /\ m_next' = [m_next EXCEPT ![c] = NULL]
              /\ m_nextpkt' = [m_nextpkt EXCEPT ![c] = NULL]
              /\ m_data' = [m_data EXCEPT ![c] = m_data[sb_mb]]
              /\ m_ext' = [m_ext EXCEPT ![c] = m_ext[sb_mb]]
  /\ pc' = "loop"
  /\ UNCHANGED <<sbvars, invars, flags, resid, moff, user, out>>

\* while(m && uio->uio_resid > 0): splx before the copy opens a window.
LoopEnter ==
  /\ ipc = "none" /\ pc = "loop"
  /\ m # NULL /\ resid > 0
  /\ pc' = "uiomove"
  /\ UNCHANGED <<mbufvars, sbvars, invars, flags, resid, m, nextpkt, moff, from,
                 user, out>>

CopyLen == IF resid > m_len(m) - moff THEN m_len(m) - moff ELSE resid

\* uiomove(mtod(m) + moff, len, uio)
CopyNotAdvancing ==
  /\ user' = SubSeq(m_data[m], moff + 1, moff + CopyLen)
  /\ resid' = resid - CopyLen
CopyOut ==
  /\ user' = user \o SubSeq(m_data[m], moff + 1, moff + CopyLen)
  /\ resid' = resid - CopyLen

\* sb_mb = mbuf_free(m): the successor becomes the head.
HeadKept == sb_mb
NextHead == m_next[m]

\* The mbuf is used up: it is freed and its link moves to its successor.
CopyWhole ==
  /\ ipc = "none" /\ pc = "uiomove"
  /\ CopyLen = m_len(m) - moff /\ "PEEK" \notin flags
  /\ CopyOut
  /\ nextpkt' = m_nextpkt[m]
  /\ SbFree(m)
  /\ sb_mb' = NextHead
  /\ m' = m_next[m]
  /\ MFree(m, PassLink(m))
  /\ pc' = "loop"
  /\ UNCHANGED <<sb_flags, invars, flags, moff, from, out>>

\* The buffer is full first: the mbuf keeps the rest.
CopyPart ==
  /\ ipc = "none" /\ pc = "uiomove"
  /\ CopyLen # m_len(m) - moff /\ "PEEK" \notin flags
  /\ CopyOut
  /\ m_data' = [m_data EXCEPT ![m] = SubSeq(@, CopyLen + 1, Len(@))]
  /\ sb_cc' = sb_cc - CopyLen
  /\ pc' = "loop"
  /\ UNCHANGED <<alloc, m_next, m_nextpkt, m_ext, sb_mb, sb_mbcnt, sb_flags,
                 invars, flags, m, nextpkt, moff, from, out>>

\* MSG_PEEK leaves the buffer alone.
CopyPeek ==
  /\ ipc = "none" /\ pc = "uiomove"
  /\ "PEEK" \in flags
  /\ CopyOut
  /\ IF CopyLen = m_len(m) - moff
     THEN moff' = 0 /\ m' = m_next[m]
     ELSE moff' = moff + CopyLen /\ m' = m
  /\ pc' = "loop"
  /\ UNCHANGED <<mbufvars, sbvars, invars, flags, nextpkt, from, out>>

\* After the loop.  What is left of an atomic record is dropped
\* (sbdroprecord starts); a record read to its end gives way to the next one.
LoopExit ==
  /\ ipc = "none" /\ pc = "loop"
  /\ m = NULL \/ resid = 0
  /\ out' = Result(FALSE, IF from = NULL THEN <<>> ELSE <<m_data[from][1]>>,
                   user, m # NULL)
  /\ IF "PEEK" \in flags
     THEN pc' = "release" /\ UNCHANGED sb_mb
     ELSE IF m = NULL
          THEN pc' = "release" /\ sb_mb' = nextpkt
          ELSE pc' = "drop" /\ sb_mb' = m_nextpkt[m]
  /\ UNCHANGED <<mbufvars, sb_cc, sb_mbcnt, sb_flags, invars, flags, resid, m,
                 nextpkt, moff, from, user>>

\* One turn of the loop of sbdroprecord.
DropMbuf ==
  /\ ipc = "none" /\ pc = "drop"
  /\ SbFree(m)
  /\ m' = m_next[m]
  /\ MFree(m, m_nextpkt)
  /\ pc' = IF m_next[m] = NULL THEN "release" ELSE "drop"
  /\ UNCHANGED <<sb_mb, sb_flags, invars, flags, resid, nextpkt, moff, from,
                 user, out>>

\* sbunlock, splx, and the end of recvit, which returns and frees the address.
Release ==
  /\ ipc = "none" /\ pc = "release"
  /\ sb_flags' = Unlocked
  /\ IF from = NULL THEN UNCHANGED mbufvars ELSE MFree(from, m_nextpkt)
  /\ pc' = "idle" /\ from' = NULL /\ m' = NULL /\ nextpkt' = NULL /\ moff' = 0
  /\ user' = <<>> /\ resid' = 0 /\ flags' = {} /\ out' = NoResult
  /\ UNCHANGED <<sb_mb, sb_cc, sb_mbcnt, invars>>

-----------------------------------------------------------------------------
Input == \/ \E p \in Packet : SbAppendAddr(p) \/ Discard(p)
         \/ WalkOn
         \/ HookRecord

Reader == \/ SbLock \/ GiveUp \/ Wait \/ TakeAddr \/ PeekAddr
          \/ LoopEnter \/ CopyWhole \/ CopyPart \/ CopyPeek
          \/ LoopExit \/ DropMbuf \/ Release

Next == \/ Input
        \/ \E n \in 0 .. MaxRead, f \in SUBSET Flag : Recv(n, f)
        \/ Reader

Spec == Init /\ [][Next]_vars

\* The only thread runs on whenever no interrupt handler is running, and a
\* handler that has started runs to its end.
Fairness == WF_vars(Reader) /\ WF_vars(WalkOn \/ HookRecord)
-----------------------------------------------------------------------------
(* Properties.                                                             *)

PtrOK ==
  /\ alloc \in SUBSET Mbuf
  /\ m_next \in [Mbuf -> Ptr] /\ m_nextpkt \in [Mbuf -> Ptr]
  /\ sb_mb \in Ptr /\ inew \in Ptr /\ ipos \in Ptr
  /\ m \in Ptr /\ nextpkt \in Ptr /\ from \in Ptr

DataOK ==
  /\ m_data \in [Mbuf -> Seq(Byte)] /\ m_ext \in [Mbuf -> BOOLEAN]
  /\ sb_cc \in Int /\ sb_mbcnt \in Int
  /\ sb_flags \in SUBSET {"LOCK", "WAITFORDATA"}
  /\ ipc \in {"none", "walk"}
  /\ pc \in Windows \cup {"loop", "drop", "release"}
  /\ flags \in SUBSET Flag /\ resid \in Nat /\ moff \in Nat
  /\ user \in Seq(Byte)

TypeOK == PtrOK /\ DataOK

\* Between the last mbuf of a record and "sb_mb = nextpkt" the other records
\* hang on the local nextpkt of soreceive alone.
AtEnd == pc = "loop" /\ m = NULL /\ "PEEK" \notin flags

\* The m_nextpkt left behind in the address mbuf by TakeAddr, and in the head
\* of a record that is being dropped, is not followed any more.
Live(x) == x # from /\ ~(pc = "drop" /\ x = m)

\* The pointers from which the program can still reach an mbuf: the buffer,
\* the address handed to recvit, the record sbappendaddr is hooking in, the
\* record sbdroprecord is freeing, and nextpkt at the end of a record.
Root(x) == \/ x = sb_mb \/ x = from \/ x = inew
           \/ pc = "drop" /\ x = m
           \/ AtEnd /\ x = nextpkt

Points(p, x) == m_next[p] = x \/ (Live(p) /\ m_nextpkt[p] = x)

\* No pointer the program may follow leads to a freed mbuf, although
\* soreceive frees mbufs of a record while input may extend the queue
\* behind it (uipc_socket.c:249-277).
NoDangling ==
  /\ \A x \in {sb_mb, from, inew, m, ipos} : x \in alloc \cup {NULL}
  /\ AtEnd => nextpkt \in alloc \cup {NULL}
  /\ \A p \in alloc : /\ m_next[p] \in alloc \cup {NULL}
                      /\ Live(p) => m_nextpkt[p] \in alloc \cup {NULL}

\* Every mbuf in use hangs on a root or on another mbuf in use: no record is
\* lost when the link between records moves from mbuf to mbuf while input
\* hooks new records in (the leak of the debugging log is a violation).
NoLeak == \A x \in alloc : Root(x) \/ \E p \in alloc : Points(p, x)

\* No mbuf hangs in two places, and only the head of a record carries a link
\* to the next record: what TakeAddr and CopyWhole overwrite is NULL.
NoSharing ==
  /\ \A p, q \in alloc : m_next[p] = m_next[q] => p = q \/ m_next[p] = NULL
  /\ \A p, q \in alloc : Live(p) /\ Live(q) /\ m_nextpkt[p] = m_nextpkt[q]
                           => p = q \/ m_nextpkt[p] = NULL
  /\ \A p, q \in alloc : Live(q) /\ m_next[p] = m_nextpkt[q] => m_next[p] = NULL
  /\ \A p, x \in alloc : Points(p, x) => ~Root(x)
  /\ \A p, x \in alloc : m_next[p] = x /\ Live(x) => m_nextpkt[x] = NULL

\* The head of a record that sbappendaddr's walk may stand on.
IsHead(x) == x = sb_mb \/ \E p \in alloc : Live(p) /\ m_nextpkt[p] = x

\* Where the locals of soreceive and sbappendaddr stand at each step.
Control ==
  /\ ipc = "none" => inew = NULL /\ ipos = NULL
  /\ ipc = "walk" => /\ pc \in Windows /\ inew # NULL /\ ipos # NULL
                     /\ sb_mb # inew /\ from # inew
                     /\ IsHead(ipos) /\ m_nextpkt[inew] = NULL
  /\ pc \in {"idle", "sblock", "locked"} => m = NULL /\ from = NULL
  /\ pc \in {"uiomove", "drop"} => m # NULL
  /\ pc = "drop" => "PEEK" \notin flags /\ m # sb_mb
  /\ pc \in {"loop", "uiomove"} /\ "PEEK" \notin flags => sb_mb = m
  /\ pc = "release" /\ "PEEK" \notin flags => m = NULL
  /\ from # NULL => /\ from # sb_mb /\ m_next[from] = NULL
                    /\ pc = "drop" => from # m
                    /\ AtEnd => from # nextpkt
  /\ ("LOCK" \in sb_flags) <=> (pc \notin {"idle", "sblock"})

\* Only a peek leaves an offset behind, and only until it returns.
Offset == "PEEK" \notin flags \/ pc = "idle" => moff = 0

\* The inductive invariant behind NoDangling, NoLeak and LockReleased.
IInv == TypeOK /\ NoDangling /\ NoLeak /\ NoSharing /\ Control /\ Offset

\* The mbufs the buffer has been charged for.
Held == alloc \ {from}

\* sb_cc and sb_mbcnt are what the buffered mbufs really hold, whatever was
\* copied, peeked at, cut or dropped: FIONREAD and sbspace rest on it.
Accounting ==
  /\ sb_cc = SumFunctionOnSet([x \in Mbuf |-> m_len(x)], Held)
  /\ sb_mbcnt = SumFunctionOnSet([x \in Mbuf |-> Charge(x)], Held)

\* No way out of soreceive keeps the buffer locked: sblock on a held lock
\* would spin for ever.
LockReleased == pc \in {"idle", "sblock"} => "LOCK" \notin sb_flags

\* A receive without MSG_WAITALL returns once a datagram is in the buffer.
RecvReturns ==
  (pc = "sblock" /\ sb_mb # NULL /\ "WAITALL" \notin flags) ~> (pc = "idle")
=============================================================================
