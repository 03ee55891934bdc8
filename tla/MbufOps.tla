------------------------------ MODULE MbufOps -------------------------------
(***************************************************************************)
(* Packets in mbufs (kernel/uipc_mbuf.c, include/sys/mbuf.h) and their      *)
(* checksum (net/inet/in_cksum.c).                                          *)
(*                                                                          *)
(* A packet is a chain of mbufs.  The bytes of an mbuf lie in the mbuf, or  *)
(* in a cluster that mbufs of several chains may refer to: a copy of a      *)
(* packet shares the clusters of the original.  Two chains are modelled,    *)
(* a packet and its copy.  An mbuf is as long as MLEN and in the first of a *)
(* packet PktHdr of them hold the packet header.  A byte has BYTE values.   *)
(* Every operation runs with splimp around what is shared, and nothing      *)
(* else runs between: each is one step.                                     *)
(***************************************************************************)
EXTENDS Integers, Sequences, FiniteSets, SequencesExt

CONSTANTS
  MLEN, PktHdr, MCLBYTES,
  LongSize,      \* sizeof(long)
  PerPage,       \* CLBYTES / MCLBYTES
  NMbuf, NMcl,   \* how many mbufs and clusters the heap has room for
  KmemCl,        \* KMEM_SIZE / MCLBYTES
  BYTE, Chunk,   \* a byte's values; the words the checksum adds in one go
  SendLens, RecvLens,   \* the packets that are sent and received
  AskLens,       \* how much is trimmed, pulled up, reserved or copied
  MaxLen, MaxOps \* bounds on a packet and on the operations

IpAlign == 2     \* IP_ALIGN_LEN

ASSUME MbufAssumption ==
  /\ {MLEN, PktHdr, MCLBYTES, LongSize, Chunk} \subseteq Nat \ {0}
  /\ {PerPage, NMbuf, KmemCl, MaxLen, MaxOps} \subseteq Nat /\ NMcl \in 0 .. KmemCl /\ BYTE \in Nat \ {0}
  /\ MLEN % 2 = 0 /\ PktHdr % 2 = 0 /\ MCLBYTES % 2 = 0 /\ PktHdr < MLEN
  /\ SendLens \cup AskLens \subseteq Nat \ {0} /\ RecvLens \subseteq 1 .. MCLBYTES - IpAlign

VARIABLES
  pool,    \* mclfree, mclrefcnt, what the clusters hold, and mbstats
  chain,   \* the two chains
  want,    \* the bytes each packet is meant to have
  pulled,  \* how many of them were asked for in the first mbuf
  wild,    \* something wrote, or will write, where it may not
  ops      \* how many operations there were

mbufvars == <<pool, chain, want, pulled, wild, ops>>

MHLEN == MLEN - PktHdr
Cluster == 1 .. NMcl
NoCluster == 0
Junk == -1           \* what memory holds before it is written
CopyAll == -1        \* M_COPYALL
LesserOf(x, y) == IF x < y THEN x ELSE y
GreaterOf(x, y) == IF x > y THEN x ELSE y

\* mclrefcnt has KMEM_SIZE / MCLBYTES bytes, but its elements are longs: only
\* the clusters at the bottom of the heap have their count in the table.  The
\* counts of the others are somebody else's memory (stray, once one is used).
Counted(k) == k <= KmemCl \div LongSize
Counting(p, k, n) == [p EXCEPT !.mclrefcnt[k] = n, !.stray = @ \/ ~Counted(k)]

\* mbufinit
MbufInit ==
  /\ pool = [mclfree |-> [i \in 1 .. PerPage |-> PerPage + 1 - i], mclrefcnt |-> [k \in Cluster |-> 0],
             data |-> [k \in Cluster |-> [i \in 0 .. MCLBYTES - 1 |-> Junk]],
             nmcl |-> PerPage, freemcl |-> PerPage, mtypes |-> 0, stray |-> FALSE]
  /\ chain = [c \in 1 .. 2 |-> <<>>] /\ want = [c \in 1 .. 2 |-> <<>>]
  /\ pulled = [c \in 1 .. 2 |-> 0] /\ wild = FALSE /\ ops = 0

-----------------------------------------------------------------------------
(* Getting and freeing.                                                     *)

\* The heap has an mbuf left: mbuf_reclaim has nothing to give back, so that
\* mbuf_retry fails where MGET did.
CanGet(p) == p.mtypes < NMbuf

\* mbuf_get and mbuf_getpkt
MGET(p) == [p EXCEPT !.mtypes = @ + 1]
NewMbuf(pkt, mp) ==
  [pkt |-> pkt, mp_len |-> mp, ext |-> NoCluster, off |-> IF pkt THEN PktHdr ELSE 0, len |-> 0,
   dat |-> [i \in 0 .. MLEN - 1 |-> Junk]]

\* mbuf_clalloc: another page becomes clusters, if there is one.
mbuf_clalloc(p) ==
  IF p.nmcl + PerPage > NMcl THEN p
  ELSE [p EXCEPT !.mclfree = [i \in 1 .. PerPage |-> p.nmcl + PerPage + 1 - i] \o @,
                 !.nmcl = @ + PerPage, !.freemcl = @ + PerPage]

\* MCLALLOC, when it finds a cluster.
HasCluster(p) == mbuf_clalloc(p).mclfree # <<>> \/ p.mclfree # <<>>
MCLALLOC(p) ==
  LET q == IF p.mclfree = <<>> THEN mbuf_clalloc(p) ELSE p
      k == Head(q.mclfree)
  IN  [Counting(q, k, q.mclrefcnt[k] + 1) EXCEPT !.freemcl = @ - 1, !.mclfree = Tail(@)]

\* mbuf_getext with MCLGET.  Without a cluster me_buf stays as the memory of
\* the mbuf had it, old: unless that is null, it is taken for a cluster.
Getext(p, m, old) ==
  IF HasCluster(p)
  THEN [pool |-> MCLALLOC(p), wild |-> FALSE,
        m |-> [m EXCEPT !.off = 0,
                        !.ext = Head(IF p.mclfree = <<>> THEN mbuf_clalloc(p).mclfree ELSE p.mclfree)]]
  ELSE [pool |-> p, wild |-> old # NoCluster, m |-> IF old = NoCluster THEN m ELSE [m EXCEPT !.ext = old, !.off = 0]]

\* MCLFREE and MFREE
MCLFREE(p, k) ==
  LET q == Counting(p, k, p.mclrefcnt[k] - 1)
  IN  IF q.mclrefcnt[k] # 0 THEN q ELSE [q EXCEPT !.freemcl = @ + 1, !.mclfree = <<k>> \o @]
mbuf_free(p, m) ==
  LET q == [p EXCEPT !.mtypes = @ - 1] IN IF m.ext = NoCluster THEN q ELSE MCLFREE(q, m.ext)
mbuf_freem(p, c) == FoldLeft(mbuf_free, p, c)

-----------------------------------------------------------------------------
(* The bytes.                                                               *)

Buffer(p, m) == IF m.ext = NoCluster THEN m.dat ELSE p.data[m.ext]
Bytes(p, m) == [i \in 1 .. m.len |-> Buffer(p, m)[m.off + i - 1]]
Packet(p, c) == FlattenSeq([i \in 1 .. Len(c) |-> Bytes(p, c[i])])

\* bs written into a buffer from o on.
Written(b, o, bs) == [i \in DOMAIN b |-> IF i - o \in 0 .. Len(bs) - 1 THEN bs[i - o + 1] ELSE b[i]]
PutPool(p, m, o, bs) == IF m.ext = NoCluster THEN p ELSE [p EXCEPT !.data[m.ext] = Written(@, o, bs)]
PutMbuf(m, o, bs) == IF m.ext = NoCluster THEN [m EXCEPT !.dat = Written(@, o, bs)] ELSE m

\* mbuf_copydata from the start of a packet
CopyStep(p, s, m) ==
  LET cnt == LesserOf(m.len, s.len) IN [out |-> s.out \o SubSeq(Bytes(p, m), 1, cnt), len |-> s.len - cnt]
mbuf_copydata(p, c, len) ==
  LET step(s, m) == CopyStep(p, s, m) IN FoldLeft(step, [out |-> <<>>, len |-> len], c).out

-----------------------------------------------------------------------------
(* Trimming.                                                                *)

HeadStep(s, m) ==
  IF s.left = 0 THEN [s EXCEPT !.out = Append(@, m)]
  ELSE IF m.len >= s.left
  THEN [left |-> 0, out |-> Append(s.out, [m EXCEPT !.len = @ - s.left, !.off = @ + s.left])]
  ELSE [left |-> s.left - m.len, out |-> Append(s.out, [m EXCEPT !.len = 0])]
TrimHead(c, n) ==
  LET r == FoldLeft(HeadStep, [left |-> n, out |-> <<>>], c)
  IN  [r.out EXCEPT ![1].mp_len = IF r.left > 0 THEN 0 ELSE @ - n]

ChainLen(c) == FoldLeft(LAMBDA n, m : n + m.len, 0, c)
TailStep(s, m) ==
  IF s.done THEN [s EXCEPT !.out = Append(@, [m EXCEPT !.len = 0])]
  ELSE IF m.len >= s.left
  THEN [left |-> s.left, done |-> TRUE, out |-> Append(s.out, [m EXCEPT !.len = s.left])]
  ELSE [left |-> s.left - m.len, done |-> FALSE, out |-> Append(s.out, m)]
TrimTail(c, n) ==
  LET count == ChainLen(c) - LesserOf(ChainLen(c), n)
      r == FoldLeft(TailStep, [left |-> count, done |-> FALSE, out |-> <<>>], c)
  IN  [r.out EXCEPT ![1].mp_len = count]

-----------------------------------------------------------------------------
(* Pulling up.  s: the first mbuf m, the rest n, and how much is missing.    *)

\* max_protohdr is never set.
max_protohdr == 0

PullCount(s) == LesserOf(LesserOf(GreaterOf(max_protohdr, s.len), s.space), Head(s.n).len)
PullStep(s) ==
  LET n == Head(s.n)
      count == PullCount(s)
      bs == SubSeq(Bytes(s.pool, n), 1, count)
      p == PutPool(s.pool, s.m, s.m.off + s.m.len, bs)
  IN  IF s.len = 0 \/ s.n = <<>> THEN s
      ELSE [s EXCEPT !.m = [PutMbuf(@, @.off + @.len, bs) EXCEPT !.len = @ + count],
                     !.len = @ - count, !.space = @ - count,
                     !.n = IF n.len = count THEN Tail(@) ELSE [@ EXCEPT ![1].len = n.len - count, ![1].off = n.off + count],
                     !.pool = IF n.len = count THEN mbuf_free(p, n) ELSE p]
PullAll(s) ==
  LET turn[k \in 0 .. Len(s.n)] == IF k = 0 THEN s ELSE PullStep(turn[k - 1])
      r == turn[Len(s.n)]
  IN  IF r.len > 0 THEN [pool |-> mbuf_freem(r.pool, <<r.m>> \o r.n), chain |-> <<>>]
      ELSE [pool |-> r.pool, chain |-> <<r.m>> \o r.n]

\* The rest of the chain, and the bytes to pull, when the first mbuf keeps its
\* place or a new one takes it.
InFirst(p, c, len) ==
  [pool |-> p, m |-> Head(c), n |-> Tail(c), len |-> len - LesserOf(len, Head(c).len)]
InNew(p, m, c, len) ==
  [pool |-> p, m |-> m, n |-> [c EXCEPT ![1].pkt = FALSE], len |-> len]
WithSpace(s, space) ==
  [pool |-> s.pool, m |-> s.m, n |-> s.n, len |-> s.len, space |-> space - (s.m.off + s.m.len)]
Freed(p, c) == [pool |-> mbuf_freem(p, c), chain |-> <<>>]

mbuf_pullup(p, c, len) ==
  LET n == Head(c)
  IN  IF n.ext = NoCluster /\ n.off + len < MLEN THEN PullAll(WithSpace(InFirst(p, c, len), MLEN))
      ELSE IF len > MHLEN \/ ~CanGet(p) THEN Freed(p, c)
      ELSE PullAll(WithSpace(InNew(MGET(p), NewMbuf(n.pkt, n.mp_len), c, len), MLEN))

\* Nothing looks at the space here: len was compared with it.  When no cluster
\* can be had, the me_buf that is tested next is taken to be null: see Getext.
mbuf_pullup_big(p, c, len) ==
  LET n == Head(c)
      g == Getext(MGET(p), NewMbuf(n.pkt, n.mp_len), NoCluster)
  IN  IF len <= MHLEN THEN mbuf_pullup(p, c, len)
      ELSE IF n.ext # NoCluster /\ n.off + len < MCLBYTES THEN PullAll(WithSpace(InFirst(p, c, len), MCLBYTES + len))
      ELSE IF len > MCLBYTES \/ ~CanGet(p) THEN Freed(p, c)
      ELSE IF g.m.ext = NoCluster THEN Freed(mbuf_free(g.pool, g.m), c)
      ELSE PullAll(WithSpace(InNew(g.pool, g.m, c, len), MCLBYTES + len))

-----------------------------------------------------------------------------
(* Copying and reserving.                                                   *)

Unreferred(p, k) == p
Referred(p, k) == Counting(p, k, p.mclrefcnt[k] + 1)

\* An mbuf of the copy; the packet header goes with the first.
CopyMbuf(p, s, m) ==
  LET first == s.out = <<>>
      cnt == IF s.len = CopyAll THEN m.len ELSE LesserOf(m.len, s.len)
      mp  == IF s.len = CopyAll THEN m.mp_len ELSE s.len
      n   == NewMbuf(first /\ m.pkt, IF first THEN mp ELSE 0)
  IN  IF m.ext = NoCluster
      THEN PutMbuf([n EXCEPT !.len = cnt], n.off, SubSeq(Bytes(p, m), 1, cnt))
      ELSE [n EXCEPT !.len = cnt, !.ext = m.ext, !.off = m.off]
CopyOne(s, m) ==
  IF s.len = 0 \/ ~s.ok THEN s
  ELSE IF ~CanGet(s.pool) THEN [s EXCEPT !.ok = FALSE]
  ELSE LET n == CopyMbuf(s.pool, s, m)
       IN  [s EXCEPT !.out = Append(@, n),
                     !.pool = IF m.ext = NoCluster THEN MGET(@) ELSE Referred(MGET(@), m.ext),
                     !.len = IF @ = CopyAll THEN @ ELSE @ - n.len]

\* mbuf_copy from the start of the packet, which is what its callers ask for
mbuf_copy(p, c, len) ==
  LET r == FoldLeft(CopyOne, [pool |-> p, out |-> <<>>, len |-> len, ok |-> TRUE], c)
  IN  IF ~r.ok \/ r.len > 0 THEN Freed(r.pool, r.out) ELSE [pool |-> r.pool, chain |-> r.out]

\* MBUF_LEADINGSPACE, MH_ALIGN and mbuf_reserve.  bs is what the caller puts
\* into the room that it reserved.
Leading(m) == IF m.ext # NoCluster THEN 0 ELSE m.off - (IF m.pkt THEN PktHdr ELSE 0)
Filled(m, bs) == PutMbuf(m, m.off, bs)
mbuf_reserve(p, c, bs) ==
  LET m == Head(c)
      len == Len(bs)
      new == NewMbuf(m.pkt, m.mp_len)
      aligned == [new EXCEPT !.off = @ + ((MHLEN - len) \div LongSize) * LongSize, !.len = len, !.mp_len = @ + len]
  IN  IF Leading(m) >= len
      THEN [pool |-> p, chain |-> [c EXCEPT ![1] = Filled([m EXCEPT !.off = @ - len, !.len = @ + len, !.mp_len = @ + len], bs)]]
      ELSE IF len > MHLEN \/ ~CanGet(p) THEN Freed(p, c)
      ELSE [pool |-> MGET(p), chain |-> <<Filled(aligned, bs)>> \o [c EXCEPT ![1].pkt = FALSE]]

-----------------------------------------------------------------------------
(* The checksum.                                                            *)

Words == BYTE * BYTE
Word(lo, hi) == lo + BYTE * hi
ADDCARRY(x) == IF x > Words - 1 THEN x - (Words - 1) ELSE x
REDUCE(sum) == ADDCARRY((sum % Words) + ((sum \div Words) % Words))

\* Words read at odd places have their bytes the other way round: the sum is
\* turned before and after.
Turned(sum) == REDUCE(sum)
Shifted(sum) == REDUCE(sum) * BYTE

SumWords(bs, from, n) == FoldLeft(LAMBDA x, k : x + Word(bs[from + 2 * k - 1], bs[from + 2 * k]), 0, [k \in 1 .. n |-> k])

\* One mbuf with the bytes bs, at an odd address or not.  A byte that waits
\* for its other half is in lo, and mlen is -1 then.
Unaligned(odd, at) == (at % 2 = 1) # odd
CkMbuf(s, bs, odd) ==
  LET got   == IF s.mlen = -1 THEN 1 ELSE 0
      sum0  == IF got = 1 THEN s.sum + Word(s.lo, bs[1]) ELSE s.sum
      mlen  == LesserOf(Len(bs) - got, s.len - got)
      swap  == Unaligned(odd, got) /\ mlen > 0
      sum1  == IF swap THEN Shifted(sum0) ELSE sum0
      lo    == IF swap THEN bs[got + 1] ELSE s.lo
      at    == IF swap THEN got + 1 ELSE got
      rest  == mlen - (at - got)
      fast  == (rest \div (2 * Chunk)) * Chunk
      sum2  == sum1 + SumWords(bs, at, fast)
      slow  == rest - 2 * fast
      sum3  == REDUCE(sum2) + SumWords(bs, at + 2 * fast, slow \div 2)
      last  == bs[at + rest]
      next  == [s EXCEPT !.len = s.len - got - mlen, !.lo = lo]
  IN  IF s.len = 0 \/ bs = <<>> THEN s
      ELSE IF slow = 0 /\ ~swap THEN [next EXCEPT !.sum = sum2, !.mlen = 0]
      ELSE IF swap /\ slow % 2 = 1 THEN [next EXCEPT !.sum = Shifted(sum3) + Word(lo, last), !.mlen = 0]
      ELSE IF swap THEN [next EXCEPT !.sum = Shifted(sum3), !.mlen = -1]
      ELSE IF slow % 2 = 1 THEN [next EXCEPT !.sum = sum3, !.mlen = -1, !.lo = last]
      ELSE [next EXCEPT !.sum = sum3, !.mlen = -2]
in_cksum(p, c, len) ==
  LET step(s, m) == CkMbuf(s, Bytes(p, m), m.off % 2 = 1)
      s == FoldLeft(step, [sum |-> 0, mlen |-> 0, len |-> len, lo |-> 0], c)
  IN  Words - 1 - REDUCE(IF s.mlen = -1 THEN s.sum + Word(s.lo, 0) ELSE s.sum)

-----------------------------------------------------------------------------
(* The steps.                                                               *)

Other(c) == 3 - c
Sound == ~wild /\ ~pool.stray
Live(c) == Sound /\ chain[c] # <<>>

\* What a packet of some length holds: it differs from byte to byte, and
\* between packets.
Text(n) == [i \in 1 .. n |-> (5 * i + 3 * n) % BYTE]

\* A turn of sosend's loop.  Where a cluster was had, no more is put into it
\* than into an mbuf, and where none was, a cluster's worth into the mbuf.
SendStep(text, old, s) ==
  LET first == s.out = <<>>
      mlen  == IF first THEN MHLEN ELSE MLEN
      big   == s.left >= MLEN + MHLEN + 1
      g     == Getext(MGET(s.pool), NewMbuf(first, 0), old)
      m     == IF big THEN g.m ELSE NewMbuf(first, 0)
      p     == IF big THEN g.pool ELSE MGET(s.pool)
      len   == LesserOf(mlen, s.left)
      off   == m.off + (IF first /\ len < mlen THEN ((MHLEN - len) \div LongSize) * LongSize ELSE 0)
      bs    == SubSeq(text, Len(text) - s.left + 1, Len(text) - s.left + len)
  IN  IF s.left = 0 \/ ~s.ok THEN s
      ELSE IF ~CanGet(s.pool) THEN [s EXCEPT !.ok = FALSE]
      ELSE [s EXCEPT !.left = @ - len, !.pool = PutPool(p, m, off, bs),
                     !.wild = @ \/ (big /\ (g.wild \/ m.ext = NoCluster)),
                     !.out = Append(@, PutMbuf([m EXCEPT !.off = off, !.len = len], off, bs))]
Send(n, old) ==
  LET start == [pool |-> pool, out |-> <<>>, left |-> n, ok |-> TRUE, wild |-> FALSE]
      turn[k \in 0 .. n] == IF k = 0 THEN start ELSE SendStep(Text(n), old, turn[k - 1])
      r == turn[n]
  IN  /\ Sound /\ chain[1] = <<>>
      /\ wild' = r.wild
      /\ IF r.ok THEN /\ pool' = r.pool
                      /\ chain' = [chain EXCEPT ![1] = [r.out EXCEPT ![1].mp_len = n]]
                      /\ want' = [want EXCEPT ![1] = Text(n)]
         ELSE pool' = mbuf_freem(r.pool, r.out) /\ UNCHANGED <<chain, want>>
      /\ pulled' = [pulled EXCEPT ![1] = 0]

\* stmmac_getmbuf, and the frame that is put into its cluster.
Receive(n, old) ==
  LET g == Getext(MGET(pool), NewMbuf(TRUE, n), old)
      m == [g.m EXCEPT !.off = @ + IpAlign, !.len = n]
  IN  /\ Sound /\ chain[1] = <<>> /\ CanGet(pool)
      /\ wild' = g.wild
      /\ IF g.m.ext = NoCluster THEN pool' = mbuf_freem(g.pool, <<g.m>>) /\ UNCHANGED <<chain, want>>
         ELSE /\ pool' = PutPool(g.pool, m, m.off, Text(n))
              /\ chain' = [chain EXCEPT ![1] = <<m>>] /\ want' = [want EXCEPT ![1] = Text(n)]
      /\ pulled' = [pulled EXCEPT ![1] = 0]

Trim(c, n, tail) ==
  LET left == GreaterOf(Len(want[c]) - n, 0)
  IN  /\ Live(c) /\ chain[c][1].pkt
      /\ chain' = [chain EXCEPT ![c] = IF tail THEN TrimTail(@, n) ELSE TrimHead(@, n)]
      /\ want' = [want EXCEPT ![c] = IF tail THEN SubSeq(@, 1, left) ELSE SubSeq(@, Len(@) - left + 1, Len(@))]
      /\ pulled' = [pulled EXCEPT ![c] = 0]
      /\ UNCHANGED <<pool, wild>>

\* A chain that an operation freed is gone.
Became(c, r, bytes, ask) ==
  /\ pool' = r.pool
  /\ chain' = [chain EXCEPT ![c] = r.chain]
  /\ want' = [want EXCEPT ![c] = IF r.chain = <<>> THEN <<>> ELSE bytes]
  /\ pulled' = [pulled EXCEPT ![c] = IF r.chain = <<>> THEN 0 ELSE ask]
  /\ UNCHANGED wild

\* udp_input's mbuf_pullup_big and the others' mbuf_pullup.  More than MHLEN is
\* asked for by nobody: a cluster that a copy shares is not appended to.
Pullup(c, n) ==
  /\ Live(c) /\ Became(c, mbuf_pullup(pool, chain[c], n), want[c], n)
PullupBig(c, n) ==
  /\ Live(c) /\ (n > MHLEN => chain[Other(c)] = <<>>)
  /\ Became(c, mbuf_pullup_big(pool, chain[c], n), want[c], n)

Copy(c, n) ==
  /\ Live(c) /\ chain[Other(c)] = <<>>
  /\ Became(Other(c), mbuf_copy(pool, chain[c], n), IF n = CopyAll THEN want[c] ELSE SubSeq(want[c], 1, n), 0)
Reserve(c, n) ==
  /\ Live(c) /\ Len(want[c]) + n <= MaxLen
  /\ Became(c, mbuf_reserve(pool, chain[c], Text(n)), Text(n) \o want[c], 0)
Freem(c) == Live(c) /\ Became(c, Freed(pool, chain[c]), <<>>, 0)

MbufNext ==
  /\ ops < MaxOps /\ ops' = ops + 1
  /\ \/ \E n \in SendLens, old \in {NoCluster, 1} : Send(n, old)
     \/ \E n \in RecvLens, old \in {NoCluster, 1} : Receive(n, old)
     \/ \E c \in 1 .. 2 :
          \/ \E n \in AskLens : \/ Trim(c, n, TRUE) \/ Trim(c, n, FALSE)
                                \/ Pullup(c, n) \/ PullupBig(c, n) \/ Copy(c, n) \/ Reserve(c, n)
          \/ Copy(c, CopyAll)
          \/ Freem(c)

-----------------------------------------------------------------------------
(* Properties.                                                             *)

\* The bytes of a packet are the ones it is meant to have; its length is right,
\* no mbuf reaches outside its buffer or into its packet header, the bytes
\* pulled up are in the first mbuf, and mbuf_copydata finds every prefix.
ContentsRight ==
  \A c \in 1 .. 2 : chain[c] # <<>> =>
    LET ms == chain[c]
    IN  /\ \A i \in DOMAIN ms :
             /\ ms[i].off >= (IF ms[i].pkt /\ ms[i].ext = NoCluster THEN PktHdr ELSE 0)
             /\ ms[i].off + ms[i].len <= (IF ms[i].ext = NoCluster THEN MLEN ELSE MCLBYTES)
             /\ ms[i].pkt => i = 1 /\ ms[i].mp_len = Len(want[c])
        /\ Packet(pool, ms) = want[c]
        /\ ms[1].len >= pulled[c]
        /\ \A n \in 0 .. Len(want[c]) : mbuf_copydata(pool, ms, n) = SubSeq(want[c], 1, n)

\* A cluster is counted by every mbuf that refers to it, in either chain; it is
\* free, and on the list once, exactly when none does.  mbstats knows every
\* mbuf: whatever failed half way gave back what it had taken.
ClustersExact ==
  LET users(k) == {<<c, i>> \in (1 .. 2) \X (1 .. NMbuf) : i <= Len(chain[c]) /\ chain[c][i].ext = k}
  IN  /\ \A k \in Cluster : pool.mclrefcnt[k] = Cardinality(users(k))
      /\ ToSet(pool.mclfree) = {k \in 1 .. pool.nmcl : users(k) = {}}
      /\ Len(pool.mclfree) = Cardinality(ToSet(pool.mclfree)) /\ pool.freemcl = Len(pool.mclfree)
      /\ pool.mtypes = Len(chain[1]) + Len(chain[2])

\* However packets were built, copied, trimmed, pulled up, given headers and
\* freed, each has its bytes, whatever happened to the packet it shares clusters
\* with, and the clusters and mbufs are counted exactly (kernel/uipc_mbuf.c, up
\* to the first cluster that could not be had or whose count is not in the table).
ChainsRight == Sound => ContentsRight /\ ClustersExact

\* The checksum of any prefix is the ones' complement of the ones' complement
\* sum of its words, wherever the bytes lie and the mbufs are cut: in_cksum.
OnesSum(bs) ==
  LET padded == IF Len(bs) % 2 = 1 THEN Append(bs, 0) ELSE bs
      total  == SumWords(padded, 0, Len(padded) \div 2)
  IN  IF total = 0 THEN 0 ELSE ((total - 1) % (Words - 1)) + 1
ChecksumRight ==
  Sound => \A c \in 1 .. 2 : chain[c] # <<>> =>
    \A n \in 0 .. Len(want[c]) : in_cksum(pool, chain[c], n) = Words - 1 - OnesSum(SubSeq(want[c], 1, n))
=============================================================================
