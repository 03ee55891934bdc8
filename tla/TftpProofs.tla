----------------------------- MODULE TftpProofs -----------------------------
(***************************************************************************)
(* For blocks of any size, block numbers of any width, files, reads and    *)
(* writes of any length, any number of server ports and any number of      *)
(* faults of every kind: what tftp_read delivers are the bytes of the file *)
(* and what a session of the server stores is a prefix of what was         *)
(* written; and as long as packets are only lost or repeated, a short read *)
(* is the end of the file, and a closed file is stored.                    *)
(*                                                                         *)
(* The invariant follows the block numbers.  A number on the wire stands   *)
(* for one of the numbers 0 .. Word, and which one it is follows from how  *)
(* far client and session are: no session is ahead of the client, and once *)
(* a port has answered, its session and its packets are at the block the   *)
(* client waits for or at the one before, in this order.                   *)
(***************************************************************************)
EXTENDS Tftp, SequenceTheorems, TLAPS

-----------------------------------------------------------------------------
(* The inductive invariant.                                                *)

Packets == [op : {"RRQ", "WRQ", "ACK", "DATA", "ERR"}, port : Port \cup {WellKnown},
            blk : Nat, data : Seq(Nat)]
Sessions == [st : {"free", "read", "write", "kept", "done"}, blk : Nat, store : Seq(Nat)]

FileOK == /\ mode \in {"none", "read", "write"} /\ block \in Nat /\ start \in Int /\ end \in Int
          /\ foffs \in Nat /\ eof \in BOOLEAN /\ sin_port \in Port \cup {WellKnown}
          /\ buf \in Seq(Nat)
CallOK == /\ pc \in {"none", "open", "read", "write", "send", "recv", "closed"}
          /\ call \in {"open", "read", "write", "close"} /\ nb \in Nat
          /\ pkt \in [op : {"RRQ", "WRQ", "ACK", "DATA"}, blk : Nat, data : Seq(Nat)]
ServerOK == /\ file \in Seq(Nat) /\ faults \in [n : Nat, hard : BOOLEAN]
            /\ sess \in [Port -> Sessions]
SeenOK == short \in BOOLEAN /\ written \in Seq(Nat)

Waiting == pc \in {"send", "recv"}
Chunk(s, k) == SubSeq(s, (k - 1) * BlkSize + 1, Least(k * BlkSize, Len(s)))
Small == Len(written) < BlkSize * Word

\* Before the file is opened.
Fresh ==
  mode = "none" =>
    /\ pc = "none" /\ block = 0 /\ start = 0 /\ end = 0 /\ foffs = 0 /\ ~eof
    /\ sin_port = WellKnown /\ c2s = <<>> /\ s2c = <<>> /\ ~short /\ written = <<>>
    /\ \A p \in Port : sess[p].st = "free" /\ sess[p].store = <<>>

\* A port that has answered has a session.
Known == sin_port \in Port => sess[sin_port].st # "free"

\* What is on its way to the server.  Only blocks that are complete are
\* acknowledged and sent.
AckOf(q) == \E a \in 1 .. block : /\ q.blk = a % Word
                                  /\ a < block \/ Len(Chunk(file, a)) < BlkSize
Whole(k) == k * BlkSize <= Len(written) \/ (call = "close" /\ k = block)
DataOf(q) == \E j \in 1 .. block : q.blk = j % Word /\ q.data = Chunk(written, j) /\ Whole(j)
ReadQuery(q) ==
  /\ q.op \in {"RRQ", "ACK", "ERR"} /\ (q.port = WellKnown => q.op = "RRQ")
  /\ q.op = "ACK" => AckOf(q)
WriteQuery(q) ==
  /\ q.op \in {"WRQ", "DATA"} /\ (q.port = WellKnown => q.op = "WRQ")
  /\ (Small /\ q.op = "DATA") => DataOf(q)
Query(q) == /\ q.port \in Port => sess[q.port].st # "free"
            /\ mode = "read" => ReadQuery(q)
            /\ mode = "write" => WriteQuery(q)
Queries == {q \in Packets : Query(q)}

\* What is on its way from the server: the packets of its sessions as they
\* are or were.
ReadReply(r) == r.op = "DATA" /\ \E k \in 1 .. sess[r.port].blk : r.blk = k % Word /\ r.data = Chunk(file, k)
WriteReply(r) == r.op = "ACK" /\ \E k \in 0 .. sess[r.port].blk : r.blk = k % Word
Reply(r) ==
  /\ r.port \in Port /\ sess[r.port].st # "free"
  /\ \/ r.op = "ERR" /\ faults.hard
     \/ mode = "read" /\ ReadReply(r)
     \/ mode = "write" /\ WriteReply(r)
Replies == {r \in Packets : Reply(r)}

\* The sessions: none is ahead of the client.
ReadSession(p) ==
  /\ sess[p].st \in {"free", "read", "done"} /\ sess[p].store = <<>>
  /\ sess[p].st # "free" => sess[p].blk \in 1 .. block
WriteSession(p) ==
  /\ sess[p].st \in {"free", "write", "kept", "done"}
  /\ sess[p].st = "free" => sess[p].store = <<>>
  /\ sess[p].st = "done" => faults.hard
  /\ (Small /\ sess[p].st # "free") =>
       /\ sess[p].blk \in 0 .. block /\ Whole(sess[p].blk)
       /\ sess[p].store = SubSeq(written, 1, Least(sess[p].blk * BlkSize, Len(written)))
       /\ sess[p].st = "write" => sess[p].blk * BlkSize <= Len(written)
Served == \A p \in Port : /\ mode = "read" => ReadSession(p)
                          /\ mode = "write" => WriteSession(p)

\* The packets of port p in s have numbers in A, and none but b comes after b.
Ordered(s, p, A, b) ==
  /\ \A i \in DOMAIN s : s[i].port = p => s[i].blk \in A
  /\ \A i, j \in DOMAIN s :
       (i < j /\ s[i].port = p /\ s[j].port = p /\ s[i].blk = b) => s[j].blk = b

\* The port that has answered is at most one block behind, and its packets come
\* in order.
Lo == IF Waiting THEN block - 1 ELSE block
InStep == ~faults.hard /\ sin_port \in Port /\ ~eof /\ Small
Order ==
  InStep =>
    /\ sess[sin_port].blk \in Lo .. block
    /\ Ordered(s2c, sin_port, {Lo % Word, sess[sin_port].blk % Word}, block % Word)

\* A file that is read.
ReadWaits ==
  Waiting =>
    /\ ~eof => end = (block - 1) * BlkSize
    /\ pc = "recv" => ~eof
    /\ \/ /\ call = "open" /\ pkt = [op |-> "RRQ", blk |-> 0, data |-> <<>>]
          /\ block = 1 /\ start = 0 /\ ~eof /\ sin_port = WellKnown
       \/ /\ call = "read" /\ pkt = [op |-> "ACK", blk |-> block - 1, data |-> <<>>]
          /\ block >= 2 /\ foffs >= end /\ sin_port \in Port
ReadReady ==
  pc \in {"open", "read"} =>
    /\ sin_port \in Port
    /\ start < end => /\ buf = Chunk(file, block) /\ start = (block - 1) * BlkSize
                      /\ end = start + Len(buf) /\ (~eof => Len(buf) = BlkSize) /\ block < Word
ReadEnds ==
  /\ short => start >= end /\ ~Waiting
  /\ (~faults.hard /\ Len(file) <= BlkSize * (Word - 1)) =>
       /\ (pc \in {"open", "read"} /\ start >= end) => start >= Len(file)
       /\ eof => end >= Len(file)
Reads ==
  mode = "read" =>
    /\ pc \in {"open", "read", "send", "recv", "closed"} /\ block \in 1 .. Word
    /\ foffs >= start /\ written = <<>>
    /\ ReadWaits /\ ReadReady /\ ReadEnds

\* A file that is written.
AtLast == (block - 1) * BlkSize <= Len(written) /\ Len(written) < block * BlkSize
WriteWaits ==
  Waiting =>
    \/ /\ call = "open" /\ pkt = [op |-> "WRQ", blk |-> 0, data |-> <<>>]
       /\ block = 0 /\ end = 0 /\ written = <<>> /\ sin_port = WellKnown
    \/ /\ call \in {"write", "close"} /\ block >= 1 /\ sin_port \in Port
       /\ pkt = [op |-> "DATA", blk |-> block, data |-> Chunk(written, block)]
       /\ IF call = "close" THEN AtLast ELSE Len(written) = block * BlkSize
WriteReady ==
  /\ pc \in {"open", "write"} =>
       /\ call \in {"open", "write"} /\ sin_port \in Port /\ end \in 0 .. BlkSize - 1
       /\ end <= Len(buf) /\ Len(written) = block * BlkSize + end
       /\ SubSeq(buf, 1, end) = Chunk(written, block + 1)
  /\ pc = "closed" => \/ call = "open" /\ block = 0 /\ written = <<>>
                      \/ call = "close" /\ block >= 1 /\ AtLast /\ sin_port \in Port
Writes ==
  mode = "write" =>
    /\ pc \in {"open", "write", "send", "recv", "closed"} /\ ~eof
    /\ WriteWaits /\ WriteReady

Delivered == \A x \in got : x[1] \in DOMAIN file /\ file[x[1]] = x[2]

TftpInv == /\ FileOK /\ CallOK /\ ServerOK /\ SeenOK /\ Fresh /\ Known
           /\ c2s \in Seq(Queries) /\ s2c \in Seq(Replies)
           /\ Served /\ Order /\ Reads /\ Writes /\ Delivered

-----------------------------------------------------------------------------
(* Numbers of blocks and bytes.                                            *)

\* Multiples of the block size.
LEMMA Products ==
  ASSUME NEW k \in Int
  PROVE  /\ k * BlkSize \in Int /\ BlkSize \in Nat \ {0} /\ Word \in Nat \ {0, 1}
         /\ (k + 1) * BlkSize = k * BlkSize + BlkSize /\ (k - 1) * BlkSize = k * BlkSize - BlkSize
         /\ BlkSize * k = k * BlkSize
         /\ \A j \in Int : /\ j <= k => j * BlkSize <= k * BlkSize
                           /\ j < k => j * BlkSize + BlkSize <= k * BlkSize
<1> DEFINE s == BlkSize
<1>1. s \in Nat \ {0} /\ Word \in Nat \ {0, 1}
  BY TftpAssumption
<1> HIDE DEF s
<1>2. k * s \in Int /\ (k + 1) * s = k * s + s /\ (k - 1) * s = k * s - s /\ s * k = k * s
  BY <1>1, SMT
<1>3. ASSUME NEW j \in Int  PROVE (j <= k => j * s <= k * s) /\ (j < k => j * s + s <= k * s)
  <2>1. j * s \in Int /\ (j + 1) * s = j * s + s
    BY <1>1, SMT
  <2>2. ASSUME NEW a \in Int, a <= k  PROVE a * s <= k * s
    BY <1>1, <2>2, SMT
  <2> QED  BY <2>1, <2>2
<1> QED  BY <1>1, <1>2, <1>3 DEF s

\* A number of 0 .. Word on the wire.
LEMMA Wire ==
  ASSUME NEW k \in 0 .. Word
  PROVE  k % Word = (IF k = Word THEN 0 ELSE k) /\ k % Word \in Nat
<1> DEFINE w == Word
<1>1. w \in Nat \ {0, 1}
  BY TftpAssumption
<1> HIDE DEF w
<1>2. ASSUME NEW n \in 0 .. w  PROVE n % w = (IF n = w THEN 0 ELSE n)
  BY <1>1, <1>2, SMT
<1> QED  BY <1>1, <1>2 DEF w

LEMMA WireNat == ASSUME NEW k \in Nat  PROVE k % Word \in Nat
<1> DEFINE w == Word
<1>1. w \in Nat \ {0, 1}
  BY TftpAssumption
<1> HIDE DEF w
<1>2. k % w \in Nat
  BY <1>1, SMT
<1> QED  BY <1>2 DEF w

\* What a block of a sequence is.
LEMMA ChunkIs ==
  ASSUME NEW s \in Seq(Nat), NEW k \in Nat \ {0}
  PROVE  /\ Chunk(s, k) \in Seq(Nat)
         /\ k * BlkSize <= Len(s) => Len(Chunk(s, k)) = BlkSize
         /\ Len(s) < k * BlkSize =>
              Len(Chunk(s, k)) = IF (k - 1) * BlkSize <= Len(s) THEN Len(s) - (k - 1) * BlkSize ELSE 0
         /\ \A i \in 1 .. Len(Chunk(s, k)) : /\ (k - 1) * BlkSize + i \in 1 .. Len(s)
                                             /\ Chunk(s, k)[i] = s[(k - 1) * BlkSize + i]
<1> DEFINE a == (k - 1) * BlkSize
           b == k * BlkSize
           t == Least(b, Len(s))
<1>1. a \in Nat /\ b \in Nat /\ b = a + BlkSize /\ BlkSize \in Nat \ {0} /\ Len(s) \in Nat
  <2>1. k - 1 \in Int /\ k \in Int /\ 0 \in Int /\ 0 <= k - 1
    OBVIOUS
  <2>2. 0 * BlkSize <= a /\ a \in Int
    BY <2>1, Products, Zenon
  <2>3. b \in Int /\ a = b - BlkSize /\ BlkSize \in Nat \ {0}
    BY <2>1, Products
  <2>4. 0 * BlkSize = 0
    BY <2>3
  <2> QED  BY <2>2, <2>3, <2>4
<1> HIDE DEF a, b
<1>2. t \in Nat /\ t = (IF b < Len(s) THEN b ELSE Len(s))
  BY <1>1 DEF Least
<1> HIDE DEF t
<1>3. /\ SubSeq(s, a + 1, t) \in Seq(Nat)
      /\ Len(SubSeq(s, a + 1, t)) = IF a + 1 <= t THEN t - a ELSE 0
      /\ \A i \in 1 .. t - a : SubSeq(s, a + 1, t)[i] = s[a + i]
  <2>1. \A i \in a + 1 .. t : s[i] \in Nat
    BY <1>1, <1>2
  <2>2. /\ SubSeq(s, a + 1, t) \in Seq(Nat)
        /\ Len(SubSeq(s, a + 1, t)) = IF a + 1 <= t THEN t - (a + 1) + 1 ELSE 0
        /\ \A i \in 1 .. t - (a + 1) + 1 : SubSeq(s, a + 1, t)[i] = s[(a + 1) + i - 1]
    BY <1>1, <1>2, <2>1, SubSeqProperties, SMTT(30)
  <2> QED  BY <1>1, <1>2, <2>2
<1>4. Chunk(s, k) = SubSeq(s, a + 1, t)
  BY DEF Chunk, a, b, t
<1> DEFINE c == Chunk(s, k)
<1> HIDE DEF c
<1>5. c \in Seq(Nat) /\ Len(c) = (IF a + 1 <= t THEN t - a ELSE 0) /\ \A i \in 1 .. t - a : c[i] = s[a + i]
  BY <1>3, <1>4 DEF c
<1>6. /\ b <= Len(s) => Len(c) = BlkSize
      /\ Len(s) < b => Len(c) = IF a <= Len(s) THEN Len(s) - a ELSE 0
      /\ \A i \in 1 .. Len(c) : a + i \in 1 .. Len(s) /\ c[i] = s[a + i]
  BY <1>1, <1>2, <1>5, SMTT(30)
<1> QED  BY <1>5, <1>6 DEF a, b, c

-----------------------------------------------------------------------------
(* Channels.                                                               *)

\* t has the elements of s in their order, some repeated, some left out.
Thins(t, s) ==
  \E h \in [DOMAIN t -> DOMAIN s] : /\ \A i \in DOMAIN t : t[i] = s[h[i]]
                                    /\ \A i, j \in DOMAIN t : i < j => h[i] <= h[j]

LEMMA SeqSub == ASSUME NEW S, NEW T, S \subseteq T, NEW s \in Seq(S)  PROVE s \in Seq(T)
OBVIOUS

LEMMA ThinSeq ==
  ASSUME NEW S, NEW P, NEW s \in Seq(S), NEW t \in Seq(P), Thins(t, s)
  PROVE  t \in Seq(S)
<1>1. PICK h \in [DOMAIN t -> DOMAIN s] : \A i \in DOMAIN t : t[i] = s[h[i]]
  BY DEF Thins
<1>2. \A i \in 1 .. Len(t) : t[i] \in S
  BY <1>1
<1> QED  BY <1>2

LEMMA ThinOrdered ==
  ASSUME NEW S, NEW s \in Seq(S), NEW t \in Seq(S), Thins(t, s), NEW p, NEW A, NEW b, Ordered(s, p, A, b)
  PROVE  Ordered(t, p, A, b)
<1>1. PICK h \in [DOMAIN t -> DOMAIN s] : /\ \A i \in DOMAIN t : t[i] = s[h[i]]
                                          /\ \A i, j \in DOMAIN t : i < j => h[i] <= h[j]
  BY DEF Thins
<1>2. ASSUME NEW i \in DOMAIN t, NEW j \in DOMAIN t, i < j, t[i].port = p, t[j].port = p, t[i].blk = b
      PROVE  t[j].blk = b
  <2>1. h[i] \in DOMAIN s /\ h[j] \in DOMAIN s /\ h[i] <= h[j] /\ t[i] = s[h[i]] /\ t[j] = s[h[j]]
    BY <1>1, <1>2
  <2>2. CASE h[i] = h[j]
    BY <1>2, <2>1, <2>2
  <2>3. CASE h[i] < h[j]
    BY <1>2, <2>1, <2>3 DEF Ordered
  <2> QED  BY <2>1, <2>2, <2>3
<1>3. ASSUME NEW i \in DOMAIN t, t[i].port = p  PROVE t[i].blk \in A
  BY <1>1, <1>3 DEF Ordered
<1> QED  BY <1>2, <1>3 DEF Ordered

\* Taking packets off the front.
LEMMA DropThins ==
  ASSUME NEW S, NEW s \in Seq(S), NEW k \in 0 .. Len(s)
  PROVE  Drop(s, k) \in Seq(S) /\ Thins(Drop(s, k), s)
<1>1. /\ Drop(s, k) \in Seq(S) /\ Len(Drop(s, k)) = Len(s) - k
      /\ \A i \in 1 .. Len(s) - k : Drop(s, k)[i] = s[k + i]
  <2>1. \A i \in k + 1 .. Len(s) : s[i] \in S
    OBVIOUS
  <2>2. /\ SubSeq(s, k + 1, Len(s)) \in Seq(S)
        /\ Len(SubSeq(s, k + 1, Len(s))) = (IF k + 1 <= Len(s) THEN Len(s) - (k + 1) + 1 ELSE 0)
        /\ \A i \in 1 .. Len(s) - (k + 1) + 1 : SubSeq(s, k + 1, Len(s))[i] = s[(k + 1) + i - 1]
    BY <2>1, SubSeqProperties
  <2> QED  BY <2>2 DEF Drop
<1> DEFINE t == Drop(s, k)
           h == [i \in DOMAIN t |-> k + i]
<1> HIDE DEF t
<1>2. DOMAIN t = 1 .. Len(s) - k /\ DOMAIN s = 1 .. Len(s)
  BY <1>1 DEF t
<1>3. h \in [DOMAIN t -> DOMAIN s] /\ (\A i \in DOMAIN t : t[i] = s[h[i]]) /\ \A i, j \in DOMAIN t : i < j => h[i] <= h[j]
  BY <1>1, <1>2, SMTT(30) DEF t
<1>4. Thins(t, s)
  BY <1>3 DEF Thins
<1> QED  BY <1>1, <1>4 DEF t

LEMMA TailThins ==
  ASSUME NEW S, NEW s \in Seq(S), s # <<>>
  PROVE  Tail(s) \in Seq(S) /\ Thins(Tail(s), s) /\ Head(s) = s[1] /\ Head(s) \in S /\ 1 \in DOMAIN s
<1> DEFINE t == Tail(s)
           h == [i \in DOMAIN t |-> i + 1]
<1>1. t \in Seq(S) /\ Len(t) = Len(s) - 1 /\ \A i \in 1 .. Len(t) : t[i] = s[i + 1]
  BY HeadTailProperties
<1> HIDE DEF t
<1>2. h \in [DOMAIN t -> DOMAIN s] /\ (\A i \in DOMAIN t : t[i] = s[h[i]]) /\ \A i, j \in DOMAIN t : i < j => h[i] <= h[j]
  BY <1>1
<1>3. Thins(t, s)
  BY <1>2 DEF Thins
<1> QED  BY <1>1, <1>3 DEF t

LEMMA RemoveThins ==
  ASSUME NEW S, NEW s \in Seq(S), NEW k \in DOMAIN s
  PROVE  RemoveAt(s, k) \in Seq(S) /\ Thins(RemoveAt(s, k), s)
<1> DEFINE t == RemoveAt(s, k)
           h == [i \in DOMAIN t |-> IF i < k THEN i ELSE i + 1]
<1>1. t \in Seq(S) /\ Len(t) = Len(s) - 1 /\ \A i \in 1 .. Len(t) : t[i] = IF i < k THEN s[i] ELSE s[i + 1]
  <2> DEFINE a == SubSeq(s, 1, k - 1)
             b == SubSeq(s, k + 1, Len(s))
  <2>1. a \in Seq(S) /\ Len(a) = k - 1 /\ \A i \in 1 .. k - 1 : a[i] = s[i]
    OBVIOUS
  <2>2. b \in Seq(S) /\ Len(b) = Len(s) - k /\ \A i \in 1 .. Len(s) - k : b[i] = s[k + i]
    OBVIOUS
  <2>3. t = a \o b
    BY DEF RemoveAt
  <2> HIDE DEF a, b, t
  <2>4. /\ t \in Seq(S) /\ Len(t) = Len(a) + Len(b)
        /\ \A i \in 1 .. Len(a) + Len(b) : t[i] = IF i <= Len(a) THEN a[i] ELSE b[i - Len(a)]
    BY <2>1, <2>2, <2>3, ConcatProperties
  <2>5. Len(t) = Len(s) - 1
    BY <2>1, <2>2, <2>4
  <2>6. ASSUME NEW i \in 1 .. Len(t)  PROVE t[i] = IF i < k THEN s[i] ELSE s[i + 1]
    <3>1. CASE i < k
      BY <2>1, <2>2, <2>4, <2>5, <3>1
    <3>2. CASE i >= k
      <4>1. i - (k - 1) \in 1 .. Len(s) - k /\ k + (i - (k - 1)) = i + 1
        BY <2>5, <3>2
      <4>2. t[i] = b[i - (k - 1)]
        BY <2>1, <2>2, <2>4, <2>5, <3>2
      <4>3. b[i - (k - 1)] = s[k + (i - (k - 1))]
        BY <2>2, <4>1
      <4> QED  BY <3>2, <4>1, <4>2, <4>3
    <3> QED  BY <3>1, <3>2
  <2> QED  BY <2>4, <2>5, <2>6
<1> HIDE DEF t
<1>2. h \in [DOMAIN t -> DOMAIN s] /\ (\A i \in DOMAIN t : t[i] = s[h[i]]) /\ \A i, j \in DOMAIN t : i < j => h[i] <= h[j]
  BY <1>1
<1>3. Thins(t, s)
  BY <1>2 DEF Thins
<1> QED  BY <1>1, <1>3 DEF t

LEMMA RepeatThins ==
  ASSUME NEW S, NEW s \in Seq(S), NEW k \in DOMAIN s
  PROVE  InsertAt(s, k, s[k]) \in Seq(S) /\ Thins(InsertAt(s, k, s[k]), s)
<1> DEFINE t == InsertAt(s, k, s[k])
           h == [i \in DOMAIN t |-> IF i <= k THEN i ELSE i - 1]
<1>1. t \in Seq(S) /\ Len(t) = Len(s) + 1 /\ \A i \in 1 .. Len(t) : t[i] = IF i <= k THEN s[i] ELSE s[i - 1]
  <2> DEFINE a == SubSeq(s, 1, k - 1)
             b == SubSeq(s, k, Len(s))
             e == <<s[k]>>
             c == a \o e
  <2>1. a \in Seq(S) /\ Len(a) = k - 1 /\ \A i \in 1 .. k - 1 : a[i] = s[i]
    OBVIOUS
  <2>2. b \in Seq(S) /\ Len(b) = Len(s) - k + 1 /\ \A i \in 1 .. Len(s) - k + 1 : b[i] = s[k + i - 1]
    OBVIOUS
  <2>3. t = c \o b /\ e \in Seq(S) /\ Len(e) = 1 /\ e[1] = s[k] /\ k \in Nat
    BY DEF InsertAt
  <2> HIDE DEF a, e
  <2>4. c \in Seq(S) /\ Len(c) = k /\ \A i \in 1 .. k : c[i] = s[i]
    <3>0. a \in Seq(S) /\ e \in Seq(S)
      BY <2>1, <2>3
    <3>1. /\ c \in Seq(S) /\ Len(c) = Len(a) + Len(e)
          /\ \A i \in 1 .. Len(a) + Len(e) : c[i] = IF i <= Len(a) THEN a[i] ELSE e[i - Len(a)]
      BY ONLY <3>0, ConcatProperties
    <3> HIDE DEF c
    <3>2. Len(c) = k
      BY <2>1, <2>3, <3>1
    <3>3. ASSUME NEW i \in 1 .. k  PROVE c[i] = s[i]
      <4>1. CASE i = k
        <5>1. c[i] = e[1]
          BY <2>1, <2>3, <3>1, <4>1
        <5> QED  BY <2>3, <4>1, <5>1
      <4>2. CASE i < k
        BY <2>1, <2>3, <3>1, <4>2
      <4> QED  BY <2>3, <4>1, <4>2
    <3> QED  BY <3>1, <3>2, <3>3
  <2> HIDE DEF b, c, t
  <2>5. /\ t \in Seq(S) /\ Len(t) = Len(c) + Len(b)
        /\ \A i \in 1 .. Len(c) + Len(b) : t[i] = IF i <= Len(c) THEN c[i] ELSE b[i - Len(c)]
    BY <2>2, <2>3, <2>4, ConcatProperties
  <2>6. Len(t) = Len(s) + 1
    BY <2>2, <2>4, <2>5
  <2>7. ASSUME NEW i \in 1 .. Len(t)  PROVE t[i] = IF i <= k THEN s[i] ELSE s[i - 1]
    <3>1. CASE i <= k
      BY <2>2, <2>4, <2>5, <2>6, <3>1
    <3>2. CASE i > k
      <4>1. i - k \in 1 .. Len(s) - k + 1 /\ k + (i - k) - 1 = i - 1
        BY <2>6, <3>2
      <4>2. t[i] = b[i - k]
        BY <2>2, <2>4, <2>5, <2>6, <3>2
      <4>3. b[i - k] = s[k + (i - k) - 1]
        BY <2>2, <4>1
      <4> QED  BY <3>2, <4>1, <4>2, <4>3
    <3> QED  BY <3>1, <3>2
  <2> QED  BY <2>5, <2>6, <2>7
<1> HIDE DEF t
<1>2. h \in [DOMAIN t -> DOMAIN s] /\ (\A i \in DOMAIN t : t[i] = s[h[i]]) /\ \A i, j \in DOMAIN t : i < j => h[i] <= h[j]
  BY <1>1
<1>3. Thins(t, s)
  BY <1>2 DEF Thins
<1> QED  BY <1>1, <1>3 DEF t

\* A packet at the end.
LEMMA AppendOrdered ==
  ASSUME NEW S, NEW s \in Seq(S), NEW q \in S, NEW p, NEW A, NEW b, Ordered(s, p, A, b),
         q.port = p => q.blk \in A,
         q.port = p => (q.blk = b \/ \A i \in DOMAIN s : s[i].port = p => s[i].blk # b)
  PROVE  Ordered(Append(s, q), p, A, b)
<1> DEFINE t == Append(s, q)
<1>1. t \in Seq(S) /\ Len(t) = Len(s) + 1 /\ (\A i \in 1 .. Len(s) : t[i] = s[i]) /\ t[Len(s) + 1] = q
  BY AppendProperties
<1> HIDE DEF t
<1>2. DOMAIN t = 1 .. Len(s) + 1 /\ DOMAIN s = 1 .. Len(s)
  BY <1>1
<1>3. \A i \in DOMAIN t : t[i].port = p => t[i].blk \in A
  BY <1>1, <1>2 DEF Ordered
<1>4. ASSUME NEW i \in DOMAIN t, NEW j \in DOMAIN t, i < j, t[i].port = p, t[j].port = p, t[i].blk = b
      PROVE  t[j].blk = b
  <2>1. i \in DOMAIN s /\ t[i] = s[i]
    BY <1>1, <1>2, <1>4
  <2>2. CASE j \in DOMAIN s
    BY <1>1, <1>2, <1>4, <2>1, <2>2 DEF Ordered
  <2>3. CASE j = Len(s) + 1
    BY <1>1, <1>4, <2>1, <2>3
  <2> QED  BY <1>2, <2>2, <2>3
<1> QED  BY <1>3, <1>4 DEF Ordered, t

-----------------------------------------------------------------------------
(* What a step leaves as it is.                                            *)

\* Nobody goes back.
Keeps ==
  /\ mode' = mode /\ file' = file /\ block' \in Nat /\ block <= block'
  /\ faults.hard => faults'.hard
  /\ Small' => Small
  /\ \A p \in Port : /\ sess[p].st # "free" => sess'[p].st # "free" /\ sess[p].blk <= sess'[p].blk
                     /\ sess'[p].blk \in Nat

\* What was written stays, and complete blocks stay complete.
KeepsData ==
  mode = "write" /\ Small' =>
    \A k \in 0 .. block :
      Whole(k) => /\ Whole(k)'
                  /\ k # 0 => Chunk(written', k) = Chunk(written, k)
                  /\ SubSeq(written', 1, Least(k * BlkSize, Len(written'))) =
                       SubSeq(written, 1, Least(k * BlkSize, Len(written)))
                  /\ k * BlkSize <= Len(written) => k * BlkSize <= Len(written')

LEMMA SessionTypes ==
  ASSUME ServerOK, NEW p \in Port
  PROVE  /\ sess[p] \in Sessions /\ sess[p].blk \in Nat /\ sess[p].store \in Seq(Nat)
         /\ sess[p].st \in {"free", "read", "write", "kept", "done"}
BY DEF ServerOK, Sessions

LEMMA QueriesKept == ASSUME TftpInv, Keeps, KeepsData  PROVE Queries \subseteq Queries'
<1> SUFFICES ASSUME NEW q \in Packets, Query(q)  PROVE Query(q)'
  BY DEF Queries
<1>0. block \in Nat /\ block' \in Nat /\ block <= block'
  BY DEF TftpInv, FileOK, Keeps
<1>1. q.port \in Port => sess'[q.port].st # "free"
  BY DEF Query, Keeps
<1>2. ASSUME mode' = "read"  PROVE ReadQuery(q)'
  <2>1. ReadQuery(q) /\ file' = file
    BY <1>2 DEF Query, Keeps
  <2>2. ASSUME AckOf(q)  PROVE AckOf(q)'
    <3>1. PICK a \in 1 .. block : q.blk = a % Word /\ (a < block \/ Len(Chunk(file, a)) < BlkSize)
      BY <2>2 DEF AckOf
    <3>2. a \in 1 .. block' /\ (a < block' \/ Len(Chunk(file', a)) < BlkSize)
      BY <1>0, <2>1, <3>1
    <3> QED  BY <3>1, <3>2 DEF AckOf, Chunk
  <2> QED  BY <2>1, <2>2 DEF ReadQuery
<1>3. ASSUME mode' = "write"  PROVE WriteQuery(q)'
  <2>1. WriteQuery(q) /\ mode = "write" /\ (Small' => Small)
    BY <1>3 DEF Query, Keeps
  <2>2. ASSUME Small', DataOf(q)  PROVE DataOf(q)'
    <3>1. PICK j \in 1 .. block : q.blk = j % Word /\ q.data = Chunk(written, j) /\ Whole(j)
      BY <2>2 DEF DataOf
    <3>2. j \in 0 .. block /\ j # 0 /\ j \in 1 .. block'
      BY <1>0, <3>1
    <3>3. Whole(j)' /\ Chunk(written', j) = Chunk(written, j)
      BY <2>1, <2>2, <3>1, <3>2 DEF KeepsData
    <3> QED  BY <3>1, <3>2, <3>3 DEF DataOf, Chunk
  <2> QED  BY <2>1, <2>2 DEF WriteQuery
<1> QED  BY <1>1, <1>2, <1>3 DEF Query

LEMMA RepliesKept == ASSUME TftpInv, Keeps  PROVE Replies \subseteq Replies'
<1> SUFFICES ASSUME NEW r \in Packets, Reply(r)  PROVE Reply(r)'
  BY DEF Replies
<1>1. r.port \in Port /\ sess[r.port].st # "free" /\ sess'[r.port].st # "free"
  BY DEF Reply, Keeps
<1>2. sess[r.port].blk \in Nat /\ sess'[r.port].blk \in Nat /\ sess[r.port].blk <= sess'[r.port].blk
  BY <1>1, SessionTypes DEF TftpInv, Keeps
<1>3. mode' = mode /\ file' = file /\ (faults.hard => faults'.hard)
  BY DEF Keeps
<1>4. ASSUME ReadReply(r)  PROVE ReadReply(r)'
  <2>1. PICK k \in 1 .. sess[r.port].blk : r.blk = k % Word /\ r.data = Chunk(file, k)
    BY <1>4 DEF ReadReply
  <2>2. k \in 1 .. sess'[r.port].blk
    BY <1>2
  <2>3. r.data = Chunk(file', k)
    BY <1>3, <2>1
  <2> QED  BY <1>4, <2>1, <2>2, <2>3 DEF ReadReply, Chunk
<1>5. ASSUME WriteReply(r)  PROVE WriteReply(r)'
  BY <1>2, <1>5 DEF WriteReply
<1> QED  BY <1>1, <1>3, <1>4, <1>5 DEF Reply

LEMMA ServedKept == ASSUME TftpInv, Keeps, KeepsData, sess' = sess  PROVE Served'
<1> SUFFICES ASSUME NEW p \in Port  PROVE /\ mode' = "read" => ReadSession(p)'
                                          /\ mode' = "write" => WriteSession(p)'
  BY DEF Served
<1>1. /\ block \in Nat /\ block' \in Nat /\ block <= block' /\ mode' = mode /\ (Small' => Small)
      /\ sess[p].blk \in Nat /\ (faults.hard => faults'.hard)
  BY SessionTypes DEF TftpInv, FileOK, Keeps
<1>2. ASSUME mode = "read"  PROVE ReadSession(p)'
  <2>1. ReadSession(p)
    BY <1>2 DEF TftpInv, Served
  <2> QED  BY <1>1, <2>1 DEF ReadSession
<1>3. ASSUME mode = "write"  PROVE WriteSession(p)'
  <2>1. WriteSession(p)
    BY <1>3 DEF TftpInv, Served
  <2>2. PICK k \in Nat : k = sess[p].blk
    BY <1>1
  <2>3. ASSUME Small', sess[p].st # "free"
        PROVE  /\ k \in 0 .. block' /\ Whole(k)'
               /\ sess[p].store = SubSeq(written', 1, Least(k * BlkSize, Len(written')))
               /\ sess[p].st = "write" => k * BlkSize <= Len(written')
    <3>1. /\ k \in 0 .. block /\ Whole(k)
          /\ sess[p].store = SubSeq(written, 1, Least(k * BlkSize, Len(written)))
          /\ sess[p].st = "write" => k * BlkSize <= Len(written)
      BY <1>1, <2>1, <2>2, <2>3 DEF WriteSession
    <3>2. /\ Whole(k)'
          /\ SubSeq(written', 1, Least(k * BlkSize, Len(written'))) = SubSeq(written, 1, Least(k * BlkSize, Len(written)))
          /\ k * BlkSize <= Len(written) => k * BlkSize <= Len(written')
      BY <1>3, <2>3, <3>1 DEF KeepsData
    <3>3. k \in 0 .. block'
      BY <1>1, <3>1
    <3> QED  BY <3>1, <3>2, <3>3, Zenon
  <2>4. /\ sess[p].st \in {"free", "write", "kept", "done"} /\ (sess[p].st = "free" => sess[p].store = <<>>)
        /\ sess[p].st = "done" => faults'.hard
    BY <1>1, <2>1 DEF WriteSession
  <2>5. k = sess'[p].blk
    BY <2>2
  <2> QED  BY <2>3, <2>4, <2>5 DEF WriteSession, Whole
<1> QED  BY <1>1, <1>2, <1>3

\* A step of the network or the server.
SameClient ==
  /\ mode' = mode /\ block' = block /\ start' = start /\ end' = end /\ foffs' = foffs /\ eof' = eof
  /\ sin_port' = sin_port /\ buf' = buf /\ pc' = pc /\ call' = call /\ pkt' = pkt /\ nb' = nb
  /\ file' = file /\ got' = got /\ short' = short /\ written' = written

NetStep ==
  /\ SameClient /\ mode \in {"read", "write"}
  /\ faults' \in [n : Nat, hard : BOOLEAN] /\ (faults.hard => faults'.hard)
  /\ sess' \in [Port -> Sessions]
  /\ \A p \in Port : sess[p].st # "free" => sess'[p].st # "free" /\ sess[p].blk <= sess'[p].blk

LEMMA NetStepKeeps ==
  ASSUME TftpInv, NetStep
  PROVE  Keeps /\ KeepsData /\ Queries \subseteq Queries' /\ Replies \subseteq Replies'
<1>1. Keeps
  BY DEF TftpInv, FileOK, NetStep, SameClient, Keeps, Small, Sessions
<1>2. KeepsData
  BY DEF NetStep, SameClient, KeepsData, Whole
<1> QED  BY <1>1, <1>2, QueriesKept, RepliesKept

LEMMA NetStepInv ==
  ASSUME TftpInv, NetStep, c2s' \in Seq(Queries'), s2c' \in Seq(Replies'), Served', Order'
  PROVE  TftpInv'
<1>1. FileOK' /\ CallOK' /\ SeenOK' /\ ServerOK'
  BY DEF TftpInv, FileOK, CallOK, SeenOK, ServerOK, NetStep, SameClient
<1>2. Fresh'
  BY DEF Fresh, NetStep, SameClient
<1>3. Known'
  BY DEF TftpInv, Known, NetStep, SameClient
<1>4. Reads'
  BY DEF TftpInv, Reads, ReadWaits, ReadReady, ReadEnds, Waiting, NetStep, SameClient
<1>5. Writes'
  BY DEF TftpInv, Writes, WriteWaits, WriteReady, AtLast, Waiting, NetStep, SameClient
<1>6. Delivered'
  BY DEF TftpInv, Delivered, NetStep, SameClient
<1> QED  BY <1>1, <1>2, <1>3, <1>4, <1>5, <1>6 DEF TftpInv

\* Packets that thin out stay in order.
LEMMA OrderThins ==
  ASSUME TftpInv, sess' = sess, s2c' \in Seq(Packets), Thins(s2c', s2c),
         block' = block, (Waiting' <=> Waiting), sin_port' = sin_port, eof' = eof,
         faults.hard => faults'.hard, Small' => Small
  PROVE  Order'
<1> SUFFICES ASSUME InStep'
             PROVE  /\ sess'[sin_port'].blk \in Lo' .. block'
                    /\ Ordered(s2c', sin_port', {Lo' % Word, sess'[sin_port'].blk % Word}, block' % Word)
  BY DEF Order
<1>1. InStep
  BY DEF InStep
<1>2. Lo' = Lo
  BY DEF Lo
<1>3. /\ sess[sin_port].blk \in Lo .. block
      /\ Ordered(s2c, sin_port, {Lo % Word, sess[sin_port].blk % Word}, block % Word)
  BY <1>1 DEF TftpInv, Order
<1>4. s2c \in Seq(Packets)
  BY SeqSub DEF TftpInv, Replies
<1>5. Ordered(s2c', sin_port, {Lo % Word, sess[sin_port].blk % Word}, block % Word)
  BY <1>3, <1>4, ThinOrdered
<1> QED  BY <1>2, <1>3, <1>5

-----------------------------------------------------------------------------
(* The network.                                                            *)

LEMMA ThinsSelf == ASSUME NEW S, NEW s \in Seq(S)  PROVE Thins(s, s)
<1> DEFINE h == [i \in DOMAIN s |-> i]
<1>1. /\ h \in [DOMAIN s -> DOMAIN s] /\ (\A i \in DOMAIN s : s[i] = s[h[i]])
      /\ \A i, j \in DOMAIN s : i < j => h[i] <= h[j]
  OBVIOUS
<1> QED  BY <1>1 DEF Thins

LEMMA Channels ==
  ASSUME TftpInv
  PROVE  /\ c2s \in Seq(Queries) /\ s2c \in Seq(Replies) /\ c2s \in Seq(Packets) /\ s2c \in Seq(Packets)
         /\ Queries \subseteq Packets /\ Replies \subseteq Packets
<1>1. Queries \subseteq Packets /\ Replies \subseteq Packets
  BY DEF Queries, Replies
<1> QED  BY <1>1, SeqSub DEF TftpInv

\* Nothing happens before the file is opened.
LEMMA Opened ==
  ASSUME TftpInv, c2s # <<>> \/ s2c # <<>> \/ \E p \in Port : sess[p].st # "free"
  PROVE  mode \in {"read", "write"}
BY DEF TftpInv, Fresh, FileOK

LEMMA FaultStep ==
  ASSUME TftpInv, NEW f, Fault(f)
  PROVE  /\ faults' \in [n : Nat, hard : BOOLEAN] /\ (faults.hard => faults'.hard)
         /\ f \notin {"lose", "dup"} => faults'.hard
<1>1. faults.n \in Nat /\ faults.hard \in BOOLEAN
  BY DEF TftpInv, ServerOK
<1> DEFINE b == faults.hard \/ f \notin {"lose", "dup"}
<1>2. faults' = [n |-> faults.n + 1, hard |-> b]
  BY DEF Fault
<1>3. b \in BOOLEAN /\ (faults.hard => b) /\ (f \notin {"lose", "dup"} => b)
  BY <1>1, Zenon
<1> HIDE DEF b
<1>4. faults' \in [n : Nat, hard : BOOLEAN] /\ faults'.hard = b
  BY <1>1, <1>2, <1>3
<1> QED  BY <1>3, <1>4, Zenon

\* The channels change and nothing else does.
ChannelStep ==
  /\ SameClient /\ sess' = sess /\ mode \in {"read", "write"}
  /\ faults' \in [n : Nat, hard : BOOLEAN] /\ (faults.hard => faults'.hard)

LEMMA ChannelStepInv ==
  ASSUME TftpInv, ChannelStep, c2s' \in Seq(Queries), s2c' \in Seq(Replies),
         faults'.hard \/ Thins(s2c', s2c)
  PROVE  TftpInv'
<1>1. NetStep
  <2>1. \A p \in Port : sess[p].blk <= sess[p].blk
    BY SessionTypes DEF TftpInv
  <2> QED  BY <2>1 DEF ChannelStep, NetStep, TftpInv, ServerOK
<1>2. Keeps /\ KeepsData /\ Queries \subseteq Queries' /\ Replies \subseteq Replies'
  BY <1>1, NetStepKeeps
<1>3. Served'
  BY <1>2, ServedKept DEF ChannelStep
<1>4. Order'
  <2>1. CASE faults'.hard
    BY <2>1 DEF Order, InStep
  <2>2. CASE Thins(s2c', s2c)
    <3>1. s2c' \in Seq(Packets)
      BY Channels, SeqSub
    <3>2. /\ block' = block /\ (Waiting' <=> Waiting) /\ sin_port' = sin_port /\ eof' = eof
          /\ (faults.hard => faults'.hard) /\ (Small' => Small) /\ sess' = sess
      BY DEF ChannelStep, SameClient, Waiting, Small
    <3> QED  BY <2>2, <3>1, <3>2, OrderThins
  <2> QED  BY <2>1, <2>2
<1>5. c2s' \in Seq(Queries') /\ s2c' \in Seq(Replies')
  BY <1>2, SeqSub
<1> QED  BY <1>1, <1>3, <1>4, <1>5, NetStepInv

LEMMA RefuseInv == ASSUME TftpInv, Refuse  PROVE TftpInv'
<1>1. c2s # <<>> /\ c2s' = Tail(c2s) /\ s2c' = s2c /\ SameClient /\ sess' = sess /\ faults' = faults
  BY DEF Refuse, client, server, seen, SameClient
<1>2. c2s' \in Seq(Queries) /\ s2c' \in Seq(Replies) /\ Thins(s2c', s2c)
  BY <1>1, Channels, TailThins, ThinsSelf
<1>3. ChannelStep
  BY <1>1, Opened DEF ChannelStep, TftpInv, ServerOK
<1> QED  BY <1>2, <1>3, ChannelStepInv

LEMMA LoseInv == ASSUME TftpInv, Lose  PROVE TftpInv'
<1>1. /\ SameClient /\ sess' = sess /\ Fault("lose")
      /\ \/ \E i \in DOMAIN s2c : s2c' = RemoveAt(s2c, i) /\ c2s' = c2s
         \/ \E i \in DOMAIN c2s : c2s' = RemoveAt(c2s, i) /\ s2c' = s2c
  BY DEF Lose, client, server, seen, SameClient
<1>2. c2s' \in Seq(Queries) /\ s2c' \in Seq(Replies) /\ Thins(s2c', s2c)
  BY <1>1, Channels, RemoveThins, ThinsSelf
<1>3. c2s # <<>> \/ s2c # <<>>
  BY <1>1
<1>4. ChannelStep
  BY <1>1, <1>3, Opened, FaultStep DEF ChannelStep
<1> QED  BY <1>2, <1>4, ChannelStepInv

LEMMA DuplicateInv == ASSUME TftpInv, Duplicate  PROVE TftpInv'
<1>1. /\ SameClient /\ sess' = sess /\ Fault("dup")
      /\ \/ \E i \in DOMAIN s2c : s2c' = InsertAt(s2c, i, s2c[i]) /\ c2s' = c2s
         \/ \E i \in DOMAIN c2s : c2s' = InsertAt(c2s, i, c2s[i]) /\ s2c' = s2c
  BY DEF Duplicate, client, server, seen, SameClient
<1>2. c2s' \in Seq(Queries) /\ s2c' \in Seq(Replies) /\ Thins(s2c', s2c)
  BY <1>1, Channels, RepeatThins, ThinsSelf
<1>3. c2s # <<>> \/ s2c # <<>>
  BY <1>1
<1>4. ChannelStep
  BY <1>1, <1>3, Opened, FaultStep DEF ChannelStep
<1> QED  BY <1>2, <1>4, ChannelStepInv

LEMMA ReorderInv == ASSUME TftpInv, Reorder  PROVE TftpInv'
<1>1. SameClient /\ sess' = sess /\ Fault("swap") /\ c2s' = c2s
  BY DEF Reorder, client, server, seen, SameClient
<1>2. PICK i \in 1 .. Len(s2c) - 1 : s2c' = [s2c EXCEPT ![i] = s2c[i + 1], ![i + 1] = s2c[i]]
  BY DEF Reorder
<1>3. s2c' \in Seq(Replies) /\ s2c # <<>>
  <2>1. s2c \in Seq(Replies)
    BY Channels
  <2>2. i \in 1 .. Len(s2c) /\ i + 1 \in 1 .. Len(s2c) /\ s2c \in [1 .. Len(s2c) -> Replies]
    BY <2>1
  <2>3. s2c' \in [1 .. Len(s2c) -> Replies]
    BY <1>2, <2>2
  <2> QED  BY <2>1, <2>2, <2>3
<1>4. faults'.hard
  BY <1>1, FaultStep
<1>5. ChannelStep
  BY <1>1, <1>3, Opened, FaultStep DEF ChannelStep
<1> QED  BY <1>1, <1>3, <1>4, <1>5, Channels, ChannelStepInv

-----------------------------------------------------------------------------
(* The server.                                                             *)

\* Two numbers in a row differ on the wire.
LEMMA InARow == ASSUME NEW k \in Nat  PROVE k % Word # (k + 1) % Word
<1> DEFINE w == Word
           a == k \div w
           b == (k + 1) \div w
           r == k % w
           t == (k + 1) % w
<1>1. w \in Nat /\ w >= 2
  BY TftpAssumption
<1> HIDE DEF w
<1>2. /\ a \in Int /\ r \in 0 .. w - 1 /\ k = w * a + r
      /\ b \in Int /\ t \in 0 .. w - 1 /\ k + 1 = w * b + t
  BY <1>1, SMT
<1> HIDE DEF a, b, r, t
<1> SUFFICES ASSUME r = t  PROVE FALSE
  BY DEF r, t, w
<1>3. w * a \in Int /\ w * b \in Int /\ w * b = w * a + 1
  <2>1. w * a \in Int /\ w * b \in Int
    BY <1>1, <1>2, SMT
  <2> DEFINE x == w * a
             y == w * b
  <2> HIDE DEF x, y
  <2>2. x \in Int /\ y \in Int /\ k = x + r /\ k + 1 = y + t
    BY <1>2, <2>1 DEF x, y
  <2>3. y = x + 1
    BY <1>2, <2>2
  <2> QED  BY <2>2, <2>3 DEF x, y
<1>4. CASE b <= a
  <2>1. w * b <= w * a
    BY <1>1, <1>2, <1>4, SMT
  <2> QED  BY <1>3, <2>1
<1>5. CASE b >= a + 1
  <2>1. w * b >= w * (a + 1) /\ w * (a + 1) = w * a + w
    BY <1>1, <1>2, <1>5, SMT
  <2> QED  BY <1>1, <1>3, <2>1
<1> QED  BY <1>2, <1>4, <1>5

\* The packet of a session.
LEMMA CurrentIs ==
  ASSUME NEW p \in Port, NEW s \in Sessions, file \in Seq(Nat), s.st = "read" => s.blk >= 1
  PROVE  /\ Current(p, s) \in Packets /\ Current(p, s).port = p /\ Current(p, s).blk = s.blk % Word
         /\ s.st = "read" => Current(p, s).op = "DATA" /\ Current(p, s).data = Chunk(file, s.blk)
         /\ s.st # "read" => Current(p, s).op = "ACK"
<1>1. s.blk \in Nat /\ s.blk % Word \in Nat
  BY WireNat DEF Sessions
<1>2. CASE s.st = "read"
  <2>1. FileBlock(s.blk) = Chunk(file, s.blk) /\ Chunk(file, s.blk) \in Seq(Nat)
    BY <1>1, <1>2, ChunkIs DEF FileBlock, Chunk
  <2>2. Current(p, s) = [op |-> "DATA", port |-> p, blk |-> s.blk % Word, data |-> Chunk(file, s.blk)]
    BY <1>2, <2>1 DEF Current, Packet
  <2> QED  BY <1>1, <1>2, <2>1, <2>2 DEF Packets
<1>3. CASE s.st # "read"
  <2>1. Current(p, s) = [op |-> "ACK", port |-> p, blk |-> s.blk % Word, data |-> <<>>]
    BY <1>3 DEF Current, Packet
  <2>2. <<>> \in Seq(Nat)
    OBVIOUS
  <2> QED  BY <1>1, <1>3, <2>1, <2>2 DEF Packets
<1> QED  BY <1>2, <1>3

LEMMA OrderedSub ==
  ASSUME NEW s, NEW p, NEW A, NEW B, NEW b, A \subseteq B, Ordered(s, p, A, b)
  PROVE  Ordered(s, p, B, b)
BY DEF Ordered

\* Session p goes on, by at most the one block the client is ahead, and may
\* send its packet.
SessionStep(p) ==
  /\ NetStep /\ \A q \in Port : q # p => sess'[q] = sess[q]
  /\ \/ s2c' = s2c
     \/ /\ s2c' = Append(s2c, Current(p, sess'[p]))
        /\ mode = "read" => sess'[p].st = "read" /\ sess'[p].blk >= 1
        /\ mode = "write" => sess'[p].st \in {"write", "kept"}
  /\ sess[p].st = "free" \/ sess'[p].blk = sess[p].blk
       \/ (sess'[p].blk = sess[p].blk + 1 /\ (Small => sess'[p].blk <= block))

LEMMA SessionStepInv ==
  ASSUME TftpInv, NEW p \in Port, SessionStep(p), c2s' = Tail(c2s) \/ c2s' = c2s, c2s' # c2s => c2s # <<>>, Served'
  PROVE  TftpInv'
<1> DEFINE q == Current(p, sess'[p])
<1>0. /\ NetStep /\ sess'[p] \in Sessions /\ file \in Seq(Nat) /\ mode \in {"read", "write"}
      /\ mode' = mode /\ file' = file /\ block' = block /\ block \in Nat
  BY DEF SessionStep, NetStep, SameClient, TftpInv, ServerOK, FileOK
<1>1. Queries \subseteq Queries' /\ Replies \subseteq Replies'
  BY <1>0, NetStepKeeps
<1>2. ASSUME s2c' # s2c
      PROVE  /\ s2c' = Append(s2c, q) /\ q \in Packets /\ q.port = p /\ q.blk = sess'[p].blk % Word
             /\ q \in Replies'
  <2>1. /\ s2c' = Append(s2c, q)
        /\ mode = "read" => sess'[p].st = "read" /\ sess'[p].blk >= 1
        /\ mode = "write" => sess'[p].st \in {"write", "kept"}
    BY <1>2 DEF SessionStep
  <2>2. /\ q \in Packets /\ q.port = p /\ q.blk = sess'[p].blk % Word
        /\ sess'[p].st = "read" => q.op = "DATA" /\ q.data = Chunk(file, sess'[p].blk)
        /\ sess'[p].st # "read" => q.op = "ACK"
    <3>1. sess'[p].st = "read" => sess'[p].blk >= 1
      BY <1>0, <2>1
    <3> QED  BY ONLY <1>0, <3>1, CurrentIs
  <2> HIDE DEF q
  <2>3. sess'[p].blk \in Nat /\ sess'[p].st # "free"
    BY <1>0, <2>1 DEF Sessions
  <2>4. PICK r \in Packets : r = q
    BY <2>2
  <2>5. CASE mode = "read"
    <3>1. ReadReply(r)'
      <4>1. r.op = "DATA" /\ r.blk = sess'[p].blk % Word /\ r.data = Chunk(file, sess'[p].blk) /\ r.port = p
        BY <2>1, <2>2, <2>4, <2>5
      <4>2. sess'[r.port].blk \in 1 .. sess'[r.port].blk
        BY <2>1, <2>3, <2>5, <4>1
      <4>3. PICK k \in 1 .. sess'[r.port].blk : k = sess'[r.port].blk
        BY <4>2
      <4>4. r.data = Chunk(file', k) /\ r.blk = k % Word
        BY <1>0, <4>1, <4>3
      <4> QED  BY <4>1, <4>4 DEF ReadReply, Chunk
    <3> QED  BY <1>0, <2>1, <2>2, <2>3, <2>4, <2>5, <3>1 DEF Reply, Replies
  <2>6. CASE mode = "write"
    <3>1. WriteReply(r)'
      <4>1. r.op = "ACK" /\ r.blk = sess'[p].blk % Word /\ r.port = p
        BY <2>1, <2>2, <2>4, <2>6
      <4>2. sess'[r.port].blk \in 0 .. sess'[r.port].blk
        BY <2>3, <4>1
      <4> QED  BY <4>1, <4>2 DEF WriteReply
    <3> QED  BY <1>0, <2>1, <2>2, <2>3, <2>4, <2>6, <3>1 DEF Reply, Replies
  <2> QED  BY <1>0, <2>1, <2>2, <2>5, <2>6
<1> HIDE DEF q
<1>3. s2c' \in Seq(Replies')
  <2>1. s2c \in Seq(Replies')
    BY <1>1, Channels, SeqSub
  <2> QED  BY <1>2, <2>1, AppendProperties
<1>4. c2s' \in Seq(Queries')
  <2>1. c2s' \in Seq(Queries)
    BY Channels, TailThins
  <2> QED  BY <1>1, <2>1, SeqSub
<1>5. Order'
  <2> SUFFICES ASSUME InStep'
               PROVE  /\ sess'[sin_port'].blk \in Lo' .. block'
                      /\ Ordered(s2c', sin_port', {Lo' % Word, sess'[sin_port'].blk % Word}, block' % Word)
    BY DEF Order
  <2>1. InStep /\ Lo' = Lo /\ sin_port' = sin_port /\ sin_port \in Port /\ Small
    BY <1>0 DEF InStep, Lo, Waiting, Small, NetStep, SameClient
  <2> DEFINE cur == sess[sin_port].blk
             new == sess'[sin_port].blk
  <2>2. /\ cur \in Lo .. block
        /\ Ordered(s2c, sin_port, {Lo % Word, cur % Word}, block % Word)
        /\ sess[sin_port].st # "free"
    BY <2>1 DEF TftpInv, Order, Known
  <2>3. cur \in Nat /\ new \in Nat /\ Lo \in {block - 1, block}
    BY <1>0, <2>1, SessionTypes DEF Lo, TftpInv, NetStep, Sessions
  <2>4. new \in Lo .. block /\ (new = cur \/ (cur = Lo /\ new = block /\ p = sin_port))
    <3>1. CASE p # sin_port
      BY <2>1, <2>2, <2>3, <3>1 DEF SessionStep
    <3>2. CASE p = sin_port
      <4>1. new = cur \/ (new = cur + 1 /\ new <= block)
        BY <2>1, <2>2, <3>2 DEF SessionStep
      <4> HIDE DEF cur, new
      <4> QED  BY <1>0, <2>2, <2>3, <3>2, <4>1
    <3> QED  BY <3>1, <3>2
  <2>5. Ordered(s2c, sin_port, {Lo % Word, new % Word}, block % Word)
    <3>1. {Lo % Word, cur % Word} \subseteq {Lo % Word, new % Word}
      BY <2>4
    <3> QED  BY <2>2, <3>1, OrderedSub
  <2>6. CASE s2c' = s2c
    BY <1>0, <2>1, <2>4, <2>5, <2>6
  <2>7. CASE s2c' # s2c
    <3>1. /\ s2c' = Append(s2c, q) /\ q \in Packets /\ q.port = p
          /\ p = sin_port => q.blk = new % Word
      BY <1>2, <2>7
    <3>2. ASSUME p = sin_port
          PROVE  q.blk = block % Word \/ \A i \in DOMAIN s2c : s2c[i].port = sin_port => s2c[i].blk # block % Word
      <4>1. CASE new = block
        BY <3>1, <3>2, <4>1
      <4>2. CASE new # block
        <5>1. Lo = cur /\ block = Lo + 1 /\ Lo \in Nat
          <6> HIDE DEF cur, new
          <6> QED  BY <1>0, <2>2, <2>3, <2>4, <4>2
        <5>2. \A i \in DOMAIN s2c : s2c[i].port = sin_port => s2c[i].blk = Lo % Word
          BY <2>2, <5>1 DEF Ordered
        <5>3. Lo % Word # block % Word
          BY <5>1, InARow
        <5> QED  BY <5>2, <5>3
      <4> QED  BY <4>1, <4>2
    <3>3. q.port = sin_port => q.blk \in {Lo % Word, new % Word}
      BY <3>1
    <3>4. s2c \in Seq(Packets)
      BY Channels
    <3> HIDE DEF new
    <3>5. Ordered(Append(s2c, q), sin_port, {Lo % Word, new % Word}, block % Word)
      BY <2>5, <3>1, <3>2, <3>3, <3>4, AppendOrdered
    <3> QED  BY <1>0, <2>1, <2>4, <3>1, <3>5 DEF new
  <2> QED  BY <2>6, <2>7
<1> QED  BY <1>0, <1>3, <1>4, <1>5, NetStepInv

LEMMA ServedBut ==
  ASSUME TftpInv, NetStep, NEW p \in Port, \A q \in Port : q # p => sess'[q] = sess[q],
         mode = "read" => ReadSession(p)', mode = "write" => WriteSession(p)'
  PROVE  Served'
<1> SUFFICES ASSUME NEW q \in Port  PROVE /\ mode' = "read" => ReadSession(q)'
                                          /\ mode' = "write" => WriteSession(q)'
  BY DEF Served
<1>1. mode' = mode /\ block' = block /\ written' = written /\ call' = call /\ (faults.hard => faults'.hard)
  BY DEF NetStep, SameClient
<1>2. CASE q = p
  BY <1>1, <1>2
<1>3. CASE q # p
  <2>1. sess'[q] = sess[q]
    BY <1>3
  <2>2. ASSUME mode = "read"  PROVE ReadSession(q)'
    <3>1. ReadSession(q)
      BY <2>2 DEF TftpInv, Served
    <3> QED  BY <1>1, <2>1, <3>1 DEF ReadSession
  <2>3. ASSUME mode = "write"  PROVE WriteSession(q)'
    <3>1. WriteSession(q)
      BY <2>3 DEF TftpInv, Served
    <3> QED  BY <1>1, <2>1, <3>1 DEF WriteSession, Small, Whole
  <2> QED  BY <1>1, <2>2, <2>3
<1> QED  BY <1>2, <1>3

LEMMA TimeoutInv == ASSUME TftpInv, NEW p \in Port, Timeout(p)  PROVE TftpInv'
<1>1. /\ sess[p].st \in {"read", "write"} /\ s2c' = Append(s2c, Current(p, sess[p])) /\ c2s' = c2s
      /\ SameClient /\ sess' = sess /\ faults' = faults
  BY DEF Timeout, client, server, seen, SameClient
<1>2. mode \in {"read", "write"}
  BY <1>1, Opened
<1>3. NetStep
  <2>1. \A q \in Port : sess[q].blk <= sess[q].blk
    BY SessionTypes DEF TftpInv
  <2> QED  BY <1>1, <1>2, <2>1 DEF NetStep, TftpInv, ServerOK
<1>4. mode = "read" => sess[p].st = "read" /\ sess[p].blk >= 1
  BY <1>1, SessionTypes DEF TftpInv, Served, ReadSession
<1>5. mode = "write" => sess[p].st = "write"
  BY <1>1 DEF TftpInv, Served, WriteSession
<1>6. SessionStep(p)
  BY <1>1, <1>3, <1>4, <1>5 DEF SessionStep
<1>7. Served'
  BY <1>1, <1>3, NetStepKeeps, ServedKept
<1> QED  BY <1>1, <1>6, <1>7, SessionStepInv

LEMMA AcceptInv == ASSUME TftpInv, Accept  PROVE TftpInv'
<1> DEFINE q == Head(c2s)
           s == IF q.op = "RRQ" THEN [st |-> "read", blk |-> 1, store |-> <<>>]
                                ELSE [st |-> "write", blk |-> 0, store |-> <<>>]
<1>1. /\ c2s # <<>> /\ q.port = WellKnown /\ c2s' = Tail(c2s)
      /\ SameClient /\ faults' = faults
  BY DEF Accept, client, seen, SameClient
<1>2. PICK p \in Port : /\ sess[p].st = "free" /\ sess' = [sess EXCEPT ![p] = s]
                        /\ Transmit(Current(p, s))
  BY DEF Accept
<1>3. mode \in {"read", "write"} /\ Query(q)
  BY <1>1, Opened, Channels, TailThins DEF Queries
<1>4. /\ s \in Sessions
      /\ mode = "read" => s.st = "read" /\ s.blk = 1 /\ s.store = <<>>
      /\ mode = "write" => s.st = "write" /\ s.blk = 0 /\ s.store = <<>>
  <2>1. (mode = "read" => q.op = "RRQ") /\ (mode = "write" => q.op # "RRQ")
    BY <1>1, <1>3 DEF Query, ReadQuery, WriteQuery
  <2>2. <<>> \in Seq(Nat)
    OBVIOUS
  <2> QED  BY <2>1, <2>2 DEF Sessions
<1> HIDE DEF s, q
<1>5. sess'[p] = s /\ (\A r \in Port : r # p => sess'[r] = sess[r]) /\ sess' \in [Port -> Sessions]
  BY <1>2, <1>4 DEF TftpInv, ServerOK
<1>6. NetStep
  <2>1. \A r \in Port : sess[r].st # "free" => sess'[r].st # "free" /\ sess[r].blk <= sess'[r].blk
    BY <1>2, <1>5, SessionTypes DEF TftpInv
  <2> QED  BY <1>1, <1>3, <1>5, <2>1 DEF NetStep, TftpInv, ServerOK
<1>7. s2c' = s2c \/ s2c' = Append(s2c, Current(p, sess'[p]))
  BY <1>2, <1>5 DEF Transmit
<1>8. SessionStep(p)
  BY <1>2, <1>4, <1>5, <1>6, <1>7 DEF SessionStep
<1>9. mode = "read" => ReadSession(p)'
  BY <1>1, <1>4, <1>5 DEF ReadSession, TftpInv, Reads, SameClient
<1>10. ASSUME mode = "write"  PROVE WriteSession(p)'
  <2>1. PICK k \in {0} : k = sess'[p].blk
    BY <1>4, <1>5, <1>10
  <2>2. written' = written /\ written \in Seq(Nat) /\ block' \in Nat /\ 0 * BlkSize = 0
    BY <1>1, Products DEF SameClient, TftpInv, SeenOK, FileOK
  <2>3. Whole(k)' /\ k \in 0 .. block' /\ k * BlkSize <= Len(written') /\ Least(k * BlkSize, Len(written')) = 0
    BY <2>1, <2>2 DEF Whole, Least
  <2>4. SubSeq(written', 1, 0) = <<>>
    BY <2>2
  <2> QED  BY <1>4, <1>5, <1>10, <2>1, <2>3, <2>4 DEF WriteSession, Whole
<1>11. Served'
  BY <1>5, <1>6, <1>9, <1>10, ServedBut
<1> QED  BY <1>1, <1>8, <1>11, SessionStepInv

LEMMA ServerFailsInv == ASSUME TftpInv, ServerFails  PROVE TftpInv'
<1>1. Fault("fail") /\ SameClient /\ c2s' = c2s
  BY DEF ServerFails, client, seen, SameClient
<1>2. PICK p \in Port : /\ sess[p].st \in {"read", "write"} /\ sess' = [sess EXCEPT ![p].st = "done"]
                        /\ Transmit(Packet("ERR", p, 0, <<>>))
  BY DEF ServerFails
<1>3. mode \in {"read", "write"}
  BY <1>2, Opened
<1>4. faults' \in [n : Nat, hard : BOOLEAN] /\ faults'.hard
  BY <1>1, FaultStep
<1>5. /\ sess'[p].st = "done" /\ sess'[p].blk = sess[p].blk /\ sess'[p].store = sess[p].store
      /\ (\A r \in Port : r # p => sess'[r] = sess[r]) /\ sess' \in [Port -> Sessions]
  BY <1>2 DEF TftpInv, ServerOK, Sessions
<1>6. NetStep
  <2>1. \A r \in Port : sess[r].st # "free" => sess'[r].st # "free" /\ sess[r].blk <= sess'[r].blk
    BY <1>2, <1>5, SessionTypes DEF TftpInv
  <2> QED  BY <1>1, <1>3, <1>4, <1>5, <2>1 DEF NetStep
<1>7. Queries \subseteq Queries' /\ Replies \subseteq Replies'
  BY <1>6, NetStepKeeps
<1>8. s2c' \in Seq(Replies')
  <2> DEFINE e == Packet("ERR", p, 0, <<>>)
  <2>0. PICK z \in Nat : z = 0 % Word
    BY WireNat
  <2>1. e = [op |-> "ERR", port |-> p, blk |-> z, data |-> <<>>] /\ <<>> \in Seq(Nat)
    BY <2>0 DEF Packet
  <2> HIDE DEF e
  <2>2. e \in Packets /\ e.op = "ERR" /\ e.port = p
    BY <2>1 DEF Packets
  <2>3. e \in Replies'
    <3>1. PICK r \in Packets : r = e
      BY <2>2
    <3>2. r.op = "ERR" /\ r.port \in Port /\ sess'[r.port].st # "free"
      BY <1>5, <2>2, <3>1
    <3> QED  BY <1>4, <3>1, <3>2 DEF Replies, Reply
  <2>4. s2c \in Seq(Replies')
    BY <1>7, Channels, SeqSub
  <2>5. s2c' = s2c \/ s2c' = Append(s2c, e)
    BY <1>2 DEF Transmit, e
  <2> QED  BY <2>3, <2>4, <2>5, AppendProperties
<1>9. c2s' \in Seq(Queries')
  BY <1>1, <1>7, Channels, SeqSub
<1>10. Order'
  BY <1>4 DEF Order, InStep
<1>11. ASSUME mode = "read"  PROVE ReadSession(p)'
  <2>1. ReadSession(p)
    BY <1>11 DEF TftpInv, Served
  <2> QED  BY <1>1, <1>2, <1>5, <2>1 DEF ReadSession, SameClient
<1>12. ASSUME mode = "write"  PROVE WriteSession(p)'
  <2>1. WriteSession(p)
    BY <1>12 DEF TftpInv, Served
  <2>2. PICK k : k = sess[p].blk
    OBVIOUS
  <2> QED  BY <1>1, <1>2, <1>4, <1>5, <2>1, <2>2 DEF WriteSession, SameClient, Small, Whole
<1>13. Served'
  BY <1>5, <1>6, <1>11, <1>12, ServedBut
<1> QED  BY <1>6, <1>8, <1>9, <1>10, <1>13, NetStepInv

LEMMA SameWire == ASSUME NEW a \in 1 .. Word, NEW b \in 1 .. Word, a % Word = b % Word  PROVE a = b
<1>1. a \in 0 .. Word /\ b \in 0 .. Word /\ Word \in Nat \ {0, 1}
  BY TftpAssumption
<1>2. a % Word = (IF a = Word THEN 0 ELSE a) /\ b % Word = (IF b = Word THEN 0 ELSE b)
  BY <1>1, Wire
<1> DEFINE x == a % Word
           y == b % Word
<1>3. x = y /\ x = (IF a = Word THEN 0 ELSE a) /\ y = (IF b = Word THEN 0 ELSE b)
  BY <1>2
<1> HIDE DEF x, y
<1> QED  BY <1>1, <1>3

LEMMA ConcatIs ==
  ASSUME NEW s \in Seq(Nat), NEW t \in Seq(Nat)
  PROVE  /\ s \o t \in Seq(Nat) /\ Len(s \o t) = Len(s) + Len(t)
         /\ \A i \in 1 .. Len(s) + Len(t) : (s \o t)[i] = IF i <= Len(s) THEN s[i] ELSE t[i - Len(s)]
<1>1. s \o t \in Seq(Nat) /\ Len(s \o t) = Len(s) + Len(t)
  BY ConcatProperties
<1>2. \A i \in 1 .. Len(s) + Len(t) : (s \o t)[i] = IF i <= Len(s) THEN s[i] ELSE t[i - Len(s)]
  BY ConcatProperties
<1> QED  BY <1>1, <1>2

\* A prefix and what follows it.
LEMMA Joined ==
  ASSUME NEW s \in Seq(Nat), NEW a \in Nat, NEW b \in Nat, a <= b, b <= Len(s)
  PROVE  SubSeq(s, 1, a) \o SubSeq(s, a + 1, b) = SubSeq(s, 1, b)
<1> DEFINE u == SubSeq(s, 1, a)
           v == SubSeq(s, a + 1, b)
           w == SubSeq(s, 1, b)
<1>1. u \in Seq(Nat) /\ Len(u) = a /\ \A i \in 1 .. a : u[i] = s[i]
  OBVIOUS
<1>2. v \in Seq(Nat) /\ Len(v) = b - a /\ \A i \in 1 .. b - a : v[i] = s[a + i]
  OBVIOUS
<1>3. w \in Seq(Nat) /\ Len(w) = b /\ \A i \in 1 .. b : w[i] = s[i]
  OBVIOUS
<1> HIDE DEF u, v, w
<1>4. /\ u \o v \in Seq(Nat) /\ Len(u \o v) = Len(u) + Len(v)
      /\ \A i \in 1 .. Len(u) + Len(v) : (u \o v)[i] = IF i <= Len(u) THEN u[i] ELSE v[i - Len(u)]
  <2>1. u \in Seq(Nat) /\ v \in Seq(Nat)
    BY <1>1, <1>2
  <2> QED  BY ONLY <2>1, ConcatIs, Zenon
<1> DEFINE x == u \o v
<1> HIDE DEF x
<1>5. x \in Seq(Nat) /\ Len(x) = b
  BY <1>1, <1>2, <1>4 DEF x
<1>6. ASSUME NEW i \in 1 .. b  PROVE x[i] = w[i]
  <2>1. x[i] = IF i <= a THEN u[i] ELSE v[i - a]
    <3>1. i \in 1 .. Len(u) + Len(v)
      BY <1>1, <1>2
    <3>2. x[i] = IF i <= Len(u) THEN u[i] ELSE v[i - Len(u)]
      BY <1>4, <3>1 DEF x
    <3> QED  BY <1>1, <3>2
  <2>2. CASE i <= a
    BY <1>1, <1>3, <2>1, <2>2
  <2>3. CASE i > a
    <3>1. i - a \in 1 .. b - a /\ a + (i - a) = i
      BY <2>3
    <3>2. v[i - a] = s[a + (i - a)]
      BY <1>2, <3>1
    <3> QED  BY <1>3, <2>1, <2>3, <3>1, <3>2
  <2> QED  BY <2>2, <2>3
<1>7. x = w
  BY <1>3, <1>5, <1>6, SeqEqual
<1> QED  BY <1>7 DEF x, u, v, w

\* The client has written every block but the current one.
LEMMA BlockBound ==
  ASSUME TftpInv, mode = "write"
  PROVE  /\ block = 0 \/ (block >= 1 /\ (block - 1) * BlkSize <= Len(written))
         /\ block * BlkSize \in Int /\ (block - 1) * BlkSize = block * BlkSize - BlkSize
         /\ Small => block <= Word
<1>1. block \in Nat /\ written \in Seq(Nat) /\ BlkSize \in Nat \ {0} /\ Word \in Nat \ {0, 1} /\ Len(written) \in Nat
  BY TftpAssumption DEF TftpInv, FileOK, SeenOK
<1>2. block * BlkSize \in Int /\ (block - 1) * BlkSize = block * BlkSize - BlkSize
  BY <1>1, Products
<1>3. block = 0 \/ (block >= 1 /\ (block - 1) * BlkSize <= Len(written))
  <2>1. CASE pc \in {"send", "recv"}
    BY <1>1, <1>2, <2>1 DEF TftpInv, Writes, WriteWaits, Waiting, AtLast
  <2>2. CASE pc \in {"open", "write"}
    BY <1>1, <1>2, <2>2 DEF TftpInv, Writes, WriteReady
  <2>3. CASE pc = "closed"
    BY <1>1, <1>2, <2>3 DEF TftpInv, Writes, WriteReady, AtLast
  <2> QED  BY <2>1, <2>2, <2>3 DEF TftpInv, Writes
<1>4. ASSUME Small, block > Word  PROVE FALSE
  <2>1. Word * BlkSize <= (block - 1) * BlkSize
    <3>1. Word \in Int /\ block - 1 \in Int /\ Word <= block - 1
      BY <1>1, <1>4
    <3> QED  BY ONLY <3>1, Products, Zenon
  <2>2. BlkSize * Word = Word * BlkSize /\ Word * BlkSize \in Int
    BY <1>1, Products
  <2> QED  BY <1>1, <1>2, <1>3, <1>4, <2>1, <2>2 DEF Small
<1> QED  BY <1>1, <1>2, <1>3, <1>4

LEMMA AdvanceRead ==
  ASSUME TftpInv, mode = "read", NEW p \in Port, NEW q \in Queries, q.port = p,
         NEW s, s = Advance(sess[p], q)
  PROVE  /\ s \in Sessions /\ s.store = <<>> /\ s.st # "free"
         /\ \/ s = sess[p]
            \/ s.st = "done" /\ s.blk = sess[p].blk
            \/ s.st = "read" /\ s.blk = sess[p].blk + 1 /\ s.blk <= block
<1>1. /\ sess[p] \in Sessions /\ sess[p].st \in {"read", "done"} /\ sess[p].store = <<>>
      /\ sess[p].blk \in 1 .. block /\ block \in 1 .. Word /\ sess[p].blk \in Nat
  BY SessionTypes DEF TftpInv, Queries, Query, Served, ReadSession, Reads
<1>2. q.op \in {"RRQ", "ACK", "ERR"} /\ (q.op = "ACK" => AckOf(q))
  BY DEF Queries, Query, ReadQuery
<1>3. CASE q.op = "ERR"
  <2>1. s = [sess[p] EXCEPT !.st = "done"]
    BY <1>3 DEF Advance
  <2> QED  BY <1>1, <2>1 DEF Sessions
<1>4. CASE q.op = "ACK" /\ sess[p].st = "read" /\ q.blk = sess[p].blk % Word
  <2>1. s = IF Len(FileBlock(sess[p].blk)) < BlkSize THEN [sess[p] EXCEPT !.st = "done"]
                                                   ELSE [sess[p] EXCEPT !.blk = @ + 1]
    BY <1>4 DEF Advance
  <2>2. CASE Len(FileBlock(sess[p].blk)) < BlkSize
    BY <1>1, <2>1, <2>2 DEF Sessions
  <2>3. CASE ~(Len(FileBlock(sess[p].blk)) < BlkSize)
    <3>1. PICK a \in 1 .. block : q.blk = a % Word /\ (a < block \/ Len(Chunk(file, a)) < BlkSize)
      BY <1>2, <1>4 DEF AckOf
    <3>2. a = sess[p].blk
      <4>1. a \in 1 .. Word /\ sess[p].blk \in 1 .. Word /\ a % Word = sess[p].blk % Word
        BY <1>1, <1>4, <3>1, TftpAssumption
      <4> QED  BY ONLY <4>1, SameWire, Zenon
    <3>3. a < block
      BY <2>3, <3>1, <3>2 DEF FileBlock, Chunk
    <3>4. s = [sess[p] EXCEPT !.blk = @ + 1]
      BY <2>1, <2>3
    <3> QED  BY <1>1, <1>4, <3>2, <3>3, <3>4 DEF Sessions
  <2> QED  BY <2>2, <2>3
<1>5. CASE q.op # "ERR" /\ ~(q.op = "ACK" /\ sess[p].st = "read" /\ q.blk = sess[p].blk % Word)
  <2>1. s = sess[p]
    BY <1>2, <1>5 DEF Advance
  <2> QED  BY <1>1, <2>1
<1> QED  BY <1>3, <1>4, <1>5

LEMMA AdvanceWrite ==
  ASSUME TftpInv, mode = "write", NEW p \in Port, NEW q \in Queries, q.port = p,
         NEW s, s = Advance(sess[p], q)
  PROVE  /\ s \in Sessions /\ s.st # "free" /\ (s.st = "done" => faults.hard)
         /\ s.st \in {"write", "kept", "done"} /\ (s # sess[p] => s.st # "done")
         /\ s = sess[p] \/ s.blk = sess[p].blk + 1
         /\ Small => /\ s.blk \in 0 .. block /\ Whole(s.blk)
                     /\ s.store = SubSeq(written, 1, Least(s.blk * BlkSize, Len(written)))
                     /\ s.st = "write" => s.blk * BlkSize <= Len(written)
<1>1. /\ sess[p] \in Sessions /\ sess[p].st \in {"write", "kept", "done"} /\ sess[p].blk \in Nat
      /\ sess[p].st = "done" => faults.hard
      /\ sess[p].store \in Seq(Nat) /\ WriteSession(p) /\ written \in Seq(Nat) /\ block \in Nat
  BY SessionTypes DEF TftpInv, Queries, Query, Served, WriteSession, SeenOK, FileOK
<1>2. q.op \in {"WRQ", "DATA"} /\ (q.op = "DATA" /\ Small => DataOf(q)) /\ q.data \in Seq(Nat) /\ q \in Packets
  BY DEF Queries, Query, WriteQuery, Packets
<1>3. CASE q.op = "DATA" /\ sess[p].st = "write" /\ q.blk = (sess[p].blk + 1) % Word
  <2> DEFINE k == sess[p].blk
             j == sess[p].blk + 1
  <2>1. s = [st |-> IF Len(q.data) < BlkSize THEN "kept" ELSE "write",
             blk |-> sess[p].blk + 1, store |-> sess[p].store \o q.data]
    BY <1>3 DEF Advance
  <2>2. sess[p].store \o q.data \in Seq(Nat)
    BY <1>1, <1>2, ConcatProperties
  <2>3. /\ s \in Sessions /\ s.st = (IF Len(q.data) < BlkSize THEN "kept" ELSE "write")
        /\ s.blk = j /\ s.store = sess[p].store \o q.data
    <3> DEFINE t == IF Len(q.data) < BlkSize THEN "kept" ELSE "write"
               n == sess[p].blk + 1
               d == sess[p].store \o q.data
    <3>1. t \in {"kept", "write"} /\ n \in Nat /\ d \in Seq(Nat) /\ s = [st |-> t, blk |-> n, store |-> d]
      BY <1>1, <2>1, <2>2
    <3> HIDE DEF t, n, d
    <3>2. s \in Sessions /\ s.st = t /\ s.blk = n /\ s.store = d
      BY <3>1 DEF Sessions
    <3> QED  BY <3>2 DEF t, n, d
  <2>4. ASSUME Small
        PROVE  /\ j \in 0 .. block /\ Whole(j)
               /\ sess[p].store \o q.data = SubSeq(written, 1, Least(j * BlkSize, Len(written)))
               /\ ~(Len(q.data) < BlkSize) => j * BlkSize <= Len(written)
    <3>1. PICK i \in 1 .. block : q.blk = i % Word /\ q.data = Chunk(written, i) /\ Whole(i)
      BY <1>2, <1>3, <2>4 DEF DataOf
    <3>2. /\ k \in 0 .. block /\ k * BlkSize <= Len(written)
          /\ sess[p].store = SubSeq(written, 1, Least(k * BlkSize, Len(written)))
      BY <1>1, <1>3, <2>4 DEF WriteSession
    <3> DEFINE a == k * BlkSize
               b == j * BlkSize
               l == Len(written)
    <3>3. /\ a \in Int /\ b = a + BlkSize /\ BlkSize \in Nat \ {0} /\ Word \in Nat \ {0, 1}
          /\ 0 * BlkSize <= a /\ 0 * BlkSize = 0 /\ Word * BlkSize \in Int /\ BlkSize * Word = Word * BlkSize
      <4>1. k \in Int /\ 0 \in Int /\ 0 <= k /\ Word \in Int
        BY <1>1, TftpAssumption
      <4>2. 0 * BlkSize <= a
        BY ONLY <4>1, Products, Zenon
      <4>3. a \in Int /\ b = a + BlkSize /\ BlkSize \in Nat \ {0} /\ Word \in Nat \ {0, 1}
        BY <4>1, Products
      <4>4. Word * BlkSize \in Int /\ BlkSize * Word = Word * BlkSize
        BY <4>1, Products
      <4> QED  BY <4>2, <4>3, <4>4
    <3>4. k < Word
      <4> SUFFICES ASSUME Word <= k  PROVE FALSE
        BY <1>1, <3>3
      <4>1. Word \in Int /\ k \in Int
        BY <1>1, <3>3
      <4>2. Word * BlkSize <= a
        BY ONLY <4>1, Products, Word <= k
      <4> DEFINE z == Word * BlkSize
      <4>3. z \in Int /\ z <= a /\ a \in Int /\ a <= l /\ l < z /\ l \in Nat
        BY <1>1, <2>4, <3>2, <3>3, <4>2 DEF Small
      <4> HIDE DEF a, z, l
      <4> QED  BY <4>3
    <3>5. j = i
      <4>1. block <= Word
        BY <2>4, BlockBound
      <4>2. i \in 1 .. Word /\ j \in 1 .. Word /\ i % Word = j % Word
        <5>0. block \in Nat /\ k \in Nat /\ Word \in Nat /\ i \in 1 .. block
          BY <1>1, <3>3
        <5>1. i \in 1 .. Word
          BY ONLY <4>1, <5>0
        <5>2. j \in 1 .. Word
          BY ONLY <3>4, <5>0
        <5>3. i % Word = j % Word
          BY <1>3, <3>1
        <5> QED  BY <5>1, <5>2, <5>3
      <4> QED  BY ONLY <4>2, SameWire, Zenon
    <3> HIDE DEF a, b, k, j
    <3>6. a \in Nat /\ b \in Nat /\ a <= l /\ Least(a, l) = a /\ l \in Nat
      BY <1>1, <3>2, <3>3, SMTT(30) DEF Least, a
    <3>7. Chunk(written, j) = SubSeq(written, a + 1, Least(b, l))
      <4>1. (k + 1) - 1 = k
        BY <1>1 DEF k
      <4> QED  BY <4>1 DEF Chunk, a, b, j, k
    <3>8. Least(b, l) \in Nat /\ a <= Least(b, l) /\ Least(b, l) <= l
      BY <3>3, <3>6 DEF Least
    <3>9. SubSeq(written, 1, a) \o SubSeq(written, a + 1, Least(b, l)) = SubSeq(written, 1, Least(b, l))
      BY <1>1, <3>6, <3>8, Joined
    <3>10. sess[p].store \o q.data = SubSeq(written, 1, Least(b, l))
      BY <3>1, <3>2, <3>5, <3>6, <3>7, <3>9 DEF a
    <3>11. l < b => Len(q.data) < BlkSize
      <4>1. j \in Nat \ {0} /\ (j - 1) * BlkSize = a
        BY <1>1 DEF j, k, a
      <4>2. l < b => Len(Chunk(written, j)) = IF (j - 1) * BlkSize <= l THEN l - (j - 1) * BlkSize ELSE 0
        BY <1>1, <4>1, ChunkIs DEF b
      <4>3. l < b => Len(Chunk(written, j)) = l - a
        BY <3>6, <4>1, <4>2
      <4> QED  BY <3>1, <3>3, <3>5, <3>6, <4>3
    <3> QED  BY <1>1, <3>1, <3>5, <3>6, <3>10, <3>11 DEF b
  <2> HIDE DEF j, k
  <2>5. (s # sess[p] => s.st # "done") /\ s.st \in {"write", "kept"}
    BY <2>3
  <2>6. Small => /\ s.blk \in 0 .. block /\ Whole(s.blk)
                 /\ s.store = SubSeq(written, 1, Least(s.blk * BlkSize, Len(written)))
                 /\ s.st = "write" => s.blk * BlkSize <= Len(written)
    BY <2>3, <2>4
  <2>7. s.blk = sess[p].blk + 1
    BY <2>3 DEF j
  <2> QED  BY <2>3, <2>5, <2>6, <2>7
<1>4. CASE ~(q.op = "DATA" /\ sess[p].st = "write" /\ q.blk = (sess[p].blk + 1) % Word)
  <2>1. s = sess[p]
    BY <1>2, <1>4 DEF Advance
  <2> QED  BY <1>1, <2>1 DEF WriteSession
<1> QED  BY <1>3, <1>4

LEMMA ServeInv == ASSUME TftpInv, Serve  PROVE TftpInv'
<1>1. /\ c2s # <<>> /\ Head(c2s).port \in Port /\ c2s' = Tail(c2s) /\ SameClient /\ faults' = faults
  BY DEF Serve, client, seen, SameClient
<1>2. mode \in {"read", "write"} /\ Head(c2s) \in Queries
  BY <1>1, Opened, Channels, TailThins
<1>3. PICK q \in Queries : q = Head(c2s)
  BY <1>2
<1>4. PICK p \in Port : p = q.port
  BY <1>1, <1>3
<1> DEFINE s == Advance(sess[p], q)
           again == q.op = "DATA" /\ s.st \in {"write", "kept"} /\ q.blk = s.blk % Word
<1>5. /\ sess' = [sess EXCEPT ![p] = s]
      /\ s2c' = s2c \/ (s.st # "done" /\ (s # sess[p] \/ again) /\ s2c' = Append(s2c, Current(p, s)))
  BY <1>3, <1>4 DEF Serve, Transmit
<1>6. mode = "read" =>
        /\ s \in Sessions /\ s.store = <<>> /\ s.st # "free"
        /\ \/ s = sess[p]
           \/ s.st = "done" /\ s.blk = sess[p].blk
           \/ s.st = "read" /\ s.blk = sess[p].blk + 1 /\ s.blk <= block
  BY <1>4, AdvanceRead
<1>7. mode = "write" =>
         /\ s \in Sessions /\ s.st # "free" /\ (s.st = "done" => faults.hard)
         /\ s.st \in {"write", "kept", "done"} /\ (s # sess[p] => s.st # "done")
         /\ s = sess[p] \/ s.blk = sess[p].blk + 1
         /\ Small => /\ s.blk \in 0 .. block /\ Whole(s.blk)
                     /\ s.store = SubSeq(written, 1, Least(s.blk * BlkSize, Len(written)))
                     /\ s.st = "write" => s.blk * BlkSize <= Len(written)
  BY <1>4, AdvanceWrite
<1>8. mode = "read" => q.op # "DATA"
  BY DEF Queries, Query, ReadQuery
<1> HIDE DEF s
<1>9. s \in Sessions /\ sess[p].blk \in Nat /\ s.blk \in Nat /\ block \in Nat /\ sess[p].st # "free"
  BY <1>2, <1>4, <1>6, <1>7, SessionTypes DEF TftpInv, FileOK, Sessions, Queries, Query
<1>10. sess'[p] = s /\ (\A r \in Port : r # p => sess'[r] = sess[r]) /\ sess' \in [Port -> Sessions]
  BY <1>5, <1>9 DEF TftpInv, ServerOK
<1>11. s.st # "free" /\ sess[p].blk <= s.blk
  BY <1>2, <1>6, <1>7, <1>9
<1>12. NetStep
  <2>1. \A r \in Port : sess[r].st # "free" => sess'[r].st # "free" /\ sess[r].blk <= sess'[r].blk
    BY <1>9, <1>10, <1>11, SessionTypes DEF TftpInv
  <2> QED  BY <1>1, <1>2, <1>10, <2>1 DEF NetStep, TftpInv, ServerOK
<1>13. SessionStep(p)
  <2>1. \/ s2c' = s2c
        \/ /\ s2c' = Append(s2c, Current(p, sess'[p]))
           /\ mode = "read" => sess'[p].st = "read" /\ sess'[p].blk >= 1
           /\ mode = "write" => sess'[p].st \in {"write", "kept"}
    <3>1. CASE s2c' = s2c
      BY <3>1
    <3>2. CASE s.st # "done" /\ (s # sess[p] \/ again) /\ s2c' = Append(s2c, Current(p, s))
      <4>1. mode = "read" => s.st = "read" /\ s.blk >= 1
        BY <1>6, <1>8, <1>9, <3>2
      <4>2. mode = "write" => s.st \in {"write", "kept"}
        BY <1>7, <3>2
      <4> QED  BY <1>10, <3>2, <4>1, <4>2
    <3> QED  BY <1>5, <3>1, <3>2
  <2>2. s.blk = sess[p].blk \/ (s.blk = sess[p].blk + 1 /\ (Small => s.blk <= block))
    BY <1>2, <1>6, <1>7, <1>9
  <2> QED  BY <1>10, <1>12, <2>1, <2>2 DEF SessionStep
<1>14. ASSUME mode = "read"  PROVE ReadSession(p)'
  <2>1. ReadSession(p)
    BY <1>14 DEF TftpInv, Served
  <2>2. s.st \in {"read", "done"} /\ s.blk \in 1 .. block /\ s.store = <<>>
    BY <1>6, <1>9, <1>14, <2>1 DEF ReadSession
  <2> QED  BY <1>1, <1>10, <2>2 DEF ReadSession, SameClient
<1>15. ASSUME mode = "write"  PROVE WriteSession(p)'
  <2>1. PICK k \in Nat : k = s.blk
    BY <1>9
  <2>2. /\ s.st \in {"write", "kept", "done"} /\ (s.st = "done" => faults.hard)
        /\ Small => /\ k \in 0 .. block /\ Whole(k)
                    /\ s.store = SubSeq(written, 1, Least(k * BlkSize, Len(written)))
                    /\ s.st = "write" => k * BlkSize <= Len(written)
    BY <1>7, <1>15, <2>1
  <2>3. /\ block' = block /\ written' = written /\ call' = call /\ faults' = faults
        /\ (Whole(k) => Whole(k)') /\ (Small' => Small)
    BY <1>1 DEF SameClient, Whole, Small
  <2> QED  BY <1>10, <2>1, <2>2, <2>3 DEF WriteSession, Whole
<1>16. Served'
  BY <1>10, <1>12, <1>14, <1>15, ServedBut
<1> QED  BY <1>1, <1>13, <1>16, SessionStepInv

-----------------------------------------------------------------------------
(* The client: calls that do not touch the network.                        *)

LEMMA InitInv == ASSUME Init  PROVE TftpInv
<1>1. /\ mode = "none" /\ block = 0 /\ start = 0 /\ end = 0 /\ foffs = 0
      /\ eof = FALSE /\ sin_port = WellKnown /\ buf = <<>>
      /\ pc = "none" /\ call = "open" /\ pkt = [op |-> "RRQ", blk |-> 0, data |-> <<>>] /\ nb = 0
      /\ c2s = <<>> /\ s2c = <<>>
      /\ sess = [p \in Port |-> [st |-> "free", blk |-> 0, store |-> <<>>]]
      /\ faults = [n |-> 0, hard |-> FALSE]
      /\ got = {} /\ short = FALSE /\ written = <<>>
  BY DEF Init
<1>2. PICK n \in FileLen : file = [i \in 1 .. n |-> i]
  BY DEF Init
<1>3. file \in Seq(Nat)
  <2>1. n \in Nat
    BY TftpAssumption
  <2>2. file \in [1 .. n -> Nat]
    BY <1>2, <2>1
  <2> QED  BY <2>1, <2>2
<1>4. <<>> \in Seq(Nat) /\ <<>> \in Seq(Queries) /\ <<>> \in Seq(Replies) /\ WellKnown \notin Port
  BY TftpAssumption DEF WellKnown
<1>5. FileOK /\ CallOK /\ SeenOK
  <2>1. pkt \in [op : {"RRQ", "WRQ", "ACK", "DATA"}, blk : Nat, data : Seq(Nat)]
    BY <1>1, <1>4
  <2>2. FileOK
    <3>1. eof \in BOOLEAN /\ buf \in Seq(Nat)
      BY <1>1, <1>4, Zenon
    <3>2. 0 \in Nat /\ 0 \in Int
      OBVIOUS
    <3> QED  BY <1>1, <3>1, <3>2, Zenon DEF FileOK
  <2>3. CallOK
    BY <1>1, <2>1 DEF CallOK
  <2>4. SeenOK
    BY <1>1, <1>4 DEF SeenOK
  <2> QED  BY <2>2, <2>3, <2>4
<1>6. ServerOK
  <2>1. sess \in [Port -> Sessions]
    BY <1>1, <1>4 DEF Sessions
  <2>2. faults \in [n : Nat, hard : BOOLEAN]
    BY <1>1
  <2> QED  BY <1>3, <2>1, <2>2 DEF ServerOK
<1>7. Fresh /\ Known /\ Served
  BY <1>1, <1>4 DEF Fresh, Known, Served
<1>8. Order /\ Reads /\ Writes /\ Delivered
  BY <1>1, <1>4 DEF Order, InStep, Reads, Writes, Delivered
<1> QED  BY <1>1, <1>4, <1>5, <1>6, <1>7, <1>8 DEF TftpInv

\* Server and network stay as they are.
LocalStep ==
  /\ mode' = mode /\ file' = file /\ block' \in Nat /\ block <= block' /\ sess' = sess
  /\ c2s' = c2s /\ s2c' = s2c /\ sin_port' = sin_port /\ eof' = eof /\ (Small' => Small)
  /\ faults' \in [n : Nat, hard : BOOLEAN] /\ (faults.hard => faults'.hard)

LEMMA SameKeeps ==
  ASSUME mode' = mode, file' = file, block' \in Nat, block <= block', sess' = sess, Small' => Small,
         faults.hard => faults'.hard, TftpInv
  PROVE  Keeps
<1>1. \A p \in Port : sess[p].blk \in Nat /\ sess[p].blk <= sess[p].blk
  BY SessionTypes DEF TftpInv
<1> QED  BY <1>1 DEF Keeps

LEMMA SameData ==
  ASSUME written' = written, call # "close" \/ (call' = call /\ block' = block)
  PROVE  KeepsData
BY DEF KeepsData, Whole

LEMMA LocalKeeps ==
  ASSUME TftpInv, LocalStep, KeepsData
  PROVE  ServerOK' /\ Known' /\ c2s' \in Seq(Queries') /\ s2c' \in Seq(Replies') /\ Served'
<1>1. Keeps
  BY SameKeeps DEF LocalStep
<1>2. ServerOK'
  BY DEF LocalStep, TftpInv, ServerOK
<1>3. Known'
  BY DEF LocalStep, TftpInv, Known
<1>4. c2s' \in Seq(Queries') /\ s2c' \in Seq(Replies')
  BY <1>1, Channels, QueriesKept, RepliesKept, SeqSub DEF LocalStep
<1>5. Served'
  BY <1>1, ServedKept DEF LocalStep
<1> QED  BY <1>2, <1>3, <1>4, <1>5

LEMMA LocalOrder ==
  ASSUME TftpInv, LocalStep, block' = block, (Waiting' <=> Waiting)
  PROVE  Order'
<1>1. s2c' \in Seq(Packets) /\ Thins(s2c', s2c)
  BY Channels, ThinsSelf DEF LocalStep
<1> QED  BY <1>1, OrderThins DEF LocalStep

\* The client goes on to the next block: everybody is one block behind now.
LEMMA NextOrder ==
  ASSUME TftpInv, LocalStep, block' = block + 1, ~Waiting, Waiting'
  PROVE  Order'
<1> SUFFICES ASSUME InStep'
             PROVE  /\ sess'[sin_port'].blk \in Lo' .. block'
                    /\ Ordered(s2c', sin_port', {Lo' % Word, sess'[sin_port'].blk % Word}, block' % Word)
  BY DEF Order
<1>1. InStep
  BY DEF InStep, LocalStep
<1>2. Lo = block /\ Lo' = block /\ block \in Nat
  BY DEF Lo, TftpInv, FileOK
<1>3. sess[sin_port].blk = block /\ Ordered(s2c, sin_port, {block % Word}, block % Word)
  <2>1. /\ sess[sin_port].blk \in Lo .. block
        /\ Ordered(s2c, sin_port, {Lo % Word, sess[sin_port].blk % Word}, block % Word)
    BY <1>1 DEF TftpInv, Order
  <2>2. sess[sin_port].blk = block
    BY <1>2, <2>1
  <2>3. {Lo % Word, sess[sin_port].blk % Word} = {block % Word}
    BY <1>2, <2>2
  <2> QED  BY <2>1, <2>2, <2>3
<1>4. block % Word # (block + 1) % Word
  BY <1>2, InARow
<1>5. Ordered(s2c, sin_port, {block % Word}, (block + 1) % Word)
  BY <1>3, <1>4 DEF Ordered
<1>6. /\ sess'[sin_port'].blk = block /\ s2c' = s2c /\ sin_port' = sin_port
      /\ block \in Lo' .. block' /\ {Lo' % Word, sess'[sin_port'].blk % Word} = {block % Word}
  BY <1>2, <1>3 DEF LocalStep
<1> QED  BY <1>5, <1>6

\* A call begins or ends, and nothing of the file changes.
QuietStep ==
  /\ mode' = mode /\ block' = block /\ start' = start /\ end' = end /\ eof' = eof /\ sin_port' = sin_port
  /\ buf' = buf /\ call' = call /\ pkt' = pkt /\ c2s' = c2s /\ s2c' = s2c /\ file' = file /\ sess' = sess
  /\ faults' = faults /\ got' = got /\ written' = written
  /\ ~Waiting /\ ~Waiting' /\ mode # "none"
  /\ foffs' \in Nat /\ nb' \in Nat /\ short' \in BOOLEAN
  /\ pc' \in {"open", "read", "write"}

LEMMA QuietStepInv == ASSUME TftpInv, QuietStep, Reads', Writes'  PROVE TftpInv'
<1>1. LocalStep
  BY DEF QuietStep, LocalStep, TftpInv, FileOK, ServerOK, Small
<1>2. KeepsData
  BY SameData DEF QuietStep
<1>3. ServerOK' /\ Known' /\ c2s' \in Seq(Queries') /\ s2c' \in Seq(Replies') /\ Served'
  BY <1>1, <1>2, LocalKeeps
<1>4. Order'
  BY <1>1, LocalOrder DEF QuietStep
<1>5. FileOK' /\ CallOK' /\ SeenOK' /\ Fresh' /\ Delivered'
  BY DEF QuietStep, TftpInv, FileOK, CallOK, SeenOK, Fresh, Delivered
<1> QED  BY <1>3, <1>4, <1>5 DEF TftpInv

LEMMA ReadInv == ASSUME TftpInv, NEW n \in ReadLen, Read(n)  PROVE TftpInv'
<1>1. QuietStep /\ mode = "read" /\ pc = "open" /\ pc' = "read" /\ foffs' = foffs /\ short' = short
  BY TftpAssumption DEF Read, tf, net, server, seen, QuietStep, Waiting, TftpInv, FileOK, SeenOK
<1>2. Reads'
  BY <1>1 DEF TftpInv, Reads, ReadWaits, ReadReady, ReadEnds, QuietStep
<1>3. Writes'
  BY <1>1 DEF Writes, QuietStep
<1> QED  BY <1>1, <1>2, <1>3, QuietStepInv

LEMMA ReadReturnInv == ASSUME TftpInv, ReadReturn  PROVE TftpInv'
<1>1. /\ pc = "read" /\ (nb = 0 \/ start >= end) /\ pc' = "open" /\ short' = (nb > 0) /\ nb' = 0
      /\ mode = "read" /\ foffs' = foffs
  BY DEF ReadReturn, tf, TftpInv, FileOK, Fresh, Writes
<1>2. QuietStep
  BY <1>1 DEF ReadReturn, tf, net, server, QuietStep, Waiting, TftpInv, FileOK
<1>3. start \in Int /\ end \in Int /\ nb \in Nat
  BY DEF TftpInv, FileOK, CallOK
<1>4. Reads'
  <2>1. ReadWaits' /\ ReadReady'
    BY <1>1, <1>2 DEF TftpInv, Reads, ReadWaits, ReadReady, QuietStep
  <2>2. short' => start >= end
    <3>1. CASE nb = 0
      <4>1. ~(nb > 0)
        BY <3>1
      <4> QED  BY <1>1, <4>1, Zenon
    <3> QED  BY <1>1, <3>1, Zenon
  <2>3. ReadEnds'
    BY <1>1, <1>2, <2>2 DEF TftpInv, Reads, ReadEnds, QuietStep
  <2> QED  BY <1>1, <1>2, <2>1, <2>3 DEF TftpInv, Reads, QuietStep
<1>5. Writes'
  BY <1>1, <1>2 DEF Writes, QuietStep
<1> QED  BY <1>2, <1>4, <1>5, QuietStepInv

LEMMA LSeekInv == ASSUME TftpInv, NEW o \in SeekTo, LSeek(o)  PROVE TftpInv'
<1>1. /\ QuietStep /\ mode = "read" /\ pc = "open" /\ pc' = "open" /\ foffs' >= start /\ short' = short
  BY TftpAssumption DEF LSeek, net, server, seen, QuietStep, Waiting, TftpInv, FileOK, CallOK, SeenOK
<1>2. Reads'
  BY <1>1 DEF TftpInv, Reads, ReadWaits, ReadReady, ReadEnds, QuietStep
<1>3. Writes'
  BY <1>1 DEF Writes, QuietStep
<1> QED  BY <1>1, <1>2, <1>3, QuietStepInv

LEMMA WriteInv == ASSUME TftpInv, NEW n \in WriteLen, Write(n)  PROVE TftpInv'
<1>1. QuietStep /\ mode = "write" /\ pc = "open" /\ pc' = "write"
  BY TftpAssumption DEF Write, tf, net, server, seen, QuietStep, Waiting, TftpInv, FileOK, SeenOK
<1>2. Writes'
  BY <1>1 DEF TftpInv, Writes, WriteWaits, WriteReady, QuietStep
<1>3. Reads'
  BY <1>1 DEF Reads, QuietStep
<1> QED  BY <1>1, <1>2, <1>3, QuietStepInv

LEMMA WriteReturnInv == ASSUME TftpInv, WriteReturn  PROVE TftpInv'
<1>1. pc = "write" /\ pc' = "open" /\ mode = "write"
  BY DEF WriteReturn, TftpInv, FileOK, Fresh, Reads
<1>2. QuietStep
  BY <1>1 DEF WriteReturn, tf, net, server, seen, QuietStep, Waiting, TftpInv, FileOK, CallOK, SeenOK
<1>3. Writes'
  BY <1>1, <1>2 DEF TftpInv, Writes, WriteWaits, WriteReady, QuietStep
<1>4. Reads'
  BY <1>1, <1>2 DEF Reads, QuietStep
<1> QED  BY <1>2, <1>3, <1>4, QuietStepInv

LEMMA PktType ==
  ASSUME NEW o \in {"RRQ", "WRQ", "ACK", "DATA"}, NEW b \in Nat, NEW d \in Seq(Nat)
  PROVE  [op |-> o, blk |-> b, data |-> d] \in [op : {"RRQ", "WRQ", "ACK", "DATA"}, blk : Nat, data : Seq(Nat)]
OBVIOUS

LEMMA OpenInv == ASSUME TftpInv, Open  PROVE TftpInv'
<1>1. /\ pc' = "send" /\ call' = "open"
      /\ \/ /\ mode' = "read" /\ block' = 1 /\ pkt' = [op |-> "RRQ", blk |-> 0, data |-> <<>>]
         \/ /\ mode' = "write" /\ block' = 0 /\ pkt' = [op |-> "WRQ", blk |-> 0, data |-> <<>>]
  BY DEF Open, Request
<1>2. /\ start' = start /\ end' = end /\ foffs' = foffs /\ eof' = eof /\ sin_port' = sin_port /\ buf' = buf
      /\ nb' = nb /\ c2s' = c2s /\ s2c' = s2c /\ file' = file /\ sess' = sess /\ faults' = faults
      /\ got' = got /\ short' = short /\ written' = written /\ pc = "none"
  BY DEF Open, net, server, seen
<1>3. /\ start = 0 /\ end = 0 /\ foffs = 0 /\ ~eof /\ sin_port = WellKnown /\ c2s = <<>> /\ s2c = <<>>
      /\ ~short /\ written = <<>> /\ \A p \in Port : sess[p].st = "free" /\ sess[p].store = <<>>
  BY <1>2 DEF TftpInv, FileOK, Reads, Writes, Fresh
<1>4. WellKnown \notin Port /\ <<>> \in Seq(Nat) /\ Word \in Nat \ {0, 1}
  BY TftpAssumption DEF WellKnown
<1>5. FileOK' /\ SeenOK' /\ ServerOK'
  <2>1. FileOK'
    BY <1>1, <1>2 DEF TftpInv, FileOK
  <2> QED  BY <1>2, <2>1 DEF TftpInv, SeenOK, ServerOK
<1>6. CallOK'
  <2>1. pkt' \in [op : {"RRQ", "WRQ", "ACK", "DATA"}, blk : Nat, data : Seq(Nat)]
    <3>1. 0 \in Nat
      OBVIOUS
    <3>2. /\ [op |-> "RRQ", blk |-> 0, data |-> <<>>] \in [op : {"RRQ", "WRQ", "ACK", "DATA"}, blk : Nat, data : Seq(Nat)]
          /\ [op |-> "WRQ", blk |-> 0, data |-> <<>>] \in [op : {"RRQ", "WRQ", "ACK", "DATA"}, blk : Nat, data : Seq(Nat)]
      <4>1. "RRQ" \in {"RRQ", "WRQ", "ACK", "DATA"} /\ "WRQ" \in {"RRQ", "WRQ", "ACK", "DATA"}
        OBVIOUS
      <4> QED  BY ONLY <1>4, <3>1, <4>1, PktType, Zenon
    <3> QED  BY ONLY <1>1, <3>2, Zenon
  <2> QED  BY <1>1, <1>2, <2>1 DEF TftpInv, CallOK
<1>7. Fresh' /\ Known' /\ Order'
  BY <1>1, <1>2, <1>3, <1>4 DEF Fresh, Known, Order, InStep
<1>8. c2s' \in Seq(Queries') /\ s2c' \in Seq(Replies')
  BY <1>2, <1>3
<1>9. Served'
  <2> SUFFICES ASSUME NEW p \in Port  PROVE ReadSession(p)' /\ WriteSession(p)'
    BY DEF Served
  <2> QED  BY <1>2, <1>3 DEF ReadSession, WriteSession
<1>10. Reads'
  <2> SUFFICES ASSUME mode' = "read"
               PROVE  /\ pc' \in {"open", "read", "send", "recv", "closed"} /\ block' \in 1 .. Word
                      /\ foffs' >= start' /\ written' = <<>> /\ ReadWaits' /\ ReadReady' /\ ReadEnds'
    BY DEF Reads
  <2>1. block' = 1 /\ pkt' = [op |-> "RRQ", blk |-> 0, data |-> <<>>]
    BY <1>1
  <2>2. (block' - 1) * BlkSize = 0
    BY <2>1, Products
  <2>3. ReadWaits'
    BY <1>1, <1>2, <1>3, <2>1, <2>2 DEF ReadWaits
  <2>4. ReadReady' /\ ReadEnds'
    BY <1>1, <1>2, <1>3 DEF ReadReady, ReadEnds
  <2> QED  BY <1>1, <1>2, <1>3, <1>4, <2>1, <2>3, <2>4
<1>11. Writes'
  BY <1>1, <1>2, <1>3 DEF Writes, WriteWaits, WriteReady
<1>12. Delivered'
  BY <1>2 DEF TftpInv, Delivered
<1> QED  BY <1>5, <1>6, <1>7, <1>8, <1>9, <1>10, <1>11, <1>12 DEF TftpInv

LEMMA ReadLoopInv == ASSUME TftpInv, ReadLoop  PROVE TftpInv'
<1> DEFINE n == IF foffs >= start /\ foffs < end THEN Least(nb, end - foffs) ELSE 0
<1>1. /\ pc = "read" /\ nb > 0 /\ start < end
      /\ got' = got \cup {<<foffs + i, buf[foffs - start + i]>> : i \in 1 .. n}
      /\ nb' = nb - n /\ foffs' = foffs + n
      /\ \/ /\ foffs + n >= end /\ pc' = "send" /\ call' = "read" /\ block' = block + 1
            /\ pkt' = [op |-> "ACK", blk |-> block, data |-> <<>>]
         \/ /\ ~(foffs + n >= end) /\ pc' = pc /\ call' = call /\ block' = block /\ pkt' = pkt
      /\ mode' = mode /\ start' = start /\ end' = end /\ eof' = eof /\ sin_port' = sin_port /\ buf' = buf
      /\ c2s' = c2s /\ s2c' = s2c /\ file' = file /\ sess' = sess /\ faults' = faults
      /\ short' = short /\ written' = written
  BY DEF ReadLoop, Request, AckBlock, net, server
<1>2. /\ start \in Int /\ end \in Int /\ foffs \in Nat /\ nb \in Nat /\ block \in Nat /\ eof \in BOOLEAN
      /\ mode = "read" /\ written = <<>>
  BY <1>1 DEF TftpInv, FileOK, CallOK, Fresh, Reads, Writes
<1>3. /\ sin_port \in Port /\ buf = Chunk(file, block) /\ start = (block - 1) * BlkSize /\ foffs >= start
      /\ end = start + Len(buf) /\ (~eof => Len(buf) = BlkSize) /\ block < Word /\ block \in 1 .. Word
  BY <1>1, <1>2 DEF TftpInv, Reads, ReadReady
<1>4. n \in Nat /\ n <= nb /\ (n > 0 => foffs + n <= end)
  BY <1>1, <1>2 DEF Least
<1> HIDE DEF n
<1>5. LocalStep
  BY <1>1, <1>2 DEF LocalStep, TftpInv, ServerOK, Small
<1>6. KeepsData
  BY <1>2 DEF KeepsData
<1>7. ServerOK' /\ Known' /\ c2s' \in Seq(Queries') /\ s2c' \in Seq(Replies') /\ Served'
  BY <1>5, <1>6, LocalKeeps
<1>8. Order'
  <2>1. CASE block' = block + 1 /\ pc' = "send"
    BY <1>1, <1>5, <2>1, NextOrder DEF Waiting
  <2>2. CASE block' = block /\ pc' = pc
    BY <1>5, <2>2, LocalOrder DEF Waiting
  <2> QED  BY <1>1, <2>1, <2>2
<1>9. FileOK' /\ SeenOK' /\ Fresh'
  BY <1>1, <1>2, <1>4 DEF TftpInv, FileOK, SeenOK, Fresh
<1>10. CallOK'
  <2>1. <<>> \in Seq(Nat)
    OBVIOUS
  <2>2. [op |-> "ACK", blk |-> block, data |-> <<>>] \in [op : {"RRQ", "WRQ", "ACK", "DATA"}, blk : Nat, data : Seq(Nat)]
    BY <1>2, <2>1
  <2>3. nb' \in Nat
    BY <1>1, <1>2, <1>4
  <2> QED  BY <1>1, <2>2, <2>3 DEF TftpInv, CallOK
<1>11. Delivered'
  <2> SUFFICES ASSUME NEW i \in 1 .. n
               PROVE  foffs + i \in DOMAIN file /\ file[foffs + i] = buf[foffs - start + i]
    BY <1>1 DEF TftpInv, Delivered
  <2>1. file \in Seq(Nat)
    BY DEF TftpInv, ServerOK
  <2>2. block \in Nat \ {0}
    BY <1>2, <1>3
  <2> DEFINE j == foffs - start + i
             a == (block - 1) * BlkSize
             c == Chunk(file, block)
  <2>3. c \in Seq(Nat) /\ \A m \in 1 .. Len(c) : a + m \in 1 .. Len(file) /\ c[m] = file[a + m]
    BY <2>1, <2>2, ChunkIs
  <2>4. c = buf /\ a = start /\ a \in Int
    BY <1>2, <1>3
  <2> HIDE DEF a, c
  <2>5. j \in 1 .. Len(buf) /\ start + j = foffs + i
    BY <1>2, <1>3, <1>4, <2>3, <2>4, SMTT(30)
  <2>6. a + j \in 1 .. Len(file) /\ c[j] = file[a + j]
    BY <2>3, <2>4, <2>5
  <2> QED  BY <2>1, <2>4, <2>5, <2>6
<1>12. Reads'
  <2>1. ReadEnds /\ ReadWaits /\ ReadReady /\ ~short
    BY <1>1, <1>2 DEF TftpInv, Reads, ReadEnds
  <2>2. CASE block' = block + 1 /\ pc' = "send"
    <3>1. /\ foffs' >= end /\ call' = "read" /\ block' >= 2 /\ block' \in 1 .. Word
          /\ pkt' = [op |-> "ACK", blk |-> block' - 1, data |-> <<>>]
      <4>1. /\ foffs + n >= end /\ call' = "read"
            /\ pkt' = [op |-> "ACK", blk |-> block, data |-> <<>>]
        <5>1. pc' # pc
          BY <1>1, <2>2
        <5> QED  BY <1>1, <5>1
      <4>2. block' - 1 = block /\ block' >= 2 /\ block' \in 1 .. Word
        BY <1>2, <1>3, <2>2, TftpAssumption
      <4> QED  BY <1>1, <4>1, <4>2
    <3>2. ~eof => end = (block' - 1) * BlkSize
      <4>1. block' - 1 = block
        BY <1>2, <2>2
      <4>2. (block - 1) * BlkSize = block * BlkSize - BlkSize /\ block * BlkSize \in Int /\ BlkSize \in Nat
        BY <1>2, Products
      <4> QED  BY <1>2, <1>3, <4>1, <4>2
    <3>3. ReadWaits'
      BY <1>1, <1>3, <2>2, <3>1, <3>2 DEF ReadWaits
    <3>4. ReadReady'
      BY <2>2 DEF ReadReady
    <3>5. ReadEnds'
      BY <1>1, <2>1, <2>2 DEF ReadEnds
    <3>6. foffs' >= start'
      BY <1>1, <1>2, <1>3, <1>4
    <3> QED  BY <1>1, <1>2, <2>2, <3>1, <3>3, <3>4, <3>5, <3>6 DEF Reads
  <2>3. CASE block' = block /\ pc' = pc /\ call' = call /\ pkt' = pkt
    <3>1. ReadWaits' /\ ReadReady'
      BY <1>1, <2>1, <2>3 DEF ReadWaits, ReadReady, Waiting
    <3>2. ReadEnds'
      BY <1>1, <2>1, <2>3 DEF ReadEnds
    <3>3. foffs' >= start'
      BY <1>1, <1>2, <1>3, <1>4
    <3> QED  BY <1>1, <1>2, <1>3, <2>3, <3>1, <3>2, <3>3 DEF Reads
  <2> QED  BY <1>1, <2>2, <2>3
<1>13. Writes'
  BY <1>1, <1>2 DEF Writes
<1> QED  BY <1>5, <1>7, <1>8, <1>9, <1>10, <1>11, <1>12, <1>13 DEF TftpInv

LEMMA NatProduct == ASSUME NEW k \in Nat  PROVE k * BlkSize \in Nat
<1> DEFINE s == BlkSize
<1>1. s \in Nat
  BY TftpAssumption
<1> HIDE DEF s
<1>2. k * s \in Nat
  BY <1>1, SMT
<1> QED  BY <1>2 DEF s

LEMMA Suffix ==
  ASSUME NEW s \in Seq(Nat), NEW k \in 0 .. Len(s)
  PROVE  /\ SubSeq(s, k + 1, Len(s)) \in Seq(Nat) /\ Len(SubSeq(s, k + 1, Len(s))) = Len(s) - k
         /\ \A i \in 1 .. Len(s) - k : SubSeq(s, k + 1, Len(s))[i] = s[k + i]
         /\ k = 0 => SubSeq(s, 1, Len(s)) = s
<1>1. \A i \in k + 1 .. Len(s) : s[i] \in Nat
  OBVIOUS
<1>2. /\ SubSeq(s, k + 1, Len(s)) \in Seq(Nat)
      /\ Len(SubSeq(s, k + 1, Len(s))) = (IF k + 1 <= Len(s) THEN Len(s) - (k + 1) + 1 ELSE 0)
      /\ \A i \in 1 .. Len(s) - (k + 1) + 1 : SubSeq(s, k + 1, Len(s))[i] = s[(k + 1) + i - 1]
  BY <1>1, SubSeqProperties
<1>3. /\ SubSeq(s, k + 1, Len(s)) \in Seq(Nat) /\ Len(SubSeq(s, k + 1, Len(s))) = Len(s) - k
      /\ \A i \in 1 .. Len(s) - k : SubSeq(s, k + 1, Len(s))[i] = s[k + i]
  BY <1>2
<1>4. ASSUME k = 0  PROVE SubSeq(s, 1, Len(s)) = s
  <2> DEFINE u == SubSeq(s, 1, Len(s))
  <2>1. u \in Seq(Nat) /\ Len(u) = Len(s) /\ \A i \in 1 .. Len(u) : u[i] = s[i]
    BY <1>3, <1>4
  <2> HIDE DEF u
  <2>2. u = s
    BY <2>1, SeqEqual
  <2> QED  BY <2>2 DEF u
<1> QED  BY <1>3, <1>4

LEMMA SubSeqIs ==
  ASSUME NEW s \in Seq(Nat), NEW a \in Nat, NEW b \in 0 .. Len(s)
  PROVE  /\ SubSeq(s, a + 1, b) \in Seq(Nat) /\ Len(SubSeq(s, a + 1, b)) = (IF a + 1 <= b THEN b - a ELSE 0)
         /\ \A i \in 1 .. b - a : SubSeq(s, a + 1, b)[i] = s[a + i]
<1>1. \A i \in a + 1 .. b : s[i] \in Nat
  OBVIOUS
<1>2. /\ SubSeq(s, a + 1, b) \in Seq(Nat)
      /\ Len(SubSeq(s, a + 1, b)) = (IF a + 1 <= b THEN b - (a + 1) + 1 ELSE 0)
      /\ \A i \in 1 .. b - (a + 1) + 1 : SubSeq(s, a + 1, b)[i] = s[(a + 1) + i - 1]
  BY <1>1, SubSeqProperties
<1>3. b - (a + 1) + 1 = b - a /\ \A i \in 1 .. b - a : (a + 1) + i - 1 = a + i
  OBVIOUS
<1> QED  BY <1>2, <1>3

\* A sequence that is extended keeps what it had.
LEMMA Extended ==
  ASSUME NEW s \in Seq(Nat), NEW t \in Seq(Nat)
  PROVE  /\ s \o t \in Seq(Nat) /\ Len(s \o t) = Len(s) + Len(t)
         /\ \A a \in Nat, b \in 0 .. Len(s) : SubSeq(s \o t, a + 1, b) = SubSeq(s, a + 1, b)
         /\ \A a \in 0 .. Len(s) : SubSeq(s \o t, a + 1, Len(s) + Len(t)) = SubSeq(s, a + 1, Len(s)) \o t
<1> DEFINE w == s \o t
<1>1. w \in Seq(Nat) /\ Len(w) = Len(s) + Len(t)
  BY ConcatIs
<1>2. \A i \in 1 .. Len(s) + Len(t) : w[i] = IF i <= Len(s) THEN s[i] ELSE t[i - Len(s)]
  BY ConcatIs
<1> HIDE DEF w
<1>3. ASSUME NEW a \in Nat, NEW b \in 0 .. Len(s)  PROVE SubSeq(w, a + 1, b) = SubSeq(s, a + 1, b)
  <2> DEFINE u == SubSeq(w, a + 1, b)
             v == SubSeq(s, a + 1, b)
  <2>0. b \in 0 .. Len(w)
    BY <1>1
  <2>1. u \in Seq(Nat) /\ Len(u) = (IF a + 1 <= b THEN b - a ELSE 0) /\ \A i \in 1 .. b - a : u[i] = w[a + i]
    BY ONLY <1>1, <2>0, a \in Nat, SubSeqIs, Zenon
  <2>2. v \in Seq(Nat) /\ Len(v) = (IF a + 1 <= b THEN b - a ELSE 0) /\ \A i \in 1 .. b - a : v[i] = s[a + i]
    BY SubSeqIs
  <2> HIDE DEF u, v
  <2>3. ASSUME NEW i \in 1 .. b - a  PROVE u[i] = v[i]
    <3>1. a + i \in 1 .. Len(s) + Len(t) /\ a + i <= Len(s)
      BY <1>1
    <3>2. w[a + i] = s[a + i]
      BY <1>2, <3>1
    <3> QED  BY <2>1, <2>2, <3>2
  <2>4. u = v
    <3>1. Len(u) = Len(v) /\ \A i \in 1 .. Len(u) : u[i] = v[i]
      BY <2>1, <2>2, <2>3
    <3> QED  BY <2>1, <2>2, <3>1, SeqEqual
  <2> QED  BY <2>4 DEF u, v
<1>4. ASSUME NEW a \in 0 .. Len(s)
      PROVE  SubSeq(w, a + 1, Len(s) + Len(t)) = SubSeq(s, a + 1, Len(s)) \o t
  <2> DEFINE u == SubSeq(w, a + 1, Len(s) + Len(t))
             v == SubSeq(s, a + 1, Len(s))
             x == v \o t
  <2>1. u \in Seq(Nat) /\ Len(u) = Len(s) + Len(t) - a /\ \A i \in 1 .. Len(s) + Len(t) - a : u[i] = w[a + i]
    <3> DEFINE m == Len(w)
    <3>1. m \in Nat /\ a \in 0 .. m /\ m = Len(s) + Len(t)
      BY <1>1
    <3>2. /\ SubSeq(w, a + 1, Len(w)) \in Seq(Nat) /\ Len(SubSeq(w, a + 1, Len(w))) = Len(w) - a
          /\ \A i \in 1 .. Len(w) - a : SubSeq(w, a + 1, Len(w))[i] = w[a + i]
      BY <1>1, <3>1, Suffix
    <3> QED  BY <3>1, <3>2
  <2>2. v \in Seq(Nat) /\ Len(v) = Len(s) - a /\ \A i \in 1 .. Len(s) - a : v[i] = s[a + i]
    OBVIOUS
  <2> HIDE DEF u, v
  <2>3. x \in Seq(Nat) /\ Len(x) = Len(v) + Len(t)
    BY <2>2, ConcatIs
  <2>4. \A i \in 1 .. Len(v) + Len(t) : x[i] = IF i <= Len(v) THEN v[i] ELSE t[i - Len(v)]
    BY <2>2, ConcatIs
  <2> HIDE DEF x
  <2>5. ASSUME NEW i \in 1 .. Len(s) + Len(t) - a  PROVE u[i] = x[i]
    <3>1. /\ a + i \in 1 .. Len(s) + Len(t) /\ i \in 1 .. Len(v) + Len(t) /\ (a + i) - Len(s) = i - Len(v)
          /\ a + i <= Len(s) <=> i <= Len(v)
      BY <2>2
    <3>2. u[i] = IF a + i <= Len(s) THEN s[a + i] ELSE t[(a + i) - Len(s)]
      BY <1>2, <2>1, <3>1
    <3>3. x[i] = IF i <= Len(v) THEN v[i] ELSE t[i - Len(v)]
      BY <2>4, <3>1
    <3>4. i <= Len(v) => v[i] = s[a + i]
      BY <2>2
    <3> QED  BY <3>1, <3>2, <3>3, <3>4
  <2>6. u = x
    <3>1. Len(u) = Len(x) /\ \A i \in 1 .. Len(u) : u[i] = x[i]
      BY <2>1, <2>2, <2>3, <2>5
    <3> QED  BY <2>1, <2>3, <3>1, SeqEqual
  <2> QED  BY <2>6 DEF u, x, v
<1> QED  BY <1>1, <1>3, <1>4 DEF w

\* More is written: every complete block stays what it is.
LEMMA MoreData ==
  ASSUME written \in Seq(Nat), NEW t \in Seq(Nat), written' = written \o t, block \in Nat,
         call # "close"
  PROVE  KeepsData /\ (Small' => Small)
<1>1. /\ written' \in Seq(Nat) /\ Len(written') = Len(written) + Len(t) /\ Len(written) \in Nat
      /\ Len(t) \in Nat /\ Len(written) <= Len(written')
  BY Extended
<1>2. Small' => Small
  <2>1. BlkSize * Word \in Int
    BY Products, TftpAssumption
  <2> QED  BY <1>1, <2>1 DEF Small
<1>3. ASSUME NEW k \in 0 .. block, Whole(k)
      PROVE  /\ Whole(k)' /\ (k # 0 => Chunk(written', k) = Chunk(written, k))
             /\ SubSeq(written', 1, Least(k * BlkSize, Len(written'))) =
                  SubSeq(written, 1, Least(k * BlkSize, Len(written)))
             /\ k * BlkSize <= Len(written')
  <2> DEFINE b == k * BlkSize
             a == (k - 1) * BlkSize
  <2>1. /\ k \in Int /\ b \in Int /\ a = b - BlkSize /\ BlkSize \in Nat \ {0} /\ b <= Len(written)
        /\ 0 <= b
    <3>1. k \in Int /\ k \in Nat
      OBVIOUS
    <3>2. b \in Nat
      BY <3>1, NatProduct
    <3>3. k * BlkSize <= Len(written)
      BY <1>3 DEF Whole
    <3> QED  BY <3>1, <3>2, <3>3, Products
  <2>2. k # 0 => a \in Nat
    <3> SUFFICES ASSUME k # 0  PROVE a \in Nat
      OBVIOUS
    <3>1. k - 1 \in Nat
      OBVIOUS
    <3> QED  BY <3>1, NatProduct
  <2> HIDE DEF a, b
  <2>3. b \in 0 .. Len(written) /\ b <= Len(written')
    BY <1>1, <2>1
  <2>4. Least(b, Len(written)) = b /\ Least(b, Len(written')) = b
    BY <1>1, <2>3 DEF Least
  <2>5. 0 \in Nat /\ 0 + 1 = 1
    OBVIOUS
  <2>6. SubSeq(written', 1, b) = SubSeq(written, 1, b)
    BY <2>3, <2>5, Extended
  <2>7. k # 0 => SubSeq(written', a + 1, b) = SubSeq(written, a + 1, b)
    BY <2>2, <2>3, Extended
  <2>8. k # 0 => Chunk(written', k) = Chunk(written, k)
    BY <2>4, <2>7 DEF Chunk, a, b
  <2>9. k * BlkSize <= Len(written') /\ SubSeq(written', 1, Least(k * BlkSize, Len(written'))) =
                  SubSeq(written, 1, Least(k * BlkSize, Len(written)))
    BY <2>3, <2>4, <2>6 DEF b
  <2>10. Whole(k)'
    BY <2>9 DEF Whole
  <2> QED  BY <2>8, <2>9, <2>10
<1> QED  BY <1>2, <1>3 DEF KeepsData

LEMMA WriteLoopInv == ASSUME TftpInv, WriteLoop  PROVE TftpInv'
<1> DEFINE n == Least(nb, BlkSize - end)
           new == [i \in 1 .. n |-> Len(written) + i]
<1>1. /\ pc = "write" /\ nb > 0 /\ buf' = SubSeq(buf, 1, end) \o new /\ written' = written \o new
      /\ nb' = nb - n /\ foffs' = foffs + n /\ end' = end + n
      /\ mode' = mode /\ start' = start /\ eof' = eof /\ sin_port' = sin_port /\ c2s' = c2s /\ s2c' = s2c
      /\ file' = file /\ sess' = sess /\ faults' = faults /\ got' = got /\ short' = short
  BY DEF WriteLoop, net, server
<1>2. \/ /\ end + n = BlkSize /\ block' = block + 1 /\ pc' = "send" /\ call' = "write"
         /\ pkt' = [op |-> "DATA", blk |-> block + 1, data |-> buf']
      \/ end + n # BlkSize /\ block' = block /\ pc' = pc /\ call' = call /\ pkt' = pkt
  BY DEF WriteLoop, BufferFull, Request
<1>3. /\ nb \in Nat /\ foffs \in Nat /\ block \in Nat /\ mode = "write" /\ ~eof
      /\ written \in Seq(Nat) /\ buf \in Seq(Nat) /\ BlkSize \in Nat \ {0} /\ Len(written) \in Nat
  BY <1>1, TftpAssumption DEF TftpInv, FileOK, CallOK, SeenOK, Fresh, Reads, Writes
<1>4. /\ call \in {"open", "write"} /\ sin_port \in Port /\ end \in 0 .. BlkSize - 1
      /\ end <= Len(buf) /\ Len(written) = block * BlkSize + end
      /\ SubSeq(buf, 1, end) = Chunk(written, block + 1)
  BY <1>1, <1>3 DEF TftpInv, Writes, WriteReady
<1>5. n \in Nat /\ n >= 1 /\ n <= nb /\ end + n <= BlkSize
  BY <1>1, <1>3, <1>4 DEF Least
<1> HIDE DEF n
<1>6. new \in Seq(Nat) /\ Len(new) = n
  <2>1. new \in [1 .. n -> Nat]
    BY <1>3, <1>5
  <2> QED  BY <1>5, <2>1
<1> HIDE DEF new
<1>7. written' \in Seq(Nat) /\ Len(written') = Len(written) + n
  BY <1>1, <1>3, <1>6, Extended
<1>8. KeepsData /\ (Small' => Small)
  BY <1>1, <1>3, <1>4, <1>6, MoreData
<1>9. LocalStep
  <2>1. block' \in Nat /\ block <= block'
    BY <1>2, <1>3
  <2> QED  BY <1>1, <1>8, <2>1 DEF LocalStep, TftpInv, ServerOK
<1>10. ServerOK' /\ Known' /\ c2s' \in Seq(Queries') /\ s2c' \in Seq(Replies') /\ Served'
  BY <1>8, <1>9, LocalKeeps
<1>11. Order'
  <2>1. CASE block' = block + 1 /\ pc' = "send"
    BY <1>1, <1>9, <2>1, NextOrder DEF Waiting
  <2>2. CASE block' = block /\ pc' = pc
    BY <1>9, <2>2, LocalOrder DEF Waiting
  <2> QED  BY <1>2, <2>1, <2>2
<1>12. buf' \in Seq(Nat) /\ Len(buf') = end + n /\ buf' = Chunk(written', block + 1)
  <2> DEFINE a == block * BlkSize
             b == (block + 1) * BlkSize
             m == Len(written)
             pre == SubSeq(buf, 1, end)
  <2>1. a \in Nat /\ b = a + BlkSize /\ (block + 1) - 1 = block /\ m = a + end
    BY <1>3, <1>4, Products, NatProduct
  <2>2. Chunk(written, block + 1) = SubSeq(written, a + 1, Least(b, m)) /\
        Chunk(written', block + 1) = SubSeq(written', a + 1, Least(b, Len(written')))
    BY <2>1 DEF Chunk
  <2> HIDE DEF a, b
  <2>3. Least(b, m) = m /\ Least(b, Len(written')) = m + Len(new) /\ a \in 0 .. m
    BY <1>3, <1>4, <1>5, <1>6, <1>7, <2>1 DEF Least
  <2>4. SubSeq(written \o new, a + 1, m + Len(new)) = SubSeq(written, a + 1, m) \o new
    BY <1>3, <1>6, <2>3, Extended
  <2>5. pre = SubSeq(written, a + 1, m)
    BY <1>4, <2>2, <2>3
  <2>6. buf' = Chunk(written', block + 1)
    BY <1>1, <2>2, <2>3, <2>4, <2>5
  <2>7. pre \in Seq(Nat) /\ Len(pre) = end
    BY <1>3, <1>4
  <2> HIDE DEF pre
  <2>8. buf' \in Seq(Nat) /\ Len(buf') = end + n
    <3>1. buf' = pre \o new
      BY <1>1 DEF pre
    <3> QED  BY <1>6, <2>7, <3>1, Extended
  <2> QED  BY <2>6, <2>8
<1>13. CallOK'
  <2>1. nb' \in Nat
    BY <1>1, <1>3, <1>5
  <2>2. pkt' \in [op : {"RRQ", "WRQ", "ACK", "DATA"}, blk : Nat, data : Seq(Nat)]
    <3>1. block + 1 \in Nat /\ "DATA" \in {"RRQ", "WRQ", "ACK", "DATA"}
      BY <1>3
    <3>2. PICK d : d = buf'
      OBVIOUS
    <3>3. [op |-> "DATA", blk |-> block + 1, data |-> d] \in [op : {"RRQ", "WRQ", "ACK", "DATA"}, blk : Nat, data : Seq(Nat)]
      BY <1>12, <3>1, <3>2, PktType
    <3>4. pkt \in [op : {"RRQ", "WRQ", "ACK", "DATA"}, blk : Nat, data : Seq(Nat)]
      BY DEF TftpInv, CallOK
    <3>5. pkt' = pkt \/ pkt' = [op |-> "DATA", blk |-> block + 1, data |-> d]
      BY <1>2, <3>2
    <3> QED  BY ONLY <3>3, <3>4, <3>5, Zenon
  <2> QED  BY <1>2, <2>1, <2>2 DEF TftpInv, CallOK
<1>14. FileOK' /\ SeenOK' /\ Fresh'
  <2>1. block' \in Nat /\ end' \in Int /\ foffs' \in Nat
    BY <1>1, <1>2, <1>3, <1>4, <1>5
  <2> QED  BY <1>1, <1>3, <1>7, <1>12, <2>1 DEF TftpInv, FileOK, SeenOK, Fresh
<1>15. Writes'
  <2>0. Len(written') = block * BlkSize + (end + n) /\ block * BlkSize \in Int
    BY <1>3, <1>4, <1>5, <1>7, Products
  <2>1. CASE pc' = "send" /\ block' = block + 1
    <3>1. /\ end + n = BlkSize /\ call' = "write" /\ pkt' = [op |-> "DATA", blk |-> block + 1, data |-> buf']
      BY <1>1, <1>2, <2>1
    <3>2. pkt' = [op |-> "DATA", blk |-> block', data |-> Chunk(written', block')]
      BY <1>12, <2>1, <3>1
    <3>3. Len(written') = block' * BlkSize
      BY <1>3, <2>0, <2>1, <3>1, Products
    <3>4. block' >= 1
      BY <1>3, <2>1
    <3>5. WriteWaits'
      BY <1>1, <1>4, <3>1, <3>2, <3>3, <3>4 DEF WriteWaits
    <3>6. WriteReady'
      BY <2>1 DEF WriteReady
    <3> QED  BY <1>1, <1>3, <2>1, <3>5, <3>6 DEF Writes
  <2>2. CASE end + n # BlkSize /\ block' = block /\ pc' = pc /\ call' = call
    <3>1. SubSeq(buf', 1, end') = buf'
      <4>1. end' = Len(buf') /\ 0 \in 0 .. Len(buf')
        BY <1>1, <1>12
      <4> QED  BY <1>12, <4>1, Suffix
    <3>2. /\ end' \in 0 .. BlkSize - 1 /\ end' <= Len(buf') /\ Len(written') = block' * BlkSize + end'
      BY <1>1, <1>3, <1>4, <1>5, <1>12, <2>0, <2>2
    <3>3. SubSeq(buf', 1, end') = Chunk(written', block' + 1)
      BY <1>12, <2>2, <3>1
    <3>4. WriteReady'
      BY <1>1, <1>4, <2>2, <3>2, <3>3 DEF WriteReady
    <3>5. WriteWaits'
      BY <1>1, <2>2 DEF WriteWaits, Waiting
    <3> QED  BY <1>1, <1>3, <2>2, <3>4, <3>5 DEF Writes
  <2> QED  BY <1>2, <2>1, <2>2
<1>16. Reads' /\ Delivered'
  BY <1>1, <1>3 DEF Reads, TftpInv, Delivered
<1> QED  BY <1>9, <1>10, <1>11, <1>13, <1>14, <1>15, <1>16 DEF TftpInv

LEMMA CloseWriteInv == ASSUME TftpInv, CloseWrite  PROVE TftpInv'
<1>1. /\ pc = "open" /\ mode = "write" /\ block' = block + 1 /\ pc' = "send" /\ call' = "close"
      /\ pkt' = [op |-> "DATA", blk |-> block + 1, data |-> SubSeq(buf, 1, end)]
      /\ mode' = mode /\ start' = start /\ end' = end /\ foffs' = foffs /\ eof' = eof
      /\ sin_port' = sin_port /\ buf' = buf /\ nb' = nb /\ c2s' = c2s /\ s2c' = s2c
      /\ file' = file /\ sess' = sess /\ faults' = faults /\ got' = got /\ short' = short /\ written' = written
  BY DEF CloseWrite, Request, Remainder, net, server, seen
<1>2. block \in Nat /\ written \in Seq(Nat) /\ buf \in Seq(Nat) /\ BlkSize \in Nat \ {0} /\ Len(written) \in Nat /\ ~eof
  BY <1>1, TftpAssumption DEF TftpInv, FileOK, SeenOK, Writes
<1>3. /\ call \in {"open", "write"} /\ sin_port \in Port /\ end \in 0 .. BlkSize - 1
      /\ end <= Len(buf) /\ Len(written) = block * BlkSize + end
      /\ SubSeq(buf, 1, end) = Chunk(written, block + 1)
  BY <1>1 DEF TftpInv, Writes, WriteReady
<1>4. LocalStep
  BY <1>1, <1>2 DEF LocalStep, TftpInv, ServerOK, Small
<1>5. KeepsData
  BY <1>1, <1>3, SameData
<1>6. ServerOK' /\ Known' /\ c2s' \in Seq(Queries') /\ s2c' \in Seq(Replies') /\ Served'
  BY <1>4, <1>5, LocalKeeps
<1>7. Order'
  BY <1>1, <1>4, NextOrder DEF Waiting
<1>8. CallOK'
  <2>1. block + 1 \in Nat /\ "DATA" \in {"RRQ", "WRQ", "ACK", "DATA"} /\ SubSeq(buf, 1, end) \in Seq(Nat)
    BY <1>2, <1>3
  <2>2. pkt' \in [op : {"RRQ", "WRQ", "ACK", "DATA"}, blk : Nat, data : Seq(Nat)]
    BY <1>1, <2>1, PktType
  <2> QED  BY <1>1, <2>2 DEF TftpInv, CallOK
<1>9. FileOK' /\ SeenOK' /\ Fresh'
  <2>1. block' \in Nat
    BY <1>1, <1>2
  <2> QED  BY <1>1, <2>1 DEF TftpInv, FileOK, SeenOK, Fresh
<1>10. Writes'
  <2>1. /\ (block' - 1) * BlkSize = block * BlkSize /\ block' * BlkSize = block * BlkSize + BlkSize
        /\ block * BlkSize \in Int /\ block' >= 1
    BY <1>1, <1>2, Products
  <2>2. AtLast'
    BY <1>1, <1>2, <1>3, <2>1 DEF AtLast
  <2>3. pkt' = [op |-> "DATA", blk |-> block', data |-> Chunk(written', block')]
    BY <1>1, <1>3
  <2>4. WriteWaits'
    BY <1>1, <1>3, <2>1, <2>2, <2>3 DEF WriteWaits
  <2>5. WriteReady'
    BY <1>1 DEF WriteReady
  <2> QED  BY <1>1, <1>2, <2>4, <2>5 DEF Writes
<1>11. Reads' /\ Delivered'
  BY <1>1 DEF Reads, TftpInv, Delivered
<1> QED  BY <1>4, <1>6, <1>7, <1>8, <1>9, <1>10, <1>11 DEF TftpInv

-----------------------------------------------------------------------------
(* The client: packets.                                                    *)

\* The client sends, receives or closes: the file it is at stays, and so does
\* the server.
WireStep ==
  /\ mode' = mode /\ block' = block /\ foffs' = foffs /\ call' = call /\ nb' = nb
  /\ file' = file /\ sess' = sess /\ got' = got /\ short' = short /\ written' = written
  /\ faults' \in [n : Nat, hard : BOOLEAN] /\ (faults.hard => faults'.hard)
  /\ mode \in {"read", "write"}

LEMMA WireKeeps ==
  ASSUME TftpInv, WireStep
  PROVE  /\ ServerOK' /\ SeenOK' /\ Fresh' /\ Served' /\ Delivered' /\ (Small' <=> Small)
         /\ Queries \subseteq Queries' /\ Replies \subseteq Replies'
<1>1. Small' <=> Small
  BY DEF WireStep, Small
<1>2. Keeps
  <2>1. block' \in Nat /\ block <= block'
    BY DEF WireStep, TftpInv, FileOK
  <2> QED  BY <1>1, <2>1, SameKeeps DEF WireStep
<1>3. KeepsData
  BY SameData DEF WireStep
<1>4. ServerOK' /\ SeenOK' /\ Fresh' /\ Delivered'
  BY DEF WireStep, TftpInv, ServerOK, SeenOK, Fresh, Delivered
<1> QED  BY <1>1, <1>2, <1>3, <1>4, QueriesKept, RepliesKept, ServedKept DEF WireStep

LEMMA PacketType ==
  ASSUME NEW o \in {"RRQ", "WRQ", "ACK", "DATA", "ERR"}, NEW p \in Port \cup {WellKnown},
         NEW b \in Nat, NEW d \in Seq(Nat)
  PROVE  /\ Packet(o, p, b, d) \in Packets /\ Packet(o, p, b, d).op = o /\ Packet(o, p, b, d).port = p
         /\ Packet(o, p, b, d).blk = b % Word /\ Packet(o, p, b, d).data = d
<1>1. b % Word \in Nat
  BY WireNat
<1> QED  BY <1>1 DEF Packet, Packets

LEMMA CloseReadInv == ASSUME TftpInv, CloseRead  PROVE TftpInv'
<1>1. /\ pc = "open" /\ mode = "read" /\ pc' = "closed"
      /\ c2s' = c2s \/ c2s' = Append(c2s, Packet("ERR", sin_port, 0, <<>>))
      /\ mode' = mode /\ block' = block /\ start' = start /\ end' = end /\ foffs' = foffs /\ eof' = eof
      /\ sin_port' = sin_port /\ buf' = buf /\ call' = call /\ pkt' = pkt /\ nb' = nb /\ s2c' = s2c
      /\ file' = file /\ sess' = sess /\ faults' = faults /\ got' = got /\ short' = short /\ written' = written
  BY DEF CloseRead, tf, server
<1>2. WireStep
  BY <1>1 DEF WireStep, TftpInv, ServerOK
<1>3. /\ ServerOK' /\ SeenOK' /\ Fresh' /\ Served' /\ Delivered' /\ (Small' <=> Small)
      /\ Queries \subseteq Queries' /\ Replies \subseteq Replies'
  BY <1>2, WireKeeps
<1>4. sin_port \in Port /\ sess[sin_port].st # "free" /\ WellKnown \notin Port
  BY <1>1, TftpAssumption DEF TftpInv, Reads, ReadReady, Known, WellKnown
<1>5. Packet("ERR", sin_port, 0, <<>>) \in Queries
  <2> DEFINE o == "ERR"
             z == 0
             e == <<>>
             q == Packet(o, sin_port, z, e)
  <2>1. q \in Packets /\ q.op = "ERR" /\ q.port = sin_port
    <3>1. /\ o \in {"RRQ", "WRQ", "ACK", "DATA", "ERR"} /\ sin_port \in Port \cup {WellKnown}
          /\ z \in Nat /\ e \in Seq(Nat)
      BY <1>4
    <3> HIDE DEF o, z, e
    <3>2. q \in Packets /\ q.op = o /\ q.port = sin_port
      BY ONLY <3>1, PacketType
    <3> QED  BY <3>2 DEF o
  <2> HIDE DEF q
  <2>2. Query(q)
    BY <1>1, <1>4, <2>1 DEF Query, ReadQuery
  <2>3. q \in Queries
    BY <2>1, <2>2 DEF Queries
  <2> QED  BY <2>3 DEF q
<1>6. c2s' \in Seq(Queries') /\ s2c' \in Seq(Replies')
  <2>1. c2s' \in Seq(Queries)
    BY <1>1, <1>5, Channels, AppendProperties
  <2> QED  BY <1>1, <1>3, <2>1, Channels, SeqSub
<1>7. FileOK' /\ CallOK' /\ Known'
  BY <1>1 DEF TftpInv, FileOK, CallOK, Known
<1>8. Order'
  <2>1. s2c' \in Seq(Packets) /\ Thins(s2c', s2c)
    BY <1>1, Channels, ThinsSelf
  <2>2. Waiting' <=> Waiting
    BY <1>1 DEF Waiting
  <2> QED  BY <1>1, <1>3, <2>1, <2>2, OrderThins
<1>9. Reads'
  BY <1>1 DEF TftpInv, Reads, ReadWaits, ReadReady, ReadEnds, Waiting
<1>10. Writes'
  BY <1>1 DEF Writes
<1> QED  BY <1>3, <1>6, <1>7, <1>8, <1>9, <1>10 DEF TftpInv

LEMMA ReturnIs ==
  ASSUME NEW n \in Int, Return(n)
  PROVE  /\ call = "open" => /\ pc' = (IF n < 0 THEN "closed" ELSE "open") /\ start' = start
                             /\ end' = (IF mode = "read" THEN end + n ELSE end)
         /\ call = "read" => pc' = "read" /\ start' = end /\ end' = end + n
         /\ call = "write" => pc' = "write" /\ end' = 0 /\ start' = start
         /\ call = "close" => pc' = "closed" /\ start' = start /\ end' = end
BY DEF Return

\* What the client sends.
LEMMA SentIs ==
  ASSUME TftpInv, pc = "send"
  PROVE  Packet(pkt.op, sin_port, pkt.blk, pkt.data) \in Queries /\ mode \in {"read", "write"}
<1> DEFINE q == Packet(pkt.op, sin_port, pkt.blk, pkt.data)
<1>1. pkt.op \in {"RRQ", "WRQ", "ACK", "DATA"} /\ pkt.blk \in Nat /\ pkt.data \in Seq(Nat)
  BY DEF TftpInv, CallOK
<1>2. sin_port \in Port \cup {WellKnown} /\ block \in Nat /\ WellKnown \notin Port /\ mode \in {"read", "write"}
  BY TftpAssumption DEF TftpInv, FileOK, Fresh, WellKnown
<1>3. q \in Packets /\ q.op = pkt.op /\ q.port = sin_port /\ q.blk = pkt.blk % Word /\ q.data = pkt.data
  BY <1>1, <1>2, PacketType
<1> HIDE DEF q
<1>4. q.port \in Port => sess[q.port].st # "free"
  BY <1>3 DEF TftpInv, Known
<1>5. ASSUME mode = "read"  PROVE ReadQuery(q)
  <2>1. \/ pkt.op = "RRQ" /\ sin_port = WellKnown
        \/ pkt.op = "ACK" /\ pkt.blk = block - 1 /\ block >= 2 /\ sin_port \in Port
    BY <1>5 DEF TftpInv, Reads, ReadWaits, Waiting
  <2>2. CASE pkt.op = "RRQ" /\ sin_port = WellKnown
    BY <1>3, <2>2 DEF ReadQuery
  <2>3. CASE pkt.op = "ACK" /\ pkt.blk = block - 1 /\ block >= 2 /\ sin_port \in Port
    <3>1. block - 1 \in 1 .. block /\ block - 1 < block /\ q.blk = (block - 1) % Word
      BY <1>2, <1>3, <2>3
    <3>2. AckOf(q)
      BY <3>1 DEF AckOf
    <3> QED  BY <1>2, <1>3, <2>3, <3>2 DEF ReadQuery
  <2> QED  BY <2>1, <2>2, <2>3
<1>6. ASSUME mode = "write"  PROVE WriteQuery(q)
  <2>1. \/ pkt.op = "WRQ" /\ sin_port = WellKnown
        \/ /\ pkt.op = "DATA" /\ pkt.blk = block /\ pkt.data = Chunk(written, block)
           /\ block >= 1 /\ sin_port \in Port /\ (call = "close" \/ Len(written) = block * BlkSize)
    BY <1>6 DEF TftpInv, Writes, WriteWaits, Waiting
  <2>2. CASE pkt.op = "WRQ" /\ sin_port = WellKnown
    BY <1>3, <2>2 DEF WriteQuery
  <2>3. CASE /\ pkt.op = "DATA" /\ pkt.blk = block /\ pkt.data = Chunk(written, block)
             /\ block >= 1 /\ sin_port \in Port /\ (call = "close" \/ Len(written) = block * BlkSize)
    <3>1. block \in 1 .. block /\ q.blk = block % Word /\ q.data = Chunk(written, block)
      BY <1>2, <1>3, <2>3
    <3>2. Whole(block)
      <4>1. block * BlkSize \in Int
        BY <1>2, Products
      <4> QED  BY <2>3, <4>1 DEF Whole
    <3>3. DataOf(q)
      BY <3>1, <3>2 DEF DataOf
    <3> QED  BY <1>2, <1>3, <2>3, <3>3 DEF WriteQuery
  <2> QED  BY <2>1, <2>2, <2>3
<1>7. q \in Queries
  BY <1>3, <1>4, <1>5, <1>6 DEF Queries, Query
<1> QED  BY <1>2, <1>7 DEF q

LEMMA SendInv == ASSUME TftpInv, Send  PROVE TftpInv'
<1>1. /\ pc = "send" /\ c2s' = Append(c2s, Packet(pkt.op, sin_port, pkt.blk, pkt.data))
      /\ mode' = mode /\ block' = block /\ foffs' = foffs /\ eof' = eof /\ sin_port' = sin_port /\ buf' = buf
      /\ call' = call /\ pkt' = pkt /\ nb' = nb /\ s2c' = s2c /\ file' = file /\ sess' = sess
      /\ faults' = faults /\ got' = got /\ short' = short /\ written' = written
  BY DEF Send, server
<1>2. /\ ~eof => pc' = "recv" /\ start' = start /\ end' = end
      /\ eof => Return(0)
  BY DEF Send
<1>3. Packet(pkt.op, sin_port, pkt.blk, pkt.data) \in Queries /\ mode \in {"read", "write"}
  BY <1>1, SentIs
<1>4. WireStep
  BY <1>1, <1>3 DEF WireStep, TftpInv, ServerOK
<1>5. /\ ServerOK' /\ SeenOK' /\ Fresh' /\ Served' /\ Delivered' /\ (Small' <=> Small)
      /\ Queries \subseteq Queries' /\ Replies \subseteq Replies'
  BY <1>4, WireKeeps
<1>6. c2s' \in Seq(Queries') /\ s2c' \in Seq(Replies')
  <2>1. c2s' \in Seq(Queries)
    BY <1>1, <1>3, Channels, AppendProperties
  <2> QED  BY <1>1, <1>5, <2>1, Channels, SeqSub
<1>7. Known'
  BY <1>1 DEF TftpInv, Known
<1>8. start \in Int /\ end \in Int /\ eof \in BOOLEAN
  BY DEF TftpInv, FileOK
<1>9. ASSUME ~eof  PROVE FileOK' /\ CallOK' /\ Order' /\ Reads' /\ Writes'
  <2>1. pc' = "recv" /\ start' = start /\ end' = end
    BY <1>2, <1>9
  <2>2. Order'
    <3>1. s2c' \in Seq(Packets) /\ Thins(s2c', s2c)
      BY <1>1, Channels, ThinsSelf
    <3>2. Waiting' <=> Waiting
      BY <1>1, <2>1 DEF Waiting
    <3> QED  BY <1>1, <1>5, <3>1, <3>2, OrderThins
  <2>3. FileOK' /\ CallOK'
    BY <1>1, <2>1 DEF TftpInv, FileOK, CallOK
  <2>4. Reads'
    BY <1>1, <1>9, <2>1 DEF TftpInv, Reads, ReadWaits, ReadReady, ReadEnds, Waiting
  <2>5. Writes'
    BY <1>1, <2>1 DEF TftpInv, Writes, WriteWaits, WriteReady, AtLast, Waiting
  <2> QED  BY <2>2, <2>3, <2>4, <2>5
<1>10. ASSUME eof  PROVE FileOK' /\ CallOK' /\ Order' /\ Reads' /\ Writes'
  <2>1. mode = "read" /\ call = "read" /\ foffs >= end /\ sin_port \in Port /\ ReadEnds /\ block \in 1 .. Word
        /\ written = <<>>
    BY <1>1, <1>3, <1>10 DEF TftpInv, Writes, Reads, ReadWaits, Waiting
  <2>2. pc' = "read" /\ start' = end /\ end' = end
    <3>1. 0 \in Int /\ end + 0 = end
      BY <1>8
    <3> QED  BY <1>2, <1>10, <2>1, <3>1, ReturnIs
  <2>3. Order'
    BY <1>1, <1>10 DEF Order, InStep
  <2>4. FileOK' /\ CallOK'
    BY <1>1, <1>8, <2>2 DEF TftpInv, FileOK, CallOK
  <2>5. ReadWaits' /\ ReadReady'
    BY <1>1, <1>8, <2>1, <2>2 DEF ReadWaits, ReadReady, Waiting
  <2>6. ReadEnds'
    BY <1>1, <1>8, <1>10, <2>1, <2>2 DEF ReadEnds, Waiting
  <2>7. Reads'
    BY <1>1, <2>1, <2>2, <2>5, <2>6 DEF Reads
  <2>8. Writes'
    BY <1>1, <2>1 DEF Writes
  <2> QED  BY <2>3, <2>4, <2>7, <2>8
<1> QED  BY <1>5, <1>6, <1>7, <1>9, <1>10 DEF TftpInv

\* tftpwrq returns to tftp_open, tftp_write or tftp_close.
LEMMA WriteBack ==
  ASSUME TftpInv, WireStep, mode = "write", Waiting, NEW n \in Int, Return(n), eof' = eof, pkt' = pkt, buf' = buf,
         sin_port' = sin_port \/ (call = "open" /\ sin_port' \in Port), n < 0 \/ sin_port' \in Port
  PROVE  Writes' /\ Reads' /\ FileOK' /\ CallOK' /\ ~Waiting'
<1>1. /\ block' = block /\ written' = written /\ call' = call /\ mode' = mode /\ foffs' = foffs /\ nb' = nb
      /\ mode' = "write"
  BY DEF WireStep
<1>2. /\ block \in Nat /\ end \in Int /\ start \in Int /\ written \in Seq(Nat) /\ buf \in Seq(Nat) /\ ~eof
      /\ BlkSize \in Nat \ {0} /\ Len(buf) \in Nat /\ <<>> \in Seq(Nat)
  BY TftpAssumption DEF TftpInv, FileOK, SeenOK, Writes
<1>3. \/ call = "open" /\ block = 0 /\ end = 0 /\ written = <<>>
      \/ call = "write" /\ sin_port \in Port /\ Len(written) = block * BlkSize
      \/ call = "close" /\ block >= 1 /\ sin_port \in Port /\ AtLast
  BY DEF TftpInv, Writes, WriteWaits
<1>4. Len(written) = block * BlkSize => SubSeq(buf, 1, 0) = Chunk(written, block + 1)
  <2> SUFFICES ASSUME Len(written) = block * BlkSize  PROVE SubSeq(buf, 1, 0) = Chunk(written, block + 1)
    OBVIOUS
  <2>1. SubSeq(buf, 1, 0) = <<>>
    BY <1>2
  <2> DEFINE c == Chunk(written, block + 1)
  <2>2. /\ (block + 1) - 1 = block /\ (block + 1) * BlkSize = block * BlkSize + BlkSize
        /\ block * BlkSize \in Int /\ block + 1 \in Nat \ {0}
    BY <1>2, Products
  <2>3. c \in Seq(Nat) /\ (Len(written) < (block + 1) * BlkSize =>
            Len(c) = IF ((block + 1) - 1) * BlkSize <= Len(written) THEN Len(written) - ((block + 1) - 1) * BlkSize ELSE 0)
    BY <1>2, <2>2, ChunkIs
  <2> HIDE DEF c
  <2>4. c \in Seq(Nat) /\ Len(c) = 0
    BY <1>2, <2>2, <2>3
  <2>5. c = <<>>
    BY <2>4, EmptySeq
  <2> QED  BY <2>1, <2>5 DEF c
<1>5. CASE call = "open" /\ block = 0 /\ end = 0 /\ written = <<>>
  <2>1. pc' = (IF n < 0 THEN "closed" ELSE "open") /\ end' = 0 /\ start' = start
    BY <1>1, <1>5, ReturnIs
  <2>2. Len(written) = 0 /\ block * BlkSize = 0
    BY <1>2, <1>5
  <2>3. WriteWaits' /\ ~Waiting'
    BY <2>1 DEF WriteWaits, Waiting
  <2>4. WriteReady'
    BY <1>1, <1>2, <1>4, <1>5, <2>1, <2>2 DEF WriteReady
  <2>5. pc' \in {"open", "closed"} /\ end' \in Int
    BY <2>1
  <2>6. Writes'
    BY <1>2, <2>3, <2>4, <2>5 DEF Writes
  <2>7. FileOK'
    BY <1>1, <2>1, <2>5 DEF TftpInv, FileOK
  <2>8. CallOK' /\ Reads'
    BY <1>1, <2>5 DEF TftpInv, CallOK, Reads
  <2> QED  BY <2>3, <2>6, <2>7, <2>8
<1>6. CASE call = "write" /\ sin_port \in Port /\ Len(written) = block * BlkSize
  <2>1. pc' = "write" /\ end' = 0 /\ start' = start
    BY <1>6, ReturnIs
  <2>2. WriteWaits' /\ ~Waiting'
    BY <2>1 DEF WriteWaits, Waiting
  <2>3. end' \in 0 .. BlkSize - 1 /\ end' <= Len(buf) /\ Len(written) = block * BlkSize + end' /\ sin_port' \in Port
    BY <1>2, <1>6, <2>1
  <2>4. WriteReady'
    BY <1>1, <1>4, <1>6, <2>1, <2>3 DEF WriteReady
  <2>5. Writes'
    BY <1>2, <2>1, <2>2, <2>4 DEF Writes
  <2>6. FileOK'
    BY <1>1, <2>1, <2>3 DEF TftpInv, FileOK
  <2>7. CallOK' /\ Reads'
    BY <1>1, <2>1 DEF TftpInv, CallOK, Reads
  <2> QED  BY <2>2, <2>5, <2>6, <2>7
<1>7. CASE call = "close" /\ block >= 1 /\ sin_port \in Port /\ AtLast
  <2>1. pc' = "closed" /\ end' = end /\ start' = start /\ sin_port' \in Port
    BY <1>7, ReturnIs
  <2>2. WriteWaits' /\ ~Waiting'
    BY <2>1 DEF WriteWaits, Waiting
  <2>3. AtLast'
    BY <1>1, <1>7 DEF AtLast
  <2>4. WriteReady'
    BY <1>1, <1>7, <2>1, <2>3 DEF WriteReady
  <2>5. Writes'
    BY <1>2, <2>1, <2>2, <2>4 DEF Writes
  <2>6. FileOK'
    BY <1>1, <2>1 DEF TftpInv, FileOK
  <2>7. CallOK' /\ Reads'
    BY <1>1, <2>1 DEF TftpInv, CallOK, Reads
  <2> QED  BY <2>2, <2>5, <2>6, <2>7
<1> QED  BY <1>3, <1>5, <1>6, <1>7

\* tftprrq fails.  tftp_read takes that for the end of the file.
LEMMA ReadFails ==
  ASSUME TftpInv, WireStep, mode = "read", Waiting, NEW n \in Int, n < 0, Return(n), eof' = eof, pkt' = pkt,
         buf' \in Seq(Nat), sin_port' = sin_port \/ (call = "open" /\ sin_port' \in Port),
         eof => faults'.hard,
         (~faults'.hard /\ Len(file) <= BlkSize * (Word - 1) /\ call = "read") => end >= Len(file)
  PROVE  Writes' /\ Reads' /\ FileOK' /\ CallOK' /\ ~Waiting'
<1>1. /\ block' = block /\ written' = written /\ call' = call /\ mode' = mode /\ foffs' = foffs /\ nb' = nb
      /\ file' = file /\ short' = short /\ mode' = "read"
  BY DEF WireStep
<1>2. /\ end \in Int /\ start \in Int /\ foffs \in Nat /\ block \in 1 .. Word /\ written = <<>> /\ foffs >= start /\ ~short
  BY DEF TftpInv, FileOK, Reads, ReadEnds
<1>3. \/ call = "open" /\ ~eof
      \/ call = "read" /\ foffs >= end /\ sin_port \in Port
  BY DEF TftpInv, Reads, ReadWaits
<1>4. /\ pc' \in {"closed", "read"} /\ start' \in Int /\ end' \in Int /\ foffs' >= start' /\ sin_port' \in Port \cup {WellKnown}
      /\ pc' = "read" => start' >= end' /\ start' = end /\ sin_port' \in Port /\ call = "read"
  <2>1. end + n \in Int /\ end >= end + n
    BY <1>2
  <2>2. CASE call = "open" /\ ~eof
    <3>1. pc' = "closed" /\ start' = start /\ end' = end + n
      BY <2>2, ReturnIs
    <3> QED  BY <1>1, <1>2, <2>1, <3>1 DEF TftpInv, FileOK
  <2>3. CASE call = "read" /\ foffs >= end /\ sin_port \in Port
    <3>1. pc' = "read" /\ start' = end /\ end' = end + n
      BY <2>3, ReturnIs
    <3> QED  BY <1>1, <1>2, <2>1, <2>3, <3>1
  <2> QED  BY <1>3, <2>2, <2>3
<1>5. ~Waiting' /\ ReadWaits'
  BY <1>4 DEF ReadWaits, Waiting
<1>6. ReadReady'
  BY <1>4 DEF ReadReady
<1>7. ReadEnds'
  <2>1. ~short'
    BY <1>1, <1>2, Zenon
  <2>2. ASSUME ~faults'.hard, Len(file) <= BlkSize * (Word - 1)
        PROVE  /\ (pc' \in {"open", "read"} /\ start' >= end') => start' >= Len(file)
               /\ eof' => end' >= Len(file)
    <3>1. ~eof'
      BY <2>2, Zenon
    <3>2. pc' = "read" => start' >= Len(file)
      BY <1>4, <2>2
    <3> QED  BY <1>4, <3>1, <3>2
  <2> QED  BY <1>1, <2>1, <2>2 DEF ReadEnds
<1>8. Reads'
  BY <1>1, <1>2, <1>4, <1>5, <1>6, <1>7 DEF Reads
<1>9. FileOK' /\ CallOK' /\ Writes'
  BY <1>1, <1>4 DEF TftpInv, FileOK, CallOK, Writes
<1> QED  BY <1>5, <1>8, <1>9

\* A packet comes or goes, and the client's part is all right.
LEMMA WireStepInv ==
  ASSUME TftpInv, WireStep, c2s' \in Seq(Queries), s2c' \in Seq(Replies), Known', Order', Reads', Writes', FileOK', CallOK'
  PROVE  TftpInv'
<1>1. /\ ServerOK' /\ SeenOK' /\ Fresh' /\ Served' /\ Delivered'
      /\ Queries \subseteq Queries' /\ Replies \subseteq Replies'
  BY WireKeeps
<1>2. c2s' \in Seq(Queries') /\ s2c' \in Seq(Replies')
  BY <1>1, SeqSub
<1> QED  BY <1>1, <1>2 DEF TftpInv

LEMMA SendFailsInv == ASSUME TftpInv, SendFails  PROVE TftpInv'
<1>1. /\ pc = "send" /\ Fault("nosend") /\ Return(-1)
      /\ mode' = mode /\ block' = block /\ foffs' = foffs /\ eof' = eof /\ sin_port' = sin_port /\ buf' = buf
      /\ call' = call /\ pkt' = pkt /\ nb' = nb /\ c2s' = c2s /\ s2c' = s2c /\ file' = file /\ sess' = sess
      /\ got' = got /\ short' = short /\ written' = written
  BY DEF SendFails, net, server, seen
<1>2. faults' \in [n : Nat, hard : BOOLEAN] /\ faults'.hard
  BY <1>1, FaultStep
<1>3. mode \in {"read", "write"} /\ buf \in Seq(Nat) /\ Waiting /\ -1 \in Int /\ -1 < 0
  BY <1>1, SentIs DEF TftpInv, FileOK, Waiting
<1>4. WireStep
  BY <1>1, <1>2, <1>3 DEF WireStep
<1>5. Writes' /\ Reads' /\ FileOK' /\ CallOK'
  <2>1. CASE mode = "write"
    BY <1>1, <1>3, <1>4, <2>1, WriteBack
  <2>2. CASE mode = "read"
    BY <1>1, <1>2, <1>3, <1>4, <2>2, ReadFails
  <2> QED  BY <1>3, <2>1, <2>2
<1>6. Order'
  BY <1>2 DEF Order, InStep
<1>7. Known'
  BY <1>1 DEF TftpInv, Known
<1>8. c2s' \in Seq(Queries) /\ s2c' \in Seq(Replies)
  BY <1>1, Channels
<1> QED  BY <1>4, <1>5, <1>6, <1>7, <1>8, WireStepInv

LEMMA Received ==
  ASSUME TftpInv, NEW r, Receive(r)
  PROVE  /\ pc = "recv" /\ Waiting /\ ~eof /\ WireStep /\ faults' = faults
         /\ r \in Packets /\ Reply(r) /\ r.port \in Port /\ sess[r.port].st # "free"
         /\ 1 \in DOMAIN s2c /\ r = s2c[1] /\ s2c # <<>>
         /\ ServerPort(r.port) = sin_port'
         /\ call = "open" => sin_port' = r.port /\ sin_port \notin Port
         /\ call # "open" => sin_port' = sin_port
         /\ sin_port' \in Port /\ Known'
         /\ buf' = (IF mode = "read" THEN r.data ELSE buf) /\ buf' \in Seq(Nat)
<1>1. /\ pc = "recv" /\ s2c # <<>> /\ r = Head(s2c) /\ sin_port' = ServerPort(r.port)
      /\ buf' = (IF mode = "read" THEN r.data ELSE buf)
      /\ mode' = mode /\ block' = block /\ foffs' = foffs /\ call' = call /\ nb' = nb
      /\ file' = file /\ sess' = sess /\ faults' = faults /\ got' = got /\ short' = short /\ written' = written
  BY DEF Receive, server
<1>2. Waiting /\ block \in Nat
  BY <1>1 DEF Waiting, TftpInv, FileOK
<1>3. mode \in {"read", "write"} /\ ~eof
  <2>1. mode \in {"read", "write"}
    BY <1>1, Opened
  <2>2. mode = "read" => ~eof
    BY <1>1, <1>2 DEF TftpInv, Reads, ReadWaits
  <2>3. mode = "write" => ~eof
    BY DEF TftpInv, Writes
  <2> QED  BY <2>1, <2>2, <2>3, Zenon
<1>4. WireStep
  BY <1>1, <1>3 DEF WireStep, TftpInv, ServerOK
<1>5. r \in Replies /\ r = s2c[1] /\ 1 \in DOMAIN s2c
  BY <1>1, Channels, TailThins
<1>6. r \in Packets /\ Reply(r) /\ r.port \in Port /\ sess[r.port].st # "free"
  BY <1>5 DEF Replies, Reply
<1>7. /\ call = "open" => sin_port' = r.port /\ sin_port \notin Port
      /\ call # "open" => sin_port' = sin_port /\ sin_port \in Port
  <2>0. WellKnown \notin Port
    BY TftpAssumption DEF WellKnown
  <2>1. CASE mode = "read"
    <3>1. \/ call = "open" /\ block = 1 /\ sin_port = WellKnown
          \/ call = "read" /\ block >= 2 /\ sin_port \in Port
      BY <1>2, <2>1 DEF TftpInv, Reads, ReadWaits
    <3> QED  BY <1>1, <1>2, <2>0, <2>1, <3>1 DEF ServerPort
  <2>2. CASE mode = "write"
    <3>1. \/ call = "open" /\ block = 0 /\ sin_port = WellKnown
          \/ call \in {"write", "close"} /\ block >= 1 /\ sin_port \in Port
      BY <1>2, <2>2 DEF TftpInv, Writes, WriteWaits
    <3> QED  BY <1>1, <1>2, <2>0, <2>2, <3>1 DEF ServerPort
  <2> QED  BY <1>3, <2>1, <2>2
<1>8. Known'
  BY <1>1, <1>6, <1>7 DEF TftpInv, Known
<1>9. buf' \in Seq(Nat)
  <2>1. r.data \in Seq(Nat) /\ buf \in Seq(Nat)
    BY <1>6 DEF Packets, TftpInv, FileOK
  <2> QED  BY <1>1, <2>1
<1> QED  BY <1>1, <1>2, <1>3, <1>4, <1>5, <1>6, <1>7, <1>8, <1>9

\* Whoever answers the request is at the client's first block.
LEMMA FirstBlock ==
  ASSUME TftpInv, Waiting, call = "open", mode \in {"read", "write"}, NEW r \in Packets, Reply(r)
  PROVE  /\ sess[r.port].blk = block /\ (r.op # "ERR" => r.blk = block % Word) /\ block % Word = block
         /\ ~faults.hard => r.blk = block % Word
<1> DEFINE p == r.port
<1>1. p \in Port /\ sess[p].st # "free" /\ sess[p].blk \in Nat /\ block \in Nat /\ Word \in Nat \ {0, 1}
  BY SessionTypes, TftpAssumption DEF Reply, TftpInv, FileOK
<1>2. ASSUME mode = "read"  PROVE block = 1 /\ sess[p].blk = 1 /\ (ReadReply(r) => r.blk = 1 % Word)
  <2>1. block = 1
    BY <1>2 DEF TftpInv, Reads, ReadWaits
  <2>2. sess[p].blk \in 1 .. block
    BY <1>1, <1>2 DEF TftpInv, Served, ReadSession
  <2>3. sess[p].blk = 1
    BY <2>1, <2>2
  <2> QED  BY <2>1, <2>3 DEF ReadReply
<1>3. ASSUME mode = "write"  PROVE block = 0 /\ sess[p].blk = 0 /\ (WriteReply(r) => r.blk = 0 % Word)
  <2>1. block = 0 /\ written = <<>>
    BY <1>3 DEF TftpInv, Writes, WriteWaits
  <2>2. Small
    <3>1. BlkSize * Word > 0
      <4>1. BlkSize * Word = Word * BlkSize /\ Word * BlkSize \in Int /\ BlkSize \in Nat \ {0}
            /\ 0 * BlkSize + BlkSize <= Word * BlkSize /\ 0 * BlkSize \in Nat
        <5>1. Word \in Int /\ 0 \in Int /\ 0 < Word /\ 0 \in Nat
          BY <1>1
        <5> QED  BY ONLY <5>1, Products, NatProduct, Zenon
      <4> QED  BY <4>1
    <3> QED  BY <2>1, <3>1 DEF Small
  <2>3. sess[p].blk \in 0 .. block
    BY <1>1, <1>3, <2>2 DEF TftpInv, Served, WriteSession
  <2>4. sess[p].blk = 0
    BY <2>1, <2>3
  <2> QED  BY <2>1, <2>4 DEF WriteReply
<1>4. sess[p].blk = block
  BY <1>2, <1>3
<1>5. block \in 0 .. Word /\ block # Word
  BY <1>1, <1>2, <1>3
<1>6. block % Word = block
  BY <1>5, Wire
<1>7. r.op # "ERR" => r.blk = block % Word
  BY <1>2, <1>3 DEF Reply
<1>8. ~faults.hard => r.blk = block % Word
  BY <1>2, <1>3 DEF Reply
<1> QED  BY <1>4, <1>6, <1>7, <1>8

\* Once the client has the number it waits for, every other packet on its way
\* from the server has this number, too.
LEMMA OrderDone ==
  ASSUME TftpInv, NEW r, Receive(r), r.port = sin_port', ~Waiting',
         s2c' \in Seq(Packets), Thins(s2c', s2c),
         (~faults.hard /\ Small) => r.blk = block % Word
  PROVE  Order'
<1>1. /\ Waiting /\ ~eof /\ WireStep /\ faults' = faults /\ r \in Packets /\ Reply(r) /\ r.port \in Port
      /\ 1 \in DOMAIN s2c /\ r = s2c[1]
      /\ call # "open" => sin_port' = sin_port
      /\ sin_port' \in Port
  BY Received
<1>2. block' = block /\ sess' = sess /\ (Small' <=> Small) /\ block \in Nat /\ mode \in {"read", "write"}
  BY <1>1, WireKeeps DEF WireStep, TftpInv, FileOK
<1>3. PICK p \in Port : p = sin_port'
  BY <1>1
<1>4. s2c \in Seq(Packets) /\ s2c \in Seq(Replies) /\ DOMAIN s2c = 1 .. Len(s2c)
  BY Channels
<1> SUFFICES ASSUME InStep'
             PROVE  /\ sess'[sin_port'].blk \in Lo' .. block'
                    /\ Ordered(s2c', sin_port', {Lo' % Word, sess'[sin_port'].blk % Word}, block' % Word)
  BY DEF Order
<1>5. ~faults.hard /\ Small /\ r.blk = block % Word
  BY <1>1, <1>2 DEF InStep
<1>6. sess[p].blk = block /\ \A i \in DOMAIN s2c : s2c[i].port = p => s2c[i].blk = block % Word
  <2>1. CASE call = "open"
    <3>1. sess[p].blk = block
      BY <1>1, <1>2, <1>3, <2>1, FirstBlock
    <3>2. ASSUME NEW i \in DOMAIN s2c, s2c[i].port = p  PROVE s2c[i].blk = block % Word
      <4>1. s2c[i] \in Packets /\ Reply(s2c[i])
        BY <1>4 DEF Replies
      <4> QED  BY <1>1, <1>2, <1>5, <2>1, <4>1, FirstBlock
    <3> QED  BY <3>1, <3>2
  <2>2. CASE call # "open"
    <3>1. p = sin_port /\ r.port = p
      BY <1>1, <1>3, <2>2
    <3>2. Lo = block - 1
      BY <1>1 DEF Lo
    <3>3. InStep
      BY <1>1, <1>5, <3>1 DEF InStep
    <3>4. /\ sess[p].blk \in block - 1 .. block
          /\ Ordered(s2c, p, {(block - 1) % Word, sess[p].blk % Word}, block % Word)
      BY <3>1, <3>2, <3>3 DEF TftpInv, Order
    <3>5. sess[p].blk = block
      <4>1. CASE block = 0
        <5>1. sess[p].blk \in Nat
          BY SessionTypes DEF TftpInv
        <5> QED  BY <3>4, <4>1, <5>1
      <4>2. CASE block >= 1 /\ sess[p].blk = block - 1
        <5>1. r.blk \in {(block - 1) % Word, sess[p].blk % Word}
          BY <1>1, <3>1, <3>4 DEF Ordered
        <5>2. block - 1 \in Nat /\ (block - 1) + 1 = block
          BY <1>2, <4>2
        <5>3. (block - 1) % Word # block % Word
          BY <5>2, InARow
        <5> QED  BY <1>5, <4>2, <5>1, <5>3
      <4> QED  BY <1>2, <3>4, <4>1, <4>2
    <3>6. ASSUME NEW i \in DOMAIN s2c, s2c[i].port = p  PROVE s2c[i].blk = block % Word
      <4>1. CASE i = 1
        BY <1>1, <1>5, <4>1
      <4>2. CASE i # 1
        <5>1. 1 < i
          BY <1>4, <4>2
        <5> QED  BY <1>1, <1>5, <3>1, <3>4, <3>6, <5>1 DEF Ordered
      <4> QED  BY <4>1, <4>2
    <3> QED  BY <3>5, <3>6
  <2> QED  BY <2>1, <2>2
<1>7. Lo' = block
  BY <1>2 DEF Lo
<1>8. Ordered(s2c, p, {block % Word}, block % Word)
  BY <1>6 DEF Ordered
<1>9. Ordered(s2c', p, {block % Word}, block % Word)
  BY <1>4, <1>8, ThinOrdered
<1>10. sess'[p].blk = block /\ {Lo' % Word, sess'[p].blk % Word} = {block % Word} /\ block \in Lo' .. block'
  BY <1>2, <1>6, <1>7
<1> QED  BY <1>2, <1>3, <1>9, <1>10

\* A received number the client waits for.
LEMMA WantedIs ==
  ASSUME NEW b \in Nat, NEW k \in Nat, b = k % Word
  PROVE  b < Word /\ b % Word = b
<1> DEFINE w == Word
<1>1. w \in Nat \ {0, 1}
  BY TftpAssumption
<1> HIDE DEF w
<1>2. k % w \in 0 .. w - 1
  BY <1>1, SMT
<1>3. b \in 0 .. Word /\ b # Word
  BY <1>1, <1>2 DEF w
<1>4. b % Word = b
  BY <1>3, Wire
<1> QED  BY <1>1, <1>3, <1>4 DEF w

\* The client goes on waiting.
LEMMA AgainInv ==
  ASSUME TftpInv, NEW r, Receive(r), call # "open", pc' = "send", start' = start, end' = end, eof' = eof,
         pkt' = pkt, c2s' = c2s, s2c' \in Seq(Replies), Thins(s2c', s2c)
  PROVE  TftpInv'
<1>1. /\ pc = "recv" /\ Waiting /\ ~eof /\ WireStep /\ faults' = faults /\ sin_port' = sin_port /\ Known'
      /\ buf' = (IF mode = "read" THEN r.data ELSE buf) /\ buf' \in Seq(Nat)
  BY Received
<1>2. /\ mode' = mode /\ block' = block /\ foffs' = foffs /\ call' = call /\ nb' = nb /\ file' = file
      /\ short' = short /\ written' = written /\ sess' = sess
  BY <1>1 DEF WireStep
<1>3. c2s' \in Seq(Queries)
  BY Channels
<1>4. Order'
  <2>1. s2c' \in Seq(Packets)
    BY Channels, SeqSub
  <2>2. (Waiting' <=> Waiting) /\ (Small' => Small)
    BY <1>1, <1>2 DEF Waiting, Small
  <2> QED  BY <1>1, <1>2, <2>1, <2>2, OrderThins
<1>5. FileOK' /\ CallOK'
  BY <1>1, <1>2 DEF TftpInv, FileOK, CallOK
<1>6. Reads'
  BY <1>1, <1>2 DEF TftpInv, Reads, ReadWaits, ReadReady, ReadEnds, Waiting
<1>7. Writes'
  BY <1>1, <1>2 DEF TftpInv, Writes, WriteWaits, WriteReady, AtLast, Waiting
<1> QED  BY <1>1, <1>3, <1>4, <1>5, <1>6, <1>7, WireStepInv

LEMMA RecvStrangerInv == ASSUME TftpInv, RecvStranger  PROVE TftpInv'
<1>1. PICK r : /\ Receive(r) /\ ServerPort(r.port) # r.port /\ pc' = "send" /\ s2c' = Tail(s2c)
               /\ start' = start /\ end' = end /\ eof' = eof /\ pkt' = pkt /\ c2s' = c2s
  BY DEF RecvStranger
<1>2. call # "open" /\ s2c # <<>>
  BY <1>1, Received
<1>3. s2c' \in Seq(Replies) /\ Thins(s2c', s2c)
  BY <1>1, <1>2, Channels, TailThins
<1> QED  BY <1>1, <1>2, <1>3, AgainInv

LEMMA RecvErrInv == ASSUME TftpInv, RecvErr  PROVE TftpInv'
<1>1. PICK r : /\ Receive(r) /\ ServerPort(r.port) = r.port /\ r.op = "ERR" /\ Return(-1) /\ s2c' = Tail(s2c)
               /\ eof' = eof /\ pkt' = pkt /\ c2s' = c2s
  BY DEF RecvErr
<1>2. /\ Waiting /\ WireStep /\ faults' = faults /\ Reply(r) /\ s2c # <<>> /\ Known' /\ ~eof
      /\ sin_port' = sin_port \/ (call = "open" /\ sin_port' \in Port)
      /\ buf' = (IF mode = "read" THEN r.data ELSE buf) /\ buf' \in Seq(Nat)
  BY <1>1, Received
<1>3. faults.hard /\ -1 \in Int /\ -1 < 0 /\ mode \in {"read", "write"}
  BY <1>1, <1>2 DEF Reply, ReadReply, WriteReply, WireStep
<1>4. c2s' \in Seq(Queries) /\ s2c' \in Seq(Replies)
  BY <1>1, <1>2, Channels, TailThins
<1>5. Order'
  BY <1>2, <1>3 DEF Order, InStep
<1>6. Writes' /\ Reads' /\ FileOK' /\ CallOK'
  <2>1. CASE mode = "write"
    BY <1>1, <1>2, <1>3, <2>1, WriteBack
  <2>2. CASE mode = "read"
    BY <1>1, <1>2, <1>3, <2>2, ReadFails
  <2> QED  BY <1>3, <2>1, <2>2
<1> QED  BY <1>2, <1>4, <1>5, <1>6, WireStepInv

LEMMA RecvAckInv == ASSUME TftpInv, RecvAck  PROVE TftpInv'
<1>1. PICK r : /\ Receive(r) /\ mode = "write" /\ r.op = "ACK" /\ ServerPort(r.port) = r.port /\ r.blk = block
               /\ Return(Len(pkt.data)) /\ s2c' = Tail(s2c) /\ eof' = eof /\ pkt' = pkt /\ c2s' = c2s
  BY DEF RecvAck, Wanted
<1>2. /\ Waiting /\ WireStep /\ r \in Packets /\ Reply(r) /\ s2c # <<>> /\ Known'
      /\ sin_port' = sin_port \/ (call = "open" /\ sin_port' \in Port)
      /\ buf' = buf /\ sin_port' \in Port /\ r.port = sin_port' /\ r.port \in Port
  BY <1>1, Received
<1>3. Len(pkt.data) \in Int
  BY DEF TftpInv, CallOK
<1>4. Writes' /\ Reads' /\ FileOK' /\ CallOK' /\ ~Waiting'
  BY <1>1, <1>2, <1>3, WriteBack
<1>5. s2c' \in Seq(Replies) /\ Thins(s2c', s2c) /\ s2c' \in Seq(Packets) /\ c2s' \in Seq(Queries)
  BY <1>1, <1>2, Channels, TailThins
<1>6. r.blk = block % Word
  <2>1. PICK k \in 0 .. sess[r.port].blk : r.blk = k % Word
    BY <1>1, <1>2 DEF Reply, WriteReply
  <2>2. k \in Nat /\ block \in Nat
    BY <1>2, SessionTypes DEF TftpInv, FileOK
  <2> QED  BY <1>1, <2>1, <2>2, WantedIs
<1>7. Order'
  BY <1>1, <1>2, <1>4, <1>5, <1>6, OrderDone
<1> QED  BY <1>2, <1>4, <1>5, <1>7, WireStepInv

\* A packet with the number the client does not want is not the first, and
\* when it is not the previous block either, the numbers have wrapped.
LEMMA OtherIs ==
  ASSUME TftpInv, NEW r, Receive(r), r.op = Answer, ServerPort(r.port) = r.port, r.blk # block
  PROVE  /\ call # "open" /\ r.port = sin_port /\ sin_port' = sin_port
         /\ (~faults.hard /\ Small /\ r.blk # block - 1) => r.blk = block % Word /\ block = Word
<1>1. /\ Waiting /\ ~eof /\ WireStep /\ r \in Packets /\ Reply(r) /\ r.port \in Port
      /\ 1 \in DOMAIN s2c /\ r = s2c[1] /\ (call # "open" => sin_port' = sin_port) /\ ServerPort(r.port) = sin_port'
  BY Received
<1>2. mode \in {"read", "write"} /\ r.op # "ERR"
  BY <1>1 DEF WireStep, Answer
<1>3. call # "open" /\ r.port = sin_port /\ sin_port' = sin_port
  <2>1. ASSUME call = "open"  PROVE FALSE
    BY <1>1, <1>2, <2>1, FirstBlock
  <2> QED  BY <1>1, <2>1
<1>4. ASSUME ~faults.hard, Small, r.blk # block - 1  PROVE r.blk = block % Word /\ block = Word
  <2>1. Lo = block - 1 /\ InStep
    BY <1>1, <1>3, <1>4 DEF Lo, InStep
  <2>2. /\ sess[sin_port].blk \in block - 1 .. block
        /\ r.blk \in {(block - 1) % Word, sess[sin_port].blk % Word}
    BY <1>1, <1>3, <2>1 DEF TftpInv, Order, Ordered
  <2>3. block \in 1 .. Word /\ Word \in Nat \ {0, 1}
    <3>1. mode = "read" => block \in 1 .. Word
      BY DEF TftpInv, Reads
    <3>2. mode = "write" => block >= 1 /\ block \in Nat /\ block <= Word
      BY <1>1, <1>3, <1>4, BlockBound DEF TftpInv, Writes, WriteWaits, FileOK
    <3>3. Word \in Nat \ {0, 1}
      BY TftpAssumption
    <3> QED  BY <1>2, <3>1, <3>2, <3>3
  <2>4. block - 1 \in 0 .. Word /\ block - 1 # Word /\ block \in 0 .. Word
    BY <2>3
  <2>5. (block - 1) % Word = block - 1 /\ block % Word = (IF block = Word THEN 0 ELSE block)
    BY <2>4, Wire
  <2>6. sess[sin_port].blk = block
    <3>1. ASSUME sess[sin_port].blk = block - 1  PROVE FALSE
      BY <1>4, <2>2, <2>5, <3>1
    <3> QED  BY <2>2, <2>3, <3>1
  <2>7. r.blk = block % Word
    BY <1>4, <2>2, <2>5, <2>6
  <2> QED  BY <2>5, <2>7
<1> QED  BY <1>3, <1>4

LEMMA RecvOtherInv == ASSUME TftpInv, RecvOther  PROVE TftpInv'
<1>1. PICK r : /\ Receive(r) /\ r.op = Answer /\ ServerPort(r.port) = r.port /\ r.blk # block
               /\ \E k \in 1 .. Len(s2c) : s2c' = Drop(s2c, k)
               /\ IF r.blk = block - 1 THEN pc' = "send" /\ start' = start /\ end' = end ELSE Return(-1)
               /\ eof' = eof /\ pkt' = pkt /\ c2s' = c2s
  BY DEF RecvOther, Wanted, NetFlush
<1>2. s2c' \in Seq(Replies) /\ Thins(s2c', s2c) /\ s2c' \in Seq(Packets) /\ c2s' \in Seq(Queries)
  <2>1. PICK k \in 1 .. Len(s2c) : s2c' = Drop(s2c, k)
    BY <1>1
  <2>2. k \in 0 .. Len(s2c) /\ s2c \in Seq(Replies)
    BY Channels
  <2>3. s2c' \in Seq(Replies) /\ Thins(s2c', s2c)
    BY <2>1, <2>2, DropThins
  <2> QED  BY <1>1, <2>3, Channels, SeqSub
<1>3. /\ call # "open" /\ r.port = sin_port /\ sin_port' = sin_port
      /\ (~faults.hard /\ Small /\ r.blk # block - 1) => r.blk = block % Word /\ block = Word
  BY <1>1, OtherIs
<1>4. CASE r.blk = block - 1
  BY <1>1, <1>2, <1>3, <1>4, AgainInv
<1>5. CASE r.blk # block - 1
  <2>1. /\ Waiting /\ WireStep /\ faults' = faults /\ Known' /\ ~eof
        /\ buf' = (IF mode = "read" THEN r.data ELSE buf) /\ buf' \in Seq(Nat)
    BY <1>1, Received
  <2>2. Return(-1) /\ -1 \in Int /\ -1 < 0 /\ mode \in {"read", "write"}
    BY <1>1, <1>5, <2>1 DEF WireStep
  <2>3. Writes' /\ Reads' /\ FileOK' /\ CallOK' /\ ~Waiting'
    <3>1. CASE mode = "write"
      BY <1>1, <1>3, <2>1, <2>2, <3>1, WriteBack
    <3>2. CASE mode = "read"
      <4>1. ASSUME ~faults'.hard, Len(file) <= BlkSize * (Word - 1)  PROVE end >= Len(file)
        <5>1. Small
          <6>1. Len(written) = 0
            BY <3>2 DEF TftpInv, Reads
          <6>2. Word * BlkSize \in Int /\ BlkSize * Word = Word * BlkSize /\ BlkSize \in Nat \ {0}
                /\ (Word - 1) * BlkSize = Word * BlkSize - BlkSize /\ Word - 1 \in Nat
            BY TftpAssumption, Products
          <6>3. (Word - 1) * BlkSize \in Nat
            BY <6>2, NatProduct
          <6> QED  BY <6>1, <6>2, <6>3 DEF Small
        <5>2. block = Word
          BY <1>3, <1>5, <2>1, <4>1, <5>1
        <5>3. end = (Word - 1) * BlkSize
          BY <2>1, <3>2, <5>2 DEF TftpInv, Reads, ReadWaits
        <5>4. Word - 1 \in Int
          BY TftpAssumption
        <5>5. BlkSize * (Word - 1) = (Word - 1) * BlkSize /\ (Word - 1) * BlkSize \in Int
          BY <5>4, Products
        <5>6. Len(file) \in Nat
          BY DEF TftpInv, ServerOK
        <5> QED  BY <4>1, <5>3, <5>5, <5>6
      <4> QED  BY <1>1, <1>3, <2>1, <2>2, <3>2, <4>1, ReadFails
    <3> QED  BY <2>2, <3>1, <3>2
  <2>4. Order'
    BY <1>1, <1>2, <1>3, <1>5, <2>3, OrderDone
  <2> QED  BY <1>2, <2>1, <2>3, <2>4, WireStepInv
<1> QED  BY <1>4, <1>5

\* The block that is delivered, and whether it is the last.
LEMMA BlockIs ==
  ASSUME file \in Seq(Nat), NEW k \in Nat \ {0}, NEW d, d = Chunk(file, k)
  PROVE  /\ d \in Seq(Nat) /\ Len(d) \in Nat /\ Len(d) <= BlkSize
         /\ Len(d) < BlkSize => (k - 1) * BlkSize + Len(d) >= Len(file)
<1>1. /\ k * BlkSize \in Int /\ (k - 1) * BlkSize = k * BlkSize - BlkSize /\ BlkSize \in Nat \ {0}
      /\ Len(file) \in Nat
  BY Products
<1>2. /\ d \in Seq(Nat)
      /\ k * BlkSize <= Len(file) => Len(d) = BlkSize
      /\ Len(file) < k * BlkSize =>
           Len(d) = IF (k - 1) * BlkSize <= Len(file) THEN Len(file) - (k - 1) * BlkSize ELSE 0
  BY ChunkIs
<1> QED  BY <1>1, <1>2

LEMMA RecvDataInv == ASSUME TftpInv, RecvData  PROVE TftpInv'
<1>1. PICK r : /\ Receive(r) /\ mode = "read" /\ r.op = "DATA" /\ ServerPort(r.port) = r.port /\ r.blk = block
               /\ eof' = (eof \/ LastBlock(r))
               /\ \/ r.data = <<>> /\ c2s' = Append(c2s, Packet("ACK", ServerPort(r.port), r.blk, <<>>))
                  \/ c2s' = c2s
               /\ Return(Len(r.data)) /\ s2c' = Tail(s2c) /\ pkt' = pkt
  BY DEF RecvData, Wanted
<1>2. /\ pc = "recv" /\ Waiting /\ ~eof /\ WireStep /\ faults' = faults
      /\ r \in Packets /\ Reply(r) /\ r.port \in Port /\ sess[r.port].st # "free" /\ s2c # <<>>
      /\ sin_port' = r.port /\ sin_port' \in Port /\ Known' /\ buf' = r.data
  BY <1>1, Received
<1>3. /\ mode' = mode /\ block' = block /\ foffs' = foffs /\ call' = call /\ nb' = nb /\ file' = file
      /\ short' = short /\ written' = written
  BY <1>2 DEF WireStep
<1>4. /\ block \in 1 .. Word /\ block \in Nat \ {0} /\ Word \in Nat \ {0, 1} /\ foffs \in Nat /\ start \in Int /\ end \in Int
      /\ foffs >= start /\ written = <<>> /\ ~short /\ end = (block - 1) * BlkSize /\ file \in Seq(Nat)
      /\ BlkSize \in Nat \ {0}
  BY <1>1, <1>2, TftpAssumption DEF TftpInv, Reads, ReadWaits, ReadEnds, FileOK, ServerOK
<1>5. PICK k \in 1 .. sess[r.port].blk : r.blk = k % Word /\ r.data = Chunk(file, k)
  BY <1>1, <1>2 DEF Reply, ReadReply
<1>6. k = block /\ block < Word /\ block % Word = block
  <2>1. sess[r.port].blk \in 1 .. block
    BY <1>1, <1>2 DEF TftpInv, Served, ReadSession
  <2>2. k \in 0 .. Word /\ k \in Nat
    BY <1>4, <2>1
  <2>3. k % Word = (IF k = Word THEN 0 ELSE k)
    BY <2>2, Wire
  <2>4. block < Word /\ block % Word = block
    BY <1>1, <1>4, <1>5, <2>2, WantedIs
  <2> QED  BY <1>1, <1>4, <1>5, <2>3, <2>4
<1> DEFINE d == r.data
<1>7. d = Chunk(file, block) /\ d \in Seq(Nat) /\ Len(d) \in Nat /\ Len(d) <= BlkSize
      /\ (Len(d) < BlkSize => (block - 1) * BlkSize + Len(d) >= Len(file))
  BY <1>4, <1>5, <1>6, BlockIs
<1>8. eof' \in BOOLEAN /\ (eof' <=> Len(d) < BlkSize)
  BY <1>1, <1>2, Zenon DEF LastBlock
<1>9. /\ pc' \in {"open", "read"} /\ start' = (block - 1) * BlkSize /\ end' = start' + Len(d) /\ foffs >= start'
  <2>1. \/ call = "open" /\ block = 1 /\ start = 0
        \/ call = "read" /\ foffs >= end
    BY <1>1, <1>2 DEF TftpInv, Reads, ReadWaits
  <2>2. Len(d) \in Int /\ ~(Len(d) < 0) /\ Return(Len(d))
    BY <1>1, <1>7
  <2>3. CASE call = "open" /\ block = 1 /\ start = 0
    <3>1. (block - 1) * BlkSize = 0
      BY <1>4, <2>3
    <3>2. pc' = "open" /\ start' = start /\ end' = end + Len(d)
      BY <1>1, <2>2, <2>3, ReturnIs
    <3> QED  BY <1>4, <2>3, <3>1, <3>2
  <2>4. CASE call = "read" /\ foffs >= end
    <3>1. pc' = "read" /\ start' = end /\ end' = end + Len(d)
      BY <2>2, <2>4, ReturnIs
    <3> QED  BY <1>4, <2>4, <3>1
  <2> QED  BY <2>1, <2>3, <2>4
<1>10. start' \in Int /\ end' \in Int /\ (start' >= end' => Len(d) = 0)
  <2>1. (block - 1) * BlkSize \in Int
    BY <1>4
  <2> QED  BY <1>7, <1>9, <2>1
<1>11. FileOK' /\ CallOK' /\ ~Waiting' /\ Writes'
  <2>1. FileOK'
    <3>1. mode' \in {"none", "read", "write"} /\ block' \in Nat /\ foffs' \in Nat /\ sin_port' \in Port \cup {WellKnown}
      BY <1>1, <1>2, <1>3, <1>4
    <3> QED  BY <1>2, <1>7, <1>8, <1>10, <3>1, Zenon DEF FileOK
  <2>2. CallOK' /\ ~Waiting' /\ Writes'
    BY <1>1, <1>3, <1>9 DEF TftpInv, CallOK, Waiting, Writes
  <2> QED  BY <2>1, <2>2
<1>12. Reads'
  <2>1. ReadWaits'
    BY <1>11 DEF ReadWaits
  <2>2. ReadReady'
    <3>1. ~eof' => Len(d) = BlkSize
      BY <1>4, <1>7, <1>8
    <3> QED  BY <1>2, <1>3, <1>6, <1>7, <1>9, <3>1 DEF ReadReady
  <2>3. ReadEnds'
    <3>1. ~short'
      BY <1>3, <1>4, Zenon
    <3>2. start' >= end' => start' >= Len(file)
      BY <1>4, <1>7, <1>9, <1>10
    <3>3. eof' => end' >= Len(file)
      BY <1>7, <1>8, <1>9
    <3> QED  BY <1>3, <3>1, <3>2, <3>3 DEF ReadEnds
  <2> QED  BY <1>1, <1>3, <1>4, <1>9, <2>1, <2>2, <2>3 DEF Reads
<1>13. s2c' \in Seq(Replies) /\ Thins(s2c', s2c) /\ s2c' \in Seq(Packets)
  BY <1>1, <1>2, Channels, TailThins
<1>14. c2s' \in Seq(Queries)
  <2>1. ASSUME d = <<>>  PROVE Packet("ACK", r.port, r.blk, <<>>) \in Queries
    <3> DEFINE o == "ACK"
               e == <<>>
               p == r.port
               b == r.blk
               q == Packet(o, p, b, e)
    <3>1. q \in Packets /\ q.op = "ACK" /\ q.port = r.port /\ q.blk = r.blk % Word
      <4>1. /\ o \in {"RRQ", "WRQ", "ACK", "DATA", "ERR"} /\ p \in Port \cup {WellKnown}
            /\ b \in Nat /\ e \in Seq(Nat)
        BY <1>1, <1>2, <1>4
      <4> HIDE DEF o, e, p, b
      <4>2. q \in Packets /\ q.op = o /\ q.port = p /\ q.blk = b % Word
        BY ONLY <4>1, PacketType
      <4> QED  BY <4>2 DEF o, p, b
    <3> HIDE DEF q
    <3>2. block \in 1 .. block /\ q.blk = block % Word /\ Len(Chunk(file, block)) < BlkSize
      BY <1>1, <1>4, <1>7, <2>1, <3>1
    <3>3. AckOf(q)
      BY <3>2 DEF AckOf
    <3>4. WellKnown \notin Port
      BY TftpAssumption DEF WellKnown
    <3>5. Query(q)
      BY <1>1, <1>2, <3>1, <3>3, <3>4 DEF Query, ReadQuery
    <3>6. q \in Queries
      BY <3>1, <3>5 DEF Queries
    <3> QED  BY <3>6 DEF q
  <2>2. c2s \in Seq(Queries)
    BY Channels
  <2>3. CASE c2s' = c2s
    BY <2>2, <2>3
  <2>4. CASE d = <<>> /\ c2s' = Append(c2s, Packet("ACK", r.port, r.blk, <<>>))
    BY <2>1, <2>2, <2>4, AppendProperties
  <2> QED  BY <1>1, <2>3, <2>4
<1>15. Order'
  BY <1>1, <1>2, <1>6, <1>11, <1>13, OrderDone
<1> QED  BY <1>2, <1>11, <1>12, <1>13, <1>14, <1>15, WireStepInv

-----------------------------------------------------------------------------
(* The theorems.                                                           *)

LEMMA PrefixIs ==
  ASSUME NEW s \in Seq(Nat), NEW m \in 0 .. Len(s)
  PROVE  IsPrefix(SubSeq(s, 1, m), s)
<1> DEFINE u == SubSeq(s, 1, m)
<1>1. u \in Seq(Nat) /\ Len(u) = m /\ \A i \in 1 .. m : u[i] = s[i]
  OBVIOUS
<1> HIDE DEF u
<1>2. Len(u) <= Len(s) /\ u = SubSeq(s, 1, Len(u))
  BY <1>1 DEF u
<1> QED  BY <1>2 DEF IsPrefix, u

LEMMA NextInv == ASSUME TftpInv, [Next]_vars  PROVE TftpInv'
<1>1. CASE Client
  BY <1>1, OpenInv, ReadLoopInv, ReadReturnInv, WriteLoopInv, WriteReturnInv, ReadInv, WriteInv, LSeekInv,
     CloseWriteInv, CloseReadInv, SendInv, SendFailsInv, RecvStrangerInv, RecvErrInv, RecvDataInv,
     RecvAckInv, RecvOtherInv DEF Client
<1>2. CASE Server
  BY <1>2, AcceptInv, ServeInv, RefuseInv, TimeoutInv DEF Server
<1>3. CASE Lose \/ Duplicate \/ Reorder \/ ServerFails
  BY <1>3, LoseInv, DuplicateInv, ReorderInv, ServerFailsInv
<1>4. CASE UNCHANGED vars
  <2>1. /\ SameClient /\ c2s' = c2s /\ s2c' = s2c /\ sess' = sess /\ faults' = faults
    BY <1>4 DEF vars, client, net, server, seen, SameClient
  <2>2. CASE mode \in {"read", "write"}
    <3>1. ChannelStep
      BY <2>1, <2>2 DEF ChannelStep, TftpInv, ServerOK
    <3>2. c2s' \in Seq(Queries) /\ s2c' \in Seq(Replies) /\ Thins(s2c', s2c)
      BY <2>1, Channels, ThinsSelf
    <3> QED  BY <3>1, <3>2, ChannelStepInv
  <2>3. CASE mode = "none"
    <3>1. /\ c2s = <<>> /\ s2c = <<>> /\ sin_port = WellKnown /\ WellKnown \notin Port
      BY <2>3, TftpAssumption DEF TftpInv, Fresh, WellKnown
    <3>2. FileOK' /\ CallOK' /\ ServerOK' /\ SeenOK' /\ Fresh' /\ Known' /\ Delivered'
      BY <2>1 DEF TftpInv, FileOK, CallOK, ServerOK, SeenOK, Fresh, Known, Delivered, SameClient
    <3>3. Served' /\ Reads' /\ Writes'
      BY <2>1, <2>3 DEF Served, Reads, Writes, SameClient
    <3>4. Order'
      BY <2>1, <3>1 DEF Order, InStep, SameClient
    <3>5. c2s' \in Seq(Queries') /\ s2c' \in Seq(Replies')
      BY <2>1, <3>1
    <3> QED  BY <3>2, <3>3, <3>4, <3>5 DEF TftpInv
  <2> QED  BY <2>2, <2>3 DEF TftpInv, FileOK
<1> QED  BY <1>1, <1>2, <1>3, <1>4 DEF Next

LEMMA Invariant == Spec => []TftpInv
<1>1. Init => TftpInv
  BY InitInv
<1>2. TftpInv /\ [Next]_vars => TftpInv'
  BY NextInv
<1> QED  BY <1>1, <1>2, PTL DEF Spec

\* tftp_read never delivers a byte that is not the file's byte at that offset;
\* and as long as packets are only lost or repeated, a read that comes back
\* short has reached the end of the file.
THEOREM ReadsAlwaysRight == Spec => []ReadsRight
<1>1. TftpInv => ReadsRight
  <2> SUFFICES ASSUME TftpInv  PROVE ReadsRight
    OBVIOUS
  <2>1. \A x \in got : x[1] \in DOMAIN file /\ file[x[1]] = x[2]
    BY DEF TftpInv, Delivered
  <2>2. ASSUME pc = "open", mode = "read", short, ~faults.hard, Len(file) <= BlkSize * (Word - 1)
        PROVE  foffs >= Len(file)
    <3>1. start >= Len(file) /\ foffs >= start
      BY <2>2 DEF TftpInv, Reads, ReadEnds
    <3>2. start \in Int /\ foffs \in Nat /\ Len(file) \in Nat
      BY DEF TftpInv, FileOK, ServerOK
    <3> QED  BY <3>1, <3>2
  <2> QED  BY <2>1, <2>2 DEF ReadsRight
<1> QED  BY <1>1, Invariant, PTL

\* What a session of the server has stored is a prefix of what tftp_write
\* accepted; and as long as packets are only lost or repeated, all of it is
\* stored once tftp_close has returned.
THEOREM StoresAlwaysRight == Spec => []StoresRight
<1>1. TftpInv => StoresRight
  <2> SUFFICES ASSUME TftpInv, Small
               PROVE  /\ \A p \in Port : IsPrefix(sess[p].store, written)
                      /\ (pc = "closed" /\ mode = "write" /\ block > 0 /\ ~faults.hard) =>
                           sess[sin_port].st = "kept" /\ sess[sin_port].store = written
    BY DEF StoresRight, Small
  <2>0. written \in Seq(Nat) /\ Len(written) \in Nat /\ block \in Nat /\ mode \in {"none", "read", "write"}
    BY DEF TftpInv, SeenOK, FileOK
  <2>1. ASSUME NEW p \in Port  PROVE IsPrefix(sess[p].store, written)
    <3>1. PICK m \in 0 .. Len(written) : sess[p].store = SubSeq(written, 1, m)
      <4>1. CASE sess[p].store = <<>>
        <5>1. SubSeq(written, 1, 0) = <<>> /\ 0 \in 0 .. Len(written)
          BY <2>0
        <5> QED  BY <4>1, <5>1
      <4>2. CASE mode = "write" /\ sess[p].st # "free"
        <5>1. /\ sess[p].store = SubSeq(written, 1, Least(sess[p].blk * BlkSize, Len(written)))
              /\ sess[p].blk \in Nat
          BY <4>2, SessionTypes DEF TftpInv, Served, WriteSession
        <5>2. sess[p].blk * BlkSize \in Nat
          BY <5>1, NatProduct
        <5>3. Least(sess[p].blk * BlkSize, Len(written)) \in 0 .. Len(written)
          BY <2>0, <5>2 DEF Least
        <5> QED  BY <5>1, <5>3
      <4> QED  BY <2>0, <4>1, <4>2 DEF TftpInv, Fresh, Served, ReadSession, WriteSession
    <3> QED  BY <2>0, <3>1, PrefixIs
  <2>2. ASSUME pc = "closed", mode = "write", block > 0, ~faults.hard
        PROVE  sess[sin_port].st = "kept" /\ sess[sin_port].store = written
    <3>1. block >= 1 /\ AtLast /\ sin_port \in Port /\ ~eof
      BY <2>0, <2>2 DEF TftpInv, Writes, WriteReady
    <3>2. Lo = block /\ InStep
      BY <2>2, <3>1 DEF Lo, InStep, Waiting
    <3>3. sess[sin_port].blk = block
      BY <2>0, <3>2 DEF TftpInv, Order
    <3>4. block * BlkSize \in Int /\ Len(written) < block * BlkSize
      BY <2>0, <3>1, Products DEF AtLast
    <3>5. sess[sin_port].st # "free" /\ WriteSession(sin_port)
      BY <2>2, <3>1 DEF TftpInv, Known, Served
    <3>6. /\ sess[sin_port].st \in {"write", "kept"}
          /\ sess[sin_port].store = SubSeq(written, 1, Least(block * BlkSize, Len(written)))
          /\ sess[sin_port].st = "write" => block * BlkSize <= Len(written)
      BY <2>2, <3>3, <3>5 DEF WriteSession
    <3>7. sess[sin_port].st = "kept"
      BY <2>0, <3>4, <3>6
    <3>8. Least(block * BlkSize, Len(written)) = Len(written) /\ 0 \in 0 .. Len(written)
      BY <2>0, <3>4 DEF Least
    <3>9. SubSeq(written, 1, Len(written)) = written
      BY <2>0, <3>8, Suffix
    <3> QED  BY <3>6, <3>7, <3>8, <3>9
  <2> QED  BY <2>1, <2>2
<1> QED  BY <1>1, Invariant, PTL

=============================================================================
