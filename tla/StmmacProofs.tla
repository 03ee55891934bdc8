---------------------------- MODULE StmmacProofs -----------------------------
(***************************************************************************)
(* Proofs about Stmmac, for rings of any size and counters of any width    *)
(* that is a multiple of them.                                             *)
(*                                                                         *)
(* A place on a ring is told by its distance Pos(b, i, m) from a place b   *)
(* (where the driver takes frames back, or where the engine stands), which *)
(* makes every step a matter of linear arithmetic: the first part leads    *)
(* the remainders of the counters back to places and distances.            *)
(***************************************************************************)
EXTENDS Stmmac, FiniteSetTheorems, SequenceTheorems, TLAPS

-----------------------------------------------------------------------------
(* Remainders.                                                             *)

LEMMA ModDef ==
  ASSUME NEW a \in Int, NEW m \in Nat \ {0}
  PROVE  a % m \in 0 .. m - 1 /\ a \div m \in Int /\ a = m * (a \div m) + (a % m)
BY SMT

LEMMA ModUnique ==
  ASSUME NEW m \in Nat \ {0}, NEW q \in Int, NEW r \in 0 .. m - 1
  PROVE  (m * q + r) % m = r
<1> DEFINE a == m * q + r
           p == a \div m
           s == a % m
<1>1. a \in Int
  BY SMT
<1>2. s \in 0 .. m - 1 /\ p \in Int /\ a = m * p + s
  BY <1>1, ModDef
<1>3. m * (q - p) = s - r
  <2> HIDE DEF p, s
  <2>1. m * q + r = m * p + s
    BY <1>2
  <2> QED  BY <2>1, <1>2, SMT
<1>4. q - p = 0
  <2> HIDE DEF p, s, a
  <2>1. CASE q - p >= 1
    <3>1. m * (q - p) >= m
      BY <2>1, <1>2, SMT
    <3> QED  BY <3>1, <1>3, <1>2, SMT
  <2>2. CASE q - p <= -1
    <3>1. m * (q - p) <= -m
      BY <2>2, <1>2, SMT
    <3> QED  BY <3>1, <1>3, <1>2, SMT
  <2> QED  BY <2>1, <2>2, <1>2, SMT
<1> HIDE DEF p, s, a
<1>5. s = r
  BY <1>2, <1>3, <1>4, SMT
<1> QED  BY <1>5 DEF s, a

\* The place j steps on from b, and how far i is from b, on a ring of m places.
At(b, j, m) == IF b + j < m THEN b + j ELSE b + j - m
Pos(b, i, m) == IF i >= b THEN i - b ELSE i - b + m

LEMMA ModPlus ==
  ASSUME NEW m \in Nat \ {0}, NEW a \in Int, NEW j \in 0 .. m
  PROVE  (a + j) % m = At(a % m, j, m)
<1> DEFINE q == a \div m
           r == a % m
<1>1. r \in 0 .. m - 1 /\ q \in Int /\ a = m * q + r
  BY ModDef
<1> HIDE DEF q, r
<1>2. CASE r + j < m
  <2>1. a + j = m * q + (r + j) /\ r + j \in 0 .. m - 1
    BY <1>1, <1>2, SMT
  <2>2. (m * q + (r + j)) % m = r + j
    BY <1>1, <2>1, ModUnique
  <2> QED  BY <1>2, <2>1, <2>2 DEF r, At
<1>3. CASE ~(r + j < m)
  <2>1. m * (q + 1) = m * q + m
    BY <1>1, SMT
  <2>2. a + j = m * (q + 1) + (r + j - m) /\ r + j - m \in 0 .. m - 1 /\ q + 1 \in Int
    BY <1>1, <1>3, <2>1, SMT
  <2>3. (m * (q + 1) + (r + j - m)) % m = r + j - m
    BY <2>2, ModUnique
  <2> QED  BY <1>3, <2>2, <2>3 DEF r, At
<1> QED  BY <1>2, <1>3
LEMMA ModSmall ==
  ASSUME NEW m \in Nat \ {0}, NEW r \in 0 .. m - 1
  PROVE  r % m = r
<1>1. m * 0 + r = r
  BY SMT
<1> QED  BY <1>1, ModUnique

\* The next value of a counter, and its place on a ring that divides its width.
LEMMA CountUp ==
  ASSUME NEW m \in Nat \ {0}, NEW W \in Nat, NEW k \in 2 .. W, W = k * m, NEW c \in 0 .. W - 1
  PROVE  /\ (c + 1) % W = (IF c + 1 < W THEN c + 1 ELSE 0)
         /\ ((c + 1) % W) % m = At(c % m, 1, m)
<1>0. W \in Nat \ {0} /\ c % W = c /\ c \in Int /\ 1 \in 0 .. m /\ 1 \in 0 .. W
  BY ModSmall
<1>1. (c + 1) % W = IF c + 1 < W THEN c + 1 ELSE 0
  <2>1. (c + 1) % W = At(c % W, 1, W)
    BY <1>0, ModPlus
  <2> QED  BY <1>0, <2>1 DEF At
<1>2. (c + 1) % m = At(c % m, 1, m)
  BY <1>0, ModPlus
<1>3. CASE c + 1 < W
  BY <1>1, <1>2, <1>3
<1>4. CASE ~(c + 1 < W)
  <2>1. c + 1 = m * k + 0 /\ 0 \in 0 .. m - 1 /\ k \in Int
    BY <1>4
  <2>2. (m * k + 0) % m = 0
    BY <2>1, ModUnique
  <2>3. (c + 1) % m = 0 /\ 0 % m = 0
    BY <2>1, <2>2, ModSmall
  <2> QED  BY <1>1, <1>2, <1>4, <2>3
<1> QED  BY <1>1, <1>3, <1>4

\* How far one counter is ahead of another.
LEMMA AheadDef ==
  ASSUME NEW W \in Nat \ {0}, NEW c \in 0 .. W - 1, NEW d \in 0 .. W - 1
  PROVE  (c - d) % W = Pos(d, c, W)
<1>1. CASE c >= d
  <2>1. c - d \in 0 .. W - 1
    BY <1>1
  <2> QED  BY <1>1, <2>1, ModSmall DEF Pos
<1>2. CASE c < d
  <2>1. c - d + W \in 0 .. W - 1 /\ c - d = W * (-1) + (c - d + W)
    BY <1>2
  <2>2. (W * (-1) + (c - d + W)) % W = c - d + W
    BY <2>1, ModUnique
  <2> QED  BY <1>2, <2>1, <2>2 DEF Pos
<1> QED  BY <1>1, <1>2

\* A counter ahead of another by n, less than a turn of the ring, is at the
\* place n steps on.
LEMMA AheadPlace ==
  ASSUME NEW m \in Nat \ {0}, NEW W \in Nat, NEW k \in 2 .. W, W = k * m,
         NEW c \in 0 .. W - 1, NEW d \in 0 .. W - 1, Pos(d, c, W) \in 0 .. m
  PROVE  c % m = At(d % m, Pos(d, c, W), m)
<1> DEFINE n == Pos(d, c, W)
<1>1. (d + n) % m = At(d % m, n, m)
  <2> HIDE DEF n
  <2> QED  BY ModPlus DEF n
<1>2. CASE c >= d
  BY <1>1, <1>2 DEF Pos
<1>3. CASE c < d
  <2>1. d + n = c + k * m
    BY <1>3 DEF Pos
  <2>2. (c + k * m) % m = c % m
    <3> DEFINE q == c \div m
               r == c % m
    <3>0. c \in Int
      OBVIOUS
    <3>1. r \in 0 .. m - 1 /\ q \in Int /\ c = m * q + r
      BY <3>0, ModDef
    <3> HIDE DEF q, r
    <3>2. c + k * m = m * (q + k) + r /\ q + k \in Int
      BY <3>1
    <3>3. (m * (q + k) + r) % m = r
      BY <3>1, <3>2, ModUnique
    <3> QED  BY <3>2, <3>3 DEF r
  <2> QED  BY <1>1, <2>1, <2>2
<1> QED  BY <1>2, <1>3

LEMMA PosDef ==
  ASSUME NEW m \in Nat \ {0}, NEW b \in 0 .. m - 1
  PROVE  /\ \A i \in 0 .. m - 1 : Pos(b, i, m) \in 0 .. m - 1 /\ At(b, Pos(b, i, m), m) = i
         /\ \A j \in 0 .. m - 1 : At(b, j, m) \in 0 .. m - 1 /\ Pos(b, At(b, j, m), m) = j
BY DEF Pos, At

-----------------------------------------------------------------------------
(* Numbers for frames, and histories.                                      *)

\* N places do not hold all of N + 1 numbers.
LEMMA SpareNumber ==
  ASSUME NEW N \in Nat \ {0}, NEW f, DOMAIN f = 0 .. N - 1
  PROVE  \E x \in 1 .. N + 1 : \A i \in 0 .. N - 1 : f[i] # x
<1> SUFFICES ASSUME \A x \in 1 .. N + 1 : \E i \in 0 .. N - 1 : f[i] = x  PROVE FALSE
  OBVIOUS
<1> DEFINE g == [x \in 1 .. N + 1 |-> CHOOSE i \in 0 .. N - 1 : f[i] = x]
<1>1. \A x \in 1 .. N + 1 : g[x] \in 0 .. N - 1 /\ f[g[x]] = x
  OBVIOUS
<1>2. g \in [1 .. N + 1 -> 0 .. N - 1]
  BY <1>1
<1>3. /\ IsFiniteSet(1 .. N + 1) /\ Cardinality(1 .. N + 1) = N + 1
      /\ IsFiniteSet(0 .. N - 1) /\ Cardinality(0 .. N - 1) = N
  BY FS_Interval
<1> HIDE DEF g
<1>4. \E x, y \in 1 .. N + 1 : x # y /\ g[x] = g[y]
  <2> DEFINE S == 1 .. N + 1
             T == 0 .. N - 1
  <2>1. IsFiniteSet(S) /\ IsFiniteSet(T) /\ Cardinality(T) < Cardinality(S) /\ g \in [S -> T]
    BY <1>2, <1>3
  <2> HIDE DEF S, T
  <2>2. \E x, y \in S : x # y /\ g[x] = g[y]
    BY <2>1, FS_PigeonHole
  <2> QED  BY <2>2 DEF S
<1> QED  BY <1>1, <1>4

Injective(s) == \A i, j \in 1 .. Len(s) : s[i] = s[j] => i = j

LEMMA WithoutDef ==
  ASSUME NEW S, NEW s \in Seq(S), Injective(s), NEW i \in 1 .. Len(s)
  PROVE  LET r == Without(s, s[i])
         IN  /\ r \in Seq(S) /\ Len(r) = Len(s) - 1
             /\ \A k \in 1 .. Len(s) - 1 : r[k] = IF k < i THEN s[k] ELSE s[k + 1]
<1> DEFINE a == SubSeq(s, 1, i - 1)
           b == SubSeq(s, i + 1, Len(s))
<1>1. Len(s) \in Nat /\ DOMAIN s = 1 .. Len(s) /\ s[i] \in Range(s)
  BY LenProperties DEF Range
<1>2. i = CHOOSE j \in DOMAIN s : s[j] = s[i]
  BY <1>1 DEF Injective
<1>3. Without(s, s[i]) = a \o b
  BY <1>1, <1>2 DEF Without
<1>4. \A j \in 1 .. Len(s) : s[j] \in S
  BY ElementOfSeq
<1>5. /\ a \in Seq(S) /\ Len(a) = i - 1
      /\ \A k \in 1 .. i - 1 : a[k] = s[k]
  <2>1. 1 \in Int /\ i - 1 \in Int /\ \A j \in 1 .. i - 1 : s[j] \in S
    BY <1>1, <1>4
  <2>2. /\ a \in Seq(S) /\ Len(a) = (IF 1 <= i - 1 THEN (i - 1) - 1 + 1 ELSE 0)
        /\ \A k \in 1 .. (i - 1) - 1 + 1 : a[k] = s[1 + k - 1]
    BY <2>1, SubSeqProperties
  <2> HIDE DEF a
  <2> QED  BY <1>1, <2>2
<1>6. /\ b \in Seq(S) /\ Len(b) = Len(s) - i
      /\ \A k \in 1 .. Len(s) - i : b[k] = s[k + i]
  <2>1. i + 1 \in Int /\ Len(s) \in Int /\ \A j \in i + 1 .. Len(s) : s[j] \in S
    BY <1>1, <1>4
  <2>2. /\ b \in Seq(S) /\ Len(b) = (IF i + 1 <= Len(s) THEN Len(s) - (i + 1) + 1 ELSE 0)
        /\ \A k \in 1 .. Len(s) - (i + 1) + 1 : b[k] = s[(i + 1) + k - 1]
    BY <2>1, SubSeqProperties
  <2>3. Len(s) - (i + 1) + 1 = Len(s) - i /\ \A k \in 1 .. Len(s) - i : (i + 1) + k - 1 = k + i
    BY <1>1
  <2> HIDE DEF b
  <2>4. Len(b) = Len(s) - i
    <3> DEFINE L == Len(s)
    <3>1. L \in Nat /\ i \in 1 .. L /\ Len(b) = IF i + 1 <= L THEN L - (i + 1) + 1 ELSE 0
      BY <1>1, <2>2
    <3> HIDE DEF L
    <3>2. Len(b) = L - i
      BY <3>1
    <3> QED  BY <3>2 DEF L
  <2> QED  BY <2>2, <2>3, <2>4
<1> HIDE DEF a, b
<1>7. /\ a \o b \in Seq(S) /\ Len(a \o b) = Len(s) - 1
      /\ \A k \in 1 .. Len(s) - 1 : (a \o b)[k] = IF k <= i - 1 THEN a[k] ELSE b[k - (i - 1)]
  <2>1. /\ a \o b \in Seq(S) /\ Len(a \o b) = Len(a) + Len(b)
        /\ \A k \in 1 .. Len(a) + Len(b) : (a \o b)[k] = IF k <= Len(a) THEN a[k] ELSE b[k - Len(a)]
    BY <1>5, <1>6, ConcatProperties
  <2> QED  BY <1>1, <1>5, <1>6, <2>1
<1>8. \A k \in 1 .. Len(s) - 1 : (a \o b)[k] = IF k < i THEN s[k] ELSE s[k + 1]
  BY <1>1, <1>5, <1>6, <1>7
<1> QED  BY <1>3, <1>7, <1>8

LEMMA WithoutKept ==
  ASSUME NEW S, NEW s \in Seq(S), Injective(s), NEW i \in 1 .. Len(s), NEW r, r = Without(s, s[i])
  PROVE  /\ Injective(r)
         /\ \A k \in 1 .. Len(r) : \E j \in 1 .. Len(s) : j # i /\ r[k] = s[j]
<1>1. Len(s) \in Nat
  BY LenProperties
<1>2. /\ Len(r) = Len(s) - 1
      /\ \A k \in 1 .. Len(s) - 1 : r[k] = IF k < i THEN s[k] ELSE s[k + 1]
  BY WithoutDef
<1>3. ASSUME NEW k \in 1 .. Len(r), NEW j \in 1 .. Len(r), r[k] = r[j]  PROVE k = j
  <2> DEFINE K == IF k < i THEN k ELSE k + 1
             J == IF j < i THEN j ELSE j + 1
  <2>1. K \in 1 .. Len(s) /\ J \in 1 .. Len(s) /\ r[k] = s[K] /\ r[j] = s[J]
    BY <1>1, <1>2
  <2>2. K = J
    <3> HIDE DEF K, J
    <3> QED  BY <1>3, <2>1 DEF Injective
  <2> QED  BY <1>1, <1>2, <2>2
<1>4. ASSUME NEW k \in 1 .. Len(r)  PROVE \E j \in 1 .. Len(s) : j # i /\ r[k] = s[j]
  <2>1. CASE k < i
    BY <1>1, <1>2, <2>1
  <2>2. CASE ~(k < i)
    <3>1. k + 1 \in 1 .. Len(s) /\ k + 1 # i /\ r[k] = s[k + 1]
      BY <1>1, <1>2, <2>2
    <3> QED  BY <3>1
  <2> QED  BY <2>1, <2>2
<1> QED  BY <1>3, <1>4 DEF Injective

LEMMA WithoutRest ==
  ASSUME NEW S, NEW s \in Seq(S), Injective(s), NEW f, NEW r, r = Without(s, f)
  PROVE  /\ r \in Seq(S) /\ Injective(r)
         /\ \A k \in 1 .. Len(r) : \E j \in 1 .. Len(s) : r[k] = s[j] /\ s[j] # f
<1>1. DOMAIN s = 1 .. Len(s)
  BY LenProperties
<1>2. CASE f \notin Range(s)
  <2>1. r = s
    BY <1>2 DEF Without
  <2>2. \A k \in 1 .. Len(s) : s[k] # f
    BY <1>1, <1>2 DEF Range
  <2> QED  BY <2>1, <2>2
<1>3. CASE f \in Range(s)
  <2>1. PICK i \in 1 .. Len(s) : f = s[i]
    BY <1>1, <1>3 DEF Range
  <2>2. r = Without(s, s[i])
    BY <2>1
  <2>3. r \in Seq(S)
    BY <2>2, WithoutDef
  <2>4. Injective(r)
    BY <2>2, WithoutKept
  <2>5. \A k \in 1 .. Len(r) : \E j \in 1 .. Len(s) : j # i /\ r[k] = s[j]
    BY <2>2, WithoutKept
  <2>6. \A j \in 1 .. Len(s) : j # i => s[j] # f
    BY <2>1 DEF Injective
  <2> QED  BY <2>3, <2>4, <2>5, <2>6
<1> QED  BY <1>2, <1>3

-----------------------------------------------------------------------------
(* The inductive invariant.                                                *)

Used == Pos(dirty, cur, Wrap)
TxDirty == dirty % TxRing
TxCur == cur % TxRing
RxCur == rcur % RxRing

\* What the engine has still to send.
Unsent == Pos(hw.tx, TxCur, TxRing)

Typed ==
  /\ TypeOK
  /\ due \in Seq(TxFrame) /\ rdue \in Seq(RxFrame) /\ erred \in BOOLEAN

\* The queue of the interface is empty but in stmmac_xmit, and nothing is
\* under way while the interface is down.
Quiet ==
  /\ Len(ifq) <= 1
  /\ pc # "xmit" => ifq = <<>>
  /\ pc # "irq" => seen = {}
  /\ ~up => pc = "idle" /\ due = <<>> /\ rdue = <<>>
  /\ "TPS" \in status \cup seen => erred

\* The transmit ring and the counters, whatever the engine did; no frame is
\* in two places, and what is due is in the hands of the engine or queued.
Ring ==
  /\ Used < TxRing
  /\ \A i \in TxSlot : tx[i].buf # 0 <=> Pos(TxDirty, i, TxRing) < Used
  /\ \A i \in TxSlot : tx[i].own => tx[i].buf # 0
  /\ hw.txbusy => tx[hw.tx].own
  /\ \A i, j \in TxSlot : tx[i].buf = tx[j].buf /\ tx[i].buf # 0 => i = j
  /\ ifq # <<>> => \A i \in TxSlot : tx[i].buf # ifq[1]
  /\ Injective(due)
  /\ \A k \in 1 .. Len(due) : \/ \E i \in TxSlot : tx[i].own /\ tx[i].buf = due[k]
                              \/ ifq # <<>> /\ due[k] = ifq[1]

\* Without a hard error the engine stands between the two counters, owns all
\* from there to cur, and will send what is due.
Sent ==
  /\ Pos(TxDirty, hw.tx, TxRing) <= Used
  /\ \A i \in TxSlot : tx[i].own <=> Pos(hw.tx, i, TxRing) < Unsent
  /\ Len(due) = Unsent + Len(ifq)
  /\ \A i \in TxSlot : tx[i].own => due[Pos(hw.tx, i, TxRing) + 1] = tx[i].buf
  /\ ifq # <<>> => due[Unsent + 1] = ifq[1]

\* The receive ring: what arrived lies from rcur to where the engine stands.
Reception ==
  /\ Len(rdue) <= RxRing
  /\ hw.rx = At(RxCur, Len(rdue), RxRing)
  /\ \A i \in RxSlot : rx[i].own <=> Pos(RxCur, i, RxRing) >= Len(rdue)
  /\ \A i \in RxSlot : ~rx[i].own => rdue[Pos(RxCur, i, RxRing) + 1] = rx[i].buf
  /\ hw.rxbusy => rx[hw.rx].own

RingInv ==
  /\ Typed /\ Quiet
  /\ up => Ring /\ Reception
  /\ up /\ ~erred => Sent

LEMMA Sizes ==
  /\ TxRing \in Nat \ {0} /\ RxRing \in Nat \ {0} /\ Wrap \in Nat \ {0}
  /\ TxRing < Wrap /\ RxRing < Wrap /\ QMax \in Nat \ {0}
<1>1. ASSUME NEW m \in Nat \ {0}, NEW k \in 2 .. Wrap, Wrap = k * m, Wrap \in Nat  PROVE m < Wrap
  <2>1. k * m >= 2 * m
    BY <1>1
  <2> QED  BY <1>1, <2>1
<1> QED  BY <1>1, StmmacAssumption

\* Where the counters stand.
LEMMA Counters ==
  ASSUME TypeOK
  PROVE  /\ TxDirty \in TxSlot /\ TxCur \in TxSlot /\ RxCur \in RxSlot
         /\ Used \in 0 .. Wrap - 1 /\ Used = (cur - dirty) % Wrap
         /\ Used = 0 <=> dirty = cur
         /\ Used < TxRing => TxCur = At(TxDirty, Used, TxRing)
         /\ Used < TxRing => (Avail = 0 <=> Used = TxRing - 1)
<1>0. cur \in 0 .. Wrap - 1 /\ dirty \in 0 .. Wrap - 1 /\ rcur \in 0 .. Wrap - 1
  BY DEF TypeOK
<1>1. TxDirty \in TxSlot /\ TxCur \in TxSlot /\ RxCur \in RxSlot
  <2>1. cur \in Int /\ dirty \in Int /\ rcur \in Int
    BY <1>0, Sizes
  <2> QED  BY <2>1, Sizes, ModDef DEF TxDirty, TxCur, RxCur, TxSlot, RxSlot
<1>2. Used \in 0 .. Wrap - 1 /\ (Used = 0 <=> dirty = cur)
  BY <1>0, Sizes DEF Used, Pos
<1>3. Used = (cur - dirty) % Wrap
  BY <1>0, Sizes, AheadDef DEF Used
<1>4. Used < TxRing => TxCur = At(TxDirty, Used, TxRing)
  <2>1. PICK k \in 2 .. Wrap : Wrap = k * TxRing
    BY StmmacAssumption
  <2>2. Used < TxRing => Pos(dirty, cur, Wrap) \in 0 .. TxRing
    BY <1>2, Sizes DEF Used
  <2> QED  BY <1>0, <2>1, <2>2, Sizes, AheadPlace DEF Used, TxCur, TxDirty
<1>5. Used < TxRing => (Avail = 0 <=> Used = TxRing - 1)
  <2> SUFFICES ASSUME Used < TxRing  PROVE Avail = 0 <=> Used = TxRing - 1
    OBVIOUS
  <2> DEFINE v == TxRing - 1 - Used
  <2>1. v \in 0 .. Wrap - 1
    BY <1>2, Sizes
  <2>2. dirty + TxRing - cur - 1 = Wrap * (IF cur >= dirty THEN 0 ELSE 1) + v
    BY <1>0, Sizes DEF Used, Pos
  <2>3. (Wrap * (IF cur >= dirty THEN 0 ELSE 1) + v) % Wrap = v
    <3> DEFINE q == IF cur >= dirty THEN 0 ELSE 1
    <3>1. q \in Int
      OBVIOUS
    <3> HIDE DEF q, v
    <3>2. (Wrap * q + v) % Wrap = v
      BY <2>1, <3>1, Sizes, ModUnique
    <3> QED  BY <3>2 DEF q
  <2>4. Avail = v
    BY <2>2, <2>3 DEF Avail
  <2> QED  BY <1>2, <2>4, Sizes
<1> QED  BY <1>1, <1>2, <1>3, <1>4, <1>5

\* One frame more in the ring, and one less.
LEMMA CurUp ==
  ASSUME TypeOK, cur' = (cur + 1) % Wrap, dirty' = dirty, Used < TxRing
  PROVE  cur' \in 0 .. Wrap - 1 /\ TxDirty' = TxDirty /\ TxCur' = At(TxCur, 1, TxRing) /\ Used' = Used + 1
<1>0. cur \in 0 .. Wrap - 1 /\ dirty \in 0 .. Wrap - 1 /\ Used \in 0 .. Wrap - 1
  BY Counters DEF TypeOK
<1>1. PICK k \in 2 .. Wrap : Wrap = k * TxRing
  BY StmmacAssumption
<1>2. /\ cur' = (IF cur + 1 < Wrap THEN cur + 1 ELSE 0)
      /\ cur' % TxRing = At(cur % TxRing, 1, TxRing)
  BY <1>0, <1>1, Sizes, CountUp
<1>3. cur' \in 0 .. Wrap - 1 /\ Used' = Used + 1
  BY <1>0, <1>2, Sizes DEF Used, Pos
<1> QED  BY <1>2, <1>3 DEF TxCur, TxDirty

LEMMA DirtyUp ==
  ASSUME TypeOK, dirty' = (dirty + 1) % Wrap, cur' = cur, dirty # cur
  PROVE  dirty' \in 0 .. Wrap - 1 /\ TxDirty' = At(TxDirty, 1, TxRing) /\ TxCur' = TxCur /\ Used' = Used - 1
<1>0. cur \in 0 .. Wrap - 1 /\ dirty \in 0 .. Wrap - 1
  BY DEF TypeOK
<1>1. PICK k \in 2 .. Wrap : Wrap = k * TxRing
  BY StmmacAssumption
<1>2. /\ dirty' = (IF dirty + 1 < Wrap THEN dirty + 1 ELSE 0)
      /\ dirty' % TxRing = At(dirty % TxRing, 1, TxRing)
  BY <1>0, <1>1, Sizes, CountUp
<1>3. dirty' \in 0 .. Wrap - 1 /\ Used' = Used - 1
  BY <1>0, <1>2, Sizes DEF Used, Pos
<1> QED  BY <1>2, <1>3 DEF TxCur, TxDirty

LEMMA RcurUp ==
  ASSUME TypeOK, rcur' = (rcur + 1) % Wrap
  PROVE  rcur' \in 0 .. Wrap - 1 /\ RxCur' = At(RxCur, 1, RxRing)
<1>0. rcur \in 0 .. Wrap - 1
  BY DEF TypeOK
<1>1. PICK k \in 2 .. Wrap : Wrap = k * RxRing
  BY StmmacAssumption
<1>2. /\ rcur' = (IF rcur + 1 < Wrap THEN rcur + 1 ELSE 0)
      /\ rcur' % RxRing = At(rcur % RxRing, 1, RxRing)
  BY <1>0, <1>1, Sizes, CountUp
<1> QED  BY <1>0, <1>2, Sizes DEF RxCur

-----------------------------------------------------------------------------
(* Setting up.                                                             *)

LEMMA RingInvInit == Init => RingInv
<1> SUFFICES ASSUME Init  PROVE RingInv
  OBVIOUS
<1> USE Sizes
<1>1. <<>> \in Seq(TxFrame) /\ <<>> \in Seq(RxFrame) /\ Len(<<>>) = 0
  BY EmptySeq
<1>2. up \in BOOLEAN /\ ~up /\ erred \in BOOLEAN /\ pc = "idle" /\ status = {} /\ seen = {}
  BY DEF Init
<1>3. tx \in [TxSlot -> [own : BOOLEAN, buf : {0} \cup TxFrame]]
  BY DEF Init
<1>4. rx \in [RxSlot -> [own : BOOLEAN, buf : {0} \cup RxFrame]]
  BY DEF Init
<1>5. cur \in 0 .. Wrap - 1 /\ dirty \in 0 .. Wrap - 1 /\ rcur \in 0 .. Wrap - 1
  BY DEF Init
<1>6. hw \in [tx : TxSlot, rx : RxSlot, run : BOOLEAN, txbusy : BOOLEAN, rxbusy : BOOLEAN]
  BY DEF Init, TxSlot, RxSlot
<1>7. ifq = <<>> /\ due = <<>> /\ rdue = <<>>
  BY DEF Init
<1>8. TypeOK
  BY <1>1, <1>2, <1>3, <1>4, <1>5, <1>6, <1>7 DEF TypeOK
<1> QED  BY <1>1, <1>2, <1>7, <1>8 DEF RingInv, Typed, Quiet

\* Rings without a frame, as stmmac_open and stmmac_tx_err leave them.
LEMMA RingEmpty ==
  ASSUME cur' = 0, dirty' = 0, tx' = [i \in TxSlot |-> [own |-> FALSE, buf |-> 0]],
         ~hw'.txbusy, ifq' = <<>>, due' = <<>>
  PROVE  Ring' /\ TxDirty' = 0 /\ TxCur' = 0 /\ Used' = 0
<1> USE Sizes
<1>1. 0 % TxRing = 0
  BY ModSmall
<1>2. TxDirty' = 0 /\ TxCur' = 0 /\ Used' = 0
  BY <1>1 DEF TxDirty, TxCur, Used, Pos
<1>3. \A i \in TxSlot : tx'[i] = [own |-> FALSE, buf |-> 0]
  OBVIOUS
<1>4. Len(due') = 0
  BY EmptySeq
<1>5. \A i \in TxSlot : ~(Pos(0, i, TxRing) < 0)
  BY DEF Pos, TxSlot
<1> QED  BY <1>2, <1>3, <1>4, <1>5 DEF Ring, Injective

LEMMA OpenKeeps == RingInv /\ Open => RingInv'
<1> SUFFICES ASSUME RingInv, Open  PROVE RingInv'
  OBVIOUS
<1> USE Sizes
<1>0. ifq = <<>> /\ due = <<>> /\ rdue = <<>> /\ pc = "idle"
  BY DEF RingInv, Quiet, Open
<1>1. Typed'
  <2>1. TypeOK'
    BY DEF RingInv, Typed, TypeOK, Open, TxSlot, RxSlot
  <2> QED  BY <2>1 DEF RingInv, Typed, Open
<1>2. Quiet'
  BY <1>0 DEF RingInv, Quiet, Open
<1>3. Ring' /\ TxDirty' = 0 /\ TxCur' = 0 /\ Used' = 0
  BY <1>0, RingEmpty DEF Open
<1>4. Sent'
  <2>1. hw'.tx = 0 /\ due' = <<>> /\ ifq' = <<>> /\ Len(<<>>) = 0
    BY <1>0, EmptySeq DEF Open
  <2>2. \A i \in TxSlot : tx'[i] = [own |-> FALSE, buf |-> 0]
    BY DEF Open
  <2>3. Unsent' = 0 /\ Pos(0, 0, TxRing) = 0 /\ \A i \in TxSlot : ~(Pos(0, i, TxRing) < 0)
    BY <1>3, <2>1 DEF Unsent, Pos, TxSlot
  <2> QED  BY <1>3, <2>1, <2>2, <2>3 DEF Sent
<1>5. Reception'
  <2>1. hw'.rx = 0 /\ rdue' = <<>> /\ Len(<<>>) = 0 /\ ~hw'.rxbusy /\ rcur' = 0
    BY <1>0, EmptySeq DEF Open
  <2>2. \A i \in RxSlot : rx'[i] = [own |-> TRUE, buf |-> 0]
    BY DEF Open
  <2>3. RxCur' = 0
    BY <2>1, ModSmall DEF RxCur
  <2>4. At(0, 0, RxRing) = 0 /\ \A i \in RxSlot : Pos(0, i, RxRing) >= 0
    BY DEF At, Pos, RxSlot
  <2> QED  BY <2>1, <2>2, <2>3, <2>4 DEF Reception
<1> QED  BY <1>1, <1>2, <1>3, <1>4, <1>5 DEF RingInv

LEMMA RemoveKeeps == RingInv /\ Remove => RingInv'
<1> SUFFICES ASSUME RingInv, Remove  PROVE RingInv'
  OBVIOUS
<1>1. <<>> \in Seq(TxFrame) /\ <<>> \in Seq(RxFrame)
  BY EmptySeq
<1>2. TypeOK'
  BY DEF RingInv, Typed, TypeOK, Remove, driver
<1> QED  BY <1>1, <1>2 DEF RingInv, Typed, Quiet, Remove, driver

-----------------------------------------------------------------------------
(* Sending.                                                                *)

\* What does not touch the transmit ring leaves Ring and Sent as they are, and
\* the same for the receive ring.
LEMMA TxFrameRule ==
  ASSUME UNCHANGED <<cur, dirty, tx, ifq, due>>, hw'.tx = hw.tx, hw'.txbusy => hw.txbusy
  PROVE  (Ring => Ring') /\ (Sent => Sent')
BY DEF Ring, Sent, Used, TxDirty, TxCur, Unsent

LEMMA RxFrameRule ==
  ASSUME UNCHANGED <<rcur, rx, rdue>>, hw'.rx = hw.rx, hw'.rxbusy => hw.rxbusy, Reception
  PROVE  Reception'
BY DEF Reception, RxCur

\* The next frame's number is new.
LEMMA NewTxNew ==
  ASSUME Typed, Ring, ifq = <<>>
  PROVE  /\ NewTx \in TxFrame
         /\ \A i \in TxSlot : tx[i].buf # NewTx
         /\ \A k \in 1 .. Len(due) : due[k] # NewTx
<1> DEFINE f == [i \in 0 .. TxRing - 1 |-> tx[i].buf]
<1>0. DOMAIN f = 0 .. TxRing - 1 /\ \A i \in 0 .. TxRing - 1 : f[i] = tx[i].buf
  OBVIOUS
<1> HIDE DEF f
<1>1. PICK x \in 1 .. TxRing + 1 : \A i \in 0 .. TxRing - 1 : f[i] # x
  <2>1. TxRing \in Nat \ {0} /\ DOMAIN f = 0 .. TxRing - 1
    BY <1>0, Sizes
  <2> QED  BY <2>1, SpareNumber, Zenon
<1>2. x \in TxFrame /\ \A i \in TxSlot : tx[i].buf # x
  BY <1>0, <1>1 DEF TxFrame, TxSlot
<1>3. DOMAIN due = 1 .. Len(due)
  BY LenProperties DEF Typed
<1>4. \A k \in 1 .. Len(due) : \E i \in TxSlot : tx[i].buf = due[k]
  BY DEF Ring
<1>5. x \notin {tx[i].buf : i \in TxSlot} \cup Range(due)
  BY <1>2, <1>3, <1>4 DEF Range
<1>6. NewTx \in TxFrame /\ NewTx \notin {tx[i].buf : i \in TxSlot} \cup Range(due)
  BY <1>2, <1>5 DEF NewTx
<1> QED  BY <1>3, <1>6 DEF Range

LEMMA OutputKeeps == RingInv /\ Output => RingInv'
<1> SUFFICES ASSUME RingInv, Output  PROVE RingInv'
  OBVIOUS
<1> DEFINE f == NewTx
<1> USE Sizes
<1>0. up /\ Typed /\ Ring /\ ifq = <<>> /\ pc = "idle"
  BY DEF RingInv, Quiet, Output
<1>1. f \in TxFrame /\ (\A i \in TxSlot : tx[i].buf # f) /\ (\A k \in 1 .. Len(due) : due[k] # f)
  BY <1>0, NewTxNew
<1> HIDE DEF f
<1>2. ifq' = Append(ifq, f) /\ due' = Append(due, f)
  BY <1>0, EmptySeq DEF Output, f
<1>3. ifq' \in Seq(TxFrame) /\ Len(ifq') = 1 /\ ifq'[1] = f /\ ifq' # <<>>
  BY <1>0, <1>1, <1>2
<1>4. /\ due \in Seq(TxFrame) /\ due' \in Seq(TxFrame) /\ Len(due) \in Nat /\ Len(due') = Len(due) + 1
      /\ \A k \in 1 .. Len(due) : due'[k] = due[k]
      /\ due'[Len(due) + 1] = f
  BY <1>0, <1>1, <1>2, AppendProperties, LenProperties DEF Typed
<1>5. Typed'
  BY <1>0, <1>3, <1>4 DEF Typed, TypeOK, Output, TxFrame, TxSlot
<1>6. Quiet'
  BY <1>0, <1>3 DEF RingInv, Quiet, Output
<1>7. Ring'
  <2>1. Used' = Used /\ TxDirty' = TxDirty /\ tx' = tx /\ hw' = hw
    BY DEF Output, Used, TxDirty
  <2>2. Injective(due')
    BY <1>0, <1>1, <1>4 DEF Ring, Injective
  <2>3. \A k \in 1 .. Len(due') : (\E i \in TxSlot : tx[i].own /\ tx[i].buf = due'[k]) \/ due'[k] = f
    BY <1>0, <1>4 DEF Ring
  <2> QED  BY <1>0, <1>1, <1>3, <2>1, <2>2, <2>3 DEF Ring
<1>8. Sent => Sent'
  <2> SUFFICES ASSUME Sent  PROVE Sent'
    OBVIOUS
  <2>1. Used' = Used /\ TxDirty' = TxDirty /\ Unsent' = Unsent /\ tx' = tx /\ hw' = hw
    BY DEF Output, Used, TxDirty, Unsent, TxCur
  <2>0. TxCur \in TxSlot /\ hw.tx \in TxSlot
    BY <1>0, Counters DEF Typed, TypeOK
  <2>2. Len(due) = Unsent
    <3>1. Unsent \in Nat
      BY <2>0 DEF Unsent, Pos, TxSlot
    <3> QED  BY <1>0, <3>1, EmptySeq DEF Sent
  <2>3. \A i \in TxSlot : tx[i].own => Pos(hw.tx, i, TxRing) + 1 \in 1 .. Len(due)
    BY <1>0, <1>4, <2>2 DEF Sent, Typed, TypeOK, TxSlot, Pos
  <2> QED  BY <1>0, <1>3, <1>4, <2>1, <2>2, <2>3 DEF Sent
<1>9. Reception => Reception'
  BY RxFrameRule DEF Output
<1> QED  BY <1>0, <1>5, <1>6, <1>7, <1>8, <1>9 DEF RingInv, Output

LEMMA Unsents ==
  ASSUME TypeOK
  PROVE  Unsent \in 0 .. TxRing - 1 /\ TxCur \in TxSlot /\ hw.tx \in TxSlot
<1>1. TxCur \in TxSlot /\ hw.tx \in TxSlot
  BY Counters DEF TypeOK
<1> QED  BY <1>1, Sizes DEF Unsent, Pos, TxSlot

\* The queue holds one frame at a time.
LEMMA OneFrame ==
  ASSUME NEW S, NEW q \in Seq(S), q # <<>>, Len(q) <= 1
  PROVE  Len(q) = 1 /\ Head(q) = q[1] /\ q[1] \in S /\ Tail(q) = <<>> /\ Len(<<>>) = 0
<1>1. Len(q) \in Nat \ {0}
  BY EmptySeq
<1>2. Len(q) = 1
  BY <1>1
<1>3. Tail(q) \in Seq(S) /\ Len(Tail(q)) = 0
  BY <1>2, HeadTailProperties
<1>4. Tail(q) = <<>>
  BY <1>3, EmptySeq
<1>5. Head(q) = q[1] /\ q[1] \in S
  BY <1>2, ElementOfSeq
<1> QED  BY <1>2, <1>4, <1>5, EmptySeq

\* A frame for which there is no descriptor or no memory is lost, and no more
\* due.
LEMMA XmitFails ==
  ASSUME RingInv, NEW mem, Xmit(mem), Avail = 0 \/ ~mem
  PROVE  RingInv'
<1> DEFINE f == Head(ifq)
<1>a. /\ ifq # <<>> /\ ifq' = Tail(ifq) /\ pc' = "idle" /\ due' = Without(due, f)
      /\ tx' = tx /\ cur' = cur /\ dirty' = dirty /\ hw' = hw
  BY DEF Xmit
<1>b. rx' = rx /\ rcur' = rcur /\ rdue' = rdue /\ status' = status /\ seen' = seen
  BY DEF Xmit
<1>c. up' = up /\ erred' = erred
  BY DEF Xmit
<1>d. up
  BY DEF Xmit, RingInv, Quiet
<1>0. Typed /\ TypeOK /\ Ring /\ ifq \in Seq(TxFrame) /\ due \in Seq(TxFrame) /\ Len(due) \in Nat
  BY <1>d, LenProperties DEF RingInv, Typed, TypeOK
<1>1. ifq' = <<>> /\ f = ifq[1] /\ Len(ifq) = 1 /\ Len(<<>>) = 0
  <2>1. Len(ifq) <= 1
    BY DEF RingInv, Quiet
  <2> QED  BY <1>0, <1>a, <2>1, OneFrame
<1> HIDE DEF f
<1>3. due' = Without(due, f)
  BY <1>a DEF f
<1>4. /\ due' \in Seq(TxFrame) /\ Injective(due')
      /\ \A k \in 1 .. Len(due') : \E j \in 1 .. Len(due) : due'[k] = due[j] /\ due[j] # f
  <2>1. due \in Seq(TxFrame) /\ Injective(due)
    BY <1>0 DEF Ring
  <2> QED  BY <1>3, <2>1, WithoutRest
<1>5. Typed'
  <2>1. ifq' \in Seq(TxFrame) /\ Len(ifq') <= QMax
    BY <1>1, EmptySeq, Sizes
  <2> QED  BY <1>a, <1>b, <1>c, <1>0, <1>4, <2>1 DEF Typed, TypeOK
<1>6. Quiet'
  <2>1. Len(ifq') <= 1
    BY <1>1
  <2>2. up' /\ ("TPS" \in status' \cup seen' => erred') /\ seen' = {}
    BY <1>b, <1>c, <1>d DEF Xmit, RingInv, Quiet
  <2> QED  BY <1>1, <2>1, <2>2 DEF Quiet
<1>7. Ring'
  <2>1. Used' = Used /\ TxDirty' = TxDirty
    BY <1>a DEF Used, TxDirty
  <2>2. ASSUME NEW k \in 1 .. Len(due')  PROVE \E i \in TxSlot : tx[i].own /\ tx[i].buf = due'[k]
    <3>1. PICK j \in 1 .. Len(due) : due'[k] = due[j] /\ due[j] # f
      BY <1>4
    <3> QED  BY <1>0, <1>1, <3>1 DEF Ring
  <2> QED  BY <1>a, <1>0, <1>1, <1>4, <2>1, <2>2 DEF Ring
<1>8. Sent => Sent'
  <2> SUFFICES ASSUME Sent  PROVE Sent'
    OBVIOUS
  <2>1. Used' = Used /\ TxDirty' = TxDirty /\ Unsent' = Unsent /\ tx' = tx /\ hw' = hw
    BY <1>a DEF Used, TxDirty, Unsent, TxCur
  <2>2. Unsent \in 0 .. TxRing - 1 /\ hw.tx \in TxSlot
    BY <1>0, Unsents
  <2>3. Len(due) = Unsent + 1 /\ f = due[Unsent + 1]
    BY <1>a, <1>1 DEF Sent
  <2>4. /\ Len(due') = Len(due) - 1
        /\ \A k \in 1 .. Len(due) - 1 : due'[k] = IF k < Unsent + 1 THEN due[k] ELSE due[k + 1]
    <3>1. Injective(due) /\ Unsent + 1 \in 1 .. Len(due)
      BY <1>0, <2>2, <2>3, Sizes DEF Ring
    <3>2. due' = Without(due, due[Unsent + 1])
      BY <1>3, <2>3
    <3> DEFINE i == Unsent + 1
    <3>3. i \in 1 .. Len(due) /\ due' = Without(due, due[i])
      BY <3>1, <3>2
    <3> HIDE DEF i
    <3>4. /\ Len(due') = Len(due) - 1
          /\ \A k \in 1 .. Len(due) - 1 : due'[k] = IF k < i THEN due[k] ELSE due[k + 1]
      BY <1>0, <3>1, <3>3, WithoutDef
    <3> QED  BY <3>4 DEF i
  <2>5. Len(due') = Unsent /\ \A k \in 1 .. Unsent : due'[k] = due[k]
    BY <2>2, <2>3, <2>4
  <2>6. \A i \in TxSlot : tx[i].own => Pos(hw.tx, i, TxRing) + 1 \in 1 .. Unsent
    BY SMTT(40), <2>2, Sizes DEF Sent, Pos, TxSlot
  <2>7. \A i \in TxSlot : tx[i].own => due'[Pos(hw.tx, i, TxRing) + 1] = tx[i].buf
    BY <2>5, <2>6 DEF Sent
  <2>8. Len(due') = Unsent + Len(ifq')
    BY <1>1, <2>2, <2>5
  <2> QED  BY <1>1, <2>1, <2>7, <2>8 DEF Sent
<1>9. Reception => Reception'
  BY <1>a, <1>b, RxFrameRule
<1> QED  BY <1>c, <1>d, <1>5, <1>6, <1>7, <1>8, <1>9 DEF RingInv

\* The engine has sent Used - Unsent of the frames in the ring.
LEMMA SentSoFar ==
  ASSUME TypeOK, Ring, Pos(TxDirty, hw.tx, TxRing) <= Used
  PROVE  Used \in 0 .. TxRing - 1 /\ Pos(TxDirty, hw.tx, TxRing) = Used - Unsent
<1>1. Used \in 0 .. TxRing - 1
  BY Counters, Sizes DEF Ring
<1>2. TxCur = At(TxDirty, Used, TxRing) /\ TxDirty \in TxSlot /\ hw.tx \in TxSlot
  BY <1>1, Counters, Sizes, Unsents
<1> QED  BY <1>1, <1>2, Sizes DEF Unsent, At, Pos, TxSlot

\* A frame put into the next descriptor.
LEMMA XmitFills ==
  ASSUME RingInv, NEW mem, Xmit(mem), ~(Avail = 0 \/ ~mem)
  PROVE  RingInv'
<1> DEFINE f == ifq[1]
           c == TxCur
<1>a. ifq # <<>> /\ ifq' = Tail(ifq) /\ pc' = pc /\ due' = due /\ dirty' = dirty /\ hw' = hw
  BY DEF Xmit
<1>b. rx' = rx /\ rcur' = rcur /\ rdue' = rdue /\ status' = status /\ seen' = seen
  BY DEF Xmit
<1>c. up' = up /\ erred' = erred /\ pc = "xmit"
  BY DEF Xmit
<1>d. up
  BY <1>c DEF RingInv, Quiet
<1>e. tx' = [tx EXCEPT ![c] = [own |-> TRUE, buf |-> Head(ifq)]] /\ cur' = (cur + 1) % Wrap
  BY DEF Xmit, Fill, TxCur
<1>0. Typed /\ TypeOK /\ Ring /\ ifq \in Seq(TxFrame)
  BY <1>d DEF RingInv, Typed, TypeOK
<1>1. ifq' = <<>> /\ Head(ifq) = f /\ f \in TxFrame /\ Len(ifq) = 1 /\ Len(<<>>) = 0
  <2>1. Len(ifq) <= 1
    BY DEF RingInv, Quiet
  <2> QED  BY <1>0, <1>a, <2>1, OneFrame
<1>2. Used \in 0 .. TxRing - 1 /\ Used + 1 < TxRing /\ c = At(TxDirty, Used, TxRing) /\ TxDirty \in TxSlot /\ c \in TxSlot
  <2>1. Used < TxRing
    BY <1>0 DEF Ring
  <2> QED  BY <1>0, <2>1, Counters, Sizes
<1>3. cur' \in 0 .. Wrap - 1 /\ TxDirty' = TxDirty /\ TxCur' = At(c, 1, TxRing) /\ Used' = Used + 1
  <2>1. Used < TxRing
    BY <1>0 DEF Ring
  <2> QED  BY <1>0, <1>a, <1>e, <2>1, CurUp
<1> HIDE DEF c, f
<1>4. /\ tx \in [TxSlot -> [own : BOOLEAN, buf : {0} \cup TxFrame]]
      /\ tx'[c] = [own |-> TRUE, buf |-> f] /\ f # 0
      /\ \A i \in TxSlot : i # c => tx'[i] = tx[i]
  <2>1. tx \in [TxSlot -> [own : BOOLEAN, buf : {0} \cup TxFrame]]
    BY <1>0 DEF TypeOK
  <2>2. f # 0
    BY <1>1, Sizes DEF TxFrame
  <2>3. tx' = [tx EXCEPT ![c] = [own |-> TRUE, buf |-> f]]
    BY <1>1, <1>e
  <2> QED  BY <1>2, <2>1, <2>2, <2>3
<1>5. Typed'
  <2>1. ifq' \in Seq(TxFrame) /\ Len(ifq') <= QMax
    BY <1>1, EmptySeq, Sizes
  <2>2. tx' \in [TxSlot -> [own : BOOLEAN, buf : {0} \cup TxFrame]]
    BY <1>1, <1>2, <1>4, <1>e
  <2> QED  BY <1>a, <1>b, <1>c, <1>0, <1>3, <2>1, <2>2 DEF Typed, TypeOK
<1>6. Quiet'
  <2>1. Len(ifq') <= 1
    BY <1>1
  <2>2. up' /\ ("TPS" \in status' \cup seen' => erred') /\ seen' = {}
    BY <1>b, <1>c, <1>d DEF RingInv, Quiet
  <2> QED  BY <1>1, <2>1, <2>2 DEF Quiet
<1>7. tx[c].buf = 0 /\ Pos(TxDirty, c, TxRing) = Used /\ \A i \in TxSlot : Pos(TxDirty, i, TxRing) = Used => i = c
  <2>1. Pos(TxDirty, c, TxRing) = Used /\ \A i \in TxSlot : Pos(TxDirty, i, TxRing) = Used => i = c
    BY <1>2, Sizes DEF Pos, At, TxSlot
  <2> QED  BY <1>0, <1>2, <2>1 DEF Ring
<1>8. Ring'
  <2>1. Used' < TxRing
    BY <1>2, <1>3
  <2>2. \A i \in TxSlot : tx'[i].buf # 0 <=> Pos(TxDirty, i, TxRing) < Used + 1
    <3> SUFFICES ASSUME NEW i \in TxSlot  PROVE tx'[i].buf # 0 <=> Pos(TxDirty, i, TxRing) < Used + 1
      OBVIOUS
    <3>1. CASE i = c
      BY <1>2, <1>4, <1>7, <3>1
    <3>2. CASE i # c
      <4>1. Pos(TxDirty, i, TxRing) # Used /\ Pos(TxDirty, i, TxRing) \in Int
        BY <1>2, <1>7, <3>2, Sizes DEF Pos, TxSlot
      <4>2. tx[i].buf # 0 <=> Pos(TxDirty, i, TxRing) < Used
        BY <1>0 DEF Ring
      <4> QED  BY <1>2, <1>4, <3>2, <4>1, <4>2
    <3> QED  BY <3>1, <3>2
  <2>3. \A i \in TxSlot : tx'[i].own => tx'[i].buf # 0
    BY <1>0, <1>4 DEF Ring
  <2>4. hw'.txbusy => tx'[hw'.tx].own
    BY <1>0, <1>2, <1>4, <1>a DEF Ring, TypeOK
  <2>5. \A i, j \in TxSlot : tx'[i].buf = tx'[j].buf /\ tx'[i].buf # 0 => i = j
    <3>1. \A i \in TxSlot : tx[i].buf # f
      BY <1>0, <1>a DEF Ring, f
    <3>2. \A i, j \in TxSlot : tx[i].buf = tx[j].buf /\ tx[i].buf # 0 => i = j
      BY <1>0 DEF Ring
    <3> QED  BY <1>4, <3>1, <3>2
  <2>6. Injective(due')
    BY <1>0, <1>a DEF Ring
  <2>7. \A k \in 1 .. Len(due') : \E i \in TxSlot : tx'[i].own /\ tx'[i].buf = due'[k]
    <3> SUFFICES ASSUME NEW k \in 1 .. Len(due)  PROVE \E i \in TxSlot : tx'[i].own /\ tx'[i].buf = due[k]
      BY <1>a
    <3>1. (\E i \in TxSlot : tx[i].own /\ tx[i].buf = due[k]) \/ due[k] = f
      BY <1>0 DEF Ring, f
    <3>2. \A i \in TxSlot : tx[i].own => tx[i].buf # 0
      BY <1>0 DEF Ring
    <3> QED  BY <1>2, <1>4, <1>7, <3>1, <3>2
  <2> QED  BY <1>1, <1>3, <2>1, <2>2, <2>3, <2>4, <2>5, <2>6, <2>7 DEF Ring
<1>9. Sent => Sent'
  <2> SUFFICES ASSUME Sent  PROVE Sent'
    OBVIOUS
  <2>1. Unsent \in 0 .. TxRing - 1 /\ hw.tx \in TxSlot /\ Unsent = Pos(hw.tx, c, TxRing)
    BY <1>0, Unsents DEF Unsent, c
  <2>2. Pos(TxDirty, hw.tx, TxRing) = Used - Unsent
    BY <1>0, SentSoFar DEF Sent
  <2>3. Unsent < Used + 1 /\ Pos(TxDirty, hw.tx, TxRing) <= Used
    BY <1>2, <2>1, <2>2, Sizes DEF Pos, TxSlot
  <2>4. Unsent' = Unsent + 1
    <3>1. Unsent' = Pos(hw.tx, At(c, 1, TxRing), TxRing)
      BY <1>3, <1>a DEF Unsent
    <3> QED  BY <1>2, <2>1, <2>3, <3>1, Sizes DEF Pos, At, TxSlot
  <2>5. \A i \in TxSlot : tx'[i].own <=> Pos(hw.tx, i, TxRing) < Unsent + 1
    <3> SUFFICES ASSUME NEW i \in TxSlot  PROVE tx'[i].own <=> Pos(hw.tx, i, TxRing) < Unsent + 1
      OBVIOUS
    <3>1. CASE i = c
      BY <1>4, <2>1, <3>1
    <3>2. CASE i # c
      <4>1. Pos(hw.tx, i, TxRing) # Unsent /\ Pos(hw.tx, i, TxRing) \in Int
        BY <1>2, <2>1, <3>2, Sizes DEF Pos, TxSlot
      <4>2. tx[i].own <=> Pos(hw.tx, i, TxRing) < Unsent
        BY DEF Sent
      <4> QED  BY <1>4, <2>1, <3>2, <4>1, <4>2
    <3> QED  BY <3>1, <3>2
  <2>6. Len(due) = Unsent + 1 /\ due[Unsent + 1] = f
    BY <1>1, <1>a DEF Sent, f
  <2>7. \A i \in TxSlot : tx'[i].own => due[Pos(hw.tx, i, TxRing) + 1] = tx'[i].buf
    <3>1. \A i \in TxSlot : tx[i].own => due[Pos(hw.tx, i, TxRing) + 1] = tx[i].buf
      BY DEF Sent
    <3> QED  BY <1>4, <2>1, <2>6, <3>1
  <2>8. Pos(TxDirty, hw.tx, TxRing) <= Used + 1 /\ Len(due) = (Unsent + 1) + 0
    BY SMTT(40), <1>2, <2>1, <2>3, <2>6, Sizes DEF Pos, TxSlot
  <2> QED  BY <1>1, <1>3, <1>a, <2>4, <2>5, <2>7, <2>8 DEF Sent
<1>10. Reception => Reception'
  BY <1>a, <1>b, RxFrameRule
<1> QED  BY <1>c, <1>d, <1>5, <1>6, <1>8, <1>9, <1>10 DEF RingInv

LEMMA XmitKeeps == ASSUME RingInv, NEW mem, Xmit(mem)  PROVE RingInv'
BY XmitFails, XmitFills

LEMMA XmitDoneKeeps == ASSUME RingInv, XmitDone  PROVE RingInv'
<1>a. ifq' = ifq /\ ifq = <<>> /\ due' = due /\ tx' = tx /\ cur' = cur /\ dirty' = dirty /\ hw' = hw
  BY DEF XmitDone, history
<1>b. rx' = rx /\ rcur' = rcur /\ rdue' = rdue /\ status' = status /\ seen' = seen
  BY DEF XmitDone, history
<1>c. up' = up /\ erred' = erred /\ pc' = "idle" /\ pc = "xmit"
  BY DEF XmitDone, history
<1>1. Typed'
  BY <1>a, <1>b, <1>c DEF RingInv, Typed, TypeOK
<1>2. Quiet'
  BY <1>a, <1>b, <1>c DEF RingInv, Quiet
<1>3. (Ring => Ring') /\ (Sent => Sent')
  BY <1>a, TxFrameRule
<1>4. Reception => Reception'
  BY <1>a, <1>b, RxFrameRule
<1> QED  BY <1>c, <1>1, <1>2, <1>3, <1>4 DEF RingInv

-----------------------------------------------------------------------------
(* The poll.                                                               *)

LEMMA PollReadKeeps == ASSUME RingInv, PollRead  PROVE RingInv'
<1>a. ifq' = ifq /\ tx' = tx /\ cur' = cur /\ dirty' = dirty /\ hw' = hw /\ due' = due
  BY DEF PollRead, history
<1>b. rx' = rx /\ rcur' = rcur /\ rdue' = rdue /\ status' = status /\ seen' = status
  BY DEF PollRead, history
<1>c. up /\ up' = up /\ erred' = erred /\ pc = "idle" /\ pc' = "irq"
  BY DEF PollRead, history
<1>1. Typed'
  BY <1>a, <1>b, <1>c DEF RingInv, Typed, TypeOK
<1>2. Quiet'
  BY <1>a, <1>b, <1>c DEF RingInv, Quiet
<1>3. (Ring => Ring') /\ (Sent => Sent')
  BY <1>a, TxFrameRule
<1>4. Reception => Reception'
  BY <1>a, <1>b, RxFrameRule
<1> QED  BY <1>c, <1>1, <1>2, <1>3, <1>4 DEF RingInv

LEMMA PollKeeps == ASSUME RingInv, Poll  PROVE RingInv'
<1>a. ifq' = ifq /\ rx' = rx /\ rcur' = rcur /\ rdue' = rdue
  BY DEF Poll
<1>b. pc = "irq" /\ up' = up /\ erred' = erred /\ status' = status \ seen /\ seen' = {}
  BY DEF Poll
<1>c. up
  BY <1>b DEF RingInv, Quiet
<1>0. Typed /\ TypeOK /\ Ring /\ Reception /\ ifq = <<>> /\ Len(ifq) <= 1
  BY <1>b, <1>c DEF RingInv, Typed, Quiet
<1>d. status' \subseteq Bits /\ seen' \subseteq Bits
  BY <1>b, <1>0 DEF TypeOK
<1>e. Quiet'
  BY <1>a, <1>b, <1>c, <1>0 DEF RingInv, Quiet
<1>1. CASE ~(~Handle(seen) /\ "TPS" \in seen)
  <2>1. tx' = tx /\ cur' = cur /\ dirty' = dirty /\ hw' = hw /\ due' = due /\ pc' \in {"idle", "tx"}
    BY <1>1 DEF Poll
  <2>2. Typed'
    BY <1>a, <1>b, <1>d, <1>0, <2>1 DEF Typed, TypeOK
  <2>4. Ring' /\ (Sent => Sent')
    BY <1>a, <1>0, <2>1, TxFrameRule
  <2>5. Reception'
    BY <1>a, <1>0, <2>1, RxFrameRule
  <2> QED  BY <1>b, <1>c, <1>e, <2>2, <2>4, <2>5 DEF RingInv
<1>2. CASE ~Handle(seen) /\ "TPS" \in seen
  <2>1. /\ tx' = [i \in TxSlot |-> [own |-> FALSE, buf |-> 0]] /\ due' = <<>> /\ cur' = 0 /\ dirty' = 0
        /\ hw' = [hw EXCEPT !.run = TRUE, !.txbusy = FALSE] /\ pc' = "idle"
    BY <1>2 DEF Poll, TxErr
  <2>2. erred
    BY <1>2 DEF RingInv, Quiet
  <2>3. hw' \in [tx : TxSlot, rx : RxSlot, run : BOOLEAN, txbusy : BOOLEAN, rxbusy : BOOLEAN]
    BY <1>0, <2>1 DEF TypeOK
  <2>4. ~hw'.txbusy /\ hw'.rx = hw.rx /\ hw'.rxbusy = hw.rxbusy
    BY <1>0, <2>1 DEF TypeOK
  <2>5. TypeOK'
    <3>1. tx' \in [TxSlot -> [own : BOOLEAN, buf : {0} \cup TxFrame]]
      BY <2>1
    <3>2. cur' \in 0 .. Wrap - 1 /\ dirty' \in 0 .. Wrap - 1
      BY <2>1, Sizes
    <3> QED  BY <1>a, <1>b, <1>d, <1>0, <2>1, <2>3, <3>1, <3>2 DEF TypeOK
  <2>6. Typed'
    BY <1>a, <1>b, <1>0, <2>1, <2>5, EmptySeq DEF Typed
  <2>8. Ring'
    BY <1>a, <1>0, <2>1, <2>4, RingEmpty
  <2>9. Reception'
    BY <1>a, <1>0, <2>4, RxFrameRule
  <2> QED  BY <1>b, <1>c, <1>e, <2>2, <2>6, <2>8, <2>9 DEF RingInv
<1> QED  BY <1>1, <1>2

\* The oldest descriptor taken back.
LEMMA ReclaimTakes ==
  ASSUME RingInv, Reclaim, dirty # cur, ~tx[dirty % TxRing].own
  PROVE  RingInv'
<1> DEFINE d == TxDirty
<1>a. ifq' = ifq /\ pc' = pc /\ due' = due /\ cur' = cur /\ hw' = hw
  BY DEF Reclaim, history
<1>b. rx' = rx /\ rcur' = rcur /\ rdue' = rdue /\ status' = status /\ seen' = seen
  BY DEF Reclaim, history
<1>c. up' = up /\ erred' = erred /\ pc = "tx"
  BY DEF Reclaim, history
<1>d. up
  BY <1>c DEF RingInv, Quiet
<1>e. tx' = [tx EXCEPT ![d] = [own |-> FALSE, buf |-> 0]] /\ dirty' = (dirty + 1) % Wrap
  BY DEF Reclaim, TxDirty
<1>0. Typed /\ TypeOK /\ Ring /\ ifq = <<>> /\ ~tx[d].own
  BY <1>c, <1>d DEF RingInv, Typed, Quiet, TxDirty
<1>1. Used \in 1 .. TxRing - 1 /\ d \in TxSlot
  <2>1. Used < TxRing
    BY <1>0 DEF Ring
  <2> QED  BY <1>0, <2>1, Counters, Sizes
<1>2. dirty' \in 0 .. Wrap - 1 /\ TxDirty' = At(d, 1, TxRing) /\ TxCur' = TxCur /\ Used' = Used - 1
  BY <1>0, <1>a, <1>e, DirtyUp
<1> HIDE DEF d
<1>3. /\ tx \in [TxSlot -> [own : BOOLEAN, buf : {0} \cup TxFrame]]
      /\ tx'[d] = [own |-> FALSE, buf |-> 0]
      /\ \A i \in TxSlot : i # d => tx'[i] = tx[i]
  <2>1. tx \in [TxSlot -> [own : BOOLEAN, buf : {0} \cup TxFrame]]
    BY <1>0 DEF TypeOK
  <2> QED  BY <1>1, <1>e, <2>1
<1>4. Typed'
  <2>1. tx' \in [TxSlot -> [own : BOOLEAN, buf : {0} \cup TxFrame]]
    BY <1>1, <1>3, <1>e
  <2> QED  BY <1>a, <1>b, <1>c, <1>0, <1>2, <2>1 DEF Typed, TypeOK
<1>5. Quiet'
  BY <1>a, <1>b, <1>c DEF RingInv, Quiet
<1>6. /\ Pos(At(d, 1, TxRing), d, TxRing) = TxRing - 1
      /\ \A i \in TxSlot : i # d => Pos(At(d, 1, TxRing), i, TxRing) = Pos(d, i, TxRing) - 1
  BY <1>1, Sizes DEF Pos, At, TxSlot
<1>7. Ring'
  <2>1. Used' < TxRing
    BY <1>1, <1>2, Sizes
  <2>2. \A i \in TxSlot : tx'[i].buf # 0 <=> Pos(At(d, 1, TxRing), i, TxRing) < Used - 1
    <3> SUFFICES ASSUME NEW i \in TxSlot
                 PROVE  tx'[i].buf # 0 <=> Pos(At(d, 1, TxRing), i, TxRing) < Used - 1
      OBVIOUS
    <3>1. CASE i = d
      BY <1>1, <1>3, <1>6, <3>1, Sizes
    <3>2. CASE i # d
      <4>1. tx[i].buf # 0 <=> Pos(d, i, TxRing) < Used
        BY <1>0 DEF Ring, d
      <4>2. Pos(d, i, TxRing) \in Int
        BY <1>1, Sizes DEF Pos, TxSlot
      <4> QED  BY <1>1, <1>3, <1>6, <3>2, <4>1, <4>2
    <3> QED  BY <3>1, <3>2
  <2>3. \A i \in TxSlot : tx'[i].own => tx'[i].buf # 0
    BY <1>0, <1>3 DEF Ring
  <2>4. hw'.txbusy => tx'[hw'.tx].own
    BY <1>0, <1>3, <1>a DEF Ring, TypeOK
  <2>5. \A i, j \in TxSlot : tx'[i].buf = tx'[j].buf /\ tx'[i].buf # 0 => i = j
    BY <1>0, <1>3 DEF Ring
  <2>6. Injective(due')
    BY <1>0, <1>a DEF Ring
  <2>7. \A k \in 1 .. Len(due') : \E i \in TxSlot : tx'[i].own /\ tx'[i].buf = due'[k]
    <3>1. \A k \in 1 .. Len(due) : \E i \in TxSlot : tx[i].own /\ tx[i].buf = due[k]
      BY <1>0 DEF Ring
    <3> QED  BY <1>0, <1>3, <1>a, <3>1
  <2> QED  BY <1>0, <1>a, <1>2, <2>1, <2>2, <2>3, <2>4, <2>5, <2>6, <2>7 DEF Ring
<1>8. Sent => Sent'
  <2> SUFFICES ASSUME Sent  PROVE Sent'
    OBVIOUS
  <2>1. Unsent \in 0 .. TxRing - 1 /\ hw.tx \in TxSlot /\ Unsent' = Unsent
    BY <1>0, <1>2, <1>a, Unsents DEF Unsent
  <2>2. Pos(d, hw.tx, TxRing) = Used - Unsent
    BY <1>0, SentSoFar DEF Sent, d
  <2>3. hw.tx # d
    <3>1. ~(Pos(hw.tx, d, TxRing) < Unsent)
      BY <1>0, <1>1 DEF Sent
    <3> QED  BY <1>1, <2>1, <2>2, <3>1, Sizes DEF Pos, TxSlot
  <2>4. Pos(At(d, 1, TxRing), hw.tx, TxRing) <= Used - 1
    BY <1>1, <1>6, <2>1, <2>2, <2>3
  <2>5. \A i \in TxSlot : tx'[i].own <=> tx[i].own
    BY <1>0, <1>3
  <2>6. \A i \in TxSlot : tx'[i].own => tx'[i].buf = tx[i].buf
    BY <1>3
  <2> QED  BY <1>a, <1>2, <2>1, <2>4, <2>5, <2>6 DEF Sent
<1>9. Reception => Reception'
  BY <1>a, <1>b, RxFrameRule
<1> QED  BY <1>c, <1>d, <1>4, <1>5, <1>7, <1>8, <1>9 DEF RingInv

LEMMA ReclaimKeeps == ASSUME RingInv, Reclaim  PROVE RingInv'
<1>1. CASE dirty # cur /\ ~tx[dirty % TxRing].own
  BY <1>1, ReclaimTakes
<1>2. CASE ~(dirty # cur /\ ~tx[dirty % TxRing].own)
  <2>a. ifq' = ifq /\ due' = due /\ tx' = tx /\ cur' = cur /\ dirty' = dirty /\ hw' = hw
    BY <1>2 DEF Reclaim, history
  <2>b. rx' = rx /\ rcur' = rcur /\ rdue' = rdue /\ status' = status /\ seen' = seen
    BY DEF Reclaim, history
  <2>c. up' = up /\ erred' = erred /\ pc' = "rx" /\ pc = "tx"
    BY <1>2 DEF Reclaim, history
  <2>1. Typed'
    BY <2>a, <2>b, <2>c DEF RingInv, Typed, TypeOK
  <2>2. Quiet'
    BY <2>a, <2>b, <2>c DEF RingInv, Quiet
  <2>3. (Ring => Ring') /\ (Sent => Sent')
    BY <2>a, TxFrameRule
  <2>4. Reception => Reception'
    BY <2>a, <2>b, RxFrameRule
  <2> QED  BY <2>c, <2>1, <2>2, <2>3, <2>4 DEF RingInv
<1> QED  BY <1>1, <1>2

LEMMA ReceiveKeeps == ASSUME RingInv, Receive  PROVE RingInv'
<1> DEFINE r == RxCur
           n == Len(rdue)
<1>a. ifq' = ifq /\ pc' = pc /\ due' = due /\ tx' = tx /\ cur' = cur /\ dirty' = dirty /\ hw' = hw
  BY DEF Receive
<1>b. status' = status /\ seen' = seen /\ rdue' = Tail(rdue) /\ rcur' = (rcur + 1) % Wrap /\ ~rx[r].own
  BY DEF Receive, RxCur
<1>c. up' = up /\ erred' = erred /\ pc = "rx"
  BY DEF Receive
<1>d. up
  BY <1>c DEF RingInv, Quiet
<1>e. rx' = [rx EXCEPT ![r] = [own |-> TRUE, buf |-> 0]]
  BY DEF Receive, RxCur
<1>0. Typed /\ TypeOK /\ Reception /\ rdue \in Seq(RxFrame) /\ n \in Nat
  BY <1>d, LenProperties DEF RingInv, Typed
<1>1. r \in RxSlot /\ hw.rx \in RxSlot
  BY <1>0, Counters DEF TypeOK
<1>2. rcur' \in 0 .. Wrap - 1 /\ RxCur' = At(r, 1, RxRing)
  BY <1>0, <1>b, RcurUp
<1> HIDE DEF r
<1>3. /\ rx \in [RxSlot -> [own : BOOLEAN, buf : {0} \cup RxFrame]]
      /\ rx'[r] = [own |-> TRUE, buf |-> 0]
      /\ \A i \in RxSlot : i # r => rx'[i] = rx[i]
  <2>1. rx \in [RxSlot -> [own : BOOLEAN, buf : {0} \cup RxFrame]]
    BY <1>0 DEF TypeOK
  <2> QED  BY <1>1, <1>e, <2>1
<1>4. n \in 1 .. RxRing
  <2>1. ~(Pos(r, r, RxRing) >= n) /\ n <= RxRing
    BY <1>0, <1>1, <1>b DEF Reception, r
  <2> QED  BY <1>0, <1>1, <2>1, Sizes DEF Pos, RxSlot
<1>5. /\ rdue' \in Seq(RxFrame) /\ Len(rdue') = n - 1
      /\ \A k \in 1 .. n - 1 : rdue'[k] = rdue[k + 1]
  <2>1. rdue # <<>>
    BY <1>4, EmptySeq
  <2> QED  BY <1>0, <1>b, <2>1, HeadTailProperties
<1> HIDE DEF n
<1>6. Typed'
  <2>1. rx' \in [RxSlot -> [own : BOOLEAN, buf : {0} \cup RxFrame]]
    BY <1>1, <1>3, <1>e
  <2> QED  BY <1>a, <1>b, <1>c, <1>0, <1>2, <1>5, <2>1 DEF Typed, TypeOK
<1>7. Quiet'
  BY <1>a, <1>b, <1>c, <1>d DEF RingInv, Quiet
<1>8. /\ Pos(At(r, 1, RxRing), r, RxRing) = RxRing - 1
      /\ \A i \in RxSlot : i # r => Pos(At(r, 1, RxRing), i, RxRing) = Pos(r, i, RxRing) - 1
      /\ \A i \in RxSlot : Pos(r, i, RxRing) \in Nat
  BY <1>1, Sizes DEF Pos, At, RxSlot
<1>9. Reception'
  <2>1. n - 1 <= RxRing
    BY <1>4, Sizes
  <2>2. hw.rx = At(At(r, 1, RxRing), n - 1, RxRing)
    <3>1. hw.rx = At(r, n, RxRing)
      BY <1>0 DEF Reception, r, n
    <3> QED  BY <1>1, <1>4, <3>1, Sizes DEF At, RxSlot
  <2>3. \A i \in RxSlot : rx'[i].own <=> Pos(At(r, 1, RxRing), i, RxRing) >= n - 1
    <3> SUFFICES ASSUME NEW i \in RxSlot
                 PROVE  rx'[i].own <=> Pos(At(r, 1, RxRing), i, RxRing) >= n - 1
      OBVIOUS
    <3>1. CASE i = r
      BY <1>3, <1>4, <1>8, <3>1, Sizes
    <3>2. CASE i # r
      <4>1. rx[i].own <=> Pos(r, i, RxRing) >= n
        BY <1>0 DEF Reception, r, n
      <4> QED  BY <1>3, <1>4, <1>8, <3>2, <4>1
    <3> QED  BY <3>1, <3>2
  <2>4. \A i \in RxSlot : ~rx'[i].own => rdue'[Pos(At(r, 1, RxRing), i, RxRing) + 1] = rx'[i].buf
    <3> SUFFICES ASSUME NEW i \in RxSlot, ~rx'[i].own
                 PROVE  rdue'[Pos(At(r, 1, RxRing), i, RxRing) + 1] = rx'[i].buf
      OBVIOUS
    <3>1. i # r /\ rx'[i] = rx[i]
      BY <1>3
    <3>2. rdue[Pos(r, i, RxRing) + 1] = rx[i].buf /\ ~(Pos(r, i, RxRing) >= n)
      BY <1>0, <3>1 DEF Reception, r, n
    <3>3. Pos(r, i, RxRing) # 0
      BY <1>1, <3>1, Sizes DEF Pos, RxSlot
    <3>4. Pos(r, i, RxRing) \in 1 .. n - 1
      BY <1>4, <1>8, <3>2, <3>3
    <3>5. Pos(At(r, 1, RxRing), i, RxRing) + 1 = Pos(r, i, RxRing)
      BY <1>8, <3>1, <3>4
    <3> QED  BY <1>5, <3>1, <3>2, <3>4, <3>5
  <2>5. hw.rxbusy => rx'[hw.rx].own
    BY <1>0, <1>1, <1>3 DEF Reception
  <2> QED  BY <1>a, <1>2, <1>5, <2>1, <2>2, <2>3, <2>4, <2>5 DEF Reception
<1>10. (Ring => Ring') /\ (Sent => Sent')
  BY <1>a, TxFrameRule
<1> QED  BY <1>c, <1>d, <1>6, <1>7, <1>9, <1>10 DEF RingInv

LEMMA ReceiveDoneKeeps == ASSUME RingInv, ReceiveDone  PROVE RingInv'
<1>a. ifq' = ifq /\ due' = due /\ tx' = tx /\ cur' = cur /\ dirty' = dirty /\ hw' = hw
  BY DEF ReceiveDone, history
<1>b. rx' = rx /\ rcur' = rcur /\ rdue' = rdue /\ status' = status /\ seen' = seen
  BY DEF ReceiveDone, history
<1>c. up' = up /\ erred' = erred /\ pc' = "idle" /\ pc = "rx"
  BY DEF ReceiveDone, history
<1>1. Typed'
  BY <1>a, <1>b, <1>c DEF RingInv, Typed, TypeOK
<1>2. Quiet'
  BY <1>a, <1>b, <1>c DEF RingInv, Quiet
<1>3. (Ring => Ring') /\ (Sent => Sent')
  BY <1>a, TxFrameRule
<1>4. Reception => Reception'
  BY <1>a, <1>b, RxFrameRule
<1> QED  BY <1>c, <1>1, <1>2, <1>3, <1>4 DEF RingInv

-----------------------------------------------------------------------------
(* The engine.                                                             *)

LEMMA TxStartKeeps == ASSUME RingInv, TxStart  PROVE RingInv'
<1>a. ifq' = ifq /\ pc' = pc /\ due' = due /\ tx' = tx /\ cur' = cur /\ dirty' = dirty
  BY DEF TxStart, history, engine, driver
<1>b. rx' = rx /\ rcur' = rcur /\ rdue' = rdue /\ status' = status /\ seen' = seen
  BY DEF TxStart, history, engine, driver
<1>c. up /\ up' = up /\ erred' = erred /\ tx[hw.tx].own
  BY DEF TxStart, history, engine
<1>d. hw' = [hw EXCEPT !.txbusy = TRUE]
  BY DEF TxStart
<1>0. Typed /\ TypeOK /\ Ring
  BY <1>c DEF RingInv, Typed
<1>1. /\ hw' \in [tx : TxSlot, rx : RxSlot, run : BOOLEAN, txbusy : BOOLEAN, rxbusy : BOOLEAN]
      /\ hw'.tx = hw.tx /\ hw'.rx = hw.rx /\ hw'.rxbusy = hw.rxbusy
  BY <1>0, <1>d DEF TypeOK
<1>2. Typed'
  BY <1>a, <1>b, <1>c, <1>0, <1>1 DEF Typed, TypeOK
<1>3. Quiet'
  BY <1>a, <1>b, <1>c DEF RingInv, Quiet
<1>4. Ring'
  <2>1. Used' = Used /\ TxDirty' = TxDirty
    BY <1>a DEF Used, TxDirty
  <2> QED  BY <1>a, <1>c, <1>0, <1>1, <2>1 DEF Ring
<1>5. Sent => Sent'
  <2>1. Used' = Used /\ TxDirty' = TxDirty /\ Unsent' = Unsent
    BY <1>a, <1>1 DEF Used, TxDirty, Unsent, TxCur
  <2> QED  BY <1>a, <1>1, <2>1 DEF Sent
<1>6. Reception => Reception'
  BY <1>b, <1>1, RxFrameRule
<1> QED  BY <1>c, <1>2, <1>3, <1>4, <1>5, <1>6 DEF RingInv

LEMMA TxFaultKeeps == ASSUME RingInv, TxFault  PROVE RingInv'
<1>a. ifq' = ifq /\ pc' = pc /\ due' = due /\ tx' = tx /\ cur' = cur /\ dirty' = dirty
  BY DEF TxFault, engine, driver
<1>b. rx' = rx /\ rcur' = rcur /\ rdue' = rdue /\ status' = status \cup {"TPS"} /\ seen' = seen
  BY DEF TxFault, engine, driver
<1>c. up /\ up' = up /\ erred' = TRUE
  BY DEF TxFault, engine
<1>d. hw' = [hw EXCEPT !.txbusy = FALSE, !.run = FALSE]
  BY DEF TxFault
<1>0. Typed /\ TypeOK /\ Ring
  BY <1>c DEF RingInv, Typed
<1>1. /\ hw' \in [tx : TxSlot, rx : RxSlot, run : BOOLEAN, txbusy : BOOLEAN, rxbusy : BOOLEAN]
      /\ hw'.tx = hw.tx /\ hw'.rx = hw.rx /\ hw'.rxbusy = hw.rxbusy /\ ~hw'.txbusy
  BY <1>0, <1>d DEF TypeOK
<1>2. Typed'
  <2>1. status' \subseteq Bits /\ seen' \subseteq Bits
    BY <1>b, <1>0 DEF TypeOK, Bits, Normal
  <2> QED  BY <1>a, <1>b, <1>c, <1>0, <1>1, <2>1 DEF Typed, TypeOK
<1>3. Quiet'
  BY <1>a, <1>b, <1>c DEF RingInv, Quiet
<1>4. Ring'
  BY <1>a, <1>0, <1>1, TxFrameRule
<1>5. Reception => Reception'
  BY <1>b, <1>1, RxFrameRule
<1> QED  BY <1>c, <1>2, <1>3, <1>4, <1>5 DEF RingInv

LEMMA RxStartKeeps == ASSUME RingInv, RxStart  PROVE RingInv'
<1>a. ifq' = ifq /\ pc' = pc /\ due' = due /\ tx' = tx /\ cur' = cur /\ dirty' = dirty
  BY DEF RxStart, history, engine, driver
<1>b. rx' = rx /\ rcur' = rcur /\ rdue' = rdue /\ status' = status /\ seen' = seen
  BY DEF RxStart, history, engine, driver
<1>c. up /\ up' = up /\ erred' = erred /\ rx[hw.rx].own
  BY DEF RxStart, history, engine
<1>d. hw' = [hw EXCEPT !.rxbusy = TRUE]
  BY DEF RxStart
<1>0. Typed /\ TypeOK /\ Reception
  BY <1>c DEF RingInv, Typed
<1>1. /\ hw' \in [tx : TxSlot, rx : RxSlot, run : BOOLEAN, txbusy : BOOLEAN, rxbusy : BOOLEAN]
      /\ hw'.tx = hw.tx /\ hw'.rx = hw.rx /\ hw'.txbusy = hw.txbusy
  BY <1>0, <1>d DEF TypeOK
<1>2. Typed'
  BY <1>a, <1>b, <1>c, <1>0, <1>1 DEF Typed, TypeOK
<1>3. Quiet'
  BY <1>a, <1>b, <1>c DEF RingInv, Quiet
<1>4. (Ring => Ring') /\ (Sent => Sent')
  BY <1>a, <1>1, TxFrameRule
<1>5. Reception'
  BY <1>b, <1>c, <1>0, <1>1 DEF Reception, RxCur
<1> QED  BY <1>c, <1>2, <1>3, <1>4, <1>5 DEF RingInv

LEMMA RxEarlyKeeps == ASSUME RingInv, RxEarly  PROVE RingInv'
<1>a. ifq' = ifq /\ pc' = pc /\ due' = due /\ tx' = tx /\ cur' = cur /\ dirty' = dirty /\ hw' = hw
  BY DEF RxEarly, history, engine, driver
<1>b. rx' = rx /\ rcur' = rcur /\ rdue' = rdue /\ status' = status \cup {"ERI", "NIS"} /\ seen' = seen
  BY DEF RxEarly, history, engine, driver
<1>c. up /\ up' = up /\ erred' = erred
  BY DEF RxEarly, history, engine
<1>0. Typed /\ TypeOK
  BY DEF RingInv, Typed
<1>1. Typed'
  <2>1. status' \subseteq Bits /\ seen' \subseteq Bits
    BY <1>b, <1>0 DEF TypeOK, Bits, Normal
  <2> QED  BY <1>a, <1>b, <1>c, <1>0, <2>1 DEF Typed, TypeOK
<1>2. Quiet'
  BY <1>a, <1>b, <1>c DEF RingInv, Quiet
<1>3. (Ring => Ring') /\ (Sent => Sent')
  BY <1>a, TxFrameRule
<1>4. Reception => Reception'
  BY <1>a, <1>b, RxFrameRule
<1> QED  BY <1>c, <1>1, <1>2, <1>3, <1>4 DEF RingInv

LEMMA TxEndKeeps == ASSUME RingInv, TxEnd  PROVE RingInv'
<1> DEFINE h == hw.tx
           b == tx[h].buf
<1>a. ifq' = ifq /\ pc' = pc /\ cur' = cur /\ dirty' = dirty /\ due' = Without(due, b)
  BY DEF TxEnd, engine, driver
<1>b. rx' = rx /\ rcur' = rcur /\ rdue' = rdue /\ status' = status \cup {"TI", "NIS"} /\ seen' = seen
  BY DEF TxEnd, engine, driver
<1>c. up /\ up' = up /\ erred' = erred
  BY DEF TxEnd, engine
<1>d. hw.txbusy /\ hw' = [hw EXCEPT !.txbusy = FALSE, !.tx = (h + 1) % TxRing]
  BY DEF TxEnd
<1>e. tx' = [tx EXCEPT ![h].own = FALSE]
  BY DEF TxEnd
<1>0. Typed /\ TypeOK /\ Ring /\ due \in Seq(TxFrame) /\ Injective(due) /\ Len(due) \in Nat
  BY <1>c, LenProperties DEF RingInv, Typed, Ring
<1>1. h \in TxSlot /\ tx[h].own /\ TxDirty \in TxSlot
  BY <1>0, <1>d, Counters DEF TypeOK, Ring
<1>2. (h + 1) % TxRing = At(h, 1, TxRing) /\ At(h, 1, TxRing) \in TxSlot
  <2>1. h % TxRing = h /\ h \in Int /\ 1 \in 0 .. TxRing
    BY <1>1, Sizes, ModSmall DEF TxSlot
  <2>2. (h + 1) % TxRing = At(h % TxRing, 1, TxRing)
    <3> HIDE DEF h
    <3> QED  BY <2>1, Sizes, ModPlus
  <2> QED  BY <1>1, <2>1, <2>2, Sizes DEF At, TxSlot
<1> HIDE DEF h, b
<1>3. /\ tx \in [TxSlot -> [own : BOOLEAN, buf : {0} \cup TxFrame]]
      /\ tx'[h] = [own |-> FALSE, buf |-> b]
      /\ \A i \in TxSlot : i # h => tx'[i] = tx[i]
  <2>1. tx \in [TxSlot -> [own : BOOLEAN, buf : {0} \cup TxFrame]]
    BY <1>0 DEF TypeOK
  <2> QED  BY <1>1, <1>e, <2>1 DEF b
<1>4. /\ hw' \in [tx : TxSlot, rx : RxSlot, run : BOOLEAN, txbusy : BOOLEAN, rxbusy : BOOLEAN]
      /\ hw'.tx = At(h, 1, TxRing) /\ hw'.rx = hw.rx /\ hw'.rxbusy = hw.rxbusy /\ ~hw'.txbusy
  <2>1. hw \in [tx : TxSlot, rx : RxSlot, run : BOOLEAN, txbusy : BOOLEAN, rxbusy : BOOLEAN]
    BY <1>0 DEF TypeOK
  <2>2. hw' = [hw EXCEPT !.txbusy = FALSE, !.tx = At(h, 1, TxRing)]
    BY <1>2, <1>d
  <2> QED  BY <1>2, <2>1, <2>2
<1>5. /\ due' \in Seq(TxFrame) /\ Injective(due')
      /\ \A k \in 1 .. Len(due') : \E j \in 1 .. Len(due) : due'[k] = due[j] /\ due[j] # b
  BY <1>0, <1>a, WithoutRest
<1>6. Typed'
  <2>1. tx' \in [TxSlot -> [own : BOOLEAN, buf : {0} \cup TxFrame]]
    BY <1>1, <1>3, <1>e
  <2>2. status' \subseteq Bits /\ seen' \subseteq Bits
    BY <1>b, <1>0 DEF TypeOK, Bits, Normal
  <2> QED  BY <1>a, <1>b, <1>c, <1>0, <1>4, <1>5, <2>1, <2>2 DEF Typed, TypeOK
<1>7. Quiet'
  BY <1>a, <1>b, <1>c DEF RingInv, Quiet
<1>8. Ring'
  <2>1. Used' = Used /\ TxDirty' = TxDirty
    BY <1>a DEF Used, TxDirty
  <2>2. \A i \in TxSlot : tx'[i].buf = tx[i].buf
    BY <1>3 DEF b
  <2>3. \A i \in TxSlot : tx'[i].own => tx[i].own
    BY <1>3
  <2>4. \A k \in 1 .. Len(due') : \/ \E i \in TxSlot : tx'[i].own /\ tx'[i].buf = due'[k]
                                  \/ ifq # <<>> /\ due'[k] = ifq[1]
    <3> SUFFICES ASSUME NEW k \in 1 .. Len(due')
                 PROVE  \/ \E i \in TxSlot : tx'[i].own /\ tx'[i].buf = due'[k]
                        \/ ifq # <<>> /\ due'[k] = ifq[1]
      OBVIOUS
    <3>1. PICK j \in 1 .. Len(due) : due'[k] = due[j] /\ due[j] # b
      BY <1>5
    <3>2. CASE ifq # <<>> /\ due[j] = ifq[1]
      BY <3>1, <3>2
    <3>3. CASE \E i \in TxSlot : tx[i].own /\ tx[i].buf = due[j]
      <4>1. PICK i \in TxSlot : tx[i].own /\ tx[i].buf = due[j]
        BY <3>3
      <4>2. i # h
        BY <3>1, <4>1 DEF b
      <4> QED  BY <1>3, <3>1, <4>1, <4>2
    <3> QED  BY <1>0, <3>2, <3>3 DEF Ring
  <2> QED  BY <1>a, <1>0, <1>4, <1>5, <2>1, <2>2, <2>3, <2>4 DEF Ring
<1>9. Sent => Sent'
  <2> SUFFICES ASSUME Sent  PROVE Sent'
    OBVIOUS
  <2>1. Unsent \in 1 .. TxRing - 1 /\ TxCur \in TxSlot /\ Unsent = Pos(h, TxCur, TxRing)
    <3>1. Pos(h, h, TxRing) < Unsent
      BY <1>1 DEF Sent, h
    <3> QED  BY <1>0, <1>1, <3>1, Unsents, Sizes DEF Unsent, Pos, TxSlot, h
  <2>2. Used \in 0 .. TxRing - 1 /\ Pos(TxDirty, h, TxRing) = Used - Unsent
    BY <1>0, SentSoFar DEF Sent, h
  <2>3. Used' = Used /\ TxDirty' = TxDirty /\ Unsent' = Unsent - 1
    <3>1. Unsent' = Pos(At(h, 1, TxRing), TxCur, TxRing)
      BY <1>a, <1>4 DEF Unsent, TxCur
    <3>2. Unsent' = Unsent - 1
      BY <1>1, <2>1, <3>1, Sizes DEF Pos, At, TxSlot
    <3> QED  BY <1>a, <3>2 DEF Used, TxDirty
  <2>4. /\ Pos(At(h, 1, TxRing), h, TxRing) = TxRing - 1
        /\ \A i \in TxSlot : i # h => Pos(At(h, 1, TxRing), i, TxRing) = Pos(h, i, TxRing) - 1
        /\ \A i \in TxSlot : Pos(h, i, TxRing) \in Nat
    BY <1>1, Sizes DEF Pos, At, TxSlot
  <2>5. Pos(TxDirty, At(h, 1, TxRing), TxRing) <= Used
    BY <1>1, <2>1, <2>2, Sizes DEF Pos, At, TxSlot
  <2>6. \A i \in TxSlot : tx'[i].own <=> Pos(At(h, 1, TxRing), i, TxRing) < Unsent - 1
    <3> SUFFICES ASSUME NEW i \in TxSlot
                 PROVE  tx'[i].own <=> Pos(At(h, 1, TxRing), i, TxRing) < Unsent - 1
      OBVIOUS
    <3>1. CASE i = h
      BY <1>3, <2>1, <2>4, <3>1, Sizes
    <3>2. CASE i # h
      <4>1. tx[i].own <=> Pos(h, i, TxRing) < Unsent
        BY DEF Sent, h
      <4> QED  BY <1>3, <2>1, <2>4, <3>2, <4>1
    <3> QED  BY <3>1, <3>2
  <2>7. Len(due) = Unsent + Len(ifq) /\ due[1] = b /\ Len(ifq) \in Nat
    <3>1. due[Pos(h, h, TxRing) + 1] = b
      BY <1>1 DEF Sent, h, b
    <3>2. Pos(h, h, TxRing) + 1 = 1
      BY <1>1, Sizes DEF Pos, TxSlot
    <3>3. Len(ifq) \in Nat
      BY <1>0, LenProperties DEF TypeOK
    <3> QED  BY <3>1, <3>2, <3>3 DEF Sent
  <2>8. Len(due') = Len(due) - 1 /\ \A k \in 1 .. Len(due) - 1 : due'[k] = due[k + 1]
    <3>1. 1 \in 1 .. Len(due) /\ due' = Without(due, due[1])
      BY <1>a, <2>1, <2>7
    <3>2. /\ Len(due') = Len(due) - 1
          /\ \A k \in 1 .. Len(due) - 1 : due'[k] = IF k < 1 THEN due[k] ELSE due[k + 1]
      BY <1>0, <3>1, WithoutDef
    <3> QED  BY <1>0, <3>2
  <2>9. \A i \in TxSlot : tx'[i].own => due'[Pos(At(h, 1, TxRing), i, TxRing) + 1] = tx'[i].buf
    <3> SUFFICES ASSUME NEW i \in TxSlot, tx'[i].own
                 PROVE  due'[Pos(At(h, 1, TxRing), i, TxRing) + 1] = tx'[i].buf
      OBVIOUS
    <3>1. i # h /\ tx'[i] = tx[i]
      BY <1>3
    <3>2. due[Pos(h, i, TxRing) + 1] = tx[i].buf /\ Pos(h, i, TxRing) < Unsent
      BY <3>1 DEF Sent, h
    <3>3. Pos(h, i, TxRing) # 0
      BY <1>1, <3>1, Sizes DEF Pos, TxSlot
    <3>4. Pos(h, i, TxRing) \in 1 .. Len(due) - 1
      BY <2>1, <2>4, <2>7, <3>2, <3>3
    <3>5. Pos(At(h, 1, TxRing), i, TxRing) + 1 = Pos(h, i, TxRing)
      BY <2>4, <3>1, <3>4
    <3> QED  BY <2>8, <3>1, <3>2, <3>4, <3>5
  <2>10. Len(due') = (Unsent - 1) + Len(ifq)
    BY <2>1, <2>7, <2>8
  <2>11. ifq # <<>> => due'[(Unsent - 1) + 1] = ifq[1]
    <3> SUFFICES ASSUME ifq # <<>>  PROVE due'[(Unsent - 1) + 1] = ifq[1]
      OBVIOUS
    <3>1. Len(ifq) >= 1
      BY <1>0, <2>7, EmptySeq DEF TypeOK
    <3>2. Unsent \in 1 .. Len(due) - 1 /\ (Unsent - 1) + 1 = Unsent
      BY <2>1, <2>7, <3>1
    <3> QED  BY <2>8, <3>2 DEF Sent
  <2> QED  BY <1>a, <1>4, <2>3, <2>5, <2>6, <2>9, <2>10, <2>11 DEF Sent
<1>10. Reception => Reception'
  BY <1>b, <1>4, RxFrameRule
<1> QED  BY <1>c, <1>6, <1>7, <1>8, <1>9, <1>10 DEF RingInv

LEMMA NewRxNumber == NewRx \in RxFrame
<1> DEFINE f == [i \in 0 .. RxRing - 1 |-> rx[i].buf]
<1>1. DOMAIN f = 0 .. RxRing - 1 /\ (\A i \in 0 .. RxRing - 1 : f[i] = rx[i].buf) /\ RxRing \in Nat \ {0}
  BY Sizes
<1> HIDE DEF f
<1>2. PICK x \in 1 .. RxRing + 1 : \A i \in 0 .. RxRing - 1 : f[i] # x
  <2>1. RxRing \in Nat \ {0} /\ DOMAIN f = 0 .. RxRing - 1
    BY <1>1
  <2> QED  BY <2>1, SpareNumber, Zenon
<1>3. x \in RxFrame /\ x \notin {rx[i].buf : i \in RxSlot}
  BY <1>1, <1>2 DEF RxFrame, RxSlot
<1> QED  BY <1>3 DEF NewRx

LEMMA RxEndKeeps == ASSUME RingInv, RxEnd  PROVE RingInv'
<1> DEFINE h == hw.rx
           n == Len(rdue)
           r == RxCur
           f == NewRx
<1>a. ifq' = ifq /\ pc' = pc /\ cur' = cur /\ dirty' = dirty /\ due' = due /\ tx' = tx
  BY DEF RxEnd, engine, driver
<1>b. rcur' = rcur /\ rdue' = Append(rdue, f) /\ status' = (status \ {"ERI"}) \cup {"RI", "NIS"} /\ seen' = seen
  BY DEF RxEnd, engine, driver
<1>c. up /\ up' = up /\ erred' = erred
  BY DEF RxEnd, engine
<1>d. hw.rxbusy /\ hw' = [hw EXCEPT !.rxbusy = FALSE, !.rx = (h + 1) % RxRing]
  BY DEF RxEnd
<1>e. rx' = [rx EXCEPT ![h] = [own |-> FALSE, buf |-> f]]
  BY DEF RxEnd
<1>0. Typed /\ TypeOK /\ Reception /\ rdue \in Seq(RxFrame) /\ n \in Nat /\ f \in RxFrame
  BY <1>c, LenProperties, NewRxNumber DEF RingInv, Typed
<1>1. h \in RxSlot /\ rx[h].own /\ r \in RxSlot /\ h = At(r, n, RxRing) /\ n <= RxRing
  BY <1>0, <1>d, Counters DEF TypeOK, Reception
<1>2. (h + 1) % RxRing = At(h, 1, RxRing) /\ At(h, 1, RxRing) \in RxSlot
  <2>1. h % RxRing = h /\ h \in Int /\ 1 \in 0 .. RxRing
    BY <1>1, Sizes, ModSmall DEF RxSlot
  <2>2. (h + 1) % RxRing = At(h % RxRing, 1, RxRing)
    <3> HIDE DEF h
    <3> QED  BY <2>1, Sizes, ModPlus
  <2>3. (h + 1) % RxRing = At(h, 1, RxRing)
    BY <2>1, <2>2
  <2>4. h \in RxSlot
    BY <1>1
  <2> HIDE DEF h
  <2>5. At(h, 1, RxRing) \in RxSlot
    BY <2>4, Sizes DEF At, RxSlot
  <2> QED  BY <2>3, <2>5
<1>3. /\ rdue' \in Seq(RxFrame) /\ Len(rdue') = n + 1
      /\ (\A k \in 1 .. n : rdue'[k] = rdue[k]) /\ rdue'[n + 1] = f
  <2> HIDE DEF f
  <2> QED  BY <1>0, <1>b, AppendProperties
<1>4. Pos(r, h, RxRing) >= n
  BY <1>0, <1>1 DEF Reception
<1> HIDE DEF h, n, r, f
<1>5. n < RxRing /\ Pos(r, h, RxRing) = n
  BY <1>0, <1>1, <1>4, Sizes DEF Pos, At, RxSlot
<1>6. /\ rx \in [RxSlot -> [own : BOOLEAN, buf : {0} \cup RxFrame]]
      /\ rx'[h] = [own |-> FALSE, buf |-> f]
      /\ \A i \in RxSlot : i # h => rx'[i] = rx[i]
  <2>1. rx \in [RxSlot -> [own : BOOLEAN, buf : {0} \cup RxFrame]]
    BY <1>0 DEF TypeOK
  <2> QED  BY <1>1, <1>e, <2>1
<1>7. /\ hw' \in [tx : TxSlot, rx : RxSlot, run : BOOLEAN, txbusy : BOOLEAN, rxbusy : BOOLEAN]
      /\ hw'.rx = At(h, 1, RxRing) /\ hw'.tx = hw.tx /\ hw'.txbusy = hw.txbusy /\ ~hw'.rxbusy
  <2>1. hw \in [tx : TxSlot, rx : RxSlot, run : BOOLEAN, txbusy : BOOLEAN, rxbusy : BOOLEAN]
    BY <1>0 DEF TypeOK
  <2>2. hw' = [hw EXCEPT !.rxbusy = FALSE, !.rx = At(h, 1, RxRing)]
    BY <1>2, <1>d
  <2> QED  BY <1>2, <2>1, <2>2
<1>8. Typed'
  <2>1. rx' \in [RxSlot -> [own : BOOLEAN, buf : {0} \cup RxFrame]]
    BY <1>0, <1>1, <1>6, <1>e
  <2>2. status' \subseteq Bits /\ seen' \subseteq Bits
    BY <1>b, <1>0 DEF TypeOK, Bits, Normal
  <2> QED  BY <1>a, <1>b, <1>c, <1>0, <1>3, <1>7, <2>1, <2>2 DEF Typed, TypeOK
<1>9. Quiet'
  BY <1>a, <1>b, <1>c DEF RingInv, Quiet
<1>10. (Ring => Ring') /\ (Sent => Sent')
  BY <1>a, <1>7, TxFrameRule
<1>11. Reception'
  <2>1. RxCur' = r
    BY <1>b DEF RxCur, r
  <2>2. n + 1 <= RxRing /\ At(h, 1, RxRing) = At(r, n + 1, RxRing)
    BY <1>0, <1>1, <1>5, Sizes DEF At, RxSlot
  <2>3. \A i \in RxSlot : Pos(r, i, RxRing) \in Nat /\ (i # h => Pos(r, i, RxRing) # n)
    BY <1>1, <1>5, Sizes DEF Pos, RxSlot
  <2>4. \A i \in RxSlot : rx'[i].own <=> Pos(r, i, RxRing) >= n + 1
    <3> SUFFICES ASSUME NEW i \in RxSlot  PROVE rx'[i].own <=> Pos(r, i, RxRing) >= n + 1
      OBVIOUS
    <3>1. CASE i = h
      BY <1>0, <1>5, <1>6, <3>1
    <3>2. CASE i # h
      <4>1. rx[i].own <=> Pos(r, i, RxRing) >= n
        BY <1>0 DEF Reception, r, n
      <4> QED  BY <1>0, <1>6, <2>3, <3>2, <4>1
    <3> QED  BY <3>1, <3>2
  <2>5. \A i \in RxSlot : ~rx'[i].own => rdue'[Pos(r, i, RxRing) + 1] = rx'[i].buf
    <3> SUFFICES ASSUME NEW i \in RxSlot, ~rx'[i].own  PROVE rdue'[Pos(r, i, RxRing) + 1] = rx'[i].buf
      OBVIOUS
    <3>1. CASE i = h
      BY <1>3, <1>5, <1>6, <3>1
    <3>2. CASE i # h
      <4>1. rdue[Pos(r, i, RxRing) + 1] = rx[i].buf /\ ~(Pos(r, i, RxRing) >= n)
        BY <1>0, <1>6, <3>2 DEF Reception, r, n
      <4>2. Pos(r, i, RxRing) + 1 \in 1 .. n
        BY <1>0, <2>3, <4>1
      <4> QED  BY <1>3, <1>6, <3>2, <4>1, <4>2
    <3> QED  BY <3>1, <3>2
  <2> QED  BY <1>3, <1>7, <2>1, <2>2, <2>4, <2>5 DEF Reception
<1> QED  BY <1>c, <1>8, <1>9, <1>10, <1>11 DEF RingInv

LEMMA RingInvNext == RingInv /\ [Next]_vars => RingInv'
<1> SUFFICES ASSUME RingInv, [Next]_vars  PROVE RingInv'
  OBVIOUS
<1>1. CASE Next
  BY <1>1, OutputKeeps, XmitKeeps, XmitDoneKeeps, PollReadKeeps, PollKeeps, ReclaimKeeps, ReceiveKeeps,
     ReceiveDoneKeeps, OpenKeeps, RemoveKeeps, TxStartKeeps, TxEndKeeps, TxFaultKeeps,
     RxStartKeeps, RxEarlyKeeps, RxEndKeeps DEF Next, Driver
<1>2. CASE UNCHANGED vars
  <2>a. ifq' = ifq /\ pc' = pc /\ due' = due /\ tx' = tx /\ cur' = cur /\ dirty' = dirty /\ hw' = hw
    BY <1>2 DEF vars, driver, history
  <2>b. rx' = rx /\ rcur' = rcur /\ rdue' = rdue /\ status' = status /\ seen' = seen
    BY <1>2 DEF vars, driver, history
  <2>c. up' = up /\ erred' = erred
    BY <1>2 DEF vars, history
  <2>1. Typed'
    BY <2>a, <2>b, <2>c DEF RingInv, Typed, TypeOK
  <2>2. Quiet'
    BY <2>a, <2>b, <2>c DEF RingInv, Quiet
  <2>3. (Ring => Ring') /\ (Sent => Sent')
    BY <2>a, TxFrameRule
  <2>4. Reception => Reception'
    BY <2>a, <2>b, RxFrameRule
  <2> QED  BY <2>c, <2>1, <2>2, <2>3, <2>4 DEF RingInv
<1> QED  BY <1>1, <1>2

-----------------------------------------------------------------------------
(* What the invariant says in the terms of the specification.              *)

LEMMA InUseAt ==
  ASSUME TypeOK, Used < TxRing
  PROVE  /\ DOMAIN InUse = 1 .. Used /\ Len(InUse) = Used /\ Used \in 0 .. TxRing - 1
         /\ \A k \in 1 .. Used : InUse[k] = At(TxDirty, k - 1, TxRing)
         /\ TxDirty \in TxSlot
<1>1. Used = (cur - dirty) % Wrap /\ Used \in 0 .. TxRing - 1 /\ TxDirty \in TxSlot /\ dirty \in Int
  BY Counters, Sizes DEF TypeOK
<1>2. InUse = [k \in 1 .. Used |-> (dirty + k - 1) % TxRing]
  BY <1>1 DEF InUse
<1>3. ASSUME NEW k \in 1 .. Used  PROVE (dirty + k - 1) % TxRing = At(TxDirty, k - 1, TxRing)
  <2> DEFINE j == k - 1
  <2>1. j \in 0 .. TxRing /\ dirty + k - 1 = dirty + j
    BY <1>1, Sizes
  <2>2. (dirty + j) % TxRing = At(dirty % TxRing, j, TxRing)
    <3> HIDE DEF j
    <3> QED  BY <1>1, <2>1, Sizes, ModPlus
  <2> QED  BY <2>1, <2>2 DEF TxDirty
<1>4. Len(InUse) = Used
  <2>1. Used \in Nat
    BY <1>1
  <2> QED  BY <1>2, <2>1
<1> QED  BY <1>1, <1>2, <1>3, <1>4

LEMMA RingGivesExact == ASSUME RingInv  PROVE RingExact
<1> SUFFICES ASSUME up
             PROVE  /\ (cur - dirty) % Wrap < TxRing
                    /\ \A i \in TxSlot : /\ (tx[i].buf # 0) <=> i \in Range(InUse)
                                         /\ tx[i].own => tx[i].buf # 0
                    /\ hw.txbusy => tx[hw.tx].own
  BY DEF RingExact
<1>1. TypeOK /\ Ring /\ Used < TxRing
  BY DEF RingInv, Typed, Ring
<1>2. Used = (cur - dirty) % Wrap
  BY <1>1, Counters
<1>3. ASSUME NEW i \in TxSlot  PROVE i \in Range(InUse) <=> Pos(TxDirty, i, TxRing) < Used
  <2>1. i \in Range(InUse) <=> \E k \in 1 .. Used : i = At(TxDirty, k - 1, TxRing)
    BY <1>1, InUseAt DEF Range
  <2>2. Used \in 0 .. TxRing - 1 /\ TxDirty \in TxSlot
    BY <1>1, InUseAt
  <2>3. ASSUME NEW k \in 1 .. Used, i = At(TxDirty, k - 1, TxRing)  PROVE Pos(TxDirty, i, TxRing) < Used
    BY <2>2, <2>3, Sizes DEF At, Pos, TxSlot
  <2>4. ASSUME Pos(TxDirty, i, TxRing) < Used  PROVE \E k \in 1 .. Used : i = At(TxDirty, k - 1, TxRing)
    <3> DEFINE k == Pos(TxDirty, i, TxRing) + 1
    <3>1. k \in 1 .. Used /\ i = At(TxDirty, k - 1, TxRing)
      BY <2>2, <2>4, Sizes DEF At, Pos, TxSlot
    <3> QED  BY <3>1
  <2> QED  BY <2>1, <2>3, <2>4
<1> QED  BY <1>1, <1>2, <1>3 DEF Ring

LEMMA SentGivesExact == ASSUME RingInv  PROVE TxExact
<1> DEFINE e == Pos(TxDirty, hw.tx, TxRing)
           g == [k \in 1 .. Len(InUse) - e |-> tx[InUse[e + k]].buf]
<1> SUFFICES ASSUME up, ~erred
             PROVE  /\ e \in 0 .. Len(InUse)
                    /\ \A k \in DOMAIN InUse : tx[InUse[k]].own <=> k > e
                    /\ e < Len(InUse) => hw.tx = InUse[e + 1]
                    /\ due = g \o ifq
  BY DEF TxExact
<1>1. Typed /\ TypeOK /\ Ring /\ Sent /\ Used < TxRing
  BY DEF RingInv, Typed, Ring
<1>2. /\ DOMAIN InUse = 1 .. Used /\ Len(InUse) = Used /\ Used \in 0 .. TxRing - 1
      /\ \A k \in 1 .. Used : InUse[k] = At(TxDirty, k - 1, TxRing)
      /\ TxDirty \in TxSlot
  BY <1>1, InUseAt
<1>3. Unsent \in 0 .. TxRing - 1 /\ hw.tx \in TxSlot /\ e = Used - Unsent /\ e <= Used
  BY <1>1, Unsents, SentSoFar DEF Sent
<1>4. e \in 0 .. Used /\ hw.tx = At(TxDirty, e, TxRing)
  BY SMTT(40), <1>2, <1>3, Sizes DEF Pos, At, TxSlot
<1> HIDE DEF e
<1>5. ASSUME NEW k \in 1 .. Used
      PROVE  /\ InUse[k] \in TxSlot /\ (tx[InUse[k]].own <=> k > e)
             /\ k > e => Pos(hw.tx, InUse[k], TxRing) = k - 1 - e
  <2>1. InUse[k] = At(TxDirty, k - 1, TxRing)
    BY <1>2
  <2>2. InUse[k] \in TxSlot /\ (k > e => Pos(hw.tx, InUse[k], TxRing) = k - 1 - e)
    BY <1>2, <1>4, <2>1, Sizes DEF Pos, At, TxSlot
  <2>3. tx[InUse[k]].own <=> Pos(hw.tx, InUse[k], TxRing) < Unsent
    BY <1>1, <2>2 DEF Sent
  <2>4. k <= e => Pos(hw.tx, InUse[k], TxRing) = k - 1 - e + TxRing
    BY <1>2, <1>4, <2>1, Sizes DEF Pos, At, TxSlot
  <2>5. Pos(hw.tx, InUse[k], TxRing) < Unsent <=> k > e
    BY <1>2, <1>3, <1>4, <2>2, <2>4, Sizes
  <2> QED  BY <2>2, <2>3, <2>5
<1>6. e < Used => hw.tx = InUse[e + 1]
  BY <1>2, <1>4, Sizes
<1>7. g \in Seq({0} \cup TxFrame) /\ Len(g) = Unsent /\ \A k \in 1 .. Unsent : g[k] = due[k]
  <2>1. g = [k \in 1 .. Unsent |-> tx[InUse[e + k]].buf]
    <3>1. Len(InUse) - e = Unsent
      BY <1>2, <1>3, <1>4, Sizes
    <3> QED  BY <3>1
  <2>2. ASSUME NEW k \in 1 .. Unsent
        PROVE  tx[InUse[e + k]].buf = due[k] /\ tx[InUse[e + k]].buf \in {0} \cup TxFrame
    <3>1. e + k \in 1 .. Used /\ e + k > e /\ e + k - 1 - e + 1 = k
      BY <1>2, <1>3, <1>4
    <3>2. InUse[e + k] \in TxSlot /\ tx[InUse[e + k]].own /\ Pos(hw.tx, InUse[e + k], TxRing) + 1 = k
      <4> DEFINE m == e + k
      <4>1. m \in 1 .. Used /\ m > e /\ m - 1 - e + 1 = k
        BY <1>2, <1>3, <1>4, <3>1
      <4> HIDE DEF m
      <4>2. InUse[m] \in TxSlot /\ tx[InUse[m]].own /\ Pos(hw.tx, InUse[m], TxRing) = m - 1 - e
        BY <1>5, <4>1
      <4>3. Pos(hw.tx, InUse[m], TxRing) + 1 = k
        BY <1>2, <1>3, <1>4, <4>1, <4>2
      <4> QED  BY <4>2, <4>3 DEF m
    <3>3. tx \in [TxSlot -> [own : BOOLEAN, buf : {0} \cup TxFrame]]
      BY <1>1 DEF TypeOK
    <3>4. tx[InUse[e + k]].buf \in {0} \cup TxFrame
      BY <3>2, <3>3
    <3> QED  BY <1>1, <3>2, <3>4 DEF Sent
  <2>3. Unsent \in Nat
    BY <1>3
  <2> HIDE DEF g
  <2> QED  BY <2>1, <2>2, <2>3
<1> HIDE DEF g
<1>8. due = g \o ifq
  <2> DEFINE S == {0} \cup TxFrame
  <2>1. ifq \in Seq(S) /\ due \in Seq(S) /\ Len(ifq) <= 1
    <3>1. ifq \in Seq(TxFrame) /\ due \in Seq(TxFrame) /\ Len(ifq) <= 1
      BY <1>1 DEF Typed, TypeOK, RingInv, Quiet
    <3> QED  BY <3>1
  <2>2. Len(ifq) \in Nat /\ Unsent \in Nat /\ g \in Seq(S)
    BY <1>3, <1>7, <2>1
  <2> HIDE DEF S
  <2>3. /\ g \o ifq \in Seq(S) /\ Len(g \o ifq) = Unsent + Len(ifq)
        /\ \A k \in 1 .. Unsent + Len(ifq) : (g \o ifq)[k] = IF k <= Unsent THEN g[k] ELSE ifq[k - Unsent]
    BY <1>7, <2>1, <2>2, ConcatProperties
  <2>4. Len(due) = Unsent + Len(ifq) /\ (ifq # <<>> => due[Unsent + 1] = ifq[1])
    BY <1>1 DEF Sent
  <2> DEFINE L == Len(ifq)
  <2>5. L \in {0, 1} /\ Unsent \in Nat /\ (L = 1 => ifq # <<>>)
    <3>1. Len(<<>>) = 0
      BY EmptySeq
    <3>2. L = 1 => ifq # <<>>
      BY <3>1
    <3>3. L \in Nat /\ L <= 1 /\ Unsent \in Nat
      BY <2>1, <2>2
    <3> HIDE DEF L
    <3>4. L \in {0, 1}
      BY <3>3
    <3> QED  BY <3>2, <3>3, <3>4
  <2> HIDE DEF L
  <2>6. ASSUME NEW k \in 1 .. Unsent + L  PROVE due[k] = (g \o ifq)[k]
    <3>1. (g \o ifq)[k] = IF k <= Unsent THEN g[k] ELSE ifq[k - Unsent]
      BY <2>3 DEF L
    <3>2. CASE k <= Unsent
      <4>1. k \in 1 .. Unsent
        BY <2>5, <3>2
      <4> QED  BY <1>7, <3>1, <3>2, <4>1
    <3>3. CASE ~(k <= Unsent)
      <4>1. L = 1 /\ k = Unsent + 1 /\ k - Unsent = 1
        BY <2>5, <3>3
      <4> QED  BY <2>4, <2>5, <3>1, <3>3, <4>1
    <3> QED  BY <3>2, <3>3
  <2> QED  BY <2>1, <2>3, <2>4, <2>6, SeqEqual DEF L
<1> QED  BY <1>2, <1>4, <1>5, <1>6, <1>8

LEMMA ReceptionGivesExact == ASSUME RingInv  PROVE RxExact
<1> DEFINE a == Len(rdue)
<1> SUFFICES ASSUME up
             PROVE  /\ a \in 0 .. RxRing
                    /\ \A k \in 1 .. RxRing : rx[Ahead[k]].own <=> k > a
                    /\ rdue = [k \in 1 .. a |-> rx[Ahead[k]].buf]
  BY DEF RxExact
<1>1. TypeOK /\ Reception /\ rdue \in Seq(RxFrame) /\ RxCur \in RxSlot /\ rcur \in Int
  BY Counters, Sizes DEF RingInv, Typed, TypeOK
<1>2. a \in 0 .. RxRing /\ DOMAIN rdue = 1 .. a
  BY <1>1, LenProperties DEF Reception
<1>3. ASSUME NEW k \in 1 .. RxRing  PROVE Ahead[k] = At(RxCur, k - 1, RxRing)
  <2> DEFINE j == k - 1
  <2>1. j \in 0 .. RxRing /\ rcur + k - 1 = rcur + j
    BY <1>1, Sizes
  <2>2. (rcur + j) % RxRing = At(rcur % RxRing, j, RxRing)
    <3> HIDE DEF j
    <3> QED  BY <1>1, <2>1, Sizes, ModPlus
  <2>3. Ahead[k] = (rcur + k - 1) % RxRing
    BY DEF Ahead
  <2> QED  BY <2>1, <2>2, <2>3 DEF RxCur
<1>4. ASSUME NEW k \in 1 .. RxRing  PROVE Ahead[k] \in RxSlot /\ Pos(RxCur, Ahead[k], RxRing) = k - 1
  <2>1. Ahead[k] = At(RxCur, k - 1, RxRing)
    BY <1>3
  <2> QED  BY <1>1, <2>1, Sizes DEF Pos, At, RxSlot
<1>5. ASSUME NEW k \in 1 .. RxRing
      PROVE  (rx[Ahead[k]].own <=> k > a) /\ (k <= a => rdue[k] = rx[Ahead[k]].buf)
  <2>1. rx[Ahead[k]].own <=> k - 1 >= a
    BY <1>1, <1>4 DEF Reception
  <2>2. ~rx[Ahead[k]].own => rdue[(k - 1) + 1] = rx[Ahead[k]].buf
    BY <1>1, <1>4 DEF Reception
  <2>3. (k - 1) + 1 = k /\ (k - 1 >= a <=> k > a) /\ (k > a <=> ~(k <= a))
    BY <1>2, Sizes
  <2> QED  BY <2>1, <2>2, <2>3
<1>6. rdue = [k \in 1 .. a |-> rx[Ahead[k]].buf]
  <2>1. rdue = [k \in 1 .. a |-> rdue[k]]
    BY <1>1, <1>2, LenProperties
  <2>2. \A k \in 1 .. a : rdue[k] = rx[Ahead[k]].buf
    BY <1>2, <1>5, Sizes
  <2> QED  BY <2>1, <2>2
<1> QED  BY <1>2, <1>5, <1>6

\* For rings of any size, counters of any width that is a multiple of them and
\* queues of any length: the driver's counters, the descriptors and the engine
\* agree, no frame is dropped, doubled or overtaken on either ring, however the
\* driver and the engine interleave, and also after a hard error and a reopen.
THEOREM RingsStayExact == Spec => []RingsExact
<1>1. Init => RingInv
  BY RingInvInit
<1>2. RingInv /\ [Next]_vars => RingInv'
  BY RingInvNext
<1>3. RingInv => RingsExact
  BY RingGivesExact, SentGivesExact, ReceptionGivesExact DEF RingInv, Typed, RingsExact
<1> QED  BY <1>1, <1>2, <1>3, PTL DEF Spec
=============================================================================
