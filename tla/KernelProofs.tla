---------------------------- MODULE KernelProofs ----------------------------
(***************************************************************************)
(* For pages of any size, heaps and requests of any size and any sequence  *)
(* of calls of kmem_malloc, kmem_free and __kmem_alloc: no two parties     *)
(* share memory, a list never leads through a caller's data, and nothing   *)
(* that was taken from the heap is lost.                                   *)
(*                                                                         *)
(* The code keeps no record of where blocks begin: that lies in the sizes  *)
(* callers asked for, in the links written into free blocks and in one     *)
(* ku_index for a whole page, and each of them is overwritten later.  The  *)
(* invariant therefore says that there is a layout, blocks side by side    *)
(* from the kmemusage table up to kmemoffs, in which every block is a      *)
(* caller's, a page taken with __kmem_alloc, or free; that ku_index makes  *)
(* kmem_free believe the length the layout has; and that each bucket is a  *)
(* list through its free blocks.  A step only adds blocks at the end of    *)
(* the layout or moves one block between the parties.                      *)
(*                                                                         *)
(* And for every table of devices and any number of them: names are        *)
(* unique, parents are there, the units of a dynamic entry are dense, and  *)
(* the lists lead through the devices.  Here the invariant adds what the   *)
(* attach functions on the stack rely on when one of them fails.           *)
(*                                                                         *)
(* And for terminals with queues, UARTs and hosts of any size, within what *)
(* flow control allows for: no input is lost and output is complete.  Here *)
(* the invariant adds how full the receive queue can be, which is what     *)
(* makes the code right to drop nothing, and where output may wait.        *)
(*                                                                         *)
(* And for C library heaps of any size and any sequence of malloc and      *)
(* free: the ring of free blocks is in the order of the addresses, every   *)
(* unit is in one block, and blocks that touch are joined.  Here the       *)
(* invariant says that some set of addresses is the ring's, ordered and    *)
(* paving the heap together with the callers' blocks; and because free     *)
(* joins a block with its two neighbours in turn, one more such statement  *)
(* describes the memory between the two.                                   *)
(***************************************************************************)
EXTENDS KernMalloc, LibMalloc, Autoconf, Termio, FiniteSetTheorems, SequenceTheorems, TLAPS

-----------------------------------------------------------------------------
(* Numbers.                                                                *)

\* A nonempty set of numbers has a least one: what stands in for induction.
LEMMA LeastNat ==
  ASSUME NEW S \in SUBSET Nat, S # {}
  PROVE  \E x \in S : \A y \in S : x <= y
<1> DEFINE R == OpToRel(<, Nat)
<1>1. \A x, y \in Nat : <<y, x>> \notin R => x <= y
  <2>1. \A x, y \in Nat : y < x => <<y, x>> \in R
    BY DEF OpToRel
  <2> HIDE DEF R
  <2> QED  BY <2>1
<1>2. IsWellFoundedOn(R, Nat)
  BY NatLessThanWellFounded
<1> HIDE DEF R
<1>3. PICK x \in S : \A y \in S : ~(<<y, x>> \in R)
  BY <1>2, WFMin
<1>4. \A y \in S : x <= y
  BY <1>1, <1>3
<1> QED  BY <1>3, <1>4

\* A number is its quotient times the divisor and its remainder.
LEMMA DivMod ==
  ASSUME NEW a \in Int, NEW m \in Nat \ {0}
  PROVE  a % m \in 0 .. m - 1 /\ a \div m \in Int /\ a = m * (a \div m) + (a % m)
BY SMT

\* Multiples of m that differ do so by m at least.
LEMMA Apart ==
  ASSUME NEW m \in Nat \ {0}, NEW p \in Int, NEW q \in Int, p < q
  PROVE  m * p \in Int /\ m * q \in Int /\ m * p + m <= m * q
<1>1. m * p \in Int /\ m * q \in Int /\ m * (q - p) \in Int /\ m * q = m * p + m * (q - p)
  BY SMT
<1>2. m * (q - p) >= m
  BY SMT
<1> QED  BY <1>1, <1>2

\* Quotient and remainder are the only ones.
LEMMA DivUnique ==
  ASSUME NEW m \in Nat \ {0}, NEW q \in Int, NEW r \in 0 .. m - 1
  PROVE  (m * q + r) % m = r /\ (m * q + r) \div m = q
<1> DEFINE a == m * q + r
           p == a \div m
           s == a % m
<1>1. a \in Int /\ m * q \in Int
  BY SMT
<1>2. s \in 0 .. m - 1 /\ p \in Int /\ a = m * p + s
  BY <1>1, DivMod
<1> HIDE DEF p, s
<1>3. m * q + r = m * p + s /\ m * p \in Int
  BY <1>2, SMT
<1>4. ~(p < q)
  <2> SUFFICES ASSUME p < q  PROVE FALSE
    OBVIOUS
  <2>1. m * p + m <= m * q
    BY <1>2, Apart
  <2> DEFINE u == m * p  v == m * q
  <2>2. u \in Int /\ v \in Int /\ v + r = u + s /\ u + m <= v
    BY <1>1, <1>3, <2>1
  <2> HIDE DEF u, v
  <2> QED  BY <2>2, <1>2
<1>5. ~(q < p)
  <2> SUFFICES ASSUME q < p  PROVE FALSE
    OBVIOUS
  <2>1. m * q + m <= m * p
    BY <1>2, Apart
  <2> DEFINE u == m * p  v == m * q
  <2>2. u \in Int /\ v \in Int /\ v + r = u + s /\ v + m <= u
    BY <1>1, <1>3, <2>1
  <2> HIDE DEF u, v
  <2> QED  BY <2>2, <1>2
<1>6. p = q
  BY <1>2, <1>4, <1>5
<1>7. s = r
  <2> DEFINE u == m * p
  <2>1. u \in Int /\ u + r = u + s
    BY <1>3, <1>6
  <2> HIDE DEF u
  <2> QED  BY <2>1, <1>2
<1> QED  BY <1>6, <1>7 DEF p, s
-----------------------------------------------------------------------------
(* Lists.                                                                  *)

\* A list starts at h, ends at t and has its links in nx: n blocks, the k-th of
\* them s[k].
Chain(n, s, h, t, nx) ==
  /\ \A j, k \in 1 .. n : s[j] = s[k] => j = k
  /\ h = IF n = 0 THEN NULL ELSE s[1]
  /\ \A k \in 1 .. n : nx[s[k]] = IF k = n THEN NULL ELSE s[k + 1]
  /\ n > 0 => t = s[n]
\* S is what such a list holds.
Listed(S, h, t, nx) ==
  \E n \in Nat : \E s \in [1 .. n -> Addr] : Chain(n, s, h, t, nx) /\ S = {s[k] : k \in 1 .. n}

\* A walk along the links from h on, as FreeBlocks takes it.
Walked(w, h, nx) ==
  w = [k \in 0 .. KmemSize |->
         IF k = 0 THEN {h} \ {NULL} ELSE w[k - 1] \cup ({nx[a] : a \in w[k - 1] \cap Addr} \ {NULL})]
\* Where a walk as long as the heap comes to.
Reach(h, nx) == (CHOOSE w : Walked(w, h, nx))[KmemSize]

\* The free blocks of a bucket are what a walk from kb_next finds.
LEMMA FreeBlocksReach ==
  ASSUME NEW i  PROVE FreeBlocks(i) = Reach(kb_next[i], next)
BY DEF FreeBlocks, Reach, Walked

\* No two walks differ.
LEMMA WalkUnique ==
  ASSUME NEW h, NEW nx, NEW v, NEW w, Walked(v, h, nx), Walked(w, h, nx)
  PROVE  \A k \in 0 .. KmemSize : v[k] = w[k]
<1> DEFINE Bad == {k \in 0 .. KmemSize : v[k] # w[k]}
<1> SUFFICES ASSUME Bad # {}  PROVE FALSE
  OBVIOUS
<1>1. Bad \in SUBSET Nat
  BY KernMallocAssumption
<1>2. PICK k \in Bad : \A j \in Bad : k <= j
  <2> HIDE DEF Bad
  <2> QED  BY <1>1, LeastNat
<1>3. k \in 0 .. KmemSize /\ v[k] # w[k] /\ KmemSize \in Nat
  BY <1>2, KernMallocAssumption
<1>4. /\ v[k] = IF k = 0 THEN {h} \ {NULL} ELSE v[k - 1] \cup ({nx[a] : a \in v[k - 1] \cap Addr} \ {NULL})
      /\ w[k] = IF k = 0 THEN {h} \ {NULL} ELSE w[k - 1] \cup ({nx[a] : a \in w[k - 1] \cap Addr} \ {NULL})
  BY <1>3 DEF Walked
<1>5. k # 0
  BY <1>3, <1>4
<1>6. k - 1 \notin Bad /\ k - 1 \in 0 .. KmemSize
  BY <1>2, <1>3, <1>5
<1>7. v[k - 1] = w[k - 1]
  BY <1>6
<1> QED  BY <1>3, <1>4, <1>5, <1>7

\* A list is no longer than the heap.
LEMMA ListShort ==
  ASSUME NEW n \in Nat, NEW s \in [1 .. n -> Addr], \A j, k \in 1 .. n : s[j] = s[k] => j = k
  PROVE  n <= KmemSize
<1>0. KmemSize \in Nat
  BY KernMallocAssumption
<1>1. IsFiniteSet(Addr) /\ Cardinality(Addr) = KmemSize
  <2>1. IsFiniteSet(0 .. KmemSize - 1) /\ Cardinality(0 .. KmemSize - 1) = IF 0 > KmemSize - 1 THEN 0 ELSE KmemSize - 1 - 0 + 1
    <3>1. 0 \in Int /\ KmemSize - 1 \in Int
      BY <1>0
    <3> QED  BY <3>1, FS_Interval
  <2> QED  BY <1>0, <2>1 DEF Addr
<1>2. s \in Injection(1 .. n, Addr)
  BY DEF Injection, IsInjective
<1>3. Cardinality(1 .. n) <= Cardinality(Addr)
  BY <1>1, <1>2, FS_Injection
<1>4. Cardinality(1 .. n) = n
  <2>1. 1 \in Int /\ n \in Int
    OBVIOUS
  <2>2. Cardinality(1 .. n) = IF 1 > n THEN 0 ELSE n - 1 + 1
    BY <2>1, FS_Interval
  <2> QED  BY <2>2
<1> QED  BY <1>1, <1>3, <1>4

\* A walk along a list finds what it holds.
LEMMA WalkFinds ==
  ASSUME NEW S, NEW h, NEW t, NEW nx, Listed(S, h, t, nx)
  PROVE  Reach(h, nx) = S
<1>0. KmemSize \in Nat /\ NULL \notin Addr
  BY KernMallocAssumption DEF NULL, Addr
<1>1. PICK n \in Nat : \E s \in [1 .. n -> Addr] : Chain(n, s, h, t, nx) /\ S = {s[k] : k \in 1 .. n}
  BY DEF Listed
<1>2. PICK s \in [1 .. n -> Addr] : Chain(n, s, h, t, nx) /\ S = {s[k] : k \in 1 .. n}
  BY <1>1
<1>3. /\ \A j, k \in 1 .. n : s[j] = s[k] => j = k
      /\ h = IF n = 0 THEN NULL ELSE s[1]
      /\ \A k \in 1 .. n : nx[s[k]] = IF k = n THEN NULL ELSE s[k + 1]
  BY <1>2 DEF Chain
<1> DEFINE met(k) == {s[j] : j \in {j \in 1 .. n : j <= k + 1}}
           w == [k \in 0 .. KmemSize |-> met(k)]
<1>4. ASSUME NEW k \in 0 .. KmemSize, k # 0
      PROVE  met(k) = met(k - 1) \cup ({nx[a] : a \in met(k - 1) \cap Addr} \ {NULL})
  <2>1. ASSUME NEW x \in met(k)
        PROVE  x \in met(k - 1) \cup ({nx[a] : a \in met(k - 1) \cap Addr} \ {NULL})
    <3>1. PICK j \in 1 .. n : j <= k + 1 /\ x = s[j]
      OBVIOUS
    <3>2. CASE j <= k
      BY <3>1, <3>2
    <3>3. CASE j = k + 1
      <4>1. j - 1 \in 1 .. n /\ j - 1 <= (k - 1) + 1 /\ j - 1 # n /\ (j - 1) + 1 = j
        BY <1>4, <3>3
      <4>2. s[j - 1] \in met(k - 1) \cap Addr /\ nx[s[j - 1]] = s[j]
        BY <1>3, <4>1
      <4>3. s[j] # NULL
        BY <1>0
      <4> QED  BY <3>1, <4>2, <4>3
    <3> QED  BY <3>1, <3>2, <3>3
  <2>2. ASSUME NEW x \in met(k - 1)  PROVE x \in met(k)
    BY <1>4
  <2>3. ASSUME NEW a \in met(k - 1), nx[a] # NULL  PROVE nx[a] \in met(k)
    <3>1. PICK j \in 1 .. n : j <= (k - 1) + 1 /\ a = s[j]
      OBVIOUS
    <3>2. j # n /\ nx[a] = s[j + 1]
      BY <1>3, <2>3, <3>1
    <3>3. j + 1 \in 1 .. n /\ j + 1 <= k + 1
      BY <1>4, <3>1, <3>2
    <3> QED  BY <3>2, <3>3
  <2> HIDE DEF met
  <2> QED  BY <2>1, <2>2, <2>3
<1>5. met(0) = {h} \ {NULL}
  <2>1. CASE n = 0
    BY <1>3, <2>1
  <2>2. CASE n # 0
    <3>1. {j \in 1 .. n : j <= 0 + 1} = {1}
      BY <2>2
    <3>2. s[1] # NULL
      BY <1>0, <2>2
    <3> QED  BY <1>3, <2>2, <3>1, <3>2
  <2> QED  BY <2>1, <2>2
<1>6. Walked(w, h, nx)
  <2>1. \A k \in 0 .. KmemSize : w[k] = met(k)
    OBVIOUS
  <2>2. \A k \in 0 .. KmemSize : k # 0 => w[k - 1] = met(k - 1)
    BY <1>0
  <2>3. w = [k \in 0 .. KmemSize |-> w[k]]
    OBVIOUS
  <2> HIDE DEF met, w
  <2>4. ASSUME NEW k \in 0 .. KmemSize
        PROVE  w[k] = IF k = 0 THEN {h} \ {NULL} ELSE w[k - 1] \cup ({nx[a] : a \in w[k - 1] \cap Addr} \ {NULL})
    BY <1>4, <1>5, <2>1, <2>2
  <2> QED  BY <2>3, <2>4 DEF Walked
<1>7. Walked(CHOOSE v : Walked(v, h, nx), h, nx)
  <2> HIDE DEF w
  <2> QED  BY <1>6
<1>8. Reach(h, nx) = w[KmemSize]
  <2> HIDE DEF w
  <2>1. KmemSize \in 0 .. KmemSize
    BY <1>0
  <2> QED  BY <1>6, <1>7, <2>1, WalkUnique DEF Reach
<1>9. w[KmemSize] = S
  <2>1. n <= KmemSize
    BY <1>3, ListShort
  <2>2. {j \in 1 .. n : j <= KmemSize + 1} = 1 .. n
    BY <1>0, <2>1
  <2>3. w[KmemSize] = met(KmemSize)
    BY <1>0
  <2> QED  BY <1>2, <2>2, <2>3
<1> QED  BY <1>8, <1>9

\* The list of an empty bucket.
LEMMA ListNil ==
  ASSUME NEW t, NEW nx  PROVE Listed({}, NULL, t, nx)
<1> DEFINE s == [k \in 1 .. 0 |-> 0]
<1>1. s \in [1 .. 0 -> Addr]
  OBVIOUS
<1>2. Chain(0, s, NULL, t, nx)
  BY DEF Chain
<1>3. {} = {s[k] : k \in 1 .. 0}
  OBVIOUS
<1> HIDE DEF s
<1> QED  BY <1>1, <1>2, <1>3 DEF Listed

\* Where a list starts and ends.
LEMMA ListEnds ==
  ASSUME NEW S, NEW h, NEW t, NEW nx, Listed(S, h, t, nx)
  PROVE  /\ S \subseteq Addr
         /\ h = NULL <=> S = {}
         /\ S # {} => h \in S /\ {a \in S : nx[a] = NULL} = {t}
<1>0. NULL \notin Addr
  BY DEF NULL, Addr
<1>1. PICK n \in Nat : \E s \in [1 .. n -> Addr] : Chain(n, s, h, t, nx) /\ S = {s[k] : k \in 1 .. n}
  BY DEF Listed
<1>2. PICK s \in [1 .. n -> Addr] : Chain(n, s, h, t, nx) /\ S = {s[k] : k \in 1 .. n}
  BY <1>1
<1>3. CASE n = 0
  BY <1>2, <1>3 DEF Chain
<1>4. CASE n # 0
  <2>1. 1 \in 1 .. n /\ n \in 1 .. n
    BY <1>4
  <2>2. S \subseteq Addr /\ s[1] \in S /\ s[n] \in S
    BY <1>2, <2>1
  <2>3. h = s[1] /\ t = s[n]
    BY <1>2, <1>4 DEF Chain
  <2>4. \A k \in 1 .. n : nx[s[k]] = IF k = n THEN NULL ELSE s[k + 1]
    BY <1>2 DEF Chain
  <2>5. ASSUME NEW k \in 1 .. n, k # n  PROVE nx[s[k]] # NULL
    <3>1. k + 1 \in 1 .. n
      BY <2>5
    <3> QED  BY <1>0, <2>4, <2>5, <3>1
  <2>6. {a \in S : nx[a] = NULL} = {t}
    <3>1. ASSUME NEW a \in S, nx[a] = NULL  PROVE a = t
      BY <1>2, <2>3, <2>5, <3>1
    <3>2. t \in S /\ nx[t] = NULL
      BY <2>1, <2>2, <2>3, <2>4
    <3> QED  BY <3>1, <3>2
  <2> QED  BY <1>0, <2>2, <2>3, <2>6
<1> QED  BY <1>3, <1>4

\* Writing elsewhere leaves a list alone.
LEMMA ListSame ==
  ASSUME NEW S, NEW h, NEW t, NEW nx, Listed(S, h, t, nx), NEW ny, \A a \in S : ny[a] = nx[a]
  PROVE  Listed(S, h, t, ny)
<1>1. PICK n \in Nat : \E s \in [1 .. n -> Addr] : Chain(n, s, h, t, nx) /\ S = {s[k] : k \in 1 .. n}
  BY DEF Listed
<1>2. PICK s \in [1 .. n -> Addr] : Chain(n, s, h, t, nx) /\ S = {s[k] : k \in 1 .. n}
  BY <1>1
<1>3. Chain(n, s, h, t, ny)
  BY <1>2 DEF Chain
<1> QED  BY <1>2, <1>3 DEF Listed

\* kmem_malloc takes the first block; what its caller writes is not a link.
LEMMA ListTake ==
  ASSUME NEW S, NEW h, NEW t, NEW nx, Listed(S, h, t, nx), h # NULL,
         NEW ny, \A a \in S \ {h} : ny[a] = nx[a]
  PROVE  Listed(S \ {h}, nx[h], t, ny)
<1>1. PICK n \in Nat : \E s \in [1 .. n -> Addr] : Chain(n, s, h, t, nx) /\ S = {s[k] : k \in 1 .. n}
  BY DEF Listed
<1>2. PICK s \in [1 .. n -> Addr] : Chain(n, s, h, t, nx) /\ S = {s[k] : k \in 1 .. n}
  BY <1>1
<1>3. n # 0 /\ h = s[1]
  BY <1>2 DEF Chain
<1>4. /\ \A j, k \in 1 .. n : s[j] = s[k] => j = k
      /\ \A k \in 1 .. n : nx[s[k]] = IF k = n THEN NULL ELSE s[k + 1]
      /\ t = s[n]
  BY <1>2, <1>3 DEF Chain
<1> DEFINE m == n - 1
           r == [k \in 1 .. m |-> s[k + 1]]
<1>5. m \in Nat /\ 1 \in 1 .. n /\ \A k \in 1 .. m : k + 1 \in 1 .. n /\ k + 1 # 1
  BY <1>3
<1>6. r \in [1 .. m -> Addr] /\ \A k \in 1 .. m : r[k] = s[k + 1]
  BY <1>5
<1>7. S \ {h} = {r[k] : k \in 1 .. m}
  <2>1. ASSUME NEW k \in 1 .. m  PROVE r[k] \in S \ {h}
    BY <1>2, <1>3, <1>4, <1>5, <1>6
  <2>2. ASSUME NEW x \in S \ {h}  PROVE \E k \in 1 .. m : x = r[k]
    <3>1. PICK j \in 1 .. n : x = s[j]
      BY <1>2
    <3>2. j # 1
      BY <1>3, <2>2, <3>1
    <3>3. j - 1 \in 1 .. m /\ (j - 1) + 1 = j
      BY <3>2
    <3>4. r[j - 1] = s[j]
      BY <1>6, <3>3
    <3> QED  BY <3>1, <3>3, <3>4
  <2> HIDE DEF r, m
  <2> QED  BY <2>1, <2>2
<1>8. Chain(m, r, nx[h], t, ny)
  <2>1. \A j, k \in 1 .. m : r[j] = r[k] => j = k
    BY <1>4, <1>5, <1>6
  <2>2. nx[h] = IF m = 0 THEN NULL ELSE r[1]
    <3>1. nx[h] = IF 1 = n THEN NULL ELSE s[2]
      BY <1>3, <1>4, <1>5
    <3>2. m # 0 => r[1] = s[2]
      BY <1>5, <1>6
    <3> QED  BY <1>3, <3>1, <3>2
  <2>3. ASSUME NEW k \in 1 .. m  PROVE ny[r[k]] = IF k = m THEN NULL ELSE r[k + 1]
    <3>1. r[k] \in S \ {h}
      BY <1>7
    <3>2. ny[r[k]] = nx[s[k + 1]]
      BY <1>6, <3>1
    <3>3. nx[s[k + 1]] = IF k + 1 = n THEN NULL ELSE s[(k + 1) + 1]
      BY <1>4, <1>5
    <3>4. k # m => k + 1 \in 1 .. m /\ r[k + 1] = s[(k + 1) + 1]
      BY <1>6
    <3>5. k + 1 = n <=> k = m
      OBVIOUS
    <3> QED  BY <3>2, <3>3, <3>4, <3>5
  <2>4. m > 0 => t = r[m]
    <3>1. m > 0 => m \in 1 .. m /\ m + 1 = n
      BY <1>5
    <3> QED  BY <1>4, <1>6, <3>1
  <2> HIDE DEF r, m
  <2> QED  BY <2>1, <2>2, <2>3, <2>4 DEF Chain
<1> HIDE DEF r, m
<1> QED  BY <1>5, <1>6, <1>7, <1>8 DEF Listed

\* kmem_free appends a block.
LEMMA ListAppend ==
  ASSUME NEW S, NEW h, NEW t, NEW nx, Listed(S, h, t, nx), NEW v \in Addr, v \notin S,
         NEW ny, ny[v] = NULL, \A a \in S : ny[a] = IF a = t THEN v ELSE nx[a]
  PROVE  Listed(S \cup {v}, IF h = NULL THEN v ELSE h, v, ny)
<1>1. PICK n \in Nat : \E s \in [1 .. n -> Addr] : Chain(n, s, h, t, nx) /\ S = {s[k] : k \in 1 .. n}
  BY DEF Listed
<1>2. PICK s \in [1 .. n -> Addr] : Chain(n, s, h, t, nx) /\ S = {s[k] : k \in 1 .. n}
  BY <1>1
<1>3. /\ \A j, k \in 1 .. n : s[j] = s[k] => j = k
      /\ h = IF n = 0 THEN NULL ELSE s[1]
      /\ \A k \in 1 .. n : nx[s[k]] = IF k = n THEN NULL ELSE s[k + 1]
      /\ n > 0 => t = s[n]
  BY <1>2 DEF Chain
<1>0. NULL \notin Addr
  BY DEF NULL, Addr
<1> DEFINE m == n + 1
           r == [k \in 1 .. m |-> IF k = m THEN v ELSE s[k]]
<1>4. m \in Nat /\ m # 0 /\ m \in 1 .. m /\ 1 \in 1 .. m /\ \A k \in 1 .. m : k # m => k \in 1 .. n
  OBVIOUS
<1>5. r \in [1 .. m -> Addr] /\ r[m] = v /\ \A k \in 1 .. n : r[k] = s[k] /\ k \in 1 .. m /\ k # m
  BY <1>4
<1>6. S \cup {v} = {r[k] : k \in 1 .. m}
  <2>1. ASSUME NEW k \in 1 .. m  PROVE r[k] \in S \cup {v}
    BY <1>2, <1>4, <1>5
  <2>2. ASSUME NEW x \in S  PROVE \E k \in 1 .. m : x = r[k]
    BY <1>2, <1>5
  <2> HIDE DEF r, m
  <2> QED  BY <2>1, <2>2, <1>4, <1>5
<1>7. \A k \in 1 .. n : s[k] \in S /\ s[k] # v
  BY <1>2
<1>8. Chain(m, r, IF h = NULL THEN v ELSE h, v, ny)
  <2>1. ASSUME NEW j \in 1 .. m, NEW k \in 1 .. m, r[j] = r[k]  PROVE j = k
    <3> HIDE DEF r, m
    <3> QED  BY <1>3, <1>4, <1>5, <1>7, <2>1
  <2>2. (IF h = NULL THEN v ELSE h) = r[1]
    <3>1. CASE n = 0
      BY <1>3, <1>5, <3>1
    <3>2. CASE n # 0
      <4>1. 1 \in 1 .. n
        BY <3>2
      <4>2. r[1] = s[1] /\ s[1] # NULL
        BY <1>0, <1>5, <4>1
      <4> QED  BY <1>3, <3>2, <4>2
    <3> QED  BY <3>1, <3>2
  <2>3. ASSUME NEW k \in 1 .. m  PROVE ny[r[k]] = IF k = m THEN NULL ELSE r[k + 1]
    <3>1. CASE k = m
      BY <1>5, <3>1
    <3>2. CASE k # m
      <4>1. k \in 1 .. n /\ r[k] = s[k]
        BY <1>4, <1>5, <3>2
      <4>2. ny[r[k]] = IF s[k] = t THEN v ELSE nx[s[k]]
        BY <1>7, <4>1
      <4>3. CASE k = n
        <5>1. n > 0 /\ k + 1 = m
          BY <4>1, <4>3
        <5> QED  BY <1>3, <1>5, <3>2, <4>2, <4>3, <5>1
      <4>4. CASE k # n
        <5>1. n > 0 /\ n \in 1 .. n /\ k + 1 \in 1 .. n
          BY <4>1, <4>4
        <5>2. s[k] # t
          BY <1>3, <4>1, <4>4, <5>1
        <5>3. nx[s[k]] = s[k + 1] /\ r[k + 1] = s[k + 1]
          BY <1>3, <1>5, <4>1, <4>4, <5>1
        <5> QED  BY <3>2, <4>2, <5>2, <5>3
      <4> QED  BY <4>3, <4>4
    <3> QED  BY <3>1, <3>2
  <2> HIDE DEF r, m
  <2> QED  BY <1>4, <1>5, <2>1, <2>2, <2>3 DEF Chain
<1> HIDE DEF r, m
<1> QED  BY <1>4, <1>5, <1>6, <1>8 DEF Listed

-----------------------------------------------------------------------------
(* Rounding and the cutting of pages.                                      *)

\* round_page: the least whole number of pages.
LEMMA Rounds ==
  ASSUME NEW n \in Nat
  PROVE  /\ RoundPage(n) \in Nat /\ n <= RoundPage(n)
         /\ \E q \in Nat : RoundPage(n) = Page * q
         /\ n \in 1 .. Page => RoundPage(n) = Page
         /\ \A q \in Nat : n = Page * q => RoundPage(n) = n
<1>0. Page \in Nat \ {0}
  BY KernMallocAssumption
<1> DEFINE a == n + Page - 1
           q == a \div Page
           r == a % Page
<1>1. a \in Int
  BY <1>0
<1>2. r \in 0 .. Page - 1 /\ q \in Int /\ a = Page * q + r
  BY <1>0, <1>1, DivMod
<1>3. RoundPage(n) = q * Page
  BY DEF RoundPage
<1>4. q * Page = Page * q /\ Page * q \in Int
  BY <1>0, <1>2, SMT
<1> DEFINE p == Page * q
<1>5. p \in Int /\ n + Page - 1 = p + r /\ RoundPage(n) = p
  BY <1>2, <1>3, <1>4
<1>6. q >= 0
  <2> SUFFICES ASSUME q < 0  PROVE FALSE
    BY <1>2
  <2> HIDE DEF q, r, a
  <2>1. Page * q + Page <= Page * 0 /\ Page * 0 = 0
    BY <1>0, <1>2, Apart, SMT
  <2>2. p + Page <= 0
    BY <2>1
  <2> HIDE DEF p
  <2> QED  BY <1>0, <1>2, <1>5, <2>2
<1>7. q \in Nat /\ p = Page * q
  BY <1>2, <1>6
<1>8. ASSUME n \in 1 .. Page  PROVE p = Page
  <2>1. Page * 1 + (n - 1) = a /\ n - 1 \in 0 .. Page - 1
    BY <1>0, <1>8
  <2>2. q = 1
    BY <1>0, <2>1, DivUnique
  <2>3. Page * 1 = Page
    BY <1>0
  <2> HIDE DEF q
  <2> QED  BY <2>2, <2>3
<1>9. ASSUME NEW k \in Nat, n = Page * k  PROVE p = n
  <2>1. Page * k + (Page - 1) = a /\ Page - 1 \in 0 .. Page - 1 /\ k \in Int
    <3> DEFINE z == Page * k
    <3>1. n = z
      BY <1>9
    <3> HIDE DEF z
    <3>2. z + (Page - 1) = a
      BY <1>0, <3>1
    <3> QED  BY <1>0, <3>2 DEF z
  <2>2. (Page * k + (Page - 1)) \div Page = k
    BY <1>0, <2>1, DivUnique
  <2>3. q = k
    BY <2>1, <2>2
  <2> HIDE DEF q
  <2> QED  BY <2>3, <1>9
<1> HIDE DEF a, q, r, p
<1>10. p \in Nat /\ n <= p
  BY <1>0, <1>2, <1>5, <1>6, <1>8
<1> QED  BY <1>5, <1>7, <1>8, <1>9, <1>10

\* The k-th block of size b from lo on.
Nth(lo, b, k) == lo + b * k

\* They follow one another at the distance b.
LEMMA NthIs ==
  ASSUME NEW lo \in Nat, NEW b \in Nat \ {0}
  PROVE  /\ Nth(lo, b, 0) = lo
         /\ \A k \in Nat : Nth(lo, b, k) \in Nat /\ lo <= Nth(lo, b, k) /\ Nth(lo, b, k + 1) = Nth(lo, b, k) + b
         /\ \A j, k \in Nat : j < k => Nth(lo, b, j) + b <= Nth(lo, b, k)
<1>1. Nth(lo, b, 0) = lo
  BY DEF Nth
<1>2. ASSUME NEW k \in Nat
      PROVE  Nth(lo, b, k) \in Nat /\ lo <= Nth(lo, b, k) /\ Nth(lo, b, k + 1) = Nth(lo, b, k) + b
  <2>1. b * k \in Int /\ b * k >= 0 /\ b * (k + 1) = b * k + b
    BY SMT
  <2> QED  BY <2>1 DEF Nth
<1>3. ASSUME NEW j \in Nat, NEW k \in Nat, j < k  PROVE Nth(lo, b, j) + b <= Nth(lo, b, k)
  <2>1. b * j \in Int /\ b * k \in Int /\ b * j + b <= b * k
    BY <1>3, Apart
  <2> DEFINE u == b * j  v == b * k
  <2>2. u \in Int /\ v \in Int /\ u + b <= v
    BY <2>1
  <2>3. Nth(lo, b, j) = lo + u /\ Nth(lo, b, k) = lo + v
    BY DEF Nth
  <2> HIDE DEF u, v
  <2> QED  BY <2>2, <2>3
<1> QED  BY <1>1, <1>2, <1>3

\* Which addresses are the start of one.
LEMMA NthMod ==
  ASSUME NEW lo \in Nat, NEW b \in Nat \ {0}, NEW m \in Nat, NEW a \in lo .. Nth(lo, b, m) - 1
  PROVE  \E k \in 0 .. m - 1 : /\ Nth(lo, b, k) <= a /\ a < Nth(lo, b, k) + b
                               /\ (a - lo) % b = 0 <=> a = Nth(lo, b, k)
<1> DEFINE q == (a - lo) \div b
           r == (a - lo) % b
<1>0. Nth(lo, b, m) \in Nat /\ a \in Nat /\ lo <= a /\ a < Nth(lo, b, m)
  <2>1. Nth(lo, b, m) \in Nat
    BY NthIs
  <2> QED  BY <2>1
<1>1. r \in 0 .. b - 1 /\ q \in Int /\ a - lo = b * q + r
  <2>1. a - lo \in Int
    BY <1>0
  <2> QED  BY <2>1, DivMod
<1> DEFINE p == b * q
<1>2. p \in Int /\ a = lo + p + r
  <2>1. p \in Int
    BY <1>1, SMT
  <2> HIDE DEF r
  <2> QED  BY <1>0, <1>1, <2>1
<1> HIDE DEF q, r
<1>3. q >= 0
  <2> SUFFICES ASSUME q < 0  PROVE FALSE
    BY <1>1
  <2>1. b * q + b <= b * 0 /\ b * 0 = 0
    BY <1>1, Apart, SMT
  <2>2. p + b <= 0
    BY <2>1
  <2> HIDE DEF p
  <2> QED  BY <1>0, <1>1, <1>2, <2>2
<1>4. Nth(lo, b, q) = lo + p
  BY DEF Nth
<1> HIDE DEF p
<1>5. q < m
  <2> SUFFICES ASSUME ~(q < m)  PROVE FALSE
    OBVIOUS
  <2>1. CASE q = m
    BY <1>0, <1>1, <1>2, <1>4, <2>1
  <2>2. CASE q > m
    <3>1. Nth(lo, b, m) + b <= Nth(lo, b, q)
      BY <1>1, <1>3, <2>2, NthIs
    <3> QED  BY <1>0, <1>1, <1>2, <1>4, <3>1
  <2> QED  BY <1>1, <2>1, <2>2
<1>6. q \in 0 .. m - 1
  BY <1>1, <1>3, <1>5
<1>7. Nth(lo, b, q) <= a /\ a < Nth(lo, b, q) + b /\ (r = 0 <=> a = Nth(lo, b, q))
  BY <1>0, <1>1, <1>2, <1>4
<1> QED  BY <1>6, <1>7 DEF r

\* The start of one has no remainder.
LEMMA NthStart ==
  ASSUME NEW lo \in Nat, NEW b \in Nat \ {0}, NEW k \in Nat
  PROVE  (Nth(lo, b, k) - lo) % b = 0
<1> DEFINE p == b * k
<1>1. p \in Int /\ Nth(lo, b, k) = lo + p
  BY SMT DEF Nth
<1>2. Nth(lo, b, k) - lo = p
  <2> HIDE DEF p
  <2> QED  BY <1>1
<1>3. (b * k + 0) % b = 0
  <2>1. 0 \in 0 .. b - 1 /\ k \in Int
    OBVIOUS
  <2> QED  BY <2>1, DivUnique
<1>4. b * k + 0 = p
  BY <1>1
<1> QED  BY <1>2, <1>3, <1>4

-----------------------------------------------------------------------------
(* Blocks side by side.                                                    *)

\* The blocks of w (address |-> length) fill the units from lo up to hi.
Tiles(w, lo, hi) ==
  /\ w \in [DOMAIN w -> Nat \ {0}]
  /\ DOMAIN w \subseteq lo .. hi - 1
  /\ \A a \in DOMAIN w : a + w[a] <= hi
  /\ \A a, b \in DOMAIN w : a < b => a + w[a] <= b
  /\ \A u \in lo .. hi - 1 : \E a \in DOMAIN w : a <= u /\ u < a + w[a]

\* The blocks of w and v together, and m blocks of size b from lo on.
Joined(w, v) == [a \in DOMAIN w \cup DOMAIN v |-> IF a \in DOMAIN w THEN w[a] ELSE v[a]]
Cuts(lo, b, m) == [a \in {Nth(lo, b, k) : k \in 0 .. m - 1} |-> b]

\* Where nothing has been handed out there is no block.
LEMMA TilesNone ==
  ASSUME NEW lo \in Int  PROVE Tiles([a \in {} |-> 0], lo, lo)
BY DEF Tiles

\* The parts of a joined layout keep their blocks.
LEMMA JoinedIs ==
  ASSUME NEW w, NEW v, NEW lo \in Int, NEW mid \in Int, NEW hi \in Int,
         lo <= mid, mid <= hi, Tiles(w, lo, mid), Tiles(v, mid, hi)
  PROVE  /\ Tiles(Joined(w, v), lo, hi)
         /\ DOMAIN Joined(w, v) = DOMAIN w \cup DOMAIN v
         /\ \A a \in DOMAIN w : Joined(w, v)[a] = w[a] /\ a < mid
         /\ \A a \in DOMAIN v : Joined(w, v)[a] = v[a] /\ a \notin DOMAIN w
<1> DEFINE j == Joined(w, v)
<1>1. /\ \A a \in DOMAIN w : w[a] \in Nat \ {0} /\ a \in lo .. mid - 1 /\ a + w[a] <= mid
      /\ \A a \in DOMAIN v : v[a] \in Nat \ {0} /\ a \in mid .. hi - 1 /\ a + v[a] <= hi
  BY DEF Tiles
<1>2. DOMAIN j = DOMAIN w \cup DOMAIN v /\ j = [a \in DOMAIN j |-> j[a]]
  BY DEF Joined
<1>3. /\ \A a \in DOMAIN w : j[a] = w[a] /\ a < mid
      /\ \A a \in DOMAIN v : j[a] = v[a] /\ a \notin DOMAIN w
  <2>1. \A a \in DOMAIN w : a < mid
    BY <1>1
  <2>2. \A a \in DOMAIN v : a \notin DOMAIN w
    BY <1>1
  <2> QED  BY <2>1, <2>2 DEF Joined
<1>4. /\ \A a, b \in DOMAIN w : a < b => a + w[a] <= b
      /\ \A a, b \in DOMAIN v : a < b => a + v[a] <= b
  BY DEF Tiles
<1>5. /\ \A u \in lo .. mid - 1 : \E a \in DOMAIN w : a <= u /\ u < a + w[a]
      /\ \A u \in mid .. hi - 1 : \E a \in DOMAIN v : a <= u /\ u < a + v[a]
  BY DEF Tiles
<1> HIDE DEF j
<1>6. j \in [DOMAIN j -> Nat \ {0}]
  <2>1. \A a \in DOMAIN j : j[a] \in Nat \ {0}
    BY <1>1, <1>2, <1>3
  <2> QED  BY <1>2, <2>1
<1>7. DOMAIN j \subseteq lo .. hi - 1
  BY <1>1, <1>2
<1>8. \A a \in DOMAIN j : a + j[a] <= hi
  BY <1>1, <1>2, <1>3
<1>9. ASSUME NEW a \in DOMAIN j, NEW b \in DOMAIN j, a < b  PROVE a + j[a] <= b
  <2>1. CASE a \in DOMAIN w /\ b \in DOMAIN w
    BY <1>3, <1>4, <1>9, <2>1
  <2>2. CASE a \in DOMAIN w /\ b \in DOMAIN v
    BY <1>1, <1>3, <1>9, <2>2
  <2>3. CASE a \in DOMAIN v /\ b \in DOMAIN w
    BY <1>1, <1>9, <2>3
  <2>4. CASE a \in DOMAIN v /\ b \in DOMAIN v
    BY <1>3, <1>4, <1>9, <2>4
  <2> QED  BY <1>2, <2>1, <2>2, <2>3, <2>4
<1>10. ASSUME NEW u \in lo .. hi - 1  PROVE \E a \in DOMAIN j : a <= u /\ u < a + j[a]
  <2>1. CASE u < mid
    <3>1. u \in lo .. mid - 1
      BY <2>1
    <3>2. PICK a \in DOMAIN w : a <= u /\ u < a + w[a]
      BY <1>5, <3>1
    <3> QED  BY <1>2, <1>3, <3>2
  <2>2. CASE ~(u < mid)
    <3>1. u \in mid .. hi - 1
      BY <2>2
    <3>2. PICK a \in DOMAIN v : a <= u /\ u < a + v[a]
      BY <1>5, <3>1
    <3> QED  BY <1>2, <1>3, <3>2
  <2> QED  BY <2>1, <2>2
<1>11. Tiles(j, lo, hi)
  BY <1>6, <1>7, <1>8, <1>9, <1>10 DEF Tiles
<1> QED  BY <1>2, <1>3, <1>11 DEF j

\* Pages that are cut into blocks of one size.
LEMMA CutsTile ==
  ASSUME NEW lo \in Nat, NEW b \in Nat \ {0}, NEW m \in Nat
  PROVE  Tiles(Cuts(lo, b, m), lo, Nth(lo, b, m))
<1> DEFINE w == Cuts(lo, b, m)
           hi == Nth(lo, b, m)
           at(k) == Nth(lo, b, k)
<1>1. DOMAIN w = {at(k) : k \in 0 .. m - 1} /\ w = [a \in DOMAIN w |-> w[a]] /\ \A a \in DOMAIN w : w[a] = b
  BY DEF Cuts
<1>2. \A k \in Nat : at(k) \in Nat /\ lo <= at(k)
  BY NthIs
<1>3. \A j, k \in Nat : j < k => at(j) + b <= at(k)
  BY NthIs
<1>4. \A u \in lo .. hi - 1 : \E k \in 0 .. m - 1 : at(k) <= u /\ u < at(k) + b
  BY NthMod
<1>5. hi = at(m)
  OBVIOUS
<1> HIDE DEF w, hi, at
<1>6. w \in [DOMAIN w -> Nat \ {0}]
  BY <1>1
<1>7. ASSUME NEW a \in DOMAIN w  PROVE a \in lo .. hi - 1 /\ a + w[a] <= hi
  <2>1. PICK k \in 0 .. m - 1 : a = at(k)
    BY <1>1
  <2>2. k < m /\ k \in Nat
    OBVIOUS
  <2>3. at(k) + b <= at(m) /\ at(k) \in Nat /\ lo <= at(k) /\ at(m) \in Nat
    BY <1>2, <1>3, <2>2
  <2> QED  BY <1>1, <1>5, <2>1, <2>3
<1>8. ASSUME NEW a \in DOMAIN w, NEW c \in DOMAIN w, a < c  PROVE a + w[a] <= c
  <2>1. PICK j \in 0 .. m - 1 : a = at(j)
    BY <1>1
  <2>2. PICK k \in 0 .. m - 1 : c = at(k)
    BY <1>1
  <2>3. j \in Nat /\ k \in Nat /\ at(j) \in Nat /\ at(k) \in Nat
    BY <1>2
  <2>4. j < k
    <3>1. j = k => at(j) = at(k)
      OBVIOUS
    <3>2. k < j => at(k) + b <= at(j)
      BY <1>3, <2>3
    <3> QED  BY <1>8, <2>1, <2>2, <2>3, <3>1, <3>2
  <2> QED  BY <1>1, <1>3, <2>1, <2>2, <2>3, <2>4
<1>9. ASSUME NEW u \in lo .. hi - 1  PROVE \E a \in DOMAIN w : a <= u /\ u < a + w[a]
  <2>1. PICK k \in 0 .. m - 1 : at(k) <= u /\ u < at(k) + b
    BY <1>4
  <2>2. at(k) \in DOMAIN w /\ w[at(k)] = b
    BY <1>1
  <2> QED  BY <2>1, <2>2
<1>10. Tiles(w, lo, hi)
  BY <1>6, <1>7, <1>8, <1>9 DEF Tiles
<1> QED  BY <1>10 DEF w, hi

\* One more block at the end.
LEMMA OneMore ==
  ASSUME NEW w, NEW base \in Nat, NEW lo \in Nat, base <= lo, NEW R \in Nat \ {0}, Tiles(w, base, lo)
  PROVE  \E x : /\ Tiles(x, base, lo + R) /\ DOMAIN x = DOMAIN w \cup {lo}
                /\ \A a \in DOMAIN w : x[a] = w[a]
                /\ x[lo] = R /\ lo \notin DOMAIN w
<1> DEFINE v == Cuts(lo, R, 1)
           x == Joined(w, v)
           hi == lo + R
<1>1. Tiles(v, lo, hi) /\ DOMAIN v = {lo} /\ v[lo] = R
  <2>1. Nth(lo, R, 0) = lo /\ Nth(lo, R, 1) = lo + R
    BY DEF Nth
  <2>2. Tiles(v, lo, Nth(lo, R, 1))
    BY CutsTile
  <2>3. {Nth(lo, R, k) : k \in 0 .. 1 - 1} = {lo}
    BY <2>1
  <2> QED  BY <2>1, <2>2, <2>3 DEF Cuts
<1>2. base \in Int /\ lo \in Int /\ hi \in Int /\ lo <= hi
  OBVIOUS
<1> HIDE DEF v, hi
<1>3. /\ Tiles(x, base, hi) /\ DOMAIN x = DOMAIN w \cup DOMAIN v
      /\ \A a \in DOMAIN w : x[a] = w[a]
      /\ \A a \in DOMAIN v : x[a] = v[a] /\ a \notin DOMAIN w
  BY <1>1, <1>2, JoinedIs
<1> HIDE DEF x
<1>4. Tiles(x, base, lo + R)
  BY <1>3 DEF hi
<1> QED  BY <1>1, <1>3, <1>4

-----------------------------------------------------------------------------
(* Buckets and pages.                                                      *)

\* BUCKETINDEX finds a bucket whose blocks are large enough.
LEMMA BucketHolds ==
  ASSUME NEW n \in Nat, n <= MaxAllocSave
  PROVE  BUCKETINDEX(n) \in Bucket /\ n <= BSize[BUCKETINDEX(n)]
<1>1. NBuckets \in 1 .. 16 /\ BSize[0] = 1 /\ \A i \in 1 .. NBuckets - 1 : BSize[i] = 2 * BSize[i - 1]
  BY KernMallocAssumption DEF Bucket
<1>2. /\ NBuckets > 1 => BSize[1] = 2
      /\ NBuckets > 2 => BSize[2] = 4
      /\ NBuckets > 3 => BSize[3] = 8
      /\ NBuckets > 4 => BSize[4] = 16
  BY <1>1
<1>3. /\ NBuckets > 5 => BSize[5] = 32
      /\ NBuckets > 6 => BSize[6] = 64
      /\ NBuckets > 7 => BSize[7] = 128
      /\ NBuckets > 8 => BSize[8] = 256
  BY <1>1, <1>2
<1>4. /\ NBuckets > 9 => BSize[9] = 512
      /\ NBuckets > 10 => BSize[10] = 1024
      /\ NBuckets > 11 => BSize[11] = 2048
      /\ NBuckets > 12 => BSize[12] = 4096
  BY <1>1, <1>3
<1>5. /\ NBuckets > 13 => BSize[13] = 8192
      /\ NBuckets > 14 => BSize[14] = 16384
      /\ NBuckets > 15 => BSize[15] = 32768
  BY <1>1, <1>4
<1>6. n <= BSize[NBuckets - 1]
  BY DEF MaxAllocSave
<1>7. CASE n <= 128
  BY <1>1, <1>2, <1>3, <1>4, <1>5, <1>6, <1>7 DEF BUCKETINDEX, Bucket
<1>8. CASE n > 128
  BY <1>1, <1>2, <1>3, <1>4, <1>5, <1>6, <1>8 DEF BUCKETINDEX, Bucket
<1> QED  BY <1>7, <1>8

\* A bucket's pages are a whole number of its blocks, and one page unless they
\* are one block.
LEMMA BucketPages ==
  ASSUME NEW i \in Bucket
  PROVE  \E m \in Nat \ {0} : /\ Nth(kmemoffs, BSize[i], m) = kmemoffs + RoundPage(BSize[i])
                              /\ RoundPage(BSize[i]) = Page \/ m = 1
<1> DEFINE b == BSize[i]
<1>0. b \in Nat \ {0} /\ Page \in Nat \ {0} /\ (Page % b = 0 \/ b % Page = 0)
  BY KernMallocAssumption
<1> SUFFICES \E m \in Nat \ {0} : b * m = RoundPage(b) /\ (RoundPage(b) = Page \/ m = 1)
  BY DEF Nth
<1> HIDE DEF b
<1>1. CASE Page % b = 0
  <2> DEFINE q == Page \div b
  <2>1. q \in Int /\ Page = b * q + (Page % b) /\ b * q \in Int
    <3>1. q \in Int /\ Page = b * q + (Page % b)
      BY <1>0, DivMod
    <3> HIDE DEF q
    <3>2. b * q \in Int
      BY <1>0, <3>1, SMT
    <3> QED  BY <3>1, <3>2
  <2> HIDE DEF q
  <2> DEFINE p == b * q
  <2>2. p = Page /\ p \in Int
    <3>1. p \in Int /\ Page = p + 0
      BY <1>1, <2>1
    <3> HIDE DEF p
    <3> QED  BY <3>1
  <2>3. q > 0
    <3> SUFFICES ASSUME ~(q > 0)  PROVE FALSE
      OBVIOUS
    <3>1. b * q <= 0
      BY <1>0, <2>1, SMT
    <3>2. p <= 0
      BY <3>1
    <3> HIDE DEF p
    <3> QED  BY <1>0, <2>2, <3>2
  <2>4. b <= Page
    <3>1. b * 0 + b <= b * q /\ b * 0 = 0
      BY <1>0, <2>1, <2>3, Apart, SMT
    <3>2. b <= p
      BY <1>0, <3>1
    <3> QED  BY <2>2, <3>2
  <2>5. RoundPage(b) = Page
    <3>1. b \in 1 .. Page
      BY <1>0, <2>4
    <3> QED  BY <1>0, <3>1, Rounds
  <2>6. b * q = RoundPage(b) /\ q \in Nat \ {0}
    BY <2>1, <2>2, <2>3, <2>5
  <2> QED  BY <2>5, <2>6
<1>2. CASE b % Page = 0
  <2> DEFINE q == b \div Page
  <2>1. q \in Int /\ b = Page * q + (b % Page)
    BY <1>0, DivMod
  <2> HIDE DEF q
  <2> DEFINE p == Page * q
  <2>2. p = b
    <3>0. p \in Int
      BY <1>0, <2>1, SMT
    <3>1. b = p + 0
      BY <1>2, <2>1
    <3> HIDE DEF p
    <3> QED  BY <1>0, <3>0, <3>1
  <2>3. q \in Nat
    <3> SUFFICES ASSUME q < 0  PROVE FALSE
      BY <2>1
    <3>1. Page * q <= 0
      BY <1>0, <2>1, SMT
    <3> QED  BY <1>0, <2>2, <3>1
  <2>4. RoundPage(b) = b
    BY <1>0, <2>2, <2>3, Rounds
  <2>5. b * 1 = RoundPage(b) /\ 1 \in Nat \ {0}
    BY <1>0, <2>4
  <2> QED  BY <2>5
<1> QED  BY <1>0, <1>1, <1>2

\* The page of an address.
LEMMA PageOf ==
  ASSUME NEW q \in Nat, NEW lo, lo = Page * q
  PROVE  /\ lo \in Nat /\ lo \div Page = q
         /\ \A a \in 0 .. lo - 1 : a \div Page # q
         /\ \A a \in lo .. lo + Page - 1 : a \div Page = q
         /\ lo < KmemSize => q \in PageNo
<1>0. Page \in Nat \ {0} /\ KmemSize \in Nat /\ KmemSize % Page = 0
  BY KernMallocAssumption
<1>1. lo \in Nat
  BY <1>0, SMT
<1>2. ASSUME NEW a \in lo .. lo + Page - 1  PROVE a \div Page = q
  <2>1. Page * q + (a - lo) = a /\ a - lo \in 0 .. Page - 1 /\ q \in Int
    BY <1>0, <1>1
  <2>2. (Page * q + (a - lo)) \div Page = q
    BY <1>0, <2>1, DivUnique
  <2> QED  BY <2>1, <2>2
<1>3. ASSUME NEW a \in 0 .. lo - 1  PROVE a \div Page # q
  <2>1. a \in Int /\ a < lo
    BY <1>1
  <2>2. a % Page \in 0 .. Page - 1 /\ a = Page * (a \div Page) + (a % Page)
    BY <1>0, <2>1, DivMod
  <2> DEFINE r == a % Page
  <2> HIDE DEF r
  <2> SUFFICES ASSUME a \div Page = q  PROVE FALSE
    OBVIOUS
  <2>3. a = lo + r /\ r \in 0 .. Page - 1
    BY <2>2 DEF r
  <2> QED  BY <1>0, <1>1, <2>1, <2>3
<1>4. ASSUME lo < KmemSize  PROVE q \in PageNo
  <2> DEFINE K == KmemSize \div Page
             r == KmemSize % Page
  <2>1. K \in Int /\ KmemSize = Page * K + r
    BY <1>0, DivMod
  <2>2. r = 0
    BY <1>0
  <2> HIDE DEF K, r
  <2>3. q < K
    <3> SUFFICES ASSUME ~(q < K)  PROVE FALSE
      OBVIOUS
    <3>0. Page * K \in Int
      BY <1>0, <2>1, SMT
    <3>1. KmemSize = Page * K
      BY <2>1, <2>2, <3>0
    <3>2. CASE q = K
      BY <1>0, <1>4, <3>1, <3>2
    <3>3. CASE K < q
      <4>1. Page * K + Page <= Page * q
        BY <1>0, <2>1, <3>3, Apart
      <4>2. KmemSize + Page <= lo
        BY <3>1, <4>1
      <4> QED  BY <1>0, <1>1, <1>4, <4>2
    <3> QED  BY <2>1, <3>2, <3>3
  <2> QED  BY <2>1, <2>3 DEF PageNo, K
<1>5. lo \div Page = q
  BY <1>0, <1>1, <1>2
<1> QED  BY <1>1, <1>2, <1>3, <1>4, <1>5

\* The page of an address has an entry in the kmemusage table.
LEMMA PageIn ==
  ASSUME NEW a \in Addr  PROVE a \div Page \in PageNo
<1>0. Page \in Nat \ {0} /\ a \in Nat /\ a < KmemSize /\ KmemSize \in Nat
  BY KernMallocAssumption DEF Addr
<1> DEFINE q == a \div Page
           r == a % Page
<1>1. q \in Int /\ a = Page * q + r /\ r \in 0 .. Page - 1
  BY <1>0, DivMod
<1> HIDE DEF q, r
<1> DEFINE p == Page * q
<1>2. p \in Int /\ a = p + r
  BY <1>0, <1>1, SMT
<1>3. q \in Nat
  <2> SUFFICES ASSUME q < 0  PROVE FALSE
    BY <1>1
  <2>1. Page * q + Page <= Page * 0 /\ Page * 0 = 0
    BY <1>0, <1>1, Apart, SMT
  <2>2. p + Page <= 0
    BY <2>1
  <2> HIDE DEF p
  <2> QED  BY <1>0, <1>1, <1>2, <2>2
<1>4. p < KmemSize
  <2> HIDE DEF p
  <2> QED  BY <1>0, <1>1, <1>2
<1>5. q \in PageNo
  BY <1>3, <1>4, PageOf
<1> QED  BY <1>5 DEF q

-----------------------------------------------------------------------------
(* The inductive invariant of the kernel heap.                             *)

\* What kmem_free takes a block for, by the ku_index of its page.
LenBy(k, n) == IF k \in Bucket THEN BSize[k] ELSE RoundPage(n)

\* The types; what was taken from the heap are whole pages.
HeapTypeOK ==
  /\ kmemoffs \in UsageLen .. KmemSize /\ \E q \in Nat : kmemoffs = Page * q
  /\ ku_index \in [PageNo -> Int]
  /\ kb_next \in [Bucket -> Int] /\ kb_last \in [Bucket -> Int] /\ next \in [Addr -> Int]

\* Every block is a caller's, or was taken as a page, or is free.
Shared(w, F) ==
  /\ \A a \in DOMAIN w : a \in DOMAIN owned \/ a \in DOMAIN raw \/ \E i \in Bucket : a \in F[i]
  /\ DOMAIN owned \subseteq DOMAIN w \ DOMAIN raw /\ DOMAIN raw \subseteq DOMAIN w
  /\ \A i \in Bucket : \A a \in F[i] : a \in DOMAIN w /\ a \notin DOMAIN owned /\ a \notin DOMAIN raw

\* A block is as long as kmem_free believes, and no shorter than was asked for.
Sized(w, F) ==
  /\ \A a \in DOMAIN raw : raw[a] = w[a]
  /\ \A a \in DOMAIN owned : owned[a] \in Nat /\ owned[a] <= w[a] /\ w[a] = LenBy(ku_index[a \div Page], owned[a])
  /\ \A i \in Bucket : \A a \in F[i] : w[a] = BSize[i] /\ ku_index[a \div Page] = i

\* Each bucket leads through its free blocks, from kb_next to kb_last.
Linked(F) == \A i \in Bucket : Listed(F[i], kb_next[i], kb_last[i], next)

\* The blocks w fill all that was taken from the heap, and F are the free ones.
Laid(w, F) == Tiles(w, UsageLen, kmemoffs) /\ Shared(w, F) /\ Sized(w, F) /\ Linked(F)

\* There is such a layout.
HeapInv == HeapTypeOK /\ \E w : \E F \in [Bucket -> SUBSET Addr] : Laid(w, F)

\* All blocks lie in the heap.
LEMMA InHeap ==
  ASSUME HeapTypeOK, NEW w, Tiles(w, UsageLen, kmemoffs)
  PROVE  DOMAIN w \subseteq Addr /\ DOMAIN w \subseteq 0 .. kmemoffs - 1
<1>1. UsageLen \in Nat /\ KmemSize \in Nat /\ kmemoffs \in UsageLen .. KmemSize
  BY KernMallocAssumption DEF HeapTypeOK
<1>2. DOMAIN w \subseteq UsageLen .. kmemoffs - 1
  BY DEF Tiles
<1> QED  BY <1>1, <1>2 DEF Addr

\* kmeminit
LEMMA HeapInvInit == HeapInit => HeapInv
<1> SUFFICES ASSUME HeapInit  PROVE HeapInv
  OBVIOUS
<1>1. /\ kmemoffs = UsageLen
      /\ ku_index = [p \in PageNo |-> Unset]
      /\ kb_next = [i \in Bucket |-> NULL] /\ kb_last = [i \in Bucket |-> NULL]
      /\ next = [a \in Addr |-> Data]
      /\ DOMAIN owned = {} /\ DOMAIN raw = {}
  BY DEF HeapInit
<1>2. UsageLen \in Nat /\ UsageLen <= KmemSize /\ KmemSize \in Nat /\ Page \in Nat \ {0} /\ UsageLen % Page = 0
  BY KernMallocAssumption
<1>3. \E q \in Nat : UsageLen = Page * q
  <2> DEFINE q == UsageLen \div Page
             r == UsageLen % Page
  <2>1. q \in Int /\ UsageLen = Page * q + r /\ r = 0
    BY <1>2, DivMod
  <2> HIDE DEF q, r
  <2>2. Page * q \in Int
    BY <1>2, <2>1, SMT
  <2>3. UsageLen = Page * q
    BY <2>1, <2>2
  <2>4. q >= 0
    <3> SUFFICES ASSUME q < 0  PROVE FALSE
      BY <2>1
    <3>1. Page * q + Page <= Page * 0 /\ Page * 0 = 0
      BY <1>2, <2>1, Apart, SMT
    <3> QED  BY <1>2, <2>3, <3>1
  <2> QED  BY <2>1, <2>3, <2>4
<1>4. HeapTypeOK
  BY <1>1, <1>2, <1>3 DEF HeapTypeOK, Unset, NULL, Data
<1> DEFINE w == [a \in {} |-> 0]
           F == [i \in Bucket |-> {}]
<1>5. Tiles(w, UsageLen, kmemoffs)
  BY <1>1, <1>2, TilesNone
<1>6. F \in [Bucket -> SUBSET Addr] /\ (\A i \in Bucket : F[i] = {}) /\ DOMAIN w = {}
  OBVIOUS
<1> HIDE DEF F, w
<1>7. Shared(w, F) /\ Sized(w, F)
  BY <1>1, <1>6 DEF Shared, Sized
<1>8. Linked(F)
  BY <1>1, <1>6, ListNil DEF Linked
<1> QED  BY <1>4, <1>5, <1>6, <1>7, <1>8 DEF HeapInv, Laid

\* kmem_malloc takes the first block of a list.
LEMMA TakeFreeKeeps ==
  ASSUME HeapInv, NEW n \in Nat, TakeFree(n)
  PROVE  HeapInv'
<1> DEFINE i == BUCKETINDEX(n)
           va == kb_next[i]
<1>1. /\ i \in Bucket /\ n <= BSize[i]
      /\ va # NULL
      /\ kb_next' = [kb_next EXCEPT ![i] = next[va]]
      /\ next' = [next EXCEPT ![va] = Data]
      /\ owned' = With(owned, va, n)
      /\ kmemoffs' = kmemoffs /\ ku_index' = ku_index /\ kb_last' = kb_last /\ raw' = raw
  BY BucketHolds DEF TakeFree
<1>2. PICK w : \E F \in [Bucket -> SUBSET Addr] : Laid(w, F)
  BY DEF HeapInv
<1>3. PICK F \in [Bucket -> SUBSET Addr] : Laid(w, F)
  BY <1>2
<1> HIDE DEF i, va
<1>4. HeapTypeOK /\ Tiles(w, UsageLen, kmemoffs) /\ Shared(w, F) /\ Sized(w, F) /\ Linked(F)
  BY <1>3 DEF HeapInv, Laid
<1>5. Listed(F[i], va, kb_last[i], next)
  BY <1>1, <1>4 DEF Linked, va
<1>6. va \in F[i] /\ va \in Addr
  BY <1>1, <1>5, ListEnds
<1>7. DOMAIN owned' = DOMAIN owned \cup {va} /\ owned'[va] = n /\ \A a \in DOMAIN owned : a # va => owned'[a] = owned[a]
  BY <1>1 DEF With
<1>8. PICK G \in [Bucket -> SUBSET Addr] : G[i] = F[i] \ {va} /\ \A j \in Bucket : j # i => G[j] = F[j]
  <2> DEFINE H == [F EXCEPT ![i] = @ \ {va}]
  <2>1. H \in [Bucket -> SUBSET Addr] /\ H[i] = F[i] \ {va} /\ \A j \in Bucket : j # i => H[j] = F[j]
    BY <1>1
  <2> HIDE DEF H
  <2> QED  BY <2>1
<1>9. \A j \in Bucket : \A a \in F[j] : w[a] = BSize[j] /\ ku_index[a \div Page] = j
  BY <1>4 DEF Sized
<1>10. \A j \in Bucket : va \in F[j] => j = i
  BY <1>1, <1>6, <1>9
<1>11. Tiles(w, UsageLen, kmemoffs')
  BY <1>1, <1>4
<1>12. Shared(w, G)'
  <2>1. /\ \A a \in DOMAIN w : a \in DOMAIN owned \/ a \in DOMAIN raw \/ \E j \in Bucket : a \in F[j]
        /\ DOMAIN owned \subseteq DOMAIN w \ DOMAIN raw /\ DOMAIN raw \subseteq DOMAIN w
        /\ \A j \in Bucket : \A a \in F[j] : a \in DOMAIN w /\ a \notin DOMAIN owned /\ a \notin DOMAIN raw
    BY <1>4 DEF Shared
  <2>2. \A a \in DOMAIN w : a \in DOMAIN owned' \/ a \in DOMAIN raw' \/ \E j \in Bucket : a \in G[j]
    BY <1>1, <1>7, <1>8, <2>1
  <2>3. DOMAIN owned' \subseteq DOMAIN w \ DOMAIN raw' /\ DOMAIN raw' \subseteq DOMAIN w
    BY <1>1, <1>6, <1>7, <2>1
  <2>4. \A j \in Bucket : \A a \in G[j] : a \in DOMAIN w /\ a \notin DOMAIN owned' /\ a \notin DOMAIN raw'
    BY <1>1, <1>7, <1>8, <1>10, <2>1
  <2> QED  BY <2>2, <2>3, <2>4 DEF Shared
<1>13. Sized(w, G)'
  <2>1. \A a \in DOMAIN raw' : raw'[a] = w[a]
    BY <1>1, <1>4 DEF Sized
  <2>2. ASSUME NEW a \in DOMAIN owned'
        PROVE  owned'[a] \in Nat /\ owned'[a] <= w[a] /\ w[a] = LenBy(ku_index'[a \div Page], owned'[a])
    <3>1. CASE a = va
      <4>1. w[va] = BSize[i] /\ ku_index[va \div Page] = i
        BY <1>1, <1>6, <1>9
      <4>2. LenBy(i, n) = BSize[i]
        BY <1>1 DEF LenBy
      <4> QED  BY <1>1, <1>7, <3>1, <4>1, <4>2
    <3>2. CASE a # va
      BY <1>1, <1>4, <1>7, <3>2 DEF Sized
    <3> QED  BY <3>1, <3>2
  <2>3. \A j \in Bucket : \A a \in G[j] : w[a] = BSize[j] /\ ku_index'[a \div Page] = j
    BY <1>1, <1>8, <1>9
  <2> QED  BY <2>1, <2>2, <2>3 DEF Sized
<1>14. Linked(G)'
  <2> SUFFICES ASSUME NEW j \in Bucket  PROVE Listed(G[j], kb_next'[j], kb_last'[j], next')
    BY DEF Linked
  <2>0. kb_next \in [Bucket -> Int] /\ next \in [Addr -> Int]
    BY <1>4 DEF HeapTypeOK
  <2>1. CASE j = i
    <3>1. \A a \in F[i] \ {va} : next'[a] = next[a]
      BY <1>1, <1>3, <1>6, <2>0
    <3>2. Listed(F[i] \ {va}, next[va], kb_last[i], next')
      BY <1>1, <1>5, <3>1, ListTake
    <3>3. kb_next'[i] = next[va]
      BY <1>1, <2>0
    <3> QED  BY <1>1, <1>8, <2>1, <3>2, <3>3
  <2>2. CASE j # i
    <3>1. \A a \in F[j] : next'[a] = next[a]
      BY <1>1, <1>6, <1>10, <2>0, <2>2
    <3>2. Listed(F[j], kb_next[j], kb_last[j], next)
      BY <1>4 DEF Linked
    <3>3. Listed(F[j], kb_next[j], kb_last[j], next')
      BY <3>1, <3>2, ListSame
    <3>4. kb_next'[j] = kb_next[j]
      BY <1>1, <2>0, <2>2
    <3> QED  BY <1>1, <1>8, <2>2, <3>3, <3>4
  <2> QED  BY <2>1, <2>2
<1>15. HeapTypeOK'
  <2>1. next[va] \in Int /\ Data \in Int
    BY <1>4, <1>6 DEF HeapTypeOK, Data
  <2> QED  BY <1>1, <1>4, <2>1 DEF HeapTypeOK
<1>16. Laid(w, G)'
  BY <1>11, <1>12, <1>13, <1>14 DEF Laid
<1> QED  BY <1>8, <1>15, <1>16 DEF HeapInv

\* kmem_free of a small block.
LEMMA FreeSmallKeeps ==
  ASSUME HeapInv, NEW va \in Addr, va \in DOMAIN owned, FreeSmall(va)
  PROVE  HeapInv'
<1> DEFINE i == ku_index[va \div Page]
<1>1. /\ i \in Bucket
      /\ kb_next' = IF kb_next[i] = NULL THEN [kb_next EXCEPT ![i] = va] ELSE kb_next
      /\ next' = [a \in Addr |-> IF a = va THEN NULL
                                 ELSE IF kb_next[i] # NULL /\ a = kb_last[i] THEN va ELSE next[a]]
      /\ kb_last' = [kb_last EXCEPT ![i] = va]
      /\ owned' = Without(owned, va)
      /\ kmemoffs' = kmemoffs /\ ku_index' = ku_index /\ raw' = raw
  BY DEF FreeSmall
<1>2. PICK w : \E F \in [Bucket -> SUBSET Addr] : Laid(w, F)
  BY DEF HeapInv
<1>3. PICK F \in [Bucket -> SUBSET Addr] : Laid(w, F)
  BY <1>2
<1>i. i = ku_index[va \div Page]
  OBVIOUS
<1> HIDE DEF i
<1>4. HeapTypeOK /\ Tiles(w, UsageLen, kmemoffs) /\ Shared(w, F) /\ Sized(w, F) /\ Linked(F)
  BY <1>3 DEF HeapInv, Laid
<1>5. /\ \A a \in DOMAIN w : a \in DOMAIN owned \/ a \in DOMAIN raw \/ \E j \in Bucket : a \in F[j]
      /\ DOMAIN owned \subseteq DOMAIN w \ DOMAIN raw /\ DOMAIN raw \subseteq DOMAIN w
      /\ \A j \in Bucket : \A a \in F[j] : a \in DOMAIN w /\ a \notin DOMAIN owned /\ a \notin DOMAIN raw
  BY <1>4 DEF Shared
<1>6. \A j \in Bucket : va \notin F[j]
  BY <1>5
<1>7. DOMAIN owned' = DOMAIN owned \ {va} /\ \A a \in DOMAIN owned : a # va => owned'[a] = owned[a]
  BY <1>1 DEF Without
<1>8. PICK G \in [Bucket -> SUBSET Addr] : G[i] = F[i] \cup {va} /\ \A j \in Bucket : j # i => G[j] = F[j]
  <2> DEFINE H == [F EXCEPT ![i] = @ \cup {va}]
  <2>1. H \in [Bucket -> SUBSET Addr] /\ H[i] = F[i] \cup {va} /\ \A j \in Bucket : j # i => H[j] = F[j]
    BY <1>1
  <2> HIDE DEF H
  <2> QED  BY <2>1
<1>9. \A j \in Bucket : \A a \in F[j] : w[a] = BSize[j] /\ ku_index[a \div Page] = j
  BY <1>4 DEF Sized
<1>10. w[va] = BSize[i]
  BY <1>1, <1>4, <1>i DEF Sized, LenBy
<1>x. \A j \in Bucket : Listed(F[j], kb_next[j], kb_last[j], next)
  BY <1>4 DEF Linked
<1>11. Tiles(w, UsageLen, kmemoffs')
  BY <1>1, <1>4
<1>12. Shared(w, G)'
  <2>2. \A a \in DOMAIN w : a \in DOMAIN owned' \/ a \in DOMAIN raw' \/ \E j \in Bucket : a \in G[j]
    BY <1>1, <1>5, <1>7, <1>8
  <2>3. DOMAIN owned' \subseteq DOMAIN w \ DOMAIN raw' /\ DOMAIN raw' \subseteq DOMAIN w
    BY <1>1, <1>5, <1>7
  <2>4. \A j \in Bucket : \A a \in G[j] : a \in DOMAIN w /\ a \notin DOMAIN owned' /\ a \notin DOMAIN raw'
    BY <1>1, <1>5, <1>7, <1>8
  <2> QED  BY <2>2, <2>3, <2>4 DEF Shared
<1>13. Sized(w, G)'
  <2>1. \A a \in DOMAIN raw' : raw'[a] = w[a]
    BY <1>1, <1>4 DEF Sized
  <2>2. \A a \in DOMAIN owned' :
          owned'[a] \in Nat /\ owned'[a] <= w[a] /\ w[a] = LenBy(ku_index'[a \div Page], owned'[a])
    BY <1>1, <1>4, <1>7 DEF Sized
  <2>3. \A j \in Bucket : \A a \in G[j] : w[a] = BSize[j] /\ ku_index'[a \div Page] = j
    BY <1>1, <1>8, <1>9, <1>10, <1>i
  <2> QED  BY <2>1, <2>2, <2>3 DEF Sized
<1>14. Linked(G)'
  <2> SUFFICES ASSUME NEW j \in Bucket  PROVE Listed(G[j], kb_next'[j], kb_last'[j], next')
    BY DEF Linked
  <2>0. kb_next \in [Bucket -> Int] /\ kb_last \in [Bucket -> Int] /\ next \in [Addr -> Int]
    BY <1>4 DEF HeapTypeOK
  <2>e. kb_next[i] = NULL <=> F[i] = {}
    BY <1>1, <1>x, ListEnds
  <2>1. CASE j = i
    <3>1. next'[va] = NULL
      BY <1>1
    <3>2. ASSUME NEW a \in F[i]  PROVE next'[a] = IF a = kb_last[i] THEN va ELSE next[a]
      <4>1. a \in Addr /\ a # va
        BY <1>1, <1>6
      <4>2. kb_next[i] # NULL
        BY <2>e
      <4> QED  BY <1>1, <4>1, <4>2
    <3>3. Listed(F[i] \cup {va}, IF kb_next[i] = NULL THEN va ELSE kb_next[i], va, next')
      BY <1>1, <1>6, <1>x, <3>1, <3>2, ListAppend
    <3>4. kb_next'[i] = IF kb_next[i] = NULL THEN va ELSE kb_next[i]
      BY <1>1, <2>0
    <3>5. kb_last'[i] = va
      BY <1>1, <2>0
    <3> QED  BY <1>8, <2>1, <3>3, <3>4, <3>5
  <2>2. CASE j # i
    <3>1. ASSUME NEW a \in F[j]  PROVE next'[a] = next[a]
      <4>1. a \in Addr /\ a # va
        BY <1>6
      <4>2. kb_next[i] # NULL => kb_last[i] \in F[i]
        <5> SUFFICES ASSUME F[i] # {}  PROVE kb_last[i] \in F[i]
          BY <2>e
        <5>1. {b \in F[i] : next[b] = NULL} = {kb_last[i]}
          BY <1>1, <1>x, ListEnds
        <5> QED  BY <5>1
      <4>3. kb_next[i] # NULL => a # kb_last[i]
        BY <1>1, <1>9, <2>2, <4>2
      <4> QED  BY <1>1, <4>1, <4>3
    <3>2. Listed(F[j], kb_next[j], kb_last[j], next')
      BY <1>x, <3>1, ListSame
    <3>3. kb_next'[j] = kb_next[j] /\ kb_last'[j] = kb_last[j]
      BY <1>1, <2>0, <2>2
    <3> QED  BY <1>8, <2>2, <3>2, <3>3
  <2> QED  BY <2>1, <2>2
<1>15. HeapTypeOK'
  <2>0. kb_next \in [Bucket -> Int] /\ kb_last \in [Bucket -> Int] /\ next \in [Addr -> Int]
    BY <1>4 DEF HeapTypeOK
  <2>1. va \in Int /\ NULL \in Int
    BY DEF Addr, NULL
  <2>2. kb_next' \in [Bucket -> Int] /\ kb_last' \in [Bucket -> Int]
    BY <1>1, <2>0, <2>1
  <2>3. next' \in [Addr -> Int]
    BY <1>1, <2>0, <2>1
  <2> QED  BY <1>1, <1>4, <2>2, <2>3 DEF HeapTypeOK
<1>16. Laid(w, G)'
  BY <1>11, <1>12, <1>13, <1>14 DEF Laid
<1> QED  BY <1>8, <1>15, <1>16 DEF HeapInv

\* kmem_free of a large block, where the system stops.
LEMMA FreeLargeKeeps ==
  ASSUME HeapInv, NEW va \in Addr, FreeLarge(va)
  PROVE  HeapInv'
<1> DEFINE p == va \div Page
<1>1. /\ ku_index[p] = Large /\ ku_index' = [ku_index EXCEPT ![p] = Unset]
      /\ kmemoffs' = kmemoffs /\ kb_next' = kb_next /\ kb_last' = kb_last /\ next' = next
      /\ owned' = owned /\ raw' = raw
  BY DEF FreeLarge
<1>2. PICK w : \E F \in [Bucket -> SUBSET Addr] : Laid(w, F)
  BY DEF HeapInv
<1>3. PICK F \in [Bucket -> SUBSET Addr] : Laid(w, F)
  BY <1>2
<1> HIDE DEF p
<1>4. HeapTypeOK /\ Tiles(w, UsageLen, kmemoffs) /\ Shared(w, F) /\ Sized(w, F) /\ Linked(F)
  BY <1>3 DEF HeapInv, Laid
<1>5. Large \notin Bucket /\ Unset \notin Bucket /\ Unset \in Int
  BY KernMallocAssumption DEF Large, Unset, Bucket
<1>6. ku_index \in [PageNo -> Int]
  BY <1>4 DEF HeapTypeOK
<1>7. ASSUME NEW a \in Addr
      PROVE  LET k == ku_index[a \div Page]  l == ku_index'[a \div Page]
             IN  k \in Bucket \/ l \in Bucket => k = l
  <2> DEFINE q == a \div Page
  <2>1. q \in PageNo
    BY PageIn
  <2> HIDE DEF q
  <2>2. ku_index[q] \in Bucket \/ ku_index'[q] \in Bucket => ku_index[q] = ku_index'[q]
    BY <1>1, <1>5, <1>6, <2>1
  <2> QED  BY <2>2 DEF q
<1>8. DOMAIN w \subseteq Addr
  BY <1>4, InHeap
<1>9. Sized(w, F)'
  <2>1. \A a \in DOMAIN raw' : raw'[a] = w[a]
    BY <1>1, <1>4 DEF Sized
  <2>2. ASSUME NEW a \in DOMAIN owned'
        PROVE  owned'[a] \in Nat /\ owned'[a] <= w[a] /\ w[a] = LenBy(ku_index'[a \div Page], owned'[a])
    <3>1. a \in Addr /\ owned'[a] = owned[a] /\ a \in DOMAIN owned
      BY <1>1, <1>4, <1>8 DEF Shared
    <3>2. owned[a] \in Nat /\ owned[a] <= w[a] /\ w[a] = LenBy(ku_index[a \div Page], owned[a])
      BY <1>4, <3>1 DEF Sized
    <3>3. LenBy(ku_index[a \div Page], owned[a]) = LenBy(ku_index'[a \div Page], owned[a])
      BY <1>7, <3>1 DEF LenBy
    <3> QED  BY <3>1, <3>2, <3>3
  <2>3. ASSUME NEW j \in Bucket, NEW a \in F[j]  PROVE w[a] = BSize[j] /\ ku_index'[a \div Page] = j
    <3>1. a \in Addr /\ w[a] = BSize[j] /\ ku_index[a \div Page] = j
      BY <1>4 DEF Sized
    <3> QED  BY <1>7, <3>1
  <2> QED  BY <2>1, <2>2, <2>3 DEF Sized
<1>10. Shared(w, F)' /\ Linked(F)' /\ Tiles(w, UsageLen, kmemoffs')
  BY <1>1, <1>4 DEF Shared, Linked
<1>11. HeapTypeOK'
  BY <1>1, <1>4, <1>5 DEF HeapTypeOK
<1>12. Laid(w, F)'
  BY <1>9, <1>10 DEF Laid
<1> QED  BY <1>11, <1>12 DEF HeapInv

\* What __kmem_alloc takes: pages above all that was taken before.
LEMMA Grown ==
  ASSUME HeapTypeOK, NEW n \in Nat \ {0}, HasRoom(n), NEW lo, lo = kmemoffs, NEW R, R = RoundPage(n)
  PROVE  /\ lo \in Nat /\ R \in Nat \ {0} /\ UsageLen \in Nat /\ UsageLen <= lo
         /\ lo + R \in UsageLen .. KmemSize /\ \E q \in Nat : lo + R = Page * q
         /\ lo .. lo + R - 1 \subseteq Addr /\ lo \in Addr
         /\ lo \div Page \in PageNo
         /\ \A a \in 0 .. lo - 1 : a \div Page # lo \div Page
         /\ \A a \in lo .. lo + Page - 1 : a \div Page = lo \div Page
<1>0. Page \in Nat \ {0} /\ KmemSize \in Nat /\ UsageLen \in Nat
  BY KernMallocAssumption
<1>1. PICK q \in Nat : lo = Page * q
  BY DEF HeapTypeOK
<1>2. R \in Nat /\ n <= R
  BY Rounds
<1>3. PICK k \in Nat : R = Page * k
  BY Rounds
<1>4. lo \in UsageLen .. KmemSize /\ R + lo <= KmemSize
  BY DEF HeapTypeOK, HasRoom
<1>5. lo + R = Page * (q + k)
  BY <1>0, <1>1, <1>3, SMT
<1>6. lo \in Nat /\ R \in Nat \ {0} /\ UsageLen <= lo /\ lo + R \in UsageLen .. KmemSize /\ lo < KmemSize /\ q + k \in Nat
  BY <1>0, <1>2, <1>4
<1>7. lo .. lo + R - 1 \subseteq Addr /\ lo \in Addr
  BY <1>0, <1>6 DEF Addr
<1>8. /\ lo \div Page = q /\ q \in PageNo
      /\ \A a \in 0 .. lo - 1 : a \div Page # q
      /\ \A a \in lo .. lo + Page - 1 : a \div Page = q
  BY <1>1, <1>6, PageOf
<1> QED  BY <1>0, <1>5, <1>6, <1>7, <1>8

\* A large request.
LEMMA TakeLargeKeeps ==
  ASSUME HeapInv, NEW n \in Nat, TakeLarge(n)
  PROVE  HeapInv'
<1>0. PICK lo, R : lo = kmemoffs /\ R = RoundPage(n)
  OBVIOUS
<1> DEFINE p == lo \div Page
<1>1. /\ n > MaxAllocSave /\ HasRoom(n)
      /\ ku_index' = [ku_index EXCEPT ![p] = Large]
      /\ kmemoffs' = lo + R
      /\ owned' = With(owned, lo, n)
      /\ kb_next' = kb_next /\ kb_last' = kb_last /\ next' = next /\ raw' = raw
  BY <1>0 DEF TakeLarge
<1>2. PICK w : \E F \in [Bucket -> SUBSET Addr] : Laid(w, F)
  BY DEF HeapInv
<1>3. PICK F \in [Bucket -> SUBSET Addr] : Laid(w, F)
  BY <1>2
<1>4. HeapTypeOK /\ Tiles(w, UsageLen, lo) /\ Shared(w, F) /\ Sized(w, F) /\ Linked(F)
  BY <1>0, <1>3 DEF HeapInv, Laid
<1>5. n \in Nat \ {0}
  <2>1. MaxAllocSave \in Nat
    BY KernMallocAssumption DEF MaxAllocSave, Bucket
  <2> QED  BY <1>1, <2>1
<1>6. /\ lo \in Nat /\ R \in Nat \ {0} /\ UsageLen \in Nat /\ UsageLen <= lo
      /\ lo + R \in UsageLen .. KmemSize /\ \E q \in Nat : lo + R = Page * q
      /\ lo \in Addr /\ p \in PageNo
      /\ \A a \in 0 .. lo - 1 : a \div Page # p
  BY <1>0, <1>1, <1>4, <1>5, Grown
<1>8. PICK x : /\ Tiles(x, UsageLen, lo + R) /\ DOMAIN x = DOMAIN w \cup {lo}
               /\ \A a \in DOMAIN w : x[a] = w[a]
               /\ x[lo] = R /\ lo \notin DOMAIN w
  BY <1>4, <1>6, OneMore
<1>9. DOMAIN w \subseteq 0 .. lo - 1 /\ DOMAIN w \subseteq Addr
  BY <1>0, <1>4, InHeap
<1>10. DOMAIN owned' = DOMAIN owned \cup {lo} /\ owned'[lo] = n /\ \A a \in DOMAIN owned : a # lo => owned'[a] = owned[a]
  BY <1>1 DEF With
<1>11. /\ \A a \in DOMAIN w : a \in DOMAIN owned \/ a \in DOMAIN raw \/ \E j \in Bucket : a \in F[j]
       /\ DOMAIN owned \subseteq DOMAIN w \ DOMAIN raw /\ DOMAIN raw \subseteq DOMAIN w
       /\ \A j \in Bucket : \A a \in F[j] : a \in DOMAIN w /\ a \notin DOMAIN owned /\ a \notin DOMAIN raw
  BY <1>4 DEF Shared
<1>12. Shared(x, F)'
  <2>2. \A a \in DOMAIN x : a \in DOMAIN owned' \/ a \in DOMAIN raw' \/ \E j \in Bucket : a \in F[j]
    BY <1>1, <1>8, <1>10, <1>11
  <2>3. DOMAIN owned' \subseteq DOMAIN x \ DOMAIN raw' /\ DOMAIN raw' \subseteq DOMAIN x
    BY <1>1, <1>8, <1>10, <1>11
  <2>4. \A j \in Bucket : \A a \in F[j] : a \in DOMAIN x /\ a \notin DOMAIN owned' /\ a \notin DOMAIN raw'
    BY <1>1, <1>8, <1>10, <1>11
  <2> QED  BY <2>2, <2>3, <2>4 DEF Shared
<1>13. ku_index \in [PageNo -> Int]
  BY <1>4 DEF HeapTypeOK
<1>14. ASSUME NEW a \in DOMAIN w  PROVE ku_index'[a \div Page] = ku_index[a \div Page]
  <2>1. a \div Page \in PageNo /\ a \div Page # p
    BY <1>6, <1>9, PageIn
  <2> HIDE DEF p
  <2> QED  BY <1>1, <1>6, <1>13, <2>1
<1>15. ku_index'[p] = Large /\ Large \notin Bucket /\ Large \in Int
  <2>1. Large \notin Bucket /\ Large \in Int
    BY KernMallocAssumption DEF Large, Bucket
  <2> HIDE DEF p
  <2> QED  BY <1>1, <1>6, <1>13, <2>1
<1>16. Sized(x, F)'
  <2>1. \A a \in DOMAIN raw' : raw'[a] = x[a]
    BY <1>1, <1>4, <1>8, <1>11 DEF Sized
  <2>2. ASSUME NEW a \in DOMAIN owned'
        PROVE  owned'[a] \in Nat /\ owned'[a] <= x[a] /\ x[a] = LenBy(ku_index'[a \div Page], owned'[a])
    <3>1. CASE a = lo
      <4>1. n <= R
        BY <1>0, Rounds
      <4>2. LenBy(Large, n) = R
        BY <1>0, <1>15 DEF LenBy
      <4> QED  BY <1>8, <1>10, <1>15, <3>1, <4>1, <4>2
    <3>2. CASE a # lo
      <4>1. a \in DOMAIN owned /\ a \in DOMAIN w /\ owned'[a] = owned[a] /\ x[a] = w[a]
        BY <1>8, <1>10, <1>11, <3>2
      <4>2. owned[a] \in Nat /\ owned[a] <= w[a] /\ w[a] = LenBy(ku_index[a \div Page], owned[a])
        BY <1>4, <4>1 DEF Sized
      <4>3. ku_index'[a \div Page] = ku_index[a \div Page]
        BY <1>14, <4>1
      <4> QED  BY <4>1, <4>2, <4>3
    <3> QED  BY <3>1, <3>2
  <2>3. ASSUME NEW j \in Bucket, NEW a \in F[j]  PROVE x[a] = BSize[j] /\ ku_index'[a \div Page] = j
    <3>1. a \in DOMAIN w /\ w[a] = BSize[j] /\ ku_index[a \div Page] = j
      BY <1>4, <1>11 DEF Sized
    <3> QED  BY <1>8, <1>14, <3>1
  <2> QED  BY <2>1, <2>2, <2>3 DEF Sized
<1>17. Linked(F)' /\ Tiles(x, UsageLen, kmemoffs')
  BY <1>1, <1>4, <1>8 DEF Linked
<1>18. HeapTypeOK'
  <2>1. ku_index' \in [PageNo -> Int]
    <3> HIDE DEF p
    <3> QED  BY <1>1, <1>13, <1>15
  <2> QED  BY <1>1, <1>4, <1>6, <2>1 DEF HeapTypeOK
<1>19. Laid(x, F)'
  BY <1>12, <1>16, <1>17 DEF Laid
<1> QED  BY <1>18, <1>19 DEF HeapInv

\* mbuf_clalloc's page.
LEMMA MbufClallocKeeps ==
  ASSUME HeapInv, MbufClalloc
  PROVE  HeapInv'
<1>0. PICK lo, R : lo = kmemoffs /\ R = RoundPage(Page)
  OBVIOUS
<1>z. Page \in Nat \ {0} /\ R = Page
  <2>1. Page \in Nat \ {0} /\ Page \in 1 .. Page
    BY KernMallocAssumption
  <2> QED  BY <1>0, <2>1, Rounds
<1>1. /\ HasRoom(Page) /\ kmemoffs' = lo + R /\ raw' = With(raw, lo, Page)
      /\ ku_index' = ku_index /\ kb_next' = kb_next /\ kb_last' = kb_last /\ next' = next /\ owned' = owned
  BY <1>0 DEF MbufClalloc
<1>2. PICK w : \E F \in [Bucket -> SUBSET Addr] : Laid(w, F)
  BY DEF HeapInv
<1>3. PICK F \in [Bucket -> SUBSET Addr] : Laid(w, F)
  BY <1>2
<1>4. HeapTypeOK /\ Tiles(w, UsageLen, lo) /\ Shared(w, F) /\ Sized(w, F) /\ Linked(F)
  BY <1>0, <1>3 DEF HeapInv, Laid
<1>6. /\ lo \in Nat /\ R \in Nat \ {0} /\ UsageLen \in Nat /\ UsageLen <= lo
      /\ lo + R \in UsageLen .. KmemSize /\ \E q \in Nat : lo + R = Page * q
  BY <1>0, <1>1, <1>4, <1>z, Grown
<1>8. PICK x : /\ Tiles(x, UsageLen, lo + R) /\ DOMAIN x = DOMAIN w \cup {lo}
               /\ \A a \in DOMAIN w : x[a] = w[a]
               /\ x[lo] = R /\ lo \notin DOMAIN w
  BY <1>4, <1>6, OneMore
<1>10. DOMAIN raw' = DOMAIN raw \cup {lo} /\ raw'[lo] = Page /\ \A a \in DOMAIN raw : a # lo => raw'[a] = raw[a]
  BY <1>1 DEF With
<1>11. /\ \A a \in DOMAIN w : a \in DOMAIN owned \/ a \in DOMAIN raw \/ \E j \in Bucket : a \in F[j]
       /\ DOMAIN owned \subseteq DOMAIN w \ DOMAIN raw /\ DOMAIN raw \subseteq DOMAIN w
       /\ \A j \in Bucket : \A a \in F[j] : a \in DOMAIN w /\ a \notin DOMAIN owned /\ a \notin DOMAIN raw
  BY <1>4 DEF Shared
<1>12. Shared(x, F)'
  <2>2. \A a \in DOMAIN x : a \in DOMAIN owned' \/ a \in DOMAIN raw' \/ \E j \in Bucket : a \in F[j]
    BY <1>1, <1>8, <1>10, <1>11
  <2>3. DOMAIN owned' \subseteq DOMAIN x \ DOMAIN raw' /\ DOMAIN raw' \subseteq DOMAIN x
    BY <1>1, <1>8, <1>10, <1>11
  <2>4. \A j \in Bucket : \A a \in F[j] : a \in DOMAIN x /\ a \notin DOMAIN owned' /\ a \notin DOMAIN raw'
    BY <1>1, <1>8, <1>10, <1>11
  <2> QED  BY <2>2, <2>3, <2>4 DEF Shared
<1>16. Sized(x, F)'
  <2>1. \A a \in DOMAIN raw' : raw'[a] = x[a]
    BY <1>4, <1>8, <1>10, <1>11, <1>z DEF Sized
  <2>2. \A a \in DOMAIN owned' : owned'[a] \in Nat /\ owned'[a] <= x[a] /\ x[a] = LenBy(ku_index'[a \div Page], owned'[a])
    BY <1>1, <1>4, <1>8, <1>11 DEF Sized
  <2>3. \A j \in Bucket : \A a \in F[j] : x[a] = BSize[j] /\ ku_index'[a \div Page] = j
    BY <1>1, <1>4, <1>8, <1>11 DEF Sized
  <2> QED  BY <2>1, <2>2, <2>3 DEF Sized
<1>17. Linked(F)' /\ Tiles(x, UsageLen, kmemoffs')
  BY <1>1, <1>4, <1>8 DEF Linked
<1>18. HeapTypeOK'
  BY <1>1, <1>4, <1>6 DEF HeapTypeOK
<1>19. Laid(x, F)'
  BY <1>12, <1>16, <1>17 DEF Laid
<1> QED  BY <1>18, <1>19 DEF HeapInv

\* The links __kmem_alloc's fresh pages are given: those below are left alone.
LEMMA CarveIs ==
  ASSUME NEW b \in Nat \ {0}, NEW lo \in Nat, lo = kmemoffs, NEW m \in Nat \ {0},
         Nth(lo, b, m) = lo + RoundPage(b), lo .. lo + RoundPage(b) - 1 \subseteq Addr
  PROVE  /\ \A a \in Addr : a < lo => Carve(b)[a] = next[a]
         /\ \A k \in 0 .. m - 1 : Nth(lo, b, k) \in Addr /\ Carve(b)[Nth(lo, b, k)] = IF k = m - 1 THEN NULL ELSE Nth(lo, b, k + 1)
         /\ DOMAIN Carve(b) = Addr
         /\ next \in [Addr -> Int] => Carve(b) \in [Addr -> Int]
<1> DEFINE end == lo + RoundPage(b)
           at(k) == Nth(lo, b, k)
<1>1. Carve(b) = [a \in Addr |-> IF a \in lo .. end - 1 /\ (a - lo) % b = 0
                                 THEN IF a + b >= end THEN NULL ELSE a + b
                                 ELSE next[a]]
  BY DEF Carve
<1>2. end = at(m)
  OBVIOUS
<1>3. /\ \A k \in Nat : at(k) \in Nat /\ lo <= at(k) /\ at(k + 1) = at(k) + b
      /\ \A j, k \in Nat : j < k => at(j) + b <= at(k)
  BY NthIs
<1>4. \A k \in Nat : (at(k) - lo) % b = 0
  BY NthStart
<1>5. lo .. end - 1 \subseteq Addr
  <2>1. RoundPage(b) \in Nat
    BY Rounds
  <2> QED  BY <2>1
<1> HIDE DEF at, end
<1>6. \A a \in Addr : a < lo => Carve(b)[a] = next[a]
  BY <1>1
<1>7. ASSUME NEW k \in 0 .. m - 1
      PROVE  at(k) \in Addr /\ Carve(b)[at(k)] = IF k = m - 1 THEN NULL ELSE at(k + 1)
  <2>1. k \in Nat /\ k < m /\ m \in Nat /\ k + 1 \in Nat
    OBVIOUS
  <2>2. at(k) + b <= end /\ at(k) \in Nat /\ lo <= at(k) /\ end \in Nat /\ at(k + 1) = at(k) + b
    BY <1>2, <1>3, <2>1
  <2>3. at(k) \in lo .. end - 1
    BY <2>2
  <2>4. at(k) \in Addr
    BY <1>5, <2>3
  <2>5. (at(k) - lo) % b = 0
    BY <1>4, <2>1
  <2>6. Carve(b)[at(k)] = IF at(k) + b >= end THEN NULL ELSE at(k) + b
    BY <1>1, <2>3, <2>4, <2>5
  <2>7. CASE k = m - 1
    <3>1. k + 1 = m
      BY <2>7
    <3>2. at(k) + b = end
      BY <1>2, <2>2, <3>1
    <3> QED  BY <2>2, <2>4, <2>6, <2>7, <3>2
  <2>8. CASE k # m - 1
    <3>1. k + 1 < m
      BY <2>8
    <3>2. at(k + 1) + b <= at(m) /\ at(k + 1) \in Nat
      BY <1>3, <2>1, <3>1
    <3>3. ~(at(k) + b >= end)
      BY <1>2, <2>2, <3>2
    <3> QED  BY <2>2, <2>4, <2>6, <2>8, <3>3
  <2> QED  BY <2>7, <2>8
<1>8. DOMAIN Carve(b) = Addr
  BY <1>1
<1>9. ASSUME next \in [Addr -> Int]  PROVE Carve(b) \in [Addr -> Int]
  <2>1. ASSUME NEW a \in Addr
        PROVE  (IF a \in lo .. end - 1 /\ (a - lo) % b = 0
                THEN IF a + b >= end THEN NULL ELSE a + b
                ELSE next[a]) \in Int
    <3>1. a \in Int /\ next[a] \in Int /\ NULL \in Int /\ a + b \in Int
      BY <1>9 DEF Addr, NULL
    <3> QED  BY <3>1
  <2> QED  BY <1>1, <2>1
<1> QED  BY <1>6, <1>7, <1>8, <1>9 DEF at

\* The list that is left when the first of the fresh blocks is taken.
LEMMA CarvedList ==
  ASSUME NEW b \in Nat \ {0}, NEW lo \in Nat, NEW m \in Nat \ {0}, NEW nx,
         \A k \in 0 .. m - 1 : Nth(lo, b, k) \in Addr,
         \A k \in 1 .. m - 1 : nx[Nth(lo, b, k)] = IF k = m - 1 THEN NULL ELSE Nth(lo, b, k + 1)
  PROVE  Listed({Nth(lo, b, k) : k \in 1 .. m - 1}, IF m = 1 THEN NULL ELSE Nth(lo, b, 1), Nth(lo, b, m - 1), nx)
<1> DEFINE n == m - 1
           s == [k \in 1 .. n |-> Nth(lo, b, k)]
           at(k) == Nth(lo, b, k)
<1>1. \A k \in 1 .. n : s[k] = at(k) /\ at(k) \in Addr
  OBVIOUS
<1>2. s \in [1 .. n -> Addr] /\ n \in Nat
  OBVIOUS
<1>3. \A k \in Nat : at(k) \in Nat
  BY NthIs
<1>4. \A j, k \in Nat : j < k => at(j) + b <= at(k)
  BY NthIs
<1>5. \A k \in 1 .. n : nx[at(k)] = IF k = n THEN NULL ELSE at(k + 1)
  OBVIOUS
<1>6. n = 0 <=> m = 1
  OBVIOUS
<1>7. {at(k) : k \in 1 .. n} = {s[k] : k \in 1 .. n}
  BY <1>1
<1> HIDE DEF s, at, n
<1>8. ASSUME NEW j \in 1 .. n, NEW k \in 1 .. n, s[j] = s[k]  PROVE j = k
  <2>1. at(j) = at(k) /\ at(j) \in Nat /\ at(k) \in Nat /\ j \in Nat /\ k \in Nat
    BY <1>1, <1>2, <1>3, <1>8
  <2>2. ~(j < k) /\ ~(k < j)
    BY <1>4, <2>1
  <2> QED  BY <2>1, <2>2
<1>9. Chain(n, s, IF m = 1 THEN NULL ELSE at(1), at(n), nx)
  <2>1. (IF m = 1 THEN NULL ELSE at(1)) = IF n = 0 THEN NULL ELSE s[1]
    BY <1>1, <1>2, <1>6
  <2>2. ASSUME NEW k \in 1 .. n  PROVE nx[s[k]] = IF k = n THEN NULL ELSE s[k + 1]
    <3>1. k # n => k + 1 \in 1 .. n
      BY <1>2
    <3> QED  BY <1>1, <1>5, <3>1
  <2>3. n > 0 => at(n) = s[n]
    BY <1>1, <1>2
  <2> QED  BY <1>8, <2>1, <2>2, <2>3 DEF Chain
<1>10. Listed({at(k) : k \in 1 .. n}, IF m = 1 THEN NULL ELSE at(1), at(n), nx)
  BY <1>2, <1>7, <1>9 DEF Listed
<1> QED  BY <1>10 DEF at, n

\* The bucket is empty: fresh pages are cut up.
LEMMA TakeFreshKeeps ==
  ASSUME HeapInv, NEW n \in Nat, TakeFresh(n)
  PROVE  HeapInv'
<1> DEFINE i == BUCKETINDEX(n)
           b == BSize[i]
<1>0. PICK lo, R : lo = kmemoffs /\ R = RoundPage(b)
  OBVIOUS
<1> DEFINE p == lo \div Page
<1>1. /\ n <= MaxAllocSave /\ HasRoom(b) /\ kb_next[i] = NULL
      /\ ku_index' = [ku_index EXCEPT ![p] = i]
      /\ kmemoffs' = lo + R
      /\ kb_last' = [kb_last EXCEPT ![i] = lo + R - b]
      /\ kb_next' = [kb_next EXCEPT ![i] = Carve(b)[lo]]
      /\ next' = [Carve(b) EXCEPT ![lo] = Data]
      /\ owned' = With(owned, lo, n)
      /\ raw' = raw
  BY <1>0 DEF TakeFresh
<1>i. i \in Bucket /\ n <= b /\ b \in Nat \ {0} /\ i \in Int
  <2>1. i \in Bucket /\ n <= b
    BY <1>1, BucketHolds
  <2> HIDE DEF i
  <2> QED  BY <2>1, KernMallocAssumption DEF Bucket
<1>2. PICK w : \E F \in [Bucket -> SUBSET Addr] : Laid(w, F)
  BY DEF HeapInv
<1>3. PICK F \in [Bucket -> SUBSET Addr] : Laid(w, F)
  BY <1>2
<1>4. HeapTypeOK /\ Tiles(w, UsageLen, lo) /\ Shared(w, F) /\ Sized(w, F) /\ Linked(F)
  BY <1>0, <1>3 DEF HeapInv, Laid
<1>m. PICK m \in Nat \ {0} : Nth(lo, b, m) = lo + R /\ (R = Page \/ m = 1)
  <2> HIDE DEF i
  <2> QED  BY <1>0, <1>i, BucketPages
<1> HIDE DEF i, b
<1>b. b = BSize[i]
  BY DEF b
<1>6. /\ lo \in Nat /\ R \in Nat \ {0} /\ UsageLen \in Nat /\ UsageLen <= lo
      /\ lo + R \in UsageLen .. KmemSize /\ \E q \in Nat : lo + R = Page * q
      /\ lo .. lo + R - 1 \subseteq Addr /\ lo \in Addr /\ p \in PageNo
      /\ \A a \in 0 .. lo - 1 : a \div Page # p
      /\ \A a \in lo .. lo + Page - 1 : a \div Page = p
  BY <1>0, <1>1, <1>4, <1>i, Grown
<1> DEFINE at(k) == Nth(lo, b, k)
           v == Cuts(lo, b, m)
           x == Joined(w, v)
           hi == lo + R
<1>a. /\ at(0) = lo
      /\ \A k \in Nat : at(k) \in Nat /\ lo <= at(k) /\ at(k + 1) = at(k) + b
      /\ \A j, k \in Nat : j < k => at(j) + b <= at(k)
      /\ at(m) = hi
  BY <1>6, <1>i, <1>m, NthIs
<1>7. Tiles(v, lo, hi) /\ DOMAIN v = {at(k) : k \in 0 .. m - 1} /\ \A a \in DOMAIN v : v[a] = b
  <2>1. Tiles(v, lo, at(m))
    BY <1>6, <1>i, <1>m, CutsTile
  <2> QED  BY <1>a, <2>1 DEF Cuts
<1>8. /\ Tiles(x, UsageLen, hi) /\ DOMAIN x = DOMAIN w \cup DOMAIN v
      /\ \A a \in DOMAIN w : x[a] = w[a] /\ a < lo
      /\ \A a \in DOMAIN v : x[a] = b /\ a \notin DOMAIN w
  <2>1. UsageLen \in Int /\ lo \in Int /\ hi \in Int /\ lo <= hi /\ UsageLen <= lo
    BY <1>6
  <2> HIDE DEF v, hi
  <2>2. /\ Tiles(x, UsageLen, hi) /\ DOMAIN x = DOMAIN w \cup DOMAIN v
        /\ \A a \in DOMAIN w : x[a] = w[a] /\ a < lo
        /\ \A a \in DOMAIN v : x[a] = v[a] /\ a \notin DOMAIN w
    BY <1>4, <1>7, <2>1, JoinedIs
  <2> HIDE DEF x
  <2> QED  BY <1>7, <2>2
<1>c. /\ \A a \in Addr : a < lo => Carve(b)[a] = next[a]
      /\ \A k \in 0 .. m - 1 : at(k) \in Addr /\ Carve(b)[at(k)] = IF k = m - 1 THEN NULL ELSE at(k + 1)
      /\ DOMAIN Carve(b) = Addr
      /\ next \in [Addr -> Int] => Carve(b) \in [Addr -> Int]
  BY <1>0, <1>6, <1>i, <1>m, CarveIs
<1>9. DOMAIN w \subseteq 0 .. lo - 1 /\ DOMAIN w \subseteq Addr
  BY <1>0, <1>4, InHeap
<1>10. DOMAIN owned' = DOMAIN owned \cup {lo} /\ owned'[lo] = n /\ \A a \in DOMAIN owned : a # lo => owned'[a] = owned[a]
  BY <1>1 DEF With
<1>11. /\ \A a \in DOMAIN w : a \in DOMAIN owned \/ a \in DOMAIN raw \/ \E j \in Bucket : a \in F[j]
       /\ DOMAIN owned \subseteq DOMAIN w \ DOMAIN raw /\ DOMAIN raw \subseteq DOMAIN w
       /\ \A j \in Bucket : \A a \in F[j] : a \in DOMAIN w /\ a \notin DOMAIN owned /\ a \notin DOMAIN raw
  BY <1>4 DEF Shared
<1>d. F[i] = {}
  <2>1. Listed(F[i], kb_next[i], kb_last[i], next)
    BY <1>4, <1>i DEF Linked
  <2> QED  BY <1>1, <2>1, ListEnds
<1> DEFINE N == {at(k) : k \in 1 .. m - 1}
<1>e. N \subseteq Addr /\ DOMAIN v = {lo} \cup N /\ lo \notin N
  <2>1. ASSUME NEW k \in 1 .. m - 1  PROVE at(k) \in Addr /\ at(k) # lo /\ at(k) \in DOMAIN v
    <3>1. k \in 0 .. m - 1 /\ 0 < k /\ k \in Nat /\ 0 \in Nat
      OBVIOUS
    <3>2. at(0) + b <= at(k) /\ at(k) \in Nat
      BY <1>a, <3>1
    <3>3. at(k) # lo
      <4> DEFINE z == at(k)
      <4>1. lo + b <= z /\ z \in Nat /\ lo \in Nat /\ b \in Nat \ {0}
        BY <1>a, <1>i, <1>6, <3>2
      <4> HIDE DEF z
      <4>2. z # lo
        BY ONLY <4>1
      <4> QED  BY <4>2 DEF z
    <3>4. at(k) \in Addr
      BY <1>c, <3>1
    <3> HIDE DEF at, v
    <3>5. at(k) \in DOMAIN v
      BY <1>7, <3>1
    <3> QED  BY <3>3, <3>4, <3>5
  <2>2. ASSUME NEW k \in 0 .. m - 1  PROVE at(k) = lo \/ k \in 1 .. m - 1
    BY <1>a
  <2>3. lo \in DOMAIN v
    <3>1. 0 \in 0 .. m - 1
      OBVIOUS
    <3> HIDE DEF at, v
    <3> QED  BY <1>7, <1>a, <3>1
  <2> HIDE DEF at, v
  <2> QED  BY <1>7, <2>1, <2>2, <2>3
<1>G. PICK G \in [Bucket -> SUBSET Addr] : G[i] = N /\ \A j \in Bucket : j # i => G[j] = F[j]
  <2> DEFINE H == [F EXCEPT ![i] = N]
  <2> HIDE DEF N
  <2>1. H \in [Bucket -> SUBSET Addr] /\ H[i] = N /\ \A j \in Bucket : j # i => H[j] = F[j]
    BY <1>i, <1>e
  <2> HIDE DEF H
  <2> QED  BY <2>1
<1>f. \A a \in DOMAIN v : a \div Page = p
  <2>1. CASE R = Page
    <3>1. DOMAIN v \subseteq lo .. hi - 1
      BY <1>7 DEF Tiles
    <3> HIDE DEF v
    <3> QED  BY <1>6, <2>1, <3>1
  <2>2. CASE m = 1
    <3>1. {at(k) : k \in 0 .. m - 1} = {lo}
      BY <1>a, <2>2
    <3> HIDE DEF v, at
    <3> QED  BY <1>7, <3>1
  <2> QED  BY <1>m, <2>1, <2>2
<1>p. p = lo \div Page
  OBVIOUS
<1>h. hi = lo + R
  OBVIOUS
<1> HIDE DEF at, v, x, hi, N, p
<1>12. Shared(x, G)'
  <2>2. \A a \in DOMAIN x : a \in DOMAIN owned' \/ a \in DOMAIN raw' \/ \E j \in Bucket : a \in G[j]
    BY <1>1, <1>8, <1>10, <1>11, <1>d, <1>e, <1>i, <1>G
  <2>3. DOMAIN owned' \subseteq DOMAIN x \ DOMAIN raw' /\ DOMAIN raw' \subseteq DOMAIN x
    BY <1>1, <1>8, <1>10, <1>11, <1>e
  <2>4. \A j \in Bucket : \A a \in G[j] : a \in DOMAIN x /\ a \notin DOMAIN owned' /\ a \notin DOMAIN raw'
    BY <1>1, <1>8, <1>10, <1>11, <1>e, <1>i, <1>G
  <2> QED  BY <2>2, <2>3, <2>4 DEF Shared
<1>13. ku_index \in [PageNo -> Int] /\ kb_next \in [Bucket -> Int] /\ kb_last \in [Bucket -> Int] /\ next \in [Addr -> Int]
  BY <1>4 DEF HeapTypeOK
<1>14. ASSUME NEW a \in DOMAIN w  PROVE ku_index'[a \div Page] = ku_index[a \div Page]
  <2>1. a \div Page \in PageNo /\ a \div Page # p
    BY <1>6, <1>9, PageIn
  <2> QED  BY <1>1, <1>6, <1>13, <2>1
<1>15. ku_index'[p] = i
  BY <1>1, <1>6, <1>13
<1>16. Sized(x, G)'
  <2>1. \A a \in DOMAIN raw' : raw'[a] = x[a]
    BY <1>1, <1>4, <1>8, <1>11 DEF Sized
  <2>2. ASSUME NEW a \in DOMAIN owned'
        PROVE  owned'[a] \in Nat /\ owned'[a] <= x[a] /\ x[a] = LenBy(ku_index'[a \div Page], owned'[a])
    <3>1. CASE a = lo
      <4>1. x[lo] = b /\ lo \div Page = p
        BY <1>8, <1>e, <1>p
      <4>2. LenBy(i, n) = b
        BY <1>b, <1>i DEF LenBy
      <4> QED  BY <1>10, <1>15, <1>i, <3>1, <4>1, <4>2
    <3>2. CASE a # lo
      <4>1. a \in DOMAIN owned /\ a \in DOMAIN w /\ owned'[a] = owned[a] /\ x[a] = w[a]
        BY <1>8, <1>10, <1>11, <3>2
      <4>2. owned[a] \in Nat /\ owned[a] <= w[a] /\ w[a] = LenBy(ku_index[a \div Page], owned[a])
        BY <1>4, <4>1 DEF Sized
      <4>3. ku_index'[a \div Page] = ku_index[a \div Page]
        BY <1>14, <4>1
      <4> QED  BY <4>1, <4>2, <4>3
    <3> QED  BY <3>1, <3>2
  <2>3. ASSUME NEW j \in Bucket, NEW a \in G[j]  PROVE x[a] = BSize[j] /\ ku_index'[a \div Page] = j
    <3>1. CASE j = i
      <4>1. a \in DOMAIN v
        BY <1>G, <1>e, <3>1
      <4> QED  BY <1>8, <1>15, <1>b, <1>f, <3>1, <4>1
    <3>2. CASE j # i
      <4>1. a \in F[j]
        BY <1>G, <3>2
      <4>2. a \in DOMAIN w /\ w[a] = BSize[j] /\ ku_index[a \div Page] = j
        BY <1>4, <1>11, <4>1 DEF Sized
      <4> QED  BY <1>8, <1>14, <4>2
    <3> QED  BY <3>1, <3>2
  <2> QED  BY <2>1, <2>2, <2>3 DEF Sized
<1>c1. Carve(b) \in [Addr -> Int]
  BY <1>13, <1>c
<1> DEFINE C == Carve(b)
<1>c2. /\ C \in [Addr -> Int] /\ kb_next' = [kb_next EXCEPT ![i] = C[lo]] /\ next' = [C EXCEPT ![lo] = Data]
       /\ \A a \in Addr : a < lo => C[a] = next[a]
       /\ \A k \in 0 .. m - 1 : at(k) \in Addr /\ C[at(k)] = IF k = m - 1 THEN NULL ELSE at(k + 1)
  BY <1>1, <1>c, <1>c1
<1> HIDE DEF C
<1>17. Linked(G)'
  <2> SUFFICES ASSUME NEW j \in Bucket  PROVE Listed(G[j], kb_next'[j], kb_last'[j], next')
    BY DEF Linked
  <2>1. CASE j = i
    <3>1. ASSUME NEW k \in 1 .. m - 1  PROVE next'[at(k)] = IF k = m - 1 THEN NULL ELSE at(k + 1)
      <4>1. k \in 0 .. m - 1
        OBVIOUS
      <4>2. at(k) \in Addr /\ at(k) # lo
        BY <1>c2, <1>e, <4>1 DEF N
      <4> QED  BY <1>c2, <4>1, <4>2
    <3>2. \A k \in 0 .. m - 1 : at(k) \in Addr
      BY <1>c2
    <3>3. Listed(N, IF m = 1 THEN NULL ELSE at(1), at(m - 1), next')
      <4>1. Listed({Nth(lo, b, k) : k \in 1 .. m - 1}, IF m = 1 THEN NULL ELSE Nth(lo, b, 1), Nth(lo, b, m - 1), next')
        <5>1. \A k \in 0 .. m - 1 : Nth(lo, b, k) \in Addr
          BY <3>2 DEF at
        <5>2. \A k \in 1 .. m - 1 : next'[Nth(lo, b, k)] = IF k = m - 1 THEN NULL ELSE Nth(lo, b, k + 1)
          BY <3>1 DEF at
        <5> QED  BY <1>i, <1>6, <5>1, <5>2, CarvedList
      <4> QED  BY <4>1 DEF N, at
    <3>4. kb_next'[i] = IF m = 1 THEN NULL ELSE at(1)
      <4>1. C[at(0)] = IF 0 = m - 1 THEN NULL ELSE at(0 + 1)
        BY <1>c2
      <4>2. 0 + 1 = 1 /\ (0 = m - 1 <=> m = 1)
        OBVIOUS
      <4>3. kb_next'[i] = C[lo]
        BY <1>13, <1>c2, <1>i
      <4> QED  BY <1>a, <4>1, <4>2, <4>3
    <3>5. kb_last'[i] = at(m - 1)
      <4>1. kb_last'[i] = lo + R - b
        BY <1>1, <1>13, <1>i
      <4>2. m - 1 \in Nat /\ (m - 1) + 1 = m
        OBVIOUS
      <4>3. at(m) = at(m - 1) + b /\ at(m - 1) \in Nat
        BY <1>a, <4>2
      <4> DEFINE z == at(m - 1)
                 l == kb_last'[i]
      <4>4. l = lo + R - b /\ lo + R = z + b /\ z \in Nat /\ lo \in Nat /\ R \in Nat /\ b \in Nat
        BY <1>6, <1>a, <1>h, <1>i, <4>1, <4>3
      <4> HIDE DEF z, l
      <4>5. l = z
        BY ONLY <4>4
      <4> QED  BY <4>5 DEF l, z
    <3> QED  BY <1>G, <2>1, <3>3, <3>4, <3>5
  <2>2. CASE j # i
    <3>1. ASSUME NEW a \in F[j]  PROVE next'[a] = next[a]
      <4>1. a \in DOMAIN w
        BY <1>11
      <4>2. a \in Addr /\ a < lo /\ a # lo
        BY <1>8, <1>9, <1>6, <4>1
      <4> QED  BY <1>c2, <4>2
    <3>2. Listed(F[j], kb_next[j], kb_last[j], next)
      BY <1>4 DEF Linked
    <3>3. Listed(F[j], kb_next[j], kb_last[j], next')
      BY <3>1, <3>2, ListSame
    <3>4. kb_next'[j] = kb_next[j] /\ kb_last'[j] = kb_last[j]
      BY <1>1, <1>13, <1>c2, <2>2
    <3> QED  BY <1>G, <2>2, <3>3, <3>4
  <2> QED  BY <2>1, <2>2
<1>18. HeapTypeOK'
  <2>1. ku_index' \in [PageNo -> Int]
    BY <1>1, <1>13, <1>i
  <2>2. next' \in [Addr -> Int]
    <3>1. C \in [Addr -> Int] /\ next' = [C EXCEPT ![lo] = Data] /\ Data \in Int
      BY <1>c2 DEF Data
    <3> QED  BY ONLY <3>1
  <2>3. C[lo] \in Int /\ lo + R - b \in Int
    BY <1>6, <1>c2, <1>i
  <2>4. kb_next' \in [Bucket -> Int] /\ kb_last' \in [Bucket -> Int]
    BY <1>1, <1>13, <1>c2, <2>3
  <2> QED  BY <1>1, <1>6, <2>1, <2>2, <2>4 DEF HeapTypeOK
<1>19. Laid(x, G)'
  BY <1>1, <1>8, <1>12, <1>16, <1>17, <1>h DEF Laid
<1> QED  BY <1>18, <1>19 DEF HeapInv

\* Every call of kmem_malloc, kmem_free and mbuf_clalloc keeps a layout.
LEMMA HeapInvNext == HeapInv /\ [HeapNext]_heapvars => HeapInv'
<1> SUFFICES ASSUME HeapInv, [HeapNext]_heapvars  PROVE HeapInv'
  OBVIOUS
<1>1. ASSUME NEW n \in Request, TakeFree(n) \/ TakeFresh(n) \/ TakeLarge(n)  PROVE HeapInv'
  <2>1. n \in Nat
    BY KernMallocAssumption
  <2> QED  BY <1>1, <2>1, TakeFreeKeeps, TakeFreshKeeps, TakeLargeKeeps
<1>2. ASSUME UNCHANGED heapvars  PROVE HeapInv'
  <2>1. /\ kmemoffs' = kmemoffs /\ ku_index' = ku_index /\ kb_next' = kb_next /\ kb_last' = kb_last
        /\ next' = next /\ owned' = owned /\ raw' = raw
    BY <1>2 DEF heapvars
  <2> QED  BY <2>1 DEF HeapInv, HeapTypeOK, Laid, Shared, Sized, Linked
<1>3. ASSUME NEW n \in Request, OutOfMemory(n)  PROVE HeapInv'
  BY <1>2, <1>3 DEF OutOfMemory
<1>4. ASSUME MbufClalloc  PROVE HeapInv'
  BY <1>4, MbufClallocKeeps
<1>5. ASSUME NEW va \in Addr, KmemFree(va)  PROVE HeapInv'
  BY <1>5, FreeSmallKeeps, FreeLargeKeeps DEF KmemFree
<1> QED  BY <1>1, <1>2, <1>3, <1>4, <1>5 DEF HeapNext

\* The areas of callers, of the lists and of the table are blocks of the layout.
LEMMA AreaIs ==
  ASSUME NEW w, NEW F \in [Bucket -> SUBSET Addr], Laid(w, F), NEW x \in Area
  PROVE  \/ x = <<0, UsageLen>>
         \/ \E a \in DOMAIN w : \E l \in 0 .. w[a] :
              /\ x = <<a, a + l>>
              /\ l = IF a \in DOMAIN owned THEN owned[a] ELSE w[a]
<1>0. /\ Shared(w, F) /\ Sized(w, F) /\ Linked(F) /\ \A a \in DOMAIN w : w[a] \in Nat
  BY DEF Laid, Tiles
<1>1. CASE x \in {<<a, a + owned[a]>> : a \in DOMAIN owned}
  <2>1. PICK a \in DOMAIN owned : x = <<a, a + owned[a]>>
    BY <1>1
  <2>2. a \in DOMAIN w /\ owned[a] \in 0 .. w[a]
    BY <1>0 DEF Shared, Sized
  <2> QED  BY <2>1, <2>2
<1>2. CASE x \in {<<a, a + raw[a]>> : a \in DOMAIN raw}
  <2>1. PICK a \in DOMAIN raw : x = <<a, a + raw[a]>>
    BY <1>2
  <2>2. a \in DOMAIN w /\ raw[a] = w[a] /\ a \notin DOMAIN owned /\ w[a] \in 0 .. w[a]
    BY <1>0 DEF Shared, Sized
  <2> QED  BY <2>1, <2>2
<1>3. CASE x \in UNION {{<<a, a + BSize[i]>> : a \in FreeBlocks(i)} : i \in Bucket}
  <2>1. PICK i \in Bucket : x \in {<<a, a + BSize[i]>> : a \in FreeBlocks(i)}
    BY <1>3
  <2>2. PICK a \in FreeBlocks(i) : x = <<a, a + BSize[i]>>
    BY <2>1
  <2>3. FreeBlocks(i) = F[i]
    BY <1>0, FreeBlocksReach, WalkFinds DEF Linked
  <2>4. a \in DOMAIN w /\ BSize[i] = w[a] /\ a \notin DOMAIN owned /\ w[a] \in 0 .. w[a]
    BY <1>0, <2>2, <2>3 DEF Shared, Sized
  <2> QED  BY <2>2, <2>4
<1> QED  BY <1>1, <1>2, <1>3 DEF Area

\* A heap with a layout is sound.
LEMMA HeapInvSound == HeapInv => HeapSound
<1> SUFFICES ASSUME HeapInv  PROVE HeapSound
  OBVIOUS
<1>1. PICK w : \E F \in [Bucket -> SUBSET Addr] : Laid(w, F)
  BY DEF HeapInv
<1>2. PICK F \in [Bucket -> SUBSET Addr] : Laid(w, F)
  BY <1>1
<1>3. HeapTypeOK /\ Tiles(w, UsageLen, kmemoffs) /\ Shared(w, F) /\ Sized(w, F) /\ Linked(F)
  BY <1>2 DEF HeapInv, Laid
<1>4. UsageLen \in Nat /\ KmemSize \in Nat /\ kmemoffs \in UsageLen .. KmemSize
  BY <1>3, KernMallocAssumption DEF HeapTypeOK
<1>5. \A i \in Bucket : Listed(F[i], kb_next[i], kb_last[i], next)
  BY <1>3 DEF Linked
<1>6. \A i \in Bucket : FreeBlocks(i) = F[i]
  BY <1>5, FreeBlocksReach, WalkFinds
<1>7. ASSUME NEW i \in Bucket
      PROVE  /\ FreeBlocks(i) \subseteq Addr \ DOMAIN owned
             /\ \A a \in FreeBlocks(i) : ku_index[a \div Page] = i
             /\ FreeBlocks(i) # {} => {a \in FreeBlocks(i) : next[a] = NULL} = {kb_last[i]}
  <2>1. F[i] \subseteq Addr \ DOMAIN owned /\ \A a \in F[i] : ku_index[a \div Page] = i
    BY <1>3 DEF Shared, Sized
  <2>2. F[i] # {} => {a \in F[i] : next[a] = NULL} = {kb_last[i]}
    BY <1>5, ListEnds
  <2> QED  BY <1>6, <2>1, <2>2
<1>8. /\ \A a \in DOMAIN w : w[a] \in Nat /\ a \in UsageLen .. kmemoffs - 1 /\ a + w[a] <= kmemoffs
      /\ \A a, b \in DOMAIN w : a < b => a + w[a] <= b
      /\ \A u \in UsageLen .. kmemoffs - 1 : \E a \in DOMAIN w : a <= u /\ u < a + w[a]
  BY <1>3 DEF Tiles
<1>9. ASSUME NEW x \in Area
      PROVE  \/ x = <<0, UsageLen>>
             \/ \E a \in DOMAIN w : \E l \in 0 .. w[a] :
                  /\ x = <<a, a + l>>
                  /\ l = IF a \in DOMAIN owned THEN owned[a] ELSE w[a]
  BY <1>2, AreaIs
<1>10. ASSUME NEW x \in Area  PROVE x[2] <= kmemoffs
  <2>1. CASE x = <<0, UsageLen>>
    BY <1>4, <2>1
  <2>2. ASSUME NEW a \in DOMAIN w, NEW l \in 0 .. w[a], x = <<a, a + l>>  PROVE x[2] <= kmemoffs
    <3>1. x[2] = a + l
      BY <2>2
    <3>2. w[a] \in Nat /\ a \in UsageLen .. kmemoffs - 1 /\ a + w[a] <= kmemoffs
      BY <1>8
    <3> QED  BY <1>4, <3>1, <3>2
  <2> QED  BY <1>9, <2>1, <2>2
<1>11. ASSUME NEW x \in Area, NEW y \in Area, x # y  PROVE x[2] <= y[1] \/ y[2] <= x[1]
  <2>1. CASE x = <<0, UsageLen>>
    <3>1. PICK a \in DOMAIN w : \E l \in 0 .. w[a] : y = <<a, a + l>>
      BY <1>9, <1>11, <2>1
    <3> QED  BY <1>4, <1>8, <2>1, <3>1
  <2>2. CASE y = <<0, UsageLen>>
    <3>1. PICK a \in DOMAIN w : \E l \in 0 .. w[a] : x = <<a, a + l>>
      BY <1>9, <1>11, <2>2
    <3> QED  BY <1>4, <1>8, <2>2, <3>1
  <2>3. CASE x # <<0, UsageLen>> /\ y # <<0, UsageLen>>
    <3>1. PICK a \in DOMAIN w : \E l \in 0 .. w[a] :
                  /\ x = <<a, a + l>>
                  /\ l = IF a \in DOMAIN owned THEN owned[a] ELSE w[a]
      BY <1>9, <2>3
    <3>2. PICK l \in 0 .. w[a] : x = <<a, a + l>> /\ l = IF a \in DOMAIN owned THEN owned[a] ELSE w[a]
      BY <3>1
    <3>3. PICK b \in DOMAIN w : \E k \in 0 .. w[b] :
                  /\ y = <<b, b + k>>
                  /\ k = IF b \in DOMAIN owned THEN owned[b] ELSE w[b]
      BY <1>9, <2>3
    <3>4. PICK k \in 0 .. w[b] : y = <<b, b + k>> /\ k = IF b \in DOMAIN owned THEN owned[b] ELSE w[b]
      BY <3>3
    <3>5. a # b
      BY <1>11, <3>2, <3>4
    <3>6. w[a] \in Nat /\ w[b] \in Nat /\ a \in Nat /\ b \in Nat
      BY <1>4, <1>8
    <3>7. a + w[a] <= b \/ b + w[b] <= a
      BY <1>8, <3>5, <3>6
    <3>8. x[1] = a /\ x[2] = a + l /\ y[1] = b /\ y[2] = b + k
      BY <3>2, <3>4
    <3> QED  BY <3>6, <3>7, <3>8
  <2> QED  BY <2>1, <2>2, <2>3
<1>12. kmemoffs <= KmemSize
  BY <1>4
<1>13. ListsSound
  BY <1>7, <1>10, <1>11, <1>12 DEF ListsSound
<1> DEFINE blocks == {<<a, a + BlockLen(a)>> : a \in DOMAIN owned} \cup Area
<1>14. ASSUME NEW u \in 0 .. kmemoffs - 1  PROVE \E x \in blocks : x[1] <= u /\ u < x[2]
  <2>1. CASE u < UsageLen
    <3>1. <<0, UsageLen>> \in blocks
      BY DEF Area
    <3>2. <<0, UsageLen>>[1] <= u /\ u < <<0, UsageLen>>[2]
      BY <2>1
    <3> QED  BY <3>1, <3>2
  <2>2. CASE ~(u < UsageLen)
    <3>1. PICK a \in DOMAIN w : a <= u /\ u < a + w[a]
      <4>1. u \in UsageLen .. kmemoffs - 1
        BY <1>4, <2>2
      <4> QED  BY <1>8, <4>1
    <3>2. <<a, a + w[a]>> \in blocks
      <4>1. CASE a \in DOMAIN owned
        <5>1. BlockLen(a) = w[a]
          BY <1>3, <4>1 DEF Sized, BlockLen, LenBy
        <5> QED  BY <4>1, <5>1
      <4>2. CASE a \in DOMAIN raw
        <5>1. raw[a] = w[a]
          BY <1>3, <4>2 DEF Sized
        <5>2. <<a, a + raw[a]>> \in Area
          BY <4>2 DEF Area
        <5> QED  BY <5>1, <5>2
      <4>3. ASSUME NEW i \in Bucket, a \in F[i]  PROVE <<a, a + w[a]>> \in blocks
        <5>1. w[a] = BSize[i] /\ a \in FreeBlocks(i)
          BY <1>3, <1>6, <4>3 DEF Sized
        <5>2. <<a, a + BSize[i]>> \in Area
          BY <5>1 DEF Area
        <5> QED  BY <5>1, <5>2
      <4> QED  BY <1>3, <4>1, <4>2, <4>3 DEF Shared
    <3>3. <<a, a + w[a]>>[1] <= u /\ u < <<a, a + w[a]>>[2]
      BY <3>1
    <3> QED  BY <3>2, <3>3
  <2> QED  BY <2>1, <2>2
<1>15. NothingLost
  BY <1>14 DEF NothingLost
<1> QED  BY <1>13, <1>15 DEF HeapSound

\* The kernel heap is sound in every reachable state, for every page size, heap
\* size and set of requests: no two callers, free lists or tables share memory,
\* and every unit taken from the heap has an owner or is on a list (kmem_malloc,
\* kmem_free, __kmem_alloc).
THEOREM HeapSoundAlways == HeapSpec => []HeapSound
<1>1. HeapSpec => []HeapInv
  BY HeapInvInit, HeapInvNext, PTL DEF HeapSpec
<1> QED  BY <1>1, HeapInvSound, PTL

-----------------------------------------------------------------------------
(* Rings: the lists of devices.                                            *)

\* The nodes of a list.
Node == 0 .. MaxDev

\* The links lead along s, from the head on and back to it.
Cycle(n, s, nx) == \A k \in 0 .. n : nx[s[k]] = IF k = n THEN HeadNode ELSE s[k + 1]
\* The links nx lead from the head through S and back.
Round(S, nx) ==
  \E n \in Nat : \E s \in [0 .. n -> Node] :
    /\ s[0] = HeadNode /\ \A j, k \in 0 .. n : s[j] = s[k] => j = k
    /\ S = {s[k] : k \in 1 .. n} /\ Cycle(n, s, nx)
\* ... and the links pv lead the other way.
Ringed(S, nx, pv) ==
  \E n \in Nat : \E s \in [0 .. n -> Node] :
    /\ s[0] = HeadNode /\ \A j, k \in 0 .. n : s[j] = s[k] => j = k
    /\ S = {s[k] : k \in 1 .. n} /\ Cycle(n, s, nx)
    /\ \A k \in 0 .. n : pv[s[k]] = IF k = 0 THEN s[n] ELSE s[k - 1]

\* A head that points at itself is a ring through nothing.
LEMMA RingNil ==
  ASSUME NEW nx, NEW pv, nx[HeadNode] = HeadNode, pv[HeadNode] = HeadNode
  PROVE  Ringed({}, nx, pv)
<1> DEFINE s == [k \in 0 .. 0 |-> HeadNode]
<1>1. 0 .. 0 = {0} /\ 1 .. 0 = {} /\ HeadNode \in Node
  BY AutoconfAssumption DEF HeadNode, Node
<1>2. s \in [0 .. 0 -> Node] /\ \A k \in 0 .. 0 : s[k] = HeadNode /\ k = 0
  BY <1>1
<1>3. {} = {s[k] : k \in 1 .. 0}
  BY <1>1
<1>4. Cycle(0, s, nx) /\ \A k \in 0 .. 0 : pv[s[k]] = IF k = 0 THEN s[0] ELSE s[k - 1]
  BY <1>2 DEF Cycle
<1>5. s[0] = HeadNode /\ \A j, k \in 0 .. 0 : s[j] = s[k] => j = k
  BY <1>2
<1> HIDE DEF s
<1> QED  BY <1>2, <1>3, <1>4, <1>5 DEF Ringed

\* list_add_tail puts a node at the end of a ring.
LEMMA RingAdd ==
  ASSUME NEW S, NEW l \in [next : [Node -> Node], prev : [Node -> Node]], NEW d \in Dev, d \notin S,
         Ringed(S, l.next, l.prev)
  PROVE  /\ list_add_tail(l, d) \in [next : [Node -> Node], prev : [Node -> Node]]
         /\ Ringed(S \cup {d}, list_add_tail(l, d).next, list_add_tail(l, d).prev)
<1> DEFINE nx == l.next
           pv == l.prev
           p == pv[HeadNode]
           ny == [nx EXCEPT ![d] = HeadNode, ![p] = d]
           py == [pv EXCEPT ![d] = p, ![HeadNode] = d]
<1>1. nx \in [Node -> Node] /\ pv \in [Node -> Node]
  OBVIOUS
<1>2. HeadNode \in Node /\ d \in Node /\ d # HeadNode /\ MaxDev \in Nat /\ HeadNode = 0
  BY AutoconfAssumption DEF HeadNode, Node, Dev
<1>3. list_add_tail(l, d) = [next |-> ny, prev |-> py]
  BY DEF list_add_tail
<1>4. p \in Node
  BY <1>1, <1>2
<1>5. PICK n \in Nat : \E s \in [0 .. n -> Node] :
    /\ s[0] = HeadNode /\ \A j, k \in 0 .. n : s[j] = s[k] => j = k
    /\ S = {s[k] : k \in 1 .. n} /\ Cycle(n, s, nx)
    /\ \A k \in 0 .. n : pv[s[k]] = IF k = 0 THEN s[n] ELSE s[k - 1]
  BY DEF Ringed
<1>6. PICK s \in [0 .. n -> Node] :
    /\ s[0] = HeadNode /\ \A j, k \in 0 .. n : s[j] = s[k] => j = k
    /\ S = {s[k] : k \in 1 .. n} /\ Cycle(n, s, nx)
    /\ \A k \in 0 .. n : pv[s[k]] = IF k = 0 THEN s[n] ELSE s[k - 1]
  BY <1>5
<1>7. \A k \in 0 .. n : nx[s[k]] = IF k = n THEN HeadNode ELSE s[k + 1]
  BY <1>6 DEF Cycle
<1>8. p = s[n] /\ 0 \in 0 .. n /\ n \in 0 .. n
  BY <1>6
<1>9. \A k \in 0 .. n : s[k] # d
  <2> SUFFICES ASSUME NEW k \in 0 .. n  PROVE s[k] # d
    OBVIOUS
  <2>1. CASE k = 0
    BY <1>2, <1>6, <2>1
  <2>2. CASE k # 0
    <3>1. k \in 1 .. n
      BY <2>2
    <3> QED  BY <1>6, <3>1
  <2> QED  BY <2>1, <2>2
<1>10. p # d
  BY <1>8, <1>9
<1>11. /\ ny \in [Node -> Node] /\ py \in [Node -> Node]
       /\ ny[d] = HeadNode /\ ny[p] = d /\ \A x \in Node : x # d /\ x # p => ny[x] = nx[x]
       /\ py[d] = p /\ py[HeadNode] = d /\ \A x \in Node : x # d /\ x # HeadNode => py[x] = pv[x]
  BY <1>1, <1>2, <1>4, <1>10
<1> HIDE DEF nx, pv, ny, py, p
<1> DEFINE m == n + 1
           r == [k \in 0 .. m |-> IF k = m THEN d ELSE s[k]]
<1>12. m \in Nat /\ m \in 0 .. m /\ m # 0 /\ \A k \in 0 .. m : k # m => k \in 0 .. n
  OBVIOUS
<1>13. r \in [0 .. m -> Node] /\ r[m] = d /\ \A k \in 0 .. n : r[k] = s[k] /\ k \in 0 .. m /\ k # m
  BY <1>2, <1>12
<1>14. r[0] = HeadNode
  BY <1>6, <1>8, <1>13
<1>15. ASSUME NEW j \in 0 .. m, NEW k \in 0 .. m, r[j] = r[k]  PROVE j = k
  <2> HIDE DEF r, m
  <2> QED  BY <1>6, <1>9, <1>12, <1>13, <1>15
<1>16. S \cup {d} = {r[k] : k \in 1 .. m}
  <2>1. ASSUME NEW k \in 1 .. m  PROVE r[k] \in S \cup {d}
    <3>1. CASE k = m
      BY <1>13, <3>1
    <3>2. CASE k # m
      <4>1. k \in 1 .. n /\ k \in 0 .. n
        BY <3>2
      <4> QED  BY <1>6, <1>13, <4>1
    <3> QED  BY <3>1, <3>2
  <2>2. ASSUME NEW x \in S  PROVE \E k \in 1 .. m : x = r[k]
    <3>1. PICK k \in 1 .. n : x = s[k]
      BY <1>6
    <3>2. k \in 0 .. n /\ k \in 1 .. m
      OBVIOUS
    <3> QED  BY <1>13, <3>1, <3>2
  <2>3. m \in 1 .. m
    OBVIOUS
  <2> HIDE DEF r, m
  <2> QED  BY <2>1, <2>2, <2>3, <1>13
<1>17. ASSUME NEW k \in 0 .. m  PROVE ny[r[k]] = IF k = m THEN HeadNode ELSE r[k + 1]
  <2>1. CASE k = m
    BY <1>11, <1>13, <2>1
  <2>2. CASE k # m
    <3>1. k \in 0 .. n /\ r[k] = s[k] /\ s[k] \in Node /\ s[k] # d
      BY <1>9, <1>12, <1>13, <2>2
    <3>2. CASE k = n
      <4>1. s[k] = p /\ k + 1 = m
        BY <1>8, <3>2
      <4> QED  BY <1>11, <1>13, <2>2, <3>1, <4>1
    <3>3. CASE k # n
      <4>1. s[k] # p /\ k + 1 \in 0 .. n
        BY <1>6, <1>8, <3>1, <3>3
      <4>2. ny[s[k]] = s[k + 1] /\ r[k + 1] = s[k + 1]
        BY <1>7, <1>11, <1>13, <3>1, <3>3, <4>1
      <4> QED  BY <2>2, <3>1, <4>2
    <3> QED  BY <3>2, <3>3
  <2> QED  BY <2>1, <2>2
<1>18. ASSUME NEW k \in 0 .. m  PROVE py[r[k]] = IF k = 0 THEN r[m] ELSE r[k - 1]
  <2>1. CASE k = 0
    BY <1>11, <1>13, <1>14, <2>1
  <2>2. CASE k = m
    <3>1. k - 1 = n
      BY <2>2
    <3> QED  BY <1>8, <1>11, <1>12, <1>13, <2>2, <3>1
  <2>3. CASE k # 0 /\ k # m
    <3>1. k \in 0 .. n /\ k - 1 \in 0 .. n /\ r[k] = s[k] /\ s[k] \in Node /\ s[k] # d
      BY <1>9, <1>12, <1>13, <2>3
    <3>2. s[k] # HeadNode
      BY <1>6, <1>8, <2>3, <3>1
    <3>3. py[s[k]] = s[k - 1] /\ r[k - 1] = s[k - 1]
      BY <1>6, <1>11, <1>13, <2>3, <3>1, <3>2
    <3> QED  BY <2>3, <3>1, <3>3
  <2> QED  BY <2>1, <2>2, <2>3
<1> HIDE DEF r, m
<1>19. Cycle(m, r, ny)
  BY <1>17 DEF Cycle
<1>20. Ringed(S \cup {d}, ny, py)
  BY <1>12, <1>13, <1>14, <1>15, <1>16, <1>18, <1>19 DEF Ringed
<1> QED  BY <1>3, <1>11, <1>20

\* A ring is one in either direction.
LEMMA RingBoth ==
  ASSUME NEW S, NEW nx, NEW pv, Ringed(S, nx, pv)
  PROVE  Round(S, nx) /\ Round(S, pv)
<1>5. PICK n \in Nat : \E s \in [0 .. n -> Node] :
    /\ s[0] = HeadNode /\ \A j, k \in 0 .. n : s[j] = s[k] => j = k
    /\ S = {s[k] : k \in 1 .. n} /\ Cycle(n, s, nx)
    /\ \A k \in 0 .. n : pv[s[k]] = IF k = 0 THEN s[n] ELSE s[k - 1]
  BY DEF Ringed
<1>6. PICK s \in [0 .. n -> Node] :
    /\ s[0] = HeadNode /\ \A j, k \in 0 .. n : s[j] = s[k] => j = k
    /\ S = {s[k] : k \in 1 .. n} /\ Cycle(n, s, nx)
    /\ \A k \in 0 .. n : pv[s[k]] = IF k = 0 THEN s[n] ELSE s[k - 1]
  BY <1>5
<1>7. Round(S, nx)
  BY <1>6 DEF Round
<1> DEFINE back(k) == IF k = 0 THEN 0 ELSE n + 1 - k
           r == [k \in 0 .. n |-> s[back(k)]]
<1>8. \A k \in 0 .. n : back(k) \in 0 .. n
  OBVIOUS
<1>9. \A j, k \in 0 .. n : back(j) = back(k) => j = k
  OBVIOUS
<1>10. r \in [0 .. n -> Node] /\ \A k \in 0 .. n : r[k] = s[back(k)]
  BY <1>8
<1>11. r[0] = HeadNode
  BY <1>6, <1>10
<1>12. \A j, k \in 0 .. n : r[j] = r[k] => j = k
  <2> HIDE DEF back, r
  <2> QED  BY <1>6, <1>8, <1>9, <1>10
<1>13. S = {r[k] : k \in 1 .. n}
  <2>1. ASSUME NEW k \in 1 .. n  PROVE r[k] \in S
    <3>1. k \in 0 .. n /\ back(k) \in 1 .. n
      OBVIOUS
    <3> HIDE DEF back, r
    <3> QED  BY <1>6, <1>10, <3>1
  <2>2. ASSUME NEW x \in S  PROVE \E k \in 1 .. n : x = r[k]
    <3>1. PICK k \in 1 .. n : x = s[k]
      BY <1>6
    <3>2. n + 1 - k \in 1 .. n /\ n + 1 - k \in 0 .. n /\ back(n + 1 - k) = k
      OBVIOUS
    <3>3. r[n + 1 - k] = s[k]
      <4> HIDE DEF back, r
      <4> QED  BY <1>10, <3>2
    <3> QED  BY <3>1, <3>2, <3>3
  <2> HIDE DEF back, r
  <2> QED  BY <2>1, <2>2
<1>14. ASSUME NEW k \in 0 .. n  PROVE pv[r[k]] = IF k = n THEN HeadNode ELSE r[k + 1]
  <2>1. pv[r[k]] = IF back(k) = 0 THEN s[n] ELSE s[back(k) - 1]
    <3> HIDE DEF back, r
    <3> QED  BY <1>6, <1>8, <1>10
  <2>2. CASE k = n /\ n # 0
    <3>1. back(k) # 0 /\ back(k) - 1 = 0
      BY <2>2
    <3> HIDE DEF back, r
    <3> QED  BY <1>6, <2>1, <2>2, <3>1
  <2>3. CASE n = 0
    <3>1. back(k) = 0 /\ k = n
      BY <2>3
    <3> HIDE DEF back, r
    <3> QED  BY <1>6, <2>1, <2>3, <3>1
  <2>4. CASE k # n /\ k = 0
    <3>1. back(k) = 0 /\ back(k + 1) = n /\ k + 1 \in 0 .. n
      BY <2>4
    <3> HIDE DEF back, r
    <3> QED  BY <1>10, <2>1, <2>4, <3>1
  <2>5. CASE k # n /\ k # 0
    <3>1. back(k) # 0 /\ back(k) - 1 = back(k + 1) /\ k + 1 \in 0 .. n
      BY <2>5
    <3> HIDE DEF back, r
    <3> QED  BY <1>10, <2>1, <2>5, <3>1
  <2> QED  BY <2>2, <2>3, <2>4, <2>5
<1> HIDE DEF back, r
<1>15. Cycle(n, r, pv)
  BY <1>14 DEF Cycle
<1>16. Round(S, pv)
  BY <1>10, <1>11, <1>12, <1>13, <1>15 DEF Round
<1> QED  BY <1>7, <1>16

\* The k-th node of a walk, going round as often as it takes.
LEMMA RoundWalk ==
  ASSUME NEW S, NEW nx, Round(S, nx)
  PROVE  /\ {Walk(nx)[k] : k \in 1 .. Cardinality(S)} = S
         /\ nx[Walk(nx)[Cardinality(S)]] = HeadNode
<1>0. MaxDev \in Nat
  BY AutoconfAssumption
<1>1. PICK n \in Nat : \E s \in [0 .. n -> Node] :
    /\ s[0] = HeadNode /\ \A j, k \in 0 .. n : s[j] = s[k] => j = k
    /\ S = {s[k] : k \in 1 .. n} /\ Cycle(n, s, nx)
  BY DEF Round
<1>2. PICK s \in [0 .. n -> Node] :
    /\ s[0] = HeadNode /\ \A j, k \in 0 .. n : s[j] = s[k] => j = k
    /\ S = {s[k] : k \in 1 .. n} /\ Cycle(n, s, nx)
  BY <1>1
<1>3. Cardinality(1 .. n) = n /\ IsFiniteSet(1 .. n)
  <2>1. 1 \in Int /\ n \in Int
    OBVIOUS
  <2>2. IsFiniteSet(1 .. n) /\ Cardinality(1 .. n) = IF 1 > n THEN 0 ELSE n - 1 + 1
    BY <2>1, FS_Interval
  <2> QED  BY <2>2
<1>4. Cardinality(S) = n
  <2> DEFINE f == [k \in 1 .. n |-> s[k]]
  <2>1. \A k \in 1 .. n : k \in 0 .. n /\ f[k] = s[k] /\ s[k] \in S
    BY <1>2
  <2>2. f \in [1 .. n -> S] /\ \A j, k \in 1 .. n : f[j] = f[k] => j = k
    BY <1>2, <2>1
  <2>3. \A x \in S : \E k \in 1 .. n : f[k] = x
    BY <1>2, <2>1
  <2> HIDE DEF f
  <2>4. f \in Bijection(1 .. n, S)
    BY <2>2, <2>3 DEF Bijection, Injection, Surjection, IsInjective
  <2>5. ExistsBijection(1 .. n, S)
    BY <2>4 DEF ExistsBijection
  <2> QED  BY <1>3, <2>5, FS_Bijection
<1>5. n <= MaxDev
  <2>1. S \subseteq Dev
    <3> SUFFICES ASSUME NEW k \in 1 .. n  PROVE s[k] \in Dev
      BY <1>2
    <3>1. k \in 0 .. n /\ 0 \in 0 .. n /\ k # 0
      OBVIOUS
    <3>2. s[k] \in Node /\ s[k] # HeadNode
      BY <1>2, <3>1
    <3> QED  BY <1>0, <3>2 DEF Node, Dev, HeadNode
  <2>2. IsFiniteSet(Dev) /\ Cardinality(Dev) = MaxDev
    <3>1. 1 \in Int /\ MaxDev \in Int
      BY <1>0
    <3>2. IsFiniteSet(1 .. MaxDev) /\ Cardinality(1 .. MaxDev) = IF 1 > MaxDev THEN 0 ELSE MaxDev - 1 + 1
      BY <3>1, FS_Interval
    <3> QED  BY <1>0, <3>2 DEF Dev
  <2>3. Cardinality(S) <= Cardinality(Dev)
    BY <2>1, <2>2, FS_Subset
  <2> QED  BY <1>4, <2>2, <2>3
<1> DEFINE m == n + 1
           at(k) == k % m
           W(w) == w = [k \in 0 .. MaxDev |-> IF k = 0 THEN HeadNode ELSE nx[w[k - 1]]]
           v == [k \in 0 .. MaxDev |-> s[at(k)]]
<1>6. m \in Nat \ {0} /\ \A k \in Nat : at(k) \in 0 .. n
  <2>1. m \in Nat \ {0}
    OBVIOUS
  <2>2. ASSUME NEW k \in Nat  PROVE k % m \in 0 .. m - 1
    BY <2>1, DivMod
  <2> QED  BY <2>1, <2>2
<1>7. \A k \in 0 .. n : at(k) = k
  <2> SUFFICES ASSUME NEW k \in 0 .. n  PROVE k % m = k
    OBVIOUS
  <2>1. 0 \in Int /\ k \in 0 .. m - 1 /\ m * 0 + k = k
    BY SMT
  <2>2. (m * 0 + k) % m = k
    BY <1>6, <2>1, DivUnique
  <2> QED  BY <2>1, <2>2
<1>8. ASSUME NEW k \in Nat, k # 0  PROVE at(k) = IF at(k - 1) = n THEN 0 ELSE at(k - 1) + 1
  <2> DEFINE q == (k - 1) \div m
             r == (k - 1) % m
             t == m * q
  <2>1. k - 1 \in Int /\ k - 1 \in Nat
    BY <1>8
  <2>2. r \in 0 .. m - 1 /\ q \in Int /\ k - 1 = m * q + r
    BY <1>6, <2>1, DivMod
  <2> HIDE DEF q, r
  <2>3. CASE r = n
    <3>1. k = m * q + m
      <4>1. t \in Int /\ k - 1 = t + n
        BY <1>6, <2>2, <2>3, SMT
      <4> HIDE DEF t
      <4>2. k = t + m
        BY <4>1
      <4> QED  BY <4>2 DEF t
    <3>2. m * q + m = m * (q + 1) + 0 /\ q + 1 \in Int /\ 0 \in 0 .. m - 1
      BY <1>6, <2>2, SMT
    <3>3. (m * (q + 1) + 0) % m = 0
      BY <1>6, <3>2, DivUnique
    <3> QED  BY <2>3, <3>1, <3>2, <3>3 DEF r
  <2>4. CASE r # n
    <3>1. k = m * q + (r + 1) /\ r + 1 \in 0 .. m - 1
      <4>1. t \in Int /\ k - 1 = t + r
        BY <1>6, <2>2, SMT
      <4> HIDE DEF t
      <4>2. k = t + (r + 1) /\ r + 1 \in 0 .. m - 1
        BY <2>2, <2>4, <4>1
      <4> QED  BY <4>2 DEF t
    <3>2. (m * q + (r + 1)) % m = r + 1
      <4> HIDE DEF m
      <4> QED  BY <1>6, <2>2, <3>1, DivUnique
    <3> QED  BY <2>4, <3>1, <3>2 DEF r
  <2> QED  BY <2>3, <2>4
<1>9. \A k \in 0 .. n : nx[s[k]] = IF k = n THEN s[0] ELSE s[k + 1]
  BY <1>2 DEF Cycle
<1> HIDE DEF at, m
<1>10. W(v)
  <2>1. \A k \in 0 .. MaxDev : v[k] = s[at(k)]
    OBVIOUS
  <2>2. v[0] = HeadNode /\ 0 \in 0 .. MaxDev
    BY <1>0, <1>2, <1>7, <2>1
  <2>3. ASSUME NEW k \in 0 .. MaxDev, k # 0  PROVE v[k] = nx[v[k - 1]]
    <3>1. k \in Nat /\ k - 1 \in 0 .. MaxDev /\ k - 1 \in Nat
      BY <1>0, <2>3
    <3>2. at(k - 1) \in 0 .. n
      BY <1>6, <3>1
    <3>3. nx[s[at(k - 1)]] = IF at(k - 1) = n THEN s[0] ELSE s[at(k - 1) + 1]
      BY <1>9, <3>2
    <3>4. at(k) = IF at(k - 1) = n THEN 0 ELSE at(k - 1) + 1
      BY <1>8, <2>3, <3>1
    <3> QED  BY <2>1, <3>1, <3>3, <3>4
  <2>4. v = [k \in 0 .. MaxDev |-> v[k]]
    OBVIOUS
  <2> HIDE DEF v
  <2> QED  BY <2>2, <2>3, <2>4
<1>11. ASSUME NEW w, W(w)  PROVE \A k \in 0 .. MaxDev : w[k] = v[k]
  <2> DEFINE Bad == {k \in 0 .. MaxDev : w[k] # v[k]}
  <2> SUFFICES ASSUME Bad # {}  PROVE FALSE
    OBVIOUS
  <2>1. Bad \in SUBSET Nat
    BY <1>0
  <2>2. PICK k \in Bad : \A j \in Bad : k <= j
    <3> HIDE DEF Bad
    <3> QED  BY <2>1, LeastNat
  <2>3. k \in 0 .. MaxDev /\ w[k] # v[k]
    BY <2>2
  <2>4. /\ w[k] = IF k = 0 THEN HeadNode ELSE nx[w[k - 1]]
        /\ v[k] = IF k = 0 THEN HeadNode ELSE nx[v[k - 1]]
    <3> HIDE DEF v
    <3> QED  BY <1>10, <1>11, <2>3
  <2>5. k # 0
    BY <2>3, <2>4
  <2>6. k - 1 \notin Bad /\ k - 1 \in 0 .. MaxDev
    BY <1>0, <2>2, <2>3, <2>5
  <2>7. w[k - 1] = v[k - 1]
    BY <2>6
  <2> QED  BY <2>3, <2>4, <2>5, <2>7
<1>12. Walk(nx) = CHOOSE w : W(w)
  BY DEF Walk
<1>13. W(Walk(nx))
  <2> HIDE DEF v, W
  <2> QED  BY <1>10, <1>12
<1>14. \A k \in 0 .. n : Walk(nx)[k] = s[k]
  <2>1. ASSUME NEW k \in 0 .. n  PROVE Walk(nx)[k] = s[k]
    <3>1. k \in 0 .. MaxDev
      BY <1>0, <1>5
    <3>2. v[k] = s[k]
      BY <1>7, <3>1
    <3> QED  BY <1>11, <1>13, <3>1, <3>2
  <2> QED  BY <2>1
<1> HIDE DEF v, W
<1>15. \A k \in 1 .. n : k \in 0 .. n
  OBVIOUS
<1>16. {Walk(nx)[k] : k \in 1 .. n} = S
  BY <1>2, <1>14, <1>15
<1>17. nx[Walk(nx)[n]] = HeadNode
  <2>1. n \in 0 .. n
    OBVIOUS
  <2> QED  BY <1>2, <1>9, <1>14, <2>1
<1> QED  BY <1>4, <1>16, <1>17

-----------------------------------------------------------------------------
(* The inductive invariant of the device configuration.                    *)

\* The types; before configure there is nothing.
ConfTypeOK ==
  /\ found \subseteq Cfs /\ cf_unit \in [Cfs -> Int]
  /\ DOMAIN devs \subseteq Dev /\ devs \in [DOMAIN devs -> [cf : Cfs, unit : Int, parent : Int]]
  /\ attaching \in Seq([dev : Dev, begun : BOOLEAN, left : Int])
  /\ config = "boot" => DOMAIN devs = {} /\ attaching = <<>> /\ found = {}

\* The units of an entry in use.  Names are unique; a static entry has the unit of
\* the table, and is marked once it has a device; a dynamic one counts its own.
UnitsOf(i) == {devs[d].unit : d \in {e \in DOMAIN devs : devs[e].cf = i}}
Named ==
  /\ \A d, e \in DOMAIN devs : devs[d].cf = devs[e].cf /\ devs[d].unit = devs[e].unit => d = e
  /\ \A d \in DOMAIN devs : ~Cfdatas[devs[d].cf].dynamic =>
       devs[d].cf \in found /\ devs[d].unit = Cfdatas[devs[d].cf].unit
  /\ \A i \in Cfs :
       IF Cfdatas[i].dynamic THEN cf_unit[i] >= Cfdatas[i].unit /\ UnitsOf(i) = Cfdatas[i].unit .. cf_unit[i] - 1
       ELSE cf_unit[i] = Cfdatas[i].unit

\* A device lies below one of the entry its own entry names.
Placed ==
  \A d \in DOMAIN devs :
    IF devs[d].cf = 1 THEN devs[d].parent = NoParent
    ELSE devs[d].parent \in DOMAIN devs /\ devs[devs[d].parent].cf = Cfdatas[devs[d].cf].parent

\* The attach functions that have begun are of different devices; the one that
\* runs is of the last device of its entry, and as long as it has not begun with
\* the devices below it, there are none.
Stacked ==
  /\ \A k \in 1 .. Len(attaching) : attaching[k].dev \in DOMAIN devs
  /\ \A j, k \in 1 .. Len(attaching) : attaching[j].dev = attaching[k].dev => j = k
  /\ \A k \in 1 .. Len(attaching) : ~attaching[k].begun =>
       LET e == attaching[k].dev
       IN  /\ k = Len(attaching)
           /\ \A d \in DOMAIN devs : devs[d].parent # e
           /\ Cfdatas[devs[e].cf].dynamic => devs[e].unit = cf_unit[devs[e].cf] - 1

\* What a list holds, and until a device is destroyed, that it is a ring.
On(l) == {d \in DOMAIN devs : l \in {AllDevs, Cfdatas[devs[d].cf].driver}}
ListedAll ==
  ~destroyed =>
    /\ lists \in [Drivers \cup {AllDevs} -> [next : [Node -> Node], prev : [Node -> Node]]]
    /\ \A l \in DOMAIN lists : Ringed(On(l), lists[l].next, lists[l].prev)

\* The inductive invariant of the device configuration.
ConfInv == ConfTypeOK /\ Named /\ Placed /\ Stacked /\ ListedAll

-----------------------------------------------------------------------------
(* The steps of the device configuration.                                  *)

\* An entry of the table.
LEMMA CfIs ==
  /\ Len(Cfdatas) \in Nat /\ Drivers \cup {AllDevs} = {AllDevs} \cup {Cfdatas[i].driver : i \in Cfs}
  /\ \A i \in Cfs : /\ Cfdatas[i].driver \in Drivers /\ Cfdatas[i].driver # AllDevs
                    /\ Cfdatas[i].unit \in Nat /\ Cfdatas[i].dynamic \in BOOLEAN
<1>1. Cfdatas \in Seq([driver : STRING \ {AllDevs}, parent : Nat, dynamic : BOOLEAN,
                       does : {"found", "scan", "leaf"}, unit : Nat, namelen : Nat])
  BY AutoconfAssumption
<1>2. Len(Cfdatas) \in Nat
  BY <1>1
<1>3. \A i \in Cfs : Cfdatas[i] \in [driver : STRING \ {AllDevs}, parent : Nat, dynamic : BOOLEAN,
                       does : {"found", "scan", "leaf"}, unit : Nat, namelen : Nat]
  BY <1>1, ElementOfSeq DEF Cfs
<1>4. \A i \in Cfs : Cfdatas[i].driver \in Drivers
  BY DEF Drivers
<1>5. \A i \in Cfs : Cfdatas[i].driver # AllDevs /\ Cfdatas[i].unit \in Nat /\ Cfdatas[i].dynamic \in BOOLEAN
  BY <1>3
<1>6. Drivers \cup {AllDevs} = {AllDevs} \cup {Cfdatas[i].driver : i \in Cfs}
  BY DEF Drivers
<1> QED  BY <1>2, <1>4, <1>5, <1>6

\* The entries a step of create_device and of destroy_device works on.
WithDev(d, i, parent) ==
  [x \in DOMAIN devs \cup {d} |-> IF x = d THEN [cf |-> i, unit |-> cf_unit[i], parent |-> parent] ELSE devs[x]]
UpBy(i, n) == IF Cfdatas[i].dynamic THEN [cf_unit EXCEPT ![i] = @ + n] ELSE cf_unit
Enlisted(d, i) ==
  [lists EXCEPT ![Cfdatas[i].driver] = list_add_tail(@, d), ![AllDevs] = list_add_tail(@, d)]

\* create_device links the new device into both lists and counts a dynamic unit.
LEMMA CreateIs ==
  ASSUME NEW d, NEW i, NEW p
  PROVE  LET c == create_device(Conf, d, i, p)
         IN  /\ c.found = found /\ c.destroyed = destroyed /\ c.devs = WithDev(d, i, p)
             /\ c.unit = UpBy(i, 1) /\ c.lists = Enlisted(d, i)
             /\ c = [found |-> found, unit |-> UpBy(i, 1), devs |-> WithDev(d, i, p), lists |-> Enlisted(d, i), destroyed |-> destroyed]
<1>1. Conf.found = found /\ Conf.unit = cf_unit /\ Conf.devs = devs /\ Conf.lists = lists /\ Conf.destroyed = destroyed
  BY DEF Conf
<1>2. \A A, B, C : [Conf EXCEPT !.devs = A, !.unit = B, !.lists = C] = [found |-> found, unit |-> B, devs |-> A, lists |-> C, destroyed |-> destroyed]
  <2> SUFFICES ASSUME NEW A, NEW B, NEW C
               PROVE  [Conf EXCEPT !.devs = A, !.unit = B, !.lists = C] = [found |-> found, unit |-> B, devs |-> A, lists |-> C, destroyed |-> destroyed]
    OBVIOUS
  <2> DEFINE x == [Conf EXCEPT !.devs = A]
             y == [x EXCEPT !.unit = B]
  <2>1. x = [found |-> found, unit |-> cf_unit, devs |-> A, lists |-> lists, destroyed |-> destroyed]
    BY DEF Conf
  <2> HIDE DEF x
  <2>2. y = [found |-> found, unit |-> B, devs |-> A, lists |-> lists, destroyed |-> destroyed]
    BY <2>1
  <2> HIDE DEF y
  <2>3. [y EXCEPT !.lists = C] = [found |-> found, unit |-> B, devs |-> A, lists |-> C, destroyed |-> destroyed]
    BY <2>2
  <2> QED  BY <2>3 DEF x, y
<1>3. create_device(Conf, d, i, p) = [Conf EXCEPT !.devs = WithDev(d, i, p), !.unit = UpBy(i, 1), !.lists = Enlisted(d, i)]
  BY <1>1 DEF create_device, UpBy, WithDev, Enlisted
<1>4. create_device(Conf, d, i, p) = [found |-> found, unit |-> UpBy(i, 1), devs |-> WithDev(d, i, p), lists |-> Enlisted(d, i), destroyed |-> destroyed]
  BY <1>2, <1>3
<1> QED  BY <1>4

\* What the attach function of a new device finds.
LEMMA BeginIs ==
  ASSUME NEW st, NEW d, NEW i, NEW p, Begin(st, create_device(Conf, d, i, p), d)
  PROVE  /\ \E n \in Places(i) : attaching' = Append(st, [dev |-> d, begun |-> FALSE, left |-> n])
         /\ found' = IF Cfdatas[i].dynamic THEN found ELSE found \cup {i}
         /\ cf_unit' = UpBy(i, 1) /\ devs' = WithDev(d, i, p) /\ lists' = Enlisted(d, i) /\ destroyed' = destroyed
<1> DEFINE c == create_device(Conf, d, i, p)
<1>1. c = [found |-> found, unit |-> UpBy(i, 1), devs |-> WithDev(d, i, p), lists |-> Enlisted(d, i), destroyed |-> destroyed]
  BY CreateIs
<1>2. WithDev(d, i, p)[d].cf = i
  BY DEF WithDev
<1>3. c.devs[d].cf = i
  BY <1>1, <1>2
<1>4. (\E n \in Places(c.devs[d].cf) : attaching' = Append(st, [dev |-> d, begun |-> FALSE, left |-> n])) /\ Becomes(MarkFound(c, c.devs[d].cf))
  BY DEF Begin
<1> HIDE DEF c
<1>5. Becomes(MarkFound(c, i)) /\ \E n \in Places(i) : attaching' = Append(st, [dev |-> d, begun |-> FALSE, left |-> n])
  BY <1>3, <1>4
<1>6. MarkFound(c, i) = [found |-> IF Cfdatas[i].dynamic THEN found ELSE found \cup {i}, unit |-> UpBy(i, 1), devs |-> WithDev(d, i, p), lists |-> Enlisted(d, i), destroyed |-> destroyed]
  BY <1>1 DEF MarkFound
<1> DEFINE g == MarkFound(c, i)
<1>7. found' = g.found /\ cf_unit' = g.unit /\ devs' = g.devs /\ lists' = g.lists /\ destroyed' = g.destroyed
  BY <1>5 DEF Becomes
<1>8. /\ g.found = IF Cfdatas[i].dynamic THEN found ELSE found \cup {i}
      /\ g.unit = UpBy(i, 1) /\ g.devs = WithDev(d, i, p) /\ g.lists = Enlisted(d, i) /\ g.destroyed = destroyed
  BY <1>6
<1> HIDE DEF g
<1> QED  BY <1>5, <1>7, <1>8

\* How many places a bus has.
LEMMA PlacesAre ==
  ASSUME NEW i \in Cfs  PROVE Places(i) \subseteq Int
<1>1. Cfdatas[i].does \in {"found", "scan", "leaf"} /\ MaxPorts \in Nat /\ Len(Cfdatas) \in Nat
  <2>1. Cfdatas[i] \in [driver : STRING \ {AllDevs}, parent : Nat, dynamic : BOOLEAN,
                       does : {"found", "scan", "leaf"}, unit : Nat, namelen : Nat]
    BY AutoconfAssumption, ElementOfSeq DEF Cfs
  <2> QED  BY <2>1, AutoconfAssumption, CfIs
<1>2. mainbus_places \subseteq Int /\ ahci_places \subseteq Int /\ localbus_places \subseteq Int /\ {0} \subseteq Int
  BY <1>1 DEF mainbus_places, ahci_places, localbus_places
<1> QED  BY <1>1, <1>2 DEF Places

\* The frames of the attach functions.
Frame == [dev : Dev, begun : BOOLEAN, left : Int]

\* A new device whose attach function begins.
LEMMA MadeKeeps ==
  ASSUME ConfInv, NEW i \in Cfs, i \notin found, NEW d \in Dev, d \notin DOMAIN devs, NEW p \in Int,
         IF i = 1 THEN p = NoParent ELSE p \in DOMAIN devs /\ devs[p].cf = Cfdatas[i].parent,
         NEW st \in Seq(Frame), \A k \in 1 .. Len(st) : st[k].begun /\ st[k].dev \in DOMAIN devs,
         \A j, k \in 1 .. Len(st) : st[j].dev = st[k].dev => j = k,
         NEW n \in Int, attaching' = Append(st, [dev |-> d, begun |-> FALSE, left |-> n]),
         found' = IF Cfdatas[i].dynamic THEN found ELSE found \cup {i},
         cf_unit' = UpBy(i, 1), devs' = WithDev(d, i, p), lists' = Enlisted(d, i), destroyed' = destroyed,
         config' # "boot"
  PROVE  ConfInv'
<1> DEFINE new == [cf |-> i, unit |-> cf_unit[i], parent |-> p]
<1>1. ConfTypeOK /\ Named /\ Placed /\ ListedAll
  BY DEF ConfInv
<1>2. /\ found \subseteq Cfs /\ cf_unit \in [Cfs -> Int]
      /\ DOMAIN devs \subseteq Dev /\ devs \in [DOMAIN devs -> [cf : Cfs, unit : Int, parent : Int]]
  BY <1>1 DEF ConfTypeOK
<1>3. DOMAIN devs' = DOMAIN devs \cup {d} /\ devs'[d] = new /\ \A x \in DOMAIN devs : devs'[x] = devs[x] /\ x # d
  BY DEF WithDev
<1>4. new \in [cf : Cfs, unit : Int, parent : Int] /\ new.cf = i /\ new.unit = cf_unit[i] /\ new.parent = p
  BY <1>2
<1>5. devs' \in [DOMAIN devs' -> [cf : Cfs, unit : Int, parent : Int]] /\ DOMAIN devs' \subseteq Dev
  <2> HIDE DEF new
  <2>1. \A x \in DOMAIN devs' : devs'[x] \in [cf : Cfs, unit : Int, parent : Int]
    BY <1>2, <1>3, <1>4
  <2>2. devs' = [x \in DOMAIN devs' |-> devs'[x]]
    <3>1. WithDev(d, i, p) = [x \in DOMAIN WithDev(d, i, p) |-> WithDev(d, i, p)[x]]
      BY DEF WithDev
    <3> QED  BY <3>1
  <2>3. DOMAIN devs' \subseteq Dev
    BY <1>2, <1>3
  <2> QED  BY <2>1, <2>2, <2>3
<1>6. /\ cf_unit' \in [Cfs -> Int] /\ \A j \in Cfs : j # i => cf_unit'[j] = cf_unit[j]
      /\ cf_unit'[i] = IF Cfdatas[i].dynamic THEN cf_unit[i] + 1 ELSE cf_unit[i]
  BY <1>2 DEF UpBy
<1>7. found \subseteq found' /\ found' \subseteq Cfs /\ (~Cfdatas[i].dynamic => i \in found')
  BY <1>2
<1> DEFINE fr == [dev |-> d, begun |-> FALSE, left |-> n]
<1>8. fr \in Frame /\ fr.dev = d /\ ~fr.begun
  BY DEF Frame
<1>9. /\ attaching' \in Seq(Frame) /\ Len(attaching') = Len(st) + 1 /\ Len(st) \in Nat
      /\ attaching'[Len(st) + 1] = fr /\ \A k \in 1 .. Len(st) : attaching'[k] = st[k]
  <2> HIDE DEF fr
  <2>1. attaching' = Append(st, fr)
    BY DEF fr
  <2> QED  BY <1>8, <2>1
<1> HIDE DEF new, fr
<1>10. ConfTypeOK'
  BY <1>5, <1>6, <1>7, <1>9 DEF ConfTypeOK, Frame
<1>11. \A x \in DOMAIN devs : devs[x].cf \in Cfs /\ devs[x].unit \in Int /\ devs[x].parent \in Int
  BY <1>2
<1>12. /\ \A x, y \in DOMAIN devs : devs[x].cf = devs[y].cf /\ devs[x].unit = devs[y].unit => x = y
       /\ \A x \in DOMAIN devs : ~Cfdatas[devs[x].cf].dynamic =>
             devs[x].cf \in found /\ devs[x].unit = Cfdatas[devs[x].cf].unit
       /\ \A j \in Cfs : IF Cfdatas[j].dynamic
                         THEN cf_unit[j] >= Cfdatas[j].unit /\ UnitsOf(j) = Cfdatas[j].unit .. cf_unit[j] - 1
                         ELSE cf_unit[j] = Cfdatas[j].unit
  BY <1>1 DEF Named
<1>13. \A x \in DOMAIN devs : devs[x].cf = i => devs[x].unit # cf_unit[i]
  <2> SUFFICES ASSUME NEW x \in DOMAIN devs, devs[x].cf = i  PROVE devs[x].unit # cf_unit[i]
    OBVIOUS
  <2>1. Cfdatas[i].dynamic
    BY <1>12
  <2>2. devs[x].unit \in UnitsOf(i)
    BY DEF UnitsOf
  <2>3. Cfdatas[i].unit \in Nat /\ cf_unit[i] \in Int
    BY <1>2, CfIs
  <2> QED  BY <1>12, <2>1, <2>2, <2>3
<1>14. Named'
  <2>1. ASSUME NEW x \in DOMAIN devs', NEW y \in DOMAIN devs', devs'[x].cf = devs'[y].cf, devs'[x].unit = devs'[y].unit
        PROVE  x = y
    <3>1. CASE x # d /\ y # d
      BY <1>3, <1>12, <2>1, <3>1
    <3>2. CASE x = d /\ y # d
      BY <1>3, <1>4, <1>13, <2>1, <3>2
    <3>3. CASE x # d /\ y = d
      BY <1>3, <1>4, <1>13, <2>1, <3>3
    <3> QED  BY <3>1, <3>2, <3>3
  <2>2. ASSUME NEW x \in DOMAIN devs', ~Cfdatas[devs'[x].cf].dynamic
        PROVE  devs'[x].cf \in found' /\ devs'[x].unit = Cfdatas[devs'[x].cf].unit
    <3>1. CASE x # d
      BY <1>3, <1>7, <1>12, <2>2, <3>1
    <3>2. CASE x = d
      BY <1>3, <1>4, <1>7, <1>12, <2>2, <3>2
    <3> QED  BY <3>1, <3>2
  <2>3. ASSUME NEW j \in Cfs
        PROVE  IF Cfdatas[j].dynamic THEN cf_unit'[j] >= Cfdatas[j].unit /\ UnitsOf(j)' = Cfdatas[j].unit .. cf_unit'[j] - 1
               ELSE cf_unit'[j] = Cfdatas[j].unit
    <3>1. CASE ~Cfdatas[j].dynamic
      BY <1>6, <1>12, <3>1
    <3>2. CASE Cfdatas[j].dynamic /\ j # i
      <4>1. UnitsOf(j)' = UnitsOf(j)
        BY <1>3, <1>4, <3>2 DEF UnitsOf
      <4> QED  BY <1>6, <1>12, <3>2, <4>1
    <3>3. CASE Cfdatas[j].dynamic /\ j = i
      <4>1. UnitsOf(i)' = UnitsOf(i) \cup {cf_unit[i]}
        BY <1>3, <1>4 DEF UnitsOf
      <4>2. cf_unit[i] \in Int /\ Cfdatas[i].unit \in Nat /\ cf_unit[i] >= Cfdatas[i].unit /\ UnitsOf(i) = Cfdatas[i].unit .. cf_unit[i] - 1
        BY <1>2, <1>12, <3>3, CfIs
      <4>3. (Cfdatas[i].unit .. cf_unit[i] - 1) \cup {cf_unit[i]} = Cfdatas[i].unit .. (cf_unit[i] + 1) - 1
        BY <4>2
      <4> QED  BY <1>6, <3>3, <4>1, <4>2, <4>3
    <3> QED  BY <3>1, <3>2, <3>3
  <2> QED  BY <2>1, <2>2, <2>3 DEF Named
<1>15. Placed'
  <2>1. ASSUME NEW x \in DOMAIN devs'
        PROVE  IF devs'[x].cf = 1 THEN devs'[x].parent = NoParent
               ELSE devs'[x].parent \in DOMAIN devs' /\ devs'[devs'[x].parent].cf = Cfdatas[devs'[x].cf].parent
    <3>1. CASE x = d
      BY <1>3, <1>4, <3>1
    <3>2. CASE x # d
      <4>1. x \in DOMAIN devs /\ devs'[x] = devs[x]
        BY <1>3, <3>2
      <4> QED  BY <1>1, <1>3, <4>1 DEF Placed
    <3> QED  BY <3>1, <3>2
  <2> QED  BY <2>1 DEF Placed
<1>16. \A x \in DOMAIN devs' : devs'[x].parent # d
  <2> SUFFICES ASSUME NEW x \in DOMAIN devs'  PROVE devs'[x].parent # d
    OBVIOUS
  <2>1. NoParent # d
    BY DEF NoParent, Dev
  <2>2. p # d
    BY <2>1
  <2>3. CASE x # d
    BY <1>1, <1>3, <2>1, <2>3 DEF Placed
  <2> QED  BY <1>3, <1>4, <2>2, <2>3
<1>17. Stacked'
  <2> DEFINE L == Len(st)
  <2>1. \A k \in 1 .. L + 1 : k # L + 1 => k \in 1 .. L
    BY <1>9
  <2>2. ASSUME NEW k \in 1 .. L + 1  PROVE attaching'[k].dev \in DOMAIN devs'
    BY <1>3, <1>8, <1>9, <2>1
  <2>3. ASSUME NEW j \in 1 .. L + 1, NEW k \in 1 .. L + 1, attaching'[j].dev = attaching'[k].dev  PROVE j = k
    <3>1. CASE j # L + 1 /\ k # L + 1
      BY <1>9, <2>1, <2>3, <3>1
    <3>2. CASE j = L + 1 /\ k # L + 1
      BY <1>8, <1>9, <2>1, <2>3, <3>2
    <3>3. CASE j # L + 1 /\ k = L + 1
      BY <1>8, <1>9, <2>1, <2>3, <3>3
    <3> QED  BY <3>1, <3>2, <3>3
  <2>4. ASSUME NEW k \in 1 .. L + 1, ~attaching'[k].begun
        PROVE  LET e == attaching'[k].dev
               IN  /\ k = L + 1
                   /\ \A x \in DOMAIN devs' : devs'[x].parent # e
                   /\ Cfdatas[devs'[e].cf].dynamic => devs'[e].unit = cf_unit'[devs'[e].cf] - 1
    <3>1. k = L + 1
      BY <1>9, <2>1, <2>4
    <3>2. attaching'[k].dev = d
      BY <1>8, <1>9, <3>1
    <3>3. Cfdatas[i].dynamic => cf_unit[i] = cf_unit'[i] - 1
      BY <1>2, <1>6
    <3> QED  BY <1>3, <1>4, <1>16, <3>1, <3>2, <3>3
  <2> HIDE DEF L
  <2>5. Len(attaching)' = L + 1
    BY <1>9 DEF L
  <2> QED  BY <2>2, <2>3, <2>4, <2>5 DEF Stacked
<1>18. ListedAll'
  <2> SUFFICES ASSUME ~destroyed
               PROVE  /\ lists' \in [Drivers \cup {AllDevs} -> [next : [Node -> Node], prev : [Node -> Node]]]
                      /\ \A l \in DOMAIN lists' : Ringed(On(l)', lists'[l].next, lists'[l].prev)
    BY DEF ListedAll
  <2>1. /\ lists \in [Drivers \cup {AllDevs} -> [next : [Node -> Node], prev : [Node -> Node]]]
        /\ \A l \in DOMAIN lists : Ringed(On(l), lists[l].next, lists[l].prev)
    BY <1>1 DEF ListedAll
  <2> DEFINE r == Cfdatas[i].driver
  <2>2. r \in Drivers /\ r # AllDevs
    BY CfIs
  <2>3. DOMAIN lists' = DOMAIN lists /\ DOMAIN lists = Drivers \cup {AllDevs}
    BY <2>1 DEF Enlisted
  <2>4. \A l \in DOMAIN lists : lists'[l] = IF l \in {AllDevs, r} THEN list_add_tail(lists[l], d) ELSE lists[l]
    BY <2>1, <2>2, <2>3 DEF Enlisted
  <2>5. ASSUME NEW l \in DOMAIN lists
        PROVE  /\ lists'[l] \in [next : [Node -> Node], prev : [Node -> Node]]
               /\ Ringed(On(l)', lists'[l].next, lists'[l].prev)
    <3>1. lists[l] \in [next : [Node -> Node], prev : [Node -> Node]] /\ Ringed(On(l), lists[l].next, lists[l].prev)
      BY <2>1, <2>3
    <3>2. d \notin On(l)
      BY DEF On
    <3>3. CASE l \in {AllDevs, r}
      <4>1. On(l)' = On(l) \cup {d}
        BY <1>3, <1>4, <3>3 DEF On
      <4>2. lists'[l] = list_add_tail(lists[l], d)
        BY <2>4, <3>3
      <4> DEFINE S == On(l)
                 x == lists[l]
      <4>3. x \in [next : [Node -> Node], prev : [Node -> Node]] /\ Ringed(S, x.next, x.prev) /\ d \notin S
        BY <3>1, <3>2
      <4> HIDE DEF S, x
      <4>4. /\ list_add_tail(x, d) \in [next : [Node -> Node], prev : [Node -> Node]]
            /\ Ringed(S \cup {d}, list_add_tail(x, d).next, list_add_tail(x, d).prev)
        BY <4>3, RingAdd
      <4> QED  BY <4>1, <4>2, <4>4 DEF S, x
    <3>4. CASE l \notin {AllDevs, r}
      <4>1. On(l)' = On(l)
        BY <1>3, <1>4, <3>4 DEF On
      <4>2. lists'[l] = lists[l]
        BY <2>4, <3>4
      <4> QED  BY <3>1, <4>1, <4>2
    <3> QED  BY <3>3, <3>4
  <2>6. lists' \in [Drivers \cup {AllDevs} -> [next : [Node -> Node], prev : [Node -> Node]]]
    <3>1. lists' = [l \in DOMAIN lists' |-> lists'[l]]
      <4>1. Enlisted(d, i) = [l \in DOMAIN Enlisted(d, i) |-> Enlisted(d, i)[l]]
        BY <2>1 DEF Enlisted
      <4> QED  BY <4>1
    <3> QED  BY <2>3, <2>5, <3>1
  <2> QED  BY <2>3, <2>5, <2>6
<1> QED  BY <1>10, <1>14, <1>15, <1>17, <1>18 DEF ConfInv

\* A device that localbus_scan has made and destroyed has left no trace but in
\* the lists.
LEMMA UndoIs ==
  ASSUME ConfTypeOK, NEW d, d \notin DOMAIN devs, NEW i \in Cfs, NEW p,
         Becomes(destroy_device(create_device(Conf, d, i, p), d))
  PROVE  found' = found /\ cf_unit' = cf_unit /\ devs' = devs /\ destroyed' = TRUE
<1> DEFINE c == create_device(Conf, d, i, p)
           e == destroy_device(c, d)
<1>1. /\ c = [found |-> found, unit |-> UpBy(i, 1), devs |-> WithDev(d, i, p), lists |-> Enlisted(d, i), destroyed |-> destroyed]
  BY CreateIs
<1>2. c.found = found /\ c.unit = UpBy(i, 1) /\ c.devs = WithDev(d, i, p)
  BY <1>1
<1>3. DOMAIN c = {"found", "unit", "devs", "lists", "destroyed"}
  BY <1>1
<1>4. c.devs[d].cf = i
  BY <1>2 DEF WithDev
<1> HIDE DEF c
<1>5. /\ e.found = c.found /\ e.destroyed = TRUE
      /\ e.devs = [x \in DOMAIN c.devs \ {d} |-> c.devs[x]]
      /\ e.unit = IF Cfdatas[i].dynamic THEN [c.unit EXCEPT ![i] = @ - 1] ELSE c.unit
  BY <1>3, <1>4 DEF destroy_device
<1> HIDE DEF e
<1>6. found' = e.found /\ cf_unit' = e.unit /\ devs' = e.devs /\ destroyed' = e.destroyed
  BY DEF Becomes, e, c
<1>7. e.devs = devs
  <2>1. DOMAIN WithDev(d, i, p) \ {d} = DOMAIN devs
    BY DEF WithDev
  <2>2. \A x \in DOMAIN devs : WithDev(d, i, p)[x] = devs[x]
    BY DEF WithDev
  <2>3. devs = [x \in DOMAIN devs |-> devs[x]]
    BY DEF ConfTypeOK
  <2> QED  BY <1>2, <1>5, <2>1, <2>2, <2>3
<1>8. e.unit = cf_unit
  <2>1. cf_unit \in [Cfs -> Int]
    BY DEF ConfTypeOK
  <2>2. CASE Cfdatas[i].dynamic
    <3> DEFINE u == [cf_unit EXCEPT ![i] = @ + 1]
    <3>1. c.unit = u
      BY <1>2, <2>2 DEF UpBy
    <3>2. u \in [Cfs -> Int] /\ u[i] = cf_unit[i] + 1 /\ \A j \in Cfs : j # i => u[j] = cf_unit[j]
      BY <2>1
    <3> HIDE DEF u
    <3>3. [u EXCEPT ![i] = @ - 1] = cf_unit
      BY <2>1, <3>2
    <3> QED  BY <1>5, <2>2, <3>1, <3>3
  <2>3. CASE ~Cfdatas[i].dynamic
    BY <1>2, <1>5, <2>3 DEF UpBy
  <2> QED  BY <2>2, <2>3
<1> QED  BY <1>2, <1>5, <1>6, <1>7, <1>8

\* The frame of the attach function that runs.
LEMMA TopIs ==
  ASSUME ConfTypeOK, Stacked, attaching # <<>>
  PROVE  /\ Len(attaching) \in 1 .. Len(attaching) /\ Len(attaching) \in Nat \ {0}
         /\ Top \in Frame /\ Top.dev \in DOMAIN devs /\ TopCf \in Cfs /\ TopCf = devs[Top.dev].cf
<1>1. attaching \in Seq(Frame) /\ devs \in [DOMAIN devs -> [cf : Cfs, unit : Int, parent : Int]]
  BY DEF ConfTypeOK, Frame
<1>2. Len(attaching) \in Nat \ {0}
  BY <1>1, EmptySeq
<1>3. Len(attaching) \in 1 .. Len(attaching)
  BY <1>2
<1>4. Top \in Frame
  BY <1>1, <1>3, ElementOfSeq DEF Top
<1>5. Top.dev \in DOMAIN devs
  BY <1>3 DEF Stacked, Top
<1> QED  BY <1>1, <1>2, <1>3, <1>4, <1>5 DEF TopCf

\* Turn only counts a place down and notes that the bus has begun.
LEMMA TurnIs ==
  ASSUME ConfTypeOK, Stacked, attaching # <<>>
  PROVE  /\ Turn \in Seq(Frame) /\ Len(Turn) = Len(attaching)
         /\ \A k \in 1 .. Len(Turn) : Turn[k].begun /\ Turn[k].dev = attaching[k].dev /\ Turn[k].dev \in DOMAIN devs
         /\ \A j, k \in 1 .. Len(Turn) : Turn[j].dev = Turn[k].dev => j = k
<1> DEFINE L == Len(attaching)
           f == [Top EXCEPT !.left = @ - 1, !.begun = TRUE]
<1>1. L \in 1 .. L /\ L \in Nat \ {0} /\ Top \in Frame
  BY TopIs
<1>2. attaching \in Seq(Frame)
  BY DEF ConfTypeOK, Frame
<1>3. f \in Frame /\ f.begun /\ f.dev = Top.dev
  <2> DEFINE g == [Top EXCEPT !.left = @ - 1]
  <2>1. g \in Frame /\ g.dev = Top.dev
    BY <1>1 DEF Frame
  <2> HIDE DEF g
  <2>2. [g EXCEPT !.begun = TRUE] \in Frame /\ [g EXCEPT !.begun = TRUE].begun /\ [g EXCEPT !.begun = TRUE].dev = g.dev
    BY <2>1 DEF Frame
  <2> QED  BY <2>1, <2>2 DEF g
<1>4. Turn = [attaching EXCEPT ![L] = f]
  <2>1. DOMAIN attaching = 1 .. L
    BY <1>2, LenProperties
  <2>2. attaching[L] = Top
    BY DEF Top
  <2> DEFINE g == [Top EXCEPT !.left = @ - 1]
  <2>3. [attaching EXCEPT ![L].left = @ - 1] = [attaching EXCEPT ![L] = g]
    BY <2>2
  <2>4. [attaching EXCEPT ![L] = g][L] = g
    BY <1>1, <2>1
  <2>5. f = [g EXCEPT !.begun = TRUE]
    OBVIOUS
  <2> HIDE DEF g, f
  <2>6. Turn = [[attaching EXCEPT ![L] = g] EXCEPT ![L] = f]
    BY <2>3, <2>4, <2>5 DEF Turn
  <2> QED  BY <1>1, <2>1, <2>6
<1> HIDE DEF f
<1>5. Turn \in Seq(Frame) /\ Len(Turn) = L /\ \A k \in 1 .. L : Turn[k] = IF k = L THEN f ELSE attaching[k]
  BY <1>1, <1>2, <1>3, <1>4, ExceptSeq
<1>6. ASSUME NEW k \in 1 .. L  PROVE Turn[k].begun /\ Turn[k].dev = attaching[k].dev /\ attaching[k].dev \in DOMAIN devs
  <2>1. attaching[k].dev \in DOMAIN devs
    BY DEF Stacked
  <2>2. CASE k = L
    BY <1>3, <1>5, <2>1, <2>2 DEF Top
  <2>3. CASE k # L
    <3>1. attaching[k].begun
      BY <2>3 DEF Stacked
    <3> QED  BY <1>5, <2>1, <2>3, <3>1
  <2> QED  BY <2>2, <2>3
<1>7. \A j, k \in 1 .. L : attaching[j].dev = attaching[k].dev => j = k
  BY DEF Stacked
<1> HIDE DEF L
<1>8. \A j, k \in 1 .. L : Turn[j].dev = Turn[k].dev => j = k
  BY <1>6, <1>7
<1> QED  BY <1>5, <1>6, <1>8 DEF L

\* The devices stay, and the attach functions that have begun stay or are fewer.
LEMMA StackKeeps ==
  ASSUME ConfInv, found' = found, cf_unit' = cf_unit, devs' = devs, config' # "boot",
         destroyed' = TRUE \/ (destroyed' = destroyed /\ lists' = lists),
         attaching' \in Seq(Frame),
         \A k \in 1 .. Len(attaching') : attaching'[k].begun /\ attaching'[k].dev \in DOMAIN devs,
         \A j, k \in 1 .. Len(attaching') : attaching'[j].dev = attaching'[k].dev => j = k
  PROVE  ConfInv'
<1>1. ConfTypeOK /\ Named /\ Placed /\ ListedAll
  BY DEF ConfInv
<1>2. ConfTypeOK'
  BY <1>1 DEF ConfTypeOK, Frame
<1>3. Named'
  BY <1>1 DEF Named, UnitsOf
<1>4. Placed'
  BY <1>1 DEF Placed
<1>5. Stacked'
  BY DEF Stacked
<1>6. ListedAll'
  BY <1>1 DEF ListedAll, On
<1> QED  BY <1>2, <1>3, <1>4, <1>5, <1>6 DEF ConfInv

\* config_init leaves no device and empty lists.
LEMMA ConfInvInit == ConfInit => ConfInv
<1> SUFFICES ASSUME ConfInit  PROVE ConfInv
  OBVIOUS
<1>1. /\ found = {} /\ cf_unit = [i \in Cfs |-> Cfdatas[i].unit] /\ devs = [d \in {} |-> 0]
      /\ lists = [l \in Drivers \cup {AllDevs} |->
                    [next |-> [n \in 0 .. MaxDev |-> n], prev |-> [n \in 0 .. MaxDev |-> n]]]
      /\ attaching = <<>>
  BY DEF ConfInit
<1>2. DOMAIN devs = {} /\ devs \in [DOMAIN devs -> [cf : Cfs, unit : Int, parent : Int]]
  BY <1>1
<1>3. \A i \in Cfs : cf_unit[i] = Cfdatas[i].unit /\ Cfdatas[i].unit \in Nat
  BY <1>1, CfIs
<1>4. cf_unit \in [Cfs -> Int]
  BY <1>1, <1>3
<1>5. ConfTypeOK
  BY <1>1, <1>2, <1>4, EmptySeq DEF ConfTypeOK
<1>6. \A i \in Cfs : UnitsOf(i) = {} /\ Cfdatas[i].unit .. cf_unit[i] - 1 = {} /\ cf_unit[i] >= Cfdatas[i].unit
  BY <1>2, <1>3 DEF UnitsOf
<1>7. Named
  BY <1>2, <1>3, <1>6 DEF Named
<1>8. Placed
  BY <1>2 DEF Placed
<1>9. Stacked
  <2>1. 1 .. Len(attaching) = {}
    BY <1>1
  <2> QED  BY <2>1 DEF Stacked
<1>10. ListedAll
  <2> DEFINE e == [n \in Node |-> n]
  <2>1. e \in [Node -> Node] /\ e[HeadNode] = HeadNode
    BY AutoconfAssumption DEF Node, HeadNode
  <2>2. lists = [l \in Drivers \cup {AllDevs} |-> [next |-> e, prev |-> e]]
    BY <1>1 DEF Node
  <2> HIDE DEF e
  <2>3. \A l \in DOMAIN lists : On(l) = {}
    BY <1>2 DEF On
  <2>4. Ringed({}, e, e)
    BY <2>1, RingNil
  <2> QED  BY <2>1, <2>2, <2>3, <2>4 DEF ListedAll
<1> QED  BY <1>5, <1>7, <1>8, <1>9, <1>10 DEF ConfInv

\* configure makes the main bus.
LEMMA ConfigureKeeps ==
  ASSUME ConfInv, Configure  PROVE ConfInv'
<1>1. config = "boot" /\ config' = "run"
  BY DEF Configure
<1>2. DOMAIN devs = {} /\ attaching = <<>> /\ found = {}
  BY <1>1 DEF ConfInv, ConfTypeOK
<1>3. PICK d \in NewAddr : Begin(<<>>, create_device(Conf, d, 1, NoParent), d)
  BY DEF Configure
<1>4. d \in Dev /\ d \notin DOMAIN devs
  BY <1>3 DEF NewAddr
<1>5. 1 \in Cfs
  BY AutoconfAssumption
<1>6. PICK n \in Places(1) : attaching' = Append(<<>>, [dev |-> d, begun |-> FALSE, left |-> n])
  BY <1>3, BeginIs
<1>7. n \in Int
  BY <1>5, PlacesAre
<1>8. /\ found' = IF Cfdatas[1].dynamic THEN found ELSE found \cup {1}
      /\ cf_unit' = UpBy(1, 1) /\ devs' = WithDev(d, 1, NoParent) /\ lists' = Enlisted(d, 1) /\ destroyed' = destroyed
  BY <1>3, BeginIs
<1> DEFINE st == <<>>
<1>9. st \in Seq(Frame) /\ Len(st) = 0 /\ 1 .. Len(st) = {}
  OBVIOUS
<1>10. attaching' = Append(st, [dev |-> d, begun |-> FALSE, left |-> n])
  BY <1>6
<1>11. NoParent \in Int /\ 1 \notin found /\ config' # "boot"
  BY <1>1, <1>2 DEF NoParent
<1> HIDE DEF st
<1> QED  BY <1>4, <1>5, <1>7, <1>8, <1>9, <1>10, <1>11, MadeKeeps

\* A device below the one whose attach function runs.
LEMMA BelowKeeps ==
  ASSUME ConfInv, attaching # <<>>, NEW i \in Below, NEW d \in NewAddr, config' = "run",
         Begin(Turn, create_device(Conf, d, i, Top.dev), d)
  PROVE  ConfInv'
<1>1. ConfTypeOK /\ Stacked
  BY DEF ConfInv
<1>2. i \in Cfs /\ Cfdatas[i].parent = TopCf /\ i \notin found
  BY DEF Below
<1>3. d \in Dev /\ d \notin DOMAIN devs
  BY DEF NewAddr
<1>4. Top.dev \in DOMAIN devs /\ TopCf \in Cfs /\ TopCf = devs[Top.dev].cf /\ Top.dev \in Int
  <2>1. Top.dev \in DOMAIN devs /\ TopCf \in Cfs /\ TopCf = devs[Top.dev].cf
    BY <1>1, TopIs
  <2>2. DOMAIN devs \subseteq Dev
    BY <1>1 DEF ConfTypeOK
  <2>3. \A x \in Dev : x \in Int
    BY DEF Dev
  <2> QED  BY <2>1, <2>2, <2>3
<1>5. i # 1
  <2>1. TopCf # NoParent
    BY <1>4, CfIs DEF Cfs, NoParent
  <2> QED  BY <1>2, <2>1, AutoconfAssumption
<1>6. PICK n \in Places(i) : attaching' = Append(Turn, [dev |-> d, begun |-> FALSE, left |-> n])
  BY BeginIs
<1>7. n \in Int
  BY <1>2, PlacesAre
<1>8. /\ found' = IF Cfdatas[i].dynamic THEN found ELSE found \cup {i}
      /\ cf_unit' = UpBy(i, 1) /\ devs' = WithDev(d, i, Top.dev) /\ lists' = Enlisted(d, i) /\ destroyed' = destroyed
  BY BeginIs
<1>9. /\ Turn \in Seq(Frame) /\ \A k \in 1 .. Len(Turn) : Turn[k].begun /\ Turn[k].dev \in DOMAIN devs
      /\ \A j, k \in 1 .. Len(Turn) : Turn[j].dev = Turn[k].dev => j = k
  BY <1>1, TurnIs
<1> DEFINE p == Top.dev
           st == Turn
<1>10. IF i = 1 THEN p = NoParent ELSE p \in DOMAIN devs /\ devs[p].cf = Cfdatas[i].parent
  BY <1>2, <1>4, <1>5
<1>11. /\ p \in Int /\ attaching' = Append(st, [dev |-> d, begun |-> FALSE, left |-> n]) /\ devs' = WithDev(d, i, p)
       /\ st \in Seq(Frame) /\ \A k \in 1 .. Len(st) : st[k].begun /\ st[k].dev \in DOMAIN devs
       /\ \A j, k \in 1 .. Len(st) : st[j].dev = st[k].dev => j = k
  BY <1>4, <1>6, <1>8, <1>9
<1> HIDE DEF p, st
<1>12. config' # "boot"
  OBVIOUS
<1> QED  BY <1>2, <1>3, <1>7, <1>8, <1>10, <1>11, <1>12, MadeKeeps

\* A place at which nothing is attached.
LEMMA IdleKeeps ==
  ASSUME ConfInv, attaching # <<>>, attaching' = Turn, found' = found, cf_unit' = cf_unit, devs' = devs,
         config' # "boot", destroyed' = TRUE \/ (destroyed' = destroyed /\ lists' = lists)
  PROVE  ConfInv'
<1>1. ConfTypeOK /\ Stacked
  BY DEF ConfInv
<1>2. /\ Turn \in Seq(Frame) /\ \A k \in 1 .. Len(Turn) : Turn[k].begun /\ Turn[k].dev \in DOMAIN devs
      /\ \A j, k \in 1 .. Len(Turn) : Turn[j].dev = Turn[k].dev => j = k
  BY <1>1, TurnIs
<1>3. /\ attaching' \in Seq(Frame) /\ \A k \in 1 .. Len(attaching') : attaching'[k].begun /\ attaching'[k].dev \in DOMAIN devs
      /\ \A j, k \in 1 .. Len(attaching') : attaching'[j].dev = attaching'[k].dev => j = k
  BY <1>2
<1> QED  BY <1>3, StackKeeps

\* What is left when the attach function that runs returns.
LEMMA PopIs ==
  ASSUME ConfTypeOK, Stacked, attaching # <<>>
  PROVE  LET rest == SubSeq(attaching, 1, Len(attaching) - 1)
         IN  /\ rest \in Seq(Frame) /\ Len(rest) = Len(attaching) - 1
             /\ \A k \in 1 .. Len(rest) : /\ rest[k] = attaching[k] /\ rest[k].begun
                                          /\ rest[k].dev \in DOMAIN devs /\ rest[k].dev # Top.dev
             /\ \A j, k \in 1 .. Len(rest) : rest[j].dev = rest[k].dev => j = k
<1> DEFINE L == Len(attaching)
           rest == SubSeq(attaching, 1, L - 1)
<1>1. L \in 1 .. L /\ L \in Nat \ {0}
  BY TopIs
<1>2. attaching \in Seq(Frame)
  BY DEF ConfTypeOK, Frame
<1>3. \A k \in 1 .. L - 1 : k \in 1 .. L /\ k # L /\ attaching[k] \in Frame
  BY <1>1, <1>2, ElementOfSeq
<1>4. /\ rest \in Seq(Frame) /\ Len(rest) = L - 1 /\ \A k \in 1 .. L - 1 : rest[k] = attaching[k]
  <2> HIDE DEF L
  <2>1. 1 \in Int /\ L - 1 \in Int /\ (L - 1) - 1 + 1 = L - 1
    BY <1>1
  <2>2. /\ rest \in Seq(Frame) /\ Len(rest) = IF 1 <= L - 1 THEN (L - 1) - 1 + 1 ELSE 0
        /\ \A k \in 1 .. (L - 1) - 1 + 1 : rest[k] = attaching[1 + k - 1]
    BY <1>3, <2>1, SubSeqProperties
  <2>3. Len(rest) = L - 1
    BY <1>1, <2>2
  <2>4. \A k \in 1 .. L - 1 : 1 + k - 1 = k
    BY <1>1
  <2> HIDE DEF rest
  <2> QED  BY <2>1, <2>2, <2>3, <2>4
<1>5. /\ \A k \in 1 .. L : attaching[k].dev \in DOMAIN devs /\ (k # L => attaching[k].begun)
      /\ \A j, k \in 1 .. L : attaching[j].dev = attaching[k].dev => j = k
  BY DEF Stacked
<1>6. Top = attaching[L]
  BY DEF Top
<1> HIDE DEF rest, L
<1>7. \A k \in 1 .. L - 1 : rest[k].begun /\ rest[k].dev \in DOMAIN devs /\ rest[k].dev # Top.dev
  BY <1>1, <1>3, <1>4, <1>5, <1>6
<1>8. \A j, k \in 1 .. L - 1 : rest[j].dev = rest[k].dev => j = k
  BY <1>3, <1>4, <1>5
<1> QED  BY <1>4, <1>7, <1>8 DEF L, rest

\* An attach function returns, and the device stays.
LEMMA ReturnKeeps ==
  ASSUME ConfInv, Return  PROVE ConfInv'
<1>1. ConfTypeOK /\ Stacked
  BY DEF ConfInv
<1>2. /\ config = "run" /\ attaching # <<>> /\ attaching' = SubSeq(attaching, 1, Len(attaching) - 1)
      /\ config' = IF Len(attaching) = 1 THEN "done" ELSE config
      /\ found' = found /\ cf_unit' = cf_unit /\ devs' = devs /\ lists' = lists /\ destroyed' = destroyed
  BY DEF Return
<1>3. config' # "boot"
  BY <1>2
<1>4. /\ attaching' \in Seq(Frame) /\ \A k \in 1 .. Len(attaching') : attaching'[k].begun /\ attaching'[k].dev \in DOMAIN devs
      /\ \A j, k \in 1 .. Len(attaching') : attaching'[j].dev = attaching'[k].dev => j = k
  BY <1>1, <1>2, PopIs
<1> QED  BY <1>2, <1>3, <1>4, StackKeeps

\* A device whose attach function fails is the last one of its entry, and no
\* other lies below it.
LEMMA AttachFailsKeeps ==
  ASSUME ConfInv, AttachFails  PROVE ConfInv'
<1>1. ConfTypeOK /\ Stacked /\ Named /\ Placed
  BY DEF ConfInv
<1>d. PICK d : d = Top.dev
  OBVIOUS
<1>i. PICK i : i = devs[d].cf
  OBVIOUS
<1> DEFINE e == destroy_device(Conf, d)
<1>2. /\ config = "run" /\ Len(attaching) > 2 /\ ~Top.begun /\ config' = config
      /\ attaching' = SubSeq(attaching, 1, Len(attaching) - 1) /\ Becomes(e)
  BY <1>d DEF AttachFails
<1>3. attaching # <<>>
  BY <1>2
<1>4. d \in DOMAIN devs /\ i \in Cfs /\ Len(attaching) \in 1 .. Len(attaching)
  <2>1. TopCf = devs[Top.dev].cf /\ TopCf \in Cfs /\ Top.dev \in DOMAIN devs /\ Len(attaching) \in 1 .. Len(attaching)
    BY <1>1, <1>3, TopIs
  <2> QED  BY <1>d, <1>i, <2>1
<1>5. /\ e.found = found /\ e.destroyed = TRUE
      /\ e.devs = [x \in DOMAIN devs \ {d} |-> devs[x]]
      /\ e.unit = IF Cfdatas[i].dynamic THEN [cf_unit EXCEPT ![i] = @ - 1] ELSE cf_unit
  <2>1. Conf.found = found /\ Conf.unit = cf_unit /\ Conf.devs = devs /\ Conf.lists = lists /\ Conf.destroyed = destroyed
    BY DEF Conf
  <2>2. DOMAIN Conf = {"found", "unit", "devs", "lists", "destroyed"}
    BY DEF Conf
  <2> QED  BY <1>i, <2>1, <2>2 DEF destroy_device
<1> HIDE DEF e
<1>6. found' = e.found /\ cf_unit' = e.unit /\ devs' = e.devs /\ destroyed' = e.destroyed
  BY <1>2 DEF Becomes
<1>7. /\ found' = found /\ destroyed' = TRUE
      /\ DOMAIN devs' = DOMAIN devs \ {d} /\ devs' = [x \in DOMAIN devs' |-> devs'[x]] /\ \A x \in DOMAIN devs' : devs'[x] = devs[x] /\ x \in DOMAIN devs /\ x # d
  <2> QED  BY <1>5, <1>6
<1>8. /\ found \subseteq Cfs /\ cf_unit \in [Cfs -> Int] /\ DOMAIN devs \subseteq Dev
      /\ devs \in [DOMAIN devs -> [cf : Cfs, unit : Int, parent : Int]]
  BY <1>1 DEF ConfTypeOK
<1>9. cf_unit' = IF Cfdatas[i].dynamic THEN [cf_unit EXCEPT ![i] = @ - 1] ELSE cf_unit
  BY <1>5, <1>6
<1>10. /\ \A x \in DOMAIN devs : devs[x].parent # d
       /\ Cfdatas[i].dynamic => devs[d].unit = cf_unit[i] - 1
  <2>1. attaching[Len(attaching)] = Top
    BY DEF Top
  <2> QED  BY <1>1, <1>2, <1>4, <1>d, <1>i, <2>1 DEF Stacked
<1>11. /\ cf_unit' \in [Cfs -> Int] /\ \A j \in Cfs : j # i => cf_unit'[j] = cf_unit[j]
       /\ cf_unit'[i] = IF Cfdatas[i].dynamic THEN cf_unit[i] - 1 ELSE cf_unit[i]
  BY <1>4, <1>8, <1>9
<1>12. /\ attaching' \in Seq(Frame)
       /\ \A k \in 1 .. Len(attaching') : attaching'[k].begun /\ attaching'[k].dev \in DOMAIN devs /\ attaching'[k].dev # d
       /\ \A j, k \in 1 .. Len(attaching') : attaching'[j].dev = attaching'[k].dev => j = k
  BY <1>1, <1>2, <1>3, <1>d, PopIs
<1>13. ConfTypeOK'
  <2>1. \A x \in DOMAIN devs' : devs'[x] \in [cf : Cfs, unit : Int, parent : Int]
    BY <1>7, <1>8
  <2>2. devs' \in [DOMAIN devs' -> [cf : Cfs, unit : Int, parent : Int]] /\ DOMAIN devs' \subseteq Dev
    BY <1>7, <1>8, <2>1
  <2>3. config' # "boot"
    BY <1>2
  <2> QED  BY <1>7, <1>8, <1>11, <1>12, <2>2, <2>3 DEF ConfTypeOK, Frame
<1>14. /\ \A x, y \in DOMAIN devs : devs[x].cf = devs[y].cf /\ devs[x].unit = devs[y].unit => x = y
       /\ \A x \in DOMAIN devs : ~Cfdatas[devs[x].cf].dynamic =>
             devs[x].cf \in found /\ devs[x].unit = Cfdatas[devs[x].cf].unit
       /\ \A j \in Cfs : IF Cfdatas[j].dynamic
                         THEN cf_unit[j] >= Cfdatas[j].unit /\ UnitsOf(j) = Cfdatas[j].unit .. cf_unit[j] - 1
                         ELSE cf_unit[j] = Cfdatas[j].unit
  BY <1>1 DEF Named
<1>15. Named'
  <2>1. \A x, y \in DOMAIN devs' : devs'[x].cf = devs'[y].cf /\ devs'[x].unit = devs'[y].unit => x = y
    BY <1>7, <1>14
  <2>2. \A x \in DOMAIN devs' : ~Cfdatas[devs'[x].cf].dynamic =>
             devs'[x].cf \in found' /\ devs'[x].unit = Cfdatas[devs'[x].cf].unit
    BY <1>7, <1>14
  <2>3. ASSUME NEW j \in Cfs
        PROVE  IF Cfdatas[j].dynamic THEN cf_unit'[j] >= Cfdatas[j].unit /\ UnitsOf(j)' = Cfdatas[j].unit .. cf_unit'[j] - 1
               ELSE cf_unit'[j] = Cfdatas[j].unit
    <3>1. CASE ~Cfdatas[j].dynamic
      BY <1>11, <1>14, <3>1
    <3>2. CASE Cfdatas[j].dynamic /\ j # i
      <4>1. UnitsOf(j)' = UnitsOf(j)
        BY <1>7, <1>i, <3>2 DEF UnitsOf
      <4> QED  BY <1>11, <1>14, <3>2, <4>1
    <3>3. CASE Cfdatas[j].dynamic /\ j = i
      <4>1. cf_unit[i] \in Int /\ Cfdatas[i].unit \in Nat /\ UnitsOf(i) = Cfdatas[i].unit .. cf_unit[i] - 1
        BY <1>8, <1>14, <3>3, CfIs
      <4>2. devs[d].unit = cf_unit[i] - 1 /\ devs[d].cf = i
        BY <1>10, <1>i, <3>3
      <4>3. UnitsOf(i)' = UnitsOf(i) \ {cf_unit[i] - 1}
        <5>1. ASSUME NEW u \in UnitsOf(i)'  PROVE u \in UnitsOf(i) /\ u # cf_unit[i] - 1
          <6>1. PICK x \in DOMAIN devs' : devs'[x].cf = i /\ u = devs'[x].unit
            BY DEF UnitsOf
          <6>2. x \in DOMAIN devs /\ x # d /\ devs[x].cf = i /\ u = devs[x].unit
            BY <1>7, <6>1
          <6> QED  BY <1>4, <1>14, <4>2, <6>2 DEF UnitsOf
        <5>2. ASSUME NEW u \in UnitsOf(i), u # cf_unit[i] - 1  PROVE u \in UnitsOf(i)'
          <6>1. PICK x \in DOMAIN devs : devs[x].cf = i /\ u = devs[x].unit
            BY DEF UnitsOf
          <6>2. x # d
            BY <4>2, <5>2, <6>1
          <6>3. x \in DOMAIN devs' /\ devs'[x] = devs[x]
            BY <1>7, <6>2
          <6> QED  BY <6>1, <6>3 DEF UnitsOf
        <5> QED  BY <5>1, <5>2
      <4>4. cf_unit[i] - 1 \in UnitsOf(i)
        BY <1>4, <4>2 DEF UnitsOf
      <4>5. /\ cf_unit[i] - 1 >= Cfdatas[i].unit
            /\ (Cfdatas[i].unit .. cf_unit[i] - 1) \ {cf_unit[i] - 1} = Cfdatas[i].unit .. (cf_unit[i] - 1) - 1
        BY <4>1, <4>4
      <4> QED  BY <1>11, <3>3, <4>1, <4>3, <4>5
    <3> QED  BY <3>1, <3>2, <3>3
  <2> QED  BY <2>1, <2>2, <2>3 DEF Named
<1>16. Placed'
  <2>1. ASSUME NEW x \in DOMAIN devs'
        PROVE  IF devs'[x].cf = 1 THEN devs'[x].parent = NoParent
               ELSE devs'[x].parent \in DOMAIN devs' /\ devs'[devs'[x].parent].cf = Cfdatas[devs'[x].cf].parent
    <3>1. x \in DOMAIN devs /\ devs'[x] = devs[x] /\ devs[x].parent # d
      BY <1>7, <1>10
    <3>2. CASE devs[x].cf = 1
      BY <1>1, <3>1, <3>2 DEF Placed
    <3>3. CASE devs[x].cf # 1
      <4>1. devs[x].parent \in DOMAIN devs /\ devs[devs[x].parent].cf = Cfdatas[devs[x].cf].parent
        BY <1>1, <3>1, <3>3 DEF Placed
      <4>2. devs[x].parent \in DOMAIN devs'
        BY <1>7, <3>1, <4>1
      <4> QED  BY <1>7, <3>1, <3>3, <4>1, <4>2
    <3> QED  BY <3>2, <3>3
  <2> QED  BY <2>1 DEF Placed
<1>17. Stacked'
  <2>1. \A k \in 1 .. Len(attaching') : attaching'[k].begun /\ attaching'[k].dev \in DOMAIN devs'
    BY <1>7, <1>12
  <2> QED  BY <1>12, <2>1 DEF Stacked
<1>18. ListedAll'
  BY <1>7 DEF ListedAll
<1> QED  BY <1>13, <1>15, <1>16, <1>17, <1>18 DEF ConfInv

\* Every step of the configuration keeps the invariant.
LEMMA ConfInvNext == ConfInv /\ [ConfNext]_confvars => ConfInv'
<1> SUFFICES ASSUME ConfInv, [ConfNext]_confvars  PROVE ConfInv'
  OBVIOUS
<1>1. ConfTypeOK /\ Stacked
  BY DEF ConfInv
<1>2. ASSUME ConfigureFails  PROVE ConfInv'
  <2>1. /\ config = "boot" /\ config' = "panic" /\ found' = found /\ cf_unit' = cf_unit /\ devs' = devs /\ lists' = lists
        /\ attaching' = attaching /\ destroyed' = destroyed
    BY <1>2 DEF ConfigureFails
  <2>2. Named' /\ Placed'
    BY <2>1 DEF ConfInv, Named, UnitsOf, Placed
  <2>3. ConfTypeOK' /\ Stacked'
    BY <2>1 DEF ConfInv, ConfTypeOK, Stacked
  <2>4. ListedAll'
    BY <2>1 DEF ConfInv, ListedAll, On
  <2> QED  BY <2>2, <2>3, <2>4 DEF ConfInv
<1>3. ASSUME ConfigFound  PROVE ConfInv'
  <2>1. config = "run" /\ attaching # <<>> /\ config' = config
    BY <1>3 DEF ConfigFound
  <2>2. PICK pri \in [Below -> 0 .. 2] :
          \/ attaching' = Turn /\ UNCHANGED <<found, cf_unit, devs, lists, destroyed>>
          \/ \E i \in Best(pri), d \in NewAddr : Begin(Turn, create_device(Conf, d, i, Top.dev), d)
    BY <1>3 DEF ConfigFound
  <2>3. ASSUME attaching' = Turn, UNCHANGED <<found, cf_unit, devs, lists, destroyed>>  PROVE ConfInv'
    <3>1. found' = found /\ cf_unit' = cf_unit /\ devs' = devs /\ lists' = lists /\ destroyed' = destroyed /\ config' # "boot"
      BY <2>1, <2>3
    <3> QED  BY <2>1, <2>3, <3>1, IdleKeeps
  <2>4. ASSUME NEW i \in Best(pri), NEW d \in NewAddr, Begin(Turn, create_device(Conf, d, i, Top.dev), d)  PROVE ConfInv'
    <3>1. i \in Below
      BY DEF Best
    <3> QED  BY <2>1, <2>4, <3>1, BelowKeeps
  <2> QED  BY <2>2, <2>3, <2>4
<1>4. ASSUME ConfigScan  PROVE ConfInv'
  <2> DEFINE i == Len(Cfdatas) + 1 - Top.left
  <2>1. config = "run" /\ attaching # <<>> /\ config' = config
    BY <1>4 DEF ConfigScan
  <2>2. \/ attaching' = Turn /\ UNCHANGED <<found, cf_unit, devs, lists, destroyed>>
        \/ \E d \in NewAddr : i \in Below /\ localbus_scan(Turn, create_device(Conf, d, i, Top.dev), d)
    BY <1>4 DEF ConfigScan
  <2> HIDE DEF i
  <2>3. ASSUME attaching' = Turn, UNCHANGED <<found, cf_unit, devs, lists, destroyed>>  PROVE ConfInv'
    <3>1. found' = found /\ cf_unit' = cf_unit /\ devs' = devs /\ lists' = lists /\ destroyed' = destroyed /\ config' # "boot"
      BY <2>1, <2>3
    <3> QED  BY <2>1, <2>3, <3>1, IdleKeeps
  <2>4. ASSUME NEW d \in NewAddr, i \in Below, localbus_scan(Turn, create_device(Conf, d, i, Top.dev), d)  PROVE ConfInv'
    <3>1. CASE Begin(Turn, create_device(Conf, d, i, Top.dev), d)
      BY <2>1, <2>4, <3>1, BelowKeeps
    <3>2. CASE attaching' = Turn /\ Becomes(destroy_device(create_device(Conf, d, i, Top.dev), d))
      <4>1. i \in Cfs /\ d \notin DOMAIN devs
        BY <2>4 DEF Below, NewAddr
      <4>2. found' = found /\ cf_unit' = cf_unit /\ devs' = devs /\ destroyed' = TRUE
        BY <1>1, <3>2, <4>1, UndoIs
      <4>3. config' # "boot"
        BY <2>1
      <4> QED  BY <2>1, <3>2, <4>2, <4>3, IdleKeeps
    <3> QED  BY <2>4, <3>1, <3>2 DEF localbus_scan
  <2> QED  BY <2>2, <2>3, <2>4
<1>5. ASSUME UNCHANGED confvars  PROVE ConfInv'
  <2>1. /\ config' = config /\ found' = found /\ cf_unit' = cf_unit /\ devs' = devs /\ lists' = lists
        /\ attaching' = attaching /\ destroyed' = destroyed
    BY <1>5 DEF confvars
  <2>2. Named' /\ Placed'
    BY <2>1 DEF ConfInv, Named, UnitsOf, Placed
  <2>3. ConfTypeOK' /\ Stacked'
    BY <2>1 DEF ConfInv, ConfTypeOK, Stacked
  <2>4. ListedAll'
    BY <2>1 DEF ConfInv, ListedAll, On
  <2> QED  BY <2>2, <2>3, <2>4 DEF ConfInv
<1> QED  BY <1>2, <1>3, <1>4, <1>5, ConfigureKeeps, ReturnKeeps, AttachFailsKeeps DEF ConfNext

\* The invariant says all that is promised of names, parents, units and lists.
LEMMA ConfInvRight == ConfInv => DevicesRight
<1> SUFFICES ASSUME ConfInv  PROVE DevicesRight
  OBVIOUS
<1>1. ConfTypeOK /\ Named /\ Placed /\ ListedAll
  BY DEF ConfInv
<1>2. \A d \in DOMAIN devs : devs[d].cf \in Cfs /\ devs[d].unit \in Int
  BY <1>1 DEF ConfTypeOK
<1>3. /\ \A x, y \in DOMAIN devs : devs[x].cf = devs[y].cf /\ devs[x].unit = devs[y].unit => x = y
      /\ \A x \in DOMAIN devs : ~Cfdatas[devs[x].cf].dynamic => devs[x].unit = Cfdatas[devs[x].cf].unit
      /\ \A i \in Cfs : Cfdatas[i].dynamic => UnitsOf(i) = Cfdatas[i].unit .. cf_unit[i] - 1
  BY <1>1 DEF Named
<1>4. \A d \in DOMAIN devs : devs[d].unit >= Cfdatas[devs[d].cf].unit
  <2> SUFFICES ASSUME NEW d \in DOMAIN devs  PROVE devs[d].unit >= Cfdatas[devs[d].cf].unit
    OBVIOUS
  <2> DEFINE i == devs[d].cf
  <2>1. i \in Cfs /\ Cfdatas[i].unit \in Nat /\ cf_unit[i] \in Int
    BY <1>1, <1>2, CfIs DEF ConfTypeOK
  <2>2. CASE Cfdatas[i].dynamic
    <3>1. devs[d].unit \in UnitsOf(i)
      BY DEF UnitsOf
    <3>2. devs[d].unit \in Cfdatas[i].unit .. cf_unit[i] - 1
      BY <1>3, <2>1, <2>2, <3>1
    <3> HIDE DEF i
    <3>3. devs[d].unit >= Cfdatas[i].unit
      BY <2>1, <3>2
    <3> QED  BY <3>3 DEF i
  <2>3. CASE ~Cfdatas[i].dynamic
    BY <1>3, <2>1, <2>3
  <2> QED  BY <2>2, <2>3
<1>5. ASSUME NEW d \in DOMAIN devs, NEW e \in DOMAIN devs, d # e
      PROVE  <<Cfdatas[devs[d].cf].driver, devs[d].unit>> # <<Cfdatas[devs[e].cf].driver, devs[e].unit>>
  <2> DEFINE i == devs[d].cf
             j == devs[e].cf
  <2> SUFFICES ASSUME Cfdatas[i].driver = Cfdatas[j].driver, devs[d].unit = devs[e].unit  PROVE FALSE
    OBVIOUS
  <2>1. i \in Cfs /\ j \in Cfs /\ Cfdatas[i].unit \in Nat /\ Cfdatas[j].unit \in Nat
    BY <1>2, CfIs
  <2>2. i # j
    BY <1>3, <1>5
  <2>3. /\ Cfdatas[i].unit # Cfdatas[j].unit
        /\ Cfdatas[i].dynamic => Cfdatas[j].unit < Cfdatas[i].unit
        /\ Cfdatas[j].dynamic => Cfdatas[i].unit < Cfdatas[j].unit
    <3> HIDE DEF i, j
    <3> QED  BY <2>1, <2>2, AutoconfAssumption
  <2>4. devs[d].unit >= Cfdatas[i].unit /\ devs[e].unit >= Cfdatas[j].unit /\ devs[d].unit \in Int
    BY <1>2, <1>4
  <2>5. (~Cfdatas[i].dynamic => devs[d].unit = Cfdatas[i].unit) /\ (~Cfdatas[j].dynamic => devs[e].unit = Cfdatas[j].unit)
    BY <1>3
  <2> HIDE DEF i, j
  <2> QED  BY <2>1, <2>3, <2>4, <2>5
<1>6. ASSUME NEW d \in DOMAIN devs
      PROVE  /\ devs[d].cf # 1 => devs[d].parent \in DOMAIN devs /\ devs[devs[d].parent].cf = Cfdatas[devs[d].cf].parent
             /\ \A e \in DOMAIN devs : devs[e].cf = devs[d].cf /\ e # d => Cfdatas[devs[d].cf].dynamic
  BY <1>1, <1>3 DEF Placed
<1>7. \A i \in Cfs : Cfdatas[i].dynamic =>
        {devs[d].unit : d \in {e \in DOMAIN devs : devs[e].cf = i}} = Cfdatas[i].unit .. cf_unit[i] - 1
  BY <1>3 DEF UnitsOf
<1>8. ASSUME ~destroyed, NEW l \in DOMAIN lists
      PROVE  LET on == {d \in DOMAIN devs : l \in {AllDevs, Cfdatas[devs[d].cf].driver}}
                 fw == Walk(lists[l].next)
                 bw == Walk(lists[l].prev)
                 n  == Cardinality(on)
             IN  /\ {fw[k] : k \in 1 .. n} = on /\ {bw[k] : k \in 1 .. n} = on
                 /\ lists[l].next[fw[n]] = HeadNode /\ lists[l].prev[bw[n]] = HeadNode
  <2> DEFINE S == On(l)
             nx == lists[l].next
             pv == lists[l].prev
  <2>1. Ringed(S, nx, pv)
    BY <1>1, <1>8 DEF ListedAll
  <2> HIDE DEF S, nx, pv
  <2>2. Round(S, nx) /\ Round(S, pv)
    BY <2>1, RingBoth
  <2>3. {Walk(nx)[k] : k \in 1 .. Cardinality(S)} = S /\ nx[Walk(nx)[Cardinality(S)]] = HeadNode
    BY <2>2, RoundWalk
  <2>4. {Walk(pv)[k] : k \in 1 .. Cardinality(S)} = S /\ pv[Walk(pv)[Cardinality(S)]] = HeadNode
    BY <2>2, RoundWalk
  <2> QED  BY <2>3, <2>4 DEF S, nx, pv, On
<1> QED  BY <1>5, <1>6, <1>7, <1>8 DEF DevicesRight

\* Device configuration is right in every reachable state, for every table of
\* the assumed form: however matches, attach functions and allocations fail,
\* names are unique, parents are there, units are dense, and until a device is
\* destroyed both lists lead through exactly the devices there are
\* (config_attach, create_device, destroy_device).
THEOREM DevicesAlwaysRight == ConfSpec => []DevicesRight
<1>1. ConfSpec => []ConfInv
  BY ConfInvInit, ConfInvNext, PTL DEF ConfSpec
<1> QED  BY <1>1, ConfInvRight, PTL

-----------------------------------------------------------------------------
(* Recursion over the numbers up to N.                                     *)

\* What holds of 0, and of a number whenever of the one before, holds of all.
LEMMA Upto ==
  ASSUME NEW N \in Nat, NEW P \in SUBSET (0 .. N), 0 \in P, \A i \in 1 .. N : i - 1 \in P => i \in P
  PROVE  \A i \in 0 .. N : i \in P
<1> DEFINE Bad == (0 .. N) \ P
<1> SUFFICES ASSUME Bad # {}  PROVE FALSE
  OBVIOUS
<1>1. Bad \in SUBSET Nat
  OBVIOUS
<1>2. PICK k \in Bad : \A j \in Bad : k <= j
  <2> HIDE DEF Bad
  <2> QED  BY <1>1, LeastNat
<1>3. k \in 0 .. N /\ k \notin P /\ k # 0
  BY <1>2
<1>4. k \in 1 .. N /\ k - 1 \in 0 .. N /\ ~(k <= k - 1)
  BY <1>3
<1>5. k - 1 \notin Bad
  BY <1>2, <1>4
<1> QED  BY <1>3, <1>4, <1>5

\* f goes from b up to N by the steps g.
Goes(f, N, S, b, g) ==
  f \in [0 .. N -> S] /\ f[0] = b /\ \A i \in 1 .. N : f[i] = g[<<f[i - 1], i>>]

\* Whatever step g gives the next value, there is a function that takes it
\* from 0 up to N.
LEMMA Unrolled ==
  ASSUME NEW N \in Nat, NEW S, NEW b \in S, NEW g \in [S \X (1 .. N) -> S]
  PROVE  \E f : Goes(f, N, S, b, g)
<1> DEFINE Up(n, f) == f[0] = b /\ \A i \in 1 .. n : f[i] = g[<<f[i - 1], i>>]
           P == {n \in 0 .. N : \E f \in [0 .. n -> S] : Up(n, f)}
<1>1. 0 \in P
  <2> DEFINE f == [i \in 0 .. 0 |-> b]
  <2>1. f \in [0 .. 0 -> S] /\ f[0] = b /\ 1 .. 0 = {}
    OBVIOUS
  <2> HIDE DEF f
  <2>2. Up(0, f)
    BY <2>1
  <2> HIDE DEF Up
  <2> QED  BY <2>1, <2>2
<1>2. ASSUME NEW n \in 1 .. N, n - 1 \in P  PROVE n \in P
  <2>1. PICK f \in [0 .. n - 1 -> S] : Up(n - 1, f)
    BY <1>2
  <2> DEFINE v == g[<<f[n - 1], n>>]
             h == [i \in 0 .. n |-> IF i = n THEN v ELSE f[i]]
  <2>2. n - 1 \in 0 .. n - 1 /\ n \in 0 .. n /\ \A i \in 0 .. n : i # n => i \in 0 .. n - 1
    OBVIOUS
  <2>3. f[n - 1] \in S
    BY <2>2
  <2>4. v \in S
    BY <2>3
  <2> HIDE DEF v
  <2>5. h \in [0 .. n -> S] /\ h[n] = v /\ \A i \in 0 .. n - 1 : h[i] = f[i]
    BY <2>2, <2>4
  <2> HIDE DEF h
  <2>6. h[0] = b
    BY <2>1, <2>5
  <2>7. ASSUME NEW i \in 1 .. n  PROVE h[i] = g[<<h[i - 1], i>>]
    <3>1. CASE i = n
      BY <2>2, <2>5, <3>1 DEF v
    <3>2. CASE i # n
      <4>1. i \in 1 .. n - 1 /\ i \in 0 .. n - 1 /\ i - 1 \in 0 .. n - 1
        BY <3>2
      <4>2. h[i] = f[i] /\ h[i - 1] = f[i - 1]
        BY <2>5, <4>1
      <4> QED  BY <2>1, <4>1, <4>2
    <3> QED  BY <3>1, <3>2
  <2>8. Up(n, h)
    BY <2>6, <2>7
  <2> HIDE DEF Up
  <2>9. n \in 0 .. N
    OBVIOUS
  <2> QED  BY <2>5, <2>8, <2>9
<1>3. P \in SUBSET (0 .. N)
  OBVIOUS
<1> HIDE DEF P
<1>4. N \in P
  <2>1. N \in 0 .. N
    OBVIOUS
  <2> QED  BY <1>1, <1>2, <1>3, <2>1, Upto
<1> QED  BY <1>4 DEF P, Goes

\* v takes every step that u takes, from the same start.
Alike(u, v, N) == u[0] = v[0] /\ \A i \in 1 .. N : u[i - 1] = v[i - 1] => u[i] = v[i]
Same(u, v, N) == \A i \in 0 .. N : u[i] = v[i]

\* No two functions that take the same steps differ.
LEMMA SameSteps ==
  ASSUME NEW N \in Nat, NEW u, NEW v, Alike(u, v, N)  PROVE Same(u, v, N)
<1> USE DEF Alike, Same
<1> DEFINE P == {i \in 0 .. N : u[i] = v[i]}
<1>1. P \in SUBSET (0 .. N) /\ 0 \in P
  OBVIOUS
<1>2. \A i \in 1 .. N : i - 1 \in P => i \in P
  OBVIOUS
<1>3. \A i \in 0 .. N : i \in P
  <2> HIDE DEF P
  <2> QED  BY <1>1, <1>2, Upto
<1> QED  BY <1>3

-----------------------------------------------------------------------------
(* Terminals: what is where.                                               *)

\* The characters the model tells apart.
Char == {"a", "m-a", "nl", "cr", "bs", "intr", "xon", "xoff", "sp"}

\* A tty_device, the host, a write, and the loop of termio_scandev.
TtyDev == [rx : Seq(Char), tx : Seq(Char), txoff : BOOLEAN, rxoff : BOOLEAN]
HostState == [stopped : BOOLEAN, left : 0 .. Slack]
DevLists == {<<>>, <<1>>, <<2>>, <<1, 2>>, <<2, 1>>}
WriteState == [text : Seq(Char), left : Seq(Char), devs : DevLists, back : {"idle", "read"}]
ScanState == [d : TtyDev, h : HostState, full : BOOLEAN, rest : Seq(Char)]

\* The host was told to stop exactly when rxoff says so; until then the queue
\* is below the level at which it is told, and from then on there is room for
\* what is under way, n bytes in the UART and what the host still sends.
Flow(d, h, n) ==
  /\ h.stopped = d.rxoff
  /\ ~d.rxoff => Len(d.rx) <= QLimit + 1 - Trigger
  /\ d.rxoff => Len(d.rx) + n + h.left <= QLimit

\* The types.
TermType ==
  /\ dev \in [Devs -> TtyDev] /\ host \in HostState
  /\ fifo \in Seq(Char) /\ Len(fifo) <= Fifo
  /\ shown \in [Devs -> Seq(Char)] /\ wr \in WriteState
  /\ doing \in {"idle", "read", "write"}

\* The inductive invariant: both properties; the level of the receive queue;
\* and, for output, that only the device being written to has bytes queued, so
\* that a new text never finds what an earlier one left.
TermInv ==
  /\ TermType /\ Flow(dev[Serial], host, Len(fifo)) /\ InputKept /\ OutputRight
  /\ IF doing = "write" THEN wr.devs # <<>> ELSE wr = NoWrite
  /\ \A d \in Devs : dev[d].tx # <<>> => doing = "write" /\ wr.devs[1] = d

-----------------------------------------------------------------------------
(* The data among the bytes received.                                      *)

\* Stripping the parity bit makes a character of a character.
LEMMA StripChar == \A c \in Char : Strip(c) \in Char
  BY DEF Char, Strip

\* DataIn is what a function gives that takes the bytes one by one.
LEMMA DataSteps ==
  ASSUME NEW q \in Seq(Char)
  PROVE  \E d \in [0 .. Len(q) -> Seq(Char)] :
           /\ DataIn(q) = d[Len(q)] /\ d[0] = <<>>
           /\ \A i \in 1 .. Len(q) :
                d[i] = IF IsData(q[i]) THEN Append(d[i - 1], Strip(q[i])) ELSE d[i - 1]
<1> DEFINE N == Len(q)
           S == Seq(Char)
           Step(e, i) == IF IsData(q[i]) THEN Append(e, Strip(q[i])) ELSE e
           g == [p \in S \X (1 .. N) |-> Step(p[1], p[2])]
           R(d) == d = [i \in 0 .. N |-> IF i = 0 THEN <<>> ELSE Step(d[i - 1], i)]
<1>1. \A e \in S, i \in 1 .. N : Step(e, i) \in S
  BY StripChar
<1> HIDE DEF Step
<1>2. g \in [S \X (1 .. N) -> S] /\ N \in Nat /\ <<>> \in S
  BY <1>1
<1>3. \A e \in S, i \in 1 .. N : g[<<e, i>>] = Step(e, i)
  OBVIOUS
<1> HIDE DEF g, S
<1>13. PICK d : Goes(d, N, S, <<>>, g)
  <2> HIDE DEF N
  <2> QED  BY <1>2, Unrolled
<1>4. d \in [0 .. N -> S] /\ d[0] = <<>> /\ \A i \in 1 .. N : d[i] = g[<<d[i - 1], i>>]
  BY <1>13 DEF Goes
<1>5. \A i \in 1 .. N : i - 1 \in 0 .. N /\ d[i - 1] \in S
  <2> HIDE DEF N
  <2> QED  BY <1>2, <1>4
<1>6. \A i \in 1 .. N : d[i] = Step(d[i - 1], i)
  BY <1>3, <1>4, <1>5
<1>7. R(d)
  <2> HIDE DEF N
  <2> QED  BY <1>2, <1>4, <1>6
<1> DEFINE c == CHOOSE e : R(e)
<1>8. R(c)
  <2> HIDE DEF R
  <2> QED  BY <1>7
<1>9. DataIn(q) = c[N]
  BY DEF DataIn, Step
<1> HIDE DEF c
<1>10. c[0] = <<>> /\ \A i \in 1 .. N : c[i] = Step(c[i - 1], i)
  <2> HIDE DEF N
  <2> QED  BY <1>2, <1>8
<1>11. \A i \in 0 .. N : c[i] = d[i]
  <2> HIDE DEF N
  <2>1. Alike(c, d, N)
    BY <1>4, <1>6, <1>10 DEF Alike
  <2>2. Same(c, d, N)
    BY <1>2, <2>1, SameSteps
  <2> QED  BY <2>2 DEF Same
<1>12. DataIn(q) = d[N]
  <2> HIDE DEF N
  <2> QED BY <1>2, <1>9, <1>11
<1> QED  BY <1>4, <1>6, <1>12 DEF Step, S

\* No bytes, no data.
LEMMA DataNil == DataIn(<<>>) = <<>>
<1>1. <<>> \in Seq(Char) /\ Len(<<>>) = 0
  OBVIOUS
<1> QED  BY <1>1, DataSteps

\* Data is characters.
LEMMA DataType == ASSUME NEW q \in Seq(Char)  PROVE DataIn(q) \in Seq(Char)
<1>1. Len(q) \in 0 .. Len(q)
  OBVIOUS
<1> QED  BY <1>1, DataSteps

\* One byte more: it is added if it is data.
LEMMA DataAppend ==
  ASSUME NEW q \in Seq(Char), NEW c \in Char
  PROVE  DataIn(Append(q, c)) = IF IsData(c) THEN Append(DataIn(q), Strip(c)) ELSE DataIn(q)
<1> DEFINE r == Append(q, c)
           N == Len(q)
<1>1. r \in Seq(Char) /\ Len(r) = N + 1 /\ N \in Nat /\ r[N + 1] = c /\ \A i \in 1 .. N : r[i] = q[i]
  OBVIOUS
<1>2. PICK d : /\ DataIn(q) = d[N] /\ d[0] = <<>>
               /\ \A i \in 1 .. N : d[i] = IF IsData(q[i]) THEN Append(d[i - 1], Strip(q[i])) ELSE d[i - 1]
  BY DataSteps
<1> HIDE DEF r
<1>3. PICK e : /\ DataIn(r) = e[Len(r)] /\ e[0] = <<>>
               /\ \A i \in 1 .. Len(r) : e[i] = IF IsData(r[i]) THEN Append(e[i - 1], Strip(r[i])) ELSE e[i - 1]
  BY <1>1, DataSteps
<1> HIDE DEF N
<1>4. N + 1 \in 1 .. Len(r) /\ N + 1 - 1 = N /\ N \in 0 .. N /\ \A i \in 1 .. N : i \in 1 .. Len(r)
  BY <1>1
<1>5. \A i \in 1 .. N : e[i] = IF IsData(q[i]) THEN Append(e[i - 1], Strip(q[i])) ELSE e[i - 1]
  BY <1>1, <1>3, <1>4
<1>6. Alike(d, e, N)
  BY <1>2, <1>3, <1>5 DEF Alike
<1>7. Same(d, e, N)
  BY <1>1, <1>6, SameSteps
<1>8. d[N] = e[N]
  BY <1>4, <1>7 DEF Same
<1>9. e[N + 1] = IF IsData(c) THEN Append(e[N], Strip(c)) ELSE e[N]
  BY <1>1, <1>3, <1>4
<1>10. DataIn(r) = e[N + 1]
  BY <1>1, <1>3
<1>11. DataIn(r) = IF IsData(c) THEN Append(DataIn(q), Strip(c)) ELSE DataIn(q)
  BY <1>2, <1>8, <1>9, <1>10
<1> QED  BY <1>11 DEF r

-----------------------------------------------------------------------------
(* Text as it is sent.                                                     *)

\* A character is sent as one or two.
LEMMA OutMapType == \A c \in Char : OutMap(c) \in Seq(Char) /\ Len(OutMap(c)) <= 2
<1> TAKE c \in Char
<1>1. "cr" \in Char /\ "nl" \in Char
  BY DEF Char
<1>2. CASE c = "nl"
  <2>1. OutMap(c) = <<"cr", "nl">>
    BY <1>2 DEF OutMap
  <2> QED  BY <1>1, <2>1
<1>3. CASE c # "nl"
  <2>1. OutMap(c) = <<c>>
    BY <1>3 DEF OutMap
  <2> QED  BY <2>1
<1> QED  BY <1>2, <1>3

\* d[i] is what the first i characters of s are sent as.
OutRun(d, s) ==
  /\ d \in [0 .. Len(s) -> Seq(Char)] /\ d[0] = <<>>
  /\ \A i \in 1 .. Len(s) : d[i] = d[i - 1] \o OutMap(s[i])

\* OutText is what a function gives that takes the characters one by one.
LEMMA OutSteps ==
  ASSUME NEW s \in Seq(Char)
  PROVE  \E d : OutRun(d, s) /\ OutText(s) = d[Len(s)]
<1> DEFINE N == Len(s)
           S == Seq(Char)
           Step(e, i) == e \o OutMap(s[i])
           g == [p \in S \X (1 .. N) |-> Step(p[1], p[2])]
           R(d) == d = [i \in 0 .. N |-> IF i = 0 THEN <<>> ELSE Step(d[i - 1], i)]
<1>1. \A e \in S, i \in 1 .. N : Step(e, i) \in S
  <2> SUFFICES ASSUME NEW e \in S, NEW i \in 1 .. N  PROVE Step(e, i) \in S
    OBVIOUS
  <2>1. s[i] \in Char
    OBVIOUS
  <2>2. OutMap(s[i]) \in Seq(Char)
    BY <2>1, OutMapType
  <2> QED  BY <2>2, ConcatProperties
<1> HIDE DEF Step
<1>2. g \in [S \X (1 .. N) -> S] /\ N \in Nat /\ <<>> \in S
  BY <1>1
<1>3. \A e \in S, i \in 1 .. N : g[<<e, i>>] = Step(e, i)
  OBVIOUS
<1> HIDE DEF g, S
<1>4. PICK d : Goes(d, N, S, <<>>, g)
  <2> HIDE DEF N
  <2> QED  BY <1>2, Unrolled
<1>5. d \in [0 .. N -> S] /\ d[0] = <<>> /\ \A i \in 1 .. N : d[i] = g[<<d[i - 1], i>>]
  BY <1>4 DEF Goes
<1> DEFINE c == CHOOSE e : R(e)
<1>6. OutText(s) = c[N]
  BY DEF OutText, Step
<1>7. \A i \in 1 .. N : d[i] = Step(d[i - 1], i)
  <2> HIDE DEF N
  <2>1. \A i \in 1 .. N : i - 1 \in 0 .. N /\ d[i - 1] \in S
    BY <1>2, <1>5
  <2> QED  BY <1>3, <1>5, <2>1
<1>8. R(d)
  <2> HIDE DEF N
  <2> QED  BY <1>2, <1>5, <1>7
<1>9. R(c)
  <2> HIDE DEF R
  <2> QED  BY <1>8
<1> HIDE DEF c
<1>10. c[0] = <<>> /\ \A i \in 1 .. N : c[i] = Step(c[i - 1], i)
  <2> HIDE DEF N
  <2> QED  BY <1>2, <1>9
<1>11. c[N] = d[N]
  <2> HIDE DEF N
  <2>1. Alike(c, d, N)
    BY <1>5, <1>7, <1>10 DEF Alike
  <2>2. Same(c, d, N)
    BY <1>2, <2>1, SameSteps
  <2> QED  BY <1>2, <2>2 DEF Same
<1>12. OutRun(d, s)
  BY <1>5, <1>7 DEF Step, S, OutRun
<1> QED  BY <1>6, <1>11, <1>12

\* Of the run for s, each value is the text of a part of s.
LEMMA OutPrefix ==
  ASSUME NEW s \in Seq(Char), NEW d, OutRun(d, s), NEW k \in 0 .. Len(s)
  PROVE  OutText(SubSeq(s, 1, k)) = d[k]
<1> DEFINE r == SubSeq(s, 1, k)
<1>1. r \in Seq(Char) /\ Len(r) = k /\ \A i \in 1 .. k : r[i] = s[i]
  OBVIOUS
<1> HIDE DEF r
<1>2. PICK e : OutRun(e, r) /\ OutText(r) = e[k]
  BY <1>1, OutSteps
<1>3. k \in Nat /\ k \in 0 .. k /\ \A i \in 1 .. k : i \in 1 .. Len(s)
  OBVIOUS
<1>4. e[0] = <<>> /\ \A i \in 1 .. k : e[i] = e[i - 1] \o OutMap(s[i])
  BY <1>1, <1>2 DEF OutRun
<1>5. d[0] = <<>> /\ \A i \in 1 .. k : d[i] = d[i - 1] \o OutMap(s[i])
  BY <1>3 DEF OutRun
<1>6. Alike(e, d, k)
  BY <1>4, <1>5 DEF Alike
<1>7. Same(e, d, k)
  BY <1>3, <1>6, SameSteps
<1>8. e[k] = d[k]
  BY <1>3, <1>7 DEF Same
<1> QED  BY <1>2, <1>8 DEF r

\* Nothing is sent as nothing.
LEMMA OutNil == OutText(<<>>) = <<>>
<1>1. <<>> \in Seq(Char) /\ Len(<<>>) = 0
  OBVIOUS
<1>2. PICK d : OutRun(d, <<>>) /\ OutText(<<>>) = d[Len(<<>>)]
  BY <1>1, OutSteps
<1> QED  BY <1>1, <1>2 DEF OutRun

\* What is sent is characters.
LEMMA OutType == ASSUME NEW s \in Seq(Char)  PROVE OutText(s) \in Seq(Char)
<1>1. Len(s) \in 0 .. Len(s)
  OBVIOUS
<1>2. PICK d : OutRun(d, s) /\ OutText(s) = d[Len(s)]
  BY OutSteps
<1> QED  BY <1>1, <1>2 DEF OutRun

\* One byte more is at most two bytes more.
LEMMA OutRoom ==
  ASSUME NEW s \in Seq(Char), NEW k \in 1 .. Len(s)
  PROVE  Len(OutText(SubSeq(s, 1, k))) <= Len(OutText(SubSeq(s, 1, k - 1))) + 2
<1>1. PICK d : OutRun(d, s)
  BY OutSteps
<1>2. k \in 0 .. Len(s) /\ k - 1 \in 0 .. Len(s) /\ s[k] \in Char
  OBVIOUS
<1> DEFINE x == OutText(SubSeq(s, 1, k))
           y == OutText(SubSeq(s, 1, k - 1))
           m == OutMap(s[k])
<1>3. x = d[k]
  BY <1>1, <1>2, OutPrefix
<1>4. y = d[k - 1]
  BY <1>1, <1>2, OutPrefix
<1>5. m \in Seq(Char) /\ Len(m) <= 2
  BY <1>2, OutMapType
<1>6. x = y \o m /\ y \in Seq(Char)
  BY <1>1, <1>2, <1>3, <1>4 DEF OutRun
<1> HIDE DEF x, y, m
<1>7. Len(x) = Len(y) + Len(m) /\ Len(y) \in Nat /\ Len(m) \in Nat
  BY <1>5, <1>6
<1>8. Len(x) <= Len(y) + 2
  BY <1>5, <1>7
<1> QED  BY <1>8 DEF x, y

\* The text of a whole is the texts of its parts.
LEMMA OutSplit ==
  ASSUME NEW s \in Seq(Char), NEW k \in 0 .. Len(s)
  PROVE  OutText(s) = OutText(SubSeq(s, 1, k)) \o OutText(SubSeq(s, k + 1, Len(s)))
<1> DEFINE r == SubSeq(s, k + 1, Len(s))
           M == Len(s) - k
<1>1. PICK d : OutRun(d, s) /\ OutText(s) = d[Len(s)]
  BY OutSteps
<1>2. r \in Seq(Char) /\ Len(r) = M /\ \A i \in 1 .. M : r[i] = s[k + i]
  OBVIOUS
<1> HIDE DEF r
<1>3. PICK e : OutRun(e, r) /\ OutText(r) = e[Len(r)]
  BY <1>2, OutSteps
<1>4. OutText(SubSeq(s, 1, k)) = d[k]
  BY <1>1, OutPrefix
<1>5. /\ M \in Nat /\ k + M = Len(s) /\ Len(s) \in Nat
      /\ \A j \in 0 .. M : k + j \in 0 .. Len(s)
      /\ \A j \in 1 .. M : /\ k + j \in 1 .. Len(s) /\ k + (j - 1) = k + j - 1
                           /\ j \in 0 .. M /\ j - 1 \in 0 .. M
  OBVIOUS
<1> HIDE DEF M
<1> DEFINE u == [j \in 0 .. M |-> d[k + j]]
           v == [j \in 0 .. M |-> d[k] \o e[j]]
<1>6. d \in [0 .. Len(s) -> Seq(Char)] /\ \A i \in 1 .. Len(s) : d[i] = d[i - 1] \o OutMap(s[i])
  BY <1>1 DEF OutRun
<1>7. e \in [0 .. M -> Seq(Char)] /\ e[0] = <<>> /\ \A j \in 1 .. M : e[j] = e[j - 1] \o OutMap(s[k + j])
  BY <1>2, <1>3 DEF OutRun
<1>8. d[k] \in Seq(Char)
  BY <1>6
<1>9. 0 \in 0 .. M /\ k + 0 = k /\ M \in 0 .. M
  BY <1>5
<1>10. u[0] = v[0]
  <2>1. u[0] = d[k] /\ v[0] = d[k] \o <<>>
    BY <1>7, <1>9
  <2> QED  BY <1>8, <2>1, ConcatEmptySeq
<1>11. ASSUME NEW j \in 1 .. M, u[j - 1] = v[j - 1]  PROVE u[j] = v[j]
  <2> DEFINE o == OutMap(s[k + j])
             x == d[k]
             y == e[j - 1]
  <2>1. s[k + j] \in Char
    BY <1>5
  <2>2. o \in Seq(Char) /\ x \in Seq(Char) /\ y \in Seq(Char)
    BY <1>5, <1>7, <1>8, <2>1, OutMapType
  <2>3. u[j] = d[k + j] /\ v[j] = x \o e[j] /\ u[j - 1] = d[k + (j - 1)] /\ v[j - 1] = x \o y
    BY <1>5
  <2>4. d[k + j] = d[k + (j - 1)] \o o
    <3>1. PICK i \in 1 .. Len(s) : i = k + j /\ i - 1 = k + (j - 1)
      BY <1>5
    <3>2. d[i] = d[i - 1] \o OutMap(s[i])
      BY <1>6
    <3> QED  BY <3>1, <3>2
  <2>5. e[j] = y \o o
    BY <1>7
  <2> HIDE DEF u, v, o, x, y
  <2>6. u[j] = (x \o y) \o o
    BY <1>11, <2>3, <2>4
  <2>7. v[j] = x \o (y \o o)
    BY <2>3, <2>5
  <2>8. (x \o y) \o o = x \o (y \o o)
    BY <2>2, ConcatAssociative, SMTT(60)
  <2> QED  BY <2>6, <2>7, <2>8
<1>12. u[M] = v[M]
  <2> HIDE DEF u, v
  <2>1. Alike(u, v, M)
    BY <1>10, <1>11 DEF Alike
  <2>2. Same(u, v, M)
    BY <1>5, <2>1, SameSteps
  <2> QED  BY <1>9, <2>2 DEF Same
<1>13. d[Len(s)] = d[k] \o e[M]
  BY <1>5, <1>9, <1>12
<1>14. OutText(r) = e[M]
  BY <1>2, <1>3
<1> QED  BY <1>1, <1>4, <1>13, <1>14 DEF r

-----------------------------------------------------------------------------
(* The receiving loop of termio_scandev.                                   *)

\* XON and XOFF leave the receive queue alone.
LEMMA TakeControl ==
  ASSUME NEW s \in ScanState, NEW k \in Char, ~s.full, ~IsData(k)
  PROVE  /\ Take(s, k) \in ScanState /\ ~Take(s, k).full
         /\ Take(s, k).d.rx = s.d.rx /\ Take(s, k).d.tx = s.d.tx /\ Take(s, k).d.rxoff = s.d.rxoff
         /\ Take(s, k).h = s.h /\ Take(s, k).rest = s.rest
<1> DEFINE b == (Strip(k) = "xoff")
<1>1. Take(s, k) = [s EXCEPT !.d.txoff = b]
  BY DEF Take
<1>2. b \in BOOLEAN
  OBVIOUS
<1> HIDE DEF b
<1> QED  BY <1>1, <1>2 DEF ScanState, TtyDev

\* The byte makes the host be told to stop.
Stops(d) == QLimit - Len(d.rx) < Trigger /\ ~d.rxoff

\* Data is queued when there is room, and the host told to stop if need be.
LEMMA TakeData ==
  ASSUME NEW s \in ScanState, NEW k \in Char, ~s.full, IsData(k), Len(s.d.rx) < QLimit,
         TermioAssumption
  PROVE  /\ Take(s, k) \in ScanState /\ ~Take(s, k).full /\ Take(s, k).rest = s.rest
         /\ Take(s, k).d.rx = Append(s.d.rx, Strip(k)) /\ Take(s, k).d.tx = s.d.tx
         /\ Stops(s.d) => Take(s, k).d.rxoff = TRUE /\ Take(s, k).h = [stopped |-> TRUE, left |-> Slack]
         /\ ~Stops(s.d) => Take(s, k).d.rxoff = s.d.rxoff /\ Take(s, k).h = s.h
<1> DEFINE c == Strip(k)
           stop == Stops(s.d)
           h == IF stop THEN [stopped |-> TRUE, left |-> Slack] ELSE s.h
           q == Append(s.d.rx, c)
           off == s.d.rxoff \/ stop
<1>0. QLimit \in Nat /\ Slack \in Nat /\ Trigger \in Nat
  BY DEF TermioAssumption
<1>1. Take(s, k) = [s EXCEPT !.d.txoff = FALSE, !.d.rx = q, !.d.rxoff = off, !.h = h]
  BY <1>0 DEF Take, NearFull, Told, ScanState, TtyDev, Stops
<1>2. c \in Char
  BY StripChar
<1>3. q \in Seq(Char)
  BY <1>2 DEF ScanState, TtyDev
<1>4. h \in HostState
  BY <1>0 DEF ScanState, HostState
<1>5. off \in BOOLEAN
  BY DEF ScanState, TtyDev
<1>8. (stop => off = TRUE /\ h = [stopped |-> TRUE, left |-> Slack]) /\ (~stop => off = s.d.rxoff /\ h = s.h)
  <2>1. s.d.rxoff \in BOOLEAN
    BY DEF ScanState, TtyDev
  <2> HIDE DEF stop
  <2> QED  BY <2>1
<1> HIDE DEF q, h, off
<1>6. Take(s, k) = [d |-> [rx |-> q, tx |-> s.d.tx, txoff |-> FALSE, rxoff |-> off],
                    h |-> h, full |-> s.full, rest |-> s.rest]
  BY <1>1 DEF ScanState, TtyDev
<1>7. /\ Take(s, k) \in ScanState /\ ~Take(s, k).full /\ Take(s, k).rest = s.rest
      /\ Take(s, k).d.rx = q /\ Take(s, k).d.tx = s.d.tx /\ Take(s, k).d.rxoff = off /\ Take(s, k).h = h
  BY <1>3, <1>4, <1>5, <1>6 DEF ScanState, TtyDev
<1> QED  BY <1>7, <1>8 DEF q

\* Whatever the byte, the loop's state stays one.
LEMMA TakeType == ASSUME NEW s \in ScanState, NEW k \in Char, TermioAssumption  PROVE Take(s, k) \in ScanState
<1>1. QLimit \in Nat /\ Slack \in Nat /\ Trigger \in Nat
  BY DEF TermioAssumption
<1>2. CASE s.full
  <2>1. Take(s, k) = [s EXCEPT !.rest = Append(s.rest, k)]
    BY <1>2 DEF Take
  <2>2. Append(s.rest, k) \in Seq(Char)
    BY DEF ScanState
  <2> QED  BY <2>1, <2>2 DEF ScanState
<1>3. CASE ~s.full /\ ~IsData(k)
  BY <1>3, TakeControl
<1>4. CASE ~s.full /\ IsData(k) /\ Len(s.d.rx) < QLimit
  BY <1>4, TakeData
<1>5. CASE ~s.full /\ IsData(k) /\ ~(Len(s.d.rx) < QLimit)
  <2>1. ~(QLimit - Len(s.d.rx) > 0)
    BY <1>1, <1>5 DEF ScanState, TtyDev
  <2>2. Take(s, k) = [s EXCEPT !.d.txoff = FALSE, !.full = TRUE]
    BY <1>5, <2>1 DEF Take
  <2>3. s.d \in TtyDev
    BY DEF ScanState
  <2>4. [s.d EXCEPT !.txoff = FALSE] \in TtyDev
    BY <2>3 DEF TtyDev
  <2>5. Take(s, k) = [d |-> [s.d EXCEPT !.txoff = FALSE], h |-> s.h, full |-> TRUE, rest |-> s.rest]
    BY <2>2 DEF ScanState
  <2> QED  BY <2>4, <2>5 DEF ScanState
<1> QED  BY <1>2, <1>3, <1>4, <1>5 DEF ScanState

\* A character at the end of the second of two sequences.
LEMMA ConcatAppend ==
  ASSUME NEW p \in Seq(Char), NEW q \in Seq(Char), NEW c \in Char
  PROVE  p \o Append(q, c) = Append(p \o q, c)
<1>1. <<c>> \in Seq(Char) /\ p \o q \in Seq(Char)
  BY ConcatProperties
<1>2. Append(q, c) = q \o <<c>> /\ Append(p \o q, c) = (p \o q) \o <<c>>
  BY <1>1, AppendIsConcat
<1>3. (p \o q) \o <<c>> = p \o (q \o <<c>>)
  BY <1>1, ConcatAssociative, SMTT(60)
<1> QED  BY <1>2, <1>3

\* The state of the loop after i of N bytes: the data among them is queued.
Taken(t, rx, tx, x, n) ==
  /\ t \in ScanState /\ ~t.full /\ t.rest = <<>>
  /\ t.d.rx = rx \o x /\ t.d.tx = tx /\ Flow(t.d, t.h, n)

\* The next byte: there is room for it, and then for the ones still to come.
LEMMA TakenNext ==
  ASSUME TermioAssumption, NEW rx \in Seq(Char), NEW tx, NEW x \in Seq(Char), NEW k \in Char,
         NEW n \in Nat, n < Fifo, NEW t, Taken(t, rx, tx, x, n + 1)
  PROVE  Taken(Take(t, k), rx, tx, IF IsData(k) THEN Append(x, Strip(k)) ELSE x, n)
<1> DEFINE u == Take(t, k)
<1>1. /\ t \in ScanState /\ ~t.full /\ t.rest = <<>> /\ t.d.rx = rx \o x /\ t.d.tx = tx
      /\ Flow(t.d, t.h, n + 1)
  BY DEF Taken
<1>2. /\ QLimit \in Nat /\ Slack \in Nat /\ Trigger \in 2 .. QLimit - 1 /\ Fifo \in Nat
      /\ Fifo + Slack < Trigger
  BY DEF TermioAssumption
<1>3. t.d.rx \in Seq(Char) /\ t.d.rxoff \in BOOLEAN /\ t.h.left \in 0 .. Slack /\ t.h.stopped \in BOOLEAN
  BY <1>1 DEF ScanState, TtyDev, HostState
<1> DEFINE L == Len(t.d.rx)
<1>4. L \in Nat
  BY <1>3
<1>5. CASE ~IsData(k)
  <2>1. /\ u \in ScanState /\ ~u.full /\ u.d.rx = t.d.rx /\ u.d.tx = t.d.tx /\ u.d.rxoff = t.d.rxoff
        /\ u.h = t.h /\ u.rest = t.rest
    BY <1>1, <1>5, TakeControl
  <2> HIDE DEF u
  <2>2. Flow(u.d, u.h, n)
    BY <1>1, <1>2, <1>3, <1>4, <2>1 DEF Flow
  <2>3. Taken(u, rx, tx, x, n)
    BY <1>1, <2>1, <2>2 DEF Taken
  <2> QED  BY <1>5, <2>3 DEF u
<1>6. CASE IsData(k)
  <2>1. L < QLimit
    <3>1. CASE t.d.rxoff
      <4>1. L + (n + 1) + t.h.left <= QLimit
        BY <1>1, <3>1 DEF Flow
      <4> HIDE DEF L
      <4> QED  BY <1>2, <1>3, <1>4, <4>1
    <3>2. CASE ~t.d.rxoff
      <4>1. L <= QLimit + 1 - Trigger
        BY <1>1, <3>2 DEF Flow
      <4> HIDE DEF L
      <4> QED  BY <1>2, <1>4, <4>1
    <3> QED  BY <3>1, <3>2
  <2> DEFINE stop == Stops(t.d)
             c == Strip(k)
  <2>2. /\ u \in ScanState /\ ~u.full /\ u.rest = t.rest
        /\ u.d.rx = Append(t.d.rx, c) /\ u.d.tx = t.d.tx
        /\ stop => u.d.rxoff = TRUE /\ u.h = [stopped |-> TRUE, left |-> Slack]
        /\ ~stop => u.d.rxoff = t.d.rxoff /\ u.h = t.h
    BY <1>1, <1>6, <2>1, TakeData
  <2>3. c \in Char
    BY StripChar
  <2> HIDE DEF u, c
  <2>4. u.d.rx = rx \o Append(x, c)
    BY <1>1, <2>2, <2>3, ConcatAppend
  <2>5. Len(u.d.rx) = L + 1
    BY <1>3, <2>2, <2>3
  <2> HIDE DEF L
  <2>6. u.h.stopped = u.d.rxoff
    <3>1. CASE stop
      <4>1. u.d.rxoff = TRUE /\ u.h = [stopped |-> TRUE, left |-> Slack]
        BY <2>2, <3>1
      <4>2. u.h.stopped = TRUE
        BY <4>1
      <4> QED  BY <4>1, <4>2
    <3>2. CASE ~stop
      BY <1>1, <2>2, <3>2 DEF Flow
    <3> QED  BY <3>1, <3>2
  <2>7. ASSUME ~u.d.rxoff  PROVE L + 1 <= QLimit + 1 - Trigger
    <3>1. ~stop /\ ~t.d.rxoff
      BY <2>2, <2>7
    <3>2. ~(QLimit - L < Trigger)
      BY <3>1 DEF Stops, L
    <3> QED  BY <1>2, <1>4, <3>2
  <2>8. ASSUME u.d.rxoff  PROVE L + 1 + n + u.h.left <= QLimit
    <3>1. CASE stop
      <4>1. u.h.left = Slack
        BY <2>2, <3>1
      <4>2. L <= QLimit + 1 - Trigger
        BY <1>1, <3>1 DEF Flow, L, Stops
      <4> QED  BY <1>2, <1>4, <4>1, <4>2
    <3>2. CASE ~stop
      <4>1. u.h = t.h /\ t.d.rxoff
        BY <1>3, <2>2, <2>8, <3>2
      <4>2. L + (n + 1) + t.h.left <= QLimit
        BY <1>1, <4>1 DEF Flow, L
      <4> QED  BY <1>2, <1>3, <1>4, <4>1, <4>2
    <3> QED  BY <3>1, <3>2
  <2>9. Flow(u.d, u.h, n)
    BY <2>5, <2>6, <2>7, <2>8 DEF Flow
  <2>10. Taken(u, rx, tx, Append(x, c), n)
    BY <1>1, <2>2, <2>4, <2>9 DEF Taken
  <2> QED  BY <1>6, <2>10 DEF u, c
<1> QED  BY <1>5, <1>6

\* What scandevs makes of the state s its receiving loop ends in.
ScanEnd(s, k) ==
  LET d(i) == IF i = Serial THEN s.d ELSE dev[i]
      n(i) == IF d(i).txoff THEN 0 ELSE IF i = Serial THEN k ELSE Len(d(i).tx)
  IN  [dev   |-> [i \in Devs |-> [d(i) EXCEPT !.tx = SubSeq(@, n(i) + 1, Len(@))]],
       shown |-> [i \in Devs |-> shown[i] \o SubSeq(d(i).tx, 1, n(i))],
       fifo  |-> s.rest, host |-> s.h]

\* The loop of termio_scandev ends with all data queued and nothing dropped.
LEMMA ScanLoop ==
  ASSUME TermioAssumption, dev[Serial] \in TtyDev, host \in HostState, fifo \in Seq(Char),
         Len(fifo) <= Fifo, Flow(dev[Serial], host, Len(fifo))
  PROVE  \E s : /\ Taken(s, dev[Serial].rx, dev[Serial].tx, DataIn(fifo), 0)
                /\ \A k : scandevs(k) = ScanEnd(s, k)
<1> DEFINE N == Len(fifo)
           S == ScanState
           b == [d |-> dev[Serial], h |-> host, full |-> FALSE, rest |-> <<>>]
           Step(e, i) == Take(e, fifo[i])
           g == [p \in S \X (1 .. N) |-> Step(p[1], p[2])]
           R(f) == f = [i \in 0 .. N |-> IF i = 0 THEN b ELSE Step(f[i - 1], i)]
           c == CHOOSE f : R(f)
<1>1. \A e \in S, i \in 1 .. N : Step(e, i) \in S
  <2> SUFFICES ASSUME NEW e \in S, NEW i \in 1 .. N  PROVE Step(e, i) \in S
    OBVIOUS
  <2>1. fifo[i] \in Char
    OBVIOUS
  <2> QED  BY <2>1, TakeType
<1>2. \A k : scandevs(k) = ScanEnd(c[N], k)
  BY DEF scandevs, ScanEnd
<1>3. b \in S
  BY DEF ScanState
<1>4. b.d = dev[Serial] /\ b.h = host /\ b.full = FALSE /\ b.rest = <<>>
  OBVIOUS
<1>5. N \in Nat /\ N \in 0 .. N
  OBVIOUS
<1>6. PICK d : /\ d \in [0 .. N -> Seq(Char)] /\ DataIn(fifo) = d[N] /\ d[0] = <<>>
               /\ \A i \in 1 .. N : d[i] = IF IsData(fifo[i]) THEN Append(d[i - 1], Strip(fifo[i])) ELSE d[i - 1]
  BY DataSteps
<1> HIDE DEF Step, b
<1>7. g \in [S \X (1 .. N) -> S] /\ \A e \in S, i \in 1 .. N : g[<<e, i>>] = Step(e, i)
  BY <1>1
<1> HIDE DEF g, S
<1>8. \E f : R(f)
  <2>1. PICK f : Goes(f, N, S, b, g)
    <3> HIDE DEF N
    <3> QED  BY <1>3, <1>5, <1>7, Unrolled
  <2>2. f \in [0 .. N -> S] /\ f[0] = b /\ \A i \in 1 .. N : f[i] = g[<<f[i - 1], i>>]
    BY <2>1 DEF Goes
  <2> HIDE DEF N
  <2>3. \A i \in 1 .. N : i - 1 \in 0 .. N /\ f[i - 1] \in S
    BY <1>5, <2>2
  <2>4. \A i \in 1 .. N : f[i] = Step(f[i - 1], i)
    BY <1>7, <2>2, <2>3
  <2>5. R(f)
    BY <1>5, <2>2, <2>4
  <2> HIDE DEF R
  <2> QED  BY <2>5
<1>9. R(c)
  <2> HIDE DEF R
  <2> QED  BY <1>8
<1> HIDE DEF c
<1>10. c[0] = b /\ \A i \in 1 .. N : c[i] = Step(c[i - 1], i)
  <2> HIDE DEF N
  <2> QED  BY <1>5, <1>9
<1> DEFINE rx == dev[Serial].rx
           tx == dev[Serial].tx
           P == {i \in 0 .. N : Taken(c[i], rx, tx, d[i], N - i)}
<1>11. rx \in Seq(Char)
  BY DEF TtyDev
<1>12. 0 \in P
  <2>1. rx \o <<>> = rx
    BY <1>11, ConcatEmptySeq
  <2>2. N - 0 = N
    BY <1>5
  <2>3. Taken(c[0], rx, tx, d[0], N)
    BY <1>3, <1>4, <1>6, <1>10, <2>1 DEF Taken, S
  <2> HIDE DEF N, rx, tx
  <2> QED  BY <1>5, <2>2, <2>3
<1>13. ASSUME NEW i \in 1 .. N, i - 1 \in P  PROVE i \in P
  <2>1. /\ fifo[i] \in Char /\ N - i \in Nat /\ N - i < Fifo /\ N - (i - 1) = N - i + 1
        /\ i - 1 \in 0 .. N /\ i \in 0 .. N
    BY DEF TermioAssumption
  <2>2. Taken(c[i - 1], rx, tx, d[i - 1], N - i + 1) /\ d[i - 1] \in Seq(Char)
    BY <1>6, <1>13, <2>1
  <2>3. c[i] = Take(c[i - 1], fifo[i])
    BY <1>10 DEF Step
  <2>4. d[i] = IF IsData(fifo[i]) THEN Append(d[i - 1], Strip(fifo[i])) ELSE d[i - 1]
    BY <1>6
  <2> HIDE DEF N, rx, tx
  <2>5. Taken(c[i], rx, tx, d[i], N - i)
    BY <1>11, <2>1, <2>2, <2>3, <2>4, TakenNext
  <2> QED  BY <2>1, <2>5
<1>14. P \in SUBSET (0 .. N)
  OBVIOUS
<1>15. N \in P
  <2> HIDE DEF P, N
  <2> QED  BY <1>5, <1>12, <1>13, <1>14, Upto
<1>16. Taken(c[N], rx, tx, d[N], 0)
  <2>1. N - N = 0
    BY <1>5
  <2> HIDE DEF N, rx, tx
  <2> QED  BY <1>15, <2>1
<1> QED  BY <1>2, <1>6, <1>16

\* A sequence is its two parts.
LEMMA TwoParts ==
  ASSUME NEW q \in Seq(Char), NEW n \in 0 .. Len(q)
  PROVE  /\ SubSeq(q, 1, n) \in Seq(Char) /\ SubSeq(q, n + 1, Len(q)) \in Seq(Char)
         /\ SubSeq(q, 1, n) \o SubSeq(q, n + 1, Len(q)) = q
         /\ q = <<>> => SubSeq(q, n + 1, Len(q)) = <<>>
<1>1. SubSeq(q, 1, n) \in Seq(Char) /\ SubSeq(q, n + 1, Len(q)) \in Seq(Char)
  OBVIOUS
<1>2. 1 \in 1 .. Len(q) + 1 /\ n \in 1 - 1 .. Len(q) /\ Len(q) \in n .. Len(q)
  OBVIOUS
<1>3. SubSeq(q, 1, n) \o SubSeq(q, n + 1, Len(q)) = SubSeq(q, 1, Len(q))
  BY <1>2, ConcatAdjacentSubSeq
<1>4. SubSeq(q, 1, Len(q)) = q
  BY SubSeqFull
<1>5. q = <<>> => SubSeq(q, n + 1, Len(q)) = <<>>
  <2> SUFFICES ASSUME q = <<>>  PROVE SubSeq(q, n + 1, Len(q)) = <<>>
    OBVIOUS
  <2>1. Len(q) = 0 /\ n + 1 \in Int /\ 0 \in Int /\ 0 < n + 1
    OBVIOUS
  <2> QED  BY <2>1, SubSeqEmpty
<1> QED  BY <1>1, <1>3, <1>4, <1>5

\* What a call of scandevs leaves: the UART is empty, its data is in the queue,
\* and of the output nothing was lost between queue and device.
LEMMA ScanIs ==
  ASSUME TermioAssumption, TermType, Flow(dev[Serial], host, Len(fifo)), NEW k \in Ready
  PROVE  /\ scandevs(k).fifo = <<>> /\ scandevs(k).host \in HostState
         /\ scandevs(k).dev \in [Devs -> TtyDev] /\ scandevs(k).shown \in [Devs -> Seq(Char)]
         /\ scandevs(k).dev[Serial].rx = dev[Serial].rx \o DataIn(fifo)
         /\ Flow(scandevs(k).dev[Serial], scandevs(k).host, 0)
         /\ \A i \in Devs :
              /\ scandevs(k).shown[i] \o scandevs(k).dev[i].tx = shown[i] \o dev[i].tx
              /\ dev[i].tx = <<>> => scandevs(k).dev[i].tx = <<>>
<1>1. /\ Serial \in Devs /\ dev \in [Devs -> TtyDev] /\ host \in HostState /\ fifo \in Seq(Char)
      /\ Len(fifo) <= Fifo /\ shown \in [Devs -> Seq(Char)]
  BY DEF TermType, Serial, Devs
<1>2. dev[Serial] \in TtyDev
  BY <1>1
<1>3. PICK s : /\ Taken(s, dev[Serial].rx, dev[Serial].tx, DataIn(fifo), 0)
               /\ \A j : scandevs(j) = ScanEnd(s, j)
  BY <1>1, <1>2, ScanLoop
<1>4. /\ s \in ScanState /\ s.rest = <<>> /\ s.d.rx = dev[Serial].rx \o DataIn(fifo)
      /\ s.d.tx = dev[Serial].tx /\ Flow(s.d, s.h, 0)
  BY <1>3 DEF Taken
<1>5. s.d \in TtyDev /\ s.h \in HostState
  BY <1>4 DEF ScanState
<1> DEFINE d(i) == IF i = Serial THEN s.d ELSE dev[i]
           n(i) == IF d(i).txoff THEN 0 ELSE IF i = Serial THEN k ELSE Len(d(i).tx)
           e(i) == [d(i) EXCEPT !.tx = SubSeq(d(i).tx, n(i) + 1, Len(d(i).tx))]
           o(i) == shown[i] \o SubSeq(d(i).tx, 1, n(i))
           r == scandevs(k)
<1>6. /\ r.dev = [i \in Devs |-> e(i)] /\ r.shown = [i \in Devs |-> o(i)]
      /\ r.fifo = s.rest /\ r.host = s.h
  BY <1>3 DEF ScanEnd
<1>7. \A i \in Devs : d(i) \in TtyDev /\ d(i).tx = dev[i].tx
  BY <1>1, <1>4, <1>5
<1>8. \A i \in Devs : n(i) \in 0 .. Len(d(i).tx) /\ d(i).tx \in Seq(Char)
  <2> SUFFICES ASSUME NEW i \in Devs  PROVE n(i) \in 0 .. Len(d(i).tx) /\ d(i).tx \in Seq(Char)
    OBVIOUS
  <2>1. d(i).tx \in Seq(Char) /\ d(i).tx = dev[i].tx
    BY <1>7 DEF TtyDev
  <2>2. i = Serial => k \in 0 .. Len(d(i).tx)
    BY <2>1 DEF Ready
  <2> HIDE DEF d
  <2> QED  BY <2>1, <2>2
<1>9. d(Serial) = s.d
  OBVIOUS
<1> HIDE DEF d, n, r
<1>10. ASSUME NEW i \in Devs
       PROVE  /\ e(i) \in TtyDev /\ e(i).rx = d(i).rx /\ e(i).rxoff = d(i).rxoff /\ o(i) \in Seq(Char)
              /\ o(i) \o e(i).tx = shown[i] \o dev[i].tx
              /\ dev[i].tx = <<>> => e(i).tx = <<>>
  <2> DEFINE q == d(i).tx
             x == SubSeq(q, 1, n(i))
             y == SubSeq(q, n(i) + 1, Len(q))
  <2>1. q \in Seq(Char) /\ n(i) \in 0 .. Len(q) /\ q = dev[i].tx /\ d(i) \in TtyDev
    BY <1>7, <1>8
  <2> HIDE DEF q
  <2>2. x \in Seq(Char) /\ y \in Seq(Char) /\ x \o y = q /\ (q = <<>> => y = <<>>)
    BY <2>1, TwoParts
  <2>3. e(i) = [d(i) EXCEPT !.tx = y] /\ o(i) = shown[i] \o x
    BY DEF q
  <2>4. shown[i] \in Seq(Char)
    BY <1>1
  <2> HIDE DEF e, o, x, y
  <2>5. /\ e(i) \in TtyDev /\ e(i).rx = d(i).rx /\ e(i).rxoff = d(i).rxoff /\ e(i).tx = y
    BY <2>1, <2>2, <2>3 DEF TtyDev
  <2>6. o(i) \in Seq(Char)
    BY <2>2, <2>3, <2>4, ConcatProperties
  <2>7. (shown[i] \o x) \o y = shown[i] \o (x \o y)
    <3> DEFINE z == shown[i]
    <3>1. z \in Seq(Char) /\ x \in Seq(Char) /\ y \in Seq(Char)
      BY <2>2, <2>4
    <3> HIDE DEF z
    <3>2. (z \o x) \o y = z \o (x \o y)
      BY <3>1, ConcatAssociative, SMTT(60)
    <3> QED  BY <3>2 DEF z
  <2> QED  BY <2>1, <2>2, <2>3, <2>5, <2>6, <2>7
<1> HIDE DEF e, o
<1>11. r.dev \in [Devs -> TtyDev] /\ r.shown \in [Devs -> Seq(Char)]
  <2>1. \A i \in Devs : e(i) \in TtyDev /\ o(i) \in Seq(Char)
    BY <1>10
  <2> QED  BY <1>6, <2>1
<1>12. \A i \in Devs : r.dev[i] = e(i) /\ r.shown[i] = o(i)
  BY <1>6
<1>13. r.dev[Serial].rx = s.d.rx /\ r.dev[Serial].rxoff = s.d.rxoff
  BY <1>1, <1>9, <1>10, <1>12
<1>14. Flow(r.dev[Serial], r.host, 0)
  BY <1>4, <1>6, <1>13 DEF Flow
<1>15. \A i \in Devs : r.shown[i] \o r.dev[i].tx = shown[i] \o dev[i].tx /\ (dev[i].tx = <<>> => r.dev[i].tx = <<>>)
  BY <1>10, <1>12
<1>16. r.fifo = <<>> /\ r.host \in HostState /\ r.dev[Serial].rx = dev[Serial].rx \o DataIn(fifo)
  BY <1>4, <1>5, <1>6, <1>13
<1> QED  BY <1>11, <1>14, <1>15, <1>16 DEF r

-----------------------------------------------------------------------------
(* Output.                                                                 *)

\* What a write still has for device d.
LeftOf(w, d) ==
  IF \E i \in DOMAIN w.devs : w.devs[i] = d
  THEN IF w.devs[1] = d THEN w.left ELSE w.text ELSE <<>>

\* The device being written to has the rest of the text before it, one that
\* waits the whole text, one that is done nothing.
LEMMA LeftCases ==
  ASSUME NEW w \in WriteState, NEW d \in Devs
  PROVE  /\ w.devs = <<>> => LeftOf(w, d) = <<>>
         /\ w.devs # <<>> /\ w.devs[1] = d => LeftOf(w, d) = w.left
         /\ w.devs \in {<<1, 2>>, <<2, 1>>} /\ w.devs[1] # d => LeftOf(w, d) = w.text
         /\ w.devs \in {<<1>>, <<2>>} /\ w.devs[1] # d => LeftOf(w, d) = <<>>
<1>1. w.devs = <<>> \/ w.devs = <<1>> \/ w.devs = <<2>> \/ w.devs = <<1, 2>> \/ w.devs = <<2, 1>>
  BY DEF WriteState, DevLists
<1>2. d = 1 \/ d = 2
  BY DEF Devs
<1>3. CASE w.devs = <<>>
  BY <1>3 DEF LeftOf
<1>4. CASE w.devs = <<1>>
  BY <1>2, <1>4 DEF LeftOf
<1>5. CASE w.devs = <<2>>
  BY <1>2, <1>5 DEF LeftOf
<1>6. CASE w.devs = <<1, 2>>
  BY <1>2, <1>6 DEF LeftOf
<1>7. CASE w.devs = <<2, 1>>
  BY <1>2, <1>7 DEF LeftOf
<1> QED  BY <1>1, <1>3, <1>4, <1>5, <1>6, <1>7

\* What Queued lets into a queue with some room fits into it.
LEMMA QueuedIs ==
  ASSUME NEW s \in Seq(Char), NEW room \in Nat
  PROVE  /\ Queued(s, room) \in 0 .. Len(s)
         /\ Len(OutText(SubSeq(s, 1, Queued(s, room)))) <= room
<1> DEFINE Ok(i) == \A j \in 1 .. i : Fits(room - Len(OutText(SubSeq(s, 1, j - 1))))
           ok == {i \in 0 .. Len(s) : Ok(i)}
           k == CHOOSE i \in ok : \A j \in ok : j <= i
           rest == {n \in 0 .. Len(s) : Len(s) - n \in ok}
<1>1. Queued(s, room) = k
  BY DEF Queued
<1>2. 0 \in ok /\ Len(s) \in Nat
  OBVIOUS
<1>3. ok \in SUBSET (0 .. Len(s)) /\ \A i \in ok : Ok(i)
  OBVIOUS
<1> HIDE DEF ok, Ok
<1>4. \E i \in ok : \A j \in ok : j <= i
  <2>1. Len(s) \in rest /\ rest \in SUBSET Nat
    BY <1>2
  <2>2. PICK n \in rest : \A m \in rest : n <= m
    <3> HIDE DEF rest
    <3> QED  BY <2>1, LeastNat
  <2>3. n \in 0 .. Len(s) /\ Len(s) - n \in ok
    BY <2>2
  <2>4. ASSUME NEW j \in ok  PROVE j <= Len(s) - n
    <3>1. j \in 0 .. Len(s)
      BY <1>3
    <3>2. Len(s) - j \in 0 .. Len(s) /\ Len(s) - (Len(s) - j) = j
      BY <3>1
    <3>3. Len(s) - j \in rest
      BY <3>2
    <3>4. n <= Len(s) - j
      BY <2>2, <3>3
    <3> QED  BY <2>3, <3>1, <3>4
  <2> QED  BY <2>3, <2>4
<1>5. k \in ok
  <2> HIDE DEF rest
  <2> QED  BY <1>4
<1> HIDE DEF k, rest
<1>6. k \in 0 .. Len(s) /\ Ok(k)
  BY <1>3, <1>5
<1>7. Len(OutText(SubSeq(s, 1, k))) <= room
  <2>1. CASE k = 0
    <3>1. SubSeq(s, 1, 0) = <<>>
      BY SubSeqEmpty
    <3>2. OutText(SubSeq(s, 1, k)) = <<>>
      BY <2>1, <3>1, OutNil
    <3>3. Len(<<>>) = 0
      OBVIOUS
    <3> QED  BY <3>2, <3>3
  <2>2. CASE k # 0
    <3> DEFINE p == SubSeq(s, 1, k - 1)
               x == OutText(p)
               y == OutText(SubSeq(s, 1, k))
    <3>1. k \in 1 .. k /\ k \in 1 .. Len(s)
      BY <1>6, <2>2
    <3>2. Fits(room - Len(x))
      BY <1>6, <3>1 DEF Ok
    <3>3. p \in Seq(Char) /\ SubSeq(s, 1, k) \in Seq(Char)
      BY <3>1
    <3>4. x \in Seq(Char) /\ y \in Seq(Char)
      <4> HIDE DEF p
      <4> QED  BY <3>3, OutType
    <3>5. Len(y) <= Len(x) + 2
      BY <3>1, OutRoom
    <3> HIDE DEF x, y
    <3>6. Len(x) \in Nat /\ Len(y) \in Nat
      BY <3>4
    <3>7. room - Len(x) >= 2
      BY <3>2 DEF Fits
    <3>8. Len(y) <= room
      BY <3>5, <3>6, <3>7
    <3> QED  BY <3>8 DEF y
  <2> QED  BY <2>1, <2>2
<1> QED  BY <1>1, <1>6, <1>7

-----------------------------------------------------------------------------
(* The steps of the terminals.                                             *)

\* The invariant holds after termio_devinit and termio_setup.
LEMMA TermInvInit == TermioAssumption /\ TermInit => TermInv
<1> SUFFICES ASSUME TermioAssumption, TermInit  PROVE TermInv
  OBVIOUS
<1>1. <<>> \in Seq(Char) /\ Len(<<>>) = 0 /\ QLimit \in Nat /\ Trigger \in 1 .. QLimit - 1 /\ Slack \in Nat /\ Fifo \in Nat
  BY DEF TermioAssumption
<1>2. TermType
  BY <1>1 DEF TermInit, TermType, TtyDev, HostState, WriteState, DevLists, NoWrite
<1>3. /\ Serial \in Devs /\ dev[Serial].rx = <<>> /\ dev[Serial].rxoff = FALSE /\ host.stopped = FALSE
      /\ \A d \in Devs : dev[d].tx = <<>> /\ shown[d] = <<>>
  BY DEF TermInit, Serial, Devs
<1>4. Flow(dev[Serial], host, Len(fifo))
  <2>1. Len(dev[Serial].rx) = 0
    BY <1>1, <1>3
  <2>2. 0 <= QLimit + 1 - Trigger
    BY <1>1
  <2> QED  BY <1>3, <2>1, <2>2 DEF Flow
<1>5. InputKept
  BY <1>1, <1>3, DataNil, ConcatEmptySeq DEF InputKept, TermInit
<1>6. doing = "idle" /\ wr = NoWrite /\ wr.devs = <<>> /\ wr.text = <<>>
  BY DEF TermInit, NoWrite
<1>7. ASSUME NEW d \in Devs
      PROVE shown[d] \o dev[d].tx \o OutText(LeftOf(wr, d)) = OutText(wr.text)
  <2>1. LeftOf(wr, d) = <<>>
    BY <1>2, <1>6, LeftCases DEF TermType
  <2>2. <<>> \o <<>> \o <<>> = <<>>
    OBVIOUS
  <2> QED  BY <1>3, <1>6, <2>1, <2>2, OutNil
<1>8. OutputRight
  BY <1>6, <1>7 DEF OutputRight, LeftOf
<1> QED  BY <1>2, <1>3, <1>4, <1>5, <1>6, <1>8 DEF TermInv

\* The parts of the invariant about output.
OutPart ==
  /\ OutputRight
  /\ IF doing = "write" THEN wr.devs # <<>> ELSE wr = NoWrite
  /\ \A d \in Devs : dev[d].tx # <<>> => doing = "write" /\ wr.devs[1] = d

\* OutputRight in terms of LeftOf.
LEMMA OutIs ==
  OutputRight <=>
    /\ doing # "hung"
    /\ \A d \in Devs : shown[d] \o dev[d].tx \o OutText(LeftOf(wr, d)) = OutText(wr.text)
  BY DEF OutputRight, LeftOf

\* A write that starts with empty queues.
LEMMA StartWrite ==
  ASSUME NEW ds \in {<<1, 2>>, <<2, 1>>}, NEW text \in Seq(Char), NEW back \in {"idle", "read"},
         WriteTo(ds, text, back), \A d \in Devs : dev'[d].tx = <<>>
  PROVE  /\ wr' \in WriteState /\ shown' \in [Devs -> Seq(Char)]
         /\ doing' \in {"idle", "read", "write"} /\ OutPart'
<1>1. /\ doing' = "write" /\ shown' = [d \in Devs |-> <<>>]
      /\ wr' = [text |-> text, left |-> text, devs |-> ds, back |-> back]
  BY DEF WriteTo
<1>2. wr' \in WriteState /\ wr'.text = text /\ wr'.left = text /\ wr'.devs = ds
  BY <1>1 DEF WriteState, DevLists
<1>3. \A d \in Devs : shown'[d] = <<>>
  BY <1>1
<1>4. shown' \in [Devs -> Seq(Char)]
  BY <1>1
<1>5. ds # <<>>
  <2>1. Len(ds) = 2
    OBVIOUS
  <2>2. Len(<<>>) = 0
    OBVIOUS
  <2> QED  BY <2>1, <2>2
<1>6. ASSUME NEW d \in Devs
      PROVE  shown'[d] \o dev'[d].tx \o OutText(LeftOf(wr', d)) = OutText(wr'.text)
  <2>1. LeftOf(wr', d) = text
    BY <1>2, <1>5, LeftCases
  <2> DEFINE o == OutText(text)
  <2>2. o \in Seq(Char)
    BY OutType
  <2> HIDE DEF o
  <2>3. <<>> \o <<>> \o o = o
    BY <2>2
  <2> QED  BY <1>2, <1>3, <2>1, <2>3 DEF o
<1>7. OutputRight'
  BY <1>1, <1>6 DEF OutputRight, LeftOf
<1> QED  BY <1>1, <1>2, <1>4, <1>5, <1>7 DEF OutPart

\* A byte from the host uses up room that was kept for it.
LEMMA HostSendTaken ==
  ASSUME TermioAssumption, TermInv, HostSend, Len(fifo) < Fifo
  PROVE  TermInv'
<1>1. PICK k \in Keys : /\ fifo' = Append(fifo, k)
                        /\ unread' = IF IsData(k) THEN Append(unread, Strip(k)) ELSE unread
  BY DEF HostSend
<1>2. /\ (host.stopped => host.left > 0)
      /\ host' = IF host.stopped THEN [host EXCEPT !.left = host.left - 1] ELSE host
      /\ dev' = dev /\ doing' = doing /\ wr' = wr /\ shown' = shown
  BY DEF HostSend
<1>3. k \in Char
  BY DEF TermioAssumption, Char
<1>4. TermType /\ Flow(dev[Serial], host, Len(fifo)) /\ InputKept
  BY DEF TermInv
<1>5. /\ fifo \in Seq(Char) /\ dev[Serial] \in TtyDev /\ host \in HostState
  BY <1>4 DEF TermType, Serial, Devs
<1>6. fifo' \in Seq(Char) /\ Len(fifo') = Len(fifo) + 1 /\ Len(fifo) \in Nat
  BY <1>1, <1>3, <1>5
<1>7. Len(fifo') <= Fifo
  BY <1>2, <1>6 DEF TermioAssumption
<1>8. host' \in HostState
  BY <1>2, <1>5 DEF HostState, TermioAssumption
<1>9. TermType'
  BY <1>2, <1>4, <1>6, <1>7, <1>8 DEF TermType
<1>10. Flow(dev[Serial], host', Len(fifo'))
  <2>1. /\ dev[Serial].rx \in Seq(Char) /\ host.left \in 0 .. Slack /\ host.stopped \in BOOLEAN
        /\ dev[Serial].rxoff \in BOOLEAN
    BY <1>5 DEF TtyDev, HostState
  <2>2. CASE host.stopped
    <3>1. host' = [host EXCEPT !.left = host.left - 1]
      BY <1>2, <2>2
    <3>2. host'.left = host.left - 1 /\ host'.stopped = host.stopped
      BY <1>5, <3>1 DEF HostState
    <3>3. dev[Serial].rxoff
      BY <1>4, <2>2 DEF Flow
    <3> DEFINE L == Len(dev[Serial].rx)
    <3>4. L + Len(fifo) + host.left <= QLimit /\ L \in Nat
      BY <1>4, <2>1, <3>3 DEF Flow
    <3> HIDE DEF L
    <3>5. L + Len(fifo') + host'.left <= QLimit
      BY <1>6, <2>1, <3>2, <3>4 DEF TermioAssumption
    <3> QED  BY <1>4, <3>2, <3>3, <3>5 DEF Flow, L
  <2>3. CASE ~host.stopped
    <3>1. host' = host /\ ~dev[Serial].rxoff
      BY <1>2, <1>4, <2>3 DEF Flow
    <3> QED  BY <1>4, <3>1 DEF Flow
  <2> QED  BY <2>2, <2>3
<1>11. InputKept'
  <2> DEFINE rx == dev[Serial].rx
             x == DataIn(fifo)
             c == Strip(k)
  <2>1. rx \in Seq(Char) /\ x \in Seq(Char) /\ c \in Char
    BY <1>3, <1>5, DataType, StripChar DEF TtyDev
  <2>2. unread = rx \o x
    BY <1>4 DEF InputKept
  <2>3. DataIn(fifo') = IF IsData(k) THEN Append(x, c) ELSE x
    BY <1>1, <1>3, <1>5, DataAppend
  <2>4. unread' = IF IsData(k) THEN Append(unread, c) ELSE unread
    BY <1>1
  <2> HIDE DEF rx, x, c
  <2>5. Append(rx \o x, c) = rx \o Append(x, c)
    BY <2>1, ConcatAppend
  <2>6. unread' = rx \o DataIn(fifo')
    BY <2>2, <2>3, <2>4, <2>5
  <2> QED  BY <1>2, <2>6 DEF InputKept, rx
<1>12. OutputRight'
  BY <1>2 DEF TermInv, OutputRight
<1> QED  BY <1>2, <1>9, <1>10, <1>11, <1>12 DEF TermInv

\* A byte that overruns the UART leaves everything but the host's slack alone.
LEMMA HostSendKeeps == ASSUME TermioAssumption, TermInv, HostSend  PROVE TermInv'
<1>1. CASE Len(fifo) < Fifo
  BY <1>1, HostSendTaken
<1>2. CASE ~(Len(fifo) < Fifo)
  <2>1. /\ fifo' = fifo /\ unread' = unread /\ (host.stopped => host.left > 0)
        /\ host' = IF host.stopped THEN [host EXCEPT !.left = host.left - 1] ELSE host
        /\ dev' = dev /\ doing' = doing /\ wr' = wr /\ shown' = shown
    BY <1>2 DEF HostSend
  <2>2. TermType /\ Flow(dev[Serial], host, Len(fifo)) /\ InputKept
    BY DEF TermInv
  <2>3. dev[Serial] \in TtyDev /\ host \in HostState
    BY <2>2 DEF TermType, Serial, Devs
  <2>4. host' \in HostState
    BY <2>1, <2>3 DEF HostState, TermioAssumption
  <2>5. TermType'
    BY <2>1, <2>2, <2>4 DEF TermType
  <2>6. Flow(dev[Serial], host', Len(fifo))
    <3>1. /\ Len(dev[Serial].rx) \in Nat /\ host.left \in 0 .. Slack /\ Len(fifo) \in Nat
      BY <2>2, <2>3 DEF TtyDev, HostState, TermType
    <3>2. host'.stopped = host.stopped /\ host'.left \in Int /\ host'.left <= host.left
      BY <2>1, <2>3, <3>1 DEF HostState, TermioAssumption
    <3> DEFINE L == Len(dev[Serial].rx)
               F == Len(fifo)
    <3>3. L + F + host.left <= QLimit => L + F + host'.left <= QLimit
      <4> HIDE DEF L, F
      <4> QED  BY <3>1, <3>2 DEF TermioAssumption, L, F
    <3> QED  BY <2>2, <3>2, <3>3 DEF Flow
  <2>7. InputKept' /\ OutputRight'
    BY <2>1 DEF TermInv, InputKept, OutputRight
  <2> QED  BY <2>1, <2>5, <2>6, <2>7 DEF TermInv
<1> QED  BY <1>1, <1>2

\* termio_write starts.
LEMMA WriteKeeps ==
  ASSUME TermioAssumption, TermInv, NEW ds \in {<<1, 2>>, <<2, 1>>}, NEW t \in Writes, Write(ds, t)
  PROVE  TermInv'
<1>1. /\ doing = "idle" /\ WriteTo(ds, t, "idle")
      /\ dev' = dev /\ fifo' = fifo /\ host' = host /\ unread' = unread
  BY DEF Write
<1>2. t \in Seq(Char)
  <2>1. t \in Seq({"a", "nl"}) /\ {"a", "nl"} \subseteq Char
    BY DEF TermioAssumption, Char
  <2> QED  BY <2>1
<1>3. \A d \in Devs : dev'[d].tx = <<>>
  BY <1>1 DEF TermInv
<1>4. /\ wr' \in WriteState /\ shown' \in [Devs -> Seq(Char)]
      /\ doing' \in {"idle", "read", "write"} /\ OutPart'
  BY <1>1, <1>2, <1>3, StartWrite
<1>5. TermType'
  BY <1>1, <1>4 DEF TermInv, TermType
<1>6. Flow(dev[Serial], host, Len(fifo))' /\ InputKept'
  BY <1>1 DEF TermInv, InputKept
<1> QED  BY <1>4, <1>5, <1>6 DEF TermInv, OutPart

\* A part of the text goes into the queue, and the queue does not overflow.
LEMMA FillKeeps == ASSUME TermioAssumption, TermInv, FillTx  PROVE TermInv'
<1> DEFINE e == wr.devs[1]
           k == Queued(wr.left, QLimit - Len(dev[e].tx))
           x == OutText(SubSeq(wr.left, 1, k))
           y == SubSeq(wr.left, k + 1, Len(wr.left))
           q == dev[e].tx \o x
<1>1. /\ doing = "write" /\ wr.left # <<>> /\ dev[e].tx = <<>>
      /\ dev' = [dev EXCEPT ![e].tx = q] /\ wr' = [wr EXCEPT !.left = y]
      /\ doing' = IF Len(q) > QLimit THEN "hung" ELSE doing
      /\ fifo' = fifo /\ host' = host /\ shown' = shown /\ unread' = unread
  BY DEF FillTx
<1>2. /\ dev \in [Devs -> TtyDev] /\ shown \in [Devs -> Seq(Char)] /\ wr \in WriteState /\ QLimit \in Nat
  BY DEF TermInv, TermType, TermioAssumption
<1>3. wr.devs # <<>> /\ OutputRight
  BY <1>1 DEF TermInv
<1>4. e \in Devs /\ wr.left \in Seq(Char) /\ wr.text \in Seq(Char)
  BY <1>2, <1>3 DEF WriteState, DevLists, Devs
<1>5. k \in 0 .. Len(wr.left) /\ Len(x) <= QLimit
  <2>1. QLimit - Len(dev[e].tx) = QLimit
    BY <1>1, <1>2
  <2> QED  BY <1>2, <1>4, <2>1, QueuedIs
<1>6. OutText(wr.left) = x \o OutText(y)
  <2> HIDE DEF k
  <2> QED  BY <1>4, <1>5, OutSplit
<1>7. SubSeq(wr.left, 1, k) \in Seq(Char) /\ y \in Seq(Char)
  <2> HIDE DEF k
  <2> QED  BY <1>4, <1>5
<1>8. x \in Seq(Char) /\ OutText(y) \in Seq(Char)
  <2> HIDE DEF k
  <2>1. \A s : s \in Seq(Char) => OutText(s) \in Seq(Char)
    BY OutType
  <2> QED  BY <1>7, <2>1
<1> HIDE DEF e, k, x, y
<1>9. q = x
  BY <1>1, <1>8, ConcatEmptySeq
<1> HIDE DEF q
<1>10. doing' = doing
  <2>1. Len(x) \in Nat
    BY <1>8
  <2> QED  BY <1>1, <1>2, <1>5, <1>9, <2>1
<1>11. /\ wr' \in WriteState /\ wr'.left = y /\ wr'.devs = wr.devs /\ wr'.text = wr.text
  BY <1>1, <1>2, <1>7 DEF WriteState, DevLists
<1>12. /\ dev' \in [Devs -> TtyDev] /\ \A d \in Devs : d # e => dev'[d] = dev[d]
       /\ dev'[e].tx = x /\ dev'[e].rx = dev[e].rx /\ dev'[e].rxoff = dev[e].rxoff
  BY <1>1, <1>2, <1>4, <1>8, <1>9 DEF TtyDev
<1>13. \A d \in Devs : dev'[d].rx = dev[d].rx /\ dev'[d].rxoff = dev[d].rxoff
  BY <1>12
<1>14. TermType'
  BY <1>1, <1>10, <1>11, <1>12 DEF TermInv, TermType
<1>15. Flow(dev'[Serial], host', Len(fifo')) /\ InputKept'
  <2>1. dev'[Serial].rx = dev[Serial].rx /\ dev'[Serial].rxoff = dev[Serial].rxoff
    BY <1>13 DEF Serial, Devs
  <2>2. Flow(dev[Serial], host, Len(fifo)) /\ InputKept
    BY DEF TermInv
  <2> QED  BY <1>1, <2>1, <2>2 DEF Flow, InputKept
<1>16. ASSUME NEW d \in Devs
       PROVE  shown'[d] \o dev'[d].tx \o OutText(LeftOf(wr', d)) = OutText(wr'.text)
  <2>1. shown[d] \o dev[d].tx \o OutText(LeftOf(wr, d)) = OutText(wr.text)
    BY <1>3, OutIs
  <2>2. CASE d = e
    <3>1. LeftOf(wr, d) = wr.left /\ LeftOf(wr', d) = y
      BY <1>2, <1>3, <1>11, <2>2, LeftCases DEF e
    <3> DEFINE o == shown[d]
               z == OutText(y)
    <3>2. o \in Seq(Char) /\ x \in Seq(Char) /\ z \in Seq(Char)
      BY <1>2, <1>8
    <3>3. o \o <<>> \o (x \o z) = OutText(wr.text)
      BY <1>1, <1>6, <2>1, <2>2, <3>1
    <3> HIDE DEF o, z
    <3>4. o \o <<>> = o
      BY <3>2, ConcatEmptySeq
    <3>5. (o \o x) \o z = o \o (x \o z)
      BY <3>2, ConcatAssociative, SMTT(60)
    <3>6. o \o x \o z = OutText(wr.text)
      BY <3>3, <3>4, <3>5
    <3> QED  BY <1>1, <1>11, <1>12, <2>2, <3>1, <3>6 DEF o, z
  <2>3. CASE d # e
    <3>1. LeftOf(wr', d) = LeftOf(wr, d)
      BY <1>11, <2>3 DEF LeftOf, e
    <3> QED  BY <1>1, <1>11, <1>12, <2>1, <2>3, <3>1
  <2> QED  BY <2>2, <2>3
<1>17. OutputRight'
  BY <1>1, <1>10, <1>16 DEF OutputRight, LeftOf
<1>18. \A d \in Devs : dev'[d].tx # <<>> => doing' = "write" /\ wr'.devs[1] = d
  BY <1>1, <1>10, <1>11, <1>12 DEF TermInv, e
<1> QED  BY <1>1, <1>3, <1>10, <1>11, <1>14, <1>15, <1>17, <1>18 DEF TermInv

\* What scandevs does to the invariant, with no write or with one under way.
LEMMA ScannedKeeps ==
  ASSUME TermioAssumption, TermInv, NEW k \in Ready, Scanned(scandevs(k)),
         doing' = doing, wr' = wr, unread' = unread
  PROVE  TermInv'
<1> DEFINE s == scandevs(k)
<1>1. dev' = s.dev /\ shown' = s.shown /\ fifo' = s.fifo /\ host' = s.host
  BY DEF Scanned
<1>2. TermType /\ Flow(dev[Serial], host, Len(fifo)) /\ InputKept /\ OutputRight
  BY DEF TermInv
<1>3. /\ s.fifo = <<>> /\ s.host \in HostState
      /\ s.dev \in [Devs -> TtyDev] /\ s.shown \in [Devs -> Seq(Char)]
      /\ s.dev[Serial].rx = dev[Serial].rx \o DataIn(fifo)
      /\ Flow(s.dev[Serial], s.host, 0)
      /\ \A i \in Devs : /\ s.shown[i] \o s.dev[i].tx = shown[i] \o dev[i].tx
                         /\ dev[i].tx = <<>> => s.dev[i].tx = <<>>
  BY <1>2, ScanIs
<1> HIDE DEF s
<1>4. Len(<<>>) = 0 /\ <<>> \in Seq(Char)
  OBVIOUS
<1>5. TermType'
  BY <1>1, <1>2, <1>3, <1>4 DEF TermType, TermioAssumption
<1>6. Flow(dev'[Serial], host', Len(fifo'))
  BY <1>1, <1>3, <1>4
<1>7. InputKept'
  <2>1. dev'[Serial].rx \in Seq(Char)
    BY <1>5 DEF TermType, TtyDev, Serial, Devs
  <2>2. unread' = dev'[Serial].rx
    BY <1>1, <1>2, <1>3 DEF InputKept
  <2>3. dev'[Serial].rx \o <<>> = dev'[Serial].rx
    BY <2>1, ConcatEmptySeq
  <2>4. DataIn(fifo') = <<>>
    BY <1>1, <1>3, DataNil
  <2> QED  BY <2>2, <2>3, <2>4 DEF InputKept
<1>8. OutputRight'
  <2>1. ASSUME NEW d \in Devs
        PROVE shown'[d] \o dev'[d].tx \o OutText(LeftOf(wr', d)) = OutText(wr'.text)
    <3>1. shown[d] \o dev[d].tx \o OutText(LeftOf(wr, d)) = OutText(wr.text)
      BY <1>2, OutIs
    <3>2. shown'[d] \o dev'[d].tx = shown[d] \o dev[d].tx
      BY <1>1, <1>3
    <3> QED  BY <3>1, <3>2
  <2> QED  BY <1>2, <2>1 DEF OutputRight, LeftOf
<1>9. \A d \in Devs : dev'[d].tx # <<>> => doing' = "write" /\ wr'.devs[1] = d
  BY <1>1, <1>3 DEF TermInv
<1> QED  BY <1>5, <1>6, <1>7, <1>8, <1>9 DEF TermInv

\* Between writes the queues for output are empty.
LEMMA NothingShown ==
  ASSUME TermInv, doing # "write"
  PROVE  wr = NoWrite /\ \A d \in Devs : shown[d] = <<>> /\ dev[d].tx = <<>>
<1>1. /\ wr = NoWrite /\ OutputRight /\ shown \in [Devs -> Seq(Char)]
      /\ \A d \in Devs : dev[d].tx = <<>>
  BY DEF TermInv, TermType
<1>2. wr \in WriteState /\ wr.devs = <<>> /\ wr.text = <<>>
  BY <1>1 DEF NoWrite, WriteState, DevLists
<1>3. ASSUME NEW d \in Devs  PROVE shown[d] = <<>>
  <2>1. LeftOf(wr, d) = <<>>
    BY <1>2, LeftCases
  <2>2. shown[d] \o <<>> \o <<>> = <<>> /\ shown[d] \in Seq(Char)
    BY <1>1, <1>2, <2>1, OutIs, OutNil
  <2>3. shown[d] \o <<>> = shown[d]
    BY <2>2, ConcatEmptySeq
  <2> QED  BY <2>2, <2>3
<1> QED  BY <1>1, <1>3

\* After the first of two devices comes the other one.
LEMMA TwoDevs ==
  ASSUME NEW ds \in DevLists, Len(ds) > 1
  PROVE  /\ ds \in {<<1, 2>>, <<2, 1>>} /\ Tail(ds) \in {<<1>>, <<2>>} /\ Tail(ds) # <<>>
         /\ \A d \in Devs : Tail(ds)[1] # d <=> ds[1] = d
<1>1. Len(<<>>) = 0 /\ Len(<<1>>) = 1 /\ Len(<<2>>) = 1
  OBVIOUS
<1>2. ds = <<1, 2>> \/ ds = <<2, 1>>
  BY <1>1 DEF DevLists
<1>3. Tail(<<1, 2>>) = <<2>> /\ Tail(<<2, 1>>) = <<1>>
  OBVIOUS
<1>4. <<1>> # <<>> /\ <<2>> # <<>>
  OBVIOUS
<1>5. Devs = {1, 2}
  BY DEF Devs
<1>6. CASE ds = <<1, 2>>
  <2>1. ds[1] = 1 /\ Tail(ds) = <<2>> /\ Tail(ds)[1] = 2
    BY <1>3, <1>6
  <2> QED  BY <1>4, <1>5, <1>6, <2>1
<1>7. CASE ds = <<2, 1>>
  <2>1. ds[1] = 2 /\ Tail(ds) = <<1>> /\ Tail(ds)[1] = 1
    BY <1>3, <1>7
  <2> QED  BY <1>4, <1>5, <1>7, <2>1
<1> QED  BY <1>2, <1>6, <1>7

\* The next device gets the whole text again; after the last the write returns.
LEMMA NextDevKeeps == ASSUME TermioAssumption, TermInv, NextDev  PROVE TermInv'
<1> DEFINE more == Len(wr.devs) > 1
<1>1. /\ doing = "write" /\ wr.left = <<>> /\ dev[wr.devs[1]].tx = <<>>
      /\ wr' = IF more THEN [wr EXCEPT !.devs = Tail(wr.devs), !.left = wr.text] ELSE NoWrite
      /\ doing' = IF more THEN doing ELSE wr.back
      /\ shown' = IF more THEN shown ELSE [d \in Devs |-> <<>>]
      /\ dev' = dev /\ fifo' = fifo /\ host' = host /\ unread' = unread
  BY DEF NextDev
<1>2. /\ wr \in WriteState /\ wr.devs # <<>> /\ OutputRight /\ TermType
      /\ \A d \in Devs : dev[d].tx # <<>> => wr.devs[1] = d
  BY <1>1 DEF TermInv, TermType
<1>3. \A d \in Devs : dev[d].tx = <<>>
  BY <1>1, <1>2
<1>4. Flow(dev'[Serial], host', Len(fifo')) /\ InputKept'
  BY <1>1 DEF TermInv, InputKept
<1>5. CASE more
  <2>1. /\ wr' = [wr EXCEPT !.devs = Tail(wr.devs), !.left = wr.text] /\ doing' = "write" /\ shown' = shown
    BY <1>1, <1>5
  <2>2. /\ wr.devs \in {<<1, 2>>, <<2, 1>>} /\ Tail(wr.devs) \in {<<1>>, <<2>>} /\ Tail(wr.devs) # <<>>
        /\ \A d \in Devs : Tail(wr.devs)[1] # d <=> wr.devs[1] = d
    <3>1. wr.devs \in DevLists
      BY <1>2 DEF WriteState, DevLists
    <3> QED  BY <1>5, <3>1, TwoDevs
  <2>4. /\ wr' \in WriteState /\ wr'.left = wr.text /\ wr'.text = wr.text /\ wr'.devs = Tail(wr.devs)
    BY <1>2, <2>1, <2>2 DEF WriteState, DevLists
  <2>3. /\ wr'.devs \in {<<1>>, <<2>>} /\ wr'.devs # <<>>
        /\ \A d \in Devs : wr'.devs[1] # d <=> wr.devs[1] = d
    BY <2>2, <2>4
  <2>5. wr'.devs # <<>>
    BY <2>3
  <2>6. ASSUME NEW d \in Devs  PROVE LeftOf(wr', d) = LeftOf(wr, d)
    <3>1. CASE d = wr.devs[1]
      <4>1. LeftOf(wr, d) = <<>>
        BY <1>1, <1>2, <3>1, LeftCases
      <4>2. LeftOf(wr', d) = <<>>
        BY <2>3, <2>4, <3>1, LeftCases
      <4> QED  BY <4>1, <4>2
    <3>2. CASE d # wr.devs[1]
      <4>1. LeftOf(wr, d) = wr.text
        BY <1>2, <2>2, <3>2, LeftCases
      <4>2. d = wr'.devs[1]
        BY <2>3, <3>2
      <4>3. LeftOf(wr', d) = wr.text
        BY <2>4, <2>5, <4>2, LeftCases
      <4> QED  BY <4>1, <4>3
    <3> QED  BY <3>1, <3>2
  <2>7. ASSUME NEW d \in Devs
        PROVE shown'[d] \o dev'[d].tx \o OutText(LeftOf(wr', d)) = OutText(wr'.text)
    <3>1. shown[d] \o dev[d].tx \o OutText(LeftOf(wr, d)) = OutText(wr.text)
      BY <1>2, OutIs
    <3> QED  BY <1>1, <2>1, <2>4, <2>6, <3>1
  <2>8. OutputRight'
    BY <2>1, <2>7 DEF OutputRight, LeftOf
  <2>9. TermType'
    BY <1>1, <1>2, <2>1, <2>4 DEF TermType
  <2> QED  BY <1>1, <1>3, <1>4, <2>1, <2>5, <2>8, <2>9 DEF TermInv
<1>6. CASE ~more
  <2>1. wr' = NoWrite /\ doing' = wr.back /\ shown' = [d \in Devs |-> <<>>]
    BY <1>1, <1>6
  <2>2. wr.back \in {"idle", "read"}
    BY <1>2 DEF WriteState, DevLists
  <2>3. wr' \in WriteState
    BY <2>1 DEF NoWrite, WriteState, DevLists
  <2>4. \A d \in Devs : shown'[d] = <<>> /\ dev'[d].tx = <<>>
    BY <1>1, <1>3, <2>1
  <2>5. OutPart'
    <3>1. ASSUME NEW d \in Devs  PROVE shown'[d] \o dev'[d].tx \o OutText(LeftOf(wr', d)) = OutText(wr'.text)
      <4>1. wr'.devs = <<>> /\ wr'.text = <<>>
        BY <2>1 DEF NoWrite
      <4>2. LeftOf(wr', d) = <<>>
        BY <2>3, <4>1, LeftCases
      <4>3. <<>> \o <<>> \o <<>> = <<>>
        OBVIOUS
      <4> QED  BY <2>4, <4>1, <4>2, <4>3, OutNil
    <3>2. OutputRight'
      BY <2>1, <2>2, <3>1 DEF OutputRight, LeftOf
    <3> QED  BY <2>1, <2>2, <2>4, <3>2 DEF OutPart
  <2>6. TermType'
    BY <1>1, <1>2, <2>1, <2>2, <2>3 DEF TermType
  <2> QED  BY <1>4, <2>5, <2>6 DEF TermInv, OutPart
<1> QED  BY <1>5, <1>6

\* termio_read starts.
LEMMA ReadKeeps == ASSUME TermInv, NEW n, Read(n)  PROVE TermInv'
<1>1. /\ doing = "idle" /\ doing' = "read" /\ dev' = dev /\ fifo' = fifo /\ host' = host /\ wr' = wr
      /\ shown' = shown /\ unread' = unread
  BY DEF Read
<1>2. TermType' /\ Flow(dev'[Serial], host', Len(fifo')) /\ InputKept'
  BY <1>1 DEF TermInv, TermType, InputKept
<1>3. OutputRight'
  BY <1>1 DEF TermInv, OutputRight
<1> QED  BY <1>1, <1>2, <1>3 DEF TermInv

\* An ioctl changes nothing that the invariant is about.
LEMMA QuietKeeps ==
  ASSUME TermInv, UNCHANGED <<dev, fifo, host, doing, wr, shown, unread>>  PROVE TermInv'
<1>1. TermType' /\ Flow(dev'[Serial], host', Len(fifo')) /\ InputKept'
  BY DEF TermInv, TermType, InputKept
<1>2. OutputRight'
  BY DEF TermInv, OutputRight
<1> QED  BY <1>1, <1>2 DEF TermInv

\* An echo is characters.
LEMMA EchoType ==
  ASSUME NEW c \in Char, NEW erase \in BOOLEAN  PROVE EchoOf(c, erase) \in Seq(Char)
<1>1. "bs" \in Char /\ "sp" \in Char
  BY DEF Char
<1>2. <<"bs", "sp", "bs">> \in Seq(Char) /\ <<"bs">> \in Seq(Char) /\ <<c>> \in Seq(Char) /\ <<>> \in Seq(Char)
  BY <1>1
<1>3. \/ EchoOf(c, erase) = <<"bs", "sp", "bs">> \/ EchoOf(c, erase) = <<"bs">>
      \/ EchoOf(c, erase) = <<c>> \/ EchoOf(c, erase) = <<>>
  BY DEF EchoOf
<1> QED  BY <1>2, <1>3

\* A byte is read: it is the first of those unread, and if the host is told to go
\* on then the queue is below the level again.
LEMMA ReadByteKeeps == ASSUME TermioAssumption, TermInv, ReadByte  PROVE TermInv'
<1> DEFINE s == scandevs(0)
           d == s.dev[Serial]
           go == d.rxoff /\ Resume(Len(d.rx))
           c == InMap(Head(d.rx))
           canon == "ICANON" \in lflags
           erase == canon /\ c = "bs"
           i == CASE ~erase -> rd.i + 1
                  [] erase /\ rd.i > 0 -> rd.i - 1
                  [] OTHER -> 0
           echo == IF canon /\ (erase => rd.i > 0) THEN EchoOf(c, erase) ELSE <<>>
           back == IF i = rd.n \/ (canon /\ c \in {"nl", "intr"}) THEN "idle" ELSE "read"
<1>1. /\ doing = "read" /\ d.rx # <<>>
      /\ dev' = [s.dev EXCEPT ![Serial].rx = Tail(d.rx), ![Serial].rxoff = d.rxoff /\ ~go]
      /\ fifo' = s.fifo /\ host' = IF go THEN Told(FALSE) ELSE s.host
      /\ unread' = IF unread # <<>> /\ Head(unread) = Head(d.rx) THEN Tail(unread) ELSE Append(unread, Head(d.rx))
      /\ IF echo # <<>> THEN WriteTo(<<1, 2>>, echo, back)
         ELSE doing' = back /\ UNCHANGED <<wr, shown>>
  BY DEF ReadByte
<1>2. TermType /\ Flow(dev[Serial], host, Len(fifo)) /\ InputKept /\ OutputRight
  BY DEF TermInv
<1>3. wr = NoWrite /\ \A e \in Devs : shown[e] = <<>> /\ dev[e].tx = <<>>
  BY <1>1, NothingShown
<1>4. 0 \in Ready
  <2>1. dev[Serial].tx \in Seq(Char)
    BY <1>2 DEF TermType, TtyDev, Serial, Devs
  <2>2. Len(dev[Serial].tx) \in Nat
    BY <2>1
  <2> QED  BY <2>2 DEF Ready
<1>5. /\ s.fifo = <<>> /\ s.host \in HostState
      /\ s.dev \in [Devs -> TtyDev] /\ s.shown \in [Devs -> Seq(Char)]
      /\ s.dev[Serial].rx = dev[Serial].rx \o DataIn(fifo)
      /\ Flow(s.dev[Serial], s.host, 0)
      /\ \A e \in Devs : /\ s.shown[e] \o s.dev[e].tx = shown[e] \o dev[e].tx
                         /\ dev[e].tx = <<>> => s.dev[e].tx = <<>>
  BY <1>2, <1>4, ScanIs
<1>6. back \in {"idle", "read"}
  OBVIOUS
<1> HIDE DEF s, back, i
<1>7. Serial \in Devs /\ d \in TtyDev /\ d.rx \in Seq(Char) /\ d.rxoff \in BOOLEAN
  <2>1. Serial \in Devs
    BY DEF Serial, Devs
  <2>2. s.dev \in [Devs -> TtyDev]
    BY <1>5
  <2>3. d \in TtyDev
    BY <2>1, <2>2
  <2> HIDE DEF d
  <2> QED  BY <2>1, <2>3 DEF TtyDev
<1> HIDE DEF d
<1>8. Head(d.rx) \in Char /\ Tail(d.rx) \in Seq(Char) /\ Len(Tail(d.rx)) = Len(d.rx) - 1
  BY <1>1, <1>7, HeadTailProperties
<1>9. c \in Char
  BY <1>8 DEF InMap, Char
<1>10. echo \in Seq(Char)
  <2>1. erase \in BOOLEAN /\ <<>> \in Seq(Char)
    OBVIOUS
  <2> HIDE DEF erase, c
  <2>2. EchoOf(c, erase) \in Seq(Char)
    BY <1>9, <2>1, EchoType
  <2> QED  BY <2>1, <2>2
<1> HIDE DEF echo, go, canon, erase, c
<1>11. /\ dev' \in [Devs -> TtyDev] /\ dev'[Serial].rx = Tail(d.rx)
       /\ dev'[Serial].rxoff = (d.rxoff /\ ~go) /\ dev'[Serial].tx = d.tx
       /\ \A e \in Devs : e # Serial => dev'[e] = s.dev[e]
  <2> DEFINE off == d.rxoff /\ ~go
             q == Tail(d.rx)
  <2>1. off \in BOOLEAN
    OBVIOUS
  <2>2. d = s.dev[Serial]
    BY DEF d
  <2>3. dev' = [s.dev EXCEPT ![Serial] = [rx |-> q, tx |-> d.tx, txoff |-> d.txoff, rxoff |-> off]]
    <3> HIDE DEF off, q
    <3>1. dev' = [s.dev EXCEPT ![Serial].rx = q, ![Serial].rxoff = off]
      BY <1>1 DEF off, q
    <3> DEFINE a == [d EXCEPT !.rx = q]
               m == [s.dev EXCEPT ![Serial] = a]
    <3>2. dev' = [m EXCEPT ![Serial] = [m[Serial] EXCEPT !.rxoff = off]]
      BY <2>2, <3>1
    <3>3. m[Serial] = a /\ m = [s.dev EXCEPT ![Serial] = a] /\ DOMAIN s.dev = Devs
      BY <1>5, <1>7
    <3>4. [a EXCEPT !.rxoff = off] = [rx |-> q, tx |-> d.tx, txoff |-> d.txoff, rxoff |-> off]
      <4>1. d \in TtyDev
        BY <1>7
      <4>2. a = [rx |-> q, tx |-> d.tx, txoff |-> d.txoff, rxoff |-> d.rxoff]
        BY <4>1 DEF TtyDev
      <4> HIDE DEF a
      <4> QED  BY <4>2
    <3> HIDE DEF a, m
    <3>5. dev' = [m EXCEPT ![Serial] = [rx |-> q, tx |-> d.tx, txoff |-> d.txoff, rxoff |-> off]]
      BY <3>2, <3>3, <3>4
    <3> QED  BY <1>7, <3>3, <3>5
  <2>4. [rx |-> q, tx |-> d.tx, txoff |-> d.txoff, rxoff |-> off] \in TtyDev
    BY <1>7, <1>8, <2>1 DEF TtyDev
  <2> HIDE DEF off, q
  <2>5. dev' \in [Devs -> TtyDev] /\ dev'[Serial] = [rx |-> q, tx |-> d.tx, txoff |-> d.txoff, rxoff |-> off]
    BY <1>5, <1>7, <2>3, <2>4
  <2>6. \A e \in Devs : e # Serial => dev'[e] = s.dev[e]
    BY <1>5, <2>3
  <2> QED  BY <2>5, <2>6 DEF off, q
<1>12. host' \in HostState
  BY <1>1, <1>5 DEF Told, HostState, TermioAssumption
<1>13. Flow(dev'[Serial], host', 0)
  <2> DEFINE L == Len(d.rx)
  <2>1. L \in Nat /\ Flow(d, s.host, 0)
    BY <1>5, <1>7 DEF d
  <2>2. QLimit \in Nat /\ Trigger \in Nat /\ Slack \in Nat
    BY DEF TermioAssumption
  <2>3. Len(dev'[Serial].rx) = L - 1
    BY <1>8, <1>11
  <2>4. CASE go
    <3>1. ~dev'[Serial].rxoff /\ dev'[Serial].rxoff = FALSE
      BY <1>11, <2>4
    <3>2. host' = [stopped |-> FALSE, left |-> Slack]
      BY <1>1, <2>4 DEF Told
    <3>3. host'.stopped = FALSE
      BY <3>2
    <3>4. L < QLimit + 1 - Trigger
      BY <2>4 DEF go, Resume
    <3> HIDE DEF L
    <3>5. L - 1 <= QLimit + 1 - Trigger
      BY <2>1, <2>2, <3>4
    <3> QED  BY <2>3, <3>1, <3>3, <3>5 DEF Flow
  <2>5. CASE ~go
    <3>1. dev'[Serial].rxoff = d.rxoff /\ host' = s.host
      BY <1>1, <1>7, <1>11, <2>5
    <3>2. s.host.stopped = d.rxoff
      BY <2>1 DEF Flow
    <3>3. CASE d.rxoff
      <4>1. L + 0 + s.host.left <= QLimit /\ s.host.left \in 0 .. Slack
        BY <1>5, <2>1, <3>3 DEF Flow, HostState
      <4> HIDE DEF L
      <4>2. L - 1 + 0 + s.host.left <= QLimit
        BY <2>1, <2>2, <4>1
      <4> QED  BY <2>3, <3>1, <3>2, <3>3, <4>2 DEF Flow
    <3>4. CASE ~d.rxoff
      <4>1. L <= QLimit + 1 - Trigger
        BY <2>1, <3>4 DEF Flow
      <4> HIDE DEF L
      <4>2. L - 1 <= QLimit + 1 - Trigger
        BY <2>1, <2>2, <4>1
      <4> QED  BY <2>3, <3>1, <3>2, <3>4, <4>2 DEF Flow
    <3> QED  BY <3>3, <3>4
  <2> QED  BY <2>4, <2>5
<1>14. fifo' = <<>> /\ Len(<<>>) = 0 /\ <<>> \in Seq(Char)
  BY <1>1, <1>5
<1>15. InputKept'
  <2>1. unread = d.rx
    BY <1>2, <1>5 DEF InputKept, d
  <2>2. unread' = Tail(d.rx)
    BY <1>1, <2>1
  <2>3. DataIn(fifo') = <<>>
    BY <1>14, DataNil
  <2>4. Tail(d.rx) \o <<>> = Tail(d.rx)
    BY <1>8, ConcatEmptySeq
  <2> QED  BY <1>11, <2>2, <2>3, <2>4 DEF InputKept
<1>16. \A e \in Devs : dev'[e].tx = <<>>
  BY <1>3, <1>5, <1>11 DEF d
<1>17. /\ wr' \in WriteState /\ shown' \in [Devs -> Seq(Char)]
       /\ doing' \in {"idle", "read", "write"} /\ OutPart'
  <2>1. CASE echo # <<>>
    <3>1. WriteTo(<<1, 2>>, echo, back)
      BY <1>1, <2>1
    <3> QED  BY <1>6, <1>10, <1>16, <3>1, StartWrite
  <2>2. CASE echo = <<>>
    <3>1. doing' = back /\ wr' = wr /\ shown' = shown
      BY <1>1, <2>2
    <3>2. \A e \in Devs : dev'[e].tx = dev[e].tx
      BY <1>3, <1>16
    <3>3. OutputRight'
      BY <1>2, <1>6, <3>1, <3>2 DEF OutputRight
    <3>4. OutPart'
      BY <1>3, <1>6, <1>16, <3>1, <3>3 DEF OutPart
    <3> QED  BY <1>2, <1>6, <3>1, <3>4 DEF TermType
  <2> QED  BY <2>1, <2>2
<1>18. TermType'
  BY <1>11, <1>12, <1>14, <1>17 DEF TermType, TermioAssumption
<1> QED  BY <1>13, <1>14, <1>15, <1>17, <1>18 DEF TermInv, OutPart

\* Every step keeps the invariant.
LEMMA TermInvNext == TermioAssumption /\ TermInv /\ [TermNext]_termvars => TermInv'
<1> SUFFICES ASSUME TermioAssumption, TermInv, [TermNext]_termvars  PROVE TermInv'
  OBVIOUS
<1>1. CASE HostSend
  BY <1>1, HostSendKeeps
<1>2. CASE FillTx
  BY <1>2, FillKeeps
<1>3. ASSUME NEW k \in Ready, Drain(k)  PROVE TermInv'
  BY <1>3, ScannedKeeps DEF Drain
<1>4. CASE NextDev
  BY <1>4, NextDevKeeps
<1>5. CASE ReadScan
  <2>1. dev[Serial].tx \in Seq(Char)
    BY DEF TermInv, TermType, TtyDev, Serial, Devs
  <2>2. Len(dev[Serial].tx) \in Nat
    BY <2>1
  <2>3. 0 \in Ready
    BY <2>2 DEF Ready
  <2>4. Scanned(scandevs(0)) /\ doing' = doing /\ wr' = wr /\ unread' = unread
    BY <1>5 DEF ReadScan
  <2> QED  BY <2>3, <2>4, ScannedKeeps
<1>6. CASE ReadByte
  BY <1>6, ReadByteKeeps
<1>7. ASSUME NEW n \in ReadLen, Read(n)  PROVE TermInv'
  BY <1>7, ReadKeeps
<1>8. ASSUME NEW ds \in {<<1, 2>>, <<2, 1>>}, NEW t \in Writes, Write(ds, t)  PROVE TermInv'
  BY <1>8, WriteKeeps
<1>9. CASE TCSNCANON \/ TCSBREAK \/ TCSTERMIO \/ MainLoop
  <2>1. UNCHANGED <<dev, fifo, host, doing, wr, shown, unread>>
    BY <1>9 DEF TCSNCANON, TCSBREAK, TCSTERMIO, MainLoop, Ioctl
  <2> QED  BY <2>1, QuietKeeps
<1>10. CASE UNCHANGED termvars
  <2>1. UNCHANGED <<dev, fifo, host, doing, wr, shown, unread>>
    BY <1>10 DEF termvars
  <2> QED  BY <2>1, QuietKeeps
<1> QED  BY <1>1, <1>2, <1>3, <1>4, <1>5, <1>6, <1>7, <1>8, <1>9, <1>10 DEF TermNext, Writing, Reading, Reads

\* For queues, UARTs and host slacks of any size with Fifo + Slack < Trigger:
\* no byte that the UART has taken is lost, repeated or overtaken on the way to
\* the reader of termio_read, whenever scandevs happens to be called and
\* however often the UART overruns in between.
THEOREM InputAlwaysKept == TermSpec => []InputKept
<1>1. TermInit => TermInv
  BY TermioAssumption, TermInvInit
<1>2. TermInv /\ [TermNext]_termvars => TermInv'
  BY TermioAssumption, TermInvNext
<1>3. TermInv => InputKept
  BY DEF TermInv
<1> QED  BY <1>1, <1>2, <1>3, PTL DEF TermSpec

\* For queues of any size and texts of any length: termio_write gives both
\* devices the whole text, in order, each line end as two bytes, and never puts
\* a byte into a full queue.
THEOREM OutputAlwaysRight == TermSpec => []OutputRight
<1>1. TermInit => TermInv
  BY TermioAssumption, TermInvInit
<1>2. TermInv /\ [TermNext]_termvars => TermInv'
  BY TermioAssumption, TermInvNext
<1>3. TermInv => OutputRight
  BY DEF TermInv
<1> QED  BY <1>1, <1>2, <1>3, PTL DEF TermSpec

-----------------------------------------------------------------------------
(* The ring of the library heap.                                           *)

\* In the ring through F, n comes behind p: it is the next one above p, or p is
\* the last one and n the first.
Follows(F, p, n) ==
  /\ n \in F
  /\ \/ n > p /\ \A x \in F : ~(p < x /\ x < n)
     \/ n <= p /\ \A x \in F : n <= x /\ x <= p
\* The links L lead through F in the order of the addresses.
Ordered(F, L) == \A x \in F : Follows(F, x, L[x])

\* A nonempty set of numbers up to N has a greatest one.
LEMMA MostNat ==
  ASSUME NEW N \in Nat, NEW S \in SUBSET (0 .. N), S # {}
  PROVE  \E x \in S : \A y \in S : y <= x
<1> DEFINE T == {k \in 0 .. N : N - k \in S}
<1>1. T \in SUBSET Nat
  OBVIOUS
<1>2. T # {}
  <2>1. PICK x \in S : TRUE
    OBVIOUS
  <2>2. N - x \in 0 .. N /\ N - (N - x) = x
    OBVIOUS
  <2> QED  BY <2>1, <2>2
<1>3. PICK k \in T : \A j \in T : k <= j
  <2> HIDE DEF T
  <2> QED  BY <1>1, <1>2, LeastNat
<1>4. N - k \in S /\ k \in 0 .. N
  BY <1>3
<1>5. ASSUME NEW y \in S  PROVE y <= N - k
  <2>1. N - y \in 0 .. N /\ N - (N - y) = y
    OBVIOUS
  <2>2. N - y \in T
    BY <2>1
  <2>3. k <= N - y
    BY <1>3, <2>2
  <2> QED  BY <1>4, <2>1, <2>3
<1> QED  BY <1>4, <1>5

\* No two nodes have the same one behind them.
LEMMA OrderOne ==
  ASSUME NEW F \in SUBSET Nat, NEW L, Ordered(F, L), NEW x \in F, NEW y \in F, L[x] = L[y]
  PROVE  x = y
<1>1. Follows(F, x, L[x]) /\ Follows(F, y, L[y])
  BY DEF Ordered
<1>2. L[x] \in F /\ x \in Nat /\ y \in Nat /\ L[x] \in Nat
  BY <1>1 DEF Follows
<1> QED  BY <1>1, <1>2 DEF Follows

\* Only the links of nodes in the ring matter.
LEMMA OrderSame ==
  ASSUME NEW F, NEW L, Ordered(F, L), NEW M, \A x \in F : M[x] = L[x]
  PROVE  Ordered(F, M)
BY DEF Ordered

\* Where p belongs, between q and the node behind it.
Between(q, n, p) == (p > q /\ p < n) \/ (n <= q /\ (p > q \/ p < n))

\* A node is linked in where it belongs.
LEMMA OrderIn ==
  ASSUME NEW F \in SUBSET Nat, NEW L, Ordered(F, L), NEW q \in F, NEW p \in Nat, p \notin F, Between(q, L[q], p),
         NEW M, M[q] = p, M[p] = L[q], \A x \in F : x # q => M[x] = L[x]
  PROVE  Ordered(F \cup {p}, M)
<1>1. Follows(F, q, L[q]) /\ L[q] \in F /\ L[q] \in Nat /\ q \in Nat
  BY DEF Ordered, Follows
<1>2. Follows(F \cup {p}, q, p)
  BY <1>1 DEF Follows, Between
<1>3. Follows(F \cup {p}, p, L[q])
  BY <1>1 DEF Follows, Between
<1>4. ASSUME NEW x \in F, x # q  PROVE Follows(F \cup {p}, x, L[x])
  <2>1. Follows(F, x, L[x]) /\ L[x] \in F /\ L[x] \in Nat /\ x \in Nat
    BY DEF Ordered, Follows
  <2>2. CASE L[x] > x
    <3>1. ~(x < p /\ p < L[x])
      BY <1>1, <1>4, <2>1, <2>2 DEF Follows, Between
    <3> QED  BY <2>1, <2>2, <3>1 DEF Follows
  <2>3. CASE L[x] <= x
    <3>1. L[x] <= p /\ p <= x
      BY <1>1, <1>4, <2>1, <2>3 DEF Follows, Between
    <3> QED  BY <2>1, <2>3, <3>1 DEF Follows
  <2> QED  BY <2>1, <2>2, <2>3
<1> QED  BY <1>2, <1>3, <1>4 DEF Ordered

\* A node is taken out by linking the one before it to the one behind it.
LEMMA OrderOut ==
  ASSUME NEW F \in SUBSET Nat, NEW L, Ordered(F, L), NEW q \in F, NEW p \in F, p # q, L[q] = p,
         NEW M, M[q] = L[p], \A x \in F : x # q /\ x # p => M[x] = L[x]
  PROVE  Ordered(F \ {p}, M)
<1>1. Follows(F, q, p) /\ Follows(F, p, L[p]) /\ L[p] \in F /\ L[p] \in Nat /\ q \in Nat /\ p \in Nat
  BY DEF Ordered, Follows
<1>2. L[p] # p
  BY <1>1 DEF Follows
<1>3. Follows(F \ {p}, q, L[p])
  BY <1>1, <1>2 DEF Follows
<1>4. ASSUME NEW x \in F, x # q, x # p  PROVE Follows(F \ {p}, x, L[x])
  <2>1. Follows(F, x, L[x]) /\ L[x] # p
    BY <1>4, OrderOne DEF Ordered
  <2> QED  BY <2>1 DEF Follows
<1> QED  BY <1>3, <1>4 DEF Ordered

\* Nodes from which the links lead nowhere else are all there are.
LEMMA OrderClosed ==
  ASSUME NEW N \in Nat, NEW F \in SUBSET (0 .. N), NEW L, Ordered(F, L),
         NEW W \in SUBSET F, W # {}, \A x \in W : L[x] \in W
  PROVE  W = F
<1>1. W \in SUBSET (0 .. N) /\ \A x \in F : x \in Nat
  OBVIOUS
<1>2. PICK M \in W : \A y \in W : y <= M
  BY <1>1, MostNat
<1>3. Follows(F, M, L[M]) /\ L[M] \in W /\ L[M] <= M
  BY <1>2 DEF Ordered
<1>4. \A x \in F : L[M] <= x /\ x <= M
  <2>1. M \in Nat /\ L[M] \in Nat
    BY <1>1, <1>3
  <2> QED  BY <2>1, <1>3 DEF Follows
<1> SUFFICES ASSUME NEW x \in F, x \notin W  PROVE FALSE
  OBVIOUS
<1> DEFINE V == {w \in W : w < x}
<1>5. L[M] \in V
  <2>1. L[M] \in Nat /\ x \in Nat /\ L[M] <= x /\ L[M] # x
    BY <1>1, <1>3, <1>4
  <2> QED  BY <1>3, <2>1
<1>6. V \in SUBSET (0 .. N)
  BY <1>1
<1>7. PICK p \in V : \A y \in V : y <= p
  <2> HIDE DEF V
  <2> QED  BY <1>5, <1>6, MostNat
<1>8. p \in W /\ p < x /\ L[p] \in W /\ Follows(F, p, L[p]) /\ p \in Nat /\ L[p] \in Nat /\ x \in Nat
  BY <1>1, <1>7 DEF Ordered
<1>9. ~(L[p] < x /\ p < L[p])
  BY <1>7, <1>8
<1> QED  BY <1>8, <1>9 DEF Follows

\* Every address has a place in the ring.
LEMMA OrderPlace ==
  ASSUME NEW N \in Nat, NEW F \in SUBSET (0 .. N), F # {}, NEW L, Ordered(F, L), NEW p \in Nat, p \notin F
  PROVE  \E q \in F : Between(q, L[q], p)
<1> DEFINE V == {x \in F : x < p}
<1>0. \A x \in F : x \in Nat /\ L[x] \in F
  BY DEF Ordered, Follows
<1>1. CASE V = {}
  <2>1. PICK q \in F : \A y \in F : y <= q
    BY MostNat
  <2>2. L[q] \in F /\ L[q] <= q /\ q \in Nat /\ L[q] \in Nat
    BY <1>0, <2>1
  <2>3. p < L[q]
    <3>1. ~(L[q] < p) /\ L[q] # p
      BY <1>1, <2>2
    <3> QED  BY <2>2, <3>1
  <2> QED  BY <2>2, <2>3 DEF Between
<1>2. CASE V # {}
  <2>1. V \in SUBSET (0 .. N)
    OBVIOUS
  <2>2. PICK q \in V : \A y \in V : y <= q
    <3> HIDE DEF V
    <3> QED  BY <1>2, <2>1, MostNat
  <2>3. q \in F /\ q < p /\ q \in Nat /\ L[q] \in F /\ L[q] \in Nat /\ L[q] # p
    BY <1>0, <2>2
  <2>4. ~(L[q] < p /\ q < L[q])
    BY <2>2, <2>3
  <2> QED  BY <2>3, <2>4 DEF Between
<1> QED  BY <1>1, <1>2

-----------------------------------------------------------------------------
(* The library heap: what is where.                                        *)

\* The memory of malloc.c.
LibHeader == [ptr : Spots \cup {NoSpot}, size : Nat]
LibMem ==
  [hdr : [Spots -> LibHeader], base : {BaseBelow, BaseAbove}, allocp : Spots \cup {NoSpot}, brk : 2 .. LibHeap + 2]
LinksOf(m) == [x \in Spots |-> m.hdr[x].ptr]
SizesOf(m) == [x \in Spots |-> m.hdr[x].size]

\* The blocks B of the lengths S lie side by side, from the first unit up to top.
Paved(B, S, top) ==
  /\ \A p \in B : p >= 2 /\ S[p] >= 1 /\ p + S[p] <= top
  /\ \A p, q \in B : p # q => p + S[p] <= q \/ q + S[q] <= p
  /\ \A u \in 2 .. top - 1 : \E p \in B : p <= u /\ u < p + S[p]

\* The headers of the blocks callers hold.
Held(own) == {a - 1 : a \in DOMAIN own}

\* The ring leads through base and the free blocks F; these and the callers'
\* fill what was taken from md_sbrk, no two of F touch, and a caller has what
\* he asked for.
Ringing(m, F) ==
  /\ m.base \in F /\ F \ {m.base} \subseteq LibUnits /\ m.allocp \in F
  /\ Ordered(F, LinksOf(m)) /\ m.hdr[m.base].size = 0
Covers(n, b) == b <= (n - 1) * Header
Lent(m, own) ==
  /\ DOMAIN own \subseteq 3 .. LibHeap + 2
  /\ \A a \in DOMAIN own : Covers(m.hdr[a - 1].size, own[a])
Apiece(m, own, F) ==
  /\ Held(own) \cap F = {}
  /\ Paved(Held(own) \cup (F \ {m.base}), SizesOf(m), m.brk)
  /\ \A p, q \in F \ {m.base} : p + m.hdr[p].size # q
LibOk(m, own, F) == Ringing(m, F) /\ Lent(m, own) /\ Apiece(m, own, F)

\* The inductive invariant of the library heap.
LibInv ==
  /\ lib \in LibMem
  /\ IF lib.allocp = NoSpot THEN libOwned = <<>> /\ lib.brk = 2 ELSE \E F : LibOk(lib, libOwned, F)

\* Addresses are numbers, and base is no neighbour of the heap.
LEMMA SpotNat ==
  /\ LibHeap \in Nat /\ Spots \in SUBSET (0 .. LibHeap + 3) /\ NoSpot \notin Spots
  /\ \A x \in Spots : x \in Nat
  /\ \A x \in LibUnits : x \in Spots /\ x \in Nat /\ x >= 2 /\ x <= LibHeap + 1
  /\ \A m \in LibMem : m.base \in Spots /\ m.base \notin LibUnits /\ (m.base = 0 \/ m.base = LibHeap + 3)
<1>1. LibHeap \in Nat
  BY LibMallocAssumption
<1> QED  BY <1>1 DEF Spots, NoSpot, BaseBelow, BaseAbove, LibUnits, LibMem

\* The nodes of the ring are addresses.
LEMMA RingSpots ==
  ASSUME NEW m \in LibMem, NEW F, Ringing(m, F)
  PROVE  /\ F \subseteq Spots /\ F \in SUBSET (0 .. LibHeap + 3) /\ F \in SUBSET Nat /\ F # {} /\ m.allocp \in F
         /\ \A x \in F : LinksOf(m)[x] = m.hdr[x].ptr /\ m.hdr[x].ptr \in F
<1>1. \A x \in F : x \in Spots
  BY SpotNat DEF Ringing
<1>2. \A x \in F : LinksOf(m)[x] = m.hdr[x].ptr
  BY <1>1 DEF LinksOf
<1>3. \A x \in F : LinksOf(m)[x] \in F
  BY DEF Ringing, Ordered, Follows
<1>4. F \in SUBSET (0 .. LibHeap + 3)
  BY <1>1, SpotNat
<1>5. F \in SUBSET Nat
  BY <1>1, SpotNat
<1> QED  BY <1>1, <1>2, <1>3, <1>4, <1>5 DEF Ringing

\* What Ring is.
StepsOn(at, m) ==
  at = [k \in 0 .. LibHeap + 1 |->
          IF k = 0 THEN m.allocp ELSE IF at[k - 1] = NoSpot THEN NoSpot ELSE m.hdr[at[k - 1]].ptr]
LEMMA RingSteps ==
  ASSUME NEW m \in LibMem
  PROVE  /\ Ring(m)[0] = m.allocp
         /\ \A k \in 1 .. LibHeap + 1 :
              Ring(m)[k] = IF Ring(m)[k - 1] = NoSpot THEN NoSpot ELSE m.hdr[Ring(m)[k - 1]].ptr
<1> DEFINE N == LibHeap + 1
           S == Spots \cup {NoSpot}
           ln(q) == IF q = NoSpot THEN NoSpot ELSE m.hdr[q].ptr
           g == [x \in S \X (1 .. N) |-> ln(x[1])]
<1>1. N \in Nat /\ m.allocp \in S
  BY SpotNat DEF LibMem
<1>2. \A q \in S : ln(q) \in S
  <2>1. m.hdr \in [Spots -> LibHeader]
    BY DEF LibMem
  <2> QED  BY <2>1 DEF LibHeader
<1>3. g \in [S \X (1 .. N) -> S]
  <2>1. \A x \in S \X (1 .. N) : x[1] \in S
    OBVIOUS
  <2>2. \A x \in S \X (1 .. N) : ln(x[1]) \in S
    BY <1>2, <2>1
  <2> HIDE DEF ln
  <2> QED  BY <2>2
<1>4. PICK f : Goes(f, N, S, m.allocp, g)
  <2> HIDE DEF S, N, g
  <2> QED  BY <1>1, <1>3, Unrolled
<1>5. f \in [0 .. N -> S] /\ f[0] = m.allocp /\ \A i \in 1 .. N : f[i] = g[<<f[i - 1], i>>]
  BY <1>4 DEF Goes
<1>6. \A i \in 1 .. N : f[i] = ln(f[i - 1])
  <2> SUFFICES ASSUME NEW i \in 1 .. N  PROVE f[i] = ln(f[i - 1])
    OBVIOUS
  <2>1. i - 1 \in 0 .. N
    BY <1>1
  <2>2. f[i - 1] \in S
    <3> HIDE DEF S
    <3> QED  BY <1>5, <2>1
  <2>3. <<f[i - 1], i>> \in S \X (1 .. N)
    BY <2>2
  <2>4. g[<<f[i - 1], i>>] = ln(<<f[i - 1], i>>[1])
    <3> HIDE DEF S, ln
    <3> QED  BY <2>3
  <2> HIDE DEF g, ln, S, N
  <2> QED  BY <1>5, <2>4
<1>7. StepsOn(f, m)
  <2>1. f = [k \in 0 .. N |-> f[k]]
    <3> HIDE DEF S
    <3> QED  BY <1>5
  <2>2. ASSUME NEW k \in 0 .. N  PROVE f[k] = IF k = 0 THEN m.allocp ELSE ln(f[k - 1])
    <3>1. k = 0 \/ k \in 1 .. N
      BY <1>1
    <3> HIDE DEF ln, S
    <3> QED  BY <1>5, <1>6, <3>1
  <2> QED  BY <2>1, <2>2 DEF StepsOn
<1>8. Ring(m) = CHOOSE at : StepsOn(at, m)
  BY DEF Ring, StepsOn
<1>9. StepsOn(Ring(m), m)
  BY <1>7, <1>8
<1> DEFINE r == Ring(m)
<1>10. /\ 0 \in 0 .. N
       /\ \A k \in 1 .. N : k \in 0 .. N /\ k # 0
  BY <1>1
<1>11. \A k \in 0 .. N : r[k] = IF k = 0 THEN m.allocp ELSE IF r[k - 1] = NoSpot THEN NoSpot ELSE m.hdr[r[k - 1]].ptr
  <2> HIDE DEF r
  <2>1. StepsOn(r, m)
    BY <1>9 DEF r
  <2> QED  BY <2>1 DEF StepsOn
<1> QED  BY <1>10, <1>11

\* It stays in the ring, goes all round, and comes back to where it began.
LEMMA RingRound ==
  ASSUME NEW m \in LibMem, NEW F, Ringing(m, F)
  PROVE  /\ \A k \in 0 .. LibHeap + 1 : Ring(m)[k] \in F
         /\ \A k \in 1 .. LibHeap + 1 : Ring(m)[k] = m.hdr[Ring(m)[k - 1]].ptr
         /\ Round1(m) # {}
         /\ {Ring(m)[k] : k \in 0 .. LibHeap} = F
<1> DEFINE N == LibHeap + 1
           L == LinksOf(m)
           r == Ring(m)
<1>0. LibHeap \in Nat /\ N \in Nat /\ NoSpot \notin F
  BY SpotNat, RingSpots
<1>1. /\ r[0] \in F
      /\ \A k \in 1 .. N : r[k] = IF r[k - 1] = NoSpot THEN NoSpot ELSE m.hdr[r[k - 1]].ptr
  BY RingSteps, RingSpots
<1>2. \A k \in 0 .. N : r[k] \in F
  <2> DEFINE P == {k \in 0 .. N : r[k] \in F}
  <2>1. 0 \in P /\ P \in SUBSET (0 .. N)
    BY <1>0, <1>1
  <2>2. \A k \in 1 .. N : k - 1 \in P => k \in P
    <3> SUFFICES ASSUME NEW k \in 1 .. N, r[k - 1] \in F  PROVE r[k] \in F
      BY <1>0
    <3>1. r[k] = m.hdr[r[k - 1]].ptr
      BY <1>0, <1>1
    <3> HIDE DEF r
    <3> QED  BY <3>1, RingSpots
  <2>3. \A k \in 0 .. N : k \in P
    <3> HIDE DEF P, N
    <3> QED  BY <1>0, <2>1, <2>2, Upto
  <2> QED  BY <2>3
<1>3. ASSUME NEW k \in 1 .. N  PROVE r[k] = m.hdr[r[k - 1]].ptr /\ r[k] = L[r[k - 1]] /\ r[k - 1] \in F
  <2>1. k - 1 \in 0 .. N
    BY <1>0
  <2>2. r[k - 1] \in F
    BY <1>2, <2>1
  <2>3. r[k] = m.hdr[r[k - 1]].ptr
    BY <1>0, <1>1, <2>2
  <2> HIDE DEF r, L
  <2> QED  BY <2>2, <2>3, RingSpots DEF L
<1>4. Ordered(F, L) /\ F \in SUBSET (0 .. LibHeap + 3) /\ LibHeap + 3 \in Nat
  BY <1>0, RingSpots DEF Ringing
<1>5. IsFiniteSet(F) /\ Cardinality(F) <= LibHeap + 1
  <2>1. IsFiniteSet(LibUnits) /\ Cardinality(LibUnits) = LibHeap
    <3>1. 2 \in Int /\ N \in Int
      BY <1>0
    <3>2. IsFiniteSet(2 .. N) /\ Cardinality(2 .. N) = IF 2 > N THEN 0 ELSE N - 2 + 1
      <4> HIDE DEF N
      <4> QED  BY <3>1, FS_Interval
    <3> QED  BY <1>0, <3>2 DEF LibUnits
  <2>2. IsFiniteSet(LibUnits \cup {m.base}) /\ Cardinality(LibUnits \cup {m.base}) = LibHeap + 1
    BY <2>1, SpotNat, FS_AddElement
  <2>3. F \in SUBSET (LibUnits \cup {m.base})
    BY DEF Ringing
  <2> QED  BY <2>2, <2>3, FS_Subset
<1>6. \E i, j \in 0 .. N : i < j /\ r[i] = r[j]
  <2> DEFINE f == [k \in 0 .. N |-> r[k]]
  <2>1. f \in [0 .. N -> F]
    BY <1>2
  <2>2. IsFiniteSet(0 .. N) /\ Cardinality(0 .. N) = LibHeap + 2
    <3>1. 0 \in Int /\ N \in Int
      BY <1>0
    <3>2. IsFiniteSet(0 .. N) /\ Cardinality(0 .. N) = IF 0 > N THEN 0 ELSE N - 0 + 1
      BY <3>1, FS_Interval
    <3> QED  BY <1>0, <3>2
  <2>3. Cardinality(F) < Cardinality(0 .. N)
    <3>1. Cardinality(F) \in Nat
      BY <1>5, FS_CardinalityType
    <3> QED  BY <1>0, <1>5, <2>2, <3>1
  <2>4. \E x, y \in 0 .. N : x # y /\ f[x] = f[y]
    <3> HIDE DEF f
    <3> QED  BY <1>5, <2>1, <2>2, <2>3, FS_PigeonHole
  <2>5. PICK x, y \in 0 .. N : x # y /\ f[x] = f[y]
    BY <2>4
  <2>6. r[x] = r[y] /\ (x < y \/ y < x)
    BY <1>0, <2>5
  <2> HIDE DEF f, r
  <2> QED  BY <2>6
<1>7. PICK i \in 0 .. N, j \in 0 .. N : i < j /\ r[i] = r[j]
  <2> HIDE DEF r
  <2> QED  BY <1>6
<1> HIDE DEF L, r
<1>8. ASSUME NEW a \in 0 .. i  PROVE {r[k] : k \in a .. j - 1} = F
  <2> DEFINE W == {r[k] : k \in a .. j - 1}
  <2>1. \A k \in a .. j - 1 : k \in 0 .. N
    BY <1>0, <1>7
  <2>2. W \in SUBSET F
    BY <1>2, <2>1
  <2>3. W # {} /\ r[i] \in W
    BY <1>0, <1>7
  <2>4. ASSUME NEW x \in W  PROVE L[x] \in W
    <3>1. PICK k \in a .. j - 1 : x = r[k]
      OBVIOUS
    <3>2. k + 1 \in 1 .. N /\ k + 1 - 1 = k
      BY <1>0, <1>7
    <3>3. L[x] = r[k + 1]
      BY <1>3, <3>1, <3>2
    <3>4. CASE k = j - 1
      BY <1>7, <2>3, <3>3, <3>4
    <3>5. CASE k # j - 1
      <4>1. k + 1 \in a .. j - 1
        BY <3>5
      <4> QED  BY <3>3, <4>1
    <3> QED  BY <3>4, <3>5
  <2> HIDE DEF W
  <2>5. W = F
    BY <1>4, <2>2, <2>3, <2>4, OrderClosed
  <2> QED  BY <2>5 DEF W
<1>9. {r[k] : k \in 0 .. LibHeap} = F
  <2>1. \A k \in 0 .. LibHeap : k \in 0 .. N
    BY <1>0
  <2>2. \A k \in 0 .. j - 1 : k \in 0 .. LibHeap
    BY <1>0, <1>7
  <2>3. 0 \in 0 .. i
    BY <1>0
  <2>4. {r[k] : k \in 0 .. j - 1} = F
    BY <1>8, <2>3
  <2> QED  BY <1>2, <2>1, <2>2, <2>4
<1>10. \E k \in 1 .. N : r[k] = r[0]
  <2>1. {r[k] : k \in i .. j - 1} = F
    BY <1>8
  <2>2. PICK k \in i .. j - 1 : r[k] = r[0]
    BY <1>1, <2>1
  <2>3. CASE k = 0
    <3>1. i = 0 /\ j \in 1 .. N
      BY <1>7, <2>3
    <3> QED  BY <1>7, <3>1
  <2>4. CASE k # 0
    <3>1. k \in 1 .. N
      BY <1>0, <1>7, <2>4
    <3> QED  BY <2>2, <3>1
  <2> QED  BY <2>3, <2>4
<1>11. r[0] = m.allocp
  BY RingSteps DEF r
<1> QED  BY <1>2, <1>3, <1>9, <1>10, <1>11 DEF r, Round1

-----------------------------------------------------------------------------
(* The blocks of the library heap, side by side.                           *)

\* Only the lengths of the blocks matter.
LEMMA PavedSame ==
  ASSUME NEW B, NEW S, NEW top, Paved(B, S, top), NEW T, \A p \in B : T[p] = S[p]
  PROVE  Paved(B, T, top)
BY DEF Paved

\* A block takes the one behind it in.
LEMMA PavedJoin ==
  ASSUME NEW B \in SUBSET Nat, NEW S, \A x \in B : S[x] \in Nat, NEW top \in Nat, Paved(B, S, top),
         NEW p \in B, NEW n \in B, p + S[p] = n,
         NEW T, T[p] = S[p] + S[n], \A x \in B : x # p /\ x # n => T[x] = S[x]
  PROVE  Paved(B \ {n}, T, top)
<1>1. p # n /\ S[p] >= 1 /\ S[n] >= 1
  BY DEF Paved
<1>2. ASSUME NEW x \in B \ {n}  PROVE x >= 2 /\ T[x] >= 1 /\ x + T[x] <= top
  <2>1. CASE x = p
    BY <1>1, <2>1 DEF Paved
  <2>2. CASE x # p
    BY <2>2 DEF Paved
  <2> QED  BY <2>1, <2>2
<1>3. ASSUME NEW x \in B \ {n}, NEW y \in B \ {n}, x # y  PROVE x + T[x] <= y \/ y + T[y] <= x
  <2>0. /\ x + S[x] <= y \/ y + S[y] <= x
        /\ x + S[x] <= n \/ n + S[n] <= x
        /\ y + S[y] <= n \/ n + S[n] <= y
        /\ x \in Nat /\ y \in Nat /\ S[x] \in Nat /\ S[y] \in Nat /\ S[n] \in Nat /\ n \in Nat
        /\ S[x] >= 1 /\ S[y] >= 1
    BY <1>3 DEF Paved
  <2>1. CASE x = p
    BY <1>1, <1>3, <2>0, <2>1
  <2>2. CASE y = p
    BY <1>1, <1>3, <2>0, <2>2
  <2>3. CASE x # p /\ y # p
    BY <2>0, <2>3
  <2> QED  BY <2>1, <2>2, <2>3
<1>4. ASSUME NEW u \in 2 .. top - 1  PROVE \E x \in B \ {n} : x <= u /\ u < x + T[x]
  <2>1. PICK x \in B : x <= u /\ u < x + S[x]
    BY DEF Paved
  <2>2. CASE x = n
    <3>1. p <= u /\ u < p + T[p]
      BY <1>1, <2>1, <2>2
    <3> QED  BY <1>1, <3>1
  <2>3. CASE x = p
    <3>1. p <= u /\ u < p + T[p]
      BY <1>1, <2>1, <2>3
    <3> QED  BY <1>1, <3>1
  <2>4. CASE x # n /\ x # p
    BY <2>1, <2>4
  <2> QED  BY <2>2, <2>3, <2>4
<1> QED  BY <1>2, <1>3, <1>4 DEF Paved

\* A block gives its last k units away.
LEMMA PavedCut ==
  ASSUME NEW B \in SUBSET Nat, NEW S, \A x \in B : S[x] \in Nat, NEW top \in Nat, Paved(B, S, top),
         NEW p \in B, NEW k \in Nat, k >= 1, k < S[p], NEW r, r = p + S[p] - k,
         NEW T, T[p] = S[p] - k, T[r] = k, \A x \in B : x # p => T[x] = S[x]
  PROVE  r \notin B /\ Paved(B \cup {r}, T, top)
<1>0. r \in Nat /\ r > p /\ r < p + S[p] /\ r + k = p + S[p] /\ p + T[p] = r /\ T[p] \in Nat /\ S[p] \in Nat /\ p \in Nat
  OBVIOUS
<1>1. r \notin B
  <2> SUFFICES ASSUME r \in B  PROVE FALSE
    OBVIOUS
  <2>1. r + S[r] <= p \/ p + S[p] <= r
    BY <1>0 DEF Paved
  <2> QED  BY <1>0, <2>1
<1>2. ASSUME NEW x \in B \cup {r}  PROVE x >= 2 /\ T[x] >= 1 /\ x + T[x] <= top
  <2>1. CASE x = r
    BY <1>0, <2>1 DEF Paved
  <2>2. CASE x = p
    BY <1>0, <2>2 DEF Paved
  <2>3. CASE x # r /\ x # p
    BY <2>3 DEF Paved
  <2> QED  BY <2>1, <2>2, <2>3
<1>3. ASSUME NEW x \in B, NEW y \in B \cup {r}, x # y  PROVE x + T[x] <= y \/ y + T[y] <= x
  <2>1. CASE y = r /\ x = p
    BY <1>0, <2>1
  <2>2. CASE y = r /\ x # p
    <3>1. x + S[x] <= p \/ p + S[p] <= x
      BY <2>2 DEF Paved
    <3>2. x \in Nat /\ S[x] \in Nat /\ T[x] = S[x]
      BY <2>2
    <3> QED  BY <1>0, <2>2, <3>1, <3>2
  <2>3. CASE y \in B
    <3>1. (x + S[x] <= y \/ y + S[y] <= x) /\ x \in Nat /\ y \in Nat /\ S[x] \in Nat /\ S[y] \in Nat
      BY <1>3, <2>3 DEF Paved
    <3>2. CASE x = p
      BY <1>0, <1>3, <2>3, <3>1, <3>2
    <3>3. CASE y = p
      BY <1>0, <1>3, <2>3, <3>1, <3>3
    <3>4. CASE x # p /\ y # p
      BY <2>3, <3>1, <3>4
    <3> QED  BY <3>2, <3>3, <3>4
  <2> QED  BY <2>1, <2>2, <2>3
<1>4. \A x, y \in B \cup {r} : x # y => x + T[x] <= y \/ y + T[y] <= x
  <2> SUFFICES ASSUME NEW x \in B \cup {r}, NEW y \in B \cup {r}, x # y
               PROVE  x + T[x] <= y \/ y + T[y] <= x
    OBVIOUS
  <2>1. x \in B \/ y \in B
    OBVIOUS
  <2> QED  BY <1>3, <2>1
<1>5. ASSUME NEW u \in 2 .. top - 1  PROVE \E x \in B \cup {r} : x <= u /\ u < x + T[x]
  <2>1. PICK x \in B : x <= u /\ u < x + S[x]
    BY DEF Paved
  <2>2. CASE x = p /\ u < r
    BY <1>0, <2>1, <2>2
  <2>3. CASE x = p /\ ~(u < r)
    <3>1. r <= u /\ u < r + T[r]
      BY <1>0, <2>1, <2>3
    <3> QED  BY <3>1
  <2>4. CASE x # p
    BY <2>1, <2>4
  <2> QED  BY <2>2, <2>3, <2>4
<1> QED  BY <1>1, <1>2, <1>4, <1>5 DEF Paved

\* k more units are taken.
LEMMA PavedMore ==
  ASSUME NEW B \in SUBSET Nat, NEW S, \A x \in B : S[x] \in Nat, NEW top \in Nat, top >= 2, Paved(B, S, top),
         NEW k \in Nat, k >= 1, NEW T, T[top] = k, \A x \in B : T[x] = S[x]
  PROVE  top \notin B /\ Paved(B \cup {top}, T, top + k)
<1>1. \A x \in B : x >= 2 /\ S[x] >= 1 /\ x + S[x] <= top /\ x < top /\ x \in Nat /\ S[x] \in Nat
  BY DEF Paved
<1>2. ASSUME NEW x \in B \cup {top}  PROVE x >= 2 /\ T[x] >= 1 /\ x + T[x] <= top + k
  BY <1>1
<1>3. ASSUME NEW x \in B \cup {top}, NEW y \in B \cup {top}, x # y  PROVE x + T[x] <= y \/ y + T[y] <= x
  <2>1. CASE x \in B /\ y \in B
    BY <1>1, <1>3, <2>1 DEF Paved
  <2>2. CASE x = top
    BY <1>1, <1>3, <2>2
  <2>3. CASE y = top
    BY <1>1, <1>3, <2>3
  <2> QED  BY <2>1, <2>2, <2>3
<1>4. ASSUME NEW u \in 2 .. top + k - 1  PROVE \E x \in B \cup {top} : x <= u /\ u < x + T[x]
  <2>1. CASE u < top
    <3>1. u \in 2 .. top - 1
      BY <2>1
    <3>2. PICK x \in B : x <= u /\ u < x + S[x]
      BY <3>1 DEF Paved
    <3> QED  BY <3>2
  <2>2. CASE u >= top
    <3>1. top <= u /\ u < top + T[top]
      BY <2>2
    <3> QED  BY <3>1
  <2> QED  BY <2>1, <2>2
<1> QED  BY <1>1, <1>2, <1>3, <1>4 DEF Paved

-----------------------------------------------------------------------------
(* free.                                                                   *)

\* The least of a set of numbers.
LEMMA LeastIs ==
  ASSUME NEW S \in SUBSET Nat, S # {}
  PROVE  Least(S) \in S /\ \A j \in S : Least(S) <= j
BY LeastNat DEF Least

\* free is about to enter p, which is in no list and nobody's.
Spare(m, own, F, p) ==
  /\ Ringing(m, F) /\ Lent(m, own) /\ Held(own) \cap F = {}
  /\ p \in LibUnits /\ p \notin F /\ p \notin Held(own)
  /\ Paved(Held(own) \cup (F \ {m.base}) \cup {p}, SizesOf(m), m.brk)
  /\ \A x, y \in F \ {m.base} : x + m.hdr[x].size # y

\* Half of it is done: p is joined with what is behind it, but the node q before
\* it does not lead to it yet and may touch it.
Half(m, own, F, q, p) ==
  /\ q \in F /\ p \in F /\ q # p /\ p # m.base
  /\ m.base \in F /\ F \ {m.base} \subseteq LibUnits
  /\ Ordered(F, [LinksOf(m) EXCEPT ![q] = p]) /\ m.hdr[m.base].size = 0
  /\ Lent(m, own) /\ Held(own) \cap F = {}
  /\ Paved(Held(own) \cup (F \ {m.base}), SizesOf(m), m.brk)
  /\ \A x, y \in F \ {m.base} : x + m.hdr[x].size = y => x = q /\ y = p

\* What the second half does to it.
BackTo(m, q, p) == [JoinPrev(m, q, p) EXCEPT !.allocp = q]

\* The search ends at the node behind which p belongs.
LEMMA FreePlace ==
  ASSUME NEW m \in LibMem, NEW F, Ringing(m, F), NEW p \in LibUnits, p \notin F
  PROVE  \E q \in F : /\ Between(q, m.hdr[q].ptr, p)
                      /\ free(m, p) = BackTo(JoinNext(m, q, p), q, p)
<1> DEFINE r == Ring(m)
           K == {k \in 0 .. LibHeap : Belongs(m, r[k], p)}
           q == r[Least(K)]
<1>0. LibHeap \in Nat /\ LibHeap + 3 \in Nat /\ p \in Nat
  BY SpotNat
<1>1. F \in SUBSET (0 .. LibHeap + 3) /\ F # {} /\ Ordered(F, LinksOf(m)) /\ {r[k] : k \in 0 .. LibHeap} = F
  BY RingSpots, RingRound DEF Ringing
<1>2. \A x \in F : LinksOf(m)[x] = m.hdr[x].ptr
  BY RingSpots
<1>3. PICK x \in F : Between(x, LinksOf(m)[x], p)
  <2>1. \E x \in F : Between(x, LinksOf(m)[x], p)
    BY <1>0, <1>1, OrderPlace
  <2> QED  BY <2>1
<1>4. \A x_1 \in F : Between(x_1, m.hdr[x_1].ptr, p) <=> Belongs(m, x_1, p)
  BY DEF Between, Belongs
<1> HIDE DEF r
<1>5. PICK k \in 0 .. LibHeap : x = r[k]
  BY <1>1
<1>6. K # {}
  BY <1>2, <1>3, <1>4, <1>5
<1>7. K \in SUBSET Nat
  BY <1>0
<1>8. Least(K) \in K
  <2> HIDE DEF K
  <2> QED  BY <1>6, <1>7, LeastIs
<1>9. q \in F /\ Belongs(m, q, p)
  BY <1>1, <1>8
<1>10. free(m, p) = BackTo(JoinNext(m, q, p), q, p)
  BY DEF free, r, BackTo
<1> HIDE DEF q
<1> QED  BY <1>4, <1>9, <1>10

\* What the first half of free does.
LEMMA JoinNextIs ==
  ASSUME NEW m \in LibMem, NEW q \in Spots, NEW p \in Spots, NEW n \in Spots, n = m.hdr[q].ptr, n # p,
         NEW j, j = JoinNext(m, q, p)
  PROVE  /\ j \in LibMem /\ j.base = m.base /\ j.brk = m.brk
         /\ p + m.hdr[p].size = n =>
              /\ j.hdr[p] = [ptr |-> m.hdr[n].ptr, size |-> m.hdr[p].size + m.hdr[n].size]
              /\ \A x \in Spots : x # p /\ x # n => j.hdr[x] = m.hdr[x]
         /\ p + m.hdr[p].size # n =>
              /\ j.hdr[p] = [ptr |-> n, size |-> m.hdr[p].size]
              /\ \A x \in Spots : x # p => j.hdr[x] = m.hdr[x]
<1>1. m.hdr \in [Spots -> LibHeader] /\ m.hdr[p] \in LibHeader /\ m.hdr[n] \in LibHeader
  BY DEF LibMem
<1>2. NoHeader \in LibHeader
  BY DEF NoHeader, LibHeader
<1>3. CASE p + m.hdr[p].size = n
  <2> DEFINE h == [ptr |-> m.hdr[n].ptr, size |-> m.hdr[p].size + m.hdr[n].size]
             g == [m.hdr EXCEPT ![p] = h, ![n] = NoHeader]
  <2>1. h \in LibHeader
    BY <1>1 DEF LibHeader
  <2>2. j = [m EXCEPT !.hdr = g]
    BY <1>1, <1>3 DEF JoinNext, LibMem
  <2> HIDE DEF h
  <2>3. g \in [Spots -> LibHeader] /\ g[p] = h /\ \A x \in Spots : x # p /\ x # n => g[x] = m.hdr[x]
    BY <1>1, <1>2, <2>1
  <2> HIDE DEF g
  <2>4. j \in LibMem /\ j.hdr = g /\ j.base = m.base /\ j.brk = m.brk
    BY <2>2, <2>3 DEF LibMem
  <2> QED  BY <1>3, <2>3, <2>4 DEF h
<1>4. CASE p + m.hdr[p].size # n
  <2> DEFINE h == [ptr |-> n, size |-> m.hdr[p].size]
             g == [m.hdr EXCEPT ![p] = h]
  <2>1. h \in LibHeader
    BY <1>1 DEF LibHeader
  <2>2. j = [m EXCEPT !.hdr = g]
    BY <1>1, <1>4 DEF JoinNext, LibMem, LibHeader
  <2> HIDE DEF h
  <2>3. g \in [Spots -> LibHeader] /\ g[p] = h /\ \A x \in Spots : x # p => g[x] = m.hdr[x]
    BY <1>1, <1>2, <2>1
  <2> HIDE DEF g
  <2>4. j \in LibMem /\ j.hdr = g /\ j.base = m.base /\ j.brk = m.brk
    BY <2>2, <2>3 DEF LibMem
  <2> QED  BY <1>4, <2>3, <2>4 DEF h
<1> QED  BY <1>3, <1>4

\* What the second half does.
LEMMA JoinPrevIs ==
  ASSUME NEW m \in LibMem, NEW q \in Spots, NEW p \in Spots, q # p,
         NEW j, j = BackTo(m, q, p)
  PROVE  /\ j \in LibMem /\ j.base = m.base /\ j.brk = m.brk /\ j.allocp = q
         /\ q + m.hdr[q].size = p =>
              /\ j.hdr[q] = [ptr |-> m.hdr[p].ptr, size |-> m.hdr[q].size + m.hdr[p].size]
              /\ \A x \in Spots : x # p /\ x # q => j.hdr[x] = m.hdr[x]
         /\ q + m.hdr[q].size # p =>
              /\ j.hdr[q] = [ptr |-> p, size |-> m.hdr[q].size]
              /\ \A x \in Spots : x # q => j.hdr[x] = m.hdr[x]
<1>1. m.hdr \in [Spots -> LibHeader] /\ m.hdr[p] \in LibHeader /\ m.hdr[q] \in LibHeader
  BY DEF LibMem
<1>2. NoHeader \in LibHeader
  BY DEF NoHeader, LibHeader
<1>3. CASE q + m.hdr[q].size = p
  <2> DEFINE h == [ptr |-> m.hdr[p].ptr, size |-> m.hdr[q].size + m.hdr[p].size]
             g == [m.hdr EXCEPT ![q] = h, ![p] = NoHeader]
  <2>1. h \in LibHeader
    BY <1>1 DEF LibHeader
  <2>2. j = [m EXCEPT !.hdr = g, !.allocp = q]
    BY <1>1, <1>3 DEF BackTo, JoinPrev, LibMem
  <2> HIDE DEF h
  <2>3. g \in [Spots -> LibHeader] /\ g[q] = h /\ \A x \in Spots : x # p /\ x # q => g[x] = m.hdr[x]
    BY <1>1, <1>2, <2>1
  <2> HIDE DEF g
  <2>4. j \in LibMem /\ j.hdr = g /\ j.base = m.base /\ j.brk = m.brk /\ j.allocp = q
    BY <2>2, <2>3 DEF LibMem
  <2> QED  BY <1>3, <2>3, <2>4 DEF h
<1>4. CASE q + m.hdr[q].size # p
  <2> DEFINE h == [ptr |-> p, size |-> m.hdr[q].size]
             g == [m.hdr EXCEPT ![q] = h]
  <2>1. h \in LibHeader
    BY <1>1 DEF LibHeader
  <2>2. j = [m EXCEPT !.hdr = g, !.allocp = q]
    <3>1. h = [m.hdr[q] EXCEPT !.ptr = p]
      BY <1>1 DEF LibHeader
    <3>2. JoinPrev(m, q, p) = [m EXCEPT !.hdr[q].ptr = p]
      BY <1>4 DEF JoinPrev
    <3> HIDE DEF h
    <3> QED  BY <3>1, <3>2 DEF BackTo
  <2> HIDE DEF h
  <2>3. g \in [Spots -> LibHeader] /\ g[q] = h /\ \A x \in Spots : x # q => g[x] = m.hdr[x]
    BY <1>1, <1>2, <2>1
  <2> HIDE DEF g
  <2>4. j \in LibMem /\ j.hdr = g /\ j.base = m.base /\ j.brk = m.brk /\ j.allocp = q
    BY <2>2, <2>3 DEF LibMem
  <2> QED  BY <1>4, <2>3, <2>4 DEF h
<1> QED  BY <1>3, <1>4

\* A block that ends where p begins is the node before it; one that begins where p
\* ends is the node behind it.
LEMMA Neighbours ==
  ASSUME NEW m \in LibMem, NEW own, NEW F, NEW p, Spare(m, own, F, p),
         NEW q \in F, Between(q, m.hdr[q].ptr, p), NEW x \in F \ {m.base}
  PROVE  /\ x + m.hdr[x].size = p => x = q
         /\ p + m.hdr[p].size = x => x = m.hdr[q].ptr
<1> DEFINE n == m.hdr[q].ptr
           B == Held(own) \cup (F \ {m.base}) \cup {p}
           S == SizesOf(m)
<1>0. LibHeap \in Nat /\ (m.base = 0 \/ m.base = LibHeap + 3)
  BY SpotNat
<1>1. /\ Follows(F, q, n) /\ n \in F /\ \A y \in F : y \in Spots /\ y \in Nat
      /\ p \in Spots /\ p \in Nat /\ p >= 2 /\ p <= LibHeap + 1 /\ p \notin F
  BY RingSpots, SpotNat DEF Spare, Ringing, Ordered
<1>2. \A y \in Spots : S[y] = m.hdr[y].size /\ S[y] \in Nat
  BY DEF SizesOf, LibMem, LibHeader
<1>3. \A y \in B : \A z \in B : y # z => y + S[y] <= z \/ z + S[z] <= y
  BY DEF Spare, Paved
<1>4. \A y \in F \ {m.base} : y \in B /\ y >= 2 /\ y <= LibHeap + 1
  BY SpotNat DEF Spare, Ringing
<1>5. \A y \in B : S[y] >= 1
  BY DEF Spare, Paved
<1> HIDE DEF n, B, S
<1>6. x \in Nat /\ p \in Nat /\ q \in Nat /\ n \in Nat /\ S[x] \in Nat /\ S[p] \in Nat /\ x # p /\ p # q /\ S[x] >= 1
  BY <1>1, <1>2, <1>4, <1>5
<1>7. ASSUME x + S[x] = p, x # q  PROVE FALSE
  <2>1. x < p
    BY <1>6, <1>7
  <2>2. CASE q < p
    <3>1. x < q
      BY <1>1, <1>6, <1>7, <2>1, <2>2 DEF Follows, Between, n
    <3>2. q # m.base
      BY <1>0, <1>1, <1>4, <1>6, <2>2, <3>1
    <3>3. x + S[x] <= q \/ q + S[q] <= x
      BY <1>3, <1>4, <1>7, <3>2
    <3>4. S[q] \in Nat
      BY <1>1, <1>2
    <3> QED  BY <1>6, <1>7, <2>2, <3>1, <3>3, <3>4
  <2>3. CASE ~(q < p)
    <3>1. p < n /\ n <= x
      BY <1>1, <1>6, <2>3 DEF Follows, Between, n
    <3> QED  BY <1>6, <2>1, <3>1
  <2> QED  BY <2>2, <2>3
<1>8. ASSUME p + S[p] = x, x # n  PROVE FALSE
  <2>1. p < x /\ S[n] \in Nat
    <3>1. p \in B
      BY DEF B
    <3> QED  BY <1>1, <1>2, <1>5, <1>6, <1>8, <3>1
  <2>2. CASE p < n
    <3>1. n < x
      BY <1>1, <1>6, <1>8, <2>1, <2>2 DEF Follows, Between, n
    <3>2. n # m.base
      BY <1>0, <1>4, <1>6, <2>2, <3>1
    <3>3. p \in B /\ n \in B /\ p # n
      BY <1>1, <1>4, <3>2 DEF B
    <3>4. p + S[p] <= n \/ n + S[n] <= p
      BY <1>3, <3>3
    <3>5. S[n] >= 1
      BY <1>5, <3>3
    <3> QED  BY <1>6, <1>8, <2>1, <2>2, <3>1, <3>4, <3>5
  <2>3. CASE ~(p < n)
    <3>1. q < p /\ x <= q
      BY <1>1, <1>6, <2>3 DEF Follows, Between, n
    <3> QED  BY <1>6, <2>1, <3>1
  <2> QED  BY <2>2, <2>3
<1> QED  BY <1>1, <1>2, <1>7, <1>8 DEF n

\* What a caller was lent, in terms of the headers alone.
LEMMA LentSame ==
  ASSUME NEW m, NEW own, Lent(m, own), NEW j, \A x \in Held(own) : j.hdr[x] = m.hdr[x]
  PROVE  Lent(j, own)
BY DEF Lent, Held

\* The first half of free.
LEMMA FrontOk ==
  ASSUME NEW m \in LibMem, NEW own, NEW F, NEW p, Spare(m, own, F, p),
         NEW q \in F, Between(q, m.hdr[q].ptr, p), NEW j, j = JoinNext(m, q, p)
  PROVE  j \in LibMem /\ j.hdr[p].size >= m.hdr[p].size /\ \E G : Half(j, own, G, q, p)
<1> DEFINE n == m.hdr[q].ptr
           B == Held(own) \cup (F \ {m.base}) \cup {p}
           S == SizesOf(m)
           L == LinksOf(m)
           K == [L EXCEPT ![q] = p, ![p] = n]
           T == SizesOf(j)
           M == [LinksOf(j) EXCEPT ![q] = p]
<1>0. LibHeap \in Nat /\ (m.base = 0 \/ m.base = LibHeap + 3) /\ m.base \in Spots /\ m.base \notin LibUnits
  BY SpotNat
<1>1. /\ n \in F /\ \A y \in F : y \in Spots /\ y \in Nat /\ L[y] = m.hdr[y].ptr
      /\ p \in Spots /\ p \in Nat /\ p >= 2 /\ p <= LibHeap + 1 /\ p \notin F /\ p # n /\ p # q /\ p # m.base
      /\ Ordered(F, L) /\ F \in SUBSET Nat /\ p \in LibUnits
  BY <1>0, RingSpots, SpotNat DEF Spare, Ringing
<1>2. m.hdr \in [Spots -> LibHeader] /\ m.brk \in Nat /\ m.brk <= LibHeap + 2
  BY <1>0 DEF LibMem
<1>3. \A y \in Spots : S[y] = m.hdr[y].size /\ S[y] \in Nat /\ T[y] = j.hdr[y].size
  BY <1>2 DEF SizesOf, LibHeader
<1>4. Paved(B, S, m.brk)
  BY DEF Spare
<1>5. Held(own) \subseteq LibUnits /\ Held(own) \cap F = {} /\ p \notin Held(own) /\ Lent(m, own)
  <2>1. \A a \in 3 .. LibHeap + 2 : a - 1 \in LibUnits
    BY <1>0 DEF LibUnits
  <2> QED  BY <2>1 DEF Spare, Lent, Held
<1>6. B \in SUBSET Nat /\ B \in SUBSET Spots /\ B \in SUBSET LibUnits
  BY <1>1, <1>5, SpotNat DEF Spare, Ringing
<1>7. /\ j \in LibMem /\ j.base = m.base /\ j.brk = m.brk
      /\ p + m.hdr[p].size = n =>
           /\ j.hdr[p] = [ptr |-> m.hdr[n].ptr, size |-> m.hdr[p].size + m.hdr[n].size]
           /\ \A x \in Spots : x # p /\ x # n => j.hdr[x] = m.hdr[x]
      /\ p + m.hdr[p].size # n =>
           /\ j.hdr[p] = [ptr |-> n, size |-> m.hdr[p].size]
           /\ \A x \in Spots : x # p => j.hdr[x] = m.hdr[x]
  <2>1. n \in Spots /\ q \in Spots /\ p \in Spots /\ n = m.hdr[q].ptr /\ n # p
    BY <1>1
  <2> HIDE DEF n
  <2> QED  BY <2>1, JoinNextIs
<1>8. /\ L \in [Spots -> Spots \cup {NoSpot}]
      /\ K[q] = p /\ K[p] = n /\ \A x \in F : x # q => K[x] = L[x]
  <2>1. L \in [Spots -> Spots \cup {NoSpot}]
    BY <1>2 DEF LinksOf, LibHeader
  <2> HIDE DEF n, L
  <2> QED  BY <1>1, <2>1
<1>9. Ordered(F \cup {p}, K)
  <2>1. Between(q, L[q], p)
    BY <1>1
  <2>2. K[p] = L[q]
    BY <1>1, <1>8
  <2> HIDE DEF K, L
  <2> QED  BY <1>1, <1>8, <2>1, <2>2, OrderIn
<1>10. /\ M[q] = p
       /\ \A x \in Spots : x # q => M[x] = j.hdr[x].ptr
  <2>1. q \in Spots
    BY <1>1
  <2> QED  BY <2>1 DEF LinksOf
<1>11. \A x \in F \ {m.base} : (x + S[x] = p => x = q) /\ (p + S[p] = x => x = n)
  BY <1>1, <1>3, Neighbours
<1>12. \A x, y \in F \ {m.base} : x + S[x] # y
  BY <1>1, <1>3 DEF Spare
<1>13. F \ {m.base} \subseteq LibUnits /\ m.base \in F /\ m.hdr[m.base].size = 0
  BY DEF Spare, Ringing
<1>14. S[p] >= 1 /\ \A y \in B : S[y] >= 1
  BY <1>4 DEF Paved
<1>15. Ordered(F, L) /\ Follows(F, q, n)
  BY <1>1 DEF Ordered
<1> HIDE DEF n, S, L, K, T, M
<1>16. CASE p + S[p] # n
  <2>1. /\ j.hdr[p] = [ptr |-> n, size |-> m.hdr[p].size]
        /\ \A x \in Spots : x # p => j.hdr[x] = m.hdr[x]
    BY <1>1, <1>3, <1>7, <1>16
  <2> DEFINE G == F \cup {p}
  <2>2. Ordered(G, M)
    <3>1. ASSUME NEW x \in G  PROVE M[x] = K[x]
      <4>1. CASE x = q
        BY <1>8, <1>10, <4>1
      <4>2. CASE x = p
        BY <1>1, <1>8, <1>10, <2>1, <4>2
      <4>3. CASE x # p /\ x # q
        <5>1. x \in F /\ x \in Spots
          BY <1>1, <4>3
        <5>2. M[x] = j.hdr[x].ptr /\ j.hdr[x] = m.hdr[x]
          BY <1>10, <2>1, <4>3, <5>1
        <5>3. K[x] = L[x] /\ L[x] = m.hdr[x].ptr
          BY <1>1, <1>8, <4>3, <5>1
        <5> QED  BY <5>2, <5>3
      <4> QED  BY <4>1, <4>2, <4>3
    <3> HIDE DEF G
    <3>2. Ordered(G, K)
      BY <1>9 DEF G
    <3> QED  BY <3>1, <3>2, OrderSame
  <2>3. \A x \in Spots : T[x] = S[x]
    BY <1>1, <1>3, <2>1
  <2>4. B = Held(own) \cup (G \ {j.base})
    BY <1>1, <1>7
  <2>5. Paved(B, T, j.brk)
    <3>1. \A x \in B : T[x] = S[x]
      BY <1>6, <2>3
    <3> HIDE DEF B
    <3> QED  BY <1>4, <1>7, <3>1, PavedSame
  <2>6. \A x, y \in G \ {j.base} : x + j.hdr[x].size = y => x = q /\ y = p
    <3> SUFFICES ASSUME NEW x \in G \ {j.base}, NEW y \in G \ {j.base}, x + j.hdr[x].size = y
                 PROVE  x = q /\ y = p
      OBVIOUS
    <3>1. x \in Spots /\ y \in Spots /\ x \in Nat /\ S[x] \in Nat /\ S[x] >= 1
      BY <1>1, <1>3, <1>7, <1>14
    <3>2. x + S[x] = y /\ x # y
      BY <1>3, <2>3, <3>1
    <3>3. x = p => y \in F \ {m.base} /\ y = n
      BY <1>7, <1>11, <3>2
    <3>4. x # p
      BY <1>16, <3>2, <3>3
    <3>5. x \in F \ {m.base}
      BY <1>7, <3>4
    <3>6. y = p
      BY <1>7, <1>12, <3>2, <3>5
    <3> QED  BY <1>11, <3>2, <3>5, <3>6
  <2>7. Lent(j, own)
    <3>1. \A x \in Held(own) : j.hdr[x] = m.hdr[x]
      BY <1>5, <2>1, SpotNat
    <3> QED  BY <1>5, <3>1, LentSame
  <2>8. j.hdr[j.base].size = 0
    BY <1>0, <1>1, <1>7, <1>13, <2>1
  <2>9. Half(j, own, G, q, p)
    <3>1. G \ {j.base} \subseteq LibUnits /\ Held(own) \cap G = {}
      BY <1>1, <1>5, <1>7, <1>13
    <3>2. Paved(Held(own) \cup (G \ {j.base}), SizesOf(j), j.brk)
      BY <2>4, <2>5 DEF T
    <3>3. Ordered(G, [LinksOf(j) EXCEPT ![q] = p])
      BY <2>2 DEF M
    <3> QED  BY <1>1, <1>7, <1>13, <2>6, <2>7, <2>8, <3>1, <3>2, <3>3 DEF Half
  <2>10. j.hdr[p].size >= m.hdr[p].size
    BY <1>1, <1>3, <2>1
  <2> QED  BY <1>7, <2>9, <2>10
<1>17. CASE p + S[p] = n
  <2>1. /\ j.hdr[p] = [ptr |-> m.hdr[n].ptr, size |-> m.hdr[p].size + m.hdr[n].size]
        /\ \A x \in Spots : x # p /\ x # n => j.hdr[x] = m.hdr[x]
    BY <1>1, <1>3, <1>7, <1>17
  <2>2. p \in B /\ p + S[p] <= m.brk /\ p >= 2 /\ n \in Nat
    BY <1>1, <1>4 DEF Paved
  <2>3. n # m.base
    <3>1. S[p] \in Nat
      BY <1>1, <1>3
    <3> QED  BY <1>0, <1>1, <1>2, <1>14, <1>17, <2>2, <3>1
  <2>4. n # q
    <3> SUFFICES ASSUME n = q  PROVE FALSE
      OBVIOUS
    <3>1. \A x \in F : n <= x /\ x <= q
      BY <1>1, <1>15 DEF Follows
    <3>2. m.base = q
      BY <1>1, <1>13, <3>1
    <3> QED  BY <2>3, <3>2
  <2> DEFINE G == (F \cup {p}) \ {n}
  <2>5. Ordered(G, M)
    <3>1. M[p] = K[n]
      <4>1. M[p] = j.hdr[p].ptr
        BY <1>1, <1>10
      <4>2. j.hdr[p].ptr = m.hdr[n].ptr
        BY <2>1
      <4>3. K[n] = L[n] /\ L[n] = m.hdr[n].ptr
        BY <1>1, <1>8, <2>4
      <4> QED  BY <4>1, <4>2, <4>3
    <3>2. ASSUME NEW x \in F \cup {p}, x # p, x # n  PROVE M[x] = K[x]
      <4>1. CASE x = q
        BY <1>8, <1>10, <4>1
      <4>2. CASE x # q
        <5>1. x \in F /\ x \in Spots
          BY <1>1, <3>2
        <5>2. M[x] = j.hdr[x].ptr /\ j.hdr[x] = m.hdr[x]
          BY <1>10, <2>1, <3>2, <4>2, <5>1
        <5>3. K[x] = L[x] /\ L[x] = m.hdr[x].ptr
          BY <1>1, <1>8, <4>2, <5>1
        <5> QED  BY <5>2, <5>3
      <4> QED  BY <4>1, <4>2
    <3>3. F \cup {p} \in SUBSET Nat /\ p \in F \cup {p} /\ n \in F \cup {p}
      BY <1>1
    <3> QED  BY <1>1, <1>8, <1>9, <3>1, <3>2, <3>3, OrderOut
  <2>6. n \in B /\ B \ {n} = Held(own) \cup (G \ {j.base})
    BY <1>1, <1>5, <1>7, <2>3
  <2>7. T[p] = S[p] + S[n] /\ \A x \in Spots : x # p /\ x # n => T[x] = S[x]
    <3>1. p \in Spots /\ n \in Spots
      BY <1>1
    <3>2. T[p] = j.hdr[p].size /\ S[p] = m.hdr[p].size /\ S[n] = m.hdr[n].size
      BY <1>3, <3>1
    <3>3. j.hdr[p].size = m.hdr[p].size + m.hdr[n].size
      BY <2>1
    <3>4. ASSUME NEW x \in Spots, x # p, x # n  PROVE T[x] = S[x]
      <4>1. j.hdr[x] = m.hdr[x]
        BY <2>1, <3>4
      <4> QED  BY <1>3, <4>1
    <3> QED  BY <3>2, <3>3, <3>4
  <2>8. Paved(B \ {n}, T, j.brk)
    <3>1. \A x \in B : x # p /\ x # n => T[x] = S[x]
      BY <1>6, <2>7
    <3>2. \A x \in B : S[x] \in Nat
      BY <1>3, <1>6
    <3>3. B \in SUBSET Nat /\ m.brk \in Nat /\ p \in B /\ n \in B /\ T[p] = S[p] + S[n]
      BY <1>2, <1>6, <2>2, <2>6, <2>7
    <3> HIDE DEF B
    <3>4. Paved(B \ {n}, T, m.brk)
      BY <1>4, <1>17, <3>1, <3>2, <3>3, PavedJoin
    <3> QED  BY <1>7, <3>4
  <2>9. \A x, y \in G \ {j.base} : x + j.hdr[x].size = y => x = q /\ y = p
    <3> SUFFICES ASSUME NEW x \in G \ {j.base}, NEW y \in G \ {j.base}, x + j.hdr[x].size = y
                 PROVE  x = q /\ y = p
      OBVIOUS
    <3>1. x \in Spots /\ y \in Spots /\ x \in Nat /\ S[x] \in Nat /\ S[x] >= 1 /\ S[n] \in Nat /\ S[p] \in Nat /\ x # n
      BY <1>1, <1>3, <1>7, <1>14
    <3>2. x + T[x] = y
      BY <1>3, <3>1
    <3>3. CASE x = p
      <4>1. n + S[n] = y
        BY <1>1, <1>17, <2>7, <3>1, <3>2, <3>3
      <4>2. y # p
        BY <1>1, <1>14, <1>17, <3>1, <4>1
      <4>3. y \in F \ {m.base} /\ n \in F \ {m.base}
        BY <1>1, <1>7, <2>3, <4>2
      <4> QED  BY <1>12, <4>1, <4>3
    <3>4. CASE x # p
      <4>1. x \in F \ {m.base} /\ x + S[x] = y
        BY <1>7, <2>7, <3>1, <3>2, <3>4
      <4>2. y = p
        BY <1>7, <1>12, <4>1
      <4> QED  BY <1>11, <4>1, <4>2
    <3> QED  BY <3>3, <3>4
  <2>10. Lent(j, own)
    <3>1. \A x \in Held(own) : x # p /\ x # n /\ x \in Spots
      BY <1>1, <1>5, SpotNat
    <3>2. \A x \in Held(own) : j.hdr[x] = m.hdr[x]
      BY <2>1, <3>1
    <3> QED  BY <1>5, <3>2, LentSame
  <2>11. j.hdr[j.base].size = 0
    BY <1>0, <1>1, <1>7, <1>13, <2>1, <2>3
  <2>12. Half(j, own, G, q, p)
    <3>1. G \ {j.base} \subseteq LibUnits /\ Held(own) \cap G = {} /\ q \in G /\ p \in G /\ j.base \in G
      BY <1>1, <1>5, <1>7, <1>13, <2>3, <2>4
    <3>2. Paved(Held(own) \cup (G \ {j.base}), SizesOf(j), j.brk)
      BY <2>6, <2>8 DEF T
    <3>3. Ordered(G, [LinksOf(j) EXCEPT ![q] = p])
      BY <2>5 DEF M
    <3> QED  BY <1>1, <1>7, <2>9, <2>10, <2>11, <3>1, <3>2, <3>3 DEF Half
  <2>13. j.hdr[p].size >= m.hdr[p].size
    BY <1>1, <1>3, <2>1
  <2> QED  BY <1>7, <2>12, <2>13
<1> QED  BY <1>16, <1>17

\* The second half of free.
LEMMA BackOk ==
  ASSUME NEW m \in LibMem, NEW own, NEW F, NEW q, NEW p, Half(m, own, F, q, p),
         NEW j, j = BackTo(m, q, p)
  PROVE  j \in LibMem /\ \E G : LibOk(j, own, G) /\ \E x \in G : j.hdr[x].size >= m.hdr[p].size
<1> DEFINE B == Held(own) \cup (F \ {m.base})
           S == SizesOf(m)
           K == [LinksOf(m) EXCEPT ![q] = p]
           T == SizesOf(j)
           M == LinksOf(j)
<1>0. LibHeap \in Nat /\ m.base \in Spots /\ m.base \notin LibUnits /\ (m.base = 0 \/ m.base = LibHeap + 3)
  BY SpotNat
<1>1. /\ q \in F /\ p \in F /\ q # p /\ p # m.base /\ p \in LibUnits
      /\ m.base \in F /\ F \ {m.base} \subseteq LibUnits /\ m.hdr[m.base].size = 0
      /\ Ordered(F, K) /\ Lent(m, own) /\ Held(own) \cap F = {} /\ Paved(B, S, m.brk)
  BY DEF Half
<1>2. \A x \in F : x \in Spots /\ x \in Nat
  BY <1>0, <1>1, SpotNat
<1>3. m.hdr \in [Spots -> LibHeader] /\ m.brk \in Nat
  BY <1>0 DEF LibMem
<1>4. \A y \in Spots : S[y] = m.hdr[y].size /\ S[y] \in Nat /\ T[y] = j.hdr[y].size /\ M[y] = j.hdr[y].ptr
  BY <1>3 DEF SizesOf, LinksOf, LibHeader
<1>5. Held(own) \subseteq LibUnits
  <2>1. \A a \in 3 .. LibHeap + 2 : a - 1 \in LibUnits
    BY <1>0 DEF LibUnits
  <2> QED  BY <1>1, <2>1 DEF Lent, Held
<1>6. B \in SUBSET Nat /\ B \in SUBSET Spots
  BY <1>1, <1>5, SpotNat
<1>7. K[q] = p /\ \A x \in Spots : x # q => K[x] = m.hdr[x].ptr
  <2>1. q \in Spots
    BY <1>1, <1>2
  <2> QED  BY <2>1 DEF LinksOf
<1>8. /\ j \in LibMem /\ j.base = m.base /\ j.brk = m.brk /\ j.allocp = q
      /\ q + m.hdr[q].size = p =>
           /\ j.hdr[q] = [ptr |-> m.hdr[p].ptr, size |-> m.hdr[q].size + m.hdr[p].size]
           /\ \A x \in Spots : x # p /\ x # q => j.hdr[x] = m.hdr[x]
      /\ q + m.hdr[q].size # p =>
           /\ j.hdr[q] = [ptr |-> p, size |-> m.hdr[q].size]
           /\ \A x \in Spots : x # q => j.hdr[x] = m.hdr[x]
  BY <1>1, <1>2, JoinPrevIs
<1>9. \A x, y \in F \ {m.base} : x + S[x] = y => x = q /\ y = p
  BY <1>2, <1>4 DEF Half
<1>10. p \in B /\ S[p] >= 1 /\ \A x \in B : S[x] >= 1
  BY <1>1 DEF Paved
<1> HIDE DEF S, K, T, M
<1>11. CASE q + S[q] # p
  <2>1. /\ j.hdr[q] = [ptr |-> p, size |-> m.hdr[q].size]
        /\ \A x \in Spots : x # q => j.hdr[x] = m.hdr[x]
    BY <1>1, <1>2, <1>4, <1>8, <1>11
  <2>2. \A x \in Spots : j.hdr[x].size = m.hdr[x].size /\ T[x] = S[x]
    BY <1>4, <2>1
  <2>3. Ordered(F, M)
    <3>1. ASSUME NEW x \in F  PROVE M[x] = K[x]
      <4>1. x \in Spots
        BY <1>2
      <4>2. CASE x = q
        BY <1>4, <1>7, <2>1, <4>1, <4>2
      <4>3. CASE x # q
        BY <1>4, <1>7, <2>1, <4>1, <4>3
      <4> QED  BY <4>2, <4>3
    <3> QED  BY <1>1, <3>1, OrderSame
  <2>4. Paved(B, T, m.brk)
    <3>1. \A x \in B : T[x] = S[x]
      BY <1>6, <2>2
    <3> HIDE DEF B
    <3> QED  BY <1>1, <3>1, PavedSame
  <2>5. Lent(j, own)
    <3>1. \A x \in Held(own) : j.hdr[x] = m.hdr[x]
      BY <1>1, <1>5, <2>1, SpotNat
    <3> QED  BY <1>1, <3>1, LentSame
  <2>6. Ringing(j, F)
    BY <1>0, <1>1, <1>8, <2>2, <2>3 DEF Ringing, M
  <2>7. Apiece(j, own, F)
    <3>1. \A x, y \in F \ {j.base} : x + j.hdr[x].size # y
      BY <1>2, <1>4, <1>8, <1>9, <1>11, <2>2
    <3> QED  BY <1>1, <1>8, <2>4, <3>1 DEF Apiece, T
  <2>8. j.hdr[p].size >= m.hdr[p].size
    BY <1>1, <1>2, <1>4, <2>2
  <2> QED  BY <1>1, <1>8, <2>5, <2>6, <2>7, <2>8 DEF LibOk
<1>12. CASE q + S[q] = p
  <2> DEFINE G == F \ {p}
  <2>1. /\ j.hdr[q] = [ptr |-> m.hdr[p].ptr, size |-> m.hdr[q].size + m.hdr[p].size]
        /\ \A x \in Spots : x # p /\ x # q => j.hdr[x] = m.hdr[x]
    BY <1>1, <1>2, <1>4, <1>8, <1>12
  <2>2. q # m.base
    <3>1. S[m.base] = 0
      BY <1>0, <1>1, <1>4
    <3>2. p \in Nat /\ m.base \in Nat
      BY <1>1, <1>2
    <3> QED  BY <1>1, <1>12, <3>1, <3>2
  <2>3. q \in B /\ q \in G /\ m.base \in G
    BY <1>1, <2>2
  <2>4. Ordered(G, M)
    <3>1. M[q] = K[p]
      <4>1. M[q] = j.hdr[q].ptr
        BY <1>1, <1>2, <1>4
      <4>2. j.hdr[q].ptr = m.hdr[p].ptr
        BY <2>1
      <4>3. K[p] = m.hdr[p].ptr
        BY <1>1, <1>2, <1>7
      <4> QED  BY <4>1, <4>2, <4>3
    <3>2. ASSUME NEW x \in F, x # q, x # p  PROVE M[x] = K[x]
      <4>1. x \in Spots
        BY <1>2
      <4>2. M[x] = j.hdr[x].ptr /\ j.hdr[x] = m.hdr[x] /\ K[x] = m.hdr[x].ptr
        BY <1>4, <1>7, <2>1, <3>2, <4>1
      <4> QED  BY <4>2
    <3>3. F \in SUBSET Nat
      BY <1>2
    <3> QED  BY <1>1, <1>7, <3>1, <3>2, <3>3, OrderOut
  <2>5. T[q] = S[q] + S[p] /\ \A x \in Spots : x # p /\ x # q => T[x] = S[x]
    BY <1>1, <1>2, <1>4, <2>1
  <2>6. Paved(B \ {p}, T, m.brk)
    <3>1. \A x \in B : x # q /\ x # p => T[x] = S[x]
      BY <1>6, <2>5
    <3>2. \A x \in B : S[x] \in Nat
      BY <1>4, <1>6
    <3>3. B \in SUBSET Nat /\ m.brk \in Nat /\ p \in B /\ q \in B /\ T[q] = S[q] + S[p] /\ Paved(B, S, m.brk)
      BY <1>1, <1>3, <1>6, <1>10, <2>3, <2>5
    <3> HIDE DEF B
    <3> QED  BY <1>12, <3>1, <3>2, <3>3, PavedJoin
  <2>7. B \ {p} = Held(own) \cup (G \ {j.base})
    BY <1>1, <1>8
  <2>8. Lent(j, own)
    <3>1. \A x \in Held(own) : x # p /\ x # q /\ x \in Spots
      BY <1>1, <1>5, SpotNat
    <3>2. \A x \in Held(own) : j.hdr[x] = m.hdr[x]
      BY <2>1, <3>1
    <3> QED  BY <1>1, <3>2, LentSame
  <2>9. Ringing(j, G)
    <3>1. j.hdr[j.base].size = 0
      BY <1>0, <1>1, <1>8, <2>1, <2>2
    <3>2. G \ {j.base} \subseteq LibUnits
      BY <1>1, <1>8
    <3> QED  BY <1>8, <2>3, <2>4, <3>1, <3>2 DEF Ringing, M
  <2>10. \A x, y \in G \ {j.base} : x + j.hdr[x].size # y
    <3> SUFFICES ASSUME NEW x \in G \ {j.base}, NEW y \in G \ {j.base}, x + j.hdr[x].size = y
                 PROVE  FALSE
      OBVIOUS
    <3>1. x \in Spots /\ x \in F \ {m.base} /\ y \in F \ {m.base} /\ y # p /\ x # p /\ x + T[x] = y
      BY <1>2, <1>4, <1>8
    <3>2. CASE x = q
      <4>1. p + S[p] = y
        <5>1. q \in Nat /\ S[q] \in Nat /\ S[p] \in Nat /\ p \in Nat
          BY <1>1, <1>2, <1>4
        <5> QED  BY <1>12, <2>5, <3>1, <3>2, <5>1
      <4> QED  BY <1>1, <1>9, <3>1, <4>1
    <3>3. CASE x # q
      BY <1>9, <2>5, <3>1, <3>3
    <3> QED  BY <3>2, <3>3
  <2>11. Apiece(j, own, G)
    <3>1. Paved(Held(own) \cup (G \ {j.base}), SizesOf(j), j.brk)
      BY <1>8, <2>6, <2>7 DEF T
    <3>2. Held(own) \cap G = {}
      BY <1>1
    <3> HIDE DEF G
    <3> QED  BY <2>10, <3>1, <3>2 DEF Apiece
  <2>12. j.hdr[q].size >= m.hdr[p].size
    BY <1>1, <1>2, <1>4, <2>1
  <2>13. LibOk(j, own, G) /\ q \in G
    BY <2>3, <2>8, <2>9, <2>11 DEF LibOk
  <2> HIDE DEF G
  <2> QED  BY <1>8, <2>12, <2>13
<1> QED  BY <1>11, <1>12

\* free keeps the heap as it should be, and there is a free block at least as
\* long as the one given to it.
LEMMA FreeOk ==
  ASSUME NEW m \in LibMem, NEW own, NEW F, NEW p, Spare(m, own, F, p), NEW j, j = free(m, p)
  PROVE  j \in LibMem /\ \E G : LibOk(j, own, G) /\ \E x \in G : j.hdr[x].size >= m.hdr[p].size
<1>1. Ringing(m, F) /\ p \in LibUnits /\ p \notin F
  BY DEF Spare
<1>2. PICK q \in F : /\ Between(q, m.hdr[q].ptr, p)
                     /\ j = BackTo(JoinNext(m, q, p), q, p)
  BY <1>1, FreePlace
<1> DEFINE i == JoinNext(m, q, p)
<1>3. i \in LibMem /\ i.hdr[p].size >= m.hdr[p].size /\ \E G : Half(i, own, G, q, p)
  BY <1>2, FrontOk
<1>4. j = BackTo(i, q, p)
  BY <1>2
<1> HIDE DEF i
<1>5. PICK E : Half(i, own, E, q, p)
  BY <1>3
<1>6. j \in LibMem /\ \E G : LibOk(j, own, G) /\ \E x \in G : j.hdr[x].size >= i.hdr[p].size
  BY <1>3, <1>4, <1>5, BackOk
<1>7. PICK G : LibOk(j, own, G) /\ \E x \in G : j.hdr[x].size >= i.hdr[p].size
  BY <1>6
<1>8. PICK x \in G : j.hdr[x].size >= i.hdr[p].size
  BY <1>7
<1>9. x \in Spots /\ p \in Spots
  BY <1>1, <1>6, <1>7, RingSpots, SpotNat DEF LibOk
<1>10. j.hdr[x].size \in Nat /\ i.hdr[p].size \in Nat /\ m.hdr[p].size \in Nat
  BY <1>3, <1>6, <1>9 DEF LibMem, LibHeader
<1>11. j.hdr[x].size >= m.hdr[p].size
  BY <1>3, <1>8, <1>10
<1> QED  BY <1>6, <1>7, <1>11

-----------------------------------------------------------------------------
(* malloc.                                                                 *)

\* coremore asks for as much as is needed.
LEMMA ChunksBig ==
  ASSUME NEW n \in Nat
  PROVE  Chunks(n) \in Int /\ Chunks(n) >= n
<1>0. NALLOC \in Nat \ {0}
  BY LibMallocAssumption
<1> DEFINE a == n + NALLOC - 1
           d == a \div NALLOC
           e == NALLOC * d
<1>1. a \in Int
  BY <1>0
<1>2. a % NALLOC \in 0 .. NALLOC - 1 /\ d \in Int /\ a = e + (a % NALLOC)
  <2> HIDE DEF a
  <2> QED  BY <1>0, <1>1, DivMod
<1>3. Chunks(n) = e
  <2>1. Chunks(n) = d * NALLOC
    BY DEF Chunks
  <2>2. d * NALLOC = NALLOC * d
    <3> HIDE DEF d
    <3> QED  BY <1>0, <1>2
  <2> QED  BY <2>1, <2>2
<1>4. e \in Int
  <2> HIDE DEF d
  <2> QED  BY <1>0, <1>2
<1>5. e >= n
  <2> DEFINE f == a % NALLOC
  <2>1. f \in 0 .. NALLOC - 1 /\ n + NALLOC - 1 = e + f
    BY <1>2
  <2> HIDE DEF e, f
  <2> QED  BY <1>0, <1>4, <2>1
<1> QED  BY <1>3, <1>4, <1>5

\* A block holds its header and what was asked for.
LEMMA UnitsEnough ==
  ASSUME NEW b \in Nat
  PROVE  NUnits(b) \in Nat /\ NUnits(b) >= 1 /\ b <= (NUnits(b) - 1) * Header
<1>0. Header \in Nat \ {0}
  BY LibMallocAssumption
<1> DEFINE a == b + Header - 1
           d == a \div Header
           e == Header * d
<1>1. a \in Nat
  BY <1>0
<1>2. a % Header \in 0 .. Header - 1 /\ d \in Int /\ a = e + (a % Header)
  <2>1. a \in Int
    BY <1>1
  <2> HIDE DEF a
  <2> QED  BY <1>0, <2>1, DivMod
<1>3. d >= 0
  <2> HIDE DEF a
  <2> QED  BY <1>0, <1>1, SMT
<1>4. e \in Int
  <2> HIDE DEF d
  <2> QED  BY <1>0, <1>2
<1>5. e >= b
  <2> DEFINE f == a % Header
  <2>1. f \in 0 .. Header - 1 /\ b + Header - 1 = e + f
    BY <1>2
  <2> HIDE DEF e, f
  <2> QED  BY <1>0, <1>4, <2>1
<1>6. NUnits(b) = d + 1
  BY DEF NUnits
<1>7. (NUnits(b) - 1) * Header = e
  <2>1. NUnits(b) - 1 = d
    <3> HIDE DEF d
    <3> QED  BY <1>2, <1>6
  <2>2. d * Header = Header * d
    <3> HIDE DEF d
    <3> QED  BY <1>0, <1>2
  <2> QED  BY <2>1, <2>2
<1> HIDE DEF d, e
<1> QED  BY <1>2, <1>3, <1>5, <1>6, <1>7

\* What was given out, apart from what its headers hold.
LEMMA HeldUnits ==
  ASSUME NEW m, NEW own, Lent(m, own)
  PROVE  Held(own) \subseteq LibUnits
<1>1. LibHeap \in Nat
  BY SpotNat
<1>2. \A a \in 3 .. LibHeap + 2 : a - 1 \in LibUnits
  BY <1>1 DEF LibUnits
<1> QED  BY <1>2 DEF Lent, Held

\* A heap that has grown is in order, and has a block that is long enough.
LEMMA CoremoreOk ==
  ASSUME NEW m \in LibMem, NEW own, NEW F, LibOk(m, own, F), NEW n \in Nat, n >= 1, Grows(m, Chunks(n)),
         NEW j, j = coremore(m, n)
  PROVE  j \in LibMem /\ \E G : LibOk(j, own, G) /\ \E x \in G : j.hdr[x].size >= n
<1> DEFINE c == Chunks(n)
           p == m.brk
           g == [m.hdr EXCEPT ![p].size = c]
           i == [m EXCEPT !.brk = @ + c, !.hdr[m.brk].size = c]
           B == Held(own) \cup (F \ {m.base})
<1>0. LibHeap \in Nat /\ m.base \in Spots /\ m.base \notin LibUnits
  BY SpotNat
<1>1. c \in Nat /\ c >= n /\ c >= 1
  <2>1. c \in Int /\ c >= n
    BY ChunksBig
  <2> HIDE DEF c
  <2> QED  BY <2>1
<1>2. p \in Nat /\ p >= 2 /\ p + c <= LibHeap + 2
  BY <1>0 DEF LibMem, Grows
<1>3. p \in LibUnits /\ p \in Spots /\ p + c \in 2 .. LibHeap + 2
  <2> HIDE DEF c, p
  <2> QED  BY <1>0, <1>1, <1>2 DEF LibUnits, Spots
<1>4. m.hdr \in [Spots -> LibHeader] /\ m.hdr[p] \in LibHeader
  BY <1>3 DEF LibMem
<1>5. /\ g \in [Spots -> LibHeader] /\ g[p].size = c /\ g[p].ptr = m.hdr[p].ptr
      /\ \A x \in Spots : x # p => g[x] = m.hdr[x]
  <2> HIDE DEF c, p
  <2> QED  BY <1>1, <1>3, <1>4 DEF LibHeader
<1>6. i = [m EXCEPT !.brk = p + c, !.hdr = g]
  BY DEF LibMem
<1>7. i \in LibMem /\ i.hdr = g /\ i.base = m.base /\ i.brk = p + c /\ i.allocp = m.allocp
  <2> HIDE DEF g, i, c, p
  <2> QED  BY <1>3, <1>5, <1>6 DEF LibMem
<1>8. Ringing(m, F) /\ Lent(m, own) /\ Apiece(m, own, F) /\ Held(own) \subseteq LibUnits
  BY HeldUnits DEF LibOk
<1>9. j = free(i, p)
  BY DEF coremore
<1> HIDE DEF c, g, i, p
<1>10. B \in SUBSET Nat /\ B \in SUBSET Spots
  BY <1>8, SpotNat DEF Ringing
<1>11. \A x \in B : SizesOf(m)[x] \in Nat
  BY <1>4, <1>10 DEF SizesOf, LibHeader
<1>12. Paved(B, SizesOf(m), p)
  BY <1>8 DEF Apiece, p
<1>13. p \notin B
  <2>1. \A x \in B : x + SizesOf(m)[x] <= p /\ SizesOf(m)[x] >= 1 /\ x \in Nat
    BY <1>10, <1>12 DEF Paved
  <2> QED  BY <1>2, <1>11, <2>1
<1>14. \A x \in B : SizesOf(i)[x] = SizesOf(m)[x]
  BY <1>3, <1>5, <1>7, <1>10, <1>13 DEF SizesOf
<1>15. SizesOf(i)[p] = c
  BY <1>3, <1>5, <1>7 DEF SizesOf
<1>16. Paved(B \cup {p}, SizesOf(i), p + c)
  <2> DEFINE S == SizesOf(m)
             T == SizesOf(i)
  <2>1. B \in SUBSET Nat /\ p \in Nat /\ p >= 2 /\ c \in Nat /\ c >= 1
    BY <1>1, <1>2, <1>10
  <2>2. Paved(B, S, p) /\ (\A x \in B : S[x] \in Nat) /\ T[p] = c /\ \A x \in B : T[x] = S[x]
    BY <1>11, <1>12, <1>14, <1>15
  <2> HIDE DEF B, S, T
  <2>3. p \notin B /\ Paved(B \cup {p}, T, p + c)
    BY <2>1, <2>2, PavedMore
  <2> QED  BY <2>3 DEF T
<1>17. p \notin F /\ p \notin Held(own)
  BY <1>0, <1>3, <1>13
<1>18. \A x \in F : x \in Spots /\ i.hdr[x] = m.hdr[x]
  BY <1>5, <1>7, <1>8, <1>17, RingSpots
<1>19. Ringing(i, F)
  <2>1. \A x \in F : LinksOf(i)[x] = LinksOf(m)[x]
    BY <1>18 DEF LinksOf
  <2>2. Ordered(F, LinksOf(i))
    BY <1>8, <2>1, OrderSame DEF Ringing
  <2>3. i.hdr[i.base].size = 0
    BY <1>7, <1>8, <1>18 DEF Ringing
  <2> QED  BY <1>7, <1>8, <2>2, <2>3 DEF Ringing
<1>20. Lent(i, own)
  <2>1. \A x \in Held(own) : x \in Spots /\ x # p
    BY <1>8, <1>17, SpotNat
  <2>2. \A x \in Held(own) : i.hdr[x] = m.hdr[x]
    BY <1>5, <1>7, <2>1
  <2> QED  BY <1>8, <2>2, LentSame
<1>21. Spare(i, own, F, p)
  <2>1. \A x, y \in F \ {i.base} : x + i.hdr[x].size # y
    BY <1>7, <1>8, <1>18 DEF Apiece
  <2>2. Held(own) \cap F = {}
    BY <1>8 DEF Apiece
  <2>3. Paved(Held(own) \cup (F \ {i.base}) \cup {p}, SizesOf(i), i.brk)
    BY <1>7, <1>16
  <2> QED  BY <1>3, <1>17, <1>19, <1>20, <2>1, <2>2, <2>3 DEF Spare
<1>22. j \in LibMem /\ \E G : LibOk(j, own, G) /\ \E x \in G : j.hdr[x].size >= i.hdr[p].size
  BY <1>7, <1>9, <1>21, FreeOk
<1>23. PICK G : LibOk(j, own, G) /\ \E x \in G : j.hdr[x].size >= i.hdr[p].size
  BY <1>22
<1>24. PICK x \in G : j.hdr[x].size >= c
  BY <1>5, <1>7, <1>23
<1>25. j.hdr[x].size \in Nat
  <2>1. x \in Spots
    BY <1>22, <1>23, RingSpots DEF LibOk
  <2> QED  BY <1>22, <2>1 DEF LibMem, LibHeader
<1>26. j.hdr[x].size >= n
  BY <1>1, <1>24, <1>25
<1> QED  BY <1>22, <1>23, <1>26

\* The first call sets the ring up.
LEMMA BegunOk ==
  ASSUME NEW m \in LibMem, NEW own,
         IF m.allocp = NoSpot THEN own = <<>> /\ m.brk = 2 ELSE \E F : LibOk(m, own, F),
         NEW j, j = Begun(m)
  PROVE  j \in LibMem /\ \E F : LibOk(j, own, F)
<1>1. CASE m.allocp # NoSpot
  BY <1>1 DEF Begun
<1>2. CASE m.allocp = NoSpot
  <2> DEFINE h == [ptr |-> m.base, size |-> 0]
             g == [m.hdr EXCEPT ![m.base] = h]
             F == {m.base}
  <2>1. LibHeap \in Nat /\ m.base \in Spots /\ m.base \in Nat
    BY SpotNat
  <2>2. j = [m EXCEPT !.allocp = m.base, !.hdr = g]
    BY <1>2 DEF Begun
  <2>3. g \in [Spots -> LibHeader] /\ g[m.base] = h
    BY <2>1 DEF LibMem, LibHeader
  <2> HIDE DEF g
  <2>4. j \in LibMem /\ j.allocp = m.base /\ j.hdr = g /\ j.base = m.base /\ j.brk = 2
    BY <1>2, <2>1, <2>2, <2>3 DEF LibMem
  <2>5. DOMAIN own = {} /\ Held(own) = {}
    BY <1>2 DEF Held
  <2>6. Follows(F, m.base, m.base)
    BY <2>1 DEF Follows
  <2>7. LinksOf(j)[m.base] = m.base
    BY <2>1, <2>3, <2>4 DEF LinksOf
  <2>8. Ringing(j, F)
    <3>1. Ordered(F, LinksOf(j))
      BY <2>6, <2>7 DEF Ordered
    <3>2. j.hdr[j.base].size = 0
      BY <2>3, <2>4
    <3> QED  BY <2>4, <3>1, <3>2 DEF Ringing
  <2>9. Lent(j, own)
    BY <2>5 DEF Lent
  <2>10. Apiece(j, own, F)
    <3>1. Held(own) \cup (F \ {j.base}) = {}
      BY <2>4, <2>5
    <3>2. Paved({}, SizesOf(j), 2)
      BY DEF Paved
    <3> QED  BY <2>4, <2>5, <3>1, <3>2 DEF Apiece
  <2> HIDE DEF F
  <2> QED  BY <2>4, <2>8, <2>9, <2>10 DEF LibOk
<1> QED  BY <1>1, <1>2

\* If a block of the ring is long enough, the search finds one.
LEMMA FitFinds ==
  ASSUME NEW m \in LibMem, NEW F, Ringing(m, F), NEW n
  PROVE  /\ \A k \in Fit(m, n) : k \in 1 .. LibHeap + 1 /\ m.hdr[Ring(m)[k]].size >= n
         /\ (\E x \in F : m.hdr[x].size >= n) => Fit(m, n) # {}
<1> DEFINE N == LibHeap + 1
           r == Ring(m)
           R == Round1(m)
           e == Least(R)
           L == LinksOf(m)
           W == {r[k] : k \in 1 .. e}
<1>0. LibHeap \in Nat /\ N \in Nat
  BY SpotNat
<1>1. /\ \A k \in 0 .. N : r[k] \in F
      /\ \A k \in 1 .. N : r[k] = m.hdr[r[k - 1]].ptr
      /\ R # {} /\ r[0] = m.allocp
  BY RingRound, RingSteps
<1>2. R \in SUBSET Nat /\ \A k \in R : k \in 1 .. N /\ r[k] = m.allocp
  BY <1>0 DEF Round1
<1>3. e \in R
  <2> HIDE DEF R
  <2> QED  BY <1>1, <1>2, LeastIs
<1>4. e \in 1 .. N /\ r[e] = r[0]
  BY <1>1, <1>2, <1>3
<1>5. Fit(m, n) = {k \in 1 .. e : m.hdr[r[k]].size >= n}
  BY DEF Fit
<1>6. Ordered(F, L) /\ F \in SUBSET (0 .. LibHeap + 3) /\ LibHeap + 3 \in Nat /\ \A x \in F : L[x] = m.hdr[x].ptr
  BY <1>0, RingSpots DEF Ringing
<1> HIDE DEF r, e, L
<1>7. W = F
  <2>1. W \in SUBSET F
    BY <1>0, <1>1, <1>4
  <2>2. W # {} /\ r[1] \in W
    BY <1>0, <1>4
  <2>3. ASSUME NEW x \in W  PROVE L[x] \in W
    <3>1. PICK k \in 1 .. e : x = r[k]
      OBVIOUS
    <3>2. k \in 0 .. N /\ x \in F
      BY <1>0, <1>1, <1>4, <3>1
    <3>3. CASE k = e
      <4>1. x = r[0] /\ 1 \in 1 .. N /\ 1 - 1 = 0
        BY <1>0, <1>4, <3>1, <3>3
      <4>2. r[1] = m.hdr[x].ptr
        BY <1>1, <4>1
      <4> QED  BY <1>6, <2>2, <3>2, <4>2
    <3>4. CASE k # e
      <4>1. k + 1 \in 1 .. e /\ k + 1 \in 1 .. N /\ (k + 1) - 1 = k
        BY <1>0, <1>4, <3>4
      <4>2. r[k + 1] = m.hdr[x].ptr
        BY <1>1, <3>1, <4>1
      <4> QED  BY <1>6, <3>2, <4>1, <4>2
    <3> QED  BY <3>3, <3>4
  <2> HIDE DEF W
  <2> QED  BY <1>6, <2>1, <2>2, <2>3, OrderClosed
<1>8. ASSUME NEW x \in F, m.hdr[x].size >= n  PROVE Fit(m, n) # {}
  <2>1. PICK k \in 1 .. e : x = r[k]
    BY <1>7
  <2> QED  BY <1>5, <1>8, <2>1
<1>9. \A k \in Fit(m, n) : k \in 1 .. N /\ m.hdr[r[k]].size >= n
  BY <1>0, <1>4, <1>5
<1> QED  BY <1>8, <1>9 DEF r

\* What malloc does to the block it hands out.
Behind(r, n) == r + 1 .. r + n - 1
Handed(t, q, r, n) ==
  [t EXCEPT !.allocp = q,
            !.hdr = [x \in Spots |-> IF x = r THEN [ptr |-> NoSpot, size |-> n]
                                     ELSE IF x \in r + 1 .. r + n - 1 THEN NoHeader ELSE @[x]]]
IsHanded(j, t, q, r, n) ==
  /\ j \in LibMem /\ j.base = t.base /\ j.brk = t.brk /\ j.allocp = q /\ j.hdr[r].size = n
  /\ \A x \in Spots : x # r /\ x \notin Behind(r, n) => j.hdr[x] = t.hdr[x]
LEMMA HandedIs ==
  ASSUME NEW t \in LibMem, NEW q \in Spots, NEW r \in Spots, NEW n \in Nat, NEW j, j = Handed(t, q, r, n)
  PROVE  IsHanded(j, t, q, r, n)
<1> DEFINE h == [ptr |-> NoSpot, size |-> n]
           g == [x \in Spots |-> IF x = r THEN h ELSE IF x \in Behind(r, n) THEN NoHeader ELSE t.hdr[x]]
<1>1. t.hdr \in [Spots -> LibHeader] /\ h \in LibHeader /\ NoHeader \in LibHeader
  BY DEF LibMem, LibHeader, NoHeader
<1>2. j = [t EXCEPT !.allocp = q, !.hdr = g]
  BY DEF Handed, LibMem, Behind
<1>3. /\ g \in [Spots -> LibHeader] /\ g[r] = h
      /\ \A x \in Spots : x # r /\ x \notin Behind(r, n) => g[x] = t.hdr[x]
  <2> HIDE DEF h
  <2> QED  BY <1>1
<1> HIDE DEF g
<1>4. j \in LibMem /\ j.base = t.base /\ j.brk = t.brk /\ j.allocp = q /\ j.hdr = g
  BY <1>2, <1>3 DEF LibMem
<1> QED  BY <1>3, <1>4 DEF IsHanded

\* The node before it leads past it, or it gets shorter.
Bypassed(m, q, p) == [m EXCEPT !.hdr[q].ptr = m.hdr[p].ptr]
Shorter(m, p, n) == [m EXCEPT !.hdr[p].size = @ - n]

\* It is the first one found, whole or its end.
LEMMA CutIs ==
  ASSUME NEW m \in LibMem, NEW F, Ringing(m, F), NEW n, Fit(m, n) # {}
  PROVE  \E q, p \in F :
           /\ p = m.hdr[q].ptr /\ m.hdr[p].size >= n
           /\ IF m.hdr[p].size = n
              THEN Cut(m, n) = [mem |-> Handed(Bypassed(m, q, p), q, p, n), at |-> p + 1]
              ELSE LET r == p + m.hdr[p].size - n
                   IN  Cut(m, n) = [mem |-> Handed(Shorter(m, p, n), q, r, n), at |-> r + 1]
<1> DEFINE k == Least(Fit(m, n))
           q == Ring(m)[k - 1]
           p == Ring(m)[k]
<1>0. LibHeap \in Nat
  BY SpotNat
<1>1. \A i \in Fit(m, n) : i \in 1 .. LibHeap + 1 /\ m.hdr[Ring(m)[i]].size >= n
  BY FitFinds
<1>2. k \in Fit(m, n)
  <2> DEFINE S == Fit(m, n)
  <2>1. S \in SUBSET Nat /\ S # {}
    BY <1>0, <1>1
  <2> HIDE DEF S
  <2>2. Least(S) \in S
    BY <2>1, LeastIs
  <2> QED  BY <2>2 DEF S
<1>3. k \in 1 .. LibHeap + 1 /\ k \in 0 .. LibHeap + 1 /\ k - 1 \in 0 .. LibHeap + 1 /\ m.hdr[p].size >= n
  <2> HIDE DEF k
  <2> QED  BY <1>0, <1>1, <1>2
<1>4. q \in F /\ p \in F /\ p = m.hdr[q].ptr
  <2> HIDE DEF k
  <2> QED  BY <1>3, RingRound
<1>5. m.hdr[p].size = n =>
        Cut(m, n) = [mem |-> Handed(Bypassed(m, q, p), q, p, n), at |-> p + 1]
  BY DEF Cut, Handed, Bypassed, Shorter
<1>6. m.hdr[p].size # n =>
        LET r == p + m.hdr[p].size - n
        IN  Cut(m, n) = [mem |-> Handed(Shorter(m, p, n), q, r, n), at |-> r + 1]
  BY DEF Cut, Handed, Bypassed, Shorter
<1> HIDE DEF p, q
<1> QED  BY <1>3, <1>4, <1>5, <1>6

\* The caller of malloc has asked for b bytes and got the unit a.
Given(own, a, b) == [x \in DOMAIN own \cup {a} |-> IF x = a THEN b ELSE own[x]]
LEMMA GivenIs ==
  ASSUME NEW m, NEW own, Lent(m, own), NEW r \in LibUnits, NEW b, NEW j, Covers(j.hdr[r].size, b),
         \A x \in Held(own) : j.hdr[x] = m.hdr[x]
  PROVE  Held(Given(own, r + 1, b)) = Held(own) \cup {r} /\ Lent(j, Given(own, r + 1, b))
<1> DEFINE w == Given(own, r + 1, b)
<1>0. LibHeap \in Nat /\ r \in Nat /\ r + 1 - 1 = r /\ r + 1 \in 3 .. LibHeap + 2
  BY SpotNat
<1>1. DOMAIN w = DOMAIN own \cup {r + 1} /\ w[r + 1] = b /\ \A x \in DOMAIN own : x # r + 1 => w[x] = own[x]
  BY DEF Given
<1> HIDE DEF w
<1>2. Held(w) = Held(own) \cup {r}
  BY <1>0, <1>1 DEF Held
<1>3. ASSUME NEW a \in DOMAIN w  PROVE Covers(j.hdr[a - 1].size, w[a])
  <2>1. CASE a = r + 1
    BY <1>0, <1>1, <2>1
  <2>2. CASE a # r + 1
    <3>1. a \in DOMAIN own /\ w[a] = own[a]
      BY <1>1, <2>2
    <3>2. j.hdr[a - 1] = m.hdr[a - 1]
      BY <3>1 DEF Held
    <3>3. Covers(m.hdr[a - 1].size, own[a])
      BY <3>1 DEF Lent
    <3> QED  BY <3>1, <3>2, <3>3
  <2> QED  BY <2>1, <2>2
<1>4. DOMAIN w \subseteq 3 .. LibHeap + 2
  BY <1>0, <1>1 DEF Lent
<1>5. Lent(j, w)
  BY <1>3, <1>4 DEF Lent
<1> QED  BY <1>2, <1>5 DEF w

\* Other nodes and blocks lie outside of a block.
LEMMA Outside ==
  ASSUME NEW m \in LibMem, NEW own, NEW F, LibOk(m, own, F), NEW p \in F \ {m.base},
         NEW x \in Held(own) \cup F, x # p, NEW u \in p .. p + m.hdr[p].size - 1
  PROVE  x # u
<1> DEFINE B == Held(own) \cup (F \ {m.base})
           S == SizesOf(m)
<1>0. LibHeap \in Nat /\ m.base \in Nat /\ (m.base = 0 \/ m.base = LibHeap + 3)
  BY SpotNat
<1>1. Paved(B, S, m.brk) /\ Held(own) \subseteq LibUnits /\ F \ {m.base} \subseteq LibUnits /\ m.brk \in Nat /\ m.brk <= LibHeap + 2
  BY <1>0, HeldUnits DEF LibOk, Apiece, Ringing, LibMem
<1>2. \A y \in B : y \in Spots /\ y \in Nat /\ S[y] \in Nat /\ S[y] = m.hdr[y].size
  <2>1. \A y \in B : y \in Spots /\ y \in Nat
    BY <1>1, SpotNat
  <2> QED  BY <2>1 DEF SizesOf, LibMem, LibHeader
<1>3. p \in B /\ p >= 2 /\ p + S[p] <= m.brk /\ p \in Nat /\ S[p] \in Nat /\ S[p] = m.hdr[p].size
  BY <1>1, <1>2 DEF Paved
<1>4. u \in Nat /\ p <= u /\ u < p + S[p]
  BY <1>3
<1>5. CASE x = m.base
  BY <1>0, <1>1, <1>3, <1>4, <1>5
<1>6. CASE x # m.base
  <2>1. x \in B
    BY <1>6
  <2>2. (x + S[x] <= p \/ p + S[p] <= x) /\ S[x] >= 1
    BY <1>1, <1>3, <2>1 DEF Paved
  <2>3. x \in Nat /\ S[x] \in Nat
    BY <1>2, <2>1
  <2> QED  BY <1>3, <1>4, <2>2, <2>3
<1> QED  BY <1>5, <1>6

\* The block found is not base, nor the node before it.
LEMMA FoundIs ==
  ASSUME NEW m \in LibMem, NEW F, Ringing(m, F), NEW q \in F, NEW p \in F, p = m.hdr[q].ptr,
         NEW n \in Nat, n >= 1, m.hdr[p].size >= n
  PROVE  p # m.base /\ q # p /\ p \in LibUnits /\ p \in Spots /\ q \in Spots /\ m.hdr[p].size \in Nat
<1>1. m.base \in F /\ m.hdr[m.base].size = 0 /\ F \ {m.base} \subseteq LibUnits /\ LinksOf(m)[q] = p
  BY RingSpots DEF Ringing
<1>2. p # m.base
  BY <1>1
<1>3. p \in Spots /\ q \in Spots /\ p \in Nat /\ q \in Nat /\ m.base \in Nat
  BY <1>1, RingSpots
<1>4. Follows(F, q, p)
  BY <1>1 DEF Ringing, Ordered
<1>5. q # p
  <2> SUFFICES ASSUME q = p  PROVE FALSE
    OBVIOUS
  <2>1. p <= m.base /\ m.base <= q
    BY <1>1, <1>3, <1>4 DEF Follows
  <2> QED  BY <1>2, <1>3, <2>1
<1>6. m.hdr[p].size \in Nat
  BY <1>3 DEF LibMem, LibHeader
<1> QED  BY <1>1, <1>2, <1>3, <1>5, <1>6

\* malloc has found p behind q, and hands n units of it out: all of it, or its end r.
Leads(m, q, p) == p = m.hdr[q].ptr
TakesAll(m, q, p, n, j) == m.hdr[p].size = n /\ j = Handed(Bypassed(m, q, p), q, p, n)
TakesEnd(m, q, p, n, r, j) == r = p + m.hdr[p].size - n /\ j = Handed(Shorter(m, p, n), q, r, n)

\* A block that fits is taken out of the ring.
LEMMA CutWhole ==
  ASSUME NEW m \in LibMem, NEW own, NEW F, LibOk(m, own, F), NEW q \in F, NEW p \in F, Leads(m, q, p),
         NEW n \in Nat, n >= 1, NEW b, Covers(n, b), NEW j, TakesAll(m, q, p, n, j)
  PROVE  j \in LibMem /\ LibOk(j, Given(own, p + 1, b), F \ {p})
<1> DEFINE g == [m.hdr EXCEPT ![q].ptr = m.hdr[p].ptr]
           t == Bypassed(m, q, p)
           G == F \ {p}
           w == Given(own, p + 1, b)
           B == Held(own) \cup (F \ {m.base})
<1>0. LibHeap \in Nat /\ m.base \in Spots
  BY SpotNat
<1>1. Ringing(m, F) /\ Lent(m, own) /\ Apiece(m, own, F) /\ Held(own) \subseteq LibUnits
  BY HeldUnits DEF LibOk
<1>2. p # m.base /\ q # p /\ p \in LibUnits /\ p \in Spots /\ q \in Spots /\ p \in Nat
  <2>1. m.hdr[p].size >= n /\ p = m.hdr[q].ptr
    BY DEF TakesAll, Leads
  <2> QED  BY <1>1, <2>1, FoundIs, SpotNat
<1>3. m.hdr \in [Spots -> LibHeader] /\ m.hdr[p] \in LibHeader /\ m.hdr[q] \in LibHeader
  BY <1>2 DEF LibMem
<1>4. /\ g \in [Spots -> LibHeader] /\ g[q].ptr = m.hdr[p].ptr /\ g[q].size = m.hdr[q].size
      /\ \A x \in Spots : x # q => g[x] = m.hdr[x]
  BY <1>2, <1>3 DEF LibHeader
<1>5. t = [m EXCEPT !.hdr = g]
  BY DEF Bypassed
<1> HIDE DEF g
<1>6. t \in LibMem /\ t.hdr = g /\ t.base = m.base /\ t.brk = m.brk
  BY <1>4, <1>5 DEF LibMem
<1> HIDE DEF t
<1>7. /\ j \in LibMem /\ j.base = t.base /\ j.brk = t.brk /\ j.allocp = q /\ j.hdr[p].size = n
      /\ \A x \in Spots : x # p /\ x \notin Behind(p, n) => j.hdr[x] = t.hdr[x]
  <2>1. j = Handed(t, q, p, n)
    BY DEF t, TakesAll
  <2>2. t \in LibMem /\ q \in Spots /\ p \in Spots /\ n \in Nat
    BY <1>2, <1>6
  <2>3. IsHanded(j, t, q, p, n)
    BY <2>1, <2>2, HandedIs
  <2> QED  BY <2>3 DEF IsHanded
<1>8. ASSUME NEW x \in Held(own) \cup F, x # p  PROVE x \in Spots /\ j.hdr[x] = g[x]
  <2>1. x \in Spots
    BY <1>1, RingSpots, SpotNat
  <2>2. \A u \in p .. p + m.hdr[p].size - 1 : x # u
    BY <1>2, <1>8, Outside
  <2>3. x \notin Behind(p, n)
    BY <1>2, <2>2 DEF Behind, TakesAll
  <2> QED  BY <1>6, <1>7, <1>8, <2>1, <2>3
<1>9. Held(own) \cap F = {} /\ Paved(B, SizesOf(m), m.brk) /\ \A x, y \in F \ {m.base} : x + m.hdr[x].size # y
  BY <1>1 DEF Apiece
<1>10. Held(w) = Held(own) \cup {p} /\ Lent(j, w)
  <2>1. \A x \in Held(own) : j.hdr[x] = m.hdr[x]
    BY <1>4, <1>8, <1>9
  <2>2. Covers(j.hdr[p].size, b) /\ Lent(m, own) /\ p \in LibUnits
    BY <1>1, <1>2, <1>7
  <2> QED  BY <2>1, <2>2, GivenIs
<1>11. \A x \in F : x # p => j.hdr[x].size = m.hdr[x].size
  BY <1>4, <1>8
<1>12. Ordered(G, LinksOf(j))
  <2> DEFINE L == LinksOf(m)
             M == LinksOf(j)
  <2>1. \A x \in Spots : L[x] = m.hdr[x].ptr /\ M[x] = j.hdr[x].ptr
    BY DEF LinksOf
  <2>2. Ordered(F, L) /\ F \in SUBSET Nat
    BY <1>1, RingSpots DEF Ringing
  <2> HIDE DEF L, M
  <2>3. L[q] = p
    BY <1>2, <2>1 DEF Leads
  <2>4. M[q] = L[p]
    <3>1. M[q] = j.hdr[q].ptr /\ L[p] = m.hdr[p].ptr
      BY <1>2, <2>1
    <3>2. j.hdr[q] = g[q]
      BY <1>2, <1>8
    <3> QED  BY <1>4, <3>1, <3>2
  <2>5. ASSUME NEW x \in F, x # q, x # p  PROVE M[x] = L[x]
    <3>1. x \in Spots /\ j.hdr[x] = g[x]
      BY <1>8, <2>5
    <3>2. g[x] = m.hdr[x]
      BY <1>4, <2>5, <3>1
    <3> QED  BY <2>1, <3>1, <3>2
  <2>6. Ordered(F \ {p}, M)
    BY <1>2, <2>2, <2>3, <2>4, <2>5, OrderOut
  <2> QED  BY <2>6 DEF M
<1>13. Ringing(j, G)
  <2>1. m.base \in F /\ F \ {m.base} \subseteq LibUnits /\ m.hdr[m.base].size = 0
    BY <1>1 DEF Ringing
  <2>2. j.base = m.base /\ j.hdr[j.base].size = 0
    BY <1>2, <1>6, <1>7, <1>11, <2>1
  <2> QED  BY <1>2, <1>7, <1>12, <2>1, <2>2 DEF Ringing
<1>14. Apiece(j, w, G)
  <2>1. Held(w) \cap G = {} /\ Held(w) \cup (G \ {j.base}) = B
    BY <1>2, <1>6, <1>7, <1>9, <1>10
  <2>2. \A x \in B : SizesOf(j)[x] = SizesOf(m)[x]
    <3> SUFFICES ASSUME NEW x \in B  PROVE SizesOf(j)[x] = SizesOf(m)[x]
      OBVIOUS
    <3>1. x \in Spots
      BY <1>1, RingSpots, SpotNat
    <3>2. j.hdr[x].size = m.hdr[x].size
      <4>1. CASE x = p
        BY <1>7, <4>1 DEF TakesAll
      <4>2. CASE x # p
        <5>1. j.hdr[x] = g[x]
          BY <1>8, <4>2
        <5> QED  BY <1>4, <3>1, <5>1
      <4> QED  BY <4>1, <4>2
    <3> QED  BY <3>1, <3>2 DEF SizesOf
  <2>3. Paved(B, SizesOf(j), j.brk)
    <3> DEFINE S == SizesOf(m)
               T == SizesOf(j)
    <3>1. Paved(B, S, j.brk) /\ \A x \in B : T[x] = S[x]
      BY <1>6, <1>7, <1>9, <2>2
    <3> HIDE DEF B, S, T
    <3>2. Paved(B, T, j.brk)
      BY <3>1, PavedSame
    <3> QED  BY <3>2 DEF T
  <2>4. \A x, y \in G \ {j.base} : x + j.hdr[x].size # y
    BY <1>6, <1>7, <1>9, <1>11
  <2> HIDE DEF B
  <2> QED  BY <2>1, <2>3, <2>4 DEF Apiece
<1> QED  BY <1>7, <1>10, <1>13, <1>14 DEF LibOk

\* A longer block gives its end away.
LEMMA CutEnd ==
  ASSUME NEW m \in LibMem, NEW own, NEW F, LibOk(m, own, F), NEW q \in F, NEW p \in F, Leads(m, q, p),
         NEW n \in Nat, n >= 1, m.hdr[p].size >= n, m.hdr[p].size # n, NEW b, Covers(n, b),
         NEW r, NEW j, TakesEnd(m, q, p, n, r, j)
  PROVE  j \in LibMem /\ LibOk(j, Given(own, r + 1, b), F)
<1> DEFINE g == [m.hdr EXCEPT ![p].size = @ - n]
           t == Shorter(m, p, n)
           w == Given(own, r + 1, b)
           B == Held(own) \cup (F \ {m.base})
           S == SizesOf(m)
           T == SizesOf(j)
<1>0. LibHeap \in Nat /\ m.base \in Spots /\ m.brk \in Nat /\ m.brk <= LibHeap + 2
  BY SpotNat DEF LibMem
<1>1. Ringing(m, F) /\ Lent(m, own) /\ Apiece(m, own, F) /\ Held(own) \subseteq LibUnits
  BY HeldUnits DEF LibOk
<1>2. p # m.base /\ q # p /\ p \in LibUnits /\ p \in Spots /\ q \in Spots /\ p \in Nat /\ m.hdr[p].size \in Nat
  <2>1. p = m.hdr[q].ptr
    BY DEF Leads
  <2> QED  BY <1>1, <2>1, FoundIs, SpotNat
<1>3. m.hdr \in [Spots -> LibHeader] /\ m.hdr[p] \in LibHeader
  BY <1>2 DEF LibMem
<1>4. /\ g \in [Spots -> LibHeader] /\ g[p].ptr = m.hdr[p].ptr /\ g[p].size = m.hdr[p].size - n
      /\ \A x \in Spots : x # p => g[x] = m.hdr[x]
  <2>1. m.hdr[p].size - n \in Nat
    BY <1>2
  <2> QED  BY <1>2, <1>3, <2>1 DEF LibHeader
<1>5. t = [m EXCEPT !.hdr = g]
  BY DEF Shorter
<1> HIDE DEF g
<1>6. t \in LibMem /\ t.hdr = g /\ t.base = m.base /\ t.brk = m.brk
  BY <1>4, <1>5 DEF LibMem
<1> HIDE DEF t
<1>7. Held(own) \cap F = {} /\ Paved(B, S, m.brk) /\ \A x, y \in F \ {m.base} : x + m.hdr[x].size # y
  BY <1>1 DEF Apiece
<1>8. \A x \in Spots : S[x] = m.hdr[x].size /\ T[x] = j.hdr[x].size /\ S[x] \in Nat
  BY <1>3 DEF SizesOf, LibHeader
<1>9. p \in B /\ p + S[p] <= m.brk /\ p >= 2
  BY <1>2, <1>7 DEF Paved
<1> HIDE DEF S, T
<1>10. r \in Nat /\ r > p /\ r + n = p + S[p] /\ r \in LibUnits /\ r \in Spots /\ n < S[p] /\ S[p] \in Nat
  <2>1. r \in Nat /\ r > p /\ r + n = p + S[p] /\ n < S[p] /\ S[p] \in Nat
    BY <1>2, <1>8 DEF TakesEnd
  <2>2. r \in LibUnits
    BY <1>0, <1>2, <1>9, <2>1 DEF LibUnits
  <2> QED  BY <2>1, <2>2, SpotNat
<1>11. /\ j \in LibMem /\ j.base = t.base /\ j.brk = t.brk /\ j.allocp = q /\ j.hdr[r].size = n
       /\ \A x \in Spots : x # r /\ x \notin Behind(r, n) => j.hdr[x] = t.hdr[x]
  <2>1. j = Handed(t, q, r, n)
    BY DEF t, TakesEnd
  <2>2. t \in LibMem /\ q \in Spots /\ r \in Spots /\ n \in Nat
    BY <1>2, <1>6, <1>10
  <2>3. IsHanded(j, t, q, r, n)
    BY <2>1, <2>2, HandedIs
  <2> QED  BY <2>3 DEF IsHanded
<1>12. ASSUME NEW x \in Held(own) \cup F  PROVE x \in Spots /\ x # r /\ j.hdr[x] = g[x]
  <2>1. x \in Spots /\ x \in Nat
    BY <1>1, RingSpots, SpotNat
  <2>2. CASE x = p
    <3>1. x # r /\ x \notin Behind(r, n)
      BY <1>2, <1>10, <2>2 DEF Behind
    <3> QED  BY <1>6, <1>11, <2>1, <3>1
  <2>3. CASE x # p
    <3>1. \A u \in p .. p + m.hdr[p].size - 1 : x # u
      BY <1>2, <2>3, Outside
    <3>2. m.hdr[p].size = S[p]
      BY <1>2, <1>8
    <3>3. \A u \in r .. r + n - 1 : u \in p .. p + S[p] - 1
      BY <1>2, <1>10
    <3>4. x # r /\ x \notin Behind(r, n)
      <4>1. r \in r .. r + n - 1 /\ \A u \in Behind(r, n) : u \in r .. r + n - 1
        BY <1>10 DEF Behind
      <4> QED  BY <3>1, <3>2, <3>3, <4>1
    <3> QED  BY <1>6, <1>11, <2>1, <3>4
  <2> QED  BY <2>2, <2>3
<1>13. Held(w) = Held(own) \cup {r} /\ Lent(j, w)
  <2>1. \A x \in Held(own) : j.hdr[x] = m.hdr[x]
    <3> SUFFICES ASSUME NEW x \in Held(own)  PROVE j.hdr[x] = m.hdr[x]
      OBVIOUS
    <3>1. x \in Spots /\ x # p /\ j.hdr[x] = g[x]
      BY <1>7, <1>12
    <3> QED  BY <1>4, <3>1
  <2>2. Covers(j.hdr[r].size, b) /\ Lent(m, own) /\ r \in LibUnits
    BY <1>1, <1>10, <1>11
  <2> QED  BY <2>1, <2>2, GivenIs
<1>14. Ordered(F, LinksOf(j))
  <2>1. ASSUME NEW x \in F  PROVE LinksOf(j)[x] = LinksOf(m)[x]
    <3>1. x \in Spots /\ j.hdr[x] = g[x]
      BY <1>12
    <3>2. g[x].ptr = m.hdr[x].ptr
      BY <1>4, <3>1
    <3> QED  BY <3>1, <3>2 DEF LinksOf
  <2> QED  BY <1>1, <2>1, OrderSame DEF Ringing
<1>15. Ringing(j, F)
  <2>1. m.base \in F /\ F \ {m.base} \subseteq LibUnits /\ m.hdr[m.base].size = 0
    BY <1>1 DEF Ringing
  <2>2. j.base = m.base /\ j.hdr[j.base] = m.hdr[m.base]
    <3>1. j.base = m.base /\ j.hdr[m.base] = g[m.base]
      BY <1>6, <1>11, <1>12, <2>1
    <3> QED  BY <1>0, <1>2, <1>4, <3>1
  <2> QED  BY <1>11, <1>14, <2>1, <2>2 DEF Ringing
<1>16. T[p] = S[p] - n /\ T[r] = n /\ \A x \in B : x \in Spots /\ x \in Nat /\ S[x] \in Nat /\ (x # p => T[x] = S[x])
  <2>1. T[p] = S[p] - n
    <3>1. j.hdr[p] = g[p]
      BY <1>12
    <3> QED  BY <1>2, <1>4, <1>8, <3>1
  <2>2. T[r] = n
    BY <1>8, <1>10, <1>11
  <2>3. ASSUME NEW x \in B  PROVE x \in Spots /\ x \in Nat /\ S[x] \in Nat /\ (x # p => T[x] = S[x])
    <3>1. x \in Spots /\ j.hdr[x] = g[x]
      BY <1>12
    <3>2. x \in Nat /\ S[x] \in Nat
      BY <1>8, <3>1, SpotNat
    <3>3. x # p => T[x] = S[x]
      BY <1>4, <1>8, <3>1
    <3> QED  BY <3>1, <3>2, <3>3
  <2> HIDE DEF B
  <2> QED  BY <2>1, <2>2, <2>3
<1>17. Paved(B \cup {r}, T, m.brk)
  <2>1. B \in SUBSET Nat /\ (\A x \in B : S[x] \in Nat) /\ \A x \in B : x # p => T[x] = S[x]
    BY <1>16
  <2>2. r = p + S[p] - n
    BY <1>2, <1>10
  <2> HIDE DEF B
  <2> QED  BY <1>0, <1>7, <1>9, <1>10, <1>16, <2>1, <2>2, PavedCut
<1>18. Apiece(j, w, F)
  <2>1. j.base = m.base /\ j.brk = m.brk
    BY <1>6, <1>11
  <2>2. Held(w) \cap F = {} /\ Held(w) \cup (F \ {j.base}) = B \cup {r}
    BY <1>7, <1>12, <1>13, <2>1
  <2>3. \A x, y \in F \ {j.base} : x + j.hdr[x].size # y
    <3> SUFFICES ASSUME NEW x \in F \ {m.base}, NEW y \in F \ {m.base}, x + j.hdr[x].size = y
                 PROVE  FALSE
      BY <2>1
    <3>1. x \in Spots /\ j.hdr[x] = g[x]
      BY <1>12
    <3>2. CASE x = p
      <4>1. j.hdr[x].size = S[p] - n
        BY <1>2, <1>4, <1>8, <3>1, <3>2
      <4>2. y = r
        BY <1>2, <1>10, <3>2, <4>1
      <4> QED  BY <1>12, <4>2
    <3>3. CASE x # p
      <4>1. j.hdr[x] = m.hdr[x]
        BY <1>4, <3>1, <3>3
      <4> QED  BY <1>7, <4>1
    <3> QED  BY <3>2, <3>3
  <2>4. Paved(Held(w) \cup (F \ {j.base}), SizesOf(j), j.brk)
    BY <1>17, <2>1, <2>2 DEF T
  <2> HIDE DEF w
  <2> QED  BY <2>2, <2>3, <2>4 DEF Apiece
<1> QED  BY <1>11, <1>13, <1>15, <1>18 DEF LibOk

\* What malloc hands out of a ring in which a block is long enough.
LEMMA HandOut ==
  ASSUME NEW m \in LibMem, NEW own, NEW F, LibOk(m, own, F), NEW n \in Nat, n >= 1, Fit(m, n) # {},
         NEW b, Covers(n, b), NEW c, c = Cut(m, n)
  PROVE  c.mem \in LibMem /\ \E G : LibOk(c.mem, Given(own, c.at, b), G)
<1>1. Ringing(m, F)
  BY DEF LibOk
<1>2. PICK q \in F, p \in F :
        /\ p = m.hdr[q].ptr /\ m.hdr[p].size >= n
        /\ IF m.hdr[p].size = n
           THEN Cut(m, n) = [mem |-> Handed(Bypassed(m, q, p), q, p, n), at |-> p + 1]
           ELSE LET r == p + m.hdr[p].size - n
                IN  Cut(m, n) = [mem |-> Handed(Shorter(m, p, n), q, r, n), at |-> r + 1]
  BY <1>1, CutIs
<1>3. Leads(m, q, p)
  BY <1>2 DEF Leads
<1>4. CASE m.hdr[p].size = n
  <2>1. c.at = p + 1 /\ c.mem = Handed(Bypassed(m, q, p), q, p, n)
    BY <1>2, <1>4
  <2>2. TakesAll(m, q, p, n, c.mem)
    BY <1>4, <2>1 DEF TakesAll
  <2>3. c.mem \in LibMem /\ LibOk(c.mem, Given(own, p + 1, b), F \ {p})
    BY <1>3, <2>2, CutWhole
  <2> QED  BY <2>1, <2>3
<1>5. CASE m.hdr[p].size # n
  <2> DEFINE r == p + m.hdr[p].size - n
  <2>1. c.at = r + 1 /\ c.mem = Handed(Shorter(m, p, n), q, r, n)
    BY <1>2, <1>5
  <2>2. TakesEnd(m, q, p, n, r, c.mem)
    BY <2>1 DEF TakesEnd
  <2> HIDE DEF r
  <2>3. c.mem \in LibMem /\ LibOk(c.mem, Given(own, r + 1, b), F)
    BY <1>2, <1>3, <1>5, <2>2, CutEnd
  <2> QED  BY <2>1, <2>3
<1> QED  BY <1>4, <1>5

\* What the inductive invariant says, of any memory.
Running(m, own) == m \in LibMem /\ \E F : LibOk(m, own, F)
LEMMA RunningOn ==
  ASSUME NEW m, NEW own, Running(m, own)
  PROVE  m \in LibMem /\ m.allocp # NoSpot /\ \E F : LibOk(m, own, F)
<1>1. m \in LibMem
  BY DEF Running
<1>2. PICK F : LibOk(m, own, F)
  BY DEF Running
<1>3. m.allocp \in Spots
  BY <1>1, <1>2, RingSpots DEF LibOk
<1> QED  BY <1>1, <1>2, <1>3, SpotNat

\* malloc keeps it, whether it finds a block, asks for more or fails.
LEMMA MallocKeeps ==
  ASSUME LibInv, NEW b \in LibRequests, malloc(b)
  PROVE  Running(lib', libOwned')
<1> DEFINE n == NUnits(b)
           m == Begun(lib)
           more == IF Fit(m, n) # {} THEN m ELSE coremore(m, n)
           c == Cut(more, n)
<1>1. b \in Nat /\ n \in Nat /\ n >= 1 /\ Covers(n, b)
  <2>1. b \in Nat
    BY LibMallocAssumption
  <2> QED  BY <2>1, UnitsEnough DEF Covers
<1>2. m \in LibMem /\ \E F : LibOk(m, libOwned, F)
  BY BegunOk DEF LibInv
<1>3. IF Fit(m, n) = {} /\ ~Grows(m, Chunks(n)) THEN lib' = m /\ UNCHANGED libOwned
      ELSE lib' = c.mem /\ libOwned' = Given(libOwned, c.at, b)
  BY DEF malloc, Given
<1> HIDE DEF n, m
<1>4. PICK F : LibOk(m, libOwned, F)
  BY <1>2
<1>5. CASE Fit(m, n) = {} /\ ~Grows(m, Chunks(n))
  BY <1>2, <1>3, <1>4, <1>5 DEF Running
<1>6. CASE ~(Fit(m, n) = {} /\ ~Grows(m, Chunks(n)))
  <2>1. \E G : more \in LibMem /\ LibOk(more, libOwned, G) /\ Fit(more, n) # {}
    <3>1. CASE Fit(m, n) # {}
      BY <1>2, <1>4, <3>1
    <3>2. CASE Fit(m, n) = {}
      <4>1. more = coremore(m, n) /\ Grows(m, Chunks(n))
        BY <1>6, <3>2
      <4> HIDE DEF more
      <4>2. more \in LibMem /\ \E G : LibOk(more, libOwned, G) /\ \E x \in G : more.hdr[x].size >= n
        BY <1>1, <1>2, <1>4, <4>1, CoremoreOk
      <4>3. PICK G : LibOk(more, libOwned, G) /\ \E x \in G : more.hdr[x].size >= n
        BY <4>2
      <4>4. Ringing(more, G)
        BY <4>3 DEF LibOk
      <4>5. Fit(more, n) # {}
        BY <4>2, <4>3, <4>4, FitFinds
      <4> QED  BY <4>2, <4>3, <4>5
    <3> QED  BY <3>1, <3>2
  <2> HIDE DEF more
  <2>2. PICK G : more \in LibMem /\ LibOk(more, libOwned, G) /\ Fit(more, n) # {}
    BY <2>1
  <2> HIDE DEF c
  <2>3. c = Cut(more, n)
    BY DEF c
  <2>4. c.mem \in LibMem /\ \E H : LibOk(c.mem, Given(libOwned, c.at, b), H)
    BY <1>1, <2>2, <2>3, HandOut
  <2>5. lib' = c.mem /\ libOwned' = Given(libOwned, c.at, b)
    BY <1>3, <1>6
  <2> QED  BY <2>4, <2>5 DEF Running
<1> QED  BY <1>5, <1>6

\* free keeps it, with a block that a caller holds.
LEMMA GiveBackKeeps ==
  ASSUME LibInv, NEW a \in DOMAIN libOwned, GiveBack(a)
  PROVE  Running(lib', libOwned')
<1> DEFINE p == a - 1
           own == libOwned'
<1>1. lib \in LibMem /\ \E F : LibOk(lib, libOwned, F)
  <2>1. libOwned # <<>>
    OBVIOUS
  <2> QED  BY <2>1 DEF LibInv
<1>2. PICK F : LibOk(lib, libOwned, F)
  BY <1>1
<1>3. Ringing(lib, F) /\ Lent(lib, libOwned) /\ Apiece(lib, libOwned, F) /\ Held(libOwned) \subseteq LibUnits
  BY <1>2, HeldUnits DEF LibOk
<1>4. LibHeap \in Nat /\ \A x \in DOMAIN libOwned : x \in Nat
  BY <1>3, SpotNat DEF Lent
<1>5. own = [x \in DOMAIN libOwned \ {a} |-> libOwned[x]] /\ lib' = free(lib, p)
  BY DEF GiveBack
<1>6. DOMAIN own = DOMAIN libOwned \ {a} /\ \A x \in DOMAIN own : own[x] = libOwned[x]
  BY <1>5
<1> HIDE DEF own
<1>7. Held(own) = Held(libOwned) \ {p} /\ p \in Held(libOwned)
  <2>1. p \in Held(libOwned)
    BY DEF Held
  <2>2. \A x \in DOMAIN libOwned : x - 1 = p <=> x = a
    BY <1>4
  <2> HIDE DEF p
  <2> QED  BY <1>6, <2>1, <2>2 DEF Held
<1> HIDE DEF p
<1>8. Lent(lib, own)
  BY <1>3, <1>6 DEF Lent
<1>9. Spare(lib, own, F, p)
  <2>1. p \in LibUnits /\ p \notin F /\ Held(own) \cap F = {} /\ p \notin Held(own)
    BY <1>3, <1>7 DEF Apiece
  <2>2. Held(own) \cup (F \ {lib.base}) \cup {p} = Held(libOwned) \cup (F \ {lib.base})
    BY <1>7
  <2> QED  BY <1>3, <1>8, <2>1, <2>2 DEF Spare, Apiece
<1>10. lib' \in LibMem /\ \E G : LibOk(lib', own, G)
  BY <1>1, <1>5, <1>9, FreeOk
<1> QED  BY <1>10 DEF Running, own

-----------------------------------------------------------------------------
(* The library heap, whatever is called.                                   *)

\* The heap starts untouched.
LEMMA LibInvInit ==
  ASSUME LibInit
  PROVE  LibInv
<1>1. PICK b \in {BaseBelow, BaseAbove} : lib = LibStart(b)
  BY DEF LibInit
<1>2. LibHeap \in Nat /\ NoSpot \in Spots \cup {NoSpot} /\ 2 \in 2 .. LibHeap + 2
  BY SpotNat
<1>3. NoHeader \in LibHeader
  BY DEF NoHeader, LibHeader
<1>4. lib \in LibMem /\ lib.allocp = NoSpot /\ lib.brk = 2
  BY <1>1, <1>2, <1>3 DEF LibStart, LibMem
<1> QED  BY <1>4 DEF LibInv, LibInit

\* Every call keeps the invariant.
LEMMA LibInvNext ==
  ASSUME LibInv, [LibNext]_libheapvars
  PROVE  LibInv'
<1>1. CASE UNCHANGED libheapvars
  BY <1>1 DEF LibInv, libheapvars
<1>2. ASSUME NEW b \in LibRequests, malloc(b)  PROVE LibInv'
  <2>1. Running(lib', libOwned')
    BY <1>2, MallocKeeps
  <2> QED  BY <2>1, RunningOn DEF LibInv
<1>3. ASSUME NEW a \in DOMAIN libOwned, GiveBack(a)  PROVE LibInv'
  <2>1. Running(lib', libOwned')
    BY <1>3, GiveBackKeeps
  <2> QED  BY <2>1, RunningOn DEF LibInv
<1> QED  BY <1>1, <1>2, <1>3 DEF LibNext

\* In the order of addresses one node, the greatest, does not lead upwards.
LEMMA OneTurn ==
  ASSUME NEW N \in Nat, NEW F \in SUBSET (0 .. N), F # {}, NEW L, Ordered(F, L)
  PROVE  Cardinality({p \in F : L[p] <= p}) = 1
<1>1. PICK g \in F : \A y \in F : y <= g
  BY MostNat
<1>2. F \in SUBSET Nat /\ \A x \in F : L[x] \in F /\ Follows(F, x, L[x])
  BY DEF Ordered, Follows
<1>3. L[g] <= g
  BY <1>1, <1>2
<1>4. ASSUME NEW p \in F, L[p] <= p  PROVE p = g
  <2>1. p \in Nat /\ g \in Nat /\ L[p] \in Nat /\ Follows(F, p, L[p])
    BY <1>2
  <2>2. ~(L[p] > p)
    BY <1>4, <2>1
  <2>3. g <= p
    BY <2>1, <2>2 DEF Follows
  <2> QED  BY <1>1, <2>1, <2>3
<1>5. {p \in F : L[p] <= p} = {g}
  BY <1>3, <1>4
<1> QED  BY <1>5, FS_Singleton

\* The invariant says what LibHeapSound asks for.
LEMMA LibInvSound ==
  ASSUME LibInv
  PROVE  LibHeapSound
<1> SUFFICES ASSUME lib.allocp # NoSpot  PROVE LibHeapSound
  BY DEF LibHeapSound
<1>1. PICK F : LibOk(lib, libOwned, F)
  BY DEF LibInv
<1> DEFINE B == Held(libOwned) \cup (F \ {lib.base})
           S == SizesOf(lib)
<1>2. lib \in LibMem /\ Ringing(lib, F) /\ Lent(lib, libOwned) /\ Apiece(lib, libOwned, F) /\ Held(libOwned) \subseteq LibUnits
  BY <1>1, HeldUnits DEF LibInv, LibOk
<1>3. LibHeap \in Nat /\ lib.brk \in Nat
  BY <1>2, SpotNat DEF LibMem
<1>4. FreeNodes = F /\ Round1(lib) # {} /\ lib.base \in F
  <2>1. /\ \A k \in 0 .. LibHeap + 1 : Ring(lib)[k] \in F
        /\ {Ring(lib)[k] : k \in 0 .. LibHeap} = F /\ Round1(lib) # {}
    BY <1>2, RingRound
  <2>2. \A k \in 0 .. LibHeap : k \in 0 .. LibHeap + 1
    BY <1>3
  <2>3. FreeNodes = F
    BY <2>1, <2>2 DEF FreeNodes
  <2> QED  BY <1>2, <2>1, <2>3 DEF Ringing
<1>5. Cardinality({p \in F : lib.hdr[p].ptr <= p}) = 1
  <2> DEFINE L == LinksOf(lib)
  <2>1. Ordered(F, L) /\ F # {} /\ F \in SUBSET (0 .. LibHeap + 3) /\ \A x \in F : L[x] = lib.hdr[x].ptr
    BY <1>2, RingSpots DEF Ringing
  <2> HIDE DEF L
  <2>2. LibHeap + 3 \in Nat
    BY <1>3
  <2>3. Cardinality({p \in F : L[p] <= p}) = 1
    BY <2>1, <2>2, OneTurn
  <2>4. {p \in F : lib.hdr[p].ptr <= p} = {p \in F : L[p] <= p}
    BY <2>1
  <2> QED  BY <2>3, <2>4
<1>6. \A p \in B : p \in Nat /\ S[p] \in Nat /\ S[p] = lib.hdr[p].size
  <2>1. \A p \in B : p \in Spots /\ p \in Nat
    BY <1>2, RingSpots, SpotNat
  <2> QED  BY <1>2, <2>1 DEF SizesOf, LibMem, LibHeader
<1>7. Paved(B, S, lib.brk)
  BY <1>2 DEF Apiece
<1> HIDE DEF B, S
<1>8. ASSUME NEW p \in B  PROVE Extent(p) = p .. p + S[p] - 1 /\ Extent(p) \subseteq 2 .. lib.brk - 1
  <2>1. Extent(p) = p .. p + S[p] - 1
    BY <1>6 DEF Extent
  <2>2. p >= 2 /\ p + S[p] <= lib.brk
    BY <1>7 DEF Paved
  <2> QED  BY <1>3, <1>6, <2>1, <2>2
<1>9. ASSUME NEW u \in 2 .. lib.brk - 1  PROVE Cardinality({p \in B : u \in Extent(p)}) = 1
  <2>1. u \in Nat
    BY <1>3
  <2>2. PICK p \in B : p <= u /\ u < p + S[p]
    BY <1>7 DEF Paved
  <2>3. u \in Extent(p)
    BY <1>6, <1>8, <2>1, <2>2
  <2>4. ASSUME NEW q \in B, u \in Extent(q)  PROVE q = p
    <3>1. q <= u /\ u < q + S[q]
      BY <1>6, <1>8, <2>1, <2>4
    <3>2. q # p => p + S[p] <= q \/ q + S[q] <= p
      BY <1>7 DEF Paved
    <3> QED  BY <1>6, <2>1, <2>2, <3>1, <3>2
  <2>5. {q \in B : u \in Extent(q)} = {p}
    BY <2>3, <2>4
  <2> QED  BY <2>5, FS_Singleton
<1>10. /\ \A a \in DOMAIN libOwned : libOwned[a] <= (lib.hdr[a - 1].size - 1) * Header
       /\ \A p, q \in F \ {lib.base} : p + lib.hdr[p].size # q
  <2>1. \A a \in DOMAIN libOwned : Covers(lib.hdr[a - 1].size, libOwned[a])
    BY <1>2 DEF Lent
  <2>2. \A a \in DOMAIN libOwned : libOwned[a] <= (lib.hdr[a - 1].size - 1) * Header
    BY <2>1, Zenon DEF Covers
  <2> QED  BY <1>2, <2>2 DEF Apiece
<1>11. (F \ {lib.base}) \cup {a - 1 : a \in DOMAIN libOwned} = B
  BY DEF B, Held
<1> HIDE DEF B, S
<1>12. \A p \in B : Extent(p) \subseteq 2 .. lib.brk - 1
  BY <1>8
<1>13. \A u \in 2 .. lib.brk - 1 : Cardinality({p \in B : u \in Extent(p)}) = 1
  BY <1>9
<1> QED  BY <1>4, <1>5, <1>10, <1>11, <1>12, <1>13, Zenon DEF LibHeapSound

\* Whatever is asked for and given back, in any order and whichever side of the
\* heap base lies on, the C library's ring leads round in the order of the
\* addresses, every unit has one owner and free blocks that touch are joined
\* (malloc, free and coremore of lib/malloc.c).
THEOREM LibHeapSoundAlways == LibSpec => []LibHeapSound
<1>1. LibInit => LibInv
  BY LibInvInit
<1>2. LibInv /\ [LibNext]_libheapvars => LibInv'
  BY LibInvNext
<1>3. LibInv => LibHeapSound
  BY LibInvSound
<1> QED  BY <1>1, <1>2, <1>3, PTL DEF LibSpec
=============================================================================
