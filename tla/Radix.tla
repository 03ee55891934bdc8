------------------------------- MODULE Radix --------------------------------
(***************************************************************************)
(* The radix tree of net/radix.c in which routes are kept: a binary tree   *)
(* whose inner nodes test one bit of an address and whose leaves hold the  *)
(* keys, with the routes of one key chained by decreasing mask.  A network *)
(* route is "promoted": a radix_mask for it hangs at an inner node below   *)
(* which its mask may still match, and rn_match climbs back through those  *)
(* lists when the leaf it came to does not match.                          *)
(*                                                                         *)
(* A tree is a function from nodes to records, and the operations map      *)
(* trees to trees.  An address is a number of Bits bits, the sin_addr of a *)
(* key; bit 0 is the highest (bit 32 of the sockaddr).  A mask is a number *)
(* of leading ones, or HostMask for none: every mask of the program comes  *)
(* from in_ifinit and is contiguous, RNF_NORMAL.  Comparisons of signed,   *)
(* 16-bit and long values are kept as the compiler makes them.             *)
(***************************************************************************)
EXTENDS Integers, Sequences, FiniteSets

CONSTANTS
  ByteBits,   \* bits in a byte
  AddrBytes,  \* bytes in an address
  ShortMod,   \* 2^16: a ushort or uint16_t holds values modulo this
  LongMod     \* the same for ulong, which is wider

Bits == ByteBits * AddrBytes

ASSUME RadixAssumption ==
  /\ ByteBits \in Nat \ {0} /\ AddrBytes \in Nat \ {0}
  /\ ShortMod \in Nat /\ LongMod \in Nat
  /\ 2 * Bits + 2 < ShortMod /\ 2 * ShortMod <= LongMod

Addrs == 0 .. 2^Bits - 1
HostMask == Bits + 1      \* rn_mask = NULL
Null == -9

\* Route k has a leaf and an inner node, rt_nodes; the head has three nodes.
Leaf(k) == 2 * k
Node(k) == 2 * k + 1
Zeros == 0
Ones == -2
Treetop == 1
Roots == {Zeros, Ones}

Bit(a, i) == (a \div 2^(Bits - 1 - i)) % 2
Short(x) == x % ShortMod
Long(x) == x % LongMod

\* Whether two addresses agree in their first n bits, and the reference for
\* all of this: a route with key k and mask m is one for address a.
Agree(a, k, n) == \A i \in 0 .. n - 1 : Bit(a, i) = Bit(k, i)
Covers(k, m, a) == Agree(a, k, IF m = HostMask THEN Bits ELSE m)

\* rn_addmask: the key of a mask has its trailing zero bytes cut off, and the
\* index of the mask is kept as -1 - index.
MaskBytes(m) == (m + ByteBits - 1) \div ByteBits
MaskIndex(m) == IF m = HostMask THEN -1 ELSE -1 - m

\* rn_refines and rn_lexobetter for contiguous masks.
rn_refines(m, n) == m > n

\* rn_inithead
rn_inithead ==
  [x \in Roots \cup {Treetop} |->
     IF x = Treetop THEN [b |-> 0, l |-> Zeros, r |-> Ones, p |-> Treetop, ml |-> <<>>]
     ELSE [b |-> -1, key |-> IF x = Zeros THEN 0 ELSE 2^Bits - 1, mask |-> HostMask,
           dup |-> Null, p |-> Treetop, listed |-> FALSE]]

Child(t, x, a) == IF Bit(a, t[x].b) = 1 THEN t[x].r ELSE t[x].l

\* rn_search
rn_search(t, a) ==
  LET down[x \in DOMAIN t] == IF t[x].b < 0 THEN x ELSE down[Child(t, x, a)]
  IN  down[Treetop]

\* The leaves of one key, from the first on.
Dups(t, first) ==
  LET chain[x \in DOMAIN t \cup {Null}] == IF x = Null THEN <<>> ELSE <<x>> \o chain[t[x].dup]
  IN  chain[first]

\* The first bit in which an address differs from a leaf's key.  The key of
\* ones differs from every key behind the address at the latest.
Differ(t, a, x) ==
  LET at == {i \in 0 .. Bits - 1 : Bit(a, i) # Bit(t[x].key, i)} \cup {Bits}
  IN  CHOOSE i \in at : \A j \in at : i <= j

Same(t, a, x) == Differ(t, a, x) = Bits /\ x # Ones

-----------------------------------------------------------------------------
(* Insertion.                                                              *)

\* rn_insert, for a key no leaf has: the new inner node goes where its bit
\* belongs on the way to the leaf found.
rn_insert(t, a, k) ==
  LET b       == Differ(t, a, rn_search(t, a))
      above[x \in DOMAIN t] ==
        IF b > Long(t[Child(t, x, a)].b) THEN above[Child(t, x, a)] ELSE x
      p       == above[Treetop]
      x       == Child(t, p, a)
      node    == [b |-> b, p |-> p, ml |-> <<>>,
                  l |-> IF Bit(a, b) = 1 THEN x ELSE Leaf(k),
                  r |-> IF Bit(a, b) = 1 THEN Leaf(k) ELSE x]
      leaf    == [b |-> -1, key |-> a, mask |-> HostMask, dup |-> Null, p |-> Node(k), listed |-> FALSE]
  IN  [y \in DOMAIN t \cup {Leaf(k), Node(k)} |->
         CASE y = Leaf(k) -> leaf
           [] y = Node(k) -> node
           [] y = p /\ Bit(a, t[p].b) = 1 -> [t[p] EXCEPT !.r = Node(k)]
           [] y = p /\ Bit(a, t[p].b) = 0 -> [t[p] EXCEPT !.l = Node(k)]
           [] y = x /\ y # p -> [t[x] EXCEPT !.p = Node(k)]
           [] OTHER -> t[y]]

\* Where a new leaf goes among those of its key: before the first one with a
\* shorter mask.
InsertDup(t, a, m, k) ==
  LET head  == rn_search(t, a)
      leaf(next) == [b |-> MaskIndex(m), key |-> a, mask |-> m, dup |-> next, p |-> t[head].p, listed |-> FALSE]
      later == {x \in {Dups(t, head)[i] : i \in 1 .. Len(Dups(t, head))} :
                   m = HostMask \/ (t[x].mask # HostMask /\ rn_refines(m, t[x].mask))}
      at    == IF later = {} THEN Null
               ELSE CHOOSE x \in later : \A y \in later : rn_refines(t[x].mask, t[y].mask) \/ x = y
      prev  == CHOOSE x \in DOMAIN t : t[x].b < 0 /\ t[x].dup = at /\ t[x].key = a
      p     == t[head].p
  IN  IF at = head
      THEN [y \in DOMAIN t \cup {Leaf(k)} |->
              CASE y = Leaf(k) -> leaf(head)
                [] y = p /\ t[p].l = head -> [t[p] EXCEPT !.l = Leaf(k)]
                [] y = p /\ t[p].l # head -> [t[p] EXCEPT !.r = Leaf(k)]
                [] OTHER -> t[y]]
      ELSE [y \in DOMAIN t \cup {Leaf(k)} |->
              CASE y = Leaf(k) -> leaf(at)
                [] y = prev -> [t[prev] EXCEPT !.dup = Leaf(k)]
                [] OTHER -> t[y]]

\* rn_new_radix_mask
Mask(t, x) == [b |-> Short(t[x].b), leaf |-> x]

\* The new leaf's sibling: the masks of a leaf that reach up to the new inner
\* node are listed there; of an inner node's list the part that reaches up is
\* moved.  That comparison is between an unsigned short and an unsigned long.
PromoteSibling(t, k) ==
  LET p     == Node(k)
      bound == Long(-1 - t[p].b)
      x     == IF t[p].l = Leaf(k) THEN t[p].r ELSE t[p].l
      up(y) == t[y].mask # HostMask /\ ~t[y].listed /\ Long(t[y].b) >= bound
      ups   == SelectSeq(Dups(t, x), up)
      stays == {i \in 1 .. Len(t[x].ml) : \A j \in 1 .. i : t[x].ml[j].b < bound}
      n     == Cardinality(stays)
  IN  IF t[x].b < 0
      THEN [y \in DOMAIN t |->
              CASE y = p -> [t[p] EXCEPT !.ml = [i \in 1 .. Len(ups) |-> Mask(t, ups[i])]]
                [] \E i \in 1 .. Len(ups) : ups[i] = y -> [t[y] EXCEPT !.listed = TRUE]
                [] OTHER -> t[y]]
      ELSE [t EXCEPT ![p].ml = SubSeq(t[x].ml, n + 1, Len(t[x].ml)), ![x].ml = SubSeq(@, 1, n)]

\* The new leaf itself: at the highest inner node its mask reaches, behind the
\* masks that compare below it.
PromoteLeaf(t, head, k) ==
  LET b       == t[Leaf(k)].mask
      up[x \in DOMAIN t] == IF b <= t[t[x].p].b /\ x # Treetop THEN up[t[x].p] ELSE x
      x       == up[t[head].p]
      before  == {i \in 1 .. Len(t[x].ml) : \A j \in 1 .. i : t[x].ml[j].b < Long(t[Leaf(k)].b)}
      n       == Cardinality(before)
      ml      == SubSeq(t[x].ml, 1, n) \o <<Mask(t, Leaf(k))>> \o SubSeq(t[x].ml, n + 1, Len(t[x].ml))
  IN  IF b = HostMask \/ b > t[t[head].p].b THEN t
      ELSE [t EXCEPT ![x].ml = ml, ![Leaf(k)].listed = TRUE]

\* rn_addroute.  Refused when the key has that mask already.  Where the key is
\* known but only one of the masks compared is NULL the code reads address 0.
Known(t, a) == Same(t, a, rn_search(t, a))
KeyDups(t, a) == LET d == Dups(t, rn_search(t, a)) IN {d[i] : i \in 1 .. Len(d)}
Exists(t, a, m) == Known(t, a) /\ \E x \in KeyDups(t, a) : t[x].mask = m
NullRead(t, a, m) ==
  /\ Known(t, a) /\ ~Exists(t, a, m)
  /\ m = HostMask \/ \E x \in KeyDups(t, a) : t[x].mask = HostMask

SetMask(t, m, k) == [t EXCEPT ![Leaf(k)].mask = m, ![Leaf(k)].b = MaskIndex(m)]

rn_addroute(t, a, m, k) ==
  IF Known(t, a)
  THEN LET u == InsertDup(t, a, m, k) IN PromoteLeaf(u, rn_search(u, a), k)
  ELSE PromoteLeaf(PromoteSibling(SetMask(rn_insert(t, a, k), m, k), k), Leaf(k), k)

-----------------------------------------------------------------------------
(* Lookup.                                                                 *)

\* The leaf found by the bits is taken if the bytes its mask extends over are
\* the address's.
Equal(t, a, x) ==
  IF t[x].mask = HostMask THEN Same(t, a, x)
  ELSE Differ(t, a, x) >= ByteBits * MaskBytes(t[x].mask)

\* Otherwise one of the same key with a mask short enough, the signed index
\* compared with an unsigned short,
AmongDups(t, x, bound) ==
  LET from == IF t[x].mask = HostMask THEN t[x].dup ELSE x
      fits(y) == t[y].b >= bound
      ok   == SelectSeq(Dups(t, from), fits)
  IN  IF ok = <<>> THEN Null ELSE Head(ok)

ClimbAny(t, x, bound) ==
  LET up[y \in DOMAIN t] ==
        IF t[y].ml # <<>> THEN Head(t[y].ml).leaf ELSE IF y = Treetop THEN Null ELSE up[t[y].p]
  IN  up[t[x].p]

\* and otherwise the first radix_mask on the way back up that is.
Climb(t, x, bound) ==
  LET fits(m) == m.b >= bound
      up[y \in DOMAIN t] ==
        LET ok == SelectSeq(t[y].ml, fits)
        IN  IF ok # <<>> THEN Head(ok).leaf ELSE IF y = Treetop THEN Null ELSE up[t[y].p]
  IN  up[t[x].p]

\* rn_match
rn_match(t, a) ==
  LET x     == rn_search(t, a)
      bound == Short(-1 - Differ(t, a, x))
  IN  IF Equal(t, a, x)
      THEN IF x \in Roots /\ t[x].dup # Null THEN t[x].dup ELSE x
      ELSE IF AmongDups(t, x, bound) # Null THEN AmongDups(t, x, bound)
      ELSE Climb(t, x, bound)
=============================================================================
