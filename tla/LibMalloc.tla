----------------------------- MODULE LibMalloc ------------------------------
(***************************************************************************)
(* The heap of the C library: malloc, free and coremore of lib/malloc.c    *)
(* over md_sbrk.                                                           *)
(*                                                                         *)
(* Memory is counted in units of a HEADER.  Free blocks form a ring in the *)
(* order of their addresses, in which base, which lies outside the heap,   *)
(* has a place of its own; allocp wanders around it.  A block starts with  *)
(* a header that its owner does not see; what he writes behind it leaves   *)
(* nothing of older headers, and those that lie within a free block, or    *)
(* the link of a block in use, mean nothing and are left out.              *)
(***************************************************************************)
EXTENDS Integers, FiniteSets, Sequences

CONSTANTS
  LibHeap,       \* the units md_sbrk may give out
  Header,        \* sizeof(HEADER)
  NALLOC,        \* the least number of units coremore takes
  LibRequests    \* the sizes callers ask for

ASSUME LibMallocAssumption ==
  /\ LibHeap \in Nat /\ Header \in Nat \ {0} /\ NALLOC \in Nat \ {0}
  /\ LibRequests \subseteq Nat

VARIABLES
  lib,           \* the memory: see LibStart
  libOwned       \* what callers hold: the first unit behind the header |-> the bytes asked for

libheapvars == <<lib, libOwned>>

\* base lies below or above the heap, and is no neighbour of it.
BaseBelow == 0
BaseAbove == LibHeap + 3
LibUnits == 2 .. LibHeap + 1
Spots == {BaseBelow, BaseAbove} \cup LibUnits

NoSpot == -1
NoHeader == [ptr |-> NoSpot, size |-> 0]

\* md_allocp is the unit md_sbrk gives out next.
LibStart(b) == [hdr |-> [x \in Spots |-> NoHeader], base |-> b, allocp |-> NoSpot, brk |-> 2]

LibInit == lib \in {LibStart(BaseBelow), LibStart(BaseAbove)} /\ libOwned = <<>>

-----------------------------------------------------------------------------
(* The ring.                                                               *)

\* The k-th node behind allocp, and how many steps lead round.
Ring(m) ==
  LET link(q) == IF q = NoSpot THEN NoSpot ELSE m.hdr[q].ptr
      at[k \in 0 .. LibHeap + 1] == IF k = 0 THEN m.allocp ELSE link(at[k - 1])
  IN  at
Round1(m) == {k \in 1 .. LibHeap + 1 : Ring(m)[k] = m.allocp}
Least(S) == CHOOSE k \in S : \A j \in S : k <= j

\* free: the node q behind which p belongs, by the addresses or, at the end of
\* the ring, because p lies outside of all.
Belongs(m, q, p) ==
  LET n == m.hdr[q].ptr
  IN  (p > q /\ p < n) \/ (n <= q /\ (p > q \/ p < n))

\* Joined with the block behind it and with the one before it.
JoinNext(m, q, p) ==
  LET n == m.hdr[q].ptr
  IN  IF p + m.hdr[p].size = n
      THEN [m EXCEPT !.hdr[p] = [ptr |-> m.hdr[n].ptr, size |-> @.size + m.hdr[n].size], !.hdr[n] = NoHeader]
      ELSE [m EXCEPT !.hdr[p].ptr = n]
JoinPrevLinked(m, q, p) ==
  IF q + m.hdr[q].size = p
  THEN [m EXCEPT !.hdr[q].size = @ + m.hdr[p].size, !.hdr[p] = NoHeader]
  ELSE [m EXCEPT !.hdr[q].ptr = p]
JoinPrev(m, q, p) ==
  IF q + m.hdr[q].size = p
  THEN [m EXCEPT !.hdr[q] = [ptr |-> m.hdr[p].ptr, size |-> @.size + m.hdr[p].size], !.hdr[p] = NoHeader]
  ELSE [m EXCEPT !.hdr[q].ptr = p]
free(m, p) ==
  LET at == Ring(m)
      q  == at[Least({k \in 0 .. LibHeap : Belongs(m, at[k], p)})]
  IN  [JoinPrev(JoinNext(m, q, p), q, p) EXCEPT !.allocp = q]

\* sbrk, md_sbrk: whether there is room.
Grows(m, n) == m.brk + n <= LibHeap + 2

\* coremore, where there is.
Chunks(nunits) == ((nunits + NALLOC - 1) \div NALLOC) * NALLOC
coremore(m, nunits) ==
  LET n == Chunks(nunits)
  IN  free([m EXCEPT !.brk = @ + n, !.hdr[m.brk].size = n], m.brk)

-----------------------------------------------------------------------------
(* The calls.                                                              *)

NUnits(nbytes) == (nbytes + Header - 1) \div Header + 1

\* The first call sets the ring up.
Begun(m) ==
  IF m.allocp # NoSpot THEN m
  ELSE [m EXCEPT !.allocp = m.base, !.hdr[m.base] = [ptr |-> m.base, size |-> 0]]

\* The nodes behind allocp, once round, that are large enough.
Fit(m, n) == {k \in 1 .. Least(Round1(m)) : m.hdr[Ring(m)[k]].size >= n}

\* The first of them is taken out, or gives its tail away: the header, and a
\* caller who writes to all of what he asked for.
Cut(m, n) ==
  LET k == Least(Fit(m, n))
      q == Ring(m)[k - 1]
      p == Ring(m)[k]
      r == IF m.hdr[p].size = n THEN p ELSE p + m.hdr[p].size - n
      t == IF m.hdr[p].size = n THEN [m EXCEPT !.hdr[q].ptr = m.hdr[p].ptr]
                                ELSE [m EXCEPT !.hdr[p].size = @ - n]
  IN  [mem |-> [t EXCEPT !.allocp = q,
                         !.hdr = [x \in Spots |-> IF x = r THEN [ptr |-> NoSpot, size |-> n]
                                                  ELSE IF x \in r + 1 .. r + n - 1 THEN NoHeader ELSE @[x]]],
       at |-> r + 1]

malloc(nbytes) ==
  LET n    == NUnits(nbytes)
      m    == Begun(lib)
      more == IF Fit(m, n) # {} THEN m ELSE coremore(m, n)
      c    == Cut(more, n)
  IN  IF Fit(m, n) = {} /\ ~Grows(m, Chunks(n)) THEN lib' = m /\ UNCHANGED libOwned
      ELSE /\ lib' = c.mem
           /\ libOwned' = [x \in DOMAIN libOwned \cup {c.at} |-> IF x = c.at THEN nbytes ELSE libOwned[x]]

GiveBack(a) ==
  /\ lib' = free(lib, a - 1)
  /\ libOwned' = [x \in DOMAIN libOwned \ {a} |-> libOwned[x]]

LibNext ==
  \/ \E n \in LibRequests : malloc(n)
  \/ \E a \in DOMAIN libOwned : GiveBack(a)

LibSpec == LibInit /\ [][LibNext]_libheapvars

-----------------------------------------------------------------------------
(* Properties.                                                             *)

FreeNodes == {Ring(lib)[k] : k \in 0 .. LibHeap + 1}
Extent(p) == p .. p + lib.hdr[p].size - 1

\* Whatever was asked for and given back, in any order and whichever side of
\* the heap base lies on: the ring leads round and through base, in the order
\* of the addresses; every unit taken from md_sbrk belongs to exactly one free
\* block or one caller, who has as many bytes as he asked for; and free blocks
\* that touch have been joined (malloc, free, coremore).
LibHeapSound ==
  lib.allocp # NoSpot =>
    LET F == FreeNodes
        blocks == (F \ {lib.base}) \cup {a - 1 : a \in DOMAIN libOwned}
    IN  /\ Round1(lib) # {} /\ lib.base \in F
        /\ Cardinality({p \in F : lib.hdr[p].ptr <= p}) = 1
        /\ \A u \in 2 .. lib.brk - 1 : Cardinality({p \in blocks : u \in Extent(p)}) = 1
        /\ \A p \in blocks : Extent(p) \subseteq 2 .. lib.brk - 1
        /\ \A a \in DOMAIN libOwned : libOwned[a] <= (lib.hdr[a - 1].size - 1) * Header
        /\ \A p, q \in F \ {lib.base} : p + lib.hdr[p].size # q
=============================================================================
