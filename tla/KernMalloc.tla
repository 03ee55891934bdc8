----------------------------- MODULE KernMalloc -----------------------------
(***************************************************************************)
(* The kernel heap (kernel/kern_malloc.c, include/sys/malloc.h).           *)
(*                                                                         *)
(* __kmem_alloc hands out whole pages from the bottom of the heap and can  *)
(* take nothing back.  kmem_malloc keeps one free list per power of two;   *)
(* the links of a list are stored in the free blocks themselves, where the *)
(* caller's data replaces them as soon as a block is handed out.  A block  *)
(* says nothing about its size: kmem_free finds it in the kmemusage entry  *)
(* of the page the block starts in.                                        *)
(*                                                                         *)
(* Sizes and addresses count units of MINALLOCSIZE bytes from kmembase,    *)
(* and bucket i stands for buckets[MINBUCKET + i].  Both operations run at *)
(* splimp, so each is one step.  npieces and ncluster are written by the   *)
(* code and never read: they are left out.                                 *)
(***************************************************************************)
EXTENDS Integers, FiniteSets

CONSTANTS
  Page,       \* PAGE_SIZE, which is CLBYTES (CLSIZE is 1)
  NBuckets,   \* how many buckets hold free blocks
  BSize,      \* BSize[i] is 1 << i, the block size of bucket i
  KmemSize,   \* KMEM_SIZE
  UsageLen,   \* what __kmeminit takes for the kmemusage table
  Request     \* the sizes that are asked for

Bucket == 0 .. NBuckets - 1

\* BUCKETINDEX has 16 results besides that for large blocks.
ASSUME KernMallocAssumption ==
  /\ Page \in Nat \ {0} /\ NBuckets \in 1 .. 16
  /\ BSize \in [Bucket -> Nat \ {0}]
  /\ BSize[0] = 1 /\ \A i \in Bucket \ {0} : BSize[i] = 2 * BSize[i - 1]
  /\ \A i \in Bucket : Page % BSize[i] = 0 \/ BSize[i] % Page = 0
  /\ KmemSize \in Nat /\ KmemSize % Page = 0
  /\ UsageLen \in Nat /\ UsageLen % Page = 0 /\ UsageLen <= KmemSize
  /\ Request \subseteq Nat

VARIABLES
  kmemoffs,   \* everything below is handed out
  ku_index,   \* kmemusage[page].ku_index
  kb_next, kb_last,   \* buckets[i]
  next,       \* the word at an address, as far as it is a link or data
  owned,      \* the blocks callers hold: address |-> size asked for
  raw,        \* the pages taken with __kmem_alloc: address |-> length
  halted      \* panic

heapvars == <<kmemoffs, ku_index, kb_next, kb_last, next, owned, raw, halted>>

Addr  == 0 .. KmemSize - 1
PageNo == 0 .. (KmemSize \div Page) - 1
NULL  == -1
Data  == -2      \* what the caller wrote over the link
Large == NBuckets     \* NR(buckets) - 1
Unset == -1      \* below MINBUCKET

MaxAllocSave == BSize[NBuckets - 1]

\* round_page and round_cluster are the same function.
RoundPage(n) == ((n + Page - 1) \div Page) * Page

\* BUCKETINDEX, a tree of comparisons.
BUCKETINDEX(n) ==
  IF n <= 128
  THEN IF n <= 8
       THEN IF n <= 2 THEN IF n <= 1 THEN 0 ELSE 1 ELSE IF n <= 4 THEN 2 ELSE 3
       ELSE IF n <= 32 THEN IF n <= 16 THEN 4 ELSE 5 ELSE IF n <= 64 THEN 6 ELSE 7
  ELSE IF n <= 2048
       THEN IF n <= 512 THEN IF n <= 256 THEN 8 ELSE 9 ELSE IF n <= 1024 THEN 10 ELSE 11
       ELSE IF n <= 8192 THEN IF n <= 4096 THEN 12 ELSE 13 ELSE IF n <= 16384 THEN 14 ELSE 15

\* __kmem_alloc(n) succeeds.
HasRoom(n) == RoundPage(n) + kmemoffs <= KmemSize

\* kmeminit
HeapInit ==
  /\ kmemoffs = UsageLen
  /\ ku_index = [p \in PageNo |-> Unset]
  /\ kb_next = [i \in Bucket |-> NULL] /\ kb_last = [i \in Bucket |-> NULL]
  /\ next = [a \in Addr |-> Data]
  /\ owned = [a \in {} |-> 0] /\ raw = [a \in {} |-> 0]
  /\ halted = FALSE

With(f, a, v) == [x \in DOMAIN f \cup {a} |-> IF x = a THEN v ELSE f[x]]
Without(f, a) == [x \in DOMAIN f \ {a} |-> f[x]]

\* The links after the pages from kmemoffs on are cut into blocks of size b.
Carve(b) ==
  LET end == kmemoffs + RoundPage(b)
  IN  [a \in Addr |-> IF a \in kmemoffs .. end - 1 /\ (a - kmemoffs) % b = 0
                      THEN IF a + b >= end THEN NULL ELSE a + b
                      ELSE next[a]]

\* kmem_malloc(n) for a small n whose bucket has a free block: the first one.
TakeFree(n) ==
  /\ ~halted
  /\ n <= MaxAllocSave
  /\ LET i == BUCKETINDEX(n)
         va == kb_next[i]
     IN  /\ va # NULL
         /\ kb_next' = [kb_next EXCEPT ![i] = next[va]]
         /\ next' = [next EXCEPT ![va] = Data]
         /\ owned' = With(owned, va, n)
  /\ UNCHANGED <<kmemoffs, ku_index, kb_last, raw, halted>>

\* The bucket is empty: fresh pages are cut up first.
TakeFresh(n) ==
  /\ ~halted
  /\ n <= MaxAllocSave
  /\ LET i == BUCKETINDEX(n)
         b == BSize[i]
         links == Carve(b)
         va == kmemoffs
     IN  /\ kb_next[i] = NULL
         /\ HasRoom(b)
         /\ ku_index' = [ku_index EXCEPT ![va \div Page] = i]
         /\ kmemoffs' = kmemoffs + RoundPage(b)
         /\ kb_last' = [kb_last EXCEPT ![i] = kmemoffs + RoundPage(b) - b]
         /\ kb_next' = [kb_next EXCEPT ![i] = links[va]]
         /\ next' = [links EXCEPT ![va] = Data]
         /\ owned' = With(owned, va, n)
  /\ UNCHANGED <<raw, halted>>

\* A large request gets pages of its own.
TakeLarge(n) ==
  /\ ~halted
  /\ n > MaxAllocSave
  /\ HasRoom(n)
  /\ ku_index' = [ku_index EXCEPT ![kmemoffs \div Page] = Large]
  /\ kmemoffs' = kmemoffs + RoundPage(n)
  /\ owned' = With(owned, kmemoffs, n)
  /\ UNCHANGED <<kb_next, kb_last, next, raw, halted>>

\* Out of memory: kmem_malloc returns NULL.
OutOfMemory(n) ==
  /\ ~halted
  /\ IF n <= MaxAllocSave
     THEN kb_next[BUCKETINDEX(n)] = NULL /\ ~HasRoom(BSize[BUCKETINDEX(n)])
     ELSE ~HasRoom(n)
  /\ UNCHANGED heapvars

\* kmem_free(va): a small block goes to the end of the list of its bucket,
\* a large one to __kmem_free, which panics.
FreeLosingLast(va) ==
  LET i == ku_index[va \div Page]
  IN  /\ i \in Bucket
      /\ kb_next' = IF kb_next[i] = NULL THEN [kb_next EXCEPT ![i] = va] ELSE kb_next
      /\ next' = [a \in Addr |-> IF a = va THEN NULL
                                 ELSE IF kb_next[i] # NULL /\ a = kb_last[i] THEN va
                                 ELSE next[a]]
      /\ kb_last' = IF kb_next[i] = NULL THEN [kb_last EXCEPT ![i] = va] ELSE kb_last
      /\ owned' = Without(owned, va)
      /\ UNCHANGED <<kmemoffs, ku_index, raw, halted>>
FreeSmall(va) ==
  LET i == ku_index[va \div Page]
  IN  /\ i \in Bucket
      /\ kb_next' = IF kb_next[i] = NULL THEN [kb_next EXCEPT ![i] = va] ELSE kb_next
      /\ next' = [a \in Addr |-> IF a = va THEN NULL
                                 ELSE IF kb_next[i] # NULL /\ a = kb_last[i] THEN va
                                 ELSE next[a]]
      /\ kb_last' = [kb_last EXCEPT ![i] = va]
      /\ owned' = Without(owned, va)
      /\ UNCHANGED <<kmemoffs, ku_index, raw, halted>>

FreeLarge(va) ==
  /\ ku_index[va \div Page] = Large
  /\ ku_index' = [ku_index EXCEPT ![va \div Page] = Unset]
  /\ halted' = TRUE
  /\ UNCHANGED <<kmemoffs, kb_next, kb_last, next, owned, raw>>

KmemFree(va) ==
  /\ ~halted
  /\ va \in DOMAIN owned
  /\ FreeSmall(va) \/ FreeLarge(va)

\* mbuf_clalloc takes a page for mbuf clusters with __kmem_alloc.
MbufClalloc ==
  /\ ~halted
  /\ HasRoom(Page)
  /\ kmemoffs' = kmemoffs + RoundPage(Page)
  /\ raw' = With(raw, kmemoffs, Page)
  /\ UNCHANGED <<ku_index, kb_next, kb_last, next, owned, halted>>

HeapNext ==
  \/ \E n \in Request : \/ TakeFree(n) \/ TakeFresh(n) \/ TakeLarge(n)
                        \/ OutOfMemory(n)
  \/ MbufClalloc
  \/ \E va \in Addr : KmemFree(va)

HeapSpec == HeapInit /\ [][HeapNext]_heapvars
-----------------------------------------------------------------------------
(* Properties.                                                             *)

\* The blocks a walk over the list of bucket i meets.
FreeBlocks(i) ==
  LET walk[k \in 0 .. KmemSize] ==
        IF k = 0 THEN {kb_next[i]} \ {NULL}
        ELSE LET w == walk[k - 1]
             IN  w \cup ({next[a] : a \in w \cap Addr} \ {NULL})
  IN  walk[KmemSize]

\* What each party may write to: a caller the bytes it asked for or took, the
\* allocator its free blocks and the kmemusage table.
Area ==
  {<<a, a + owned[a]>> : a \in DOMAIN owned}
  \cup {<<a, a + raw[a]>> : a \in DOMAIN raw}
  \cup (UNION {{<<a, a + BSize[i]>> : a \in FreeBlocks(i)} : i \in Bucket})
  \cup {<<0, UsageLen>>}

\* A list holds only free blocks of its own size and ends where kmem_free will
\* append; the areas are apart and within what has been taken from the heap.
ListsSound ==
  /\ \A i \in Bucket :
       LET F == FreeBlocks(i)
       IN  /\ F \subseteq Addr \ DOMAIN owned
           /\ \A a \in F : ku_index[a \div Page] = i
           /\ F # {} => {a \in F : next[a] = NULL} = {kb_last[i]}
  /\ LET A == Area
     IN  \A x \in A : /\ x[2] <= kmemoffs
                      /\ \A y \in A : x # y => x[2] <= y[1] \/ y[2] <= x[1]
  /\ kmemoffs <= KmemSize

\* The block of a caller's, as kmem_free would find it.
BlockLen(a) ==
  LET i == ku_index[a \div Page]
  IN  IF i \in Bucket THEN BSize[i] ELSE RoundPage(owned[a])

\* Every page taken from the heap is still somebody's or on a list.
NothingLost ==
  LET blocks == {<<a, a + BlockLen(a)>> : a \in DOMAIN owned} \cup Area
  IN  \A u \in 0 .. kmemoffs - 1 : \E x \in blocks : x[1] <= u /\ u < x[2]

\* No two parties ever share memory, however blocks were freed and handed out
\* again: a list never leads through a caller's data, and its links survive
\* being overwritten by every caller in turn.  Nor is memory lost: whatever was
\* freed is found again, because nothing can go back below kmemoffs
\* (kmem_malloc, kmem_free, __kmem_alloc).
HeapSound == ListsSound /\ NothingLost
=============================================================================
