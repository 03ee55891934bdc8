--------------------------- MODULE FileDescProofs ---------------------------
(***************************************************************************)
(* Proofs about FileDesc, for tables of any size.                          *)
(*                                                                         *)
(* A call that fails half way gives the tables back exactly as they were,  *)
(* because a free entry is always blank (SocketResult, ClaimResult); what   *)
(* remains are the three successful opens and the three kinds of close.    *)
(***************************************************************************)
EXTENDS FileDesc, FiniteSetTheorems, WellFoundedInduction, TLAPS

USE FileDescAssumption

\* What the pieces of an open need of the tables they are given: free entries
\* are blank, in both tables.
BlankIn(t) ==
  /\ \A fd \in Fd : t.file[fd].valid = 1 \/ t.file[fd] = Closed
  /\ \A fd \in Kfd : t.file[fd].valid = 1 \/ t.ofiles[fd] = 0

\* A nonempty set of numbers has a least one: the search of open for a free
\* entry finds it.
LEMMA MinInSet ==
  ASSUME NEW S \in SUBSET Nat, S # {}
  PROVE  Min(S) \in S
<1> DEFINE R == OpToRel(<, Nat)
<1>1. \A x, y \in Nat : <<y, x>> \notin R => x <= y
  <2>1. \A x, y \in Nat : y < x => <<y, x>> \in R
    BY DEF OpToRel
  <2> HIDE DEF R
  <2> QED  BY <2>1
<1>2. IsWellFoundedOn(R, Nat)
  BY NatLessThanWellFounded
<1> HIDE DEF R
<1>3. PICK x \in S : \A y \in S : ~(<<y, x>> \in R)
  BY <1>2, WFMin
<1>4. \A y \in S : x <= y
  BY <1>1, <1>3
<1> QED  BY <1>3, <1>4 DEF Min

\* open's descriptor is a free one.
LEMMA FirstFreeIsFree ==
  ASSUME NEW t \in Tables, FreeFds(t) # {}
  PROVE  /\ FirstFree(t) \in Fd
         /\ t.file[FirstFree(t)].valid = 0
<1>1. FreeFds(t) \in SUBSET Nat
  BY DEF FreeFds, Fd
<1> QED  BY <1>1, MinInSet DEF FirstFree, FreeFds

\* Tables, and entries, with the same fields are the same.
LEMMA SameTables ==
  ASSUME NEW t \in Tables, NEW u \in Tables, t.file = u.file, t.ofiles = u.ofiles,
         t.fd_nfiles = u.fd_nfiles, t.nfiles = u.nfiles
  PROVE  t = u
BY DEF Tables

LEMMA SameEntry ==
  ASSUME NEW e \in Entries
  PROVE  e = Entry(e.valid, e.fs, e.data)
BY DEF Entries, Entry

\* One entry of __file replaced.
SetFile(t, fd, e) == [t EXCEPT !.file[fd] = e]

\* The pieces of open in these terms.
LEMMA OpenPieces ==
  ASSUME NEW t \in Tables, NEW fd \in Fd
  PROVE  /\ Claim(t, fd) = SetFile(t, fd, Entry(1, t.file[fd].fs, t.file[fd].data))
         /\ Unclaim(t, fd) = SetFile(t, fd, Entry(0, t.file[fd].fs, t.file[fd].data))
         /\ \A f : Attach(t, fd, f) = SetFile(t, fd, Entry(t.file[fd].valid, f, t.file[fd].data))
         /\ OpenErr(t, fd) = SetFile(t, fd, Entry(0, "none", t.file[fd].data))
<1>1. t.file[fd] \in Entries
  BY DEF Tables
<1>2. t.file[fd] = Entry(t.file[fd].valid, t.file[fd].fs, t.file[fd].data)
  BY <1>1, SameEntry
<1>3. [t.file[fd] EXCEPT !.valid = 1] = Entry(1, t.file[fd].fs, t.file[fd].data)
  BY <1>1 DEF Entries, Entry
<1>4. [t.file[fd] EXCEPT !.valid = 0] = Entry(0, t.file[fd].fs, t.file[fd].data)
  BY <1>1 DEF Entries, Entry
<1>5. ASSUME NEW f
      PROVE  [t.file[fd] EXCEPT !.fs = f] = Entry(t.file[fd].valid, f, t.file[fd].data)
  BY <1>1 DEF Entries, Entry
<1> QED  BY <1>3, <1>4, <1>5 DEF Claim, Unclaim, Attach, OpenErr, SetFile

\* What sys_socket makes of the tables when it succeeds with descriptor fd.
NewSocket(t, fd) ==
  [SetFile(t, fd, Entry(1, "socket", None)) EXCEPT
     !.ofiles[fd] = 1, !.fd_nfiles = @ + 1, !.nfiles = @ + 1]

LEMMA FdAllocResult ==
  ASSUME NEW t \in Tables, BlankIn(t), FreeFds(t) # {}
  PROVE  /\ FirstFree(t) \in Fd /\ t.file[FirstFree(t)] = Closed
         /\ FdAlloc(t) = SetFile(t, FirstFree(t), Entry(1, "socket", None))
         /\ OpenErr(FdAlloc(t), FirstFree(t)) = t
<1> DEFINE fd == FirstFree(t)
<1>1. fd \in Fd /\ t.file[fd] = Closed
  BY FirstFreeIsFree DEF BlankIn, Fd
<1> HIDE DEF fd
<1> DEFINE u == Claim(t, fd)
<1>2. u = SetFile(t, fd, Entry(1, "none", None))
  BY <1>1, OpenPieces DEF Closed, Entry
<1>3. u \in Tables /\ u.file[fd] = Entry(1, "none", None)
  BY <1>1, <1>2 DEF SetFile, Tables, Entries, Entry, None
<1>4. FdAlloc(t) = SetFile(u, fd, Entry(1, "socket", None))
  <2> HIDE DEF u
  <2>1. u.file[fd].valid = 1 /\ u.file[fd].data = None
    BY <1>3 DEF Entry
  <2>2. Attach(u, fd, "socket") = SetFile(u, fd, Entry(u.file[fd].valid, "socket", u.file[fd].data))
    BY <1>1, <1>3, OpenPieces
  <2>3. Attach(u, fd, "socket") = SetFile(u, fd, Entry(1, "socket", None))
    BY <2>1, <2>2
  <2> QED  BY <2>3 DEF FdAlloc, fd, u
<1>5. FdAlloc(t) = SetFile(t, fd, Entry(1, "socket", None))
  BY <1>1, <1>2, <1>4 DEF SetFile, Tables
<1> DEFINE v == FdAlloc(t)
<1>6. v \in Tables /\ v.file[fd] = Entry(1, "socket", None)
  BY <1>1, <1>5 DEF SetFile, Tables, Entries, Entry, None
<1>7. OpenErr(v, fd) = SetFile(v, fd, Closed)
  <2> HIDE DEF v
  <2>1. v.file[fd].data = None
    BY <1>6 DEF Entry
  <2>2. OpenErr(v, fd) = SetFile(v, fd, Entry(0, "none", v.file[fd].data))
    BY <1>1, <1>6, OpenPieces
  <2> QED  BY <2>1, <2>2 DEF Closed
<1>8. SetFile(v, fd, Closed) = t
  <2>1. SetFile(v, fd, Closed) \in Tables
    BY <1>1, <1>6 DEF SetFile, Tables, Entries, Closed, Entry, None
  <2>2. SetFile(v, fd, Closed).file = t.file
    BY <1>1, <1>5 DEF SetFile, Tables
  <2>3. /\ SetFile(v, fd, Closed).ofiles = t.ofiles
        /\ SetFile(v, fd, Closed).fd_nfiles = t.fd_nfiles
        /\ SetFile(v, fd, Closed).nfiles = t.nfiles
    BY <1>1, <1>5 DEF SetFile, Tables
  <2> QED  BY <2>1, <2>2, <2>3, SameTables
<1> QED  BY <1>1, <1>5, <1>7, <1>8 DEF fd

\* The tables sys_socket leaves behind, field by field.
LEMMA NewSocketFields ==
  ASSUME NEW t \in Tables, NEW fd \in Kfd
  PROVE  LET u == NewSocket(t, fd)
         IN  /\ u \in Tables
             /\ u.file = [t.file EXCEPT ![fd] = Entry(1, "socket", None)]
             /\ u.ofiles = [t.ofiles EXCEPT ![fd] = 1]
             /\ u.fd_nfiles = t.fd_nfiles + 1 /\ u.nfiles = t.nfiles + 1
<1> DEFINE u == NewSocket(t, fd)
<1>0. fd \in Fd
  BY DEF Kfd, Fd
<1> DEFINE w == SetFile(t, fd, Entry(1, "socket", None))
<1>1. Entry(1, "socket", None) \in Entries
  BY DEF Entries, Entry, None
<1>2. /\ w \in Tables
      /\ w.file = [t.file EXCEPT ![fd] = Entry(1, "socket", None)]
      /\ w.ofiles = t.ofiles /\ w.fd_nfiles = t.fd_nfiles /\ w.nfiles = t.nfiles
  BY <1>0, <1>1 DEF SetFile, Tables
<1> HIDE DEF w
<1>3. u = [w EXCEPT !.ofiles[fd] = 1, !.fd_nfiles = @ + 1, !.nfiles = @ + 1]
  BY DEF NewSocket, w
<1> HIDE DEF u
<1>4. u.file = w.file /\ u.ofiles = [w.ofiles EXCEPT ![fd] = 1]
  BY <1>2, <1>3 DEF Tables
<1>5. u.fd_nfiles = w.fd_nfiles + 1 /\ u.nfiles = w.nfiles + 1
  BY <1>2, <1>3 DEF Tables
<1>6. u \in Tables
  <2>1. u.ofiles \in [Kfd -> {0, 1}]
    BY <1>2, <1>4 DEF Tables
  <2>2. u.file \in [Fd -> Entries]
    BY <1>2, <1>4 DEF Tables
  <2>3. w.fd_nfiles \in Nat /\ w.nfiles \in Nat
    BY <1>2 DEF Tables
  <2>4. u.fd_nfiles \in Nat /\ u.nfiles \in Nat
    BY <1>5, <2>3
  <2> QED  BY <1>2, <1>3, <2>1, <2>2, <2>4 DEF Tables
<1> QED  BY <1>2, <1>4, <1>5, <1>6 DEF u

\* Taking a new socket back restores the tables, whether sys_socket does it
\* (ffree and __open_err) or close.
LEMMA SocketUndone ==
  ASSUME NEW t \in Tables, NEW fd \in Kfd, t.file[fd] = Closed, t.ofiles[fd] = 0
  PROVE  /\ NewSocket(t, fd) \in Tables
         /\ OpenErr(FFree(NewSocket(t, fd), fd), fd) = t
         /\ CloseSocket(NewSocket(t, fd), fd) = t
<1> DEFINE u == NewSocket(t, fd)
           v == FFree(u, fd)
<1>0. fd \in Fd /\ fd < NFile /\ fd # None
  BY DEF Kfd, Fd, None
<1>1. /\ u \in Tables
      /\ u.file = [t.file EXCEPT ![fd] = Entry(1, "socket", None)]
      /\ u.ofiles = [t.ofiles EXCEPT ![fd] = 1]
      /\ u.fd_nfiles = t.fd_nfiles + 1 /\ u.nfiles = t.nfiles + 1
  BY <1>0, NewSocketFields
<1> HIDE DEF u
<1>2. /\ v \in Tables
      /\ v.file = [t.file EXCEPT ![fd] = Entry(1, "socket", None)]
      /\ v.ofiles = t.ofiles /\ v.fd_nfiles = t.fd_nfiles /\ v.nfiles = t.nfiles
  <2>1. /\ v.file = u.file /\ v.ofiles = [u.ofiles EXCEPT ![fd] = 0]
        /\ v.fd_nfiles = u.fd_nfiles - 1 /\ v.nfiles = u.nfiles - 1
    BY <1>1 DEF FFree, Tables
  <2>2. v.ofiles = t.ofiles
    BY <1>1, <2>1 DEF Tables
  <2>3. v.fd_nfiles = t.fd_nfiles /\ v.nfiles = t.nfiles
    BY <1>1, <2>1 DEF Tables
  <2>4. v \in Tables
    BY <1>1, <2>2, <2>3 DEF FFree, Tables
  <2> QED  BY <1>1, <2>1, <2>2, <2>3, <2>4
<1> HIDE DEF v
<1>3. [v.file EXCEPT ![fd] = Closed] = t.file
  BY <1>0, <1>2 DEF Tables
<1>4. SetFile(v, fd, Closed) = t
  <2>1. SetFile(v, fd, Closed) \in Tables
    BY <1>0, <1>2 DEF SetFile, Tables, Entries, Closed, Entry, None
  <2>2. /\ SetFile(v, fd, Closed).file = [v.file EXCEPT ![fd] = Closed]
        /\ SetFile(v, fd, Closed).ofiles = v.ofiles
        /\ SetFile(v, fd, Closed).fd_nfiles = v.fd_nfiles
        /\ SetFile(v, fd, Closed).nfiles = v.nfiles
    BY <1>2 DEF SetFile, Tables
  <2> QED  BY <1>2, <1>3, <2>1, <2>2, SameTables
<1>5. OpenErr(v, fd) = t
  <2>1. v.file[fd].data = None
    BY <1>0, <1>2 DEF Entry, Tables
  <2>2. OpenErr(v, fd) = SetFile(v, fd, Entry(0, "none", v.file[fd].data))
    BY <1>0, <1>2, OpenPieces
  <2> QED  BY <1>4, <2>1, <2>2 DEF Closed
<1>6. CloseSocket(u, fd) = t
  <2>1. u.ofiles[fd] = 1
    BY <1>1 DEF Tables
  <2>2. CloseSocket(u, fd) = SetFile(v, fd, Closed)
    BY <1>0, <2>1 DEF CloseSocket, SetFile, v
  <2> QED  BY <1>4, <2>2
<1> QED  BY <1>1, <1>5, <1>6 DEF u, v

\* sys_socket either succeeds with a free descriptor the kernel has room for,
\* or leaves both tables as they were, wherever it failed.
LEMMA SocketResult ==
  ASSUME NEW t \in Tables, BlankIn(t), FreeFds(t) # {},
         NEW mem \in BOOLEAN, NEW so \in BOOLEAN,
         NEW s, s = SysSocket(t, mem, so)
  PROVE  \/ s.fd = None /\ s.t = t
         \/ /\ s.fd = FirstFree(t) /\ s.fd \in Kfd /\ t.nfiles < MaxFiles
            /\ s.t = NewSocket(t, s.fd)
            /\ t.file[s.fd] = Closed /\ t.ofiles[s.fd] = 0
<1> DEFINE fd == FirstFree(t)
<1>1. /\ fd \in Fd /\ t.file[fd] = Closed /\ fd # None
      /\ FdAlloc(t) = SetFile(t, fd, Entry(1, "socket", None))
      /\ OpenErr(FdAlloc(t), fd) = t
  BY FdAllocResult DEF Fd, None
<1>2. fd < NFile => fd \in Kfd /\ t.ofiles[fd] = 0
  <2>1. fd < NFile => fd \in Kfd
    BY <1>1 DEF Fd, Kfd
  <2>2. t.file[fd].valid = 0
    BY <1>1 DEF Closed, Entry
  <2> QED  BY <2>1, <2>2 DEF BlankIn
<1> HIDE DEF fd
<1>3. CASE KernelFull(t) \/ fd >= NFile \/ ~mem
  <2>1. FAlloc(t, mem) = Failure(t)
    BY <1>1, <1>3 DEF FAlloc, fd
  <2> QED  BY <2>1 DEF SysSocket, Failure
<1>4. CASE ~KernelFull(t) /\ ~(fd >= NFile) /\ mem
  <2>0. fd < NFile
    BY <1>1, <1>4 DEF Fd
  <2>1. fd \in Kfd /\ t.nfiles < MaxFiles
    BY <1>2, <1>4, <2>0 DEF KernelFull, Tables
  <2>2. FAlloc(t, mem) = [t |-> NewSocket(t, fd), fd |-> fd]
    BY <1>1, <1>4 DEF FAlloc, NewSocket, fd
  <2>3. CASE so
    BY <1>1, <1>2, <2>0, <2>1, <2>2, <2>3 DEF SysSocket, fd
  <2>4. CASE ~so
    <3>1. OpenErr(FFree(NewSocket(t, fd), fd), fd) = t
      BY <1>1, <1>2, <2>0, SocketUndone
    <3> QED  BY <1>1, <2>2, <2>4, <3>1 DEF SysSocket, Failure
  <2> QED  BY <2>3, <2>4
<1> QED  BY <1>3, <1>4

\* The tables close leaves behind for a socket, field by field.
LEMMA CloseSocketFields ==
  ASSUME NEW t \in Tables, NEW fd \in Kfd, t.ofiles[fd] = 1,
         t.nfiles > 0, t.fd_nfiles > 0
  PROVE  LET u == CloseSocket(t, fd)
         IN  /\ u \in Tables
             /\ u.file = [t.file EXCEPT ![fd] = Closed]
             /\ u.ofiles = [t.ofiles EXCEPT ![fd] = 0]
             /\ u.fd_nfiles = t.fd_nfiles - 1 /\ u.nfiles = t.nfiles - 1
<1> DEFINE v == FFree(t, fd)
           u == CloseSocket(t, fd)
<1>0. fd \in Fd /\ fd < NFile
  BY DEF Kfd, Fd
<1>1. u = [v EXCEPT !.file[fd] = Closed]
  BY <1>0 DEF CloseSocket
<1>2. v.file = t.file /\ v.ofiles = [t.ofiles EXCEPT ![fd] = 0]
  BY DEF FFree, Tables
<1>3. v.fd_nfiles = t.fd_nfiles - 1 /\ v.nfiles = t.nfiles - 1
  BY DEF FFree, Tables
<1>4. v \in Tables
  <2>1. v.ofiles \in [Kfd -> {0, 1}]
    BY <1>2 DEF Tables
  <2>2. t.fd_nfiles \in Nat /\ t.nfiles \in Nat
    BY DEF Tables
  <2>3. v.fd_nfiles \in Nat /\ v.nfiles \in Nat
    BY <1>3, <2>2
  <2>4. v.file \in [Fd -> Entries]
    BY <1>2 DEF Tables
  <2>5. v = [t EXCEPT !.ofiles[fd] = 0, !.fd_nfiles = @ - 1, !.nfiles = @ - 1]
    BY DEF FFree
  <2> HIDE DEF v
  <2> QED  BY <2>1, <2>3, <2>4, <2>5 DEF Tables
<1> HIDE DEF v
<1>5. Closed \in Entries
  BY DEF Closed, Entry, Entries
<1> HIDE DEF u
<1>6. /\ u \in Tables /\ u.file = [v.file EXCEPT ![fd] = Closed]
      /\ u.ofiles = v.ofiles /\ u.fd_nfiles = v.fd_nfiles /\ u.nfiles = v.nfiles
  BY <1>0, <1>1, <1>4, <1>5 DEF Tables
<1> QED  BY <1>2, <1>3, <1>6 DEF u

\* The tables are blank where they are free.
LEMMA InvBlank ==
  ASSUME IInv
  PROVE  BlankIn(tables)
<1>1. \A fd \in Kfd : fd \in Fd
  BY DEF Kfd, Fd
<1>2. \A fd \in Kfd : tables.ofiles[fd] = 0 \/ tables.file[fd].valid = 1
  BY <1>1 DEF IInv, TypeOK, TablesAgree, Tables
<1> QED  BY <1>2 DEF IInv, Blank, BlankIn

\* Counting one socket more or less.
LEMMA SocketsFinite ==
  ASSUME NEW t
  PROVE  IsFiniteSet(Sockets(t))
<1>1. IsFiniteSet(Kfd)
  BY FS_Interval DEF Kfd
<1> QED  BY <1>1, FS_Subset DEF Sockets

LEMMA CountUp ==
  ASSUME IInv, NEW fd \in Kfd, tables.ofiles[fd] = 0,
         tables'.ofiles = [tables.ofiles EXCEPT ![fd] = 1],
         tables'.fd_nfiles = tables.fd_nfiles + 1, tables'.nfiles = tables.nfiles + 1
  PROVE  Counted'
<1>1. fd \notin Sockets(tables) /\ Sockets(tables') = Sockets(tables) \cup {fd}
  BY DEF Sockets, IInv, TypeOK, Tables
<1>2. Cardinality(Sockets(tables')) = Cardinality(Sockets(tables)) + 1
  BY <1>1, SocketsFinite, FS_AddElement
<1>3. tables.nfiles \in Nat
  BY DEF IInv, TypeOK, Tables
<1> QED  BY <1>2, <1>3 DEF IInv, Counted

LEMMA CountDown ==
  ASSUME IInv, NEW fd \in Kfd, tables.ofiles[fd] = 1
  PROVE  /\ tables.nfiles > 0 /\ tables.fd_nfiles > 0
         /\ (/\ tables'.ofiles = [tables.ofiles EXCEPT ![fd] = 0]
             /\ tables'.fd_nfiles = tables.fd_nfiles - 1
             /\ tables'.nfiles = tables.nfiles - 1) => Counted'
<1>1. fd \in Sockets(tables)
  BY DEF Sockets
<1>2. Cardinality(Sockets(tables)) # 0 /\ Cardinality(Sockets(tables)) \in Nat
  BY <1>1, SocketsFinite, FS_EmptySet, FS_CardinalityType
<1>3. tables.nfiles \in Nat /\ tables.nfiles > 0 /\ tables.fd_nfiles > 0
  BY <1>2 DEF IInv, Counted
<1>4. ASSUME tables'.ofiles = [tables.ofiles EXCEPT ![fd] = 0]
      PROVE  Cardinality(Sockets(tables')) = Cardinality(Sockets(tables)) - 1
  <2>1. Sockets(tables') = Sockets(tables) \ {fd}
    BY <1>4 DEF Sockets, IInv, TypeOK, Tables
  <2> QED  BY <1>1, <2>1, SocketsFinite, FS_RemoveElement
<1> QED  BY <1>3, <1>4 DEF IInv, Counted

\* A new socket keeps the invariant.
LEMMA SocketInv ==
  ASSUME IInv, NEW fd \in Kfd, tables.file[fd] = Closed, tables.ofiles[fd] = 0,
         tables.nfiles < MaxFiles,
         tables' = NewSocket(tables, fd), held' = held \cup {fd}, UNCHANGED overrun
  PROVE  IInv'
<1>0. fd \in Fd /\ tables \in Tables /\ held \subseteq Fd
  BY DEF IInv, TypeOK, Kfd, Fd
<1>1. /\ tables' \in Tables
      /\ tables'.file = [tables.file EXCEPT ![fd] = Entry(1, "socket", None)]
      /\ tables'.ofiles = [tables.ofiles EXCEPT ![fd] = 1]
      /\ tables'.fd_nfiles = tables.fd_nfiles + 1 /\ tables'.nfiles = tables.nfiles + 1
  BY <1>0, NewSocketFields
<1> DEFINE F == tables.file
           G == tables'.file
<1>2. /\ \A x \in Fd : x # fd => G[x] = F[x]
      /\ G[fd].valid = 1 /\ G[fd].fs = "socket" /\ G[fd].data = None
      /\ F[fd].valid = 0 /\ F[fd].fs = "none" /\ F[fd].data = None
  BY <1>0, <1>1 DEF Tables, Entry, Closed
<1> HIDE DEF F, G
<1>3. fd \notin held /\ fd >= NTerm /\ fd \notin Inner(tables)
  BY <1>0, <1>2 DEF IInv, NoOrphans, Fd, F
<1>4. Inner(tables') = Inner(tables)
  BY <1>0, <1>2 DEF Inner, F, G
<1>5. TypeOK'
  BY <1>0, <1>1 DEF IInv, TypeOK, Tables
<1>6. TablesAgree'
  <2>1. \A x \in Kfd : x # fd => tables'.ofiles[x] = tables.ofiles[x]
    BY <1>1 DEF Tables
  <2>2. tables'.ofiles[fd] = 1
    BY <1>0, <1>1 DEF Tables
  <2>3. \A x \in Kfd : x \in Fd
    BY DEF Kfd, Fd
  <2> QED  BY <1>2, <2>1, <2>2, <2>3 DEF IInv, TablesAgree, F, G
<1>7. NoOrphans'
  <2>1. \A x \in Fd : G[x].valid = 1 <=> x < NTerm \/ x \in held' \cup Inner(tables')
    BY <1>2, <1>3, <1>4 DEF IInv, NoOrphans, F
  <2>2. held' \cap Inner(tables') = {}
    BY <1>3, <1>4 DEF IInv, NoOrphans
  <2>3. \A x, y \in held' : (G[x].fs = "netio" /\ G[y].fs = "netio" /\ G[x].data = G[y].data) => x = y
    BY <1>0, <1>2 DEF IInv, NoOrphans, F
  <2> QED  BY <2>1, <2>2, <2>3 DEF NoOrphans, G
<1>8. Counted'
  BY <1>1, CountUp
<1>9. Blank' /\ Console'
  BY <1>2, <1>3 DEF IInv, Blank, Console, F, G
<1>10. Holding'
  <2>1. \A x \in held' : x >= NTerm
    BY <1>3 DEF IInv, Holding
  <2>2. Sockets(tables') = Sockets(tables) \cup {fd}
    BY <1>1 DEF Sockets, Tables
  <2>3. \A x \in Fd : G[x].fs = "netio" => x \in held' /\ G[x].data \in Sockets(tables') \ held'
    <3> SUFFICES ASSUME NEW x \in Fd, G[x].fs = "netio"
                 PROVE  x \in held' /\ G[x].data \in Sockets(tables') \ held'
      OBVIOUS
    <3>1. x # fd /\ G[x] = F[x]
      BY <1>2
    <3>2. F[x].data \in Sockets(tables) /\ F[x].data \notin held /\ x \in held
      BY <3>1 DEF IInv, Holding, F
    <3>3. F[x].data # fd
      BY <3>2 DEF Sockets
    <3> QED  BY <2>2, <3>1, <3>2, <3>3
  <2>4. \A x \in held' : G[x].fs \in {"socket", "netio", "local"}
    BY <1>0, <1>2 DEF IInv, Holding, F
  <2> QED  BY <2>1, <2>3, <2>4 DEF Holding, G
<1> QED  BY <1>5, <1>6, <1>7, <1>8, <1>9, <1>10 DEF IInv

\* A new local file keeps the invariant.
LEMMA LocalInv ==
  ASSUME IInv, NEW fd \in Fd, tables.file[fd] = Closed,
         tables' \in Tables,
         tables'.file = [tables.file EXCEPT ![fd] = Entry(1, "local", 0)],
         tables'.ofiles = tables.ofiles, tables'.fd_nfiles = tables.fd_nfiles,
         tables'.nfiles = tables.nfiles,
         held' = held \cup {fd}, UNCHANGED overrun
  PROVE  IInv'
<1>0. tables \in Tables /\ held \subseteq Fd
  BY DEF IInv, TypeOK
<1> DEFINE F == tables.file
           G == tables'.file
<1>1. /\ \A x \in Fd : x # fd => G[x] = F[x]
      /\ G[fd].valid = 1 /\ G[fd].fs = "local"
      /\ F[fd].valid = 0 /\ F[fd].fs = "none"
  BY <1>0 DEF Tables, Entry, Closed
<1> HIDE DEF F, G
<1>2. fd \notin held /\ fd >= NTerm /\ fd \notin Inner(tables)
  BY <1>0, <1>1 DEF IInv, NoOrphans, Fd, F
<1>3. Inner(tables') = Inner(tables)
  BY <1>0, <1>1 DEF Inner, F, G
<1>4. TypeOK'
  BY <1>0 DEF IInv, TypeOK
<1>5. TablesAgree'
  <2>1. \A x \in Kfd : x \in Fd
    BY DEF Kfd, Fd
  <2> QED  BY <1>1, <2>1 DEF IInv, TablesAgree, F, G
<1>6. NoOrphans'
  <2>1. \A x \in Fd : G[x].valid = 1 <=> x < NTerm \/ x \in held' \cup Inner(tables')
    BY <1>1, <1>2, <1>3 DEF IInv, NoOrphans, F
  <2>2. held' \cap Inner(tables') = {}
    BY <1>2, <1>3 DEF IInv, NoOrphans
  <2>3. \A x, y \in held' : (G[x].fs = "netio" /\ G[y].fs = "netio" /\ G[x].data = G[y].data) => x = y
    BY <1>0, <1>1 DEF IInv, NoOrphans, F
  <2> QED  BY <2>1, <2>2, <2>3 DEF NoOrphans, G
<1>7. Sockets(tables') = Sockets(tables)
  BY DEF Sockets
<1>8. Counted' /\ Blank' /\ Console'
  BY <1>1, <1>2, <1>7 DEF IInv, Counted, Blank, Console, F, G
<1>9. Holding'
  <2>1. \A x \in held' : x >= NTerm
    BY <1>2 DEF IInv, Holding
  <2>2. \A x \in Fd : G[x].fs = "netio" => x \in held' /\ G[x].data \in Sockets(tables') \ held'
    <3> SUFFICES ASSUME NEW x \in Fd, G[x].fs = "netio"
                 PROVE  x \in held' /\ G[x].data \in Sockets(tables') \ held'
      OBVIOUS
    <3>1. x # fd /\ G[x] = F[x]
      BY <1>1
    <3>2. F[x].data \in Sockets(tables) /\ F[x].data \notin held /\ x \in held
      BY <3>1 DEF IInv, Holding, F
    <3>3. F[x].data # fd
      BY <1>1, <3>2 DEF Sockets, IInv, TablesAgree, F
    <3> QED  BY <1>7, <3>1, <3>2, <3>3
  <2>3. \A x \in held' : G[x].fs \in {"socket", "netio", "local"}
    BY <1>0, <1>1 DEF IInv, Holding, F
  <2> QED  BY <2>1, <2>2, <2>3 DEF Holding, G
<1> QED  BY <1>4, <1>5, <1>6, <1>8, <1>9 DEF IInv

\* A new remote file, with its socket, keeps the invariant.
LEMMA RemoteInv ==
  ASSUME IInv, NEW fd \in Fd, NEW s \in Kfd, s # fd,
         tables.file[fd] = Closed, tables.file[s] = Closed, tables.ofiles[s] = 0,
         tables.nfiles < MaxFiles, tables' \in Tables,
         tables'.file = [tables.file EXCEPT ![fd] = Entry(1, "netio", s),
                                            ![s] = Entry(1, "socket", None)],
         tables'.ofiles = [tables.ofiles EXCEPT ![s] = 1],
         tables'.fd_nfiles = tables.fd_nfiles + 1, tables'.nfiles = tables.nfiles + 1,
         held' = held \cup {fd}, UNCHANGED overrun
  PROVE  IInv'
<1>0. s \in Fd /\ tables \in Tables /\ held \subseteq Fd
  BY DEF IInv, TypeOK, Kfd, Fd
<1> DEFINE F == tables.file
           G == tables'.file
<1>1. /\ \A x \in Fd : x # fd /\ x # s => G[x] = F[x]
      /\ G[fd].valid = 1 /\ G[fd].fs = "netio" /\ G[fd].data = s
      /\ G[s].valid = 1 /\ G[s].fs = "socket"
      /\ F[fd].valid = 0 /\ F[fd].fs = "none"
      /\ F[s].valid = 0 /\ F[s].fs = "none"
  BY <1>0 DEF Tables, Entry, Closed
<1> HIDE DEF F, G
<1>2. /\ fd \notin held /\ fd >= NTerm /\ fd \notin Inner(tables)
      /\ s \notin held /\ s >= NTerm /\ s \notin Inner(tables)
  BY <1>0, <1>1 DEF IInv, NoOrphans, Fd, F
<1>3. Inner(tables') = Inner(tables) \cup {s}
  <2> DEFINE A == {x \in Fd : F[x].valid = 1 /\ F[x].fs = "netio"}
             B == {x \in Fd : G[x].valid = 1 /\ G[x].fs = "netio"}
  <2>1. B = A \cup {fd} /\ \A x \in A : G[x].data = F[x].data
    BY <1>0, <1>1
  <2>2. Inner(tables) = {F[x].data : x \in A} /\ Inner(tables') = {G[x].data : x \in B}
    BY DEF Inner, F, G
  <2> HIDE DEF A, B
  <2> QED  BY <1>1, <2>1, <2>2
<1>4. TypeOK'
  BY <1>0 DEF IInv, TypeOK, Tables
<1>5. TablesAgree'
  <2>1. \A x \in Kfd : x # s => tables'.ofiles[x] = tables.ofiles[x]
    BY <1>0 DEF Tables
  <2>2. tables'.ofiles[s] = 1
    BY <1>0 DEF Tables
  <2>3. \A x \in Kfd : x \in Fd
    BY DEF Kfd, Fd
  <2> QED  BY <1>1, <2>1, <2>2, <2>3 DEF IInv, TablesAgree, F, G
<1>6. NoOrphans'
  <2>1. \A x \in Fd : G[x].valid = 1 <=> x < NTerm \/ x \in held' \cup Inner(tables')
    BY <1>1, <1>2, <1>3 DEF IInv, NoOrphans, F
  <2>2. held' \cap Inner(tables') = {}
    BY <1>2, <1>3 DEF IInv, NoOrphans
  <2>3. \A x \in held : x # fd /\ x # s /\ G[x] = F[x]
    BY <1>0, <1>1, <1>2
  <2>4. \A x \in held : F[x].fs = "netio" => F[x].data # s
    BY <1>0, <1>1 DEF IInv, Holding, Sockets, F
  <2>5. \A x, y \in held' : (G[x].fs = "netio" /\ G[y].fs = "netio" /\ G[x].data = G[y].data) => x = y
    BY <1>1, <2>3, <2>4 DEF IInv, NoOrphans, F
  <2> QED  BY <2>1, <2>2, <2>5 DEF NoOrphans, G
<1>7. Counted'
  BY CountUp
<1>8. Blank' /\ Console'
  BY <1>1, <1>2 DEF IInv, Blank, Console, F, G
<1>9. Holding'
  <2>1. \A x \in held' : x >= NTerm
    BY <1>2 DEF IInv, Holding
  <2>2. Sockets(tables') = Sockets(tables) \cup {s}
    BY <1>0 DEF Sockets, Tables
  <2>3. \A x \in Fd : G[x].fs = "netio" => x \in held' /\ G[x].data \in Sockets(tables') \ held'
    <3> SUFFICES ASSUME NEW x \in Fd, G[x].fs = "netio"
                 PROVE  x \in held' /\ G[x].data \in Sockets(tables') \ held'
      OBVIOUS
    <3>1. CASE x = fd
      BY <1>1, <1>2, <2>2, <3>1
    <3>2. CASE x # fd
      <4>1. x # s /\ G[x] = F[x]
        BY <1>1, <3>2
      <4>2. F[x].data \in Sockets(tables) /\ F[x].data \notin held /\ x \in held
        BY <4>1 DEF IInv, Holding, F
      <4>3. F[x].data # fd
        BY <1>1, <4>2 DEF Sockets, IInv, TablesAgree, F
      <4> QED  BY <2>2, <4>1, <4>2, <4>3
    <3> QED  BY <3>1, <3>2
  <2>4. \A x \in held' : G[x].fs \in {"socket", "netio", "local"}
    BY <1>0, <1>1, <1>2 DEF IInv, Holding, F
  <2> QED  BY <2>1, <2>3, <2>4 DEF Holding, G
<1> QED  BY <1>4, <1>5, <1>6, <1>7, <1>8, <1>9 DEF IInv

\* Closing a local file keeps the invariant.
LEMMA CloseLocalInv ==
  ASSUME IInv, NEW fd \in held, tables.file[fd].fs = "local",
         tables' = [tables EXCEPT !.file[fd] = Closed],
         held' = held \ {fd}, UNCHANGED overrun
  PROVE  IInv'
<1>0. tables \in Tables /\ held \subseteq Fd /\ fd \in Fd
  BY DEF IInv, TypeOK
<1>1. Closed \in Entries
  BY DEF Closed, Entry, Entries
<1>2. /\ tables' \in Tables /\ tables'.file = [tables.file EXCEPT ![fd] = Closed]
      /\ tables'.ofiles = tables.ofiles /\ tables'.fd_nfiles = tables.fd_nfiles
      /\ tables'.nfiles = tables.nfiles
  BY <1>0, <1>1 DEF Tables
<1> DEFINE F == tables.file
           G == tables'.file
<1>3. /\ \A x \in Fd : x # fd => G[x] = F[x]
      /\ G[fd] = Closed /\ G[fd].valid = 0 /\ G[fd].fs = "none" /\ F[fd].fs = "local"
  BY <1>0, <1>2 DEF Tables, Entry, Closed
<1> HIDE DEF F, G
<1>4. fd >= NTerm /\ fd \notin Inner(tables)
  BY DEF IInv, NoOrphans, Holding
<1>5. Inner(tables') = Inner(tables)
  BY <1>0, <1>3 DEF Inner, F, G
<1>6. TypeOK'
  BY <1>0, <1>2 DEF IInv, TypeOK
<1>7. TablesAgree'
  <2>1. \A x \in Kfd : x \in Fd
    BY DEF Kfd, Fd
  <2> QED  BY <1>2, <1>3, <2>1 DEF IInv, TablesAgree, F, G
<1>8. NoOrphans'
  <2>0. ~(fd < NTerm)
    BY <1>0, <1>4 DEF Fd
  <2>1. \A x \in Fd : G[x].valid = 1 <=> x < NTerm \/ x \in held' \cup Inner(tables')
    BY <1>3, <1>4, <1>5, <2>0 DEF IInv, NoOrphans, F
  <2>2. held' \cap Inner(tables') = {}
    BY <1>5 DEF IInv, NoOrphans
  <2>3. \A x, y \in held' : (G[x].fs = "netio" /\ G[y].fs = "netio" /\ G[x].data = G[y].data) => x = y
    BY <1>0, <1>3 DEF IInv, NoOrphans, F
  <2> QED  BY <2>1, <2>2, <2>3 DEF NoOrphans, G
<1>9. Sockets(tables') = Sockets(tables)
  BY <1>2 DEF Sockets
<1>10. Counted' /\ Blank' /\ Console'
  <2>1. ~(fd < NTerm)
    BY <1>0, <1>4 DEF Fd
  <2> QED  BY <1>2, <1>3, <1>9, <2>1 DEF IInv, Counted, Blank, Console, F, G
<1>11. Holding'
  <2>1. \A x \in held' : x >= NTerm
    BY DEF IInv, Holding
  <2>2. \A x \in Fd : G[x].fs = "netio" => x \in held' /\ G[x].data \in Sockets(tables') \ held'
    BY <1>3, <1>9 DEF IInv, Holding, F
  <2>3. \A x \in held' : G[x].fs \in {"socket", "netio", "local"}
    BY <1>0, <1>3 DEF IInv, Holding, F
  <2> QED  BY <2>1, <2>2, <2>3 DEF Holding, G
<1> QED  BY <1>6, <1>7, <1>8, <1>10, <1>11 DEF IInv

\* Closing a socket of a command keeps the invariant: no remote file uses it.
LEMMA CloseSocketInv ==
  ASSUME IInv, NEW fd \in held, tables.file[fd].fs = "socket",
         tables' = CloseSocket(tables, fd),
         held' = held \ {fd}, UNCHANGED overrun
  PROVE  IInv'
<1>0. tables \in Tables /\ held \subseteq Fd /\ fd \in Fd
  BY DEF IInv, TypeOK
<1>1. fd \in Kfd /\ tables.ofiles[fd] = 1
  BY <1>0 DEF IInv, TablesAgree, NoOrphans
<1>2. tables.nfiles > 0 /\ tables.fd_nfiles > 0
  BY <1>1, CountDown
<1>3. /\ tables' \in Tables /\ tables'.file = [tables.file EXCEPT ![fd] = Closed]
      /\ tables'.ofiles = [tables.ofiles EXCEPT ![fd] = 0]
      /\ tables'.fd_nfiles = tables.fd_nfiles - 1 /\ tables'.nfiles = tables.nfiles - 1
  BY <1>0, <1>1, <1>2, CloseSocketFields
<1> DEFINE F == tables.file
           G == tables'.file
<1>4. /\ \A x \in Fd : x # fd => G[x] = F[x]
      /\ G[fd] = Closed /\ G[fd].valid = 0 /\ G[fd].fs = "none" /\ F[fd].fs = "socket"
  BY <1>0, <1>3 DEF Tables, Entry, Closed
<1> HIDE DEF F, G
<1>5. fd >= NTerm /\ fd \notin Inner(tables) /\ ~(fd < NTerm)
  BY <1>0 DEF IInv, NoOrphans, Holding, Fd
<1>6. Inner(tables') = Inner(tables)
  BY <1>0, <1>4 DEF Inner, F, G
<1>7. TypeOK'
  <2>1. tables.nfiles <= MaxFiles /\ tables.nfiles \in Nat
    BY <1>0 DEF IInv, TypeOK, Tables
  <2>2. tables'.nfiles <= MaxFiles
    BY <1>3, <2>1
  <2> QED  BY <1>0, <1>3, <2>2 DEF IInv, TypeOK
<1>8. TablesAgree'
  <2>1. \A x \in Kfd : x # fd => tables'.ofiles[x] = tables.ofiles[x]
    BY <1>0, <1>3 DEF Tables
  <2>2. tables'.ofiles[fd] = 0
    BY <1>0, <1>1, <1>3 DEF Tables
  <2>3. \A x \in Kfd : x \in Fd
    BY DEF Kfd, Fd
  <2> QED  BY <1>4, <2>1, <2>2, <2>3 DEF IInv, TablesAgree, F, G
<1>9. NoOrphans'
  <2>1. \A x \in Fd : G[x].valid = 1 <=> x < NTerm \/ x \in held' \cup Inner(tables')
    BY <1>4, <1>5, <1>6 DEF IInv, NoOrphans, F
  <2>2. held' \cap Inner(tables') = {}
    BY <1>6 DEF IInv, NoOrphans
  <2>3. \A x, y \in held' : (G[x].fs = "netio" /\ G[y].fs = "netio" /\ G[x].data = G[y].data) => x = y
    BY <1>0, <1>4 DEF IInv, NoOrphans, F
  <2> QED  BY <2>1, <2>2, <2>3 DEF NoOrphans, G
<1>10. Counted'
  BY <1>1, <1>3, CountDown
<1>11. Blank' /\ Console'
  BY <1>4, <1>5 DEF IInv, Blank, Console, F, G
<1>12. Holding'
  <2>1. \A x \in held' : x >= NTerm
    BY DEF IInv, Holding
  <2>2. Sockets(tables') = Sockets(tables) \ {fd}
    BY <1>0, <1>3 DEF Sockets, Tables
  <2>3. \A x \in Fd : G[x].fs = "netio" => x \in held' /\ G[x].data \in Sockets(tables') \ held'
    <3> SUFFICES ASSUME NEW x \in Fd, G[x].fs = "netio"
                 PROVE  x \in held' /\ G[x].data \in Sockets(tables') \ held'
      OBVIOUS
    <3>1. x # fd /\ G[x] = F[x]
      BY <1>4
    <3>2. F[x].data \in Sockets(tables) /\ F[x].data \notin held /\ x \in held
      BY <3>1 DEF IInv, Holding, F
    <3> QED  BY <2>2, <3>1, <3>2
  <2>4. \A x \in held' : G[x].fs \in {"socket", "netio", "local"}
    BY <1>0, <1>4 DEF IInv, Holding, F
  <2> QED  BY <2>1, <2>3, <2>4 DEF Holding, G
<1> QED  BY <1>7, <1>8, <1>9, <1>10, <1>11, <1>12 DEF IInv

\* Closing a remote file, which closes its socket, keeps the invariant.
LEMMA CloseRemoteInv ==
  ASSUME IInv, NEW fd \in held, tables.file[fd].fs = "netio",
         tables' = CloseRemote(tables, fd),
         held' = held \ {fd}, UNCHANGED overrun
  PROVE  IInv'
<1> DEFINE s == tables.file[fd].data
           c == CloseSocket(tables, s)
<1>0. tables \in Tables /\ held \subseteq Fd /\ fd \in Fd
  BY DEF IInv, TypeOK
<1>1. s \in Kfd /\ s \in Fd /\ tables.ofiles[s] = 1 /\ s \notin held /\ s # fd
  BY <1>0 DEF IInv, Holding, Sockets, Kfd, Fd
<1>2. tables.nfiles > 0 /\ tables.fd_nfiles > 0
  BY <1>1, CountDown
<1>3. /\ c \in Tables /\ c.file = [tables.file EXCEPT ![s] = Closed]
      /\ c.ofiles = [tables.ofiles EXCEPT ![s] = 0]
      /\ c.fd_nfiles = tables.fd_nfiles - 1 /\ c.nfiles = tables.nfiles - 1
  <2> HIDE DEF s
  <2> QED  BY <1>0, <1>1, <1>2, CloseSocketFields
<1>4. tables' = [c EXCEPT !.file[fd] = Closed]
  BY DEF CloseRemote
<1> HIDE DEF c
<1>5. Closed \in Entries
  BY DEF Closed, Entry, Entries
<1>6. /\ tables' \in Tables /\ tables'.file = [c.file EXCEPT ![fd] = Closed]
      /\ tables'.ofiles = c.ofiles
      /\ tables'.fd_nfiles = c.fd_nfiles /\ tables'.nfiles = c.nfiles
  BY <1>0, <1>3, <1>4, <1>5 DEF Tables
<1> DEFINE F == tables.file
           G == tables'.file
<1>7. /\ \A x \in Fd : x # fd /\ x # s => G[x] = F[x]
      /\ G[fd] = Closed /\ G[s] = Closed
      /\ F[fd].fs = "netio" /\ F[fd].data = s
  <2> HIDE DEF s
  <2>1. F \in [Fd -> Entries]
    BY <1>0 DEF Tables
  <2>2. G = [[F EXCEPT ![s] = Closed] EXCEPT ![fd] = Closed]
    BY <1>3, <1>6
  <2> HIDE DEF F, G
  <2>3. /\ \A x \in Fd : x # fd /\ x # s => G[x] = F[x]
        /\ G[fd] = Closed /\ G[s] = Closed
    BY <1>0, <1>1, <2>1, <2>2
  <2> QED  BY <2>3 DEF s, F
<1>8. F[fd].valid = 1 /\ F[s].valid = 1 /\ F[s].fs = "socket"
  BY <1>0, <1>1 DEF IInv, TablesAgree, NoOrphans
<1>9. Closed.valid = 0 /\ Closed.fs = "none"
  BY DEF Closed, Entry
<1> HIDE DEF F, G, s
<1>10. /\ fd >= NTerm /\ fd \notin Inner(tables) /\ ~(fd < NTerm)
  BY <1>0 DEF IInv, NoOrphans, Holding, Fd
<1>11. ~(s < NTerm)
  BY <1>1, <1>8 DEF IInv, Console, F
<1>12. \A x \in Fd : x # fd /\ F[x].fs = "netio" => x \in held /\ F[x].data # s
  BY <1>0, <1>7 DEF IInv, NoOrphans, Holding, F
<1>13. Inner(tables') = Inner(tables) \ {s}
  <2> DEFINE A == {x \in Fd : F[x].valid = 1 /\ F[x].fs = "netio"}
             B == {x \in Fd : G[x].valid = 1 /\ G[x].fs = "netio"}
  <2>1. A = B \cup {fd} /\ fd \notin B /\ \A x \in B : G[x].data = F[x].data /\ F[x].data # s
    BY <1>0, <1>7, <1>8, <1>9, <1>12
  <2>2. Inner(tables) = {F[x].data : x \in A} /\ Inner(tables') = {G[x].data : x \in B}
    BY DEF Inner, F, G
  <2> HIDE DEF A, B
  <2> QED  BY <1>7, <2>1, <2>2
<1>14. TypeOK'
  <2>1. tables.nfiles <= MaxFiles /\ tables.nfiles \in Nat
    BY <1>0 DEF IInv, TypeOK, Tables
  <2>2. tables'.nfiles <= MaxFiles
    BY <1>3, <1>6, <2>1
  <2> QED  BY <1>0, <1>6, <2>2 DEF IInv, TypeOK
<1>15. TablesAgree'
  <2>1. \A x \in Kfd : x # s => tables'.ofiles[x] = tables.ofiles[x]
    BY <1>0, <1>3, <1>6 DEF Tables
  <2>2. tables'.ofiles[s] = 0
    BY <1>0, <1>1, <1>3, <1>6 DEF Tables
  <2>3. \A x \in Kfd : x \in Fd
    BY DEF Kfd, Fd
  <2>4. \A x \in Fd : G[x].fs = "socket" => x # s /\ x # fd /\ G[x] = F[x]
    BY <1>7, <1>9
  <2>5. \A x \in Fd : G[x].fs = "socket" => x \in Kfd
    BY <2>4 DEF IInv, TablesAgree, F
  <2>6. \A x \in Kfd : tables'.ofiles[x] = 1 <=> (G[x].valid = 1 /\ G[x].fs = "socket")
    <3> SUFFICES ASSUME NEW x \in Kfd
                 PROVE  tables'.ofiles[x] = 1 <=> (G[x].valid = 1 /\ G[x].fs = "socket")
      OBVIOUS
    <3>1. CASE x = s
      BY <1>7, <1>9, <2>2, <3>1
    <3>2. CASE x = fd
      BY <1>0, <1>1, <1>7, <1>9, <2>1, <3>2 DEF IInv, TablesAgree, F
    <3>3. CASE x # s /\ x # fd
      BY <1>7, <2>1, <2>3, <3>3 DEF IInv, TablesAgree, F
    <3> QED  BY <3>1, <3>2, <3>3
  <2> QED  BY <2>5, <2>6 DEF TablesAgree, G
<1>16. NoOrphans'
  <2>1. \A x \in Fd : G[x].valid = 1 <=> x < NTerm \/ x \in held' \cup Inner(tables')
    <3> SUFFICES ASSUME NEW x \in Fd
                 PROVE  G[x].valid = 1 <=> x < NTerm \/ x \in held' \cup Inner(tables')
      OBVIOUS
    <3>1. CASE x = s
      BY <1>1, <1>7, <1>9, <1>11, <1>13, <3>1
    <3>2. CASE x = fd
      BY <1>7, <1>9, <1>10, <1>13, <3>2
    <3>3. CASE x # s /\ x # fd
      BY <1>7, <1>13, <3>3 DEF IInv, NoOrphans, F
    <3> QED  BY <3>1, <3>2, <3>3
  <2>2. held' \cap Inner(tables') = {}
    BY <1>13 DEF IInv, NoOrphans
  <2>3. \A x \in held' : x \in Fd /\ x # fd /\ x # s /\ G[x] = F[x]
    BY <1>0, <1>1, <1>7
  <2>4. \A x, y \in held' : (G[x].fs = "netio" /\ G[y].fs = "netio" /\ G[x].data = G[y].data) => x = y
    BY <2>3 DEF IInv, NoOrphans, F
  <2> QED  BY <2>1, <2>2, <2>4 DEF NoOrphans, G
<1>17. Counted'
  BY <1>1, <1>3, <1>6, CountDown
<1>18. Blank' /\ Console'
  BY <1>7, <1>10, <1>11 DEF IInv, Blank, Console, F, G
<1>19. Holding'
  <2>1. \A x \in held' : x >= NTerm
    BY DEF IInv, Holding
  <2>2. Sockets(tables') = Sockets(tables) \ {s}
    BY <1>0, <1>3, <1>6 DEF Sockets, Tables
  <2>3. \A x \in Fd : G[x].fs = "netio" => x \in held' /\ G[x].data \in Sockets(tables') \ held'
    <3> SUFFICES ASSUME NEW x \in Fd, G[x].fs = "netio"
                 PROVE  x \in held' /\ G[x].data \in Sockets(tables') \ held'
      OBVIOUS
    <3>1. x # fd /\ x # s /\ G[x] = F[x]
      BY <1>7, <1>9
    <3>2. F[x].data \in Sockets(tables) /\ F[x].data \notin held /\ x \in held
      BY <3>1 DEF IInv, Holding, F
    <3> QED  BY <1>12, <2>2, <3>1, <3>2
  <2>4. \A x \in held' : G[x].fs \in {"socket", "netio", "local"}
    BY <1>0, <1>1, <1>7 DEF IInv, Holding, F
  <2> QED  BY <2>1, <2>3, <2>4 DEF Holding, G
<1> QED  BY <1>14, <1>15, <1>16, <1>17, <1>18, <1>19 DEF IInv

\* The claim of open: the tables that netio_open works on, and taking it back.
LEMMA ClaimResult ==
  ASSUME NEW t \in Tables, BlankIn(t), FreeFds(t) # {},
         NEW fd, fd = FirstFree(t), NEW u, u = Claim(t, fd)
  PROVE  /\ fd \in Fd /\ t.file[fd] = Closed
         /\ u \in Tables /\ BlankIn(u)
         /\ u.file = [t.file EXCEPT ![fd] = Entry(1, "none", None)]
         /\ u.ofiles = t.ofiles /\ u.fd_nfiles = t.fd_nfiles /\ u.nfiles = t.nfiles
         /\ FreeFds(u) = FreeFds(t) \ {fd}
         /\ Unclaim(u, fd) = t
<1>1. fd \in Fd /\ t.file[fd] = Closed
  BY FdAllocResult
<1>2. u = SetFile(t, fd, Entry(1, "none", None))
  BY <1>1, OpenPieces DEF Closed, Entry
<1>3. Entry(1, "none", None) \in Entries /\ Entry(1, "none", None).valid = 1
  BY DEF Entries, Entry, None
<1>4. /\ u \in Tables
      /\ u.file = [t.file EXCEPT ![fd] = Entry(1, "none", None)]
      /\ u.ofiles = t.ofiles /\ u.fd_nfiles = t.fd_nfiles /\ u.nfiles = t.nfiles
  BY <1>1, <1>2, <1>3 DEF SetFile, Tables
<1>5. /\ \A x \in Fd : x # fd => u.file[x] = t.file[x]
      /\ u.file[fd] = Entry(1, "none", None) /\ u.file[fd].valid = 1
  BY <1>1, <1>3, <1>4 DEF Tables
<1>6. BlankIn(u)
  <2>1. \A x \in Kfd : x \in Fd
    BY DEF Kfd, Fd
  <2> QED  BY <1>4, <1>5, <2>1 DEF BlankIn
<1>7. FreeFds(u) = FreeFds(t) \ {fd}
  BY <1>1, <1>5 DEF FreeFds
<1>8. Unclaim(u, fd) = t
  <2>1. u.file[fd].fs = "none" /\ u.file[fd].data = None
    BY <1>5 DEF Entry
  <2>2. Unclaim(u, fd) = SetFile(u, fd, Closed)
    <3>1. Unclaim(u, fd) = SetFile(u, fd, Entry(0, u.file[fd].fs, u.file[fd].data))
      BY <1>1, <1>4, OpenPieces
    <3> QED  BY <2>1, <3>1 DEF Closed
  <2>3. Closed \in Entries
    BY DEF Closed, Entry, Entries
  <2> DEFINE w == SetFile(u, fd, Closed)
  <2>4. /\ w \in Tables /\ w.file = [u.file EXCEPT ![fd] = Closed]
        /\ w.ofiles = u.ofiles /\ w.fd_nfiles = u.fd_nfiles /\ w.nfiles = u.nfiles
    BY <1>1, <1>4, <2>3 DEF SetFile, Tables
  <2> HIDE DEF w
  <2>5. w.file = t.file
    BY <1>1, <1>4, <2>4 DEF Tables
  <2>6. w = t
    BY <1>4, <2>4, <2>5, SameTables
  <2> QED  BY <2>2, <2>6 DEF w
<1> QED  BY <1>1, <1>4, <1>6, <1>7, <1>8

\* More than one free entry: there is one left behind open's claim.
LEMMA AnotherFree ==
  ASSUME NEW t, Cardinality(FreeFds(t)) > 1, NEW fd
  PROVE  FreeFds(t) # {} /\ FreeFds(t) \ {fd} # {}
<1>1. IsFiniteSet(Fd)
  BY FS_Interval DEF Fd
<1>2. IsFiniteSet(FreeFds(t))
  BY <1>1, FS_Subset DEF FreeFds
<1>3. Cardinality({}) = 0 /\ Cardinality({fd}) = 1
  BY FS_EmptySet, FS_Singleton
<1>4. FreeFds(t) # {} /\ FreeFds(t) # {fd}
  BY <1>3
<1> QED  BY <1>4

\* Opening a remote file keeps the invariant, and leaves the tables as they
\* were when it fails.
LEMMA OpenRemoteInv ==
  ASSUME IInv, NEW mem \in BOOLEAN, NEW smem \in BOOLEAN, NEW so \in BOOLEAN,
         NEW reply \in BOOLEAN, OpenRemote(mem, smem, so, reply)
  PROVE  IInv'
<1> DEFINE fd == FirstFree(tables)
           u == Claim(tables, fd)
           s == SysSocket(u, smem, so)
           n == NetioOpen(u, fd, mem, smem, so, reply)
<1>0. tables \in Tables /\ BlankIn(tables) /\ FreeFds(tables) # {} /\ held \subseteq Fd
  BY InvBlank, AnotherFree DEF OpenRemote, IInv, TypeOK
<1>1. /\ tables' = IF n.fd = None THEN Unclaim(n.t, fd) ELSE Attach(n.t, fd, "netio")
      /\ held' = held \cup ({n.fd} \ {None})
      /\ UNCHANGED overrun
  BY DEF OpenRemote, Give
<1>2. /\ fd \in Fd /\ tables.file[fd] = Closed
      /\ u \in Tables /\ BlankIn(u)
      /\ u.file = [tables.file EXCEPT ![fd] = Entry(1, "none", None)]
      /\ u.ofiles = tables.ofiles /\ u.fd_nfiles = tables.fd_nfiles /\ u.nfiles = tables.nfiles
      /\ FreeFds(u) = FreeFds(tables) \ {fd}
      /\ Unclaim(u, fd) = tables
  BY <1>0, ClaimResult
<1>3. FreeFds(u) # {}
  BY <1>2, AnotherFree DEF OpenRemote
<1> HIDE DEF fd
<1>4. ASSUME n = Failure(u)
      PROVE  IInv'
  <2>1. n.fd = None /\ n.t = u
    BY <1>4 DEF Failure
  <2>2. tables' = tables
    BY <1>1, <1>2, <2>1
  <2>3. held' = held
    BY <1>1, <2>1
  <2>4. UNCHANGED vars
    BY <1>1, <2>2, <2>3 DEF vars
  <2> QED  BY <2>4 DEF vars, IInv, TypeOK, TablesAgree, NoOrphans, Counted, Blank, Console, Holding
<1> HIDE DEF u
<1>5. \/ s.fd = None /\ s.t = u
      \/ /\ s.fd = FirstFree(u) /\ s.fd \in Kfd /\ u.nfiles < MaxFiles
         /\ s.t = NewSocket(u, s.fd)
         /\ u.file[s.fd] = Closed /\ u.ofiles[s.fd] = 0
  <2>1. s = SysSocket(u, smem, so)
    OBVIOUS
  <2>2. u \in Tables /\ BlankIn(u)
    BY <1>2
  <2> HIDE DEF s, n
  <2> QED  BY <1>3, <2>1, <2>2, SocketResult
<1>6. n = IF ~mem THEN Failure(u)
          ELSE IF s.fd = None THEN Failure(s.t)
          ELSE IF ~reply THEN Failure(CloseSocket(s.t, s.fd))
          ELSE [t |-> [s.t EXCEPT !.file[fd].data = s.fd], fd |-> fd]
  BY DEF NetioOpen
<1> HIDE DEF s, n
<1>7. CASE ~mem \/ s.fd = None
  <2>1. s.fd # None \/ s.t = u
    BY <1>5 DEF Kfd, None
  <2>2. n = Failure(u)
    BY <1>6, <1>7, <2>1
  <2> QED  BY <1>4, <2>2
<1>8. CASE mem /\ s.fd # None /\ ~reply
  <2>1. CloseSocket(s.t, s.fd) = u
    BY <1>2, <1>5, <1>8, SocketUndone
  <2>2. n = Failure(u)
    BY <1>6, <1>8, <2>1
  <2> QED  BY <1>4, <2>2
<1>9. CASE mem /\ s.fd # None /\ reply
  <2> DEFINE k == s.fd
             w == s.t
  <2>1. /\ k \in Kfd /\ u.nfiles < MaxFiles /\ w = NewSocket(u, k)
        /\ u.file[k] = Closed /\ u.ofiles[k] = 0
    BY <1>5, <1>9
  <2>2. n.fd = fd /\ n.t = [w EXCEPT !.file[fd].data = k]
    BY <1>6, <1>9
  <2>3. fd # None
    BY <1>2 DEF Fd, None
  <2>4. tables' = Attach(n.t, fd, "netio") /\ held' = held \cup {fd}
    BY <1>1, <2>2, <2>3
  <2> HIDE DEF k, w
  <2>5. /\ w \in Tables
        /\ w.file = [u.file EXCEPT ![k] = Entry(1, "socket", None)]
        /\ w.ofiles = [u.ofiles EXCEPT ![k] = 1]
        /\ w.fd_nfiles = u.fd_nfiles + 1 /\ w.nfiles = u.nfiles + 1
    BY <1>2, <2>1, NewSocketFields
  <2>6. Entry(1, "none", None) # Closed
    <3>1. Entry(1, "none", None).valid = 1 /\ Closed.valid = 0
      BY DEF Entry, Closed
    <3> QED  BY <3>1
  <2>7. k \in Fd /\ k # fd /\ tables.file[k] = Closed
    <3>1. k \in Fd
      BY <2>1 DEF Kfd, Fd
    <3>2. u.file[fd] = Entry(1, "none", None)
      BY <1>0, <1>2 DEF Tables
    <3> QED  BY <1>0, <1>2, <2>1, <2>6, <3>1, <3>2 DEF Tables
  <2>8. w.file[fd] = Entry(1, "none", None)
    BY <1>0, <1>2, <2>5, <2>7 DEF Tables
  <2> DEFINE v == n.t
  <2>9. Entry(1, "none", k) \in Entries /\ Entry(1, "netio", k) \in Entries
    BY <2>7 DEF Entry, Entries
  <2>10. /\ v \in Tables
         /\ v.file = [w.file EXCEPT ![fd] = Entry(1, "none", k)]
         /\ v.ofiles = w.ofiles /\ v.fd_nfiles = w.fd_nfiles /\ v.nfiles = w.nfiles
    <3>1. [w.file[fd] EXCEPT !.data = k] = Entry(1, "none", k)
      BY <2>8 DEF Entry
    <3>2. v = SetFile(w, fd, Entry(1, "none", k))
      BY <2>2, <3>1 DEF SetFile
    <3> HIDE DEF v
    <3> QED  BY <1>2, <2>5, <2>9, <3>2 DEF SetFile, Tables
  <2> HIDE DEF v
  <2>11. v.file[fd] = Entry(1, "none", k)
    BY <1>2, <2>5, <2>10 DEF Tables
  <2>12. tables' = SetFile(v, fd, Entry(1, "netio", k))
    <3>1. v.file[fd].valid = 1 /\ v.file[fd].data = k
      BY <2>11 DEF Entry
    <3>2. Attach(v, fd, "netio") = SetFile(v, fd, Entry(v.file[fd].valid, "netio", v.file[fd].data))
      BY <1>2, <2>10, OpenPieces
    <3> QED  BY <2>4, <3>1, <3>2 DEF v
  <2>13. /\ tables' \in Tables
         /\ tables'.file = [v.file EXCEPT ![fd] = Entry(1, "netio", k)]
         /\ tables'.ofiles = v.ofiles /\ tables'.fd_nfiles = v.fd_nfiles
         /\ tables'.nfiles = v.nfiles
    BY <1>2, <2>9, <2>10, <2>12 DEF SetFile, Tables
  <2>14. tables'.file = [tables.file EXCEPT ![fd] = Entry(1, "netio", k),
                                            ![k] = Entry(1, "socket", None)]
    <3>1. tables.file \in [Fd -> Entries]
      BY <1>0 DEF Tables
    <3>2. tables'.file = [[[[tables.file EXCEPT ![fd] = Entry(1, "none", None)]
                              EXCEPT ![k] = Entry(1, "socket", None)]
                              EXCEPT ![fd] = Entry(1, "none", k)]
                              EXCEPT ![fd] = Entry(1, "netio", k)]
      BY <1>2, <2>5, <2>10, <2>13
    <3> QED  BY <1>2, <2>7, <3>1, <3>2
  <2>15. /\ tables'.ofiles = [tables.ofiles EXCEPT ![k] = 1]
         /\ tables'.fd_nfiles = tables.fd_nfiles + 1 /\ tables'.nfiles = tables.nfiles + 1
         /\ tables.nfiles < MaxFiles /\ tables.ofiles[k] = 0
    BY <1>2, <2>1, <2>5, <2>10, <2>13
  <2> QED  BY <1>1, <1>2, <2>1, <2>4, <2>7, <2>13, <2>14, <2>15, RemoteInv
<1> QED  BY <1>7, <1>8, <1>9

\* Opening a local file keeps the invariant.
LEMMA OpenLocalInv ==
  ASSUME IInv, NEW ok \in BOOLEAN, OpenLocal(ok)
  PROVE  IInv'
<1> DEFINE fd == FirstFree(tables)
           u == Claim(tables, fd)
<1>0. tables \in Tables /\ BlankIn(tables) /\ FreeFds(tables) # {}
  BY InvBlank DEF OpenLocal, IInv, TypeOK
<1>1. /\ fd \in Fd /\ tables.file[fd] = Closed
      /\ u \in Tables
      /\ u.file = [tables.file EXCEPT ![fd] = Entry(1, "none", None)]
      /\ u.ofiles = tables.ofiles /\ u.fd_nfiles = tables.fd_nfiles /\ u.nfiles = tables.nfiles
      /\ Unclaim(u, fd) = tables
  BY <1>0, ClaimResult
<1>2. CASE ~ok
  <2>1. UNCHANGED vars
    BY <1>1, <1>2 DEF OpenLocal, vars
  <2> QED  BY <2>1 DEF vars, IInv, TypeOK, TablesAgree, NoOrphans, Counted, Blank, Console, Holding
<1>3. CASE ok
  <2>1. tables' = [Attach(u, fd, "local") EXCEPT !.file[fd].data = 0] /\ Give(fd) /\ UNCHANGED overrun
    BY <1>3 DEF OpenLocal
  <2>2. fd # None
    BY <1>1 DEF Fd, None
  <2> HIDE DEF fd, u
  <2>3. held' = held \cup {fd}
    BY <2>1, <2>2 DEF Give
  <2> DEFINE v == Attach(u, fd, "local")
  <2>4. u.file[fd].valid = 1 /\ u.file[fd].data = None
    BY <1>0, <1>1 DEF Entry, Tables
  <2>5. v = SetFile(u, fd, Entry(1, "local", None))
    <3>1. v = SetFile(u, fd, Entry(u.file[fd].valid, "local", u.file[fd].data))
      BY <1>1, OpenPieces
    <3> QED  BY <2>4, <3>1
  <2> HIDE DEF v
  <2>6. Entry(1, "local", None) \in Entries /\ Entry(1, "local", 0) \in Entries
    BY <1>1 DEF Entry, Entries, Fd
  <2>7. /\ v \in Tables /\ v.file = [u.file EXCEPT ![fd] = Entry(1, "local", None)]
        /\ v.ofiles = u.ofiles /\ v.fd_nfiles = u.fd_nfiles /\ v.nfiles = u.nfiles
    BY <1>1, <2>5, <2>6 DEF SetFile, Tables
  <2>8. v.file[fd] = Entry(1, "local", None)
    BY <1>1, <2>7 DEF Tables
  <2>9. [v.file[fd] EXCEPT !.data = 0] = Entry(1, "local", 0)
    BY <2>8 DEF Entry
  <2>10. tables' = SetFile(v, fd, Entry(1, "local", 0))
    BY <2>1, <2>9 DEF SetFile, v
  <2>11. /\ tables' \in Tables /\ tables'.file = [v.file EXCEPT ![fd] = Entry(1, "local", 0)]
         /\ tables'.ofiles = v.ofiles /\ tables'.fd_nfiles = v.fd_nfiles
         /\ tables'.nfiles = v.nfiles
    BY <1>1, <2>6, <2>7, <2>10 DEF SetFile, Tables
  <2>12. tables'.file = [tables.file EXCEPT ![fd] = Entry(1, "local", 0)]
    <3>1. tables.file \in [Fd -> Entries]
      BY <1>0 DEF Tables
    <3>2. tables'.file = [[[tables.file EXCEPT ![fd] = Entry(1, "none", None)]
                              EXCEPT ![fd] = Entry(1, "local", None)]
                              EXCEPT ![fd] = Entry(1, "local", 0)]
      BY <1>1, <2>7, <2>11
    <3> QED  BY <1>1, <3>1, <3>2
  <2> QED  BY <1>1, <2>1, <2>3, <2>7, <2>11, <2>12, LocalInv
<1> QED  BY <1>2, <1>3

\* The first state: only the console is open.
LEMMA InitInv ==
  Init => IInv
<1> SUFFICES ASSUME Init  PROVE IInv
  OBVIOUS
<1> DEFINE F == tables.file
<1>1. Entry(1, "termio", 0).valid = 1 /\ Entry(1, "termio", 0).fs = "termio"
  BY DEF Entry
<1>2. Closed.valid = 0 /\ Closed.fs = "none"
  BY DEF Closed, Entry
<1>3. \A fd \in Fd : IF fd < NTerm THEN F[fd] = Entry(1, "termio", 0) ELSE F[fd] = Closed
  BY DEF Init
<1>4. \A fd \in Fd : Entry(1, "termio", 0) \in Entries /\ Closed \in Entries
  BY DEF Entry, Entries, Closed, Fd
<1>5. /\ tables = [file |-> F, ofiles |-> tables.ofiles, fd_nfiles |-> NTerm, nfiles |-> 0]
      /\ tables.ofiles = [fd \in Kfd |-> 0] /\ held = {} /\ overrun = FALSE
      /\ F = [fd \in Fd |-> IF fd < NTerm THEN Entry(1, "termio", 0) ELSE Closed]
  BY DEF Init
<1>6. tables.fd_nfiles = NTerm /\ tables.nfiles = 0
  BY DEF Init
<1> HIDE DEF F
<1>7. F \in [Fd -> Entries]
  BY <1>4, <1>5
<1>8. TypeOK
  <2>1. tables.ofiles \in [Kfd -> {0, 1}]
    BY <1>5
  <2>2. tables \in Tables
    BY <1>5, <1>7, <2>1 DEF Tables
  <2>3. tables.nfiles <= MaxFiles
    BY <1>6
  <2>4. held \subseteq Fd /\ overrun \in BOOLEAN
    BY DEF Init
  <2> QED  BY <2>2, <2>3, <2>4 DEF TypeOK
<1>9. \A fd \in Fd : F[fd].fs \in {"none", "termio"} /\ (F[fd].valid = 1 <=> fd < NTerm)
  BY <1>1, <1>2, <1>3
<1>10. Inner(tables) = {} /\ Sockets(tables) = {}
  BY <1>5, <1>9 DEF Inner, Sockets, F
<1>11. TablesAgree
  <2>1. \A fd \in Kfd : fd \in Fd
    BY DEF Kfd, Fd
  <2> QED  BY <1>5, <1>9, <2>1 DEF TablesAgree, F
<1>12. NoOrphans /\ Holding
  BY <1>5, <1>9, <1>10 DEF NoOrphans, Holding, F
<1>13. Counted
  BY <1>6, <1>10, FS_EmptySet DEF Counted
<1>14. Blank /\ Console
  BY <1>1, <1>3 DEF Blank, Console, F
<1> QED  BY <1>8, <1>11, <1>12, <1>13, <1>14 DEF IInv

\* Every call keeps the invariant.
LEMMA NextInv ==
  ASSUME IInv, [Next]_vars
  PROVE  IInv'
<1>0. tables \in Tables /\ BlankIn(tables) /\ held \subseteq Fd
  BY InvBlank DEF IInv, TypeOK
<1>1. ASSUME UNCHANGED vars
      PROVE  IInv'
  BY <1>1 DEF vars, IInv, TypeOK, TablesAgree, NoOrphans, Counted, Blank, Console, Holding
<1>2. ASSUME NEW mem \in BOOLEAN, NEW so \in BOOLEAN, Socket(mem, so)
      PROVE  IInv'
  <2> DEFINE s == SysSocket(tables, mem, so)
  <2>1. FreeFds(tables) # {} /\ tables' = s.t /\ Give(s.fd) /\ UNCHANGED overrun
    BY <1>2 DEF Socket
  <2>2. \/ s.fd = None /\ s.t = tables
        \/ /\ s.fd = FirstFree(tables) /\ s.fd \in Kfd /\ tables.nfiles < MaxFiles
           /\ s.t = NewSocket(tables, s.fd)
           /\ tables.file[s.fd] = Closed /\ tables.ofiles[s.fd] = 0
    BY <1>0, <2>1, SocketResult
  <2> HIDE DEF s
  <2>3. CASE s.fd = None
    <3>1. s.t = tables
      BY <2>2, <2>3 DEF Kfd, None
    <3>2. UNCHANGED vars
      BY <2>1, <2>3, <3>1 DEF Give, vars
    <3> QED  BY <1>1, <3>2
  <2>4. CASE s.fd # None
    <3>1. held' = held \cup {s.fd}
      BY <2>1, <2>4 DEF Give
    <3> QED  BY <2>1, <2>2, <2>4, <3>1, SocketInv
  <2> QED  BY <2>3, <2>4
<1>3. ASSUME NEW fd \in Fd, Close(fd)
      PROVE  IInv'
  <2>1. fd \in held /\ held' = held \ {fd} /\ UNCHANGED overrun
    BY <1>3 DEF Close
  <2>2. tables.file[fd].fs \in {"socket", "netio", "local"}
    BY <2>1 DEF IInv, Holding
  <2>3. CASE tables.file[fd].fs = "socket"
    <3>1. tables' = CloseSocket(tables, fd)
      BY <1>3, <2>3 DEF Close
    <3> QED  BY <2>1, <2>3, <3>1, CloseSocketInv
  <2>4. CASE tables.file[fd].fs = "netio"
    <3>1. tables' = CloseRemote(tables, fd)
      BY <1>3, <2>4 DEF Close
    <3> QED  BY <2>1, <2>4, <3>1, CloseRemoteInv
  <2>5. CASE tables.file[fd].fs = "local"
    <3>1. tables' = [tables EXCEPT !.file[fd] = Closed]
      BY <1>3, <2>5 DEF Close
    <3> QED  BY <2>1, <2>5, <3>1, CloseLocalInv
  <2> QED  BY <2>2, <2>3, <2>4, <2>5
<1>4. ASSUME Overrun
      PROVE  IInv'
  <2>1. UNCHANGED <<tables, held>> /\ overrun' = TRUE
    BY <1>4 DEF Overrun
  <2> QED  BY <2>1 DEF IInv, TypeOK, TablesAgree, NoOrphans, Counted, Blank, Console, Holding, Sockets, Inner
<1> QED  BY <1>1, <1>2, <1>3, <1>4, OpenRemoteInv, OpenLocalInv DEF Next

\* The inductive invariant holds in every state.
THEOREM Invariance == Spec => []IInv
<1> QED  BY InitInv, NextInv, PTL DEF Spec

\* The tables keep their types and the kernel never has more than maxfiles files.
THEOREM TypeCorrect == Spec => []TypeOK
<1>1. IInv => TypeOK
  BY DEF IInv
<1> QED  BY <1>1, Invariance, PTL

\* The library's table and the kernel's never disagree, however a call fails.
THEOREM TablesAlwaysAgree == Spec => []TablesAgree
<1>1. IInv => TablesAgree
  BY DEF IInv
<1> QED  BY <1>1, Invariance, PTL

\* No descriptor is lost: every valid one is the console's, a command's, or is
\* the socket of exactly one remote file.
THEOREM NothingOrphaned == Spec => []NoOrphans
<1>1. IInv => NoOrphans
  BY DEF IInv
<1> QED  BY <1>1, Invariance, PTL

\* nfiles and fd_nfiles follow the number of open sockets.
THEOREM AlwaysCounted == Spec => []Counted
<1>1. IInv => Counted
  BY DEF IInv
<1> QED  BY <1>1, Invariance, PTL

\* Whichever step of socket, open or close fails half way, all three hold at
\* once.
THEOREM DescriptorsKept == Spec => []Descriptors
<1>1. IInv => Descriptors
  BY DEF IInv, Descriptors
<1> QED  BY <1>1, Invariance, PTL
=============================================================================
