------------------------------ MODULE FileDesc ------------------------------
(***************************************************************************)
(* File descriptors (lib/open.c, lib/close.c, fs/socket, fs/netio,         *)
(* fs/devio, kernel/kern_filedesc.c, sys_socket in kernel/uipc_syscall.c). *)
(*                                                                         *)
(* There are two tables: __file of the library, whose index is the         *)
(* descriptor, and fd_ofiles of the kernel, which knows the sockets only.  *)
(* The kernel gets a descriptor for a socket by calling the library's open *)
(* with /dev/socket, and opening a remote file opens a socket within open. *)
(* Every path through these calls that fails half way has to undo what it  *)
(* did in both tables.                                                     *)
(*                                                                         *)
(* The calls run to their end one at a time, so each is one step; its      *)
(* pieces are operators on the pair of tables t.                           *)
(***************************************************************************)
EXTENDS Integers, FiniteSets, FiniteSetsExt

CONSTANTS
  OpenMax,    \* OPEN_MAX, the length of __file
  NFile,      \* NFILE, the length of fd_ofiles
  NTerm,      \* the descriptors of the console, open from the start
  MaxFiles,   \* maxfiles
  MaxHeld     \* how many files commands keep open at a time

ASSUME FileDescAssumption ==
  /\ OpenMax \in Nat /\ NFile \in Nat /\ NTerm \in Nat
  /\ NTerm <= NFile /\ NFile <= OpenMax
  /\ MaxFiles \in Nat /\ MaxHeld \in Nat

VARIABLES
  tables,     \* __file, fd_ofiles (0 for NULL), fd_nfiles and nfiles
  held,       \* the descriptors commands got from open and socket
  overrun     \* open went past the end of __file

vars == <<tables, held, overrun>>

Fd == 0 .. OpenMax - 1
Kfd == 0 .. NFile - 1
None == -1

\* An entry of __file.  data stands for what the file system hangs there:
\* None, 0 for a block device or a disk file, the descriptor of its socket for
\* a remote file.
Entry(v, f, d) == [valid |-> v, fs |-> f, data |-> d]
Closed == Entry(0, "none", None)

Entries == [valid : {0, 1}, fs : {"none", "termio", "socket", "netio", "local"},
            data : Fd \cup {None}]
Tables  == [file : [Fd -> Entries], ofiles : [Kfd -> {0, 1}],
            fd_nfiles : Nat, nfiles : Nat]

Init ==
  /\ tables = [file   |-> [fd \in Fd |-> IF fd < NTerm THEN Entry(1, "termio", 0)
                                                      ELSE Closed],
               ofiles |-> [fd \in Kfd |-> 0],
               fd_nfiles |-> NTerm,
               nfiles |-> 0]
  /\ held = {}
  /\ overrun = FALSE

-----------------------------------------------------------------------------
(* The pieces.                                                             *)

FreeFds(t) == {fd \in Fd : t.file[fd].valid = 0}

\* The descriptor open takes: the first one that is not valid.
FirstFree(t) == Min(FreeFds(t))

Claim(t, fd) == [t EXCEPT !.file[fd].valid = 1]
Attach(t, fd, f) == [t EXCEPT !.file[fd].fs = f]

\* open fails behind its claim.
Unclaim(t, fd) == [t EXCEPT !.file[fd].valid = 0]

\* open("/dev/socket"), as fdalloc calls it.
FdAlloc(t) == Attach(Claim(t, FirstFree(t)), FirstFree(t), "socket")

\* __open_err
OpenErr(t, fd) == [t EXCEPT !.file[fd] = Entry(0, "none", @.data)]

Failure(t) == [t |-> t, fd |-> None]

\* The kernel has no room for another file.
KernelFull(t) == t.nfiles >= MaxFiles

\* falloc; mem says whether there is memory for a struct file.
FAlloc(t, mem) ==
  LET fd == FirstFree(t)
  IN  IF KernelFull(t) THEN Failure(t)
      ELSE IF fd >= NFile \/ ~mem THEN Failure(OpenErr(FdAlloc(t), fd))
      ELSE [t |-> [FdAlloc(t) EXCEPT !.ofiles[fd] = 1, !.fd_nfiles = @ + 1,
                                     !.nfiles = @ + 1],
            fd |-> fd]

\* ffree
FFree(t, fd) ==
  [t EXCEPT !.ofiles[fd] = 0, !.fd_nfiles = @ - 1, !.nfiles = @ - 1]

\* sys_socket; so says whether socreate succeeds.
SysSocket(t, mem, so) ==
  LET a == FAlloc(t, mem)
  IN  IF a.fd = None \/ so THEN a
      ELSE Failure(OpenErr(FFree(a.t, a.fd), a.fd))

\* close of a socket: sys_close and frelease, then the library's entry, which
\* stays valid when the kernel knows no such file.
CloseSocket(t, fd) ==
  IF fd < NFile /\ t.ofiles[fd] = 1
  THEN [FFree(t, fd) EXCEPT !.file[fd] = Closed]
  ELSE [t EXCEPT !.file[fd].data = None]

\* netio_open and tftp_open for descriptor fd.  mem: memory for both of their
\* records; smem, so: see SysSocket; reply: bind and the first request succeed.
SocketForgotten(t, fd, mem, smem, so, reply) ==
  LET s == SysSocket(t, smem, so)
  IN  IF ~mem THEN Failure(t)
      ELSE IF s.fd = None \/ ~reply THEN Failure(s.t)
      ELSE [t |-> [s.t EXCEPT !.file[fd].data = s.fd], fd |-> fd]
NetioOpen(t, fd, mem, smem, so, reply) ==
  LET s == SysSocket(t, smem, so)
  IN  IF ~mem THEN Failure(t)
      ELSE IF s.fd = None THEN Failure(s.t)
      ELSE IF ~reply THEN Failure(CloseSocket(s.t, s.fd))
      ELSE [t |-> [s.t EXCEPT !.file[fd].data = s.fd], fd |-> fd]

\* tftp_close closes the socket, then netio_release and close clear the entry.
CloseRemote(t, fd) ==
  [CloseSocket(t, t.file[fd].data) EXCEPT !.file[fd] = Closed]

-----------------------------------------------------------------------------
(* The calls of the commands.                                              *)

\* open runs past the end of __file when every entry is valid: the test for
\* it comes after the loop, and lets OPEN_MAX itself through.  (A remote file
\* takes two entries.)  What it finds and damages there is not followed up.
\* Callers that return without closing, as stat does when its ioctl fails and
\* cat when a read fails, get there sooner or later; the ones modelled close.
Overrun ==
  /\ Cardinality(FreeFds(tables)) <= 1
  /\ overrun' = TRUE
  /\ UNCHANGED <<tables, held>>

Room == ~overrun /\ Cardinality(held) < MaxHeld

\* The caller gets fd, or -1.
Give(fd) == held' = held \cup ({fd} \ {None})

Socket(mem, so) ==
  /\ Room /\ FreeFds(tables) # {}
  /\ LET s == SysSocket(tables, mem, so)
     IN  tables' = s.t /\ Give(s.fd)
  /\ UNCHANGED overrun

\* open("tftp://...")
OpenRemote(mem, smem, so, reply) ==
  /\ Room /\ Cardinality(FreeFds(tables)) > 1
  /\ LET fd == FirstFree(tables)
         n == NetioOpen(Claim(tables, fd), fd, mem, smem, so, reply)
     IN  /\ tables' = IF n.fd = None THEN Unclaim(n.t, fd) ELSE Attach(n.t, fd, "netio")
         /\ Give(n.fd)
  /\ UNCHANGED overrun

\* open("/dev/block/...") or open("/dev/fs/..."); ok: no memory is missing and
\* the device and the file exist.
OpenLocal(ok) ==
  /\ Room /\ FreeFds(tables) # {}
  /\ LET fd == FirstFree(tables)
         t == Claim(tables, fd)
     IN  IF ok THEN /\ tables' = [Attach(t, fd, "local") EXCEPT !.file[fd].data = 0]
                    /\ Give(fd)
               ELSE tables' = Unclaim(t, fd) /\ UNCHANGED held
  /\ UNCHANGED overrun

Close(fd) ==
  /\ fd \in held /\ ~overrun
  /\ held' = held \ {fd}
  /\ tables' = CASE tables.file[fd].fs = "socket" -> CloseSocket(tables, fd)
                 [] tables.file[fd].fs = "netio"  -> CloseRemote(tables, fd)
                 [] OTHER -> [tables EXCEPT !.file[fd] = Closed]
  /\ UNCHANGED overrun

Next ==
  \/ \E mem, so \in BOOLEAN : Socket(mem, so)
  \/ \E mem, smem, so, reply \in BOOLEAN : OpenRemote(mem, smem, so, reply)
  \/ \E ok \in BOOLEAN : OpenLocal(ok)
  \/ \E fd \in Fd : Close(fd)
  \/ Overrun

Spec == Init /\ [][Next]_vars

-----------------------------------------------------------------------------
(* Properties.                                                             *)

\* The tables have their types, and no descriptor beyond them is in use.
TypeOK ==
  /\ tables \in Tables /\ tables.nfiles <= MaxFiles
  /\ held \subseteq Fd /\ overrun \in BOOLEAN

Sockets(t) == {fd \in Kfd : t.ofiles[fd] = 1}

\* The sockets of remote files.
Inner(t) == {t.file[fd].data : fd \in {x \in Fd : t.file[x].valid = 1 /\ t.file[x].fs = "netio"}}

\* An open kernel file has a descriptor that leads to it, and the other way
\* round.
TablesAgree ==
  /\ \A fd \in Kfd : tables.ofiles[fd] = 1 <=>
       (tables.file[fd].valid = 1 /\ tables.file[fd].fs = "socket")
  /\ \A fd \in Fd : tables.file[fd].fs = "socket" => fd \in Kfd

\* Every entry in use belongs to the console, to a command, or is the socket of
\* a remote file that does, and no socket belongs to two.
NoOrphans ==
  /\ \A fd \in Fd : tables.file[fd].valid = 1 <=> fd < NTerm \/ fd \in held \cup Inner(tables)
  /\ held \cap Inner(tables) = {}
  /\ \A x, y \in held : (tables.file[x].fs = "netio" /\ tables.file[y].fs = "netio"
                         /\ tables.file[x].data = tables.file[y].data) => x = y

\* The counters follow the table on every path.
Counted ==
  /\ tables.nfiles = Cardinality(Sockets(tables))
  /\ tables.fd_nfiles = NTerm + tables.nfiles

\* Whichever step of socket, open or close fails half way, the kernel's table
\* and the library's never disagree, no descriptor and no socket is lost or has
\* two owners, and nfiles and fd_nfiles follow the tables.
Descriptors == TablesAgree /\ NoOrphans /\ Counted

\* What makes the above inductive: a free entry is blank, so that undoing a
\* claim restores the tables exactly; the console's entries and the commands'
\* are told apart; a remote file's socket is open and is nobody's descriptor.
Blank == \A fd \in Fd : tables.file[fd].valid = 1 \/ tables.file[fd] = Closed
Console == \A fd \in Fd : fd < NTerm => tables.file[fd].fs = "termio"
Holding ==
  /\ \A fd \in held : fd >= NTerm
  /\ \A fd \in Fd : tables.file[fd].fs = "netio" =>
       fd \in held /\ tables.file[fd].data \in Sockets(tables) \ held
  /\ \A fd \in held : tables.file[fd].fs \in {"socket", "netio", "local"}

IInv == TypeOK /\ TablesAgree /\ NoOrphans /\ Counted /\ Blank /\ Console /\ Holding
=============================================================================
