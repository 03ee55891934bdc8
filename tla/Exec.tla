------------------------------- MODULE Exec ---------------------------------
(***************************************************************************)
(* Programs and kernels: the load command with exec/loader.c and           *)
(* elf_load.c, the go and boot commands, and the saved registers of        *)
(* arch/mips/mipsdep.c that they leave to each other.  Memory is cells; a  *)
(* pointer and a character take one, a register RegCells.  The loaders for *)
(* the two word sizes are the same but for the types of their fields.      *)
(***************************************************************************)
EXTENDS Integers, Sequences, FiniteSets

CONSTANTS
  MemSize,           \* the memory modelled
  HeapBase, HeapTop, \* HEAP_BASE and what is behind the heap
  Align, RegCells,
  Files,             \* the files there are, see Load
  Stack,             \* the stack pointer the machine starts with
  Stacks, EntryPoints,   \* what the user may give as -s and -e; 0 is none
  ArgLists,          \* the command lines: sequences of words
  GoArgs,            \* the entries of cmdargvec
  EnvLen,            \* sizeof(struct boot_params)
  MaxSteps           \* a bound on the commands

Addr == 0 .. MemSize - 1
ASSUME ExecAssumption ==
  /\ HeapBase \in Addr /\ HeapTop \in HeapBase .. MemSize
  /\ Align \in Nat \ {0} /\ (4 * RegCells) % Align = 0
  /\ \A s \in Stacks \cup {Stack} : s % Align = 0
  \* Nothing checks the second.
  /\ \A f \in Files : \A i \in DOMAIN f.ph :
       f.ph[i].vaddr + f.ph[i].memsz <= MemSize /\ f.ph[i].filesz <= f.ph[i].memsz

VARIABLES
  mem,     \* the memory
  epc, sp, \* cpuframe's epc and sp
  a,       \* its a0, a1 and a2
  mode,    \* who runs: the shell, a client, a kernel, or a shell whose stack is overwritten
  cmd,     \* the last command and what became of it
  top      \* the stack pointer before the last go or boot

execvars == <<mem, epc, sp, a, mode, cmd, top>>

Old  == <<"old">>
Zero == <<"zero">>
Byte(f, o) == <<"file", f.id, o>>
Char(c) == <<"char", c>>
Ptr(p) == <<"ptr", p>>
Param(o) == <<"param", o>>

ExecInit ==
  /\ mem = [x \in Addr |-> Old] /\ epc = 0 /\ sp = Stack /\ a = <<0, 0, 0>>
  /\ mode = "shell" /\ cmd = [n |-> 0, op |-> "none"] /\ top = Stack

-----------------------------------------------------------------------------
(* Loading.                                                                *)

\* md_setpc and md_setstack: 0 leaves the register as it is.
SetReg(r, v) == IF v = 0 THEN r ELSE v

Loadable(ph) == {i \in DOMAIN ph : ph[i].load}

\* The segment that lies first in the file among those that are left, and among
\* equals the first in the table.
highest(ph, left) == CHOOSE i \in left : \A j \in left : ph[i].off >= ph[j].off
lowest(ph, left) ==
  CHOOSE i \in left : \A j \in left : ph[i].off < ph[j].off \/ (ph[i].off = ph[j].off /\ i <= j)

\* md_on_heap_space and md_load_addr_isvalid: the first cell and the one behind
\* the segment are looked at.
OnHeap(x) == x \in HeapBase .. HeapTop - 1
md_load_addr_isvalid(start, end) == ~OnHeap(start) /\ ~OnHeap(end)
chkloadaddr(seg) == md_load_addr_isvalid(seg.vaddr, seg.vaddr + seg.memsz)

\* __elf_loadseg2mem: n bytes of the segment are read, of those the file has; a
\* file that is too short is noticed afterwards, like a read that failed.
Has(f, seg) == IF f.size <= seg.off THEN 0 ELSE IF f.size - seg.off < seg.filesz THEN f.size - seg.off ELSE seg.filesz
loadseg2mem(m, f, seg, n) ==
  [x \in Addr |-> LET k == x - seg.vaddr IN IF k \in 0 .. Has(f, seg) - 1 /\ k < n THEN Byte(f, seg.off + k) ELSE m[x]]

\* __elf_clearseg
clearseg(m, seg) == [x \in Addr |-> IF x - seg.vaddr \in seg.filesz .. seg.memsz - 1 THEN Zero ELSE m[x]]

\* A turn of the loop.  The read of segment bad fails after got bytes; 0 is none.
LoadSeg(f, bad, got, s) ==
  LET i   == lowest(f.ph, s.left)
      seg == f.ph[i]
  IN  IF s.left = {} \/ ~s.ok THEN s
      ELSE IF seg.filesz = 0 THEN [s EXCEPT !.left = @ \ {i}]
      ELSE IF ~chkloadaddr(seg) THEN [s EXCEPT !.ok = FALSE]
      ELSE IF i = bad \/ Has(f, seg) < seg.filesz
      THEN [s EXCEPT !.ok = FALSE, !.mem = loadseg2mem(@, f, seg, IF i = bad THEN got ELSE seg.filesz)]
      ELSE [s EXCEPT !.left = @ \ {i}, !.mem = clearseg(loadseg2mem(@, f, seg, seg.filesz), seg)]

\* __elf32_loader and __elf64_loader: nothing is written when the headers are
\* not right, cannot be read or there is no memory for them.
load_segments(f, room, bad, got) ==
  LET start == [mem |-> mem, left |-> Loadable(f.ph), ok |-> room /\ f.executable /\ f.header /\ f.table]
      done[n \in 0 .. Len(f.ph)] == IF n = 0 THEN start ELSE LoadSeg(f, bad, got, done[n - 1])
  IN  done[Len(f.ph)]

\* __check_elf_ident
check_elf_ident(id) ==
  CASE ~id.magic -> "noelf"
    [] id.magic /\ (~id.lsb \/ ~id.current) -> "badelf"
    [] id.magic /\ id.lsb /\ id.current -> IF id.class \in {"elf32", "elf64"} THEN id.class ELSE "badelf"

\* elf_loader: a file that cannot be read from its start is in no format, one
\* too short for the identification is refused like one with a bad one.
elf_loader(f, room, bad, got) ==
  LET fmt == check_elf_ident(f.ident)
      r   == load_segments(f, room, bad, got)
  IN  IF ~f.seeks \/ (~f.short /\ fmt = "noelf") THEN [res |-> "badfmt", mem |-> mem]
      ELSE IF f.short \/ fmt = "badelf" THEN [res |-> "loaderr", mem |-> mem]
      ELSE [res |-> IF r.ok THEN "success" ELSE "loaderr", mem |-> r.mem]

\* load_exec over the one format that is registered: no entry is 0, and so is
\* an entry of 0.
load_exec(f, r) == IF r.res = "success" THEN f.entry ELSE 0

\* cmd_load: the entry point is kept for go and boot.
Load(f, room, bad, got) ==
  LET r     == elf_loader(f, room, bad, got)
      entry == load_exec(f, r)
  IN  /\ mode = "shell" /\ cmd.n < MaxSteps
      /\ mem' = r.mem
      /\ epc' = SetReg(epc, entry)
      /\ cmd' = [n |-> cmd.n + 1, op |-> "load", file |-> f, ok |-> entry # 0]
      /\ UNCHANGED <<sp, a, mode, top>>

-----------------------------------------------------------------------------
(* Starting.                                                               *)

Round(n) == ((n + Align - 1) \div Align) * Align
StrLenBare(av) == LET l[i \in 0 .. Len(av)] == IF i = 0 THEN 0 ELSE l[i - 1] + Len(av[i]) IN l[Len(av)]
StrLen(av) == LET l[i \in 0 .. Len(av)] == IF i = 0 THEN 0 ELSE l[i - 1] + Len(av[i]) + 1 IN l[Len(av)]
VecLen(av) == Round(Len(av) + 1)

\* The words and the vector of pointers to them on the stack, with some room
\* behind them; the four registers of the call below are cleared.
BlockLen(av, extra) == Round(Round(StrLen(av)) + VecLen(av) + extra)
Bottom(s, av, extra) == s - BlockLen(av, extra)
WordAt(b, av, i) == b + VecLen(av) + StrLen(SubSeq(av, 1, i - 1))
Pushed(b, av) ==
  LET word(x) == {i \in 1 .. Len(av) : x - WordAt(b, av, i) \in 0 .. Len(av[i])}
      text(x, i) == LET k == x - WordAt(b, av, i) IN IF k = Len(av[i]) THEN Zero ELSE Char(av[i][k + 1])
  IN  [x \in Addr |->
         IF x - b \in 0 .. Len(av) - 1 THEN Ptr(WordAt(b, av, x - b + 1))
         ELSE IF x = b + Len(av) THEN Zero
         ELSE IF x - b \in - 4 * RegCells .. -1 THEN Zero
         ELSE IF word(x) # {} THEN text(x, CHOOSE i \in word(x) : TRUE)
         ELSE mem[x]]

\* md_setargs
md_setargs(a0, a1, a2) == a' = <<a0, a1, a2>>

\* cmd_go.  The options are acted on as they are read, before one that is refused
\* (bad).  Nothing counts the words put into cmdargvec.  The pointer handed over
\* has walked along the vector: it is the one to its end.
cmd_go(e, s, bad, av) ==
  LET p == SetReg(epc, e)
      t == SetReg(sp, s)
      b == Bottom(t, av, 0)
      run(op) == cmd' = [n |-> cmd.n + 1, op |-> op, av |-> av]
  IN  /\ mode = "shell" /\ cmd.n < MaxSteps
      /\ b - 4 * RegCells \in Addr        \* the stack is in the memory modelled
      /\ epc' = p
      /\ \/ (bad \/ p = 0) /\ sp' = t /\ run("refused") /\ UNCHANGED <<mem, a, mode, top>>
         \/ /\ ~bad /\ p # 0 /\ Len(av) > GoArgs
            /\ sp' = t /\ run("go") /\ mode' = "astray" /\ UNCHANGED <<mem, a, top>>
         \/ /\ ~bad /\ p # 0 /\ Len(av) <= GoArgs
            /\ mem' = Pushed(b, av) /\ sp' = b - 4 * RegCells
            /\ md_setargs(Len(av), b + Len(av), 0)
            /\ mode' = "client" /\ run("go") /\ top' = t

\* __exit: the client returns to the shell, which keeps the registers as go
\* set them.
Exit == mode = "client" /\ mode' = "shell" /\ UNCHANGED <<mem, epc, sp, a, cmd, top>>

\* init_machine_kernel_env: what it says of its length, and what it writes there.
EnvAt(m, x) == [y \in Addr |-> IF y - x \in 0 .. EnvLen - 1 THEN Param(y - x) ELSE m[y]]

\* cmd_boot.  The kernel never returns.
cmd_boot(av) ==
  LET env == Round(EnvLen)
      b   == Bottom(sp, av, env)
  IN  /\ mode = "shell" /\ cmd.n < MaxSteps
      /\ b - 4 * RegCells \in Addr
      /\ IF epc = 0 THEN cmd' = [n |-> cmd.n + 1, op |-> "refused"] /\ UNCHANGED <<mem, sp, a, mode, top>>
         ELSE /\ mem' = EnvAt(Pushed(b, av), b + VecLen(av) + Round(StrLen(av)))
              /\ sp' = b - 4 * RegCells
              /\ md_setargs(Len(av), b, b + VecLen(av) + Round(StrLen(av)))
              /\ mode' = "kernel" /\ cmd' = [n |-> cmd.n + 1, op |-> "boot", av |-> av] /\ top' = sp
      /\ UNCHANGED epc

ExecNext ==
  \/ \E f \in Files, room \in BOOLEAN : \E bad \in 0 .. Len(f.ph) :
       \E got \in IF bad = 0 THEN {0} ELSE 0 .. f.ph[bad].filesz : Load(f, room, bad, got)
  \/ \E e \in EntryPoints, s \in Stacks, bad \in BOOLEAN, av \in ArgLists : cmd_go(e, s, bad, av)
  \/ Exit
  \/ \E av \in ArgLists : cmd_boot(av)

-----------------------------------------------------------------------------
(* Properties.                                                             *)

\* What a file says about a cell of the memory: of the segments that cover it,
\* the one that lies last in the file decides.
Covering(f, x) == {i \in Loadable(f.ph) : x - f.ph[i].vaddr \in 0 .. f.ph[i].memsz - 1}
Image(f, x) ==
  LET i   == CHOOSE i \in Covering(f, x) : \A j \in Covering(f, x) :
               f.ph[i].off > f.ph[j].off \/ (f.ph[i].off = f.ph[j].off /\ i >= j)
      seg == f.ph[i]
  IN  IF x - seg.vaddr < seg.filesz THEN Byte(f, seg.off + x - seg.vaddr) ELSE Zero
OnlyCleared(f, x) == \E i \in Covering(f, x) : f.ph[i].filesz = 0

\* A load that succeeds leaves the image the file describes, in every cell that
\* no segment without bytes in the file lays claim to (both loaders pass over
\* those, elf_load.c:528 and 649, against the comment at 387), and its entry;
\* one that fails, wherever it does, leaves the entry of before, though perhaps
\* over a mixture of two programs.  Neither writes outside the segments or,
\* unless a segment spans all of it, to the heap, where the loader's own headers
\* lie: elf_loader, load_exec, cmd_load.
LoadRight ==
  [][cmd'.n # cmd.n /\ cmd'.op = "load" =>
       LET f == cmd'.file
       IN  /\ epc' = IF cmd'.ok THEN f.entry ELSE epc
           /\ \A x \in Addr : IF Covering(f, x) = {} THEN mem'[x] = mem[x]
                              ELSE cmd'.ok => OnlyCleared(f, x) \/ mem'[x] = Image(f, x)
           /\ (\A i \in DOMAIN f.ph : f.ph[i].memsz <= HeapTop - HeapBase) =>
                \A x \in HeapBase .. HeapTop - 1 : mem'[x] = mem[x]]_execvars

\* A program starts with its words on the stack: behind the cleared registers
\* of the call a vector of pointers, one for each word in its order, that a
\* null ends, and behind it the words; a kernel is given the vector and, behind
\* the words, its whole environment, aligned; nothing lies above the stack
\* of before: cmd_go and cmd_boot.  (What a program is given is in VectorGiven.)
ArgsRight ==
  mode \in {"client", "kernel"} =>
    LET v  == sp + 4 * RegCells
        av == cmd.av
        at(x, w) == \A k \in 0 .. Len(w) : mem[x + k] = IF k = Len(w) THEN Zero ELSE Char(w[k + 1])
        end(i) == mem[v + i - 1][2] + Len(av[i])
    IN  /\ a[1] = Len(av) /\ sp % Align = 0
        /\ \A i \in 1 .. Len(av) : mem[v + i - 1][1] = "ptr" /\ at(mem[v + i - 1][2], av[i]) /\ end(i) < top
        /\ mem[v + Len(av)] = Zero
        /\ \A x \in sp .. v - 1 : mem[x] = Zero
        /\ mode = "kernel" =>
             /\ a[2] = v
             /\ a[3] % Align = 0 /\ a[3] + EnvLen <= top
             /\ \A k \in 0 .. EnvLen - 1 : mem[a[3] + k] = Param(k)

\* The comment at cmd_go.c:105: "arg1=argvec".  What go hands over is the null at
\* the end of the vector.
VectorGiven == mode \in {"client", "kernel"} => a[2] = sp + 4 * RegCells
=============================================================================
