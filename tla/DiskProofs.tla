----------------------------- MODULE DiskProofs -----------------------------
(***************************************************************************)
(* For a disk and blocks of any size, any limit on a command and on a      *)
(* transfer, and reads and writes of any length, every transfer is right   *)
(* until the driver gives up on a command that the controller is still to  *)
(* do (overdue).                                                           *)
(*                                                                         *)
(* DiskInv is the inductive invariant.  Settled: the controller works only *)
(* while the driver waits.  Placed: where a call, its piece and the        *)
(* command in the slot stand on the disk and in memory.  Holds: what the   *)
(* caller's buffer, llbuf and the disk have of the piece already.          *)
(***************************************************************************)
EXTENDS Disk, Sums

-----------------------------------------------------------------------------
(* The inductive invariant.                                                *)

Cmd == [op : {"none", "nodata", "read", "write"}, blk : Nat, cnt : Nat,
        to : {"none", "ll", "user"}, off : Nat, len : Int]

BfOK == /\ bf \in [open : BOOLEAN, mode : {"none", "read", "write", "both"}, offs : Nat]
        /\ bf.offs <= End
CallSet == [who : {"none", "file", "ata"}, is_w : BOOLEAN, start : Nat, nb : Nat,
            resid : Nat, step : {"none", "fetch", "store", "direct"}, n : Nat,
            blk : Nat, remain : Nat, blks : Nat, off : Nat, res : {"none", "ok", "err"}]
CallOK == call \in CallSet
PortOK == /\ slot \in [cmd : Cmd, prdbc : Nat] /\ ci \in BOOLEAN
          /\ hw \in [st : {"idle", "busy", "halted"}, cmd : Cmd, done : Nat, lost : BOOLEAN]
MemOK == /\ DOMAIN user = 1 .. call.nb
         /\ llbuf = <<>> \/ DOMAIN llbuf = 1 .. BlkSz
CtlOK == /\ att \in {"hba", "port", "id", "mode", "srst", "srst2", "yes", "failed"}
         /\ pc \in {"attach", "idle", "wait", "loop", "ata", "done"}

Typed == BfOK /\ CallOK /\ PortOK /\ MemOK /\ CtlOK

\* The controller works only while the driver waits for it, and a command that
\* failed keeps its bit set.
Settled ==
  /\ hw.st = "busy" => ci /\ pc = "wait" /\ ~hw.lost
  /\ ci /\ hw.st = "idle" => pc = "wait"
  /\ overdue = FALSE

\* A piece of a call is being moved.
Busy == pc = "ata" \/ (pc = "wait" /\ att = "yes")

\* The command AtaIssue wrote for the piece, and that of the attachment.
Issued == [op  |-> IF Writes THEN "write" ELSE "read",
           blk |-> call.blk, cnt |-> CountField(call.blks),
           to  |-> IF InLl THEN "ll" ELSE "user",
           off |-> call.off, len |-> PrdBytes(call.blks * BlkSz)]
NoData == [NoCmd EXCEPT !.op = "nodata"]

\* Where the blocks of the piece end in the caller's buffer.
Goal == IF call.who = "file" THEN Filled + call.n ELSE call.nb

\* Which steps belong to which kind of call.
Stage ==
  /\ att # "yes" => call = NoCall /\ pc \in {"attach", "wait", "idle"}
  /\ (pc = "attach") => att \in {"hba", "port", "id", "mode", "srst", "srst2"}
  /\ att \in {"hba", "port"} => pc = "attach" /\ ~ci
  /\ pc = "idle" => call = NoCall
  /\ pc = "loop" => call.who = "file"
  /\ Busy => call.who # "none" /\ call.step # "none"
  /\ call.who = "ata" => call.step = "direct"
  /\ bf.open => att = "yes"

\* Where a call on a file stands.
FilePlaced ==
  call.who = "file" =>
    /\ call.start <= bf.offs /\ bf.offs + call.resid = call.start + call.nb
    /\ call.start + call.nb <= End

\* Where the piece stands: whole blocks of the caller's buffer, or a block in llbuf.
DirectPlaced ==
  (Busy /\ call.step = "direct") =>
    /\ call.blk * BlkSz = call.start + call.off
    /\ call.off + call.remain * BlkSz = Goal
    /\ call.who = "file" => call.n <= call.resid
PartPlaced ==
  (Busy /\ InLl) =>
    /\ call.who = "file" /\ (call.step = "store" => call.is_w)
    /\ call.remain \in 0 .. 1 /\ call.blk + call.remain = bf.offs \div BlkSz + 1
    /\ call.remain = 1 => call.off = 0
    /\ call.n <= call.resid /\ SubOffs + call.n <= BlkSz
    /\ DOMAIN llbuf = 1 .. BlkSz

\* The command in the slot is the one the driver waits for.
CmdPlaced ==
  /\ (pc = "wait" /\ att = "yes") => /\ call.blks \in 1 .. call.remain
                                     /\ call.blks <= MaxBlks
  /\ (pc = "wait" /\ ci) => slot.cmd = IF att = "yes" THEN Issued ELSE NoData
  /\ hw.st = "busy" => hw.cmd = slot.cmd /\ (att = "yes" => hw.done <= call.blks)

\* How many blocks of the command are there for certain.
Prog == IF pc # "wait" THEN 0
        ELSE IF ~ci THEN call.blks
        ELSE IF hw.st = "busy" THEN hw.done ELSE 0

\* What is in the caller's buffer, or on the disk, of a piece of whole blocks.
DirectHolds ==
  (Busy /\ call.step = "direct") =>
    \A x \in Pos : (x >= call.start /\ x < call.start + call.off + Prog * BlkSz) =>
      user[x - call.start + 1] = disk[x]

\* What llbuf has of its block, and the disk of what llbuf has.
InPiece(i) == i > SubOffs /\ i <= SubOffs + call.n
Block(i) == bf.offs - SubOffs + i - 1
FetchHolds ==
  (Busy /\ call.step = "fetch" /\ (call.remain = 0 \/ Prog > 0)) =>
    \A i \in 1 .. BlkSz : llbuf[i] = disk[Block(i)]
StoreHolds ==
  (Busy /\ call.step = "store") =>
    \A i \in 1 .. BlkSz :
      /\ llbuf[i] = IF InPiece(i) THEN user[Filled + i - SubOffs] ELSE disk[Block(i)]
      /\ InPiece(i) /\ (call.remain = 0 \/ Prog > 0) => disk[Block(i)] = llbuf[i]

Placed == Stage /\ FilePlaced /\ DirectPlaced /\ PartPlaced /\ CmdPlaced
Holds == DirectHolds /\ FetchHolds /\ StoreHolds /\ MovedRight

DiskInv == Typed /\ Settled /\ Placed /\ Holds
-----------------------------------------------------------------------------
(* Arithmetic.                                                             *)

\* The sizes are numbers.
LEMMA Sizes ==
  /\ BlkSz \in Nat \ {0} /\ NBlk \in Nat \ {0} /\ MaxPrd \in Nat \ {0}
  /\ MaxIo \in Nat \ {0} /\ MaxIo % BlkSz = 0
  /\ MaxBlks \in Nat \ {0} /\ CntMod \in Nat \ {0} /\ MaxBlks <= CntMod
  /\ End \in Nat
BY DiskAssumption DEF End

\* Multiples of the block size.
LEMMA Blocks ==
  ASSUME NEW a \in Int, NEW b \in Int
  PROVE  /\ a * BlkSz \in Int /\ (a + b) * BlkSz = a * BlkSz + b * BlkSz
         /\ a <= b => a * BlkSz <= b * BlkSz
         /\ 0 * BlkSz = 0 /\ 1 * BlkSz = BlkSz
<1> DEFINE s == BlkSz
<1>1. s \in Nat
  BY Sizes
<1> HIDE DEF s
<1>2. a * s \in Int /\ (a + b) * s = a * s + b * s /\ 0 * s = 0 /\ 1 * s = s
  BY <1>1, SMT
<1>3. a <= b => a * s <= b * s
  BY <1>1, SMT
<1> QED  BY <1>2, <1>3 DEF s

\* The block a byte lies in, and where in it.
LEMMA InBlock ==
  ASSUME NEW a \in Nat
  PROVE  /\ a % BlkSz \in 0 .. BlkSz - 1 /\ a \div BlkSz \in Nat
         /\ a = (a \div BlkSz) * BlkSz + (a % BlkSz)
<1> DEFINE s == BlkSz
<1>1. s \in Nat \ {0}
  BY Sizes
<1> HIDE DEF s
<1>2. a % s \in 0 .. s - 1 /\ a \div s \in Int /\ a = s * (a \div s) + (a % s)
  BY <1>1, SMT
<1>3. PICK q, r : q = a \div s /\ r = a % s
  OBVIOUS
<1>4. q \in Int /\ r \in 0 .. s - 1 /\ a = s * q + r
  BY <1>2, <1>3
<1>5. s * q = q * s /\ q * s \in Int /\ (q <= -1 => q * s <= (-1) * s) /\ (-1) * s = -s
  BY <1>1, <1>4, SMT
<1>6. q \in Nat
  BY <1>1, <1>4, <1>5
<1>7. a = q * s + r
  BY <1>4, <1>5
<1>8. a % s \in 0 .. s - 1 /\ a \div s \in Nat /\ a = (a \div s) * s + (a % s)
  BY ONLY <1>3, <1>4, <1>6, <1>7, Zenon
<1> QED  BY <1>8 DEF s

\* A number of whole blocks is divided without rest.
LEMMA WholeDiv ==
  ASSUME NEW a \in Nat, a % BlkSz = 0
  PROVE  a \div BlkSz \in Nat /\ (a \div BlkSz) * BlkSz = a
<1> DEFINE q == a \div BlkSz
<1>1. q \in Nat /\ a = q * BlkSz + (a % BlkSz)
  BY InBlock
<1> HIDE DEF q
<1>2. q * BlkSz \in Int
  BY <1>1, Blocks
<1>3. q \in Nat /\ q * BlkSz = a
  BY <1>1, <1>2
<1> QED  BY <1>3 DEF q

\* A multiple of the block size has no rest.
LEMMA BlockMod ==
  ASSUME NEW q \in Nat
  PROVE  (q * BlkSz) % BlkSz = 0 /\ (q * BlkSz) \div BlkSz = q
<1> DEFINE a == q * BlkSz
           p == a \div BlkSz
           r == a % BlkSz
           d == q - p
<1>1. a \in Nat /\ BlkSz \in Nat \ {0}
  <2>1. BlkSz \in Nat \ {0}
    BY Sizes
  <2>2. q * BlkSz \in Int /\ 0 * BlkSz <= q * BlkSz /\ 0 * BlkSz = 0
    BY Blocks
  <2> QED  BY <2>1, <2>2
<1>2. p \in Nat /\ r \in 0 .. BlkSz - 1 /\ a = p * BlkSz + r
  BY <1>1, InBlock
<1> HIDE DEF p, r
<1>0. d \in Int /\ p + d = q /\ p \in Int
  BY <1>2
<1> HIDE DEF d
<1>3. (p + d) * BlkSz = p * BlkSz + d * BlkSz /\ p * BlkSz \in Int /\ d * BlkSz \in Int
  BY <1>0, Blocks
<1>4. d * BlkSz = r
  <2>1. q * BlkSz = p * BlkSz + d * BlkSz
    BY ONLY <1>0, <1>3, Zenon
  <2> DEFINE u == p * BlkSz  v == d * BlkSz  w == q * BlkSz
  <2>2. w = u + v /\ w = u + r /\ u \in Int /\ v \in Int /\ r \in Int
    BY <1>2, <1>3, <2>1
  <2> HIDE DEF u, v, w
  <2>3. v = r
    BY <2>2
  <2> QED  BY <2>3 DEF v
<1>5. d = 0
  <2>1. /\ 1 <= d => 1 * BlkSz <= d * BlkSz
        /\ d <= -1 => d * BlkSz <= (-1) * BlkSz
        /\ 1 * BlkSz = BlkSz /\ (-1) * BlkSz \in Int
    BY <1>0, Blocks
  <2>2. ((-1) + 1) * BlkSz = (-1) * BlkSz + 1 * BlkSz /\ 0 * BlkSz = 0
    BY Blocks
  <2>3. (-1) * BlkSz = -BlkSz
    BY <1>1, <2>1, <2>2
  <2> QED  BY <1>0, <1>1, <1>2, <1>4, <2>1, <2>3
<1>6. p = q /\ r = 0
  <2>1. d * BlkSz = 0
    BY <1>5, Blocks
  <2> QED  BY <1>0, <1>2, <1>4, <1>5, <2>1
<1> QED  BY <1>6 DEF p, r

\* The descriptors of a buffer have a length.
LEMMA PrdInt == ASSUME NEW n \in Int  PROVE PrdBytes(n) \in Int
<1> DEFINE c == PrdCnt(n)
           p == Prd(n)
<1>1. c \in Int /\ MaxPrd \in Int
  BY Sizes DEF PrdCnt
<1> HIDE DEF c
<1>2. p = [i \in 1 .. c |-> MinOf(n - (i - 1) * MaxPrd, MaxPrd)]
  BY DEF Prd, c
<1>3. \A i \in 1 .. c : p[i] \in Int
  <2> TAKE i \in 1 .. c
  <2>1. (i - 1) * MaxPrd \in Int
    BY <1>1, SMT
  <2> QED  BY <1>1, <1>2, <2>1 DEF MinOf
<1>4. IsFiniteSet(1 .. c) /\ DOMAIN p = 1 .. c
  BY <1>1, <1>2, FS_Interval
<1> HIDE DEF p
<1>5. SumFunctionOnSet(p, 1 .. c) \in Int
  BY <1>3, <1>4, SumInt
<1> QED  BY <1>4, <1>5 DEF PrdBytes, p

\* The command of a piece is a command, and its count is that of the piece.
LEMMA IssuedOK ==
  ASSUME CallOK, call.blks \in 1 .. MaxBlks
  PROVE  Issued \in Cmd /\ Count(Issued) = call.blks
<1>1. call.blks \in Nat /\ call.blks * BlkSz \in Int
  BY Blocks DEF CallOK, CallSet
<1>2. PrdBytes(call.blks * BlkSz) \in Int
  BY <1>1, PrdInt
<1>3. /\ CountField(call.blks) \in Nat
      /\ CountField(call.blks) = 0 => call.blks = CntMod
      /\ CountField(call.blks) # 0 => CountField(call.blks) = call.blks
  <2>1. CASE call.blks = CntMod
    <3>1. CntMod % CntMod = 0
      BY Sizes, SMT
    <3> QED  BY <2>1, <3>1 DEF CountField
  <2>2. CASE call.blks < CntMod
    <3>1. call.blks % CntMod = call.blks
      BY <1>1, <2>2, Sizes, SMT
    <3> QED  BY <1>1, <3>1 DEF CountField
  <2> QED  BY <1>1, <2>1, <2>2, Sizes
<1>4. call.blk \in Nat /\ call.off \in Nat
  BY DEF CallOK, CallSet
<1>5. Issued \in Cmd
  BY <1>2, <1>3, <1>4 DEF Issued, Cmd
<1>6. Issued.op \in {"read", "write"} /\ Issued.cnt = CountField(call.blks)
  BY DEF Issued
<1> QED  BY <1>3, <1>5, <1>6 DEF Count
-----------------------------------------------------------------------------
(* Steps that move no data.                                                *)

\* What the memory and the disk hold of a call depends on these alone.
Core == <<call.who, call.is_w, call.start, call.nb, call.step, call.n, call.remain, call.off,
          call.res>>

\* Nothing moves: what was held is still held, as long as no more is claimed.
LEMMA StillTransfers ==
  ASSUME MovedRight, UNCHANGED <<disk, user, before, bf>>,
         UNCHANGED <<call.who, call.is_w, call.start, call.nb, call.res>>
  PROVE  MovedRight'
<1>1. Upto' = Upto
  BY DEF Upto
<1> QED  BY <1>1 DEF MovedRight, ReadRight, WriteExact

LEMMA QuietHolds ==
  ASSUME Holds, UNCHANGED <<disk, user, before, bf, Core>>, ~Busy'
  PROVE  Holds'
<1>1. MovedRight'
  BY StillTransfers DEF Holds, Core
<1> QED  BY <1>1 DEF Holds, DirectHolds, FetchHolds, StoreHolds

LEMMA StillHolds ==
  ASSUME Holds, CallOK, UNCHANGED <<disk, user, before, bf, llbuf, Core>>,
         Busy' => Busy, Prog \in Nat, Prog' \in Nat, Prog' <= Prog
  PROVE  Holds'
<1>1. MovedRight'
  BY StillTransfers DEF Holds, Core
<1>2. UNCHANGED <<call.start, call.step, call.n, call.remain, call.off>>
  BY DEF Core
<1>3. SubOffs' = SubOffs /\ Filled' = Filled
  BY <1>2 DEF SubOffs, Filled
<1>4. DirectHolds'
  <2> SUFFICES ASSUME Busy', call.step' = "direct", NEW x \in Pos, x >= call.start,
                      x < (call.start + call.off + Prog * BlkSz)'
               PROVE  user[x - call.start + 1] = disk[x]
    BY <1>2 DEF DirectHolds
  <2> DEFINE p == Prog * BlkSz
             q == Prog' * BlkSz
  <2>0. Prog \in Int /\ Prog' \in Int
    OBVIOUS
  <2>1. p \in Int /\ q \in Int /\ q <= p
    BY <2>0, Blocks, Zenon
  <2>2. call.start \in Nat /\ call.off \in Nat /\ x \in Int
    BY DEF CallOK, CallSet, Pos
  <2>3. x < call.start + call.off + q
    BY <1>2
  <2> HIDE DEF p, q
  <2>4. x < call.start + call.off + p
    BY <2>1, <2>2, <2>3
  <2> QED  BY <1>2, <2>4 DEF Holds, DirectHolds, p
<1>5. FetchHolds'
  BY <1>2, <1>3 DEF Holds, FetchHolds, Block
<1>6. StoreHolds'
  BY <1>2, <1>3 DEF Holds, StoreHolds, Block, InPiece
<1> QED  BY <1>1, <1>4, <1>5, <1>6 DEF Holds

\* Where a call stands depends on the driver alone.
LEMMA StillPlaced ==
  ASSUME Placed, UNCHANGED <<call, bf, llbuf>>, Busy' <=> Busy
  PROVE  FilePlaced' /\ DirectPlaced' /\ PartPlaced'
<1>1. SubOffs' = SubOffs /\ Filled' = Filled /\ InLl' = InLl
  BY DEF SubOffs, Filled, InLl
<1>2. Goal' = Goal
  BY <1>1 DEF Goal
<1> QED  BY <1>1, <1>2 DEF Placed, FilePlaced, DirectPlaced, PartPlaced

LEMMA QuietPlaced ==
  ASSUME ~Busy'
  PROVE  DirectPlaced' /\ PartPlaced'
BY DEF DirectPlaced, PartPlaced

\* The parts of the attachment at which the disk is not there yet.
LEMMA AttachSteps ==
  ASSUME DiskInv, HbaReset \/ InitPort \/ AttachIssue \/ AttachNext \/ AttachFails
  PROVE  DiskInv'
<1>1. /\ UNCHANGED <<disk, bf, call, user, llbuf, before, overdue>>
      /\ att \in {"hba", "port", "id", "mode", "srst", "srst2"}
  BY DEF HbaReset, InitPort, AttachIssue, AttachNext, AttachFails, NotAttached, AttachStep, Issue,
     KickEngine
<1>2. /\ call = NoCall /\ pc \in {"attach", "wait", "idle"}
      /\ att \in {"hba", "port"} => pc = "attach" /\ ~ci
      /\ hw.st = "busy" => ci /\ pc = "wait" /\ ~hw.lost /\ hw.cmd = slot.cmd
      /\ ci /\ hw.st = "idle" => pc = "wait"
      /\ (pc = "wait" /\ ci) => slot.cmd = NoData
  BY <1>1 DEF DiskInv, Placed, Stage, Settled, CmdPlaced
<1>3. NoWork \in [st : {"idle", "busy", "halted"}, cmd : Cmd, done : Nat, lost : BOOLEAN] /\ NoData \in Cmd
      /\ NoWork.st = "idle" /\ NoWork.lost = FALSE /\ NoCmd \in Cmd
  BY DEF NoWork, NoData, NoCmd, Cmd
<1> DEFINE A == att'  P == pc'
<1>4. /\ slot' \in [cmd : Cmd, prdbc : Nat] /\ ci' \in BOOLEAN
      /\ hw' = hw \/ hw' = NoWork
      /\ A \in {"port", "id", "mode", "srst", "srst2", "yes", "failed"}
      /\ P \in {"attach", "idle", "wait"}
      /\ A \in {"yes", "failed"} => P = "idle"
      /\ A = "port" => P = "attach" /\ ~ci'
      /\ P = "wait" => ci' /\ slot'.cmd = NoData
      /\ P # "wait" => (hw'.st # "busy" /\ (ci' => hw'.st # "idle"))
      /\ hw'.st = "busy" => P = "wait" /\ hw' = hw /\ pc = "wait"
  <2>0. slot \in [cmd : Cmd, prdbc : Nat] /\ ci \in BOOLEAN
    BY DEF DiskInv, Typed, PortOK
  <2>1. CASE HbaReset
    BY <1>1, <1>2, <1>3, <2>0, <2>1 DEF HbaReset, StopEngine, NotAttached
  <2>2. CASE InitPort
    BY <1>1, <1>2, <1>3, <2>0, <2>2 DEF InitPort, NotAttached
  <2>3. CASE AttachIssue
    BY <1>1, <1>2, <1>3, <2>0, <2>3 DEF KickEngine, AttachIssue, Issue, NoData, AttachStep
  <2>4. CASE AttachNext
    BY <1>1, <1>2, <1>3, <2>0, <2>4 DEF AttachNext, AttachStep, Polled
  <2>5. CASE AttachFails
    BY <1>1, <1>2, <1>3, <2>0, <2>5 DEF AttachFails, StopEngine, NotAttached
  <2> QED  BY <2>1, <2>2, <2>3, <2>4, <2>5
<1> HIDE DEF A, P
<1>5. ~Busy'
  BY <1>4 DEF Busy, A, P
<1>6. Typed'
  <2>1. BfOK' /\ CallOK' /\ MemOK'
    BY <1>1 DEF DiskInv, Typed, BfOK, CallOK, CallSet, MemOK
  <2>2. PortOK'
    BY <1>3, <1>4 DEF DiskInv, Typed, PortOK
  <2>3. CtlOK'
    BY <1>4 DEF CtlOK, A, P
  <2> QED  BY <2>1, <2>2, <2>3 DEF Typed
<1>7. Settled'
  <2>1. overdue' = FALSE
    BY <1>1 DEF DiskInv, Settled
  <2>2. hw'.st = "busy" => ci' /\ pc' = "wait" /\ ~hw'.lost
    BY <1>2, <1>4 DEF P
  <2>3. ci' /\ hw'.st = "idle" => pc' = "wait"
    BY <1>4 DEF P
  <2> QED  BY <2>1, <2>2, <2>3 DEF Settled
<1>8. Placed'
  <2>1. Stage'
    <3>1. call' = NoCall
      BY <1>1, <1>2
    <3>2. call'.who = "none"
      BY <3>1 DEF NoCall
    <3>3. ~bf'.open
      BY <1>1 DEF DiskInv, Placed, Stage
    <3> QED  BY <1>4, <1>5, <3>1, <3>2, <3>3 DEF Stage, A, P
  <2>2. FilePlaced'
    BY <1>1 DEF DiskInv, Placed, FilePlaced
  <2>3. CmdPlaced'
    <3>1. A = "yes" => P = "idle" /\ hw'.st # "busy"
      BY <1>4
    <3>2. hw'.st = "busy" => hw'.cmd = slot'.cmd
      BY <1>2, <1>4
    <3> QED  BY <1>4, <3>1, <3>2 DEF CmdPlaced, A, P
  <2> QED  BY <1>5, <2>1, <2>2, <2>3, QuietPlaced DEF Placed
<1>9. Holds'
  <2>1. UNCHANGED Core
    BY <1>1 DEF Core
  <2> QED  BY <1>1, <1>5, <2>1, QuietHolds DEF DiskInv
<1> QED  BY <1>6, <1>7, <1>8, <1>9 DEF DiskInv

\* How far a command is, is a number; while a piece is being moved it is at
\* most the number of its blocks.
LEMMA ProgNat == ASSUME DiskInv  PROVE Prog \in Nat /\ (pc = "wait" /\ att = "yes" => Prog <= call.blks)
<1>1. call.blks \in Nat /\ hw.done \in Nat
  BY DEF DiskInv, Typed, CallOK, CallSet, PortOK
<1> QED  BY <1>1 DEF Prog, DiskInv, Placed, CmdPlaced

\* A step of the controller that moves nothing: at most what is claimed before
\* is claimed after it.
LEMMA PortStep ==
  ASSUME DiskInv, UNCHANGED <<driver, disk, before, overdue>>, pc = "wait",
         PortOK', CmdPlaced', Busy => Prog' <= Prog, Prog' \in Nat,
         hw'.st = "busy" => ci' /\ ~hw'.lost
  PROVE  DiskInv'
<1>1. UNCHANGED <<att, bf, pc, call, user, llbuf, disk, before, overdue>>
  BY DEF driver
<1>2. Busy' <=> Busy
  BY <1>1 DEF Busy
<1>3. Typed'
  <2>1. BfOK' /\ CallOK' /\ MemOK' /\ CtlOK'
    BY <1>1 DEF DiskInv, Typed, BfOK, CallOK, CallSet, MemOK, CtlOK
  <2> QED  BY <2>1 DEF Typed
<1>4. Settled'
  BY <1>1 DEF DiskInv, Settled
<1>5. Placed'
  <2>1. Stage'
    <3>1. att \notin {"hba", "port"}
      BY DEF DiskInv, Placed, Stage
    <3> QED  BY <1>1, <1>2, <3>1 DEF DiskInv, Placed, Stage
  <2> QED  BY <1>1, <1>2, <2>1, StillPlaced DEF DiskInv, Placed
<1>6. Holds'
  <2>1. UNCHANGED Core
    BY <1>1 DEF Core
  <2>2. Holds /\ CallOK /\ Prog \in Nat
    BY ProgNat DEF DiskInv, Typed
  <2>3. CASE Busy
    BY <1>1, <1>2, <2>1, <2>2, <2>3, StillHolds
  <2>4. CASE ~Busy
    BY <1>1, <1>2, <2>1, <2>2, <2>4, QuietHolds
  <2> QED  BY <2>3, <2>4
<1> QED  BY <1>3, <1>4, <1>5, <1>6 DEF DiskInv

LEMMA FetchInv == ASSUME DiskInv, Fetch  PROVE DiskInv'
<1>1. /\ ci /\ hw.st = "idle"
      /\ hw' = [NoWork EXCEPT !.st = "busy", !.cmd = slot.cmd, !.lost = (pc # "wait")]
      /\ UNCHANGED <<driver, disk, slot, ci, before, overdue>>
  BY DEF Fetch
<1>2. pc = "wait" /\ slot.cmd \in Cmd
  BY <1>1 DEF DiskInv, Settled, Typed, PortOK
<1>3. hw' = [st |-> "busy", cmd |-> slot.cmd, done |-> 0, lost |-> FALSE]
  BY <1>1, <1>2 DEF NoWork
<1>4. pc' = pc /\ att' = att /\ call' = call /\ Issued' = Issued
  BY <1>1 DEF driver, Issued, Writes, IsFetch, InLl
<1>5. PortOK'
  <2>1. slot' \in [cmd : Cmd, prdbc : Nat] /\ ci' \in BOOLEAN
    BY <1>1 DEF DiskInv, Typed, PortOK
  <2> QED  BY <1>2, <1>3, <2>1 DEF PortOK
<1>6. CmdPlaced'
  <2>1. hw'.cmd = slot.cmd /\ hw'.done = 0 /\ (att = "yes" => call.blks \in Nat)
    BY <1>3 DEF DiskInv, Typed, CallOK, CallSet
  <2> QED  BY <1>1, <1>4, <2>1 DEF DiskInv, Placed, CmdPlaced
<1>7. Prog = 0 /\ Prog' = 0
  <2>1. hw'.st = "busy" /\ hw'.done = 0
    BY <1>3
  <2> QED  BY <1>1, <1>2, <1>4, <2>1 DEF Prog
<1>8. ~hw'.lost
  BY <1>3
<1> QED  BY <1>1, <1>2, <1>5, <1>6, <1>7, <1>8, PortStep

LEMMA FaultInv == ASSUME DiskInv, Fault  PROVE DiskInv'
<1>1. /\ hw.st = "busy" /\ hw' = [NoWork EXCEPT !.st = "halted"]
      /\ UNCHANGED <<driver, disk, slot, ci, before, overdue>>
  BY DEF Fault
<1>2. pc = "wait" /\ ci
  BY <1>1 DEF DiskInv, Settled
<1>3. hw' = [st |-> "halted", cmd |-> NoCmd, done |-> 0, lost |-> FALSE] /\ NoCmd \in Cmd
  <2>1. NoCmd \in Cmd
    BY DEF NoCmd, Cmd
  <2>2. hw' = [NoWork EXCEPT !.st = "halted"]
    BY <1>1
  <2> QED  BY <2>1, <2>2 DEF NoWork
<1>4. pc' = pc /\ att' = att /\ call' = call /\ Issued' = Issued
  BY <1>1 DEF driver, Issued, Writes, IsFetch, InLl
<1>5. PortOK'
  <2>1. slot' \in [cmd : Cmd, prdbc : Nat] /\ ci' \in BOOLEAN
    BY <1>1 DEF DiskInv, Typed, PortOK
  <2> QED  BY <1>3, <2>1 DEF PortOK
<1>6. CmdPlaced'
  <2>1. hw'.st # "busy"
    BY <1>3
  <2> QED  BY <1>1, <1>4, <2>1 DEF DiskInv, Placed, CmdPlaced
<1>7. Prog' = 0 /\ Prog \in Nat
  <2>1. hw'.st # "busy" /\ ci'
    BY <1>1, <1>2, <1>3
  <2> QED  BY <1>1, <1>2, <1>4, <2>1, ProgNat DEF Prog
<1>8. hw'.st # "busy"
  BY <1>3
<1> QED  BY <1>1, <1>2, <1>5, <1>6, <1>7, <1>8, PortStep

LEMMA CompleteInv == ASSUME DiskInv, Complete  PROVE DiskInv'
<1>1. /\ hw.st = "busy" /\ hw.done = Count(hw.cmd) /\ ci' = FALSE /\ hw' = NoWork
      /\ slot' = [cmd |-> NoCmd, prdbc |-> hw.done * BlkSz]
      /\ UNCHANGED <<driver, disk, before, overdue>>
  BY DEF Complete
<1>2. pc = "wait" /\ ci /\ hw.done \in Nat
  BY <1>1 DEF DiskInv, Settled, Typed, PortOK
<1>3. hw' = [st |-> "idle", cmd |-> NoCmd, done |-> 0, lost |-> FALSE] /\ NoCmd \in Cmd
  BY <1>1 DEF NoWork, NoCmd, Cmd
<1>4. pc' = pc /\ att' = att /\ call' = call
  BY <1>1 DEF driver
<1>5. PortOK'
  <2>1. hw.done * BlkSz \in Nat
    <3>1. hw.done * BlkSz \in Int /\ 0 * BlkSz <= hw.done * BlkSz /\ 0 * BlkSz = 0
      BY <1>2, Blocks
    <3> QED  BY <3>1
  <2> DEFINE z == hw.done * BlkSz
  <2>2. slot' = [cmd |-> NoCmd, prdbc |-> z] /\ ci' = FALSE /\ z \in Nat
    BY <1>1, <2>1
  <2> HIDE DEF z
  <2>3. slot' \in [cmd : Cmd, prdbc : Nat] /\ ci' \in BOOLEAN
    BY <1>3, <2>2
  <2> QED  BY <1>3, <2>3 DEF PortOK
<1>6. CmdPlaced'
  <2>1. hw'.st # "busy" /\ ~ci'
    BY <1>1, <1>3
  <2> QED  BY <1>4, <2>1 DEF DiskInv, Placed, CmdPlaced
<1>7. Busy => Prog' = Prog
  <2> SUFFICES ASSUME att = "yes"  PROVE Prog' = Prog
    BY <1>2 DEF Busy
  <2>1. hw.cmd = Issued /\ call.blks \in 1 .. MaxBlks /\ CallOK
    BY <1>1, <1>2, Sizes DEF DiskInv, Placed, CmdPlaced, Typed, CallOK, CallSet
  <2>2. hw.done = call.blks
    BY <1>1, <2>1, IssuedOK
  <2> QED  BY <1>1, <1>2, <1>4, <2>2 DEF Prog
<1>8. Prog' \in Nat /\ Prog \in Nat
  <2>1. call.blks \in Nat
    BY DEF DiskInv, Typed, CallOK, CallSet
  <2> QED  BY <1>1, <1>2, <1>4, <2>1, ProgNat DEF Prog
<1>9. hw'.st # "busy"
  BY <1>3
<1> QED  BY <1>1, <1>2, <1>5, <1>6, <1>7, <1>8, <1>9, PortStep

-----------------------------------------------------------------------------
(* A call returns.                                                         *)

\* Between commands the controller does nothing and its bit is clear, unless
\* it has halted.
LEMMA BetweenCommands ==
  ASSUME DiskInv, pc # "wait"
  PROVE  hw.st # "busy" /\ ~(ci /\ hw.st = "idle") /\ Prog = 0
BY DEF DiskInv, Settled, Prog

LEMMA ReturnTransfers ==
  ASSUME MovedRight, CallOK, NEW r \in {"ok", "err"}, call' = [call EXCEPT !.res = r],
         UNCHANGED <<disk, user, before, bf>>,
         (r = "ok" /\ call.who # "file") =>
           \A x \in Pos : (x >= call.start /\ x < call.start + call.nb) =>
             user[x - call.start + 1] = disk[x]
  PROVE  MovedRight'
<1>1. /\ UNCHANGED <<call.who, call.is_w, call.start, call.nb>> /\ call'.res = r
      /\ call.start \in Nat /\ call.nb \in Nat
  BY DEF CallOK, CallSet
<1>2. Upto' = IF call.who = "file" THEN Upto
              ELSE IF r = "ok" THEN call.start + call.nb ELSE call.start
  BY <1>1 DEF Upto
<1>3. CASE call.who = "file"
  BY <1>1, <1>2, <1>3 DEF MovedRight, ReadRight, WriteExact
<1>4. CASE call.who # "file" /\ r = "err"
  <2>1. Upto' = call.start
    BY <1>2, <1>4
  <2>2. ReadRight'
    BY <1>1, <2>1 DEF ReadRight, Pos
  <2>3. WriteExact'
    <3> SUFFICES ASSUME call.is_w, NEW x \in Pos
                 PROVE  IF x < call.start \/ x >= call.start + call.nb THEN disk[x] = before[x]
                        ELSE disk[x] \in {before[x], user[x - call.start + 1]}
      BY <1>1, <2>1 DEF WriteExact, Pos
    <3> QED  BY DEF MovedRight, WriteExact
  <2> QED  BY <2>2, <2>3 DEF MovedRight
<1>5. CASE call.who # "file" /\ r = "ok"
  <2>1. Upto' = call.start + call.nb
    BY <1>2, <1>5
  <2>2. ReadRight'
    BY <1>1, <1>5, <2>1 DEF ReadRight, Pos
  <2>3. WriteExact'
    <3> SUFFICES ASSUME call.is_w, NEW x \in Pos
                 PROVE  IF x < call.start \/ x >= call.start + call.nb THEN disk[x] = before[x]
                        ELSE disk[x] = user[x - call.start + 1]
      BY <1>1, <2>1 DEF WriteExact, Pos
    <3>1. CASE x < call.start \/ x >= call.start + call.nb
      BY <3>1 DEF MovedRight, WriteExact
    <3>2. CASE ~(x < call.start \/ x >= call.start + call.nb)
      BY <1>1, <1>5, <3>2 DEF Pos
    <3> QED  BY <3>1, <3>2
  <2> QED  BY <2>2, <2>3 DEF MovedRight
<1> QED  BY <1>3, <1>4, <1>5

LEMMA ReturnInv ==
  ASSUME DiskInv, NEW r \in {"ok", "err"}, Return(r),
         UNCHANGED <<disk, att, bf, user, slot, ci, before, overdue>>,
         att = "yes", PortOK', hw'.st = hw.st, hw.st # "busy", ~(ci /\ hw.st = "idle"),
         (r = "ok" /\ call.who # "file") =>
           \A x \in Pos : (x >= call.start /\ x < call.start + call.nb) =>
             user[x - call.start + 1] = disk[x]
  PROVE  DiskInv'
<1>1. pc' = "done" /\ llbuf' = <<>> /\ call' = [call EXCEPT !.res = r] /\ att' = "yes"
  BY DEF Return
<1>2. CallOK /\ BfOK
  BY DEF DiskInv, Typed
<1>3. /\ UNCHANGED <<call.who, call.is_w, call.start, call.nb, call.resid, call.step>>
  BY <1>1, <1>2 DEF CallOK, CallSet
<1>4. ~Busy'
  BY <1>1 DEF Busy
<1>5. Typed'
  <2>1. CallOK'
    BY <1>1, <1>2 DEF CallOK, CallSet
  <2>2. MemOK' /\ BfOK' /\ CtlOK'
    BY <1>1, <1>3 DEF DiskInv, Typed, MemOK, BfOK, CtlOK
  <2> QED  BY <2>1, <2>2 DEF Typed
<1>6. Settled'
  <2>1. overdue' = FALSE
    BY DEF DiskInv, Settled
  <2> QED  BY <2>1 DEF Settled
<1>7. Placed'
  <2>1. Stage'
    BY <1>1, <1>3, <1>4 DEF DiskInv, Placed, Stage
  <2>2. FilePlaced'
    BY <1>3 DEF DiskInv, Placed, FilePlaced
  <2>3. CmdPlaced'
    BY <1>1 DEF CmdPlaced
  <2> QED  BY <1>4, <2>1, <2>2, <2>3, QuietPlaced DEF Placed
<1>8. Holds'
  <2>1. MovedRight'
    BY <1>1, <1>2, ReturnTransfers DEF DiskInv, Holds
  <2> QED  BY <1>4, <2>1 DEF Holds, DirectHolds, FetchHolds, StoreHolds
<1> QED  BY <1>5, <1>6, <1>7, <1>8 DEF DiskInv

\* A timeout that is not overdue finds the controller halted.
LEMMA AtaTimeoutInv == ASSUME ~overdue', DiskInv, AtaTimeout  PROVE DiskInv'
<1>1. /\ pc = "wait" /\ hw.st = "halted" /\ att = "yes" /\ Return("err")
      /\ hw' = [hw EXCEPT !.lost = TRUE]
      /\ UNCHANGED <<disk, att, bf, user, slot, ci, before, overdue>>
  BY DEF AtaTimeout, GivesUp, DiskInv, Settled
<1>2. slot \in [cmd : Cmd, prdbc : Nat] /\ ci \in BOOLEAN
      /\ hw \in [st : {"idle", "busy", "halted"}, cmd : Cmd, done : Nat, lost : BOOLEAN]
  BY DEF DiskInv, Typed, PortOK
<1>3. hw'.st = "halted"
      /\ hw' \in [st : {"idle", "busy", "halted"}, cmd : Cmd, done : Nat, lost : BOOLEAN]
  BY <1>1, <1>2
<1>4. PortOK'
  BY <1>1, <1>2, <1>3 DEF PortOK
<1> QED  BY <1>1, <1>3, <1>4, ReturnInv

LEMMA ReturnSteps ==
  ASSUME DiskInv, AtaReturn \/ XferNoMem \/ XferEnd
  PROVE  DiskInv'
<1>1. /\ pc \in {"ata", "loop"}
      /\ UNCHANGED <<disk, att, bf, user, slot, ci, hw, before, overdue>>
  BY DEF AtaReturn, XferNoMem, XferEnd
<1>2. hw.st # "busy" /\ ~(ci /\ hw.st = "idle") /\ Prog = 0
  BY <1>1, BetweenCommands
<1>3. att = "yes" /\ (pc = "loop" => call.who = "file")
  BY <1>1 DEF DiskInv, Placed, Stage
<1>4. PortOK' /\ hw'.st = hw.st
  BY <1>1 DEF DiskInv, Typed, PortOK
<1>5. CASE XferNoMem \/ XferEnd
  <2>1. pc = "loop" /\ \E r \in {"ok", "err"} : Return(r)
    BY <1>5 DEF XferNoMem, XferEnd
  <2> QED  BY <1>1, <1>2, <1>3, <1>4, <2>1, ReturnInv
<1>6. CASE AtaReturn
  <2>1. pc = "ata" /\ call.remain = 0 /\ call.who = "ata" /\ Return("ok")
    BY <1>6 DEF AtaReturn
  <2>2. Busy /\ call.step = "direct"
    BY <2>1 DEF Busy, DiskInv, Placed, Stage
  <2>3. call.off + 0 * BlkSz = call.nb
    BY <2>1, <2>2 DEF DiskInv, Placed, DirectPlaced, Goal
  <2>4. call.off = call.nb /\ call.off \in Nat /\ call.start \in Nat /\ 0 * BlkSz = 0
    BY <2>3, Blocks DEF DiskInv, Typed, CallOK, CallSet
  <2>5. \A x \in Pos : (x >= call.start /\ x < call.start + call.nb) =>
             user[x - call.start + 1] = disk[x]
    BY <1>2, <2>2, <2>4 DEF DiskInv, Holds, DirectHolds
  <2> QED  BY <1>1, <1>2, <1>3, <1>4, <2>1, <2>5, ReturnInv
<1> QED  BY <1>5, <1>6
-----------------------------------------------------------------------------
(* The driver between commands.                                            *)

\* No command is in the slot before and after the step.
LEMMA DriverStep ==
  ASSUME DiskInv, pc # "wait" \/ ~ci, pc' \in {"idle", "loop", "ata", "done"},
         UNCHANGED <<att, ci, hw, overdue>>, slot' \in [cmd : Cmd, prdbc : Nat]
  PROVE  Settled' /\ PortOK' /\ CtlOK' /\ CmdPlaced' /\ Prog' = 0
<1>1. hw.st # "busy" /\ (pc' # "wait" => ~(ci /\ hw.st = "idle") \/ pc = "wait") /\ overdue = FALSE
  BY DEF DiskInv, Settled
<1>2. Settled'
  BY <1>1 DEF DiskInv, Settled
<1>3. PortOK'
  BY DEF DiskInv, Typed, PortOK
<1>4. CtlOK'
  BY DEF DiskInv, Typed, CtlOK
<1>5. CmdPlaced'
  BY <1>1 DEF CmdPlaced
<1>6. Prog' = 0
  BY DEF Prog
<1> QED  BY <1>2, <1>3, <1>4, <1>5, <1>6

LEMMA AtaIssueInv == ASSUME DiskInv, AtaIssue  PROVE DiskInv'
<1> DEFINE b == MinOf(call.remain, MaxBlks)
<1>1. /\ pc = "ata" /\ call.remain > 0 /\ pc' = "wait" /\ ci' = TRUE
      /\ call' = [call EXCEPT !.blks = b]
      /\ slot' = [cmd |-> [op  |-> IF Writes THEN "write" ELSE "read",
                          blk |-> call.blk, cnt |-> CountField(b),
                          to  |-> IF InLl THEN "ll" ELSE "user",
                          off |-> call.off, len |-> PrdBytes(b * BlkSz)],
                  prdbc |-> 0]
      /\ UNCHANGED <<disk, att, bf, user, llbuf, hw, before, overdue>>
  BY DEF AtaIssue, Issue
<1>2. CallOK /\ call.remain \in Nat /\ call.blk \in Nat /\ call.off \in Nat
  BY DEF DiskInv, Typed, CallOK, CallSet
<1>3. b \in 1 .. call.remain /\ b \in Nat /\ b <= MaxBlks
  BY <1>1, <1>2, Sizes DEF MinOf
<1> HIDE DEF b
<1>4. att = "yes" /\ hw.st # "busy" /\ Prog = 0
  BY <1>1, BetweenCommands DEF DiskInv, Placed, Stage
<1>5. /\ UNCHANGED <<call.who, call.is_w, call.start, call.nb, call.resid, call.step,
                     call.n, call.blk, call.remain, call.off, call.res>>
      /\ call'.blks = b
  BY <1>1, <1>2 DEF CallOK, CallSet
<1>6. slot'.cmd = Issued'
  <2>1. Writes' = Writes /\ InLl' = InLl
    BY <1>5 DEF Writes, IsFetch, InLl
  <2> QED  BY <1>1, <1>5, <2>1 DEF Issued
<1>7. Typed'
  <2>1. CallOK'
    BY <1>1, <1>2, <1>3 DEF CallOK, CallSet
  <2>2. MemOK' /\ BfOK' /\ CtlOK'
    BY <1>1, <1>5 DEF DiskInv, Typed, MemOK, BfOK, CtlOK
  <2>3. PortOK'
    <3>1. CountField(b) \in Nat
      BY <1>3, Sizes, SMT DEF CountField
    <3>2. b * BlkSz \in Int
      BY <1>3, Blocks
    <3>3. PrdBytes(b * BlkSz) \in Int
      BY <3>2, PrdInt
    <3>4. slot' \in [cmd : Cmd, prdbc : Nat]
      BY <1>1, <1>2, <3>1, <3>3 DEF Cmd
    <3> QED  BY <1>1, <3>4 DEF DiskInv, Typed, PortOK
  <2> QED  BY <2>1, <2>2, <2>3 DEF Typed
<1>8. Settled'
  BY <1>1, <1>4 DEF DiskInv, Settled
<1>9. Busy /\ Busy'
  BY <1>1, <1>4 DEF Busy
<1>10. Placed'
  <2>1. Stage'
    BY <1>1, <1>4, <1>5, <1>9 DEF DiskInv, Placed, Stage
  <2>2. SubOffs' = SubOffs /\ Filled' = Filled /\ InLl' = InLl
    BY <1>1, <1>5 DEF SubOffs, Filled, InLl
  <2>3. Goal' = Goal
    BY <1>5, <2>2 DEF Goal
  <2>4. FilePlaced' /\ DirectPlaced' /\ PartPlaced'
    BY <1>1, <1>5, <1>9, <2>2, <2>3 DEF DiskInv, Placed, FilePlaced, DirectPlaced, PartPlaced
  <2>5. CmdPlaced'
    BY <1>1, <1>3, <1>4, <1>5, <1>6 DEF CmdPlaced
  <2> QED  BY <2>1, <2>4, <2>5 DEF Placed
<1>11. Holds'
  <2>1. UNCHANGED Core
    BY <1>5 DEF Core
  <2>2. Prog' = 0
    BY <1>1, <1>4 DEF Prog
  <2> QED  BY <1>1, <1>2, <1>4, <1>9, <2>1, <2>2, StillHolds DEF DiskInv
<1> QED  BY <1>7, <1>8, <1>10, <1>11 DEF DiskInv

LEMMA AtaNextInv == ASSUME DiskInv, AtaNext  PROVE DiskInv'
<1>1. /\ pc = "wait" /\ ~ci /\ att = "yes" /\ pc' = "ata"
      /\ call' = [call EXCEPT !.remain = @ - call.blks, !.blk = @ + call.blks,
                              !.off = @ + call.blks * BlkSz]
      /\ UNCHANGED <<disk, att, bf, user, llbuf, slot, ci, hw, before, overdue>>
  BY DEF AtaNext, Polled
<1> DEFINE m == call.blks * BlkSz
<1>2. /\ CallOK /\ call.remain \in Nat /\ call.blk \in Nat /\ call.off \in Nat /\ call.start \in Nat
      /\ call.blks \in 1 .. call.remain /\ call.blks \in Nat
  BY <1>1 DEF DiskInv, Typed, CallOK, CallSet, Placed, CmdPlaced
<1>3. m \in Nat
  <2>1. call.blks \in Int /\ 0 \in Int /\ 0 <= call.blks
    BY <1>2
  <2>2. call.blks * BlkSz \in Int /\ 0 * BlkSz <= call.blks * BlkSz /\ 0 * BlkSz = 0
    BY <2>1, Blocks
  <2> QED  BY <2>2
<1> HIDE DEF m
<1>4. /\ UNCHANGED <<call.who, call.is_w, call.start, call.nb, call.resid, call.step,
                     call.n, call.res>>
      /\ call'.remain = call.remain - call.blks /\ call'.blk = call.blk + call.blks
      /\ call'.off = call.off + m
  BY <1>1, <1>2 DEF CallOK, CallSet, m
<1>5. Settled' /\ PortOK' /\ CtlOK' /\ CmdPlaced' /\ Prog' = 0
  <2>1. slot' \in [cmd : Cmd, prdbc : Nat]
    BY <1>1 DEF DiskInv, Typed, PortOK
  <2> QED  BY <1>1, <2>1, DriverStep
<1>6. Prog = call.blks /\ Busy /\ Busy'
  BY <1>1 DEF Prog, Busy
<1>7. Typed'
  <2>1. CallOK'
    <3> DEFINE r == call.remain - call.blks
               k == call.blk + call.blks
               o == call.off + m
    <3>1. call' = [call EXCEPT !.remain = r, !.blk = k, !.off = o]
      BY <1>1, <1>2 DEF CallOK, CallSet, m
    <3>2. r \in Nat /\ k \in Nat /\ o \in Nat
      BY <1>2, <1>3
    <3> HIDE DEF r, k, o
    <3> QED  BY <1>2, <3>1, <3>2 DEF CallOK, CallSet
  <2>2. MemOK' /\ BfOK'
    BY <1>1, <1>4 DEF DiskInv, Typed, MemOK, BfOK
  <2> QED  BY <1>5, <2>1, <2>2 DEF Typed
<1>8. SubOffs' = SubOffs /\ Filled' = Filled /\ InLl' = InLl /\ bf' = bf /\ llbuf' = llbuf
  BY <1>1, <1>4 DEF SubOffs, Filled, InLl
<1>9. InLl => call.remain = 1 /\ call.blks = 1
  BY <1>2, <1>6 DEF DiskInv, Placed, PartPlaced
<1>10. Placed'
  <2>1. Stage'
    BY <1>1, <1>4, <1>6 DEF DiskInv, Placed, Stage
  <2>2. Goal' = Goal
    BY <1>4, <1>8 DEF Goal
  <2>3. FilePlaced'
    BY <1>4, <1>8 DEF DiskInv, Placed, FilePlaced
  <2>4. PartPlaced'
    <3> SUFFICES ASSUME InLl  PROVE PartPlaced'
      BY <1>8 DEF PartPlaced
    <3>1. call'.remain = 0 /\ call'.blk + 0 = call.blk + call.remain
      BY <1>2, <1>4, <1>9
    <3> QED  BY <1>2, <1>4, <1>6, <1>8, <1>9, <3>1 DEF DiskInv, Placed, PartPlaced
  <2>5. DirectPlaced'
    <3> SUFFICES ASSUME call.step = "direct"  PROVE DirectPlaced'
      BY <1>4 DEF DirectPlaced
    <3> DEFINE u == call.blk * BlkSz
               v == call.remain * BlkSz
               w == (call.remain - call.blks) * BlkSz
               r == call.remain - call.blks
    <3>1. u = call.start + call.off /\ call.off + v = Goal
          /\ (call.who = "file" => call.n <= call.resid)
      BY <1>6 DEF DiskInv, Placed, DirectPlaced
    <3>2. call.blk \in Int /\ call.blks \in Int /\ r \in Int /\ r + call.blks = call.remain
      BY <1>2
    <3>3. u \in Int /\ (call.blk + call.blks) * BlkSz = u + m /\ r * BlkSz \in Int
          /\ (r + call.blks) * BlkSz = r * BlkSz + m
      BY <3>2, Blocks DEF m
    <3>4. w \in Int /\ v = w + m
      BY <3>2, <3>3
    <3> HIDE DEF u, v, w, r
    <3>5. u + m = call.start + (call.off + m) /\ (call.off + m) + w = Goal
      BY <1>2, <1>3, <3>1, <3>3, <3>4
    <3>6. call'.blk * BlkSz = u + m /\ call'.remain * BlkSz = w
      BY <1>4, <3>3 DEF w
    <3> QED  BY <1>4, <2>2, <3>1, <3>5, <3>6 DEF DirectPlaced
  <2> QED  BY <1>5, <2>1, <2>3, <2>4, <2>5 DEF Placed
<1>11. Holds'
  <2>1. MovedRight'
    BY <1>1, <1>4, StillTransfers DEF DiskInv, Holds
  <2>2. DirectHolds'
    <3> SUFFICES ASSUME call.step = "direct", NEW x \in Pos, x >= call.start,
                        x < call.start + (call.off + m) + 0 * BlkSz
                 PROVE  user[x - call.start + 1] = disk[x]
      BY <1>1, <1>4, <1>5 DEF DirectHolds
    <3>1. 0 * BlkSz = 0
      BY Blocks
    <3>2. x < call.start + call.off + m
      BY <1>2, <1>3, <3>1 DEF Pos
    <3> QED  BY <1>6, <3>2 DEF DiskInv, Holds, DirectHolds, m
  <2>3. FetchHolds'
    BY <1>1, <1>2, <1>4, <1>6, <1>8, <1>9 DEF DiskInv, Holds, FetchHolds, Block
  <2>4. StoreHolds'
    BY <1>1, <1>2, <1>4, <1>6, <1>8, <1>9 DEF DiskInv, Holds, StoreHolds, Block, InPiece
  <2> QED  BY <2>1, <2>2, <2>3, <2>4 DEF Holds
<1> QED  BY <1>5, <1>7, <1>10, <1>11 DEF DiskInv

-----------------------------------------------------------------------------
(* blkfile_xfer: a piece begins.                                           *)

\* The next piece of a call on a file is set up.
PieceBegins(n, st, b, r, o) ==
  /\ pc \in {"loop", "ata"} /\ pc' = "ata" /\ call.who = "file"
  /\ call' = [call EXCEPT !.n = n, !.step = st, !.blk = b, !.remain = r, !.off = o]
  /\ UNCHANGED <<disk, att, bf, user, slot, ci, hw, before, overdue>>
  /\ n \in Nat /\ st \in {"fetch", "store", "direct"} /\ b \in Nat /\ r \in Nat /\ o \in Nat

LEMMA PieceFields ==
  ASSUME CallOK, NEW n, NEW st, NEW b, NEW r, NEW o, PieceBegins(n, st, b, r, o)
  PROVE  /\ UNCHANGED <<call.who, call.is_w, call.start, call.nb, call.resid, call.res>>
         /\ call'.n = n /\ call'.step = st /\ call'.blk = b /\ call'.remain = r /\ call'.off = o
         /\ SubOffs' = SubOffs /\ Filled' = Filled /\ Prog' = 0
<1>1. /\ call' = [call EXCEPT !.n = n, !.step = st, !.blk = b, !.remain = r, !.off = o]
      /\ bf' = bf /\ pc' = "ata"
  BY DEF PieceBegins
<1>2. /\ UNCHANGED <<call.who, call.is_w, call.start, call.nb, call.resid, call.res>>
      /\ call'.n = n /\ call'.step = st /\ call'.blk = b /\ call'.remain = r /\ call'.off = o
  BY <1>1 DEF CallOK, CallSet
<1> QED  BY <1>1, <1>2 DEF SubOffs, Filled, Prog

LEMMA PieceInv ==
  ASSUME DiskInv, NEW n, NEW st, NEW b, NEW r, NEW o, PieceBegins(n, st, b, r, o),
         llbuf' = <<>> \/ DOMAIN llbuf' = 1 .. BlkSz,
         DirectPlaced', PartPlaced', DirectHolds', FetchHolds', StoreHolds'
  PROVE  DiskInv'
<1>1. CallOK
  BY DEF DiskInv, Typed
<1>2. UNCHANGED <<call.who, call.is_w, call.start, call.nb, call.resid, call.res>>
      /\ call'.step = st
  BY <1>1, PieceFields
<1>3. /\ pc \in {"loop", "ata"} /\ pc' = "ata" /\ call.who = "file"
      /\ call' = [call EXCEPT !.n = n, !.step = st, !.blk = b, !.remain = r, !.off = o]
      /\ UNCHANGED <<disk, att, bf, user, slot, ci, hw, before, overdue>>
      /\ n \in Nat /\ st \in {"fetch", "store", "direct"} /\ b \in Nat /\ r \in Nat /\ o \in Nat
  BY DEF PieceBegins
<1>4. Settled' /\ PortOK' /\ CtlOK' /\ CmdPlaced'
  <2>1. slot' \in [cmd : Cmd, prdbc : Nat]
    BY <1>3 DEF DiskInv, Typed, PortOK
  <2> QED  BY <1>3, <2>1, DriverStep
<1>5. Typed'
  <2>1. CallOK'
    BY <1>1, <1>3 DEF CallOK, CallSet
  <2>2. MemOK' /\ BfOK'
    BY <1>2, <1>3 DEF DiskInv, Typed, MemOK, BfOK
  <2> QED  BY <1>4, <2>1, <2>2 DEF Typed
<1>6. Stage'
  <2>1. att = "yes"
    BY <1>3 DEF DiskInv, Placed, Stage
  <2> QED  BY <1>2, <1>3, <2>1 DEF Stage
<1>7. FilePlaced'
  BY <1>2, <1>3 DEF DiskInv, Placed, FilePlaced
<1>8. MovedRight'
  BY <1>2, <1>3, StillTransfers DEF DiskInv, Holds
<1> QED  BY <1>4, <1>5, <1>6, <1>7, <1>8 DEF DiskInv, Placed, Holds

\* The numbers blkfile_xfer works with.
LEMMA FileNumbers ==
  ASSUME DiskInv
  PROVE  /\ bf.offs \in Nat /\ bf.offs <= End /\ call.resid \in Nat /\ call.start \in Nat
         /\ call.nb \in Nat /\ call.n \in Nat /\ call.off \in Nat /\ call.remain \in Nat
         /\ SubOffs \in 0 .. BlkSz - 1 /\ bf.offs \div BlkSz \in Nat
         /\ bf.offs = (bf.offs \div BlkSz) * BlkSz + SubOffs
<1>1. bf.offs \in Nat /\ bf.offs <= End
  BY DEF DiskInv, Typed, BfOK
<1>2. CallOK
  BY DEF DiskInv, Typed
<1> QED  BY <1>1, <1>2, InBlock DEF CallOK, CallSet, SubOffs

LEMMA XferPartInv == ASSUME DiskInv, XferPart  PROVE DiskInv'
<1> DEFINE n == MinOf(BlkSz - SubOffs, call.resid)
           b == bf.offs \div BlkSz
<1>1. /\ pc = "loop" /\ call.resid > 0 /\ pc' = "ata"
      /\ llbuf' = IF llbuf # <<>> THEN llbuf ELSE [i \in 1 .. BlkSz |-> Junk]
      /\ call' = [call EXCEPT !.n = n, !.step = "fetch", !.blk = b, !.remain = 1, !.off = 0]
      /\ UNCHANGED <<disk, att, bf, user, slot, ci, hw, before, overdue>>
  BY DEF XferPart
<1>2. n \in Nat /\ b \in Nat /\ n <= call.resid /\ SubOffs + n <= BlkSz
  <2>1. b \in Nat /\ call.resid \in Nat /\ SubOffs \in 0 .. BlkSz - 1 /\ BlkSz \in Nat
    BY FileNumbers, Sizes
  <2> HIDE DEF b
  <2>2. n \in Nat /\ n <= call.resid /\ SubOffs + n <= BlkSz
    BY ONLY <2>1 DEF MinOf
  <2> QED  BY <2>1, <2>2
<1> HIDE DEF n, b
<1>3. PieceBegins(n, "fetch", b, 1, 0)
  BY <1>1, <1>2 DEF PieceBegins, DiskInv, Placed, Stage
<1>4. /\ UNCHANGED <<call.who, call.resid>> /\ SubOffs' = SubOffs /\ Prog' = 0
      /\ call'.n = n /\ call'.step = "fetch" /\ call'.blk = b /\ call'.remain = 1 /\ call'.off = 0
  BY <1>3, PieceFields DEF DiskInv, Typed
<1>5. DOMAIN llbuf' = 1 .. BlkSz
  <2>1. llbuf = <<>> \/ DOMAIN llbuf = 1 .. BlkSz
    BY DEF DiskInv, Typed, MemOK
  <2> QED  BY <1>1, <2>1
<1>6. PartPlaced'
  <2>1. call'.who = "file" /\ bf' = bf
    BY <1>1, <1>4 DEF DiskInv, Placed, Stage
  <2> QED  BY <1>2, <1>4, <1>5, <2>1 DEF PartPlaced, b
<1>7. DirectPlaced' /\ DirectHolds' /\ FetchHolds' /\ StoreHolds'
  BY <1>4 DEF DirectPlaced, DirectHolds, FetchHolds, StoreHolds
<1> QED  BY <1>3, <1>5, <1>6, <1>7, PieceInv

LEMMA XferStoreInv == ASSUME DiskInv, XferStore  PROVE DiskInv'
<1> DEFINE b == bf.offs \div BlkSz
<1>1. /\ pc = "ata" /\ call.remain = 0 /\ call.step = "fetch" /\ call.is_w /\ pc' = pc
      /\ llbuf' = Merged(llbuf)
      /\ call' = [call EXCEPT !.step = "store", !.blk = b, !.remain = 1, !.off = 0]
      /\ UNCHANGED <<disk, att, bf, user, slot, ci, hw, before, overdue>>
  BY DEF XferStore, IsFetch
<1>2. Busy /\ InLl
  BY <1>1 DEF Busy, InLl
<1>3. /\ call.who = "file" /\ call.n <= call.resid /\ SubOffs + call.n <= BlkSz
      /\ DOMAIN llbuf = 1 .. BlkSz
  BY <1>2 DEF DiskInv, Placed, PartPlaced
<1>4. call.n \in Nat /\ b \in Nat /\ CallOK
  BY FileNumbers DEF DiskInv, Typed
<1> HIDE DEF b
<1>5. call' = [call EXCEPT !.n = call.n, !.step = "store", !.blk = b, !.remain = 1, !.off = 0]
  BY <1>1, <1>4 DEF CallOK, CallSet
<1>6. PieceBegins(call.n, "store", b, 1, 0)
  BY <1>1, <1>3, <1>4, <1>5 DEF PieceBegins
<1>7. /\ UNCHANGED <<call.who, call.is_w, call.resid>> /\ SubOffs' = SubOffs /\ Filled' = Filled
      /\ Prog' = 0 /\ call'.n = call.n /\ call'.step = "store" /\ call'.blk = b
      /\ call'.remain = 1 /\ call'.off = 0
  BY <1>4, <1>6, PieceFields
<1>8. DOMAIN llbuf' = 1 .. BlkSz
  BY <1>1, <1>3 DEF Merged
<1>9. PartPlaced'
  BY <1>1, <1>3, <1>7, <1>8 DEF PartPlaced, b
<1>10. DirectPlaced' /\ DirectHolds' /\ FetchHolds'
  BY <1>7 DEF DirectPlaced, DirectHolds, FetchHolds
<1>11. StoreHolds'
  <2>1. \A i \in 1 .. BlkSz : llbuf[i] = disk[Block(i)]
    BY <1>1, <1>2 DEF DiskInv, Holds, FetchHolds
  <2>2. \A i \in 1 .. BlkSz :
          llbuf'[i] = IF InPiece(i) THEN user[Filled + i - SubOffs] ELSE disk[Block(i)]
    BY <1>1, <1>3, <2>1 DEF Merged, InPiece
  <2>3. \A i : InPiece(i)' = InPiece(i) /\ Block(i)' = Block(i)
    BY <1>1, <1>7 DEF InPiece, Block
  <2> QED  BY <1>1, <1>7, <2>2, <2>3 DEF StoreHolds
<1> QED  BY <1>6, <1>8, <1>9, <1>10, <1>11, PieceInv

\* What blkfile_xfer asks for at once are whole blocks, no more than are left.
LEMMA WholeBlocks ==
  ASSUME NEW a \in Nat
  PROVE  LET w == MinOf((a \div BlkSz) * BlkSz, MaxIo)
         IN  w \in Nat /\ w <= a /\ w \div BlkSz \in Nat /\ (w \div BlkSz) * BlkSz = w
<1> DEFINE q == a \div BlkSz
           z == q * BlkSz
           w == MinOf(z, MaxIo)
<1>1. q \in Nat /\ a % BlkSz \in 0 .. BlkSz - 1 /\ a = z + (a % BlkSz)
  BY InBlock
<1> HIDE DEF q
<1>2. z \in Nat /\ z % BlkSz = 0
  <2>1. q \in Int /\ 0 \in Int /\ 0 <= q
    BY <1>1
  <2>2. z \in Int /\ 0 * BlkSz <= z /\ 0 * BlkSz = 0
    BY <2>1, Blocks
  <2> QED  BY <1>1, <2>2, BlockMod
<1> HIDE DEF z
<1>3. z <= a /\ MaxIo \in Nat /\ MaxIo % BlkSz = 0
  <2> DEFINE r == a % BlkSz
  <2>1. r \in 0 .. BlkSz - 1 /\ a = z + r /\ MaxIo \in Nat /\ MaxIo % BlkSz = 0 /\ BlkSz \in Nat
    BY <1>1, Sizes
  <2> HIDE DEF r
  <2> QED  BY <1>2, <2>1
<1>4. w \in Nat /\ w <= a /\ (w = z \/ w = MaxIo)
  BY <1>2, <1>3 DEF MinOf
<1>5. w % BlkSz = 0
  BY ONLY <1>2, <1>3, <1>4, Zenon
<1> HIDE DEF w
<1>6. w \div BlkSz \in Nat /\ (w \div BlkSz) * BlkSz = w
  BY <1>4, <1>5, WholeDiv
<1> QED  BY ONLY <1>4, <1>6, Zenon DEF w, z, q

LEMMA XferWholeInv == ASSUME DiskInv, XferWhole  PROVE DiskInv'
<1> DEFINE n == WholeBytes
           b == bf.offs \div BlkSz
           r == n \div BlkSz
<1>1. /\ pc = "loop" /\ SubOffs = 0 /\ pc' = "ata"
      /\ call' = [call EXCEPT !.n = n, !.step = "direct", !.blk = b, !.remain = r, !.off = Filled]
      /\ UNCHANGED <<disk, att, bf, user, llbuf, slot, ci, hw, before, overdue>>
  BY DEF XferWhole
<1>2. /\ b \in Nat /\ call.resid \in Nat /\ call.start \in Nat /\ bf.offs \in Nat
      /\ call.nb \in Nat /\ bf.offs = b * BlkSz + 0
  BY <1>1, FileNumbers
<1>3. call.who = "file" /\ CallOK
  BY <1>1 DEF DiskInv, Placed, Stage, Typed
<1>4. call.start <= bf.offs /\ bf.offs + call.resid = call.start + call.nb
  BY <1>3 DEF DiskInv, Placed, FilePlaced
<1>5. n \in Nat /\ n <= call.resid /\ r \in Nat /\ r * BlkSz = n
  BY <1>2, WholeBlocks DEF WholeBytes
<1> HIDE DEF n, b, r
<1>6. Filled \in Nat /\ call.start + Filled = bf.offs
  BY <1>2, <1>4 DEF Filled
<1>7. b * BlkSz = bf.offs
  <2>1. b \in Int
    BY <1>2
  <2>2. b * BlkSz \in Int
    BY <2>1, Blocks
  <2> QED  BY <1>2, <2>2
<1>8. PieceBegins(n, "direct", b, r, Filled)
  BY <1>1, <1>2, <1>3, <1>5, <1>6 DEF PieceBegins
<1>9. /\ UNCHANGED <<call.who, call.is_w, call.start, call.resid>> /\ SubOffs' = SubOffs
      /\ Filled' = Filled /\ Prog' = 0
      /\ call'.n = n /\ call'.step = "direct" /\ call'.blk = b /\ call'.remain = r /\ call'.off = Filled
  BY <1>3, <1>8, PieceFields
<1>10. DirectPlaced'
  <2>1. Goal' = Filled + n
    BY <1>3, <1>9 DEF Goal
  <2> QED  BY <1>3, <1>5, <1>6, <1>7, <1>9, <2>1 DEF DirectPlaced
<1>11. DirectHolds'
  <2> SUFFICES ASSUME NEW x \in Pos, x >= call.start, x < call.start + Filled + 0 * BlkSz
               PROVE  user[x - call.start + 1] = disk[x]
    BY <1>1, <1>9 DEF DirectHolds
  <2>1. 0 * BlkSz = 0 /\ x \in Int
    BY Blocks DEF Pos
  <2>2. x < bf.offs /\ x < call.start + call.nb /\ ~(x < call.start)
    BY <1>2, <1>4, <1>6, <2>1
  <2>3. Upto = bf.offs
    BY <1>3 DEF Upto
  <2>4. ~(x >= call.start + call.nb)
    BY <1>2, <2>1, <2>2
  <2> QED  BY <2>2, <2>3, <2>4 DEF DiskInv, Holds, MovedRight, ReadRight, WriteExact
<1>12. PartPlaced' /\ FetchHolds' /\ StoreHolds'
  BY <1>9 DEF PartPlaced, FetchHolds, StoreHolds, InLl
<1>13. llbuf' = <<>> \/ DOMAIN llbuf' = 1 .. BlkSz
  BY <1>1 DEF DiskInv, Typed, MemOK
<1> QED  BY <1>8, <1>10, <1>11, <1>12, <1>13, PieceInv

\* Where a byte of the piece is in the caller's buffer, k, and in llbuf, i.
Place(x, start, offs, n, nb, sub, size, k, f, i) ==
  /\ k \in 1 .. nb /\ x < start + nb
  /\ x < offs => ~(k > f)
  /\ x >= offs => k > f /\ k <= f + n /\ i \in 1 .. size
  /\ offs - sub + i - 1 = x

LEMMA Places ==
  ASSUME NEW x \in Int, NEW start \in Nat, NEW offs \in Nat, NEW n \in Nat, NEW resid \in Nat,
         NEW nb \in Nat, NEW sub \in Nat, NEW size \in Nat, NEW f,
         start <= offs, offs + resid = start + nb, n <= resid, sub + n <= size,
         x >= start, x < offs + n, f = offs - start
  PROVE  Place(x, start, offs, n, nb, sub, size, x - start + 1, f, sub + (x - start + 1) - f)
BY DEF Place

\* The byte x of the disk, counted in its block and in the caller's buffer.
LEMMA Shift ==
  ASSUME NEW o \in Int, NEW u \in Int, NEW c \in Int, NEW x \in Int
  PROVE  /\ o - u + (x - o + u + 1) - 1 = x
         /\ (o - c) + (x - o + u + 1) - u = x - c + 1
OBVIOUS

\* A piece is complete: what blkfile_xfer has passed over is in the caller's
\* buffer, and on the disk.
LEMMA PieceHolds ==
  ASSUME DiskInv, XferNext
  PROVE  /\ call.n <= call.resid /\ DOMAIN user' = DOMAIN user
         /\ call.is_w => user' = user
         /\ \A x \in Pos : (x >= call.start /\ x < bf.offs + call.n) =>
              user'[x - call.start + 1] = disk[x]
<1>1. /\ pc = "ata" /\ call.remain = 0 /\ call.who = "file"
      /\ ~(call.step = "fetch" /\ call.is_w)
      /\ user' = IF call.step = "fetch" THEN Copied ELSE user
  BY DEF XferNext, IsFetch
<1>2. Busy /\ call.step \in {"fetch", "store", "direct"} /\ call.is_w \in BOOLEAN
  BY <1>1 DEF Busy, DiskInv, Placed, Stage, Typed, CallOK, CallSet
<1>3. /\ bf.offs \in Nat /\ call.resid \in Nat /\ call.start \in Nat /\ call.nb \in Nat
      /\ call.n \in Nat /\ call.off \in Nat /\ SubOffs \in 0 .. BlkSz - 1 /\ BlkSz \in Nat
  BY FileNumbers, Sizes
<1>4. /\ call.start <= bf.offs /\ bf.offs + call.resid = call.start + call.nb
  BY <1>1 DEF DiskInv, Placed, FilePlaced
<1>5. Upto = bf.offs /\ DOMAIN user = 1 .. call.nb /\ Filled = bf.offs - call.start
  BY <1>1 DEF Upto, DiskInv, Typed, MemOK, Filled
<1>6. \A x \in Pos : (x >= call.start /\ x < bf.offs /\ x < call.start + call.nb) =>
        user[x - call.start + 1] = disk[x]
  <2> SUFFICES ASSUME NEW x \in Pos, x >= call.start, x < bf.offs, x < call.start + call.nb
               PROVE  user[x - call.start + 1] = disk[x]
    OBVIOUS
  <2>1. ~(x < call.start \/ x >= call.start + call.nb)
    BY <1>3 DEF Pos
  <2> QED  BY <1>5, <2>1 DEF DiskInv, Holds, MovedRight, ReadRight, WriteExact
<1>7. CASE call.step = "direct"
  <2>1. call.off + 0 * BlkSz = Filled + call.n /\ call.n <= call.resid
    BY <1>1, <1>2, <1>7 DEF DiskInv, Placed, DirectPlaced, Goal
  <2>2. 0 * BlkSz = 0 /\ Prog = 0
    BY <1>1, Blocks DEF Prog
  <2>3. call.start + call.off = bf.offs + call.n
    BY <1>3, <1>5, <2>1, <2>2
  <2>4. \A x \in Pos : (x >= call.start /\ x < call.start + call.off + 0 * BlkSz) =>
          user[x - call.start + 1] = disk[x]
    BY <1>2, <1>7, <2>2 DEF DiskInv, Holds, DirectHolds
  <2>5. user' = user
    BY <1>1, <1>7
  <2>6. \A x \in Pos : (x >= call.start /\ x < bf.offs + call.n) =>
          user[x - call.start + 1] = disk[x]
    BY <1>3, <2>2, <2>3, <2>4
  <2> QED  BY <2>1, <2>5, <2>6
<1>8. CASE call.step = "fetch"
  <2>1. /\ call.n <= call.resid /\ SubOffs + call.n <= BlkSz /\ DOMAIN llbuf = 1 .. BlkSz
    BY <1>2, <1>8 DEF DiskInv, Placed, PartPlaced, InLl
  <2>2. \A i \in 1 .. BlkSz : llbuf[i] = disk[bf.offs - SubOffs + i - 1]
    BY <1>1, <1>2, <1>8 DEF DiskInv, Holds, FetchHolds, Block
  <2>3. user' = [k \in DOMAIN user |-> IF k > Filled /\ k <= Filled + call.n
                                         THEN llbuf[SubOffs + k - Filled] ELSE user[k]]
    BY <1>1, <1>8 DEF Copied
  <2>4. ASSUME NEW x \in Pos, x >= call.start, x < bf.offs + call.n
        PROVE  user'[x - call.start + 1] = disk[x]
    <3> DEFINE k == x - call.start + 1
               i == SubOffs + k - Filled
    <3>1. /\ x \in Int /\ k \in 1 .. call.nb /\ x < call.start + call.nb
          /\ x < bf.offs => ~(k > Filled)
          /\ x >= bf.offs => k > Filled /\ k <= Filled + call.n /\ i \in 1 .. BlkSz
          /\ bf.offs - SubOffs + i - 1 = x
      <4>1. x \in Int /\ SubOffs \in Nat
        BY <1>3 DEF Pos
      <4>2. /\ bf.offs \in Nat /\ call.resid \in Nat /\ call.start \in Nat /\ call.nb \in Nat
            /\ call.n \in Nat /\ BlkSz \in Nat
        BY <1>3
      <4>3. Place(x, call.start, bf.offs, call.n, call.nb, SubOffs, BlkSz, k, Filled, i)
        BY ONLY <1>4, <1>5, <2>1, <2>4, <4>1, <4>2, Places, Zenon
      <4> QED  BY <4>1, <4>3 DEF Place
    <3>2. user'[k] = IF k > Filled /\ k <= Filled + call.n THEN llbuf[i] ELSE user[k]
      BY <1>5, <2>3, <3>1
    <3>3. CASE x < bf.offs
      BY <1>6, <2>4, <3>1, <3>2, <3>3
    <3>4. CASE x >= bf.offs
      <4>1. llbuf[i] = disk[bf.offs - SubOffs + i - 1]
        BY <2>2, <3>1, <3>4
      <4> QED  BY <3>1, <3>2, <3>4, <4>1
    <3> QED  BY <1>3, <3>1, <3>3, <3>4
  <2>5. DOMAIN user' = DOMAIN user
    BY <2>3
  <2> QED  BY <1>1, <1>8, <2>1, <2>4, <2>5
<1>9. CASE call.step = "store"
  <2>1. /\ call.n <= call.resid /\ SubOffs + call.n <= BlkSz
    BY <1>2, <1>9 DEF DiskInv, Placed, PartPlaced, InLl
  <2>2. \A i \in 1 .. BlkSz : (i > SubOffs /\ i <= SubOffs + call.n) =>
          disk[bf.offs - SubOffs + i - 1] = user[Filled + i - SubOffs]
    BY <1>1, <1>2, <1>9 DEF DiskInv, Holds, StoreHolds, Block, InPiece
  <2>3. user' = user
    BY <1>1, <1>9
  <2>4. ASSUME NEW x \in Pos, x >= call.start, x < bf.offs + call.n
        PROVE  user[x - call.start + 1] = disk[x]
    <3> DEFINE i == x - bf.offs + SubOffs + 1
    <3>1. x \in Int /\ x < call.start + call.nb
      BY <1>3, <1>4, <2>1, <2>4 DEF Pos
    <3>2. CASE x < bf.offs
      BY <1>6, <2>4, <3>1, <3>2
    <3>3. CASE x >= bf.offs
      <4>1. i \in 1 .. BlkSz /\ i > SubOffs /\ i <= SubOffs + call.n
        BY <1>3, <2>1, <2>4, <3>1, <3>3
      <4>2. bf.offs - SubOffs + i - 1 = x /\ Filled + i - SubOffs = x - call.start + 1
        <5>1. bf.offs \in Int /\ SubOffs \in Int /\ call.start \in Int /\ x \in Int
          BY <1>3, <3>1
        <5>2. /\ bf.offs - SubOffs + i - 1 = x
              /\ (bf.offs - call.start) + i - SubOffs = x - call.start + 1
          BY <5>1, Shift
        <5> QED  BY <1>5, <5>2
      <4>3. disk[bf.offs - SubOffs + i - 1] = user[Filled + i - SubOffs]
        BY <2>2, <4>1
      <4> QED  BY <4>2, <4>3
    <3> QED  BY <1>3, <3>1, <3>2, <3>3
  <2> QED  BY <2>1, <2>3, <2>4
<1> QED  BY <1>2, <1>7, <1>8, <1>9

LEMMA XferNextInv == ASSUME DiskInv, XferNext  PROVE DiskInv'
<1>1. /\ pc = "ata" /\ call.who = "file" /\ pc' = "loop"
      /\ bf' = [bf EXCEPT !.offs = @ + call.n]
      /\ call' = [call EXCEPT !.resid = @ - call.n]
      /\ UNCHANGED <<disk, att, llbuf, slot, ci, hw, before, overdue>>
  BY DEF XferNext
<1> DEFINE o == bf.offs + call.n
           r == call.resid - call.n
<1>2. /\ call.n <= call.resid /\ DOMAIN user' = DOMAIN user /\ (call.is_w => user' = user)
      /\ \A x \in Pos : (x >= call.start /\ x < o) => user'[x - call.start + 1] = disk[x]
  BY PieceHolds
<1>3. /\ bf.offs \in Nat /\ call.resid \in Nat /\ call.start \in Nat /\ call.nb \in Nat
      /\ call.n \in Nat /\ End \in Nat
  BY FileNumbers, Sizes
<1>4. /\ call.start <= bf.offs /\ bf.offs + call.resid = call.start + call.nb
      /\ call.start + call.nb <= End
  BY <1>1 DEF DiskInv, Placed, FilePlaced
<1>5. /\ o \in Nat /\ r \in Nat /\ o <= End /\ call.start <= o /\ o + r = call.start + call.nb
      /\ bf.offs <= o
  BY <1>2, <1>3, <1>4
<1>6. bf' = [bf EXCEPT !.offs = o] /\ call' = [call EXCEPT !.resid = r] /\ BfOK /\ CallOK
  BY <1>1 DEF DiskInv, Typed, BfOK, CallOK, CallSet
<1> HIDE DEF o, r
<1>7. /\ UNCHANGED <<call.who, call.is_w, call.start, call.nb, call.step, call.res>>
      /\ call'.resid = r /\ bf'.offs = o
  BY <1>6 DEF BfOK, CallOK, CallSet
<1>8. Settled' /\ PortOK' /\ CtlOK' /\ CmdPlaced'
  <2>1. slot' \in [cmd : Cmd, prdbc : Nat]
    BY <1>1 DEF DiskInv, Typed, PortOK
  <2> QED  BY <1>1, <2>1, DriverStep
<1>9. Typed'
  <2>1. CallOK'
    BY <1>5, <1>6 DEF CallOK, CallSet
  <2>2. BfOK'
    BY <1>5, <1>6, <1>7 DEF BfOK
  <2>3. MemOK'
    BY <1>1, <1>2, <1>7 DEF DiskInv, Typed, MemOK
  <2> QED  BY <1>8, <2>1, <2>2, <2>3 DEF Typed
<1>10. ~Busy'
  BY <1>1 DEF Busy
<1>11. Placed'
  <2>1. Stage'
    BY <1>1, <1>7, <1>10 DEF DiskInv, Placed, Stage
  <2>2. FilePlaced'
    BY <1>4, <1>5, <1>7 DEF FilePlaced
  <2> QED  BY <1>8, <1>10, <2>1, <2>2, QuietPlaced DEF Placed
<1>12. MovedRight'
  <2>1. Upto' = o /\ Upto = bf.offs
    BY <1>1, <1>7 DEF Upto
  <2>2. ReadRight'
    BY <1>1, <1>2, <1>7, <2>1 DEF ReadRight
  <2>3. WriteExact'
    <3> SUFFICES ASSUME call.is_w, NEW x \in Pos
                 PROVE  IF x < call.start \/ x >= call.start + call.nb THEN disk[x] = before[x]
                        ELSE IF x < o THEN disk[x] = user[x - call.start + 1]
                        ELSE disk[x] \in {before[x], user[x - call.start + 1]}
      BY <1>1, <1>2, <1>7, <2>1 DEF WriteExact
    <3>1. CASE x < call.start \/ x >= call.start + call.nb
      BY <3>1 DEF DiskInv, Holds, MovedRight, WriteExact
    <3>2. CASE ~(x < call.start \/ x >= call.start + call.nb) /\ x < o
      <4>1. x >= call.start
        BY <1>3, <3>2 DEF Pos
      <4> QED  BY <1>2, <3>2, <4>1
    <3>3. CASE ~(x < call.start \/ x >= call.start + call.nb) /\ ~(x < o)
      <4>1. ~(x < bf.offs)
        BY <1>3, <1>5, <3>3 DEF Pos
      <4> QED  BY <2>1, <3>3, <4>1 DEF DiskInv, Holds, MovedRight, WriteExact
    <3> QED  BY <3>1, <3>2, <3>3
  <2> QED  BY <2>2, <2>3 DEF MovedRight
<1>13. Holds'
  BY <1>10, <1>12 DEF Holds, DirectHolds, FetchHolds, StoreHolds
<1> QED  BY <1>8, <1>9, <1>11, <1>13 DEF DiskInv

-----------------------------------------------------------------------------
(* The controller moves a block.                                           *)

\* Where the block is on the disk, and in memory.
Base == (call.blk + hw.done) * BlkSz
Mem == call.off + hw.done * BlkSz

\* A buffer into which the block has been read.
Into(b) == [k \in DOMAIN b |-> IF k > Mem /\ k <= Mem + BlkSz
                                 THEN disk[Base + k - Mem - 1] ELSE b[k]]

\* The disk to which the block has been written from a buffer.
From(b) == [x \in Pos |-> IF x >= Base /\ x < Base + BlkSz
                            THEN b[call.off + (hw.done * BlkSz + x - Base + 1)] ELSE disk[x]]

\* Data is moved only for a command of a call, which is still waiting.
LEMMA MoveMeans ==
  ASSUME DiskInv, MoveBlock
  PROVE  /\ pc = "wait" /\ ci /\ att = "yes" /\ hw.st = "busy" /\ ~hw.lost /\ hw.cmd = slot.cmd
         /\ hw.cmd = Issued /\ Busy /\ call.blks \in 1 .. call.remain /\ call.blks <= MaxBlks
         /\ hw.done \in Nat /\ hw.done < call.blks /\ call.blk + hw.done < NBlk
         /\ hw' = [hw EXCEPT !.done = hw.done + 1] /\ overdue' = FALSE
         /\ UNCHANGED <<att, bf, pc, call, slot, ci, before>>
<1>1. /\ hw.st = "busy" /\ hw.done < Count(hw.cmd) /\ hw.cmd.blk + hw.done < NBlk
      /\ hw' = [hw EXCEPT !.done = hw.done + 1]
      /\ UNCHANGED <<att, bf, pc, call, slot, ci, before, overdue>>
  BY DEF MoveBlock
<1>2. pc = "wait" /\ ci /\ ~hw.lost /\ overdue = FALSE
  BY <1>1 DEF DiskInv, Settled
<1>3. hw.done \in Nat /\ CallOK
  BY DEF DiskInv, Typed, PortOK
<1>4. hw.cmd = slot.cmd /\ slot.cmd = IF att = "yes" THEN Issued ELSE NoData
  BY <1>1, <1>2 DEF DiskInv, Placed, CmdPlaced
<1>5. att = "yes"
  <2>1. Count(NoData) = 0
    BY DEF Count, NoData, NoCmd
  <2> QED  BY <1>1, <1>3, <1>4, <2>1
<1>6. call.blks \in 1 .. call.remain /\ call.blks <= MaxBlks /\ call.blks \in 1 .. MaxBlks
  BY <1>2, <1>3, <1>5, Sizes DEF DiskInv, Placed, CmdPlaced, CallOK, CallSet
<1>7. hw.cmd = Issued
  BY <1>4, <1>5
<1>8. hw.done < call.blks
  BY <1>1, <1>3, <1>6, <1>7, IssuedOK
<1>9. hw.cmd.blk = call.blk
  BY <1>7 DEF Issued
<1>10. overdue' = FALSE
  BY <1>1, <1>2
<1> QED  BY <1>1, <1>2, <1>3, <1>4, <1>5, <1>6, <1>7, <1>8, <1>9, <1>10 DEF Busy

\* What is moved: into llbuf or the caller's buffer, or from one of them.
LEMMA MoveData ==
  ASSUME DiskInv, MoveBlock
  PROVE  /\ (Writes /\ InLl) => UNCHANGED <<user, llbuf>> /\ disk' = From(llbuf)
         /\ (Writes /\ ~InLl) => UNCHANGED <<user, llbuf>> /\ disk' = From(user)
         /\ (~Writes /\ InLl) => UNCHANGED <<user, disk>> /\ llbuf' = Into(llbuf)
         /\ (~Writes /\ ~InLl) => UNCHANGED <<llbuf, disk>> /\ user' = Into(user)
<1>1. pc = "wait" /\ ~hw.lost /\ hw.cmd = Issued
  BY MoveMeans
<1>2. /\ hw.cmd.op = (IF Writes THEN "write" ELSE "read") /\ hw.cmd.blk = call.blk
      /\ hw.cmd.to = (IF InLl THEN "ll" ELSE "user") /\ hw.cmd.off = call.off /\ Alive
  BY <1>1 DEF Issued, Alive
<1> DEFINE cmd == hw.cmd
           base == (cmd.blk + hw.done) * BlkSz
           mem == cmd.off + hw.done * BlkSz
           In(b) == [k \in DOMAIN b |-> IF k > mem /\ k <= mem + BlkSz
                                          THEN disk[base + k - mem - 1] ELSE b[k]]
<1>3. /\ disk' = IF cmd.op = "read" THEN disk
                 ELSE [x \in Pos |-> IF x >= base /\ x < base + BlkSz
                                       THEN Source(cmd, hw.done * BlkSz + x - base + 1)
                                       ELSE disk[x]]
      /\ llbuf' = IF cmd.op = "read" /\ cmd.to = "ll" /\ Alive THEN In(llbuf) ELSE llbuf
      /\ user' = IF cmd.op = "read" /\ cmd.to = "user" /\ Alive THEN In(user) ELSE user
  BY DEF MoveBlock
<1>4. base = Base /\ mem = Mem
  BY <1>2 DEF Base, Mem
<1>5. \A b : In(b) = Into(b)
  BY <1>4 DEF Into
<1>6. \A i : Source(cmd, i) = IF InLl THEN llbuf[call.off + i] ELSE user[call.off + i]
  BY <1>2 DEF Source
<1> HIDE DEF In, base, mem
<1>7. CASE Writes
  <2>1. disk' = [x \in Pos |-> IF x >= Base /\ x < Base + BlkSz
                                 THEN Source(cmd, hw.done * BlkSz + x - Base + 1) ELSE disk[x]]
    BY <1>2, <1>3, <1>4, <1>7
  <2>2. CASE InLl
    BY <1>2, <1>3, <1>6, <1>7, <2>1, <2>2 DEF From
  <2>3. CASE ~InLl
    BY <1>2, <1>3, <1>6, <1>7, <2>1, <2>3 DEF From
  <2> QED  BY <1>2, <1>3, <1>7, <2>2, <2>3
<1>8. CASE ~Writes
  BY <1>2, <1>3, <1>5, <1>8
<1> QED  BY <1>7, <1>8

\* A block has moved: all that is left to show is what is held now.
LEMMA MovedInv ==
  ASSUME DiskInv, MoveBlock, DOMAIN user' = DOMAIN user,
         llbuf' = llbuf \/ (DOMAIN llbuf = 1 .. BlkSz /\ DOMAIN llbuf' = 1 .. BlkSz), Holds'
  PROVE  DiskInv'
<1>1. /\ pc = "wait" /\ ci /\ att = "yes" /\ hw.st = "busy" /\ ~hw.lost /\ hw.cmd = slot.cmd
      /\ hw.done \in Nat /\ hw.done < call.blks /\ hw' = [hw EXCEPT !.done = hw.done + 1]
      /\ overdue' = FALSE /\ UNCHANGED <<att, bf, pc, call, slot, ci, before>>
      /\ call.blks \in 1 .. call.remain
  BY MoveMeans
<1>2. slot' \in [cmd : Cmd, prdbc : Nat] /\ ci' \in BOOLEAN /\ call.blks \in Nat
      /\ hw \in [st : {"idle", "busy", "halted"}, cmd : Cmd, done : Nat, lost : BOOLEAN]
  BY <1>1 DEF DiskInv, Typed, PortOK, CallOK, CallSet
<1> DEFINE d == hw.done + 1
<1>3. d \in Nat /\ d <= call.blks
  BY <1>1, <1>2
<1> HIDE DEF d
<1>4. hw' = [hw EXCEPT !.done = d]
  BY <1>1 DEF d
<1>5. /\ hw' \in [st : {"idle", "busy", "halted"}, cmd : Cmd, done : Nat, lost : BOOLEAN]
      /\ hw'.st = "busy" /\ hw'.cmd = hw.cmd /\ hw'.done = d /\ hw'.lost = hw.lost
  BY <1>1, <1>2, <1>3, <1>4
<1>6. Typed'
  <2>1. BfOK' /\ CallOK' /\ CtlOK'
    BY <1>1 DEF DiskInv, Typed, BfOK, CallOK, CallSet, CtlOK
  <2>2. MemOK'
    BY <1>1 DEF DiskInv, Typed, MemOK
  <2>3. PortOK'
    BY <1>2, <1>5 DEF PortOK
  <2> QED  BY <2>1, <2>2, <2>3 DEF Typed
<1>7. Settled'
  BY <1>1, <1>5 DEF Settled
<1>8. Busy /\ Busy' /\ Issued' = Issued
  BY <1>1 DEF Busy, Issued, Writes, IsFetch, InLl
<1>9. SubOffs' = SubOffs /\ Filled' = Filled /\ InLl' = InLl
  BY <1>1 DEF SubOffs, Filled, InLl
<1>10. Placed'
  <2>1. Stage'
    BY <1>1, <1>8 DEF DiskInv, Placed, Stage
  <2>2. Goal' = Goal
    BY <1>1, <1>9 DEF Goal
  <2>3. FilePlaced' /\ DirectPlaced'
    BY <1>1, <1>8, <1>9, <2>2 DEF DiskInv, Placed, FilePlaced, DirectPlaced
  <2>4. PartPlaced'
    BY <1>1, <1>8, <1>9 DEF DiskInv, Placed, PartPlaced
  <2>5. CmdPlaced'
    BY <1>1, <1>3, <1>5, <1>8 DEF DiskInv, Placed, CmdPlaced
  <2> QED  BY <2>1, <2>3, <2>4, <2>5 DEF Placed
<1> QED  BY <1>6, <1>7, <1>10 DEF DiskInv

\* How far the command is, before and after.
LEMMA MoveProg ==
  ASSUME DiskInv, MoveBlock
  PROVE  /\ Prog = hw.done /\ Prog' = hw.done + 1 /\ UNCHANGED <<bf, call, before>> /\ Busy /\ Busy'
         /\ SubOffs' = SubOffs /\ Filled' = Filled /\ Upto' = Upto
<1>1. /\ pc = "wait" /\ ci /\ att = "yes" /\ hw.st = "busy"
      /\ hw' = [hw EXCEPT !.done = hw.done + 1] /\ UNCHANGED <<att, bf, pc, call, ci, before>>
  BY MoveMeans
<1>2. hw'.st = "busy" /\ hw'.done = hw.done + 1
  BY <1>1 DEF DiskInv, Typed, PortOK
<1> QED  BY <1>1, <1>2 DEF Prog, Busy, SubOffs, Filled, Upto

\* A block of a piece of whole blocks is as far into the caller's buffer as it
\* is behind the start of the call.
LEMMA DirectBlock ==
  ASSUME DiskInv, MoveBlock, call.step = "direct"
  PROVE  /\ Base \in Int /\ Mem \in Nat /\ Base = call.start + Mem /\ Mem + BlkSz <= call.nb
         /\ hw.done * BlkSz \in Int /\ Mem = call.off + hw.done * BlkSz
         /\ (hw.done + 1) * BlkSz = hw.done * BlkSz + BlkSz
         /\ call.start \in Nat /\ call.nb \in Nat /\ call.off \in Nat /\ BlkSz \in Nat
<1>1. /\ Busy /\ call.blks \in 1 .. call.remain /\ hw.done \in Nat /\ hw.done < call.blks
  BY MoveMeans
<1>2. /\ call.start \in Nat /\ call.nb \in Nat /\ call.off \in Nat /\ call.remain \in Nat
      /\ call.n \in Nat /\ bf.offs \in Nat /\ call.resid \in Nat /\ BlkSz \in Nat
      /\ call.blk \in Nat
  <2>1. CallOK /\ BlkSz \in Nat
    BY Sizes DEF DiskInv, Typed
  <2> QED  BY <2>1, FileNumbers DEF CallOK, CallSet
<1>3. /\ call.blk * BlkSz = call.start + call.off /\ call.off + call.remain * BlkSz = Goal
      /\ call.who = "file" => call.n <= call.resid
  BY <1>1 DEF DiskInv, Placed, DirectPlaced
<1>4. Goal <= call.nb
  <2>1. CASE call.who = "file"
    <3>1. bf.offs + call.resid = call.start + call.nb /\ Goal = (bf.offs - call.start) + call.n
      BY <2>1 DEF DiskInv, Placed, FilePlaced, Goal, Filled
    <3> QED  BY <1>2, <1>3, <2>1, <3>1
  <2>2. CASE call.who # "file"
    BY <1>2, <2>2 DEF Goal
  <2> QED  BY <2>1, <2>2
<1> DEFINE u == call.blk * BlkSz
           d == hw.done * BlkSz
           e == (hw.done + 1) * BlkSz
           r == call.remain * BlkSz
<1>5. /\ u \in Int /\ d \in Int /\ Base = u + d /\ e = d + BlkSz
      /\ 0 <= d /\ e <= r /\ r \in Int
  <2>1. /\ call.blk \in Int /\ hw.done \in Int /\ 0 \in Int /\ 1 \in Int /\ 0 <= hw.done
        /\ hw.done + 1 \in Int /\ call.remain \in Int /\ hw.done + 1 <= call.remain
    BY <1>1, <1>2
  <2>2. u \in Int /\ (call.blk + hw.done) * BlkSz = u + d
    BY <2>1, Blocks
  <2>3. d \in Int /\ (hw.done + 1) * BlkSz = d + 1 * BlkSz /\ 1 * BlkSz = BlkSz
    BY <2>1, Blocks
  <2>4. 0 * BlkSz = 0 /\ 0 * BlkSz <= d
    BY <2>1, Blocks
  <2>5. e <= r /\ r \in Int
    BY <2>1, Blocks, Zenon
  <2> QED  BY <2>2, <2>3, <2>4, <2>5 DEF Base
<1>6. u = call.start + call.off /\ call.off + r = Goal /\ Mem = call.off + d
  BY <1>3 DEF Mem
<1> HIDE DEF u, d, e, r
<1>7. /\ Base \in Int /\ Mem \in Nat /\ Base = call.start + Mem /\ Mem + BlkSz <= call.nb
  BY <1>2, <1>4, <1>5, <1>6
<1> QED  BY <1>2, <1>5, <1>6, <1>7 DEF d, e

\* The counters when a command has one block.
LEMMA OneBlock ==
  ASSUME NEW done \in Nat, NEW remain \in 0 .. 1, NEW blks \in 1 .. remain, NEW blk \in Nat, NEW n \in Nat,
         NEW b \in Nat, done < blks, blk + remain = b + 1, blk + done < n
  PROVE  done = 0 /\ remain = 1 /\ blk = b /\ b < n /\ blk + done = b
<1>1. remain = 1 /\ blks = 1
  OBVIOUS
<1> QED  BY <1>1

\* A block of a part goes through llbuf, and begins where the part's block does.
LEMMA PartBlock ==
  ASSUME DiskInv, MoveBlock, InLl
  PROVE  /\ hw.done = 0 /\ call.remain = 1 /\ call.off = 0 /\ Mem = 0 /\ hw.done * BlkSz = 0
         /\ Base \in Nat /\ Base = bf.offs - SubOffs /\ Base + BlkSz <= End
         /\ call.who = "file" /\ call.n <= call.resid /\ SubOffs + call.n <= BlkSz
         /\ DOMAIN llbuf = 1 .. BlkSz /\ BlkSz \in Nat
         /\ bf.offs \in Nat /\ call.resid \in Nat /\ call.start \in Nat /\ call.nb \in Nat
         /\ call.n \in Nat /\ SubOffs \in Nat
         /\ call.start <= bf.offs /\ bf.offs + call.resid = call.start + call.nb
<1>1. /\ Busy /\ call.blks \in 1 .. call.remain /\ hw.done \in Nat /\ hw.done < call.blks
      /\ call.blk + hw.done < NBlk
  BY MoveMeans
<1> DEFINE b == bf.offs \div BlkSz
<1>2. /\ call.who = "file" /\ call.remain \in 0 .. 1 /\ call.blk + call.remain = b + 1
      /\ call.remain = 1 => call.off = 0
      /\ call.n <= call.resid /\ SubOffs + call.n <= BlkSz /\ DOMAIN llbuf = 1 .. BlkSz
  BY <1>1 DEF DiskInv, Placed, PartPlaced
<1>3. /\ bf.offs \in Nat /\ call.resid \in Nat /\ call.start \in Nat /\ call.nb \in Nat
      /\ call.n \in Nat /\ SubOffs \in 0 .. BlkSz - 1 /\ b \in Nat
      /\ bf.offs = b * BlkSz + SubOffs
  BY FileNumbers
<1>4. call.blk \in Nat /\ call.blks \in Nat /\ BlkSz \in Nat /\ NBlk \in Nat
  BY Sizes DEF DiskInv, Typed, CallOK, CallSet
<1> HIDE DEF b
<1>5. hw.done = 0 /\ call.remain = 1 /\ call.off = 0 /\ call.blk = b /\ b < NBlk /\ call.blk + hw.done = b
  <2>1. hw.done = 0 /\ call.remain = 1 /\ call.blk = b /\ b < NBlk /\ call.blk + hw.done = b
    <3>1. /\ hw.done \in Nat /\ call.remain \in 0 .. 1 /\ call.blks \in 1 .. call.remain
          /\ call.blk \in Nat /\ NBlk \in Nat /\ b \in Nat
          /\ hw.done < call.blks /\ call.blk + call.remain = b + 1 /\ call.blk + hw.done < NBlk
      BY <1>1, <1>2, <1>3, <1>4
    <3> QED  BY ONLY <3>1, OneBlock
  <2> QED  BY <1>2, <2>1
<1>6. 0 * BlkSz = 0
  BY Blocks
<1>7. Mem = 0 /\ hw.done * BlkSz = 0 /\ Base = b * BlkSz
  BY <1>5, <1>6 DEF Mem, Base
<1>8. /\ b * BlkSz \in Int /\ 0 * BlkSz <= b * BlkSz
      /\ (b + 1) * BlkSz = b * BlkSz + 1 * BlkSz /\ 1 * BlkSz = BlkSz
      /\ (b + 1) * BlkSz <= NBlk * BlkSz
  <2>1. b \in Int /\ 0 \in Int /\ 1 \in Int /\ 0 <= b /\ NBlk \in Int /\ b + 1 \in Int /\ b + 1 <= NBlk
    BY <1>3, <1>4, <1>5
  <2>2. (b + 1) * BlkSz <= NBlk * BlkSz
    BY <2>1, Blocks, Zenon
  <2>3. b * BlkSz \in Int /\ 0 * BlkSz <= b * BlkSz
    BY <2>1, Blocks
  <2>4. (b + 1) * BlkSz = b * BlkSz + 1 * BlkSz /\ 1 * BlkSz = BlkSz
    BY <2>1, Blocks
  <2> QED  BY <2>2, <2>3, <2>4
<1>9. Base \in Nat /\ Base = bf.offs - SubOffs /\ Base + BlkSz <= End
  <2> DEFINE z == b * BlkSz
  <2>1. z \in Int /\ 0 <= z /\ z + BlkSz <= End /\ Base = z /\ bf.offs = z + SubOffs
    BY <1>3, <1>6, <1>7, <1>8 DEF End
  <2> HIDE DEF z
  <2> QED  BY <1>3, <1>4, <2>1
<1>10. call.start <= bf.offs /\ bf.offs + call.resid = call.start + call.nb
  BY <1>2 DEF DiskInv, Placed, FilePlaced
<1>11. SubOffs \in Nat
  BY <1>3
<1> QED  BY <1>2, <1>3, <1>4, <1>5, <1>7, <1>9, <1>10, <1>11

\* Whole blocks into the caller's buffer.
LEMMA MoveRead ==
  ASSUME DiskInv, MoveBlock, call.step = "direct", ~call.is_w
  PROVE  Holds' /\ DOMAIN user' = DOMAIN user /\ llbuf' = llbuf
<1>1. ~Writes /\ ~InLl
  BY DEF Writes, InLl
<1>2. UNCHANGED <<llbuf, disk>> /\ user' = Into(user)
  BY <1>1, MoveData
<1>3. /\ Base \in Int /\ Mem \in Nat /\ Base = call.start + Mem /\ Mem + BlkSz <= call.nb
      /\ hw.done * BlkSz \in Int /\ Mem = call.off + hw.done * BlkSz
      /\ (hw.done + 1) * BlkSz = hw.done * BlkSz + BlkSz
      /\ call.start \in Nat /\ call.nb \in Nat /\ call.off \in Nat /\ BlkSz \in Nat
  BY DirectBlock
<1>4. /\ Prog = hw.done /\ Prog' = hw.done + 1 /\ UNCHANGED <<bf, call, before>> /\ Busy
      /\ Upto' = Upto
  BY MoveProg
<1>5. DOMAIN user = 1 .. call.nb
  BY DEF DiskInv, Typed, MemOK
<1>6. ASSUME NEW x \in Pos, x >= call.start
      PROVE  /\ x < call.start + Mem => user'[x - call.start + 1] = user[x - call.start + 1]
             /\ (x >= call.start + Mem /\ x < call.start + Mem + BlkSz) =>
                  user'[x - call.start + 1] = disk[x]
             /\ user'[x - call.start + 1] \in {user[x - call.start + 1], disk[x]}
                  \/ x >= call.start + call.nb
  <2> DEFINE k == x - call.start + 1
  <2>1. x \in Int /\ k \in Int /\ k >= 1
    BY <1>3, <1>6 DEF Pos
  <2>2. k \in 1 .. call.nb => user'[k] = IF k > Mem /\ k <= Mem + BlkSz
                                           THEN disk[Base + k - Mem - 1] ELSE user[k]
    BY <1>2, <1>5 DEF Into
  <2>3. Base + k - Mem - 1 = x
    BY <1>3, <2>1
  <2>4. /\ x < call.start + Mem => k \in 1 .. call.nb /\ ~(k > Mem)
        /\ (x >= call.start + Mem /\ x < call.start + Mem + BlkSz) =>
             k \in 1 .. call.nb /\ k > Mem /\ k <= Mem + BlkSz
        /\ k \in 1 .. call.nb \/ x >= call.start + call.nb
    BY <1>3, <2>1
  <2> HIDE DEF k
  <2>5. /\ x < call.start + Mem => user'[k] = user[k]
        /\ (x >= call.start + Mem /\ x < call.start + Mem + BlkSz) => user'[k] = disk[x]
        /\ user'[k] \in {user[k], disk[x]} \/ x >= call.start + call.nb
    BY <2>2, <2>3, <2>4
  <2> QED  BY <2>5 DEF k
<1>7. DirectHolds'
  <2> SUFFICES ASSUME NEW x \in Pos, x >= call.start,
                      x < call.start + call.off + (hw.done + 1) * BlkSz
               PROVE  user'[x - call.start + 1] = disk[x]
    BY <1>2, <1>4 DEF DirectHolds
  <2> DEFINE d == hw.done * BlkSz
             e == (hw.done + 1) * BlkSz
  <2>0. d \in Int /\ e = d + BlkSz /\ Mem = call.off + d /\ x < call.start + call.off + e /\ x \in Int
    BY <1>3 DEF Pos
  <2>1. x < call.start + call.off + d => user[x - call.start + 1] = disk[x]
    BY <1>4 DEF DiskInv, Holds, DirectHolds
  <2> HIDE DEF d, e
  <2>2. x < call.start + Mem + BlkSz
    BY <1>3, <2>0
  <2>3. x < call.start + Mem => user[x - call.start + 1] = disk[x]
    BY <1>3, <2>0, <2>1
  <2>4. x < call.start + Mem \/ x >= call.start + Mem
    BY <1>3, <2>0
  <2> QED  BY <1>6, <2>2, <2>3, <2>4
<1>8. MovedRight'
  <2>1. WriteExact'
    BY <1>4 DEF WriteExact
  <2>2. ReadRight'
    <3> SUFFICES ASSUME NEW x \in Pos, x >= call.start, x < Upto
                 PROVE  user'[x - call.start + 1] = disk[x]
      BY <1>2, <1>4 DEF ReadRight
    <3>1. user[x - call.start + 1] = disk[x]
      BY DEF DiskInv, Holds, MovedRight, ReadRight
    <3>2. x < call.start + call.nb
      <4>1. CASE call.who = "file"
        <5>1. Upto = bf.offs /\ bf.offs + call.resid = call.start + call.nb
          BY <4>1 DEF Upto, DiskInv, Placed, FilePlaced
        <5>2. bf.offs \in Nat /\ call.resid \in Nat
          BY FileNumbers
        <5> QED  BY <1>3, <5>1, <5>2 DEF Pos
      <4>2. CASE call.who # "file"
        <5>1. Upto = call.start + call.nb \/ Upto = call.start
          BY <4>2 DEF Upto
        <5> QED  BY <1>3, <5>1 DEF Pos
      <4> QED  BY <4>1, <4>2
    <3>3. ~(x >= call.start + call.nb)
      BY <1>3, <3>2 DEF Pos
    <3> QED  BY <1>6, <3>1, <3>3
  <2> QED  BY <2>1, <2>2 DEF MovedRight
<1>9. FetchHolds' /\ StoreHolds'
  BY <1>4 DEF FetchHolds, StoreHolds
<1>10. DOMAIN user' = DOMAIN user
  BY <1>2 DEF Into
<1> QED  BY <1>2, <1>7, <1>8, <1>9, <1>10 DEF Holds

\* Whole blocks from the caller's buffer.
LEMMA MoveWrite ==
  ASSUME DiskInv, MoveBlock, call.step = "direct", call.is_w
  PROVE  Holds' /\ UNCHANGED <<user, llbuf>>
<1>1. Writes /\ ~InLl
  BY DEF Writes, InLl, IsFetch
<1>2. UNCHANGED <<user, llbuf>> /\ disk' = From(user)
  BY <1>1, MoveData
<1>3. /\ Base \in Int /\ Mem \in Nat /\ Base = call.start + Mem /\ Mem + BlkSz <= call.nb
      /\ hw.done * BlkSz \in Int /\ Mem = call.off + hw.done * BlkSz
      /\ (hw.done + 1) * BlkSz = hw.done * BlkSz + BlkSz
      /\ call.start \in Nat /\ call.nb \in Nat /\ call.off \in Nat /\ BlkSz \in Nat
  BY DirectBlock
<1>4. /\ Prog = hw.done /\ Prog' = hw.done + 1 /\ UNCHANGED <<bf, call, before>> /\ Busy
      /\ Upto' = Upto
  BY MoveProg
<1>5. ASSUME NEW x \in Pos
      PROVE  disk'[x] = IF x >= call.start + Mem /\ x < call.start + Mem + BlkSz
                          THEN user[x - call.start + 1] ELSE disk[x]
  <2> DEFINE d == hw.done * BlkSz
  <2>1. disk'[x] = IF x >= Base /\ x < Base + BlkSz
                     THEN user[call.off + (d + x - Base + 1)] ELSE disk[x]
    BY <1>2 DEF From
  <2>2. x \in Int /\ d \in Int /\ Mem = call.off + d
    BY <1>3 DEF Pos
  <2> HIDE DEF d
  <2>3. call.off + (d + x - Base + 1) = x - call.start + 1
    BY <1>3, <2>2
  <2> QED  BY <1>3, <2>1, <2>3
<1>6. DirectHolds'
  <2> SUFFICES ASSUME NEW x \in Pos, x >= call.start,
                      x < call.start + call.off + (hw.done + 1) * BlkSz
               PROVE  user[x - call.start + 1] = disk'[x]
    BY <1>2, <1>4 DEF DirectHolds
  <2> DEFINE d == hw.done * BlkSz
             e == (hw.done + 1) * BlkSz
  <2>0. d \in Int /\ e = d + BlkSz /\ Mem = call.off + d /\ x < call.start + call.off + e /\ x \in Int
    BY <1>3 DEF Pos
  <2>1. x < call.start + call.off + d => user[x - call.start + 1] = disk[x]
    BY <1>4 DEF DiskInv, Holds, DirectHolds
  <2> HIDE DEF d, e
  <2>2. x < call.start + Mem + BlkSz
    BY <1>3, <2>0
  <2>3. x < call.start + Mem => user[x - call.start + 1] = disk[x]
    BY <1>3, <2>0, <2>1
  <2>4. x < call.start + Mem \/ x >= call.start + Mem
    BY <1>3, <2>0
  <2> QED  BY <1>5, <2>2, <2>3, <2>4
<1>7. MovedRight'
  <2>1. ReadRight'
    BY <1>4 DEF ReadRight
  <2>2. WriteExact'
    <3> SUFFICES ASSUME NEW x \in Pos
                 PROVE  IF x < call.start \/ x >= call.start + call.nb THEN disk'[x] = before[x]
                        ELSE IF x < Upto THEN disk'[x] = user[x - call.start + 1]
                        ELSE disk'[x] \in {before[x], user[x - call.start + 1]}
      BY <1>2, <1>4 DEF WriteExact
    <3>1. IF x < call.start \/ x >= call.start + call.nb THEN disk[x] = before[x]
          ELSE IF x < Upto THEN disk[x] = user[x - call.start + 1]
          ELSE disk[x] \in {before[x], user[x - call.start + 1]}
      BY DEF DiskInv, Holds, MovedRight, WriteExact
    <3>2. CASE x >= call.start + Mem /\ x < call.start + Mem + BlkSz
      <4>1. ~(x < call.start \/ x >= call.start + call.nb)
        BY <1>3, <3>2 DEF Pos
      <4>2. disk'[x] = user[x - call.start + 1]
        BY <1>5, <3>2
      <4> QED  BY <4>1, <4>2
    <3>3. CASE ~(x >= call.start + Mem /\ x < call.start + Mem + BlkSz)
      <4>1. disk'[x] = disk[x]
        BY <1>5, <3>3
      <4> QED  BY <3>1, <4>1
    <3> QED  BY <3>2, <3>3
  <2> QED  BY <2>1, <2>2 DEF MovedRight
<1>8. FetchHolds' /\ StoreHolds'
  BY <1>4 DEF FetchHolds, StoreHolds
<1> QED  BY <1>2, <1>6, <1>7, <1>8 DEF Holds

\* A block into llbuf.
LEMMA MoveFetch ==
  ASSUME DiskInv, MoveBlock, call.step = "fetch"
  PROVE  Holds' /\ user' = user /\ DOMAIN llbuf = 1 .. BlkSz /\ DOMAIN llbuf' = 1 .. BlkSz
<1>1. ~Writes /\ InLl
  BY DEF Writes, InLl, IsFetch
<1>2. UNCHANGED <<user, disk>> /\ llbuf' = Into(llbuf)
  BY <1>1, MoveData
<1>3. /\ Mem = 0 /\ Base \in Nat /\ Base = bf.offs - SubOffs /\ BlkSz \in Nat
      /\ DOMAIN llbuf = 1 .. BlkSz /\ bf.offs \in Nat /\ SubOffs \in Nat
  BY <1>1, PartBlock
<1>4. /\ UNCHANGED <<bf, call, before>> /\ SubOffs' = SubOffs
  BY MoveProg
<1>5. DOMAIN llbuf' = 1 .. BlkSz
  BY <1>2, <1>3 DEF Into
<1>6. \A i \in 1 .. BlkSz : llbuf'[i] = disk[bf.offs - SubOffs + i - 1]
  <2> TAKE i \in 1 .. BlkSz
  <2>1. llbuf'[i] = IF i > Mem /\ i <= Mem + BlkSz THEN disk[Base + i - Mem - 1] ELSE llbuf[i]
    BY <1>2, <1>3 DEF Into
  <2>2. i > Mem /\ i <= Mem + BlkSz /\ Base + i - Mem - 1 = bf.offs - SubOffs + i - 1
    BY <1>3
  <2> QED  BY <2>1, <2>2
<1>7. FetchHolds'
  BY <1>2, <1>4, <1>6 DEF FetchHolds, Block
<1>8. MovedRight'
  BY <1>2, <1>4, StillTransfers DEF DiskInv, Holds
<1>9. DirectHolds' /\ StoreHolds'
  BY <1>4 DEF DirectHolds, StoreHolds
<1> QED  BY <1>2, <1>3, <1>5, <1>7, <1>8, <1>9 DEF Holds

\* A block from llbuf: around the new bytes the disk keeps what it holds.
LEMMA MoveStore ==
  ASSUME DiskInv, MoveBlock, call.step = "store"
  PROVE  Holds' /\ UNCHANGED <<user, llbuf>>
<1>1. InLl /\ Busy /\ call.is_w
  BY MoveMeans DEF InLl, DiskInv, Placed, PartPlaced
<1>2. Writes
  BY <1>1 DEF Writes, IsFetch
<1>3. UNCHANGED <<user, llbuf>> /\ disk' = From(llbuf)
  BY <1>1, <1>2, MoveData
<1>4. /\ hw.done = 0 /\ call.remain = 1 /\ call.off = 0 /\ hw.done * BlkSz = 0
      /\ Base \in Nat /\ Base = bf.offs - SubOffs /\ Base + BlkSz <= End
      /\ call.who = "file" /\ call.n <= call.resid /\ SubOffs + call.n <= BlkSz
      /\ BlkSz \in Nat
      /\ bf.offs \in Nat /\ call.resid \in Nat /\ call.start \in Nat /\ call.nb \in Nat
      /\ call.n \in Nat /\ SubOffs \in Nat
      /\ call.start <= bf.offs /\ bf.offs + call.resid = call.start + call.nb
  BY <1>1, PartBlock
<1>5. /\ UNCHANGED <<bf, call, before>> /\ SubOffs' = SubOffs /\ Filled' = Filled /\ Upto' = Upto
  BY MoveProg
<1>6. ASSUME NEW x \in Pos
      PROVE  disk'[x] = IF x >= Base /\ x < Base + BlkSz THEN llbuf[x - Base + 1] ELSE disk[x]
  <2>1. disk'[x] = IF x >= Base /\ x < Base + BlkSz
                     THEN llbuf[call.off + (hw.done * BlkSz + x - Base + 1)] ELSE disk[x]
    BY <1>3 DEF From
  <2>2. call.off + (hw.done * BlkSz + x - Base + 1) = x - Base + 1
    BY <1>4 DEF Pos
  <2> QED  BY <2>1, <2>2
<1>7. \A i \in 1 .. BlkSz :
        llbuf[i] = IF InPiece(i) THEN user[Filled + i - SubOffs] ELSE disk[Block(i)]
  BY <1>1 DEF DiskInv, Holds, StoreHolds
<1>8. ASSUME NEW i \in 1 .. BlkSz  PROVE disk'[Block(i)] = llbuf[i]
  <2> DEFINE x == Block(i)
  <2>1. x = Base + i - 1 /\ x \in Pos /\ x >= Base /\ x < Base + BlkSz /\ x - Base + 1 = i
    <3>1. End \in Nat
      BY Sizes
    <3> QED  BY <1>4, <3>1 DEF Block, Pos, End
  <2> HIDE DEF x
  <2>2. disk'[x] = llbuf[x - Base + 1]
    BY <1>6, <2>1
  <2> QED  BY <2>1, <2>2 DEF x
<1>9. StoreHolds'
  <2>1. \A i \in 1 .. BlkSz : Block(i)' = Block(i) /\ InPiece(i)' = InPiece(i)
    BY <1>5 DEF Block, InPiece
  <2>2. \A i \in 1 .. BlkSz :
           /\ llbuf[i] = IF InPiece(i) THEN user[Filled + i - SubOffs] ELSE disk'[Block(i)]
           /\ disk'[Block(i)] = llbuf[i]
    BY <1>7, <1>8
  <2> QED  BY <1>3, <1>5, <2>1, <2>2 DEF StoreHolds
<1>10. MovedRight'
  <2>1. ReadRight'
    BY <1>1, <1>5 DEF ReadRight
  <2>2. WriteExact'
    <3> SUFFICES ASSUME NEW x \in Pos
                 PROVE  IF x < call.start \/ x >= call.start + call.nb THEN disk'[x] = before[x]
                        ELSE IF x < Upto THEN disk'[x] = user[x - call.start + 1]
                        ELSE disk'[x] \in {before[x], user[x - call.start + 1]}
      BY <1>3, <1>5 DEF WriteExact
    <3>1. IF x < call.start \/ x >= call.start + call.nb THEN disk[x] = before[x]
          ELSE IF x < Upto THEN disk[x] = user[x - call.start + 1]
          ELSE disk[x] \in {before[x], user[x - call.start + 1]}
      BY <1>1 DEF DiskInv, Holds, MovedRight, WriteExact
    <3> DEFINE i == x - Base + 1
    <3>2. x \in Int
      BY DEF Pos
    <3>3. CASE x >= Base /\ x < Base + BlkSz
      <4>1. disk'[x] = llbuf[i] /\ i \in 1 .. BlkSz
        BY <1>4, <1>6, <3>2, <3>3
      <4>2. CASE InPiece(i)
        <5>1. llbuf[i] = user[Filled + i - SubOffs]
          BY <1>7, <4>1, <4>2
        <5>2. Filled + i - SubOffs = x - call.start + 1
          BY <1>4, <3>2 DEF Filled
        <5>3. i > SubOffs /\ i <= SubOffs + call.n
          BY <4>2 DEF InPiece
        <5>4. ~(x < call.start \/ x >= call.start + call.nb)
          BY <1>4, <3>2, <5>3
        <5> QED  BY <4>1, <5>1, <5>2, <5>4
      <4>3. CASE ~InPiece(i)
        <5>1. llbuf[i] = disk[Block(i)]
          BY <1>7, <4>1, <4>3
        <5>2. Block(i) = x
          BY <1>4, <3>2 DEF Block
        <5> QED  BY <3>1, <4>1, <5>1, <5>2
      <4> QED  BY <4>2, <4>3
    <3>4. CASE ~(x >= Base /\ x < Base + BlkSz)
      <4>1. disk'[x] = disk[x]
        BY <1>6, <3>4
      <4> QED  BY <3>1, <4>1
    <3> QED  BY <3>3, <3>4
  <2> QED  BY <2>1, <2>2 DEF MovedRight
<1>11. DirectHolds' /\ FetchHolds'
  BY <1>5 DEF DirectHolds, FetchHolds
<1> QED  BY <1>3, <1>9, <1>10, <1>11 DEF Holds

LEMMA MoveBlockInv == ASSUME DiskInv, MoveBlock  PROVE DiskInv'
<1>1. call.step \in {"fetch", "store", "direct"} /\ call.is_w \in BOOLEAN
  BY MoveMeans DEF DiskInv, Placed, Stage, Typed, CallOK, CallSet
<1>2. CASE call.step = "fetch"
  BY <1>2, MoveFetch, MovedInv
<1>3. CASE call.step = "store"
  BY <1>3, MoveStore, MovedInv
<1>4. CASE call.step = "direct"
  BY <1>1, <1>4, MoveRead, MoveWrite, MovedInv
<1> QED  BY <1>1, <1>2, <1>3, <1>4

-----------------------------------------------------------------------------
(* Calls.                                                                  *)

\* Without a call there is nothing to be right about.
LEMMA NoCallRight == ASSUME call' = NoCall  PROVE MovedRight'
<1>1. ~call'.is_w /\ call'.start = 0 /\ call'.who = "none" /\ call'.res = "none"
  BY DEF NoCall
<1>2. Upto' = 0
  BY <1>1 DEF Upto
<1>3. ReadRight'
  BY <1>1, <1>2 DEF ReadRight, Pos
<1> QED  BY <1>1, <1>3 DEF MovedRight, WriteExact

LEMMA IdleInv ==
  ASSUME DiskInv, pc \in {"idle", "done"}, pc' = "idle", call' = NoCall,
         BfOK', MemOK', slot' \in [cmd : Cmd, prdbc : Nat], bf'.open => bf.open \/ att = "yes",
         UNCHANGED <<att, ci, hw, overdue>>
  PROVE  DiskInv'
<1>1. Settled' /\ PortOK' /\ CtlOK' /\ CmdPlaced'
  BY DriverStep
<1>2. CallOK'
  BY DEF CallOK, CallSet, NoCall
<1>3. ~Busy'
  BY DEF Busy
<1>4. call'.who = "none"
  BY DEF NoCall
<1>5. Stage'
  <2>1. att \notin {"hba", "port"} /\ (bf.open => att = "yes")
    BY DEF DiskInv, Placed, Stage
  <2> QED  BY <1>3, <1>4, <2>1 DEF Stage
<1>6. FilePlaced'
  BY <1>4 DEF FilePlaced
<1>7. MovedRight'
  BY NoCallRight
<1>8. Holds'
  BY <1>3, <1>7 DEF Holds, DirectHolds, FetchHolds, StoreHolds
<1> QED  BY <1>1, <1>2, <1>3, <1>5, <1>6, <1>8, QuietPlaced DEF DiskInv, Typed, Placed

LEMMA IdleSteps ==
  ASSUME DiskInv,
         \/ \E m \in {"read", "write", "both"} : Open(m)
         \/ Close \/ Taken
         \/ \E to \in 0 .. End + 1 : LSeek(to)
  PROVE  DiskInv'
<1>1. /\ slot \in [cmd : Cmd, prdbc : Nat] /\ DOMAIN user = 1 .. call.nb
      /\ (llbuf = <<>> \/ DOMAIN llbuf = 1 .. BlkSz) /\ (pc = "idle" => call = NoCall)
      /\ BfOK /\ End \in Nat
  BY Sizes DEF DiskInv, Typed, PortOK, MemOK, Placed, Stage
<1>2. CASE Taken
  <2>1. /\ pc = "done" /\ pc' = "idle" /\ call' = NoCall /\ user' = <<>>
        /\ slot' = [slot EXCEPT !.prdbc = 0] /\ UNCHANGED <<att, bf, llbuf, ci, hw, overdue>>
    BY <1>2 DEF Taken
  <2>2. slot' \in [cmd : Cmd, prdbc : Nat]
    BY <1>1, <2>1
  <2>3. call'.nb = 0
    BY <2>1 DEF NoCall
  <2>4. MemOK'
    BY <1>1, <2>1, <2>3 DEF MemOK
  <2>5. BfOK' /\ (bf'.open => bf.open)
    BY <1>1, <2>1 DEF BfOK
  <2> QED  BY <2>1, <2>2, <2>4, <2>5, IdleInv
<1>3. CASE ~Taken
  <2>1. pc = "idle" /\ UNCHANGED <<att, pc, call, user, llbuf, slot, ci, hw, overdue>>
    BY <1>3 DEF Open, Close, LSeek, Quiet
  <2>2. BfOK' /\ (bf'.open => bf.open \/ att = "yes")
    <3>1. CASE \E m \in {"read", "write", "both"} : Open(m)
      BY <1>1, <3>1 DEF Open, BfOK
    <3>2. CASE Close
      BY <1>1, <3>2 DEF Close, BfOK
    <3>3. CASE \E to \in 0 .. End + 1 : LSeek(to)
      <4>1. PICK to \in 0 .. End + 1 : LSeek(to)
        BY <3>3
      <4>2. bf.open /\ to <= End /\ bf' = [bf EXCEPT !.offs = to] /\ to \in Nat
        BY <1>1, <4>1 DEF LSeek
      <4>3. bf'.offs = to /\ bf'.open = bf.open
            /\ bf' \in [open : BOOLEAN, mode : {"none", "read", "write", "both"}, offs : Nat]
        BY <1>1, <4>2 DEF BfOK
      <4> QED  BY <4>2, <4>3 DEF BfOK
    <3> QED  BY <1>3, <3>1, <3>2, <3>3
  <2>3. MemOK'
    BY <1>1, <2>1 DEF MemOK
  <2> QED  BY <1>1, <2>1, <2>2, <2>3, IdleInv
<1> QED  BY <1>2, <1>3

\* A call begins: nothing has been moved for it.
LEMMA BeginInv ==
  ASSUME DiskInv, NEW c, Begin(c), pc = "idle", pc' \in {"loop", "ata"}, bf' = bf, att = "yes",
         CallOK', c.res = "none", c.who \in {"file", "ata"},
         pc' = "loop" => c.who = "file", pc' = "ata" => c.step = "direct",
         c.who = "ata" => c.step = "direct",
         c.who = "file" => c.start = bf.offs, FilePlaced', DirectPlaced', PartPlaced',
         DirectHolds', FetchHolds', StoreHolds'
  PROVE  DiskInv'
<1>1. /\ call' = c /\ user' = [k \in 1 .. c.nb |-> IF c.is_w THEN NewByte(k) ELSE Junk]
      /\ before' = disk /\ UNCHANGED <<disk, att, llbuf, slot, ci, hw, overdue>>
  BY DEF Begin
<1>2. Settled' /\ PortOK' /\ CtlOK' /\ CmdPlaced'
  <2>1. slot' \in [cmd : Cmd, prdbc : Nat]
    BY <1>1 DEF DiskInv, Typed, PortOK
  <2> QED  BY <1>1, <2>1, DriverStep
<1>3. Typed'
  <2>1. MemOK' /\ BfOK'
    BY <1>1 DEF DiskInv, Typed, MemOK, BfOK
  <2> QED  BY <1>2, <2>1 DEF Typed
<1>4. Stage'
  BY <1>1 DEF DiskInv, Placed, Stage, Busy
<1>5. MovedRight'
  <2>1. Upto' = c.start /\ c.start \in Nat /\ c.nb \in Nat
    BY <1>1 DEF Upto, CallOK, CallSet
  <2>2. ReadRight'
    BY <1>1, <2>1 DEF ReadRight, Pos
  <2>3. WriteExact'
    <3> SUFFICES ASSUME NEW x \in Pos
                 PROVE  LET new == user'[x - c.start + 1]
                        IN  IF x < c.start \/ x >= c.start + c.nb THEN disk[x] = disk[x]
                            ELSE IF x < c.start THEN disk[x] = new
                            ELSE disk[x] \in {disk[x], new}
      BY <1>1, <2>1 DEF WriteExact
    <3> QED  OBVIOUS
  <2> QED  BY <2>2, <2>3 DEF MovedRight
<1> QED  BY <1>2, <1>3, <1>4, <1>5 DEF DiskInv, Placed, Holds

LEMMA ReadWriteInv ==
  ASSUME DiskInv, NEW len \in Lens, NEW w \in BOOLEAN, ReadWrite(len, w)
  PROVE  DiskInv'
<1> DEFINE nb == MinOf(len, End - bf.offs)
           c == [NoCall EXCEPT !.who = "file", !.is_w = w, !.start = bf.offs,
                               !.nb = nb, !.resid = nb]
<1>1. pc = "idle" /\ bf.open /\ Begin(c) /\ pc' = "loop" /\ bf' = bf
  BY DEF ReadWrite
<1>2. bf.offs \in Nat /\ bf.offs <= End /\ len \in Nat /\ End \in Nat
  BY DiskAssumption, Sizes DEF DiskInv, Typed, BfOK
<1>3. nb \in Nat /\ bf.offs + nb <= End
  BY <1>2 DEF MinOf
<1>4. att = "yes"
  BY <1>1 DEF DiskInv, Placed, Stage
<1> HIDE DEF nb
<1>5. /\ c \in CallSet /\ c.who = "file" /\ c.start = bf.offs /\ c.nb = nb /\ c.resid = nb
      /\ c.res = "none"
  <2>1. NoCall \in CallSet /\ NoCall.res = "none"
    BY DEF NoCall, CallSet
  <2> QED  BY ONLY <1>2, <1>3, <2>1, w \in BOOLEAN DEF CallSet
<1>6. call' = c
  BY <1>1 DEF Begin
<1> HIDE DEF c
<1>7. CallOK'
  BY <1>5, <1>6 DEF CallOK
<1>8. ~Busy'
  BY <1>1 DEF Busy
<1>9. FilePlaced'
  BY <1>1, <1>2, <1>3, <1>5, <1>6 DEF FilePlaced
<1>10. DirectHolds' /\ FetchHolds' /\ StoreHolds' /\ DirectPlaced' /\ PartPlaced'
  BY <1>8 DEF DirectHolds, FetchHolds, StoreHolds, DirectPlaced, PartPlaced
<1> QED  BY <1>1, <1>4, <1>5, <1>7, <1>9, <1>10, BeginInv

LEMMA AtaCommandInv ==
  ASSUME DiskInv, NEW blk \in Nat, NEW cnt \in Nat, NEW w \in BOOLEAN, AtaCommand(blk, cnt, w)
  PROVE  DiskInv'
<1> DEFINE s == blk * BlkSz
           nb == cnt * BlkSz
           c == [NoCall EXCEPT !.who = "ata", !.is_w = w, !.start = s, !.nb = nb,
                               !.blk = blk, !.remain = cnt, !.step = "direct"]
<1>1. pc = "idle" /\ att = "yes" /\ Begin(c) /\ pc' = "ata" /\ bf' = bf
  BY DEF AtaCommand
<1>2. s \in Nat /\ nb \in Nat
  <2>1. blk \in Int /\ cnt \in Int /\ 0 \in Int /\ 0 <= blk /\ 0 <= cnt
    OBVIOUS
  <2>2. s \in Int /\ 0 * BlkSz <= s /\ 0 * BlkSz = 0
    BY <2>1, Blocks
  <2>3. nb \in Int /\ 0 * BlkSz <= nb
    BY <2>1, Blocks
  <2> QED  BY <2>2, <2>3
<1> HIDE DEF s, nb
<1>3. /\ c \in CallSet /\ c.who = "ata" /\ c.step = "direct" /\ c.start = s /\ c.nb = nb
      /\ c.blk = blk /\ c.remain = cnt /\ c.off = 0 /\ c.res = "none"
  <2>1. NoCall \in CallSet /\ NoCall.res = "none" /\ NoCall.off = 0
    BY DEF NoCall, CallSet
  <2> QED  BY ONLY <1>2, <2>1, w \in BOOLEAN, blk \in Nat, cnt \in Nat DEF CallSet
<1>4. call' = c
  BY <1>1 DEF Begin
<1> HIDE DEF c
<1>5. CallOK'
  BY <1>3, <1>4 DEF CallOK
<1>7. FilePlaced' /\ PartPlaced' /\ FetchHolds' /\ StoreHolds'
  BY <1>3, <1>4 DEF FilePlaced, PartPlaced, FetchHolds, StoreHolds, InLl
<1>8. DirectPlaced'
  <2>1. Goal' = nb
    BY <1>3, <1>4 DEF Goal
  <2>2. blk * BlkSz = s + 0 /\ 0 + cnt * BlkSz = nb
    <3>1. s = s + 0 /\ 0 + nb = nb
      BY <1>2
    <3> QED  BY <3>1 DEF s, nb
  <2> QED  BY <1>3, <1>4, <2>1, <2>2 DEF DirectPlaced
<1>9. DirectHolds'
  <2>1. Prog' = 0
    BY <1>1 DEF Prog
  <2>2. 0 * BlkSz = 0
    BY Blocks
  <2>3. (call.start + call.off + Prog * BlkSz)' = s + 0 + 0
    BY <1>3, <1>4, <2>1, <2>2
  <2>4. \A x \in Pos : ~(x >= s /\ x < s + 0 + 0)
    BY <1>2 DEF Pos
  <2> QED  BY <1>3, <1>4, <2>3, <2>4 DEF DirectHolds
<1> QED  BY <1>1, <1>3, <1>5, <1>7, <1>8, <1>9, BeginInv

-----------------------------------------------------------------------------
(* The theorems.                                                           *)

LEMMA DiskInit == ASSUME Init  PROVE DiskInv
<1>1. /\ att = "hba" /\ pc = "attach" /\ bf = [open |-> FALSE, mode |-> "none", offs |-> 0]
      /\ call = NoCall /\ user = <<>> /\ llbuf = <<>> /\ slot = NoSlot /\ ci = FALSE
      /\ hw = NoWork /\ overdue = FALSE
  BY DEF Init
<1>2. NoCmd \in Cmd
  BY DEF NoCmd, Cmd
<1>3. NoSlot \in [cmd : Cmd, prdbc : Nat]
  BY <1>2 DEF NoSlot
<1>4. /\ NoWork \in [st : {"idle", "busy", "halted"}, cmd : Cmd, done : Nat, lost : BOOLEAN]
      /\ NoWork.st = "idle"
  BY <1>2 DEF NoWork
<1>5. NoCall \in CallSet /\ NoCall.who = "none" /\ NoCall.nb = 0
      /\ NoCall.is_w = FALSE /\ NoCall.start = 0 /\ NoCall.res = "none"
  BY DEF NoCall, CallSet
<1>6. Typed
  <2>1. BfOK
    BY <1>1, Sizes DEF BfOK
  <2>2. CallOK /\ PortOK /\ CtlOK
    BY <1>1, <1>3, <1>4, <1>5 DEF CallOK, PortOK, CtlOK
  <2>3. MemOK
    BY <1>1, <1>5 DEF MemOK
  <2> QED  BY <2>1, <2>2, <2>3 DEF Typed
<1>7. Settled
  BY <1>1, <1>4 DEF Settled
<1>8. ~Busy
  BY <1>1 DEF Busy
<1>9. Placed
  <2>1. Stage
    BY <1>1, <1>5, <1>8 DEF Stage
  <2>2. FilePlaced /\ DirectPlaced /\ PartPlaced
    BY <1>1, <1>5, <1>8 DEF FilePlaced, DirectPlaced, PartPlaced
  <2>3. CmdPlaced
    BY <1>1, <1>4 DEF CmdPlaced
  <2> QED  BY <2>1, <2>2, <2>3 DEF Placed
<1>10. Holds
  <2>1. Upto = 0
    BY <1>1, <1>5 DEF Upto
  <2>2. ReadRight /\ WriteExact
    BY <1>1, <1>5, <2>1 DEF ReadRight, WriteExact, Pos
  <2> QED  BY <1>8, <2>2 DEF Holds, DirectHolds, FetchHolds, StoreHolds, MovedRight
<1> QED  BY <1>6, <1>7, <1>9, <1>10 DEF DiskInv

LEMMA DiskStutter == ASSUME DiskInv, UNCHANGED vars  PROVE DiskInv'
<1>1. UNCHANGED <<disk, att, bf, pc, call, user, llbuf, slot, ci, hw, before, overdue>>
  BY DEF vars, driver
<1>2. Busy' = Busy /\ Prog' = Prog /\ SubOffs' = SubOffs /\ Filled' = Filled /\ InLl' = InLl
      /\ Issued' = Issued
  BY <1>1 DEF Busy, Prog, SubOffs, Filled, InLl, Issued, Writes, IsFetch
<1>3. Goal' = Goal
  BY <1>1, <1>2 DEF Goal
<1>4. Typed' /\ Settled'
  BY <1>1 DEF DiskInv, Typed, Settled, BfOK, CallOK, PortOK, MemOK, CtlOK
<1>5. Placed'
  BY <1>1, <1>2, <1>3 DEF DiskInv, Placed, Stage, FilePlaced, DirectPlaced, PartPlaced, CmdPlaced
<1>6. Holds'
  <2>1. UNCHANGED Core /\ Prog \in Nat /\ CallOK
    BY <1>1, ProgNat DEF Core, DiskInv, Typed
  <2> QED  BY <1>1, <1>2, <2>1, StillHolds DEF DiskInv
<1> QED  BY <1>4, <1>5, <1>6 DEF DiskInv

\* Every step preserves the invariant, unless a timeout is overdue.
LEMMA DiskStep == ASSUME ~overdue', DiskInv, [Next]_vars  PROVE DiskInv'
<1>1. CASE Call
  <2>1. ASSUME NEW blk \in 0 .. NBlk - 1, NEW cnt \in 1 .. MaxBlks + 1, NEW w \in BOOLEAN,
               AtaCommand(blk, cnt, w)
        PROVE  DiskInv'
    <3>1. blk \in Nat /\ cnt \in Nat
      BY Sizes
    <3> QED  BY <2>1, <3>1, AtaCommandInv
  <2>2. CASE ReadMbr
    BY <2>2, AtaCommandInv DEF ReadMbr
  <2> QED  BY <1>1, <2>1, <2>2, IdleSteps, ReadWriteInv DEF Call
<1>2. CASE Driver
  BY <1>2, AttachSteps, AtaIssueInv, AtaNextInv, AtaTimeoutInv, ReturnSteps, XferPartInv,
     XferWholeInv, XferStoreInv, XferNextInv DEF Driver
<1>3. CASE Controller
  BY <1>3, FetchInv, MoveBlockInv, CompleteInv, FaultInv DEF Controller
<1>4. CASE UNCHANGED vars
  BY <1>4, DiskStutter
<1> QED  BY <1>1, <1>2, <1>3, <1>4 DEF Next

\* Nothing undoes an overdue timeout.
LEMMA OverdueStays == ASSUME overdue, [Next]_vars  PROVE overdue'
BY DEF Next, Call, Driver, Controller, vars, driver, HbaReset, InitPort, AttachIssue, AttachNext,
       AttachFails, NotAttached, AtaIssue, AtaNext, AtaTimeout, AtaReturn, XferPart, XferNoMem,
       XferWhole, XferStore, XferNext, XferEnd, Fetch, MoveBlock, Complete, Fault, Open, Close,
       Taken, ReadMbr, LSeek, ReadWrite, AtaCommand, Begin, Quiet

\* Typed, Settled, Placed and Holds are true of every state of the driver and
\* the controller, until a timeout is overdue.
THEOREM DiskInvariant == Spec => [](overdue \/ DiskInv)
<1>1. Init => (overdue \/ DiskInv)
  BY DiskInit
<1>2. (overdue \/ DiskInv) /\ [Next]_vars => (overdue \/ DiskInv)'
  BY DiskStep, OverdueStays
<1> QED  BY <1>1, <1>2, PTL DEF Spec

\* What blkfile_xfer, ata_blk_data_rw and the AHCI slot make of a read or a
\* write is right byte for byte, for every size of block, command, transfer and
\* call, and also when a command fails or there is no memory; until the driver
\* gives up on a command the controller is still to do.
THEOREM EveryTransferRight == Spec => []TransfersRight
<1>1. (overdue \/ DiskInv) => TransfersRight
  BY DEF DiskInv, Holds, TransfersRight
<1> QED  BY <1>1, DiskInvariant, PTL
=============================================================================
