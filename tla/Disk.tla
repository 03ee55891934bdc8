-------------------------------- MODULE Disk --------------------------------
(***************************************************************************)
(* A file on a disk device (drivers/block/block_file.c) down to the one    *)
(* command slot of the AHCI port (drivers/ata), and the disk controller    *)
(* beside it.                                                              *)
(*                                                                         *)
(* blkfile_xfer cuts a transfer into pieces: a block of which only a part  *)
(* is wanted goes through a buffer of its own (llbuf), whole blocks go     *)
(* straight to the caller's memory.  ata_blk_data_rw cuts a piece into     *)
(* commands, and a command is written to slot 0 and polled for.  A command *)
(* that fails halts the controller, which then keeps its bit in PxCI until *)
(* the port is stopped; the driver only ever sees a timeout.  The timeout  *)
(* may also come while the controller is still at work (overdue): the      *)
(* command then stays in the slot, and the next one is mixed up with it.   *)
(*                                                                         *)
(* The driver is one thread; the controller runs beside it and moves one   *)
(* block at a time.  Detaching a disk is never called and not modelled.    *)
(***************************************************************************)
EXTENDS Integers, Sequences, FiniteSets, Functions

CONSTANTS
  BlkSz,    \* bd_blk_sz
  NBlk,     \* bd_lba, how many blocks the disk has
  MaxIo,    \* BLKFILE_MAX_IO_BYTES
  MaxBlks,  \* bd_maxblks, the most blocks of one command
  CntMod,   \* 256 or 65536: the count field of a command is modulo CntMod
  MaxPrd,   \* AHCI_MAX_PRD_DATA_SZ
  Lens,     \* the lengths of reads and writes
  MaxCalls  \* bound on the number of reads and writes

ASSUME DiskAssumption ==
  /\ BlkSz \in Nat \ {0} /\ NBlk \in Nat \ {0} /\ MaxPrd \in Nat \ {0}
  /\ MaxIo \in Nat \ {0} /\ MaxIo % BlkSz = 0
  /\ MaxBlks \in Nat \ {0} /\ CntMod \in Nat /\ MaxBlks <= CntMod
  /\ Lens \subseteq Nat \ {0} /\ MaxCalls \in Nat

VARIABLES
  disk,     \* the bytes on the disk
  att,      \* how far ahci_disk_attach has come
  bf,       \* the open block file
  pc,       \* what the driver is doing
  call,     \* the call in progress, or the last one
  user,     \* the caller's buffer
  llbuf,    \* the buffer for a part of a block, <<>> while there is none
  slot,     \* what the driver wrote to command slot 0
  ci,       \* bit 0 of PxCI
  hw,       \* the controller
  before,   \* the disk when the call began
  overdue,  \* the driver gave up on a command the controller was still to do
  calls     \* reads and writes so far

driver == <<att, bf, pc, call, user, llbuf>>
vars == <<driver, disk, slot, ci, hw, before, overdue, calls>>

Pos == 0 .. NBlk * BlkSz - 1
End == NBlk * BlkSz
MinOf(a, b) == IF a < b THEN a ELSE b
Junk == -1                     \* what memory holds before it is written
Fresh(x) == 100 + x            \* what the disk holds at first
NewByte(k) == k                \* the k-th byte of a caller's buffer

NoCall == [who |-> "none", is_w |-> FALSE, start |-> 0, nb |-> 0, resid |-> 0,
           step |-> "none", n |-> 0, blk |-> 0, remain |-> 0, blks |-> 0,
           off |-> 0, res |-> "none"]
NoCmd == [op |-> "none", blk |-> 0, cnt |-> 0, to |-> "none", off |-> 0,
          len |-> 0]
NoWork == [st |-> "idle", cmd |-> NoCmd, done |-> 0, lost |-> FALSE]
NoSlot == [cmd |-> NoCmd, prdbc |-> 0]

Init ==
  /\ disk = [x \in Pos |-> Fresh(x)] /\ before = disk
  /\ att = "hba" /\ pc = "attach"
  /\ bf = [open |-> FALSE, mode |-> "none", offs |-> 0]
  /\ call = NoCall /\ user = <<>> /\ llbuf = <<>>
  /\ slot = NoSlot /\ ci = FALSE /\ hw = NoWork
  /\ overdue = FALSE /\ calls = 0
-----------------------------------------------------------------------------
(* The port.                                                               *)

\* ahci_fill_prd: how a buffer is cut into descriptors.
PrdCnt(len) == (len - 1) \div MaxPrd + 1
Prd(len) == [i \in 1 .. PrdCnt(len) |-> MinOf(len - (i - 1) * MaxPrd, MaxPrd)]
PrdBytes(len) == SumFunctionOnSet(Prd(len), DOMAIN Prd(len))

\* The count field of a command FIS is too short for the largest count.
CountField(n) == n % CntMod

\* Fill slot 0 and set its bit in PxCI.
Issue(cmd) ==
  /\ slot' = [cmd |-> cmd, prdbc |-> 0]
  /\ ci' = TRUE
  /\ pc' = "wait"

\* ahci_stop_cmd_engine clears PxCI and whatever the controller was doing.
StopEngine ==
  /\ ci' = FALSE
  /\ hw' = NoWork

\* ata_wait_cmd_completed comes back with 0.
Polled == pc = "wait" /\ ~ci

\* Its count runs out, whatever the controller is doing.
NeverGivesUp == FALSE
GivesUp == pc = "wait" /\ ci
-----------------------------------------------------------------------------
(* ahci_plt_attach resets the controller and looks for a link on the port; *)
(* ahci_disk_attach identifies the disk, sets its transfer mode and resets *)
(* it in two steps.                                                        *)

NotAttached ==
  /\ att' = "failed" /\ pc' = "idle"
  /\ UNCHANGED <<disk, bf, call, user, llbuf, slot, before, overdue, calls>>

\* The controller comes out of its reset, or does not.
HbaReset ==
  /\ att = "hba"
  /\ StopEngine
  /\ \/ NotAttached
     \/ /\ att' = "port"
        /\ UNCHANGED <<disk, bf, pc, call, user, llbuf, slot, before, overdue, calls>>

\* ahci_init_port: a port that does not stop, or finds no disk, has no link.
InitPort ==
  /\ att = "port"
  /\ UNCHANGED <<ci, hw>>
  /\ \/ NotAttached
     \/ /\ att' = "id"
        /\ UNCHANGED <<disk, bf, pc, call, user, llbuf, slot, before, overdue, calls>>

AttachStep == [id |-> "mode", mode |-> "srst", srst |-> "srst2", srst2 |-> "yes"]

\* ahci_kick_engine: the reset begins with an engine that was stopped.
KickEngine == IF att = "srst" THEN hw' = NoWork ELSE UNCHANGED hw

\* Each command of the attachment.
AttachIssue ==
  /\ pc = "attach" /\ att \in DOMAIN AttachStep
  /\ Issue([NoCmd EXCEPT !.op = "nodata"])
  /\ KickEngine
  /\ UNCHANGED <<disk, att, bf, call, user, llbuf, before, overdue, calls>>

AttachNext ==
  /\ Polled /\ att \in DOMAIN AttachStep
  /\ att' = AttachStep[att]
  /\ pc' = IF att' = "yes" THEN "idle" ELSE "attach"
  /\ UNCHANGED <<disk, bf, call, user, llbuf, slot, ci, hw, before, overdue, calls>>

\* A command times out or the engine cannot be kicked: the port is stopped and
\* everything given back.
AttachFails ==
  /\ att \in DOMAIN AttachStep
  /\ GivesUp \/ (pc = "attach" /\ att = "srst")
  /\ StopEngine
  /\ NotAttached
-----------------------------------------------------------------------------
(* ata_blk_data_rw.  A piece is remain blocks from blk on, and goes to or  *)
(* from call.off of the caller's buffer or of llbuf.                       *)

IsFetch == call.step = "fetch"                     \* llbuf is being read
InLl == call.step \in {"fetch", "store"}
Writes == call.is_w /\ ~IsFetch

AtaIssue ==
  /\ pc = "ata" /\ call.remain > 0
  /\ LET blks == MinOf(call.remain, MaxBlks)
     IN  /\ Issue([op  |-> IF Writes THEN "write" ELSE "read",
                   blk |-> call.blk, cnt |-> CountField(blks),
                   to  |-> IF InLl THEN "ll" ELSE "user",
                   off |-> call.off,
                   len |-> PrdBytes(blks * BlkSz)])
         /\ call' = [call EXCEPT !.blks = blks]
  /\ UNCHANGED <<disk, att, bf, user, llbuf, hw, before, overdue, calls>>

\* The command is done, if the header says that data was moved.
AtaNext ==
  /\ Polled /\ att = "yes" /\ slot.prdbc # 0
  /\ pc' = "ata"
  /\ call' = [call EXCEPT !.remain = @ - call.blks, !.blk = @ + call.blks,
                          !.off = @ + call.blks * BlkSz]
  /\ UNCHANGED <<disk, att, bf, user, llbuf, slot, ci, hw, before, overdue, calls>>

\* Back to the caller of read, write, ata_read or ata_write.  llbuf is freed.
Return(r) ==
  /\ pc' = "done" /\ llbuf' = <<>>
  /\ call' = [call EXCEPT !.res = r]

\* A timeout goes all the way up.  Nothing is done to the port: the controller
\* only loses its claim to the memory (hw.lost and overdue are not part of the
\* program).
AtaTimeout ==
  /\ GivesUp /\ att = "yes"
  /\ Return("err")
  /\ hw' = [hw EXCEPT !.lost = TRUE]
  /\ overdue' = (overdue \/ hw.st # "halted")
  /\ UNCHANGED <<disk, att, bf, user, slot, ci, before, calls>>
-----------------------------------------------------------------------------
(* blkfile_xfer.                                                           *)

SubOffs == bf.offs % BlkSz
Filled == bf.offs - call.start           \* how far the caller's buffer is

\* A part of a block: read it into llbuf first.
XferPartBlind ==
  /\ pc = "loop" /\ call.resid > 0
  /\ SubOffs # 0 \/ call.resid < BlkSz
  /\ llbuf' = [i \in 1 .. BlkSz |-> IF i > SubOffs /\ i <= SubOffs + call.resid /\ call.is_w
                                      THEN user[Filled + i - SubOffs] ELSE Junk]
  /\ call' = [call EXCEPT !.n = MinOf(BlkSz - SubOffs, call.resid),
                          !.step = IF call.is_w THEN "store" ELSE "fetch",
                          !.blk = bf.offs \div BlkSz, !.remain = 1, !.off = 0]
  /\ pc' = "ata"
  /\ UNCHANGED <<disk, att, bf, user, slot, ci, hw, before, overdue, calls>>
XferPart ==
  /\ pc = "loop" /\ call.resid > 0
  /\ SubOffs # 0 \/ call.resid < BlkSz
  /\ llbuf' = IF llbuf # <<>> THEN llbuf ELSE [i \in 1 .. BlkSz |-> Junk]
  /\ call' = [call EXCEPT !.n = MinOf(BlkSz - SubOffs, call.resid), !.step = "fetch",
                          !.blk = bf.offs \div BlkSz, !.remain = 1, !.off = 0]
  /\ pc' = "ata"
  /\ UNCHANGED <<disk, att, bf, user, slot, ci, hw, before, overdue, calls>>

\* There is no memory for llbuf.
XferNoMem ==
  /\ pc = "loop" /\ call.resid > 0 /\ llbuf = <<>>
  /\ SubOffs # 0 \/ call.resid < BlkSz
  /\ Return("err")
  /\ UNCHANGED <<disk, att, bf, user, slot, ci, hw, before, overdue, calls>>

\* Whole blocks, as many as one transfer may have.
WholeBytes == MinOf((call.resid \div BlkSz) * BlkSz, MaxIo)

XferWhole ==
  /\ pc = "loop" /\ SubOffs = 0 /\ call.resid >= BlkSz
  /\ call' = [call EXCEPT !.n = WholeBytes, !.step = "direct",
                          !.blk = bf.offs \div BlkSz, !.remain = WholeBytes \div BlkSz,
                          !.off = Filled]
  /\ pc' = "ata"
  /\ UNCHANGED <<disk, att, bf, user, llbuf, slot, ci, hw, before, overdue, calls>>

\* The block has been read for a write: put the new bytes into it and write
\* it back.
Merged(ll) == [i \in DOMAIN ll |-> IF i > SubOffs /\ i <= SubOffs + call.n
                                     THEN user[Filled + i - SubOffs] ELSE ll[i]]

XferStore ==
  /\ pc = "ata" /\ call.remain = 0 /\ IsFetch /\ call.is_w
  /\ llbuf' = Merged(llbuf)
  /\ call' = [call EXCEPT !.step = "store", !.blk = bf.offs \div BlkSz, !.remain = 1,
                          !.off = 0]
  /\ UNCHANGED <<disk, att, bf, pc, user, slot, ci, hw, before, overdue, calls>>

\* A piece is complete; for a read from llbuf it is copied to the caller.
Copied == [k \in DOMAIN user |-> IF k > Filled /\ k <= Filled + call.n
                                   THEN llbuf[SubOffs + k - Filled] ELSE user[k]]

XferNext ==
  /\ pc = "ata" /\ call.remain = 0 /\ call.who = "file"
  /\ ~(IsFetch /\ call.is_w)
  /\ user' = IF IsFetch THEN Copied ELSE user
  /\ bf' = [bf EXCEPT !.offs = @ + call.n]
  /\ call' = [call EXCEPT !.resid = @ - call.n]
  /\ pc' = "loop"
  /\ UNCHANGED <<disk, att, llbuf, slot, ci, hw, before, overdue, calls>>

XferEnd ==
  /\ pc = "loop" /\ call.resid = 0
  /\ Return("ok")
  /\ UNCHANGED <<disk, att, bf, user, slot, ci, hw, before, overdue, calls>>
-----------------------------------------------------------------------------
(* Calls.                                                                  *)

Begin(c) ==
  /\ call' = c
  /\ user' = [k \in 1 .. c.nb |-> IF c.is_w THEN NewByte(k) ELSE Junk]
  /\ before' = disk
  /\ calls < MaxCalls /\ calls' = calls + 1
  /\ UNCHANGED <<disk, att, llbuf, slot, ci, hw, overdue>>

\* blkfile_read and blkfile_write.
ReadWrite(len, w) ==
  /\ pc = "idle" /\ bf.open
  /\ bf.mode # (IF w THEN "read" ELSE "write")
  /\ LET nb == MinOf(len, End - bf.offs)
     IN  Begin([NoCall EXCEPT !.who = "file", !.is_w = w, !.start = bf.offs,
                              !.nb = nb, !.resid = nb])
  /\ pc' = "loop" /\ UNCHANGED bf

\* ata_read and ata_write of the shell: whole blocks, wherever they are asked for.
AtaCommand(blk, cnt, w) ==
  /\ pc = "idle" /\ att = "yes"
  /\ Begin([NoCall EXCEPT !.who = "ata", !.is_w = w, !.start = blk * BlkSz,
                          !.nb = cnt * BlkSz, !.blk = blk, !.remain = cnt, !.step = "direct"])
  /\ pc' = "ata" /\ UNCHANGED bf

\* blkfile_ioctl reads the partition table, or the whole first sector.
ReadMbr == bf.open /\ AtaCommand(0, 1, FALSE)

AtaReturn ==
  /\ pc = "ata" /\ call.remain = 0 /\ call.who = "ata"
  /\ Return("ok")
  /\ UNCHANGED <<disk, att, bf, user, slot, ci, hw, before, overdue, calls>>

\* The caller has looked at the result.
Taken ==
  /\ pc = "done" /\ pc' = "idle"
  /\ call' = NoCall /\ user' = <<>> /\ before' = disk
  /\ slot' = [slot EXCEPT !.prdbc = 0]
  /\ UNCHANGED <<disk, att, bf, llbuf, ci, hw, overdue, calls>>

Quiet == UNCHANGED <<disk, att, pc, call, user, llbuf, slot, ci, hw, before, overdue, calls>>

Open(mode) ==
  /\ pc = "idle" /\ att = "yes" /\ ~bf.open
  /\ bf' = [open |-> TRUE, mode |-> mode, offs |-> 0]
  /\ Quiet

Close ==
  /\ pc = "idle" /\ bf.open
  /\ bf' = [open |-> FALSE, mode |-> "none", offs |-> 0]
  /\ Quiet

LSeek(to) ==
  /\ pc = "idle" /\ bf.open /\ to <= End
  /\ bf' = [bf EXCEPT !.offs = to]
  /\ Quiet
-----------------------------------------------------------------------------
(* The controller.                                                         *)

Alive == ~hw.lost /\ pc = "wait"

Fetch ==
  /\ ci /\ hw.st = "idle"
  /\ hw' = [NoWork EXCEPT !.st = "busy", !.cmd = slot.cmd, !.lost = (pc # "wait")]
  /\ UNCHANGED <<driver, disk, slot, ci, before, overdue, calls>>

\* Zero stands for the largest count.
Count(cmd) == IF cmd.op = "nodata" THEN 0 ELSE IF cmd.cnt = 0 THEN CntMod ELSE cmd.cnt

Source(cmd, i) ==
  IF ~Alive THEN Junk
  ELSE IF cmd.to = "ll" THEN llbuf[cmd.off + i] ELSE user[cmd.off + i]

\* One block moves.  Memory that has been given back gets or gives anything.
MoveBlock ==
  /\ hw.st = "busy" /\ hw.done < Count(hw.cmd)
  /\ (hw.done + 1) * BlkSz <= hw.cmd.len
  /\ hw.cmd.blk + hw.done < NBlk
  /\ LET cmd  == hw.cmd
         base == (cmd.blk + hw.done) * BlkSz
         mem  == cmd.off + hw.done * BlkSz
         In(b) == [k \in DOMAIN b |-> IF k > mem /\ k <= mem + BlkSz
                                        THEN disk[base + k - mem - 1] ELSE b[k]]
     IN  /\ disk' = IF cmd.op = "read" THEN disk
                    ELSE [x \in Pos |-> IF x >= base /\ x < base + BlkSz
                                          THEN Source(cmd, hw.done * BlkSz + x - base + 1)
                                          ELSE disk[x]]
         /\ llbuf' = IF cmd.op = "read" /\ cmd.to = "ll" /\ Alive THEN In(llbuf) ELSE llbuf
         /\ user' = IF cmd.op = "read" /\ cmd.to = "user" /\ Alive THEN In(user) ELSE user
  /\ hw' = [hw EXCEPT !.done = @ + 1]
  /\ UNCHANGED <<att, bf, pc, call, slot, ci, before, overdue, calls>>

\* The command is done: its bit is cleared and its byte count reported.
Complete ==
  /\ hw.st = "busy" /\ hw.done = Count(hw.cmd)
  /\ ci' = FALSE
  /\ slot' = [cmd |-> NoCmd, prdbc |-> hw.done * BlkSz]
  /\ hw' = NoWork
  /\ UNCHANGED <<driver, disk, before, overdue, calls>>

\* A bad block, an address beyond the end, a buffer that is too short.
Fault ==
  /\ hw.st = "busy"
  /\ hw' = [NoWork EXCEPT !.st = "halted"]
  /\ UNCHANGED <<driver, disk, slot, ci, before, overdue, calls>>

Controller == Fetch \/ MoveBlock \/ Complete \/ Fault

Driver ==
  \/ HbaReset \/ InitPort \/ AttachIssue \/ AttachNext \/ AttachFails
  \/ AtaIssue \/ AtaNext \/ AtaTimeout \/ AtaReturn
  \/ XferPart \/ XferNoMem \/ XferWhole \/ XferStore \/ XferNext \/ XferEnd

Call ==
  \/ \E m \in {"read", "write", "both"} : Open(m)
  \/ Close \/ Taken \/ ReadMbr
  \/ \E to \in 0 .. End + 1 : LSeek(to)
  \/ \E len \in Lens, w \in BOOLEAN : ReadWrite(len, w)
  \/ \E blk \in 0 .. NBlk - 1, cnt \in 1 .. MaxBlks + 1, w \in BOOLEAN : AtaCommand(blk, cnt, w)

Next == Call \/ Driver \/ Controller

Spec == Init /\ [][Next]_vars

\* The driver runs on, and the controller works on what it is given.
FairSpec == Spec /\ WF_vars(Driver) /\ WF_vars(Controller)
-----------------------------------------------------------------------------
(* Properties.                                                             *)

Upto == IF call.who = "file" THEN bf.offs
        ELSE IF call.res = "ok" THEN call.start + call.nb ELSE call.start

ReadRight ==
  ~call.is_w => \A x \in Pos : (x >= call.start /\ x < Upto) =>
    user[x - call.start + 1] = disk[x]

WriteExact ==
  call.is_w => \A x \in Pos :
    LET new == user[x - call.start + 1]
    IN  IF x < call.start \/ x >= call.start + call.nb THEN disk[x] = before[x]
        ELSE IF x < Upto THEN disk[x] = new
        ELSE disk[x] \in {before[x], new}

MovedRight == ReadRight /\ WriteExact

\* What a read has passed over is in the caller's buffer, byte for byte,
\* through every piece, part of a block and command of blkfile_xfer; so also
\* what a failed read had read when it failed.  A write changes the bytes it
\* was given and no other, although whole blocks are written: what it has
\* passed over is new, what lies outside is as before, and the rest is one of
\* the two even when the write fails.  All this until the driver gives up on a
\* command that the controller has not failed but is still to do; what can
\* happen then is OldDataKept.
TransfersRight == overdue \/ MovedRight

\* A block that is written back holds, around the new bytes, what the disk
\* holds there: the old data is not overwritten.
OldDataKept ==
  (call.step = "store" /\ pc \in {"ata", "wait"}) =>
    \A i \in 1 .. BlkSz : (i <= SubOffs \/ i > SubOffs + call.n) =>
      LET x == bf.offs - SubOffs + i - 1
      IN  llbuf[i] \in {disk[x], before[x]}

\* Every call returns, whatever the controller does.
CallReturns == (pc # "idle") ~> (pc \in {"idle", "done"})
=============================================================================
