-------------------------------- MODULE Ext2 --------------------------------
(***************************************************************************)
(* Files and directories of an ext2 file system on a disk                  *)
(* (fs/fsio/ext2.c, fs/fsio/fsio.c, lib/dirent.c).                         *)
(*                                                                         *)
(* A file's blocks are found through the twelve direct indices of its      *)
(* inode, an index block and an index block of index blocks.  The reader   *)
(* goes through these levels one after the other and joins consecutive     *)
(* blocks of one index array into one transfer.  Looking a path up reads   *)
(* one directory after the other with the same function.                   *)
(*                                                                         *)
(* The unit of addresses and lengths is sizeof(u32), so that an index is   *)
(* one unit.  A disk is a function from addresses to what lies there: an   *)
(* inode, a group descriptor (the first block of its inode table), a       *)
(* directory entry or an index at its first unit.  Every transfer from the *)
(* block file (module Disk) may fail, and so may every allocation.  Paths  *)
(* are taken apart into names; the spelling of device and file names is    *)
(* left out, as is inode_no, which only stat shows.                        *)
(***************************************************************************)
EXTENDS Integers, Sequences, SequencesExt

CONSTANTS
  OneK,       \* SZ_1K, where the super block is
  BlkSz,      \* i_blk_sz
  NDir,       \* EXT2_NDIR_BLOCKS
  PerGroup,   \* i_inodes_per_group
  InodeSz,    \* i_inodes_sz
  DescSz,     \* i_grpdes_sz
  NPart,      \* PART_INFO_MAX
  SizeMod,    \* 2^32: size_t and ulong are modulo SizeMod
  Disks,      \* the disks: partition table (mbr) and contents (at)
  Paths,      \* the paths that are opened: names, and a slash at the end
  Lens,       \* the lengths of reads
  SeekTo,     \* the positions lseek may ask for
  MaxFaults   \* bound on failing transfers and allocations

PerBlk == BlkSz      \* i_blk_sz / sizeof(u32)
Root == 2            \* EXT2_ROOT_INO

ASSUME Ext2Assumption ==
  /\ OneK \in Nat \ {0} /\ BlkSz \in Nat \ {0} /\ OneK <= BlkSz
  /\ NDir \in Nat \ {0} /\ PerGroup \in Nat \ {0} /\ InodeSz \in Nat \ {0}
  /\ DescSz \in Nat \ {0} /\ BlkSz % DescSz = 0 /\ NPart \in Nat \ {0}
  /\ SizeMod \in Nat \ {0} /\ Lens \subseteq Nat /\ SeekTo \subseteq Nat
  /\ MaxFaults \in Nat

VARIABLES
  disk,     \* the disk
  pc,       \* what the thread is doing
  opened,   \* the path opened last, its partition, and the faults before it
  start,    \* start_sect * SECTOR_SZ
  look,     \* ext2_lookup_inode: the names left, ino, and whether ino is final
  inode,    \* the inode read last; the open file's while a file is open
  foffs,    \* the file offset, 64 bits wide
  rd,       \* ext2_read_data_blk
  ix,       \* ext2_read_data_blk_by_index
  dir,      \* DIR of the listing in progress: idx, and the names returned
  heap,     \* how many of each thing are allocated
  faults,
  lost      \* how often DirUnread left an inode and a buffer behind

ext2vars == <<disk, pc, opened, start, look, inode, foffs, rd, ix, dir, heap, faults, lost>>

Obj == {"ff", "ef", "bf", "inode", "buf", "idx", "idx2"}
NoInode == [size |-> 0]
NoRead == [who |-> "none"]
NoIx == [start |-> 0]

Ext2Init ==
  /\ disk \in Disks /\ pc = "none" /\ opened = [part |-> 0] /\ start = 0
  /\ look = [rest |-> <<>>] /\ inode = NoInode /\ foffs = 0
  /\ rd = NoRead /\ ix = NoIx /\ dir = [idx |-> 0, names |-> <<>>]
  /\ heap = [o \in Obj |-> 0] /\ faults = 0 /\ lost = 0

Plus(h, S) == [o \in Obj |-> IF o \in S THEN h[o] + 1 ELSE h[o]]
Minus(h, S) == [o \in Obj |-> IF o \in S THEN h[o] - 1 ELSE h[o]]

\* A transfer or an allocation fails.
Fault == faults < MaxFaults /\ faults' = faults + 1

Block(b) == start + b * BlkSz
Units(a, n) == [k \in 1 .. n |-> disk.at[a + k - 1]]
-----------------------------------------------------------------------------
(* Opening.                                                                *)

\* disk_read_partition: an empty entry is not stepped over, so it hides the
\* ones behind it.
Partition ==
  [i \in 0 .. NPart - 1 |->
     IF \E j \in 0 .. i : disk.mbr[j + 1].sysid = "empty" THEN [valid |-> FALSE]
     ELSE [valid |-> TRUE, sysid |-> disk.mbr[i + 1].sysid, start |-> disk.mbr[i + 1].start]]

\* Where the file system starts, -1 for none.  part is -1 when the path names
\* no partition.  The first assignment of errno is that of a comparison whose
\* errno is the 0 left by bfo_open: a disk without a partition table fails
\* here, and the branch that would take the whole disk is never reached.
StartOf(part) ==
  LET p == Partition[IF part = -1 THEN 0 ELSE part]
  IN  IF ~disk.magic THEN -1
      ELSE IF p.valid THEN (IF p.sysid = "linux" THEN p.start ELSE -1)
      ELSE IF part = -1 THEN 0 ELSE -1

Opening == {"ff", "ef", "bf"}

\* fsio_open and ext2_open up to the super block.  Everything that fails here
\* frees what it has allocated.
Ext2Open(path, part) ==
  /\ pc = "none"
  /\ opened' = [path |-> path, part |-> part, faults |-> faults]
  /\ \/ StartOf(part) = -1 /\ pc' = "failed" /\ UNCHANGED <<start, heap, faults>>
     \/ /\ StartOf(part) # -1
        /\ pc' = "super" /\ start' = StartOf(part) /\ heap' = Plus(heap, Opening)
        /\ UNCHANGED faults
     \/ Fault /\ pc' = "failed" /\ UNCHANGED <<start, heap>>
  /\ UNCHANGED <<disk, look, inode, foffs, rd, ix, dir, lost>>

OpenFails(h) == pc' = "failed" /\ heap' = Minus(h, Opening)

\* A failed open has returned.
OpenFailed ==
  /\ pc = "failed"
  /\ pc' = "none"
  /\ UNCHANGED <<disk, opened, start, look, inode, foffs, rd, ix, dir, heap, faults, lost>>

\* ext2_read_super_block: the magic number, no extents, no 64-bit groups.
ReadSuper ==
  /\ pc = "super"
  /\ \/ /\ disk.at[start + OneK] = "ext2"
        /\ pc' = "inode" /\ look' = [rest |-> opened.path.names, ino |-> Root, final |-> FALSE]
        /\ UNCHANGED <<heap, faults>>
     \/ disk.at[start + OneK] # "ext2" /\ OpenFails(heap) /\ UNCHANGED <<look, faults>>
     \/ Fault /\ OpenFails(heap) /\ UNCHANGED look
  /\ UNCHANGED <<disk, opened, start, inode, foffs, rd, ix, dir, lost>>

\* Where the group descriptor and the inode of a number lie.
DescAddr(ino) ==
  LET g == (ino - 1) \div PerGroup
      per == BlkSz \div DescSz
  IN  Block((OneK \div BlkSz) + 1 + (g \div per)) + (g % per) * DescSz

InodeAddr(ino, table) ==
  LET o == ((ino - 1) % PerGroup) * InodeSz
  IN  Block(table + (o \div BlkSz)) + (o % BlkSz)

\* ext2_get_inode_by_number: two transfers and an allocation, each of which
\* may fail and leaves nothing behind.
GetInode ==
  /\ pc = "inode"
  /\ \/ /\ inode' = disk.at[InodeAddr(look.ino, disk.at[DescAddr(look.ino)])]
        /\ heap' = Plus(heap, {"inode"})
        /\ pc' = "name" /\ UNCHANGED faults
     \/ Fault /\ OpenFails(heap) /\ UNCHANGED inode
  /\ UNCHANGED <<disk, opened, start, look, foffs, rd, ix, dir, lost>>

\* What ext2_read_data_blk starts with.
ReadData(who, nb, n, pos) ==
  rd' = [who |-> who, nb |-> nb, len0 |-> n, pos0 |-> pos, len |-> n, pos |-> pos,
         out |-> <<>>, lvl |-> "dir", arr |-> inode.i_block, dind |-> <<>>, i |-> 0,
         err |-> "none", res |-> 0]

\* The path ends here and the file is open, or the directory is read.
NextName ==
  /\ pc = "name"
  /\ IF look.final \/ look.rest = <<>>
     THEN /\ pc' = "open" /\ foffs' = 0 /\ dir' = [idx |-> 0, names |-> <<>>]
          /\ UNCHANGED <<rd, heap, faults>>
     ELSE /\ UNCHANGED <<foffs, dir>>
          /\ \/ /\ ReadData("dir", inode.size, inode.size, 0)
                /\ heap' = Plus(heap, {"buf"})
                /\ pc' = "level" /\ UNCHANGED faults
             \/ Fault /\ OpenFails(Minus(heap, {"inode"})) /\ UNCHANGED rd
  /\ UNCHANGED <<disk, opened, start, look, inode, ix, lost>>

\* The walk over the entries of a directory: the entry where it stops, which
\* is blank if there is none of this name.
NoEntry == [name |-> "", rec_len |-> 0]
Find(buf, name) ==
  LET from[p \in 0 .. Len(buf)] ==
        IF p >= Len(buf) \/ buf[p + 1] = NoEntry THEN NoEntry
        ELSE IF buf[p + 1].name = name THEN buf[p + 1]
        ELSE from[p + buf[p + 1].rec_len]
  IN  from[0]
-----------------------------------------------------------------------------
(* Reading the data of the inode.                                          *)

\* Where in the index array of a level the request goes on; past the end of
\* the array when it begins in a later one.
StartIdxSameLevel ==
  LET b == rd.pos \div BlkSz
  IN  CASE rd.lvl = "dir"  -> b
        [] rd.lvl = "ind"  -> (b - NDir) % SizeMod
        [] rd.lvl = "dind" -> (b - NDir - rd.i * PerBlk) % SizeMod
StartIdx ==
  LET b == rd.pos \div BlkSz
  IN  CASE rd.lvl = "dir"  -> b
        [] rd.lvl = "ind"  -> (b - NDir) % SizeMod
        [] rd.lvl = "dind" -> (b - NDir - (rd.i + 1) * PerBlk) % SizeMod

EndIdx == IF rd.lvl = "dir" THEN NDir - 1 ELSE PerBlk - 1

\* The beginning of ext2_read_data_blk_by_index: the part of a block up to
\* the next boundary is a transfer of its own, unless all of it is not
\* wanted.
EnterLevel ==
  LET r == BlkSz - (rd.pos % BlkSz)
  IN  /\ pc = "level"
      /\ ix' = [start |-> StartIdx, cnt |-> IF r <= rd.len /\ r # BlkSz THEN 1 ELSE 0,
                size |-> IF r > rd.len THEN rd.len ELSE IF r = BlkSz THEN 0 ELSE r]
      /\ pc' = IF StartIdx > EndIdx THEN "next" ELSE IF ix'.cnt = 1 THEN "cut" ELSE "loop"
      /\ UNCHANGED <<disk, opened, start, look, inode, foffs, rd, dir, heap, faults, lost>>

More == rd.len > 0 /\ ix.size < rd.len /\ ix.start + ix.cnt <= EndIdx
Joins == /\ ix.start + ix.cnt < EndIdx
         /\ rd.arr[ix.start + ix.cnt] + 1 = rd.arr[ix.start + ix.cnt + 1]

\* The next block follows on the disk: make the transfer longer.
Join ==
  /\ pc = "loop" /\ More /\ Joins
  /\ ix' = IF ix.size + BlkSz > rd.len THEN [ix EXCEPT !.size = rd.len]
           ELSE [ix EXCEPT !.size = @ + BlkSz, !.cnt = @ + 1]
  /\ UNCHANGED <<disk, pc, opened, start, look, inode, foffs, rd, dir, heap, faults, lost>>

\* It does not: transfer what has been joined, or this one block.
CutRun ==
  /\ pc = "loop" /\ More /\ ~Joins
  /\ pc' = "cut"
  /\ ix' = IF ix.size # 0 THEN ix
           ELSE IF BlkSz > rd.len THEN [ix EXCEPT !.size = rd.len]
           ELSE [ix EXCEPT !.size = BlkSz, !.cnt = 1]
  /\ UNCHANGED <<disk, opened, start, look, inode, foffs, rd, dir, heap, faults, lost>>

\* The loop is over; what is left of the request lies within joined blocks.
RestRun ==
  /\ pc = "loop" /\ ~More
  /\ pc' = IF rd.len > 0 /\ ix.size > 0 THEN "cut" ELSE "next"
  /\ UNCHANGED <<disk, opened, start, look, inode, foffs, rd, ix, dir, heap, faults, lost>>

FinishIdxOnly(res, err) ==
  /\ rd' = [rd EXCEPT !.res = res, !.err = err]
  /\ heap' = [heap EXCEPT !["idx"] = 0]
  /\ pc' = "done"
Finish(res, err) ==
  /\ rd' = [rd EXCEPT !.res = res, !.err = err]
  /\ heap' = [heap EXCEPT !["idx"] = 0, !["idx2"] = 0]
  /\ pc' = "done"

\* One transfer from the block file to the caller's buffer.
Transfer ==
  /\ pc = "cut"
  /\ \/ /\ rd' = [rd EXCEPT !.out = @ \o Units(Block(rd.arr[ix.start]) + (rd.pos % BlkSz), ix.size),
                            !.pos = @ + ix.size, !.len = @ - ix.size]
        /\ ix' = [start |-> ix.start + ix.cnt, cnt |-> 0, size |-> 0]
        /\ pc' = "loop" /\ UNCHANGED <<heap, faults>>
     \/ Fault /\ Finish(-1, "io") /\ UNCHANGED ix
  /\ UNCHANGED <<disk, opened, start, look, inode, foffs, dir, lost>>

\* An index block in memory, indexed from 0.
Indices(b) == [k \in 0 .. PerBlk - 1 |-> disk.at[Block(b) + k]]

\* The next level, or the next index block of the last one.  The index block
\* is read into idx_buf, those of the second level into idx2_buf.
NextLevel ==
  /\ pc = "next"
  /\ \/ rd.len = 0 /\ Finish(rd.len0, "none") /\ UNCHANGED faults
     \/ /\ rd.len > 0 /\ rd.lvl = "dir"
        /\ \/ /\ rd' = [rd EXCEPT !.lvl = "ind", !.arr = Indices(inode.i_block[NDir])]
              /\ heap' = Plus(heap, {"idx"})
              /\ pc' = "level" /\ UNCHANGED faults
           \/ Fault /\ (Finish(rd.len0 - rd.len, "mem") \/ Finish(-1, "io"))
     \/ /\ rd.len > 0 /\ rd.lvl = "ind"
        /\ \/ LET dind == Indices(inode.i_block[NDir + 1])
              IN  /\ rd' = [rd EXCEPT !.lvl = "dind", !.dind = dind, !.arr = Indices(dind[0])]
                  /\ heap' = Plus(heap, {"idx2"})
                  /\ pc' = "level" /\ UNCHANGED faults
           \/ Fault /\ (Finish(rd.len0 - rd.len, "mem") \/ Finish(-1, "io"))
     \/ /\ rd.len > 0 /\ rd.lvl = "dind" /\ rd.i + 1 < PerBlk
        /\ \/ /\ rd' = [rd EXCEPT !.i = @ + 1, !.arr = Indices(rd.dind[rd.i + 1])]
              /\ pc' = "level" /\ UNCHANGED <<heap, faults>>
           \/ Fault /\ Finish(-1, "io")
     \/ /\ rd.len > 0 /\ rd.lvl = "dind" /\ rd.i + 1 = PerBlk
        /\ Finish(rd.len0 - rd.len, "big") /\ UNCHANGED faults
  /\ UNCHANGED <<disk, opened, start, look, inode, foffs, ix, dir, lost>>
-----------------------------------------------------------------------------
(* What the callers do with the data.                                      *)

\* ext2_lookup_inode, the directory read: when it is not complete, buffer and
\* inode stay allocated.
DirUnread ==
  /\ pc = "done" /\ rd.who = "dir" /\ rd.res # inode.size
  /\ OpenFails(heap) /\ lost' = lost + 1 /\ rd' = NoRead /\ ix' = NoIx
  /\ UNCHANGED <<disk, opened, start, look, inode, foffs, dir, faults>>

\* What follows the name in the path.
MoreNames == Len(look.rest) > 1
MorePath == Len(look.rest) > 1 \/ opened.path.slash

\* The name is looked for.  Everything that is no regular file is taken for
\* a directory.
Scan ==
  LET e == Find(rd.out, Head(look.rest))
      freed == Minus(heap, {"buf", "inode"})
  IN  /\ pc = "done" /\ rd.who = "dir" /\ rd.res = inode.size
      /\ IF e = NoEntry \/ (e.type = "reg" /\ MorePath)
         THEN OpenFails(freed) /\ UNCHANGED look
         ELSE /\ look' = [rest |-> Tail(look.rest), ino |-> e.ino, final |-> e.type = "reg"]
              /\ heap' = freed /\ pc' = "inode"
      /\ rd' = NoRead /\ ix' = NoIx
      /\ UNCHANGED <<disk, opened, start, inode, foffs, dir, faults, lost>>

\* ext2_read.  The length is cut with unsigned arithmetic.
Read(n) ==
  LET offs == foffs % SizeMod
  IN  /\ pc = "open" /\ inode.type = "reg"
      /\ ReadData("read", n, IF (n + offs) % SizeMod > inode.size THEN (inode.size - offs) % SizeMod
                             ELSE n, offs)
      /\ pc' = "level"
      /\ UNCHANGED <<disk, opened, start, look, inode, foffs, ix, dir, heap, faults, lost>>

\* The result is kept in an unsigned variable, so that a failure is not seen
\* and moves the offset on by SizeMod - 1.
ReadReturn ==
  /\ pc = "done" /\ rd.who = "read"
  /\ foffs' = foffs + (rd.res % SizeMod)
  /\ pc' = "open" /\ rd' = NoRead /\ ix' = NoIx
  /\ UNCHANGED <<disk, opened, start, look, inode, dir, heap, faults, lost>>

\* A position past the end is left out: the length would become huge there.
LSeek(o) ==
  /\ pc = "open" /\ inode.type = "reg" /\ o <= inode.size
  /\ foffs' = o
  /\ UNCHANGED <<disk, pc, opened, start, look, inode, rd, ix, dir, heap, faults, lost>>

\* readdir and EIOCGDIRENT: the whole directory is read for each entry.
ReadDir ==
  /\ pc = "open" /\ inode.type = "dir" /\ dir.idx >= 0
  /\ \/ /\ ReadData("dirent", inode.size, inode.size, 0)
        /\ heap' = Plus(heap, {"buf"})
        /\ pc' = "level" /\ UNCHANGED <<dir, faults>>
     \/ Fault /\ dir' = [dir EXCEPT !.idx = -1] /\ UNCHANGED <<pc, rd, heap>>
  /\ UNCHANGED <<disk, opened, start, look, inode, foffs, ix, lost>>

\* The entry the walk reaches after idx steps.
Nth(buf, idx) ==
  LET from[p \in 0 .. Len(buf), k \in 0 .. idx] ==
        IF p >= Len(buf) \/ buf[p + 1] = NoEntry THEN NoEntry
        ELSE IF k = 0 THEN buf[p + 1]
        ELSE from[p + buf[p + 1].rec_len, k - 1]
  IN  from[0, idx]

\* A listing that is over, because there is no further entry or because the
\* directory could not be read, is not told apart by its caller (idx = -1).
ReadDirReturn ==
  LET e == IF rd.res = inode.size THEN Nth(rd.out, dir.idx) ELSE NoEntry
  IN  /\ pc = "done" /\ rd.who = "dirent"
      /\ dir' = IF e = NoEntry THEN [dir EXCEPT !.idx = -1]
                ELSE [idx |-> dir.idx + 1, names |-> Append(dir.names, e.name)]
      /\ heap' = Minus(heap, {"buf"})
      /\ pc' = "open" /\ rd' = NoRead /\ ix' = NoIx
      /\ UNCHANGED <<disk, opened, start, look, inode, foffs, faults, lost>>

Ext2Close ==
  /\ pc = "open"
  /\ pc' = "none" /\ heap' = Minus(heap, Opening \cup {"inode"})
  /\ UNCHANGED <<disk, opened, start, look, inode, foffs, rd, ix, dir, faults, lost>>

Ext2Next ==
  \/ \E p \in Paths, n \in -1 .. NPart - 1 : Ext2Open(p, n)
  \/ OpenFailed \/ ReadSuper \/ GetInode \/ NextName
  \/ EnterLevel \/ Join \/ CutRun \/ RestRun \/ Transfer \/ NextLevel
  \/ DirUnread \/ Scan
  \/ \E n \in Lens : Read(n)
  \/ ReadReturn
  \/ \E o \in SeekTo : LSeek(o)
  \/ ReadDir \/ ReadDirReturn \/ Ext2Close

Ext2Spec == Ext2Init /\ [][Ext2Next]_ext2vars
-----------------------------------------------------------------------------
(* Properties.  disk.fs is where the file system of a disk starts, and     *)
(* disk.inodes what its inodes are.                                        *)

\* Which block holds block l of a file, by the definition of the format.
Phys(nd, l) ==
  LET At(b) == disk.fs + b * BlkSz
      k == l - NDir - PerBlk
  IN  IF l < NDir THEN nd.i_block[l]
      ELSE IF k < 0 THEN disk.at[At(nd.i_block[NDir]) + l - NDir]
      ELSE disk.at[At(disk.at[At(nd.i_block[NDir + 1]) + (k \div PerBlk)]) + (k % PerBlk)]

\* Unit u of a file, and how far two levels of indices reach.
Unit(nd, u) == disk.at[disk.fs + Phys(nd, u \div BlkSz) * BlkSz + (u % BlkSz)]
Reach == (NDir + PerBlk + PerBlk * PerBlk) * BlkSz

\* A read delivers the bytes of the file from the offset on, through every
\* level of indices and however its blocks lie on the disk; and it delivers
\* all that were asked for, up to the end of the file, or says why not.
ReadRight ==
  rd.who = "read" =>
    /\ \A k \in DOMAIN rd.out : rd.out[k] = Unit(inode, rd.pos0 + k - 1)
    /\ (pc = "done" /\ rd.err = "none") =>
         rd.res = Len(rd.out) /\ (rd.res = rd.nb \/ rd.pos0 + rd.res = inode.size)
    /\ (pc = "done" /\ rd.err = "big") => rd.res = Len(rd.out) /\ rd.pos >= Reach

\* The entries of a directory, in order.
DirEntries(ino) ==
  LET nd == disk.inodes[ino]
  IN  SelectSeq([u \in 1 .. nd.size |-> Unit(nd, u - 1)], LAMBDA e : e # NoEntry)

\* The number of the inode a path names, 0 for none.
Named(path) ==
  LET sub[k \in 0 .. Len(path.names)] ==
        IF k = 0 THEN Root
        ELSE IF sub[k - 1] = 0 \/ disk.inodes[sub[k - 1]].type # "dir" THEN 0
        ELSE LET S == {e \in ToSet(DirEntries(sub[k - 1])) : e.name = path.names[k]}
             IN  IF S = {} THEN 0 ELSE (CHOOSE e \in S : TRUE).ino
      ino == sub[Len(path.names)]
  IN  IF ino # 0 /\ path.slash /\ disk.inodes[ino].type # "dir" THEN 0 ELSE ino

\* The partition asked for is the file system, and no empty entry of the
\* table lies before it (disk_read_partition goes no further than that).
PartGiven(part) ==
  LET i == IF part = -1 THEN 1 ELSE part + 1
  IN  /\ disk.magic /\ disk.mbr[i].sysid = "linux"
      /\ \A j \in 1 .. i : disk.mbr[j].sysid # "empty"

LookupRight ==
  /\ pc = "open" => Named(opened.path) # 0 /\ inode = disk.inodes[Named(opened.path)]
  /\ (pc = "failed" /\ faults = opened.faults) =>
       ~PartGiven(opened.part) \/ Named(opened.path) = 0

ListRight ==
  (pc = "open" /\ inode.type = "dir") =>
    LET E == DirEntries(Named(opened.path))
        all == [k \in DOMAIN E |-> E[k].name]
    IN  /\ IsPrefix(dir.names, all)
        /\ (dir.idx = -1 /\ faults = opened.faults) => dir.names = all

\* An opened path is the file it names in the directories on the disk, and a
\* path that cannot be opened names none, unless the disk failed: through
\* partition, group descriptors, inode tables and directories of any size.
\* ls shows the names of a directory once each and in order, although each
\* call reads the directory anew and counts its entries again; and it shows
\* all of them unless the disk failed (ext2_open, ext2_dir, readdir).
NamesRight == LookupRight /\ ListRight

\* Whatever fails, nothing stays allocated but what an open file needs and
\* what DirUnread loses.
NoLeak ==
  LET base == [o \in Obj |-> IF o \in {"inode", "buf"} THEN lost ELSE 0]
  IN  /\ pc \in {"none", "failed"} => heap = base
      /\ pc = "open" => heap = Plus(base, Opening \cup {"inode"})
=============================================================================
