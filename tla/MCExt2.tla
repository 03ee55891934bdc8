------------------------------- MODULE MCExt2 -------------------------------
(* Disks with one file system, of blocks of two units and two direct        *)
(* indices, so that a file of eight blocks needs all levels.  The root      *)
(* holds a file f, whose blocks lie in one of several orders, and a         *)
(* directory d with three blocks of its own, in which there is a file g.    *)
EXTENDS Ext2

Fs == 3        \* the file system starts here
NBlk == 40

I(t, n, bs) == [type |-> t, size |-> n, i_block |-> [k \in 0 .. NDir + 1 |-> bs[k + 1]]]
E(n, i, t, l) == [name |-> n, ino |-> i, type |-> t, rec_len |-> l]

\* Where the blocks of f lie: in order, pairwise swapped, with breaks.
Order == {<<20, 21, 22, 23, 24, 25, 26, 27>>, <<21, 20, 23, 22, 25, 24, 27, 26>>,
          <<20, 21, 24, 22, 23, 25, 26, 28>>}

Inodes(o, n) ==
  [i \in 1 .. 9 |->
     CASE i = Root -> I("dir", 4, <<10, 12, 0, 0>>)
       [] i = 3 -> I("dir", 6, <<13, 11, 14, 0>>)
       [] i = 6 -> I("reg", 3, <<16, 17, 0, 0>>)
       [] i = 7 -> I("reg", n, <<o[1], o[2], 30, 31>>)
       [] OTHER -> I("reg", 0, <<0, 0, 0, 0>>)]

\* What block b holds.
Contents(o, n, b) ==
  LET T(i) == Inodes(o, n)[i]
  IN  CASE b = 1  -> <<"ext2", "">>
        [] b = 2  -> <<4, 6>>     [] b = 3  -> <<8, 0>>
        [] b = 4  -> <<T(1), T(2)>> [] b = 5  -> <<T(3), "">>
        [] b = 6  -> <<T(4), T(5)>> [] b = 7  -> <<T(6), "">>
        [] b = 8  -> <<T(7), T(8)>> [] b = 9  -> <<T(9), "">>
        [] b = 10 -> <<E("f", 7, "reg", 1), E("d", 3, "dir", 1)>>
        [] b = 12 -> <<E("x", 9, "reg", 2), NoEntry>>
        [] b = 13 -> <<E("a", 4, "reg", 2), NoEntry>>
        [] b = 11 -> <<E("b", 5, "reg", 1), E("d", 3, "dir", 1)>>
        [] b = 15 -> <<E("g", 6, "reg", 2), NoEntry>>
        [] b = 14 -> <<15, 0>>
        [] b = 30 -> <<o[3], o[4]>> [] b = 31 -> <<32, 33>>
        [] b = 32 -> <<o[5], o[6]>> [] b = 33 -> <<o[7], o[8]>>
        [] OTHER -> <<2 * b, 2 * b + 1>>

DiskImage(o, n) ==
  [a \in 0 .. Fs + BlkSz * NBlk - 1 |->
     IF a < Fs THEN "" ELSE Contents(o, n, (a - Fs) \div BlkSz)[((a - Fs) % BlkSz) + 1]]

PartEntry(t) == [sysid |-> t, start |-> IF t = "linux" THEN Fs ELSE 0]
Disk(o, n, mbr, magic) ==
  [at |-> DiskImage(o, n), fs |-> Fs, inodes |-> Inodes(o, n), magic |-> magic,
   mbr |-> [i \in 1 .. NPart |-> PartEntry(mbr[i])]]

\* f may also be longer than two levels of indices can say.
MCDisks ==
  {Disk(o, 15, <<"linux", "empty">>, TRUE) : o \in Order}
  \cup {Disk(<<20, 21, 22, 23, 24, 25, 26, 27>>, 18, m, TRUE) :
          m \in {<<"dos", "linux">>, <<"empty", "linux">>}}
  \cup {Disk(<<20, 21, 22, 23, 24, 25, 26, 27>>, 18, <<"linux", "dos">>, FALSE)}

P(s, b) == [names |-> s, slash |-> b]
MCPaths == {P(<<"f">>, FALSE), P(<<"f">>, TRUE), P(<<"d">>, FALSE), P(<<"d", "g">>, FALSE),
            P(<<"f", "g">>, FALSE), P(<<"d", "y">>, FALSE)}
=============================================================================
