------------------------------- MODULE MCExec -------------------------------
(* Loading and starting programs.                                           *)
EXTENDS Exec

\* Files of two segments: overlapping, out of order, cut off by the file's
\* end, empty, not to be loaded, reaching into the heap or around it; and
\* files that are refused.
Seg(l, o, v, fs, ms) == [load |-> l, off |-> o, vaddr |-> v, filesz |-> fs, memsz |-> ms]
Ident(m, l, c, k) == [magic |-> m, lsb |-> l, current |-> c, class |-> k]
Elf(id, e, ph) == [id |-> id, seeks |-> TRUE, short |-> FALSE, ident |-> Ident(TRUE, TRUE, TRUE, "elf32"), executable |-> TRUE, header |-> TRUE, table |-> TRUE,
                   entry |-> e, size |-> 6, ph |-> ph]
Segs == {Seg(TRUE, 1, 1, 2, 3), Seg(TRUE, 3, 2, 1, 1), Seg(TRUE, 1, 2, 1, 2), Seg(TRUE, 5, 0, 2, 2),
         Seg(TRUE, 2, 3, 0, 1), Seg(FALSE, 2, 0, 1, 1), Seg(TRUE, 2, 4, 2, 2), Seg(TRUE, 0, 3, 2, 4)}
MCFiles ==
  {Elf(1, 1, <<s, t>>) : s, t \in Segs} \cup {Elf(2, 2, <<Seg(TRUE, 2, 0, 2, 3)>>), Elf(3, 0, <<Seg(TRUE, 2, 0, 2, 3)>>)}
  \cup {[Elf(4, 3, <<Seg(TRUE, 0, 0, 1, 1)>>) EXCEPT !.executable = x, !.header = h, !.table = t, !.seeks = k, !.short = o] :
          x, h, t, k, o \in BOOLEAN}
  \cup {[Elf(5, 3, <<Seg(TRUE, 0, 0, 1, 1)>>) EXCEPT !.ident = Ident(m, l, c, k)] :
          m, l, c \in BOOLEAN, k \in {"elf32", "elf64", "none"}}
MCArgs == {<<<<"g">>>>, <<<<"g">>, <<>>, <<"x", "y">>>>}
LongArgs == MCArgs \cup {<<<<"g">>, <<"x">>, <<>>, <<"y">>>>}

\* A program of one segment, and one of two of which the second is cut off.
TwoFiles == {Elf(1, 1, <<Seg(TRUE, 1, 1, 2, 3), Seg(TRUE, 5, 0, 2, 2)>>), Elf(2, 2, <<Seg(TRUE, 2, 0, 2, 3)>>)}

ExecSpec == ExecInit /\ [][ExecNext]_execvars
=============================================================================
