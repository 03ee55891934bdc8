----------------------------- MODULE MCConsole ------------------------------
(* The line editor.                                                         *)
EXTENDS Console

MCPrompt == <<":">>

\* Bounds: only when each line was remembered are there more lines than the
\* history holds, and only in the first line is a row filled or the bell rung.
Short == lines < HistMax \/ Len(log) = lines
LineNext == Short /\ ConsoleNext /\ (scr'.odd => lines = 0)

ConsoleSpec == ConsoleInit /\ [][LineNext]_convars
=============================================================================
