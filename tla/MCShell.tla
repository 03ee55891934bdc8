------------------------------ MODULE MCShell -------------------------------
(* The shell, and what its commands are made of: the line editor with its   *)
(* history, the reading of a line, loading and starting programs, the       *)
(* descriptors that commands open, the file system their files are on, and  *)
(* the library that reads their arguments.  They share no state, so that a  *)
(* behaviour exercises one of them, chosen at the start.                    *)
EXTENDS MCConsole, Command, MCExec, FileDesc, MCExt2, MCLibrary

VARIABLE part

C(n, lo, hi, h, d) == [name |-> n, minac |-> lo, maxac |-> hi, handler |-> h, disabled |-> d]
MCGroups == {[id |-> 1, grpname |-> "x", cmds |-> {C(<<"a">>, 1, 1, TRUE, FALSE), C(<<>>, 2, 2, TRUE, FALSE)}],
             [id |-> 2, grpname |-> "y", cmds |-> {C(<<"a", "a">>, 1, 2, TRUE, TRUE)}],
             [id |-> 3, grpname |-> "x", cmds |-> {C(<<"a", " ">>, 1, 2, FALSE, FALSE)}]}
MCLineChars == {"a", " ", ";", "'", "\""}

MCInit ==
  /\ ConsoleInit /\ CommandInit /\ ExecInit /\ LibraryInit /\ Init /\ Ext2Init
  /\ part \in {"line", "command", "program", "file", "ext2", "library"}
  /\ part = "ext2" \/ disk = CHOOSE d \in Disks : TRUE

MCNext ==
  /\ \/ part = "line" /\ LineNext /\ UNCHANGED <<cmdvars, execvars, libvars, vars, ext2vars>>
     \/ part = "command" /\ CommandNext /\ UNCHANGED <<convars, execvars, libvars, vars, ext2vars>>
     \/ part = "program" /\ ExecNext /\ UNCHANGED <<convars, cmdvars, libvars, vars, ext2vars>>
     \/ part = "file" /\ Next /\ UNCHANGED <<convars, cmdvars, execvars, libvars, ext2vars>>
     \/ part = "ext2" /\ Ext2Next /\ UNCHANGED <<convars, cmdvars, execvars, libvars, vars>>
     \/ part = "library" /\ LibraryNext /\ UNCHANGED <<convars, cmdvars, execvars, vars, ext2vars>>
  /\ UNCHANGED part

MCSpec == MCInit /\ [][MCNext]_<<convars, cmdvars, execvars, libvars, vars, ext2vars, part>>
=============================================================================
