------------------------------- MODULE MCDisk -------------------------------
(* A disk of three blocks of two bytes; two blocks fill a command.          *)
EXTENDS Disk
=============================================================================
