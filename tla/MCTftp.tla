------------------------------- MODULE MCTftp -------------------------------
(* Small instances of Tftp: two server ports, blocks of two bytes.          *)
EXTENDS Tftp
=============================================================================
