----------------------------- MODULE MCNetPath ------------------------------
(* Three packets, two hosts on the wire, queues of two packets and a socket *)
(* with room for one, so that memory, queues and buffer all run out.        *)
EXTENDS NetPath
=============================================================================
