------------------------------- MODULE MCInPcb ------------------------------
(***************************************************************************)
(* Addresses of four bytes of two bits: an Ethernet interface that may be  *)
(* given addresses of class B and C, and the loopback.                     *)
(***************************************************************************)
EXTENDS InPcb

MCIfKinds == <<"ether", "loop">>
B(b) == b[1] * 128 + b[2] * 64 + b[3] * 32 + b[4] * 16 + b[5] * 8 + b[6] * 4 + b[7] * 2 + b[8]
HostB == B(<<1, 0, 0, 0, 0, 0, 0, 1>>)
PeerB1 == B(<<1, 0, 0, 0, 0, 0, 1, 0>>)
PeerB2 == B(<<1, 0, 0, 0, 1, 0, 0, 1>>)
PeerB3 == B(<<1, 0, 0, 0, 1, 1, 0, 1>>)
HostC == B(<<1, 1, 0, 0, 0, 1, 0, 1>>)
Loop == B(<<0, 1, 1, 1, 0, 0, 0, 1>>)
Odd == B(<<1, 1, 1, 1, 0, 0, 0, 0>>)
MCHostAddrs == <<{HostB, HostC, Odd}, {Loop}>>
MCDsts == {Broadcast, PeerB1}
MCHosts == {PeerB1, PeerB2, PeerB3}
MCBinds == {AnyAddr, HostB}
MCProbes == {HostB, PeerB1, PeerB2, PeerB3, HostC, Loop, HostB + 2, HostB + 13, 64, 192}
SockSym == Permutations(Socks)
MCFroms == {PeerB2}
=============================================================================
