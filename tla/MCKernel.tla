------------------------------ MODULE MCKernel ------------------------------
(* What the rest of the system stands on: the heap of the kernel and that   *)
(* of the library, the packets in mbufs, the configuration of devices, and  *)
(* the sockets and routes of the internet protocols.  A behaviour exercises *)
(* one of them, chosen at the start.                                        *)
EXTENDS KernMalloc, LibMalloc, MbufOps, Autoconf, MCInPcb

VARIABLE part

\* A heap of pages of two units, with blocks of half a page, a page and two
\* pages; anything above takes pages of its own.
MCBSize == [i \in 0 .. 2 |-> 2 ^ i]

\* The table of ioconf.c, with a static entry below the controller besides
\* the dynamic one, whose units soon need a second digit.
Cf(d, p, dynamic, does, unit, n) ==
  [driver |-> d, parent |-> p, dynamic |-> dynamic, does |-> does, unit |-> unit, namelen |-> n]
MCCfdatas ==
  <<Cf("mainbus", 0, FALSE, "found", 0, 3), Cf("localbus", 1, FALSE, "scan", 0, 3),
    Cf("stmmac", 2, FALSE, "leaf", 0, 3), Cf("stmmac", 2, FALSE, "leaf", 1, 3),
    Cf("ahci_plt", 2, FALSE, "found", 0, 3), Cf("ahci_disk", 5, TRUE, "leaf", 9, 4),
    Cf("rom", 5, FALSE, "leaf", 0, 3)>>

MCInit ==
  /\ HeapInit /\ LibInit /\ MbufInit /\ ConfInit /\ InetInit
  /\ part \in {"heap", "library", "mbufs", "devices", "inet"}
  /\ lib.base = BaseBelow \/ part = "library"
MCNext ==
  /\ \/ part = "heap" /\ HeapNext /\ UNCHANGED <<libheapvars, mbufvars, confvars, inetvars>>
     \/ part = "library" /\ LibNext /\ UNCHANGED <<heapvars, mbufvars, confvars, inetvars>>
     \/ part = "mbufs" /\ MbufNext /\ UNCHANGED <<heapvars, libheapvars, confvars, inetvars>>
     \/ part = "devices" /\ ConfNext /\ UNCHANGED <<heapvars, libheapvars, mbufvars, inetvars>>
     \/ part = "inet" /\ InetNext /\ UNCHANGED <<heapvars, libheapvars, mbufvars, confvars>>
  /\ UNCHANGED part
MCSpec == MCInit /\ [][MCNext]_<<heapvars, libheapvars, mbufvars, confvars, inetvars, part>>
=============================================================================
