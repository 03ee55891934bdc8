------------------------------ MODULE NetPath -------------------------------
(***************************************************************************)
(* The way of a packet through the network code, and who owns its mbuf     *)
(* chain on the way: sosend, udp_output or rip_output, ip_output, the      *)
(* loopback and Ethernet output functions, ARP with its one held packet,   *)
(* the input queues, the soft interrupts and the input functions.          *)
(*                                                                         *)
(* All of it runs in one thread.  A system call raises the level and ends  *)
(* in splx(0), which runs the soft interrupts whose bits are set and after *)
(* them polls the driver.  What the poll brings in sets bits again, and    *)
(* waits for the next splx.  The handlers run to their end, so a handler   *)
(* for one packet is one step; because they call each other they are       *)
(* written as operators from a state of the network, net, to the next.     *)
(*                                                                         *)
(* A packet is its mbuf chain, a member of Pkts.  The driver copies what   *)
(* it sends and frees the chain, or loses it when it has no descriptor or  *)
(* no buffer; its own rings are in module Stmmac, and the receive buffers  *)
(* of sockets in module SockBuf.                                           *)
(***************************************************************************)
EXTENDS Integers, Sequences, FiniteSets, Functions

CONSTANTS
  Pkts,    \* the mbuf chains there is memory for
  Peers,   \* the hosts on the wire
  QMax,    \* ifq_maxlen of ipintrq and arpintrq
  SbMax,   \* the datagrams a receive buffer has room for
  Sizes,   \* of the datagrams sent: "fits", or "big" for one above the MTU
  Frames,  \* the IP packets that may come in
  Room,    \* whether every chain has room for an Ethernet header
  TxMax    \* the descriptors of the driver

None == "none"
Self == "self"
Nowhere == "nowhere"

ASSUME NetPathAssumption ==
  /\ QMax \in Nat \ {0} /\ SbMax \in Nat \ {0}
  /\ None \notin Pkts /\ Self \notin Peers /\ Nowhere \notin Peers
  /\ Sizes \subseteq {"fits", "big"}
  /\ Frames \subseteq {"udp", "closed", "echo", "bad", "options"}
  /\ Room \in BOOLEAN /\ TxMax \in Nat

VARIABLES
  net,     \* the state of the network code, see Init
  up,      \* IFF_UP of the Ethernet interface
  pc       \* what the thread is doing

vars == <<net, up, pc>>

Init ==
  /\ net = [free     |-> Pkts,                     \* chains not allocated
            twice    |-> FALSE,                    \* some chain was freed while free
            lost     |-> {},                       \* chains nobody refers to any more
            tx       |-> TxMax,                    \* frames the driver can still take
            ipq      |-> <<>>,                     \* ipintrq
            arpq     |-> <<>>,                     \* arpintrq
            netisr   |-> {},                       \* the bits of netisr
            resolved |-> {},                       \* peers with an address, rt_expire = 0
            hold     |-> [h \in Peers |-> None],   \* la_hold
            sock     |-> <<>>]                     \* a socket's receive buffer
  /\ up = TRUE /\ pc = "idle"

-----------------------------------------------------------------------------
(* Memory.                                                                 *)

\* mbuf_freem
Free(n, p) == [n EXCEPT !.free = @ \cup {p}, !.twice = @ \/ p \in n.free]

\* MGETPKT, when there is memory.
Take(n) == CHOOSE p \in n.free : TRUE
Taken(n) == [n EXCEPT !.free = @ \ {Take(n)}]

\* The last reference to a chain goes away and the chain is not freed.
Lose(n, p) == [n EXCEPT !.lost = @ \cup {p}]

-----------------------------------------------------------------------------
(* Output.  An output function returns the network and whether it failed.  *)

\* looutput: a full queue leaves the packet with the caller.
LoOutputSilent(n, p, kind) ==
  IF Len(n.ipq) >= QMax THEN [net |-> n, err |-> TRUE]
  ELSE [net |-> [n EXCEPT !.ipq = Append(@, [pkt |-> p, kind |-> kind, from |-> Self])],
        err |-> FALSE]
LoOutput(n, p, kind) ==
  IF Len(n.ipq) >= QMax THEN [net |-> n, err |-> TRUE]
  ELSE [net |-> [n EXCEPT !.ipq = Append(@, [pkt |-> p, kind |-> kind, from |-> Self]),
                          !.netisr = @ \cup {"IP"}],
        err |-> FALSE]

\* stmmac_xmit takes the chain off the send queue, and only then looks for a
\* descriptor and a buffer.  ether_output does not look at what it returns.
Xmit(n, p) == IF n.tx > 0 THEN [Free(n, p) EXCEPT !.tx = @ - 1] ELSE Lose(n, p)

\* The Ethernet header: mbuf_reserve, when it needs memory and there is none,
\* frees the chain, and the caller is told of an error.
Framed(n, p) ==
  IF ~Room /\ n.free = {} THEN [net |-> Free(n, p), err |-> TRUE]
  ELSE [net |-> Xmit(n, p), err |-> FALSE]

\* arprequest, if there is memory for it.
ArpRequest(n) == IF n.free = {} THEN n ELSE Xmit(Taken(n), Take(n))

\* arpresolve without an address: the packet takes the place of the one held
\* before and a request goes out.
ArpHold(n, p, h) ==
  LET dropped == IF n.hold[h] = None THEN n ELSE Free(n, n.hold[h])
  IN  ArpRequest([dropped EXCEPT !.hold[h] = p])

\* ether_output to a peer.  An interface that is down leaves the packet with
\* the caller.
EtherOutput(n, p, h) ==
  IF ~up THEN [net |-> n, err |-> TRUE]
  ELSE IF h \in n.resolved THEN Framed(n, p)
  ELSE [net |-> ArpHold(n, p, h), err |-> FALSE]

\* ip_output: without a route the packet is dropped, and with an error of the
\* interface too.  Above the MTU nothing at all is done with it.
IpOutput(n, p, to, kind, size) ==
  IF to = Nowhere THEN Free(n, p)
  ELSE IF size = "big" THEN Lose(n, p)
  ELSE LET out == IF to = Self THEN LoOutput(n, p, kind) ELSE EtherOutput(n, p, to)
       IN  IF out.err THEN Free(out.net, p) ELSE out.net

-----------------------------------------------------------------------------
(* Input from the driver.                                                  *)

\* ether_input: the bit of the protocol is set, then the packet is queued or,
\* when the queue is full, dropped.
EtherInput(n, p, arp, frame) ==
  LET m == [n EXCEPT !.netisr = @ \cup {IF arp THEN "ARP" ELSE "IP"}]
  IN  IF Len(IF arp THEN n.arpq ELSE n.ipq) >= QMax THEN Free(m, p)
      ELSE IF arp THEN [m EXCEPT !.arpq = Append(@, frame)]
                  ELSE [m EXCEPT !.ipq = Append(@, frame)]

-----------------------------------------------------------------------------
(* IP input.                                                               *)

\* sbappendaddr: a full buffer leaves the packet with the caller, who frees it.
Deliver(n, p) == IF Len(n.sock) >= SbMax THEN Free(n, p) ELSE [n EXCEPT !.sock = Append(@, p)]

\* icmp_error: a new packet goes back to the sender, and the old one is freed.
IcmpError(n, p, from) ==
  Free(IF n.free = {} THEN n ELSE IpOutput(Taken(n), Take(n), from, "icmp", "fits"), p)

\* rip_input, for a socket of ping if there is one (raw).
RipInput(n, p, raw) == IF raw THEN Deliver(n, p) ELSE Free(n, p)

\* udp_input where no socket has the port.
ClosedFreed(n, p, from) == Free(IcmpError(n, p, from), p)
Closed(n, p, from) == IcmpError(n, p, from)

\* ipv4_input.  An echo request is turned round and sent back in its own
\* chain (icmp_reflect).  A bad option is answered and the packet freed in
\* ip_dooptions, and again on the way out of ipv4_input.
IpInput(n, f, raw) ==
  CASE f.kind = "bad"     -> Free(n, f.pkt)
    [] f.kind = "options" -> Free(IcmpError(n, f.pkt, f.from), f.pkt)
    [] f.kind = "udp"     -> Deliver(n, f.pkt)
    [] f.kind = "closed"  -> Closed(n, f.pkt, f.from)
    [] f.kind = "echo"    -> IpOutput(n, f.pkt, f.from, "icmp", "fits")
    [] f.kind = "icmp"    -> RipInput(n, f.pkt, raw)

-----------------------------------------------------------------------------
(* ARP input.                                                              *)

\* in_arpinput learns the sender's address and sends what was held for it.
\* What the output function returns is not looked at: with the interface down
\* nobody has the packet.
LearnOnly(n, h) == [n EXCEPT !.resolved = @ \cup {h}]
Learn(n, h) ==
  LET m == [n EXCEPT !.resolved = @ \cup {h}]
  IN  IF n.hold[h] = None THEN m
      ELSE LET out == EtherOutput(m, n.hold[h], h).net
           IN  [IF up THEN out ELSE Lose(out, n.hold[h]) EXCEPT !.hold[h] = None]

\* The answer to a request goes out in the request's chain; here too the result
\* is not looked at.
ArpAnswer(n, p) == IF up THEN Framed(n, p).net ELSE Lose(n, p)

\* in_arpinput: "conflict" comes from a host with our own address, "other" is
\* dropped (from ourselves, from a broadcast address, or malformed).
ArpInput(n, f) ==
  CASE f.kind = "reply"    -> Free(Learn(n, f.from), f.pkt)
    [] f.kind = "request"  -> ArpAnswer(Learn(n, f.from), f.pkt)
    [] f.kind = "conflict" -> ArpAnswer(n, f.pkt)
    [] f.kind = "other"    -> Free(n, f.pkt)

-----------------------------------------------------------------------------
(* System calls.  Each ends in splx(0).                                    *)

\* splx(0) runs the soft interrupts if a bit is set, otherwise it polls.
SplxPollOnly(n) == "poll"
Splx(n) == IF n.netisr # {} THEN "softnet" ELSE "poll"

Call(n) ==
  /\ pc = "idle"
  /\ net' = n
  /\ pc' = Splx(n)

\* sosend: a datagram, or an echo request, to anywhere.
Send(to, kind, size) ==
  /\ Call(IF net.free = {} THEN net ELSE IpOutput(Taken(net), Take(net), to, kind, size))
  /\ UNCHANGED up

\* soreceive: the next datagram, or one more turn of waiting for it.
Receive ==
  /\ Call(IF net.sock = <<>> THEN net
          ELSE [Free(net, Head(net.sock)) EXCEPT !.sock = Tail(@)])
  /\ UNCHANGED up

\* ifconfig down and up.
IfDown ==
  /\ up
  /\ Call(net)
  /\ up' = FALSE

IfUp ==
  /\ ~up
  /\ Call(net)
  /\ up' = TRUE

-----------------------------------------------------------------------------
(* softnetpoll and softpoll.                                               *)

\* The bit is cleared, then the queue is worked off.
SoftIp ==
  /\ pc = "softnet" /\ net' = [net EXCEPT !.netisr = @ \ {"IP"}]
  /\ pc' = IF "IP" \in net.netisr THEN "ipintr" ELSE "softarp"
  /\ UNCHANGED up

IpIntr(raw) ==
  /\ pc = "ipintr"
  /\ IF net.ipq = <<>> THEN pc' = "softarp" /\ UNCHANGED net
     ELSE /\ net' = IpInput([net EXCEPT !.ipq = Tail(@)], Head(net.ipq), raw)
          /\ UNCHANGED pc
  /\ UNCHANGED up

SoftArp ==
  /\ pc = "softarp" /\ net' = [net EXCEPT !.netisr = @ \ {"ARP"}]
  /\ pc' = IF "ARP" \in net.netisr THEN "arpintr" ELSE "poll"
  /\ UNCHANGED up

ArpIntr ==
  /\ pc = "arpintr"
  /\ IF net.arpq = <<>> THEN pc' = "poll" /\ UNCHANGED net
     ELSE /\ net' = ArpInput([net EXCEPT !.arpq = Tail(@)], Head(net.arpq))
          /\ UNCHANGED pc
  /\ UNCHANGED up

\* The driver hands up a frame, if it has memory for it.
Arrive(arp, kind, from) ==
  /\ pc = "poll" /\ up /\ net.free # {}
  /\ net' = EtherInput(Taken(net), Take(net), arp,
                       [pkt |-> Take(net), kind |-> kind, from |-> from])
  /\ UNCHANGED <<up, pc>>

\* What the driver has descriptors and buffers for changes: it takes back the
\* descriptors of frames that were sent, and memory comes and goes.
TxRoom(k) ==
  /\ pc = "poll"
  /\ net' = [net EXCEPT !.tx = k]
  /\ UNCHANGED <<up, pc>>

PollDone ==
  /\ pc = "poll"
  /\ pc' = "idle"
  /\ UNCHANGED <<net, up>>

-----------------------------------------------------------------------------
Calls ==
  \/ \E to \in Peers \cup {Self, Nowhere}, kind \in {"udp", "closed", "echo"}, size \in Sizes :
       Send(to, kind, size)
  \/ Receive
  \/ IfDown \/ IfUp

SoftNet == SoftIp \/ (\E raw \in BOOLEAN : IpIntr(raw)) \/ SoftArp \/ ArpIntr

Arrivals ==
  \E h \in Peers : \/ \E kind \in Frames : Arrive(FALSE, kind, h)
                   \/ \E kind \in {"reply", "request", "conflict", "other"} : Arrive(TRUE, kind, h)

Next == Calls \/ SoftNet \/ Arrivals \/ PollDone \/ \E k \in 0 .. TxMax : TxRoom(k)

Spec == Init /\ [][Next]_vars

\* The thread runs on: it makes calls, above all the ones that wait for data,
\* and finishes what splx has begun.
FairSpec == Spec /\ WF_vars(Receive) /\ WF_vars(SoftNet) /\ WF_vars(PollDone)

-----------------------------------------------------------------------------
(* Properties.                                                             *)

\* The types of the state; no queue is longer than its limit.
TypeOK ==
  /\ net.free \subseteq Pkts /\ net.lost \subseteq Pkts /\ net.twice \in BOOLEAN
  /\ net.tx \in 0 .. TxMax
  /\ Len(net.ipq) <= QMax /\ Len(net.arpq) <= QMax /\ Len(net.sock) <= SbMax
  /\ \A i \in DOMAIN net.ipq : net.ipq[i].pkt \in Pkts /\ net.ipq[i].from \in Peers \cup {Self}
  /\ \A i \in DOMAIN net.arpq : net.arpq[i].pkt \in Pkts /\ net.arpq[i].from \in Peers
  /\ Range(net.sock) \subseteq Pkts
  /\ net.netisr \subseteq {"IP", "ARP"}
  /\ net.resolved \subseteq Peers
  /\ net.hold \in [Peers -> Pkts \cup {None}]
  /\ up \in BOOLEAN
  /\ pc \in {"idle", "softnet", "ipintr", "softarp", "arpintr", "poll"}

\* The places where p is referred to.
Places(p) ==
    {<<"ipq", i>> : i \in {j \in DOMAIN net.ipq : net.ipq[j].pkt = p}}
  \cup {<<"arpq", i>> : i \in {j \in DOMAIN net.arpq : net.arpq[j].pkt = p}}
  \cup {<<"sock", i>> : i \in {j \in DOMAIN net.sock : net.sock[j] = p}}
  \cup {<<"hold", h>> : h \in {g \in Peers : net.hold[g] = p}}
  \cup {<<"free", 0>> : i \in {j \in {0} : p \in net.free}}
  \cup {<<"lost", 0>> : i \in {j \in {0} : p \in net.lost}}

\* Between two handlers a chain has exactly one owner: a queue, ARP, a socket
\* or the free memory, or it was given up at one of the places that Lose marks
\* (a datagram above the MTU in ip_output, a driver without descriptors, an
\* interface that is down below ARP).  It is lost nowhere else, no queue grows
\* past its limit, and no layer that meets an error frees a chain that another
\* has freed, queued, held or lost already.
OwnedOnce ==
  /\ TypeOK /\ ~net.twice
  /\ \A p \in Pkts : Cardinality(Places(p)) = 1

\* No packet lies in an input queue without something to fetch it: its bit is
\* set or its handler is at work.
IsrPending ==
  /\ net.ipq # <<>> => "IP" \in net.netisr \/ pc = "ipintr"
  /\ net.arpq # <<>> => "ARP" \in net.netisr \/ pc = "arpintr"

\* ARP holds nothing for a host whose address it knows, so that no later
\* packet overtakes the one held.
ResolvedNotHeld == \A h \in net.resolved : net.hold[h] = None

\* Every packet in an input queue is taken from it.
Waits(p) == p \in {f.pkt : f \in Range(net.ipq) \cup Range(net.arpq)}
Drained == \A p \in Pkts : Waits(p) ~> ~Waits(p)
=============================================================================
