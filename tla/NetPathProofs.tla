--------------------------- MODULE NetPathProofs ----------------------------
(***************************************************************************)
(* Proofs about NetPath, for any set of mbuf chains and of hosts and any   *)
(* length of the queues.                                                   *)
(*                                                                         *)
(* The handlers are operators from a state of the network to the next that *)
(* are given chains: a chain a handler has in its hands belongs to nobody  *)
(* else meanwhile.  Apart(n, H) says that the owners in n and the hands,   *)
(* which hold H, have no chain in common, and Whole(n, H) that they have   *)
(* them all.  Each operator is shown to take one such state to another,    *)
(* and a step of the thread begins and ends with empty hands.              *)
(***************************************************************************)
EXTENDS NetPath, FiniteSetTheorems, SequenceTheorems, TLAPS

USE NetPathAssumption

-----------------------------------------------------------------------------
(* Types.                                                                  *)

IpKinds == {"udp", "closed", "echo", "bad", "options", "icmp"}
ArpKinds == {"reply", "request", "conflict", "other"}
IpFrame == [pkt : Pkts, kind : IpKinds, from : Peers \cup {Self}]
ArpFrame == [pkt : Pkts, kind : ArpKinds, from : Peers]

Nets ==
  [free : SUBSET Pkts, twice : BOOLEAN, lost : SUBSET Pkts, tx : 0 .. TxMax, ipq : Seq(IpFrame), arpq : Seq(ArpFrame),
   netisr : SUBSET {"IP", "ARP"}, resolved : SUBSET Peers,
   hold : [Peers -> Pkts \cup {None}], sock : Seq(Pkts)]

Short(n) == Len(n.ipq) <= QMax /\ Len(n.arpq) <= QMax /\ Len(n.sock) <= SbMax

\* A known host has nothing held for it.
Unheld(n) == \A h \in n.resolved : n.hold[h] = None

\* Nothing is taken off an input queue, nor a bit cleared, and what is put on
\* the queue for IP sets its bit; the limits and Unheld are kept.
Mild(n, m) ==
  /\ m \in Nets
  /\ Short(n) => Short(m)
  /\ Unheld(n) => Unheld(m)
  /\ n.netisr \subseteq m.netisr
  /\ m.ipq = n.ipq \/ "IP" \in m.netisr
  /\ m.arpq = n.arpq

-----------------------------------------------------------------------------
(* Every output and input function is mild.                                *)

LEMMA MildTransitive ==
  ASSUME NEW n, NEW m, NEW k, Mild(n, m), Mild(m, k)
  PROVE  Mild(n, k)
BY DEF Mild

LEMMA FreeMild ==
  ASSUME NEW n \in Nets, NEW p \in Pkts
  PROVE  Mild(n, Free(n, p))
BY DEF Mild, Free, Nets, Short, Unheld

LEMMA TakenMild ==
  ASSUME NEW n \in Nets, n.free # {}
  PROVE  Take(n) \in n.free /\ Take(n) \in Pkts /\ Mild(n, Taken(n))
<1>1. Take(n) \in n.free
  BY DEF Take
<1> QED  BY <1>1 DEF Taken, Mild, Nets, Short, Unheld

LEMMA LoseMild ==
  ASSUME NEW n \in Nets, NEW p \in Pkts
  PROVE  Mild(n, Lose(n, p))
BY DEF Mild, Lose, Nets, Short, Unheld

LEMMA XmitMild ==
  ASSUME NEW n \in Nets, NEW p \in Pkts
  PROVE  Mild(n, Xmit(n, p)) /\ Xmit(n, p).resolved = n.resolved /\ Xmit(n, p).hold = n.hold
<1>1. CASE n.tx > 0
  <2> DEFINE m == Free(n, p)
             k == [m EXCEPT !.tx = @ - 1]
  <2>1. Mild(n, m) /\ m \in Nets /\ m.tx = n.tx /\ m.resolved = n.resolved /\ m.hold = n.hold
    BY FreeMild DEF Mild, Free, Nets
  <2> HIDE DEF m
  <2>2. n.tx \in 0 .. TxMax /\ m.tx - 1 \in 0 .. TxMax
    BY <1>1, <2>1 DEF Nets
  <2>3. /\ k \in Nets /\ k.ipq = m.ipq /\ k.arpq = m.arpq /\ k.sock = m.sock
        /\ k.hold = m.hold /\ k.resolved = m.resolved /\ k.netisr = m.netisr
    BY <2>1, <2>2 DEF Nets
  <2>4. Xmit(n, p) = k
    BY <1>1 DEF Xmit, m
  <2> HIDE DEF k
  <2> QED  BY <2>1, <2>3, <2>4 DEF Mild, Short, Unheld
<1>2. CASE ~(n.tx > 0)
  BY <1>2, LoseMild DEF Xmit, Lose, Nets
<1> QED  BY <1>1, <1>2

LEMMA FramedMild ==
  ASSUME NEW n \in Nets, NEW p \in Pkts
  PROVE  Mild(n, Framed(n, p).net)
BY FreeMild, XmitMild DEF Framed

LEMMA ArpRequestMild ==
  ASSUME NEW n \in Nets
  PROVE  Mild(n, ArpRequest(n)) /\ ArpRequest(n).hold = n.hold
<1>1. CASE n.free = {}
  BY <1>1 DEF ArpRequest, Mild
<1>2. CASE n.free # {}
  <2>1. Take(n) \in Pkts /\ Mild(n, Taken(n)) /\ Taken(n) \in Nets /\ Taken(n).hold = n.hold
    BY <1>2, TakenMild DEF Mild, Taken, Nets
  <2>2. Mild(Taken(n), Xmit(Taken(n), Take(n))) /\ Xmit(Taken(n), Take(n)).hold = n.hold
    BY <2>1, XmitMild
  <2> QED  BY <1>2, <2>1, <2>2, MildTransitive DEF ArpRequest
<1> QED  BY <1>1, <1>2

LEMMA LoOutputMild ==
  ASSUME NEW n \in Nets, NEW p \in Pkts, NEW kind \in IpKinds
  PROVE  LoOutput(n, p, kind).err \in BOOLEAN /\ Mild(n, LoOutput(n, p, kind).net)
<1> DEFINE f == [pkt |-> p, kind |-> kind, from |-> Self]
           m == [n EXCEPT !.ipq = Append(@, f), !.netisr = @ \cup {"IP"}]
<1>1. CASE Len(n.ipq) >= QMax
  BY <1>1 DEF LoOutput, Mild
<1>2. CASE ~(Len(n.ipq) >= QMax)
  <2>1. f \in IpFrame
    BY DEF IpFrame
  <2>2. n.ipq \in Seq(IpFrame) /\ Append(n.ipq, f) \in Seq(IpFrame) /\ Len(Append(n.ipq, f)) = Len(n.ipq) + 1
    BY <2>1, AppendProperties DEF Nets
  <2>3. m \in Nets
    BY <2>2 DEF Nets
  <2>4. Mild(n, m)
    BY <1>2, <2>2, <2>3 DEF Mild, Nets, Short, Unheld
  <2> QED  BY <1>2, <2>4 DEF LoOutput
<1> QED  BY <1>1, <1>2, LenProperties DEF Nets

LEMMA ArpHoldMild ==
  ASSUME NEW n \in Nets, NEW p \in Pkts, NEW h \in Peers, h \notin n.resolved
  PROVE  Mild(n, ArpHold(n, p, h))
<1> DEFINE m == IF n.hold[h] = None THEN n ELSE Free(n, n.hold[h])
<1>1. Mild(n, m) /\ m.resolved = n.resolved
  <2>1. CASE n.hold[h] = None
    BY <2>1 DEF Mild
  <2>2. CASE n.hold[h] # None
    <3>1. n.hold[h] \in Pkts
      BY <2>2 DEF Nets
    <3> QED  BY <2>2, <3>1, FreeMild DEF Free, Nets
  <2> QED  BY <2>1, <2>2
<1>2. m \in Nets
  BY <1>1 DEF Mild
<1> HIDE DEF m
<1>3. Mild(m, [m EXCEPT !.hold[h] = p])
  BY <1>1, <1>2 DEF Mild, Nets, Short, Unheld
<1> DEFINE k == [m EXCEPT !.hold[h] = p]
<1>4. ArpHold(n, p, h) = ArpRequest(k)
  BY DEF ArpHold, m
<1>5. k \in Nets /\ Mild(n, k)
  BY <1>1, <1>3, MildTransitive DEF Mild
<1> HIDE DEF k
<1>6. Mild(k, ArpRequest(k))
  BY <1>5, ArpRequestMild
<1> QED  BY <1>4, <1>5, <1>6, MildTransitive

LEMMA EtherOutputMild ==
  ASSUME NEW n \in Nets, NEW p \in Pkts, NEW h \in Peers
  PROVE  Mild(n, EtherOutput(n, p, h).net)
<1>1. CASE ~up
  BY <1>1 DEF EtherOutput, Mild
<1>2. CASE up /\ h \in n.resolved
  BY <1>2, FramedMild DEF EtherOutput
<1>3. CASE up /\ h \notin n.resolved
  BY <1>3, ArpHoldMild DEF EtherOutput
<1> QED  BY <1>1, <1>2, <1>3

LEMMA IpOutputMild ==
  ASSUME NEW n \in Nets, NEW p \in Pkts, NEW to \in Peers \cup {Self, Nowhere},
         NEW kind \in IpKinds, NEW size
  PROVE  Mild(n, IpOutput(n, p, to, kind, size))
<1> DEFINE out == IF to = Self THEN LoOutput(n, p, kind) ELSE EtherOutput(n, p, to)
<1>1. CASE to = Nowhere
  BY <1>1, FreeMild DEF IpOutput
<1>2. CASE to # Nowhere /\ size = "big"
  BY <1>2, LoseMild DEF IpOutput
<1>3. CASE to # Nowhere /\ size # "big"
  <2>1. Mild(n, out.net)
    <3>1. CASE to = Self
      BY <3>1, LoOutputMild
    <3>2. CASE to # Self
      BY <1>3, <3>2, EtherOutputMild
    <3> QED  BY <3>1, <3>2
  <2>2. out.net \in Nets
    BY <2>1 DEF Mild
  <2> HIDE DEF out
  <2>3. Mild(n, IF out.err THEN Free(out.net, p) ELSE out.net)
    BY <2>1, <2>2, FreeMild, MildTransitive
  <2> QED  BY <1>3, <2>3 DEF IpOutput, out
<1> QED  BY <1>1, <1>2, <1>3

LEMMA DeliverMild ==
  ASSUME NEW n \in Nets, NEW p \in Pkts
  PROVE  Mild(n, Deliver(n, p))
<1>1. CASE Len(n.sock) >= SbMax
  BY <1>1, FreeMild DEF Deliver
<1>2. CASE ~(Len(n.sock) >= SbMax)
  <2>1. n.sock \in Seq(Pkts) /\ Append(n.sock, p) \in Seq(Pkts) /\ Len(Append(n.sock, p)) = Len(n.sock) + 1
    BY AppendProperties DEF Nets
  <2>2. Len(n.sock) \in Nat
    BY <2>1, LenProperties
  <2> DEFINE m == [n EXCEPT !.sock = Append(@, p)]
  <2>3. m \in Nets /\ m.sock = Append(n.sock, p) /\ m.ipq = n.ipq /\ m.arpq = n.arpq
        /\ m.netisr = n.netisr /\ m.hold = n.hold /\ m.resolved = n.resolved
    BY <2>1 DEF Nets
  <2>4. Deliver(n, p) = m
    BY <1>2 DEF Deliver
  <2> HIDE DEF m
  <2>5. Short(n) => Short(m)
    BY <1>2, <2>1, <2>2, <2>3 DEF Short
  <2>6. Unheld(n) => Unheld(m)
    BY <2>3 DEF Unheld
  <2> QED  BY <2>3, <2>4, <2>5, <2>6 DEF Mild
<1> QED  BY <1>1, <1>2

LEMMA IcmpErrorMild ==
  ASSUME NEW n \in Nets, NEW p \in Pkts, NEW from \in Peers \cup {Self}
  PROVE  Mild(n, IcmpError(n, p, from))
<1> DEFINE m == IF n.free = {} THEN n ELSE IpOutput(Taken(n), Take(n), from, "icmp", "fits")
<1>1. Mild(n, m)
  <2>1. CASE n.free = {}
    BY <2>1 DEF Mild
  <2>2. CASE n.free # {}
    <3>1. Take(n) \in Pkts /\ Mild(n, Taken(n)) /\ Taken(n) \in Nets
      BY <2>2, TakenMild DEF Mild
    <3>2. "icmp" \in IpKinds
      BY DEF IpKinds
    <3>3. Mild(Taken(n), IpOutput(Taken(n), Take(n), from, "icmp", "fits"))
      BY <3>1, <3>2, IpOutputMild
    <3> QED  BY <2>2, <3>1, <3>3, MildTransitive
  <2> QED  BY <2>1, <2>2
<1>2. m \in Nets
  BY <1>1 DEF Mild
<1> HIDE DEF m
<1>3. Mild(n, Free(m, p))
  BY <1>1, <1>2, FreeMild, MildTransitive
<1> QED  BY <1>3 DEF IcmpError, m

LEMMA IpInputMild ==
  ASSUME NEW n \in Nets, NEW f \in IpFrame, NEW raw \in BOOLEAN
  PROVE  Mild(n, IpInput(n, f, raw))
<1>1. f.pkt \in Pkts /\ f.kind \in IpKinds /\ f.from \in Peers \cup {Self}
  BY DEF IpFrame
<1>2. CASE f.kind = "bad"
  BY <1>1, <1>2, FreeMild DEF IpInput
<1>3. CASE f.kind = "options"
  <2>1. Mild(n, IcmpError(n, f.pkt, f.from)) /\ IcmpError(n, f.pkt, f.from) \in Nets
    BY <1>1, IcmpErrorMild DEF Mild
  <2>2. Mild(n, Free(IcmpError(n, f.pkt, f.from), f.pkt))
    BY <1>1, <2>1, FreeMild, MildTransitive
  <2> QED  BY <1>3, <2>2 DEF IpInput
<1>4. CASE f.kind = "udp"
  BY <1>1, <1>4, DeliverMild DEF IpInput
<1>5. CASE f.kind = "closed"
  BY <1>1, <1>5, IcmpErrorMild DEF IpInput, Closed
<1>6. CASE f.kind = "echo"
  <2>1. Mild(n, IpOutput(n, f.pkt, f.from, "icmp", "fits"))
    BY <1>1, IpOutputMild DEF IpKinds
  <2> QED  BY <1>6, <2>1 DEF IpInput
<1>7. CASE f.kind = "icmp"
  BY <1>1, <1>7, DeliverMild, FreeMild DEF IpInput, RipInput
<1> QED  BY <1>1, <1>2, <1>3, <1>4, <1>5, <1>6, <1>7 DEF IpKinds

LEMMA LearnMild ==
  ASSUME NEW n \in Nets, NEW h \in Peers
  PROVE  Mild(n, Learn(n, h))
<1> DEFINE m == [n EXCEPT !.resolved = @ \cup {h}]
<1>1. m \in Nets /\ m.hold = n.hold
  BY DEF Nets
<1>2. CASE n.hold[h] = None
  BY <1>1, <1>2 DEF Learn, Mild, Nets, Short, Unheld
<1>3. CASE n.hold[h] # None
  <2> DEFINE q == n.hold[h]
             k == IF up THEN EtherOutput(m, q, h).net ELSE Lose(EtherOutput(m, q, h).net, q)
  <2>1. q \in Pkts /\ h \in m.resolved
    BY <1>3 DEF Nets
  <2>2. k = Framed(m, q).net \/ k = Lose(m, q)
    BY <2>1 DEF EtherOutput
  <2>3. Mild(m, k) /\ k.hold = n.hold /\ k.resolved = n.resolved \cup {h}
    <3>1. Mild(m, Framed(m, q).net) /\ Mild(m, Lose(m, q))
      BY <1>1, <2>1, FramedMild, LoseMild
    <3>2. Framed(m, q).net.hold = m.hold /\ Framed(m, q).net.resolved = m.resolved
      BY <1>1, <2>1, XmitMild DEF Framed, Free, Nets
    <3>3. Lose(m, q).hold = m.hold /\ Lose(m, q).resolved = m.resolved
      BY <1>1 DEF Lose, Nets
    <3>4. m.resolved = n.resolved \cup {h}
      BY DEF Nets
    <3> QED  BY <1>1, <2>2, <3>1, <3>2, <3>3, <3>4
  <2>4. Learn(n, h) = [k EXCEPT !.hold[h] = None]
    BY <1>3 DEF Learn
  <2>5. /\ m.ipq = n.ipq /\ m.arpq = n.arpq /\ m.sock = n.sock /\ m.netisr = n.netisr
    BY DEF Nets
  <2> HIDE DEF k, q, m
  <2> DEFINE l == [k EXCEPT !.hold[h] = None]
  <2>6. /\ l \in Nets /\ l.ipq = k.ipq /\ l.arpq = k.arpq /\ l.sock = k.sock /\ l.netisr = k.netisr
        /\ l.resolved = k.resolved /\ l.hold = [k.hold EXCEPT ![h] = None]
    BY <2>3 DEF Mild, Nets
  <2>7. n.hold \in [Peers -> Pkts \cup {None}] /\ n.resolved \subseteq Peers
    BY DEF Nets
  <2> HIDE DEF l
  <2>8. Unheld(n) => Unheld(l)
    BY <2>3, <2>6, <2>7 DEF Unheld
  <2>9. Short(n) => Short(l)
    BY <2>3, <2>5, <2>6 DEF Mild, Short
  <2>10. Mild(n, l)
    BY <2>3, <2>5, <2>6, <2>8, <2>9 DEF Mild
  <2> QED  BY <2>4, <2>10 DEF l
<1> QED  BY <1>2, <1>3

LEMMA ArpInputMild ==
  ASSUME NEW n \in Nets, NEW f \in ArpFrame
  PROVE  Mild(n, ArpInput(n, f))
<1>1. f.pkt \in Pkts /\ f.kind \in ArpKinds /\ f.from \in Peers
  BY DEF ArpFrame
<1>2. Mild(n, Learn(n, f.from)) /\ Learn(n, f.from) \in Nets
  BY <1>1, LearnMild DEF Mild
<1>3. ASSUME NEW m \in Nets  PROVE  Mild(m, ArpAnswer(m, f.pkt)) /\ Mild(m, Free(m, f.pkt))
  BY <1>1, <1>3, FreeMild, FramedMild, LoseMild DEF ArpAnswer
<1>4. CASE f.kind = "reply"
  BY <1>2, <1>3, <1>4, MildTransitive DEF ArpInput
<1>5. CASE f.kind = "request"
  BY <1>2, <1>3, <1>5, MildTransitive DEF ArpInput
<1>6. CASE f.kind = "conflict"
  BY <1>3, <1>6 DEF ArpInput
<1>7. CASE f.kind = "other"
  BY <1>3, <1>7 DEF ArpInput
<1> QED  BY <1>1, <1>4, <1>5, <1>6, <1>7 DEF ArpKinds

\* What ether_input does besides: the bit of the queue it puts a frame on is
\* set.
LEMMA EtherInputTyped ==
  ASSUME NEW n \in Nets, NEW p \in Pkts, NEW arp \in BOOLEAN, NEW f,
         IF arp THEN f \in ArpFrame ELSE f \in IpFrame
  PROVE  LET m == EtherInput(n, p, arp, f)
         IN  /\ m \in Nets
             /\ Short(n) => Short(m)
             /\ Unheld(n) => Unheld(m)
             /\ n.netisr \subseteq m.netisr
             /\ m.ipq = n.ipq \/ "IP" \in m.netisr
             /\ m.arpq = n.arpq \/ "ARP" \in m.netisr
<1> DEFINE m == [n EXCEPT !.netisr = @ \cup {IF arp THEN "ARP" ELSE "IP"}]
<1>1. /\ m \in Nets /\ m.ipq = n.ipq /\ m.arpq = n.arpq /\ m.sock = n.sock
      /\ m.hold = n.hold /\ m.resolved = n.resolved
      /\ m.netisr = n.netisr \cup {IF arp THEN "ARP" ELSE "IP"}
  BY DEF Nets
<1>2. EtherInput(n, p, arp, f) =
        IF Len(IF arp THEN n.arpq ELSE n.ipq) >= QMax THEN Free(m, p)
        ELSE IF arp THEN [m EXCEPT !.arpq = Append(@, f)]
                    ELSE [m EXCEPT !.ipq = Append(@, f)]
  BY DEF EtherInput
<1> HIDE DEF m
<1>3. CASE Len(IF arp THEN n.arpq ELSE n.ipq) >= QMax
  <2>1. Mild(m, Free(m, p)) /\ EtherInput(n, p, arp, f) = Free(m, p)
    BY <1>1, <1>2, <1>3, FreeMild
  <2>2. (Short(n) => Short(m)) /\ (Unheld(n) => Unheld(m))
    BY <1>1 DEF Short, Unheld
  <2> QED  BY <1>1, <2>1, <2>2 DEF Mild
<1>4. CASE ~(Len(n.arpq) >= QMax) /\ arp
  <2> DEFINE k == [m EXCEPT !.arpq = Append(@, f)]
  <2>1. n.arpq \in Seq(ArpFrame) /\ Append(n.arpq, f) \in Seq(ArpFrame) /\ Len(n.arpq) \in Nat
        /\ Len(Append(n.arpq, f)) = Len(n.arpq) + 1
    BY <1>4, AppendProperties, LenProperties DEF Nets
  <2>2. /\ k \in Nets /\ k.arpq = Append(n.arpq, f) /\ k.ipq = n.ipq /\ k.sock = n.sock
        /\ k.hold = n.hold /\ k.resolved = n.resolved /\ k.netisr = m.netisr
    BY <1>1, <2>1 DEF Nets
  <2>3. EtherInput(n, p, arp, f) = k
    BY <1>2, <1>4
  <2> HIDE DEF k
  <2>4. (Short(n) => Short(k)) /\ (Unheld(n) => Unheld(k))
    BY <1>4, <2>1, <2>2 DEF Short, Unheld
  <2> QED  BY <1>1, <1>4, <2>2, <2>3, <2>4
<1>5. CASE ~(Len(n.ipq) >= QMax) /\ ~arp
  <2> DEFINE k == [m EXCEPT !.ipq = Append(@, f)]
  <2>1. n.ipq \in Seq(IpFrame) /\ Append(n.ipq, f) \in Seq(IpFrame) /\ Len(n.ipq) \in Nat
        /\ Len(Append(n.ipq, f)) = Len(n.ipq) + 1
    BY <1>5, AppendProperties, LenProperties DEF Nets
  <2>2. /\ k \in Nets /\ k.ipq = Append(n.ipq, f) /\ k.arpq = n.arpq /\ k.sock = n.sock
        /\ k.hold = n.hold /\ k.resolved = n.resolved /\ k.netisr = m.netisr
    BY <1>1, <2>1 DEF Nets
  <2>3. EtherInput(n, p, arp, f) = k
    BY <1>2, <1>5
  <2> HIDE DEF k
  <2>4. (Short(n) => Short(k)) /\ (Unheld(n) => Unheld(k))
    BY <1>5, <2>1, <2>2 DEF Short, Unheld
  <2> QED  BY <1>1, <1>5, <2>2, <2>3, <2>4
<1> QED  BY <1>3, <1>4, <1>5

-----------------------------------------------------------------------------
(* The bits, the limits and ARP: for every value of the constants.         *)

Pcs == {"idle", "softnet", "ipintr", "softarp", "arpintr", "poll"}

\* IsrPending is inductive with the types; ResolvedNotHeld is Unheld(net).
Calm ==
  /\ net \in Nets /\ up \in BOOLEAN /\ pc \in Pcs
  /\ Short(net) /\ Unheld(net) /\ IsrPending

LEMMA CalmInit == Init => Calm
<1> SUFFICES ASSUME Init  PROVE Calm
  OBVIOUS
<1>1. <<>> \in Seq(IpFrame) /\ <<>> \in Seq(ArpFrame) /\ <<>> \in Seq(Pkts)
  BY EmptySeq
<1>2. net \in Nets
  BY <1>1 DEF Init, Nets
<1>3. Short(net) /\ Unheld(net) /\ IsrPending
  BY DEF Init, Short, Unheld, IsrPending
<1> QED  BY <1>2, <1>3 DEF Init, Calm, Pcs

\* A step that is mild and leaves the thread where no handler is cut short.
LEMMA MildCalm ==
  ASSUME Calm, Mild(net, net'), up' \in BOOLEAN, pc' \in Pcs,
         pc = pc' \/ pc \notin {"ipintr", "arpintr"}
  PROVE  Calm'
<1>1. net' \in Nets /\ Short(net)' /\ Unheld(net)'
  BY DEF Calm, Mild, Short, Unheld
<1>2. IsrPending'
  BY DEF Calm, Mild, IsrPending
<1> QED  BY <1>1, <1>2 DEF Calm

LEMMA CallCalm ==
  ASSUME Calm, NEW n, Mild(net, n), Call(n), up' \in BOOLEAN
  PROVE  Calm'
<1>1. net' = n /\ pc = "idle" /\ pc' \in Pcs
  BY DEF Call, Splx, Pcs
<1> QED  BY <1>1, MildCalm

LEMMA SendMild ==
  ASSUME net \in Nets, NEW to \in Peers \cup {Self, Nowhere}, NEW kind \in IpKinds, NEW size
  PROVE  Mild(net, IF net.free = {} THEN net ELSE IpOutput(Taken(net), Take(net), to, kind, size))
<1>1. CASE net.free = {}
  BY <1>1 DEF Mild
<1>2. CASE net.free # {}
  <2>1. Take(net) \in Pkts /\ Mild(net, Taken(net)) /\ Taken(net) \in Nets
    BY <1>2, TakenMild DEF Mild
  <2>2. Mild(Taken(net), IpOutput(Taken(net), Take(net), to, kind, size))
    BY <2>1, IpOutputMild
  <2> QED  BY <1>2, <2>1, <2>2, MildTransitive
<1> QED  BY <1>1, <1>2

LEMMA ReceiveMild ==
  ASSUME net \in Nets
  PROVE  Mild(net, IF net.sock = <<>> THEN net
                   ELSE [Free(net, Head(net.sock)) EXCEPT !.sock = Tail(@)])
<1>1. CASE net.sock = <<>>
  BY <1>1 DEF Mild
<1>2. CASE net.sock # <<>>
  <2> DEFINE m == Free(net, Head(net.sock))
             k == [m EXCEPT !.sock = Tail(@)]
  <2>1. net.sock \in Seq(Pkts) /\ Head(net.sock) \in Pkts /\ Tail(net.sock) \in Seq(Pkts)
        /\ Len(Tail(net.sock)) = Len(net.sock) - 1 /\ Len(net.sock) \in Nat
    BY <1>2, HeadTailProperties, LenProperties DEF Nets
  <2>2. Mild(net, m) /\ m \in Nets /\ m.sock = net.sock
    BY <2>1, FreeMild DEF Mild, Free, Nets
  <2> HIDE DEF m
  <2>3. /\ k \in Nets /\ k.sock = Tail(net.sock) /\ k.ipq = m.ipq /\ k.arpq = m.arpq
        /\ k.hold = m.hold /\ k.resolved = m.resolved /\ k.netisr = m.netisr
    BY <2>1, <2>2 DEF Nets
  <2> HIDE DEF k
  <2>4. (Short(m) => Short(k)) /\ (Unheld(m) => Unheld(k))
    BY <2>1, <2>2, <2>3 DEF Short, Unheld
  <2>5. Mild(m, k)
    BY <2>3, <2>4 DEF Mild
  <2>6. Mild(net, k)
    BY <2>2, <2>5, MildTransitive
  <2> QED  BY <1>2, <2>6 DEF m, k
<1> QED  BY <1>1, <1>2

\* The frame an input handler takes from its queue, and the rest.
LEMMA IpqTail ==
  ASSUME NEW n \in Nets, n.ipq # <<>>
  PROVE  LET m == [n EXCEPT !.ipq = Tail(@)]
         IN  /\ Head(n.ipq) \in IpFrame
             /\ m \in Nets /\ m.ipq = Tail(n.ipq) /\ m.arpq = n.arpq /\ m.netisr = n.netisr
             /\ Short(n) => Short(m)
             /\ Unheld(n) => Unheld(m)
<1> DEFINE m == [n EXCEPT !.ipq = Tail(@)]
<1>1. n.ipq \in Seq(IpFrame) /\ Head(n.ipq) \in IpFrame /\ Tail(n.ipq) \in Seq(IpFrame)
      /\ Len(Tail(n.ipq)) = Len(n.ipq) - 1 /\ Len(n.ipq) \in Nat
  BY HeadTailProperties, LenProperties DEF Nets
<1>2. /\ m \in Nets /\ m.ipq = Tail(n.ipq) /\ m.arpq = n.arpq /\ m.sock = n.sock
      /\ m.hold = n.hold /\ m.resolved = n.resolved /\ m.netisr = n.netisr
  BY <1>1 DEF Nets
<1> HIDE DEF m
<1>3. (Short(n) => Short(m)) /\ (Unheld(n) => Unheld(m))
  BY <1>1, <1>2 DEF Short, Unheld
<1> QED  BY <1>1, <1>2, <1>3 DEF m

LEMMA ArpqTail ==
  ASSUME NEW n \in Nets, n.arpq # <<>>
  PROVE  LET m == [n EXCEPT !.arpq = Tail(@)]
         IN  /\ Head(n.arpq) \in ArpFrame
             /\ m \in Nets /\ m.arpq = Tail(n.arpq) /\ m.ipq = n.ipq /\ m.netisr = n.netisr
             /\ Short(n) => Short(m)
             /\ Unheld(n) => Unheld(m)
<1> DEFINE m == [n EXCEPT !.arpq = Tail(@)]
<1>1. n.arpq \in Seq(ArpFrame) /\ Head(n.arpq) \in ArpFrame /\ Tail(n.arpq) \in Seq(ArpFrame)
      /\ Len(Tail(n.arpq)) = Len(n.arpq) - 1 /\ Len(n.arpq) \in Nat
  BY HeadTailProperties, LenProperties DEF Nets
<1>2. /\ m \in Nets /\ m.arpq = Tail(n.arpq) /\ m.ipq = n.ipq /\ m.sock = n.sock
      /\ m.hold = n.hold /\ m.resolved = n.resolved /\ m.netisr = n.netisr
  BY <1>1 DEF Nets
<1> HIDE DEF m
<1>3. (Short(n) => Short(m)) /\ (Unheld(n) => Unheld(m))
  BY <1>1, <1>2 DEF Short, Unheld
<1> QED  BY <1>1, <1>2, <1>3 DEF m

LEMMA CalmNext ==
  ASSUME Calm, [Next]_vars
  PROVE  Calm'
<1> USE DEF Pcs
<1>0. net \in Nets /\ up \in BOOLEAN
  BY DEF Calm
<1>1. ASSUME NEW to \in Peers \cup {Self, Nowhere}, NEW kind \in {"udp", "closed", "echo"},
             NEW size \in Sizes, Send(to, kind, size)
      PROVE  Calm'
  <2>1. kind \in IpKinds
    BY DEF IpKinds
  <2>2. Mild(net, IF net.free = {} THEN net ELSE IpOutput(Taken(net), Take(net), to, kind, size))
    BY <1>0, <2>1, SendMild
  <2> QED  BY <1>0, <1>1, <2>2, CallCalm DEF Send
<1>2. CASE Receive
  BY <1>0, <1>2, ReceiveMild, CallCalm DEF Receive
<1>3. CASE IfDown \/ IfUp
  <2>1. Mild(net, net)
    BY <1>0 DEF Mild
  <2> QED  BY <1>0, <1>3, <2>1, CallCalm DEF IfDown, IfUp
<1>4. CASE SoftIp
  <2>1. net' = [net EXCEPT !.netisr = @ \ {"IP"}]
    BY <1>4 DEF SoftIp
  <2>2. /\ net' \in Nets /\ net'.netisr = net.netisr \ {"IP"} /\ net'.ipq = net.ipq
        /\ net'.arpq = net.arpq /\ net'.sock = net.sock /\ net'.hold = net.hold
        /\ net'.resolved = net.resolved
    BY <1>0, <2>1 DEF Nets
  <2>3. Short(net)' /\ Unheld(net)'
    BY <2>2 DEF Calm, Short, Unheld
  <2>4. IsrPending'
    BY <1>4, <2>2 DEF Calm, SoftIp, IsrPending
  <2> QED  BY <1>4, <2>2, <2>3, <2>4 DEF Calm, SoftIp
<1>5. CASE SoftArp
  <2>1. net' = [net EXCEPT !.netisr = @ \ {"ARP"}]
    BY <1>5 DEF SoftArp
  <2>2. /\ net' \in Nets /\ net'.netisr = net.netisr \ {"ARP"} /\ net'.ipq = net.ipq
        /\ net'.arpq = net.arpq /\ net'.sock = net.sock /\ net'.hold = net.hold
        /\ net'.resolved = net.resolved
    BY <1>0, <2>1 DEF Nets
  <2>3. Short(net)' /\ Unheld(net)'
    BY <2>2 DEF Calm, Short, Unheld
  <2>4. IsrPending'
    BY <1>5, <2>2 DEF Calm, SoftArp, IsrPending
  <2> QED  BY <1>5, <2>2, <2>3, <2>4 DEF Calm, SoftArp
<1>6. ASSUME NEW raw \in BOOLEAN, IpIntr(raw)  PROVE Calm'
  <2>1. CASE net.ipq = <<>>
    BY <1>6, <2>1 DEF IpIntr, Calm, IsrPending
  <2>2. CASE net.ipq # <<>>
    <3> DEFINE m == [net EXCEPT !.ipq = Tail(@)]
    <3>1. net' = IpInput(m, Head(net.ipq), raw) /\ pc = "ipintr" /\ UNCHANGED <<pc, up>>
      BY <1>6, <2>2 DEF IpIntr
    <3>2. /\ Head(net.ipq) \in IpFrame /\ m \in Nets /\ m.arpq = net.arpq /\ m.netisr = net.netisr
          /\ Short(m) /\ Unheld(m)
      BY <1>0, <2>2, IpqTail DEF Calm
    <3> HIDE DEF m
    <3>3. Mild(m, net')
      BY <3>1, <3>2, IpInputMild
    <3>4. net' \in Nets /\ Short(net)' /\ Unheld(net)'
      BY <3>2, <3>3 DEF Mild, Short, Unheld
    <3>5. IsrPending'
      BY <3>1, <3>2, <3>3 DEF Calm, Mild, IsrPending
    <3> QED  BY <1>0, <3>1, <3>4, <3>5 DEF Calm
  <2> QED  BY <2>1, <2>2
<1>7. CASE ArpIntr
  <2>1. CASE net.arpq = <<>>
    BY <1>7, <2>1 DEF ArpIntr, Calm, IsrPending
  <2>2. CASE net.arpq # <<>>
    <3> DEFINE m == [net EXCEPT !.arpq = Tail(@)]
    <3>1. net' = ArpInput(m, Head(net.arpq)) /\ pc = "arpintr" /\ UNCHANGED <<pc, up>>
      BY <1>7, <2>2 DEF ArpIntr
    <3>2. /\ Head(net.arpq) \in ArpFrame /\ m \in Nets /\ m.ipq = net.ipq /\ m.netisr = net.netisr
          /\ Short(m) /\ Unheld(m)
      BY <1>0, <2>2, ArpqTail DEF Calm
    <3> HIDE DEF m
    <3>3. Mild(m, net')
      BY <3>1, <3>2, ArpInputMild
    <3>4. net' \in Nets /\ Short(net)' /\ Unheld(net)'
      BY <3>2, <3>3 DEF Mild, Short, Unheld
    <3>5. IsrPending'
      BY <3>1, <3>2, <3>3 DEF Calm, Mild, IsrPending
    <3> QED  BY <1>0, <3>1, <3>4, <3>5 DEF Calm
  <2> QED  BY <2>1, <2>2
<1>8. ASSUME NEW arp \in BOOLEAN, NEW kind, NEW h \in Peers,
             IF arp THEN kind \in ArpKinds ELSE kind \in IpKinds,
             Arrive(arp, kind, h)
      PROVE  Calm'
  <2> DEFINE f == [pkt |-> Take(net), kind |-> kind, from |-> h]
  <2>1. /\ net.free # {} /\ net' = EtherInput(Taken(net), Take(net), arp, f)
        /\ pc = "poll" /\ UNCHANGED <<pc, up>>
    BY <1>8 DEF Arrive
  <2>2. Take(net) \in Pkts /\ Mild(net, Taken(net)) /\ Taken(net).ipq = net.ipq
    BY <1>0, <2>1, TakenMild DEF Taken, Nets
  <2>3. IF arp THEN f \in ArpFrame ELSE f \in IpFrame
    BY <1>8, <2>2 DEF ArpFrame, IpFrame
  <2> HIDE DEF f
  <2>4. Taken(net) \in Nets /\ Short(Taken(net)) /\ Unheld(Taken(net))
    BY <2>2 DEF Calm, Mild
  <2>5. /\ net' \in Nets /\ Short(net)' /\ Unheld(net)' /\ Taken(net).netisr \subseteq net'.netisr
        /\ net'.ipq = Taken(net).ipq \/ "IP" \in net'.netisr
        /\ net'.arpq = Taken(net).arpq \/ "ARP" \in net'.netisr
    BY <2>1, <2>2, <2>3, <2>4, EtherInputTyped DEF Short, Unheld
  <2>6. IsrPending'
    BY <2>1, <2>2, <2>5 DEF Calm, Mild, IsrPending
  <2> QED  BY <1>0, <2>1, <2>5, <2>6 DEF Calm
<1>9. CASE Arrivals
  BY <1>8, <1>9 DEF Arrivals, ArpKinds, IpKinds
<1>10. CASE PollDone
  BY <1>10 DEF PollDone, Calm, IsrPending
<1>11. CASE UNCHANGED vars
  BY <1>11 DEF vars, Calm, IsrPending
<1>12. ASSUME NEW k \in 0 .. TxMax, TxRoom(k)  PROVE Calm'
  <2>1. net' = [net EXCEPT !.tx = k] /\ UNCHANGED <<up, pc>>
    BY <1>12 DEF TxRoom
  <2>2. /\ net' \in Nets /\ net'.netisr = net.netisr /\ net'.ipq = net.ipq
        /\ net'.arpq = net.arpq /\ net'.sock = net.sock /\ net'.hold = net.hold
        /\ net'.resolved = net.resolved
    BY <1>0, <2>1 DEF Nets
  <2> QED  BY <2>1, <2>2 DEF Calm, Short, Unheld, IsrPending
<1> QED
  BY <1>1, <1>2, <1>3, <1>4, <1>5, <1>6, <1>7, <1>9, <1>10, <1>11, <1>12 DEF Next, Calls, SoftNet

LEMMA AlwaysCalm == Spec => []Calm
BY CalmInit, CalmNext, PTL DEF Spec

\* No input queue is left with a packet and nothing to fetch it: the order of
\* clearing a bit, working off the queue and returning in softnetpoll and
\* splx never loses a wakeup, whatever the lengths of the queues.
THEOREM IsrAlwaysPending == Spec => []IsrPending
<1>1. Calm => IsrPending
  BY DEF Calm
<1> QED  BY <1>1, AlwaysCalm, PTL

\* ARP never holds a packet for a host whose address it knows, however
\* requests, answers and sends for any number of hosts follow one another.
THEOREM NeverHeldResolved == Spec => []ResolvedNotHeld
<1>1. Calm => ResolvedNotHeld
  BY DEF Calm, Unheld, ResolvedNotHeld
<1> QED  BY <1>1, AlwaysCalm, PTL

-----------------------------------------------------------------------------
(* Ownership.                                                              *)

\* What the frames of a queue, a receive buffer and ARP own, and that none of
\* them owns a chain twice.
In(q) == {q[i].pkt : i \in 1..Len(q)}
Once(q) == \A i, j \in 1..Len(q) : q[i].pkt = q[j].pkt => i = j

Buffered(s) == {s[i] : i \in 1..Len(s)}
BufferedOnce(s) == \A i, j \in 1..Len(s) : s[i] = s[j] => i = j

Held(hold) == {p \in Pkts : \E h \in Peers : hold[h] = p}
HeldOnce(hold) == \A g, h \in Peers : hold[g] = hold[h] /\ hold[g] # None => g = h

Disjoint(A, B, C, D, E, F, G) ==
  /\ A \cap B = {} /\ A \cap C = {} /\ A \cap D = {} /\ A \cap E = {} /\ A \cap F = {}
  /\ B \cap C = {} /\ B \cap D = {} /\ B \cap E = {} /\ B \cap F = {}
  /\ C \cap D = {} /\ C \cap E = {} /\ C \cap F = {}
  /\ D \cap E = {} /\ D \cap F = {}
  /\ E \cap F = {}
  /\ A \cap G = {} /\ B \cap G = {} /\ C \cap G = {} /\ D \cap G = {} /\ E \cap G = {}
  /\ F \cap G = {}

Apart(n, H) ==
  /\ Once(n.ipq) /\ Once(n.arpq) /\ BufferedOnce(n.sock) /\ HeldOnce(n.hold)
  /\ Disjoint(n.free, In(n.ipq), In(n.arpq), Buffered(n.sock), Held(n.hold), H, n.lost)

Whole(n, H) ==
  Pkts \subseteq n.free \cup In(n.ipq) \cup In(n.arpq) \cup Buffered(n.sock) \cup Held(n.hold)
                  \cup n.lost \cup H

\* No packet with options is on the queue for IP.
Plain(q) == \A i \in 1..Len(q) : q[i].kind # "options"

\* The handler's hands hold H, and nothing was freed twice or lost unseen.
Sound(n, H) ==
  /\ n \in Nets /\ H \subseteq Pkts /\ ~n.twice /\ Plain(n.ipq)
  /\ Apart(n, H)
  /\ Whole(n, H)

\* The constants under which ownership is sound: see OwnedOnce.
Harmless == Room /\ "options" \notin Frames

LEMMA AppendIn ==
  ASSUME NEW S, NEW q \in Seq(S), NEW f \in S
  PROVE  /\ In(Append(q, f)) = In(q) \cup {f.pkt}
         /\ Once(q) /\ f.pkt \notin In(q) => Once(Append(q, f))
         /\ Plain(q) /\ f.kind # "options" => Plain(Append(q, f))
<1> DEFINE r == Append(q, f)
<1>1. /\ Len(q) \in Nat /\ Len(r) = Len(q) + 1
      /\ \A i \in 1..Len(q) : r[i] = q[i]
      /\ r[Len(q) + 1] = f
  BY AppendProperties, LenProperties
<1> HIDE DEF r
<1>2. \A i \in 1..Len(r) : i \in 1..Len(q) \/ i = Len(q) + 1
  BY <1>1
<1>3. In(r) = In(q) \cup {f.pkt}
  <2>1. ASSUME NEW x \in In(r)  PROVE x \in In(q) \cup {f.pkt}
    BY <1>1, <1>2 DEF In
  <2>2. ASSUME NEW x \in In(q)  PROVE x \in In(r)
    <3>1. PICK i \in 1..Len(q) : x = q[i].pkt
      BY <2>2 DEF In
    <3>2. i \in 1..Len(r) /\ x = r[i].pkt
      BY <1>1, <3>1
    <3> QED  BY <3>2 DEF In
  <2>3. f.pkt \in In(r)
    <3>1. Len(q) + 1 \in 1..Len(r)
      BY <1>1
    <3> QED  BY <1>1, <3>1 DEF In
  <2> QED  BY <2>1, <2>2, <2>3
<1>4. ASSUME Once(q), f.pkt \notin In(q)  PROVE Once(r)
  <2>1. \A i \in 1..Len(q) : q[i].pkt # f.pkt
    BY <1>4 DEF In
  <2> QED  BY <1>1, <1>2, <1>4, <2>1 DEF Once
<1>5. ASSUME Plain(q), f.kind # "options"  PROVE Plain(r)
  BY <1>1, <1>2, <1>5 DEF Plain
<1> QED  BY <1>3, <1>4, <1>5 DEF r

LEMMA TailIn ==
  ASSUME NEW S, NEW q \in Seq(S), q # <<>>
  PROVE  /\ In(q) = In(Tail(q)) \cup {Head(q).pkt}
         /\ Once(q) => Once(Tail(q)) /\ Head(q).pkt \notin In(Tail(q))
         /\ Plain(q) => Plain(Tail(q)) /\ Head(q).kind # "options"
<1> DEFINE r == Tail(q)
<1>1. /\ Len(q) \in Nat /\ Len(q) >= 1 /\ Len(r) = Len(q) - 1
      /\ \A i \in 1..Len(r) : r[i] = q[i + 1]
      /\ q[1] = Head(q)
  BY HeadTailProperties, LenProperties, EmptySeq
<1> HIDE DEF r
<1>2. \A i \in 1..Len(q) : i = 1 \/ (i - 1 \in 1..Len(r) /\ q[i] = r[i - 1])
  BY <1>1
<1>3. \A i \in 1..Len(r) : i + 1 \in 1..Len(q) /\ i + 1 # 1 /\ r[i] = q[i + 1]
  BY <1>1
<1>4. 1 \in 1..Len(q)
  BY <1>1
<1>5. In(q) = In(r) \cup {Head(q).pkt}
  BY <1>1, <1>2, <1>3, <1>4 DEF In
<1>6. ASSUME Once(q)  PROVE Once(r) /\ Head(q).pkt \notin In(r)
  <2>1. ASSUME NEW i \in 1..Len(r), NEW j \in 1..Len(r), r[i].pkt = r[j].pkt  PROVE i = j
    <3>1. i + 1 = j + 1
      BY <1>3, <1>6, <2>1 DEF Once
    <3> QED  BY <3>1, <1>1
  <2>2. ASSUME NEW i \in 1..Len(r)  PROVE r[i].pkt # Head(q).pkt
    BY <1>1, <1>3, <1>4, <1>6 DEF Once
  <2> QED  BY <2>1, <2>2 DEF Once, In
<1>7. ASSUME Plain(q)  PROVE Plain(r) /\ Head(q).kind # "options"
  BY <1>1, <1>3, <1>4, <1>7 DEF Plain
<1> QED  BY <1>5, <1>6, <1>7 DEF r

LEMMA AppendBuffered ==
  ASSUME NEW s \in Seq(Pkts), NEW p \in Pkts
  PROVE  /\ Buffered(Append(s, p)) = Buffered(s) \cup {p}
         /\ BufferedOnce(s) /\ p \notin Buffered(s) => BufferedOnce(Append(s, p))
<1> DEFINE r == Append(s, p)
<1>1. /\ Len(s) \in Nat /\ Len(r) = Len(s) + 1
      /\ \A i \in 1..Len(s) : r[i] = s[i]
      /\ r[Len(s) + 1] = p
  BY AppendProperties, LenProperties
<1> HIDE DEF r
<1>2. \A i \in 1..Len(r) : i \in 1..Len(s) \/ i = Len(s) + 1
  BY <1>1
<1>3. Len(s) + 1 \in 1..Len(r) /\ \A i \in 1..Len(s) : i \in 1..Len(r)
  BY <1>1
<1>4. Buffered(r) = Buffered(s) \cup {p}
  BY <1>1, <1>2, <1>3 DEF Buffered
<1>5. ASSUME BufferedOnce(s), p \notin Buffered(s)  PROVE BufferedOnce(r)
  <2>1. \A i \in 1..Len(s) : s[i] # p
    BY <1>5 DEF Buffered
  <2> QED  BY <1>1, <1>2, <1>5, <2>1 DEF BufferedOnce
<1> QED  BY <1>4, <1>5 DEF r

LEMMA TailBuffered ==
  ASSUME NEW s \in Seq(Pkts), s # <<>>
  PROVE  /\ Buffered(s) = Buffered(Tail(s)) \cup {Head(s)}
         /\ BufferedOnce(s) => BufferedOnce(Tail(s)) /\ Head(s) \notin Buffered(Tail(s))
<1> DEFINE r == Tail(s)
<1>1. /\ Len(s) \in Nat /\ Len(s) >= 1 /\ Len(r) = Len(s) - 1
      /\ \A i \in 1..Len(r) : r[i] = s[i + 1]
      /\ s[1] = Head(s)
  BY HeadTailProperties, LenProperties, EmptySeq
<1> HIDE DEF r
<1>2. \A i \in 1..Len(s) : i = 1 \/ (i - 1 \in 1..Len(r) /\ s[i] = r[i - 1])
  BY <1>1
<1>3. \A i \in 1..Len(r) : i + 1 \in 1..Len(s) /\ i + 1 # 1 /\ r[i] = s[i + 1]
  BY <1>1
<1>4. 1 \in 1..Len(s)
  BY <1>1
<1>5. Buffered(s) = Buffered(r) \cup {Head(s)}
  BY SMTT(40), <1>1, <1>2, <1>3, <1>4 DEF Buffered
<1>6. ASSUME BufferedOnce(s)  PROVE BufferedOnce(r) /\ Head(s) \notin Buffered(r)
  BY <1>1, <1>3, <1>4, <1>6 DEF BufferedOnce, Buffered
<1> QED  BY <1>5, <1>6 DEF r

LEMMA FreeSound ==
  ASSUME NEW n, NEW H, NEW p \in Pkts \ H, Sound(n, H \cup {p})
  PROVE  Sound(Free(n, p), H)
<1> DEFINE m == Free(n, p)
<1>1. n \in Nets /\ p \notin n.free /\ ~n.twice
  BY DEF Sound, Apart, Disjoint
<1>2. m \in Nets
  BY <1>1, FreeMild DEF Mild
<1>3. /\ m.free = n.free \cup {p} /\ m.ipq = n.ipq /\ m.arpq = n.arpq /\ m.sock = n.sock
      /\ m.hold = n.hold /\ ~m.twice /\ m.lost = n.lost
  BY <1>1 DEF Free, Nets
<1> HIDE DEF m
<1>4. Apart(m, H)
  BY <1>3 DEF Sound, Apart, Disjoint
<1>5. Whole(m, H)
  BY <1>3 DEF Sound, Whole
<1> QED  BY <1>2, <1>3, <1>4, <1>5 DEF Sound, m

LEMMA TakenSound ==
  ASSUME NEW n, NEW H, Sound(n, H), n.free # {}
  PROVE  Take(n) \in Pkts \ H /\ Sound(Taken(n), H \cup {Take(n)})
<1> DEFINE m == Taken(n)
           p == Take(n)
<1>1. n \in Nets /\ p \in n.free /\ p \in Pkts /\ m \in Nets
  BY TakenMild DEF Sound, Mild
<1>2. /\ m.free = n.free \ {p} /\ m.ipq = n.ipq /\ m.arpq = n.arpq /\ m.sock = n.sock
      /\ m.hold = n.hold /\ m.twice = n.twice /\ m.lost = n.lost
  BY <1>1 DEF Taken, Nets
<1> HIDE DEF m, p
<1>3. p \notin H
  BY <1>1 DEF Sound, Apart, Disjoint
<1>4. Apart(m, H \cup {p})
  BY <1>1, <1>2 DEF Sound, Apart, Disjoint
<1>5. Whole(m, H \cup {p})
  BY <1>1, <1>2 DEF Sound, Whole
<1>6. Sound(m, H \cup {p})
  BY <1>1, <1>2, <1>4, <1>5 DEF Sound
<1> QED  BY <1>1, <1>3, <1>6 DEF m, p

LEMMA LoseSound ==
  ASSUME NEW n, NEW H, NEW p \in Pkts \ H, Sound(n, H \cup {p})
  PROVE  Sound(Lose(n, p), H)
<1> DEFINE m == Lose(n, p)
<1>1. n \in Nets /\ m \in Nets
  BY LoseMild DEF Sound, Mild
<1>2. /\ m.lost = n.lost \cup {p} /\ m.free = n.free /\ m.ipq = n.ipq /\ m.arpq = n.arpq
      /\ m.sock = n.sock /\ m.hold = n.hold /\ m.twice = n.twice
  BY <1>1 DEF Lose, Nets
<1> HIDE DEF m
<1>3. Apart(m, H)
  BY <1>2 DEF Sound, Apart, Disjoint
<1>4. Whole(m, H)
  BY <1>2 DEF Sound, Whole
<1> QED  BY <1>1, <1>2, <1>3, <1>4 DEF Sound, m

\* The driver frees the chain or loses it.
LEMMA XmitSound ==
  ASSUME NEW n, NEW H, NEW p \in Pkts \ H, Sound(n, H \cup {p})
  PROVE  Sound(Xmit(n, p), H)
<1>1. CASE n.tx > 0
  <2> DEFINE m == Free(n, p)
             k == [m EXCEPT !.tx = @ - 1]
  <2>1. Sound(m, H) /\ m \in Nets
    BY FreeSound DEF Sound
  <2>2. Xmit(n, p) = k
    BY <1>1 DEF Xmit
  <2>3. k \in Nets
    BY <2>2, XmitMild DEF Sound, Mild
  <2> HIDE DEF m
  <2>4. /\ k.free = m.free /\ k.ipq = m.ipq /\ k.arpq = m.arpq /\ k.sock = m.sock
        /\ k.hold = m.hold /\ k.twice = m.twice /\ k.lost = m.lost
    BY <2>1 DEF Nets
  <2> HIDE DEF k
  <2>5. Sound(k, H)
    BY <2>1, <2>3, <2>4 DEF Sound, Apart, Whole
  <2> QED  BY <2>2, <2>5
<1>2. CASE ~(n.tx > 0)
  BY <1>2, LoseSound DEF Xmit
<1> QED  BY <1>1, <1>2

LEMMA ArpRequestSound ==
  ASSUME NEW n, NEW H, Sound(n, H)
  PROVE  Sound(ArpRequest(n), H)
<1>1. CASE n.free = {}
  BY <1>1 DEF ArpRequest
<1>2. CASE n.free # {}
  BY <1>2, TakenSound, XmitSound DEF ArpRequest
<1> QED  BY <1>1, <1>2

\* The packet in hand goes to the end of the queue for IP.
LEMMA IpqSound ==
  ASSUME NEW n, NEW H, NEW f \in IpFrame, f.pkt \notin H, f.kind # "options",
         NEW B \in SUBSET {"IP", "ARP"}, Sound(n, H \cup {f.pkt})
  PROVE  Sound([n EXCEPT !.ipq = Append(@, f), !.netisr = B], H)
<1> DEFINE m == [n EXCEPT !.ipq = Append(@, f), !.netisr = B]
<1>1. n \in Nets /\ n.ipq \in Seq(IpFrame) /\ Append(n.ipq, f) \in Seq(IpFrame)
      /\ f.pkt \notin In(n.ipq)
  BY AppendProperties DEF Sound, Nets, Apart, Disjoint
<1>2. /\ m \in Nets /\ m.ipq = Append(n.ipq, f) /\ m.free = n.free /\ m.arpq = n.arpq
      /\ m.sock = n.sock /\ m.hold = n.hold /\ m.twice = n.twice /\ m.lost = n.lost
  BY <1>1 DEF Nets
<1> HIDE DEF m
<1>3. In(m.ipq) = In(n.ipq) \cup {f.pkt} /\ Once(m.ipq) /\ Plain(m.ipq)
  BY <1>1, <1>2, AppendIn DEF Sound, Apart
<1>4. Apart(m, H)
  BY <1>2, <1>3 DEF Sound, Apart, Disjoint
<1>5. Whole(m, H)
  BY <1>2, <1>3 DEF Sound, Whole
<1> QED  BY <1>2, <1>3, <1>4, <1>5 DEF Sound, m

\* The same for ARP.
LEMMA ArpqSound ==
  ASSUME NEW n, NEW H, NEW f \in ArpFrame, f.pkt \notin H,
         NEW B \in SUBSET {"IP", "ARP"}, Sound(n, H \cup {f.pkt})
  PROVE  Sound([n EXCEPT !.arpq = Append(@, f), !.netisr = B], H)
<1> DEFINE m == [n EXCEPT !.arpq = Append(@, f), !.netisr = B]
<1>1. n \in Nets /\ n.arpq \in Seq(ArpFrame) /\ Append(n.arpq, f) \in Seq(ArpFrame)
      /\ f.pkt \notin In(n.arpq)
  BY AppendProperties DEF Sound, Nets, Apart, Disjoint
<1>2. /\ m \in Nets /\ m.arpq = Append(n.arpq, f) /\ m.free = n.free /\ m.ipq = n.ipq
      /\ m.sock = n.sock /\ m.hold = n.hold /\ m.twice = n.twice /\ m.lost = n.lost
  BY <1>1 DEF Nets
<1> HIDE DEF m
<1>3. In(m.arpq) = In(n.arpq) \cup {f.pkt} /\ Once(m.arpq)
  BY <1>1, <1>2, AppendIn DEF Sound, Apart
<1>4. Apart(m, H)
  BY <1>2, <1>3 DEF Sound, Apart, Disjoint
<1>5. Whole(m, H)
  BY <1>2, <1>3 DEF Sound, Whole
<1> QED  BY <1>2, <1>3, <1>4, <1>5 DEF Sound, m

LEMMA DeliverSound ==
  ASSUME NEW n, NEW H, NEW p \in Pkts \ H, Sound(n, H \cup {p})
  PROVE  Sound(Deliver(n, p), H)
<1>1. CASE Len(n.sock) >= SbMax
  BY <1>1, FreeSound DEF Deliver
<1>2. CASE ~(Len(n.sock) >= SbMax)
  <2> DEFINE m == [n EXCEPT !.sock = Append(@, p)]
  <2>1. n \in Nets /\ n.sock \in Seq(Pkts) /\ Append(n.sock, p) \in Seq(Pkts)
        /\ p \notin Buffered(n.sock)
    BY AppendProperties DEF Sound, Nets, Apart, Disjoint
  <2>2. /\ m \in Nets /\ m.sock = Append(n.sock, p) /\ m.free = n.free /\ m.ipq = n.ipq
        /\ m.arpq = n.arpq /\ m.hold = n.hold /\ m.twice = n.twice /\ m.lost = n.lost
    BY <2>1 DEF Nets
  <2>3. Deliver(n, p) = m
    BY <1>2 DEF Deliver
  <2> HIDE DEF m
  <2>4. Buffered(m.sock) = Buffered(n.sock) \cup {p} /\ BufferedOnce(m.sock)
    BY <2>1, <2>2, AppendBuffered DEF Sound, Apart
  <2>5. Apart(m, H)
    BY <2>2, <2>4 DEF Sound, Apart, Disjoint
  <2>6. Whole(m, H)
    BY <2>2, <2>4 DEF Sound, Whole
  <2> QED  BY <2>2, <2>3, <2>5, <2>6 DEF Sound
<1> QED  BY <1>1, <1>2

\* ARP drops the packet it holds for the host, if any, and holds this one.
LEMMA ArpHoldSound ==
  ASSUME NEW n, NEW H, NEW p \in Pkts \ H, NEW h \in Peers, h \notin n.resolved,
         Sound(n, H \cup {p})
  PROVE  Sound(ArpHold(n, p, h), H)
<1> DEFINE q == n.hold[h]
           dropped == IF q = None THEN n ELSE Free(n, q)
           m == [dropped EXCEPT !.hold[h] = p]
<1>1. n \in Nets /\ q \in Pkts \cup {None} /\ n.hold \in [Peers -> Pkts \cup {None}]
  BY DEF Sound, Nets
<1>2. m \in Nets
  <2>1. dropped \in Nets
    BY <1>1, FreeMild DEF Mild
  <2> HIDE DEF dropped
  <2> QED  BY <2>1 DEF Nets
<1>3. q \in Pkts => q \in Held(n.hold) /\ q \notin n.free
  BY DEF Held, Sound, Apart, Disjoint
<1>4. p \notin Held(n.hold) /\ \A g \in Peers : n.hold[g] # p
  BY DEF Held, Sound, Apart, Disjoint
<1>5. /\ m.free = n.free \cup ({q} \ {None}) /\ m.hold = [n.hold EXCEPT ![h] = p]
      /\ m.ipq = n.ipq /\ m.arpq = n.arpq /\ m.sock = n.sock /\ ~m.twice
      /\ m.lost = n.lost
  <2>1. CASE q = None
    BY <1>1, <2>1 DEF Nets, Sound
  <2>2. CASE q # None
    BY <1>1, <1>3, <2>2 DEF Free, Nets, Sound
  <2> QED  BY <2>1, <2>2
<1>5a. ArpHold(n, p, h) = ArpRequest(m)
  BY DEF ArpHold
<1> HIDE DEF m
<1>6. \A g \in Peers : m.hold[g] = IF g = h THEN p ELSE n.hold[g]
  BY <1>1, <1>5
<1>7. HeldOnce(n.hold)
  BY DEF Sound, Apart
<1>8. HeldOnce(m.hold)
  BY <1>4, <1>6, <1>7 DEF HeldOnce
<1>9. Held(m.hold) = (Held(n.hold) \ {q}) \cup {p}
  <2>1. ASSUME NEW x \in Held(m.hold)  PROVE x \in (Held(n.hold) \ {q}) \cup {p}
    BY <1>6, <1>7, <2>1 DEF Held, HeldOnce
  <2>2. ASSUME NEW x \in Held(n.hold) \ {q}  PROVE x \in Held(m.hold)
    BY <1>6, <2>2 DEF Held
  <2>3. p \in Held(m.hold)
    BY <1>6 DEF Held
  <2> QED  BY <2>1, <2>2, <2>3
<1>10. Apart(m, H)
  BY <1>3, <1>1, <1>5, <1>8, <1>9 DEF Sound, Apart, Disjoint
<1>11. Whole(m, H)
  BY <1>1, <1>5, <1>9 DEF Sound, Whole
<1>12. Sound(m, H)
  BY <1>2, <1>5, <1>10, <1>11 DEF Sound
<1> QED  BY <1>5a, <1>12, ArpRequestSound

\* An output function that fails has left the packet with its caller, and one
\* that does not has disposed of it.
LEMMA LoOutputSound ==
  ASSUME NEW n, NEW H, NEW p \in Pkts \ H, NEW kind \in IpKinds \ {"options"}, Sound(n, H \cup {p})
  PROVE  LET out == LoOutput(n, p, kind)
         IN  IF out.err THEN out.net = n ELSE Sound(out.net, H)
<1> DEFINE f == [pkt |-> p, kind |-> kind, from |-> Self]
<1>1. CASE Len(n.ipq) >= QMax
  BY <1>1 DEF LoOutput
<1>2. CASE ~(Len(n.ipq) >= QMax)
  <2>1. f \in IpFrame /\ f.pkt = p /\ f.kind = kind
    BY DEF IpFrame
  <2>2. n.netisr \cup {"IP"} \in SUBSET {"IP", "ARP"}
    BY DEF Sound, Nets
  <2> HIDE DEF f
  <2>3. Sound([n EXCEPT !.ipq = Append(@, f), !.netisr = n.netisr \cup {"IP"}], H)
    BY <2>1, <2>2, IpqSound
  <2> QED  BY <1>2, <2>3 DEF LoOutput, f
<1> QED  BY <1>1, <1>2

LEMMA EtherOutputSound ==
  ASSUME Harmless, up \in BOOLEAN,
         NEW n, NEW H, NEW p \in Pkts \ H, NEW h \in Peers, Sound(n, H \cup {p})
  PROVE  LET out == EtherOutput(n, p, h)
         IN  IF out.err THEN out.net = n ELSE Sound(out.net, H)
<1>1. CASE ~up
  BY <1>1 DEF EtherOutput
<1>2. CASE up /\ h \in n.resolved
  BY <1>2, XmitSound DEF EtherOutput, Framed, Harmless
<1>3. CASE up /\ h \notin n.resolved
  BY <1>3, ArpHoldSound DEF EtherOutput
<1> QED  BY <1>1, <1>2, <1>3

LEMMA IpOutputSound ==
  ASSUME Harmless, up \in BOOLEAN,
         NEW n, NEW H, NEW p \in Pkts \ H, NEW to \in Peers \cup {Self, Nowhere},
         NEW kind \in IpKinds \ {"options"}, NEW size, Sound(n, H \cup {p})
  PROVE  Sound(IpOutput(n, p, to, kind, size), H)
<1> DEFINE out == IF to = Self THEN LoOutput(n, p, kind) ELSE EtherOutput(n, p, to)
<1>1. CASE to = Nowhere
  BY <1>1, FreeSound DEF IpOutput
<1>3. CASE to # Nowhere /\ size = "big"
  BY <1>3, LoseSound DEF IpOutput
<1>2. CASE to # Nowhere /\ size # "big"
  <2>1. IF out.err THEN out.net = n ELSE Sound(out.net, H)
    <3>1. CASE to = Self
      BY <3>1, LoOutputSound
    <3>2. CASE to # Self
      BY <1>2, <3>2, EtherOutputSound
    <3> QED  BY <3>1, <3>2
  <2> HIDE DEF out
  <2>2. Sound(IF out.err THEN Free(out.net, p) ELSE out.net, H)
    BY <2>1, FreeSound
  <2> QED  BY <1>2, <2>2 DEF IpOutput, out
<1> QED  BY <1>1, <1>2, <1>3

LEMMA IcmpErrorSound ==
  ASSUME Harmless, up \in BOOLEAN,
         NEW n, NEW H, NEW p \in Pkts \ H, NEW from \in Peers \cup {Self}, Sound(n, H \cup {p})
  PROVE  Sound(IcmpError(n, p, from), H)
<1> DEFINE m == IF n.free = {} THEN n ELSE IpOutput(Taken(n), Take(n), from, "icmp", "fits")
<1>1. Sound(m, H \cup {p})
  <2>1. CASE n.free = {}
    BY <2>1
  <2>2. CASE n.free # {}
    <3>1. Take(n) \in Pkts \ (H \cup {p}) /\ Sound(Taken(n), (H \cup {p}) \cup {Take(n)})
      BY <2>2, TakenSound
    <3>2. "icmp" \in IpKinds \ {"options"}
      BY DEF IpKinds
    <3>3. Sound(IpOutput(Taken(n), Take(n), from, "icmp", "fits"), H \cup {p})
      BY <3>1, <3>2, IpOutputSound
    <3> QED  BY <2>2, <3>3
  <2> QED  BY <2>1, <2>2
<1> HIDE DEF m
<1>2. Sound(Free(m, p), H)
  BY <1>1, FreeSound
<1> QED  BY <1>2 DEF IcmpError, m

LEMMA IpInputSound ==
  ASSUME Harmless, up \in BOOLEAN,
         NEW n, NEW f \in IpFrame, f.kind # "options", NEW raw \in BOOLEAN, Sound(n, {f.pkt})
  PROVE  Sound(IpInput(n, f, raw), {})
<1>1. f.pkt \in Pkts \ {} /\ f.kind \in IpKinds /\ f.from \in Peers \cup {Self}
  BY DEF IpFrame
<1>2. Sound(n, {} \cup {f.pkt})
  <2>1. {} \cup {f.pkt} = {f.pkt}
    OBVIOUS
  <2> QED  BY <2>1
<1>3. CASE f.kind = "bad"
  BY <1>1, <1>2, <1>3, FreeSound DEF IpInput
<1>4. CASE f.kind = "udp"
  BY <1>1, <1>2, <1>4, DeliverSound DEF IpInput
<1>5. CASE f.kind = "closed"
  BY <1>1, <1>2, <1>5, IcmpErrorSound DEF IpInput, Closed
<1>6. CASE f.kind = "echo"
  <2>1. "icmp" \in IpKinds \ {"options"}
    BY DEF IpKinds
  <2>2. Sound(IpOutput(n, f.pkt, f.from, "icmp", "fits"), {})
    BY <1>1, <1>2, <2>1, IpOutputSound
  <2> QED  BY <1>6, <2>2 DEF IpInput
<1>7. CASE f.kind = "icmp"
  BY <1>1, <1>2, <1>7, DeliverSound, FreeSound DEF IpInput, RipInput
<1> QED  BY <1>1, <1>3, <1>4, <1>5, <1>6, <1>7 DEF IpKinds

\* With the interface up what was held is sent, with it down it is lost.
LEMMA LearnSound ==
  ASSUME Harmless, up \in BOOLEAN,
         NEW n, NEW H, NEW h \in Peers, Sound(n, H)
  PROVE  Sound(Learn(n, h), H)
<1> DEFINE m == Learn(n, h)
           q == n.hold[h]
<1>1. n \in Nets /\ q \in Pkts \cup {None} /\ n.hold \in [Peers -> Pkts \cup {None}]
  BY DEF Sound, Nets
<1>2. m \in Nets
  BY <1>1, LearnMild DEF Mild
<1>3. q \in Pkts => q \in Held(n.hold) /\ q \notin n.free
  BY DEF Held, Sound, Apart, Disjoint
<1>4. /\ \/ m.free = n.free \cup ({q} \ {None}) /\ m.lost = n.lost
         \/ m.free = n.free /\ m.lost = n.lost \cup ({q} \ {None})
      /\ m.hold = [n.hold EXCEPT ![h] = None]
      /\ m.ipq = n.ipq /\ m.arpq = n.arpq /\ m.sock = n.sock /\ ~m.twice
  <2> DEFINE k == [n EXCEPT !.resolved = @ \cup {h}]
             out == EtherOutput(k, q, h).net
  <2>1. /\ h \in k.resolved /\ k.hold = n.hold /\ k.ipq = n.ipq /\ k.arpq = n.arpq
        /\ k.sock = n.sock /\ ~k.twice /\ k.free = n.free /\ k.lost = n.lost /\ k \in Nets
    BY <1>1 DEF Nets, Sound
  <2>2. m = IF q = None THEN k
            ELSE [IF up THEN out ELSE Lose(out, q) EXCEPT !.hold[h] = None]
    BY DEF Learn
  <2> HIDE DEF k, m
  <2>3. CASE q = None
    BY <1>1, <2>1, <2>2, <2>3
  <2>4. CASE q # None /\ (~up \/ ~(k.tx > 0))
    <3>1. m = [Lose(k, q) EXCEPT !.hold[h] = None]
      BY <2>1, <2>2, <2>4 DEF EtherOutput, Framed, Xmit, Harmless
    <3> QED  BY <2>1, <2>4, <3>1 DEF Lose, Nets
  <2>5. CASE q # None /\ up /\ k.tx > 0
    <3>1. m = [[Free(k, q) EXCEPT !.tx = @ - 1] EXCEPT !.hold[h] = None]
      BY <2>1, <2>2, <2>5 DEF EtherOutput, Framed, Xmit, Harmless
    <3>2. q \in Pkts /\ q \notin k.free
      BY <1>1, <1>3, <2>1, <2>5
    <3> QED  BY <2>1, <2>5, <3>1, <3>2 DEF Free, Nets
  <2> QED  BY <2>3, <2>4, <2>5
<1> HIDE DEF m
<1>5. \A g \in Peers : m.hold[g] = IF g = h THEN None ELSE n.hold[g]
  BY <1>1, <1>4
<1>6. HeldOnce(n.hold)
  BY DEF Sound, Apart
<1>7. HeldOnce(m.hold)
  BY <1>5, <1>6 DEF HeldOnce
<1>8. Held(m.hold) = Held(n.hold) \ {q}
  <2>1. ASSUME NEW x \in Held(m.hold)  PROVE x \in Held(n.hold) \ {q}
    BY <1>5, <1>6, <2>1 DEF Held, HeldOnce
  <2>2. ASSUME NEW x \in Held(n.hold) \ {q}  PROVE x \in Held(m.hold)
    BY <1>5, <2>2 DEF Held
  <2> QED  BY <2>1, <2>2
<1>9. Apart(m, H)
  BY <1>1, <1>3, <1>4, <1>7, <1>8 DEF Sound, Apart, Disjoint
<1>10. Whole(m, H)
  BY <1>1, <1>4, <1>8 DEF Sound, Whole
<1> QED  BY <1>2, <1>4, <1>9, <1>10 DEF Sound, m

LEMMA ArpInputSound ==
  ASSUME Harmless, up \in BOOLEAN,
         NEW n, NEW f \in ArpFrame, Sound(n, {f.pkt})
  PROVE  Sound(ArpInput(n, f), {})
<1>1. f.pkt \in Pkts \ {} /\ f.kind \in ArpKinds /\ f.from \in Peers
  BY DEF ArpFrame
<1>2. ASSUME NEW m, Sound(m, {f.pkt})  PROVE Sound(Free(m, f.pkt), {})
  <2>1. {} \cup {f.pkt} = {f.pkt}
    OBVIOUS
  <2> QED  BY <1>1, <1>2, <2>1, FreeSound
<1>3. ASSUME NEW m, Sound(m, {f.pkt})  PROVE Sound(ArpAnswer(m, f.pkt), {})
  <2>1. {} \cup {f.pkt} = {f.pkt}
    OBVIOUS
  <2> QED  BY <1>1, <1>3, <2>1, XmitSound, LoseSound DEF ArpAnswer, Framed, Harmless
<1>4. Sound(Learn(n, f.from), {f.pkt})
  BY <1>1, LearnSound
<1>5. CASE f.kind = "reply"
  BY <1>2, <1>4, <1>5 DEF ArpInput
<1>6. CASE f.kind = "request"
  BY <1>3, <1>4, <1>6 DEF ArpInput
<1>7. CASE f.kind = "conflict"
  BY <1>3, <1>7 DEF ArpInput
<1>8. CASE f.kind = "other"
  BY <1>2, <1>8 DEF ArpInput
<1> QED  BY <1>1, <1>5, <1>6, <1>7, <1>8 DEF ArpKinds

LEMMA EtherInputSound ==
  ASSUME NEW n, NEW p \in Pkts, NEW arp \in BOOLEAN, NEW f, f.pkt = p,
         IF arp THEN f \in ArpFrame ELSE f \in IpFrame /\ f.kind # "options",
         Sound(n, {p})
  PROVE  Sound(EtherInput(n, p, arp, f), {})
<1> DEFINE B == n.netisr \cup {IF arp THEN "ARP" ELSE "IP"}
           m == [n EXCEPT !.netisr = B]
<1>0. n \in Nets /\ B \in SUBSET {"IP", "ARP"} /\ {} \cup {p} = {p} /\ p \in Pkts \ {}
  BY DEF Sound, Nets
<1> HIDE DEF B
<1>1. m \in Nets /\ m.free = n.free /\ m.twice = n.twice /\ m.lost = n.lost /\ m.ipq = n.ipq /\ m.arpq = n.arpq
      /\ m.sock = n.sock /\ m.hold = n.hold
  BY <1>0 DEF Nets
<1>2. Sound(m, {p})
  BY <1>1 DEF Sound, Apart, Whole
<1>3. CASE Len(IF arp THEN n.arpq ELSE n.ipq) >= QMax
  <2>1. EtherInput(n, p, arp, f) = Free(m, p)
    BY <1>3 DEF EtherInput, B
  <2> HIDE DEF m
  <2> QED  BY <1>0, <1>2, <2>1, FreeSound
<1>4. CASE ~(Len(n.arpq) >= QMax) /\ arp
  <2>1. EtherInput(n, p, arp, f) = [n EXCEPT !.arpq = Append(@, f), !.netisr = B]
    BY <1>0, <1>4 DEF EtherInput, B, Nets
  <2>2. Sound([n EXCEPT !.arpq = Append(@, f), !.netisr = B], {})
    <3>1. f \in ArpFrame /\ f.pkt \notin {} /\ Sound(n, {} \cup {f.pkt})
      BY <1>0, <1>4
    <3> QED  BY <1>0, <3>1, ArpqSound
  <2> QED  BY <2>1, <2>2
<1>5. CASE ~(Len(n.ipq) >= QMax) /\ ~arp
  <2>1. EtherInput(n, p, arp, f) = [n EXCEPT !.ipq = Append(@, f), !.netisr = B]
    BY <1>0, <1>5 DEF EtherInput, B, Nets
  <2>2. Sound([n EXCEPT !.ipq = Append(@, f), !.netisr = B], {})
    <3>1. f \in IpFrame /\ f.pkt \notin {} /\ f.kind # "options" /\ Sound(n, {} \cup {f.pkt})
      BY <1>0, <1>5
    <3> QED  BY <1>0, <3>1, IpqSound
  <2> QED  BY <2>1, <2>2
<1> QED  BY <1>3, <1>4, <1>5

\* The inductive invariant: between two steps the hands are empty.
Owned == Calm /\ Sound(net, {})

LEMMA OwnedInit == Init => Owned
<1> SUFFICES ASSUME Init  PROVE Owned
  OBVIOUS
<1>1. Calm
  BY CalmInit
<1>2. In(<<>>) = {} /\ Buffered(<<>>) = {} /\ Once(<<>>) /\ BufferedOnce(<<>>) /\ Plain(<<>>)
  BY DEF In, Buffered, Once, BufferedOnce, Plain
<1>3. Held(net.hold) = {} /\ HeldOnce(net.hold)
  BY DEF Init, Held, HeldOnce
<1>4. Apart(net, {}) /\ Whole(net, {})
  BY <1>2, <1>3 DEF Init, Apart, Disjoint, Whole
<1>5. Sound(net, {})
  BY <1>1, <1>2, <1>4 DEF Init, Calm, Sound
<1> QED  BY <1>1, <1>5 DEF Init, Owned

LEMMA OwnedNext ==
  ASSUME Harmless, Owned, [Next]_vars
  PROVE  Owned'
<1>0. Calm /\ Calm' /\ net \in Nets /\ up \in BOOLEAN /\ Sound(net, {})
  BY CalmNext DEF Owned, Calm
<1>1. ASSUME NEW to \in Peers \cup {Self, Nowhere}, NEW kind \in {"udp", "closed", "echo"},
             NEW size \in Sizes, Send(to, kind, size)
      PROVE  Owned'
  <2>1. kind \in IpKinds \ {"options"}
    BY DEF IpKinds
  <2>2. Sound(net', {}) /\ UNCHANGED up
    <3>1. CASE net.free = {}
      BY <1>0, <1>1, <3>1 DEF Send, Call
    <3>2. CASE net.free # {}
      <4>1. Take(net) \in Pkts \ {} /\ Sound(Taken(net), {} \cup {Take(net)})
        BY <1>0, <3>2, TakenSound
      <4>2. Sound(IpOutput(Taken(net), Take(net), to, kind, size), {})
        BY <1>0, <2>1, <4>1, IpOutputSound
      <4> QED  BY <1>1, <3>2, <4>2 DEF Send, Call
    <3> QED  BY <3>1, <3>2
  <2> QED  BY <1>0, <2>2 DEF Owned
<1>2. CASE Receive
  <2>1. Sound(net', {}) /\ UNCHANGED up
    <3>1. CASE net.sock = <<>>
      BY <1>0, <1>2, <3>1 DEF Receive, Call
    <3>2. CASE net.sock # <<>>
      <4> DEFINE p == Head(net.sock)
                 k == [net EXCEPT !.sock = Tail(@)]
      <4>1. /\ net.sock \in Seq(Pkts) /\ p \in Pkts /\ Tail(net.sock) \in Seq(Pkts)
            /\ Buffered(net.sock) = Buffered(Tail(net.sock)) \cup {p}
            /\ BufferedOnce(Tail(net.sock)) /\ p \notin Buffered(Tail(net.sock))
        BY <1>0, <3>2, HeadTailProperties, TailBuffered DEF Nets, Sound, Apart
      <4>2. /\ k \in Nets /\ k.sock = Tail(net.sock) /\ k.free = net.free /\ k.ipq = net.ipq
            /\ k.arpq = net.arpq /\ k.hold = net.hold /\ k.twice = net.twice /\ k.lost = net.lost
        BY <1>0, <4>1 DEF Nets
      <4>3. net' = Free(k, p)
        BY <1>0, <1>2, <3>2 DEF Receive, Call, Free, Nets
      <4> HIDE DEF k, p
      <4>4. Apart(k, {p})
        BY <1>0, <4>1, <4>2 DEF Sound, Apart, Disjoint
      <4>5. Whole(k, {p})
        BY <1>0, <4>1, <4>2 DEF Sound, Whole
      <4>6. Sound(k, {} \cup {p})
        <5>1. {} \cup {p} = {p}
          OBVIOUS
        <5> QED  BY <1>0, <4>1, <4>2, <4>4, <4>5, <5>1 DEF Sound
      <4> QED  BY <1>2, <4>1, <4>3, <4>6, FreeSound DEF Receive
    <3> QED  BY <3>1, <3>2
  <2> QED  BY <1>0, <2>1 DEF Owned
<1>3. CASE IfDown \/ IfUp
  <2>1. net' = net
    BY <1>3 DEF IfDown, IfUp, Call
  <2> QED  BY <1>0, <2>1 DEF Owned
<1>4. CASE SoftIp \/ SoftArp
  <2>1. /\ net'.free = net.free /\ net'.twice = net.twice /\ net'.lost = net.lost /\ net'.ipq = net.ipq
        /\ net'.arpq = net.arpq /\ net'.sock = net.sock /\ net'.hold = net.hold
        /\ UNCHANGED up
    BY <1>0, <1>4 DEF SoftIp, SoftArp, Nets
  <2>2. Sound(net', {})
    BY <1>0, <2>1 DEF Calm, Sound, Apart, Whole
  <2> QED  BY <1>0, <2>1, <2>2 DEF Owned
<1>5. ASSUME NEW raw \in BOOLEAN, IpIntr(raw)  PROVE Owned'
  <2>1. CASE net.ipq = <<>>
    BY <1>0, <1>5, <2>1 DEF IpIntr, Owned
  <2>2. CASE net.ipq # <<>>
    <3> DEFINE m == [net EXCEPT !.ipq = Tail(@)]
               f == Head(net.ipq)
    <3>1. net' = IpInput(m, f, raw) /\ UNCHANGED up
      BY <1>5, <2>2 DEF IpIntr
    <3>2. /\ f \in IpFrame /\ m \in Nets /\ m.ipq = Tail(net.ipq) /\ m.arpq = net.arpq
          /\ m.sock = net.sock /\ m.hold = net.hold /\ m.free = net.free /\ m.twice = net.twice /\ m.lost = net.lost
      BY <1>0, <2>2, IpqTail DEF Nets
    <3>3. /\ In(net.ipq) = In(Tail(net.ipq)) \cup {f.pkt} /\ Once(Tail(net.ipq))
          /\ f.pkt \notin In(Tail(net.ipq)) /\ Plain(Tail(net.ipq)) /\ f.kind # "options"
      BY <1>0, <2>2, TailIn DEF Nets, Sound, Apart
    <3>4. f.pkt \in Pkts
      BY <3>2 DEF IpFrame
    <3> HIDE DEF m, f
    <3>5. Apart(m, {f.pkt})
      BY <1>0, <3>2, <3>3 DEF Sound, Apart, Disjoint
    <3>6. Whole(m, {f.pkt})
      BY <1>0, <3>2, <3>3 DEF Sound, Whole
    <3>7. Sound(m, {f.pkt})
      BY <1>0, <3>2, <3>3, <3>4, <3>5, <3>6 DEF Sound
    <3>8. Sound(net', {})
      BY <1>0, <3>1, <3>2, <3>3, <3>7, IpInputSound
    <3> QED  BY <1>0, <3>1, <3>8 DEF Owned
  <2> QED  BY <2>1, <2>2
<1>6. CASE ArpIntr
  <2>1. CASE net.arpq = <<>>
    BY <1>0, <1>6, <2>1 DEF ArpIntr, Owned
  <2>2. CASE net.arpq # <<>>
    <3> DEFINE m == [net EXCEPT !.arpq = Tail(@)]
               f == Head(net.arpq)
    <3>1. net' = ArpInput(m, f) /\ UNCHANGED up
      BY <1>6, <2>2 DEF ArpIntr
    <3>2. /\ f \in ArpFrame /\ m \in Nets /\ m.arpq = Tail(net.arpq) /\ m.ipq = net.ipq
          /\ m.sock = net.sock /\ m.hold = net.hold /\ m.free = net.free /\ m.twice = net.twice /\ m.lost = net.lost
      BY <1>0, <2>2, ArpqTail DEF Nets
    <3>3. /\ In(net.arpq) = In(Tail(net.arpq)) \cup {f.pkt} /\ Once(Tail(net.arpq))
          /\ f.pkt \notin In(Tail(net.arpq))
      BY <1>0, <2>2, TailIn DEF Nets, Sound, Apart
    <3>4. f.pkt \in Pkts
      BY <3>2 DEF ArpFrame
    <3> HIDE DEF m, f
    <3>5. Apart(m, {f.pkt})
      BY <1>0, <3>2, <3>3 DEF Sound, Apart, Disjoint
    <3>6. Whole(m, {f.pkt})
      BY <1>0, <3>2, <3>3 DEF Sound, Whole
    <3>7. Sound(m, {f.pkt})
      BY <1>0, <3>2, <3>4, <3>5, <3>6 DEF Sound
    <3>8. Sound(net', {})
      BY <1>0, <3>1, <3>2, <3>7, ArpInputSound
    <3> QED  BY <1>0, <3>1, <3>8 DEF Owned
  <2> QED  BY <2>1, <2>2
<1>7. ASSUME NEW arp \in BOOLEAN, NEW kind, NEW h \in Peers,
             IF arp THEN kind \in ArpKinds ELSE kind \in IpKinds \ {"options"},
             Arrive(arp, kind, h)
      PROVE  Owned'
  <2> DEFINE f == [pkt |-> Take(net), kind |-> kind, from |-> h]
  <2>1. net.free # {} /\ net' = EtherInput(Taken(net), Take(net), arp, f) /\ UNCHANGED up
    BY <1>7 DEF Arrive
  <2>2. Take(net) \in Pkts \ {} /\ Sound(Taken(net), {} \cup {Take(net)})
    BY <1>0, <2>1, TakenSound
  <2>3. Sound(Taken(net), {Take(net)})
    <3>1. {} \cup {Take(net)} = {Take(net)}
      OBVIOUS
    <3> QED  BY <2>2, <3>1
  <2>4. f.pkt = Take(net) /\ IF arp THEN f \in ArpFrame ELSE f \in IpFrame /\ f.kind # "options"
    BY <1>7, <2>2 DEF ArpFrame, IpFrame
  <2> HIDE DEF f
  <2>5. Sound(net', {})
    BY <2>1, <2>2, <2>3, <2>4, EtherInputSound
  <2> QED  BY <1>0, <2>1, <2>5 DEF Owned
<1>8. CASE Arrivals
  BY <1>7, <1>8 DEF Arrivals, ArpKinds, IpKinds, Harmless
<1>9. CASE PollDone \/ UNCHANGED vars
  BY <1>0, <1>9 DEF PollDone, vars, Owned
<1>10. ASSUME NEW k \in 0 .. TxMax, TxRoom(k)  PROVE Owned'
  <2>1. /\ net'.free = net.free /\ net'.twice = net.twice /\ net'.lost = net.lost
        /\ net'.ipq = net.ipq /\ net'.arpq = net.arpq /\ net'.sock = net.sock
        /\ net'.hold = net.hold
    BY <1>0, <1>10 DEF TxRoom, Nets
  <2>2. Sound(net', {})
    BY <1>0, <2>1 DEF Calm, Sound, Apart, Whole
  <2> QED  BY <1>0, <2>2 DEF Owned
<1> QED
  BY <1>1, <1>2, <1>3, <1>4, <1>5, <1>6, <1>8, <1>9, <1>10 DEF Next, Calls, SoftNet

\* From owners without common chains to the count of places.
LEMMA OnePlace ==
  ASSUME Owned, NEW p \in Pkts
  PROVE  \A x, y \in Places(p) : x = y
<1>0. /\ net \in Nets /\ Once(net.ipq) /\ Once(net.arpq) /\ BufferedOnce(net.sock) /\ HeldOnce(net.hold)
      /\ Disjoint(net.free, In(net.ipq), In(net.arpq), Buffered(net.sock), Held(net.hold), {},
                  net.lost)
  BY DEF Owned, Sound, Apart
<1>1. DOMAIN net.ipq = 1..Len(net.ipq) /\ DOMAIN net.arpq = 1..Len(net.arpq)
      /\ DOMAIN net.sock = 1..Len(net.sock)
  BY <1>0, LenProperties DEF Nets
<1>2. ASSUME NEW x \in Places(p)
      PROVE  \/ p \in In(net.ipq) /\ \E i \in 1..Len(net.ipq) : x = <<"ipq", i>> /\ net.ipq[i].pkt = p
             \/ p \in In(net.arpq) /\ \E i \in 1..Len(net.arpq) : x = <<"arpq", i>> /\ net.arpq[i].pkt = p
             \/ p \in Buffered(net.sock) /\ \E i \in 1..Len(net.sock) : x = <<"sock", i>> /\ net.sock[i] = p
             \/ p \in Held(net.hold) /\ \E h \in Peers : x = <<"hold", h>> /\ net.hold[h] = p
             \/ p \in net.free /\ x = <<"free", 0>>
             \/ p \in net.lost /\ x = <<"lost", 0>>
  BY <1>1, <1>2 DEF Places, In, Buffered, Held
<1> SUFFICES ASSUME NEW x \in Places(p), NEW y \in Places(p)  PROVE x = y
  OBVIOUS
<1>3. CASE p \in In(net.ipq)
  BY <1>0, <1>2, <1>3 DEF Disjoint, Once
<1>4. CASE p \in In(net.arpq)
  BY <1>0, <1>2, <1>4 DEF Disjoint, Once
<1>5. CASE p \in Buffered(net.sock)
  BY <1>0, <1>2, <1>5 DEF Disjoint, BufferedOnce
<1>6. CASE p \in Held(net.hold)
  BY <1>0, <1>2, <1>6 DEF Disjoint, HeldOnce
<1>7. CASE p \in net.free \cup net.lost
  BY <1>0, <1>2, <1>7 DEF Disjoint
<1> QED  BY <1>2, <1>3, <1>4, <1>5, <1>6, <1>7

LEMMA SomePlace ==
  ASSUME Owned, NEW p \in Pkts
  PROVE  Places(p) # {}
<1>1. net \in Nets /\ Whole(net, {})
  BY DEF Owned, Sound
<1>2. DOMAIN net.ipq = 1..Len(net.ipq) /\ DOMAIN net.arpq = 1..Len(net.arpq)
      /\ DOMAIN net.sock = 1..Len(net.sock)
  BY <1>1, LenProperties DEF Nets
<1>3. CASE p \in net.free \cup net.lost
  BY <1>3 DEF Places
<1>4. CASE p \in In(net.ipq)
  <2>1. PICK i \in DOMAIN net.ipq : net.ipq[i].pkt = p
    BY <1>2, <1>4 DEF In
  <2>2. <<"ipq", i>> \in Places(p)
    BY <2>1 DEF Places
  <2> QED  BY <2>2
<1>5. CASE p \in In(net.arpq)
  <2>1. PICK i \in DOMAIN net.arpq : net.arpq[i].pkt = p
    BY <1>2, <1>5 DEF In
  <2>2. <<"arpq", i>> \in Places(p)
    BY <2>1 DEF Places
  <2> QED  BY <2>2
<1>6. CASE p \in Buffered(net.sock)
  <2>1. PICK i \in DOMAIN net.sock : net.sock[i] = p
    BY <1>2, <1>6 DEF Buffered
  <2>2. <<"sock", i>> \in Places(p)
    BY <2>1 DEF Places
  <2> QED  BY <2>2
<1>7. CASE p \in Held(net.hold)
  <2>1. PICK h \in Peers : net.hold[h] = p
    BY <1>7 DEF Held
  <2>2. <<"hold", h>> \in Places(p)
    BY <2>1 DEF Places
  <2> QED  BY <2>2
<1> QED  BY <1>1, <1>3, <1>4, <1>5, <1>6, <1>7 DEF Whole

LEMMA OwnedTyped ==
  ASSUME Owned
  PROVE  TypeOK
<1>1. net \in Nets /\ Short(net) /\ up \in BOOLEAN /\ pc \in Pcs
  BY DEF Owned, Calm
<1>2. /\ \A i \in DOMAIN net.ipq : net.ipq[i] \in IpFrame
      /\ \A i \in DOMAIN net.arpq : net.arpq[i] \in ArpFrame
      /\ \A i \in DOMAIN net.sock : net.sock[i] \in Pkts
  BY <1>1, LenProperties DEF Nets
<1>3. Range(net.sock) \subseteq Pkts
  BY <1>2 DEF Range
<1>4. \A i \in DOMAIN net.ipq : net.ipq[i].pkt \in Pkts /\ net.ipq[i].from \in Peers \cup {Self}
  BY <1>2 DEF IpFrame
<1>5. \A i \in DOMAIN net.arpq : net.arpq[i].pkt \in Pkts /\ net.arpq[i].from \in Peers
  BY <1>2 DEF ArpFrame
<1>6. /\ net.free \subseteq Pkts /\ net.lost \subseteq Pkts /\ net.tx \in 0 .. TxMax /\ net.twice \in BOOLEAN /\ net.netisr \subseteq {"IP", "ARP"}
      /\ net.resolved \subseteq Peers /\ net.hold \in [Peers -> Pkts \cup {None}]
  BY <1>1 DEF Nets
<1> QED  BY <1>1, <1>3, <1>4, <1>5, <1>6 DEF TypeOK, Short, Pcs

\* With room for the headers and no packet with options, a chain has exactly
\* one owner between two handlers or was given up at one of the places that
\* Lose marks, for any memory, hosts, queues and descriptors: every other
\* error path of ip_output, ether_output, arpresolve, in_arpinput, ipv4_input
\* and the sockets frees what it has, once.
THEOREM EveryChainOwnedOnce == Harmless /\ Spec => []OwnedOnce
<1>1. Owned => OwnedOnce
  <2> SUFFICES ASSUME Owned  PROVE OwnedOnce
    OBVIOUS
  <2>1. TypeOK /\ ~net.twice
    BY OwnedTyped DEF Owned, Sound
  <2>2. ASSUME NEW p \in Pkts  PROVE Cardinality(Places(p)) = 1
    <3>1. PICK x : x \in Places(p)
      BY SomePlace
    <3>2. Places(p) = {x}
      BY <3>1, OnePlace
    <3> QED  BY <3>2, FS_Singleton
  <2> QED  BY <2>1, <2>2 DEF OwnedOnce
<1>2. Harmless /\ Owned /\ [Next]_vars => Owned'
  BY OwnedNext
<1>3. Harmless => Harmless'
  BY DEF Harmless
<1> QED  BY <1>1, <1>2, <1>3, OwnedInit, PTL DEF Spec
=============================================================================
