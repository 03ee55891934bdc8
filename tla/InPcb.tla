------------------------------- MODULE InPcb --------------------------------
(***************************************************************************)
(* Protocol control blocks of UDP (net/inet/in_pcb.c, udp.c): the queue    *)
(* and the hash table of blocks, binding to an address and a port, the     *)
(* connection udp_output makes for the length of one datagram, and the     *)
(* choice of the sockets an incoming datagram goes to.  sosend holds the   *)
(* level at splsoftnet around udp_output, so a datagram is sent in one     *)
(* step.  No call of the program sets SO_REUSEADDR or SO_REUSEPORT.        *)
(***************************************************************************)
EXTENDS Route, SequencesExt

CONSTANTS
  Socks,      \* the UDP sockets
  Reserved,   \* IPPORT_RESERVED, which is also ipport_firstauto
  LastAuto,   \* ipport_lastauto
  MaxPort,    \* the highest port
  HashSize,   \* the chains of the hash table
  MaxRoutes,  \* a bound on the routes made
  HostAddrs,  \* the addresses each interface may be given
  Dsts,       \* the addresses datagrams are sent to
  Binds,      \* the addresses sockets are bound to
  Froms       \* the addresses datagrams come from

ASSUME InPcbAssumption ==
  /\ Reserved \in Nat \ {0} /\ LastAuto \in Reserved .. MaxPort
  /\ HashSize \in Nat \ {0}
  /\ HostAddrs \in [1 .. Len(IfKinds) -> SUBSET Addrs]
  /\ Dsts \cup Binds \cup Froms \subseteq Addrs

VARIABLES
  pcb,     \* the block of each socket, or NoPcb
  queue,   \* int_pcbqueue
  hash,    \* int_pcbhashtbl
  last     \* the datagram just sent

pcbVars == <<pcb, queue, hash, last>>
inetvars == <<routeVars, pcbVars>>

NoPcb == [laddr |-> -1]
Nothing == [way |-> "none"]
NoSock == "nosock"
Open(s) == pcb[s] # NoPcb
Ports == 1 .. MaxPort

InetInit ==
  /\ RouteInit
  /\ pcb = [s \in Socks |-> NoPcb] /\ queue = <<>> /\ last = Nothing
  /\ hash = [h \in 0 .. HashSize - 1 |-> <<>>]

-----------------------------------------------------------------------------
(* The table.                                                              *)

\* INPCBHASH
Chain(faddr, fport, laddr, lport) == (faddr + fport + laddr + lport) % HashSize
ChainOf(p) == Chain(p.faddr, p.fport, p.laddr, p.lport)

Unhashed(h, s) == [c \in DOMAIN h |-> Remove(h[c], s)]

\* inpcb_rehash
inpcb_rehash(h, s, p) == [Unhashed(h, s) EXCEPT ![ChainOf(p)] = <<s>> \o @]

\* inpcb_hashlookup compares the ports of the block with each other.
inpcb_hashlookup(faddr, fport, laddr, lport) ==
  LET chain == hash[Chain(faddr, fport, laddr, lport)]
      ok(s) == pcb[s].faddr = faddr /\ pcb[s].fport = pcb[s].lport /\ pcb[s].laddr = laddr
      found == SelectSeq(chain, ok)
  IN  IF found = <<>> THEN NoSock ELSE Head(found)

\* inpcb_lookup: how many of the two addresses match only because one of them
\* is ANY, or 3 where they do not match.
Wild(p, faddr, fport, laddr, lport) ==
  IF p.lport # lport \/ (p.laddr # AnyAddr /\ laddr # AnyAddr /\ p.laddr # laddr)
     \/ (p.faddr # AnyAddr /\ faddr # AnyAddr /\ (p.faddr # faddr \/ p.fport # fport))
  THEN 3
  ELSE (IF p.laddr # laddr THEN 1 ELSE 0) + (IF (p.faddr = AnyAddr) # (faddr = AnyAddr) THEN 1 ELSE 0)

\* The first block of the queue with the fewest.
inpcb_lookup(faddr, fport, laddr, lport) ==
  LET wild(i) == Wild(pcb[queue[i]], faddr, fport, laddr, lport)
      best == {i \in 1 .. Len(queue) :
                 wild(i) < 3 /\ \A j \in 1 .. Len(queue) : wild(i) < wild(j) \/ (wild(i) = wild(j) /\ i <= j)}
  IN  IF best = {} THEN NoSock ELSE queue[CHOOSE i \in best : TRUE]

-----------------------------------------------------------------------------
(* The socket calls.                                                       *)

\* alloc_inpcb
Socket(s) ==
  LET p == [laddr |-> AnyAddr, lport |-> 0, faddr |-> AnyAddr, fport |-> 0, rt |-> 0, dst |-> AnyAddr]
  IN  /\ Attached /\ ~fault /\ ~Open(s)
      /\ pcb' = [pcb EXCEPT ![s] = p]
      /\ queue' = <<s>> \o queue
      /\ hash' = [hash EXCEPT ![ChainOf(p)] = <<s>> \o @]
      /\ last' = Nothing
      /\ UNCHANGED routeVars

\* free_inpcb
Close(s) ==
  /\ Open(s) /\ ~fault
  /\ pcb' = [pcb EXCEPT ![s] = NoPcb]
  /\ queue' = Remove(queue, s)
  /\ hash' = Unhashed(hash, s)
  /\ last' = Nothing
  /\ UNCHANGED routeVars

\* The automatic choice of a port; 0 when all are taken.
AutoPort(laddr) ==
  LET free == {q \in Reserved .. LastAuto : inpcb_lookup(AnyAddr, 0, laddr, q) = NoSock}
  IN  IF free = {} THEN 0 ELSE CHOOSE q \in free : \A r \in free : q <= r

\* inpcb_bind of a socket that is not bound yet.
BindableAnywhere(s, a, port) ==
  /\ ialist # <<>> /\ pcb[s].laddr = AnyAddr /\ pcb[s].lport = 0
  /\ ~IsMulticast(a) /\ (a # AnyAddr => ifa_ifwithaddr(a) # NoIf)
  /\ port # 0 => port > Reserved /\ \A t \in Socks : Open(t) => <<pcb[t].laddr, pcb[t].lport>> # <<a, port>>
Bindable(s, a, port) ==
  /\ ialist # <<>> /\ pcb[s].laddr = AnyAddr /\ pcb[s].lport = 0
  /\ ~IsMulticast(a) /\ (a # AnyAddr => ifa_ifwithaddr(a) # NoIf)
  /\ port # 0 => port > Reserved /\ inpcb_lookup(AnyAddr, 0, a, port) = NoSock

Bind(s, a, port) ==
  LET q == IF port = 0 THEN AutoPort(a) ELSE port
      p == [pcb[s] EXCEPT !.laddr = a, !.lport = q]
  IN  /\ Open(s) /\ ~fault /\ Bindable(s, a, port) /\ q # 0
      /\ pcb' = [pcb EXCEPT ![s] = p]
      /\ hash' = inpcb_rehash(hash, s, p)
      /\ last' = Nothing
      /\ UNCHANGED <<routeVars, queue>>

\* inpcb_connect's checks of the address it is given.
Connectable(dst) == ialist # <<>> /\ ~IsMulticast(dst)

\* The address a datagram really goes to: ANY and the broadcast address stand
\* for those of the first interface that was given one.
Target(a) ==
  LET f == ifs[ialist[1]]
      b == IF a = AnyAddr THEN f.addr ELSE a
  IN  IF b = Broadcast /\ f.kind = "ether" THEN f.bcast ELSE b

\* The route of a block, looked up anew when it was for another address.
RouteOf(p, a) == IF p.rt # 0 /\ p.dst = a THEN [Table EXCEPT !.rt = p.rt] ELSE rt_alloc(Table, a, TRUE)

\* inpcb_connect's choice of a local address, ia.
SourceIf(tb, a) ==
  CASE tb.rt # 0 -> tb.rts[tb.rt].ifa
    [] tb.rt = 0 /\ ifa_ifwithnet(a) # NoIf -> ifa_ifwithnet(a)
    [] OTHER -> ialist[1]

\* ip_output and the interface's output function, for a datagram of a block.
Output(tb, src, a) ==
  IF tb.rt = 0 THEN [way |-> "unreachable"]
  ELSE IF ~ifs[tb.rts[tb.rt].ifp].up THEN [way |-> "down"]
  ELSE [way |-> "out", src |-> src, dst |-> a, rt |-> tb.rt]

\* udp_output with an address: connect, send and disconnect.  The local
\* address is put back after the block has been hashed, and the port stays.
inpcb_disconnect(p) == [p EXCEPT !.faddr = AnyAddr, !.fport = 0]
PutBack(s, h, p, laddr) == inpcb_rehash(h, s, [inpcb_disconnect(p) EXCEPT !.laddr = laddr])
SendDatagram(s, port, a, tb) ==
  LET src   == IF pcb[s].laddr = AnyAddr THEN ifs[SourceIf(tb, a)].addr ELSE pcb[s].laddr
      lport == IF pcb[s].lport = 0 THEN AutoPort(AnyAddr) ELSE pcb[s].lport
      p     == [pcb[s] EXCEPT !.lport = lport, !.rt = tb.rt, !.dst = a]
  IN  /\ lport # 0 /\ inpcb_hashlookup(a, port, src, lport) = NoSock
      /\ SetTable(tb)
      /\ pcb' = [pcb EXCEPT ![s] = p]
      /\ hash' = PutBack(s, hash, p, src)
      /\ last' = Output(tb, src, a) @@ [sock |-> s]
      /\ UNCHANGED <<ifs, ialist, slots, limit, queue>>
SendTo(s, dst, port) ==
  /\ Open(s) /\ ~fault /\ Connectable(dst)
  /\ SendDatagram(s, port, Target(dst), RouteOf(pcb[s], Target(dst)))

\* The same with no port left: the route is made, nothing is sent.
SendNoPort(s, dst, port) ==
  LET a  == Target(dst)
      tb == RouteOf(pcb[s], a)
  IN  /\ Open(s) /\ ~fault /\ Connectable(dst)
      /\ pcb[s].laddr = AnyAddr /\ pcb[s].lport = 0 /\ AutoPort(AnyAddr) = 0
      /\ SetTable(tb)
      /\ pcb' = [pcb EXCEPT ![s].rt = tb.rt, ![s].dst = a]
      /\ last' = Nothing
      /\ UNCHANGED <<ifs, ialist, slots, limit, queue, hash>>

-----------------------------------------------------------------------------
(* Input.                                                                  *)

\* The blocks a datagram to a group matches.
GroupMatch(p, src, sport, dst, dport) ==
  /\ p.lport = dport /\ (p.laddr = AnyAddr \/ p.laddr = dst)
  /\ p.faddr = AnyAddr \/ (p.faddr = src /\ p.fport = sport)

\* udp_input: a broadcast goes to every socket it matches, anything else to
\* the one found by the hash table or, failing that, by the queue.
Receivers(src, sport, dst, dport) ==
  LET h == inpcb_hashlookup(src, sport, dst, dport)
  IN  IF IsMulticast(dst) \/ in_broadcast(dst)
      THEN {s \in ToSet(queue) : GroupMatch(pcb[s], src, sport, dst, dport)}
      ELSE {IF h # NoSock THEN h ELSE inpcb_lookup(src, sport, dst, dport)} \ {NoSock}

\* in_iawithaddr: the first interface whose address, or one of whose broadcast
\* addresses if the datagram came in there, is dst.  An interface that was left
\* without an address matches everything.
IaMatches(i, via, dst) ==
  \/ ifs[i].addr \in {dst, AnyAddr}
  \/ /\ i = via /\ ifs[i].kind = "ether"
     /\ dst \in {ifs[i].bcast, ifs[i].netb, NetOf(ifs[i].addr, ifs[i].sub), NetOf(ifs[i].addr, ifs[i].net)}
in_iawithaddr(via, dst) ==
  LET ok(i) == IaMatches(i, via, dst)
      found == SelectSeq(ialist, ok)
  IN  IF found = <<>> THEN NoIf ELSE Head(found)

\* ipv4_input hands a datagram up when it is for us.
Accepted(via, dst) ==
  \/ in_iawithaddr(via, dst) # NoIf /\ ifs[in_iawithaddr(via, dst)].up
  \/ dst \in {AnyAddr, Broadcast}

\* icmp_reflect, for a request without options: the interface whose address the
\* answer carries.
SourceMatches(i, dst) == ifs[i].addr = dst \/ (ifs[i].kind = "ether" /\ ifs[i].bcast = dst)
ReflectIf(via, dst) ==
  LET ok(i) == SourceMatches(i, dst)
      found == SelectSeq(ialist, ok)
  IN  IF found # <<>> THEN Head(found) ELSE ifaof_ifpforaddr(dst, via)
icmp_reflect(via, src, dst) ==
  IF in_canforward(src) \/ TopByte(src) = LoopNet THEN ReflectIf(via, dst) ELSE NoIf

\* icmp_send and ip_output, which fills a missing source in.
Reply(tb, ia, src) ==
  LET own == IF ifs[ia].addr = AnyAddr /\ tb.rt # 0 THEN ifs[tb.rts[tb.rt].ifa].addr ELSE ifs[ia].addr
  IN  Output(tb, own, src)

\* icmp_input of a request that is answered (an echo, or a time stamp) in a frame
\* to this host alone.  Requests for the mask are switched off, and every other
\* message goes on to rip_input.
Echo(via, src, dst) ==
  LET ia == icmp_reflect(via, src, dst)
      tb == IF ia = NoIf THEN Table ELSE rt_alloc(Table, src, TRUE)
  IN  /\ ~fault /\ ialist # <<>> /\ ifs[via].kind = "ether" /\ Accepted(via, dst)
      /\ SetTable(tb)
      /\ UNCHANGED <<ifs, ialist, slots, limit>>

-----------------------------------------------------------------------------
Quiet == last' = Nothing /\ UNCHANGED <<pcb, queue, hash>>

SetAddress ==
  \E i \in 1 .. Len(ifs) : \E a \in HostAddrs[i] :
     (SetAddr(i, a) \/ SetAddrRefused(i, a) \/ SetAddrNoDevice(i, a)) /\ Quiet
AttachIf == if_attach /\ Quiet
Switch == \E i \in 1 .. Len(ifs), up \in BOOLEAN : SetFlags(i, up) /\ Quiet
Arp == \E a \in Froms, report \in BOOLEAN : arplookup(a, report) /\ Len(rts) < MaxRoutes /\ Quiet
Ping == \E via \in 1 .. Len(ifs), src \in Froms, dst \in Binds : Echo(via, src, dst) /\ Len(rts) < MaxRoutes /\ Quiet

InetNext ==
  \/ AttachIf \/ SetAddress \/ Switch \/ Arp \/ Ping
  \/ \E s \in Socks :
       \/ Socket(s) \/ Close(s)
       \/ \E a \in Binds, port \in {0} \cup Ports : Bind(s, a, port)
       \/ Len(rts) < MaxRoutes /\ \E a \in Dsts, port \in {1} : SendTo(s, a, port) \/ SendNoPort(s, a, port)

InetSpec == InetInit /\ [][InetNext]_inetvars

-----------------------------------------------------------------------------
(* Properties.                                                             *)

\* Two sockets with one port have different addresses, neither of them ANY.
PortsApart ==
  \A s, t \in Socks :
    (s # t /\ Open(s) /\ Open(t) /\ pcb[s].lport # 0 /\ pcb[s].lport = pcb[t].lport)
      => pcb[s].laddr # AnyAddr /\ pcb[t].laddr # AnyAddr /\ pcb[s].laddr # pcb[t].laddr

\* udp_input's receivers of a datagram for an address and port.
Dispatched ==
  \A src \in Froms, dst \in Probes, port \in Ports : (\E via \in 1 .. Len(ifs) : Accepted(via, dst)) =>
    LET fits == {s \in Socks : Open(s) /\ pcb[s].lport = port /\ pcb[s].laddr \in {AnyAddr, dst}}
        own  == {s \in fits : pcb[s].laddr = dst}
    IN  Receivers(src, 1, dst, port) = IF in_broadcast(dst) \/ own = {} THEN fits ELSE own

\* The source and the route of the datagram udp_output sent last.
Departed ==
  last.way = "out" =>
    /\ last.src = pcb[last.sock].laddr
       \/ (pcb[last.sock].laddr = AnyAddr /\ \E i \in 1 .. Len(ifs) : ifs[i].addr = last.src)
    /\ Covers(rts[last.rt].key, rts[last.rt].mask, last.dst)
    /\ last.src # AnyAddr

\* The answer to a request from src that came in at via for dst.
AnswerRight(r, tb, src, dst) ==
  r.way = "out" =>
    /\ r.dst = src /\ Covers(tb.rts[tb.rt].key, tb.rts[tb.rt].mask, src)
    /\ r.src # AnyAddr /\ \E i \in 1 .. Len(ifs) : ifs[i].addr = r.src
    /\ (\E i \in 1 .. Len(ifs) : ifs[i].addr = dst) => r.src = dst
Answered ==
  ~fault => \A src \in Froms : \A tb \in {rt_alloc(Table, src, TRUE)} : \A via \in 1 .. Len(ifs), dst \in Probes :
    LET ia == icmp_reflect(via, src, dst)
    IN  (ifs[via].kind = "ether" /\ Accepted(via, dst) /\ ia # NoIf) =>
          AnswerRight(Reply(tb, ia, src), tb, src, dst)

\* Through binding, closing, automatic ports and the connections udp_output
\* makes and takes back, no datagram has two owners: one that is accepted goes
\* to the sockets bound to its port, and for a single address to the one bound
\* to that address rather than to one bound to any.  What udp_output sends
\* carries the address the socket is bound to, or one an interface has, and
\* goes by a route to its destination, also when the block kept the route from
\* an earlier datagram; and icmp_reflect answers an echo from the address that
\* was asked, along a route to the one who asked.
DatagramsRight == PortsApart /\ Dispatched /\ Departed /\ Answered
=============================================================================
