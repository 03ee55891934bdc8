------------------------------- MODULE Route --------------------------------
(***************************************************************************)
(* Interfaces, their internet addresses and the routing table above the    *)
(* radix tree: net/if.c, net/inet/in.c, net/route.c and the route requests *)
(* of arp.c and if_loop.c.  Setting an address makes a route to its        *)
(* network; the first packet to a host of an Ethernet network clones a     *)
(* host route from it, which ARP fills in.  Routes are never deleted:      *)
(* rtrequest has no RTM_DELETE, so their reference counts decide nothing   *)
(* and are left out.                                                       *)
(***************************************************************************)
EXTENDS Radix

CONSTANTS
  IfKinds,      \* the kinds of the interfaces, "ether" or "loop", in the order they attach
  FirstLimit,   \* ifnetlimits at the start, 8
  LinkLen,      \* the length of a link-level address (sdl_len)
  SaLen,        \* sizeof(struct sockaddr), the length of an internet address
  ReqLen,       \* sizeof(struct ifreq)
  Probes        \* the addresses the properties look up

ASSUME RouteAssumption ==
  /\ \A i \in 1 .. Len(IfKinds) : IfKinds[i] \in {"ether", "loop"}
  /\ FirstLimit \in Nat \ {0}
  /\ SaLen \in Nat /\ LinkLen \in Nat /\ ReqLen \in Nat
  /\ SaLen < LinkLen /\ LinkLen < ReqLen
  /\ Probes \subseteq Addrs

VARIABLES
  ifs,      \* ifnetlist with the in_ifaddr of each interface
  ialist,   \* in_ifaddrlist, as interfaces
  slots,    \* the size of ifnet_addrs
  limit,    \* ifnetlimits
  tree,     \* rt_table[AF_INET]
  rts,      \* the rtentries; route k has the nodes Leaf(k) and Node(k)
  fault     \* the code has read through a null pointer

routeVars == <<ifs, ialist, slots, limit, tree, rts, fault>>

AnyAddr == 0
Broadcast == 2^Bits - 1
NoIf == 0

RouteInit ==
  /\ ifs = <<>> /\ ialist = <<>> /\ slots = 0 /\ limit = FirstLimit
  /\ tree = rn_inithead /\ rts = <<>> /\ fault = FALSE

Attached == Len(ifs) = Len(IfKinds)

\* IN_CLASSA, IN_CLASSB, IN_CLASSC and the masks that go with them, in bits; 0
\* for the other classes.
ClassMask(a) ==
  CASE Bit(a, 0) = 0 -> ByteBits
    [] Bit(a, 0) = 1 /\ Bit(a, 1) = 0 -> 2 * ByteBits
    [] Bit(a, 0) = 1 /\ Bit(a, 1) = 1 /\ Bit(a, 2) = 0 -> 3 * ByteBits
    [] OTHER -> 0
IsMulticast(a) == Bit(a, 0) = 1 /\ Bit(a, 1) = 1 /\ Bit(a, 2) = 1 /\ Bit(a, 3) = 0

\* a & mask and a | ~mask
NetOf(a, m) == (a \div 2^(Bits - m)) * 2^(Bits - m)
AllOf(a, m) == NetOf(a, m) + 2^(Bits - m) - 1

-----------------------------------------------------------------------------
(* Interfaces: if.c.                                                       *)

\* if_attachsetup and if_attach: the array is doubled when it is full.
if_attach ==
  /\ ~Attached
  /\ LET grow == slots = 0 \/ Len(ifs) >= limit
     IN  /\ slots' = IF grow THEN 2 * limit ELSE slots
         /\ limit' = IF grow THEN 2 * limit ELSE limit
  /\ ifs' = Append(ifs, [kind |-> IfKinds[Len(ifs) + 1], up |-> FALSE, ia |-> FALSE, addr |-> AnyAddr,
                         sub |-> 0, net |-> 0, bcast |-> AnyAddr, netb |-> AnyAddr])
  /\ UNCHANGED <<ialist, tree, rts, fault>>

\* The interfaces that have an address, and the first of some interfaces.
Addressed == {i \in 1 .. Len(ifs) : ifs[i].ia /\ ifs[i].addr # AnyAddr}
FirstIf(s) == IF s = {} THEN NoIf ELSE CHOOSE i \in s : \A j \in s : i <= j

\* ifa_ifwithaddr: an interface's own address, or its broadcast address.
ifa_ifwithaddr(a) ==
  FirstIf({i \in Addressed : ifs[i].addr = a \/ (ifs[i].kind = "ether" /\ ifs[i].bcast = a)})

\* ifa_ifwithdstaddr looks at point-to-point interfaces, of which there are none.
ifa_ifwithdstaddr(a) == NoIf

\* ifa_ifwithnet: of the interfaces on the address's network the first with
\* the longest mask.
ifa_ifwithnet(a) ==
  LET on == {i \in Addressed : NetOf(a, ifs[i].sub) = NetOf(ifs[i].addr, ifs[i].sub)}
  IN  IF on = {} THEN NoIf
      ELSE CHOOSE i \in on : \A j \in on : rn_refines(ifs[i].sub, ifs[j].sub)
                                           \/ (ifs[i].sub = ifs[j].sub /\ i <= j)

\* ifaof_ifpforaddr: the address of interface i, if a is on its network.  A
\* difference in the last byte of the mask ends the loop like its end does, and
\* is not seen.
Compared(m) == ((m - 1) \div ByteBits) * ByteBits
ifaof_ifpforaddr(a, i) ==
  LET f == ifs[i]
  IN  IF i \in Addressed /\ NetOf(a, Compared(f.sub)) = NetOf(f.addr, Compared(f.sub)) THEN i ELSE NoIf

\* in_canforward
LoopNet == 2^(ByteBits - 1) - 1
TopByte(a) == a \div 2^(Bits - ByteBits)
in_canforward(a) == ClassMask(a) # 0 /\ TopByte(a) \notin {0, LoopNet}

\* in_broadcast
in_broadcast(a) ==
  \/ a = AnyAddr \/ a = Broadcast
  \/ \E k \in 1 .. Len(ialist) :
       LET f == ifs[ialist[k]]
       IN  \/ f.sub # Bits /\ ((f.kind = "ether" /\ a = f.bcast) \/ a = NetOf(f.addr, f.sub))
           \/ a = f.netb \/ a = NetOf(f.addr, f.net)

-----------------------------------------------------------------------------
(* Routes.                                                                 *)

\* A request's table: the tree, the entries, whether it faulted, and the entry
\* made or found (0 for none).
Table == [tree |-> tree, rts |-> rts, fault |-> fault, rt |-> 0]

\* makeroute of rtrequest: an entry for the key, unless there is one.
AddRoute(tb, a, m, rt) ==
  LET k == Len(tb.rts) + 1
  IN  IF NullRead(tb.tree, a, m) THEN [tb EXCEPT !.fault = TRUE, !.rt = 0]
      ELSE IF Exists(tb.tree, a, m) THEN [tb EXCEPT !.rt = 0]
      ELSE [tb EXCEPT !.tree = rn_addroute(@, a, m, k), !.rts = Append(@, rt), !.rt = k]

\* rtrequest(RTM_RESOLVE) and arp_rtrequest: a host route that is not cloned
\* itself.  The route to the interface's own address leads to the loopback.
Lo == CHOOSE i \in 1 .. Len(IfKinds) : IfKinds[i] = "loop"
Resolve(tb, a, parent) ==
  LET ifa == tb.rts[parent].ifa
  IN  AddRoute(tb, a, HostMask,
               [key |-> a, mask |-> HostMask, cloning |-> FALSE, llinfo |-> TRUE, ifa |-> ifa,
                ifp |-> IF ifs[ifa].addr = a THEN Lo ELSE ifa])

\* __rt_alloc: the route for an address, a new one where the one found is to
\* be cloned and the caller wants that (report).  If cloning fails the route
\* found is used.
OrElse(tb, k) == IF tb.rt # 0 THEN tb ELSE [tb EXCEPT !.rt = k]
Matched(tb, a, x, report) ==
  LET k == x \div 2
  IN  IF x = Null \/ x \in Roots THEN [tb EXCEPT !.rt = 0]
      ELSE IF report /\ tb.rts[k].cloning THEN OrElse(Resolve(tb, a, k), k)
      ELSE [tb EXCEPT !.rt = k]
rt_alloc(tb, a, report) == Matched(tb, a, rn_match(tb.tree, a), report)

SetTable(tb) == tree' = tb.tree /\ rts' = tb.rts /\ fault' = tb.fault

\* arplookup, from in_arpinput: ARP makes an entry for a host that asks for
\* our address.
arplookup(a, report) ==
  /\ Attached /\ ~fault
  /\ SetTable(rt_alloc(Table, a, report))
  /\ UNCHANGED <<ifs, ialist, slots, limit>>

-----------------------------------------------------------------------------
(* Setting addresses: in.c.                                                *)

\* in_ifinit up to its route: the mask is the class's the first time, and
\* stays what it was then.
Address(f, a) ==
  LET sub == IF f.sub = 0 THEN ClassMask(a) ELSE f.sub
      net == IF f.sub = 0 \/ ClassMask(a) < f.sub THEN ClassMask(a) ELSE f.sub
  IN  [f EXCEPT !.ia = TRUE, !.addr = a, !.up = TRUE, !.sub = sub, !.net = net,
                !.bcast = IF f.kind = "ether" THEN AllOf(a, sub) ELSE a,
                !.netb = IF f.kind = "ether" THEN AllOf(a, net) ELSE @]

\* rtinit(RTM_ADD): a host route for the loopback, otherwise one to the
\* network, which ARP marks for cloning.  rt_ifwithroute may find another
\* interface that has the address; rtinit puts that right.
RtInit(i, f) ==
  LET host == f.kind = "loop"
      key  == IF host THEN f.addr ELSE NetOf(f.addr, f.sub)
  IN  AddRoute(Table, key, IF host THEN HostMask ELSE f.sub,
               [key |-> key, mask |-> IF host THEN HostMask ELSE f.sub, cloning |-> ~host,
                llinfo |-> FALSE, ifa |-> i, ifp |-> i])

NewIa(i) == IF ifs[i].ia THEN ialist ELSE Append(ialist, i)

\* SIOCSIFADDR through if_ioctl, in_control and in_ifinit: refused for an
\* address of no class, which still leaves an in_ifaddr without address.
SetAddrRefused(i, a) ==
  /\ Attached /\ ~fault /\ ClassMask(a) = 0
  /\ ialist' = NewIa(i)
  /\ ifs' = [ifs EXCEPT ![i].ia = TRUE]
  /\ UNCHANGED <<slots, limit, tree, rts, fault>>

\* The driver does not open.
SetAddrNoDevice(i, a) ==
  /\ Attached /\ ~fault /\ ClassMask(a) # 0
  /\ ifs[i].kind = "ether" /\ ~ifs[i].up
  /\ ialist' = NewIa(i)
  /\ ifs' = [ifs EXCEPT ![i].ia = TRUE]
  /\ UNCHANGED <<slots, limit, tree, rts, fault>>

\* The old route stays (RTM_DELETE does nothing); when the network has a route
\* already the address is set all the same, and the caller is told EEXIST.
SetAddr(i, a) ==
  /\ Attached /\ ~fault /\ ClassMask(a) # 0
  /\ LET f  == Address(ifs[i], a)
         tb == RtInit(i, f)
     IN  /\ ifs' = [ifs EXCEPT ![i] = f]
         /\ SetTable(tb)
  /\ ialist' = NewIa(i)
  /\ UNCHANGED <<slots, limit>>

\* SIOCSIFFLAGS
SetFlags(i, up) ==
  /\ Attached /\ ~fault /\ ifs[i].up # up
  /\ ifs' = [ifs EXCEPT ![i].up = up]
  /\ UNCHANGED <<ialist, slots, limit, tree, rts, fault>>

-----------------------------------------------------------------------------
(* Listing the interfaces: if_getconf, called twice by ifconfig.           *)

\* The addresses of the interfaces in the order they are walked through, as
\* pairs of interface and length.
Addresses ==
  LET of(i) == <<<<i, LinkLen>>>> \o (IF ifs[i].ia THEN <<<<i, IF ifs[i].addr = AnyAddr THEN 0 ELSE SaLen>>>> ELSE <<>>)
      all[n \in 0 .. Len(ifs)] == IF n = 0 THEN <<>> ELSE all[n - 1] \o of(n)
  IN  all[Len(ifs)]

Extra(len) == IF len > SaLen THEN len - SaLen ELSE 0

ConfSizePlain == ReqLen * Len(Addresses)

\* if_getconf with ifc_len = 0: the space needed.
ConfSize ==
  LET all == Addresses
      sum[n \in 0 .. Len(all)] == IF n = 0 THEN 0 ELSE sum[n - 1] + ReqLen + Extra(all[n][2])
  IN  sum[Len(all)]

\* if_getconf with space: the entries written until one does not fit.
ConfFill(space) ==
  LET all == Addresses
      fill[n \in 0 .. Len(all)] ==
        IF n = 0 THEN [out |-> FALSE, left |-> space, n |-> 0]
        ELSE LET f == fill[n - 1]
                 e == Extra(all[n][2])
             IN  IF f.out THEN f
                 ELSE IF f.left < ReqLen \/ f.left - e < ReqLen THEN [f EXCEPT !.out = TRUE]
                 ELSE [out |-> FALSE, left |-> f.left - ReqLen - e, n |-> n]
  IN  SubSeq(all, 1, fill[Len(all)].n)

\* display_ifinfo_all: while more than one ifreq is left of the space, the next
\* entry's interface is shown unless it is the one shown last.
Shown ==
  LET entries == ConfFill(ConfSize)
      at[n \in 0 .. Len(entries)] ==
        IF n = 0 THEN [left |-> ConfSize, last |-> NoIf, shown |-> <<>>]
        ELSE LET s == at[n - 1]
                 e == entries[n]
             IN  IF s.left <= ReqLen THEN s
                 ELSE [left |-> s.left - ReqLen - Extra(e[2]), last |-> e[1],
                       shown |-> IF e[1] = s.last THEN s.shown ELSE Append(s.shown, e[1])]
  IN  at[Len(entries)].shown

-----------------------------------------------------------------------------
(* Properties.                                                             *)

\* The tree is one: bits grow downwards, links agree, and each key's own bits
\* lead to its leaves.
TreeSound ==
  /\ \A x \in DOMAIN tree : tree[x].b >= 0 =>
       \A y \in {tree[x].l, tree[x].r} :
         tree[y].p = x /\ (tree[y].b >= 0 => tree[y].b > tree[x].b)
  /\ \A k \in 1 .. Len(rts) : Leaf(k) \in KeyDups(tree, rts[k].key)

\* What rn_match returns for an address is a route to it, and a host route once
\* made is found from then on (route.c: "the host route will be matched first
\* the next time"), through any order in which addresses are set, hosts are
\* talked to and ARP makes entries.
RouteSound ==
  /\ TreeSound
  /\ \A a \in Probes :
       LET x == rn_match(tree, a)
       IN  x \notin Roots \cup {Null} => Covers(rts[x \div 2].key, rts[x \div 2].mask, a)
  /\ \A k \in 1 .. Len(rts) : rts[k].mask = HostMask => rn_match(tree, rts[k].key) = Leaf(k)

\* Every interface is shown by ifconfig exactly once, in the space the first
\* of the two calls asked for; and its index lies within ifnet_addrs.
Listed ==
  /\ Shown = [i \in 1 .. Len(ifs) |-> i]
  /\ ConfFill(ConfSize) = Addresses
  /\ Len(ifs) <= slots

\* An address on the network of some route has a route.  rn_addroute's comment
\* says that masks which reach up to a new inner node are promoted to it, which
\* is what this rests on.
CoveredFound ==
  \A k \in 1 .. Len(rts) : \A a \in Probes :
    Covers(rts[k].key, rts[k].mask, a) => rn_match(tree, a) \notin Roots \cup {Null}
=============================================================================
