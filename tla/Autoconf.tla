------------------------------ MODULE Autoconf ------------------------------
(***************************************************************************)
(* Device configuration: kernel/autoconf.c with the busses that call it,   *)
(* drivers/sys/mainbus.c, arch/mips/mach/ls2h/dev/localbus.c and           *)
(* ahci_platform.c, over the table of autoconf/ioconf.c.                   *)
(*                                                                         *)
(* A device's attach function configures the devices below it, so that     *)
(* the attach functions that have begun form a stack.  A bus either looks  *)
(* for the best of its entries ("found"), as often as it has places, or    *)
(* attaches every entry that matches ("scan"), or has no devices ("leaf"). *)
(* Only scanning busses are indirect, and their entries are static.        *)
(***************************************************************************)
EXTENDS Integers, Sequences, FiniteSets

CONSTANTS
  Cfdatas,    \* the table: driver, parent, whether dynamic, what it does, name length
  MaxDev,     \* how many devices the heap has room for
  MaxPorts,   \* AHCI_MAX_PORTS
  MaxName     \* MAX_DEV_NAME

Cfs == 1 .. Len(Cfdatas)
NoParent == 0
Drivers == {Cfdatas[i].driver : i \in Cfs}
Dev == 1 .. MaxDev
HeadNode == 0            \* a list's head
AllDevs == "alldevslist"

\* The main bus comes first, and the entries below an entry follow it.  Entries
\* of one driver have units of their own, a dynamic one the last of them.
ASSUME AutoconfAssumption ==
  /\ Cfdatas \in Seq([driver : STRING \ {AllDevs}, parent : Nat, dynamic : BOOLEAN,
                       does : {"found", "scan", "leaf"}, unit : Nat, namelen : Nat])
  /\ 1 \in Cfs /\ Cfdatas[1].parent = NoParent /\ ~Cfdatas[1].dynamic
  /\ \A i \in Cfs \ {1} :
       Cfdatas[i].parent \in 1 .. i - 1 /\ (Cfdatas[i].dynamic => Cfdatas[Cfdatas[i].parent].does = "found")
  /\ \A i, j \in Cfs : i # j /\ Cfdatas[i].driver = Cfdatas[j].driver =>
       /\ Cfdatas[i].unit # Cfdatas[j].unit
       /\ Cfdatas[i].dynamic => Cfdatas[j].unit < Cfdatas[i].unit
  /\ MaxDev \in Nat /\ MaxPorts \in Nat /\ MaxName \in Nat

VARIABLES
  found,     \* the static entries with CFSTAT_FOUND
  cf_unit,   \* cf_unit of each entry
  devs,      \* the devices there are: entry, unit and parent
  lists,     \* alldevslist and the cd_devlist of each driver
  attaching, \* the attach functions that have begun
  config,    \* "boot", "run", "done" or "panic"
  destroyed  \* destroy_device was called

confvars == <<found, cf_unit, devs, lists, attaching, config, destroyed>>

\* config_init; the table as ioconf.c has it.
ConfInit ==
  /\ found = {} /\ cf_unit = [i \in Cfs |-> Cfdatas[i].unit]
  /\ devs = [d \in {} |-> 0]
  /\ lists = [l \in Drivers \cup {AllDevs} |->
                [next |-> [n \in 0 .. MaxDev |-> n], prev |-> [n \in 0 .. MaxDev |-> n]]]
  /\ attaching = <<>> /\ config = "boot" /\ destroyed = FALSE

\* list_add_tail and list_del
list_add_tail(l, n) ==
  LET p == l.prev[HeadNode]
  IN  [next |-> [l.next EXCEPT ![n] = HeadNode, ![p] = n], prev |-> [l.prev EXCEPT ![n] = p, ![HeadNode] = n]]
list_del(l, n) ==
  [next |-> [l.next EXCEPT ![l.prev[n]] = l.next[n]], prev |-> [l.prev EXCEPT ![l.next[n]] = l.prev[n]]]

-----------------------------------------------------------------------------
(* Devices.  A step works on c, the record of found, unit, devs and lists.  *)

Conf == [found |-> found, unit |-> cf_unit, devs |-> devs, lists |-> lists, destroyed |-> destroyed]
Becomes(c) == found' = c.found /\ cf_unit' = c.unit /\ devs' = c.devs /\ lists' = c.lists /\ destroyed' = c.destroyed

Digits(n) == IF n < 10 THEN 1 ELSE IF n < 100 THEN 2 ELSE IF n < 1000 THEN 3 ELSE IF n < 10000 THEN 4 ELSE 5
NameFits(i, c) == Cfdatas[i].namelen + Digits(c.unit[i]) <= MaxName

\* create_device, when it succeeds at address d; a dynamic device takes the
\* next unit.
create_device(c, d, i, parent) ==
  [c EXCEPT !.devs = [x \in DOMAIN c.devs \cup {d} |->
                        IF x = d THEN [cf |-> i, unit |-> c.unit[i], parent |-> parent] ELSE c.devs[x]],
            !.unit = IF Cfdatas[i].dynamic THEN [c.unit EXCEPT ![i] = @ + 1] ELSE c.unit,
            !.lists = [c.lists EXCEPT ![Cfdatas[i].driver] = list_add_tail(@, d), ![AllDevs] = list_add_tail(@, d)]]

\* The heap may give a freed block again, or another one: of those that are
\* free one of the first two stands for either.
NewAddr ==
  LET free == Dev \ DOMAIN devs IN {d \in free : Cardinality({e \in free : e < d}) < 2}
CanCreate(c, i) == DOMAIN c.devs # Dev /\ NameFits(i, c)

\* destroy_device.  What it unlinks are the heads of the lists.
destroy_device(c, d) ==
  LET i == c.devs[d].cf
  IN  [c EXCEPT !.devs = [x \in DOMAIN c.devs \ {d} |-> c.devs[x]],
                !.unit = IF Cfdatas[i].dynamic THEN [c.unit EXCEPT ![i] = @ - 1] ELSE c.unit,
                !.lists = [c.lists EXCEPT ![Cfdatas[i].driver] = list_del(@, HeadNode), ![AllDevs] = list_del(@, HeadNode)],
                !.destroyed = TRUE]

\* config_attach up to the call of the attach function
FoundNever(c, i) == c
MarkFound(c, i) == IF Cfdatas[i].dynamic THEN c ELSE [c EXCEPT !.found = @ \cup {i}]

\* mainbus_attach looks for one device, ahci_plt_attach for one at each port
\* with a link; localbus_attach goes through the table.
mainbus_places == {1}
ahci_places == 0 .. MaxPorts
localbus_places == {Len(Cfdatas)}
Places(i) ==
  CASE i = 1 -> mainbus_places
    [] i # 1 /\ Cfdatas[i].does = "found" -> ahci_places
    [] Cfdatas[i].does = "scan" -> localbus_places
    [] Cfdatas[i].does = "leaf" -> {0}

\* The attach function of device d begins.
Begin(stack, c, d) ==
  LET i == c.devs[d].cf
  IN  /\ \E n \in Places(i) : attaching' = Append(stack, [dev |-> d, begun |-> FALSE, left |-> n])
      /\ Becomes(MarkFound(c, i))

-----------------------------------------------------------------------------
(* Steps.                                                                   *)

Top == attaching[Len(attaching)]
TopCf == devs[Top.dev].cf
Below == {i \in Cfs : Cfdatas[i].parent = TopCf /\ i \notin found}
Turn == [attaching EXCEPT ![Len(attaching)].left = @ - 1, ![Len(attaching)].begun = TRUE]

\* configure with config_rootfound: the system stops without its main bus.
Configure ==
  /\ config = "boot"
  /\ \E d \in NewAddr : Begin(<<>>, create_device(Conf, d, 1, NoParent), d)
  /\ config' = "run"
ConfigureFails == config = "boot" /\ config' = "panic" /\ UNCHANGED <<found, cf_unit, devs, lists, attaching, destroyed>>

\* mapply over the entries: of those with the highest priority the first.
Best(pri) ==
  {i \in Below : pri[i] > 0 /\ \A j \in Below : pri[j] < pri[i] \/ (pri[j] = pri[i] /\ i <= j)}

\* config_found for one place of the bus: the best entry is attached.
ConfigFound ==
  /\ config = "run" /\ attaching # <<>> /\ Cfdatas[TopCf].does = "found" /\ Top.left > 0
  /\ \E pri \in [Below -> 0 .. 2] :
       LET t == Turn
       IN  \/ /\ \A i \in Best(pri) : ~CanCreate(Conf, i)
              /\ attaching' = t /\ UNCHANGED <<found, cf_unit, devs, lists, destroyed>>
           \/ \E i \in Best(pri), d \in NewAddr :
                CanCreate(Conf, i) /\ Begin(t, create_device(Conf, d, i, Top.dev), d)
  /\ UNCHANGED config

\* localbus_scan: the device does not match and is destroyed, or is attached.
localbus_scan(stack, c, d) ==
  (attaching' = stack /\ Becomes(destroy_device(c, d))) \/ Begin(stack, c, d)

\* config_scan for the next entry: a device is made before anything is matched.
ConfigScan ==
  /\ config = "run" /\ attaching # <<>> /\ Cfdatas[TopCf].does = "scan" /\ Top.left > 0
  /\ LET i == Len(Cfdatas) + 1 - Top.left
         t == Turn
     IN  \/ /\ i \notin Below \/ ~CanCreate(Conf, i)
            /\ attaching' = t /\ UNCHANGED <<found, cf_unit, devs, lists, destroyed>>
         \/ \E d \in NewAddr :
              /\ i \in Below /\ CanCreate(Conf, i)
              /\ localbus_scan(t, create_device(Conf, d, i, Top.dev), d)
  /\ UNCHANGED config

\* The attach function returns: a bus with success, a device or a controller
\* that has not begun with the devices below it perhaps with an error.
Return ==
  /\ config = "run" /\ attaching # <<>> /\ Top.left = 0
  /\ attaching' = SubSeq(attaching, 1, Len(attaching) - 1)
  /\ config' = IF Len(attaching) = 1 THEN "done" ELSE config
  /\ UNCHANGED <<found, cf_unit, devs, lists, destroyed>>
AttachFails ==
  /\ config = "run" /\ Len(attaching) > 2 /\ ~Top.begun
  /\ attaching' = SubSeq(attaching, 1, Len(attaching) - 1)
  /\ Becomes(destroy_device(Conf, Top.dev))
  /\ UNCHANGED config

ConfNext == Configure \/ ConfigureFails \/ ConfigFound \/ ConfigScan \/ Return \/ AttachFails
ConfSpec == ConfInit /\ [][ConfNext]_confvars

-----------------------------------------------------------------------------
(* Properties.                                                             *)

\* The devices from a node on, as a walk along the list finds them.
Walk(next) == LET w[n \in 0 .. MaxDev] == IF n = 0 THEN HeadNode ELSE next[w[n - 1]] IN w

\* However matches and attach functions fail: no two devices have one name, an
\* entry that is not dynamic has one device at most, a device lies below one
\* that is there, and of a dynamic entry the units in use are the first ones.
\* Until a device is destroyed both lists lead through exactly the devices
\* there are, in both directions, and back to their heads.
DevicesRight ==
  /\ \A d, e \in DOMAIN devs :
       d # e => <<Cfdatas[devs[d].cf].driver, devs[d].unit>> # <<Cfdatas[devs[e].cf].driver, devs[e].unit>>
  /\ \A d \in DOMAIN devs :
       /\ devs[d].cf # 1 => devs[d].parent \in DOMAIN devs /\ devs[devs[d].parent].cf = Cfdatas[devs[d].cf].parent
       /\ \A e \in DOMAIN devs : devs[e].cf = devs[d].cf /\ e # d => Cfdatas[devs[d].cf].dynamic
  /\ \A i \in Cfs : Cfdatas[i].dynamic =>
       {devs[d].unit : d \in {e \in DOMAIN devs : devs[e].cf = i}} = Cfdatas[i].unit .. cf_unit[i] - 1
  /\ ~destroyed => \A l \in DOMAIN lists :
       LET on == {d \in DOMAIN devs : l \in {AllDevs, Cfdatas[devs[d].cf].driver}}
           fw == Walk(lists[l].next)
           bw == Walk(lists[l].prev)
           n  == Cardinality(on)
       IN  /\ {fw[k] : k \in 1 .. n} = on /\ {bw[k] : k \in 1 .. n} = on
           /\ lists[l].next[fw[n]] = HeadNode /\ lists[l].prev[bw[n]] = HeadNode
=============================================================================
