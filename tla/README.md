# A TLA+ model of embryo 1.0

embryo is a boot loader in the manner of PMON for the Loongson 2H board: it
brings up memory, console, Ethernet and disk, offers a shell, and loads kernels
over TFTP or from an ext2 disk. It has a BSD-style network stack, a small libc
with a file layer, and polled drivers, all in one address space.

This directory models the parts of it that keep state others rely on, checks
the models with TLC on small instances, and proves the central invariants of
ten of them (socket buffer, descriptors, packet path, Ethernet driver, disk,
remote files, both heaps, device configuration, terminals) with TLAPS for all
instances. `PROJECT.json` lists the components,
the runs, the hazards each property is for, and which definition models which
lines of the source.

## How the program runs

There is one thread. Nothing is preempted, because no device interrupt is used:
drivers are polled. What takes the place of interrupts is the *level*
(`kernel/kern_misc.c`): code raises it with `splsoftnet`, `splimp` and so on,
and `splx(0)`, which lowers it to 0, first runs the soft interrupts whose bits
are set in `netisr` (`ipintr`, `arpintr`), then polls the drivers, and then
returns to the code that called it. So protocol input runs *inside* whatever
function lowered the level, and every `splx(0)` in a system call is a point
where the receive buffers, queues and tables may change. Beside the thread run
three things the code does not control: the DMA engine of the Ethernet
controller, the disk controller, and the hosts on the network.

## Inventory

| part | state | operations | who it talks to | what is hard | correct when |
|---|---|---|---|---|---|
| socket receive buffer (`kernel/uipc_socket.c`) | chains of mbufs, byte and memory counters, lock flag | `soreceive`, `sbappendaddr`, `sbdroprecord`, `sblock` | UDP and raw input append; system calls read | input runs in the middle of `soreceive`, while the first record is being taken apart | no dangling pointer, no lost mbuf, counters exact, FIFO of datagrams |
| kernel heap (`kernel/kern_malloc.c`) | free lists threaded through free blocks, page table of block sizes | `kmem_malloc`, `kmem_free`, `mbuf_clalloc` | everybody | stale list ends, links that callers overwrite, no way back for pages | blocks never overlap, nothing is lost |
| library heap (`lib/malloc.c`) | a ring of free blocks in the order of addresses | `malloc`, `free`, `coremore` | libc, commands | finding the place of a block in a ring, joining neighbours | blocks never overlap, neighbours are joined |
| mbufs and checksum (`kernel/uipc_mbuf.c`, `net/inet/in_cksum.c`) | chains, clusters with reference counts | get, free, copy, trim, pull up, reserve, sum | the whole network code | clusters shared by a packet and its copy; odd addresses and lengths | every packet has its bytes, counts are exact, the sum is the sum of the words |
| file descriptors (`lib/open.c`, `kernel/kern_filedesc.c`) | library table and kernel table | `open`, `socket`, `close` | each opens through the other | any step of several may fail | the tables agree, nothing is orphaned |
| device configuration (`kernel/autoconf.c`) | the device tree, two lists per driver, unit counters | attach, match, destroy | buses and drivers | a match or attach fails at any depth | one device per name, units contiguous, lists sound |
| remote files (`fs/netio/tftp.c`) | block number, buffer window, end-of-file flag, server port | `open`, `read`, `write`, `lseek`, `close` | a TFTP server over UDP | loss, duplication, reordering, no timer | right bytes, calls return |
| packet path (`net/`) | input queues, soft interrupt bits, ARP table with one held packet per host | `ip_output`, `ipintr`, `arpintr`, `ether_output`, ... | sockets above, driver below | ownership of a chain over many layers and error paths | one owner, freed once, no queue forgotten |
| control blocks (`net/inet/in_pcb.c`, `udp.c`) | a queue and a hash table of blocks, a route in each | bind, connect, send, look up | UDP, routing | wildcards, automatic ports, a connection for one datagram | every datagram finds its socket and leaves with the right address |
| routing (`net/radix.c`, `net/route.c`, `net/if.c`, `net/inet/in.c`) | radix tree with mask lists, interfaces and their addresses | add, look up, clone, set an address, list | IP, ARP, `ifconfig` | tree surgery, masks that move between nodes | what is found leads to the address |
| Ethernet driver (`drivers/net/stmmac`) | two descriptor rings, three wrapping counters | `stmmac_xmit`, `stmmac_handler`, open, remove | DMA engine | shared memory, interrupt status, wrap | frames once and in order, none forgotten |
| disk (`drivers/ata`, `drivers/block/block_file.c`) | command slot, port state, file offset | attach, read, write, seek, block commands | AHCI controller | failing and late commands, partial blocks | exact bytes, calls return |
| ext2 (`fs/fsio/ext2.c`) | inode, offset, buffers | open with path lookup, read, seek, list | block files | three levels of indices, joined transfers, failures half way | agrees with the format, nothing leaks |
| terminals (`fs/termio`, `lib/queue.c`) | queues of two devices, flow control flags | read, write, scan, change mode | serial line, screen | nobody watches the line while a command computes; both sides may stop the other | no byte the UART has taken is lost or repeated, flow resumes |
| line editor and history (`shell/console.c`, `history.c`, `drivers/fb/fb_console.c`) | line, cursor, ring of commands, screen | keys, recall, events | terminal, `do_cmd` | what is shown is only known from what was sent | the screen shows the line, a recall gives the command |
| command lines (`shell/command.c`, `getopt.c`) | table of commands | cut into commands and words, choose a handler | handlers | quotes and separators, in place and in two passes | the words the user meant |
| ELF loader, go, boot (`exec/`, `shell/cmd_go.c`, `cmd_boot.c`) | memory, entry, stack, arguments | load, go, boot | files | overlapping and partial segments, arguments laid out below the stack | the image lies where the headers say, the words lie in order below the stack |
| libc (`lib/`) | none beside the heap | patterns, URLs, addresses, numbers, formats | everybody | edges of numbers and texts | agrees with a reference |
| board, PHY, pixels, DDR training (`arch/`, `drivers/net/phy`, `drivers/fb/fb.c`) | hardware registers | register sequences | hardware | only the hardware's manual says | not modelled |

`PROJECT.json` says for each component which of it is modelled, partly modelled
or left out, and why.

## Modules

| module | models | state and steps |
|---|---|---|
| `SockBuf` | `soreceive` and `sbappendaddr` | The mbufs with both their links, the `sockbuf`, the locals of both functions. A step is the code between two points where the level is 0 (`Windows`) or one turn of the copy loop. |
| `DatagramQueue` | what a socket promises | A FIFO of datagrams, with receive, peek and truncation as single steps. |
| `SockBufRefinement` | the link between the two | The refinement mapping and `ReadsFifo`, the abstract specification as a property of `SockBuf`. |
| `SockBufProofs` | | Proofs about `SockBuf`. |
| `Sums` | | Lemmas: what a sum over a finite set is, term by term. |
| `KernMalloc` | the kernel heap | Addresses in units of the smallest block; `next` is the word at an address, `Data` once a caller owns it. Each operation is one step: both run at `splimp`. |
| `LibMalloc` | the library heap | Memory in units of a header, `base` below or above the heap; a call is a step. |
| `MbufOps` | chains of mbufs and `in_cksum` | A packet and its copy, which share clusters; an operation is a step, the loop over a chain is a fold. Beside each chain, the bytes it is meant to have. |
| `Autoconf` | the device tree | A stack of devices being attached; matches and attach functions fail at will. The lists are modelled with both their links. |
| `FileDesc` | both descriptor tables | Calls run to their end, so each is a step composed of operators on the pair of tables, one per piece of code that can fail. |
| `FileDescProofs` | | Proofs about `FileDesc`. |
| `Tftp` | client, server, network | The client's steps are its `sendto` and `recvfrom`; server sessions and the network are external. |
| `TftpProofs` | | Proofs about `Tftp`. |
| `NetPath` | the packet path | Handlers call each other, so they are operators from a state `net` of the network code to the next; one packet through one handler is a step. |
| `NetPathProofs` | | Proofs about `NetPath`. |
| `Radix` | the radix tree | Nodes with their bits, links, duplicates and mask lists; insertion and matching as operators. |
| `Route` | interfaces, addresses, routes | On top of `Radix`: setting an address, cloning a route for a host, the list `ifconfig` reads. |
| `InPcb` | control blocks and ICMP answers | On top of `Route`: sockets that are opened, bound, used and closed; incoming datagrams as a function of the state. |
| `Stmmac` | driver and DMA engine | Every turn of the driver's loops and every access of the engine is a step; the reading of the status register and its clearing are two. |
| `StmmacProofs` | | Proofs about `Stmmac`. |
| `Disk` | block file down to the command slot | The steps of `blkfile_xfer`, of `ata_blk_data_rw` and of the poll, beside a controller that moves one block at a time and works on when the driver has given a command up. |
| `DiskProofs` | | Proofs about `Disk`. |
| `Ext2` | the file system reader | A transfer of the block file is a step, as is each turn of the loop that joins blocks. |
| `Termio` | terminals | A key of the host, a byte taken from the UART, a turn of the read and write loops are steps. |
| `KernelProofs` | | Proofs about `KernMalloc`, `LibMalloc`, `Autoconf` and `Termio`. |
| `CLib` | strings and numbers | The operations of `lib/string.c` and `lib/cvt.c` the shell is made of. |
| `FbConsole` | the console on the frame buffer | A screen of characters; writing, line ends, going back, scrolling. |
| `Console` | `get_line`, `get_cmd`, history | On top of `CLib` and `FbConsole`: one key is a step, with everything it sends to the screen. |
| `Command` | the command table and `do_cmd` | A line goes through both passes in one step. |
| `Exec` | load, go, boot | Memory cell by cell; a command is a step, the loading of a segment an operator. |
| `Library` | `strpat`, `url_parse`, `inet_aton`, `getopt`, `vsprintf` | A call is a step, from arguments that were written out from their meaning. |

The parts meet as follows. `NetPath` ends at a driver that copies what it sends,
or gives the chain up when it has no descriptor (`Stmmac` has the rings), and at a socket buffer with room for a number of
datagrams (`SockBuf` has its inside); what a chain is made of is in `MbufOps`,
and which socket and which route a datagram takes in `InPcb`. `Tftp` uses a
socket as `DatagramQueue` describes it. `Ext2` reads from what `Disk` shows to be
a correct block file, any transfer of which may fail; `Exec` reads from a file
that may end early. `FileDesc` has the descriptors behind all of them; in it a
remote file is one that owns a socket. `Console` draws on `FbConsole` what
`Command` will be given.

The `MC*` modules give the constants that a `.cfg` cannot write down, above all
the packets of `SockBuf` and the disk images of `Ext2`. `MCInput` (`SockBuf` and
`Termio`), `MCKernel` (`KernMalloc`, `LibMalloc`, `MbufOps`, `Autoconf`, `InPcb`)
and `MCShell` (`Console`, `Command`, `Exec`, `FileDesc`, `Ext2`, `Library`) hold
several parts that share no state: a behaviour exercises one of them, chosen in
its first state (`part`), which is the union of the runs each of them would have
alone. `MCInPcb`, `MCConsole`, `MCExec`, `MCExt2` and `MCLibrary` give the
constants of such a part; the first three are also the modules of the runs that
ask a question of that part alone.

## Runs

Passing runs:

| run | instance | shows |
|---|---|---|
| `input` | socket buffer: six mbufs; packets with one and two data mbufs, with an empty first or last one, with and without clusters; reads of 0 to 3 bytes with every set of flags. Terminals: queues of five, a UART of two, a host that sends one byte after it was told to stop and overruns a full UART | `NoDangling`, `NoLeak`, `Accounting`, `LockReleased`: the pointers stay sound, nothing leaks, the counters are exact, the lock is released. `ReadsFifo`: the buffer implements `DatagramQueue`. `RecvReturns`: a receive returns once there is a datagram. `InputKept`, `OutputRight`, `FlowResumes`: no byte the UART has taken is lost, both devices get the whole text, a stopped host is started again. |
| `kernel` | kernel heap: pages of two units, three buckets, five pages; library heap: eight units, chunks of three, `base` on either side; mbufs of four bytes, two clusters of eight in a heap of four, five operations on a packet and its copy; a device table of seven entries with a dynamic one whose units pass from one digit to two; addresses of four bytes of two bits, an Ethernet interface with addresses of two classes and the loopback, two sockets, two ports, three routes | `HeapSound`, `LibHeapSound`: memory has one owner and none is lost. `ChainsRight`: packets keep their bytes while they share clusters, counts are exact, as long as the clusters' counts lie in their table. `ChecksumRight`: the sum of every prefix. `DevicesRight`: names, units, parents and lists under every failure. `RouteSound`: what the tree finds leads to the address, and host routes are found again. `DatagramsRight`: ports have one owner, datagrams come in to the right sockets and leave with the right address and route, echoes are answered from the address asked. `Listed`: `ifconfig` lists every interface once. |
| `tftp` | blocks of two bytes, files of up to three blocks, block numbers that wrap after three, two server ports, three faults out of loss, duplication, reordering, a failing server and a failing send | No wrong byte is delivered or stored under any of them; with loss and duplication alone a short read is the end of the file, a closed file is stored, and calls return. |
| `net` | three mbuf chains, two hosts, queues of two, one transmit descriptor, a socket with room for one, datagrams that fit the MTU and that do not | Every chain has one owner or was given up at one of three known places, no input queue is forgotten, ARP holds nothing for a host it knows. |
| `stmmac` | rings of two, counters that wrap after two rounds | `RingsExact`: rings and counters agree; frames go and come once and in order. `FramesMove`: with events between the reading and the clearing of the status, frames move on, up to the point `stmmac_lost` is about. |
| `disk` | three blocks of two bytes, commands of at most two blocks, a count field that wraps at two, region entries of three bytes | Reads and writes are exact at every offset until the driver has given up on a command the controller is still to do; calls return, also then. |
| `shell` | lines of three characters behind a prompt of one on a screen of two rows of four, so that a line fills its row, keys without meaning, a history of three; command lines of four characters with blanks, quotes and separators; files of two segments out of eight, memory of 28 cells; ten and six descriptors, three kernel files; file system blocks of two units and two direct indices, files of up to nine blocks in three orders, partition tables with and without empty entries, one failing transfer or allocation; all texts and patterns of up to four characters, URLs, addresses, option lists and pairs of format directives | The screen shows the line, recall and events give the commands, lines come apart as meant, images, words and environment lie where they should, descriptors survive every failure, reads, lookups and listings of a disk agree with the format and leak nothing, the library agrees with its references. |

The bounds are chosen so that every boundary is met: memory runs out, queues and
rings fill and wrap, counters and count fields wrap, files end inside a block,
at its end and beyond the last index, a heap block joins no neighbour, one or
both, a mask lies above, at and below an inner node. The code tests sizes and
counters only against these boundaries, so larger numbers add distance from
them and no new cases that we know of. `MaxOps`, `MaxRoutes`, `MaxCalls`,
`MaxSteps`, `MaxFaults` and `MaxCmds` (lines entered) bound how long a behaviour may be; five
operations on a packet suffice to build, copy, change and free both chains. `TxMax`
stands for the transmit ring in `NetPath`, `KmemCl` for the clusters the kernel's
heap could hold, `GoArgs` for the entries of `cmdargvec`; `LineNext` in `MCConsole`
lets a line fill its row, or the bell ring, in the first line only: the next
prompt starts a row of its own.

Runs that find a violation, each of a sentence of the sources:

| run | property | what happens |
|---|---|---|
| `disk_late` | `OldDataKept` | A command that times out stays in the slot; its late completion is taken for that of the next command, and a partial write fills its block up with uninitialised memory. |
| `route_lost` | `CoveredFound` | The comparison that should promote masks when an inner node is inserted above them is never true (`radix.c:552`: an unsigned against a negative number); a network route is then not found for addresses that lie beside the hosts talked to. |
| `stmmac_lost` | `NoneForgotten` | The status is read (`dwmac_lib.c:67`) and what was read is cleared (`122`) with events in between. `RI` left without its summary is passed over by the next poll (`105`), which clears it although a new frame has set it again; the poll after that finds the summary alone, and the frame stays in the ring. |
| `history_full` | `TextFound` | Once the ring is full `hist_new` and `hist_old` are equal, and no command is found by its beginning or as the last one. |
| `go_vector` | `VectorGiven` | `go` hands over the end of the vector instead of its start (`cmd_go.c:106`). |

Deadlock is checked in `input` and `net`. It is not in `kernel`, `shell` and the
runs on parts of them (memory is exhausted, a bound is reached), `tftp` (the file
is closed), the runs of `Stmmac` (traffic may stop) and of `Disk` (the number of
calls is bounded).

### What the instances leave out

Some paths of the code are known to break a property, beside those the runs above
are about. The model follows the code there and marks the step, or a constant
leads there; the passing runs say nothing about what follows, or choose values
that do not lead there.

* `NetPath`: `lost` collects the chains nobody owns any more. `Lose` marks the
  three places: a datagram above the MTU (`ip_output.c:118`), a driver without
  descriptor or buffer (`stmmac_main.c:625`, `641`), an interface that is down
  below ARP (`arp.c:183`); `OwnedOnce` says that there is no fourth. Not in the
  passing run: `Frames` with `"options"`, where a chain is freed by `icmp_error` and
  again by `ipv4_input` (`ip_input.c:156`), and `Room = FALSE`, where a chain
  without room for a header is freed twice as well (`if_ether.c:255`).
* `Stmmac`: the transmit half of `RingsExact` and `FramesMove` is stated up to
  the first hard error (`erred`); after it driver and engine disagree about
  their place. A frame for which there is no descriptor is no longer due: that it
  is lost is judged in `NetPath`. `FramesMove` is stated until a clearing parts
  an event from its summary bit (`missed`, the run `stmmac_lost`).
* `Disk`: `TransfersRight` is stated until the driver gives up on a command that
  the controller has not failed (`overdue`); from then on the controller may
  move data to and from buffers that are gone, and `disk_late` shows one of the
  outcomes. `CallReturns` has no such exception.
* `Tftp`: `CallsReturn` excludes `tftp_close`, which waits for a packet nobody
  repeats; after a failing send or server (`faults.hard`) a short read need not
  be the end of the file, because `tftp_read` keeps the result of `tftprrq` in a
  `size_t` (`tftp.c:429`). Files whose bytes are not all in blocks 1 to 2^16 - 1
  break off when they are read, because `tf->block` does not wrap and the number
  on the wire does; and `tftp_write` goes on after a block that was not taken, so
  2^16 blocks later the server may take one with the same number. Both halves
  are stated for files below these sizes.
* `Ext2`: seeks stay within the file (`ext2.c:759`), disks have a partition
  table (`ext2.c:631`), and what an unreadable directory loses is counted
  apart (`ext2.c:486`).
* `SockBuf` follows one socket: `soclose` gives up its structure and leaves
  unread mbufs allocated (`uipc_socket.c:582`).
* `MbufOps`: `wild` is set when a cluster was wanted and there was none:
  `MCLALLOC` leaves `me_buf` as it was (`mbuf.h:184`), and `sosend` takes the
  result of `mbuf_getext` the wrong way round (`uipc_socket.c:463`).
  `mbufinit` allocates and clears as many *bytes* for the reference counts as
  there are clusters, for an array of `long` (`uipc_mbuf.c:510`), so the counts of
  most clusters lie behind it; `pool.stray` is set when such a cluster is taken,
  and what is read there is anything. The properties hold up to either (`Sound`). Copies start at the beginning of a packet, as all
  callers ask for.
* `Autoconf`: `destroy_device` takes the list heads out of the lists instead of
  the device (`autoconf.c:218`); the lists are claimed until then.
* `FileDesc`: `open` looks for a free entry past the end of the table
  (`open.c:73`); the step is marked (`overrun`) and is the last. `stat.c:33` and
  `cmd_cat.c:82` return without closing, which is how the table fills up.
* `Route`: a host route for the address of a network that has a route reads
  through a null pointer (`radix.c:481`); the model sets `fault` and stops.
* `Termio`: bytes that arrive at a full UART while nobody polls are lost in the
  hardware; the driver does not look at the overrun bit, so neither the program
  nor `InputKept` knows of them. A host and a loader that have stopped each other wait for ever;
  `FlowResumes` leaves that out.
* `Console`: events by text are claimed until the ring is full (`history_full`),
  numbers up to twice the size of the ring. The line on the screen is claimed
  until it fills its row or the bell rings (`odd`): going back stops at the start
  of a row (`fb_console.c:175`), and the bell for a key without meaning is a
  character to the screen, which moves its cursor on (`console.c:194`). With 256 characters to a line and 80 to 160 columns either can
  happen, and what holds then is that pixels and matrix agree. `add_hist_cmd`
  allocates one byte less than it copies (`history.c:34`); the model keeps the
  text whole.
* `Library`: `LibraryRight` is claimed for the calls that are not `Misread`. Those
  are: a pattern with a `$`, at which `strpat` ends a piece and forgets the rest
  (`string.c:373`); a path with an `@`, before which `url_parse` sees a login
  (`url.c:39`); a port or a number of an address too wide for where it is kept,
  which is cut instead of refused (`url.c:82`, `inet_addr.c:52`); options written
  together, for which `getopt` counts the word once a letter, so that `ls -al d`
  loses its operand (`getopt.c:52`); and a format in which a width has fewer
  digits than an earlier one, because `strncpy` leaves the digits of the earlier
  one behind it (`vsprintf.c:68`; `cmd_lsdev.c:52` is such a format).
* `Exec`: a segment without bytes in the file is skipped, not cleared
  (`elf_load.c:528`, `649`); `LoadRight` leaves out the cells such a segment lays
  claim to. Of a failing load it says only which cells may have changed: the
  entry set by an earlier load stays (`cmd_load.c:62`), and `go` would start
  there. `ArgsRight` says where a program's words are, not that it is told so
  (`go_vector`). Without options `go` copies up to 20 words into the 15 entries
  of `cmdargvec` (`cmd_go.c:42`, `79`); `ArgsRight` is silent from then on (mode
  `"astray"`). Files are ones whose segments are no shorter in memory than in the
  file.

Facts about the code that the models follow and no property judges: `in_ifinit`
keeps the mask of the first class an interface had (`in.c:182`); the deletion of
routes is not implemented (`route.c`, `RTM_DELETE`); `inpcb_hashlookup` compares
the ports of a block with each other (`in_pcb.c:356`); an interface left without
an address accepts everything (`ip_input.c:211`); `ifaof_ifpforaddr` does not see
a difference in the last byte of the mask (`if.c:145`).

### Fairness

* `SockBuf`: the thread runs on when no handler is running, and a handler that
  has begun runs to its end. There is nothing else in the processor.
* `Tftp`: the client runs; a packet that is not lost arrives; the server repeats
  its packet as long as it is unanswered (strong fairness, since the repetition
  may be interrupted by other packets). The client has no timer of its own, so
  nothing would return without the last.
* `NetPath`: the shell's commands keep calling into the kernel (they wait in
  `recvfrom` or poll), and `splx` finishes what it has begun.
* `Stmmac`: the loops run; each return to level 0 polls, so that a poll begins
  is strongly fair, and one that has read the status goes on to clear it; frames do not for ever arrive faster than the receive loop copies them;
  the engine works through the descriptors it owns.
* `Disk`: driver and controller run. That the controller answers is *not*
  assumed: it may halt at any block.
* `Termio`: the loops run, the UART takes a byte again and again, and whatever
  the program does it comes back to reading, as `main_loop` does (strong
  fairness: it may do other things in between). That the host sends, or takes
  back its own stop, is not assumed.

## Proofs

`SockBufProofs` proves, for every set of mbufs, every set of packets and every
limit, from `SockBufAssumption` and `PacketAssumption`:

* `TypeCorrect`, `NeverDangling`, `NeverLeaks`, `LockAlwaysReleased`.

None of these is inductive. `NoLeak` says each mbuf in use hangs somewhere; when
`soreceive` frees the first mbuf of a record it moves the link to the next
record along, and that this loses nothing needs that the field it overwrites was
`NULL`, that no mbuf hangs in two places, and that the locals `m`, `nextpkt` and
`from` stand where the step expects them. `IInv` therefore adds `NoSharing` (the
chains are disjoint, only the head of a record carries a link to the next one),
`Control` (where each local stands at each step, the lock included) and `Offset`
(only a peek leaves an offset). The proof has one lemma per action, and in it
one step per conjunct the action can disturb.

`FileDescProofs` proves, for every size of the tables and every limit, from
`FileDescAssumption`:

* `TypeCorrect`, `TablesAlwaysAgree`, `NothingOrphaned`, `AlwaysCounted`, and
  their conjunction `DescriptorsKept`, which is what the run `shell` checks.

Here the strengthening says that a free entry is blank, so that undoing restores
the tables exactly (`Blank`), that the console's entries are its own (`Console`)
and that a remote file's socket is open and nobody's descriptor (`Holding`). The
lemmas give the net effect of the composed operators: an open, a socket or a
close either does all of its work or leaves the tables as they were.

`SockBufProofs` also proves `AccountsExact`: `sb_cc` and `sb_mbcnt` are the sums
of the lengths and costs of the mbufs the buffer has been charged for. It rests
on `IInv`, which says which mbufs a step frees, takes or cuts. What becomes of a
sum when a member enters, leaves or changes is proved in `Sums`, by induction
over the size of the set: the set of the sizes at which a lemma fails would have
a least element.

`NetPathProofs` proves, for every set of chains and hosts and queues of every
length, from `NetPathAssumption`:

* `IsrAlwaysPending`: a queue that is not empty has its bit set in `netisr`;
* `NeverHeldResolved`: ARP holds no packet for a host it knows;
* `EveryChainOwnedOnce`: a chain has exactly one owner, or was lost at one of the
  three places listed above, and none is freed twice. This one is for the
  constants that keep out the two paths that free a chain twice (`Harmless`: no
  frame with `"options"`, `Room`); datagrams of any size, memory, descriptors and
  interfaces that run out or go down are in it.

The handlers are operators from one state of the network code to the next, so
each has a lemma about the state it returns, and the lemma of a handler that
calls others cites theirs. `Calm` and `Owned` say what the code relies on between
two handlers.

`StmmacProofs` proves `RingsStayExact`, for rings and a queue of every size and
counters of every width that is a multiple of the rings: in every state the
descriptors the engine owns are exactly those between the driver's counters, and
what is due is what rings and queue hold, in order. `RingInv` adds where the
engine is between the two counters, and what each descriptor holds on either side
of it; slots are compared modulo the size of the ring, so most of the lemmas are
about remainders of counters that wrap.

`DiskProofs` proves, for blocks, disks, requests, count fields and regions of
every size and for commands that fail at any block, from `DiskAssumption`:

* `EveryTransferRight`: a read delivers the disk's bytes, a write changes the
  bytes it was given and no other, until the driver gives up on a command the
  controller is still to do (`overdue`; the run `disk_late` shows what may come
  after).

`DiskInv` says how far the transfer in progress is (`Placed`), what the slot, the
scratch block and the caller's buffer hold at each point of it (`Holds`), and
which commands can be in the slot (`Settled`). Bytes are compared one by one: a
partial block is right because the bytes around the written ones are the ones
just read.

`TftpProofs` proves, for blocks, block numbers, files, reads and writes of every
size, every number of server ports and any number of faults of every kind, from
`TftpAssumption`:

* `ReadsAlwaysRight`: `tftp_read` delivers the file's bytes at their offsets, and
  while packets are only lost or repeated, a short read is the end of the file;
* `StoresAlwaysRight`: what a session has stored is a prefix of what `tftp_write`
  accepted, and while packets are only lost or repeated, all of it is stored once
  `tftp_close` has returned.

A block number on the wire is one of `Word` remainders, and the client compares
it with a number that does not wrap. `TftpInv` therefore says which block a
packet in flight is about: every packet is one of a session as it is or was
(`Replies`), or of the client (`Queries`, only complete blocks), and no session
is ahead of the client (`Served`). `Order` says that the port that has answered
is at the client's block or the one before, and that none of its old packets
comes after a new one; this is what loss and repetition keep and reordering does
not, and why the second half of each theorem is about the former only. The
attempt to prove it gave the exact sizes at which numbers wrap: a read that stops
short means the end of the file up to block `Word - 1`, what is stored is a prefix up to
`Word` blocks.

`KernelProofs` proves one theorem about the kernel heap, from
`KernMallocAssumption`, for pages, heaps and requests of every size:

* `HeapSoundAlways`: callers, pages taken with `__kmem_alloc` and free lists share
  no memory, a free list never leads through a caller's data, and everything below
  `kmemoffs` belongs to one of them.

The code has no record of where blocks begin, so `HeapSound`, which only speaks of
the parties, is not inductive: that a freed block goes back to the right bucket
depends on the `ku_index` of its page, which later allocations in the same page
must have left alone. `HeapInv` says that there is a layout: blocks side by side
from the end of `kmemusage` to `kmemoffs`, each a caller's, a page or free
(`Shared`), each as long as `kmem_free` will believe (`Sized`), with every bucket
a list through its free blocks from `kb_next` to `kb_last` (`Linked`). A step adds
blocks at the end of the layout or moves one between the parties. The buckets are
at most 16, as in the code; block sizes are powers of two, which is what makes a
page hold whole blocks or a block whole pages.

It proves one about the device configuration, from `AutoconfAssumption` (what
`ioconf.c` must look like: parents come first, units of a driver differ), for
every table and any number of devices:

* `DevicesAlwaysRight`: names are unique, units of a dynamic entry dense, parents
  present, and both lists of each driver lead through its devices, whichever match
  or attach function fails.

`ConfInv` adds what the failing path relies on: an attach function that has not
yet begun with the devices below it is the last on the stack, has none, and its
unit is the newest of its entry (`Stacked`), so that taking it back leaves the
units dense. The lists are rings of `next` and `prev` until a device is destroyed
(`ListedAll`).

And two about terminals, from `TermioAssumption`, for queues, UARTs, texts and
reads of every size:

* `InputAlwaysKept`: no byte the UART has taken is lost, repeated or reordered,
  however late the device is looked at and however often the UART overruns;
* `OutputAlwaysRight`: both devices get the whole text of a write, and no byte is
  put into a full queue.

`InputKept` needs the level of the receive queue: until the host is told to stop
the queue is below the trigger, and from then on there is room for what the UART
holds and what the host still sends (`Flow`). The proof shows where this fails: the
trigger must exceed what the UART and the host may add (`Fifo + Slack < Trigger`).
`OutputRight` needs that only the device being written to has bytes queued. The
loop over the UART and the expansion of line ends are recursive functions of any
length; their lemmas compare two such functions step by step, and the least index
at which they differ cannot exist.

And one about the heap of the C library, from `LibMallocAssumption`, for heaps,
headers, chunks and requests of every size and `base` on either side:

* `LibHeapSoundAlways`: the ring of free blocks leads round in the order of the
  addresses and through `base`, every unit taken from `md_sbrk` is in one free
  block or one caller's, who has the bytes he asked for, and free blocks that
  touch have been joined.

`LibHeapSound` speaks of what the walk along the links finds. `LibInv` says that
there is a set of addresses through which the links lead in order (`Ordered`, which
needs no walk) and which, with the callers' blocks, paves the heap (`Paved`). That
the walk then meets all of the set and nothing else follows in two steps: by the
pigeonhole principle some address comes twice, and a set closed under ordered links
is all of it. `free` joins a block with the one behind it and then with the one
before it; in between, the memory satisfies neither the invariant nor the one
`free` starts from, and `Half` says what it does satisfy.

The inductive invariants were checked by TLC as invariants first.

Only model-checked are:

* liveness and fairness (`RecvReturns`, `CallsReturn`, `Drained`, `FramesMove`,
  `CallReturns`, `FlowResumes`), which need `ENABLED`;
* the refinement `ReadsFifo`, whose mapping walks chains of any length;
* `ChainsRight` and `ChecksumRight`, and `RouteSound`, `Listed` and
  `DatagramsRight`, which speak of what a fold over a chain and a search in a tree
  return; that is induction over data, which the least-index
  argument above gives piecemeal only;
* `ReadRight`, `NamesRight` and `NoLeak` of `Ext2`, which compare the reader with
  disk images the MC module writes down;
* `EchoRight`, `RecallRight`, `BangRight`, `CommandRight`, `LoadRight`, `ArgsRight`
  and `LibraryRight`, which compare what a recursive function makes of a text with what a reference does.

## Not modelled

Register sequences and start-up code (`arch/`, PHY, memory training, the display
controller), whose correctness lies in the hardware's manuals; pixels and glyphs
(`video_font.c` alone is an eighth of the source); the handlers of the shell's
commands that print what a call returns; IP options beyond whether they are good
or bad, and ICMP messages that only go on to a raw socket; symbols and relocation
of ELF files, which the loader does not use; `zloader`, which this release does
not build.
