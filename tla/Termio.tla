------------------------------- MODULE Termio -------------------------------
(***************************************************************************)
(* Terminals: fs/termio/termio.c over the queues of lib/queue.c and the    *)
(* device operations of ns16550.c and fb_console.c.  Device 1 is the       *)
(* serial line, with a host at its other end; device 2 is the screen.      *)
(* Nothing interrupts: a device is looked at only when scandevs runs, from *)
(* the loops of termio_read and termio_write, and in between the host goes *)
(* on sending.  Both directions have software flow control: the host is    *)
(* asked to stop when the receive queue fills up, and may itself stop our  *)
(* output.  Output goes to both devices (OUTPUT_TO_BOTH).                  *)
(***************************************************************************)
EXTENDS Integers, Sequences

CONSTANTS
  QLimit,    \* a queue holds this many, one less than TERMIO_IO_QUEUE_SIZE
  Trigger,   \* TERMIO_RX_FC_TRIGGER
  Fifo,      \* what the UART's own buffer holds
  Slack,     \* what the host still sends after it was told to stop
  Keys,      \* what the host sends
  Writes,    \* what the program writes
  ReadLen    \* how much it reads at a time

ASSUME TermioAssumption ==
  /\ QLimit \in Nat /\ Trigger \in 1 .. QLimit - 1
  /\ Fifo \in Nat \ {0} /\ Slack \in Nat
  /\ Fifo + Slack < Trigger
  /\ Keys \subseteq {"a", "m-a", "nl", "cr", "bs", "intr", "xon", "xoff"}
  /\ \A t \in Writes : t \in Seq({"a", "nl"}) /\ t # <<>>
  /\ ReadLen \subseteq Nat \ {0}

VARIABLES
  dev,     \* each tty_device: its queues, txoff and rxoff
  lflags,  \* l_flags of the serial device
  saved,   \* what TCSNCANON left with its caller
  fifo,    \* bytes in the UART
  host,    \* the host: whether it was told to stop, what it may still send
  doing,   \* "idle", "read", "write" or "hung"
  rd,      \* the read: how much it wants, how much it has
  wr,      \* the write: the text, the part not queued yet, the devices left
  shown,   \* what each device was given in this write
  unread   \* the data the UART took and nobody read, and data read but not sent

termvars == <<dev, lflags, saved, fifo, host, doing, rd, wr, shown, unread>>

Devs == 1 .. 2
Serial == 1
Canonical == {"ICANON", "ECHO", "ECHOE"}
NoWrite == [text |-> <<>>, left |-> <<>>, devs |-> <<>>, back |-> "idle"]

\* termio_devinit and termio_setup
TermInit ==
  /\ dev = [d \in Devs |-> [rx |-> <<>>, tx |-> <<>>, txoff |-> FALSE, rxoff |-> FALSE]]
  /\ lflags = Canonical /\ saved = <<>>
  /\ fifo = <<>> /\ host = [stopped |-> FALSE, left |-> Slack]
  /\ doing = "idle" /\ rd = [n |-> 0, i |-> 0] /\ wr = NoWrite
  /\ shown = [d \in Devs |-> <<>>] /\ unread = <<>>

\* TISTRIP, TICRNL and TONLCR
Strip(c) == IF c = "m-a" THEN "a" ELSE c
InMap(c) == IF c = "cr" THEN "nl" ELSE c
OutMap(c) == IF c = "nl" THEN <<"cr", "nl">> ELSE <<c>>
OutText(s) ==
  LET out[i \in 0 .. Len(s)] == IF i = 0 THEN <<>> ELSE out[i - 1] \o OutMap(s[i])
  IN  out[Len(s)]

-----------------------------------------------------------------------------
(* The host.                                                               *)

IsData(c) == Strip(c) \notin {"xon", "xoff"}

\* The host sends whether anybody looks at the UART or not.  A byte that finds
\* the UART's buffer full is lost there: an overrun, which nothing in the code
\* looks for.
HostSend ==
  /\ host.stopped => host.left > 0
  /\ \E k \in Keys :
       IF Len(fifo) < Fifo
       THEN /\ fifo' = Append(fifo, k)
            /\ unread' = IF IsData(k) THEN Append(unread, Strip(k)) ELSE unread
       ELSE UNCHANGED <<fifo, unread>>
  /\ host' = IF host.stopped THEN [host EXCEPT !.left = @ - 1] ELSE host
  /\ UNCHANGED <<dev, lflags, saved, doing, rd, wr, shown>>

\* What termio_tx_noq tells it.
Told(stop) == [stopped |-> stop, left |-> Slack]

-----------------------------------------------------------------------------
(* scandevs.                                                               *)

\* One byte read from the device, in the receiving loop of termio_scandev:
\* flow control of our output, then the queue, then that of our input.
NearlyFull(n) == n < 1
NearFull(n) == n < Trigger
Take(s, k) ==
  LET c     == Strip(k)
      space == QLimit - Len(s.d.rx)
      stop  == NearFull(space) /\ ~s.d.rxoff
  IN  CASE s.full -> [s EXCEPT !.rest = Append(@, k)]
        [] ~s.full /\ ~IsData(k) -> [s EXCEPT !.d.txoff = (c = "xoff")]
        [] ~s.full /\ IsData(k) /\ space > 0 ->
             [s EXCEPT !.d.txoff = FALSE, !.d.rx = Append(@, c), !.d.rxoff = @ \/ stop,
                       !.h = IF stop THEN Told(TRUE) ELSE @]
        [] OTHER -> [s EXCEPT !.d.txoff = FALSE, !.full = TRUE]

\* Everything that has arrived is taken in, up to a byte that finds the queue
\* full and is dropped; then the queues for output are emptied as far as the
\* devices are ready: the UART takes k bytes, the screen takes everything.
\* The screen receives nothing.
scandevs(k) ==
  LET f[i \in 0 .. Len(fifo)] ==
        IF i = 0 THEN [d |-> dev[Serial], h |-> host, full |-> FALSE, rest |-> <<>>]
        ELSE Take(f[i - 1], fifo[i])
      s    == f[Len(fifo)]
      d(i) == IF i = Serial THEN s.d ELSE dev[i]
      n(i) == IF d(i).txoff THEN 0 ELSE IF i = Serial THEN k ELSE Len(d(i).tx)
  IN  [dev   |-> [i \in Devs |-> [d(i) EXCEPT !.tx = SubSeq(@, n(i) + 1, Len(@))]],
       shown |-> [i \in Devs |-> shown[i] \o SubSeq(d(i).tx, 1, n(i))],
       fifo  |-> s.rest, host |-> s.h]

Scanned(s) == dev' = s.dev /\ shown' = s.shown /\ fifo' = s.fifo /\ host' = s.host

-----------------------------------------------------------------------------
(* termio_write: first the device of the descriptor, then the other one.   *)

WriteTo(ds, text, back) ==
  /\ doing' = "write" /\ shown' = [d \in Devs |-> <<>>]
  /\ wr' = [text |-> text, left |-> text, devs |-> ds, back |-> back]

Write(ds, text) ==
  /\ doing = "idle" /\ WriteTo(ds, text, "idle")
  /\ UNCHANGED <<dev, lflags, saved, fifo, host, rd, unread>>

\* How much of a text goes into the queue: a byte at a time as long as there
\* is room for two.
FitsOne(n) == n >= 1
Fits(n) == n >= 2
Queued(s, room) ==
  LET ok == {i \in 0 .. Len(s) : \A j \in 1 .. i : Fits(room - Len(OutText(SubSeq(s, 1, j - 1))))}
  IN  CHOOSE i \in ok : \A j \in ok : j <= i

\* One turn of the loop.  Qput into a full queue waits for ever.
FillTx ==
  LET d == wr.devs[1]
      k == Queued(wr.left, QLimit - Len(dev[d].tx))
      q == dev[d].tx \o OutText(SubSeq(wr.left, 1, k))
  IN  /\ doing = "write" /\ wr.left # <<>> /\ dev[d].tx = <<>>
      /\ dev' = [dev EXCEPT ![d].tx = q]
      /\ wr' = [wr EXCEPT !.left = SubSeq(@, k + 1, Len(@))]
      /\ doing' = IF Len(q) > QLimit THEN "hung" ELSE doing
      /\ UNCHANGED <<lflags, saved, fifo, host, rd, shown, unread>>

Drain(k) ==
  /\ doing = "write" /\ dev[wr.devs[1]].tx # <<>>
  /\ Scanned(scandevs(k))
  /\ UNCHANGED <<lflags, saved, doing, rd, wr, unread>>

\* The next device, and the return after the last.
NextDev ==
  LET more == Len(wr.devs) > 1
  IN  /\ doing = "write" /\ wr.left = <<>> /\ dev[wr.devs[1]].tx = <<>>
      /\ wr' = IF more THEN [wr EXCEPT !.devs = Tail(@), !.left = wr.text] ELSE NoWrite
      /\ doing' = IF more THEN doing ELSE wr.back
      /\ shown' = IF more THEN shown ELSE [d \in Devs |-> <<>>]
      /\ UNCHANGED <<dev, lflags, saved, fifo, host, rd, unread>>

-----------------------------------------------------------------------------
(* termio_read and termio_ioctl.                                           *)

Read(n) ==
  /\ doing = "idle" /\ doing' = "read" /\ rd' = [n |-> n, i |-> 0]
  /\ UNCHANGED <<dev, lflags, saved, fifo, host, wr, shown, unread>>

\* Nothing has come yet.
ReadScan ==
  LET s == scandevs(0)
  IN  /\ doing = "read" /\ dev[Serial].rx = <<>> /\ s.dev[Serial].rx = <<>>
      /\ Scanned(s)
      /\ UNCHANGED <<lflags, saved, doing, rd, wr, unread>>

\* A byte is taken from the queue; before that the host is told to go on if
\* there is room again.  Canonical input is echoed, may be erased, and ends
\* with the line.
ResumeEmpty(n) == n = 0
Resume(n) == n < QLimit + 1 - Trigger
EchoOf(c, erase) ==
  CASE erase /\ "ECHOE" \in lflags -> <<"bs", "sp", "bs">>
    [] erase /\ "ECHOE" \notin lflags /\ "ECHO" \in lflags -> <<"bs">>
    [] ~erase /\ "ECHO" \in lflags -> <<c>>
    [] OTHER -> <<>>
ReadByte ==
  LET s     == scandevs(0)
      d     == s.dev[Serial]
      go    == d.rxoff /\ Resume(Len(d.rx))
      c     == InMap(Head(d.rx))
      canon == "ICANON" \in lflags
      erase == canon /\ c = "bs"
      i     == CASE ~erase -> rd.i + 1
                 [] erase /\ rd.i > 0 -> rd.i - 1
                 [] OTHER -> 0
      echo  == IF canon /\ (erase => rd.i > 0) THEN EchoOf(c, erase) ELSE <<>>
      back  == IF i = rd.n \/ (canon /\ c \in {"nl", "intr"}) THEN "idle" ELSE "read"
  IN  /\ doing = "read" /\ d.rx # <<>>
      /\ dev' = [s.dev EXCEPT ![Serial].rx = Tail(@), ![Serial].rxoff = @ /\ ~go]
      /\ fifo' = s.fifo /\ host' = IF go THEN Told(FALSE) ELSE s.host
      /\ rd' = IF back = "idle" THEN [n |-> 0, i |-> 0] ELSE [rd EXCEPT !.i = i]
      /\ unread' = IF unread # <<>> /\ Head(unread) = Head(d.rx) THEN Tail(unread) ELSE Append(unread, Head(d.rx))
      /\ IF echo # <<>> THEN WriteTo(<<1, 2>>, echo, back)
         ELSE doing' = back /\ UNCHANGED <<wr, shown>>
      /\ UNCHANGED <<lflags, saved>>

\* termio_ioctl as the shell uses it: get_line turns canonical input off and
\* puts back what there was, the pager (TCSBREAK) turns it off for good, and
\* main_loop puts the default back.
Ioctl(new, old) ==
  /\ doing = "idle" /\ lflags' = new /\ saved' = old
  /\ UNCHANGED <<dev, fifo, host, doing, rd, wr, shown, unread>>

TCSNCANON == saved = <<>> /\ Ioctl(lflags \ Canonical, <<lflags>>)
TCSTERMIO == saved # <<>> /\ Ioctl(saved[1], <<>>)
TCSBREAK == saved = <<>> /\ Ioctl(lflags \ {"ICANON", "ECHO"}, <<>>)
MainLoop == saved = <<>> /\ Ioctl(Canonical, <<>>)

-----------------------------------------------------------------------------
Ready == 0 .. Len(dev[Serial].tx)
Writing == FillTx \/ (\E k \in Ready : Drain(k)) \/ NextDev
Reading == ReadScan \/ ReadByte
Reads == \E n \in ReadLen : Read(n)

TermNext ==
  \/ HostSend \/ Writing \/ Reading \/ Reads
  \/ \E ds \in {<<1, 2>>, <<2, 1>>}, t \in Writes : Write(ds, t)
  \/ TCSNCANON \/ TCSBREAK \/ TCSTERMIO \/ MainLoop

TermSpec == TermInit /\ [][TermNext]_termvars

\* The program runs and the UART gets ready again and again (fairness of Sending
\* and Reading), and whatever the program does it reads again: main_loop (strong
\* fairness of Reads).
Sending == FillTx \/ (\E k \in Ready : (k > 0 \/ Ready = {0}) /\ Drain(k)) \/ NextDev

-----------------------------------------------------------------------------
(* Properties.                                                             *)

\* The data among some bytes.
DataIn(q) ==
  LET d[i \in 0 .. Len(q)] ==
        IF i = 0 THEN <<>> ELSE IF IsData(q[i]) THEN Append(d[i - 1], Strip(q[i])) ELSE d[i - 1]
  IN  d[Len(q)]

\* No byte that the UART has taken is lost, repeated or overtaken on its way to
\* the reader, although nobody looks at the device while the program computes
\* and the UART itself may overrun: the queue has room for what is under way
\* when the host is told to stop, if the UART's buffer and the host's slack are
\* within TERMIO_RX_FC_TRIGGER, and scandevs never gets to drop a byte.
InputKept == unread = dev[Serial].rx \o DataIn(fifo)

\* Both devices are given the text, the whole text and nothing but the text,
\* in order, each line end as two bytes, and no Qput finds its queue full.
OutputRight ==
  /\ doing # "hung"
  /\ \A d \in Devs :
       LET left == IF \E i \in DOMAIN wr.devs : wr.devs[i] = d
                   THEN IF wr.devs[1] = d THEN wr.left ELSE wr.text ELSE <<>>
       IN  shown[d] \o dev[d].tx \o OutText(left) = OutText(wr.text)

\* A host that was told to stop is told to go on, unless it has stopped our
\* output in turn.
FlowResumes == host.stopped ~> (~host.stopped \/ dev[Serial].txoff)
=============================================================================
