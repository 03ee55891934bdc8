------------------------------- MODULE Stmmac -------------------------------
(***************************************************************************)
(* The Ethernet driver (drivers/net/stmmac) and the end of ether_output    *)
(* that feeds it.                                                          *)
(*                                                                         *)
(* The driver and the DMA engine share two rings of descriptors.  A        *)
(* descriptor belongs to the engine while its own bit is set.  The driver  *)
(* fills transmit descriptors at cur_dma_tx and takes them back at         *)
(* dirty_dma_tx; both are unsigned counters that wrap.  It takes receive   *)
(* descriptors at cur_dma_rx and gives each straight back.                 *)
(*                                                                         *)
(* The driver runs in one thread: stmmac_xmit with interrupts blocked,     *)
(* stmmac_handler when softpoll calls it.  The engine runs beside it, so   *)
(* each turn of the driver's loops is a step.  The engine is external: it  *)
(* goes round each ring, stops at a descriptor it does not own, and keeps  *)
(* its place when transmission is stopped and started again.  It reports   *)
(* what it did in a status register, whose bits the driver clears by       *)
(* writing them; NIS is a bit of its own that every normal event sets.     *)
(*                                                                         *)
(* Frames are told apart by numbers that are used again once a frame is    *)
(* gone, so traffic never ends.  due and rdue record what the rings hold.  *)
(***************************************************************************)
EXTENDS Integers, Sequences, Functions

CONSTANTS
  TxRing,   \* tx_ring_sz
  RxRing,   \* rx_ring_sz
  Wrap,     \* 2^32: the unsigned counters wrap here
  QMax      \* if_sndq.ifq_maxlen

ASSUME StmmacAssumption ==
  /\ TxRing \in Nat \ {0} /\ RxRing \in Nat \ {0} /\ Wrap \in Nat
  /\ \E k \in 2 .. Wrap : Wrap = k * TxRing
  /\ \E k \in 2 .. Wrap : Wrap = k * RxRing
  /\ QMax \in Nat \ {0}

VARIABLES
  up,       \* IFF_UP: the interface is open
  pc,       \* what the driver is doing
  ifq,      \* if_sndq
  tx,       \* the transmit ring: own, and buf_tx (0 for NULL)
  cur,      \* cur_dma_tx
  dirty,    \* dirty_dma_tx
  rx,       \* the receive ring: own, and the frame in buf_rx (0 for none)
  rcur,     \* cur_dma_rx
  hw,       \* the engine: its place in both rings, running, and busy
  status,   \* DMA_STATUS
  seen,     \* the status dwmac_dma_interrupt has read, until it clears it
  due,      \* the frames taken for sending and not sent yet, in order
  rdue,     \* the frames that arrived and were not taken yet, in order
  erred,    \* the engine has reported a hard error since the interface is up
  missed    \* clearing the status has parted an event from its summary bit

driver == <<pc, ifq, cur, dirty, rcur, seen>>
history == <<due, rdue, erred, missed>>
vars == <<driver, history, up, tx, rx, hw, status>>

TxSlot == 0 .. TxRing - 1
RxSlot == 0 .. RxRing - 1

\* Numbers enough for the frames on their way at one time, and the next one.
TxFrame == 1 .. TxRing + 1
RxFrame == 1 .. RxRing + 1
NewTx == CHOOSE f \in TxFrame : f \notin {tx[i].buf : i \in TxSlot} \cup Range(due)
NewRx == CHOOSE f \in RxFrame : f \notin {rx[i].buf : i \in RxSlot}

Init ==
  /\ up = FALSE /\ pc = "idle" /\ ifq = <<>>
  /\ tx = [i \in TxSlot |-> [own |-> FALSE, buf |-> 0]]
  /\ rx = [i \in RxSlot |-> [own |-> FALSE, buf |-> 0]]
  /\ cur = 0 /\ dirty = 0 /\ rcur = 0
  /\ hw = [tx |-> 0, rx |-> 0, run |-> FALSE, txbusy |-> FALSE, rxbusy |-> FALSE]
  /\ status = {} /\ seen = {}
  /\ due = <<>> /\ rdue = <<>> /\ erred = FALSE /\ missed = FALSE

\* A history without the frame f.
Without(s, f) ==
  LET i == CHOOSE i \in DOMAIN s : s[i] = f
  IN  IF f \in Range(s) THEN SubSeq(s, 1, i - 1) \o SubSeq(s, i + 1, Len(s)) ELSE s

-----------------------------------------------------------------------------
(* Sending.                                                                *)

\* stmmac_tx_avail
AvailOneMore == (dirty + TxRing - cur) % Wrap
Avail == (dirty + TxRing - cur - 1) % Wrap

\* ether_output with its header in place: queue the frame and start the
\* driver.  A full queue would lose the frame and flush the queue.
Output ==
  /\ up /\ pc = "idle"
  /\ pc' = "xmit"
  /\ IF Len(ifq) >= QMax THEN UNCHANGED <<ifq, due>>
                         ELSE ifq' = Append(ifq, NewTx) /\ due' = Append(due, NewTx)
  /\ UNCHANGED <<up, tx, cur, dirty, rx, rcur, hw, status, seen, rdue, erred, missed>>

\* A frame put into the ring.
Fill ==
  /\ tx' = [tx EXCEPT ![cur % TxRing] = [own |-> TRUE, buf |-> Head(ifq)]]
  /\ cur' = (cur + 1) % Wrap

\* One turn of stmmac_xmit.  Without a descriptor or without memory (mem) it
\* returns with the frame it took, and nobody frees that.
Xmit(mem) ==
  /\ pc = "xmit" /\ ifq # <<>>
  /\ ifq' = Tail(ifq)
  /\ IF Avail = 0 \/ ~mem
     THEN /\ pc' = "idle"
          /\ due' = Without(due, Head(ifq))
          /\ UNCHANGED <<tx, cur>>
     ELSE Fill /\ UNCHANGED <<pc, due>>
  /\ UNCHANGED <<up, dirty, rx, rcur, hw, status, seen, rdue, erred, missed>>

XmitDone ==
  /\ pc = "xmit" /\ ifq = <<>>
  /\ pc' = "idle"
  /\ UNCHANGED <<up, ifq, tx, cur, dirty, rx, rcur, hw, status, seen, history>>

-----------------------------------------------------------------------------
(* The poll: stmmac_handler.                                               *)

\* stmmac_has_work
OnlySent == dirty # cur
HasWork == dirty # cur \/ ~rx[rcur % RxRing].own

\* stmmac_tx_err: the engine is stopped, every buffer freed, every descriptor
\* taken back, the counters cleared, and the engine started where it stopped.
TxErr ==
  /\ tx' = [i \in TxSlot |-> [own |-> FALSE, buf |-> 0]]
  /\ due' = <<>>
  /\ cur' = 0 /\ dirty' = 0
  /\ hw' = [hw EXCEPT !.run = TRUE, !.txbusy = FALSE]
  /\ pc' = "idle"

Normal == {"RI", "TI", "ERI"}
Bits == Normal \cup {"NIS", "TPS"}

\* handle_tx_rx: an early receive counts as a frame received.
Handle(st) == "NIS" \in st /\ st \cap Normal # {}

\* An event without its summary, or the summary without an event.
Torn(st) == ("NIS" \in st) # (st \cap Normal # {})

\* dwmac_dma_interrupt reads the status ...
PollRead ==
  /\ up /\ pc = "idle" /\ status # {}
  /\ pc' = "irq" /\ seen' = status
  /\ UNCHANGED <<up, ifq, tx, cur, dirty, rx, rcur, hw, status, history>>

\* ... and clears what it read, though the engine may have reported more in
\* the meantime; when frames were sent or received an error that came with
\* them is forgotten.
Poll ==
  /\ pc = "irq"
  /\ status' = status \ seen /\ seen' = {}
  /\ missed' = (missed \/ (~Handle(seen) /\ Torn(status')))
  /\ IF ~Handle(seen) /\ "TPS" \in seen THEN TxErr
     ELSE /\ pc' = (IF Handle(seen) /\ HasWork THEN "tx" ELSE "idle")
          /\ UNCHANGED <<tx, cur, dirty, hw, due>>
  /\ UNCHANGED <<up, ifq, rx, rcur, rdue, erred>>

\* One turn of stmmac_tx.
Reclaim ==
  /\ pc = "tx"
  /\ IF dirty # cur /\ ~tx[dirty % TxRing].own
     THEN /\ tx' = [tx EXCEPT ![dirty % TxRing] = [own |-> FALSE, buf |-> 0]]
          /\ dirty' = (dirty + 1) % Wrap
          /\ UNCHANGED pc
     ELSE pc' = "rx" /\ UNCHANGED <<tx, dirty>>
  /\ UNCHANGED <<up, ifq, cur, rx, rcur, hw, status, seen, history>>

\* One turn of stmmac_rx: the frame, if it is good and there is an mbuf, is
\* copied and handed up; in any case the descriptor goes back to the engine.
Receive ==
  /\ pc = "rx" /\ ~rx[rcur % RxRing].own
  /\ rdue' = Tail(rdue)
  /\ rx' = [rx EXCEPT ![rcur % RxRing] = [own |-> TRUE, buf |-> 0]]
  /\ rcur' = (rcur + 1) % Wrap
  /\ UNCHANGED <<up, pc, ifq, tx, cur, dirty, hw, status, seen, due, erred, missed>>

ReceiveDone ==
  /\ pc = "rx" /\ rx[rcur % RxRing].own
  /\ pc' = "idle"
  /\ UNCHANGED <<up, ifq, tx, cur, dirty, rx, rcur, hw, status, seen, history>>

-----------------------------------------------------------------------------
(* Opening and closing the interface.                                      *)

\* stmmac_open: the rings are set up and the engine is reset and started.  An
\* open that fails leaves the interface down.
Open ==
  /\ ~up /\ pc = "idle"
  /\ up' = TRUE
  /\ tx' = [i \in TxSlot |-> [own |-> FALSE, buf |-> 0]]
  /\ rx' = [i \in RxSlot |-> [own |-> TRUE, buf |-> 0]]
  /\ cur' = 0 /\ dirty' = 0 /\ rcur' = 0
  /\ hw' = [tx |-> 0, rx |-> 0, run |-> TRUE, txbusy |-> FALSE, rxbusy |-> FALSE]
  /\ status' = {} /\ erred' = FALSE /\ missed' = FALSE
  /\ UNCHANGED <<pc, ifq, seen, due, rdue>>

\* stmmac_remove: the engine is told to stop and everything is freed.  The
\* engine may be in the middle of a frame.
Remove ==
  /\ up /\ pc = "idle"
  /\ up' = FALSE
  /\ hw' = [hw EXCEPT !.run = FALSE]
  /\ due' = <<>> /\ rdue' = <<>>
  /\ tx' = [i \in TxSlot |-> [own |-> FALSE, buf |-> 0]]
  /\ rx' = [i \in RxSlot |-> [own |-> FALSE, buf |-> 0]]
  /\ UNCHANGED <<driver, status, erred, missed>>

-----------------------------------------------------------------------------
(* The DMA engine.                                                         *)

engine == <<driver, up>>

TxStart ==
  /\ up /\ hw.run /\ ~hw.txbusy /\ tx[hw.tx].own
  /\ hw' = [hw EXCEPT !.txbusy = TRUE]
  /\ UNCHANGED <<engine, tx, rx, status, history>>

TxEnd ==
  /\ up /\ hw.txbusy
  /\ due' = Without(due, tx[hw.tx].buf)
  /\ tx' = [tx EXCEPT ![hw.tx].own = FALSE]
  /\ hw' = [hw EXCEPT !.txbusy = FALSE, !.tx = (@ + 1) % TxRing]
  /\ status' = status \cup {"TI", "NIS"}
  /\ UNCHANGED <<engine, rx, rdue, erred, missed>>

\* An underflow or a bus error: transmission stops and is reported (here by
\* TPS, which stands for the error and its own summary bit).
TxFault ==
  /\ up /\ hw.txbusy
  /\ hw' = [hw EXCEPT !.txbusy = FALSE, !.run = FALSE]
  /\ status' = status \cup {"TPS"}
  /\ erred' = TRUE
  /\ UNCHANGED <<engine, tx, rx, due, rdue, missed>>

RxStart ==
  /\ up /\ ~hw.rxbusy /\ rx[hw.rx].own
  /\ hw' = [hw EXCEPT !.rxbusy = TRUE]
  /\ UNCHANGED <<engine, tx, rx, status, history>>

\* ERI: the first buffer of a frame is full.
RxEarly ==
  /\ up /\ hw.rxbusy
  /\ status' = status \cup {"ERI", "NIS"}
  /\ UNCHANGED <<engine, tx, rx, hw, history>>

\* RI takes the place of ERI.
RxEnd ==
  /\ up /\ hw.rxbusy
  /\ rdue' = Append(rdue, NewRx)
  /\ rx' = [rx EXCEPT ![hw.rx] = [own |-> FALSE, buf |-> NewRx]]
  /\ hw' = [hw EXCEPT !.rxbusy = FALSE, !.rx = (@ + 1) % RxRing]
  /\ status' = (status \ {"ERI"}) \cup {"RI", "NIS"}
  /\ UNCHANGED <<engine, tx, due, erred, missed>>

-----------------------------------------------------------------------------
Driver ==
  \/ \E mem \in BOOLEAN : Xmit(mem)
  \/ XmitDone
  \/ PollRead
  \/ Poll
  \/ Reclaim
  \/ Receive
  \/ ReceiveDone

Next ==
  \/ Output \/ Driver
  \/ Open \/ Remove
  \/ TxStart \/ TxEnd \/ TxFault
  \/ RxStart \/ RxEarly \/ RxEnd

Spec == Init /\ [][Next]_vars

\* The driver's loops run on.  Every return to level 0, so also the one after
\* each frame sent, polls (splx), hence the strong fairness of PollRead; the loop
\* of stmmac_rx ends if frames do not for ever arrive faster than they are
\* copied.  The engine works through what it owns.
FairSpec ==
  /\ Spec
  /\ WF_vars(\E mem \in BOOLEAN : Xmit(mem)) /\ WF_vars(XmitDone)
  /\ SF_vars(PollRead) /\ WF_vars(Poll) /\ WF_vars(Reclaim) /\ WF_vars(Receive) /\ WF_vars(ReceiveDone)
  /\ []<>(pc # "rx")
  /\ WF_vars(TxStart) /\ WF_vars(TxEnd)

-----------------------------------------------------------------------------
(* Properties.                                                             *)

\* The types of the state; the counters stay within their width.
TypeOK ==
  /\ up \in BOOLEAN /\ pc \in {"idle", "xmit", "irq", "tx", "rx"}
  /\ ifq \in Seq(TxFrame) /\ Len(ifq) <= QMax
  /\ tx \in [TxSlot -> [own : BOOLEAN, buf : {0} \cup TxFrame]]
  /\ rx \in [RxSlot -> [own : BOOLEAN, buf : {0} \cup RxFrame]]
  /\ cur \in 0 .. Wrap - 1 /\ dirty \in 0 .. Wrap - 1 /\ rcur \in 0 .. Wrap - 1
  /\ hw \in [tx : TxSlot, rx : RxSlot, run : BOOLEAN, txbusy : BOOLEAN, rxbusy : BOOLEAN]
  /\ status \subseteq Bits /\ seen \subseteq Bits

\* The slots in use, oldest first.
InUse == [k \in 1 .. (cur - dirty) % Wrap |-> (dirty + k - 1) % TxRing]

\* The slots between dirty and cur hold a buffer and the others none, one slot
\* stays free, and the engine owns only slots with a buffer.
RingExact ==
  up => /\ (cur - dirty) % Wrap < TxRing
        /\ \A i \in TxSlot : /\ (tx[i].buf # 0) <=> i \in Range(InUse)
                             /\ tx[i].own => tx[i].buf # 0
        /\ hw.txbusy => tx[hw.tx].own

\* The engine is done with the first e slots in use, stands at the next and
\* owns all from there on; those and what is queued is what is due.  (After a
\* hard error the engine and the driver disagree about where to go on.)
TxExact ==
  (up /\ ~erred) =>
    \E e \in 0 .. Len(InUse) :
      /\ \A k \in DOMAIN InUse : tx[InUse[k]].own <=> k > e
      /\ e < Len(InUse) => hw.tx = InUse[e + 1]
      /\ due = [k \in 1 .. Len(InUse) - e |-> tx[InUse[e + k]].buf] \o ifq

\* The slots of the receive ring as stmmac_rx will come to them.
Ahead == [k \in 1 .. RxRing |-> (rcur + k - 1) % RxRing]

\* The first a of them hold what arrived, in order, and the engine has the
\* others.
RxExact ==
  up => \E a \in 0 .. RxRing :
          /\ \A k \in 1 .. RxRing : rx[Ahead[k]].own <=> k > a
          /\ rdue = [k \in 1 .. a |-> rx[Ahead[k]].buf]

\* The rings, their counters and the engine's position agree, across the wrap
\* of the counters: no buffer is dropped or overwritten, frames go out once and
\* in order, and those that arrive are handed up once and in order
\* (stmmac_xmit, stmmac_tx, stmmac_rx beside the DMA engine).
RingsExact == TypeOK /\ RingExact /\ TxExact /\ RxExact

RxTaken == \A i \in RxSlot : (up /\ ~rx[i].own) ~> (rx[i].own \/ missed \/ ~up)

TxFreed == \A i \in TxSlot : (up /\ tx[i].buf # 0) ~> (tx[i].buf = 0 \/ missed \/ erred \/ ~up)

\* A frame that has arrived is taken off the ring unless the interface goes down,
\* and without a hard error every buffer in the ring is freed in the end, also
\* when events come between the reading of their bits and the clearing
\* (dwmac_dma_interrupt) - until a poll that does nothing leaves a bit and the
\* summary apart, so that the next one does nothing either (missed).
FramesMove == RxTaken /\ TxFreed

\* What the comment in dwmac_dma_interrupt (dwmac_lib.c:110) hopes for: with an
\* early receive taken for a completed one no reception is lost, although the
\* bits that report its completion are at times.
NoneForgotten == \A i \in RxSlot : (up /\ ~rx[i].own) ~> (rx[i].own \/ ~up)
=============================================================================
