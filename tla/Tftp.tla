-------------------------------- MODULE Tftp --------------------------------
(***************************************************************************)
(* The TFTP client behind remote files (fs/netio/tftp.c), a server and the *)
(* network between them.                                                   *)
(*                                                                         *)
(* tftprrq and tftpwrq send a packet and wait for the answer; both repeat  *)
(* the send whenever what comes back is not the answer.  There is no timer *)
(* in the client: a lost packet is repaired only by the server, which      *)
(* repeats its last packet.  The client's steps are its sendto and its     *)
(* recvfrom; everything between two of them is one step.                   *)
(*                                                                         *)
(* The server is external code.  It answers every request from a port of   *)
(* its own, ignores acknowledgements it does not wait for, and repeats a   *)
(* packet after a timeout.  No server sends a packet shorter than a header *)
(* or with another opcode, so the branch for those is not modelled.        *)
(***************************************************************************)
EXTENDS Integers, Sequences, FiniteSets, SequencesExt

CONSTANTS
  BlkSize,    \* TFTPBLKSIZE
  Word,       \* 2^16: block numbers on the wire are modulo Word
  Port,       \* the ports the server answers from
  FileLen,    \* how long the file on the server may be
  ReadLen,    \* the sizes of the reads
  WriteLen,   \* the sizes of the writes
  MaxWritten, \* bound on the bytes written in all
  SeekTo,     \* the positions lseek may ask for
  Cap,        \* bound on the packets in flight in one direction
  Faults,     \* what may go wrong: "lose", "dup", "swap", "fail", "nosend"
  MaxFaults   \* bound on how often

ASSUME TftpAssumption ==
  /\ BlkSize \in Nat \ {0} /\ Word \in Nat \ {0, 1} /\ Cap \in Nat \ {0}
  /\ FileLen \subseteq Nat /\ ReadLen \subseteq Nat \ {0}
  /\ WriteLen \subseteq Nat \ {0} /\ SeekTo \subseteq Nat
  /\ MaxWritten \in Nat /\ MaxFaults \in Nat /\ 69 \notin Port
  /\ Faults \subseteq {"lose", "dup", "swap", "fail", "nosend"}

VARIABLES
  \* struct tftp_file
  mode, block, start, end, foffs, eof, sin_port, buf,
  \* the call in progress
  pc,         \* "none", "open", "read", "write", "send", "recv", "closed"
  call,       \* who called tftprrq or tftpwrq: "open", "read", "write", "close"
  pkt,        \* the packet it sends
  nb,         \* what is left of the caller's buffer
  \* the network: packets in flight, oldest first
  c2s, s2c,
  \* the server
  file,       \* the file it reads from
  sess,       \* what each of its ports is doing
  faults,     \* faults so far, and whether one was worse than a loss or a repetition
  \* what happened, for the properties
  got,        \* the bytes reads delivered, with their offsets
  short,      \* the last read returned less than it was asked for
  written     \* the bytes writes accepted

client == <<mode, block, start, end, foffs, eof, sin_port, buf, pc, call, pkt, nb>>
net    == <<c2s, s2c>>
server == <<file, sess>>
seen   == <<got, short, written>>
vars   == <<client, net, server, faults, seen>>

\* Everything of the client but the call in progress.
tf == <<mode, block, start, end, foffs, eof, sin_port, buf>>

WellKnown == 69    \* the port of getservbyname("tftp", "udp")

Packet(o, p, b, d) == [op |-> o, port |-> p, blk |-> b % Word, data |-> d]
Room(ch) == Len(ch) < Cap
Least(x, y) == IF x < y THEN x ELSE y
Drop(s, n) == SubSeq(s, n + 1, Len(s))

Init ==
  /\ mode = "none" /\ block = 0 /\ start = 0 /\ end = 0 /\ foffs = 0
  /\ eof = FALSE /\ sin_port = WellKnown /\ buf = <<>>
  /\ pc = "none" /\ call = "open" /\ pkt = [op |-> "RRQ", blk |-> 0, data |-> <<>>] /\ nb = 0
  /\ c2s = <<>> /\ s2c = <<>>
  /\ \E n \in FileLen : file = [i \in 1 .. n |-> i]
  /\ sess = [p \in Port |-> [st |-> "free", blk |-> 0, store |-> <<>>]]
  /\ faults = [n |-> 0, hard |-> FALSE]
  /\ got = {} /\ short = FALSE /\ written = <<>>

-----------------------------------------------------------------------------
(* tftp_open, tftp_read, tftp_write, tftp_lseek, tftp_close                *)

\* Hand packet p to tftprrq or tftpwrq on behalf of c.
Request(c, o, b, d) ==
  /\ pc' = "send" /\ call' = c
  /\ pkt' = [op |-> o, blk |-> b, data |-> d]

Open ==
  /\ pc = "none"
  /\ \/ /\ mode' = "read" /\ block' = 1
        /\ Request("open", "RRQ", 0, <<>>)
     \/ /\ mode' = "write" /\ block' = 0
        /\ Request("open", "WRQ", 0, <<>>)
  /\ UNCHANGED <<start, end, foffs, eof, sin_port, buf, nb, net, server, faults, seen>>

Read(n) ==
  /\ pc = "open" /\ mode = "read"
  /\ pc' = "read" /\ nb' = n
  /\ UNCHANGED <<tf, call, pkt, net, server, faults, seen>>

\* The block to acknowledge, and the one to ask for, are fixed in this order.
AckTheNext == block + 1
AckBlock == block

\* One turn of the loop: copy what the buffer holds at foffs, and once the
\* buffer is used up ask for the next block, even when nothing is left to read.
ReadLoop ==
  /\ pc = "read" /\ nb > 0 /\ start < end
  /\ LET n == IF foffs >= start /\ foffs < end THEN Least(nb, end - foffs) ELSE 0
     IN  /\ got' = got \cup {<<foffs + i, buf[foffs - start + i]>> : i \in 1 .. n}
         /\ nb' = nb - n
         /\ foffs' = foffs + n
         /\ IF foffs + n >= end
            THEN Request("read", "ACK", AckBlock, <<>>) /\ block' = block + 1
            ELSE UNCHANGED <<pc, call, pkt, block>>
  /\ UNCHANGED <<mode, start, end, eof, sin_port, buf, net, server, faults, short, written>>

ReadReturn ==
  /\ pc = "read" /\ (nb = 0 \/ start >= end)
  /\ pc' = "open" /\ short' = (nb > 0) /\ nb' = 0
  /\ UNCHANGED <<tf, call, pkt, net, server, faults, got, written>>

Write(n) ==
  /\ pc = "open" /\ mode = "write" /\ Len(written) + n <= MaxWritten
  /\ pc' = "write" /\ nb' = n
  /\ UNCHANGED <<tf, call, pkt, net, server, faults, seen>>

\* n more bytes fill the buffer.
BufferFull(n) == end + n = BlkSize

\* One turn of the loop: fill the buffer, and send it once it is full.
WriteLoop ==
  /\ pc = "write" /\ nb > 0
  /\ LET n == Least(nb, BlkSize - end)
         new == [i \in 1 .. n |-> Len(written) + i]
     IN  /\ buf' = SubSeq(buf, 1, end) \o new
         /\ written' = written \o new
         /\ nb' = nb - n /\ foffs' = foffs + n /\ end' = end + n
         /\ IF BufferFull(n)
            THEN block' = block + 1 /\ Request("write", "DATA", block + 1, buf')
            ELSE UNCHANGED <<pc, call, pkt, block>>
  /\ UNCHANGED <<mode, start, eof, sin_port, net, server, faults, got, short>>

WriteReturn ==
  /\ pc = "write" /\ nb = 0
  /\ pc' = "open"
  /\ UNCHANGED <<tf, call, pkt, nb, net, server, faults, seen>>

LSeek(noff) ==
  /\ pc = "open" /\ mode = "read" /\ noff >= start
  /\ foffs' = noff
  /\ UNCHANGED <<mode, block, start, end, eof, sin_port, buf, pc, call, pkt, nb, net, server, faults, seen>>

\* What the buffer holds.
Remainder == SubSeq(buf, 1, end)

\* The last block goes out, an empty one when the buffer is empty.
CloseWrite ==
  /\ pc = "open" /\ mode = "write"
  /\ block' = block + 1
  /\ Request("close", "DATA", block + 1, Remainder)
  /\ UNCHANGED <<mode, start, end, foffs, eof, sin_port, buf, nb, net, server, faults, seen>>

\* The server is sent an error when something is left to read.
CloseRead ==
  /\ pc = "open" /\ mode = "read" /\ Room(c2s)
  /\ pc' = "closed"
  /\ IF foffs < end \/ ~eof
     THEN c2s' = Append(c2s, Packet("ERR", sin_port, 0, <<>>))
     ELSE UNCHANGED c2s
  /\ UNCHANGED <<tf, call, pkt, nb, s2c, server, faults, got, short, written>>

-----------------------------------------------------------------------------
(* tftprrq and tftpwrq                                                     *)

\* They return n to their caller.  tftp_read and tftp_write keep n in a
\* size_t: a negative n is not noticed there, it is just added to end.
Return(n) ==
  CASE call = "open"  -> /\ pc' = (IF n < 0 THEN "closed" ELSE "open")
                         /\ end' = (IF mode = "read" THEN end + n ELSE end)
                         /\ UNCHANGED start
    [] call = "read"  -> pc' = "read" /\ start' = end /\ end' = end + n
    [] call = "write" -> pc' = "write" /\ end' = 0 /\ UNCHANGED start
    [] call = "close" -> pc' = "closed" /\ UNCHANGED <<start, end>>

\* sendto, and return at once when this was the last acknowledgement.
Send ==
  /\ pc = "send" /\ Room(c2s)
  /\ c2s' = Append(c2s, Packet(pkt.op, sin_port, pkt.blk, pkt.data))
  /\ IF eof THEN Return(0)
            ELSE pc' = "recv" /\ UNCHANGED <<start, end>>
  /\ UNCHANGED <<mode, block, foffs, eof, sin_port, buf, call, pkt, nb, s2c, server, faults, got, short, written>>

\* Something goes wrong.
Fault(f) ==
  /\ f \in Faults /\ faults.n < MaxFaults
  /\ faults' = [n |-> faults.n + 1, hard |-> faults.hard \/ f \notin {"lose", "dup"}]

\* sendto fails.
SendFails ==
  /\ pc = "send" /\ Fault("nosend")
  /\ Return(-1)
  /\ UNCHANGED <<mode, block, foffs, eof, sin_port, buf, call, pkt, nb, net, server, seen>>

\* The port that counts as the server's when a packet comes from port p: the
\* first answer decides.
ServerPort(p) ==
  IF block <= (IF mode = "read" THEN 1 ELSE 0) THEN p ELSE sin_port

\* The op of the answer tftprrq or tftpwrq waits for.
Answer == IF mode = "read" THEN "DATA" ELSE "ACK"

\* recvfrom gives packet r; in tftprrq it overwrites tf->buf, whatever r is.
Receive(r) ==
  /\ pc = "recv" /\ s2c # <<>> /\ r = Head(s2c)
  /\ sin_port' = ServerPort(r.port)
  /\ buf' = (IF mode = "read" THEN r.data ELSE buf)
  /\ UNCHANGED <<mode, block, foffs, call, nb, server, faults, got, short, written>>

\* From somebody else: send again.
RecvStranger ==
  \E r \in ToSet(s2c) :
    /\ Receive(r)
    /\ ServerPort(r.port) # r.port
    /\ pc' = "send" /\ s2c' = Tail(s2c)
    /\ UNCHANGED <<start, end, eof, pkt, c2s>>

RecvErr ==
  \E r \in ToSet(s2c) :
    /\ Receive(r)
    /\ ServerPort(r.port) = r.port /\ r.op = "ERR"
    /\ Return(-1) /\ s2c' = Tail(s2c)
    /\ UNCHANGED <<eof, pkt, c2s>>

\* The expected block: the number on the wire is compared with tf->block,
\* which is not reduced modulo Word.
AnyBlock(r) == r.blk = block \/ (mode = "read" /\ r.blk < block)
LateAck(r) == r.blk = block \/ (mode = "write" /\ r.blk = block - 1)
Wanted(r) == r.blk = block

LastBlock(r) == Len(r.data) < BlkSize

\* An empty last block is acknowledged here and now.
RecvData ==
  \E r \in ToSet(s2c) :
    /\ Receive(r)
    /\ mode = "read" /\ r.op = "DATA" /\ ServerPort(r.port) = r.port /\ Wanted(r)
    /\ eof' = (eof \/ LastBlock(r))
    /\ IF r.data = <<>>
       THEN /\ Room(c2s)
            /\ c2s' = Append(c2s, Packet("ACK", ServerPort(r.port), r.blk, <<>>))
       ELSE UNCHANGED c2s
    /\ Return(Len(r.data)) /\ s2c' = Tail(s2c)
    /\ UNCHANGED pkt

RecvAck ==
  \E r \in ToSet(s2c) :
    /\ Receive(r)
    /\ mode = "write" /\ r.op = "ACK" /\ ServerPort(r.port) = r.port /\ Wanted(r)
    /\ Return(Len(pkt.data)) /\ s2c' = Tail(s2c)
    /\ UNCHANGED <<eof, pkt, c2s>>

\* netflush is to drop the packets that have arrived by now: k of them.  (In
\* this build sys_ioctl refuses its FIONREAD, see IoctlFindsOpen in FileDesc,
\* and only the packet just received is gone: k = 1.)
NetFlush(k) == s2c' = Drop(s2c, k)

\* Another block: flush, then send again for the previous block and fail for
\* any other.
RecvOther ==
  \E r \in ToSet(s2c) :
    /\ Receive(r)
    /\ r.op = Answer /\ ServerPort(r.port) = r.port /\ ~Wanted(r)
    /\ \E k \in 1 .. Len(s2c) : NetFlush(k)
    /\ IF r.blk = block - 1 THEN pc' = "send" /\ UNCHANGED <<start, end>>
                            ELSE Return(-1)
    /\ UNCHANGED <<eof, pkt, c2s>>

Client ==
  \/ Open \/ ReadLoop \/ ReadReturn \/ WriteLoop \/ WriteReturn
  \/ (\E n \in ReadLen : Read(n)) \/ (\E n \in WriteLen : Write(n))
  \/ (\E o \in SeekTo : LSeek(o)) \/ CloseWrite \/ CloseRead
  \/ Send \/ SendFails \/ RecvStranger \/ RecvErr \/ RecvData \/ RecvAck \/ RecvOther

-----------------------------------------------------------------------------
(* The server.                                                             *)

FileBlock(k) == SubSeq(file, (k - 1) * BlkSize + 1, Least(k * BlkSize, Len(file)))

\* The packet the server repeats on port p, in state s of that port.
Current(p, s) == IF s.st = "read"
                 THEN Packet("DATA", p, s.blk, FileBlock(s.blk))
                 ELSE Packet("ACK", p, s.blk, <<>>)

\* A packet that finds the channel full is lost; the server will repeat it.
Transmit(q) == s2c' = IF Room(s2c) THEN Append(s2c, q) ELSE s2c

Accept ==
  /\ c2s # <<>> /\ Head(c2s).port = WellKnown
  /\ \E p \in Port :
       /\ sess[p].st = "free" /\ \A q \in Port : q < p => sess[q].st # "free"
       /\ LET s == IF Head(c2s).op = "RRQ"
                   THEN [st |-> "read", blk |-> 1, store |-> <<>>]
                   ELSE [st |-> "write", blk |-> 0, store |-> <<>>]
          IN  /\ sess' = [sess EXCEPT ![p] = s]
              /\ Transmit(Current(p, s))
  /\ c2s' = Tail(c2s)
  /\ UNCHANGED <<client, file, faults, seen>>

\* What port p makes of packet q: its next state, if it cares.
Advance(s, q) ==
  CASE q.op = "ERR" -> [s EXCEPT !.st = "done"]
    [] q.op = "ACK" /\ s.st = "read" /\ q.blk = s.blk % Word ->
         IF Len(FileBlock(s.blk)) < BlkSize THEN [s EXCEPT !.st = "done"]
                                            ELSE [s EXCEPT !.blk = @ + 1]
    [] q.op = "DATA" /\ s.st = "write" /\ q.blk = (s.blk + 1) % Word ->
         [st |-> IF Len(q.data) < BlkSize THEN "kept" ELSE "write",
          blk |-> s.blk + 1, store |-> s.store \o q.data]
    [] OTHER -> s

Serve ==
  /\ c2s # <<>> /\ Head(c2s).port \in Port
  /\ LET p == Head(c2s).port
         q == Head(c2s)
         s == Advance(sess[p], q)
         again == q.op = "DATA" /\ s.st \in {"write", "kept"} /\ q.blk = s.blk % Word
     IN  /\ sess' = [sess EXCEPT ![p] = s]
         /\ IF s.st # "done" /\ (s # sess[p] \/ again)
            THEN Transmit(Current(p, s)) ELSE UNCHANGED s2c
  /\ c2s' = Tail(c2s)
  /\ UNCHANGED <<client, file, faults, seen>>

\* A further request finds every port busy.
Refuse ==
  /\ c2s # <<>> /\ Head(c2s).port = WellKnown
  /\ \A p \in Port : sess[p].st # "free"
  /\ c2s' = Tail(c2s)
  /\ UNCHANGED <<client, s2c, server, faults, seen>>

\* Once the last block is stored nothing is repeated but the answer to a
\* repeated block.
Timeout(p) ==
  /\ sess[p].st \in {"read", "write"} /\ Room(s2c)
  /\ s2c' = Append(s2c, Current(p, sess[p]))
  /\ UNCHANGED <<client, c2s, server, faults, seen>>

Server == Accept \/ Serve \/ Refuse \/ \E p \in Port : Timeout(p)

-----------------------------------------------------------------------------
(* What may go wrong.                                                      *)

Lose ==
  /\ Fault("lose")
  /\ \/ \E i \in DOMAIN s2c : s2c' = RemoveAt(s2c, i) /\ UNCHANGED c2s
     \/ \E i \in DOMAIN c2s : c2s' = RemoveAt(c2s, i) /\ UNCHANGED s2c
  /\ UNCHANGED <<client, server, seen>>

Duplicate ==
  /\ Fault("dup")
  /\ \/ \E i \in DOMAIN s2c : Room(s2c) /\ s2c' = InsertAt(s2c, i, s2c[i]) /\ UNCHANGED c2s
     \/ \E i \in DOMAIN c2s : Room(c2s) /\ c2s' = InsertAt(c2s, i, c2s[i]) /\ UNCHANGED s2c
  /\ UNCHANGED <<client, server, seen>>

Reorder ==
  /\ Fault("swap")
  /\ \E i \in 1 .. Len(s2c) - 1 :
       s2c' = [s2c EXCEPT ![i] = s2c[i + 1], ![i + 1] = s2c[i]]
  /\ UNCHANGED <<client, c2s, server, seen>>

\* The server gives up: disk full, file gone, shutdown.
ServerFails ==
  /\ Fault("fail")
  /\ \E p \in Port : /\ sess[p].st \in {"read", "write"}
                     /\ sess' = [sess EXCEPT ![p].st = "done"]
                     /\ Transmit(Packet("ERR", p, 0, <<>>))
  /\ UNCHANGED <<client, c2s, file, seen>>

Next == Client \/ Server \/ Lose \/ Duplicate \/ Reorder \/ ServerFails

Spec == Init /\ [][Next]_vars

\* The client runs, packets that are not lost arrive, and the server repeats
\* its packet as long as it is not answered.
FairSpec ==
  /\ Spec
  /\ WF_vars(Send \/ RecvStranger \/ RecvErr \/ RecvData \/ RecvAck \/ RecvOther)
  /\ WF_vars(ReadLoop \/ ReadReturn \/ WriteLoop \/ WriteReturn)
  /\ WF_vars(Accept \/ Serve \/ Refuse)
  /\ \A p \in Port : SF_vars(Timeout(p))
-----------------------------------------------------------------------------
(* Properties.                                                             *)

\* tftp_read never delivers a byte that is not the file's byte at that offset,
\* although every packet, wanted or not, overwrites the buffer it reads from;
\* and as long as packets are only lost or repeated, a read that returns less than it was
\* asked for has reached the end of the file, which is what a caller takes it
\* for.  (In a file whose bytes are in blocks 1 .. Word - 1: tf->block does not
\* wrap and the packet's number does, so a longer one breaks off.)
ReadsRight ==
  /\ \A x \in got : x[1] \in DOMAIN file /\ file[x[1]] = x[2]
  /\ (pc = "open" /\ mode = "read" /\ short /\ ~faults.hard /\ Len(file) <= BlkSize * (Word - 1)) =>
       foffs >= Len(file)

\* What a session of the server has stored is always a prefix of what was
\* written: no block is stored twice, out of order or with a hole before it.
\* As long as packets are only lost or repeated, once tftp_close has returned
\* the server has stored everything that tftp_write accepted, up to the last partial block.
\* (For files of fewer than Word blocks: tftp_write goes on after a block that was
\* not taken, and Word blocks later it sends one with the same number.)
StoresRight ==
  Len(written) < BlkSize * Word =>
    /\ \A p \in Port : IsPrefix(sess[p].store, written)
    /\ (pc = "closed" /\ mode = "write" /\ block > 0 /\ ~faults.hard) =>
         sess[sin_port].st = "kept" /\ sess[sin_port].store = written

\* A call that waits for a server that knows of it comes back, as long as
\* packets are only lost or repeated, even though the client has no timer and netflush may throw
\* away the very packet it waits for.  (Except tftp_close: nobody repeats the
\* last acknowledgement.)
CallsReturn ==
  (/\ pc \in {"send", "recv"} /\ call # "close"
   /\ \E p \in Port : sess[p].st # "free")
  ~> (pc \in {"open", "read", "write", "closed"} \/ faults.hard)
=============================================================================
