--------------------------- MODULE SockBufProofs ---------------------------
(***************************************************************************)
(* For every set of mbufs, every set of packets and every size: the        *)
(* receive buffer never reaches a freed mbuf, never loses one, and never   *)
(* stays locked.  IInv (SockBuf) is the inductive invariant; Shape is the  *)
(* part of it that speaks of pointers, and every action gets a lemma that  *)
(* says it preserves Shape.                                                *)
(***************************************************************************)
EXTENDS SockBuf, Sums, SequenceTheorems

Shape == PtrOK /\ NoDangling /\ NoLeak /\ NoSharing /\ Control


\* The initial state: nothing is allocated.
LEMMA InitInv == Init => IInv
  BY SockBufAssumption DEF Init, IInv, TypeOK, PtrOK, DataOK, NoDangling, NoLeak,
     NoSharing, Control, AtEnd, Live, Root, Points, IsHead, Ptr, Windows, Flag,
     Offset

\* Steps that move only the program counters: the buffer keeps its shape.
LEMMA QuietInv ==
  ASSUME IInv, UNCHANGED <<alloc, m_next, m_nextpkt, sb_mb, invars, m, nextpkt, from>>,
         ipc = "none", pc # "drop", pc' # "drop",
         ~AtEnd, ~AtEnd',
         pc' \in {"idle", "sblock", "locked"} => m = NULL /\ from = NULL,
         pc' = "uiomove" => m # NULL,
         pc' \in {"loop", "uiomove"} /\ "PEEK" \notin flags' => sb_mb = m,
         pc' = "release" /\ "PEEK" \notin flags' => m = NULL,
         ("LOCK" \in sb_flags') <=> (pc' \notin {"idle", "sblock"})
  PROVE  Shape'
<1>1. \A x : /\ Live(x)' <=> Live(x)
             /\ Root(x)' <=> Root(x)
  BY DEF Live, Root, invars
<1>2. \A p, x : Points(p, x)' <=> Points(p, x)
  BY <1>1 DEF Points
<1>3. PtrOK'
  BY DEF IInv, TypeOK, PtrOK, invars
<1>4. NoDangling'
  BY <1>1 DEF IInv, NoDangling, invars
<1>5. NoLeak'
  BY <1>1, <1>2 DEF IInv, NoLeak
<1>6. NoSharing'
  BY <1>1, <1>2 DEF IInv, NoSharing
<1>7. Control'
  BY DEF IInv, Control, invars
<1> QED BY <1>3, <1>4, <1>5, <1>6, <1>7 DEF Shape

LEMMA QuietSteps ==
  ASSUME IInv,
         \/ \E n \in 0 .. MaxRead, f \in SUBSET Flag : Recv(n, f)
         \/ SbLock \/ GiveUp \/ Wait \/ LoopEnter \/ CopyPart
  PROVE  Shape'
<1> DEFINE QuietEff == UNCHANGED <<alloc, m_next, m_nextpkt, sb_mb, invars, m, nextpkt, from>>
<1>a. ipc = "none" => inew = NULL /\ ipos = NULL
  BY DEF IInv, Control
<1>b. /\ pc \in {"idle", "sblock", "locked"} => m = NULL /\ from = NULL
      /\ pc \in {"uiomove", "drop"} => m # NULL
      /\ pc \in {"loop", "uiomove"} /\ "PEEK" \notin flags => sb_mb = m
      /\ ("LOCK" \in sb_flags) <=> (pc \notin {"idle", "sblock"})
  BY DEF IInv, Control
<1>1. ASSUME NEW n \in 0 .. MaxRead, NEW f \in SUBSET Flag, Recv(n, f)
      PROVE  Shape'
  <2>1. /\ QuietEff /\ ipc = "none" /\ pc = "idle" /\ pc' = "sblock"
        /\ sb_flags' = sb_flags
    BY <1>1 DEF Recv, mbufvars, sbvars
  <2> QED BY <2>1, <1>b, QuietInv DEF AtEnd
<1>2. ASSUME SbLock PROVE Shape'
  <2>1. /\ QuietEff /\ ipc = "none" /\ pc = "sblock" /\ pc' = "locked"
        /\ "LOCK" \in sb_flags'
    BY <1>2 DEF SbLock, mbufvars
  <2> QED BY <2>1, <1>b, QuietInv DEF AtEnd
<1>3. ASSUME GiveUp PROVE Shape'
  <2>1. /\ QuietEff /\ ipc = "none" /\ pc = "locked" /\ pc' = "release"
        /\ sb_flags' = sb_flags
    BY <1>3 DEF GiveUp, mbufvars, sbvars
  <2> QED BY <2>1, <1>b, QuietInv DEF AtEnd
<1>4. ASSUME Wait PROVE Shape'
  <2>1. /\ QuietEff /\ ipc = "none" /\ pc = "locked" /\ pc' = "sblock"
        /\ "LOCK" \notin sb_flags'
    BY <1>4 DEF Wait, mbufvars, Unlocked
  <2> QED BY <2>1, <1>b, QuietInv DEF AtEnd
<1>5. ASSUME LoopEnter PROVE Shape'
  <2>1. /\ QuietEff /\ ipc = "none" /\ pc = "loop" /\ pc' = "uiomove" /\ m # NULL
        /\ sb_flags' = sb_flags /\ flags' = flags
    BY <1>5 DEF LoopEnter, mbufvars, sbvars
  <2> QED BY <2>1, <1>b, QuietInv DEF AtEnd
<1>6. ASSUME CopyPart PROVE Shape'
  <2>1. /\ QuietEff /\ ipc = "none" /\ pc = "uiomove" /\ pc' = "loop"
        /\ sb_flags' = sb_flags /\ flags' = flags
    BY <1>6 DEF CopyPart
  <2> QED BY <2>1, <1>b, QuietInv DEF AtEnd
<1> QED BY <1>1, <1>2, <1>3, <1>4, <1>5, <1>6

\* The walk of sbappendaddr steps from the head of a record to the next head.
LEMMA WalkOnInv == ASSUME IInv, WalkOn PROVE Shape'
<1>1. /\ UNCHANGED <<alloc, m_next, m_nextpkt, sb_mb, inew, m, nextpkt, from,
                     pc, flags, sb_flags, ipc>>
      /\ ipc = "walk" /\ ipos' = m_nextpkt[ipos] /\ ipos' # NULL
  BY DEF WalkOn, mbufvars, sbvars, rcvvars
<1>2. /\ ipos \in alloc /\ ipos \in Mbuf
      /\ Live(ipos) /\ m_nextpkt[ipos] \in alloc
  <2>1. ipos \in alloc
    BY <1>1 DEF IInv, Control, NoDangling
  <2>2. ipos \in Mbuf
    BY <2>1 DEF IInv, TypeOK, PtrOK
  <2>3. pc # "drop"
    BY <1>1 DEF IInv, Control, Windows
  <2>4. ipos # from
    BY <1>1, <2>1 DEF IInv, Control, IsHead, NoSharing, Points, Root
  <2>5. Live(ipos)
    BY <2>3, <2>4 DEF Live
  <2> QED BY <1>1, <2>1, <2>2, <2>5 DEF IInv, NoDangling
<1>3. \A x : (Live(x)' <=> Live(x)) /\ (Root(x)' <=> Root(x))
  BY <1>1 DEF Live, Root, AtEnd
<1>4. \A p, x : Points(p, x)' <=> Points(p, x)
  BY <1>1, <1>3 DEF Points
<1>5. PtrOK'
  BY <1>1, <1>2 DEF IInv, TypeOK, PtrOK, Ptr
<1>6. NoDangling'
  BY <1>1, <1>2, <1>3 DEF IInv, NoDangling, AtEnd
<1>7. NoLeak'
  BY <1>1, <1>3, <1>4 DEF IInv, NoLeak
<1>8. NoSharing'
  BY <1>1, <1>3, <1>4 DEF IInv, NoSharing
<1>9. Control'
  <2>1. IsHead(ipos)'
    BY <1>1, <1>2, <1>3 DEF IsHead
  <2> QED BY <1>1, <2>1 DEF IInv, Control, AtEnd
<1> QED BY <1>5, <1>6, <1>7, <1>8, <1>9 DEF Shape

\* sbappendaddr hooks the new record behind the last one.
LEMMA HookRecordInv == ASSUME IInv, HookRecord PROVE Shape'
<1>1. /\ UNCHANGED <<alloc, m_next, sb_mb, m, nextpkt, from, pc, flags>>
      /\ ipc = "walk" /\ m_nextpkt[ipos] = NULL
      /\ m_nextpkt' = [m_nextpkt EXCEPT ![ipos] = inew]
      /\ ipc' = "none" /\ inew' = NULL /\ ipos' = NULL
      /\ ("LOCK" \in sb_flags') <=> ("LOCK" \in sb_flags)
  BY DEF HookRecord, rcvvars
<1>2. /\ pc \in Windows /\ inew # NULL /\ ipos # NULL /\ inew # sb_mb
      /\ inew # from /\ IsHead(ipos) /\ m_nextpkt[inew] = NULL
  BY <1>1 DEF IInv, Control
<1>3. ipos \in alloc /\ inew \in alloc /\ alloc \subseteq Mbuf
  BY <1>2 DEF IInv, TypeOK, PtrOK, NoDangling
<1>4. pc # "drop" /\ ~AtEnd /\ ~AtEnd'
  BY <1>1, <1>2 DEF Windows, AtEnd
<1>5. ipos # from /\ Live(ipos)
  BY <1>2, <1>3, <1>4 DEF IInv, Control, IsHead, NoSharing, Points, Root, Live
<1>6. ipos # inew
  BY <1>2, <1>3, <1>4 DEF IInv, Control, IsHead, NoSharing, Points, Root, Live
<1>7. /\ m_nextpkt \in [Mbuf -> Ptr]
      /\ m_nextpkt'[ipos] = inew
      /\ \A x \in Mbuf : x # ipos => m_nextpkt'[x] = m_nextpkt[x]
  BY <1>1, <1>3 DEF IInv, TypeOK, PtrOK
<1>8. \A x : Live(x)' <=> Live(x)
  BY <1>1 DEF Live
<1>9. \A x : Root(x)' <=> (Root(x) /\ x # inew) \/ x = NULL
  BY <1>1, <1>2, <1>4 DEF Root, IInv, NoSharing
<1>10. \A p \in alloc : \A x : Points(p, x)' <=>
          IF p = ipos THEN m_next[p] = x \/ x = inew ELSE Points(p, x)
  BY <1>1, <1>3, <1>5, <1>7, <1>8 DEF Points
<1>11. NULL \notin alloc
  BY <1>3, SockBufAssumption
<1>12. PtrOK'
  BY <1>1, <1>3 DEF IInv, TypeOK, PtrOK, Ptr
<1>13. NoDangling'
  BY <1>1, <1>3, <1>4, <1>7, <1>8 DEF IInv, NoDangling
<1>14. NoLeak'
  BY <1>1, <1>3, <1>5, <1>9, <1>10, <1>11 DEF IInv, NoLeak, Points
<1>15. \A p \in alloc : m_next[p] # inew /\ (Live(p) => m_nextpkt[p] # inew)
  BY <1>3 DEF IInv, NoSharing, Points, Root
<1>16. \A p \in alloc : m_next[p] # ipos
  BY <1>2, <1>3 DEF IInv, NoSharing, IsHead, Points, Root
<1>17. NoSharing'
  <2>1. \A p, x \in alloc : Points(p, x)' => ~Root(x)'
    BY <1>1, <1>3, <1>9, <1>10, <1>11 DEF IInv, NoSharing, Points
  <2>2. \A p, x \in alloc : m_next[p] = x /\ Live(x) => m_nextpkt'[x] = NULL
    BY <1>3, <1>7, <1>16 DEF IInv, NoSharing
  <2>3. \A p, q \in alloc : Live(q) /\ m_next[p] = m_nextpkt'[q] => m_next[p] = NULL
    BY <1>3, <1>7, <1>15 DEF IInv, NoSharing
  <2>4. \A p, q \in alloc : Live(p) /\ Live(q) /\ m_nextpkt'[p] = m_nextpkt'[q]
                           => p = q \/ m_nextpkt'[p] = NULL
    BY <1>3, <1>7, <1>15 DEF IInv, NoSharing
  <2> QED BY <1>1, <1>8, <2>1, <2>2, <2>3, <2>4 DEF IInv, NoSharing
<1>18. Control'
  BY <1>1, <1>4, <1>3 DEF IInv, Control
<1> QED BY <1>12, <1>13, <1>14, <1>17, <1>18 DEF Shape

\* The address mbuf leaves the buffer: its link moves to the first data mbuf,
\* or stays in nextpkt alone when there is none.
LEMMA TakeAddrInv == ASSUME IInv, TakeAddr PROVE Shape'
<1> DEFINE a == sb_mb
           d == m_next[a]
<1>1. /\ ipc = "none" /\ pc = "locked" /\ pc' = "loop" /\ a # NULL
      /\ nextpkt' = m_nextpkt[a] /\ sb_mb' = d /\ from' = a /\ m' = d
      /\ m_next' = [m_next EXCEPT ![a] = NULL]
      /\ m_nextpkt' = [x \in Mbuf |-> IF x = d THEN m_nextpkt[a] ELSE m_nextpkt[x]]
      /\ UNCHANGED <<alloc, sb_flags, ipc, inew, ipos, flags>>
      /\ "PEEK" \notin flags
  BY DEF TakeAddr, MustWait, invars, PassLink
<1>2. /\ inew = NULL /\ ipos = NULL /\ m = NULL /\ from = NULL
      /\ "LOCK" \in sb_flags
  BY <1>1 DEF IInv, Control
<1>3. /\ a \in alloc /\ alloc \subseteq Mbuf /\ NULL \notin alloc
      /\ d \in alloc \cup {NULL}
      /\ m_next \in [Mbuf -> Ptr] /\ m_nextpkt \in [Mbuf -> Ptr]
  BY <1>1, SockBufAssumption DEF IInv, TypeOK, PtrOK, NoDangling
<1>4. \A x \in alloc : Live(x)
  BY <1>1, <1>2, <1>3 DEF Live
<1>5. m_nextpkt[a] \in alloc \cup {NULL}
  BY <1>3, <1>4 DEF IInv, NoDangling
<1>6. d # a /\ m_nextpkt[a] # a
  BY <1>3, <1>4 DEF IInv, NoSharing, Points, Root
<1>7. d # NULL => m_nextpkt[d] = NULL /\ m_nextpkt[a] # d
  BY <1>3, <1>4 DEF IInv, NoSharing
<1>8. AtEnd' <=> d = NULL
  BY <1>1 DEF AtEnd
<1>9. \A x : Live(x)' <=> x # a
  BY <1>1 DEF Live
<1>10. \A x \in alloc : /\ m_next'[x] = IF x = a THEN NULL ELSE m_next[x]
                        /\ m_nextpkt'[x] = IF x = d THEN m_nextpkt[a] ELSE m_nextpkt[x]
  BY <1>1, <1>3
<1>11. \A x \in alloc : Root(x)' <=> (x = d \/ x = a \/ (d = NULL /\ x = m_nextpkt[a]))
  BY <1>1, <1>2, <1>3, <1>8 DEF Root
<1>12. \A p, x \in alloc : Points(p, x)' <=>
          (p # a /\ (m_next[p] = x \/ (p = d /\ m_nextpkt[a] = x)
                               \/ (p # d /\ m_nextpkt[p] = x)))
  BY <1>3, <1>9, <1>10 DEF Points
<1>13. \A x \in alloc : Root(x) <=> x = a
  BY <1>1, <1>2, <1>3 DEF Root, AtEnd
<1>14. \A p, x \in alloc : Points(p, x) <=> (m_next[p] = x \/ m_nextpkt[p] = x)
  BY <1>4 DEF Points
<1>15. PtrOK'
  BY <1>1, <1>3, <1>5 DEF IInv, TypeOK, PtrOK, Ptr
<1>16. NoDangling'
  BY <1>1, <1>2, <1>3, <1>4, <1>5, <1>9, <1>10 DEF IInv, NoDangling
<1>17. NoLeak'
  BY <1>1, <1>3, <1>5, <1>6, <1>7, <1>11, <1>12, <1>13, <1>14 DEF IInv, NoLeak
<1>18. NoSharing'
  <2>1. \A p, x \in alloc : Points(p, x)' => ~Root(x)'
    BY <1>3, <1>4, <1>6, <1>7, <1>11, <1>12, <1>13, <1>14 DEF IInv, NoSharing
  <2> QED BY <1>1, <1>3, <1>4, <1>6, <1>7, <1>9, <1>10, <2>1 DEF IInv, NoSharing
<1>19. Control'
  BY <1>1, <1>2, <1>3, <1>6, <1>10 DEF IInv, Control
<1> QED BY <1>15, <1>16, <1>17, <1>18, <1>19 DEF Shape

\* Peeking takes the address to a fresh mbuf, if there is one.
LEMMA PeekAddrInv == ASSUME IInv, PeekAddr PROVE Shape'
<1>1. /\ ipc = "none" /\ pc = "locked" /\ pc' = "loop" /\ sb_mb # NULL
      /\ nextpkt' = m_nextpkt[sb_mb] /\ m' = m_next[sb_mb]
      /\ UNCHANGED <<sb_mb, sb_flags, ipc, inew, ipos, flags>>
      /\ "PEEK" \in flags
  BY DEF PeekAddr, MustWait, invars, sbvars
<1>2. /\ inew = NULL /\ ipos = NULL /\ m = NULL /\ from = NULL
      /\ "LOCK" \in sb_flags
  BY <1>1 DEF IInv, Control
<1>3. /\ sb_mb \in alloc /\ alloc \subseteq Mbuf /\ NULL \notin alloc
      /\ m_next \in [Mbuf -> Ptr] /\ m_nextpkt \in [Mbuf -> Ptr]
      /\ m_next[sb_mb] \in alloc \cup {NULL}
  BY <1>1, SockBufAssumption DEF IInv, TypeOK, PtrOK, NoDangling
<1>4. \A x \in alloc : Live(x)
  BY <1>1, <1>2, <1>3 DEF Live
<1>5. m_nextpkt[sb_mb] \in alloc \cup {NULL}
  BY <1>3, <1>4 DEF IInv, NoDangling
<1>6. ~AtEnd' /\ ~AtEnd
  BY <1>1 DEF AtEnd
<1>7. \A x \in alloc : Root(x) <=> x = sb_mb
  BY <1>1, <1>2, <1>3 DEF Root, AtEnd
<1>8. \A p, x \in alloc : Points(p, x) <=> (m_next[p] = x \/ m_nextpkt[p] = x)
  BY <1>4 DEF Points
<1>9. CASE Supply(1) = {}
  <2>1. from' = NULL /\ UNCHANGED <<alloc, m_next, m_nextpkt>>
    BY <1>9 DEF PeekAddr, mbufvars
  <2>2. \A x \in alloc : Live(x)'
    BY <1>1, <1>3, <2>1 DEF Live
  <2>3. \A x \in alloc : Root(x)' <=> x = sb_mb
    BY <1>1, <1>2, <1>3, <1>6, <2>1 DEF Root
  <2>4. \A p, x \in alloc : Points(p, x)' <=> Points(p, x)
    BY <2>1, <2>2, <1>4 DEF Points
  <2>5. PtrOK'
    BY <1>1, <1>2, <1>3, <1>5, <2>1 DEF IInv, TypeOK, PtrOK, Ptr
  <2>6. NoDangling'
    BY <1>1, <1>2, <1>3, <1>4, <1>6, <2>1, <2>2 DEF IInv, NoDangling
  <2>7. NoLeak'
    BY <2>1, <2>3, <2>4, <1>7 DEF IInv, NoLeak
  <2>8. NoSharing'
    BY <2>1, <2>2, <2>3, <2>4, <1>4, <1>7 DEF IInv, NoSharing
  <2>9. Control'
    BY <1>1, <1>2, <1>3, <2>1 DEF IInv, Control
  <2> QED BY <2>5, <2>6, <2>7, <2>8, <2>9 DEF Shape
<1>10. CASE Supply(1) # {}
  <2> DEFINE c == Fresh(1)[1]
  <2>0. c \in Mbuf \ alloc
    BY <1>10 DEF Fresh, Supply, Injection
  <2>1. /\ from' = c /\ alloc' = alloc \cup {c}
        /\ m_next' = [m_next EXCEPT ![c] = NULL]
        /\ m_nextpkt' = [m_nextpkt EXCEPT ![c] = NULL]
    BY <1>10 DEF PeekAddr
  <2> HIDE DEF c
  <2>2. \A x : Live(x)' <=> x # c
    BY <1>1, <2>1 DEF Live
  <2>3. /\ m_next'[c] = NULL /\ m_nextpkt'[c] = NULL
        /\ \A x \in alloc : m_next'[x] = m_next[x] /\ m_nextpkt'[x] = m_nextpkt[x]
    BY <1>3, <2>0, <2>1
  <2>4. c # sb_mb /\ c # NULL /\ c # m_next[sb_mb]
    BY <1>3, <2>0, SockBufAssumption
  <2>5. \A x \in alloc' : Root(x)' <=> (x = sb_mb \/ x = c)
    BY <1>1, <1>2, <1>3, <1>6, <2>0, <2>1, SockBufAssumption DEF Root
  <2>6. \A p \in alloc : m_next[p] # c /\ m_nextpkt[p] # c
    BY <1>3, <1>4, <2>0, SockBufAssumption DEF IInv, NoDangling
  <2>7. \A p, x \in alloc' : Points(p, x)' <=>
           (p # c /\ x # c /\ (m_next[p] = x \/ m_nextpkt[p] = x))
    BY <1>3, <2>0, <2>1, <2>2, <2>3, <2>4, <2>6, SockBufAssumption DEF Points
  <2>8. PtrOK'
    BY <1>1, <1>2, <1>3, <1>5, <2>0, <2>1 DEF IInv, TypeOK, PtrOK, Ptr
  <2>9. NoDangling'
    BY <1>1, <1>2, <1>3, <1>4, <1>6, <2>1, <2>2, <2>3 DEF IInv, NoDangling
  <2>10. NoLeak'
    BY <1>3, <1>7, <1>8, <2>0, <2>1, <2>5, <2>7 DEF IInv, NoLeak
  <2>11. NoSharing'
    <3>1. \A p, x \in alloc' : Points(p, x)' => ~Root(x)'
      BY <1>7, <1>8, <2>0, <2>1, <2>5, <2>7 DEF IInv, NoSharing
    <3> QED BY <1>3, <1>4, <2>0, <2>1, <2>2, <2>3, <2>6, <3>1 DEF IInv, NoSharing
  <2>12. Control'
    BY <1>1, <1>2, <1>3, <1>6, <2>1, <2>3, <2>4 DEF IInv, Control
  <2> QED BY <2>8, <2>9, <2>10, <2>11, <2>12 DEF Shape
<1> QED BY <1>9, <1>10

\* A used-up mbuf is freed: its link moves to its successor, or stays in
\* nextpkt alone at the end of the record.
LEMMA CopyWholeInv == ASSUME IInv, CopyWhole PROVE Shape'
<1> DEFINE n == m_next[m]
<1>1. /\ ipc = "none" /\ pc = "uiomove" /\ pc' = "loop" /\ "PEEK" \notin flags
      /\ nextpkt' = m_nextpkt[m] /\ sb_mb' = n /\ m' = n
      /\ alloc' = alloc \ {m}
      /\ m_next' = [m_next EXCEPT ![m] = NULL]
      /\ m_nextpkt' = [[x \in Mbuf |-> IF x = n THEN m_nextpkt[m] ELSE m_nextpkt[x]]
                         EXCEPT ![m] = NULL]
      /\ UNCHANGED <<sb_flags, ipc, inew, ipos, flags, from>>
  BY DEF CopyWhole, NextHead, invars, MFree, PassLink
<1>2. /\ inew = NULL /\ ipos = NULL /\ m # NULL /\ sb_mb = m
      /\ "LOCK" \in sb_flags /\ from # m
      /\ from # NULL => m_next[from] = NULL
  BY <1>1 DEF IInv, Control
<1>3. /\ m \in alloc /\ alloc \subseteq Mbuf /\ NULL \notin alloc
      /\ from \in alloc \cup {NULL}
      /\ n \in alloc \cup {NULL}
      /\ m_next \in [Mbuf -> Ptr] /\ m_nextpkt \in [Mbuf -> Ptr]
  BY <1>2, SockBufAssumption DEF IInv, TypeOK, PtrOK, NoDangling
<1>4. \A x : (Live(x) <=> x # from) /\ (Live(x)' <=> x # from)
  BY <1>1 DEF Live
<1>5. m_nextpkt[m] \in alloc \cup {NULL}
  BY <1>2, <1>3, <1>4 DEF IInv, NoDangling
<1>6. \A p, x \in alloc : Points(p, x) <=> (m_next[p] = x \/ (p # from /\ m_nextpkt[p] = x))
  BY <1>4 DEF Points
<1>7. \A x \in alloc : Root(x) <=> (x = m \/ x = from)
  BY <1>1, <1>2, <1>3 DEF Root, AtEnd
<1>8. n # m /\ m_nextpkt[m] # m /\ (from # NULL => n # from /\ m_nextpkt[m] # from)
  BY <1>2, <1>3, <1>6, <1>7 DEF IInv, NoSharing
<1>9. n # NULL => m_nextpkt[n] = NULL /\ m_nextpkt[m] # n
  BY <1>2, <1>3, <1>4, <1>8 DEF IInv, NoSharing
<1>10. AtEnd' <=> n = NULL
  BY <1>1 DEF AtEnd
<1>11. \A x \in alloc' : /\ m_next'[x] = m_next[x]
                         /\ m_nextpkt'[x] = IF x = n THEN m_nextpkt[m] ELSE m_nextpkt[x]
  BY <1>1, <1>3
<1>12. \A x \in alloc' : Root(x)' <=> (x = n \/ x = from \/ (n = NULL /\ x = m_nextpkt[m]))
  BY <1>1, <1>2, <1>3, <1>10 DEF Root
<1>13. \A p, x \in alloc' : Points(p, x)' <=>
          (m_next[p] = x \/ (p # from /\ p = n /\ m_nextpkt[m] = x)
                         \/ (p # from /\ p # n /\ m_nextpkt[p] = x))
  BY <1>4, <1>11 DEF Points
<1>14. \A p \in alloc : m_next[p] # m /\ (p # from => m_nextpkt[p] # m)
  BY <1>3, <1>6, <1>7 DEF IInv, NoSharing
<1>15. PtrOK'
  BY <1>1, <1>3, <1>5 DEF IInv, TypeOK, PtrOK, Ptr
<1>16. NoDangling'
  BY <1>1, <1>2, <1>3, <1>4, <1>5, <1>8, <1>11, <1>14 DEF IInv, NoDangling
<1>17. NoLeak'
  BY <1>1, <1>3, <1>5, <1>6, <1>7, <1>8, <1>9, <1>12, <1>13 DEF IInv, NoLeak
<1>18. NoSharing'
  <2>1. \A p, x \in alloc' : Points(p, x)' => ~Root(x)'
    BY <1>1, <1>2, <1>3, <1>4, <1>6, <1>7, <1>8, <1>9, <1>12, <1>13 DEF IInv, NoSharing
  <2> QED BY <1>1, <1>2, <1>3, <1>4, <1>8, <1>9, <1>11, <2>1 DEF IInv, NoSharing
<1>19. Control'
  BY <1>1, <1>2, <1>3, <1>8, <1>11 DEF IInv, Control
<1> QED BY <1>15, <1>16, <1>17, <1>18, <1>19 DEF Shape

\* Peeking moves m along the record and nothing else.
LEMMA CopyPeekInv == ASSUME IInv, CopyPeek PROVE Shape'
<1>1. /\ ipc = "none" /\ pc = "uiomove" /\ pc' = "loop" /\ "PEEK" \in flags
      /\ UNCHANGED <<alloc, m_next, m_nextpkt, sb_mb, sb_flags, ipc, inew, ipos,
                     flags, nextpkt, from>>
      /\ m' = m_next[m] \/ m' = m
  BY DEF CopyPeek, mbufvars, sbvars, invars
<1>2. m \in alloc /\ m \in Mbuf /\ m_next[m] \in alloc \cup {NULL}
  <2>1. m # NULL
    BY <1>1 DEF IInv, Control
  <2> QED BY <2>1 DEF IInv, NoDangling, TypeOK, PtrOK
<1>3. ~AtEnd /\ ~AtEnd'
  BY <1>1 DEF AtEnd
<1>4. \A x : (Live(x)' <=> Live(x)) /\ (Root(x)' <=> Root(x))
  BY <1>1, <1>3 DEF Live, Root
<1>5. \A p, x : Points(p, x)' <=> Points(p, x)
  BY <1>1, <1>4 DEF Points
<1>6. PtrOK'
  BY <1>1, <1>2 DEF IInv, TypeOK, PtrOK, Ptr
<1>7. NoDangling'
  BY <1>1, <1>2, <1>3, <1>4 DEF IInv, NoDangling
<1>8. NoLeak'
  BY <1>1, <1>4, <1>5 DEF IInv, NoLeak
<1>9. NoSharing'
  BY <1>1, <1>4, <1>5 DEF IInv, NoSharing
<1>10. Control'
  BY <1>1, <1>3 DEF IInv, Control
<1> QED BY <1>6, <1>7, <1>8, <1>9, <1>10 DEF Shape

\* The end of the loop: nothing to do after a peek, the next record becomes
\* the first, or sbdroprecord unhooks the rest of this one.
LEMMA LoopExitInv == ASSUME IInv, LoopExit PROVE Shape'
<1>1. /\ ipc = "none" /\ pc = "loop"
      /\ UNCHANGED <<alloc, m_next, m_nextpkt, sb_flags, ipc, inew, ipos, flags,
                     m, nextpkt, from>>
      /\ pc' \in {"drop", "release"}
  BY DEF LoopExit, mbufvars, invars
<1>2. /\ inew = NULL /\ ipos = NULL /\ "LOCK" \in sb_flags
      /\ "PEEK" \notin flags => sb_mb = m
  BY <1>1 DEF IInv, Control
<1>3. /\ alloc \subseteq Mbuf /\ NULL \notin alloc
      /\ m_next \in [Mbuf -> Ptr] /\ m_nextpkt \in [Mbuf -> Ptr]
      /\ ~AtEnd'
  BY <1>1, SockBufAssumption DEF IInv, TypeOK, PtrOK, AtEnd
<1>4. \A x : Live(x) <=> x # from
  BY <1>1 DEF Live
<1>5. CASE "PEEK" \in flags
  <2>1. pc' = "release" /\ sb_mb' = sb_mb
    BY <1>5 DEF LoopExit
  <2>2. \A x : (Live(x)' <=> Live(x)) /\ (Root(x)' <=> Root(x))
    BY <1>1, <1>5, <2>1 DEF Live, Root, AtEnd
  <2>3. \A p, x : Points(p, x)' <=> Points(p, x)
    BY <1>1, <2>2 DEF Points
  <2>4. PtrOK' /\ NoDangling' /\ NoLeak'
    BY <1>1, <1>3, <2>1, <2>2, <2>3 DEF IInv, TypeOK, PtrOK, NoDangling, NoLeak
  <2>5. NoSharing'
    BY <1>1, <2>2, <2>3 DEF IInv, NoSharing
  <2>6. Control'
    BY <1>1, <1>2, <1>3, <1>5, <2>1 DEF IInv, Control
  <2> QED BY <2>4, <2>5, <2>6 DEF Shape
<1>6. CASE "PEEK" \notin flags /\ m = NULL
  <2>1. pc' = "release" /\ sb_mb' = nextpkt /\ AtEnd
    BY <1>1, <1>6 DEF LoopExit, AtEnd
  <2>2. \A x : Live(x)' <=> Live(x)
    BY <1>1, <2>1 DEF Live
  <2>3. \A x \in alloc : Root(x)' <=> Root(x)
    BY <1>1, <1>2, <1>3, <1>6, <2>1 DEF Root
  <2>4. \A p, x : Points(p, x)' <=> Points(p, x)
    BY <1>1, <2>2 DEF Points
  <2>5. PtrOK' /\ NoDangling' /\ NoLeak'
    BY <1>1, <1>3, <2>1, <2>2, <2>3, <2>4 DEF IInv, TypeOK, PtrOK, NoDangling, NoLeak
  <2>6. NoSharing'
    BY <1>1, <2>2, <2>3, <2>4 DEF IInv, NoSharing
  <2>7. Control'
    BY <1>1, <1>2, <1>3, <1>6, <2>1 DEF IInv, Control
  <2> QED BY <2>5, <2>6, <2>7 DEF Shape
<1>7. CASE "PEEK" \notin flags /\ m # NULL
  <2>1. pc' = "drop" /\ sb_mb' = m_nextpkt[m] /\ sb_mb = m
    BY <1>1, <1>2, <1>7 DEF LoopExit
  <2>2. m \in alloc /\ m # from /\ m_nextpkt[m] \in alloc \cup {NULL}
    <3>1. m \in alloc /\ m # from
      BY <1>7, <2>1 DEF IInv, NoDangling, Control
    <3> QED BY <1>4, <3>1 DEF IInv, NoDangling
  <2>3. \A x : Live(x)' <=> x # from /\ x # m
    BY <1>1, <2>1 DEF Live
  <2>4. \A x \in alloc : /\ Root(x) <=> (x = m \/ x = from)
                         /\ Root(x)' <=> (x = m \/ x = from \/ x = m_nextpkt[m])
    BY <1>1, <1>2, <1>3, <1>7, <2>1 DEF Root, AtEnd
  <2>5. \A p, x \in alloc :
          /\ Points(p, x) <=> (m_next[p] = x \/ (p # from /\ m_nextpkt[p] = x))
          /\ Points(p, x)' <=> (m_next[p] = x \/ (p # from /\ p # m /\ m_nextpkt[p] = x))
    BY <1>1, <1>4, <2>3 DEF Points
  <2>6. m_nextpkt[m] # m /\ (from # NULL => m_nextpkt[m] # from)
    BY <2>2, <2>4, <2>5 DEF IInv, NoSharing, NoDangling
  <2>7. PtrOK'
    BY <1>1, <1>3, <2>1, <2>2 DEF IInv, TypeOK, PtrOK, Ptr
  <2>8. NoDangling'
    BY <1>1, <1>3, <1>4, <2>1, <2>2, <2>3 DEF IInv, NoDangling
  <2>9. NoLeak'
    BY <1>1, <2>2, <2>4, <2>5 DEF IInv, NoLeak
  <2>10. NoSharing'
    <3>1. \A p, x \in alloc : Points(p, x)' => ~Root(x)'
      BY <1>3, <1>4, <2>2, <2>4, <2>5 DEF IInv, NoSharing
    <3> QED BY <1>1, <1>4, <2>3, <3>1 DEF IInv, NoSharing
  <2>11. Control'
    BY <1>1, <1>2, <1>3, <1>7, <2>1, <2>2, <2>6 DEF IInv, Control
  <2> QED BY <2>7, <2>8, <2>9, <2>10, <2>11 DEF Shape
<1> QED BY <1>5, <1>6, <1>7

\* sbdroprecord frees the head of the unhooked record.
LEMMA DropMbufInv == ASSUME IInv, DropMbuf PROVE Shape'
<1> DEFINE n == m_next[m]
<1>1. /\ ipc = "none" /\ pc = "drop" /\ m' = n
      /\ alloc' = alloc \ {m}
      /\ m_next' = [m_next EXCEPT ![m] = NULL]
      /\ m_nextpkt' = [m_nextpkt EXCEPT ![m] = NULL]
      /\ pc' = IF n = NULL THEN "release" ELSE "drop"
      /\ UNCHANGED <<sb_mb, sb_flags, ipc, inew, ipos, flags, nextpkt, from>>
  BY DEF DropMbuf, invars, MFree
<1>2. /\ inew = NULL /\ ipos = NULL /\ m # NULL /\ sb_mb # m
      /\ "LOCK" \in sb_flags /\ from # m /\ "PEEK" \notin flags
      /\ from # NULL => m_next[from] = NULL
  BY <1>1 DEF IInv, Control
<1>3. /\ m \in alloc /\ alloc \subseteq Mbuf /\ NULL \notin alloc
      /\ from \in alloc \cup {NULL} /\ sb_mb \in alloc \cup {NULL}
      /\ n \in alloc \cup {NULL}
      /\ m_next \in [Mbuf -> Ptr] /\ m_nextpkt \in [Mbuf -> Ptr]
  BY <1>2, SockBufAssumption DEF IInv, TypeOK, PtrOK, NoDangling
<1>4. /\ ~AtEnd /\ ~AtEnd'
      /\ \A x \in alloc : Live(x) <=> x # from /\ x # m
      /\ \A x \in alloc' : Live(x)' <=> x # from /\ x # n
  BY <1>1, <1>3 DEF Live, AtEnd
<1>5. \A p, x \in alloc : Points(p, x) <=>
         (m_next[p] = x \/ (p # from /\ p # m /\ m_nextpkt[p] = x))
  BY <1>4 DEF Points
<1>6. \A x \in alloc : Root(x) <=> (x = m \/ x = from \/ x = sb_mb)
  BY <1>1, <1>2, <1>3, <1>4 DEF Root
<1>7. n # m /\ (n # NULL => n # from /\ n # sb_mb)
  BY <1>3, <1>5, <1>6 DEF IInv, NoSharing
<1>8. n # NULL => m_nextpkt[n] = NULL
  BY <1>3, <1>4, <1>7 DEF IInv, NoSharing
<1>9. \A p \in alloc : /\ m_next[p] # m
                       /\ p # from /\ p # m => m_nextpkt[p] # m
  BY <1>3, <1>5, <1>6 DEF IInv, NoSharing
<1>10. \A x \in alloc' : m_next'[x] = m_next[x] /\ m_nextpkt'[x] = m_nextpkt[x]
  BY <1>1, <1>3
<1>11. \A x \in alloc' : Root(x)' <=> (x = n \/ x = from \/ x = sb_mb)
  BY <1>1, <1>2, <1>3, <1>4 DEF Root
<1>12. \A p, x \in alloc' : Points(p, x)' <=>
          (m_next[p] = x \/ (p # from /\ m_nextpkt[p] = x))
  BY <1>1, <1>3, <1>4, <1>8, <1>10 DEF Points
<1>13. PtrOK'
  BY <1>1, <1>3 DEF IInv, TypeOK, PtrOK, Ptr
<1>14. NoDangling'
  BY <1>1, <1>2, <1>3, <1>4, <1>7, <1>9, <1>10 DEF IInv, NoDangling
<1>15. NoLeak'
  BY <1>1, <1>5, <1>6, <1>11, <1>12 DEF IInv, NoLeak
<1>16. NoSharing'
  <2>1. \A p, x \in alloc' : Points(p, x)' => ~Root(x)'
    BY <1>1, <1>3, <1>4, <1>5, <1>6, <1>11, <1>12 DEF IInv, NoSharing
  <2> QED BY <1>1, <1>4, <1>8, <1>10, <2>1 DEF IInv, NoSharing
<1>17. Control'
  BY <1>1, <1>2, <1>3, <1>4, <1>7, <1>10 DEF IInv, Control
<1> QED BY <1>13, <1>14, <1>15, <1>16, <1>17 DEF Shape

\* recvit frees the address and the call returns.
LEMMA ReleaseInv == ASSUME IInv, Release PROVE Shape'
<1>1. /\ ipc = "none" /\ pc = "release" /\ pc' = "idle"
      /\ from' = NULL /\ m' = NULL /\ nextpkt' = NULL /\ flags' = {}
      /\ "LOCK" \notin sb_flags'
      /\ UNCHANGED <<sb_mb, ipc, inew, ipos>>
  BY DEF Release, invars, Unlocked
<1>2. inew = NULL /\ ipos = NULL
      /\ (from # NULL => m_next[from] = NULL /\ from # sb_mb)
  BY <1>1 DEF IInv, Control
<1>3. /\ alloc \subseteq Mbuf /\ NULL \notin alloc
      /\ from \in alloc \cup {NULL} /\ sb_mb \in alloc \cup {NULL}
      /\ m_next \in [Mbuf -> Ptr] /\ m_nextpkt \in [Mbuf -> Ptr]
  BY SockBufAssumption DEF IInv, TypeOK, PtrOK, NoDangling
<1>4. /\ alloc' = alloc \ {from}
      /\ m_next' \in [Mbuf -> Ptr] /\ m_nextpkt' \in [Mbuf -> Ptr]
      /\ \A x \in alloc' : m_next'[x] = m_next[x] /\ m_nextpkt'[x] = m_nextpkt[x]
  BY <1>3 DEF Release, mbufvars, Ptr, MFree
<1>5. /\ ~AtEnd /\ ~AtEnd'
      /\ \A x \in alloc : Live(x) <=> x # from
      /\ \A x \in alloc' : Live(x)'
  BY <1>1, <1>3, <1>4 DEF Live, AtEnd
<1>6. \A p, x \in alloc : Points(p, x) <=>
         (m_next[p] = x \/ (p # from /\ m_nextpkt[p] = x))
  BY <1>5 DEF Points
<1>7. \A x \in alloc : Root(x) <=> (x = from \/ x = sb_mb)
  BY <1>1, <1>2, <1>3, <1>5 DEF Root
<1>8. \A x \in alloc' : Root(x)' <=> x = sb_mb
  BY <1>1, <1>2, <1>3, <1>4, <1>5 DEF Root
<1>9. \A p, x \in alloc' : Points(p, x)' <=> (m_next[p] = x \/ m_nextpkt[p] = x)
  BY <1>4, <1>5 DEF Points
<1>10. from # NULL => \A p \in alloc : /\ m_next[p] # from
                                       /\ p # from => m_nextpkt[p] # from
  BY <1>3, <1>6, <1>7 DEF IInv, NoSharing
<1>11. PtrOK'
  BY <1>1, <1>3, <1>4 DEF IInv, TypeOK, PtrOK, Ptr
<1>12. NoDangling'
  BY <1>1, <1>2, <1>3, <1>4, <1>5, <1>10 DEF IInv, NoDangling
<1>13. NoLeak'
  BY <1>2, <1>3, <1>4, <1>6, <1>7, <1>8, <1>9 DEF IInv, NoLeak
<1>14. NoSharing'
  <2>1. \A p, x \in alloc' : Points(p, x)' => ~Root(x)'
    BY <1>3, <1>4, <1>6, <1>7, <1>8, <1>9 DEF IInv, NoSharing
  <2> QED BY <1>4, <1>5, <2>1 DEF IInv, NoSharing
<1>15. Control'
  BY <1>1, <1>2 DEF IInv, Control
<1> QED BY <1>11, <1>12, <1>13, <1>14, <1>15 DEF Shape

\* What sbappendaddr builds and where it hangs it: a chain of fresh mbufs with
\* head h, the first record or the one the walk carries; the others stay.
NewRecord(new, h) ==
  /\ alloc' = alloc \cup new
  /\ m_next' \in [Mbuf -> Ptr] /\ m_nextpkt' \in [Mbuf -> Ptr]
  /\ \A x \in new : /\ m_next'[x] \in (new \ {h}) \cup {NULL}
                    /\ m_nextpkt'[x] = NULL
  /\ \A x \in new \ {h} : \E q \in new : m_next'[q] = x
  /\ \A q, r \in new : m_next'[q] = m_next'[r] => q = r \/ m_next'[q] = NULL
  /\ \A x \in alloc : m_next'[x] = m_next[x] /\ m_nextpkt'[x] = m_nextpkt[x]
  /\ \/ /\ sb_mb = NULL /\ sb_mb' = h /\ UNCHANGED <<ipc, inew, ipos>>
        /\ sb_flags' = sb_flags \ {"WAITFORDATA"}
     \/ /\ sb_mb # NULL /\ ipc' = "walk" /\ inew' = h /\ ipos' = sb_mb
        /\ UNCHANGED <<sb_mb, sb_flags>>

LEMMA NewChain ==
  ASSUME IInv, NEW p \in Packet, SbAppendAddr(p)
  PROVE  \E new \in SUBSET (Mbuf \ alloc), h \in Mbuf : h \in new /\ NewRecord(new, h)
<1> DEFINE k == Len(p.segs)
           s == Fresh(k + 1)
           At(x) == CHOOSE i \in 1 .. k + 1 : s[i] = x
           new == {s[i] : i \in 1 .. k + 1}
<1>1. k \in Nat
  BY SockBufAssumption
<1>2. s \in Injection(1 .. k + 1, Mbuf \ alloc)
  BY DEF SbAppendAddr, Accepts, Fresh, Supply
<1>3. /\ alloc' = alloc \cup new
      /\ m_next' = [x \in Mbuf |->
              IF x \in new THEN IF At(x) <= k THEN s[At(x) + 1] ELSE NULL
                           ELSE m_next[x]]
      /\ m_nextpkt' = [x \in Mbuf |-> IF x \in new THEN NULL ELSE m_nextpkt[x]]
      /\ \/ /\ sb_mb = NULL /\ sb_mb' = s[1] /\ UNCHANGED <<ipc, inew, ipos>>
            /\ sb_flags' = sb_flags \ {"WAITFORDATA"}
         \/ /\ sb_mb # NULL /\ ipc' = "walk" /\ inew' = s[1] /\ ipos' = sb_mb
            /\ UNCHANGED <<sb_mb, sb_flags>>
  BY DEF SbAppendAddr, invars
<1>4. /\ \A i \in 1 .. k + 1 : s[i] \in Mbuf \ alloc
      /\ \A i, j \in 1 .. k + 1 : s[i] = s[j] => i = j
  BY <1>2 DEF Injection, IsInjective
<1> HIDE DEF s, k
<1>5. /\ \A i \in 1 .. k + 1 : s[i] \in new /\ At(s[i]) = i
      /\ \A x \in new : At(x) \in 1 .. k + 1 /\ s[At(x)] = x
  BY <1>4
<1>6. new \subseteq Mbuf \ alloc /\ s[1] \in new /\ NULL \notin Mbuf
      /\ m_next \in [Mbuf -> Ptr] /\ m_nextpkt \in [Mbuf -> Ptr] /\ alloc \subseteq Mbuf
  BY <1>1, <1>4, SockBufAssumption DEF IInv, TypeOK, PtrOK
<1> HIDE DEF new, At
<1>7. \A x \in new : m_next'[x] = IF At(x) <= k THEN s[At(x) + 1] ELSE NULL
  BY <1>3, <1>6
<1>8. \A x \in new : /\ m_next'[x] \in (new \ {s[1]}) \cup {NULL}
                     /\ m_nextpkt'[x] = NULL
  BY <1>1, <1>3, <1>4, <1>5, <1>6, <1>7
<1>9. \A x \in new \ {s[1]} : \E q \in new : m_next'[q] = x
  <2> TAKE x \in new \ {s[1]}
  <2>1. At(x) \in 2 .. k + 1 /\ s[At(x)] = x
    BY <1>1, <1>5
  <2>2. /\ s[At(x) - 1] \in new /\ At(s[At(x) - 1]) = At(x) - 1
        /\ At(x) - 1 <= k /\ (At(x) - 1) + 1 = At(x)
    BY <1>1, <1>5, <2>1
  <2>3. m_next'[s[At(x) - 1]] = x
    BY <1>7, <2>1, <2>2
  <2> QED BY <2>2, <2>3
<1>10. \A q, r \in new : m_next'[q] = m_next'[r] => q = r \/ m_next'[q] = NULL
  BY <1>1, <1>4, <1>5, <1>6, <1>7
<1>11. \A x \in alloc : m_next'[x] = m_next[x] /\ m_nextpkt'[x] = m_nextpkt[x]
  BY <1>3, <1>6
<1>12. m_next' \in [Mbuf -> Ptr] /\ m_nextpkt' \in [Mbuf -> Ptr]
  BY <1>1, <1>3, <1>4, <1>5, <1>6, <1>7 DEF Ptr
<1>13. NewRecord(new, s[1])
  BY <1>3, <1>8, <1>9, <1>10, <1>11, <1>12 DEF NewRecord
<1> QED BY <1>6, <1>13

LEMMA SbAppendAddrInv == ASSUME IInv, NEW p \in Packet, SbAppendAddr(p) PROVE Shape'
<1>1. /\ ipc = "none" /\ pc \in Windows
      /\ UNCHANGED <<pc, flags, m, nextpkt, from>>
  BY DEF SbAppendAddr, rcvvars
<1>0. PICK new \in SUBSET (Mbuf \ alloc), h \in Mbuf : h \in new /\ NewRecord(new, h)
  BY NewChain
<1>2. h \in new /\ NewRecord(new, h)
  BY <1>0
<1> USE DEF NewRecord
<1>3. /\ inew = NULL /\ ipos = NULL /\ alloc \subseteq Mbuf /\ NULL \notin Mbuf
      /\ {sb_mb, from, m} \subseteq alloc \cup {NULL}
  BY <1>1, SockBufAssumption DEF IInv, Control, TypeOK, PtrOK, NoDangling
<1>4. /\ ~AtEnd /\ ~AtEnd'
      /\ \A x \in alloc' : Live(x)' <=> x # from
      /\ \A x \in alloc : Live(x) <=> x # from
  BY <1>1 DEF AtEnd, Live, Windows
<1>5. \A x \in alloc : Root(x) <=> (x = sb_mb \/ x = from)
  BY <1>1, <1>3, <1>4 DEF Root, Windows
<1>6. \A x \in alloc' : Root(x)' <=> (x = sb_mb \/ x = from \/ x = h)
  BY <1>1, <1>2, <1>3, <1>4 DEF Root, Windows
<1>7. \A q \in alloc : /\ m_next[q] \notin new
                       /\ q # from => m_nextpkt[q] \notin new
  BY <1>2, <1>3, <1>4 DEF IInv, NoDangling
<1>8. from \notin new /\ sb_mb \notin new
  BY <1>2, <1>3
<1>9. \A q, x \in alloc' : Points(q, x)' <=>
         \/ q \in alloc /\ x \in alloc /\ Points(q, x)
         \/ q \in new /\ m_next'[q] = x
  BY <1>2, <1>3, <1>4, <1>7, <1>8 DEF Points
<1>10. PtrOK'
  BY <1>1, <1>2, <1>3 DEF IInv, TypeOK, PtrOK, Ptr
<1>11. NoDangling'
  BY <1>1, <1>2, <1>3, <1>4 DEF IInv, NoDangling
<1>12. NoLeak'
  BY <1>2, <1>5, <1>6, <1>9 DEF IInv, NoLeak
<1>13. NoSharing'
  <2>1. \A q, r \in alloc' : m_next'[q] = m_next'[r] => q = r \/ m_next'[q] = NULL
    BY <1>2, <1>7 DEF IInv, NoSharing
  <2>2. \A q, r \in alloc' : Live(q)' /\ Live(r)' /\ m_nextpkt'[q] = m_nextpkt'[r]
                               => q = r \/ m_nextpkt'[q] = NULL
    BY <1>2, <1>4 DEF IInv, NoSharing
  <2>3. \A q, r \in alloc' : Live(r)' /\ m_next'[q] = m_nextpkt'[r] => m_next'[q] = NULL
    BY <1>2, <1>4, <1>7 DEF IInv, NoSharing
  <2>4. \A q, x \in alloc' : Points(q, x)' => ~Root(x)'
    <3> TAKE q, x \in alloc'
    <3>1. CASE q \in alloc /\ x \in alloc /\ Points(q, x)
      BY <1>2, <1>5, <1>6, <3>1 DEF IInv, NoSharing
    <3>2. CASE q \in new /\ m_next'[q] = x
      BY <1>2, <1>3, <1>6, <1>8, <3>2
    <3> QED BY <1>9, <3>1, <3>2
  <2>5. \A q, x \in alloc' : m_next'[q] = x /\ Live(x)' => m_nextpkt'[x] = NULL
    BY <1>2, <1>3, <1>4, <1>7 DEF IInv, NoSharing
  <2> QED BY <2>1, <2>2, <2>3, <2>4, <2>5 DEF NoSharing
<1>14. Control'
  <2>1. /\ pc \in {"idle", "sblock", "locked"} => m = NULL /\ from = NULL
        /\ pc \in {"uiomove", "drop"} => m # NULL
        /\ pc \in {"loop", "uiomove"} /\ "PEEK" \notin flags => sb_mb = m
        /\ from # NULL => from # sb_mb /\ m_next[from] = NULL
        /\ ("LOCK" \in sb_flags) <=> (pc \notin {"idle", "sblock"})
    BY DEF IInv, Control
  <2>2. ipc' = "walk" => IsHead(ipos)'
    BY <1>1, <1>2 DEF IsHead
  <2>3. ("LOCK" \in sb_flags') <=> ("LOCK" \in sb_flags)
    BY <1>2
  <2>4. from # NULL => from # sb_mb' /\ m_next'[from] = NULL
    BY <1>2, <1>3, <1>8, <2>1
  <2>5. ipc' = "none" => inew' = NULL /\ ipos' = NULL
    BY <1>2, <1>3
  <2>6. ipc' = "walk" => /\ inew' # NULL /\ ipos' # NULL /\ sb_mb' # inew'
                         /\ from # inew' /\ m_nextpkt'[inew'] = NULL
    BY <1>1, <1>2, <1>3, <1>8
  <2>7. pc \in {"idle", "sblock", "locked", "uiomove"}
    BY <1>1 DEF Windows
  <2>8. pc = "uiomove" /\ "PEEK" \notin flags => sb_mb' = m
    BY <1>2, <2>1
  <2> QED BY <1>1, <1>4, <2>1, <2>2, <2>3, <2>4, <2>5, <2>6, <2>7, <2>8 DEF Control
<1> QED BY <1>10, <1>11, <1>12, <1>13, <1>14 DEF Shape

\* Lengths, counters and buffers keep their types in every step.
LEMMA DataInv == ASSUME IInv, Next PROVE DataOK'
<1> USE DEF IInv, TypeOK
<1>0. /\ m_data \in [Mbuf -> Seq(Byte)]
      /\ m \in Ptr /\ sb_mb \in Ptr /\ from \in Ptr
      /\ \A x \in Mbuf : m_len(x) \in Nat /\ Charge(x) \in Int
  BY SockBufAssumption DEF DataOK, PtrOK, m_len, Charge
<1>1. ASSUME NEW p \in Packet, SbAppendAddr(p) PROVE DataOK'
  <2>1. Len(p.segs) \in Nat /\ p.mp_len \in Nat /\ p.clusters \in Nat /\ p.from \in Byte
        /\ \A i \in 1 .. Len(p.segs) : p.segs[i].bytes \in Seq(Byte) /\ p.segs[i].ext \in BOOLEAN
    <3> DEFINE SegType == [bytes : Seq(Byte), ext : BOOLEAN]
    <3>1. /\ p.segs \in Seq(SegType) /\ p.mp_len \in Nat /\ p.clusters \in Nat
          /\ p.from \in Byte
      BY SockBufAssumption
    <3> HIDE DEF SegType
    <3>2. \A i \in 1 .. Len(p.segs) : p.segs[i] \in SegType
      BY <3>1
    <3> QED BY <3>1, <3>2 DEF SegType
  <2> DEFINE k == Len(p.segs)
             s == Fresh(k + 1)
             At(x) == CHOOSE i \in 1 .. k + 1 : s[i] = x
             new == {s[i] : i \in 1 .. k + 1}
  <2>2. \A x \in new : At(x) \in 1 .. k + 1
    OBVIOUS
  <2>3. [i \in 1 .. AddrLen |-> p.from] \in Seq(Byte)
    BY <2>1, SockBufAssumption, IsASeq
  <2>4. /\ m_data' = [x \in Mbuf |->
              IF x \in new
              THEN IF At(x) = 1 THEN [i \in 1 .. AddrLen |-> p.from]
                                ELSE p.segs[At(x) - 1].bytes
              ELSE m_data[x]]
        /\ m_ext' = [x \in Mbuf |->
              IF x \in new THEN At(x) # 1 /\ p.segs[At(x) - 1].ext ELSE m_ext[x]]
        /\ sb_cc' = sb_cc + AddrLen + p.mp_len
        /\ sb_mbcnt' = sb_mbcnt + (k + 1) * MSize + ClSize * p.clusters
        /\ sb_flags' \in {sb_flags, sb_flags \ {"WAITFORDATA"}}
        /\ ipc' \in {ipc, "walk"}
        /\ UNCHANGED <<pc, flags, resid, moff, user>>
    BY <1>1 DEF SbAppendAddr, rcvvars, invars
  <2> HIDE DEF s, At, new
  <2>5. \A x \in Mbuf : x \in new /\ At(x) # 1 => At(x) - 1 \in 1 .. k
    BY <2>1, <2>2
  <2>6. m_data' \in [Mbuf -> Seq(Byte)]
    BY <1>0, <2>1, <2>3, <2>4, <2>5
  <2>7. m_ext' \in [Mbuf -> BOOLEAN]
    BY <2>1, <2>4, <2>5 DEF DataOK
  <2>8. sb_cc' \in Int /\ sb_mbcnt' \in Int
    <3>1. (k + 1) * MSize \in Int /\ ClSize * p.clusters \in Int
      BY <2>1, SockBufAssumption
    <3> QED BY <2>1, <2>4, <3>1, SockBufAssumption DEF DataOK
  <2> QED BY <2>4, <2>6, <2>7, <2>8 DEF DataOK
<1>2. ASSUME NEW p \in Packet, Discard(p) PROVE DataOK'
  BY <1>2 DEF Discard, vars, mbufvars, sbvars, invars, rcvvars, DataOK
<1>3. CASE WalkOn
  BY <1>3 DEF WalkOn, mbufvars, sbvars, rcvvars, DataOK
<1>4. CASE HookRecord
  BY <1>4 DEF HookRecord, rcvvars, DataOK
<1>5. ASSUME NEW n \in 0 .. MaxRead, NEW f \in SUBSET Flag, Recv(n, f) PROVE DataOK'
  BY <1>5, SockBufAssumption DEF Recv, mbufvars, sbvars, invars, DataOK, Windows
<1>6. CASE SbLock
  BY <1>6 DEF SbLock, mbufvars, invars, DataOK, Windows
<1>7. CASE GiveUp
  BY <1>7 DEF GiveUp, mbufvars, sbvars, invars, DataOK, Windows
<1>8. CASE Wait
  BY <1>8 DEF Wait, Unlocked, mbufvars, invars, DataOK, Windows
<1>9. CASE TakeAddr
  <2>1. sb_mb \in Mbuf
    BY <1>0, <1>9 DEF TakeAddr, MustWait, Ptr
  <2> QED BY <1>0, <1>9, <2>1 DEF TakeAddr, SbFree, invars, DataOK, Windows
<1>10. CASE PeekAddr
  <2>1. sb_mb \in Mbuf
    BY <1>0, <1>10 DEF PeekAddr, MustWait, Ptr
  <2>2. m_data' \in [Mbuf -> Seq(Byte)] /\ m_ext' \in [Mbuf -> BOOLEAN]
    BY <1>0, <1>10, <2>1 DEF PeekAddr, mbufvars, DataOK
  <2> QED BY <1>10, <2>2 DEF PeekAddr, sbvars, invars, DataOK, Windows
<1>11. CASE LoopEnter
  BY <1>11 DEF LoopEnter, mbufvars, sbvars, invars, DataOK, Windows
<1>12. ASSUME pc = "uiomove", CopyOut
       PROVE  /\ m \in Mbuf /\ user' \in Seq(Byte) /\ resid' \in Nat
              /\ CopyLen \in Int
  <2>1. m \in Mbuf /\ resid \in Nat /\ moff \in Nat /\ user \in Seq(Byte)
    BY <1>0, <1>12 DEF Control, Ptr, DataOK
  <2>2. CopyLen \in Int /\ CopyLen <= resid
    BY <1>0, <2>1 DEF CopyLen
  <2>3. SubSeq(m_data[m], moff + 1, moff + CopyLen) \in Seq(Byte)
    <3>1. \A i \in 1 .. Len(m_data[m]) : m_data[m][i] \in Byte
      BY <1>0, <2>1
    <3>2. moff + CopyLen <= Len(m_data[m]) \/ moff + CopyLen < moff + 1
      BY <1>0, <2>1 DEF CopyLen, m_len
    <3> QED BY <1>0, <2>1, <2>2, <3>2
  <2> QED BY <1>12, <2>1, <2>2, <2>3 DEF CopyOut
<1>13. CASE CopyWhole
  <2>1. m \in Mbuf /\ user' \in Seq(Byte) /\ resid' \in Nat
    BY <1>12, <1>13 DEF CopyWhole
  <2> QED BY <1>0, <1>13, <2>1 DEF CopyWhole, SbFree, MFree, invars, DataOK, Windows
<1>14. CASE CopyPart
  <2>1. m \in Mbuf /\ user' \in Seq(Byte) /\ resid' \in Nat /\ CopyLen \in Int
    BY <1>12, <1>14 DEF CopyPart
  <2>2. CopyLen \in Nat
    BY <1>0, <1>14, <2>1 DEF CopyPart, CopyLen, Offset, DataOK
  <2>3. SubSeq(m_data[m], CopyLen + 1, Len(m_data[m])) \in Seq(Byte)
    BY <1>0, <2>1, <2>2
  <2>4. m_data' \in [Mbuf -> Seq(Byte)]
    BY <1>0, <1>14, <2>1, <2>3 DEF CopyPart
  <2> QED BY <1>0, <1>14, <2>1, <2>4 DEF CopyPart, invars, DataOK, Windows
<1>15. CASE CopyPeek
  <2>1. m \in Mbuf /\ user' \in Seq(Byte) /\ resid' \in Nat /\ CopyLen \in Int
    BY <1>12, <1>15 DEF CopyPeek
  <2>2. moff' \in Nat
    BY <1>0, <1>15, <2>1 DEF CopyPeek, CopyLen, DataOK, m_len
  <2> QED BY <1>15, <2>1, <2>2 DEF CopyPeek, mbufvars, sbvars, invars, DataOK, Windows
<1>16. CASE LoopExit
  BY <1>16 DEF LoopExit, mbufvars, invars, DataOK, Windows
<1>17. CASE DropMbuf
  <2>1. m \in Mbuf
    BY <1>0, <1>17 DEF DropMbuf, Control, Ptr
  <2> QED BY <1>0, <1>17, <2>1 DEF DropMbuf, SbFree, MFree, invars, DataOK, Windows
<1>18. CASE Release
  <2>1. m_data' \in [Mbuf -> Seq(Byte)] /\ m_ext' \in [Mbuf -> BOOLEAN]
    <3>1. <<>> \in Seq(Byte)
      OBVIOUS
    <3>2. CASE from = NULL
      BY <1>18, <3>2 DEF Release, mbufvars, DataOK
    <3>3. CASE from # NULL
      BY <1>18, <3>1, <3>3 DEF Release, MFree, DataOK
    <3> QED BY <3>2, <3>3
  <2> QED BY <1>18, <2>1 DEF Release, Unlocked, invars, DataOK, Windows
<1> QED BY <1>1, <1>2, <1>3, <1>4, <1>5, <1>6, <1>7, <1>8, <1>9, <1>10, <1>11,
           <1>13, <1>14, <1>15, <1>16, <1>17, <1>18 DEF Next, Input, Reader

\* An offset other than 0 is left by CopyPeek alone, and Release clears it.
LEMMA OffsetInv == ASSUME IInv, Next PROVE Offset'
<1> USE DEF IInv, Offset
<1>1. ASSUME NEW p \in Packet, SbAppendAddr(p) \/ Discard(p) PROVE Offset'
  BY <1>1 DEF SbAppendAddr, Discard, vars, rcvvars
<1>2. CASE WalkOn \/ HookRecord
  BY <1>2 DEF WalkOn, HookRecord, rcvvars
<1>3. ASSUME NEW n \in 0 .. MaxRead, NEW f \in SUBSET Flag, Recv(n, f) PROVE Offset'
  BY <1>3 DEF Recv, Control
<1>4. CASE SbLock \/ GiveUp \/ Wait \/ TakeAddr \/ PeekAddr \/ LoopEnter
  BY <1>4 DEF SbLock, GiveUp, Wait, TakeAddr, PeekAddr, LoopEnter
<1>5. CASE CopyWhole \/ CopyPart \/ CopyPeek
  BY <1>5 DEF CopyWhole, CopyPart, CopyPeek
<1>6. CASE LoopExit \/ DropMbuf \/ Release
  BY <1>6 DEF LoopExit, DropMbuf, Release
<1> QED BY <1>1, <1>2, <1>3, <1>4, <1>5, <1>6 DEF Next, Input, Reader

\* Every step keeps the invariant, and so does standing still.
LEMMA NextInv == IInv /\ [Next]_vars => IInv'
<1> SUFFICES ASSUME IInv, [Next]_vars PROVE IInv'
  OBVIOUS
<1>1. CASE Next
  <2>1. ASSUME NEW p \in Packet, Discard(p) PROVE Shape'
    <3>1. UNCHANGED vars
      BY <2>1 DEF Discard
    <3> QED BY <3>1 DEF vars, mbufvars, sbvars, invars, rcvvars, IInv, TypeOK, Shape,
                        PtrOK, NoDangling, NoLeak, NoSharing, Control, IsHead, Live, Root,
                        Points, AtEnd
  <2>2. Shape'
    BY <1>1, <2>1, SbAppendAddrInv, WalkOnInv, HookRecordInv, QuietSteps, TakeAddrInv,
       PeekAddrInv, CopyWholeInv, CopyPeekInv, LoopExitInv, DropMbufInv, ReleaseInv
       DEF Next, Input, Reader
  <2> QED BY <1>1, <2>2, DataInv, OffsetInv DEF Shape, IInv, TypeOK
<1>2. CASE UNCHANGED vars
  BY <1>2 DEF vars, mbufvars, sbvars, invars, rcvvars, IInv, TypeOK, PtrOK, DataOK,
              NoDangling, NoLeak, NoSharing, Control, Offset, IsHead, Live, Root, Points, AtEnd
<1> QED BY <1>1, <1>2

\* IInv holds in every reachable state.
THEOREM Invariance == Spec => []IInv
<1>1. Init => IInv
  BY InitInv
<1>2. IInv /\ [Next]_vars => IInv'
  BY NextInv
<1> QED BY <1>1, <1>2, PTL DEF Spec

\* The fields of the buffer, the mbufs and the locals keep their types.
THEOREM TypeCorrect == Spec => []TypeOK
<1>1. IInv => TypeOK
  BY DEF IInv
<1> QED BY <1>1, Invariance, PTL

\* Whatever the packets, the sizes and the interleaving of input with a
\* receive, no pointer the code may follow leads to a freed mbuf.
THEOREM NeverDangling == Spec => []NoDangling
<1>1. IInv => NoDangling
  BY DEF IInv
<1> QED BY <1>1, Invariance, PTL

\* No step of a receive or of sbappendaddr loses an mbuf.
THEOREM NeverLeaks == Spec => []NoLeak
<1>1. IInv => NoLeak
  BY DEF IInv
<1> QED BY <1>1, Invariance, PTL

\* Every way out of soreceive, and every wait in it, gives the lock back.
THEOREM LockAlwaysReleased == Spec => []LockReleased
<1>1. IInv => LockReleased
  BY DEF IInv, Control, LockReleased
<1> QED BY <1>1, Invariance, PTL

-----------------------------------------------------------------------------
(* The accounts of the buffer.                                             *)

\* What every mbuf holds, and what it costs.
Lens  == [x \in Mbuf |-> m_len(x)]
Costs == [x \in Mbuf |-> Charge(x)]

\* The accounts are right, and a sum over the mbufs in use is defined.
AccInv == IsFiniteSet(alloc) /\ Accounting

\* The accounts in terms of Lens and Costs, in a state and in the next one.
LEMMA AccDef ==
  /\ Accounting <=> /\ sb_cc = SumFunctionOnSet(Lens, Held)
                    /\ sb_mbcnt = SumFunctionOnSet(Costs, Held)
  /\ Accounting' <=> /\ sb_cc' = SumFunctionOnSet(Lens', Held')
                     /\ sb_mbcnt' = SumFunctionOnSet(Costs', Held')
BY DEF Accounting, Lens, Costs

\* Lengths and costs are integers.
LEMMA LensInt ==
  ASSUME IInv
  PROVE  \A x \in Mbuf : Lens[x] = m_len(x) /\ Lens[x] \in Int /\ Costs[x] = Charge(x) /\ Costs[x] \in Int
BY SockBufAssumption DEF IInv, TypeOK, DataOK, Lens, Costs, m_len, Charge

\* What a step leaves alone keeps its length and its cost.
LEMMA LensSame ==
  ASSUME NEW x \in Mbuf, m_data'[x] = m_data[x], m_ext'[x] = m_ext[x]
  PROVE  Lens'[x] = Lens[x] /\ Costs'[x] = Costs[x]
BY DEF Lens, Costs, m_len, Charge

\* A step that leaves the buffered mbufs alone.
LEMMA AccKeep ==
  ASSUME IInv, AccInv, Held' = Held, IsFiniteSet(alloc'),
         \A x \in Held : m_data'[x] = m_data[x] /\ m_ext'[x] = m_ext[x],
         sb_cc' = sb_cc, sb_mbcnt' = sb_mbcnt
  PROVE  AccInv'
<1>1. IsFiniteSet(Held) /\ Held \subseteq Mbuf
  BY FS_Subset DEF AccInv, Held, IInv, TypeOK, PtrOK
<1>2. \A x \in Held : Lens'[x] = Lens[x] /\ Costs'[x] = Costs[x]
  BY <1>1, LensSame
<1>3. /\ SumFunctionOnSet(Lens', Held) = SumFunctionOnSet(Lens, Held)
      /\ SumFunctionOnSet(Costs', Held) = SumFunctionOnSet(Costs, Held)
  BY <1>1, <1>2, SumSame
<1> QED  BY <1>3, AccDef DEF AccInv

\* A step that takes x out of the buffer.
LEMMA AccTake ==
  ASSUME IInv, AccInv, NEW x \in Held, Held' = Held \ {x}, IsFiniteSet(alloc'),
         \A y \in Held \ {x} : m_data'[y] = m_data[y] /\ m_ext'[y] = m_ext[y],
         SbFree(x)
  PROVE  AccInv'
<1> DEFINE R == Held \ {x}
<1>1. IsFiniteSet(Held) /\ IsFiniteSet(R) /\ Held \subseteq Mbuf
  BY FS_Subset DEF AccInv, Held, IInv, TypeOK, PtrOK
<1>2. \A y \in Held : Lens[y] \in Int /\ Costs[y] \in Int
  BY <1>1, LensInt
<1>3. /\ SumFunctionOnSet(Lens, Held) = Lens[x] + SumFunctionOnSet(Lens, R)
      /\ SumFunctionOnSet(Costs, Held) = Costs[x] + SumFunctionOnSet(Costs, R)
  BY <1>1, <1>2, SumTake
<1>4. SumFunctionOnSet(Lens, R) \in Int /\ SumFunctionOnSet(Costs, R) \in Int
  BY <1>1, <1>2, SumInt
<1>5. \A y \in R : Lens'[y] = Lens[y] /\ Costs'[y] = Costs[y]
  BY <1>1, LensSame
<1>6. /\ SumFunctionOnSet(Lens', R) = SumFunctionOnSet(Lens, R)
      /\ SumFunctionOnSet(Costs', R) = SumFunctionOnSet(Costs, R)
  BY <1>1, <1>5, SumSame
<1>7. /\ sb_cc = SumFunctionOnSet(Lens, Held) /\ sb_mbcnt = SumFunctionOnSet(Costs, Held)
      /\ sb_cc' = sb_cc - Lens[x] /\ sb_mbcnt' = sb_mbcnt - Costs[x]
  BY <1>1, AccDef, LensInt DEF AccInv, SbFree
<1>8. /\ sb_cc' = SumFunctionOnSet(Lens', R) /\ sb_mbcnt' = SumFunctionOnSet(Costs', R)
  BY <1>2, <1>3, <1>4, <1>6, <1>7
<1> QED  BY <1>8, AccDef DEF AccInv

\* The mbuf that is copied from is one of the buffered ones.
LEMMA AtHeld ==
  ASSUME IInv, pc \in {"uiomove", "drop"}, "PEEK" \notin flags
  PROVE  m \in Held /\ m \in Mbuf /\ m # from
<1>1. m # NULL /\ m \in alloc /\ m \in Mbuf
  BY DEF IInv, Control, NoDangling, TypeOK, PtrOK, Ptr
<1>2. m # from
  BY <1>1 DEF IInv, Control
<1> QED  BY <1>1, <1>2 DEF Held

\* CopyPart cuts the front of the mbuf off, and the buffer's count with it.
LEMMA AccPart == ASSUME IInv, AccInv, CopyPart  PROVE AccInv'
<1>1. /\ pc = "uiomove" /\ "PEEK" \notin flags /\ CopyLen # m_len(m) - moff
      /\ m_data' = [m_data EXCEPT ![m] = SubSeq(@, CopyLen + 1, Len(@))]
      /\ sb_cc' = sb_cc - CopyLen
      /\ alloc' = alloc /\ from' = from /\ m_ext' = m_ext /\ sb_mbcnt' = sb_mbcnt
  BY DEF CopyPart
<1>2. m \in Held /\ m \in Mbuf
  BY <1>1, AtHeld
<1>3. /\ moff = 0 /\ resid \in Nat /\ m_data \in [Mbuf -> Seq(Byte)] /\ m_data[m] \in Seq(Byte)
  BY <1>1, <1>2 DEF IInv, Offset, TypeOK, DataOK
<1>4. CopyLen = resid /\ resid < Len(m_data[m])
  BY <1>1, <1>3 DEF CopyLen, m_len
<1>5. /\ m_data'[m] = SubSeq(m_data[m], resid + 1, Len(m_data[m]))
      /\ \A y \in Mbuf \ {m} : m_data'[y] = m_data[y]
  BY <1>1, <1>2, <1>3, <1>4
<1>6. Len(m_data'[m]) = Len(m_data[m]) - resid
  BY <1>3, <1>4, <1>5
<1> DEFINE R == Held \ {m}
<1>7. IsFiniteSet(Held) /\ IsFiniteSet(R) /\ Held \subseteq Mbuf
  BY FS_Subset DEF AccInv, Held, IInv, TypeOK, PtrOK
<1>8. \A y \in Held : Lens[y] \in Int
  BY <1>7, LensInt
<1>9. \A y \in R : Lens'[y] = Lens[y]
  BY <1>1, <1>5, <1>7, LensSame
<1>10. Lens'[m] = Lens[m] - resid /\ Lens[m] \in Int /\ Lens'[m] \in Int
  <2>1. Lens'[m] = Len(m_data'[m]) /\ Lens[m] = Len(m_data[m])
    BY <1>2 DEF Lens, m_len
  <2> QED  BY <1>3, <1>6, <2>1
<1>11. \A y \in Held : Lens'[y] \in Int
  BY <1>8, <1>9, <1>10
<1>12. /\ SumFunctionOnSet(Lens, Held) = Lens[m] + SumFunctionOnSet(Lens, R)
       /\ SumFunctionOnSet(Lens, R) \in Int
  BY <1>2, <1>7, <1>8, SumTake, SumInt
<1>13. SumFunctionOnSet(Lens', Held) = Lens'[m] + SumFunctionOnSet(Lens', R)
  BY <1>2, <1>7, <1>11, SumTake
<1>14. SumFunctionOnSet(Lens', R) = SumFunctionOnSet(Lens, R)
  BY <1>7, <1>9, SumSame
<1>15. Held' = Held /\ Costs' = Costs
  BY <1>1 DEF Held, Costs, Charge
<1>16. sb_cc = SumFunctionOnSet(Lens, Held) /\ sb_mbcnt = SumFunctionOnSet(Costs, Held)
  BY AccDef DEF AccInv
<1>17. sb_cc' = SumFunctionOnSet(Lens', Held)
  BY <1>1, <1>3, <1>4, <1>10, <1>12, <1>13, <1>14, <1>16
<1>18. sb_mbcnt' = SumFunctionOnSet(Costs', Held')
  BY <1>1, <1>15, <1>16
<1> QED  BY <1>1, <1>15, <1>17, <1>18, AccDef DEF AccInv

\* sbappendaddr charges the buffer for exactly the mbufs it adds: the address
\* mbuf, the packet's mbufs and the clusters among them.
LEMMA AccAppend == ASSUME IInv, IInv', AccInv, NEW p \in Packet, SbAppendAddr(p)  PROVE AccInv'
<1>0. /\ p.segs \in Seq([bytes : Seq(Byte), ext : BOOLEAN])
      /\ p.mp_len \in Nat /\ p.clusters \in Nat
  BY SockBufAssumption
<1> DEFINE k == Len(p.segs)
           s == Fresh(k + 1)
           At(x) == CHOOSE i \in 1 .. k + 1 : s[i] = x
           new == {s[i] : i \in 1 .. k + 1}
           E == {i \in DOMAIN p.segs : p.segs[i].ext}
           segLen == [i \in DOMAIN p.segs |-> Len(p.segs[i].bytes)]
           segCost == [i \in 1 .. k |-> MSize + (IF i \in E THEN ClSize ELSE 0)]
<1>1. /\ k \in Nat /\ DOMAIN p.segs = 1 .. k /\ p.mp_len \in Int /\ p.clusters \in Int
      /\ MSize \in Int /\ ClSize \in Int /\ AddrLen \in Nat
      /\ \A i \in 1 .. k : p.segs[i].bytes \in Seq(Byte) /\ p.segs[i].ext \in BOOLEAN
  <2>1. \A i \in 1 .. k : p.segs[i] \in [bytes : Seq(Byte), ext : BOOLEAN]
    BY <1>0, ElementOfSeq
  <2> QED  BY <1>0, <2>1, SockBufAssumption
<1>2. s \in Injection(1 .. k + 1, Mbuf \ alloc)
  BY DEF SbAppendAddr, Accepts, Fresh, Supply
<1>3. /\ alloc' = alloc \cup new /\ from' = from
      /\ m_data' = [x \in Mbuf |->
              IF x \in new
              THEN IF At(x) = 1 THEN [i \in 1 .. AddrLen |-> p.from]
                                ELSE p.segs[At(x) - 1].bytes
              ELSE m_data[x]]
      /\ m_ext' = [x \in Mbuf |->
              IF x \in new THEN At(x) # 1 /\ p.segs[At(x) - 1].ext ELSE m_ext[x]]
      /\ sb_cc' = sb_cc + AddrLen + p.mp_len
      /\ sb_mbcnt' = sb_mbcnt + (k + 1) * MSize + ClSize * p.clusters
  BY DEF SbAppendAddr, rcvvars
<1>4. /\ \A i \in 1 .. k + 1 : s[i] \in Mbuf \ alloc
      /\ \A i, j \in 1 .. k + 1 : s[i] = s[j] => i = j
  BY <1>2 DEF Injection, IsInjective
<1>5. /\ p.mp_len = SumFunctionOnSet(segLen, 1 .. k)
      /\ p.clusters = Cardinality(E)
  BY <1>1, PacketAssumption
<1>6. IsFiniteSet(1 .. k) /\ Cardinality(1 .. k) = k
  BY <1>1, FS_Interval
<1>7. SumFunctionOnSet(segCost, 1 .. k) = k * MSize + ClSize * p.clusters
  <2>1. \A i \in 1 .. k : segCost[i] = MSize + (IF i \in E THEN ClSize ELSE 0)
    OBVIOUS
  <2>2. (1 .. k) \cap E = E
    BY <1>1
  <2> DEFINE I == 1 .. k
  <2>3. /\ IsFiniteSet(I) /\ TwoValued(segCost, I, E, MSize, ClSize)
        /\ Cardinality(I) = k /\ Cardinality(I \cap E) = p.clusters
    BY <1>5, <1>6, <2>1, <2>2 DEF TwoValued
  <2> HIDE DEF segCost, E, I, k
  <2>4. SumFunctionOnSet(segCost, I) = Cardinality(I) * MSize + ClSize * Cardinality(I \cap E)
    BY <1>1, <2>3, SumTwoValues
  <2> QED  BY <2>3, <2>4 DEF I
<1> HIDE DEF s, k
<1>8. /\ \A i \in 1 .. k + 1 : s[i] \in new /\ At(s[i]) = i
      /\ new \subseteq Mbuf /\ new \cap alloc = {}
  BY <1>4
<1> HIDE DEF new, At
<1>9. \A i \in 1 .. k + 1 :
         /\ m_data'[s[i]] = IF i = 1 THEN [j \in 1 .. AddrLen |-> p.from] ELSE p.segs[i - 1].bytes
         /\ m_ext'[s[i]] = (i # 1 /\ p.segs[i - 1].ext)
  BY <1>3, <1>8
<1>10. \A i \in 1 .. k + 1 : Lens'[s[i]] = Len(m_data'[s[i]]) /\ Costs'[s[i]] = MSize + (IF m_ext'[s[i]] THEN ClSize ELSE 0)
  BY <1>4 DEF Lens, Costs, m_len, Charge
<1>11. Lens'[s[1]] = AddrLen /\ Costs'[s[1]] = MSize
  <2>1. 1 \in 1 .. k + 1
    BY <1>1
  <2>2. Lens'[s[1]] = Len([j \in 1 .. AddrLen |-> p.from]) /\ m_ext'[s[1]] = FALSE
    BY <1>9, <1>10, <2>1
  <2> QED  BY <1>1, <1>10, <2>1, <2>2
<1>12. \A i \in 1 .. k : segLen[i] = Lens'[s[i + 1]] /\ segCost[i] = Costs'[s[i + 1]]
  <2> TAKE i \in 1 .. k
  <2>1. i + 1 \in 1 .. k + 1 /\ i + 1 # 1 /\ (i + 1) - 1 = i
    BY <1>1
  <2>2. m_data'[s[i + 1]] = p.segs[i].bytes /\ m_ext'[s[i + 1]] = p.segs[i].ext
    BY <1>1, <1>9, <2>1
  <2>3. i \in E <=> p.segs[i].ext
    BY <1>1
  <2> QED  BY <1>1, <1>10, <2>1, <2>2, <2>3
<1>13. \A x \in Mbuf : Lens'[x] \in Int /\ Costs'[x] \in Int
  <2>1. m_data' \in [Mbuf -> Seq(Byte)]
    BY DEF IInv, TypeOK, DataOK
  <2> QED  BY <1>1, <2>1 DEF Lens, Costs, m_len, Charge
<1> DEFINE L == SumFunctionOnSet(Lens', new)
           C == SumFunctionOnSet(Costs', new)
<1>14. IsFiniteSet(new) /\ L = AddrLen + p.mp_len /\ C = (k + 1) * MSize + ClSize * p.clusters
  <2>0. new = {s[i] : i \in 1 .. k + 1}
    BY DEF new
  <2>1. \A i \in 1 .. k + 1 : Lens'[s[i]] \in Int /\ Costs'[s[i]] \in Int
    BY <1>4, <1>13
  <2>2. \A i \in 1 .. k : segLen[i] = Lens'[s[i + 1]]
    BY <1>12
  <2>3. \A i \in 1 .. k : segCost[i] = Costs'[s[i + 1]]
    BY <1>12
  <2> DEFINE u == segLen  v == segCost
  <2> HIDE DEF u, v
  <2>4. IsFiniteSet(new) /\ L = Lens'[s[1]] + SumFunctionOnSet(u, 1 .. k)
    <3>1. \A i \in 1 .. k : u[i] = Lens'[s[i + 1]]
      BY <2>2 DEF u
    <3>2. Chained(s, k, u, new, Lens')
      BY <1>4, <2>0, <2>1, <3>1 DEF Chained
    <3> QED  BY <1>1, <3>2, SumChain
  <2>5. C = Costs'[s[1]] + SumFunctionOnSet(v, 1 .. k)
    <3>1. \A i \in 1 .. k : v[i] = Costs'[s[i + 1]]
      BY <2>3 DEF v
    <3>2. Chained(s, k, v, new, Costs')
      BY <1>4, <2>0, <2>1, <3>1 DEF Chained
    <3> QED  BY <1>1, <3>2, SumChain
  <2>6. L = AddrLen + p.mp_len
    BY <1>5, <1>11, <2>4 DEF u
  <2>7. C = MSize + (k * MSize + ClSize * p.clusters)
    BY <1>7, <1>11, <2>5 DEF v
  <2>8. MSize + (k * MSize + ClSize * p.clusters) = (k + 1) * MSize + ClSize * p.clusters
    BY <1>1, SMT
  <2> QED  BY <2>4, <2>6, <2>7, <2>8
<1>15. IsFiniteSet(Held) /\ Held \subseteq Mbuf /\ Held \subseteq alloc
  BY FS_Subset DEF AccInv, Held, IInv, TypeOK, PtrOK
<1>16. Held' = Held \cup new /\ Held \cap new = {}
  BY <1>3, <1>8, <1>15, SockBufAssumption DEF Held, IInv, NoDangling
<1>17. \A x \in Held : Lens'[x] = Lens[x] /\ Costs'[x] = Costs[x]
  <2>1. \A x \in Held : x \in Mbuf /\ m_data'[x] = m_data[x] /\ m_ext'[x] = m_ext[x]
    BY <1>3, <1>8, <1>15
  <2> QED  BY <2>1, LensSame
<1>18. /\ SumFunctionOnSet(Lens', Held) = SumFunctionOnSet(Lens, Held)
       /\ SumFunctionOnSet(Costs', Held) = SumFunctionOnSet(Costs, Held)
  BY <1>15, <1>17, SumSame
<1>19. \A x \in Held \cup new : Lens'[x] \in Int /\ Costs'[x] \in Int
  BY <1>8, <1>13, <1>15
<1>20. SumFunctionOnSet(Lens', Held \cup new) = SumFunctionOnSet(Lens', Held) + L
  BY <1>14, <1>15, <1>16, <1>19, SumUnion
<1>21. SumFunctionOnSet(Costs', Held \cup new) = SumFunctionOnSet(Costs', Held) + C
  BY <1>14, <1>15, <1>16, <1>19, SumUnion
<1>22. /\ sb_cc = SumFunctionOnSet(Lens, Held) /\ sb_mbcnt = SumFunctionOnSet(Costs, Held)
       /\ sb_cc \in Int /\ sb_mbcnt \in Int
  BY AccDef DEF AccInv, IInv, TypeOK, DataOK
<1> DEFINE cost == (k + 1) * MSize
           more == ClSize * p.clusters
<1>23. cost \in Int /\ more \in Int /\ C = cost + more /\ sb_mbcnt' = sb_mbcnt + cost + more
  BY <1>1, <1>3, <1>14
<1> HIDE DEF L, C, cost, more
<1>24. sb_cc' = SumFunctionOnSet(Lens', Held')
  BY <1>1, <1>3, <1>14, <1>16, <1>18, <1>20, <1>22
<1>25. sb_mbcnt' = SumFunctionOnSet(Costs', Held')
  BY <1>16, <1>18, <1>21, <1>22, <1>23
<1>26. IsFiniteSet(alloc')
  BY <1>3, <1>14, FS_Union DEF AccInv
<1> QED  BY <1>24, <1>25, <1>26, AccDef DEF AccInv

\* TakeAddr: the address mbuf leaves the buffer for from.
LEMMA AccAddr == ASSUME IInv, AccInv, TakeAddr  PROVE AccInv'
<1>1. /\ pc = "locked" /\ sb_mb # NULL /\ SbFree(sb_mb) /\ from' = sb_mb
      /\ alloc' = alloc /\ m_data' = m_data /\ m_ext' = m_ext
  BY DEF TakeAddr, MustWait
<1>2. from = NULL /\ NULL \notin alloc /\ sb_mb \in alloc
  BY <1>1, SockBufAssumption DEF IInv, Control, NoDangling, TypeOK, PtrOK
<1>3. sb_mb \in Held /\ Held' = Held \ {sb_mb}
  BY <1>1, <1>2 DEF Held
<1>4. IsFiniteSet(alloc')
  BY <1>1 DEF AccInv
<1> QED  BY <1>1, <1>3, <1>4, AccTake

\* PeekAddr: the copy of the address is not charged to the buffer.
LEMMA AccPeek == ASSUME IInv, AccInv, PeekAddr  PROVE AccInv'
<1>1. pc = "locked" /\ sb_cc' = sb_cc /\ sb_mbcnt' = sb_mbcnt
  BY DEF PeekAddr, sbvars
<1>2. from = NULL /\ NULL \notin alloc /\ alloc \subseteq Mbuf
  BY <1>1, SockBufAssumption DEF IInv, Control, TypeOK, PtrOK
<1>3. CASE Supply(1) = {}
  <2>1. from' = NULL /\ alloc' = alloc /\ m_data' = m_data /\ m_ext' = m_ext
    BY <1>3 DEF PeekAddr, mbufvars
  <2>2. Held' = Held /\ IsFiniteSet(alloc')
    BY <1>2, <2>1 DEF Held, AccInv
  <2> QED  BY <1>1, <2>1, <2>2, AccKeep
<1>4. CASE Supply(1) # {}
  <2> DEFINE c == Fresh(1)[1]
  <2>1. c \in Mbuf \ alloc
    BY <1>4 DEF Fresh, Supply, Injection
  <2>2. /\ from' = c /\ alloc' = alloc \cup {c}
        /\ m_data' = [m_data EXCEPT ![c] = m_data[sb_mb]]
        /\ m_ext' = [m_ext EXCEPT ![c] = m_ext[sb_mb]]
    BY <1>4 DEF PeekAddr
  <2> HIDE DEF c
  <2>3. Held' = Held
    BY <1>2, <2>1, <2>2 DEF Held
  <2>4. IsFiniteSet(alloc')
    BY <2>2, FS_AddElement DEF AccInv
  <2>5. \A x \in Held : m_data'[x] = m_data[x] /\ m_ext'[x] = m_ext[x]
    <3>1. m_data \in [Mbuf -> Seq(Byte)] /\ m_ext \in [Mbuf -> BOOLEAN]
      BY DEF IInv, TypeOK, DataOK
    <3> QED  BY <1>2, <2>1, <2>2, <3>1 DEF Held
  <2> QED  BY <1>1, <2>3, <2>4, <2>5, AccKeep
<1> QED  BY <1>3, <1>4

\* CopyWhole and DropMbuf free an mbuf of the buffer.
LEMMA AccFree ==
  ASSUME IInv, AccInv, NEW links, pc \in {"uiomove", "drop"}, "PEEK" \notin flags,
         SbFree(m), MFree(m, links), from' = from
  PROVE  AccInv'
<1>1. m \in Held /\ m \in Mbuf /\ m # from
  BY AtHeld
<1>2. /\ alloc' = alloc \ {m}
      /\ m_data' = [m_data EXCEPT ![m] = <<>>] /\ m_ext' = [m_ext EXCEPT ![m] = FALSE]
  BY DEF MFree
<1>3. Held' = Held \ {m}
  BY <1>2 DEF Held
<1>4. IsFiniteSet(alloc')
  BY <1>2, FS_Subset DEF AccInv
<1>5. \A y \in Held \ {m} : m_data'[y] = m_data[y] /\ m_ext'[y] = m_ext[y]
  BY <1>2 DEF Held, IInv, TypeOK, PtrOK, DataOK
<1> QED  BY <1>1, <1>3, <1>4, <1>5, AccTake

\* Release frees the address, which the buffer has given up before.
LEMMA AccRelease == ASSUME IInv, AccInv, Release  PROVE AccInv'
<1>1. /\ from' = NULL /\ sb_cc' = sb_cc /\ sb_mbcnt' = sb_mbcnt
      /\ IF from = NULL THEN UNCHANGED mbufvars ELSE MFree(from, m_nextpkt)
  BY DEF Release
<1>2. NULL \notin alloc /\ alloc \subseteq Mbuf
  BY SockBufAssumption DEF IInv, TypeOK, PtrOK
<1>3. CASE from = NULL
  <2>1. alloc' = alloc /\ m_data' = m_data /\ m_ext' = m_ext
    BY <1>1, <1>3 DEF mbufvars
  <2>2. Held' = Held /\ IsFiniteSet(alloc')
    BY <1>1, <1>3, <2>1 DEF Held, AccInv
  <2> QED  BY <1>1, <2>1, <2>2, AccKeep
<1>4. CASE from # NULL
  <2>1. /\ alloc' = alloc \ {from}
        /\ m_data' = [m_data EXCEPT ![from] = <<>>] /\ m_ext' = [m_ext EXCEPT ![from] = FALSE]
    BY <1>1, <1>4 DEF MFree
  <2>2. Held' = Held /\ IsFiniteSet(alloc')
    BY <1>1, <1>2, <2>1, FS_Subset DEF Held, AccInv
  <2>3. \A y \in Held : m_data'[y] = m_data[y] /\ m_ext'[y] = m_ext[y]
    BY <1>2, <2>1 DEF Held, IInv, TypeOK, DataOK
  <2> QED  BY <1>1, <2>2, <2>3, AccKeep
<1> QED  BY <1>3, <1>4

\* Every step keeps the accounts right.
LEMMA AccStep == IInv /\ IInv' /\ AccInv /\ [Next]_vars => AccInv'
<1> SUFFICES ASSUME IInv, IInv', AccInv, [Next]_vars  PROVE AccInv'
  OBVIOUS
<1> DEFINE Same == UNCHANGED <<alloc, from, m_data, m_ext, sb_cc, sb_mbcnt>>
<1>1. ASSUME Same  PROVE AccInv'
  <2>1. Held' = Held /\ IsFiniteSet(alloc')
    BY <1>1 DEF Held, AccInv
  <2> QED  BY <1>1, <2>1, AccKeep
<1>2. ASSUME NEW p \in Packet, Discard(p)  PROVE Same
  BY <1>2 DEF Discard, vars, mbufvars, sbvars, rcvvars
<1>3. ASSUME NEW n \in 0 .. MaxRead, NEW f \in SUBSET Flag, Recv(n, f)  PROVE Same
  BY <1>3 DEF Recv, mbufvars, sbvars
<1>4. CASE WalkOn \/ HookRecord
  <2>1. Same
    BY <1>4 DEF WalkOn, HookRecord, mbufvars, sbvars, rcvvars
  <2> QED  BY <1>1, <2>1
<1>5. CASE SbLock \/ GiveUp \/ Wait \/ LoopEnter
  <2>1. Same
    BY <1>5 DEF SbLock, GiveUp, Wait, LoopEnter, mbufvars, sbvars
  <2> QED  BY <1>1, <2>1
<1>6. CASE CopyPeek \/ LoopExit
  <2>1. Same
    BY <1>6 DEF CopyPeek, LoopExit, mbufvars, sbvars
  <2> QED  BY <1>1, <2>1
<1>7. CASE CopyWhole
  BY <1>7, AccFree DEF CopyWhole
<1>8. CASE DropMbuf
  <2>1. pc = "drop" /\ SbFree(m) /\ MFree(m, m_nextpkt) /\ from' = from
    BY <1>8 DEF DropMbuf
  <2>2. "PEEK" \notin flags
    BY <2>1 DEF IInv, Control
  <2> QED  BY <2>1, <2>2, AccFree
<1>9. CASE UNCHANGED vars
  <2>1. Same
    BY <1>9 DEF vars, mbufvars, sbvars, rcvvars
  <2> QED  BY <1>1, <2>1
<1> QED  BY <1>1, <1>2, <1>3, <1>4, <1>5, <1>6, <1>7, <1>8, <1>9, AccAppend, AccAddr, AccPeek,
            AccPart, AccRelease DEF Next, Input, Reader

\* sb_cc and sb_mbcnt always are what the buffered mbufs hold and cost, for
\* any packets and however a receive takes them apart.
THEOREM AccountsExact == Spec => []Accounting
<1>1. Init => AccInv
  <2>1. ASSUME Init  PROVE AccInv
    <3>1. alloc = {} /\ Held = {} /\ sb_cc = 0 /\ sb_mbcnt = 0
      BY <2>1 DEF Init, Held
    <3> QED  BY <3>1, SumEmpty, FS_EmptySet, AccDef DEF AccInv
  <2> QED  BY <2>1
<1>2. IInv /\ IInv' /\ AccInv /\ [Next]_vars => AccInv'
  BY AccStep
<1>3. AccInv => Accounting
  BY DEF AccInv
<1> QED  BY <1>1, <1>2, <1>3, Invariance, PTL DEF Spec
=============================================================================
