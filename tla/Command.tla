------------------------------ MODULE Command -------------------------------
(***************************************************************************)
(* shell/command.c: the table of commands, which the constructors of the   *)
(* command files fill in the order of the link, and do_cmd, which takes a  *)
(* line apart and runs what it names.                                      *)
(***************************************************************************)
EXTENDS CLib, FiniteSets

CONSTANTS
  Groups,       \* the groups of commands: [id, grpname, cmds]
  CmdMax,       \* CMD_MAX_NUM
  MaxInLine,    \* MAX_CMD_IN_LINE
  MaxArgs,      \* MAX_CMD_ARG_NUM
  LineChars, LineMax   \* the lines tried are those over these characters up to this length

ASSUME CommandAssumption ==
  /\ CmdMax \in Nat /\ MaxInLine \in Nat \ {0} /\ MaxArgs \in Nat \ {0} /\ LineMax \in Nat
  /\ Cardinality(Groups) < CmdMax

VARIABLES
  cmds_list,   \* the groups, in their order
  line,        \* the line do_cmd was given
  ran          \* what became of each command in it

cmdvars == <<cmds_list, line, ran>>

Quote == {"'", "\""}
InTable == {cmds_list[i] : i \in 1 .. Len(cmds_list)}

CommandInit == cmds_list = <<>> /\ line = <<>> /\ ran = <<>>

-----------------------------------------------------------------------------
\* add_cmds: a group goes to the first, or behind the last, of its name; what
\* is shifted out at the end is lost.
Place(l, g, tail) ==
  LET same == {i \in 1 .. Len(l) : l[i].grpname = g.grpname}
      first == CHOOSE i \in same : \A j \in same : i <= j
      run == {i \in first .. Len(l) + 1 : \A j \in first .. i - 1 : j \in same}
  IN  IF same = {} THEN Len(l) + 1
      ELSE IF ~tail THEN first ELSE CHOOSE i \in run : \A j \in run : j <= i
add_cmds(g, tail) ==
  LET i == Place(cmds_list, g, tail)
      l == SubSeq(cmds_list, 1, i - 1) \o <<g>> \o SubSeq(cmds_list, i, Len(cmds_list))
  IN  /\ g \notin InTable
      /\ cmds_list' = IF i > CmdMax THEN cmds_list ELSE SubSeq(l, 1, IF Len(l) < CmdMax THEN Len(l) ELSE CmdMax)
      /\ UNCHANGED <<line, ran>>

-----------------------------------------------------------------------------
\* What closes a quote: the same one.
AnyCloses(c) == Quote
Closes(c) == {c}

\* argparser.  A word is scanned from p on; its quotes are taken out of the
\* line as they are met.
Word[s \in Seq(STRING), p \in Nat] ==
  IF p > Len(s) \/ s[p] = " " THEN [s |-> s, p |-> p]
  ELSE IF s[p] \notin Quote THEN Word[s, p + 1]
  ELSE LET t == strdchr(s, p)
           q == NextOf(t, p, Closes(s[p]))
       IN  IF q > Len(t) THEN [s |-> t, p |-> q] ELSE Word[strdchr(t, q), q]

NotBlank == LineChars \ {" "}
Args[s \in Seq(STRING), p \in Nat, n \in Nat] ==
  LET b == NextOf(s, p, NotBlank)
      w == Word[s, b]
  IN  IF n = MaxArgs \/ b > Len(s) THEN <<>>
      ELSE <<SubSeq(w.s, b, w.p - 1)>> \o (IF w.p > Len(w.s) THEN <<>> ELSE Args[w.s, w.p + 1, n + 1])
argparser(s) == Args[s, 1, 0]

\* The commands of a line, or that a quote is not closed.
Unbalanced == <<"unbalanced">>
Split[s \in Seq(STRING), start \in Nat, p \in Nat, done \in Seq(Seq(STRING))] ==
  IF p > Len(s) THEN Append(done, SubSeq(s, start, Len(s)))
  ELSE IF s[p] \in Quote THEN
    LET q == NextOf(s, p + 1, Closes(s[p]))
    IN  IF q > Len(s) THEN Unbalanced ELSE Split[s, start, q + 1, done]
  ELSE IF s[p] = ";" THEN
    LET more == Append(done, SubSeq(s, start, p - 1))
    IN  IF Len(more) >= MaxInLine THEN more ELSE Split[s, p + 1, p + 1, more]
  ELSE Split[s, start, p + 1, done]

\* What becomes of a command: the first of its name in the table counts.
Verdict(c, ac) ==
  CASE c.disabled -> "not found"
    [] ~c.disabled /\ ~c.handler -> "no handler"
    [] ~c.disabled /\ c.handler /\ ac < c.minac -> "not enough"
    [] ~c.disabled /\ c.handler /\ ac > c.maxac -> "too many"
    [] OTHER -> "run"
Run(av) ==
  LET has(i) == \E c \in cmds_list[i].cmds : c.name = av[1]
      g == {i \in 1 .. Len(cmds_list) : has(i)}
      i == CHOOSE j \in g : \A k \in g : j <= k
      c == CHOOSE d \in cmds_list[i].cmds : d.name = av[1]
  IN  [av |-> av, what |-> IF g = {} THEN "not found" ELSE Verdict(c, Len(av))]

do_cmd(s) ==
  LET parts == Split[s, 1, 1, <<>>]
      avs   == SelectSeq([i \in 1 .. Len(parts) |-> argparser(parts[i])], LAMBDA av : av # <<>>)
  IN  /\ line' = s
      /\ ran' = IF parts = Unbalanced THEN <<>> ELSE [i \in 1 .. Len(avs) |-> Run(avs[i])]
      /\ UNCHANGED cmds_list

Lines == UNION {[1 .. n -> LineChars] : n \in 0 .. LineMax}

\* The constructors run before the first line is read.
CommandNext ==
  \/ \E g \in Groups, tail \in BOOLEAN : add_cmds(g, tail)
  \/ \E s \in Lines : InTable = Groups /\ line = <<>> /\ do_cmd(s)

-----------------------------------------------------------------------------
(* A line read without changing it: which characters stand in quotes, which *)
(* are the quotes themselves, and what they separate.                       *)

\* The quote that is open behind position i, or none.
Open(s) ==
  LET o[i \in 0 .. Len(s)] ==
        IF i = 0 THEN "" ELSE
        IF o[i - 1] = "" THEN (IF s[i] \in Quote THEN s[i] ELSE "") ELSE IF s[i] = o[i - 1] THEN "" ELSE o[i - 1]
  IN  o
Plain(s, i) == Open(s)[i] = "" /\ Open(s)[i - 1] = ""
Mark(s, i) == (Open(s)[i] = "") # (Open(s)[i - 1] = "")

\* The stretches between plain characters c, at most n of them.
Pieces(s, c, n) ==
  LET cuts == {i \in 1 .. Len(s) : Plain(s, i) /\ s[i] = c}
      nth(k) == IF k = 0 THEN 0
                ELSE IF k > Cardinality(cuts) THEN Len(s) + 1
                ELSE CHOOSE i \in cuts : Cardinality({j \in cuts : j <= i}) = k
      m == IF Cardinality(cuts) + 1 < n THEN Cardinality(cuts) + 1 ELSE n
  IN  [k \in 1 .. m |-> <<nth(k - 1) + 1, nth(k) - 1>>]
QuotedWords(s) ==
  LET w == SelectSeq(Pieces(s, " ", Len(s) + 1), LAMBDA ab : ab[1] <= ab[2])
      kept(ab) == LET idx == {i \in ab[1] .. ab[2] : ~Mark(s, i)}
                  IN  [k \in 1 .. Cardinality(idx) |-> s[CHOOSE i \in idx : Cardinality({j \in idx : j <= i}) = k]]
  IN  [k \in 1 .. (IF Len(w) < MaxArgs THEN Len(w) ELSE MaxArgs) |-> kept(w[k])]
Meant(s) ==
  LET p == Pieces(s, ";", MaxInLine)
      upto == IF p = <<>> THEN 0 ELSE p[Len(p)][2]
      known(av) == {c \in UNION {g.cmds : g \in Groups} : c.name = av[1]}
      what(av) == IF known(av) = {} THEN "not found" ELSE Verdict(CHOOSE c \in known(av) : TRUE, Len(av))
      avs == SelectSeq([k \in 1 .. Len(p) |-> QuotedWords(SubSeq(s, p[k][1], p[k][2]))], LAMBDA av : av # <<>>)
  IN  IF Open(s)[upto] # "" THEN <<>>
      ELSE [k \in 1 .. Len(avs) |-> [av |-> avs[k], what |-> what(avs[k])]]

\* Whatever the order the command files are linked in, a line runs exactly the
\* commands it names, with their words as the quotes say: do_cmd and argparser,
\* which cut the line and take its quotes out in place.  A line with a quote
\* that is not closed runs nothing; commands beyond MaxInLine and words beyond
\* MaxArgs are left out.
CommandRight == line # <<>> => ran = Meant(line)
=============================================================================
