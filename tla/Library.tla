------------------------------ MODULE Library -------------------------------
(***************************************************************************)
(* What commands and file names are taken apart with: strpat of            *)
(* lib/string.c, url_parse of lib/url.c, inet_aton of lib/inet_addr.c and  *)
(* getopt of shell/getopt.c, together with the numbers of CLib; and what   *)
(* they answer with: vsprintf of lib/vsprintf.c.  A call is one step; what *)
(* it gave is compared with what its arguments were made from.             *)
(***************************************************************************)
EXTENDS CLib, FiniteSets

CONSTANTS
  Texts, Patterns,     \* for strpat
  UrlParts,            \* for url_parse: the parts of a URL
  NameSz,              \* PROTOCALSZ, USERNAMESZ and so on
  PortMod,             \* what fits into a port
  ByteBits,            \* the bits in a byte of an address
  Quads,               \* for inet_aton: sequences of numbers and their bases
  ArgVecs, OptPattern, \* for getopt
  Formats              \* for vsprintf: sequences of directives

ASSUME LibraryAssumption == NameSz \in Nat /\ PortMod \in Nat \ {0} /\ ByteBits \in Nat \ {0}

VARIABLES call, res
libvars == <<call, res>>

Failed == [failed |-> TRUE]
LibraryInit == call = <<"none">> /\ res = <<>>

-----------------------------------------------------------------------------
(* strpat.                                                                 *)

\* A piece without stars fits at position i.
FitsAt(s, i, d) == i + Len(d) <= Len(s) + 1 /\ \A k \in 1 .. Len(d) : d[k] \in {"?", s[i + k - 1]}

\* __find_first and __find_last, from position p on; 0 is NULL.  A piece that
\* is empty fits where the search begins, or at the end.
Where(s, p, d) == {i \in p .. Len(s) : FitsAt(s, i, d)}
find_first(s, p, d) ==
  IF d = <<>> THEN p
  ELSE IF Where(s, p, d) = {} THEN 0 ELSE CHOOSE i \in Where(s, p, d) : \A j \in Where(s, p, d) : i <= j
find_last(s, p, d) ==
  IF d = <<>> THEN Len(s) + 1
  ELSE IF Where(s, p, d) = {} THEN 0 ELSE CHOOSE i \in Where(s, p, d) : \A j \in Where(s, p, d) : i >= j

\* The pieces between stars are looked for one after another: each at its
\* first place, the last one at its last place, which has to be the end.  The
\* end of the pattern is marked by a "$", so that one within it ends it too.
FirstPlace(s, p, d) == find_first(s, p, d)
FinalPlace(s, p, d) == find_last(s, p, d)
MatchPieces[s \in Seq(STRING), p \in Nat, d \in Seq(STRING), at \in Nat] ==
  LET z     == NextOf(d, at, {"*", "$"})
      piece == SubSeq(d, at, z - 1)
      final == z > Len(d) \/ d[z] = "$"
      i     == IF final THEN FinalPlace(s, p, piece) ELSE find_first(s, p, piece)
  IN  /\ i # 0
      /\ at = 1 => i = 1
      /\ IF final THEN i + Len(piece) = Len(s) + 1 ELSE MatchPieces[s, i + Len(piece), d, z + 1]
strpat(s, d) == MatchPieces[s, 1, d, 1]

\* What a pattern means.
Matches(s, d) ==
  LET m[i \in 1 .. Len(s) + 1, j \in 1 .. Len(d) + 1] ==
        IF j > Len(d) THEN i > Len(s)
        ELSE IF d[j] = "*" THEN m[i, j + 1] \/ (i <= Len(s) /\ m[i + 1, j])
        ELSE i <= Len(s) /\ d[j] \in {"?", s[i]} /\ m[i + 1, j + 1]
  IN  m[1, 1]

Strpat(s, d) == call' = <<"strpat", s, d>> /\ res' = strpat(s, d)

-----------------------------------------------------------------------------
(* url_parse.                                                              *)

\* The part of s from a up to b, cut in two by the first colon if there is
\* one; the second part is dflt otherwise.
InTwo(s, a, b, dflt) ==
  LET c == NextOf(s, a, {":"})
  IN  IF c < b THEN <<SubSeq(s, a, c - 1), SubSeq(s, c + 1, b - 1)>> ELSE <<SubSeq(s, a, b - 1), dflt>>

url_parse(s) ==
  LET p     == strstr(s, <<":", "/", "/">>)
      a     == p + 3
      at    == NextOf(s, a, {"@"})
      named == at <= Len(s)
      who   == IF named THEN InTwo(s, a, at, <<>>) ELSE <<<<>>, <<>>>>
      h     == IF named THEN at + 1 ELSE a
      slash == NextOf(s, h, {"/"})
      host  == InTwo(s, h, slash, <<"0">>)
      port  == atob(host[2], 10)
      rest  == SubSeq(s, slash + 1, Len(s))
      short == \A t \in {SubSeq(s, 1, p - 1), who[1], who[2], host[1], host[2], rest} : Len(t) < NameSz
  IN  IF p = 0 \/ slash > Len(s) \/ ~short \/ port = -1 THEN Failed
      ELSE [protocol |-> SubSeq(s, 1, p - 1), username |-> who[1], passwd |-> who[2],
            hostname |-> host[1], port |-> port % PortMod, filepath |-> rest]

\* A URL written out; port 0 is not written.
UrlText(u) ==
  LET login == IF u.username = <<>> THEN <<>>
               ELSE u.username \o (IF u.passwd = <<>> THEN <<>> ELSE <<":">> \o u.passwd) \o <<"@">>
      port  == IF u.port = 0 THEN <<>> ELSE <<":">> \o btoa(u.port, 10)
  IN  u.protocol \o <<":", "/", "/">> \o login \o u.hostname \o port \o <<"/">> \o u.filepath

Url(u) == call' = <<"url", u>> /\ res' = url_parse(UrlText(u))

-----------------------------------------------------------------------------
(* inet_aton.                                                              *)

\* A number from position p on: 0x and 0 in front choose the base.  Eight and
\* nine pass for octal digits.
Number(s, p) ==
  LET zero == p <= Len(s) /\ s[p] = "0"
      hex  == zero /\ p < Len(s) /\ s[p + 1] = "x"
      base == IF hex THEN 16 ELSE IF zero THEN 8 ELSE 10
      a    == IF hex THEN p + 2 ELSE IF zero THEN p + 1 ELSE p
      ok   == {c \in DOMAIN DigitOf : DigitOf[c] < 10 \/ hex}
      z    == CHOOSE i \in a .. Len(s) + 1 :
                (i = Len(s) + 1 \/ s[i] \notin ok) /\ \A j \in a .. i - 1 : s[j] \in ok
      v[i \in a - 1 .. z - 1] == IF i < a THEN 0 ELSE Wrap(v[i - 1] * base + DigitOf[s[i]])
  IN  [val |-> v[z - 1], end |-> z]

\* The loop: parts is what stands before the last point.
ByteMax == 2^ByteBits - 1
Aton[s \in Seq(STRING), p \in Nat, parts \in Seq(Nat)] ==
  LET n == Number(s, p)
      left == 4 - Len(parts)      \* the bytes of the last number
      sum[i \in 0 .. Len(parts)] == IF i = 0 THEN 0 ELSE sum[i - 1] + parts[i] * 2^(ByteBits * (4 - i))
  IN  IF n.end <= Len(s) /\ s[n.end] = "."
      THEN IF n.val > ByteMax \/ Len(parts) = 3 THEN -1 ELSE Aton[s, n.end + 1, Append(parts, n.val)]
      ELSE IF (n.end <= Len(s) /\ s[n.end] # " ") \/ (parts # <<>> /\ n.val >= 2^(ByteBits * left)) THEN -1
      ELSE n.val + sum[Len(parts)]
inet_aton(s) == Aton[s, 1, <<>>]

\* Numbers written with points between them: inet_ntoa and the user.
Numeral(n) ==
  CASE n.base = 16 -> <<"0", "x">> \o btoa(n.val, 16)
    [] n.base = 8 -> <<"0">> \o btoa(n.val, 8)
    [] OTHER -> btoa(n.val, 10)
Dotted(q) ==
  LET t[i \in 1 .. Len(q)] == IF i = 1 THEN Numeral(q[1]) ELSE t[i - 1] \o <<".">> \o Numeral(q[i])
  IN  t[Len(q)]

Inet(q) == call' = <<"inet", q>> /\ res' = inet_aton(Dotted(q))

-----------------------------------------------------------------------------
(* getopt, called until it ends.  place: what is left of the word that is    *)
(* being read, whose letters each count as a word.                          *)

TakesValue(o) == \E i \in 1 .. Len(OptPattern) - 1 : OptPattern[i] = o /\ OptPattern[i + 1] = ":"
Known(o) == o # ":" /\ \E i \in 1 .. Len(OptPattern) : OptPattern[i] = o
Option == [o : STRING, val : Seq(STRING)]
getopt[av \in Seq(Seq(STRING)), optind \in Nat, place \in Seq(STRING), opts \in Seq(Option)] ==
  LET begin == place = <<>>
      ends  == begin /\ (optind > Len(av) \/ ~strprefix(av[optind], <<"-">>))
      p     == IF begin THEN Tail(av[optind]) ELSE place
      o     == Head(p)
      n     == optind + 1
      value == TakesValue(o)
  IN  IF ends THEN [opts |-> opts, optind |-> optind]
      ELSE IF p = <<>> \/ ~Known(o) \/ (value /\ (Len(p) > 1 \/ n > Len(av))) THEN Failed
      ELSE getopt[av, IF value THEN n + 1 ELSE n, Tail(p), Append(opts, [o |-> o, val |-> IF value THEN av[n] ELSE <<>>])]

Getopt(av) == call' = <<"getopt", av>> /\ res' = getopt[av, 2, <<>>, <<>>]

-----------------------------------------------------------------------------
(* vsprintf.  m: the modifiers of a directive; digits: what digitbuf holds. *)
(* Floating point, which leaves the buffer as it was, is not asked for.     *)

Conversions == {"c", "d", "i", "o", "p", "s", "u", "x", "X", "%"}
NoModifiers == [align |-> "right", width |-> 0, dot |-> FALSE]
Modifier(m, c) ==
  CASE c = "-" -> [m EXCEPT !.align = "left"]
    [] c = "~" -> [m EXCEPT !.align = "centre"]
    [] c = "0" -> IF m.align = "right" THEN [m EXCEPT !.align = "zeros"] ELSE m
    [] c = "." -> [m EXCEPT !.dot = TRUE]
    [] OTHER -> m

\* A number behind the point cuts nothing off.
WithNumber(m, n) == IF m.dot THEN m ELSE [m EXCEPT !.width = n]

\* strncpy does not end the text: digits of an earlier number stay behind it.
strncpy(old, t) == t \o SubSeq(old, Len(t) + 1, Len(old))
IsDigit(c) == c \in DOMAIN DigitOf /\ DigitOf[c] < 10
DigitsEnd(f, p) == CHOOSE i \in p .. Len(f) : ~IsDigit(f[i]) /\ \A j \in p .. i - 1 : IsDigit(f[j])

str_fmt(t, m) ==
  LET len == IF m.width > Len(t) THEN m.width - Len(t) ELSE 0
      fill(n, c) == [i \in 1 .. n |-> c]
  IN  CASE m.align = "left" -> t \o fill(len, " ")
        [] m.align = "right" -> fill(len, " ") \o t
        [] m.align = "zeros" -> fill(len, "0") \o t
        [] m.align = "centre" -> fill(len \div 2, " ") \o t \o fill(len - len \div 2, " ")

\* The text of an argument; p puts 0x in front of what is adjusted.
Base == [c \in {"d", "i", "u", "x", "p", "X", "o"} |->
           CASE c \in {"d", "i"} -> -10 [] c = "u" -> 10 [] c \in {"x", "p"} -> 16 [] c = "X" -> -16 [] c = "o" -> 8]
Text(c, a) == CASE c = "%" -> <<"%">> [] c \in {"c", "s"} -> a.str [] OTHER -> btoa(a.num, Base[c])
Prefix(c) == IF c = "p" THEN <<"0", "x">> ELSE <<>>

\* From position p on, within a directive (m) or outside.
Outside == [align |-> "none"]
Modifiers == {Outside} \cup [align : STRING, width : Nat, dot : BOOLEAN]
Arg == [str : Seq(STRING), num : Nat]
Formatted[f \in Seq(STRING), p \in Nat, m \in Modifiers, args \in Seq(Arg), digits \in Seq(STRING)] ==
  LET c == f[p]
      z == DigitsEnd(f, p)
      d == strncpy(digits, SubSeq(f, p, z - 1))
  IN  IF p > Len(f) THEN <<>>
      ELSE IF m = Outside
      THEN IF c = "%" THEN Formatted[f, p + 1, NoModifiers, args, digits] ELSE <<c>> \o Formatted[f, p + 1, m, args, digits]
      ELSE IF c \in Conversions
      THEN LET a == IF c = "%" THEN <<>> ELSE Head(args)
           IN  Prefix(c) \o str_fmt(Text(c, a), m)
                 \o Formatted[f, p + 1, Outside, IF c = "%" THEN args ELSE Tail(args), digits]
      ELSE IF c = "*" THEN Formatted[f, p + 1, WithNumber(m, Head(args).num), Tail(args), digits]
      ELSE IF IsDigit(c) /\ c # "0" THEN Formatted[f, z, WithNumber(m, atob(d, 10)), args, d]
      ELSE Formatted[f, p + 1, Modifier(m, c), args, digits]
vsprintf(f, args) == Formatted[f, 1, Outside, args, <<>>]

\* A format written out, with a comma behind each directive, and its arguments.
Cat(q) == LET t[i \in 0 .. Len(q)] == IF i = 0 THEN <<>> ELSE t[i - 1] \o q[i] IN t[Len(q)]
WidthText(d) == IF d.star THEN <<"*">> ELSE IF d.width = 0 THEN <<>> ELSE btoa(d.width, 10)
FormatText(ds) == Cat([i \in 1 .. Len(ds) |-> <<"%">> \o ds[i].flags \o WidthText(ds[i]) \o <<ds[i].conv, ",">>])
ArgsOf(ds) == Cat([i \in 1 .. Len(ds) |-> (IF ds[i].star THEN <<[str |-> <<>>, num |-> ds[i].width]>> ELSE <<>>)
                                           \o (IF ds[i].conv = "%" THEN <<>> ELSE <<ds[i].arg>>)])

Format(ds) == call' = <<"format", ds>> /\ res' = vsprintf(FormatText(ds), ArgsOf(ds))

-----------------------------------------------------------------------------
Convert(v, base) == call' = <<"number", v, base>> /\ res' = atob(btoa(v, base), IF base < 0 THEN -base ELSE base)

LibraryNext ==
  /\ call = <<"none">>
  /\ \/ \E s \in Texts, d \in Patterns : Strpat(s, d)
     \/ \E u \in UrlParts : Url(u)
     \/ \E q \in Quads : Inet(q)
     \/ \E av \in ArgVecs : Getopt(av)
     \/ \E ds \in Formats : Format(ds)
     \/ \E v \in 0 .. 2^Bits - 1, base \in {8, 10, -10, 16} : Convert(v, base)

\* The words before the first operand are options, each with the word behind it
\* if its last letter takes one, and no other letter of it does.
OptsOk(av, r) ==
  LET letters(w) == {w[i] : i \in 2 .. Len(w)}
      bad(i) == Len(av[i]) = 1 \/ (\E o \in letters(av[i]) : ~Known(o))
                  \/ (\E k \in 2 .. Len(av[i]) - 1 : TakesValue(av[i][k])) \/ (i = Len(av) /\ TakesValue(av[i][Len(av[i])]))
      opt(w, k, v) == [o |-> w[k], val |-> IF k = Len(w) /\ TakesValue(w[k]) THEN v ELSE <<>>]
      all[i \in 2 .. Len(av) + 2] ==      \* from the word i on
        IF i > Len(av) \/ ~strprefix(av[i], <<"-">>) THEN [opts |-> <<>>, optind |-> i]
        ELSE IF bad(i) THEN Failed
        ELSE LET w    == av[i]
                 more == all[IF TakesValue(w[Len(w)]) THEN i + 2 ELSE i + 1]
                 v    == IF i = Len(av) THEN <<>> ELSE av[i + 1]
             IN  IF more = Failed THEN Failed
                 ELSE [more EXCEPT !.opts = [k \in 1 .. Len(w) - 1 |-> opt(w, k + 1, v)] \o @]
  IN  r = all[2]

\* A directive's field is as wide as asked for, or as its text, which stands at
\* its side of the field or, to within one place, in the middle of it.
FieldOk(d, field) ==
  LET t == Text(d.conv, d.arg)
      n == Len(field) - Len(t)
      k == CASE d.flags = <<"-">> -> 0 [] d.flags = <<"~">> -> n \div 2 [] OTHER -> n
      c == IF d.flags = <<"0">> THEN "0" ELSE " "
  IN  /\ n = 0 \/ Len(field) = d.width
      /\ n >= 0 /\ Len(field) >= d.width /\ SubSeq(field, k + 1, k + Len(t)) = t
      /\ \A i \in 1 .. Len(field) : i \in k + 1 .. k + Len(t) \/ field[i] = c
FieldLen(d) == IF d.width > Len(Text(d.conv, d.arg)) THEN d.width ELSE Len(Text(d.conv, d.arg))
Growing(ds) ==
  \A i, j \in 1 .. Len(ds) : i < j /\ ~ds[j].star /\ ds[j].width # 0 /\ ~ds[i].star =>
    Len(WidthText(ds[i])) <= Len(WidthText(ds[j]))
FieldsOk(ds, out) ==
  LET at[i \in 1 .. Len(ds) + 1] == IF i = 1 THEN 1 ELSE at[i - 1] + Len(Prefix(ds[i - 1].conv)) + FieldLen(ds[i - 1]) + 1
      from(i) == at[i] + Len(Prefix(ds[i].conv))
  IN  /\ Len(out) = at[Len(ds) + 1] - 1
      /\ \A i \in 1 .. Len(ds) : FieldOk(ds[i], SubSeq(out, from(i), at[i + 1] - 2)) /\ out[at[i + 1] - 1] = ","

\* What a call should give.
AsMeant ==
  CASE call[1] = "strpat" -> res = Matches(call[2], call[3])
    [] call[1] = "url" ->
         LET u == call[2]
             fits == /\ \A t \in {u.protocol, u.username, u.passwd, u.hostname, u.filepath, btoa(u.port, 10)} : Len(t) < NameSz
                     /\ u.port < PortMod
         IN  res = IF fits THEN u ELSE Failed
    [] call[1] = "inet" ->
         LET q == call[2]
             n == Len(q)
             sum[i \in 0 .. n] == IF i = 0 THEN 0 ELSE sum[i - 1] + q[i].val * (IF i = n THEN 1 ELSE 2^(ByteBits * (4 - i)))
             ok == n <= 4 /\ (\A i \in 1 .. n - 1 : q[i].val <= ByteMax) /\ q[n].val < 2^(ByteBits * (5 - n))
         IN  res = IF ok THEN sum[n] ELSE -1
    [] call[1] = "getopt" -> OptsOk(call[2], res)
    [] call[1] = "format" -> FieldsOk(call[2], res)
    [] call[1] = "number" -> res = call[2]
    [] OTHER -> TRUE

\* The calls it does not give it for: a pattern with a "$", a path with an "@", a
\* port or a number that is cut to the width it is kept in, options written
\* together, and a width with fewer digits than one before it.
Misread ==
  CASE call[1] = "strpat" -> \E i \in DOMAIN call[3] : call[3][i] = "$"
    [] call[1] = "url" -> call[2].port >= PortMod \/ \E i \in DOMAIN call[2].filepath : call[2].filepath[i] = "@"
    [] call[1] = "inet" -> \E i \in DOMAIN call[2] : call[2][i].val >= 2^Bits
    [] call[1] = "getopt" -> \E i \in DOMAIN call[2] : Len(call[2][i]) > 2 /\ call[2][i][1] = "-"
    [] call[1] = "format" -> ~Growing(call[2])
    [] OTHER -> FALSE

\* The library reads what was meant: a pattern matches exactly the texts it
\* describes although strpat never goes back on a choice; a URL and an address
\* in any of its notations come apart into the parts they were written from,
\* and are refused when a part is too long; options go with their own values; a
\* number that is printed and read again is the same in every base, the smallest
\* negative one included; and each directive of a format takes its own arguments
\* and fills its own field.
LibraryRight == Misread \/ AsMeant
=============================================================================
