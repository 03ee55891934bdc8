-------------------------------- MODULE CLib --------------------------------
(***************************************************************************)
(* lib/string.c and lib/cvt.c: strings as sequences of characters; a       *)
(* pointer into one is a position, and Len(s) + 1 is where the terminating *)
(* zero is.  Numbers are Bits wide.                                        *)
(***************************************************************************)
EXTENDS Integers, Sequences

CONSTANT Bits     \* the width of a long

ASSUME BitsAssumption == Bits \in Nat \ {0}

\* The first position from p on with one of these characters, or the end.
NextOf(s, p, chars) ==
  LET at == {i \in p .. Len(s) + 1 : i = Len(s) + 1 \/ s[i] \in chars}
  IN  CHOOSE i \in at : \A j \in at : i <= j

\* Take one character out, put one in, put a string in, at position p.
strdchr(s, p) == SubSeq(s, 1, p - 1) \o SubSeq(s, p + 1, Len(s))
strichr(s, p, c) == SubSeq(s, 1, p - 1) \o <<c>> \o SubSeq(s, p, Len(s))
stristr(s, p, t) ==
  LET ins[i \in 0 .. Len(t)] == IF i = 0 THEN s ELSE strichr(ins[i - 1], p + i - 1, t[i])
  IN  ins[Len(t)]

strempty(s) == \A i \in 1 .. Len(s) : s[i] = " "
strprefix(d, s) == Len(s) <= Len(d) /\ \A i \in 1 .. Len(s) : d[i] = s[i]

\* strstr, or 0.
strstr(s, d) ==
  LET at == {i \in 1 .. Len(s) : strprefix(SubSeq(s, i, Len(s)), d)}
  IN  IF d = <<>> THEN 1 ELSE IF at = {} THEN 0 ELSE CHOOSE i \in at : \A j \in at : i <= j

-----------------------------------------------------------------------------
(* cvt.c.                                                                  *)

DigitOf == [c \in {"0", "1", "2", "3", "4", "5", "6", "7", "8", "9", "a", "b", "c", "d", "e", "f"} |->
              CHOOSE n \in 0 .. 15 :
                c = <<"0", "1", "2", "3", "4", "5", "6", "7", "8", "9", "a", "b", "c", "d", "e", "f">>[n + 1]]
CharOf == [n \in 0 .. 15 |-> CHOOSE c \in DOMAIN DigitOf : DigitOf[c] = n]
Wrap(n) == n % 2^Bits
Negative(v) == v >= 2^(Bits - 1)

\* btoa and llbtoa; a base of -10 means signed.  Capital letters (-16) are
\* taken for small ones.
Digits(v, base) ==
  LET d[n \in 0 .. v] == IF n = 0 THEN <<>> ELSE Append(d[n \div base], CharOf[n % base])
  IN  d[v]
btoa(v, base) ==
  CASE v = 0 -> <<"0">>
    [] v # 0 /\ base = -10 /\ Negative(v) -> <<"-">> \o Digits(Wrap(-v), 10)
    [] OTHER -> Digits(v, IF base < 0 THEN -base ELSE base)

\* _atob: the number, or -1.
_atob(s, base) ==
  LET v[i \in 0 .. Len(s)] == IF i = 0 THEN 0 ELSE Wrap(v[i - 1] * base + DigitOf[s[i]])
      ok == s # <<>> /\ \A i \in 1 .. Len(s) : s[i] \in DOMAIN DigitOf /\ DigitOf[s[i]] < base
  IN  IF ok THEN v[Len(s)] ELSE -1

\* atob and llatob: a prefix outweighs the base that is asked for.
atob(s, base) ==
  LET from(n) == SubSeq(s, n, Len(s))
      minus == _atob(from(2), 10)
  IN  CASE strprefix(s, <<"0", "x">>) -> _atob(from(3), 16)
        [] strprefix(s, <<"o">>) -> _atob(from(2), 8)
        [] strprefix(s, <<"-">>) -> IF minus = -1 THEN -1 ELSE Wrap(-minus)
        [] OTHER -> _atob(s, IF base = 0 THEN 10 ELSE base)
=============================================================================
