----------------------------- MODULE MCLibrary ------------------------------
(* What the library is asked.                                               *)
EXTENDS Library

Words0(cs, n) == UNION {[1 .. k -> cs] : k \in 0 .. n}
MCTexts == Words0({"a", "b"}, 4)
MCPatterns == Words0({"a", "b", "?", "*"}, 4) \cup Words0({"a", "*", "$"}, 3)
MCUrls ==
  [protocol : {<<"t">>, <<"t", "f", "t">>}, username : {<<>>, <<"u">>}, passwd : {<<>>}, hostname : {<<"h">>, <<"1", "h">>},
   port : {0, 6, 69}, filepath : {<<>>, <<"f">>, <<"/", "f">>, <<"f", ":">>, <<"f", "@">>}]
  \cup [protocol : {<<"t">>}, username : {<<"u">>, <<"u", "u", "u">>}, passwd : {<<"p">>, <<"p", "q">>},
        hostname : {<<"h">>, <<"h", ".", "h">>}, port : {0, 9, 200}, filepath : {<<"f">>, <<"f", "/", "f">>}]
N(v, b) == [val |-> v, base |-> b]
Numbers == {N(v, 10) : v \in {0, 1, 2, 3, 4, 9, 15, 16}} \cup {N(3, 16), N(10, 16), N(2, 8), N(15, 8), N(64, 10), N(257, 10)}
MCQuads == {<<x, y>> : x, y \in Numbers} \cup {<<x>> : x \in Numbers} \cup {<<N(1, 10), x, y>> : x, y \in Numbers}
           \cup {<<x, N(2, 16), N(3, 8), y>> : x, y \in Numbers} \cup {<<N(1, 10), N(0, 10), N(0, 10), x, N(1, 10)>> : x \in Numbers}
MCArgVecs == {<<<<"c">>>> \o v : v \in Words0({<<"-", "a">>, <<"-", "v">>, <<"x">>, <<"-">>, <<"-", "y">>}, 4)}
             \cup {<<<<"c">>>> \o v : v \in Words0({<<"-", "a", "v">>, <<"-", "v", "a">>, <<"-", "a", "a">>, <<"x">>}, 3)}
D(fl, st, w, c, str, num) == [flags |-> fl, star |-> st, width |-> w, conv |-> c, arg |-> [str |-> str, num |-> num]]
Directives ==
  {D(fl, st, w, c, <<>>, n) : fl \in {<<>>, <<"-">>, <<"~">>, <<"0">>}, st \in BOOLEAN, w \in {3, 10}, c \in {"d", "x"}, n \in {0, 200}}
  \cup {D(fl, FALSE, w, c, <<"a", "b">>, 171) : fl \in {<<>>, <<"~">>}, w \in {0, 5}, c \in {"s", "p", "o", "u", "X", "%"}}
  \cup {D(<<>>, FALSE, 0, "c", <<"z">>, 0)}
MCFormats == {<<x, y>> : x, y \in Directives}
MCPattern == <<"a", "v", ":">>
=============================================================================
