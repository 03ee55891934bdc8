------------------------------ MODULE Console -------------------------------
(***************************************************************************)
(* The command line: get_line and get_cmd of shell/console.c, the history  *)
(* of shell/history.c, and the loop of shell/main.c, echoing on the        *)
(* screen of FbConsole.  The user presses keys; everything the program     *)
(* does about a key is one step, since nothing interrupts it.              *)
(***************************************************************************)
EXTENDS FbConsole

CONSTANTS
  LineSize,    \* MAX_LINE_SIZE
  HistMax,     \* HIST_MAX_NUM
  MaxCmds,     \* a bound on the lines entered
  Prompt,      \* the prompt
  Printable,   \* the characters typed
  ConKeys         \* the other keys

ASSUME ConsoleAssumption ==
  /\ LineSize \in Nat \ {0} /\ HistMax \in Nat \ {0, 1} /\ MaxCmds \in Nat
  /\ ConKeys \subseteq {"PREV", "NEXT", "FORW", "BACK", "BEGIN", "END", "DELETE", "DELLINE",
                     "bs", "nl", "tab", "esc", "[", "A", "B", "C", "D", "F", "H"}
  /\ Len(Prompt) < Cols

VARIABLES
  scr,     \* the screen
  buf,     \* line_buf
  cursor,  \* the position in it
  esc,     \* esc_state
  bak,     \* the line set aside while walking through the history
  hist,    \* hist_tab, hist_cur, hist_new, hist_old, hist_no
  typed,   \* the line as it was when the walk began, until it is edited again
  log,     \* the commands that were to be remembered, oldest first
  lines    \* how many lines were entered

convars == <<scr, buf, cursor, esc, bak, hist, typed, log, lines>>

Empty == <<>>
Nothing == <<"NULL">>     \* a null pointer
Slots == 0 .. HistMax - 1

ConsoleInit ==
  /\ scr = puts(BlankScreen, Prompt) /\ buf = Empty /\ cursor = 0 /\ esc = "NONE" /\ bak = Empty
  /\ hist = [tab |-> [i \in Slots |-> Nothing], cur |-> 0, new |-> 0, old |-> 0, no |-> 0]
  /\ typed = Empty /\ log = <<>> /\ lines = 0

-----------------------------------------------------------------------------
(* History.                                                                *)

HIST_NEXT(n) == IF n + 1 >= HistMax THEN 0 ELSE n + 1
HIST_LAST(n) == IF n - 1 < 0 THEN HistMax - 1 ELSE n - 1

Repeated(h, cmd) == h.tab[HIST_LAST(h.new)] = cmd

\* add_hist_cmd, when there is memory.  (It asks for one byte less than the
\* text and its end take; malloc rounds sizes up, and where it cannot the end
\* lies in the next block.  The text is kept whole here.)
add_hist_cmd(h, cmd) ==
  LET full == h.new = h.old /\ h.tab[h.old] # Nothing
      n    == HIST_NEXT(h.new)
  IN  IF strempty(cmd) \/ Repeated(h, cmd) THEN h
      ELSE [h EXCEPT !.tab[h.new] = cmd, !.cur = n, !.new = n, !.no = @ + 1,
                     !.old = IF full THEN HIST_NEXT(@) ELSE @]

\* read_last_cmd; get_last_cmd also moves there.
read_last_cmd(h) == IF h.cur = h.old THEN Nothing ELSE h.tab[HIST_LAST(h.cur)]
get_last_cmd(h) == IF read_last_cmd(h) = Nothing THEN h ELSE [h EXCEPT !.cur = HIST_LAST(@)]

\* read_next_cmd and get_next_cmd
read_next_cmd(h) == IF HIST_NEXT(h.cur) = h.new THEN Nothing ELSE h.tab[HIST_NEXT(h.cur)]
get_next_cmd(h) == IF read_next_cmd(h) = Nothing THEN h ELSE [h EXCEPT !.cur = HIST_NEXT(@)]

AlwaysLatest(h) == h.cur # h.new
pos_is_latest(h) == HIST_NEXT(h.cur) = h.new
pos_is_new(h) == h.cur = h.new
pos_set_new(h) == [h EXCEPT !.cur = h.new]

\* find_hist_by_prefix, from the newest to the oldest.
find_hist_by_prefix(h, pfx) ==
  LET back[n \in 1 .. HistMax + 1] ==      \* the n-th of them
        LET i == (h.new - n) % HistMax
        IN  IF i = HIST_LAST(h.old) \/ h.tab[i] = Nothing THEN Nothing
            ELSE IF strprefix(h.tab[i], pfx) THEN h.tab[i] ELSE back[n + 1]
  IN  back[1]

\* find_hist_by_num.  The table's size is taken off once, so after twice as
\* many commands, and for the number 0, it reads outside the table: what it
\* finds there is no command.
NumPosEarly(num) == IF num >= HistMax THEN num - 1 - HistMax ELSE num - 1
NumPos(num) == IF num > HistMax THEN num - 1 - HistMax ELSE num - 1
find_hist_by_num(h, num) ==
  IF num > h.no \/ num <= h.no - HistMax \/ NumPos(num) \notin Slots THEN Nothing
  ELSE h.tab[NumPos(num)]

-----------------------------------------------------------------------------
(* get_cmd: "!" expansion.                                                 *)

IsNumber(w) == atob(w, 10) # -1
Value(w) == atob(w, 10)

\* The command a word stands for.
Event(h, w) ==
  CASE w = <<"!">> -> read_last_cmd(h)
    [] IsNumber(w) -> find_hist_by_num(h, Value(w))
    [] OTHER -> find_hist_by_prefix(h, w)

\* get_word: the end of the word that begins at i.
get_word(s, i) == NextOf(s, i, {" "})

\* find_bang: the first "!" from i on outside quotes, or 0.  Any quote closes
\* any other.  (Behind a quote that is never closed it reads on past the end
\* of the line; such lines are not typed here.)
find_bang(s, i) ==
  LET Quote == {"'", "\""}
      at[j \in i .. Len(s) + 1, q \in BOOLEAN] ==
        IF j > Len(s) THEN 0
        ELSE IF s[j] \in Quote THEN at[j + 1, ~q]
        ELSE IF s[j] = "!" /\ ~q THEN j ELSE at[j + 1, q]
  IN  IF i > Len(s) THEN 0 ELSE at[i, FALSE]

\* The line with its words after a "!" replaced, one after another: what
\* stands in front of the rest is done.  An event that is not found empties it.
Expand(h, line) ==
  LET step(e) ==
        LET b == find_bang(e.s, e.i)
            z == get_word(e.s, b)
            w == SubSeq(e.s, b + 1, z - 1)
            c == Event(h, w)
        IN  IF b = 0 THEN e
            ELSE IF w = Empty THEN [e EXCEPT !.i = z]
            ELSE IF c = Nothing THEN [s |-> Empty, i |-> 1, bad |-> TRUE]
            ELSE [e EXCEPT !.s = stristr(SubSeq(e.s, 1, b - 1) \o SubSeq(e.s, z, Len(e.s)), b, c), !.i = b + Len(c)]
      done[n \in 0 .. Len(line)] ==
        IF n = 0 THEN [s |-> line, i |-> 1, bad |-> FALSE] ELSE step(done[n - 1])
  IN  done[Len(line)]

-----------------------------------------------------------------------------
(* get_line.  An editing step maps the screen, the line and the cursor.    *)

Now == [scr |-> scr, buf |-> buf, cursor |-> cursor]
Times(n, s) == [i \in 1 .. n * Len(s) |-> s[1 + ((i - 1) % Len(s))]]
Least(a, b) == IF a <= b THEN a ELSE b

\* left and right
left(e, n) ==
  LET k == Least(n, e.cursor)
  IN  [e EXCEPT !.scr = puts(@, Times(k, <<"bs">>)), !.cursor = @ - k]
right(e, n) ==
  LET k == Least(n, Len(e.buf) - e.cursor)
  IN  [e EXCEPT !.scr = puts(@, SubSeq(e.buf, e.cursor + 1, e.cursor + k)), !.cursor = @ + k]
puts_cur(e, s) == [e EXCEPT !.scr = puts(@, s), !.cursor = @ + Len(s)]
Rest(e) == SubSeq(e.buf, e.cursor + 1, Len(e.buf))

\* The line is wiped off the screen and another one put there.
Replace(e, line) ==
  LET r == right(e, Len(e.buf) - e.cursor)
  IN  puts_cur([r EXCEPT !.scr = puts(@, Times(Len(e.buf), <<"bs", " ", "bs">>)), !.cursor = 0, !.buf = line], line)

\* A character less or more, and the part of the line behind it drawn again.
Delete(e) ==
  LET d == [e EXCEPT !.buf = strdchr(@, e.cursor + 1)]
  IN  left(puts_cur(puts_cur(d, Rest(d)), <<" ">>), Len(Rest(d)) + 1)
Insert(e, c) ==
  LET d == [e EXCEPT !.buf = strichr(@, e.cursor + 1, c)]
  IN  left(puts_cur(d, Rest(d)), Len(Rest(d)) - 1)
DelLine(e) ==
  LET n == Len(Rest(e))
  IN  left(puts_cur([e EXCEPT !.buf = SubSeq(@, 1, e.cursor)], Times(n, <<" ">>)), n)
Erase(e) == IF e.cursor = 0 THEN e ELSE Delete(left(e, 1))

Edit(c) ==
  CASE c = "FORW" -> right(Now, 1)
    [] c = "BACK" -> left(Now, 1)
    [] c = "BEGIN" -> left(Now, cursor)
    [] c = "END" -> right(Now, Len(buf) - cursor)
    [] c = "DELETE" -> Delete(Now)
    [] c = "DELLINE" -> DelLine(Now)
    [] c = "bs" -> Erase(Now)
    [] c \in Printable -> IF Len(buf) < LineSize - 1 THEN Insert(Now, c) ELSE Now

Set(e) == scr' = e.scr /\ buf' = e.buf /\ cursor' = e.cursor

\* The escape sequences for the arrows; E and G stand for themselves.
esc_to_ctl == [A |-> "PREV", B |-> "NEXT", C |-> "FORW", D |-> "BACK", F |-> "END", H |-> "BEGIN"]

\* What a key means in the present state, or that it only changes the state.
\* The letters of the sequences are typed within them only: by themselves they
\* would be characters like those of Printable.
Meaning(k) == IF esc = "HAVE_LB" /\ k \in DOMAIN esc_to_ctl THEN esc_to_ctl[k] ELSE k
Swallowed(k) == (esc = "NONE" /\ k = "esc") \/ (esc = "HAVE_ESC" /\ k = "[")

Escape(k) ==
  /\ Swallowed(k)
  /\ esc' = IF k = "esc" THEN "HAVE_ESC" ELSE "HAVE_LB"
  /\ UNCHANGED <<scr, buf, cursor, bak, hist, typed, log>>

EditKey(k) ==
  LET c == Meaning(k)
      e == Edit(c)
  IN  /\ ~Swallowed(k) /\ c \in {"FORW", "BACK", "BEGIN", "END", "DELETE", "DELLINE", "bs"} \cup Printable
      /\ esc' = "NONE" /\ Set(e)
      /\ typed' = IF pos_is_new(hist) THEN Empty ELSE typed
      /\ UNCHANGED <<bak, hist, log>>

\* Any other key rings the bell, which the screen draws like a character.  (One
\* in a line: more would only draw more of them.)
Bell(k) ==
  /\ ~Swallowed(k) /\ Meaning(k) \in {"esc", "tab"}
  /\ ~scr.odd
  /\ esc' = "NONE" /\ scr' = puts(scr, <<"bell">>)
  /\ UNCHANGED <<buf, cursor, bak, hist, typed, log>>

\* Ctrl-P: the command before.
Prev(k) ==
  LET cmd == read_last_cmd(hist)
      h   == get_last_cmd(hist)
  IN  /\ ~Swallowed(k) /\ Meaning(k) = "PREV"
      /\ esc' = "NONE"
      /\ IF cmd = Nothing THEN UNCHANGED <<scr, buf, cursor, bak, hist, typed>>
         ELSE /\ hist' = h
              /\ bak' = IF pos_is_latest(h) THEN buf ELSE bak
              /\ typed' = IF pos_is_new(hist) THEN buf ELSE typed
              /\ Set(Replace(Now, cmd))
      /\ UNCHANGED log

\* Ctrl-N: the command after, and after the last one the line set aside.
NextCmd(k) ==
  LET cmd  == read_next_cmd(hist)
      h    == get_next_cmd(hist)
      back == cmd = Nothing /\ pos_is_latest(h)
      line == CASE cmd # Nothing -> cmd [] back -> bak [] OTHER -> buf
  IN  /\ ~Swallowed(k) /\ Meaning(k) = "NEXT"
      /\ esc' = "NONE"
      /\ IF pos_is_new(hist) THEN UNCHANGED <<scr, buf, cursor, bak, hist, typed>>
         ELSE /\ hist' = IF back THEN pos_set_new(h) ELSE h
              /\ Set(Replace(Now, line))
              /\ bak' = IF back THEN Empty ELSE bak
              /\ UNCHANGED typed
      /\ UNCHANGED log

\* Return, get_cmd and a turn of main_loop: events are replaced, the line is
\* remembered if there is memory, the command runs and the prompt is shown
\* again.  Nothing keeps the replaced line within line_buf; lines that would
\* outgrow it are left out.
Enter(k, room) ==
  LET h    == pos_set_new(hist)
      x    == Expand(h, buf)
      h2   == IF room THEN add_hist_cmd(h, x.s) ELSE h
      said == IF x.bad THEN <<"!", "nl">> ELSE <<>>       \* "event not found"
  IN  /\ ~Swallowed(k) /\ Meaning(k) = "nl"
      /\ lines' = lines + 1 /\ Len(x.s) < LineSize
      /\ hist' = h2
      /\ log' = IF h2 = h THEN log ELSE Append(log, x.s)
      /\ scr' = puts([puts(scr, <<"nl">> \o said) EXCEPT !.odd = FALSE], Prompt)
      /\ buf' = Empty /\ cursor' = 0 /\ esc' = "NONE" /\ bak' = Empty /\ typed' = Empty

ConsoleNext ==
  /\ lines < MaxCmds
  /\ \E k \in ConKeys \cup Printable :
       \/ (Escape(k) \/ EditKey(k) \/ Bell(k) \/ Prev(k) \/ NextCmd(k)) /\ UNCHANGED lines
       \/ \E room \in BOOLEAN : Enter(k, room)

-----------------------------------------------------------------------------
(* Properties.                                                             *)

\* The pixels show the matrix and one cursor, always; and until the line has
\* reached the end of its row or the bell has rung, the row of the cursor shows
\* the prompt, the line and nothing else, with the cursor in its place, whatever
\* is inserted, erased, recalled and scrolled: what the user sees is what do_cmd
\* will be given.  get_line over fb_console.c; a new prompt makes an end of what
\* a long line or a bell left on the screen.
EchoRight ==
  /\ ScreenRight(scr)
  /\ ~scr.odd =>
       /\ scr.col = Len(Prompt) + cursor
       /\ \A x \in Xs : scr.pix[scr.row][x] \in
            IF x < Len(Prompt) THEN {Prompt[x + 1]}
            ELSE IF x < Len(Prompt) + Len(buf) THEN {buf[x - Len(Prompt) + 1]} ELSE {Nul, " "}

\* Walking through the history shows the commands as they were entered, the
\* last one first, and coming back gives the line as it was when the user left
\* it, however far he went and whatever he edited there: get_last_cmd,
\* get_next_cmd and bak in get_line.
RecallRight ==
  [][hist'.cur # hist.cur /\ hist'.no = hist.no =>
       buf' = IF pos_is_new(hist') THEN typed' ELSE log[Len(log) + 1 - ((hist.new - hist'.cur) % HistMax)]]_convars

\* What an event stands for: the command with that number among those kept, the
\* last one that starts like that, or the last one.
Ref(w) ==
  LET kept == {i \in 1 .. Len(log) : i > Len(log) - HistMax}
      like == {i \in kept : strprefix(log[i], w)}
  IN  CASE w = <<"!">> -> IF log = <<>> THEN Nothing ELSE log[Len(log)]
        [] IsNumber(w) -> IF Value(w) \in kept THEN log[Value(w)] ELSE Nothing
        [] OTHER -> IF like = {} THEN Nothing ELSE log[CHOOSE i \in like : \A j \in like : j <= i]
Numerals == {<<"1">>, <<"2">>, <<"3">>, <<"4">>, <<"5">>}
Openings == {<<"!">>} \cup {<<c>> : c \in Printable} \cup {<<c, d>> : c, d \in Printable}

\* An event by number is the command entered under that number, through the
\* turn of the ring and up to twice its size; one by text is the last command
\* that starts like that, as long as the ring is not full: Event,
\* find_hist_by_num, find_hist_by_prefix, read_last_cmd.
BangRight ==
  buf = Empty =>      \* the history is the same until the next line
    \A w \in Numerals \cup Openings :
      \/ IF w \in Numerals THEN Value(w) > 2 * HistMax ELSE hist.no >= HistMax
      \/ Event(pos_set_new(hist), w) = Ref(w)

\* The comment at history.c:174, "look for the nearest command that matches by
\* its prefix", and those at 53-54 and 73-74, NULL "when the command before is
\* empty or the oldest is reached".  Once the ring is full hist_new and hist_old
\* are the same, and neither search begins.
TextFound == buf = Empty => \A w \in Openings : Event(pos_set_new(hist), w) = Ref(w)
=============================================================================
