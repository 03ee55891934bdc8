----------------------------- MODULE FbConsole ------------------------------
(***************************************************************************)
(* The console on the screen: drivers/fb/fb_console.c over fb.c.  A screen *)
(* is a record: where the next character goes, the matrix of characters    *)
(* kept to speed up scrolling, the glyphs the pixels really show, and the  *)
(* cells drawn in reverse, of which the cursor is one.  A cell's pixels    *)
(* are one glyph: fb_drawfont and fb_set write all of them, and            *)
(* fb_drawfont_reverse is its own inverse, in every colour depth.          *)
(***************************************************************************)
EXTENDS CLib

CONSTANTS
  Rows, Cols,   \* raw_limit and col_limit
  WordBytes     \* memcpy32 and memset32 work in words of this many bytes

\* With a width that is no multiple of a word the matrix would not be copied
\* and cleared to its end.
ASSUME ScreenAssumption == Rows \in Nat \ {0, 1} /\ Cols \in Nat \ {0} /\ Cols % WordBytes = 0

Nul == "nul"     \* what memset32 puts into the matrix, and an empty cell
Ys == 0 .. Rows - 1
Xs == 0 .. Cols - 1

\* The whole screen in the background's colour.
fb_fill == [y \in Ys |-> [x \in Xs |-> Nul]]

\* fbconsole_init.  odd is a history variable: since it was last cleared a row
\* was filled to its end, or a bell was drawn.
BlankScreen == [row |-> 0, col |-> 0, map |-> fb_fill, pix |-> fb_fill, rev |-> {}, odd |-> FALSE]

\* cursor_set and cursor_off: fb_drawfont_reverse at the current position.
DrawReverse(s) ==
  LET cell == <<s.row, s.col>>
  IN  [s EXCEPT !.rev = IF cell \in @ THEN @ \ {cell} ELSE @ \cup {cell}]

\* fb_drawfont and the entry in the matrix.
Draw(s, c) ==
  [s EXCEPT !.pix[s.row][s.col] = c, !.map[s.row][s.col] = c, !.rev = @ \ {<<s.row, s.col>>}]

\* fb_set and memset32 over a row.
EmptyRow == [x \in Xs |-> Nul]

\* fbcon_scrollup: only the cells that change are drawn again; the last row is
\* filled with the background.
ChangedBlank(s, y, x) == s.map[y + 1][x] # s.map[y][x] /\ s.map[y + 1][x] # Nul
Changed(s, y, x) == s.map[y + 1][x] # s.map[y][x]
fbcon_scrollup(s) ==
  LET last  == Rows - 1
      drawn(y, x) == y = last \/ Changed(s, y, x)
  IN  [s EXCEPT !.pix = [y \in Ys |-> [x \in Xs |->
                           CASE y = last -> EmptyRow[x]
                             [] y < last /\ Changed(s, y, x) -> s.map[y + 1][x]
                             [] OTHER -> s.pix[y][x]]],
                !.rev = {c \in @ : ~drawn(c[1], c[2])},
                !.map = [y \in Ys |-> IF y = last THEN EmptyRow ELSE s.map[y + 1]]]

fbcon_newline(s) ==
  IF s.row + 1 >= Rows THEN [fbcon_scrollup(s) EXCEPT !.col = 0]
  ELSE [s EXCEPT !.col = 0, !.row = @ + 1]

\* It does not go back to the row above.
fbcon_backspace(s) == [s EXCEPT !.col = IF @ = 0 THEN 0 ELSE @ - 1]

\* fbcon_putchar.  A bell is drawn like any other character.
fbcon_putchar(s, c) ==
  LET t == Draw(s, c)
      u == [t EXCEPT !.col = @ + 1, !.odd = @ \/ c = "bell" \/ s.col + 1 >= Cols]
  IN  DrawReverse(CASE c = "cr" -> DrawReverse(s)
                     [] c = "nl" -> fbcon_newline(DrawReverse(s))
                     [] c = "bs" -> fbcon_backspace(DrawReverse(s))
                     [] OTHER -> IF u.col >= Cols THEN fbcon_newline(u) ELSE u)

\* A text as termio_write sends it, line ends as two characters: write, fputs,
\* puts, fputc and putchar.
puts(s, text) ==
  LET at[i \in 0 .. Len(text)] ==
        IF i = 0 THEN s
        ELSE IF text[i] = "nl" THEN fbcon_putchar(fbcon_putchar(at[i - 1], "cr"), "nl")
        ELSE fbcon_putchar(at[i - 1], text[i])
  IN  at[Len(text)]

-----------------------------------------------------------------------------
\* The screen shows what the matrix holds, and one cell in reverse, the cursor's:
\* the shortcut in scrolling and the toggled cursor never leave a trace.  Until
\* the first character there is no cursor.
ScreenRight(s) ==
  /\ s.pix = s.map
  /\ s.rev = {<<s.row, s.col>>}
=============================================================================
