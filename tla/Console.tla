------------------------------ MODULE Console ------------------------------
(***************************************************************************)
(* source/gfx.c: where text lands in the 720 x 1280 frame buffer, which    *)
(* lies on its side (x counts the lines of text, y runs from 1279 down),   *)
(* and source/install.c: which rows an installation writes and when it     *)
(* clears them.  A glyph is its cell; colours and shapes are left out.     *)
(***************************************************************************)
EXTENDS Integers, Sequences

CONSTANT MaxFallbacks    \* folders of one installation whose first copy fails (one less in the OC pack)

VARIABLES con,       \* x, y, left margin (YLeftConfig) and the position the caller saved
          outside,   \* a glyph or a pixel left the frame buffer
          rows,      \* rows written since the screen was cleared
          covered,   \* a row was written over without being cleared
          todo,      \* what the installation still prints; "free" for any other text
          fallbacks, \* folders that the fallback may still have to copy
          pen        \* the line being drawn

conVars == <<con, outside, rows, covered, todo, fallbacks, pen>>

YLEFT == 1279
Width == 720
PenFrom == 3
PenRange == 0..6
PenUp == [down |-> FALSE, x |-> 0, y |-> 0, x1 |-> 0, y1 |-> 0, err |-> 0]
-----------------------------------------------------------------------------
Inside(k, size) == k.x + size <= Width /\ k.y < YLEFT + 1 /\ k.y >= size - 1

\* After a glyph: the line of text is full when less than a cell is left.
AfterGlyph(k, size) ==
    IF k.y - size >= size THEN [k EXCEPT !.y = @ - size]
    ELSE LET x == k.x + size
         IN [k EXCEPT !.y = k.left, !.x = IF size = 16 /\ x > 719 THEN 0 ELSE x]
NewLine_unbounded(k, size) == [k EXCEPT !.y = k.left, !.x = @ + size]    \* mutant: no wrap to the top
NewLine(k, size) ==
    [k EXCEPT !.y = k.left, !.x = IF k.x + size > Width - size THEN 0 ELSE k.x + size]
gfx_putc(k, size, c) ==
    CASE c = "glyph" -> AfterGlyph(k, size)
      [] c = "newline" -> NewLine(k, size)
      [] c = "column 44" -> [k EXCEPT !.y = 575]
      [] c = "column 40" -> [k EXCEPT !.y = 639]
      [] c = "return" -> [k EXCEPT !.y = k.left]

\* n glyphs from k: where the console is after them, and whether all were inside.
Glyphs(k, size, n) ==
    LET put[i \in 0..n] ==
            IF i = 0 THEN [at |-> k, fits |-> TRUE]
            ELSE LET p == put[i - 1] IN [at |-> AfterGlyph(p.at, size), fits |-> p.fits /\ Inside(p.at, size)]
    IN put[n]
gfx_con_setpos(k, x, y) == [k EXCEPT !.x = y, !.y = YLEFT - x]
gfx_con_getpos(k) == [k EXCEPT !.saved = <<YLEFT - k.y, k.x>>]
-----------------------------------------------------------------------------
Put(p) == con' = p.at /\ outside' = (outside \/ ~p.fits)
Freely == todo = <<"free">> /\ UNCHANGED <<rows, covered, todo, fallbacks, pen>>

Putc ==
    /\ Freely
    /\ \E c \in {"glyph", "newline", "column 44", "column 40", "return"} :
          Put([at |-> gfx_putc(con, 16, c), fits |-> c = "glyph" => Inside(con, 16)])
\* Small text that its writer breaks before the row does (at a wrap, gfx.c:284
\* only adds 8 to x and never goes back to the top).
gfx_puts_small ==
    /\ Freely
    /\ \E n \in {1, 3} : con.y >= 8 * (n + 1) /\ Put(Glyphs(con, 8, n))
\* "%3d": blanks are skipped, zeros are drawn; values in the formats of the payload fit.
_gfx_putn ==
    /\ Freely
    /\ \E fill \in {" ", "0"}, width \in {2, 3}, digits \in 1..3 :
          /\ digits <= width
          /\ con.y >= 16 * width + 15    \* a skipped column is not wrapped
          /\ Put(IF fill = " " THEN Glyphs([con EXCEPT !.y = @ - 16 * (width - digits)], 16, digits)
                   ELSE Glyphs(con, 16, width))
Format_b ==
    /\ Freely
    /\ \E b \in {0, 32} : con' = [con EXCEPT !.y = YLEFT - b, !.left = YLEFT - b] /\ UNCHANGED outside
\* Back to the beginning of a line that was saved (gfx_con_getpos counts from 1279).
Setpos ==
    /\ Freely /\ UNCHANGED outside
    /\ \E row \in 0..44 : con' = gfx_con_setpos(con, 0, 16 * row)
-----------------------------------------------------------------------------
(* What an installation prints: rows of text, "check" for                  *)
(* check_and_clear_screen_if_needed, and one item per folder copied.       *)
Text(n) == [i \in 1..n |-> "row"]
Check == <<"check">>
update_mode_install_rows(folders) ==
    Check \o Text(1) \o [i \in 1..folders |-> "folder"] \o Text(4)
cleanup_staging_directory_rows == Check \o Text(4)
update_mode_cleanup_rows == Check \o Text(6)
clean_mode_wipe_rows(found) == Text(found) \o Text(3)
print_header == <<"clear">> \o Text(4)
perform_installation_rows(mode, found, folders) ==
    IF mode = "update"
    THEN Text(1) \o update_mode_cleanup_rows \o Check \o Text(2) \o update_mode_install_rows(folders)
             \o Check \o cleanup_staging_directory_rows
    ELSE Text(3) \o Check \o Text(2) \o clean_mode_wipe_rows(found) \o Check \o Text(4)
             \o Check \o Text(2) \o update_mode_install_rows(folders) \o Check \o cleanup_staging_directory_rows

Summary == <<"clear">> \o Text(17)    \* main.c:352-, at most

\* A row of at most 79 glyphs and its newline.
Row(c) == [at |-> NewLine(Glyphs(c, 16, 40).at, 16), fits |-> Glyphs(c, 16, 40).fits]
gfx_clear_grey == con' = gfx_con_setpos(con, 0, 0) /\ rows' = {} /\ UNCHANGED outside

PrintRow ==
    /\ todo # <<>> /\ Head(todo) = "row" /\ todo' = Tail(todo)
    /\ Put(Row(con)) /\ rows' = rows \cup {con.x} /\ covered' = (covered \/ con.x \in rows)
    /\ UNCHANGED <<fallbacks, pen>>
check_and_clear_screen_late ==    \* mutant: no room is left below
    /\ todo # <<>> /\ Head(todo) = "check"
    /\ IF con.x > 43 * 16 THEN gfx_clear_grey /\ todo' = Text(4) \o Tail(todo)
       ELSE todo' = Tail(todo) /\ UNCHANGED <<con, outside, rows>>
    /\ UNCHANGED <<covered, fallbacks, pen>>
check_and_clear_screen_if_needed ==
    /\ todo # <<>> /\ Head(todo) = "check"
    /\ IF con.x > 35 * 16 THEN gfx_clear_grey /\ todo' = Text(4) \o Tail(todo)
       ELSE todo' = Tail(todo) /\ UNCHANGED <<con, outside, rows>>
    /\ UNCHANGED <<covered, fallbacks, pen>>
ClearScreen ==
    /\ todo # <<>> /\ Head(todo) = "clear" /\ gfx_clear_grey /\ todo' = Tail(todo)
    /\ UNCHANGED <<covered, fallbacks, pen>>
\* The progress line is written over itself, from the position saved before it.
\* What follows it: nothing for an empty folder, one row when the folder is copied
\* or missing, five rows and the fallback's when the copy fails; without a fallback
\* the installation is over.
folder_copy_with_progress_v2 ==
    /\ todo # <<>> /\ Head(todo) = "folder" /\ UNCHANGED <<rows, covered, pen>>
    /\ \/ \E n \in {0, 1} : todo' = Text(n) \o Tail(todo) /\ UNCHANGED <<con, outside, fallbacks>>
       \/ \E p \in {Glyphs(gfx_con_getpos(con), 16, 40)} :
             /\ con' = gfx_con_setpos(p.at, p.at.saved[1], p.at.saved[2])
             /\ outside' = (outside \/ ~p.fits)
             /\ \/ todo' = Text(1) \o Tail(todo) /\ UNCHANGED fallbacks
                \/ todo' = Text(5) \o Summary /\ UNCHANGED fallbacks
                \/ /\ fallbacks > 0 /\ fallbacks' = fallbacks - 1
                   /\ todo' = Text(6) \o Tail(todo)
-----------------------------------------------------------------------------
Magnitude(d) == IF d < 0 THEN -d ELSE d
\* gfx_line: from a corner towards (x1, y1), one pixel at a time.
StartLine ==
    /\ todo = <<"free">> /\ con.x = 0 /\ con.y = YLEFT /\ ~pen.down
    /\ \E x1 \in PenRange, y1 \in PenRange :
          LET dx == Magnitude(x1 - PenFrom)
              dy == Magnitude(y1 - PenFrom)
          IN pen' = [down |-> TRUE, x |-> PenFrom, y |-> PenFrom, x1 |-> x1, y1 |-> y1,
                     err |-> IF dx > dy THEN dx \div 2 ELSE -(dy \div 2)]
    /\ UNCHANGED <<con, outside, rows, covered, todo, fallbacks>>
Towards(from, to) == IF from < to THEN 1 ELSE -1
gfx_line ==
    /\ pen.down /\ <<pen.x, pen.y>> # <<pen.x1, pen.y1>>
    /\ LET dx == Magnitude(pen.x1 - PenFrom)
           dy == Magnitude(pen.y1 - PenFrom)
           across == pen.err > -dx
           along == pen.err < dy
       IN pen' = [pen EXCEPT !.x = IF across THEN @ + Towards(PenFrom, pen.x1) ELSE @,
                             !.y = IF along THEN @ + Towards(PenFrom, pen.y1) ELSE @,
                             !.err = @ - (IF across THEN dy ELSE 0) + (IF along THEN dx ELSE 0)]
    /\ UNCHANGED <<con, outside, rows, covered, todo, fallbacks>>
EndLine ==
    /\ pen.down /\ <<pen.x, pen.y>> = <<pen.x1, pen.y1>> /\ pen' = PenUp
    /\ UNCHANGED <<con, outside, rows, covered, todo, fallbacks>>
-----------------------------------------------------------------------------
\* gfx_con_init leaves y at 0; every program prints its header first.
ConsoleInit ==
    /\ con \in {[x |-> 0, y |-> 0, left |-> YLEFT, saved |-> <<0, 0>>]}
    /\ outside = FALSE /\ rows = {} /\ covered = FALSE /\ pen = PenUp
    /\ \E mode \in {"update", "clean", "free"}, found \in {0, 4}, folders \in {5, 6} :
       /\ fallbacks = CASE mode = "free" -> 0 [] folders = 6 -> MaxFallbacks - 1 [] OTHER -> MaxFallbacks
       /\ todo = print_header \o (IF mode = "free" THEN <<"free">>
                                  ELSE Text(2) \o perform_installation_rows(mode, found, folders) \o Summary)
ConsoleStep ==
    \/ Putc \/ gfx_puts_small \/ _gfx_putn \/ Format_b \/ Setpos
    \/ PrintRow \/ check_and_clear_screen_if_needed \/ ClearScreen \/ folder_copy_with_progress_v2
ConsoleNext == (~pen.down /\ ConsoleStep) \/ StartLine \/ gfx_line \/ EndLine
ConsoleSpec == ConsoleInit /\ [][ConsoleNext]_conVars /\ WF_conVars(gfx_line \/ EndLine)
-----------------------------------------------------------------------------
ConsoleTypeOK ==
    /\ con.x \in 0..(Width - 1) /\ con.y \in 0..YLEFT /\ con.left \in 0..YLEFT
    /\ rows \subseteq 0..(Width - 1) /\ fallbacks \in 0..MaxFallbacks

\* Whatever is printed after the header, wherever the caller returns to, every glyph
\* lies on the frame buffer, and so does every pixel of a line, between its ends
\* (gfx.c:186, :611).
DrawnInside ==
    /\ ~outside
    /\ pen.down => /\ pen.x \in PenFrom..pen.x1 \cup pen.x1..PenFrom
                     /\ pen.y \in PenFrom..pen.y1 \cup pen.y1..PenFrom
\* As long as no more folders than that fall back to the second copy, the
\* checks between the steps of an installation are close enough that no message is
\* written over another one that was not cleared (install.c:47).
MessagesKept == ~covered
\* A line is under way; it reaches its end.
Drawing == pen.down
=============================================================================
