------------------------------ MODULE Console ------------------------------
(***************************************************************************)
(* The text console (kern/io/console.c) over its two drivers, VGA text     *)
(* mode (kern/io/vga.c) and the framebuffer console (kern/io/fbcon.c on    *)
(* kern/io/vesa.c), and the line editor on top of it, gets of              *)
(* kern/stdlib.c with echo on.                                             *)
(*                                                                         *)
(* VGA memory is what one sees, and its cursor is the hardware's.  The     *)
(* framebuffer console draws into a back buffer, of which invalidate shows *)
(* a part, and its cursor is a glyph drawn over the character it stands    *)
(* on: driver.tracked is where it believes that glyph to be.  A place of   *)
(* the framebuffer is one pixel, and memory is measured in pixels.         *)
(*                                                                         *)
(* The places of the screen are numbered from 0, row after row, as in VGA  *)
(* memory.  gets runs to its next getc in one step: nothing else runs.     *)
(***************************************************************************)
EXTENDS Integers, Sequences

CONSTANTS
    Width, Height,  \* of the console
    Pitch,          \* from one row of the framebuffer to the next
    Bits,           \* bits_per_pixel
    Letters,        \* the characters that leave a mark
    BufSize,        \* sizeof cmdbuf
    MaxRows         \* bound: rows that scroll off between two clears

Space == " "
NewLine == "LF"
Backspace == "BS"
CarriageReturn == "CR"
Zero == "NUL"
Cursor == "cursor"

\* Everything console_putc puts into a place of its own.
Glyphs == Letters \cup {Space}

\* A line that fills the buffer still has its first character on the screen: on
\* 80 columns by 25 rows there is room for 1921 characters, and cmdbuf has 256.
ASSUME ScreenAssumption ==
    /\ Width \in Nat \ {0} /\ Height \in Nat \ {0} /\ BufSize \in Nat \ {0}
    /\ BufSize <= (Height - 1) * Width + 1
    /\ Pitch \in Nat /\ Pitch >= Width /\ Bits \in {8, 32}
    /\ Letters \cap {Space, NewLine, Backspace, CarriageReturn, Zero, Cursor} = {}

VARIABLES
    fb,             \* the console is fbcon
    con,            \* what console_t and its driver hold, see Screens
    buf,            \* the buffer of gets, and the byte in front of it
    str,            \* gets: the place in it
    reading,        \* gets has been called and has not returned
    panicked        \* the assertion of console_erase has failed

vars == <<fb, con, buf, str, reading, panicked>>

Places == 0 .. Width * Height - 1
Nowhere == -1

\* The console: the cells of VGA memory or of the back buffer, those of the linear
\* framebuffer, x_pos and y_pos, and cursor_x and cursor_y as a place.  A ghost keeps
\* the rows that have scrolled off since the last clear.
Screens ==
    [cells : [Places -> Glyphs \cup {Cursor}], front : [Places -> Glyphs \cup {Cursor}],
     x : 0 .. Width - 1, y : 0 .. Height - 1, tracked : Places \cup {Nowhere},
     gone : Seq(Glyphs)]

\* A cursor drawn on a place hides what is there.
Shown(c) == IF c = Cursor THEN Space ELSE c

\* The place of x_pos and y_pos.
At(s) == s.y * Width + s.x
LastRow == {p \in Places : p >= (Height - 1) * Width}

-----------------------------------------------------------------------------
(* The driver                                                              *)

\* Mutation: the cursor that is drawn over is still erased later.
PutXY_Tracked(s, p, c) == [s EXCEPT !.cells[p] = c]

\* vga_put_xy, fb_putxy: a cell is drawn over, and with it the cursor there.
PutXY(s, p, c) ==
    [s EXCEPT !.cells[p] = c, !.tracked = IF @ = p THEN Nowhere ELSE @]

\* Where vesa_put_pixel keeps a place.
Offset(p) == (p % Width) + Pitch * (p \div Width)

\* Where vesa_invalidate looks for it: memblit takes the rows to be width pixels apart,
\* and the loop for 8 bits multiplies.
Source(p) == IF Bits = 8 THEN (p % Width) * Pitch * (p \div Width) ELSE p

\* The places that are copied when those in P are asked for.
Copied(P) == {p \in Places : \E q \in P : Offset(p) = Source(q)}

\* fb_invalidate on vesa_invalidate; vga_null.
Invalidate(s, P) ==
    IF fb THEN [s EXCEPT !.front = [p \in Places |-> IF p \in Copied(P) THEN s.cells[p] ELSE @[p]]]
    ELSE s

\* fb_set_cursor: a space where the cursor was, and its glyph where it is now.
SetCursor(s, p) ==
    LET erased == IF s.tracked # Nowhere
                  THEN Invalidate(PutXY(s, s.tracked, Space), {s.tracked})
                  ELSE s
    IN  IF fb THEN [Invalidate([erased EXCEPT !.cells[p] = Cursor], {p}) EXCEPT !.tracked = p]
        ELSE s

\* What one reads in the top row.
TopRow(s) == [i \in 1 .. Width |-> Shown(s.cells[i - 1])]

\* vga_scroll, fb_scroll: the rows move up, and console_clear_row clears the last.
Scroll(s) ==
    [s EXCEPT !.cells = [p \in Places |-> IF p \in LastRow THEN Space ELSE @[p + Width]],
              !.tracked = IF @ \in LastRow THEN Nowhere ELSE @,
              !.gone = @ \o TopRow(s)]

-----------------------------------------------------------------------------
(* console.c                                                               *)

\* A line feed in the last row scrolls.
Scrolls(s) == s.y + 1 >= Height

\* Mutation: only the cursor's place is shown after scrolling.
LineFeed_Unseen(s) ==
    LET t == [s EXCEPT !.x = 0]
    IN  IF Scrolls(s) THEN Scroll(t) ELSE [t EXCEPT !.y = @ + 1]

\* To the first column of the next row.
LineFeed(s) ==
    LET t == [s EXCEPT !.x = 0]
    IN  IF Scrolls(s) THEN Invalidate(Scroll(t), Places) ELSE [t EXCEPT !.y = @ + 1]

\* The character is put and x_pos goes on.
Written(s, c) == [Invalidate(PutXY(s, At(s), c), {At(s)}) EXCEPT !.x = @ + 1]

\* console_putc of anything but a backspace; its last call is to set_cursor.
Putc(s, c) ==
    LET t == CASE c = NewLine -> LineFeed(s)
               [] c = CarriageReturn -> [s EXCEPT !.x = 0]
               [] c \in Glyphs -> IF s.x + 1 >= Width THEN LineFeed(Written(s, c))
                                  ELSE Written(s, c)
    IN  SetCursor(t, At(t))

\* console_erase asserts that there is a place before the cursor's.
AtOrigin(s) == s.x = 0 /\ s.y = 0

\* Mutation: the cursor stops in the first column.
Erased_InRow(s) ==
    LET t == [s EXCEPT !.x = IF @ > 0 THEN @ - 1 ELSE 0]
        u == Invalidate(PutXY(t, At(t), Space), {At(t)})
    IN  SetCursor(u, At(u))

\* One place back, around the left edge too.
Erased(s) ==
    LET t == IF s.x > 0 THEN [s EXCEPT !.x = @ - 1]
             ELSE [s EXCEPT !.x = Width - 1, !.y = @ - 1]
        u == Invalidate(PutXY(t, At(t), Space), {At(t)})
    IN  SetCursor(u, At(u))

\* putc on the console's character device.
Echo(c) ==
    IF c # Backspace
    THEN /\ con' = Putc(con, c)
         /\ UNCHANGED panicked
    ELSE IF AtOrigin(con)
    THEN panicked' = TRUE /\ UNCHANGED con
    ELSE con' = Erased(con) /\ UNCHANGED panicked

Blank ==
    [cells |-> [p \in Places |-> Space], front |-> [p \in Places |-> Space],
     x |-> 0, y |-> 0, tracked |-> Nowhere, gone |-> <<>>]

\* console_clear: every cell is put anew, and the cursor is drawn by the next putc.
Cleared(s) ==
    [Blank EXCEPT !.front = Invalidate([s EXCEPT !.cells = Blank.cells], Places).front]

Room == Len(con.gone) < MaxRows * Width

\* What commands print between two lines, the prompt included.
Output ==
    /\ ~panicked /\ ~reading /\ Room
    /\ \E c \in Glyphs \cup {NewLine, CarriageReturn} : Echo(c)
    /\ UNCHANGED <<fb, buf, str, reading>>

\* The command clear; fbcon_resize and a new font end in the same call.
Clear ==
    /\ ~panicked /\ ~reading
    /\ con' = Cleared(con)
    /\ UNCHANGED <<fb, buf, str, reading, panicked>>

-----------------------------------------------------------------------------
(* gets                                                                    *)

\* The byte in front of the buffer belongs to nobody here: it may be anything, and
\* what matters is whether it is a line feed.
Gets ==
    /\ ~panicked /\ ~reading
    /\ \E b \in {Zero, NewLine} : buf' = [buf EXCEPT ![-1] = b]
    /\ str' = 0
    /\ reading' = TRUE
    /\ UNCHANGED <<fb, con, panicked>>

\* The end of the loop's body: *str++ is compared with a line feed, and the line
\* is ended in its place.
EndOfTurn(b, s) ==
    /\ str' = IF b[s] # NewLine THEN s + 1 ELSE s
    /\ buf' = IF b[s] # NewLine THEN b ELSE [b EXCEPT ![s] = Zero]
    /\ reading' = (b[s] # NewLine)

\* getc returns a character other than the backspace.
GetcOther ==
    /\ ~panicked /\ reading /\ str < BufSize /\ Room
    /\ \E c \in Glyphs \cup {NewLine} :
        /\ Echo(c)
        /\ EndOfTurn([buf EXCEPT ![str] = c], str)
    /\ UNCHANGED fb

\* A backspace is echoed and blanked with the character before it.
GetcBackspace ==
    /\ ~panicked /\ reading /\ str < BufSize /\ str > 0
    /\ Echo(Backspace)
    /\ IF AtOrigin(con)
       THEN buf' = [buf EXCEPT ![str] = Backspace] /\ UNCHANGED <<str, reading>>
       ELSE EndOfTurn([buf EXCEPT ![str] = Zero, ![str - 1] = Zero], str - 2)
    /\ UNCHANGED fb

\* Mutation: it is echoed at the start of the line too.
GetcBackspaceAtStart_Echoed ==
    /\ ~panicked /\ reading /\ str < BufSize /\ str = 0
    /\ Echo(Backspace)
    /\ EndOfTurn([buf EXCEPT ![str] = Zero], -1)
    /\ UNCHANGED fb

\* At the start of the line it is blanked alone.
GetcBackspaceAtStart ==
    /\ ~panicked /\ reading /\ str < BufSize /\ str = 0
    /\ EndOfTurn([buf EXCEPT ![str] = Zero], -1)
    /\ UNCHANGED <<fb, con, panicked>>

-----------------------------------------------------------------------------
Init ==
    /\ fb \in BOOLEAN
    /\ con = Blank
    /\ buf = [i \in -1 .. BufSize - 1 |-> Zero]
    /\ str = 0
    /\ reading = FALSE
    /\ panicked = FALSE

Next == Output \/ Clear \/ Gets \/ GetcOther \/ GetcBackspace \/ GetcBackspaceAtStart

Spec == Init /\ [][Next]_vars

-----------------------------------------------------------------------------
\* Every variable has its type; gets is within its buffer, the byte in front of it
\* included, and the console within its screen.
TypeOK ==
    /\ fb \in BOOLEAN /\ reading \in BOOLEAN /\ panicked \in BOOLEAN
    /\ con \in Screens
    /\ buf \in [-1 .. BufSize - 1 -> Glyphs \cup {NewLine, Backspace, Zero}]
    /\ str \in -1 .. BufSize /\ (reading => str # -1)

\* What one sees.
Seen == IF fb THEN con.front ELSE con.cells

\* After every call of console_putc and console_clear the framebuffer shows what was
\* drawn: no call forgets to invalidate a part of the back buffer it has changed, and
\* vesa_invalidate copies what it is asked for.
SeenIsDrawn == Seen = con.cells

\* No backspace finds the cursor at the origin: however far a line has scrolled, its
\* first character is on the screen when gets rubs it out.
NeverPanics == ~panicked

\* What is on the screen and above it, and the place of the cursor in that.
Roll == con.gone \o [i \in 1 .. Width * Height |-> Shown(con.cells[i - 1])]
Pos == Len(con.gone) + At(con)

\* The line in the buffer of gets: while it is typed, and once it is ended.
Typed ==
    LET Ended == {n \in 0 .. BufSize - 1 : buf[n] = Zero /\ \A i \in 0 .. n - 1 : buf[i] # Zero}
        length == IF reading THEN str ELSE CHOOSE n \in Ended : TRUE
    IN  [i \in 1 .. length |-> buf[i - 1]]

\* What one has typed stands in front of the cursor, character for character, however
\* the line has wrapped, scrolled and been rubbed out: gets and console_erase agree
\* on how far a backspace goes.
LineOnScreen ==
    reading => /\ Len(Typed) <= Pos
               /\ \A i \in 1 .. Len(Typed) : Roll[Pos - Len(Typed) + i] = Typed[i]

Terminal ==
    INSTANCE AbstractTerminal
    WITH roll <- Roll, pos <- Pos, line <- Typed, reading <- reading /\ ~panicked

\* Console and line editor implement a roll of paper with a line at its end.  An
\* erase that ran into the origin of the screen would end a line nobody ended.
ImplementsTerminal == Terminal!Spec
=============================================================================
