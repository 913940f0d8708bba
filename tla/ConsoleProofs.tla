--------------------------- MODULE ConsoleProofs ---------------------------
(***************************************************************************)
(* Proofs about Console, for every size of the screen and of the buffer:   *)
(* type correctness, that what is drawn is seen, that no backspace finds   *)
(* the cursor at the origin, that the line stands before the cursor, and   *)
(* that console and line editor implement AbstractTerminal; and about      *)
(* Framebuffer, for every list of modes and every font that fits them.     *)
(***************************************************************************)
EXTENDS Console, Framebuffer, NumberLemmas, SequenceTheorems, TLAPS

\* What is invalidated is what is asked for.
Exact == \A P \in SUBSET Places : Copied(P) = P

Drawn(s) == fb /\ Exact => s.front = s.cells

\* The cursor has as many places before it as gets has characters to rub out.  A
\* line that scrolls leaves the cursor in the last row, and all the rows above that
\* row are enough for the buffer but for its last byte.
CursorBehindLine ==
    reading => At(con) >= (IF str < BufSize THEN str ELSE BufSize - 1)

IInv == TypeOK /\ Drawn(con) /\ NeverPanics /\ CursorBehindLine

(* Products the provers meet: the rows above row y, and all rows. *)
LEMMA Rows ==
    /\ Width \in Nat \ {0} /\ Height \in Nat \ {0} /\ BufSize \in Nat \ {0}
    /\ Width * Height \in Nat /\ (Height - 1) * Width \in Nat
    /\ Width * Height = (Height - 1) * Width + Width
    /\ BufSize - 1 <= (Height - 1) * Width
<1>1. Width \in Nat \ {0} /\ Height \in Nat \ {0} /\ BufSize \in Nat \ {0}
  BY ScreenAssumption
<1>2. Width * Height = (Height - 1) * Width + Width
  BY <1>1
<1>3. (Height - 1) * Width \in Nat /\ Width * Height \in Nat
  BY <1>1
<1> QED BY <1>1, <1>2, <1>3, ScreenAssumption

(* Row y begins at y * Width, and not behind the last row. *)
LEMMA RowStart ==
    ASSUME NEW y \in 0 .. Height - 1
    PROVE  /\ y * Width \in Nat
           /\ y * Width <= (Height - 1) * Width
           /\ y > 0 => (y - 1) * Width = y * Width - Width
           /\ y + 1 < Height => (y + 1) * Width = y * Width + Width
<1>1. Width \in Nat \ {0} /\ Height \in Nat \ {0}
  BY Rows
<1>2. y \in Nat /\ Height - 1 - y \in Nat
  BY <1>1
<1>3. y * Width \in Nat /\ (Height - 1 - y) * Width \in Nat
  BY <1>1, <1>2
<1>4. (Height - 1) * Width = y * Width + (Height - 1 - y) * Width
  BY <1>1, <1>2
<1>5. (y - 1) * Width = y * Width - Width /\ (y + 1) * Width = y * Width + Width
  BY <1>1, <1>2
<1> QED BY <1>3, <1>4, <1>5, Rows

(* The cursor stands on a place of the screen. *)
LEMMA Standing ==
    ASSUME NEW s \in Screens
    PROVE  At(s) \in Places
<1>1. s.x \in 0 .. Width - 1 /\ s.y \in 0 .. Height - 1
  BY DEF Screens
<1> QED BY <1>1, Rows, RowStart DEF At, Places

(* What a function of the driver leaves alone of the console. *)
SamePlace(s, t) == t.x = s.x /\ t.y = s.y

LEMMA PutXYKeeps ==
    ASSUME NEW s \in Screens, NEW p \in Places, NEW c \in Glyphs
    PROVE  /\ PutXY(s, p, c) \in Screens
           /\ SamePlace(s, PutXY(s, p, c))
           /\ PutXY(s, p, c).front = s.front
           /\ PutXY(s, p, c).cells = [s.cells EXCEPT ![p] = c]
           /\ PutXY(s, p, c).gone = s.gone
BY DEF PutXY, Screens, SamePlace, Nowhere

(* What invalidate leaves alone. *)
LEMMA InvalidateKeeps ==
    ASSUME NEW s \in Screens, NEW P
    PROVE  /\ Invalidate(s, P) \in Screens
           /\ SamePlace(s, Invalidate(s, P))
           /\ Invalidate(s, P).cells = s.cells
           /\ Invalidate(s, P).gone = s.gone
           /\ Invalidate(s, P).tracked = s.tracked
           /\ fb => Invalidate(s, P).front =
                        [p \in Places |-> IF p \in Copied(P) THEN s.cells[p] ELSE s.front[p]]
BY DEF Invalidate, Screens, SamePlace

(* A place drawn over and invalidated is seen. *)
LEMMA InvalidateShows ==
    ASSUME NEW s \in Screens, NEW t \in Screens, NEW p \in Places, Drawn(s),
           t.front = s.front, \A q \in Places \ {p} : t.cells[q] = s.cells[q]
    PROVE  Drawn(Invalidate(t, {p}))
<1> SUFFICES ASSUME fb, Exact PROVE Invalidate(t, {p}).front = Invalidate(t, {p}).cells
  BY DEF Drawn
<1>1. Invalidate(t, {p}).cells = t.cells
  BY InvalidateKeeps
<1>2. Invalidate(t, {p}).front = [q \in Places |-> IF q \in {p} THEN t.cells[q] ELSE t.front[q]]
  <2>1. Copied({p}) = {p}
    BY DEF Exact
  <2>2. Invalidate(t, {p}).front =
            [q \in Places |-> IF q \in Copied({p}) THEN t.cells[q] ELSE t.front[q]]
    BY InvalidateKeeps
  <2> QED BY <2>1, <2>2
<1>3. t.cells \in [Places -> Glyphs \cup {Cursor}]
  BY DEF Screens
<1>4. \A q \in Places : (IF q \in {p} THEN t.cells[q] ELSE t.front[q]) = t.cells[q]
  BY DEF Drawn
<1> QED BY <1>1, <1>2, <1>3, <1>4

(* A character put and invalidated is seen. *)
LEMMA PutShows ==
    ASSUME NEW s \in Screens, Drawn(s), NEW p \in Places, NEW c \in Glyphs
    PROVE  /\ Invalidate(PutXY(s, p, c), {p}) \in Screens
           /\ Drawn(Invalidate(PutXY(s, p, c), {p}))
           /\ SamePlace(s, Invalidate(PutXY(s, p, c), {p}))
<1> DEFINE t == PutXY(s, p, c)
<1>1. /\ t \in Screens /\ SamePlace(s, t) /\ t.front = s.front
      /\ t.cells = [s.cells EXCEPT ![p] = c]
  BY PutXYKeeps
<1>2. \A q \in Places \ {p} : t.cells[q] = s.cells[q]
  <2> HIDE DEF t
  <2> QED BY <1>1 DEF Screens
<1> HIDE DEF t
<1>3. Drawn(Invalidate(t, {p}))
  BY <1>1, <1>2, InvalidateShows
<1>4. Invalidate(t, {p}) \in Screens /\ SamePlace(t, Invalidate(t, {p}))
  BY <1>1, InvalidateKeeps
<1> QED BY <1>1, <1>3, <1>4 DEF t, SamePlace

(* The space is among the characters. *)
LEMMA SpaceIsGlyph == Space \in Glyphs
BY DEF Glyphs

(* The cursor moves and nothing else. *)
LEMMA SetCursorShows ==
    ASSUME NEW s \in Screens, Drawn(s), NEW p \in Places
    PROVE  SetCursor(s, p) \in Screens /\ Drawn(SetCursor(s, p)) /\ SamePlace(s, SetCursor(s, p))
<1> DEFINE e == IF s.tracked # Nowhere
                THEN Invalidate(PutXY(s, s.tracked, Space), {s.tracked})
                ELSE s
           d == [e EXCEPT !.cells[p] = Cursor]
           i == Invalidate(d, {p})
           r == [i EXCEPT !.tracked = p]
<1>1. s.tracked \in Places \cup {Nowhere}
  BY DEF Screens
<1>2. e \in Screens /\ Drawn(e) /\ SamePlace(s, e)
  BY <1>1, PutShows, SpaceIsGlyph DEF SamePlace
<1>3. SetCursor(s, p) = IF fb THEN r ELSE s
  BY DEF SetCursor
<1> HIDE DEF e
<1>4. /\ d \in Screens /\ SamePlace(e, d) /\ d.front = e.front
      /\ \A q \in Places \ {p} : d.cells[q] = e.cells[q]
  BY <1>2 DEF Screens, SamePlace
<1> HIDE DEF d
<1>5. i \in Screens /\ Drawn(i) /\ SamePlace(d, i)
  BY <1>2, <1>4, InvalidateShows, InvalidateKeeps
<1> HIDE DEF i
<1>6. r \in Screens /\ r.front = i.front /\ r.cells = i.cells /\ SamePlace(i, r)
  BY <1>5 DEF Screens, SamePlace
<1> HIDE DEF r
<1>7. Drawn(r) /\ SamePlace(s, r)
  BY <1>2, <1>4, <1>5, <1>6 DEF Drawn, SamePlace
<1> QED BY <1>3, <1>6, <1>7 DEF SamePlace

(* x_pos changes alone. *)
LEMMA MoveXKeeps ==
    ASSUME NEW s \in Screens, NEW i \in 0 .. Width - 1
    PROVE  /\ [s EXCEPT !.x = i] \in Screens
           /\ [s EXCEPT !.x = i].x = i /\ [s EXCEPT !.x = i].y = s.y
           /\ Drawn(s) => Drawn([s EXCEPT !.x = i])
BY DEF Screens, Drawn

(* y_pos changes alone. *)
LEMMA MoveYKeeps ==
    ASSUME NEW s \in Screens, NEW j \in 0 .. Height - 1
    PROVE  /\ [s EXCEPT !.y = j] \in Screens
           /\ [s EXCEPT !.y = j].x = s.x /\ [s EXCEPT !.y = j].y = j
           /\ Drawn(s) => Drawn([s EXCEPT !.y = j])
BY DEF Screens, Drawn

(* The rows move up by one, and the last one is empty. *)
LEMMA ScrollKeeps ==
    ASSUME NEW s \in Screens
    PROVE  Scroll(s) \in Screens /\ SamePlace(s, Scroll(s))
<1>1. \A p \in Places : p \notin LastRow => p + Width \in Places
  BY Rows DEF Places, LastRow
<1>2. TopRow(s) \in Seq(Glyphs)
  <2>1. \A i \in 1 .. Width : i - 1 \in Places
    <3>1. 0 <= (Height - 1) * Width
      BY Rows
    <3> QED BY <3>1, Rows DEF Places
  <2>2. \A i \in 1 .. Width : Shown(s.cells[i - 1]) \in Glyphs
    BY <2>1, SpaceIsGlyph DEF Screens, Shown
  <2>3. TopRow(s) \in [1 .. Width -> Glyphs] /\ Width \in Nat
    BY <2>2, Rows DEF TopRow
  <2> HIDE DEF TopRow
  <2> QED BY <2>3, SeqDef
<1>3. s.gone \o TopRow(s) \in Seq(Glyphs)
  BY <1>2 DEF Screens
<1>4. [p \in Places |-> IF p \in LastRow THEN Space ELSE s.cells[p + Width]]
        \in [Places -> Glyphs \cup {Cursor}]
  BY <1>1, SpaceIsGlyph DEF Screens
<1>5. (IF s.tracked \in LastRow THEN Nowhere ELSE s.tracked) \in Places \cup {Nowhere}
  BY DEF Screens
<1>6. s = [cells |-> s.cells, front |-> s.front, x |-> s.x, y |-> s.y,
           tracked |-> s.tracked, gone |-> s.gone]
  BY DEF Screens
<1>7. Scroll(s) = [cells |-> [p \in Places |-> IF p \in LastRow THEN Space ELSE s.cells[p + Width]],
                   front |-> s.front, x |-> s.x, y |-> s.y,
                   tracked |-> IF s.tracked \in LastRow THEN Nowhere ELSE s.tracked,
                   gone |-> s.gone \o TopRow(s)]
  <2> DEFINE row == TopRow(s)
  <2> HIDE DEF row
  <2>1. Scroll(s) = [s EXCEPT
            !.cells = [p \in Places |-> IF p \in LastRow THEN Space ELSE s.cells[p + Width]],
            !.tracked = IF s.tracked \in LastRow THEN Nowhere ELSE s.tracked,
            !.gone = s.gone \o row]
    BY <1>6 DEF Scroll, row
  <2> QED BY <1>6, <2>1 DEF row
<1>8. s.front \in [Places -> Glyphs \cup {Cursor}] /\ s.x \in 0 .. Width - 1 /\ s.y \in 0 .. Height - 1
  BY DEF Screens
<1> HIDE DEF Scroll
<1>9. Scroll(s).x = s.x /\ Scroll(s).y = s.y
  BY <1>7
<1> QED BY <1>3, <1>4, <1>5, <1>7, <1>8, <1>9 DEF Screens, SamePlace

(* All of the screen is seen once all of it is invalidated. *)
LEMMA InvalidateAll ==
    ASSUME NEW s \in Screens
    PROVE  Drawn(Invalidate(s, Places))
<1> SUFFICES ASSUME fb, Exact PROVE Invalidate(s, Places).front = Invalidate(s, Places).cells
  BY DEF Drawn
<1>1. Invalidate(s, Places).front = [p \in Places |-> IF p \in Places THEN s.cells[p] ELSE s.front[p]]
  BY InvalidateKeeps DEF Exact
<1>2. Invalidate(s, Places).cells = s.cells /\ s.cells \in [Places -> Glyphs \cup {Cursor}]
  BY InvalidateKeeps DEF Screens
<1> QED BY <1>1, <1>2

(* A line feed ends in the first column of the next row, or of the last. *)
LEMMA LineFeedShows ==
    ASSUME NEW s, NEW t \in Screens, t = [s EXCEPT !.x = 0], t.x = 0, t.y = s.y, Drawn(t)
    PROVE  /\ LineFeed(s) \in Screens /\ Drawn(LineFeed(s))
           /\ LineFeed(s).x = 0
           /\ LineFeed(s).y = IF s.y + 1 < Height THEN s.y + 1 ELSE Height - 1
<1>1. t.y \in 0 .. Height - 1 /\ Height \in Nat \ {0}
  BY Rows DEF Screens
<1>2. CASE Scrolls(s)
  <2> DEFINE r == Scroll(t)
  <2>1. LineFeed(s) = Invalidate(r, Places)
    BY <1>2 DEF LineFeed
  <2>2. r \in Screens /\ SamePlace(t, r)
    BY ScrollKeeps
  <2> HIDE DEF r
  <2>3. /\ Invalidate(r, Places) \in Screens /\ Drawn(Invalidate(r, Places))
        /\ SamePlace(r, Invalidate(r, Places))
    BY <2>2, InvalidateKeeps, InvalidateAll
  <2> QED BY <1>1, <1>2, <2>1, <2>2, <2>3 DEF Scrolls, SamePlace
<1>3. CASE ~Scrolls(s)
  <2> DEFINE n == [t EXCEPT !.y = @ + 1]
  <2>1. LineFeed(s) = n
    BY <1>3 DEF LineFeed
  <2>2. s.y + 1 \in 0 .. Height - 1
    BY <1>1, <1>3 DEF Scrolls
  <2>3. n = [t EXCEPT !.y = s.y + 1]
    OBVIOUS
  <2>4. n \in Screens /\ n.x = 0 /\ n.y = s.y + 1 /\ Drawn(n)
    <3> HIDE DEF n
    <3> QED BY <2>2, <2>3, MoveYKeeps
  <2> HIDE DEF n
  <2> QED BY <1>1, <1>3, <2>1, <2>4 DEF Scrolls
<1> QED BY <1>2, <1>3

(* The characters console_putc treats in ways of their own. *)
LEMMA Controls ==
    ASSUME NEW c \in Glyphs
    PROVE  c # NewLine /\ c # CarriageReturn /\ c # Backspace
BY ScreenAssumption DEF Glyphs, NewLine, CarriageReturn, Backspace, Space

(* console_putc of one of these. *)
LEMMA PutcControl ==
    ASSUME NEW s \in Screens
    PROVE  /\ Putc(s, NewLine) = SetCursor(LineFeed(s), At(LineFeed(s)))
           /\ Putc(s, CarriageReturn) = SetCursor([s EXCEPT !.x = 0], At([s EXCEPT !.x = 0]))
<1>1. NewLine \notin Glyphs /\ CarriageReturn \notin Glyphs /\ NewLine # CarriageReturn
  BY Controls DEF NewLine, CarriageReturn
<1> QED BY <1>1 DEF Putc

(* console_putc of another character. *)
LEMMA PutcGlyph ==
    ASSUME NEW s \in Screens, NEW c \in Glyphs, NEW w, w = Written(s, c)
    PROVE  /\ s.x + 1 >= Width => Putc(s, c) = SetCursor(LineFeed(w), At(LineFeed(w)))
           /\ s.x + 1 < Width => Putc(s, c) = SetCursor(w, At(w))
<1>1. s.x \in Nat /\ Width \in Nat
  BY Rows DEF Screens
<1>2. Putc(s, c) = LET t == IF s.x + 1 >= Width THEN LineFeed(w) ELSE w IN SetCursor(t, At(t))
  <2> HIDE DEF Written
  <2> QED BY Controls DEF Putc
<1> QED BY <1>1, <1>2

(* The character is put and seen, and the cursor is one place further, or it has
   come to the last row by scrolling. *)
LEMMA PutcShows ==
    ASSUME NEW s \in Screens, Drawn(s), NEW c \in Glyphs \cup {NewLine, CarriageReturn}
    PROVE  /\ Putc(s, c) \in Screens /\ Drawn(Putc(s, c))
           /\ c \in Glyphs => \/ At(Putc(s, c)) = At(s) + 1
                             \/ At(Putc(s, c)) = (Height - 1) * Width
<1>1. s.x \in 0 .. Width - 1 /\ s.y \in 0 .. Height - 1 /\ Width \in Nat \ {0} /\ Height \in Nat \ {0}
  BY Rows DEF Screens
<1>2. c \in Glyphs => c # NewLine /\ c # CarriageReturn
  BY Controls
<1> DEFINE z == [s EXCEPT !.x = 0]
<1>3. z \in Screens /\ z.x = 0 /\ z.y = s.y /\ Drawn(z)
  BY <1>1 DEF Screens, Drawn
<1>4. ASSUME NEW t \in Screens, Drawn(t), Putc(s, c) = SetCursor(t, At(t))
      PROVE  /\ Putc(s, c) \in Screens /\ Drawn(Putc(s, c))
             /\ At(Putc(s, c)) = At(t)
  <2>1. SetCursor(t, At(t)) \in Screens /\ Drawn(SetCursor(t, At(t))) /\ SamePlace(t, SetCursor(t, At(t)))
    BY <1>4, Standing, SetCursorShows
  <2> QED BY <1>4, <2>1 DEF At, SamePlace
<1>5. CASE c = NewLine
  <2>1. Putc(s, c) = SetCursor(LineFeed(s), At(LineFeed(s)))
    BY <1>5, PutcControl
  <2>2. LineFeed(s) \in Screens /\ Drawn(LineFeed(s))
    BY <1>3, LineFeedShows
  <2> QED BY <1>2, <1>4, <1>5, <2>1, <2>2
<1>6. CASE c = CarriageReturn
  <2>1. Putc(s, c) = SetCursor(z, At(z))
    BY <1>6, PutcControl
  <2> HIDE DEF z
  <2> QED BY <1>2, <1>3, <1>4, <1>6, <2>1
<1>7. CASE c \in Glyphs
  <2> DEFINE i == Invalidate(PutXY(s, At(s), c), {At(s)})
             w == Written(s, c)
  <2>1. i \in Screens /\ Drawn(i) /\ SamePlace(s, i)
    BY <1>7, Standing, PutShows
  <2>2. w = [i EXCEPT !.x = @ + 1]
    BY DEF Written
  <2>3. /\ s.x + 1 >= Width => Putc(s, c) = SetCursor(LineFeed(w), At(LineFeed(w)))
        /\ s.x + 1 < Width => Putc(s, c) = SetCursor(w, At(w))
    BY <1>7, PutcGlyph
  <2> HIDE DEF i, w
  <2>4. w.y = s.y /\ [w EXCEPT !.x = 0] = [i EXCEPT !.x = 0]
    BY <2>1, <2>2 DEF Screens, SamePlace
  <2>5. CASE s.x + 1 < Width
    <3>1. s.x + 1 \in 0 .. Width - 1 /\ w = [i EXCEPT !.x = s.x + 1]
      BY <1>1, <2>1, <2>2, <2>5 DEF SamePlace
    <3>2. w \in Screens /\ w.x = s.x + 1 /\ Drawn(w)
      BY <1>1, <2>1, <3>1, MoveXKeeps
    <3>3. At(w) = At(s) + 1
      <4>1. s.y * Width \in Nat
        BY <1>1, RowStart
      <4> QED BY <1>1, <2>4, <3>2, <4>1 DEF At
    <3> QED BY <1>4, <2>3, <2>5, <3>2, <3>3
  <2>6. CASE s.x + 1 >= Width
    <3> DEFINE b == [i EXCEPT !.x = 0]
               l == LineFeed(w)
    <3>1. 0 \in 0 .. Width - 1 /\ i.y = s.y
      BY <1>1, <2>1 DEF SamePlace
    <3>2. b \in Screens /\ b.x = 0 /\ b.y = s.y /\ Drawn(b)
      BY <1>1, <2>1, <3>1, MoveXKeeps
    <3> HIDE DEF b
    <3>3. b = [w EXCEPT !.x = 0] /\ b.y = w.y
      BY <2>4, <3>2 DEF b
    <3>4. /\ l \in Screens /\ Drawn(l)
          /\ l.x = 0 /\ l.y = IF w.y + 1 < Height THEN w.y + 1 ELSE Height - 1
      BY <3>2, <3>3, LineFeedShows
    <3> HIDE DEF l
    <3>5. At(l) = At(s) + 1 \/ At(l) = (Height - 1) * Width
      <4>1. s.x = Width - 1
        BY <1>1, <2>6
      <4>2. CASE s.y + 1 < Height
        BY <1>1, <2>4, <3>4, <4>1, <4>2, RowStart DEF At
      <4>3. CASE ~(s.y + 1 < Height)
        BY <1>1, <2>4, <3>4, <4>3, Rows DEF At
      <4> QED BY <4>2, <4>3
    <3>6. Putc(s, c) = SetCursor(l, At(l))
      BY <2>3, <2>6 DEF l
    <3> QED BY <1>4, <3>4, <3>5, <3>6
  <2> QED BY <1>1, <2>5, <2>6
<1> QED BY <1>5, <1>6, <1>7

(* One place back, around the left edge too. *)
LEMMA BackKeeps ==
    ASSUME NEW s \in Screens, Drawn(s), ~AtOrigin(s), NEW t,
           t = IF s.x > 0 THEN [s EXCEPT !.x = @ - 1] ELSE [s EXCEPT !.x = Width - 1, !.y = @ - 1]
    PROVE  /\ t \in Screens /\ Drawn(t) /\ At(t) = At(s) - 1
           /\ t.cells = s.cells /\ t.gone = s.gone /\ t.tracked = s.tracked
<1>1. s.x \in 0 .. Width - 1 /\ s.y \in 0 .. Height - 1 /\ Width \in Nat \ {0} /\ Height \in Nat \ {0}
  BY Rows DEF Screens
<1>2. t.cells = s.cells /\ t.gone = s.gone /\ t.tracked = s.tracked
  BY DEF Screens
<1>3. CASE s.x > 0
  <2> DEFINE r == [s EXCEPT !.x = s.x - 1]
  <2>1. s.x - 1 \in 0 .. Width - 1 /\ t = r
    BY <1>1, <1>3
  <2>2. r \in Screens /\ Drawn(r) /\ r.x = s.x - 1 /\ r.y = s.y
    BY <2>1, MoveXKeeps
  <2> HIDE DEF r
  <2>3. s.y * Width \in Nat
    BY <1>1, RowStart
  <2> QED BY <1>1, <1>2, <2>1, <2>2, <2>3 DEF At
<1>4. CASE ~(s.x > 0)
  <2> DEFINE r == [s EXCEPT !.x = Width - 1]
  <2>1. s.x = 0 /\ s.y > 0 /\ s.y - 1 \in 0 .. Height - 1 /\ Width - 1 \in 0 .. Width - 1
    BY <1>1, <1>4 DEF AtOrigin
  <2>2. r \in Screens /\ Drawn(r) /\ r.x = Width - 1 /\ r.y = s.y
    BY <2>1, MoveXKeeps
  <2> DEFINE v == [r EXCEPT !.y = s.y - 1]
  <2>3. t = v
    BY <1>1, <1>4 DEF Screens
  <2> HIDE DEF r
  <2>4. v \in Screens /\ Drawn(v) /\ v.x = Width - 1 /\ v.y = s.y - 1
    BY <2>1, <2>2, MoveYKeeps
  <2> HIDE DEF v
  <2>5. s.y * Width \in Nat /\ (s.y - 1) * Width = s.y * Width - Width
    BY <1>1, <2>1, RowStart
  <2> QED BY <1>1, <1>2, <2>1, <2>3, <2>4, <2>5 DEF At
<1> QED BY <1>3, <1>4

(* The cursor is one place back, and the place is empty. *)
LEMMA ErasedShows ==
    ASSUME NEW s \in Screens, Drawn(s), ~AtOrigin(s)
    PROVE  /\ Erased(s) \in Screens /\ Drawn(Erased(s))
           /\ At(Erased(s)) = At(s) - 1
<1> DEFINE t == IF s.x > 0 THEN [s EXCEPT !.x = @ - 1]
                ELSE [s EXCEPT !.x = Width - 1, !.y = @ - 1]
           u == Invalidate(PutXY(t, At(t), Space), {At(t)})
<1>1. Erased(s) = SetCursor(u, At(u))
  BY DEF Erased
<1>2. t \in Screens /\ Drawn(t) /\ At(t) = At(s) - 1
  <2> DEFINE v == t
  <2> HIDE DEF v
  <2>1. v \in Screens /\ Drawn(v) /\ At(v) = At(s) - 1
    BY BackKeeps DEF v
  <2> QED BY <2>1 DEF v
<1> HIDE DEF t
<1>3. u \in Screens /\ Drawn(u) /\ SamePlace(t, u)
  BY <1>2, Standing, PutShows, SpaceIsGlyph
<1> HIDE DEF u
<1>4. /\ SetCursor(u, At(u)) \in Screens /\ Drawn(SetCursor(u, At(u)))
      /\ SamePlace(u, SetCursor(u, At(u)))
  BY <1>3, Standing, SetCursorShows
<1> QED BY <1>1, <1>2, <1>3, <1>4 DEF At, SamePlace

(* So is a console before anything is written on it. *)
LEMMA BlankShows == Blank \in Screens /\ Drawn(Blank)
<1>1. 0 \in 0 .. Width - 1 /\ 0 \in 0 .. Height - 1
  BY Rows
<1>2. <<>> \in Seq(Glyphs)
  OBVIOUS
<1>3. [p \in Places |-> Space] \in [Places -> Glyphs \cup {Cursor}]
  BY SpaceIsGlyph
<1> QED BY <1>1, <1>2, <1>3 DEF Blank, Screens, Drawn

(* A cleared console is one, and is seen as drawn. *)
LEMMA ClearedShows ==
    ASSUME NEW s \in Screens
    PROVE  /\ Cleared(s) \in Screens /\ Drawn(Cleared(s))
           /\ Cleared(s).gone = <<>> /\ Cleared(s).tracked = Nowhere
           /\ Cleared(s).cells = [p \in Places |-> Space] /\ Cleared(s).x = 0 /\ Cleared(s).y = 0
<1> DEFINE e == [s EXCEPT !.cells = Blank.cells]
           i == Invalidate(e, Places)
<1>1. e \in Screens /\ e.cells = Blank.cells
  BY BlankShows DEF Screens
<1> HIDE DEF e
<1>2. i \in Screens /\ Drawn(i) /\ i.cells = Blank.cells
  BY <1>1, InvalidateKeeps, InvalidateAll
<1> HIDE DEF i
<1>3. Cleared(s) = [Blank EXCEPT !.front = i.front]
  BY DEF Cleared, e, i
<1>4. /\ Cleared(s).gone = <<>> /\ Cleared(s).tracked = Nowhere /\ Cleared(s).front = i.front
      /\ Cleared(s).cells = Blank.cells /\ Cleared(s).x = 0 /\ Cleared(s).y = 0
  BY <1>3 DEF Blank
<1>5. Cleared(s) \in Screens
  BY <1>2, <1>3, BlankShows DEF Screens
<1> QED BY <1>2, <1>4, <1>5 DEF Drawn, Blank

(* What gets leaves at the end of a turn, at place k of a buffer b. *)
LEMMA TurnKeeps ==
    ASSUME NEW b \in [-1 .. BufSize - 1 -> Glyphs \cup {NewLine, Backspace, Zero}],
           NEW k \in -1 .. BufSize - 1, EndOfTurn(b, k)
    PROVE  /\ buf' \in [-1 .. BufSize - 1 -> Glyphs \cup {NewLine, Backspace, Zero}]
           /\ str' \in -1 .. BufSize /\ reading' \in BOOLEAN
           /\ reading' => str' = k + 1
<1>1. BufSize \in Nat \ {0}
  BY Rows
<1>2. CASE b[k] # NewLine
  BY <1>1, <1>2 DEF EndOfTurn
<1>3. CASE b[k] = NewLine
  <2>1. buf' = [b EXCEPT ![k] = Zero] /\ str' = k /\ reading' = FALSE
    BY <1>3 DEF EndOfTurn
  <2>2. [b EXCEPT ![k] = Zero] \in [-1 .. BufSize - 1 -> Glyphs \cup {NewLine, Backspace, Zero}]
    OBVIOUS
  <2>3. k \in -1 .. BufSize
    BY <1>1
  <2> QED BY <2>1, <2>2, <2>3
<1> QED BY <1>2, <1>3

(* It holds initially. *)
LEMMA InitInv == Init => IInv
<1> SUFFICES ASSUME Init PROVE IInv
  OBVIOUS
<1>1. con \in Screens /\ Drawn(con)
  BY BlankShows DEF Init
<1>2. BufSize \in Nat /\ str \in -1 .. BufSize
  BY Rows DEF Init
<1>3. buf \in [-1 .. BufSize - 1 -> Glyphs \cup {NewLine, Backspace, Zero}]
  BY DEF Init
<1> QED BY <1>1, <1>2, <1>3 DEF Init, IInv, TypeOK, NeverPanics, CursorBehindLine

(* Output moves the cursor, but nobody is typing. *)
LEMMA OutputInv == IInv /\ Output => IInv'
<1> SUFFICES ASSUME IInv, Output PROVE IInv'
  OBVIOUS
<1>1. PICK c \in Glyphs \cup {NewLine, CarriageReturn} : Echo(c)
  BY DEF Output
<1>2. Backspace \notin Glyphs \cup {NewLine, CarriageReturn}
  BY ScreenAssumption DEF Glyphs, NewLine, CarriageReturn, Space, Backspace
<1>3. con' = Putc(con, c) /\ UNCHANGED panicked
  BY <1>1, <1>2 DEF Echo
<1>4. con' \in Screens /\ Drawn(con)'
  <2>1. con \in Screens /\ Drawn(con)
    BY DEF IInv, TypeOK
  <2>2. Putc(con, c) \in Screens /\ Drawn(Putc(con, c))
    BY <2>1, PutcShows
  <2> QED BY <1>3, <2>2 DEF Drawn, Output
<1>5. Drawn(con)'
  BY <1>4 DEF Drawn
<1> QED BY <1>3, <1>4, <1>5 DEF IInv, TypeOK, NeverPanics, CursorBehindLine, Output

(* Neither is anybody when the screen is cleared. *)
LEMMA ClearInv == IInv /\ Clear => IInv'
<1> SUFFICES ASSUME IInv, Clear PROVE IInv'
  OBVIOUS
<1>1. con' \in Screens /\ Drawn(con)'
  BY ClearedShows DEF Clear, Drawn, IInv, TypeOK
<1> QED BY <1>1 DEF IInv, TypeOK, NeverPanics, CursorBehindLine, Clear

(* An empty line needs no place before the cursor. *)
LEMMA GetsInv == IInv /\ Gets => IInv'
<1> SUFFICES ASSUME IInv, Gets PROVE IInv'
  OBVIOUS
<1>1. con' \in Screens /\ Drawn(con)' /\ con' = con
  BY DEF IInv, TypeOK, Gets, Drawn
<1>2. At(con) \in Nat
  BY Standing DEF Places, IInv, TypeOK
<1>3. CursorBehindLine'
  BY <1>1, <1>2, Rows DEF CursorBehindLine, Gets
<1> QED BY <1>1, <1>3, Rows DEF IInv, TypeOK, NeverPanics, Gets

(* A character takes one place more, or the cursor is in the last row. *)
LEMMA OtherInv == IInv /\ GetcOther => IInv'
<1> SUFFICES ASSUME IInv, GetcOther PROVE IInv'
  OBVIOUS
<1>1. PICK c \in Glyphs \cup {NewLine} : Echo(c) /\ EndOfTurn([buf EXCEPT ![str] = c], str)
  BY DEF GetcOther
<1>2. Backspace \notin Glyphs \cup {NewLine}
  BY ScreenAssumption DEF Glyphs, NewLine, Space, Backspace
<1>3. con' = Putc(con, c) /\ UNCHANGED <<panicked, fb>>
  BY <1>1, <1>2 DEF Echo, GetcOther
<1>4. con \in Screens /\ Drawn(con) /\ str \in 0 .. BufSize - 1 /\ BufSize \in Nat \ {0}
  BY Rows DEF IInv, TypeOK, GetcOther
<1>5. /\ con' \in Screens /\ Drawn(con')
      /\ c \in Glyphs => At(con') = At(con) + 1 \/ At(con') = (Height - 1) * Width
  BY <1>3, <1>4, PutcShows
<1>6. Drawn(con)'
  BY <1>3, <1>5 DEF Drawn
<1> DEFINE b == [buf EXCEPT ![str] = c]
<1>7. b \in [-1 .. BufSize - 1 -> Glyphs \cup {NewLine, Backspace, Zero}] /\ b[str] = c
  BY <1>4 DEF IInv, TypeOK
<1>8. EndOfTurn(b, str)
  BY <1>1
<1> HIDE DEF b
<1>9. /\ buf' \in [-1 .. BufSize - 1 -> Glyphs \cup {NewLine, Backspace, Zero}]
      /\ str' \in -1 .. BufSize /\ reading' \in BOOLEAN
      /\ reading' => str' = str + 1 /\ c # NewLine
  <2>1. str \in -1 .. BufSize - 1
    BY <1>4
  <2>2. reading' => c # NewLine
    BY <1>7, <1>8 DEF EndOfTurn
  <2> QED BY <1>7, <1>8, <2>1, <2>2, TurnKeeps
<1>10. CursorBehindLine'
  <2> SUFFICES ASSUME reading'
               PROVE  At(con') >= (IF str' < BufSize THEN str' ELSE BufSize - 1)
    BY DEF CursorBehindLine
  <2>1. At(con) >= str /\ At(con) \in Nat /\ At(con') \in Nat
    BY <1>4, <1>5, Standing DEF IInv, CursorBehindLine, GetcOther, Places
  <2>2. c \in Glyphs /\ str' = str + 1
    BY <1>9
  <2> QED BY <1>4, <1>5, <2>1, <2>2, Rows
<1> QED BY <1>3, <1>4, <1>5, <1>6, <1>9, <1>10 DEF IInv, TypeOK, NeverPanics

(* A backspace gives up one place, and there is one. *)
LEMMA BackspaceInv == IInv /\ GetcBackspace => IInv'
<1> SUFFICES ASSUME IInv, GetcBackspace PROVE IInv'
  OBVIOUS
<1>1. con \in Screens /\ Drawn(con) /\ str \in 1 .. BufSize - 1 /\ BufSize \in Nat \ {0}
  BY Rows DEF IInv, TypeOK, GetcBackspace
<1>2. At(con) >= str
  BY <1>1 DEF IInv, CursorBehindLine, GetcBackspace
<1>3. ~AtOrigin(con)
  <2> SUFFICES ASSUME con.x = 0, con.y = 0 PROVE FALSE
    BY DEF AtOrigin
  <2>1. At(con) = 0
    BY Rows DEF At
  <2> QED BY <1>1, <1>2, <2>1
<1>4. con' = Erased(con) /\ UNCHANGED <<panicked, fb>>
  BY <1>3 DEF Echo, GetcBackspace
<1>5. con' \in Screens /\ Drawn(con') /\ At(con') = At(con) - 1
  BY <1>1, <1>3, <1>4, ErasedShows
<1>6. Drawn(con)'
  BY <1>4, <1>5 DEF Drawn
<1> DEFINE b == [buf EXCEPT ![str] = Zero, ![str - 1] = Zero]
<1>7. b \in [-1 .. BufSize - 1 -> Glyphs \cup {NewLine, Backspace, Zero}]
  BY <1>1 DEF IInv, TypeOK
<1>8. EndOfTurn(b, str - 2)
  BY <1>3 DEF GetcBackspace
<1> HIDE DEF b
<1>9. /\ buf' \in [-1 .. BufSize - 1 -> Glyphs \cup {NewLine, Backspace, Zero}]
      /\ str' \in -1 .. BufSize /\ reading' \in BOOLEAN
      /\ reading' => str' = str - 1
  <2>1. str - 2 \in -1 .. BufSize - 1 /\ str - 2 + 1 = str - 1
    BY <1>1
  <2> QED BY <1>7, <1>8, <2>1, TurnKeeps
<1>10. CursorBehindLine'
  <2>1. At(con) \in Nat /\ At(con') \in Nat
    BY <1>1, <1>5, Standing DEF Places
  <2> QED BY <1>1, <1>2, <1>5, <1>9, <2>1 DEF CursorBehindLine
<1> QED BY <1>1, <1>4, <1>5, <1>6, <1>9, <1>10 DEF IInv, TypeOK, NeverPanics

(* At the start of the line nothing is erased. *)
LEMMA BackspaceAtStartInv == IInv /\ GetcBackspaceAtStart => IInv'
<1> SUFFICES ASSUME IInv, GetcBackspaceAtStart PROVE IInv'
  OBVIOUS
<1>1. BufSize \in Nat \ {0} /\ str = 0 /\ con' = con /\ con \in Screens
  BY Rows DEF GetcBackspaceAtStart, IInv, TypeOK
<1>2. Drawn(con)' /\ con' \in Screens
  BY DEF IInv, TypeOK, GetcBackspaceAtStart, Drawn
<1> DEFINE b == [buf EXCEPT ![str] = Zero]
<1>3. b \in [-1 .. BufSize - 1 -> Glyphs \cup {NewLine, Backspace, Zero}]
  BY <1>1 DEF IInv, TypeOK
<1>4. EndOfTurn(b, -1)
  BY DEF GetcBackspaceAtStart
<1> HIDE DEF b
<1>5. /\ buf' \in [-1 .. BufSize - 1 -> Glyphs \cup {NewLine, Backspace, Zero}]
      /\ str' \in -1 .. BufSize /\ reading' \in BOOLEAN
      /\ reading' => str' = 0
  <2>1. -1 \in -1 .. BufSize - 1 /\ -1 + 1 = 0
    BY <1>1
  <2> QED BY <1>3, <1>4, <2>1, TurnKeeps
<1>6. CursorBehindLine'
  <2>1. At(con) \in Nat
    BY <1>1, Standing DEF Places
  <2> QED BY <1>1, <1>5, <2>1 DEF CursorBehindLine
<1> QED BY <1>1, <1>2, <1>5, <1>6 DEF IInv, TypeOK, NeverPanics, GetcBackspaceAtStart

-----------------------------------------------------------------------------
(* What stands before the cursor, the rows that scrolled off included.     *)

TextAt(s, n) ==
    IF n < Len(s.gone) THEN s.gone[n + 1] ELSE Shown(s.cells[n - Len(s.gone)])
PosOf(s) == Len(s.gone) + At(s)

\* Of the cursor that is drawn the driver knows the place, and it is the console's.
Tracked(s) == s.tracked \in (IF fb THEN {Nowhere, At(s)} ELSE {Nowhere})

\* The text of s before place n is that of t.
SameBefore(s, t, n) == \A m \in Nat : m < n => TextAt(t, m) = TextAt(s, m)

\* The characters in the buffer stand before the cursor.
LinePlaced ==
    reading => /\ str <= PosOf(con)
               /\ \A i \in 0 .. str - 1 : TextAt(con, PosOf(con) - str + i) = buf[i]

LineInv == IInv /\ Tracked(con) /\ LinePlaced

(* A character stands where the cursor was, and what is before it is as it was. *)
LEMMA PutText ==
    ASSUME NEW s \in Screens, NEW c \in Glyphs, Tracked(s)
    PROVE  LET t == Invalidate(PutXY(s, At(s), c), {At(s)})
           IN  /\ t.tracked = Nowhere /\ t.gone = s.gone
               /\ SameBefore(s, t, PosOf(s)) /\ TextAt(t, PosOf(s)) = c
<1> DEFINE u == PutXY(s, At(s), c)
           t == Invalidate(u, {At(s)})
<1>1. At(s) \in Places /\ At(s) \in Nat
  BY Standing DEF Places
<1>2. u \in Screens /\ u.cells = [s.cells EXCEPT ![At(s)] = c] /\ u.gone = s.gone
  BY <1>1, PutXYKeeps
<1>3. u.tracked = Nowhere
  BY <1>1 DEF PutXY, Screens, Tracked, Nowhere
<1> HIDE DEF u
<1>4. t.cells = u.cells /\ t.gone = u.gone /\ t.tracked = u.tracked
  BY <1>2, InvalidateKeeps
<1> HIDE DEF t
<1>5. Len(s.gone) \in Nat /\ s.cells \in [Places -> Glyphs \cup {Cursor}]
  BY DEF Screens
<1>6. TextAt(t, PosOf(s)) = c
  <2>1. ~(PosOf(s) < Len(s.gone)) /\ PosOf(s) - Len(s.gone) = At(s)
    BY <1>1, <1>5 DEF PosOf
  <2>2. Shown(c) = c
    BY ScreenAssumption DEF Shown, Glyphs, Space, Cursor
  <2> QED BY <1>1, <1>2, <1>4, <1>5, <2>1, <2>2 DEF TextAt
<1>7. ASSUME NEW m \in Nat, m < PosOf(s)
      PROVE  TextAt(t, m) = TextAt(s, m)
  <2>1. CASE m < Len(s.gone)
    BY <1>2, <1>4, <2>1 DEF TextAt
  <2>2. CASE ~(m < Len(s.gone))
    <3> DEFINE q == m - Len(s.gone)
    <3>1. q \in Places /\ q # At(s)
      BY <1>1, <1>5, <1>7, <2>2, Rows DEF PosOf, Places
    <3>2. t.cells[q] = s.cells[q]
      <4> HIDE DEF q
      <4> QED BY <1>1, <1>2, <1>4, <1>5, <3>1
    <3> QED BY <1>2, <1>4, <2>2, <3>2 DEF TextAt
  <2> QED BY <2>1, <2>2
<1> QED BY <1>2, <1>3, <1>4, <1>6, <1>7 DEF u, t, SameBefore

(* Scrolling moves all of the text, and loses none. *)
LEMMA ScrollText ==
    ASSUME NEW s \in Screens
    PROVE  /\ Len(Scroll(s).gone) = Len(s.gone) + Width
           /\ SameBefore(s, Scroll(s), Len(s.gone) + Width * Height)
           /\ s.tracked = Nowhere => Scroll(s).tracked = Nowhere
<1> DEFINE row == TopRow(s)
           next == [p \in Places |-> IF p \in LastRow THEN Space ELSE s.cells[p + Width]]
           r == Scroll(s)
<1>1. Width \in Nat \ {0} /\ Width * Height \in Nat /\ Width * Height = (Height - 1) * Width + Width
      /\ (Height - 1) * Width \in Nat
  BY Rows
<1>2. row \in Seq(Glyphs) /\ Len(row) = Width /\ \A i \in 1 .. Width : row[i] = Shown(s.cells[i - 1])
  <2>1. \A i \in 1 .. Width : i - 1 \in Places
    BY <1>1 DEF Places
  <2>2. \A i \in 1 .. Width : Shown(s.cells[i - 1]) \in Glyphs
    BY <2>1, SpaceIsGlyph DEF Screens, Shown
  <2>3. row \in [1 .. Width -> Glyphs] /\ \A i \in 1 .. Width : row[i] = Shown(s.cells[i - 1])
    BY <2>2 DEF TopRow
  <2> HIDE DEF row
  <2>4. row \in Seq(Glyphs)
    BY <1>1, <2>3, SeqDef
  <2>5. Len(row) = Width
    BY <1>1, <2>3, <2>4
  <2> QED BY <2>3, <2>4, <2>5
<1>3. s.gone \in Seq(Glyphs)
  BY DEF Screens
<1>4. r.cells = next /\ r.gone = s.gone \o row /\ (s.tracked = Nowhere => r.tracked = Nowhere)
  <2> HIDE DEF row
  <2>1. r = [s EXCEPT !.cells = next,
                      !.tracked = IF s.tracked \in LastRow THEN Nowhere ELSE s.tracked,
                      !.gone = s.gone \o row]
    BY DEF Scroll, row, Screens
  <2> HIDE DEF next, r
  <2> QED BY <2>1 DEF Screens, Nowhere
<1> HIDE DEF row, r
<1>5. Len(r.gone) = Len(s.gone) + Width /\ Len(s.gone) \in Nat
  BY <1>2, <1>3, <1>4
<1>6. ASSUME NEW m \in Nat, m < Len(s.gone) + Width * Height
      PROVE  TextAt(r, m) = TextAt(s, m)
  <2>1. CASE m < Len(s.gone)
    <3>1. (s.gone \o row)[m + 1] = s.gone[m + 1]
      BY <1>2, <1>3, <1>5, <2>1
    <3> QED BY <1>1, <1>4, <1>5, <2>1, <3>1 DEF TextAt
  <2>2. CASE ~(m < Len(s.gone)) /\ m < Len(s.gone) + Width
    <3> DEFINE j == m - Len(s.gone)
    <3>1. j \in 0 .. Width - 1 /\ m + 1 = Len(s.gone) + (j + 1) /\ j + 1 \in 1 .. Width
      BY <1>1, <1>5, <2>2
    <3>2. (s.gone \o row)[m + 1] = row[j + 1]
      <4> DEFINE k == m + 1
      <4>1. k \in 1 .. Len(s.gone) + Len(row) /\ ~(k <= Len(s.gone))
        BY <1>1, <1>2, <1>5, <2>2
      <4>2. k - Len(s.gone) = j + 1
        BY <1>5
      <4> HIDE DEF k, j
      <4>3. (s.gone \o row)[k] = IF k <= Len(s.gone) THEN s.gone[k] ELSE row[k - Len(s.gone)]
        BY <1>2, <1>3, <4>1, ConcatProperties
      <4> QED BY <4>1, <4>2, <4>3 DEF k
    <3>3. row[j + 1] = Shown(s.cells[j])
      <4> HIDE DEF j
      <4> QED BY <1>2, <3>1
    <3> QED BY <1>4, <1>5, <2>2, <3>2, <3>3 DEF TextAt
  <2>3. CASE ~(m < Len(s.gone) + Width)
    <3> DEFINE q == m - Len(r.gone)
    <3>1. q \in Places /\ q \notin LastRow /\ q + Width = m - Len(s.gone)
      BY <1>1, <1>5, <1>6, <2>3 DEF Places, LastRow
    <3>2. next[q] = s.cells[q + Width]
      <4> HIDE DEF q
      <4> QED BY <3>1
    <3> HIDE DEF next
    <3>3. ~(m < Len(r.gone)) /\ ~(m < Len(s.gone))
      BY <1>1, <1>5, <2>3
    <3>4. TextAt(r, m) = Shown(next[q]) /\ TextAt(s, m) = Shown(s.cells[m - Len(s.gone)])
      BY <1>4, <3>3 DEF TextAt
    <3> QED BY <3>1, <3>2, <3>4
  <2> QED BY <2>1, <2>2, <2>3
<1> QED BY <1>4, <1>5, <1>6 DEF r, SameBefore

(* The cursor is drawn without touching what is before it, unless it is erased there. *)
LEMMA SetCursorText ==
    ASSUME NEW s \in Screens, Drawn(s), fb \/ s.tracked = Nowhere
    PROVE  LET t == SetCursor(s, At(s))
           IN  /\ t.gone = s.gone /\ Tracked(t) /\ At(t) = At(s)
               /\ s.tracked = Nowhere \/ At(s) <= s.tracked => SameBefore(s, t, PosOf(s))
<1> DEFINE t == SetCursor(s, At(s))
           e == IF s.tracked # Nowhere
                THEN Invalidate(PutXY(s, s.tracked, Space), {s.tracked})
                ELSE s
           d == [e EXCEPT !.cells[At(s)] = Cursor]
           i == Invalidate(d, {At(s)})
           r == [i EXCEPT !.tracked = At(s)]
<1>1. At(s) \in Places /\ At(s) \in Nat /\ s.tracked \in Places \cup {Nowhere}
  BY Standing DEF Places, Screens
<1>2. At(t) = At(s)
  BY <1>1, SetCursorShows DEF At, SamePlace
<1>3. CASE ~fb
  <2>1. t = s
    BY <1>3 DEF SetCursor
  <2> HIDE DEF t
  <2> QED BY <1>3, <2>1 DEF Tracked, SameBefore, t
<1>4. CASE fb
  <2>1. t = r
    BY <1>4 DEF SetCursor
  <2>2. /\ e \in Screens /\ e.gone = s.gone
        /\ \A q \in Places : q # s.tracked => e.cells[q] = s.cells[q]
    <3>1. CASE s.tracked = Nowhere
      BY <3>1
    <3>2. CASE s.tracked # Nowhere
      <4> DEFINE u == PutXY(s, s.tracked, Space)
      <4>1. u \in Screens /\ u.cells = [s.cells EXCEPT ![s.tracked] = Space] /\ u.gone = s.gone
        BY <1>1, <3>2, PutXYKeeps, SpaceIsGlyph
      <4>2. e = Invalidate(u, {s.tracked})
        BY <3>2
      <4> HIDE DEF u, e
      <4>3. e \in Screens /\ e.cells = u.cells /\ e.gone = u.gone
        BY <4>1, <4>2, InvalidateKeeps
      <4> QED BY <4>1, <4>3 DEF Screens
    <3> QED BY <3>1, <3>2
  <2> HIDE DEF e
  <2>3. /\ d \in Screens /\ d.gone = e.gone
        /\ \A q \in Places : q # At(s) => d.cells[q] = e.cells[q]
    BY <1>1, <2>2 DEF Screens
  <2> HIDE DEF d
  <2>4. i \in Screens /\ i.gone = d.gone /\ i.cells = d.cells
    BY <2>3, InvalidateKeeps
  <2> HIDE DEF i
  <2>5. r.gone = i.gone /\ r.cells = i.cells /\ r.tracked = At(s)
    BY <2>4 DEF Screens
  <2> HIDE DEF r, t
  <2>6. t.gone = s.gone /\ Tracked(t)
    BY <1>2, <1>4, <2>1, <2>2, <2>3, <2>4, <2>5 DEF Tracked
  <2>7. ASSUME s.tracked = Nowhere \/ At(s) <= s.tracked, NEW m \in Nat, m < PosOf(s)
        PROVE  TextAt(t, m) = TextAt(s, m)
    <3>1. CASE m < Len(s.gone)
      BY <2>6, <3>1 DEF TextAt
    <3>2. CASE ~(m < Len(s.gone))
      <4> DEFINE q == m - Len(s.gone)
      <4>1. Len(s.gone) \in Nat
        BY DEF Screens
      <4>2. q \in Nat /\ q < At(s)
        BY <1>1, <2>7, <3>2, <4>1 DEF PosOf
      <4>3. q \in Places /\ q # At(s) /\ q # s.tracked
        BY <1>1, <2>7, <4>2, Rows DEF Places, Nowhere
      <4> HIDE DEF q
      <4>4. t.cells[q] = s.cells[q]
        BY <2>1, <2>2, <2>3, <2>4, <2>5, <4>3
      <4> QED BY <2>6, <3>2, <4>4 DEF TextAt, q
    <3> QED BY <3>1, <3>2
  <2> QED BY <1>2, <2>6, <2>7 DEF SameBefore, t
<1> QED BY <1>3, <1>4

(* A line feed keeps the text, and the cursor goes to the row after. *)
LEMMA LineFeedText ==
    ASSUME NEW s, NEW b \in Screens, b = [s EXCEPT !.x = 0], b.y = s.y
    PROVE  /\ SameBefore(b, LineFeed(s), Len(b.gone) + Width * Height)
           /\ PosOf(LineFeed(s)) = Len(b.gone) + b.y * Width + Width
           /\ b.tracked = Nowhere => LineFeed(s).tracked = Nowhere
<1> DEFINE l == LineFeed(s)
<1>1. b.y \in 0 .. Height - 1 /\ Height \in Nat \ {0} /\ Width \in Nat \ {0} /\ Len(b.gone) \in Nat
  <2>1. b.y \in 0 .. Height - 1 /\ b.gone \in Seq(Glyphs)
    BY DEF Screens
  <2> QED BY <2>1, Rows
<1>2. b.y * Width \in Nat
  BY <1>1, RowStart
<1>3. 0 \in 0 .. Width - 1
  BY <1>1
<1>4. b.x = 0
  BY <1>1 DEF Screens
<1>5. CASE Scrolls(s)
  <2> DEFINE r == Scroll(b)
  <2>1. l = Invalidate(r, Places)
    BY <1>5 DEF LineFeed
  <2>2. /\ r \in Screens /\ SamePlace(b, r) /\ Len(r.gone) = Len(b.gone) + Width
        /\ SameBefore(b, r, Len(b.gone) + Width * Height)
        /\ b.tracked = Nowhere => r.tracked = Nowhere
    BY ScrollKeeps, ScrollText
  <2> HIDE DEF r, l
  <2>3. l.cells = r.cells /\ l.gone = r.gone /\ l.tracked = r.tracked /\ SamePlace(r, l)
    BY <2>1, <2>2, InvalidateKeeps
  <2>4. SameBefore(b, l, Len(b.gone) + Width * Height)
    BY <2>2, <2>3 DEF SameBefore, TextAt
  <2>5. PosOf(l) = Len(b.gone) + b.y * Width + Width
    <3>1. At(l) = b.y * Width
      BY <1>2, <1>4, <2>2, <2>3 DEF At, SamePlace
    <3>2. PosOf(l) = Len(b.gone) + Width + b.y * Width
      BY <2>2, <2>3, <3>1 DEF PosOf
    <3> QED BY <1>1, <1>2, <3>2
  <2> QED BY <2>2, <2>3, <2>4, <2>5 DEF l
<1>6. CASE ~Scrolls(s)
  <2>1. s.y + 1 \in 0 .. Height - 1
    BY <1>1, <1>6 DEF Scrolls
  <2>2. l = [b EXCEPT !.y = s.y + 1]
    BY <1>6 DEF LineFeed
  <2> HIDE DEF l
  <2>3. /\ l.cells = b.cells /\ l.gone = b.gone /\ l.tracked = b.tracked
        /\ l.x = b.x /\ l.y = b.y + 1
    BY <2>2 DEF Screens
  <2>4. (b.y + 1) * Width = b.y * Width + Width
    BY <1>1, <2>1, RowStart
  <2>5. PosOf(l) = Len(b.gone) + b.y * Width + Width
    <3>1. At(l) = b.y * Width + Width
      BY <1>1, <1>2, <1>4, <2>3, <2>4 DEF At
    <3>2. PosOf(l) = Len(b.gone) + (b.y * Width + Width)
      BY <2>3, <3>1 DEF PosOf
    <3> QED BY <1>1, <1>2, <3>2
  <2> QED BY <2>3, <2>5 DEF l, SameBefore, TextAt
<1> QED BY <1>5, <1>6

(* What console_putc leaves behind is a console with its cursor drawn. *)
LEMMA PutcTracked ==
    ASSUME NEW s \in Screens, Drawn(s), Tracked(s), NEW c \in {NewLine, CarriageReturn}
    PROVE  Tracked(Putc(s, c))
<1> DEFINE z == [s EXCEPT !.x = 0]
           l == LineFeed(s)
<1>1. z \in Screens /\ z.x = 0 /\ z.y = s.y /\ Drawn(z) /\ z.tracked = s.tracked
  <2>1. 0 \in 0 .. Width - 1
    BY Rows
  <2> QED BY <2>1, MoveXKeeps DEF Screens
<1> HIDE DEF z
<1>2. CASE c = CarriageReturn
  <2>1. Putc(s, c) = SetCursor(z, At(z))
    BY <1>2, PutcControl DEF z
  <2>2. fb \/ z.tracked = Nowhere
    BY <1>1 DEF Tracked
  <2> QED BY <1>1, <2>1, <2>2, SetCursorText
<1>3. CASE c = NewLine
  <2>1. Putc(s, c) = SetCursor(l, At(l))
    BY <1>3, PutcControl
  <2>2. /\ l \in Screens /\ Drawn(l)
        /\ z.tracked = Nowhere => l.tracked = Nowhere
    BY <1>1, LineFeedShows, LineFeedText DEF z
  <2> HIDE DEF l
  <2>3. fb \/ l.tracked = Nowhere
    BY <1>1, <2>2 DEF Tracked
  <2> QED BY <2>1, <2>2, <2>3, SetCursorText
<1> QED BY <1>2, <1>3

(* The place behind the last one of a row. *)
LEMMA RowEnds ==
    ASSUME NEW g \in Nat, NEW a \in Nat, NEW r \in Nat, NEW w \in Nat,
           a + 1 = r + w, NEW p, p = g + a, NEW q, q = g + r + w
    PROVE  q = p + 1
OBVIOUS

(* A character goes behind the text, wherever that wraps or scrolls. *)
LEMMA PutcText ==
    ASSUME NEW s \in Screens, Drawn(s), Tracked(s), NEW c \in Glyphs
    PROVE  /\ PosOf(Putc(s, c)) = PosOf(s) + 1
           /\ SameBefore(s, Putc(s, c), PosOf(s)) /\ TextAt(Putc(s, c), PosOf(s)) = c
           /\ Tracked(Putc(s, c))
<1> DEFINE i == Invalidate(PutXY(s, At(s), c), {At(s)})
           w == Written(s, c)
<1>1. s.x \in 0 .. Width - 1 /\ s.y \in 0 .. Height - 1 /\ Width \in Nat \ {0} /\ Len(s.gone) \in Nat
  BY Rows DEF Screens
<1>2. i \in Screens /\ Drawn(i) /\ SamePlace(s, i)
  BY Standing, PutShows
<1>3. /\ i.tracked = Nowhere /\ i.gone = s.gone
      /\ SameBefore(s, i, PosOf(s)) /\ TextAt(i, PosOf(s)) = c
  BY PutText
<1>4. w = [i EXCEPT !.x = @ + 1]
  BY DEF Written
<1>5. At(s) \in Nat /\ At(s) < Width * Height
  BY Standing, Rows DEF Places
<1>6. s.y * Width \in Nat
  BY <1>1, RowStart
<1> HIDE DEF i
\* The last steps of both cases: u is the console before the call of set_cursor.
<1>7. ASSUME NEW u \in Screens, Drawn(u), u.tracked = Nowhere, Putc(s, c) = SetCursor(u, At(u)),
             PosOf(u) = PosOf(s) + 1, SameBefore(i, u, PosOf(s) + 1)
      PROVE  /\ PosOf(Putc(s, c)) = PosOf(s) + 1
             /\ SameBefore(s, Putc(s, c), PosOf(s)) /\ TextAt(Putc(s, c), PosOf(s)) = c
             /\ Tracked(Putc(s, c))
  <2> DEFINE t == Putc(s, c)
  <2>1. t.gone = u.gone /\ Tracked(t) /\ At(t) = At(u) /\ SameBefore(u, t, PosOf(u))
    BY <1>7, SetCursorText
  <2> HIDE DEF t
  <2>2. PosOf(t) = PosOf(s) + 1
    BY <1>7, <2>1 DEF PosOf
  <2>3. PosOf(s) \in Nat
    BY <1>1, <1>5 DEF PosOf
  <2>4. ASSUME NEW m \in Nat, m < PosOf(s) + 1
        PROVE  TextAt(t, m) = TextAt(i, m)
    BY <1>7, <2>1, <2>4 DEF SameBefore
  <2>5. SameBefore(s, t, PosOf(s))
    BY <1>3, <2>3, <2>4 DEF SameBefore
  <2>6. TextAt(t, PosOf(s)) = c
    BY <1>3, <2>3, <2>4
  <2> QED BY <2>1, <2>2, <2>5, <2>6 DEF t
<1>8. CASE s.x + 1 < Width
  <2>1. Putc(s, c) = SetCursor(w, At(w))
    BY <1>8, PutcGlyph
  <2>2. s.x + 1 \in 0 .. Width - 1 /\ w = [i EXCEPT !.x = s.x + 1]
    BY <1>1, <1>2, <1>4, <1>8 DEF SamePlace
  <2> HIDE DEF w
  <2>3. w \in Screens /\ Drawn(w) /\ w.x = s.x + 1 /\ w.y = s.y
    BY <1>2, <2>2, MoveXKeeps DEF SamePlace
  <2>4. w.cells = i.cells /\ w.gone = i.gone /\ w.tracked = i.tracked
    BY <1>2, <2>2 DEF Screens
  <2>5. PosOf(w) = PosOf(s) + 1
    <3>1. At(w) = At(s) + 1
      BY <1>1, <1>6, <2>3 DEF At
    <3> QED BY <1>1, <1>3, <1>5, <2>4, <3>1 DEF PosOf
  <2>6. SameBefore(i, w, PosOf(s) + 1)
    BY <2>4 DEF SameBefore, TextAt
  <2> QED BY <1>3, <1>7, <2>1, <2>3, <2>4, <2>5, <2>6
<1>9. CASE s.x + 1 >= Width
  <2> DEFINE b == [i EXCEPT !.x = 0]
             l == LineFeed(w)
  <2>1. Putc(s, c) = SetCursor(l, At(l))
    BY <1>9, PutcGlyph
  <2>2. 0 \in 0 .. Width - 1
    BY <1>1
  <2>3. /\ b \in Screens /\ Drawn(b) /\ b.x = 0 /\ b.y = s.y
        /\ b.cells = i.cells /\ b.gone = i.gone /\ b.tracked = i.tracked
    BY <1>2, <2>2, MoveXKeeps DEF SamePlace, Screens
  <2>4. b = [w EXCEPT !.x = 0] /\ b.y = w.y
    BY <1>2, <1>4, <2>3 DEF Screens, SamePlace
  <2> HIDE DEF b, w
  <2>5. l \in Screens /\ Drawn(l)
    BY <2>3, <2>4, LineFeedShows
  <2>6. /\ SameBefore(b, l, Len(b.gone) + Width * Height)
        /\ PosOf(l) = Len(b.gone) + b.y * Width + Width
        /\ l.tracked = Nowhere
    BY <1>3, <2>3, <2>4, LineFeedText
  <2> HIDE DEF l
  <2>7. PosOf(l) = PosOf(s) + 1
    <3>1. At(s) + 1 = s.y * Width + Width
      BY <1>1, <1>6, <1>9 DEF At
    <3>2. b.y * Width = s.y * Width /\ Len(b.gone) = Len(s.gone)
      BY <1>3, <2>3
    <3>3. PosOf(s) = Len(s.gone) + At(s)
      BY DEF PosOf
    <3>4. PosOf(l) = Len(s.gone) + s.y * Width + Width
      BY <2>6, <3>2
    <3>5. Len(s.gone) \in Nat /\ At(s) \in Nat /\ s.y * Width \in Nat /\ Width \in Nat
      BY <1>1, <1>5, <1>6
    <3>6. PosOf(l) = Len(s.gone) + s.y * Width + Width
      BY <3>4
    <3> QED BY <3>1, <3>3, <3>5, <3>6, RowEnds
  <2>8. PosOf(s) + 1 <= Len(b.gone) + Width * Height
    <3>1. Len(b.gone) = Len(s.gone)
      BY <1>3, <2>3
    <3>2. PosOf(s) = Len(s.gone) + At(s)
      BY DEF PosOf
    <3>3. Width * Height \in Nat
      BY Rows
    <3> QED BY <1>1, <1>5, <3>1, <3>2, <3>3
  <2>9. SameBefore(i, l, PosOf(s) + 1)
    <3> SUFFICES ASSUME NEW m \in Nat, m < PosOf(s) + 1
                 PROVE  TextAt(l, m) = TextAt(i, m)
      BY DEF SameBefore
    <3>1. PosOf(s) \in Nat /\ Len(b.gone) \in Nat /\ Width * Height \in Nat
      BY <1>1, <1>3, <1>5, <2>3, Rows DEF PosOf
    <3>2. TextAt(l, m) = TextAt(b, m)
      BY <2>6, <2>8, <3>1 DEF SameBefore
    <3> QED BY <2>3, <3>2 DEF TextAt
  <2> QED BY <1>7, <2>1, <2>5, <2>6, <2>7, <2>9
<1> QED BY <1>1, <1>8, <1>9

(* Erasing goes one place back, and leaves the text before that. *)
LEMMA ErasedText ==
    ASSUME NEW s \in Screens, Drawn(s), Tracked(s), ~AtOrigin(s)
    PROVE  /\ PosOf(Erased(s)) = PosOf(s) - 1
           /\ SameBefore(s, Erased(s), PosOf(s) - 1)
           /\ Tracked(Erased(s))
<1> DEFINE t == IF s.x > 0 THEN [s EXCEPT !.x = @ - 1]
                ELSE [s EXCEPT !.x = Width - 1, !.y = @ - 1]
           p == PutXY(t, At(t), Space)
           u == Invalidate(p, {At(t)})
           e == Erased(s)
<1>1. e = SetCursor(u, At(u))
  BY DEF Erased
<1>2. /\ t \in Screens /\ Drawn(t) /\ At(t) = At(s) - 1
      /\ t.cells = s.cells /\ t.gone = s.gone /\ t.tracked = s.tracked
  BY BackKeeps
<1> HIDE DEF t
<1>3. At(s) \in Nat /\ At(t) \in Places /\ At(t) \in Nat /\ Len(s.gone) \in Nat
  BY <1>2, Standing DEF Places, Screens
<1>4. /\ p \in Screens /\ p.cells = [t.cells EXCEPT ![At(t)] = Space] /\ p.gone = t.gone
  BY <1>2, <1>3, PutXYKeeps, SpaceIsGlyph
<1>5. p.tracked = s.tracked
  <2>1. t.tracked # At(t)
    BY <1>2, <1>3 DEF Tracked, Nowhere
  <2> QED BY <1>2, <2>1 DEF PutXY, Screens
<1>6. u \in Screens /\ Drawn(u) /\ SamePlace(t, u)
  BY <1>2, <1>3, PutShows, SpaceIsGlyph
<1> HIDE DEF p
<1>7. u.cells = p.cells /\ u.gone = p.gone /\ u.tracked = p.tracked
  BY <1>4, InvalidateKeeps
<1> HIDE DEF u, e
<1>8. At(u) = At(s) - 1 /\ PosOf(u) = PosOf(s) - 1
  BY <1>2, <1>3, <1>4, <1>6, <1>7 DEF At, SamePlace, PosOf
<1>9. fb \/ u.tracked = Nowhere
  BY <1>5, <1>7 DEF Tracked
<1>10. u.tracked = Nowhere \/ At(u) <= u.tracked
  BY <1>3, <1>5, <1>7, <1>8 DEF Tracked
<1>11. e.gone = u.gone /\ Tracked(e) /\ At(e) = At(u) /\ SameBefore(u, e, PosOf(u))
  BY <1>1, <1>6, <1>9, <1>10, SetCursorText
<1>12. ASSUME NEW m \in Nat, m < PosOf(s) - 1
       PROVE  TextAt(u, m) = TextAt(s, m)
  <2>1. CASE m < Len(s.gone)
    BY <1>2, <1>4, <1>7, <2>1 DEF TextAt
  <2>2. CASE ~(m < Len(s.gone))
    <3> DEFINE q == m - Len(s.gone)
    <3>1. q \in Nat /\ q < At(t)
      BY <1>2, <1>3, <1>12, <2>2 DEF PosOf
    <3>2. q \in Places /\ q # At(t)
      BY <1>3, <3>1, Rows DEF Places
    <3> HIDE DEF q
    <3>3. u.cells[q] = s.cells[q]
      BY <1>2, <1>4, <1>7, <3>2 DEF Screens
    <3> QED BY <1>2, <1>4, <1>7, <2>2, <3>3 DEF TextAt, q
  <2> QED BY <2>1, <2>2
<1>13. SameBefore(s, e, PosOf(s) - 1)
  BY <1>8, <1>11, <1>12 DEF SameBefore
<1>14. PosOf(e) = PosOf(s) - 1
  BY <1>8, <1>11 DEF PosOf
<1> QED BY <1>11, <1>13, <1>14 DEF e

-----------------------------------------------------------------------------
(* The line stands before the cursor: one lemma per action.                *)

(* It holds initially. *)
LEMMA InitLine == Init => LineInv
BY InitInv DEF Init, LineInv, LinePlaced, Blank, Tracked

(* Nobody is typing. *)
LEMMA OutputLine == LineInv /\ Output => LineInv'
<1> SUFFICES ASSUME LineInv, Output PROVE LineInv'
  OBVIOUS
<1>1. PICK c \in Glyphs \cup {NewLine, CarriageReturn} : Echo(c)
  BY DEF Output
<1>2. con' = Putc(con, c) /\ fb' = fb /\ ~reading'
  <2>1. Backspace \notin Glyphs \cup {NewLine, CarriageReturn}
    BY Controls DEF NewLine, CarriageReturn, Backspace
  <2> QED BY <1>1, <2>1 DEF Echo, Output
<1>3. con \in Screens /\ Drawn(con) /\ Tracked(con)
  BY DEF LineInv, IInv, TypeOK
<1>4. Tracked(Putc(con, c))
  BY <1>3, PutcText, PutcTracked
<1> QED BY <1>2, <1>4, OutputInv DEF LineInv, LinePlaced, Tracked, At

(* Nobody is typing, and no cursor is drawn. *)
LEMMA ClearLine == LineInv /\ Clear => LineInv'
<1> SUFFICES ASSUME LineInv, Clear PROVE LineInv'
  OBVIOUS
<1>1. con' = Cleared(con) /\ ~reading' /\ con \in Screens
  BY DEF Clear, LineInv, IInv, TypeOK
<1>2. con'.tracked = Nowhere
  BY <1>1, ClearedShows
<1> QED BY <1>1, <1>2, ClearInv DEF LineInv, LinePlaced, Tracked

(* The empty line stands anywhere. *)
LEMMA GetsLine == LineInv /\ Gets => LineInv'
<1> SUFFICES ASSUME LineInv, Gets PROVE LineInv'
  OBVIOUS
<1>1. con \in Screens /\ con' = con /\ fb' = fb /\ str' = 0
  BY DEF Gets, LineInv, IInv, TypeOK
<1>2. PosOf(con) \in Nat
  BY <1>1, Standing DEF PosOf, Screens, Places
<1>3. LinePlaced'
  BY <1>1, <1>2 DEF LinePlaced
<1> QED BY <1>1, <1>3, GetsInv DEF LineInv, Tracked

(* A character goes to the end of buffer and text. *)
LEMMA OtherLine == LineInv /\ GetcOther => LineInv'
<1> SUFFICES ASSUME LineInv, GetcOther PROVE LineInv'
  OBVIOUS
<1>1. PICK c \in Glyphs \cup {NewLine} :
        Echo(c) /\ EndOfTurn([buf EXCEPT ![str] = c], str)
  BY DEF GetcOther
<1>2. con' = Putc(con, c) /\ fb' = fb
  <2>1. Backspace \notin Glyphs \cup {NewLine}
    BY Controls DEF NewLine, Backspace
  <2> QED BY <1>1, <2>1 DEF Echo, GetcOther
<1>3. con \in Screens /\ Drawn(con) /\ Tracked(con)
  BY DEF LineInv, IInv, TypeOK
<1>4. /\ str \in 0 .. BufSize - 1 /\ BufSize \in Nat
      /\ buf \in [-1 .. BufSize - 1 -> Glyphs \cup {NewLine, Backspace, Zero}]
      /\ str <= PosOf(con) /\ PosOf(con) \in Nat
      /\ \A i \in 0 .. str - 1 : TextAt(con, PosOf(con) - str + i) = buf[i]
  <2>1. PosOf(con) \in Nat
    BY <1>3, Standing DEF PosOf, Screens, Places
  <2> QED BY <2>1, Rows DEF LineInv, IInv, TypeOK, LinePlaced, GetcOther
<1>5. CASE c = NewLine
  <2>1. ~reading'
    <3> DEFINE b == [buf EXCEPT ![str] = c]
    <3>1. b[str] = NewLine /\ EndOfTurn(b, str)
      BY <1>1, <1>4, <1>5
    <3> HIDE DEF b
    <3> QED BY <3>1 DEF EndOfTurn
  <2>2. Tracked(con)'
    BY <1>2, <1>3, <1>5, PutcTracked DEF Tracked, At
  <2> QED BY <2>1, <2>2, OtherInv DEF LineInv, LinePlaced
<1>6. CASE c \in Glyphs
  <2>1. c # NewLine
    BY <1>6, Controls
  <2>2. str' = str + 1 /\ buf' = [buf EXCEPT ![str] = c]
    BY <1>1, <1>4, <2>1 DEF EndOfTurn
  <2>3. /\ PosOf(con') = PosOf(con) + 1 /\ Tracked(con')
        /\ SameBefore(con, con', PosOf(con)) /\ TextAt(con', PosOf(con)) = c
    BY <1>2, <1>3, <1>6, PutcText
  <2>4. ASSUME NEW i \in 0 .. str
        PROVE  TextAt(con', PosOf(con') - str' + i) = buf'[i]
    <3>1. PosOf(con') - str' + i = PosOf(con) - str + i
      BY <1>4, <2>2, <2>3
    <3>2. CASE i = str
      BY <1>4, <2>2, <2>3, <3>1, <3>2
    <3>3. CASE i # str
      <4> DEFINE n == PosOf(con) - str + i
      <4>1. n \in Nat /\ n < PosOf(con) /\ i \in 0 .. str - 1
        BY <1>4, <3>3
      <4>2. TextAt(con, n) = buf[i] /\ buf'[i] = buf[i]
        BY <1>4, <2>2, <3>3, <4>1
      <4> HIDE DEF n
      <4>3. TextAt(con', n) = TextAt(con, n)
        BY <2>3, <4>1 DEF SameBefore
      <4> QED BY <3>1, <4>2, <4>3 DEF n
    <3> QED BY <3>2, <3>3
  <2>5. str' <= PosOf(con')
    BY <1>4, <2>2, <2>3
  <2>6. LinePlaced'
    <3>1. 0 .. str' - 1 = 0 .. str
      BY <1>4, <2>2
    <3> QED BY <2>4, <2>5, <3>1 DEF LinePlaced, PosOf, TextAt, At
  <2> QED BY <1>2, <2>3, <2>6, OtherInv DEF LineInv, Tracked, At
<1> QED BY <1>5, <1>6

(* A backspace takes one from the end of both. *)
LEMMA BackspaceLine == LineInv /\ GetcBackspace => LineInv'
<1> SUFFICES ASSUME LineInv, GetcBackspace PROVE LineInv'
  OBVIOUS
<1>1. IInv'
  BY BackspaceInv DEF LineInv
<1>2. ~AtOrigin(con)
  BY <1>1 DEF IInv, NeverPanics, GetcBackspace, Echo, LineInv
<1> DEFINE b == [buf EXCEPT ![str] = Zero, ![str - 1] = Zero]
<1>3. con' = Erased(con) /\ fb' = fb /\ EndOfTurn(b, str - 2)
  BY <1>2 DEF GetcBackspace, Echo
<1>4. con \in Screens /\ Drawn(con) /\ Tracked(con)
  BY DEF LineInv, IInv, TypeOK
<1>5. /\ str \in 1 .. BufSize - 1 /\ BufSize \in Nat
      /\ buf \in [-1 .. BufSize - 1 -> Glyphs \cup {NewLine, Backspace, Zero}]
      /\ str <= PosOf(con) /\ PosOf(con) \in Nat
      /\ \A i \in 0 .. str - 1 : TextAt(con, PosOf(con) - str + i) = buf[i]
  <2>1. PosOf(con) \in Nat
    BY <1>4, Standing DEF PosOf, Screens, Places
  <2> QED BY <2>1, Rows DEF LineInv, IInv, TypeOK, LinePlaced, GetcBackspace
<1>6. /\ PosOf(con') = PosOf(con) - 1 /\ Tracked(con')
      /\ SameBefore(con, con', PosOf(con) - 1)
  BY <1>2, <1>3, <1>4, ErasedText
<1>7. LinePlaced'
  <2> SUFFICES ASSUME reading' PROVE LinePlaced'
    BY DEF LinePlaced
  <2>1. str' = str - 1 /\ buf' = b
    <3> HIDE DEF b
    <3>1. EndOfTurn(b, str - 2) /\ str - 2 + 1 = str - 1
      BY <1>3, <1>5
    <3>2. b[str - 2] # NewLine
      BY <3>1 DEF EndOfTurn
    <3> QED BY <3>1, <3>2 DEF EndOfTurn
  <2>2. ASSUME NEW i \in 0 .. str - 2
        PROVE  TextAt(con', PosOf(con') - str' + i) = buf'[i]
    <3> DEFINE n == PosOf(con) - str + i
    <3>1. n \in Nat /\ n < PosOf(con) - 1 /\ i \in 0 .. str - 1
      BY <1>5
    <3>2. TextAt(con, n) = buf[i] /\ buf'[i] = buf[i]
      BY <1>5, <2>1, <3>1
    <3>3. PosOf(con') - str' + i = n
      BY <1>5, <1>6, <2>1
    <3> HIDE DEF n
    <3>4. TextAt(con', n) = TextAt(con, n)
      BY <1>6, <3>1 DEF SameBefore
    <3> QED BY <3>2, <3>3, <3>4
  <2>3. str' <= PosOf(con')
    BY <1>5, <1>6, <2>1
  <2>4. 0 .. str' - 1 = 0 .. str - 2
    BY <1>5, <2>1
  <2> QED BY <2>2, <2>3, <2>4 DEF LinePlaced, PosOf, TextAt, At
<1> QED BY <1>1, <1>3, <1>6, <1>7 DEF LineInv, Tracked, At

(* Nothing is counted up to a number that is not positive. *)
LEMMA NoneBefore ==
    ASSUME NEW n \in Int, n <= 0
    PROVE  \A i \in 0 .. n - 1 : FALSE
OBVIOUS

(* The line stays empty, or ends. *)
LEMMA BackspaceAtStartLine == LineInv /\ GetcBackspaceAtStart => LineInv'
<1> SUFFICES ASSUME LineInv, GetcBackspaceAtStart PROVE LineInv'
  OBVIOUS
<1>1. con \in Screens /\ con' = con /\ fb' = fb /\ str' \in {-1, 0}
  BY DEF GetcBackspaceAtStart, EndOfTurn, LineInv, IInv, TypeOK
<1>2. PosOf(con) \in Nat
  BY <1>1, Standing DEF PosOf, Screens, Places
<1>3. LinePlaced'
  <2>1. \A i \in 0 .. str' - 1 : FALSE
    <3>1. str' \in Int /\ str' <= 0
      BY <1>1
    <3> QED BY <3>1, NoneBefore
  <2>2. str' <= PosOf(con)
    BY <1>1, <1>2
  <2> QED BY <1>1, <2>1, <2>2 DEF LinePlaced, PosOf, At, TextAt
<1> QED BY <1>1, <1>3, BackspaceAtStartInv DEF LineInv, Tracked, At

\* In every reachable state of console and line editor the inductive invariant holds.
THEOREM Invariance == Spec => []IInv
<1>1. IInv /\ [Next]_vars => IInv'
  <2> SUFFICES ASSUME IInv, [Next]_vars PROVE IInv'
    OBVIOUS
  <2>1. CASE UNCHANGED vars
    BY <2>1 DEF vars, IInv, TypeOK, Drawn, NeverPanics, CursorBehindLine
  <2> QED BY <2>1, OutputInv, ClearInv, GetsInv, OtherInv, BackspaceInv, BackspaceAtStartInv
          DEF Next
<1> QED BY <1>1, InitInv, PTL DEF Spec

(* What the invariant says to a reader. *)
LEMMA IInvImplies == IInv => TypeOK /\ NeverPanics
BY DEF IInv

\* Cursor, cells and buffer keep their types: gets stays within its buffer and the
\* byte in front of it, the console within its screen.
THEOREM TypeCorrect == Spec => []TypeOK
BY Invariance, IInvImplies, PTL

(* Rows as far apart as they are wide, with more than a byte for a pixel: the places
   memblit copies are those that vesa_put_pixel has drawn. *)
LEMMA PackedExact ==
    ASSUME Pitch = Width, Bits = 32
    PROVE  Exact
<1>1. ASSUME NEW p \in Places PROVE Offset(p) = p
  <2>1. Width \in Nat \ {0} /\ p \in Nat
    BY <1>1, Rows DEF Places
  <2>2. p = (p \div Width) * Width + (p % Width) /\ p \div Width \in Nat /\ p % Width \in Nat
    <3>1. /\ p \div Width \in Nat /\ p % Width \in 0 .. Width - 1
          /\ p = (p \div Width) * Width + (p % Width)
      BY <2>1, Quotient
    <3>2. 0 .. Width - 1 \subseteq Nat
      BY <2>1
    <3> QED BY <3>1, <3>2
  <2>3. Pitch * (p \div Width) = (p \div Width) * Width
    BY <2>1, <2>2
  <2> QED BY <2>1, <2>2, <2>3 DEF Offset
<1>2. \A p \in Places : Source(p) = p
  BY DEF Source
<1> QED BY <1>1, <1>2 DEF Exact, Copied

\* The framebuffer shows what the console has drawn, after every call, in the modes whose
\* rows follow one another without a gap and whose pixels have 32 bits: in the others
\* vesa_invalidate copies other pixels than those it is asked for (vesa.c:325, vesa.c:334).
THEOREM SeenCorrect ==
    ASSUME Pitch = Width, Bits = 32
    PROVE  Spec => []SeenIsDrawn
<1>1. IInv => SeenIsDrawn
  BY PackedExact DEF IInv, Drawn, SeenIsDrawn, Seen
<1> QED BY <1>1, Invariance, PTL

\* The assertion of console_erase never fails under gets.
THEOREM EraseCorrect == Spec => []NeverPanics
BY Invariance, IInvImplies, PTL

\* In every reachable state what was typed stands before the cursor as well.
THEOREM LineInvariance == Spec => []LineInv
<1>1. LineInv /\ [Next]_vars => LineInv'
  <2> SUFFICES ASSUME LineInv, [Next]_vars PROVE LineInv'
    OBVIOUS
  <2>1. CASE UNCHANGED vars
    <3>1. LinePlaced' /\ Tracked(con)'
      BY <2>1 DEF vars, LineInv, LinePlaced, Tracked, PosOf, At, TextAt
    <3>2. IInv'
      BY <2>1 DEF vars, LineInv, IInv, TypeOK, Drawn, NeverPanics, CursorBehindLine
    <3> QED BY <3>1, <3>2 DEF LineInv
  <2> QED BY <2>1, OutputLine, ClearLine, GetsLine, OtherLine, BackspaceLine,
             BackspaceAtStartLine DEF Next
<1> QED BY <1>1, InitLine, PTL DEF Spec

\* The text of a console, on the screen and above it.
RollOf(s) == s.gone \o [i \in 1 .. Width * Height |-> Shown(s.cells[i - 1])]

(* What one reads is a character. *)
LEMMA ShownIsGlyph == \A c \in Glyphs \cup {Cursor} : Shown(c) \in Glyphs
BY SpaceIsGlyph DEF Shown

(* The roll holds the text place by place. *)
LEMMA RollIs ==
    ASSUME NEW s \in Screens
    PROVE  /\ RollOf(s) \in Seq(Glyphs) /\ Len(s.gone) \in Nat
           /\ Len(RollOf(s)) = Len(s.gone) + Width * Height
           /\ \A n \in Nat : n < Len(RollOf(s)) => RollOf(s)[n + 1] = TextAt(s, n)
<1> DEFINE g == s.gone
           r == [i \in 1 .. Width * Height |-> Shown(s.cells[i - 1])]
<1>1. g \in Seq(Glyphs) /\ Len(g) \in Nat /\ Width * Height \in Nat
  BY Rows DEF Screens
<1>2. r \in Seq(Glyphs) /\ Len(r) = Width * Height
  <2>1. ASSUME NEW i \in 1 .. Width * Height PROVE i - 1 \in Places
    BY <1>1 DEF Places
  <2>2. \A i \in 1 .. Width * Height : Shown(s.cells[i - 1]) \in Glyphs
    BY <2>1, ShownIsGlyph DEF Screens
  <2>3. r \in [1 .. Width * Height -> Glyphs]
    BY <2>2
  <2> QED BY <1>1, <2>3, SeqDef
<1>3. \A i \in 1 .. Width * Height : r[i] = Shown(s.cells[i - 1])
  OBVIOUS
<1>4. RollOf(s) = g \o r
  BY DEF RollOf
<1> HIDE DEF g, r
<1>5. /\ g \o r \in Seq(Glyphs) /\ Len(g \o r) = Len(g) + Len(r)
      /\ \A i \in 1 .. Len(g) + Len(r) : (g \o r)[i] = IF i <= Len(g) THEN g[i] ELSE r[i - Len(g)]
  BY <1>1, <1>2, ConcatProperties
<1>6. ASSUME NEW n \in Nat, n < Len(g) + Width * Height
      PROVE  (g \o r)[n + 1] = TextAt(s, n)
  <2>1. (g \o r)[n + 1] = IF n + 1 <= Len(g) THEN g[n + 1] ELSE r[n + 1 - Len(g)]
    <3>1. n + 1 \in 1 .. Len(g) + Len(r)
      BY <1>1, <1>2, <1>6
    <3> QED BY <1>5, <3>1
  <2>2. CASE n < Len(g)
    <3>1. n + 1 <= Len(g)
      BY <1>1, <2>2
    <3> QED BY <2>1, <2>2, <3>1 DEF TextAt, g
  <2>3. CASE ~(n < Len(g))
    <3>1. n + 1 - Len(g) \in 1 .. Width * Height /\ n + 1 - Len(g) - 1 = n - Len(g) /\ ~(n + 1 <= Len(g))
      BY <1>1, <1>6, <2>3
    <3>2. r[n + 1 - Len(g)] = Shown(s.cells[n - Len(g)])
      BY <1>3, <3>1
    <3>3. TextAt(s, n) = Shown(s.cells[n - Len(g)])
      BY <2>3 DEF TextAt, g
    <3> QED BY <2>1, <3>1, <3>2, <3>3
  <2> QED BY <2>2, <2>3
<1> QED BY <1>1, <1>2, <1>4, <1>5, <1>6 DEF g

(* The roll is the text of the console. *)
LEMMA RollText ==
    ASSUME con \in Screens, NEW n \in Nat, n < Len(con.gone) + Width * Height
    PROVE  Roll[n + 1] = TextAt(con, n)
<1>1. /\ Len(RollOf(con)) = Len(con.gone) + Width * Height
      /\ \A m \in Nat : m < Len(RollOf(con)) => RollOf(con)[m + 1] = TextAt(con, m)
  BY RollIs
<1>2. Roll = RollOf(con)
  BY DEF Roll, RollOf
<1> QED BY <1>1, <1>2

(* The text before the cursor, read on the roll. *)
LEMMA LineInvImplies == LineInv => LineOnScreen
<1> SUFFICES ASSUME LineInv, reading
             PROVE  /\ Len(Typed) <= Pos
                    /\ \A i \in 1 .. Len(Typed) : Roll[Pos - Len(Typed) + i] = Typed[i]
  BY DEF LineOnScreen
<1>1. con \in Screens /\ str \in 0 .. BufSize /\ BufSize \in Nat
  BY Rows DEF LineInv, IInv, TypeOK
<1>2. At(con) \in Nat /\ At(con) < Width * Height /\ Len(con.gone) \in Nat /\ Width * Height \in Nat
  BY <1>1, Standing, Rows DEF Places, Screens
<1>3. Pos = PosOf(con) /\ Pos \in Nat /\ Pos < Len(con.gone) + Width * Height
  BY <1>2 DEF Pos, PosOf
<1>4. Typed = [i \in 1 .. str |-> buf[i - 1]]
  BY DEF Typed
<1>5. Len(Typed) = str /\ DOMAIN Typed = 1 .. str
  BY <1>1, <1>4
<1>6. ASSUME NEW i \in 1 .. str
      PROVE  Roll[Pos - str + i] = buf[i - 1]
  <2> DEFINE n == Pos - str + (i - 1)
  <2>1. str <= Pos /\ TextAt(con, n) = buf[i - 1]
    <3>1. i - 1 \in 0 .. str - 1
      BY <1>1
    <3> QED BY <1>3, <3>1 DEF LineInv, LinePlaced
  <2>2. n \in Nat /\ n < Len(con.gone) + Width * Height /\ n + 1 = Pos - str + i
    BY <1>1, <1>2, <1>3, <2>1
  <2> HIDE DEF n
  <2> QED BY <1>1, <2>1, <2>2, RollText
<1> QED BY <1>3, <1>4, <1>5, <1>6 DEF LineInv, LinePlaced

\* What was typed stands in front of the cursor, however the line has wrapped, scrolled
\* and been rubbed out: gets and console_erase agree on how far a backspace goes.
THEOREM LineCorrect == Spec => []LineOnScreen
BY LineInvariance, LineInvImplies, PTL

-----------------------------------------------------------------------------
(* The roll of paper: what each function of the driver makes of all the text. *)

\* An empty row.
Blanks == [i \in 1 .. Width |-> Space]

\* What is under a drawn cursor the driver knows of is drawn as the cursor.
Covered(s) == s.tracked # Nowhere => s.cells[s.tracked] = Cursor

(* A roll is known by its length and its places. *)
LEMMA RollBy ==
    ASSUME NEW s \in Screens, NEW r \in Seq(Glyphs), Len(r) = Len(RollOf(s)),
           \A n \in Nat : n < Len(r) => TextAt(s, n) = r[n + 1]
    PROVE  RollOf(s) = r
<1>1. RollOf(s) \in Seq(Glyphs) /\ \A n \in Nat : n < Len(RollOf(s)) => RollOf(s)[n + 1] = TextAt(s, n)
  BY RollIs
<1>2. PICK q \in Seq(Glyphs) : q = RollOf(s)
  BY <1>1
<1>3. ASSUME NEW i \in 1 .. Len(r) PROVE q[i] = r[i]
  <2>1. i - 1 \in Nat /\ i - 1 < Len(r) /\ (i - 1) + 1 = i
    OBVIOUS
  <2> QED BY <1>1, <1>2, <2>1
<1>4. q = r
  BY <1>2, <1>3, SeqEqual
<1> QED BY <1>2, <1>4

(* The same cells below the same rows make the same roll. *)
LEMMA RollSame ==
    ASSUME NEW s, NEW t, t.gone = s.gone, t.cells = s.cells
    PROVE  RollOf(t) = RollOf(s) /\ (t.tracked = s.tracked /\ Covered(s) => Covered(t))
BY DEF RollOf, Covered

(* A cell is drawn over. *)
LEMMA CellRoll ==
    ASSUME NEW s \in Screens, NEW t \in Screens, NEW p \in Places, NEW c \in Glyphs \cup {Cursor},
           t.gone = s.gone, t.cells = [s.cells EXCEPT ![p] = c]
    PROVE  /\ RollOf(t) = [RollOf(s) EXCEPT ![Len(s.gone) + p + 1] = Shown(c)]
           /\ Shown(s.cells[p]) = Shown(c) => RollOf(t) = RollOf(s)
<1>1. /\ RollOf(s) \in Seq(Glyphs) /\ Len(s.gone) \in Nat
      /\ Len(RollOf(s)) = Len(s.gone) + Width * Height /\ Len(RollOf(t)) = Len(RollOf(s))
      /\ \A n \in Nat : n < Len(RollOf(s)) => RollOf(s)[n + 1] = TextAt(s, n)
  BY RollIs
<1>2. Width * Height \in Nat /\ p \in Nat /\ p < Width * Height
  BY Rows DEF Places
<1>3. PICK k \in Nat : k = Len(s.gone) + p
  BY <1>1, <1>2
<1>4. k + 1 \in 1 .. Len(RollOf(s)) /\ k + 1 = Len(s.gone) + p + 1 /\ ~(k < Len(s.gone)) /\ k - Len(s.gone) = p
  BY <1>1, <1>2, <1>3
<1>5. s.cells \in [Places -> Glyphs \cup {Cursor}] /\ t.cells[p] = c
  BY DEF Screens
<1>6. TextAt(t, k) = Shown(c) /\ TextAt(s, k) = Shown(s.cells[p])
  BY <1>4, <1>5 DEF TextAt
<1>7. ASSUME NEW n \in Nat, n < Len(RollOf(s)), n # k PROVE TextAt(t, n) = TextAt(s, n)
  <2>1. CASE n < Len(s.gone)
    BY <2>1 DEF TextAt
  <2>2. CASE ~(n < Len(s.gone))
    <3>1. n - Len(s.gone) \in Places /\ n - Len(s.gone) # p
      BY <1>1, <1>2, <1>3, <1>7, <2>2 DEF Places
    <3>2. t.cells[n - Len(s.gone)] = s.cells[n - Len(s.gone)]
      BY <1>5, <3>1
    <3> QED BY <2>2, <3>2 DEF TextAt
  <2> QED BY <2>1, <2>2
<1>8. PICK q \in Seq(Glyphs) : q = RollOf(s)
  BY <1>1
<1>9. Shown(c) \in Glyphs
  BY ShownIsGlyph
<1>10. PICK r : r = [q EXCEPT ![k + 1] = Shown(c)]
  OBVIOUS
<1>11. r \in Seq(Glyphs) /\ Len(r) = Len(q) /\ \A j \in 1 .. Len(q) : r[j] = IF j = k + 1 THEN Shown(c) ELSE q[j]
  BY <1>4, <1>8, <1>9, <1>10, ExceptSeq
<1>12. ASSUME NEW n \in Nat, n < Len(r) PROVE TextAt(t, n) = r[n + 1]
  <2>1. n + 1 \in 1 .. Len(q) /\ (n + 1 = k + 1 <=> n = k) /\ n < Len(RollOf(s))
    BY <1>8, <1>11, <1>12
  <2> QED BY <1>1, <1>6, <1>7, <1>8, <1>11, <2>1
<1>13. RollOf(t) = r
  BY <1>1, <1>8, <1>11, <1>12, RollBy
<1>14. Shown(s.cells[p]) = Shown(c) => RollOf(t) = q
  <2> SUFFICES ASSUME Shown(s.cells[p]) = Shown(c) PROVE RollOf(t) = q
    OBVIOUS
  <2>1. \A n \in Nat : n < Len(q) => TextAt(t, n) = q[n + 1]
    BY <1>1, <1>6, <1>7, <1>8
  <2> QED BY <1>1, <1>8, <2>1, RollBy
<1> QED BY <1>4, <1>8, <1>10, <1>13, <1>14

(* The rows move up: the roll is longer by one of spaces. *)
LEMMA ScrollRoll ==
    ASSUME NEW s \in Screens
    PROVE  RollOf(Scroll(s)) = RollOf(s) \o Blanks
<1>1. PICK t \in Screens : t = Scroll(s)
  BY ScrollKeeps
<1>2. Len(t.gone) = Len(s.gone) + Width /\ SameBefore(s, t, Len(s.gone) + Width * Height)
  BY <1>1, ScrollText
<1>3. t.cells = [p \in Places |-> IF p \in LastRow THEN Space ELSE s.cells[p + Width]]
  BY <1>1 DEF Scroll, Screens
<1>4. /\ Width \in Nat \ {0} /\ Width * Height \in Nat /\ (Height - 1) * Width \in Nat
      /\ Width * Height = (Height - 1) * Width + Width
  BY Rows
<1>5. /\ Len(s.gone) \in Nat /\ Len(RollOf(s)) = Len(s.gone) + Width * Height
      /\ Len(RollOf(t)) = Len(t.gone) + Width * Height
      /\ \A n \in Nat : n < Len(RollOf(s)) => RollOf(s)[n + 1] = TextAt(s, n)
  BY RollIs
<1>6. PICK q \in Seq(Glyphs) : q = RollOf(s)
  BY RollIs
<1>7. Blanks \in Seq(Glyphs) /\ Len(Blanks) = Width /\ \A i \in 1 .. Width : Blanks[i] = Space
  <2>1. Blanks \in [1 .. Width -> Glyphs]
    BY SpaceIsGlyph DEF Blanks
  <2>2. Blanks \in Seq(Glyphs)
    BY <1>4, <2>1, SeqDef
  <2> QED BY <1>4, <2>1, <2>2 DEF Blanks
<1>8. PICK r : r = q \o Blanks
  OBVIOUS
<1>9. /\ r \in Seq(Glyphs) /\ Len(r) = Len(q) + Width
      /\ \A i \in 1 .. Len(q) + Width : r[i] = IF i <= Len(q) THEN q[i] ELSE Blanks[i - Len(q)]
  BY <1>7, <1>8, ConcatProperties
<1>10. ASSUME NEW n \in Nat, n < Len(r) PROVE TextAt(t, n) = r[n + 1]
  <2>1. n + 1 \in 1 .. Len(q) + Width /\ Len(q) \in Nat
    BY <1>4, <1>9, <1>10
  <2>2. CASE n < Len(q)
    <3>1. n + 1 <= Len(q) /\ n < Len(s.gone) + Width * Height
      BY <1>5, <1>6, <2>1, <2>2
    <3> QED BY <1>2, <1>5, <1>6, <1>9, <2>1, <3>1, <2>2 DEF SameBefore
  <2>3. CASE ~(n < Len(q))
    <3>1. ~(n + 1 <= Len(q)) /\ n + 1 - Len(q) \in 1 .. Width /\ ~(n < Len(t.gone))
          /\ n - Len(t.gone) \in Nat /\ n - Len(t.gone) >= (Height - 1) * Width
          /\ n - Len(t.gone) < Width * Height
      <4>1. \A g, w, h, m, k \in Nat : k < g + h + w /\ ~(k < g + h) /\ h = m + w =>
              /\ ~(k + 1 <= g + h) /\ k + 1 - (g + h) \in 1 .. w /\ ~(k < g + w)
              /\ k - (g + w) \in Nat /\ k - (g + w) >= m /\ k - (g + w) < h
        OBVIOUS
      <4>2. /\ Len(q) = Len(s.gone) + Width * Height /\ n < Len(s.gone) + Width * Height + Width
            /\ ~(n < Len(s.gone) + Width * Height)
        BY <1>5, <1>6, <1>9, <1>10, <2>3
      <4>3. /\ ~(n + 1 <= Len(q)) /\ n + 1 - Len(q) \in 1 .. Width /\ ~(n < Len(s.gone) + Width)
            /\ n - (Len(s.gone) + Width) \in Nat /\ n - (Len(s.gone) + Width) >= (Height - 1) * Width
            /\ n - (Len(s.gone) + Width) < Width * Height
        <5>1. PICK g, w, h, m \in Nat : /\ g = Len(s.gone) /\ w = Width /\ h = Width * Height
                                        /\ m = (Height - 1) * Width
          BY <1>4, <1>5
        <5>2. h = m + w /\ n < g + h + w /\ ~(n < g + h) /\ Len(q) = g + h
          BY <1>4, <4>2, <5>1
        <5>3. /\ ~(n + 1 <= g + h) /\ n + 1 - (g + h) \in 1 .. w /\ ~(n < g + w)
              /\ n - (g + w) \in Nat /\ n - (g + w) >= m /\ n - (g + w) < h
          BY <4>1, <5>2
        <5> QED BY <5>1, <5>2, <5>3
      <4> QED BY <1>2, <4>3
    <3>2. n - Len(t.gone) \in LastRow /\ n - Len(t.gone) \in Places
      BY <1>4, <3>1 DEF LastRow, Places
    <3>3. TextAt(t, n) = Shown(Space)
      BY <1>3, <3>1, <3>2 DEF TextAt
    <3>4. Shown(Space) = Space
      BY DEF Shown
    <3> QED BY <1>7, <1>9, <2>1, <3>1, <3>3, <3>4
  <2> QED BY <2>2, <2>3
<1>11. Len(r) = Len(RollOf(t))
  BY <1>2, <1>4, <1>5, <1>6, <1>9
<1> QED BY <1>1, <1>6, <1>8, <1>9, <1>10, <1>11, RollBy

\* The roll with the writing place at p, as AbstractTerminal has it.
Moved(r, p) == {Terminal!Unrolled(r, p), [Terminal!Unrolled(r, p) EXCEPT ![p + 1] = Space]}

(* The cursor hides at most what it stands on. *)
LEMMA SetCursorRoll ==
    ASSUME NEW s \in Screens, Drawn(s), fb \/ s.tracked = Nowhere, Covered(s)
    PROVE  LET t == SetCursor(s, At(s))
           IN  /\ t.gone = s.gone /\ PosOf(t) = PosOf(s) /\ Covered(t)
               /\ RollOf(t) \in {RollOf(s), [RollOf(s) EXCEPT ![PosOf(s) + 1] = Space]}
<1> DEFINE t == SetCursor(s, At(s))
           e == IF s.tracked # Nowhere
                THEN Invalidate(PutXY(s, s.tracked, Space), {s.tracked})
                ELSE s
           d == [e EXCEPT !.cells[At(s)] = Cursor]
           i == Invalidate(d, {At(s)})
           r == [i EXCEPT !.tracked = At(s)]
<1>1. At(s) \in Places /\ s.tracked \in Places \cup {Nowhere} /\ Cursor \in Glyphs \cup {Cursor}
  BY Standing DEF Screens
<1>2. At(t) = At(s) /\ t.gone = s.gone
  BY <1>1, SetCursorShows, SetCursorText DEF At, SamePlace
<1>3. Shown(Cursor) = Space /\ Shown(Space) = Space
  BY DEF Shown
<1>4. CASE ~fb
  <2>1. t = s
    BY <1>4 DEF SetCursor
  <2> QED BY <2>1
<1>5. CASE fb
  <2>1. t = r
    BY <1>5 DEF SetCursor
  <2>2. e \in Screens /\ e.gone = s.gone /\ RollOf(e) = RollOf(s)
    <3>1. CASE s.tracked = Nowhere
      BY <3>1
    <3>2. CASE s.tracked # Nowhere
      <4> DEFINE u == PutXY(s, s.tracked, Space)
      <4>1. u \in Screens /\ u.cells = [s.cells EXCEPT ![s.tracked] = Space] /\ u.gone = s.gone
        BY <1>1, <3>2, PutXYKeeps, SpaceIsGlyph
      <4>2. e = Invalidate(u, {s.tracked})
        BY <3>2
      <4> HIDE DEF u, e
      <4>3. e \in Screens /\ e.cells = u.cells /\ e.gone = u.gone
        BY <4>1, <4>2, InvalidateKeeps
      <4>4. Shown(s.cells[s.tracked]) = Shown(Space)
        BY <1>3, <3>2 DEF Covered
      <4> QED BY <1>1, <3>2, <4>1, <4>3, <4>4, CellRoll, SpaceIsGlyph
    <3> QED BY <3>1, <3>2
  <2> HIDE DEF e
  <2>3. d \in Screens /\ d.gone = e.gone /\ d.cells = [e.cells EXCEPT ![At(s)] = Cursor]
    BY <1>1, <2>2 DEF Screens
  <2> HIDE DEF d
  <2>4. RollOf(d) = [RollOf(e) EXCEPT ![Len(e.gone) + At(s) + 1] = Space]
    BY <1>1, <1>3, <2>2, <2>3, CellRoll
  <2>5. i \in Screens /\ i.gone = d.gone /\ i.cells = d.cells
    BY <2>3, InvalidateKeeps
  <2> HIDE DEF i
  <2>6. r.gone = i.gone /\ r.cells = i.cells /\ r.tracked = At(s)
    BY <2>5 DEF Screens
  <2> HIDE DEF r, t
  <2>7. RollOf(t) = [RollOf(s) EXCEPT ![PosOf(s) + 1] = Space]
    BY <2>1, <2>2, <2>4, <2>5, <2>6, RollSame DEF PosOf
  <2>8. Covered(t)
    <3>1. e.cells \in [Places -> Glyphs \cup {Cursor}]
      BY <2>2 DEF Screens
    <3>2. t.cells[At(s)] = Cursor
      BY <1>1, <2>1, <2>3, <2>5, <2>6, <3>1
    <3> QED BY <2>1, <2>6, <3>2 DEF Covered
  <2> QED BY <1>2, <2>7, <2>8 DEF PosOf, t
<1> HIDE DEF t
<1>6. RollOf(t) \in {RollOf(s), [RollOf(s) EXCEPT ![PosOf(s) + 1] = Space]} /\ Covered(t)
  BY <1>4, <1>5 DEF t
<1> QED BY <1>2, <1>6 DEF t, PosOf

(* A row is added when the line feed leaves the last one. *)
LEMMA LineFeedRoll ==
    ASSUME NEW s, NEW b \in Screens, b = [s EXCEPT !.x = 0], b.y = s.y, Covered(b),
           Scrolls(s) => b.tracked \in LastRow \cup {Nowhere}
    PROVE  /\ RollOf(LineFeed(s)) = Terminal!Unrolled(RollOf(b), PosOf(LineFeed(s)))
           /\ Covered(LineFeed(s))
           /\ Len(LineFeed(s).gone) \in {Len(b.gone), Len(b.gone) + Width}
<1> DEFINE l == LineFeed(s)
<1>1. /\ b.y \in 0 .. Height - 1 /\ Height \in Nat \ {0} /\ Width \in Nat \ {0} /\ Len(b.gone) \in Nat
      /\ Width * Height \in Nat /\ b.y * Width \in Nat /\ (Height - 1) * Width \in Nat
      /\ Width * Height = (Height - 1) * Width + Width
  <2>1. b.y \in 0 .. Height - 1
    BY DEF Screens
  <2> QED BY <2>1, Rows, RollIs, RowStart
<1>2. PosOf(l) = Len(b.gone) + b.y * Width + Width
  BY LineFeedText
<1>3. Len(RollOf(b)) = Len(b.gone) + Width * Height
  BY RollIs
<1>4. \A g, y, h, m, w \in Nat : h = m + w => (g + y + w = g + h <=> y = m)
  OBVIOUS
<1>5. PosOf(l) = Len(RollOf(b)) <=> b.y * Width = (Height - 1) * Width
  <2>1. PICK g, y, h, m, w \in Nat : /\ g = Len(b.gone) /\ y = b.y * Width /\ h = Width * Height
                                     /\ m = (Height - 1) * Width /\ w = Width
    BY <1>1
  <2>2. h = m + w /\ PosOf(l) = g + y + w /\ Len(RollOf(b)) = g + h
    BY <1>1, <1>2, <1>3, <2>1
  <2>3. g + y + w = g + h <=> y = m
    <3>1. h = m + w
      BY <2>2
    <3> QED BY <3>1
  <2> QED BY <2>1, <2>2, <2>3
<1>6. CASE Scrolls(s)
  <2> DEFINE r == Scroll(b)
  <2>1. l = Invalidate(r, Places)
    BY <1>6 DEF LineFeed
  <2>2. r \in Screens /\ Len(r.gone) = Len(b.gone) + Width /\ RollOf(r) = RollOf(b) \o Blanks
    BY ScrollKeeps, ScrollText, ScrollRoll
  <2>3. r.tracked = Nowhere
    <3>1. b.tracked \in LastRow \cup {Nowhere} /\ Nowhere \notin LastRow
      BY <1>6 DEF LastRow, Places, Nowhere
    <3> QED BY <3>1 DEF Scroll, Screens
  <2> HIDE DEF r, l
  <2>4. l.cells = r.cells /\ l.gone = r.gone /\ l.tracked = r.tracked
    BY <2>1, <2>2, InvalidateKeeps
  <2>5. RollOf(l) = RollOf(b) \o Blanks
    BY <2>2, <2>4, RollSame
  <2>6. PosOf(l) = Len(RollOf(b))
    <3>1. b.y = Height - 1
      BY <1>1, <1>6 DEF Scrolls
    <3> QED BY <1>5, <3>1
  <2> QED BY <2>2, <2>3, <2>4, <2>5, <2>6 DEF l, Covered, Terminal!Unrolled, Terminal!Spaces, Blanks
<1>7. CASE ~Scrolls(s)
  <2>1. l = [b EXCEPT !.y = s.y + 1]
    BY <1>7 DEF LineFeed
  <2> HIDE DEF l
  <2>2. l.cells = b.cells /\ l.gone = b.gone /\ l.tracked = b.tracked
    BY <2>1 DEF Screens
  <2>3. RollOf(l) = RollOf(b) /\ Covered(l)
    BY <2>2, RollSame
  <2>4. PosOf(l) # Len(RollOf(b))
    <3>1. b.y + 1 < Height /\ b.y + 1 \in 0 .. Height - 1
      <4>1. PICK y \in 0 .. Height - 1 : y = b.y
        BY <1>1
      <4>2. ~(y + 1 >= Height)
        BY <1>7, <4>1 DEF Scrolls
      <4>3. Height \in Nat
        BY <1>1
      <4> QED BY <4>1, <4>2, <4>3
    <3>2. (b.y + 1) * Width = b.y * Width + Width /\ (b.y + 1) * Width <= (Height - 1) * Width
      BY <1>1, <3>1, RowStart
    <3>3. \A y, m, w \in Nat : w # 0 /\ y + w <= m => y # m
      OBVIOUS
    <3>4. b.y * Width + Width <= (Height - 1) * Width
      BY <3>2
    <3> QED BY <1>1, <1>5, <3>3, <3>4
  <2> QED BY <2>2, <2>3, <2>4 DEF l, Terminal!Unrolled
<1> QED BY <1>6, <1>7

\* Rows scroll off as a whole.
WholeRows(s) == \E k \in Nat : Len(s.gone) = k * Width

(* A row more is a row. *)
LEMMA RowsStay ==
    ASSUME NEW s, NEW t, WholeRows(s), Len(t.gone) \in {Len(s.gone), Len(s.gone) + Width}
    PROVE  WholeRows(t)
<1>1. PICK k \in Nat : Len(s.gone) = k * Width
  BY DEF WholeRows
<1>2. Width \in Nat \ {0} /\ 0 \in Nat
  BY Rows
<1>3. (k + 1) * Width = k * Width + Width /\ k + 1 \in Nat
  BY <1>2, MultipleOrder
<1> QED BY <1>1, <1>3 DEF WholeRows

(* The row of the writing place, on the roll. *)
LEMMA RowOfPos ==
    ASSUME NEW s \in Screens, WholeRows(s)
    PROVE  /\ PosOf(s) \in Nat /\ PosOf(s) < Len(RollOf(s))
           /\ (PosOf(s) \div Width + 1) * Width = Len(s.gone) + s.y * Width + Width
           /\ PosOf(s) - (PosOf(s) % Width) = Len(s.gone) + s.y * Width
<1>1. PICK k \in Nat : Len(s.gone) = k * Width
  BY DEF WholeRows
<1>2. Width \in Nat \ {0} /\ s.y \in Nat /\ s.x \in 0 .. Width - 1
  BY Rows DEF Screens
<1>3. PICK q \in Nat : q = k + s.y
  BY <1>2
<1>4. /\ k * Width \in Nat /\ s.y * Width \in Nat /\ q * Width = k * Width + s.y * Width
      /\ (q + 1) * Width = q * Width + Width
  BY <1>2, <1>3, MultipleOrder
<1>5. PICK a \in Nat : a = q * Width + s.x
  BY <1>2, <1>4
<1>6. PosOf(s) = a
  <2>1. \A u, v, x \in Nat : u + (v + x) = (u + v) + x
    OBVIOUS
  <2> QED BY <1>1, <1>2, <1>4, <1>5, <2>1 DEF PosOf, At
<1>7. a \div Width = q
  BY <1>2, <1>5, QuotientIs
<1>8. a % Width \in Nat /\ a = q * Width + (a % Width)
  <2>1. a % Width \in 0 .. Width - 1 /\ a = (a \div Width) * Width + (a % Width)
    BY <1>2, Quotient
  <2> QED BY <1>2, <1>7, <2>1
<1>9. a - (a % Width) = q * Width
  <2>1. \A u, v, w \in Nat : u = v + w => u - w = v
    OBVIOUS
  <2> QED BY <1>2, <1>4, <1>8, <2>1
<1>10. PosOf(s) < Len(RollOf(s))
  <2>1. /\ At(s) \in Nat /\ At(s) < Width * Height /\ Width * Height \in Nat
        /\ Len(RollOf(s)) = Len(s.gone) + Width * Height /\ Len(s.gone) \in Nat
    <3>1. At(s) \in Nat /\ At(s) < Width * Height
      BY Standing, Rows DEF Places
    <3> QED BY <3>1, Rows, RollIs
  <2>2. \A g, p, h \in Nat : p < h => g + p < g + h
    OBVIOUS
  <2> QED BY <2>1, <2>2 DEF PosOf
<1> QED BY <1>1, <1>4, <1>6, <1>7, <1>9, <1>10

(* A character on the roll. *)
LEMMA PutcRoll ==
    ASSUME NEW s \in Screens, Drawn(s), Tracked(s), WholeRows(s), NEW c \in Glyphs
    PROVE  /\ RollOf(Putc(s, c)) \in Moved([RollOf(s) EXCEPT ![PosOf(s) + 1] = c], PosOf(s) + 1)
           /\ Covered(Putc(s, c)) /\ WholeRows(Putc(s, c))
<1> DEFINE i == Invalidate(PutXY(s, At(s), c), {At(s)})
           u == PutXY(s, At(s), c)
           w == Written(s, c)
<1>1. s.x \in 0 .. Width - 1 /\ s.y \in 0 .. Height - 1 /\ Width \in Nat \ {0} /\ At(s) \in Places
  BY Rows, Standing DEF Screens
<1>2. i \in Screens /\ Drawn(i) /\ SamePlace(s, i) /\ i.tracked = Nowhere /\ i.gone = s.gone
  BY <1>1, PutShows, PutText
<1>3. RollOf(i) = [RollOf(s) EXCEPT ![PosOf(s) + 1] = c]
  <2>1. u \in Screens /\ u.cells = [s.cells EXCEPT ![At(s)] = c] /\ u.gone = s.gone
    BY <1>1, PutXYKeeps
  <2> HIDE DEF u
  <2>2. Invalidate(u, {At(s)}).cells = u.cells /\ Invalidate(u, {At(s)}).gone = u.gone
    BY <2>1, InvalidateKeeps
  <2>3. Shown(c) = c
    BY ScreenAssumption DEF Shown, Glyphs, Space, Cursor
  <2>4. RollOf(u) = [RollOf(s) EXCEPT ![PosOf(s) + 1] = c]
    BY <1>1, <2>1, <2>3, CellRoll DEF PosOf
  <2> QED BY <2>2, <2>4, RollSame DEF u
<1>4. w = [i EXCEPT !.x = @ + 1]
  BY DEF Written
<1> HIDE DEF i, u, w
<1>5. PICK R : R = RollOf(i)
  OBVIOUS
<1>6. PosOf(Putc(s, c)) = PosOf(s) + 1
  BY PutcText
\* u is the console before the call of set_cursor.
<1>7. ASSUME NEW v \in Screens, Drawn(v), v.tracked = Nowhere, Putc(s, c) = SetCursor(v, At(v)),
             RollOf(v) = Terminal!Unrolled(R, PosOf(v)), Len(v.gone) \in {Len(s.gone), Len(s.gone) + Width}
      PROVE  /\ RollOf(Putc(s, c)) \in Moved(R, PosOf(s) + 1)
             /\ Covered(Putc(s, c)) /\ WholeRows(Putc(s, c))
  <2> DEFINE t == Putc(s, c)
  <2>1. Covered(v)
    BY <1>7 DEF Covered
  <2>2. /\ t.gone = v.gone /\ PosOf(t) = PosOf(v) /\ Covered(t)
        /\ RollOf(t) \in {RollOf(v), [RollOf(v) EXCEPT ![PosOf(v) + 1] = Space]}
    BY <1>7, <2>1, SetCursorRoll
  <2>3. WholeRows(t)
    BY <1>7, <2>2, RowsStay
  <2> QED BY <1>6, <1>7, <2>2, <2>3 DEF Moved
<1>8. CASE s.x + 1 < Width
  <2>1. Putc(s, c) = SetCursor(w, At(w))
    BY <1>8, PutcGlyph DEF w
  <2>2. s.x + 1 \in 0 .. Width - 1 /\ w = [i EXCEPT !.x = s.x + 1]
    BY <1>1, <1>2, <1>4, <1>8 DEF SamePlace
  <2>3. w \in Screens /\ Drawn(w) /\ w.x = s.x + 1 /\ w.y = s.y
    BY <1>2, <2>2, MoveXKeeps DEF SamePlace
  <2>4. w.cells = i.cells /\ w.gone = i.gone /\ w.tracked = i.tracked
    BY <1>2, <2>2 DEF Screens
  <2>5. RollOf(w) = R
    BY <1>5, <2>4, RollSame
  <2>6. PosOf(w) # Len(R)
    <3>1. WholeRows(w)
      BY <1>2, <2>4 DEF WholeRows
    <3>2. PosOf(w) \in Nat /\ PosOf(w) < Len(RollOf(w))
      BY <2>3, <3>1, RowOfPos
    <3> QED BY <2>5, <3>2
  <2>7. RollOf(w) = Terminal!Unrolled(R, PosOf(w))
    BY <2>5, <2>6 DEF Terminal!Unrolled
  <2> QED BY <1>2, <1>3, <1>5, <1>7, <2>1, <2>3, <2>4, <2>7
<1>9. CASE s.x + 1 >= Width
  <2> DEFINE b == [i EXCEPT !.x = 0]
             l == LineFeed(w)
  <2>1. Putc(s, c) = SetCursor(l, At(l))
    BY <1>9, PutcGlyph DEF w
  <2>2. 0 \in 0 .. Width - 1
    BY <1>1
  <2>3. /\ b \in Screens /\ Drawn(b) /\ b.x = 0 /\ b.y = s.y
        /\ b.cells = i.cells /\ b.gone = i.gone /\ b.tracked = i.tracked
    BY <1>2, <2>2, MoveXKeeps DEF SamePlace, Screens
  <2>4. b = [w EXCEPT !.x = 0] /\ b.y = w.y
    BY <1>2, <1>4, <2>3 DEF Screens, SamePlace
  <2> HIDE DEF b
  <2>5. l \in Screens /\ Drawn(l)
    BY <2>3, <2>4, LineFeedShows
  <2>6. b.tracked = Nowhere /\ Covered(b) /\ RollOf(b) = R
    BY <1>2, <1>5, <2>3, RollSame DEF Covered
  <2>7. /\ RollOf(l) = Terminal!Unrolled(RollOf(b), PosOf(l))
        /\ Len(l.gone) \in {Len(b.gone), Len(b.gone) + Width}
    BY <2>3, <2>4, <2>6, LineFeedRoll
  <2>8. l.tracked = Nowhere
    BY <2>3, <2>4, <2>6, LineFeedText
  <2> HIDE DEF l
  <2>9. RollOf(l) = Terminal!Unrolled(R, PosOf(l)) /\ Len(l.gone) \in {Len(s.gone), Len(s.gone) + Width}
    BY <1>2, <2>3, <2>6, <2>7
  <2> QED BY <1>3, <1>5, <1>7, <2>1, <2>5, <2>8, <2>9
<1> QED BY <1>1, <1>8, <1>9

(* A carriage return and a line feed on the roll. *)
LEMMA PutcControlRoll ==
    ASSUME NEW s \in Screens, Drawn(s), Tracked(s), Covered(s), WholeRows(s),
           NEW c \in {NewLine, CarriageReturn},
           NEW p, p = IF c = NewLine THEN (PosOf(s) \div Width + 1) * Width
                      ELSE PosOf(s) - (PosOf(s) % Width)
    PROVE  /\ PosOf(Putc(s, c)) = p /\ RollOf(Putc(s, c)) \in Moved(RollOf(s), p)
           /\ Covered(Putc(s, c)) /\ WholeRows(Putc(s, c))
<1> DEFINE z == [s EXCEPT !.x = 0]
           l == LineFeed(s)
<1>1. s.y \in 0 .. Height - 1 /\ Width \in Nat \ {0} /\ Height \in Nat \ {0} /\ 0 \in 0 .. Width - 1
      /\ s.y * Width \in Nat
  BY Rows, RowStart DEF Screens
<1>2. /\ z \in Screens /\ Drawn(z) /\ z.x = 0 /\ z.y = s.y
      /\ z.cells = s.cells /\ z.gone = s.gone /\ z.tracked = s.tracked
  BY <1>1, MoveXKeeps DEF Screens
<1> HIDE DEF z
<1>3. RollOf(z) = RollOf(s) /\ Covered(z) /\ WholeRows(z)
  BY <1>2, RollSame DEF WholeRows
<1>4. /\ (PosOf(s) \div Width + 1) * Width = Len(s.gone) + s.y * Width + Width
      /\ PosOf(s) - (PosOf(s) % Width) = Len(s.gone) + s.y * Width
  BY RowOfPos
<1>5. NewLine # CarriageReturn
  BY DEF NewLine, CarriageReturn
<1>6. CASE c = CarriageReturn
  <2>1. Putc(s, c) = SetCursor(z, At(z))
    BY <1>6, PutcControl DEF z
  <2>2. fb \/ z.tracked = Nowhere
    BY <1>2 DEF Tracked
  <2>3. PICK t : t = SetCursor(z, At(z))
    OBVIOUS
  <2>4. /\ t.gone = z.gone /\ PosOf(t) = PosOf(z) /\ Covered(t)
        /\ RollOf(t) \in {RollOf(z), [RollOf(z) EXCEPT ![PosOf(z) + 1] = Space]}
    BY <1>2, <1>3, <2>2, <2>3, SetCursorRoll
  <2>5. PosOf(z) = p
    <3>1. At(z) = s.y * Width
      BY <1>1, <1>2 DEF At
    <3> QED BY <1>2, <1>4, <1>5, <1>6, <3>1 DEF PosOf
  <2>6. p # Len(RollOf(s))
    <3>1. PosOf(z) \in Nat /\ PosOf(z) < Len(RollOf(z))
      BY <1>2, <1>3, RowOfPos
    <3> QED BY <1>3, <2>5, <3>1
  <2>7. WholeRows(t)
    BY <1>2, <2>4 DEF WholeRows
  <2> QED BY <1>3, <2>1, <2>3, <2>4, <2>5, <2>6, <2>7 DEF Moved, Terminal!Unrolled
<1>7. CASE c = NewLine
  <2>1. Putc(s, c) = SetCursor(l, At(l))
    BY <1>7, PutcControl
  <2>2. Scrolls(s) => z.tracked \in LastRow \cup {Nowhere}
    <3> SUFFICES ASSUME Scrolls(s) PROVE At(s) \in LastRow
      BY <1>2 DEF Tracked
    <3>1. s.y = Height - 1
      BY <1>1 DEF Scrolls
    <3>2. s.x \in Nat /\ (Height - 1) * Width \in Nat /\ At(s) = (Height - 1) * Width + s.x
      BY <3>1, Rows DEF At, Screens
    <3>3. \A m, x \in Nat : m + x >= m
      OBVIOUS
    <3> QED BY <3>2, <3>3, Standing DEF LastRow
  <2>3. /\ l \in Screens /\ Drawn(l) /\ (z.tracked = Nowhere => l.tracked = Nowhere)
        /\ PosOf(l) = Len(z.gone) + z.y * Width + Width
    BY <1>2, LineFeedShows, LineFeedText DEF z
  <2>4. /\ RollOf(l) = Terminal!Unrolled(RollOf(z), PosOf(l)) /\ Covered(l)
        /\ Len(l.gone) \in {Len(z.gone), Len(z.gone) + Width}
    BY <1>2, <1>3, <2>2, LineFeedRoll DEF z
  <2> HIDE DEF l
  <2>5. fb \/ l.tracked = Nowhere
    BY <1>2, <2>3 DEF Tracked
  <2>6. PICK t : t = SetCursor(l, At(l))
    OBVIOUS
  <2>7. /\ t.gone = l.gone /\ PosOf(t) = PosOf(l) /\ Covered(t)
        /\ RollOf(t) \in {RollOf(l), [RollOf(l) EXCEPT ![PosOf(l) + 1] = Space]}
    BY <2>3, <2>4, <2>5, <2>6, SetCursorRoll
  <2>8. PosOf(l) = p
    BY <1>2, <1>4, <1>7, <2>3
  <2>9. WholeRows(t)
    BY <1>3, <2>4, <2>7, RowsStay
  <2> QED BY <1>3, <2>1, <2>4, <2>6, <2>7, <2>8, <2>9 DEF Moved
<1> QED BY <1>6, <1>7

(* Rubbing out, on the roll. *)
LEMMA ErasedRoll ==
    ASSUME NEW s \in Screens, Drawn(s), Tracked(s), Covered(s), WholeRows(s), ~AtOrigin(s)
    PROVE  /\ RollOf(Erased(s)) \in Moved([RollOf(s) EXCEPT ![PosOf(s)] = Space], PosOf(s) - 1)
           /\ Covered(Erased(s)) /\ WholeRows(Erased(s))
<1> DEFINE t == IF s.x > 0 THEN [s EXCEPT !.x = @ - 1]
                ELSE [s EXCEPT !.x = Width - 1, !.y = @ - 1]
           p == PutXY(t, At(t), Space)
           u == Invalidate(p, {At(t)})
           e == Erased(s)
<1>1. e = SetCursor(u, At(u))
  BY DEF Erased
<1>2. /\ t \in Screens /\ Drawn(t) /\ At(t) = At(s) - 1
      /\ t.cells = s.cells /\ t.gone = s.gone /\ t.tracked = s.tracked
  BY BackKeeps
<1> HIDE DEF t
<1>3. At(s) \in Nat /\ At(t) \in Places /\ At(t) \in Nat /\ Len(s.gone) \in Nat
  BY <1>2, Standing DEF Places, Screens
<1>4. /\ p \in Screens /\ p.cells = [t.cells EXCEPT ![At(t)] = Space] /\ p.gone = t.gone
  BY <1>2, <1>3, PutXYKeeps, SpaceIsGlyph
<1>5. p.tracked = s.tracked /\ s.tracked # At(t)
  <2>1. t.tracked # At(t)
    BY <1>2, <1>3 DEF Tracked, Nowhere
  <2> QED BY <1>2, <2>1 DEF PutXY, Screens
<1>6. u \in Screens /\ Drawn(u) /\ SamePlace(t, u)
  BY <1>2, <1>3, PutShows, SpaceIsGlyph
<1> HIDE DEF p
<1>7. u.cells = p.cells /\ u.gone = p.gone /\ u.tracked = p.tracked
  BY <1>4, InvalidateKeeps
<1> HIDE DEF u, e
<1>8. PosOf(u) = PosOf(s) - 1 /\ Len(s.gone) + At(t) + 1 = PosOf(s) /\ PosOf(s) \in Nat
  <2>1. At(u) = At(t)
    BY <1>6 DEF At, SamePlace
  <2> QED BY <1>2, <1>3, <1>4, <1>7, <2>1 DEF PosOf
<1>9. fb \/ u.tracked = Nowhere
  BY <1>5, <1>7 DEF Tracked
<1>10. Covered(u)
  <2>1. t.cells \in [Places -> Glyphs \cup {Cursor}]
    BY <1>2 DEF Screens
  <2>2. s.tracked # Nowhere => s.tracked \in Places
    BY DEF Screens
  <2> QED BY <1>2, <1>3, <1>4, <1>5, <1>7, <2>1, <2>2 DEF Covered
<1>11. PICK R : R = [RollOf(s) EXCEPT ![PosOf(s)] = Space]
  OBVIOUS
<1>12. RollOf(u) = R
  <2>1. RollOf(t) = RollOf(s)
    BY <1>2, RollSame
  <2>2. RollOf(p) = [RollOf(t) EXCEPT ![Len(t.gone) + At(t) + 1] = Shown(Space)]
    BY <1>2, <1>3, <1>4, CellRoll, SpaceIsGlyph
  <2>3. Shown(Space) = Space /\ Len(t.gone) + At(t) + 1 = PosOf(s)
    BY <1>2, <1>8 DEF Shown
  <2> QED BY <1>7, <1>11, <2>1, <2>2, <2>3, RollSame
<1>13. /\ e.gone = u.gone /\ PosOf(e) = PosOf(u) /\ Covered(e)
       /\ RollOf(e) \in {RollOf(u), [RollOf(u) EXCEPT ![PosOf(u) + 1] = Space]}
  BY <1>1, <1>6, <1>9, <1>10, SetCursorRoll
<1>14. WholeRows(u) /\ WholeRows(e)
  BY <1>2, <1>4, <1>7, <1>13 DEF WholeRows
<1>15. PosOf(s) - 1 # Len(R)
  <2>1. PosOf(u) \in Nat /\ PosOf(u) < Len(RollOf(u))
    BY <1>6, <1>14, RowOfPos
  <2> QED BY <1>8, <1>12, <2>1
<1> QED BY <1>8, <1>11, <1>12, <1>13, <1>14, <1>15 DEF e, Moved, Terminal!Unrolled

-----------------------------------------------------------------------------
(* The refinement: one lemma per action. *)

\* What the refinement of AbstractTerminal needs besides what is before the cursor.
RollInv == LineInv /\ Covered(con) /\ WholeRows(con)

(* What the invariant says of the console. *)
LEMMA RollFacts ==
    ASSUME RollInv
    PROVE  /\ con \in Screens /\ Drawn(con) /\ Tracked(con) /\ Covered(con) /\ WholeRows(con)
           /\ Roll = RollOf(con) /\ Pos = PosOf(con) /\ ~panicked
           /\ reading \in BOOLEAN /\ fb \in BOOLEAN
BY DEF RollInv, LineInv, IInv, TypeOK, NeverPanics, Roll, RollOf, Pos, PosOf

(* The same after a step. *)
LEMMA RollNext ==
    /\ Roll' = RollOf(con') /\ Pos' = PosOf(con')
    /\ LineInv' /\ Covered(con') /\ WholeRows(con') => RollInv'
BY DEF RollInv, Roll, RollOf, Pos, PosOf, At, Covered, WholeRows

(* The writing place of the roll moves. *)
LEMMA MoveIs ==
    ASSUME NEW r, NEW p, Pos' = p, Roll' \in Moved(r, p)
    PROVE  Terminal!MoveTo(r, p)
BY DEF Moved, Terminal!MoveTo

(* The characters in the buffer are on the roll, so none of them ends the line. *)
LEMMA TypedCharacters ==
    ASSUME RollInv, reading
    PROVE  /\ str \in 0 .. BufSize /\ BufSize \in Nat \ {0}
           /\ buf \in [-1 .. BufSize - 1 -> Glyphs \cup {NewLine, Backspace, Zero}]
           /\ \A i \in 0 .. str - 1 : buf[i] \in Glyphs
           /\ Typed = [i \in 1 .. str |-> buf[i - 1]]
<1>1. /\ str \in 0 .. BufSize /\ BufSize \in Nat \ {0} /\ con \in Screens /\ WholeRows(con)
      /\ buf \in [-1 .. BufSize - 1 -> Glyphs \cup {NewLine, Backspace, Zero}]
  BY Rows DEF RollInv, LineInv, IInv, TypeOK
<1>2. ASSUME NEW i \in 0 .. str - 1 PROVE buf[i] \in Glyphs
  <2>1. str <= PosOf(con) /\ TextAt(con, PosOf(con) - str + i) = buf[i]
    BY DEF RollInv, LineInv, LinePlaced
  <2>2. PosOf(con) \in Nat /\ PosOf(con) < Len(RollOf(con))
    BY <1>1, RowOfPos
  <2>3. /\ RollOf(con) \in Seq(Glyphs)
        /\ \A n \in Nat : n < Len(RollOf(con)) => RollOf(con)[n + 1] = TextAt(con, n)
    BY <1>1, RollIs
  <2>4. PICK n \in Nat : n = PosOf(con) - str + i
    BY <1>1, <2>1, <2>2
  <2>5. n < Len(RollOf(con)) /\ n + 1 \in 1 .. Len(RollOf(con))
    BY <1>1, <2>2, <2>3, <2>4
  <2> QED BY <2>1, <2>3, <2>4, <2>5
<1> QED BY <1>1, <1>2 DEF Typed

(* Where the first Nul is, the line ends. *)
LEMMA FirstZero ==
    ASSUME NEW b, NEW n \in 0 .. BufSize - 1, b[n] = Zero, \A i \in 0 .. n - 1 : b[i] # Zero
    PROVE  (CHOOSE m \in {k \in 0 .. BufSize - 1 : b[k] = Zero /\ \A i \in 0 .. k - 1 : b[i] # Zero} :
                TRUE) = n
<1> DEFINE E == {k \in 0 .. BufSize - 1 : b[k] = Zero /\ \A i \in 0 .. k - 1 : b[i] # Zero}
<1>1. n \in E
  OBVIOUS
<1>2. ASSUME NEW k \in E PROVE k = n
  <2>1. BufSize \in Nat /\ k \in Nat /\ n \in Nat
    BY Rows
  <2>2. ~(k < n) /\ ~(n < k)
    BY <2>1
  <2> QED BY <2>1, <2>2
<1> QED BY <1>1, <1>2

(* A Nul is not a character of the line. *)
LEMMA ZeroEnds == Zero \notin Glyphs /\ Zero # NewLine
BY ScreenAssumption DEF Glyphs, Zero, Space, NewLine

(* What is printed. *)
LEMMA OutputRefines == RollInv /\ Output => RollInv' /\ Terminal!Write
<1> SUFFICES ASSUME RollInv, Output PROVE RollInv' /\ Terminal!Write
  OBVIOUS
<1>1. PICK c \in Glyphs \cup {NewLine, CarriageReturn} : Echo(c)
  BY DEF Output
<1>2. con' = Putc(con, c) /\ panicked' = panicked
  <2>1. Backspace \notin Glyphs \cup {NewLine, CarriageReturn}
    BY Controls DEF NewLine, CarriageReturn, Backspace
  <2> QED BY <1>1, <2>1 DEF Echo
<1>3. ~reading /\ reading' = reading /\ buf' = buf /\ str' = str
  BY DEF Output
<1>4. /\ con \in Screens /\ Drawn(con) /\ Tracked(con) /\ Covered(con) /\ WholeRows(con)
      /\ Roll = RollOf(con) /\ Pos = PosOf(con)
  BY RollFacts
<1>5. LineInv'
  BY OutputLine DEF RollInv
<1>6. Typed' = Typed
  BY <1>3 DEF Typed
<1>7. CASE c \in Glyphs
  <2>1. /\ PosOf(con') = Pos + 1 /\ RollOf(con') \in Moved([Roll EXCEPT ![Pos + 1] = c], Pos + 1)
        /\ Covered(con') /\ WholeRows(con')
    BY <1>2, <1>4, <1>7, PutcText, PutcRoll
  <2>2. Terminal!Put(c)
    BY <2>1, RollNext, MoveIs DEF Terminal!Put
  <2> QED BY <1>2, <1>3, <1>5, <1>6, <1>7, <2>1, <2>2, RollNext DEF Terminal!Write
<1>8. CASE c \in {NewLine, CarriageReturn}
  <2>1. PICK p : p = IF c = NewLine THEN (PosOf(con) \div Width + 1) * Width
                     ELSE PosOf(con) - (PosOf(con) % Width)
    OBVIOUS
  <2>2. /\ PosOf(con') = p /\ RollOf(con') \in Moved(Roll, p)
        /\ Covered(con') /\ WholeRows(con')
    BY <1>2, <1>4, <1>8, <2>1, PutcControlRoll
  <2>3. Terminal!MoveTo(Roll, p)
    BY <2>2, RollNext, MoveIs
  <2>4. Terminal!Feed \/ Terminal!Return
    <3>1. CASE c = NewLine
      BY <1>4, <2>1, <2>3, <3>1 DEF Terminal!Feed
    <3>2. CASE c # NewLine
      BY <1>4, <2>1, <2>3, <3>2 DEF Terminal!Return
    <3> QED BY <3>1, <3>2
  <2> QED BY <1>2, <1>3, <1>5, <1>6, <2>2, <2>4, RollNext DEF Terminal!Write
<1> QED BY <1>7, <1>8

(* A blank roll. *)
LEMMA ClearedRoll ==
    ASSUME NEW s \in Screens, s.gone = <<>>, s.tracked = Nowhere,
           s.cells = [p \in Places |-> Space], s.x = 0, s.y = 0
    PROVE  /\ Covered(s) /\ WholeRows(s) /\ PosOf(s) = 0
           /\ RollOf(s) = Terminal!Spaces(Width * Height)
<1>1. s \in Screens /\ s.gone = <<>> /\ s.tracked = Nowhere
      /\ s.cells = [p \in Places |-> Space] /\ s.x = 0 /\ s.y = 0
  OBVIOUS
<1>2. Covered(s) /\ WholeRows(s)
  <2>1. Len(<<>>) = 0 * Width
    BY Rows
  <2> QED BY <1>1, <2>1 DEF Covered, WholeRows
<1>3. PosOf(s) = 0
  <2>1. 0 * Width + 0 = 0
    BY Rows
  <2> QED BY <1>1, <2>1 DEF PosOf, At
<1>4. PICK r : r = [i \in 1 .. Width * Height |-> Space]
  OBVIOUS
<1>5. Width * Height \in Nat
  BY Rows
<1>6. r \in Seq(Glyphs) /\ Len(r) = Width * Height
  <2>1. r \in [1 .. Width * Height -> Glyphs]
    BY <1>4, SpaceIsGlyph
  <2> QED BY <1>5, <2>1, SeqDef
<1>7. ASSUME NEW n \in Nat, n < Len(r) PROVE TextAt(s, n) = r[n + 1]
  <2>1. n \in Places /\ n + 1 \in 1 .. Width * Height
    BY <1>5, <1>6, <1>7 DEF Places
  <2>2. ~(n < 0) /\ n - 0 = n
    OBVIOUS
  <2> QED BY <1>1, <1>4, <2>1, <2>2 DEF TextAt, Shown
<1>8. Len(RollOf(s)) = Len(r)
  BY <1>1, <1>5, <1>6, RollIs
<1> QED BY <1>1, <1>2, <1>3, <1>4, <1>6, <1>7, <1>8, RollBy DEF Terminal!Spaces

(* The roll is torn off. *)
LEMMA ClearRefines == RollInv /\ Clear => RollInv' /\ Terminal!Clear
<1> SUFFICES ASSUME RollInv, Clear PROVE RollInv' /\ Terminal!Clear
  OBVIOUS
<1>1. /\ con' = Cleared(con) /\ con \in Screens /\ ~reading /\ reading' = reading /\ buf' = buf /\ str' = str
      /\ panicked' = panicked
  BY RollFacts DEF Clear
<1>2. LineInv'
  BY ClearLine DEF RollInv
<1>3. /\ Covered(con') /\ WholeRows(con') /\ PosOf(con') = 0
      /\ RollOf(con') = Terminal!Spaces(Width * Height)
  BY <1>1, ClearedShows, ClearedRoll
<1>4. Typed' = Typed
  BY <1>1 DEF Typed
<1> QED BY <1>1, <1>2, <1>3, <1>4, RollNext DEF Terminal!Clear

(* A line begins. *)
LEMMA GetsRefines == RollInv /\ Gets => RollInv' /\ Terminal!Begin
<1> SUFFICES ASSUME RollInv, Gets PROVE RollInv' /\ Terminal!Begin
  OBVIOUS
<1>1. con' = con /\ str' = 0 /\ ~reading /\ reading' = TRUE /\ panicked' = panicked /\ ~panicked
  BY RollFacts DEF Gets
<1>2. LineInv'
  BY GetsLine DEF RollInv
<1>3. RollInv' /\ Roll' = Roll /\ Pos' = Pos
  BY <1>1, <1>2, RollNext, RollFacts
<1>4. Typed' = <<>>
  BY <1>1 DEF Typed
<1> QED BY <1>1, <1>3, <1>4 DEF Terminal!Begin

(* The line after a step: the characters before the place of gets, or those before
   the first Nul. *)
LEMMA NextLine ==
    /\ reading' => Typed' = [i \in 1 .. str' |-> buf'[i - 1]]
    /\ \A n \in 0 .. BufSize - 1 :
         ~reading' /\ buf'[n] = Zero /\ (\A i \in 0 .. n - 1 : buf'[i] # Zero)
         => Typed' = [i \in 1 .. n |-> buf'[i - 1]]
<1>1. reading' => Typed' = [i \in 1 .. str' |-> buf'[i - 1]]
  BY DEF Typed
<1>2. ASSUME NEW n \in 0 .. BufSize - 1, ~reading', buf'[n] = Zero,
             \A i \in 0 .. n - 1 : buf'[i] # Zero
      PROVE  Typed' = [i \in 1 .. n |-> buf'[i - 1]]
  <2>1. PICK b : b = buf'
    OBVIOUS
  <2>2. (CHOOSE m \in {k \in 0 .. BufSize - 1 : b[k] = Zero /\ \A i \in 0 .. k - 1 : b[i] # Zero} :
             TRUE) = n
    BY <1>2, <2>1, FirstZero
  <2> QED BY <1>2, <2>1, <2>2 DEF Typed
<1> QED BY <1>1, <1>2

(* A line that begins with a Nul is empty. *)
LEMMA EmptyLine ==
    ASSUME reading' => str' = 0, ~reading' => buf'[0] = Zero
    PROVE  Typed' = <<>>
<1>1. CASE reading'
  BY <1>1, NextLine
<1>2. CASE ~reading'
  <2>1. 0 \in 0 .. BufSize - 1 /\ \A i \in 0 .. 0 - 1 : FALSE
    BY Rows, NoneBefore
  <2>2. Typed' = [i \in 1 .. 0 |-> buf'[i - 1]]
    BY <1>2, <2>1, NextLine
  <2> QED BY <2>2
<1> QED BY <1>1, <1>2

(* A character or the end of the line. *)
LEMMA OtherRefines ==
    RollInv /\ GetcOther => RollInv' /\ ((\E c \in Glyphs : Terminal!Type(c)) \/ Terminal!Enter)
<1> SUFFICES ASSUME RollInv, GetcOther
             PROVE  RollInv' /\ ((\E c \in Glyphs : Terminal!Type(c)) \/ Terminal!Enter)
  OBVIOUS
<1>1. PICK c \in Glyphs \cup {NewLine} : Echo(c) /\ EndOfTurn([buf EXCEPT ![str] = c], str)
  BY DEF GetcOther
<1>2. con' = Putc(con, c) /\ panicked' = panicked
  <2>1. Backspace \notin Glyphs \cup {NewLine}
    BY Controls DEF NewLine, Backspace
  <2> QED BY <1>1, <2>1 DEF Echo
<1>3. /\ con \in Screens /\ Drawn(con) /\ Tracked(con) /\ Covered(con) /\ WholeRows(con)
      /\ Roll = RollOf(con) /\ Pos = PosOf(con)
  BY RollFacts
<1>4. reading /\ ~panicked
  BY DEF GetcOther
<1>5. /\ str \in 0 .. BufSize - 1 /\ BufSize \in Nat \ {0}
      /\ buf \in [-1 .. BufSize - 1 -> Glyphs \cup {NewLine, Backspace, Zero}]
      /\ \A i \in 0 .. str - 1 : buf[i] \in Glyphs
      /\ Typed = [i \in 1 .. str |-> buf[i - 1]]
  BY <1>4, TypedCharacters DEF GetcOther
<1>6. LineInv'
  BY OtherLine DEF RollInv
<1>7. CASE c \in Glyphs
  <2>1. c # NewLine
    BY <1>7, Controls
  <2>2. str' = str + 1 /\ buf' = [buf EXCEPT ![str] = c] /\ reading' = TRUE
    <3> DEFINE b == [buf EXCEPT ![str] = c]
    <3>1. str \in -1 .. BufSize - 1
      BY <1>5
    <3>2. b[str] = c
      BY <1>5, <3>1
    <3>3. EndOfTurn(b, str)
      BY <1>1
    <3>4. b[str] # NewLine
      BY <2>1, <3>2
    <3> HIDE DEF b
    <3>5. str' = str + 1 /\ buf' = b /\ reading' = TRUE
      BY <3>3, <3>4 DEF EndOfTurn
    <3> QED BY <3>5 DEF b
  <2>3. /\ PosOf(con') = Pos + 1 /\ RollOf(con') \in Moved([Roll EXCEPT ![Pos + 1] = c], Pos + 1)
        /\ Covered(con') /\ WholeRows(con')
    BY <1>2, <1>3, <1>7, PutcText, PutcRoll
  <2>4. Terminal!Put(c)
    BY <2>3, RollNext, MoveIs DEF Terminal!Put
  <2>5. Typed' = Append(Typed, c)
    <3>1. Typed \in Seq(Glyphs) /\ Len(Typed) = str
      <4>1. \A i \in 1 .. str : i - 1 \in 0 .. str - 1
        BY <1>5
      <4>2. Typed \in [1 .. str -> Glyphs]
        BY <1>5, <4>1
      <4>3. str \in Nat
        BY <1>5
      <4> QED BY <4>2, <4>3, SeqDef
    <3>2. Typed' = [i \in 1 .. str + 1 |-> buf'[i - 1]]
      BY <2>2, NextLine
    <3>3. ASSUME NEW i \in 1 .. str + 1
          PROVE  buf'[i - 1] = IF i = str + 1 THEN c ELSE Typed[i]
      <4>1. CASE i = str + 1
        BY <1>5, <2>2, <4>1
      <4>2. CASE i # str + 1
        <5>1. i \in 1 .. str /\ i - 1 \in -1 .. BufSize - 1 /\ i - 1 # str
          BY <1>5, <4>2
        <5> QED BY <1>5, <2>2, <4>2, <5>1
      <4> QED BY <4>1, <4>2
    <3>4. PICK T : T = Typed
      OBVIOUS
    <3>5. Append(T, c) = [i \in 1 .. str + 1 |-> IF i = str + 1 THEN c ELSE T[i]]
      BY <1>5, <1>7, <3>1, <3>4
    <3> QED BY <3>2, <3>3, <3>4, <3>5
  <2> QED BY <1>2, <1>4, <1>6, <1>7, <2>2, <2>3, <2>4, <2>5, RollNext DEF Terminal!Type
<1>8. CASE c = NewLine
  <2>1. str' = str /\ buf' = [buf EXCEPT ![str] = Zero] /\ reading' = FALSE
    <3> DEFINE b == [buf EXCEPT ![str] = c]
    <3>1. str \in -1 .. BufSize - 1
      BY <1>5
    <3>2. b[str] = NewLine
      BY <1>5, <1>8, <3>1
    <3>3. EndOfTurn(b, str)
      BY <1>1
    <3>4. [b EXCEPT ![str] = Zero] = [buf EXCEPT ![str] = Zero]
      OBVIOUS
    <3> HIDE DEF b
    <3>5. str' = str /\ buf' = [b EXCEPT ![str] = Zero] /\ reading' = FALSE
      BY <3>2, <3>3 DEF EndOfTurn
    <3> QED BY <3>4, <3>5
  <2>2. PICK p : p = (PosOf(con) \div Width + 1) * Width
    OBVIOUS
  <2>3. /\ PosOf(con') = p /\ RollOf(con') \in Moved(Roll, p)
        /\ Covered(con') /\ WholeRows(con')
    BY <1>2, <1>3, <1>8, <2>2, PutcControlRoll
  <2>4. Terminal!Feed
    <3>1. Terminal!MoveTo(Roll, p)
      BY <2>3, RollNext, MoveIs
    <3> QED BY <1>3, <2>2, <3>1 DEF Terminal!Feed
  <2>5. Typed' = Typed
    <3>1. buf'[str] = Zero /\ \A i \in 0 .. str - 1 : buf'[i] = buf[i]
      BY <1>5, <2>1
    <3>2. \A i \in 0 .. str - 1 : buf'[i] # Zero
      BY <1>5, <3>1, ZeroEnds
    <3>3. Typed' = [i \in 1 .. str |-> buf'[i - 1]]
      BY <1>5, <2>1, <3>1, <3>2, NextLine
    <3>4. \A i \in 1 .. str : buf'[i - 1] = buf[i - 1]
      BY <1>5, <3>1
    <3> QED BY <1>5, <3>3, <3>4
  <2> QED BY <1>2, <1>4, <1>6, <2>1, <2>3, <2>4, <2>5, RollNext DEF Terminal!Enter
<1> QED BY <1>7, <1>8

(* Rubbing out. *)
LEMMA BackspaceRefines == RollInv /\ GetcBackspace => RollInv' /\ Terminal!RubOut
<1> SUFFICES ASSUME RollInv, GetcBackspace PROVE RollInv' /\ Terminal!RubOut
  OBVIOUS
<1>1. LineInv'
  BY BackspaceLine DEF RollInv
<1>2. ~AtOrigin(con)
  BY <1>1 DEF LineInv, IInv, NeverPanics, GetcBackspace, Echo
<1> DEFINE b == [buf EXCEPT ![str] = Zero, ![str - 1] = Zero]
<1>3. con' = Erased(con) /\ panicked' = panicked /\ EndOfTurn(b, str - 2)
  BY <1>2 DEF GetcBackspace, Echo
<1>4. reading /\ ~panicked
  BY DEF GetcBackspace
<1>5. /\ con \in Screens /\ Drawn(con) /\ Tracked(con) /\ Covered(con) /\ WholeRows(con)
      /\ Roll = RollOf(con) /\ Pos = PosOf(con)
  BY RollFacts
<1>6. /\ str \in 1 .. BufSize - 1 /\ BufSize \in Nat \ {0}
      /\ buf \in [-1 .. BufSize - 1 -> Glyphs \cup {NewLine, Backspace, Zero}]
      /\ \A i \in 0 .. str - 1 : buf[i] \in Glyphs
      /\ Typed = [i \in 1 .. str |-> buf[i - 1]]
  BY <1>4, TypedCharacters DEF GetcBackspace
<1>7. /\ PosOf(con') = Pos - 1 /\ RollOf(con') \in Moved([Roll EXCEPT ![Pos] = Space], Pos - 1)
      /\ Covered(con') /\ WholeRows(con')
  BY <1>2, <1>3, <1>5, ErasedText, ErasedRoll
<1>8. Terminal!MoveTo([Roll EXCEPT ![Pos] = Space], Pos - 1)
  BY <1>7, RollNext, MoveIs
<1>9. Typed \in Seq(Glyphs) /\ Len(Typed) = str
  <2>1. \A i \in 1 .. str : i - 1 \in 0 .. str - 1
    BY <1>6
  <2>2. Typed \in [1 .. str -> Glyphs]
    BY <1>6, <2>1
  <2>3. str \in Nat
    BY <1>6
  <2> QED BY <2>2, <2>3, SeqDef
<1>10. Typed # <<>>
  BY <1>6, <1>9
<1>11. /\ b[str - 1] = Zero /\ str - 2 \in -1 .. BufSize - 1 /\ str - 2 + 1 = str - 1
       /\ \A i \in -1 .. str - 2 : b[i] = buf[i]
       /\ b \in [-1 .. BufSize - 1 -> Glyphs \cup {NewLine, Backspace, Zero}]
  BY <1>6
<1> HIDE DEF b
<1>12. CASE b[str - 2] # NewLine
  <2>1. str' = str - 1 /\ buf' = b /\ reading' = TRUE
    BY <1>3, <1>11, <1>12 DEF EndOfTurn
  <2>2. Typed' = [i \in 1 .. str - 1 |-> buf'[i - 1]]
    BY <2>1, NextLine
  <2>3. \A i \in 1 .. str - 1 : buf'[i - 1] = Typed[i]
    <3>1. \A i \in 1 .. str - 1 : i \in 1 .. str /\ i - 1 \in -1 .. str - 2
      BY <1>6
    <3> QED BY <1>6, <1>11, <2>1, <3>1
  <2>4. PICK T \in Seq(Glyphs) : T = Typed
    BY <1>9
  <2>5. SubSeq(T, 1, str - 1) = [i \in 1 .. str - 1 |-> T[i]]
    BY <1>6, <1>9, <2>4
  <2>6. Typed' = SubSeq(Typed, 1, Len(Typed) - 1)
    BY <1>9, <2>2, <2>3, <2>4, <2>5
  <2> QED BY <1>1, <1>3, <1>4, <1>7, <1>8, <1>10, <2>1, <2>6, RollNext DEF Terminal!RubOut
<1>13. CASE b[str - 2] = NewLine
  <2>1. reading' = FALSE /\ buf' = [b EXCEPT ![str - 2] = Zero]
    BY <1>3, <1>13 DEF EndOfTurn
\* A line feed is no character of the line, so it is the byte before the buffer.
  <2>2. str = 1
    <3> SUFFICES ASSUME str # 1 PROVE FALSE
      OBVIOUS
    <3>1. str - 2 \in 0 .. str - 1 /\ str - 2 \in -1 .. str - 2
      BY <1>6
    <3>2. b[str - 2] \in Glyphs
      BY <1>6, <1>11, <3>1
    <3> QED BY <1>13, <3>2, Controls
  <2>3. buf'[0] = Zero
    BY <1>6, <1>11, <2>1, <2>2
  <2>4. Typed' = <<>>
    BY <2>1, <2>3, EmptyLine
  <2>5. SubSeq(Typed, 1, Len(Typed) - 1) = <<>>
    <3>1. PICK T \in Seq(Glyphs) : T = Typed
      BY <1>9
    <3>2. SubSeq(T, 1, 0) = <<>>
      BY <3>1
    <3> QED BY <1>9, <2>2, <3>1, <3>2
  <2> QED BY <1>1, <1>3, <1>4, <1>7, <1>8, <1>10, <2>1, <2>4, <2>5, RollNext DEF Terminal!RubOut
<1> QED BY <1>12, <1>13

(* At its start the line stays, or is given up. *)
LEMMA BackspaceAtStartRefines ==
    RollInv /\ GetcBackspaceAtStart => RollInv' /\ (Terminal!GiveUp \/ UNCHANGED Terminal!vars)
<1> SUFFICES ASSUME RollInv, GetcBackspaceAtStart
             PROVE  RollInv' /\ (Terminal!GiveUp \/ UNCHANGED Terminal!vars)
  OBVIOUS
<1> DEFINE b == [buf EXCEPT ![str] = Zero]
<1>1. con' = con /\ panicked' = panicked /\ EndOfTurn(b, -1) /\ str = 0 /\ reading /\ ~panicked
  BY DEF GetcBackspaceAtStart
<1>2. LineInv'
  BY BackspaceAtStartLine DEF RollInv
<1>3. RollInv' /\ Roll' = Roll /\ Pos' = Pos
  BY <1>1, <1>2, RollNext, RollFacts
<1>4. /\ BufSize \in Nat \ {0} /\ buf \in [-1 .. BufSize - 1 -> Glyphs \cup {NewLine, Backspace, Zero}]
      /\ Typed = <<>>
  <2>1. Typed = [i \in 1 .. str |-> buf[i - 1]]
    BY <1>1, TypedCharacters
  <2>2. [i \in 1 .. 0 |-> buf[i - 1]] = <<>>
    OBVIOUS
  <2> QED BY <1>1, <2>1, <2>2, TypedCharacters
<1>5. b \in [-1 .. BufSize - 1 -> Glyphs \cup {NewLine, Backspace, Zero}] /\ b[0] = Zero
  BY <1>1, <1>4
<1> HIDE DEF b
<1>6. (reading' => str' = 0) /\ buf'[0] = Zero /\ reading' \in BOOLEAN
  BY <1>1, <1>4, <1>5 DEF EndOfTurn
<1>7. Typed' = <<>>
  BY <1>6, EmptyLine
<1>8. CASE reading'
  BY <1>1, <1>3, <1>4, <1>6, <1>7, <1>8 DEF Terminal!vars
<1>9. CASE ~reading'
  BY <1>1, <1>3, <1>4, <1>6, <1>7, <1>9 DEF Terminal!GiveUp
<1> QED BY <1>8, <1>9

(* The screen is blank and the line empty at first. *)
LEMMA InitRefines == Init => RollInv /\ Terminal!Init
<1> SUFFICES ASSUME Init PROVE RollInv /\ Terminal!Init
  OBVIOUS
<1>1. con = Blank /\ reading = FALSE /\ buf = [i \in -1 .. BufSize - 1 |-> Zero]
  BY DEF Init
<1>2. LineInv
  BY InitLine
<1>3. Covered(con) /\ WholeRows(con) /\ Roll = Terminal!Spaces(Width * Height) /\ Pos = 0
  <2>1. /\ con \in Screens /\ con.gone = <<>> /\ con.tracked = Nowhere
        /\ con.cells = [p \in Places |-> Space] /\ con.x = 0 /\ con.y = 0
    <3>1. con \in Screens
      BY <1>1, BlankShows
    <3> QED BY <1>1, <3>1 DEF Blank
  <2>2. Covered(con) /\ WholeRows(con) /\ PosOf(con) = 0 /\ RollOf(con) = Terminal!Spaces(Width * Height)
    BY <2>1, ClearedRoll
  <2> QED BY <2>2 DEF Roll, Pos, RollOf, PosOf
<1>4. Typed = <<>>
  <2>1. 0 \in 0 .. BufSize - 1 /\ (\A i \in 0 .. 0 - 1 : FALSE) /\ buf[0] = Zero
    BY <1>1, Rows, NoneBefore
  <2>2. \A i \in 0 .. 0 - 1 : buf[i] # Zero
    BY <2>1
  <2>3. (CHOOSE m \in {k \in 0 .. BufSize - 1 : buf[k] = Zero /\ \A i \in 0 .. k - 1 : buf[i] # Zero} :
             TRUE) = 0
    BY <2>1, <2>2, FirstZero
  <2>4. [i \in 1 .. 0 |-> buf[i - 1]] = <<>>
    OBVIOUS
  <2> QED BY <1>1, <2>3, <2>4 DEF Typed
<1> QED BY <1>1, <1>2, <1>3, <1>4 DEF RollInv, Terminal!Init

(* A step of console and line editor is a step on the roll, or none. *)
LEMMA StepRefines ==
    RollInv /\ [Next]_vars => RollInv' /\ [Terminal!Next]_(Terminal!vars)
<1> SUFFICES ASSUME RollInv, [Next]_vars PROVE RollInv' /\ [Terminal!Next]_(Terminal!vars)
  OBVIOUS
<1>1. CASE Output
  BY <1>1, OutputRefines DEF Terminal!Next
<1>2. CASE Clear
  BY <1>2, ClearRefines DEF Terminal!Next
<1>3. CASE Gets
  BY <1>3, GetsRefines DEF Terminal!Next
<1>4. CASE GetcOther
  BY <1>4, OtherRefines DEF Terminal!Next
<1>5. CASE GetcBackspace
  BY <1>5, BackspaceRefines DEF Terminal!Next
<1>6. CASE GetcBackspaceAtStart
  BY <1>6, BackspaceAtStartRefines DEF Terminal!Next
<1>7. CASE UNCHANGED vars
  <2>1. LineInv'
    <3>1. LinePlaced' /\ Tracked(con)'
      BY <1>7 DEF vars, RollInv, LineInv, LinePlaced, Tracked, PosOf, At, TextAt
    <3>2. IInv'
      BY <1>7 DEF vars, RollInv, LineInv, IInv, TypeOK, Drawn, NeverPanics, CursorBehindLine
    <3> QED BY <3>1, <3>2 DEF LineInv
  <2>2. con' = con /\ reading' = reading /\ panicked' = panicked /\ buf' = buf /\ str' = str
    BY <1>7 DEF vars
  <2>3. RollInv' /\ Roll' = Roll /\ Pos' = Pos
    BY <2>1, <2>2, RollNext, RollFacts
  <2>4. Typed' = Typed
    BY <2>2 DEF Typed
  <2> QED BY <2>2, <2>3, <2>4 DEF Terminal!vars
<1> QED BY <1>1, <1>2, <1>3, <1>4, <1>5, <1>6, <1>7 DEF Next

\* Console and line editor implement the roll of paper with a line at its end, on any
\* screen and with any buffer that fits it: putc, console_erase and gets neither lose
\* nor move a character, and the line gets returns is the one that was typed.
THEOREM TerminalRefinement == Spec => ImplementsTerminal
BY InitRefines, StepRefines, PTL DEF Spec, ImplementsTerminal, Terminal!Spec

(***************************************************************************)
(* Framebuffer.  Drawing changes neither a size nor the place of the       *)
(* cursor; what changes a size passes through Fitted, and what moves the   *)
(* cursor keeps it on the screen.                                          *)
(***************************************************************************)

\* A state of the drivers, as far as its fields go.
IsScreen(d) ==
    /\ d = [vesa |-> d.vesa, back |-> d.back, fbdev |-> d.fbdev, fbcon |-> d.fbcon]
    /\ d.fbcon = [width |-> d.fbcon.width, height |-> d.fbcon.height, x |-> d.fbcon.x,
                  y |-> d.fbcon.y, font |-> d.fbcon.font, tracked |-> d.fbcon.tracked,
                  reach |-> d.fbcon.reach]

\* What drawing leaves alone: all but where the cursor was drawn and how far drawing reached.
Redrawn(d, e) ==
    /\ IsScreen(e) /\ e.vesa = d.vesa /\ e.back = d.back /\ e.fbdev = d.fbdev
    /\ e.fbcon.width = d.fbcon.width /\ e.fbcon.height = d.fbcon.height
    /\ e.fbcon.x = d.fbcon.x /\ e.fbcon.y = d.fbcon.y /\ e.fbcon.font = d.fbcon.font

\* The sizes agree, and the cursor is on the screen.
Fits(d, m) ==
    /\ IsScreen(d)
    /\ m \in DOMAIN VideoModes
    /\ d.vesa.width = VideoModes[m].x /\ d.vesa.height = VideoModes[m].y
    /\ d.fbdev = [width |-> d.vesa.width, height |-> d.vesa.height]
    /\ d.fbcon.font \in Fonts \cup {Cherry}
    /\ d.fbcon.width = d.fbdev.width \div d.fbcon.font.w
    /\ d.fbcon.height = d.fbdev.height \div d.fbcon.font.h
Inside(d) ==
    /\ d.fbcon.x \in Nat /\ d.fbcon.y \in Nat
    /\ d.fbcon.x < d.fbcon.width /\ d.fbcon.y < d.fbcon.height

ScreenInv == Fits(Screen, mode) /\ Inside(Screen)

(* Every mode has room for at least one place of every font. *)
LEMMA PlacesExist ==
    ASSUME NEW f \in Fonts \cup {Cherry}, NEW m \in DOMAIN VideoModes
    PROVE  /\ VideoModes[m].x \div f.w \in Nat \ {0}
           /\ VideoModes[m].y \div f.h \in Nat \ {0}
<1>1. VideoModes[m] \in ToSet(VideoModes)
  BY DEF ToSet
<1>2. VideoModes[m].x \in Nat /\ VideoModes[m].y \in Nat
  <2>1. VideoModes[m] \in [x : Nat, y : Nat, bpp : Nat, pitch : Nat, ok : BOOLEAN]
    <3>1. \A R : VideoModes \in Seq(R) => VideoModes[m] \in R
      OBVIOUS
    <3> QED BY <3>1, ModesAssumption
  <2> QED BY <2>1
<1>3. f.w \in 1 .. VideoModes[m].x /\ f.h \in 1 .. VideoModes[m].y
  BY <1>1, FontsFit
<1>4. \A a \in Nat, b \in Nat : b \in 1 .. a => a \div b \in Nat \ {0}
  OBVIOUS
<1> QED BY <1>2, <1>3, <1>4

(* The two changes that drawing consists of. *)
LEMMA DrawnOnly ==
    ASSUME NEW d, IsScreen(d), NEW r
    PROVE  /\ Redrawn(d, [d EXCEPT !.fbcon.reach = r])
           /\ Redrawn(d, [d EXCEPT !.fbcon.tracked = r])
           /\ IsScreen([d EXCEPT !.fbcon.reach = r]) /\ IsScreen([d EXCEPT !.fbcon.tracked = r])
<1>1. Redrawn(d, [d EXCEPT !.fbcon.reach = r]) /\ Redrawn(d, [d EXCEPT !.fbcon.tracked = r])
  BY DEF IsScreen, Redrawn
<1> QED BY <1>1 DEF Redrawn

(* Drawing again changes no more. *)
LEMMA RedrawnTwice ==
    ASSUME NEW d, NEW e, NEW f, Redrawn(d, e), Redrawn(e, f)
    PROVE  Redrawn(d, f)
BY DEF Redrawn

(* fb_put_bitmap, fb_putxy and fb_set_cursor only draw. *)
LEMMA PutDraws ==
    ASSUME NEW d, IsScreen(d), NEW x, NEW y
    PROVE  /\ Redrawn(d, vesa_put_pixel(d, x, y))
           /\ Redrawn(d, fb_put_bitmap(d, x, y))
           /\ Redrawn(d, fb_putxy(d, x, y))
<1>1. \A e, i, j : IsScreen(e) => Redrawn(e, vesa_put_pixel(e, i, j))
  BY DrawnOnly DEF vesa_put_pixel
<1>2. \A e, i, j : IsScreen(e) => Redrawn(e, fb_put_bitmap(e, i, j))
  BY <1>1 DEF fb_put_bitmap
<1>3. \A t : LET e == [d EXCEPT !.fbcon.tracked = t] IN Redrawn(d, e) /\ IsScreen(e)
  BY DrawnOnly
<1>4. Redrawn(d, fb_putxy(d, x, y))
  BY <1>2, <1>3, RedrawnTwice DEF fb_putxy
<1> QED BY <1>1, <1>2, <1>4

(* So does the cursor. *)
LEMMA CursorDraws ==
    ASSUME NEW d, IsScreen(d)
    PROVE  Redrawn(d, fb_set_cursor(d))
<1> DEFINE e == IF d.fbcon.tracked = Untracked THEN d
                ELSE fb_putxy(d, d.fbcon.tracked[1], d.fbcon.tracked[2])
           g == fb_put_bitmap(e, d.fbcon.x, d.fbcon.y)
<1>1. Redrawn(d, e) /\ IsScreen(e)
  <2>1. Redrawn(d, d)
    BY DEF Redrawn
  <2>2. Redrawn(d, fb_putxy(d, d.fbcon.tracked[1], d.fbcon.tracked[2]))
    BY PutDraws
  <2>3. Redrawn(d, e)
    BY <2>1, <2>2
  <2> HIDE DEF e
  <2> QED BY <2>3 DEF Redrawn
<1>2. Redrawn(d, g) /\ IsScreen(g)
  <2> HIDE DEF e
  <2>1. Redrawn(e, g)
    BY <1>1, PutDraws
  <2> HIDE DEF g
  <2> QED BY <1>1, <2>1, RedrawnTwice DEF Redrawn
<1>3. fb_set_cursor(d) = [g EXCEPT !.fbcon.tracked = <<d.fbcon.x, d.fbcon.y>>]
  BY DEF fb_set_cursor
<1> HIDE DEF e, g
<1> QED BY <1>2, <1>3, DrawnOnly, RedrawnTwice

(* Filling rows, and scrolling, only draw. *)
LEMMA SpacedDraws ==
    ASSUME NEW d, IsScreen(d), NEW from, NEW to
    PROVE  Redrawn(d, Spaced(d, from, to))
<1>1. \A t : LET e == [d EXCEPT !.fbcon.tracked = t] IN Redrawn(d, e) /\ IsScreen(e)
  BY DrawnOnly
<1> QED BY <1>1, PutDraws, RedrawnTwice DEF Spaced

(* vesa_shift draws, and the rows that came in are filled. *)
LEMMA ScrollDraws ==
    ASSUME NEW d, IsScreen(d)
    PROVE  Redrawn(d, fb_scroll(d))
<1>1. \A r : LET e == [d EXCEPT !.fbcon.reach = r] IN Redrawn(d, e) /\ IsScreen(e)
  BY DrawnOnly
<1> QED BY <1>1, SpacedDraws, RedrawnTwice DEF fb_scroll

(* Drawing keeps the sizes and the cursor. *)
LEMMA RedrawnFits ==
    ASSUME NEW d, NEW e, NEW m, Redrawn(d, e)
    PROVE  /\ Fits(d, m) => Fits(e, m)
           /\ Inside(d) => Inside(e)
BY DEF Redrawn, Fits, Inside

(* The cursor of a screen whose sizes agree may go to any place. *)
LEMMA MovedFits ==
    ASSUME NEW d, NEW m, Fits(d, m), NEW i \in Nat, NEW j \in Nat,
           i < d.fbcon.width, j < d.fbcon.height
    PROVE  LET e == [d EXCEPT !.fbcon.x = i, !.fbcon.y = j] IN Fits(e, m) /\ Inside(e)
<1> DEFINE c == [width |-> d.fbcon.width, height |-> d.fbcon.height, x |-> i, y |-> j,
                 font |-> d.fbcon.font, tracked |-> d.fbcon.tracked, reach |-> d.fbcon.reach]
           e == [vesa |-> d.vesa, back |-> d.back, fbdev |-> d.fbdev, fbcon |-> c]
           b == [width |-> d.fbcon.width, height |-> d.fbcon.height, x |-> i, y |-> d.fbcon.y,
                 font |-> d.fbcon.font, tracked |-> d.fbcon.tracked, reach |-> d.fbcon.reach]
           g == [vesa |-> d.vesa, back |-> d.back, fbdev |-> d.fbdev, fbcon |-> b]
<1>1. [d EXCEPT !.fbcon.x = i] = g
  BY DEF Fits, IsScreen
<1>2. [g EXCEPT !.fbcon.y = j] = e
  OBVIOUS
<1>3. [d EXCEPT !.fbcon.x = i, !.fbcon.y = j] = e
  <2>1. [d EXCEPT !.fbcon.x = i, !.fbcon.y = j] = [[d EXCEPT !.fbcon.x = i] EXCEPT !.fbcon.y = j]
    OBVIOUS
  <2> HIDE DEF e, g
  <2> QED BY <1>1, <1>2, <2>1
<1>4. Fits(e, m) /\ Inside(e)
  BY DEF Fits, Inside, IsScreen
<1> QED BY <1>3, <1>4

(* console_clear ends at the origin of a screen whose sizes agree. *)
LEMMA ClearFits ==
    ASSUME NEW d, NEW m, Fits(d, m)
    PROVE  Fits(console_clear(d), m) /\ Inside(console_clear(d))
<1> DEFINE s == Spaced(d, 0, d.fbcon.height - 1)
           c == vesa_put_pixel(s, d.fbdev.width - 1, d.fbdev.height - 1)
<1>1. Redrawn(d, s)
  BY SpacedDraws DEF Fits
<1>2. Redrawn(d, c)
  <2> HIDE DEF s
  <2> QED BY <1>1, PutDraws, RedrawnTwice DEF Redrawn
<1>3. console_clear(d) = [c EXCEPT !.fbcon.x = 0, !.fbcon.y = 0]
  BY DEF console_clear
<1> HIDE DEF c
<1>4. Fits(c, m)
  BY <1>2, RedrawnFits
<1>5. c.fbcon.width \in Nat \ {0} /\ c.fbcon.height \in Nat \ {0}
  BY <1>4, PlacesExist DEF Fits
<1>6. 0 < c.fbcon.width /\ 0 < c.fbcon.height
  BY <1>5
<1>7. \A i, j \in Nat : i < c.fbcon.width /\ j < c.fbcon.height
          => LET e == [c EXCEPT !.fbcon.x = i, !.fbcon.y = j] IN Fits(e, m) /\ Inside(e)
  BY <1>4, MovedFits
<1>8. LET e == [c EXCEPT !.fbcon.x = 0, !.fbcon.y = 0] IN Fits(e, m) /\ Inside(e)
  BY <1>6, <1>7
<1> QED BY <1>3, <1>8

(* Fitting the console to its device makes the sizes agree again. *)
LEMMA FittedFits ==
    ASSUME NEW d, IsScreen(d), NEW m \in DOMAIN VideoModes,
           d.vesa.width = VideoModes[m].x, d.vesa.height = VideoModes[m].y,
           d.fbdev = [width |-> d.vesa.width, height |-> d.vesa.height],
           d.fbcon.font \in Fonts \cup {Cherry}
    PROVE  /\ Fits(Fitted(d), m)
           /\ Fitted(d).fbcon.x = d.fbcon.x /\ Fitted(d).fbcon.y = d.fbcon.y
<1> DEFINE w == d.fbdev.width \div d.fbcon.font.w
           h == d.fbdev.height \div d.fbcon.font.h
           c == [width |-> w, height |-> h, x |-> d.fbcon.x, y |-> d.fbcon.y,
                 font |-> d.fbcon.font, tracked |-> d.fbcon.tracked, reach |-> d.fbcon.reach]
           e == [vesa |-> d.vesa, back |-> d.back, fbdev |-> d.fbdev, fbcon |-> c]
<1>1. Fitted(d) = [d EXCEPT !.fbcon.width = w, !.fbcon.height = h]
  BY DEF Fitted
<1> HIDE DEF w, h
<1> DEFINE b == [width |-> w, height |-> d.fbcon.height, x |-> d.fbcon.x, y |-> d.fbcon.y,
                 font |-> d.fbcon.font, tracked |-> d.fbcon.tracked, reach |-> d.fbcon.reach]
           g == [vesa |-> d.vesa, back |-> d.back, fbdev |-> d.fbdev, fbcon |-> b]
<1>2. [d EXCEPT !.fbcon.width = w] = g
  BY DEF IsScreen
<1>3. [g EXCEPT !.fbcon.height = h] = e
  OBVIOUS
<1>4. Fitted(d) = e
  <2>1. Fitted(d) = [[d EXCEPT !.fbcon.width = w] EXCEPT !.fbcon.height = h]
    BY <1>1
  <2> HIDE DEF e, g
  <2> QED BY <1>2, <1>3, <2>1
<1>5. IsScreen(e)
  BY DEF IsScreen
<1>6. Fits(e, m)
  BY <1>5 DEF Fits, w, h
<1> QED BY <1>4, <1>6

(* The cursor goes to the next row, or the screen scrolls below it. *)
LEMMA RowFits ==
    ASSUME NEW d, NEW m, Fits(d, m), Inside(d)
    PROVE  Fits(NextRow(d), m) /\ Inside(NextRow(d))
<1>1. CASE d.fbcon.y + 1 >= d.fbcon.height
  BY <1>1, ScrollDraws, RedrawnFits DEF NextRow, Fits
<1>2. CASE ~ (d.fbcon.y + 1 >= d.fbcon.height)
  <2>1. NextRow(d) = [d EXCEPT !.fbcon.y = d.fbcon.y + 1]
    BY <1>2 DEF NextRow
  <2>2. d.fbcon.height \in Nat
    BY PlacesExist DEF Fits
  <2>3. d.fbcon.y + 1 \in Nat /\ d.fbcon.y + 1 < d.fbcon.height
    BY <1>2, <2>2 DEF Inside
  <2> QED BY <2>1, <2>3 DEF Fits, Inside, IsScreen
<1> QED BY <1>1, <1>2

(* The column alone may change, too. *)
LEMMA ColumnFits ==
    ASSUME NEW d, NEW m, Fits(d, m), Inside(d), NEW i \in Nat
    PROVE  LET e == [d EXCEPT !.fbcon.x = i]
           IN  Fits(e, m) /\ (i < d.fbcon.width => Inside(e))
               /\ e.fbcon.x = i /\ e.fbcon.y = d.fbcon.y
               /\ e.fbcon.width = d.fbcon.width /\ e.fbcon.height = d.fbcon.height
BY DEF Fits, Inside, IsScreen


(* What the drivers become holds of them. *)
LEMMA BecomeInv ==
    ASSUME NEW d, Fits(d, mode'), Inside(d), Become(d)
    PROVE  ScreenInv'
<1>1. Screen' = d
  BY DEF Screen, Become, Fits, IsScreen
<1> QED BY <1>1 DEF ScreenInv

(* console_erase, of which the origin is out of the guard, steps back to a place. *)
LEMMA EraseFits ==
    ASSUME NEW d, NEW m, Fits(d, m), Inside(d), d.fbcon.x > 0 \/ d.fbcon.y > 0
    PROVE  Fits(console_erase(d), m) /\ Inside(console_erase(d))
<1> DEFINE x == IF d.fbcon.x > 0 THEN d.fbcon.x - 1 ELSE d.fbcon.width - 1
           y == IF d.fbcon.x > 0 THEN d.fbcon.y ELSE d.fbcon.y - 1
           e == [d EXCEPT !.fbcon.x = x, !.fbcon.y = y]
<1>1. d.fbcon.width \in Nat \ {0} /\ d.fbcon.height \in Nat \ {0}
  BY PlacesExist DEF Fits
<1>2. x \in Nat /\ y \in Nat /\ x < d.fbcon.width /\ y < d.fbcon.height
  BY <1>1 DEF Inside
<1>3. Fits(e, m) /\ Inside(e)
  <2> HIDE DEF x, y
  <2> QED BY <1>2, MovedFits
<1>4. console_erase(d) = fb_putxy(e, x, y)
  BY DEF console_erase
<1> HIDE DEF e, x, y
<1>5. IsScreen(e) /\ Redrawn(e, fb_putxy(e, x, y))
  BY <1>3, PutDraws DEF Fits
<1> QED BY <1>3, <1>4, <1>5, RedrawnFits

(* console_putc leaves the cursor on the screen. *)
LEMMA PutcScreenInv ==
    ASSUME ScreenInv, NEW c \in {"a", "\n", "\r", "erase"}, console_putc(c)
    PROVE  ScreenInv'
<1> DEFINE drawn == fb_putxy(Screen, fbcon.x, fbcon.y)
           put   == [drawn EXCEPT !.fbcon.x = @ + 1]
           start == [Screen EXCEPT !.fbcon.x = 0]
           wrapped == [put EXCEPT !.fbcon.x = 0]
           d == CASE c = "\n" -> NextRow(start)
                  [] c = "\r" -> start
                  [] c = "erase" -> console_erase(Screen)
                  [] OTHER -> IF put.fbcon.x >= fbcon.width THEN NextRow(wrapped) ELSE put
<1>1. Fits(Screen, mode) /\ Inside(Screen) /\ Screen.fbcon = fbcon /\ mode' = mode
  BY DEF ScreenInv, Screen, console_putc
<1>2. fbcon.width \in Nat \ {0} /\ fbcon.x \in Nat /\ 0 < fbcon.width
  BY <1>1, PlacesExist DEF Fits, Inside
<1>3. Fits(start, mode) /\ Inside(start)
  BY <1>1, <1>2, ColumnFits
<1>4. /\ Fits(drawn, mode) /\ Inside(drawn)
      /\ drawn.fbcon.x = fbcon.x /\ drawn.fbcon.width = fbcon.width
  <2>1. Redrawn(Screen, drawn)
    BY <1>1, PutDraws DEF Fits
  <2> HIDE DEF drawn
  <2> QED BY <1>1, <2>1, RedrawnFits DEF Redrawn
<1>5. /\ Fits(put, mode) /\ put.fbcon.x = fbcon.x + 1
      /\ put.fbcon.width = fbcon.width
      /\ put.fbcon.x < fbcon.width => Inside(put)
      /\ Fits(wrapped, mode) /\ Inside(wrapped)
  <2> HIDE DEF drawn
  <2>1. put = [drawn EXCEPT !.fbcon.x = fbcon.x + 1]
    BY <1>4
  <2>2. fbcon.x + 1 \in Nat
    BY <1>2
  <2>3. /\ Fits(put, mode) /\ put.fbcon.x = fbcon.x + 1
        /\ put.fbcon.width = fbcon.width
        /\ put.fbcon.x < fbcon.width => Inside(put)
    BY <1>4, <2>1, <2>2, ColumnFits
  <2>4. wrapped = [drawn EXCEPT !.fbcon.x = 0]
    BY <1>4 DEF Fits, IsScreen
  <2>5. Fits(wrapped, mode) /\ Inside(wrapped)
    BY <1>2, <1>4, <2>4, ColumnFits
  <2> QED BY <2>3, <2>5
<1>6. c = "erase" => fbcon.x > 0 \/ fbcon.y > 0
  BY DEF console_putc
<1>7. Become(fb_set_cursor(d))
  BY DEF console_putc
<1> HIDE DEF drawn, put, start, wrapped
<1>8. Fits(d, mode) /\ Inside(d)
  <2>1. CASE c = "\n"
    BY <1>3, <2>1, RowFits
  <2>2. CASE c = "\r"
    BY <1>3, <2>2
  <2>3. CASE c = "erase"
    BY <1>1, <1>6, <2>3, EraseFits
  <2>4. CASE c = "a" /\ put.fbcon.x >= fbcon.width
    BY <1>5, <2>4, RowFits
  <2>5. CASE c = "a" /\ ~ (put.fbcon.x >= fbcon.width)
    <3>1. put.fbcon.x < fbcon.width
      BY <1>2, <1>5, <2>5
    <3> QED BY <1>5, <2>5, <3>1
  <2> QED BY <2>1, <2>2, <2>3, <2>4, <2>5
<1> HIDE DEF d
<1>9. Fits(fb_set_cursor(d), mode) /\ Inside(fb_set_cursor(d))
  BY <1>8, CursorDraws, RedrawnFits DEF Fits
<1> QED BY <1>1, <1>7, <1>9, BecomeInv

(* Clearing the screen does, too. *)
LEMMA ClearScreenInv ==
    ASSUME ScreenInv, clear
    PROVE  ScreenInv'
BY ClearFits, BecomeInv DEF clear, ScreenInv

(* A font that is set fits the screen it is set on. *)
LEMMA SetfntScreenInv ==
    ASSUME ScreenInv, NEW f \in Fonts, setfnt(f)
    PROVE  ScreenInv'
<1> DEFINE d == [Screen EXCEPT !.fbcon.font = f]
<1>1. /\ IsScreen(d) /\ d.vesa = Screen.vesa /\ d.fbdev = Screen.fbdev /\ d.fbcon.font = f
      /\ mode' = mode /\ Become(console_clear(Fitted(d)))
  <2>1. mode' = mode /\ Become(console_clear(Fitted(d)))
    BY DEF setfnt
  <2>2. IsScreen(Screen)
    BY DEF ScreenInv, Fits
  <2>3. IsScreen(d) /\ d.vesa = Screen.vesa /\ d.fbdev = Screen.fbdev /\ d.fbcon.font = f
    BY <2>2 DEF IsScreen
  <2> QED BY <2>1, <2>3
<1> HIDE DEF d
<1>2. Fits(Fitted(d), mode)
  BY <1>1, FittedFits DEF ScreenInv, Fits
<1> QED BY <1>1, <1>2, ClearFits, BecomeInv

(* The mode vesa_find_mode finds has the size that was asked for. *)
LEMMA FoundMode ==
    ASSUME NEW r, Suitable(r) # {}
    PROVE  vesa_find_mode(r) \in DOMAIN VideoModes
<1>1. DOMAIN VideoModes \subseteq Nat
  BY ModesAssumption
<1>2. Suitable(r) \subseteq DOMAIN VideoModes
  BY DEF Suitable
<1>3. vesa_find_mode(r) \in Suitable(r)
  BY <1>1, <1>2, LeastIs DEF vesa_find_mode
<1> QED BY <1>2, <1>3

(* What vesa_set_res changes. *)
LEMMA SetResFields ==
    ASSUME NEW d, IsScreen(d), NEW m
    PROVE  LET e == vesa_set_res(d, m)
           IN  /\ IsScreen(e) /\ e.fbdev = d.fbdev
               /\ e.vesa.width = VideoModes[m].x /\ e.vesa.height = VideoModes[m].y
               /\ e.fbcon.font = d.fbcon.font /\ e.fbcon.x = d.fbcon.x /\ e.fbcon.y = d.fbcon.y
               /\ e.fbcon.width = d.fbcon.width /\ e.fbcon.height = d.fbcon.height
<1> DEFINE v == VideoModes[m]
           vesaOf == [width |-> v.x, height |-> v.y, bytes |-> v.bpp \div 8, pitch |-> v.pitch]
           b == v.x * v.y * (v.bpp \div 8)
           e1 == [d EXCEPT !.vesa = vesaOf]
           e2 == [e1 EXCEPT !.back = b]
           e3 == [e2 EXCEPT !.fbcon.reach = 0]
<1>1. vesa_set_res(d, m) = [d EXCEPT !.vesa = vesaOf, !.back = b, !.fbcon.reach = 0]
  BY DEF vesa_set_res
<1>2. vesaOf.width = v.x /\ vesaOf.height = v.y
  OBVIOUS
<1> HIDE DEF vesaOf, b
<1>3. vesa_set_res(d, m) = e3
  BY <1>1
<1>4. IsScreen(e1) /\ e1.vesa = vesaOf /\ e1.fbdev = d.fbdev /\ e1.fbcon = d.fbcon
  BY DEF IsScreen
<1> HIDE DEF e1
<1>5. IsScreen(e2) /\ e2.vesa = vesaOf /\ e2.fbdev = d.fbdev /\ e2.fbcon = d.fbcon
  BY <1>4 DEF IsScreen
<1> HIDE DEF e2
<1>6. Redrawn(e2, e3)
  BY <1>5, DrawnOnly
<1> HIDE DEF e3
<1> QED BY <1>2, <1>3, <1>5, <1>6 DEF Redrawn

(* After a change of the resolution the device and the console follow the driver;
   without one nothing changes. *)
LEMMA SetresScreenInv ==
    ASSUME ScreenInv, NEW r \in Requests, setres(r)
    PROVE  ScreenInv'
<1>1. CASE UNCHANGED fbvars
  BY <1>1 DEF ScreenInv, Screen, fbvars
<1>2. CASE Suitable(r) # {} /\ mode' = vesa_find_mode(r)
           /\ Become(Informed(vesa_set_res(Screen, mode')))
  <2> DEFINE v == VideoModes[mode']
             d == vesa_set_res(Screen, mode')
             e == [d EXCEPT !.fbdev = [width |-> d.vesa.width, height |-> d.vesa.height]]
  <2>1. mode' \in DOMAIN VideoModes
    BY <1>2, FoundMode
  <2>2. /\ IsScreen(d) /\ d.vesa.width = v.x /\ d.vesa.height = v.y
        /\ d.fbcon.font = fbcon.font /\ d.fbcon.x = fbcon.x /\ d.fbcon.y = fbcon.y
        /\ d.fbcon.width = fbcon.width /\ d.fbcon.height = fbcon.height
    <3>1. IsScreen(Screen) /\ Screen.fbcon = fbcon
      BY DEF ScreenInv, Fits, Screen
    <3> QED BY <3>1, SetResFields
  <2>3. Informed(d) = fbcon_resize(e)
    BY DEF Informed
  <2> HIDE DEF v, d
  <2>4. /\ IsScreen(e) /\ e.vesa = d.vesa /\ e.fbcon = d.fbcon
        /\ e.fbdev = [width |-> e.vesa.width, height |-> e.vesa.height]
    BY <2>2 DEF IsScreen
  <2> HIDE DEF e
  <2>5. /\ Fits(Fitted(e), mode')
        /\ Fitted(e).fbcon.x = fbcon.x /\ Fitted(e).fbcon.y = fbcon.y
    BY <2>1, <2>2, <2>4, FittedFits DEF ScreenInv, Fits, Screen, v
  <2>6. CASE SameSize(e.fbcon, Fitted(e).fbcon)
    <3>1. Inside(Fitted(e))
      BY <2>2, <2>4, <2>5, <2>6 DEF SameSize, Inside, ScreenInv, Screen
    <3>2. Informed(d) = Fitted(e)
      BY <2>3, <2>6 DEF fbcon_resize
    <3> QED BY <1>2, <2>5, <3>1, <3>2, BecomeInv DEF d
  <2>7. CASE ~ SameSize(e.fbcon, Fitted(e).fbcon)
    <3>1. Informed(d) = console_clear(Fitted(e))
      BY <2>3, <2>7 DEF fbcon_resize
    <3> QED BY <1>2, <2>5, <3>1, ClearFits, BecomeInv DEF d
  <2> QED BY <2>6, <2>7
<1> QED BY <1>1, <1>2 DEF setres

(* The first mode, and the built-in font. *)
LEMMA ScreenInitInv ==
    ASSUME FbInit
    PROVE  ScreenInv
<1> DEFINE none == [vesa |-> <<>>, back |-> 0, fbdev |-> [width |-> 0, height |-> 0],
                    fbcon |-> [width |-> 0, height |-> 0, x |-> 0, y |-> 0, font |-> Cherry,
                               tracked |-> Untracked, reach |-> 0]]
           set == vesa_set_res(none, 1)
           dev == [set EXCEPT !.fbdev = [width |-> set.vesa.width, height |-> set.vesa.height]]
           made == console_clear(Fitted(dev))
<1>1. mode = 1 /\ vesa = made.vesa /\ back = made.back /\ fbdev = made.fbdev /\ fbcon = made.fbcon
  BY DEF FbInit
<1>2. 1 \in DOMAIN VideoModes
  BY ModesAssumption
<1>3. /\ IsScreen(set) /\ set.vesa.width = VideoModes[1].x /\ set.vesa.height = VideoModes[1].y
      /\ set.fbcon.font = Cherry
  <2>1. IsScreen(none) /\ none.fbcon.font = Cherry
    BY DEF IsScreen
  <2> HIDE DEF none
  <2> QED BY <2>1, SetResFields
<1> HIDE DEF set
<1>4. /\ IsScreen(dev) /\ dev.vesa = set.vesa /\ dev.fbcon = set.fbcon
      /\ dev.fbdev = [width |-> dev.vesa.width, height |-> dev.vesa.height]
  BY <1>3 DEF IsScreen
<1> HIDE DEF dev
<1>5. Fits(Fitted(dev), 1)
  BY <1>2, <1>3, <1>4, FittedFits
<1>6. Fits(made, 1) /\ Inside(made)
  BY <1>5, ClearFits
<1> HIDE DEF made
<1>7. Screen = made
  BY <1>1, <1>6 DEF Screen, Fits, IsScreen
<1> QED BY <1>1, <1>6, <1>7 DEF ScreenInv

(* The inductive invariant: the state of the BIOS, the driver, its device and the
   console agree, and the cursor stands on the screen.  ScreenAgrees says nothing of
   the font, without which no change of the resolution could be followed. *)
THEOREM ScreenInvariance == FbSpec => []ScreenInv
<1>1. FbInit => ScreenInv
  BY ScreenInitInv
<1>2. ScreenInv /\ [FbNext]_fbvars => ScreenInv'
  <2> SUFFICES ASSUME ScreenInv, [FbNext]_fbvars PROVE ScreenInv'
    OBVIOUS
  <2>1. ASSUME NEW c \in {"a", "\n", "\r", "erase"}, console_putc(c) PROVE ScreenInv'
    BY <2>1, PutcScreenInv
  <2>2. CASE clear
    BY <2>2, ClearScreenInv
  <2>3. ASSUME NEW r \in Requests, setres(r) PROVE ScreenInv'
    BY <2>3, SetresScreenInv
  <2>4. ASSUME NEW f \in Fonts, setfnt(f) PROVE ScreenInv'
    BY <2>4, SetfntScreenInv
  <2>5. CASE UNCHANGED fbvars
    BY <2>5 DEF ScreenInv, Screen, fbvars
  <2> QED BY <2>1, <2>2, <2>3, <2>4, <2>5 DEF FbNext
<1> QED BY <1>1, <1>2, PTL DEF FbSpec

(* The BIOS, the driver, its device and the console agree on the size of the screen,
   whatever the modes, the fonts, and the order of output, setres and setfnt. *)
THEOREM ScreenCorrect == FbSpec => []ScreenAgrees
<1>1. ScreenInv => ScreenAgrees
  BY DEF ScreenInv, ScreenAgrees, Fits, Inside, Screen
<1> QED BY <1>1, ScreenInvariance, PTL
=============================================================================
