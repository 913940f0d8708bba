-------------------------- MODULE AbstractTerminal --------------------------
(***************************************************************************)
(* What the shell and its user may rely on in the console and the line     *)
(* editor: all that was ever written stands on a roll of paper of Width    *)
(* columns, of which the screen is the end.  A line is typed at the end of *)
(* what was written; rubbing out takes the last character off the line and *)
(* off the roll, and nothing else.                                         *)
(***************************************************************************)
EXTENDS Naturals, Sequences

CONSTANTS
    Width, Height,  \* of the screen
    Glyphs,         \* the characters that take a place on the roll
    Space           \* the empty place

VARIABLES
    roll,           \* the places of the roll, row after row
    pos,            \* where the next character goes, from 0
    line,           \* the line that is typed, or was typed last
    reading         \* a line is being typed

vars == <<roll, pos, line, reading>>

Spaces(n) == [i \in 1 .. n |-> Space]

\* The roll r with room for the place p, which is at most one row further.
Unrolled(r, p) == IF p = Len(r) THEN r \o Spaces(Width) ELSE r

\* The writing place moves to p.  A console that draws its cursor as a glyph may
\* lose the character it stands on.
MoveTo(r, p) ==
    LET u == Unrolled(r, p)
    IN  pos' = p /\ roll' \in {u, [u EXCEPT ![p + 1] = Space]}

Put(c) == MoveTo([roll EXCEPT ![pos + 1] = c], pos + 1)

Feed == MoveTo(roll, (pos \div Width + 1) * Width)

Return == MoveTo(roll, pos - (pos % Width))

Init ==
    /\ roll = Spaces(Width * Height)
    /\ pos = 0
    /\ line = <<>>
    /\ reading = FALSE

Write ==
    /\ ~reading
    /\ (\E c \in Glyphs : Put(c)) \/ Feed \/ Return
    /\ UNCHANGED <<line, reading>>

Clear ==
    /\ ~reading
    /\ roll' = Spaces(Width * Height)
    /\ pos' = 0
    /\ UNCHANGED <<line, reading>>

Begin ==
    /\ ~reading
    /\ reading' = TRUE
    /\ line' = <<>>
    /\ UNCHANGED <<roll, pos>>

Type(c) ==
    /\ reading
    /\ Put(c)
    /\ line' = Append(line, c)
    /\ UNCHANGED reading

RubOut ==
    /\ reading
    /\ line # <<>>
    /\ MoveTo([roll EXCEPT ![pos] = Space], pos - 1)
    /\ line' = SubSeq(line, 1, Len(line) - 1)
    /\ reading' \in {TRUE, line' # <<>>}

Enter ==
    /\ reading
    /\ Feed
    /\ reading' = FALSE
    /\ UNCHANGED line

\* A line that is empty, or has become so, may be returned though nobody entered it.
GiveUp ==
    /\ reading
    /\ line = <<>>
    /\ reading' = FALSE
    /\ UNCHANGED <<roll, pos, line>>

Next == Write \/ Clear \/ Begin \/ (\E c \in Glyphs : Type(c)) \/ RubOut \/ Enter \/ GiveUp

Spec == Init /\ [][Next]_vars
=============================================================================
