------------------------------- MODULE Strings --------------------------------
(***************************************************************************)
(* Strings of kern/stdlib.c.  A string is a sequence of characters; a      *)
(* buffer is a sequence of characters and Nul that ends with Nul, and a    *)
(* pointer into it an index, 0 for NULL.  A word of ordinary characters    *)
(* that no function looks into may stand as one character.                 *)
(***************************************************************************)
EXTENDS Integers, SequencesExt

CONSTANT Nul

Buffer(s) == Append(s, Nul)

\* The first index from p on, in a buffer, of Nul or a character of d.
Stop(buf, p, d) ==
    CHOOSE i \in p .. Len(buf) :
        buf[i] \in d \cup {Nul} /\ \A j \in p .. i - 1 : buf[j] \notin d \cup {Nul}

\* The first index from p on of Nul or a character outside d.
Skip(buf, p, d) ==
    CHOOSE i \in p .. Len(buf) : buf[i] \notin d /\ \A j \in p .. i - 1 : buf[j] \in d

\* The string at p, and its length.
StrAt(buf, p) == SubSeq(buf, p, Stop(buf, p, {}) - 1)
strlen(buf, p) == Stop(buf, p, {}) - p

\* strtok_r, resumed at p: the token, what it makes of the buffer, and the saved pointer.
strtok_r(buf, p, d) ==
    LET s == Skip(buf, p, d)
        e == Stop(buf, s, d) IN
    IF buf[s] = Nul THEN [buf |-> buf, tok |-> 0, save |-> s]
    ELSE IF buf[e] = Nul THEN [buf |-> buf, tok |-> s, save |-> e]
    ELSE [buf |-> [buf EXCEPT ![e] = Nul], tok |-> s, save |-> e + 1]

\* strchr in a string, 0 if the character is not in it.
strchr(s, c) == SelectInSeq(s, LAMBDA x : x = c)
===============================================================================
