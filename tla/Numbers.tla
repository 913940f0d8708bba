------------------------------- MODULE Numbers --------------------------------
(***************************************************************************)
(* Numbers and text in kern/stdlib.c: itoa, atoi and strtoul, for an int   *)
(* and an unsigned long of Width bits.  A text is a sequence of characters *)
(* without its Nul.                                                        *)
(***************************************************************************)
EXTENDS Integers, SequencesExt

CONSTANTS
    Width,          \* bits of an int and of an unsigned long
    Characters,     \* of the texts converted
    MaxLength,      \* bound: their length
    Bases           \* bases of itoa and of strtoul, which knows 0 as well

ASSUME WidthAssumption == Width \in Nat \ {0, 1}

VARIABLES
    converted,      \* the text or the number converted last, and the base
    result          \* what it was converted to

numvars == <<converted, result>>

ULongMax == 2 ^ Width - 1
IntMin == -(2 ^ (Width - 1))
IntMax == 2 ^ (Width - 1) - 1
Inputs == UNION {[1 .. n -> Characters] : n \in 0 .. MaxLength}
Undefined == IntMax + 1

Decimal == <<"0", "1", "2", "3", "4", "5", "6", "7", "8", "9">>
Upper == <<"A", "B", "C", "D", "E", "F", "G", "H">>
Lower == <<"a", "b", "c", "d", "e", "f", "g", "h">>
\* isspace, which takes a vertical tab as well.
Spaces == {"\t", "\n", "\r", "\f", " "}

\* isdigit, isalpha and isupper as strtoul uses them; 99 for another character.
DigitOf(c) ==
    IF Contains(Decimal, c) THEN SelectInSeq(Decimal, LAMBDA d : d = c) - 1
    ELSE IF Contains(Upper, c) THEN SelectInSeq(Upper, LAMBDA d : d = c) + 9
    ELSE IF Contains(Lower, c) THEN SelectInSeq(Lower, LAMBDA d : d = c) + 9
    ELSE 99

\* itoa of a number other than IntMin, whose negation overflows: digits of its amount, and
\* a sign in base 10 only.  The code writes them backwards and calls reverse.
itoa(value, base) ==
    LET amount == IF value < 0 THEN -value ELSE value
        digits[n \in 0 .. amount] ==
            (IF n < base THEN <<>> ELSE digits[n \div base])
                \o <<(Decimal \o Upper)[(n % base) + 1]>>
    IN (IF value < 0 /\ base = 10 THEN <<"-">> ELSE <<>>) \o digits[amount]

\* An int result, or Undefined, a number no int is, where the arithmetic leaves the ints.
AsInt(n) == IF n \in IntMin .. IntMax THEN n ELSE Undefined

\* Mutation: the number is accumulated upwards.
Accumulate_Up(n, c) == IF n = Undefined THEN n ELSE AsInt(10 * n + DigitOf(c))

\* A step of atoi, towards IntMin.
Accumulate(n, c) == IF n = Undefined THEN n ELSE AsInt(10 * n - DigitOf(c))

\* atoi, of digits behind at most one sign.
atoi(str) ==
    LET signed == str # <<>> /\ Head(str) \in {"-", "+"}
        n == FoldLeft(Accumulate, 0, IF signed THEN Tail(str) ELSE str) IN
    IF n = Undefined \/ (signed /\ Head(str) = "-") THEN n ELSE AsInt(-n)
-------------------------------------------------------------------------------
\* strtoul's text behind the spaces.
Unspaced(str) ==
    SubSeq(str, IF \A i \in DOMAIN str : str[i] \in Spaces THEN Len(str) + 1
                ELSE SelectInSeq(str, LAMBDA c : c \notin Spaces), Len(str))

Unsigned(str) == IF str # <<>> /\ Head(str) \in {"-", "+"} THEN Tail(str) ELSE str

IsHex(str, base) ==
    base \in {0, 16} /\ Len(str) > 1 /\ str[1] = "0" /\ str[2] \in {"x", "X"}

\* The base used: in base 0 a leading 0 means octal.
BaseOf(str, base) ==
    IF IsHex(str, base) THEN 16
    ELSE IF base # 0 THEN base
    ELSE IF str # <<>> /\ Head(str) = "0" THEN 8 ELSE 10

\* The text the loop starts with.
Unprefixed(str, base) == IF IsHex(str, base) THEN SubSeq(str, 3, Len(str)) ELSE str

\* The digits the loop takes: the first character that is none stops it.
Taken(str, base) ==
    LET wrong == SelectInSeq(str, LAMBDA c : DigitOf(c) >= base) IN
    SubSeq(str, 1, IF wrong = 0 THEN Len(str) ELSE wrong - 1)

\* Mutation: only acc is compared, not the digit.
TooLarge_NoLimit(acc, c, base) == acc > ULongMax \div base

\* acc * base + c would not fit: cutoff and cutlim.
TooLarge(acc, c, base) ==
    acc > ULongMax \div base \/ (acc = ULongMax \div base /\ c > ULongMax % base)

\* any is -1 from the first digit on that does not fit.
Digit(r, c, base) ==
    IF r.any < 0 \/ TooLarge(r.acc, c, base) THEN [r EXCEPT !.any = -1]
    ELSE [any |-> 1, acc |-> (r.acc * base + c) % 2 ^ Width]

strtoul(nptr, base) ==
    LET text == Unspaced(nptr)
        bare == Unsigned(text)
        b == BaseOf(bare, base)
        r == FoldLeft(LAMBDA s, c : Digit(s, DigitOf(c), b), [any |-> 0, acc |-> 0],
                      Taken(Unprefixed(bare, base), b)) IN
    IF r.any < 0 THEN ULongMax
    ELSE IF text # <<>> /\ Head(text) = "-" THEN (-r.acc) % 2 ^ Width
    ELSE r.acc
-------------------------------------------------------------------------------
NumInit == converted = [op |-> "none"] /\ result = 0

Itoa(value, base) ==
    converted' = [op |-> "itoa", value |-> value, base |-> base] /\ result' = itoa(value, base)

Atoi(str) == converted' = [op |-> "atoi", text |-> str] /\ result' = atoi(str)

Strtoul(str, base) ==
    converted' = [op |-> "strtoul", text |-> str, base |-> base] /\ result' = strtoul(str, base)

IsNumeral(str) ==
    LET d == Unsigned(str) IN d # <<>> /\ \A i \in DOMAIN d : Contains(Decimal, d[i])

\* One conversion: the functions keep nothing from one call to the next.
NumNext ==
    /\ converted.op = "none"
    /\ \/ \E v \in IntMin + 1 .. IntMax, b \in Bases : Itoa(v, b)
       \/ \E s \in {t \in Inputs : IsNumeral(t)} : Atoi(s)
       \/ \E s \in Inputs, b \in Bases \cup {0} : Strtoul(s, b)
-------------------------------------------------------------------------------
(***************************************************************************)
(* Properties.                                                             *)
(***************************************************************************)

\* The number that digits denote.
Denoted(digits, base) == FoldLeft(LAMBDA n, c : n * base + DigitOf(c), 0, digits)

Negative(str) == Head(str) = "-"

\* What strtoul is to return: the number, the largest if it is too large, and its
\* negation in Width bits behind a minus sign.
Converted(str, base) ==
    LET text == Unspaced(str)
        bare == Unsigned(text)
        n == Denoted(Taken(Unprefixed(bare, base), BaseOf(bare, base)), BaseOf(bare, base)) IN
    IF n > ULongMax THEN ULongMax
    ELSE IF text # <<>> /\ Negative(text) THEN (2 ^ Width - n) % 2 ^ Width
    ELSE n

\* At the limits of the types: strtoul saturates exactly where the number leaves them,
\* atoi converts every int without overflow, IntMin too, and turns back what itoa writes.
NumbersExact ==
    CASE converted.op = "itoa" ->
            /\ Denoted(Unsigned(result), converted.base) \in {converted.value, -converted.value}
            /\ converted.base = 10 => atoi(result) = converted.value
      [] converted.op = "atoi" ->
            LET n == Denoted(Unsigned(converted.text), 10)
                value == IF Negative(converted.text) THEN -n ELSE n IN
            value \in IntMin .. IntMax => result = value
      [] converted.op = "strtoul" -> result = Converted(converted.text, converted.base)
      [] OTHER -> TRUE
===============================================================================
