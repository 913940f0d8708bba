---------------------------- MODULE AbstractFile ----------------------------
(* What reading an open file promises: each read returns the bytes behind the *)
(* last one, as many as were asked for unless the file ends, and none at its  *)
(* end.  A byte is named by its position in the file.                         *)
EXTENDS Integers

CONSTANTS Sizes, Reads      \* sizes of files, and how much may be asked for

VARIABLES
    size,           \* the size of the file
    position,       \* how many bytes have been read
    got             \* what the last read returned

Init == size \in Sizes /\ position = 0 /\ got = <<>>

Least(m, n) == IF m <= n THEN m ELSE n

Read(n) ==
    LET k == Least(n, size - position)
    IN  /\ got' = [i \in 1 .. k |-> position + i - 1]
        /\ position' = position + k
        /\ UNCHANGED size

Next == \E n \in Reads : Read(n)

Spec == Init /\ [][Next]_<<size, position, got>>
=============================================================================
