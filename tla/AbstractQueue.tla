---------------------------- MODULE AbstractQueue ----------------------------
(* What the ring buffer promises (kern/buffer.c): the last Size elements put   *)
(* and not yet got, first in first out; a put into a full one drops the oldest.*)
EXTENDS Naturals, Sequences

CONSTANTS Data, Size, Nothing

VARIABLES
    queue,          \* the elements, oldest first
    got             \* what the last get returned

Init == queue = <<>> /\ got = Nothing

Put(d) ==
    /\ queue' = IF Len(queue) = Size THEN Append(Tail(queue), d) ELSE Append(queue, d)
    /\ UNCHANGED got

Get ==
    /\ queue # <<>>
    /\ got' = Head(queue) /\ queue' = Tail(queue)

Reset == queue' = <<>> /\ UNCHANGED got

Next == Reset \/ Get \/ \E d \in Data : Put(d)

Spec == Init /\ [][Next]_<<queue, got>>
=============================================================================
