---------------------------- MODULE AbstractDisk ----------------------------
(* What a block device promises (kern/io/blkdev.h): a read returns the blocks *)
(* from an address on, a write changes the block it is given and no other.    *)
EXTENDS Integers

CONSTANTS Blocks, Data      \* the addresses, and what a block may hold

VARIABLES
    disk,           \* the blocks
    got             \* what the last read returned

Init == disk = [b \in Blocks |-> b] /\ got = <<>>

Read(lba, n) ==
    /\ lba + n - 1 \in Blocks
    /\ got' = [i \in 1 .. n |-> disk[lba + i - 1]]
    /\ UNCHANGED disk

Write(lba, d) == disk' = [disk EXCEPT ![lba] = d] /\ UNCHANGED got

Next ==
    \E lba \in Blocks :
        \/ \E n \in {b + 1 : b \in Blocks} : Read(lba, n)
        \/ \E d \in Data : Write(lba, d)

Spec == Init /\ [][Next]_<<disk, got>>
=============================================================================
