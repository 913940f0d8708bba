----------------------------- MODULE BlockDrive -----------------------------
(***************************************************************************)
(* The BIOS disk of kern/io/bios_drive.c.  The BIOS moves blocks between   *)
(* the disk and one buffer in low memory, so that a transfer goes in       *)
(* chunks of at most as many blocks as the buffer holds.  One chunk, call  *)
(* of the BIOS and copy, is one step.                                      *)
(***************************************************************************)
EXTENDS Integers, SequencesExt

CONSTANTS
    DiskSize,       \* blocks of the disk
    MaxBlocks,      \* 4096 / block_size: blocks of low_mem_buffer
    MaxRead,        \* bound: blocks of a read
    WriteData       \* what is written

ASSUME DriveAssumption == DiskSize \in Nat \ {0} /\ MaxBlocks \in Nat \ {0} /\ MaxRead \in Nat

VARIABLES
    disk,           \* the blocks of the disk
    low,            \* low_mem_buffer
    dpc,            \* what is going on
    call,           \* the call under way: where it begins, and how many blocks
    moved,          \* offset: blocks transferred
    buffer,         \* the caller's buffer, as far as it is filled
    returned        \* ghost: what the last read returned

drivevars == <<disk, low, dpc, call, moved, buffer, returned>>

Blocks == 0 .. DiskSize - 1
NoCall == [lba |-> 0, blocks |-> 0]

DriveTypeOK ==
    /\ disk \in [Blocks -> Blocks \cup WriteData]
    /\ low \in [1 .. MaxBlocks -> Blocks \cup WriteData]
    /\ dpc \in {"ready", "bdrive_read", "panicked"}
    /\ moved \in 0 .. call.blocks /\ call.blocks \in 0 .. MaxRead /\ call.lba \in Blocks
    /\ Len(buffer) = moved /\ returned \in Seq(Blocks \cup WriteData)

DriveInit ==
    /\ disk = [b \in Blocks |-> b] /\ low = [i \in 1 .. MaxBlocks |-> 0]
    /\ dpc = "ready" /\ call = NoCall /\ moved = 0 /\ buffer = <<>> /\ returned = <<>>

bdrive_read(lba, n) ==
    /\ dpc = "ready"
    /\ dpc' = "bdrive_read" /\ call' = [lba |-> lba, blocks |-> n]
    /\ UNCHANGED <<disk, low, moved, buffer, returned>>

\* Mutation: every chunk is read from the same place.
From_Start == call.lba

\* MIN(blocks_left, max_blocks)
Chunk == IF call.blocks - moved < MaxBlocks THEN call.blocks - moved ELSE MaxBlocks
From == call.lba + moved

\* bdrive_read4k: the BIOS fills the low buffer, which is copied behind what is there.
\* An address the disk has not is an error, which an ASSERT meets.
bdrive_read4k ==
    /\ dpc = "bdrive_read" /\ moved < call.blocks
    /\ IF From + Chunk > DiskSize
       THEN dpc' = "panicked" /\ UNCHANGED <<low, moved, buffer>>
       ELSE /\ low' = [i \in 1 .. MaxBlocks |-> IF i <= Chunk THEN disk[From + i - 1] ELSE low[i]]
            /\ buffer' = buffer \o SubSeq(low', 1, Chunk)
            /\ moved' = moved + Chunk
            /\ UNCHANGED dpc
    /\ UNCHANGED <<disk, call, returned>>

ReadReturns ==
    /\ dpc = "bdrive_read" /\ moved = call.blocks
    /\ returned' = buffer
    /\ dpc' = "ready" /\ call' = NoCall /\ moved' = 0 /\ buffer' = <<>>
    /\ UNCHANGED <<disk, low>>

\* bdrive_write, its only chunk: bdrive_write4k asserts that blocks * 512 is no more
\* than a block.
bdrive_write(lba, data) ==
    /\ dpc = "ready"
    /\ IF Len(data) > 1 \/ lba + Len(data) > DiskSize
       THEN dpc' = "panicked" /\ UNCHANGED <<disk, low>>
       ELSE /\ low' = [low EXCEPT ![1] = data[1]]
            /\ disk' = [disk EXCEPT ![lba] = low'[1]]
            /\ UNCHANGED dpc
    /\ UNCHANGED <<call, moved, buffer, returned>>

\* A BIOS call fails, of a chunk or of a write: "this should probably retry on failure?"
BiosFails ==
    /\ dpc = "ready" \/ (dpc = "bdrive_read" /\ moved < call.blocks)
    /\ dpc' = "panicked"
    /\ UNCHANGED <<disk, low, call, moved, buffer, returned>>

DriveNext ==
    \/ \E lba \in Blocks, n \in 1 .. MaxRead : bdrive_read(lba, n)
    \/ \E lba \in Blocks, d \in WriteData : \E n \in 1 .. MaxBlocks : bdrive_write(lba, [i \in 1 .. n |-> d])
    \/ bdrive_read4k
    \/ ReadReturns
    \/ BiosFails

DriveSpec == DriveInit /\ [][DriveNext]_drivevars
----------------------------------------------------------------------------
(***************************************************************************)
(* Properties.                                                             *)
(***************************************************************************)

\* A read of any number of blocks, in whatever chunks, returns just the blocks of the
\* disk it was asked for, and writes change nothing else: the drive implements
\* AbstractDisk.
Disk == INSTANCE AbstractDisk WITH Data <- WriteData, got <- returned
ImplementsDisk == Disk!Spec
=============================================================================
