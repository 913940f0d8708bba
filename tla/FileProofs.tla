------------------------------ MODULE FileProofs ------------------------------
(***************************************************************************)
(* Proofs about the way from a block of the disk to the bytes of a file.   *)
(*                                                                         *)
(* First BlockDrive, for every size of the disk and of the low buffer: a   *)
(* call's buffer holds what it has moved.                                  *)
(***************************************************************************)
EXTENDS FatFile, FatVolume, BlockDrive, NumberLemmas, SequenceTheorems, TLAPS

\* The buffer holds the blocks the call has moved, as they are on the disk, and no
\* chunk so far has left the disk.
CallInStep ==
    /\ dpc = "bdrive_read" =>
           /\ call.blocks \in Nat \ {0} /\ call.lba + moved <= DiskSize
           /\ buffer = [i \in 1 .. moved |-> disk[call.lba + i - 1]]
    /\ dpc = "ready" => moved = 0 /\ buffer = <<>>

Stored == Blocks \cup WriteData

DriveInv == DriveTypeOK /\ buffer \in Seq(Stored) /\ CallInStep

(* No call, a fresh disk. *)
LEMMA DriveInitInv ==
    ASSUME DriveInit
    PROVE  DriveInv
<1>1. 0 \in Blocks /\ 0 \in 0 .. MaxRead /\ 0 \in 0 .. 0
  BY DriveAssumption DEF Blocks
<1> QED BY <1>1 DEF DriveInit, DriveInv, DriveTypeOK, CallInStep, NoCall, Stored

(* A chunk comes from the disk behind what is in the buffer. *)
LEMMA ChunkInv ==
    ASSUME DriveInv, bdrive_read4k
    PROVE  DriveInv'
<1>1. CASE From + Chunk > DiskSize
  BY <1>1 DEF DriveInv, DriveTypeOK, CallInStep, bdrive_read4k
<1>2. CASE ~ (From + Chunk > DiskSize)
  <2>1. /\ call.blocks \in Nat /\ moved \in Nat /\ moved < call.blocks /\ call.lba \in Nat
        /\ MaxBlocks \in Nat \ {0} /\ DiskSize \in Nat /\ call.blocks <= MaxRead /\ MaxRead \in Nat
        /\ buffer = [i \in 1 .. moved |-> disk[call.lba + i - 1]] /\ buffer \in Seq(Stored)
        /\ disk \in [Blocks -> Stored] /\ low \in [1 .. MaxBlocks -> Stored]
    BY DriveAssumption DEF DriveInv, DriveTypeOK, CallInStep, bdrive_read4k, Blocks, Stored
  <2>2. /\ low' = [i \in 1 .. MaxBlocks |-> IF i <= Chunk THEN disk[From + i - 1] ELSE low[i]]
        /\ buffer' = buffer \o SubSeq(low', 1, Chunk) /\ moved' = moved + Chunk
        /\ dpc' = dpc /\ disk' = disk /\ call' = call /\ returned' = returned
        /\ dpc = "bdrive_read"
    BY <1>2 DEF bdrive_read4k
  <2>3. Chunk \in 1 .. MaxBlocks /\ moved + Chunk <= call.blocks /\ call.lba + moved + Chunk <= DiskSize
    BY <1>2, <2>1, SMTT(30) DEF Chunk, From
  <2>4. \A i \in 1 .. Chunk : From + i - 1 \in Blocks
    BY <2>1, <2>3, SMTT(30) DEF From, Blocks
  <2>5. low' \in [1 .. MaxBlocks -> Stored]
    BY <2>1, <2>2, <2>3, <2>4
  <2>6. low' \in Seq(Stored) /\ Len(low') = MaxBlocks
    BY <2>1, <2>5
  <2>7. /\ SubSeq(low', 1, Chunk) \in Seq(Stored) /\ Len(SubSeq(low', 1, Chunk)) = Chunk
        /\ \A i \in 1 .. Chunk : SubSeq(low', 1, Chunk)[i] = disk[From + i - 1]
    <3>1. /\ SubSeq(low', 1, Chunk) \in Seq(Stored) /\ Len(SubSeq(low', 1, Chunk)) = Chunk
          /\ \A i \in 1 .. Chunk : SubSeq(low', 1, Chunk)[i] = low'[i]
      <4>1. Chunk \in Nat /\ Chunk <= Len(low')
        BY <2>3, <2>6
      <4> QED BY <2>6, <4>1, SubSeqProperties
    <3>2. \A i \in 1 .. Chunk : low'[i] = disk[From + i - 1]
      BY <2>1, <2>2, <2>3
    <3> QED BY <3>1, <3>2
  <2>8. buffer' \in Seq(Stored) /\ Len(buffer') = moved + Chunk
        /\ buffer' = [i \in 1 .. moved + Chunk |-> disk[call.lba + i - 1]]
    <3> DEFINE s == SubSeq(low', 1, Chunk)
               t == [i \in 1 .. moved + Chunk |-> disk[call.lba + i - 1]]
    <3>1. s \in Seq(Stored) /\ Len(s) = Chunk /\ \A i \in 1 .. Chunk : s[i] = disk[From + i - 1]
      BY <2>7
    <3>2. Len(buffer) = moved /\ \A i \in 1 .. moved : buffer[i] = disk[call.lba + i - 1]
      BY <2>1
    <3> HIDE DEF s
    <3>3. buffer' \in Seq(Stored) /\ Len(buffer') = moved + Chunk
          /\ \A i \in 1 .. moved + Chunk :
                buffer'[i] = IF i <= moved THEN buffer[i] ELSE s[i - moved]
      <4>1. buffer' = buffer \o s /\ buffer \in Seq(Stored)
        BY <2>1, <2>2 DEF s
      <4>2. /\ buffer \o s \in Seq(Stored) /\ Len(buffer \o s) = Len(buffer) + Len(s)
            /\ \A i \in 1 .. Len(buffer) + Len(s) :
                  (buffer \o s)[i] = IF i <= Len(buffer) THEN buffer[i] ELSE s[i - Len(buffer)]
        BY <4>1, <3>1, ConcatProperties
      <4> QED BY <4>1, <4>2, <3>1, <3>2
    <3>4. ASSUME NEW i \in 1 .. moved + Chunk PROVE buffer'[i] = disk[call.lba + i - 1]
      <4>1. CASE i <= moved
        BY <2>1, <3>2, <3>3, <4>1
      <4>2. CASE ~ (i <= moved)
        <5>1. i - moved \in 1 .. Chunk /\ From + (i - moved) - 1 = call.lba + i - 1
          BY <2>1, <2>3, <4>2 DEF From
        <5> QED BY <3>1, <3>3, <4>2, <5>1
      <4> QED BY <4>1, <4>2
    <3> QED BY <2>1, <2>3, <3>3, <3>4
  <2>9. moved' \in 0 .. call.blocks
    BY <2>1, <2>2, <2>3
  <2>10. DriveTypeOK'
    BY <2>1, <2>2, <2>5, <2>8, <2>9 DEF DriveInv, DriveTypeOK, Stored
  <2>11. CallInStep'
    <3>1. /\ call'.blocks \in Nat \ {0} /\ call'.lba + moved' <= DiskSize
          /\ dpc' = "bdrive_read"
      BY <2>1, <2>2, <2>3
    <3>2. buffer' = [i \in 1 .. moved' |-> disk'[call'.lba + i - 1]]
      <4>1. moved' = moved + Chunk /\ disk' = disk /\ call' = call
        BY <2>2
      <4>2. buffer' = [i \in 1 .. moved + Chunk |-> disk[call.lba + i - 1]]
        BY <2>8
      <4> QED BY <4>1, <4>2, Zenon
    <3> QED BY <3>1, <3>2 DEF CallInStep
  <2> QED
    BY <2>2, <2>8, <2>10, <2>11 DEF DriveInv, Stored, Blocks
<1> QED BY <1>1, <1>2

(* Every step keeps the buffer in step with the call. *)
LEMMA DriveStepInv ==
    ASSUME DriveInv, [DriveNext]_drivevars
    PROVE  DriveInv'
<1> USE DEF DriveInv, DriveTypeOK, CallInStep
<1>1. ASSUME NEW lba \in Blocks, NEW n \in 1 .. MaxRead, bdrive_read(lba, n) PROVE DriveInv'
  <2>1. lba \in Nat /\ lba <= DiskSize /\ n \in Nat \ {0} /\ n \in 0 .. MaxRead
        /\ 0 \in 0 .. n /\ lba + 0 <= DiskSize
    BY DriveAssumption DEF Blocks
  <2>2. dpc' = "bdrive_read" /\ call' = [lba |-> lba, blocks |-> n] /\ moved' = 0 /\ buffer' = <<>>
        /\ UNCHANGED <<disk, low, returned>>
    BY <1>1 DEF bdrive_read
  <2>3. <<>> = [i \in 1 .. 0 |-> disk[lba + i - 1]] /\ Len(<<>>) = 0
    OBVIOUS
  <2> QED BY <2>1, <2>2, <2>3
<1>2. ASSUME NEW lba \in Blocks, NEW d \in WriteData, NEW n \in 1 .. MaxBlocks,
             bdrive_write(lba, [i \in 1 .. n |-> d]) PROVE DriveInv'
  <2>1. CASE n = 1 /\ lba + 1 <= DiskSize
    <3>1. low' = [low EXCEPT ![1] = d] /\ disk' = [disk EXCEPT ![lba] = low'[1]]
          /\ UNCHANGED <<dpc, call, moved, buffer, returned>> /\ dpc = "ready"
      <4>1. Len([i \in 1 .. n |-> d]) = 1 /\ [i \in 1 .. n |-> d][1] = d
        BY <2>1
      <4> DEFINE data == [i \in 1 .. n |-> d]
      <4>2. bdrive_write(lba, data) /\ Len(data) = 1 /\ data[1] = d
        BY <1>2, <4>1
      <4>3. lba \in Nat /\ DiskSize \in Nat /\ lba + 1 <= DiskSize
        BY <2>1, DriveAssumption DEF Blocks
      <4> HIDE DEF data
      <4> QED BY <4>2, <4>3 DEF bdrive_write
    <3>2. 1 \in 1 .. MaxBlocks
      BY DriveAssumption
    <3>3. low' \in [1 .. MaxBlocks -> Blocks \cup WriteData] /\ low'[1] = d
      BY <3>1, <3>2
    <3>4. disk' \in [Blocks -> Blocks \cup WriteData]
      BY <3>1, <3>3
    <3> QED BY <3>1, <3>3, <3>4
  <2>2. CASE ~ (n = 1 /\ lba + 1 <= DiskSize)
    <3>1. Len([i \in 1 .. n |-> d]) = n /\ n \in Nat /\ n >= 1 /\ lba \in Nat /\ DiskSize \in Nat
      BY DriveAssumption DEF Blocks
    <3>2. n > 1 \/ lba + n > DiskSize
      BY <2>2, <3>1
    <3>3. dpc' = "panicked" /\ UNCHANGED <<disk, low, call, moved, buffer, returned>>
      BY <1>2, <3>1, <3>2 DEF bdrive_write
    <3> QED BY <3>3
  <2> QED BY <2>1, <2>2
<1>3. CASE bdrive_read4k
  BY <1>3, ChunkInv
<1>4. CASE ReadReturns
  <2>1. 0 \in Blocks /\ 0 \in 0 .. MaxRead /\ 0 \in 0 .. 0
    BY DriveAssumption DEF Blocks
  <2> QED BY <1>4, <2>1 DEF ReadReturns, NoCall, Stored
<1>5. CASE BiosFails
  BY <1>5 DEF BiosFails
<1>6. CASE UNCHANGED drivevars
  BY <1>6 DEF drivevars
<1> QED BY <1>1, <1>2, <1>3, <1>4, <1>5, <1>6 DEF DriveNext

(* What a call has moved is in its buffer, in every reachable state. *)
THEOREM DriveInvariance == DriveSpec => []DriveInv
BY DriveInitInv, DriveStepInv, PTL DEF DriveSpec

(* The types of the drive's state. *)
THEOREM DriveTypeCorrect == DriveSpec => []DriveTypeOK
<1>1. DriveInv => DriveTypeOK
  BY DEF DriveInv
<1> QED BY <1>1, DriveInvariance, PTL

(* The step that returns is the Read of a block device; the chunks before it are not
   seen.  The first chunk of a write is all of it. *)
LEMMA DriveStepRefines ==
    ASSUME DriveInv, [DriveNext]_drivevars
    PROVE  [Disk!Next]_<<disk, returned>>
<1> USE DEF Disk!Next, Disk!Read, Disk!Write
<1>1. ASSUME NEW lba \in Blocks, NEW n \in 1 .. MaxRead, bdrive_read(lba, n)
      PROVE  UNCHANGED <<disk, returned>>
  BY <1>1 DEF bdrive_read
<1>2. ASSUME NEW lba \in Blocks, NEW d \in WriteData, NEW n \in 1 .. MaxBlocks,
             bdrive_write(lba, [i \in 1 .. n |-> d])
      PROVE  Disk!Write(lba, d) \/ UNCHANGED <<disk, returned>>
  <2>1. Len([i \in 1 .. n |-> d]) = n /\ n \in Nat /\ n >= 1
    OBVIOUS
  <2>2. CASE n > 1 \/ lba + n > DiskSize
    BY <1>2, <2>1, <2>2 DEF bdrive_write
  <2>3. CASE ~ (n > 1 \/ lba + n > DiskSize)
    <3>1. 1 \in 1 .. MaxBlocks /\ low \in [1 .. MaxBlocks -> Blocks \cup WriteData]
      BY DriveAssumption DEF DriveInv, DriveTypeOK
    <3>2. low' = [low EXCEPT ![1] = d] /\ disk' = [disk EXCEPT ![lba] = low'[1]]
          /\ returned' = returned
      BY <1>2, <2>1, <2>3 DEF bdrive_write
    <3> QED BY <3>1, <3>2
  <2> QED BY <2>2, <2>3
<1>3. CASE bdrive_read4k
  BY <1>3 DEF bdrive_read4k
<1>4. ASSUME ReadReturns
      PROVE  \E lba \in Blocks : \E n \in {b + 1 : b \in Blocks} : Disk!Read(lba, n)
  <2> DEFINE n == call.blocks
  <2>1. /\ n \in Nat \ {0} /\ call.lba \in Blocks /\ call.lba + n <= DiskSize
        /\ buffer = [i \in 1 .. n |-> disk[call.lba + i - 1]] /\ returned' = buffer /\ disk' = disk
    BY <1>4 DEF ReadReturns, DriveInv, DriveTypeOK, CallInStep
  <2>2. n - 1 \in Blocks /\ n = (n - 1) + 1 /\ call.lba + n - 1 \in Blocks
    BY <2>1, DriveAssumption DEF Blocks
  <2> HIDE DEF n
  <2>3. Disk!Read(call.lba, n)
    BY <2>1, <2>2
  <2>4. n \in {b + 1 : b \in Blocks}
    BY <2>2
  <2> QED BY <2>1, <2>3, <2>4
<1>5. CASE BiosFails
  BY <1>5 DEF BiosFails
<1>6. CASE UNCHANGED drivevars
  BY <1>6 DEF drivevars
<1> QED BY <1>1, <1>2, <1>3, <1>4, <1>5, <1>6 DEF DriveNext

(* A read returns the blocks it was asked for, in whatever chunks the BIOS moves them
   through the low buffer, and a write changes one block: the drive implements
   AbstractDisk. *)
THEOREM DriveRefinement == DriveSpec => ImplementsDisk
<1>1. DriveInit => Disk!Init
  BY DEF DriveInit, Disk!Init
<1>2. DriveInv /\ [DriveNext]_drivevars => [Disk!Next]_<<disk, returned>>
  BY DriveStepRefines
<1> QED BY <1>1, <1>2, DriveInvariance, PTL DEF DriveSpec, ImplementsDisk, Disk!Spec

(***************************************************************************)
(* FatVolume, for every set of volumes and paths, and whatever lies behind *)
(* the buffers in memory: who owns the blocks that kalloc gave.            *)
(***************************************************************************)

\* The blocks of fs_open and find_dir, at each point where fs_open may end; find_dir has
\* freed its directory before fat_open goes on.
LiveInv ==
    /\ MemoryReturned
    /\ vpc = "find_dir" => allocated = {"pathbuf", "parts", "cldata"} /\ handle = Unopened
    /\ vpc = "fat_open" => allocated \subseteq FreedByOpen /\ handle = Unopened
    /\ vpc \in {"ready", "find_dir", "fat_open", "panicked"}

(* A file is open only with its blocks, a listing with its contents too. *)
LEMMA FatOpenInv ==
    ASSUME LiveInv, FatOpen
    PROVE  LiveInv'
<1>1. allocated \subseteq FreedByOpen /\ vpc = "fat_open"
  BY DEF LiveInv, FatOpen
<1>2. CASE dir = Free
  BY <1>1, <1>2 DEF FatOpen, LiveInv, MemoryReturned
<1>3. CASE dir # Free /\ dir.kind = "dir" /\ ~ChainOnDisk(dir.cluster)
  BY <1>1, <1>3 DEF FatOpen, LiveInv, MemoryReturned
<1>4. CASE dir # Free /\ ~ (dir.kind = "dir" /\ ~ChainOnDisk(dir.cluster))
  <2>1. handle' = Opened /\ allocated' = OpenedBlocks /\ vpc' = "ready"
    BY <1>1, <1>4 DEF FatOpen
  <2>2. /\ Opened.kind \in {"listing", "file"}
        /\ Opened.kind = "listing" <=> dir.kind \in {"dir", "vol"}
    BY DEF Opened
  <2>3. Opened # Unopened
    BY <2>2 DEF Unopened
  <2>4. OpenedBlocks = {"file", "handle"} \cup (IF Opened.kind = "listing" THEN {"contents"} ELSE {})
    BY <2>2 DEF OpenedBlocks
  <2> QED BY <2>1, <2>3, <2>4 DEF LiveInv, MemoryReturned
<1> QED BY <1>2, <1>3, <1>4

(* The other steps take and free blocks as fs_open comes to them. *)
LEMMA LiveStepInv ==
    ASSUME LiveInv, [VolNext]_volvars
    PROVE  LiveInv'
<1>1. ASSUME NEW p \in Paths, fs_open(p) PROVE LiveInv'
  BY <1>1 DEF fs_open, LiveInv, MemoryReturned
<1>2. CASE FindRoot
  BY <1>2 DEF FindRoot, LiveInv, MemoryReturned, FreedByOpen
<1>3. CASE FindPart
  <2> DEFINE e == FindDirEnt(parts[level], cldata, past)
  <2>1. allocated = {"pathbuf", "parts", "cldata"} /\ handle = Unopened /\ handle' = handle
        /\ vpc = "find_dir"
    BY <1>3 DEF FindPart, LiveInv
  <2>2. CASE e = Free \/ level = Len(parts)
    <3>1. Found(e)
      BY <1>3, <2>2 DEF FindPart
    <3> HIDE DEF e
    <3> QED BY <2>1, <3>1 DEF Found, LiveInv, MemoryReturned, FreedByOpen
  <2>3. CASE ~ (e = Free \/ level = Len(parts))
    <3>1. vpc' = "panicked" \/ (vpc' = vpc /\ allocated' = allocated)
      BY <1>3, <2>3 DEF FindPart
    <3> QED BY <2>1, <3>1 DEF LiveInv, MemoryReturned
  <2> QED BY <2>2, <2>3
<1>4. CASE FatOpen
  BY <1>4, FatOpenInv
<1>5. CASE fs_close
  <2>1. allocated \subseteq {"contents", "file", "handle"}
    BY <1>5 DEF fs_close, LiveInv, MemoryReturned
  <2> QED BY <1>5, <2>1 DEF fs_close, LiveInv, MemoryReturned
<1>6. CASE UNCHANGED volvars
  BY <1>6 DEF volvars, LiveInv, MemoryReturned
<1> QED BY <1>1, <1>2, <1>3, <1>4, <1>5, <1>6 DEF VolNext

(* Whatever path is opened on whatever volume, and whether or not it is there, fs_open
   keeps nothing but what an open file needs, and fs_close nothing. *)
THEOREM MemoryCorrect == VolSpec => []MemoryReturned
<1>1. VolInit => LiveInv
  BY DEF VolInit, LiveInv, MemoryReturned
<1>2. LiveInv /\ [VolNext]_volvars => LiveInv'
  BY LiveStepInv
<1>3. LiveInv => MemoryReturned
  BY DEF LiveInv
<1> QED BY <1>1, <1>2, <1>3, PTL DEF VolSpec

(***************************************************************************)
(* FatFile, for every size of files, clusters and reads.  The bytes a read *)
(* returns are those behind the cursor wherever it stands; the cursor it   *)
(* leaves is in step under the assumption that ReadsStayInside names.      *)
(***************************************************************************)

(* The clusters a file needs hold it, and the last of them some of it. *)
LEMMA NeededFacts ==
    ASSUME NEW s \in Nat, NEW c \in Nat \ {0}
    PROVE  /\ Needed(s, c) \in Nat /\ s <= Needed(s, c) * c
           /\ Needed(s, c) * c < s + c
<1>1. s + c - 1 \in Nat
  OBVIOUS
<1> DEFINE m == (s + c - 1) \div c
           w == (s + c - 1) % c
<1>2. m \in Nat /\ w \in 0 .. c - 1 /\ m * c \in Nat /\ s + c - 1 = m * c + w
  BY <1>1, Quotient
<1> HIDE DEF m, w
<1>3. s <= m * c /\ m * c < s + c
  BY <1>2
<1> QED BY <1>2, <1>3 DEF m, Needed

\* A full chain, and the cursor in step with it; what fs_read_full has put into its block
\* is what it has passed.
FileInv ==
    /\ FileTypeOK
    /\ chain = Needed(size, clbytes)
    /\ CursorInStep
    /\ filled = [i \in 1 .. count |-> from + i - 1]
    /\ from + count <= size
    /\ fpc = "fs_read_full" => offset = from + count
    /\ fpc = "fs_read_full" => count + chunk <= room
    /\ fpc = "ready" /\ room > 0 => from + count = size

(* Bytes in a row, in two pieces. *)
LEMMA RunsOn ==
    ASSUME NEW o \in Nat, NEW a \in Nat, NEW b \in Nat
    PROVE  [j \in 1 .. a |-> o + j - 1] \o [j \in 1 .. b |-> o + a + j - 1]
           = [j \in 1 .. a + b |-> o + j - 1]
<1> DEFINE s == [j \in 1 .. a |-> o + j - 1]
           t == [j \in 1 .. b |-> o + a + j - 1]
           u == [j \in 1 .. a + b |-> o + j - 1]
<1>1. s \in Seq(Int) /\ Len(s) = a /\ \A j \in 1 .. a : s[j] = o + j - 1
  OBVIOUS
<1>2. t \in Seq(Int) /\ Len(t) = b /\ \A j \in 1 .. b : t[j] = o + a + j - 1
  OBVIOUS
<1>3. u \in Seq(Int) /\ Len(u) = a + b /\ \A j \in 1 .. a + b : u[j] = o + j - 1
  OBVIOUS
<1> HIDE DEF s, t, u
<1>4. /\ s \o t \in Seq(Int) /\ Len(s \o t) = a + b
      /\ \A j \in 1 .. a + b : (s \o t)[j] = IF j <= a THEN s[j] ELSE t[j - a]
  BY <1>1, <1>2, ConcatProperties
<1>5. ASSUME NEW j \in 1 .. a + b PROVE (s \o t)[j] = u[j]
  <2>1. CASE j <= a
    BY <1>1, <1>3, <1>4, <2>1
  <2>2. CASE ~ (j <= a)
    <3>1. j - a \in 1 .. b /\ o + a + (j - a) - 1 = o + j - 1
      BY <2>2
    <3> QED BY <1>2, <1>3, <1>4, <2>2, <3>1
  <2> QED BY <2>1, <2>2
<1>6. s \o t = u
  BY <1>3, <1>4, <1>5, SeqEqual
<1> QED BY <1>6 DEF s, t, u

(* Bytes of a cluster are bytes of the file. *)
LEMMA ByteIs ==
    ASSUME NEW ends, NEW b \in Nat, NEW c \in Nat, NEW i \in Nat, NEW n \in Nat, NEW o \in Nat,
           n > 0 => c < ends /\ c * b + i = o
    PROVE  \A j \in 1 .. n : (IF c < ends THEN c * b + i + j - 1 ELSE Garbage) = o + j - 1
<1>1. ASSUME NEW j \in 1 .. n
      PROVE  (IF c < ends THEN c * b + i + j - 1 ELSE Garbage) = o + j - 1
  <2>1. n > 0
    OBVIOUS
  <2>2. c < ends /\ c * b + i = o
    BY <2>1
  <2> DEFINE p == c * b
  <2>3. p \in Int
    OBVIOUS
  <2> HIDE DEF p
  <2>4. p + i = o
    BY <2>2 DEF p
  <2>5. p + i + j - 1 = o + j - 1
    BY <2>3, <2>4
  <2> QED BY <2>2, <2>5 DEF p
<1> QED BY <1>1

(* A read from a cursor in step, whatever is asked for: it returns the bytes behind the
   cursor.  The cursor it leaves is in step when the read stays within a cluster's length. *)
LEMMA FatReadExact ==
    ASSUME FileInv, ~listing, NEW n \in Nat \ {0}, Asked(n) # 0
    PROVE  /\ FatRead(n).data = [j \in 1 .. Asked(n) |-> offset + j - 1]
           /\ FatRead(n).offset = offset + Asked(n)
           /\ FatRead(n).cluster \in 0 .. chain
           /\ n <= clbytes => FatRead(n).cluster = (offset + Asked(n)) \div clbytes
<1> DEFINE want  == Asked(n)
           w     == Within
           first == Least(clbytes - Within, want)
           c     == AfterFirst(first)
           R     == want - first
           k     == Least(Rounds(want - first), ChainEnd - c)
           rest  == want - first - k * clbytes
           whole == k = Rounds(want - first)
           head  == Bytes(cluster, Within, first) \o Bytes(c, 0, k * clbytes)
<1>1. FatRead(n) = IF whole
                   THEN [data |-> head \o Bytes(c + k, 0, rest), cluster |-> c + k,
                         offset |-> offset + want]
                   ELSE [data |-> head \o [j \in 1 .. n - want |-> Garbage], cluster |-> ChainEnd,
                         offset |-> offset + n - rest]
  BY DEF FatRead
<1>2. /\ clbytes \in Nat \ {0} /\ size \in Nat /\ offset \in Nat /\ cluster \in Nat /\ chain \in Nat
      /\ offset < size /\ want \in Nat \ {0} /\ want <= n /\ offset + want <= size
      /\ cluster = offset \div clbytes /\ chain = Needed(size, clbytes)
  BY FileAssumption DEF FileInv, FileTypeOK, CursorInStep, Asked, Least
<1>3. w \in 0 .. clbytes - 1 /\ cluster * clbytes \in Nat /\ offset = cluster * clbytes + w
  BY <1>2, Quotient DEF Within
<1>4. chain * clbytes \in Nat /\ size <= chain * clbytes
  <2>1. size <= Needed(size, clbytes) * clbytes
    BY <1>2, NeededFacts, Zenon
  <2>2. \A a, b \in Nat : a * b \in Nat
    OBVIOUS
  <2> QED BY <1>2, <2>1, <2>2
<1>5. cluster < chain
  BY <1>2, <1>3, <1>4, MultipleOrder
<1>6. first \in Nat \ {0} /\ first <= want /\ first <= clbytes - w
      /\ (first < want => first = clbytes - w)
  BY <1>2, <1>3 DEF Least
<1> HIDE DEF want, w, first
<1>7. /\ first < clbytes - w => c = cluster
      /\ first = clbytes - w => c = cluster + 1 /\ c * clbytes = offset + first
      /\ c \in Nat /\ c <= chain
  <2>1. first = clbytes - w => c = cluster + 1
    BY <1>5 DEF AfterFirst, NextCluster, ChainEnd, w
  <2>2. first < clbytes - w => c = cluster
    BY <1>2, <1>3, <1>6 DEF AfterFirst, w
  <2>3. (cluster + 1) * clbytes = cluster * clbytes + clbytes
    BY <1>2
  <2>4. first = clbytes - w => c * clbytes = offset + first
    BY <1>2, <1>3, <2>1, <2>3
  <2> QED BY <1>2, <1>3, <1>5, <1>6, <2>1, <2>2, <2>4
<1> HIDE DEF c
<1>8. R \in Nat /\ R <= want
  BY <1>2, <1>6
<1> HIDE DEF R
<1>9. /\ Rounds(R) \in Nat /\ Rounds(R) * clbytes \in Nat /\ Rounds(R) * clbytes <= R
      /\ R > 0 => Rounds(R) * clbytes < R
      /\ R > 0 => c * clbytes = offset + first /\ c + Rounds(R) < chain
      /\ R = 0 => Rounds(R) = 0
  <2>1. CASE R = 0
    <3>1. Rounds(R) = 0 /\ 0 * clbytes = 0
      BY <1>2, <2>1 DEF Rounds
    <3> QED BY <2>1, <3>1
  <2>2. CASE R > 0
    <3>1. R - 1 \in Nat /\ Rounds(R) = (R - 1) \div clbytes
      BY <1>8, <2>2 DEF Rounds
    <3>2. Rounds(R) \in Nat /\ Rounds(R) * clbytes \in Nat /\ Rounds(R) * clbytes <= R - 1
      <4> DEFINE a == R - 1
      <4>1. a \in Nat
        BY <3>1
      <4> HIDE DEF a
      <4>2. /\ a \div clbytes \in Nat /\ a % clbytes \in 0 .. clbytes - 1
            /\ (a \div clbytes) * clbytes \in Nat
            /\ a = (a \div clbytes) * clbytes + (a % clbytes)
        BY <1>2, <4>1, Quotient
      <4>3. Rounds(R) = a \div clbytes
        BY <3>1 DEF a
      <4>4. (a \div clbytes) * clbytes <= a
        BY <1>2, <4>1, <4>2
      <4> QED BY <4>2, <4>3, <4>4 DEF a
    <3>3. c * clbytes = offset + first /\ c \in Nat
      BY <1>2, <1>6, <1>7, <2>2, <1>3 DEF R
    <3>4. (c + Rounds(R)) * clbytes = c * clbytes + Rounds(R) * clbytes
      BY <1>2, <3>2, <3>3
    <3>5. (c + Rounds(R)) * clbytes < chain * clbytes
      <4>1. R = want - first
        BY DEF R
      <4> QED BY <1>2, <1>4, <1>6, <1>8, <3>2, <3>3, <3>4, <4>1
    <3>6. c + Rounds(R) < chain
      <4>1. c + Rounds(R) \in Nat
        BY <3>2, <3>3
      <4> QED BY <1>2, <3>5, <4>1, MultipleOrder
    <3> QED BY <1>8, <2>2, <3>2, <3>3, <3>6
  <2> QED BY <1>8, <2>1, <2>2
<1>10. k = Rounds(R) /\ whole
  <2>1. Rounds(R) <= chain - c
    BY <1>2, <1>7, <1>8, <1>9
  <2> QED BY <1>2, <1>7, <1>9, <2>1 DEF Least, ChainEnd, R
<1>11. rest = R - k * clbytes
  BY DEF R
<1>12. FatRead(n) = [data |-> head \o Bytes(c + k, 0, rest), cluster |-> c + k,
                     offset |-> offset + want]
  BY <1>1, <1>10
<1> HIDE DEF k, rest
<1>13. k \in Nat /\ k * clbytes \in Nat /\ rest \in Nat /\ first + k * clbytes + rest = want
  <2>1. R = want - first
    BY DEF R
  <2>2. k * clbytes \in Nat /\ k * clbytes <= R
    BY <1>9, <1>10
  <2> QED BY <1>2, <1>6, <1>8, <1>9, <1>10, <1>11, <2>1, <2>2
<1>14. head \o Bytes(c + k, 0, rest) = [j \in 1 .. want |-> offset + j - 1]
  <2> DEFINE m == k * clbytes
  <2>1. Bytes(cluster, w, first) = [j \in 1 .. first |-> offset + j - 1]
    <3>1. cluster < chain /\ w \in Int
      BY <1>3, <1>5
    <3> DEFINE p == cluster * clbytes
    <3>2. p \in Int /\ p + w = offset
      BY <1>3
    <3> HIDE DEF p
    <3>3. \A j \in 1 .. first : p + w + j - 1 = offset + j - 1
      BY <3>2
    <3>4. \A j \in 1 .. first :
             (IF cluster < chain THEN cluster * clbytes + w + j - 1 ELSE Garbage) = offset + j - 1
      BY <3>1, <3>3 DEF p
    <3> QED BY <3>4 DEF Bytes, w
  <2>2. Bytes(c, 0, m) = [j \in 1 .. m |-> offset + first + j - 1]
    <3>1. m > 0 => R > 0
      BY <1>2, <1>8, <1>9, <1>10
    <3>2. m > 0 => c < chain /\ c * clbytes + 0 = offset + first
      BY <1>2, <1>6, <1>7, <1>9, <3>1
    <3>3. offset + first \in Nat /\ m \in Nat /\ 0 \in Nat /\ clbytes \in Nat /\ c \in Nat
      BY <1>2, <1>6, <1>7, <1>13
    <3> HIDE DEF m
    <3>4. \A j \in 1 .. m :
             (IF c < chain THEN c * clbytes + 0 + j - 1 ELSE Garbage) = offset + first + j - 1
      BY <3>2, <3>3, ByteIs
    <3> QED BY <3>4 DEF Bytes
  <2>3. Bytes(c + k, 0, rest) = [j \in 1 .. rest |-> offset + (first + m) + j - 1]
    <3>1. rest > 0 => R > 0
      BY <1>8, <1>9, <1>10, <1>11
    <3>2. (c + k) * clbytes = c * clbytes + m
      BY <1>2, <1>7, <1>13
    <3>3. rest > 0 => c + k < chain /\ (c + k) * clbytes + 0 = offset + (first + m)
      BY <1>2, <1>6, <1>9, <1>10, <1>13, <3>1, <3>2
    <3>4. /\ offset + (first + m) \in Nat /\ c + k \in Nat /\ 0 \in Nat
          /\ clbytes \in Nat /\ rest \in Nat
      BY <1>2, <1>6, <1>7, <1>13
    <3> HIDE DEF m
    <3>5. \A j \in 1 .. rest :
             (IF c + k < chain THEN (c + k) * clbytes + 0 + j - 1 ELSE Garbage)
             = offset + (first + m) + j - 1
      BY <3>3, <3>4, ByteIs
    <3> QED BY <3>5 DEF Bytes
  <2>4. head = Bytes(cluster, w, first) \o Bytes(c, 0, m)
    BY DEF w
  <2>5. m \in Nat
    BY <1>13
  <2> HIDE DEF m, head
  <2>6. head = [j \in 1 .. first + m |-> offset + j - 1]
    <3>1. offset \in Nat /\ first \in Nat
      BY <1>2, <1>6
    <3>2. [j \in 1 .. first |-> offset + j - 1] \o [j \in 1 .. m |-> offset + first + j - 1]
          = [j \in 1 .. first + m |-> offset + j - 1]
      BY <2>5, <3>1, RunsOn, ZenonT(40)
    <3> QED BY <2>1, <2>2, <2>4, <3>2, Zenon
  <2>7. head \o Bytes(c + k, 0, rest) = [j \in 1 .. first + m + rest |-> offset + j - 1]
    <3>1. first + m \in Nat
      BY <1>6, <2>5
    <3>2. offset \in Nat /\ rest \in Nat
      BY <1>2, <1>13
    <3>3. [j \in 1 .. first + m |-> offset + j - 1]
              \o [j \in 1 .. rest |-> offset + (first + m) + j - 1]
          = [j \in 1 .. first + m + rest |-> offset + j - 1]
      BY <3>1, <3>2, RunsOn, ZenonT(40)
    <3> QED BY <2>3, <2>6, <3>3, Zenon
  <2>8. first + m + rest = want
    BY <1>13 DEF m
  <2> QED BY <2>7, <2>8
<1>15. c + k \in 0 .. chain
  BY <1>2, <1>7, <1>8, <1>9, <1>10
<1>16. ASSUME n <= clbytes PROVE c + k = (offset + want) \div clbytes
  <2>1. CASE R = 0
    <3>1. k = 0 /\ first = want
      BY <1>2, <1>6, <1>9, <1>10, <2>1 DEF R
    <3>2. CASE first = clbytes - w
      <4>1. offset + want = c * clbytes + 0 /\ c \in Nat /\ 0 \in 0 .. clbytes - 1
        BY <1>2, <1>6, <1>7, <3>1, <3>2
      <4>2. (c * clbytes + 0) \div clbytes = c
        BY <1>2, <4>1, QuotientIs
      <4> QED BY <3>1, <4>1, <4>2
    <3>3. CASE first < clbytes - w
      <4>1. w + first \in 0 .. clbytes - 1 /\ offset + want = cluster * clbytes + (w + first)
        BY <1>2, <1>3, <1>6, <3>1, <3>3
      <4>2. (cluster * clbytes + (w + first)) \div clbytes = cluster
        BY <1>2, <4>1, QuotientIs
      <4> QED BY <1>2, <1>7, <3>1, <3>3, <4>1, <4>2
    <3> QED BY <1>2, <1>3, <1>6, <3>2, <3>3
  <2>2. CASE R > 0
    <3>1. R = want - first /\ first = clbytes - w /\ c * clbytes = offset + first /\ R < clbytes
      <4>1. R = want - first
        BY DEF R
      <4>2. first < want
        BY <1>2, <1>6, <2>2, <4>1
      <4> QED BY <1>2, <1>3, <1>6, <1>9, <1>16, <2>2, <4>1, <4>2
    <3>2. k = 0
      <4>1. k * clbytes < 1 * clbytes
        BY <1>2, <1>8, <1>9, <1>10, <1>13, <3>1
      <4>2. k < 1
        BY <1>2, <1>13, <4>1, MultipleOrder
      <4> QED BY <1>13, <4>2
    <3>3. offset + want = c * clbytes + R /\ R \in 0 .. clbytes - 1
      BY <1>2, <1>6, <1>8, <3>1
    <3>4. (c * clbytes + R) \div clbytes = c
      BY <1>2, <1>7, <3>3, QuotientIs
    <3> QED BY <1>7, <3>2, <3>3, <3>4
  <2> QED BY <1>8, <2>1, <2>2
<1> HIDE DEF head
<1> QED BY <1>12, <1>14, <1>15, <1>16 DEF want

\* The chain of every file is as long as the file, and a read asks for no more than a
\* cluster holds or for no less than the file: fs_read_full asks for 2048 bytes at a time
\* and the command cat for 512, so that all reads are such ones on clusters of 2048 bytes or
\* more.  Without it CursorInStep does not hold, and the next read starts wrong.
WholeChains == Missing \subseteq {0}
ReadsStayInside ==
    \A n \in Reads \cup Chunks, c \in ClusterSizes, s \in Sizes : n <= c \/ n >= s

(* What a read returns, and the cursor it leaves. *)
LEMMA OutcomeExact ==
    ASSUME FileInv, NEW n \in Nat \ {0}, n <= clbytes \/ n >= size
    PROVE  LET k == Least(n, size - offset)
               r == Outcome(n)
           IN  /\ k \in 0 .. size - offset /\ (k = 0 => offset = size)
               /\ r.data = [j \in 1 .. k |-> offset + j - 1]
               /\ r.offset = offset + k
               /\ r.cluster \in 0 .. chain
               /\ ~listing /\ r.offset < size => r.cluster = r.offset \div clbytes
<1> DEFINE k == Least(n, size - offset)
           r == Outcome(n)
<1>1. /\ clbytes \in Nat \ {0} /\ size \in Nat /\ offset \in 0 .. size /\ cluster \in 0 .. chain
      /\ chain \in Nat
  BY FileAssumption, NeededFacts DEF FileInv, FileTypeOK
<1>2. k \in 0 .. size - offset /\ (k = 0 => offset = size) /\ k <= n /\ Asked(n) = k
      /\ (k # n => offset + k = size)
  BY <1>1 DEF Least, Asked
<1>3. CASE k = 0
  <2>1. r = NoRead
    BY <1>2, <1>3 DEF Outcome
  <2>2. r.data = <<>> /\ r.offset = offset /\ r.cluster = cluster
    BY <2>1 DEF NoRead
  <2>3. <<>> = [j \in 1 .. k |-> offset + j - 1]
    BY <1>3
  <2> HIDE DEF r, k
  <2>4. r.offset = offset + k /\ ~ (r.offset < size)
    BY <1>1, <1>2, <1>3, <2>2
  <2> QED BY <1>1, <1>2, <2>2, <2>3, <2>4 DEF r, k
<1>4. CASE k # 0 /\ listing
  <2>1. r = ReadContents(n)
    BY <1>2, <1>4 DEF Outcome
  <2>2. ReadContents(n) = [data |-> [j \in 1 .. k |-> offset + j - 1], cluster |-> cluster,
                           offset |-> offset + k]
    <3>1. (IF offset >= size THEN 0 ELSE Least(size - offset, n)) = k
      BY <1>1, <1>2, <1>4 DEF Least
    <3> QED BY <3>1 DEF ReadContents
  <2> HIDE DEF r, k
  <2> QED BY <1>1, <1>2, <1>4, <2>1, <2>2 DEF r, k
<1>5. CASE k # 0 /\ ~listing
  <2>1. r = FatRead(n)
    BY <1>2, <1>5 DEF Outcome
  <2>2. /\ FatRead(n).data = [j \in 1 .. Asked(n) |-> offset + j - 1]
        /\ FatRead(n).offset = offset + Asked(n)
        /\ FatRead(n).cluster \in 0 .. chain
        /\ n <= clbytes => FatRead(n).cluster = (offset + Asked(n)) \div clbytes
    BY <1>2, <1>5, FatReadExact
  <2>3. n >= size => ~ (offset + k < size)
    BY <1>1, <1>2
  <2> HIDE DEF r, k
  <2>4. r.data = [j \in 1 .. k |-> offset + j - 1] /\ r.offset = offset + k
        /\ r.cluster \in 0 .. chain
    BY <1>2, <2>1, <2>2
  <2>5. r.offset < size => r.cluster = r.offset \div clbytes
    BY <1>1, <1>2, <2>1, <2>2, <2>3, <2>4
  <2> QED BY <1>2, <2>4, <2>5 DEF r, k
<1> QED BY <1>3, <1>4, <1>5

(* fs_read keeps the cursor in step. *)
LEMMA ReadFileInv ==
    ASSUME FileInv, ReadsStayInside, NEW n \in Reads, fs_read(n)
    PROVE  FileInv'
<1> DEFINE k == Least(n, size - offset)
           r == Outcome(n)
<1>1. n \in Nat \ {0} /\ (n <= clbytes \/ n >= size) /\ size \in Nat /\ offset \in 0 .. size
  BY FileAssumption DEF FileInv, FileTypeOK, ReadsStayInside
<1>2. /\ k \in 0 .. size - offset
      /\ r.data = [j \in 1 .. k |-> offset + j - 1]
      /\ r.offset = offset + k
      /\ r.cluster \in 0 .. chain
      /\ ~listing /\ r.offset < size => r.cluster = r.offset \div clbytes
  BY <1>1, OutcomeExact
<1>3. /\ cluster' = r.cluster /\ offset' = r.offset /\ got' = r.data /\ fpc = "ready"
      /\ UNCHANGED <<chunk, clbytes, listing, size, chain, fpc, room, count, filled, from>>
  BY DEF fs_read, Became, file, reader
<1> HIDE DEF k, r
<1>4. offset' \in 0 .. size
  BY <1>1, <1>2, <1>3
<1>5. got' \in Seq(0 .. size - 1)
  <2>1. \A j \in 1 .. k : offset + j - 1 \in 0 .. size - 1
    BY <1>1, <1>2
  <2>2. k \in Nat
    BY <1>1, <1>2
  <2> QED BY <1>2, <1>3, <2>1, <2>2
<1>6. FileTypeOK'
  BY <1>2, <1>3, <1>4, <1>5 DEF FileInv, FileTypeOK
<1>7. CursorInStep'
  BY <1>2, <1>3 DEF CursorInStep
<1> QED BY <1>3, <1>6, <1>7 DEF FileInv, Needed

(* fs_read_full puts what it reads behind what it has. *)
LEMMA FullStepFileInv ==
    ASSUME FileInv, ReadsStayInside, FullStep
    PROVE  FileInv'
<1> DEFINE k == Least(chunk, size - offset)
           r == Outcome(chunk)
<1>1. /\ chunk \in Nat \ {0} /\ (chunk <= clbytes \/ chunk >= size) /\ size \in Nat
      /\ offset \in 0 .. size /\ count \in Nat /\ from \in 0 .. size /\ room \in Nat
  BY FileAssumption DEF FileInv, FileTypeOK, ReadsStayInside
<1>2. /\ k \in 0 .. size - offset /\ (k = 0 => offset = size)
      /\ r.data = [j \in 1 .. k |-> offset + j - 1]
      /\ r.offset = offset + k
      /\ r.cluster \in 0 .. chain
      /\ ~listing /\ r.offset < size => r.cluster = r.offset \div clbytes
  BY <1>1, OutcomeExact
<1>3. Len(r.data) = k /\ k \in Nat
  <2>1. k \in Nat
    BY <1>1, <1>2
  <2> HIDE DEF k, r
  <2> QED BY <1>2, <2>1
<1>4. /\ cluster' = r.cluster /\ offset' = r.offset /\ got' = r.data /\ fpc = "fs_read_full"
      /\ IF k = 0 THEN fpc' = "ready" /\ room' = count /\ UNCHANGED <<count, filled>>
         ELSE /\ count' = count + k /\ filled' = filled \o r.data
              /\ room' = Grown(count') /\ UNCHANGED fpc
      /\ UNCHANGED <<chunk, clbytes, listing, size, chain, from>>
  <2>1. Ends(Len(r.data)) <=> k = 0
    BY <1>3 DEF Ends
  <2> HIDE DEF k
  <2> QED BY <1>3, <2>1 DEF FullStep, Became, file
<1> HIDE DEF k, r
<1>5. offset' \in 0 .. size
  BY <1>1, <1>2, <1>4
<1>6. got' \in Seq(0 .. size - 1)
  <2>1. k \in Nat /\ \A j \in 1 .. k : offset + j - 1 \in 0 .. size - 1
    BY <1>1, <1>2, <1>3
  <2>2. [j \in 1 .. k |-> offset + j - 1] \in Seq(0 .. size - 1)
    BY <2>1
  <2> QED BY <1>2, <1>4, <2>2, Zenon
<1>7. offset = from + count /\ filled = [i \in 1 .. count |-> from + i - 1] /\ filled \in Seq(0 .. size - 1)
  BY <1>4 DEF FileInv, FileTypeOK
<1>8. CursorInStep'
  BY <1>2, <1>4 DEF CursorInStep
<1>9. CASE k = 0
  <2>1. FileTypeOK'
    BY <1>1, <1>2, <1>4, <1>5, <1>6, <1>9 DEF FileInv, FileTypeOK
  <2>2. from + count = size
    BY <1>2, <1>7, <1>9
  <2> QED BY <1>4, <1>8, <1>9, <2>1, <2>2 DEF FileInv, Needed
<1>10. CASE k # 0
  <2>1. /\ count' \in Nat /\ room' \in Nat /\ from + count' <= size /\ offset' = from + count'
        /\ count' + chunk' <= room'
    BY <1>1, <1>2, <1>3, <1>4, <1>7, <1>10 DEF Grown
  <2>2. filled' = [i \in 1 .. count + k |-> from + i - 1]
    <3>1. [i \in 1 .. count |-> from + i - 1] \o [i \in 1 .. k |-> from + count + i - 1]
          = [i \in 1 .. count + k |-> from + i - 1]
      <4>1. from \in Nat /\ count \in Nat /\ k \in Nat
        BY <1>1, <1>3
      <4> QED BY <4>1, RunsOn, Zenon
    <3>2. filled' = filled \o [i \in 1 .. k |-> from + count + i - 1]
      BY <1>2, <1>4, <1>7, <1>10
    <3> QED BY <1>7, <3>1, <3>2, Zenon
  <2>3. filled' = [i \in 1 .. count' |-> from' + i - 1]
    BY <1>4, <1>10, <2>2
  <2>4. filled' \in Seq(0 .. size - 1)
    <3>1. \A i \in 1 .. count + k : from + i - 1 \in 0 .. size - 1
      BY <1>1, <1>2, <1>3, <1>7
    <3>2. count + k \in Nat
      BY <1>1, <1>3
    <3> DEFINE m == count + k
    <3>3. filled' = [i \in 1 .. m |-> from + i - 1]
      BY <2>2
    <3> HIDE DEF m
    <3>4. m \in Nat /\ \A i \in 1 .. m : from + i - 1 \in 0 .. size - 1
      BY <3>1, <3>2 DEF m
    <3> QED BY <3>3, <3>4
  <2>5. FileTypeOK'
    BY <1>1, <1>2, <1>4, <1>5, <1>6, <1>10, <2>1, <2>4 DEF FileInv, FileTypeOK
  <2> QED BY <1>4, <1>8, <1>10, <2>1, <2>3, <2>5 DEF FileInv, Needed
<1> QED BY <1>9, <1>10

(* fat_open: the cursor stands at the first cluster, or at the end of the chain when
   there is none. *)
LEMMA FileInitInv ==
    ASSUME FileInit, WholeChains
    PROVE  FileInv
<1>1. clbytes \in Nat \ {0} /\ size \in Nat
  BY FileAssumption DEF FileInit
<1>2. /\ Needed(size, clbytes) \in Nat /\ size <= Needed(size, clbytes) * clbytes
  BY <1>1, NeededFacts
<1>3. chain = Needed(size, clbytes)
  <2>1. PICK m \in Missing : m <= Needed(size, clbytes) /\ chain = Needed(size, clbytes) - m
    BY DEF FileInit
  <2> QED BY <1>2, <2>1 DEF WholeChains
<1>4. cluster \in 0 .. chain /\ (~listing => cluster = 0) /\ chain \in Nat
  BY <1>2, <1>3 DEF FileInit, ChainEnd
<1>5. 0 \div clbytes = 0
  <2>1. (0 * clbytes + 0) \div clbytes = 0
    BY <1>1, QuotientIs
  <2> QED BY <1>1, <2>1
<1>6. <<>> \in Seq(0 .. size - 1) /\ <<>> = [i \in 1 .. 0 |-> 0 + i - 1] /\ 0 \in 0 .. size
  BY <1>1
<1> QED BY <1>1, <1>2, <1>3, <1>4, <1>5, <1>6 DEF FileInit, FileInv, FileTypeOK, CursorInStep

(* fs_read_full begins at the cursor, with an empty block. *)
LEMMA FullBeginFileInv ==
    ASSUME FileInv, FullBegin
    PROVE  FileInv'
<1>1. /\ fpc' = "fs_read_full" /\ room' = chunk /\ count' = 0 /\ filled' = <<>> /\ from' = offset
      /\ UNCHANGED <<chunk, clbytes, listing, size, chain, cluster, offset, got>>
  BY DEF FullBegin, file
<1>2. chunk \in Nat /\ size \in Nat /\ offset \in 0 .. size
  BY FileAssumption DEF FileInv, FileTypeOK
<1>3. <<>> \in Seq(0 .. size - 1) /\ <<>> = [i \in 1 .. 0 |-> offset + i - 1]
      /\ offset + 0 = offset /\ offset <= size /\ 0 + chunk <= chunk
  BY <1>2
<1>4. FileTypeOK'
  BY <1>1, <1>2, <1>3 DEF FileInv, FileTypeOK
<1> QED BY <1>1, <1>2, <1>3, <1>4 DEF FileInv, CursorInStep, Needed

(* Every step keeps the cursor in step. *)
LEMMA FileStepInv ==
    ASSUME FileInv, ReadsStayInside, [FileNext]_filevars
    PROVE  FileInv'
<1>1. ASSUME NEW n \in Reads, fs_read(n) PROVE FileInv'
  BY <1>1, ReadFileInv
<1>2. CASE FullBegin
  BY <1>2, FullBeginFileInv
<1>3. CASE FullStep
  BY <1>3, FullStepFileInv
<1>4. CASE UNCHANGED filevars
  BY <1>4 DEF filevars, file, reader, FileInv, FileTypeOK, CursorInStep, Needed
<1> QED BY <1>1, <1>2, <1>3, <1>4 DEF FileNext

(* The inductive invariant: the cluster is that of the offset, and fs_read_full has what
   it has passed.  FullReadExact alone says nothing of the cursor the next read starts from. *)
THEOREM FileInvariance ==
    ASSUME WholeChains, ReadsStayInside
    PROVE  FileSpec => []FileInv
<1>1. FileInit => FileInv
  BY FileInitInv
<1>2. FileInv /\ [FileNext]_filevars => FileInv'
  BY FileStepInv
<1> QED BY <1>1, <1>2, PTL DEF FileSpec

(* The types of the reader's state. *)
THEOREM FileTypeCorrect ==
    ASSUME WholeChains, ReadsStayInside
    PROVE  FileSpec => []FileTypeOK
<1>1. FileInv => FileTypeOK
  BY DEF FileInv
<1> QED BY <1>1, FileInvariance, PTL

(* fs_read_full returns all that is left of a file, and nothing else. *)
THEOREM FullReadCorrect ==
    ASSUME WholeChains, ReadsStayInside
    PROVE  FileSpec => []FullReadExact
<1>1. FileInv => FullReadExact
  BY DEF FileInv, FullReadExact
<1> QED BY <1>1, FileInvariance, PTL

(* current_cluster is that of current_offset. *)
THEOREM CursorCorrect ==
    ASSUME WholeChains, ReadsStayInside
    PROVE  FileSpec => [](CursorInStep /\ OffsetIntoFile)
<1>1. FileInv => CursorInStep /\ OffsetIntoFile
  BY FileAssumption DEF FileInv, FileTypeOK, OffsetIntoFile
<1> QED BY <1>1, FileInvariance, PTL

(* Every read is a read of the abstract file, whatever clusters it lies in. *)
LEMMA FileStepRefines ==
    ASSUME FileInv, ReadsStayInside, [FileNext]_filevars
    PROVE  [File!Next]_<<size, offset, got>>
<1>1. ASSUME NEW n \in Reads \cup Chunks, Became(Outcome(n)), UNCHANGED size,
             n \in Nat \ {0}, n <= clbytes \/ n >= size
      PROVE  File!Next
  <2> DEFINE k == Least(n, size - offset)
  <2>1. Outcome(n).data = [j \in 1 .. k |-> offset + j - 1] /\ Outcome(n).offset = offset + k
    BY <1>1, OutcomeExact
  <2>2. got' = [j \in 1 .. k |-> offset + j - 1] /\ offset' = offset + k /\ size' = size
    BY <1>1, <2>1 DEF Became
  <2>3. File!Read(n)
    BY <2>2 DEF File!Read, File!Least, Least
  <2> QED BY <2>3 DEF File!Next
<1>2. ASSUME NEW n \in Reads, fs_read(n) PROVE File!Next
  <2>1. n \in Nat \ {0} /\ (n <= clbytes \/ n >= size)
    BY FileAssumption DEF FileInv, FileTypeOK, ReadsStayInside
  <2> QED BY <1>1, <1>2, <2>1 DEF fs_read, file
<1>3. CASE FullBegin
  BY <1>3 DEF FullBegin, file
<1>4. ASSUME FullStep PROVE File!Next
  <2>1. chunk \in Nat \ {0} /\ (chunk <= clbytes \/ chunk >= size) /\ chunk \in Chunks
    BY FileAssumption DEF FileInv, FileTypeOK, ReadsStayInside
  <2>2. Became(Outcome(chunk)) /\ UNCHANGED size
    BY <1>4 DEF FullStep, file
  <2> QED BY <1>1, <2>1, <2>2
<1>5. CASE UNCHANGED filevars
  BY <1>5 DEF filevars, file
<1> QED BY <1>2, <1>3, <1>4, <1>5 DEF FileNext

(* A file read through clusters, in pieces of any sizes that stay inside, is read as one
   sequence of bytes: fat_read implements AbstractFile. *)
THEOREM FileRefinement ==
    ASSUME WholeChains, ReadsStayInside
    PROVE  FileSpec => ImplementsFile
<1>1. FileInit => File!Init
  BY DEF FileInit, File!Init
<1>2. FileInv /\ [FileNext]_filevars => [File!Next]_<<size, offset, got>>
  BY FileStepRefines
<1> QED BY <1>1, <1>2, FileInvariance, PTL DEF FileSpec, ImplementsFile, File!Spec
----------------------------------------------------------------------------
(***************************************************************************)
(* FatVolume again, for every volume that mkfs.fat and mcopy make: a path  *)
(* opens what the tree has there.  Sectors are laid out and read in        *)
(* pieces, so first comes what pieces of one length make when they are put *)
(* together; then the root and the clusters of an item, read as parts of   *)
(* what they hold; then searching and listing; last the machine.           *)
(***************************************************************************)

\* Quotient and remainder of what is put together from them.
LEMMA Divides ==
    ASSUME NEW q \in Nat, NEW m \in Nat \ {0}, NEW w \in 0 .. m - 1
    PROVE  (q * m + w) \div m = q /\ (q * m + w) % m = w
<1>1. PICK y \in Nat : y = q * m
  OBVIOUS
<1>2. PICK a \in Nat : a = y + w
  BY <1>1
<1>3. (q * m + w) \div m = q
  BY QuotientIs
<1>4. a \div m = q
  BY <1>1, <1>2, <1>3
<1>5. PICK v \in Nat : v = a % m /\ a = (a \div m) * m + v
  BY <1>2, Quotient
<1>6. v = w
  BY <1>1, <1>2, <1>4, <1>5
<1> QED BY <1>1, <1>2, <1>3, <1>5, <1>6

\* A position in n pieces of length m: in which piece, and where in it.
LEMMA PositionIn ==
    ASSUME NEW n \in Nat, NEW m \in Nat \ {0}, NEW x \in 1 .. n * m
    PROVE  /\ (x - 1) \div m \in 0 .. n - 1 /\ (x - 1) % m \in 0 .. m - 1
           /\ x = ((x - 1) \div m) * m + ((x - 1) % m) + 1
<1> DEFINE q == (x - 1) \div m
           w == (x - 1) % m
<1>1. n * m \in Nat
  OBVIOUS
<1>2. x - 1 \in Nat /\ x <= n * m
  BY <1>1
<1>3. q \in Nat /\ w \in 0 .. m - 1 /\ q * m \in Nat /\ x - 1 = q * m + w
  BY <1>2, Quotient
<1> HIDE DEF q, w
<1>4. q * m < n * m
  <2>1. PICK y \in Nat : y = q * m
    BY <1>3
  <2>2. PICK z \in Nat : z = n * m
    BY <1>1
  <2>3. y < z
    BY <1>2, <1>3, <2>1, <2>2
  <2> QED BY <2>1, <2>2, <2>3
<1>5. q < n
  BY <1>3, <1>4, MultipleOrder
<1>6. x = q * m + w + 1
  <2>1. PICK y \in Nat : y = q * m
    BY <1>3
  <2>2. x = y + w + 1
    BY <1>2, <1>3, <2>1
  <2> QED BY <2>1, <2>2
<1>7. q \in 0 .. n - 1 /\ w \in 0 .. m - 1 /\ x = q * m + w + 1
  BY <1>3, <1>5, <1>6
<1> QED BY <1>7 DEF q, w

\* A piece's place in n of them.
LEMMA PlaceOf ==
    ASSUME NEW n \in Nat, NEW m \in Nat, NEW k \in 1 .. n, NEW j \in 1 .. m
    PROVE  (k - 1) * m + j \in 1 .. n * m
<1>1. m \in Nat \ {0} /\ k - 1 \in Nat /\ k - 1 < n
  OBVIOUS
<1>2. (k - 1) * m \in Nat /\ (k - 1) * m + m <= n * m /\ n * m \in Nat
  BY <1>1, MultipleOrder
<1> DEFINE y == (k - 1) * m
           z == n * m
<1>3. y \in Nat /\ y + m <= z /\ z \in Nat
  BY <1>2
<1> HIDE DEF y, z
<1>4. y + j \in 1 .. z
  BY <1>3
<1> QED BY <1>4 DEF y, z

\* r is n pieces of length m one behind the other.
Flattens(r, B, S, n, m) ==
    /\ r \in Seq(S) /\ Len(r) = n * m
    /\ \A k \in 1 .. n, j \in 1 .. m : r[(k - 1) * m + j] = B[k][j]

\* What FlattenSeq makes of pieces that are all of one length.
LEMMA Flattened ==
    ASSUME NEW S, NEW n \in Nat, NEW m \in Nat, NEW B \in [1 .. n -> Seq(S)],
           \A k \in 1 .. n : Len(B[k]) = m
    PROVE  Flattens(FlattenSeq(B), B, S, n, m)
<1>0. Len(B) = n
  OBVIOUS
<1> DEFINE Is(f, k) == \A i \in 1 .. k : f[i] = IF i = 1 THEN B[i] ELSE f[i - 1] \o B[i]
           All(f) == f = [i \in 1 .. Len(B) |-> IF i = 1 THEN B[i] ELSE f[i - 1] \o B[i]]
           f == CHOOSE f : All(f)
<1>1. CASE n = 0
  <2>1. FlattenSeq(B) = B /\ B = <<>>
    BY <1>0, <1>1 DEF FlattenSeq
  <2>2. 0 * m = 0 /\ 1 .. 0 = {}
    OBVIOUS
  <2> QED BY <1>1, <2>1, <2>2 DEF Flattens
<1>2. CASE n # 0
  <2> DEFINE Solves(g, k) == g = [i \in 1 .. k |-> IF i = 1 THEN B[i] ELSE g[i - 1] \o B[i]]
             P == {k \in 0 .. n : \E g : Solves(g, k)}
  <2>1. 0 \in P
    <3> DEFINE e == [i \in 1 .. 0 |-> B[i]]
    <3>1. Solves(e, 0)
      OBVIOUS
    <3>2. 0 \in 0 .. n
      OBVIOUS
    <3> HIDE DEF e, Solves
    <3> QED BY <3>1, <3>2
  <2>2. ASSUME NEW k \in 0 .. n - 1, k \in P PROVE k + 1 \in P
    <3>1. PICK g : Solves(g, k)
      <4> HIDE DEF Solves
      <4> QED BY <2>2
    <3> DEFINE h == [i \in 1 .. k + 1 |-> IF i = 1 THEN B[i] ELSE g[i - 1] \o B[i]]
    <3>2. ASSUME NEW i \in 1 .. k PROVE h[i] = g[i]
      <4>1. g[i] = IF i = 1 THEN B[i] ELSE g[i - 1] \o B[i]
        BY <3>1, Zenon
      <4>2. i \in 1 .. k + 1
        OBVIOUS
      <4> HIDE DEF Solves
      <4> QED BY <4>1, <4>2, Zenon
    <3>3. ASSUME NEW i \in 1 .. k + 1 PROVE h[i] = IF i = 1 THEN B[i] ELSE h[i - 1] \o B[i]
      <4>1. i # 1 => i - 1 \in 1 .. k
        OBVIOUS
      <4>2. i # 1 => h[i - 1] = g[i - 1]
        <5> HIDE DEF h
        <5> QED BY <3>2, <4>1
      <4> QED BY <4>2
    <3>4. Solves(h, k + 1)
      BY <3>3
    <3>5. k + 1 \in 0 .. n
      OBVIOUS
    <3> HIDE DEF h, Solves
    <3> QED BY <3>4, <3>5
  <2> HIDE DEF P
  <2>3. n \in P
    <3>1. \A k \in 0 .. n : k \in P
      BY <2>1, <2>2, Upwards
    <3> QED BY <3>1
  <2>4. \E g : All(g)
    <3>1. PICK g : Solves(g, n)
      <4> HIDE DEF Solves
      <4> QED BY <2>3 DEF P
    <3>2. All(g)
      BY <1>0, <3>1
    <3> HIDE DEF All
    <3> QED BY <3>2
  <2>5. All(f)
    <3> HIDE DEF All
    <3> QED BY <2>4
  <2>51. \A i \in 1 .. Len(B) : f[i] = IF i = 1 THEN B[i] ELSE f[i - 1] \o B[i]
    BY <2>5, Zenon
  <2>6. FlattenSeq(B) = f[n]
    BY <1>0, <1>2 DEF FlattenSeq
  <2> HIDE DEF f
  <2> DEFINE Good(k) ==
                 /\ f[k] \in Seq(S) /\ Len(f[k]) = k * m
                 /\ \A i \in 1 .. k, j \in 1 .. m : f[k][(i - 1) * m + j] = B[i][j]
             Q == {k \in 0 .. n : k = 0 \/ Good(k)}
  <2>7. 0 \in Q
    OBVIOUS
  <2>8. ASSUME NEW k \in 0 .. n - 1, k \in Q PROVE k + 1 \in Q
    <3>1. k + 1 \in 1 .. n /\ k \in Nat
      OBVIOUS
    <3>2. B[k + 1] \in Seq(S) /\ Len(B[k + 1]) = m
      BY <3>1
    <3>3. CASE k = 0
      <4>1. f[1] = B[1]
        BY <1>0, <2>5, <3>1, <3>3
      <4>2. 1 * m = m /\ \A j \in 1 .. m : (1 - 1) * m + j = j
        OBVIOUS
      <4>3. \A i \in 1 .. 1 : i = 1
        OBVIOUS
      <4>4. Good(1)
        BY <3>2, <3>3, <4>1, <4>2, <4>3
      <4> HIDE DEF Good
      <4> QED BY <3>1, <3>3, <4>4
    <3>4. CASE k # 0
      <4>1. f[k + 1] = f[k] \o B[k + 1]
        <5>1. PICK z \in 1 .. Len(B) : z = k + 1 /\ z # 1 /\ z - 1 = k
          BY <1>0, <3>1, <3>4
        <5>2. f[z] = IF z = 1 THEN B[z] ELSE f[z - 1] \o B[z]
          BY <2>51, Zenon
        <5>3. f[z] = f[z - 1] \o B[z]
          BY <5>1, <5>2, Zenon
        <5> QED BY <5>1, <5>3, Zenon
      <4>2. Good(k)
        BY <2>8, <3>4
      <4>3. PICK y \in Nat : y = k * m
        BY <3>1
      <4>4. (k + 1) * m = y + m
        BY <3>1, <4>3
      <4>5. f[k] \in Seq(S) /\ Len(f[k]) = y
        BY <4>2, <4>3
      <4>6. /\ f[k + 1] \in Seq(S) /\ Len(f[k + 1]) = y + m
            /\ \A x \in 1 .. y : f[k + 1][x] = f[k][x]
            /\ \A j \in 1 .. m : f[k + 1][y + j] = B[k + 1][j]
        <5> DEFINE a == f[k]
                   b == B[k + 1]
        <5>1. a \in Seq(S) /\ b \in Seq(S) /\ Len(a) = y /\ Len(b) = m
          BY <3>2, <4>5
        <5> HIDE DEF a, b
        <5>2. /\ a \o b \in Seq(S) /\ Len(a \o b) = y + m
              /\ \A x \in 1 .. y : (a \o b)[x] = a[x]
              /\ \A j \in 1 .. m : (a \o b)[y + j] = b[j]
          <6>1. a \o b \in Seq(S) /\ Len(a \o b) = y + m
            BY <5>1, ConcatProperties
          <6>2. ASSUME NEW x \in 1 .. y PROVE (a \o b)[x] = a[x]
            BY <5>1
          <6>3. ASSUME NEW j \in 1 .. m PROVE (a \o b)[y + j] = b[j]
            <7>1. y + j \in 1 .. Len(a) + Len(b) /\ y + j > Len(a) /\ y + j - Len(a) = j
              <8>1. Len(a) = y /\ Len(b) = m /\ y \in Nat /\ m \in Nat /\ j \in Nat /\ j >= 1 /\ j <= m
                BY <5>1
              <8> QED BY <8>1
            <7>2. \A i \in 1 .. Len(a) + Len(b) :
                      (a \o b)[i] = IF i <= Len(a) THEN a[i] ELSE b[i - Len(a)]
              BY <5>1, ConcatProperties
            <7> QED BY <5>1, <7>1, <7>2
          <6> QED BY <6>1, <6>2, <6>3
        <5> QED BY <4>1, <5>2 DEF a, b
      <4>7. ASSUME NEW i \in 1 .. k + 1, NEW j \in 1 .. m
            PROVE  f[k + 1][(i - 1) * m + j] = B[i][j]
        <5>1. CASE i = k + 1
          <6>1. (i - 1) * m + j = y + j
            BY <4>3, <5>1
          <6> QED BY <4>6, <5>1, <6>1
        <5>2. CASE i # k + 1
          <6>1. i \in 1 .. k
            BY <5>2
          <6>2. (i - 1) * m + j \in 1 .. y
            BY <3>1, <4>3, <6>1, PlaceOf
          <6>3. f[k][(i - 1) * m + j] = B[i][j]
            BY <4>2, <6>1
          <6> QED BY <4>6, <6>2, <6>3
        <5> QED BY <5>1, <5>2
      <4>8. Good(k + 1)
        BY <4>4, <4>6, <4>7
      <4> HIDE DEF Good
      <4> QED BY <3>1, <4>8
    <3> QED BY <3>3, <3>4
  <2> HIDE DEF Q
  <2>9. n \in Q
    <3>1. \A k \in 0 .. n : k \in Q
      BY <2>7, <2>8, Upwards
    <3> QED BY <3>1
  <2> QED BY <1>2, <2>6, <2>9 DEF Q, Flattens
<1> QED BY <1>1, <1>2

----------------------------------------------------------------------------
(* What is read of a volume. *)

\* What is read of a list of items, and of an item's clusters, without end.
DirOf(items) ==
    [x \in Nat \ {0} |-> IF x <= Len(items) THEN EntryOf(items[x]) ELSE Free]
Laid(i) == IF i.kind = "dir" THEN DirOf(i.list) ELSE [x \in Nat \ {0} |-> Junk]

\* m of the slots of F, behind the first ones.
Part(F, first, m) == [j \in 1 .. m |-> F[first + j]]

\* n parts of length m one behind the other are a part.
PartsJoin(F, first, n, m) ==
    FlattenSeq([k \in 1 .. n |-> Part(F, first + (k - 1) * m, m)]) = Part(F, first, n * m)

LEMMA PartsOfPart ==
    ASSUME NEW F, DOMAIN F = Nat \ {0}, F = [x \in Nat \ {0} |-> F[x]],
           NEW first \in Nat, NEW n \in Nat, NEW m \in Nat \ {0}
    PROVE  PartsJoin(F, first, n, m)
<1> DEFINE S == {F[x] : x \in Nat \ {0}}
           B == [k \in 1 .. n |-> Part(F, first + (k - 1) * m, m)]
<1>0. F \in [Nat \ {0} -> S]
  OBVIOUS
<1> HIDE DEF S
<1>1. ASSUME NEW k \in 1 .. n PROVE first + (k - 1) * m \in Nat
  <2>1. k - 1 \in Nat
    OBVIOUS
  <2>2. PICK y \in Nat : y = (k - 1) * m
    BY <2>1
  <2>3. first + y \in Nat
    OBVIOUS
  <2> QED BY <2>2, <2>3
<1>2. ASSUME NEW y \in Nat PROVE Part(F, y, m) \in Seq(S) /\ Len(Part(F, y, m)) = m
  <2>1. \A j \in 1 .. m : y + j \in Nat \ {0}
    OBVIOUS
  <2> QED BY <1>0, <2>1 DEF Part
<1>3. B \in [1 .. n -> Seq(S)] /\ \A k \in 1 .. n : Len(B[k]) = m
  BY <1>1, <1>2
<1>31. \A k \in 1 .. n : B[k] = Part(F, first + (k - 1) * m, m)
  OBVIOUS
<1> HIDE DEF B
<1>4. /\ FlattenSeq(B) \in Seq(S) /\ Len(FlattenSeq(B)) = n * m
      /\ \A k \in 1 .. n, j \in 1 .. m : FlattenSeq(B)[(k - 1) * m + j] = B[k][j]
  <2>1. m \in Nat
    OBVIOUS
  <2>2. Flattens(FlattenSeq(B), B, S, n, m)
    BY <1>3, <2>1, Flattened
  <2> QED BY <2>2 DEF Flattens
<1>5. ASSUME NEW x \in 1 .. n * m PROVE FlattenSeq(B)[x] = F[first + x]
  <2>1. PICK q \in 0 .. n - 1 : q = (x - 1) \div m
    BY PositionIn
  <2>2. PICK w \in 0 .. m - 1 : w = (x - 1) % m
    BY PositionIn
  <2>3. x = q * m + w + 1
    BY <2>1, <2>2, PositionIn
  <2>4. q + 1 \in 1 .. n /\ w + 1 \in 1 .. m /\ q + 1 - 1 = q
    OBVIOUS
  <2>5. PICK y \in Nat : y = q * m
    OBVIOUS
  <2>6. FlattenSeq(B)[y + (w + 1)] = B[q + 1][w + 1]
    <3>1. PICK k \in 1 .. n : k = q + 1
      BY <2>4
    <3>2. PICK j \in 1 .. m : j = w + 1
      BY <2>4
    <3>3. FlattenSeq(B)[(k - 1) * m + j] = B[k][j]
      BY <1>4, Zenon
    <3>4. (k - 1) * m + j = y + (w + 1)
      BY <2>4, <2>5, <3>1, <3>2
    <3> QED BY <3>1, <3>2, <3>3, <3>4
  <2>7. B[q + 1] = Part(F, first + y, m)
    <3>1. PICK k \in 1 .. n : k = q + 1
      BY <2>4
    <3>2. B[k] = Part(F, first + (k - 1) * m, m)
      BY <1>31, Zenon
    <3>3. k - 1 = q
      BY <2>4, <3>1
    <3> QED BY <2>5, <3>1, <3>2, <3>3
  <2>8. Part(F, first + y, m)[w + 1] = F[first + y + (w + 1)]
    BY <2>4 DEF Part
  <2>9. x = y + (w + 1) /\ first + y + (w + 1) = first + x
    BY <2>3, <2>5
  <2> QED BY <2>6, <2>7, <2>8, <2>9
<1>6. FlattenSeq(B) = [x \in 1 .. n * m |-> F[first + x]]
  <2> DEFINE A == FlattenSeq(B)
  <2>1. A \in Seq(S) /\ Len(A) = n * m /\ \A x \in 1 .. n * m : A[x] = F[first + x]
    BY <1>4, <1>5
  <2>2. DOMAIN A = 1 .. n * m
    <3> HIDE DEF A
    <3> QED BY <2>1
  <2>3. A = [x \in 1 .. n * m |-> A[x]]
    <3> HIDE DEF A
    <3> QED BY <2>1, <2>2
  <2> HIDE DEF A
  <2>4. A = [x \in 1 .. n * m |-> F[first + x]]
    BY <2>1, <2>3
  <2> QED BY <2>4 DEF A
<1> QED BY <1>6 DEF Part, PartsJoin, B

\* The sector of the root directory and the number of its sectors, with 32 bytes to an entry.
LEMMA RootPlace ==
    ASSUME GeometryMade
    PROVE  /\ RootSectors \in Nat /\ NrRootDirSectors = RootSectors
           /\ volume.fats * volume.fatSectors \in Nat
           /\ RootDirSector = volume.reserved + volume.fats * volume.fatSectors
           /\ DataStartSector = volume.reserved + volume.fats * volume.fatSectors + RootSectors
<1> DEFINE r == volume.rootEntries
           p == PerSector
           a == r + p - 1
           q == a \div p
           w == a % p
<1>1. r \in Nat /\ p \in Nat \ {0} /\ volume.reserved \in Nat
  BY VolAssumption DEF GeometryMade
<1>2. volume.fats * volume.fatSectors \in Nat
  BY DEF GeometryMade
<1>3. q \in Nat /\ w \in 0 .. p - 1 /\ a = q * p + w
  <2>1. a \in Nat
    BY <1>1
  <2> HIDE DEF a, p
  <2> QED BY <1>1, <2>1, Quotient
<1>4. (r * 32) + (32 * p - 1) = q * (32 * p) + (32 * w + 31)
  <2> HIDE DEF q, w
  <2>1. PICK y \in Int : y = q * p
    BY <1>1, <1>3
  <2>2. q * (32 * p) = 32 * y
    BY <1>1, <1>3, <2>1
  <2>3. r + p - 1 = y + w
    BY <1>3, <2>1
  <2> HIDE DEF r, p
  <2> QED BY <1>1, <1>3, <2>2, <2>3
<1>5. (q * (32 * p) + (32 * w + 31)) \div (32 * p) = q
  <2> HIDE DEF q, w, p
  <2>1. 32 * p \in Nat \ {0} /\ 32 * w + 31 \in 0 .. 32 * p - 1
    BY <1>1, <1>3
  <2> QED BY <1>3, <2>1, QuotientIs
<1>6. NrRootDirSectors = ((r * 32) + (32 * p - 1)) \div (32 * p)
  BY DEF NrRootDirSectors
<1>7. RootSectors = q
  BY DEF RootSectors
<1> HIDE DEF q, w, r, p, a
<1>8. NrRootDirSectors = q
  BY <1>4, <1>5, <1>6
<1> QED BY <1>1, <1>2, <1>3, <1>7, <1>8 DEF RootDirSector, DataStartSector

\* The root directory is read as it was laid out.
LEMMA RootRead ==
    ASSUME WellMade
    PROVE  RootDirectory = Part(DirOf(volume.root), 0, RootSectors * PerSector)
<1> DEFINE F == DirOf(volume.root)
           root == volume.reserved + volume.fats * volume.fatSectors
           n == RootSectors
           B == [k \in 1 .. n |-> Sector((volume.start + RootDirSector) - volume.start + k - 1)]
<1>1. /\ n \in Nat /\ NrRootDirSectors = n /\ RootDirSector = root
      /\ root \in Nat /\ volume.reserved \in Nat /\ volume.start \in Nat /\ volume.reserved <= root
      /\ PerSector \in Nat \ {0} /\ Len(volume.root) \in Nat
  <2>1. volume.reserved \in Nat /\ volume.start \in Nat /\ PerSector \in Nat \ {0} /\ Len(volume.root) \in Nat
    BY VolAssumption DEF WellMade, GeometryMade, ListMade
  <2>2. volume.fats * volume.fatSectors \in Nat
    BY RootPlace DEF WellMade
  <2> QED BY <2>1, <2>2, RootPlace DEF WellMade
<1>2. DOMAIN F = Nat \ {0} /\ F = [x \in Nat \ {0} |-> F[x]]
  BY DEF DirOf
<1>3. ASSUME NEW k \in 1 .. n PROVE B[k] = Part(F, 0 + (k - 1) * PerSector, PerSector)
  <2> DEFINE s == (volume.start + RootDirSector) - volume.start + k - 1
  <2>1. s = root + (k - 1) /\ ~(s < volume.reserved) /\ ~(s < root) /\ s < root + n /\ s - root = k - 1
    <3> HIDE DEF root, n
    <3> QED BY <1>1
  <2>2. Sector(s) = SlotsOf(volume.root, (s - root) * PerSector)
    <3> HIDE DEF s
    <3> QED BY <2>1 DEF Sector
  <2>3. PICK y \in Nat : y = (k - 1) * PerSector
    <3>1. k - 1 \in Nat
      OBVIOUS
    <3> QED BY <1>1, <3>1
  <2>4. SlotsOf(volume.root, y) = Part(F, y, PerSector)
    <3>1. ASSUME NEW j \in 1 .. PerSector
          PROVE  y + j \in Nat \ {0} /\ F[y + j] = IF y + j <= Len(volume.root) THEN EntryOf(volume.root[y + j]) ELSE Free
      BY <1>1 DEF DirOf
    <3> HIDE DEF F
    <3> QED BY <3>1 DEF SlotsOf, Part
  <2>5. B[k] = Sector(s)
    OBVIOUS
  <2>6. B[k] = SlotsOf(volume.root, y) /\ 0 + (k - 1) * PerSector = y
    <3> HIDE DEF B, s, root
    <3> QED BY <2>1, <2>2, <2>3, <2>5
  <2> HIDE DEF B, F
  <2> QED BY <2>4, <2>6
<1>4. B = [k \in 1 .. n |-> Part(F, 0 + (k - 1) * PerSector, PerSector)]
  BY <1>3
<1>5. RootDirectory = FlattenSeq(B)
  <2> HIDE DEF n
  <2> QED BY <1>1 DEF RootDirectory, DriveRead
<1> HIDE DEF B, F, n
<1>6. FlattenSeq(B) = Part(F, 0, n * PerSector)
  <2>1. 0 \in Nat
    OBVIOUS
  <2>2. n \in Nat /\ PerSector \in Nat \ {0}
    BY <1>1
  <2>3. PartsJoin(F, 0, n, PerSector)
    BY <1>2, <2>1, <2>2, PartsOfPart
  <2> QED BY <1>4, <2>3 DEF PartsJoin
<1> QED BY <1>5, <1>6 DEF F, n

\* A cluster is read as the part of its item that lies there.
LEMMA ClusterRead ==
    ASSUME WellMade, NEW i \in Items, NEW l \in 1 .. Len(i.chain)
    PROVE  read_cluster(i.chain[l])
               = Part(Laid(i), (l - 1) * (volume.spc * PerSector), volume.spc * PerSector)
<1> DEFINE F == Laid(i)
           c == i.chain[l]
           data == DataStartSector
           spc == volume.spc
           first == ((l - 1) * spc) * PerSector
           B == [k \in 1 .. spc |-> Sector((volume.start + sector_of_cluster(c)) - volume.start + k - 1)]
<1>1. /\ spc \in Nat \ {0} /\ PerSector \in Nat \ {0} /\ volume.start \in Nat /\ volume.reserved \in Nat
      /\ ItemMade(i) /\ c \in Nat /\ c >= 2 /\ l \in Nat /\ l >= 1
  <2>1. ItemMade(i)
    BY DEF WellMade
  <2>2. c \in 2 .. FatClusterEnd /\ Len(i.chain) \in Nat
    BY <2>1 DEF ItemMade, ChainMade
  <2> QED BY <2>1, <2>2, VolAssumption DEF WellMade, GeometryMade
<1>2. /\ RootSectors \in Nat /\ volume.fats * volume.fatSectors \in Nat
      /\ data = volume.reserved + volume.fats * volume.fatSectors + RootSectors
  BY RootPlace DEF WellMade
<1>3. first \in Nat /\ first = (l - 1) * (spc * PerSector) /\ (l - 1) * spc \in Nat
  <2>1. l - 1 \in Nat
    BY <1>1
  <2> HIDE DEF spc
  <2>2. (l - 1) * spc \in Nat
    BY <1>1, <2>1
  <2>3. PICK e \in Nat : e = l - 1
    BY <2>1
  <2>4. (e * spc) * PerSector = e * (spc * PerSector) /\ (e * spc) * PerSector \in Nat
    BY <1>1
  <2> QED BY <2>2, <2>3, <2>4
<1>4. DOMAIN F = Nat \ {0} /\ F = [x \in Nat \ {0} |-> F[x]]
  BY DEF Laid, DirOf
<1>5. ASSUME NEW k \in 1 .. spc PROVE B[k] = Part(F, first + (k - 1) * PerSector, PerSector)
  <2> DEFINE s == (volume.start + sector_of_cluster(c)) - volume.start + k - 1
             u == s - data
  <2>1. k - 1 \in 0 .. spc - 1 /\ k - 1 \in Nat
    BY <1>1
  <2>2. PICK y \in Nat : y = (c - 2) * spc
    <3>1. c - 2 \in Nat
      BY <1>1
    <3> QED BY <1>1, <3>1
  <2>3. s = y + (k - 1) + data /\ u = y + (k - 1) /\ data \in Nat
    <3>1. sector_of_cluster(c) = y + data
      BY <2>2 DEF sector_of_cluster
    <3>2. data \in Nat
      BY <1>1, <1>2
    <3> HIDE DEF data
    <3> QED BY <1>1, <2>1, <3>1, <3>2, SMTT(30)
  <2>4. u \div spc = c - 2 /\ u % spc = k - 1
    <3>1. c - 2 \in Nat /\ k - 1 \in 0 .. spc - 1 /\ u = (c - 2) * spc + (k - 1)
      <4>1. c - 2 \in Nat /\ k - 1 \in 0 .. spc - 1
        BY <1>1, <2>1
      <4> HIDE DEF u
      <4>2. u = y + (k - 1)
        BY <2>3
      <4> QED BY <2>2, <4>1, <4>2
    <3>2. PICK e \in Nat : e = c - 2
      BY <3>1
    <3>3. PICK w \in 0 .. spc - 1 : w = k - 1
      BY <3>1
    <3> HIDE DEF u, spc, c
    <3>4. (e * spc + w) \div spc = e /\ (e * spc + w) % spc = w
      BY <1>1, Divides
    <3>5. u = e * spc + w
      BY <3>1, <3>2, <3>3
    <3> QED BY <3>2, <3>3, <3>4, <3>5
  <2>5. Sector(s) = DataSector(c, k - 1)
    <3> DEFINE fats == volume.fats * volume.fatSectors
    <3>0. fats \in Nat
      BY <1>2
    <3>1. data = volume.reserved + fats + RootSectors
      BY <1>2
    <3> HIDE DEF fats, s, data
    <3>2. /\ ~(s < volume.reserved) /\ ~(s < volume.reserved + fats)
          /\ ~(s < volume.reserved + fats + RootSectors)
      <4>1. PICK e \in Nat : e = y + (k - 1)
        BY <2>1
      <4>2. s = e + data
        BY <2>3, <4>1
      <4>3. volume.reserved \in Nat /\ RootSectors \in Nat
        BY <1>1, <1>2
      <4> QED BY <3>0, <3>1, <4>2, <4>3
    <3>3. Sector(s) = DataSector((s - (volume.reserved + fats + RootSectors)) \div spc + 2,
                                 (s - (volume.reserved + fats + RootSectors)) % spc)
      BY <3>2 DEF Sector, fats
    <3>4. c - 2 + 2 = c
      BY <1>1
    <3>5. s - (volume.reserved + fats + RootSectors) = s - data
      BY <3>1
    <3> HIDE DEF c, spc
    <3> QED BY <2>4, <3>3, <3>4, <3>5
  <2>6. DataSector(c, k - 1) =
            IF i.kind = "dir" THEN SlotsOf(i.list, ((l - 1) * spc + (k - 1)) * PerSector)
            ELSE [j \in 1 .. PerSector |-> Junk]
    <3>1. c \in ToSet(i.chain)
      BY <1>1 DEF ToSet, ItemMade, ChainMade
    <3>2. \A o \in Items : c \in ToSet(o.chain) => o = i
      BY <3>1 DEF WellMade
    <3>3. {o \in Items : c \in ToSet(o.chain)} = {i}
      BY <3>1, <3>2
    <3> DEFINE owners == {o \in Items : c \in ToSet(o.chain)}
               own == CHOOSE o \in owners : TRUE
               num == CHOOSE n \in DOMAIN own.chain : own.chain[n] = c
    <3>4. own = i /\ owners # {}
      BY <3>3
    <3>5. num = l
      <4>1. DOMAIN i.chain = 1 .. Len(i.chain)
        BY <1>1 DEF ItemMade, ChainMade
      <4>2. \A n \in 1 .. Len(i.chain) : i.chain[n] = c => n = l
        BY <1>1 DEF ItemMade, ChainMade
      <4>3. \E n \in DOMAIN own.chain : own.chain[n] = c
        BY <3>4, <4>1
      <4>4. num \in DOMAIN own.chain /\ own.chain[num] = c
        BY <4>3
      <4> QED BY <3>4, <4>1, <4>2, <4>4
    <3>6. DataSector(c, k - 1) =
              IF owners # {} /\ own.kind = "dir"
              THEN SlotsOf(own.list, ((num - 1) * volume.spc + (k - 1)) * PerSector)
              ELSE [j \in 1 .. PerSector |-> Junk]
      BY Zenon DEF DataSector
    <3> HIDE DEF owners, own, num, c
    <3> QED BY <3>4, <3>5, <3>6
  <2>7. PICK z \in Nat : z = first + (k - 1) * PerSector
    <3>1. (k - 1) * PerSector \in Nat
      BY <1>1, <2>1
    <3>2. PICK v \in Nat : v = (k - 1) * PerSector
      BY <3>1
    <3>3. first + v \in Nat
      BY <1>3
    <3> QED BY <3>2, <3>3
  <2>8. ((l - 1) * spc + (k - 1)) * PerSector = z
    <3>1. PICK a \in Nat : a = (l - 1) * spc
      BY <1>3
    <3>2. PICK b \in Nat : b = k - 1
      BY <2>1
    <3>3. (a + b) * PerSector = a * PerSector + b * PerSector
      BY <1>1
    <3> QED BY <2>7, <3>1, <3>2, <3>3
  <2>9. (IF i.kind = "dir" THEN SlotsOf(i.list, z) ELSE [j \in 1 .. PerSector |-> Junk]) = Part(F, z, PerSector)
    <3>1. \A j \in 1 .. PerSector : z + j \in Nat \ {0}
      BY <1>1
    <3>2. CASE i.kind = "dir"
      BY <3>1, <3>2 DEF SlotsOf, Part, Laid, DirOf
    <3>3. CASE i.kind # "dir"
      BY <3>1, <3>3 DEF Part, Laid
    <3> QED BY <3>2, <3>3
  <2>10. B[k] = Sector(s)
    OBVIOUS
  <2> HIDE DEF B, F, s, first, c, spc
  <2> QED BY <2>5, <2>6, <2>7, <2>8, <2>9, <2>10
<1>6. B = [k \in 1 .. spc |-> Part(F, first + (k - 1) * PerSector, PerSector)]
  BY <1>5
<1>7. read_cluster(c) = FlattenSeq(B)
  BY DEF read_cluster, DriveRead
<1> HIDE DEF B, F, first, spc, c
<1>8. FlattenSeq(B) = Part(F, first, spc * PerSector)
  <2>1. spc \in Nat /\ PerSector \in Nat \ {0} /\ first \in Nat
    BY <1>1, <1>3
  <2>2. PartsJoin(F, first, spc, PerSector)
    BY <1>4, <2>1, PartsOfPart
  <2> QED BY <1>6, <2>2 DEF PartsJoin
<1> QED BY <1>3, <1>7, <1>8 DEF F, spc, c


\* What the FAT has for a cluster of an item: the next one, or the mark behind the last.
LEMMA FatNext ==
    ASSUME WellMade, NEW i \in Items, NEW l \in 1 .. Len(i.chain)
    PROVE  next_cluster(i.chain[l]) = IF l = Len(i.chain) THEN volume.mark ELSE i.chain[l + 1]
<1> DEFINE c == i.chain[l]
           p == PerFatSector
           q == c \div p
           w == c % p
           s == (volume.start + FatStartSector + q) - volume.start + 1 - 1
           B == [k \in 1 .. 1 |-> Sector((volume.start + FatStartSector + q) - volume.start + k - 1)]
           r == FlattenSeq(B)
<1>1. /\ p \in Nat \ {0} /\ volume.start \in Nat /\ volume.reserved \in Nat /\ ItemMade(i)
      /\ volume.fats \in Nat \ {0} /\ volume.fatSectors \in Nat \ {0} /\ c \in Nat /\ q < volume.fatSectors
  <2>1. ItemMade(i)
    BY DEF WellMade
  <2>2. c \in 2 .. FatClusterEnd /\ q < volume.fatSectors
    BY <2>1 DEF ItemMade, ChainMade
  <2> QED BY <2>1, <2>2, VolAssumption DEF WellMade, GeometryMade
<1>2. q \in Nat /\ w \in 0 .. p - 1 /\ w \in Nat /\ c = q * p + w
  <2>1. c \in Nat /\ p \in Nat \ {0}
    BY <1>1
  <2> HIDE DEF c, p
  <2>2. q \in Nat /\ w \in 0 .. p - 1 /\ c = q * p + w
    BY <2>1, Quotient
  <2> HIDE DEF q, w
  <2> QED BY <2>1, <2>2
<1>21. w \in 0 .. p - 1 /\ w \in Nat
  BY <1>2
<1>22. w + 1 \in 1 .. p
  <2> HIDE DEF w, p
  <2> QED BY <1>1, <1>21
<1>3. Sector(s) = [j \in 1 .. p |-> FatSlot(q * p + j - 1)]
  <2>1. s = volume.reserved + q
    <3> HIDE DEF q
    <3>1. PICK a \in Nat : a = volume.start
      BY <1>1
    <3>2. PICK b \in Nat : b = FatStartSector /\ b = volume.reserved
      BY <1>1 DEF FatStartSector
    <3>3. q \in Nat
      BY <1>2
    <3>4. (a + b + q) - a + 1 - 1 = b + q
      BY <3>3
    <3> QED BY <3>1, <3>2, <3>4
  <2> DEFINE fats == volume.fats * volume.fatSectors
  <2>2. fats \in Nat /\ volume.fatSectors <= fats
    <3>1. PICK a \in Nat : a = volume.fats - 1
      BY <1>1
    <3>2. PICK m \in Nat : m = volume.fatSectors
      BY <1>1
    <3>3. PICK y \in Nat : y = a * m
      OBVIOUS
    <3>4. (a + 1) * m = y + m
      BY <3>3
    <3>5. a + 1 = volume.fats
      BY <1>1, <3>1
    <3> QED BY <3>2, <3>4, <3>5
  <2>3. q % volume.fatSectors = q
    <3>1. PICK m \in Nat \ {0} : m = volume.fatSectors
      BY <1>1
    <3> HIDE DEF q
    <3>2. q \in 0 .. m - 1 /\ 0 \in Nat
      BY <1>1, <1>2, <3>1
    <3>3. (0 * m + q) % m = q
      BY <3>2, Divides
    <3>4. 0 * m + q = q
      BY <1>2
    <3> QED BY <3>1, <3>3, <3>4
  <2> HIDE DEF s, fats, q, p
  <2>4. ~(s < volume.reserved) /\ s < volume.reserved + fats /\ s - volume.reserved = q
    <3>1. volume.reserved \in Nat /\ volume.fatSectors \in Nat /\ q \in Nat /\ q < volume.fatSectors
      BY <1>1, <1>2
    <3> QED BY <2>1, <2>2, <3>1
  <2>5. Sector(s) = LET f == (s - volume.reserved) % volume.fatSectors
                    IN  [j \in 1 .. PerFatSector |-> FatSlot(f * PerFatSector + j - 1)]
    BY <2>4 DEF Sector, fats
  <2> QED BY <2>3, <2>4, <2>5 DEF p
<1>4. FlattenSeq(B)[w + 1] = B[1][w + 1]
  <2> DEFINE S == {FatSlot(q * p + j - 1) : j \in 1 .. p}
  <2>1. B[1] = Sector(s)
    <3>1. 1 \in 1 .. 1
      OBVIOUS
    <3> HIDE DEF q
    <3> QED BY <3>1
  <2>2. B[1] \in Seq(S) /\ Len(B[1]) = p
    <3> HIDE DEF B, s
    <3>1. B[1] \in [1 .. p -> S]
      BY <1>3, <2>1
    <3> HIDE DEF S, p
    <3> QED BY <1>1, <3>1
  <2>3. B \in [1 .. 1 -> Seq(S)] /\ \A k \in 1 .. 1 : Len(B[k]) = p
    <3>1. B = [k \in 1 .. 1 |-> B[k]]
      OBVIOUS
    <3>2. \A k \in 1 .. 1 : k = 1
      OBVIOUS
    <3> HIDE DEF B, S, p
    <3> QED BY <2>2, <3>1, <3>2
  <2>4. 1 \in Nat /\ p \in Nat
    BY <1>1
  <2> HIDE DEF B, S, p
  <2>5. Flattens(FlattenSeq(B), B, S, 1, p)
    BY <1>1, <2>3, <2>4, Flattened
  <2>6. 1 \in 1 .. 1 /\ w + 1 \in 1 .. p
    BY <1>22
  <2>7. FlattenSeq(B)[(1 - 1) * p + (w + 1)] = B[1][w + 1]
    BY <2>5, <2>6 DEF Flattens
  <2>8. (1 - 1) * p + (w + 1) = w + 1
    BY <1>2, <2>4
  <2> QED BY <2>7, <2>8
<1>5. B[1][w + 1] = FatSlot(c)
  <2>1. B[1] = Sector(s)
    <3>1. 1 \in 1 .. 1
      OBVIOUS
    <3> HIDE DEF q
    <3> QED BY <3>1
  <2>2. w + 1 \in 1 .. p
    BY <1>22
  <2>3. PICK y \in Nat : y = q * p
    BY <1>1, <1>2
  <2>4. q * p + (w + 1) - 1 = c
    <3> HIDE DEF w, q, p, c
    <3> QED BY <1>2, <2>3
  <2> HIDE DEF B, s, w, c
  <2>5. B[1][w + 1] = FatSlot(q * p + (w + 1) - 1)
    BY <1>3, <2>1, <2>2
  <2> QED BY <2>4, <2>5
<1>6. FatSlot(c) = IF l = Len(i.chain) THEN volume.mark ELSE i.chain[l + 1]
  <2> DEFINE own == CHOOSE o \in Items : c \in ToSet(o.chain)
             num == CHOOSE k \in DOMAIN own.chain : own.chain[k] = c
  <2>1. DOMAIN i.chain = 1 .. Len(i.chain)
    BY <1>1 DEF ItemMade, ChainMade
  <2>2. c \in ToSet(i.chain)
    BY <2>1 DEF ToSet
  <2>3. own \in Items /\ c \in ToSet(own.chain)
    BY <2>2
  <2>4. own = i
    BY <2>2, <2>3 DEF WellMade
  <2>5. num = l
    <3>1. \A n \in 1 .. Len(i.chain) : i.chain[n] = c => n = l
      BY <1>1, SMTT(30) DEF ItemMade, ChainMade
    <3>2. num \in DOMAIN own.chain /\ own.chain[num] = c
      BY <2>1, <2>4
    <3> QED BY <2>1, <2>4, <3>1, <3>2
  <2>6. FatSlot(c) = IF num = Len(own.chain) THEN volume.mark ELSE own.chain[num + 1]
    <3>1. \E o \in Items : c \in ToSet(o.chain)
      BY <2>2
    <3> QED BY <3>1, Zenon DEF FatSlot, Following
  <2> HIDE DEF own, num, c
  <2> QED BY <2>4, <2>5, <2>6
<1>7. next_cluster(c) = r[w + 1]
  BY DEF next_cluster, DriveRead
<1> QED BY <1>4, <1>5, <1>6, <1>7

\* The first m of a chain.
Upto(s, m) == [k \in 1 .. (IF m <= Len(s) THEN m ELSE Len(s)) |-> s[k]]

\* One round of read_cluster_chain, of an item's clusters: one more of them, while there are.
LEMMA ChainStep ==
    ASSUME WellMade, NEW i \in Items, i.chain # <<>>, NEW n \in Nat \ {0}
    PROVE  LET cs == Upto(i.chain, n)
           IN  Upto(i.chain, n + 1)
                   = IF cs = <<>> \/ ~ClusterOnDisk(Last(cs)) \/ ~Follows(cs)
                     THEN cs ELSE Append(cs, next_cluster(Last(cs)))
<1> DEFINE s == i.chain
           cs == Upto(s, n)
<1>1. /\ s \in Seq(Nat) /\ Len(s) \in Nat \ {0} /\ DOMAIN s = 1 .. Len(s)
      /\ volume.mark > FatClusterEnd /\ volume.mark \in Nat /\ FatClusterEnd \in Nat
  <2>1. s \in Seq(Nat)
    BY DEF WellMade, ItemMade, ChainMade
  <2>2. Len(s) \in Nat \ {0} /\ DOMAIN s = 1 .. Len(s)
    BY <2>1
  <2> QED BY <2>1, <2>2, VolAssumption DEF WellMade, GeometryMade
<1>2. ASSUME NEW k \in 1 .. Len(s) PROVE s[k] \in 2 .. FatClusterEnd /\ ClusterOnDisk(s[k]) /\ s[k] \in Nat
  <2>1. s[k] \in 2 .. FatClusterEnd /\ ClusterOnDisk(s[k])
    BY DEF WellMade, ItemMade, ChainMade
  <2> QED BY <2>1, <1>1
<1> HIDE DEF s
<1>3. CASE n < Len(s)
  <2>1. n \in 1 .. Len(s) /\ n + 1 \in 1 .. Len(s)
    BY <1>1, <1>3
  <2>2. cs = [k \in 1 .. n |-> s[k]] /\ Upto(s, n + 1) = [k \in 1 .. n + 1 |-> s[k]]
    <3>1. n <= Len(s) /\ n + 1 <= Len(s)
      BY <1>1, <1>3
    <3> QED BY <3>1, Zenon DEF Upto
  <2>3. cs \in Seq(Nat) /\ Len(cs) = n /\ cs # <<>> /\ Last(cs) = s[n]
    <3>1. \A k \in 1 .. n : s[k] \in Nat
      BY <1>1, <1>2, <1>3
    <3> HIDE DEF cs
    <3>2. cs \in Seq(Nat) /\ Len(cs) = n /\ cs[n] = s[n]
      BY <2>2, <3>1
    <3> QED BY <3>2 DEF Last
  <2>4. next_cluster(Last(cs)) = s[n + 1]
    <3>1. n # Len(s)
      BY <1>3
    <3>2. next_cluster(s[n]) = s[n + 1]
      BY <2>1, <3>1, FatNext DEF s
    <3> QED BY <2>3, <3>2
  <2>5. ClusterOnDisk(Last(cs)) /\ Follows(cs)
    <3>1. s[n + 1] \in 2 .. FatClusterEnd
      BY <1>2, <2>1
    <3>2. s[n + 1] > 0 /\ s[n + 1] <= FatClusterEnd
      BY <1>1, <3>1
    <3> HIDE DEF cs
    <3> QED BY <1>2, <2>1, <2>3, <2>4, <3>2 DEF Follows
  <2>6. Append(cs, s[n + 1]) = [k \in 1 .. n + 1 |-> s[k]]
    <3> HIDE DEF cs
    <3>1. s[n + 1] \in Nat
      BY <1>2, <2>1
    <3> DEFINE a == Append(cs, s[n + 1])
               b == [k \in 1 .. n + 1 |-> s[k]]
    <3>2. a \in Seq(Nat) /\ Len(a) = n + 1 /\ a[n + 1] = s[n + 1] /\ \A k \in 1 .. n : a[k] = cs[k]
      BY <2>3, <3>1
    <3>3. \A k \in 1 .. n : cs[k] = s[k]
      BY <2>2
    <3>4. b \in Seq(Nat) /\ Len(b) = n + 1 /\ \A k \in 1 .. n + 1 : b[k] = s[k]
      <4>1. \A k \in 1 .. n + 1 : s[k] \in Nat
        BY <1>1, <1>2, <1>3
      <4> QED BY <4>1
    <3> HIDE DEF a, b
    <3>5. \A k \in 1 .. n + 1 : a[k] = b[k]
      BY <3>2, <3>3, <3>4
    <3>6. a = b
      BY <3>2, <3>4, <3>5, SeqEqual
    <3> QED BY <3>6 DEF a, b
  <2> HIDE DEF cs
  <2>7. Upto(s, n + 1) = Append(cs, next_cluster(Last(cs)))
    BY <2>2, <2>4, <2>6
  <2>8. Upto(s, n + 1) = IF cs = <<>> \/ ~ClusterOnDisk(Last(cs)) \/ ~Follows(cs)
                         THEN cs ELSE Append(cs, next_cluster(Last(cs)))
    BY <2>3, <2>5, <2>7
  <2> QED BY <2>8 DEF cs, s
<1>4. CASE ~(n < Len(s))
  <2>1. cs = s /\ Upto(s, n + 1) = s
    <3>1. cs = [k \in 1 .. Len(s) |-> s[k]] /\ Upto(s, n + 1) = [k \in 1 .. Len(s) |-> s[k]]
      <4>1. /\ (IF n <= Len(s) THEN n ELSE Len(s)) = Len(s)
            /\ (IF n + 1 <= Len(s) THEN n + 1 ELSE Len(s)) = Len(s)
        <5>1. PICK e \in Nat : e = Len(s)
          BY <1>1
        <5>2. e <= n /\ ~(n + 1 <= e) /\ (n <= e => n = e)
          BY <1>4, <5>1
        <5> QED BY <5>1, <5>2
      <4> QED BY <4>1, Zenon DEF Upto
    <3>2. s = [k \in 1 .. Len(s) |-> s[k]]
      BY <1>1
    <3> QED BY <3>1, <3>2
  <2>2. Last(cs) = s[Len(s)] /\ Len(s) \in 1 .. Len(s)
    BY <1>1, <2>1 DEF Last
  <2>3. next_cluster(Last(cs)) = volume.mark
    BY <2>2, FatNext DEF s
  <2>4. ~Follows(cs)
    BY <1>1, <2>3 DEF Follows
  <2> HIDE DEF cs
  <2>5. Upto(s, n + 1) = IF cs = <<>> \/ ~ClusterOnDisk(Last(cs)) \/ ~Follows(cs)
                         THEN cs ELSE Append(cs, next_cluster(Last(cs)))
    BY <2>1, <2>4
  <2> QED BY <2>5 DEF cs, s
<1> QED BY <1>3, <1>4

\* The clusters read from the one in an item's entry are the item's.
LEMMA ChainIs ==
    ASSUME WellMade, NEW i \in Items
    PROVE  Chain(EntryOf(i).cluster) = i.chain
<1> DEFINE s == i.chain
           c == EntryOf(i).cluster
           N == volume.sectors
           Rule(f, n) ==
               IF n = 0 THEN IF c > 0 THEN <<c>> ELSE <<>>
               ELSE LET cs == f[n - 1]
                    IN  IF cs = <<>> \/ ~ClusterOnDisk(Last(cs)) \/ ~Follows(cs)
                        THEN cs ELSE Append(cs, next_cluster(Last(cs)))
           All(f) == f = [n \in 0 .. N |-> Rule(f, n)]
           f == CHOOSE f : All(f)
           g == [n \in 0 .. N |-> Upto(s, n + 1)]
<1>1. s \in Seq(Nat) /\ Len(s) \in Nat /\ N \in Nat /\ Len(s) <= N /\ DOMAIN s = 1 .. Len(s)
  <2>1. s \in Seq(Nat) /\ Len(s) <= N
    BY DEF WellMade, ItemMade, ChainMade
  <2>2. N \in Nat
    BY DEF WellMade, GeometryMade
  <2>3. Len(s) \in Nat /\ DOMAIN s = 1 .. Len(s)
    BY <2>1
  <2> QED BY <2>1, <2>2, <2>3
<1>2. ASSUME NEW n \in 0 .. N PROVE g[n] = Rule(g, n)
  <2>0. g[n] = Upto(s, n + 1)
    OBVIOUS
  <2>1. CASE n = 0
    <3>1. CASE s = <<>>
      <4>1. c = 0 /\ Upto(s, 1) = <<>>
        BY <3>1 DEF EntryOf, Upto
      <4> QED BY <2>0, <2>1, <4>1
    <3>2. CASE s # <<>>
      <4>1. Len(s) >= 1 /\ 1 \in 1 .. Len(s)
        BY <1>1, <3>2
      <4>2. c = s[1]
        BY <1>1, <3>2 DEF EntryOf
      <4>3. s[1] \in 2 .. FatClusterEnd
        BY <4>1 DEF WellMade, ItemMade, ChainMade
      <4>4. Upto(s, 1) = <<s[1]>>
        BY <1>1, <4>1 DEF Upto
      <4> HIDE DEF c, g
      <4> QED BY <2>0, <2>1, <4>2, <4>3, <4>4
    <3> QED BY <3>1, <3>2
  <2>2. CASE n # 0
    <3>1. n - 1 \in 0 .. N /\ n - 1 + 1 = n /\ n \in Nat \ {0}
      BY <1>1, <2>2
    <3>2. g[n - 1] = Upto(s, n)
      BY <3>1
    <3>3. CASE s = <<>>
      <4>1. Upto(s, n) = <<>> /\ Upto(s, n + 1) = <<>>
        BY <3>1, <3>3 DEF Upto
      <4> HIDE DEF g
      <4> QED BY <2>0, <2>2, <3>2, <4>1
    <3>4. CASE s # <<>>
      <4> DEFINE cs == Upto(s, n)
      <4>1. Upto(s, n + 1) = IF cs = <<>> \/ ~ClusterOnDisk(Last(cs)) \/ ~Follows(cs)
                             THEN cs ELSE Append(cs, next_cluster(Last(cs)))
        BY <3>1, <3>4, ChainStep
      <4>2. g[n - 1] = cs
        BY <3>2
      <4> HIDE DEF g, cs, c
      <4> QED BY <2>0, <2>2, <4>1, <4>2
    <3> QED BY <3>3, <3>4
  <2> QED BY <2>1, <2>2
<1>3. All(g)
  <2> HIDE DEF Rule
  <2> QED BY <1>2
<1>4. All(f)
  <2> HIDE DEF All, g
  <2> QED BY <1>3
<1>5. \A n \in 0 .. N : f[n] = Rule(f, n)
  <2> HIDE DEF Rule, f
  <2> QED BY <1>4
<1>6. Chain(c) = f[N]
  BY Zenon DEF Chain
<1> HIDE DEF f, g, c
<1> DEFINE P == {n \in 0 .. N : f[n] = g[n]}
<1>7. 0 \in P
  <2>1. 0 \in 0 .. N
    BY <1>1
  <2> QED BY <1>2, <1>5, <2>1
<1>8. ASSUME NEW n \in 0 .. N - 1, n \in P PROVE n + 1 \in P
  <2>1. n + 1 \in 0 .. N /\ n + 1 - 1 = n /\ n + 1 # 0
    BY <1>1
  <2>2. f[n] = g[n]
    BY <1>8
  <2>3. f[n + 1] = Rule(f, n + 1) /\ g[n + 1] = Rule(g, n + 1)
    BY <1>2, <1>5, <2>1
  <2>4. Rule(f, n + 1) = Rule(g, n + 1)
    BY <2>1, <2>2
  <2> HIDE DEF Rule
  <2> QED BY <2>1, <2>3, <2>4
<1> HIDE DEF P
<1>9. N \in P
  <2>1. \A n \in 0 .. N : n \in P
    BY <1>1, <1>7, <1>8, Upwards
  <2> QED BY <1>1, <2>1
<1>10. f[N] = g[N]
  BY <1>9 DEF P
<1>11. g[N] = Upto(s, N + 1) /\ Upto(s, N + 1) = s
  <2>1. N \in 0 .. N
    BY <1>1
  <2>2. g[N] = Upto(s, N + 1)
    BY <2>1 DEF g
  <2>3. Upto(s, N + 1) = [k \in 1 .. Len(s) |-> s[k]]
    BY <1>1 DEF Upto
  <2>4. s = [k \in 1 .. Len(s) |-> s[k]]
    BY <1>1
  <2> QED BY <2>2, <2>3, <2>4
<1> QED BY <1>6, <1>10, <1>11 DEF c

\* What is in the clusters of an item.
Held(i) == Part(Laid(i), 0, Len(i.chain) * (volume.spc * PerSector))

\* The clusters of an item are on the disk, and read one behind the other.
LEMMA ChainRead ==
    ASSUME WellMade, NEW i \in Items
    PROVE  /\ ChainOnDisk(EntryOf(i).cluster)
           /\ read_cluster_chain(EntryOf(i).cluster) = Held(i)
<1> DEFINE c == EntryOf(i).cluster
           n == Len(i.chain)
           m == volume.spc * PerSector
           F == Laid(i)
<1>1. Chain(c) = i.chain
  BY ChainIs
<1>2. n \in Nat /\ DOMAIN i.chain = 1 .. n /\ m \in Nat \ {0}
  <2>1. i.chain \in Seq(Nat)
    BY DEF WellMade, ItemMade, ChainMade
  <2>2. volume.spc \in Nat \ {0} /\ PerSector \in Nat \ {0}
    BY VolAssumption DEF WellMade, GeometryMade
  <2>3. m \in Nat \ {0}
    <3>1. PICK a \in Nat \ {0} : a = volume.spc
      BY <2>2
    <3>2. PICK b \in Nat \ {0} : b = PerSector
      BY <2>2
    <3>3. a * b \in Nat \ {0}
      OBVIOUS
    <3> QED BY <3>1, <3>2, <3>3
  <2> QED BY <2>1, <2>3
<1>3. ChainOnDisk(c)
  <2>1. \A k \in 1 .. n : ClusterOnDisk(i.chain[k])
    BY DEF WellMade, ItemMade, ChainMade
  <2> HIDE DEF c, n
  <2> QED BY <1>1, <1>2, <2>1 DEF ChainOnDisk
<1>4. ASSUME NEW k \in 1 .. n PROVE read_cluster(i.chain[k]) = Part(F, 0 + (k - 1) * m, m)
  <2>1. read_cluster(i.chain[k]) = Part(F, (k - 1) * m, m)
    BY ClusterRead
  <2>2. PICK y \in Nat : y = (k - 1) * m
    <3>1. k - 1 \in Nat
      BY <1>2
    <3> HIDE DEF m
    <3> QED BY <1>2, <3>1
  <2>3. 0 + y = y
    OBVIOUS
  <2> QED BY <2>1, <2>2, <2>3
<1>5. PartsJoin(F, 0, n, m)
  <2>1. DOMAIN F = Nat \ {0} /\ F = [x \in Nat \ {0} |-> F[x]] /\ 0 \in Nat
    BY DEF Laid, DirOf
  <2> HIDE DEF F, n, m
  <2> QED BY <1>2, <2>1, PartsOfPart
<1>6. read_cluster_chain(c) = Part(F, 0, n * m)
  <2>1. read_cluster_chain(c) = FlattenSeq([k \in 1 .. n |-> read_cluster(i.chain[k])])
    <3> HIDE DEF c, n
    <3> QED BY <1>1, <1>2 DEF read_cluster_chain
  <2>2. [k \in 1 .. n |-> read_cluster(i.chain[k])] = [k \in 1 .. n |-> Part(F, 0 + (k - 1) * m, m)]
    <3> HIDE DEF F, n, m
    <3> QED BY <1>4
  <2> HIDE DEF F, n, m, c
  <2> QED BY <1>5, <2>1, <2>2 DEF PartsJoin
<1> QED BY <1>3, <1>6 DEF Held

----------------------------------------------------------------------------
(* Searching a directory. *)

\* Where a search of the slots may stop: not at one that is neither free nor of the name.
StopHere(part, slots, i) ==
    i = Len(slots) + 1 \/ slots[i].kind = "free" \/ slots[i].name = NameOf(part)

LEMMA StopsFirst ==
    ASSUME NEW part, NEW slots, Len(slots) \in Nat
    PROVE  /\ StopsAt(part, slots) \in 1 .. Len(slots) + 1
           /\ StopHere(part, slots, StopsAt(part, slots))
           /\ \A j \in 1 .. StopsAt(part, slots) - 1 : ~StopHere(part, slots, j)
<1> DEFINE n == Len(slots)
           C == {i \in 1 .. n + 1 : StopHere(part, slots, i)}
           Is(i) == /\ i = Len(slots) + 1 \/ slots[i].kind = "free" \/ slots[i].name = NameOf(part)
                    /\ \A j \in 1 .. i - 1 : slots[j].kind # "free" /\ slots[j].name # NameOf(part)
           a == CHOOSE i \in 1 .. Len(slots) + 1 : Is(i)
<1>1. n + 1 \in C /\ C \in SUBSET Nat
  BY DEF StopHere
<1>2. PICK i \in C : \A j \in C : i <= j
  <2> HIDE DEF C
  <2> QED BY <1>1, LeastNumber
<1>3. Is(i)
  <2>1. ASSUME NEW j \in 1 .. i - 1 PROVE ~StopHere(part, slots, j)
    <3>1. j \in 1 .. n + 1 /\ ~(i <= j)
      BY <1>2
    <3> QED BY <1>2, <3>1
  <2> QED BY <1>2, <2>1 DEF StopHere
<1>4. a \in 1 .. n + 1 /\ Is(a)
  <2>1. i \in 1 .. Len(slots) + 1
    OBVIOUS
  <2> HIDE DEF Is
  <2> QED BY <1>3, <2>1
<1>5. StopsAt(part, slots) = a
  BY Zenon DEF StopsAt
<1> HIDE DEF a
<1>6. ASSUME NEW j \in 1 .. a - 1 PROVE ~StopHere(part, slots, j)
  <2>1. j # n + 1
    BY <1>4
  <2> QED BY <1>4, <2>1 DEF StopHere
<1> QED BY <1>4, <1>5, <1>6 DEF StopHere

\* The entry a search stops at is one of the slots, or the one behind them.
LEMMA StopsIn ==
    ASSUME NEW part, NEW slots, DOMAIN slots = 1 .. Len(slots), Len(slots) \in Nat,
           slots \in Seq({slots[j] : j \in 1 .. Len(slots)}), NEW behind
    PROVE  /\ (slots \o <<behind>>)[StopsAt(part, slots)]
                  = IF StopsAt(part, slots) \in 1 .. Len(slots)
                    THEN slots[StopsAt(part, slots)] ELSE behind
<1> DEFINE S == {slots[j] : j \in 1 .. Len(slots)} \cup {behind}
           a == StopsAt(part, slots)
           n == Len(slots)
<1>1. a \in 1 .. n + 1
  BY StopsFirst
<1>2. slots \in Seq(S) /\ <<behind>> \in Seq(S) /\ Len(<<behind>>) = 1
  OBVIOUS
<1>3. \A x \in 1 .. n + 1 : (slots \o <<behind>>)[x] = IF x <= n THEN slots[x] ELSE <<behind>>[x - n]
  <2>1. \A x \in 1 .. Len(slots) + Len(<<behind>>) :
            (slots \o <<behind>>)[x] = IF x <= Len(slots) THEN slots[x] ELSE <<behind>>[x - Len(slots)]
    <3> HIDE DEF S
    <3> QED BY <1>2, ConcatProperties
  <2> QED BY <2>1
<1> HIDE DEF a
<1>4. CASE a \in 1 .. n
  BY <1>1, <1>3, <1>4 DEF a
<1>5. CASE a \notin 1 .. n
  <2>1. a = n + 1 /\ ~(a <= n) /\ a - n = 1
    BY <1>1, <1>5
  <2>2. (slots \o <<behind>>)[a] = <<behind>>[a - n]
    BY <1>1, <1>3, <2>1
  <2> QED BY <1>5, <2>1, <2>2 DEF a
<1> QED BY <1>4, <1>5

\* No slot and not the entry behind has the name: the search finds nothing.
LEMMA FindsNothing ==
    ASSUME NEW part, NEW slots, DOMAIN slots = 1 .. Len(slots), Len(slots) \in Nat,
           slots \in Seq({slots[j] : j \in 1 .. Len(slots)}), NEW behind,
           behind.kind = "free" \/ behind.name # NameOf(part),
           \A j \in 1 .. Len(slots) : slots[j].kind = "free" \/ slots[j].name # NameOf(part)
    PROVE  FindDirEnt(part, slots, behind) = Free
<1> DEFINE e == (slots \o <<behind>>)[StopsAt(part, slots)]
<1>1. e.kind = "free" \/ e.name # NameOf(part)
  <2>1. CASE StopsAt(part, slots) \in 1 .. Len(slots)
    <3>1. e = slots[StopsAt(part, slots)]
      BY <2>1, StopsIn
    <3> HIDE DEF e
    <3> QED BY <2>1, <3>1
  <2>2. CASE StopsAt(part, slots) \notin 1 .. Len(slots)
    <3>1. e = behind
      BY <2>2, StopsIn
    <3> QED BY <3>1
  <2> QED BY <2>1, <2>2
<1>2. FindDirEnt(part, slots, behind) = IF e.kind # "free" /\ e.name = NameOf(part) THEN e ELSE Free
  BY DEF FindDirEnt
<1> HIDE DEF e
<1> QED BY <1>1, <1>2

\* e is what a search for part among items should find: the entry of the one item of the
\* name, or nothing, and the tree says so.
Finds(items, part, e) ==
    \/ e = Free /\ ItemNamed(items, part) = {}
    \/ \E i \in ToSet(items) :
          e = EntryOf(i) /\ i.name = NameOf(part) /\ ItemNamed(items, part) = {i}

\* m slots from the start of a directory, as a sequence.
LEMMA PartSeq ==
    ASSUME NEW F, NEW first \in Nat, NEW m \in Nat
    PROVE  /\ DOMAIN Part(F, first, m) = 1 .. m /\ Len(Part(F, first, m)) = m
           /\ Part(F, first, m) \in Seq({Part(F, first, m)[j] : j \in 1 .. m})
           /\ \A j \in 1 .. m : Part(F, first, m)[j] = F[first + j]
<1> DEFINE s == Part(F, first, m)
<1>1. s = [j \in 1 .. m |-> F[first + j]]
  BY DEF Part
<1> HIDE DEF s
<1>2. DOMAIN s = 1 .. m /\ \A j \in 1 .. m : s[j] = F[first + j]
  BY <1>1
<1>3. s = [j \in 1 .. m |-> s[j]]
  BY <1>1
<1>4. s \in [1 .. m -> {s[j] : j \in 1 .. m}]
  BY <1>2, <1>3
<1>5. Len(s) = m /\ s \in Seq({s[j] : j \in 1 .. m})
  <2> DEFINE S == {s[j] : j \in 1 .. m}
  <2> HIDE DEF S
  <2> QED BY <1>4, SMTT(30)
<1> QED BY <1>2, <1>5 DEF s

LEMMA SearchOfList ==
    ASSUME NEW items, ListMade(items), NEW m \in Nat, Len(items) <= m,
           NEW part, NEW behind, behind.kind = "free" \/ behind.name # NameOf(part)
    PROVE  Finds(items, part, FindDirEnt(part, Part(DirOf(items), 0, m), behind))
<1> DEFINE slots == Part(DirOf(items), 0, m)
           named == {i \in ToSet(items) : NameOf(part) = i.name}
           n == Len(items)
<1>1. n \in Nat /\ DOMAIN items = 1 .. n /\ ToSet(items) = {items[k] : k \in 1 .. n}
  BY DEF ListMade, ToSet
<1>2. /\ DOMAIN slots = 1 .. m /\ Len(slots) = m /\ slots \in Seq({slots[j] : j \in 1 .. Len(slots)})
      /\ \A j \in 1 .. m : slots[j] = IF j <= n THEN EntryOf(items[j]) ELSE Free
  <2>1. 0 \in Nat
    OBVIOUS
  <2>2. /\ DOMAIN slots = 1 .. m /\ Len(slots) = m /\ slots \in Seq({slots[j] : j \in 1 .. m})
        /\ \A j \in 1 .. m : slots[j] = DirOf(items)[0 + j]
    <3> DEFINE F == DirOf(items)
    <3> HIDE DEF F
    <3>1. /\ DOMAIN Part(F, 0, m) = 1 .. m /\ Len(Part(F, 0, m)) = m
          /\ Part(F, 0, m) \in Seq({Part(F, 0, m)[j] : j \in 1 .. m})
          /\ \A j \in 1 .. m : Part(F, 0, m)[j] = F[0 + j]
      BY <2>1, PartSeq
    <3> QED BY <3>1 DEF F
  <2> HIDE DEF slots
  <2>3. ASSUME NEW j \in 1 .. m PROVE slots[j] = IF j <= n THEN EntryOf(items[j]) ELSE Free
    <3>1. 0 + j = j /\ j \in Nat \ {0}
      OBVIOUS
    <3> QED BY <2>2, <3>1 DEF DirOf
  <2> QED BY <2>2, <2>3
<1>3. ASSUME NEW k \in 1 .. n
      PROVE  /\ slots[k].kind = items[k].kind /\ slots[k].name = items[k].name
             /\ slots[k].kind # "free" /\ slots[k] = EntryOf(items[k]) /\ k \in 1 .. m
  <2>1. k \in 1 .. m /\ k <= n
    BY <1>1
  <2>2. slots[k] = EntryOf(items[k])
    BY <1>2, <2>1
  <2>3. items[k].kind \in ItemKinds
    BY <1>1 DEF ListMade
  <2> HIDE DEF slots
  <2> QED BY <2>1, <2>2, <2>3 DEF EntryOf, ItemKinds
<1>4. CASE named = {}
  <2>1. ItemNamed(items, part) = {}
    BY <1>4 DEF ItemNamed
  <2>2. \A j \in 1 .. Len(slots) : slots[j].kind = "free" \/ slots[j].name # NameOf(part)
    <3> SUFFICES ASSUME NEW j \in 1 .. m PROVE slots[j].kind = "free" \/ slots[j].name # NameOf(part)
      BY <1>2
    <3>1. CASE j <= n
      <4>1. j \in 1 .. n
        BY <1>1, <3>1
      <4>2. items[j].name # NameOf(part)
        BY <1>1, <1>4, <4>1
      <4> QED BY <1>3, <4>1, <4>2
    <3>2. CASE ~(j <= n)
      <4>1. slots[j] = Free
        BY <1>2, <3>2
      <4> QED BY <4>1 DEF Free
    <3> QED BY <3>1, <3>2
  <2> HIDE DEF slots
  <2>3. FindDirEnt(part, slots, behind) = Free
    BY <1>2, <2>2, FindsNothing
  <2> QED BY <2>1, <2>3 DEF Finds, slots
<1>5. CASE named # {}
  <2>1. PICK i \in named : TRUE
    BY <1>5
  <2>2. PICK k \in 1 .. n : items[k] = i
    BY <1>1, <2>1
  <2> DEFINE a == StopsAt(part, slots)
             c == CHOOSE k1 \in DOMAIN items : items[k1] \in named
  <2>3. ItemNamed(items, part) = {i}
    <3>1. c \in DOMAIN items /\ items[c] \in named
      BY <1>1, <2>1, <2>2
    <3>2. items[c] = i
      BY <2>1, <3>1 DEF ListMade
    <3>3. ItemNamed(items, part) = {items[c]}
      BY <1>5, Zenon DEF ItemNamed
    <3> QED BY <3>2, <3>3
  <2>4. a \in 1 .. m + 1 /\ StopHere(part, slots, a) /\ \A j \in 1 .. a - 1 : ~StopHere(part, slots, j)
    BY <1>2, StopsFirst
  <2>5. StopHere(part, slots, k)
    BY <1>3, <2>1, <2>2 DEF StopHere
  <2> HIDE DEF slots, a, named, c
  <2>6. a \in 1 .. n
    <3>1. a <= k
      BY <1>1, <2>4, <2>5
    <3> QED BY <1>1, <2>4, <3>1
  <2>7. slots[a].name = NameOf(part)
    <3>1. a # Len(slots) + 1
      BY <1>2, <1>3, <2>6
    <3> QED BY <1>3, <2>4, <2>6, <3>1 DEF StopHere
  <2>8. items[a] = i
    <3>1. items[a] \in ToSet(items) /\ i \in ToSet(items) /\ i.name = NameOf(part)
      BY <1>1, <2>1, <2>6 DEF named
    <3> QED BY <1>3, <2>6, <2>7, <3>1 DEF ListMade
  <2>9. (slots \o <<behind>>)[a] = slots[a]
    <3>1. a \in 1 .. Len(slots)
      BY <1>2, <1>3, <2>6
    <3> QED BY <1>2, <3>1, StopsIn DEF a
  <2>10. slots[a] = EntryOf(i) /\ slots[a].kind # "free"
    BY <1>3, <2>6, <2>8
  <2>11. FindDirEnt(part, slots, behind) = slots[a]
    BY <2>7, <2>9, <2>10 DEF FindDirEnt, a
  <2>12. i \in ToSet(items) /\ i.name = NameOf(part)
    BY <2>1 DEF named
  <2> QED BY <2>3, <2>10, <2>11, <2>12 DEF Finds, slots
<1> QED BY <1>4, <1>5

----------------------------------------------------------------------------
(* Listing a directory. *)

\* h[k] is what the loop over a list has kept of its first k.
Keeps(h, s, n) ==
    /\ h[0] = <<>>
    /\ \A j \in 0 .. n - 1 :
          h[j + 1] = IF s[j + 1].kind = "hidden" THEN h[j] ELSE Append(h[j], s[j + 1])

LEMMA ShownRuns ==
    ASSUME NEW s, NEW n \in Nat, DOMAIN s = 1 .. n
    PROVE  \E h \in [0 .. n -> Seq({s[k] : k \in 1 .. n})] : Keeps(h, s, n) /\ h[n] = Visible(s)
<1> DEFINE S == {s[k] : k \in 1 .. n}
           T == Seq(S)
           Kept(t, e) == IF e.kind = "hidden" THEN t ELSE Append(t, e)
           F == [i \in 1 .. n |-> [t \in T |-> Kept(t, s[i])]]
           Folds(g) == g = [r \in SUBSET (1 .. n) |->
                              IF r = {} THEN <<>> ELSE Kept(g[r \ {Max(r)}], s[Max(r)])]
           g == CHOOSE g : Folds(g)
           h == [j \in 0 .. n |-> g[1 .. j]]
<1>0. <<>> \in T
  OBVIOUS
<1>1. ASSUME NEW i \in 1 .. n, NEW t \in T PROVE Kept(t, s[i]) \in T
  <2>1. s[i] \in S
    OBVIOUS
  <2> HIDE DEF S
  <2> QED BY <2>1
<1>2. F \in [1 .. n -> [T -> T]]
  <2> HIDE DEF T, Kept
  <2> QED BY <1>1
<1>3. Folds(g)
  <2>1. PICK f \in [SUBSET (1 .. n) -> T] : Folded(f, <<>>, n, F)
    <3> HIDE DEF F, T
    <3> QED BY <1>0, <1>2, FoldExists
  <2>2. ASSUME NEW r \in SUBSET (1 .. n), r # {}
        PROVE  F[Max(r)][f[r \ {Max(r)}]] = Kept(f[r \ {Max(r)}], s[Max(r)])
    <3>1. Max(r) \in 1 .. n
      BY <2>2, MaxIs
    <3>2. f[r \ {Max(r)}] \in T
      OBVIOUS
    <3> HIDE DEF T, Kept
    <3> QED BY <3>1, <3>2
  <2>3. Folds(f)
    <3> HIDE DEF F, T, Kept
    <3> QED BY <2>1, <2>2 DEF Folded
  <2> HIDE DEF Folds
  <2> QED BY <2>3
<1>4. Visible(s) = g[1 .. n]
  BY DEF Visible, FoldLeft, MapThenFoldSet
<1> HIDE DEF g
<1>5. h[0] = <<>>
  <2>1. 1 .. 0 = {} /\ {} \in SUBSET (1 .. n)
    OBVIOUS
  <2>2. g[{}] = <<>>
    BY <1>3, <2>1
  <2> QED BY <2>1, <2>2
<1>6. ASSUME NEW j \in 0 .. n - 1 PROVE h[j + 1] = Kept(h[j], s[j + 1])
  <2>1. /\ 1 .. j + 1 \in SUBSET (1 .. n) /\ 1 .. j + 1 # {} /\ Max(1 .. j + 1) = j + 1
        /\ (1 .. j + 1) \ {j + 1} = 1 .. j
    BY FirstPositions
  <2>2. g[1 .. j + 1] = Kept(g[1 .. j], s[j + 1])
    <3> HIDE DEF Kept
    <3> QED BY <1>3, <2>1
  <2>3. h[j + 1] = g[1 .. j + 1] /\ h[j] = g[1 .. j]
    OBVIOUS
  <2> HIDE DEF Kept, h
  <2> QED BY <2>2, <2>3
<1> DEFINE P == {j \in 0 .. n : h[j] \in T}
<1>7. \A j \in 0 .. n : j \in P
  <2>1. 0 \in P
    <3>1. 0 \in 0 .. n
      OBVIOUS
    <3> HIDE DEF h, T
    <3> QED BY <1>0, <1>5, <3>1
  <2>2. ASSUME NEW j \in 0 .. n - 1, j \in P PROVE j + 1 \in P
    <3>1. h[j] \in T /\ j + 1 \in 0 .. n /\ j + 1 \in 1 .. n
      BY <2>2
    <3>2. Kept(h[j], s[j + 1]) \in T
      <4> HIDE DEF T, Kept, h
      <4> QED BY <1>1, <3>1
    <3> HIDE DEF T, Kept, h
    <3> QED BY <1>6, <3>1, <3>2
  <2> HIDE DEF P
  <2> QED BY <2>1, <2>2, Upwards
<1>8. h \in [0 .. n -> T] /\ h[n] = Visible(s)
  <2>1. \A j \in 0 .. n : h[j] \in T
    BY <1>7
  <2>2. h[n] = g[1 .. n]
    OBVIOUS
  <2>3. h = [j \in 0 .. n |-> h[j]]
    OBVIOUS
  <2> HIDE DEF h, T
  <2> QED BY <1>4, <2>1, <2>2, <2>3
<1> HIDE DEF h
<1> QED BY <1>5, <1>6, <1>8 DEF Keeps

\* The entries of a list of items.
Entries(items) == [k \in 1 .. Len(items) |-> EntryOf(items[k])]

\* The entries that are shown are those of the items that are.
LEMMA ShownEntries ==
    ASSUME NEW items, ListMade(items)
    PROVE  /\ Visible(items) \in Seq(ToSet(items))
           /\ Visible(Entries(items)) = [k \in 1 .. Len(Visible(items)) |-> EntryOf(Visible(items)[k])]
<1> DEFINE n == Len(items)
           S == ToSet(items)
           E == Entries(items)
<1>1. n \in Nat /\ DOMAIN items = 1 .. n /\ S = {items[k] : k \in 1 .. n}
  BY DEF ListMade, ToSet
<1>2. PICK h \in [0 .. n -> Seq({items[k] : k \in 1 .. n})] : Keeps(h, items, n) /\ h[n] = Visible(items)
  BY <1>1, ShownRuns
<1>3. DOMAIN E = 1 .. n /\ \A k \in 1 .. n : E[k] = EntryOf(items[k]) /\ E[k].kind = items[k].kind
  BY DEF Entries, EntryOf
<1> HIDE DEF E
<1>4. PICK e \in [0 .. n -> Seq({E[k] : k \in 1 .. n})] : Keeps(e, E, n) /\ e[n] = Visible(E)
  BY <1>1, <1>3, ShownRuns
<1> DEFINE Same(j) == e[j] = [k \in 1 .. Len(h[j]) |-> EntryOf(h[j][k])]
           P == {j \in 0 .. n : Same(j)}
<1>5. ASSUME NEW j \in 0 .. n PROVE h[j] \in Seq(S)
  BY <1>1, <1>2
<1>6. 0 \in P
  <2>1. h[0] = <<>> /\ e[0] = <<>> /\ 0 \in 0 .. n
    BY <1>1, <1>2, <1>4 DEF Keeps
  <2>2. Same(0)
    BY <2>1
  <2> HIDE DEF Same
  <2> QED BY <2>1, <2>2
<1>7. ASSUME NEW j \in 0 .. n - 1, j \in P PROVE j + 1 \in P
  <2>1. j \in 0 .. n /\ j + 1 \in 0 .. n /\ j + 1 \in 1 .. n
    BY <1>1
  <2> DEFINE a == h[j]
             b == e[j]
             x == items[j + 1]
             y == E[j + 1]
  <2>2. a \in Seq(S) /\ x \in S
    BY <1>1, <1>5, <2>1
  <2>3. b = [k \in 1 .. Len(a) |-> EntryOf(a[k])]
    BY <1>7
  <2>4. y = EntryOf(x) /\ y.kind = x.kind
    BY <1>3, <2>1
  <2>5. /\ h[j + 1] = IF x.kind = "hidden" THEN a ELSE Append(a, x)
        /\ e[j + 1] = IF y.kind = "hidden" THEN b ELSE Append(b, y)
    BY <1>2, <1>4 DEF Keeps
  <2> HIDE DEF a, b, x, y, S
  <2>6. CASE x.kind = "hidden"
    <3>1. h[j + 1] = a /\ e[j + 1] = b
      BY <2>4, <2>5, <2>6
    <3>2. Same(j + 1)
      BY <2>3, <3>1
    <3> HIDE DEF Same
    <3> QED BY <2>1, <3>2
  <2>7. CASE x.kind # "hidden"
    <3>1. h[j + 1] = Append(a, x) /\ e[j + 1] = Append(b, y)
      BY <2>4, <2>5, <2>7
    <3>2. Append(b, y) = [k \in 1 .. Len(Append(a, x)) |-> EntryOf(Append(a, x)[k])]
      <4> DEFINE c == Append(a, x)
                 U == {EntryOf(i) : i \in S}
                 d == [k \in 1 .. Len(c) |-> EntryOf(c[k])]
                 o == Append(b, y)
      <4>1. /\ Len(a) \in Nat /\ c \in Seq(S) /\ Len(c) = Len(a) + 1 /\ c[Len(a) + 1] = x
            /\ \A k \in 1 .. Len(a) : c[k] = a[k] /\ a[k] \in S
        BY <2>2
      <4>2. b \in Seq(U) /\ Len(b) = Len(a) /\ y \in U
        <5>1. \A k \in 1 .. Len(a) : EntryOf(a[k]) \in U
          BY <4>1
        <5>2. y \in U
          BY <2>2, <2>4
        <5> HIDE DEF U
        <5> QED BY <2>3, <4>1, <5>1, <5>2
      <4> HIDE DEF U, c
      <4>3. /\ o \in Seq(U) /\ Len(o) = Len(a) + 1 /\ o[Len(a) + 1] = y
            /\ \A k \in 1 .. Len(a) : o[k] = b[k]
        BY <4>2
      <4>4. d \in Seq(U) /\ Len(d) = Len(a) + 1 /\ \A k \in 1 .. Len(a) + 1 : d[k] = EntryOf(c[k])
        <5>1. \A k \in 1 .. Len(c) : EntryOf(c[k]) \in U
          BY <4>1 DEF U
        <5> QED BY <4>1, <5>1
      <4> HIDE DEF o, d
      <4>5. \A k \in 1 .. Len(a) + 1 : o[k] = d[k]
        <5> SUFFICES ASSUME NEW k \in 1 .. Len(a) + 1 PROVE o[k] = d[k]
          OBVIOUS
        <5>1. d[k] = EntryOf(c[k])
          BY <4>4
        <5>2. CASE k \in 1 .. Len(a)
          BY <2>3, <4>1, <4>3, <5>1, <5>2
        <5>3. CASE k \notin 1 .. Len(a)
          <6>1. k = Len(a) + 1
            BY <4>1, <5>3
          <6> QED BY <2>4, <4>1, <4>3, <5>1, <6>1
        <5> QED BY <5>2, <5>3
      <4>6. o = d
        BY <4>3, <4>4, <4>5, SeqEqual
      <4> QED BY <4>6 DEF o, d, c
    <3>3. Same(j + 1)
      BY <3>1, <3>2
    <3> HIDE DEF Same
    <3> QED BY <2>1, <3>3
  <2> QED BY <2>6, <2>7
<1>8. n \in P
  <2> HIDE DEF P
  <2>1. \A j \in 0 .. n : j \in P
    BY <1>1, <1>6, <1>7, Upwards
  <2> QED BY <1>1, <2>1
<1>9. Same(n) /\ h[n] \in Seq(S)
  <2>1. Same(n)
    BY <1>8
  <2>2. n \in 0 .. n
    BY <1>1
  <2> HIDE DEF Same
  <2> QED BY <1>5, <2>1, <2>2
<1> QED BY <1>2, <1>4, <1>9 DEF E

\* What is listed of the slots of a directory is what it has.
LEMMA ContentsAre ==
    ASSUME NEW items, ListMade(items), NEW m \in Nat, Len(items) <= m
    PROVE  Contents(Part(DirOf(items), 0, m)) = ListingOf(items)
<1> DEFINE slots == Part(DirOf(items), 0, m)
           n == Len(items)
           frees == {i \in DOMAIN slots : slots[i].kind = "free"}
           least == CHOOSE i \in frees : \A j \in frees : i <= j
           upto == IF frees = {} THEN Len(slots) ELSE least - 1
<1>1. n \in Nat /\ DOMAIN items = 1 .. n
  BY DEF ListMade
<1>2. slots = [j \in 1 .. m |-> IF j <= n THEN EntryOf(items[j]) ELSE Free]
  <2>1. \A j \in 1 .. m : 0 + j = j /\ j \in Nat \ {0}
    OBVIOUS
  <2>2. \A j \in 1 .. m : DirOf(items)[0 + j] = IF j <= n THEN EntryOf(items[j]) ELSE Free
    BY <2>1 DEF DirOf
  <2> QED BY <2>2 DEF Part
<1> HIDE DEF slots
<1>3. DOMAIN slots = 1 .. m /\ Len(slots) = m
  BY <1>2
<1>4. \A j \in 1 .. m : slots[j].kind = "free" <=> j > n
  <2> SUFFICES ASSUME NEW j \in 1 .. m PROVE slots[j].kind = "free" <=> j > n
    OBVIOUS
  <2>1. CASE j <= n
    <3>1. slots[j].kind = items[j].kind
      BY <1>2, <2>1 DEF EntryOf
    <3>2. items[j].kind \in ItemKinds
      <4>1. j \in 1 .. n
        BY <1>1, <2>1
      <4> QED BY <1>1, <4>1 DEF ListMade, ToSet
    <3> QED BY <1>1, <2>1, <3>1, <3>2 DEF ItemKinds
  <2>2. CASE ~(j <= n)
    <3>1. slots[j] = Free
      BY <1>2, <2>2
    <3> QED BY <1>1, <2>2, <3>1 DEF Free
  <2> QED BY <2>1, <2>2
<1>5. upto = n
  <2>1. frees = {j \in 1 .. m : j > n}
    BY <1>3, <1>4
  <2> HIDE DEF frees
  <2>2. CASE n = m
    <3>1. frees = {}
      BY <2>1, <2>2
    <3> QED BY <1>3, <2>2, <3>1
  <2>3. CASE n # m
    <3>1. n + 1 \in frees /\ frees \in SUBSET Nat
      <4>1. n \in Nat /\ n <= m
        BY <1>1
      <4> HIDE DEF n
      <4>2. n + 1 \in 1 .. m /\ n + 1 > n
        BY <2>3, <4>1
      <4> QED BY <2>1, <4>2
    <3>2. least \in frees /\ \A j \in frees : least <= j
      BY <3>1, LeastIs
    <3> HIDE DEF least
    <3>3. least = n + 1
      BY <1>1, <2>1, <3>1, <3>2
    <3> QED BY <1>1, <3>1, <3>3
  <2> QED BY <2>2, <2>3
<1>6. InListing(slots) = Visible(SubSeq(slots, 1, upto))
  BY Zenon DEF InListing
<1> HIDE DEF upto
<1>7. SubSeq(slots, 1, n) = Entries(items)
  <2>1. SubSeq(slots, 1, n) = [k \in 1 .. n |-> slots[k]]
    BY <1>1, <1>3
  <2>2. \A k \in 1 .. n : slots[k] = EntryOf(items[k])
    BY <1>1, <1>2
  <2> QED BY <2>1, <2>2 DEF Entries
<1> DEFINE s == Visible(items)
<1>8. InListing(slots) = [k \in 1 .. Len(s) |-> EntryOf(s[k])]
  BY <1>5, <1>6, <1>7, ShownEntries
<1>9. DOMAIN s = 1 .. Len(s)
  <2>1. s \in Seq(ToSet(items))
    BY ShownEntries
  <2> QED BY <2>1
<1> HIDE DEF s
<1>10. \A k \in 1 .. Len(s) : ListingLine(InListing(slots)[k]) = <<s[k].name, s[k].kind>>
  BY <1>8 DEF ListingLine, EntryOf
<1>11. Contents(slots) = [k \in 1 .. Len(s) |-> <<s[k].name, s[k].kind>>]
  BY <1>8, <1>10 DEF Contents
<1> QED BY <1>9, <1>11 DEF ListingOf, s, slots

----------------------------------------------------------------------------
(* From the path to the item. *)

\* What a part may be made of.
Symbols == STRING \cup {Null}

\* What a path is cut into: one part or two.
LEMMA PartsShape ==
    ASSUME NEW p \in Seq(STRING)
    PROVE  /\ Len(PathParts(p)) \in {1, 2} /\ DOMAIN PathParts(p) = 1 .. Len(PathParts(p))
           /\ \A k \in 1 .. Len(PathParts(p)) : PathParts(p)[k] \in Seq(Symbols)
<1> DEFINE a == SubSeq(p, FirstAt(p), FirstEnd(p) - 1)
           rest == SubSeq(p, FirstEnd(p) + 1, Len(p))
           more == IF rest = <<>> THEN <<>> ELSE <<rest>>
<1>1. CASE FirstAt(p) = 0
  <2>1. PathParts(p) = <<NoPart>> /\ NoPart \in Seq(Symbols)
    <3>1. NoPart \in Seq(Symbols)
      <4>1. Null \in Symbols
        BY DEF Symbols
      <4>2. ASSUME NEW S, NEW x \in S PROVE <<x>> \in Seq(S)
        OBVIOUS
      <4> QED BY <4>1, <4>2 DEF NoPart
    <3>2. PathParts(p) = <<NoPart>>
      BY <1>1, Zenon DEF PathParts
    <3> QED BY <3>1, <3>2
  <2> QED BY <2>1
<1>2. CASE FirstAt(p) # 0
  <2>1. FirstAt(p) \in 1 .. Len(p)
    <3> DEFINE Is(i) == p[i] # "/" /\ \A j \in 1 .. i - 1 : p[j] = "/"
               C == {i \in DOMAIN p : p[i] # "/"}
    <3>1. DOMAIN p = 1 .. Len(p)
      OBVIOUS
    <3>2. \E i \in DOMAIN p : p[i] # "/"
      BY <1>2 DEF FirstAt
    <3>3. PICK i \in C : \A j \in C : i <= j
      <4>1. C \in SUBSET Nat /\ C # {}
        BY <3>1, <3>2
      <4> HIDE DEF C
      <4> QED BY <4>1, LeastNumber
    <3>4. Is(i)
      <4>1. \A j \in 1 .. i - 1 : j \in DOMAIN p /\ ~(i <= j)
        BY <3>1
      <4> QED BY <3>3, <4>1
    <3>5. FirstAt(p) = CHOOSE k \in DOMAIN p : Is(k)
      BY <3>2, Zenon DEF FirstAt
    <3>6. (CHOOSE k \in DOMAIN p : Is(k)) \in DOMAIN p
      <4>1. i \in DOMAIN p
        OBVIOUS
      <4> HIDE DEF Is
      <4> QED BY <3>4, <4>1
    <3> QED BY <3>1, <3>5, <3>6
  <2>2. FirstEnd(p) \in FirstAt(p) .. Len(p) + 1
    <3> DEFINE C == {i \in FirstAt(p) .. Len(p) : p[i] = "/"}
    <3>1. FirstEnd(p) = IF C = {} THEN Len(p) + 1 ELSE CHOOSE i \in C : \A j \in C : i <= j
      BY Zenon DEF FirstEnd
    <3>2. CASE C = {}
      BY <2>1, <3>1, <3>2
    <3>3. CASE C # {}
      <4>1. C \in SUBSET Nat
        BY <2>1
      <4>2. FirstEnd(p) \in C
        <5> HIDE DEF C
        <5> QED BY <3>1, <3>3, <4>1, LeastIs
      <4> QED BY <2>1, <4>2
    <3> QED BY <3>2, <3>3
  <2>3. a \in Seq(Symbols)
    <3>1. FirstAt(p) \in Int /\ FirstEnd(p) - 1 \in Int
      BY <2>1, <2>2
    <3>2. \A i \in FirstAt(p) .. FirstEnd(p) - 1 : i \in 1 .. Len(p)
      BY <2>1, <2>2
    <3>3. \A i \in FirstAt(p) .. FirstEnd(p) - 1 : p[i] \in Symbols
      BY <3>2 DEF Symbols
    <3> QED BY <3>1, <3>3, SubSeqProperties
  <2>4. rest \in Seq(Symbols)
    <3>1. FirstEnd(p) + 1 \in Int /\ Len(p) \in Int
      BY <2>1, <2>2
    <3>2. \A i \in FirstEnd(p) + 1 .. Len(p) : i \in 1 .. Len(p)
      BY <2>1, <2>2
    <3>3. \A i \in FirstEnd(p) + 1 .. Len(p) : p[i] \in Symbols
      BY <3>2 DEF Symbols
    <3> QED BY <3>1, <3>3, SubSeqProperties
  <2>5. PathParts(p) = <<a>> \o more
    BY <1>2, Zenon DEF PathParts
  <2> HIDE DEF a, rest
  <2> DEFINE S == Seq(Symbols)
  <2>6. <<a>> \in Seq(S) /\ more \in Seq(S) /\ Len(<<a>>) = 1 /\ Len(more) \in {0, 1}
    <3> HIDE DEF S
    <3>1. a \in S /\ rest \in S
      BY <2>3, <2>4 DEF S
    <3> QED BY <3>1
  <2> HIDE DEF more, S
  <2>7. PathParts(p) \in Seq(S) /\ Len(PathParts(p)) = 1 + Len(more)
    BY <2>5, <2>6, ConcatProperties
  <2>8. Len(PathParts(p)) \in {1, 2}
    <3>1. Len(more) = 0 \/ Len(more) = 1
      BY <2>6
    <3>2. CASE Len(more) = 0
      BY <2>7, <3>2
    <3>3. CASE Len(more) = 1
      BY <2>7, <3>3
    <3> QED BY <3>1, <3>2, <3>3
  <2> QED BY <2>7, <2>8 DEF S
<1> QED BY <1>1, <1>2

\* The one item of a name is the one the tree has.
LEMMA NamedOne ==
    ASSUME NEW items, ListMade(items), NEW i \in ToSet(items), NEW part, i.name = NameOf(part)
    PROVE  ItemNamed(items, part) = {i}
<1> DEFINE named == {j \in ToSet(items) : NameOf(part) = j.name}
           c == CHOOSE k \in DOMAIN items : items[k] \in named
<1>1. i \in named
  OBVIOUS
<1>2. \E k \in DOMAIN items : items[k] = i
  BY DEF ToSet, ListMade
<1>3. c \in DOMAIN items /\ items[c] \in named
  BY <1>1, <1>2
<1>4. items[c] = i
  BY <1>1, <1>3 DEF ListMade
<1>5. ItemNamed(items, part) = {items[c]}
  BY <1>1, Zenon DEF ItemNamed
<1> QED BY <1>4, <1>5

\* What is found by name is in the list.
LEMMA NamedIn ==
    ASSUME NEW items, ListMade(items), NEW part
    PROVE  ItemNamed(items, part) \subseteq ToSet(items)
<1> DEFINE named == {j \in ToSet(items) : NameOf(part) = j.name}
<1>1. CASE named = {}
  BY <1>1 DEF ItemNamed
<1>2. CASE named # {}
  <2>1. PICK i \in named : TRUE
    BY <1>2
  <2>2. ItemNamed(items, part) = {i}
    BY <2>1, NamedOne
  <2> QED BY <2>1, <2>2
<1> QED BY <1>1, <1>2

\* No item has the name of a part that is empty or has a separator in it.
LEMMA UntidyPart ==
    ASSUME NEW items, \A i \in ToSet(items) : ItemMade(i), NEW part \in Seq(Symbols),
           part = <<>> \/ "/" \in ToSet(part)
    PROVE  ItemNamed(items, part) = {}
<1>1. ASSUME NEW i \in ToSet(items) PROVE NameOf(part) # i.name
  <2>1. i.name # NoName /\ i.name[1] # "/" /\ i.name[2] # "/"
    BY DEF ItemMade
  <2>2. CASE Len(part) = 1
    <3>1. part[1] = "/"
      <4>1. part # <<>> /\ DOMAIN part = {1}
        BY <2>2
      <4> QED BY <4>1 DEF ToSet
    <3>2. NameOf(part) = <<part[1], Null>>
      BY <2>2 DEF NameOf
    <3> QED BY <2>1, <3>1, <3>2
  <2>3. CASE Len(part) = 3 /\ part[2] = "."
    <3>1. part[1] = "/" \/ part[3] = "/"
      <4>1. part # <<>> /\ DOMAIN part = {1, 2, 3}
        BY <2>3
      <4> QED BY <2>3, <4>1 DEF ToSet
    <3>2. NameOf(part) = <<part[1], part[3]>>
      BY <2>3 DEF NameOf
    <3> QED BY <2>1, <3>1, <3>2
  <2>4. CASE Len(part) # 1 /\ ~(Len(part) = 3 /\ part[2] = ".")
    <3>1. NameOf(part) = NoName
      BY <2>4 DEF NameOf
    <3> QED BY <2>1, <3>1
  <2> QED BY <2>2, <2>3, <2>4
<1> QED BY <1>1 DEF ItemNamed

\* Of the root, and of an item of the root.
LEMMA RootMade ==
    ASSUME WellMade
    PROVE  /\ ListMade(volume.root) /\ \A i \in ToSet(volume.root) : i \in Items /\ ItemMade(i)
           /\ \A i \in ToSet(volume.root) :
                 ListMade(i.list) /\ \A j \in ToSet(i.list) : j \in Items /\ ItemMade(j)
<1>1. ListMade(volume.root) /\ \A i \in Items : ItemMade(i)
  BY DEF WellMade
<1>2. \A i \in ToSet(volume.root) : i \in Items /\ \A j \in ToSet(i.list) : j \in Items
  BY DEF Items
<1>3. \A i \in Items : ListMade(i.list)
  BY <1>1 DEF ItemMade
<1> QED BY <1>1, <1>2, <1>3

\* An untidy path leads nowhere.
LEMMA UntidyNowhere ==
    ASSUME WellMade, NEW p \in Seq(STRING), ~Tidy(p)
    PROVE  Leads(p) = {}
<1> DEFINE P == PathParts(p)
           Bad(k) == P[k] = <<>> \/ "/" \in ToSet(P[k])
<1>1. Len(P) \in {1, 2} /\ DOMAIN P = 1 .. Len(P) /\ \A k \in 1 .. Len(P) : P[k] \in Seq(Symbols)
  BY PartsShape
<1>2. \E k \in 1 .. Len(P) : Bad(k)
  <2>1. Len(P) <= 2 /\ Len(P) \in 1 .. Len(P)
    BY <1>1
  <2> HIDE DEF P
  <2>2. P[Len(P)] = <<>> \/ \E k \in DOMAIN P : "/" \in ToSet(P[k])
    BY <2>1 DEF Tidy, P
  <2> QED BY <1>1, <2>1, <2>2
<1>3. ASSUME NEW items, \A i \in ToSet(items) : ItemMade(i), NEW k \in 1 .. Len(P), Bad(k)
      PROVE  ItemNamed(items, P[k]) = {}
  <2> HIDE DEF P
  <2> QED BY <1>1, <1>3, UntidyPart
<1>4. Leads(p) = IF Len(P) = 1 THEN ItemNamed(volume.root, P[1])
                 ELSE UNION {ItemNamed(i.list, P[2]) : i \in ItemNamed(volume.root, P[1])}
  BY Zenon DEF Leads
<1> HIDE DEF P, Bad
<1>5. Bad(1) => ItemNamed(volume.root, P[1]) = {}
  <2>1. 1 \in 1 .. Len(P)
    BY <1>1
  <2> QED BY <1>3, <2>1, RootMade
<1>6. CASE Len(P) = 1
  <2>1. Bad(1)
    BY <1>2, <1>6
  <2> QED BY <1>4, <1>5, <1>6, <2>1
<1>7. CASE Len(P) = 2
  <2>1. CASE Bad(1)
    BY <1>4, <1>5, <1>7, <2>1
  <2>2. CASE Bad(2)
    <3>1. ItemNamed(volume.root, P[1]) \subseteq ToSet(volume.root)
      BY RootMade, NamedIn
    <3>2. \A i \in ItemNamed(volume.root, P[1]) : ItemNamed(i.list, P[2]) = {}
      <4>1. 2 \in 1 .. Len(P)
        BY <1>7
      <4> SUFFICES ASSUME NEW i \in ItemNamed(volume.root, P[1]) PROVE ItemNamed(i.list, P[2]) = {}
        OBVIOUS
      <4>2. \A j \in ToSet(i.list) : ItemMade(j)
        BY <3>1, RootMade
      <4> QED BY <1>3, <2>2, <4>1, <4>2
    <3> QED BY <1>4, <1>7, <3>2
  <2> QED BY <1>2, <1>7, <2>1, <2>2
<1> QED BY <1>1, <1>6, <1>7

\* How many slots the root has, and an item's clusters.
LEMMA SlotsHeld ==
    ASSUME WellMade
    PROVE  /\ RootSectors * PerSector \in Nat
           /\ \A i \in Items : Len(i.chain) * (volume.spc * PerSector) \in Nat
<1>1. RootSectors * PerSector \in Nat
  <2>1. RootSectors \in Nat /\ PerSector \in Nat
    BY RootPlace, VolAssumption DEF WellMade
  <2> QED BY <2>1
<1>2. ASSUME NEW i \in Items PROVE Len(i.chain) * (volume.spc * PerSector) \in Nat
  <2>1. i.chain \in Seq(Nat) /\ volume.spc \in Nat /\ PerSector \in Nat
    BY VolAssumption DEF WellMade, GeometryMade, ItemMade, ChainMade
  <2>2. PICK a \in Nat : a = Len(i.chain)
    BY <2>1
  <2>3. PICK b \in Nat : b = volume.spc * PerSector
    BY <2>1
  <2>4. a * b \in Nat
    OBVIOUS
  <2> QED BY <2>2, <2>3, <2>4
<1> QED BY <1>1, <1>2

\* In the clusters of an item, a search finds what the item's list has; of a file nothing.
LEMMA SearchOfItem ==
    ASSUME WellMade, NEW i \in Items, NEW part, NameOf(part) # Junk.name,
           NEW behind, behind.kind = "free" \/ behind.name # NameOf(part)
    PROVE  Finds(i.list, part, FindDirEnt(part, Held(i), behind))
<1> DEFINE m == Len(i.chain) * (volume.spc * PerSector)
           slots == Part(Laid(i), 0, m)
<1>1. ItemMade(i) /\ ListMade(i.list)
  BY DEF WellMade, ItemMade
<1>2. m \in Nat
  BY SlotsHeld
<1>3. Held(i) = slots
  BY DEF Held
<1>4. CASE i.kind = "dir"
  <2>1. Laid(i) = DirOf(i.list) /\ Len(i.list) <= m
    BY <1>1, <1>4 DEF Laid, ItemMade
  <2> HIDE DEF m
  <2>2. Finds(i.list, part, FindDirEnt(part, Part(DirOf(i.list), 0, m), behind))
    BY <1>1, <1>2, <2>1, SearchOfList
  <2> QED BY <1>3, <2>1, <2>2
<1>5. CASE i.kind # "dir"
  <2>1. i.list = <<>>
    BY <1>1, <1>5 DEF ItemMade
  <2>2. ItemNamed(i.list, part) = {}
    BY <2>1 DEF ItemNamed, ToSet
  <2>3. /\ DOMAIN slots = 1 .. m /\ Len(slots) = m /\ slots \in Seq({slots[j] : j \in 1 .. m})
        /\ \A j \in 1 .. m : slots[j] = Laid(i)[0 + j]
    <3> DEFINE F == Laid(i)
    <3> HIDE DEF F, m
    <3>1. 0 \in Nat
      OBVIOUS
    <3>2. /\ DOMAIN Part(F, 0, m) = 1 .. m /\ Len(Part(F, 0, m)) = m
          /\ Part(F, 0, m) \in Seq({Part(F, 0, m)[j] : j \in 1 .. m})
          /\ \A j \in 1 .. m : Part(F, 0, m)[j] = F[0 + j]
      BY <1>2, <3>1, PartSeq
    <3> QED BY <3>2 DEF F
  <2> HIDE DEF slots, m
  <2>4. \A j \in 1 .. m : slots[j] = Junk
    <3>1. \A j \in 1 .. m : 0 + j \in Nat \ {0}
      BY <1>2
    <3> QED BY <1>5, <2>3, <3>1 DEF Laid
  <2>5. FindDirEnt(part, slots, behind) = Free
    <3>1. \A j \in 1 .. Len(slots) : slots[j].kind = "free" \/ slots[j].name # NameOf(part)
      BY <2>3, <2>4
    <3> QED BY <1>2, <2>3, <3>1, FindsNothing
  <2> QED BY <1>3, <2>2, <2>5 DEF Finds
<1> QED BY <1>4, <1>5

\* The root directory finds what the root has, and lists it.
LEMMA SearchOfRoot ==
    ASSUME WellMade, NEW part, NEW behind, behind.kind = "free" \/ behind.name # NameOf(part)
    PROVE  Finds(volume.root, part, FindDirEnt(part, RootDirectory, behind))
<1> DEFINE m == RootSectors * PerSector
<1>1. m \in Nat
  BY SlotsHeld
<1>2. RootDirectory = Part(DirOf(volume.root), 0, m)
  BY RootRead
<1>3. ListMade(volume.root) /\ Len(volume.root) <= m
  BY DEF WellMade
<1> HIDE DEF m
<1>4. Finds(volume.root, part, FindDirEnt(part, Part(DirOf(volume.root), 0, m), behind))
  BY <1>1, <1>3, SearchOfList
<1> QED BY <1>2, <1>4

LEMMA ListingOfRoot ==
    ASSUME WellMade
    PROVE  /\ Contents(RootDirectory) = ListingOf(volume.root)
           /\ RootDirectory[1] = EntryOf(volume.root[1]) /\ EntryOf(volume.root[1]).kind = "vol"
<1> DEFINE m == RootSectors * PerSector
<1>1. m \in Nat
  BY SlotsHeld
<1>2. RootDirectory = Part(DirOf(volume.root), 0, m)
  BY RootRead
<1>3. ListMade(volume.root) /\ Len(volume.root) <= m /\ volume.root # <<>> /\ volume.root[1].kind = "vol"
  BY DEF WellMade
<1> HIDE DEF m
<1>4. Contents(RootDirectory) = ListingOf(volume.root)
  BY <1>1, <1>2, <1>3, ContentsAre
<1>5. 1 <= Len(volume.root) /\ 1 \in 1 .. m
  <2>1. Len(volume.root) \in Nat /\ Len(volume.root) # 0
    BY <1>3 DEF ListMade
  <2> QED BY <1>1, <1>3, <2>1
<1>6. RootDirectory[1] = EntryOf(volume.root[1])
  <2>1. RootDirectory[1] = DirOf(volume.root)[0 + 1]
    BY <1>2, <1>5 DEF Part
  <2>2. 0 + 1 = 1 /\ 1 \in Nat \ {0}
    OBVIOUS
  <2> QED BY <1>5, <2>1, <2>2 DEF DirOf
<1> QED BY <1>3, <1>4, <1>6 DEF EntryOf

LEMMA ListingOfDir ==
    ASSUME WellMade, NEW i \in Items, i.kind = "dir"
    PROVE  Contents(read_cluster_chain(EntryOf(i).cluster)) = ListingOf(i.list)
<1> DEFINE m == Len(i.chain) * (volume.spc * PerSector)
<1>1. ItemMade(i) /\ ListMade(i.list)
  BY DEF WellMade, ItemMade
<1>2. m \in Nat
  BY SlotsHeld
<1>3. read_cluster_chain(EntryOf(i).cluster) = Part(Laid(i), 0, m)
  BY ChainRead DEF Held
<1>4. Laid(i) = DirOf(i.list) /\ Len(i.list) <= m
  BY <1>1 DEF Laid, ItemMade
<1> HIDE DEF m
<1> QED BY <1>1, <1>2, <1>3, <1>4, ContentsAre

----------------------------------------------------------------------------
(* Opening a path. *)

\* The search is in the root for the first part, or behind the item found for the second.
Searching ==
    \/ level = 1 /\ cldata = RootDirectory
    \/ /\ level = 2 /\ Len(parts) = 2
       /\ \E i \in Items : cldata = Held(i) /\ ItemNamed(volume.root, parts[1]) = {i}

\* What find_dir gives is what the tree has at the path.
Resolved ==
    IF parts = <<NoPart>> THEN dir = EntryOf(volume.root[1])
    ELSE \/ dir = Free /\ Leads(asked) = {}
         \/ \E i \in Items : dir = EntryOf(i) /\ Leads(asked) = {i}

\* The open file is the one the tree has at the path.
Delivered ==
    IF parts = <<>> THEN handle = Unopened
    ELSE IF parts = <<NoPart>> THEN Got = ListingOf(volume.root)
    ELSE {Got : h \in {handle} \ {Unopened}} = {Meant(i) : i \in IF Tidy(asked) THEN Leads(asked) ELSE {}}

VolInv ==
    /\ WellMade /\ vpc \in {"ready", "find_dir", "fat_open"}
    /\ vpc = "ready" => Delivered
    /\ vpc # "ready" => asked \in Paths /\ parts = PathParts(asked)
    /\ vpc = "find_dir" => past \in Beyond /\ Searching
    /\ vpc = "fat_open" => Resolved

\* The disk does not change.
LEMMA SameDisk ==
    ASSUME volume' = volume
    PROVE  /\ WellMade' <=> WellMade
           /\ Items' = Items /\ RootDirectory' = RootDirectory
           /\ \A p : Leads(p)' = Leads(p)
           /\ \A i : Held(i)' = Held(i)
<1>1. Items' = Items
  BY DEF Items
<1>2. RootSectors' = RootSectors /\ NrRootDirSectors' = NrRootDirSectors
  BY DEF RootSectors, NrRootDirSectors
<1>3. DataStartSector' = DataStartSector
  BY <1>2 DEF DataStartSector
<1>4. \A c : sector_of_cluster(c)' = sector_of_cluster(c)
  BY <1>3 DEF sector_of_cluster
<1>5. \A c : ClusterOnDisk(c)' <=> ClusterOnDisk(c)
  BY <1>4 DEF ClusterOnDisk, OnDisk
<1>6. \A i : ItemMade(i)' <=> ItemMade(i)
  BY <1>5 DEF ItemMade, ChainMade
<1>7. WellMade' <=> WellMade
  BY <1>1, <1>2, <1>6 DEF WellMade, GeometryMade
<1>8. \A p : Leads(p)' = Leads(p)
  BY DEF Leads
<1>9. \A c : FatSlot(c)' = FatSlot(c)
  BY <1>1 DEF FatSlot, Following
<1>10. \A c, k : DataSector(c, k)' = DataSector(c, k)
  BY <1>1 DEF DataSector
<1>11. \A s : Sector(s)' = Sector(s)
  BY <1>2, <1>9, <1>10 DEF Sector
<1>12. \A lba, n : DriveRead(lba, n)' = DriveRead(lba, n)
  BY <1>11 DEF DriveRead
<1>13. RootDirectory' = RootDirectory
  BY <1>2, <1>3, <1>12 DEF RootDirectory, RootDirSector
<1>14. \A i : Held(i)' = Held(i)
  BY DEF Held
<1> QED BY <1>1, <1>7, <1>8, <1>13, <1>14

LEMMA VolInvInit == VolInit => VolInv
BY DEF VolInit, VolInv, Delivered

\* An item's entry is not the free one.
LEMMA EntryNotFree ==
    ASSUME WellMade, NEW i \in Items
    PROVE  /\ EntryOf(i) # Free /\ EntryOf(i).kind = i.kind /\ i.kind \in ItemKinds
           /\ EntryOf(i).size = i.size
<1>1. i.kind \in ItemKinds
  BY RootMade DEF Items, ListMade
<1>2. EntryOf(i).kind = i.kind /\ EntryOf(i).size = i.size
  BY DEF EntryOf
<1> QED BY <1>1, <1>2 DEF ItemKinds, Free

LEMMA OpenStep ==
    ASSUME VolInv, NEW p \in Paths, fs_open(p)
    PROVE  VolInv'
<1>1. WellMade' /\ Searching'
  BY SameDisk DEF VolInv, fs_open, Searching
<1> QED BY <1>1 DEF VolInv, fs_open

LEMMA RootStep ==
    ASSUME VolInv, FindRoot
    PROVE  VolInv'
<1>1. WellMade' /\ volume' = volume /\ parts' = parts /\ asked' = asked
  BY SameDisk DEF VolInv, FindRoot
<1>2. dir' = EntryOf(volume.root[1]) /\ parts = <<NoPart>>
  BY ListingOfRoot DEF VolInv, FindRoot
<1>3. Resolved'
  BY <1>1, <1>2 DEF Resolved
<1> QED BY <1>1, <1>3 DEF VolInv, FindRoot

LEMMA PartStep ==
    ASSUME NothingBehind, VolInv, FindPart
    PROVE  VolInv'
<1> DEFINE e == FindDirEnt(parts[level], cldata, past)
           b == Len(parts)
<1>1. /\ WellMade /\ vpc = "find_dir" /\ parts # <<NoPart>> /\ asked \in Paths /\ parts = PathParts(asked)
      /\ past \in Beyond /\ Searching
  BY DEF VolInv, FindPart
<1>2. b \in {1, 2} /\ DOMAIN parts = 1 .. b
  <2>1. asked \in Seq(STRING)
    BY <1>1, VolAssumption
  <2> QED BY <1>1, <2>1, PartsShape
<1>3. /\ volume' = volume /\ asked' = asked /\ parts' = parts /\ WellMade' /\ Items' = Items
      /\ Leads(asked)' = Leads(asked) /\ \A i : Held(i)' = Held(i)
  <2>1. volume' = volume /\ asked' = asked /\ parts' = parts
    BY DEF FindPart
  <2>2. Leads(asked)' = Leads(asked)
    BY <2>1, SameDisk DEF Leads
  <2> QED BY <1>1, <2>1, <2>2, SameDisk
<1>4. level \in 1 .. b
  BY <1>1, <1>2 DEF Searching
<1>5. NameOf(parts[level]) # Junk.name /\ (past.kind = "free" \/ past.name # NameOf(parts[level]))
  <2>1. level \in DOMAIN PathParts(asked)
    BY <1>1, <1>2, <1>4
  <2> QED BY <1>1, <2>1 DEF NothingBehind
<1>6. Leads(asked) = IF b = 1 THEN ItemNamed(volume.root, parts[1])
                     ELSE UNION {ItemNamed(i.list, parts[2]) : i \in ItemNamed(volume.root, parts[1])}
  BY <1>1, Zenon DEF Leads
<1>7. /\ level = 1 => \/ e = Free /\ ItemNamed(volume.root, parts[1]) = {}
                   \/ \E i \in Items : e = EntryOf(i) /\ ItemNamed(volume.root, parts[1]) = {i}
      /\ level = 2 => /\ b = 2
                   /\ \/ e = Free /\ Leads(asked) = {}
                      \/ \E i \in Items : e = EntryOf(i) /\ Leads(asked) = {i}
  <2>1. CASE level = 1 /\ cldata = RootDirectory
    <3>1. Finds(volume.root, parts[1], e)
      BY <1>1, <1>5, <2>1, SearchOfRoot
    <3> HIDE DEF e
    <3>2. \A i \in ToSet(volume.root) : i \in Items
      BY <1>1, RootMade
    <3> QED BY <2>1, <3>1, <3>2 DEF Finds
  <2>2. CASE /\ level = 2 /\ b = 2
             /\ \E i \in Items : cldata = Held(i) /\ ItemNamed(volume.root, parts[1]) = {i}
    <3>1. PICK i \in Items : cldata = Held(i) /\ ItemNamed(volume.root, parts[1]) = {i}
      BY <2>2
    <3>2. Finds(i.list, parts[2], e)
      BY <1>1, <1>5, <2>2, <3>1, SearchOfItem
    <3> HIDE DEF e
    <3>3. Leads(asked) = ItemNamed(i.list, parts[2])
      BY <1>6, <2>2, <3>1
    <3>4. \A j \in ToSet(i.list) : j \in Items
      <4>1. i \in ToSet(volume.root)
        <5>1. i \in ItemNamed(volume.root, parts[1])
          BY <3>1
        <5> QED BY <1>1, <5>1, RootMade, NamedIn
      <4> QED BY <1>1, <4>1, RootMade
    <3> QED BY <2>2, <3>2, <3>3, <3>4 DEF Finds
  <2> HIDE DEF e
  <2> QED BY <1>1, <2>1, <2>2 DEF Searching
<1>8. FindPart => LET x == FindDirEnt(parts[level], cldata, past)
                  IN  IF x = Free \/ level = b THEN Found(x)
                      ELSE IF ~ChainOnDisk(x.cluster)
                      THEN vpc' = "panicked" /\ UNCHANGED <<level, cldata, past, dir, allocated>>
                      ELSE /\ level' = level + 1
                           /\ cldata' = read_cluster_chain(x.cluster) /\ past' \in Beyond
                           /\ UNCHANGED <<vpc, dir, allocated>>
  BY DEF FindPart
<1> HIDE DEF e
<1>9. CASE e = Free \/ level = b
  <2>1. dir' = e /\ vpc' = "fat_open"
    BY <1>8, <1>9 DEF e, Found
  <2>2. (dir' = Free /\ Leads(asked) = {}) \/ \E i \in Items : dir' = EntryOf(i) /\ Leads(asked) = {i}
    <3>1. CASE level = 2
      BY <1>7, <2>1, <3>1
    <3>2. CASE level = 1 /\ b = 1
      BY <1>6, <1>7, <2>1, <3>2
    <3>3. CASE level = 1 /\ b = 2
      <4>1. e = Free
        BY <1>9, <3>3
      <4>2. ItemNamed(volume.root, parts[1]) = {}
        <5>1. \A i \in Items : EntryOf(i) # Free
          BY <1>1, EntryNotFree
        <5> QED BY <1>7, <3>3, <4>1, <5>1
      <4>3. Leads(asked) = {}
        BY <1>6, <3>3, <4>2
      <4> QED BY <2>1, <4>1, <4>3
    <3> QED BY <1>2, <1>4, <3>1, <3>2, <3>3
  <2>3. Resolved'
    BY <1>1, <1>3, <2>2 DEF Resolved
  <2> QED BY <1>1, <1>3, <2>1, <2>3 DEF VolInv
<1>10. CASE ~(e = Free \/ level = b)
  <2>1. level = 1 /\ b = 2
    <3>1. b = 1 \/ b = 2
      BY <1>2
    <3>2. CASE b = 1
      BY <1>4, <1>10, <3>2
    <3>3. CASE b = 2
      BY <1>4, <1>10, <3>3
    <3> QED BY <3>1, <3>2, <3>3
  <2>2. PICK i \in Items : e = EntryOf(i) /\ ItemNamed(volume.root, parts[1]) = {i}
    BY <1>7, <1>10, <2>1
  <2>3. ChainOnDisk(e.cluster) /\ read_cluster_chain(e.cluster) = Held(i)
    BY <1>1, <2>2, ChainRead
  <2>4. level' = 2 /\ cldata' = Held(i) /\ past' \in Beyond /\ vpc' = "find_dir"
    BY <1>1, <1>8, <1>10, <2>1, <2>3 DEF e
  <2>5. Searching'
    <3>1. ItemNamed(volume.root, parts[1])' = ItemNamed(volume.root, parts[1])
      BY <1>3 DEF ItemNamed
    <3>2. i \in Items' /\ cldata' = Held(i)' /\ Len(parts') = 2
      BY <1>3, <2>1, <2>4
    <3> QED BY <1>3, <2>2, <2>4, <3>1, <3>2 DEF Searching
  <2> QED BY <1>1, <1>3, <2>4, <2>5 DEF VolInv
<1> QED BY <1>9, <1>10

\* What fat_open makes of an item's entry is the item.
LEMMA OpenedIs ==
    ASSUME WellMade, NEW i \in Items, dir = EntryOf(i)
    PROVE  /\ Opened # Unopened
           /\ (IF Opened.kind = "listing" THEN Opened.listing ELSE <<Opened.cluster, Opened.size>>) = Meant(i)
<1>1. dir.kind = i.kind /\ i.kind \in ItemKinds /\ dir.size = i.size
  BY EntryNotFree
<1>2. CASE i.kind = "dir"
  <2>1. ListedSlots = read_cluster_chain(EntryOf(i).cluster)
    BY <1>1, <1>2 DEF ListedSlots
  <2>2. Contents(ListedSlots) = ListingOf(i.list)
    BY <1>2, <2>1, ListingOfDir
  <2> DEFINE c == Contents(ListedSlots)
  <2>3. Opened = [kind |-> "listing", cluster |-> FatClusterEnd, size |-> Len(c), listing |-> c]
    BY <1>1, <1>2 DEF Opened
  <2>4. Meant(i) = ListingOf(i.list)
    BY <1>2 DEF Meant
  <2> HIDE DEF c
  <2>5. Opened.kind = "listing" /\ Opened.listing = c /\ Opened # Unopened
    BY <2>3 DEF Unopened
  <2> QED BY <2>2, <2>4, <2>5 DEF c
<1>3. CASE i.kind = "vol"
  <2>1. Contents(ListedSlots) = ListingOf(volume.root)
    BY <1>1, <1>3, ListingOfRoot DEF ListedSlots
  <2> DEFINE c == Contents(ListedSlots)
  <2>3. Opened = [kind |-> "listing", cluster |-> FatClusterEnd, size |-> Len(c), listing |-> c]
    BY <1>1, <1>3 DEF Opened
  <2>4. Meant(i) = ListingOf(volume.root)
    BY <1>3 DEF Meant
  <2> HIDE DEF c
  <2>5. Opened.kind = "listing" /\ Opened.listing = c /\ Opened # Unopened
    BY <2>3 DEF Unopened
  <2> QED BY <2>1, <2>4, <2>5 DEF c
<1>4. CASE i.kind # "dir" /\ i.kind # "vol"
  <2>1. Opened = [kind |-> "file", cluster |-> dir.cluster, size |-> dir.size, listing |-> <<>>]
    BY <1>1, <1>4 DEF Opened
  <2>2. Meant(i) = <<EntryOf(i).cluster, i.size>>
    BY <1>4 DEF Meant
  <2>3. Opened.kind = "file" /\ Opened.cluster = dir.cluster /\ Opened.size = dir.size /\ Opened # Unopened
    BY <2>1 DEF Unopened
  <2> QED BY <1>1, <2>2, <2>3
<1> QED BY <1>2, <1>3, <1>4

LEMMA FatOpenStep ==
    ASSUME VolInv, FatOpen
    PROVE  VolInv'
<1>1. /\ WellMade /\ vpc = "fat_open" /\ asked \in Paths /\ parts = PathParts(asked) /\ Resolved
  BY DEF VolInv, FatOpen
<1>2. /\ volume' = volume /\ asked' = asked /\ parts' = parts /\ WellMade'
      /\ Leads(asked)' = Leads(asked) /\ \A i : Meant(i)' = Meant(i)
  <2>1. volume' = volume /\ asked' = asked /\ parts' = parts
    BY DEF FatOpen
  <2>2. Leads(asked)' = Leads(asked)
    BY <2>1 DEF Leads
  <2>3. \A i : Meant(i)' = Meant(i)
    BY <2>1 DEF Meant
  <2> QED BY <1>1, <2>1, <2>2, <2>3, SameDisk
<1>3. parts # <<>> /\ asked \in Seq(STRING)
  <2>1. asked \in Seq(STRING)
    BY <1>1, VolAssumption
  <2>2. Len(parts) \in {1, 2}
    BY <1>1, <2>1, PartsShape
  <2> QED BY <2>1, <2>2
<1>4. (IF Tidy(asked) THEN Leads(asked) ELSE {}) = Leads(asked)
  BY <1>1, <1>3, UntidyNowhere
<1>5. FatOpen => IF dir = Free THEN handle' = Unopened /\ vpc' = "ready"
                 ELSE IF dir.kind = "dir" /\ ~ChainOnDisk(dir.cluster) THEN vpc' = "panicked"
                 ELSE handle' = Opened /\ vpc' = "ready"
  BY DEF FatOpen
<1>6. ASSUME NEW i \in Items, dir = EntryOf(i)
      PROVE  vpc' = "ready" /\ handle' # Unopened /\ Got' = Meant(i)
  <2>1. dir # Free /\ ChainOnDisk(dir.cluster)
    BY <1>1, <1>6, EntryNotFree, ChainRead
  <2>2. handle' = Opened /\ vpc' = "ready"
    BY <1>5, <2>1
  <2>3. Got' = IF Opened.kind = "listing" THEN Opened.listing ELSE <<Opened.cluster, Opened.size>>
    BY <2>2 DEF Got
  <2> QED BY <1>1, <1>6, <2>2, <2>3, OpenedIs
<1>7. CASE parts = <<NoPart>>
  <2> DEFINE i == volume.root[1]
  <2>1. i \in Items /\ i.kind = "vol"
    <3>1. i \in ToSet(volume.root)
      <4>1. Len(volume.root) \in Nat /\ Len(volume.root) # 0
        BY <1>1 DEF WellMade, ListMade
      <4>2. 1 \in DOMAIN volume.root
        BY <1>1, <4>1 DEF WellMade, ListMade
      <4> QED BY <4>2 DEF ToSet
    <3> QED BY <1>1, <3>1 DEF Items, WellMade
  <2>2. dir = EntryOf(i)
    BY <1>1, <1>7 DEF Resolved
  <2>3. Meant(i) = ListingOf(volume.root)
    BY <2>1 DEF Meant
  <2> HIDE DEF i
  <2>4. vpc' = "ready" /\ Got' = ListingOf(volume.root)
    BY <1>6, <2>1, <2>2, <2>3
  <2>5. Delivered'
    BY <1>2, <1>3, <1>7, <2>4 DEF Delivered
  <2> QED BY <1>2, <2>4, <2>5 DEF VolInv
<1>8. CASE parts # <<NoPart>>
  <2>1. CASE dir = Free /\ Leads(asked) = {}
    <3>1. handle' = Unopened /\ vpc' = "ready"
      BY <1>5, <2>1
    <3>2. Delivered'
      <4>1. {handle'} \ {Unopened} = {}
        BY <3>1
      <4>2. (IF Tidy(asked) THEN Leads(asked)' ELSE {}) = {}
        BY <1>2, <2>1
      <4> QED BY <1>2, <1>3, <1>8, <4>1, <4>2 DEF Delivered
    <3> QED BY <1>2, <3>1, <3>2 DEF VolInv
  <2>2. CASE \E i \in Items : dir = EntryOf(i) /\ Leads(asked) = {i}
    <3>1. PICK i \in Items : dir = EntryOf(i) /\ Leads(asked) = {i}
      BY <2>2
    <3>2. vpc' = "ready" /\ handle' # Unopened /\ Got' = Meant(i)
      BY <1>6, <3>1
    <3>3. Delivered'
      <4>1. {handle'} \ {Unopened} = {handle'}
        BY <3>2
      <4>2. (IF Tidy(asked) THEN Leads(asked)' ELSE {}) = {i}
        BY <1>2, <1>4, <3>1
      <4>3. {Meant(j)' : j \in {i}} = {Got'}
        BY <1>2, <3>2
      <4> QED BY <1>2, <1>3, <1>8, <4>1, <4>2, <4>3 DEF Delivered
    <3> QED BY <1>2, <3>2, <3>3 DEF VolInv
  <2> QED BY <1>1, <1>8, <2>1, <2>2 DEF Resolved
<1> QED BY <1>7, <1>8

LEMMA CloseStep ==
    ASSUME VolInv, fs_close
    PROVE  VolInv'
<1>1. WellMade' /\ vpc' = "ready" /\ parts' = <<>> /\ handle' = Unopened
  BY SameDisk DEF VolInv, fs_close
<1>2. Delivered'
  BY <1>1 DEF Delivered
<1> QED BY <1>1, <1>2 DEF VolInv

LEMMA StillStep ==
    ASSUME VolInv, UNCHANGED volvars
    PROVE  VolInv'
<1>1. /\ volume' = volume /\ vpc' = vpc /\ asked' = asked /\ parts' = parts /\ level' = level
      /\ cldata' = cldata /\ past' = past /\ dir' = dir /\ handle' = handle
  BY DEF volvars
<1>2. /\ WellMade' <=> WellMade
      /\ Items' = Items /\ RootDirectory' = RootDirectory
      /\ Leads(asked)' = Leads(asked) /\ \A i : Held(i)' = Held(i)
  <2>1. Leads(asked)' = Leads(asked)
    BY <1>1 DEF Leads
  <2> QED BY <1>1, <2>1, SameDisk
<1>3. Delivered' <=> Delivered
  <2>1. Got' = Got
    BY <1>1 DEF Got
  <2>2. \A i : Meant(i)' = Meant(i)
    BY <1>1 DEF Meant
  <2> DEFINE S == IF Tidy(asked) THEN Leads(asked) ELSE {}
             M == {Meant(i) : i \in S}
             G == {Got : h \in {handle} \ {Unopened}}
  <2>3. S' = S
    BY <1>1, <1>2
  <2> HIDE DEF S
  <2>4. M' = M
    BY <2>2, <2>3
  <2>5. G' = G
    BY <1>1, <2>1
  <2> HIDE DEF M, G
  <2>6. Delivered <=> IF parts = <<>> THEN handle = Unopened
                      ELSE IF parts = <<NoPart>> THEN Got = ListingOf(volume.root) ELSE G = M
    BY DEF Delivered, G, M, S
  <2>7. Delivered' <=> IF parts' = <<>> THEN handle' = Unopened
                       ELSE IF parts' = <<NoPart>> THEN Got' = ListingOf(volume'.root) ELSE G' = M'
    BY DEF Delivered, G, M, S
  <2> QED BY <1>1, <2>1, <2>4, <2>5, <2>6, <2>7
<1>4. Searching' <=> Searching
  BY <1>1, <1>2 DEF Searching
<1>5. Resolved' <=> Resolved
  BY <1>1, <1>2 DEF Resolved
<1> QED BY <1>1, <1>2, <1>3, <1>4, <1>5 DEF VolInv

\* VolInv is what every step of fs_open, find_dir, fat_open and fs_close keeps.
THEOREM VolInvariance == ASSUME NothingBehind PROVE VolSpec => []VolInv
<1>1. VolInv /\ [VolNext]_volvars => VolInv'
  BY OpenStep, RootStep, PartStep, FatOpenStep, CloseStep, StillStep DEF VolNext
<1> QED BY <1>1, VolInvInit, PTL DEF VolSpec

\* On every volume that mkfs.fat and mcopy make, however many sectors, clusters, files and
\* names it has, fs_open gives for every path what the tree has there, and stops at nothing.
THEOREM OpensWhatTreeSaysHolds == ASSUME NothingBehind PROVE VolSpec => []OpensWhatTreeSays
<1>1. VolInv => OpensWhatTreeSays
  BY DEF VolInv, OpensWhatTreeSays, Delivered
<1> QED BY <1>1, VolInvariance, PTL
=============================================================================
