------------------------------- MODULE FatFile -------------------------------
(***************************************************************************)
(* Reading an open file of a FAT16 filesystem: the cursor of fat_read in   *)
(* kern/fs/fat.c over the file's chain of clusters, and the loop of        *)
(* fs_read_full in kern/fs/fs.c that reads a file to its end into a block  *)
(* that grows.                                                             *)
(*                                                                         *)
(* Byte p of the file is p, and the i-th cluster of its chain is i, from   *)
(* 0: it holds the bytes from i * clbytes on.  The chain ends at ChainEnd, *)
(* which stands for any cluster number from FAT_CLUSTER_END up.            *)
(***************************************************************************)
EXTENDS Integers, SequencesExt

CONSTANTS
    Sizes,          \* sizes of files
    ClusterSizes,   \* bytes_per_cluster
    Missing,        \* how many clusters a chain lacks: 0 when it is whole
    Reads,          \* what fs_read may be asked for
    Chunks          \* chunk_size of fs_read_full

ASSUME FileAssumption ==
    /\ Sizes \subseteq Nat /\ ClusterSizes \subseteq Nat \ {0} /\ Missing \subseteq Nat
    /\ Reads \subseteq Nat \ {0} /\ Chunks \subseteq Nat \ {0}

VARIABLES
    chunk,          \* chunk_size
    clbytes,        \* bytes_per_cluster
    listing,        \* the file is a directory: dir_contents is its listing
    size,           \* the file's size
    chain,          \* the number of clusters in its chain
    cluster,        \* current_cluster
    offset,         \* current_offset
    got,            \* what the last read put into the buffer
    fpc,            \* "ready", or inside "fs_read_full"
    room,           \* fs_read_full: the size of its block
    count,          \* fs_read_full: its offset into the block
    filled,         \* fs_read_full: what it has put there
    from            \* ghost: current_offset when it began

file == <<chunk, clbytes, listing, size, chain>>
reader == <<fpc, room, count, filled, from>>
filevars == <<file, cluster, offset, got, reader>>

ChainEnd == chain
Garbage == -1

Least(m, n) == IF m <= n THEN m ELSE n
Needed(s, c) == (s + c - 1) \div c

FileTypeOK ==
    /\ chunk \in Chunks /\ clbytes \in ClusterSizes /\ size \in Sizes /\ listing \in BOOLEAN
    /\ chain \in 0 .. Needed(size, clbytes)
    /\ cluster \in 0 .. chain
    /\ offset \in 0 .. size
    /\ got \in Seq(0 .. size - 1)
    /\ fpc \in {"ready", "fs_read_full"}
    /\ room \in Nat /\ count \in Nat /\ from \in 0 .. size
    /\ filled \in Seq(0 .. size - 1)

\* fat_open
FileInit ==
    /\ chunk \in Chunks /\ clbytes \in ClusterSizes /\ size \in Sizes /\ listing \in BOOLEAN
    /\ \E m \in Missing : m <= Needed(size, clbytes) /\ chain = Needed(size, clbytes) - m
    /\ cluster = (IF listing THEN ChainEnd ELSE 0)
    /\ offset = 0 /\ got = <<>>
    /\ fpc = "ready" /\ room = 0 /\ count = 0 /\ filled = <<>> /\ from = 0
----------------------------------------------------------------------------
(* fat_read *)

\* n bytes of cluster c, from byte i of it on.
Bytes(c, i, n) ==
    [j \in 1 .. n |-> IF c < chain THEN c * clbytes + i + j - 1 ELSE Garbage]

\* next_cluster
NextCluster(c) == IF c < ChainEnd THEN c + 1 ELSE ChainEnd

\* MIN(size, ffile->size - ffile->current_offset), a difference that wraps around.
Asked(n) == IF offset <= size THEN Least(n, size - offset) ELSE n

\* The offset within the current cluster.
Within == offset % clbytes

\* The cluster behind the n bytes taken from the current one.
AfterFirst(n) ==
    IF n = clbytes - Within THEN NextCluster(cluster) ELSE cluster

\* Mutation: the loop also takes a last cluster in part.
Rounds_TooMany(remaining) == (remaining + clbytes - 1) \div clbytes

\* How often the loop over full clusters runs with so much remaining: it stops
\* short of the last cluster, be it full.
Rounds(remaining) == IF remaining = 0 THEN 0 ELSE (remaining - 1) \div clbytes

\* What a read of n bytes does: the bytes it returns, and the cluster and the offset it
\* leaves behind.  Where the chain ends early it counts from n and not from what the file
\* had left: it returns more than it copied, the rest being what the buffer held before.
FatRead(n) ==
    LET want  == Asked(n)
        first == Least(clbytes - Within, want)
        c     == AfterFirst(first)
        k     == Least(Rounds(want - first), ChainEnd - c)
        rest  == want - first - k * clbytes
        whole == k = Rounds(want - first)
        head  == Bytes(cluster, Within, first) \o Bytes(c, 0, k * clbytes)
    IN  IF whole
        THEN [data |-> head \o Bytes(c + k, 0, rest), cluster |-> c + k,
              offset |-> offset + want]
        ELSE [data |-> head \o [j \in 1 .. n - want |-> Garbage], cluster |-> ChainEnd,
              offset |-> offset + n - rest]

\* read_contents
ReadContents(n) ==
    LET k == IF offset >= size THEN 0 ELSE Least(size - offset, n)
    IN  [data |-> [j \in 1 .. k |-> offset + j - 1], cluster |-> cluster,
         offset |-> offset + k]

NoRead == [data |-> <<>>, cluster |-> cluster, offset |-> offset]

\* What fs_read does: at the end of the file, of a directory, of a file.
Outcome(n) ==
    IF Asked(n) = 0 THEN NoRead ELSE IF listing THEN ReadContents(n) ELSE FatRead(n)

Became(r) == cluster' = r.cluster /\ offset' = r.offset /\ got' = r.data

fs_read(n) ==
    /\ fpc = "ready"
    /\ Became(Outcome(n))
    /\ UNCHANGED <<file, reader>>
----------------------------------------------------------------------------
(* fs_read_full *)

FullBegin ==
    /\ fpc = "ready"
    /\ fpc' = "fs_read_full"
    /\ room' = chunk /\ count' = 0 /\ filled' = <<>> /\ from' = offset
    /\ UNCHANGED <<file, cluster, offset, got>>

\* Mutation: the block has room for what was read.
Grown_Tight(n) == n

\* krealloc to size + chunk_size, size being chunk_size and the bytes read.
Grown(n) == chunk + n + chunk

\* Mutations: the first read that is not a full chunk ends the loop, and is dropped;
\* only a negative number does, which a size_t never is.
Ends_Short(n) == n < chunk
Ends_Negative(n) == n < 0

\* read <= 0, of a size_t.
Ends(n) == n = 0

\* One round of the loop; the last one cuts the block down to the bytes read.
FullStep ==
    /\ fpc = "fs_read_full"
    /\ LET r == Outcome(chunk)
           n == Len(r.data)
       IN  /\ Became(r)
           /\ IF Ends(n)
              THEN /\ fpc' = "ready" /\ room' = count
                   /\ UNCHANGED <<count, filled>>
              ELSE /\ count' = count + n
                   /\ filled' = filled \o r.data
                   /\ room' = Grown(count')
                   /\ UNCHANGED fpc
    /\ UNCHANGED <<file, from>>

FileNext ==
    \/ \E n \in Reads : fs_read(n)
    \/ FullBegin
    \/ FullStep

\* The loop runs on by itself.
FileSpec == FileInit /\ [][FileNext]_filevars /\ WF_filevars(FullStep)
----------------------------------------------------------------------------
(***************************************************************************)
(* Properties.                                                             *)
(***************************************************************************)

\* A file read through clusters, in pieces of any sizes, is read as one sequence
\* of bytes: fat_read implements AbstractFile.
File == INSTANCE AbstractFile
            WITH position <- offset, Reads <- Reads \cup Chunks
ImplementsFile == File!Spec

\* current_cluster is the cluster of current_offset: "the current cluster that is
\* being read" and "the current offset into the file" (struct fat_file).
CursorInStep == ~listing /\ offset < size => cluster = offset \div clbytes

\* "the current offset into the file (absolute, in bytes)" (struct fat_file), which a chain
\* that ends early takes beyond the file.
OffsetIntoFile == offset <= size

\* fs_read_full returns what is left of the file, all of it and nothing else, and its block
\* always has room for the whole chunk that the next read may bring.
FullReadExact ==
    /\ fpc = "fs_read_full" => count + chunk <= room
    /\ fpc = "ready" => /\ filled = [i \in 1 .. count |-> from + i - 1]
                        /\ room > 0 => from + count = size

\* fs_read_full comes to the end of every file.
FullReadEnds == fpc = "fs_read_full" ~> fpc = "ready"
=============================================================================
