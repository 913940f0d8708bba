------------------------------ MODULE FatVolume ------------------------------
(***************************************************************************)
(* Opening a path on a FAT16 volume: fs_open of kern/fs/fs.c, and the      *)
(* search of directories, the listing of one and the arithmetic of sectors *)
(* and clusters in kern/fs/fat.c.                                          *)
(*                                                                         *)
(* A volume is given as the tree its maker meant, with the clusters every  *)
(* file and directory occupies.  Sector lays the tree out on the disk as   *)
(* mkfs.fat does; the code sees sectors only.  A name is a symbol and an   *)
(* extension, an entry of a directory one slot of a sector.                *)
(***************************************************************************)
EXTENDS Integers, SequencesExt

CONSTANTS
    Volumes,        \* volumes: records of geometry, end mark and tree
    Paths,          \* paths asked for: sequences of name symbols, "/" and "."
    PerSector,      \* directory entries in a sector: 512 / 32
    PerFatSector,   \* entries of the FAT in a sector: 512 / 2
    FatClusterEnd,  \* FAT_CLUSTER_END, the least of the end marks
    Beyond          \* what may lie in memory behind a buffer, read as an entry

ASSUME VolAssumption ==
    /\ PerSector \in Nat \ {0} /\ PerFatSector \in Nat \ {0} /\ FatClusterEnd \in Nat
    /\ Paths \subseteq Seq(STRING)

VARIABLES
    volume,         \* the volume
    vpc,            \* what is going on
    asked,          \* the path fs_open was called with
    parts,          \* parts: each a sequence of symbols, or NoPart
    level,          \* i of find_dir
    cldata,         \* the directory find_dir searches: its slots
    past,           \* what lies behind cldata in memory
    dir,            \* the entry found
    outside,        \* it was found behind the end of the buffer
    handle,         \* the open file, or Unopened
    allocated       \* the blocks that kalloc gave and nobody has freed

volvars == <<volume, vpc, asked, parts, level, cldata, past, dir, outside, handle, allocated>>

Null == "NULL"
NoName == <<Null, Null>>
NoPart == <<Null>>
Free == [name |-> NoName, kind |-> "free", cluster |-> 0, size |-> 0]
Junk == [name |-> <<"junk", Null>>, kind |-> "file", cluster |-> 0, size |-> 0]
Unopened == [kind |-> "none", cluster |-> 0, size |-> 0, listing |-> <<>>]
----------------------------------------------------------------------------
(* The disk, as mkfs.fat and mcopy write it. *)

\* The entry a file or directory has in its parent.
EntryOf(item) ==
    [name |-> item.name, kind |-> item.kind, size |-> item.size,
     cluster |-> IF item.chain = <<>> THEN 0 ELSE Head(item.chain)]

Items == ToSet(volume.root) \cup UNION {ToSet(i.list) : i \in ToSet(volume.root)}

RootSectors == (volume.rootEntries + PerSector - 1) \div PerSector

\* Slots from .. from + PerSector - 1 of a directory.
SlotsOf(items, from) ==
    [j \in 1 .. PerSector |->
        IF from + j <= Len(items) THEN EntryOf(items[from + j]) ELSE Free]

\* What follows cluster c in its chain.
Following(c) ==
    LET i == CHOOSE i \in Items : c \in ToSet(i.chain)
        k == CHOOSE k \in DOMAIN i.chain : i.chain[k] = c
    IN  IF k = Len(i.chain) THEN volume.mark ELSE i.chain[k + 1]

FatSlot(c) == IF \E i \in Items : c \in ToSet(i.chain) THEN Following(c) ELSE 0

\* A sector of the data area: the k-th of cluster c.
DataSector(c, k) ==
    LET owners == {i \in Items : c \in ToSet(i.chain)}
        i == CHOOSE i \in owners : TRUE
        n == CHOOSE n \in DOMAIN i.chain : i.chain[n] = c
    IN  IF owners # {} /\ i.kind = "dir"
        THEN SlotsOf(i.list, ((n - 1) * volume.spc + k) * PerSector)
        ELSE [j \in 1 .. PerSector |-> Junk]

\* The sectors of the partition: reserved ones, the FATs, the root, the clusters.
Sector(s) ==
    LET fat  == volume.reserved
        root == fat + volume.fats * volume.fatSectors
        data == root + RootSectors
    IN  IF s < fat THEN [j \in 1 .. PerSector |-> Junk]
        ELSE IF s < root
        THEN LET f == (s - fat) % volume.fatSectors
             IN  [j \in 1 .. PerFatSector |-> FatSlot(f * PerFatSector + j - 1)]
        ELSE IF s < data THEN SlotsOf(volume.root, (s - root) * PerSector)
        ELSE DataSector((s - data) \div volume.spc + 2, (s - data) % volume.spc)

\* blkdev->read of n sectors, and whether the disk has them: its read asserts so.
OnDisk(lba, n) == lba >= volume.start /\ lba + n <= volume.start + volume.sectors
DriveRead(lba, n) == FlattenSeq([k \in 1 .. n |-> Sector(lba - volume.start + k - 1)])
----------------------------------------------------------------------------
(* fat.c: sectors and clusters. *)

FatStartSector == volume.reserved
NrRootDirSectors == ((volume.rootEntries * 32) + (32 * PerSector - 1)) \div (32 * PerSector)

DataStartSector == volume.reserved + volume.fats * volume.fatSectors + NrRootDirSectors
RootDirSector == DataStartSector - NrRootDirSectors

sector_of_cluster(c) == (c - 2) * volume.spc + DataStartSector

ClusterOnDisk(c) == OnDisk(volume.start + sector_of_cluster(c), volume.spc)
read_cluster(c) == DriveRead(volume.start + sector_of_cluster(c), volume.spc)

next_cluster(c) ==
    DriveRead(volume.start + FatStartSector + (c \div PerFatSector), 1)[(c % PerFatSector) + 1]

\* Mutation: only the first cluster of a directory is read.
Follows_First(cs) == FALSE

\* The loop of read_cluster_chain goes on behind these clusters.
Follows(cs) == LET c == next_cluster(Last(cs)) IN c > 0 /\ c <= FatClusterEnd

\* The clusters read_cluster_chain reads from c on, up to one the disk has not.
Chain(c) ==
    LET from[n \in 0 .. volume.sectors] ==
            IF n = 0 THEN IF c > 0 THEN <<c>> ELSE <<>>
            ELSE LET cs == from[n - 1]
                 IN  IF cs = <<>> \/ ~ClusterOnDisk(Last(cs)) \/ ~Follows(cs)
                     THEN cs ELSE Append(cs, next_cluster(Last(cs)))
    IN  from[volume.sectors]

ChainOnDisk(c) == \A k \in DOMAIN Chain(c) : ClusterOnDisk(Chain(c)[k])
read_cluster_chain(c) == FlattenSeq([k \in DOMAIN Chain(c) |-> read_cluster(Chain(c)[k])])

\* The root directory, as find_dir and get_dir_contents read it.
RootDirectory == DriveRead(volume.start + RootDirSector, NrRootDirSectors)
----------------------------------------------------------------------------
(* The volumes that mkfs.fat and mcopy make. *)

GeometryMade ==
    /\ volume.start \in Nat /\ volume.sectors \in Nat /\ volume.reserved \in Nat
    /\ volume.fats \in Nat \ {0} /\ volume.fatSectors \in Nat \ {0}
    /\ volume.rootEntries \in Nat /\ volume.spc \in Nat \ {0}
    /\ volume.mark \in Nat /\ volume.mark > FatClusterEnd

ItemKinds == {"file", "dir", "vol", "hidden"}

\* The items of a directory: names tell them apart.
ListMade(items) ==
    /\ items \in Seq(ToSet(items))
    /\ \A i \in ToSet(items) : i.kind \in ItemKinds
    /\ \A i, j \in ToSet(items) : i.name = j.name => i = j

\* The clusters of an item: on the disk, in the FAT, each once.
ChainMade(i) ==
    /\ i.chain \in Seq(Nat) /\ Len(i.chain) <= volume.sectors
    /\ \A k \in DOMAIN i.chain :
          /\ i.chain[k] \in 2 .. FatClusterEnd /\ i.chain[k] \div PerFatSector < volume.fatSectors
          /\ ClusterOnDisk(i.chain[k])
    /\ \A k, l \in DOMAIN i.chain : i.chain[k] = i.chain[l] => k = l

ItemMade(i) ==
    /\ i.name # NoName /\ i.name[1] # "/" /\ i.name[2] # "/"
    /\ ChainMade(i) /\ ListMade(i.list)
    /\ i.kind # "dir" => i.list = <<>>
    /\ Len(i.list) <= Len(i.chain) * (volume.spc * PerSector)

\* The label is the first entry of the root, and no cluster is two items'.
WellMade ==
    /\ GeometryMade
    /\ ListMade(volume.root) /\ Len(volume.root) <= RootSectors * PerSector
    /\ volume.root # <<>> /\ volume.root[1].kind = "vol"
    /\ \A i \in Items : ItemMade(i)
    /\ \A i, j \in Items : ToSet(i.chain) \cap ToSet(j.chain) # {} => i = j
----------------------------------------------------------------------------
(* fs_open: the path is cut into parts. *)

\* strtok(pathbuf, "/"): the first name, separators before it skipped, and what is
\* behind the separator that ends it.
FirstAt(p) == IF \E i \in DOMAIN p : p[i] # "/"
              THEN CHOOSE i \in DOMAIN p : p[i] # "/" /\ \A j \in 1 .. i - 1 : p[j] = "/"
              ELSE 0
FirstEnd(p) == LET ends == {i \in FirstAt(p) .. Len(p) : p[i] = "/"}
               IN  IF ends = {} THEN Len(p) + 1 ELSE CHOOSE i \in ends : \A j \in ends : i <= j

\* The rest is cut at spaces, which no path has: it is one part, separators included.
PathParts(p) ==
    IF FirstAt(p) = 0 THEN <<NoPart>>
    ELSE LET rest == SubSeq(p, FirstEnd(p) + 1, Len(p))
         IN  <<SubSeq(p, FirstAt(p), FirstEnd(p) - 1)>> \o (IF rest = <<>> THEN <<>> ELSE <<rest>>)

\* namebuf: the name and the extension behind the dot, as a directory has them.
NameOf(part) ==
    CASE Len(part) = 1 -> <<part[1], Null>>
      [] Len(part) = 3 /\ part[2] = "." -> <<part[1], part[3]>>
      [] OTHER -> NoName

\* Where find_dir_ent stops in a buffer: at a free entry, at one with the name, or
\* behind the last one, which it still looks at.
StopsAt(part, slots) ==
    CHOOSE i \in 1 .. Len(slots) + 1 :
        /\ i = Len(slots) + 1 \/ slots[i].kind = "free" \/ slots[i].name = NameOf(part)
        /\ \A j \in 1 .. i - 1 : slots[j].kind # "free" /\ slots[j].name # NameOf(part)

\* What find_dir_ent returns, found behind the buffer or not; Free stands for NULL.
FindDirEnt(part, slots, behind) ==
    LET e == (slots \o <<behind>>)[StopsAt(part, slots)]
    IN  IF e.kind # "free" /\ e.name = NameOf(part) THEN e ELSE Free

\* What lies in memory behind a buffer, or in a file where entries are looked for, does
\* not have a name that is asked for.
NothingBehind ==
    \A p \in Paths : \A k \in DOMAIN PathParts(p) :
        /\ NameOf(PathParts(p)[k]) # Junk.name
        /\ \A e \in Beyond : e.kind = "free" \/ e.name # NameOf(PathParts(p)[k])

Kinds == {"file", "dir", "vol", "hidden", "free"}

VolTypeOK ==
    /\ volume \in Volumes
    /\ vpc \in {"ready", "find_dir", "fat_open", "panicked"}
    /\ asked \in Paths /\ level \in 0 .. Len(parts) /\ Len(parts) <= 2
    /\ ToSet(cldata) \cup {past, dir} \subseteq [name : Seq(STRING), kind : Kinds, cluster : Nat, size : Nat]
    /\ outside \in BOOLEAN
    /\ handle.kind \in {"none", "file", "listing"}
    /\ allocated \subseteq {"pathbuf", "parts", "cldata", "ret", "file", "contents", "handle"}

VolInit ==
    /\ volume \in Volumes /\ WellMade
    /\ vpc = "ready" /\ asked = <<>> /\ parts = <<>> /\ level = 0
    /\ cldata = <<>> /\ past = Free /\ dir = Free /\ outside = FALSE
    /\ handle = Unopened /\ allocated = {}

\* fs_open, up to the search; find_dir has read the root directory.
fs_open(p) ==
    /\ vpc = "ready" /\ handle = Unopened
    /\ asked' = p /\ parts' = PathParts(p) /\ level' = 1
    /\ cldata' = RootDirectory /\ past' \in Beyond /\ dir' = Free /\ outside' = FALSE
    /\ allocated' = {"pathbuf", "parts", "cldata"}
    /\ vpc' = "find_dir"
    /\ UNCHANGED <<volume, handle>>

\* find_dir gives the entry to fat_open; Free stands for NULL.
Found(e) ==
    /\ dir' = e
    /\ allocated' = (allocated \ {"cldata"}) \cup (IF e = Free THEN {} ELSE {"ret"})
    /\ vpc' = "fat_open"
    /\ UNCHANGED <<level, cldata, past>>

\* "special case for the root directory": the first entry of the root.
FindRoot ==
    /\ vpc = "find_dir" /\ parts = <<NoPart>>
    /\ dir' = RootDirectory[1] /\ allocated' = (allocated \ {"cldata"}) \cup {"ret"} /\ vpc' = "fat_open"
    /\ UNCHANGED <<volume, asked, parts, level, cldata, past, outside, handle>>

\* One round of find_dir's loop over the parts.
FindPart ==
    /\ vpc = "find_dir" /\ parts # <<NoPart>>
    /\ LET e == FindDirEnt(parts[level], cldata, past)
       IN  /\ outside' = (e # Free /\ StopsAt(parts[level], cldata) > Len(cldata))
           /\ IF e = Free \/ level = Len(parts) THEN Found(e)
              ELSE IF ~ChainOnDisk(e.cluster)
              THEN vpc' = "panicked" /\ UNCHANGED <<level, cldata, past, dir, allocated>>
              ELSE /\ level' = level + 1
                   /\ cldata' = read_cluster_chain(e.cluster) /\ past' \in Beyond
                   /\ UNCHANGED <<vpc, dir, allocated>>
    /\ UNCHANGED <<volume, asked, parts, handle>>

\* The loop of get_dir_contents leaves hidden entries out.
Visible(entries) ==
    FoldLeft(LAMBDA s, e : IF e.kind = "hidden" THEN s ELSE Append(s, e), <<>>, entries)

\* get_dir_contents: the entries up to the first free one.
InListing(slots) ==
    LET frees == {i \in DOMAIN slots : slots[i].kind = "free"}
        n     == IF frees = {} THEN Len(slots)
                 ELSE (CHOOSE i \in frees : \A j \in frees : i <= j) - 1
    IN  Visible(SubSeq(slots, 1, n))

ListingLine(e) == <<e.name, e.kind>>
Contents(slots) == [i \in DOMAIN InListing(slots) |-> ListingLine(InListing(slots)[i])]

\* The root has no entry that points to it.
ListedSlots == IF dir.kind = "vol" THEN RootDirectory ELSE read_cluster_chain(dir.cluster)

\* What fat_open makes of the entry.
Opened ==
    IF dir.kind \in {"dir", "vol"}
    THEN [kind |-> "listing", cluster |-> FatClusterEnd, size |-> Len(Contents(ListedSlots)),
          listing |-> Contents(ListedSlots)]
    ELSE [kind |-> "file", cluster |-> dir.cluster, size |-> dir.size, listing |-> <<>>]

\* Mutation: find_dir's copy of the entry is kept.
FreedByOpen_NotRet == {"pathbuf", "parts"}

\* What fat_open and fs_open free on the way out.
FreedByOpen == {"pathbuf", "parts", "ret"}

OpenedBlocks == {"file", "handle"} \cup (IF dir.kind \in {"dir", "vol"} THEN {"contents"} ELSE {})

\* fat_open behind find_dir, and the end of fs_open.
FatOpen ==
    /\ vpc = "fat_open"
    /\ IF dir = Free
       THEN handle' = Unopened /\ allocated' = allocated \ FreedByOpen /\ vpc' = "ready"
       ELSE IF dir.kind = "dir" /\ ~ChainOnDisk(dir.cluster)
       THEN vpc' = "panicked" /\ UNCHANGED <<handle, allocated>>
       ELSE handle' = Opened /\ allocated' = (allocated \ FreedByOpen) \cup OpenedBlocks /\ vpc' = "ready"
    /\ UNCHANGED <<volume, asked, parts, level, cldata, past, dir, outside>>

\* fs_close and fat_close.
fs_close ==
    /\ vpc = "ready" /\ handle # Unopened
    /\ allocated' = allocated \ {"contents", "file", "handle"}
    /\ handle' = Unopened /\ asked' = <<>> /\ parts' = <<>> /\ level' = 0 /\ cldata' = <<>>
    /\ past' = Free /\ dir' = Free /\ outside' = FALSE
    /\ UNCHANGED <<volume, vpc>>

VolNext == (\E p \in Paths : fs_open(p)) \/ FindRoot \/ FindPart \/ FatOpen \/ fs_close

VolSpec == VolInit /\ [][VolNext]_volvars
----------------------------------------------------------------------------
(***************************************************************************)
(* Properties.                                                             *)
(***************************************************************************)

\* The names of a path that is none, one or two of them, separators before and after.
Tidy(p) == Len(PathParts(p)) <= 2 /\ PathParts(p)[Len(PathParts(p))] # <<>> /\
           \A i \in DOMAIN PathParts(p) : "/" \notin ToSet(PathParts(p)[i])

ItemNamed(items, part) ==
    LET named == {i \in ToSet(items) : NameOf(part) = i.name}
    IN  IF named = {} THEN {} ELSE {items[CHOOSE k \in DOMAIN items : items[k] \in named]}

\* The items of the tree a path leads to: one or none.
Leads(p) ==
    IF Len(PathParts(p)) = 1 THEN ItemNamed(volume.root, PathParts(p)[1])
    ELSE UNION {ItemNamed(i.list, PathParts(p)[2]) : i \in ItemNamed(volume.root, PathParts(p)[1])}

ListingOf(items) == [k \in DOMAIN Visible(items) |-> <<Visible(items)[k].name, Visible(items)[k].kind>>]

\* The file the tree has at a path, as fat_open describes it.
Meant(i) ==
    CASE i.kind = "dir" -> ListingOf(i.list)
      [] i.kind = "vol" -> ListingOf(volume.root)
      [] OTHER -> <<EntryOf(i).cluster, i.size>>
Got == IF handle.kind = "listing" THEN handle.listing ELSE <<handle.cluster, handle.size>>

\* A path of up to two names opens what the tree has there, whatever clusters it lies
\* in and wherever on the disk the volume is, and the empty path lists the root.  What
\* lies deeper is never opened, and nothing else in its place.  No search and no listing
\* runs into a cluster the disk has not: "Error reading from disk" would stop the system.
OpensWhatTreeSays ==
    /\ vpc # "panicked"
    /\ vpc = "ready" =>
           IF parts = <<>> THEN handle = Unopened
           ELSE IF parts = <<NoPart>> THEN Got = ListingOf(volume.root)
           ELSE {Got : h \in {handle} \ {Unopened}} =
                   {Meant(i) : i \in IF Tidy(asked) THEN Leads(asked) ELSE {}}

\* "A reference to the directory found within the buffer is returned."
FoundWithinBuffer == ~outside

\* Whatever way fs_open ends, it keeps no memory but an open file's, and fs_close none.
MemoryReturned ==
    vpc = "ready" => allocated = IF handle = Unopened THEN {} ELSE
        {"file", "handle"} \cup (IF handle.kind = "listing" THEN {"contents"} ELSE {})
=============================================================================
