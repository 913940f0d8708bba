-------------------------------- MODULE Alloc --------------------------------
(***************************************************************************)
(* The kernel allocator, kern/alloc.c: a chain of blocks, each a header    *)
(* followed by its payload, laid out upwards from mem_start.  A block is   *)
(* never split, merged or removed; kalloc takes the first free block that  *)
(* is large enough and otherwise appends a block behind the last one.      *)
(*                                                                         *)
(* Addresses count from mem_start (address 0).  mem is the memory itself,  *)
(* so that a header, a payload, memset and memcpy all meet in the same     *)
(* cells; the fields of the headers are kept in blocks, in chain order,    *)
(* and a cell of a header holds HeaderCell.  live is the ledger a caller   *)
(* keeps: the pointers it owns and how many bytes it asked for.            *)
(*                                                                         *)
(* A failed ASSERT prints and hangs (stdlib.c:_assert): panicked, after    *)
(* which nothing happens.                                                  *)
(*                                                                         *)
(* Sizes are far below 2^32 here: what a request near SIZE_MAX does to     *)
(* aligned_size and to the address of the next block is not modelled.      *)
(***************************************************************************)
EXTENDS Integers, Sequences

CONSTANTS
    Hdr,            \* sizeof(mem_block_t), 24 in the code
    Align,          \* ALIGNMENT, 64 in the code
    MemSize,        \* mem_size, the bytes behind mem_start
    MaxRequest,     \* the largest size a caller asks for
    Data            \* the bytes callers store

ASSUME HdrAssumption == Hdr \in Nat \ {0}
ASSUME AlignAssumption == Align \in Nat \ {0}
ASSUME MemAssumption == MemSize \in Nat /\ Hdr <= MemSize
ASSUME RequestAssumption == MaxRequest \in Nat \ {0}

VARIABLES
    blocks,         \* the headers, from head along next
    mem,            \* the contents of memory
    live,           \* ghost: pointer -> bytes its owner may use
    panicked        \* an ASSERT failed

vars == <<blocks, mem, live, panicked>>

\* What a byte may be: part of a header, cleared, never written, or data.
HeaderCell == "header"
Zero == "zero"
Junk == "junk"
Cell == {HeaderCell, Zero, Junk} \cup Data

Sizes == 0 .. MaxRequest

\* aligned_size, with (size / A) * A written as size - size % A.
aligned_size(size) ==
    IF size % Align = 0 THEN size ELSE size - (size % Align) + Align

\* The chain may end this far: a header that starts at MemSize is accepted.
Limit == MemSize + Hdr + MaxRequest + Align
Addr == 0 .. Limit

Block == [start : Nat, size : Nat, used : BOOLEAN, critical : BOOLEAN]

Payload(b) == b.start + Hdr
EndOf(b) == b.start + Hdr + b.size
LastBlock == blocks[Len(blocks)]

TypeOK ==
    /\ blocks \in Seq(Block) /\ blocks # <<>>
    /\ mem \in [Addr -> Cell]
    /\ DOMAIN live \subseteq Addr
    /\ \A p \in DOMAIN live : live[p] \in Sizes
    /\ panicked \in BOOLEAN
------------------------------------------------------------------------------
(* Memory. *)

\* Mutation: memset up to and including p + n.
Filled_TooFar(m, p, n, v) == [a \in Addr |-> IF a \in p .. p + n THEN v ELSE m[a]]

\* memset(p, v, n)
Filled(m, p, n, v) == [a \in Addr |-> IF a \in p .. p + n - 1 THEN v ELSE m[a]]

\* Mutation: memcpy that misses the last byte.
Copied_TooShort(m, q, p, n) ==
    [a \in Addr |-> IF a \in q .. q + n - 2 THEN m[p + (a - q)] ELSE m[a]]

\* memcpy(q, p, n)
Copied(m, q, p, n) ==
    [a \in Addr |-> IF a \in q .. q + n - 1 THEN m[p + (a - q)] ELSE m[a]]

(* The ledger. *)

Owning(l, p, n) == [q \in DOMAIN l \cup {p} |-> IF q = p THEN n ELSE l[q]]
Disowning(l, p) == [q \in DOMAIN l \ {p} |-> l[q]]
------------------------------------------------------------------------------
(* init_alloc: a critical head block without payload. *)
Init ==
    /\ blocks = <<[start |-> 0, size |-> 0, used |-> TRUE, critical |-> TRUE]>>
    /\ mem = [a \in Addr |-> IF a < Hdr THEN HeaderCell ELSE Junk]
    /\ live = [p \in {} |-> 0]
    /\ panicked = FALSE

Panic == panicked' = TRUE /\ UNCHANGED <<blocks, mem, live>>

\* Mutation: the search of kalloc without the test of size.
Candidates_AnySize(n) == {i \in DOMAIN blocks : ~blocks[i].used /\ blocks[i].size > 0}

\* The free blocks the search of kalloc would accept, and the one it meets first.
Candidates(n) ==
    {i \in DOMAIN blocks : ~blocks[i].used /\ blocks[i].size >= aligned_size(n)}
FirstFits(n) == {i \in Candidates(n) : \A j \in Candidates(n) : i <= j}

\* A free block is taken as it is, its size included.
Reused(i) == [blocks EXCEPT ![i] = [@ EXCEPT !.used = TRUE, !.critical = FALSE]]

\* Mutation: the header is forgotten in the address of the next block.
NewBlock_NoHeader(n) ==
    [start |-> LastBlock.start + LastBlock.size, size |-> aligned_size(n),
     used |-> TRUE, critical |-> FALSE]

\* A new block goes right behind the last one.
NewBlock(n) ==
    [start |-> EndOf(LastBlock), size |-> aligned_size(n), used |-> TRUE, critical |-> FALSE]

\* Mutation: the check for the end of memory is off by a header.
Exhausted_ByHeader == EndOf(LastBlock) > MemSize + Hdr

\* Only the start of the new header is compared with the end of memory.
Exhausted == EndOf(LastBlock) > MemSize

\* What kalloc(n), n > 0, may return and leave behind; nothing when it panics.
KallocOutcomes(n) ==
    {[ptr |-> Payload(blocks[i]), blocks |-> Reused(i), mem |-> mem] : i \in FirstFits(n)}
    \cup
    {[ptr |-> Payload(b), blocks |-> Append(blocks, b),
      mem |-> Filled(mem, b.start, Hdr, HeaderCell)] :
        b \in {c \in {NewBlock(n)} : Candidates(n) = {} /\ ~Exhausted}}

KallocPanics(n) == Candidates(n) = {} /\ Exhausted

\* kalloc, and krealloc of NULL.  kalloc(0) is NULL and changes nothing.
KAlloc(n) ==
    /\ n > 0
    /\ \/ \E r \in KallocOutcomes(n) :
            /\ blocks' = r.blocks
            /\ mem' = r.mem
            /\ live' = Owning(live, r.ptr, n)
            /\ UNCHANGED panicked
       \/ KallocPanics(n) /\ Panic

\* kallocz: kalloc, then memset of the bytes asked for.
KAllocZ(n) ==
    /\ n > 0
    /\ \/ \E r \in KallocOutcomes(n) :
            /\ blocks' = r.blocks
            /\ mem' = Filled(r.mem, r.ptr, n, Zero)
            /\ live' = Owning(live, r.ptr, n)
            /\ UNCHANGED panicked
       \/ KallocPanics(n) /\ Panic

\* The block of a pointer: the header right in front of it.
IsBlockOf(i, p) == i \in DOMAIN blocks /\ Payload(blocks[i]) = p

\* The range check of kfree, krealloc and kmmcritical.
InRange(p) == p <= MemSize

\* Mutation: kfree that does not look at the flags.
Freeable_AnyFlags(b) == b.used

\* kfree accepts a block in use that is not critical.
Freeable(b) == b.used /\ ~b.critical
Freed(bs, i) == [bs EXCEPT ![i] = [@ EXCEPT !.used = FALSE]]

\* kfree, also of a pointer that was freed before.
KFree(p) ==
    \E i \in DOMAIN blocks :
        /\ IsBlockOf(i, p)
        /\ IF InRange(p) /\ Freeable(blocks[i])
           THEN /\ blocks' = Freed(blocks, i)
                /\ live' = Disowning(live, p)
                /\ UNCHANGED <<mem, panicked>>
           ELSE Panic

\* krealloc to less than the block holds: the block forgets its capacity.
Shrink(p, i, n) ==
    /\ n < blocks[i].size
    /\ blocks' = [blocks EXCEPT ![i] = [@ EXCEPT !.size = n]]
    /\ live' = Owning(live, p, n)
    /\ UNCHANGED <<mem, panicked>>

\* krealloc to the block's size or more: kalloc, memcpy, kfree.
Move(p, i, n) ==
    /\ n >= blocks[i].size
    /\ n > 0
    /\ \/ \E r \in KallocOutcomes(n) :
            /\ mem' = Copied(r.mem, r.ptr, p, blocks[i].size)
            /\ IF Freeable(blocks[i])
               THEN /\ blocks' = Freed(r.blocks, i)
                    /\ live' = Owning(Disowning(live, p), r.ptr, n)
                    /\ UNCHANGED panicked
               ELSE /\ blocks' = r.blocks
                    /\ panicked' = TRUE
                    /\ UNCHANGED live
       \/ KallocPanics(n) /\ Panic

\* krealloc of a block shrunk to nothing, to nothing: kalloc gives NULL, kfree.
Vanish(p, i, n) ==
    /\ n = 0
    /\ blocks[i].size = 0
    /\ KFree(p)

KRealloc(p, n) ==
    \E i \in DOMAIN blocks :
        /\ IsBlockOf(i, p)
        /\ IF InRange(p) /\ blocks[i].used
           THEN Shrink(p, i, n) \/ Move(p, i, n) \/ Vanish(p, i, n)
           ELSE Panic

\* kmmcritical: from now on kfree of this block panics.
KmmCritical(p) ==
    \E i \in DOMAIN blocks :
        /\ IsBlockOf(i, p)
        /\ IF InRange(p)
           THEN /\ blocks' = [blocks EXCEPT ![i] = [@ EXCEPT !.critical = TRUE]]
                /\ UNCHANGED <<mem, live, panicked>>
           ELSE Panic

\* An owner stores one byte into memory it asked for.
ClientWrite(p, k, v) ==
    /\ k < live[p]
    /\ mem' = [mem EXCEPT ![p + k] = v]
    /\ UNCHANGED <<blocks, live, panicked>>

\* Every pointer kalloc ever returned: freed or not, a caller may still hold it.
Known == {Payload(blocks[i]) : i \in 2 .. Len(blocks)}

Next ==
    /\ ~panicked
    /\ \/ \E n \in Sizes : KAlloc(n) \/ KAllocZ(n)
       \/ \E p \in Known : KFree(p) \/ \E n \in Sizes : KRealloc(p, n)
       \/ \E p \in DOMAIN live :
            KmmCritical(p) \/ \E k \in Sizes, v \in Data : ClientWrite(p, k, v)

Spec == Init /\ [][Next]_vars
(***************************************************************************)
(* Properties.                                                             *)
(***************************************************************************)

\* The chain of kalloc goes upwards and its blocks, headers included, never
\* overlap, whatever krealloc (shrinking) and the reuse of blocks did to sizes.
ChainOrdered ==
    \A i, j \in DOMAIN blocks : i < j => EndOf(blocks[i]) <= blocks[j].start

\* Whoever writes into the memory it asked for, and memset and memcpy inside
\* the allocator, never overwrite the header of a block.
HeadersIntact ==
    \A i \in DOMAIN blocks :
        \A a \in blocks[i].start .. blocks[i].start + Hdr - 1 : mem[a] = HeaderCell

\* The chain can be walked: whatever callers write and however blocks were shrunk, moved
\* and reused, its blocks stay apart and their headers whole.
ChainIntact == ChainOrdered /\ HeadersIntact

\* The blocks in use (head apart) are those of the pointers callers own, and
\* each holds at least what was asked for: the promise of kalloc's comment,
\* kept through reuse, shrinking and moving.
LedgerMatches ==
    /\ \A p \in DOMAIN live : \E i \in DOMAIN blocks :
            /\ i > 1
            /\ IsBlockOf(i, p)
            /\ blocks[i].used
            /\ live[p] <= blocks[i].size
    /\ ~panicked => \A i \in DOMAIN blocks :
            i > 1 /\ blocks[i].used => Payload(blocks[i]) \in DOMAIN live

\* How far the check in kalloc lets the chain run past the end of memory:
\* one header and one rounded-up payload, never more.
OverrunBounded ==
    \A i \in DOMAIN blocks :
        /\ blocks[i].start <= MemSize
        /\ EndOf(blocks[i]) <= MemSize + Hdr + MaxRequest + (Align - 1)

\* Memory marked with kmmcritical stays allocated and stays critical: no later
\* kfree, krealloc or reuse takes it from its owner.
CriticalKept ==
    [][\A i \in DOMAIN blocks : blocks[i].critical =>
            /\ blocks'[i].critical
            /\ blocks'[i].used
            /\ blocks'[i].start = blocks[i].start]_vars

\* The heap callers see: the bytes of memory behind the pointers they own.
Contents == [p \in DOMAIN live |-> [k \in 0 .. live[p] - 1 |-> mem[p + k]]]

Heap == INSTANCE AbstractHeap WITH heap <- Contents

\* The allocator keeps AbstractHeap's promises: calls touch only the region
\* they are about, regions are disjoint, krealloc keeps the common prefix.
ImplementsHeap == Heap!Spec
==============================================================================
