---------------------------- MODULE AllocProofs ----------------------------
(***************************************************************************)
(* Proofs about the kernel allocator, for every header size, alignment,    *)
(* memory size and largest request.  The inductive invariant IInv speaks   *)
(* of a chain, a memory and a ledger as values, so that what krealloc does *)
(* in one step (allocate, copy, free) is reasoned about one call at a      *)
(* time.                                                                   *)
(***************************************************************************)
EXTENDS Alloc, TLAPS

\* A chain as kalloc, kfree, krealloc and kmmcritical leave it: its head never
\* becomes free, critical blocks are in use, blocks ascend without overlap and
\* the last one starts inside memory.
Chain(bs) ==
    /\ bs \in Seq(Block)
    /\ Len(bs) > 0
    /\ bs[1].used /\ bs[1].critical
    /\ \A i \in DOMAIN bs : bs[i].critical => bs[i].used
    /\ \A i, j \in DOMAIN bs : i < j => EndOf(bs[i]) <= bs[j].start
    /\ \A i \in DOMAIN bs :
        /\ bs[i].start <= MemSize
        /\ EndOf(bs[i]) <= MemSize + Hdr + MaxRequest + (Align - 1)

Header(b) == b.start .. b.start + Hdr - 1
Body(b) == Payload(b) .. Payload(b) + b.size - 1

Headed(bs, m) ==
    /\ m \in [Addr -> Cell]
    /\ \A i \in DOMAIN bs : \A a \in Header(bs[i]) : m[a] = HeaderCell

Backed(bs, l) ==
    /\ DOMAIN l \subseteq Addr
    /\ \A p \in DOMAIN l : l[p] \in Sizes
    /\ \A p \in DOMAIN l : \E i \in DOMAIN bs :
        i > 1 /\ Payload(bs[i]) = p /\ bs[i].used /\ l[p] <= bs[i].size

Owned(bs, l) ==
    \A i \in DOMAIN bs : i > 1 /\ bs[i].used => Payload(bs[i]) \in DOMAIN l

IInv ==
    /\ Chain(blocks)
    /\ Headed(blocks, mem)
    /\ Backed(blocks, live)
    /\ panicked \in BOOLEAN
    /\ ~panicked => Owned(blocks, live)
----------------------------------------------------------------------------
(* aligned_size rounds up, by less than the alignment. *)
LEMMA AlignedSize ==
    ASSUME NEW n \in Nat
    PROVE  /\ aligned_size(n) \in Nat
           /\ n <= aligned_size(n)
           /\ aligned_size(n) <= n + (Align - 1)
<1>1. n % Align \in 0 .. Align - 1
  BY AlignAssumption
<1>2. n % Align <= n
  BY AlignAssumption, SMT
<1>. QED
  BY <1>1, <1>2, AlignAssumption DEF aligned_size

(* The fields of a block of a chain. *)
LEMMA BlockFields ==
    ASSUME NEW bs, Chain(bs), NEW i \in DOMAIN bs
    PROVE  /\ bs[i] \in Block
           /\ bs[i].start \in Nat
           /\ bs[i].size \in Nat
           /\ bs[i].used \in BOOLEAN
           /\ bs[i].critical \in BOOLEAN
           /\ Payload(bs[i]) \in Addr
           /\ Header(bs[i]) \subseteq Addr
           /\ Body(bs[i]) \subseteq Addr
<1>1. bs[i] \in Block
  BY DEF Chain
<1>2. /\ bs[i].start \in Nat
      /\ bs[i].size \in Nat
      /\ bs[i].used \in BOOLEAN
      /\ bs[i].critical \in BOOLEAN
  BY <1>1 DEF Block
<1>3. EndOf(bs[i]) < Limit
  BY <1>2, HdrAssumption, AlignAssumption, MemAssumption, RequestAssumption
     DEF Chain, EndOf, Limit
<1>4. Limit \in Nat
  BY HdrAssumption, AlignAssumption, MemAssumption, RequestAssumption DEF Limit
<1>. QED
  BY <1>1, <1>2, <1>3, <1>4, HdrAssumption
     DEF EndOf, Payload, Header, Body, Addr

(* A pointer determines its block: no two headers lie in front of it. *)
LEMMA PointerUnique ==
    ASSUME NEW bs, Chain(bs), NEW i \in DOMAIN bs, NEW j \in DOMAIN bs,
           Payload(bs[i]) = Payload(bs[j])
    PROVE  i = j
<1>1. i \in Nat /\ j \in Nat
  BY DEF Chain
<1>2. /\ bs[i].start \in Nat /\ bs[i].size \in Nat
      /\ bs[j].start \in Nat /\ bs[j].size \in Nat
  BY BlockFields
<1>3. bs[i].start = bs[j].start
  BY <1>2, HdrAssumption DEF Payload
<1>4. ~(i < j) /\ ~(j < i)
  BY <1>2, <1>3, HdrAssumption DEF Chain, EndOf
<1>. QED
  BY <1>1, <1>4

(* The payload of a block meets no header and no other payload. *)
LEMMA BodyApart ==
    ASSUME NEW bs, Chain(bs), NEW i \in DOMAIN bs, NEW j \in DOMAIN bs
    PROVE  /\ Body(bs[i]) \cap Header(bs[j]) = {}
           /\ i # j => Body(bs[i]) \cap Body(bs[j]) = {}
<1>1. i \in Nat /\ j \in Nat
  BY DEF Chain
<1>2. /\ bs[i].start \in Nat /\ bs[i].size \in Nat
      /\ bs[j].start \in Nat /\ bs[j].size \in Nat
  BY BlockFields
<1>3. CASE i = j
  BY <1>2, <1>3, HdrAssumption DEF Body, Header, Payload
<1>4. CASE i < j
  <2>1. EndOf(bs[i]) <= bs[j].start
    BY <1>4 DEF Chain
  <2>. QED
    BY <1>2, <2>1, HdrAssumption DEF Body, Header, Payload, EndOf
<1>5. CASE j < i
  <2>1. EndOf(bs[j]) <= bs[i].start
    BY <1>5 DEF Chain
  <2>. QED
    BY <1>2, <2>1, HdrAssumption DEF Body, Header, Payload, EndOf
<1>. QED
  BY <1>1, <1>3, <1>4, <1>5

(* Writing into one payload leaves every header whole. *)
LEMMA WriteKeepsHeaders ==
    ASSUME NEW bs, Chain(bs), NEW m, Headed(bs, m), NEW k \in DOMAIN bs,
           NEW m2 \in [Addr -> Cell],
           \A a \in Addr : a \notin Body(bs[k]) => m2[a] = m[a]
    PROVE  Headed(bs, m2)
<1>. SUFFICES ASSUME NEW i \in DOMAIN bs, NEW a \in Header(bs[i])
              PROVE  m2[a] = HeaderCell
  BY DEF Headed
<1>1. a \in Addr /\ a \notin Body(bs[k])
  BY BlockFields, BodyApart
<1>. QED
  BY <1>1 DEF Headed

(* Rewriting a header in place, without moving or growing the block, leaves a
   chain: what kfree, kmmcritical, a reuse and a shrink do. *)
LEMMA ReplaceBlock ==
    ASSUME NEW bs, Chain(bs), NEW i \in DOMAIN bs, NEW b \in Block,
           b.start = bs[i].start, b.size <= bs[i].size,
           b.critical => b.used, i = 1 => b.used /\ b.critical
    PROVE  LET cs == [bs EXCEPT ![i] = b]
           IN  /\ Chain(cs)
               /\ DOMAIN cs = DOMAIN bs
               /\ cs[i] = b
               /\ \A j \in DOMAIN bs : j # i => cs[j] = bs[j]
               /\ \A m : Headed(bs, m) => Headed(cs, m)
<1>. DEFINE cs == [bs EXCEPT ![i] = b]
<1>1. /\ cs \in Seq(Block)
      /\ DOMAIN cs = DOMAIN bs
      /\ Len(cs) = Len(bs)
      /\ cs[i] = b
      /\ \A j \in DOMAIN bs : j # i => cs[j] = bs[j]
  BY DEF Chain
<1>2. b.start \in Nat /\ b.size \in Nat
  BY DEF Block
<1>3. \A j \in DOMAIN bs : /\ bs[j].start \in Nat /\ bs[j].size \in Nat
                           /\ cs[j].start = bs[j].start
                           /\ cs[j].size \in Nat
                           /\ cs[j].size <= bs[j].size
  BY <1>1, <1>2, BlockFields
<1>4. \A j \in DOMAIN bs : EndOf(cs[j]) <= EndOf(bs[j])
  BY <1>3, HdrAssumption DEF EndOf
<1>5. \A j \in DOMAIN bs : EndOf(cs[j]) \in Nat /\ EndOf(bs[j]) \in Nat
  BY <1>3, HdrAssumption DEF EndOf
<1>6. Chain(cs)
  <2>1. cs[1].used /\ cs[1].critical
    BY <1>1 DEF Chain
  <2>2. \A j \in DOMAIN cs : cs[j].critical => cs[j].used
    BY <1>1 DEF Chain
  <2>3. \A j, k \in DOMAIN cs : j < k => EndOf(cs[j]) <= cs[k].start
    BY <1>1, <1>3, <1>4, <1>5 DEF Chain
  <2>4. \A j \in DOMAIN cs :
          /\ cs[j].start <= MemSize
          /\ EndOf(cs[j]) <= MemSize + Hdr + MaxRequest + (Align - 1)
    <3>. SUFFICES ASSUME NEW j \in DOMAIN bs
                  PROVE  /\ cs[j].start <= MemSize
                         /\ EndOf(cs[j]) <= MemSize + Hdr + MaxRequest + (Align - 1)
      BY <1>1
    <3>1. /\ bs[j].start <= MemSize
          /\ EndOf(bs[j]) <= MemSize + Hdr + MaxRequest + (Align - 1)
      BY DEF Chain
    <3>. QED
      BY <3>1, <1>3, <1>4, <1>5, HdrAssumption, AlignAssumption, MemAssumption,
         RequestAssumption
  <2>. QED
    BY <1>1, <2>1, <2>2, <2>3, <2>4 DEF Chain
<1>7. \A m : Headed(bs, m) => Headed(cs, m)
  BY <1>1, <1>3 DEF Headed, Header
<1>. QED
  BY <1>1, <1>6, <1>7

(* kfree of a block in use that is not critical. *)
LEMMA FreeBlock ==
    ASSUME NEW bs, Chain(bs), NEW m, Headed(bs, m), NEW l, Backed(bs, l),
           NEW i \in DOMAIN bs, Freeable(bs[i])
    PROVE  LET cs == Freed(bs, i)
               p == Payload(bs[i])
           IN  /\ Chain(cs)
               /\ Headed(cs, m)
               /\ Backed(cs, Disowning(l, p))
               /\ Owned(bs, l) => Owned(cs, Disowning(l, p))
<1>. DEFINE b == [bs[i] EXCEPT !.used = FALSE]
            cs == [bs EXCEPT ![i] = b]
            p == Payload(bs[i])
            l2 == Disowning(l, p)
<1>1. cs = Freed(bs, i)
  BY DEF Freed
<1>2. /\ b \in Block /\ b.start = bs[i].start /\ b.size = bs[i].size
      /\ ~b.used /\ ~b.critical /\ i # 1 /\ bs[i].size \in Nat
  BY BlockFields DEF Block, Freeable, Chain
<1>. HIDE DEF b
<1>3. /\ Chain(cs) /\ Headed(cs, m) /\ DOMAIN cs = DOMAIN bs /\ cs[i] = b
      /\ \A j \in DOMAIN bs : j # i => cs[j] = bs[j]
  BY <1>2, ReplaceBlock
<1>4. DOMAIN l2 = DOMAIN l \ {p} /\ \A q \in DOMAIN l2 : l2[q] = l[q]
  BY DEF Disowning
<1>5. Backed(cs, l2)
  <2>. SUFFICES ASSUME NEW q \in DOMAIN l2
                PROVE  \E j \in DOMAIN cs : j > 1 /\ Payload(cs[j]) = q /\ cs[j].used
                                               /\ l2[q] <= cs[j].size
    BY <1>4 DEF Backed
  <2>1. PICK j \in DOMAIN bs : j > 1 /\ Payload(bs[j]) = q /\ bs[j].used
                                   /\ l[q] <= bs[j].size
    BY <1>4 DEF Backed
  <2>2. j # i
    BY <2>1, <1>4
  <2>. QED
    BY <2>1, <2>2, <1>3, <1>4
<1>6. ASSUME Owned(bs, l) PROVE Owned(cs, l2)
  <2>. SUFFICES ASSUME NEW j \in DOMAIN cs, j > 1, cs[j].used
                PROVE  Payload(cs[j]) \in DOMAIN l2
    BY DEF Owned
  <2>1. j \in DOMAIN bs /\ j # i /\ cs[j] = bs[j]
    BY <1>2, <1>3
  <2>2. Payload(bs[j]) \in DOMAIN l
    BY <1>6, <2>1 DEF Owned
  <2>3. Payload(bs[j]) # p
    BY <2>1, PointerUnique
  <2>. QED
    BY <2>1, <2>2, <2>3, <1>4
<1>. QED
  BY <1>1, <1>3, <1>5, <1>6

(* Handing block k of a chain cs to a caller who asked for n bytes, where cs
   differs from bs in k alone, and k was not in use. *)
LEMMA Grant ==
    ASSUME NEW bs, NEW cs, Chain(cs), NEW l, Backed(bs, l), Owned(bs, l),
           NEW n \in Sizes, NEW k \in DOMAIN cs,
           k > 1, cs[k].used, n <= cs[k].size,
           k \in DOMAIN bs => ~bs[k].used,
           \A i \in DOMAIN bs : i # k => i \in DOMAIN cs /\ cs[i] = bs[i],
           \A i \in DOMAIN cs : i # k => i \in DOMAIN bs
    PROVE  LET p == Payload(cs[k])
               l2 == Owning(l, p, n)
           IN  /\ p \in Addr \ DOMAIN l
               /\ Backed(cs, l)
               /\ Backed(cs, l2)
               /\ Owned(cs, l2)
<1>. DEFINE p == Payload(cs[k])
            l2 == Owning(l, p, n)
<1>1. \A q \in DOMAIN l : \E i \in DOMAIN cs :
        i > 1 /\ i # k /\ Payload(cs[i]) = q /\ cs[i].used /\ l[q] <= cs[i].size
  <2>. SUFFICES ASSUME NEW q \in DOMAIN l
                PROVE  \E i \in DOMAIN cs : i > 1 /\ i # k /\ Payload(cs[i]) = q
                                        /\ cs[i].used /\ l[q] <= cs[i].size
    OBVIOUS
  <2>1. PICK i \in DOMAIN bs : i > 1 /\ Payload(bs[i]) = q /\ bs[i].used
                                   /\ l[q] <= bs[i].size
    BY DEF Backed
  <2>. QED
    BY <2>1
<1>2. p \in Addr
  BY BlockFields
<1>3. p \notin DOMAIN l
  BY <1>1, PointerUnique
<1>4. Backed(cs, l)
  BY <1>1 DEF Backed
<1>5. /\ DOMAIN l2 = DOMAIN l \cup {p}
      /\ l2[p] = n
      /\ \A q \in DOMAIN l : l2[q] = l[q]
  BY <1>3 DEF Owning
<1>6. Backed(cs, l2)
  <2>1. DOMAIN l2 \subseteq Addr
    BY <1>2, <1>5 DEF Backed
  <2>2. \A q \in DOMAIN l2 : l2[q] \in Sizes
    BY <1>5 DEF Backed
  <2>3. \A q \in DOMAIN l2 : \E i \in DOMAIN cs :
          i > 1 /\ Payload(cs[i]) = q /\ cs[i].used /\ l2[q] <= cs[i].size
    BY <1>1, <1>5
  <2>. QED
    BY <2>1, <2>2, <2>3 DEF Backed
<1>7. Owned(cs, l2)
  BY <1>5 DEF Owned
<1>. QED
  BY <1>2, <1>3, <1>4, <1>6, <1>7

(* kalloc(n) that does not panic: block k of the new chain, in use and large
   enough, was free or did not exist; nothing else changed but its header. *)
GrantedBlock(r, n, k) ==
    /\ k \in DOMAIN r.blocks
    /\ k > 1
    /\ r.ptr = Payload(r.blocks[k])
    /\ r.blocks[k].used
    /\ ~r.blocks[k].critical
    /\ n <= r.blocks[k].size
    /\ k \in DOMAIN blocks => ~blocks[k].used
    /\ \A i \in DOMAIN blocks : i # k => i \in DOMAIN r.blocks /\ r.blocks[i] = blocks[i]
    /\ \A i \in DOMAIN r.blocks : i # k => i \in DOMAIN blocks
    /\ \A a \in Addr : a \notin Header(r.blocks[k]) => r.mem[a] = mem[a]

(* Granting the first block that fits keeps the chain and its headers. *)
LEMMA ReuseOutcome ==
    ASSUME IInv, NEW n \in 1 .. MaxRequest, NEW k \in FirstFits(n)
    PROVE  LET r == [ptr |-> Payload(blocks[k]), blocks |-> Reused(k), mem |-> mem]
           IN  Chain(r.blocks) /\ Headed(r.blocks, r.mem) /\ GrantedBlock(r, n, k)
<1>. DEFINE b == [blocks[k] EXCEPT !.used = TRUE, !.critical = FALSE]
            cs == [blocks EXCEPT ![k] = b]
<1>1. n \in Nat /\ n <= aligned_size(n) /\ aligned_size(n) \in Nat
  BY AlignedSize, RequestAssumption
<1>2. /\ k \in DOMAIN blocks /\ ~blocks[k].used
      /\ blocks[k].size >= aligned_size(n)
  BY DEF FirstFits, Candidates
<1>3. Chain(blocks) /\ Headed(blocks, mem)
  BY DEF IInv
<1>4. blocks[k] \in Block /\ blocks[k].size \in Nat /\ k # 1 /\ k \in Nat /\ k > 1
  <2>1. k # 1
    BY <1>2, <1>3 DEF Chain
  <2>2. k \in Nat /\ k >= 1
    BY <1>2, <1>3 DEF Chain
  <2>. QED
    BY <2>1, <2>2, <1>2, <1>3, BlockFields
<1>5. /\ b \in Block /\ b.start = blocks[k].start /\ b.size = blocks[k].size
      /\ b.used /\ ~b.critical
  BY <1>4 DEF Block
<1>6. cs = Reused(k)
  BY DEF Reused
<1>. HIDE DEF b
<1>7. /\ Chain(cs) /\ DOMAIN cs = DOMAIN blocks /\ cs[k] = b
      /\ \A j \in DOMAIN blocks : j # k => cs[j] = blocks[j]
      /\ Headed(cs, mem)
  BY <1>2, <1>3, <1>4, <1>5, ReplaceBlock
<1>8. n <= b.size
  BY <1>1, <1>2, <1>4, <1>5
<1>9. Payload(blocks[k]) = Payload(b)
  BY <1>5 DEF Payload
<1>. HIDE DEF cs
<1>. QED
  BY <1>2, <1>4, <1>5, <1>6, <1>7, <1>8, <1>9 DEF GrantedBlock

(* Granting a new block behind the last one keeps the chain and its headers. *)
LEMMA ExtendOutcome ==
    ASSUME IInv, NEW n \in 1 .. MaxRequest, ~Exhausted
    PROVE  LET b == NewBlock(n)
               r == [ptr |-> Payload(b), blocks |-> Append(blocks, b),
                     mem |-> Filled(mem, b.start, Hdr, HeaderCell)]
           IN  /\ Chain(r.blocks)
               /\ Headed(r.blocks, r.mem)
               /\ GrantedBlock(r, n, Len(blocks) + 1)
<1>. DEFINE b == NewBlock(n)
            cs == Append(blocks, b)
            m2 == Filled(mem, b.start, Hdr, HeaderCell)
            k == Len(blocks) + 1
            last == Len(blocks)
<1>1. n \in Nat /\ n <= aligned_size(n) /\ aligned_size(n) \in Nat
      /\ aligned_size(n) <= n + (Align - 1)
  BY AlignedSize, RequestAssumption
<1>2. /\ Chain(blocks) /\ Headed(blocks, mem)
      /\ blocks \in Seq(Block) /\ last \in Nat /\ last > 0 /\ last \in DOMAIN blocks
      /\ DOMAIN blocks = 1 .. last
  BY DEF IInv, Chain
<1>3. LastBlock = blocks[last] /\ LastBlock.start \in Nat /\ LastBlock.size \in Nat
  BY <1>2, BlockFields DEF LastBlock
<1>4. /\ b.start = EndOf(LastBlock) /\ b.size = aligned_size(n)
      /\ b.used /\ ~b.critical
  BY DEF NewBlock
<1>5. b.start \in Nat /\ b.start <= MemSize
  BY <1>3, <1>4, HdrAssumption, MemAssumption DEF EndOf, Exhausted
<1>6. b \in Block
  BY <1>1, <1>4, <1>5 DEF Block, NewBlock
<1>7. EndOf(b) <= MemSize + Hdr + MaxRequest + (Align - 1)
  BY <1>1, <1>4, <1>5, HdrAssumption, AlignAssumption, MemAssumption,
     RequestAssumption DEF EndOf
<1>8. \A i \in DOMAIN blocks : EndOf(blocks[i]) <= b.start
  <2>. SUFFICES ASSUME NEW i \in DOMAIN blocks
                PROVE  EndOf(blocks[i]) <= EndOf(blocks[last])
    BY <1>3, <1>4
  <2>1. /\ blocks[i].start \in Nat /\ blocks[i].size \in Nat
        /\ blocks[last].start \in Nat /\ blocks[last].size \in Nat
    BY <1>2, BlockFields
  <2>2. CASE i = last
    BY <2>1, <2>2, HdrAssumption DEF EndOf
  <2>3. CASE i < last
    <3>1. EndOf(blocks[i]) <= blocks[last].start
      BY <1>2, <2>3 DEF Chain
    <3>. QED
      <4>1. /\ EndOf(blocks[last]) = blocks[last].start + Hdr + blocks[last].size
            /\ EndOf(blocks[i]) \in Nat
        BY <2>1, HdrAssumption DEF EndOf
      <4>. QED
        BY <2>1, <3>1, <4>1, HdrAssumption
  <2>. QED
    BY <1>2, <2>2, <2>3
<1>. HIDE DEF b
<1>9. /\ cs \in Seq(Block) /\ DOMAIN cs = 1 .. k /\ Len(cs) = k
      /\ cs[k] = b
      /\ \A i \in DOMAIN blocks : i # k /\ i \in DOMAIN cs /\ cs[i] = blocks[i]
      /\ \A i \in DOMAIN cs : i # k => i \in DOMAIN blocks
  BY <1>2, <1>6
<1>. HIDE DEF cs
<1>10. Chain(cs)
  <2>1. Len(cs) > 0 /\ cs[1].used /\ cs[1].critical
    BY <1>2, <1>9 DEF Chain
  <2>2. \A i \in DOMAIN cs : cs[i].critical => cs[i].used
    BY <1>2, <1>4, <1>9 DEF Chain
  <2>3. \A i, j \in DOMAIN cs : i < j => EndOf(cs[i]) <= cs[j].start
    <3>. SUFFICES ASSUME NEW i \in DOMAIN cs, NEW j \in DOMAIN cs, i < j
                  PROVE  EndOf(cs[i]) <= cs[j].start
      OBVIOUS
    <3>1. i \in DOMAIN blocks
      BY <1>2, <1>9
    <3>2. CASE j = k
      BY <3>1, <3>2, <1>8, <1>9
    <3>3. CASE j # k
      BY <3>1, <3>3, <1>2, <1>9 DEF Chain
    <3>. QED
      BY <3>2, <3>3
  <2>4. \A i \in DOMAIN cs :
          /\ cs[i].start <= MemSize
          /\ EndOf(cs[i]) <= MemSize + Hdr + MaxRequest + (Align - 1)
    BY <1>2, <1>5, <1>7, <1>9 DEF Chain
  <2>. QED
    BY <1>9, <2>1, <2>2, <2>3, <2>4 DEF Chain
<1>11. m2 \in [Addr -> Cell]
  BY <1>2 DEF Headed, Filled, Cell
<1>12. \A a \in Addr : m2[a] = IF a \in Header(b) THEN HeaderCell ELSE mem[a]
  BY DEF Filled, Header
<1>. HIDE DEF m2
<1>13. Headed(cs, m2)
  <2>. SUFFICES ASSUME NEW i \in DOMAIN cs, NEW a \in Header(cs[i])
                PROVE  m2[a] = HeaderCell
    BY <1>11 DEF Headed
  <2>1. a \in Addr
    BY <1>10, BlockFields
  <2>2. CASE i = k
    BY <2>1, <2>2, <1>9, <1>12
  <2>3. CASE i # k
    BY <2>1, <2>3, <1>2, <1>9, <1>12 DEF Headed
  <2>. QED
    BY <2>2, <2>3
<1>14. n <= b.size
  BY <1>1, <1>4
<1>15. k > 1 /\ k \notin DOMAIN blocks
  BY <1>2
<1>. QED
  BY <1>4, <1>9, <1>10, <1>12, <1>13, <1>14, <1>15 DEF GrantedBlock, b, cs, m2

(* Whatever kalloc(n) returns, by reuse or by extension. *)
LEMMA Outcome ==
    ASSUME IInv, NEW n \in 1 .. MaxRequest, NEW r \in KallocOutcomes(n)
    PROVE  /\ Chain(r.blocks)
           /\ Headed(r.blocks, r.mem)
           /\ \E k \in DOMAIN r.blocks : GrantedBlock(r, n, k)
<1>1. CASE \E i \in FirstFits(n) :
              r = [ptr |-> Payload(blocks[i]), blocks |-> Reused(i), mem |-> mem]
  BY <1>1, ReuseOutcome DEF GrantedBlock
<1>2. CASE /\ ~Exhausted
           /\ r = [ptr |-> Payload(NewBlock(n)), blocks |-> Append(blocks, NewBlock(n)),
                   mem |-> Filled(mem, NewBlock(n).start, Hdr, HeaderCell)]
  BY <1>2, ExtendOutcome DEF GrantedBlock
<1>. QED
  BY <1>1, <1>2 DEF KallocOutcomes

(* The ledger after kalloc(n): the caller owns one pointer more. *)
LEMMA OutcomeLedger ==
    ASSUME IInv, ~panicked, NEW n \in 1 .. MaxRequest, NEW r \in KallocOutcomes(n),
           NEW k, GrantedBlock(r, n, k)
    PROVE  /\ r.ptr \in Addr \ DOMAIN live
           /\ Backed(r.blocks, live)
           /\ Backed(r.blocks, Owning(live, r.ptr, n))
           /\ Owned(r.blocks, Owning(live, r.ptr, n))
<1>1. Chain(r.blocks)
  BY Outcome
<1>2. Backed(blocks, live) /\ Owned(blocks, live)
  BY DEF IInv
<1>3. n \in Sizes
  BY RequestAssumption DEF Sizes
<1>. QED
  BY <1>1, <1>2, <1>3, Grant DEF GrantedBlock

----------------------------------------------------------------------------
(* Every step keeps IInv: one lemma per operation. *)

(* What the initialisation leaves behind satisfies the invariant. *)
LEMMA InitInv == Init => IInv
<1>. SUFFICES ASSUME Init PROVE IInv
  OBVIOUS
<1>1. blocks = <<[start |-> 0, size |-> 0, used |-> TRUE, critical |-> TRUE]>>
  BY DEF Init
<1>2. /\ blocks \in Seq(Block) /\ Len(blocks) = 1 /\ DOMAIN blocks = {1}
      /\ blocks[1].start = 0 /\ blocks[1].size = 0
      /\ blocks[1].used /\ blocks[1].critical
  BY <1>1 DEF Block
<1>3. Chain(blocks)
  BY <1>2, HdrAssumption, AlignAssumption, MemAssumption, RequestAssumption
     DEF Chain, EndOf
<1>4. Headed(blocks, mem)
  <2>1. mem \in [Addr -> Cell]
    BY DEF Init, Cell
  <2>2. \A a \in 0 .. Hdr - 1 : a \in Addr /\ a < Hdr
    BY HdrAssumption, AlignAssumption, MemAssumption, RequestAssumption DEF Addr, Limit
  <2>3. Header(blocks[1]) = 0 .. Hdr - 1
    BY <1>2, HdrAssumption DEF Header
  <2>. QED
    BY <1>2, <2>1, <2>2, <2>3 DEF Headed, Init
<1>5. Backed(blocks, live)
  BY DEF Backed, Init
<1>6. Owned(blocks, live)
  BY <1>2 DEF Owned
<1>. QED
  BY <1>3, <1>4, <1>5, <1>6 DEF IInv, Init

(* A failed assertion changes nothing but the flag. *)
LEMMA PanicInv ==
    ASSUME IInv, Panic
    PROVE  IInv'
BY DEF IInv, Panic

(* kalloc keeps the invariant. *)
LEMMA KAllocInv ==
    ASSUME IInv, ~panicked, NEW n \in Sizes, KAlloc(n)
    PROVE  IInv'
<1>1. n \in 1 .. MaxRequest
  BY RequestAssumption DEF KAlloc, Sizes
<1>2. CASE KallocPanics(n) /\ Panic
  BY <1>2, PanicInv
<1>3. ASSUME NEW r \in KallocOutcomes(n),
             blocks' = r.blocks, mem' = r.mem, live' = Owning(live, r.ptr, n),
             UNCHANGED panicked
      PROVE  IInv'
  <2>1. PICK k \in DOMAIN r.blocks : GrantedBlock(r, n, k)
    BY <1>1, Outcome
  <2>. QED
    BY <1>1, <1>3, <2>1, Outcome, OutcomeLedger DEF IInv
<1>. QED
  BY <1>2, <1>3 DEF KAlloc

(* kallocz keeps the invariant: its memset stays inside the payload. *)
LEMMA KAllocZInv ==
    ASSUME IInv, ~panicked, NEW n \in Sizes, KAllocZ(n)
    PROVE  IInv'
<1>1. n \in 1 .. MaxRequest
  BY RequestAssumption DEF KAllocZ, Sizes
<1>2. CASE KallocPanics(n) /\ Panic
  BY <1>2, PanicInv
<1>3. ASSUME NEW r \in KallocOutcomes(n),
             blocks' = r.blocks, mem' = Filled(r.mem, r.ptr, n, Zero),
             live' = Owning(live, r.ptr, n), UNCHANGED panicked
      PROVE  IInv'
  <2>1. PICK k \in DOMAIN r.blocks : GrantedBlock(r, n, k)
    BY <1>1, Outcome
  <2>2. Chain(r.blocks) /\ Headed(r.blocks, r.mem)
    BY <1>1, Outcome
  <2>3. /\ r.blocks[k].size \in Nat /\ n <= r.blocks[k].size
        /\ r.ptr = Payload(r.blocks[k]) /\ r.ptr \in Nat
    BY <2>1, <2>2, BlockFields DEF GrantedBlock, Addr
  <2>4. mem' \in [Addr -> Cell]
    BY <1>3, <2>2 DEF Filled, Headed, Cell
  <2>5. \A a \in Addr : a \notin Body(r.blocks[k]) => mem'[a] = r.mem[a]
    BY <1>1, <1>3, <2>3 DEF Filled, Body, Addr
  <2>6. Headed(r.blocks, mem')
    BY <2>2, <2>4, <2>5, WriteKeepsHeaders
  <2>. QED
    BY <1>1, <1>3, <2>1, <2>2, <2>6, OutcomeLedger DEF IInv
<1>. QED
  BY <1>2, <1>3 DEF KAllocZ

(* kfree keeps the invariant. *)
LEMMA KFreeInv ==
    ASSUME IInv, NEW p, KFree(p)
    PROVE  IInv'
<1>1. PICK i \in DOMAIN blocks :
        /\ IsBlockOf(i, p)
        /\ IF InRange(p) /\ Freeable(blocks[i])
           THEN /\ blocks' = Freed(blocks, i)
                /\ live' = Disowning(live, p)
                /\ UNCHANGED <<mem, panicked>>
           ELSE Panic
  BY DEF KFree
<1>2. CASE InRange(p) /\ Freeable(blocks[i])
  BY <1>1, <1>2, FreeBlock DEF IInv, IsBlockOf
<1>3. CASE ~(InRange(p) /\ Freeable(blocks[i]))
  BY <1>1, <1>3, PanicInv
<1>. QED
  BY <1>2, <1>3

(* krealloc to a smaller size, in place, keeps the invariant. *)
LEMMA ShrinkInv ==
    ASSUME IInv, NEW p, NEW i \in DOMAIN blocks, i > 1, IsBlockOf(i, p),
           blocks[i].used, NEW n \in Sizes, Shrink(p, i, n)
    PROVE  IInv'
<1>. DEFINE b == [blocks[i] EXCEPT !.size = n]
            cs == [blocks EXCEPT ![i] = b]
<1>1. n \in Nat /\ n < blocks[i].size
  BY RequestAssumption DEF Sizes, Shrink
<1>2. Chain(blocks) /\ Headed(blocks, mem) /\ Backed(blocks, live)
  BY DEF IInv
<1>3. /\ blocks[i] \in Block /\ blocks[i].size \in Nat /\ i \in Nat
      /\ blocks[i].critical \in BOOLEAN /\ blocks[i].start \in Nat
  BY <1>2, BlockFields DEF Chain
<1>5. /\ b \in Block /\ b.start = blocks[i].start /\ b.size = n
      /\ b.used /\ b.critical = blocks[i].critical
  BY <1>1, <1>3 DEF Block
<1>6. blocks' = cs /\ live' = Owning(live, p, n) /\ mem' = mem /\ panicked' = panicked
  BY DEF Shrink
<1>. HIDE DEF b
<1>7. /\ Chain(cs) /\ Headed(cs, mem) /\ DOMAIN cs = DOMAIN blocks /\ cs[i] = b
      /\ \A j \in DOMAIN blocks : j # i => cs[j] = blocks[j]
  BY <1>1, <1>2, <1>3, <1>5, ReplaceBlock
<1>8. Payload(blocks[i]) = p /\ Payload(b) = p /\ p \in Addr
  BY <1>2, <1>5, BlockFields DEF IsBlockOf, Payload
<1>9. /\ DOMAIN live' = DOMAIN live \cup {p} /\ live'[p] = n
      /\ \A q \in DOMAIN live : q # p => live'[q] = live[q]
  BY <1>6 DEF Owning
<1>. HIDE DEF cs
<1>10. Backed(cs, live')
  <2>1. ASSUME NEW q \in DOMAIN live, q # p
        PROVE  \E j \in DOMAIN cs : j > 1 /\ Payload(cs[j]) = q /\ cs[j].used
                                       /\ live'[q] <= cs[j].size
    <3>1. PICK j \in DOMAIN blocks : j > 1 /\ Payload(blocks[j]) = q /\ blocks[j].used
                                         /\ live[q] <= blocks[j].size
      BY <1>2, <2>1 DEF Backed
    <3>2. j # i
      BY <1>8, <2>1, <3>1
    <3>. QED
      BY <1>7, <1>9, <2>1, <3>1, <3>2
  <2>2. \E j \in DOMAIN cs : j > 1 /\ Payload(cs[j]) = p /\ cs[j].used
                               /\ live'[p] <= cs[j].size
    BY <1>1, <1>5, <1>7, <1>8, <1>9
  <2>3. DOMAIN live' \subseteq Addr /\ \A q \in DOMAIN live' : live'[q] \in Sizes
    BY <1>2, <1>8, <1>9 DEF Backed
  <2>. QED
    BY <1>9, <2>1, <2>2, <2>3 DEF Backed
<1>11. ASSUME Owned(blocks, live) PROVE Owned(cs, live')
  BY <1>7, <1>8, <1>9, <1>11 DEF Owned
<1>. QED
  BY <1>6, <1>7, <1>10, <1>11 DEF IInv

(* The copy of krealloc stays inside the new payload. *)
LEMMA MoveMemory ==
    ASSUME IInv, NEW p, NEW i \in DOMAIN blocks, IsBlockOf(i, p), blocks[i].used,
           NEW n \in 1 .. MaxRequest, n >= blocks[i].size,
           NEW r \in KallocOutcomes(n), NEW k, GrantedBlock(r, n, k)
    PROVE  LET m2 == Copied(r.mem, r.ptr, p, blocks[i].size)
           IN  /\ Headed(r.blocks, m2)
               /\ \A a \in Addr : a \notin Body(r.blocks[k]) => m2[a] = r.mem[a]
               /\ i # k /\ i \in DOMAIN r.blocks /\ r.blocks[i] = blocks[i]
               /\ p # r.ptr
<1>. DEFINE sz == blocks[i].size
            m2 == Copied(r.mem, r.ptr, p, sz)
<1>1. Chain(blocks) /\ Chain(r.blocks) /\ Headed(r.blocks, r.mem)
  BY Outcome DEF IInv
<1>2. /\ i # k /\ i \in DOMAIN r.blocks /\ r.blocks[i] = blocks[i]
      /\ k \in DOMAIN r.blocks /\ r.ptr = Payload(r.blocks[k]) /\ n <= r.blocks[k].size
  BY DEF GrantedBlock
<1>3. sz \in Nat /\ r.blocks[k].size \in Nat /\ r.ptr \in Addr /\ p \in Addr
      /\ Body(blocks[i]) = p .. p + sz - 1 /\ Body(blocks[i]) \subseteq Addr
  BY <1>1, <1>2, BlockFields DEF IsBlockOf, Body
<1>4. p # r.ptr
  BY <1>1, <1>2, PointerUnique DEF IsBlockOf
<1>5. m2 \in [Addr -> Cell]
  <2>. SUFFICES ASSUME NEW a \in Addr, a \in r.ptr .. r.ptr + sz - 1
                PROVE  r.mem[p + (a - r.ptr)] \in Cell
    BY <1>1 DEF Copied, Headed
  <2>1. p + (a - r.ptr) \in p .. p + sz - 1
    BY <1>3, SMTT(30) DEF Addr
  <2>. QED
    BY <1>1, <1>3, <2>1 DEF Headed
<1>6. \A a \in Addr : a \notin Body(r.blocks[k]) => m2[a] = r.mem[a]
  <2>. SUFFICES ASSUME NEW a \in Addr, a \notin Body(r.blocks[k])
                PROVE  m2[a] = r.mem[a]
    OBVIOUS
  <2>1. a \notin r.ptr .. r.ptr + sz - 1
    BY <1>2, <1>3, SMTT(30) DEF Body, Addr
  <2>. QED
    BY <2>1 DEF Copied
<1>. HIDE DEF m2
<1>7. Headed(r.blocks, m2)
  BY <1>1, <1>2, <1>5, <1>6, WriteKeepsHeaders
<1>. QED
  BY <1>2, <1>4, <1>6, <1>7 DEF m2

(* krealloc by allocating, copying and freeing keeps the invariant. *)
LEMMA MoveInv ==
    ASSUME IInv, ~panicked, NEW p, NEW i \in DOMAIN blocks, IsBlockOf(i, p),
           blocks[i].used, NEW n \in Sizes, Move(p, i, n)
    PROVE  IInv'
<1>1. n \in 1 .. MaxRequest /\ n >= blocks[i].size
  BY RequestAssumption DEF Move, Sizes
<1>2. CASE KallocPanics(n) /\ Panic
  BY <1>2, PanicInv
<1>3. ASSUME NEW r \in KallocOutcomes(n),
             mem' = Copied(r.mem, r.ptr, p, blocks[i].size),
             IF Freeable(blocks[i])
             THEN /\ blocks' = Freed(r.blocks, i)
                  /\ live' = Owning(Disowning(live, p), r.ptr, n)
                  /\ UNCHANGED panicked
             ELSE blocks' = r.blocks /\ panicked' = TRUE /\ UNCHANGED live
      PROVE  IInv'
  <2>. DEFINE l2 == Owning(live, r.ptr, n)
  <2>1. PICK k \in DOMAIN r.blocks : GrantedBlock(r, n, k)
    BY <1>1, Outcome
  <2>2. /\ Headed(r.blocks, mem') /\ i \in DOMAIN r.blocks /\ r.blocks[i] = blocks[i]
        /\ p # r.ptr
    BY <1>1, <1>3, <2>1, MoveMemory
  <2>3. /\ Chain(r.blocks) /\ Backed(r.blocks, live)
        /\ Backed(r.blocks, l2) /\ Owned(r.blocks, l2)
    BY <1>1, <2>1, Outcome, OutcomeLedger
  <2>4. CASE Freeable(blocks[i])
    <3>1. Disowning(l2, p) = Owning(Disowning(live, p), r.ptr, n)
      BY <2>2 DEF Owning, Disowning
    <3>2. Payload(r.blocks[i]) = p
      BY <2>2 DEF IsBlockOf
    <3>. QED
      BY <1>3, <2>2, <2>3, <2>4, <3>1, <3>2, FreeBlock DEF IInv
  <2>5. CASE ~Freeable(blocks[i])
    BY <1>3, <2>2, <2>3, <2>5 DEF IInv
  <2>. QED
    BY <2>4, <2>5
<1>. QED
  BY <1>2, <1>3 DEF Move

(* krealloc keeps the invariant on each of its paths. *)
LEMMA KReallocInv ==
    ASSUME IInv, ~panicked, NEW p \in Known, NEW n \in Sizes, KRealloc(p, n)
    PROVE  IInv'
<1>1. PICK i \in DOMAIN blocks :
        /\ IsBlockOf(i, p)
        /\ IF InRange(p) /\ blocks[i].used
           THEN Shrink(p, i, n) \/ Move(p, i, n) \/ Vanish(p, i, n)
           ELSE Panic
  BY DEF KRealloc
<1>2. i > 1
  <2>1. PICK j \in 2 .. Len(blocks) : Payload(blocks[j]) = p
    BY DEF Known
  <2>2. j \in DOMAIN blocks /\ j > 1
    BY <2>1 DEF IInv, Chain
  <2>. QED
    BY <1>1, <2>1, <2>2, PointerUnique DEF IInv, IsBlockOf
<1>3. CASE InRange(p) /\ blocks[i].used
  BY <1>1, <1>2, <1>3, ShrinkInv, MoveInv, KFreeInv DEF Vanish
<1>4. CASE ~(InRange(p) /\ blocks[i].used)
  BY <1>1, <1>4, PanicInv
<1>. QED
  BY <1>3, <1>4

(* The block behind a pointer its owner holds. *)
LEMMA LiveBlock ==
    ASSUME IInv, NEW p \in DOMAIN live, NEW i \in DOMAIN blocks, IsBlockOf(i, p)
    PROVE  i > 1 /\ blocks[i].used /\ live[p] <= blocks[i].size
BY PointerUnique DEF IInv, Backed, IsBlockOf

(* kmmcritical keeps the invariant. *)
LEMMA KmmCriticalInv ==
    ASSUME IInv, NEW p \in DOMAIN live, KmmCritical(p)
    PROVE  IInv'
<1>1. PICK i \in DOMAIN blocks :
        /\ IsBlockOf(i, p)
        /\ IF InRange(p)
           THEN /\ blocks' = [blocks EXCEPT ![i] = [@ EXCEPT !.critical = TRUE]]
                /\ UNCHANGED <<mem, live, panicked>>
           ELSE Panic
  BY DEF KmmCritical
<1>2. CASE ~InRange(p)
  BY <1>1, <1>2, PanicInv
<1>3. CASE InRange(p)
  <2>. DEFINE b == [blocks[i] EXCEPT !.critical = TRUE]
              cs == [blocks EXCEPT ![i] = b]
  <2>1. Chain(blocks) /\ Headed(blocks, mem) /\ Backed(blocks, live)
    BY DEF IInv
  <2>2. blocks[i] \in Block /\ blocks[i].used /\ blocks[i].size \in Nat
    BY <1>1, <2>1, BlockFields, LiveBlock
  <2>3. /\ b \in Block /\ b.start = blocks[i].start /\ b.size = blocks[i].size
        /\ b.used /\ b.critical
    BY <2>2 DEF Block
  <2>4. blocks' = cs /\ mem' = mem /\ live' = live /\ panicked' = panicked
    BY <1>1, <1>3
  <2>. HIDE DEF b
  <2>5. /\ Chain(cs) /\ Headed(cs, mem) /\ DOMAIN cs = DOMAIN blocks /\ cs[i] = b
        /\ \A j \in DOMAIN blocks : j # i => cs[j] = blocks[j]
    BY <2>1, <2>2, <2>3, ReplaceBlock
  <2>. HIDE DEF cs
  <2>6. \A j \in DOMAIN blocks : /\ cs[j].used = blocks[j].used
                                /\ cs[j].size = blocks[j].size
                                /\ Payload(cs[j]) = Payload(blocks[j])
    <3>. SUFFICES ASSUME NEW j \in DOMAIN blocks
                  PROVE  /\ cs[j].used = blocks[j].used
                         /\ cs[j].size = blocks[j].size
                         /\ Payload(cs[j]) = Payload(blocks[j])
      OBVIOUS
    <3>1. CASE j = i
      BY <2>1, <2>2, <2>3, <2>5, <3>1, BlockFields DEF Payload
    <3>2. CASE j # i
      BY <2>5, <3>2
    <3>. QED
      BY <3>1, <3>2
  <2>7. Backed(cs, live)
    BY <2>1, <2>5, <2>6 DEF Backed
  <2>8. Owned(blocks, live) => Owned(cs, live)
    BY <2>5, <2>6 DEF Owned
  <2>. QED
    BY <2>4, <2>5, <2>7, <2>8 DEF IInv
<1>. QED
  BY <1>2, <1>3

(* A store of an owner into its own payload keeps the invariant. *)
LEMMA ClientWriteInv ==
    ASSUME IInv, NEW p \in DOMAIN live, NEW k \in Sizes, NEW v \in Data,
           ClientWrite(p, k, v)
    PROVE  IInv'
<1>1. PICK i \in DOMAIN blocks : Payload(blocks[i]) = p /\ live[p] <= blocks[i].size
  BY DEF IInv, Backed
<1>2. Chain(blocks) /\ Headed(blocks, mem) /\ live[p] \in Sizes /\ p \in Addr
  BY DEF IInv, Backed
<1>3. blocks[i].size \in Nat /\ Body(blocks[i]) \subseteq Addr
  BY <1>2, BlockFields
<1>4. p + k \in Body(blocks[i])
  BY <1>1, <1>2, <1>3, RequestAssumption DEF ClientWrite, Sizes, Body, Addr
<1>5. mem' \in [Addr -> Cell]
  BY <1>2, <1>3, <1>4 DEF ClientWrite, Headed, Cell
<1>6. \A a \in Addr : a \notin Body(blocks[i]) => mem'[a] = mem[a]
  BY <1>2, <1>4 DEF ClientWrite, Headed
<1>7. Headed(blocks, mem')
  BY <1>2, <1>5, <1>6, WriteKeepsHeaders
<1>. QED
  BY <1>7 DEF IInv, ClientWrite

(* Every step keeps the invariant. *)
LEMMA NextInv == IInv /\ [Next]_vars => IInv'
<1>. SUFFICES ASSUME IInv, [Next]_vars PROVE IInv'
  OBVIOUS
<1>1. CASE UNCHANGED vars
  BY <1>1 DEF IInv, vars
<1>2. ASSUME ~panicked, NEW n \in Sizes, KAlloc(n) PROVE IInv'
  BY <1>2, KAllocInv
<1>3. ASSUME ~panicked, NEW n \in Sizes, KAllocZ(n) PROVE IInv'
  BY <1>3, KAllocZInv
<1>4. ASSUME NEW p \in Known, KFree(p) PROVE IInv'
  BY <1>4, KFreeInv
<1>5. ASSUME ~panicked, NEW p \in Known, NEW n \in Sizes, KRealloc(p, n) PROVE IInv'
  BY <1>5, KReallocInv
<1>6. ASSUME NEW p \in DOMAIN live, KmmCritical(p) PROVE IInv'
  BY <1>6, KmmCriticalInv
<1>7. ASSUME NEW p \in DOMAIN live, NEW k \in Sizes, NEW v \in Data, ClientWrite(p, k, v)
      PROVE  IInv'
  BY <1>7, ClientWriteInv
<1>. QED
  BY <1>1, <1>2, <1>3, <1>4, <1>5, <1>6, <1>7 DEF Next

\* The inductive invariant of the allocator holds in every reachable state.
THEOREM Invariance == Spec => []IInv
<1>1. Init => IInv
  BY InitInv
<1>2. IInv /\ [Next]_vars => IInv'
  BY NextInv
<1>. QED
  BY <1>1, <1>2, PTL DEF Spec

----------------------------------------------------------------------------
(* What the runs check follows from IInv. *)

(* The invariant implies the state properties the runs check. *)
LEMMA IInvImplies ==
    ASSUME IInv
    PROVE  TypeOK /\ ChainOrdered /\ HeadersIntact /\ LedgerMatches /\ OverrunBounded
<1>1. TypeOK
  BY DEF IInv, Chain, Headed, Backed, TypeOK
<1>2. ChainOrdered
  BY DEF IInv, Chain, ChainOrdered
<1>3. HeadersIntact
  BY DEF IInv, Headed, Header, HeadersIntact
<1>4. LedgerMatches
  BY DEF IInv, Backed, Owned, LedgerMatches, IsBlockOf
<1>5. OverrunBounded
  BY DEF IInv, Chain, OverrunBounded
<1>. QED
  BY <1>1, <1>2, <1>3, <1>4, <1>5

\* The variables of the allocator keep their types: kern/alloc.c never forms a
\* header or a pointer outside the addresses the model allows for.
THEOREM TypeCorrect == Spec => []TypeOK
BY Invariance, IInvImplies, PTL

\* The chain built by kalloc ascends, its blocks never overlap, and no memset, memcpy or
\* write of an owner reaches a header.
THEOREM ChainCorrect == Spec => []ChainIntact
<1>1. IInv => ChainIntact
  BY IInvImplies DEF ChainIntact
<1>. QED
  BY <1>1, Invariance, PTL

\* Every pointer a caller owns is the payload of its own block in use, at least
\* as large as what kalloc or krealloc was asked for; no other block is in use.
THEOREM LedgerCorrect == Spec => []LedgerMatches
BY Invariance, IInvImplies, PTL

\* The check of kalloc for the end of memory lets the chain overrun it by one
\* header and one rounded-up payload at most.
THEOREM OverrunCorrect == Spec => []OverrunBounded
BY Invariance, IInvImplies, PTL

----------------------------------------------------------------------------
(* Memory marked critical is never taken back. *)

CriticalStays ==
    \A i \in DOMAIN blocks : blocks[i].critical =>
        /\ blocks'[i].critical
        /\ blocks'[i].used
        /\ blocks'[i].start = blocks[i].start

(* A call of kalloc touches no critical block, because those are in use. *)
LEMMA OutcomeCritical ==
    ASSUME IInv, NEW n \in 1 .. MaxRequest, NEW r \in KallocOutcomes(n),
           NEW i \in DOMAIN blocks, blocks[i].used
    PROVE  i \in DOMAIN r.blocks /\ r.blocks[i] = blocks[i]
BY Outcome DEF GrantedBlock

(* No step takes back or moves a critical block. *)
LEMMA NextCritical == IInv /\ [Next]_vars => CriticalStays
<1>. SUFFICES ASSUME IInv, [Next]_vars, NEW i \in DOMAIN blocks, blocks[i].critical
              PROVE  /\ blocks'[i].critical
                     /\ blocks'[i].used
                     /\ blocks'[i].start = blocks[i].start
  BY DEF CriticalStays
<1>. DEFINE Goal == /\ blocks'[i].critical
                    /\ blocks'[i].used
                    /\ blocks'[i].start = blocks[i].start
<1>1. Chain(blocks) /\ blocks[i].used
  BY DEF IInv, Chain
<1>2. CASE blocks' = blocks
  BY <1>1, <1>2
<1>3. ASSUME NEW n \in Sizes, KAlloc(n) \/ KAllocZ(n) PROVE Goal
  <2>1. n \in 1 .. MaxRequest
    BY <1>3, RequestAssumption DEF KAlloc, KAllocZ, Sizes
  <2>2. CASE \E r \in KallocOutcomes(n) : blocks' = r.blocks
    BY <1>1, <2>1, <2>2, OutcomeCritical
  <2>. QED
    BY <1>2, <1>3, <2>2 DEF KAlloc, KAllocZ, Panic
<1>4. ASSUME NEW p, KFree(p) PROVE Goal
  <2>1. CASE Panic
    BY <1>2, <2>1 DEF Panic
  <2>2. CASE \E j \in DOMAIN blocks : Freeable(blocks[j]) /\ blocks' = Freed(blocks, j)
    BY <1>1, <2>2 DEF Freeable, Freed, Chain
  <2>. QED
    BY <1>4, <2>1, <2>2 DEF KFree
<1>5. ASSUME NEW p, NEW j \in DOMAIN blocks, blocks[j].used,
             NEW n \in Sizes, Shrink(p, j, n)
      PROVE  Goal
  <2>1. blocks[j] \in Block /\ blocks[i] \in Block
    BY <1>1, BlockFields
  <2>. DEFINE b == [blocks[j] EXCEPT !.size = n]
  <2>2. b.critical = blocks[j].critical /\ b.used = blocks[j].used /\ b.start = blocks[j].start
    BY <2>1 DEF Block
  <2>3. blocks' = [blocks EXCEPT ![j] = b]
    BY <1>5 DEF Shrink
  <2>. HIDE DEF b
  <2>. QED
    BY <1>1, <2>2, <2>3 DEF Chain
<1>6. ASSUME NEW p, NEW j \in DOMAIN blocks, blocks[j].used,
             NEW n \in Sizes, Move(p, j, n)
      PROVE  Goal
  <2>1. n \in 1 .. MaxRequest
    BY <1>6, RequestAssumption DEF Move, Sizes
  <2>2. CASE Panic
    BY <1>2, <2>2 DEF Panic
  <2>3. ASSUME NEW r \in KallocOutcomes(n),
               \/ blocks' = r.blocks
               \/ Freeable(blocks[j]) /\ blocks' = Freed(r.blocks, j)
        PROVE  Goal
    <3>1. /\ i \in DOMAIN r.blocks /\ r.blocks[i] = blocks[i]
          /\ j \in DOMAIN r.blocks /\ r.blocks[j] = blocks[j]
      BY <1>1, <1>6, <2>1, OutcomeCritical
    <3>2. CASE Freeable(blocks[j]) /\ blocks' = Freed(r.blocks, j)
      <4>1. i # j
        BY <3>2 DEF Freeable
      <4>2. r.blocks \in Seq(Block)
        BY <2>1, Outcome DEF Chain
      <4>. QED
        BY <1>1, <3>1, <3>2, <4>1, <4>2 DEF Freed
    <3>. QED
      BY <1>1, <2>3, <3>1, <3>2
  <2>. QED
    BY <1>6, <2>2, <2>3 DEF Move
<1>7. ASSUME NEW p, NEW n \in Sizes, KRealloc(p, n) PROVE Goal
  <2>1. CASE Panic
    BY <1>2, <2>1 DEF Panic
  <2>. QED
    BY <1>4, <1>5, <1>6, <1>7, <2>1 DEF KRealloc, Vanish
<1>8. ASSUME NEW p, KmmCritical(p) PROVE Goal
  <2>1. CASE Panic
    BY <1>2, <2>1 DEF Panic
  <2>2. ASSUME NEW j \in DOMAIN blocks,
               blocks' = [blocks EXCEPT ![j] = [@ EXCEPT !.critical = TRUE]]
        PROVE  Goal
    <3>. DEFINE b == [blocks[j] EXCEPT !.critical = TRUE]
    <3>1. blocks[j] \in Block
      BY <1>1, BlockFields
    <3>2. b.critical /\ b.used = blocks[j].used /\ b.start = blocks[j].start
      BY <3>1 DEF Block
    <3>3. blocks' = [blocks EXCEPT ![j] = b]
      BY <2>2
    <3>. HIDE DEF b
    <3>. QED
      BY <1>1, <3>2, <3>3 DEF Chain
  <2>. QED
    BY <1>8, <2>1, <2>2 DEF KmmCritical
<1>. QED
  BY <1>2, <1>3, <1>4, <1>7, <1>8 DEF Next, ClientWrite, vars

\* Once kmmcritical marked a block, no kfree, krealloc or reuse by kalloc ever
\* takes it from its owner.
THEOREM CriticalCorrect == Spec => CriticalKept
<1>1. IInv /\ [Next]_vars => [CriticalStays]_vars
  BY NextCritical
<1>. QED
  BY <1>1, Invariance, PTL DEF Spec, CriticalKept, CriticalStays

----------------------------------------------------------------------------
(* Alloc implements AbstractHeap under the mapping heap <- Contents. *)

Range(p, n) == p .. p + n - 1

(* What an owner may touch lies inside the body of one block in use. *)
LEMMA OwnedRange ==
    ASSUME IInv, NEW p \in DOMAIN live
    PROVE  \E i \in DOMAIN blocks :
              /\ blocks[i].used
              /\ Payload(blocks[i]) = p
              /\ Range(p, live[p]) \subseteq Body(blocks[i])
<1>1. PICK i \in DOMAIN blocks : blocks[i].used /\ Payload(blocks[i]) = p
                                  /\ live[p] <= blocks[i].size
  BY DEF IInv, Backed
<1>2. blocks[i].size \in Nat /\ p \in Nat /\ live[p] \in Nat
  BY <1>1, BlockFields, RequestAssumption DEF IInv, Backed, Addr, Sizes
<1>. QED
  BY <1>1, <1>2 DEF Range, Body

(* Two owners never share a byte. *)
LEMMA OwnersApart ==
    ASSUME IInv, NEW p \in DOMAIN live, NEW q \in DOMAIN live, p # q
    PROVE  Range(p, live[p]) \cap Range(q, live[q]) = {}
<1>1. PICK i \in DOMAIN blocks : Payload(blocks[i]) = p
                                  /\ Range(p, live[p]) \subseteq Body(blocks[i])
  BY OwnedRange
<1>2. PICK j \in DOMAIN blocks : Payload(blocks[j]) = q
                                  /\ Range(q, live[q]) \subseteq Body(blocks[j])
  BY OwnedRange
<1>3. Body(blocks[i]) \cap Body(blocks[j]) = {}
  BY <1>1, <1>2, BodyApart DEF IInv
<1>. QED
  BY <1>1, <1>2, <1>3

(* The regions of the abstract heap are the ranges the ledger grants. *)
LEMMA RegionRange ==
    ASSUME IInv, NEW p \in DOMAIN live
    PROVE  /\ Heap!Region(p) = Range(p, live[p])
           /\ DOMAIN Contents[p] = 0 .. live[p] - 1
           /\ \A k \in 0 .. live[p] - 1 : Contents[p][k] = mem[p + k]
<1>1. p \in Nat /\ live[p] \in Nat
  BY RequestAssumption DEF IInv, Backed, Addr, Sizes
<1>2. /\ DOMAIN Contents[p] = 0 .. live[p] - 1
      /\ \A k \in 0 .. live[p] - 1 : Contents[p][k] = mem[p + k]
  BY DEF Contents
<1>3. Heap!Region(p) = {p + k : k \in 0 .. live[p] - 1}
  BY <1>2 DEF Heap!Region
<1>4. \A a \in Range(p, live[p]) : a - p \in 0 .. live[p] - 1 /\ a = p + (a - p)
  BY <1>1 DEF Range
<1>5. \A k \in 0 .. live[p] - 1 : p + k \in Range(p, live[p])
  BY <1>1 DEF Range
<1>. QED
  BY <1>2, <1>3, <1>4, <1>5

(* The pointers AbstractHeap sees as owned are those of the ledger. *)
LEMMA LiveIsDomain == Heap!Live = DOMAIN live /\ DOMAIN Contents = DOMAIN live
BY DEF Heap!Live, Contents

(* The regions of reachable states are disjoint. *)
LEMMA HeapDisjoint == IInv => Heap!Disjoint
<1>. SUFFICES ASSUME IInv, NEW p \in DOMAIN live, NEW q \in DOMAIN live, p # q
              PROVE  Heap!Region(p) \cap Heap!Region(q) = {}
  BY LiveIsDomain DEF Heap!Disjoint
<1>. QED
  BY OwnersApart, RegionRange

(* A region whose extent and bytes stay as they were is kept. *)
LEMMA Unmoved ==
    ASSUME NEW p \in DOMAIN live, p \in DOMAIN live', live'[p] = live[p],
           \A k \in 0 .. live[p] - 1 : mem'[p + k] = mem[p + k]
    PROVE  Contents'[p] = Contents[p]
BY DEF Contents

(* kalloc leaves the bytes of every owner alone and grants others. *)
LEMMA OutcomeFrame ==
    ASSUME IInv, NEW n \in 1 .. MaxRequest, NEW r \in KallocOutcomes(n),
           NEW k, GrantedBlock(r, n, k),
           NEW p \in DOMAIN live, NEW j \in 0 .. live[p] - 1
    PROVE  /\ p + j \in Addr
           /\ p + j \notin Body(r.blocks[k])
           /\ r.mem[p + j] = mem[p + j]
<1>1. PICK i \in DOMAIN blocks : blocks[i].used /\ Payload(blocks[i]) = p
                                  /\ Range(p, live[p]) \subseteq Body(blocks[i])
  BY OwnedRange
<1>2. /\ i # k /\ i \in DOMAIN r.blocks /\ r.blocks[i] = blocks[i]
      /\ k \in DOMAIN r.blocks
  BY <1>1 DEF GrantedBlock
<1>3. p \in Nat /\ live[p] \in Nat
  BY RequestAssumption DEF IInv, Backed, Addr, Sizes
<1>4. p + j \in Body(r.blocks[i])
  BY <1>1, <1>2, <1>3 DEF Range
<1>5. Chain(r.blocks)
  BY Outcome
<1>6. /\ p + j \in Addr /\ p + j \notin Body(r.blocks[k])
      /\ p + j \notin Header(r.blocks[k])
  BY <1>2, <1>4, <1>5, BlockFields, BodyApart
<1>. QED
  BY <1>6 DEF GrantedBlock

(* kalloc and kallocz add a region. *)
LEMMA AcquireStep ==
    ASSUME IInv, IInv', ~panicked, NEW n \in 1 .. MaxRequest,
           NEW r \in KallocOutcomes(n),
           blocks' = r.blocks, live' = Owning(live, r.ptr, n),
           mem' = r.mem \/ mem' = Filled(r.mem, r.ptr, n, Zero)
    PROVE  Heap!Acquire(n)
<1>1. PICK k \in DOMAIN r.blocks : GrantedBlock(r, n, k)
  BY Outcome
<1>2. r.ptr \in Addr /\ r.ptr \notin DOMAIN live
  BY <1>1, OutcomeLedger
<1>3. /\ DOMAIN live' = DOMAIN live \cup {r.ptr} /\ live'[r.ptr] = n
      /\ \A p \in DOMAIN live : live'[p] = live[p]
  BY <1>2 DEF Owning
<1>4. ASSUME NEW p \in DOMAIN live PROVE Contents'[p] = Contents[p]
  <2>1. ASSUME NEW j \in 0 .. live[p] - 1 PROVE mem'[p + j] = mem[p + j]
    <3>1. /\ p + j \in Addr /\ p + j \notin Body(r.blocks[k])
          /\ r.mem[p + j] = mem[p + j]
      BY <1>1, OutcomeFrame
    <3>2. n <= r.blocks[k].size /\ r.ptr = Payload(r.blocks[k]) /\ r.ptr \in Nat
          /\ r.blocks[k].size \in Nat
      BY <1>1, <1>2, Outcome, BlockFields DEF GrantedBlock, Addr
    <3>3. p + j \notin r.ptr .. r.ptr + n - 1
      BY <3>1, <3>2 DEF Body, Addr
    <3>. QED
      BY <3>1, <3>3 DEF Filled
  <2>. QED
    BY <1>3, <2>1, Unmoved
<1>5. DOMAIN Contents'[r.ptr] = 0 .. n - 1
  BY <1>3 DEF Contents
<1>6. Heap!Disjoint'
  BY HeapDisjoint, PTL
<1>7. Heap!Live' = DOMAIN live'
  BY DEF Heap!Live, Contents
<1>. QED
  BY <1>2, <1>3, <1>4, <1>5, <1>6, <1>7, LiveIsDomain DEF Heap!Acquire, Heap!Kept

(* A panic, or a step that changes no byte an owner holds, is a stutter. *)
LEMMA StutterStep ==
    ASSUME DOMAIN live' = DOMAIN live, \A p \in DOMAIN live : Contents'[p] = Contents[p]
    PROVE  Contents' = Contents
BY DEF Contents

(* kfree takes one region away. *)
LEMMA ReleaseStep ==
    ASSUME IInv, NEW p, KFree(p)
    PROVE  \/ p \in DOMAIN live /\ Heap!Release(p)
           \/ Contents' = Contents
<1>1. CASE live' = Disowning(live, p) /\ mem' = mem
  <2>1. /\ DOMAIN live' = DOMAIN live \ {p}
        /\ \A q \in DOMAIN live \ {p} : live'[q] = live[q]
    BY <1>1 DEF Disowning
  <2>2. \A q \in DOMAIN live \ {p} : Contents'[q] = Contents[q]
    BY <1>1, <2>1, Unmoved
  <2>3. CASE p \in DOMAIN live
    BY <2>1, <2>2, <2>3, LiveIsDomain DEF Heap!Release, Heap!Kept, Heap!Live, Contents
  <2>4. CASE p \notin DOMAIN live
    <3>1. DOMAIN live' = DOMAIN live
      BY <2>1, <2>4
    <3>. QED
      BY <2>2, <2>4, <3>1, StutterStep
  <2>. QED
    BY <2>3, <2>4
<1>2. CASE Panic
  BY <1>2 DEF Panic, Contents
<1>. QED
  BY <1>1, <1>2 DEF KFree

(* A shrinking krealloc cuts a region short. *)
LEMMA ShrinkStep ==
    ASSUME IInv, IInv', NEW p \in DOMAIN live, NEW i \in DOMAIN blocks,
           NEW n \in Sizes, Shrink(p, i, n)
    PROVE  Heap!Resize(p, n)
<1>1. /\ live' = Owning(live, p, n) /\ mem' = mem /\ p \in Addr
      /\ DOMAIN live' = DOMAIN live /\ live'[p] = n
      /\ \A q \in DOMAIN live : q # p => live'[q] = live[q]
  BY DEF Shrink, Owning, IInv, Backed
<1>2. \A q \in DOMAIN live \ {p} : Contents'[q] = Contents[q]
  BY <1>1, Unmoved
<1>3. DOMAIN Contents'[p] = 0 .. n - 1 /\ DOMAIN Contents[p] = 0 .. live[p] - 1
  BY <1>1 DEF Contents
<1>4. ASSUME NEW j \in DOMAIN Contents[p], j < n
      PROVE  Contents'[p][j] = Contents[p][j]
  <2>1. j \in 0 .. n - 1 /\ j \in 0 .. live[p] - 1
    BY <1>3, <1>4, RequestAssumption DEF IInv, Backed, Sizes
  <2>. QED
    BY <1>1, <2>1 DEF Contents
<1>5. Heap!Disjoint'
  BY HeapDisjoint, PTL
<1>6. Heap!Live' = DOMAIN live'
  BY DEF Heap!Live, Contents
<1>. QED
  BY <1>1, <1>2, <1>3, <1>4, <1>5, <1>6, LiveIsDomain DEF Heap!Resize, Heap!Kept

(* A moving krealloc carries the bytes over before it frees the old block; when
   kfree panics on a critical block, no owner has lost anything. *)
LEMMA MoveStep ==
    ASSUME IInv, IInv', ~panicked, NEW p \in DOMAIN live, NEW i \in DOMAIN blocks,
           IsBlockOf(i, p), NEW n \in Sizes, Move(p, i, n)
    PROVE  Heap!Resize(p, n) \/ Contents' = Contents
<1>1. n \in 1 .. MaxRequest /\ n >= blocks[i].size /\ blocks[i].used
      /\ live[p] <= blocks[i].size
  BY RequestAssumption, LiveBlock DEF Move, Sizes
<1>2. CASE Panic
  BY <1>2 DEF Panic, Contents
<1>3. ASSUME NEW r \in KallocOutcomes(n),
             mem' = Copied(r.mem, r.ptr, p, blocks[i].size),
             \/ live' = live
             \/ live' = Owning(Disowning(live, p), r.ptr, n)
      PROVE  Heap!Resize(p, n) \/ Contents' = Contents
  <2>1. PICK k \in DOMAIN r.blocks : GrantedBlock(r, n, k)
    BY <1>1, Outcome
  <2>2. /\ \A a \in Addr : a \notin Body(r.blocks[k]) => mem'[a] = r.mem[a]
        /\ p # r.ptr
    BY <1>1, <1>3, <2>1, MoveMemory
  <2>3. r.ptr \in Addr /\ r.ptr \notin DOMAIN live
    BY <1>1, <2>1, OutcomeLedger
  <2>4. \A q \in DOMAIN live : \A j \in 0 .. live[q] - 1 :
            mem'[q + j] = mem[q + j] /\ r.mem[q + j] = mem[q + j]
    BY <1>1, <2>1, <2>2, OutcomeFrame
  <2>5. CASE live' = live
    BY <2>4, <2>5, Unmoved, StutterStep
  <2>6. CASE live' = Owning(Disowning(live, p), r.ptr, n)
    <3>1. /\ DOMAIN live' = (DOMAIN live \ {p}) \cup {r.ptr}
          /\ live'[r.ptr] = n
          /\ \A q \in DOMAIN live \ {p} : live'[q] = live[q]
      BY <2>3, <2>6 DEF Owning, Disowning
    <3>2. \A q \in DOMAIN live \ {p} : Contents'[q] = Contents[q]
      BY <2>4, <3>1, Unmoved
    <3>3. DOMAIN Contents'[r.ptr] = 0 .. n - 1 /\ DOMAIN Contents[p] = 0 .. live[p] - 1
      BY <3>1 DEF Contents
    <3>4. ASSUME NEW j \in DOMAIN Contents[p], j < n
          PROVE  Contents'[r.ptr][j] = Contents[p][j]
      <4>1. /\ p \in Nat /\ r.ptr \in Nat /\ live[p] \in Nat
            /\ blocks[i].size \in Nat /\ n \in Nat
        BY <1>1, <2>3, BlockFields, RequestAssumption DEF IInv, Backed, Addr, Sizes
      <4>2. j \in 0 .. n - 1 /\ j \in 0 .. live[p] - 1 /\ j \in Nat
        BY <3>3, <3>4, <4>1
      <4>3. Contents'[r.ptr][j] = mem'[r.ptr + j]
        BY <3>1, <4>2 DEF Contents
      <4>4. Contents[p][j] = mem[p + j]
        BY <4>2 DEF Contents
      <4>5. r.ptr + j \in Body(r.blocks[k]) /\ r.ptr + j \in Addr
        <5>1. Chain(r.blocks) /\ r.ptr = Payload(r.blocks[k]) /\ n <= r.blocks[k].size
          BY <1>1, <2>1, Outcome DEF GrantedBlock
        <5>2. r.blocks[k].size \in Nat /\ Body(r.blocks[k]) \subseteq Addr
          BY <5>1, BlockFields
        <5>. QED
          BY <4>1, <4>2, <5>1, <5>2 DEF Body
      <4>6. r.ptr + j \in r.ptr .. r.ptr + blocks[i].size - 1
        BY <1>1, <4>1, <4>2
      <4>7. mem'[r.ptr + j] = r.mem[p + ((r.ptr + j) - r.ptr)]
        BY <1>3, <4>5, <4>6 DEF Copied
      <4>8. (r.ptr + j) - r.ptr = j
        BY <4>1, <4>2
      <4>. QED
        BY <2>4, <4>2, <4>3, <4>4, <4>7, <4>8
    <3>5. Heap!Disjoint'
      BY HeapDisjoint, PTL
    <3>6. Heap!Live' = DOMAIN live'
      BY DEF Heap!Live, Contents
    <3>. QED
      BY <2>3, <3>1, <3>2, <3>3, <3>4, <3>5, <3>6, LiveIsDomain
         DEF Heap!Resize, Heap!Kept
  <2>. QED
    BY <1>3, <2>5, <2>6
<1>. QED
  BY <1>2, <1>3 DEF Move

(* An owner's store changes its own region only. *)
LEMMA StoreStep ==
    ASSUME IInv, NEW p \in DOMAIN live, NEW k \in Sizes, NEW v \in Data,
           ClientWrite(p, k, v)
    PROVE  Heap!Store(p)
<1>1. p \in Nat /\ live[p] \in Nat /\ k \in 0 .. live[p] - 1
  BY RequestAssumption DEF IInv, Backed, Addr, Sizes, ClientWrite
<1>2. p + k \in Range(p, live[p])
  BY <1>1 DEF Range
<1>3. ASSUME NEW q \in DOMAIN live, q # p PROVE Contents'[q] = Contents[q]
  <2>1. q \in Nat /\ live[q] \in Nat
    BY RequestAssumption DEF IInv, Backed, Addr, Sizes
  <2>2. ASSUME NEW j \in 0 .. live[q] - 1 PROVE mem'[q + j] = mem[q + j]
    <3>1. q + j \in Range(q, live[q])
      BY <2>1 DEF Range
    <3>2. q + j # p + k
      BY <1>2, <1>3, <3>1, OwnersApart
    <3>. QED
      BY <3>2 DEF ClientWrite, IInv, Headed
  <2>. QED
    BY <2>2, Unmoved DEF ClientWrite
<1>4. DOMAIN Contents'[p] = DOMAIN Contents[p] /\ Heap!Live' = Heap!Live
  BY DEF Contents, ClientWrite, Heap!Live
<1>. QED
  BY <1>3, <1>4, LiveIsDomain DEF Heap!Store, Heap!Kept

(* Every step of the allocator is a step of AbstractHeap or a stutter. *)
LEMMA NextHeap == IInv /\ IInv' /\ [Next]_vars => [Heap!Next]_Contents
<1>. SUFFICES ASSUME IInv, IInv', [Next]_vars PROVE Heap!Next \/ Contents' = Contents
  OBVIOUS
<1>1. CASE UNCHANGED <<mem, live>>
  BY <1>1 DEF Contents
<1>2. CASE Panic
  BY <1>1, <1>2 DEF Panic
<1>3. ASSUME ~panicked, NEW n \in Sizes, KAlloc(n) \/ KAllocZ(n)
      PROVE  Heap!Next \/ Contents' = Contents
  <2>1. n \in 1 .. MaxRequest
    BY <1>3, RequestAssumption DEF KAlloc, KAllocZ, Sizes
  <2>2. CASE Heap!Acquire(n)
    BY <2>1, <2>2 DEF Heap!Next
  <2>. QED
    BY <1>2, <1>3, <2>1, <2>2, AcquireStep DEF KAlloc, KAllocZ
<1>4. ASSUME NEW p, KFree(p) PROVE Heap!Next \/ Contents' = Contents
  BY <1>4, ReleaseStep, LiveIsDomain DEF Heap!Next
<1>5. ASSUME ~panicked, NEW p \in Known, NEW n \in Sizes, KRealloc(p, n)
      PROVE  Heap!Next \/ Contents' = Contents
  <2>1. PICK i \in DOMAIN blocks :
          /\ IsBlockOf(i, p)
          /\ IF InRange(p) /\ blocks[i].used
             THEN Shrink(p, i, n) \/ Move(p, i, n) \/ Vanish(p, i, n)
             ELSE Panic
    BY <1>5 DEF KRealloc
  <2>2. CASE blocks[i].used
    <3>1. i > 1
      <4>1. PICK j \in 2 .. Len(blocks) : Payload(blocks[j]) = p
        BY DEF Known
      <4>2. j \in DOMAIN blocks /\ j > 1
        BY <4>1 DEF IInv, Chain
      <4>. QED
        BY <2>1, <4>1, <4>2, PointerUnique DEF IInv, IsBlockOf
    <3>2. p \in DOMAIN live
      BY <1>5, <2>1, <2>2, <3>1 DEF IInv, Owned, IsBlockOf
    <3>3. n \in 0 .. MaxRequest
      BY DEF Sizes
    <3>4. CASE Heap!Resize(p, n)
      BY <3>2, <3>3, <3>4, LiveIsDomain DEF Heap!Next
    <3>. QED
      BY <1>2, <1>4, <1>5, <2>1, <2>2, <3>2, <3>4, ShrinkStep, MoveStep DEF Vanish
  <2>3. CASE ~blocks[i].used
    BY <1>2, <2>1, <2>3
  <2>. QED
    BY <2>2, <2>3
<1>6. ASSUME NEW p \in DOMAIN live, KmmCritical(p) PROVE Heap!Next \/ Contents' = Contents
  BY <1>1, <1>2, <1>6 DEF KmmCritical
<1>7. ASSUME NEW p \in DOMAIN live, NEW k \in Sizes, NEW v \in Data, ClientWrite(p, k, v)
      PROVE  Heap!Next \/ Contents' = Contents
  BY <1>7, StoreStep, LiveIsDomain DEF Heap!Next
<1>. QED
  BY <1>1, <1>3, <1>4, <1>5, <1>6, <1>7 DEF Next, vars

\* The allocator of kern/alloc.c implements the abstract heap: callers own
\* disjoint regions, no call changes bytes of a region it is not about, and
\* krealloc preserves the common prefix, wherever blocks are reused or moved.
THEOREM Refinement == Spec => ImplementsHeap
<1>1. Init => Heap!Init
  BY DEF Init, Heap!Init, Heap!Live, Contents
<1>2. IInv /\ IInv' /\ [Next]_vars => [Heap!Next]_Contents
  BY NextHeap
<1>. QED
  BY <1>1, <1>2, Invariance, PTL DEF Spec, ImplementsHeap, Heap!Spec
=============================================================================
