---------------------------- MODULE AbstractHeap ----------------------------
(***************************************************************************)
(* What a caller of the kernel allocator may rely on (alloc.h): a heap is  *)
(* a map from the pointers handed out to the bytes behind them.  A call    *)
(* touches the region it is about and no other, regions never overlap, and *)
(* resizing keeps the common prefix.  Nothing is said of headers, of free  *)
(* blocks or of where a region is placed: that is the business of Alloc.   *)
(***************************************************************************)
EXTENDS Naturals

CONSTANTS
    Addr,           \* the addresses a pointer may have
    MaxRequest      \* the largest region anyone asks for

VARIABLE heap       \* heap[p][i] is the i-th byte of the region behind p

Live == DOMAIN heap

\* The addresses of the region behind p.
Region(p) == {p + i : i \in DOMAIN heap[p]}

\* No byte belongs to two regions.
Disjoint == \A p, q \in Live : p # q => Region(p) \cap Region(q) = {}

\* The regions in P are exactly as they were.
Kept(P) == \A q \in P : heap'[q] = heap[q]

Init == Live = {}

\* kalloc, kallocz: one more region, of n bytes, disjoint from the others.
Acquire(n) ==
    \E p \in Addr :
        /\ p \notin Live
        /\ Live' = Live \cup {p}
        /\ DOMAIN heap'[p] = 0 .. n - 1
        /\ Kept(Live)
        /\ Disjoint'

\* kfree: one region fewer.
Release(p) ==
    /\ Live' = Live \ {p}
    /\ Kept(Live \ {p})

\* krealloc: p becomes a region q of n bytes that starts with p's bytes.
Resize(p, n) ==
    \E q \in Addr :
        /\ q \notin Live \ {p}
        /\ Live' = (Live \ {p}) \cup {q}
        /\ DOMAIN heap'[q] = 0 .. n - 1
        /\ \A i \in DOMAIN heap[p] : i < n => heap'[q][i] = heap[p][i]
        /\ Kept(Live \ {p})
        /\ Disjoint'

\* The owner of p stores into it.
Store(p) ==
    /\ Live' = Live
    /\ DOMAIN heap'[p] = DOMAIN heap[p]
    /\ Kept(Live \ {p})

Next ==
    \/ \E n \in 1 .. MaxRequest : Acquire(n)
    \/ \E p \in Live : Release(p) \/ Store(p) \/ \E n \in 0 .. MaxRequest : Resize(p, n)

Spec == Init /\ [][Next]_heap
=============================================================================
