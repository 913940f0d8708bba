--------------------------- MODULE StructureProofs ---------------------------
(***************************************************************************)
(* Proofs about the kernel's data structures, each for every size and any  *)
(* elements.  The ring implements AbstractQueue.  The list is right for    *)
(* any number of nodes: its ghost order turns statements about chains of   *)
(* pointers into statements about neighbouring positions of a sequence.    *)
(* The hash table finds every key, no search in it is endless, and it      *)
(* implements AbstractMap, for any hash function.  The environment has no  *)
(* key in two items, however often items were removed and used again, and  *)
(* implements AbstractStore.                                               *)
(***************************************************************************)
EXTENDS RingBuffer, LinkedList, HashTable, Environment, NumberLemmas, SequenceTheorems, TLAPS

------------------------------------------------------------------------------
(* The ring buffer. *)

(* An index that has gone round at most once. *)
LEMMA Wrap ==
    \A a \in 0 .. 2 * Size - 1 :
        a % Size = (IF a < Size THEN a ELSE a - Size) /\ a % Size \in RingCells
<1> TAKE a \in 0 .. 2 * Size - 1
<1>1. Size \in Nat \ {0}
  BY SizeAssumption
<1>2. CASE a < Size
  BY <1>1, <1>2 DEF RingCells
<1>3. CASE ~ (a < Size)
  BY <1>1, <1>3 DEF RingCells
<1> QED BY <1>2, <1>3

(* Room for what head and tail say, and no more. *)
RingInv == RingTypeOK /\ FullMeansMet

(* The cell of the i-th element. *)
RingCell(i) == (tail + i - 1) % Size

(* Where head stands to the elements. *)
LEMMA Positions ==
    ASSUME RingInv
    PROVE  /\ Count \in 0 .. Size
           /\ Count = Size <=> full
           /\ Count = 0 <=> Empty
           /\ head = (tail + Count) % Size
           /\ \A i \in 1 .. Count : RingCell(i) \in RingCells /\ (RingCell(i) = head => full /\ i = 1)
<1>1. Size \in Nat \ {0}
  BY SizeAssumption
<1>2. head \in 0 .. Size - 1 /\ tail \in 0 .. Size - 1 /\ full \in BOOLEAN /\ (full => head = tail)
  BY DEF RingInv, RingTypeOK, FullMeansMet, RingCells
<1>3. Count \in 0 .. Size /\ (Count = Size <=> full) /\ (Count = 0 <=> Empty)
  BY <1>1, <1>2 DEF Count, Empty
<1>4. head = (tail + Count) % Size
  <2>1. tail + Count \in 0 .. 2 * Size - 1
    BY <1>1, <1>2, <1>3
  <2> DEFINE a == tail + Count
  <2>2. a % Size = IF a < Size THEN a ELSE a - Size
    <3> HIDE DEF a
    <3> QED BY <2>1, Wrap DEF a
  <2> QED BY <1>1, <1>2, <2>2 DEF Count
<1>5. ASSUME NEW i \in 1 .. Count
      PROVE  RingCell(i) \in RingCells /\ (RingCell(i) = head => full /\ i = 1)
  <2>1. tail + i - 1 \in 0 .. 2 * Size - 1
    BY <1>1, <1>2, <1>3
  <2> DEFINE a == tail + i - 1
  <2>2. RingCell(i) = (IF a < Size THEN a ELSE a - Size) /\ RingCell(i) \in RingCells
    <3>1. RingCell(i) = a % Size
      BY DEF RingCell
    <3> HIDE DEF a
    <3> QED BY <2>1, <3>1, Wrap DEF a
  <2>3. RingCell(i) = head => full /\ i = 1
    BY <1>1, <1>2, <2>2 DEF Count
  <2> QED BY <2>2, <2>3
<1> QED BY <1>3, <1>4, <1>5

(* The elements are a sequence. *)
ElementsShape ==
    /\ Elements \in Seq(RingData \cup {Nothing})
    /\ Len(Elements) = Count
    /\ \A i \in 1 .. Count : Elements[i] = buffer[RingCell(i)]

(* They always are. *)
LEMMA ElementsAre == RingInv => ElementsShape
<1> SUFFICES ASSUME RingInv PROVE ElementsShape
  OBVIOUS
<1>1. Count \in Nat
  BY Positions, SizeAssumption
<1>2. \A i \in 1 .. Count : buffer[(tail + i - 1) % Size] \in RingData \cup {Nothing}
  BY Positions DEF RingInv, RingTypeOK, RingCell
<1> QED BY <1>1, <1>2 DEF Elements, RingCell, ElementsShape

(* The cell behind another. *)
LEMMA BehindCell ==
    ASSUME NEW i \in RingCells
    PROVE  Behind(i) = (IF i = Size - 1 THEN 0 ELSE i + 1) /\ Behind(i) \in RingCells
<1>1. Size \in Nat \ {0}
  BY SizeAssumption
<1>2. i + 1 \in 0 .. 2 * Size - 1
  BY <1>1 DEF RingCells
<1> QED BY <1>1, <1>2, Wrap DEF Behind, RingCells

(* ringbuffer_init leaves a buffer without elements. *)
LEMMA RingInitInv == RingInit => RingInv
<1>1. 0 \in RingCells
  BY SizeAssumption DEF RingCells
<1> QED BY <1>1 DEF RingInit, RingInv, RingTypeOK, FullMeansMet

(* Each step keeps the indices in the array and the flag in step with them. *)
LEMMA RingStepInv == RingInv /\ [RingNext]_ringvars => RingInv'
<1> SUFFICES ASSUME RingInv, [RingNext]_ringvars PROVE RingInv'
  OBVIOUS
<1>1. CASE ringbuffer_reset
  <2>1. 0 \in RingCells
    BY SizeAssumption DEF RingCells
  <2> QED BY <1>1, <2>1 DEF ringbuffer_reset, RingInv, RingTypeOK, FullMeansMet
<1>2. CASE ringbuffer_get
  <2>1. tail \in RingCells /\ Behind(tail) \in RingCells /\ buffer[tail] \in RingData \cup {Nothing}
    BY BehindCell DEF RingInv, RingTypeOK
  <2> QED BY <1>2, <2>1 DEF ringbuffer_get, FullAfterGet, RingInv, RingTypeOK, FullMeansMet
<1>3. ASSUME NEW d \in RingData, ringbuffer_put(d) PROVE RingInv'
  <2>1. Behind(head) \in RingCells /\ TailAfterPut \in RingCells
    BY BehindCell DEF RingInv, RingTypeOK, TailAfterPut
  <2> QED BY <1>3, <2>1 DEF ringbuffer_put, FullAfterPut, RingInv, RingTypeOK, FullMeansMet
<1>4. CASE UNCHANGED ringvars
  BY <1>4 DEF ringvars, RingInv, RingTypeOK, FullMeansMet
<1> QED BY <1>1, <1>2, <1>3, <1>4 DEF RingNext

(* Type and flag are right in every reachable state of buffer.c. *)
THEOREM RingInvariance == RingSpec => []RingInv
BY RingInitInv, RingStepInv, PTL DEF RingSpec

(* The indices of buffer.c stay in the array. *)
THEOREM RingTypeCorrect == RingSpec => []RingTypeOK
<1>1. RingInv => RingTypeOK
  BY DEF RingInv
<1> QED BY <1>1, RingInvariance, PTL

(* A buffer with the flag full has head and tail together. *)
THEOREM FullCorrect == RingSpec => []FullMeansMet
<1>1. RingInv => FullMeansMet
  BY DEF RingInv
<1> QED BY <1>1, RingInvariance, PTL
----------------------------------------------------------------------------
(* A sequence is what its elements are. *)
LEMMA SameSequence ==
    ASSUME NEW S, NEW p \in Seq(S), NEW q \in Seq(S), Len(p) = Len(q),
           \A i \in 1 .. Len(p) : p[i] = q[i]
    PROVE  p = q
BY SeqEqual

(* What a put does to the elements. *)
LEMMA PutElements ==
    ASSUME RingInv, NEW d \in RingData, ringbuffer_put(d)
    PROVE  Elements' = IF Len(Elements) = Size THEN Append(Tail(Elements), d)
                                               ELSE Append(Elements, d)
<1> DEFINE S == RingData \cup {Nothing}
<1>1. Size \in Nat \ {0} /\ RingInv'
  BY SizeAssumption, RingStepInv DEF RingNext
<1>2. /\ Count \in 0 .. Size /\ (Count = Size <=> full)
      /\ \A i \in 1 .. Count : RingCell(i) \in RingCells /\ (RingCell(i) = head => full /\ i = 1)
      /\ head = (tail + Count) % Size
  BY Positions
<1>3. /\ Elements \in Seq(S) /\ Len(Elements) = Count
      /\ \A i \in 1 .. Count : Elements[i] = buffer[RingCell(i)]
  BY ElementsAre DEF ElementsShape
<1>4. /\ Elements' \in Seq(S) /\ Len(Elements)' = Count'
      /\ \A i \in 1 .. Count' : Elements'[i] = buffer'[RingCell(i)']
  <2>1. ElementsShape'
    BY <1>1, ElementsAre, PTL
  <2> QED BY <2>1 DEF ElementsShape
<1>5. /\ head \in 0 .. Size - 1 /\ tail \in 0 .. Size - 1 /\ full \in BOOLEAN
      /\ (full => head = tail) /\ buffer \in [0 .. Size - 1 -> S]
  BY DEF RingInv, RingTypeOK, FullMeansMet, RingCells
<1>6. /\ head' = (IF head = Size - 1 THEN 0 ELSE head + 1)
      /\ tail' = (IF full THEN head' ELSE tail)
      /\ full' = (head' = tail')
      /\ buffer' = [buffer EXCEPT ![head] = d]
  BY <1>5, BehindCell DEF ringbuffer_put, TailAfterPut, FullAfterPut, RingCells
<1>7. \A t \in 0 .. Size - 1, i \in 1 .. Size :
          (t + i - 1) % Size = IF t + i - 1 < Size THEN t + i - 1 ELSE t + i - 1 - Size
  <2> TAKE t \in 0 .. Size - 1, i \in 1 .. Size
  <2> DEFINE a == t + i - 1
  <2>1. a \in 0 .. 2 * Size - 1
    BY <1>1
  <2>2. a % Size = IF a < Size THEN a ELSE a - Size
    <3> HIDE DEF a
    <3> QED BY <2>1, Wrap
  <2> QED BY <1>1, <2>2
<1>8. Count' = IF full THEN Size ELSE Count + 1
  <2>1. CASE full
    <3>1. full' = TRUE
      BY <1>6, <2>1
    <3> QED BY <2>1, <3>1 DEF Count
  <2>2. CASE ~ full
    <3>1. full' = (head' = tail) /\ tail' = tail
      BY <1>6, <2>2
    <3>2. CASE head' = tail
      <4>1. full' = TRUE
        BY <3>1, <3>2
      <4> QED BY <1>1, <1>5, <1>6, <2>2, <3>1, <3>2, <4>1 DEF Count
    <3>3. CASE head' # tail
      <4>1. full' = FALSE
        BY <3>1, <3>3
      <4> QED BY <1>1, <1>5, <1>6, <2>2, <3>1, <3>3, <4>1 DEF Count
    <3> QED BY <3>2, <3>3
  <2> QED BY <1>5, <2>1, <2>2
<1>9. tail' \in 0 .. Size - 1
  BY <1>1, <1>5, <1>6
<1>10. CASE full
  <2> DEFINE q == Append(Tail(Elements), d)
  <2>1. Count = Size /\ Count' = Size
    BY <1>2, <1>8, <1>10
  <2>2. q \in Seq(S) /\ Len(q) = Size /\ q[Size] = d
        /\ \A i \in 1 .. Size - 1 : q[i] = Elements[i + 1]
    BY <1>1, <1>3, <2>1
  <2>3. ASSUME NEW i \in 1 .. Size - 1 PROVE Elements'[i] = q[i]
    <3>1. RingCell(i)' = RingCell(i + 1)
      BY <1>1, <1>5, <1>6, <1>7, <1>9, <1>10 DEF RingCell
    <3>2. RingCell(i + 1) # head /\ RingCell(i + 1) \in 0 .. Size - 1
      BY <1>1, <1>2, <2>1 DEF RingCells
    <3>3. buffer'[RingCell(i)'] = buffer[RingCell(i + 1)]
      BY <1>5, <1>6, <3>1, <3>2
    <3>4. Elements'[i] = buffer'[RingCell(i)']
      BY <1>1, <1>4, <2>1
    <3>5. Elements[i + 1] = buffer[RingCell(i + 1)]
      BY <1>1, <1>3, <2>1
    <3> QED BY <2>2, <3>3, <3>4, <3>5
  <2>4. Elements'[Size] = d
    <3>1. RingCell(Size)' = head
      BY <1>1, <1>5, <1>6, <1>7, <1>9, <1>10 DEF RingCell
    <3>2. Elements'[Size] = buffer'[RingCell(Size)']
      BY <1>1, <1>4, <2>1
    <3> QED BY <1>5, <1>6, <3>1, <3>2
  <2> HIDE DEF q, S
  <2>5. Len(Elements') = Size /\ Elements' \in Seq(S)
    BY <1>4, <2>1
  <2>6. \A i \in 1 .. Size : Elements'[i] = q[i]
    BY <1>1, <2>2, <2>3, <2>4
  <2>7. Elements' = q
    BY <2>2, <2>5, <2>6, SameSequence
  <2> QED BY <1>3, <2>1, <2>7 DEF q
<1>11. CASE ~ full
  <2> DEFINE q == Append(Elements, d)
  <2>1. Count \in Nat /\ Count < Size /\ Count' = Count + 1
    BY <1>1, <1>2, <1>8, <1>11
  <2>2. q \in Seq(S) /\ Len(q) = Count + 1 /\ q[Count + 1] = d
        /\ \A i \in 1 .. Count : q[i] = Elements[i]
    BY <1>3, <2>1
  <2>3. ASSUME NEW i \in 1 .. Count PROVE Elements'[i] = q[i]
    <3>1. RingCell(i)' = RingCell(i) /\ RingCell(i) # head /\ RingCell(i) \in 0 .. Size - 1
      BY <1>2, <1>6, <1>11 DEF RingCell, RingCells
    <3>2. buffer'[RingCell(i)'] = buffer[RingCell(i)]
      BY <1>5, <1>6, <3>1
    <3>3. Elements'[i] = buffer'[RingCell(i)']
      BY <1>4, <2>1
    <3> QED BY <1>3, <2>2, <3>2, <3>3
  <2>4. Elements'[Count + 1] = d
    <3>1. Elements'[Count + 1] = buffer'[(tail + (Count + 1) - 1) % Size]
      BY <1>4, <1>6, <1>11, <2>1 DEF RingCell
    <3>2. (tail + (Count + 1) - 1) % Size = head
      BY <1>2, <1>5, <2>1
    <3> QED BY <1>5, <1>6, <3>1, <3>2
  <2> HIDE DEF q, S
  <2>5. Len(Elements') = Count + 1 /\ Elements' \in Seq(S)
    BY <1>4, <2>1
  <2>6. \A i \in 1 .. Count + 1 : Elements'[i] = q[i]
    BY <2>1, <2>2, <2>3, <2>4
  <2>7. Elements' = q
    BY <2>2, <2>5, <2>6, SameSequence
  <2> QED BY <1>3, <2>1, <2>7 DEF q
<1> QED BY <1>5, <1>10, <1>11

(* What a get does to the elements, and what it returns. *)
LEMMA GetElements ==
    ASSUME RingInv, ringbuffer_get, ~ Empty
    PROVE  Elements # <<>> /\ ringGot' = Head(Elements) /\ Elements' = Tail(Elements)
<1> DEFINE S == RingData \cup {Nothing}
           q == Tail(Elements)
<1>1. Size \in Nat \ {0} /\ RingInv'
  BY SizeAssumption, RingStepInv DEF RingNext
<1>2. /\ Count \in 0 .. Size /\ Count # 0
      /\ \A i \in 1 .. Count : RingCell(i) \in RingCells
  BY Positions
<1>3. /\ Elements \in Seq(S) /\ Len(Elements) = Count
      /\ \A i \in 1 .. Count : Elements[i] = buffer[RingCell(i)]
  BY ElementsAre DEF ElementsShape
<1>4. /\ Elements' \in Seq(S) /\ Len(Elements)' = Count'
      /\ \A i \in 1 .. Count' : Elements'[i] = buffer'[RingCell(i)']
  <2>1. ElementsShape'
    BY <1>1, ElementsAre, PTL
  <2> QED BY <2>1 DEF ElementsShape
<1>5. /\ head \in 0 .. Size - 1 /\ tail \in 0 .. Size - 1 /\ full \in BOOLEAN
      /\ (full => head = tail)
  BY DEF RingInv, RingTypeOK, FullMeansMet, RingCells
<1>6. /\ tail' = (IF tail = Size - 1 THEN 0 ELSE tail + 1) /\ tail' \in 0 .. Size - 1
      /\ full' = FALSE /\ head' = head /\ buffer' = buffer /\ ringGot' = buffer[tail]
  BY <1>5, BehindCell DEF ringbuffer_get, FullAfterGet, RingCells
<1>7. \A t \in 0 .. Size - 1, i \in 1 .. Size :
          (t + i - 1) % Size = IF t + i - 1 < Size THEN t + i - 1 ELSE t + i - 1 - Size
  <2> TAKE t \in 0 .. Size - 1, i \in 1 .. Size
  <2> DEFINE a == t + i - 1
  <2>1. a \in 0 .. 2 * Size - 1
    BY <1>1
  <2>2. a % Size = IF a < Size THEN a ELSE a - Size
    <3> HIDE DEF a
    <3> QED BY <2>1, Wrap
  <2> QED BY <1>1, <2>2
<1>8. Count' = Count - 1
  <2>1. CASE full
    BY <1>1, <1>5, <1>6, <2>1 DEF Count
  <2>2. CASE ~ full
    <3>1. head # tail
      BY <2>2 DEF Empty
    <3> QED BY <1>1, <1>5, <1>6, <2>2, <3>1 DEF Count
  <2> QED BY <1>5, <2>1, <2>2
<1>9. Elements # <<>> /\ ringGot' = Head(Elements)
  <2>1. RingCell(1) = tail
    BY <1>1, <1>5, <1>7 DEF RingCell
  <2>2. Elements[1] = buffer[RingCell(1)]
    BY <1>2, <1>3
  <2> QED BY <1>2, <1>3, <1>6, <2>1, <2>2
<1>10. q \in Seq(S) /\ Len(q) = Count - 1 /\ \A i \in 1 .. Count - 1 : q[i] = Elements[i + 1]
  BY <1>2, <1>3
<1>11. ASSUME NEW i \in 1 .. Count - 1 PROVE Elements'[i] = q[i]
  <2>1. RingCell(i)' = RingCell(i + 1)
    BY <1>1, <1>2, <1>5, <1>6, <1>7 DEF RingCell
  <2>2. Elements'[i] = buffer'[RingCell(i)']
    BY <1>4, <1>8
  <2>3. Elements[i + 1] = buffer[RingCell(i + 1)]
    BY <1>2, <1>3
  <2> QED BY <1>6, <1>10, <2>1, <2>2, <2>3
<1> HIDE DEF q, S
<1>12. Len(Elements') = Len(q) /\ \A i \in 1 .. Len(Elements') : Elements'[i] = q[i]
  BY <1>2, <1>4, <1>8, <1>10, <1>11
<1>13. Elements' = q
  BY <1>4, <1>10, <1>12, SameSequence
<1> QED BY <1>9, <1>13 DEF q

(* An empty buffer has no elements. *)
LEMMA NoElements ==
    ASSUME Count = 0 PROVE Elements = <<>>
BY DEF Elements

(* The ring buffer implements AbstractQueue: what is got is what was put, in order,
   the oldest elements dropped for the newest. *)
THEOREM QueueRefinement == RingSpec => ImplementsQueue
<1>1. RingInit => Queue!Init
  <2> SUFFICES ASSUME RingInit PROVE Queue!Init
    OBVIOUS
  <2>1. Count = 0
    BY SizeAssumption DEF RingInit, Count
  <2> QED BY <2>1, NoElements DEF RingInit, Queue!Init
<1>2. ASSUME RingInv, [RingNext]_ringvars PROVE [Queue!Next]_<<Elements, ringGot>>
  <2>1. CASE ringbuffer_reset
    <3>1. Count' = 0
      BY <2>1 DEF ringbuffer_reset, Count
    <3>2. Elements' = <<>>
      BY <3>1 DEF Elements
    <3>3. Queue!Reset
      BY <2>1, <3>2 DEF ringbuffer_reset, Queue!Reset
    <3> QED BY <3>3 DEF Queue!Next
  <2>2. CASE ringbuffer_get /\ Empty
    <3>1. UNCHANGED <<buffer, head, tail, full, ringGot>>
      BY <2>2 DEF ringbuffer_get
    <3> QED BY <3>1 DEF Elements, Count
  <2>3. CASE ringbuffer_get /\ ~ Empty
    <3>1. Queue!Get
      BY <1>2, <2>3, GetElements DEF Queue!Get
    <3> QED BY <3>1 DEF Queue!Next
  <2>4. ASSUME NEW d \in RingData, ringbuffer_put(d) PROVE [Queue!Next]_<<Elements, ringGot>>
    <3>1. Elements' = IF Len(Elements) = Size THEN Append(Tail(Elements), d)
                                              ELSE Append(Elements, d)
      BY <1>2, <2>4, PutElements
    <3>2. Queue!Put(d)
      BY <2>4, <3>1 DEF ringbuffer_put, Queue!Put
    <3> QED BY <3>2 DEF Queue!Next
  <2>5. CASE UNCHANGED ringvars
    BY <2>5 DEF ringvars, Elements, Count
  <2> QED BY <1>2, <2>1, <2>2, <2>3, <2>4, <2>5 DEF RingNext
<1> QED BY <1>1, <1>2, RingInvariance, PTL DEF RingSpec, ImplementsQueue, Queue!Spec
------------------------------------------------------------------------------
(* The linked list. *)


\* The i-th cell of a list that holds s, its sentinels being 0 and Len(s) + 1.
Cell(s, i) ==
    IF i = 0 THEN HeadCell
    ELSE IF i = Len(s) + 1 THEN TailCell
    ELSE s[i]

Injective(s) == \A i, j \in DOMAIN s : s[i] = s[j] => i = j

\* The links nx and pv thread the cells of s.
Threads(nx, pv, s) ==
    \A i \in 0 .. Len(s) :
        nx[Cell(s, i)] = Cell(s, i + 1) /\ pv[Cell(s, i + 1)] = Cell(s, i)

CellBehind(s, i) == {s[j] : j \in i + 1 .. Len(s)}

ListInv ==
    /\ ListTypeOK
    /\ ~assertFailed
    /\ Injective(order)
    /\ next[TailCell] = Null
    /\ \/ order = <<>> /\ next[HeadCell] = Null /\ prev[TailCell] = Null
       \/ Threads(next, prev, order)
    /\ cursor = Null => pending = {}
    /\ cursor # Null => \E i \in DOMAIN order : order[i] = cursor /\ pending = CellBehind(order, i)
----------------------------------------------------------------------------
(* Removing position k from a sequence closes the gap. *)
LEMMA RemoveAtFacts ==
    ASSUME NEW S, NEW s \in Seq(S), NEW k \in 1 .. Len(s)
    PROVE  /\ RemoveAt(s, k) \in Seq(S)
           /\ Len(RemoveAt(s, k)) = Len(s) - 1
           /\ \A j \in 1 .. Len(s) - 1 :
                RemoveAt(s, k)[j] = IF j < k THEN s[j] ELSE s[j + 1]
<1>. DEFINE a == SubSeq(s, 1, k - 1)
            b == SubSeq(s, k + 1, Len(s))
<1>1. a \in Seq(S) /\ Len(a) = k - 1 /\ \A j \in 1 .. k - 1 : a[j] = s[j]
  BY SubSeqProperties
<1>2. b \in Seq(S) /\ Len(b) = Len(s) - k /\ \A j \in 1 .. Len(s) - k : b[j] = s[k + j]
  BY SubSeqProperties
<1>. HIDE DEF a, b
<1>3. /\ a \o b \in Seq(S)
      /\ Len(a \o b) = Len(s) - 1
      /\ \A j \in 1 .. Len(s) - 1 :
            (a \o b)[j] = IF j <= k - 1 THEN a[j] ELSE b[j - (k - 1)]
  BY <1>1, <1>2, ConcatProperties
<1>4. \A j \in 1 .. Len(s) - 1 : (a \o b)[j] = IF j < k THEN s[j] ELSE s[j + 1]
  <2>. SUFFICES ASSUME NEW j \in 1 .. Len(s) - 1
                PROVE  (a \o b)[j] = IF j < k THEN s[j] ELSE s[j + 1]
    OBVIOUS
  <2>1. CASE j < k
    BY <1>1, <1>3, <2>1
  <2>2. CASE ~(j < k)
    <3>1. j - (k - 1) \in 1 .. Len(s) - k /\ k + (j - (k - 1)) = j + 1
      BY <2>2
    <3>. QED
      BY <1>2, <1>3, <2>2, <3>1
  <2>. QED
    BY <2>1, <2>2
<1>. QED
  BY <1>3, <1>4 DEF RemoveAt, a, b

(* The cells of a list without repetitions are distinct. *)
LEMMA CellFacts ==
    ASSUME NEW s \in Seq(Nodes), Injective(s), NEW i \in 0 .. Len(s) + 1
    PROVE  /\ Cell(s, i) \in Cells
           /\ i \in DOMAIN s => Cell(s, i) = s[i] /\ s[i] \in Nodes
           /\ i <= Len(s) => Cell(s, i) # TailCell
           /\ i > 0 => Cell(s, i) # HeadCell
           /\ \A j \in 0 .. Len(s) + 1 : Cell(s, i) = Cell(s, j) => i = j
BY SentinelAssumption DEF Cell, Cells, Injective

(* A node that is not in the list is none of its cells. *)
LEMMA FreshCell ==
    ASSUME NEW s \in Seq(Nodes), NEW n \in Nodes, n \notin ToSet(s), NEW i \in 0 .. Len(s) + 1
    PROVE  Cell(s, i) # n
BY SentinelAssumption DEF Cell, ToSet

(* list_append threads the new node behind the last cell. *)
LEMMA AppendThreads ==
    ASSUME NEW nx \in [Cells -> Links], NEW pv \in [Cells -> Links],
           NEW s \in Seq(Nodes), Injective(s), Threads(nx, pv, s),
           NEW n \in Nodes, n \notin ToSet(s)
    PROVE  Threads([nx EXCEPT ![pv[TailCell]] = n, ![n] = TailCell],
                   [pv EXCEPT ![TailCell] = n, ![n] = pv[TailCell]], Append(s, n))
<1>. DEFINE t == Append(s, n)
            last == Cell(s, Len(s))
            nx2 == [nx EXCEPT ![last] = n, ![n] = TailCell]
            pv2 == [pv EXCEPT ![TailCell] = n, ![n] = last]
<1>1. Len(s) \in Nat /\ Len(t) = Len(s) + 1
  OBVIOUS
<1>2. pv[TailCell] = last
  BY <1>1 DEF Threads, Cell
<1>3. last \in Cells /\ last # n /\ last # TailCell /\ n # TailCell /\ n \in Cells
  BY <1>1, CellFacts, FreshCell, SentinelAssumption DEF Cells
<1>4. \A i \in 0 .. Len(s) : Cell(t, i) = Cell(s, i)
  BY <1>1 DEF Cell
<1>5. Cell(t, Len(s) + 1) = n /\ Cell(t, Len(s) + 2) = TailCell
  BY <1>1 DEF Cell
<1>6. ASSUME NEW i \in 0 .. Len(t)
      PROVE  nx2[Cell(t, i)] = Cell(t, i + 1) /\ pv2[Cell(t, i + 1)] = Cell(t, i)
  <2>1. CASE i < Len(s)
    <3>1. i \in 0 .. Len(s) /\ i + 1 \in 0 .. Len(s) /\ Len(s) \in 0 .. Len(s) + 1
      BY <1>1, <2>1
    <3>2. /\ Cell(s, i) # last /\ Cell(s, i) # n /\ Cell(s, i) \in Cells
          /\ Cell(s, i + 1) # TailCell /\ Cell(s, i + 1) # n /\ Cell(s, i + 1) \in Cells
      BY <1>1, <2>1, <3>1, CellFacts, FreshCell
    <3>3. nx[Cell(s, i)] = Cell(s, i + 1) /\ pv[Cell(s, i + 1)] = Cell(s, i)
      BY <3>1 DEF Threads
    <3>. HIDE DEF last
    <3>. QED
      BY <1>3, <1>4, <3>1, <3>2, <3>3
  <2>2. CASE i = Len(s)
    <3>. HIDE DEF t, last
    <3>1. Cell(t, i) = last /\ Cell(t, i + 1) = n
      BY <1>1, <1>4, <1>5, <2>2 DEF last
    <3>. QED
      BY <1>3, <3>1
  <2>3. CASE i = Len(s) + 1
    <3>. HIDE DEF t, last
    <3>1. Cell(t, i) = n /\ Cell(t, i + 1) = TailCell
      BY <1>1, <1>5, <2>3
    <3>2. TailCell \in Cells
      BY DEF Cells
    <3>. QED
      BY <1>3, <3>1, <3>2
  <2>. QED
    BY <1>1, <2>1, <2>2, <2>3
<1>. QED
  BY <1>2, <1>6 DEF Threads

(* The first node of a list is threaded between the sentinels. *)
LEMMA FirstThreads ==
    ASSUME NEW nx \in [Cells -> Links], NEW pv \in [Cells -> Links], NEW n \in Nodes
    PROVE  Threads([nx EXCEPT ![HeadCell] = n, ![n] = TailCell],
                   [pv EXCEPT ![TailCell] = n, ![n] = HeadCell], <<n>>)
<1>1. Cell(<<n>>, 0) = HeadCell /\ Cell(<<n>>, 1) = n /\ Cell(<<n>>, 2) = TailCell
      /\ Len(<<n>>) = 1
  BY DEF Cell
<1>. QED
  BY <1>1, SentinelAssumption DEF Threads, Cells

(* list_remove threads the two neighbours of the node to each other. *)
LEMMA RemoveThreads ==
    ASSUME NEW nx \in [Cells -> Links], NEW pv \in [Cells -> Links],
           NEW s \in Seq(Nodes), Injective(s), Threads(nx, pv, s), NEW k \in 1 .. Len(s)
    PROVE  Threads([nx EXCEPT ![pv[s[k]]] = nx[s[k]]],
                   [pv EXCEPT ![nx[s[k]]] = pv[s[k]]], RemoveAt(s, k))
<1>. DEFINE t == RemoveAt(s, k)
            left == Cell(s, k - 1)
            right == Cell(s, k + 1)
            nx2 == [nx EXCEPT ![left] = right]
            pv2 == [pv EXCEPT ![right] = left]
<1>1. /\ Len(s) \in Nat /\ Len(t) = Len(s) - 1
      /\ \A j \in 1 .. Len(s) - 1 : t[j] = IF j < k THEN s[j] ELSE s[j + 1]
  <2>1. s \in Seq(Nodes) /\ k \in 1 .. Len(s)
    BY DEF Injective
  <2>2. /\ Len(RemoveAt(s, k)) = Len(s) - 1
        /\ \A j \in 1 .. Len(s) - 1 : RemoveAt(s, k)[j] = IF j < k THEN s[j] ELSE s[j + 1]
    BY <2>1, RemoveAtFacts, Zenon
  <2>. QED
    BY <2>1, <2>2
<1>2. s[k] = Cell(s, k)
  BY <1>1 DEF Cell
<1>3. nx[s[k]] = right /\ pv[s[k]] = left
  <2>1. k \in 0 .. Len(s) /\ k - 1 \in 0 .. Len(s) /\ (k - 1) + 1 = k
    BY <1>1
  <2>. QED
    BY <1>2, <2>1 DEF Threads
<1>. HIDE DEF t
<1>4. \A i \in 0 .. Len(s) : Cell(t, i) = IF i < k THEN Cell(s, i) ELSE Cell(s, i + 1)
  BY <1>1 DEF Cell
<1>5. left \in Cells /\ right \in Cells
  BY <1>1, CellFacts
<1>6. ASSUME NEW i \in 0 .. Len(t)
      PROVE  nx2[Cell(t, i)] = Cell(t, i + 1) /\ pv2[Cell(t, i + 1)] = Cell(t, i)
  <2>1. CASE i < k - 1
    <3>1. /\ i \in 0 .. Len(s) /\ i + 1 \in 0 .. Len(s) + 1 /\ i \in 0 .. Len(s) + 1
          /\ i + 1 < k /\ i < k /\ i + 1 \in 0 .. Len(s)
          /\ k - 1 \in 0 .. Len(s) + 1 /\ k + 1 \in 0 .. Len(s) + 1
      BY <1>1, <2>1
    <3>2. Cell(s, i) # left /\ Cell(s, i + 1) # right
          /\ Cell(s, i) \in Cells /\ Cell(s, i + 1) \in Cells
      BY <2>1, <3>1, CellFacts
    <3>3. nx[Cell(s, i)] = Cell(s, i + 1) /\ pv[Cell(s, i + 1)] = Cell(s, i)
      BY <3>1 DEF Threads
    <3>4. Cell(t, i) = Cell(s, i) /\ Cell(t, i + 1) = Cell(s, i + 1)
      BY <1>4, <3>1
    <3>. HIDE DEF left, right
    <3>. QED
      BY <1>5, <3>2, <3>3, <3>4
  <2>2. CASE i = k - 1
    <3>1. i \in 0 .. Len(s) /\ i < k /\ i + 1 = k /\ k \in 0 .. Len(s)
      BY <1>1, <2>2
    <3>2. Cell(t, i) = left /\ Cell(t, i + 1) = right
      BY <1>4, <2>2, <3>1
    <3>. HIDE DEF left, right
    <3>. QED
      BY <1>5, <3>2
  <2>3. CASE i >= k
    <3>1. /\ i \in 0 .. Len(s) /\ i + 1 \in 0 .. Len(s) /\ ~(i < k) /\ ~(i + 1 < k)
          /\ i + 1 \in 0 .. Len(s) + 1 /\ (i + 1) + 1 \in 0 .. Len(s) + 1
          /\ k - 1 \in 0 .. Len(s) + 1 /\ k + 1 \in 0 .. Len(s) + 1
          /\ i + 1 # k - 1 /\ (i + 1) + 1 # k + 1
      BY <1>1, <2>3
    <3>2. /\ Cell(s, i + 1) # left /\ Cell(s, (i + 1) + 1) # right
          /\ Cell(s, i + 1) \in Cells /\ Cell(s, (i + 1) + 1) \in Cells
      BY <3>1, CellFacts
    <3>3. /\ nx[Cell(s, i + 1)] = Cell(s, (i + 1) + 1)
          /\ pv[Cell(s, (i + 1) + 1)] = Cell(s, i + 1)
      BY <3>1 DEF Threads
    <3>4. Cell(t, i) = Cell(s, i + 1) /\ Cell(t, i + 1) = Cell(s, (i + 1) + 1)
      BY <1>4, <3>1
    <3>. HIDE DEF left, right
    <3>. QED
      BY <1>5, <3>2, <3>3, <3>4
  <2>. QED
    BY <1>1, <2>1, <2>2, <2>3
<1>. QED
  BY <1>3, <1>6 DEF Threads, t

----------------------------------------------------------------------------
(* list_append keeps the invariant, and its assertion holds. *)
LEMMA AppendInv ==
    ASSUME ListInv, NEW n \in Nodes, list_append(n)
    PROVE  ListInv'
<1>. DEFINE t == Append(order, n)
<1>1. /\ next \in [Cells -> Links] /\ prev \in [Cells -> Links] /\ order \in Seq(Nodes)
      /\ n \notin ToSet(order) /\ n \in Nodes /\ Injective(order)
  BY DEF ListInv, ListTypeOK, list_append, Linked
<1>2. ~AssertFails
  <2>1. CASE Threads(next, prev, order)
    <3>1. prev[TailCell] = Cell(order, Len(order)) /\ Cell(order, Len(order)) \in Cells
      BY <1>1, <2>1, CellFacts DEF Threads, Cell
    <3>. QED
      BY <3>1, SentinelAssumption DEF AssertFails, Cells
  <2>. QED
    BY <2>1 DEF ListInv, AssertFails
<1>3. /\ order' = t /\ pending' = Owed(n) /\ cursor' = cursor /\ assertFailed' = assertFailed
      /\ IF prev[TailCell] # Null THEN AppendAfterLast(n) ELSE AppendFirst(n)
  BY <1>2 DEF list_append
<1>4. /\ t \in Seq(Nodes) /\ Len(t) = Len(order) + 1 /\ Len(order) \in Nat
      /\ t[Len(order) + 1] = n /\ \A i \in 1 .. Len(order) : t[i] = order[i]
  BY <1>1
<1>. HIDE DEF t
<1>5. Injective(t)
  BY <1>1, <1>4 DEF Injective, ToSet
<1>6. Threads(next', prev', t)
  <2>1. CASE prev[TailCell] # Null
    <3>1. Threads(next, prev, order)
      BY <2>1 DEF ListInv
    <3>2. /\ next' = [next EXCEPT ![prev[TailCell]] = n, ![n] = TailCell]
          /\ prev' = [prev EXCEPT ![TailCell] = n, ![n] = prev[TailCell]]
      BY <1>3, <2>1 DEF AppendAfterLast
    <3>3. Threads([next EXCEPT ![prev[TailCell]] = n, ![n] = TailCell],
                  [prev EXCEPT ![TailCell] = n, ![n] = prev[TailCell]], Append(order, n))
      BY <1>1, <3>1, AppendThreads
    <3>4. t = Append(order, n)
      BY DEF t
    <3>. HIDE DEF Threads
    <3>. QED
      BY <3>2, <3>3, <3>4
  <2>2. CASE prev[TailCell] = Null
    <3>1. ~Threads(next, prev, order)
      <4>. SUFFICES ASSUME Threads(next, prev, order) PROVE FALSE
        OBVIOUS
      <4>1. prev[TailCell] = Cell(order, Len(order)) /\ Cell(order, Len(order)) \in Cells
        BY <1>1, CellFacts DEF Threads, Cell
      <4>. QED
        BY <2>2, <4>1, SentinelAssumption DEF Cells
    <3>2. order = <<>>
      BY <3>1 DEF ListInv
    <3>3. t = <<n>>
      BY <3>2 DEF t
    <3>4. /\ next' = [next EXCEPT ![HeadCell] = n, ![n] = TailCell]
          /\ prev' = [prev EXCEPT ![TailCell] = n, ![n] = HeadCell]
      BY <1>3, <2>2 DEF AppendFirst
    <3>5. Threads([next EXCEPT ![HeadCell] = n, ![n] = TailCell],
                  [prev EXCEPT ![TailCell] = n, ![n] = HeadCell], <<n>>)
      BY <1>1, FirstThreads
    <3>. QED
      BY <3>3, <3>4, <3>5
  <2>. QED
    BY <2>1, <2>2
<1>7. /\ next' \in [Cells -> Links] /\ prev' \in [Cells -> Links] /\ next'[TailCell] = Null
  <2>1. CASE prev[TailCell] # Null
    <3>1. Threads(next, prev, order)
      BY <2>1 DEF ListInv
    <3>2. prev[TailCell] = Cell(order, Len(order)) /\ Cell(order, Len(order)) # TailCell
          /\ Cell(order, Len(order)) \in Cells
      BY <1>1, <3>1, CellFacts DEF Threads, Cell
    <3>. HIDE DEF Cell
    <3>. QED
      BY <1>1, <1>3, <2>1, <3>2, SentinelAssumption DEF AppendAfterLast, Cells, Links, ListInv
  <2>2. CASE prev[TailCell] = Null
    BY <1>1, <1>3, <2>2, SentinelAssumption DEF AppendFirst, Cells, Links, ListInv
  <2>. QED
    BY <2>1, <2>2
<1>8. ASSUME cursor # Null
      PROVE  \E i \in DOMAIN t : t[i] = cursor /\ pending' = CellBehind(t, i)
  <2>1. PICK i \in DOMAIN order : order[i] = cursor /\ pending = CellBehind(order, i)
    BY <1>8 DEF ListInv
  <2>2. i \in DOMAIN t /\ t[i] = cursor
    BY <1>1, <1>4, <2>1
  <2>3. CellBehind(t, i) = CellBehind(order, i) \cup {n}
    <3>1. i \in 1 .. Len(order)
      BY <1>1, <2>1
    <3>2. \A x : x \in CellBehind(t, i) <=> x \in CellBehind(order, i) \/ x = n
      BY <1>4, <3>1 DEF CellBehind
    <3>. QED
      BY <3>2
  <2>. QED
    BY <1>3, <1>8, <2>1, <2>2, <2>3 DEF Owed
<1>9. ListTypeOK'
  BY <1>1, <1>3, <1>4, <1>7 DEF ListInv, ListTypeOK, Owed
<1>. QED
  BY <1>3, <1>5, <1>6, <1>7, <1>8, <1>9 DEF ListInv, Owed

(* list_remove keeps the invariant. *)
LEMMA RemoveInv ==
    ASSUME ListInv, NEW n \in Nodes, list_remove(n)
    PROVE  ListInv'
<1>. DEFINE k == Position(n)
            t == RemoveAt(order, k)
<1>1. /\ next \in [Cells -> Links] /\ prev \in [Cells -> Links] /\ order \in Seq(Nodes)
      /\ Injective(order)
  BY DEF ListInv, ListTypeOK
<1>2. k \in DOMAIN order /\ order[k] = n
  BY DEF list_remove, Linked, ToSet, Position
<1>3. k \in 1 .. Len(order) /\ Len(order) \in Nat
  BY <1>1, <1>2
<1>. HIDE DEF k
<1>4. Threads(next, prev, order)
  BY <1>3 DEF ListInv
<1>5. /\ order' = t /\ Unlink(n) /\ assertFailed' = assertFailed
      /\ IF n = cursor THEN cursor' = Null /\ pending' = {}
                       ELSE pending' = pending \ {n} /\ cursor' = cursor
  BY DEF list_remove, k
<1>6. /\ t \in Seq(Nodes) /\ Len(t) = Len(order) - 1
      /\ \A j \in 1 .. Len(order) - 1 : t[j] = IF j < k THEN order[j] ELSE order[j + 1]
  BY <1>1, <1>3, RemoveAtFacts
<1>7. Threads(next', prev', t)
  BY <1>1, <1>2, <1>3, <1>4, <1>5, RemoveThreads DEF Unlink
<1>. HIDE DEF t
<1>8. Injective(t)
  <2>. SUFFICES ASSUME NEW i \in DOMAIN t, NEW j \in DOMAIN t, t[i] = t[j]
                PROVE  i = j
    BY DEF Injective
  <2>1. i \in 1 .. Len(order) - 1 /\ j \in 1 .. Len(order) - 1
    BY <1>6
  <2>. DEFINE up(x) == IF x < k THEN x ELSE x + 1
  <2>2. up(i) \in DOMAIN order /\ up(j) \in DOMAIN order
        /\ t[i] = order[up(i)] /\ t[j] = order[up(j)]
    BY <1>1, <1>3, <1>6, <2>1
  <2>3. up(i) = up(j)
    BY <1>1, <2>2 DEF Injective
  <2>. QED
    BY <1>3, <2>1, <2>3
<1>9. /\ next[n] \in Cells /\ prev[n] \in Cells /\ prev[n] # TailCell
      /\ next' = [next EXCEPT ![prev[n]] = next[n]]
      /\ prev' = [prev EXCEPT ![next[n]] = prev[n]]
  <2>1. /\ k \in 0 .. Len(order) /\ k - 1 \in 0 .. Len(order) /\ (k - 1) + 1 = k
        /\ k - 1 \in 0 .. Len(order) + 1 /\ k + 1 \in 0 .. Len(order) + 1
        /\ Cell(order, k) = n /\ k - 1 <= Len(order)
    BY <1>2, <1>3 DEF Cell
  <2>2. next[n] = Cell(order, k + 1) /\ prev[n] = Cell(order, k - 1)
    BY <1>4, <2>1 DEF Threads
  <2>3. Cell(order, k + 1) \in Cells /\ Cell(order, k - 1) \in Cells
        /\ Cell(order, k - 1) # TailCell
    BY <1>1, <2>1, CellFacts
  <2>. QED
    BY <1>5, <2>2, <2>3 DEF Unlink
<1>10. /\ next' \in [Cells -> Links] /\ prev' \in [Cells -> Links] /\ next'[TailCell] = Null
  BY <1>1, <1>9 DEF Links, ListInv, Cells
<1>11. ASSUME cursor # Null, n # cursor
       PROVE  \E i \in DOMAIN t : t[i] = cursor /\ pending' = CellBehind(t, i)
  <2>1. PICK i \in DOMAIN order : order[i] = cursor /\ pending = CellBehind(order, i)
    BY <1>11 DEF ListInv
  <2>2. i \in 1 .. Len(order) /\ i # k
    BY <1>1, <1>2, <1>11, <2>1
  <2>3. \A j \in DOMAIN order : order[j] = n => j = k
    BY <1>1, <1>2 DEF Injective
  <2>4. CASE k < i
    <3>1. i - 1 \in DOMAIN t /\ t[i - 1] = cursor
      BY <1>3, <1>6, <2>1, <2>2, <2>4
    <3>2. ASSUME NEW x \in CellBehind(t, i - 1)
          PROVE  x \in CellBehind(order, i) \ {n}
      <4>1. PICK j \in (i - 1) + 1 .. Len(t) : x = t[j]
        BY DEF CellBehind
      <4>2. j + 1 \in i + 1 .. Len(order) /\ t[j] = order[j + 1] /\ j + 1 # k
            /\ j + 1 \in DOMAIN order
        BY <1>1, <1>3, <1>6, <2>2, <2>4, <4>1
      <4>. QED
        BY <2>3, <4>1, <4>2 DEF CellBehind
    <3>3. ASSUME NEW x \in CellBehind(order, i) \ {n}
          PROVE  x \in CellBehind(t, i - 1)
      <4>1. PICK j \in i + 1 .. Len(order) : x = order[j]
        BY DEF CellBehind
      <4>2. j - 1 \in (i - 1) + 1 .. Len(t) /\ t[j - 1] = order[j]
        BY <1>3, <1>6, <2>2, <2>4, <4>1
      <4>. QED
        BY <4>1, <4>2 DEF CellBehind
    <3>. QED
      BY <1>5, <1>11, <2>1, <3>1, <3>2, <3>3
  <2>5. CASE i < k
    <3>1. i \in DOMAIN t /\ t[i] = cursor
      BY <1>3, <1>6, <2>1, <2>2, <2>5
    <3>2. ASSUME NEW x \in CellBehind(t, i)
          PROVE  x \in CellBehind(order, i) \ {n}
      <4>1. PICK j \in i + 1 .. Len(t) : x = t[j]
        BY DEF CellBehind
      <4>. DEFINE up == IF j < k THEN j ELSE j + 1
      <4>2. up \in i + 1 .. Len(order) /\ t[j] = order[up] /\ up # k
            /\ up \in DOMAIN order
        BY <1>1, <1>3, <1>6, <2>2, <2>5, <4>1
      <4>. HIDE DEF up
      <4>. QED
        BY <2>3, <4>1, <4>2 DEF CellBehind
    <3>3. ASSUME NEW x \in CellBehind(order, i) \ {n}
          PROVE  x \in CellBehind(t, i)
      <4>1. PICK j \in i + 1 .. Len(order) : x = order[j]
        BY DEF CellBehind
      <4>2. j # k
        BY <1>2, <4>1
      <4>. DEFINE down == IF j < k THEN j ELSE j - 1
      <4>3. down \in i + 1 .. Len(t) /\ t[down] = order[j]
        BY <1>3, <1>6, <2>2, <2>5, <4>1, <4>2
      <4>. HIDE DEF down
      <4>. QED
        BY <4>1, <4>3 DEF CellBehind
    <3>. QED
      BY <1>5, <1>11, <2>1, <3>1, <3>2, <3>3
  <2>. QED
    BY <1>3, <2>2, <2>4, <2>5
<1>12. ListTypeOK'
  BY <1>1, <1>5, <1>6, <1>10 DEF ListInv, ListTypeOK
<1>. QED
  BY <1>5, <1>7, <1>8, <1>10, <1>11, <1>12 DEF ListInv

(* Going on to the cell behind position i of the list. *)
LEMMA GotoInv ==
    ASSUME ListInv, NEW i \in 0 .. Len(order), Threads(next, prev, order),
           Goto(Cell(order, i + 1), CellBehind(order, i)),
           UNCHANGED <<next, prev, order, assertFailed>>
    PROVE  ListInv'
<1>1. /\ order \in Seq(Nodes) /\ Len(order) \in Nat /\ Injective(order)
  BY DEF ListInv, ListTypeOK
<1>2. CASE i = Len(order)
  <2>1. Cell(order, i + 1) = TailCell
    BY <1>1, <1>2 DEF Cell
  <2>2. cursor' = Null /\ pending' = CellBehind(order, i)
    BY <2>1 DEF Goto, Visits, ListInv
  <2>3. CellBehind(order, i) = {}
    BY <1>1, <1>2 DEF CellBehind
  <2>. QED
    BY <2>2, <2>3 DEF ListInv, ListTypeOK
<1>3. CASE i < Len(order)
  <2>. DEFINE c == order[i + 1]
  <2>1. i + 1 \in DOMAIN order /\ Cell(order, i + 1) = c /\ c \in Nodes
        /\ i + 1 \in 0 .. Len(order) /\ i + 2 \in 0 .. Len(order) + 1 /\ (i + 1) + 1 = i + 2
    BY <1>1, <1>3 DEF Cell
  <2>2. next[c] = Cell(order, i + 2) /\ Cell(order, i + 2) \in Cells
    BY <1>1, <2>1, CellFacts DEF Threads
  <2>3. Visits(c)
    BY <2>1, <2>2, SentinelAssumption DEF Visits, Cells
  <2>4. cursor' = c /\ pending' = CellBehind(order, i) \ {c}
    BY <2>1, <2>3 DEF Goto
  <2>5. CellBehind(order, i + 1) = CellBehind(order, i) \ {c}
    <3>1. \A j \in DOMAIN order : order[j] = c => j = i + 1
      BY <1>1, <2>1 DEF Injective
    <3>2. \A x : x \in CellBehind(order, i + 1) <=> x \in CellBehind(order, i) /\ x # c
      BY <1>1, <1>3, <2>1, <3>1 DEF CellBehind
    <3>. QED
      BY <3>2
  <2>6. CellBehind(order, i) \subseteq Nodes
    BY <1>1 DEF CellBehind
  <2>7. c # Null
    BY <2>1, SentinelAssumption
  <2>. HIDE DEF c
  <2>. QED
    BY <2>1, <2>4, <2>5, <2>6, <2>7 DEF ListInv, ListTypeOK, c
<1>. QED
  BY <1>1, <1>2, <1>3

(* Entering a LIST_FOREACH keeps the invariant. *)
LEMMA BeginInv ==
    ASSUME ListInv, ForeachBegin
    PROVE  ListInv'
<1>1. CASE next[HeadCell] = Null /\ order = <<>>
  BY <1>1 DEF ForeachBegin, Goto, Visits, Linked, ToSet, ListInv, ListTypeOK
<1>2. CASE Threads(next, prev, order)
  <2>1. order \in Seq(Nodes) /\ Len(order) \in Nat
    BY DEF ListInv, ListTypeOK
  <2>2. next[HeadCell] = Cell(order, 0 + 1)
    BY <1>2, <2>1 DEF Threads, Cell
  <2>3. Linked = CellBehind(order, 0)
    BY <2>1 DEF Linked, ToSet, CellBehind
  <2>. QED
    BY <1>2, <2>1, <2>2, <2>3, GotoInv DEF ForeachBegin
<1>. QED
  BY <1>1, <1>2 DEF ListInv

(* Going on to the next node of a LIST_FOREACH keeps the invariant. *)
LEMMA StepInv ==
    ASSUME ListInv, ForeachStep
    PROVE  ListInv'
<1>1. PICK i \in DOMAIN order : order[i] = cursor /\ pending = CellBehind(order, i)
  BY DEF ForeachStep, ListInv
<1>2. order \in Seq(Nodes) /\ i \in 1 .. Len(order) /\ Len(order) \in Nat
  BY <1>1 DEF ListInv, ListTypeOK
<1>3. Threads(next, prev, order)
  BY <1>2 DEF ListInv
<1>4. next[cursor] = Cell(order, i + 1) /\ i \in 0 .. Len(order)
  BY <1>1, <1>2, <1>3 DEF Threads, Cell
<1>. QED
  BY <1>1, <1>3, <1>4, GotoInv DEF ForeachStep

(* What the initialisation leaves behind satisfies the invariant. *)
LEMMA ListInitInv ==
    ASSUME ListInit
    PROVE  ListInv
<1>1. TailCell \in Cells /\ HeadCell \in Cells
  BY DEF Cells
<1>2. order = <<>> /\ order \in Seq(Nodes) /\ Injective(order)
  BY DEF ListInit, Injective
<1>3. next[TailCell] = Null /\ next[HeadCell] = Null /\ prev[TailCell] = Null
  BY <1>1 DEF ListInit
<1>4. ListTypeOK
  BY <1>2 DEF ListInit, ListTypeOK, Links
<1>. QED
  BY <1>2, <1>3, <1>4 DEF ListInit, ListInv

\* In every reachable state of kern/list.c the inductive invariant holds.
THEOREM ListInvariance == ListSpec => []ListInv
<1>1. ListInit => ListInv
  BY ListInitInv
<1>2. ListInv /\ [ListNext]_listvars => ListInv'
  <2>. SUFFICES ASSUME ListInv, [ListNext]_listvars PROVE ListInv'
    OBVIOUS
  <2>1. CASE UNCHANGED listvars
    BY <2>1 DEF ListInv, ListTypeOK, listvars
  <2>. QED
    BY <2>1, AppendInv, RemoveInv, BeginInv, StepInv DEF ListNext
<1>. QED
  BY <1>1, <1>2, PTL DEF ListSpec

(* The invariant implies the state properties the runs check. *)
LEMMA ListInvImplies ==
    ASSUME ListInv
    PROVE  ListTypeOK /\ LinksMatchOrder /\ AppendNeverPanics /\ PendingAhead /\ ForeachComplete
<1>1. LinksMatchOrder
  <2>1. \A i \in 0 .. Len(order) + 1 : At(i) = Cell(order, i)
    BY DEF At, Cell
  <2>2. order \in Seq(Nodes) /\ Len(order) \in Nat
    BY DEF ListInv, ListTypeOK
  <2>3. CASE Threads(next, prev, order)
    <3>1. \A i \in 0 .. Len(order) : At(i) = Cell(order, i) /\ At(i + 1) = Cell(order, i + 1)
      BY <2>1, <2>2
    <3>. QED
      BY <2>3, <3>1 DEF LinksMatchOrder, ListInv, Injective, Threads
  <2>. QED
    BY <2>3 DEF LinksMatchOrder, ListInv, Injective
<1>. QED
  BY <1>1 DEF ListInv, AppendNeverPanics, PendingAhead, ForeachComplete, CellBehind

\* The links of kern/list.c stay links to cells of the list or NULL.
THEOREM ListTypeCorrect == ListSpec => []ListTypeOK
BY ListInvariance, ListInvImplies, PTL

\* The pointers always describe the nodes appended and not removed, in order.
THEOREM LinksCorrect == ListSpec => []LinksMatchOrder
BY ListInvariance, ListInvImplies, PTL

\* The assertion of list_append never fails.
THEOREM AppendCorrect == ListSpec => []AppendNeverPanics
BY ListInvariance, ListInvImplies, PTL

\* LIST_FOREACH over a changing list visits all it owes: while it runs it owes
\* the nodes behind its cursor, and when it ends it owes none.
THEOREM ForeachCorrect == ListSpec => [](PendingAhead /\ ForeachComplete)
BY ListInvariance, ListInvImplies, PTL

------------------------------------------------------------------------------
(* The hash table. *)

----------------------------------------------------------------------------
(* The search. *)

(* A table the search can work on. *)
Probable(t) == IsTable(t) /\ t.capacity \in Nat \ {0}

(* Sound: every key is found in its cell, and length counts the entries. *)
Sound(t) ==
    /\ Probable(t)
    /\ Searchable(t)
    /\ t.length = Cardinality(InUse(t))

(* The cell hash & (capacity - 1) is one of the table's. *)
LEMMA IndexIsCell ==
    ASSUME NEW t, NEW k \in Keys, Probable(t)
    PROVE  Index(t, k) \in HtblCells(t)
<1>1. Hash[k] \in Nat
  BY HashAssumption
<1>2. \A h \in Nat, c \in Nat \ {0} : h % c \in 0 .. c - 1
  OBVIOUS
<1> QED BY <1>1, <1>2 DEF Index, HtblCells, Probable

(* The search goes through every cell of the table, and through no other. *)
LEMMA ProbeCovers ==
    ASSUME NEW t, NEW k \in Keys, Probable(t)
    PROVE  /\ \A d \in HtblCells(t) : Probe(t, k, d) \in HtblCells(t)
           /\ \A i \in HtblCells(t) : \E d \in HtblCells(t) : Probe(t, k, d) = i
<1> DEFINE c == t.capacity
           h == Index(t, k)
<1>1. c \in Nat \ {0} /\ h \in 0 .. c - 1
  BY IndexIsCell DEF Probable, HtblCells
<1>2. \A d \in HtblCells(t) : Probe(t, k, d) = IF h + d < c THEN h + d ELSE h + d - c
  BY <1>1 DEF Probe, HtblCells
<1> HIDE DEF h
<1>3. ASSUME NEW d \in HtblCells(t) PROVE Probe(t, k, d) \in HtblCells(t)
  BY <1>1, <1>2 DEF HtblCells
<1>4. ASSUME NEW i \in HtblCells(t) PROVE \E d \in HtblCells(t) : Probe(t, k, d) = i
  <2>1. CASE i >= h
    <3>1. i - h \in HtblCells(t) /\ Probe(t, k, i - h) = i
      BY <1>1, <1>2, <2>1 DEF HtblCells
    <3> QED BY <3>1
  <2>2. CASE i < h
    <3>1. i + c - h \in HtblCells(t) /\ Probe(t, k, i + c - h) = i
      BY <1>1, <1>2, <2>2 DEF HtblCells
    <3> QED BY <3>1
  <2> QED BY <1>1, <2>1, <2>2 DEF HtblCells
<1> QED BY <1>3, <1>4

(* A search stops in one place. *)
LEMMA StopUnique ==
    ASSUME NEW t, NEW k, Probable(t), NEW d \in Stops(t, k), NEW e \in Stops(t, k)
    PROVE  d = e
<1>1. d \in Nat /\ e \in Nat
  BY DEF Stops, HtblCells, Probable
<1>2. ~ (d < e)
  BY <1>1 DEF Stops, Reaches
<1>3. ~ (e < d)
  BY <1>1 DEF Stops, Reaches
<1> QED BY <1>1, <1>2, <1>3

(* A search that can stop does. *)
LEMMA StopExists ==
    ASSUME NEW t, NEW k \in Keys, Probable(t),
           NEW i \in HtblCells(t), t.entries[i].key \in {k, None}
    PROVE  Ends(t, k)
<1> DEFINE C == {d \in HtblCells(t) : t.entries[Probe(t, k, d)].key \in {k, None}}
<1>1. C \in SUBSET Nat /\ C # {}
  BY ProbeCovers DEF HtblCells, Probable
<1>2. PICK m \in C : \A n \in C : m <= n
  <2> HIDE DEF C
  <2> QED BY <1>1, LeastNumber
<1>3. Reaches(t, k, m)
  <2> SUFFICES ASSUME NEW e \in 0 .. m - 1, t.entries[Probe(t, k, e)].key \in {k, None}
               PROVE  FALSE
    BY DEF Reaches
  <2>1. m \in HtblCells(t) /\ t.capacity \in Nat
    BY DEF Probable
  <2>2. e \in HtblCells(t) /\ ~ (m <= e)
    BY <2>1 DEF HtblCells
  <2> QED BY <1>2, <2>2
<1> QED BY <1>2, <1>3 DEF Ends, Stops

(* What the cell is where the search stops. *)
LEMMA SlotStops ==
    ASSUME NEW t, NEW k \in Keys, Probable(t), Ends(t, k)
    PROVE  \E d \in Stops(t, k) :
               /\ Slot(t, k) = Probe(t, k, d)
               /\ Slot(t, k) \in HtblCells(t)
               /\ t.entries[Slot(t, k)].key \in {k, None}
<1> DEFINE d == CHOOSE e \in Stops(t, k) : TRUE
<1>1. d \in Stops(t, k)
  BY DEF Ends
<1>2. Slot(t, k) = Probe(t, k, d)
  BY DEF Slot
<1> HIDE DEF d
<1> QED BY <1>1, <1>2, ProbeCovers DEF Stops

(* The search for k stops in the cell it reaches. *)
LEMMA SlotIs ==
    ASSUME NEW t, NEW k \in Keys, Probable(t), NEW d \in Stops(t, k)
    PROVE  Ends(t, k) /\ Slot(t, k) = Probe(t, k, d)
<1>1. Ends(t, k)
  BY DEF Ends
<1>2. PICK e \in Stops(t, k) : Slot(t, k) = Probe(t, k, e)
  BY <1>1, SlotStops
<1> QED BY <1>1, <1>2, StopUnique

(* A key is new when no cell has it. *)
LEMMA NewMeansAbsent ==
    ASSUME NEW t, NEW k \in Keys, Probable(t), Searchable(t), Ends(t, k)
    PROVE  IsNew(t, k) <=> k \notin KeysOf(t)
<1>1. k # None
  BY KeysAssumption
<1>2. ASSUME IsNew(t, k), NEW i \in InUse(t), t.entries[i].key = k PROVE FALSE
  BY <1>1, <1>2 DEF Searchable, IsNew
<1>3. ASSUME ~ IsNew(t, k) PROVE k \in KeysOf(t)
  BY <1>1, <1>3, SlotStops DEF IsNew, KeysOf, InUse
<1> QED BY <1>2, <1>3 DEF KeysOf

----------------------------------------------------------------------------
(* Puts. *)

(* A table has finitely many entries. *)
LEMMA EntriesFinite ==
    ASSUME NEW t, Probable(t)
    PROVE  IsFiniteSet(InUse(t)) /\ Cardinality(InUse(t)) \in Nat
<1>1. IsFiniteSet(0 .. t.capacity - 1)
  BY FS_Interval DEF Probable
<1>2. IsFiniteSet(InUse(t))
  BY <1>1, FS_Subset DEF InUse, HtblCells
<1> QED BY <1>2, FS_CardinalityType

(* In a table that is not full every search stops. *)
LEMMA RoomStops ==
    ASSUME NEW t, NEW k \in Keys, Sound(t), t.length < t.capacity
    PROVE  Ends(t, k)
<1>1. PICK i \in HtblCells(t) : t.entries[i].key = None
  <2> SUFFICES ASSUME InUse(t) = HtblCells(t) PROVE FALSE
    BY DEF InUse
  <2>1. t.capacity \in Nat \ {0}
    BY DEF Sound, Probable
  <2>2. Cardinality(0 .. t.capacity - 1) = t.capacity
    BY <2>1, FS_Interval
  <2> QED BY <2>1, <2>2 DEF HtblCells, Sound
<1> QED BY <1>1, StopExists DEF Sound

(* The fields of the table with one more mapping. *)
LEMMA MappedFields ==
    ASSUME NEW t, NEW k \in Keys, NEW v \in Values \cup {None}, Probable(t), Ends(t, k)
    PROVE  /\ Probable(Mapped(t, k, v))
           /\ Mapped(t, k, v).capacity = t.capacity
           /\ Mapped(t, k, v).length = IF IsNew(t, k) THEN t.length + 1 ELSE t.length
           /\ Mapped(t, k, v).entries =
                  [t.entries EXCEPT ![Slot(t, k)] = [key |-> k, value |-> v]]
<1> DEFINE s == Slot(t, k)
           e == [key |-> k, value |-> v]
           n == IF IsNew(t, k) THEN t.length + 1 ELSE t.length
           u == [capacity |-> t.capacity, length |-> n, entries |-> [t.entries EXCEPT ![s] = e]]
<1>1. t = [capacity |-> t.capacity, length |-> t.length, entries |-> t.entries]
  BY DEF Probable, IsTable
<1>2. Mapped(t, k, v) = u
  <2>1. Mapped(t, k, v) = [t EXCEPT !.entries = [t.entries EXCEPT ![s] = e], !.length = n]
    BY DEF Mapped
  <2> HIDE DEF s, e, n
  <2>2. [t EXCEPT !.entries = [t.entries EXCEPT ![s] = e], !.length = n]
        = [[t EXCEPT !.entries = [t.entries EXCEPT ![s] = e]] EXCEPT !.length = n]
    BY <1>1
  <2>3. [t EXCEPT !.entries = [t.entries EXCEPT ![s] = e]]
        = [capacity |-> t.capacity, length |-> t.length, entries |-> [t.entries EXCEPT ![s] = e]]
    BY <1>1
  <2>4. \A c, l, x : [[capacity |-> c, length |-> l, entries |-> x] EXCEPT !.length = n]
                     = [capacity |-> c, length |-> n, entries |-> x]
    OBVIOUS
  <2> QED BY <2>1, <2>2, <2>3, <2>4
<1>3. n \in Nat /\ e \in Entry /\ s \in HtblCells(t)
  BY SlotStops DEF Probable, IsTable, Entry
<1>4. [t.entries EXCEPT ![s] = e] \in [HtblCells(t) -> Entry]
  BY <1>3 DEF Probable, IsTable
<1>5. HtblCells(u) = HtblCells(t)
  BY DEF HtblCells
<1> HIDE DEF n, e, s
<1>6. u.capacity = t.capacity /\ u.length = n /\ u.entries = [t.entries EXCEPT ![s] = e]
  OBVIOUS
<1>7. u = [capacity |-> u.capacity, length |-> u.length, entries |-> u.entries]
  OBVIOUS
<1> HIDE DEF u
<1>8. Probable(u)
  BY <1>3, <1>4, <1>5, <1>6, <1>7 DEF Probable, IsTable
<1> QED BY <1>2, <1>6, <1>8 DEF n, s, e

(* A put disturbs no search: each other key is still found in its cell, and the
   new one is found in its own. *)
LEMMA MappedSearchable ==
    ASSUME NEW t, NEW k \in Keys, NEW v \in Values \cup {None}, Sound(t), Ends(t, k)
    PROVE  Searchable(Mapped(t, k, v))
<1> DEFINE s == Slot(t, k)
           u == Mapped(t, k, v)
<1>1. Probable(t) /\ Searchable(t)
  BY DEF Sound
<1>2. Probable(u) /\ u.capacity = t.capacity
      /\ u.entries = [t.entries EXCEPT ![s] = [key |-> k, value |-> v]]
  BY <1>1, MappedFields
<1>3. PICK d \in Stops(t, k) : s = Probe(t, k, d) /\ s \in HtblCells(t)
                               /\ t.entries[s].key \in {k, None}
  BY <1>1, SlotStops
<1>4. k # None /\ None \notin Keys
  BY KeysAssumption
<1>5. u.entries[s].key = k /\ \A i \in HtblCells(t) : i # s => u.entries[i] = t.entries[i]
  BY <1>1, <1>2, <1>3 DEF Probable, IsTable
<1>6. HtblCells(u) = HtblCells(t) /\ \A j, e : Probe(u, j, e) = Probe(t, j, e)
  BY <1>2 DEF HtblCells, Probe, Index
<1> HIDE DEF u, s
<1>7. \A e \in 0 .. d - 1 : e \in HtblCells(t)
  BY <1>1 DEF Stops, HtblCells, Probable
<1>8. Ends(u, k) /\ Slot(u, k) = s
  <2>1. Reaches(u, k, d)
    <3> SUFFICES ASSUME NEW e \in 0 .. d - 1
                 PROVE  u.entries[Probe(t, k, e)].key \notin {k, None}
      BY <1>6 DEF Reaches
    <3>1. t.entries[Probe(t, k, e)].key \notin {k, None}
      BY DEF Stops, Reaches
    <3>2. Probe(t, k, e) \in HtblCells(t)
      BY <1>1, <1>7, ProbeCovers
    <3> QED BY <1>3, <1>5, <3>1, <3>2
  <2>2. d \in Stops(u, k)
    BY <1>3, <1>5, <1>6, <2>1 DEF Stops
  <2> QED BY <1>2, <1>3, <1>6, <2>2, SlotIs
<1>9. ASSUME NEW i \in InUse(u), i # s
      PROVE  Ends(u, u.entries[i].key) /\ Slot(u, u.entries[i].key) = i
  <2> DEFINE j == u.entries[i].key
  <2>1. i \in InUse(t) /\ j = t.entries[i].key /\ j \in Keys
    BY <1>1, <1>5, <1>6, <1>9 DEF InUse, Probable, IsTable, Entry
  <2>2. Ends(t, j) /\ Slot(t, j) = i
    BY <1>1, <2>1 DEF Searchable
  <2>3. j # k
    BY <1>9, <2>2 DEF s
  <2> HIDE DEF j
  <2>4. PICK e \in Stops(t, j) : i = Probe(t, j, e)
    BY <1>1, <2>1, <2>2, SlotStops
  <2>5. Reaches(u, j, e)
    <3> SUFFICES ASSUME NEW a \in 0 .. e - 1
                 PROVE  u.entries[Probe(t, j, a)].key \notin {j, None}
      BY <1>6 DEF Reaches
    <3>1. t.entries[Probe(t, j, a)].key \notin {j, None}
      BY DEF Stops, Reaches
    <3>2. a \in HtblCells(t)
      BY <1>1 DEF Stops, HtblCells, Probable
    <3>3. Probe(t, j, a) \in HtblCells(t)
      BY <1>1, <2>1, <3>2, ProbeCovers
    <3> QED BY <1>4, <1>5, <2>3, <3>1, <3>3
  <2>6. e \in Stops(u, j)
    BY <1>5, <1>6, <1>9, <2>4, <2>5 DEF Stops, InUse, j
  <2>7. Ends(u, j) /\ Slot(u, j) = i
    BY <1>2, <1>6, <2>1, <2>4, <2>6, SlotIs
  <2> QED BY <2>7 DEF j
<1> QED BY <1>5, <1>8, <1>9 DEF Searchable, u

(* The entries in use after a put, and that length still counts them. *)
LEMMA MappedSound ==
    ASSUME NEW t, NEW k \in Keys, NEW v \in Values \cup {None}, Sound(t), Ends(t, k)
    PROVE  /\ Sound(Mapped(t, k, v))
           /\ InUse(Mapped(t, k, v)) = InUse(t) \cup {Slot(t, k)}
<1> DEFINE s == Slot(t, k)
           u == Mapped(t, k, v)
<1>1. Probable(t)
  BY DEF Sound
<1>2. Probable(u) /\ u.capacity = t.capacity
      /\ u.length = (IF IsNew(t, k) THEN t.length + 1 ELSE t.length)
      /\ u.entries = [t.entries EXCEPT ![s] = [key |-> k, value |-> v]]
  BY <1>1, MappedFields
<1>3. s \in HtblCells(t) /\ t.entries[s].key \in {k, None} /\ k # None
  BY <1>1, SlotStops, KeysAssumption
<1>4. u.entries[s].key = k /\ \A i \in HtblCells(t) : i # s => u.entries[i] = t.entries[i]
  BY <1>1, <1>2, <1>3 DEF Probable, IsTable
<1>5. HtblCells(u) = HtblCells(t)
  BY <1>2 DEF HtblCells
<1>6. InUse(u) = InUse(t) \cup {s}
  <2> HIDE DEF u, s
  <2> QED BY <1>3, <1>4, <1>5 DEF InUse
<1>7. s \in InUse(t) <=> ~ IsNew(t, k)
  BY <1>3 DEF InUse, IsNew
<1>8. IsFiniteSet(InUse(t)) /\ t.length = Cardinality(InUse(t))
  BY <1>1, EntriesFinite DEF Sound
<1>9. u.length = Cardinality(InUse(u))
  <2> HIDE DEF u, s
  <2> QED BY <1>2, <1>6, <1>7, <1>8, FS_AddElement
<1> QED BY <1>2, <1>6, <1>9, MappedSearchable DEF Sound

----------------------------------------------------------------------------
(* The inductive invariant. *)

(* The entries htbl_expand has been over. *)
Passed == {j \in InUse(table) : j < at}

TableSound == IF pc = "none" THEN table = NoTable ELSE Sound(table)

(* At most half of the cells are in use, fewer when an entry is about to be made. *)
HalfFull ==
    /\ pc # "none" => table.length <= table.capacity \div 2
    /\ pc = "put" => table.length < table.capacity \div 2

ArgGiven == pc \in {"expand", "put"} => arg \in [key : Keys, value : Values]

(* The table htbl_expand builds: twice as large, with the entries passed. *)
FreshSound ==
    /\ Sound(fresh)
    /\ fresh.capacity = 2 * table.capacity
    /\ at \in 0 .. table.capacity
    /\ {fresh.entries[i] : i \in InUse(fresh)} = {table.entries[j] : j \in Passed}
    /\ fresh.length = Cardinality(Passed)

Building == IF pc = "expand" THEN FreshSound ELSE fresh = NoTable /\ at = 0

TableInv ==
    /\ HtblTypeOK
    /\ pc \in {"none", "ready", "expand", "put"}
    /\ TableSound
    /\ HalfFull
    /\ ArgGiven
    /\ Building
    /\ table.length + fresh.length <= strings

(* A table fresh from kallocz has no entries and is sound. *)
LEMMA ZeroedSound ==
    ASSUME NEW c \in Nat
    PROVE  /\ IsTable(Zeroed(c)) /\ InUse(Zeroed(c)) = {}
           /\ Zeroed(c).length = 0 /\ Zeroed(c).capacity = c
           /\ c > 0 => Sound(Zeroed(c))
<1> DEFINE t == Zeroed(c)
<1>1. t = [capacity |-> t.capacity, length |-> t.length, entries |-> t.entries]
      /\ t.length = 0 /\ t.capacity = c
      /\ t.entries = [i \in 0 .. c - 1 |-> Free]
  BY DEF Zeroed
<1>2. Free \in Entry /\ Free.key = None
  BY DEF Free, Entry
<1> HIDE DEF t
<1>3. IsTable(t)
  BY <1>1, <1>2 DEF IsTable, HtblCells
<1>4. InUse(t) = {}
  BY <1>1, <1>2 DEF InUse, HtblCells
<1>5. c > 0 => Sound(t)
  BY <1>1, <1>3, <1>4, FS_EmptySet DEF Sound, Probable, Searchable
<1> QED BY <1>1, <1>3, <1>4, <1>5 DEF t

(* htbl_create starts from a sound table. *)
LEMMA TableInitInv == HtblInit => TableInv
<1> SUFFICES ASSUME HtblInit PROVE TableInv
  OBVIOUS
<1>1. IsTable(NoTable) /\ NoTable.length = 0
  BY ZeroedSound DEF NoTable
<1>2. Free \in Entry
  BY DEF Free, Entry
<1> QED BY <1>1, <1>2 DEF HtblInit, TableInv, HtblTypeOK, Places, TableSound, HalfFull, ArgGiven, Building

(* A new table satisfies the invariant. *)
LEMMA CreateInv == TableInv /\ htbl_create => TableInv'
<1> SUFFICES ASSUME TableInv, htbl_create PROVE TableInv'
  OBVIOUS
<1>1. Initial \in Nat \ {0}
  BY InitialAssumption
<1>2. Sound(table') /\ IsTable(table') /\ table'.length = 0 /\ table'.capacity = Initial
  BY <1>1, ZeroedSound DEF htbl_create
<1>3. fresh = NoTable /\ at = 0 /\ table.length = 0
  BY ZeroedSound DEF TableInv, Building, htbl_create, TableSound, NoTable
<1> QED
  BY <1>1, <1>2, <1>3 DEF TableInv, htbl_create, HtblTypeOK, Places, TableSound, HalfFull, ArgGiven, Building

(* Destroying the table frees no more strings than were made. *)
LEMMA DestroyInv == TableInv /\ htbl_destroy => TableInv'
<1> SUFFICES ASSUME TableInv, htbl_destroy PROVE TableInv'
  OBVIOUS
<1>1. IsTable(NoTable) /\ NoTable.length = 0
  BY ZeroedSound DEF NoTable
<1>2. fresh = NoTable /\ at = 0 /\ table.length = Cardinality(InUse(table))
  BY DEF TableInv, Building, htbl_destroy, TableSound, Sound
<1>3. table.length \in Nat /\ strings \in Nat /\ table.length <= strings
  BY <1>1, <1>2 DEF TableInv, HtblTypeOK, IsTable
<1>4. strings' \in Nat
  BY <1>2, <1>3 DEF htbl_destroy
<1> QED
  BY <1>1, <1>2, <1>4 DEF TableInv, htbl_destroy, HtblTypeOK, Places, TableSound, HalfFull, ArgGiven, Building

(* A get changes nothing but its result, and comes to an end. *)
LEMMA GetInv == ASSUME NEW k \in Keys PROVE TableInv /\ htbl_get(k) => TableInv'
<1> SUFFICES ASSUME TableInv, htbl_get(k) PROVE TableInv'
  OBVIOUS
<1>1. Sound(table) /\ table.length <= table.capacity \div 2
  BY DEF TableInv, TableSound, HalfFull, htbl_get
<1>2. table.capacity \in Nat \ {0} /\ table.length \in Nat
  BY <1>1 DEF Sound, Probable, IsTable
<1>3. Ends(table, k)
  BY <1>1, <1>2, RoomStops
<1>4. Lookup(table, k) \in Values \cup {None}
  BY <1>1, <1>3, SlotStops DEF Lookup, Sound, Probable, IsTable, Entry
<1>5. UNCHANGED <<table, fresh, at, arg, pc, strings>> /\ htblGot' \in Values \cup {None}
  BY <1>3, <1>4 DEF htbl_get
<1> QED
  BY <1>5 DEF TableInv, HtblTypeOK, TableSound, HalfFull, ArgGiven, Building, FreshSound, Passed

(* A put starts with a sound table to build, or with room in the one there is. *)
LEMMA TablePutInv ==
    ASSUME NEW k \in Keys, NEW v \in Values PROVE TableInv /\ htbl_put(k, v) => TableInv'
<1> SUFFICES ASSUME TableInv, htbl_put(k, v) PROVE TableInv'
  OBVIOUS
<1>1. Sound(table) /\ table.length <= table.capacity \div 2
      /\ fresh = NoTable /\ at = 0 /\ pc = "ready"
  BY DEF TableInv, TableSound, HalfFull, Building, htbl_put
<1>2. table.capacity \in Nat \ {0} /\ table.length \in Nat
  BY <1>1 DEF Sound, Probable, IsTable
<1>3. arg' \in [key : Keys, value : Values] /\ arg' \in Entry
  BY DEF htbl_put, Entry
<1>4. NoTable.length = 0
  BY ZeroedSound DEF NoTable
<1>5. CASE Crowded(table)
  <2>1. pc' = "expand" /\ at' = 0 /\ fresh' = Zeroed(2 * table.capacity)
        /\ UNCHANGED <<table, htblGot, strings>>
    BY <1>5 DEF htbl_put
  <2>2. Sound(fresh') /\ IsTable(fresh') /\ InUse(fresh') = {} /\ fresh'.length = 0
        /\ fresh'.capacity = 2 * table.capacity
    <3>1. 2 * table.capacity \in Nat /\ 2 * table.capacity > 0
      BY <1>2
    <3> QED BY <2>1, <3>1, ZeroedSound
  <2>3. Passed' = {}
    BY <1>2, <2>1 DEF Passed, InUse, HtblCells
  <2>4. FreshSound'
    BY <1>2, <2>1, <2>2, <2>3, FS_EmptySet DEF FreshSound
  <2> QED
    BY <1>1, <1>2, <1>3, <1>4, <2>1, <2>2, <2>4
    DEF TableInv, HtblTypeOK, Places, TableSound, HalfFull, ArgGiven, Building
<1>6. CASE ~ Crowded(table)
  <2>1. pc' = "put" /\ UNCHANGED <<table, fresh, at, htblGot, strings>>
    BY <1>6 DEF htbl_put
  <2>2. table.length < table.capacity \div 2
    BY <1>2, <1>6 DEF Crowded
  <2> QED
    BY <1>1, <1>3, <2>1, <2>2
    DEF TableInv, HtblTypeOK, Places, TableSound, HalfFull, ArgGiven, Building
<1> QED BY <1>5, <1>6

(* The entry finds its cell. *)
LEMMA PutEntryInv == TableInv /\ PutEntry => TableInv'
<1> SUFFICES ASSUME TableInv, PutEntry PROVE TableInv'
  OBVIOUS
<1> DEFINE k == arg.key
           v == arg.value
           u == Mapped(table, k, v)
<1>1. Sound(table) /\ table.length < table.capacity \div 2
      /\ fresh = NoTable /\ at = 0 /\ k \in Keys /\ v \in Values
  BY DEF TableInv, TableSound, HalfFull, Building, ArgGiven, PutEntry
<1>2. table.capacity \in Nat \ {0} /\ table.length \in Nat /\ strings \in Nat
  BY <1>1 DEF Sound, Probable, IsTable, TableInv, HtblTypeOK
<1>3. Ends(table, k)
  BY <1>1, <1>2, RoomStops
<1>4. Sound(u) /\ u.capacity = table.capacity
      /\ u.length = IF IsNew(table, k) THEN table.length + 1 ELSE table.length
  <2>1. Probable(table) /\ v \in Values \cup {None}
    BY <1>1 DEF Sound
  <2> HIDE DEF k, v
  <2> QED BY <1>1, <1>3, <2>1, MappedSound, MappedFields
<1>5. table' = u /\ pc' = "ready" /\ arg' = Free
      /\ strings' = (IF IsNew(table, k) THEN strings + 1 ELSE strings)
      /\ UNCHANGED <<fresh, at, htblGot>>
  BY <1>3 DEF PutEntry
<1>6. Free \in Entry /\ NoTable.length = 0
  BY ZeroedSound DEF Free, Entry, NoTable
<1>7. IsTable(u)
  BY <1>4 DEF Sound, Probable
<1> HIDE DEF u, k, v
<1>8. table'.length <= table'.capacity \div 2
  BY <1>1, <1>2, <1>4, <1>5
<1>9. table'.length + fresh'.length <= strings'
  BY <1>1, <1>2, <1>4, <1>5, <1>6 DEF TableInv
<1> QED
  BY <1>1, <1>2, <1>4, <1>5, <1>6, <1>7, <1>8, <1>9
  DEF TableInv, HtblTypeOK, Places, TableSound, HalfFull, ArgGiven, Building

(* An entry is copied: it is new to the table being built, which has room for it and
   is not expanded. *)
LEMMA ExpandStepInv ==
    TableInv /\ ExpandStep =>
        TableInv' /\ (at \in InUse(table) => ~ Crowded(fresh) /\ Ends(fresh, table.entries[at].key)
                                         /\ IsNew(fresh, table.entries[at].key))
<1> SUFFICES ASSUME TableInv, ExpandStep
             PROVE  TableInv' /\ (at \in InUse(table) =>
                                 ~ Crowded(fresh) /\ Ends(fresh, table.entries[at].key)
                                 /\ IsNew(fresh, table.entries[at].key))
  OBVIOUS
<1> DEFINE e == table.entries[at]
           k == table.entries[at].key
           u == Moved(e)
<1>1. Sound(table) /\ table.length <= table.capacity \div 2 /\ FreshSound /\ pc = "expand"
  BY DEF TableInv, TableSound, HalfFull, Building, ExpandStep
<1>2. /\ table.capacity \in Nat \ {0} /\ table.length \in Nat /\ strings \in Nat
      /\ Sound(fresh) /\ fresh.capacity = 2 * table.capacity /\ fresh.length \in Nat
      /\ at \in Nat /\ at < table.capacity /\ at \in HtblCells(table) /\ e \in Entry
  BY <1>1 DEF Sound, Probable, IsTable, TableInv, HtblTypeOK, FreshSound, ExpandStep, HtblCells
<1>3. IsFiniteSet(InUse(table)) /\ table.length = Cardinality(InUse(table))
  BY <1>1, EntriesFinite DEF Sound
<1>4. IsFiniteSet(Passed) /\ Cardinality(Passed) <= Cardinality(InUse(table))
  BY <1>3, FS_Subset DEF Passed
<1>5. CASE k = None
  <2>1. at' = at + 1 /\ UNCHANGED <<table, fresh, arg, pc, htblGot, strings>>
    BY <1>5 DEF ExpandStep
  <2>2. Passed' = Passed
    BY <1>2, <1>5, <2>1 DEF Passed, InUse, HtblCells
  <2>3. FreshSound'
    <3>1. {fresh.entries[i] : i \in InUse(fresh)}' = {table.entries[j] : j \in Passed}'
      BY <1>1, <2>1, <2>2 DEF FreshSound
    <3>2. at' \in 0 .. table'.capacity /\ fresh'.length = Cardinality(Passed')
      BY <1>1, <1>2, <2>1, <2>2 DEF FreshSound
    <3> QED BY <1>2, <2>1, <3>1, <3>2 DEF FreshSound
  <2>4. at \notin InUse(table)
    BY <1>5 DEF InUse
  <2> QED
    BY <1>1, <1>2, <2>1, <2>3, <2>4 DEF TableInv, HtblTypeOK, TableSound, HalfFull, ArgGiven, Building
<1>6. CASE k # None
  <2>1. k \in Keys /\ e.value \in Values \cup {None} /\ e = [key |-> k, value |-> e.value]
        /\ at \in InUse(table)
    BY <1>2, <1>6 DEF Entry, InUse
  <2>2. fresh.length < table.capacity /\ ~ Crowded(fresh)
    BY <1>1, <1>2, <1>3, <1>4 DEF FreshSound, Crowded
  <2>3. Ends(fresh, k)
    BY <1>2, <2>1, <2>2, RoomStops
  <2>4. IsNew(fresh, k)
    <3> SUFFICES ASSUME k \in KeysOf(fresh) PROVE FALSE
      BY <1>2, <2>1, <2>3, NewMeansAbsent DEF Sound
    <3>1. PICK i \in InUse(fresh) : fresh.entries[i].key = k
      BY DEF KeysOf
    <3>2. PICK j \in Passed : table.entries[j].key = k
      <4>1. fresh.entries[i] \in {fresh.entries[a] : a \in InUse(fresh)}
        OBVIOUS
      <4>2. fresh.entries[i] \in {table.entries[a] : a \in Passed}
        BY <1>1, <4>1 DEF FreshSound
      <4> QED BY <3>1, <4>2
    <3>3. Slot(table, k) = j /\ Slot(table, k) = at
      BY <1>1, <2>1, <3>2 DEF Sound, Searchable, Passed
    <3> QED BY <1>2, <3>3 DEF Passed
  <2>5. /\ fresh' = u /\ strings' = strings + 1 /\ at' = at + 1
        /\ UNCHANGED <<table, arg, pc, htblGot>>
    BY <1>6, <2>2, <2>3 DEF ExpandStep
  <2>6. u = Mapped(fresh, k, e.value)
    BY DEF Moved
  <2>7. /\ Sound(u) /\ InUse(u) = InUse(fresh) \cup {Slot(fresh, k)}
        /\ u.capacity = fresh.capacity /\ u.length = fresh.length + 1
        /\ u.entries = [fresh.entries EXCEPT ![Slot(fresh, k)] = e]
    <3> HIDE DEF u, e, k
    <3>1. Probable(fresh) /\ Sound(fresh) /\ k \in Keys /\ e.value \in Values \cup {None}
      BY <1>2, <2>1 DEF Sound
    <3>2. Sound(u) /\ InUse(u) = InUse(fresh) \cup {Slot(fresh, k)}
      BY <3>1, <2>3, <2>6, MappedSound
    <3>3. /\ u.capacity = fresh.capacity
          /\ u.length = (IF IsNew(fresh, k) THEN fresh.length + 1 ELSE fresh.length)
          /\ u.entries = [fresh.entries EXCEPT ![Slot(fresh, k)] = [key |-> k, value |-> e.value]]
      BY <3>1, <2>3, <2>6, MappedFields
    <3> QED
      BY <2>1, <2>4, <3>2, <3>3
  <2>8. /\ Slot(fresh, k) \in HtblCells(fresh) /\ Slot(fresh, k) \notin InUse(fresh)
        /\ fresh.entries \in [HtblCells(fresh) -> Entry] /\ InUse(fresh) \subseteq HtblCells(fresh)
    BY <1>2, <2>1, <2>3, <2>4, SlotStops DEF IsNew, InUse, Sound, Probable, IsTable
  <2> HIDE DEF u, e, k
  <2>9. Passed' = Passed \cup {at} /\ at \notin Passed
    BY <1>2, <2>1, <2>5 DEF Passed, InUse, HtblCells
  <2>10. {u.entries[i] : i \in InUse(u)} = {fresh.entries[i] : i \in InUse(fresh)} \cup {e}
    BY <2>7, <2>8
  <2>11. {fresh.entries[i] : i \in InUse(fresh)}' = {table.entries[j] : j \in Passed}'
    <3>1. {fresh.entries[i] : i \in InUse(fresh)}' = {u.entries[i] : i \in InUse(u)}
      BY <2>5
    <3>2. {u.entries[i] : i \in InUse(u)} = {table.entries[j] : j \in Passed} \cup {e}
      BY <1>1, <2>10 DEF FreshSound
    <3>3. {table.entries[j] : j \in Passed \cup {at}} = {table.entries[j] : j \in Passed} \cup {e}
      BY DEF e
    <3>4. {table.entries[j] : j \in Passed}' = {table.entries[j] : j \in Passed \cup {at}}
      <4>1. table' = table /\ Passed' = Passed \cup {at}
        BY <2>5, <2>9
      <4> QED BY <4>1
    <3> QED BY <3>1, <3>2, <3>3, <3>4
  <2>12. fresh'.length = Cardinality(Passed')
    <3>1. Cardinality(Passed \cup {at}) = Cardinality(Passed) + 1
      BY <1>4, <2>9, FS_AddElement
    <3>2. fresh.length = Cardinality(Passed)
      BY <1>1 DEF FreshSound
    <3> QED BY <2>5, <2>7, <2>9, <3>1, <3>2
  <2>13. FreshSound'
    <3>1. at' \in 0 .. table'.capacity /\ fresh'.capacity = 2 * table'.capacity /\ Sound(fresh')
      BY <1>2, <2>5, <2>7
    <3> QED BY <2>11, <2>12, <3>1 DEF FreshSound
  <2>14. IsTable(fresh') /\ table'.length + fresh'.length <= strings' /\ strings' \in Nat
    BY <1>2, <2>5, <2>7 DEF TableInv, Sound, Probable
  <2> QED
    BY <1>1, <1>2, <2>2, <2>3, <2>4, <2>5, <2>13, <2>14
    DEF TableInv, HtblTypeOK, TableSound, HalfFull, ArgGiven, Building, k
<1> QED BY <1>5, <1>6

(* The table built takes the place of the old one: it has the same entries, as many. *)
LEMMA ExpandEndInv ==
    TableInv /\ ExpandEnd =>
        TableInv' /\ {table.entries[i] : i \in InUse(table)}' = {table.entries[i] : i \in InUse(table)}
<1> SUFFICES ASSUME TableInv, ExpandEnd
             PROVE  TableInv' /\ {table.entries[i] : i \in InUse(table)}'
                             = {table.entries[i] : i \in InUse(table)}
  OBVIOUS
<1>1. Sound(table) /\ table.length <= table.capacity \div 2 /\ FreshSound /\ at = table.capacity
      /\ pc = "expand"
  BY DEF TableInv, TableSound, HalfFull, Building, ExpandEnd
<1>2. table.capacity \in Nat \ {0} /\ table.length \in Nat /\ strings \in Nat
  BY <1>1 DEF Sound, Probable, IsTable, TableInv, HtblTypeOK
<1>3. Passed = InUse(table)
  BY <1>1, <1>2 DEF Passed, InUse, HtblCells
<1>4. fresh.length = table.length
  BY <1>1, <1>3 DEF FreshSound, Sound
<1>5. [fresh EXCEPT !.length = table.length] = fresh
  <2>1. fresh = [capacity |-> fresh.capacity, length |-> fresh.length, entries |-> fresh.entries]
    BY <1>1 DEF FreshSound, Sound, Probable, IsTable
  <2> QED BY <1>4, <2>1
<1>6. table' = fresh /\ fresh' = NoTable /\ at' = 0 /\ pc' = "put"
      /\ UNCHANGED <<arg, htblGot, strings>>
  BY <1>5 DEF ExpandEnd
<1>7. Sound(table') /\ IsTable(table') /\ table'.length < table'.capacity \div 2
  <2>1. fresh.capacity = 2 * table.capacity /\ Sound(fresh)
    BY <1>1 DEF FreshSound
  <2>2. table.length < (2 * table.capacity) \div 2
    BY <1>1, <1>2
  <2> QED BY <1>4, <1>6, <2>1, <2>2 DEF Sound, Probable
<1>8. IsTable(NoTable) /\ NoTable.length = 0
  BY ZeroedSound DEF NoTable
<1>9. table'.length + fresh'.length <= strings'
  BY <1>2, <1>4, <1>6, <1>8 DEF TableInv
<1>10. {table.entries[i] : i \in InUse(table)}' = {table.entries[i] : i \in InUse(table)}
  BY <1>1, <1>3, <1>6 DEF FreshSound
<1>11. table'.length <= table'.capacity \div 2
  BY <1>7, <1>2, <1>4, <1>6, <1>1 DEF FreshSound
<1> QED
  BY <1>1, <1>6, <1>7, <1>8, <1>9, <1>10, <1>11
  DEF TableInv, HtblTypeOK, Places, TableSound, HalfFull, ArgGiven, Building

(* Nothing changes. *)
LEMMA StutterInv == TableInv /\ UNCHANGED htblvars => TableInv'
<1> SUFFICES ASSUME TableInv, UNCHANGED htblvars PROVE TableInv'
  OBVIOUS
<1>1. /\ table' = table /\ fresh' = fresh /\ at' = at /\ arg' = arg
      /\ pc' = pc /\ htblGot' = htblGot /\ strings' = strings
  BY DEF htblvars
<1>2. HtblTypeOK' /\ TableSound' /\ HalfFull' /\ ArgGiven'
  BY <1>1 DEF TableInv, HtblTypeOK, TableSound, HalfFull, ArgGiven
<1>3. Building'
  BY <1>1 DEF TableInv, Building, FreshSound, Passed
<1> QED BY <1>1, <1>2, <1>3 DEF TableInv

(* The inductive invariant holds in every reachable state of htbl.c. *)
THEOREM TableInvariance == HtblSpec => []TableInv
<1>1. HtblInit => TableInv
  BY TableInitInv
<1>2. TableInv /\ [HtblNext]_htblvars => TableInv'
  BY CreateInv, DestroyInv, GetInv, TablePutInv, PutEntryInv, ExpandStepInv,
     ExpandEndInv, StutterInv
  DEF HtblNext, Steps
<1> QED BY <1>1, <1>2, PTL DEF HtblSpec

(* The variables of htbl.c have their types. *)
THEOREM TableTypeCorrect == HtblSpec => []HtblTypeOK
<1>1. TableInv => HtblTypeOK
  BY DEF TableInv
<1> QED BY <1>1, TableInvariance, PTL

(* htbl_get and htbl_put find every key, through any expansion. *)
THEOREM SearchCorrect == HtblSpec => []ProbesReach
<1>1. TableInv => ProbesReach
  <2> SUFFICES ASSUME TableInv PROVE ProbesReach
    OBVIOUS
  <2>1. InUse(NoTable) = {}
    BY ZeroedSound DEF NoTable
  <2> QED
    BY <2>1 DEF TableInv, ProbesReach, TableSound, Sound, Building, FreshSound, Searchable
<1> QED BY <1>1, TableInvariance, PTL

(* length counts the entries, so that the table expands in time. *)
THEOREM LengthCorrect == HtblSpec => []LengthCounts
<1>1. TableInv => LengthCounts
  <2> SUFFICES ASSUME TableInv PROVE LengthCounts
    OBVIOUS
  <2>1. InUse(NoTable) = {} /\ NoTable.length = 0
    BY ZeroedSound DEF NoTable
  <2> QED BY <2>1, FS_EmptySet DEF TableInv, LengthCounts, TableSound, Sound
<1> QED BY <1>1, TableInvariance, PTL

(* No search of htbl_get or htbl_put is endless, and htbl_expand is not nested. *)
THEOREM SearchEndCorrect == HtblSpec => []SearchesEnd
<1>1. TableInv => SearchesEnd
  BY DEF TableInv, SearchesEnd
<1> QED BY <1>1, TableInvariance, PTL

(* htbl_expand loses no entry and makes none up. *)
THEOREM CopyCorrect == HtblSpec => []CopyInStep
<1>1. TableInv => CopyInStep
  BY DEF TableInv, CopyInStep, Building, FreshSound, Passed
<1> QED BY <1>1, TableInvariance, PTL
----------------------------------------------------------------------------
(* The table implements AbstractMap. *)

(* The mapping of a key is the value in its cell. *)
LEMMA MappingsAre ==
    ASSUME NEW t, Probable(t), Searchable(t)
    PROVE  /\ DOMAIN Mappings(t) = KeysOf(t)
           /\ \A i \in InUse(t) : Mappings(t)[t.entries[i].key] = t.entries[i].value
<1>1. DOMAIN Mappings(t) = KeysOf(t)
  BY DEF Mappings
<1>2. ASSUME NEW i \in InUse(t)
      PROVE  Mappings(t)[t.entries[i].key] = t.entries[i].value
  <2> DEFINE k == t.entries[i].key
             j == CHOOSE a \in InUse(t) : t.entries[a].key = k
  <2>1. j \in InUse(t) /\ t.entries[j].key = k
    OBVIOUS
  <2>2. i = j
    <3> HIDE DEF j
    <3> QED BY <2>1 DEF Searchable
  <2>3. k \in KeysOf(t)
    BY DEF KeysOf
  <2> QED BY <2>2, <2>3 DEF Mappings
<1> QED BY <1>1, <1>2

(* Tables with the same entries have the same mappings, wherever the entries are. *)
LEMMA SameMappings ==
    ASSUME NEW t, NEW u, Probable(t), Searchable(t), Probable(u), Searchable(u),
           {t.entries[i] : i \in InUse(t)} = {u.entries[i] : i \in InUse(u)}
    PROVE  Mappings(t) = Mappings(u)
<1>1. \A i \in InUse(t) : \E j \in InUse(u) : t.entries[i] = u.entries[j]
  <2> TAKE i \in InUse(t)
  <2>1. t.entries[i] \in {t.entries[a] : a \in InUse(t)}
    OBVIOUS
  <2>2. t.entries[i] \in {u.entries[a] : a \in InUse(u)}
    BY <2>1
  <2> QED BY <2>2
<1>2. \A j \in InUse(u) : \E i \in InUse(t) : t.entries[i] = u.entries[j]
  <2> TAKE j \in InUse(u)
  <2>1. u.entries[j] \in {u.entries[a] : a \in InUse(u)}
    OBVIOUS
  <2>2. u.entries[j] \in {t.entries[a] : a \in InUse(t)}
    BY <2>1
  <2> QED BY <2>2
<1>3. KeysOf(t) = KeysOf(u)
  BY <1>1, <1>2 DEF KeysOf
<1>4. ASSUME NEW k \in KeysOf(t) PROVE Mappings(t)[k] = Mappings(u)[k]
  <2>1. PICK i \in InUse(t) : k = t.entries[i].key
    BY DEF KeysOf
  <2>2. PICK j \in InUse(u) : t.entries[i] = u.entries[j]
    BY <1>1
  <2> QED BY <2>1, <2>2, MappingsAre
<1>5. Mappings(t) = [k \in KeysOf(t) |-> Mappings(t)[k]]
  BY DEF Mappings
<1>6. Mappings(u) = [k \in KeysOf(u) |-> Mappings(u)[k]]
  BY DEF Mappings
<1> QED BY <1>3, <1>4, <1>5, <1>6

(* A map with the value of one key changed. *)
With(m, k, v) == [j \in DOMAIN m \cup {k} |-> IF j = k THEN v ELSE m[j]]

(* A put changes the mapping of its key and no other. *)
LEMMA MappedMappings ==
    ASSUME NEW t, NEW k \in Keys, NEW v \in Values \cup {None}, Sound(t), Ends(t, k)
    PROVE  Mappings(Mapped(t, k, v)) = With(Mappings(t), k, v)
<1> DEFINE s == Slot(t, k)
           u == Mapped(t, k, v)
           m == [j \in KeysOf(t) \cup {k} |-> IF j = k THEN v ELSE Mappings(t)[j]]
<1>1. Probable(t) /\ Searchable(t) /\ Probable(u) /\ Searchable(u)
  BY MappedSound DEF Sound
<1>2. InUse(u) = InUse(t) \cup {s}
      /\ u.entries = [t.entries EXCEPT ![s] = [key |-> k, value |-> v]]
  BY <1>1, MappedSound, MappedFields
<1>3. s \in HtblCells(t) /\ t.entries[s].key \in {k, None}
  BY <1>1, SlotStops
<1>4. /\ u.entries[s].key = k /\ u.entries[s].value = v
      /\ \A i \in HtblCells(t) : i # s => u.entries[i] = t.entries[i]
  BY <1>1, <1>2, <1>3 DEF Probable, IsTable
<1>5. InUse(t) \subseteq HtblCells(t) /\ (s \in InUse(t) => t.entries[s].key = k)
  BY <1>3 DEF InUse
<1>6. \A i \in InUse(t) : t.entries[i].key = k => i = s
  BY <1>1 DEF Searchable
<1> HIDE DEF u, s
<1>7. KeysOf(u) = KeysOf(t) \cup {k}
  <2>1. \A i \in InUse(u) : u.entries[i].key \in KeysOf(t) \cup {k}
    BY <1>2, <1>4, <1>5 DEF KeysOf
  <2>2. \A i \in InUse(t) : \E j \in InUse(u) : u.entries[j].key = t.entries[i].key
    BY <1>2, <1>4, <1>5
  <2>3. \E j \in InUse(u) : u.entries[j].key = k
    BY <1>2, <1>4
  <2> QED BY <2>1, <2>2, <2>3 DEF KeysOf
<1>8. ASSUME NEW j \in KeysOf(u) PROVE Mappings(u)[j] = m[j]
  <2>1. PICK i \in InUse(u) : j = u.entries[i].key
    BY DEF KeysOf
  <2>2. Mappings(u)[j] = u.entries[i].value
    BY <1>1, <2>1, MappingsAre
  <2>3. CASE i = s
    BY <1>4, <1>7, <2>1, <2>2, <2>3
  <2>4. CASE i # s
    <3>1. i \in InUse(t) /\ u.entries[i] = t.entries[i] /\ j # k
      BY <1>2, <1>4, <1>5, <1>6, <2>1, <2>4
    <3>2. Mappings(t)[j] = t.entries[i].value
      BY <1>1, <2>1, <3>1, MappingsAre
    <3> QED BY <1>7, <2>2, <3>1, <3>2
  <2> QED BY <2>3, <2>4
<1>9. Mappings(u) = [j \in KeysOf(u) |-> Mappings(u)[j]]
  BY DEF Mappings
<1>10. Mappings(u) = m
  BY <1>7, <1>8, <1>9
<1>11. DOMAIN Mappings(t) = KeysOf(t)
  BY <1>1, MappingsAre
<1> QED BY <1>10, <1>11 DEF u, With

(* A table without entries is the empty map. *)
LEMMA NoMappings ==
    ASSUME NEW c \in Nat PROVE Mappings(Zeroed(c)) = [k \in {} |-> None]
<1>1. KeysOf(Zeroed(c)) = {}
  BY ZeroedSound DEF KeysOf
<1> QED BY <1>1 DEF Mappings

(* The hash table implements AbstractMap: what is put under a key is what a get
   returns, whatever expansions come between. *)
THEOREM TableRefinement == HtblSpec => ImplementsMap
<1>1. HtblInit => Map!Init
  BY NoMappings DEF HtblInit, Map!Init, NoTable
<1>2. ASSUME TableInv, [HtblNext]_htblvars PROVE [Map!Next]_<<Mappings(table), htblGot>>
  <2>1. CASE htbl_create
    <3>1. table = NoTable /\ table' = Zeroed(Initial) /\ htblGot' = htblGot
      BY <1>2, <2>1 DEF TableInv, TableSound, htbl_create
    <3>2. Initial \in Nat
      BY InitialAssumption
    <3>3. Mappings(table) = [k \in {} |-> None] /\ Mappings(table') = [k \in {} |-> None]
      BY <3>1, <3>2, NoMappings DEF NoTable
    <3> QED BY <3>1, <3>3
  <2>2. CASE htbl_destroy
    <3>1. table' = NoTable /\ htblGot' = htblGot
      BY <2>2 DEF htbl_destroy
    <3>2. Mappings(table') = [k \in {} |-> None]
      BY <3>1, NoMappings DEF NoTable
    <3>3. Map!Clear
      BY <3>1, <3>2 DEF Map!Clear
    <3> QED BY <3>3 DEF Map!Next
  <2>3. ASSUME NEW k \in Keys, htbl_get(k) PROVE [Map!Next]_<<Mappings(table), htblGot>>
    <3>1. Sound(table) /\ table.length <= table.capacity \div 2
      BY <1>2, <2>3 DEF TableInv, TableSound, HalfFull, htbl_get
    <3>2. table.capacity \in Nat \ {0} /\ table.length \in Nat /\ Probable(table) /\ Searchable(table)
      BY <3>1 DEF Sound, Probable, IsTable
    <3>3. Ends(table, k)
      BY <3>1, <3>2, RoomStops
    <3>4. htblGot' = Lookup(table, k) /\ table' = table
      BY <2>3, <3>3 DEF htbl_get
    <3>5. Lookup(table, k) = IF k \in DOMAIN Mappings(table) THEN Mappings(table)[k] ELSE None
      <4>1. k \in DOMAIN Mappings(table) <=> ~ IsNew(table, k)
        BY <3>2, <3>3, NewMeansAbsent, MappingsAre
      <4>2. ~ IsNew(table, k) => Slot(table, k) \in InUse(table)
                                 /\ table.entries[Slot(table, k)].key = k
        BY <3>2, <3>3, SlotStops DEF IsNew, InUse
      <4> QED BY <3>2, <4>1, <4>2, MappingsAre DEF Lookup
    <3>6. Map!Get(k)
      BY <3>4, <3>5 DEF Map!Get
    <3> QED BY <3>6 DEF Map!Next
  <2>4. ASSUME NEW k \in Keys, NEW v \in Values, htbl_put(k, v)
        PROVE  [Map!Next]_<<Mappings(table), htblGot>>
    <3>1. table' = table /\ htblGot' = htblGot
      BY <2>4 DEF htbl_put
    <3> QED BY <3>1
  <2>5. CASE PutEntry
    <3>1. Sound(table) /\ table.length < table.capacity \div 2 /\ arg.key \in Keys /\ arg.value \in Values
      BY <1>2, <2>5 DEF TableInv, TableSound, HalfFull, ArgGiven, PutEntry
    <3>2. table.capacity \in Nat \ {0} /\ table.length \in Nat
      BY <3>1 DEF Sound, Probable, IsTable
    <3>3. Ends(table, arg.key)
      BY <3>1, <3>2, RoomStops
    <3>4. table' = Mapped(table, arg.key, arg.value) /\ htblGot' = htblGot
      BY <2>5, <3>3 DEF PutEntry
    <3>5. Mappings(table') = With(Mappings(table), arg.key, arg.value)
      BY <3>1, <3>3, <3>4, MappedMappings
    <3>6. Map!Put(arg.key, arg.value)
      BY <3>4, <3>5 DEF Map!Put, With
    <3> QED BY <3>1, <3>6 DEF Map!Next
  <2>6. CASE ExpandStep
    <3>1. table' = table /\ htblGot' = htblGot
      BY <2>6 DEF ExpandStep
    <3> QED BY <3>1
  <2>7. CASE ExpandEnd
    <3>1. TableInv' /\ {table.entries[i] : i \in InUse(table)}' = {table.entries[i] : i \in InUse(table)}
      BY <1>2, <2>7, ExpandEndInv
    <3>2. pc = "expand" /\ pc' = "put" /\ htblGot' = htblGot
      BY <2>7 DEF ExpandEnd
    <3>3. Probable(table) /\ Searchable(table) /\ Probable(table') /\ Searchable(table')
      BY <1>2, <3>1, <3>2 DEF TableInv, TableSound, Sound
    <3>4. Mappings(table') = Mappings(table)
      BY <3>1, <3>3, SameMappings
    <3> QED BY <3>2, <3>4
  <2>8. CASE UNCHANGED htblvars
    BY <2>8 DEF htblvars
  <2> QED BY <1>2, <2>1, <2>2, <2>3, <2>4, <2>5, <2>6, <2>7, <2>8 DEF HtblNext, Steps
<1> QED BY <1>1, <1>2, TableInvariance, PTL DEF HtblSpec, ImplementsMap, Map!Spec
------------------------------------------------------------------------------
(* The environment. *)

(* First chooses an item of the set. *)
LEMMA FirstIn ==
    ASSUME NEW S \in SUBSET Nat, S # {}
    PROVE  First(S) \in S
<1>1. PICK m \in S : \A n \in S : m <= n
  BY LeastNumber
<1> QED BY <1>1 DEF First

------------------------------------------------------------------------------
(* The inductive invariant. *)

(* The items behind current have never been used; those before it hold a key. *)
UsedBeforeCurrent ==
    \A i \in Slots :
        IF i < current THEN items[i].status # "none" /\ items[i].key \in EnvKeys
        ELSE items[i].status = "none"

StoreInv == EnvTypeOK /\ UsedBeforeCurrent /\ KeysOnce

(* The items env_index may stop at are the present ones with the key. *)
LEMMA FoundIs ==
    ASSUME StoreInv, NEW k \in EnvKeys
    PROVE  /\ Found(k) = {i \in Present : items[i].key = k}
           /\ Found(k) \subseteq Nat
           /\ Found(k) # {} => First(Found(k)) \in Found(k)
<1>1. current \in 0 .. EnvSize /\ EnvSize \in Nat
  BY EnvSizeAssumption DEF StoreInv, EnvTypeOK
<1>2. Found(k) \subseteq {i \in Present : items[i].key = k}
  BY <1>1 DEF Found, Present, Slots
<1>3. ASSUME NEW i \in Present, items[i].key = k PROVE i \in Found(k)
  <2>1. i \in Slots /\ items[i].status = "present"
    BY DEF Present
  <2>2. i < current
    BY <2>1 DEF StoreInv, UsedBeforeCurrent
  <2> QED BY <1>1, <1>3, <2>1, <2>2 DEF Found, Slots
<1>4. Found(k) \subseteq Nat
  BY <1>1 DEF Found
<1> QED BY <1>2, <1>3, <1>4, FirstIn

(* Where a new key goes: an item that is not present, the next one or one removed. *)
LEMMA FreeIs ==
    ASSUME StoreInv, ~ Full
    PROVE  /\ FirstFree \in Slots \ Present
           /\ IF Emptied # {} THEN FirstFree < current
              ELSE FirstFree = current /\ current + 1 \in 0 .. EnvSize
<1>1. current \in 0 .. EnvSize /\ EnvSize \in Nat
  BY EnvSizeAssumption DEF StoreInv, EnvTypeOK
<1>2. CASE Emptied # {}
  <2>1. Emptied \subseteq Nat
    BY <1>1 DEF Emptied
  <2>2. FirstFree \in Emptied
    BY <1>2, <2>1, FirstIn DEF FirstFree
  <2> QED BY <1>1, <1>2, <2>2 DEF Emptied, Slots, Present
<1>3. CASE Emptied = {}
  <2>1. FirstFree = current /\ current < EnvSize
    BY <1>1, <1>3 DEF Full, FirstFree
  <2>2. current \in Slots /\ ~ (current < current)
    BY <1>1, <2>1 DEF Slots
  <2>3. items[current].status = "none"
    BY <2>2 DEF StoreInv, UsedBeforeCurrent
  <2> QED BY <1>1, <1>3, <2>1, <2>2, <2>3 DEF Present
<1> QED BY <1>2, <1>3

(* Put keeps the invariant. *)
LEMMA StorePutInv ==
    ASSUME StoreInv, NEW k \in EnvKeys, NEW v \in EnvValues, Put(k, v),
           lines' \in Seq((EnvKeys \X EnvValues) \cup {NoPair}),
           returned' \in EnvValues \cup {NoValue}
    PROVE  StoreInv'
<1>1. current \in 0 .. EnvSize /\ EnvSize \in Nat
  BY EnvSizeAssumption DEF StoreInv, EnvTypeOK
<1>2. CASE Found(k) # {}
  <2> DEFINE f == First(Found(k))
  <2>1. f \in Present /\ f \in Slots /\ items[f].key = k
    BY <1>2, FoundIs DEF Present
  <2>2. items' = [items EXCEPT ![f].value = v] /\ current' = current
    BY <1>2 DEF Put
  <2> HIDE DEF f
  <2>3. \A i \in Slots : items'[i].status = items[i].status /\ items'[i].key = items[i].key
    BY <2>1, <2>2 DEF StoreInv, EnvTypeOK
  <2>4. EnvTypeOK'
    BY <1>1, <2>1, <2>2 DEF StoreInv, EnvTypeOK
  <2>5. UsedBeforeCurrent' /\ KeysOnce'
    BY <2>2, <2>3 DEF StoreInv, UsedBeforeCurrent, KeysOnce, Present
  <2> QED BY <2>4, <2>5 DEF StoreInv
<1>3. CASE Found(k) = {} /\ Full
  <2>1. items' = items /\ current' = current
    BY <1>3 DEF Put
  <2> QED BY <2>1 DEF StoreInv, EnvTypeOK, UsedBeforeCurrent, KeysOnce, Present
<1>4. CASE Found(k) = {} /\ ~ Full
  <2> DEFINE f == FirstFree
             x == [status |-> "present", key |-> k, value |-> v]
  <2>1. items' = [items EXCEPT ![f] = x]
        /\ current' = IF Emptied # {} THEN current ELSE current + 1
    BY <1>4 DEF Put
  <2>2. f \in Slots \ Present /\ current' \in 0 .. EnvSize
        /\ IF Emptied # {} THEN f < current ELSE f = current
    BY <1>1, <1>4, <2>1, FreeIs
  <2>3. \A i \in Present : items[i].key # k
    BY <1>4, FoundIs
  <2> HIDE DEF f
  <2>4. EnvTypeOK'
    BY <1>1, <2>1, <2>2 DEF StoreInv, EnvTypeOK
  <2>5. items'[f] = x /\ \A i \in Slots : i # f => items'[i] = items[i]
    BY <2>1, <2>2 DEF StoreInv, EnvTypeOK
  <2>6. UsedBeforeCurrent'
    <3> SUFFICES ASSUME NEW i \in Slots
                 PROVE  IF i < current' THEN items'[i].status # "none" /\ items'[i].key \in EnvKeys
                        ELSE items'[i].status = "none"
      BY DEF UsedBeforeCurrent
    <3>1. i \in Nat /\ current \in Nat /\ f \in Nat
      BY <1>1, <2>2 DEF Slots
    <3>2. CASE i = f
      BY <2>1, <2>2, <2>5, <3>1, <3>2
    <3>3. CASE i # f
      BY <2>1, <2>2, <2>5, <3>1, <3>3 DEF StoreInv, UsedBeforeCurrent
    <3> QED BY <3>2, <3>3
  <2>7. KeysOnce'
    BY <2>2, <2>3, <2>5 DEF StoreInv, KeysOnce, Present
  <2> QED BY <2>4, <2>6, <2>7 DEF StoreInv
<1> QED BY <1>2, <1>3, <1>4

(* No step ends the invariant. *)
LEMMA StoreStepInv ==
    ASSUME StoreInv, [EnvNext]_envvars
    PROVE  StoreInv'
<1>1. current \in 0 .. EnvSize /\ EnvSize \in Nat /\ returned \in EnvValues \cup {NoValue} \cup Pointers
      /\ lines \in Seq((EnvKeys \X EnvValues) \cup {NoPair})
  BY EnvSizeAssumption DEF StoreInv, EnvTypeOK
<1>2. ASSUME items' = items, current' = current,
             lines' \in Seq((EnvKeys \X EnvValues) \cup {NoPair}),
             returned' \in EnvValues \cup {NoValue} \cup Pointers
      PROVE  StoreInv'
  BY <1>2 DEF StoreInv, EnvTypeOK, UsedBeforeCurrent, KeysOnce, Present
<1>3. ASSUME NEW k \in EnvKeys, env_get(k) PROVE StoreInv'
  <2>1. Found(k) # {} => items[First(Found(k))].value \in EnvValues \cup {NoValue}
    BY FoundIs DEF StoreInv, EnvTypeOK, Present
  <2>2. returned' \in EnvValues \cup {NoValue}
    BY <1>3, <2>1 DEF env_get
  <2> QED BY <1>1, <1>2, <1>3, <2>2 DEF env_get
<1>4. ASSUME NEW k \in EnvKeys, env_remove(k) PROVE StoreInv'
  <2>1. CASE Found(k) = {}
    BY <1>1, <1>2, <1>4, <2>1 DEF env_remove
  <2>2. CASE Found(k) # {}
    <3> DEFINE f == First(Found(k))
    <3>1. f \in Present /\ f \in Slots
      BY <2>2, FoundIs DEF Present
    <3>2. items' = [items EXCEPT ![f].status = "empty"] /\ current' = current
          /\ lines' = lines /\ returned' = Pointer(f)
      BY <1>4, <2>2 DEF env_remove
    <3> HIDE DEF f
    <3>3. EnvTypeOK'
      BY <1>1, <3>1, <3>2 DEF StoreInv, EnvTypeOK, Pointers
    <3>4. \A i \in Slots : items'[i].key = items[i].key
                           /\ items'[i].status = IF i = f THEN "empty" ELSE items[i].status
      BY <3>1, <3>2 DEF StoreInv, EnvTypeOK
    <3>5. UsedBeforeCurrent'
      BY <3>1, <3>2, <3>4 DEF StoreInv, UsedBeforeCurrent, Present
    <3>6. KeysOnce'
      BY <3>4 DEF StoreInv, KeysOnce, Present
    <3> QED BY <3>3, <3>5, <3>6 DEF StoreInv
  <2> QED BY <2>1, <2>2
<1>5. ASSUME NEW k \in EnvKeys, NEW v \in EnvValues, env_put(k, v) PROVE StoreInv'
  <2>1. returned' \in EnvValues \cup {NoValue} /\ lines' = lines /\ Put(k, v)
    BY <1>5 DEF env_put
  <2> QED BY <1>1, <2>1, StorePutInv
<1>6. ASSUME NEW t \in Texts, env_kvp_lines_add(t) PROVE StoreInv'
  BY <1>1, <1>2, <1>6, TextsAssumption DEF env_kvp_lines_add
<1>7. CASE LineAdd
  <2>1. lines # <<>> /\ Tail(lines) \in Seq((EnvKeys \X EnvValues) \cup {NoPair})
        /\ Head(lines) \in (EnvKeys \X EnvValues) \cup {NoPair}
    BY <1>1, <1>7 DEF LineAdd
  <2>2. CASE Head(lines) = NoPair
    <3>1. <<>> \in Seq((EnvKeys \X EnvValues) \cup {NoPair})
      OBVIOUS
    <3> QED BY <1>1, <1>2, <1>7, <2>2, <3>1 DEF LineAdd
  <2>3. CASE Head(lines) # NoPair
    BY <1>1, <1>7, <2>1, <2>3, StorePutInv DEF LineAdd
  <2> QED BY <2>2, <2>3
<1>8. CASE UNCHANGED envvars
  BY <1>1, <1>2, <1>8 DEF envvars
<1> QED BY <1>3, <1>4, <1>5, <1>6, <1>7, <1>8 DEF EnvNext

LEMMA StoreInvariance == EnvSpec => []StoreInv
<1>1. EnvInit => StoreInv
  BY EnvSizeAssumption DEF EnvInit, StoreInv, EnvTypeOK, UsedBeforeCurrent, KeysOnce, Present, Unused, Slots
<1>2. StoreInv /\ [EnvNext]_envvars => StoreInv'
  BY StoreStepInv
<1> QED BY <1>1, <1>2, PTL DEF EnvSpec

(* env.c's array keeps its type: current stays within the ENV_SIZE items. *)
THEOREM StoreTypeCorrect == EnvSpec => []EnvTypeOK
<1>1. StoreInv => EnvTypeOK
  BY DEF StoreInv
<1> QED BY <1>1, StoreInvariance, PTL

(* No key is in two items, so that env_remove takes out the only one (env.c). *)
THEOREM KeysCorrect == EnvSpec => []KeysOnce
<1>1. StoreInv => KeysOnce
  BY DEF StoreInv
<1> QED BY <1>1, StoreInvariance, PTL
------------------------------------------------------------------------------
(* The environment implements AbstractStore. *)

KeysHeld == {items[i].key : i \in Present}

(* What the mapping of a key is. *)
LEMMA MappingIs ==
    ASSUME StoreInv
    PROVE  /\ DOMAIN Mapping = KeysHeld
           /\ \A i \in Present : Mapping[items[i].key] = items[i].value
<1>1. DOMAIN Mapping = KeysHeld
  BY DEF Mapping, KeysHeld
<1>2. ASSUME NEW i \in Present PROVE Mapping[items[i].key] = items[i].value
  <2> DEFINE j == CHOOSE a \in Present : items[a].key = items[i].key
  <2>1. j \in Present /\ items[j].key = items[i].key
    OBVIOUS
  <2>2. i = j
    <3> HIDE DEF j
    <3> QED BY <2>1 DEF StoreInv, KeysOnce
  <2> QED BY <2>2 DEF Mapping
<1> QED BY <1>1, <1>2

(* A state whose present items have the keys and the values of m maps to m. *)
LEMMA MapsTo ==
    ASSUME StoreInv', NEW m, DOMAIN m = KeysHeld', m = [k \in DOMAIN m |-> m[k]],
           \A i \in Present' : m[items'[i].key] = items'[i].value
    PROVE  Mapping' = m
<1>1. \A k \in KeysHeld' : Mapping'[k] = m[k]
  <2> TAKE k \in KeysHeld'
  <2>1. PICK i \in Present' : k = items'[i].key
    BY DEF KeysHeld
  <2> DEFINE j == CHOOSE a \in Present' : items'[a].key = k
  <2>2. j \in Present' /\ items'[j].key = k
    BY <2>1
  <2>3. Mapping'[k] = items'[j].value
    BY DEF Mapping, KeysHeld
  <2> HIDE DEF j
  <2> QED BY <2>2, <2>3
<1>2. Mapping' = [k \in KeysHeld' |-> Mapping'[k]]
  BY DEF Mapping, KeysHeld
<1> QED BY <1>1, <1>2

(* There are as many keys as present items. *)
LEMMA KeysCounted ==
    ASSUME StoreInv
    PROVE  /\ IsFiniteSet(Present) /\ Cardinality(KeysHeld) = Cardinality(Present)
           /\ IsFiniteSet(Slots) /\ Cardinality(Slots) = EnvSize
<1> DEFINE f == [i \in Present |-> items[i].key]
<1>1. IsFiniteSet(Slots) /\ Cardinality(Slots) = EnvSize
  <2>1. EnvSize \in Nat /\ 0 \in Int /\ EnvSize - 1 \in Int
    BY EnvSizeAssumption
  <2>2. IsFiniteSet(0 .. EnvSize - 1)
        /\ Cardinality(0 .. EnvSize - 1) = IF 0 > EnvSize - 1 THEN 0 ELSE (EnvSize - 1) - 0 + 1
    BY <2>1, FS_Interval
  <2> QED BY <2>1, <2>2 DEF Slots
<1>2. IsFiniteSet(Present)
  BY <1>1, FS_Subset DEF Present
<1>3. f \in Bijection(Present, KeysHeld)
  BY DEF StoreInv, KeysOnce, KeysHeld, Bijection, Injection, Surjection, IsInjective
<1>4. ExistsBijection(Present, KeysHeld)
  <2> HIDE DEF f
  <2> QED BY <1>3 DEF ExistsBijection
<1> QED BY <1>1, <1>2, <1>4, FS_Bijection

(* A full environment holds EnvSize keys, any other has fewer. *)
LEMMA FullMeans ==
    ASSUME StoreInv
    PROVE  Full <=> Cardinality(KeysHeld) >= EnvSize
<1>1. current \in 0 .. EnvSize /\ EnvSize \in Nat
  BY EnvSizeAssumption DEF StoreInv, EnvTypeOK
<1>2. ASSUME Full PROVE Present = Slots
  <2>1. Emptied = {} /\ current = EnvSize
    BY <1>1, <1>2 DEF Full
  <2>2. \A i \in Slots : items[i].status # "none" /\ i \in 0 .. current - 1
    BY <1>1, <2>1 DEF StoreInv, UsedBeforeCurrent, Slots
  <2>3. \A i \in Slots : items[i].status \in {"none", "present", "empty"}
    BY DEF StoreInv, EnvTypeOK
  <2> QED BY <2>1, <2>2, <2>3 DEF Emptied, Present
<1>3. ASSUME ~ Full PROVE Cardinality(Present) < EnvSize
  <2>1. FirstFree \in Slots /\ FirstFree \notin Present
    BY <1>3, FreeIs
  <2>2. Present \in SUBSET Slots /\ Present # Slots
    BY <2>1 DEF Present
  <2>3. Cardinality(Present) <= Cardinality(Slots) /\ Cardinality(Present) # Cardinality(Slots)
    BY <2>2, KeysCounted, FS_Subset
  <2>4. Cardinality(Present) \in Nat
    BY KeysCounted, FS_CardinalityType
  <2> QED BY <1>1, <2>3, <2>4, KeysCounted
<1>4. Cardinality(Present) \in Nat
  BY KeysCounted, FS_CardinalityType
<1> QED BY <1>1, <1>2, <1>3, <1>4, KeysCounted

(* AbstractStore counts as the FiniteSets module does. *)
LEMMA SameCount == ASSUME NEW S PROVE Store!Cardinality(S) = Cardinality(S)
  BY DEF Store!Cardinality, Cardinality

(* Put is the abstract put. *)
LEMMA PutMaps ==
    ASSUME StoreInv, StoreInv', NEW k \in EnvKeys, NEW v \in EnvValues, Put(k, v), Told' = NoValue
    PROVE  Store!Put(k, v)
<1> DEFINE m == [j \in DOMAIN Mapping \cup {k} |-> IF j = k THEN v ELSE Mapping[j]]
<1>1. Found(k) # {} <=> k \in DOMAIN Mapping
  BY FoundIs, MappingIs DEF KeysHeld
<1>2. Full <=> Cardinality(DOMAIN Mapping) >= EnvSize
  BY FullMeans, MappingIs
<1>3. CASE Found(k) # {}
  <2> DEFINE f == First(Found(k))
  <2>1. f \in Present /\ f \in Slots /\ items[f].key = k
    BY <1>3, FoundIs DEF Present
  <2>2. items' = [items EXCEPT ![f].value = v]
    BY <1>3 DEF Put
  <2> HIDE DEF f
  <2>3. \A i \in Slots : /\ items'[i].status = items[i].status /\ items'[i].key = items[i].key
                        /\ items'[i].value = IF i = f THEN v ELSE items[i].value
    BY <2>1, <2>2 DEF StoreInv, EnvTypeOK
  <2>4. Present' = Present
    BY <2>3 DEF Present
  <2>5. KeysHeld' = KeysHeld
    BY <2>3, <2>4 DEF KeysHeld, Present
  <2>6. DOMAIN m = KeysHeld' /\ m = [j \in DOMAIN m |-> m[j]]
    BY <1>1, <1>3, <2>5, MappingIs
  <2>7. ASSUME NEW i \in Present' PROVE m[items'[i].key] = items'[i].value
    <3>1. i \in Present /\ i \in Slots
      BY <2>4 DEF Present
    <3>2. items[i].key = k => i = f
      BY <2>1, <3>1 DEF StoreInv, KeysOnce
    <3>3. items[i].key \in DOMAIN Mapping /\ Mapping[items[i].key] = items[i].value
      BY <3>1, MappingIs DEF KeysHeld
    <3> QED BY <2>1, <2>3, <3>1, <3>2, <3>3
  <2>8. Mapping' = m
    <3> HIDE DEF m
    <3> QED BY <2>6, <2>7, MapsTo
  <2> QED BY <1>1, <1>3, <2>8 DEF Store!Put
<1>4. CASE Found(k) = {} /\ Full
  <2>1. items' = items
    BY <1>4 DEF Put
  <2>2. Mapping' = Mapping
    BY <2>1 DEF Mapping, Present
  <2>3. k \notin DOMAIN Mapping /\ Cardinality(DOMAIN Mapping) >= EnvSize
    BY <1>1, <1>2, <1>4
  <2> HIDE DEF Mapping
  <2> QED BY <2>2, <2>3, SameCount DEF Store!Put
<1>5. CASE Found(k) = {} /\ ~ Full
  <2> DEFINE f == FirstFree
  <2>1. items' = [items EXCEPT ![f] = [status |-> "present", key |-> k, value |-> v]]
    BY <1>5 DEF Put
  <2>2. f \in Slots /\ f \notin Present
    BY <1>5, FreeIs
  <2> HIDE DEF f
  <2>3. /\ items'[f] = [status |-> "present", key |-> k, value |-> v]
        /\ \A i \in Slots : i # f => items'[i] = items[i]
    BY <2>1, <2>2 DEF StoreInv, EnvTypeOK
  <2>4. Present' = Present \cup {f} /\ Present \subseteq Slots
    BY <2>2, <2>3 DEF Present
  <2>5. KeysHeld' = KeysHeld \cup {k}
    BY <2>2, <2>3, <2>4 DEF KeysHeld
  <2>6. DOMAIN m = KeysHeld' /\ m = [j \in DOMAIN m |-> m[j]]
    BY <2>5, MappingIs
  <2>7. ASSUME NEW i \in Present' PROVE m[items'[i].key] = items'[i].value
    <3>1. CASE i = f
      BY <2>3, <3>1
    <3>2. CASE i # f
      <4>1. i \in Present /\ i \in Slots
        BY <2>4, <3>2
      <4>2. items[i].key \in DOMAIN Mapping /\ Mapping[items[i].key] = items[i].value
        BY <4>1, MappingIs DEF KeysHeld
      <4>3. items[i].key # k
        BY <1>5, <4>1, FoundIs
      <4> QED BY <2>3, <3>2, <4>1, <4>2, <4>3
    <3> QED BY <3>1, <3>2
  <2>8. Mapping' = m
    <3> HIDE DEF m
    <3> QED BY <2>6, <2>7, MapsTo
  <2>9. ~ (Cardinality(DOMAIN Mapping) >= EnvSize)
    BY <1>2, <1>5
  <2> QED BY <2>8, <2>9, SameCount DEF Store!Put
<1> QED BY <1>3, <1>4, <1>5

(* What a caller is told: a value or NULL as it is, and of an item that it was removed. *)
LEMMA ToldIs ==
    /\ \A v \in EnvValues \cup {NoValue} : returned = v => Told = v
    /\ returned \in Pointers => Told = "removed"
BY PointersAssumption DEF Told

(* A removal takes out the key and no other. *)
LEMMA RemoveMaps ==
    ASSUME StoreInv, StoreInv', NEW k \in EnvKeys, env_remove(k)
    PROVE  Store!Remove(k)
<1> DEFINE m == [j \in DOMAIN Mapping \ {k} |-> Mapping[j]]
<1>1. Told' = IF Found(k) = {} THEN NoValue ELSE "removed"
  <2>1. CASE Found(k) = {}
    <3>1. returned' = NoValue
      BY <2>1 DEF env_remove
    <3> QED BY <2>1, <3>1, PointersAssumption DEF Told
  <2>2. CASE Found(k) # {}
    <3>1. First(Found(k)) \in Slots
      BY <2>2, FoundIs DEF Present
    <3>2. returned' = Pointer(First(Found(k)))
      BY <2>2 DEF env_remove
    <3>3. returned' \in Pointers
      BY <3>1, <3>2 DEF Pointers
    <3> QED BY <2>2, <3>3 DEF Told
  <2> QED BY <2>1, <2>2
<1>2. CASE Found(k) = {}
  <2>1. items' = items
    BY <1>2 DEF env_remove
  <2>2. Mapping' = Mapping
    BY <2>1 DEF Mapping, Present
  <2>3. k \notin DOMAIN Mapping
    BY <1>2, FoundIs, MappingIs DEF KeysHeld
  <2>4. Mapping = [j \in DOMAIN Mapping |-> Mapping[j]]
    BY DEF Mapping
  <2>5. DOMAIN Mapping \ {k} = DOMAIN Mapping
    BY <2>3
  <2> QED BY <1>1, <1>2, <2>2, <2>3, <2>4, <2>5 DEF Store!Remove
<1>3. CASE Found(k) # {}
  <2> DEFINE f == First(Found(k))
  <2>1. f \in Present /\ f \in Slots /\ items[f].key = k
    BY <1>3, FoundIs DEF Present
  <2>2. items' = [items EXCEPT ![f].status = "empty"]
    BY <1>3 DEF env_remove
  <2> HIDE DEF f
  <2>3. /\ items'[f].status = "empty"
        /\ \A i \in Slots : i # f => items'[i] = items[i]
    BY <2>1, <2>2 DEF StoreInv, EnvTypeOK
  <2>4. Present' = Present \ {f} /\ Present \subseteq Slots
    BY <2>1, <2>3 DEF Present
  <2>5. \A i \in Present : items[i].key = k => i = f
    BY <2>1 DEF StoreInv, KeysOnce
  <2>6. KeysHeld' = KeysHeld \ {k}
    BY <2>1, <2>3, <2>4, <2>5 DEF KeysHeld
  <2>7. DOMAIN m = KeysHeld' /\ m = [j \in DOMAIN m |-> m[j]]
    BY <2>6, MappingIs
  <2>8. ASSUME NEW i \in Present' PROVE m[items'[i].key] = items'[i].value
    <3>1. i \in Present /\ i \in Slots /\ i # f
      BY <2>4, <2>8
    <3>2. items[i].key \in DOMAIN Mapping /\ Mapping[items[i].key] = items[i].value
      BY <3>1, MappingIs DEF KeysHeld
    <3> QED BY <2>3, <2>5, <3>1, <3>2
  <2>9. Mapping' = m
    <3> HIDE DEF m
    <3> QED BY <2>7, <2>8, MapsTo
  <2>10. k \in DOMAIN Mapping
    BY <2>1, MappingIs DEF KeysHeld
  <2> QED BY <1>1, <1>3, <2>9, <2>10 DEF Store!Remove
<1> QED BY <1>2, <1>3

(* env.c is a map of EnvSize keys, whatever was removed from it and put again. *)
THEOREM StoreRefinement == EnvSpec => ImplementsStore
<1>1. EnvInit => Store!Init
  <2> SUFFICES ASSUME EnvInit PROVE Store!Init
    OBVIOUS
  <2>1. Present = {} /\ returned = NoValue
    BY DEF EnvInit, Present, Unused
  <2>2. Mapping = [k \in {} |-> NoValue]
    BY <2>1 DEF Mapping
  <2>3. Told = NoValue
    BY <2>1, ToldIs
  <2> QED BY <2>2, <2>3 DEF Store!Init
<1>2. ASSUME StoreInv, StoreInv', [EnvNext]_envvars PROVE [Store!Next]_<<Mapping, Told>>
  <2>1. ASSUME items' = items, returned' = returned PROVE UNCHANGED <<Mapping, Told>>
    BY <2>1 DEF Mapping, Present, Told
  <2>2. ASSUME NEW k \in EnvKeys, env_get(k) PROVE Store!Next
    <3>1. items' = items /\ Mapping' = Mapping
      BY <2>2 DEF env_get, Mapping, Present
    <3>2. CASE Found(k) = {}
      <4>1. k \notin DOMAIN Mapping
        BY <1>2, <3>2, FoundIs, MappingIs DEF KeysHeld
      <4>2. returned' = NoValue
        BY <2>2, <3>2 DEF env_get
      <4>3. Told' = NoValue
        BY <4>2, PointersAssumption DEF Told
      <4> QED BY <3>1, <4>1, <4>3 DEF Store!Get, Store!Next
    <3>3. CASE Found(k) # {}
      <4>1. First(Found(k)) \in Present /\ items[First(Found(k))].key = k
        BY <1>2, <3>3, FoundIs
      <4>2. k \in DOMAIN Mapping /\ Mapping[k] = items[First(Found(k))].value
        BY <1>2, <4>1, MappingIs DEF KeysHeld
      <4>3. returned' = Mapping[k]
        BY <2>2, <3>3, <4>2 DEF env_get
      <4>4. Mapping[k] \in EnvValues \cup {NoValue}
        BY <1>2, <4>1, <4>2 DEF StoreInv, EnvTypeOK, Present
      <4>5. Told' = Mapping[k]
        BY <4>3, <4>4, PointersAssumption DEF Told
      <4> QED BY <3>1, <4>2, <4>5 DEF Store!Get, Store!Next
    <3> QED BY <3>2, <3>3
  <2>3. ASSUME NEW k \in EnvKeys, env_remove(k) PROVE Store!Next
    BY <1>2, <2>3, RemoveMaps DEF Store!Next
  <2>4. ASSUME NEW k \in EnvKeys, NEW v \in EnvValues, env_put(k, v) PROVE Store!Next
    <3>1. Put(k, v) /\ returned' = NoValue
      BY <2>4 DEF env_put
    <3>2. Told' = NoValue
      BY <3>1, PointersAssumption DEF Told
    <3> QED BY <1>2, <3>1, <3>2, PutMaps DEF Store!Next
  <2>5. ASSUME NEW t \in Texts, env_kvp_lines_add(t) PROVE UNCHANGED <<Mapping, Told>>
    BY <2>1, <2>5 DEF env_kvp_lines_add
  <2>6. CASE LineAdd
    <3>1. CASE Head(lines) = NoPair
      BY <2>1, <2>6, <3>1 DEF LineAdd
    <3>2. CASE Head(lines) # NoPair
      <4>1. lines \in Seq((EnvKeys \X EnvValues) \cup {NoPair}) /\ lines # <<>>
        BY <1>2, <2>6 DEF StoreInv, EnvTypeOK, LineAdd
      <4>2. Head(lines)[1] \in EnvKeys /\ Head(lines)[2] \in EnvValues
        BY <3>2, <4>1
      <4>3. Put(Head(lines)[1], Head(lines)[2]) /\ returned' = NoValue
        BY <2>6, <3>2 DEF LineAdd
      <4>4. Told' = NoValue
        BY <4>3, PointersAssumption DEF Told
      <4> QED BY <1>2, <4>2, <4>3, <4>4, PutMaps DEF Store!Next
    <3> QED BY <3>1, <3>2
  <2>7. CASE UNCHANGED envvars
    BY <2>1, <2>7 DEF envvars
  <2> QED BY <1>2, <2>2, <2>3, <2>4, <2>5, <2>6, <2>7 DEF EnvNext
<1> QED BY <1>1, <1>2, StoreInvariance, PTL DEF EnvSpec, ImplementsStore, Store!Spec
==============================================================================
