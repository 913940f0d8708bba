------------------------------ MODULE RingBuffer ------------------------------
(***************************************************************************)
(* The ring buffer of kern/buffer.c: an array with a head to write at, a   *)
(* tail to read from, and a flag that tells a full buffer from an empty    *)
(* one.  ringbuffer_get_obj and ringbuffer_put_obj are their calls of      *)
(* ringbuffer_get and ringbuffer_put, one after the other.                 *)
(***************************************************************************)
EXTENDS Integers, Sequences

CONSTANTS
    RingData,       \* the elements
    Size,           \* max_size
    Nothing         \* the array before it is written, no element got

ASSUME SizeAssumption == Size \in Nat \ {0}
ASSUME DataAssumption == Nothing \notin RingData

VARIABLES
    buffer, head, tail, full,       \* struct ringbuffer
    ringGot,                            \* what the last ringbuffer_get returned
    ringPanicked                        \* an ASSERT failed

ringvars == <<buffer, head, tail, full, ringGot, ringPanicked>>

RingCells == 0 .. Size - 1

RingTypeOK ==
    /\ buffer \in [RingCells -> RingData \cup {Nothing}]
    /\ head \in RingCells /\ tail \in RingCells
    /\ full \in BOOLEAN /\ ringPanicked \in BOOLEAN
    /\ ringGot \in RingData \cup {Nothing}

\* ringbuffer_init
RingInit ==
    /\ buffer = [i \in RingCells |-> Nothing]
    /\ head = 0 /\ tail = 0 /\ full = FALSE
    /\ ringGot = Nothing /\ ringPanicked = FALSE

Empty == head = tail /\ ~full

Behind(i) == (i + 1) % Size

ringbuffer_reset ==
    /\ ~ringPanicked
    /\ head' = 0 /\ tail' = 0 /\ full' = FALSE
    /\ UNCHANGED <<buffer, ringGot, ringPanicked>>

\* Mutation: a full buffer keeps its oldest element.
TailAfterPut_Kept == tail

\* increment_ptr drops the oldest element of a full buffer.
TailAfterPut == IF full THEN Behind(tail) ELSE tail

FullAfterPut == Behind(head) = TailAfterPut

ringbuffer_put(d) ==
    /\ ~ringPanicked
    /\ buffer' = [buffer EXCEPT ![head] = d]
    /\ tail' = TailAfterPut /\ head' = Behind(head) /\ full' = FullAfterPut
    /\ UNCHANGED <<ringGot, ringPanicked>>

\* decrement_ptr
FullAfterGet == FALSE

ringbuffer_get ==
    /\ ~ringPanicked
    /\ IF Empty
       THEN ringPanicked' = TRUE /\ UNCHANGED <<buffer, head, tail, full, ringGot>>
       ELSE /\ ringGot' = buffer[tail]
            /\ full' = FullAfterGet /\ tail' = Behind(tail)
            /\ UNCHANGED <<buffer, head, ringPanicked>>

RingNext == ringbuffer_reset \/ ringbuffer_get \/ \E d \in RingData : ringbuffer_put(d)

RingSpec == RingInit /\ [][RingNext]_ringvars
----------------------------------------------------------------------------
(***************************************************************************)
(* Properties.                                                             *)
(***************************************************************************)

\* How many elements there are.
Count == IF full THEN Size ELSE IF head >= tail THEN head - tail ELSE head + Size - tail

\* The elements, oldest first.
Elements == [i \in 1 .. Count |-> buffer[(tail + i - 1) % Size]]

\* The flag is set only when head has caught up with tail, so that a full buffer is
\* never taken for one with elements missing.
FullMeansMet == full => head = tail

\* Memory from before the first put, or from elements got long ago, is never
\* returned: ringbuffer_get returns what a queue of the last Size elements would.
Queue == INSTANCE AbstractQueue
            WITH Data <- RingData, queue <- Elements, got <- ringGot
ImplementsQueue == Queue!Spec
=============================================================================
