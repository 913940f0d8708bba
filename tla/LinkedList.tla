----------------------------- MODULE LinkedList -----------------------------
(***************************************************************************)
(* The kernel's doubly linked list, kern/list.c, at the level of its       *)
(* pointers: two sentinels inside struct list and nodes from kalloc.  The  *)
(* driver manager and the module loader run their callbacks inside         *)
(* LIST_FOREACH, and those callbacks append to and remove from the list    *)
(* being walked; one such loop is modelled with its cursor.                *)
(*                                                                         *)
(* order is a ghost: the nodes the list should hold, in order.  pending is *)
(* a ghost of the loop: the nodes it still owes a visit.                   *)
(***************************************************************************)
EXTENDS SequencesExt

CONSTANTS
    Nodes,          \* the addresses kalloc may give to a node
    HeadCell, TailCell,    \* &list->head and &list->tail
    Null            \* NULL

ASSUME SentinelAssumption ==
    /\ HeadCell \notin Nodes /\ TailCell \notin Nodes /\ Null \notin Nodes
    /\ HeadCell # TailCell /\ HeadCell # Null /\ TailCell # Null

Cells == Nodes \cup {HeadCell, TailCell}
Links == Cells \cup {Null}

VARIABLES
    next,           \* the next field of every cell, freed nodes included
    prev,           \* the prev field
    order,          \* ghost: the nodes of the list, first to last
    cursor,         \* i of the LIST_FOREACH under way, or Null
    pending,        \* ghost: the nodes that loop has yet to visit
    assertFailed    \* an ASSERT failed

listvars == <<next, prev, order, cursor, pending, assertFailed>>

Linked == ToSet(order)

ListTypeOK ==
    /\ next \in [Cells -> Links]
    /\ prev \in [Cells -> Links]
    /\ order \in Seq(Nodes)
    /\ cursor \in Nodes \cup {Null}
    /\ pending \subseteq Nodes
    /\ assertFailed \in BOOLEAN
------------------------------------------------------------------------------
(* list_init.  The fields of nodes not yet allocated are never read. *)
ListInit ==
    /\ next = [c \in Cells |-> Null]
    /\ prev = [c \in Cells |-> Null]
    /\ order = <<>>
    /\ cursor = Null
    /\ pending = {}
    /\ assertFailed = FALSE

\* A loop under way will also reach what is appended behind it.
Owed(n) == IF cursor = Null THEN pending ELSE pending \cup {n}

\* list_append behind the last node, or behind the head of an emptied list.
AppendAfterLast(n) ==
    /\ next' = [next EXCEPT ![prev[TailCell]] = n, ![n] = TailCell]
    /\ prev' = [prev EXCEPT ![TailCell] = n, ![n] = prev[TailCell]]

\* list_append to a list that never held a node.
AppendFirst(n) ==
    /\ next' = [next EXCEPT ![HeadCell] = n, ![n] = TailCell]
    /\ prev' = [prev EXCEPT ![TailCell] = n, ![n] = HeadCell]

\* ASSERT(!list->head.next) on the way to AppendFirst.
AssertFails == prev[TailCell] = Null /\ next[HeadCell] # Null

\* list_append of list_node(...): kalloc never returns a node still in use.
list_append(n) ==
    /\ n \in Nodes \ Linked
    /\ IF AssertFails
       THEN assertFailed' = TRUE /\ UNCHANGED <<next, prev, order, cursor, pending>>
       ELSE /\ IF prev[TailCell] # Null THEN AppendAfterLast(n) ELSE AppendFirst(n)
            /\ order' = Append(order, n)
            /\ pending' = Owed(n)
            /\ UNCHANGED <<cursor, assertFailed>>

\* Mutation: only one of the two neighbours is relinked.
Unlink_Forward(n) ==
    /\ next' = [next EXCEPT ![prev[n]] = next[n]]
    /\ UNCHANGED prev

\* The two neighbours of n skip it; n keeps its fields and is freed.
Unlink(n) ==
    /\ next' = [next EXCEPT ![prev[n]] = next[n]]
    /\ prev' = [prev EXCEPT ![next[n]] = prev[n]]

Position(n) == CHOOSE i \in DOMAIN order : order[i] = n

\* list_remove.  A loop may remove the node it stands on only if it returns at
\* once, as device_deregister and driver_deregister do.
list_remove(n) ==
    /\ n \in Linked
    /\ Unlink(n)
    /\ order' = RemoveAt(order, Position(n))
    /\ IF n = cursor
       THEN cursor' = Null /\ pending' = {}
       ELSE pending' = pending \ {n} /\ UNCHANGED cursor
    /\ UNCHANGED assertFailed

\* Mutation: the loop stops a node early.
Visits_NotLast(i) == i # Null /\ next[i] # Null /\ next[i] # TailCell

\* LIST_FOREACH: the body runs for i as long as i && list_next(i).
Visits(i) == i # Null /\ next[i] # Null

\* The loop goes to i, or ends there.
Goto(i, owed) ==
    IF Visits(i)
    THEN cursor' = i /\ pending' = owed \ {i}
    ELSE cursor' = Null /\ pending' = owed

ForeachBegin ==
    /\ cursor = Null
    /\ Goto(next[HeadCell], Linked)
    /\ UNCHANGED <<next, prev, order, assertFailed>>

ForeachStep ==
    /\ cursor # Null
    /\ Goto(next[cursor], pending)
    /\ UNCHANGED <<next, prev, order, assertFailed>>

ListNext ==
    /\ ~assertFailed
    /\ \/ \E n \in Nodes : list_append(n) \/ list_remove(n)
       \/ ForeachBegin
       \/ ForeachStep

ListSpec == ListInit /\ [][ListNext]_listvars
------------------------------------------------------------------------------
(***************************************************************************)
(* Properties.                                                             *)
(***************************************************************************)

\* The cells of the list in order, sentinels included: At(0) to At(Len + 1).
At(i) ==
    IF i = 0 THEN HeadCell
    ELSE IF i = Len(order) + 1 THEN TailCell
    ELSE order[i]

\* Following next from the head and prev from the tail visits exactly the nodes
\* appended and not removed, in the order of their list_append, whatever was
\* removed in between and whichever freed nodes were reused.
LinksMatchOrder ==
    /\ \A i, j \in DOMAIN order : order[i] = order[j] => i = j
    /\ next[TailCell] = Null
    /\ \/ order = <<>> /\ next[HeadCell] = Null /\ prev[TailCell] = Null
       \/ \A i \in 0 .. Len(order) :
            next[At(i)] = At(i + 1) /\ prev[At(i + 1)] = At(i)

\* The assertion of list_append ("Expected empty list") never fails, not even on
\* a list emptied by list_remove, whose sentinels then point at each other.
AppendNeverPanics == ~assertFailed

\* A LIST_FOREACH whose body appends to the list and removes other nodes of it
\* stands on a node of the list, and owes a visit to just the nodes behind it.
PendingAhead ==
    cursor # Null =>
        \E i \in DOMAIN order :
            /\ order[i] = cursor
            /\ pending = {order[j] : j \in i + 1 .. Len(order)}

\* When the loop is over, every node that was in the list at its start or was
\* appended meanwhile, and was not removed, has been visited.
ForeachComplete == cursor = Null => pending = {}
==============================================================================
