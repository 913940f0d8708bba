------------------------------ MODULE HashTable ------------------------------
(***************************************************************************)
(* The hash table of kern/htbl.c: open addressing with linear probing, in  *)
(* an array that doubles when half of it is in use.                        *)
(*                                                                         *)
(* A call is one step, except htbl_put when it expands the table: then the *)
(* loop of htbl_expand over the old entries goes step by step, each step a *)
(* put into the table being built.                                         *)
(***************************************************************************)
EXTENDS Integers, FiniteSets

CONSTANTS
    Keys,           \* the strings used as keys
    Values,         \* the pointers stored, NULL not among them
    None,           \* no key, no value: NULL
    Hash,           \* fnv1a32_hash
    Initial,        \* HTBL_INITIAL_CAPACITY
    MaxLeaked       \* bound: so many strings may be lost with destroyed tables

ASSUME KeysAssumption == None \notin Keys \cup Values /\ IsFiniteSet(Keys)
ASSUME HashAssumption == Hash \in [Keys -> Nat]
ASSUME InitialAssumption == Initial \in Nat \ {0} /\ \E n \in 0 .. 31 : Initial = 2 ^ n
ASSUME LeakedAssumption == MaxLeaked \in Nat

VARIABLES
    table,          \* the table, or NoTable before htbl_create
    fresh,          \* temp_tbl of htbl_expand
    at,             \* i of htbl_expand
    arg,            \* the mapping htbl_put was called with
    pc,             \* what is going on
    htblGot,            \* what the last htbl_get returned
    strings         \* ghost: how many strings strdup has made and nobody freed

htblvars == <<table, fresh, at, arg, pc, htblGot, strings>>

Entry == [key : Keys \cup {None}, value : Values \cup {None}]
Free == [key |-> None, value |-> None]

HtblCells(t) == 0 .. t.capacity - 1
IsTable(t) ==
    /\ t = [capacity |-> t.capacity, length |-> t.length, entries |-> t.entries]
    /\ t.capacity \in Nat /\ t.length \in Nat
    /\ t.entries \in [HtblCells(t) -> Entry]

\* A table without entries: kallocz.
Zeroed(c) == [capacity |-> c, length |-> 0, entries |-> [i \in 0 .. c - 1 |-> Free]]
NoTable == Zeroed(0)
InUse(t) == {i \in HtblCells(t) : t.entries[i].key # None}

\* "none" before the table exists; "ready" between calls; "expand" and "put" in
\* htbl_put; "looping" in a search without end; "nested" when the table being
\* built is itself expanded, and its entries freed under htbl_expand.
Places == {"none", "ready", "expand", "put", "looping", "nested"}

HtblTypeOK ==
    /\ IsTable(table) /\ IsTable(fresh)
    /\ at \in Nat
    /\ arg \in Entry
    /\ pc \in Places
    /\ htblGot \in Values \cup {None}
    /\ strings \in Nat

HtblInit ==
    /\ table = NoTable /\ fresh = NoTable /\ at = 0
    /\ arg = Free /\ pc = "none" /\ htblGot = None /\ strings = 0
----------------------------------------------------------------------------
(* The search of htbl_get and htbl_put. *)

\* hash & (capacity - 1), capacity being a power of two.
Index(t, k) == Hash[k] % t.capacity

\* The d-th cell looked at: "if we reach the end, wrap around".
Probe(t, k, d) ==
    LET i == Index(t, k) + d
    IN  IF i < t.capacity THEN i ELSE i - t.capacity

\* The search looks at the d-th cell without stopping before it.
Reaches(t, k, d) ==
    \A e \in 0 .. d - 1 : t.entries[Probe(t, k, e)].key \notin {k, None}

\* Where the search stops: with the key, or at a free cell.
Stops(t, k) ==
    {d \in HtblCells(t) : Reaches(t, k, d) /\ t.entries[Probe(t, k, d)].key \in {k, None}}

\* Without such a cell it never ends.
Ends(t, k) == Stops(t, k) # {}
Slot(t, k) == Probe(t, k, CHOOSE d \in Stops(t, k) : TRUE)

IsNew(t, k) == t.entries[Slot(t, k)].key = None

\* What htbl_get returns: NULL when the search stops at a free cell.
Lookup(t, k) == IF IsNew(t, k) THEN None ELSE t.entries[Slot(t, k)].value

\* The table with the mapping, and the key's copy if it is new.
Mapped(t, k, v) ==
    [t EXCEPT !.entries[Slot(t, k)] = [key |-> k, value |-> v],
              !.length = IF IsNew(t, k) THEN @ + 1 ELSE @]

\* Mutation: the table expands only when it is full.
Crowded_Full(t) == t.length >= t.capacity

\* length >= capacity / 2
Crowded(t) == t.length >= t.capacity \div 2
----------------------------------------------------------------------------
(* The calls. *)

htbl_create ==
    /\ pc = "none"
    /\ table' = Zeroed(Initial) /\ pc' = "ready"
    /\ UNCHANGED <<fresh, at, arg, htblGot, strings>>

\* Frees the keys in the table.
htbl_destroy ==
    /\ pc = "ready"
    /\ table' = NoTable /\ pc' = "none"
    /\ strings' = strings - Cardinality(InUse(table)) /\ strings' <= MaxLeaked
    /\ UNCHANGED <<fresh, at, arg, htblGot>>

htbl_get(k) ==
    /\ pc = "ready"
    /\ IF Ends(table, k)
       THEN htblGot' = Lookup(table, k) /\ UNCHANGED pc
       ELSE pc' = "looping" /\ UNCHANGED htblGot
    /\ UNCHANGED <<table, fresh, at, arg, strings>>

\* htbl_put, up to the expansion.
htbl_put(k, v) ==
    /\ pc = "ready"
    /\ arg' = [key |-> k, value |-> v]
    /\ IF Crowded(table)
       THEN /\ pc' = "expand" /\ at' = 0
            /\ fresh' = Zeroed(2 * table.capacity)
       ELSE pc' = "put" /\ UNCHANGED <<at, fresh>>
    /\ UNCHANGED <<table, htblGot, strings>>

\* htbl_put, from the expansion on.
PutEntry ==
    /\ pc = "put"
    /\ IF Ends(table, arg.key)
       THEN /\ table' = Mapped(table, arg.key, arg.value)
            /\ strings' = IF IsNew(table, arg.key) THEN strings + 1 ELSE strings
            /\ pc' = "ready" /\ arg' = Free
       ELSE pc' = "looping" /\ UNCHANGED <<table, strings, arg>>
    /\ UNCHANGED <<fresh, at, htblGot>>

\* Mutation: the entry keeps its place in the array.
Moved_InPlace(e) == [fresh EXCEPT !.entries[at] = e, !.length = @ + 1]

\* htbl_put(&temp_tbl, entry.key, entry.value)
Moved(e) == Mapped(fresh, e.key, e.value)

\* htbl_expand's loop: the old entries are put into the table being built, which
\* makes a second copy of each key.
ExpandStep ==
    /\ pc = "expand" /\ at < table.capacity
    /\ LET e == table.entries[at]
       IN  IF e.key = None
           THEN at' = at + 1 /\ UNCHANGED <<fresh, pc, strings>>
           ELSE IF Crowded(fresh)
           THEN pc' = "nested" /\ UNCHANGED <<fresh, at, strings>>
           ELSE IF ~Ends(fresh, e.key)
           THEN pc' = "looping" /\ UNCHANGED <<fresh, at, strings>>
           ELSE /\ fresh' = Moved(e)
                /\ strings' = strings + 1
                /\ at' = at + 1 /\ UNCHANGED pc
    /\ UNCHANGED <<table, arg, htblGot>>

\* The old entries are freed, their keys are not; length is the table's own.
ExpandEnd ==
    /\ pc = "expand" /\ at = table.capacity
    /\ table' = [fresh EXCEPT !.length = table.length]
    /\ fresh' = NoTable /\ at' = 0
    /\ pc' = "put"
    /\ UNCHANGED <<arg, htblGot, strings>>

Steps == PutEntry \/ ExpandStep \/ ExpandEnd

HtblNext ==
    \/ htbl_create
    \/ htbl_destroy
    \/ \E k \in Keys : htbl_get(k) \/ \E v \in Values : htbl_put(k, v)
    \/ Steps

HtblSpec == HtblInit /\ [][HtblNext]_htblvars
----------------------------------------------------------------------------
(***************************************************************************)
(* Properties.                                                             *)
(***************************************************************************)

\* The keys of a table.
KeysOf(t) == {t.entries[i].key : i \in InUse(t)}

\* The key in each cell is found there: the search for it meets neither a free
\* cell nor another copy of it before.
Searchable(t) ==
    \A i \in InUse(t) :
        LET k == t.entries[i].key IN Ends(t, k) /\ Slot(t, k) = i

\* htbl_get and htbl_put find every key of the table, and so do the puts into the
\* table htbl_expand builds.
ProbesReach == Searchable(table) /\ (pc = "expand" => Searchable(fresh))

\* length, which decides when to expand, counts the entries.
LengthCounts == table.length = Cardinality(InUse(table))

\* "Not all entries are full": no search goes round for ever, and the table
\* htbl_expand builds is never expanded in turn.
SearchesEnd == pc \notin {"looping", "nested"}

\* While htbl_expand runs, the table it builds has the mappings of the cells it has
\* been over, and no others.
CopyInStep ==
    pc = "expand" =>
        {fresh.entries[i] : i \in InUse(fresh)} =
            {table.entries[i] : i \in {j \in InUse(table) : j < at}}

\* The mappings of a table.
Mappings(t) ==
    [k \in KeysOf(t) |-> t.entries[CHOOSE i \in InUse(t) : t.entries[i].key = k].value]

\* The table is a map, through any expansion: it implements AbstractMap.
Map == INSTANCE AbstractMap WITH map <- Mappings(table), Null <- None, got <- htblGot
ImplementsMap == Map!Spec

\* htbl_destroy: "free all the keys (which we duplicated, so they're our problem)".
KeysFreed == pc = "none" => strings = 0
=============================================================================
