----------------------------- MODULE Environment -----------------------------
(***************************************************************************)
(* The environment of kern/env.c: an array of items searched from the      *)
(* front, of which current have ever been used.  The text of an environment *)
(* file is a sequence of lines, each a key and a value or NoPair, a line   *)
(* without "="; env_kvp_lines_add puts one line in each step.              *)
(***************************************************************************)
EXTENDS Integers, Sequences, FiniteSets

CONSTANTS
    EnvKeys,        \* the strings used as keys
    EnvValues,      \* the pointers stored
    NoValue,        \* NULL, and a key that was never written
    EnvSize,        \* ENV_SIZE
    NoPair,         \* a line without "="
    Texts           \* what env_kvp_lines_add is called with

Slots == 0 .. EnvSize - 1

\* The address of an item: &env->items[i].
Pointer(i) == <<"item", i>>
Pointers == {Pointer(i) : i \in Slots}

ASSUME EnvSizeAssumption == EnvSize \in Nat
ASSUME EnvKeysAssumption == NoValue \notin EnvKeys \cup EnvValues
\* No value is the address of an item.
ASSUME PointersAssumption == (EnvValues \cup {NoValue}) \cap Pointers = {}
ASSUME TextsAssumption == Texts \subseteq Seq((EnvKeys \X EnvValues) \cup {NoPair})

VARIABLES
    items,          \* items of struct env
    current,        \* current of struct env: items in use or removed
    lines,          \* what env_kvp_lines_add has still to do
    returned        \* what the last call returned

envvars == <<items, current, lines, returned>>

Unused == [status |-> "none", key |-> NoValue, value |-> NoValue]

EnvTypeOK ==
    /\ items \in [Slots -> [status : {"none", "present", "empty"},
                            key : EnvKeys \cup {NoValue}, value : EnvValues \cup {NoValue}]]
    /\ current \in 0 .. EnvSize
    /\ lines \in Seq((EnvKeys \X EnvValues) \cup {NoPair})
    /\ returned \in EnvValues \cup {NoValue} \cup Pointers

\* env_init
EnvInit ==
    /\ items = [i \in Slots |-> Unused] /\ current = 0
    /\ lines = <<>> /\ returned = NoValue
------------------------------------------------------------------------------
\* Mutation: a removed item is found again.
Found_Removed(k) == {i \in 0 .. current - 1 : items[i].key = k}

\* The items env_index stops at; it takes the first.
Found(k) == {i \in 0 .. current - 1 : items[i].status = "present" /\ items[i].key = k}

First(S) == CHOOSE i \in S : \A j \in S : i <= j

Emptied == {i \in 0 .. current - 1 : items[i].status = "empty"}

Full == Emptied = {} /\ current >= EnvSize

\* env_first_free, of an environment that is not full.
FirstFree == IF Emptied # {} THEN First(Emptied) ELSE current

\* env_put: the key's item gets the value, or a free one the key and the value.
Put(k, v) ==
    IF Found(k) # {}
    THEN items' = [items EXCEPT ![First(Found(k))].value = v] /\ UNCHANGED current
    ELSE IF Full
    THEN UNCHANGED <<items, current>>
    ELSE /\ items' = [items EXCEPT ![FirstFree] = [status |-> "present", key |-> k, value |-> v]]
         /\ current' = IF Emptied # {} THEN current ELSE current + 1

env_put(k, v) ==
    /\ lines = <<>>
    /\ Put(k, v)
    /\ returned' = NoValue /\ UNCHANGED lines

\* The key and the value stay in the item, whose address is returned: "return item".
env_remove(k) ==
    /\ lines = <<>>
    /\ items' = IF Found(k) = {} THEN items
                ELSE [items EXCEPT ![First(Found(k))].status = "empty"]
    /\ returned' = IF Found(k) = {} THEN NoValue ELSE Pointer(First(Found(k)))
    /\ UNCHANGED <<current, lines>>

env_get(k) ==
    /\ lines = <<>>
    /\ returned' = IF Found(k) = {} THEN NoValue ELSE items[First(Found(k))].value
    /\ UNCHANGED <<items, current, lines>>

env_kvp_lines_add(text) ==
    /\ lines = <<>>
    /\ lines' = text
    /\ UNCHANGED <<items, current, returned>>

\* env_kvp_str_add of the next line; the first line without "=" ends it.
LineAdd ==
    /\ lines # <<>>
    /\ IF Head(lines) = NoPair
       THEN lines' = <<>> /\ UNCHANGED <<items, current, returned>>
       ELSE /\ Put(Head(lines)[1], Head(lines)[2])
            /\ lines' = Tail(lines) /\ returned' = NoValue

EnvNext ==
    \/ \E k \in EnvKeys : env_get(k) \/ env_remove(k) \/ \E v \in EnvValues : env_put(k, v)
    \/ \E t \in Texts : env_kvp_lines_add(t)
    \/ LineAdd

EnvSpec == EnvInit /\ [][EnvNext]_envvars
------------------------------------------------------------------------------
(***************************************************************************)
(* Properties.                                                             *)
(***************************************************************************)

Present == {i \in Slots : items[i].status = "present"}

\* No key is in two items: what env_remove takes out does not come back from another.
KeysOnce == \A i, j \in Present : items[i].key = items[j].key => i = j

Mapping == [k \in {items[i].key : i \in Present} |->
                items[CHOOSE i \in Present : items[i].key = k].value]

\* What a caller can tell from the result: a value, NULL, or that something was removed.
Told == IF returned \in Pointers THEN "removed" ELSE returned

\* The environment is a map that drops a new key only when it holds EnvSize others,
\* however often items were removed and used again, and a removal tells whether there
\* was anything to remove: it implements AbstractStore.
Store == INSTANCE AbstractStore
            WITH Keys <- EnvKeys, Values <- EnvValues, Null <- NoValue, Max <- EnvSize,
                 Removed <- "removed", map <- Mapping, got <- Told
ImplementsStore == Store!Spec
==============================================================================
