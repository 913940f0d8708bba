-------------------------------- MODULE Config --------------------------------
(***************************************************************************)
(* The configuration of kern/config.c: a hash table of namespaces, each a  *)
(* hash table from keys to values.  A value is a type and a union: a       *)
(* number, a pointer to anything, or a string on the heap, which is the    *)
(* number of its place in texts, so that a place that was freed is used    *)
(* again.  The tables are maps (HashTable implements AbstractMap).         *)
(***************************************************************************)
EXTENDS FiniteSets, Strings

CONSTANTS
    Namespaces,     \* what config_newns may be called with
    ConfKeys,       \* keys within a namespace
    Texts,          \* what strings say, sequences of characters
    Numbers,        \* ints, and addresses of objects
    MaxTexts        \* bound: strings on the heap at once

ASSUME ConfAssumption == Texts \subseteq Seq(STRING) /\ MaxTexts \in Nat

Types == {"int", "str", "obj"}

VARIABLES
    namespaces,     \* namespace -> key -> [type, val]
    texts,          \* the heap's strings: place -> text
    confGot,        \* what the last get returned: a type and a value, or None
    confStopped     \* an ASSERT of the hash table failed

confvars == <<namespaces, texts, confGot, confStopped>>

None == <<>>
Nothing == [x \in {} |-> None]

\* config_init
ConfInit == namespaces = Nothing /\ texts = Nothing /\ confGot = None /\ confStopped = FALSE
-------------------------------------------------------------------------------
\* A call with a namespace that does not exist: htbl_get gets no table and stops in its ASSERT.
NoTable(ns) ==
    /\ ns \notin DOMAIN namespaces
    /\ confStopped' = TRUE /\ UNCHANGED <<namespaces, texts, confGot>>

Has(ns, key) == key \in DOMAIN namespaces[ns]

\* config_set_common of a new value; the struct of an old one stays on the heap unused.
SetCommon(ns, key, type, val) ==
    namespaces' = [namespaces EXCEPT ![ns] = [k \in DOMAIN @ \cup {key} |->
                       IF k = key THEN [type |-> type, val |-> val] ELSE @[k]]]

\* A second call puts an empty table over the first, whose strings stay on the heap unused.
config_newns(ns) ==
    /\ namespaces' = [n \in DOMAIN namespaces \cup {ns} |-> IF n = ns THEN Nothing ELSE namespaces[n]]
    /\ confGot' = None /\ UNCHANGED <<texts, confStopped>>

\* Mutation: whatever the key held is taken for a string.
OldText_AnyType(ns, key) == IF Has(ns, key) THEN {namespaces[ns][key].val} ELSE {}

\* The string config_setstrns frees: the key's, if it holds one.
OldText(ns, key) ==
    IF Has(ns, key) /\ namespaces[ns][key].type = "str" THEN {namespaces[ns][key].val} ELSE {}

\* Where strdup puts a string.
Place(used) == CHOOSE p \in 1 .. MaxTexts \ used : \A q \in 1 .. MaxTexts \ used : p <= q

\* config_setstrns, with room on the heap.
SetText(ns, key, text) ==
    LET kept == DOMAIN texts \ OldText(ns, key) IN
    /\ Cardinality(kept) < MaxTexts
    /\ texts' = [p \in kept \cup {Place(kept)} |-> IF p = Place(kept) THEN text ELSE texts[p]]
    /\ SetCommon(ns, key, "str", Place(kept))
    /\ confGot' = None /\ UNCHANGED confStopped

config_setstrns(ns, key, text) == NoTable(ns) \/ (ns \in DOMAIN namespaces /\ SetText(ns, key, text))

SetNumber(ns, key, type, n) ==
    \/ NoTable(ns)
    \/ /\ ns \in DOMAIN namespaces
       /\ SetCommon(ns, key, type, n)
       /\ confGot' = None /\ UNCHANGED <<texts, confStopped>>

\* A string the key held before stays on the heap, unreachable.
config_setobjns(ns, key, n) == SetNumber(ns, key, "obj", n)
config_setintns(ns, key, n) == SetNumber(ns, key, "int", n)

\* What a value says: a string is read where its pointer points, be it freed or not.
Said(value) ==
    IF value.type # "str" THEN <<value.type, value.val>>
    ELSE IF value.val \in DOMAIN texts THEN <<"str", texts[value.val]>>
    ELSE <<"str", "freed">>

HasTyped(ns, key, type) == Has(ns, key) /\ namespaces[ns][key].type = type

\* config_getstrns, config_getobjns and config_getintns.
config_getns(ns, key, type) ==
    \/ NoTable(ns)
    \/ /\ ns \in DOMAIN namespaces
       /\ confGot' = IF HasTyped(ns, key, type) THEN <<type, Said(namespaces[ns][key])[2]>> ELSE None
       /\ UNCHANGED <<namespaces, texts, confStopped>>

\* config_gettypens; config_existsns tells its 0 from the others.
config_gettypens(ns, key) ==
    \/ NoTable(ns)
    \/ /\ ns \in DOMAIN namespaces
       /\ confGot' = IF Has(ns, key) THEN <<"type", namespaces[ns][key].type>> ELSE None
       /\ UNCHANGED <<namespaces, texts, confStopped>>

\* config_parse_key, of a path that has a ":".
Namespace(path) == SubSeq(path, 1, strchr(path, ":") - 1)
Key(path) == SubSeq(path, strchr(path, ":") + 1, Len(path))

\* config_setstr, and the functions that take a path: without ":" they return at once.
config_setstr(path, text) ==
    IF strchr(path, ":") = 0 THEN UNCHANGED confvars
    ELSE config_setstrns(Namespace(path), Key(path), text)

config_gettype(path) ==
    IF strchr(path, ":") = 0 THEN confGot' = None /\ UNCHANGED <<namespaces, texts, confStopped>>
    ELSE config_gettypens(Namespace(path), Key(path))

ConfNext ==
    /\ ~confStopped
    /\ \/ \E ns \in Namespaces : config_newns(ns)
       \/ \E ns \in Namespaces, key \in ConfKeys :
            \/ \E t \in Texts : config_setstrns(ns, key, t)
            \/ \E n \in Numbers : config_setobjns(ns, key, n) \/ config_setintns(ns, key, n)
            \/ \E type \in Types : config_getns(ns, key, type)
            \/ config_gettypens(ns, key)

ConfSpec == ConfInit /\ [][ConfNext]_confvars
-------------------------------------------------------------------------------
(***************************************************************************)
(* Properties.                                                             *)
(***************************************************************************)

\* The entries of all namespaces.
Entry == [k \in UNION {{ns} \X DOMAIN namespaces[ns] : ns \in DOMAIN namespaces} |->
              Said(namespaces[k[1]][k[2]])]

\* Freeing the string of an overwritten key and using its place again never shows in
\* another key, no get takes a value for one of another type, and the system is stopped by a
\* call with a namespace that is not there and by no other: the configuration implements
\* AbstractConfig.
Promised == INSTANCE AbstractConfig
                WITH conf <- Entry, known <- DOMAIN namespaces, got <- confGot, stopped <- confStopped,
                     Entries <- ({"int", "obj"} \X Numbers) \cup ({"str"} \X Seq(STRING))
ImplementsConfig == Promised!Spec
===============================================================================
