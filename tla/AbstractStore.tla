---------------------------- MODULE AbstractStore ----------------------------
(* What the environment promises (kern/env.c): a map of at most Max keys, in  *)
(* which a value goes to its key, a new key that has no room is dropped, and  *)
(* a removed key makes room for another.  A removal tells whether the key was  *)
(* there, and not what its value was.                                         *)
EXTENDS FiniteSets, Naturals

CONSTANTS Keys, Values, Null, Removed, Max

VARIABLES
    map,            \* the mappings, key -> value
    got             \* what the last call returned

Init == map = [k \in {} |-> Null] /\ got = Null

Put(k, v) ==
    /\ map' = IF k \notin DOMAIN map /\ Cardinality(DOMAIN map) >= Max THEN map
              ELSE [j \in DOMAIN map \cup {k} |-> IF j = k THEN v ELSE map[j]]
    /\ got' = Null

Get(k) ==
    /\ got' = IF k \in DOMAIN map THEN map[k] ELSE Null
    /\ UNCHANGED map

Remove(k) ==
    /\ map' = [j \in DOMAIN map \ {k} |-> map[j]]
    /\ got' = IF k \in DOMAIN map THEN Removed ELSE Null

Next == \E k \in Keys : Get(k) \/ Remove(k) \/ \E v \in Values : Put(k, v)

Spec == Init /\ [][Next]_<<map, got>>
==============================================================================
