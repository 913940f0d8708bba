----------------------------- MODULE AbstractMap -----------------------------
(* What a hash table promises (kern/htbl.h): a get returns the value last put *)
(* under the key, and NULL under a key nothing was put under.                 *)
CONSTANTS Keys, Values, Null

VARIABLES
    map,            \* the mappings, key -> value
    got             \* what the last get returned

Init == map = [k \in {} |-> Null] /\ got = Null

Put(k, v) ==
    /\ map' = [j \in DOMAIN map \cup {k} |-> IF j = k THEN v ELSE map[j]]
    /\ UNCHANGED got

Get(k) ==
    /\ got' = IF k \in DOMAIN map THEN map[k] ELSE Null
    /\ UNCHANGED map

\* Destroyed, and created anew.
Clear == map' = [k \in {} |-> Null] /\ UNCHANGED got

Next ==
    \/ \E k \in Keys : Get(k) \/ \E v \in Values : Put(k, v)
    \/ Clear

Spec == Init /\ [][Next]_<<map, got>>
=============================================================================
