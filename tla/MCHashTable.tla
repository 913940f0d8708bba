----------------------------- MODULE MCHashTable -----------------------------
EXTENDS HashTable, TLC

CONSTANTS k1, k2, k3, k4, v1, v2

MCKeys == {k1, k2, k3, k4}
MCValues == {v1, v2}

\* Keys that collide at every capacity, only at small ones, and at the last cell.
MCHash == (k1 :> 3) @@ (k2 :> 11) @@ (k3 :> 7) @@ (k4 :> 0)
==============================================================================
