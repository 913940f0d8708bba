----------------------------- MODULE MCStructures -----------------------------
(***************************************************************************)
(* The allocator and the kernel's four data structures, which see of it    *)
(* that blocks are theirs alone: a heap of up to three blocks, a list over *)
(* a few addresses, so that freed nodes are soon reused, a ring of four    *)
(* cells, an environment of three items and a hash table of two to         *)
(* sixteen; and the conversions of numbers.  part says which one runs; the *)
(* others stay as they began.                                              *)
(***************************************************************************)
EXTENDS Alloc, LinkedList, RingBuffer, Environment, MCHashTable, Numbers

CONSTANTS d1, d2, d3, e1, e2, e3, e4, w1, w2

VARIABLE part

MCData == {d1, d2, d3}
MCEnvKeys == {e1, e2, e3, e4}
MCEnvValues == {w1, w2}
MCTexts == {<<<<e1, w1>>, <<e2, w2>>, <<e1, w2>>>>, <<<<e3, w1>>, NoPair, <<e4, w1>>>>}

Symmetry == Permutations(Nodes)

structvars == <<part, vars, listvars, ringvars, envvars, htblvars, numvars>>

MCInit ==
    /\ part \in {"heap", "list", "ring", "env", "htbl", "numbers"}
    /\ Init /\ ListInit /\ RingInit /\ EnvInit /\ HtblInit /\ NumInit

HeapPart == part = "heap" /\ Next /\ UNCHANGED <<part, listvars, ringvars, envvars, htblvars, numvars>>
ListPart == part = "list" /\ ListNext /\ UNCHANGED <<part, vars, ringvars, envvars, htblvars, numvars>>
RingPart == part = "ring" /\ RingNext /\ UNCHANGED <<part, vars, listvars, envvars, htblvars, numvars>>
EnvPart == part = "env" /\ EnvNext /\ UNCHANGED <<part, vars, listvars, ringvars, htblvars, numvars>>
HtblPart == part = "htbl" /\ HtblNext /\ UNCHANGED <<part, vars, listvars, ringvars, envvars, numvars>>
NumbersPart ==
    part = "numbers" /\ NumNext /\ UNCHANGED <<part, vars, listvars, ringvars, envvars, htblvars>>

MCNext == HeapPart \/ ListPart \/ RingPart \/ EnvPart \/ HtblPart \/ NumbersPart

MCSpec == MCInit /\ [][MCNext]_structvars
===============================================================================
