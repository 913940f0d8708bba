---------------------------- MODULE AbstractConfig ----------------------------
(***************************************************************************)
(* What the configuration keeps of the promises of kern/config.h: a typed  *)
(* get returns the value last set under the key if it was set with that    *)
(* type, and NULL or zero if not; nothing is deleted but with the whole    *)
(* namespace.  A call with a namespace that is not there, and no other,    *)
(* stops the system; for a get, config.h promises NULL or zero instead.    *)
(***************************************************************************)
CONSTANTS
    Namespaces,
    Entries,        \* what a key can be set to: <<type, value>>
    Types

VARIABLES
    conf,           \* <<namespace, key>> -> entry
    known,          \* the namespaces there are
    got,            \* what the last get returned, <<>> for NULL and for zero
    stopped

vars == <<conf, known, got, stopped>>

None == <<>>

Init == conf = [k \in {} |-> None] /\ known = {} /\ got = None /\ stopped = FALSE

\* A namespace that is there already begins anew.
NewNamespace(ns) ==
    /\ known' = known \cup {ns}
    /\ conf' = [k \in {j \in DOMAIN conf : j[1] # ns} |-> conf[k]]
    /\ got' = None /\ UNCHANGED stopped

Set(k, e) ==
    /\ k[1] \in known
    /\ conf' = [j \in DOMAIN conf \cup {k} |-> IF j = k THEN e ELSE conf[j]]
    /\ got' = None /\ UNCHANGED <<known, stopped>>

Get(k, type) ==
    /\ got' = IF conf[k][1] = type THEN conf[k] ELSE None
    /\ UNCHANGED <<conf, known, stopped>>

TypeOf(k) ==
    /\ got' = <<"type", conf[k][1]>>
    /\ UNCHANGED <<conf, known, stopped>>

\* Any get with a key that is not there, of a namespace that is.
Absent ==
    /\ known # {}
    /\ got' = None /\ UNCHANGED <<conf, known, stopped>>

\* Any call with a namespace that is not there.
Stop(ns) ==
    /\ ns \notin known
    /\ stopped' = TRUE /\ UNCHANGED <<conf, known, got>>

Next ==
    /\ ~stopped
    /\ \/ \E ns \in Namespaces : NewNamespace(ns) \/ Stop(ns)
       \/ \E k \in DOMAIN conf' : conf'[k] \in Entries /\ Set(k, conf'[k])
       \/ \E k \in DOMAIN conf : TypeOf(k) \/ \E type \in Types : Get(k, type)
       \/ Absent

Spec == Init /\ [][Next]_vars
===============================================================================
