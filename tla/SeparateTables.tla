--------------------------- MODULE SeparateTables ---------------------------
(***************************************************************************)
(* What the replicas of a node expect of the store they share, from        *)
(* honey/tables.go and honey/replica_prefix.go: each table is a store of   *)
(* its own.  A table of values has one value for a key, an index any       *)
(* number of items, and what is done to one table is seen in no other.     *)
(***************************************************************************)
CONSTANTS
    Layout,     \* the tables of all the replicas
    OneToMany,  \* those that are indexes
    Keys,       \* the keys of each table
    Values      \* the values, or items, of each table

VARIABLE entries  \* the pairs <<key, value>> in each table

Init == entries = [t \in Layout |-> {}]

\* The entries that an entry does not replace.
Others(t, k, v) ==
    IF t \in OneToMany THEN entries[t] \ {<<k, v>>}
                       ELSE {e \in entries[t] : e[1] # k}

Put(t, k, v) == entries'[t] = Others(t, k, v) \cup {<<k, v>>}

Erase(t, k, v) == entries'[t] = Others(t, k, v)

Clear(t) == entries'[t] = {}

Next ==
    \E t \in Layout :
        /\ \A u \in Layout \ {t} : entries'[u] = entries[u]
        /\ \/ Clear(t)
           \/ \E k \in Keys[t], v \in Values[t] : Put(t, k, v) \/ Erase(t, k, v)

Spec == Init /\ [][Next]_entries
=============================================================================
