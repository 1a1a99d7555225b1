-------------------------- MODULE PrefixAssignment --------------------------
(***************************************************************************)
(* What honey/replica_prefix.go promises: every replica on a node has one  *)
(* prefix of its own, for good.  A prefix is recorded before anybody is    *)
(* told, is never 0, never changes and never belongs to two replicas; a    *)
(* restart of the node is nothing a caller can tell from no step at all.   *)
(***************************************************************************)
EXTENDS Naturals

CONSTANTS
    Ids,        \* replica ids
    MaxPrefix,  \* the largest prefix
    NoPrefix    \* the id has no prefix yet; no number

VARIABLES
    assigned,   \* the prefix of each id
    handed      \* the pairs <<id, prefix>> that callers were given

Prefixes == 1 .. MaxPrefix

Init == assigned = [i \in Ids |-> NoPrefix] /\ handed = {}

Assign(i, p) ==
    /\ assigned[i] = NoPrefix
    /\ \A j \in Ids : assigned[j] # p
    /\ assigned' = [assigned EXCEPT ![i] = p]
    /\ UNCHANGED handed

Hand(i) ==
    /\ assigned[i] # NoPrefix
    /\ handed' = handed \cup {<<i, assigned[i]>>}
    /\ UNCHANGED assigned

Next == \E i \in Ids : Hand(i) \/ \E p \in Prefixes : Assign(i, p)

Spec == Init /\ [][Next]_<<assigned, handed>>

\* No two replicas are ever given the same prefix, and none is given two: their
\* slices of the shared keyspace never overlap and never move.
HandedOneToOne ==
    \A g, h \in handed : g[1] = h[1] <=> g[2] = h[2]
=============================================================================
