------------------------------ MODULE MCCache ------------------------------
(* Small instances of Cache for TLC. *)
EXTENDS Cache, TLC

\* fmt.Sprint tells the keys apart.
MCSprint == [k \in Keys |-> k]

\* fmt.Sprint gives every key the same text, as it does for the keys any(1)
\* and any("1") of a Cache[any, V].
MCSprintCollides == [k \in Keys |-> CHOOSE f \in Flights : TRUE]

MCSymmetry == Permutations(Callers)
=============================================================================
