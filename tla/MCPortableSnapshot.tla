------------------------- MODULE MCPortableSnapshot -------------------------
(* An instance of PortableSnapshot for TLC: two cores, two sections, and a     *)
(* restoring core that knows both sections or only the first.                  *)
EXTENDS PortableSnapshot

CONSTANTS c1, c2

\* Shard keys 1 to 4 for two keys, so that the bounds cut across the sections.
MCShardKey == [n \in Names |-> (IF n[1] = "jobs" THEN 0 ELSE 1) + 2 * n[2] - 1]
MCHome == [n \in Names |-> IF n[2] = 1 THEN c1 ELSE c2]
MCSections == <<"jobs", "queues">>
MCSectionLists == {MCSections, <<"jobs">>}
=============================================================================
