---------------------------- MODULE MCSharedStore ----------------------------
(* An instance of SharedStore for TLC: two replicas, whose ids extend one      *)
(* another, with tables of every encoding, two of them under one byte.         *)
EXTENDS SharedStore

MCReplicas == {<<1>>, <<1, 2>>}

Of(owner, byte, type) == [owner |-> owner, byte |-> byte, type |-> type]

Sorted == Of(<<1>>, 1, OneToManySortedIndex)
Messages == Of(<<1>>, 2, BinaryTable)
Numbers == Of(<<1, 2>>, 1, OneToManyUint64Index)
Counts == Of(<<1, 2>>, 3, Uint32Table)
Words == Of(<<1, 2>>, 4, SortedIndex)

MCLayout == {Sorted, Messages, Numbers, Counts, Words}

\* Items that extend one another; numbers whose bytes compare otherwise from the end.
MCKeys ==
    (Sorted :> {<<1, 1>>, <<1, 2>>}) @@ (Messages :> {<<1>>, <<1, 2>>})
    @@ (Numbers :> {<<0, 0>>}) @@ (Counts :> {<<1>>}) @@ (Words :> {<<>>})

MCValues ==
    (Sorted :> {<<1>>, <<1, 2>>, <<2>>}) @@ (Messages :> {"m"}) @@ (Numbers :> {255, 256})
    @@ (Counts :> {65536}) @@ (Words :> {<<1>>})

MCMarshal == "m" :> <<7>>
=============================================================================
