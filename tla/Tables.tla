------------------------------- MODULE Tables -------------------------------
(***************************************************************************)
(* honey/tables.go: table, the range of the full keys that begin with its  *)
(* id, on an ordered key-value store that it shares with other tables.     *)
(* Keys and values are sequences of bytes; keys are ordered as bytes are.  *)
(***************************************************************************)
EXTENDS Integers, FiniteSetsExt, SequencesExt

CONSTANTS
    NoToken,  \* a nil *PaginationToken
    NotFound  \* store.ErrNotFound

ASSUME NotFoundAssumption == NotFound \notin Seq(Nat)
ASSUME NoTokenAssumption == NoToken \notin [key : Seq(Nat), reverse : BOOLEAN]

VARIABLE store  \* the value of every full key that is present

-----------------------------------------------------------------------------
(* The store, as tables.go uses it.                                        *)

Below(a, b) ==
    \E i \in 1 .. Len(b) :
        /\ \A j \in 1 .. i - 1 : j <= Len(a) /\ a[j] = b[j]
        /\ Len(a) < i \/ a[i] < b[i]

Ascending(S) ==
    [i \in 1 .. Cardinality(S) |->
        CHOOSE k \in S : Cardinality({j \in S : Below(j, k)}) = i - 1]

With(rows, key, value) ==
    [k \in DOMAIN rows \cup {key} |-> IF k = key THEN value ELSE rows[k]]

Without(rows, keys) == [k \in DOMAIN rows \ keys |-> rows[k]]

\* txn.EachPrefix: the keys with a prefix, in order.
EachPrefix(prefix) == Ascending({k \in DOMAIN store : IsPrefix(prefix, k)})

\* txn.EachRange: the keys between two bounds; an upper bound takes in the keys
\* it is a prefix of, or a nil upper bound would leave out the whole table.
EachRange(lower, upper, reverse) ==
    LET range == Ascending({k \in DOMAIN store :
                               /\ ~Below(k, lower)
                               /\ ~Below(upper, k) \/ IsPrefix(upper, k)})
    IN  IF reverse THEN Reverse(range) ELSE range

-----------------------------------------------------------------------------
(* The table with an id.                                                   *)

getFullKey(id, key) == id \o key

Relative(id, fullKeys) ==
    [i \in DOMAIN fullKeys |-> SubSeq(fullKeys[i], Len(id) + 1, Len(fullKeys[i]))]

get(id, key) ==
    LET k == getFullKey(id, key) IN IF k \in DOMAIN store THEN store[k] ELSE NotFound

set(id, key, value) == store' = With(store, getFullKey(id, key), value)

delete(id, key) == store' = Without(store, {getFullKey(id, key)})

\* An owner clears the table: everything under TableId().
DropPrefix(id) == store' = Without(store, {k \in DOMAIN store : IsPrefix(id, k)})

eachPrefix(id, prefix) == Relative(id, EachPrefix(getFullKey(id, prefix)))

\* Mutant: the store is asked for the bare prefix.
prefixExistsAnywhere(id, prefix) == \E k \in DOMAIN store : IsPrefix(prefix, k)

prefixExists(id, prefix) == \E k \in DOMAIN store : IsPrefix(getFullKey(id, prefix), k)

\* Mutant: the lower bound is left out.
listInRangeAfter(id, lower, upper, reverse) ==
    SelectSeq(Relative(id, EachRange(getFullKey(id, lower), getFullKey(id, upper), reverse)),
              LAMBDA k : k # lower)

\* A nil bound is the table id: the beginning or the end of the table.
listInRange(id, lower, upper, reverse) ==
    Relative(id, EachRange(getFullKey(id, lower), getFullKey(id, upper), reverse))

EachEntry(id) == listInRange(id, <<>>, <<>>, FALSE)

ValuesOf(id, keys) == [i \in DOMAIN keys |-> get(id, keys[i])]

-----------------------------------------------------------------------------
(* listPrefixedPaginated.                                                  *)

Token(key, reverse) == [key |-> key, reverse |-> reverse]

\* The callbacks end the scan at the first key without the prefix.
Run(prefix, keys) ==
    LET stray == SelectInSeq(keys, LAMBDA k : ~IsPrefix(prefix, k))
    IN  IF stray = 0 THEN keys ELSE SubSeq(keys, 1, stray - 1)

\* The first keys of a run, and the token of the key after them.
Taken(run, limit) == SubSeq(run, 1, Min({limit, Len(run)}))

\* Mutant: the token skips a key.
AfterSkippingOne(run, limit, reverse) ==
    IF Len(run) > limit + 1 THEN Token(run[limit + 2], reverse) ELSE NoToken

After(run, limit, reverse) ==
    IF Len(run) > limit THEN Token(run[limit + 1], reverse) ELSE NoToken

\* Mutant: the token of the key asked for itself.
AdjacentOrSame(run, key, reverse) ==
    IF run = <<>> THEN NoToken ELSE Token(run[1], reverse)

\* The token of the first key of a run other than the given one.
Adjacent(run, key, reverse) ==
    LET i == SelectInSeq(run, LAMBDA k : k # key)
    IN  IF i = 0 THEN NoToken ELSE Token(run[i], reverse)

Page(id, keys, next, prev) ==
    [keys |-> keys, values |-> ValuesOf(id, keys), next |-> next, prev |-> prev]

FirstPage(id, prefix, limit) ==
    LET run == eachPrefix(id, prefix)
    IN  Page(id, Taken(run, limit), After(run, limit, FALSE), NoToken)

PageFrom(id, prefix, key, limit) ==
    LET back == Run(prefix, listInRange(id, <<>>, key, TRUE))
        run == Run(prefix, listInRange(id, key, <<>>, FALSE))
    IN  Page(id, Taken(run, limit), After(run, limit, FALSE), Adjacent(back, key, TRUE))

PageBackFrom(id, prefix, key, limit) ==
    LET forth == Run(prefix, listInRange(id, key, <<>>, FALSE))
        run == Run(prefix, listInRange(id, <<>>, key, TRUE))
    IN  Page(id, Taken(run, limit), Adjacent(forth, key, FALSE), After(run, limit, TRUE))

listPrefixedPaginated(id, prefix, token, limit) ==
    IF token = NoToken THEN FirstPage(id, prefix, limit)
    ELSE IF token.reverse THEN PageBackFrom(id, prefix, token.key, limit)
    ELSE PageFrom(id, prefix, token.key, limit)
=============================================================================
