----------------------------- MODULE SharedStore -----------------------------
(***************************************************************************)
(* honey/replica_prefix.go and honey/tables.go together: the replicas of a *)
(* node keep all their tables, and the registry its rows, on one store.    *)
(* A row's full key is the prefix of its replica, the byte of its table    *)
(* and the key in the table.                                               *)
(*                                                                         *)
(* Operations are transactions of one step here; ReplicaPrefixRegistry and *)
(* Pagination take them apart.                                             *)
(***************************************************************************)
EXTENDS TypedTables

CONSTANTS
    Replicas,   \* replica ids, byte strings
    MaxPrefix,  \* maxAssignableReplicaPrefix, 2^16 - 1
    Layout,     \* the tables: a replica, a byte and a type each
    Keys,       \* the keys of each table, PKs for an index
    Values,     \* the values of each table, items for an index
    MaxLimit    \* the largest limit of a page that is looked at

IsIndex(t) == t.type \in Indexes

\* A prefix fits two bytes.
ASSUME PrefixAssumption == MaxPrefix \in 0 .. 256 * 256 - 1
ASSUME LimitAssumption == MaxLimit \in Nat

\* Distinct tables of a replica have distinct bytes.
ASSUME LayoutAssumption ==
    /\ Replicas \subseteq Seq(Nat)
    /\ \A t \in Layout : t.owner \in Replicas /\ t.byte \in Nat
    /\ \A t, u \in Layout : t.owner = u.owner /\ t.byte = u.byte => t = u

\* Bytes give back the value they were written for, and the PKs of an index are
\* all as long, as encoded ids are: then no row is under two of them.
ASSUME CodecAssumption ==
    \A t \in Layout :
        /\ Keys[t] \subseteq Seq(Nat)
        /\ \A v \in Values[t] :
               Encode(t.type, v) \in Seq(Nat) /\ Decode(t.type, Encode(t.type, v)) = v
        /\ IsIndex(t) => \A a, b \in Keys[t] : Len(a) = Len(b)

-----------------------------------------------------------------------------
(* The registry's rows.                                                    *)

\* categoryKey: what the rows of a category begin with.
Assignments == <<0, 0, 1>>
Counter == <<0, 0, 2>>

PutUint16(n) == <<n \div 256, n % 256>>

Uint16(b) == 256 * b[1] + b[2]

PrefixOf(r) == get(Assignments, r)

readCounter ==
    LET last == get(Counter, <<>>) IN IF last = NotFound THEN 0 ELSE Uint16(last)

\* Mutant: the counter stays.
AssignUncounted(r) ==
    /\ PrefixOf(r) = NotFound
    /\ readCounter < MaxPrefix
    /\ set(Assignments, r, PutUint16(readCounter + 1))

\* GetOrAssignPrefix of a replica that is new on the node.
AssignPrefix(r) ==
    /\ PrefixOf(r) = NotFound
    /\ readCounter < MaxPrefix
    /\ LET prefix == PutUint16(readCounter + 1)
       IN  store' = With(With(store, getFullKey(Assignments, r), prefix),
                         getFullKey(Counter, <<>>), prefix)

-----------------------------------------------------------------------------
(* The replicas that have their prefix, and their tables.                  *)

Running(t) == PrefixOf(t.owner) # NotFound

Opened(t) == [id |-> PrefixOf(t.owner) \o <<t.byte>>, type |-> t.type]

Put(t, k, v) == IF IsIndex(t) THEN Add(Opened(t), k, v) ELSE Set(Opened(t), k, v)

Erase(t, k, v) == IF IsIndex(t) THEN DeleteItem(Opened(t), k, v) ELSE Delete(Opened(t), k)

Clear(t) == DropPrefix(Opened(t).id)

Init == store = <<>>

Next ==
    \/ \E r \in Replicas : AssignPrefix(r)
    \/ \E t \in Layout :
           /\ Running(t)
           /\ \/ Clear(t)
              \/ \E k \in Keys[t], v \in Values[t] : Put(t, k, v) \/ Erase(t, k, v)

Spec == Init /\ [][Next]_store

-----------------------------------------------------------------------------
(* Properties.                                                             *)

\* The key in its table of the row that an entry is kept in.
Rows == [t \in Layout |-> [e \in Keys[t] \X Values[t] |->
            IF IsIndex(t) THEN Row(t, e[1], e[2]) ELSE e[1]]]

\* The pairs of a key and a value that a table holds.
EntriesOf(t) ==
    IF Running(t)
    THEN LET open == Opened(t)
         IN  {e \in Keys[t] \X Values[t] :
                 /\ getFullKey(open.id, Rows[t][e]) \in DOMAIN store
                 /\ IsIndex(t) \/ Get(open, e[1]) = e[2]}
    ELSE {}

Separate ==
    INSTANCE SeparateTables WITH
        OneToMany <- {t \in Layout : IsIndex(t)},
        entries <- [t \in Layout |-> EntriesOf(t)]

\* The tables on the shared store are stores of their own: setting, deleting and
\* clearing in one is seen in no other, whichever replicas own them, and so is
\* the assignment of a prefix ("the two partitions never overlap in a stored
\* key", replica_prefix.go:45).
KeepsTablesApart == Separate!Spec

RunningIndexes == {t \in Layout : IsIndex(t) /\ Running(t)}
RunningTables == {t \in Layout : ~IsIndex(t) /\ Running(t)}

ItemsUnder(t, pk) == {v \in Values[t] : <<pk, v>> \in EntriesOf(t)}
KeysIn(t) == {k \in Keys[t] : \E v \in Values[t] : <<k, v>> \in EntriesOf(t)}
ValueIn(t, k) == CHOOSE v \in Values[t] : <<k, v>> \in EntriesOf(t)

Precedes(t, a, b) == IF t.type = OneToManyUint64Index THEN a < b ELSE Below(a, b)

\* s is what is in S, each once, in order.
Ordered(s, S, Less(_, _)) ==
    /\ Len(s) = Cardinality(S) /\ ToSet(s) = S
    /\ \A i, j \in DOMAIN s : i < j => Less(s[i], s[j])

\* s is the values of the keys in S, in the order of the keys.
ValuesInOrder(t, s, S, Less(_, _)) ==
    /\ Len(s) = Cardinality(S)
    /\ \A k \in S : s[1 + Cardinality({j \in S : Less(j, k)})] = ValueIn(t, k)

\* A key's items are listed each once and in their order, which for numbers is
\* that of the numbers, and a table's values in the order of their keys; what
\* EachEntry gives to a portable snapshot is the rows of the table's entries.
ListIsExact ==
    /\ \A t \in RunningIndexes \cup RunningTables :
           Ordered(EachEntry(Opened(t).id), {Rows[t][e] : e \in EntriesOf(t)}, Below)
    /\ \A t \in RunningIndexes : \A pk \in Keys[t] :
           Ordered(ListItems(Opened(t), pk), ItemsUnder(t, pk),
                   LAMBDA a, b : Precedes(t, a, b))
    /\ \A t \in RunningTables :
           ValuesInOrder(t, ListAll(Opened(t), <<>>), KeysIn(t), Below)

Between(k, lower, upper) ==
    ~Below(k, lower) /\ (IsPrefix(upper, k) \/ Below(k, upper))

\* A range stays within its table, and over an index within its PK: the rows from
\* the lower bound to the upper bound, the ones the upper bound is a prefix of
\* included, and all that follow the lower bound when the upper bound is empty.
RangeIsExact ==
    /\ \A t \in RunningIndexes : t.type # OneToManyUint64Index =>
           \A pk \in Keys[t], lower, upper \in Values[t] \cup {<<>>} :
               Ordered(ListRows(Opened(t), pk, lower, upper),
                       {pk \o i : i \in {i \in ItemsUnder(t, pk) : Between(i, lower, upper)}},
                       Below)
    /\ \A t \in RunningTables : t.type \in {BinaryTable, StringTable} =>
           \A lower, upper \in Keys[t] \cup {<<>>} :
               LET S == {k \in KeysIn(t) : Between(k, lower, upper)}
               IN  /\ ValuesInOrder(t, ListInRange(Opened(t), lower, upper, FALSE), S, Below)
                   /\ ValuesInOrder(t, ListInRange(Opened(t), lower, upper, TRUE), S,
                                    LAMBDA a, b : Below(b, a))

\* The token of the i-th of a table's keys; there is none past the last.
TokenAt(keys, i) == IF i \in DOMAIN keys THEN Token(keys[i], FALSE) ELSE NoToken

\* The page holds the items from the i-th on, and asks next for what follows them.
HoldsFrom(page, i, limit, keys, items) ==
    /\ page.items = SubSeq(items, i, Min({i + limit - 1, Len(items)}))
    /\ page.next = TokenAt(keys, i + limit)

PagesHold(Read(_), limit, keys, items) ==
    /\ HoldsFrom(Read(NoToken), 1, limit, keys, items)
    /\ \A i \in DOMAIN keys : HoldsFrom(Read(TokenAt(keys, i)), i, limit, keys, items)

\* Whichever item of a key, or value of a table, a page begins at, it holds what
\* the listing holds from there, and its token leads to where it ends: pages that
\* are asked for one after another hold the whole listing, and nothing twice.
PagesFollowListing ==
    \A limit \in 1 .. MaxLimit :
        /\ \A t \in RunningIndexes : \A pk \in Keys[t] :
               PagesHold(LAMBDA token : ListItemsPaginated(Opened(t), pk, token, limit),
                         limit, eachPrefix(Opened(t).id, pk), ListItems(Opened(t), pk))
        /\ \A t \in RunningTables :
               PagesHold(LAMBDA token : ListPaginated(Opened(t), <<>>, token, limit),
                         limit, eachPrefix(Opened(t).id, <<>>), ListAll(Opened(t), <<>>))

\* A key is reported not empty exactly when it has an item.
NotEmptyIsExact ==
    \A t \in RunningIndexes : \A pk \in Keys[t] :
        NotEmpty(Opened(t), pk) <=> ItemsUnder(t, pk) # {}
=============================================================================
