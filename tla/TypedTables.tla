----------------------------- MODULE TypedTables -----------------------------
(***************************************************************************)
(* honey/tables.go: the tables of typed values and the one-to-many indexes *)
(* over the shared table.  A table is a record of its id and its type; the *)
(* types differ in how a value, or an item of an index, is written as      *)
(* bytes, and share everything else.                                       *)
(***************************************************************************)
EXTENDS Tables

CONSTANT Marshal  \* a function: what MarshalBinary makes of each message

\* A name stands for its type and all the methods the type has: each method is the
\* operator below of the same name, which the name is an argument of.
BinaryTable == "BinaryTable"
StringTable == "StringTable"
Uint64Table == "Uint64Table"
Uint32Table == "Uint32Table"

OneToManyUint64Index == "OneToManyUint64Index"
OneToManySortedIndex == "OneToManySortedIndex"
SortedIndex == "SortedIndex"    \* its one PK is <<>>

Indexes == {OneToManyUint64Index, OneToManySortedIndex, SortedIndex}

-----------------------------------------------------------------------------
(* Values as bytes.                                                        *)

uintToBytes(width, u) ==
    LET rest[i \in 1 .. width] == IF i = width THEN u ELSE rest[i + 1] \div 256
    IN  [i \in 1 .. width |-> rest[i] % 256]

bytesToUint(width, b) ==
    LET upTo[i \in 0 .. width] == IF i = 0 THEN 0 ELSE 256 * upTo[i - 1] + b[i]
    IN  upTo[width]

Encode(type, value) ==
    CASE type \in {Uint64Table, OneToManyUint64Index} -> uintToBytes(8, value)
      [] type = Uint32Table -> uintToBytes(4, value)
      [] type = BinaryTable -> Marshal[value]
      [] OTHER -> value

Decode(type, bytes) ==
    CASE type \in {Uint64Table, OneToManyUint64Index} -> bytesToUint(8, bytes)
      [] type = Uint32Table -> bytesToUint(4, bytes)
      [] type = BinaryTable -> CHOOSE m \in DOMAIN Marshal : Marshal[m] = bytes
      [] OTHER -> bytes

-----------------------------------------------------------------------------
(* Tables.                                                                 *)

Get(t, key) ==
    LET value == get(t.id, key)
    IN  IF value = NotFound THEN NotFound ELSE Decode(t.type, value)

Set(t, key, value) == set(t.id, key, Encode(t.type, value))

Delete(t, key) == delete(t.id, key)

ValuesAt(t, keys) == [i \in DOMAIN keys |-> Get(t, keys[i])]

ListAll(t, prefix) == ValuesAt(t, eachPrefix(t.id, prefix))

ListInRange(t, lower, upper, reverse) ==
    ValuesAt(t, listInRange(t.id, lower, upper, reverse))

\* What the typed ListPaginated makes of a page.
TypedPage(page, items) == [items |-> items, next |-> page.next, prev |-> page.prev]

ListPaginated(t, prefix, token, limit) ==
    LET page == listPrefixedPaginated(t.id, prefix, token, limit)
    IN  TypedPage(page, [i \in DOMAIN page.values |-> Decode(t.type, page.values[i])])

-----------------------------------------------------------------------------
(* Indexes: a row's key is a PK followed by an item, and its value empty.  *)

Row(t, pk, item) == pk \o Encode(t.type, item)

Add(t, pk, item) == set(t.id, Row(t, pk, item), <<>>)

DeleteItem(t, pk, item) == delete(t.id, Row(t, pk, item))

\* Mutant: the PK stays on the item.
ItemWithKey(t, pk, key) == Decode(t.type, key)

ItemOf(t, pk, key) == Decode(t.type, SubSeq(key, Len(pk) + 1, Len(key)))

ItemsOf(t, pk, keys) == [i \in DOMAIN keys |-> ItemOf(t, pk, keys[i])]

\* List of the first index, ListAll of the second.
ListItems(t, pk) == ItemsOf(t, pk, eachPrefix(t.id, pk))

\* Mutant: the upper bound is not under the key.
ListRowsOpen(t, pk, lower, upper) == listInRange(t.id, pk \o lower, upper, FALSE)

\* ListInRange gives out whole keys, as its test notes.
ListRows(t, pk, lower, upper) == listInRange(t.id, pk \o lower, pk \o upper, FALSE)

\* Mutant: the prefix stays on the items.
ListKeysPaginated(t, prefix, token, limit) ==
    LET page == listPrefixedPaginated(t.id, prefix, token, limit)
    IN  TypedPage(page, ItemsOf(t, <<>>, page.keys))

ListItemsPaginated(t, prefix, token, limit) ==
    LET page == listPrefixedPaginated(t.id, prefix, token, limit)
    IN  TypedPage(page, ItemsOf(t, prefix, page.keys))

NotEmpty(t, pk) == prefixExists(t.id, pk)
=============================================================================
