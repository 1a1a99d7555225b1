------------------------- MODULE SharedStoreProofs -------------------------
(***************************************************************************)
(* What SharedStore promises for every set of replicas, every layout of    *)
(* tables and every set of keys and values that meet its assumptions.      *)
(***************************************************************************)
EXTENDS SharedStore, TablesProofs

-----------------------------------------------------------------------------
(* Full keys.                                                              *)

\* The ids that begin full keys: three bytes.
Ids == {i \in Seq(Nat) : Len(i) = 3}

\* Full keys are the same only for the same id and key, and begin with an id
\* only if it is theirs.
LEMMA FullKeys ==
    ASSUME NEW a \in Ids, NEW b \in Ids, NEW x \in Seq(Nat), NEW y \in Seq(Nat)
    PROVE  /\ getFullKey(a, x) \in Seq(Nat)
           /\ getFullKey(a, x) = getFullKey(b, y) => a = b /\ x = y
           /\ IsPrefix(a, getFullKey(b, y)) <=> a = b
<1>1. a \in Seq(Nat) /\ b \in Seq(Nat) /\ Len(a) = Len(b)
  BY DEF Ids
<1> QED BY <1>1, RowsDiffer, PrefixIsSame, ConcatProperties DEF getFullKey

\* The registry's ids, and the id of a byte under a prefix.
LEMMA RegistryIds == Assignments \in Ids /\ Counter \in Ids /\ Assignments # Counter
BY DEF Assignments, Counter, Ids

LEMMA IdOfByte ==
    ASSUME NEW m \in Nat, NEW n \in Nat, NEW b \in Nat
    PROVE  <<m, n>> \o <<b>> = <<m, n, b>> /\ <<m, n, b>> \in Ids
<1>1. <<m, n>> \in Seq(Nat) /\ <<b>> \in Seq(Nat) /\ <<m, n, b>> \in Seq(Nat)
  OBVIOUS
<1>2. /\ <<m, n>> \o <<b>> \in Seq(Nat) /\ Len(<<m, n>> \o <<b>>) = 3
      /\ (<<m, n>> \o <<b>>)[1] = m /\ (<<m, n>> \o <<b>>)[2] = n
      /\ (<<m, n>> \o <<b>>)[3] = b
  BY <1>1, ConcatProperties
<1>3. \A i \in 1 .. 3 : (<<m, n>> \o <<b>>)[i] = <<m, n, b>>[i]
  BY <1>2
<1>4. <<m, n>> \o <<b>> = <<m, n, b>>
  BY <1>1, <1>2, <1>3, SeqEqual
<1> QED BY <1>1, <1>4 DEF Ids

\* Two bytes say which number they were written for.
LEMMA TwoBytes ==
    ASSUME NEW n \in Nat
    PROVE  n \div 256 \in Nat /\ n % 256 \in Nat /\ Uint16(PutUint16(n)) = n
<1>1. n \div 256 \in Nat /\ n % 256 \in Nat
  OBVIOUS
<1>2. n = 256 * (n \div 256) + (n % 256)
  OBVIOUS
<1>3. PutUint16(n)[1] = n \div 256 /\ PutUint16(n)[2] = n % 256
  BY DEF PutUint16
<1> QED BY <1>1, <1>2, <1>3 DEF Uint16

\* The ids under the prefixes that the registry hands out are those of one
\* prefix and one byte, and none of the registry's own.
TableId(n, b) == PutUint16(n) \o <<b>>

LEMMA TableIds ==
    ASSUME NEW m \in Nat, 0 < m, NEW n \in Nat, NEW b \in Nat, NEW c \in Nat
    PROVE  /\ TableId(m, b) \in Ids \ {Assignments, Counter}
           /\ TableId(m, b) = TableId(n, c) => m = n /\ b = c
           /\ PutUint16(m) = PutUint16(n) => m = n
           /\ PutUint16(m) # NotFound
<1> DEFINE mh == m \div 256  ml == m % 256  nh == n \div 256  nl == n % 256
<1>1. /\ mh \in Nat /\ ml \in Nat /\ Uint16(PutUint16(m)) = m
      /\ nh \in Nat /\ nl \in Nat /\ Uint16(PutUint16(n)) = n
  BY TwoBytes
<1>2. mh # 0 \/ ml # 0
  OBVIOUS
<1>3. PutUint16(m) = <<mh, ml>> /\ PutUint16(n) = <<nh, nl>>
  BY DEF PutUint16
<1>4. PutUint16(m) = PutUint16(n) => m = n
  BY <1>1
<1> HIDE DEF mh, ml, nh, nl
<1>5. /\ <<mh, ml>> \o <<b>> = <<mh, ml, b>> /\ <<mh, ml, b>> \in Ids
      /\ <<nh, nl>> \o <<c>> = <<nh, nl, c>>
  BY <1>1, IdOfByte
<1>6. <<mh, ml, b>> # Assignments /\ <<mh, ml, b>> # Counter
  BY <1>2 DEF Assignments, Counter
<1>7. <<mh, ml, b>> = <<nh, nl, c>> => <<mh, ml>> = <<nh, nl>> /\ b = c
  OBVIOUS
<1>8. <<mh, ml>> # NotFound
  <2>1. <<mh, ml>> \in Seq(Nat)
    BY <1>1
  <2> QED BY <2>1, NotFoundAssumption
<1>9. /\ TableId(m, b) = <<mh, ml, b>>
      /\ TableId(n, c) = <<nh, nl, c>>
  BY <1>3, <1>5 DEF TableId
<1>10. TableId(m, b) = TableId(n, c) => m = n /\ b = c
  BY <1>3, <1>4, <1>7, <1>9
<1> QED BY <1>3, <1>4, <1>5, <1>6, <1>8, <1>9, <1>10

-----------------------------------------------------------------------------
(* The inductive invariant.                                                *)

\* The prefixes on disk are numbers up to the counter, each with one replica.
PrefixesApart ==
    /\ readCounter \in 0 .. MaxPrefix
    /\ \A r \in Replicas : PrefixOf(r) # NotFound =>
           \E n \in 1 .. readCounter : PrefixOf(r) = PutUint16(n)
    /\ \A q, r \in Replicas : PrefixOf(q) # NotFound /\ PrefixOf(q) = PrefixOf(r) => q = r

Registered(k) ==
    k = getFullKey(Counter, <<>>) \/ \E r \in Replicas : k = getFullKey(Assignments, r)

\* Whatever is on the store is the registry's, or an entry of an open table.
RowsHaveOwners ==
    \A k \in DOMAIN store :
        \/ Registered(k)
        \/ \E t \in Layout :
               /\ Running(t)
               /\ \E e \in Keys[t] \X Values[t] : k = getFullKey(Opened(t).id, Rows[t][e])

Inv == PrefixesApart /\ RowsHaveOwners

\* The ids of open tables are distinct, and none of the registry's.
LEMMA OpenIds ==
    ASSUME PrefixesApart,
           NEW t \in Layout, Running(t), NEW u \in Layout, Running(u)
    PROVE  /\ Opened(t).id \in Ids \ {Assignments, Counter}
           /\ Opened(t).id = Opened(u).id => t = u
<1>1. PICK m \in 1 .. readCounter : PrefixOf(t.owner) = PutUint16(m)
  BY LayoutAssumption DEF PrefixesApart, Running
<1>2. PICK n \in 1 .. readCounter : PrefixOf(u.owner) = PutUint16(n)
  BY LayoutAssumption DEF PrefixesApart, Running
<1>3. m \in Nat /\ 0 < m /\ n \in Nat
  BY DEF PrefixesApart
<1>4. t.byte \in Nat /\ u.byte \in Nat
  BY LayoutAssumption
<1>5. Opened(t).id = TableId(m, t.byte) /\ Opened(u).id = TableId(n, u.byte)
  BY <1>1, <1>2 DEF Opened, TableId
<1>6. m = n /\ t.byte = u.byte => t = u
  BY <1>1, <1>2, LayoutAssumption DEF PrefixesApart, Running
<1>7. /\ TableId(m, t.byte) \in Ids \ {Assignments, Counter}
      /\ TableId(m, t.byte) = TableId(n, u.byte) => m = n /\ t.byte = u.byte
  BY <1>3, <1>4, TableIds
<1> QED BY <1>5, <1>6, <1>7

\* The key of an entry's row, and that an index keeps an entry in one row.
LEMMA RowKeys ==
    ASSUME NEW t \in Layout, NEW e \in Keys[t] \X Values[t], NEW f \in Keys[t] \X Values[t]
    PROVE  /\ Rows[t][e] \in Seq(Nat)
           /\ IsIndex(t) => (Rows[t][e] = Rows[t][f] => e = f)
           /\ ~IsIndex(t) => Rows[t][e] = e[1]
<1> DEFINE ei == Encode(t.type, e[2])  fi == Encode(t.type, f[2])
<1>1. /\ e = <<e[1], e[2]>> /\ e[1] \in Keys[t] /\ e[2] \in Values[t]
      /\ f = <<f[1], f[2]>> /\ f[1] \in Keys[t] /\ f[2] \in Values[t]
  OBVIOUS
<1>2. /\ e[1] \in Seq(Nat) /\ ei \in Seq(Nat) /\ f[1] \in Seq(Nat) /\ fi \in Seq(Nat)
      /\ ei = fi => e[2] = f[2]
      /\ IsIndex(t) => Len(e[1]) = Len(f[1])
  BY <1>1, CodecAssumption
<1>3. /\ Rows[t][e] = IF IsIndex(t) THEN e[1] \o ei ELSE e[1]
      /\ Rows[t][f] = IF IsIndex(t) THEN f[1] \o fi ELSE f[1]
  BY DEF Rows, Row
<1> HIDE DEF ei, fi
<1>4. e[1] \o ei \in Seq(Nat)
  BY <1>2, ConcatProperties
<1>5. ASSUME IsIndex(t), Rows[t][e] = Rows[t][f] PROVE e = f
  <2>1. e[1] \o ei = f[1] \o fi /\ Len(e[1]) = Len(f[1])
    BY <1>2, <1>3, <1>5
  <2>2. \A a, b, i, j \in Seq(Nat) : Len(a) = Len(b) /\ a \o i = b \o j => a = b /\ i = j
    BY RowsDiffer
  <2>3. e[1] = f[1] /\ ei = fi
    BY <1>2, <2>1, <2>2
  <2> QED BY <1>1, <1>2, <2>3
<1> QED BY <1>2, <1>3, <1>4, <1>5

-----------------------------------------------------------------------------
(* What is done to a table.                                                *)

KeyOf(t, e) == getFullKey(Opened(t).id, Rows[t][e])

\* Nothing changes outside the keys that begin with the table's id.
Within(t) ==
    \A k \in Seq(Nat) : ~IsPrefix(Opened(t).id, k) =>
        /\ k \in DOMAIN store' <=> k \in DOMAIN store
        /\ k \in DOMAIN store => store'[k] = store[k]

\* The keys of rows: two of one table are the same for an entry, or for the key
\* of a table of values, and each begins with its table's id.
LEMMA EntryKeys ==
    ASSUME PrefixesApart, NEW t \in Layout, Running(t),
           NEW e \in Keys[t] \X Values[t], NEW f \in Keys[t] \X Values[t]
    PROVE  /\ KeyOf(t, e) \in Seq(Nat) /\ IsPrefix(Opened(t).id, KeyOf(t, e))
           /\ KeyOf(t, e) = KeyOf(t, f) <=> IF IsIndex(t) THEN e = f ELSE e[1] = f[1]
<1>1. Opened(t).id \in Ids
  BY OpenIds
<1>2. /\ Rows[t][e] \in Seq(Nat) /\ Rows[t][f] \in Seq(Nat)
      /\ Rows[t][e] = Rows[t][f] <=> IF IsIndex(t) THEN e = f ELSE e[1] = f[1]
  BY RowKeys
<1> QED BY <1>1, <1>2, FullKeys DEF KeyOf

\* The store after each operation.
LEMMA Operations ==
    ASSUME NEW t \in Layout, NEW k \in Keys[t], NEW v \in Values[t]
    PROVE  /\ Put(t, k, v) => store' = With(store, KeyOf(t, <<k, v>>),
                                  IF IsIndex(t) THEN <<>> ELSE Encode(t.type, v))
           /\ Erase(t, k, v) => store' = Without(store, {KeyOf(t, <<k, v>>)})
<1>1. Rows[t][<<k, v>>] = IF IsIndex(t) THEN k \o Encode(t.type, v) ELSE k
  BY DEF Rows, Row
<1>2. Opened(t).type = t.type
  BY DEF Opened
<1> QED BY <1>1, <1>2 DEF Put, Erase, Add, Set, DeleteItem, Delete, set, delete, Row, KeyOf

\* They stay within the table.
LEMMA OperationsStayWithin ==
    ASSUME PrefixesApart, NEW t \in Layout, Running(t)
    PROVE  /\ \A k \in Keys[t], v \in Values[t] :
                  Put(t, k, v) \/ Erase(t, k, v) => Within(t)
           /\ Clear(t) => Within(t)
<1>1. ASSUME NEW k \in Keys[t], NEW v \in Values[t], Put(t, k, v) \/ Erase(t, k, v)
      PROVE  Within(t)
  <2>1. IsPrefix(Opened(t).id, KeyOf(t, <<k, v>>))
    BY EntryKeys
  <2>2. \/ \E b : store' = With(store, KeyOf(t, <<k, v>>), b)
        \/ store' = Without(store, {KeyOf(t, <<k, v>>)})
    BY <1>1, Operations
  <2> QED BY <2>1, <2>2 DEF Within, With, Without
<1>2. Clear(t) => Within(t)
  BY DEF Clear, DropPrefix, Within, Without
<1> QED BY <1>1, <1>2

\* What stays within a table leaves the registry, and the other tables, alone.
LEMMA Frame ==
    ASSUME PrefixesApart, NEW t \in Layout, Running(t), Within(t)
    PROVE  /\ readCounter' = readCounter
           /\ \A r \in Replicas : PrefixOf(r)' = PrefixOf(r)
           /\ \A u \in Layout : Running(u)' = Running(u) /\ Opened(u)' = Opened(u)
           /\ \A u \in Layout \ {t} : EntriesOf(u)' = EntriesOf(u)
<1>1. ASSUME NEW i \in Ids, i # Opened(t).id, NEW k \in Seq(Nat)
      PROVE  /\ getFullKey(i, k) \in DOMAIN store' <=> getFullKey(i, k) \in DOMAIN store
             /\ get(i, k)' = get(i, k)
  <2>1. getFullKey(i, k) \in Seq(Nat) /\ ~IsPrefix(Opened(t).id, getFullKey(i, k))
    BY <1>1, OpenIds, FullKeys
  <2> QED BY <2>1 DEF Within, get
<1>2. Opened(t).id # Assignments /\ Opened(t).id # Counter
  BY OpenIds
<1>3. \A r \in Replicas : PrefixOf(r)' = PrefixOf(r)
  BY <1>1, <1>2, RegistryIds, LayoutAssumption DEF PrefixOf
<1>4. readCounter' = readCounter
  <2>1. get(Counter, <<>>)' = get(Counter, <<>>)
    BY <1>1, <1>2, RegistryIds, EmptySeq
  <2> QED BY <2>1 DEF readCounter
<1>5. ASSUME NEW u \in Layout PROVE Running(u)' = Running(u) /\ Opened(u)' = Opened(u)
  BY <1>3, LayoutAssumption DEF Running, Opened
<1>6. ASSUME NEW u \in Layout \ {t} PROVE EntriesOf(u)' = EntriesOf(u)
  <2>1. CASE ~Running(u)
    BY <2>1, <1>5 DEF EntriesOf
  <2>2. CASE Running(u)
    <3> DEFINE i == Opened(u).id
    <3>1. i \in Ids /\ i # Opened(t).id
      BY <2>2, OpenIds
    <3>2. ASSUME NEW e \in Keys[u] \X Values[u]
          PROVE  /\ getFullKey(i, Rows[u][e]) \in DOMAIN store'
                        <=> getFullKey(i, Rows[u][e]) \in DOMAIN store
                 /\ get(i, e[1])' = get(i, e[1])
      <4>1. Rows[u][e] \in Seq(Nat) /\ e[1] \in Seq(Nat)
        BY RowKeys, CodecAssumption
      <4> QED BY <1>1, <1>5, <3>1, <4>1
    <3>3. ASSUME NEW e \in Keys[u] \X Values[u]
          PROVE  Get(Opened(u), e[1])' = Get(Opened(u), e[1])
      BY <3>2, <1>5 DEF Get
    <3> QED BY <2>2, <1>5, <3>2, <3>3 DEF EntriesOf
  <2> QED BY <2>1, <2>2
<1> QED BY <1>3, <1>4, <1>5, <1>6

\* What an open table has, after an operation on it, with the rows it left alone.
LEMMA EntriesAfter ==
    ASSUME PrefixesApart, NEW t \in Layout, Running(t), Within(t),
           NEW e \in Keys[t] \X Values[t]
    PROVE  /\ e \in EntriesOf(t) <=>
                  /\ KeyOf(t, e) \in DOMAIN store
                  /\ IsIndex(t) \/ Get(Opened(t), e[1]) = e[2]
           /\ e \in EntriesOf(t)' <=>
                  /\ KeyOf(t, e) \in DOMAIN store'
                  /\ IsIndex(t) \/ Get(Opened(t), e[1])' = e[2]
           /\ /\ KeyOf(t, e) \in DOMAIN store' <=> KeyOf(t, e) \in DOMAIN store
              /\ KeyOf(t, e) \in DOMAIN store => store'[KeyOf(t, e)] = store[KeyOf(t, e)]
              => (e \in EntriesOf(t)' <=> e \in EntriesOf(t))
<1>1. Running(t)' /\ Opened(t)' = Opened(t)
  BY Frame
<1>2. e \in EntriesOf(t) <=> /\ KeyOf(t, e) \in DOMAIN store
                             /\ IsIndex(t) \/ Get(Opened(t), e[1]) = e[2]
  BY DEF EntriesOf, KeyOf
<1>3. e \in EntriesOf(t)' <=> /\ KeyOf(t, e) \in DOMAIN store'
                              /\ IsIndex(t) \/ Get(Opened(t), e[1])' = e[2]
  BY <1>1 DEF EntriesOf, KeyOf
<1>4. ASSUME ~IsIndex(t)
      PROVE  KeyOf(t, e) = getFullKey(Opened(t).id, e[1])
  BY <1>4, RowKeys DEF KeyOf
<1>5. ASSUME ~IsIndex(t), KeyOf(t, e) \in DOMAIN store' <=> KeyOf(t, e) \in DOMAIN store,
             KeyOf(t, e) \in DOMAIN store => store'[KeyOf(t, e)] = store[KeyOf(t, e)]
      PROVE  Get(Opened(t), e[1])' = Get(Opened(t), e[1])
  BY <1>1, <1>4, <1>5 DEF Get, get
<1> QED BY <1>2, <1>3, <1>5

\* The entries that putting a pair into a table, or erasing it, leaves alone.
OthersOf(t, k, v) ==
    IF IsIndex(t) THEN EntriesOf(t) \ {<<k, v>>} ELSE {e \in EntriesOf(t) : e[1] # k}

\* Each operation does to its table what it does to a table alone.
LEMMA PutPuts ==
    ASSUME PrefixesApart, NEW t \in Layout, Running(t),
           NEW k \in Keys[t], NEW v \in Values[t], Put(t, k, v)
    PROVE  EntriesOf(t)' = OthersOf(t, k, v) \cup {<<k, v>>}
<1> DEFINE f == <<k, v>>
           b == IF IsIndex(t) THEN <<>> ELSE Encode(t.type, v)
<1>1. Within(t) /\ f \in Keys[t] \X Values[t]
  BY OperationsStayWithin
<1>2. store' = With(store, KeyOf(t, f), b)
  BY Operations
<1>3. Opened(t)' = Opened(t) /\ Opened(t).type = t.type
  BY <1>1, Frame DEF Opened
<1>4. ~IsIndex(t) => Get(Opened(t), k)' = v
  <2> SUFFICES ASSUME ~IsIndex(t) PROVE Get(Opened(t), k)' = v
    OBVIOUS
  <2>1. KeyOf(t, f) = getFullKey(Opened(t).id, k)
    BY <1>1, RowKeys DEF KeyOf
  <2>2. get(Opened(t).id, k)' = Encode(t.type, v)
    BY <1>2, <1>3, <2>1 DEF With, get
  <2>3. Encode(t.type, v) # NotFound /\ Decode(t.type, Encode(t.type, v)) = v
    BY CodecAssumption, NotFoundAssumption
  <2> QED BY <1>3, <2>2, <2>3 DEF Get
<1>5. ASSUME NEW e \in Keys[t] \X Values[t]
      PROVE  e \in EntriesOf(t)' <=> e \in OthersOf(t, k, v) \cup {f}
  <2>1. KeyOf(t, e) = KeyOf(t, f) <=> IF IsIndex(t) THEN e = f ELSE e[1] = k
    BY <1>1, EntryKeys
  <2>2. CASE KeyOf(t, e) = KeyOf(t, f)
    <3>1. e \in EntriesOf(t)' <=> IsIndex(t) \/ Get(Opened(t), e[1])' = e[2]
      BY <1>1, <1>2, <2>2, EntriesAfter DEF With
    <3>2. ~IsIndex(t) => (e \in EntriesOf(t)' <=> e = f)
      BY <1>4, <2>1, <2>2, <3>1
    <3> QED BY <2>1, <2>2, <3>1, <3>2 DEF OthersOf
  <2>3. CASE KeyOf(t, e) # KeyOf(t, f)
    <3>1. e \in EntriesOf(t)' <=> e \in EntriesOf(t)
      BY <1>1, <1>2, <2>3, EntriesAfter DEF With
    <3> QED BY <2>1, <2>3, <3>1 DEF OthersOf
  <2> QED BY <2>2, <2>3
<1>6. EntriesOf(t)' \subseteq Keys[t] \X Values[t] /\ EntriesOf(t) \subseteq Keys[t] \X Values[t]
  BY DEF EntriesOf
<1> QED BY <1>1, <1>5, <1>6 DEF OthersOf

LEMMA EraseErases ==
    ASSUME PrefixesApart, NEW t \in Layout, Running(t),
           NEW k \in Keys[t], NEW v \in Values[t], Erase(t, k, v)
    PROVE  EntriesOf(t)' = OthersOf(t, k, v)
<1> DEFINE f == <<k, v>>
<1>1. Within(t) /\ f \in Keys[t] \X Values[t]
  BY OperationsStayWithin
<1>2. store' = Without(store, {KeyOf(t, f)})
  BY Operations
<1>3. ASSUME NEW e \in Keys[t] \X Values[t]
      PROVE  e \in EntriesOf(t)' <=> e \in OthersOf(t, k, v)
  <2>1. KeyOf(t, e) = KeyOf(t, f) <=> IF IsIndex(t) THEN e = f ELSE e[1] = k
    BY <1>1, EntryKeys
  <2>2. CASE KeyOf(t, e) = KeyOf(t, f)
    <3>1. e \notin EntriesOf(t)'
      BY <1>1, <1>2, <2>2, EntriesAfter DEF Without
    <3> QED BY <2>1, <2>2, <3>1 DEF OthersOf
  <2>3. CASE KeyOf(t, e) # KeyOf(t, f)
    <3>1. e \in EntriesOf(t)' <=> e \in EntriesOf(t)
      <4>1. KeyOf(t, e) \in DOMAIN store' <=> KeyOf(t, e) \in DOMAIN store
        BY <1>2, <2>3 DEF Without
      <4>2. KeyOf(t, e) \in DOMAIN store => store'[KeyOf(t, e)] = store[KeyOf(t, e)]
        BY <1>2, <2>3 DEF Without
      <4> QED BY <1>1, <4>1, <4>2, EntriesAfter
    <3> QED BY <2>1, <2>3, <3>1 DEF OthersOf
  <2> QED BY <2>2, <2>3
<1>4. EntriesOf(t)' \subseteq Keys[t] \X Values[t] /\ EntriesOf(t) \subseteq Keys[t] \X Values[t]
  BY DEF EntriesOf
<1> QED BY <1>1, <1>3, <1>4 DEF OthersOf

LEMMA ClearClears ==
    ASSUME PrefixesApart, NEW t \in Layout, Running(t), Clear(t)
    PROVE  EntriesOf(t)' = {}
<1>1. Within(t)
  BY OperationsStayWithin
<1>2. ASSUME NEW e \in Keys[t] \X Values[t] PROVE e \notin EntriesOf(t)'
  <2>1. IsPrefix(Opened(t).id, KeyOf(t, e))
    BY EntryKeys
  <2>2. KeyOf(t, e) \notin DOMAIN store'
    BY <2>1 DEF Clear, DropPrefix, Without
  <2> QED BY <1>1, <2>2, EntriesAfter
<1>3. EntriesOf(t)' \subseteq Keys[t] \X Values[t]
  BY DEF EntriesOf
<1> QED BY <1>2, <1>3

-----------------------------------------------------------------------------
(* Assigning a prefix.                                                     *)

\* The replica gets the next number, and no other row changes.
LEMMA AssignAssigns ==
    ASSUME PrefixesApart, NEW r \in Replicas, AssignPrefix(r)
    PROVE  /\ readCounter' = readCounter + 1 /\ readCounter' \in 1 .. MaxPrefix
           /\ PrefixOf(r) = NotFound
           /\ PrefixOf(r)' = PutUint16(readCounter + 1) /\ PrefixOf(r)' # NotFound
           /\ \A q \in Replicas \ {r} : PrefixOf(q)' = PrefixOf(q)
           /\ \A k \in DOMAIN store' : k \in DOMAIN store \/ Registered(k)
           /\ \A i \in Ids \ {Assignments, Counter} : \A k \in Seq(Nat) :
                  /\ getFullKey(i, k) \in DOMAIN store' <=> getFullKey(i, k) \in DOMAIN store
                  /\ get(i, k)' = get(i, k)
<1> DEFINE a == getFullKey(Assignments, r)
           c == getFullKey(Counter, <<>>)
           p == PutUint16(readCounter + 1)
<1>1. store' = With(With(store, a, p), c, p)
  BY DEF AssignPrefix
<1>2. r \in Seq(Nat) /\ <<>> \in Seq(Nat)
  BY LayoutAssumption, EmptySeq
<1>3. a # c
  BY <1>2, RegistryIds, FullKeys
<1>4. readCounter + 1 \in Nat /\ 0 < readCounter + 1 /\ readCounter + 1 \in 1 .. MaxPrefix
  BY PrefixAssumption DEF PrefixesApart, AssignPrefix
<1>5. p # NotFound /\ Uint16(p) = readCounter + 1
  <2>1. 0 \in Nat
    OBVIOUS
  <2> QED BY <1>4, <2>1, TableIds, TwoBytes
<1>6. get(Counter, <<>>)' = p /\ PrefixOf(r)' = p
  BY <1>1, <1>3 DEF With, get, PrefixOf
<1>7. readCounter' = readCounter + 1
  <2>1. readCounter' = IF get(Counter, <<>>)' = NotFound THEN 0 ELSE Uint16(get(Counter, <<>>)')
    BY DEF readCounter
  <2> QED BY <1>5, <1>6, <2>1
<1>8. ASSUME NEW q \in Replicas \ {r} PROVE PrefixOf(q)' = PrefixOf(q)
  <2>1. getFullKey(Assignments, q) # a /\ getFullKey(Assignments, q) # c
    BY <1>2, LayoutAssumption, RegistryIds, FullKeys
  <2> QED BY <1>1, <2>1 DEF With, get, PrefixOf
<1>9. \A k \in DOMAIN store' : k \in DOMAIN store \/ Registered(k)
  BY <1>1 DEF With, Registered
<1>10. ASSUME NEW i \in Ids \ {Assignments, Counter}, NEW k \in Seq(Nat)
       PROVE  /\ getFullKey(i, k) \in DOMAIN store' <=> getFullKey(i, k) \in DOMAIN store
              /\ get(i, k)' = get(i, k)
  <2>1. getFullKey(i, k) # a /\ getFullKey(i, k) # c
    BY <1>2, RegistryIds, FullKeys
  <2> QED BY <1>1, <2>1 DEF With, get
<1> QED BY <1>4, <1>5, <1>6, <1>7, <1>8, <1>9, <1>10 DEF AssignPrefix

\* The tables that were open stay open under their ids.
LEMMA AssignKeepsOpen ==
    ASSUME PrefixesApart, NEW r \in Replicas, AssignPrefix(r),
           NEW t \in Layout, Running(t)
    PROVE  t.owner # r /\ Running(t)' /\ Opened(t)' = Opened(t)
BY AssignAssigns, LayoutAssumption DEF Running, Opened

\* The invariant holds.
LEMMA Invariant == Spec => []Inv
<1>1. Init => Inv
  <2> SUFFICES ASSUME Init PROVE Inv
    OBVIOUS
  <2>1. DOMAIN store = {}
    BY DEF Init
  <2>2. readCounter = 0 /\ \A r \in Replicas : PrefixOf(r) = NotFound
    BY <2>1 DEF readCounter, PrefixOf, get
  <2> QED BY <2>1, <2>2, PrefixAssumption DEF Inv, PrefixesApart, RowsHaveOwners
<1>2. Inv /\ [Next]_store => Inv'
  <2> SUFFICES ASSUME Inv, [Next]_store PROVE Inv'
    OBVIOUS
  <2> USE DEF Inv
  <2>1. ASSUME NEW r \in Replicas, AssignPrefix(r) PROVE Inv'
    <3> DEFINE n == readCounter
    <3>1. /\ readCounter' = n + 1 /\ readCounter' \in 1 .. MaxPrefix
          /\ PrefixOf(r)' = PutUint16(n + 1) /\ PrefixOf(r)' # NotFound
          /\ \A q \in Replicas \ {r} : PrefixOf(q)' = PrefixOf(q)
      BY <2>1, AssignAssigns
    <3>2. n \in Nat /\ n + 1 \in Nat /\ 0 < n + 1
      BY PrefixAssumption DEF PrefixesApart
    <3> HIDE DEF n
    <3>3. ASSUME NEW q \in Replicas, PrefixOf(q)' # NotFound
          PROVE  \E m \in 1 .. n + 1 : PrefixOf(q)' = PutUint16(m)
      <4>1. CASE q = r
        BY <4>1, <3>1, <3>2
      <4>2. CASE q # r
        BY <4>2, <3>1, <3>2, <3>3 DEF PrefixesApart, n
      <4> QED BY <4>1, <4>2
    <3>4. ASSUME NEW q \in Replicas \ {r} PROVE PrefixOf(q)' # PrefixOf(r)'
      <4> SUFFICES ASSUME PrefixOf(q)' = PrefixOf(r)' PROVE FALSE
        OBVIOUS
      <4>1. PICK m \in 1 .. n : PrefixOf(q) = PutUint16(m)
        BY <3>1 DEF PrefixesApart, n
      <4>2. m \in Nat /\ 0 < m /\ m # n + 1
        BY <3>2
      <4>3. 0 \in Nat
        OBVIOUS
      <4>4. PutUint16(m) # PutUint16(n + 1)
        BY <3>2, <4>2, <4>3, TableIds
      <4> QED BY <3>1, <4>1, <4>4
    <3>5. PrefixesApart'
      BY <3>1, <3>2, <3>3, <3>4 DEF PrefixesApart
    <3>6. ASSUME NEW t \in Layout, Running(t)
          PROVE  Running(t)' /\ Opened(t)' = Opened(t)
      BY <2>1, <3>6, AssignKeepsOpen
    <3>7. RowsHaveOwners'
      BY <2>1, <3>6, AssignAssigns DEF RowsHaveOwners, Registered
    <3> QED BY <3>5, <3>7
  <2>2. ASSUME NEW t \in Layout, Running(t), Within(t),
               \A k \in DOMAIN store' :
                   k \in DOMAIN store \/ \E e \in Keys[t] \X Values[t] : k = KeyOf(t, e)
        PROVE  Inv'
    <3>1. PrefixesApart'
      BY <2>2, Frame DEF PrefixesApart
    <3>2. RowsHaveOwners'
      BY <2>2, Frame DEF RowsHaveOwners, Registered, KeyOf
    <3> QED BY <3>1, <3>2
  <2>3. ASSUME NEW t \in Layout, Running(t),
               NEW k \in Keys[t], NEW v \in Values[t], Put(t, k, v) \/ Erase(t, k, v)
        PROVE  Inv'
    <3>1. \/ \E b : store' = With(store, KeyOf(t, <<k, v>>), b)
          \/ store' = Without(store, {KeyOf(t, <<k, v>>)})
      BY <2>3, Operations
    <3>2. <<k, v>> \in Keys[t] \X Values[t]
      OBVIOUS
    <3>3. \A j \in DOMAIN store' :
              j \in DOMAIN store \/ \E e \in Keys[t] \X Values[t] : j = KeyOf(t, e)
      BY <3>1, <3>2 DEF With, Without
    <3> QED BY <2>2, <2>3, <3>3, OperationsStayWithin
  <2>4. ASSUME NEW t \in Layout, Running(t), Clear(t) PROVE Inv'
    <3>1. DOMAIN store' \subseteq DOMAIN store
      BY <2>4 DEF Clear, DropPrefix, Without
    <3> QED BY <2>2, <2>4, <3>1, OperationsStayWithin
  <2>5. CASE UNCHANGED store
    BY <2>5 DEF PrefixesApart, RowsHaveOwners, readCounter, PrefixOf, Registered, Running,
                Opened, get
  <2> QED BY <2>1, <2>3, <2>4, <2>5 DEF Next
<1> QED BY <1>1, <1>2, PTL DEF Spec

-----------------------------------------------------------------------------
(* The tables are stores of their own.                                     *)

\* A prefix that is assigned was nobody's: the tables under it begin empty.
LEMMA NewTablesAreEmpty ==
    ASSUME Inv, NEW r \in Replicas, AssignPrefix(r),
           NEW t \in Layout, ~Running(t), Running(t)'
    PROVE  \A x \in Seq(Nat) : getFullKey(Opened(t)'.id, x) \notin DOMAIN store'
<1> USE DEF Inv
<1> DEFINE n == readCounter + 1
<1>1. t.owner = r
  BY AssignAssigns, LayoutAssumption DEF Running
<1>2. n \in Nat /\ 0 < n /\ t.byte \in Nat
  <2>1. n \in Nat /\ 0 < n
    BY PrefixAssumption DEF PrefixesApart
  <2> QED BY <2>1, LayoutAssumption
<1>3. Opened(t)'.id = TableId(n, t.byte)
  BY <1>1, AssignAssigns DEF Opened, TableId
<1> HIDE DEF n
<1>4. TableId(n, t.byte) \in Ids \ {Assignments, Counter}
  BY <1>2, TableIds
<1>5. ASSUME NEW u \in Layout, Running(u) PROVE Opened(u).id # TableId(n, t.byte)
  <2>1. PICK m \in 1 .. readCounter : PrefixOf(u.owner) = PutUint16(m)
    BY <1>5, LayoutAssumption DEF PrefixesApart, Running
  <2>2. m \in Nat /\ 0 < m /\ m # n /\ u.byte \in Nat
    BY LayoutAssumption DEF PrefixesApart, n
  <2>3. Opened(u).id = TableId(m, u.byte)
    BY <2>1 DEF Opened, TableId
  <2>4. TableId(m, u.byte) # TableId(n, t.byte)
    BY <1>2, <2>2, TableIds
  <2> QED BY <2>3, <2>4
<1>6. ASSUME NEW x \in Seq(Nat)
      PROVE  getFullKey(TableId(n, t.byte), x) \notin DOMAIN store'
  <2> DEFINE j == TableId(n, t.byte)
             k == getFullKey(j, x)
  <2>1. ~Registered(k)
    <3> HIDE DEF j
    <3>1. \A y \in Seq(Nat) : /\ getFullKey(j, x) # getFullKey(Assignments, y)
                              /\ getFullKey(j, x) # getFullKey(Counter, y)
      BY <1>4, RegistryIds, FullKeys DEF j
    <3> QED BY <3>1, EmptySeq, LayoutAssumption DEF Registered
  <2>2. ASSUME NEW u \in Layout, Running(u), NEW f \in Keys[u] \X Values[u]
        PROVE  k # getFullKey(Opened(u).id, Rows[u][f])
    <3>1. Opened(u).id \in Ids /\ Rows[u][f] \in Seq(Nat)
      BY <2>2, OpenIds, RowKeys
    <3> QED BY <1>4, <1>5, <2>2, <3>1, FullKeys
  <2>3. k \notin DOMAIN store
    BY <2>1, <2>2 DEF RowsHaveOwners
  <2> QED BY <2>1, <2>3, AssignAssigns
<1> QED BY <1>3, <1>6

\* The tables keep what they have when a prefix is assigned.
LEMMA AssignKeepsEntries ==
    ASSUME Inv, NEW r \in Replicas, AssignPrefix(r), NEW t \in Layout
    PROVE  EntriesOf(t)' = EntriesOf(t)
<1> USE DEF Inv
<1>1. CASE Running(t)
  <2>1. Running(t)' /\ Opened(t)' = Opened(t)
    BY <1>1, AssignKeepsOpen
  <2>2. PICK i \in Ids \ {Assignments, Counter} : i = Opened(t).id
    BY <1>1, OpenIds
  <2>3. ASSUME NEW e \in Keys[t] \X Values[t]
        PROVE  /\ getFullKey(i, Rows[t][e]) \in DOMAIN store'
                      <=> getFullKey(i, Rows[t][e]) \in DOMAIN store
               /\ get(i, e[1])' = get(i, e[1])
    <3>1. Rows[t][e] \in Seq(Nat) /\ e[1] \in Seq(Nat)
      BY RowKeys, CodecAssumption
    <3> QED BY <3>1, AssignAssigns
  <2>4. ASSUME NEW e \in Keys[t] \X Values[t]
        PROVE  Get(Opened(t), e[1])' = Get(Opened(t), e[1])
    BY <2>1, <2>2, <2>3 DEF Get
  <2> QED BY <1>1, <2>1, <2>2, <2>3, <2>4 DEF EntriesOf
<1>2. CASE ~Running(t) /\ ~Running(t)'
  BY <1>2 DEF EntriesOf
<1>3. CASE ~Running(t) /\ Running(t)'
  <2>1. \A e \in Keys[t] \X Values[t] : getFullKey(Opened(t)'.id, Rows[t][e]) \notin DOMAIN store'
    BY <1>3, NewTablesAreEmpty, RowKeys
  <2> QED BY <1>3, <2>1 DEF EntriesOf
<1> QED BY <1>1, <1>2, <1>3

\* What is done in one table is seen in no other: the shared store implements
\* SeparateTables, whatever the replicas, the layout and the keys.
THEOREM TablesStayApart == Spec => KeepsTablesApart
<1> DEFINE entries == [t \in Layout |-> EntriesOf(t)]
<1>1. Init => Separate!Init
  <2> SUFFICES ASSUME Init PROVE Separate!Init
    OBVIOUS
  <2>1. \A t \in Layout : ~Running(t)
    BY DEF Init, Running, PrefixOf, get
  <2> QED BY <2>1 DEF Separate!Init, EntriesOf
<1>2. ASSUME Inv, [Next]_store PROVE [Separate!Next]_entries
  <2>1. ASSUME NEW r \in Replicas, AssignPrefix(r) PROVE UNCHANGED entries
    BY <1>2, <2>1, AssignKeepsEntries
  <2>2. ASSUME NEW t \in Layout, Running(t), Within(t)
        PROVE  \A u \in Layout \ {t} : entries'[u] = entries[u]
    BY <1>2, <2>2, Frame DEF Inv
  <2>3. ASSUME NEW t \in Layout, NEW k \in Keys[t], NEW v \in Values[t]
        PROVE  Separate!Others(t, k, v) = OthersOf(t, k, v)
    BY DEF Separate!Others, OthersOf
  <2>4. ASSUME NEW t \in Layout, Running(t),
               NEW k \in Keys[t], NEW v \in Values[t], Put(t, k, v) \/ Erase(t, k, v)
        PROVE  Separate!Next
    <3>1. \A u \in Layout \ {t} : entries'[u] = entries[u]
      BY <1>2, <2>2, <2>4, OperationsStayWithin DEF Inv
    <3>2. \/ entries'[t] = OthersOf(t, k, v) \cup {<<k, v>>}
          \/ entries'[t] = OthersOf(t, k, v)
      BY <1>2, <2>4, PutPuts, EraseErases DEF Inv
    <3>3. Separate!Put(t, k, v) \/ Separate!Erase(t, k, v)
      BY <2>3, <3>2 DEF Separate!Put, Separate!Erase
    <3> QED BY <3>1, <3>3 DEF Separate!Next
  <2>5. ASSUME NEW t \in Layout, Running(t), Clear(t) PROVE Separate!Next
    <3>1. \A u \in Layout \ {t} : entries'[u] = entries[u]
      BY <1>2, <2>2, <2>5, OperationsStayWithin DEF Inv
    <3>2. Separate!Clear(t)
      BY <1>2, <2>5, ClearClears DEF Inv, Separate!Clear
    <3> QED BY <3>1, <3>2 DEF Separate!Next
  <2>6. CASE UNCHANGED store
    BY <2>6 DEF EntriesOf, Running, Opened, PrefixOf, Get, get
  <2> QED BY <1>2, <2>1, <2>4, <2>5, <2>6 DEF Next
<1> QED BY <1>1, <1>2, Invariant, PTL DEF Spec, KeepsTablesApart, Separate!Spec

\* A key is reported not empty exactly when it has an item: no row of another
\* key, of another table or of the registry is taken for one of its own.
THEOREM NotEmptyIsRight == Spec => []NotEmptyIsExact
<1>1. ASSUME Inv PROVE NotEmptyIsExact
  <2> USE <1>1 DEF Inv
  <2> SUFFICES ASSUME NEW t \in Layout, IsIndex(t), Running(t), NEW pk \in Keys[t]
               PROVE  NotEmpty(Opened(t), pk) <=> ItemsUnder(t, pk) # {}
    BY DEF NotEmptyIsExact, RunningIndexes
  <2> DEFINE i == Opened(t).id
             p == getFullKey(i, pk)
  <2>1. i \in Ids /\ i # Assignments /\ i # Counter /\ pk \in Seq(Nat)
    BY OpenIds, CodecAssumption
  <2>2. NotEmpty(Opened(t), pk) <=> \E k \in DOMAIN store : IsPrefix(p, k)
    BY DEF NotEmpty, prefixExists
  <2>3. ASSUME NEW v \in Values[t]
        PROVE  /\ <<pk, v>> \in EntriesOf(t) <=> KeyOf(t, <<pk, v>>) \in DOMAIN store
               /\ IsPrefix(p, KeyOf(t, <<pk, v>>))
    <3>1. Encode(t.type, v) \in Seq(Nat)
      BY CodecAssumption
    <3>2. Rows[t][<<pk, v>>] = pk \o Encode(t.type, v)
      BY DEF Rows, Row
    <3>3. IsPrefix(i \o pk, i \o (pk \o Encode(t.type, v)))
      <4> HIDE DEF i
      <4> QED BY <2>1, <3>1, PrefixOfExtension DEF Ids
    <3> QED BY <3>2, <3>3 DEF EntriesOf, KeyOf, getFullKey
  <2>4. ASSUME NEW k \in DOMAIN store, IsPrefix(p, k)
        PROVE  \E v \in Values[t] : k = KeyOf(t, <<pk, v>>)
    <3>1. ASSUME NEW j \in Ids, NEW x \in Seq(Nat), k = getFullKey(j, x) PROVE i = j
      <4> HIDE DEF i
      <4>1. k \in Seq(Nat)
        BY <3>1, FullKeys
      <4>2. i \in Seq(Nat) /\ IsPrefix(i \o pk, k)
        BY <2>1, <2>4 DEF getFullKey, Ids
      <4>3. IsPrefix(i, k)
        BY <2>1, <4>1, <4>2, FullKeyBegins
      <4> QED BY <2>1, <3>1, <4>3, FullKeys
    <3>2. ~Registered(k)
      BY <2>1, <3>1, RegistryIds, EmptySeq, LayoutAssumption DEF Registered
    <3>3. PICK u \in Layout : /\ Running(u)
                              /\ \E e \in Keys[u] \X Values[u] : k = KeyOf(u, e)
      BY <3>2 DEF RowsHaveOwners, KeyOf
    <3>4. PICK e \in Keys[u] \X Values[u] : k = KeyOf(u, e)
      BY <3>3
    <3>5. u = t
      <4>1. Opened(u).id \in Ids /\ Rows[u][e] \in Seq(Nat)
        BY <3>3, OpenIds, RowKeys
      <4> QED BY <3>1, <3>3, <3>4, <4>1, OpenIds DEF KeyOf
    <3>6. e = <<e[1], e[2]>> /\ e[1] \in Keys[t] /\ e[2] \in Values[t]
      BY <3>5
    <3>7. e[1] = pk
      <4> DEFINE b == Encode(t.type, e[2])
      <4>1. e[1] \in Seq(Nat) /\ b \in Seq(Nat) /\ Len(pk) = Len(e[1])
        BY <3>6, CodecAssumption
      <4>2. Rows[t][e] = e[1] \o b
        BY <3>5, <3>6 DEF Rows, Row
      <4> HIDE DEF b, i
      <4>3. IsPrefix(i \o pk, i \o (e[1] \o b))
        BY <2>4, <3>4, <3>5, <4>2 DEF KeyOf, getFullKey, i
      <4> QED BY <2>1, <4>1, <4>3, PrefixOfExtension DEF Ids
    <3> QED BY <3>4, <3>5, <3>6, <3>7
  <2> QED BY <2>2, <2>3, <2>4 DEF ItemsUnder
<1> QED BY <1>1, Invariant, PTL

-----------------------------------------------------------------------------
(* What a table's rows hold.                                               *)

\* A row of a table of values holds the bytes of one of its values.
RowsHoldValues ==
    \A t \in Layout : Running(t) /\ ~IsIndex(t) =>
        \A k \in Keys[t] : getFullKey(Opened(t).id, k) \in DOMAIN store =>
            \E v \in Values[t] : store[getFullKey(Opened(t).id, k)] = Encode(t.type, v)

RowsInv == IsFiniteSet(DOMAIN store) /\ RowsHoldValues

\* Every key on the store is a string of bytes.
LEMMA KeysAreStrings ==
    ASSUME Inv
    PROVE  DOMAIN store \subseteq Seq(Nat)
<1> SUFFICES ASSUME NEW k \in DOMAIN store PROVE k \in Seq(Nat)
  OBVIOUS
<1>1. CASE Registered(k)
  <2>1. \A i \in Ids, x \in Seq(Nat) : getFullKey(i, x) \in Seq(Nat)
    BY FullKeys
  <2>2. Counter \in Ids /\ Assignments \in Ids /\ <<>> \in Seq(Nat) /\ Replicas \subseteq Seq(Nat)
    BY RegistryIds, EmptySeq, LayoutAssumption
  <2> QED BY <1>1, <2>1, <2>2 DEF Registered
<1>2. ASSUME NEW t \in Layout, Running(t), NEW e \in Keys[t] \X Values[t],
             k = getFullKey(Opened(t).id, Rows[t][e])
      PROVE  k \in Seq(Nat)
  BY <1>2, EntryKeys DEF Inv, KeyOf
<1> QED BY <1>1, <1>2 DEF Inv, RowsHaveOwners

\* Writing one row, or taking rows away, leaves finitely many.
LEMMA StaysFinite ==
    ASSUME IsFiniteSet(DOMAIN store)
    PROVE  /\ \A k, b : IsFiniteSet(DOMAIN With(store, k, b))
           /\ \A S : IsFiniteSet(DOMAIN Without(store, S))
<1>1. ASSUME NEW k, NEW b PROVE IsFiniteSet(DOMAIN With(store, k, b))
  <2>1. DOMAIN With(store, k, b) = DOMAIN store \cup {k}
    BY DEF With
  <2> QED BY <2>1, FS_AddElement
<1>2. ASSUME NEW S PROVE IsFiniteSet(DOMAIN Without(store, S))
  <2>1. DOMAIN Without(store, S) \subseteq DOMAIN store
    BY DEF Without
  <2> QED BY <2>1, FS_Subset
<1> QED BY <1>1, <1>2

\* Every operation keeps them so.
LEMMA RowsInvariant == Spec => []RowsInv
<1>1. Init => RowsInv
  <2> SUFFICES ASSUME Init PROVE RowsInv
    OBVIOUS
  <2>1. DOMAIN store = {}
    BY DEF Init
  <2> QED BY <2>1, FS_EmptySet DEF RowsInv, RowsHoldValues
<1>2. Inv /\ RowsInv /\ [Next]_store => RowsInv'
  <2> SUFFICES ASSUME Inv, RowsInv, [Next]_store PROVE RowsInv'
    OBVIOUS
  <2>1. ASSUME NEW r \in Replicas, AssignPrefix(r) PROVE RowsInv'
    <3>1. IsFiniteSet(DOMAIN store')
      <4> DEFINE p == PutUint16(readCounter + 1)
                 s == With(store, getFullKey(Assignments, r), p)
      <4>1. store' = With(s, getFullKey(Counter, <<>>), p)
        BY <2>1 DEF AssignPrefix
      <4>2. IsFiniteSet(DOMAIN s)
        BY StaysFinite DEF RowsInv
      <4>3. DOMAIN store' = DOMAIN s \cup {getFullKey(Counter, <<>>)}
        BY <4>1 DEF With
      <4> HIDE DEF s
      <4> QED BY <4>2, <4>3, FS_AddElement
    <3>2. ASSUME NEW t \in Layout, Running(t)', ~IsIndex(t), NEW k \in Keys[t],
                 getFullKey(Opened(t)'.id, k) \in DOMAIN store'
          PROVE  \E v \in Values[t] : store'[getFullKey(Opened(t)'.id, k)] = Encode(t.type, v)
      <4>1. k \in Seq(Nat)
        BY CodecAssumption
      <4>2. Running(t)
        BY <2>1, <3>2, <4>1, NewTablesAreEmpty
      <4>3. Opened(t)' = Opened(t)
        BY <2>1, <4>2, AssignKeepsOpen DEF Inv
      <4>4. Opened(t).id \in Ids \ {Assignments, Counter}
        BY <4>2, OpenIds DEF Inv
      <4>5. /\ getFullKey(Opened(t).id, k) \in DOMAIN store
            /\ store'[getFullKey(Opened(t).id, k)] = store[getFullKey(Opened(t).id, k)]
        BY <2>1, <3>2, <4>1, <4>3, <4>4, AssignAssigns DEF get, Inv
      <4> QED BY <3>2, <4>2, <4>3, <4>5 DEF RowsInv, RowsHoldValues
    <3> QED BY <3>1, <3>2 DEF RowsInv, RowsHoldValues
  <2>2. ASSUME NEW t \in Layout, Running(t), Within(t),
               \A k \in Keys[t] : ~IsIndex(t) /\ getFullKey(Opened(t).id, k) \in DOMAIN store' =>
                   \/ /\ getFullKey(Opened(t).id, k) \in DOMAIN store
                      /\ store'[getFullKey(Opened(t).id, k)] = store[getFullKey(Opened(t).id, k)]
                   \/ \E v \in Values[t] :
                          store'[getFullKey(Opened(t).id, k)] = Encode(t.type, v)
        PROVE  RowsHoldValues'
    <3>1. ASSUME NEW u \in Layout, Running(u)', ~IsIndex(u), NEW k \in Keys[u],
                 getFullKey(Opened(u)'.id, k) \in DOMAIN store'
          PROVE  \E v \in Values[u] : store'[getFullKey(Opened(u)'.id, k)] = Encode(u.type, v)
      <4>1. Running(u) /\ Opened(u)' = Opened(u)
        BY <2>2, <3>1, Frame DEF Inv
      <4>2. CASE u = t
        BY <2>2, <3>1, <4>1, <4>2 DEF RowsInv, RowsHoldValues
      <4>3. CASE u # t
        <5>1. k \in Seq(Nat) /\ Opened(u).id \in Ids /\ Opened(t).id \in Ids
              /\ Opened(u).id # Opened(t).id
          BY <2>2, <4>1, <4>3, OpenIds, CodecAssumption DEF Inv
        <5>2. /\ getFullKey(Opened(u).id, k) \in Seq(Nat)
              /\ ~IsPrefix(Opened(t).id, getFullKey(Opened(u).id, k))
          BY <5>1, FullKeys
        <5> QED BY <2>2, <3>1, <4>1, <5>2 DEF Within, RowsInv, RowsHoldValues
      <4> QED BY <4>2, <4>3
    <3> QED BY <3>1 DEF RowsHoldValues
  <2>3. ASSUME NEW t \in Layout, Running(t), NEW k \in Keys[t], NEW v \in Values[t],
               Put(t, k, v) \/ Erase(t, k, v)
        PROVE  RowsInv'
    <3>1. Within(t)
      BY <2>3, OperationsStayWithin DEF Inv
    <3>2. /\ Put(t, k, v) => store' = With(store, KeyOf(t, <<k, v>>),
                                           IF IsIndex(t) THEN <<>> ELSE Encode(t.type, v))
          /\ Erase(t, k, v) => store' = Without(store, {KeyOf(t, <<k, v>>)})
      BY Operations
    <3>3. IsFiniteSet(DOMAIN store')
      BY <2>3, <3>2, StaysFinite DEF RowsInv
    <3>4. \A j \in Keys[t] : ~IsIndex(t) /\ getFullKey(Opened(t).id, j) \in DOMAIN store' =>
              \/ /\ getFullKey(Opened(t).id, j) \in DOMAIN store
                 /\ store'[getFullKey(Opened(t).id, j)] = store[getFullKey(Opened(t).id, j)]
              \/ \E w \in Values[t] :
                     store'[getFullKey(Opened(t).id, j)] = Encode(t.type, w)
      BY <2>3, <3>2 DEF With, Without
    <3> QED BY <2>2, <2>3, <3>1, <3>3, <3>4 DEF RowsInv
  <2>4. ASSUME NEW t \in Layout, Running(t), Clear(t) PROVE RowsInv'
    <3>1. Within(t)
      BY <2>4, OperationsStayWithin DEF Inv
    <3>2. store' = Without(store, {k \in DOMAIN store : IsPrefix(Opened(t).id, k)})
      BY <2>4 DEF Clear, DropPrefix
    <3>3. IsFiniteSet(DOMAIN store')
      BY <3>2, StaysFinite DEF RowsInv
    <3>4. \A j \in DOMAIN store' : j \in DOMAIN store /\ store'[j] = store[j]
      BY <3>2 DEF Without
    <3> QED BY <2>2, <2>4, <3>1, <3>3, <3>4 DEF RowsInv
  <2>5. CASE UNCHANGED store
    BY <2>5 DEF RowsInv, RowsHoldValues, Running, Opened, PrefixOf, get
  <2> QED BY <2>1, <2>3, <2>4, <2>5 DEF Next
<1> QED BY <1>1, <1>2, Invariant, PTL DEF Spec

\* Together: what the properties of listings follow from.
LEMMA StoreInvariant == Spec => [](Inv /\ RowsInv /\ StoreOfStrings)
<1>1. Inv /\ RowsInv => StoreOfStrings
  BY KeysAreStrings DEF RowsInv, StoreOfStrings
<1> QED BY <1>1, Invariant, RowsInvariant, PTL

-----------------------------------------------------------------------------
(* The keys of an open table.                                              *)

\* They are those of the rows of its entries.
LEMMA KeysOfTable ==
    ASSUME Inv, RowsInv, NEW t \in Layout, Running(t)
    PROVE  KeysUnder(Opened(t).id) = {Rows[t][e] : e \in EntriesOf(t)}
<1> DEFINE id == Opened(t).id
<1>1. id \in Ids /\ id # Assignments /\ id # Counter /\ Opened(t).type = t.type
  BY OpenIds DEF Inv, Opened
<1>2. EntriesOf(t) = {e \in Keys[t] \X Values[t] :
                         /\ getFullKey(id, Rows[t][e]) \in DOMAIN store
                         /\ IsIndex(t) \/ Get(Opened(t), e[1]) = e[2]}
  BY DEF EntriesOf
<1>3. ASSUME NEW e \in EntriesOf(t) PROVE Rows[t][e] \in KeysUnder(id)
  BY <1>2, RowKeys DEF KeysUnder
<1>4. ASSUME NEW k \in KeysUnder(id) PROVE \E e \in EntriesOf(t) : k = Rows[t][e]
  <2>1. k \in Seq(Nat) /\ getFullKey(id, k) \in DOMAIN store
    BY DEF KeysUnder
  <2>2. ASSUME NEW j \in Ids, NEW x \in Seq(Nat), getFullKey(id, k) = getFullKey(j, x)
        PROVE  id = j /\ k = x
    <3> HIDE DEF id
    <3> QED BY <1>1, <2>1, <2>2, FullKeys
  <2>3. ~Registered(getFullKey(id, k))
    <3> HIDE DEF id
    <3> QED BY <1>1, <2>2, RegistryIds, EmptySeq, LayoutAssumption DEF Registered
  <2>4. PICK u \in Layout : /\ Running(u)
                            /\ \E e \in Keys[u] \X Values[u] :
                                   getFullKey(id, k) = getFullKey(Opened(u).id, Rows[u][e])
    BY <2>1, <2>3 DEF Inv, RowsHaveOwners
  <2>5. PICK e \in Keys[u] \X Values[u] :
            getFullKey(id, k) = getFullKey(Opened(u).id, Rows[u][e])
    BY <2>4
  <2>6. u = t /\ k = Rows[t][e]
    <3>1. Opened(u).id \in Ids /\ Rows[u][e] \in Seq(Nat)
      BY <2>4, OpenIds, RowKeys DEF Inv
    <3>2. id = Opened(u).id /\ k = Rows[u][e]
      BY <2>2, <2>5, <3>1
    <3> QED BY <2>4, <3>2, OpenIds DEF Inv
  <2>7. CASE IsIndex(t)
    BY <1>2, <2>1, <2>6, <2>7
  <2>8. CASE ~IsIndex(t)
    <3>1. k = e[1] /\ k \in Keys[t]
      BY <2>6, <2>8, RowKeys
    <3>2. PICK v \in Values[t] : store[getFullKey(id, k)] = Encode(t.type, v)
      BY <2>1, <2>8, <3>1 DEF RowsInv, RowsHoldValues
    <3>3. Encode(t.type, v) # NotFound /\ Decode(t.type, Encode(t.type, v)) = v
      BY CodecAssumption, NotFoundAssumption
    <3>4. Get(Opened(t), k) = v
      BY <1>1, <2>1, <3>2, <3>3 DEF Get, get
    <3>5. <<k, v>> \in Keys[t] \X Values[t] /\ Rows[t][<<k, v>>] = k
      BY <2>8, <3>1 DEF Rows
    <3>6. <<k, v>> \in EntriesOf(t)
      BY <1>2, <2>1, <3>4, <3>5
    <3> QED BY <3>5, <3>6
  <2> QED BY <2>7, <2>8
<1> QED BY <1>3, <1>4

\* A table of values has the keys of its entries, and each has one value, which is
\* the one that is read.
LEMMA ValuesOfTable ==
    ASSUME Inv, RowsInv, NEW t \in Layout, Running(t), ~IsIndex(t)
    PROVE  /\ KeysUnder(Opened(t).id) = KeysIn(t)
           /\ \A k \in KeysIn(t) :
                  /\ ValueIn(t, k) = Get(Opened(t), k)
                  /\ ValueIn(t, k) = Decode(t.type, get(Opened(t).id, k))
<1> DEFINE id == Opened(t).id
<1>1. /\ EntriesOf(t) \subseteq Keys[t] \X Values[t]
      /\ \A e \in EntriesOf(t) : /\ Get(Opened(t), e[1]) = e[2]
                                 /\ getFullKey(id, Rows[t][e]) \in DOMAIN store
  BY DEF EntriesOf
<1>2. \A e \in EntriesOf(t) : Rows[t][e] = e[1]
  BY <1>1 DEF Rows
<1>3. KeysUnder(id) = {Rows[t][e] : e \in EntriesOf(t)}
  BY KeysOfTable
<1>4. KeysIn(t) = {Rows[t][e] : e \in EntriesOf(t)}
  <2>1. ASSUME NEW k \in KeysIn(t) PROVE \E e \in EntriesOf(t) : k = Rows[t][e]
    <3>1. PICK v \in Values[t] : <<k, v>> \in EntriesOf(t)
      BY DEF KeysIn
    <3> QED BY <3>1, <1>2
  <2>2. ASSUME NEW e \in EntriesOf(t) PROVE Rows[t][e] \in KeysIn(t)
    <3>1. e = <<e[1], e[2]>> /\ e[1] \in Keys[t] /\ e[2] \in Values[t]
      BY <1>1
    <3> QED BY <3>1, <1>2 DEF KeysIn
  <2> QED BY <2>1, <2>2
<1>5. ASSUME NEW k \in KeysIn(t)
      PROVE  ValueIn(t, k) = Get(Opened(t), k) /\ Get(Opened(t), k) = Decode(t.type, get(id, k))
  <2>1. PICK v \in Values[t] : <<k, v>> \in EntriesOf(t)
    BY DEF KeysIn
  <2>2. \A w : <<k, w>> \in EntriesOf(t) => w = Get(Opened(t), k)
    BY <1>1
  <2>3. ValueIn(t, k) = Get(Opened(t), k)
    BY <2>1, <2>2 DEF ValueIn
  <2>4. getFullKey(id, k) \in DOMAIN store /\ k \in Keys[t]
    BY <1>1, <1>2, <2>1 DEF KeysIn
  <2>5. PICK w \in Values[t] : store[getFullKey(id, k)] = Encode(t.type, w)
    BY <2>4 DEF RowsInv, RowsHoldValues
  <2>6. get(id, k) # NotFound
    BY <2>4, <2>5, CodecAssumption, NotFoundAssumption DEF get
  <2> QED BY <2>3, <2>6 DEF Get, Opened
<1> QED BY <1>3, <1>4, <1>5

\* The keys of an index under a PK are the rows of the PK's items, and what is left
\* of a row without the PK is its item.
LEMMA ItemsOfIndex ==
    ASSUME Inv, RowsInv, NEW t \in Layout, Running(t), IsIndex(t), NEW pk \in Keys[t]
    PROVE  /\ {k \in KeysUnder(Opened(t).id) : IsPrefix(pk, k)}
                  = {Row(t, pk, v) : v \in ItemsUnder(t, pk)}
           /\ \A v \in ItemsUnder(t, pk) :
                  /\ ItemOf(Opened(t), pk, Row(t, pk, v)) = v
                  /\ Encode(t.type, v) \in Seq(Nat) /\ v \in Values[t]
                  /\ Row(t, pk, v) = pk \o Encode(t.type, v) /\ Row(t, pk, v) \in Seq(Nat)
<1> DEFINE id == Opened(t).id
<1>1. /\ pk \in Seq(Nat) /\ Opened(t).type = t.type
      /\ EntriesOf(t) \subseteq Keys[t] \X Values[t]
  BY CodecAssumption DEF Opened, EntriesOf
<1>2. ASSUME NEW v \in ItemsUnder(t, pk)
      PROVE  /\ ItemOf(Opened(t), pk, Row(t, pk, v)) = v
             /\ Encode(t.type, v) \in Seq(Nat) /\ v \in Values[t]
             /\ Row(t, pk, v) = pk \o Encode(t.type, v) /\ Row(t, pk, v) \in Seq(Nat)
             /\ <<pk, v>> \in EntriesOf(t) /\ Rows[t][<<pk, v>>] = Row(t, pk, v)
  <2> DEFINE b == Encode(t.type, v)
  <2>1. v \in Values[t] /\ <<pk, v>> \in EntriesOf(t)
    BY DEF ItemsUnder
  <2>2. b \in Seq(Nat) /\ Decode(t.type, b) = v
    BY <2>1, CodecAssumption
  <2>3. Row(t, pk, v) = pk \o b
    BY DEF Row
  <2>4. ItemOf(Opened(t), pk, Row(t, pk, v))
            = Decode(t.type, SubSeq(Row(t, pk, v), Len(pk) + 1, Len(Row(t, pk, v))))
    BY <1>1 DEF ItemOf
  <2> HIDE DEF b
  <2>5. pk \o b \in Seq(Nat) /\ SubSeq(pk \o b, Len(pk) + 1, Len(pk \o b)) = b
    BY <1>1, <2>2, FullKeyOf DEF getFullKey
  <2>6. Rows[t][<<pk, v>>] = Row(t, pk, v)
    BY <2>1 DEF Rows
  <2> QED BY <2>1, <2>2, <2>3, <2>4, <2>5, <2>6 DEF b
<1>3. ASSUME NEW e \in EntriesOf(t), IsPrefix(pk, Rows[t][e])
      PROVE  \E v \in ItemsUnder(t, pk) : Rows[t][e] = Row(t, pk, v)
  <2>1. e = <<e[1], e[2]>> /\ e[1] \in Keys[t] /\ e[2] \in Values[t]
    BY <1>1
  <2> DEFINE b == Encode(t.type, e[2])
  <2>2. e[1] \in Seq(Nat) /\ b \in Seq(Nat) /\ Len(pk) = Len(e[1])
    BY <2>1, CodecAssumption
  <2>3. Rows[t][e] = e[1] \o b
    BY <2>1 DEF Rows, Row
  <2>4. e[1] = pk
    <3> HIDE DEF b
    <3> QED BY <1>1, <1>3, <2>2, <2>3, PrefixIsSame
  <2>5. e[2] \in ItemsUnder(t, pk)
    BY <2>1, <2>4 DEF ItemsUnder
  <2> QED BY <2>3, <2>4, <2>5 DEF Row
<1>4. ASSUME NEW v \in ItemsUnder(t, pk) PROVE IsPrefix(pk, Row(t, pk, v))
  <2> DEFINE b == Encode(t.type, v)
  <2>1. b \in Seq(Nat) /\ Row(t, pk, v) = pk \o b
    BY <1>2
  <2> HIDE DEF b
  <2> QED BY <1>1, <2>1, PrefixIsSame
<1>5. KeysUnder(id) = {Rows[t][e] : e \in EntriesOf(t)}
  BY KeysOfTable
<1>6. {k \in KeysUnder(id) : IsPrefix(pk, k)} = {Row(t, pk, v) : v \in ItemsUnder(t, pk)}
  <2>1. ASSUME NEW k \in KeysUnder(id), IsPrefix(pk, k)
        PROVE  \E v \in ItemsUnder(t, pk) : k = Row(t, pk, v)
    <3>1. PICK e \in EntriesOf(t) : k = Rows[t][e]
      BY <1>5
    <3> QED BY <2>1, <3>1, <1>3
  <2>2. ASSUME NEW v \in ItemsUnder(t, pk)
        PROVE  Row(t, pk, v) \in KeysUnder(id) /\ IsPrefix(pk, Row(t, pk, v))
    BY <1>2, <1>4, <1>5
  <2> HIDE DEF id
  <2> QED BY <2>1, <2>2
<1> QED BY <1>2, <1>6

-----------------------------------------------------------------------------
(* Numbers and their bytes.                                                *)

\* c[i] is the number that the first i bytes of b spell, for i up to n.
Spells(c, b, n) ==
    c \in [0 .. n -> Nat] /\ c[0] = 0 /\ \A i \in 1 .. n : c[i] = 256 * c[i - 1] + b[i]

\* bytesToUint reads the number that the bytes spell.
LEMMA BytesSpell ==
    ASSUME NEW width \in Nat, NEW b \in Seq(Nat), Len(b) = width
    PROVE  \E c : Spells(c, b, width) /\ bytesToUint(width, b) = c[width]
<1> DEFINE Step(g) == [i \in 0 .. width |-> IF i = 0 THEN 0 ELSE 256 * g[i - 1] + b[i]]
           w == CHOOSE g : g = Step(g)
           T == {n \in 0 .. width : ~\E c : Spells(c, b, n)}
<1>1. T = {}
  <2> SUFFICES ASSUME T # {} PROVE FALSE
    OBVIOUS
  <2>1. T \subseteq Nat
    OBVIOUS
  <2>2. PICK n \in T : \A m \in T : n <= m
    <3> HIDE DEF T
    <3> QED BY <2>1, LeastNatural
  <2>3. Spells([i \in 0 .. 0 |-> 0], b, 0)
    BY DEF Spells
  <2>4. n \in 1 .. width /\ n - 1 \in 0 .. width
    BY <2>3
  <2>5. n - 1 \notin T
    <3> HIDE DEF T
    <3> QED BY <2>2, <2>4
  <2>6. PICK c : Spells(c, b, n - 1)
    BY <2>4, <2>5
  <2> DEFINE d == [i \in 0 .. n |-> IF i = n THEN 256 * c[n - 1] + b[n] ELSE c[i]]
  <2>7. c[n - 1] \in Nat /\ b[n] \in Nat
    BY <2>4, <2>6 DEF Spells
  <2>8. d \in [0 .. n -> Nat] /\ d[0] = 0
    BY <2>4, <2>6, <2>7 DEF Spells
  <2>9. ASSUME NEW i \in 1 .. n PROVE d[i] = 256 * d[i - 1] + b[i]
    <3>1. i - 1 \in 0 .. n /\ i - 1 # n /\ i \in 0 .. n
      BY <2>4
    <3>2. d[i - 1] = c[i - 1]
      BY <3>1
    <3>3. CASE i = n
      BY <3>1, <3>2, <3>3
    <3>4. CASE i # n
      <4>1. i \in 1 .. n - 1
        BY <2>4, <3>4
      <4> QED BY <3>1, <3>2, <3>4, <4>1, <2>6 DEF Spells
    <3> QED BY <3>3, <3>4
  <2>10. Spells(d, b, n)
    BY <2>8, <2>9 DEF Spells
  <2> QED BY <2>2, <2>10
<1>2. PICK c : Spells(c, b, width)
  <2>1. width \in 0 .. width
    OBVIOUS
  <2> QED BY <1>1, <2>1
<1>3. c = Step(c)
  BY <1>2 DEF Spells
<1>4. w = Step(w)
  <2> HIDE DEF Step
  <2> QED BY <1>3
<1>5. bytesToUint(width, b) = w[width]
  BY DEF bytesToUint
<1> HIDE DEF w
<1>6. /\ w = [i \in 0 .. width |-> w[i]]
      /\ w[0] = 0 /\ \A i \in 1 .. width : w[i] = 256 * w[i - 1] + b[i]
  <2>1. w = [i \in 0 .. width |-> IF i = 0 THEN 0 ELSE 256 * w[i - 1] + b[i]]
    BY <1>4
  <2>2. \A i \in 0 .. width : w[i] = IF i = 0 THEN 0 ELSE 256 * w[i - 1] + b[i]
    BY <2>1
  <2>3. w = [i \in 0 .. width |-> w[i]]
    BY <2>1, <2>2
  <2>4. w[0] = 0
    BY <2>2
  <2>5. ASSUME NEW i \in 1 .. width PROVE w[i] = 256 * w[i - 1] + b[i]
    <3>1. i \in 0 .. width /\ i # 0
      OBVIOUS
    <3> QED BY <2>2, <3>1
  <2> QED BY <2>3, <2>4, <2>5
<1>7. \A i \in 0 .. width : w[i] \in Nat
  <2> DEFINE U == {i \in 0 .. width : w[i] \notin Nat}
  <2> SUFFICES ASSUME U # {} PROVE FALSE
    OBVIOUS
  <2>1. U \subseteq Nat
    OBVIOUS
  <2>2. PICK n \in U : \A m \in U : n <= m
    <3> HIDE DEF U
    <3> QED BY <2>1, LeastNatural
  <2>3. n \in 1 .. width /\ n - 1 \in 0 .. width
    BY <1>6
  <2>4. n - 1 \notin U
    <3> HIDE DEF U
    <3> QED BY <2>2, <2>3
  <2>5. w[n - 1] \in Nat /\ b[n] \in Nat
    BY <2>3, <2>4
  <2>6. w[n] \in Nat
    BY <1>6, <2>3, <2>5
  <2> QED BY <2>2, <2>6
<1>8. Spells(w, b, width)
  BY <1>6, <1>7 DEF Spells
<1> QED BY <1>5, <1>8

\* uintToBytes gives as many bytes as it is asked for.
LEMMA NumberBytes ==
    ASSUME NEW width \in Nat, NEW u \in Nat
    PROVE  /\ uintToBytes(width, u) \in Seq(Nat) /\ Len(uintToBytes(width, u)) = width
           /\ \A i \in 1 .. width : uintToBytes(width, u)[i] \in 0 .. 255
<1> DEFINE Step(g) == [i \in 1 .. width |-> IF i = width THEN u ELSE g[i + 1] \div 256]
           w == CHOOSE g : g = Step(g)
           Partial(c, n) == /\ c \in [n .. width -> Nat] /\ c[width] = u
                            /\ \A i \in n .. width - 1 : c[i] = c[i + 1] \div 256
           T == {n \in 0 .. width - 1 : ~\E c : Partial(c, width - n)}
<1>1. T = {}
  <2> SUFFICES ASSUME T # {} PROVE FALSE
    OBVIOUS
  <2>1. T \subseteq Nat
    OBVIOUS
  <2>2. PICK n \in T : \A m \in T : n <= m
    <3> HIDE DEF T
    <3> QED BY <2>1, LeastNatural
  <2>3. Partial([i \in width .. width |-> u], width)
    OBVIOUS
  <2>4. n \in 1 .. width - 1 /\ n - 1 \in 0 .. width - 1
    <3>1. n \in 0 .. width - 1 /\ ~\E c : Partial(c, width - n)
      OBVIOUS
    <3>2. width - 0 = width
      OBVIOUS
    <3>3. n # 0
      <4> HIDE DEF Partial
      <4> QED BY <2>3, <3>1, <3>2
    <3> QED BY <3>1, <3>3
  <2>5. n - 1 \notin T
    <3> HIDE DEF T
    <3> QED BY <2>2, <2>4
  <2> DEFINE m == width - n
  <2>6. m \in 1 .. width - 1 /\ width - (n - 1) = m + 1
    BY <2>4
  <2>7. PICK c : Partial(c, m + 1)
    <3>1. \E c : Partial(c, width - (n - 1))
      <4> HIDE DEF Partial
      <4> QED BY <2>4, <2>5
    <3> HIDE DEF Partial
    <3> QED BY <2>6, <3>1
  <2> HIDE DEF m
  <2>8. c[m + 1] \in Nat /\ c[m + 1] \div 256 \in Nat
    <3>1. c[m + 1] \in Nat
      BY <2>6, <2>7
    <3> QED BY <3>1
  <2> DEFINE d == [i \in m .. width |-> IF i = m THEN c[m + 1] \div 256 ELSE c[i]]
  <2>9. d \in [m .. width -> Nat] /\ d[width] = u
    BY <2>6, <2>7, <2>8
  <2>10. ASSUME NEW i \in m .. width - 1 PROVE d[i] = d[i + 1] \div 256
    <3>1. i + 1 \in m .. width /\ i + 1 # m /\ i \in m .. width
      BY <2>6
    <3>2. d[i + 1] = c[i + 1]
      BY <3>1
    <3>3. CASE i = m
      BY <3>1, <3>2, <3>3
    <3>4. CASE i # m
      <4>1. i \in m + 1 .. width - 1
        BY <2>6, <3>4
      <4> QED BY <3>1, <3>2, <3>4, <4>1, <2>7
    <3> QED BY <3>3, <3>4
  <2>11. Partial(d, m)
    BY <2>9, <2>10
  <2>12. \E x : Partial(x, width - n)
    <3> HIDE DEF Partial, d
    <3> QED BY <2>11 DEF m
  <2> HIDE DEF Partial
  <2> QED BY <2>2, <2>12
<1>2. \E c : c = Step(c)
  <2>1. CASE width = 0
    <3>1. Step(<<>>) = <<>>
      BY <2>1
    <3> QED BY <3>1
  <2>2. CASE width # 0
    <3>1. width - 1 \in 0 .. width - 1 /\ width - (width - 1) = 1
      BY <2>2
    <3>2. \E c : Partial(c, width - (width - 1))
      <4> HIDE DEF Partial
      <4> QED BY <1>1, <3>1
    <3>3. PICK c : Partial(c, 1)
      <4> HIDE DEF Partial
      <4> QED BY <3>1, <3>2
    <3>4. c = Step(c)
      BY <3>3
    <3> QED BY <3>4
  <2> QED BY <2>1, <2>2
<1>3. w = Step(w)
  <2> HIDE DEF Step
  <2> QED BY <1>2
<1>4. uintToBytes(width, u) = [i \in 1 .. width |-> w[i] % 256]
  BY DEF uintToBytes
<1> HIDE DEF w
<1>5. ASSUME NEW i \in 1 .. width PROVE w[i] \in Nat
  <2> DEFINE U == {n \in 0 .. width - 1 : w[width - n] \notin Nat}
  <2>1. U = {}
    <3> SUFFICES ASSUME U # {} PROVE FALSE
      OBVIOUS
    <3>1. U \subseteq Nat
      OBVIOUS
    <3>2. PICK n \in U : \A m \in U : n <= m
      <4> HIDE DEF U
      <4> QED BY <3>1, LeastNatural
    <3>3. w[width] = u
      BY <1>3, <1>5
    <3>4. n \in 1 .. width - 1 /\ n - 1 \in 0 .. width - 1
      BY <3>3
    <3>5. n - 1 \notin U
      <4> HIDE DEF U
      <4> QED BY <3>2, <3>4
    <3> DEFINE m == width - n
    <3>6. m \in 1 .. width - 1 /\ width - (n - 1) = m + 1
      BY <3>4
    <3>7. w[m + 1] \in Nat
      BY <3>4, <3>5, <3>6
    <3>8. w[m] = w[m + 1] \div 256
      <4> HIDE DEF m
      <4> QED BY <1>3, <3>6
    <3>9. w[m] \in Nat
      BY <3>7, <3>8
    <3> QED BY <3>2, <3>9
  <2>2. width - i \in 0 .. width - 1 /\ width - (width - i) = i
    BY <1>5
  <2>3. w[width - (width - i)] \in Nat
    BY <2>1, <2>2
  <2> QED BY <2>2, <2>3
<1> DEFINE b == uintToBytes(width, u)
<1>6. \A i \in 1 .. width : w[i] % 256 \in 0 .. 255
  BY <1>5
<1>7. b \in [1 .. width -> Nat] /\ \A i \in 1 .. width : b[i] \in 0 .. 255
  <2>1. b = [i \in 1 .. width |-> w[i] % 256]
    BY <1>4
  <2>2. \A i \in 1 .. width : b[i] \in 0 .. 255
    BY <1>6, <2>1
  <2>3. \A i \in 1 .. width : b[i] \in Nat
    BY <2>2
  <2> HIDE DEF b
  <2>4. b = [i \in 1 .. width |-> b[i]]
    BY <2>1
  <2> QED BY <2>2, <2>3, <2>4
<1> HIDE DEF b
<1>8. b \in Seq(Nat) /\ Len(b) = width
  BY <1>7, FunctionIsSeq
<1> QED BY <1>7, <1>8 DEF b

\* Of as many bytes, the ones that are below the others spell the lesser number.
LEMMA BytesOrder ==
    ASSUME NEW width \in Nat,
           NEW a \in Seq(Nat), Len(a) = width, \A i \in 1 .. width : a[i] \in 0 .. 255,
           NEW b \in Seq(Nat), Len(b) = width, \A i \in 1 .. width : b[i] \in 0 .. 255,
           Below(a, b)
    PROVE  bytesToUint(width, a) < bytesToUint(width, b)
<1>1. PICK c : Spells(c, a, width) /\ bytesToUint(width, a) = c[width]
  BY BytesSpell
<1>2. PICK d : Spells(d, b, width) /\ bytesToUint(width, b) = d[width]
  BY BytesSpell
<1>3. PICK k \in 1 .. width : /\ \A j \in 1 .. k - 1 : a[j] = b[j]
                              /\ a[k] < b[k]
  BY DEF Below
<1>4. ASSUME NEW i \in 1 .. width
      PROVE  /\ i - 1 \in 0 .. width
             /\ c[i - 1] \in Nat /\ d[i - 1] \in Nat /\ c[i] \in Nat /\ d[i] \in Nat
             /\ c[i] = 256 * c[i - 1] + a[i] /\ d[i] = 256 * d[i - 1] + b[i]
  <2>1. i - 1 \in 0 .. width /\ i \in 0 .. width
    OBVIOUS
  <2> QED BY <1>1, <1>2, <2>1 DEF Spells
<1>5. \A i \in 0 .. k - 1 : c[i] = d[i]
  <2> DEFINE T == {i \in 0 .. k - 1 : c[i] # d[i]}
  <2> SUFFICES ASSUME T # {} PROVE FALSE
    OBVIOUS
  <2>1. T \subseteq Nat
    OBVIOUS
  <2>2. PICK n \in T : \A m \in T : n <= m
    <3> HIDE DEF T
    <3> QED BY <2>1, LeastNatural
  <2>3. c[0] = d[0]
    BY <1>1, <1>2 DEF Spells
  <2>4. n \in 1 .. width /\ n \in 1 .. k - 1 /\ n - 1 \in 0 .. k - 1
    BY <2>3
  <2>5. n - 1 \notin T
    <3> HIDE DEF T
    <3> QED BY <2>2, <2>4
  <2>6. c[n - 1] = d[n - 1] /\ a[n] = b[n]
    BY <1>3, <2>4, <2>5
  <2>7. c[n] = d[n]
    BY <1>4, <2>4, <2>6
  <2> QED BY <2>2, <2>7
<1>6. \A i \in k .. width : c[i] < d[i]
  <2> DEFINE T == {i \in k .. width : ~(c[i] < d[i])}
  <2> SUFFICES ASSUME T # {} PROVE FALSE
    OBVIOUS
  <2>1. T \subseteq Nat
    OBVIOUS
  <2>2. PICK n \in T : \A m \in T : n <= m
    <3> HIDE DEF T
    <3> QED BY <2>1, LeastNatural
  <2>3. n \in 1 .. width /\ n \in k .. width
    OBVIOUS
  <2> DEFINE cp == c[n - 1]  dp == d[n - 1]
  <2>4. /\ cp \in Nat /\ dp \in Nat /\ a[n] \in 0 .. 255 /\ b[n] \in 0 .. 255
        /\ c[n] = 256 * cp + a[n] /\ d[n] = 256 * dp + b[n]
    BY <1>4, <2>3
  <2>5. ~(c[n] < d[n])
    BY <2>2
  <2>6. CASE n = k
    <3>1. cp = dp /\ a[n] < b[n]
      BY <1>3, <1>5, <2>6
    <3> HIDE DEF cp, dp
    <3> QED BY <2>4, <2>5, <3>1
  <2>7. CASE n # k
    <3>1. n - 1 \in k .. width
      BY <2>3, <2>7
    <3>2. n - 1 \notin T
      <4> HIDE DEF T
      <4> QED BY <2>2, <2>3, <3>1
    <3>3. cp < dp
      BY <3>1, <3>2
    <3> DEFINE x == a[n]  y == b[n]
    <3>4. x \in 0 .. 255 /\ y \in 0 .. 255 /\ c[n] = 256 * cp + x /\ d[n] = 256 * dp + y
      BY <2>4
    <3>5. cp \in Nat /\ dp \in Nat
      BY <2>4
    <3> HIDE DEF cp, dp, x, y, T
    <3>6. 256 * cp + x < 256 * dp + y
      BY <3>3, <3>4, <3>5
    <3> QED BY <2>5, <3>4, <3>6
  <2> QED BY <2>6, <2>7
<1> QED BY <1>1, <1>2, <1>6

\* Numbers are in the order of their bytes, when the bytes give them back.
LEMMA NumbersInOrder ==
    ASSUME NEW width \in Nat, NEW m \in Nat, NEW n \in Nat,
           bytesToUint(width, uintToBytes(width, m)) = m,
           bytesToUint(width, uintToBytes(width, n)) = n,
           Below(uintToBytes(width, m), uintToBytes(width, n))
    PROVE  m < n
<1> DEFINE a == uintToBytes(width, m)
           b == uintToBytes(width, n)
<1>1. /\ a \in Seq(Nat) /\ Len(a) = width /\ \A i \in 1 .. width : a[i] \in 0 .. 255
      /\ b \in Seq(Nat) /\ Len(b) = width /\ \A i \in 1 .. width : b[i] \in 0 .. 255
  BY NumberBytes
<1> HIDE DEF a, b
<1>2. Below(a, b) => bytesToUint(width, a) < bytesToUint(width, b)
  BY <1>1, BytesOrder
<1> QED BY <1>2 DEF a, b

-----------------------------------------------------------------------------
(* Listings.                                                               *)

\* Strings in order are ordered by Below.
LEMMA StringsOrdered ==
    ASSUME NEW S, S \subseteq Seq(Nat), NEW s, InOrder(s, S, FALSE)
    PROVE  Ordered(s, S, Below)
<1>1. /\ s \in Seq(S) /\ DOMAIN s = 1 .. Len(s)
      /\ \A x \in S : \E i \in 1 .. Len(s) : s[i] = x
      /\ \A i \in 1 .. Len(s) : s[i] \in S
  BY LenProperties, ElementOfSeq DEF InOrder
<1>2. \A i, j \in 1 .. Len(s) : i < j => Below(s[i], s[j])
  BY DEF InOrder, Comes
<1>3. \A i, j \in 1 .. Len(s) : i < j => s[i] # s[j]
  <2> SUFFICES ASSUME NEW i \in 1 .. Len(s), NEW j \in 1 .. Len(s), i < j, s[i] = s[j]
               PROVE  FALSE
    OBVIOUS
  <2>1. Below(s[i], s[i]) /\ s[i] \in Seq(Nat)
    BY <1>1, <1>2
  <2> QED BY <2>1, BelowIrreflexive
<1>4. Len(s) = Cardinality(S) /\ ToSet(s) = S
  BY <1>1, <1>3, ListedOnce
<1> QED BY <1>1, <1>2, <1>4 DEF Ordered

\* Items are in the order of their bytes.
LEMMA ItemsPrecede ==
    ASSUME NEW t \in Layout, IsIndex(t), NEW v \in Values[t], NEW w \in Values[t],
           Below(Encode(t.type, v), Encode(t.type, w))
    PROVE  Precedes(t, v, w) /\ v # w
<1>1. /\ Encode(t.type, v) \in Seq(Nat) /\ Decode(t.type, Encode(t.type, v)) = v
      /\ Encode(t.type, w) \in Seq(Nat) /\ Decode(t.type, Encode(t.type, w)) = w
  BY CodecAssumption
<1>2. v # w
  BY <1>1, BelowIrreflexive
<1>3. CASE t.type = OneToManyUint64Index
  <2>1. \A u : /\ Encode(t.type, u) = uintToBytes(8, u)
               /\ Decode(t.type, u) = bytesToUint(8, u)
    BY <1>3 DEF Encode, Decode, OneToManyUint64Index, Uint64Table, Uint32Table, BinaryTable
  <2>2. ASSUME NEW u, uintToBytes(8, u) \in Seq(Nat), bytesToUint(8, uintToBytes(8, u)) = u
        PROVE  u \in Nat
    <3> DEFINE b == uintToBytes(8, u)
    <3>1. b \in Seq(Nat) /\ Len(b) = 8
      BY <2>2 DEF uintToBytes
    <3> HIDE DEF b
    <3>2. PICK c : Spells(c, b, 8) /\ bytesToUint(8, b) = c[8]
      BY <3>1, BytesSpell
    <3>3. c[8] \in Nat
      BY <3>2 DEF Spells
    <3> QED BY <2>2, <3>2, <3>3 DEF b
  <2>3. v \in Nat /\ w \in Nat
    BY <1>1, <2>1, <2>2
  <2>4. v < w
    BY <1>1, <2>1, <2>3, NumbersInOrder
  <2> QED BY <1>2, <1>3, <2>4 DEF Precedes
<1>4. CASE t.type # OneToManyUint64Index
  <2>1. t.type \in {OneToManySortedIndex, SortedIndex}
    BY <1>4 DEF IsIndex, Indexes
  <2>2. \A u : Encode(t.type, u) = u
    BY <2>1 DEF Encode, OneToManySortedIndex, SortedIndex, OneToManyUint64Index,
                Uint64Table, Uint32Table, BinaryTable
  <2> QED BY <1>2, <1>4, <2>2 DEF Precedes
<1> QED BY <1>3, <1>4

\* The items of a PK's keys, when these are in order, are in order.
LEMMA ItemsInOrder ==
    ASSUME Inv, RowsInv, NEW t \in Layout, Running(t), IsIndex(t), NEW pk \in Keys[t],
           NEW keys, InOrder(keys, {Row(t, pk, v) : v \in ItemsUnder(t, pk)}, FALSE)
    PROVE  Ordered(ItemsOf(Opened(t), pk, keys), ItemsUnder(t, pk),
                   LAMBDA a, b : Precedes(t, a, b))
<1> DEFINE V == ItemsUnder(t, pk)
           R == {Row(t, pk, v) : v \in V}
           s == ItemsOf(Opened(t), pk, keys)
<1>1. /\ keys \in Seq(R) /\ Len(keys) \in Nat /\ DOMAIN keys = 1 .. Len(keys)
      /\ \A i \in 1 .. Len(keys) : keys[i] \in R
      /\ \A v \in V : \E i \in 1 .. Len(keys) : keys[i] = Row(t, pk, v)
  BY LenProperties, ElementOfSeq DEF InOrder
<1>2. s = [i \in 1 .. Len(keys) |-> ItemOf(Opened(t), pk, keys[i])]
  BY <1>1 DEF ItemsOf
<1>3. \A v \in V : /\ ItemOf(Opened(t), pk, Row(t, pk, v)) = v
                   /\ Encode(t.type, v) \in Seq(Nat) /\ v \in Values[t]
                   /\ Row(t, pk, v) = pk \o Encode(t.type, v) /\ Row(t, pk, v) \in Seq(Nat)
  BY ItemsOfIndex
<1> HIDE DEF V, s
<1>4. ASSUME NEW i \in 1 .. Len(keys) PROVE s[i] \in V /\ keys[i] = Row(t, pk, s[i])
  <2>1. PICK v \in V : keys[i] = Row(t, pk, v)
    BY <1>1
  <2> QED BY <2>1, <1>2, <1>3
<1>5. s \in Seq(V) /\ Len(s) = Len(keys) /\ DOMAIN s = 1 .. Len(s)
  <2>1. s \in [1 .. Len(keys) -> V]
    BY <1>2, <1>4
  <2> QED BY <2>1, <1>1, FunctionIsSeq
<1>6. ASSUME NEW v \in V PROVE \E i \in 1 .. Len(s) : s[i] = v
  <2>1. PICK i \in 1 .. Len(keys) : keys[i] = Row(t, pk, v)
    BY <1>1
  <2>2. s[i] = v
    BY <2>1, <1>2, <1>3
  <2> QED BY <2>2, <1>5
<1>7. ASSUME NEW i \in 1 .. Len(s), NEW j \in 1 .. Len(s), i < j
      PROVE  Precedes(t, s[i], s[j]) /\ s[i] # s[j]
  <2> DEFINE v == s[i]  w == s[j]
             a == Encode(t.type, v)  b == Encode(t.type, w)
  <2>1. v \in V /\ w \in V /\ keys[i] = Row(t, pk, v) /\ keys[j] = Row(t, pk, w)
    BY <1>4, <1>5
  <2>2. Below(keys[i], keys[j])
    BY <1>5, <1>7 DEF InOrder, Comes
  <2> HIDE DEF v, w
  <2>3. Below(pk \o a, pk \o b)
    BY <1>3, <2>1, <2>2
  <2>4. a \in Seq(Nat) /\ b \in Seq(Nat) /\ pk \in Seq(Nat)
    BY <1>3, <2>1, CodecAssumption
  <2>5. Below(a, b)
    <3> HIDE DEF a, b
    <3> QED BY <2>3, <2>4, BelowFullKey
  <2>6. v \in Values[t] /\ w \in Values[t]
    BY <1>3, <2>1
  <2>7. Precedes(t, v, w) /\ v # w
    BY <2>5, <2>6, ItemsPrecede
  <2> QED BY <2>7 DEF v, w
<1>8. Len(s) = Cardinality(V) /\ ToSet(s) = V
  BY <1>5, <1>6, <1>7, ListedOnce
<1> QED BY <1>5, <1>7, <1>8 DEF Ordered, V, s

\* The values of keys in order are at the places of the keys.
LEMMA ValuesListed ==
    ASSUME Inv, RowsInv, NEW t \in Layout, Running(t), ~IsIndex(t),
           NEW S, S \subseteq KeysIn(t), NEW reverse, NEW keys, InOrder(keys, S, reverse)
    PROVE  LET s == ValuesAt(Opened(t), keys)
           IN  /\ Len(s) = Cardinality(S)
               /\ \A k \in S : s[1 + Passed(k, S, reverse)] = ValueIn(t, k)
<1> DEFINE s == ValuesAt(Opened(t), keys)
<1>1. S \subseteq Seq(Nat)
  BY CodecAssumption DEF KeysIn
<1>2. /\ keys \in Seq(S) /\ Len(keys) \in Nat /\ DOMAIN keys = 1 .. Len(keys)
  BY LenProperties DEF InOrder
<1>3. /\ Cardinality(S) = Len(keys)
      /\ \A i \in 1 .. Len(keys) : Passed(keys[i], S, reverse) = i - 1
  BY <1>1, PlacesInOrder
<1>4. s = [i \in 1 .. Len(keys) |-> Get(Opened(t), keys[i])]
  BY <1>2 DEF ValuesAt
<1>5. Len(s) = Len(keys)
  BY <1>2, <1>4
<1> HIDE DEF s
<1>6. ASSUME NEW k \in S PROVE s[1 + Passed(k, S, reverse)] = ValueIn(t, k)
  <2>1. PICK i \in 1 .. Len(keys) : keys[i] = k
    BY DEF InOrder
  <2>2. 1 + Passed(k, S, reverse) = i
    BY <1>2, <1>3, <2>1
  <2>3. s[i] = Get(Opened(t), k)
    BY <1>4, <2>1
  <2>4. ValueIn(t, k) = Get(Opened(t), k)
    BY ValuesOfTable
  <2> QED BY <2>2, <2>3, <2>4
<1> QED BY <1>3, <1>5, <1>6 DEF s

\* List and ListAll of an index give its items each once and in order, numbers in
\* the order of numbers; ListAll of a table gives its values in the order of their
\* keys, and EachEntry the rows of the table's entries, whatever else is stored.
THEOREM ListingIsExact == Spec => []ListIsExact
<1>1. Inv /\ RowsInv /\ StoreOfStrings => ListIsExact
  <2> SUFFICES ASSUME Inv, RowsInv, StoreOfStrings PROVE ListIsExact
    OBVIOUS
  <2>1. ASSUME NEW t \in Layout, Running(t)
        PROVE  Opened(t).id \in Seq(Nat) /\ <<>> \in Seq(Nat)
    BY <2>1, OpenIds, EmptySeq DEF Inv, Ids
  <2>2. ASSUME NEW t \in Layout, Running(t)
        PROVE  Ordered(EachEntry(Opened(t).id), {Rows[t][e] : e \in EntriesOf(t)}, Below)
    <3> DEFINE id == Opened(t).id
    <3>1. InOrder(EachEntry(id), KeysBetween(id, <<>>, <<>>), FALSE)
      BY <2>1, <2>2, RangeInOrder DEF EachEntry
    <3>2. KeysBetween(id, <<>>, <<>>) = KeysUnder(id) /\ KeysUnder(id) \subseteq Seq(Nat)
      BY EmptyBegins DEF KeysBetween, KeysUnder
    <3>3. KeysUnder(id) = {Rows[t][e] : e \in EntriesOf(t)}
      BY <2>2, KeysOfTable
    <3>4. Ordered(EachEntry(id), KeysUnder(id), Below)
      BY <3>1, <3>2, StringsOrdered
    <3> QED BY <3>3, <3>4
  <2>3. ASSUME NEW t \in Layout, Running(t), IsIndex(t), NEW pk \in Keys[t]
        PROVE  Ordered(ListItems(Opened(t), pk), ItemsUnder(t, pk),
                       LAMBDA a, b : Precedes(t, a, b))
    <3> DEFINE id == Opened(t).id
    <3>1. pk \in Seq(Nat)
      BY CodecAssumption
    <3>2. InOrder(eachPrefix(id, pk), {k \in KeysUnder(id) : IsPrefix(pk, k)}, FALSE)
      BY <2>1, <2>3, <3>1, PrefixInOrder
    <3>3. InOrder(eachPrefix(id, pk), {Row(t, pk, v) : v \in ItemsUnder(t, pk)}, FALSE)
      BY <2>3, <3>2, ItemsOfIndex
    <3> QED BY <2>3, <3>3, ItemsInOrder DEF ListItems
  <2>4. ASSUME NEW t \in Layout, Running(t), ~IsIndex(t)
        PROVE  ValuesInOrder(t, ListAll(Opened(t), <<>>), KeysIn(t), Below)
    <3> DEFINE id == Opened(t).id
    <3>1. InOrder(eachPrefix(id, <<>>), {k \in KeysUnder(id) : IsPrefix(<<>>, k)}, FALSE)
      BY <2>1, <2>4, PrefixInOrder
    <3>2. {k \in KeysUnder(id) : IsPrefix(<<>>, k)} = KeysUnder(id)
      BY EmptyBegins DEF KeysUnder
    <3>3. InOrder(eachPrefix(id, <<>>), KeysIn(t), FALSE)
      BY <2>4, <3>1, <3>2, ValuesOfTable
    <3> DEFINE S == KeysIn(t)
               s == ListAll(Opened(t), <<>>)
    <3>4. s = ValuesAt(Opened(t), eachPrefix(id, <<>>))
      BY DEF ListAll
    <3>5. Len(s) = Cardinality(S) /\ \A k \in S : s[1 + Passed(k, S, FALSE)] = ValueIn(t, k)
      <4>1. S \subseteq KeysIn(t) /\ InOrder(eachPrefix(id, <<>>), S, FALSE)
        BY <3>3
      <4> DEFINE keys == eachPrefix(id, <<>>)
      <4> HIDE DEF s, S, id, keys
      <4>2. /\ Len(ValuesAt(Opened(t), keys)) = Cardinality(S)
            /\ \A k \in S : ValuesAt(Opened(t), keys)[1 + Passed(k, S, FALSE)] = ValueIn(t, k)
        BY <2>4, <4>1, ValuesListed DEF keys
      <4> QED BY <3>4, <4>2 DEF keys
    <3>6. \A k \in S : Passed(k, S, FALSE) = Cardinality({j \in S : Below(j, k)})
      BY DEF Passed, Comes
    <3> HIDE DEF s, S
    <3>7. ValuesInOrder(t, s, S, Below)
      BY <3>5, <3>6 DEF ValuesInOrder
    <3> QED BY <3>7 DEF s, S
  <2> QED BY <2>2, <2>3, <2>4 DEF ListIsExact, RunningIndexes, RunningTables
<1> QED BY <1>1, StoreInvariant, PTL

-----------------------------------------------------------------------------
(* Ranges.                                                                 *)

\* A range takes in the keys that are Between its bounds.
LEMMA RangeBetween ==
    ASSUME NEW id \in Seq(Nat), NEW lower \in Seq(Nat), NEW upper \in Seq(Nat)
    PROVE  KeysBetween(id, lower, upper) = {k \in KeysUnder(id) : Between(k, lower, upper)}
<1>1. ASSUME NEW k \in Seq(Nat)
      PROVE  ~Below(upper, k) \/ IsPrefix(upper, k) <=> IsPrefix(upper, k) \/ Below(k, upper)
  <2>1. IsPrefix(upper, upper)
    BY PrefixElements
  <2> QED BY <2>1, BelowTotal, BelowAsymmetric
<1> QED BY <1>1 DEF KeysBetween, KeysUnder, Between

\* Over an index, whose bounds begin with a PK, they are rows of the PK's items.
LEMMA RowsBetween ==
    ASSUME Inv, RowsInv, NEW t \in Layout, Running(t), IsIndex(t),
           t.type # OneToManyUint64Index, NEW pk \in Keys[t],
           NEW lower \in Seq(Nat), NEW upper \in Seq(Nat)
    PROVE  KeysBetween(Opened(t).id, pk \o lower, pk \o upper)
               = {pk \o i : i \in {i \in ItemsUnder(t, pk) : Between(i, lower, upper)}}
<1> DEFINE id == Opened(t).id
           V == ItemsUnder(t, pk)
           l == pk \o lower
           u == pk \o upper
<1>1. id \in Seq(Nat) /\ pk \in Seq(Nat) /\ l \in Seq(Nat) /\ u \in Seq(Nat)
  <2>1. id \in Seq(Nat) /\ pk \in Seq(Nat)
    BY OpenIds, CodecAssumption DEF Inv, Ids
  <2> QED BY <2>1, ConcatProperties
<1>2. \A v \in V : v \in Seq(Nat) /\ Row(t, pk, v) = pk \o v
  <2>1. t.type \in {OneToManySortedIndex, SortedIndex}
    BY DEF IsIndex, Indexes
  <2>2. \A v : Encode(t.type, v) = v
    BY <2>1 DEF Encode, OneToManySortedIndex, SortedIndex, OneToManyUint64Index,
                Uint64Table, Uint32Table, BinaryTable
  <2> QED BY <2>2, ItemsOfIndex
<1>3. {k \in KeysUnder(id) : IsPrefix(pk, k)} = {pk \o v : v \in V}
  <2>1. {k \in KeysUnder(id) : IsPrefix(pk, k)} = {Row(t, pk, v) : v \in V}
    BY ItemsOfIndex
  <2> HIDE DEF V
  <2>2. {Row(t, pk, v) : v \in V} = {pk \o v : v \in V}
    BY <1>2
  <2> QED BY <2>1, <2>2
<1>4. \A v \in Seq(Nat) : Between(pk \o v, l, u) <=> Between(v, lower, upper)
  <2>1. \A a, b \in Seq(Nat) : /\ Below(pk \o a, pk \o b) <=> Below(a, b)
                               /\ IsPrefix(pk \o a, pk \o b) <=> IsPrefix(a, b)
    BY <1>1, FullKeyOf DEF getFullKey
  <2> QED BY <2>1 DEF Between
<1>5. \A k \in KeysUnder(id) : Between(k, l, u) => IsPrefix(pk, k)
  <2> SUFFICES ASSUME NEW k \in KeysUnder(id), Between(k, l, u) PROVE IsPrefix(pk, k)
    OBVIOUS
  <2>1. k \in Seq(Nat)
    BY DEF KeysUnder
  <2>2. IsPrefix(pk, l) /\ IsPrefix(pk, u)
    BY <1>1, PrefixIsSame
  <2> HIDE DEF l, u
  <2>3. CASE IsPrefix(u, k)
    <3>1. IsPrefix(pk \o upper, k)
      BY <2>3 DEF u
    <3> QED BY <1>1, <2>1, <3>1, FullKeyBegins
  <2>4. CASE Below(k, u)
    <3>1. ~Below(k, l) /\ ~Below(u, k)
      BY <1>1, <2>1, <2>4, BelowAsymmetric DEF Between
    <3> QED BY <1>1, <2>1, <2>2, <3>1, PrefixConvex
  <2> QED BY <2>3, <2>4 DEF Between
<1>6. KeysBetween(id, l, u) = {k \in KeysUnder(id) : Between(k, l, u)}
  <2> HIDE DEF id, l, u
  <2> QED BY <1>1, RangeBetween
<1> HIDE DEF id, V, l, u
<1>7. {k \in KeysUnder(id) : Between(k, l, u)}
          = {k \in {pk \o v : v \in V} : Between(k, l, u)}
  BY <1>3, <1>5
<1>8. {k \in {pk \o v : v \in V} : Between(k, l, u)}
          = {pk \o i : i \in {i \in V : Between(i, lower, upper)}}
  BY <1>2, <1>4
<1> QED BY <1>6, <1>7, <1>8 DEF id, V, l, u

\* ListInRange gives what is between its bounds, and stays within its table, and
\* over an index within its PK, in either direction and with a nil bound too.
THEOREM RangesAreExact == Spec => []RangeIsExact
<1>1. Inv /\ RowsInv /\ StoreOfStrings => RangeIsExact
  <2> SUFFICES ASSUME Inv, RowsInv, StoreOfStrings PROVE RangeIsExact
    OBVIOUS
  <2>1. ASSUME NEW t \in Layout, Running(t)
        PROVE  Opened(t).id \in Seq(Nat) /\ <<>> \in Seq(Nat)
    BY <2>1, OpenIds, EmptySeq DEF Inv, Ids
  <2>2. ASSUME NEW t \in Layout, Running(t), IsIndex(t), t.type # OneToManyUint64Index,
               NEW pk \in Keys[t],
               NEW lower \in Values[t] \cup {<<>>}, NEW upper \in Values[t] \cup {<<>>}
        PROVE  Ordered(ListRows(Opened(t), pk, lower, upper),
                       {pk \o i : i \in {i \in ItemsUnder(t, pk) : Between(i, lower, upper)}},
                       Below)
    <3> DEFINE id == Opened(t).id
               S == KeysBetween(id, pk \o lower, pk \o upper)
    <3>1. t.type \in {OneToManySortedIndex, SortedIndex}
      BY <2>2 DEF IsIndex, Indexes
    <3>2. \A v : Encode(t.type, v) = v
      BY <3>1 DEF Encode, OneToManySortedIndex, SortedIndex, OneToManyUint64Index,
                  Uint64Table, Uint32Table, BinaryTable
    <3>3. lower \in Seq(Nat) /\ upper \in Seq(Nat) /\ pk \in Seq(Nat)
      <4>1. \A v \in Values[t] : v \in Seq(Nat)
        BY <3>2, CodecAssumption
      <4>2. pk \in Seq(Nat)
        BY CodecAssumption
      <4> QED BY <4>1, <4>2, EmptySeq
    <3>4. pk \o lower \in Seq(Nat) /\ pk \o upper \in Seq(Nat)
      BY <3>3, ConcatProperties
    <3>5. InOrder(ListRows(Opened(t), pk, lower, upper), S, FALSE)
      BY <2>1, <2>2, <3>4, RangeInOrder DEF ListRows
    <3>6. S \subseteq Seq(Nat)
      BY DEF KeysBetween, KeysUnder
    <3>7. Ordered(ListRows(Opened(t), pk, lower, upper), S, Below)
      <4> HIDE DEF S
      <4> QED BY <3>5, <3>6, StringsOrdered
    <3>8. S = {pk \o i : i \in {i \in ItemsUnder(t, pk) : Between(i, lower, upper)}}
      <4> DEFINE R(v, l, u) ==
                     {pk \o i : i \in {i \in v : Between(i, l, u)}}
      <4>1. \A l, u \in Seq(Nat) :
                KeysBetween(id, pk \o l, pk \o u) = R(ItemsUnder(t, pk), l, u)
        BY <2>2, RowsBetween
      <4> HIDE DEF R
      <4>2. S = R(ItemsUnder(t, pk), lower, upper)
        BY <3>3, <4>1
      <4> QED BY <4>2 DEF R
    <3> QED BY <3>7, <3>8
  <2>3. ASSUME NEW t \in Layout, Running(t), ~IsIndex(t),
               NEW lower \in Keys[t] \cup {<<>>}, NEW upper \in Keys[t] \cup {<<>>},
               NEW reverse \in BOOLEAN
        PROVE  LET S == {k \in KeysIn(t) : Between(k, lower, upper)}
                   s == ListInRange(Opened(t), lower, upper, reverse)
               IN  /\ Len(s) = Cardinality(S)
                   /\ \A k \in S : s[1 + Passed(k, S, reverse)] = ValueIn(t, k)
    <3> DEFINE id == Opened(t).id
               S == {k \in KeysIn(t) : Between(k, lower, upper)}
               keys == listInRange(id, lower, upper, reverse)
    <3>1. lower \in Seq(Nat) /\ upper \in Seq(Nat)
      BY <2>3, EmptySeq, CodecAssumption
    <3>2. InOrder(keys, KeysBetween(id, lower, upper), reverse)
      BY <2>1, <2>3, <3>1, RangeInOrder
    <3>3. KeysBetween(id, lower, upper) = S
      BY <2>1, <2>3, <3>1, RangeBetween, ValuesOfTable
    <3>4. ListInRange(Opened(t), lower, upper, reverse) = ValuesAt(Opened(t), keys)
      BY DEF ListInRange
    <3>5. S \subseteq KeysIn(t) /\ InOrder(keys, S, reverse)
      BY <3>2, <3>3
    <3> HIDE DEF S, keys
    <3>6. /\ Len(ValuesAt(Opened(t), keys)) = Cardinality(S)
          /\ \A k \in S : ValuesAt(Opened(t), keys)[1 + Passed(k, S, reverse)] = ValueIn(t, k)
      BY <2>3, <3>5, ValuesListed
    <3>7. /\ Len(ListInRange(Opened(t), lower, upper, reverse)) = Cardinality(S)
          /\ \A k \in S : ListInRange(Opened(t), lower, upper, reverse)[1 + Passed(k, S, reverse)]
                              = ValueIn(t, k)
      BY <3>4, <3>6
    <3> QED BY <3>7 DEF S
  <2>4. ASSUME NEW t \in Layout, Running(t), ~IsIndex(t),
               NEW lower \in Keys[t] \cup {<<>>}, NEW upper \in Keys[t] \cup {<<>>}
        PROVE  LET S == {k \in KeysIn(t) : Between(k, lower, upper)}
               IN  /\ ValuesInOrder(t, ListInRange(Opened(t), lower, upper, FALSE), S, Below)
                   /\ ValuesInOrder(t, ListInRange(Opened(t), lower, upper, TRUE), S,
                                    LAMBDA a, b : Below(b, a))
    <3> DEFINE S == {k \in KeysIn(t) : Between(k, lower, upper)}
               forth == ListInRange(Opened(t), lower, upper, FALSE)
               back == ListInRange(Opened(t), lower, upper, TRUE)
    <3>1. Len(forth) = Cardinality(S) /\ \A k \in S : forth[1 + Passed(k, S, FALSE)] = ValueIn(t, k)
      BY <2>3, <2>4
    <3>2. Len(back) = Cardinality(S) /\ \A k \in S : back[1 + Passed(k, S, TRUE)] = ValueIn(t, k)
      BY <2>3, <2>4
    <3> HIDE DEF S, forth, back
    <3>3. \A k \in S : /\ Passed(k, S, FALSE) = Cardinality({j \in S : Below(j, k)})
                       /\ Passed(k, S, TRUE) = Cardinality({j \in S : Below(k, j)})
      BY DEF Passed, Comes
    <3>4. ValuesInOrder(t, forth, S, Below)
      BY <3>1, <3>3 DEF ValuesInOrder
    <3>5. ValuesInOrder(t, back, S, LAMBDA a, b : Below(b, a))
      BY <3>2, <3>3 DEF ValuesInOrder
    <3> QED BY <3>4, <3>5 DEF S, forth, back
  <2> QED BY <2>2, <2>4 DEF RangeIsExact, RunningIndexes, RunningTables
<1> QED BY <1>1, StoreInvariant, PTL

-----------------------------------------------------------------------------
(* Pages.                                                                  *)

\* The page holds the keys from the i-th on, and asks next for what follows them.
HoldsKeysFrom(page, id, i, limit, keys) ==
    /\ page.keys = SubSeq(keys, i, Min({i + limit - 1, Len(keys)}))
    /\ page.values = ValuesOf(id, page.keys)
    /\ page.next = TokenAt(keys, i + limit)

\* What a page takes of the rest of a listing, and the token that it leaves.
LEMMA TakenFrom ==
    ASSUME NEW S, NEW keys \in Seq(S), NEW i \in 1 .. Len(keys) + 1,
           NEW limit \in Nat, 0 < limit
    PROVE  LET run == SubSeq(keys, i, Len(keys))
               last == Min({i + limit - 1, Len(keys)})
           IN  /\ last \in i - 1 .. Len(keys)
               /\ Taken(run, limit) = SubSeq(keys, i, last)
               /\ After(run, limit, FALSE) = TokenAt(keys, i + limit)
<1> DEFINE L == Len(keys)
           n == L - i + 1
           run == SubSeq(keys, i, L)
           last == Min({i + limit - 1, L})
           m == Min({limit, Len(run)})
<1>1. L \in Nat /\ i \in Nat /\ 1 <= i /\ i <= L + 1 /\ n \in Nat /\ DOMAIN keys = 1 .. L
  <2>1. L \in Nat /\ DOMAIN keys = 1 .. L
    BY LenProperties
  <2> QED BY <2>1
<1>2. /\ run \in Seq(S) /\ Len(run) = n
      /\ \A j \in 1 .. n : i + j - 1 \in i .. L /\ run[j] = keys[i + j - 1]
  <2>1. L \in i - 1 .. L
    BY <1>1
  <2> QED BY <2>1, PartOf
<1> HIDE DEF L, run
<1>3. \A x, y \in Nat : /\ x <= y => Min({x, y}) = x
                        /\ y <= x => Min({x, y}) = y
  BY MinOfTwo
<1>4. i + limit - 1 \in Nat /\ last \in i - 1 .. L /\ m \in 0 .. n /\ m = last - i + 1
  <2>1. i + limit - 1 \in Nat
    BY <1>1
  <2>2. CASE i + limit - 1 <= L
    <3>1. last = i + limit - 1
      BY <1>1, <1>3, <2>1, <2>2
    <3>2. limit <= Len(run) /\ Len(run) \in Nat
      BY <1>1, <1>2, <2>2
    <3>3. m = limit
      BY <1>3, <3>2
    <3> HIDE DEF last, m
    <3> QED BY <1>1, <1>2, <2>1, <2>2, <3>1, <3>2, <3>3
  <2>3. CASE ~(i + limit - 1 <= L)
    <3>1. last = L /\ m = n
      BY <1>1, <1>2, <1>3, <2>1, <2>3
    <3> HIDE DEF last, m
    <3> QED BY <1>1, <2>1, <2>3, <3>1
  <2> QED BY <2>2, <2>3
<1> HIDE DEF last, m
<1>5. Taken(run, limit) = SubSeq(keys, i, last)
  <2> DEFINE a == SubSeq(run, 1, m)
             b == SubSeq(keys, i, last)
  <2>1. /\ a \in Seq(S) /\ Len(a) = m
        /\ \A j \in 1 .. m : 1 + j - 1 \in 1 .. m /\ a[j] = run[1 + j - 1]
    <3>1. 1 \in 1 .. Len(run) + 1 /\ m \in 1 - 1 .. Len(run) /\ m - 1 + 1 = m
      BY <1>1, <1>2, <1>4
    <3>2. /\ a \in Seq(S) /\ Len(a) = m - 1 + 1
          /\ \A j \in 1 .. m - 1 + 1 : 1 + j - 1 \in 1 .. m /\ a[j] = run[1 + j - 1]
      BY <1>2, <3>1, PartOf
    <3> QED BY <3>1, <3>2
  <2>2. /\ b \in Seq(S) /\ Len(b) = m
        /\ \A j \in 1 .. m : i + j - 1 \in i .. last /\ b[j] = keys[i + j - 1]
    <3>1. i \in 1 .. Len(keys) + 1 /\ last \in i - 1 .. Len(keys)
      BY <1>4 DEF L
    <3> QED BY <1>4, <3>1, PartOf
  <2> HIDE DEF a, b
  <2>3. ASSUME NEW j \in 1 .. m PROVE a[j] = b[j]
    <3>1. 1 + j - 1 = j /\ j \in 1 .. n
      BY <1>1, <1>4
    <3>2. a[j] = run[j] /\ run[j] = keys[i + j - 1]
      BY <1>2, <2>1, <3>1
    <3> QED BY <2>2, <3>2
  <2>4. a = b
    BY <2>1, <2>2, <2>3, SeqEqual
  <2> QED BY <2>4 DEF Taken, a, b, m
<1>6. After(run, limit, FALSE) = TokenAt(keys, i + limit)
  <2>1. CASE Len(run) > limit
    <3>1. limit + 1 \in 1 .. n /\ i + limit \in 1 .. L /\ i + (limit + 1) - 1 = i + limit
      BY <1>1, <1>2, <2>1
    <3>2. run[limit + 1] = keys[i + limit]
      BY <1>2, <3>1
    <3> QED BY <1>1, <2>1, <3>1, <3>2 DEF After, TokenAt
  <2>2. CASE ~(Len(run) > limit)
    <3>1. i + limit \notin 1 .. L
      BY <1>1, <1>2, <2>2
    <3> QED BY <1>1, <2>2, <3>1 DEF After, TokenAt
  <2> QED BY <2>1, <2>2
<1> QED BY <1>4, <1>5, <1>6 DEF L, run, last

\* The page a token asks for, and the first, hold the keys from the token's on.
LEMMA PagesHoldKeys ==
    ASSUME StoreOfStrings, NEW id \in Seq(Nat), NEW prefix \in Seq(Nat),
           NEW limit \in Nat, 0 < limit
    PROVE  LET keys == eachPrefix(id, prefix)
           IN  /\ keys \in Seq(Seq(Nat))
               /\ \A k \in ToSet(keys) : k \in KeysUnder(id) /\ IsPrefix(prefix, k)
               /\ HoldsKeysFrom(listPrefixedPaginated(id, prefix, NoToken, limit),
                                id, 1, limit, keys)
               /\ \A i \in DOMAIN keys :
                      HoldsKeysFrom(listPrefixedPaginated(id, prefix, TokenAt(keys, i), limit),
                                    id, i, limit, keys)
<1> DEFINE keys == eachPrefix(id, prefix)
           K == {k \in KeysUnder(id) : IsPrefix(prefix, k)}
<1>1. InOrder(keys, K, FALSE)
  BY PrefixInOrder
<1>2. K \subseteq Seq(Nat)
  BY DEF KeysUnder
<1> HIDE DEF keys
<1>3. /\ keys \in Seq(K) /\ DOMAIN keys = 1 .. Len(keys) /\ Len(keys) \in Nat
      /\ \A i \in 1 .. Len(keys) : keys[i] \in K
  BY <1>1, LenProperties, ElementOfSeq DEF InOrder
<1>4. keys \in Seq(Seq(Nat))
  <2>1. keys \in [1 .. Len(keys) -> Seq(Nat)]
    <3>1. keys \in [1 .. Len(keys) -> K]
      BY <1>3, LenProperties
    <3> HIDE DEF K
    <3> QED BY <1>2, <3>1
  <2> QED BY <2>1, <1>3, FunctionIsSeq
<1>5. \A k \in ToSet(keys) : k \in KeysUnder(id) /\ IsPrefix(prefix, k)
  BY <1>3 DEF ToSet
<1>6. ASSUME NEW i \in 1 .. Len(keys) + 1
      PROVE  LET run == SubSeq(keys, i, Len(keys))
             IN  /\ Taken(run, limit) = SubSeq(keys, i, Min({i + limit - 1, Len(keys)}))
                 /\ After(run, limit, FALSE) = TokenAt(keys, i + limit)
  BY <1>4, TakenFrom
<1>7. HoldsKeysFrom(listPrefixedPaginated(id, prefix, NoToken, limit), id, 1, limit, keys)
  <2>1. SubSeq(keys, 1, Len(keys)) = keys
    <3>1. 1 \in 1 .. Len(keys) + 1 /\ Len(keys) \in 1 - 1 .. Len(keys)
      BY <1>3
    <3>2. /\ SubSeq(keys, 1, Len(keys)) \in Seq(K)
          /\ Len(SubSeq(keys, 1, Len(keys))) = Len(keys) - 1 + 1
          /\ \A j \in 1 .. Len(keys) - 1 + 1 : SubSeq(keys, 1, Len(keys))[j] = keys[1 + j - 1]
      <4> HIDE DEF K
      <4> QED BY <1>3, <3>1, PartOf
    <3>3. Len(keys) - 1 + 1 = Len(keys) /\ \A j \in 1 .. Len(keys) : 1 + j - 1 = j
      BY <1>3
    <3> HIDE DEF K
    <3> QED BY <1>3, <3>2, <3>3, SeqEqual
  <2>2. listPrefixedPaginated(id, prefix, NoToken, limit)
            = Page(id, Taken(keys, limit), After(keys, limit, FALSE), NoToken)
    BY DEF listPrefixedPaginated, FirstPage, keys
  <2>3. 1 \in 1 .. Len(keys) + 1
    BY <1>3
  <2> DEFINE page == listPrefixedPaginated(id, prefix, NoToken, limit)
  <2>4. /\ page.keys = Taken(keys, limit) /\ page.values = ValuesOf(id, Taken(keys, limit))
        /\ page.next = After(keys, limit, FALSE)
    BY <2>2 DEF Page
  <2> HIDE DEF page
  <2>5. /\ Taken(keys, limit) = SubSeq(keys, 1, Min({1 + limit - 1, Len(keys)}))
        /\ After(keys, limit, FALSE) = TokenAt(keys, 1 + limit)
    BY <1>6, <2>1, <2>3
  <2> QED BY <2>4, <2>5 DEF HoldsKeysFrom, page
<1>8. ASSUME NEW i \in 1 .. Len(keys)
      PROVE  HoldsKeysFrom(listPrefixedPaginated(id, prefix, TokenAt(keys, i), limit),
                           id, i, limit, keys)
  <2> DEFINE token == TokenAt(keys, i)
             run == SubSeq(keys, i, Len(keys))
  <2>1. token = Token(keys[i], FALSE)
    BY <1>3 DEF TokenAt
  <2>2. token # NoToken /\ token.key = keys[i] /\ token.reverse = FALSE
    <3>1. keys[i] \in Seq(Nat)
      BY <1>2, <1>3
    <3>2. Token(keys[i], FALSE) \in [key : Seq(Nat), reverse : BOOLEAN]
      BY <3>1 DEF Token
    <3>3. Token(keys[i], FALSE).key = keys[i] /\ Token(keys[i], FALSE).reverse = FALSE
      BY DEF Token
    <3> HIDE DEF token
    <3> QED BY <2>1, <3>2, <3>3, NoTokenAssumption
  <2>3. Run(prefix, listInRange(id, keys[i], <<>>, FALSE)) = run
    BY RunFromKey DEF keys
  <2>4. \E back : listPrefixedPaginated(id, prefix, token, limit)
            = Page(id, Taken(run, limit), After(run, limit, FALSE), back)
    <3> HIDE DEF token, run
    <3>1. listPrefixedPaginated(id, prefix, token, limit) = PageFrom(id, prefix, keys[i], limit)
      BY <2>2 DEF listPrefixedPaginated
    <3> QED BY <2>3, <3>1 DEF PageFrom
  <2>5. i \in 1 .. Len(keys) + 1
    BY <1>3
  <2> DEFINE page == listPrefixedPaginated(id, prefix, token, limit)
  <2>6. /\ page.keys = Taken(run, limit) /\ page.values = ValuesOf(id, Taken(run, limit))
        /\ page.next = After(run, limit, FALSE)
    BY <2>4 DEF Page
  <2> HIDE DEF page
  <2>7. /\ Taken(run, limit) = SubSeq(keys, i, Min({i + limit - 1, Len(keys)}))
        /\ After(run, limit, FALSE) = TokenAt(keys, i + limit)
    BY <1>6, <2>5
  <2> HIDE DEF run
  <2> QED BY <2>6, <2>7 DEF HoldsKeysFrom, page
<1> QED BY <1>3, <1>4, <1>5, <1>7, <1>8 DEF keys

\* What is made of a page's keys is that of the listing's.
LEMMA PageOfIndex ==
    ASSUME NEW t, NEW pk, NEW id, NEW keys \in Seq(Seq(Nat)), NEW i \in 1 .. Len(keys) + 1,
           NEW limit \in Nat, 0 < limit, NEW page, HoldsKeysFrom(page, id, i, limit, keys)
    PROVE  HoldsFrom(TypedPage(page, ItemsOf(t, pk, page.keys)), i, limit, keys,
                     ItemsOf(t, pk, keys))
<1> DEFINE f == [k \in Seq(Nat) |-> ItemOf(t, pk, k)]
           last == Min({i + limit - 1, Len(keys)})
           part == SubSeq(keys, i, last)
<1>1. last \in i - 1 .. Len(keys)
  BY TakenFrom
<1> HIDE DEF last
<1>2. part \in Seq(Seq(Nat))
  BY <1>1, PartOf
<1>3. \A s \in Seq(Seq(Nat)) : ItemsOf(t, pk, s) = [j \in DOMAIN s |-> f[s[j]]]
  <2> SUFFICES ASSUME NEW s \in Seq(Seq(Nat))
               PROVE  ItemsOf(t, pk, s) = [j \in DOMAIN s |-> f[s[j]]]
    OBVIOUS
  <2>1. \A j \in DOMAIN s : s[j] \in Seq(Nat)
    BY LenProperties, ElementOfSeq
  <2> QED BY <2>1 DEF ItemsOf
<1> HIDE DEF f
<1>4. /\ [j \in DOMAIN part |-> f[part[j]]] = SubSeq([j \in DOMAIN keys |-> f[keys[j]]], i, last)
      /\ Len([j \in DOMAIN keys |-> f[keys[j]]]) = Len(keys)
  BY <1>1, MapOfPart
<1> HIDE DEF part
<1>5. ItemsOf(t, pk, part) = SubSeq(ItemsOf(t, pk, keys), i, last) /\ Len(ItemsOf(t, pk, keys)) = Len(keys)
  BY <1>2, <1>3, <1>4
<1>6. page.keys = part /\ page.next = TokenAt(keys, i + limit)
  BY DEF HoldsKeysFrom, part, last
<1> QED BY <1>5, <1>6 DEF HoldsFrom, TypedPage, last

\* What is made of a page's values is that of the listing's.
LEMMA PageOfTable ==
    ASSUME Inv, RowsInv, NEW t \in Layout, Running(t), ~IsIndex(t),
           NEW keys \in Seq(Seq(Nat)), \A k \in ToSet(keys) : k \in KeysUnder(Opened(t).id),
           NEW i \in 1 .. Len(keys) + 1, NEW limit \in Nat, 0 < limit,
           NEW page, HoldsKeysFrom(page, Opened(t).id, i, limit, keys)
    PROVE  HoldsFrom(TypedPage(page, [j \in DOMAIN page.values |->
                                         Decode(t.type, page.values[j])]),
                     i, limit, keys, ValuesAt(Opened(t), keys))
<1> DEFINE id == Opened(t).id
           U == KeysUnder(id)
           f == [k \in U |-> Get(Opened(t), k)]
           last == Min({i + limit - 1, Len(keys)})
           part == SubSeq(keys, i, last)
           items == [j \in DOMAIN page.values |-> Decode(t.type, page.values[j])]
<1>1. last \in i - 1 .. Len(keys)
  BY TakenFrom
<1> HIDE DEF last
<1>2. \A k \in U : Get(Opened(t), k) = Decode(t.type, get(id, k))
  BY ValuesOfTable
<1>3. keys \in Seq(U)
  <2>1. DOMAIN keys = 1 .. Len(keys) /\ keys \in [1 .. Len(keys) -> Seq(Nat)] /\ Len(keys) \in Nat
    BY LenProperties
  <2>2. \A j \in 1 .. Len(keys) : keys[j] \in U
    BY <2>1 DEF ToSet
  <2> HIDE DEF U
  <2>3. keys \in [1 .. Len(keys) -> U]
    BY <2>1, <2>2
  <2> QED BY <2>1, <2>3, FunctionIsSeq
<1>4. /\ part \in Seq(U) /\ DOMAIN part = 1 .. Len(part)
      /\ \A j \in DOMAIN part : part[j] \in U
  <2> HIDE DEF U
  <2>1. part \in Seq(U)
    BY <1>1, <1>3, PartOf
  <2> QED BY <2>1, LenProperties, ElementOfSeq
<1>5. DOMAIN keys = 1 .. Len(keys) /\ \A j \in DOMAIN keys : keys[j] \in U
  BY <1>3, LenProperties, ElementOfSeq
<1>6. page.keys = part /\ page.values = ValuesOf(id, part) /\ page.next = TokenAt(keys, i + limit)
  BY DEF HoldsKeysFrom, last
<1> HIDE DEF part, U
<1>7. items = [j \in DOMAIN part |-> Decode(t.type, get(id, part[j]))]
  BY <1>6 DEF ValuesOf
<1>8. items = [j \in DOMAIN part |-> f[part[j]]]
  BY <1>2, <1>4, <1>7
<1>9. ValuesAt(Opened(t), keys) = [j \in DOMAIN keys |-> f[keys[j]]]
  BY <1>5 DEF ValuesAt
<1> HIDE DEF f, items
<1>10. /\ [j \in DOMAIN part |-> f[part[j]]] = SubSeq([j \in DOMAIN keys |-> f[keys[j]]], i, last)
       /\ Len([j \in DOMAIN keys |-> f[keys[j]]]) = Len(keys)
  BY <1>1, <1>3, MapOfPart DEF part
<1>11. /\ items = SubSeq(ValuesAt(Opened(t), keys), i, last)
       /\ Len(ValuesAt(Opened(t), keys)) = Len(keys)
  BY <1>8, <1>9, <1>10
<1> QED BY <1>6, <1>11 DEF HoldsFrom, TypedPage, last, items

\* Pages of any limit hold what the listing holds from where they begin, and their
\* tokens lead from each to the next (listPrefixedPaginated and its typed callers).
THEOREM PagesFollow == Spec => []PagesFollowListing
<1>1. Inv /\ RowsInv /\ StoreOfStrings => PagesFollowListing
  <2> SUFFICES ASSUME Inv, RowsInv, StoreOfStrings, NEW limit \in 1 .. MaxLimit
               PROVE  /\ \A t \in RunningIndexes : \A pk \in Keys[t] :
                             PagesHold(LAMBDA token : ListItemsPaginated(Opened(t), pk, token, limit),
                                       limit, eachPrefix(Opened(t).id, pk),
                                       ListItems(Opened(t), pk))
                      /\ \A t \in RunningTables :
                             PagesHold(LAMBDA token : ListPaginated(Opened(t), <<>>, token, limit),
                                       limit, eachPrefix(Opened(t).id, <<>>),
                                       ListAll(Opened(t), <<>>))
    BY DEF PagesFollowListing
  <2>1. limit \in Nat /\ 0 < limit
    BY LimitAssumption
  <2>2. ASSUME NEW t \in Layout, Running(t), NEW prefix \in Seq(Nat)
        PROVE  LET id == Opened(t).id
                   keys == eachPrefix(id, prefix)
               IN  /\ keys \in Seq(Seq(Nat)) /\ DOMAIN keys = 1 .. Len(keys)
                   /\ 1 \in 1 .. Len(keys) + 1
                   /\ \A i \in DOMAIN keys : i \in 1 .. Len(keys) + 1
                   /\ \A k \in ToSet(keys) : k \in KeysUnder(id)
                   /\ HoldsKeysFrom(listPrefixedPaginated(id, prefix, NoToken, limit),
                                    id, 1, limit, keys)
                   /\ \A i \in DOMAIN keys :
                          HoldsKeysFrom(listPrefixedPaginated(id, prefix, TokenAt(keys, i), limit),
                                        id, i, limit, keys)
    <3> DEFINE id == Opened(t).id
               keys == eachPrefix(id, prefix)
    <3>1. id \in Seq(Nat)
      BY <2>2, OpenIds DEF Inv, Ids
    <3> HIDE DEF id
    <3>2. /\ keys \in Seq(Seq(Nat))
          /\ \A k \in ToSet(keys) : k \in KeysUnder(id)
          /\ HoldsKeysFrom(listPrefixedPaginated(id, prefix, NoToken, limit), id, 1, limit, keys)
          /\ \A i \in DOMAIN keys :
                 HoldsKeysFrom(listPrefixedPaginated(id, prefix, TokenAt(keys, i), limit),
                               id, i, limit, keys)
      BY <2>1, <2>2, <3>1, PagesHoldKeys
    <3> HIDE DEF keys
    <3>3. Len(keys) \in Nat /\ DOMAIN keys = 1 .. Len(keys)
      BY <3>2, LenProperties
    <3>4. 1 \in 1 .. Len(keys) + 1 /\ \A i \in DOMAIN keys : i \in 1 .. Len(keys) + 1
      BY <3>3
    <3> QED BY <3>2, <3>3, <3>4 DEF id, keys
  <2>3. ASSUME NEW t \in Layout, Running(t), IsIndex(t), NEW pk \in Keys[t]
        PROVE  PagesHold(LAMBDA token : ListItemsPaginated(Opened(t), pk, token, limit),
                         limit, eachPrefix(Opened(t).id, pk), ListItems(Opened(t), pk))
    <3> DEFINE id == Opened(t).id
               keys == eachPrefix(id, pk)
               items == ItemsOf(Opened(t), pk, keys)
               raw(token) == listPrefixedPaginated(id, pk, token, limit)
               page(token) == TypedPage(raw(token), ItemsOf(Opened(t), pk, raw(token).keys))
    <3>1. pk \in Seq(Nat)
      BY CodecAssumption
    <3>2. /\ keys \in Seq(Seq(Nat)) /\ DOMAIN keys = 1 .. Len(keys)
          /\ 1 \in 1 .. Len(keys) + 1
          /\ \A i \in DOMAIN keys : i \in 1 .. Len(keys) + 1
          /\ HoldsKeysFrom(raw(NoToken), id, 1, limit, keys)
          /\ \A i \in DOMAIN keys : HoldsKeysFrom(raw(TokenAt(keys, i)), id, i, limit, keys)
      BY <2>2, <2>3, <3>1
    <3> HIDE DEF keys, raw
    <3>3. HoldsFrom(page(NoToken), 1, limit, keys, items)
      BY <2>1, <3>2, PageOfIndex
    <3>4. \A i \in DOMAIN keys : HoldsFrom(page(TokenAt(keys, i)), i, limit, keys, items)
      BY <2>1, <3>2, PageOfIndex
    <3>5. \A token : ListItemsPaginated(Opened(t), pk, token, limit) = page(token)
      BY DEF ListItemsPaginated, raw
    <3>6. ListItems(Opened(t), pk) = items
      BY DEF ListItems, keys
    <3> HIDE DEF items, page
    <3>7. PagesHold(LAMBDA token : ListItemsPaginated(Opened(t), pk, token, limit),
                    limit, keys, items)
      BY <3>3, <3>4, <3>5 DEF PagesHold
    <3> QED BY <3>6, <3>7 DEF keys
  <2>4. ASSUME NEW t \in Layout, Running(t), ~IsIndex(t)
        PROVE  PagesHold(LAMBDA token : ListPaginated(Opened(t), <<>>, token, limit),
                         limit, eachPrefix(Opened(t).id, <<>>), ListAll(Opened(t), <<>>))
    <3> DEFINE id == Opened(t).id
               keys == eachPrefix(id, <<>>)
               items == ValuesAt(Opened(t), keys)
               raw(token) == listPrefixedPaginated(id, <<>>, token, limit)
               page(token) == TypedPage(raw(token), [j \in DOMAIN raw(token).values |->
                                                        Decode(t.type, raw(token).values[j])])
    <3>1. <<>> \in Seq(Nat) /\ Opened(t).type = t.type
      BY EmptySeq DEF Opened
    <3>2. /\ keys \in Seq(Seq(Nat)) /\ DOMAIN keys = 1 .. Len(keys)
          /\ 1 \in 1 .. Len(keys) + 1
          /\ \A i \in DOMAIN keys : i \in 1 .. Len(keys) + 1
          /\ \A k \in ToSet(keys) : k \in KeysUnder(id)
          /\ HoldsKeysFrom(raw(NoToken), id, 1, limit, keys)
          /\ \A i \in DOMAIN keys : HoldsKeysFrom(raw(TokenAt(keys, i)), id, i, limit, keys)
      BY <2>2, <2>4, <3>1
    <3> HIDE DEF keys, raw
    <3>3. HoldsFrom(page(NoToken), 1, limit, keys, items)
      BY <2>1, <2>4, <3>2, PageOfTable
    <3>4. \A i \in DOMAIN keys : HoldsFrom(page(TokenAt(keys, i)), i, limit, keys, items)
      BY <2>1, <2>4, <3>2, PageOfTable
    <3>5. \A token : ListPaginated(Opened(t), <<>>, token, limit) = page(token)
      BY <3>1 DEF ListPaginated, raw
    <3>6. ListAll(Opened(t), <<>>) = items
      BY DEF ListAll, keys
    <3> HIDE DEF items, page
    <3>7. PagesHold(LAMBDA token : ListPaginated(Opened(t), <<>>, token, limit),
                    limit, keys, items)
      BY <3>3, <3>4, <3>5 DEF PagesHold
    <3> QED BY <3>6, <3>7 DEF keys
  <2> QED BY <2>3, <2>4 DEF RunningIndexes, RunningTables
<1> QED BY <1>1, StoreInvariant, PTL

=============================================================================
