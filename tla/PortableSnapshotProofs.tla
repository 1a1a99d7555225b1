----------------------- MODULE PortableSnapshotProofs -----------------------
(***************************************************************************)
(* Proofs about PortableSnapshot, for every set of cores, sections, keys,  *)
(* bounds and chunk: what a restore leaves behind when it succeeds, when   *)
(* it does not, and meanwhile.                                             *)
(***************************************************************************)
EXTENDS PortableSnapshot, FiniteSetTheorems, SequenceTheorems, TLAPS

SectionNames == Range(Sections) \cup UNION {Range(l) : l \in SectionLists}

\* The table frame before position p of the stream s that is nearest names t.
Under(s, p, t) ==
    \E q \in 1 .. p - 1 :
        /\ s[q].kind = "table" /\ s[q].table = t
        /\ \A i \in q + 1 .. p - 1 : s[i].kind # "table"

Positions(s) == 1 .. Len(s)

\* There is a record of the entity k of t at position p of the stream s.
RecordAt(s, p, t, k) ==
    p \in Positions(s) /\ s[p].kind = "record" /\ s[p].key = k /\ Under(s, p, t)

Written(c) == writer[c].state = "written"

-----------------------------------------------------------------------------
(* The inductive invariant.                                                *)

WriteTypes ==
    /\ live \in [Cores -> Rows] /\ view \in [Cores -> Rows]
    /\ writer \in [Cores -> Writers]
    /\ stream \in [Cores -> Seq(Frames)]

RestoreTypes ==
    /\ db \in Rows /\ txn \in Rows
    /\ pending \in Nat
    /\ pc \in {"idle", "clear", "read", "commit", "last", "flatten", "done"}
    /\ sections \in SectionLists /\ readers \in Seq(Cores)
    /\ at \in Nat /\ pos \in Nat
    /\ table \in Range(Sections) \cup {NoTable}

\* Cores have rows of their own entities, in sections they stream.
HomeInv ==
    \A c \in Cores, n \in Names :
        live[c][n] # Absent \/ view[c][n] # Absent =>
            Home[n] = c /\ n[1] \in Range(Sections)

\* A writer in a section has opened it, and has keys of it left that the view has.
OpenInv(s, w, v) ==
    /\ w.state \in {"none", "pinned"} => s = <<>> /\ w.todo = {}
    /\ w.state = "writing" /\ w.section > 0 => Under(s, Len(s) + 1, Sections[w.section])
    /\ w.state = "writing" =>
           \A k \in w.todo : w.section > 0 /\ v[<<Sections[w.section], k>>] # Absent

\* A stream ends where it is closed, after its last section.
CloseInv(s, w) ==
    /\ w.state = "written" =>
           w.section = Len(Sections) /\ s # <<>> /\ s[Len(s)].kind = "close"
    /\ \A p \in Positions(s) :
           s[p].kind = "close" => w.state = "written" /\ p = Len(s)

\* Records are of the view.
RecordInv(s, v) ==
    \A p \in Positions(s) :
        s[p].kind = "record" =>
            \E t \in Range(Sections) :
                /\ Under(s, p, t)
                /\ s[p].value = v[<<t, s[p].key>>] /\ s[p].value # Absent

\* The sections written so far have all of the view but what is left of the last.
WholeInv(s, w, v) ==
    w.state \in {"writing", "written"} =>
        \A i \in 1 .. w.section, k \in Keys :
            v[<<Sections[i], k>>] # Absent =>
                \/ w.state = "writing" /\ i = w.section /\ k \in w.todo
                \/ \E p \in Positions(s) : RecordAt(s, p, Sections[i], k)

\* What the stream s holds, and still lacks, of the view v.
StreamOf(s, w, v) ==
    OpenInv(s, w, v) /\ CloseInv(s, w) /\ RecordInv(s, v) /\ WholeInv(s, w, v)

StreamInv(c) == StreamOf(stream[c], writer[c], view[c])

StreamsInv == \A c \in Cores : StreamInv(c)

\* Where RestoreSnapshot is, in its sections and in its streams.
PlaceInv ==
    /\ pc # "idle" => \A c \in Cores : Written(c)
    /\ pc \in {"idle", "clear", "flatten", "done"} => txn = NoRows /\ pending = 0
    /\ pc \in {"idle", "clear", "done"} => table = NoTable
    /\ pc = "clear" =>
           /\ at \in Positions(sections)
           /\ \A i \in 1 .. at - 1, k \in Keys : db[<<sections[i], k>>] = Absent
    /\ pc \in {"clear", "read", "commit"} => Range(readers) = Cores
    /\ pc \in {"read", "commit"} =>
           /\ at \in Positions(readers) /\ pos \in Positions(stream[readers[at]])
           /\ table = NoTable \/ Under(stream[readers[at]], pos, table)

\* The restore has come past position p of the stream of c.
Passed(c, p) ==
    /\ p \in Positions(stream[c])
    /\ \/ pc \in {"last", "flatten", "done"}
       \/ /\ pc \in {"read", "commit"}
          /\ \E j \in Positions(readers) :
                 readers[j] = c /\ (j < at \/ (j = at /\ p < pos))

\* The records it has passed are of tables it knows, and in its rows or its
\* transaction if they are within its bounds.
PassedInv ==
    \A c \in Cores : \A p \in Positions(stream[c]) : \A t \in Range(Sections), k \in Keys :
        Passed(c, p) /\ RecordAt(stream[c], p, t, k) =>
            /\ t \in Range(sections)
            /\ InBounds(<<t, k>>) => Committed[<<t, k>>] = stream[c][p].value

Inserted == {n \in Names : txn[n] # Absent}

PendingInv ==
    /\ IsFiniteSet(Inserted) /\ Cardinality(Inserted) <= pending
    /\ pending <= restoreTxnChunk
    /\ pc = "read" => pending < restoreTxnChunk

WriteInv == WriteTypes /\ HomeInv /\ StreamsInv
RestoreInv == RestoreTypes /\ PlaceInv /\ NothingForeign /\ PassedInv /\ PendingInv
IInv == WriteInv /\ RestoreInv

-----------------------------------------------------------------------------
(* Streams and rows.                                                       *)

LEMMA UnderOne ==
    ASSUME NEW s, NEW p \in Nat, NEW t, NEW u, Under(s, p, t), Under(s, p, u)
    PROVE  t = u
<1>1. PICK q \in 1 .. p - 1 :
          s[q].kind = "table" /\ s[q].table = t /\ \A i \in q + 1 .. p - 1 : s[i].kind # "table"
  BY DEF Under
<1>2. PICK r \in 1 .. p - 1 :
          s[r].kind = "table" /\ s[r].table = u /\ \A i \in r + 1 .. p - 1 : s[i].kind # "table"
  BY DEF Under
<1>3. q = r
  BY <1>1, <1>2
<1>4. QED
  BY <1>1, <1>2, <1>3

LEMMA FrameFields ==
    ASSUME NEW f \in Frames
    PROVE  /\ f.kind \in {"meta", "close", "table", "record"}
           /\ f.kind = "table" => f.table \in Range(Sections)
           /\ f.kind = "record" => f.key \in Keys /\ f.value \in Values
BY DEF Frames

LEMMA Appended ==
    ASSUME NEW s \in Seq(Frames), NEW f \in Frames
    PROVE  /\ Append(s, f) \in Seq(Frames) /\ Len(Append(s, f)) = Len(s) + 1
           /\ Append(s, f)[Len(s) + 1] = f
           /\ \A p \in Positions(s) : Append(s, f)[p] = s[p]
BY DEF Positions

\* What is appended changes nothing before it, and a table frame opens its table.
LEMMA UnderAppended ==
    ASSUME NEW s \in Seq(Frames), NEW f \in Frames
    PROVE  /\ \A p \in 1 .. Len(s) + 1 : \A t : Under(s, p, t) => Under(Append(s, f), p, t)
           /\ \A p \in Positions(s) : \A t, k :
                  RecordAt(s, p, t, k) => RecordAt(Append(s, f), p, t, k)
           /\ f.kind # "table" =>
                  \A t : Under(s, Len(s) + 1, t) => Under(Append(s, f), Len(s) + 2, t)
           /\ f.kind = "table" => Under(Append(s, f), Len(s) + 2, f.table)
<1> DEFINE a == Append(s, f)
<1>0. /\ Len(s) \in Nat /\ Len(a) = Len(s) + 1 /\ a[Len(s) + 1] = f
      /\ \A p \in Positions(s) : a[p] = s[p]
  <2>1. Len(s) \in Nat
    OBVIOUS
  <2>2. QED
    BY <2>1, Appended
<1> HIDE DEF a
<1>1. ASSUME NEW p \in 1 .. Len(s) + 1, NEW t, Under(s, p, t)
      PROVE  Under(a, p, t)
  BY <1>0, <1>1 DEF Under, Positions
<1>2. ASSUME NEW p \in Positions(s), NEW t, NEW k, RecordAt(s, p, t, k)
      PROVE  RecordAt(a, p, t, k)
  BY <1>0, <1>1, <1>2 DEF RecordAt, Positions
<1>3. ASSUME f.kind # "table", NEW t, Under(s, Len(s) + 1, t)
      PROVE  Under(a, Len(s) + 2, t)
  BY <1>0, <1>3 DEF Under, Positions
<1>4. ASSUME f.kind = "table"
      PROVE  Under(a, Len(s) + 2, f.table)
  BY <1>0, <1>4 DEF Under, Positions
<1>5. QED
  BY <1>1, <1>2, <1>3, <1>4 DEF a

LEMMA NameOf ==
    /\ \A t \in SectionNames, k \in Keys : <<t, k>> \in Names /\ <<t, k>>[1] = t
    /\ \A n \in Names : n[1] \in SectionNames /\ n[2] \in Keys /\ n = <<n[1], n[2]>>
    /\ Range(Sections) \subseteq SectionNames
    /\ \A l \in SectionLists : Range(l) \subseteq SectionNames
BY DEF Names, SectionNames

LEMMA SectionOf ==
    ASSUME NEW l \in SectionLists \cup {Sections}
    PROVE  /\ Len(l) \in Nat
           /\ \A i \in Positions(l) : l[i] \in Range(l)
           /\ \A t \in Range(l) : \E i \in Positions(l) : l[i] = t
           /\ Range(l) \subseteq SectionNames
<1>1. l \in Seq(Range(l))
  BY SectionAssumption
<1>2. QED
  BY <1>1, NameOf DEF Range, Positions

-----------------------------------------------------------------------------
(* Snapshot and WriteSnapshot.                                             *)

WriteStep(c) ==
    NewSnapshot(c) \/ Write(c) \/ WriteTable(c) \/ WriteRecord(c) \/ WriteClose(c)
    \/ WriteFails(c)

LEMMA OthersKeep ==
    ASSUME WriteTypes, NEW c \in Cores, WriteStep(c), NEW d \in Cores, d # c
    PROVE  stream'[d] = stream[d] /\ writer'[d] = writer[d] /\ view'[d] = view[d]
BY DEF WriteTypes, WriteStep, NewSnapshot, Write, WriteTable, WriteRecord, WriteClose,
       WriteFails

LEMMA WriterFields ==
    ASSUME NEW w \in Writers, NEW i \in 0 .. Len(Sections), NEW todo \in SUBSET Keys
    PROVE  /\ [w EXCEPT !.state = "writing", !.section = i] \in Writers
           /\ [w EXCEPT !.section = i, !.todo = todo] \in Writers
BY DEF Writers

LEMMA WriteTypesNext ==
    ASSUME WriteTypes, StreamsInv, NEW c \in Cores,
           WriteStep(c) \/ \E n \in Names, v \in Values \cup {Absent} : Update(c, n, v)
    PROVE  WriteTypes'
<1> USE DEF WriteTypes
<1>1. ASSUME NEW n \in Names, NEW v \in Values \cup {Absent}, Update(c, n, v)
      PROVE  WriteTypes'
  <2>1. [live[c] EXCEPT ![n] = v] \in Rows
    BY DEF Rows
  <2>2. QED
    BY <1>1, <2>1 DEF Update
<1>2. CASE NewSnapshot(c)
  <2>1. [writer[c] EXCEPT !.state = "pinned"] \in Writers
    BY DEF Writers
  <2>2. QED
    BY <1>2, <2>1 DEF NewSnapshot
<1>3. CASE Write(c)
  <2>1. [writer[c] EXCEPT !.state = "writing", !.section = 0] \in Writers
    <3>1. writer[c] \in Writers /\ 0 \in 0 .. Len(Sections)
      BY SectionOf
    <3>2. QED
      BY <3>1, WriterFields
  <2>2. <<[kind |-> "meta"]>> \in Seq(Frames)
    BY DEF Frames
  <2>3. QED
    BY <1>3, <2>1, <2>2 DEF Write
<1>4. CASE WriteTable(c)
  <2> DEFINE w == writer[c]
             s == Sections[w.section + 1]
  <2>1. /\ stream' = [stream EXCEPT ![c] = Append(@, [kind |-> "table", table |-> s])]
        /\ writer' = [writer EXCEPT ![c] = [@ EXCEPT
                          !.section = w.section + 1,
                          !.todo = {k \in Keys : view[c][<<s, k>>] # Absent}]]
        /\ UNCHANGED <<live, view>>
        /\ w.section + 1 \in Positions(Sections)
    BY <1>4, SectionOf DEF WriteTable, Writers, Positions
  <2>2. [kind |-> "table", table |-> s] \in Frames
    BY <2>1, SectionOf DEF Frames
  <2>3. [w EXCEPT !.section = w.section + 1,
                  !.todo = {k \in Keys : view[c][<<s, k>>] # Absent}] \in Writers
    <3>1. w \in Writers /\ w.section + 1 \in 0 .. Len(Sections)
      BY <2>1, SectionOf DEF Positions
    <3>2. {k \in Keys : view[c][<<s, k>>] # Absent} \in SUBSET Keys
      OBVIOUS
    <3> HIDE DEF w, s
    <3>3. QED
      BY <3>1, <3>2, WriterFields
  <2>4. QED
    BY <2>1, <2>2, <2>3, Appended
<1>5. CASE WriteRecord(c)
  <2>1. PICK k \in writer[c].todo :
            /\ stream' = [stream EXCEPT ![c] = Append(@,
                   [kind |-> "record", key |-> k,
                    value |-> view[c][<<Sections[writer[c].section], k>>]])]
            /\ writer' = [writer EXCEPT ![c].todo = @ \ {k}]
            /\ UNCHANGED <<live, view>>
    BY <1>5 DEF WriteRecord
  <2>2. k \in Keys /\ [writer[c] EXCEPT !.todo = @ \ {k}] \in Writers
    BY DEF Writers
  <2>3. /\ writer[c].state = "writing" /\ writer[c].section \in Positions(Sections)
        /\ view[c][<<Sections[writer[c].section], k>>] # Absent
    BY <1>5, SectionOf DEF WriteRecord, StreamsInv, StreamInv, StreamOf, OpenInv, Writers, Positions
  <2>4. view[c][<<Sections[writer[c].section], k>>] \in Values
    BY <2>2, <2>3, SectionOf, NameOf DEF Rows
  <2>5. [kind |-> "record", key |-> k,
         value |-> view[c][<<Sections[writer[c].section], k>>]] \in Frames
    BY <2>2, <2>4 DEF Frames
  <2>6. QED
    BY <2>1, <2>2, <2>5, Appended
<1>6. CASE WriteClose(c)
  <2>1. [kind |-> "close"] \in Frames
    BY DEF Frames
  <2>2. [writer[c] EXCEPT !.state = "written"] \in Writers
    BY DEF Writers
  <2>3. QED
    BY <1>6, <2>1, <2>2, Appended DEF WriteClose
<1>7. CASE WriteFails(c)
  <2>1. [state |-> "none", section |-> 0, todo |-> {}] \in Writers
    BY SectionOf DEF Writers
  <2>2. NoRows \in Rows
    BY DEF NoRows, Rows
  <2>3. QED
    BY <1>7, <2>1, <2>2 DEF WriteFails
<1>8. QED
  BY <1>1, <1>2, <1>3, <1>4, <1>5, <1>6, <1>7 DEF WriteStep

LEMMA HomeNext ==
    ASSUME WriteTypes, HomeInv, NEW c \in Cores,
           WriteStep(c) \/ \E n \in Names, v \in Values \cup {Absent} : Update(c, n, v)
    PROVE  HomeInv'
<1>1. ASSUME NEW n \in Names, NEW v \in Values \cup {Absent}, Update(c, n, v)
      PROVE  HomeInv'
  BY <1>1 DEF Update, HomeInv, WriteTypes, Rows
<1>2. CASE NewSnapshot(c)
  BY <1>2 DEF NewSnapshot, HomeInv, WriteTypes
<1>3. CASE WriteFails(c)
  BY <1>3 DEF WriteFails, HomeInv, WriteTypes, NoRows
<1>4. CASE Write(c) \/ WriteTable(c) \/ WriteRecord(c) \/ WriteClose(c)
  <2>1. UNCHANGED <<live, view>>
    BY <1>4 DEF Write, WriteTable, WriteRecord, WriteClose
  <2>2. QED
    BY <2>1 DEF HomeInv
<1>5. QED
  BY <1>1, <1>2, <1>3, <1>4 DEF WriteStep

\* What each step of Write makes of a stream.
LEMMA OpenSection ==
    ASSUME NEW s \in Seq(Frames), NEW w \in Writers, NEW v, StreamOf(s, w, v),
           w.state = "writing", w.todo = {}, NEW x \in Writers, NEW f \in Frames,
           x.state = "writing", x.section = w.section + 1,
           x.section \in Positions(Sections),
           x.todo = {k \in Keys : v[<<Sections[x.section], k>>] # Absent},
           f.kind = "table", f.table = Sections[x.section]
    PROVE  StreamOf(Append(s, f), x, v)
<1> DEFINE a == Append(s, f)
<1>0. /\ Len(s) \in Nat /\ Len(a) = Len(s) + 1 /\ a[Len(s) + 1] = f
      /\ \A p \in Positions(s) : a[p] = s[p]
      /\ w.section \in Nat
  <2>1. Len(s) \in Nat /\ w.section \in Nat
    BY DEF Writers
  <2>2. QED
    BY <2>1, Appended
<1>1. /\ \A p \in Positions(s) : \A t : Under(s, p, t) => Under(a, p, t)
      /\ \A p \in Positions(s) : \A t, k : RecordAt(s, p, t, k) => RecordAt(a, p, t, k)
      /\ Under(a, Len(a) + 1, f.table)
  <2>1. Len(s) + 2 = Len(a) + 1 /\ Positions(s) \subseteq 1 .. Len(s) + 1
    BY <1>0 DEF Positions
  <2>2. QED
    BY <2>1, UnderAppended
<1> HIDE DEF a
<1>2. OpenInv(a, x, v)
  BY <1>1, <1>0 DEF OpenInv, Positions
<1>3. CloseInv(a, x)
  BY <1>0 DEF StreamOf, CloseInv, Positions
<1>4. RecordInv(a, v)
  <2>1. \A p \in Positions(a) : a[p].kind = "record" => p \in Positions(s)
    BY <1>0 DEF Positions
  <2>2. QED
    BY <1>0, <1>1, <2>1 DEF StreamOf, RecordInv
<1>5. WholeInv(a, x, v)
  <2>1. ASSUME NEW i \in 1 .. w.section, NEW k \in Keys, v[<<Sections[i], k>>] # Absent
        PROVE  \E p \in Positions(a) : RecordAt(a, p, Sections[i], k)
    <3>1. PICK p \in Positions(s) : RecordAt(s, p, Sections[i], k)
      BY <2>1 DEF StreamOf, WholeInv
    <3>2. p \in Positions(a)
      BY <1>0 DEF Positions
    <3>3. QED
      BY <1>1, <3>1, <3>2
  <2>2. ASSUME NEW i \in 1 .. x.section, NEW k \in Keys, v[<<Sections[i], k>>] # Absent
        PROVE  \/ i = x.section /\ k \in x.todo
               \/ \E p \in Positions(a) : RecordAt(a, p, Sections[i], k)
    <3>1. i \in 1 .. w.section \/ i = x.section
      BY <1>0
    <3>2. QED
      BY <2>1, <2>2, <3>1
  <2>3. QED
    BY <2>2 DEF WholeInv
<1>6. QED
  BY <1>2, <1>3, <1>4, <1>5 DEF StreamOf, a

LEMMA AddRecord ==
    ASSUME NEW s \in Seq(Frames), NEW w \in Writers, NEW v, StreamOf(s, w, v),
           w.state = "writing", NEW k \in w.todo, NEW x \in Writers, NEW f \in Frames,
           x.state = "writing", x.section = w.section, x.todo = w.todo \ {k},
           w.section \in Positions(Sections),
           f.kind = "record", f.key = k, f.value = v[<<Sections[w.section], k>>]
    PROVE  StreamOf(Append(s, f), x, v)
<1> DEFINE a == Append(s, f)
           t0 == Sections[w.section]
<1>0. /\ Len(s) \in Nat /\ Len(a) = Len(s) + 1 /\ a[Len(s) + 1] = f
      /\ \A p \in Positions(s) : a[p] = s[p]
      /\ w.section \in Nat \ {0} /\ t0 \in Range(Sections)
  <2>1. Len(s) \in Nat /\ w.section \in Nat \ {0} /\ t0 \in Range(Sections)
    BY SectionOf DEF Positions
  <2>2. QED
    BY <2>1, Appended
<1>1. /\ \A p \in 1 .. Len(s) + 1 : \A t : Under(s, p, t) => Under(a, p, t)
      /\ \A p \in Positions(s) : \A t, j : RecordAt(s, p, t, j) => RecordAt(a, p, t, j)
      /\ \A t : Under(s, Len(s) + 1, t) => Under(a, Len(a) + 1, t)
  BY <1>0, UnderAppended DEF Positions
<1> HIDE DEF a, t0
<1>2. Under(s, Len(s) + 1, t0) /\ v[<<t0, k>>] # Absent
  BY <1>0 DEF StreamOf, OpenInv, t0
<1>3. OpenInv(a, x, v)
  BY <1>0, <1>1, <1>2 DEF StreamOf, OpenInv, t0
<1>4. CloseInv(a, x)
  BY <1>0 DEF StreamOf, CloseInv, Positions
<1>5. RecordInv(a, v)
  <2>1. ASSUME NEW p \in Positions(a), a[p].kind = "record"
        PROVE  \E t \in Range(Sections) :
                   /\ Under(a, p, t)
                   /\ a[p].value = v[<<t, a[p].key>>] /\ a[p].value # Absent
    <3>1. CASE p \in Positions(s)
      BY <1>0, <1>1, <2>1, <3>1 DEF StreamOf, RecordInv, Positions
    <3>2. CASE p = Len(s) + 1
      BY <1>0, <1>1, <1>2, <3>2 DEF t0
    <3>3. p \in Positions(s) \/ p = Len(s) + 1
      BY <1>0 DEF Positions
    <3>4. QED
      BY <3>1, <3>2, <3>3
  <2>2. QED
    BY <2>1 DEF RecordInv
<1>6. WholeInv(a, x, v)
  <2>1. RecordAt(a, Len(a), t0, k) /\ Len(a) \in Positions(a)
    BY <1>0, <1>1, <1>2 DEF RecordAt, Positions
  <2>2. ASSUME NEW i \in 1 .. w.section, NEW j \in Keys, v[<<Sections[i], j>>] # Absent,
               ~(i = w.section /\ j \in x.todo)
        PROVE  \E p \in Positions(a) : RecordAt(a, p, Sections[i], j)
    <3>1. CASE i = w.section /\ j = k
      BY <2>1, <3>1 DEF t0
    <3>2. CASE ~(i = w.section /\ j = k)
      <4>1. PICK p \in Positions(s) : RecordAt(s, p, Sections[i], j)
        BY <2>2, <3>2 DEF StreamOf, WholeInv
      <4>2. p \in Positions(a)
        BY <1>0 DEF Positions
      <4>3. QED
        BY <1>1, <4>1, <4>2
    <3>3. QED
      BY <3>1, <3>2
  <2>3. QED
    BY <2>2 DEF WholeInv
<1>7. QED
  BY <1>3, <1>4, <1>5, <1>6 DEF StreamOf, a

LEMMA CloseStream ==
    ASSUME NEW s \in Seq(Frames), NEW w \in Writers, NEW v, StreamOf(s, w, v),
           w.state = "writing", w.todo = {}, NEW x \in Writers, NEW f \in Frames,
           x.state = "written", x.section = w.section,
           w.section = Len(Sections), f.kind = "close"
    PROVE  StreamOf(Append(s, f), x, v)
<1> DEFINE a == Append(s, f)
<1>0. /\ Len(s) \in Nat /\ Len(a) = Len(s) + 1 /\ a[Len(s) + 1] = f
      /\ \A p \in Positions(s) : a[p] = s[p]
      /\ a # <<>>
  <2>1. Len(s) \in Nat
    OBVIOUS
  <2>2. /\ Len(a) = Len(s) + 1 /\ a[Len(s) + 1] = f
        /\ \A p \in Positions(s) : a[p] = s[p]
    BY Appended
  <2>3. a # <<>>
    BY <2>1, <2>2
  <2>4. QED
    BY <2>1, <2>2, <2>3
<1>1. /\ \A p \in Positions(s) : \A t : Under(s, p, t) => Under(a, p, t)
      /\ \A p \in Positions(s) : \A t, j : RecordAt(s, p, t, j) => RecordAt(a, p, t, j)
  BY <1>0, UnderAppended DEF Positions
<1> HIDE DEF a
<1>2. OpenInv(a, x, v)
  BY DEF OpenInv
<1>3. CloseInv(a, x)
  BY <1>0 DEF StreamOf, CloseInv, Positions
<1>4. RecordInv(a, v)
  BY <1>0, <1>1 DEF StreamOf, RecordInv, Positions
<1>5. WholeInv(a, x, v)
  <2>1. ASSUME NEW i \in 1 .. w.section, NEW j \in Keys, v[<<Sections[i], j>>] # Absent
        PROVE  \E p \in Positions(a) : RecordAt(a, p, Sections[i], j)
    <3>1. PICK p \in Positions(s) : RecordAt(s, p, Sections[i], j)
      BY <2>1 DEF StreamOf, WholeInv
    <3>2. p \in Positions(a)
      BY <1>0 DEF Positions
    <3>3. QED
      BY <1>1, <3>1, <3>2
  <2>2. QED
    BY <2>1 DEF WholeInv
<1>6. QED
  BY <1>2, <1>3, <1>4, <1>5 DEF StreamOf, a

LEMMA StreamNext ==
    ASSUME WriteTypes, StreamsInv, NEW c \in Cores, WriteStep(c)
    PROVE  StreamInv(c)'
<1> DEFINE s == stream[c]  w == writer[c]  v == view[c]
<1>0. /\ StreamOf(s, w, v) /\ s \in Seq(Frames) /\ w \in Writers
      /\ stream' \in [Cores -> Seq(Frames)] /\ writer' \in [Cores -> Writers]
  BY WriteTypesNext DEF StreamsInv, StreamInv, WriteTypes
<1>1. CASE NewSnapshot(c)
  <2>1. stream'[c] = <<>> /\ writer'[c].state = "pinned" /\ writer'[c].todo = {}
    BY <1>0, <1>1 DEF NewSnapshot, WriteTypes, StreamOf, OpenInv, Writers
  <2>2. QED
    BY <2>1 DEF StreamInv, StreamOf, OpenInv, CloseInv, RecordInv, WholeInv, Positions
<1>2. CASE Write(c)
  <2>1. /\ stream'[c] = <<[kind |-> "meta"]>>
        /\ writer'[c].state = "writing" /\ writer'[c].section = 0
        /\ writer'[c].todo = w.todo
    BY <1>0, <1>2 DEF Write, WriteTypes, Writers
  <2>2. w.todo = {}
    BY <1>0, <1>2 DEF Write, StreamOf, OpenInv
  <2>3. QED
    BY <2>1, <2>2 DEF StreamInv, StreamOf, OpenInv, CloseInv, RecordInv, WholeInv, Positions
<1>3. CASE WriteTable(c)
  <2> DEFINE x == writer'[c]
             f == [kind |-> "table", table |-> Sections[w.section + 1]]
  <2>1. /\ w.state = "writing" /\ w.todo = {} /\ w.section + 1 \in Positions(Sections)
        /\ stream'[c] = Append(s, f) /\ view'[c] = v
    <3>1. /\ w.state = "writing" /\ w.todo = {} /\ w.section < Len(Sections)
          /\ stream'[c] = Append(s, f) /\ view'[c] = v
      BY <1>3 DEF WriteTable, WriteTypes
    <3>2. w.section \in 0 .. Len(Sections) /\ Len(Sections) \in Nat
      BY <1>0, SectionOf DEF Writers
    <3>3. QED
      BY <3>1, <3>2 DEF Positions
  <2>2. /\ x \in Writers /\ x.state = "writing" /\ x.section = w.section + 1
        /\ x.todo = {k \in Keys : v[<<Sections[w.section + 1], k>>] # Absent}
    BY <1>0, <1>3, <2>1 DEF WriteTable, WriteTypes, Writers
  <2>3. f \in Frames /\ f.kind = "table" /\ f.table = Sections[w.section + 1]
    BY <2>1, SectionOf DEF Frames
  <2> HIDE DEF x, f, s, w, v
  <2>4. StreamOf(Append(s, f), x, v)
    BY <1>0, <2>1, <2>2, <2>3, OpenSection
  <2>5. QED
    BY <2>1, <2>4 DEF StreamInv, x
<1>4. CASE WriteRecord(c)
  <2> DEFINE x == writer'[c]
  <2>1. PICK k \in w.todo :
            /\ stream' = [stream EXCEPT ![c] = Append(@,
                   [kind |-> "record", key |-> k, value |-> v[<<Sections[w.section], k>>]])]
            /\ writer' = [writer EXCEPT ![c].todo = @ \ {k}]
            /\ view' = view /\ w.state = "writing"
    BY <1>4 DEF WriteRecord
  <2> DEFINE f == [kind |-> "record", key |-> k, value |-> v[<<Sections[w.section], k>>]]
  <2>2. /\ w.section \in Positions(Sections) /\ v[<<Sections[w.section], k>>] # Absent
        /\ k \in Keys
    BY <1>0, <2>1 DEF StreamOf, OpenInv, Writers, Positions
  <2>3. v[<<Sections[w.section], k>>] \in Values
    BY <2>2, SectionOf, NameOf DEF WriteTypes, Rows
  <2>4. /\ f \in Frames /\ f.kind = "record" /\ f.key = k
        /\ f.value = v[<<Sections[w.section], k>>]
    BY <2>2, <2>3 DEF Frames
  <2>5. stream'[c] = Append(s, f) /\ view'[c] = v
    BY <2>1 DEF WriteTypes
  <2>6. /\ x \in Writers /\ x.state = "writing" /\ x.section = w.section
        /\ x.todo = w.todo \ {k}
    BY <1>0, <2>1 DEF WriteTypes, Writers
  <2> HIDE DEF x, f, s, w, v
  <2>7. StreamOf(Append(s, f), x, v)
    BY <1>0, <2>1, <2>2, <2>4, <2>6, AddRecord
  <2>8. QED
    BY <2>5, <2>7 DEF StreamInv, x
<1>5. CASE WriteClose(c)
  <2> DEFINE x == writer'[c]
             f == [kind |-> "close"]
  <2>1. /\ w.state = "writing" /\ w.todo = {} /\ w.section = Len(Sections)
        /\ stream'[c] = Append(s, f) /\ view'[c] = v
    BY <1>5 DEF WriteClose, WriteTypes
  <2>2. x \in Writers /\ x.state = "written" /\ x.section = w.section
    BY <1>0, <1>5 DEF WriteClose, WriteTypes, Writers
  <2>3. f \in Frames /\ f.kind = "close"
    BY DEF Frames
  <2> HIDE DEF x, f, s, w, v
  <2>4. StreamOf(Append(s, f), x, v)
    BY <1>0, <2>1, <2>2, <2>3, CloseStream
  <2>5. QED
    BY <2>1, <2>4 DEF StreamInv, x
<1>6. CASE WriteFails(c)
  <2>1. stream'[c] = <<>> /\ writer'[c].state = "none" /\ writer'[c].todo = {}
    BY <1>0, <1>6 DEF WriteFails, WriteTypes
  <2>2. QED
    BY <2>1 DEF StreamInv, StreamOf, OpenInv, CloseInv, RecordInv, WholeInv, Positions
<1>7. QED
  BY <1>1, <1>2, <1>3, <1>4, <1>5, <1>6 DEF WriteStep

LEMMA WriteNext ==
    ASSUME WriteInv, NEW c \in Cores,
           WriteStep(c) \/ \E n \in Names, v \in Values \cup {Absent} : Update(c, n, v)
    PROVE  WriteInv'
<1>0. WriteTypes /\ HomeInv /\ StreamsInv
  BY DEF WriteInv
<1>1. WriteTypes' /\ HomeInv'
  BY <1>0, WriteTypesNext, HomeNext
<1>2. CASE WriteStep(c)
  <2>1. ASSUME NEW d \in Cores, d # c
        PROVE  StreamInv(d)'
    BY <1>0, <1>2, <2>1, OthersKeep DEF StreamsInv, StreamInv
  <2>2. QED
    BY <1>0, <1>1, <1>2, <2>1, StreamNext DEF WriteInv, StreamsInv
<1>3. CASE \E n \in Names, v \in Values \cup {Absent} : Update(c, n, v)
  <2>1. UNCHANGED <<view, writer, stream>>
    BY <1>3 DEF Update
  <2>2. QED
    BY <1>0, <1>1, <2>1 DEF WriteInv, StreamsInv, StreamInv
<1>4. QED
  BY <1>2, <1>3

\* While a restore is under way, or has ended with success, nothing is written.
LEMMA WritersAreAtRest ==
    ASSUME WriteTypes, PlaceInv, pc # "idle", NEW c \in Cores,
           WriteStep(c) \/ \E n \in Names, v \in Values \cup {Absent} : Update(c, n, v)
    PROVE  FALSE
<1>1. writer[c].state = "written"
  BY DEF PlaceInv, Written
<1>2. QED
  BY <1>1 DEF WriteStep, Update, NewSnapshot, Write, WriteTable, WriteRecord, WriteClose,
              WriteFails

-----------------------------------------------------------------------------
(* RestoreSnapshot.                                                        *)

RestoreStep ==
    \/ Restore \/ Clear \/ ClearFails
    \/ ReadMeta \/ ReadTable \/ UnknownTable \/ SkipEntity \/ RestoreEntity
    \/ Commit \/ CommitFails \/ EndOfStream \/ CommitLast \/ Flatten \/ Abort

LEMMA RowsOf ==
    /\ NoRows \in Rows
    /\ \A names : db \in Rows => Without(db, names) \in Rows
    /\ db \in Rows /\ txn \in Rows => Committed \in Rows
    /\ txn = NoRows /\ db \in Rows => Committed = db
BY DEF NoRows, Rows, Without, Committed

\* What is read next, while not all is read.
LEMMA FrameRead ==
    ASSUME WriteTypes, StreamsInv, RestoreTypes, PlaceInv, pc = "read"
    PROVE  /\ readers[at] \in Cores /\ Frame \in Frames
           /\ pos \in Positions(stream[readers[at]])
           /\ Frame = stream[readers[at]][pos]
           /\ Frame.kind # "close" => pos + 1 \in Positions(stream[readers[at]])
           /\ Frame.kind = "close" => pos = Len(stream[readers[at]])
<1> DEFINE s == stream[readers[at]]
<1>1. readers[at] \in Cores
  BY DEF PlaceInv, RestoreTypes, Positions
<1>2. s \in Seq(Frames) /\ Len(s) \in Nat /\ pos \in Positions(s)
  BY <1>1 DEF WriteTypes, PlaceInv
<1>3. writer[readers[at]].state = "written" /\ CloseInv(s, writer[readers[at]])
  BY <1>1 DEF PlaceInv, Written, StreamsInv, StreamInv, StreamOf
<1>4. Frame \in Frames
  BY <1>2 DEF Frame, Positions
<1>5. /\ Frame.kind # "close" => pos + 1 \in Positions(s)
      /\ Frame.kind = "close" => pos = Len(s)
  BY <1>2, <1>3 DEF CloseInv, Frame, Positions
<1>6. QED
  BY <1>1, <1>2, <1>4, <1>5 DEF Frame

\* A record of a stream is what its core's view has of an entity of its own.
LEMMA RecordIs ==
    ASSUME WriteInv, NEW c \in Cores, NEW p \in Positions(stream[c]),
           NEW t, NEW k, RecordAt(stream[c], p, t, k)
    PROVE  /\ t \in Range(Sections) /\ k \in Keys /\ <<t, k>> \in Names
           /\ stream[c][p].value = view[c][<<t, k>>] /\ stream[c][p].value \in Values
           /\ stream[c][p].value # Absent /\ Home[<<t, k>>] = c
<1> DEFINE s == stream[c]
<1>1. s \in Seq(Frames) /\ p \in Nat /\ s[p] \in Frames
  BY DEF WriteInv, WriteTypes, Positions
<1>2. s[p].kind = "record" /\ s[p].key = k /\ Under(s, p, t)
  BY DEF RecordAt
<1>3. k \in Keys /\ s[p].value \in Values
  BY <1>1, <1>2, FrameFields
<1>4. PICK u \in Range(Sections) :
          Under(s, p, u) /\ s[p].value = view[c][<<u, k>>] /\ s[p].value # Absent
  BY <1>2 DEF WriteInv, StreamsInv, StreamInv, StreamOf, RecordInv
<1>5. u = t
  BY <1>1, <1>2, <1>4, UnderOne
<1>6. <<t, k>> \in Names
  BY <1>3, <1>4, <1>5, NameOf
<1>7. Home[<<t, k>>] = c
  BY <1>4, <1>5, <1>6 DEF WriteInv, HomeInv
<1>8. QED
  BY <1>3, <1>4, <1>5, <1>6, <1>7

\* A record of a table that the core knows is read as one of the table it is of.
LEMMA RecordRead ==
    ASSUME WriteInv, RestoreTypes, PlaceInv, Reads("record"), table \in Range(sections)
    PROVE  RecordAt(stream[readers[at]], pos, table, Frame.key)
<1>0. WriteTypes /\ StreamsInv /\ pc = "read" /\ Frame.kind = "record"
  BY DEF WriteInv, Reads
<1>1. /\ readers[at] \in Cores /\ Frame \in Frames /\ Frame = stream[readers[at]][pos]
      /\ pos \in Positions(stream[readers[at]])
  BY <1>0, FrameRead
<1>2. Frame.key \in Keys
  BY <1>0, <1>1, FrameFields
<1>3. table \in SectionNames
  BY NameOf DEF RestoreTypes
<1>4. table # NoTable
  BY <1>2, <1>3, NameOf, AbsentAssumption
<1>5. QED
  BY <1>0, <1>1, <1>4 DEF PlaceInv, RecordAt

LEMMA UnderNext ==
    ASSUME NEW s, NEW p \in Nat \ {0}
    PROVE  /\ \A t : Under(s, p, t) /\ s[p].kind # "table" => Under(s, p + 1, t)
           /\ s[p].kind = "table" => Under(s, p + 1, s[p].table)
BY DEF Under

LEMMA RestoreTypesNext ==
    ASSUME WriteInv, RestoreTypes, PlaceInv, RestoreStep
    PROVE  RestoreTypes'
<1> USE DEF RestoreTypes
<1>0. WriteTypes /\ StreamsInv
  BY DEF WriteInv
<1>1. ASSUME NEW where \in {"idle", "done"}, Stop(where), db' \in Rows
      PROVE  RestoreTypes'
  BY <1>1, RowsOf DEF Stop
<1>2. CASE Restore
  <2>1. Cardinality(Cores) \in Nat
    BY CoreAssumption, FS_CardinalityType
  <2>2. readers' \in Seq(Cores)
    BY <1>2, <2>1 DEF Restore
  <2>3. QED
    BY <1>2, <2>2 DEF Restore
<1>3. CASE Clear
  BY <1>3, RowsOf DEF Clear
<1>4. CASE ClearFails
  BY <1>1, <1>4, RowsOf DEF ClearFails
<1>5. CASE ReadMeta
  BY <1>5 DEF ReadMeta
<1>6. CASE ReadTable
  <2>1. Frame.table \in Range(Sections)
    BY <1>0, <1>6, FrameRead, FrameFields DEF ReadTable, Reads
  <2>2. QED
    BY <1>6, <2>1 DEF ReadTable
<1>7. CASE UnknownTable
  BY <1>1, <1>7 DEF UnknownTable
<1>8. CASE SkipEntity
  BY <1>8 DEF SkipEntity
<1>9. CASE RestoreEntity
  <2>1. Frame.value \in Values
    BY <1>0, <1>9, FrameRead, FrameFields DEF RestoreEntity, Reads
  <2>2. [txn EXCEPT ![<<table, Frame.key>>] = Frame.value] \in Rows
    BY <2>1 DEF Rows
  <2>3. QED
    BY <1>9, <2>2 DEF RestoreEntity, Reads
<1>10. CASE Commit
  BY <1>10, RowsOf DEF Commit
<1>11. CASE CommitFails
  BY <1>1, <1>11, RowsOf DEF CommitFails
<1>12. CASE EndOfStream
  BY <1>12 DEF EndOfStream
<1>13. CASE CommitLast
  BY <1>13, RowsOf DEF CommitLast
<1>14. CASE Flatten \/ Abort
  BY <1>1, <1>14 DEF Flatten, Abort
<1>15. QED
  BY <1>2, <1>3, <1>4, <1>5, <1>6, <1>7, <1>8, <1>9, <1>10, <1>11, <1>12, <1>13, <1>14
     DEF RestoreStep

\* Steps that go on to the next frame of a stream.
LEMMA PlaceAfterFrame ==
    ASSUME WriteTypes, StreamsInv, RestoreTypes, PlaceInv, pc = "read",
           Frame.kind # "close", UNCHANGED <<writing, readers, at>>, pos' = pos + 1,
           pc' \in {"read", "commit"},
           table' = IF Frame.kind = "table" THEN Frame.table ELSE table
    PROVE  PlaceInv'
<1> DEFINE s == stream[readers[at]]
<1>1. /\ pos \in Nat \ {0} /\ pos + 1 \in Positions(s) /\ Frame = s[pos]
  BY FrameRead DEF Positions
<1>2. table' = NoTable \/ Under(s, pos + 1, table')
  BY <1>1, UnderNext DEF PlaceInv
<1>3. QED
  BY <1>1, <1>2 DEF PlaceInv, writing, Written

LEMMA PlaceNext ==
    ASSUME WriteInv, RestoreTypes, PlaceInv, RestoreStep
    PROVE  PlaceInv'
<1>0. /\ WriteTypes /\ StreamsInv
      /\ UNCHANGED writing
  BY DEF WriteInv, RestoreStep, Restore, Clear, ClearFails, ReadMeta, ReadTable, UnknownTable,
         SkipEntity, RestoreEntity, Commit, CommitFails, EndOfStream, CommitLast, Flatten,
         Abort
<1>1. CASE Stop("idle")
  BY <1>1 DEF Stop, PlaceInv
<1>2. CASE Restore
  <2>1. sections' \in Seq(Range(sections')) /\ sections' # <<>>
    BY <1>2, SectionAssumption DEF Restore
  <2>2. Len(sections') \in Nat /\ 1 \in Positions(sections')
    BY <2>1 DEF Positions
  <2>3. \A c \in Cores : Written(c)'
    BY <1>0, <1>2 DEF Restore, Written, writing
  <2>4. Range(readers') = Cores
    BY <1>2 DEF Restore
  <2>5. QED
    BY <1>2, <2>2, <2>3, <2>4 DEF Restore, PlaceInv
<1>3. CASE Clear
  <2>1. /\ at \in Positions(sections) /\ Len(sections) \in Nat /\ at \in Nat
        /\ \A i \in Positions(sections) : sections[i] \in SectionNames
    BY <1>3, SectionOf DEF Clear, PlaceInv, RestoreTypes
  <2>2. \A c \in Cores : Written(c)'
    BY <1>0, <1>3 DEF Clear, PlaceInv, Written, writing
  <2>3. CASE at < Len(sections)
    <3>1. at + 1 \in Positions(sections)
      BY <2>1, <2>3 DEF Positions
    <3>2. ASSUME NEW i \in 1 .. at, NEW k \in Keys
          PROVE  db'[<<sections[i], k>>] = Absent
      <4>1. <<sections[i], k>> \in Names
        BY <2>1, <3>1, NameOf DEF Positions
      <4>2. i # at => db[<<sections[i], k>>] = Absent
        BY <1>3, <2>1 DEF Clear, PlaceInv
      <4>3. QED
        BY <1>3, <4>1, <4>2 DEF Clear, Without
    <3>3. QED
      <4>1. /\ pc = "clear" /\ pc' = "clear" /\ at' = at + 1
            /\ UNCHANGED <<txn, pending, sections, readers, table>>
        BY <1>3, <2>3 DEF Clear
      <4>2. \A i \in 1 .. at' - 1, k \in Keys : db'[<<sections'[i], k>>] = Absent
        BY <2>1, <3>2, <4>1
      <4>3. QED
        BY <2>2, <3>1, <4>1, <4>2 DEF PlaceInv
  <2>4. CASE ~(at < Len(sections))
    <3>1. Range(readers) = Cores /\ readers \in Seq(Cores)
      BY <1>3 DEF Clear, PlaceInv, RestoreTypes
    <3>2. readers # <<>>
      BY <3>1, CoreAssumption DEF Range
    <3>3. 1 \in Positions(readers) /\ readers[1] \in Cores
      BY <3>1, <3>2 DEF Positions
    <3>4. CloseInv(stream[readers[1]], writer[readers[1]])
      BY <1>0, <3>3 DEF StreamsInv, StreamInv, StreamOf
    <3>5. writer[readers[1]].state = "written" /\ stream[readers[1]] \in Seq(Frames)
      BY <1>0, <1>3, <3>3 DEF Clear, PlaceInv, Written, WriteTypes
    <3>6. 1 \in Positions(stream[readers[1]])
      BY <3>4, <3>5 DEF CloseInv, Positions
    <3>7. QED
      BY <1>0, <1>3, <2>2, <2>4, <3>1, <3>3, <3>6 DEF Clear, PlaceInv, writing
  <2>5. QED
    BY <2>3, <2>4
<1>4. CASE ReadMeta \/ SkipEntity \/ RestoreEntity
  <2>1. /\ pc = "read" /\ Frame.kind \in {"meta", "record"} /\ pos' = pos + 1
        /\ UNCHANGED <<readers, at, table>> /\ pc' \in {"read", "commit"}
    BY <1>4 DEF ReadMeta, SkipEntity, RestoreEntity, Reads
  <2>2. QED
    BY <1>0, <2>1, PlaceAfterFrame
<1>5. CASE ReadTable
  <2>1. /\ pc = "read" /\ Frame.kind = "table" /\ pos' = pos + 1
        /\ UNCHANGED <<readers, at>> /\ pc' = "read" /\ table' = Frame.table
    BY <1>5 DEF ReadTable, Reads
  <2>2. QED
    BY <1>0, <2>1, PlaceAfterFrame
<1>6. CASE Commit
  BY <1>0, <1>6 DEF Commit, PlaceInv, Written, writing
<1>7. CASE EndOfStream
  <2>1. \A c \in Cores : Written(c)'
    BY <1>0, <1>7 DEF EndOfStream, Reads, PlaceInv, Written, writing
  <2>2. CASE at < Len(readers)
    <3>1. Range(readers) = Cores /\ readers \in Seq(Cores) /\ at \in Positions(readers)
      BY <1>7 DEF EndOfStream, Reads, PlaceInv, RestoreTypes
    <3>2. at + 1 \in Positions(readers) /\ readers[at + 1] \in Cores
      BY <2>2, <3>1 DEF Positions
    <3>3. CloseInv(stream[readers[at + 1]], writer[readers[at + 1]])
      BY <1>0, <3>2 DEF StreamsInv, StreamInv, StreamOf
    <3>4. /\ writer[readers[at + 1]].state = "written"
          /\ stream[readers[at + 1]] \in Seq(Frames)
      BY <1>0, <1>7, <3>2 DEF EndOfStream, Reads, PlaceInv, Written, WriteTypes
    <3>5. 1 \in Positions(stream[readers[at + 1]])
      BY <3>3, <3>4 DEF CloseInv, Positions
    <3>6. QED
      BY <1>0, <1>7, <2>1, <2>2, <3>1, <3>2, <3>5
         DEF EndOfStream, Reads, PlaceInv, writing
  <2>3. CASE ~(at < Len(readers))
    BY <1>7, <2>1, <2>3 DEF EndOfStream, Reads, PlaceInv
  <2>4. QED
    BY <2>2, <2>3
<1>8. CASE CommitLast
  BY <1>0, <1>8 DEF CommitLast, PlaceInv, Written, writing
<1>9. CASE Flatten
  BY <1>0, <1>9 DEF Flatten, Stop, PlaceInv, Written, writing
<1>10. QED
  BY <1>1, <1>2, <1>3, <1>4, <1>5, <1>6, <1>7, <1>8, <1>9
     DEF RestoreStep, ClearFails, UnknownTable, CommitFails, Abort

LEMMA ForeignNext ==
    ASSUME WriteInv, RestoreInv, RestoreStep
    PROVE  NothingForeign'
<1>0. /\ WriteTypes /\ StreamsInv /\ RestoreTypes /\ PlaceInv /\ NothingForeign
      /\ UNCHANGED <<view, stream>>
  BY DEF WriteInv, RestoreInv, RestoreStep, Restore, Clear, ClearFails, ReadMeta, ReadTable,
         UnknownTable, SkipEntity, RestoreEntity, Commit, CommitFails, EndOfStream,
         CommitLast, Flatten, Abort, writing
<1> USE DEF InBounds, InSnapshots, Restored
<1>1. CASE Stop("idle") \/ Restore
  BY <1>1 DEF Stop, Restore, NothingForeign
<1>2. CASE Clear
  <2>1. CASE at < Len(sections)
    BY <1>2, <2>1 DEF Clear, NothingForeign
  <2>2. CASE ~(at < Len(sections))
    <3>1. /\ at = Len(sections) /\ txn = NoRows
          /\ \A i \in 1 .. at - 1, k \in Keys : db[<<sections[i], k>>] = Absent
      BY <1>0, <1>2, <2>2, SectionOf DEF Clear, PlaceInv, RestoreTypes, Positions
    <3>2. ASSUME NEW n \in Names, n[1] \in Range(sections)
          PROVE  db'[n] = Absent
      <4>1. PICK i \in Positions(sections) : sections[i] = n[1]
        BY <1>0, <3>2, SectionOf DEF RestoreTypes
      <4>2. n = <<sections[i], n[2]>> /\ n[2] \in Keys
        BY <4>1, NameOf
      <4>3. i # at => db[n] = Absent
        BY <3>1, <4>2, SectionOf DEF Positions, RestoreTypes
      <4>4. i = at => n \in {sections[at]} \X Keys
        BY <4>2
      <4>5. QED
        BY <1>2, <4>3, <4>4 DEF Clear, Without
    <3>3. \A n \in Names : txn'[n] = Absent /\ sections' = sections
      BY <1>2, <3>1 DEF Clear, NoRows
    <3>4. QED
      BY <3>2, <3>3 DEF NothingForeign
  <2>3. QED
    BY <2>1, <2>2
<1>3. CASE ReadMeta \/ ReadTable \/ SkipEntity \/ EndOfStream
  <2>1. pc = "read" /\ UNCHANGED <<db, txn, sections>>
    BY <1>3 DEF ReadMeta, ReadTable, SkipEntity, EndOfStream, Reads
  <2>2. QED
    BY <1>0, <2>1 DEF NothingForeign
<1>4. CASE RestoreEntity
  <2> DEFINE n0 == <<table, Frame.key>>
  <2>1. /\ Reads("record") /\ table \in Range(sections) /\ pc = "read"
        /\ Owns(ShardKey[n0]) /\ UNCHANGED <<db, sections>>
        /\ txn' = [txn EXCEPT ![n0] = Frame.value]
    BY <1>4 DEF RestoreEntity, Reads
  <2>2. /\ RecordAt(stream[readers[at]], pos, table, Frame.key)
        /\ readers[at] \in Cores /\ pos \in Positions(stream[readers[at]])
        /\ Frame = stream[readers[at]][pos]
    BY <1>0, <2>1, RecordRead, FrameRead
  <2>3. n0 \in Names /\ Frame.value = view[Home[n0]][n0] /\ Frame.value # Absent
    BY <2>2, RecordIs
  <2>4. ShardKey[n0] \in Lower .. Upper
    BY <2>1, <2>3, BoundsAssumption DEF Owns
  <2> HIDE DEF n0
  <2>5. ASSUME NEW n \in Names, txn'[n] # Absent
        PROVE  ShardKey[n] \in Lower .. Upper /\ view[Home[n]][n] = txn'[n]
    BY <1>0, <2>1, <2>3, <2>4, <2>5 DEF NothingForeign, RestoreTypes, Rows
  <2>6. QED
    BY <1>0, <2>1, <2>5 DEF NothingForeign
<1>5. CASE Commit \/ CommitLast
  <2>1. /\ pc \in {"commit", "last"} /\ db' = Committed /\ txn' = NoRows
        /\ UNCHANGED sections
    BY <1>5 DEF Commit, CommitLast
  <2>2. \A n \in Names : txn'[n] = Absent /\ (db'[n] = db[n] \/ db'[n] = txn[n])
    BY <2>1 DEF Committed, NoRows
  <2>3. QED
    BY <1>0, <2>1, <2>2 DEF NothingForeign
<1>6. CASE Flatten
  <2>1. /\ pc = "flatten" /\ txn' = NoRows /\ UNCHANGED <<db, sections>>
    BY <1>6 DEF Flatten, Stop
  <2>2. \A n \in Names : txn'[n] = Absent
    BY <2>1 DEF NoRows
  <2>3. QED
    BY <1>0, <2>1, <2>2 DEF NothingForeign
<1>7. QED
  BY <1>1, <1>2, <1>3, <1>4, <1>5, <1>6
     DEF RestoreStep, ClearFails, UnknownTable, CommitFails, Abort

LEMMA PendingNext ==
    ASSUME WriteInv, RestoreInv, RestoreStep
    PROVE  PendingInv'
<1>0. /\ WriteTypes /\ StreamsInv /\ RestoreTypes /\ PlaceInv /\ PendingInv
      /\ pending \in Nat /\ restoreTxnChunk \in Nat \ {0}
  BY ChunkAssumption DEF WriteInv, RestoreInv, RestoreTypes
<1>1. ASSUME txn' = NoRows, pending' = 0
      PROVE  PendingInv'
  <2>1. Inserted' = {}
    BY <1>1 DEF Inserted, NoRows
  <2>2. IsFiniteSet({}) /\ Cardinality({}) = 0
    BY FS_EmptySet
  <2>3. QED
    BY <1>0, <1>1, <2>1, <2>2 DEF PendingInv
<1>2. ASSUME UNCHANGED <<txn, pending>>, pc' = "read" => pc = "read"
      PROVE  PendingInv'
  BY <1>0, <1>2 DEF PendingInv, Inserted
<1>3. CASE Clear
  <2>1. txn' = NoRows /\ pending' = 0
    BY <1>0, <1>3 DEF Clear, PlaceInv
  <2>2. QED
    BY <1>1, <2>1
<1>4. CASE RestoreEntity
  <2> DEFINE n0 == <<table, Frame.key>>
  <2>1. /\ pending' = pending + 1 /\ pending < restoreTxnChunk
        /\ pc' = "read" => pending' < restoreTxnChunk
        /\ txn' = [txn EXCEPT ![n0] = Frame.value]
    BY <1>0, <1>4 DEF RestoreEntity, Reads, PendingInv
  <2>2. Inserted' \subseteq Inserted \cup {n0}
    BY <1>0, <2>1 DEF Inserted, RestoreTypes, Rows
  <2>3. /\ IsFiniteSet(Inserted \cup {n0})
        /\ Cardinality(Inserted \cup {n0}) <= Cardinality(Inserted) + 1
        /\ Cardinality(Inserted) \in Nat
    <3>1. IsFiniteSet(Inserted) /\ Cardinality(Inserted) \in Nat
      BY <1>0, FS_CardinalityType DEF PendingInv
    <3> HIDE DEF n0
    <3>2. QED
      BY <3>1, FS_AddElement
  <2>4. /\ IsFiniteSet(Inserted') /\ Cardinality(Inserted') \in Nat
        /\ Cardinality(Inserted') <= Cardinality(Inserted \cup {n0})
        /\ Cardinality(Inserted \cup {n0}) \in Nat
    BY <2>2, <2>3, FS_Subset, FS_CardinalityType
  <2>5. Cardinality(Inserted) <= pending
    BY <1>0 DEF PendingInv
  <2>6. Cardinality(Inserted') <= pending' /\ pending' <= restoreTxnChunk
    BY <1>0, <2>1, <2>3, <2>4, <2>5
  <2>7. QED
    BY <2>1, <2>4, <2>6 DEF PendingInv
<1>5. QED
  BY <1>1, <1>2, <1>3, <1>4
     DEF RestoreStep, Restore, ClearFails, ReadMeta, ReadTable, UnknownTable, SkipEntity,
         Commit, CommitFails, EndOfStream, CommitLast, Flatten, Abort, Stop, Reads

\* The next frame has been passed as well.
LEMMA PassedFrame ==
    ASSUME RestoreTypes, PlaceInv, pc = "read", UNCHANGED <<stream, readers, at>>,
           pos' = pos + 1, pc' \in {"read", "commit"}, NEW c, NEW p, Passed(c, p)'
    PROVE  Passed(c, p) \/ (c = readers[at] /\ p = pos)
<1>1. PICK j \in Positions(readers) : readers[j] = c /\ (j < at \/ (j = at /\ p < pos + 1))
  BY DEF Passed
<1>2. p \in Positions(stream[c]) /\ p \in Nat /\ pos \in Nat
  BY DEF Passed, RestoreTypes, Positions
<1>3. QED
  BY <1>1, <1>2 DEF Passed

LEMMA PassedNext ==
    ASSUME WriteInv, RestoreInv, RestoreStep
    PROVE  PassedInv'
<1>0. /\ WriteTypes /\ StreamsInv /\ RestoreTypes /\ PlaceInv /\ PassedInv
      /\ UNCHANGED <<view, stream>>
  BY DEF WriteInv, RestoreInv, RestoreStep, Restore, Clear, ClearFails, ReadMeta, ReadTable,
         UnknownTable, SkipEntity, RestoreEntity, Commit, CommitFails, EndOfStream,
         CommitLast, Flatten, Abort, writing
<1>1. ASSUME \A c \in Cores : \A p \in Positions(stream[c]) : ~Passed(c, p)'
      PROVE  PassedInv'
  BY <1>0, <1>1 DEF PassedInv
<1>2. ASSUME UNCHANGED sections, \A n \in Names : Committed'[n] = Committed[n],
             \A c \in Cores : \A p \in Positions(stream[c]) :
                 Passed(c, p)' /\ stream[c][p].kind = "record" => Passed(c, p)
      PROVE  PassedInv'
  <2>1. ASSUME NEW c \in Cores, NEW p \in Positions(stream[c]), NEW t \in Range(Sections),
               NEW k \in Keys, Passed(c, p)', RecordAt(stream[c], p, t, k)
        PROVE  /\ t \in Range(sections)
               /\ InBounds(<<t, k>>) => Committed'[<<t, k>>] = stream[c][p].value
    <3>1. Passed(c, p)
      BY <1>2, <2>1 DEF RecordAt
    <3>2. <<t, k>> \in Names
      BY NameOf
    <3>3. QED
      BY <1>0, <1>2, <2>1, <3>1, <3>2 DEF PassedInv
  <2>2. QED
    BY <1>0, <1>2, <2>1 DEF PassedInv, InBounds
<1>3. CASE Stop("idle") \/ Restore
  BY <1>1, <1>3 DEF Stop, Restore, Passed
<1>4. CASE Clear
  <2>1. ASSUME NEW c \in Cores, NEW p \in Positions(stream[c]), Passed(c, p)'
        PROVE  FALSE
    <3>1. pc' = "read" /\ at' = 1 /\ pos' = 1
      BY <1>4, <2>1 DEF Clear, Passed
    <3>2. p \in Nat \ {0}
      BY DEF Positions
    <3>3. QED
      BY <2>1, <3>1, <3>2 DEF Passed, Positions
  <2>2. QED
    BY <1>1, <2>1
<1>5. CASE ReadMeta \/ ReadTable
  <2>1. /\ pc = "read" /\ pc' = "read" /\ UNCHANGED <<db, txn, sections, readers, at>>
        /\ pos' = pos + 1 /\ Frame.kind # "record"
    BY <1>5 DEF ReadMeta, ReadTable, Reads
  <2>2. ASSUME NEW c \in Cores, NEW p \in Positions(stream[c]), Passed(c, p)',
               stream[c][p].kind = "record"
        PROVE  Passed(c, p)
    BY <1>0, <2>1, <2>2, PassedFrame DEF Frame
  <2>3. QED
    BY <1>2, <2>1, <2>2 DEF Committed
<1>6. CASE SkipEntity \/ RestoreEntity
  <2> DEFINE n0 == <<table, Frame.key>>
  <2>1. /\ Reads("record") /\ pc = "read" /\ pc' \in {"read", "commit"}
        /\ UNCHANGED <<db, sections, readers, at>>
        /\ pos' = pos + 1 /\ table \in Range(sections)
    BY <1>6 DEF SkipEntity, RestoreEntity, Reads
  <2>2. /\ RecordAt(stream[readers[at]], pos, table, Frame.key)
        /\ readers[at] \in Cores /\ pos \in Positions(stream[readers[at]])
        /\ Frame = stream[readers[at]][pos]
    BY <1>0, <2>1, RecordRead, FrameRead
  <2>3. n0 \in Names /\ Frame.value = view[Home[n0]][n0] /\ Frame.value # Absent
    BY <2>2, RecordIs
  <2>4. /\ \A n \in Names : n # n0 => Committed'[n] = Committed[n]
        /\ Committed'[n0] = Committed[n0] \/ Committed'[n0] = Frame.value
        /\ InBounds(n0) => Committed'[n0] = Frame.value
    <3>1. CASE SkipEntity
      <4>1. ~InBounds(n0) /\ txn' = txn
        BY <1>6, <2>3, <3>1, BoundsAssumption DEF SkipEntity, Owns, InBounds
      <4>2. QED
        BY <2>1, <4>1 DEF Committed
    <3>2. CASE RestoreEntity
      <4>1. txn' = [txn EXCEPT ![n0] = Frame.value]
        BY <3>2 DEF RestoreEntity
      <4>2. txn'[n0] = Frame.value /\ \A n \in Names : n # n0 => txn'[n] = txn[n]
        BY <1>0, <2>3, <4>1 DEF RestoreTypes, Rows
      <4>3. QED
        BY <2>1, <2>3, <4>2 DEF Committed
    <3>3. QED
      BY <1>6, <3>1, <3>2
  <2>5. ASSUME NEW c \in Cores, NEW p \in Positions(stream[c]), NEW t \in Range(Sections),
               NEW k \in Keys, Passed(c, p)', RecordAt(stream[c], p, t, k)
        PROVE  /\ t \in Range(sections)
               /\ InBounds(<<t, k>>) => Committed'[<<t, k>>] = stream[c][p].value
    <3>1. /\ <<t, k>> \in Names /\ stream[c][p].value = view[c][<<t, k>>]
          /\ Home[<<t, k>>] = c
      BY <2>5, RecordIs
    <3>2. <<t, k>> = n0 => stream[c][p].value = Frame.value
      BY <2>3, <3>1
    <3>3. CASE Passed(c, p)
      <4>1. /\ t \in Range(sections)
            /\ InBounds(<<t, k>>) => Committed[<<t, k>>] = stream[c][p].value
        BY <1>0, <2>5, <3>3 DEF PassedInv
      <4> HIDE DEF n0
      <4>2. QED
        BY <2>4, <3>1, <3>2, <4>1
    <3>4. CASE c = readers[at] /\ p = pos
      <4>1. t = table /\ k = Frame.key
        <5>1. /\ Under(stream[c], p, t) /\ stream[c][p].key = k
              /\ Under(stream[c], p, table) /\ stream[c][p].key = Frame.key
          BY <2>2, <2>5, <3>4 DEF RecordAt
        <5>2. p \in Nat
          BY DEF Positions
        <5>3. QED
          BY <5>1, <5>2, UnderOne
      <4>2. QED
        BY <2>1, <2>4, <3>2, <4>1
    <3>5. QED
      BY <1>0, <2>1, <2>5, <3>3, <3>4, PassedFrame
  <2>6. QED
    BY <1>0, <2>1, <2>5 DEF PassedInv, InBounds
<1>7. CASE Commit
  <2>1. /\ UNCHANGED <<sections, readers, at, pos>> /\ db' = Committed /\ txn' = NoRows
        /\ pc = "commit" /\ pc' = "read"
    BY <1>7 DEF Commit
  <2>2. \A n \in Names : Committed'[n] = Committed[n]
    BY <2>1 DEF Committed, NoRows
  <2>3. \A c \in Cores : \A p \in Positions(stream[c]) : Passed(c, p)' => Passed(c, p)
    BY <1>0, <2>1 DEF Passed
  <2>4. QED
    BY <1>2, <2>1, <2>2, <2>3
<1>8. CASE EndOfStream
  <2>1. /\ pc = "read" /\ Frame.kind = "close" /\ UNCHANGED <<sections, readers, db, txn>>
        /\ \/ at' = at + 1 /\ pos' = 1 /\ pc' = "read"
           \/ at >= Len(readers) /\ pc' = "last"
    BY <1>0, <1>8 DEF EndOfStream, Reads, RestoreTypes
  <2>2. /\ Range(readers) = Cores /\ readers \in Seq(Cores) /\ Len(readers) \in Nat
        /\ at \in Nat /\ pos = Len(stream[readers[at]])
        /\ Frame = stream[readers[at]][pos]
    BY <1>0, <2>1, FrameRead DEF PlaceInv, RestoreTypes
  <2>3. ASSUME NEW c \in Cores, NEW p \in Positions(stream[c]), Passed(c, p)',
               stream[c][p].kind = "record"
        PROVE  Passed(c, p)
    <3>1. PICK j \in Positions(readers) : readers[j] = c /\ j <= at
      <4>1. CASE at' = at + 1 /\ pos' = 1 /\ pc' = "read"
        <5>1. PICK j \in Positions(readers) :
                  readers[j] = c /\ (j < at + 1 \/ (j = at + 1 /\ p < 1))
          BY <2>1, <2>3, <4>1 DEF Passed
        <5>2. ~(p < 1)
          BY DEF Positions
        <5>3. QED
          BY <2>2, <5>1, <5>2 DEF Positions
      <4>2. CASE at >= Len(readers) /\ pc' = "last"
        <5>1. PICK j \in DOMAIN readers : readers[j] = c
          BY <2>2 DEF Range
        <5>2. QED
          BY <2>2, <4>2, <5>1 DEF Positions
      <4>3. QED
        BY <2>1, <4>1, <4>2
    <3>2. j = at => p < pos
      <4>1. j = at => p # pos
        BY <2>1, <2>2, <2>3, <3>1
      <4>2. stream[c] \in Seq(Frames)
        BY <1>0 DEF WriteTypes
      <4>3. QED
        BY <2>2, <3>1, <4>1, <4>2 DEF Positions
    <3>3. QED
      BY <2>1, <2>2, <3>1, <3>2 DEF Passed, Positions
  <2>4. \A n \in Names : Committed'[n] = Committed[n]
    BY <2>1 DEF Committed
  <2>5. QED
    BY <1>2, <2>1, <2>3, <2>4
<1>9. CASE CommitLast \/ Flatten
  <2>1. /\ UNCHANGED sections /\ txn' = NoRows
        /\ \/ db' = Committed
           \/ db' = db /\ txn = NoRows
        /\ pc \in {"last", "flatten"}
    BY <1>0, <1>9 DEF CommitLast, Flatten, Stop, PlaceInv
  <2>2. \A n \in Names : Committed'[n] = Committed[n]
    BY <2>1 DEF Committed, NoRows
  <2>3. \A c \in Cores : \A p \in Positions(stream[c]) : Passed(c, p)' => Passed(c, p)
    BY <1>0, <2>1 DEF Passed
  <2>4. QED
    BY <1>2, <2>1, <2>2, <2>3
<1>10. QED
  BY <1>3, <1>4, <1>5, <1>6, <1>7, <1>8, <1>9
     DEF RestoreStep, ClearFails, UnknownTable, CommitFails, Abort

-----------------------------------------------------------------------------
(* The two together.                                                       *)

LEMMA Initially == Init => IInv
<1> SUFFICES ASSUME Init PROVE IInv
  OBVIOUS
<1>1. WriteTypes
  <2>1. \A c \in Cores : [state |-> "none", section |-> 0, todo |-> {}] \in Writers
    BY SectionOf DEF Writers
  <2>2. <<>> \in Seq(Frames)
    OBVIOUS
  <2>3. QED
    BY <2>1, <2>2, RowsOf DEF Init, WriteTypes, Rows
<1>2. HomeInv
  BY DEF Init, HomeInv, NoRows
<1>3. StreamsInv
  BY DEF Init, StreamsInv, StreamInv, StreamOf, OpenInv, CloseInv, RecordInv, WholeInv,
         Positions
<1>4. RestoreTypes
  <2>1. <<>> \in Seq(Cores)
    OBVIOUS
  <2>2. QED
    BY <2>1, RowsOf DEF Init, RestoreTypes, Rows
<1>5. PlaceInv /\ NothingForeign /\ PassedInv
  BY DEF Init, PlaceInv, NothingForeign, PassedInv, Passed
<1>6. PendingInv
  <2>1. Inserted = {}
    BY DEF Init, Inserted, NoRows
  <2>2. QED
    BY <2>1, FS_EmptySet, ChunkAssumption DEF Init, PendingInv
<1>7. QED
  BY <1>1, <1>2, <1>3, <1>4, <1>5, <1>6 DEF IInv, WriteInv, RestoreInv

LEMMA Inductive == IInv /\ [Next]_vars => IInv'
<1> SUFFICES ASSUME IInv, [Next]_vars PROVE IInv'
  OBVIOUS
<1>0. /\ WriteInv /\ WriteTypes
      /\ RestoreInv /\ RestoreTypes /\ PlaceInv /\ NothingForeign /\ PassedInv /\ PendingInv
  BY DEF IInv, WriteInv, RestoreInv
<1>1. ASSUME NEW c \in Cores,
             WriteStep(c) \/ \E n \in Names, v \in Values \cup {Absent} : Update(c, n, v)
      PROVE  IInv'
  <2>1. WriteInv'
    BY <1>0, <1>1, WriteNext
  <2>2. pc = "idle"
    BY <1>0, <1>1, WritersAreAtRest
  <2>3. UNCHANGED restoring
    BY <1>1 DEF WriteStep, Update, NewSnapshot, Write, WriteTable, WriteRecord, WriteClose,
                WriteFails
  <2>4. RestoreTypes' /\ PendingInv'
    BY <1>0, <2>3 DEF restoring, RestoreTypes, PendingInv, Inserted
  <2>5. PlaceInv' /\ NothingForeign' /\ PassedInv'
    BY <1>0, <2>2, <2>3 DEF restoring, PlaceInv, NothingForeign, PassedInv, Passed
  <2>6. QED
    BY <2>1, <2>4, <2>5 DEF IInv, RestoreInv
<1>2. CASE RestoreStep
  <2>1. WriteInv'
    BY <1>0, <1>2 DEF RestoreStep, Restore, Clear, ClearFails, ReadMeta, ReadTable,
       UnknownTable, SkipEntity, RestoreEntity, Commit, CommitFails, EndOfStream, CommitLast,
       Flatten, Abort, writing, WriteInv, WriteTypes, HomeInv, StreamsInv, StreamInv
  <2>2. QED
    BY <1>0, <1>2, <2>1, RestoreTypesNext, PlaceNext, ForeignNext, PassedNext, PendingNext
       DEF IInv, RestoreInv
<1>3. CASE UNCHANGED vars
  <2>1. UNCHANGED writing /\ UNCHANGED restoring
    BY <1>3 DEF vars
  <2>2. WriteInv'
    BY <1>0, <2>1 DEF writing, WriteInv, WriteTypes, HomeInv, StreamsInv, StreamInv
  <2>3. RestoreTypes' /\ PlaceInv' /\ PendingInv'
    BY <1>0, <2>1 DEF writing, restoring, RestoreTypes, PlaceInv, Written, PendingInv, Inserted
  <2>4. NothingForeign'
    BY <1>0, <2>1 DEF writing, restoring, NothingForeign, InSnapshots, Restored
  <2>5. PassedInv'
    <3>1. Committed' = Committed /\ \A c, p : Passed(c, p)' <=> Passed(c, p)
      BY <2>1 DEF writing, restoring, Committed, Passed
    <3>2. QED
      BY <1>0, <2>1, <3>1 DEF writing, restoring, PassedInv, InBounds
  <2>6. QED
    BY <2>2, <2>3, <2>4, <2>5 DEF IInv, RestoreInv
<1>4. QED
  BY <1>1, <1>2, <1>3 DEF Next, WriteStep, RestoreStep

LEMMA Invariant == Spec => []IInv
BY Initially, Inductive, PTL DEF Spec

\* When the restore has come past all streams, every entity a core had at its
\* snapshot has been met: in a table that is known, and within the bounds kept.
LEMMA AllPassed ==
    ASSUME IInv, pc = "done", NEW c \in Cores, NEW n \in Names, view[c][n] # Absent
    PROVE  n[1] \in Range(sections) /\ (InBounds(n) => db[n] = view[c][n])
<1>0. /\ WriteInv /\ WriteTypes /\ HomeInv /\ StreamsInv
      /\ RestoreTypes /\ PlaceInv /\ PassedInv
  BY DEF IInv, WriteInv, RestoreInv
<1>1. n[1] \in Range(Sections) /\ n[2] \in Keys /\ n = <<n[1], n[2]>>
  BY <1>0, NameOf DEF HomeInv
<1>2. PICK i \in Positions(Sections) : Sections[i] = n[1]
  BY <1>1, SectionOf
<1>3. WholeInv(stream[c], writer[c], view[c]) /\ CloseInv(stream[c], writer[c])
  BY <1>0 DEF StreamsInv, StreamInv, StreamOf
<1>4. writer[c].state = "written"
  BY <1>0 DEF PlaceInv, Written
<1>5. PICK p \in Positions(stream[c]) : RecordAt(stream[c], p, n[1], n[2])
  BY <1>1, <1>2, <1>3, <1>4 DEF WholeInv, CloseInv, Positions
<1>6. Passed(c, p)
  BY DEF Passed
<1>7. stream[c][p].value = view[c][n]
  BY <1>0, <1>1, <1>5, RecordIs
<1>8. txn = NoRows /\ Committed = db
  BY <1>0, RowsOf DEF PlaceInv, RestoreTypes
<1>9. QED
  BY <1>0, <1>1, <1>5, <1>6, <1>7, <1>8 DEF PassedInv

-----------------------------------------------------------------------------
(* The theorems.                                                           *)

\* From the end of the clearing on, a restore has left no row but those it is to
\* end with, and has none other in its transaction, wherever it is cut short.
THEOREM NothingForeignIsLeft == Spec => []NothingForeign
<1>1. IInv => NothingForeign
  BY DEF IInv, RestoreInv
<1>2. QED
  BY <1>1, Invariant, PTL

\* No transaction of a restore inserts more entities than restoreTxnChunk.
THEOREM TransactionsFit == Spec => []TransactionsAreBounded
<1>1. ASSUME IInv PROVE TransactionsAreBounded
  <2>1. /\ IsFiniteSet(Inserted) /\ Cardinality(Inserted) <= pending
        /\ pending <= restoreTxnChunk /\ pending \in Nat
    BY <1>1 DEF IInv, RestoreInv, PendingInv, RestoreTypes
  <2>2. Cardinality(Inserted) \in Nat /\ restoreTxnChunk \in Nat
    BY <2>1, FS_CardinalityType, ChunkAssumption
  <2>3. Cardinality(Inserted) <= restoreTxnChunk
    BY <2>1, <2>2
  <2>4. QED
    BY <2>3 DEF TransactionsAreBounded, Inserted
<1>2. QED
  BY <1>1, Invariant, PTL

\* A restore that reports success has left, in the sections it was called with,
\* exactly what the snapshots held within its bounds.
THEOREM RestoresExactly == Spec => []RestoredExactly
<1>1. ASSUME IInv, pc = "done", NEW n \in Names, Restored(n)
      PROVE  db[n] = Expected[n]
  <2>1. Home[n] \in Cores
    BY BoundsAssumption
  <2>2. CASE InBounds(n) /\ view[Home[n]][n] # Absent
    BY <1>1, <2>1, <2>2, AllPassed DEF Expected
  <2>3. CASE ~(InBounds(n) /\ view[Home[n]][n] # Absent)
    <3>1. db[n] # Absent => InBounds(n) /\ InSnapshots(n, db[n])
      BY <1>1 DEF IInv, RestoreInv, NothingForeign
    <3>2. db[n] = Absent
      BY <2>3, <3>1 DEF InSnapshots
    <3>3. QED
      BY <2>3, <3>2 DEF Expected
  <2>4. QED
    BY <2>2, <2>3
<1>2. IInv => RestoredExactly
  BY <1>1 DEF RestoredExactly
<1>3. QED
  BY <1>2, Invariant, PTL

\* A restore that reports success met no record of a table it does not know.
THEOREM UnknownTablesAreRefused == Spec => []UnknownTablesRefused
<1>1. IInv => UnknownTablesRefused
  BY AllPassed DEF UnknownTablesRefused
<1>2. QED
  BY <1>1, Invariant, PTL

=============================================================================
