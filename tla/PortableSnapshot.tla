-------------------------- MODULE PortableSnapshot --------------------------
(***************************************************************************)
(* honey/portable.go: cores stream their primary entities from a pinned    *)
(* view while they go on serving updates, and another core replaces its    *)
(* state by what it owns of one stream (Raft restore, shard split) or of   *)
(* two (shard merge), in chunks, any step of which may fail or be cut      *)
(* short by a crash and the whole be tried again.                          *)
(*                                                                         *)
(* An entity is named by its section and key; what a table stores for it,  *)
(* secondary index rows included, is written in one transaction and stands *)
(* as one row.                                                             *)
(***************************************************************************)
EXTENDS Integers, FiniteSets, Sequences, Functions

CONSTANTS
    Cores,            \* the cores whose snapshots are restored
    Sections,         \* the section names those cores stream, in order
    SectionLists,     \* the lists of sections a restoring core may pass
    Keys,             \* canonical keys
    Values,           \* stored values
    ShardKey,         \* ShardKey[s, k]: the shard key a table computes
    Home,             \* Home[s, k]: the core that owns the entity
    Lower, Upper,     \* the restoring core's bounds
    restoreTxnChunk,  \* entities inserted in one transaction
    Absent,           \* no row
    NoTable           \* the table name before the first table frame

Names == (Range(Sections) \cup UNION {Range(l) : l \in SectionLists}) \X Keys

ASSUME SectionAssumption ==
    /\ \A l \in SectionLists \cup {Sections} : l \in Seq(Range(l))
    /\ <<>> \notin SectionLists
ASSUME CoreAssumption == IsFiniteSet(Cores) /\ Cores # {}
ASSUME BoundsAssumption ==
    /\ Lower \in Nat /\ Upper \in Nat
    /\ ShardKey \in [Names -> Nat] /\ Home \in [Names -> Cores]
ASSUME ChunkAssumption == restoreTxnChunk \in Nat \ {0}
ASSUME AbsentAssumption == Absent \notin Values /\ \A n \in Names : n[1] # NoTable

VARIABLES
    live,      \* live[c]: the rows of a core
    view,      \* view[c]: the rows as the core's last snapshot pinned them
    writer,    \* writer[c]: how far Write has come, see Writers
    stream,    \* stream[c]: the frames it has written
    db,        \* the restoring core's committed rows
    txn,       \* what its open transaction has inserted
    pending,   \* the entities it has counted since the last commit
    pc,        \* where RestoreSnapshot is
    sections,  \* the sections it was last called with
    readers,   \* the streams it was given, in order
    at, pos,   \* the section it clears, or the reader and frame it reads next
    table      \* the name in the last table frame

writing == <<live, view, writer, stream>>
restoring == <<db, txn, pending, pc, sections, readers, at, pos, table>>
vars == <<writing, restoring>>

Rows == [Names -> Values \cup {Absent}]
NoRows == [n \in Names |-> Absent]

\* Write is in the given section with keys of it left to stream, or at rest.
Writers == [state : {"none", "pinned", "writing", "written"},
            section : 0 .. Len(Sections), todo : SUBSET Keys]

Frames == [kind : {"meta", "close"}]
    \cup [kind : {"table"}, table : Range(Sections)]
    \cup [kind : {"record"}, key : Keys, value : Values]

Owns(shardKey) == shardKey >= Lower /\ shardKey <= Upper

TypeOK ==
    /\ live \in [Cores -> Rows] /\ view \in [Cores -> Rows]
    /\ writer \in [Cores -> Writers]
    /\ stream \in [Cores -> Seq(Frames)]
    /\ db \in Rows /\ txn \in Rows
    /\ pending \in 0 .. restoreTxnChunk
    /\ pc \in {"idle", "clear", "read", "commit", "last", "flatten", "done"}
    /\ sections \in SectionLists /\ readers \in Seq(Cores)
    /\ at \in Nat /\ pos \in Nat
    /\ table \in Range(Sections) \cup {NoTable}

Init ==
    /\ live \in [Cores -> Rows]
    /\ \A c \in Cores, n \in Names :
           Home[n] # c \/ n[1] \notin Range(Sections) => live[c][n] = Absent
    /\ view = [c \in Cores |-> NoRows]
    /\ writer = [c \in Cores |-> [state |-> "none", section |-> 0, todo |-> {}]]
    /\ stream = [c \in Cores |-> <<>>]
    /\ db \in [Names -> Values \cup {Absent}]
    /\ txn = NoRows /\ pending = 0
    /\ sections \in SectionLists
    /\ pc = "idle" /\ readers = <<>> /\ at = 0 /\ pos = 0 /\ table = NoTable

-----------------------------------------------------------------------------
(* Snapshot and WriteSnapshot.                                             *)

\* A command of the core; once its stream is written, none matters here.
Update(c, n, v) ==
    /\ writer[c].state # "written"
    /\ Home[n] = c /\ n[1] \in Range(Sections)
    /\ live[c][n] # v
    /\ live' = [live EXCEPT ![c][n] = v]
    /\ UNCHANGED <<view, writer, stream, restoring>>

NewSnapshot(c) ==
    /\ writer[c].state = "none"
    /\ view' = [view EXCEPT ![c] = live[c]]
    /\ writer' = [writer EXCEPT ![c].state = "pinned"]
    /\ UNCHANGED <<live, stream, restoring>>

Write(c) ==
    /\ writer[c].state = "pinned"
    /\ stream' = [stream EXCEPT ![c] = <<[kind |-> "meta"]>>]
    /\ writer' = [writer EXCEPT ![c] = [@ EXCEPT !.state = "writing", !.section = 0]]
    /\ UNCHANGED <<live, view, restoring>>

WriteTable(c) ==
    LET w == writer[c] IN
    /\ w.state = "writing" /\ w.todo = {} /\ w.section < Len(Sections)
    /\ LET s == Sections[w.section + 1] IN
       /\ stream' = [stream EXCEPT ![c] = Append(@, [kind |-> "table", table |-> s])]
       /\ writer' = [writer EXCEPT ![c] = [@ EXCEPT
                         !.section = w.section + 1,
                         !.todo = {k \in Keys : view[c][<<s, k>>] # Absent}]]
    /\ UNCHANGED <<live, view, restoring>>

\* EachEntity, in whichever order the keys sort.
WriteRecord(c) ==
    /\ writer[c].state = "writing"
    /\ \E k \in writer[c].todo :
           LET v == view[c][<<Sections[writer[c].section], k>>] IN
           /\ stream' = [stream EXCEPT ![c] =
                             Append(@, [kind |-> "record", key |-> k, value |-> v])]
           /\ writer' = [writer EXCEPT ![c].todo = @ \ {k}]
    /\ UNCHANGED <<live, view, restoring>>

WriteClose(c) ==
    LET w == writer[c] IN
    /\ w.state = "writing" /\ w.todo = {} /\ w.section = Len(Sections)
    /\ stream' = [stream EXCEPT ![c] = Append(@, [kind |-> "close"])]
    /\ writer' = [writer EXCEPT ![c].state = "written"]
    /\ UNCHANGED <<live, view, restoring>>

\* The output fails: the stream is thrown away, and the snapshot released.
WriteFails(c) ==
    /\ writer[c].state = "writing"
    /\ stream' = [stream EXCEPT ![c] = <<>>]
    /\ view' = [view EXCEPT ![c] = NoRows]
    /\ writer' = [writer EXCEPT ![c] = [state |-> "none", section |-> 0, todo |-> {}]]
    /\ UNCHANGED <<live, restoring>>

-----------------------------------------------------------------------------
(* RestoreSnapshot.                                                        *)

\* A call that ends, with an error or in a crash, discards its transaction.
Stop(where) ==
    /\ pc' = where
    /\ txn' = NoRows /\ pending' = 0
    /\ readers' = <<>> /\ at' = 0 /\ pos' = 0 /\ table' = NoTable
    /\ UNCHANGED sections

Restore ==
    /\ pc \in {"idle", "done"}
    /\ \A c \in Cores : writer[c].state = "written"
    /\ readers' \in {r \in [1 .. Cardinality(Cores) -> Cores] : Range(r) = Cores}
    /\ sections' \in SectionLists
    /\ pc' = "clear" /\ at' = 1
    /\ UNCHANGED <<writing, db, txn, pending, pos, table>>

Without(rows, names) == [n \in Names |-> IF n \in names THEN Absent ELSE rows[n]]

\* Mutant: the first section only is cleared.
ClearFirst ==
    /\ pc = "clear"
    /\ db' = Without(db, {sections[at]} \X Keys)
    /\ pc' = "read" /\ at' = 1 /\ pos' = 1
    /\ UNCHANGED <<writing, txn, pending, sections, readers, table>>

Clear ==
    /\ pc = "clear"
    /\ db' = Without(db, {sections[at]} \X Keys)
    /\ IF at < Len(sections)
       THEN at' = at + 1 /\ UNCHANGED <<pc, pos>>
       ELSE pc' = "read" /\ at' = 1 /\ pos' = 1
    /\ UNCHANGED <<writing, txn, pending, sections, readers, table>>

\* Clear writes to the store itself: it may have deleted some rows.
ClearFails ==
    /\ pc = "clear"
    /\ \E names \in SUBSET ({sections[at]} \X Keys) : db' = Without(db, names)
    /\ Stop("idle")
    /\ UNCHANGED writing

Frame == stream[readers[at]][pos]
Reads(kind) == pc = "read" /\ Frame.kind = kind

ReadMeta ==
    /\ Reads("meta")
    /\ pos' = pos + 1
    /\ UNCHANGED <<writing, db, txn, pending, pc, sections, readers, at, table>>

ReadTable ==
    /\ Reads("table")
    /\ table' = Frame.table
    /\ pos' = pos + 1
    /\ UNCHANGED <<writing, db, txn, pending, pc, sections, readers, at>>

\* Mutant: the records of an unknown table are skipped.
SkipUnknownTable ==
    /\ Reads("record") /\ table \notin Range(sections)
    /\ pos' = pos + 1
    /\ UNCHANGED <<writing, db, txn, pending, pc, sections, readers, at, table>>

UnknownTable ==
    /\ Reads("record") /\ table \notin Range(sections)
    /\ Stop("idle")
    /\ UNCHANGED <<writing, db>>

SkipEntity ==
    /\ Reads("record") /\ table \in Range(sections)
    /\ ~Owns(ShardKey[<<table, Frame.key>>])
    /\ pos' = pos + 1
    /\ UNCHANGED <<writing, db, txn, pending, pc, sections, readers, at, table>>

\* Mutant: the transaction is committed once it holds more than a chunk.
RestoreEntityLate ==
    /\ Reads("record") /\ table \in Range(sections)
    /\ Owns(ShardKey[<<table, Frame.key>>])
    /\ txn' = [txn EXCEPT ![<<table, Frame.key>>] = Frame.value]
    /\ IF pending >= restoreTxnChunk
       THEN pc' = "commit" /\ pending' = pending
       ELSE pc' = pc /\ pending' = pending + 1
    /\ pos' = pos + 1
    /\ UNCHANGED <<writing, db, sections, readers, at, table>>

RestoreEntity ==
    /\ Reads("record") /\ table \in Range(sections)
    /\ Owns(ShardKey[<<table, Frame.key>>])
    /\ txn' = [txn EXCEPT ![<<table, Frame.key>>] = Frame.value]
    /\ pending' = pending + 1
    /\ pc' = IF pending' >= restoreTxnChunk THEN "commit" ELSE "read"
    /\ pos' = pos + 1
    /\ UNCHANGED <<writing, db, sections, readers, at, table>>

Committed == [n \in Names |-> IF txn[n] = Absent THEN db[n] ELSE txn[n]]

Commit ==
    /\ pc = "commit"
    /\ db' = Committed
    /\ txn' = NoRows /\ pending' = 0
    /\ pc' = "read"
    /\ UNCHANGED <<writing, sections, readers, at, pos, table>>

\* A commit that reports an error may have taken effect or not.
CommitFails ==
    /\ pc \in {"commit", "last"}
    /\ db' \in {db, Committed}
    /\ Stop("idle")
    /\ UNCHANGED writing

\* Mutant: what is pending at the end of the last stream is not committed.
EndOfLastStream ==
    /\ Reads("close")
    /\ table' = NoTable
    /\ IF at < Len(readers)
       THEN at' = at + 1 /\ pos' = 1 /\ UNCHANGED pc
       ELSE pc' = "flatten" /\ UNCHANGED <<at, pos>>
    /\ UNCHANGED <<writing, db, txn, pending, sections, readers>>

EndOfStream ==
    /\ Reads("close")
    /\ table' = NoTable
    /\ IF at < Len(readers)
       THEN at' = at + 1 /\ pos' = 1 /\ UNCHANGED pc
       ELSE pc' = "last" /\ UNCHANGED <<at, pos>>
    /\ UNCHANGED <<writing, db, txn, pending, sections, readers>>

CommitLast ==
    /\ pc = "last"
    /\ db' = Committed
    /\ txn' = NoRows /\ pending' = 0
    /\ pc' = "flatten"
    /\ UNCHANGED <<writing, sections, readers, at, pos, table>>

Flatten ==
    /\ pc = "flatten"
    /\ Stop("done")
    /\ UNCHANGED <<writing, db>>

\* A frame that cannot be read or restored, a Flatten that fails, a crash.
Abort ==
    /\ pc \in {"read", "commit", "last", "flatten"}
    /\ Stop("idle")
    /\ UNCHANGED <<writing, db>>

-----------------------------------------------------------------------------

Next ==
    \/ \E c \in Cores :
           \/ \E n \in Names, v \in Values \cup {Absent} : Update(c, n, v)
           \/ NewSnapshot(c) \/ Write(c) \/ WriteTable(c) \/ WriteRecord(c)
           \/ WriteClose(c) \/ WriteFails(c)
    \/ Restore \/ Clear \/ ClearFails
    \/ ReadMeta \/ ReadTable \/ UnknownTable \/ SkipEntity \/ RestoreEntity
    \/ Commit \/ CommitFails \/ EndOfStream \/ CommitLast \/ Flatten \/ Abort

Spec == Init /\ [][Next]_vars

-----------------------------------------------------------------------------
(* Properties.                                                             *)

\* What a core had at the moment of its snapshot.
InSnapshots(n, v) == v # Absent /\ view[Home[n]][n] = v

InBounds(n) == ShardKey[n] \in Lower .. Upper

\* The entities of the sections the call was made with.
Restored(n) == n[1] \in Range(sections)

\* What the restored core must hold: the entities in its bounds, from all the
\* snapshots, and nothing else.
Expected == [n \in Names |-> IF InBounds(n) THEN view[Home[n]][n] ELSE Absent]

\* A restore that reports success has replaced the core's state by the union of
\* what the snapshots held at their moment within its bounds, whatever the core
\* held before, whichever updates went on while the streams were written, in
\* whichever order the streams are read, and whatever earlier tries left behind
\* (RestoreSnapshot; tables of other sections are not the call's to touch).
RestoredExactly ==
    pc = "done" => \A n \in Names : Restored(n) => db[n] = Expected[n]

\* Once the tables are cleared, a restore that is cut short has left no row but
\* those it is to end with: a crash never leaves rows of the old state, or of
\* another shard, among restored ones (RestoreSnapshot clears before it inserts).
NothingForeign ==
    pc \in {"read", "commit", "last", "flatten", "done"} =>
        \A n \in Names :
            /\ Restored(n) /\ db[n] # Absent => InBounds(n) /\ InSnapshots(n, db[n])
            /\ txn[n] # Absent => InBounds(n) /\ InSnapshots(n, txn[n])

\* No transaction of a restore inserts more entities than the chunk allows, for
\* the store refuses one that is too big.
TransactionsAreBounded ==
    Cardinality({n \in Names : txn[n] # Absent}) <= restoreTxnChunk

\* Records of a table the core does not know are never passed over: a restore
\* that reports success met none, in its bounds or out of them.
UnknownTablesRefused ==
    pc = "done" =>
        \A n \in Names, c \in Cores :
            view[c][n] # Absent => n[1] \in Range(sections)
=============================================================================
