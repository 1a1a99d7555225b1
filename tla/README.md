# Verification of yellowstone-common

TLA+ models of the packages of this repository, the TLC configurations that
check them, and machine-checked proofs about eight of the components. The repository is a
library: a cache, tables over an ordered key-value store, a registry, a base62
codec, gRPC interceptors. Every module here is written from the source file it
names; `PROJECT.json` maps each definition to its lines.

    tlc -workers 2 -config MCCache.cfg MCCache      check one instance
    tlapm CacheProofs.tla                           check one module's proofs

## The system

| Component | State it keeps | Operations | What makes it hard |
|---|---|---|---|
| `cache` Cache | a `sync.Map` of entries with an expiry, a singleflight group, a close channel | Get, GetOrLoad, Set, SetWithTTL, Delete, Close, the sweeper goroutine | map, clock and group are three things read one after the other; the sweeper deletes what it looked at earlier; negative entries |
| `honey` ReplicaPrefixRegistry | on disk: a prefix for each replica id, a counter; in memory: a mutex | GetOrAssignPrefix, AllPrefixes | a store without conflict detection, commits with unknown outcome, restarts, a counter of two bytes |
| `honey` tables | rows under a table id on a store that is shared | Get, Set, Delete, ListAll, ListInRange, ListPaginated, EachEntry, DropPrefix | every table of every replica is a range of one store; bounds that are prefixes, tokens that outlive the rows they name, both directions |
| `honey` indexes | rows whose key is PK and item | Add, Delete, List, ListInRange, ListPaginated, NotEmpty | nothing marks the end of the PK in a row's key; items are ordered as bytes |
| `honey` portable snapshots | a pinned view; a stream; the target's rows | NewSnapshot, Write, Release, RestoreSnapshot | updates during the write; chunks, crashes and retries during the restore; two streams for a merge |
| `encoding/base62` | none | Encode, Decode, EncodeToBuf, DecodeToBuf, FormatInt, ParseInt and their variants | characters of five or six bits, buffers filled from the end |
| `middleware` authentication | secrets read so far, a mutex; files on disk | Unary | the first requests of a key race to read its file |
| `middleware` monitoring, `metrics` helpers | three metric vectors | Unary, FromGrpcError | a deferred function that runs on errors, denials and panics alike, and rewrites the error |
| `workers` IntervalWorker | the last cancel function, with no guard | Start, Stop, the goroutine of each Start | Start twice; Start between the two reads of Stop; Stop while the function runs |
| `utils`, `metrics` server, `validatortest`, `codegen` | none | | wrappers, test helpers, a build-time generator |

How they interact. The registry, the tables and the indexes share one Badger
store; the registry's prefix leads the table ids of each replica, which is what
keeps their ranges apart. A portable snapshot streams a core's tables (through
`PortableTable`) and a restore writes into another core's. A server passes
requests through the monitoring and the authentication interceptors. The cache
calls back into its user (the load function, `isCacheableError`), and so does the
interval worker.

What correctness means for each:

* Cache: concurrent loads of a key are one load; nobody waits for a load that has
  ended; nobody gets another key's value, or nothing without an error; only what
  has expired is swept, and everything that has expired is swept.
* Registry: replica ids and prefixes are one-to-one, for good, whatever fails.
* Tables, indexes: each table is a store of its own, though all tables of all
  replicas share one; a listing is exactly the rows it should hold, in the order
  of what they encode, though rows change between pages.
* Portable snapshots: a restore that succeeds leaves exactly what the snapshots
  held within its bounds; one that does not succeed leaves nothing foreign.
* Base62: decoding inverts encoding; the decoder never leaves its buffer; texts
  never change between versions.
* Interceptors: one secret for a key; nothing unsigned is answered; the counters
  agree with what callers saw; internal errors stay internal; every request ends.
* Interval worker: a goroutine that was cancelled ends; one that was not goes on.

The `hazards` of `PROJECT.json` list what a test would hardly reach, at its line,
with the properties about it, or why there is none.

## The modules

**Cache** (`cache/cache.go`). A caller is a goroutine in at most one call; `pc`
says where. Reading the map (`Call`), judging the entry against the clock
(`GetJudge`, `GetOrLoadJudge`), entering the group (`Do`), the second look inside
the flight (`Reread`, `Rejudge`), the load (`LoadValue`, `LoadError`), storing
(`Keep`), leaving the group (`Finish`) and the type assertion on the result
(`Unwrap`) are steps of their own, with any step of the others in between. The
sweeper is `SweepTick`, `SweepVisit` (the callback reads an entry), `SweepDelete`
(it deletes the key, whatever is there by now), `SweepDone`, `SweepExit`. `late`
in `SweepTick` are keys stored during the `Range` that it happens to reach. A
value is abstracted to the key it was made for and who stored it, which is what
the properties tell apart. The clock does not step back, and loads return.

**PrefixAssignment** is what the registry promises: an id gets a prefix that
nobody has, once, and callers are told after it is recorded.
**ReplicaPrefixRegistry** (`honey/replica_prefix.go`) is how: `Call`, `Lock`,
`Begin` (the transaction takes its snapshot), `GetExisting`/`GetMissing`,
`Assign`/`Exhaust`, `Commit`/`CommitFails`, `StoreFails`, `Unlock` (the deferred
calls), `Return`; `List`... for AllPrefixes; `Restart` at any moment keeps
what is on disk. `KeepsPromise` is the refinement: `assigned` and `handed` map to
themselves, everything else to stuttering. The store is external: snapshot reads,
atomic commits, no conflict detection (replica_prefix.go:54-58 says so), and a
commit that reports an error may have taken effect. One registry a store, as the
code requires.

**Tables** (`honey/tables.go`) holds the key layout, the reads and writes of rows
and the scans. `EachPrefix` and `EachRange` stand for the external store. That an
upper bound takes in the keys it is a prefix of is inferred from the nil bounds of
tables.go:80-90, which make the table id itself the upper bound.
**Pagination**: `listPrefixedPaginated` as a function of the token and the rows,
a client that pages forth and back, and others that set and delete rows between
its pages.

**TypedTables** (`honey/tables.go`) is what the typed tables and indexes make of
the shared one: a table is a record of its id and its type, and `Encode` and
`Decode` are the codecs of the types. `Set`, `Delete`, `ListAll`, `ListInRange`,
`ListPaginated` are those of the tables of values; `Add`, `DeleteItem`,
`ListItems`, `ListRows`, `ListItemsPaginated`, `NotEmpty` those of the indexes,
whose rows are keyed by PK and item. `SortedIndex` is the case of one empty PK.

**SharedStore** composes them with the registry: one store holds the registry's
two categories of rows and the tables of every replica, each under its replica's
prefix and its own byte. Replicas are registered (`AssignPrefix`) while the tables
of others are written (`Put`, `Erase`, `Clear`). Operations are transactions of
one step here; ReplicaPrefixRegistry and Pagination take them apart.
**SeparateTables** is what the replicas expect: as many stores as there are tables.
`KeepsTablesApart` is the refinement, with `entries` mapped to the pairs of a key
and a value that a table's rows stand for, and `AssignPrefix` to a stutter.

**PortableSnapshot** (`honey/portable.go`): the cores that write (`Update`,
`NewSnapshot`, `Write`, `WriteTable`, `WriteRecord`, `WriteClose`, `WriteFails`)
and the core that restores (`Restore`, `Clear`, `ReadMeta`, `ReadTable`,
`UnknownTable`, `SkipEntity`, `RestoreEntity`, `Commit`, `EndOfStream`,
`CommitLast`, `Flatten`, and `ClearFails`, `CommitFails`, `Abort` for what goes
wrong). A frame is a record of its kind; an entity's secondary index rows are
written in the transaction of the entity and stand as one row with it.

**Base62** (`encoding/base62`): both encoders, the decoder, `DecodeToBuf` with the
memory of its buffer, and the integer codec are functions, and a client calls
one after the other. `Take` is one turn of the decoder's loop and `AddDigit` one of
the parser's; `Half` is 2^63 in the code. `EncodeToBuf` and `DecodeToBuf` append to what a caller's
buffer holds, in its memory when there is room; `Encode` and `Decode` are the same
into an empty buffer. What the encoder leaves in the memory after the caller's bytes
is `Filled`; into that memory the client decodes a copy of the text (`Appended`),
because the text itself may lie there (see below).

**GrpcServer**, **Authentication**, **Monitoring** (`middleware`), composed by
**Interceptors**: a request is counted, authenticated step by step as the handler
that monitoring calls, handled by the application, observed and classified.
Files are written and removed at any time. The order of the two interceptors is
the server's choice; monitoring outside is the one in which denials are counted.

**IntervalWorker** (`workers/interval.go`): `Start` is three steps (the context,
the field, the goroutine) and Stop two (`Stop` reads the field for the comparison,
`Cancel` reads it again for the call), of any number of callers; each goroutine is
`Called`, `CallAgain` (the timer) and `End` (the context), between which its
`select` chooses.

`MC*.tla` give instances for TLC where a constant is not a plain set.
Definitions whose comment begins with "Mutant" are plausible bugs: in place of
the definition after them, each makes a property fail, which shows that
the property can.

## The runs

| Run | Shows | Bounds |
|---|---|---|
| `cache` | `FlightLedByOne`, `NoStrandedWaiter`, `NoRedundantLoad`, `ReturnsOwnResult`, `SweeperTakesExpired` | 2 callers, 2 keys, values for ever, negative entries for one tick, a cacheable and an uncacheable error, clock up to 2 |
| `cache_live` | `CallReturns`, `ExpiredIsSwept`, `CloseStopsSweeper` | 2 callers, 1 key, ttl 1, clock up to 2 |
| `registry` | `Sequential`, `HandedIsDurable`, `ExhaustedMeansFull`, `ListingIsComplete`, `HandedOneToOne`, `AssignmentIsStable`, `KeepsPromise`, `CallReturns` | 2 callers, 3 ids, 2 prefixes, so that the space runs out; any number of failures and restarts |
| `pagination` | `PageIsExact`, `ForthIsComplete`, `BackIsComplete` | 6 keys, 4 of them with the prefix, pages of 2, any order of pages and writes |
| `shared_store` | `KeepsTablesApart`, `ListIsExact`, `RangeIsExact`, `PagesFollowListing`, `NotEmptyIsExact` | 2 replicas, the id of one extending the other's; 5 tables that cover every encoding, two of them under one byte; PKs of one length, items that extend one another, the numbers 255 and 256; pages of 1 and of 2, from every position |
| `portable` | `RestoredExactly`, `NothingForeign`, `TransactionsAreBounded`, `UnknownTablesRefused` | 2 cores, 2 sections, 2 keys, one value or none, chunks of 2, bounds that keep 3 of 4 entities, section lists with and without the second section, any number of tries |
| `base62` | `DecodeInvertsEncode`, `TextsAreStable`, `DecodeIsSafe`, `ParseInvertsFormat` | all strings of 1 byte, all of 2 with one byte from 16 chosen, all of 3 over those 16; all integers from -2048 to 2047; all texts of up to 5 of 5 characters; 4 buffers to encode and decode into |
| `interceptors` | `OneSecretPerKey`, `AnswersOnlySigned`, `CountersAgree`, `EveryRequestEnds` | 2 requests, 2 keys, 2 secrets, files that change at any time |
| `interval` | `CancelledRunEnds`, `CalledUntilCancelled` | 2 callers, 3 calls of Start, any number of Stop |

Why these bounds. Two callers are enough for the cache's races: each is between a
caller and one other (leader and waiter, caller and sweeper); two keys show that
a flight does not spill over. One tick expires an entry, the second lets a call
outlive it. In the registry a third id finds the space full. On the shared store,
one byte under two replicas is told apart by the prefix alone, and two bytes under
one replica by the byte alone; an id that extends another makes their registry rows
a prefix of one another; 256 is the least number whose bytes would order otherwise
from the other end. The two types left out there, StringTable and Uint64Table,
have the codecs of the indexes. Three starts of the interval worker are one that is superseded
between the two reads of a Stop, and one more. Pages of two over
four rows give a first, a middle and a last page, and a row deleted or inserted on
either side of a token. Three bytes put a character at every offset within a
byte; the sixteen bytes are those whose bits are, or nearly are, the pattern that
is cut. A range of 4096 integers with 3 digits stands for 2^64 with 11: in both, the
greatest number needs the last digit. With one value for an entity, that a restore
mixes an old and a new value of one entity is not seen, but that it takes an entity
that came or went after the snapshot is.

Three runs end in a violation, of what a comment of the code says (`base62_empty_source`
has the bounds of `base62`):

* `cache_sweep_race` (`StoredForever`): the sweeper takes an expired entry in hand,
  `SetWithTTL` stores a value for ever under the same key, and the sweeper deletes
  it (cache.go:99 against the comment at cache.go:192).
* `cache_collision` (`ReturnsOwnResult`): keys that `fmt.Sprint` prints alike share a
  flight (cache.go:160), so a caller gets another key's value.
* `base62_empty_source` (`AppendsToBuffer`): given nothing to encode or decode,
  `EncodeToBuf` and `DecodeToBuf` return an empty slice (base62.go:82 and 205), and the
  bytes the buffer held are gone; the comments at base62.go:77 and 198 say that they
  append to dst and return the extended buffer.

Not a violation of anything the code says, but worth knowing: with an interface
type for V, a nil value from load makes the type assertion at cache.go:183 panic, in
the leader and every waiter, after the entry was stored (`Unwrap` with `Nils` that
hold TRUE; `CallReturns` fails then, and the runs leave such values out); a text that
`EncodeToBuf` wrote into the room of a buffer is overwritten while `DecodeToBuf`, given
that buffer, reads it (base62.go:215 and 249): in a buffer of capacity 3 and length 0
the text of `<<0, 0>>` ends in an error at its third character; an index whose PKs
differ in length lists the longer PK's items under the shorter one that it extends
(tables.go:548); a page of 0 rows returns the token it was asked with; a second Start
of the interval worker leaves the first goroutine calling for good; a load that began
before Delete or Set may store its older value after it; a secret, once read, is used
though its file is replaced or removed; a handler that panics is counted as a request
that did not fail.

### Fairness

* Cache: goroutines run (weak fairness on a caller's own steps, which includes
  that loads return), the ticker keeps ticking (weak fairness on the sweeper's
  steps), and `select` does not prefer the ticker to the close channel for ever
  (strong fairness on `SweepExit`: it picks at random among what is ready).
  Starting a call, Delete, Close and time are not fair.
* Registry: goroutines run and store calls end (weak fairness on `Progress`);
  `sync.Mutex` goes to a waiter that has been passed over for 1 ms (strong
  fairness on `Lock`). `Restart` and new calls are not fair.
* Interceptors: goroutines run and handlers return (weak fairness on `Serve`).
  Each request locks once, so a mutex that is free for ever is taken. The
  environment is not fair.
* Interval worker: goroutines run, the function returns and timers fire (weak
  fairness), and `select`, which picks at random among what is ready, does not pass
  the context over for ever (strong fairness on `End`). Calls of Start and Stop are
  not fair.

## What is proved

With TLAPS, for every value of the constants that meets the named assumptions.

**CacheProofs**: `TypeCorrect`; `OneLeader` and `WaitersHaveLeader` from the
conjunction of the two (a waiter has a leader because the only step that ends a
flight wakes all its waiters, which needs that the leader is the one the group
records); `NoLoadIsRedundant`, by `LoadInv`: `NoRedundantLoad` is not inductive,
since nothing in it says what a caller between the two looks and the load knows.
`LoadInv` says that what a caller in "rejudge" read is what the map still holds if
a load stored it, for only the leader of the flight, the caller itself, can store
a loaded entry of the key, and that entries only grow older. `SweptEntriesExpired`,
by `SweepInv`: what the sweeper has in hand had expired at its clock reading, and
the clock does not step back. `OwnResultIsReturned`, under `SprintInjective` (no two
keys print alike: the run `cache_collision` shows what happens otherwise), by
`OwnInv`: an entry of the map, and whatever a caller has in hand, was made for the
key it is under, and a flight is joined only by callers of one key.
`NothingIsLost` is `StoredForever` under `NoTTL` (no ttl is positive: the run
`cache_sweep_race` shows what happens otherwise), by `LastInv`: no entry ever expires,
so the sweeper never has one in hand.

**ReplicaPrefixProofs**: `TypeCorrect`, `PrefixesAreSequential`,
`HandedPrefixesAreDurable`, `AssignmentsAreStable`, `HandedPrefixesAreOneToOne`, and
`RegistryKeepsPromise`, the refinement. The invariant adds to these that a
transaction under way belongs to the holder of the mutex and reads what is on
disk, that the id it writes has no prefix, that what it writes is the next number,
and that what a caller is about to return is on disk. The mutex carries
the whole argument, since the store detects no conflict. `ExhaustedIsFull` and
`ListingsAreComplete` follow from it with `FullInv` and `ListingInv`: what is true
when the transaction looks is still true when the caller is told, because the
counter never steps back and assignments only grow.

**SharedStoreProofs**: `TablesStayApart`, the refinement of SeparateTables, for any
replicas (byte strings), any layout in which the tables of one replica have
distinct bytes, and any codec that gives back what it was given. Its invariant is
`PrefixesApart` (a replica's prefix is two bytes, not above the counter, its own, and
not 0x0000) and `RowsHaveOwners` (a row is of the registry or of a table that is
open, under that table's prefix and byte): so the first three bytes of a row say
whose it is, a write changes one table's entries, and a `Clear` takes no others.
`NotEmptyIsRight` needs besides that the PKs of one index are of one length
(`CodecAssumption`): a row under a PK's prefix is then one of that PK.

`ListingIsExact`, `RangesAreExact` and `PagesFollow` need that the store is finite,
that its keys are strings of bytes, and `RowsHoldValues` (a row of a table of values
holds the bytes of one of them): `StoreInvariant` is the conjunction with the
invariant above. A scan is then the table's own rows in the order of their keys,
and `ItemsInOrder` takes that order to the items: strings begin alike under one PK,
and numbers are in the order of their bytes, big endian, if those are read back as
the numbers (`NumbersInOrder`; that they are is part of `CodecAssumption`). A range adds where its bounds cut (`RowsBetween`); a
page, that the rows from the token's key are an end of the listing, of which the
limit takes the beginning and the token for the next page names the first row left
(`PagesHoldKeys`). The theorem about pages is for every position and every limit up
to `MaxLimit`, any natural number.

**TablesProofs** holds what these and PaginationProofs rest on: that `Below` is a strict
total order of byte strings, in which the strings with a prefix are neighbours and
a full key stands where its relative key does; that `Ascending` and its
reverse list a finite set in order, and only one sequence does; what of an ordered
sequence is left of a place in it, right of it, or taken up to a limit.

**PaginationProofs**, for any keys, prefix, page size and neighbouring tables.
`ListingForth`: whatever is set and deleted between two pages, a listing forth
shows every lasting row once, in order. `PagesAreExact` and `ListingBack` are under
`KeysApart` (no key of the table begins another), because the store's upper bound
takes in the keys that it is a prefix of: a page back from a row whose key begins
another's would begin beyond its token (tables.go:186). Keys of one width, and those that
an index builds for items of one width, meet it. A page forth needs no such
hypothesis. The invariant keeps, of the state a page was read in, that the page
goes on from its token over the rows as they were then (`GoesOn`, `GoesBack`), and,
of the listing so far, that it is in order and holds every lasting row between
where it began and its token. A row set or deleted moves neither.

**PortableSnapshotProofs**: `NothingForeignIsLeft`, `TransactionsFit`,
`RestoresExactly`, `UnknownTablesAreRefused`, for any cores (a finite set, not
empty), sections, keys, values, bounds and chunk, and section lists that are not
empty. The invariant has two halves. `StreamInv` says of each stream that it holds
exactly what of the pinned view its writer has passed: its records are rows of
the view under the section's table frame, none is missing, and only a whole one
has its close frame. Of the restore, `PlaceInv` says where it is in its sections
and streams; `PassedInv` that each record it has read past is of a table it
knows, and in its rows or its transaction if it is within bounds;
`NothingForeign` that there is nothing else; `PendingInv` that the count covers
what the transaction inserts. At the end every record of every stream has been
passed and the transaction is empty, which is `RestoredExactly`.

**InterceptorsProofs**: `TypeCorrect`, `OneSecretForAll`, `OnlySignedAreAnswered`,
`CountersTellTheTruth`, for any requests (finitely many), keys, secrets and methods.
`AuthInv` says that the mutex is held by the one request between lookup and store,
so that what is stored is stored where there was none, and from then on is what
all others find; `AnswerInv` that whoever is answered otherwise than with a
denial has passed. The counters need that a handler that panicked left err nil
(`PanicInv`): it is counted as no failure; each step then moves its own request,
and no other, into at most one more of the counted sets.

**Base62Proofs**, for every string of bytes, text and buffer, and integers of every
width whose digits fit (`DigitsAssumption`). `TextsStay` and `EncodedIsDecoded` except
the empty string, of which `AppendsToBuffer` fails; the latter is about decoding a copy
of the text into the buffer it was appended to, whose room holds the text (`FilledIs`:
the caller's bytes are as they were). `TextsStay` and `DecodingIsSafe` hold
for every alphabet; `EncodedIsDecoded` and `FormattedIsParsed` for those of distinct
characters (`CharactersDiffer`), which `NewEncoding` does not check: of two equal
characters the decoder takes the last one's code. The client's invariant,
`ClientInv`, only says which call what it holds came from; the argument is about
the codec. `EncodersAgree`: at every position, both encoders take the same six bits
and step back as far (`NextIsSame`). `DecoderStaysWithin`: after i characters the
decoder has taken at most 6i bits, so what it writes fits `possibleLen`, and an error
is at the first illegal character so far. `DecoderInverts`: where the encoder has the
upper r bits of a byte left, the decoder holds the lower 8 - r of it and all bytes
after (`Behind`); a character keeps that true (`BeforeTheLast`), and the last one,
whose leading zeros the decoder drops, completes the first byte (`TheLast`).
`ParserReads`: once the parser has read the digits of m, it has m. What the recursive
functions are is first shown to be what their definitions say (`Recursion`).

Induction, here and about scans, is over naturals, by the least one that fails
(`UpTo`, `LeastNatural`).

Only model-checked: liveness (outside the prover's reach, as is anything about
ENABLED), so all of IntervalWorker.
`AppendsToBuffer` fails, as the run above shows.

## What is not modelled

* `MarshalBinary` and its errors (external), and the store errors of the tables'
  methods, each of which passes them on and keeps nothing.
* A restore with no streams or no sections; what a portable table does with the
  entity it is given beyond writing it in the transaction (external).
* Decoding in place: a `DecodeToBuf` whose src lies in the memory of dst that it
  fills. No comment allows it, and the tests decode from a slice of its own.
* `NewEncoding`'s panics (the assumption on the alphabet), and the string variants
  of base62, which convert and call the others.
* A panic of the interval worker's function or of a load, which ends the process.
* Log lines, durations, label names, header and file names, the signatures
  themselves (external).
* `MeasureSince`, the metrics server, `utils` (wrappers of the library's sort, and a
  list of time zone names), `validatortest` (helpers of tests), `codegen` (a
  build-time tool that prints source text): no state and no algorithm of their own.
* A wall clock that steps back, a second registry on one store, a handler or a load
  that never returns: the code promises nothing about them.

## Plan

Done, in this order, most important behaviour first: Cache, registry with its
abstraction and refinement, tables and pagination, typed tables and indexes on the
store they share with the registry, portable snapshots, base62, interceptors,
interval worker; proofs of every safety property of a passing run.

Next: nothing is left of the plan but what the prover cannot reach. Worth adding would be a
refinement of PortableSnapshot to a map that is replaced in one step, and of the cache
to one of entries that expire on their own.
