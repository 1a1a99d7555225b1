------------------------------- MODULE Cache -------------------------------
(***************************************************************************)
(* cache/cache.go: an in-memory cache with expiring entries, deduplicated  *)
(* loads, negative caching and a background sweeper.                       *)
(*                                                                         *)
(* Each caller is a goroutine inside at most one call of the Cache; every  *)
(* access to the shared sync.Map or singleflight.Group is a step of its    *)
(* own, and so is every reading of the clock that follows such an access,  *)
(* because other goroutines run in between.  The clock is the process's    *)
(* wall clock, assumed not to step back, and a load function is assumed to *)
(* return.                                                                 *)
(***************************************************************************)
EXTENDS Integers, FiniteSets

CONSTANTS
    Keys,             \* the keys callers use
    Callers,          \* goroutines that call the cache
    Flights,          \* names of flights in the singleflight group
    Sprint,           \* fmt.Sprint of each key: the name of its flight
    Errors,           \* errors a load may return
    CacheableErrors,  \* those isCacheableError accepts ({} without the option)
    TTL,              \* WithTTL
    NegativeTTL,      \* WithNegativeTTL
    SetTTLs,          \* ttls passed to SetWithTTL
    Nils,             \* whether a value is a nil interface: {FALSE} unless V is
                      \* an interface type
    MaxTime,          \* bound on the clock, for TLC
    Zero,             \* the zero V a call returns beside an error or a miss
    NoItem,           \* a key that is absent from the map
    NoCaller,         \* a flight that is not under way
    NoErr             \* a nil error

ASSUME KeysAssumption == Sprint \in [Keys -> Flights] /\ Keys # {}
ASSUME ErrorsAssumption == CacheableErrors \subseteq Errors /\ NoErr \notin Errors
ASSUME TTLAssumption == TTL \in Int /\ NegativeTTL \in Int /\ SetTTLs \subseteq Int
ASSUME NilsAssumption == Nils \subseteq BOOLEAN /\ FALSE \in Nils
ASSUME TimeAssumption == MaxTime \in Nat
ASSUME NoCallerAssumption == NoCaller \notin Callers

\* A value, by what identifies it: the key it was made for, and who stored it.
Value == [key : Keys, by : {"load", "set"}, nil : Nils]

\* A nil err marks a positive entry; a negative one holds the zero value.
Item == [data : Value \cup {Zero}, err : Errors \cup {NoErr}, expires : Nat]

ASSUME SentinelAssumption == Zero \notin Value /\ NoItem \notin Item

Result == [data : Value \cup {Zero}, err : Errors \cup {NoErr}]
Miss == [data |-> Zero, err |-> NoErr]

VARIABLES
    clock,   \* time.Now().UnixNano()
    items,   \* the sync.Map
    group,   \* the singleflight.Group: the caller that runs each flight
    pc,      \* where each caller is
    op,      \* the method it is in
    key,     \* the key it was called with
    item,    \* the entry it has just read, or is about to store
    out,     \* the result it is about to return
    closed,  \* the close channel is closed
    sweep    \* the sweeper goroutine: where it is, its clock reading, the keys
             \* Range has yet to reach, and the key and entry it has in hand

shared == <<clock, items, group>>
local == <<pc, op, key, item, out>>
sweeper == <<closed, sweep>>
vars == <<clock, items, group, pc, op, key, item, out, closed, sweep>>

PC == {"idle", "judge", "do", "wait", "reread", "rejudge", "load", "keep",
       "finish", "unwrap", "put", "done", "panicked"}

Op == {"none", "Get", "GetOrLoad", "Set"}

IdleSweep == [at |-> "idle", now |-> 0, todo |-> {}, keys |-> {}, item |-> NoItem]

\* The key of a caller that is in no call.
AnyKey == CHOOSE k \in Keys : TRUE

TypeOK ==
    /\ clock \in Nat
    /\ items \in [Keys -> Item \cup {NoItem}]
    /\ group \in [Flights -> Callers \cup {NoCaller}]
    /\ pc \in [Callers -> PC]
    /\ op \in [Callers -> Op]
    /\ key \in [Callers -> Keys]
    /\ item \in [Callers -> Item \cup {NoItem}]
    /\ out \in [Callers -> Result]
    /\ closed \in BOOLEAN
    /\ sweep \in [at : {"idle", "range", "delete", "exited"}, now : Nat,
                  todo : SUBSET Keys, keys : SUBSET Keys, item : Item \cup {NoItem}]

Init ==
    /\ clock = 0
    /\ items = [k \in Keys |-> NoItem]
    /\ group = [f \in Flights |-> NoCaller]
    /\ pc = [c \in Callers |-> "idle"]
    /\ op = [c \in Callers |-> "none"]
    /\ key = [c \in Callers |-> AnyKey]
    /\ item = [c \in Callers |-> NoItem]
    /\ out = [c \in Callers |-> Miss]
    /\ closed = FALSE
    /\ sweep = IdleSweep

-----------------------------------------------------------------------------
(* Entries and their lifetime.                                             *)

\* Mutant: the ttl is subtracted.
ExpiryBackwards(ttl) == IF ttl > 0 THEN clock - ttl ELSE 0

\* 0 means forever; a negative ttl means it too.
Expiry(ttl) == IF ttl > 0 THEN clock + ttl ELSE 0

ExpiredAt(it, now) == it # NoItem /\ it.expires > 0 /\ now > it.expires

\* getItem, once the map has been read: the entry exists and has not expired.
Live(it) == it # NoItem /\ ~ExpiredAt(it, clock)

Positive(data, ttl) == [data |-> data, err |-> NoErr, expires |-> Expiry(ttl)]
Negative(err) == [data |-> Zero, err |-> err, expires |-> Expiry(NegativeTTL)]

\* Mutant: the error of a negative entry is forgotten.
FoundWithoutError(it) == [data |-> it.data, err |-> NoErr]

\* What GetOrLoad returns for an entry it found.
Found(it) == [data |-> it.data, err |-> it.err]

Flight(c) == Sprint[key[c]]

Drop(c) == item' = [item EXCEPT ![c] = NoItem]

Goto(c, where) == pc' = [pc EXCEPT ![c] = where]

-----------------------------------------------------------------------------
(* Get, and the first look of GetOrLoad.                                   *)

Call(c, method, k) ==
    /\ pc[c] = "idle"
    /\ op' = [op EXCEPT ![c] = method]
    /\ key' = [key EXCEPT ![c] = k]
    /\ item' = [item EXCEPT ![c] = items[k]]
    /\ Goto(c, "judge")
    /\ UNCHANGED <<shared, out, sweeper>>

\* A negative entry is reported as not found.
GetJudge(c) ==
    /\ pc[c] = "judge" /\ op[c] = "Get"
    /\ out' = [out EXCEPT ![c] = IF Live(item[c]) /\ item[c].err = NoErr
                                 THEN Found(item[c]) ELSE Miss]
    /\ Goto(c, "done") /\ Drop(c)
    /\ UNCHANGED <<shared, op, key, sweeper>>

GetOrLoadJudge(c) ==
    /\ pc[c] = "judge" /\ op[c] = "GetOrLoad"
    /\ IF Live(item[c])
       THEN out' = [out EXCEPT ![c] = Found(item[c])] /\ Goto(c, "done")
       ELSE Goto(c, "do") /\ UNCHANGED out
    /\ Drop(c)
    /\ UNCHANGED <<shared, op, key, sweeper>>

-----------------------------------------------------------------------------
(* The flight: group.Do and the function it runs.                          *)

\* group.Do: lead a new flight under this name, or wait for the one under way.
Do(c) ==
    /\ pc[c] = "do"
    /\ IF group[Flight(c)] = NoCaller
       THEN group' = [group EXCEPT ![Flight(c)] = c] /\ Goto(c, "reread")
       ELSE Goto(c, "wait") /\ UNCHANGED group
    /\ UNCHANGED <<clock, items, op, key, item, out, sweeper>>

Reread(c) ==
    /\ pc[c] = "reread"
    /\ item' = [item EXCEPT ![c] = items[key[c]]]
    /\ Goto(c, "rejudge")
    /\ UNCHANGED <<shared, op, key, out, sweeper>>

\* Mutant: the second look sees positive entries only.
RejudgePositive(c) ==
    /\ pc[c] = "rejudge"
    /\ IF Live(item[c]) /\ item[c].err = NoErr
       THEN out' = [out EXCEPT ![c] = Found(item[c])] /\ Goto(c, "finish")
       ELSE Goto(c, "load") /\ UNCHANGED out
    /\ Drop(c)
    /\ UNCHANGED <<shared, op, key, sweeper>>

\* Another flight may have populated the key since the first look.
Rejudge(c) ==
    /\ pc[c] = "rejudge"
    /\ IF Live(item[c])
       THEN out' = [out EXCEPT ![c] = Found(item[c])] /\ Goto(c, "finish")
       ELSE Goto(c, "load") /\ UNCHANGED out
    /\ Drop(c)
    /\ UNCHANGED <<shared, op, key, sweeper>>

\* load returns a value, and Set computes its expiry.
LoadValue(c, nil) ==
    /\ pc[c] = "load"
    /\ LET v == [key |-> key[c], by |-> "load", nil |-> nil]
       IN  /\ item' = [item EXCEPT ![c] = Positive(v, TTL)]
           /\ out' = [out EXCEPT ![c] = [data |-> v, err |-> NoErr]]
    /\ Goto(c, "keep")
    /\ UNCHANGED <<shared, op, key, sweeper>>

\* load returns an error, perhaps beside a value; setNegative is called for a
\* cacheable one only.
LoadError(c, e) ==
    /\ pc[c] = "load"
    /\ out' = [out EXCEPT ![c] =
                  [data |-> [key |-> key[c], by |-> "load", nil |-> FALSE], err |-> e]]
    /\ IF e \in CacheableErrors
       THEN item' = [item EXCEPT ![c] = Negative(e)] /\ Goto(c, "keep")
       ELSE Goto(c, "finish") /\ UNCHANGED item
    /\ UNCHANGED <<shared, op, key, sweeper>>

\* items.Store, in Set or setNegative.
Keep(c) ==
    /\ pc[c] = "keep"
    /\ items' = [items EXCEPT ![key[c]] = item[c]]
    /\ Goto(c, "finish") /\ Drop(c)
    /\ UNCHANGED <<clock, group, op, key, out, sweeper>>

WaitersOf(f) == {d \in Callers : pc[d] = "wait" /\ Flight(d) = f}

\* Mutants: the flight is never removed; its waiters are not woken.
FinishKeepsFlight(c) ==
    /\ pc[c] = "finish"
    /\ Goto(c, "unwrap")
    /\ UNCHANGED <<shared, op, key, item, out, sweeper>>

FinishForgetsWaiters(c) ==
    /\ pc[c] = "finish"
    /\ group' = [group EXCEPT ![Flight(c)] = NoCaller]
    /\ Goto(c, "unwrap")
    /\ UNCHANGED <<clock, items, op, key, item, out, sweeper>>

\* The function returned: under the group's mutex the flight ends, and its
\* leader and every waiter take its result.
Finish(c) ==
    /\ pc[c] = "finish"
    /\ group' = [group EXCEPT ![Flight(c)] = NoCaller]
    /\ out' = [d \in Callers |-> IF d \in WaitersOf(Flight(c)) THEN out[c] ELSE out[d]]
    /\ pc' = [d \in Callers |-> IF d = c \/ d \in WaitersOf(Flight(c))
                                THEN "unwrap" ELSE pc[d]]
    /\ UNCHANGED <<clock, items, op, key, item, sweeper>>

\* An error is returned with the zero value.  v.(V) on a nil interface panics.
Unwrap(c) ==
    /\ pc[c] = "unwrap"
    /\ IF out[c].err # NoErr
       THEN out' = [out EXCEPT ![c].data = Zero] /\ Goto(c, "done")
       ELSE /\ Goto(c, IF out[c].data # Zero /\ out[c].data.nil THEN "panicked" ELSE "done")
            /\ UNCHANGED out
    /\ UNCHANGED <<shared, op, key, item, sweeper>>

-----------------------------------------------------------------------------
(* Set, SetWithTTL, Delete, and the return of a call.                      *)

SetStart(c, k, ttl, nil) ==
    /\ pc[c] = "idle"
    /\ op' = [op EXCEPT ![c] = "Set"]
    /\ key' = [key EXCEPT ![c] = k]
    /\ item' = [item EXCEPT ![c] =
                   Positive([key |-> k, by |-> "set", nil |-> nil], ttl)]
    /\ Goto(c, "put")
    /\ UNCHANGED <<shared, out, sweeper>>

SetStore(c) ==
    /\ pc[c] = "put"
    /\ items' = [items EXCEPT ![key[c]] = item[c]]
    /\ Goto(c, "done") /\ Drop(c)
    /\ UNCHANGED <<clock, group, op, key, out, sweeper>>

\* Delete is one access to the map, made by any goroutine at any time.
Delete(k) ==
    /\ items[k] # NoItem
    /\ items' = [items EXCEPT ![k] = NoItem]
    /\ UNCHANGED <<clock, group, local, sweeper>>

\* The caller has its result and may call again.
Return(c) ==
    /\ pc[c] = "done"
    /\ op' = [op EXCEPT ![c] = "none"]
    /\ key' = [key EXCEPT ![c] = AnyKey]
    /\ out' = [out EXCEPT ![c] = Miss]
    /\ Goto(c, "idle")
    /\ UNCHANGED <<shared, item, sweeper>>

-----------------------------------------------------------------------------
(* The sweeper goroutine, Close and time.                                  *)

\* Close closes the channel once; later calls do nothing.
Close ==
    /\ ~closed
    /\ closed' = TRUE
    /\ UNCHANGED <<shared, local, sweep>>

\* select took the ticker.  Range reaches every key present when it starts;
\* it may or may not reach one stored later, the keys in late.
SweepTick(late) ==
    /\ sweep.at = "idle"
    /\ sweep' = [sweep EXCEPT !.at = "range", !.now = clock,
                              !.todo = late \cup {k \in Keys : items[k] # NoItem}]
    /\ UNCHANGED <<shared, local, closed>>

Reach(k, expired) ==
    /\ sweep.at = "range" /\ k \in sweep.todo
    /\ IF expired
       THEN sweep' = [sweep EXCEPT !.at = "delete", !.todo = @ \ {k},
                                   !.keys = {k}, !.item = items[k]]
       ELSE sweep' = [sweep EXCEPT !.todo = @ \ {k}]
    /\ UNCHANGED <<shared, local, closed>>

\* Mutants: an entry is taken although it never expires; the callback returns
\* false and ends the Range.
SweepVisitUnguarded(k) == Reach(k, items[k] # NoItem /\ sweep.now > items[k].expires)

SweepVisitOnce(k) ==
    /\ sweep.at = "range" /\ k \in sweep.todo
    /\ sweep' = [sweep EXCEPT !.todo = {}]
    /\ UNCHANGED <<shared, local, closed>>

\* Range hands the callback a key and the entry it holds now.
SweepVisit(k) == Reach(k, ExpiredAt(items[k], sweep.now))

\* The callback deletes the key, whatever it holds by now.
SweepDelete ==
    /\ sweep.at = "delete"
    /\ items' = [k \in Keys |-> IF k \in sweep.keys THEN NoItem ELSE items[k]]
    /\ sweep' = [sweep EXCEPT !.at = "range", !.keys = {}, !.item = NoItem]
    /\ UNCHANGED <<clock, group, local, closed>>

SweepDone ==
    /\ sweep.at = "range" /\ sweep.todo = {}
    /\ sweep' = IdleSweep
    /\ UNCHANGED <<shared, local, closed>>

\* Mutant: the close channel is looked at only when the map is empty.
SweepExitWhenEmpty ==
    /\ sweep.at = "idle" /\ closed /\ \A k \in Keys : items[k] = NoItem
    /\ sweep' = [IdleSweep EXCEPT !.at = "exited"]
    /\ UNCHANGED <<shared, local, closed>>

\* select took the close channel.
SweepExit ==
    /\ sweep.at = "idle" /\ closed
    /\ sweep' = [IdleSweep EXCEPT !.at = "exited"]
    /\ UNCHANGED <<shared, local, closed>>

Tick ==
    /\ clock < MaxTime
    /\ clock' = clock + 1
    /\ UNCHANGED <<items, group, local, sweeper>>

-----------------------------------------------------------------------------
(* The specification.                                                      *)

Start(c) ==
    \E k \in Keys :
        \/ Call(c, "Get", k)
        \/ Call(c, "GetOrLoad", k)
        \/ \E ttl \in SetTTLs \cup {TTL}, nil \in Nils : SetStart(c, k, ttl, nil)

\* The steps of a call under way.
Progress(c) ==
    \/ GetJudge(c) \/ GetOrLoadJudge(c)
    \/ Do(c) \/ Reread(c) \/ Rejudge(c)
    \/ \E nil \in Nils : LoadValue(c, nil)
    \/ \E e \in Errors : LoadError(c, e)
    \/ Keep(c) \/ Finish(c) \/ Unwrap(c)
    \/ SetStore(c) \/ Return(c)

SweeperStep ==
    \/ \E late \in SUBSET Keys : SweepTick(late)
    \/ \E k \in Keys : SweepVisit(k)
    \/ SweepDelete \/ SweepDone

Next ==
    \/ \E c \in Callers : Start(c) \/ Progress(c)
    \/ \E k \in Keys : Delete(k)
    \/ SweeperStep \/ SweepExit \/ Close \/ Tick

\* Goroutines are scheduled fairly and loads return; the ticker keeps ticking.
\* When a tick and the closed channel are both ready, select picks either, so
\* the exit is not passed over forever.
Fairness ==
    /\ \A c \in Callers : WF_vars(Progress(c))
    /\ WF_vars(SweeperStep)
    /\ SF_vars(SweepExit)

Spec == Init /\ [][Next]_vars

FairSpec == Spec /\ Fairness

-----------------------------------------------------------------------------
(* Properties.                                                             *)

Leading == {"reread", "rejudge", "load", "keep", "finish"}

\* Each flight under way is led by exactly the caller the group records, and
\* no caller runs the function of group.Do outside a flight of its key's name:
\* concurrent callers for a key are deduplicated (GetOrLoad's comment).
FlightLedByOne ==
    \A f \in Flights, c \in Callers :
        group[f] = c <=> pc[c] \in Leading /\ Flight(c) = f

\* A caller that waits for a flight waits for one that is under way, whatever
\* joined or ended in between: nobody is left waiting for a finished flight.
NoStrandedWaiter ==
    \A c \in Callers : pc[c] = "wait" => group[Flight(c)] # NoCaller

StoredByLoad(it) == it # NoItem /\ (it.err # NoErr \/ it.data.by = "load")

\* load runs only when the map holds no live entry that an earlier load left
\* for the key, however late the caller entered the flight: the second look
\* inside the flight closes the gap between the first look and group.Do.
NoRedundantLoad ==
    \A c \in Callers :
        pc[c] = "load" /\ Live(items[key[c]]) => ~StoredByLoad(items[key[c]])

\* A call that found or loaded something returns the value made for its own
\* key, and GetOrLoad never returns the zero value without an error: a negative
\* entry is not taken for a value, through the map or through a flight.
ReturnsOwnResult ==
    \A c \in Callers :
        /\ pc[c] = "done" /\ out[c].data # Zero =>
               out[c].data.key = key[c] /\ out[c].err = NoErr
        /\ pc[c] = "done" /\ op[c] = "GetOrLoad" /\ out[c].data = Zero =>
               out[c].err # NoErr

\* The entry that the sweeper removes is an expired one whenever it is still
\* the entry the sweeper looked at: an entry that never expires and lives in
\* the map undisturbed is not swept.
SweeperTakesExpired ==
    [][\A k \in sweep.keys :
           items[k] = sweep.item /\ items'[k] = NoItem => ExpiredAt(items[k], clock)]_vars

\* SetWithTTL's comment: with a ttl of 0 or less a value "will be stored
\* forever" - such an entry leaves the map only through Delete or a later store.
StoredForever ==
    [][\A k \in Keys :
           items[k] # NoItem /\ items[k].expires = 0 /\ items'[k] = NoItem
               => Delete(k)]_vars

\* A call that started returns: a leader ends its flight and wakes every
\* waiter, and no waiter sleeps through the end of its flight.
CallReturns ==
    \A c \in Callers : pc[c] \notin {"idle", "done"} ~> pc[c] = "done"

\* Until the cache is closed, an entry that has expired leaves the map, even if
\* nobody asks for it again: the memory of abandoned keys is given back.
ExpiredIsSwept ==
    \A k \in Keys : ~closed /\ ExpiredAt(items[k], clock)
                        ~> closed \/ ~ExpiredAt(items[k], clock)

\* Close makes the sweeper goroutine exit, even in the middle of a sweep.
CloseStopsSweeper == closed ~> sweep.at = "exited"
=============================================================================
