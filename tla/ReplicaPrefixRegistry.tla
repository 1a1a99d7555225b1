----------------------- MODULE ReplicaPrefixRegistry -----------------------
(***************************************************************************)
(* honey/replica_prefix.go: the node-local, on-disk registry that assigns  *)
(* a two-byte prefix to every replica placed on the node.                  *)
(*                                                                         *)
(* Callers are goroutines of one process that share one registry; the      *)
(* process may stop at any step and start again.  The store is external:   *)
(* a transaction reads a snapshot taken when it opens, its writes appear   *)
(* all at once when it commits and survive a restart, there is no conflict *)
(* detection, and any operation may fail.  A commit that reports a failure *)
(* may have taken effect.                                                  *)
(***************************************************************************)
EXTENDS Naturals

CONSTANTS
    Ids,        \* replica ids
    EmptyId,    \* the empty string
    Callers,
    MaxPrefix,  \* maxAssignableReplicaPrefix, 2^16 - 1 in the code
    NoPrefix,   \* an id without an assignment
    NoCaller,   \* the mutex is free
    NoView      \* no transaction is open

ASSUME IdsAssumption == EmptyId \notin Ids
ASSUME PrefixAssumption == MaxPrefix \in Nat /\ NoPrefix \notin Nat
ASSUME NoCallerAssumption == NoCaller \notin Callers

VARIABLES
    assigned,  \* on disk: the assignment keys
    counter,   \* on disk: the last prefix assigned, 0 when the key is absent
    mu,        \* who holds the mutex
    pc,        \* where each caller is
    id,        \* the id it asks for; EmptyId also while it lists
    view,      \* the snapshot its open transaction reads
    next,      \* the prefix its transaction has written, 0 before that
    out,       \* what it is about to return
    handed,    \* the pairs <<id, prefix>> callers were given, ever
    known      \* the pairs handed out when the caller's listing began

disk == <<assigned, counter>>
vars == <<assigned, counter, mu, pc, id, view, next, out, handed, known>>

Assignments == [Ids -> (0 .. MaxPrefix) \cup {NoPrefix}]
View == [assigned : Assignments, counter : 0 .. MaxPrefix]

ASSUME NoViewAssumption == NoView \notin View

PC == {"idle", "lock", "begin", "get", "count", "commit", "unlock", "done",
       "listLock", "listBegin", "listScan"}

\* A prefix, a listing, or an error: of the store, of an empty id, or of a
\* prefix space that is exhausted.
None == [kind |-> "none"]
Failed == [kind |-> "store"]
Empty == [kind |-> "empty"]
Exhausted == [kind |-> "exhausted"]
Prefix(p) == [kind |-> "prefix", prefix |-> p]
Listing(pairs) == [kind |-> "listing", pairs |-> pairs]
Outcome ==
    {None, Failed, Empty, Exhausted}
        \cup [kind : {"prefix"}, prefix : 0 .. MaxPrefix]
        \cup [kind : {"listing"}, pairs : SUBSET (Ids \X (0 .. MaxPrefix))]

TypeOK ==
    /\ assigned \in Assignments
    /\ counter \in 0 .. MaxPrefix
    /\ mu \in Callers \cup {NoCaller}
    /\ pc \in [Callers -> PC]
    /\ id \in [Callers -> Ids \cup {EmptyId}]
    /\ view \in [Callers -> View \cup {NoView}]
    /\ next \in [Callers -> 0 .. MaxPrefix]
    /\ out \in [Callers -> Outcome]
    /\ handed \subseteq Ids \X (0 .. MaxPrefix)
    /\ known \in [Callers -> SUBSET (Ids \X (0 .. MaxPrefix))]

\* The callers of a process that has just started.
Fresh ==
    /\ mu = NoCaller
    /\ pc = [c \in Callers |-> "idle"]
    /\ id = [c \in Callers |-> EmptyId]
    /\ view = [c \in Callers |-> NoView]
    /\ next = [c \in Callers |-> 0]
    /\ out = [c \in Callers |-> None]
    /\ known = [c \in Callers |-> {}]

Init ==
    /\ assigned = [i \in Ids |-> NoPrefix]
    /\ counter = 0
    /\ handed = {}
    /\ Fresh

Pairs(table) == {<<i, table[i]>> : i \in {j \in Ids : table[j] # NoPrefix}}

Goto(c, from, to) == pc[c] = from /\ pc' = [pc EXCEPT ![c] = to]
Set(f, c, v) == [f EXCEPT ![c] = v]

-----------------------------------------------------------------------------
(* GetOrAssignPrefix.                                                      *)

\* An empty id is refused before the mutex is taken.
Call(c, i) ==
    /\ IF i = EmptyId
       THEN Goto(c, "idle", "done") /\ out' = Set(out, c, Empty)
       ELSE Goto(c, "idle", "lock") /\ UNCHANGED out
    /\ id' = Set(id, c, i)
    /\ UNCHANGED <<disk, mu, view, next, handed, known>>

\* Mutant: callers do not exclude each other.
LockFree(c) ==
    /\ mu' = c
    /\ Goto(c, "lock", "begin") \/ Goto(c, "listLock", "listBegin")
    /\ UNCHANGED <<disk, id, view, next, out, handed, known>>

Lock(c) ==
    /\ mu = NoCaller
    /\ mu' = c
    /\ Goto(c, "lock", "begin") \/ Goto(c, "listLock", "listBegin")
    /\ UNCHANGED <<disk, id, view, next, out, handed, known>>

\* store.Update or store.View: the transaction reads what is committed now.
Begin(c) ==
    /\ Goto(c, "begin", "get") \/ Goto(c, "listBegin", "listScan")
    /\ view' = Set(view, c, [assigned |-> assigned, counter |-> counter])
    /\ UNCHANGED <<disk, mu, id, next, out, handed, known>>

\* The id has a prefix already: hand it back unchanged.
GetExisting(c) ==
    /\ Goto(c, "get", "unlock")
    /\ view[c].assigned[id[c]] # NoPrefix
    /\ out' = Set(out, c, Prefix(view[c].assigned[id[c]]))
    /\ UNCHANGED <<disk, mu, id, view, next, handed, known>>

\* Mutant: an assignment is not looked for.
GetIgnored(c) ==
    /\ Goto(c, "get", "count")
    /\ UNCHANGED <<disk, mu, id, view, next, out, handed, known>>

GetMissing(c) ==
    /\ Goto(c, "get", "count")
    /\ view[c].assigned[id[c]] = NoPrefix
    /\ UNCHANGED <<disk, mu, id, view, next, out, handed, known>>

\* uint16(n): MaxPrefix is the largest number of its width.
Uint16(n) == n % (MaxPrefix + 1)

\* Mutant: there is no limit, and a prefix may be too large for its two bytes.
AssignUnlimited(c) ==
    /\ Goto(c, "count", "commit")
    /\ next' = Set(next, c, view[c].counter + 1)
    /\ UNCHANGED <<disk, mu, id, view, out, handed, known>>

\* readCounter; the assignment and the counter are written in the transaction.
Assign(c) ==
    /\ Goto(c, "count", "commit")
    /\ view[c].counter + 1 <= MaxPrefix
    /\ next' = Set(next, c, Uint16(view[c].counter + 1))
    /\ UNCHANGED <<disk, mu, id, view, out, handed, known>>

\* Mutant: the last prefix is refused.
ExhaustEarly(c) ==
    /\ Goto(c, "count", "unlock")
    /\ view[c].counter + 1 >= MaxPrefix
    /\ out' = Set(out, c, Exhausted)
    /\ UNCHANGED <<disk, mu, id, view, next, handed, known>>

Exhaust(c) ==
    /\ Goto(c, "count", "unlock")
    /\ view[c].counter + 1 > MaxPrefix
    /\ out' = Set(out, c, Exhausted)
    /\ UNCHANGED <<disk, mu, id, view, next, handed, known>>

\* Mutants: the counter is left behind, or holds the next free prefix.
ApplyHalf(c) ==
    /\ assigned' = [assigned EXCEPT ![id[c]] = next[c]]
    /\ UNCHANGED counter

ApplyAhead(c) ==
    /\ assigned' = [assigned EXCEPT ![id[c]] = next[c]]
    /\ counter' = next[c] + 1

\* Both keys appear on disk together.
Apply(c) ==
    /\ assigned' = [assigned EXCEPT ![id[c]] = next[c]]
    /\ counter' = next[c]

Commit(c) ==
    /\ Goto(c, "commit", "unlock")
    /\ Apply(c)
    /\ out' = Set(out, c, Prefix(next[c]))
    /\ UNCHANGED <<mu, id, view, next, handed, known>>

\* Mutant: the error of Commit is ignored.
CommitFailsQuietly(c) ==
    /\ Goto(c, "commit", "unlock")
    /\ Apply(c) \/ UNCHANGED disk
    /\ out' = Set(out, c, Prefix(next[c]))
    /\ UNCHANGED <<mu, id, view, next, handed, known>>

\* Writing a key in the transaction fails, or committing it does.
CommitFails(c) ==
    /\ Goto(c, "commit", "unlock")
    /\ Apply(c) \/ UNCHANGED disk
    /\ out' = Set(out, c, Failed)
    /\ UNCHANGED <<mu, id, view, next, handed, known>>

\* txn.Get, txn.Set or txn.EachPrefix returns an error.
StoreFails(c) ==
    /\ \E at \in {"get", "count", "listScan"} : Goto(c, at, "unlock")
    /\ out' = Set(out, c, Failed)
    /\ UNCHANGED <<disk, mu, id, view, next, handed, known>>

\* Mutant: the mutex is kept when the store failed.
UnlockUnlessFailed(c) ==
    /\ Goto(c, "unlock", "done")
    /\ mu' = IF out[c] = Failed THEN mu ELSE NoCaller
    /\ view' = Set(view, c, NoView)
    /\ next' = Set(next, c, 0)
    /\ UNCHANGED <<disk, id, out, handed, known>>

\* The deferred Discard and Unlock.
Unlock(c) ==
    /\ Goto(c, "unlock", "done")
    /\ mu' = NoCaller
    /\ view' = Set(view, c, NoView)
    /\ next' = Set(next, c, 0)
    /\ UNCHANGED <<disk, id, out, handed, known>>

\* The call returns; the caller now has its prefix.
Return(c) ==
    /\ Goto(c, "done", "idle")
    /\ handed' = handed \cup (IF out[c].kind = "prefix"
                              THEN {<<id[c], out[c].prefix>>} ELSE {})
    /\ id' = Set(id, c, EmptyId)
    /\ out' = Set(out, c, None)
    /\ known' = Set(known, c, {})
    /\ UNCHANGED <<disk, mu, view, next>>

-----------------------------------------------------------------------------
(* AllPrefixes, and the end of the process.                                *)

List(c) ==
    /\ Goto(c, "idle", "listLock")
    /\ known' = Set(known, c, handed)
    /\ UNCHANGED <<disk, mu, id, view, next, out, handed>>

\* Mutant: the callback ends the scan after the first assignment.
ListScanFirst(c) ==
    /\ Goto(c, "listScan", "unlock")
    /\ \E s \in SUBSET Pairs(view[c].assigned) :
           /\ \A g, h \in s : g = h
           /\ out' = Set(out, c, Listing(s))
    /\ UNCHANGED <<disk, mu, id, view, next, handed, known>>

ListScan(c) ==
    /\ Goto(c, "listScan", "unlock")
    /\ out' = Set(out, c, Listing(Pairs(view[c].assigned)))
    /\ UNCHANGED <<disk, mu, id, view, next, handed, known>>

\* The process stops and starts again: what is on disk stays, nothing else.
Restart ==
    /\ mu' = NoCaller
    /\ pc' = [c \in Callers |-> "idle"]
    /\ id' = [c \in Callers |-> EmptyId]
    /\ view' = [c \in Callers |-> NoView]
    /\ next' = [c \in Callers |-> 0]
    /\ out' = [c \in Callers |-> None]
    /\ known' = [c \in Callers |-> {}]
    /\ UNCHANGED <<disk, handed>>

Start(c) == List(c) \/ \E i \in Ids \cup {EmptyId} : Call(c, i)

Progress(c) ==
    \/ Begin(c) \/ GetExisting(c) \/ GetMissing(c) \/ Assign(c) \/ Exhaust(c)
    \/ Commit(c) \/ CommitFails(c) \/ StoreFails(c) \/ ListScan(c)
    \/ Unlock(c) \/ Return(c)

Next == Restart \/ \E c \in Callers : Start(c) \/ Lock(c) \/ Progress(c)

Spec == Init /\ [][Next]_vars

\* Goroutines are scheduled fairly and store operations end.  sync.Mutex hands
\* itself to a waiter that has been passed over for too long.
Fairness == \A c \in Callers : WF_vars(Progress(c)) /\ SF_vars(Lock(c))

FairSpec == Spec /\ Fairness

-----------------------------------------------------------------------------
(* Properties.                                                             *)

\* "Assigned sequentially starting at 0x0001": the prefixes on disk are the
\* numbers up to the counter, each assigned to one replica.  None is 0x0000,
\* the registry's own, none is skipped, and the two keys never drift apart,
\* whatever failed and wherever the process stopped.
Sequential ==
    /\ \A i, j \in Ids : assigned[i] = assigned[j] /\ assigned[i] # NoPrefix => i = j
    /\ \A p \in 0 .. MaxPrefix : (p \in 1 .. counter) <=> \E i \in Ids : assigned[i] = p

\* A prefix that a caller was given is on disk, for the id it asked for, and
\* stays there: "so a replica's data is found again after a reboot".
HandedIsDurable == handed \subseteq Pairs(assigned)

\* GetOrAssignPrefix "errors only on a store failure or once the prefix space is
\* exhausted": the second only for an id without a prefix, when none is left.
ExhaustedMeansFull ==
    \A c \in Callers :
        pc[c] = "unlock" /\ out[c] = Exhausted =>
            assigned[id[c]] = NoPrefix /\ counter = MaxPrefix

\* A listing holds every prefix that a caller was given before it was asked for,
\* and nothing but prefixes that are on disk: it saw no half of an assignment.
ListingIsComplete ==
    \A c \in Callers :
        pc[c] = "done" /\ out[c].kind = "listing" =>
            known[c] \subseteq out[c].pairs /\ out[c].pairs \subseteq Pairs(assigned)

\* What is assigned stays assigned, through retries, failures and restarts.
AssignmentIsStable ==
    [][\A i \in Ids : assigned[i] # NoPrefix => assigned'[i] = assigned[i]]_vars

\* The registry keeps the promise of PrefixAssignment.
Promise ==
    INSTANCE PrefixAssignment WITH
        Ids <- Ids, MaxPrefix <- MaxPrefix, NoPrefix <- NoPrefix,
        assigned <- assigned, handed <- handed
KeepsPromise == Promise!Spec
HandedOneToOne == Promise!HandedOneToOne

\* A call returns, unless the process stops first, whoever else asks meanwhile.
CallReturns ==
    \A c \in Callers : pc[c] \notin {"idle", "done"} ~> pc[c] \in {"idle", "done"}
=============================================================================
