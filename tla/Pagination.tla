----------------------------- MODULE Pagination -----------------------------
(***************************************************************************)
(* honey/tables.go: listing a table page by page.                          *)
(*                                                                         *)
(* A client pages through the rows with a prefix, forth and back, each     *)
(* page in a transaction of its own; other transactions set and delete     *)
(* rows between two pages.  A row's value is its key, so that a page shows *)
(* whose values it holds.                                                  *)
(***************************************************************************)
EXTENDS Tables

CONSTANTS
    TableId,
    Neighbours,  \* full keys of other tables on the store
    Keys,        \* keys of rows, without the table id
    ListPrefix,  \* the prefix the client lists
    Limit,       \* the page size it asks for
    TurnsBack    \* whether it asks for previous pages

ASSUME TableIdAssumption == TableId \in Seq(Nat) /\ TableId # <<>>  \* newTable panics
ASSUME NeighboursAssumption ==
    /\ Neighbours \subseteq Seq(Nat) /\ IsFiniteSet(Neighbours)
    /\ \A n \in Neighbours : ~IsPrefix(TableId, n)
ASSUME KeysAssumption == Keys \subseteq Seq(Nat) /\ ListPrefix \in Seq(Nat)
ASSUME LimitAssumption == Limit \in Nat /\ TurnsBack \in BOOLEAN

VARIABLES
    page,    \* the last page read
    asked,   \* the token it was read with
    view,    \* the rows as that transaction saw them
    seen,    \* the keys of the pages read so far, since the listing last
             \* began or turned back
    steady   \* the rows present ever since then

vars == <<store, page, asked, view, seen, steady>>

NoPage == [keys |-> <<>>, values |-> <<>>, next |-> NoToken, prev |-> NoToken]

rows == {k \in Keys : getFullKey(TableId, k) \in DOMAIN store}

ListPage(token) == listPrefixedPaginated(TableId, ListPrefix, token, Limit)

-----------------------------------------------------------------------------
(* The client and the other transactions.                                  *)

Init ==
    /\ \E present \in SUBSET Keys :
           /\ IsFiniteSet(present)
           /\ store = [k \in Neighbours \cup {getFullKey(TableId, p) : p \in present} |->
                          IF k \in Neighbours THEN <<>> ELSE Relative(TableId, <<k>>)[1]]
    /\ page = NoPage
    /\ asked = NoToken
    /\ view = {}
    /\ seen = <<>>
    /\ steady = {}

\* A listing begins, or turns back: what was seen before does not count.
Restart(token) ==
    /\ page' = ListPage(token)
    /\ asked' = token
    /\ view' = rows
    /\ seen' = page'.keys
    /\ steady' = rows
    /\ UNCHANGED store

List == Restart(NoToken)

NextPage ==
    /\ page.next # NoToken
    /\ page' = ListPage(page.next)
    /\ asked' = page.next
    /\ view' = rows
    /\ IF asked = NoToken \/ ~asked.reverse
       THEN seen' = seen \o page'.keys /\ UNCHANGED steady
       ELSE seen' = page'.keys /\ steady' = rows
    /\ UNCHANGED store

PreviousPage ==
    /\ TurnsBack /\ page.prev # NoToken
    /\ IF asked # NoToken /\ asked.reverse
       THEN /\ page' = ListPage(page.prev)
            /\ asked' = page.prev
            /\ view' = rows
            /\ seen' = seen \o page'.keys
            /\ UNCHANGED <<store, steady>>
       ELSE Restart(page.prev)

Set(k) ==
    /\ k \notin rows
    /\ set(TableId, k, k)
    /\ UNCHANGED <<page, asked, view, seen, steady>>

Delete(k) ==
    /\ k \in rows
    /\ delete(TableId, k)
    /\ steady' = steady \ {k}
    /\ UNCHANGED <<page, asked, view, seen>>

Next == List \/ NextPage \/ PreviousPage \/ \E k \in Keys : Set(k) \/ Delete(k)

Spec == Init /\ [][Next]_vars

-----------------------------------------------------------------------------
(* Properties.                                                             *)

Forward == asked = NoToken \/ ~asked.reverse

\* Before(a, b): a comes before b in the direction of the last page.
Before(a, b) == IF Forward THEN Below(a, b) ELSE Below(b, a)

Matching == {k \in view : IsPrefix(ListPrefix, k)}

\* The rows a page may come from: its token's row and those that follow.
Ahead == IF asked = NoToken THEN Matching
         ELSE {k \in Matching : ~Before(k, asked.key)}

IsFirstOf(token, S) ==
    IF S = {} THEN token = NoToken
    ELSE token # NoToken /\ token.key \in S /\ \A k \in S : ~Before(k, token.key)

IsLastOf(token, S) ==
    IF S = {} THEN token = NoToken
    ELSE token # NoToken /\ token.key \in S /\ \A k \in S : ~Before(token.key, k)

\* A page is exact: as many rows with the prefix as the limit allows, the
\* nearest ones, in order, with their values, none from a neighbouring table; the
\* token onward is that of the first row left, the token back that of the last row
\* passed, so that turning back returns the rows the client came from.
PageIsExact ==
    LET taken == ToSet(page.keys)
        rest == Ahead \ taken
        onward == IF Forward THEN page.next ELSE page.prev
        back == IF Forward THEN page.prev ELSE page.next
    IN  /\ taken \subseteq Ahead /\ page.values = page.keys
        /\ \A i, j \in DOMAIN page.keys : i < j => Before(page.keys[i], page.keys[j])
        /\ \A k \in rest, t \in taken : Before(t, k)
        /\ rest # {} => Len(page.keys) = Limit
        /\ IsFirstOf(onward, rest)
        /\ IsLastOf(back, Matching \ Ahead)

\* Whatever is set and deleted between two pages, the rows listed come in order,
\* none of them twice, and no row that was there all the time is skipped.
Complete(onward) ==
    /\ \A i, j \in DOMAIN seen : i < j => Before(seen[i], seen[j])
    /\ \A k \in steady :
           /\ IsPrefix(ListPrefix, k) /\ seen # <<>> /\ ~Before(k, seen[1])
           /\ onward = NoToken \/ Before(k, onward.key)
           => k \in ToSet(seen)

\* Listing forth while others write: every lasting row is listed exactly once.
ForthIsComplete == Forward => Complete(page.next)

\* Listing back while others write: the same.
BackIsComplete == ~Forward => Complete(page.prev)

=============================================================================
