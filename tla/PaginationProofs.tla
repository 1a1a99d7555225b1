-------------------------- MODULE PaginationProofs --------------------------
(***************************************************************************)
(* What Pagination promises for every set of keys, every prefix and every  *)
(* page size, whatever is set and deleted between two pages.               *)
(***************************************************************************)
EXTENDS Pagination, TablesProofs

\* No key of the table is a proper prefix of another, as of keys of one width.
KeysApart == \A a, b \in Keys : IsPrefix(a, b) => a = b

-----------------------------------------------------------------------------
(* Pages, apart from the state they are read in.                           *)

\* A page asked for with a token goes back when the token does.
Reverses(token) == IF token = NoToken THEN FALSE ELSE token.reverse

Listed(S) == {k \in S : IsPrefix(ListPrefix, k)}

AheadIn(S, token) ==
    IF token = NoToken THEN Listed(S)
    ELSE {k \in Listed(S) : ~Comes(k, token.key, Reverses(token))}

\* The tokens of a page, onward and back again.
Onward(p, token) == IF Reverses(token) THEN p.prev ELSE p.next
Backward(p, token) == IF Reverses(token) THEN p.next ELSE p.prev

\* Of the rows S, p holds what its token asks for, and the token onward.
GoesOn(p, token, S) ==
    LET rest == AheadIn(S, token) \ ToSet(p.keys)
    IN  /\ ToSet(p.keys) \subseteq AheadIn(S, token)
        /\ InOrder(p.keys, ToSet(p.keys), Reverses(token))
        /\ \A k \in rest, t \in ToSet(p.keys) : Comes(t, k, Reverses(token))
        /\ Len(p.keys) <= Limit /\ (rest # {} => Len(p.keys) = Limit)
        /\ IsTokenOfFirst(Onward(p, token), rest, Reverses(token))

\* Of the rows S, p holds the token of the nearest of those it left behind.
GoesBack(p, token, S) ==
    IsTokenOfFirst(Backward(p, token), Listed(S) \ AheadIn(S, token), ~Reverses(token))

\* The tokens a page may hold.
Tokens(reverse) == {NoToken} \cup {Token(k, reverse) : k \in Listed(Keys)}

LEMMA TokensAre ==
    /\ \A reverse \in BOOLEAN : NoToken \in Tokens(reverse)
    /\ Reverses(NoToken) = FALSE
    /\ \A reverse \in BOOLEAN : \A token \in Tokens(reverse) :
           token # NoToken => /\ token = Token(token.key, reverse)
                              /\ token.key \in Listed(Keys) /\ token.key \in Seq(Nat)
                              /\ Reverses(token) = reverse
    /\ \A k \in Listed(Keys), reverse \in BOOLEAN : Token(k, reverse) # NoToken
<1>1. Listed(Keys) \subseteq Seq(Nat)
  BY KeysAssumption DEF Listed
<1>2. ASSUME NEW k \in Listed(Keys), NEW reverse \in BOOLEAN
      PROVE  /\ Token(k, reverse) # NoToken
             /\ Token(k, reverse).key = k /\ Token(k, reverse).reverse = reverse
  BY <1>1, NoTokenAssumption DEF Token
<1> QED BY <1>1, <1>2 DEF Tokens, Reverses

\* The token of the first of some rows to be listed is one a page may hold.
LEMMA FirstTokens ==
    ASSUME NEW S, S \subseteq Listed(Keys), NEW reverse \in BOOLEAN, NEW token,
           IsTokenOfFirst(token, S, reverse)
    PROVE  token \in Tokens(reverse)
BY DEF IsTokenOfFirst, Tokens

-----------------------------------------------------------------------------
(* A page that is read.                                                    *)

\* The store holds the rows of other tables, and rows of keys under their keys.
StoreInv ==
    /\ StoreOfStrings
    /\ DOMAIN store \subseteq Neighbours \cup {getFullKey(TableId, k) : k \in Keys}
    /\ \A k \in rows : store[getFullKey(TableId, k)] = k

\* The keys of the table are its rows.
LEMMA RowsUnder ==
    ASSUME StoreInv
    PROVE  KeysUnder(TableId) = rows /\ rows \subseteq Keys /\ rows \subseteq Seq(Nat)
<1>1. rows \subseteq Keys /\ rows \subseteq Seq(Nat)
  BY KeysAssumption DEF rows
<1>2. ASSUME NEW k \in KeysUnder(TableId) PROVE k \in rows
  <2>1. k \in Seq(Nat) /\ getFullKey(TableId, k) \in DOMAIN store
    BY DEF KeysUnder
  <2>2. IsPrefix(TableId, getFullKey(TableId, k))
    BY <2>1, TableIdAssumption, FullKeyOf
  <2>3. getFullKey(TableId, k) \notin Neighbours
    BY <2>2, NeighboursAssumption
  <2>4. PICK l \in Keys : getFullKey(TableId, k) = getFullKey(TableId, l)
    BY <2>1, <2>3 DEF StoreInv
  <2>5. k = l
    BY <2>1, <2>4, TableIdAssumption, KeysAssumption, FullKeyOf
  <2> QED BY <2>1, <2>5 DEF rows
<1>3. rows \subseteq KeysUnder(TableId)
  BY <1>1 DEF KeysUnder, rows
<1> QED BY <1>1, <1>2, <1>3

\* A scan from a key, or back from it, stays within the rows with the prefix.
LEMMA RunFrom ==
    ASSUME StoreInv, NEW key \in Listed(Keys)
    PROVE  InOrder(Run(ListPrefix, listInRange(TableId, key, <<>>, FALSE)),
                   {k \in Listed(rows) : ~Below(k, key)}, FALSE)
<1> DEFINE S == KeysBetween(TableId, key, <<>>)
           s == listInRange(TableId, key, <<>>, FALSE)
<1>1. key \in Seq(Nat) /\ <<>> \in Seq(Nat) /\ IsPrefix(ListPrefix, key)
  BY KeysAssumption, EmptySeq DEF Listed
<1>2. InOrder(s, S, FALSE)
  BY <1>1, TableIdAssumption, RangeInOrder DEF StoreInv
<1>3. S = {k \in rows : ~Below(k, key)}
  BY RowsUnder, EmptyBegins DEF KeysBetween
<1>4. S \subseteq Seq(Nat)
  BY <1>3, RowsUnder
<1>5. ASSUME NEW a \in S, NEW b \in S, Comes(a, b, FALSE), IsPrefix(ListPrefix, b)
      PROVE  IsPrefix(ListPrefix, a)
  <2>1. ~Below(b, a)
    BY <1>4, <1>5, BelowAsymmetric DEF Comes
  <2>2. ~Below(a, key)
    BY <1>3
  <2> QED BY <1>1, <1>4, <1>5, <2>1, <2>2, KeysAssumption, PrefixConvex
<1>6. InOrder(Run(ListPrefix, s), {k \in S : IsPrefix(ListPrefix, k)}, FALSE)
  <2> HIDE DEF S, s
  <2> QED BY <1>2, <1>4, <1>5, RunInOrder
<1>7. {k \in S : IsPrefix(ListPrefix, k)} = {k \in Listed(rows) : ~Below(k, key)}
  BY <1>3 DEF Listed
<1> QED BY <1>6, <1>7

LEMMA RunBackFrom ==
    ASSUME StoreInv, NEW key \in Listed(Keys)
    PROVE  InOrder(Run(ListPrefix, listInRange(TableId, <<>>, key, TRUE)),
                   {k \in Listed(rows) : ~Below(key, k) \/ IsPrefix(key, k)}, TRUE)
<1> DEFINE S == KeysBetween(TableId, <<>>, key)
           s == listInRange(TableId, <<>>, key, TRUE)
<1>1. key \in Seq(Nat) /\ <<>> \in Seq(Nat) /\ IsPrefix(ListPrefix, key)
  BY KeysAssumption, EmptySeq DEF Listed
<1>2. InOrder(s, S, TRUE)
  BY <1>1, TableIdAssumption, RangeInOrder DEF StoreInv
<1>3. S = {k \in rows : ~Below(key, k) \/ IsPrefix(key, k)}
  BY RowsUnder, EmptyBegins DEF KeysBetween
<1>4. S \subseteq Seq(Nat)
  BY <1>3, RowsUnder
<1>5. ASSUME NEW a \in S, NEW b \in S, Comes(a, b, TRUE), IsPrefix(ListPrefix, b)
      PROVE  IsPrefix(ListPrefix, a)
  <2>1. ~Below(a, b)
    BY <1>4, <1>5, BelowAsymmetric DEF Comes
  <2>2. CASE ~Below(key, a)
    BY <1>1, <1>4, <1>5, <2>1, <2>2, KeysAssumption, PrefixConvex
  <2>3. CASE IsPrefix(key, a)
    <3>1. PICK r \in Seq(Nat) : key = ListPrefix \o r
      BY <1>1, KeysAssumption, PrefixAndRest
    <3> QED BY <3>1, <2>3, <1>4, KeysAssumption, FullKeyBegins
  <2> QED BY <1>3, <2>2, <2>3
<1>6. InOrder(Run(ListPrefix, s), {k \in S : IsPrefix(ListPrefix, k)}, TRUE)
  <2> HIDE DEF S, s
  <2> QED BY <1>2, <1>4, <1>5, RunInOrder
<1>7. {k \in S : IsPrefix(ListPrefix, k)}
          = {k \in Listed(rows) : ~Below(key, k) \/ IsPrefix(key, k)}
  BY <1>3 DEF Listed
<1> QED BY <1>6, <1>7

\* The values of a page are those of its rows.
LEMMA ValuesOfRows ==
    ASSUME StoreInv, NEW keys \in Seq(Keys), ToSet(keys) \subseteq rows
    PROVE  ValuesOf(TableId, keys) = keys
<1>1. keys = [i \in DOMAIN keys |-> keys[i]]
  BY LenProperties
<1>2. ASSUME NEW i \in DOMAIN keys PROVE get(TableId, keys[i]) = keys[i]
  <2>1. keys[i] \in rows
    BY DEF ToSet
  <2> QED BY <2>1 DEF get, rows, StoreInv
<1> QED BY <1>1, <1>2 DEF ValuesOf

\* What a page takes of a run of listed rows, whose token back is given.
LEMMA PageOfRun ==
    ASSUME StoreInv, NEW R, R \subseteq Listed(rows), NEW reverse \in BOOLEAN,
           NEW run, InOrder(run, R, reverse)
    PROVE  LET keys == Taken(run, Limit)
               onward == After(run, Limit, reverse)
           IN  /\ keys \in Seq(Keys) /\ ValuesOf(TableId, keys) = keys
               /\ onward \in Tokens(reverse)
               /\ ToSet(keys) \subseteq R
               /\ InOrder(keys, ToSet(keys), reverse)
               /\ \A k \in R \ ToSet(keys), t \in ToSet(keys) : Comes(t, k, reverse)
               /\ Len(keys) <= Limit /\ (R \ ToSet(keys) # {} => Len(keys) = Limit)
               /\ IsTokenOfFirst(onward, R \ ToSet(keys), reverse)
<1> DEFINE keys == Taken(run, Limit)
           onward == After(run, Limit, reverse)
<1>1. R \subseteq rows /\ R \subseteq Keys /\ R \subseteq Seq(Nat) /\ R \subseteq Listed(Keys)
  BY RowsUnder DEF Listed
<1>2. /\ ToSet(keys) \subseteq R
      /\ InOrder(keys, ToSet(keys), reverse)
      /\ \A k \in R \ ToSet(keys), t \in ToSet(keys) : Comes(t, k, reverse)
      /\ Len(keys) <= Limit /\ (R \ ToSet(keys) # {} => Len(keys) = Limit)
      /\ IsTokenOfFirst(onward, R \ ToSet(keys), reverse)
  BY <1>1, LimitAssumption, TakenAndAfter
<1> HIDE DEF keys, onward
<1>3. keys \in Seq(Keys)
  <2>1. keys \in Seq(ToSet(keys)) /\ ToSet(keys) \subseteq Keys
    BY <1>1, <1>2 DEF InOrder
  <2> QED BY <2>1, SeqMonotonic
<1>4. ValuesOf(TableId, keys) = keys
  BY <1>1, <1>2, <1>3, ValuesOfRows
<1>5. onward \in Tokens(reverse)
  <2>1. R \ ToSet(keys) \subseteq Listed(Keys)
    BY <1>1
  <2> QED BY <2>1, <1>2, FirstTokens
<1> QED BY <1>2, <1>3, <1>4, <1>5 DEF keys, onward

\* What every page that is read is.
IsPageFor(p, token) ==
    /\ p.keys \in Seq(Keys) /\ p.values = p.keys
    /\ p.next \in Tokens(FALSE) /\ p.prev \in Tokens(TRUE)
    /\ (Reverses(token) => KeysApart) => GoesOn(p, token, rows)
    /\ KeysApart => GoesBack(p, token, rows)

LEMMA FirstPageIsRight ==
    ASSUME StoreInv
    PROVE  IsPageFor(FirstPage(TableId, ListPrefix, Limit), NoToken)
<1> DEFINE run == eachPrefix(TableId, ListPrefix)
           keys == Taken(run, Limit)
           p == FirstPage(TableId, ListPrefix, Limit)
<1>1. InOrder(run, Listed(rows), FALSE)
  <2>1. InOrder(run, {k \in KeysUnder(TableId) : IsPrefix(ListPrefix, k)}, FALSE)
    BY TableIdAssumption, KeysAssumption, PrefixInOrder DEF StoreInv
  <2> QED BY <2>1, RowsUnder DEF Listed
<1>2. p = [keys |-> keys, values |-> ValuesOf(TableId, keys),
           next |-> After(run, Limit, FALSE), prev |-> NoToken]
  BY DEF FirstPage, Page
<1>3. AheadIn(rows, NoToken) = Listed(rows) /\ Reverses(NoToken) = FALSE
  BY DEF AheadIn, Reverses
<1> HIDE DEF run
<1>4. /\ keys \in Seq(Keys) /\ ValuesOf(TableId, keys) = keys
      /\ After(run, Limit, FALSE) \in Tokens(FALSE)
      /\ ToSet(keys) \subseteq Listed(rows)
      /\ InOrder(keys, ToSet(keys), FALSE)
      /\ \A k \in Listed(rows) \ ToSet(keys), t \in ToSet(keys) : Comes(t, k, FALSE)
      /\ Len(keys) <= Limit /\ (Listed(rows) \ ToSet(keys) # {} => Len(keys) = Limit)
      /\ IsTokenOfFirst(After(run, Limit, FALSE), Listed(rows) \ ToSet(keys), FALSE)
  BY <1>1, PageOfRun
<1> HIDE DEF keys, p
<1>5. /\ p.keys = keys /\ p.values = ValuesOf(TableId, keys)
      /\ p.next = After(run, Limit, FALSE) /\ p.prev = NoToken
  BY <1>2
<1>6. GoesOn(p, NoToken, rows)
  <2>1. Onward(p, NoToken) = p.next
    BY <1>3 DEF Onward
  <2> QED BY <1>3, <1>4, <1>5, <2>1 DEF GoesOn
<1>7. GoesBack(p, NoToken, rows)
  BY <1>3, <1>5 DEF GoesBack, Backward, IsTokenOfFirst
<1>8. NoToken \in Tokens(TRUE)
  BY DEF Tokens
<1> QED BY <1>4, <1>5, <1>6, <1>7, <1>8 DEF IsPageFor, p

LEMMA PageFromIsRight ==
    ASSUME StoreInv, NEW token \in Tokens(FALSE), token # NoToken
    PROVE  IsPageFor(PageFrom(TableId, ListPrefix, token.key, Limit), token)
<1> DEFINE key == token.key
           run == Run(ListPrefix, listInRange(TableId, key, <<>>, FALSE))
           back == Run(ListPrefix, listInRange(TableId, <<>>, key, TRUE))
           keys == Taken(run, Limit)
           R == {k \in Listed(rows) : ~Below(k, key)}
           B == {k \in Listed(rows) : ~Below(key, k) \/ IsPrefix(key, k)}
           p == PageFrom(TableId, ListPrefix, token.key, Limit)
<1>1. /\ key \in Listed(Keys) /\ key \in Seq(Nat) /\ key \in Keys
      /\ Reverses(token) = FALSE
  BY TokensAre DEF Listed
<1>2. InOrder(run, R, FALSE) /\ InOrder(back, B, TRUE)
  BY <1>1, RunFrom, RunBackFrom
<1>3. p = [keys |-> keys, values |-> ValuesOf(TableId, keys),
           next |-> After(run, Limit, FALSE), prev |-> Adjacent(back, key, TRUE)]
  BY DEF PageFrom, Page
<1>4. AheadIn(rows, token) = R
  BY <1>1 DEF AheadIn, Comes
<1>5. \A k \in Listed(rows) : k \in Keys /\ k \in Seq(Nat) /\ k \in Listed(Keys)
  BY RowsUnder DEF Listed
<1> HIDE DEF run, back
<1>6. /\ keys \in Seq(Keys) /\ ValuesOf(TableId, keys) = keys
      /\ After(run, Limit, FALSE) \in Tokens(FALSE)
      /\ ToSet(keys) \subseteq R
      /\ InOrder(keys, ToSet(keys), FALSE)
      /\ \A k \in R \ ToSet(keys), t \in ToSet(keys) : Comes(t, k, FALSE)
      /\ Len(keys) <= Limit /\ (R \ ToSet(keys) # {} => Len(keys) = Limit)
      /\ IsTokenOfFirst(After(run, Limit, FALSE), R \ ToSet(keys), FALSE)
  <2>1. R \subseteq Listed(rows)
    OBVIOUS
  <2> HIDE DEF R
  <2> QED BY <2>1, <1>2, PageOfRun
<1>7. IsTokenOfFirst(Adjacent(back, key, TRUE), B \ {key}, TRUE)
  <2>1. B \subseteq Seq(Nat)
    BY <1>5
  <2> HIDE DEF B
  <2> QED BY <2>1, <1>2, AdjacentIsFirst
<1>8. Adjacent(back, key, TRUE) \in Tokens(TRUE)
  <2>1. B \ {key} \subseteq Listed(Keys)
    BY <1>5
  <2> HIDE DEF B
  <2> QED BY <2>1, <1>7, FirstTokens
<1>9. KeysApart => B \ {key} = Listed(rows) \ R
  <2> SUFFICES ASSUME KeysApart PROVE B \ {key} = Listed(rows) \ R
    OBVIOUS
  <2>1. ASSUME NEW k \in Listed(rows) PROVE k \in B \ {key} <=> k \notin R
    <3>1. k \in Keys /\ k \in Seq(Nat)
      BY <1>5
    <3>2. IsPrefix(key, k) => k = key
      BY <3>1, <1>1 DEF KeysApart
    <3>3. k = key => k \in R
      BY <1>1, BelowIrreflexive
    <3>4. k # key => (~Below(key, k) <=> Below(k, key))
      BY <3>1, <1>1, BelowTotal, BelowAsymmetric
    <3> QED BY <3>2, <3>3, <3>4
  <2> QED BY <2>1
<1> HIDE DEF keys, p, R, B
<1>10. /\ p.keys = keys /\ p.values = ValuesOf(TableId, keys)
       /\ p.next = After(run, Limit, FALSE) /\ p.prev = Adjacent(back, key, TRUE)
  BY <1>3
<1>11. GoesOn(p, token, rows)
  <2>1. Onward(p, token) = p.next
    BY <1>1 DEF Onward
  <2> QED BY <1>1, <1>4, <1>6, <1>10, <2>1 DEF GoesOn
<1>12. KeysApart => GoesBack(p, token, rows)
  <2>1. Backward(p, token) = p.prev /\ ~Reverses(token) = TRUE
    BY <1>1 DEF Backward
  <2> QED BY <1>4, <1>7, <1>9, <1>10, <2>1 DEF GoesBack
<1> QED BY <1>6, <1>8, <1>10, <1>11, <1>12 DEF IsPageFor, p

LEMMA PageBackFromIsRight ==
    ASSUME StoreInv, NEW token \in Tokens(TRUE), token # NoToken
    PROVE  IsPageFor(PageBackFrom(TableId, ListPrefix, token.key, Limit), token)
<1> DEFINE key == token.key
           run == Run(ListPrefix, listInRange(TableId, <<>>, key, TRUE))
           forth == Run(ListPrefix, listInRange(TableId, key, <<>>, FALSE))
           keys == Taken(run, Limit)
           R == {k \in Listed(rows) : ~Below(key, k) \/ IsPrefix(key, k)}
           B == {k \in Listed(rows) : ~Below(k, key)}
           A == {k \in Listed(rows) : ~Below(key, k)}
           p == PageBackFrom(TableId, ListPrefix, token.key, Limit)
<1>1. /\ key \in Listed(Keys) /\ key \in Seq(Nat) /\ key \in Keys
      /\ Reverses(token) = TRUE
  BY TokensAre DEF Listed
<1>2. InOrder(run, R, TRUE) /\ InOrder(forth, B, FALSE)
  BY <1>1, RunFrom, RunBackFrom
<1>3. p = [keys |-> keys, values |-> ValuesOf(TableId, keys),
           next |-> Adjacent(forth, key, FALSE), prev |-> After(run, Limit, TRUE)]
  BY DEF PageBackFrom, Page
<1>4. AheadIn(rows, token) = A
  BY <1>1 DEF AheadIn, Comes
<1>5. \A k \in Listed(rows) : k \in Keys /\ k \in Seq(Nat) /\ k \in Listed(Keys)
  BY RowsUnder DEF Listed
<1> HIDE DEF run, forth
<1>6. /\ keys \in Seq(Keys) /\ ValuesOf(TableId, keys) = keys
      /\ After(run, Limit, TRUE) \in Tokens(TRUE)
      /\ ToSet(keys) \subseteq R
      /\ InOrder(keys, ToSet(keys), TRUE)
      /\ \A k \in R \ ToSet(keys), t \in ToSet(keys) : Comes(t, k, TRUE)
      /\ Len(keys) <= Limit /\ (R \ ToSet(keys) # {} => Len(keys) = Limit)
      /\ IsTokenOfFirst(After(run, Limit, TRUE), R \ ToSet(keys), TRUE)
  <2>1. R \subseteq Listed(rows)
    OBVIOUS
  <2> HIDE DEF R
  <2> QED BY <2>1, <1>2, PageOfRun
<1>7. IsTokenOfFirst(Adjacent(forth, key, FALSE), B \ {key}, FALSE)
  <2>1. B \subseteq Seq(Nat)
    BY <1>5
  <2> HIDE DEF B
  <2> QED BY <2>1, <1>2, AdjacentIsFirst
<1>8. Adjacent(forth, key, FALSE) \in Tokens(FALSE)
  <2>1. B \ {key} \subseteq Listed(Keys)
    BY <1>5
  <2> HIDE DEF B
  <2> QED BY <2>1, <1>7, FirstTokens
<1>9. B \ {key} = Listed(rows) \ A
  <2>1. ASSUME NEW k \in Listed(rows) PROVE k \in B \ {key} <=> k \notin A
    <3>1. k \in Seq(Nat)
      BY <1>5
    <3>2. k = key => k \in A
      BY <1>1, BelowIrreflexive
    <3>3. k # key => (~Below(k, key) <=> Below(key, k))
      BY <3>1, <1>1, BelowTotal, BelowAsymmetric
    <3> QED BY <3>2, <3>3
  <2> QED BY <2>1
<1>10. KeysApart => R = A
  <2> SUFFICES ASSUME KeysApart PROVE R = A
    OBVIOUS
  <2>1. ASSUME NEW k \in Listed(rows), IsPrefix(key, k) PROVE ~Below(key, k)
    <3>1. k \in Keys
      BY <1>5
    <3>2. k = key
      BY <3>1, <2>1, <1>1 DEF KeysApart
    <3> QED BY <3>2, <1>1, BelowIrreflexive
  <2> QED BY <2>1
<1> HIDE DEF keys, p, R, A, B
<1>11. /\ p.keys = keys /\ p.values = ValuesOf(TableId, keys)
       /\ p.next = Adjacent(forth, key, FALSE) /\ p.prev = After(run, Limit, TRUE)
  BY <1>3
<1>12. KeysApart => GoesOn(p, token, rows)
  <2>1. Onward(p, token) = p.prev
    BY <1>1 DEF Onward
  <2> QED BY <1>1, <1>4, <1>6, <1>10, <1>11, <2>1 DEF GoesOn
<1>13. GoesBack(p, token, rows)
  <2>1. Backward(p, token) = p.next
    BY <1>1 DEF Backward
  <2>2. (~Reverses(token)) = FALSE
    BY <1>1
  <2>3. IsTokenOfFirst(p.next, Listed(rows) \ A, FALSE)
    BY <1>7, <1>9, <1>11
  <2>4. IsTokenOfFirst(Backward(p, token), Listed(rows) \ AheadIn(rows, token),
                       ~Reverses(token))
    BY <2>1, <2>2, <2>3, <1>4
  <2> QED BY <2>4 DEF GoesBack
<1> QED BY <1>1, <1>6, <1>8, <1>11, <1>12, <1>13 DEF IsPageFor, p

\* Every page that is read is right.
LEMMA ListPageIsRight ==
    ASSUME StoreInv, NEW token \in Tokens(FALSE) \cup Tokens(TRUE)
    PROVE  IsPageFor(ListPage(token), token)
<1>1. CASE token = NoToken
  BY <1>1, FirstPageIsRight DEF ListPage, listPrefixedPaginated
<1>2. CASE token # NoToken /\ token \in Tokens(FALSE)
  <2>1. token.reverse = FALSE
    BY <1>2, TokensAre DEF Reverses
  <2> QED BY <1>2, <2>1, PageFromIsRight DEF ListPage, listPrefixedPaginated
<1>3. CASE token # NoToken /\ token \in Tokens(TRUE)
  <2>1. token.reverse = TRUE
    BY <1>3, TokensAre DEF Reverses
  <2> QED BY <1>3, <2>1, PageBackFromIsRight DEF ListPage, listPrefixedPaginated
<1> QED BY <1>1, <1>2, <1>3

-----------------------------------------------------------------------------
(* A listing, page after page.                                             *)

\* What has been listed once p is read, of rows T that are there all the time.
ListedSoFar(s, p, token, T) ==
    LET onward == Onward(p, token)
        r == Reverses(token)
    IN  /\ s \in Seq(Keys)
        /\ \A i, j \in 1 .. Len(s) : i < j => Comes(s[i], s[j], r)
        /\ onward # NoToken => \A i \in 1 .. Len(s) : Comes(s[i], onward.key, r)
        /\ Limit = 0 => s = <<>>
        /\ onward # NoToken /\ s = <<>> => Limit = 0
        /\ \A k \in T :
               /\ IsPrefix(ListPrefix, k) /\ s # <<>> /\ ~Comes(k, s[1], r)
               /\ onward = NoToken \/ Comes(k, onward.key, r)
               => k \in ToSet(s)

\* The token onward of a page is that of the first row left.
LEMMA OnwardIsFirst ==
    ASSUME NEW token \in Tokens(FALSE) \cup Tokens(TRUE), NEW S, S \subseteq Keys,
           NEW p, GoesOn(p, token, S)
    PROVE  LET rest == AheadIn(S, token) \ ToSet(p.keys)
               onward == Onward(p, token)
           IN  /\ rest \subseteq Listed(Keys)
               /\ onward = NoToken <=> rest = {}
               /\ onward # NoToken =>
                      /\ onward.key \in rest
                      /\ \A j \in rest : ~Comes(j, onward.key, Reverses(token))
<1> DEFINE rest == AheadIn(S, token) \ ToSet(p.keys)
           onward == Onward(p, token)
<1>1. rest \subseteq Listed(Keys)
  BY DEF AheadIn, Listed
<1>2. Reverses(token) \in BOOLEAN
  BY TokensAre
<1>3. IsTokenOfFirst(onward, rest, Reverses(token))
  BY DEF GoesOn
<1> HIDE DEF rest, onward
<1>4. ASSUME rest = {} PROVE onward = NoToken
  BY <1>3, <1>4 DEF IsTokenOfFirst
<1>5. ASSUME rest # {}
      PROVE  /\ onward # NoToken /\ onward.key \in rest
             /\ \A j \in rest : ~Comes(j, onward.key, Reverses(token))
  <2>1. PICK k \in rest : /\ onward = Token(k, Reverses(token))
                          /\ \A j \in rest : ~Comes(j, k, Reverses(token))
    BY <1>3, <1>5 DEF IsTokenOfFirst
  <2>2. onward # NoToken
    BY <1>1, <1>2, <2>1, TokensAre
  <2>3. onward.key = k
    BY <2>1 DEF Token
  <2> QED BY <2>1, <2>2, <2>3
<1> QED BY <1>1, <1>4, <1>5 DEF rest, onward

\* A listing that begins, or turns back, has listed its first page.
LEMMA ListingBegins ==
    ASSUME NEW token \in Tokens(FALSE) \cup Tokens(TRUE), NEW S, S \subseteq Keys,
           NEW p, p.keys \in Seq(Keys), GoesOn(p, token, S)
    PROVE  ListedSoFar(p.keys, p, token, S)
<1> DEFINE s == p.keys
           r == Reverses(token)
           ahead == AheadIn(S, token)
           rest == ahead \ ToSet(s)
           onward == Onward(p, token)
<1>1. /\ ToSet(s) \subseteq ahead /\ InOrder(s, ToSet(s), r)
      /\ \A k \in rest, t \in ToSet(s) : Comes(t, k, r)
      /\ Len(s) <= Limit /\ (rest # {} => Len(s) = Limit)
  BY DEF GoesOn
<1>2. /\ rest \subseteq Listed(Keys)
      /\ onward = NoToken <=> rest = {}
      /\ onward # NoToken => /\ onward.key \in rest
                             /\ \A j \in rest : ~Comes(j, onward.key, r)
  BY OnwardIsFirst
<1>3. /\ s \in Seq(Keys) /\ Len(s) \in Nat /\ DOMAIN s = 1 .. Len(s)
      /\ s = <<>> <=> Len(s) = 0
  BY LenProperties, EmptySeq
<1>4. \A i \in 1 .. Len(s) : s[i] \in ToSet(s) /\ s[i] \in ahead
  BY <1>1, <1>3 DEF ToSet
<1>5. \A k \in S : k \in Seq(Nat)
  BY KeysAssumption
<1>6. token # NoToken => token.key \in Seq(Nat)
  BY TokensAre
<1>7. ASSUME NEW k \in S, IsPrefix(ListPrefix, k), s # <<>>, ~Comes(k, s[1], r),
             onward = NoToken \/ Comes(k, onward.key, r)
      PROVE  k \in ToSet(s)
  <2>1. 1 \in 1 .. Len(s) /\ s[1] \in ahead
    BY <1>3, <1>4, <1>7
  <2>2. k \in Listed(S)
    BY <1>7 DEF Listed
  <2>3. s[1] \in Seq(Nat) /\ k \in Seq(Nat)
    BY <2>1, <1>5 DEF AheadIn, Listed
  <2>4. k \in ahead
    <3>1. CASE token = NoToken
      BY <3>1, <2>2 DEF AheadIn
    <3>2. CASE token # NoToken
      <4>1. ~Comes(s[1], token.key, r)
        BY <2>1, <3>2 DEF AheadIn
      <4>2. ~Comes(k, token.key, r)
        <5> HIDE DEF r
        <5>1. k = s[1] \/ Comes(s[1], k, r)
          BY <2>3, <1>7, ComesIsOrder
        <5> QED BY <4>1, <5>1, <2>3, <1>6, <3>2, ComesIsOrder
      <4> QED BY <4>2, <3>2, <2>2 DEF AheadIn
    <3> QED BY <3>1, <3>2
  <2>5. k \notin rest
    BY <1>2, <1>7
  <2> QED BY <2>4, <2>5
<1>8. ASSUME NEW i \in 1 .. Len(s), NEW j \in 1 .. Len(s), i < j
      PROVE  Comes(s[i], s[j], r)
  BY <1>1, <1>8 DEF InOrder
<1>9. ASSUME onward # NoToken, NEW i \in 1 .. Len(s) PROVE Comes(s[i], onward.key, r)
  BY <1>1, <1>2, <1>4, <1>9
<1>10. Limit = 0 => s = <<>>
  BY <1>1, <1>3
<1>11. onward # NoToken /\ s = <<>> => Limit = 0
  BY <1>1, <1>2, <1>3
<1> QED BY <1>3, <1>7, <1>8, <1>9, <1>10, <1>11 DEF ListedSoFar

\* A listing that goes on has listed the next page as well.
LEMMA ListingGoesOn ==
    ASSUME NEW before \in Tokens(FALSE) \cup Tokens(TRUE), NEW s, NEW p, NEW T,
           ListedSoFar(s, p, before, T), Onward(p, before) # NoToken,
           NEW token, token = Onward(p, before), token \in Tokens(FALSE) \cup Tokens(TRUE),
           Reverses(token) = Reverses(before),
           NEW S, S \subseteq Keys, T \subseteq S,
           NEW q, q.keys \in Seq(Keys), GoesOn(q, token, S)
    PROVE  ListedSoFar(s \o q.keys, q, token, T)
<1> DEFINE r == Reverses(token)
           ahead == AheadIn(S, token)
           rest == ahead \ ToSet(q.keys)
           onward == Onward(q, token)
           t == q.keys
           u == s \o t
<1>1. /\ s \in Seq(Keys)
      /\ \A i, j \in 1 .. Len(s) : i < j => Comes(s[i], s[j], r)
      /\ \A i \in 1 .. Len(s) : Comes(s[i], token.key, r)
      /\ Limit = 0 => s = <<>>
      /\ s = <<>> => Limit = 0
      /\ \A k \in T : IsPrefix(ListPrefix, k) /\ s # <<>> /\ ~Comes(k, s[1], r)
                          /\ Comes(k, token.key, r) => k \in ToSet(s)
  BY DEF ListedSoFar
<1>2. /\ ToSet(t) \subseteq ahead /\ InOrder(t, ToSet(t), r)
      /\ \A k \in rest, x \in ToSet(t) : Comes(x, k, r)
      /\ Len(t) <= Limit /\ (rest # {} => Len(t) = Limit)
  BY DEF GoesOn
<1>3. /\ rest \subseteq Listed(Keys)
      /\ onward = NoToken <=> rest = {}
      /\ onward # NoToken => /\ onward.key \in rest
                             /\ \A j \in rest : ~Comes(j, onward.key, r)
  BY OnwardIsFirst
<1>4. token.key \in Seq(Nat) /\ token # NoToken
  BY TokensAre
<1>5. /\ Len(s) \in Nat /\ DOMAIN s = 1 .. Len(s)
      /\ t \in Seq(Keys) /\ Len(t) \in Nat /\ DOMAIN t = 1 .. Len(t)
      /\ s = <<>> <=> Len(s) = 0
      /\ t = <<>> <=> Len(t) = 0
  BY <1>1, LenProperties, EmptySeq
<1>6. /\ u \in Seq(Keys) /\ Len(u) = Len(s) + Len(t) /\ DOMAIN u = 1 .. Len(u)
      /\ \A i \in 1 .. Len(u) : u[i] = IF i <= Len(s) THEN s[i] ELSE t[i - Len(s)]
  <2>1. /\ u \in Seq(Keys) /\ Len(u) = Len(s) + Len(t)
        /\ \A i \in 1 .. Len(s) + Len(t) :
               u[i] = IF i <= Len(s) THEN s[i] ELSE t[i - Len(s)]
    BY <1>1, <1>5, ConcatProperties
  <2>2. DOMAIN u = 1 .. Len(u)
    BY <2>1, LenProperties
  <2> HIDE DEF u
  <2> QED BY <2>1, <2>2
<1> HIDE DEF u
<1>7. /\ \A i \in 1 .. Len(s) : s[i] \in ToSet(s) /\ s[i] \in Seq(Nat)
      /\ \A i \in 1 .. Len(t) : t[i] \in ToSet(t) /\ t[i] \in ahead /\ t[i] \in Seq(Nat)
  <2>1. Keys \subseteq Seq(Nat)
    BY KeysAssumption
  <2>2. /\ \A i \in 1 .. Len(s) : s[i] \in Keys
        /\ \A i \in 1 .. Len(t) : t[i] \in Keys
    BY <1>1, <1>5, ElementOfSeq
  <2> QED BY <2>1, <2>2, <1>2, <1>5 DEF ToSet
<1>8. ToSet(u) = ToSet(s) \cup ToSet(t)
  <2>1. ASSUME NEW i \in 1 .. Len(s) PROVE s[i] \in ToSet(u)
    <3>1. i \in 1 .. Len(u) /\ u[i] = s[i]
      BY <1>5, <1>6
    <3> QED BY <3>1, <1>6 DEF ToSet
  <2>2. ASSUME NEW i \in 1 .. Len(t) PROVE t[i] \in ToSet(u)
    <3>1. Len(s) + i \in 1 .. Len(u) /\ ~(Len(s) + i <= Len(s)) /\ Len(s) + i - Len(s) = i
      BY <1>5, <1>6
    <3>2. u[Len(s) + i] = t[i]
      BY <3>1, <1>6
    <3> QED BY <3>1, <3>2, <1>6 DEF ToSet
  <2>3. ASSUME NEW i \in 1 .. Len(u) PROVE u[i] \in ToSet(s) \cup ToSet(t)
    <3>1. CASE i <= Len(s)
      BY <3>1, <1>5, <1>6, <1>7
    <3>2. CASE ~(i <= Len(s))
      <4>1. i - Len(s) \in 1 .. Len(t) /\ u[i] = t[i - Len(s)]
        BY <3>2, <1>5, <1>6
      <4> QED BY <4>1, <1>7
    <3> QED BY <3>1, <3>2
  <2> QED BY <2>1, <2>2, <2>3, <1>5, <1>6 DEF ToSet
\* Every key listed before comes before the page's token, and no key ahead does.
<1>9. ASSUME NEW k \in ahead PROVE k \in S /\ k \in Seq(Nat) /\ ~Comes(k, token.key, r)
  BY <1>4, KeysAssumption DEF AheadIn, Listed
<1>10. ASSUME NEW k \in ahead, NEW i \in 1 .. Len(s) PROVE Comes(s[i], k, r)
  <2>1. Comes(s[i], token.key, r) /\ s[i] \in Seq(Nat)
    BY <1>1, <1>7
  <2>2. k \in Seq(Nat) /\ ~Comes(k, token.key, r)
    BY <1>9
  <2> HIDE DEF r, ahead
  <2>3. k = token.key \/ Comes(token.key, k, r)
    BY <2>2, <1>4, ComesIsOrder
  <2> QED BY <2>1, <2>2, <2>3, <1>4, ComesIsOrder
<1> HIDE DEF r, ahead
<1>11. ASSUME NEW i \in 1 .. Len(u), NEW j \in 1 .. Len(u), i < j
       PROVE  Comes(u[i], u[j], r)
  <2>1. CASE j <= Len(s)
    <3>1. i \in 1 .. Len(s) /\ j \in 1 .. Len(s) /\ u[i] = s[i] /\ u[j] = s[j]
      BY <2>1, <1>5, <1>6, <1>11
    <3> QED BY <3>1, <1>1, <1>11
  <2>2. CASE i <= Len(s) /\ ~(j <= Len(s))
    <3>1. /\ i \in 1 .. Len(s) /\ u[i] = s[i]
          /\ j - Len(s) \in 1 .. Len(t) /\ u[j] = t[j - Len(s)]
      BY <2>2, <1>5, <1>6
    <3> QED BY <3>1, <1>7, <1>10
  <2>3. CASE ~(i <= Len(s))
    <3>1. /\ i - Len(s) \in 1 .. Len(t) /\ u[i] = t[i - Len(s)]
          /\ j - Len(s) \in 1 .. Len(t) /\ u[j] = t[j - Len(s)]
          /\ i - Len(s) < j - Len(s)
      BY <2>3, <1>5, <1>6, <1>11
    <3>2. \A x, y \in 1 .. Len(t) : x < y => Comes(t[x], t[y], r)
      BY <1>2 DEF InOrder
    <3> QED BY <3>1, <3>2
  <2> QED BY <2>1, <2>2, <2>3, <1>11
<1>12. ASSUME onward # NoToken, NEW i \in 1 .. Len(u)
       PROVE  Comes(u[i], onward.key, r)
  <2>1. onward.key \in rest /\ onward.key \in ahead
    BY <1>3, <1>12
  <2>2. CASE i <= Len(s)
    <3>1. i \in 1 .. Len(s) /\ u[i] = s[i]
      BY <2>2, <1>5, <1>6
    <3> QED BY <3>1, <2>1, <1>10
  <2>3. CASE ~(i <= Len(s))
    <3>1. i - Len(s) \in 1 .. Len(t) /\ u[i] = t[i - Len(s)]
      BY <2>3, <1>5, <1>6
    <3> QED BY <3>1, <2>1, <1>2, <1>7
  <2> QED BY <2>2, <2>3
<1>13. u = <<>> <=> Len(u) = 0
  BY <1>6, EmptySeq
<1>14. Limit = 0 => u = <<>>
  <2> SUFFICES ASSUME Limit = 0 PROVE Len(u) = 0
    BY <1>13
  <2> QED BY <1>1, <1>2, <1>5, <1>6
<1>15. onward # NoToken /\ u = <<>> => Limit = 0
  <2> SUFFICES ASSUME Len(u) = 0 PROVE Limit = 0
    BY <1>13
  <2> QED BY <1>1, <1>5, <1>6
<1>16. ASSUME NEW k \in T, IsPrefix(ListPrefix, k), u # <<>>, ~Comes(k, u[1], r),
              onward = NoToken \/ Comes(k, onward.key, r)
       PROVE  k \in ToSet(u)
  <2>1. s # <<>>
    <3> SUFFICES ASSUME s = <<>> PROVE FALSE
      OBVIOUS
    <3>1. Limit = 0
      BY <1>1
    <3> QED BY <3>1, <1>14, <1>16
  <2>2. u[1] = s[1]
    BY <2>1, <1>5, <1>6
  <2>3. CASE Comes(k, token.key, r)
    BY <2>1, <2>2, <2>3, <1>1, <1>8, <1>16
  <2>4. CASE ~Comes(k, token.key, r)
    <3>1. k \in ahead
      BY <2>4, <1>4, <1>16 DEF AheadIn, Listed, ahead, r
    <3>2. k \notin rest
      BY <1>3, <1>16
    <3> QED BY <3>1, <3>2, <1>8
  <2> QED BY <2>3, <2>4
<1> QED BY <1>6, <1>11, <1>12, <1>14, <1>15, <1>16 DEF ListedSoFar, r, u

-----------------------------------------------------------------------------
(* The inductive invariant.                                                *)

PageInv ==
    /\ page.keys \in Seq(Keys) /\ page.values = page.keys
    /\ page.next \in Tokens(FALSE) /\ page.prev \in Tokens(TRUE)
    /\ asked \in Tokens(FALSE) \cup Tokens(TRUE)
    /\ view \subseteq Keys
    /\ (Reverses(asked) => KeysApart) => GoesOn(page, asked, view)
    /\ KeysApart => GoesBack(page, asked, view)

SeenInv ==
    /\ steady \subseteq rows
    /\ (Reverses(asked) => KeysApart) => ListedSoFar(seen, page, asked, steady)

Inv == StoreInv /\ PageInv /\ SeenInv

LEMMA InitInv == Init => Inv
<1> SUFFICES ASSUME Init PROVE Inv
  OBVIOUS
<1>1. PICK present \in SUBSET Keys :
          /\ IsFiniteSet(present)
          /\ store = [k \in Neighbours \cup {getFullKey(TableId, p) : p \in present} |->
                         IF k \in Neighbours THEN <<>> ELSE Relative(TableId, <<k>>)[1]]
  BY DEF Init
<1> DEFINE F == {getFullKey(TableId, p) : p \in present}
<1>2. DOMAIN store = Neighbours \cup F
  BY <1>1
<1>3. \A k \in Keys : k \in Seq(Nat) /\ getFullKey(TableId, k) \in Seq(Nat)
  BY KeysAssumption, TableIdAssumption, FullKeyOf
<1>4. StoreInv
  <2>1. IsFiniteSet(F)
    <3>1. [p \in present |-> getFullKey(TableId, p)] \in Surjection(present, F)
      BY DEF Surjection
    <3> HIDE DEF F
    <3> QED BY <3>1, <1>1, FS_Surjection
  <2>2. IsFiniteSet(DOMAIN store)
    <3> HIDE DEF F
    <3> QED BY <1>2, <2>1, NeighboursAssumption, FS_Union
  <2>3. DOMAIN store \subseteq Seq(Nat)
    BY <1>2, <1>3, NeighboursAssumption
  <2>4. DOMAIN store \subseteq Neighbours \cup {getFullKey(TableId, k) : k \in Keys}
    BY <1>2
  <2>5. ASSUME NEW k \in rows PROVE store[getFullKey(TableId, k)] = k
    <3> DEFINE f == getFullKey(TableId, k)
    <3>1. k \in Keys /\ k \in Seq(Nat) /\ f \in DOMAIN store
      BY <1>3 DEF rows
    <3>2. f \notin Neighbours
      BY <3>1, TableIdAssumption, NeighboursAssumption, FullKeyOf
    <3>3. store[f] = Relative(TableId, <<f>>)[1]
      BY <1>1, <3>1, <3>2
    <3>4. Relative(TableId, <<f>>)[1] = SubSeq(f, Len(TableId) + 1, Len(f))
      BY DEF Relative
    <3> QED BY <3>1, <3>3, <3>4, TableIdAssumption, FullKeyOf
  <2> QED BY <2>2, <2>3, <2>4, <2>5 DEF StoreInv, StoreOfStrings
<1>5. /\ page.keys = <<>> /\ page.values = <<>>
      /\ page.next = NoToken /\ page.prev = NoToken
      /\ asked = NoToken /\ view = {} /\ seen = <<>> /\ steady = {}
  BY DEF Init, NoPage
<1>6. /\ AheadIn(view, asked) = {} /\ Listed(view) = {}
      /\ Reverses(asked) = FALSE /\ ToSet(<<>>) = {}
  BY <1>5 DEF AheadIn, Listed, Reverses, ToSet
<1>7. <<>> \in Seq(Keys) /\ <<>> \in Seq({}) /\ Len(<<>>) = 0
  BY EmptySeq
<1>8. /\ Onward(page, asked) = NoToken /\ Backward(page, asked) = NoToken
  BY <1>5, <1>6 DEF Onward, Backward
<1>9. GoesOn(page, asked, view)
  <2>1. InOrder(<<>>, {}, FALSE)
    BY <1>7 DEF InOrder
  <2>2. InOrder(page.keys, ToSet(page.keys), Reverses(asked))
    BY <1>5, <1>6, <2>1
  <2>3. AheadIn(view, asked) \ ToSet(page.keys) = {} /\ ToSet(page.keys) = {}
    BY <1>5, <1>6
  <2>4. IsTokenOfFirst(Onward(page, asked), {}, Reverses(asked))
    BY <1>8 DEF IsTokenOfFirst
  <2>5. Len(page.keys) <= Limit
    BY <1>5, <1>7, LimitAssumption
  <2> QED BY <2>2, <2>3, <2>4, <2>5 DEF GoesOn
<1>10. GoesBack(page, asked, view)
  BY <1>6, <1>8 DEF GoesBack, IsTokenOfFirst
<1>11. PageInv
  BY <1>5, <1>7, <1>9, <1>10, TokensAre DEF PageInv
<1>12. SeenInv
  BY <1>5, <1>7, <1>8 DEF SeenInv, ListedSoFar
<1> QED BY <1>4, <1>11, <1>12 DEF Inv

\* A page that is read is right, and leaves the store alone.
LEMMA ReadKeepsInv ==
    ASSUME Inv, NEW token \in Tokens(FALSE) \cup Tokens(TRUE),
           page' = ListPage(token), asked' = token, view' = rows, UNCHANGED store
    PROVE  /\ StoreInv' /\ PageInv'
           /\ (Reverses(token) => KeysApart) => GoesOn(page', token, rows)
           /\ rows \subseteq Keys /\ rows' = rows /\ page'.keys \in Seq(Keys)
<1>1. rows' = rows /\ rows \subseteq Keys
  BY RowsUnder DEF rows, Inv
<1>2. IsPageFor(page', token)
  BY ListPageIsRight DEF Inv
<1>3. StoreInv'
  BY <1>1 DEF Inv, StoreInv, StoreOfStrings
<1>4. PageInv'
  BY <1>1, <1>2 DEF PageInv, IsPageFor
<1> QED BY <1>1, <1>2, <1>3, <1>4 DEF IsPageFor

LEMMA RestartKeepsInv ==
    ASSUME Inv, NEW token \in Tokens(FALSE) \cup Tokens(TRUE), Restart(token)
    PROVE  Inv'
<1>1. /\ page' = ListPage(token) /\ asked' = token /\ view' = rows
      /\ seen' = page'.keys /\ steady' = rows /\ UNCHANGED store
  BY DEF Restart
<1>2. /\ StoreInv' /\ PageInv'
      /\ (Reverses(token) => KeysApart) => GoesOn(page', token, rows)
      /\ rows \subseteq Keys /\ rows' = rows /\ page'.keys \in Seq(Keys)
  BY <1>1, ReadKeepsInv
<1>3. (Reverses(token) => KeysApart) => ListedSoFar(page'.keys, page', token, rows)
  BY <1>2, ListingBegins
<1> QED BY <1>1, <1>2, <1>3 DEF Inv, SeenInv

\* A page after another in the same direction.
LEMMA GoingOnKeepsInv ==
    ASSUME Inv, NEW token, token = Onward(page, asked), token # NoToken,
           page' = ListPage(token), asked' = token, view' = rows,
           seen' = seen \o page'.keys, UNCHANGED <<store, steady>>
    PROVE  Inv'
<1>1. /\ token \in Tokens(FALSE) \cup Tokens(TRUE)
      /\ Reverses(token) = Reverses(asked)
      /\ asked \in Tokens(FALSE) \cup Tokens(TRUE)
  <2>1. /\ asked \in Tokens(FALSE) \cup Tokens(TRUE)
        /\ page.next \in Tokens(FALSE) /\ page.prev \in Tokens(TRUE)
    BY DEF Inv, PageInv
  <2>2. Reverses(asked) \in BOOLEAN
    BY <2>1, TokensAre
  <2>3. CASE Reverses(asked) = TRUE
    <3>1. token = page.prev
      BY <2>3 DEF Onward
    <3>2. Reverses(token) = TRUE
      BY <3>1, <2>1, TokensAre
    <3> QED BY <2>1, <2>3, <3>1, <3>2
  <2>4. CASE Reverses(asked) = FALSE
    <3>1. token = page.next
      BY <2>4 DEF Onward
    <3>2. Reverses(token) = FALSE
      BY <3>1, <2>1, TokensAre
    <3> QED BY <2>1, <2>4, <3>1, <3>2
  <2> QED BY <2>2, <2>3, <2>4
<1>2. /\ StoreInv' /\ PageInv'
      /\ (Reverses(token) => KeysApart) => GoesOn(page', token, rows)
      /\ rows \subseteq Keys /\ rows' = rows /\ page'.keys \in Seq(Keys)
  BY <1>1, ReadKeepsInv
<1>3. /\ steady \subseteq rows
      /\ (Reverses(asked) => KeysApart) => ListedSoFar(seen, page, asked, steady)
  BY DEF Inv, SeenInv
<1>4. (Reverses(token) => KeysApart)
          => ListedSoFar(seen \o page'.keys, page', token, steady)
  BY <1>1, <1>2, <1>3, ListingGoesOn
<1> QED BY <1>2, <1>3, <1>4 DEF Inv, SeenInv

LEMMA SetKeepsInv ==
    ASSUME Inv, NEW k \in Keys, Set(k)
    PROVE  Inv'
<1> DEFINE f == getFullKey(TableId, k)
<1>1. /\ k \notin rows /\ store' = With(store, f, k)
      /\ UNCHANGED <<page, asked, view, seen, steady>>
  BY DEF Set, set
<1>2. /\ DOMAIN store' = DOMAIN store \cup {f}
      /\ \A x \in DOMAIN store' : store'[x] = IF x = f THEN k ELSE store[x]
  BY <1>1 DEF With
<1>3. k \in Seq(Nat) /\ f \in Seq(Nat)
  BY KeysAssumption, TableIdAssumption, FullKeyOf
<1>4. rows' = rows \cup {k}
  <2>1. ASSUME NEW l \in Keys PROVE getFullKey(TableId, l) = f => l = k
    BY <1>3, KeysAssumption, TableIdAssumption, FullKeyOf
  <2> QED BY <1>2, <2>1 DEF rows
<1>5. StoreInv'
  <2>1. IsFiniteSet(DOMAIN store')
    BY <1>2, FS_AddElement DEF Inv, StoreInv, StoreOfStrings
  <2>2. DOMAIN store' \subseteq Seq(Nat)
    BY <1>2, <1>3 DEF Inv, StoreInv, StoreOfStrings
  <2>3. DOMAIN store' \subseteq Neighbours \cup {getFullKey(TableId, l) : l \in Keys}
    BY <1>2 DEF Inv, StoreInv
  <2>4. ASSUME NEW l \in rows' PROVE store'[getFullKey(TableId, l)] = l
    <3>1. CASE l = k
      BY <3>1, <1>2
    <3>2. CASE l # k
      <4>1. l \in rows /\ l \in Seq(Nat)
        BY <3>2, <1>4, KeysAssumption DEF rows
      <4>2. getFullKey(TableId, l) # f
        BY <4>1, <3>2, <1>3, TableIdAssumption, FullKeyOf
      <4>3. getFullKey(TableId, l) \in DOMAIN store
        BY <4>1 DEF rows
      <4> QED BY <4>1, <4>2, <4>3, <1>2 DEF Inv, StoreInv
    <3> QED BY <3>1, <3>2
  <2> QED BY <2>1, <2>2, <2>3, <2>4 DEF StoreInv, StoreOfStrings
<1>6. PageInv'
  BY <1>1 DEF Inv, PageInv
<1>7. SeenInv'
  BY <1>1, <1>4 DEF Inv, SeenInv
<1> QED BY <1>5, <1>6, <1>7 DEF Inv

LEMMA DeleteKeepsInv ==
    ASSUME Inv, NEW k \in Keys, Delete(k)
    PROVE  Inv'
<1> DEFINE f == getFullKey(TableId, k)
<1>1. /\ k \in rows /\ store' = Without(store, {f}) /\ steady' = steady \ {k}
      /\ UNCHANGED <<page, asked, view, seen>>
  BY DEF Delete, delete
<1>2. /\ DOMAIN store' = DOMAIN store \ {f}
      /\ \A x \in DOMAIN store' : store'[x] = store[x]
  BY <1>1 DEF Without
<1>3. k \in Seq(Nat) /\ f \in Seq(Nat)
  BY KeysAssumption, TableIdAssumption, FullKeyOf
<1>4. rows' = rows \ {k}
  <2>1. ASSUME NEW l \in Keys PROVE getFullKey(TableId, l) = f => l = k
    BY <1>3, KeysAssumption, TableIdAssumption, FullKeyOf
  <2> QED BY <1>2, <2>1 DEF rows
<1>5. StoreInv'
  <2>1. IsFiniteSet(DOMAIN store')
    BY <1>2, FS_Subset DEF Inv, StoreInv, StoreOfStrings
  <2>2. ASSUME NEW l \in rows' PROVE store'[getFullKey(TableId, l)] = l
    <3>1. l \in rows /\ getFullKey(TableId, l) \in DOMAIN store'
      BY <1>4 DEF rows
    <3> QED BY <3>1, <1>2 DEF Inv, StoreInv
  <2> QED BY <2>1, <2>2, <1>2 DEF Inv, StoreInv, StoreOfStrings
<1>6. PageInv'
  BY <1>1 DEF Inv, PageInv
<1>7. SeenInv'
  <2>1. (Reverses(asked) => KeysApart) => ListedSoFar(seen, page, asked, steady')
    BY <1>1 DEF Inv, SeenInv, ListedSoFar
  <2> QED BY <1>1, <1>4, <2>1 DEF Inv, SeenInv
<1> QED BY <1>5, <1>6, <1>7 DEF Inv

LEMMA NextKeepsInv ==
    ASSUME Inv, [Next]_vars
    PROVE  Inv'
<1>1. /\ asked \in Tokens(FALSE) \cup Tokens(TRUE)
      /\ page.next \in Tokens(FALSE) /\ page.prev \in Tokens(TRUE)
  BY DEF Inv, PageInv
<1>2. CASE List
  <2>1. NoToken \in Tokens(FALSE) \cup Tokens(TRUE)
    BY DEF Tokens
  <2> QED BY <1>2, <2>1, RestartKeepsInv DEF List
<1>3. CASE NextPage
  <2>1. CASE asked = NoToken \/ ~asked.reverse
    <3>1. Reverses(asked) = FALSE
      BY <1>1, <2>1, TokensAre DEF Reverses
    <3>2. page.next = Onward(page, asked)
      BY <3>1 DEF Onward
    <3> QED BY <1>3, <2>1, <3>2, GoingOnKeepsInv DEF NextPage
  <2>2. CASE ~(asked = NoToken \/ ~asked.reverse)
    <3>1. Restart(page.next)
      BY <1>3, <2>2 DEF NextPage, Restart
    <3> QED BY <3>1, <1>1, RestartKeepsInv
  <2> QED BY <2>1, <2>2
<1>4. CASE PreviousPage
  <2>1. CASE asked # NoToken /\ asked.reverse
    <3>1. Reverses(asked) = TRUE
      BY <1>1, <2>1, TokensAre DEF Reverses
    <3>2. page.prev = Onward(page, asked)
      BY <3>1 DEF Onward
    <3> QED BY <1>4, <2>1, <3>2, GoingOnKeepsInv DEF PreviousPage
  <2>2. CASE ~(asked # NoToken /\ asked.reverse)
    BY <1>1, <1>4, <2>2, RestartKeepsInv DEF PreviousPage
  <2> QED BY <2>1, <2>2
<1>5. CASE \E k \in Keys : Set(k) \/ Delete(k)
  BY <1>5, SetKeepsInv, DeleteKeepsInv
<1>6. CASE UNCHANGED vars
  <2>1. rows' = rows
    BY <1>6 DEF vars, rows
  <2> QED BY <1>6, <2>1 DEF vars, Inv, StoreInv, StoreOfStrings, PageInv, SeenInv
<1> QED BY <1>2, <1>3, <1>4, <1>5, <1>6 DEF Next

LEMMA Invariant == Spec => []Inv
<1>1. Init => Inv
  BY InitInv
<1>2. Inv /\ [Next]_vars => Inv'
  BY NextKeepsInv
<1> QED BY <1>1, <1>2, PTL DEF Spec

-----------------------------------------------------------------------------
(* The theorems.                                                           *)

\* The direction of the last page.
LEMMA Direction ==
    ASSUME Inv
    PROVE  /\ Forward <=> Reverses(asked) = FALSE
           /\ ~Forward <=> Reverses(asked) = TRUE
           /\ \A a, b : Before(a, b) <=> Comes(a, b, Reverses(asked))
<1>1. asked \in Tokens(FALSE) \cup Tokens(TRUE)
  BY DEF Inv, PageInv
<1>2. CASE asked = NoToken
  BY <1>2 DEF Forward, Reverses, Before, Comes
<1>3. CASE asked # NoToken
  <2>1. Reverses(asked) = asked.reverse /\ asked.reverse \in BOOLEAN
    BY <1>1, <1>3, TokensAre DEF Reverses
  <2> QED BY <1>3, <2>1 DEF Forward, Before, Comes
<1> QED BY <1>2, <1>3

\* Over keys none of which extends another, every page is exact, forth and back,
\* whatever others set and delete meanwhile (listPrefixedPaginated).
THEOREM PagesAreExact == Spec => [](KeysApart => PageIsExact)
<1>1. Inv => (KeysApart => PageIsExact)
  <2> SUFFICES ASSUME Inv, KeysApart PROVE PageIsExact
    OBVIOUS
  <2> DEFINE r == Reverses(asked)
             ahead == AheadIn(view, asked)
             taken == ToSet(page.keys)
             rest == ahead \ taken
             behind == Matching \ Ahead
             onward == IF Forward THEN page.next ELSE page.prev
             back == IF Forward THEN page.prev ELSE page.next
  <2>1. /\ asked \in Tokens(FALSE) \cup Tokens(TRUE)
        /\ page.keys \in Seq(Keys) /\ page.values = page.keys
        /\ view \subseteq Keys
        /\ GoesOn(page, asked, view) /\ GoesBack(page, asked, view)
    BY DEF Inv, PageInv
  <2>2. r \in BOOLEAN
    BY <2>1, TokensAre
  <2>3. /\ Forward <=> r = FALSE
        /\ ~Forward <=> r = TRUE
        /\ \A a, b : Before(a, b) <=> Comes(a, b, r)
    BY Direction
  <2>4. Matching = Listed(view) /\ Ahead = ahead
    BY <2>3 DEF Matching, Listed, Ahead, AheadIn
  <2>5. onward = Onward(page, asked) /\ back = Backward(page, asked)
    BY <2>2, <2>3 DEF Onward, Backward
  <2>6. /\ taken \subseteq ahead /\ InOrder(page.keys, taken, r)
        /\ \A k \in rest, t \in taken : Comes(t, k, r)
        /\ rest # {} => Len(page.keys) = Limit
    BY <2>1 DEF GoesOn
  <2>7. /\ onward = NoToken <=> rest = {}
        /\ onward # NoToken => /\ onward.key \in rest
                               /\ \A j \in rest : ~Comes(j, onward.key, r)
    BY <2>1, <2>5, OnwardIsFirst
  <2>8. IsFirstOf(onward, rest)
    BY <2>3, <2>7 DEF IsFirstOf
  <2>9. IsLastOf(back, behind)
    <3>1. IsTokenOfFirst(back, behind, ~r)
      BY <2>1, <2>4, <2>5 DEF GoesBack
    <3>2. CASE behind = {}
      BY <3>1, <3>2 DEF IsTokenOfFirst, IsLastOf
    <3>3. CASE behind # {}
      <4>1. PICK k \in behind : back = Token(k, ~r) /\ \A j \in behind : ~Comes(j, k, ~r)
        BY <3>1, <3>3 DEF IsTokenOfFirst
      <4>2. k \in Listed(Keys)
        BY <2>1, <2>4 DEF Listed
      <4>3. PICK flag \in BOOLEAN : back = Token(k, flag)
        <5>1. CASE r = TRUE
          <6>1. (~r) = FALSE
            BY <5>1
          <6>2. back = Token(k, FALSE)
            BY <4>1, <6>1
          <6> QED BY <6>2
        <5>2. CASE r = FALSE
          <6>1. (~r) = TRUE
            BY <5>2
          <6>2. back = Token(k, TRUE)
            BY <4>1, <6>1
          <6> QED BY <6>2
        <5> QED BY <5>1, <5>2, <2>2
      <4>4. back # NoToken /\ back.key = k
        BY <4>2, <4>3, TokensAre DEF Token
      <4>5. \A j \in behind : ~Comes(k, j, r)
        BY <4>1, <2>2 DEF Comes
      <4> QED BY <3>3, <4>4, <4>5, <2>3 DEF IsLastOf
    <3> QED BY <3>2, <3>3
  <2>10. \A i, j \in DOMAIN page.keys : i < j => Before(page.keys[i], page.keys[j])
    <3>1. DOMAIN page.keys = 1 .. Len(page.keys)
      BY <2>1, LenProperties
    <3> QED BY <3>1, <2>3, <2>6 DEF InOrder
  <2> QED BY <2>1, <2>3, <2>4, <2>6, <2>8, <2>9, <2>10 DEF PageIsExact
<1> QED BY <1>1, Invariant, PTL

\* What has been listed is in order, and no lasting row is left out of it.
LEMMA ListedIsComplete ==
    ASSUME Inv, ListedSoFar(seen, page, asked, steady)
    PROVE  Complete(Onward(page, asked))
<1> DEFINE r == Reverses(asked)
           onward == Onward(page, asked)
<1>1. /\ seen \in Seq(Keys)
      /\ \A i, j \in 1 .. Len(seen) : i < j => Comes(seen[i], seen[j], r)
      /\ \A k \in steady :
             /\ IsPrefix(ListPrefix, k) /\ seen # <<>> /\ ~Comes(k, seen[1], r)
             /\ onward = NoToken \/ Comes(k, onward.key, r)
             => k \in ToSet(seen)
  BY DEF ListedSoFar
<1>2. \A a, b : Before(a, b) <=> Comes(a, b, r)
  BY Direction
<1>3. DOMAIN seen = 1 .. Len(seen)
  BY <1>1, LenProperties
<1> HIDE DEF r, onward
<1>4. Complete(onward)
  BY <1>1, <1>2, <1>3 DEF Complete
<1> QED BY <1>4 DEF onward

\* Listing forth, no row is listed twice or out of order, and none that was there
\* all the time is left out, whether or not keys extend one another.
THEOREM ListingForth == Spec => []ForthIsComplete
<1>1. ASSUME Inv PROVE ForthIsComplete
  <2> SUFFICES ASSUME Forward PROVE Complete(page.next)
    BY DEF ForthIsComplete
  <2>1. Reverses(asked) = FALSE
    BY <1>1, Direction
  <2>2. ListedSoFar(seen, page, asked, steady)
    BY <1>1, <2>1 DEF Inv, SeenInv
  <2>3. Onward(page, asked) = page.next
    BY <2>1 DEF Onward
  <2> QED BY <1>1, <2>2, <2>3, ListedIsComplete
<1> QED BY <1>1, Invariant, PTL

\* Listing back, the same, over keys none of which extends another.
THEOREM ListingBack == Spec => [](KeysApart => BackIsComplete)
<1>1. Inv => (KeysApart => BackIsComplete)
  <2> SUFFICES ASSUME Inv, KeysApart, ~Forward PROVE Complete(page.prev)
    BY DEF BackIsComplete
  <2>1. Reverses(asked) = TRUE
    BY Direction
  <2>2. ListedSoFar(seen, page, asked, steady)
    BY DEF Inv, SeenInv
  <2>3. Onward(page, asked) = page.prev
    BY <2>1 DEF Onward
  <2> QED BY <2>2, <2>3, ListedIsComplete
<1> QED BY <1>1, Invariant, PTL
=============================================================================
