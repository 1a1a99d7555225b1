---------------------------- MODULE TablesProofs ----------------------------
(***************************************************************************)
(* Lemmas about the operators of Tables: the order of byte strings, what a *)
(* scan of the store returns and what a page holds, for every store.       *)
(***************************************************************************)
EXTENDS Tables, FiniteSetTheorems, SequenceTheorems, WellFoundedInduction, TLAPS

-----------------------------------------------------------------------------
(* Naturals.                                                               *)

\* A set of naturals has a least member.
LEMMA LeastNatural ==
    ASSUME NEW T, T \subseteq Nat, T # {}
    PROVE  \E x \in T : \A y \in T : x <= y
<1> DEFINE R == {p \in Nat \X Nat : p[1] < p[2]}
<1>1. IsWellFoundedOn(R, Nat)
  BY NatLessThanWellFounded DEF OpToRel
<1>2. PICK x \in T : \A y \in T : <<y, x>> \notin R
  <2> HIDE DEF R
  <2> QED BY <1>1, WFMin
<1>3. ASSUME NEW y \in T, ~(x <= y) PROVE FALSE
  <2>1. <<y, x>> \in Nat \X Nat /\ <<y, x>>[1] < <<y, x>>[2]
    BY <1>3
  <2> QED BY <2>1, <1>2
<1> QED BY <1>3

-----------------------------------------------------------------------------
(* Concatenations and prefixes.                                            *)

\* A prefix, element by element.
LEMMA PrefixElements ==
    ASSUME NEW s \in Seq(Nat), NEW k \in Seq(Nat)
    PROVE  IsPrefix(s, k) <=> /\ Len(s) <= Len(k)
                              /\ \A n \in 1 .. Len(s) : s[n] = k[n]
<1> SUFFICES ASSUME Len(s) <= Len(k)
             PROVE  IsPrefix(s, k) <=> \A n \in 1 .. Len(s) : s[n] = k[n]
  BY DEF IsPrefix
<1>1. SubSeq(s, 1, Len(s)) = s
  BY SubSeqFull
<1>2. \A i \in 1 .. Len(s) : k[i] \in Nat
  BY ElementOfSeq
<1>3. /\ SubSeq(k, 1, Len(s)) \in Seq(Nat)
      /\ Len(SubSeq(k, 1, Len(s))) = Len(s)
      /\ \A i \in 1 .. Len(s) : SubSeq(k, 1, Len(s))[i] = k[i]
  BY <1>2, SubSeqProperties, LenProperties
<1>4. IsPrefix(s, k) <=> s = SubSeq(k, 1, Len(s))
  BY <1>1 DEF IsPrefix
<1>5. s = SubSeq(k, 1, Len(s)) <=> \A n \in 1 .. Len(s) : s[n] = k[n]
  BY <1>3, SeqEqual
<1> QED BY <1>4, <1>5

\* Two rows of keys of one length are the same only for the same key and item.
LEMMA RowsDiffer ==
    ASSUME NEW a \in Seq(Nat), NEW b \in Seq(Nat), Len(a) = Len(b),
           NEW i \in Seq(Nat), NEW j \in Seq(Nat), a \o i = b \o j
    PROVE  a = b /\ i = j
<1>1. ASSUME NEW n \in 1 .. Len(a) PROVE a[n] = b[n]
  <2>1. (a \o i)[n] = a[n] /\ (b \o j)[n] = b[n]
    BY ConcatProperties, LenProperties
  <2> QED BY <2>1
<1>2. a = b
  BY <1>1, SeqEqual
<1> QED BY <1>2, ConcatSimplifications

\* A table's full key is a prefix of another's exactly as their keys are; and of
\* two sequences of one length, one is a prefix of an extension of the other
\* only if they are the same.
LEMMA PrefixOfExtension ==
    ASSUME NEW t \in Seq(Nat), NEW a \in Seq(Nat), NEW b \in Seq(Nat),
           NEW i \in Seq(Nat), Len(a) = Len(b)
    PROVE  IsPrefix(t \o a, t \o (b \o i)) <=> a = b
<1> DEFINE s == t \o a
           k == t \o (b \o i)
<1>1. /\ s \in Seq(Nat) /\ Len(s) = Len(t) + Len(a)
      /\ \A n \in 1 .. Len(t) : s[n] = t[n]
      /\ \A n \in 1 .. Len(a) : s[Len(t) + n] = a[n]
  BY ConcatProperties, LenProperties
<1>2. /\ b \o i \in Seq(Nat) /\ Len(b \o i) = Len(b) + Len(i)
      /\ \A n \in 1 .. Len(b) : (b \o i)[n] = b[n]
  BY ConcatProperties, LenProperties
<1>3. /\ k \in Seq(Nat) /\ Len(k) = Len(t) + Len(b) + Len(i)
      /\ \A n \in 1 .. Len(t) : k[n] = t[n]
      /\ \A n \in 1 .. Len(b) : k[Len(t) + n] = b[n]
  BY <1>2, ConcatProperties, LenProperties
<1> HIDE DEF s, k
<1>4. Len(t) \in Nat /\ Len(a) \in Nat /\ Len(i) \in Nat
  BY LenProperties
<1>5. IsPrefix(s, k) => a = b
  <2> SUFFICES ASSUME IsPrefix(s, k) PROVE a = b
    OBVIOUS
  <2>1. \A n \in 1 .. Len(s) : s[n] = k[n]
    BY <1>1, <1>3, PrefixElements
  <2>2. ASSUME NEW n \in 1 .. Len(a) PROVE a[n] = b[n]
    <3>1. Len(t) + n \in 1 .. Len(s)
      BY <1>1, <1>4
    <3> QED BY <3>1, <2>1, <1>1, <1>3
  <2> QED BY <2>2, SeqEqual
<1>6. a = b => IsPrefix(s, k)
  <2> SUFFICES ASSUME a = b PROVE IsPrefix(s, k)
    OBVIOUS
  <2>1. ASSUME NEW n \in 1 .. Len(s) PROVE s[n] = k[n]
    <3>1. CASE n <= Len(t)
      <4>1. n \in 1 .. Len(t)
        BY <3>1, <1>4
      <4> QED BY <4>1, <1>1, <1>3
    <3>2. CASE n > Len(t)
      <4>1. n = Len(t) + (n - Len(t)) /\ n - Len(t) \in 1 .. Len(a)
        BY <3>2, <1>1, <1>4
      <4> QED BY <4>1, <1>1, <1>3
    <3> QED BY <3>1, <3>2, <1>4
  <2>2. Len(s) <= Len(k)
    BY <1>1, <1>3, <1>4
  <2> QED BY <2>1, <2>2, <1>1, <1>3, PrefixElements
<1> QED BY <1>5, <1>6 DEF s, k

\* What extends a full key extends the table's id.
LEMMA FullKeyBegins ==
    ASSUME NEW t \in Seq(Nat), NEW a \in Seq(Nat), NEW k \in Seq(Nat),
           IsPrefix(t \o a, k)
    PROVE  IsPrefix(t, k)
<1>1. /\ t \o a \in Seq(Nat) /\ Len(t \o a) = Len(t) + Len(a)
      /\ \A n \in 1 .. Len(t) : (t \o a)[n] = t[n]
      /\ Len(t) \in Nat /\ Len(a) \in Nat /\ Len(k) \in Nat
  BY ConcatProperties, LenProperties
<1>2. /\ Len(t \o a) <= Len(k)
      /\ \A n \in 1 .. Len(t \o a) : (t \o a)[n] = k[n]
  BY <1>1, PrefixElements
<1>3. ASSUME NEW n \in 1 .. Len(t) PROVE t[n] = k[n]
  <2>1. n \in 1 .. Len(t \o a)
    BY <1>1
  <2> QED BY <2>1, <1>1, <1>2
<1> QED BY <1>1, <1>2, <1>3, PrefixElements

\* Of two sequences of one length, one begins an extension of the other only if
\* they are the same.
LEMMA PrefixIsSame ==
    ASSUME NEW a \in Seq(Nat), NEW b \in Seq(Nat), NEW i \in Seq(Nat), Len(a) = Len(b)
    PROVE  IsPrefix(a, b \o i) <=> a = b
<1>1. <<>> \in Seq(Nat) /\ b \o i \in Seq(Nat)
  BY EmptySeq, ConcatProperties
<1>2. <<>> \o a = a /\ <<>> \o (b \o i) = b \o i
  BY <1>1, ConcatEmptySeq
<1>3. IsPrefix(<<>> \o a, <<>> \o (b \o i)) <=> a = b
  BY <1>1, PrefixOfExtension
<1> QED BY <1>2, <1>3

-----------------------------------------------------------------------------
(* The order of byte strings.                                              *)

\* Two strings differ first at a place where one of them ends or their bytes do.
LEMMA FirstDifference ==
    ASSUME NEW a \in Seq(Nat), NEW b \in Seq(Nat), a # b
    PROVE  \E i \in Nat \ {0} :
               /\ i <= Len(a) + 1 /\ i <= Len(b) + 1
               /\ \A j \in 1 .. i - 1 : a[j] = b[j]
               /\ \/ i <= Len(a) /\ i <= Len(b) /\ a[i] # b[i]
                  \/ i = Len(a) + 1 /\ i <= Len(b)
                  \/ i = Len(b) + 1 /\ i <= Len(a)
<1> DEFINE T == {i \in Nat \ {0} : ~(i <= Len(a) /\ i <= Len(b) /\ a[i] = b[i])}
<1>1. Len(a) \in Nat /\ Len(b) \in Nat
  BY LenProperties
<1>2. T \subseteq Nat /\ Len(a) + 1 \in T /\ Len(b) + 1 \in T
  BY <1>1
<1>3. PICK i \in T : \A y \in T : i <= y
  <2> HIDE DEF T
  <2> QED BY <1>2, LeastNatural
<1>4. i <= Len(a) + 1 /\ i <= Len(b) + 1
  BY <1>2, <1>3
<1>5. ASSUME NEW j \in 1 .. i - 1 PROVE a[j] = b[j]
  BY <1>1, <1>3, <1>4
<1>6. ~(i = Len(a) + 1 /\ i = Len(b) + 1)
  BY <1>1, <1>5, SeqEqual
<1> QED BY <1>1, <1>3, <1>4, <1>5, <1>6

\* Of two strings one is below the other.
LEMMA BelowTotal ==
    ASSUME NEW a \in Seq(Nat), NEW b \in Seq(Nat), a # b
    PROVE  Below(a, b) \/ Below(b, a)
<1>1. PICK i \in Nat \ {0} :
               /\ i <= Len(a) + 1 /\ i <= Len(b) + 1
               /\ \A j \in 1 .. i - 1 : a[j] = b[j]
               /\ \/ i <= Len(a) /\ i <= Len(b) /\ a[i] # b[i]
                  \/ i = Len(a) + 1 /\ i <= Len(b)
                  \/ i = Len(b) + 1 /\ i <= Len(a)
  BY FirstDifference
<1>2. Len(a) \in Nat /\ Len(b) \in Nat
  BY LenProperties
<1>3. CASE i <= Len(a) /\ i <= Len(b) /\ a[i] # b[i]
  <2>1. a[i] \in Nat /\ b[i] \in Nat
    BY <1>3, <1>2, ElementOfSeq
  <2>2. CASE a[i] < b[i]
    <3>1. i \in 1 .. Len(b) /\ \A j \in 1 .. i - 1 : j <= Len(a) /\ a[j] = b[j]
      BY <1>1, <1>2, <1>3
    <3> QED BY <3>1, <2>2 DEF Below
  <2>3. CASE b[i] < a[i]
    <3>1. i \in 1 .. Len(a) /\ \A j \in 1 .. i - 1 : j <= Len(b) /\ b[j] = a[j]
      BY <1>1, <1>2, <1>3
    <3> QED BY <3>1, <2>3 DEF Below
  <2> QED BY <2>1, <2>2, <2>3, <1>3
<1>4. CASE i = Len(a) + 1 /\ i <= Len(b)
  <2>1. /\ i \in 1 .. Len(b) /\ Len(a) < i
        /\ \A j \in 1 .. i - 1 : j <= Len(a) /\ a[j] = b[j]
    BY <1>1, <1>2, <1>4
  <2> QED BY <2>1 DEF Below
<1>5. CASE i = Len(b) + 1 /\ i <= Len(a)
  <2>1. /\ i \in 1 .. Len(a) /\ Len(b) < i
        /\ \A j \in 1 .. i - 1 : j <= Len(b) /\ b[j] = a[j]
    BY <1>1, <1>2, <1>5
  <2> QED BY <2>1 DEF Below
<1> QED BY <1>1, <1>3, <1>4, <1>5

\* No string is below itself.
LEMMA BelowIrreflexive ==
    ASSUME NEW a \in Seq(Nat)
    PROVE  ~Below(a, a)
<1> SUFFICES ASSUME NEW i \in 1 .. Len(a), Len(a) < i \/ a[i] < a[i]
             PROVE  FALSE
  BY DEF Below
<1> QED BY LenProperties, ElementOfSeq

\* A string below one that is below a third is below the third.
LEMMA BelowTransitive ==
    ASSUME NEW a \in Seq(Nat), NEW b \in Seq(Nat), NEW c \in Seq(Nat),
           Below(a, b), Below(b, c)
    PROVE  Below(a, c)
<1>1. PICK i \in 1 .. Len(b) :
          /\ \A j \in 1 .. i - 1 : j <= Len(a) /\ a[j] = b[j]
          /\ Len(a) < i \/ a[i] < b[i]
  BY DEF Below
<1>2. PICK k \in 1 .. Len(c) :
          /\ \A j \in 1 .. k - 1 : j <= Len(b) /\ b[j] = c[j]
          /\ Len(b) < k \/ b[k] < c[k]
  BY DEF Below
<1>3. /\ Len(a) \in Nat /\ Len(b) \in Nat /\ Len(c) \in Nat
      /\ \A j \in 1 .. Len(a) : a[j] \in Nat
      /\ \A j \in 1 .. Len(b) : b[j] \in Nat
      /\ \A j \in 1 .. Len(c) : c[j] \in Nat
  BY LenProperties, ElementOfSeq
<1>4. CASE i < k
  <2>1. /\ i \in 1 .. Len(c) /\ b[i] = c[i]
        /\ \A j \in 1 .. i - 1 : j <= Len(a) /\ a[j] = c[j]
    BY <1>1, <1>2, <1>3, <1>4
  <2> QED BY <2>1, <1>1 DEF Below
<1>5. CASE k <= i
  <2>1. /\ \A j \in 1 .. k - 1 : j <= Len(a) /\ a[j] = c[j]
        /\ b[k] < c[k]
    BY <1>1, <1>2, <1>3, <1>5
  <2>2. Len(a) < k \/ a[k] < c[k]
    <3>1. CASE k = i
      <4>1. CASE Len(a) < k
        BY <4>1
      <4>2. CASE ~(Len(a) < k)
        <5>1. a[k] < b[k] /\ k \in 1 .. Len(a) /\ k \in 1 .. Len(b)
          BY <4>2, <3>1, <1>1, <1>3
        <5>2. b[k] < c[k] /\ k \in 1 .. Len(c)
          BY <2>1, <1>2
        <5>3. a[k] \in Nat /\ b[k] \in Nat /\ c[k] \in Nat
          BY <5>1, <5>2, <1>3
        <5>4. \A x, y, z \in Nat : x < y /\ y < z => x < z
          OBVIOUS
        <5>5. a[k] < c[k]
          BY <5>1, <5>2, <5>3, <5>4
        <5> QED BY <5>5
      <4> QED BY <4>1, <4>2
    <3>2. CASE k < i
      <4>1. k \in 1 .. i - 1
        BY <3>2, <1>1, <1>2, <1>3
      <4> QED BY <4>1, <1>1, <2>1
    <3> QED BY <3>1, <3>2, <1>5, <1>3
  <2> QED BY <2>1, <2>2 DEF Below
<1> QED BY <1>4, <1>5, <1>3

\* A string is not below one that is below it.
LEMMA BelowAsymmetric ==
    ASSUME NEW a \in Seq(Nat), NEW b \in Seq(Nat), Below(a, b)
    PROVE  ~Below(b, a)
BY BelowTransitive, BelowIrreflexive

\* A table's id before both of two keys leaves their order.
LEMMA BelowFullKey ==
    ASSUME NEW t \in Seq(Nat), NEW a \in Seq(Nat), NEW b \in Seq(Nat)
    PROVE  Below(t \o a, t \o b) <=> Below(a, b)
<1> DEFINE x == t \o a
           y == t \o b
<1>1. /\ x \in Seq(Nat) /\ Len(x) = Len(t) + Len(a)
      /\ \A n \in 1 .. Len(t) : x[n] = t[n]
      /\ \A n \in 1 .. Len(a) : x[Len(t) + n] = a[n]
  BY ConcatProperties, LenProperties
<1>2. /\ y \in Seq(Nat) /\ Len(y) = Len(t) + Len(b)
      /\ \A n \in 1 .. Len(t) : y[n] = t[n]
      /\ \A n \in 1 .. Len(b) : y[Len(t) + n] = b[n]
  BY ConcatProperties, LenProperties
<1>3. /\ Len(t) \in Nat /\ Len(a) \in Nat /\ Len(b) \in Nat
      /\ \A n \in 1 .. Len(t) : t[n] \in Nat
  BY LenProperties, ElementOfSeq
<1> HIDE DEF x, y
<1>4. ASSUME Below(a, b) PROVE Below(x, y)
  <2>1. PICK i \in 1 .. Len(b) :
            /\ \A j \in 1 .. i - 1 : j <= Len(a) /\ a[j] = b[j]
            /\ Len(a) < i \/ a[i] < b[i]
    BY <1>4 DEF Below
  <2> DEFINE m == Len(t) + i
  <2>2. m \in 1 .. Len(y)
    BY <1>2, <1>3
  <2>3. ASSUME NEW j \in 1 .. m - 1 PROVE j <= Len(x) /\ x[j] = y[j]
    <3>1. CASE j <= Len(t)
      BY <3>1, <1>1, <1>2, <1>3
    <3>2. CASE Len(t) < j
      <4>1. /\ j = Len(t) + (j - Len(t)) /\ j - Len(t) \in 1 .. i - 1
            /\ j - Len(t) \in 1 .. Len(b)
        BY <3>2, <1>3
      <4>2. j - Len(t) \in 1 .. Len(a) /\ a[j - Len(t)] = b[j - Len(t)]
        <5> DEFINE n == j - Len(t)
        <5>1. n \in 1 .. i - 1
          BY <4>1
        <5> HIDE DEF n
        <5>2. n <= Len(a) /\ a[n] = b[n] /\ n \in 1 .. Len(a)
          BY <5>1, <2>1, <1>3
        <5> QED BY <5>2 DEF n
      <4>3. x[j] = a[j - Len(t)] /\ y[j] = b[j - Len(t)]
        BY <4>1, <4>2, <1>1, <1>2
      <4> QED BY <4>2, <4>3, <1>1, <1>3
    <3> QED BY <3>1, <3>2, <1>3
  <2>4. Len(x) < m \/ x[m] < y[m]
    <3>1. CASE Len(a) < i
      BY <3>1, <1>1, <1>3
    <3>2. CASE i <= Len(a) /\ a[i] < b[i]
      BY <3>2, <1>1, <1>2, <1>3
    <3> QED BY <3>1, <3>2, <2>1, <1>3
  <2> HIDE DEF m
  <2> QED BY <2>2, <2>3, <2>4 DEF Below
<1>5. ASSUME Below(x, y) PROVE Below(a, b)
  <2>1. PICK m \in 1 .. Len(y) :
            /\ \A j \in 1 .. m - 1 : j <= Len(x) /\ x[j] = y[j]
            /\ Len(x) < m \/ x[m] < y[m]
    BY <1>5 DEF Below
  <2>2. Len(t) < m
    <3> SUFFICES ASSUME m <= Len(t) PROVE FALSE
      BY <1>3, <1>2
    <3>1. m \in 1 .. Len(t) /\ ~(Len(x) < m)
      BY <1>1, <1>2, <1>3
    <3>2. x[m] = t[m] /\ y[m] = t[m] /\ t[m] \in Nat
      BY <3>1, <1>1, <1>2, <1>3
    <3> QED BY <3>1, <3>2, <2>1
  <2> DEFINE i == m - Len(t)
  <2>3. i \in 1 .. Len(b) /\ m = Len(t) + i
    BY <2>2, <1>2, <1>3
  <2>4. ASSUME NEW j \in 1 .. i - 1 PROVE j <= Len(a) /\ a[j] = b[j]
    <3>1. Len(t) + j \in 1 .. m - 1
      BY <2>3, <1>3
    <3>2. Len(t) + j <= Len(x) /\ x[Len(t) + j] = y[Len(t) + j]
      BY <3>1, <2>1
    <3>3. j \in 1 .. Len(a) /\ j \in 1 .. Len(b)
      BY <3>2, <2>3, <1>1, <1>3
    <3> QED BY <3>2, <3>3, <1>1, <1>2, <1>3
  <2>5. Len(a) < i \/ a[i] < b[i]
    <3>1. CASE Len(x) < m
      BY <3>1, <2>3, <1>1, <1>3
    <3>2. CASE m <= Len(x) /\ x[m] < y[m]
      <4>1. i \in 1 .. Len(a)
        BY <3>2, <2>3, <1>1, <1>3
      <4> QED BY <4>1, <3>2, <2>3, <1>1, <1>2
    <3> QED BY <3>1, <3>2, <2>1, <1>1, <1>3, <2>3
  <2> HIDE DEF i
  <2> QED BY <2>3, <2>4, <2>5 DEF Below
<1> QED BY <1>4, <1>5 DEF x, y

\* A string is not below its prefixes.
LEMMA PrefixNotAbove ==
    ASSUME NEW p \in Seq(Nat), NEW k \in Seq(Nat), IsPrefix(p, k)
    PROVE  ~Below(k, p)
<1>1. /\ Len(p) <= Len(k) /\ \A n \in 1 .. Len(p) : p[n] = k[n]
      /\ Len(p) \in Nat /\ Len(k) \in Nat
      /\ \A n \in 1 .. Len(p) : p[n] \in Nat
  BY PrefixElements, LenProperties, ElementOfSeq
<1> SUFFICES ASSUME NEW i \in 1 .. Len(p), Len(k) < i \/ k[i] < p[i]
             PROVE  FALSE
  BY DEF Below
<1> QED BY <1>1

\* The strings with a prefix lie together: what is neither below one of them nor
\* above another has the prefix.
LEMMA PrefixConvex ==
    ASSUME NEW p \in Seq(Nat), NEW a \in Seq(Nat), NEW b \in Seq(Nat), NEW c \in Seq(Nat),
           IsPrefix(p, a), IsPrefix(p, c), ~Below(b, a), ~Below(c, b)
    PROVE  IsPrefix(p, b)
<1>1. /\ Len(p) <= Len(a) /\ \A n \in 1 .. Len(p) : p[n] = a[n]
      /\ Len(p) <= Len(c) /\ \A n \in 1 .. Len(p) : p[n] = c[n]
  BY PrefixElements
<1>2. /\ Len(a) \in Nat /\ Len(b) \in Nat /\ Len(c) \in Nat /\ Len(p) \in Nat
      /\ \A n \in 1 .. Len(p) : p[n] \in Nat
      /\ \A n \in 1 .. Len(b) : b[n] \in Nat
  BY LenProperties, ElementOfSeq
<1> SUFFICES ASSUME ~IsPrefix(p, b) PROVE FALSE
  OBVIOUS
<1>3. p # b
  BY PrefixElements, <1>2
<1>4. PICK i \in Nat \ {0} :
               /\ i <= Len(p) + 1 /\ i <= Len(b) + 1
               /\ \A j \in 1 .. i - 1 : p[j] = b[j]
               /\ \/ i <= Len(p) /\ i <= Len(b) /\ p[i] # b[i]
                  \/ i = Len(p) + 1 /\ i <= Len(b)
                  \/ i = Len(b) + 1 /\ i <= Len(p)
  BY <1>3, FirstDifference
<1>5. i <= Len(p)
  <2> SUFFICES ASSUME i = Len(p) + 1 PROVE FALSE
    BY <1>2, <1>4
  <2>1. Len(p) <= Len(b) /\ \A n \in 1 .. Len(p) : p[n] = b[n]
    BY <1>2, <1>4
  <2> QED BY <2>1, PrefixElements
<1>6. /\ i \in 1 .. Len(a) /\ i \in 1 .. Len(c) /\ p[i] = a[i] /\ p[i] = c[i]
      /\ \A j \in 1 .. i - 1 : /\ j <= Len(b) /\ a[j] = b[j]
                               /\ j <= Len(c) /\ c[j] = b[j]
  <2>1. i \in 1 .. Len(p)
    BY <1>2, <1>5
  <2>2. i \in 1 .. Len(a) /\ i \in 1 .. Len(c) /\ p[i] = a[i] /\ p[i] = c[i]
    BY <2>1, <1>1, <1>2
  <2>3. ASSUME NEW j \in 1 .. i - 1
        PROVE  j <= Len(b) /\ a[j] = b[j] /\ j <= Len(c) /\ c[j] = b[j]
    <3>1. j \in 1 .. Len(p) /\ j <= Len(b) /\ j <= Len(c)
      <4>1. Len(p) <= Len(c) /\ i <= Len(b) + 1
        BY <1>1, <1>4
      <4> QED BY <4>1, <2>1, <1>2
    <3>2. p[j] = b[j] /\ p[j] = a[j] /\ p[j] = c[j]
      BY <3>1, <1>1, <1>4
    <3> QED BY <3>1, <3>2
  <2> QED BY <2>2, <2>3
<1>7. CASE Len(b) < i \/ b[i] < p[i]
  <2>1. Len(b) < i \/ b[i] < a[i]
    BY <1>7, <1>6
  <2>2. \A j \in 1 .. i - 1 : j <= Len(b) /\ b[j] = a[j]
    BY <1>6
  <2> QED BY <2>1, <2>2, <1>6 DEF Below
<1>8. CASE i <= Len(b) /\ p[i] < b[i]
  <2>1. i \in 1 .. Len(b) /\ c[i] < b[i]
    BY <1>8, <1>6, <1>2
  <2>2. \A j \in 1 .. i - 1 : j <= Len(c) /\ c[j] = b[j]
    BY <1>6
  <2> QED BY <2>1, <2>2 DEF Below
<1>9. i <= Len(b) => p[i] \in Nat /\ b[i] \in Nat /\ p[i] # b[i]
  BY <1>2, <1>4, <1>5
<1> QED BY <1>7, <1>8, <1>9, <1>2

-----------------------------------------------------------------------------
(* Sequences in the order of their strings.                                *)

\* a comes before b when strings are listed, or listed in reverse.
Comes(a, b, reverse) == IF reverse THEN Below(b, a) ELSE Below(a, b)

\* s is what is in S, each once, in order.
InOrder(s, S, reverse) ==
    /\ s \in Seq(S)
    /\ \A k \in S : \E i \in 1 .. Len(s) : s[i] = k
    /\ \A i, j \in 1 .. Len(s) : i < j => Comes(s[i], s[j], reverse)

\* The order is total and strict in either direction.
LEMMA ComesIsOrder ==
    ASSUME NEW a \in Seq(Nat), NEW b \in Seq(Nat), NEW reverse
    PROVE  /\ ~Comes(a, a, reverse)
           /\ a # b => Comes(a, b, reverse) \/ Comes(b, a, reverse)
           /\ Comes(a, b, reverse) => ~Comes(b, a, reverse)
           /\ \A c \in Seq(Nat) : Comes(a, b, reverse) /\ Comes(b, c, reverse)
                                      => Comes(a, c, reverse)
BY BelowTotal, BelowIrreflexive, BelowAsymmetric, BelowTransitive DEF Comes

\* A function from an interval is a sequence.
LEMMA FunctionIsSeq ==
    ASSUME NEW S, NEW n \in Nat, NEW f \in [1 .. n -> S]
    PROVE  f \in Seq(S) /\ Len(f) = n
<1>1. f \in Seq(S)
  BY SeqDef
<1>2. Len(f) \in Nat /\ DOMAIN f = 1 .. Len(f)
  BY <1>1, LenProperties
<1>3. 1 .. n = 1 .. Len(f)
  BY <1>2
<1>4. \A x, y \in Nat : 1 .. x = 1 .. y => x = y
  <2> SUFFICES ASSUME NEW x \in Nat, NEW y \in Nat, 1 .. x = 1 .. y, x < y PROVE FALSE
    OBVIOUS
  <2>1. y \in 1 .. y /\ y \notin 1 .. x
    OBVIOUS
  <2> QED BY <2>1
<1> QED BY <1>1, <1>2, <1>3, <1>4

\* A finite set of strings is ranked by how many of it are below each.
LEMMA Ranks ==
    ASSUME NEW S, S \subseteq Seq(Nat), IsFiniteSet(S)
    PROVE  LET rank == [k \in S |-> Cardinality({j \in S : Below(j, k)})]
           IN  /\ rank \in Bijection(S, 0 .. Cardinality(S) - 1)
               /\ \A a, b \in S : Below(a, b) => rank[a] < rank[b]
<1> DEFINE Under(k) == {j \in S : Below(j, k)}
           rank == [k \in S |-> Cardinality(Under(k))]
           n == Cardinality(S)
<1>1. n \in Nat
  BY FS_CardinalityType
<1>2. ASSUME NEW k \in S
      PROVE  IsFiniteSet(Under(k)) /\ rank[k] \in Nat /\ rank[k] < n
  <2>1. Under(k) \in SUBSET S /\ k \notin Under(k)
    BY BelowIrreflexive
  <2>2. IsFiniteSet(Under(k)) /\ Cardinality(Under(k)) <= n /\ Cardinality(Under(k)) # n
    BY <2>1, FS_Subset
  <2>3. Cardinality(Under(k)) \in Nat
    BY <2>2, FS_CardinalityType
  <2> QED BY <2>2, <2>3, <1>1
<1>3. ASSUME NEW a \in S, NEW b \in S, Below(a, b) PROVE rank[a] < rank[b]
  <2>1. Under(a) \in SUBSET Under(b)
    BY <1>3, BelowTransitive
  <2>2. a \in Under(b) /\ a \notin Under(a)
    BY <1>3, BelowIrreflexive
  <2>3. Cardinality(Under(a)) <= Cardinality(Under(b))
        /\ Cardinality(Under(a)) # Cardinality(Under(b))
    BY <2>1, <2>2, <1>2, FS_Subset
  <2>4. rank[a] \in Nat /\ rank[b] \in Nat
    BY <1>2
  <2> QED BY <2>3, <2>4
<1>4. rank \in [S -> 0 .. n - 1]
  <2>1. ASSUME NEW k \in S PROVE rank[k] \in 0 .. n - 1
    <3>1. rank[k] \in Nat /\ rank[k] < n
      BY <1>2
    <3> HIDE DEF rank, n
    <3> QED BY <3>1, <1>1
  <2>2. rank = [k \in S |-> rank[k]]
    OBVIOUS
  <2> HIDE DEF rank
  <2> QED BY <2>1, <2>2
<1>5. rank \in Injection(S, 0 .. n - 1)
  <2>1. ASSUME NEW a \in S, NEW b \in S, rank[a] = rank[b], a # b PROVE FALSE
    <3>1. rank[a] < rank[b] \/ rank[b] < rank[a]
      <4> HIDE DEF rank
      <4> QED BY <2>1, <1>3, BelowTotal
    <3>2. rank[a] \in Nat /\ rank[b] \in Nat
      BY <1>2
    <3> HIDE DEF rank
    <3> QED BY <3>1, <3>2, <2>1
  <2> QED BY <2>1, <1>4 DEF Injection, IsInjective
<1>6. IsFiniteSet(0 .. n - 1) /\ Cardinality(0 .. n - 1) = n
  BY <1>1, FS_Interval
<1>7. rank \in Surjection(S, 0 .. n - 1)
  <2> HIDE DEF rank
  <2> QED BY <1>5, <1>6, FS_Injection
<1> QED BY <1>3, <1>5, <1>7 DEF Bijection

\* Ascending lists a set in order.
LEMMA AscendingInOrder ==
    ASSUME NEW S, S \subseteq Seq(Nat), IsFiniteSet(S)
    PROVE  InOrder(Ascending(S), S, FALSE)
<1> DEFINE rank == [k \in S |-> Cardinality({j \in S : Below(j, k)})]
           n == Cardinality(S)
           s == Ascending(S)
<1>1. /\ rank \in Bijection(S, 0 .. n - 1)
      /\ \A a, b \in S : Below(a, b) => rank[a] < rank[b]
  BY Ranks
<1>2. n \in Nat
  BY FS_CardinalityType
<1>3. \A k \in S : rank[k] = Cardinality({j \in S : Below(j, k)})
  OBVIOUS
<1> HIDE DEF rank
<1>4. /\ rank \in [S -> 0 .. n - 1]
      /\ \A a, b \in S : rank[a] = rank[b] => a = b
      /\ \A m \in 0 .. n - 1 : \E k \in S : rank[k] = m
  BY <1>1 DEF Bijection, Injection, Surjection, IsInjective
<1>5. ASSUME NEW i \in 1 .. n PROVE s[i] \in S /\ rank[s[i]] = i - 1
  <2>1. i - 1 \in 0 .. n - 1
    BY <1>2
  <2>2. PICK k \in S : rank[k] = i - 1
    BY <2>1, <1>4
  <2>3. s[i] = CHOOSE x \in S : Cardinality({j \in S : Below(j, x)}) = i - 1
    BY DEF Ascending
  <2>4. Cardinality({j \in S : Below(j, k)}) = i - 1
    BY <2>2, <1>3
  <2>5. s[i] \in S /\ Cardinality({j \in S : Below(j, s[i])}) = i - 1
    BY <2>3, <2>4
  <2> QED BY <2>5, <1>3
<1>6. s \in Seq(S) /\ Len(s) = n
  <2> DEFINE e(i) == CHOOSE x \in S : Cardinality({j \in S : Below(j, x)}) = i - 1
  <2>0. s = [i \in 1 .. n |-> e(i)]
    BY DEF Ascending
  <2> HIDE DEF e, s
  <2>1. s = [i \in 1 .. n |-> s[i]]
    BY <2>0
  <2> HIDE DEF s
  <2>2. s \in [1 .. n -> S]
    BY <2>1, <1>5
  <2> QED BY <2>2, <1>2, FunctionIsSeq
<1> HIDE DEF s
<1>7. ASSUME NEW k \in S PROVE \E i \in 1 .. Len(s) : s[i] = k
  <2>1. rank[k] \in 0 .. n - 1 /\ rank[k] + 1 \in 1 .. n
    BY <1>2, <1>4
  <2>2. s[rank[k] + 1] \in S /\ rank[s[rank[k] + 1]] = rank[k]
    BY <2>1, <1>5
  <2> QED BY <2>1, <2>2, <1>4, <1>6
<1>8. ASSUME NEW i \in 1 .. Len(s), NEW j \in 1 .. Len(s), i < j
      PROVE  Below(s[i], s[j])
  <2>1. /\ s[i] \in S /\ rank[s[i]] = i - 1
        /\ s[j] \in S /\ rank[s[j]] = j - 1
    BY <1>5, <1>6
  <2>2. s[i] # s[j] /\ ~Below(s[j], s[i])
    BY <2>1, <1>8, <1>1
  <2> QED BY <2>1, <2>2, BelowTotal
<1> QED BY <1>6, <1>7, <1>8 DEF InOrder, Comes, s

\* Reversed, it lists the set in reverse.
LEMMA ReverseInOrder ==
    ASSUME NEW S, NEW s, InOrder(s, S, FALSE)
    PROVE  InOrder(Reverse(s), S, TRUE)
<1> DEFINE n == Len(s)
           t == Reverse(s)
<1>1. s \in Seq(S) /\ n \in Nat /\ \A i \in 1 .. n : s[i] \in S
  BY LenProperties, ElementOfSeq DEF InOrder
<1>2. \A i \in 1 .. n : n - i + 1 \in 1 .. n
  BY <1>1
<1>3. DOMAIN t = 1 .. n /\ \A i \in 1 .. n : t[i] = s[n - i + 1]
  BY DEF Reverse
<1>4. t \in [1 .. n -> S]
  <2>1. t = [i \in 1 .. n |-> s[n - i + 1]]
    BY DEF Reverse
  <2> HIDE DEF t, n
  <2> QED BY <2>1, <1>1, <1>2
<1>5. t \in Seq(S) /\ Len(t) = n
  BY <1>1, <1>4, FunctionIsSeq
<1> HIDE DEF t
<1>6. ASSUME NEW k \in S PROVE \E i \in 1 .. Len(t) : t[i] = k
  <2>1. PICK i \in 1 .. n : s[i] = k
    BY DEF InOrder
  <2>2. n - i + 1 \in 1 .. n /\ n - (n - i + 1) + 1 = i
    BY <1>1
  <2>3. t[n - i + 1] = s[i]
    BY <2>2, <1>3
  <2> QED BY <2>1, <2>2, <2>3, <1>5
<1>7. ASSUME NEW i \in 1 .. Len(t), NEW j \in 1 .. Len(t), i < j
      PROVE  Below(t[j], t[i])
  <2>1. n - j + 1 < n - i + 1 /\ n - j + 1 \in 1 .. n /\ n - i + 1 \in 1 .. n
    BY <1>1, <1>5, <1>7
  <2>2. Below(s[n - j + 1], s[n - i + 1])
    BY <2>1 DEF InOrder, Comes
  <2> QED BY <2>2, <1>3, <1>5
<1> QED BY <1>5, <1>6, <1>7 DEF InOrder, Comes, t

\* How many of a set come before one of it.
Passed(k, S, reverse) == Cardinality({j \in S : Comes(j, k, reverse)})

\* A sequence in order is as long as the set is large; the i-th member has i - 1
\* members before it.
LEMMA PlacesInOrder ==
    ASSUME NEW S, S \subseteq Seq(Nat), NEW reverse, NEW s, InOrder(s, S, reverse)
    PROVE  /\ IsFiniteSet(S) /\ Cardinality(S) = Len(s)
           /\ \A i \in 1 .. Len(s) : Passed(s[i], S, reverse) = i - 1
<1>1. /\ s \in Seq(S) /\ Len(s) \in Nat /\ s \in [1 .. Len(s) -> S]
      /\ \A i \in 1 .. Len(s) : s[i] \in S
  BY LenProperties, ElementOfSeq DEF InOrder
<1>2. \A i, j \in 1 .. Len(s) : Comes(s[i], s[j], reverse) => i < j
  <2> SUFFICES ASSUME NEW i \in 1 .. Len(s), NEW j \in 1 .. Len(s),
                      Comes(s[i], s[j], reverse), ~(i < j)
               PROVE  FALSE
    OBVIOUS
  <2>1. s[i] \in Seq(Nat) /\ s[j] \in Seq(Nat)
    BY <1>1
  <2>2. i = j \/ j < i
    OBVIOUS
  <2>3. CASE i = j
    BY <2>1, <2>3, ComesIsOrder
  <2>4. CASE j < i
    <3>1. Comes(s[j], s[i], reverse)
      BY <2>4 DEF InOrder
    <3> QED BY <3>1, <2>1, ComesIsOrder
  <2> QED BY <2>2, <2>3, <2>4
<1>3. \A i, j \in 1 .. Len(s) : s[i] = s[j] => i = j
  <2> SUFFICES ASSUME NEW i \in 1 .. Len(s), NEW j \in 1 .. Len(s),
                      s[i] = s[j], i # j
               PROVE  FALSE
    OBVIOUS
  <2>1. s[i] \in Seq(Nat)
    BY <1>1
  <2>2. Comes(s[i], s[j], reverse) \/ Comes(s[j], s[i], reverse)
    BY DEF InOrder
  <2> QED BY <2>1, <2>2, ComesIsOrder
<1>4. IsFiniteSet(S) /\ Cardinality(S) = Len(s)
  <2>1. s \in Bijection(1 .. Len(s), S)
    BY <1>1, <1>3 DEF InOrder, Bijection, Injection, Surjection, IsInjective
  <2>2. ExistsBijection(1 .. Len(s), S)
    BY <2>1 DEF ExistsBijection
  <2> QED BY <2>2, <1>1, FS_NatBijection, FS_CountingElements
<1>5. ASSUME NEW i \in 1 .. Len(s)
      PROVE  Passed(s[i], S, reverse) = i - 1
  <2> DEFINE T == {j \in S : Comes(j, s[i], reverse)}
             f == [m \in 1 .. i - 1 |-> s[m]]
  <2>1. f \in [1 .. i - 1 -> T]
    <3> SUFFICES ASSUME NEW m \in 1 .. i - 1 PROVE s[m] \in T
      OBVIOUS
    <3>1. m \in 1 .. Len(s) /\ m < i
      BY <1>1
    <3> QED BY <3>1, <1>1 DEF InOrder
  <2>2. ASSUME NEW k \in T PROVE \E m \in 1 .. i - 1 : f[m] = k
    <3>1. PICK m \in 1 .. Len(s) : s[m] = k
      BY DEF InOrder
    <3>2. m < i
      BY <3>1, <1>2
    <3>3. m \in 1 .. i - 1
      BY <3>2
    <3> QED BY <3>1, <3>3
  <2>3. \A a, b \in 1 .. i - 1 : f[a] = f[b] => a = b
    <3> SUFFICES ASSUME NEW a \in 1 .. i - 1, NEW b \in 1 .. i - 1, s[a] = s[b]
                 PROVE  a = b
      OBVIOUS
    <3>1. a \in 1 .. Len(s) /\ b \in 1 .. Len(s)
      BY <1>1
    <3> QED BY <3>1, <1>3
  <2> HIDE DEF f, T
  <2>4. f \in Bijection(1 .. i - 1, T)
    BY <2>1, <2>2, <2>3 DEF Bijection, Injection, Surjection, IsInjective
  <2>5. ExistsBijection(1 .. i - 1, T) /\ i - 1 \in Nat
    BY <2>4 DEF ExistsBijection
  <2>6. Cardinality(T) = i - 1
    BY <2>5, FS_CountingElements
  <2> QED BY <2>6 DEF T, Passed
<1> QED BY <1>4, <1>5

\* There is one sequence of a set in order.
LEMMA InOrderUnique ==
    ASSUME NEW S, S \subseteq Seq(Nat), NEW reverse,
           NEW s, InOrder(s, S, reverse), NEW t, InOrder(t, S, reverse)
    PROVE  s = t
<1>1. s \in Seq(S) /\ t \in Seq(S)
  BY DEF InOrder
<1>2. Len(s) = Cardinality(S) /\ Len(t) = Cardinality(S)
  BY PlacesInOrder
<1>3. ASSUME NEW i \in 1 .. Len(s) PROVE s[i] = t[i]
  <2>1. i \in 1 .. Len(t) /\ s[i] \in S
    BY <1>1, <1>2, ElementOfSeq
  <2>2. PICK m \in 1 .. Len(t) : t[m] = s[i]
    BY <2>1 DEF InOrder
  <2>3. Passed(s[i], S, reverse) = i - 1
    BY PlacesInOrder
  <2>4. Passed(t[m], S, reverse) = m - 1
    BY PlacesInOrder
  <2>5. m = i
    BY <2>2, <2>3, <2>4
  <2> QED BY <2>2, <2>5
<1> QED BY <1>1, <1>2, <1>3, SeqEqual

-----------------------------------------------------------------------------
(* What a table reads from the store.                                      *)

\* Every key on the store is a string of bytes, and they are finitely many.
StoreOfStrings == DOMAIN store \subseteq Seq(Nat) /\ IsFiniteSet(DOMAIN store)

\* The keys of a table: what follows its id.
KeysUnder(id) == {k \in Seq(Nat) : getFullKey(id, k) \in DOMAIN store}

\* The keys between two bounds, those that extend the upper bound included.
KeysBetween(id, lower, upper) ==
    {k \in KeysUnder(id) : ~Below(k, lower) /\ (~Below(upper, k) \/ IsPrefix(upper, k))}

\* What extends a string is that string and the rest of it.
LEMMA PrefixAndRest ==
    ASSUME NEW p \in Seq(Nat), NEW k \in Seq(Nat), IsPrefix(p, k)
    PROVE  \E r \in Seq(Nat) : k = p \o r
<1> DEFINE r == SubSeq(k, Len(p) + 1, Len(k))
<1>1. /\ Len(p) <= Len(k) /\ \A n \in 1 .. Len(p) : p[n] = k[n]
      /\ Len(p) \in Nat /\ Len(k) \in Nat
      /\ \A n \in 1 .. Len(k) : k[n] \in Nat
  BY PrefixElements, LenProperties, ElementOfSeq
<1>2. /\ r \in Seq(Nat) /\ Len(r) = Len(k) - Len(p)
      /\ \A i \in 1 .. Len(k) - Len(p) : r[i] = k[Len(p) + i]
  <2>1. \A i \in Len(p) + 1 .. Len(k) : k[i] \in Nat
    BY <1>1
  <2>2. Len(p) + 1 \in Int /\ Len(k) \in Int
    BY <1>1
  <2>3. /\ r \in Seq(Nat)
        /\ Len(r) = IF Len(p) + 1 <= Len(k) THEN Len(k) - (Len(p) + 1) + 1 ELSE 0
        /\ \A i \in 1 .. Len(k) - (Len(p) + 1) + 1 : r[i] = k[Len(p) + 1 + i - 1]
    BY <2>1, <2>2, SubSeqProperties
  <2> HIDE DEF r
  <2>4. Len(r) = Len(k) - Len(p)
    BY <2>3, <1>1
  <2>5. ASSUME NEW i \in 1 .. Len(k) - Len(p) PROVE r[i] = k[Len(p) + i]
    <3>1. i \in 1 .. Len(k) - (Len(p) + 1) + 1 /\ Len(p) + 1 + i - 1 = Len(p) + i
      BY <1>1
    <3> QED BY <3>1, <2>3
  <2> QED BY <2>3, <2>4, <2>5
<1> HIDE DEF r
<1>3. /\ p \o r \in Seq(Nat) /\ Len(p \o r) = Len(k)
      /\ \A i \in 1 .. Len(k) : (p \o r)[i] = IF i <= Len(p) THEN p[i] ELSE r[i - Len(p)]
  <2>1. Len(p) + Len(r) = Len(k)
    BY <1>1, <1>2
  <2>2. /\ p \o r \in Seq(Nat) /\ Len(p \o r) = Len(p) + Len(r)
        /\ \A i \in 1 .. Len(p) + Len(r) :
               (p \o r)[i] = IF i <= Len(p) THEN p[i] ELSE r[i - Len(p)]
    BY <1>2, ConcatProperties
  <2> QED BY <2>1, <2>2
<1>4. ASSUME NEW i \in 1 .. Len(k) PROVE (p \o r)[i] = k[i]
  <2>1. CASE i <= Len(p)
    BY <2>1, <1>1, <1>3
  <2>2. CASE Len(p) < i
    <3>1. i - Len(p) \in 1 .. Len(k) - Len(p) /\ Len(p) + (i - Len(p)) = i
      BY <2>2, <1>1
    <3>2. r[i - Len(p)] = k[i]
      BY <3>1, <1>2
    <3> QED BY <3>2, <2>2, <1>1, <1>3
  <2>3. i <= Len(p) \/ Len(p) < i
    BY <1>1
  <2> QED BY <2>1, <2>2, <2>3
<1> QED BY <1>2, <1>3, <1>4, SeqEqual

\* The empty string begins every other, and none is below it.
LEMMA EmptyBegins ==
    ASSUME NEW k \in Seq(Nat)
    PROVE  /\ <<>> \in Seq(Nat) /\ IsPrefix(<<>>, k) /\ ~Below(k, <<>>)
           /\ k \o <<>> = k
<1>1. <<>> \in Seq(Nat) /\ Len(<<>>) = 0 /\ Len(k) \in Nat /\ k \o <<>> = k
  BY EmptySeq, LenProperties, ConcatEmptySeq
<1>2. IsPrefix(<<>>, k)
  <2>1. SubSeq(<<>>, 1, 0) = <<>> /\ SubSeq(k, 1, 0) = <<>>
    BY SubSeqEmpty
  <2> QED BY <2>1, <1>1 DEF IsPrefix
<1> QED BY <1>1, <1>2, PrefixNotAbove

\* What remains of a full key without the table's id is the key; a full key begins
\* with the id, and full keys have a prefix, or an order, when their keys do.
LEMMA FullKeyOf ==
    ASSUME NEW id \in Seq(Nat), NEW a \in Seq(Nat), NEW b \in Seq(Nat)
    PROVE  /\ getFullKey(id, a) \in Seq(Nat)
           /\ SubSeq(getFullKey(id, a), Len(id) + 1, Len(getFullKey(id, a))) = a
           /\ IsPrefix(id, getFullKey(id, a))
           /\ getFullKey(id, a) = getFullKey(id, b) => a = b
           /\ IsPrefix(getFullKey(id, a), getFullKey(id, b)) <=> IsPrefix(a, b)
           /\ Below(getFullKey(id, a), getFullKey(id, b)) <=> Below(a, b)
<1> DEFINE k == id \o a
           l == id \o b
<1>1. /\ k \in Seq(Nat) /\ Len(k) = Len(id) + Len(a)
      /\ \A n \in 1 .. Len(id) : k[n] = id[n]
      /\ \A n \in 1 .. Len(a) : k[Len(id) + n] = a[n]
  BY ConcatProperties, LenProperties
<1>2. /\ l \in Seq(Nat) /\ Len(l) = Len(id) + Len(b)
      /\ \A n \in 1 .. Len(id) : l[n] = id[n]
      /\ \A n \in 1 .. Len(b) : l[Len(id) + n] = b[n]
  BY ConcatProperties, LenProperties
<1>3. /\ Len(id) \in Nat /\ Len(a) \in Nat /\ Len(b) \in Nat
      /\ \A n \in 1 .. Len(a) : a[n] \in Nat
  BY LenProperties, ElementOfSeq
<1>4. k = l => a = b
  BY ConcatSimplifications
<1>5. Below(k, l) <=> Below(a, b)
  BY BelowFullKey
<1> HIDE DEF k, l
<1>6. IsPrefix(id, k)
  <2>1. Len(id) <= Len(k)
    BY <1>1, <1>3
  <2> QED BY <2>1, <1>1, PrefixElements
<1>7. SubSeq(k, Len(id) + 1, Len(k)) = a
  <2> DEFINE r == SubSeq(k, Len(id) + 1, Len(k))
  <2>1. ASSUME NEW i \in Len(id) + 1 .. Len(k) PROVE k[i] \in Nat
    <3>1. i - Len(id) \in 1 .. Len(a) /\ Len(id) + (i - Len(id)) = i
      BY <1>1, <1>3
    <3>2. k[i] = a[i - Len(id)]
      BY <3>1, <1>1
    <3> QED BY <3>1, <3>2, <1>3
  <2>2. Len(id) + 1 \in Int /\ Len(k) \in Int
    BY <1>1, <1>3
  <2>3. /\ r \in Seq(Nat)
        /\ Len(r) = IF Len(id) + 1 <= Len(k) THEN Len(k) - (Len(id) + 1) + 1 ELSE 0
        /\ \A i \in 1 .. Len(k) - (Len(id) + 1) + 1 : r[i] = k[Len(id) + 1 + i - 1]
    BY <2>1, <2>2, SubSeqProperties
  <2> HIDE DEF r
  <2>4. Len(r) = Len(a)
    BY <2>3, <1>1, <1>3
  <2>5. ASSUME NEW i \in 1 .. Len(r) PROVE r[i] = a[i]
    <3>1. /\ i \in 1 .. Len(k) - (Len(id) + 1) + 1 /\ Len(id) + 1 + i - 1 = Len(id) + i
          /\ i \in 1 .. Len(a)
      BY <2>4, <1>1, <1>3
    <3>2. r[i] = k[Len(id) + i]
      BY <3>1, <2>3
    <3> QED BY <3>1, <3>2, <1>1
  <2>6. r = a
    BY <2>3, <2>4, <2>5, SeqEqual
  <2> QED BY <2>6 DEF r
<1>8. IsPrefix(k, l) <=> IsPrefix(a, b)
  <2>1. ASSUME IsPrefix(k, l) PROVE IsPrefix(a, b)
    <3>1. Len(k) <= Len(l) /\ \A n \in 1 .. Len(k) : k[n] = l[n]
      BY <2>1, <1>1, <1>2, PrefixElements
    <3>2. Len(a) <= Len(b)
      BY <3>1, <1>1, <1>2, <1>3
    <3>3. ASSUME NEW n \in 1 .. Len(a) PROVE a[n] = b[n]
      <4>1. Len(id) + n \in 1 .. Len(k) /\ n \in 1 .. Len(b)
        <5>1. n \in Nat /\ 1 <= n /\ n <= Len(a) /\ n <= Len(b)
          BY <3>2, <1>3
        <5> QED BY <5>1, <1>1, <1>3
      <4> QED BY <4>1, <3>1, <1>1, <1>2
    <3> QED BY <3>2, <3>3, PrefixElements
  <2>2. ASSUME IsPrefix(a, b) PROVE IsPrefix(k, l)
    <3>1. Len(a) <= Len(b) /\ \A n \in 1 .. Len(a) : a[n] = b[n]
      BY <2>2, PrefixElements
    <3>2. Len(k) <= Len(l)
      BY <3>1, <1>1, <1>2, <1>3
    <3>3. ASSUME NEW n \in 1 .. Len(k) PROVE k[n] = l[n]
      <4>1. CASE n <= Len(id)
        BY <4>1, <1>1, <1>2, <1>3
      <4>2. CASE Len(id) < n
        <5>1. /\ n - Len(id) \in 1 .. Len(a) /\ Len(id) + (n - Len(id)) = n
              /\ n - Len(id) \in 1 .. Len(b)
          BY <4>2, <3>1, <1>1, <1>3
        <5>2. k[n] = a[n - Len(id)] /\ l[n] = b[n - Len(id)]
          BY <5>1, <1>1, <1>2
        <5> QED BY <5>1, <5>2, <3>1
      <4> QED BY <4>1, <4>2, <1>3
    <3> QED BY <3>2, <3>3, <1>1, <1>2, PrefixElements
  <2> QED BY <2>1, <2>2
<1>9. getFullKey(id, a) = k /\ getFullKey(id, b) = l
  BY DEF getFullKey, k, l
<1> QED BY <1>1, <1>4, <1>5, <1>6, <1>7, <1>8, <1>9

\* Full keys in order are their keys in order.
LEMMA RelativeInOrder ==
    ASSUME NEW id \in Seq(Nat), NEW S, S \subseteq Seq(Nat), NEW reverse,
           NEW s, InOrder(s, {getFullKey(id, k) : k \in S}, reverse)
    PROVE  InOrder(Relative(id, s), S, reverse)
<1> DEFINE F == {getFullKey(id, k) : k \in S}
           t == Relative(id, s)
<1>1. /\ s \in Seq(F) /\ Len(s) \in Nat /\ DOMAIN s = 1 .. Len(s)
      /\ \A i \in 1 .. Len(s) : s[i] \in F
  BY LenProperties, ElementOfSeq DEF InOrder
<1>2. t = [i \in 1 .. Len(s) |-> SubSeq(s[i], Len(id) + 1, Len(s[i]))]
  BY <1>1 DEF Relative
<1>3. ASSUME NEW i \in 1 .. Len(s) PROVE t[i] \in S /\ s[i] = getFullKey(id, t[i])
  <2>1. PICK k \in S : s[i] = getFullKey(id, k)
    BY <1>1
  <2>2. t[i] = SubSeq(getFullKey(id, k), Len(id) + 1, Len(getFullKey(id, k)))
    BY <1>2, <2>1
  <2>3. t[i] = k
    BY <2>2, FullKeyOf
  <2> QED BY <2>1, <2>3
<1> HIDE DEF t
<1>4. t \in Seq(S) /\ Len(t) = Len(s)
  <2>1. t = [i \in 1 .. Len(s) |-> t[i]]
    BY <1>2
  <2>2. t \in [1 .. Len(s) -> S]
    BY <2>1, <1>3
  <2> QED BY <2>2, <1>1, FunctionIsSeq
<1>5. ASSUME NEW k \in S PROVE \E i \in 1 .. Len(t) : t[i] = k
  <2>1. PICK i \in 1 .. Len(s) : s[i] = getFullKey(id, k)
    BY DEF InOrder
  <2>2. t[i] = k
    BY <2>1, <1>3, FullKeyOf
  <2> QED BY <2>2, <1>4
<1>6. ASSUME NEW i \in 1 .. Len(t), NEW j \in 1 .. Len(t), i < j
      PROVE  Comes(t[i], t[j], reverse)
  <2>1. Comes(s[i], s[j], reverse)
    BY <1>4, <1>6 DEF InOrder
  <2>2. /\ s[i] = getFullKey(id, t[i]) /\ s[j] = getFullKey(id, t[j])
        /\ t[i] \in Seq(Nat) /\ t[j] \in Seq(Nat)
    BY <1>3, <1>4
  <2>3. /\ Below(s[i], s[j]) <=> Below(t[i], t[j])
        /\ Below(s[j], s[i]) <=> Below(t[j], t[i])
    <3>1. \A a, b \in Seq(Nat) :
              Below(getFullKey(id, a), getFullKey(id, b)) <=> Below(a, b)
      BY FullKeyOf
    <3> QED BY <3>1, <2>2
  <2> QED BY <2>1, <2>3 DEF Comes
<1> QED BY <1>4, <1>5, <1>6 DEF InOrder, t

\* listInRange lists the keys between its bounds, of its own table only.
LEMMA RangeInOrder ==
    ASSUME StoreOfStrings, NEW id \in Seq(Nat), NEW lower \in Seq(Nat),
           NEW upper \in Seq(Nat), NEW reverse \in BOOLEAN
    PROVE  InOrder(listInRange(id, lower, upper, reverse),
                   KeysBetween(id, lower, upper), reverse)
<1> DEFINE l == getFullKey(id, lower)
           u == getFullKey(id, upper)
           F == {k \in DOMAIN store : ~Below(k, l) /\ (~Below(u, k) \/ IsPrefix(u, k))}
           S == KeysBetween(id, lower, upper)
<1>1. l \in Seq(Nat) /\ u \in Seq(Nat) /\ IsPrefix(id, l) /\ IsPrefix(id, u)
  BY FullKeyOf
<1>2. F \subseteq Seq(Nat) /\ IsFiniteSet(F)
  BY FS_Subset DEF StoreOfStrings
<1>3. F = {getFullKey(id, k) : k \in S}
  <2>1. ASSUME NEW k \in F PROVE \E r \in S : k = getFullKey(id, r)
    <3>1. k \in Seq(Nat)
      BY <1>2
    <3>2. IsPrefix(id, k)
      <4>1. CASE ~Below(u, k)
        BY <4>1, <3>1, <1>1, PrefixConvex
      <4>2. CASE IsPrefix(u, k)
        BY <4>2, <3>1, FullKeyBegins DEF getFullKey
      <4> QED BY <4>1, <4>2
    <3>3. PICK r \in Seq(Nat) : k = id \o r
      BY <3>1, <3>2, PrefixAndRest
    <3>4. k = getFullKey(id, r)
      BY <3>3 DEF getFullKey
    <3>5. r \in S
      BY <3>4, FullKeyOf DEF KeysBetween, KeysUnder
    <3> QED BY <3>4, <3>5
  <2>2. ASSUME NEW r \in S PROVE getFullKey(id, r) \in F
    BY FullKeyOf DEF KeysBetween, KeysUnder
  <2> HIDE DEF F, S
  <2> QED BY <2>1, <2>2
<1>4. S \subseteq Seq(Nat)
  BY DEF KeysBetween, KeysUnder
<1>5. InOrder(EachRange(l, u, reverse), F, reverse)
  <2>1. InOrder(Ascending(F), F, FALSE)
    BY <1>2, AscendingInOrder
  <2>2. InOrder(Reverse(Ascending(F)), F, TRUE)
    BY <2>1, ReverseInOrder
  <2>3. EachRange(l, u, reverse) = IF reverse THEN Reverse(Ascending(F)) ELSE Ascending(F)
    BY DEF EachRange
  <2> HIDE DEF F
  <2> QED BY <2>1, <2>2, <2>3
<1>6. InOrder(Relative(id, EachRange(l, u, reverse)), S, reverse)
  <2> HIDE DEF F, S, l, u
  <2> QED BY <1>3, <1>4, <1>5, RelativeInOrder
<1> QED BY <1>6 DEF listInRange

\* eachPrefix lists the keys with its prefix, of its own table only.
LEMMA PrefixInOrder ==
    ASSUME StoreOfStrings, NEW id \in Seq(Nat), NEW prefix \in Seq(Nat)
    PROVE  InOrder(eachPrefix(id, prefix),
                   {k \in KeysUnder(id) : IsPrefix(prefix, k)}, FALSE)
<1> DEFINE p == getFullKey(id, prefix)
           F == {k \in DOMAIN store : IsPrefix(p, k)}
           S == {k \in KeysUnder(id) : IsPrefix(prefix, k)}
<1>1. F \subseteq Seq(Nat) /\ IsFiniteSet(F)
  BY FS_Subset DEF StoreOfStrings
<1>2. F = {getFullKey(id, k) : k \in S}
  <2>1. ASSUME NEW k \in F PROVE \E r \in S : k = getFullKey(id, r)
    <3>1. k \in Seq(Nat)
      BY <1>1
    <3>2. IsPrefix(id, k)
      BY <3>1, FullKeyBegins DEF getFullKey
    <3>3. PICK r \in Seq(Nat) : k = id \o r
      BY <3>1, <3>2, PrefixAndRest
    <3>4. k = getFullKey(id, r)
      BY <3>3 DEF getFullKey
    <3>5. r \in S
      BY <3>4, FullKeyOf DEF KeysUnder
    <3> QED BY <3>4, <3>5
  <2>2. ASSUME NEW r \in S PROVE getFullKey(id, r) \in F
    BY FullKeyOf DEF KeysUnder
  <2> HIDE DEF F, S
  <2> QED BY <2>1, <2>2
<1>3. S \subseteq Seq(Nat)
  BY DEF KeysUnder
<1>4. InOrder(Ascending(F), F, FALSE)
  BY <1>1, AscendingInOrder
<1>5. InOrder(Relative(id, Ascending(F)), S, FALSE)
  <2> HIDE DEF F, S
  <2> QED BY <1>2, <1>3, <1>4, RelativeInOrder
<1> QED BY <1>5 DEF eachPrefix, EachPrefix

-----------------------------------------------------------------------------
(* What a page takes of a scan.                                            *)

\* The least of a set of naturals.
LEMMA MinIsLeast ==
    ASSUME NEW T, T \subseteq Nat, T # {}
    PROVE  Min(T) \in T /\ \A y \in T : Min(T) <= y
<1>1. \E x \in T : \A y \in T : x <= y
  BY LeastNatural
<1> QED BY <1>1 DEF Min

\* The lesser of two naturals.
LEMMA MinOfTwo ==
    ASSUME NEW x \in Nat, NEW y \in Nat
    PROVE  /\ x <= y => Min({x, y}) = x
           /\ y <= x => Min({x, y}) = y
<1> DEFINE P == {x, y}
<1>1. P \subseteq Nat /\ P # {}
  OBVIOUS
<1>2. Min(P) \in P /\ \A z \in P : Min(P) <= z
  <2> HIDE DEF P
  <2> QED BY <1>1, MinIsLeast
<1>3. (Min(P) = x \/ Min(P) = y) /\ Min(P) <= x /\ Min(P) <= y
  BY <1>2
<1> QED BY <1>3

\* A part of a sequence, element by element.
LEMMA PartOf ==
    ASSUME NEW S, NEW s \in Seq(S), NEW i \in 1 .. Len(s) + 1, NEW n \in i - 1 .. Len(s)
    PROVE  /\ SubSeq(s, i, n) \in Seq(S) /\ Len(SubSeq(s, i, n)) = n - i + 1
           /\ \A j \in 1 .. n - i + 1 :
                  i + j - 1 \in i .. n /\ SubSeq(s, i, n)[j] = s[i + j - 1]
<1>1. Len(s) \in Nat
  BY LenProperties
<1>2. \A m \in i .. n : s[m] \in S
  BY <1>1, ElementOfSeq
<1>3. /\ SubSeq(s, i, n) \in Seq(S)
      /\ Len(SubSeq(s, i, n)) = IF i <= n THEN n - i + 1 ELSE 0
      /\ \A j \in 1 .. n - i + 1 : SubSeq(s, i, n)[j] = s[i + j - 1]
  BY <1>1, <1>2, SubSeqProperties
<1>4. Len(SubSeq(s, i, n)) = n - i + 1
  BY <1>1, <1>3
<1>5. \A j \in 1 .. n - i + 1 : i + j - 1 \in i .. n
  BY <1>1
<1> QED BY <1>3, <1>4, <1>5

\* A map over a part is that part of the map.
LEMMA MapOfPart ==
    ASSUME NEW S, NEW s \in Seq(S), NEW f,
           NEW i \in 1 .. Len(s) + 1, NEW n \in i - 1 .. Len(s)
    PROVE  LET part == SubSeq(s, i, n)
               map == [j \in DOMAIN s |-> f[s[j]]]
           IN  /\ [j \in DOMAIN part |-> f[part[j]]] = SubSeq(map, i, n)
               /\ Len(map) = Len(s)
<1> DEFINE part == SubSeq(s, i, n)
           map == [j \in DOMAIN s |-> f[s[j]]]
           mapOfPart == [j \in DOMAIN part |-> f[part[j]]]
           T == {f[x] : x \in S}
<1>1. Len(s) \in Nat /\ DOMAIN s = 1 .. Len(s) /\ \A j \in 1 .. Len(s) : s[j] \in S
  BY LenProperties, ElementOfSeq
<1>2. /\ part \in Seq(S) /\ Len(part) = n - i + 1
      /\ \A j \in 1 .. n - i + 1 : i + j - 1 \in i .. n /\ part[j] = s[i + j - 1]
  BY PartOf
<1>3. DOMAIN part = 1 .. n - i + 1 /\ n - i + 1 \in Nat
      /\ \A j \in 1 .. n - i + 1 : part[j] \in S
  BY <1>1, <1>2, LenProperties, ElementOfSeq
<1> HIDE DEF part
<1>4. /\ map = [j \in 1 .. Len(s) |-> f[s[j]]] /\ map \in [1 .. Len(s) -> T]
  BY <1>1
<1>5. map \in Seq(T) /\ Len(map) = Len(s) /\ \A j \in 1 .. Len(s) : map[j] = f[s[j]]
  BY <1>1, <1>4, FunctionIsSeq
<1>6. /\ mapOfPart = [j \in 1 .. n - i + 1 |-> f[part[j]]]
      /\ mapOfPart \in [1 .. n - i + 1 -> T]
  BY <1>3
<1>7. mapOfPart \in Seq(T) /\ Len(mapOfPart) = n - i + 1
      /\ \A j \in 1 .. n - i + 1 : mapOfPart[j] = f[part[j]]
  BY <1>3, <1>6, FunctionIsSeq
<1> HIDE DEF map, mapOfPart
<1>8. /\ SubSeq(map, i, n) \in Seq(T) /\ Len(SubSeq(map, i, n)) = n - i + 1
      /\ \A j \in 1 .. n - i + 1 : SubSeq(map, i, n)[j] = map[i + j - 1]
  <2> HIDE DEF T
  <2> QED BY <1>5, PartOf
<1>9. \A j \in 1 .. n - i + 1 : mapOfPart[j] = SubSeq(map, i, n)[j]
  <2> SUFFICES ASSUME NEW j \in 1 .. n - i + 1 PROVE mapOfPart[j] = SubSeq(map, i, n)[j]
    OBVIOUS
  <2>1. i + j - 1 \in 1 .. Len(s)
    BY <1>1, <1>2
  <2> QED BY <2>1, <1>2, <1>5, <1>7, <1>8
<1>10. mapOfPart = SubSeq(map, i, n)
  <2> HIDE DEF T
  <2> QED BY <1>7, <1>8, <1>9, SeqEqual
<1> QED BY <1>5, <1>10 DEF part, map, mapOfPart

\* What is listed, each once, is as many as the listing is long.
LEMMA ListedOnce ==
    ASSUME NEW S, NEW s \in Seq(S), \A x \in S : \E i \in 1 .. Len(s) : s[i] = x,
           \A i, j \in 1 .. Len(s) : i < j => s[i] # s[j]
    PROVE  Len(s) = Cardinality(S) /\ ToSet(s) = S
<1>1. Len(s) \in Nat /\ s \in [1 .. Len(s) -> S] /\ DOMAIN s = 1 .. Len(s)
  BY LenProperties
<1>2. \A i, j \in 1 .. Len(s) : s[i] = s[j] => i = j
  BY <1>1
<1>3. s \in Bijection(1 .. Len(s), S)
  BY <1>1, <1>2 DEF Bijection, Injection, Surjection, IsInjective
<1>4. ExistsBijection(1 .. Len(s), S)
  BY <1>3 DEF ExistsBijection
<1>5. Cardinality(S) = Len(s)
  BY <1>4, <1>1, FS_NatBijection, FS_CountingElements
<1>6. ToSet(s) = S
  BY <1>1 DEF ToSet
<1> QED BY <1>5, <1>6

\* The beginning of a sequence in order is what is in it, in order.
LEMMA BeginningInOrder ==
    ASSUME NEW S, S \subseteq Seq(Nat), NEW reverse, NEW s, InOrder(s, S, reverse),
           NEW n \in 0 .. Len(s)
    PROVE  /\ Len(SubSeq(s, 1, n)) = n
           /\ \A i \in 1 .. n : SubSeq(s, 1, n)[i] = s[i]
           /\ InOrder(SubSeq(s, 1, n), {s[i] : i \in 1 .. n}, reverse)
<1> DEFINE t == SubSeq(s, 1, n)
           T == {s[i] : i \in 1 .. n}
<1>1. s \in Seq(S) /\ Len(s) \in Nat
  BY LenProperties DEF InOrder
<1>2. t \in Seq(T) /\ Len(t) = n /\ \A i \in 1 .. n : t[i] = s[i]
  <2>1. \A i \in 1 .. n : s[i] \in T
    OBVIOUS
  <2> HIDE DEF T
  <2>2. /\ t \in Seq(T) /\ Len(t) = IF 1 <= n THEN n - 1 + 1 ELSE 0
        /\ \A i \in 1 .. n - 1 + 1 : t[i] = s[1 + i - 1]
    BY <2>1, SubSeqProperties
  <2> HIDE DEF t
  <2>3. Len(t) = n
    BY <2>2
  <2>4. ASSUME NEW i \in 1 .. n PROVE t[i] = s[i]
    <3>1. i \in 1 .. n - 1 + 1 /\ 1 + i - 1 = i
      OBVIOUS
    <3> QED BY <3>1, <2>2
  <2> QED BY <2>2, <2>3, <2>4
<1> HIDE DEF t
<1>3. \A k \in T : \E i \in 1 .. Len(t) : t[i] = k
  BY <1>2
<1>4. ASSUME NEW i \in 1 .. Len(t), NEW j \in 1 .. Len(t), i < j
      PROVE  Comes(t[i], t[j], reverse)
  <2>1. i \in 1 .. Len(s) /\ j \in 1 .. Len(s)
    BY <1>1, <1>2
  <2>2. Comes(s[i], s[j], reverse)
    BY <2>1, <1>4 DEF InOrder
  <2> QED BY <2>2, <1>2
<1> QED BY <1>2, <1>3, <1>4 DEF InOrder, t

\* In a sequence in order, what comes before another member is at an earlier place.
LEMMA EarlierInOrder ==
    ASSUME NEW S, S \subseteq Seq(Nat), NEW reverse, NEW s, InOrder(s, S, reverse),
           NEW i \in 1 .. Len(s), NEW j \in 1 .. Len(s)
    PROVE  /\ s[i] \in S /\ s[i] \in Seq(Nat)
           /\ Comes(s[i], s[j], reverse) <=> i < j
<1>1. s[i] \in S /\ s[j] \in S /\ s[i] \in Seq(Nat) /\ s[j] \in Seq(Nat)
  BY ElementOfSeq DEF InOrder
<1>2. i < j => Comes(s[i], s[j], reverse)
  BY DEF InOrder
<1>3. j < i => Comes(s[j], s[i], reverse)
  BY DEF InOrder
<1>4. i < j \/ j < i \/ i = j
  OBVIOUS
<1>5. i = j => ~Comes(s[i], s[j], reverse)
  BY <1>1, ComesIsOrder
<1>6. j < i => ~Comes(s[i], s[j], reverse)
  BY <1>1, <1>3, ComesIsOrder
<1> QED BY <1>1, <1>2, <1>4, <1>5, <1>6

\* The end of a sequence in order is what is in it, in order.
LEMMA EndInOrder ==
    ASSUME NEW S, S \subseteq Seq(Nat), NEW reverse, NEW s, InOrder(s, S, reverse),
           NEW i \in 1 .. Len(s)
    PROVE  InOrder(SubSeq(s, i, Len(s)),
                   {k \in S : k = s[i] \/ Comes(s[i], k, reverse)}, reverse)
<1> DEFINE t == SubSeq(s, i, Len(s))
           T == {k \in S : k = s[i] \/ Comes(s[i], k, reverse)}
           n == Len(s) - i + 1
<1>1. s \in Seq(S) /\ Len(s) \in Nat
  BY LenProperties DEF InOrder
<1>2. i \in 1 .. Len(s) + 1 /\ Len(s) \in i - 1 .. Len(s) /\ n \in Nat
  BY <1>1
<1>3. /\ t \in Seq(S) /\ Len(t) = n
      /\ \A j \in 1 .. n : i + j - 1 \in i .. Len(s) /\ t[j] = s[i + j - 1]
  BY <1>1, <1>2, PartOf
<1>4. /\ \A j \in 1 .. Len(s) : s[j] \in S
      /\ \A j, m \in 1 .. Len(s) : Comes(s[j], s[m], reverse) <=> j < m
  BY EarlierInOrder, ElementOfSeq DEF InOrder
<1> HIDE DEF t
<1>5. ASSUME NEW j \in 1 .. n PROVE t[j] \in T
  <2> DEFINE m == i + j - 1
  <2>1. m \in 1 .. Len(s) /\ (m = i \/ i < m) /\ t[j] = s[m]
    BY <1>1, <1>3
  <2> HIDE DEF m
  <2>2. s[m] = s[i] \/ Comes(s[i], s[m], reverse)
    BY <2>1, <1>4
  <2>3. s[m] \in S
    BY <2>1, <1>4
  <2>4. s[m] \in T
    BY <2>2, <2>3, Zenon
  <2> QED BY <2>1, <2>4
<1>6. t \in Seq(T)
  <2>1. t \in [1 .. n -> S] /\ t = [j \in 1 .. n |-> t[j]]
    BY <1>3, LenProperties
  <2> HIDE DEF T, n
  <2>2. t \in [1 .. n -> T]
    BY <2>1, <1>5
  <2> QED BY <2>2, <1>2, FunctionIsSeq
<1>7. ASSUME NEW k \in T PROVE \E j \in 1 .. n : t[j] = k
  <2>1. PICK m \in 1 .. Len(s) : s[m] = k
    BY DEF InOrder
  <2>2. ~(m < i)
    <3> SUFFICES ASSUME m < i PROVE FALSE
      OBVIOUS
    <3>1. Comes(s[m], s[i], reverse) /\ s[m] \in Seq(Nat) /\ s[i] \in Seq(Nat)
      <4>1. s[m] \in S /\ s[i] \in S
        BY <2>1, <1>4
      <4>2. Comes(s[m], s[i], reverse)
        BY <2>1, <1>4
      <4> QED BY <4>1, <4>2
    <3>2. s[m] = s[i] \/ Comes(s[i], s[m], reverse)
      BY <2>1
    <3> QED BY <3>1, <3>2, ComesIsOrder
  <2>3. i <= m
    BY <2>2
  <2>4. m - i + 1 \in 1 .. n /\ i + (m - i + 1) - 1 = m
    BY <2>3, <1>1
  <2>5. t[m - i + 1] = k
    BY <2>1, <2>4, <1>3
  <2> QED BY <2>4, <2>5
<1>8. ASSUME NEW j \in 1 .. n, NEW m \in 1 .. n, j < m PROVE Comes(t[j], t[m], reverse)
  <2>1. i + j - 1 \in 1 .. Len(s) /\ i + m - 1 \in 1 .. Len(s) /\ i + j - 1 < i + m - 1
    BY <1>1, <1>8
  <2> QED BY <2>1, <1>3, <1>4
<1> QED BY <1>3, <1>6, <1>7, <1>8 DEF InOrder, t

\* The run of a scan is the keys with the prefix, where no key without it comes
\* before one with it.
LEMMA RunInOrder ==
    ASSUME NEW S, S \subseteq Seq(Nat), NEW reverse, NEW s, InOrder(s, S, reverse),
           NEW prefix,
           \A a, b \in S : Comes(a, b, reverse) /\ IsPrefix(prefix, b) => IsPrefix(prefix, a)
    PROVE  InOrder(Run(prefix, s), {k \in S : IsPrefix(prefix, k)}, reverse)
<1> DEFINE I == {i \in 1 .. Len(s) : ~IsPrefix(prefix, s[i])}
           stray == SelectInSeq(s, LAMBDA k : ~IsPrefix(prefix, k))
           M == {k \in S : IsPrefix(prefix, k)}
<1>1. s \in Seq(S) /\ Len(s) \in Nat /\ \A i \in 1 .. Len(s) : s[i] \in S
  BY LenProperties, ElementOfSeq DEF InOrder
<1>2. stray = IF I # {} THEN Min(I) ELSE 0
  BY DEF SelectInSeq
<1>3. Run(prefix, s) = IF stray = 0 THEN s ELSE SubSeq(s, 1, stray - 1)
  BY DEF Run
<1> HIDE DEF stray
<1>4. CASE I = {}
  <2>1. Run(prefix, s) = s
    BY <1>2, <1>3, <1>4
  <2>2. ASSUME NEW k \in S PROVE IsPrefix(prefix, k)
    <3>1. PICK i \in 1 .. Len(s) : s[i] = k
      BY DEF InOrder
    <3> QED BY <3>1, <1>4
  <2>3. M = S
    BY <2>2
  <2> QED BY <2>1, <2>3
<1>5. CASE I # {}
  <2>1. I \subseteq Nat
    OBVIOUS
  <2>2. Min(I) \in I /\ \A y \in I : Min(I) <= y
    <3> HIDE DEF I
    <3> QED BY <2>1, <1>5, MinIsLeast
  <2>3. /\ stray \in 1 .. Len(s) /\ ~IsPrefix(prefix, s[stray])
        /\ \A i \in 1 .. Len(s) : i < stray => IsPrefix(prefix, s[i])
    <3>1. stray = Min(I)
      BY <1>2, <1>5
    <3>2. stray \in I /\ \A y \in I : stray <= y
      BY <3>1, <2>2
    <3>3. ASSUME NEW i \in 1 .. Len(s), i < stray PROVE IsPrefix(prefix, s[i])
      <4>1. ~(stray <= i)
        BY <3>2, <3>3
      <4> QED BY <3>2, <4>1
    <3> QED BY <3>2, <3>3
  <2> DEFINE n == stray - 1
             T == {s[i] : i \in 1 .. n}
  <2>4. n \in 0 .. Len(s) /\ n < stray
    BY <2>3, <1>1
  <2>5. InOrder(SubSeq(s, 1, n), T, reverse)
    <3> HIDE DEF n
    <3> QED BY <2>4, BeginningInOrder
  <2>6. ASSUME NEW k \in T PROVE k \in M
    <3>1. PICK i \in 1 .. n : k = s[i]
      OBVIOUS
    <3>2. i \in 1 .. Len(s) /\ i < stray
      BY <2>3
    <3> QED BY <3>1, <3>2, <2>3, <1>1
  <2>7. ASSUME NEW k \in M PROVE k \in T
    <3>1. PICK i \in 1 .. Len(s) : s[i] = k
      BY DEF InOrder
    <3>2. ~(stray < i)
      <4> SUFFICES ASSUME stray < i PROVE FALSE
        OBVIOUS
      <4>1. Comes(s[stray], s[i], reverse)
        BY <2>3 DEF InOrder
      <4>2. s[stray] \in S /\ s[i] \in S /\ IsPrefix(prefix, s[i])
        BY <2>3, <3>1, <1>1
      <4> QED BY <4>1, <4>2, <2>3
    <3>3. i # stray
      BY <3>1, <2>3
    <3>4. i \in 1 .. n
      BY <3>2, <3>3, <2>3
    <3> QED BY <3>1, <3>4
  <2>8. T = M
    BY <2>6, <2>7
  <2>9. Run(prefix, s) = SubSeq(s, 1, n)
    BY <1>3, <2>3
  <2> QED BY <2>5, <2>8, <2>9
<1> QED BY <1>4, <1>5

\* The scan from a key with the prefix runs over the rest of what the listing of
\* the prefix holds.
LEMMA RunFromKey ==
    ASSUME StoreOfStrings, NEW id \in Seq(Nat), NEW prefix \in Seq(Nat),
           NEW i \in 1 .. Len(eachPrefix(id, prefix))
    PROVE  Run(prefix, listInRange(id, eachPrefix(id, prefix)[i], <<>>, FALSE))
               = SubSeq(eachPrefix(id, prefix), i, Len(eachPrefix(id, prefix)))
<1> DEFINE keys == eachPrefix(id, prefix)
           K == {k \in KeysUnder(id) : IsPrefix(prefix, k)}
           key == keys[i]
           S == KeysBetween(id, key, <<>>)
           M == {k \in S : IsPrefix(prefix, k)}
           E == {k \in K : k = keys[i] \/ Comes(keys[i], k, FALSE)}
<1>1. K \subseteq Seq(Nat) /\ S \subseteq Seq(Nat) /\ E \subseteq Seq(Nat)
  BY DEF KeysUnder, KeysBetween
<1>2. InOrder(keys, K, FALSE) /\ i \in 1 .. Len(keys)
  BY PrefixInOrder
<1> HIDE DEF keys, K
<1>3. key \in K /\ key \in Seq(Nat)
  BY <1>1, <1>2, EarlierInOrder
<1>4. InOrder(SubSeq(keys, i, Len(keys)), E, FALSE)
  BY <1>1, <1>2, EndInOrder DEF keys
<1>5. <<>> \in Seq(Nat) /\ FALSE \in BOOLEAN
  BY EmptySeq
<1> HIDE DEF key, S
<1>6. InOrder(listInRange(id, key, <<>>, FALSE), S, FALSE)
  BY <1>3, <1>5, RangeInOrder DEF S
<1>7. S = {k \in KeysUnder(id) : ~Below(k, key)}
  BY EmptyBegins DEF S, KeysBetween, KeysUnder
<1>8. ASSUME NEW a \in S, NEW b \in S, Comes(a, b, FALSE), IsPrefix(prefix, b)
      PROVE  IsPrefix(prefix, a)
  <2>1. a \in Seq(Nat) /\ b \in Seq(Nat) /\ ~Below(a, key) /\ IsPrefix(prefix, key)
    BY <1>1, <1>3, <1>7 DEF K
  <2>2. ~Below(b, a)
    BY <1>8, <2>1, BelowAsymmetric DEF Comes
  <2> QED BY <1>3, <1>8, <2>1, <2>2, PrefixConvex
<1>9. InOrder(Run(prefix, listInRange(id, key, <<>>, FALSE)), M, FALSE)
  <2> DEFINE s == listInRange(id, key, <<>>, FALSE)
  <2> HIDE DEF s
  <2>1. InOrder(s, S, FALSE)
    BY <1>6 DEF s
  <2>2. InOrder(Run(prefix, s), M, FALSE)
    BY <1>1, <1>8, <2>1, RunInOrder
  <2> QED BY <2>2 DEF s
<1>10. M = E
  <2>1. ASSUME NEW k \in K PROVE ~Below(k, key) <=> k = key \/ Below(key, k)
    BY <2>1, <1>1, <1>3, BelowTotal, BelowAsymmetric, BelowIrreflexive
  <2>2. M = {k \in K : ~Below(k, key)}
    BY <1>7 DEF K
  <2>3. E = {k \in K : k = key \/ Below(key, k)}
    BY DEF Comes, key
  <2> HIDE DEF M, E
  <2> QED BY <2>1, <2>2, <2>3
<1>11. Run(prefix, listInRange(id, key, <<>>, FALSE)) = SubSeq(keys, i, Len(keys))
  <2> HIDE DEF M, E
  <2> QED BY <1>1, <1>4, <1>9, <1>10, InOrderUnique
<1> QED BY <1>11 DEF key, keys

\* A token is that of the first of a set, or there is none when the set is empty.
IsTokenOfFirst(token, S, reverse) ==
    IF S = {} THEN token = NoToken
    ELSE \E k \in S : token = Token(k, reverse) /\ \A j \in S : ~Comes(j, k, reverse)

\* A page takes the first keys of a run, up to the limit, and its token onward is
\* that of the first key left.
LEMMA TakenAndAfter ==
    ASSUME NEW M, M \subseteq Seq(Nat), NEW reverse, NEW run, InOrder(run, M, reverse),
           NEW limit \in Nat
    PROVE  LET taken == Taken(run, limit)
               rest == M \ ToSet(taken)
           IN  /\ ToSet(taken) \subseteq M
               /\ InOrder(taken, ToSet(taken), reverse)
               /\ \A k \in rest, t \in ToSet(taken) : Comes(t, k, reverse)
               /\ Len(taken) <= limit /\ (rest # {} => Len(taken) = limit)
               /\ IsTokenOfFirst(After(run, limit, reverse), rest, reverse)
<1> DEFINE n == Min({limit, Len(run)})
           taken == Taken(run, limit)
           T == {run[i] : i \in 1 .. n}
           rest == M \ T
<1>1. run \in Seq(M) /\ Len(run) \in Nat /\ \A i \in 1 .. Len(run) : run[i] \in M
  BY LenProperties, ElementOfSeq DEF InOrder
<1>2. /\ n \in 0 .. Len(run) /\ n <= limit
      /\ limit < Len(run) => n = limit
      /\ ~(limit < Len(run)) => n = Len(run)
  <2> DEFINE P == {limit, Len(run)}
  <2>1. P \subseteq Nat /\ P # {}
    BY <1>1
  <2>2. Min(P) \in P /\ \A y \in P : Min(P) <= y
    <3> HIDE DEF P
    <3> QED BY <2>1, MinIsLeast
  <2>3. (n = limit \/ n = Len(run)) /\ n <= limit /\ n <= Len(run)
    BY <2>2
  <2> HIDE DEF n
  <2> QED BY <2>3, <1>1
<1>3. taken = SubSeq(run, 1, n)
  BY DEF Taken
<1> HIDE DEF n, taken
<1>4. /\ Len(taken) = n /\ \A i \in 1 .. n : taken[i] = run[i]
      /\ InOrder(taken, T, reverse)
  BY <1>2, <1>3, BeginningInOrder
<1>5. ToSet(taken) = T
  <2>1. DOMAIN taken = 1 .. n
    BY <1>4, LenProperties DEF InOrder
  <2>2. ToSet(taken) = {taken[i] : i \in 1 .. n}
    BY <2>1 DEF ToSet
  <2> QED BY <2>2, <1>4
<1>6. T \subseteq M
  BY <1>1, <1>2
<1>7. ASSUME NEW k \in rest
      PROVE  \E i \in 1 .. Len(run) : run[i] = k /\ n < i
  <2>1. PICK i \in 1 .. Len(run) : run[i] = k
    BY DEF InOrder
  <2>2. ~(i <= n)
    BY <2>1, <1>2
  <2>3. n < i
    BY <2>2, <1>2
  <2> QED BY <2>1, <2>3
<1>8. ASSUME NEW k \in rest, NEW t \in T PROVE Comes(t, k, reverse)
  <2>1. PICK i \in 1 .. Len(run) : run[i] = k /\ n < i
    BY <1>7
  <2>2. PICK j \in 1 .. n : t = run[j]
    OBVIOUS
  <2>3. j \in 1 .. Len(run) /\ j < i
    BY <2>1, <2>2, <1>2
  <2> QED BY <2>1, <2>2, <2>3 DEF InOrder
<1>9. ASSUME rest # {} PROVE Len(taken) = limit /\ limit < Len(run)
  <2>1. PICK k \in rest : TRUE
    BY <1>9
  <2>2. PICK i \in 1 .. Len(run) : run[i] = k /\ n < i
    BY <1>7
  <2>3. n < Len(run)
    BY <2>2, <1>1, <1>2
  <2> QED BY <2>3, <1>2, <1>4, <1>1
<1>10. IsTokenOfFirst(After(run, limit, reverse), rest, reverse)
  <2>1. CASE rest = {}
    <3>1. ~(limit < Len(run))
      <4> SUFFICES ASSUME limit < Len(run) PROVE FALSE
        OBVIOUS
      <4>1. n = limit /\ n + 1 \in 1 .. Len(run)
        BY <1>1, <1>2
      <4>2. run[n + 1] \in T
        BY <4>1, <1>1, <2>1
      <4>3. PICK j \in 1 .. n : run[j] = run[n + 1]
        BY <4>2
      <4>4. j \in 1 .. Len(run) /\ j < n + 1
        BY <4>1, <1>1, <1>2
      <4>5. Comes(run[j], run[n + 1], reverse) /\ run[j] \in Seq(Nat)
        BY <4>1, <4>4, <1>1 DEF InOrder
      <4> QED BY <4>3, <4>5, ComesIsOrder
    <3>2. After(run, limit, reverse) = NoToken
      BY <3>1, <1>1 DEF After
    <3> QED BY <3>2, <2>1 DEF IsTokenOfFirst
  <2>2. CASE rest # {}
    <3>1. limit < Len(run) /\ n = limit /\ limit + 1 \in 1 .. Len(run)
      BY <2>2, <1>9, <1>2, <1>1
    <3> DEFINE k == run[limit + 1]
    <3>2. k \in M /\ k \in Seq(Nat)
      BY <3>1, <1>1
    <3>3. k \notin T
      <4> SUFFICES ASSUME k \in T PROVE FALSE
        OBVIOUS
      <4>1. PICK j \in 1 .. n : k = run[j]
        OBVIOUS
      <4>2. j \in 1 .. Len(run) /\ j < limit + 1
        BY <3>1, <1>1
      <4>3. Comes(run[j], k, reverse)
        BY <4>2, <3>1 DEF InOrder
      <4> QED BY <4>1, <4>3, <3>2, ComesIsOrder
    <3>4. ASSUME NEW j \in rest PROVE ~Comes(j, k, reverse)
      <4>1. PICK i \in 1 .. Len(run) : run[i] = j /\ n < i
        BY <1>7
      <4>2. i = limit + 1 \/ limit + 1 < i
        BY <4>1, <3>1
      <4>3. limit + 1 < i => Comes(k, j, reverse)
        BY <4>1, <3>1 DEF InOrder
      <4>4. j \in Seq(Nat)
        BY <4>1, <1>1
      <4> QED BY <4>1, <4>2, <4>3, <4>4, <3>2, ComesIsOrder
    <3>5. After(run, limit, reverse) = Token(k, reverse)
      BY <3>1 DEF After
    <3> QED BY <3>2, <3>3, <3>4, <3>5, <2>2 DEF IsTokenOfFirst
  <2> QED BY <2>1, <2>2
<1> QED BY <1>2, <1>4, <1>5, <1>6, <1>8, <1>9, <1>10 DEF taken

\* The token beside a key is that of the first other key of the run.
LEMMA AdjacentIsFirst ==
    ASSUME NEW M, M \subseteq Seq(Nat), NEW reverse, NEW run, InOrder(run, M, reverse),
           NEW key
    PROVE  IsTokenOfFirst(Adjacent(run, key, reverse), M \ {key}, reverse)
<1> DEFINE I == {i \in 1 .. Len(run) : run[i] # key}
           first == SelectInSeq(run, LAMBDA k : k # key)
<1>1. run \in Seq(M) /\ Len(run) \in Nat /\ \A i \in 1 .. Len(run) : run[i] \in M
  BY LenProperties, ElementOfSeq DEF InOrder
<1>2. first = IF I # {} THEN Min(I) ELSE 0
  BY DEF SelectInSeq
<1>3. Adjacent(run, key, reverse) =
          IF first = 0 THEN NoToken ELSE Token(run[first], reverse)
  BY DEF Adjacent
<1> HIDE DEF first
<1>4. CASE I = {}
  <2>1. ASSUME NEW k \in M PROVE k = key
    <3>1. PICK i \in 1 .. Len(run) : run[i] = k
      BY DEF InOrder
    <3> QED BY <3>1, <1>4
  <2>2. M \ {key} = {}
    BY <2>1
  <2> QED BY <2>2, <1>2, <1>3, <1>4 DEF IsTokenOfFirst
<1>5. CASE I # {}
  <2>1. I \subseteq Nat
    OBVIOUS
  <2>2. Min(I) \in I /\ \A y \in I : Min(I) <= y
    <3> HIDE DEF I
    <3> QED BY <2>1, <1>5, MinIsLeast
  <2>3. first \in I /\ \A y \in I : first <= y
    BY <1>2, <1>5, <2>2
  <2>4. /\ first \in 1 .. Len(run) /\ run[first] # key /\ first # 0
        /\ run[first] \in M /\ run[first] \in Seq(Nat)
    BY <2>3, <1>1
  <2>5. ASSUME NEW j \in M \ {key} PROVE ~Comes(j, run[first], reverse)
    <3>1. PICK i \in 1 .. Len(run) : run[i] = j
      BY DEF InOrder
    <3>2. i \in I
      BY <3>1
    <3>3. first = i \/ first < i
      BY <3>2, <2>3, <2>4
    <3>4. first < i => Comes(run[first], j, reverse)
      BY <3>1, <2>4 DEF InOrder
    <3>5. j \in Seq(Nat)
      OBVIOUS
    <3> QED BY <3>1, <3>3, <3>4, <3>5, <2>4, ComesIsOrder
  <2> HIDE DEF I
  <2>6. Adjacent(run, key, reverse) = Token(run[first], reverse)
    BY <1>3, <2>4
  <2>7. run[first] \in M \ {key}
    BY <2>4
  <2> QED BY <2>5, <2>6, <2>7 DEF IsTokenOfFirst
<1> QED BY <1>4, <1>5
=============================================================================
