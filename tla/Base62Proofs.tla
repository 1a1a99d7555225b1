---------------------------- MODULE Base62Proofs ----------------------------
(***************************************************************************)
(* What Base62 promises for every alphabet, every string of bytes, every   *)
(* text, every buffer and every width of integers.                         *)
(***************************************************************************)
EXTENDS Base62, SequenceTheorems, FiniteSetTheorems, WellFoundedInduction, TLAPS

-----------------------------------------------------------------------------
(* Induction up to a number, and functions defined by it.                  *)

\* A set that holds a number whenever it holds the lesser ones holds all.
LEMMA UpTo ==
    ASSUME NEW n \in Nat, NEW T,
           \A i \in 0 .. n : (\A j \in 0 .. i - 1 : j \in T) => i \in T
    PROVE  \A i \in 0 .. n : i \in T
<1> DEFINE R == {p \in Nat \X Nat : p[1] < p[2]}
           F == {i \in 0 .. n : i \notin T}
<1>1. IsWellFoundedOn(R, Nat)
  BY NatLessThanWellFounded DEF OpToRel
<1> SUFFICES ASSUME F # {} PROVE FALSE
  OBVIOUS
<1>2. PICK i \in F : \A j \in F : <<j, i>> \notin R
  <2>1. F \subseteq Nat
    OBVIOUS
  <2> HIDE DEF F, R
  <2> QED BY <1>1, <2>1, WFMin
<1>3. ASSUME NEW j \in 0 .. i - 1 PROVE j \in T
  <2>1. j \in 0 .. n /\ <<j, i>> \in Nat \X Nat /\ <<j, i>>[1] < <<j, i>>[2]
    OBVIOUS
  <2> QED BY <1>2, <2>1
<1> QED BY <1>2, <1>3

\* f is e up to 0, and its value at m is made from its value at p[m].
Recurs(f, lo, n, S, e, p, step) ==
    /\ f \in [lo .. n -> S]
    /\ \A m \in lo .. n : f[m] = IF m <= 0 THEN e ELSE step[<<m, f[p[m]]>>]

\* Such a function exists when p[m] is less than m.
LEMMA Recursion ==
    ASSUME NEW n \in Nat, NEW lo \in Int, lo <= 0, NEW S, NEW e \in S,
           NEW p \in [1 .. n -> lo .. n], \A m \in 1 .. n : p[m] < m,
           NEW step \in [(1 .. n) \X S -> S]
    PROVE  \E f : Recurs(f, lo, n, S, e, p, step)
<1> DEFINE Made(f, k) ==
               /\ f \in [lo .. k -> S]
               /\ \A m \in lo .. k : f[m] = IF m <= 0 THEN e ELSE step[<<m, f[p[m]]>>]
           T == {k \in 0 .. n : \E f : Made(f, k)}
<1>1. ASSUME NEW k \in 0 .. n, \A j \in 0 .. k - 1 : j \in T PROVE k \in T
  <2>1. CASE k = 0
    <3>1. Made([m \in lo .. 0 |-> e], 0)
      OBVIOUS
    <3> HIDE DEF Made
    <3> QED BY <2>1, <3>1
  <2>2. CASE k # 0
    <3>1. k \in 1 .. n /\ k - 1 \in 0 .. k - 1 /\ p[k] \in lo .. k - 1
      BY <2>2
    <3>2. PICK g : Made(g, k - 1)
      <4>1. k - 1 \in T
        BY <1>1, <3>1
      <4> HIDE DEF Made
      <4> QED BY <4>1
    <3> DEFINE v == step[<<k, g[p[k]]>>]
    <3>3. g[p[k]] \in S
      BY <3>1, <3>2
    <3>4. v \in S
      BY <3>1, <3>3
    <3> HIDE DEF v
    <3> DEFINE f == [m \in lo .. k |-> IF m = k THEN v ELSE g[m]]
    <3>5. f \in [lo .. k -> S]
      BY <3>1, <3>2, <3>4
    <3>6. ASSUME NEW m \in lo .. k
          PROVE  f[m] = IF m <= 0 THEN e ELSE step[<<m, f[p[m]]>>]
      <4>1. CASE m = k
        <5>1. f[p[k]] = g[p[k]]
          BY <3>1
        <5>2. f[m] = v /\ ~(m <= 0)
          BY <3>1, <4>1
        <5> HIDE DEF f
        <5> QED BY <4>1, <5>1, <5>2 DEF v
      <4>2. CASE m # k
        <5>1. m \in lo .. k - 1 /\ f[m] = g[m]
          BY <4>2
        <5>2. CASE m <= 0
          BY <5>1, <5>2, <3>2
        <5>3. CASE ~(m <= 0)
          <6>1. m \in 1 .. n /\ p[m] \in lo .. n /\ p[m] < m
            BY <5>3, <5>1
          <6>2. p[m] \in lo .. k /\ p[m] # k
            BY <5>1, <6>1
          <6>3. f[p[m]] = g[p[m]]
            BY <6>2
          <6>4. g[m] = step[<<m, g[p[m]]>>]
            BY <5>1, <5>3, <3>2
          <6> HIDE DEF f
          <6> QED BY <5>1, <5>3, <6>3, <6>4
        <5> QED BY <5>2, <5>3
      <4> QED BY <4>1, <4>2
    <3>7. Made(f, k)
      <4> HIDE DEF f
      <4> QED BY <3>5, <3>6
    <3> HIDE DEF Made
    <3> QED BY <3>7
  <2> QED BY <2>1, <2>2
<1>2. n \in 0 .. n
  OBVIOUS
<1>3. n \in T
  <2> HIDE DEF T
  <2> QED BY <1>1, <1>2, UpTo
<1>4. PICK f : Made(f, n)
  BY <1>3
<1>5. Recurs(f, lo, n, S, e, p, step)
  BY <1>4 DEF Recurs
<1> QED BY <1>5

-----------------------------------------------------------------------------
(* Shifts, codes and characters.                                           *)

LEMMA Shifts ==
    /\ shift[0] = 1 /\ shift[1] = 2 /\ shift[2] = 4 /\ shift[3] = 8 /\ shift[4] = 16
    /\ shift[5] = 32 /\ shift[6] = 64 /\ shift[7] = 128 /\ shift[8] = 256
BY DEF shift

LEMMA ShiftsAreNumbers == \A n \in 0 .. 8 : shift[n] \in Nat \ {0}
<1> SUFFICES ASSUME NEW n \in 0 .. 8 PROVE shift[n] \in Nat \ {0}
  OBVIOUS
<1>1. n = 0 \/ n = 1 \/ n = 2 \/ n = 3 \/ n = 4 \/ n = 5 \/ n = 6 \/ n = 7 \/ n = 8
  OBVIOUS
<1> QED BY <1>1, Shifts

LEMMA SmallShifts == \A n \in 0 .. 5 : shift[n] \in Nat /\ shift[n] <= 32
<1> SUFFICES ASSUME NEW n \in 0 .. 5 PROVE shift[n] \in Nat /\ shift[n] <= 32
  OBVIOUS
<1>1. n = 0 \/ n = 1 \/ n = 2 \/ n = 3 \/ n = 4 \/ n = 5
  OBVIOUS
<1> QED BY <1>1, Shifts

\* Len8 of what fits in r bits is at most r.
LEMMA LengthOfByte ==
    ASSUME NEW x \in 0 .. 255, NEW r \in 0 .. 8, x < shift[r]
    PROVE  Len8(x) \in 0 .. r /\ x < shift[Len8(x)]
<1> DEFINE P(n) == x < shift[n] /\ \A m \in 0 .. n - 1 : x >= shift[m]
           F == {n \in 0 .. r : x >= shift[n]}
           T == {n \in 0 .. r : ~\E k \in 0 .. n : P(k)}
<1>1. ASSUME NEW n \in 0 .. 8 PROVE shift[n] \in Nat
  BY ShiftsAreNumbers
<1>2. \E n \in 0 .. r : P(n)
  <2> SUFFICES ASSUME \A n \in 0 .. r : ~P(n) PROVE FALSE
    OBVIOUS
  <2>1. ASSUME NEW i \in 0 .. r, \A j \in 0 .. i - 1 : j \in F PROVE i \in F
    <3>1. \A j \in 0 .. i - 1 : x >= shift[j]
      BY <2>1
    <3>2. ~(x < shift[i])
      BY <3>1
    <3> QED BY <3>2, <1>1
  <2>2. r \in F
    <3> HIDE DEF F
    <3> QED BY <2>1, UpTo
  <2> QED BY <2>2, <1>1
<1>3. PICK n \in 0 .. r : P(n)
  BY <1>2
<1>4. Len8(x) \in 0 .. 8 /\ P(Len8(x))
  <2>1. Len8(x) = CHOOSE k \in 0 .. 8 : P(k)
    BY DEF Len8
  <2>2. n \in 0 .. 8
    OBVIOUS
  <2> HIDE DEF P
  <2> QED BY <1>3, <2>1, <2>2
<1>5. ~(r < Len8(x))
  BY <1>1, <1>4
<1> QED BY <1>4, <1>5

\* The least and the greatest of numbers up to n.
LEMMA Bounds ==
    ASSUME NEW n \in Nat, NEW S, S \subseteq 0 .. n, S # {}
    PROVE  /\ Min(S) \in S /\ \A x \in S : Min(S) <= x
           /\ Max(S) \in S /\ \A x \in S : x <= Max(S)
<1>1. \E x \in S : \A y \in S : x <= y
  <2> SUFFICES ASSUME \A x \in S : \E y \in S : ~(x <= y) PROVE FALSE
    OBVIOUS
  <2> DEFINE T == {i \in 0 .. n : i \notin S}
  <2>1. ASSUME NEW i \in 0 .. n, \A j \in 0 .. i - 1 : j \in T PROVE i \in T
    <3>1. \A j \in 0 .. i - 1 : j \notin S
      BY <2>1
    <3>2. \A y \in S : i <= y
      BY <3>1
    <3> QED BY <3>2
  <2>2. \A i \in 0 .. n : i \in T
    <3> HIDE DEF T
    <3> QED BY <2>1, UpTo
  <2> QED BY <2>2
<1>2. \E x \in S : \A y \in S : x >= y
  <2> SUFFICES ASSUME \A x \in S : \E y \in S : ~(x >= y) PROVE FALSE
    OBVIOUS
  <2> DEFINE T == {i \in 0 .. n : n - i \notin S}
  <2>1. ASSUME NEW i \in 0 .. n, \A j \in 0 .. i - 1 : j \in T PROVE i \in T
    <3>1. ASSUME NEW y \in S PROVE n - i >= y
      <4>1. CASE y > n - i
        <5>1. n - y \in 0 .. i - 1 /\ n - (n - y) = y
          BY <4>1
        <5>2. n - y \in T
          BY <2>1, <5>1
        <5> QED BY <5>1, <5>2
      <4> QED BY <4>1
    <3> QED BY <3>1
  <2>2. \A i \in 0 .. n : i \in T
    <3> HIDE DEF T
    <3> QED BY <2>1, UpTo
  <2>3. PICK y \in S : TRUE
    OBVIOUS
  <2>4. n - y \in 0 .. n /\ n - (n - y) = y
    OBVIOUS
  <2>5. n - y \in T
    <3> HIDE DEF T
    <3> QED BY <2>2, <2>4
  <2> QED BY <2>4, <2>5
<1>3. Min(S) \in S /\ \A x \in S : Min(S) <= x
  BY <1>1 DEF Min
<1>4. Max(S) \in S /\ \A x \in S : Max(S) >= x
  BY <1>2 DEF Max
<1>5. \A x \in S : x <= Max(S)
  BY <1>4
<1> QED BY <1>3, <1>4, <1>5

Characters == Range(Alphabet)

LEMMA CharactersAre ==
    /\ Characters \subseteq 0 .. 255
    /\ Characters = {Alphabet[k] : k \in 1 .. 62}
    /\ \A k \in 1 .. 62 : Alphabet[k] \in Characters
<1>1. DOMAIN Alphabet = 1 .. 62 /\ \A k \in 1 .. 62 : Alphabet[k] \in 0 .. 255
  <2>1. Alphabet \in [1 .. 62 -> (0 .. 255) \ {10, 13}]
    BY AlphabetAssumption DEF base
  <2>2. \A k \in 1 .. 62 : Alphabet[k] \in (0 .. 255) \ {10, 13}
    BY <2>1
  <2> QED BY <2>1, <2>2
<1>2. Characters = {Alphabet[k] : k \in 1 .. 62}
  BY <1>1 DEF Characters, Range
<1>3. \A k \in 1 .. 62 : Alphabet[k] \in Characters
  BY <1>2, Zenon
<1>4. Characters \subseteq 0 .. 255
  <2>1. \A k \in 1 .. 62 : Alphabet[k] \in 0 .. 255
    BY <1>1
  <2>2. SUFFICES ASSUME NEW c \in Characters PROVE c \in 0 .. 255
    OBVIOUS
  <2>3. PICK k \in 1 .. 62 : c = Alphabet[k]
    BY <1>2
  <2> QED BY <2>1, <2>3
<1> QED BY <1>2, <1>3, <1>4

LEMMA CharactersAreBytes == \A k \in 1 .. 62 : Alphabet[k] \in 0 .. 255
BY CharactersAre, Zenon

LEMMA FirstIsByte == Alphabet[1] \in 0 .. 255
<1> DEFINE places == 1 .. 62
           bytes == 0 .. 255
<1>1. 1 \in places
  OBVIOUS
<1>2. \A k \in places : Alphabet[k] \in bytes
  BY CharactersAreBytes, Zenon
<1> HIDE DEF places, bytes
<1>3. Alphabet[1] \in bytes
  BY <1>1, <1>2, Zenon
<1> QED BY <1>3 DEF bytes

\* A character has a code, and only a character.
LEMMA CodesAre ==
    ASSUME NEW c \in 0 .. 255
    PROVE  IF c \in Characters THEN decodeMap[c] \in 0 .. 61 ELSE decodeMap[c] = Illegal
<1> DEFINE codes == {i \in 1 .. 62 : Alphabet[i] = c}
<1>1. decodeMap[c] = IF codes = {} THEN Illegal ELSE Max(codes) - 1
  BY DEF decodeMap, base
<1>2. c \in Characters <=> codes # {}
  BY CharactersAre
<1>3. codes # {} => Max(codes) \in codes
  <2>1. codes \subseteq 0 .. 62
    OBVIOUS
  <2> HIDE DEF codes
  <2> QED BY <2>1, Bounds
<1> QED BY <1>1, <1>2, <1>3

\* NewEncoding takes an alphabet with equal characters; what it writes then cannot be
\* read back.
CharactersDiffer == \A i, j \in 1 .. base : Alphabet[i] = Alphabet[j] => i = j

LEMMA CodeOfCharacter ==
    ASSUME CharactersDiffer, NEW x \in 0 .. 61
    PROVE  decodeMap[Alphabet[x + 1]] = x
<1> DEFINE codes == {i \in 1 .. 62 : Alphabet[i] = Alphabet[x + 1]}
<1>1. x + 1 \in 1 .. 62 /\ Alphabet[x + 1] \in 0 .. 255
  <2>1. x + 1 \in 1 .. 62
    OBVIOUS
  <2> QED BY <2>1, CharactersAreBytes, Zenon
<1>2. codes = {x + 1}
  BY <1>1 DEF CharactersDiffer, base
<1>3. decodeMap[Alphabet[x + 1]] = IF codes = {} THEN Illegal ELSE Max(codes) - 1
  BY <1>1 DEF decodeMap, base
<1>4. Max(codes) \in codes
  <2>1. codes \subseteq 0 .. 62 /\ codes # {}
    BY <1>2
  <2> HIDE DEF codes
  <2> QED BY <2>1, Bounds
<1>5. Max(codes) = x + 1
  BY <1>2, <1>4
<1> QED BY <1>2, <1>3, <1>5

-----------------------------------------------------------------------------
(* The encoders.                                                           *)

\* Where a position is: r bits into the byte i + 1.
LEMMA Places ==
    ASSUME NEW n \in Nat, NEW pos \in 1 .. 8 * n
    PROVE  \E i \in 0 .. n - 1, r \in 1 .. 8 : pos = 8 * i + r
<1> DEFINE i == (pos - 1) \div 8
<1>1. i \in 0 .. n - 1 /\ pos - 8 * i \in 1 .. 8
  OBVIOUS
<1> HIDE DEF i
<1>2. pos = 8 * i + (pos - 8 * i)
  BY <1>1
<1> QED BY <1>1, <1>2

LEMMA Place ==
    ASSUME NEW i \in Nat, NEW r \in 1 .. 8
    PROVE  /\ (IF (8 * i + r) % 8 = 0 THEN 8 ELSE (8 * i + r) % 8) = r
           /\ ((8 * i + r) - r) \div 8 = i
OBVIOUS

\* The upper r bits of a byte, and the lower ones.
LEMMA UpperBits ==
    ASSUME NEW x \in 0 .. 255, NEW r \in 1 .. 8
    PROVE  /\ x \div shift[8 - r] \in Nat /\ x \div shift[8 - r] < shift[r]
           /\ x % shift[8 - r] \in Nat /\ x % shift[8 - r] < shift[8 - r]
           /\ x = (x \div shift[8 - r]) * shift[8 - r] + (x % shift[8 - r])
<1>1. CASE r = 1
  <2>1. shift[8 - r] = 128 /\ shift[r] = 2
    BY <1>1, Shifts
  <2> QED BY <2>1
<1>2. CASE r = 2
  <2>1. shift[8 - r] = 64 /\ shift[r] = 4
    BY <1>2, Shifts
  <2> QED BY <2>1
<1>3. CASE r = 3
  <2>1. shift[8 - r] = 32 /\ shift[r] = 8
    BY <1>3, Shifts
  <2> QED BY <2>1
<1>4. CASE r = 4
  <2>1. shift[8 - r] = 16 /\ shift[r] = 16
    BY <1>4, Shifts
  <2> QED BY <2>1
<1>5. CASE r = 5
  <2>1. shift[8 - r] = 8 /\ shift[r] = 32
    BY <1>5, Shifts
  <2> QED BY <2>1
<1>6. CASE r = 6
  <2>1. shift[8 - r] = 4 /\ shift[r] = 64
    BY <1>6, Shifts
  <2> QED BY <2>1
<1>7. CASE r = 7
  <2>1. shift[8 - r] = 2 /\ shift[r] = 128
    BY <1>7, Shifts
  <2> QED BY <2>1
<1>8. CASE r = 8
  <2>1. shift[8 - r] = 1 /\ shift[r] = 256
    BY <1>8, Shifts
  <2> QED BY <2>1
<1> QED BY <1>1, <1>2, <1>3, <1>4, <1>5, <1>6, <1>7, <1>8

\* Six bits of which r are of one byte and the rest of the one before.
LEMMA JoinedBits ==
    ASSUME NEW y \in 0 .. 255, NEW r \in 1 .. 5, NEW top \in Nat, top < shift[r]
    PROVE  /\ (top + y * shift[r]) % 64 = top + (y % shift[6 - r]) * shift[r]
           /\ (top + y * shift[r]) % 64 \in 0 .. 63
<1>1. CASE r = 1
  <2>1. shift[6 - r] = 32 /\ shift[r] = 2
    BY <1>1, Shifts
  <2> QED BY <2>1
<1>2. CASE r = 2
  <2>1. shift[6 - r] = 16 /\ shift[r] = 4
    BY <1>2, Shifts
  <2> QED BY <2>1
<1>3. CASE r = 3
  <2>1. shift[6 - r] = 8 /\ shift[r] = 8
    BY <1>3, Shifts
  <2> QED BY <2>1
<1>4. CASE r = 4
  <2>1. shift[6 - r] = 4 /\ shift[r] = 16
    BY <1>4, Shifts
  <2> QED BY <2>1
<1>5. CASE r = 5
  <2>1. shift[6 - r] = 2 /\ shift[r] = 32
    BY <1>5, Shifts
  <2> QED BY <2>1
<1> QED BY <1>1, <1>2, <1>3, <1>4, <1>5

\* b is the six bits that end r bits into the byte i + 1, of which top are in it and
\* the rest in the byte before.
EndThere(b, s, i, r, top) ==
    /\ b \in 0 .. 63
    /\ r >= 6 => b = top % 64
    /\ r < 6 /\ i = 0 => b = top
    /\ r < 6 /\ i > 0 => b = top + (s[i] % shift[6 - r]) * shift[r]

LEMMA SixBits ==
    ASSUME NEW s \in Seq(0 .. 255), NEW i \in 0 .. Len(s) - 1, NEW r \in 1 .. 8,
           NEW pos, pos = 8 * i + r
    PROVE  EndThere(get6bits(s, pos), s, i, r, s[i + 1] \div shift[8 - r])
<1> DEFINE top == s[i + 1] \div shift[8 - r]
<1>1. (IF pos % 8 = 0 THEN 8 ELSE pos % 8) = r /\ (pos - r) \div 8 = i
  <2>1. i \in Nat
    OBVIOUS
  <2> QED BY <2>1, Place
<1>2. get6bits(s, pos) = (IF r < 6 /\ i > 0 THEN top + s[i] * shift[r] ELSE top) % 64
  <2> HIDE DEF EndThere
  <2> QED BY <1>1 DEF get6bits
<1>3. s[i + 1] \in 0 .. 255 /\ (i > 0 => s[i] \in 0 .. 255)
  <2>1. i + 1 \in 1 .. Len(s) /\ (i > 0 => i \in 1 .. Len(s))
    OBVIOUS
  <2> QED BY <2>1, ElementOfSeq
<1>4. top \in Nat /\ top < shift[r]
  BY <1>3, UpperBits
<1> SUFFICES EndThere(get6bits(s, pos), s, i, r, top)
  OBVIOUS
<1> HIDE DEF top
<1>m. \A n \in Nat : n % 64 \in 0 .. 63 /\ (n < 64 => n % 64 = n)
  OBVIOUS
<1>5. CASE r >= 6
  <2>1. top % 64 \in 0 .. 63
    BY <1>4, <1>m
  <2> QED BY <1>2, <1>5, <2>1 DEF EndThere
<1>6. CASE r < 6 /\ i = 0
  <2>1. r \in 0 .. 5
    BY <1>6
  <2>2. top < 64
    <3>1. shift[r] \in Nat /\ shift[r] <= 32
      BY <2>1, SmallShifts, Zenon
    <3> QED BY <1>4, <3>1
  <2>3. top % 64 = top /\ top \in 0 .. 63
    BY <1>4, <1>m, <2>2
  <2> QED BY <1>2, <1>4, <1>6, <2>3 DEF EndThere
<1>7. CASE r < 6 /\ i > 0
  <2>1. r \in 1 .. 5 /\ s[i] \in 0 .. 255
    BY <1>3, <1>7
  <2>2. /\ (top + s[i] * shift[r]) % 64 = top + (s[i] % shift[6 - r]) * shift[r]
        /\ (top + s[i] * shift[r]) % 64 \in 0 .. 63
    BY <1>4, <2>1, JoinedBits
  <2> QED BY <1>2, <1>7, <2>2 DEF EndThere
<1> QED BY <1>5, <1>6, <1>7

\* What is cut to five bits is so cut that it can be told from six.
LEMMA CodesOfBits ==
    ASSUME NEW b \in 0 .. 63
    PROVE  /\ Code(b) \in 0 .. 61
           /\ Code(b) = (IF Compact(b) THEN b % 32 ELSE b)
           /\ Compact(Code(b)) = Compact(b)
           /\ b <= 31 => Code(b) = b
BY DEF Code, Compact

\* The code of the character that ends at pos, and the position of the one after it.
CodeAt(s, pos) == Code(get6bits(s, pos))
After(s, pos) == pos - Step(get6bits(s, pos), pos)

LEMMA StepsBack ==
    ASSUME NEW s \in Seq(0 .. 255), NEW pos \in 1 .. 8 * Len(s)
    PROVE  /\ get6bits(s, pos) \in 0 .. 63
           /\ CodeAt(s, pos) \in 0 .. 61
           /\ After(s, pos) \in {pos - 5, pos - 6}
           /\ Alphabet[CodeAt(s, pos) + 1] \in Characters
<1>1. PICK i \in 0 .. Len(s) - 1, r \in 1 .. 8 : pos = 8 * i + r
  <2>1. Len(s) \in Nat
    OBVIOUS
  <2> QED BY <2>1, Places
<1>2. get6bits(s, pos) \in 0 .. 63
  BY <1>1, SixBits DEF EndThere
<1>3. CodeAt(s, pos) \in 0 .. 61
  BY <1>2, CodesOfBits DEF CodeAt
<1>4. After(s, pos) \in {pos - 5, pos - 6}
  BY DEF After, Step
<1>5. CodeAt(s, pos) + 1 \in 1 .. 62
  <2>1. \A x \in 0 .. 61 : x + 1 \in 1 .. 62
    OBVIOUS
  <2> QED BY <1>3, <2>1
<1> QED BY <1>2, <1>3, <1>4, <1>5, CharactersAre

\* w is what the encoder writes from each position on.
WrittenFrom(w, s) ==
    \A pos \in -5 .. 8 * Len(s) :
        /\ w[pos] \in Seq(Characters)
        /\ w[pos] = IF pos <= 0 THEN <<>>
                    ELSE <<Alphabet[CodeAt(s, pos) + 1]>> \o w[After(s, pos)]

LEMMA EncoderWrites ==
    ASSUME NEW s \in Seq(0 .. 255)
    PROVE  \E w : WrittenFrom(w, s) /\ encodeV2(s) = w[8 * Len(s)]
<1> DEFINE n == 8 * Len(s)
           F(f) == [pos \in -5 .. n |->
                       IF pos <= 0 THEN <<>>
                       ELSE LET b == get6bits(s, pos)
                            IN  <<Alphabet[Code(b) + 1]>> \o f[pos - Step(b, pos)]]
           w == CHOOSE f : f = F(f)
           S == Seq(Characters)
           p == [pos \in 1 .. n |-> After(s, pos)]
           step == [q \in (1 .. n) \X S |-> <<Alphabet[CodeAt(s, q[1]) + 1]>> \o q[2]]
<1>1. encodeV2(s) = w[n]
  BY DEF encodeV2
<1>2. \A f : F(f) = [pos \in -5 .. n |->
                         IF pos <= 0 THEN <<>>
                         ELSE <<Alphabet[CodeAt(s, pos) + 1]>> \o f[After(s, pos)]]
  BY DEF CodeAt, After
<1>3. n \in Nat
  OBVIOUS
<1>4. \A m \in 1 .. n : After(s, m) \in -5 .. n /\ After(s, m) < m
  <2> SUFFICES ASSUME NEW m \in 1 .. n PROVE After(s, m) \in -5 .. n /\ After(s, m) < m
    OBVIOUS
  <2>1. After(s, m) \in {m - 5, m - 6}
    BY StepsBack
  <2> QED BY <2>1, <1>3
<1>5. \A m \in 1 .. n : <<Alphabet[CodeAt(s, m) + 1]>> \in S
  BY StepsBack
<1>6. step \in [(1 .. n) \X S -> S]
  <2>1. \A m \in 1 .. n, x \in S : <<Alphabet[CodeAt(s, m) + 1]>> \o x \in S
    BY <1>5, ConcatProperties
  <2> HIDE DEF S
  <2> QED BY <2>1
<1> HIDE DEF n
<1>7. \E f : f = F(f)
  <2>1. p \in [1 .. n -> -5 .. n] /\ \A m \in 1 .. n : p[m] = After(s, m) /\ p[m] < m
    BY <1>4
  <2>2. <<>> \in S
    OBVIOUS
  <2>3. PICK f \in [-5 .. n -> S] :
            \A m \in -5 .. n : f[m] = IF m <= 0 THEN <<>> ELSE step[<<m, f[p[m]]>>]
    <3> HIDE DEF p, step, S
    <3>1. -5 \in Int /\ -5 <= 0
      OBVIOUS
    <3>2. \A m \in 1 .. n : p[m] < m
      BY <2>1
    <3> HIDE DEF p, step, S
    <3>3. \E f : Recurs(f, -5, n, S, <<>>, p, step)
      BY <1>3, <1>6, <2>1, <2>2, <3>1, <3>2, Recursion
    <3> QED BY <3>3 DEF Recurs
  <2>4. ASSUME NEW m \in -5 .. n, ~(m <= 0)
        PROVE  f[m] = <<Alphabet[CodeAt(s, m) + 1]>> \o f[After(s, m)]
    <3>1. m \in 1 .. n /\ p[m] = After(s, m) /\ After(s, m) \in -5 .. n
      <4> HIDE DEF p
      <4> QED BY <2>1, <2>4, <1>4
    <3>2. f[After(s, m)] \in S
      BY <3>1
    <3>3. step[<<m, f[After(s, m)]>>] = <<Alphabet[CodeAt(s, m) + 1]>> \o f[After(s, m)]
      <4> HIDE DEF S
      <4> QED BY <3>1, <3>2
    <3> HIDE DEF p, step
    <3> QED BY <2>3, <2>4, <3>1, <3>3
  <2>5. f = F(f)
    <3> HIDE DEF F, p, step, S
    <3>1. F(f) = [pos \in -5 .. n |->
                         IF pos <= 0 THEN <<>>
                         ELSE <<Alphabet[CodeAt(s, pos) + 1]>> \o f[After(s, pos)]]
      BY <1>2
    <3> QED BY <2>3, <2>4, <3>1
  <2> QED BY <2>5
<1>8. w = F(w)
  <2> HIDE DEF F
  <2> QED BY <1>7
<1> HIDE DEF w, F
<1>9. \A pos \in -5 .. n :
         w[pos] = IF pos <= 0 THEN <<>>
                  ELSE <<Alphabet[CodeAt(s, pos) + 1]>> \o w[After(s, pos)]
  BY <1>2, <1>8
<1>10. ASSUME NEW i \in 0 .. n, \A j \in 0 .. i - 1 : j \in {k \in 0 .. n : w[k] \in S}
       PROVE  i \in {k \in 0 .. n : w[k] \in S}
  <2>1. CASE i = 0
    <3>1. i \in -5 .. n /\ i <= 0
      BY <2>1, <1>3
    <3>2. w[i] = <<>>
      BY <3>1, <1>9
    <3>3. <<>> \in S
      OBVIOUS
    <3> HIDE DEF S
    <3> QED BY <3>2, <3>3
  <2>2. CASE i # 0
    <3>1. i \in 1 .. n /\ i \in -5 .. n /\ ~(i <= 0) /\ After(s, i) \in -5 .. n /\ After(s, i) < i
      BY <2>2, <1>3, <1>4
    <3>2. w[i] = <<Alphabet[CodeAt(s, i) + 1]>> \o w[After(s, i)]
      BY <3>1, <1>9
    <3>3. w[After(s, i)] \in S
      <4>1. CASE After(s, i) <= 0
        <5>1. w[After(s, i)] = <<>>
          BY <3>1, <4>1, <1>9
        <5> QED BY <5>1
      <4>2. CASE ~(After(s, i) <= 0)
        <5>1. After(s, i) \in 0 .. i - 1
          BY <3>1, <4>2
        <5> HIDE DEF S
        <5> QED BY <5>1, <1>10
      <4> QED BY <4>1, <4>2
    <3>4. w[i] \in S
      BY <1>5, <3>1, <3>2, <3>3, ConcatProperties
    <3> QED BY <3>4
  <2> QED BY <2>1, <2>2
<1>11. \A i \in 0 .. n : w[i] \in S
  <2>1. \A i \in 0 .. n : i \in {k \in 0 .. n : w[k] \in S}
    <3> HIDE DEF S
    <3> QED BY <1>3, <1>10, UpTo
  <2> QED BY <2>1
<1>12. \A pos \in -5 .. n : w[pos] \in S
  <2> SUFFICES ASSUME NEW pos \in -5 .. n PROVE w[pos] \in S
    OBVIOUS
  <2>1. CASE pos <= 0
    <3>1. w[pos] = <<>>
      BY <1>9, <2>1
    <3> QED BY <3>1
  <2>2. CASE ~(pos <= 0)
    <3>1. pos \in 0 .. n
      BY <2>2
    <3> HIDE DEF S
    <3> QED BY <3>1, <1>11
  <2> QED BY <2>1, <2>2
<1>13. WrittenFrom(w, s)
  BY <1>9, <1>12 DEF WrittenFrom, n
<1> QED BY <1>1, <1>13 DEF n

\* The encoder that came before takes the same bits and steps back as far.
LEMMA NextIsSame ==
    ASSUME NEW s \in Seq(0 .. 255), NEW end \in 1 .. 8 * Len(s)
    PROVE  /\ next(s, end).code = CodeAt(s, end)
           /\ next(s, end).pos = IF After(s, end) > 0 THEN After(s, end) ELSE 0
<1> DEFINE pos == IF end <= 6 THEN 0 ELSE end - 6
           j == pos \div 8
           blen == IF end <= 6 THEN end ELSE Min({(j + 1) * 8 - pos, 6})
           high == (s[j + 1] \div shift[8 - (pos % 8) - blen]) % shift[blen]
           b == IF blen < 6 /\ pos > 0
                THEN high * shift[6 - blen] + s[j + 2] \div shift[2 + blen] ELSE high
           before == IF Compact(b) /\ (pos > 0 \/ b > 31) THEN pos + 1 ELSE pos
<1>1. next(s, end) = [code |-> Code(b), pos |-> before]
  BY DEF next
<1>2. PICK i \in 0 .. Len(s) - 1, r \in 1 .. 8 : end = 8 * i + r
  <2>1. Len(s) \in Nat
    OBVIOUS
  <2> QED BY <2>1, Places
<1> DEFINE top == s[i + 1] \div shift[8 - r]
           six == get6bits(s, end)
<1>3. EndThere(six, s, i, r, top)
  BY <1>2, SixBits
<1>4. s[i + 1] \in 0 .. 255 /\ (i > 0 => s[i] \in 0 .. 255)
  <2>1. i + 1 \in 1 .. Len(s) /\ (i > 0 => i \in 1 .. Len(s))
    OBVIOUS
  <2> QED BY <2>1, ElementOfSeq
<1>5. top \in Nat /\ top < shift[r]
  BY <1>4, UpperBits
<1>6. i \in Nat
  OBVIOUS
<1> HIDE DEF six, top
<1>7. CASE end <= 6
  <2>1. i = 0 /\ r = end /\ r \in 1 .. 6
    BY <1>2, <1>6, <1>7
  <2>2. pos = 0 /\ j = 0 /\ blen = r /\ pos % 8 = 0
    BY <1>7, <2>1
  <2> HIDE DEF pos, j, blen
  <2>3. j + 1 = i + 1 /\ 8 - (pos % 8) - blen = 8 - r /\ ~(pos > 0)
    BY <2>1, <2>2
  <2>4. b = top % shift[r]
    BY <2>2, <2>3 DEF top
  <2>5. b = six
    <3>1. CASE r < 6
      <4>1. r = 1 \/ r = 2 \/ r = 3 \/ r = 4 \/ r = 5
        BY <2>1, <3>1
      <4>2. \A x \in Nat, y \in Nat : x < y => x % y = x
        OBVIOUS
      <4>3. shift[r] \in Nat
        <5>1. r \in 0 .. 8
          BY <2>1
        <5> QED BY <5>1, ShiftsAreNumbers, Zenon
      <4> HIDE DEF b
      <4> QED BY <1>3, <1>5, <2>1, <2>4, <3>1, <4>2, <4>3 DEF EndThere
    <3>2. CASE r = 6
      <4> HIDE DEF b
      <4> QED BY <1>3, <2>4, <3>2, Shifts DEF EndThere
    <3> QED BY <2>1, <3>1, <3>2
  <2> HIDE DEF b
  <2>6. r < 6 => six <= 31
    <3>1. r < 6 => r \in 0 .. 5
      BY <2>1
    <3>2. r < 6 => six = top
      BY <1>3, <2>1 DEF EndThere
    <3>3. r < 6 => shift[r] \in Nat /\ shift[r] <= 32
      BY <3>1, SmallShifts, Zenon
    <3> QED BY <1>5, <3>2, <3>3
  <2>7. before = IF After(s, end) > 0 THEN After(s, end) ELSE 0
    <3>1. After(s, end) = IF Compact(six) /\ six > 31 THEN r - 5 ELSE r - 6
      BY <2>1 DEF After, Step, six
    <3>2. before = IF Compact(six) /\ six > 31 THEN 1 ELSE 0
      BY <2>2, <2>5
    <3> HIDE DEF before
    <3> QED BY <1>3, <2>1, <2>6, <3>1, <3>2 DEF EndThere
  <2> HIDE DEF before
  <2> QED BY <1>1, <2>5, <2>7 DEF CodeAt, six
<1>8. CASE end > 6
  <2>1. b = six
    <3>1. CASE r >= 6
      <4>1. pos = 8 * i + (r - 6) /\ j = i /\ pos % 8 = r - 6
        BY <1>2, <1>6, <1>8, <3>1
      <4>2. blen = 6
        <5> DEFINE room == (j + 1) * 8 - pos
        <5>1. room \in {6, 7, 8}
          BY <1>6, <3>1, <4>1
        <5>2. \A x \in {6, 7, 8} : Min({x, 6}) = 6
          <6> SUFFICES ASSUME NEW x \in {6, 7, 8} PROVE Min({x, 6}) = 6
            OBVIOUS
          <6>1. {x, 6} \subseteq 0 .. 8 /\ {x, 6} # {} /\ 8 \in Nat
            OBVIOUS
          <6>2. Min({x, 6}) \in {x, 6} /\ \A y \in {x, 6} : Min({x, 6}) <= y
            BY <6>1, Bounds
          <6> QED BY <6>2
        <5>3. blen = Min({room, 6})
          <6> HIDE DEF pos, j
          <6>1. blen = IF end <= 6 THEN end ELSE Min({room, 6})
            OBVIOUS
          <6> HIDE DEF blen, room
          <6> QED BY <1>8, <6>1
        <5> HIDE DEF room, blen
        <5> QED BY <5>1, <5>2, <5>3
      <4> HIDE DEF pos, j, blen
      <4>3. 8 - (pos % 8) - blen = 8 - r /\ ~(blen < 6)
        BY <4>1, <4>2
      <4>4. b = top % 64
        BY <4>1, <4>2, <4>3, Shifts DEF top
      <4> QED BY <1>3, <3>1, <4>4 DEF EndThere
    <3>2. CASE r < 6
      <4>1. i > 0 /\ pos = 8 * (i - 1) + (r + 2) /\ pos > 0
        BY <1>2, <1>6, <1>8, <3>2
      <4>2. j = i - 1 /\ pos % 8 = r + 2
        <5>1. \A m \in Nat, x \in 0 .. 7 : (8 * m + x) \div 8 = m /\ (8 * m + x) % 8 = x
          OBVIOUS
        <5>2. i - 1 \in Nat /\ r + 2 \in 0 .. 7
          BY <1>6, <3>2, <4>1
        <5> HIDE DEF pos
        <5> QED BY <4>1, <5>1, <5>2
      <4>3. blen = 6 - r
        <5> DEFINE room == (j + 1) * 8 - pos
        <5>1. room = 6 - r
          BY <1>6, <4>1, <4>2
        <5>2. {6 - r, 6} \subseteq 0 .. 8 /\ {6 - r, 6} # {} /\ 8 \in Nat
          BY <3>2
        <5>3. Min({6 - r, 6}) \in {6 - r, 6} /\ \A y \in {6 - r, 6} : Min({6 - r, 6}) <= y
          BY <5>2, Bounds
        <5>4. Min({6 - r, 6}) = 6 - r
          BY <5>3
        <5>5. blen = Min({room, 6})
          <6> HIDE DEF pos, j
          <6>1. blen = IF end <= 6 THEN end ELSE Min({room, 6})
            OBVIOUS
          <6> HIDE DEF blen, room
          <6> QED BY <1>8, <6>1
        <5> HIDE DEF room, blen
        <5> QED BY <5>1, <5>4, <5>5
      <4> HIDE DEF pos, j, blen
      <4>4. /\ 8 - (pos % 8) - blen = 0 /\ blen < 6 /\ 6 - blen = r /\ 2 + blen = 8 - r
            /\ j + 1 = i /\ j + 2 = i + 1
        BY <1>6, <3>2, <4>2, <4>3
      <4>5. high = s[i] % shift[6 - r]
        <5>1. \A x \in 0 .. 255 : x \div 1 = x
          OBVIOUS
        <5>2. s[i] \in 0 .. 255
          BY <1>4, <4>1, Zenon
        <5>3. s[i] \div shift[0] = s[i]
          <6>1. shift[0] = 1
            BY Shifts
          <6>2. s[i] \div 1 = s[i]
            BY <5>1, <5>2, Zenon
          <6> QED BY <6>1, <6>2, Zenon
        <5> QED BY <4>3, <4>4, <5>3
      <4> HIDE DEF high
      <4>6. b = (s[i] % shift[6 - r]) * shift[r] + top
        BY <4>1, <4>4, <4>5 DEF top
      <4>7. (s[i] % shift[6 - r]) * shift[r] \in Nat
        <5>2. shift[6 - r] \in Nat \ {0} /\ shift[r] \in Nat
          <6>1. 6 - r \in 0 .. 8 /\ r \in 0 .. 8
            BY <3>2
          <6> QED BY <6>1, ShiftsAreNumbers
        <5>3. s[i] \in Nat
          <6>1. s[i] \in 0 .. 255
            BY <1>4, <4>1, Zenon
          <6>2. \A x \in 0 .. 255 : x \in Nat
            OBVIOUS
          <6> QED BY <6>1, <6>2, Zenon
        <5>4. \A x \in Nat, y \in Nat \ {0}, z \in Nat : (x % y) * z \in Nat
          <6>1. \A x \in Nat, y \in Nat \ {0} : x % y \in Nat
            OBVIOUS
          <6>2. \A x \in Nat, y \in Nat : x * y \in Nat
            OBVIOUS
          <6> QED BY <6>1, <6>2
        <5> QED BY <5>2, <5>3, <5>4
      <4> HIDE DEF b
      <4> QED BY <1>3, <1>5, <3>2, <4>1, <4>6, <4>7 DEF EndThere
    <3> QED BY <3>1, <3>2
  <2>2. pos = end - 6 /\ pos > 0
    BY <1>8
  <2> HIDE DEF b, pos
  <2>3. before = IF After(s, end) > 0 THEN After(s, end) ELSE 0
    <3>1. After(s, end) = IF Compact(six) THEN end - 5 ELSE end - 6
      BY <1>8 DEF After, Step, six
    <3>2. before = IF Compact(six) THEN end - 5 ELSE end - 6
      BY <2>1, <2>2
    <3> QED BY <1>8, <3>1, <3>2
  <2> HIDE DEF before
  <2> QED BY <1>1, <2>1, <2>3 DEF CodeAt, six
<1>9. end <= 6 \/ end > 6
  OBVIOUS
<1> QED BY <1>7, <1>8, <1>9

\* So it writes the same.
LEMMA EncodersAgree ==
    ASSUME NEW s \in Seq(0 .. 255)
    PROVE  encodeV1(s) = encodeV2(s)
<1> DEFINE n == 8 * Len(s)
           F(f) == [end \in 1 .. n |->
                       LET m == next(s, end)
                       IN  <<Alphabet[m.code + 1]>> \o (IF m.pos > 0 THEN f[m.pos] ELSE <<>>)]
           v == CHOOSE f : f = F(f)
<1>1. encodeV1(s) = IF s = <<>> THEN <<>> ELSE v[n]
  BY DEF encodeV1
<1>2. PICK w : WrittenFrom(w, s) /\ encodeV2(s) = w[n]
  BY EncoderWrites
<1>3. n \in Nat /\ (s # <<>> => n \in 1 .. n) /\ (s = <<>> => n = 0)
  <2>1. Len(s) \in Nat /\ (s = <<>> <=> Len(s) = 0)
    BY EmptySeq
  <2> QED BY <2>1
<1>4. \A end \in 1 .. n :
         /\ next(s, end).code = CodeAt(s, end)
         /\ next(s, end).pos = IF After(s, end) > 0 THEN After(s, end) ELSE 0
         /\ After(s, end) \in -5 .. n /\ After(s, end) < end
  <2> SUFFICES ASSUME NEW end \in 1 .. n
               PROVE  /\ next(s, end).code = CodeAt(s, end)
                      /\ next(s, end).pos = IF After(s, end) > 0 THEN After(s, end) ELSE 0
                      /\ After(s, end) \in -5 .. n /\ After(s, end) < end
    OBVIOUS
  <2>1. After(s, end) \in {end - 5, end - 6}
    BY StepsBack
  <2>2. After(s, end) \in -5 .. n /\ After(s, end) < end
    BY <1>3, <2>1
  <2>3. /\ next(s, end).code = CodeAt(s, end)
        /\ next(s, end).pos = IF After(s, end) > 0 THEN After(s, end) ELSE 0
    BY NextIsSame
  <2> QED BY <2>2, <2>3
<1>5. \A pos \in -5 .. n :
         w[pos] = IF pos <= 0 THEN <<>>
                  ELSE <<Alphabet[CodeAt(s, pos) + 1]>> \o w[After(s, pos)]
  BY <1>2 DEF WrittenFrom
<1> HIDE DEF n
<1>6. ASSUME NEW f, NEW end \in 1 .. n, \A i \in 1 .. end - 1 : f[i] = w[i]
      PROVE  F(f)[end] = w[end]
  <2> DEFINE before == IF After(s, end) > 0 THEN After(s, end) ELSE 0
  <2>1. F(f)[end] = <<Alphabet[CodeAt(s, end) + 1]>> \o
                        (IF before > 0 THEN f[before] ELSE <<>>)
    BY <1>4
  <2>2. (IF before > 0 THEN f[before] ELSE <<>>) = w[After(s, end)]
    <3>1. CASE After(s, end) > 0
      <4>1. After(s, end) \in 1 .. end - 1
        BY <1>4, <3>1
      <4> QED BY <1>6, <3>1, <4>1
    <3>2. CASE ~(After(s, end) > 0)
      <4>1. After(s, end) \in -5 .. n /\ After(s, end) <= 0
        BY <1>4, <3>2
      <4>2. w[After(s, end)] = <<>>
        BY <1>5, <4>1
      <4>3. ~(before > 0)
        BY <3>2
      <4> HIDE DEF before
      <4> QED BY <4>2, <4>3
    <3> QED BY <3>1, <3>2
  <2>3. w[end] = <<Alphabet[CodeAt(s, end) + 1]>> \o w[After(s, end)]
    <3>1. end \in -5 .. n /\ ~(end <= 0)
      OBVIOUS
    <3> QED BY <1>5, <3>1
  <2> HIDE DEF F, before
  <2> QED BY <2>1, <2>2, <2>3
<1>7. \E f : f = F(f)
  <2> DEFINE f == [end \in 1 .. n |-> w[end]]
  <2>1. \A end \in 1 .. n : F(f)[end] = f[end]
    <3> SUFFICES ASSUME NEW end \in 1 .. n PROVE F(f)[end] = f[end]
      OBVIOUS
    <3>1. \A i \in 1 .. end - 1 : f[i] = w[i]
      BY <1>3
    <3>2. f[end] = w[end]
      OBVIOUS
    <3> HIDE DEF f, F
    <3> QED BY <1>6, <3>1, <3>2
  <2>2. f = [end \in 1 .. n |-> f[end]] /\ F(f) = [end \in 1 .. n |-> F(f)[end]]
    OBVIOUS
  <2>3. f = F(f)
    <3> HIDE DEF f, F
    <3> QED BY <2>1, <2>2
  <2> QED BY <2>3
<1>8. v = F(v)
  <2> HIDE DEF F
  <2> QED BY <1>7
<1> HIDE DEF v, F
<1> DEFINE T == {i \in 0 .. n : i = 0 \/ v[i] = w[i]}
<1>9. ASSUME NEW i \in 0 .. n, \A j \in 0 .. i - 1 : j \in T PROVE i \in T
  <2>1. CASE i = 0
    BY <2>1
  <2>2. CASE i # 0
    <3>1. i \in 1 .. n
      BY <2>2
    <3>2. \A j \in 1 .. i - 1 : v[j] = w[j]
      BY <1>9
    <3>3. v[i] = w[i]
      <4> HIDE DEF T
      <4> QED BY <1>6, <1>8, <3>1, <3>2
    <3> QED BY <3>3
  <2> QED BY <2>1, <2>2
<1>10. \A i \in 0 .. n : i \in T
  <2> HIDE DEF T
  <2> QED BY <1>3, <1>9, UpTo
<1>11. CASE s = <<>>
  <2>1. n \in -5 .. n /\ n <= 0
    BY <1>3, <1>11
  <2> QED BY <1>1, <1>2, <1>5, <1>11, <2>1
<1>12. CASE s # <<>>
  <2>1. n \in 1 .. n
    BY <1>3, <1>12
  <2>2. v[n] = w[n]
    BY <1>10, <2>1
  <2> QED BY <1>1, <1>2, <1>12, <2>2
<1> QED BY <1>11, <1>12

-----------------------------------------------------------------------------
(* The decoder.                                                            *)

Strings == Seq(0 .. 255)

LEMMA StringsAre ==
    ASSUME NEW t \in Strings
    PROVE  Len(t) \in Nat /\ \A i \in 1 .. Len(t) : t[i] \in 0 .. 255
BY ElementOfSeq, LenProperties DEF Strings

LEMMA StringBegins == \A t \in Strings, c \in 0 .. 255 : <<c>> \o t \in Strings
<1> SUFFICES ASSUME NEW t \in Strings, NEW c \in 0 .. 255 PROVE <<c>> \o t \in Strings
  OBVIOUS
<1>1. <<c>> \in Strings
  BY DEF Strings
<1> QED BY <1>1, ConcatProperties DEF Strings

DecoderState == [bytes : Strings, b : Nat, pos : 0 .. 7, error : {-1} \cup Nat]

\* A character adds at most six bits.
LEMMA BitsAreFew ==
    ASSUME NEW x \in 0 .. 61, NEW last \in BOOLEAN
    PROVE  Bits(x, last) \in 0 .. 6
<1>1. x \in 0 .. 255 /\ 6 \in 0 .. 8 /\ x < shift[6]
  BY Shifts
<1>2. Len8(x) \in 0 .. 6
  BY <1>1, LengthOfByte
<1> QED BY <1>2 DEF Bits

\* The bits that the decoder holds with those of the character at i, and how many.
Joined(t, d, i) == d.b + decodeMap[t[i]] * shift[d.pos]
Reached(t, d, i) == d.pos + Bits(decodeMap[t[i]], i = Len(t))

\* e is the decoder d once it has taken the character at i.
TakesNone(e, d) == d.error >= 0 => e = d
TakesIllegal(e, t, d, i) ==
    d.error < 0 /\ t[i] \notin Characters => e = [d EXCEPT !.error = i - 1]
TakesBits(e, t, d, i) ==
    d.error < 0 /\ t[i] \in Characters =>
        /\ Reached(t, d, i) \in d.pos .. d.pos + 6 /\ Joined(t, d, i) \in Nat
        /\ e = IF Reached(t, d, i) >= 8
               THEN [bytes |-> <<Joined(t, d, i) % 256>> \o d.bytes,
                     b |-> Joined(t, d, i) \div 256,
                     pos |-> Reached(t, d, i) - 8, error |-> -1]
               ELSE [bytes |-> d.bytes, b |-> Joined(t, d, i),
                     pos |-> Reached(t, d, i), error |-> -1]
Takes(e, t, d, i) ==
    e \in DecoderState /\ TakesNone(e, d) /\ TakesIllegal(e, t, d, i) /\ TakesBits(e, t, d, i)

\* What taking a character does to the decoder.
LEMMA TakeIs ==
    ASSUME NEW t, NEW i \in Nat \ {0}, t[i] \in 0 .. 255, NEW d \in DecoderState
    PROVE  Takes(Take(t, d, i), t, d, i)
<1> DEFINE x == decodeMap[t[i]]
           b == Joined(t, d, i)
           pos == Reached(t, d, i)
           bits == Bits(x, i = Len(t))
           then == <<b % 256>> \o d.bytes
           carry == b \div 256
<1>2. IF t[i] \in Characters THEN x \in 0 .. 61 ELSE x = Illegal
  BY CodesAre
<1>3. /\ d.bytes \in Strings /\ d.b \in Nat /\ d.pos \in 0 .. 7
      /\ d.error \in {-1} \cup Nat
  BY DEF DecoderState
<1>d. d = [bytes |-> d.bytes, b |-> d.b, pos |-> d.pos, error |-> d.error]
  BY DEF DecoderState
<1>4. Take(t, d, i) =
          IF d.error >= 0 THEN d
          ELSE IF x = Illegal THEN [d EXCEPT !.error = i - 1]
          ELSE IF pos >= 8
          THEN [d EXCEPT !.bytes = then, !.b = carry, !.pos = pos % 8]
          ELSE [d EXCEPT !.b = b, !.pos = pos]
  BY DEF Take, Joined, Reached
<1>b. b = d.b + x * shift[d.pos] /\ pos = d.pos + bits
  BY DEF Joined, Reached
<1>x. x \in 0 .. 61 => bits \in 0 .. 6
  BY BitsAreFew
<1> HIDE DEF x, bits, then, carry, b, pos
<1>5. CASE d.error >= 0
  BY <1>3, <1>4, <1>5 DEF Takes, TakesNone, TakesIllegal, TakesBits
<1>6. CASE d.error < 0 /\ t[i] \notin Characters
  <2>1. x = Illegal /\ ~(d.error >= 0)
    BY <1>2, <1>3, <1>6
  <2>2. Take(t, d, i) = [d EXCEPT !.error = i - 1]
    BY <1>4, <2>1
  <2>3. i - 1 \in {-1} \cup Nat
    OBVIOUS
  <2>4. [d EXCEPT !.error = i - 1] \in DecoderState
    BY <2>3 DEF DecoderState
  <2> QED BY <1>3, <1>6, <2>2, <2>4 DEF Takes, TakesNone, TakesIllegal, TakesBits
<1>7. CASE d.error < 0 /\ t[i] \in Characters
  <2>1. x \in 0 .. 61 /\ x # Illegal /\ ~(d.error >= 0) /\ d.error = -1
    BY <1>2, <1>3, <1>7 DEF Illegal
  <2>2. pos \in d.pos .. d.pos + 6 /\ pos \in 0 .. 13
    <3>1. bits \in 0 .. 6
      BY <2>1, <1>x
    <3> QED BY <1>3, <1>b, <3>1
  <2>3. b \in Nat
    <3>1. shift[d.pos] \in Nat
      BY <1>3, ShiftsAreNumbers
    <3>2. x \in Nat
      BY <2>1
    <3>3. x * shift[d.pos] \in Nat
      BY <3>1, <3>2
    <3> QED BY <1>3, <1>b, <3>3
  <2>4. b % 256 \in 0 .. 255 /\ b \div 256 \in Nat /\ (pos >= 8 => pos % 8 = pos - 8)
    BY <2>2, <2>3
  <2>5. then \in Strings
    <3>1. b % 256 \in 0 .. 255
      BY <2>4
    <3> QED BY <1>3, <3>1, StringBegins, Zenon DEF then
  <2>6. Take(t, d, i) = IF pos >= 8
                        THEN [bytes |-> then, b |-> carry, pos |-> pos - 8, error |-> -1]
                        ELSE [bytes |-> d.bytes, b |-> b, pos |-> pos, error |-> -1]
    BY <1>3, <1>d, <1>4, <2>1, <2>4
  <2>7. carry \in Nat
    BY <2>4 DEF carry
  <2>8. Take(t, d, i) \in DecoderState
    <3>1. CASE pos >= 8
      <4>1. pos - 8 \in 0 .. 7
        BY <2>2, <3>1
      <4> QED BY <2>5, <2>6, <2>7, <3>1, <4>1 DEF DecoderState
    <3>2. CASE ~(pos >= 8)
      <4>1. pos \in 0 .. 7
        BY <2>2, <3>2
      <4> QED BY <1>3, <2>3, <2>5, <2>6, <2>7, <3>2, <4>1 DEF DecoderState
    <3> QED BY <3>1, <3>2
  <2> QED BY <1>3, <1>7, <2>1, <2>2, <2>3, <2>6, <2>8
         DEF Takes, TakesNone, TakesIllegal, TakesBits, then, carry, b, pos
<1>8. d.error >= 0 \/ d.error < 0
  BY <1>3
<1> QED BY <1>5, <1>6, <1>7, <1>8

\* a[i] is the decoder after i characters.
DecodedBy(a, t) ==
    /\ a[0] = Fresh
    /\ \A i \in 0 .. Len(t) : a[i] \in DecoderState
    /\ \A i \in 1 .. Len(t) : a[i] = Take(t, a[i - 1], i)

\* The byte that is written when no character is left.
Ended(d) == IF d.error < 0 /\ d.pos > 0 THEN [d EXCEPT !.bytes = <<d.b % 256>> \o @] ELSE d

LEMMA DecoderTakes ==
    ASSUME NEW t \in Strings
    PROVE  \E a : DecodedBy(a, t) /\ decode(t) = Ended(a[Len(t)])
<1> DEFINE n == Len(t)
           F(f) == [i \in 0 .. n |-> IF i = 0 THEN Fresh ELSE Take(t, f[i - 1], i)]
           a == CHOOSE f : f = F(f)
           p == [i \in 1 .. n |-> i - 1]
           step == [q \in (1 .. n) \X DecoderState |-> Take(t, q[2], q[1])]
<1>1. decode(t) = Ended(a[n])
  BY DEF decode, Ended
<1>2. n \in Nat /\ \A i \in 1 .. n : t[i] \in 0 .. 255
  BY StringsAre
<1> HIDE DEF n
<1>3. Fresh \in DecoderState
  <2>1. <<>> \in Strings
    BY DEF Strings
  <2> QED BY <2>1 DEF Fresh, DecoderState
<1>4. \A i \in 1 .. n, d \in DecoderState : Take(t, d, i) \in DecoderState
  <2> SUFFICES ASSUME NEW i \in 1 .. n, NEW d \in DecoderState
               PROVE  Take(t, d, i) \in DecoderState
    OBVIOUS
  <2>1. i \in Nat \ {0}
    BY <1>2
  <2>2. Takes(Take(t, d, i), t, d, i)
    BY <1>2, <2>1, TakeIs
  <2> QED BY <2>2 DEF Takes
<1>5. \E f : f = F(f)
  <2>1. step \in [(1 .. n) \X DecoderState -> DecoderState]
    BY <1>4
  <2>2. p \in [1 .. n -> 0 .. n] /\ \A i \in 1 .. n : p[i] < i
    BY <1>2
  <2>3. \E f : Recurs(f, 0, n, DecoderState, Fresh, p, step)
    <3>1. 0 \in Int /\ 0 <= 0
      OBVIOUS
    <3> HIDE DEF p, step
    <3> QED BY <1>2, <1>3, <2>1, <2>2, <3>1, Recursion
  <2>4. PICK f \in [0 .. n -> DecoderState] :
            \A m \in 0 .. n : f[m] = IF m <= 0 THEN Fresh ELSE step[<<m, f[p[m]]>>]
    BY <2>3 DEF Recurs
  <2>5. ASSUME NEW m \in 0 .. n PROVE f[m] = IF m = 0 THEN Fresh ELSE Take(t, f[m - 1], m)
    <3>1. CASE m = 0
      <4>1. m <= 0
        BY <3>1
      <4> HIDE DEF step, p
      <4> QED BY <2>4, <3>1, <4>1
    <3>2. CASE m # 0
      <4>1. m \in 1 .. n /\ ~(m <= 0) /\ p[m] = m - 1 /\ m - 1 \in 0 .. n
        BY <1>2, <3>2
      <4>2. f[m - 1] \in DecoderState
        BY <4>1
      <4>3. step[<<m, f[m - 1]>>] = Take(t, f[m - 1], m)
        BY <4>1, <4>2
      <4> HIDE DEF step, p
      <4> QED BY <2>4, <3>2, <4>1, <4>3
    <3> QED BY <3>1, <3>2
  <2>6. f = F(f)
    <3> HIDE DEF p, step
    <3> QED BY <2>5
  <2> QED BY <2>6
<1>6. a = F(a)
  <2> HIDE DEF F
  <2> QED BY <1>5
<1> HIDE DEF a
<1>7. a[0] = Fresh /\ \A i \in 1 .. n : a[i] = Take(t, a[i - 1], i)
  <2>1. \A i \in 0 .. n : a[i] = IF i = 0 THEN Fresh ELSE Take(t, a[i - 1], i)
    BY <1>6
  <2>2. 0 \in 0 .. n /\ \A i \in 1 .. n : i \in 0 .. n /\ i # 0
    BY <1>2
  <2> HIDE DEF F
  <2> QED BY <2>1, <2>2
<1> HIDE DEF F
<1> DEFINE T == {i \in 0 .. n : a[i] \in DecoderState}
<1>8. ASSUME NEW i \in 0 .. n, \A j \in 0 .. i - 1 : j \in T PROVE i \in T
  <2>1. CASE i = 0
    BY <1>3, <1>7, <2>1
  <2>2. CASE i # 0
    <3>1. i \in 1 .. n /\ i - 1 \in 0 .. i - 1
      BY <1>2, <2>2
    <3>2. a[i - 1] \in DecoderState
      BY <1>8, <3>1
    <3> QED BY <1>4, <1>7, <3>1, <3>2
  <2> QED BY <2>1, <2>2
<1>9. \A i \in 0 .. n : i \in T
  <2> HIDE DEF T
  <2> QED BY <1>2, <1>8, UpTo
<1>10. DecodedBy(a, t)
  <2>1. \A i \in 0 .. n : a[i] \in DecoderState
    BY <1>9
  <2> QED BY <1>7, <2>1 DEF DecodedBy, n
<1> QED BY <1>1, <1>10 DEF n

\* How many bits the decoder has taken.
Taken(d) == 8 * Len(d.bytes) + d.pos

LEMMA StringLonger ==
    \A t \in Strings : \A c : Len(<<c>> \o t) = Len(t) + 1 /\ Len(t) \in Nat
<1> SUFFICES ASSUME NEW t \in Strings, NEW c
             PROVE  Len(<<c>> \o t) = Len(t) + 1 /\ Len(t) \in Nat
  OBVIOUS
<1>1. t \in Seq(0 .. 255 \cup {c}) /\ <<c>> \in Seq(0 .. 255 \cup {c})
  BY DEF Strings
<1>2. Len(<<c>> \o t) = Len(<<c>>) + Len(t) /\ Len(<<c>>) = 1 /\ Len(t) \in Nat
  BY <1>1, ConcatProperties, LenProperties
<1> QED BY <1>2

LEMMA TakenGrows ==
    ASSUME NEW t, NEW i \in Nat \ {0}, t[i] \in 0 .. 255, NEW d \in DecoderState
    PROVE  Taken(d) \in Nat /\ Taken(Take(t, d, i)) \in Taken(d) .. Taken(d) + 6
<1> DEFINE m == Len(d.bytes)
           pos == Reached(t, d, i)
           then == <<Joined(t, d, i) % 256>> \o d.bytes
           b == Joined(t, d, i)
           carry == b \div 256
<1>1. d.bytes \in Strings /\ d.pos \in 0 .. 7 /\ d.error \in {-1} \cup Nat
  BY DEF DecoderState
<1>2. m \in Nat /\ Len(then) = m + 1
  BY <1>1, StringLonger
<1>3. Taken(d) = 8 * m + d.pos
  BY DEF Taken
<1>t. Takes(Take(t, d, i), t, d, i)
  BY TakeIs
<1>4. CASE d.error < 0 /\ t[i] \in Characters
  <2>1. /\ pos \in d.pos .. d.pos + 6
        /\ Take(t, d, i) = IF pos >= 8
                           THEN [bytes |-> then, b |-> carry, pos |-> pos - 8, error |-> -1]
                           ELSE [bytes |-> d.bytes, b |-> b, pos |-> pos, error |-> -1]
    BY <1>t, <1>4 DEF Takes, TakesBits
  <2> HIDE DEF pos, then, b, carry
  <2>2. CASE pos >= 8
    <3>1. Taken(Take(t, d, i)) = 8 * Len(then) + (pos - 8)
      BY <2>1, <2>2 DEF Taken
    <3>2. pos \in d.pos .. d.pos + 6
      BY <2>1
    <3> DEFINE e == Taken(Take(t, d, i))
               q == d.pos
               l == Len(then)
    <3>3. e = 8 * l + (pos - 8) /\ l = m + 1 /\ m \in Nat /\ q \in 0 .. 7 /\ pos \in q .. q + 6
      BY <1>1, <1>2, <3>1, <3>2
    <3>4. Taken(d) = 8 * m + q
      BY <1>3
    <3> HIDE DEF m, e, q, l
    <3>5. Taken(d) \in Nat /\ e \in Taken(d) .. Taken(d) + 6
      BY <3>3, <3>4
    <3> QED BY <3>5 DEF e
  <2>3. CASE ~(pos >= 8)
    <3>1. Taken(Take(t, d, i)) = 8 * m + pos
      BY <2>1, <2>3 DEF Taken
    <3>2. pos \in d.pos .. d.pos + 6
      BY <2>1
    <3> DEFINE e == Taken(Take(t, d, i))
               q == d.pos
    <3>3. e = 8 * m + pos /\ m \in Nat /\ q \in 0 .. 7 /\ pos \in q .. q + 6
      BY <1>1, <1>2, <3>1, <3>2
    <3>4. Taken(d) = 8 * m + q
      BY <1>3
    <3> HIDE DEF m, e, q
    <3>5. Taken(d) \in Nat /\ e \in Taken(d) .. Taken(d) + 6
      BY <3>3, <3>4
    <3> QED BY <3>5 DEF e
  <2> QED BY <2>2, <2>3
<1>5. CASE ~(d.error < 0 /\ t[i] \in Characters)
  <2>1. Take(t, d, i) = d \/ Take(t, d, i) = [d EXCEPT !.error = i - 1]
    BY <1>t, <1>1, <1>5 DEF Takes, TakesNone, TakesIllegal
  <2>2. [d EXCEPT !.error = i - 1].bytes = d.bytes /\ [d EXCEPT !.error = i - 1].pos = d.pos
    BY DEF DecoderState
  <2>3. Taken(Take(t, d, i)) = Taken(d)
    BY <2>1, <2>2 DEF Taken
  <2>4. Taken(d) \in Nat
    <3> HIDE DEF m
    <3> QED BY <1>1, <1>2, <1>3
  <2> QED BY <2>3, <2>4
<1> QED BY <1>4, <1>5

\* error names the first illegal character up to i, or none.
ErrorUpTo(error, t, i) ==
    IF error = -1 THEN \A j \in 1 .. i : t[j] \in Characters
    ELSE /\ error + 1 \in 1 .. i /\ t[error + 1] \notin Characters
         /\ \A j \in 1 .. error : t[j] \in Characters

LEMMA DecoderStaysWithin ==
    ASSUME NEW t \in Strings, NEW a, DecodedBy(a, t)
    PROVE  \A i \in 0 .. Len(t) :
               /\ Taken(a[i]) \in Nat /\ Taken(a[i]) <= 6 * i
               /\ ErrorUpTo(a[i].error, t, i)
<1> DEFINE n == Len(t)
           Fine(i) == /\ Taken(a[i]) \in Nat /\ Taken(a[i]) <= 6 * i
                      /\ ErrorUpTo(a[i].error, t, i)
           T == {i \in 0 .. n : Fine(i)}
<1>1. n \in Nat /\ \A i \in 1 .. n : t[i] \in 0 .. 255
  BY StringsAre
<1>2. /\ a[0] = Fresh
      /\ \A i \in 0 .. n : a[i] \in DecoderState
      /\ \A i \in 1 .. n : a[i] = Take(t, a[i - 1], i)
  BY DEF DecodedBy
<1> HIDE DEF n
<1>3. ASSUME NEW i \in 0 .. n, \A j \in 0 .. i - 1 : j \in T PROVE i \in T
  <2>1. CASE i = 0
    <3>1. Taken(a[0]) = 0 /\ a[0].error = -1
      BY <1>2 DEF Fresh, Taken
    <3>2. ErrorUpTo(-1, t, 0)
      BY DEF ErrorUpTo
    <3> QED BY <2>1, <3>1, <3>2
  <2>2. CASE i # 0
    <3>1. i \in 1 .. n /\ i - 1 \in 0 .. i - 1 /\ i \in Nat \ {0} /\ i - 1 \in 0 .. n
      BY <1>1, <2>2
    <3> DEFINE d == a[i - 1]
    <3>2. Fine(i - 1) /\ d \in DecoderState /\ a[i] = Take(t, d, i) /\ t[i] \in 0 .. 255
      BY <1>1, <1>2, <1>3, <3>1
    <3>3. Taken(a[i]) \in Nat /\ Taken(a[i]) <= 6 * i
      <4>1. Taken(d) \in Nat /\ Taken(d) <= 6 * (i - 1)
        BY <3>2
      <4>2. Taken(Take(t, d, i)) \in Taken(d) .. Taken(d) + 6
        BY <3>1, <3>2, TakenGrows
      <4> HIDE DEF d
      <4> QED BY <3>1, <3>2, <4>1, <4>2
    <3>4. ErrorUpTo(a[i].error, t, i)
      <4>1. ErrorUpTo(d.error, t, i - 1) /\ d.error \in {-1} \cup Nat
        BY <3>2 DEF DecoderState
      <4>t. Takes(a[i], t, d, i)
        BY <3>1, <3>2, TakeIs
      <4> HIDE DEF d
      <4>2. CASE d.error >= 0
        <5>1. a[i] = d
          BY <4>t, <4>2 DEF Takes, TakesNone
        <5>2. d.error # -1 /\ d.error \in Nat
          BY <4>1, <4>2
        <5> QED BY <3>1, <4>1, <5>1, <5>2 DEF ErrorUpTo
      <4>3. CASE d.error < 0 /\ t[i] \notin Characters
        <5>1. d.error = -1 /\ \A j \in 1 .. i - 1 : t[j] \in Characters
          BY <4>1, <4>3 DEF ErrorUpTo
        <5>2. a[i] = [d EXCEPT !.error = i - 1]
          BY <4>t, <4>3 DEF Takes, TakesIllegal
        <5>3. a[i].error = i - 1
          BY <3>2, <5>2 DEF DecoderState
        <5>4. i - 1 # -1 /\ (i - 1) + 1 = i /\ i \in 1 .. i
          BY <3>1
        <5> QED BY <4>3, <5>1, <5>3, <5>4 DEF ErrorUpTo
      <4>4. CASE d.error < 0 /\ t[i] \in Characters
        <5>1. d.error = -1 /\ \A j \in 1 .. i - 1 : t[j] \in Characters
          BY <4>1, <4>4 DEF ErrorUpTo
        <5>2. a[i].error = -1
          BY <4>t, <4>4 DEF Takes, TakesBits
        <5>3. \A j \in 1 .. i : j = i \/ j \in 1 .. i - 1
          BY <3>1
        <5> QED BY <4>4, <5>1, <5>2, <5>3 DEF ErrorUpTo
      <4> QED BY <4>1, <4>2, <4>3, <4>4
    <3> QED BY <3>3, <3>4
  <2> QED BY <2>1, <2>2
<1>4. \A i \in 0 .. n : i \in T
  <2> HIDE DEF T
  <2> QED BY <1>1, <1>3, UpTo
<1> QED BY <1>4 DEF n

\* What the decoder wrote fits what its caller makes room for, and its error is right.
Within(d, t) ==
    /\ d.bytes \in Strings /\ d.error \in {-1} \cup Nat
    /\ Len(d.bytes) \in Nat /\ Len(d.bytes) <= possibleLen(t)
    /\ ErrorUpTo(d.error, t, Len(t))

LEMMA DecodeIsWithin ==
    ASSUME NEW t \in Strings
    PROVE  Within(decode(t), t)
<1>1. PICK a : DecodedBy(a, t) /\ decode(t) = Ended(a[Len(t)])
  BY DecoderTakes
<1> DEFINE n == Len(t)
           d == a[n]
           m == Len(d.bytes)
           then == <<d.b % 256>> \o d.bytes
<1>2. n \in Nat
  BY StringsAre
<1>3. d \in DecoderState /\ Taken(d) <= 6 * n /\ ErrorUpTo(d.error, t, n)
  <2>1. n \in 0 .. n
    BY <1>2
  <2> QED BY <1>1, <2>1, DecoderStaysWithin DEF DecodedBy
<1>4. decode(t) = IF d.error < 0 /\ d.pos > 0 THEN [d EXCEPT !.bytes = then] ELSE d
  BY <1>1 DEF Ended
<1>5. /\ d.bytes \in Strings /\ d.pos \in 0 .. 7 /\ d.error \in {-1} \cup Nat
      /\ d.b \in Nat
  BY <1>3 DEF DecoderState
<1>6. m \in Nat /\ Len(then) = m + 1 /\ then \in Strings
  <2>1. \A x \in Nat : x % 256 \in 0 .. 255
    OBVIOUS
  <2>2. d.b % 256 \in 0 .. 255
    BY <1>5, <2>1, Zenon
  <2> QED BY <1>5, <2>2, StringLonger, StringBegins
<1> HIDE DEF d, n, then
<1>7. 8 * m + d.pos <= 6 * n
  BY <1>3 DEF Taken
<1>8. possibleLen(t) = (6 * n) \div 8 + 1
  <2>1. possibleLen(t) = (n * 6) \div 8 + 1
    BY DEF possibleLen, n
  <2>2. n * 6 = 6 * n
    BY <1>2
  <2> QED BY <2>1, <2>2
<1>9. m <= possibleLen(t) /\ (d.pos > 0 => m + 1 <= possibleLen(t)) /\ m + 1 \in Nat
  <2>1. \A k \in Nat, l \in Nat, p \in 0 .. 7 :
            8 * k + p <= 6 * l => k <= (6 * l) \div 8 + 1 /\ k + 1 <= (6 * l) \div 8 + 1
    OBVIOUS
  <2> HIDE DEF m
  <2> QED BY <1>2, <1>5, <1>6, <1>7, <1>8, <2>1
<1> HIDE DEF m
<1>10. CASE d.error < 0 /\ d.pos > 0
  <2>1. decode(t).bytes = then /\ decode(t).error = d.error
    BY <1>3, <1>4, <1>10 DEF DecoderState
  <2> QED BY <1>3, <1>5, <1>6, <1>9, <1>10, <2>1 DEF Within, n
<1>11. CASE ~(d.error < 0 /\ d.pos > 0)
  BY <1>3, <1>4, <1>5, <1>6, <1>9, <1>11 DEF Within, m, n
<1> QED BY <1>10, <1>11

-----------------------------------------------------------------------------
(* The buffers.                                                            *)

IsBuffer(buf) == buf.mem \in Strings /\ buf.len \in 0 .. Len(buf.mem)

LEMMA HeldIs ==
    ASSUME NEW buf, IsBuffer(buf)
    PROVE  Held(buf) \in Strings /\ Len(Held(buf)) = buf.len
<1>1. buf.mem \in Seq(0 .. 255) /\ buf.len \in 0 .. Len(buf.mem) /\ Len(buf.mem) \in Nat
  BY LenProperties DEF IsBuffer, Strings
<1> DEFINE m == buf.mem
           n == buf.len
<1>2. \A i \in 1 .. n : m[i] \in 0 .. 255
  <2>1. \A i \in 1 .. Len(m) : m[i] \in 0 .. 255
    BY <1>1, ElementOfSeq
  <2>2. \A i \in 1 .. n : i \in 1 .. Len(m)
    BY <1>1
  <2> QED BY <2>1, <2>2
<1>3. n \in Int /\ 1 \in Int /\ (IF 1 <= n THEN n - 1 + 1 ELSE 0) = n
  BY <1>1
<1> HIDE DEF m, n
<1>4. SubSeq(m, 1, n) \in Seq(0 .. 255) /\ Len(SubSeq(m, 1, n)) = IF 1 <= n THEN n - 1 + 1 ELSE 0
  BY <1>2, <1>3, SubSeqProperties
<1> QED BY <1>3, <1>4 DEF Strings, Held, m, n

\* Of x with e after it, what follows x is e.
LEMMA WhatFollows ==
    ASSUME NEW x \in Strings, NEW e \in Strings
    PROVE  /\ SubSeq(x \o e, Len(x) + 1, Len(x \o e)) = e
           /\ IsPrefix(x, x \o e)
<1>1. x \in Seq(0 .. 255) /\ e \in Seq(0 .. 255)
  BY DEF Strings
<1>2. SubSeq(x \o e, Len(x) + 1, Len(x \o e)) = e
  BY <1>1, SubSeqProperties, ConcatProperties, LenProperties, SeqEqual
<1>3. SubSeq(x \o e, 1, Len(x)) = x
  BY <1>1
<1>4. Len(x) <= Len(x \o e)
  BY <1>1
<1> QED BY <1>2, <1>3, <1>4 DEF IsPrefix

LEMMA CharactersMakeStrings == Seq(Characters) \subseteq Strings
<1>1. Characters \subseteq 0 .. 255
  BY CharactersAre
<1>2. \A S, B : S \subseteq B => \A t \in Seq(S) : t \in Seq(B)
  BY SeqMonotonic
<1> DEFINE C == Characters
           B == 0 .. 255
<1>3. C \subseteq B
  BY <1>1
<1>4. Seq(C) \subseteq Seq(B)
  <2> HIDE DEF C, B
  <2> QED BY <1>2, <1>3, Zenon
<1> QED BY <1>4 DEF Strings

\* The encoder writes characters, and none for no bytes.
LEMMA EncodedIs ==
    ASSUME NEW s \in Strings
    PROVE  /\ encodeV2(s) \in Seq(Characters) /\ encodeV2(s) \in Strings
           /\ s = <<>> => encodeV2(s) = <<>>
           /\ s # <<>> => encodeV2(s) # <<>>
<1>1. s \in Seq(0 .. 255)
  BY DEF Strings
<1>2. PICK w : WrittenFrom(w, s) /\ encodeV2(s) = w[8 * Len(s)]
  BY <1>1, EncoderWrites
<1> DEFINE n == 8 * Len(s)
<1>3. n \in -5 .. n /\ (s = <<>> => n <= 0) /\ (s # <<>> => n \in 1 .. n /\ ~(n <= 0))
  <2>1. Len(s) \in Nat /\ (s = <<>> <=> Len(s) = 0)
    BY <1>1, EmptySeq
  <2> QED BY <2>1
<1> HIDE DEF n
<1>4. /\ w[n] \in Seq(Characters)
      /\ w[n] = IF n <= 0 THEN <<>> ELSE <<Alphabet[CodeAt(s, n) + 1]>> \o w[After(s, n)]
  BY <1>2, <1>3 DEF WrittenFrom, n
<1>5. s # <<>> => w[n] # <<>>
  <2> SUFFICES ASSUME s # <<>> PROVE w[n] # <<>>
    OBVIOUS
  <2>1. After(s, n) \in -5 .. n
    <3>1. After(s, n) \in {n - 5, n - 6}
      BY <1>1, <1>3, StepsBack DEF n
    <3> QED BY <1>3, <3>1
  <2>2. w[After(s, n)] \in Seq(Characters)
    BY <1>2, <2>1 DEF WrittenFrom, n
  <2>3. w[After(s, n)] \in Strings
    BY <2>2, CharactersMakeStrings
  <2>4. Len(w[n]) = Len(w[After(s, n)]) + 1 /\ Len(w[After(s, n)]) \in Nat
    BY <1>3, <1>4, <2>3, StringLonger
  <2>5. Len(w[n]) # 0
    BY <2>4
  <2> QED BY <2>5
<1> QED BY <1>2, <1>3, <1>4, <1>5, CharactersMakeStrings DEF n

LEMMA FunctionIsSeq ==
    ASSUME NEW S, NEW k \in Nat, NEW f \in [1 .. k -> S]
    PROVE  f \in Seq(S) /\ Len(f) = k
<1>1. f \in Seq(S)
  OBVIOUS
<1>2. DOMAIN f = 1 .. k
  OBVIOUS
<1> QED BY <1>1, <1>2

\* What is alike up to n begins alike.
LEMMA SameFront ==
    ASSUME NEW S, NEW u, NEW v, NEW n \in Nat,
           \A i \in 1 .. n : u[i] = v[i] /\ v[i] \in S
    PROVE  SubSeq(u, 1, n) = SubSeq(v, 1, n)
<1> DEFINE x == SubSeq(u, 1, n)
           y == SubSeq(v, 1, n)
<1>1. \A i \in 1 .. n : u[i] \in S /\ v[i] \in S
  OBVIOUS
<1>2. /\ x \in Seq(S) /\ Len(x) = (IF 1 <= n THEN n - 1 + 1 ELSE 0)
      /\ \A i \in 1 .. n - 1 + 1 : x[i] = u[1 + i - 1]
  BY <1>1, SubSeqProperties
<1>3. /\ y \in Seq(S) /\ Len(y) = (IF 1 <= n THEN n - 1 + 1 ELSE 0)
      /\ \A i \in 1 .. n - 1 + 1 : y[i] = v[1 + i - 1]
  BY <1>1, SubSeqProperties
<1> HIDE DEF x, y
<1>4. Len(x) = n /\ Len(y) = n /\ \A i \in 1 .. n : x[i] = y[i]
  BY <1>2, <1>3
<1>5. x = y
  BY <1>2, <1>3, <1>4, SeqEqual
<1> QED BY <1>5 DEF x, y

\* Appending changes what is after a buffer's bytes only.
LEMMA FilledIs ==
    ASSUME NEW buf, IsBuffer(buf), NEW t \in Strings
    PROVE  /\ IsBuffer(Filled(buf, t)) /\ Filled(buf, t).len = buf.len
           /\ Held(Filled(buf, t)) = Held(buf)
<1> DEFINE m == buf.mem
           n == buf.len
           f == [i \in DOMAIN m |-> IF i > n /\ i <= n + Len(t) THEN t[i - n] ELSE m[i]]
<1>1. m \in Seq(0 .. 255) /\ Len(m) \in Nat /\ n \in 0 .. Len(m)
  BY StringsAre DEF IsBuffer, Strings
<1>2. Len(t) \in Nat /\ \A i \in 1 .. Len(t) : t[i] \in 0 .. 255
  BY StringsAre
<1>3. \A i \in 1 .. Len(m) : m[i] \in 0 .. 255
  BY <1>1, ElementOfSeq
<1>4. Filled(buf, t) = [mem |-> f, len |-> n]
  BY DEF Filled
<1>5. DOMAIN m = 1 .. Len(m)
  BY <1>1, LenProperties
<1> HIDE DEF m, n
<1>6. f \in Seq(0 .. 255) /\ Len(f) = Len(m)
  <2>1. \A i \in 1 .. Len(m) : f[i] \in 0 .. 255
    <3> SUFFICES ASSUME NEW i \in 1 .. Len(m) PROVE f[i] \in 0 .. 255
      OBVIOUS
    <3>1. CASE i > n /\ i <= n + Len(t)
      <4>1. i - n \in 1 .. Len(t)
        BY <1>1, <1>2, <3>1
      <4>2. f[i] = t[i - n]
        BY <1>5, <3>1
      <4> QED BY <1>2, <4>1, <4>2
    <3>2. CASE ~(i > n /\ i <= n + Len(t))
      <4>1. f[i] = m[i]
        BY <1>5, <3>2
      <4> QED BY <1>3, <4>1
    <3> QED BY <3>1, <3>2
  <2>2. f \in [1 .. Len(m) -> 0 .. 255]
    BY <1>5, <2>1
  <2> DEFINE bytes == 0 .. 255
             k == Len(m)
  <2>3. f \in [1 .. k -> bytes] /\ k \in Nat
    BY <1>1, <2>2
  <2> HIDE DEF f, bytes, k
  <2>4. f \in Seq(bytes) /\ Len(f) = k
    BY <2>3, FunctionIsSeq
  <2> QED BY <2>4 DEF bytes, k
<1>7. SubSeq(f, 1, n) = SubSeq(m, 1, n)
  <2>1. \A i \in 1 .. n : f[i] = m[i]
    BY <1>1, <1>5
  <2>2. \A i \in 1 .. n : i \in 1 .. Len(m)
    BY <1>1
  <2>3. n \in Nat
    BY <1>1
  <2> HIDE DEF f
  <2> QED BY <1>3, <2>1, <2>2, <2>3, SameFront
<1> HIDE DEF f
<1> QED BY <1>1, <1>4, <1>6, <1>7 DEF IsBuffer, Strings, Held, m, n

\* What follows a buffer's bytes once the encoder has appended.
LEMMA WhatFollowsBuffer ==
    ASSUME NEW buf, IsBuffer(buf), NEW e \in Strings,
           NEW x, x = Held(buf) \o e
    PROVE  SubSeq(x, buf.len + 1, Len(x)) = e /\ IsPrefix(Held(buf), x)
<1>1. Held(buf) \in Strings /\ Len(Held(buf)) = buf.len
  BY HeldIs
<1> QED BY <1>1, WhatFollows

LEMMA EncodedFollows ==
    ASSUME NEW buf, IsBuffer(buf), NEW s \in Strings,
           NEW x, x = EncodeToBuf(buf, s)
    PROVE  SubSeq(x, buf.len + 1, Len(x)) = encodeV2(s)
<1>1. CASE s = <<>>
  <2>1. x = <<>> /\ encodeV2(s) = <<>>
    BY <1>1, EncodedIs DEF EncodeToBuf
  <2>2. Len(x) = 0 /\ buf.len + 1 \in Int /\ 0 \in Int /\ 0 < buf.len + 1
    <3>1. Len(<<>>) = 0
      BY EmptySeq
    <3>2. buf.len \in Nat
      BY StringsAre DEF IsBuffer
    <3> QED BY <2>1, <3>1, <3>2
  <2>3. SubSeq(x, buf.len + 1, 0) = <<>>
    BY <2>2, SubSeqEmpty
  <2> QED BY <2>1, <2>2, <2>3
<1>2. CASE s # <<>>
  <2>1. x = Held(buf) \o encodeV2(s)
    BY <1>2 DEF EncodeToBuf
  <2>2. encodeV2(s) \in Strings
    BY EncodedIs
  <2> QED BY <2>1, <2>2, WhatFollowsBuffer
<1> QED BY <1>1, <1>2

\* The memory the decoder writes to: the caller's when it has room, or a new one.
Memory(buf, room) ==
    IF Len(buf.mem) >= room THEN buf.mem
    ELSE [i \in 1 .. room |-> IF i <= buf.len THEN buf.mem[i] ELSE 0]

LEMMA MemoryIs ==
    ASSUME NEW buf, IsBuffer(buf), NEW room \in Nat, buf.len <= room
    PROVE  /\ Memory(buf, room) \in Strings
           /\ Len(Memory(buf, room)) \in Nat /\ room <= Len(Memory(buf, room))
           /\ \A i \in 1 .. buf.len : Memory(buf, room)[i] = buf.mem[i]
<1>1. buf.mem \in Strings /\ buf.len \in 0 .. Len(buf.mem) /\ Len(buf.mem) \in Nat
  BY StringsAre DEF IsBuffer
<1> DEFINE new == [i \in 1 .. room |-> IF i <= buf.len THEN buf.mem[i] ELSE 0]
<1>2. new \in [1 .. room -> 0 .. 255]
  <2>1. \A i \in 1 .. Len(buf.mem) : buf.mem[i] \in 0 .. 255
    BY <1>1, StringsAre
  <2>2. \A i \in 1 .. room : i <= buf.len => i \in 1 .. Len(buf.mem)
    BY <1>1
  <2> QED BY <2>1, <2>2
<1>3. new \in Strings /\ Len(new) = room
  <2> HIDE DEF new
  <2>1. new \in Seq(0 .. 255)
    BY <1>2
  <2>2. DOMAIN new = 1 .. room
    BY <1>2
  <2> QED BY <2>1, <2>2 DEF Strings
<1>4. \A i \in 1 .. buf.len : new[i] = buf.mem[i]
  BY <1>1
<1>5. Memory(buf, room) = IF Len(buf.mem) >= room THEN buf.mem ELSE new
  BY DEF Memory
<1> HIDE DEF new
<1>6. CASE Len(buf.mem) >= room
  BY <1>1, <1>5, <1>6
<1>7. CASE ~(Len(buf.mem) >= room)
  BY <1>3, <1>4, <1>5, <1>7
<1> QED BY <1>6, <1>7

FirstIllegal(t) ==
    LET illegal == {i \in DOMAIN t : t[i] \notin Range(Alphabet)}
    IN  IF illegal = {} THEN -1 ELSE Min(illegal) - 1

LEMMA ErrorIsFirstIllegal ==
    ASSUME NEW t \in Strings, NEW error \in {-1} \cup Nat, ErrorUpTo(error, t, Len(t))
    PROVE  error = FirstIllegal(t)
<1> DEFINE n == Len(t)
           illegal == {i \in 1 .. n : t[i] \notin Characters}
<1>1. n \in Nat /\ DOMAIN t = 1 .. n
  BY LenProperties DEF Strings
<1>2. FirstIllegal(t) = IF illegal = {} THEN -1 ELSE Min(illegal) - 1
  BY <1>1 DEF FirstIllegal, Characters
<1> HIDE DEF n
<1>3. CASE error = -1
  <2>1. illegal = {}
    BY <1>3 DEF ErrorUpTo, n
  <2> QED BY <1>2, <1>3, <2>1
<1>4. CASE error # -1
  <2>1. error \in Nat /\ error + 1 \in illegal /\ \A j \in 1 .. error : t[j] \in Characters
    BY <1>4 DEF ErrorUpTo, n
  <2>2. illegal \subseteq 0 .. n /\ illegal # {}
    BY <2>1
  <2>3. Min(illegal) \in illegal /\ \A x \in illegal : Min(illegal) <= x
    <3> HIDE DEF illegal
    <3> QED BY <1>1, <2>2, Bounds
  <2>4. Min(illegal) = error + 1
    <3>1. Min(illegal) \in 1 .. n /\ t[Min(illegal)] \notin Characters
      BY <2>3
    <3>2. Min(illegal) <= error + 1
      BY <2>1, <2>3
    <3>3. ~(Min(illegal) \in 1 .. error)
      BY <2>1, <3>1
    <3> HIDE DEF illegal
    <3> QED BY <1>1, <2>1, <3>1, <3>2, <3>3
  <2> HIDE DEF illegal
  <2>5. Min(illegal) - 1 = error
    BY <2>1, <2>4
  <2> QED BY <1>2, <2>2, <2>5
<1> QED BY <1>3, <1>4

\* The decoder's answer, when there is a text.
Answer(buf, mem, d) ==
    LET idx == Len(mem) - buf.len - Len(d.bytes)
    IN  IF d.error >= 0 THEN [Nil EXCEPT !.error = d.error]
        ELSE [Nil EXCEPT !.mem = Result(mem, buf.len, idx, d.bytes), !.len = Len(mem) - idx]

\* There is always room: the decoder never writes before its buffer.
LEMMA DecoderHasRoom ==
    ASSUME NEW buf, IsBuffer(buf), NEW t \in Strings, t # <<>>
    PROVE  /\ buf.len + possibleLen(t) \in Nat /\ buf.len <= buf.len + possibleLen(t)
           /\ DecodeToBuf(buf, t) =
                  Answer(buf, Memory(buf, buf.len + possibleLen(t)), decode(t))
<1> DEFINE d == decode(t)
           room == buf.len + possibleLen(t)
           mem == Memory(buf, room)
           idx == Len(mem) - buf.len - Len(d.bytes)
<1>1. DecodeToBuf(buf, t) = IF idx < 0 THEN [Nil EXCEPT !.panic = TRUE] ELSE Answer(buf, mem, d)
  BY DEF DecodeToBuf, Answer, Memory
<1>2. Len(d.bytes) \in Nat /\ Len(d.bytes) <= possibleLen(t)
  BY DecodeIsWithin DEF Within
<1>3. buf.len \in Nat
  BY StringsAre DEF IsBuffer
<1>4. possibleLen(t) \in Nat
  <2>1. Len(t) \in Nat
    BY StringsAre
  <2> QED BY <2>1 DEF possibleLen
<1>5. room \in Nat /\ buf.len <= room
  BY <1>3, <1>4
<1>6. Len(mem) \in Nat /\ room <= Len(mem)
  <2> HIDE DEF room
  <2> QED BY <1>5, MemoryIs
<1>7. ~(idx < 0)
  <2> HIDE DEF mem, d
  <2> QED BY <1>2, <1>3, <1>4, <1>6
<1> QED BY <1>1, <1>5, <1>7

LEMMA DecodeToBufIsSafe ==
    ASSUME NEW buf, IsBuffer(buf), NEW t \in Strings
    PROVE  /\ ~DecodeToBuf(buf, t).panic
           /\ DecodeToBuf(buf, t).error = FirstIllegal(t)
<1>1. CASE t = <<>>
  <2>1. DecodeToBuf(buf, t) = Nil
    BY <1>1 DEF DecodeToBuf
  <2>2. ErrorUpTo(-1, t, Len(t))
    <3>1. Len(t) = 0
      BY <1>1, EmptySeq
    <3> QED BY <3>1 DEF ErrorUpTo
  <2>3. FirstIllegal(t) = -1
    BY <2>2, ErrorIsFirstIllegal
  <2> QED BY <2>1, <2>3 DEF Nil
<1>2. CASE t # <<>>
  <2> DEFINE d == decode(t)
             answer == DecodeToBuf(buf, t)
  <2>1. d.error \in {-1} \cup Nat /\ d.error = FirstIllegal(t)
    BY DecodeIsWithin, ErrorIsFirstIllegal DEF Within
  <2>2. answer = Answer(buf, Memory(buf, buf.len + possibleLen(t)), d)
    BY <1>2, DecoderHasRoom
  <2>3. ~answer.panic /\ answer.error = IF d.error >= 0 THEN d.error ELSE -1
    <3> HIDE DEF d
    <3> QED BY <2>2 DEF Answer, Nil
  <2> HIDE DEF d, answer
  <2>4. answer.error = d.error
    BY <2>1, <2>3
  <2> QED BY <2>1, <2>3, <2>4 DEF answer
<1> QED BY <1>1, <1>2

-----------------------------------------------------------------------------
(* The client.                                                             *)

\* What the client holds came from the calls that it made.
HoldsValues ==
    /\ call \in {"none", "Encode", "Decode", "DecodeOther", "FormatInt", "ParseInt"}
    /\ src \in Strings /\ IsBuffer(dst)

HoldsEncoded == call \in {"Encode", "Decode"} => text = EncodeToBuf(dst, src)

HoldsDecoded ==
    /\ call = "Decode" => result = DecodeToBuf(dst, Appended)
    /\ call = "DecodeOther" => text \in Strings /\ result = DecodeToBuf(dst, text)

HoldsNumber ==
    /\ call \in {"FormatInt", "ParseInt"} => num \in Numbers /\ text = AppendInt(dst, num)
    /\ call = "ParseInt" => result = ParseInt(Appended)

ClientInv == HoldsValues /\ HoldsEncoded /\ HoldsDecoded /\ HoldsNumber

LEMMA InputsAre ==
    /\ \A buf \in Buffers : IsBuffer(buf)
    /\ Sources \subseteq Strings /\ Texts \subseteq Strings
    /\ <<>> \in Strings /\ IsBuffer([mem |-> <<>>, len |-> 0])
<1>1. <<>> \in Strings
  BY DEF Strings
<1>2. IsBuffer([mem |-> <<>>, len |-> 0])
  <2>1. Len(<<>>) = 0
    BY EmptySeq
  <2> QED BY <1>1, <2>1 DEF IsBuffer
<1> QED BY <1>1, <1>2, BuffersAssumption, BytesAssumption DEF IsBuffer, Strings

LEMMA ClientInvHolds == Spec => []ClientInv
<1>1. Init => ClientInv
  BY InputsAre DEF Init, ClientInv, HoldsValues, HoldsEncoded, HoldsDecoded, HoldsNumber
<1>2. ClientInv /\ [Next]_vars => ClientInv'
  <2> SUFFICES ASSUME ClientInv, [Next]_vars PROVE ClientInv'
    OBVIOUS
  <2> USE DEF ClientInv, HoldsValues, HoldsEncoded, HoldsDecoded, HoldsNumber
  <2>1. CASE Encode
    <3>1. PICK buf \in Buffers : /\ src' \in Sources /\ dst' = Filled(buf, encodeV2(src'))
                                 /\ text' = EncodeToBuf(buf, src')
      BY <2>1 DEF Encode
    <3>2. IsBuffer(buf) /\ src' \in Strings /\ encodeV2(src') \in Strings
      BY <3>1, InputsAre, EncodedIs
    <3>3. IsBuffer(dst') /\ Held(dst') = Held(buf)
      BY <3>1, <3>2, FilledIs
    <3>4. text' = EncodeToBuf(dst', src')
      BY <3>1, <3>3 DEF EncodeToBuf
    <3> QED BY <2>1, <3>2, <3>3, <3>4 DEF Encode
  <2>2. CASE Decode
    BY <2>2 DEF Decode, Appended
  <2>3. CASE DecodeOther
    BY <2>3, InputsAre DEF DecodeOther
  <2>4. CASE Format
    BY <2>4, InputsAre DEF Format
  <2>5. CASE Parse
    BY <2>5 DEF Parse, Appended
  <2>6. CASE Forget
    BY <2>6, InputsAre DEF Forget
  <2>7. CASE UNCHANGED vars
    BY <2>7 DEF vars, Appended
  <2> QED BY <2>1, <2>2, <2>3, <2>4, <2>5, <2>6, <2>7 DEF Next
<1> QED BY <1>1, <1>2, PTL DEF Spec

\* Whatever the bytes and the buffer, the text appended is the one the obsolete
\* encoder wrote.
THEOREM TextsStay == Spec => []TextsAreStable
<1>1. ClientInv => TextsAreStable
  <2> SUFFICES ASSUME ClientInv, call = "Encode", src # <<>>
               PROVE  text = Held(dst) \o encodeV1(src)
    BY DEF TextsAreStable
  <2>1. src \in Strings /\ text = EncodeToBuf(dst, src)
    BY DEF ClientInv, HoldsValues, HoldsEncoded
  <2>2. encodeV1(src) = encodeV2(src)
    BY <2>1, EncodersAgree DEF Strings
  <2> QED BY <2>1, <2>2 DEF EncodeToBuf
<1> QED BY <1>1, ClientInvHolds, PTL

\* Whatever the text, the decoder stays within its buffer and reports its first
\* illegal character.
THEOREM DecodingIsSafe == Spec => []DecodeIsSafe
<1>1. ClientInv => DecodeIsSafe
  <2> SUFFICES ASSUME ClientInv, call \in {"Decode", "DecodeOther"}
               PROVE  /\ ~result.panic
                      /\ result.error = FirstIllegal(IF call = "Decode" THEN Appended ELSE text)
    BY DEF DecodeIsSafe, FirstIllegal
  <2>1. IsBuffer(dst)
    BY DEF ClientInv, HoldsValues
  <2>2. CASE call = "Decode"
    <3>1. src \in Strings /\ text = EncodeToBuf(dst, src) /\ result = DecodeToBuf(dst, Appended)
      BY <2>2 DEF ClientInv, HoldsValues, HoldsEncoded, HoldsDecoded
    <3>2. Appended = encodeV2(src)
      BY <2>1, <3>1, EncodedFollows DEF Appended
    <3>3. Appended \in Strings
      BY <3>1, <3>2, EncodedIs
    <3> QED BY <2>1, <2>2, <3>1, <3>3, DecodeToBufIsSafe
  <2>3. CASE call = "DecodeOther"
    <3>1. text \in Strings /\ result = DecodeToBuf(dst, text)
      BY <2>3 DEF ClientInv, HoldsDecoded
    <3> QED BY <2>1, <2>3, <3>1, DecodeToBufIsSafe
  <2> QED BY <2>2, <2>3
<1> QED BY <1>1, ClientInvHolds, PTL

-----------------------------------------------------------------------------
(* The integers.                                                           *)

LEMMA PowersAre ==
    \A k \in 0 .. Digits : /\ powers[k] \in Nat
                           /\ powers[k] = IF k = 0 THEN 1 ELSE 62 * powers[k - 1]
<1> DEFINE n == Digits
           F(f) == [k \in 0 .. n |-> IF k = 0 THEN 1 ELSE 62 * f[k - 1]]
           v == CHOOSE f : f = F(f)
           p == [k \in 1 .. n |-> k - 1]
           step == [q \in (1 .. n) \X Nat |-> 62 * q[2]]
<1>1. powers = v
  BY DEF powers, base
<1>2. n \in Nat
  BY DigitsAssumption
<1> HIDE DEF n
<1>3. \E f : f = F(f)
  <2>1. step \in [(1 .. n) \X Nat -> Nat]
    OBVIOUS
  <2>2. p \in [1 .. n -> 0 .. n] /\ \A k \in 1 .. n : p[k] < k
    BY <1>2
  <2>3. \E f : Recurs(f, 0, n, Nat, 1, p, step)
    <3>1. 0 \in Int /\ 0 <= 0 /\ 1 \in Nat
      OBVIOUS
    <3> HIDE DEF p, step
    <3> QED BY <1>2, <2>1, <2>2, <3>1, Recursion
  <2>4. PICK f \in [0 .. n -> Nat] :
            \A m \in 0 .. n : f[m] = IF m <= 0 THEN 1 ELSE step[<<m, f[p[m]]>>]
    BY <2>3 DEF Recurs
  <2>5. ASSUME NEW m \in 0 .. n PROVE f[m] = IF m = 0 THEN 1 ELSE 62 * f[m - 1]
    <3>1. CASE m = 0
      <4>1. m <= 0
        BY <3>1
      <4> HIDE DEF step, p
      <4> QED BY <2>4, <3>1, <4>1
    <3>2. CASE m # 0
      <4>1. m \in 1 .. n /\ ~(m <= 0) /\ p[m] = m - 1 /\ m - 1 \in 0 .. n
        BY <1>2, <3>2
      <4>2. f[m - 1] \in Nat
        BY <4>1
      <4>3. step[<<m, f[m - 1]>>] = 62 * f[m - 1]
        BY <4>1, <4>2
      <4> HIDE DEF step, p
      <4> QED BY <2>4, <3>2, <4>1, <4>3
    <3> QED BY <3>1, <3>2
  <2>6. f = F(f)
    <3> HIDE DEF p, step
    <3> QED BY <2>5
  <2> QED BY <2>6
<1>4. v = F(v)
  <2> HIDE DEF F
  <2> QED BY <1>3
<1> HIDE DEF v
<1>5. \A k \in 0 .. n : v[k] = IF k = 0 THEN 1 ELSE 62 * v[k - 1]
  BY <1>4
<1> HIDE DEF F
<1> DEFINE T == {k \in 0 .. n : v[k] \in Nat}
<1>6. ASSUME NEW i \in 0 .. n, \A j \in 0 .. i - 1 : j \in T PROVE i \in T
  <2>1. CASE i = 0
    BY <1>5, <2>1
  <2>2. CASE i # 0
    <3>1. i - 1 \in 0 .. i - 1
      BY <1>2, <2>2
    <3>2. v[i - 1] \in Nat
      BY <1>6, <3>1
    <3> QED BY <1>5, <2>2, <3>2
  <2> QED BY <2>1, <2>2
<1>7. \A i \in 0 .. n : i \in T
  <2> HIDE DEF T
  <2> QED BY <1>2, <1>6, UpTo
<1> QED BY <1>1, <1>5, <1>7 DEF n

\* w[m] is m in digits, nothing for 0.
FormattedBy(w, n) ==
    \A m \in 0 .. n :
        /\ w[m] \in Strings
        /\ w[m] = IF m = 0 THEN <<>> ELSE Append(w[m \div 62], Alphabet[(m % 62) + 1])

LEMMA StringEnds ==
    \A t \in Strings, c \in 0 .. 255 : Append(t, c) \in Strings
BY AppendProperties DEF Strings

LEMMA FormatWrites ==
    ASSUME NEW n \in Nat
    PROVE  \E w : /\ FormattedBy(w, n)
                  /\ FormatUint(n) = IF n = 0 THEN <<Alphabet[1]>> ELSE w[n]
<1> DEFINE F(f) == [m \in 0 .. n |->
                       IF m = 0 THEN <<>> ELSE Append(f[m \div 62], Alphabet[(m % 62) + 1])]
           v == CHOOSE f : f = F(f)
           p == [m \in 1 .. n |-> m \div 62]
           step == [q \in (1 .. n) \X Strings |-> Append(q[2], Alphabet[(q[1] % 62) + 1])]
<1>1. FormatUint(n) = IF n = 0 THEN <<Alphabet[1]>> ELSE v[n]
  BY DEF FormatUint, base
<1>2. \A m \in 1 .. n : m \div 62 \in 0 .. n /\ m \div 62 < m /\ (m % 62) + 1 \in 1 .. 62
  OBVIOUS
<1>3. \A m \in 1 .. n : Alphabet[(m % 62) + 1] \in 0 .. 255
  BY <1>2, CharactersAreBytes, Zenon
<1>4. step \in [(1 .. n) \X Strings -> Strings]
  BY <1>3, StringEnds
<1>5. <<>> \in Strings
  BY DEF Strings
<1>6. \E f : f \in [0 .. n -> Strings] /\ f = F(f)
  <2>1. p \in [1 .. n -> 0 .. n] /\ \A m \in 1 .. n : p[m] = m \div 62 /\ p[m] < m
    BY <1>2
  <2>2. \E f : Recurs(f, 0, n, Strings, <<>>, p, step)
    <3>1. 0 \in Int /\ 0 <= 0 /\ \A m \in 1 .. n : p[m] < m
      BY <2>1
    <3> HIDE DEF p, step
    <3> QED BY <1>4, <1>5, <2>1, <3>1, Recursion
  <2>3. PICK f \in [0 .. n -> Strings] :
            \A m \in 0 .. n : f[m] = IF m <= 0 THEN <<>> ELSE step[<<m, f[p[m]]>>]
    BY <2>2 DEF Recurs
  <2>4. ASSUME NEW m \in 0 .. n
        PROVE  f[m] = IF m = 0 THEN <<>> ELSE Append(f[m \div 62], Alphabet[(m % 62) + 1])
    <3>1. CASE m = 0
      <4>1. m <= 0
        BY <3>1
      <4> HIDE DEF step, p
      <4> QED BY <2>3, <3>1, <4>1
    <3>2. CASE m # 0
      <4>1. m \in 1 .. n /\ ~(m <= 0)
        BY <3>2
      <4>2. p[m] = m \div 62 /\ m \div 62 \in 0 .. n
        BY <1>2, <2>1, <4>1
      <4>3. f[m \div 62] \in Strings
        BY <4>2
      <4>4. step[<<m, f[m \div 62]>>] = Append(f[m \div 62], Alphabet[(m % 62) + 1])
        <5> DEFINE g == f[m \div 62]
        <5> HIDE DEF g
        <5>1. g \in Strings
          BY <4>3 DEF g
        <5>2. step[<<m, g>>] = Append(g, Alphabet[(m % 62) + 1])
          BY <4>1, <5>1
        <5> HIDE DEF step
        <5> QED BY <5>2 DEF g
      <4> HIDE DEF step, p
      <4> QED BY <2>3, <3>2, <4>1, <4>2, <4>4
    <3> QED BY <3>1, <3>2
  <2>5. f = F(f)
    <3> HIDE DEF p, step
    <3> QED BY <2>4
  <2> QED BY <2>5
<1>7. v = F(v)
  <2> HIDE DEF F
  <2> QED BY <1>6
<1> HIDE DEF v
<1>8. \A m \in 0 .. n :
         v[m] = IF m = 0 THEN <<>> ELSE Append(v[m \div 62], Alphabet[(m % 62) + 1])
  BY <1>7
<1> HIDE DEF F
<1> DEFINE T == {m \in 0 .. n : v[m] \in Strings}
<1>9. ASSUME NEW i \in 0 .. n, \A j \in 0 .. i - 1 : j \in T PROVE i \in T
  <2>1. CASE i = 0
    BY <1>5, <1>8, <2>1
  <2>2. CASE i # 0
    <3>1. i \in 1 .. n /\ i \div 62 \in 0 .. i - 1
      BY <1>2, <2>2
    <3>2. v[i \div 62] \in Strings
      BY <1>9, <3>1
    <3>3. Append(v[i \div 62], Alphabet[(i % 62) + 1]) \in Strings
      BY <1>3, <3>1, <3>2, StringEnds, Zenon
    <3>4. v[i] = Append(v[i \div 62], Alphabet[(i % 62) + 1])
      BY <1>8, <2>2
    <3> QED BY <3>3, <3>4
  <2> QED BY <2>1, <2>2
<1>10. \A i \in 0 .. n : i \in T
  <2> HIDE DEF T
  <2> QED BY <1>9, UpTo
<1>11. FormattedBy(v, n)
  BY <1>8, <1>10 DEF FormattedBy
<1> QED BY <1>1, <1>11

LEMMA EndedIs ==
    ASSUME NEW t \in Strings, NEW c \in 0 .. 255
    PROVE  /\ Len(Append(t, c)) = Len(t) + 1 /\ Len(t) \in Nat
           /\ Append(t, c)[Len(t) + 1] = c
           /\ \A i \in 1 .. Len(t) : Append(t, c)[i] = t[i]
BY AppendProperties, LenProperties DEF Strings

\* A number below a power of the base has no more digits than the power says.
LEMMA DigitsAreFew ==
    ASSUME NEW n \in Nat, NEW w, FormattedBy(w, n)
    PROVE  \A m \in 0 .. n : \A k \in 0 .. Digits : m < powers[k] => Len(w[m]) <= k
<1> DEFINE Few(m) == \A k \in 0 .. Digits : m < powers[k] => Len(w[m]) <= k
           T == {m \in 0 .. n : Few(m)}
<1>1. ASSUME NEW m \in 0 .. n, \A j \in 0 .. m - 1 : j \in T PROVE m \in T
  <2>1. CASE m = 0
    <3>1. Len(w[m]) = 0
      BY <2>1, EmptySeq DEF FormattedBy
    <3> QED BY <3>1
  <2>2. CASE m # 0
    <3> SUFFICES ASSUME NEW k \in 0 .. Digits, m < powers[k] PROVE Len(w[m]) <= k
      OBVIOUS
    <3>1. /\ m \in 1 .. n /\ m \div 62 \in 0 .. m - 1 /\ m \div 62 \in 0 .. n
          /\ (m % 62) + 1 \in 1 .. 62
      BY <2>2
    <3>2. k # 0 /\ k - 1 \in 0 .. Digits
      <4>1. powers[0] = 1
        BY PowersAre, DigitsAssumption
      <4> QED BY <4>1, <3>1, DigitsAssumption
    <3>3. powers[k] = 62 * powers[k - 1] /\ powers[k - 1] \in Nat
      BY <3>2, PowersAre
    <3>4. m \div 62 < powers[k - 1]
      <4>1. \A q \in Nat : m < 62 * q => m \div 62 < q
        BY <3>1
      <4> QED BY <3>3, <4>1
    <3>5. Len(w[m \div 62]) <= k - 1
      <4>1. Few(m \div 62)
        BY <1>1, <3>1
      <4> QED BY <3>2, <3>4, <4>1
    <3>6. w[m] = Append(w[m \div 62], Alphabet[(m % 62) + 1])
      BY <2>2 DEF FormattedBy
    <3>7. w[m \div 62] \in Strings /\ Alphabet[(m % 62) + 1] \in 0 .. 255
      BY <3>1, CharactersAre DEF FormattedBy
    <3>8. Len(w[m]) = Len(w[m \div 62]) + 1 /\ Len(w[m \div 62]) \in Nat
      BY <3>6, <3>7, EndedIs
    <3> QED BY <3>2, <3>5, <3>8
  <2> QED BY <2>1, <2>2
<1>2. \A m \in 0 .. n : m \in T
  <2> HIDE DEF T
  <2> QED BY <1>1, UpTo
<1> QED BY <1>2

ParserState == [num : Nat, error : {-1} \cup Nat]

Parsed(n) == [num |-> n, error |-> -1]

\* a[i] is the parser after i characters.
ParsedBy(a, t) ==
    /\ a[0] = Parsed(0)
    /\ \A i \in 1 .. Len(t) : a[i] = AddDigit(t, a[i - 1], i)

LEMMA ParserAdds ==
    ASSUME NEW t \in Strings, Half # 0
    PROVE  \E a : ParsedBy(a, t) /\ ParseUint(t) = a[Len(t)]
<1> DEFINE n == Len(t)
           F(f) == [i \in 0 .. n |-> IF i = 0 THEN [num |-> 0, error |-> -1]
                                     ELSE AddDigit(t, f[i - 1], i)]
           a == CHOOSE f : f = F(f)
           p == [i \in 1 .. n |-> i - 1]
           step == [q \in (1 .. n) \X ParserState |-> AddDigit(t, q[2], q[1])]
<1>1. ParseUint(t) = a[n]
  BY DEF ParseUint
<1>2. n \in Nat /\ \A i \in 1 .. n : t[i] \in 0 .. 255
  BY StringsAre
<1> HIDE DEF n
<1>3. Parsed(0) \in ParserState
  BY DEF Parsed, ParserState
<1>4. \A i \in 1 .. n, q \in ParserState : AddDigit(t, q, i) \in ParserState
  <2> SUFFICES ASSUME NEW i \in 1 .. n, NEW q \in ParserState
               PROVE  AddDigit(t, q, i) \in ParserState
    OBVIOUS
  <2> DEFINE x == decodeMap[t[i]]
             v == (q.num * 62 + x) % (2 * Half)
  <2>1. x \in Nat
    <3> DEFINE bytes == 0 .. 255
               codes == 0 .. 61
    <3>1. t[i] \in bytes
      BY <1>2
    <3>2. \A c \in bytes : decodeMap[c] \in codes \/ decodeMap[c] = Illegal
      BY CodesAre
    <3> HIDE DEF bytes, codes
    <3>3. x \in codes \/ x = Illegal
      BY <3>1, <3>2, Zenon
    <3> HIDE DEF x
    <3> QED BY <3>3 DEF codes, Illegal
  <2>2. v \in Nat
    <3>1. q.num \in Nat
      BY DEF ParserState
    <3>2. 2 * Half \in Nat \ {0}
      BY NumbersAssumption
    <3>3. q.num * 62 + x \in Nat
      BY <2>1, <3>1
    <3>4. \A k \in Nat, l \in Nat \ {0} : k % l \in Nat
      OBVIOUS
    <3> QED BY <3>2, <3>3, <3>4, Zenon
  <2>3. AddDigit(t, q, i) = IF q.error >= 0 THEN q
                            ELSE IF x = Illegal THEN [num |-> 0, error |-> i - 1]
                            ELSE [q EXCEPT !.num = v]
    BY DEF AddDigit, base
  <2>4. i - 1 \in Nat
    BY <1>2
  <2> HIDE DEF v, x
  <2> QED BY <2>2, <2>3, <2>4 DEF ParserState
<1>5. \E f : f = F(f)
  <2>1. step \in [(1 .. n) \X ParserState -> ParserState]
    BY <1>4
  <2>2. p \in [1 .. n -> 0 .. n] /\ \A i \in 1 .. n : p[i] < i
    BY <1>2
  <2>3. \E f : Recurs(f, 0, n, ParserState, Parsed(0), p, step)
    <3>1. 0 \in Int /\ 0 <= 0
      OBVIOUS
    <3> HIDE DEF p, step
    <3> QED BY <1>2, <1>3, <2>1, <2>2, <3>1, Recursion
  <2>4. PICK f \in [0 .. n -> ParserState] :
            \A m \in 0 .. n : f[m] = IF m <= 0 THEN Parsed(0) ELSE step[<<m, f[p[m]]>>]
    BY <2>3 DEF Recurs
  <2>5. ASSUME NEW m \in 0 .. n
        PROVE  f[m] = IF m = 0 THEN Parsed(0) ELSE AddDigit(t, f[m - 1], m)
    <3>1. CASE m = 0
      <4>1. m <= 0
        BY <3>1
      <4> HIDE DEF step, p
      <4> QED BY <2>4, <3>1, <4>1
    <3>2. CASE m # 0
      <4>1. m \in 1 .. n /\ ~(m <= 0) /\ p[m] = m - 1 /\ m - 1 \in 0 .. n
        BY <1>2, <3>2
      <4>2. f[m - 1] \in ParserState
        BY <4>1
      <4>3. step[<<m, f[m - 1]>>] = AddDigit(t, f[m - 1], m)
        BY <4>1, <4>2
      <4> HIDE DEF step, p
      <4> QED BY <2>4, <3>2, <4>1, <4>3
    <3> QED BY <3>1, <3>2
  <2>6. f = F(f)
    <3> HIDE DEF p, step
    <3> QED BY <2>5 DEF Parsed
  <2> QED BY <2>6
<1>6. a = F(a)
  <2> HIDE DEF F
  <2> QED BY <1>5
<1> HIDE DEF a
<1>7. a[0] = Parsed(0) /\ \A i \in 1 .. n : a[i] = AddDigit(t, a[i - 1], i)
  <2>1. \A i \in 0 .. n : a[i] = IF i = 0 THEN [num |-> 0, error |-> -1]
                                 ELSE AddDigit(t, a[i - 1], i)
    BY <1>6
  <2>2. 0 \in 0 .. n /\ \A i \in 1 .. n : i \in 0 .. n /\ i # 0
    BY <1>2
  <2> HIDE DEF F
  <2> QED BY <2>1, <2>2 DEF Parsed
<1> QED BY <1>1, <1>7 DEF ParsedBy, n

\* Adding the digit of x to a number that stays in range.
DigitFits(t, i, k, x) ==
    /\ x \in 0 .. 61 /\ t[i] = Alphabet[x + 1]
    /\ k \in Nat /\ k * 62 + x < 2 * Half

LEMMA DigitAdded ==
    ASSUME CharactersDiffer, NEW t, NEW i, NEW k, NEW x, DigitFits(t, i, k, x)
    PROVE  AddDigit(t, Parsed(k), i) = Parsed(k * 62 + x)
<1> USE DEF DigitFits
<1>1. decodeMap[t[i]] = x
  BY CodeOfCharacter
<1>2. x # Illegal
  BY DEF Illegal
<1>3. (k * 62 + x) % (2 * Half) = k * 62 + x
  <2>1. k * 62 + x \in Nat /\ 2 * Half \in Nat
    BY NumbersAssumption
  <2>2. \A u \in Nat, v \in Nat : u < v => u % v = u
    OBVIOUS
  <2> QED BY <2>1, <2>2
<1> DEFINE v == k * 62 + x
<1>4. AddDigit(t, Parsed(k), i) = [Parsed(k) EXCEPT !.num = (k * 62 + x) % (2 * Half)]
  BY <1>1, <1>2 DEF AddDigit, Parsed, base
<1> QED BY <1>3, <1>4 DEF Parsed

Begins(t, x) == Len(x) <= Len(t) /\ \A i \in 1 .. Len(x) : t[i] = x[i]

\* Once it has read the digits of a number the parser has the number.
LEMMA ParserReads ==
    ASSUME CharactersDiffer, NEW n \in Nat, n < 2 * Half,
           NEW w, FormattedBy(w, n), NEW t \in Strings, NEW a, ParsedBy(a, t)
    PROVE  \A m \in 0 .. n : Begins(t, w[m]) => a[Len(w[m])] = Parsed(m)
<1> DEFINE T == {m \in 0 .. n : Begins(t, w[m]) => a[Len(w[m])] = Parsed(m)}
<1>1. ASSUME NEW m \in 0 .. n, \A j \in 0 .. m - 1 : j \in T PROVE m \in T
  <2>1. CASE m = 0
    <3>1. Len(w[m]) = 0
      BY <2>1, EmptySeq DEF FormattedBy
    <3> QED BY <2>1, <3>1 DEF ParsedBy
  <2>2. CASE m # 0
    <3> SUFFICES ASSUME Begins(t, w[m]) PROVE a[Len(w[m])] = Parsed(m)
      OBVIOUS
    <3> DEFINE k == m \div 62
               x == m % 62
               before == w[k]
               c == Alphabet[x + 1]
    <3>1. /\ k \in 0 .. m - 1 /\ k \in 0 .. n /\ k \in Nat /\ x \in 0 .. 61
          /\ k * 62 + x = m /\ m < 2 * Half
      BY <2>2, NumbersAssumption
    <3>2. w[m] = Append(before, c) /\ before \in Strings
      BY <2>2, <3>1 DEF FormattedBy
    <3>3. c \in 0 .. 255
      <4>1. x + 1 \in 1 .. 62
        BY <3>1
      <4> HIDE DEF x
      <4> QED BY <4>1, CharactersAre
    <3> HIDE DEF k, x, before, c
    <3> DEFINE l == Len(before)
    <3>4. /\ Len(w[m]) = l + 1 /\ l \in Nat /\ w[m][l + 1] = c
          /\ \A i \in 1 .. l : w[m][i] = before[i]
      BY <3>2, <3>3, EndedIs
    <3> HIDE DEF l
    <3>5. Len(t) \in Nat /\ l + 1 <= Len(t) /\ \A i \in 1 .. l + 1 : t[i] = w[m][i]
      BY <3>4, StringsAre DEF Begins
    <3>6. Begins(t, before)
      <4>1. l <= Len(t)
        BY <3>4, <3>5
      <4>2. \A i \in 1 .. l : i \in 1 .. l + 1
        BY <3>4
      <4>3. \A i \in 1 .. l : t[i] = before[i]
        BY <3>4, <3>5, <4>2
      <4> QED BY <4>1, <4>3 DEF Begins, l
    <3>7. a[l] = Parsed(k)
      <4>1. k \in T
        BY <1>1, <3>1
      <4> QED BY <3>6, <4>1 DEF before, l
    <3>8. t[l + 1] = Alphabet[x + 1]
      BY <3>4, <3>5 DEF c
    <3>9. a[l + 1] = AddDigit(t, a[l], l + 1)
      <4>1. l + 1 \in 1 .. Len(t) /\ (l + 1) - 1 = l
        BY <3>4, <3>5
      <4> QED BY <4>1 DEF ParsedBy
    <3>10. AddDigit(t, Parsed(k), l + 1) = Parsed(k * 62 + x)
      <4>1. DigitFits(t, l + 1, k, x)
        BY <3>1, <3>8 DEF DigitFits
      <4> QED BY <4>1, DigitAdded
    <3> QED BY <3>1, <3>4, <3>7, <3>9, <3>10
  <2> QED BY <2>1, <2>2
<1>2. \A m \in 0 .. n : m \in T
  <2> HIDE DEF T
  <2> QED BY <1>1, UpTo
<1> QED BY <1>2

\* What was formatted parses, in as many digits as there is room for.
LEMMA ParsesAsFormatted ==
    ASSUME NEW n \in Nat, n < 2 * Half
    PROVE  /\ FormatUint(n) \in Strings /\ Len(FormatUint(n)) <= Digits
           /\ CharactersDiffer => ParseUint(FormatUint(n)) = Parsed(n)
<1> DEFINE t == FormatUint(n)
<1>1. PICK w : FormattedBy(w, n) /\ t = IF n = 0 THEN <<Alphabet[1]>> ELSE w[n]
  BY FormatWrites
<1> HIDE DEF t
<1>2. /\ Half \in Nat \ {0} /\ Digits \in Nat /\ powers[Digits] \in Nat
      /\ 2 * Half <= powers[Digits] /\ powers[0] = 1
  <2>1. Digits \in 0 .. Digits /\ 0 \in 0 .. Digits
    BY DigitsAssumption
  <2> QED BY <2>1, NumbersAssumption, DigitsAssumption, PowersAre
<1>3. CASE n = 0
  <2>1. t = <<Alphabet[1]>> /\ Alphabet[1] \in 0 .. 255
    <3> QED BY <1>1, <1>3, FirstIsByte
  <2>2. t \in Strings /\ Len(t) = 1 /\ t[1] = Alphabet[1]
    BY <2>1 DEF Strings
  <2>3. 1 <= Digits
    BY <1>2
  <2>4. CharactersDiffer => ParseUint(t) = Parsed(n)
    <3> SUFFICES ASSUME CharactersDiffer PROVE ParseUint(t) = Parsed(n)
      OBVIOUS
    <3>1. PICK a : ParsedBy(a, t) /\ ParseUint(t) = a[Len(t)]
      BY <1>2, <2>2, ParserAdds
    <3>2. a[1] = AddDigit(t, a[0], 1) /\ a[0] = Parsed(0)
      BY <2>2, <3>1 DEF ParsedBy
    <3>3. AddDigit(t, Parsed(0), 1) = Parsed(0 * 62 + 0)
      <4>1. DigitFits(t, 1, 0, 0)
        BY <1>2, <2>2 DEF DigitFits
      <4> QED BY <4>1, DigitAdded
    <3> QED BY <1>3, <2>2, <3>1, <3>2, <3>3
  <2> QED BY <2>2, <2>3, <2>4 DEF t
<1>4. CASE n # 0
  <2>1. t = w[n] /\ t \in Strings /\ n \in 0 .. n
    BY <1>1, <1>4 DEF FormattedBy
  <2>2. Len(t) <= Digits
    <3>1. n < powers[Digits] /\ Digits \in 0 .. Digits
      BY <1>2
    <3> QED BY <1>1, <2>1, <3>1, DigitsAreFew
  <2>3. CharactersDiffer => ParseUint(t) = Parsed(n)
    <3> SUFFICES ASSUME CharactersDiffer PROVE ParseUint(t) = Parsed(n)
      OBVIOUS
    <3>1. PICK a : ParsedBy(a, t) /\ ParseUint(t) = a[Len(t)]
      BY <1>2, <2>1, ParserAdds
    <3>2. Begins(t, w[n])
      <4>1. Len(t) \in Nat
        BY <2>1, StringsAre
      <4> QED BY <2>1, <4>1 DEF Begins
    <3>3. a[Len(w[n])] = Parsed(n)
      BY <1>1, <2>1, <3>1, <3>2, ParserReads
    <3> QED BY <2>1, <3>1, <3>3
  <2> QED BY <2>1, <2>2, <2>3 DEF t
<1> QED BY <1>3, <1>4

\* Whatever the number, the least one too, it is parsed as it was formatted.
THEOREM FormattedIsParsed ==
    ASSUME CharactersDiffer
    PROVE  Spec => []ParseInvertsFormat
<1>1. ClientInv => ParseInvertsFormat
  <2> SUFFICES ASSUME ClientInv, call \in {"FormatInt", "ParseInt"}
               PROVE  /\ Len(Appended) <= Digits /\ IsPrefix(Held(dst), text)
                      /\ call = "ParseInt" => result = [num |-> num, error |-> -1]
    BY DEF ParseInvertsFormat
  <2> DEFINE n == uint(num)
             t == FormatUint(n)
  <2>1. /\ IsBuffer(dst) /\ num \in Numbers /\ text = Held(dst) \o t
        /\ call = "ParseInt" => result = ParseInt(Appended)
    BY DEF ClientInv, HoldsValues, HoldsNumber, AppendInt
  <2>2. n \in Nat /\ n < 2 * Half /\ Int64(n) = num
    <3>1. num \in -Half .. Half - 1 /\ Half \in Nat
      BY <2>1, NumbersAssumption
    <3> QED BY <3>1 DEF uint, Int64
  <2> HIDE DEF n
  <2>3. t \in Strings /\ Len(t) <= Digits /\ ParseUint(t) = Parsed(n)
    BY <2>2, ParsesAsFormatted
  <2> HIDE DEF t
  <2>4. Appended = t /\ IsPrefix(Held(dst), text)
    BY <2>1, <2>3, WhatFollowsBuffer DEF Appended
  <2>5. ParseInt(t) = Parsed(num)
    BY <2>2, <2>3 DEF ParseInt, Parsed
  <2> QED BY <2>1, <2>3, <2>4, <2>5 DEF Parsed
<1> QED BY <1>1, ClientInvHolds, PTL

-----------------------------------------------------------------------------
(* The decoder reads what the encoder wrote.                               *)

LEMMA CompactIs == \A x \in 0 .. 63 : Compact(x) <=> x \in {30, 31, 62, 63}
BY DEF Compact

\* Of six bits n are taken; those of a character are as many.
LEMMA BitsAreStep ==
    ASSUME NEW six \in 0 .. 63, NEW pos \in Nat,
           ~(Compact(six) /\ pos <= 6 /\ six <= 31)
    PROVE  /\ Step(six, pos) \in {5, 6}
           /\ Code(six) = six % shift[Step(six, pos)]
           /\ Bits(Code(six), FALSE) = Step(six, pos)
<1>1. CASE Compact(six)
  <2>1. Step(six, pos) = 5 /\ Code(six) = six % 32
    BY <1>1 DEF Step, Code
  <2>2. six \in {30, 31, 62, 63}
    BY <1>1, CompactIs
  <2>3. six % 32 \in {30, 31} /\ six % 32 \in 0 .. 63
    BY <2>2
  <2>4. Compact(six % 32)
    BY <2>3, CompactIs
  <2> QED BY <2>1, <2>4, Shifts DEF Bits
<1>2. CASE ~Compact(six)
  <2>1. Step(six, pos) = 6 /\ Code(six) = six
    BY <1>2 DEF Step, Code
  <2>2. six % 64 = six
    OBVIOUS
  <2> QED BY <1>2, <2>1, <2>2, Shifts DEF Bits
<1> QED BY <1>1, <1>2

\* The bits of one character joined to those behind the upper r of y.
JoinedTo(y, r, x) == (y % shift[8 - r]) + x * shift[8 - r]

\* When all that is taken is of one byte.
OfOne(y, r, n, six) ==
    /\ y \in 0 .. 255 /\ r \in 6 .. 8 /\ n \in {5, 6} /\ r > n
    /\ six = (y \div shift[8 - r]) % 64

JoinsOne(y, r, n, six) == JoinedTo(y, r, six % shift[n]) = y % shift[8 - (r - n)]

LEMMA TakenFromOne ==
    ASSUME NEW y, NEW r, NEW n, NEW six, OfOne(y, r, n, six)
    PROVE  JoinsOne(y, r, n, six)
<1> USE DEF OfOne, JoinsOne, JoinedTo
<1>1. CASE r = 6 /\ n = 5
  <2>1. shift[8 - r] = 4 /\ shift[n] = 32 /\ shift[8 - (r - n)] = 128
    BY <1>1, Shifts
  <2> QED BY <2>1
<1>2. CASE r = 7 /\ n = 5
  <2>1. shift[8 - r] = 2 /\ shift[n] = 32 /\ shift[8 - (r - n)] = 64
    BY <1>2, Shifts
  <2> QED BY <2>1
<1>3. CASE r = 7 /\ n = 6
  <2>1. shift[8 - r] = 2 /\ shift[n] = 64 /\ shift[8 - (r - n)] = 128
    BY <1>3, Shifts
  <2> QED BY <2>1
<1>4. CASE r = 8 /\ n = 5
  <2>1. shift[8 - r] = 1 /\ shift[n] = 32 /\ shift[8 - (r - n)] = 32
    BY <1>4, Shifts
  <2> QED BY <2>1
<1>5. CASE r = 8 /\ n = 6
  <2>1. shift[8 - r] = 1 /\ shift[n] = 64 /\ shift[8 - (r - n)] = 64
    BY <1>5, Shifts
  <2> QED BY <2>1
<1> QED BY <1>1, <1>2, <1>3, <1>4, <1>5

\* When it ends a byte and goes on in the one before.
OfTwo(y, z, r, n, six) ==
    /\ y \in 0 .. 255 /\ z \in 0 .. 255 /\ r \in 1 .. 6 /\ n \in {5, 6} /\ r <= n
    /\ six = IF r = 6 THEN y \div shift[8 - r]
             ELSE (y \div shift[8 - r]) + (z % shift[6 - r]) * shift[r]

JoinsTwo(y, z, r, n, six) ==
    /\ JoinedTo(y, r, six % shift[n]) % 256 = y
    /\ JoinedTo(y, r, six % shift[n]) \div 256 = z % shift[n - r]

LEMMA TakenFromTwo ==
    ASSUME NEW y, NEW z, NEW r, NEW n, NEW six, OfTwo(y, z, r, n, six)
    PROVE  JoinsTwo(y, z, r, n, six)
<1> USE DEF OfTwo, JoinsTwo, JoinedTo
<1>1. CASE r = 1
  <2>1. shift[8 - r] = 128 /\ shift[6 - r] = 32 /\ shift[r] = 2
    BY <1>1, Shifts
  <2>2. CASE n = 5
    <3>1. shift[n] = 32 /\ shift[n - r] = 16
      BY <1>1, <2>2, Shifts
    <3> QED BY <1>1, <2>1, <3>1
  <2>3. CASE n = 6
    <3>1. shift[n] = 64 /\ shift[n - r] = 32
      BY <1>1, <2>3, Shifts
    <3> QED BY <1>1, <2>1, <3>1
  <2> QED BY <2>2, <2>3
<1>2. CASE r = 2
  <2>1. shift[8 - r] = 64 /\ shift[6 - r] = 16 /\ shift[r] = 4
    BY <1>2, Shifts
  <2>2. CASE n = 5
    <3>1. shift[n] = 32 /\ shift[n - r] = 8
      BY <1>2, <2>2, Shifts
    <3> QED BY <1>2, <2>1, <3>1
  <2>3. CASE n = 6
    <3>1. shift[n] = 64 /\ shift[n - r] = 16
      BY <1>2, <2>3, Shifts
    <3> QED BY <1>2, <2>1, <3>1
  <2> QED BY <2>2, <2>3
<1>3. CASE r = 3
  <2>1. shift[8 - r] = 32 /\ shift[6 - r] = 8 /\ shift[r] = 8
    BY <1>3, Shifts
  <2>2. CASE n = 5
    <3>1. shift[n] = 32 /\ shift[n - r] = 4
      BY <1>3, <2>2, Shifts
    <3> QED BY <1>3, <2>1, <3>1
  <2>3. CASE n = 6
    <3>1. shift[n] = 64 /\ shift[n - r] = 8
      BY <1>3, <2>3, Shifts
    <3> QED BY <1>3, <2>1, <3>1
  <2> QED BY <2>2, <2>3
<1>4. CASE r = 4
  <2>1. shift[8 - r] = 16 /\ shift[6 - r] = 4 /\ shift[r] = 16
    BY <1>4, Shifts
  <2>2. CASE n = 5
    <3>1. shift[n] = 32 /\ shift[n - r] = 2
      BY <1>4, <2>2, Shifts
    <3> QED BY <1>4, <2>1, <3>1
  <2>3. CASE n = 6
    <3>1. shift[n] = 64 /\ shift[n - r] = 4
      BY <1>4, <2>3, Shifts
    <3> QED BY <1>4, <2>1, <3>1
  <2> QED BY <2>2, <2>3
<1>5. CASE r = 5
  <2>1. shift[8 - r] = 8 /\ shift[6 - r] = 2 /\ shift[r] = 32
    BY <1>5, Shifts
  <2>2. CASE n = 5
    <3>1. shift[n] = 32 /\ shift[n - r] = 1
      BY <1>5, <2>2, Shifts
    <3> QED BY <1>5, <2>1, <3>1
  <2>3. CASE n = 6
    <3>1. shift[n] = 64 /\ shift[n - r] = 2
      BY <1>5, <2>3, Shifts
    <3> QED BY <1>5, <2>1, <3>1
  <2> QED BY <2>2, <2>3
<1>6. CASE r = 6
  <2>1. shift[8 - r] = 4 /\ n = 6 /\ shift[n] = 64 /\ shift[n - r] = 1
    BY <1>6, Shifts
  <2> QED BY <1>6, <2>1
<1> QED BY <1>1, <1>2, <1>3, <1>4, <1>5, <1>6

\* The decoder has what lies behind the upper r bits of the byte i + 1.
Behind(d, s, i, r) ==
    /\ d.bytes = SubSeq(s, i + 2, Len(s)) /\ d.b = s[i + 1] % shift[8 - r]
    /\ d.pos = 8 - r /\ d.error = -1

\* It is given the encoder's character for the bits that end there.
Given(t, k, s, pos) == t[k] = Alphabet[CodeAt(s, pos) + 1]

LEMMA GivenIs ==
    ASSUME CharactersDiffer, NEW s \in Strings, NEW pos \in 1 .. 8 * Len(s),
           NEW t, NEW k, Given(t, k, s, pos)
    PROVE  t[k] \in 0 .. 255 /\ t[k] \in Characters /\ decodeMap[t[k]] = CodeAt(s, pos)
<1>1. s \in Seq(0 .. 255)
  BY DEF Strings
<1>2. CodeAt(s, pos) \in 0 .. 61 /\ Alphabet[CodeAt(s, pos) + 1] \in Characters
  BY <1>1, StepsBack
<1>3. decodeMap[Alphabet[CodeAt(s, pos) + 1]] = CodeAt(s, pos)
  BY <1>2, CodeOfCharacter
<1> QED BY <1>2, <1>3, CharactersAre DEF Given

LEMMA StringFromByte ==
    ASSUME NEW s \in Strings, NEW i \in 0 .. Len(s) - 1
    PROVE  /\ SubSeq(s, i + 1, Len(s)) = <<s[i + 1]>> \o SubSeq(s, i + 2, Len(s))
           /\ s[i + 1] \in 0 .. 255 /\ (i > 0 => s[i] \in 0 .. 255)
<1>1. s \in Seq(0 .. 255)
  BY DEF Strings
<1> DEFINE n == Len(s)
           u == SubSeq(s, i + 1, n)
           v == SubSeq(s, i + 2, n)
<1>2. n \in Nat /\ \A j \in 1 .. n : s[j] \in 0 .. 255
  BY StringsAre
<1>3. i + 1 \in 1 .. n /\ (i > 0 => i \in 1 .. n)
  BY <1>2
<1>4. /\ u \in Seq(0 .. 255) /\ Len(u) = n - i
      /\ \A j \in 1 .. n - i : u[j] = s[i + j]
  <2>1. \A j \in i + 1 .. n : j \in 1 .. n
    BY <1>2
  <2>2. \A j \in i + 1 .. n : s[j] \in 0 .. 255
    BY <1>2, <2>1
  <2>3. i + 1 \in Int /\ n \in Int /\ i + 1 <= n
    BY <1>2
  <2>4. /\ u \in Seq(0 .. 255) /\ Len(u) = n - (i + 1) + 1
        /\ \A j \in 1 .. n - (i + 1) + 1 : u[j] = s[i + 1 + j - 1]
    <3> HIDE DEF n
    <3> QED BY <2>2, <2>3, SubSeqProperties
  <2>5. n - (i + 1) + 1 = n - i /\ \A j \in 1 .. n - i : i + 1 + j - 1 = i + j
    BY <1>2
  <2> HIDE DEF n, u
  <2> QED BY <2>4, <2>5
<1>5. /\ v \in Seq(0 .. 255) /\ Len(v) = n - i - 1
      /\ \A j \in 1 .. n - i - 1 : v[j] = s[i + 1 + j]
  <2>1. \A j \in i + 2 .. n : j \in 1 .. n
    BY <1>2
  <2>2. \A j \in i + 2 .. n : s[j] \in 0 .. 255
    BY <1>2, <2>1
  <2>3. i + 2 \in Int /\ n \in Int
    BY <1>2
  <2>4. /\ v \in Seq(0 .. 255) /\ Len(v) = IF i + 2 <= n THEN n - (i + 2) + 1 ELSE 0
        /\ \A j \in 1 .. n - (i + 2) + 1 : v[j] = s[i + 2 + j - 1]
    <3> HIDE DEF n
    <3> QED BY <2>2, <2>3, SubSeqProperties
  <2>5. /\ n - (i + 2) + 1 = n - i - 1 /\ (i + 2 <= n \/ n - i - 1 = 0)
        /\ \A j \in 1 .. n - i - 1 : i + 2 + j - 1 = i + 1 + j
    BY <1>2
  <2> HIDE DEF n, v
  <2> QED BY <2>4, <2>5
<1>6. <<s[i + 1]>> \in Seq(0 .. 255) /\ Len(<<s[i + 1]>>) = 1 /\ <<s[i + 1]>>[1] = s[i + 1]
  BY <1>2, <1>3
<1> DEFINE c == <<s[i + 1]>>
<1> HIDE DEF u, v, c
<1>7. /\ c \o v \in Seq(0 .. 255) /\ Len(c \o v) = 1 + (n - i - 1)
      /\ \A j \in 1 .. 1 + (n - i - 1) : (c \o v)[j] = IF j <= 1 THEN c[j] ELSE v[j - 1]
  BY <1>5, <1>6, ConcatProperties DEF c
<1>8. Len(u) = Len(c \o v) /\ \A j \in 1 .. Len(u) : u[j] = (c \o v)[j]
  <2>1. Len(u) = Len(c \o v)
    BY <1>2, <1>4, <1>7
  <2>2. ASSUME NEW j \in 1 .. n - i PROVE u[j] = (c \o v)[j]
    <3>1. CASE j = 1
      BY <1>2, <1>4, <1>6, <1>7, <3>1 DEF c
    <3>2. CASE j # 1
      <4>1. j - 1 \in 1 .. n - i - 1 /\ i + 1 + (j - 1) = i + j /\ j \in 1 .. 1 + (n - i - 1)
            /\ ~(j <= 1)
        BY <1>2, <3>2
      <4>2. (c \o v)[j] = v[j - 1] /\ v[j - 1] = s[i + j] /\ u[j] = s[i + j]
        BY <1>4, <1>5, <1>7, <4>1
      <4> QED BY <4>2
    <3> QED BY <3>1, <3>2
  <2> QED BY <1>4, <2>1, <2>2
<1>9. u = c \o v
  BY <1>4, <1>7, <1>8, SeqEqual
<1> QED BY <1>2, <1>3, <1>9 DEF u, v, c

\* e holds the J that R bits make, and what is behind the byte i + 1.
TakenTo(e, s, i, J, R) ==
    /\ e \in DecoderState
    /\ R >= 8 => e = [bytes |-> <<J % 256>> \o SubSeq(s, i + 2, Len(s)),
                      b |-> J \div 256, pos |-> R - 8, error |-> -1]
    /\ ~(R >= 8) => e = [bytes |-> SubSeq(s, i + 2, Len(s)),
                         b |-> J, pos |-> R, error |-> -1]

\* What the decoder is once it has taken the encoder's character.
LEMMA TakenFrom ==
    ASSUME CharactersDiffer, NEW s \in Strings, NEW i \in 0 .. Len(s) - 1, NEW r \in 1 .. 8,
           NEW pos \in 1 .. 8 * Len(s), NEW t, NEW k \in Nat \ {0}, Given(t, k, s, pos),
           NEW d \in DecoderState, Behind(d, s, i, r)
    PROVE  TakenTo(Take(t, d, k), s, i, JoinedTo(s[i + 1], r, CodeAt(s, pos)),
                   8 - r + Bits(CodeAt(s, pos), k = Len(t)))
<1> DEFINE J == JoinedTo(s[i + 1], r, CodeAt(s, pos))
           R == 8 - r + Bits(CodeAt(s, pos), k = Len(t))
<1>1. t[k] \in 0 .. 255 /\ t[k] \in Characters /\ decodeMap[t[k]] = CodeAt(s, pos)
  BY GivenIs
<1>2. Takes(Take(t, d, k), t, d, k)
  BY <1>1, TakeIs
<1>3. d.error < 0
  BY DEF Behind
<1>4. Joined(t, d, k) = J
  BY <1>1 DEF Joined, JoinedTo, Behind
<1>5. Reached(t, d, k) = R
  BY <1>1 DEF Reached, Behind
<1> HIDE DEF J, R
<1> DEFINE e == Take(t, d, k)
<1>6. /\ e \in DecoderState
      /\ e = IF R >= 8
             THEN [bytes |-> <<J % 256>> \o d.bytes, b |-> J \div 256,
                   pos |-> R - 8, error |-> -1]
             ELSE [bytes |-> d.bytes, b |-> J, pos |-> R, error |-> -1]
  BY <1>1, <1>2, <1>3, <1>4, <1>5 DEF Takes, TakesBits
<1>7. d.bytes = SubSeq(s, i + 2, Len(s))
  BY DEF Behind
<1> HIDE DEF e
<1>8. TakenTo(e, s, i, J, R)
  BY <1>6, <1>7 DEF TakenTo
<1> QED BY <1>8 DEF e, J, R

\* The decoder has what lies behind a position.
BehindAt(d, s, pos) ==
    \E i \in 0 .. Len(s) - 1, r \in 1 .. 8 : pos = 8 * i + r /\ Behind(d, s, i, r)

LEMMA BeforeTheLast ==
    ASSUME CharactersDiffer, NEW s \in Strings, NEW i \in 0 .. Len(s) - 1, NEW r \in 1 .. 8,
           NEW pos \in 1 .. 8 * Len(s), pos = 8 * i + r, After(s, pos) > 0,
           NEW t, NEW k \in Nat \ {0}, Given(t, k, s, pos), k # Len(t),
           NEW d \in DecoderState, Behind(d, s, i, r)
    PROVE  BehindAt(Take(t, d, k), s, After(s, pos))
<1> DEFINE six == get6bits(s, pos)
           n == Step(six, pos)
           x == CodeAt(s, pos)
           y == s[i + 1]
           z == s[i]
           top == y \div shift[8 - r]
           J == JoinedTo(y, r, x)
           R == 8 - r + Bits(x, k = Len(t))
           behind == SubSeq(s, i + 2, Len(s))
           e == Take(t, d, k)
<1>1. /\ y \in 0 .. 255 /\ (i > 0 => z \in 0 .. 255)
      /\ SubSeq(s, i + 1, Len(s)) = <<y>> \o behind
  BY StringFromByte
<1>2. EndThere(six, s, i, r, top)
  BY SixBits DEF Strings
<1>3. top \in Nat /\ top < shift[r]
  BY <1>1, UpperBits
<1>4. /\ e \in DecoderState
      /\ R >= 8 => e = [bytes |-> <<J % 256>> \o behind, b |-> J \div 256,
                        pos |-> R - 8, error |-> -1]
      /\ ~(R >= 8) => e = [bytes |-> behind, b |-> J, pos |-> R, error |-> -1]
  <2>1. TakenTo(e, s, i, J, R)
    BY TakenFrom
  <2> HIDE DEF e, J, R
  <2> QED BY <2>1 DEF TakenTo
<1>5. After(s, pos) = pos - n
  BY DEF After
<1>6. pos \in Nat /\ six \in 0 .. 63 /\ i \in Nat
  <2>1. pos \in Nat /\ i \in Nat
    OBVIOUS
  <2>2. six \in 0 .. 63
    BY <1>2 DEF EndThere
  <2> QED BY <2>1, <2>2
<1>7. x = Code(six)
  BY DEF CodeAt
<1> HIDE DEF six, e, behind, top
<1>8. n \in {5, 6} /\ Code(six) = six % shift[n] /\ Bits(Code(six), FALSE) = n
  <2>1. ~(Compact(six) /\ pos <= 6 /\ six <= 31)
    <3> SUFFICES ASSUME Compact(six), pos <= 6, six <= 31 PROVE FALSE
      OBVIOUS
    <3>1. n = 6
      BY <1>6 DEF Step
    <3> HIDE DEF n
    <3> QED BY <1>5, <1>6, <3>1
  <2> QED BY <1>6, <2>1, BitsAreStep
<1>9. x = six % shift[n] /\ R = 8 - r + n
  <2>1. (k = Len(t)) = FALSE
    OBVIOUS
  <2> QED BY <1>7, <1>8, <2>1
<1> HIDE DEF n, x, R
<1>10. CASE r > n
  <2>1. r \in 6 .. 8 /\ r - n \in 1 .. 3 /\ After(s, pos) = 8 * i + (r - n) /\ r - n \in 1 .. 8
    BY <1>5, <1>6, <1>8, <1>10
  <2>2. six = (y \div shift[8 - r]) % 64
    BY <1>2, <2>1 DEF EndThere, top
  <2>3. J = y % shift[8 - (r - n)]
    <3>1. OfOne(y, r, n, six)
      <4> HIDE DEF y
      <4> QED BY <1>1, <1>8, <1>10, <2>1, <2>2 DEF OfOne
    <3>2. JoinsOne(y, r, n, six)
      BY <3>1, TakenFromOne
    <3> QED BY <1>9, <3>2 DEF JoinsOne
  <2>4. ~(R >= 8) /\ R = 8 - (r - n)
    BY <1>8, <1>9, <1>10
  <2> HIDE DEF J
  <2>5. Behind(e, s, i, r - n)
    BY <1>4, <2>3, <2>4 DEF Behind, behind, y
  <2> QED BY <2>1, <2>5 DEF e, BehindAt
<1>11. CASE ~(r > n)
  <2> DEFINE q == 8 + r - n
             j == i - 1
  <2>1. /\ r \in 1 .. 6 /\ r <= n /\ i > 0 /\ j \in 0 .. Len(s) - 1 /\ q \in 1 .. 8
        /\ After(s, pos) = 8 * j + q /\ 8 - q = n - r /\ j + 1 = i /\ j + 2 = i + 1
    <3>1. r \in 1 .. 6 /\ r <= n /\ q \in 1 .. 8 /\ 8 - q = n - r
      BY <1>8, <1>11
    <3>2. i > 0
      BY <1>5, <1>6, <1>8, <1>11
    <3>3. j \in 0 .. Len(s) - 1 /\ j + 1 = i /\ j + 2 = i + 1
      BY <3>2
    <3>4. After(s, pos) = 8 * j + q
      BY <1>5, <1>6, <1>8
    <3> HIDE DEF j, q
    <3> QED BY <3>1, <3>2, <3>3, <3>4
  <2> HIDE DEF j, q
  <2>2. six = IF r = 6 THEN y \div shift[8 - r]
              ELSE (y \div shift[8 - r]) + (z % shift[6 - r]) * shift[r]
    <3>1. CASE r = 6
      <4>1. top % 64 = top
        <5>1. shift[r] = 64
          BY <3>1, Shifts
        <5>2. \A u \in Nat : u < 64 => u % 64 = u
          OBVIOUS
        <5> QED BY <1>3, <5>1, <5>2
      <4> QED BY <1>2, <3>1, <4>1 DEF EndThere, top
    <3>2. CASE r # 6
      <4>1. r < 6
        BY <2>1, <3>2
      <4> QED BY <1>2, <2>1, <3>2, <4>1 DEF EndThere, top
    <3> QED BY <3>1, <3>2
  <2>4. R >= 8 /\ R - 8 = 8 - q
    BY <1>8, <1>9, <1>11, <2>1
  <2>5. J % 256 = y /\ J \div 256 = z % shift[8 - q]
    <3>1. OfTwo(y, z, r, n, six)
      <4>1. y \in 0 .. 255 /\ z \in 0 .. 255
        BY <1>1, <2>1
      <4> HIDE DEF y, z
      <4> QED BY <1>8, <2>1, <2>2, <4>1 DEF OfTwo
    <3>2. JoinsTwo(y, z, r, n, six)
      BY <3>1, TakenFromTwo
    <3> HIDE DEF y, z
    <3> QED BY <1>9, <2>1, <3>2 DEF JoinsTwo
  <2> HIDE DEF J
  <2>6. e = [bytes |-> <<y>> \o behind, b |-> z % shift[8 - q], pos |-> 8 - q, error |-> -1]
    BY <1>4, <2>4, <2>5
  <2>7. SubSeq(s, j + 2, Len(s)) = <<y>> \o behind /\ s[j + 1] = z
    BY <1>1, <2>1
  <2>8. Behind(e, s, j, q)
    <3> HIDE DEF y, z
    <3> QED BY <2>6, <2>7 DEF Behind
  <2> QED BY <2>1, <2>8 DEF e, BehindAt
<1> QED BY <1>10, <1>11

\* The bytes are whole once the last character is taken.
Whole(d, s) == Ended(d).bytes = s /\ Ended(d).error = -1

LEMMA TheLast ==
    ASSUME CharactersDiffer, NEW s \in Strings, NEW i \in 0 .. Len(s) - 1, NEW r \in 1 .. 8,
           NEW pos \in 1 .. 8 * Len(s), pos = 8 * i + r, After(s, pos) <= 0,
           NEW t, NEW k \in Nat \ {0}, Given(t, k, s, pos), k = Len(t),
           NEW d \in DecoderState, Behind(d, s, i, r)
    PROVE  Whole(Take(t, d, k), s)
<1> DEFINE six == get6bits(s, pos)
           n == Step(six, pos)
           x == CodeAt(s, pos)
           y == s[i + 1]
           top == y \div shift[8 - r]
           J == JoinedTo(y, r, x)
           R == 8 - r + Bits(x, k = Len(t))
           behind == SubSeq(s, i + 2, Len(s))
           e == Take(t, d, k)
<1>1. y \in 0 .. 255 /\ SubSeq(s, i + 1, Len(s)) = <<y>> \o behind
  BY StringFromByte
<1>2. EndThere(six, s, i, r, top)
  BY SixBits DEF Strings
<1>3. /\ top \in Nat /\ top < shift[r] /\ (y % shift[8 - r]) \in Nat
      /\ y = top * shift[8 - r] + (y % shift[8 - r])
  <2> HIDE DEF y
  <2> QED BY <1>1, UpperBits
<1>4. TakenTo(e, s, i, J, R)
  BY TakenFrom
<1>5. After(s, pos) = pos - n
  BY DEF After
<1>6. pos \in Nat /\ six \in 0 .. 63 /\ i \in Nat
  <2>1. pos \in Nat /\ i \in Nat
    OBVIOUS
  <2>2. six \in 0 .. 63
    BY <1>2 DEF EndThere
  <2> QED BY <2>1, <2>2
<1>7. x = Code(six)
  BY DEF CodeAt
<1> HIDE DEF six, e, behind, top
<1>8. n \in {5, 6}
  BY <1>6 DEF Step
<1>9. i = 0 /\ r \in 1 .. 6 /\ pos = r
  <2> HIDE DEF n
  <2> QED BY <1>5, <1>6, <1>8
<1>10. six = top
  <2>1. CASE r < 6
    BY <1>2, <1>9, <2>1 DEF EndThere
  <2>2. CASE r = 6
    <3>1. shift[r] = 64
      BY <2>2, Shifts
    <3>2. \A u \in Nat : u < 64 => u % 64 = u
      OBVIOUS
    <3> QED BY <1>2, <1>3, <2>2, <3>1, <3>2 DEF EndThere
  <2> QED BY <1>9, <2>1, <2>2
<1>11. x = six
  <2>1. CASE Compact(six)
    <3>1. six <= 31
      <4> SUFFICES ASSUME six > 31 PROVE FALSE
        BY <1>6
      <4>1. n = 5
        BY <2>1 DEF Step
      <4>2. six \in {62, 63}
        <5>1. six \in {30, 31, 62, 63}
          BY <1>6, <2>1, CompactIs, Zenon
        <5> QED BY <5>1
      <4>3. \A v \in 1 .. 5 : shift[v] <= 32
        <5> SUFFICES ASSUME NEW v \in 1 .. 5 PROVE shift[v] <= 32
          OBVIOUS
        <5>1. v = 1 \/ v = 2 \/ v = 3 \/ v = 4 \/ v = 5
          OBVIOUS
        <5>2. /\ shift[1] <= 32 /\ shift[2] <= 32 /\ shift[3] <= 32
              /\ shift[4] <= 32 /\ shift[5] <= 32
          BY Shifts
        <5> QED BY <5>1, <5>2, Zenon
      <4>4. r = 6
        <5> SUFFICES ASSUME r < 6 PROVE FALSE
          BY <1>9
        <5>1. r \in 1 .. 5 /\ r \in 0 .. 8
          BY <1>9
        <5>2. shift[r] <= 32 /\ shift[r] \in Nat
          BY <5>1, <4>3, ShiftsAreNumbers
        <5> QED BY <1>3, <1>10, <4>2, <5>2
      <4> HIDE DEF n
      <4> QED BY <1>5, <1>9, <4>1, <4>4
    <3> QED BY <1>6, <1>7, <3>1, CodesOfBits
  <2>2. CASE ~Compact(six)
    BY <1>7, <2>2 DEF Code
  <2> QED BY <2>1, <2>2
<1>12. x \in 0 .. 255 /\ x < shift[r]
  <2>1. x = top
    BY <1>10, <1>11
  <2> HIDE DEF x
  <2> QED BY <1>3, <1>6, <1>10, <2>1
<1>13. J = y
  <2>1. J = (y % shift[8 - r]) + top * shift[8 - r]
    BY <1>10, <1>11 DEF JoinedTo
  <2>2. top * shift[8 - r] \in Nat
    <3>1. shift[8 - r] \in Nat
      <4>1. 8 - r \in 0 .. 8
        BY <1>9
      <4> QED BY <4>1, ShiftsAreNumbers
    <3>2. \A u \in Nat, v \in Nat : u * v \in Nat
      OBVIOUS
    <3> QED BY <1>3, <3>1, <3>2, Zenon
  <2>3. \A u \in Nat, v \in Nat : u + v = v + u
    OBVIOUS
  <2> QED BY <1>3, <2>1, <2>2, <2>3, Zenon
<1>14. R \in 8 - r .. 8 /\ R > 0
  <2> HIDE DEF x
  <2>1. Len8(x) \in 0 .. r
    <3>1. r \in 0 .. 8
      BY <1>9
    <3> QED BY <1>12, <3>1, LengthOfByte
  <2>2. (k = Len(t)) = TRUE
    OBVIOUS
  <2>3. R = 8 - r + Len8(x)
    BY <2>2 DEF Bits
  <2> QED BY <1>9, <2>1, <2>3
<1>15. y % 256 = y
  <2>1. \A u \in 0 .. 255 : u % 256 = u
    OBVIOUS
  <2> QED BY <1>1, <2>1, Zenon
<1>16. s = <<y>> \o behind
  <2>1. SubSeq(s, 1, Len(s)) = s
    BY DEF Strings
  <2>2. i + 1 = 1
    BY <1>9
  <2> QED BY <1>1, <2>1, <2>2
<1> HIDE DEF J, R, y
<1>17. CASE R >= 8
  <2>1. e = [bytes |-> <<y>> \o behind, b |-> J \div 256, pos |-> 0, error |-> -1]
    <3>1. R - 8 = 0
      BY <1>14, <1>17
    <3> QED BY <1>4, <1>13, <1>15, <1>17, <3>1 DEF TakenTo, behind
  <2>2. e.bytes = <<y>> \o behind /\ e.error = -1 /\ e.pos = 0
    BY <2>1
  <2>3. Ended(e).bytes = <<y>> \o behind /\ Ended(e).error = -1
    BY <2>2 DEF Ended
  <2> QED BY <1>16, <2>3 DEF Whole, e
<1>18. CASE ~(R >= 8)
  <2>1. e = [bytes |-> behind, b |-> y, pos |-> R, error |-> -1]
    BY <1>4, <1>13, <1>18 DEF TakenTo, behind
  <2>2. e.error < 0 /\ e.pos > 0 /\ e.b = y /\ e.bytes = behind
    BY <1>14, <2>1
  <2>3. Ended(e) = [e EXCEPT !.bytes = <<y % 256>> \o behind]
    BY <2>2 DEF Ended
  <2> DEFINE whole == <<y % 256>> \o behind
  <2>4. [e EXCEPT !.bytes = whole].bytes = whole /\ [e EXCEPT !.bytes = whole].error = -1
    <3> HIDE DEF whole
    <3> QED BY <2>1
  <2>5. Ended(e).bytes = <<y>> \o behind /\ Ended(e).error = -1
    BY <1>15, <2>3, <2>4
  <2> QED BY <1>16, <2>5 DEF Whole, e
<1> QED BY <1>17, <1>18

\* t goes on with what the encoder writes from a position, after k characters.
GoesOn(t, k, u) == Len(t) = k + Len(u) /\ \A j \in 1 .. Len(u) : t[k + j] = u[j]

\* What the encoder writes from a position begins with its character.
LEMMA WrittenBegins ==
    ASSUME NEW s \in Strings, NEW w, WrittenFrom(w, s), NEW pos \in 1 .. 8 * Len(s)
    PROVE  /\ After(s, pos) \in -5 .. 8 * Len(s) /\ After(s, pos) < pos
           /\ w[pos] \in Strings /\ w[After(s, pos)] \in Strings
           /\ Len(w[pos]) = Len(w[After(s, pos)]) + 1 /\ Len(w[After(s, pos)]) \in Nat
           /\ w[pos][1] = Alphabet[CodeAt(s, pos) + 1]
           /\ \A j \in 1 .. Len(w[After(s, pos)]) : w[pos][j + 1] = w[After(s, pos)][j]
<1> DEFINE n == 8 * Len(s)
           c == <<Alphabet[CodeAt(s, pos) + 1]>>
           u == w[After(s, pos)]
<1>1. s \in Seq(0 .. 255)
  BY DEF Strings
<1>2. n \in Nat /\ pos \in -5 .. n /\ ~(pos <= 0)
  BY <1>1
<1>3. After(s, pos) \in {pos - 5, pos - 6} /\ Alphabet[CodeAt(s, pos) + 1] \in Characters
  BY <1>1, StepsBack
<1>4. After(s, pos) \in -5 .. n /\ After(s, pos) < pos
  <2> HIDE DEF n
  <2> QED BY <1>2, <1>3
<1>5. w[pos] = c \o u /\ w[pos] \in Seq(Characters) /\ u \in Seq(Characters)
  <2>1. w[pos] = c \o u /\ w[pos] \in Seq(Characters)
    BY <1>2 DEF WrittenFrom
  <2>2. u \in Seq(Characters)
    BY <1>4 DEF WrittenFrom
  <2> QED BY <2>1, <2>2
<1>6. c \in Seq(Characters) /\ Len(c) = 1 /\ c[1] = Alphabet[CodeAt(s, pos) + 1]
  BY <1>3
<1> HIDE DEF c, u, n
<1>7. Len(u) \in Nat
  BY <1>5, LenProperties
<1>8. /\ Len(w[pos]) = 1 + Len(u)
      /\ \A j \in 1 .. 1 + Len(u) : w[pos][j] = IF j <= 1 THEN c[j] ELSE u[j - 1]
  <2>1. /\ Len(c \o u) = Len(c) + Len(u)
        /\ \A j \in 1 .. Len(c) + Len(u) :
              (c \o u)[j] = IF j <= Len(c) THEN c[j] ELSE u[j - Len(c)]
    BY <1>5, <1>6, ConcatProperties
  <2> QED BY <1>5, <1>6, <2>1
<1>9. w[pos][1] = c[1]
  BY <1>7, <1>8
<1>10. ASSUME NEW j \in 1 .. Len(u) PROVE w[pos][j + 1] = u[j]
  <2>1. j + 1 \in 1 .. 1 + Len(u) /\ ~(j + 1 <= 1) /\ (j + 1) - 1 = j
    BY <1>7
  <2> QED BY <1>8, <2>1
<1>11. Len(w[pos]) = Len(u) + 1
  BY <1>7, <1>8
<1> QED BY <1>4, <1>5, <1>6, <1>7, <1>9, <1>10, <1>11, CharactersMakeStrings DEF u, n

\* From wherever the encoder is, the decoder gets to the whole of the bytes.
LEMMA DecoderGetsThere ==
    ASSUME CharactersDiffer, NEW s \in Strings, NEW w, WrittenFrom(w, s),
           NEW t \in Strings, NEW a, DecodedBy(a, t)
    PROVE  \A pos \in 1 .. 8 * Len(s) :
               \A i \in 0 .. Len(s) - 1, r \in 1 .. 8, k \in Nat :
                   pos = 8 * i + r /\ GoesOn(t, k, w[pos]) /\ Behind(a[k], s, i, r)
                       => Whole(a[Len(t)], s)
<1> DEFINE n == 8 * Len(s)
           Gets(pos) == \A i \in 0 .. Len(s) - 1, r \in 1 .. 8, k \in Nat :
                            pos = 8 * i + r /\ GoesOn(t, k, w[pos]) /\ Behind(a[k], s, i, r)
                                => Whole(a[Len(t)], s)
           T == {pos \in 0 .. n : pos # 0 => Gets(pos)}
<1>1. n \in Nat /\ Len(t) \in Nat
  <2>1. Len(s) \in Nat /\ Len(t) \in Nat
    BY StringsAre
  <2> QED BY <2>1
<1>2. ASSUME NEW pos \in 0 .. n, \A j \in 0 .. pos - 1 : j \in T PROVE pos \in T
  <2> SUFFICES ASSUME pos # 0, NEW i \in 0 .. Len(s) - 1, NEW r \in 1 .. 8, NEW k \in Nat,
                      pos = 8 * i + r, GoesOn(t, k, w[pos]), Behind(a[k], s, i, r)
               PROVE  Whole(a[Len(t)], s)
    OBVIOUS
  <2> DEFINE back == After(s, pos)
             u == w[back]
             m == Len(u)
  <2>1. pos \in 1 .. 8 * Len(s)
    BY <1>1
  <2>2. /\ back \in -5 .. n /\ back < pos /\ Len(w[pos]) = m + 1 /\ m \in Nat
        /\ w[pos][1] = Alphabet[CodeAt(s, pos) + 1]
        /\ \A j \in 1 .. m : w[pos][j + 1] = u[j]
    BY <2>1, WrittenBegins
  <2> HIDE DEF back, u
  <2>3. Len(t) = k + (m + 1) /\ \A j \in 1 .. m + 1 : t[k + j] = w[pos][j]
    BY <2>2 DEF GoesOn
  <2> HIDE DEF m
  <2>4. /\ k + 1 \in Nat \ {0} /\ k + 1 \in 1 .. Len(t) /\ (k + 1) - 1 = k
        /\ k \in 0 .. Len(t) /\ 1 \in 1 .. m + 1
    BY <1>1, <2>2, <2>3
  <2>5. a[k + 1] = Take(t, a[k], k + 1) /\ a[k] \in DecoderState
    BY <2>4 DEF DecodedBy
  <2>6. Given(t, k + 1, s, pos)
    BY <2>2, <2>3, <2>4 DEF Given
  <2>7. CASE back <= 0
    <3>1. m = 0
      <4>1. u = <<>>
        BY <2>2, <2>7 DEF WrittenFrom, u, n
      <4> QED BY <4>1, EmptySeq DEF m
    <3>2. k + 1 = Len(t)
      BY <2>3, <3>1
    <3>3. Whole(Take(t, a[k], k + 1), s)
      BY <2>1, <2>4, <2>5, <2>6, <2>7, <3>2, TheLast DEF back
    <3> QED BY <2>5, <3>2, <3>3
  <2>8. CASE back > 0
    <3>1. back \in 0 .. pos - 1 /\ back # 0 /\ back \in 1 .. 8 * Len(s)
      BY <2>2, <2>8
    <3>2. m # 0
      <4>1. Len(u) = Len(w[After(s, back)]) + 1 /\ Len(w[After(s, back)]) \in Nat
        BY <3>1, WrittenBegins DEF u
      <4> QED BY <4>1 DEF m
    <3>3. k + 1 # Len(t)
      BY <2>2, <2>3, <3>2
    <3>4. PICK j \in 0 .. Len(s) - 1, q \in 1 .. 8 :
              back = 8 * j + q /\ Behind(Take(t, a[k], k + 1), s, j, q)
      <4>1. BehindAt(Take(t, a[k], k + 1), s, back)
        BY <2>1, <2>4, <2>5, <2>6, <2>8, <3>3, BeforeTheLast DEF back
      <4> QED BY <4>1 DEF BehindAt
    <3>5. GoesOn(t, k + 1, w[back])
      <4>1. Len(t) = (k + 1) + m
        BY <2>2, <2>3
      <4>2. ASSUME NEW l \in 1 .. m PROVE t[(k + 1) + l] = u[l]
        <5>1. l + 1 \in 1 .. m + 1 /\ (k + 1) + l = k + (l + 1)
          BY <2>2
        <5> QED BY <2>2, <2>3, <5>1
      <4> QED BY <4>1, <4>2 DEF GoesOn, u, m
    <3>6. Gets(back)
      <4>1. back \in T
        BY <1>2, <3>1
      <4> QED BY <3>1, <4>1
    <3>7. Behind(a[k + 1], s, j, q) /\ k + 1 \in Nat
      BY <2>4, <2>5, <3>4
    <3> QED BY <3>4, <3>5, <3>6, <3>7
  <2> QED BY <2>2, <2>7, <2>8
<1>3. \A pos \in 0 .. n : pos \in T
  <2> HIDE DEF T, n
  <2> QED BY <1>1, <1>2, UpTo
<1>4. \A pos \in 1 .. n : pos \in 0 .. n /\ pos # 0
  BY <1>1
<1>5. \A pos \in 1 .. n : Gets(pos)
  <2> HIDE DEF Gets, n
  <2> QED BY <1>3, <1>4
<1> QED BY <1>5

LEMMA DecoderInverts ==
    ASSUME CharactersDiffer, NEW s \in Strings, s # <<>>
    PROVE  decode(encodeV2(s)).bytes = s /\ decode(encodeV2(s)).error = -1
<1> DEFINE t == encodeV2(s)
           n == Len(s)
<1>1. s \in Seq(0 .. 255) /\ t \in Strings
  BY EncodedIs DEF Strings
<1>2. n \in Nat \ {0}
  BY <1>1, EmptySeq
<1>3. PICK w : WrittenFrom(w, s) /\ t = w[8 * n]
  BY <1>1, EncoderWrites
<1> HIDE DEF t
<1>4. PICK a : DecodedBy(a, t) /\ decode(t) = Ended(a[Len(t)])
  BY <1>1, DecoderTakes
<1>5. Behind(a[0], s, n - 1, 8)
  <2>1. a[0] = Fresh
    BY <1>4 DEF DecodedBy
  <2>2. SubSeq(s, (n - 1) + 2, n) = <<>>
    <3>1. (n - 1) + 2 \in Int /\ n \in Int /\ n < (n - 1) + 2
      BY <1>2
    <3> HIDE DEF n
    <3> QED BY <3>1, SubSeqEmpty
  <2>3. s[(n - 1) + 1] % shift[8 - 8] = 0
    <3>1. s[(n - 1) + 1] \in 0 .. 255
      <4>1. (n - 1) + 1 \in 1 .. n
        BY <1>2
      <4> QED BY <4>1, StringsAre
    <3>2. \A u \in 0 .. 255 : u % 1 = 0
      OBVIOUS
    <3>3. shift[8 - 8] = 1
      BY Shifts
    <3> QED BY <3>1, <3>2, <3>3, Zenon
  <2>4. 8 - 8 = 0
    OBVIOUS
  <2> QED BY <2>1, <2>2, <2>3, <2>4 DEF Behind, Fresh
<1>6. GoesOn(t, 0, w[8 * n])
  <2>1. Len(t) \in Nat
    BY <1>1, StringsAre
  <2>2. Len(t) = 0 + Len(t) /\ \A j \in 1 .. Len(t) : 0 + j = j
    BY <2>1
  <2> QED BY <1>3, <2>2 DEF GoesOn
<1>7. 8 * n \in 1 .. 8 * Len(s) /\ n - 1 \in 0 .. Len(s) - 1 /\ 8 * n = 8 * (n - 1) + 8
  BY <1>2
<1>8. Whole(a[Len(t)], s)
  <2>1. 8 \in 1 .. 8 /\ 0 \in Nat
    OBVIOUS
  <2>2. \A i \in 0 .. Len(s) - 1, r \in 1 .. 8, k \in Nat :
            8 * n = 8 * i + r /\ GoesOn(t, k, w[8 * n]) /\ Behind(a[k], s, i, r)
                => Whole(a[Len(t)], s)
    BY <1>1, <1>3, <1>4, <1>7, DecoderGetsThere
  <2> HIDE DEF n
  <2> QED BY <1>5, <1>6, <1>7, <2>1, <2>2
<1> QED BY <1>4, <1>8 DEF Whole, t

\* mem has the buffer's bytes, room for s after them and idx bytes more.
HasRoom(mem, buf, s, idx) ==
    /\ mem \in Strings /\ buf.len + Len(s) <= Len(mem)
    /\ \A i \in 1 .. buf.len : mem[i] = buf.mem[i]
    /\ idx = Len(mem) - buf.len - Len(s)

\* Appending to a buffer gives its bytes and those that were decoded.
LEMMA ResultHolds ==
    ASSUME NEW buf, IsBuffer(buf), NEW s \in Strings, NEW mem, NEW idx,
           HasRoom(mem, buf, s, idx)
    PROVE  SubSeq(Result(mem, buf.len, idx, s), 1, Len(mem) - idx) = Held(buf) \o s
<1> DEFINE l == buf.len
           n == Len(s)
           N == Len(mem)
           h == Held(buf)
           R == Result(mem, l, idx, s)
           u == SubSeq(R, 1, l + n)
<1>1. l \in Nat /\ n \in Nat /\ N \in Nat /\ l + n <= N /\ l <= Len(buf.mem)
  BY StringsAre DEF IsBuffer, HasRoom
<1>2. DOMAIN mem = 1 .. N
  BY LenProperties DEF Strings, HasRoom
<1>3. h \in Strings /\ Len(h) = l
  BY HeldIs
<1>4. \A i \in 1 .. l : h[i] = buf.mem[i]
  BY <1>1 DEF Held
<1>5. idx \in Nat /\ l + n + idx = N /\ N - idx = l + n
  <2>1. idx = N - l - n
    BY DEF HasRoom
  <2> HIDE DEF l, n, N
  <2> QED BY <1>1, <2>1
<1> DEFINE written == [j \in DOMAIN mem |-> IF j > l + idx THEN s[j - l - idx] ELSE mem[j]]
<1>6. \A i \in 1 .. N :
         R[i] = IF i > l /\ i + idx <= N THEN written[i + idx] ELSE written[i]
  BY <1>2 DEF Result
<1>w. \A j \in 1 .. N : written[j] = IF j > l + idx THEN s[j - l - idx] ELSE mem[j]
  BY <1>2
<1> HIDE DEF R, written
<1>7. \A i \in 1 .. l : R[i] = h[i]
  <2> SUFFICES ASSUME NEW i \in 1 .. l PROVE R[i] = h[i]
    OBVIOUS
  <2>1. i \in 1 .. buf.len
    OBVIOUS
  <2>2. mem[i] = buf.mem[i] /\ h[i] = buf.mem[i]
    BY <1>4, <2>1 DEF HasRoom
  <2> HIDE DEF l, n, N, h
  <2>3. i \in 1 .. N /\ ~(i > l) /\ ~(i > l + idx)
    BY <1>1, <1>5
  <2>4. R[i] = written[i] /\ written[i] = mem[i]
    BY <1>6, <1>w, <2>3
  <2> QED BY <2>2, <2>4, Zenon
<1>8. \A j \in 1 .. n : R[l + j] = s[j]
  <2> SUFFICES ASSUME NEW j \in 1 .. n PROVE R[l + j] = s[j]
    OBVIOUS
  <2> HIDE DEF l, n, N, h
  <2> DEFINE i == l + j
             k == l + j + idx
  <2>1. i \in 1 .. N /\ i > l /\ i + idx = k /\ k <= N /\ k \in 1 .. N
        /\ k > l + idx /\ k - l - idx = j
    BY <1>1, <1>5
  <2> HIDE DEF i, k
  <2>2. R[i] = written[k]
    BY <1>6, <2>1
  <2>3. written[k] = s[j]
    BY <1>w, <2>1
  <2> QED BY <2>2, <2>3 DEF i
<1>9. /\ h \o s \in Strings /\ Len(h \o s) = l + n
      /\ \A i \in 1 .. l + n : (h \o s)[i] = IF i <= l THEN h[i] ELSE s[i - l]
  <2>1. h \in Seq(0 .. 255) /\ s \in Seq(0 .. 255)
    BY <1>3 DEF Strings
  <2> HIDE DEF h
  <2>2. /\ h \o s \in Seq(0 .. 255) /\ Len(h \o s) = Len(h) + Len(s)
        /\ \A i \in 1 .. Len(h) + Len(s) :
              (h \o s)[i] = IF i <= Len(h) THEN h[i] ELSE s[i - Len(h)]
    BY <2>1, ConcatProperties
  <2> QED BY <1>3, <2>2 DEF Strings
<1>10. \A i \in 1 .. l + n : R[i] = (h \o s)[i]
  <2> HIDE DEF l, n, N, h
  <2> SUFFICES ASSUME NEW i \in 1 .. l + n PROVE R[i] = (h \o s)[i]
    OBVIOUS
  <2>1. CASE i <= l
    <3>1. i \in 1 .. l
      BY <2>1
    <3> QED BY <1>7, <1>9, <2>1, <3>1
  <2>2. CASE ~(i <= l)
    <3>1. i - l \in 1 .. n /\ l + (i - l) = i
      BY <1>1, <2>2
    <3> QED BY <1>8, <1>9, <2>2, <3>1
  <2> QED BY <2>1, <2>2
<1> HIDE DEF h
<1>11. u = h \o s
  <2> HIDE DEF l, n, N
  <2> DEFINE v == h \o s
  <2>1. v \in Strings /\ Len(v) = l + n /\ \A i \in 1 .. l + n : v[i] \in 0 .. 255
    <3>1. v \in Strings /\ Len(v) = l + n
      BY <1>9
    <3> HIDE DEF v
    <3> QED BY <3>1, StringsAre
  <2> HIDE DEF v
  <2>2. \A i \in 1 .. l + n : R[i] = v[i]
    BY <1>10 DEF v
  <2>3. \A i \in 1 .. l + n : R[i] \in 0 .. 255
    BY <2>1, <2>2
  <2>4. l + n \in Int /\ 1 \in Int /\ (IF 1 <= l + n THEN l + n - 1 + 1 ELSE 0) = l + n
        /\ l + n - 1 + 1 = l + n /\ \A i \in 1 .. l + n : 1 + i - 1 = i
    BY <1>1
  <2>5. /\ u \in Seq(0 .. 255) /\ Len(u) = IF 1 <= l + n THEN l + n - 1 + 1 ELSE 0
        /\ \A i \in 1 .. l + n - 1 + 1 : u[i] = R[1 + i - 1]
    BY <2>3, <2>4, SubSeqProperties
  <2> HIDE DEF u
  <2>6. Len(u) = Len(v) /\ \A i \in 1 .. Len(u) : u[i] = v[i]
    BY <2>1, <2>2, <2>4, <2>5
  <2>7. u = v
    BY <2>1, <2>5, <2>6, SeqEqual DEF Strings
  <2> QED BY <2>7 DEF v
<1> QED BY <1>5, <1>11 DEF h, R

\* What was encoded decodes, whatever the buffer.
LEMMA DecodesBack ==
    ASSUME CharactersDiffer, NEW buf, IsBuffer(buf), NEW s \in Strings, s # <<>>
    PROVE  /\ DecodeToBuf(buf, encodeV2(s)).error = -1
           /\ Held(DecodeToBuf(buf, encodeV2(s))) = Held(buf) \o s
<1> DEFINE t == encodeV2(s)
           answer == DecodeToBuf(buf, t)
<1>1. t \in Strings /\ (s = <<>> <=> t = <<>>)
  BY EncodedIs
<1> DEFINE d == decode(t)
           room == buf.len + possibleLen(t)
           mem == Memory(buf, room)
           idx == Len(mem) - buf.len - Len(d.bytes)
<1>2. d.bytes = s /\ d.error = -1
  BY DecoderInverts
<1>3. room \in Nat /\ buf.len <= room /\ answer = Answer(buf, mem, d)
  BY <1>1, DecoderHasRoom
<1>4. Len(d.bytes) \in Nat /\ Len(d.bytes) <= possibleLen(t) /\ possibleLen(t) \in Nat
  <2>1. Len(d.bytes) \in Nat /\ Len(d.bytes) <= possibleLen(t)
    BY <1>1, DecodeIsWithin DEF Within
  <2>2. Len(t) \in Nat
    BY <1>1, StringsAre
  <2> HIDE DEF t, d
  <2>3. possibleLen(t) \in Nat
    BY <2>2 DEF possibleLen
  <2> QED BY <2>1, <2>3
<1>5. /\ mem \in Strings /\ Len(mem) \in Nat /\ room <= Len(mem)
      /\ \A i \in 1 .. buf.len : mem[i] = buf.mem[i]
  <2> HIDE DEF room
  <2> QED BY <1>3, MemoryIs
<1>6. buf.len + Len(s) <= Len(mem)
  <2>1. buf.len \in Nat
    BY StringsAre DEF IsBuffer
  <2> HIDE DEF mem, d, t
  <2> QED BY <1>2, <1>4, <1>5, <2>1
<1> HIDE DEF mem, d, answer
<1>7. answer = [Nil EXCEPT !.mem = Result(mem, buf.len, idx, s), !.len = Len(mem) - idx]
  BY <1>2, <1>3 DEF Answer
<1>8. answer.mem = Result(mem, buf.len, idx, s) /\ answer.len = Len(mem) - idx
      /\ answer.error = -1
  BY <1>7 DEF Nil
<1>9. SubSeq(Result(mem, buf.len, idx, s), 1, Len(mem) - idx) = Held(buf) \o s
  <2>1. HasRoom(mem, buf, s, idx)
    BY <1>2, <1>5, <1>6 DEF HasRoom
  <2> QED BY <2>1, ResultHolds
<1>10. Held(answer) = Held(buf) \o s
  BY <1>8, <1>9 DEF Held
<1> QED BY <1>8, <1>10 DEF answer

\* A copy of what was encoded decodes to the same bytes, after those the buffer
\* held, whatever the room in the buffer and what the encoder left there.
THEOREM EncodedIsDecoded ==
    ASSUME CharactersDiffer
    PROVE  Spec => []DecodeInvertsEncode
<1>1. ClientInv => DecodeInvertsEncode
  <2> SUFFICES ASSUME ClientInv, call = "Decode", src # <<>>
               PROVE  result.error = -1 /\ Held(result) = Held(dst) \o src
    BY DEF DecodeInvertsEncode
  <2>1. /\ IsBuffer(dst) /\ src \in Strings /\ text = EncodeToBuf(dst, src)
        /\ result = DecodeToBuf(dst, Appended)
    BY DEF ClientInv, HoldsValues, HoldsEncoded, HoldsDecoded
  <2>2. Appended = encodeV2(src)
    BY <2>1, EncodedFollows DEF Appended
  <2> QED BY <2>1, <2>2, DecodesBack
<1> QED BY <1>1, ClientInvHolds, PTL
=============================================================================
