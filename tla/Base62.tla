------------------------------- MODULE Base62 -------------------------------
(***************************************************************************)
(* encoding/base62: bytes and integers as texts over 62 characters.        *)
(*                                                                         *)
(* Bytes are packed six bits a character from the last byte to the first;  *)
(* six bits of the form x1111y, which 62 characters cannot all stand for,  *)
(* are cut to the five bits 1111y.  A client encodes, decodes, formats and *)
(* parses, one call after the other; the encoder that _encodeV2 replaced   *)
(* is there to be compared with it.                                        *)
(***************************************************************************)
EXTENDS Integers, SequencesExt

CONSTANTS
    Alphabet,    \* the 62 characters, numbers of bytes
    Half,        \* half of the integers' range: 2^63 in the code
    Digits,      \* the size of AppendUint's buffer: 11 in the code
    Sources,     \* byte strings a client encodes
    Texts,       \* texts a client decodes that no encoder wrote
    Buffers,     \* buffers a client hands to the functions that append
    Numbers      \* integers a client formats

base == 62

\* NewEncoding panics otherwise.
ASSUME AlphabetAssumption == Alphabet \in [1 .. base -> (0 .. 255) \ {10, 13}]
ASSUME NumbersAssumption == Half \in Nat /\ Numbers \subseteq -Half .. Half - 1
ASSUME BytesAssumption == Sources \subseteq Seq(0 .. 255) /\ Texts \subseteq Seq(0 .. 255)
ASSUME BuffersAssumption ==
    \A buf \in Buffers : buf.mem \in Seq(0 .. 255) /\ buf.len \in 0 .. Len(buf.mem)

\* base to the power n, for n up to Digits.
powers[n \in 0 .. Digits] == IF n = 0 THEN 1 ELSE base * powers[n - 1]

\* 62^11 > 2^64: what AppendUint relies on.
ASSUME DigitsAssumption == Digits \in Nat /\ 2 * Half <= powers[Digits]

VARIABLES
    call,    \* the call that returned last
    src,     \* the bytes it was about
    num,     \* or the number
    dst,     \* the buffer it was given
    text,    \* the text it read, or what the buffer holds after it wrote one
    result   \* what it returned

vars == <<call, src, num, dst, text, result>>

-----------------------------------------------------------------------------
(* The encoders.                                                           *)

\* What shifts within a byte multiply and divide by.
shift == [n \in 0 .. 8 |-> 2^n]

\* x & compactMask == compactMask
Compact(x) == (x \div 2) % 16 = 15

\* The six bits that end at bit pos of src, or those there are.
get6bits(s, pos) ==
    LET r == IF pos % 8 = 0 THEN 8 ELSE pos % 8
        i == (pos - r) \div 8
        low == s[i + 1] \div shift[8 - r]
    IN  (IF r < 6 /\ i > 0 THEN low + s[i] * shift[r] ELSE low) % 64

\* Mutant: six bits that end the text are never cut, whatever they are.
StepWithoutTop(b, pos) == IF Compact(b) /\ pos > 6 THEN 5 ELSE 6

Step(b, pos) == IF Compact(b) /\ (pos > 6 \/ b > 31) THEN 5 ELSE 6

Code(b) == IF Compact(b) THEN b % 32 ELSE b

encodeV2(s) ==
    LET from[pos \in -5 .. 8 * Len(s)] ==
            IF pos <= 0 THEN <<>>
            ELSE LET b == get6bits(s, pos)
                 IN  <<Alphabet[Code(b) + 1]>> \o from[pos - Step(b, pos)]
    IN  from[8 * Len(s)]

\* The encoder's next character and position.
next(s, end) ==
    LET pos == IF end <= 6 THEN 0 ELSE end - 6
        i == pos \div 8
        blen == IF end <= 6 THEN end ELSE Min({(i + 1) * 8 - pos, 6})
        high == (s[i + 1] \div shift[8 - (pos % 8) - blen]) % shift[blen]
        b == IF blen < 6 /\ pos > 0
             THEN high * shift[6 - blen] + s[i + 2] \div shift[2 + blen] ELSE high
    IN  [code |-> Code(b),
         pos |-> IF Compact(b) /\ (pos > 0 \/ b > 31) THEN pos + 1 ELSE pos]

encodeV1(s) ==
    LET from[end \in 1 .. 8 * Len(s)] ==
            LET n == next(s, end)
            IN  <<Alphabet[n.code + 1]>> \o (IF n.pos > 0 THEN from[n.pos] ELSE <<>>)
    IN  IF s = <<>> THEN <<>> ELSE from[8 * Len(s)]

\* The bytes a buffer holds: a buffer is its memory up to the capacity, and its length.
Held(buf) == SubSeq(buf.mem, 1, buf.len)

EncodeToBuf(buf, s) == IF s = <<>> THEN <<>> ELSE Held(buf) \o encodeV2(s)

\* What appending the characters of t one by one leaves of the caller's buffer: it
\* fills the memory after the bytes before it moves them to a larger one.
Filled(buf, t) ==
    [mem |-> [i \in DOMAIN buf.mem |->
                 IF i > buf.len /\ i <= buf.len + Len(t) THEN t[i - buf.len] ELSE buf.mem[i]],
     len |-> buf.len]

-----------------------------------------------------------------------------
(* The decoder.                                                            *)

Illegal == 255

\* NewEncoding: of equal characters the last counts.
decodeMap ==
    [c \in 0 .. 255 |->
        LET codes == {i \in 1 .. base : Alphabet[i] = c}
        IN  IF codes = {} THEN Illegal ELSE Max(codes) - 1]

Len8(x) == CHOOSE n \in 0 .. 8 : x < shift[n] /\ \A m \in 0 .. n - 1 : x >= shift[m]

\* Mutant: the last character is taken like the others.
BitsOfAny(x, last) == IF Compact(x) THEN 5 ELSE 6

\* The bits a character adds.
Bits(x, last) == IF last THEN Len8(x) ELSE IF Compact(x) THEN 5 ELSE 6

\* bytes is what has been written of dst, from its end; error is the position
\* of the first illegal character, or -1.
Fresh == [bytes |-> <<>>, b |-> 0, pos |-> 0, error |-> -1]

\* The decoder takes the character at i.
Take(t, d, i) ==
    LET x == decodeMap[t[i]]
        b == d.b + x * shift[d.pos]
        pos == d.pos + Bits(x, i = Len(t))
    IN  IF d.error >= 0 THEN d
        ELSE IF x = Illegal THEN [d EXCEPT !.error = i - 1]
        ELSE IF pos >= 8
        THEN [d EXCEPT !.bytes = <<b % 256>> \o @, !.b = b \div 256, !.pos = pos % 8]
        ELSE [d EXCEPT !.b = b, !.pos = pos]

decode(t) ==
    LET after[i \in 0 .. Len(t)] == IF i = 0 THEN Fresh ELSE Take(t, after[i - 1], i)
        d == after[Len(t)]
    IN  IF d.error < 0 /\ d.pos > 0 THEN [d EXCEPT !.bytes = <<d.b % 256>> \o @] ELSE d

\* Mutant: six bits a character, rounded down.
possibleLenRoundedDown(t) == (Len(t) * 6) \div 8

possibleLen(t) == (Len(t) * 6) \div 8 + 1

Nil == [mem |-> <<>>, len |-> 0, error |-> -1, panic |-> FALSE]

\* The decoder writes at the end of the buffer, and the copy moves what it wrote
\* to the place after the caller's bytes.
Result(mem, len, idx, bytes) ==
    LET written == [i \in DOMAIN mem |->
                       IF i > len + idx THEN bytes[i - len - idx] ELSE mem[i]]
    IN  [i \in DOMAIN mem |->
            IF i > len /\ i + idx <= Len(mem) THEN written[i + idx] ELSE written[i]]

DecodeToBuf(buf, t) ==
    LET room == buf.len + possibleLen(t)
        mem == IF Len(buf.mem) >= room THEN buf.mem
               ELSE [i \in 1 .. room |-> IF i <= buf.len THEN buf.mem[i] ELSE 0]
        d == decode(t)
        idx == Len(mem) - buf.len - Len(d.bytes)
    IN  IF t = <<>> THEN Nil
        ELSE IF idx < 0 THEN [Nil EXCEPT !.panic = TRUE]
        ELSE IF d.error >= 0 THEN [Nil EXCEPT !.error = d.error]
        ELSE [Nil EXCEPT !.mem = Result(mem, buf.len, idx, d.bytes),
                         !.len = Len(mem) - idx]

-----------------------------------------------------------------------------
(* The integers.                                                           *)

uint(n) == IF n < 0 THEN n + 2 * Half ELSE n

\* Mutant: the conversion keeps the unsigned value.
IntUnsigned(n) == n

Int64(n) == IF n >= Half THEN n - 2 * Half ELSE n

FormatUint(n) ==
    LET digits[m \in 0 .. n] ==
            IF m = 0 THEN <<>>
            ELSE Append(digits[m \div base], Alphabet[(m % base) + 1])
    IN  IF n = 0 THEN <<Alphabet[1]>> ELSE digits[n]

AppendInt(buf, n) == Held(buf) \o FormatUint(uint(n))

\* The digit at i.
AddDigit(t, p, i) ==
    LET x == decodeMap[t[i]]
    IN  IF p.error >= 0 THEN p
        ELSE IF x = Illegal THEN [num |-> 0, error |-> i - 1]
        ELSE [p EXCEPT !.num = (@ * base + x) % (2 * Half)]

ParseUint(t) ==
    LET after[i \in 0 .. Len(t)] ==
            IF i = 0 THEN [num |-> 0, error |-> -1] ELSE AddDigit(t, after[i - 1], i)
    IN  after[Len(t)]

ParseInt(t) ==
    LET p == ParseUint(t)
    IN  IF p.error >= 0 THEN p ELSE [p EXCEPT !.num = Int64(@)]

-----------------------------------------------------------------------------
(* The client.  It decodes a copy of the text into the buffer it appended   *)
(* the text to.  The text itself may lie in that buffer's memory, where     *)
(* DecodeToBuf would overwrite it, from its end, before it is read.         *)

\* The copy.
Appended == SubSeq(text, dst.len + 1, Len(text))

Init ==
    /\ call = "none"
    /\ src = <<>> /\ num = 0 /\ text = <<>>
    /\ dst = [mem |-> <<>>, len |-> 0]
    /\ result = Nil

Encode ==
    /\ call = "none"
    /\ call' = "Encode"
    /\ src' \in Sources
    /\ \E buf \in Buffers : /\ dst' = Filled(buf, encodeV2(src'))
                            /\ text' = EncodeToBuf(buf, src')
    /\ UNCHANGED <<num, result>>

Decode ==
    /\ call = "Encode"
    /\ call' = "Decode"
    /\ result' = DecodeToBuf(dst, Appended)
    /\ UNCHANGED <<src, num, dst, text>>

\* Text from elsewhere: of the wrong length, or with illegal characters.
DecodeOther ==
    /\ call = "none"
    /\ call' = "DecodeOther"
    /\ text' \in Texts /\ dst' \in Buffers
    /\ result' = DecodeToBuf(dst', text')
    /\ UNCHANGED <<src, num>>

\* What it leaves in the memory after the bytes of dst is not read again.
Format ==
    /\ call = "none"
    /\ call' = "FormatInt"
    /\ num' \in Numbers /\ dst' \in Buffers
    /\ text' = AppendInt(dst', num')
    /\ UNCHANGED <<src, result>>

Parse ==
    /\ call = "FormatInt"
    /\ call' = "ParseInt"
    /\ result' = ParseInt(Appended)
    /\ UNCHANGED <<src, num, dst, text>>

\* The client is done with a result.
Forget ==
    /\ call \in {"Decode", "DecodeOther", "ParseInt"}
    /\ call' = "none"
    /\ src' = <<>> /\ num' = 0 /\ text' = <<>>
    /\ dst' = [mem |-> <<>>, len |-> 0]
    /\ result' = Nil

Next == Encode \/ Decode \/ DecodeOther \/ Format \/ Parse \/ Forget

Spec == Init /\ [][Next]_vars

-----------------------------------------------------------------------------
(* Properties.                                                             *)

\* Decoding a copy of what was encoded appends the same bytes to the caller's,
\* whatever the room after these and what is in it, the text itself included.
\* For the empty src see AppendsToBuffer.
DecodeInvertsEncode ==
    call = "Decode" /\ src # <<>> => result.error = -1 /\ Held(result) = Held(dst) \o src

\* Texts are the ones the obsolete encoder wrote, so that programs that stored
\* them, and compare them, are not broken; appended, they follow what was there.
\* For the empty src see AppendsToBuffer.
TextsAreStable == call = "Encode" /\ src # <<>> => text = Held(dst) \o encodeV1(src)

\* The comments on EncodeToBuf and DecodeToBuf: each appends to dst and "returns
\* the extended buffer", whatever it is given, so the caller's bytes come first.
AppendsToBuffer ==
    /\ call \in {"Encode", "Decode"} => IsPrefix(Held(dst), text)
    /\ call \in {"Decode", "DecodeOther"} /\ result.error = -1 =>
           IsPrefix(Held(dst), Held(result))

\* Whatever the text, the decoder stays within its buffer, and an error names
\* the first character that is not in the alphabet.
DecodeIsSafe ==
    call \in {"Decode", "DecodeOther"} =>
        /\ ~result.panic
        /\ LET t == IF call = "Decode" THEN Appended ELSE text
               illegal == {i \in DOMAIN t : t[i] \notin Range(Alphabet)}
           IN  result.error = IF illegal = {} THEN -1 ELSE Min(illegal) - 1

\* Every integer, negative ones and the least one too, is parsed as it was
\* formatted, its digits fit the buffer they are written in, and the caller's
\* bytes stay before them.
ParseInvertsFormat ==
    /\ call = "FormatInt" => Len(Appended) <= Digits /\ IsPrefix(Held(dst), text)
    /\ call = "ParseInt" => result = [num |-> num, error |-> -1]
=============================================================================
