------------------------------ MODULE MCBase62 ------------------------------
(* An instance of Base62 for TLC: the standard alphabet, twelve-bit integers.  *)
EXTENDS Base62

\* "A" to "Z", "a" to "z", "0" to "9".
MCAlphabet == [i \in 1 .. 62 |-> IF i <= 26 THEN 64 + i
                                 ELSE IF i <= 52 THEN 70 + i ELSE i - 5]

\* Bytes whose bits make, or nearly make, the patterns that are cut, at every
\* offset six bits may begin at.
MCBytes == {0, 1, 15, 30, 31, 62, 64, 120, 123, 127, 192, 224, 240, 248, 254, 255}

MCSources ==
    {<<>>} \cup {<<a>> : a \in 0 .. 255}
    \cup {<<a, b>> : a \in 0 .. 255, b \in MCBytes}
    \cup {<<a, b>> : a \in MCBytes, b \in 0 .. 255}
    \cup {<<a, b, c>> : a \in MCBytes, b \in MCBytes, c \in MCBytes}

\* "A", "e", "f", "9" (whose codes are 0, 30, 31 and 61), and "-".
MCTexts == UNION {[1 .. n -> {65, 101, 102, 57, 45}] : n \in 0 .. 5}

\* None, one that is full, one with room left by an earlier use, and one between.
MCBuffers == {[mem |-> <<>>, len |-> 0],
              [mem |-> <<7>>, len |-> 1],
              [mem |-> <<7, 8, 9, 10, 11, 12, 13, 14>>, len |-> 1],
              [mem |-> <<7, 8, 9>>, len |-> 0]}

MCNumbers == -2048 .. 2047
=============================================================================
