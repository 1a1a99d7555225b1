SPECIFICATION Spec
CONSTANTS
    Alphabet <- MCAlphabet
    Half = 2048
    Digits = 3
    Sources <- MCSources
    Texts <- MCTexts
    Buffers <- MCBuffers
    Numbers <- MCNumbers
INVARIANTS AppendsToBuffer
