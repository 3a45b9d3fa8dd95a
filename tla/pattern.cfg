SPECIFICATION Spec
CONSTANTS
    Alphabet <- MCAlphabet
    Digits <- MCDigits
    Word <- MCWord
    Space <- MCSpace
    Expressions <- MCExpressions
    MaxRepeat = 3
INVARIANTS
    SynthesizedMatches
    TableKept
CHECK_DEADLOCK FALSE
