\* A profile half written by a killed setData.
CONSTANTS
    Null = Null
    Empty = Empty
    Blank = Blank
    ann = ann
    bob = bob
    n7 = n7
    Words <- MCWords
    Numerals <- MCNumerals
    Typed <- MCTypedOne
    MaxVisits = 2
    MaxLogins = 2
    MaxFaults = 1
SPECIFICATION Spec
INVARIANTS
    LoginNeverThrows
\* The environment owes nothing: the user may stop and no quiz need end.
CHECK_DEADLOCK FALSE
