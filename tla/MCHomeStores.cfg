\* A login before getData is through.
CONSTANTS
    Null = Null
    Empty = Empty
    Blank = Blank
    ann = ann
    bob = bob
    n7 = n7
    Words <- MCWords
    Numerals <- MCNumerals
    Typed <- MCTypedTwo
    MaxVisits = 2
    MaxLogins = 2
    MaxFaults = 0
SPECIFICATION Spec
INVARIANTS
    StoresWhatWasValidated
\* The environment owes nothing: the user may stop and no quiz need end.
CHECK_DEADLOCK FALSE
