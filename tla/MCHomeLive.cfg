\* Three logins on two visits and nothing fails: every accepted login reaches the storage.
CONSTANTS
    Null = Null
    Empty = Empty
    Blank = Blank
    ann = ann
    bob = bob
    n7 = n7
    Words <- MCWords
    Numerals <- MCNumerals
    Typed <- MCTypedOne
    MaxVisits = 2
    MaxLogins = 3
    MaxFaults = 0
SPECIFICATION FairSpec
INVARIANTS
    SettledIsSaved
PROPERTIES
    LoginIsSaved
\* The environment owes nothing: the user may stop and no quiz need end.
CHECK_DEADLOCK FALSE
