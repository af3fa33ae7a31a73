\* Two visits, two logins, one failure or death at any point.
CONSTANTS
    Null = Null
    Empty = Empty
    Blank = Blank
    ann = ann
    bob = bob
    n7 = n7
    Words <- MCWords
    Numerals <- MCNumerals
    Typed <- MCTypedOne
    MaxVisits = 2
    MaxLogins = 2
    MaxFaults = 1
SPECIFICATION Spec
INVARIANTS
    TypeOK
    StoredPrefix
    ReadsOneLogin
    FirstNameNeverNull
    ThrowNeedsFault
PROPERTIES
    NewestLoginWins
\* The environment owes nothing: the user may stop and no quiz need end.
CHECK_DEADLOCK FALSE
