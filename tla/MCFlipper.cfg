SPECIFICATION Spec
CONSTANTS
    Key = {k1, k2}
    NoKey = NoKey
    Conn = {c1, c2, c3}
    NoConn = NoConn
    MaxMessages = 1
    MaxStops = 1
INVARIANTS
    TypeOK
    NeverStuck
    OneConnection
    OpenIsSecure
    NullNeedsStop
    MessageStays
    RequestFitsKey
SYMMETRY Symmetry
CHECK_DEADLOCK FALSE
