SPECIFICATION FairSpec
CONSTANTS
    Key = {k1, k2}
    NoKey = NoKey
    Conn = {c1, c2}
    NoConn = NoConn
    MaxMessages = 1
    MaxStops = 0
PROPERTIES
    Recovers
CHECK_DEADLOCK FALSE
