SPECIFICATION FairSpec
CONSTANTS
    Key = {k1, k2}
    NoKey = NoKey
    Conn = {c1, c2}
    NoConn = NoConn
    MaxMessages = 0
    MaxStops = 1
PROPERTIES
    StopCloses
CHECK_DEADLOCK FALSE
