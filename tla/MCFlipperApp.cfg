SPECIFICATION AppSpec
CONSTANTS
    Key = {k1}
    NoKey = NoKey
    Conn = {c1, c2}
    NoConn = NoConn
    MaxMessages = 1
    MaxStops = 0
    layout = layout
    layout2 = layout2
    network = network
    inspector = inspector
    requestLog = requestLog
    Plugin = {layout, layout2, network}
    NoPlugin = NoPlugin
    Identifier = {inspector, requestLog}
    identifier <- identifierMC
    MaxReports = 1
SYMMETRY Symmetry
INVARIANTS
    ClientTypeOK
    ToldTheTruth
    ConnectedIsOpen
    PluginsNeedConnection
PROPERTIES
    ImplementsSession
CHECK_DEADLOCK FALSE
