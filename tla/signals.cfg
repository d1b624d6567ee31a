SPECIFICATION Spec
CONSTANTS
    loaded = loaded
    sinkChanged = sinkChanged
    output = output
    plugins = plugins
    player = player
    observer = observer
    NoSig = NoSig
    NoConn = NoConn
    Sigs <- MCSigs
    Conns <- MCConns
    SigOf <- MCSigOf
    Emits <- MCEmits
    Bound <- MCBound
    MaxCalls = 2
INVARIANTS CountersAreLive EveryCopyRuns
PROPERTIES CallsEndOrEmbrace
CHECK_DEADLOCK FALSE
