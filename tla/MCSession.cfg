SPECIFICATION FairSpec
CONSTANTS
    c1 = c1
    c2 = c2
    d1 = d1
    a1 = a1
    a2 = a2
    None = None
    NoDevice = NoDevice
    Conns <- MCConns
    WS <- MCWS
    IPs <- MCIPs
    Origins <- MCOrigins
    Devices <- MCDevices
    Banned <- MCBanned
    MaxTotal = 2
    MaxPerIP = 1
    SendDepth = 1
    CmdDepth = 2
    MaxFrames = 2
INVARIANTS
    TypeOK
    SlotsAreSessions
    OnlineMeansConnected
PROPERTIES
    ResetSaves
    ImplementsPresence
