SPECIFICATION FairSpec
CONSTANTS
    t1 = t1
    t2 = t2
    r1 = r1
    r2 = r2
    None = None
    Tracks <- MCTracks
    Requests <- MCRequests
    Orders <- MCOrders
    Starts <- MCStarts
INVARIANTS
    TypeOK
    IndexIsCurrent
    SoloOwnsTheDeck
    
    LyricsOnTheirWay
    QueueInSync
PROPERTIES
    LyricsSettle
