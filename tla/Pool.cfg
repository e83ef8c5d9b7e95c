SPECIFICATION FairSpec
CONSTANTS
    Servers = {s1, s2}
    Entries = {e1}
    NoEntry = NoEntry
    Gets = {g1, g2, g3}
    NoClient = NoClient
    Stalling = {s1}
INVARIANTS
    TypeOK
    NoLeakedConnection
    ClosedNotPooled
PROPERTIES
    ReturnsOpenClient
    HungServerDoesNotBlockOthers
