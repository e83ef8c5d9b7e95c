SPECIFICATION FairSpec
CONSTANTS
    Servers = {s1}
    Entries = {e1}
    NoEntry = NoEntry
    NoClient = NoClient
    Stalling = {}
    Calls = {c1}
PROPERTY
    TimeoutHolds
