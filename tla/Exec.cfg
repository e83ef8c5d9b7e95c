SPECIFICATION FairSpec
CONSTANTS
    Servers = {s1}
    Entries = {e1}
    NoEntry = NoEntry
    NoClient = NoClient
    Stalling = {}
    Calls = {c1, c2}
INVARIANTS
    TypeOK
    AtMostOnce
    RetryIsFresh
PROPERTIES
    KeepsPromise
    UsesPool
    CallEndsUnlessStuck
