SPECIFICATION SettingsSpec
CONSTANTS
    Servers = {s1}
    Entries = {e1, e2}
    NoEntry = NoEntry
    Gets = {g1, g2}
    NoClient = NoClient
    Stalling = {}
    Edits = {a1, a2}
    Facts = {f1}
SYMMETRY Symmetry
INVARIANTS
    SettingsTypeOK
    OutdatedIsExcused
