SPECIFICATION SettingsSpec
CONSTANTS
    Servers = {s1}
    Entries = {e1}
    NoEntry = NoEntry
    Gets = {g1, g2}
    NoClient = NoClient
    Stalling = {}
    Edits = {}
    Facts = {f1, f2}
PROPERTY
    FollowsSSHConfig
