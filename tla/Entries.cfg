SPECIFICATION Spec
CONSTANTS
    alias = alias
    host = host
    far = far
    root = root
    me = me
    ann = ann
    pass = pass
    bastion = bastion
    words = words
    runbook = runbook
    Quiet = Quiet
    new = new
    old = old
    usual = usual
    locked = locked
    newFile = newFile
    oldFile = oldFile
    deniedFile = deniedFile
    movedFile = movedFile
    strayFile = strayFile
    usualFile = usualFile
    lockedFile = lockedFile
    newKey = newKey
    oldKey = oldKey
    strayKey = strayKey
    agentKey = agentKey
    AliasName = alias
    Root = root
    LocalUser = me
    Values <- AllValues
    Args <- AllArgs
    Requests <- AllRequests
    SSHConfigs <- AllConfigs
    SSHDefaults <- SSHNames
    Infos = {runbook}
    Files <- AllFiles
    Disks <- AllDisks
    Spots <- AllSpots
    Fallback <- Fallbacks
    Key <- KeyIn
    Agent <- AgentKeys
    DefaultNames <- UsualNames
    None = None
    NoEntry = NoEntry
    Unreadable = Unreadable
    NoAccess = NoAccess
INVARIANTS
    TypeOK
    LastWordCounts
    SameDestination
    SameKeyFirst
    EveryKeyOnce
