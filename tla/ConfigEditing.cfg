SPECIFICATION Spec
CONSTANTS
    n1 = n1
    n2 = n2
    h1 = h1
    h2 = h2
    o1 = o1
    o2 = o2
    i1 = i1
    d1 = d1
    Names = {n1, n2}
    Hosts = {h1, h2}
    Opts = {o1, o2}
    Infos = {i1}
    Dirs = {d1}
    NoEntry = NoEntry
    Unset = Unset
    Default = o1
    Editors = {a, b, c}
    Tasks <- AllTasks
    Configs <- SoundFile
    Missing = Missing
    Empty = Empty
    Corrupt = Corrupt
CHECK_DEADLOCK FALSE
SYMMETRY Symmetry
INVARIANTS
    TypeOK
    UnusableForACause
    AliasesInSync
PROPERTIES
    BrokenConfigIsKept
    IsRegistry
