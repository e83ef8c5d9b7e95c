SPECIFICATION Spec
CONSTANTS
    c1 = c1
    c2 = c2
    Private = Private
    Shared = Shared
    Open = Open
    Calls = {c1, c2}
    OneFile = OneFile
    Folder = Folder
    Linked = Linked
    Text = Text
    Sources <- AllSources
    Cancellable = {c1}
    Hanging = {c2}
    Requests <- RequestsOf
    Perms = {Private, Shared, Open}
    Masked <- NoUmask
    Default = Open
    Base = 9
    Places <- AllPlaces
    Dests <- AllDests
    Absent = Absent
    Dir = Dir
    Hole = Hole
CHECK_DEADLOCK FALSE
INVARIANT
    PermissionsArePreserved
