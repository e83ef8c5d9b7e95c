------------------------------ MODULE MCTransfer ------------------------------
(***************************************************************************)
(* Small instances of Transfer: a file of two chunks, a directory with a   *)
(* file and a subdirectory with another, and a link to a directory, copied to a *)
(* path that may be free, a file or a directory.                           *)
(***************************************************************************)
EXTENDS Transfer

CONSTANTS c1, c2, Private, Shared, Open, OneFile, Folder, Linked, Text

\* 0600, 0664 and 0644 under the umask 022.
Umask022 == [m \in {Private, Shared, Open} |-> IF m = Shared THEN Open ELSE m]
NoUmask == [m \in {Private, Shared, Open} |-> m]

Item(kind, size, perm) == [kind |-> kind, size |-> size, perm |-> perm]

AllSources ==
    [s \in {OneFile, Folder, Linked, Text} |->
        CASE s = OneFile -> [p \in {<<>>} |-> Item("file", 2, Private)]
          [] s = Folder -> [p \in {<<>>, <<1>>, <<2>>, <<2, 1>>} |->
                               CASE p \in {<<>>, <<2>>} -> Item("dir", 0, Open)
                                 [] p = <<1>> -> Item("file", 1, Private)
                                 [] p = <<2, 1>> -> Item("file", 1, Shared)]
          [] s = Linked -> [p \in {<<>>, <<1>>} |->
                               IF p = <<>> THEN Item("link", 0, Open) ELSE Item("file", 1, Shared)]
          [] s = Text -> [p \in {<<>>} |-> Item("file", 1, Private)]]

Ask(op, source, recursive, overwrite) ==
    [op |-> op, source |-> source, recursive |-> recursive, overwrite |-> overwrite]

\* One call asks for anything, the other for what interferes most with it.
AllRequests ==
    {Ask(op, OneFile, FALSE, o) : op \in {"upload", "download"}, o \in BOOLEAN}
    \union {Ask(op, Folder, TRUE, o) : op \in {"upload", "download"}, o \in BOOLEAN}
    \union {Ask(op, Folder, FALSE, FALSE) : op \in {"upload", "download"}}
    \union {Ask(op, Linked, TRUE, FALSE) : op \in {"upload", "download"}}
    \union {Ask("write", Text, FALSE, FALSE)}
Interfering ==
    {Ask(op, OneFile, FALSE, TRUE) : op \in {"upload", "download"}}
    \union {Ask("download", Folder, TRUE, FALSE), Ask("write", Text, FALSE, FALSE)}
RequestsOf == [c \in {c1, c2} |-> IF c = c1 THEN AllRequests ELSE Interfering]

Trees == DOMAIN AllSources[Folder]
AllPlaces == Trees \union {<<9>> \o p : p \in Trees}

OldFile == [data |-> <<Hole, Hole, Hole>>, perm |-> Open]
Free == [q \in AllPlaces |-> Absent]
AllDests ==
    {Free,
     [Free EXCEPT ![<<>>] = OldFile],
     [Free EXCEPT ![<<>>] = Dir, ![<<9>>] = Dir, ![<<9, 2>>] = Dir, ![<<9, 2, 1>>] = OldFile]}
=============================================================================
