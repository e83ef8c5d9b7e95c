------------------------------- MODULE Transfer -------------------------------
(***************************************************************************)
(* The MCP tools that write files: upload_file, download_file and          *)
(* write_file.  Concurrent calls work on one destination, the path that    *)
(* all of them name.  An upload or a download walks its source and copies  *)
(* one file after the other, in chunks; every operation on the destination *)
(* is a step of its own that the other calls see.                          *)
(*                                                                         *)
(* A path is the sequence of names that leads to a file from the root of   *)
(* the source, or from the destination.  Names are numbers, in their       *)
(* order.  Data is counted in chunks, and a chunk is known by the call     *)
(* that wrote it.  Sources do not change, nothing is removed from the      *)
(* destination, and one behaviour has one destination file system.         *)
(*                                                                         *)
(* What no other call can see, such as a look at the context or at the end *)
(* of the source, is part of the step that follows it.                     *)
(***************************************************************************)
EXTENDS Naturals, Sequences, FiniteSets

CONSTANTS
    Calls,      \* calls of the tools
    Sources,    \* the trees of files that can be sent or fetched, by name
    Requests,   \* what each call may ask for
    Cancellable, Hanging,   \* the calls that may be withdrawn, or never return
    Perms,      \* file modes
    Masked,     \* what the umask leaves of a mode
    Default,    \* the mode of a file that is created without one
    Base,       \* the base name of every source
    Places,     \* the paths at the destination
    Dests,      \* what may be there at first
    Absent, Dir, Hole

Ops == {"upload", "download", "write"}
Kinds == {"dir", "file", "link", "other"}

Node == {Absent, Dir} \union [data : Seq(Calls \union {Hole}), perm : Perms]

ASSUME SourcesAssumption ==
    \A s \in DOMAIN Sources :
        /\ IsFiniteSet(DOMAIN Sources[s])
        /\ \A p \in DOMAIN Sources[s] :
              /\ p \in Seq(Nat) /\ p \in Places /\ <<Base>> \o p \in Places
              /\ Sources[s][p].kind \in Kinds
              /\ Sources[s][p].size \in Nat /\ Sources[s][p].perm \in Perms
        /\ <<>> \in DOMAIN Sources[s]
ASSUME ParentsAssumption ==
    \A s \in DOMAIN Sources : \A p \in DOMAIN Sources[s] : \A k \in 1 .. Len(p) - 1 :
        /\ SubSeq(p, 1, k) \in DOMAIN Sources[s]
        /\ Sources[s][SubSeq(p, 1, k)].kind = "dir"
ASSUME RequestsAssumption ==
    Requests \in
        [Calls -> SUBSET [op : Ops, source : DOMAIN Sources,
                          recursive : BOOLEAN, overwrite : BOOLEAN]]
ASSUME NodesAssumption ==
    /\ Dir # Absent
    /\ {Dir, Absent} \intersect [data : Seq(Calls \union {Hole}), perm : Perms] = {}
    /\ Dests \subseteq [Places -> Node]
ASSUME OthersAssumption ==
    /\ Cancellable \subseteq Calls /\ Hanging \subseteq Calls
    /\ Masked \in [Perms -> Perms] /\ Default \in Perms
    /\ Base \in Nat /\ Hole \notin Calls

VARIABLES
    req,        \* what each call was asked to do
    phase,      \* where it stands
    root,       \* the destination of the source's root, after scp's rule
    todo,       \* the paths of the source that are still to be visited
    current,    \* the file that the call is at
    offset,     \* how much of the current file is written
    files,      \* stats.Files
    dest,       \* the file system at the destination
    cancelled,  \* the calls whose context is cancelled
    stuck,      \* the calls that wait for ever for a connection or a disk
    existed,    \* history: the paths that were there when the call began
    created,    \* history: the files that the call has opened with Create
    replaced,   \* history: those of them that were there already
    clash,      \* history: those that another call had open or opened later
    blind       \* history: the calls for which Stat has failed

history == <<existed, created, replaced, clash, blind>>
vars == <<req, phase, root, todo, current, offset, files, dest, cancelled, stuck, history>>

Source(c) == Sources[req[c].source]

Target(c, p) == root[c] \o p
Place(c) == Target(c, current[c])

IsFile(node) == node \notin {Absent, Dir}

Ended == {"ok", "failed", "refused"}
Busy == {"walk", "check", "create", "copy", "chmod"}
Phases == {"new"} \union Busy \union Ended

TypeOK ==
    /\ DOMAIN req = Calls /\ \A c \in Calls : req[c] \in Requests[c]
    /\ phase \in [Calls -> Phases]
    /\ root \in [Calls -> {<<>>, <<Base>>}]
    /\ DOMAIN todo = Calls /\ \A c \in Calls : todo[c] \subseteq DOMAIN Source(c)
    /\ DOMAIN current = Calls /\ \A c \in Calls : current[c] \in DOMAIN Source(c)
    /\ \A c \in Calls :
          /\ phase[c] \in Busy => todo[c] # {}
          /\ phase[c] \in {"create", "copy", "chmod"} => current[c] \in todo[c]
          /\ phase[c] \in {"copy", "chmod"} => IsFile(dest[Place(c)])
    /\ offset \in [Calls -> Nat]
    /\ files \in [Calls -> Nat]
    /\ dest \in [Places -> Node]
    /\ cancelled \subseteq Calls
    /\ stuck \subseteq Calls
    /\ existed \in [Calls -> SUBSET Places]
    /\ replaced \subseteq created
    /\ created \subseteq Calls \X Places
    /\ clash \subseteq created
    /\ blind \subseteq Calls

Init ==
    /\ req \in {r \in [Calls -> UNION {Requests[c] : c \in Calls}] :
                   \A c \in Calls : r[c] \in Requests[c]}
    /\ \A c, d \in Calls : req[c].op = "download" <=> req[d].op = "download"
    /\ phase = [c \in Calls |-> "new"]
    /\ root = [c \in Calls |-> <<>>]
    /\ todo = [c \in Calls |-> {}]
    /\ current = [c \in Calls |-> <<>>]
    /\ offset = [c \in Calls |-> 0]
    /\ files = [c \in Calls |-> 0]
    /\ dest \in Dests
    /\ cancelled = {}
    /\ stuck = {}
    /\ existed = [c \in Calls |-> {}]
    /\ created = {}
    /\ replaced = {}
    /\ clash = {}
    /\ blind = {}

-----------------------------------------------------------------------------
\* Paths.

IsPrefix(p, q) == Len(p) <= Len(q) /\ \A i \in 1 .. Len(p) : p[i] = q[i]

\* The order of the walk: a directory before what it holds, and the names of a
\* directory in lexical order.
Before(p, q) ==
    \/ IsPrefix(p, q) /\ p # q
    \/ \E k \in 1 .. Len(p) :
          k <= Len(q) /\ p[k] < q[k] /\ \A i \in 1 .. k - 1 : p[i] = q[i]

IsTransfer(c) == req[c].op \in {"upload", "download"}
Children(c, p) == {q \in DOMAIN Source(c) : Len(q) = Len(p) + 1 /\ IsPrefix(p, q)}

\* MkdirAll: a path where a file is in the way cannot be made.
CanMake(p) == \A q \in Places : IsPrefix(q, p) => ~IsFile(dest[q])
WithDirs(p) == [q \in Places |-> IF IsPrefix(q, p) THEN Dir ELSE dest[q]]

\* os.Stat and sftp.Stat follow a symbolic link.
IsTree(c) == Source(c)[<<>>].kind \in {"dir", "link"}

\* filepath.Walk does not: an upload skips a root that is a link.
Enters(c, p) ==
    \/ Source(c)[p].kind = "dir"
    \/ Source(c)[p].kind = "link" /\ p = <<>> /\ req[c].op = "download"

Active(c) == phase[c] \notin Ended /\ c \notin stuck

Goto(c, where) == phase' = [phase EXCEPT ![c] = where]

\* The walk goes on with the paths that are left, or is through.
GoOn(c, rest) ==
    /\ todo' = [todo EXCEPT ![c] = rest]
    /\ Goto(c, IF rest = {} THEN "ok" ELSE "walk")

-----------------------------------------------------------------------------
\* The call looks at its source and at its destination: an existing directory
\* receives the source's base name.  A Stat that fails counts as an absent
\* destination.
Begin(c) ==
    /\ Active(c)
    /\ phase[c] = "new"
    /\ IsTransfer(c)
    /\ \/ /\ root' = [root EXCEPT ![c] = IF dest[<<>>] = Dir THEN <<Base>> ELSE <<>>]
          /\ UNCHANGED blind
       \/ /\ dest[<<>>] = Dir
          /\ blind' = blind \union {c}
          /\ UNCHANGED root
    /\ Goto(c, CASE IsTree(c) /\ ~req[c].recursive -> "refused"
                 [] IsTree(c) /\ req[c].recursive -> "walk"
                 [] ~IsTree(c) -> "check")
    /\ todo' = [todo EXCEPT ![c] = {<<>>}]
    /\ existed' = [existed EXCEPT ![c] = {p \in Places : dest[p] # Absent}]
    /\ UNCHANGED <<req, current, offset, files, dest, cancelled, stuck, created,
                   replaced, clash>>

\* The walk looks at the context before every item; the root of a download is
\* made before its loop.  Copying looks at it before every chunk.
Abandons(c) ==
    /\ c \in cancelled
    /\ \/ phase[c] = "copy" /\ IsTransfer(c)
       \/ phase[c] = "walk" /\ ~(req[c].op = "download" /\ todo[c] = {<<>>})

Visits(c, p) ==
    /\ Active(c)
    /\ phase[c] = "walk"
    /\ ~Abandons(c)
    /\ \A q \in todo[c] \ {p} : Before(p, q)

VisitDir(c) ==
    \E p \in todo[c] :
        /\ Visits(c, p)
        /\ Enters(c, p)
        /\ CanMake(Target(c, p))
        /\ dest' = WithDirs(Target(c, p))
        /\ GoOn(c, (todo[c] \ {p}) \union Children(c, p))
        /\ UNCHANGED <<req, root, current, offset, files, cancelled, stuck, history>>

SkipIrregular(c) ==
    \E p \in todo[c] :
        /\ Visits(c, p)
        /\ ~Enters(c, p) /\ Source(c)[p].kind # "file"
        /\ GoOn(c, todo[c] \ {p})
        /\ UNCHANGED <<req, root, current, offset, files, dest, cancelled, stuck, history>>

\* A source that is one file is copied without a walk.
VisitFile(c, p) ==
    /\ \/ Active(c) /\ phase[c] = "check"
       \/ Visits(c, p) /\ Source(c)[p].kind = "file"
    /\ current' = [current EXCEPT ![c] = p]

\* Mutation: only the root of the transfer is looked for.
CheckRoot(c) ==
    \E p \in todo[c] :
        /\ VisitFile(c, p)
        /\ Goto(c, IF req[c].overwrite \/ p # <<>> \/ dest[Target(c, p)] = Absent
                   THEN "create" ELSE "refused")
        /\ UNCHANGED <<req, root, todo, offset, files, dest, cancelled, stuck, history>>

\* Without overwrite, a destination that is there is refused ...
Check(c) ==
    \E p \in todo[c] :
        /\ VisitFile(c, p)
        /\ Goto(c, IF req[c].overwrite \/ dest[Target(c, p)] = Absent THEN "create" ELSE "refused")
        /\ UNCHANGED <<req, root, todo, offset, files, dest, cancelled, stuck, history>>

\* ... but any error of Stat counts as absent.
CheckFails(c) ==
    \E p \in todo[c] :
        /\ VisitFile(c, p)
        /\ ~req[c].overwrite /\ dest[Target(c, p)] # Absent
        /\ Goto(c, "create")
        /\ blind' = blind \union {c}
        /\ UNCHANGED <<req, root, todo, offset, files, dest, cancelled, stuck, existed,
                       created, replaced, clash>>

\* write_file creates its file without looking.
BeginWrite(c) ==
    /\ Active(c)
    /\ phase[c] = "new"
    /\ req[c].op = "write"
    /\ Goto(c, "create")
    /\ todo' = [todo EXCEPT ![c] = {<<>>}]
    /\ current' = [current EXCEPT ![c] = <<>>]
    /\ UNCHANGED <<req, root, offset, files, dest, cancelled, stuck, history>>

\* A call may still write to the file, or change its mode.
HasOpen(c, p) == phase[c] \in {"copy", "chmod"} /\ Place(c) = p

\* A download creates its file with what the umask leaves of the source's mode; a
\* file that is there keeps its own.
NewPerm(c) ==
    IF req[c].op = "download" THEN Masked[Source(c)[current[c]].perm] ELSE Default

\* MkdirAll of the parent, Open of the source and Create, which truncates.
Create(c) ==
    LET p == Place(c) IN
    /\ Active(c)
    /\ phase[c] = "create"
    /\ dest[p] # Dir
    /\ \A q \in Places : IsPrefix(q, p) /\ q # p => ~IsFile(dest[q])
    /\ dest' = [q \in Places |->
                  CASE q = p -> [data |-> <<>>,
                                 perm |-> IF IsFile(dest[p]) THEN dest[p].perm ELSE NewPerm(c)]
                    [] q # p /\ IsPrefix(q, p) -> Dir
                    [] OTHER -> dest[q]]
    /\ offset' = [offset EXCEPT ![c] = 0]
    /\ Goto(c, "copy")
    /\ created' = created \union {<<c, p>>}
    /\ replaced' = IF IsFile(dest[p]) THEN replaced \union {<<c, p>>} ELSE replaced
    /\ clash' = clash \union {<<d, p>> : d \in {d \in Calls : <<d, p>> \in created}}
                      \union {<<c, p>> : d \in {d \in Calls : HasOpen(d, p)}}
    /\ UNCHANGED <<req, root, todo, current, files, cancelled, stuck, existed, blind>>

\* The chunk goes where the writer's own file offset stands.
Written(c, data) ==
    [i \in 1 .. (IF Len(data) > offset[c] THEN Len(data) ELSE offset[c] + 1) |->
        IF i = offset[c] + 1 THEN c ELSE IF i <= Len(data) THEN data[i] ELSE Hole]

WriteChunk(c) == dest' = [dest EXCEPT ![Place(c)].data = Written(c, @)]

CopyChunk(c) ==
    /\ Active(c)
    /\ phase[c] = "copy"
    /\ ~Abandons(c)
    /\ offset[c] < Source(c)[current[c]].size
    /\ WriteChunk(c)
    /\ offset' = [offset EXCEPT ![c] = @ + 1]
    /\ UNCHANGED <<req, phase, root, todo, current, files, cancelled, stuck, history>>

\* Mutation: an error of Write goes unnoticed.
WriteFailsUnnoticed(c) ==
    /\ Active(c)
    /\ phase[c] = "copy"
    /\ ~Abandons(c)
    /\ offset[c] < Source(c)[current[c]].size
    /\ WriteChunk(c) \/ UNCHANGED dest
    /\ offset' = [offset EXCEPT ![c] = @ + 1]
    /\ UNCHANGED <<req, phase, root, todo, current, files, cancelled, stuck, history>>

\* Mutation: the file is counted before the error is looked at.
WriteFailsCounts(c) ==
    /\ Active(c)
    /\ phase[c] = "copy"
    /\ ~Abandons(c)
    /\ offset[c] < Source(c)[current[c]].size
    /\ WriteChunk(c) \/ UNCHANGED dest
    /\ files' = [files EXCEPT ![c] = @ + 1]
    /\ Goto(c, "failed")
    /\ UNCHANGED <<req, root, todo, current, offset, cancelled, stuck, history>>

\* Mutation: after an error the file is written from its start again.
WriteFailsRestarts(c) ==
    /\ Active(c)
    /\ phase[c] = "copy"
    /\ ~Abandons(c)
    /\ offset[c] < Source(c)[current[c]].size
    /\ WriteChunk(c) \/ UNCHANGED dest
    /\ offset' = [offset EXCEPT ![c] = 0]
    /\ UNCHANGED <<req, phase, root, todo, current, files, cancelled, stuck, history>>

\* A write fails that has, or has not, reached the file.
WriteFails(c) ==
    /\ Active(c)
    /\ phase[c] = "copy"
    /\ ~Abandons(c)
    /\ offset[c] < Source(c)[current[c]].size
    /\ WriteChunk(c) \/ UNCHANGED dest
    /\ Goto(c, "failed")
    /\ UNCHANGED <<req, root, todo, current, offset, files, cancelled, stuck, history>>

\* Mutation: the walk does not notice that nothing is left.
FileDoneWalksOn(c) ==
    /\ files' = [files EXCEPT ![c] = @ + 1]
    /\ todo' = [todo EXCEPT ![c] = @ \ {current[c]}]
    /\ Goto(c, "walk")

\* The file is counted when nothing is left to be done to it.
FileDone(c) ==
    /\ files' = [files EXCEPT ![c] = @ + 1]
    /\ GoOn(c, todo[c] \ {current[c]})

\* Read reports the end of the file, and Close that the data has landed.
Close(c) ==
    /\ Active(c)
    /\ phase[c] = "copy"
    /\ ~Abandons(c)
    /\ offset[c] = Source(c)[current[c]].size
    /\ \/ req[c].op = "upload" /\ Goto(c, "chmod") /\ UNCHANGED <<files, todo>>
       \/ req[c].op = "download" /\ FileDone(c)
       \/ req[c].op = "write" /\ GoOn(c, {}) /\ UNCHANGED files
    /\ UNCHANGED <<req, root, current, offset, dest, cancelled, stuck, history>>

Chmod(c) ==
    /\ Active(c)
    /\ phase[c] = "chmod"
    /\ dest' = [dest EXCEPT ![Place(c)].perm = Source(c)[current[c]].perm]
    /\ FileDone(c)
    /\ UNCHANGED <<req, root, current, offset, cancelled, stuck, history>>

\* An operation fails, and the call ends where it stands.
Fail(c) ==
    /\ Active(c)
    /\ phase[c] # "check"
    /\ Goto(c, "failed")
    /\ UNCHANGED <<req, root, todo, current, offset, files, dest, cancelled, stuck, history>>

\* The caller withdraws: only uploads and downloads look at their context.
Cancel(c) ==
    /\ phase[c] \notin Ended
    /\ IsTransfer(c)
    /\ c \in Cancellable \ cancelled
    /\ cancelled' = cancelled \union {c}
    /\ UNCHANGED <<req, phase, root, todo, current, offset, files, dest, stuck, history>>

\* An operation never returns; those that close what an abandoned call has open do.
Hang(c) ==
    /\ Active(c)
    /\ ~Abandons(c)
    /\ c \in Hanging
    /\ stuck' = stuck \union {c}
    /\ UNCHANGED <<req, phase, root, todo, current, offset, files, dest, cancelled, history>>

Step(c) ==
    \/ Begin(c) \/ VisitDir(c) \/ SkipIrregular(c) \/ Check(c) \/ CheckFails(c)
    \/ BeginWrite(c) \/ Create(c) \/ CopyChunk(c) \/ WriteFails(c) \/ Close(c) \/ Chmod(c)
    \/ Fail(c)

Next == \E c \in Calls : Step(c) \/ Cancel(c) \/ Hang(c)

Spec == Init /\ [][Next]_vars

\* A goroutine whose operation returns goes on.
FairSpec == Spec /\ \A c \in Calls : WF_vars(Step(c))

-----------------------------------------------------------------------------
\* write_file has one file to write, like an upload or a download of a file.
Walks(c) == req[c].op # "write" /\ IsTree(c)

\* The regular files that a call is to write.  An upload leaves a root that is a
\* symbolic link alone, as it leaves all links.
ToWrite(c) ==
    IF ~Walks(c) THEN {<<>>}
    ELSE {p \in DOMAIN Source(c) : Source(c)[p].kind = "file" /\ Enters(c, <<>>)}

\* The destination holds all of the file, and nothing else.  Its mode is that of
\* the source after an upload, and what the umask leaves of it if a download has
\* created the file.
Delivered(c, p) ==
    LET node == dest[Target(c, p)] IN
    /\ IsFile(node)
    /\ node.data = [i \in 1 .. Source(c)[p].size |-> c]
    /\ \/ req[c].op = "write"
       \/ req[c].op = "download" /\ <<c, Target(c, p)>> \in replaced
       \/ req[c].op = "download" /\ node.perm = Masked[Source(c)[p].perm]
       \/ req[c].op = "upload" /\ node.perm = Source(c)[p].perm

Disputed(c, p) == <<c, Target(c, p)>> \in clash

\* A call that reports success has delivered every regular file of its source
\* (scp_ops.go:142-158, 255-266, 290-295), however many calls and failures come
\* between, except where another call had the same file open or opened it later.
SuccessIsComplete ==
    \A c \in Calls :
        phase[c] = "ok" =>
            \A p \in ToWrite(c) : Delivered(c, p) \/ Disputed(c, p)

\* "overwrite defaults to false, so a call cannot clobber an existing file by
\* accident" (README.md:228): what was there when an upload or a download without
\* overwrite began is not truncated by it, unless a Stat has failed.
ExistingFilesAreSafe ==
    \A c \in Calls, q \in Places :
        <<c, q>> \in replaced /\ IsTransfer(c) /\ ~req[c].overwrite =>
            q \notin existed[c] \/ c \in blind

\* stats.Files, which the message of a failed call reports as already written
\* (mcp_server.go:546-550): so many files are complete, and beyond them the call
\* has left at most one that is not.
ReportIsAccurate ==
    \A c \in Calls :
        LET mine == {p \in ToWrite(c) : <<c, Target(c, p)>> \in created}
            complete == {p \in mine : Delivered(c, p) \/ Disputed(c, p)}
        IN  IsTransfer(c) =>
                /\ files[c] <= Cardinality(complete)
                /\ Cardinality(mine) <= files[c] + 1

\* Every call ends, whatever the other calls do, unless one of its own operations
\* never returns.
CallEnds == \A c \in Calls : phase[c] = "new" ~> (phase[c] \in Ended \/ c \in stuck)

\* "Permissions are preserved in both directions" (README.md:230).
PermissionsArePreserved ==
    \A c \in Calls :
        phase[c] = "ok" /\ IsTransfer(c) =>
            \A p \in ToWrite(c) :
                Disputed(c, p) \/ dest[Target(c, p)].perm = Source(c)[p].perm
=============================================================================
