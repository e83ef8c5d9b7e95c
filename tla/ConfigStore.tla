----------------------------- MODULE ConfigStore -----------------------------
(***************************************************************************)
(* The configuration file and the aliases file generated from it, edited   *)
(* by several CLI processes and MCP tool calls.  Every edit loads the      *)
(* file, changes the copy in memory, writes the whole file back and then   *)
(* regenerates the aliases from its copy.  Nothing locks the file, and     *)
(* os.WriteFile truncates it before it writes.                             *)
(***************************************************************************)
EXTENDS ConfigEdits

CONSTANTS
    Editors,    \* command invocations and tool calls that edit
    Tasks,      \* what they may be asked to do
    Configs,    \* what the file may hold at first
    Missing,    \* there is no file
    Empty,      \* the file has been truncated
    Corrupt     \* the file does not parse

ASSUME TasksAssumption == Tasks \subseteq Task
ASSUME FileAssumption ==
    /\ Configs \subseteq Config \union {Missing, Corrupt}
    /\ {Missing, Empty, Corrupt} \intersect Config = {}
    /\ Missing \notin {Empty, Corrupt}
    /\ Empty # Corrupt

VARIABLES
    task,       \* what each editor was asked to do
    file,       \* the configuration file
    aliases,    \* the aliases file
    phase,      \* where each editor stands
    copy,       \* cfg, the configuration in each editor's memory
    stopped,    \* the editors that died, or whose write failed
    disturbed,  \* history: two edits have overlapped, or one was cut short
    mixed       \* history: the last save to truncate the file met another one that
                \* had truncated it and not written yet

vars == <<task, file, aliases, phase, copy, stopped, disturbed, mixed>>

Phases == {"idle", "loaded", "truncated", "saved", "done", "failed"}

TypeOK ==
    /\ task \in [Editors -> Tasks]
    /\ file \in Config \union {Missing, Empty, Corrupt}
    /\ aliases \in AliasFile \union {Missing}
    /\ phase \in [Editors -> Phases]
    /\ copy \in [Editors -> Config]
    /\ stopped \subseteq Editors
    /\ disturbed \in BOOLEAN
    /\ mixed \in BOOLEAN

Init ==
    /\ task \in [Editors -> Tasks]
    /\ file \in Configs
    /\ aliases = IF file \in Config THEN Aliases(file) ELSE Missing
    /\ phase = [e \in Editors |-> "idle"]
    /\ copy = [e \in Editors |-> EmptyConfig]
    /\ stopped = {}
    /\ disturbed = FALSE
    /\ mixed = FALSE

Active(e) == e \notin stopped /\ phase[e] \notin {"idle", "done", "failed"}

\* The history variable, when an edit starts.
NoteOverlap == disturbed' = (disturbed \/ \E d \in Editors : Active(d))

Goto(e, where) == phase' = [phase EXCEPT ![e] = where]

-----------------------------------------------------------------------------
\* Mutation: any error of loadConfig counts as a missing file.
UsableLax(e) == file \in Config \/ StartsFromNothing(task[e])

\* Only a missing file counts as an empty configuration.
Usable(e) == file \in Config \/ (file = Missing /\ StartsFromNothing(task[e]))

Loaded == IF file \in Config THEN file ELSE EmptyConfig

\* Mutation: add and import always start from an empty configuration.
LoadAnew(e) ==
    LET base == IF StartsFromNothing(task[e]) THEN EmptyConfig ELSE Loaded IN
    /\ e \notin stopped
    /\ phase[e] = "idle"
    /\ NoteOverlap
    /\ Usable(e)
    /\ ~Rejected(task[e], base)
    /\ copy' = [copy EXCEPT ![e] = Edited(task[e], base)]
    /\ Goto(e, IF task[e].op = "sync" THEN "saved" ELSE "loaded")
    /\ UNCHANGED <<task, file, aliases, stopped, mixed>>

Load(e) ==
    /\ e \notin stopped
    /\ phase[e] = "idle"
    /\ NoteOverlap
    /\ Usable(e)
    /\ ~Rejected(task[e], Loaded)
    /\ copy' = [copy EXCEPT ![e] = Edited(task[e], Loaded)]
    /\ Goto(e, IF task[e].op = "sync" THEN "saved" ELSE "loaded")
    /\ UNCHANGED <<task, file, aliases, stopped, mixed>>

Refused(e) ==
    /\ e \notin stopped
    /\ phase[e] = "idle"
    /\ NoteOverlap
    /\ ~Usable(e) \/ Rejected(task[e], Loaded)
    /\ Goto(e, "failed")
    /\ UNCHANGED <<task, file, aliases, copy, stopped, mixed>>

\* saveConfig: os.WriteFile opens the file with O_TRUNC ...
Truncate(e) ==
    /\ e \notin stopped
    /\ phase[e] = "loaded"
    /\ file' = Empty
    /\ mixed' = \E d \in Editors \ stopped : phase[d] = "truncated"
    /\ Goto(e, "truncated")
    /\ UNCHANGED <<task, aliases, copy, stopped, disturbed>>

\* Mutation: nothing is written to the truncated file.
WriteNothing(e) ==
    /\ e \notin stopped
    /\ phase[e] = "truncated"
    /\ Goto(e, IF SyncsAliases(task[e]) THEN "saved" ELSE "done")
    /\ UNCHANGED <<task, file, aliases, copy, stopped, disturbed, mixed>>

\* ... and writes from offset 0.  If another editor has written since the
\* truncation, the tail of a longer text stays behind this one.
Write(e) ==
    /\ e \notin stopped
    /\ phase[e] = "truncated"
    /\ \/ file' = copy[e]
       \/ file # Empty /\ file' = Corrupt
    /\ Goto(e, IF SyncsAliases(task[e]) THEN "saved" ELSE "done")
    /\ UNCHANGED <<task, aliases, copy, stopped, disturbed, mixed>>

\* The aliases are generated from the copy in memory.
SyncAliasesFile(e) ==
    /\ e \notin stopped
    /\ phase[e] = "saved"
    /\ aliases' = Aliases(copy[e])
    /\ Goto(e, "done")
    /\ UNCHANGED <<task, file, copy, stopped, disturbed, mixed>>

\* The process dies, or the disk is full: the edit ends where it stands.
Stop(e) ==
    /\ Active(e)
    /\ stopped' = stopped \union {e}
    /\ disturbed' = TRUE
    /\ UNCHANGED <<task, file, aliases, phase, copy, mixed>>

Edit(e) ==
    Load(e) \/ Refused(e) \/ Truncate(e) \/ Write(e) \/ SyncAliasesFile(e) \/ Stop(e)

Next == \E e \in Editors : Edit(e)

Spec == Init /\ [][Next]_vars

-----------------------------------------------------------------------------
\* "not overwriting it" (mcp_server.go:604, auth_fallback_test.go:300): once the
\* file does not parse and no edit that has loaded an earlier version is under
\* way, no edit of any kind changes it any more (mcp_server.go:601-607, 687-690,
\* main.go:331-337, 420-426, 645-648, 718-724).
Unusable ==
    /\ file \in {Empty, Corrupt}
    /\ \A e \in Editors \ stopped : phase[e] \notin {"loaded", "truncated"}

BrokenConfigIsKept == [][Unusable => Unusable' /\ file' = file]_vars

\* The file is unusable only for a cause (config.go:117).  It is empty only while a
\* save is under way, or when one was cut short.  It does not parse only if it did
\* not from the start, or if saves have overlapped, each in the middle of the
\* other, since the file was last truncated by a save that had it to itself.
UnusableForACause ==
    /\ file = Empty => \E e \in Editors : phase[e] = "truncated"
    /\ file = Corrupt => mixed \/ Corrupt \in Configs

\* As long as edits come one at a time and none is cut short, each is applied
\* as a whole to what the one before has left: the store implements Registry.
\* An edit takes effect when it truncates the file.
Mapped ==
    IF \E e \in Editors : phase[e] = "truncated"
    THEN copy[CHOOSE e \in Editors : phase[e] = "truncated"]
    ELSE Loaded

Finished == {e \in Editors : phase[e] \notin {"idle", "loaded"}}

Abstract == INSTANCE Registry WITH registry <- Mapped, finished <- Finished

IsRegistry == Abstract!Spec

\* "Any kgssh add, kgssh remove, or MCP mutation automatically refreshes
\* ~/.kgssh/aliases.sh" (README.md:24): when no edit is under way, the aliases
\* are those of the configuration, unless edits have overlapped or one was cut
\* short.
AliasesInSync ==
    /\ ~disturbed
    /\ \A e \in Editors : phase[e] \in {"idle", "done", "failed"}
    /\ file \in Config
    => aliases = Aliases(file)

\* "Preserves connection details and only modifies fields that are explicitly
\* provided" (mcp_server.go:183): saving an update_server_info leaves what the
\* aliases tell of the configuration as it is in the file at that moment.
InfoPreservesConnections ==
    [][\A e \in Editors :
          Truncate(e) /\ task[e].op = "info" /\ file \in Config =>
              Aliases(copy[e]) = Aliases(file)]_vars
=============================================================================
