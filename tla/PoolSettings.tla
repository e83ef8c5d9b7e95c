----------------------------- MODULE PoolSettings -----------------------------
(***************************************************************************)
(* The connection pool together with those who change what a connection    *)
(* should be dialed with: the add_server and remove_server tools, which    *)
(* close the pooled connection and then save the file, CLI processes,      *)
(* which save the file only, and the user who edits ~/.ssh/config, from    *)
(* which linked entries take their settings when they are dialed.          *)
(***************************************************************************)
EXTENDS SSHPool

CONSTANTS
    Edits,      \* calls of add_server and remove_server
    Facts       \* what ssh_config can say of a server

VARIABLES
    facts,      \* what ResolveSSHConfig answers for each server by now
    dialedWith, \* the facts each connection was dialed with
    during,     \* the facts there have been during each invocation
    stage,      \* where each edit stands
    target,     \* the server it adds or removes
    new,        \* the entry it saves, or NoEntry for remove_server
    loaded,     \* the entries it has loaded
    excused     \* connections that a race, or an edit elsewhere, left behind

allVars == <<vars, facts, dialedWith, during, stage, target, new, loaded, excused>>
editVars == <<stage, target, new, loaded>>

SettingsTypeOK ==
    /\ TypeOK
    /\ facts \in [Servers -> Facts]
    /\ dialedWith \in [Gets -> Facts]
    /\ during \in [Gets -> SUBSET Facts]
    /\ stage \in [Edits -> {"idle", "loaded", "evicted", "done"}]
    /\ target \in [Edits -> Servers]
    /\ new \in [Edits -> Entries \union {NoEntry}]
    /\ loaded \in [Edits -> [Servers -> Entries \union {NoEntry}]]
    /\ excused \subseteq Gets

SettingsInit ==
    /\ Init
    /\ facts \in [Servers -> Facts]
    /\ dialedWith = [g \in Gets |-> facts[server[g]]]
    /\ during = [g \in Gets |-> {}]
    /\ stage = [a \in Edits |-> "idle"]
    /\ target \in [Edits -> Servers]
    /\ new \in [Edits -> Entries \union {NoEntry}]
    /\ loaded = [a \in Edits |-> entries]
    /\ excused = {}

\* The invocation works with settings it has loaded and not dialed or published.
InFlight(g) == pc[g] \notin {"idle", "returned"}

\* A linked entry is resolved after the pool was consulted, when it is dialed.
PoolCall(g) ==
    /\ GetClient(g)
    /\ during' = IF pc[g] = "idle" THEN [during EXCEPT ![g] = {facts[server[g]]}] ELSE during
    /\ dialedWith' = IF pc[g] = "connect"
                     THEN [dialedWith EXCEPT ![g] = facts[server[g]]] ELSE dialedWith
    /\ excused' = IF /\ pc[g] = "publish"
                     /\ ret'[g] = g
                     /\ \E a \in Edits : stage[a] = "evicted" /\ target[a] = server[g]
                  THEN excused \union {g} ELSE excused
    /\ UNCHANGED <<facts, editVars>>

-----------------------------------------------------------------------------
\* handleAddServer and handleRemoveServer; removing an unknown name saves nothing.
LoadForEdit(a) ==
    /\ stage[a] = "idle"
    /\ loaded' = [loaded EXCEPT ![a] = entries]
    /\ stage' = [stage EXCEPT ![a] =
                    IF new[a] = NoEntry /\ entries[target[a]] = NoEntry
                    THEN "done" ELSE "loaded"]
    /\ UNCHANGED <<vars, facts, dialedWith, during, target, new, excused>>

\* Mutation: the pooled connection is kept.
CloseEditedKeeps(a) ==
    /\ stage[a] = "loaded"
    /\ stage' = [stage EXCEPT ![a] = "evicted"]
    /\ UNCHANGED <<vars, facts, dialedWith, during, target, new, loaded, excused>>

\* Mutation: the name itself is forgotten, rather than its connection.
CloseEditedName(a) ==
    /\ stage[a] = "loaded"
    /\ clients' = [s \in Servers \ {target[a]} |-> clients[s]]
    /\ stage' = [stage EXCEPT ![a] = "evicted"]
    /\ UNCHANGED <<entries, conn, pc, server, entry, seen, ret>>
    /\ UNCHANGED <<facts, dialedWith, during, target, new, loaded, excused>>

CloseEdited(a) ==
    /\ stage[a] = "loaded"
    /\ Close(target[a])
    /\ stage' = [stage EXCEPT ![a] = "evicted"]
    /\ UNCHANGED <<facts, dialedWith, during, target, new, loaded, excused>>

\* The connections that a save leaves behind: those being dialed with other
\* settings, and those of the servers it changes without having closed them.
LeftBehind(saved, names) ==
    {g \in Gets : InFlight(g) /\ entry[g] # saved[server[g]]}
        \union {g \in Gets : \E s \in names : clients[s] = g /\ saved[s] # entries[s]}

SaveEdited(a) ==
    LET saved == [loaded[a] EXCEPT ![target[a]] = new[a]] IN
    /\ stage[a] = "evicted"
    /\ SaveConfig(saved)
    /\ stage' = [stage EXCEPT ![a] = "done"]
    /\ excused' = excused \union LeftBehind(saved, Servers \ {target[a]})
    /\ UNCHANGED <<facts, dialedWith, during, target, new, loaded>>

\* A CLI process saves the file, without access to this process's pool, or
\* update_server_info does, which closes nothing and saves all that it loaded.
SaveElsewhere ==
    \E saved \in [Servers -> Entries \union {NoEntry}] :
        /\ SaveConfig(saved)
        /\ excused' = excused \union LeftBehind(saved, Servers)
        /\ UNCHANGED <<facts, dialedWith, during, editVars>>

\* ~/.ssh/config was edited, and the cached result of `ssh -G` has expired.
EditSSHConfig(s, fact) ==
    /\ facts' = [facts EXCEPT ![s] = fact]
    /\ during' = [g \in Gets |-> IF InFlight(g) /\ server[g] = s
                               THEN during[g] \union {fact} ELSE during[g]]
    /\ UNCHANGED <<vars, dialedWith, editVars, excused>>

Others ==
    /\ (\E s \in Servers : Close(s)) \/ CloseAll \/ (\E g \in Gets : Network(g))
    /\ UNCHANGED <<facts, dialedWith, during, editVars, excused>>

SettingsNext ==
    \/ \E g \in Gets : PoolCall(g)
    \/ \E a \in Edits : LoadForEdit(a) \/ CloseEdited(a) \/ SaveEdited(a)
    \/ SaveElsewhere
    \/ \E s \in Servers, fact \in Facts : EditSSHConfig(s, fact)
    \/ Others

SettingsSpec == SettingsInit /\ [][SettingsNext]_allVars

-----------------------------------------------------------------------------
\* The pool holds a connection that was not dialed with the entry the file has
\* only if it was published or being dialed while that entry was being saved,
\* or if the save came from another process or carried along another server
\* (mcp_server.go:667-672, 696-701, pool.go:47-97).
OutdatedIsExcused ==
    \A s \in Servers, g \in Gets :
        clients[s] = g /\ entry[g] # entries[s] => g \in excused

\* "connections are resolved with 'ssh -G' at call time, so editing
\* ~/.ssh/config is enough" (main.go:625-626), "ssh_exec ... follow
\* ~/.ssh/config too" (README.md:198-200): a connection that GetClient returns
\* was dialed with what ssh_config has said at some time since the call began.
FollowsSSHConfig ==
    [][\A g \in Gets :
          pc[g] # "returned" /\ pc'[g] = "returned" /\ ret'[g] # NoClient =>
              dialedWith'[ret'[g]] \in during[g]]_allVars
=============================================================================
