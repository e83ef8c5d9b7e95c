------------------------------- MODULE Entries -------------------------------
(***************************************************************************)
(* One alias through its life: the commands and tools that write its       *)
(* entry, and the two ways to connect to it.  The CLI runs and prints an   *)
(* ssh command and leaves the rest to OpenSSH; the MCP tools dial with a   *)
(* native client, for which ssh_config is asked with `ssh -G`.  Both       *)
(* depend on what ssh_config says and on the key files there are, which    *)
(* change as well.                                                         *)
(*                                                                         *)
(* Commands do not overlap here (ConfigStore has that), and facts of       *)
(* ssh_config are fresh (SSHConfigCache has the cache).  What ssh_config   *)
(* says of a name is one block, as if no pattern matched two names.  An    *)
(* identity flag among the extra arguments comes with its path.            *)
(***************************************************************************)
EXTENDS Naturals, SequencesExt

CONSTANTS
    AliasName,          \* the name of the alias, which can be a host name too
    Root, LocalUser,    \* login names
    Values,             \* hosts, login names, passwords and the like, and None
    Args,               \* extra arguments; a flag and its path are one
    Requests,           \* what an update may state
    SSHConfigs,         \* what ssh_config may say of each name
    SSHDefaults,        \* the key files of ssh when ssh_config names none
    Infos,              \* playbooks
    Files,              \* the files that may hold keys
    Disks,              \* the sets of them that may be there
    Spots,              \* the files that are tried for each path, in order
    Fallback,           \* the file that is read for a path when those cannot be, or None
    Key,                \* the key in each file, or Unreadable, or NoAccess to the file
    Agent,              \* the keys of the agent
    DefaultNames,       \* the paths tried for every server, in order
    None, NoEntry, Unreadable, NoAccess

Fields == {"user", "port", "password", "identity", "jump", "description"}
IdentityFlags == {"-i", "--identity-file"}

\* A request states a host, and None, 0 or <<>> where it states nothing.
Unset(f) == IF f = "port" THEN 0 ELSE None

Path == DOMAIN Spots \union {None}

Request ==
    [host : Values, user : Values, port : Nat, password : Values, identity : Path,
     jump : Values, description : Values, extra : Seq(Args)]

Entry ==
    [host : Values, user : Values, port : Nat, password : Values, identity : Path,
     jump : Values, description : Values, extra : Seq(Args), info : Infos \union {None}]

Block ==
    [host : Values, user : Values, port : Nat, identities : Seq(DOMAIN Spots), jump : Values]

ASSUME ValuesAssumption ==
    /\ {None, AliasName, Root, LocalUser} \subseteq Values
    /\ [flag : IdentityFlags, path : DOMAIN Spots] \subseteq Args
    /\ NoEntry \notin Entry \union Request
ASSUME RequestsAssumption == Requests \subseteq Request /\ \A r \in Requests : r.host # None
ASSUME SSHConfigsAssumption ==
    SSHConfigs \subseteq [Values -> Block] /\ SSHDefaults \in Seq(DOMAIN Spots)
ASSUME KeysAssumption ==
    /\ \A p \in DOMAIN Spots : Spots[p] \in Seq(Files) /\ Spots[p] # <<>>
    /\ Fallback \in [DOMAIN Spots -> Files \union {None}]
    /\ DOMAIN Key = Files /\ Disks \subseteq SUBSET Files
    /\ DefaultNames \in Seq(DOMAIN Spots) /\ Agent \in Seq(ToSet(Agent))
    /\ None \notin Files \union DOMAIN Spots

VARIABLES
    entry,      \* the alias's entry in the configuration, or NoEntry
    sshConfig,  \* what ssh_config says of each name
    disk,       \* the key files that are there
    said        \* history: what was last stated of each field

vars == <<entry, sshConfig, disk, said>>

-----------------------------------------------------------------------------
\* Writing the entry.

Old(f) == IF entry = NoEntry THEN Unset(f) ELSE entry[f]
OldExtra == IF entry = NoEntry THEN <<>> ELSE entry.extra
OldInfo == IF entry = NoEntry THEN None ELSE entry.info

Orelse(f, value, kept) == IF value = Unset(f) THEN kept ELSE value

\* What has been said, once r is.
Said(r) ==
    [f \in Fields \union {"host", "extra"} |->
        CASE f = "host" -> r.host
          [] f = "extra" -> IF r.extra = <<>> /\ said # NoEntry THEN said.extra ELSE r.extra
          [] OTHER -> IF r[f] = Unset(f) /\ said # NoEntry THEN said[f] ELSE r[f]]

\* What an update keeps of the entry there is.
Merged(r) ==
    [host |-> r.host,
     user |-> Orelse("user", r.user, Old("user")),
     port |-> Orelse("port", Orelse("port", r.port, Old("port")), 22),
     password |-> Orelse("password", r.password, Old("password")),
     identity |-> Orelse("identity", r.identity, Old("identity")),
     jump |-> Orelse("jump", r.jump, Old("jump")),
     description |-> Orelse("description", r.description, Old("description")),
     extra |-> IF r.extra = <<>> THEN OldExtra ELSE r.extra,
     info |-> OldInfo]

\* `kgssh add`.
Add(r) ==
    /\ entry' = Merged(r)
    /\ said' = Said(r)
    /\ UNCHANGED <<sshConfig, disk>>

\* Mutation: the flag is appended whatever is there.
WithIdentityAlways(extra, path) == Append(extra, [flag |-> "-i", path |-> path])

\* An -i that is there is left as it is, whatever path it has.
WithIdentity(extra, path) ==
    IF \E i \in DOMAIN extra : extra[i] \in [flag : {"-i"}, path : DOMAIN Spots]
    THEN extra ELSE Append(extra, [flag |-> "-i", path |-> path])

\* add_server, which has no argument for a jump host or a description.
AddServer(r) ==
    LET merged == Merged(r)
        user == IF entry = NoEntry THEN Orelse("user", r.user, Root) ELSE merged.user
        extra == IF r.identity = None THEN merged.extra
                 ELSE WithIdentity(merged.extra, r.identity)
    IN  /\ r.jump = None /\ r.description = None
        /\ entry' = [merged EXCEPT !.user = user, !.extra = extra]
        /\ said' = Said(r)
        /\ UNCHANGED <<sshConfig, disk>>

\* Mutation: the entry is emptied and its name stays.
RemoveServerBlanks ==
    /\ entry # NoEntry
    /\ entry' = [entry EXCEPT !.host = None]
    /\ said' = NoEntry
    /\ UNCHANGED <<sshConfig, disk>>

RemoveServer ==
    /\ entry # NoEntry
    /\ entry' = NoEntry
    /\ said' = NoEntry
    /\ UNCHANGED <<sshConfig, disk>>

UpdateServerInfo(info) ==
    /\ entry # NoEntry
    /\ entry' = [entry EXCEPT !.info = info]
    /\ UNCHANGED <<sshConfig, disk, said>>

\* The Host block as the importer reads it: the last IdentityFile counts.
Copied ==
    LET block == sshConfig[AliasName] IN
    [host |-> IF block.host = None THEN AliasName ELSE block.host,
     user |-> block.user, port |-> block.port, password |-> None,
     identity |-> IF block.identities = <<>> THEN None ELSE Last(block.identities),
     jump |-> block.jump, description |-> None, extra |-> <<>>]

\* import-ssh-config copies the block; an entry that is there needs --overwrite.
ImportCopy(overwrite) ==
    /\ entry = NoEntry \/ overwrite
    /\ entry' = [host |-> Copied.host, user |-> Copied.user, port |-> Copied.port,
                 password |-> None, identity |-> Copied.identity, jump |-> Copied.jump,
                 description |-> None, extra |-> <<>>, info |-> None]
    /\ said' = Copied
    /\ UNCHANGED <<sshConfig, disk>>

\* With --link only what ssh_config cannot express is kept.
ImportLink(overwrite) ==
    /\ entry = NoEntry \/ overwrite
    /\ entry' = [host |-> None, user |-> None, port |-> 0, password |-> None,
                 identity |-> None, jump |-> None, description |-> Old("description"),
                 extra |-> OldExtra, info |-> OldInfo]
    /\ said' = [host |-> None, user |-> None, port |-> 0, password |-> None,
                identity |-> None, jump |-> None,
                description |-> IF said = NoEntry THEN None ELSE said.description,
                extra |-> IF said = NoEntry THEN <<>> ELSE said.extra]
    /\ UNCHANGED <<sshConfig, disk>>

\* The user takes the host out of an entry, whose other fields stay.
OmitHost ==
    /\ entry # NoEntry
    /\ entry.host # None
    /\ entry' = [entry EXCEPT !.host = None]
    /\ said' = [said EXCEPT !.host = None]
    /\ UNCHANGED <<sshConfig, disk>>

\* The user edits ssh_config, or moves key files.
EditSSHConfig ==
    sshConfig' \in SSHConfigs \ {sshConfig} /\ UNCHANGED <<entry, disk, said>>
MoveKeys == disk' \in Disks \ {disk} /\ UNCHANGED <<entry, sshConfig, said>>

Init ==
    /\ entry = NoEntry
    /\ sshConfig \in SSHConfigs
    /\ disk \in Disks
    /\ said = NoEntry

Next ==
    \/ \E r \in Requests : Add(r) \/ AddServer(r)
    \/ RemoveServer
    \/ \E info \in Infos : UpdateServerInfo(info)
    \/ \E overwrite \in BOOLEAN : ImportCopy(overwrite) \/ ImportLink(overwrite)
    \/ OmitHost
    \/ EditSSHConfig
    \/ MoveKeys

Spec == Init /\ [][Next]_vars

-----------------------------------------------------------------------------
\* The elements of s at the positions, in order.
At(s, positions) ==
    LET place(i) == Cardinality({j \in positions : j <= i})
    IN  [k \in 1 .. Cardinality(positions) |-> s[CHOOSE i \in positions : place(i) = k]]

\* Keys.

\* The first of the files for the path that is there, or the path as it is.
resolveKeyPath(path) ==
    LET there == {i \in DOMAIN Spots[path] : Spots[path][i] \in disk}
    IN  IF there = {} THEN Spots[path][1] ELSE Spots[path][Min(there)]

CanRead(file) == file \in disk /\ Key[file] # NoAccess

\* The file that loadSSHPrivateKey reads for the path, or None: the resolved one, the
\* path as it is, or the fallback for a bare name.
Source(path) ==
    LET tried == <<resolveKeyPath(path), Spots[path][1], Fallback[path]>>
        readable == {i \in 1 .. 3 : CanRead(tried[i])}
    IN  IF readable = {} THEN None ELSE tried[Min(readable)]

\* A file that is read and does not parse is an error, whatever else there is.
Loads(path) == Source(path) # None /\ Key[Source(path)] # Unreadable

KeysOf(paths) == [i \in DOMAIN paths |-> Key[Source(paths[i])]]

IsIdentity(arg) == arg \in [flag : IdentityFlags, path : DOMAIN Spots]

IdentityArgs(e) ==
    LET args == At(e.extra, {i \in DOMAIN e.extra : IsIdentity(e.extra[i])})
    IN  [i \in DOMAIN args |-> args[i].path]

\* The paths that an entry names, in order.
Named(e) == (IF e.identity = None THEN <<>> ELSE <<e.identity>>) \o IdentityArgs(e)

ResolvedIdentity(e) == IF Named(e) = <<>> THEN None ELSE resolveKeyPath(Named(e)[1])

\* Mutation: keys are offered as often as they are found.
dedupeSignersNot(keys) == keys

\* Each key where it occurs first.
dedupeSigners(keys) ==
    LET got[i \in 0 .. Len(keys)] ==
            IF i = 0 THEN <<>>
            ELSE IF keys[i] \in ToSet(got[i - 1]) THEN got[i - 1]
            ELSE Append(got[i - 1], keys[i])
    IN  got[Len(keys)]

\* Those of the paths whose keys can be loaded.
Loaded(paths) == At(paths, {i \in DOMAIN paths : Loads(paths[i])})

\* Mutation: the agent's keys come first.
SignersAgentFirst(e) ==
    dedupeSigners(Agent \o KeysOf(Named(e)) \o KeysOf(Loaded(DefaultNames)))

\* The keys that the native client offers: those named, those of the agent and
\* those with a usual name.
Signers(e) ==
    dedupeSigners(KeysOf(Named(e)) \o Agent \o KeysOf(Loaded(DefaultNames)))

-----------------------------------------------------------------------------
\* Connecting.

DelegatesToSSHConfig(e) == e.host = None

\* What OpenSSH makes of a name that is given to it, and prints of it for `ssh -G`.
SSHDashG(name) ==
    LET block == sshConfig[name] IN
    [host |-> IF block.host = None THEN name ELSE block.host,
     user |-> IF block.user = None THEN LocalUser ELSE block.user,
     port |-> IF block.port = 0 THEN 22 ELSE block.port,
     identities |-> IF block.identities = <<>> THEN SSHDefaults ELSE block.identities,
     jump |-> block.jump]

\* Mutation: a port of 22 is always left out.
BuildSSHArgsNo22(e) ==
    [port |-> IF e.port = 22 THEN 0 ELSE e.port,
     identity |-> ResolvedIdentity(e), jump |-> e.jump, user |-> e.user,
     name |-> IF DelegatesToSSHConfig(e) THEN AliasName ELSE e.host]

\* The ssh command of the entry; its other extra arguments are as they are.
BuildSSHArgs(e) ==
    [port |-> IF e.port # 22 \/ DelegatesToSSHConfig(e) THEN e.port ELSE 0,
     identity |-> ResolvedIdentity(e), jump |-> e.jump, user |-> e.user,
     name |-> IF DelegatesToSSHConfig(e) THEN AliasName ELSE e.host]

\* Where that command connects to, and the files of the keys it is told to use: that
\* of -i (and after it those of ssh_config, which are left out), or ssh_config's.
OpenSSH(args) ==
    LET config == SSHDashG(args.name) IN
    [host |-> config.host,
     user |-> IF args.user = None THEN config.user ELSE args.user,
     port |-> IF args.port = 0 THEN config.port ELSE args.port,
     files |-> IF args.identity # None THEN <<args.identity>>
               ELSE [i \in DOMAIN config.identities |-> Spots[config.identities[i]][1]]]

Unresolved(e) == DelegatesToSSHConfig(e) /\ SSHDashG(AliasName).host = AliasName

\* The first IdentityFile of ssh_config, or of ssh's own, that is there.
ExistingIdentity ==
    LET paths == SSHDashG(AliasName).identities
        there == {i \in DOMAIN paths : Spots[paths[i]][1] \in disk}
    IN  IF there = {} THEN None ELSE paths[Min(there)]

\* What an entry leaves open is filled in from ssh_config.
Effective(e) ==
    LET target == SSHDashG(AliasName) IN
    IF ~DelegatesToSSHConfig(e) THEN e
    ELSE [e EXCEPT !.host = target.host,
                   !.user = Orelse("user", @, target.user),
                   !.port = Orelse("port", @, target.port),
                   !.jump = Orelse("jump", @, target.jump),
                   !.identity = IF ResolvedIdentity(e) = None THEN ExistingIdentity ELSE @]

\* buildSSHClientConfig gives up when one of the named keys cannot be loaded.
CanDial(e) == ~Unresolved(e) /\ \A i \in DOMAIN Named(Effective(e)) : Loads(Named(Effective(e))[i])

\* Where dialEntry connects to; it offers the keys of Signers(Effective(e)).  It takes
\* no notice of the jump host and of other extra arguments.
Native(e) ==
    LET full == Effective(e) IN
    [host |-> full.host, user |-> full.user,
     port |-> IF full.port = 0 THEN 22 ELSE full.port]

-----------------------------------------------------------------------------
TypeOK ==
    /\ entry \in Entry \union {NoEntry}
    /\ said \in Request \union {NoEntry}
    /\ sshConfig \in SSHConfigs
    /\ disk \in Disks
    /\ entry = NoEntry <=> said = NoEntry

\* "so updating a server doesn't reset them" (mcp_server.go:588-589): whatever
\* sequence of commands and tools has written an entry, it has what was last
\* stated of each field, or else a default, and add_server has appended no more
\* than one -i to its arguments.
LastWordCounts ==
    entry # NoEntry =>
        /\ entry.host = said.host
        /\ \A f \in Fields :
              entry[f] = IF said[f] # Unset(f) THEN said[f]
                         ELSE IF f = "user" /\ entry.user = Root THEN Root
                         ELSE IF f = "port" /\ entry.port = 22 THEN 22
                         ELSE Unset(f)
        /\ IsPrefix(said.extra, entry.extra)
        /\ Len(entry.extra) <= Len(said.extra) + 1

\* The ssh command of an alias and the tools connect to the same host and port as
\* the same user (alias.go:19-53, config.go:237-280).  For an entry with a host of its
\* own, which the tools do not look up in ssh_config, they agree on the host unless
\* ssh_config takes it for another; on the port if the entry states one other than 22
\* or ssh_config has none other than 22 for that host; on the user if it states one.
SameDestination ==
    entry # NoEntry /\ ~Unresolved(entry) =>
        LET ssh == OpenSSH(BuildSSHArgs(entry))
            native == Native(entry)
            linked == DelegatesToSSHConfig(entry)
            config == SSHDashG(entry.host)
        IN  /\ linked \/ config.host = entry.host => native.host = ssh.host
            /\ linked \/ entry.port \notin {0, 22} \/ config.port = 22 => native.port = ssh.port
            /\ linked \/ entry.user # None => native.user = ssh.user

\* For an entry that names a key or is linked, the key that the tools offer first is
\* the one that the ssh command names or, when it names none, the first one of
\* ssh_config or ssh's own that is there, if that file is there and can be read.
SameKeyFirst ==
    entry # NoEntry /\ CanDial(entry) /\ (Named(entry) # <<>> \/ DelegatesToSSHConfig(entry)) =>
        LET files == OpenSSH(BuildSSHArgs(entry)).files
            there == {i \in DOMAIN files : files[i] \in disk}
        IN  there # {} /\ CanRead(files[Min(there)]) =>
                Signers(Effective(entry))[1] = Key[files[Min(there)]]

\* "so the same key isn't offered twice" (legacy_ssh.go:112-113), and every key
\* that can be had is offered once.
EveryKeyOnce ==
    entry # NoEntry /\ CanDial(entry) =>
        LET keys == Signers(Effective(entry))
            paths == ToSet(Named(Effective(entry)) \o DefaultNames)
        IN  /\ IsInjective(keys)
            /\ ToSet(keys) = ToSet(Agent) \union
                   {Key[Source(path)] : path \in {p \in paths : Loads(p)}}
=============================================================================
