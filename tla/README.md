# kgssh in TLA+

kgssh keeps a list of SSH servers in one JSON file, turns it into shell aliases,
and serves it to AI agents as an MCP server that runs commands and moves files
over pooled SSH connections. The modules here model the parts of it where several
actors meet: the connection pool and `ssh_exec` on top of it, the configuration
file that CLI processes and MCP tools edit, the cache of `ssh -G` results, and
the tools that move files; and the parts where long sequences of legal commands
meet: what an entry says in the end, and where it leads to.
Source positions are relative to the repository (`pool.go:71`).

## 1. The system

One `kgssh mcp` process serves tool calls, each on its own goroutine; any number
of `kgssh` commands run next to it. They share `config.json` and
`~/.kgssh/aliases.sh` without any lock. The MCP process alone has the pool.

| Component | State | Operations | Interacts with |
|---|---|---|---|
| connection pool (`pool.go`) | map from server name to connection, behind a mutex | `GetClient`, `Close`, `CloseAll`, `probeClient`, `dialEntry` | every remote tool; reads the configuration file; the network |
| `ssh_exec` (`mcp_server.go:289`, `pool.go:186`) | one session and one timer per call | call, one retry | pool, sshd |
| configuration file (`config.go`, `mcp_server.go`, `main.go`) | `config.json` | add, remove, import, set-keys-dir, update info; load and save | all edits, from several processes; the pool (`add_server` and `remove_server` close a connection) |
| generated aliases (`alias.go`) | `aliases.sh` | `SyncAliasesFile`, `InstallShellHook` | written after each edit |
| ssh_config cache (`sshconfig.go`) | results with a 15 s lifetime, behind a mutex | `ResolveSSHConfig`, `InvalidateSSHConfigCache` | the `ssh` binary; linked entries |
| entry resolution (`config.go`, `alias.go`) | none | `Effective`, `ResolvedIdentity`, `BuildSSHArgs` | cache, key files, OpenSSH |
| keys and authentication (`legacy_ssh.go`) | agent socket | `buildSSHClientConfig`, `dedupeSigners`, `loadSSHPrivateKey` | dialer, key files |
| `test_connection` (`mcp_server.go:355`) | a dedicated connection per target | loop over the servers | dialer, `RunRemoteCommand` |
| SFTP tools and transfers (`sftp_ops.go`, `scp_ops.go`) | transfer statistics | read, write, list, recursive upload and download | pool, remote and local files |
| importer, CLI display commands, runner, argument parsing | none | | |

What makes each of them correct, and what is hard about it:

* Pool: no connection is leaked, none that kgssh closed stays pooled or is
  handed out, and a hung server blocks nobody else. Hard, because the lock is
  released during probe and dial, so two callers interleave there.
* `ssh_exec`: a command is never started twice by the retry, success is only
  reported for a command that ran, and the call ends. Hard, because connections
  hang, are closed by other callers, or resume after a timeout.
* Configuration: edits are applied one after the other, nothing is lost, a broken
  file is kept. Hard, because the file is truncated and then written, by several
  processes, which may die in between.
* Aliases agree with the configuration.
* Cache: results are never older than a bound. Hard, because callers that miss
  together overwrite each other's results.
* Settings under the pool: a connection dialed with settings that were replaced
  is not reused.
* Transfers: success means a complete copy, nothing is overwritten unless asked,
  failures report what was written, every call ends. Hard, because the destination
  is shared, looked at first and truncated later, and any step may fail.
* Entries: an update keeps what it does not state, and the ssh command of an alias
  and the native client go to the same place with the same key. Hard, because four
  commands and tools build the entry, each with fields that it does not know, and
  two pieces of code read it.

`PROJECT.json` lists the hazards at their lines with the properties that cover
them.

## 2. The modules

| Module | Models |
|---|---|
| `SSHPool` | the pool: one action per critical section, probe, dial, handshake, publication |
| `SSHExec` | `handleSSHExec` and `RunRemoteCommand`, on an instance of `SSHPool` |
| `RemoteExec` | abstract: what `ssh_exec` promises its caller |
| `PoolSettings` | `SSHPool` with those who change what a connection is dialed with |
| `ConfigEdits` | pure: what each edit does to a configuration |
| `Registry` | abstract: edits applied at once to a registry of entries |
| `ConfigStore` | the files and the editors: load, truncate, write, refresh aliases, die |
| `SSHConfigCache` | the cache of `ssh -G` |
| `Transfer` | `upload_file`, `download_file` and `write_file` on one destination |
| `Entries` | one entry under everything that writes it; `BuildSSHArgs` with OpenSSH against `Effective` with the native client |
| `MC...` | the constants and symmetries of the TLC runs |
| `..._proofs` | theorems and proofs; those of `Transfer` are in `Transfer_proofs` and `TransferDelivery_proofs` |

`SSHExec` and `PoolSettings` are two compositions with the pool; `ConfigStore`
implements `Registry`, `SSHExec` implements `RemoteExec` and refines `SSHPool`.
`ConfigStore` has the interleaving of edits and abstracts the fields of an entry;
`Entries` has the fields and lets edits come one at a time.
Operators called `Mutation` in a comment are plausible bugs of the definition
that follows them; no specification uses them. They show that a property can fail.

### SSHPool

`clients` is `SSHPool.clients`; `pc[g]` says where call `g` of `GetClient` stands
between two critical sections: `lookup` (pool.go:57), `probe` (62), `reuse` (63), `drop` (69),
`connect` (79), `handshake` (172), `publish` (89). A call dials at most once, so a
connection has the name of the call that dials it. `conn` is the state of the
connection: `tcp` before the handshake is over, `up`, `hung` (takes requests, never
answers), `gone` (lost: every use fails), `closed` (by kgssh). The network moves a
connection among `up`, `hung` and `gone` at any time. `ProbeFailed` is possible in
every state of the connection, since the timer of the probe can beat a slow answer.
Where the code closes a connection and changes the map in one critical section
(`Evict`, `Publish`), that is one action; where it closes first and takes the lock
afterwards (pool.go:69-74), `ProbeFailed` and `Drop` are two; and where it acts on an answer
after it has come (pool.go:62-66), `ProbeAnswered` and `Reuse` are two, between which
others may close the connection. Configuration, keys and addresses are abstracted: any
of the steps that use them may fail. The entry loaded at pool.go:47 stays with
the call; only `PoolSettings` looks at it.

### SSHExec

A call has two calls of `GetClient`, for its two tries. `open` lasts from the call
of `GetClient` to the answer of `NewSession`; then `pty`, `send`, `wait`, `done`.
The request to start the command travels (`sent`) and can arrive after the call
has given up: `Start` is a step of sshd. `NewSession` and `RequestPty` wait for
the server and have no timer; on a connection that hangs they simply are not
enabled. `Environment` lets the other tools close pooled connections, other
processes save the file and the network break.

### PoolSettings

`facts` is what `ssh -G` says of a server by now; the cache's lifetime is
part of when a change becomes visible, so `EditSSHConfig` is the moment at which it
does. `excused` collects the connections that the known races leave behind: those
in flight while an edit saves (the edit closes the pooled connection before it
saves, mcp_server.go:668-670), those of servers changed by another process, and
those of other servers carried along by an edit that had loaded an older file.
`during`, `dialedWith` and `excused` record history; no action reads them.

### ConfigEdits, ConfigStore

An entry is host, connection settings and playbook, which is what tells the edits
apart. An edit loads the file, changes its copy and decides (one action, `Load` or
`Refused`), truncates, writes, and refreshes the aliases. Only a missing file counts
as an empty configuration, and only for add, import and set-keys-dir. `Write` on
a file that another editor has written since the truncation may leave the tail of
a longer text (`Corrupt`). A partial write (a full disk) behaves like the
truncated file: both are unusable. `Stop` is a crash or a failed write at any step.
`disturbed` records that two edits have overlapped or one was cut short, and `mixed`
that the save which truncated the file last did so between the truncation and the
write of another one; no action reads them. `Registry` promises nothing once there has been a disturbance, and
`AliasesInSync` nothing either, since the aliases of the first of two overlapping
saves may be written last. `--no-sync` and `--dry-run` and the partial update of a
playbook are left out; the fields of an entry are in `Entries`.

### SSHConfigCache

Time is counted in ticks. A result carries the tick at which ssh read the file,
and is stored up to `MaxRun` ticks later. `InvalidateSSHConfigCache` can happen at any
time, although only the tests call it; its comment (sshconfig.go:89) says that it
is called after kgssh changes anything that affects resolution.

### Transfer

A path is a sequence of names below the root of the source or the destination,
data is counted in chunks, and a chunk is known by the call that wrote it.
`phase[c]` says where call `c` stands: `walk` (before the next item of the walk,
scp_ops.go:86, 208), `check` (a source that is one file), `create` (between the
overwrite check and `Create`, scp_ops.go:125, 236), `copy`, `chmod`. `todo` holds the paths still to be
visited, in the order of the walk, so that one set stands for the state of
`filepath.Walk` as for that of the recursion of `downloadDir`. The two walks differ
in what they do at a root that is a symbolic link (`Enters`) and in whether they
look at the context before it (`Abandons`). Every step that changes the destination
is one action that other calls see; looks at the context or at the end of the
source, which nobody sees, belong to the step that follows. `Begin` and
`CheckFails` let `Stat` fail, which the code takes for an absent destination; a `Write` may fail
before or after it has reached the file; every step may fail. `Hang` is an
operation that never returns; a call that is cancelled and next looks at its context
(`Abandons`) does not hang there. `Masked` is what the umask leaves of a mode: a download
creates its file with the masked mode of its source and leaves the mode of a file that
is there, an upload sets the mode of its source with `Chmod`. Sources do not change and
nothing is removed from the destination. Calls in one behaviour work on one file
system: uploads and writes on the server's, downloads on the local one.

`existed`, `created`, `replaced`, `clash` and `blind` record history. `clash` holds the
files that two calls had open together, or opened one after the other: of these,
nothing can be promised to the call that opened them first.

### Entries

`entry` is the entry of one alias with all its fields, `disk` the key files that are
there. `sshConfig` gives for every name what `~/.ssh/config` says of it, which
`EditSSHConfig` replaces as a whole. This is one block for a name, as if no pattern
matched two names, and a name may have a block whatever it is: the alias, or the host
of an entry, for which OpenSSH consults the file as well. A request states a host, and any
other field or nothing. `said` records what was last stated of each field; no action
reads it. An identity flag among the extra arguments is one element, with its path.

`Spots` gives for each path the files that `resolveKeyPath` tries in order, the first of
which is the path as it is. `loadSSHPrivateKey` tries the file that was resolved, the
path as it is, and for a bare name one file more (`Fallback`); the first of them that
can be read is `Source`. `Key` is the key in each file, which can be the same in two
files, or `Unreadable` (it has a passphrase, which is an error at once), or
`NoAccess` (the file is there and cannot be read, so that the next one is tried).

`OpenSSH` and `SSHDashG` are what the ssh binary does with a command line and prints for
a name; they are external, modelled from how kgssh uses them. `ssh -G` lists
`SSHDefaults` when ssh_config names no key, which `Effective` (config.go:270-277) cannot
tell from keys that it names. `Native` is where `dialEntry` connects to, and `Signers` of the
effective entry the keys that it offers.

## 3. The runs

| Run | Shows | Bounds |
|---|---|---|
| `Pool` | `TypeOK`, `NoLeakedConnection`, `ClosedNotPooled`, `ReturnsOpenClient`, `HungServerDoesNotBlockOthers` | 3 calls, 2 servers, one of them stalling |
| `Exec` | `TypeOK`, `AtMostOnce`, `RetryIsFresh`, `KeepsPromise`, `UsesPool`, `CallEndsUnlessStuck` | 2 calls (4 of `GetClient`), 1 server |
| `ExecTimeout` | `TimeoutHolds` is violated | 1 call |
| `ExecRetry` | `RetrySparesOtherCalls` is violated | 2 calls |
| `ConfigEditing` | `TypeOK`, `UnusableForACause`, `AliasesInSync`, `BrokenConfigIsKept`, `IsRegistry` | 3 edits that may overlap and fail, 2 names, 8 tasks |
| `ConfigLostUpdate` | `InfoPreservesConnections` is violated | 2 overlapping edits |
| `CacheStaleness` | `TypeOK`, `StalenessIsBounded` | 3 callers, 2 aliases, lifetime 2, runs up to 2, 7 ticks |
| `SettingsEdits` | `SettingsTypeOK`, `OutdatedIsExcused` | 2 calls, 2 edits, 1 server, 2 entries |
| `SettingsLinked` | `FollowsSSHConfig` is violated | 2 calls, 2 versions of ssh_config |
| `Transfers` | `TypeOK`, `SuccessIsComplete`, `ExistingFilesAreSafe`, `ReportIsAccurate`, `CallEnds` | 2 calls, 4 sources, 3 destinations, files of up to 2 chunks, 3 modes, umask 022 |
| `TransferPermissions` | `PermissionsArePreserved` is violated | the same, and no umask |
| `Entries` | `TypeOK`, `LastWordCounts`, `SameDestination`, `SameKeyFirst`, `EveryKeyOnce` | 3 versions of ssh_config with blocks for the alias and for its host, 7 key files in 4 arrangements, requests that state one or two fields |

Why these bounds: the races of the pool need a caller that finds a connection, one
that replaces it and one that made it, hence three calls; a second server shows
that calls do not disturb each other and is what the liveness property is about.
The retry needs one other call to race with. Lost updates need two edits, and the
third one meets what two have left behind. Two results of `ssh -G` that overtake
each other need two callers, and the third reads what they stored; seven ticks are more
than a lifetime and two runs in a row. A transfer is disturbed by one other
call; a file of two chunks has a middle, and the directory has a file on each of two
levels, so that a failure can come before, between and after files; the
destinations are free, a file, and a directory that already holds the second
file of the tree. In `Transfers` one call asks for anything and may be cancelled, the
other asks for what interferes most and may hang. Requests that state one field
are enough for `Entries` because the code treats each field by itself, except for
the identity and the arguments, which are also stated together; the number of
commands in a row is not bounded. One of the keys named by the user also lies
under a usual name; one has three places, of which the second cannot be read, and a
fallback with another key; and a third key has a passphrase. The sequences matter to
`LastWordCounts`; what the other properties of `Entries` say depends on one entry, which the
sequences only supply, and is proved for every entry. Symmetry is used
only for sets of identical actors, and never in a run that checks liveness.
`CHECK_DEADLOCK FALSE` is set for `ConfigStore`, `SSHConfigCache` and `Transfer`, which
stop when every edit or call is over; the others never stop, since their
environment or their users always have a step.

The violated properties are statements of the repository that the code does not
keep. Each is explained under "findings" in `PROJECT.json`:

1. `TimeoutHolds`: `NewSession` and `RequestPty` wait before the timer exists.
2. `RetrySparesOtherCalls`: a refused session is taken for a stale connection, and
   the retry closes one that works, under the commands of others.
3. `InfoPreservesConnections`: `update_server_info` writes back what it loaded.
4. `FollowsSSHConfig`: a pooled connection is reused without resolving the entry.
5. `PermissionsArePreserved`: a download onto an existing file keeps the old mode.

More limits show in the form of the properties that hold:

* `ReturnsOpenClient` names two races in which a closed connection is returned. One
  that is shared with the caller that dialed first (pool.go:91-95) is not probed, and may
  have been closed by a caller about to drop it. One that has answered its probe is not
  looked at again (pool.go:62-66): a caller whose own probe failed, `Close` or `CloseAll`
  may close it before it is returned.
* The SSH handshake (pool.go:172) has no deadline, which is why
  `HungServerDoesNotBlockOthers` and `CallEndsUnlessStuck` exempt servers in
  `Stalling`, although the caller of `GetClient` gives a timeout and
  `test_connection`, which dials with the same function, documents one (mcp_server.go:109).
  No property here fails on account of it.
* `AliasesInSync` and `IsRegistry` say nothing once two edits have overlapped. Without
  that exemption `AliasesInSync` does not hold, even where no save is lost: one edit saves,
  a second loads, saves and refreshes, and then the first refreshes the aliases from its
  older copy (mcp_server.go:675).
* `CallEnds` exempts calls in `stuck`: no operation on a file has a deadline, and
  cancellation is looked at between chunks (scp_ops.go:276), so that a copy whose `Read` or
  `Write` stalls does not end when it is cancelled, whatever scp_ops.go:269-270 says of it.
* `ExistingFilesAreSafe` exempts the calls for which `Stat` has failed, and speaks of
  the beginning of the call: a file that appears after its check is truncated, although
  overwrite is off.
* `SuccessIsComplete` exempts files that another call had open: nothing keeps two
  calls from writing one destination. Of the mode it demands what the code can give:
  the source's after an upload, the masked one of a file that a download has created
  (which README.md:230-231 does not say), and none of a file that was there, which is
  finding 5.
* `SameDestination` holds for every linked entry that the tools do not refuse as unresolved. For an entry with a host of
  its own, ssh looks up that host in ssh_config and the native client does not. They
  agree on the host unless ssh_config takes it for another; on the port if the entry
  states one other than 22 (which `BuildSSHArgs` leaves out, alias.go:22), or ssh_config
  has 22 for that host; on the user if the entry states one. The jump host is
  not compared, since `dialEntry` has no use for it.
* `SameKeyFirst` speaks of entries that name a key or are linked, and that the native
  client can dial, since a leftover `-i` whose key file is gone makes it give up; and it
  requires that the first file which the ssh command would find can be read, since
  `loadSSHPrivateKey` tries others instead. For an entry that neither names a key nor is
  linked, ssh begins with its defaults and the native client with the agent. For a linked
  entry without a key the tools offer a default key of ssh first, ahead of the agent
  and not after it, as legacy_ssh.go:72 has it for default keys; if that key has a
  passphrase, they do not connect.
* `LastWordCounts` allows one `-i` more than was stated, which `add_server` appends and
  later updates keep; it leaves out the playbook, which an import drops.

### Fairness

`SSHPool!FairSpec` and `SSHExec!FairSpec` assume what the code makes sure of: a
goroutine takes its own next step, the timer of the probe and of
`net.DialTimeout` fires, the timer of the command fires. The end of a handshake
is assumed only of servers outside `Stalling`. `NewSession` and `RequestPty` are
given strong fairness: a server answers them if its connection is up time and again,
and the library fails them on a broken one. No answer to the command itself is
assumed, and nothing of the environment. The handler's own critical sections need
only weak fairness because nothing disables them but themselves.
`Transfer!FairSpec` assumes that a goroutine whose operation returns goes on, and a
call whose operation does not return is in `stuck`. It assumes nothing of
cancellation, nor that any operation succeeds.

## 4. What is proved

TLAPS proves the following for all values of the constants that satisfy the named
assumptions (`nil` and "no entry" are not members of the sets they complete; the
file markers differ from each other and from configurations; the default settings
are settings; a source has finitely many names; "no path" is
not a path). Every invariant and every action property that a passing run checks is the
subject of a theorem.

* `SSHPool_proofs`: `Typing`, `NoLeak`, `ClosedLeavesPool`, `ReturnedIsOpen`. The
  safety properties are not inductive by themselves. The invariant adds who holds a
  connection: the call that dials it until it is published
  (`ConnFollowsStage`), then the pool, under the name of the call's server
  (`PoolHoldsPublished`); and that the client a call has found was published for the
  same server, and is closed once the call has found it dead (`SeenWasPublished`).
  The last part is what makes it safe for `Publish` to replace `seen`: the connection
  it forgets is closed.
* `SSHExec_proofs`: `Typing`, `ExecUsesPool` (every step of `ssh_exec` is a step of
  `SSHPool` or leaves it alone), `NoCommandRunsTwice`, `RetryGetsAnother`,
  `ExecKeepsPromise` (refinement of `RemoteExec`). All but `ExecUsesPool` rest on an
  invariant in four parts: types; the pool's facts (`PoolFacts`); one exec request per call, which is in
  flight only once the call is past `send`, and an answer that is final
  (`RequestOnce`, `AnswersOnce`); and the order of the tries (`TriesInOrder`), with the
  first client out of the pool once `Reset` is over (`FirstClientGone`). That
  last part is the argument for `RetryIsFresh`: `GoneForGood` shows that a
  connection that was published once and is outside the pool never returns to it.
  `ExecKeepsPool` carries the pool's own theorems over to the composition, through
  `ExecUsesPool`: also with retries, sessions and lost requests on top of it, no
  connection is leaked and none that is closed stays pooled.
* `ConfigStore_proofs`: `Typing`, `UnusableHasCause`, `BrokenStaysBroken`, for any
  number of overlapping edits and faults. The invariant adds that an editor between its
  truncation and its write is the only one there and finds the file empty, unless the
  save that truncated it last met another one (`AloneOrMixed`). `AliasesAreInSync` and `StoreIsRegistry` rest on a second
  invariant (`Serial`) of what holds until the first disturbance: at most one editor
  is under way (`OneAtATime`), what it has in memory is its edit of the file or is
  already in it (`Agrees`), and otherwise the aliases are those of the file (`InSync`).
  For the refinement, an edit takes effect when it truncates the file.
* `PoolSettings_proofs`: `SettingsTyping`, `OutdatedHasExcuse`. Every step of
  the composition is a step of the pool or leaves it alone, so the pool's invariant
  carries over. To it are added that a call in flight with replaced settings is excused
  (`InFlightExcused`), since it may publish what it dials; and that what is pooled
  between the eviction and the save of an edit was published in between
  (`PublishedSinceEvicted`), which is why the save need not look at the server it
  edits. `SettingsUsePool` states the step-by-step argument as a refinement of
  `SSHPool`, and `SettingsKeepPool` what follows: its safety promises hold under edits.
* `SSHConfigCache_proofs`: `Typing`, `ResultsAreRecent`. The invariant says that a
  result waiting to be stored is at most one run old, and that an entry was at
  most one run old when it was stored. It says nothing about which of two results
  is newer, and need not.
* `Transfer_proofs`: `Typing`, `ExistingAreSafe`, for any trees of files, requests and
  number of calls. `Typing` says that the file a call writes to is still a file:
  no other call turns it into a directory (`DestTyping`). `ExistingAreSafe` adds that
  nothing is removed from the destination (`NothingRemoved`), so that what a call
  without overwrite finds absent was absent when it began.
* `TransferDelivery_proofs`: `SuccessComplete`, `ReportAccurate`, for any trees, requests,
  data, umask and number of calls. Neither is inductive. The invariant (`DeliveryInv`)
  has four parts. Whoever has a file open created it, and any other call that created it
  too has a clash there (`OpenFiles`). What is left of a walk is well formed: no path in
  `todo` lies below another, so that no file is visited twice (`WalkOf`). Each file to be
  written is covered (it is in `todo`, below a path in it, or open) or done, that is delivered
  or disputed; and the open one has its first `offset` chunks, unless it is disputed
  (`CopyOf`). `files` counts the files that the call created, but for the open one or
  the one at which it failed, and all that are counted are done (`CountOf`). `OpenFiles` is
  needed because every step of another call may change the destination: it leaves
  what this call has delivered alone, or disputes it. `CountOf` needs a finite
  source, on which the cardinalities are numbers.
* `Entries_proofs`: `Typing`, `LastWord`, `DestinationsAgree`, `FirstKeyAgrees`, `EachKeyOnce`,
  for any values, requests, ssh_config and key files. `LastWord` is inductive once it is
  known that arguments with more than was stated contain an `-i` (`ExtraInv`), which is why
  a second one is never appended. The last three follow from the types alone: they hold
  for every entry, and not only for those that commands write. Those on keys rest on
  what the loops return for every input: `DedupeFacts` (the loop of `dedupeSigners` keeps
  each key once and the first one in front), `AtFacts` (a filter keeps what it
  selects, in order), `Resolves` (`resolveKeyPath` leaves a path that exists alone) and
  `SourceFacts` (`loadSSHPrivateKey` reads the file that was resolved if it can). The
  induction over the loop is `Induction`, which has a set where the library's
  theorems have a predicate, and follows from the library's `WFMin`.

Only model-checked: liveness and everything under fairness (`HungServerDoesNotBlockOthers`,
`CallEndsUnlessStuck`, `CallEnds`), since the prover has no ENABLED.

The properties that are violated are of course not proved. No module declares a
RECURSIVE operator.

## 5. What is not modelled

* `test_connection`'s loop over the targets: it is sequential, has a dedicated connection for
  each target and leaves nothing behind. What it dials is `Native` in `Entries`.
* `read_file`, whose report is one comparison of a size, a limit and a length, with a size
  that may be stale, and `list_directory`: they keep and change nothing.
* The display commands, the foreground runner, tool registration
  and conversions of arguments, and the release workflow: they hold no state. Which
  configuration file is chosen (`resolveConfigPath`) depends on the environment
  and on the files there are, and does not change within a command.
* Text: the splitting of lines in the importer and of the output of `ssh -G`, the
  decoding of JSON fields, shell quoting (`shellQuote`), the text of aliases and commands, the
  shell hook. They are functions on characters, which
  unit tests reach better than a model in which characters would have to be
  enumerated.
* `lastUsed` is written and never read: nothing evicts idle connections. The
  sockets to the agent that stay open (legacy_ssh.go:224) are noted as a hazard only:
  no step of the code closes them.
* `connectWithNativeSSH` has no caller.

## 6. Plan

Done: pool, `ssh_exec`, configuration store, settings under the pool, cache,
transfers, entries with keys and destinations; proofs of all their safety properties
and refinements. Left:

1. Proofs of the safety half of the liveness properties: that a step which a call
   waits for is only withheld by a server in `Stalling`, or on a connection that hangs.
2. `PoolSettings` below `ssh_exec`: what a retry does to a connection whose settings an edit
   has replaced.
