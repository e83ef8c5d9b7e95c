----------------------------- MODULE ConfigEdits -----------------------------
(***************************************************************************)
(* What one edit does to the configuration, as a function from the         *)
(* configuration it loads to the configuration it saves: the CLI's add,    *)
(* remove, import-ssh-config and set-keys-dir, and the MCP tools           *)
(* add_server, remove_server and update_server_info.                       *)
(*                                                                         *)
(* An entry's data is abstracted to three parts that edits treat           *)
(* differently: the host, the optional connection settings (user, port,    *)
(* identity, jump host, password) and the playbook (info).  Description    *)
(* and ExtraArgs, the flags --no-sync and --dry-run and the partial update *)
(* of a playbook are left out.                                             *)
(***************************************************************************)
CONSTANTS
    Names,      \* names of entries
    Hosts, Opts, Infos, Dirs,
    NoEntry,    \* the name has no entry
    Unset,      \* a part that is not given; an entry without host is a linked one
    Default     \* the connection settings of an added entry that has none

ASSUME DefaultAssumption == Default \in Opts /\ Unset \notin Opts
ASSUME EntryAssumption ==
    NoEntry \notin [host : Hosts \union {Unset}, opt : Opts \union {Unset},
                    info : Infos \union {Unset}]

Entry == [host : Hosts \union {Unset}, opt : Opts \union {Unset},
          info : Infos \union {Unset}]

Config == [entries : [Names -> Entry \union {NoEntry}], keysDir : Dirs \union {Unset}]

EmptyConfig == [entries |-> [n \in Names |-> NoEntry], keysDir |-> Unset]

Has(cfg, name) == cfg.entries[name] # NoEntry

Orelse(given, kept) == IF given = Unset THEN kept ELSE given

\* The kinds of edit, with their arguments.
AddTask == [op : {"add"}, name : Names, host : Hosts, opt : Opts \union {Unset}]
RemoveTask == [op : {"remove"}, name : Names]
InfoTask == [op : {"info"}, name : Names, info : Infos]
ImportTask == [op : {"import"}, found : SUBSET Names, host : Hosts,
               opt : Opts \union {Unset}, overwrite : BOOLEAN, link : BOOLEAN]
KeysTask == [op : {"keys"}, dir : Dirs]
SyncTask == [op : {"sync"}]

Task == AddTask \union RemoveTask \union InfoTask \union ImportTask
            \union KeysTask \union SyncTask

\* Updating an entry keeps what the request does not give; the default port
\* comes last, so that a linked entry gets it as well.
Added(t, old) ==
    IF old = NoEntry
    THEN [host |-> t.host, opt |-> Orelse(t.opt, Default), info |-> Unset]
    ELSE [host |-> t.host, opt |-> Orelse(t.opt, Orelse(old.opt, Default)), info |-> old.info]

Add(t, cfg) == [cfg EXCEPT !.entries[t.name] = Added(t, @)]

\* Mutation: the entry is blanked and its name stays.
RemoveBlanks(t, cfg) == [cfg EXCEPT !.entries[t.name] = Unset]

Remove(t, cfg) == [cfg EXCEPT !.entries[t.name] = NoEntry]

SetInfo(t, cfg) == [cfg EXCEPT !.entries[t.name].info = t.info]

\* The hosts of ssh_config that an import takes.
Taken(t, cfg) == {n \in t.found : ~Has(cfg, n) \/ t.overwrite}

\* A linked entry keeps only what ssh_config cannot express.
Imported(t, old) ==
    IF t.link
    THEN [host |-> Unset, opt |-> Unset, info |-> IF old = NoEntry THEN Unset ELSE old.info]
    ELSE [host |-> t.host, opt |-> t.opt, info |-> Unset]

Import(t, cfg) ==
    [cfg EXCEPT !.entries =
        [n \in Names |-> IF n \in Taken(t, cfg) THEN Imported(t, @[n]) ELSE @[n]]]

SetKeysDir(t, cfg) == [cfg EXCEPT !.keysDir = t.dir]

\* An edit that ends without saving: the name is unknown, or nothing is imported.
Rejected(t, cfg) ==
    \/ t.op \in {"remove", "info"} /\ ~Has(cfg, t.name)
    \/ t.op = "import" /\ Taken(t, cfg) = {}

Edited(t, cfg) ==
    CASE t.op = "add" -> Add(t, cfg)
      [] t.op = "remove" -> Remove(t, cfg)
      [] t.op = "info" -> SetInfo(t, cfg)
      [] t.op = "import" -> Import(t, cfg)
      [] t.op = "keys" -> SetKeysDir(t, cfg)
      [] t.op = "sync" -> cfg

\* A missing file counts as an empty configuration for these edits only.
StartsFromNothing(t) == t.op \in {"add", "import", "keys"}

\* Mutation: removing an entry leaves its alias.
SyncsAliasesNotRemoved(t) == t.op \notin {"info", "remove"}

\* update_server_info is the one edit that leaves the aliases file alone.
SyncsAliases(t) == t.op # "info"

\* The aliases of an entry without host or settings carry the facts of
\* ssh_config, which are not told apart here.
AliasFile ==
    [keysDir : Dirs \union {Unset},
     entries : [Names -> [host : Hosts \union {Unset}, opt : Opts \union {Unset}]
                             \union {NoEntry}]]

\* What the generated aliases tell of a configuration: all but the playbooks.
Aliases(cfg) ==
    [keysDir |-> cfg.keysDir,
     entries |-> [n \in Names |->
                    IF Has(cfg, n)
                    THEN [host |-> cfg.entries[n].host, opt |-> cfg.entries[n].opt]
                    ELSE NoEntry]]
=============================================================================
