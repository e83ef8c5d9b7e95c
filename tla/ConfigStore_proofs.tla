-------------------------- MODULE ConfigStore_proofs --------------------------
(***************************************************************************)
(* What every edit of the configuration file keeps, for any number of      *)
(* overlapping edits that may be cut short at any point.                   *)
(***************************************************************************)
EXTENDS ConfigStore, TLAPS

\* An edit that is not rejected turns a configuration into a configuration.
LEMMA EditedIsConfig ==
    ASSUME NEW t \in Task, NEW cfg \in Config, ~Rejected(t, cfg)
    PROVE  Edited(t, cfg) \in Config
  <1> USE DefaultAssumption, EntryAssumption DEF Config, Entry
  <1>1. CASE t.op = "add"
    <2>1. t \in AddTask
      BY <1>1 DEF Task, AddTask, RemoveTask, InfoTask, ImportTask, KeysTask, SyncTask
    <2>2. Added(t, cfg.entries[t.name]) \in Entry
      BY <2>1 DEF Added, AddTask, Orelse
    <2> QED
      BY <1>1, <2>1, <2>2 DEF Edited, Add, AddTask
  <1>2. CASE t.op = "remove"
    <2>1. t \in RemoveTask
      BY <1>2 DEF Task, AddTask, RemoveTask, InfoTask, ImportTask, KeysTask, SyncTask
    <2> QED
      BY <1>2, <2>1 DEF Edited, Remove, RemoveTask
  <1>3. CASE t.op = "info"
    <2>1. t \in InfoTask
      BY <1>3 DEF Task, AddTask, RemoveTask, InfoTask, ImportTask, KeysTask, SyncTask
    <2>2. cfg.entries[t.name] \in Entry
      BY <1>3, <2>1 DEF InfoTask, Rejected, Has
    <2> QED
      BY <1>3, <2>1, <2>2 DEF Edited, SetInfo, InfoTask
  <1>4. CASE t.op = "import"
    <2>1. t \in ImportTask
      BY <1>4 DEF Task, AddTask, RemoveTask, InfoTask, ImportTask, KeysTask, SyncTask
    <2>2. ASSUME NEW n \in Names
          PROVE  Imported(t, cfg.entries[n]) \in Entry
      BY <2>1 DEF Imported, ImportTask
    <2> QED
      BY <1>4, <2>2 DEF Edited, Import
  <1>5. CASE t.op = "keys"
    <2>1. t \in KeysTask
      BY <1>5 DEF Task, AddTask, RemoveTask, InfoTask, ImportTask, KeysTask, SyncTask
    <2> QED
      BY <1>5, <2>1 DEF Edited, SetKeysDir, KeysTask
  <1>6. CASE t.op = "sync"
    BY <1>6 DEF Edited
  <1> QED
    BY <1>1, <1>2, <1>3, <1>4, <1>5, <1>6
    DEF Task, AddTask, RemoveTask, InfoTask, ImportTask, KeysTask, SyncTask

\* What aliases are generated from a configuration.
LEMMA AliasesType == ASSUME NEW cfg \in Config PROVE Aliases(cfg) \in AliasFile
  BY EntryAssumption DEF Aliases, AliasFile, Config, Entry, Has

LEMMA LoadedIsConfig == TypeOK => Loaded \in Config
  BY DEF TypeOK, Loaded, Config, EmptyConfig

\* An editor between its truncation and its write.
Saving(e) == e \notin stopped /\ phase[e] = "truncated"

\* It finds the file empty and is alone, unless saves have overlapped.
AloneOrMixed ==
    \A e \in Editors :
        Saving(e) => mixed \/ (file = Empty /\ \A d \in Editors \ {e} : ~Saving(d))

IInv == TypeOK /\ AloneOrMixed /\ UnusableForACause

LEMMA InitInv == Init => IInv
  <1> SUFFICES ASSUME Init PROVE IInv
    OBVIOUS
  <1>1. EmptyConfig \in Config
    BY DEF EmptyConfig, Config
  <1>2. aliases \in AliasFile \union {Missing}
    BY AliasesType DEF Init
  <1> QED
    BY <1>1, <1>2, FileAssumption
    DEF Init, IInv, TypeOK, AloneOrMixed, Saving, UnusableForACause, Phases

LEMMA NextTyping == TypeOK /\ [Next]_vars => TypeOK'
  <1> SUFFICES ASSUME TypeOK, [Next]_vars
               PROVE  TypeOK'
    OBVIOUS
  <1> USE DEF TypeOK, Phases, Goto, NoteOverlap
  <1>1. CASE UNCHANGED vars
    BY <1>1 DEF vars
  <1>2. ASSUME NEW e \in Editors, Edit(e)
        PROVE  TypeOK'
    <2>1. CASE Load(e)
      <3>1. task[e] \in Task
        BY TasksAssumption
      <3>2. Edited(task[e], Loaded) \in Config
        BY <2>1, <3>1, EditedIsConfig, LoadedIsConfig DEF Load
      <3> QED
        BY <2>1, <3>2 DEF Load
    <2>2. CASE SyncAliasesFile(e)
      BY <2>2, AliasesType DEF SyncAliasesFile
    <2>3. CASE Refused(e)
      BY <2>3 DEF Refused
    <2>4. CASE Truncate(e)
      BY <2>4 DEF Truncate
    <2>5. CASE Write(e)
      BY <2>5 DEF Write
    <2>6. CASE Stop(e)
      BY <2>6 DEF Stop
    <2> QED
      BY <1>2, <2>1, <2>2, <2>3, <2>4, <2>5, <2>6 DEF Edit
  <1> QED
    BY <1>1, <1>2 DEF Next

LEMMA NextInv == IInv /\ [Next]_vars => IInv'
  <1> SUFFICES ASSUME IInv, [Next]_vars
               PROVE  IInv'
    OBVIOUS
  <1>1. TypeOK /\ TypeOK'
    BY NextTyping DEF IInv
  <1> USE FileAssumption
      DEF IInv, AloneOrMixed, Saving, UnusableForACause, Phases, Goto
  <1>2. CASE UNCHANGED vars
    BY <1>1, <1>2 DEF vars
  <1>3. ASSUME NEW e \in Editors, Edit(e)
        PROVE  IInv'
    <2>1. CASE Load(e)
      BY <1>1, <2>1 DEF Load, TypeOK
    <2>2. CASE Refused(e)
      BY <1>1, <2>2 DEF Refused, TypeOK
    <2>3. CASE Truncate(e)
      <3>1. /\ phase' = [phase EXCEPT ![e] = "truncated"] /\ phase'[e] = "truncated"
            /\ file' = Empty /\ stopped' = stopped
            /\ mixed' <=> \E d \in Editors : Saving(d)
        BY <1>1, <2>3 DEF Truncate, TypeOK
      <3>2. AloneOrMixed'
        BY <1>1, <3>1 DEF TypeOK
      <3>3. UnusableForACause'
        BY <1>1, <3>1 DEF TypeOK
      <3> QED
        BY <1>1, <3>2, <3>3
    <2>4. CASE Write(e)
      <3>1. /\ Saving(e) /\ copy[e] \in Config
            /\ phase' = [phase EXCEPT ![e] = phase'[e]]
            /\ phase'[e] \in {"saved", "done"}
            /\ file' # Empty
            /\ file = Empty => file' # Corrupt
            /\ UNCHANGED <<stopped, mixed>>
        BY <1>1, <2>4 DEF Write, TypeOK
      <3>2. AloneOrMixed'
        BY <1>1, <3>1 DEF TypeOK
      <3>3. UnusableForACause'
        BY <1>1, <3>1 DEF TypeOK
      <3> QED
        BY <1>1, <3>2, <3>3
    <2>5. CASE SyncAliasesFile(e)
      BY <1>1, <2>5 DEF SyncAliasesFile, TypeOK
    <2>6. CASE Stop(e)
      BY <1>1, <2>6 DEF Stop, TypeOK
    <2> QED
      BY <1>3, <2>1, <2>2, <2>3, <2>4, <2>5, <2>6 DEF Edit
  <1> QED
    BY <1>2, <1>3 DEF Next

LEMMA Invariance == Spec => []IInv
  BY InitInv, NextInv, PTL DEF Spec

-----------------------------------------------------------------------------
\* The type invariant: in particular, whatever parses is a configuration that
\* edits have produced (config.go:94-121).
THEOREM Typing == Spec => []TypeOK
  <1>1. IInv => TypeOK
    BY DEF IInv
  <1> QED
    BY Invariance, <1>1, PTL

\* An unusable file has a cause (config.go:117): it is empty while a save is under
\* way, or after one was cut short; it does not parse if it did not from the start,
\* or if each of two saves was in the middle of the other.
THEOREM UnusableHasCause == Spec => []UnusableForACause
  <1>1. IInv => UnusableForACause
    BY DEF IInv
  <1> QED
    BY Invariance, <1>1, PTL

\* An edit never overwrites a file that does not parse, unless it has loaded an
\* earlier version (mcp_server.go:601-607, main.go:331-337).
THEOREM BrokenStaysBroken == Spec => BrokenConfigIsKept
  <1>1. IInv /\ [Next]_vars => [Unusable => Unusable' /\ file' = file]_vars
    <2> SUFFICES ASSUME IInv, Unusable, NEW e \in Editors, Edit(e)
                 PROVE  Unusable' /\ file' = file
      BY DEF Next
    <2>1. ~Load(e)
      BY FileAssumption DEF Unusable, Load, Usable
    <2>2. CASE Refused(e) \/ SyncAliasesFile(e) \/ Stop(e)
      BY <2>2 DEF Refused, SyncAliasesFile, Stop, Goto, Unusable, IInv, TypeOK
    <2>3. ~Truncate(e) /\ ~Write(e)
      BY DEF Unusable, Truncate, Write
    <2> QED
      BY <2>1, <2>2, <2>3 DEF Edit
  <1>2. Spec => [][Unusable => Unusable' /\ file' = file]_vars
    BY Invariance, <1>1, PTL DEF Spec
  <1> QED
    BY <1>2 DEF BrokenConfigIsKept

-----------------------------------------------------------------------------
\* What holds as long as no two edits overlap and none is cut short.
InSync == file \in Config => aliases = Aliases(file)

\* What an editor has in hand agrees with the file: the edit it has computed is
\* that of the file's present content, its truncation is still unseen, or the
\* file holds what it has written.
Agrees(e) ==
    /\ phase[e] = "loaded" =>
         /\ ~Rejected(task[e], Loaded)
         /\ copy[e] = Edited(task[e], Loaded)
         /\ SyncsAliases(task[e]) \/ file \in Config
         /\ InSync
    /\ phase[e] = "truncated" =>
         /\ file = Empty
         /\ SyncsAliases(task[e]) \/ aliases = Aliases(copy[e])
    /\ phase[e] = "saved" => file = copy[e]

OneAtATime ==
    /\ stopped = {}
    /\ \A d, e \in Editors : Active(d) /\ Active(e) => d = e

Serial ==
    ~disturbed =>
        /\ OneAtATime
        /\ \A e \in Editors : Agrees(e)
        /\ (\A e \in Editors : ~Active(e)) => InSync

\* The aliases do not tell of the playbooks.
LEMMA InfoKeepsAliases ==
    ASSUME NEW t \in Task, NEW cfg \in Config, ~SyncsAliases(t), ~Rejected(t, cfg)
    PROVE  Aliases(Edited(t, cfg)) = Aliases(cfg)
  <1>1. t.op = "info" /\ t \in InfoTask
    BY DEF SyncsAliases, Task, AddTask, RemoveTask, InfoTask, ImportTask, KeysTask, SyncTask
  <1>2. t.name \in Names /\ cfg.entries[t.name] \in Entry
    BY <1>1 DEF InfoTask, Rejected, Has, Config
  <1>3. Edited(t, cfg) = SetInfo(t, cfg)
    BY <1>1 DEF Edited
  <1> DEFINE new == SetInfo(t, cfg)
  <1>4. new.keysDir = cfg.keysDir
    BY <1>2 DEF SetInfo, Config
  <1>5. \A n \in Names : n # t.name => new.entries[n] = cfg.entries[n]
    BY <1>2 DEF SetInfo, Config
  <1>6. /\ new.entries[t.name] \in Entry
        /\ new.entries[t.name].host = cfg.entries[t.name].host
        /\ new.entries[t.name].opt = cfg.entries[t.name].opt
    BY <1>1, <1>2 DEF SetInfo, Config, Entry, InfoTask
  <1>7. Has(new, t.name) /\ Has(cfg, t.name)
    BY <1>2, <1>6, EntryAssumption DEF Has, Entry
  <1>8. \A n \in Names :
          (IF Has(new, n) THEN [host |-> new.entries[n].host, opt |-> new.entries[n].opt]
                          ELSE NoEntry)
          = (IF Has(cfg, n) THEN [host |-> cfg.entries[n].host, opt |-> cfg.entries[n].opt]
                            ELSE NoEntry)
    BY <1>5, <1>6, <1>7 DEF Has
  <1> HIDE DEF new
  <1> QED
    BY <1>3, <1>4, <1>8 DEF Aliases, new

LEMMA InitSerial == Init => Serial
  BY DEF Init, Serial, OneAtATime, Agrees, InSync, Active


\* Editors other than the one that steps are idle or through.
LEMMA OthersInactive ==
    ASSUME IInv, OneAtATime, NEW e \in Editors, Active(e)
    PROVE  \A d \in Editors \ {e} : phase[d] \in {"idle", "done", "failed"}
  BY DEF OneAtATime, Active, IInv, TypeOK

LEMMA NextSerial == IInv /\ Serial /\ [Next]_vars => Serial'
  <1> SUFFICES ASSUME IInv, Serial, [Next]_vars, ~disturbed'
               PROVE  /\ OneAtATime'
                      /\ \A d \in Editors : Agrees(d)'
                      /\ (\A d \in Editors : ~Active(d)') => InSync'
    BY DEF Serial
  <1>1. CASE UNCHANGED vars
    BY <1>1 DEF vars, Serial, OneAtATime, Agrees, InSync, Active, Loaded
  <1>2. ASSUME NEW e \in Editors, Edit(e)
        PROVE  /\ OneAtATime'
               /\ \A d \in Editors : Agrees(d)'
               /\ (\A d \in Editors : ~Active(d)') => InSync'
    <2> USE DEF Goto
    <2>t. TypeOK /\ TypeOK' /\ task[e] \in Task
      BY NextTyping, TasksAssumption DEF IInv, TypeOK
    <2>c. Loaded \in Config
      BY <2>t, LoadedIsConfig
    <2>0. ~disturbed /\ OneAtATime /\ \A d \in Editors : Agrees(d)
      BY <1>2, <2>t
      DEF Serial, Edit, Load, Refused, Truncate, Write, SyncAliasesFile, Stop, NoteOverlap, TypeOK
    <2>1. CASE Load(e)
      <3>1. \A d \in Editors : ~Active(d)
        BY <2>1 DEF Load, NoteOverlap
      <3>2. InSync /\ stopped = {}
        BY <2>0, <3>1 DEF Serial, OneAtATime
      <3>3. /\ UNCHANGED <<task, file, aliases, stopped>>
            /\ phase' = [phase EXCEPT ![e] = phase'[e]]
            /\ copy'[e] = Edited(task[e], Loaded)
            /\ ~Rejected(task[e], Loaded)
            /\ Usable(e)
        BY <2>1, <2>t DEF Load, TypeOK
      <3>4. \A d \in Editors \ {e} : phase'[d] \in {"idle", "done", "failed"}
        BY <2>t, <3>1, <3>2, <3>3 DEF Active, TypeOK
      <3>5. OneAtATime'
        BY <3>2, <3>3, <3>4 DEF OneAtATime, Active
      <3>6. InSync' /\ Loaded' = Loaded
        BY <3>2, <3>3 DEF InSync, Loaded
      <3>7. CASE task[e].op = "sync"
        <4>1. phase'[e] = "saved" /\ file \in Config
          BY <2>1, <2>t, <3>3, <3>7 DEF Load, TypeOK, Usable, StartsFromNothing
        <4>2. copy'[e] = file
          BY <3>3, <3>7, <4>1 DEF Edited, Loaded
        <4>3. \A d \in Editors : Agrees(d)'
          BY <3>3, <3>4, <4>1, <4>2 DEF Agrees
        <4> QED
          BY <3>5, <3>6, <4>3
      <3>8. CASE task[e].op # "sync"
        <4>1. phase'[e] = "loaded"
          BY <2>1, <2>t, <3>8 DEF Load, TypeOK
        <4>2. SyncsAliases(task[e]) \/ file \in Config
          BY <3>3 DEF Usable, StartsFromNothing, SyncsAliases
        <4>3. Agrees(e)'
          BY <3>3, <3>6, <4>1, <4>2 DEF Agrees
        <4>4. \A d \in Editors \ {e} : Agrees(d)'
          BY <3>4 DEF Agrees
        <4> QED
          BY <3>5, <3>6, <4>3, <4>4
      <3> QED
        BY <3>7, <3>8
    <2>2. CASE Refused(e)
      <3>1. \A d \in Editors : ~Active(d)
        BY <2>2 DEF Refused, NoteOverlap
      <3>2. InSync /\ stopped = {}
        BY <2>0, <3>1 DEF Serial, OneAtATime
      <3>3. /\ UNCHANGED <<task, file, aliases, stopped, copy>>
            /\ \A d \in Editors : phase'[d] \in {"idle", "done", "failed"}
        BY <2>2, <2>t, <3>1, <3>2 DEF Refused, TypeOK, Active
      <3> QED
        BY <3>2, <3>3 DEF OneAtATime, Active, Agrees, InSync
    <2>3. CASE Truncate(e)
      <3>1. Active(e) /\ Agrees(e)
        BY <2>0, <2>3 DEF Truncate, Active
      <3>2. \A d \in Editors \ {e} : phase[d] \in {"idle", "done", "failed"}
        BY <2>0, <3>1, OthersInactive
      <3>3. /\ UNCHANGED <<task, aliases, copy, stopped>>
            /\ file' = Empty
            /\ phase[e] = "loaded" /\ phase'[e] = "truncated"
            /\ \A d \in Editors \ {e} : phase'[d] = phase[d]
        BY <2>3, <2>t DEF Truncate, TypeOK
      <3>4. ~SyncsAliases(task[e]) => aliases = Aliases(copy[e])
        <4> SUFFICES ASSUME ~SyncsAliases(task[e]) PROVE aliases = Aliases(copy[e])
          OBVIOUS
        <4>1. /\ file \in Config /\ InSync
              /\ ~Rejected(task[e], Loaded) /\ copy[e] = Edited(task[e], Loaded)
          BY <3>1, <3>3 DEF Agrees
        <4>2. Aliases(copy[e]) = Aliases(file)
          BY <2>t, <4>1, InfoKeepsAliases DEF Loaded
        <4> QED
          BY <4>1, <4>2 DEF InSync
      <3>5. OneAtATime' /\ Active(e)'
        BY <2>0, <3>2, <3>3 DEF OneAtATime, Active
      <3>6. Agrees(e)'
        BY <3>3, <3>4 DEF Agrees
      <3>7. \A d \in Editors \ {e} : Agrees(d)'
        BY <3>2, <3>3 DEF Agrees
      <3> QED
        BY <3>5, <3>6, <3>7
    <2>4. CASE Write(e)
      <3>1. Active(e) /\ Agrees(e) /\ phase[e] = "truncated" /\ file = Empty
        BY <2>0, <2>4 DEF Write, Active, Agrees
      <3>2. \A d \in Editors \ {e} : phase[d] \in {"idle", "done", "failed"}
        BY <2>0, <3>1, OthersInactive
      <3>3. /\ UNCHANGED <<task, aliases, copy, stopped>>
            /\ file' = copy[e]
            /\ phase'[e] = IF SyncsAliases(task[e]) THEN "saved" ELSE "done"
            /\ \A d \in Editors \ {e} : phase'[d] = phase[d]
        BY <2>4, <2>t, <3>1 DEF Write, TypeOK
      <3>4. \A d \in Editors \ {e} : Agrees(d)' /\ ~Active(d)'
        BY <3>2, <3>3 DEF Agrees, Active
      <3>5. Agrees(e)'
        BY <3>3 DEF Agrees
      <3>6. OneAtATime'
        BY <2>0, <3>3, <3>4 DEF OneAtATime
      <3>7. ASSUME ~Active(e)' PROVE InSync'
        BY <2>0, <3>1, <3>3, <3>7 DEF OneAtATime, Active, Agrees, InSync
      <3> QED
        BY <3>4, <3>5, <3>6, <3>7
    <2>5. CASE SyncAliasesFile(e)
      <3>1. Active(e) /\ Agrees(e) /\ phase[e] = "saved" /\ file = copy[e]
        BY <2>0, <2>5 DEF SyncAliasesFile, Active, Agrees
      <3>2. \A d \in Editors \ {e} : phase[d] \in {"idle", "done", "failed"}
        BY <2>0, <3>1, OthersInactive
      <3>3. /\ UNCHANGED <<task, file, copy, stopped>>
            /\ aliases' = Aliases(file)
            /\ \A d \in Editors : phase'[d] \in {"idle", "done", "failed"}
        BY <2>5, <2>t, <3>1, <3>2 DEF SyncAliasesFile, TypeOK
      <3> QED
        BY <2>0, <3>3 DEF OneAtATime, Active, Agrees, InSync
    <2>6. ~Stop(e)
      BY DEF Stop
    <2> QED
      BY <1>2, <2>1, <2>2, <2>3, <2>4, <2>5, <2>6 DEF Edit
  <1> QED
    BY <1>1, <1>2 DEF Next

LEMMA SerialInvariance == Spec => [](IInv /\ Serial)
  BY InitInv, NextInv, InitSerial, NextSerial, PTL DEF Spec

\* When no edit is under way and none has been disturbed, the aliases file is
\* that of the configuration (alias.go:143-205, README.md:24).
THEOREM AliasesAreInSync == Spec => []AliasesInSync
  <1>1. IInv /\ Serial => AliasesInSync
    BY DEF AliasesInSync, Serial, InSync, Active
  <1> QED
    BY SerialInvariance, <1>1, PTL

-----------------------------------------------------------------------------
\* The store implements the registry, if the file parses to begin with.

FileSound ==
    ~disturbed =>
        \/ file \in Config \union {Missing}
        \/ \E e \in Editors : phase[e] = "truncated"

LEMMA NextFileSound ==
    IInv /\ Serial /\ FileSound /\ [Next]_vars => FileSound'
  <1> SUFFICES ASSUME IInv, Serial, FileSound, [Next]_vars, ~disturbed'
               PROVE  \/ file' \in Config \union {Missing}
                      \/ \E d \in Editors : phase'[d] = "truncated"
    BY DEF FileSound
  <1>1. CASE UNCHANGED vars
    BY <1>1 DEF vars, FileSound
  <1>2. ASSUME NEW e \in Editors, Edit(e)
        PROVE  \/ file' \in Config \union {Missing}
               \/ \E d \in Editors : phase'[d] = "truncated"
    <2> USE DEF Goto
    <2>t. TypeOK
      BY DEF IInv
    <2>0. ~disturbed /\ \A d \in Editors : Agrees(d)
      BY <1>2, <2>t
      DEF Serial, Edit, Load, Refused, Truncate, Write, SyncAliasesFile, Stop, NoteOverlap, TypeOK
    <2>1. CASE Load(e) \/ Refused(e) \/ SyncAliasesFile(e)
      <3>1. file' = file /\ \A d \in Editors \ {e} : phase'[d] = phase[d]
        BY <2>1, <2>t DEF Load, Refused, SyncAliasesFile, TypeOK
      <3>2. phase[e] # "truncated"
        BY <2>1 DEF Load, Refused, SyncAliasesFile
      <3> QED
        BY <2>0, <3>1, <3>2 DEF FileSound
    <2>2. CASE Truncate(e)
      BY <2>2, <2>t DEF Truncate, TypeOK
    <2>3. CASE Write(e)
      <3>1. file = Empty
        BY <2>0, <2>3 DEF Agrees, Write
      <3> QED
        BY <2>3, <2>t, <3>1 DEF Write, TypeOK
    <2>4. ~Stop(e)
      BY DEF Stop
    <2> QED
      BY <1>2, <2>1, <2>2, <2>3, <2>4 DEF Edit
  <1> QED
    BY <1>1, <1>2 DEF Next

\* Registry applies the same edits.
LEMMA SameEdits ==
    ASSUME NEW t, NEW cfg
    PROVE  /\ Abstract!Rejected(t, cfg) <=> Rejected(t, cfg)
           /\ Abstract!Edited(t, cfg) = Edited(t, cfg)
           /\ Abstract!StartsFromNothing(t) <=> StartsFromNothing(t)
           /\ Abstract!EmptyConfig = EmptyConfig
           /\ Abstract!Config = Config /\ Abstract!Task = Task
  <1>1. Abstract!Taken(t, cfg) = Taken(t, cfg)
    BY DEF Abstract!Taken, Taken, Abstract!Has, Has
  <1>2. Abstract!Rejected(t, cfg) <=> Rejected(t, cfg)
    BY <1>1 DEF Abstract!Rejected, Rejected, Abstract!Has, Has
  <1>3. \A old : Abstract!Added(t, old) = Added(t, old) /\ Abstract!Imported(t, old) = Imported(t, old)
    BY DEF Abstract!Added, Added, Abstract!Imported, Imported, Abstract!Orelse, Orelse
  <1>4. Abstract!Import(t, cfg) = Import(t, cfg)
    BY <1>1, <1>3 DEF Abstract!Import, Import
  <1>5. Abstract!Add(t, cfg) = Add(t, cfg)
    BY <1>3 DEF Abstract!Add, Add
  <1>6. Abstract!Remove(t, cfg) = Remove(t, cfg) /\ Abstract!SetInfo(t, cfg) = SetInfo(t, cfg)
    BY DEF Abstract!Remove, Remove, Abstract!SetInfo, SetInfo
  <1>7. Abstract!SetKeysDir(t, cfg) = SetKeysDir(t, cfg)
    BY DEF Abstract!SetKeysDir, SetKeysDir
  <1>8. Abstract!Edited(t, cfg) = Edited(t, cfg)
    BY <1>4, <1>5, <1>6, <1>7 DEF Abstract!Edited, Edited
  <1>9. Abstract!Config = Config /\ Abstract!Task = Task /\ Abstract!EmptyConfig = EmptyConfig
    BY DEF Abstract!Config, Config, Abstract!Entry, Entry, Abstract!Task, Task, Abstract!AddTask,
           AddTask, Abstract!RemoveTask, RemoveTask, Abstract!InfoTask, InfoTask,
           Abstract!ImportTask, ImportTask, Abstract!KeysTask, KeysTask, Abstract!SyncTask,
           SyncTask, Abstract!EmptyConfig, EmptyConfig
  <1> QED
    BY <1>2, <1>8, <1>9 DEF Abstract!StartsFromNothing, StartsFromNothing

\* While at most one edit is under way, the configuration that the registry holds
\* is what the editor that has truncated the file is about to write.
LEMMA MappedTruncated ==
    ASSUME OneAtATime, NEW e \in Editors, phase[e] = "truncated"
    PROVE  Mapped = copy[e]
  <1>1. \A d \in Editors : phase[d] = "truncated" => d = e
    BY DEF OneAtATime, Active
  <1>2. (CHOOSE d \in Editors : phase[d] = "truncated") = e
    BY <1>1
  <1> QED
    BY <1>2 DEF Mapped

LEMMA MappedUntouched ==
    ASSUME \A e \in Editors : phase[e] # "truncated"
    PROVE  Mapped = Loaded
  BY DEF Mapped

LEMMA StepImplements ==
    ASSUME IInv, IInv', Serial, Serial', FileSound, [Next]_vars
    PROVE  [Abstract!Next]_<<task, Mapped, Finished, disturbed>>
  <1>1. CASE UNCHANGED vars
    BY <1>1 DEF vars, Mapped, Finished, Loaded
  <1>2. CASE disturbed'
    <2>1. task' = task
      BY DEF Next, vars, Edit, Load, Refused, Truncate, Write, SyncAliasesFile, Stop
    <2> QED
      BY <1>2, <2>1 DEF Abstract!Next, Abstract!Disturbed
  <1>3. ASSUME ~disturbed', NEW e \in Editors, Edit(e)
        PROVE  [Abstract!Next]_<<task, Mapped, Finished, disturbed>>
    <2> USE DEF Goto
    <2>t. TypeOK /\ TypeOK'
      BY DEF IInv
    <2>0. ~disturbed /\ OneAtATime /\ OneAtATime' /\ \A d \in Editors : Agrees(d)
      BY <1>3, <2>t
      DEF Serial, Edit, Load, Refused, Truncate, Write, SyncAliasesFile, Stop, NoteOverlap, TypeOK
    <2>1. task' = task /\ disturbed' = disturbed
      BY <1>3, <2>0, <2>t
      DEF Edit, Load, Refused, Truncate, Write, SyncAliasesFile, Stop, TypeOK
    <2>2. ASSUME e \notin Finished, Finished' = Finished \union {e},
                 Abstract!Apply(e) \/ Abstract!Refuse(e)
          PROVE  [Abstract!Next]_<<task, Mapped, Finished, disturbed>>
      BY <1>3, <2>1, <2>2 DEF Abstract!Next, Abstract!Finish
    <2>3. CASE Load(e) \/ Refused(e)
      <3>1. /\ \A d \in Editors : phase[d] \in {"idle", "done", "failed"}
            /\ phase[e] = "idle"
        BY <2>0, <2>3, <2>t, <1>3 DEF Load, Refused, NoteOverlap, OneAtATime, Active, TypeOK
      <3>2. /\ \A d \in Editors \ {e} : phase'[d] = phase[d]
            /\ phase'[e] \in {"loaded", "saved", "failed"}
            /\ file' = file
        BY <2>3, <2>t DEF Load, Refused, TypeOK
      <3>3. Mapped = Loaded /\ Mapped' = Loaded
        BY <3>1, <3>2 DEF Mapped, Loaded
      <3>4. phase'[e] # "loaded" => e \notin Finished /\ Finished' = Finished \union {e}
        BY <3>1, <3>2 DEF Finished
      <3>5. CASE Load(e)
        <4>1. CASE task[e].op = "sync"
          <5>1. phase'[e] = "saved" /\ ~Rejected(task[e], Loaded)
            BY <2>t, <3>5, <4>1 DEF Load, TypeOK
          <5>2. Edited(task[e], Loaded) = Loaded
            BY <4>1 DEF Edited
          <5> QED
            BY <2>2, <3>3, <3>4, <5>1, <5>2, SameEdits DEF Abstract!Apply
        <4>2. CASE task[e].op # "sync"
          <5>1. phase'[e] = "loaded"
            BY <2>t, <3>5, <4>2 DEF Load, TypeOK
          <5>2. Finished' = Finished
            BY <3>1, <3>2, <5>1 DEF Finished
          <5> QED
            BY <2>1, <3>3, <5>2
        <4> QED
          BY <4>1, <4>2
      <3>6. CASE Refused(e)
        <4>1. phase'[e] = "failed"
          BY <2>t, <3>6 DEF Refused, TypeOK
        <4>2. file \in Config \union {Missing}
          BY <2>0, <3>1 DEF FileSound
        <4>3. Rejected(task[e], Loaded) \/ (Loaded = EmptyConfig /\ ~StartsFromNothing(task[e]))
          BY <3>6, <4>2 DEF Refused, Usable, Loaded
        <4> QED
          BY <2>2, <3>3, <3>4, <4>1, <4>3, SameEdits DEF Abstract!Refuse
      <3> QED
        BY <2>3, <3>5, <3>6
    <2>4. CASE Truncate(e)
      <3>1. Active(e) /\ phase[e] = "loaded" /\ Agrees(e)
        BY <2>0, <2>4 DEF Truncate, Active
      <3>2. \A d \in Editors \ {e} : phase[d] \in {"idle", "done", "failed"}
        BY <2>0, <3>1, OthersInactive
      <3>3. /\ copy' = copy /\ phase'[e] = "truncated"
            /\ \A d \in Editors \ {e} : phase'[d] = phase[d]
        BY <2>4, <2>t DEF Truncate, TypeOK
      <3>4. Mapped = Loaded
        BY <3>1, <3>2 DEF Mapped
      <3>5. Mapped' = copy[e]
        <4>1. \A d \in Editors : phase'[d] = "truncated" => d = e
          BY <3>2, <3>3
        <4>2. (CHOOSE d \in Editors : phase'[d] = "truncated") = e
          BY <3>3, <4>1
        <4> QED
          BY <3>3, <4>2 DEF Mapped
      <3>6. Abstract!Apply(e)
        BY <3>1, <3>4, <3>5, SameEdits DEF Agrees, Abstract!Apply
      <3>7. e \notin Finished /\ Finished' = Finished \union {e}
        BY <3>1, <3>3 DEF Finished
      <3> QED
        BY <2>2, <3>6, <3>7
    <2>5. CASE Write(e)
      <3>1. Active(e) /\ phase[e] = "truncated" /\ file = Empty /\ copy[e] \in Config
        BY <2>0, <2>5, <2>t DEF Write, Active, Agrees, TypeOK
      <3>2. \A d \in Editors \ {e} : phase[d] \in {"idle", "done", "failed"}
        BY <2>0, <3>1, OthersInactive
      <3>3. /\ file' = copy[e] /\ phase'[e] \in {"saved", "done"}
            /\ \A d \in Editors \ {e} : phase'[d] = phase[d]
        BY <2>5, <2>t, <3>1 DEF Write, TypeOK
      <3>4. Mapped = copy[e]
        BY <2>0, <3>1, MappedTruncated
      <3>5. Mapped' = copy[e]
        BY <3>1, <3>2, <3>3 DEF Mapped, Loaded
      <3>6. Finished' = Finished
        BY <3>1, <3>3 DEF Finished
      <3> QED
        BY <2>1, <3>4, <3>5, <3>6
    <2>6. CASE SyncAliasesFile(e)
      <3>1. /\ file' = file /\ copy' = copy
            /\ phase[e] = "saved" /\ phase'[e] = "done"
            /\ \A d \in Editors \ {e} : phase'[d] = phase[d]
        BY <2>6, <2>t DEF SyncAliasesFile, TypeOK
      <3>2. Active(e)
        BY <2>0, <3>1 DEF OneAtATime, Active
      <3>3. \A d \in Editors : phase[d] # "truncated" /\ phase'[d] # "truncated"
        BY <2>0, <3>1, <3>2, OthersInactive
      <3>4. Mapped' = Mapped /\ Finished' = Finished
        BY <3>1, <3>3 DEF Mapped, Loaded, Finished
      <3> QED
        BY <2>1, <3>4
    <2>7. ~Stop(e)
      BY <1>3 DEF Stop
    <2> QED
      BY <1>3, <2>3, <2>4, <2>5, <2>6, <2>7 DEF Edit
  <1> QED
    BY <1>1, <1>2, <1>3 DEF Next

\* Edits that come one at a time and are not cut short are applied as a whole,
\* each to what the one before has left (config.go:94-121).
THEOREM StoreIsRegistry == ASSUME Corrupt \notin Configs PROVE Spec => IsRegistry
  <1>1. Init => Abstract!Init
    <2> SUFFICES ASSUME Init PROVE Abstract!Init
      OBVIOUS
    <2>1. Mapped = Loaded /\ Loaded \in Config
      BY InitInv, LoadedIsConfig DEF Init, Mapped, IInv
    <2>2. task \in [Editors -> Task]
      BY TasksAssumption DEF Init
    <2> QED
      BY <2>1, <2>2, SameEdits DEF Init, Finished, Abstract!Init
  <1>2. Init => FileSound
    BY FileAssumption DEF Init, FileSound
  <1>3. Spec => []FileSound
    BY <1>2, SerialInvariance, NextFileSound, PTL DEF Spec
  <1>4. IInv /\ IInv' /\ Serial /\ Serial' /\ FileSound /\ [Next]_vars
          => [Abstract!Next]_<<task, Mapped, Finished, disturbed>>
    BY StepImplements
  <1> QED
    BY <1>1, <1>3, <1>4, SerialInvariance, PTL DEF Spec, IsRegistry, Abstract!Spec
=============================================================================
