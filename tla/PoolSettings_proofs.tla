------------------------- MODULE PoolSettings_proofs -------------------------
(***************************************************************************)
(* When a pooled connection can have been dialed with other settings than  *)
(* those of the configuration file, for any number of servers, invocations *)
(* and edits.                                                              *)
(***************************************************************************)
EXTENDS PoolSettings, SSHPool_proofs

\* An invocation in flight with settings that have been replaced is excused.
InFlightExcused ==
    \A g \in Gets : InFlight(g) /\ entry[g] # entries[server[g]] => g \in excused

\* Whatever is pooled between the eviction and the save of an edit was
\* published in between.
PublishedSinceEvicted ==
    \A a \in Edits, g \in Gets :
        stage[a] = "evicted" /\ clients[target[a]] = g => g \in excused

SInv == IInv /\ SettingsTypeOK /\ InFlightExcused /\ PublishedSinceEvicted /\ OutdatedIsExcused

LEMMA SInitInv == SettingsInit => SInv
  <1> SUFFICES ASSUME SettingsInit
               PROVE  SInv
    OBVIOUS
  <1>1. IInv
    BY InitInv DEF SettingsInit
  <1>2. SettingsTypeOK
    BY <1>1 DEF SettingsInit, SettingsTypeOK, IInv, Init
  <1>3. InFlightExcused /\ PublishedSinceEvicted /\ OutdatedIsExcused
    BY NoClientAssumption
    DEF SettingsInit, Init, InFlightExcused, InFlight, PublishedSinceEvicted, OutdatedIsExcused
  <1> QED
    BY <1>1, <1>2, <1>3 DEF SInv

\* The pool below takes a step of its own, or none.
LEMMA StepsOfPool ==
    ASSUME SettingsTypeOK, [SettingsNext]_allVars
    PROVE  [Next]_vars
  <1>1. ASSUME NEW g \in Gets, PoolCall(g)
        PROVE  Next
    BY <1>1 DEF PoolCall, Next
  <1>2. ASSUME NEW a \in Edits, LoadForEdit(a)
        PROVE  UNCHANGED vars
    BY <1>2 DEF LoadForEdit
  <1>3. ASSUME NEW a \in Edits, CloseEdited(a)
        PROVE  Next
    BY <1>3 DEF CloseEdited, SettingsTypeOK, Next, Environment
  <1>4. ASSUME NEW a \in Edits, SaveEdited(a)
        PROVE  Next
    <2> DEFINE saved == [loaded[a] EXCEPT ![target[a]] = new[a]]
    <2>1. saved \in [Servers -> Entries \union {NoEntry}] /\ SaveConfig(saved)
      BY <1>4 DEF SaveEdited, SettingsTypeOK
    <2> QED
      BY <2>1 DEF Next, Environment
  <1>5. CASE SaveElsewhere
    BY <1>5 DEF SaveElsewhere, Next, Environment
  <1>6. ASSUME NEW s \in Servers, NEW fact \in Facts, EditSSHConfig(s, fact)
        PROVE  UNCHANGED vars
    BY <1>6 DEF EditSSHConfig
  <1>7. CASE Others
    BY <1>7 DEF Others, Next, Environment
  <1>8. CASE UNCHANGED allVars
    BY <1>8 DEF allVars
  <1> QED
    BY <1>1, <1>2, <1>3, <1>4, <1>5, <1>6, <1>7, <1>8 DEF SettingsNext

LEMMA SettingsTypingInv ==
    ASSUME SInv, [SettingsNext]_allVars
    PROVE  SettingsTypeOK'
  <1> USE DEF SettingsTypeOK, editVars
  <1>1. TypeOK'
    BY StepsOfPool, NextInv DEF SInv, IInv
  <1>2. SettingsTypeOK
    BY DEF SInv
  <1>3. ASSUME NEW g \in Gets, PoolCall(g)
        PROVE  SettingsTypeOK'
    <2>1. server[g] \in Servers
      BY <1>2 DEF TypeOK
    <2> QED
      BY <1>1, <1>2, <1>3, <2>1 DEF PoolCall
  <1>4. ASSUME NEW a \in Edits, LoadForEdit(a)
        PROVE  SettingsTypeOK'
    BY <1>1, <1>2, <1>4 DEF LoadForEdit, TypeOK
  <1>5. ASSUME NEW a \in Edits, CloseEdited(a)
        PROVE  SettingsTypeOK'
    BY <1>1, <1>2, <1>5 DEF CloseEdited
  <1>6. ASSUME NEW a \in Edits, SaveEdited(a)
        PROVE  SettingsTypeOK'
    BY <1>1, <1>2, <1>6 DEF SaveEdited, LeftBehind
  <1>7. CASE SaveElsewhere
    BY <1>1, <1>2, <1>7 DEF SaveElsewhere, LeftBehind
  <1>8. ASSUME NEW s \in Servers, NEW fact \in Facts, EditSSHConfig(s, fact)
        PROVE  SettingsTypeOK'
    BY <1>1, <1>2, <1>8 DEF EditSSHConfig
  <1>9. CASE Others
    BY <1>1, <1>2, <1>9 DEF Others
  <1>10. CASE UNCHANGED allVars
    BY <1>1, <1>2, <1>10 DEF allVars
  <1> QED
    BY <1>3, <1>4, <1>5, <1>6, <1>7, <1>8, <1>9, <1>10 DEF SettingsNext

\* A step that publishes nothing and changes no settings keeps what is excused.
LEMMA NothingPublished ==
    ASSUME SInv, UNCHANGED <<entries, entry, server, stage, target, excused>>,
           \A s \in Servers : clients'[s] \in {clients[s], NoClient},
           \A h \in Gets : InFlight(h)' => InFlight(h)
    PROVE  InFlightExcused' /\ PublishedSinceEvicted' /\ OutdatedIsExcused'
  <1>1. InFlightExcused'
    BY DEF SInv, InFlightExcused
  <1>2. \A s \in Servers, h \in Gets : clients'[s] = h => clients[s] = h
    BY NoClientAssumption
  <1>3. \A a \in Edits : target[a] \in Servers
    BY DEF SInv, SettingsTypeOK
  <1>4. PublishedSinceEvicted'
    BY <1>2, <1>3 DEF SInv, PublishedSinceEvicted
  <1>5. OutdatedIsExcused'
    BY <1>2 DEF SInv, OutdatedIsExcused
  <1> QED
    BY <1>1, <1>4, <1>5

\* A step of GetClient: what it publishes is excused if need be.
LEMMA PoolCallExcused ==
    ASSUME SInv, NEW g \in Gets, PoolCall(g)
    PROVE  InFlightExcused' /\ PublishedSinceEvicted' /\ OutdatedIsExcused'
  <1>0. /\ clients \in [Servers -> Gets \union {NoClient}]
        /\ pc \in [Gets -> Stages]
        /\ server \in [Gets -> Servers]
        /\ entry \in [Gets -> Entries \union {NoEntry}]
        /\ ret \in [Gets -> Gets \union {NoClient}]
        /\ target \in [Edits -> Servers]
    BY DEF SInv, SettingsTypeOK, TypeOK
  <1> USE NoClientAssumption, <1>0
      DEF SInv, IInv, SettingsTypeOK, Held, PoolHoldsPublished, InFlightExcused,
          PublishedSinceEvicted, OutdatedIsExcused, InFlight, PoolCall, Goto, Return, editVars
  <1>1. CASE LoadEntry(g)
    <2>1. /\ pc[g] = "idle"
          /\ entry' = [entry EXCEPT ![g] = entries[server[g]]]
          /\ pc' = [pc EXCEPT ![g] = "lookup"]
          /\ UNCHANGED <<entries, clients, server, stage, target, excused>>
      BY <1>1 DEF LoadEntry
    <2>2. \A s \in Servers : clients[s] # g
      BY <2>1
    <2>3. InFlightExcused'
      BY <2>1
    <2>4. PublishedSinceEvicted'
      BY <2>1
    <2>5. OutdatedIsExcused'
      BY <2>1, <2>2
    <2> QED
      BY <2>3, <2>4, <2>5
  <1>2. CASE NotConfigured(g) \/ LoadFails(g)
    <2>1. /\ pc' = [pc EXCEPT ![g] = "returned"]
          /\ UNCHANGED <<entries, clients, entry, server, stage, target>>
          /\ pc[g] = "idle" /\ excused' = excused
      BY <1>2 DEF NotConfigured, LoadFails
    <2>2. \A h \in Gets : InFlight(h)' => InFlight(h)
      BY <2>1
    <2> QED
      BY <2>1, <2>2, NothingPublished
  <1>3. CASE Lookup(g) \/ ProbeAnswered(g) \/ Reuse(g) \/ ProbeFailed(g)
    <2>1. /\ pc[g] \in {"lookup", "probe", "reuse"}
          /\ pc' = [pc EXCEPT ![g] = pc'[g]]
          /\ UNCHANGED <<entries, clients, entry, server, stage, target, excused>>
      BY <1>3 DEF Lookup, ProbeAnswered, Reuse, ProbeFailed
    <2>2. \A h \in Gets : InFlight(h)' => InFlight(h)
      BY <2>1
    <2> QED
      BY <2>1, <2>2, NothingPublished
  <1>4. CASE Drop(g)
    <2>1. /\ pc[g] = "drop"
          /\ pc' = [pc EXCEPT ![g] = "connect"]
          /\ \A s \in Servers : clients'[s] \in {clients[s], NoClient}
          /\ UNCHANGED <<entries, entry, server, stage, target, excused>>
      BY <1>4 DEF Drop
    <2>2. \A h \in Gets : InFlight(h)' => InFlight(h)
      BY <2>1
    <2> QED
      BY <2>1, <2>2, NothingPublished
  <1>5. CASE Connect(g) \/ ConnectFails(g) \/ Handshake(g) \/ HandshakeFails(g)
    <2>1. /\ pc[g] \in {"connect", "handshake"}
          /\ pc' = [pc EXCEPT ![g] = pc'[g]]
          /\ UNCHANGED <<entries, clients, entry, server, stage, target, excused>>
      BY <1>5 DEF Connect, ConnectFails, Handshake, HandshakeFails
    <2>2. \A h \in Gets : InFlight(h)' => InFlight(h)
      BY <2>1
    <2> QED
      BY <2>1, <2>2, NothingPublished
  <1>6. CASE Publish(g)
    <2>1. /\ pc[g] = "publish"
          /\ pc' = [pc EXCEPT ![g] = "returned"]
          /\ UNCHANGED <<entries, entry, server, stage, target>>
          /\ excused \subseteq excused'
      BY <1>6 DEF Publish
    <2>2. InFlightExcused'
      BY <2>1
    <2>3. CASE UNCHANGED clients
      BY <2>1, <2>2, <2>3
    <2>4. CASE clients' = [clients EXCEPT ![server[g]] = g] /\ ret' = [ret EXCEPT ![g] = g]
      <3>1. ASSUME NEW a \in Edits, stage[a] = "evicted", target[a] = server[g]
            PROVE  g \in excused'
        BY <2>1, <2>4, <3>1
      <3>2. \A s \in Servers, h \in Gets :
                clients'[s] = h => clients[s] = h \/ (s = server[g] /\ h = g)
        BY <2>4
      <3>3. PublishedSinceEvicted'
        <4> SUFFICES ASSUME NEW a \in Edits, NEW h \in Gets,
                            stage[a] = "evicted", clients'[target[a]] = h
                     PROVE  h \in excused'
          BY <2>1
        <4>1. target[a] \in Servers
          OBVIOUS
        <4> QED
          BY <2>1, <3>1, <3>2, <4>1
      <3>4. OutdatedIsExcused'
        <4> SUFFICES ASSUME NEW s \in Servers, NEW h \in Gets,
                            clients'[s] = h, entry[h] # entries[s]
                     PROVE  h \in excused'
          BY <2>1
        <4>1. CASE clients[s] = h
          BY <2>1, <4>1
        <4>2. CASE s = server[g] /\ h = g
          BY <2>1, <4>2
        <4> QED
          BY <3>2, <4>1, <4>2
      <3> QED
        BY <2>2, <3>3, <3>4
    <2> QED
      BY <1>6, <2>3, <2>4 DEF Publish
  <1> QED
    BY <1>1, <1>2, <1>3, <1>4, <1>5, <1>6 DEF GetClient

LEMMA EditExcused ==
    ASSUME SInv, NEW a \in Edits, LoadForEdit(a) \/ CloseEdited(a) \/ SaveEdited(a)
    PROVE  InFlightExcused' /\ PublishedSinceEvicted' /\ OutdatedIsExcused'
  <1> USE NoClientAssumption
      DEF SInv, SettingsTypeOK, TypeOK, InFlightExcused, PublishedSinceEvicted,
          OutdatedIsExcused, InFlight
  <1>1. CASE LoadForEdit(a)
    <2>1. /\ stage[a] = "idle"
          /\ stage' \in {[stage EXCEPT ![a] = "done"], [stage EXCEPT ![a] = "loaded"]}
          /\ UNCHANGED <<entries, clients, pc, server, entry, target, excused>>
      BY <1>1 DEF LoadForEdit, vars
    <2> QED
      BY <2>1
  <1>2. CASE CloseEdited(a)
    <2>1. /\ stage' = [stage EXCEPT ![a] = "evicted"]
          /\ clients' = [s \in Servers |-> IF s = target[a] THEN NoClient ELSE clients[s]]
          /\ UNCHANGED <<entries, pc, server, entry, target, excused>>
      BY <1>2 DEF CloseEdited, Close, Evict
    <2>2. InFlightExcused'
      BY <2>1
    <2>3. PublishedSinceEvicted'
      BY <2>1
    <2>4. OutdatedIsExcused'
      BY <2>1
    <2> QED
      BY <2>2, <2>3, <2>4
  <1>3. CASE SaveEdited(a)
    <2> DEFINE saved == [loaded[a] EXCEPT ![target[a]] = new[a]]
    <2>1. /\ stage[a] = "evicted"
          /\ entries' = saved
          /\ stage' = [stage EXCEPT ![a] = "done"]
          /\ excused' = excused \union LeftBehind(saved, Servers \ {target[a]})
          /\ UNCHANGED <<clients, pc, server, entry, target>>
      BY <1>3 DEF SaveEdited, SaveConfig
    <2> HIDE DEF saved
    <2>2. InFlightExcused'
      BY <2>1 DEF LeftBehind
    <2>3. PublishedSinceEvicted'
      BY <2>1
    <2>4. ASSUME NEW s \in Servers, NEW g \in Gets, clients[s] = g, entry[g] # saved[s]
          PROVE  g \in excused'
      <3>1. CASE s = target[a]
        BY <2>1, <2>4, <3>1
      <3>2. CASE s # target[a] /\ saved[s] # entries[s]
        BY <2>1, <2>4, <3>2 DEF LeftBehind
      <3>3. CASE saved[s] = entries[s]
        BY <2>1, <2>4, <3>3
      <3> QED
        BY <3>1, <3>2, <3>3
    <2>5. OutdatedIsExcused'
      BY <2>1, <2>4
    <2> QED
      BY <2>2, <2>3, <2>5
  <1> QED
    BY <1>1, <1>2, <1>3

LEMMA EnvironmentExcused ==
    ASSUME SInv,
           \/ SaveElsewhere
           \/ \E s \in Servers, fact \in Facts : EditSSHConfig(s, fact)
           \/ Others
           \/ UNCHANGED allVars
    PROVE  InFlightExcused' /\ PublishedSinceEvicted' /\ OutdatedIsExcused'
  <1> USE NoClientAssumption
      DEF SInv, SettingsTypeOK, TypeOK, InFlightExcused, PublishedSinceEvicted,
          OutdatedIsExcused, InFlight
  <1>1. CASE SaveElsewhere
    <2>1. PICK saved \in [Servers -> Entries \union {NoEntry}] :
              /\ entries' = saved
              /\ excused' = excused \union LeftBehind(saved, Servers)
              /\ UNCHANGED <<clients, pc, server, entry, stage, target>>
      BY <1>1 DEF SaveElsewhere, SaveConfig, editVars
    <2>2. InFlightExcused'
      BY <2>1 DEF LeftBehind
    <2>3. PublishedSinceEvicted'
      BY <2>1
    <2>4. OutdatedIsExcused'
      BY <2>1 DEF LeftBehind
    <2> QED
      BY <2>2, <2>3, <2>4
  <1>2. CASE \E s \in Servers, fact \in Facts : EditSSHConfig(s, fact)
    BY <1>2 DEF EditSSHConfig, vars, editVars
  <1>3. CASE Others
    <2>1. /\ \A s \in Servers : clients'[s] \in {clients[s], NoClient}
          /\ UNCHANGED <<entries, pc, server, entry, stage, target, excused>>
      BY <1>3 DEF Others, Close, CloseAll, Evict, Network, PeerChange, editVars
    <2> QED
      BY <2>1
  <1>4. CASE UNCHANGED allVars
    BY <1>4 DEF allVars, vars, editVars
  <1> QED
    BY <1>1, <1>2, <1>3, <1>4

LEMMA SNextInv == SInv /\ [SettingsNext]_allVars => SInv'
  <1> SUFFICES ASSUME SInv, [SettingsNext]_allVars
               PROVE  SInv'
    OBVIOUS
  <1>1. IInv'
    BY StepsOfPool, NextInv DEF SInv
  <1>2. SettingsTypeOK'
    BY SettingsTypingInv
  <1>3. InFlightExcused' /\ PublishedSinceEvicted' /\ OutdatedIsExcused'
    BY PoolCallExcused, EditExcused, EnvironmentExcused DEF SettingsNext
  <1> QED
    BY <1>1, <1>2, <1>3 DEF SInv

LEMMA SInvariance == SettingsSpec => []SInv
  BY SInitInv, SNextInv, PTL DEF SettingsSpec

-----------------------------------------------------------------------------
\* Edits, by this process or another, change the pool only as SSHPool allows
\* (mcp_server.go:585-706).
THEOREM SettingsUsePool == SettingsSpec => Spec
  <1>1. SettingsInit => Init
    BY DEF SettingsInit
  <1>2. SInv /\ [SettingsNext]_allVars => [Next]_vars
    BY StepsOfPool DEF SInv
  <1> QED
    BY SInvariance, <1>1, <1>2, PTL DEF SettingsSpec, Spec

\* So the promises of the pool survive edits of what it is dialed with: nothing is
\* leaked, nothing closed stays pooled, and nothing closed is returned but in the two
\* races of the pool (pool.go:62-101, mcp_server.go:667-672, 696-701).
THEOREM SettingsKeepPool ==
    SettingsSpec => /\ []NoLeakedConnection
                    /\ []ClosedNotPooled
                    /\ ReturnsOpenClient
  BY SettingsUsePool, NoLeak, ClosedLeavesPool, ReturnedIsOpen, PTL

\* The type invariant: every variable keeps its type (mcp_server.go:585-706).
THEOREM SettingsTyping == SettingsSpec => []SettingsTypeOK
  <1>1. SInv => SettingsTypeOK
    BY DEF SInv
  <1> QED
    BY SInvariance, <1>1, PTL

\* A pooled connection that was dialed with other settings than the file has
\* was published or dialed while they were being saved, or the save came from
\* elsewhere (mcp_server.go:667-672, 696-701, pool.go:89-97).
THEOREM OutdatedHasExcuse == SettingsSpec => []OutdatedIsExcused
  <1>1. SInv => OutdatedIsExcused
    BY DEF SInv
  <1> QED
    BY SInvariance, <1>1, PTL
=============================================================================
