---------------------------- MODULE SSHPool_proofs ----------------------------
(***************************************************************************)
(* Safety of the connection pool, for any number of servers, entries and   *)
(* concurrent invocations of GetClient.                                    *)
(***************************************************************************)
EXTENDS SSHPool, TLAPS

-----------------------------------------------------------------------------
(***************************************************************************)
(* The inductive invariant.  What must be added to the safety properties   *)
(* is who holds a connection: the invocation that dials it until it is     *)
(* published, then the pool; and that the client an invocation has found   *)
(* dead is closed from then on.                                            *)
(***************************************************************************)

\* The connection of an invocation follows its stage.
ConnFollowsStage ==
    \A g \in Gets :
        /\ pc[g] \in {"idle", "lookup", "probe", "reuse", "drop", "connect"} => conn[g] = "none"
        /\ pc[g] = "handshake" <=> conn[g] = "tcp"
        /\ pc[g] = "publish" => conn[g] \in {"up", "hung", "gone"}

\* A pooled connection was published under its own server's name.
PoolHoldsPublished ==
    \A s \in Servers :
        clients[s] # NoClient => pc[clients[s]] = "returned" /\ server[clients[s]] = s

\* The client found in the pool was published there, and is closed once the
\* invocation has found it dead.
SeenWasPublished ==
    \A g \in Gets :
        /\ seen[g] # NoClient => pc[seen[g]] = "returned" /\ server[seen[g]] = server[g]
        /\ pc[g] \in {"drop", "connect", "handshake", "publish"} /\ seen[g] # NoClient =>
              conn[seen[g]] = "closed"

Held == ConnFollowsStage /\ PoolHoldsPublished /\ SeenWasPublished

IInv == TypeOK /\ Held /\ NoLeakedConnection /\ ClosedNotPooled

-----------------------------------------------------------------------------
LEMMA InitInv == Init => IInv
  BY NoClientAssumption
  DEF Init, IInv, TypeOK, Stages, ConnStates, Held, ConnFollowsStage, PoolHoldsPublished,
      SeenWasPublished, NoLeakedConnection, ClosedNotPooled, Open

LEMMA NextTyping == TypeOK /\ [Next]_vars => TypeOK'
  <1> SUFFICES ASSUME TypeOK, [Next]_vars
               PROVE  TypeOK'
    OBVIOUS
  <1> USE DEF TypeOK, Stages, ConnStates
  <1>1. CASE UNCHANGED vars
    BY <1>1 DEF vars
  <1>2. CASE \E g \in Gets : GetClient(g)
    <2>1. PICK g \in Gets : GetClient(g)
      BY <1>2
    <2> QED
      BY <2>1 DEF GetClient, LoadEntry, NotConfigured, LoadFails, Lookup, ProbeAnswered,
         Reuse, ProbeFailed, Drop, Connect, ConnectFails, Handshake, HandshakeFails, Publish,
         Goto, Return
  <1>3. CASE Environment
    BY <1>3 DEF Environment, Close, CloseAll, Evict, SaveConfig, Network, PeerChange
  <1> QED
    BY <1>1, <1>2, <1>3 DEF Next

\* One step of GetClient keeps the invariant.
LEMMA GetClientInv ==
    ASSUME IInv, TypeOK', NEW g \in Gets, GetClient(g)
    PROVE  Held' /\ NoLeakedConnection' /\ ClosedNotPooled'
  <1> USE NoClientAssumption
      DEF IInv, TypeOK, Stages, ConnStates, Held, ConnFollowsStage, PoolHoldsPublished,
          SeenWasPublished, NoLeakedConnection, ClosedNotPooled, Open, Goto, Return
  <1>1. CASE LoadEntry(g)
    BY <1>1 DEF LoadEntry
  <1>2. CASE NotConfigured(g)
    BY <1>2 DEF NotConfigured
  <1>3. CASE LoadFails(g)
    BY <1>3 DEF LoadFails
  <1>4. CASE Lookup(g)
    BY <1>4 DEF Lookup
  <1>5. CASE ProbeAnswered(g) \/ Reuse(g)
    BY <1>5 DEF ProbeAnswered, Reuse
  <1>6. CASE ProbeFailed(g)
    BY <1>6 DEF ProbeFailed
  <1>7. CASE Drop(g)
    BY <1>7 DEF Drop
  <1>8. CASE Connect(g)
    BY <1>8 DEF Connect
  <1>9. CASE ConnectFails(g)
    BY <1>9 DEF ConnectFails
  <1>10. CASE Handshake(g)
    BY <1>10 DEF Handshake
  <1>11. CASE HandshakeFails(g)
    BY <1>11 DEF HandshakeFails
  <1>12. CASE Publish(g)
    <2> DEFINE other == clients[server[g]]
    <2>1. CASE /\ other \notin {NoClient, seen[g]}
               /\ conn' = [conn EXCEPT ![g] = "closed"]
               /\ Return(g, other)
               /\ UNCHANGED clients
      <3>1. Held'
        BY <1>12, <2>1 DEF Publish
      <3>2. NoLeakedConnection'
        BY <1>12, <2>1 DEF Publish
      <3>3. ClosedNotPooled'
        BY <1>12, <2>1 DEF Publish
      <3> QED
        BY <3>1, <3>2, <3>3
    <2>2. CASE /\ other \in {NoClient, seen[g]}
               /\ clients' = [clients EXCEPT ![server[g]] = g]
               /\ Return(g, g)
               /\ UNCHANGED conn
      <3>1. Held'
        BY <1>12, <2>2 DEF Publish
      <3>2. NoLeakedConnection'
        BY <1>12, <2>2 DEF Publish
      <3>3. ClosedNotPooled'
        BY <1>12, <2>2 DEF Publish
      <3> QED
        BY <3>1, <3>2, <3>3
    <2> QED
      BY <1>12, <2>1, <2>2 DEF Publish
  <1> QED
    BY <1>1, <1>2, <1>3, <1>4, <1>5, <1>6, <1>7, <1>8, <1>9, <1>10, <1>11, <1>12 DEF GetClient

\* Eviction of pooled connections, and what the network does, keep it.
LEMMA EnvironmentInv ==
    ASSUME IInv, TypeOK', Environment
    PROVE  Held' /\ NoLeakedConnection' /\ ClosedNotPooled'
  <1> USE NoClientAssumption
      DEF IInv, TypeOK, Stages, ConnStates, Held, ConnFollowsStage, PoolHoldsPublished,
          SeenWasPublished, NoLeakedConnection, ClosedNotPooled, Open
  <1>1. ASSUME NEW names \in SUBSET Servers, Evict(names),
               UNCHANGED <<entries, pc, server, entry, seen, ret>>
        PROVE  Held' /\ NoLeakedConnection' /\ ClosedNotPooled'
    BY <1>1 DEF Evict
  <1>2. CASE \E s \in Servers : Close(s)
    BY <1>1, <1>2 DEF Close
  <1>3. CASE CloseAll
    BY <1>1, <1>3 DEF CloseAll
  <1>4. CASE \E new \in [Servers -> Entries \union {NoEntry}] : SaveConfig(new)
    BY <1>4 DEF SaveConfig
  <1>5. CASE \E g \in Gets : Network(g)
    BY <1>5 DEF Network, PeerChange
  <1> QED
    BY <1>2, <1>3, <1>4, <1>5 DEF Environment

LEMMA NextInv == IInv /\ [Next]_vars => IInv'
  <1> SUFFICES ASSUME IInv, [Next]_vars
               PROVE  IInv'
    OBVIOUS
  <1>1. TypeOK'
    BY NextTyping DEF IInv
  <1>2. CASE UNCHANGED vars
    BY <1>2
    DEF vars, IInv, TypeOK, Held, ConnFollowsStage, PoolHoldsPublished, SeenWasPublished,
        NoLeakedConnection, ClosedNotPooled
  <1>3. CASE \E g \in Gets : GetClient(g)
    BY <1>1, <1>3, GetClientInv DEF IInv
  <1>4. CASE Environment
    BY <1>1, <1>4, EnvironmentInv DEF IInv
  <1> QED
    BY <1>2, <1>3, <1>4 DEF Next

LEMMA Invariance == Spec => []IInv
  BY InitInv, NextInv, PTL DEF Spec

-----------------------------------------------------------------------------
\* The type invariant: every variable keeps its type (pool.go:43-145).
THEOREM Typing == Spec => []TypeOK
  <1>1. IInv => TypeOK
    BY DEF IInv
  <1> QED
    BY Invariance, <1>1, PTL

\* No connection is left open and forgotten: one that kgssh has not closed is
\* in the hands of its dialer or in the pool (pool.go:69-74, 90-101, 172-175).
THEOREM NoLeak == Spec => []NoLeakedConnection
  <1>1. IInv => NoLeakedConnection
    BY DEF IInv
  <1> QED
    BY Invariance, <1>1, PTL

\* A closed connection is in the pool only until the invocation that closed it
\* has removed it (pool.go:68-74, 126-131).
THEOREM ClosedLeavesPool == Spec => []ClosedNotPooled
  <1>1. IInv => ClosedNotPooled
    BY DEF IInv
  <1> QED
    BY Invariance, <1>1, PTL

\* GetClient returns a closed connection only when another invocation is just
\* removing it from the pool, or when it has left the pool since it answered the
\* probe (pool.go:62-76, 89-101).
THEOREM ReturnedIsOpen == Spec => ReturnsOpenClient
  <1> DEFINE A == \A g \in Gets :
          /\ pc'[g] = "returned" /\ pc[g] # "returned"
          /\ ret'[g] # NoClient /\ conn'[ret'[g]] = "closed"
          => \/ pc[g] \in {"publish", "reuse"}
                /\ \E h \in Gets \ {g} : pc[h] = "drop" /\ seen[h] = ret'[g]
             \/ pc[g] = "reuse" /\ clients'[server[g]] # ret'[g]
  <1>1. IInv /\ [Next]_vars => [A]_vars
    <2> SUFFICES ASSUME IInv, Next, NEW g \in Gets,
                        pc'[g] = "returned", pc[g] # "returned",
                        ret'[g] # NoClient, conn'[ret'[g]] = "closed"
                 PROVE  \/ pc[g] \in {"publish", "reuse"}
                           /\ \E h \in Gets \ {g} : pc[h] = "drop" /\ seen[h] = ret'[g]
                        \/ pc[g] = "reuse" /\ clients'[server[g]] # ret'[g]
      BY DEF vars
    <2> USE DEF IInv, TypeOK
    <2>1. ~Environment
      BY DEF Environment, Close, CloseAll, SaveConfig, Network, PeerChange
    <2>2. PICK f \in Gets : GetClient(f)
      BY <2>1 DEF Next
    <2>3. f = g
      BY <2>2 DEF GetClient, LoadEntry, NotConfigured, LoadFails, Lookup, ProbeAnswered,
         Reuse, ProbeFailed, Drop, Connect, ConnectFails, Handshake, HandshakeFails, Publish,
         Goto, Return
    <2>4. Reuse(g) \/ Publish(g)
      BY <2>2, <2>3 DEF GetClient, LoadEntry, NotConfigured, LoadFails, Lookup,
         ProbeAnswered, ProbeFailed, Drop, Connect, ConnectFails, Handshake,
         HandshakeFails, Goto, Return
    \* A closed connection that is still pooled is about to be removed.
    <2>5. CASE Reuse(g)
      <3>1. /\ pc[g] = "reuse"
            /\ ret'[g] = seen[g] /\ ret'[g] \in Gets
            /\ conn[ret'[g]] = "closed"
            /\ clients' = clients
        BY <2>5 DEF Reuse, Return, Goto
      <3>2. clients[server[g]] = ret'[g] =>
               \E h \in Gets : pc[h] = "drop" /\ seen[h] = ret'[g]
        BY <3>1 DEF ClosedNotPooled
      <3> QED
        BY <3>1, <3>2
    <2>6. CASE Publish(g)
      <3>1. conn[g] # "closed"
        BY <2>6 DEF Publish, Held, ConnFollowsStage
      <3>2. ret'[g] # g
        BY <2>6, <3>1, NoClientAssumption
        DEF Publish, Return, Goto, Held, PoolHoldsPublished
      <3>3. ret'[g] = clients[server[g]] /\ conn' = [conn EXCEPT ![g] = "closed"]
        BY <2>6, <3>2 DEF Publish, Return
      <3>4. conn[ret'[g]] = "closed"
        BY <3>2, <3>3
      <3>5. \E h \in Gets : pc[h] = "drop" /\ seen[h] = ret'[g]
        BY <3>3, <3>4 DEF ClosedNotPooled
      <3> QED
        BY <2>6, <3>5 DEF Publish
    <2> QED
      BY <2>4, <2>5, <2>6
  <1>2. Spec => [][A]_vars
    BY Invariance, <1>1, PTL DEF Spec
  <1> QED
    BY <1>2 DEF ReturnsOpenClient
=============================================================================
