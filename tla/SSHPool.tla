------------------------------- MODULE SSHPool -------------------------------
(***************************************************************************)
(* The pool of SSH connections that every remote MCP tool goes through     *)
(* (pool.go): GetClient, Close, CloseAll, the keepalive probe and the      *)
(* dialer.  The pool's mutex protects map accesses only, so one critical   *)
(* section is one action, and everything GetClient does between two        *)
(* critical sections (reading the configuration, probing, dialing) is an   *)
(* action of its own that other callers interleave with.                   *)
(*                                                                         *)
(* Gets is the set of invocations of GetClient.  An invocation dials at    *)
(* most once, so its identity also names the connection it dials.          *)
(***************************************************************************)
CONSTANTS
    Servers,    \* names of configured servers, the keys of config.json
    Entries,    \* connection settings an entry can hold
    NoEntry,    \* the name has no entry
    Gets,       \* invocations of GetClient
    NoClient,   \* nil
    Stalling    \* servers that may accept a connection and never end the handshake

ASSUME NoEntryAssumption == NoEntry \notin Entries
ASSUME NoClientAssumption == NoClient \notin Gets
ASSUME StallingAssumption == Stalling \subseteq Servers

VARIABLES
    entries,    \* the entries of the configuration file
    clients,    \* SSHPool.clients: the pooled connection of each server
    conn,       \* the state of the connection each invocation dials
    pc,         \* where each invocation stands in GetClient
    server,     \* serverName, the argument of the invocation
    entry,      \* entry, as loaded when the invocation started
    seen,       \* pc, the pooled client the invocation found
    ret         \* what the invocation returned

vars == <<entries, clients, conn, pc, server, entry, seen, ret>>

Stages == {"idle", "lookup", "probe", "reuse", "drop", "connect", "handshake",
           "publish", "returned"}

(***************************************************************************)
(* A connection is "tcp" until the SSH handshake ends.  "hung" is the      *)
(* half-dead connection that takes requests and never answers; "gone" has  *)
(* been lost, and every use of it fails; "closed" was closed by kgssh.     *)
(***************************************************************************)
ConnStates == {"none", "tcp", "up", "hung", "gone", "closed"}

TypeOK ==
    /\ entries \in [Servers -> Entries \union {NoEntry}]
    /\ clients \in [Servers -> Gets \union {NoClient}]
    /\ conn \in [Gets -> ConnStates]
    /\ pc \in [Gets -> Stages]
    /\ server \in [Gets -> Servers]
    /\ entry \in [Gets -> Entries \union {NoEntry}]
    /\ seen \in [Gets -> Gets \union {NoClient}]
    /\ \A g \in Gets : pc[g] \in {"probe", "reuse", "drop"} => seen[g] # NoClient
    /\ ret \in [Gets -> Gets \union {NoClient}]

Init ==
    /\ entries \in [Servers -> Entries \union {NoEntry}]
    /\ clients = [s \in Servers |-> NoClient]
    /\ conn = [g \in Gets |-> "none"]
    /\ pc = [g \in Gets |-> "idle"]
    /\ server \in [Gets -> Servers]
    /\ entry = [g \in Gets |-> NoEntry]
    /\ seen = [g \in Gets |-> NoClient]
    /\ ret = [g \in Gets |-> NoClient]

Goto(g, stage) == pc' = [pc EXCEPT ![g] = stage]

Return(g, client) ==
    /\ Goto(g, "returned")
    /\ ret' = [ret EXCEPT ![g] = client]

-----------------------------------------------------------------------------
(***************************************************************************)
(* GetClient, in the order of the code.                                    *)
(***************************************************************************)

\* The configuration is read afresh by every invocation.
LoadEntry(g) ==
    /\ pc[g] = "idle"
    /\ entries[server[g]] # NoEntry
    /\ entry' = [entry EXCEPT ![g] = entries[server[g]]]
    /\ Goto(g, "lookup")
    /\ UNCHANGED <<entries, clients, conn, server, seen, ret>>

NotConfigured(g) ==
    /\ pc[g] = "idle"
    /\ entries[server[g]] = NoEntry
    /\ Return(g, NoClient)
    /\ UNCHANGED <<entries, clients, conn, server, entry, seen>>

\* The file is missing, or is read in the middle of a save and does not parse.
LoadFails(g) ==
    /\ pc[g] = "idle"
    /\ Return(g, NoClient)
    /\ UNCHANGED <<entries, clients, conn, server, entry, seen>>

\* Mutation: the pool's lock is held during the probe and the dial as well.
LookupUnderLock(g) ==
    /\ pc[g] = "lookup"
    /\ \A h \in Gets : pc[h] \in {"idle", "lookup", "returned"}
    /\ seen' = [seen EXCEPT ![g] = clients[server[g]]]
    /\ Goto(g, IF clients[server[g]] = NoClient THEN "connect" ELSE "probe")
    /\ UNCHANGED <<entries, clients, conn, server, entry, ret>>

\* Mutation: what the map gives for an absent server is probed.
LookupNoNilCheck(g) ==
    /\ pc[g] = "lookup"
    /\ seen' = [seen EXCEPT ![g] = clients[server[g]]]
    /\ Goto(g, "probe")
    /\ UNCHANGED <<entries, clients, conn, server, entry, ret>>

Lookup(g) ==
    /\ pc[g] = "lookup"
    /\ seen' = [seen EXCEPT ![g] = clients[server[g]]]
    /\ Goto(g, IF clients[server[g]] = NoClient THEN "connect" ELSE "probe")
    /\ UNCHANGED <<entries, clients, conn, server, entry, ret>>

\* The keepalive came back.
ProbeAnswered(g) ==
    /\ pc[g] = "probe"
    /\ conn[seen[g]] = "up"
    /\ Goto(g, "reuse")
    /\ UNCHANGED <<entries, clients, conn, server, entry, seen, ret>>

\* The connection is reused, without looking at it or at the pool again: by now it
\* may have been closed, and may have left the pool.
Reuse(g) ==
    /\ pc[g] = "reuse"
    /\ Return(g, seen[g])
    /\ UNCHANGED <<entries, clients, conn, server, entry, seen>>

(***************************************************************************)
(* SendRequest reported an error (the connection is gone or closed), or    *)
(* the probe's timer fired first, which a slow server can cause on a       *)
(* connection that is up.  Either way the connection is closed here.       *)
(***************************************************************************)
ProbeFailed(g) ==
    /\ pc[g] = "probe"
    /\ conn' = [conn EXCEPT ![seen[g]] = "closed"]
    /\ Goto(g, "drop")
    /\ UNCHANGED <<entries, clients, server, entry, seen, ret>>

\* Mutation: the stale connection stays in the pool.
DropKeepsEntry(g) ==
    /\ pc[g] = "drop"
    /\ Goto(g, "connect")
    /\ UNCHANGED <<entries, clients, conn, server, entry, seen, ret>>

\* Mutation: whatever the pool holds by now is removed.
DropUnconditional(g) ==
    /\ pc[g] = "drop"
    /\ clients' = [clients EXCEPT ![server[g]] = NoClient]
    /\ Goto(g, "connect")
    /\ UNCHANGED <<entries, conn, server, entry, seen, ret>>

\* Another invocation may have replaced the connection since: leave its entry.
Drop(g) ==
    /\ pc[g] = "drop"
    /\ clients' = IF clients[server[g]] = seen[g]
                  THEN [clients EXCEPT ![server[g]] = NoClient]
                  ELSE clients
    /\ Goto(g, "connect")
    /\ UNCHANGED <<entries, conn, server, entry, seen, ret>>

\* Effective, buildSSHClientConfig and net.DialTimeout, which any of them may fail.
Connect(g) ==
    /\ pc[g] = "connect"
    /\ conn' = [conn EXCEPT ![g] = "tcp"]
    /\ Goto(g, "handshake")
    /\ UNCHANGED <<entries, clients, server, entry, seen, ret>>

ConnectFails(g) ==
    /\ pc[g] = "connect"
    /\ Return(g, NoClient)
    /\ UNCHANGED <<entries, clients, conn, server, entry, seen>>

Handshake(g) ==
    /\ pc[g] = "handshake"
    /\ conn' = [conn EXCEPT ![g] = "up"]
    /\ Goto(g, "publish")
    /\ UNCHANGED <<entries, clients, server, entry, seen, ret>>

HandshakeFails(g) ==
    /\ pc[g] = "handshake"
    /\ conn' = [conn EXCEPT ![g] = "closed"]
    /\ Return(g, NoClient)
    /\ UNCHANGED <<entries, clients, server, entry, seen>>

\* A connection that another invocation pooled in the meantime is shared.
Publish(g) ==
    LET other == clients[server[g]] IN
    /\ pc[g] = "publish"
    /\ \/ /\ other \notin {NoClient, seen[g]}
          /\ conn' = [conn EXCEPT ![g] = "closed"]
          /\ Return(g, other)
          /\ UNCHANGED clients
       \/ /\ other \in {NoClient, seen[g]}
          /\ clients' = [clients EXCEPT ![server[g]] = g]
          /\ Return(g, g)
          /\ UNCHANGED conn
    /\ UNCHANGED <<entries, server, entry, seen>>

GetClient(g) ==
    \/ LoadEntry(g) \/ NotConfigured(g) \/ LoadFails(g)
    \/ Lookup(g) \/ ProbeAnswered(g) \/ Reuse(g) \/ ProbeFailed(g) \/ Drop(g)
    \/ Connect(g) \/ ConnectFails(g) \/ Handshake(g) \/ HandshakeFails(g)
    \/ Publish(g)

-----------------------------------------------------------------------------
(***************************************************************************)
(* The pool's other operations, called by other handlers at any time.      *)
(***************************************************************************)

\* Close and remove the pooled connections of the given servers.
Evict(names) ==
    /\ conn' = [g \in Gets |->
                  IF \E s \in names : clients[s] = g THEN "closed" ELSE conn[g]]
    /\ clients' = [s \in Servers |-> IF s \in names THEN NoClient ELSE clients[s]]

Close(s) == Evict({s}) /\ UNCHANGED <<entries, pc, server, entry, seen, ret>>

CloseAll == Evict(Servers) /\ UNCHANGED <<entries, pc, server, entry, seen, ret>>

\* Another handler or process saves the configuration file.
SaveConfig(new) ==
    /\ entries' = new
    /\ UNCHANGED <<clients, conn, pc, server, entry, seen, ret>>

-----------------------------------------------------------------------------
(***************************************************************************)
(* The network: an established connection stalls, resumes or is lost.      *)
(***************************************************************************)
PeerChange(g, from, to) ==
    /\ conn[g] \in from
    /\ conn' = [conn EXCEPT ![g] = to]
    /\ UNCHANGED <<entries, clients, pc, server, entry, seen, ret>>

Network(g) ==
    \/ PeerChange(g, {"up"}, "hung")
    \/ PeerChange(g, {"hung"}, "up")
    \/ PeerChange(g, {"up", "hung"}, "gone")

Environment ==
    \/ \E s \in Servers : Close(s)
    \/ CloseAll
    \/ \E new \in [Servers -> Entries \union {NoEntry}] : SaveConfig(new)
    \/ \E g \in Gets : Network(g)

Next == (\E g \in Gets : GetClient(g)) \/ Environment

Spec == Init /\ [][Next]_vars

(***************************************************************************)
(* Fairness.  Every step of GetClient but the handshake is taken by the    *)
(* goroutine itself, or ends by a timer: the probe's, and that of          *)
(* net.DialTimeout.  The handshake has no timer, so it ends only if the    *)
(* server answers.  Nothing is assumed of the environment.                 *)
(***************************************************************************)
EndHandshake(g) == Handshake(g) \/ HandshakeFails(g)

LocalStep(g) ==
    \/ LoadEntry(g) \/ NotConfigured(g) \/ LoadFails(g)
    \/ Lookup(g) \/ ProbeAnswered(g) \/ Reuse(g) \/ ProbeFailed(g) \/ Drop(g)
    \/ Connect(g) \/ ConnectFails(g) \/ Publish(g)

Fairness ==
    \A g \in Gets : /\ WF_vars(LocalStep(g))
                    /\ WF_vars(server[g] \notin Stalling /\ EndHandshake(g))

FairSpec == Spec /\ Fairness

-----------------------------------------------------------------------------
(***************************************************************************)
(* What the pool promises.                                                 *)
(***************************************************************************)
Open == {"tcp", "up", "hung", "gone"}

\* No connection is left open and forgotten: one that kgssh has not closed is
\* still in the hands of the invocation that dials it, or is in the pool under
\* its server's name, where Close and CloseAll reach it (pool.go:69-74, 90-101,
\* 172-175).
NoLeakedConnection ==
    \A g \in Gets :
        conn[g] \in Open => \/ pc[g] \in {"handshake", "publish"}
                            \/ clients[server[g]] = g

\* A connection that kgssh closed leaves the pool: while one is still there, the
\* invocation whose probe closed it is about to remove it (pool.go:68-74).
ClosedNotPooled ==
    \A s \in Servers, g \in Gets :
        clients[s] = g /\ conn[g] = "closed" =>
            \E h \in Gets : pc[h] = "drop" /\ seen[h] = g /\ server[h] = s

\* A connection that GetClient returns has not been closed by kgssh, but for two
\* races, which both end with the pool rid of it.  The connection shared at
\* pool.go:91-95, which is not probed, can be one that another invocation has just
\* closed at pool.go:69 and not removed yet.  One that has answered the probe is
\* not looked at again (pool.go:62-66): by then another invocation may have closed
\* it at pool.go:69, or Close or CloseAll have taken it out of the pool.
ReturnsOpenClient ==
    [][\A g \in Gets :
          /\ pc'[g] = "returned" /\ pc[g] # "returned"
          /\ ret'[g] # NoClient /\ conn'[ret'[g]] = "closed"
          => \/ pc[g] \in {"publish", "reuse"}
                /\ \E h \in Gets \ {g} : pc[h] = "drop" /\ seen[h] = ret'[g]
             \/ pc[g] = "reuse" /\ clients'[server[g]] # ret'[g]]_vars

\* "a slow or hung server does not block calls to other servers"
\* (pool.go:44-45): a call to a server that ends its handshakes returns,
\* whatever the other servers do.
HungServerDoesNotBlockOthers ==
    \A g \in Gets :
        (pc[g] = "lookup" /\ server[g] \notin Stalling) ~> (pc[g] = "returned")
=============================================================================
