------------------------------- MODULE SSHExec -------------------------------
(***************************************************************************)
(* The ssh_exec tool (handleSSHExec and RunRemoteCommand) on top of the    *)
(* connection pool.  A call runs its command on the client that GetClient  *)
(* returns; if the session cannot even be created it resets the pool's     *)
(* connection to the server and tries once more.                           *)
(*                                                                         *)
(* Each call owns two invocations of GetClient, <<c, 1>> and <<c, 2>>, and *)
(* the connections are named as in SSHPool.                                *)
(***************************************************************************)
EXTENDS Naturals

CONSTANTS Servers, Entries, NoEntry, NoClient, Stalling,
          Calls     \* the calls of ssh_exec

Gets == Calls \X {1, 2}

ASSUME PoolAssumption ==
    /\ NoEntry \notin Entries
    /\ NoClient \notin Gets
    /\ Stalling \subseteq Servers

VARIABLES
    entries, clients, conn, pc, server, entry, seen, ret,   \* of SSHPool
    phase,          \* where each call stands
    attempt,        \* its first or second try
    sent,           \* the connection its exec request is travelling on
    runs,           \* how many times its command has started on the server
    reply           \* what the tool answered

Pool == INSTANCE SSHPool

poolVars == <<entries, clients, conn, pc, server, entry, seen, ret>>
execVars == <<phase, attempt, sent, runs, reply>>
vars == <<poolVars, execVars>>

\* "open" lasts from the call of GetClient until NewSession returns.
Phases == {"open", "reset", "pty", "send", "wait", "done"}

TypeOK ==
    /\ Pool!TypeOK
    /\ phase \in [Calls -> Phases]
    /\ attempt \in [Calls -> {1, 2}]
    /\ sent \in [Calls -> Gets \union {NoClient}]
    /\ runs \in [Calls -> Nat]
    /\ reply \in [Calls -> {"none", "ok", "failed"}]

Init ==
    /\ Pool!Init
    /\ \A c \in Calls : server[<<c, 1>>] = server[<<c, 2>>]
    /\ phase = [c \in Calls |-> "open"]
    /\ attempt = [c \in Calls |-> 1]
    /\ sent = [c \in Calls |-> NoClient]
    /\ runs = [c \in Calls |-> 0]
    /\ reply = [c \in Calls |-> "none"]

Get(c) == <<c, attempt[c]>>
Client(c) == ret[Get(c)]
ClientIs(c, states) == Client(c) # NoClient /\ conn[Client(c)] \in states
Broken == {"gone", "closed"}

Goto(c, where) == phase' = [phase EXCEPT ![c] = where]

Answer(c, what) ==
    /\ Goto(c, "done")
    /\ reply' = [reply EXCEPT ![c] = what]

-----------------------------------------------------------------------------
CallGetClient(c) ==
    /\ phase[c] = "open"
    /\ Pool!GetClient(Get(c))
    /\ UNCHANGED execVars

\* Its error is not errSessionCreate, so it is reported without a retry.
GetClientFailed(c) ==
    /\ phase[c] = "open"
    /\ pc[Get(c)] = "returned"
    /\ Client(c) = NoClient
    /\ Answer(c, "failed")
    /\ UNCHANGED <<poolVars, attempt, sent, runs>>

\* NewSession waits for the server's confirmation; no timer runs yet.
NewSession(c, pty) ==
    /\ phase[c] = "open"
    /\ ClientIs(c, {"up"})
    /\ Goto(c, IF pty THEN "pty" ELSE "send")
    /\ UNCHANGED <<poolVars, attempt, sent, runs, reply>>

\* Mutation: one retry too many.
NewSessionFailsTwice(c) ==
    /\ phase[c] = "open"
    /\ ClientIs(c, {"up"} \union Broken)
    /\ IF attempt[c] <= 2
       THEN Goto(c, "reset") /\ UNCHANGED reply
       ELSE Answer(c, "failed")
    /\ UNCHANGED <<poolVars, attempt, sent, runs>>

\* The connection is broken, or the server refuses one more session on it.
NewSessionFails(c) ==
    /\ phase[c] = "open"
    /\ ClientIs(c, {"up"} \union Broken)
    /\ IF attempt[c] = 1
       THEN Goto(c, "reset") /\ UNCHANGED reply
       ELSE Answer(c, "failed")
    /\ UNCHANGED <<poolVars, attempt, sent, runs>>

\* Mutation: the stale connection is left in the pool.
ResetKeepsPool(c) ==
    /\ phase[c] = "reset"
    /\ Goto(c, "open")
    /\ attempt' = [attempt EXCEPT ![c] = @ + 1]
    /\ UNCHANGED <<poolVars, sent, runs, reply>>

\* Mutation: the connection is closed and stays in the pool.
ResetOnlyCloses(c) ==
    /\ phase[c] = "reset"
    /\ conn' = [conn EXCEPT ![Client(c)] = "closed"]
    /\ Goto(c, "open")
    /\ attempt' = [attempt EXCEPT ![c] = @ + 1]
    /\ UNCHANGED <<entries, clients, pc, server, entry, seen, ret, sent, runs, reply>>

\* Close whatever connection the pool holds for the server, then try again.
Reset(c) ==
    /\ phase[c] = "reset"
    /\ Pool!Close(server[Get(c)])
    /\ Goto(c, "open")
    /\ attempt' = [attempt EXCEPT ![c] = @ + 1]
    /\ UNCHANGED <<sent, runs, reply>>

\* The error of RequestPty is ignored, and no timer runs yet.
RequestPty(c) ==
    /\ phase[c] = "pty"
    /\ ClientIs(c, {"up"} \union Broken)
    /\ Goto(c, "send")
    /\ UNCHANGED <<poolVars, attempt, sent, runs, reply>>

\* session.Run writes the exec request, to a stalled connection as well.
SendExec(c) ==
    /\ phase[c] = "send"
    /\ ClientIs(c, {"up", "hung"})
    /\ sent' = [sent EXCEPT ![c] = Client(c)]
    /\ Goto(c, "wait")
    /\ UNCHANGED <<poolVars, attempt, runs, reply>>

\* The request arrives, also when the call has given up waiting for it.
Start(c) ==
    /\ sent[c] # NoClient
    /\ conn[sent[c]] = "up"
    /\ runs' = [runs EXCEPT ![c] = @ + 1]
    /\ sent' = [sent EXCEPT ![c] = NoClient]
    /\ UNCHANGED <<poolVars, phase, attempt, reply>>

\* The exit status arrives.
Finished(c) ==
    /\ phase[c] = "wait"
    /\ sent[c] = NoClient
    /\ ClientIs(c, {"up"})
    /\ Answer(c, "ok")
    /\ UNCHANGED <<poolVars, attempt, sent, runs>>

\* Mutation: every error is retried on a fresh connection.
RunFailsRetries(c) ==
    /\ phase[c] \in {"send", "wait"}
    /\ ClientIs(c, {"up"} \union Broken)
    /\ IF attempt[c] = 1
       THEN Goto(c, "reset") /\ UNCHANGED reply
       ELSE Answer(c, "failed")
    /\ UNCHANGED <<poolVars, attempt, sent, runs>>

\* Mutation: an error without exit status counts as exit status 0.
RunFailsOk(c) ==
    /\ phase[c] \in {"send", "wait"}
    /\ ClientIs(c, {"up"} \union Broken)
    /\ Answer(c, "ok")
    /\ UNCHANGED <<poolVars, attempt, sent, runs>>

\* session.Run fails with something else than an exit status: never a retry.
RunFails(c) ==
    /\ phase[c] \in {"send", "wait"}
    /\ ClientIs(c, {"up"} \union Broken)
    /\ Answer(c, "failed")
    /\ UNCHANGED <<poolVars, attempt, sent, runs>>

\* Mutation: after the timer the session is closed in a way that needs an answer.
TimedOutAnswered(c) ==
    /\ phase[c] \in {"send", "wait"}
    /\ ClientIs(c, {"up"} \union Broken)
    /\ Answer(c, "failed")
    /\ UNCHANGED <<poolVars, attempt, sent, runs>>

\* The timer of RunRemoteCommand, started once the session is there.
TimedOut(c) ==
    /\ phase[c] \in {"send", "wait"}
    /\ Answer(c, "failed")
    /\ UNCHANGED <<poolVars, attempt, sent, runs>>

Call(c) ==
    \/ CallGetClient(c) \/ GetClientFailed(c)
    \/ (\E pty \in BOOLEAN : NewSession(c, pty)) \/ NewSessionFails(c)
    \/ Reset(c) \/ RequestPty(c) \/ SendExec(c) \/ Start(c)
    \/ Finished(c) \/ RunFails(c) \/ TimedOut(c)

\* The other tools, the other processes and the network.
Environment == Pool!Environment /\ UNCHANGED execVars

Next == (\E c \in Calls : Call(c)) \/ Environment

Spec == Init /\ [][Next]_vars

(***************************************************************************)
(* Fairness.  The handler takes its own steps, and its timers fire.  A     *)
(* server answers NewSession and RequestPty if the connection is up time   *)
(* and again; the library fails them on a broken one.  An answer to the    *)
(* exec request is not assumed: its timer makes up for it.                 *)
(***************************************************************************)
Fairness ==
    \A c \in Calls :
        /\ WF_vars(phase[c] = "open" /\ Pool!LocalStep(Get(c)) /\ UNCHANGED execVars)
        /\ WF_vars(/\ server[Get(c)] \notin Stalling
                   /\ phase[c] = "open" /\ Pool!EndHandshake(Get(c)) /\ UNCHANGED execVars)
        /\ WF_vars(GetClientFailed(c))
        /\ SF_vars((\E pty \in BOOLEAN : NewSession(c, pty)) \/ NewSessionFails(c))
        /\ WF_vars(Reset(c))
        /\ SF_vars(RequestPty(c))
        /\ WF_vars(TimedOut(c))

FairSpec == Spec /\ Fairness

-----------------------------------------------------------------------------
\* "Never retry after the command started" (mcp_server.go:315-316, pool.go:181):
\* the command of a call starts at most once, whatever is lost, closed or
\* retried meanwhile.
AtMostOnce == \A c \in Calls : runs[c] <= 1

\* "retry once on a fresh connection" (mcp_server.go:315): the second try never
\* gets the connection on which the first one could not create a session.
RetryIsFresh ==
    \A c \in Calls : ret[<<c, 2>>] # NoClient => ret[<<c, 2>>] # ret[<<c, 1>>]

\* ssh_exec keeps the promise of RemoteExec (mcp_server.go:307-327).
Promise == INSTANCE RemoteExec
KeepsPromise == Promise!Spec

\* ssh_exec uses the pool only as SSHPool allows: every invariant of the pool
\* holds below ssh_exec (mcp_server.go:308-319).
UsesPool == Pool!Spec

\* A call ends, unless its server stalls in the handshake, or the call waits
\* on a connection that hangs for good before the command's timer has started
\* (pool.go:189-218).
CallEndsUnlessStuck ==
    \A c \in Calls :
        \/ <>(phase[c] = "done")
        \/ server[<<c, 1>>] \in Stalling
        \/ <>[](phase[c] \in {"open", "pty"} /\ ClientIs(c, {"hung"}))

\* "executes a shell command on an SSH client with timeout" (pool.go:185):
\* a call that has its client is answered.
TimeoutHolds ==
    \A c \in Calls : (Client(c) # NoClient) ~> (phase[c] = "done")

\* "stale pooled connection" (mcp_server.go:314), "rather than resetting the
\* pooled one, which could be in use by a concurrent ssh_exec"
\* (mcp_server.go:410-411): a retry does not close a working connection under
\* the running command of another call.
RetrySparesOtherCalls ==
    [][\A c, d \in Calls :
          Reset(c) /\ c # d /\ phase[d] = "wait" /\ ClientIs(d, {"up"}) =>
              conn'[Client(d)] = "up"]_vars
=============================================================================
