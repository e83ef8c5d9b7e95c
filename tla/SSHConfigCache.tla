---------------------------- MODULE SSHConfigCache ----------------------------
(***************************************************************************)
(* The cache of `ssh -G` results (sshconfig.go), filled by concurrent      *)
(* callers of ResolveSSHConfig while the user edits ~/.ssh/config.  The    *)
(* mutex protects map accesses only: two callers can miss together, and    *)
(* the slower one overwrites what the faster one has stored.               *)
(*                                                                         *)
(* What ~/.ssh/config says of an alias is a version number, and time is    *)
(* counted in ticks; a result carries the time at which ssh read the file. *)
(***************************************************************************)
EXTENDS Naturals

CONSTANTS
    Aliases,
    Calls,      \* the calls of ResolveSSHConfig
    NoResult,   \* nothing cached, nothing read
    TTL,        \* sshConfigCacheTTL
    MaxRun,     \* how long `ssh -G` takes at most once it has read the file
    MaxTime     \* bound on the clock

ASSUME TimesAssumption == TTL \in Nat /\ MaxRun \in Nat /\ MaxTime \in Nat
ASSUME NoResultAssumption == NoResult \notin [read : Nat, failed : BOOLEAN]

Result == [read : 0..MaxTime, failed : BOOLEAN]

VARIABLES
    now,        \* the clock, sshConfigNow
    cache,      \* sshConfigCache: a result and the time it was stored
    pc,         \* where each call stands
    alias,      \* its argument
    result      \* what it got from the cache or from `ssh -G`

vars == <<now, cache, pc, alias, result>>

TypeOK ==
    /\ now \in 0..MaxTime
    /\ cache \in [Aliases -> [what : Result, at : 0..MaxTime] \union {NoResult}]
    /\ pc \in [Calls -> {"idle", "run", "store", "returned"}]
    /\ alias \in [Calls -> Aliases]
    /\ result \in [Calls -> Result \union {NoResult}]

Init ==
    /\ now = 0
    /\ cache = [a \in Aliases |-> NoResult]
    /\ pc = [c \in Calls |-> "idle"]
    /\ alias \in [Calls -> Aliases]
    /\ result = [c \in Calls |-> NoResult]

Goto(c, where) == pc' = [pc EXCEPT ![c] = where]

Cached(c) == cache[alias[c]]

\* Mutation: an entry is used at the very end of its lifetime as well.
FreshInclusive(c) == Cached(c) # NoResult /\ now - Cached(c).at <= TTL

Fresh(c) == Cached(c) # NoResult /\ now - Cached(c).at < TTL

\* A hit, which can be a cached error as well.
Hit(c) ==
    /\ pc[c] = "idle"
    /\ Fresh(c)
    /\ result' = [result EXCEPT ![c] = Cached(c).what]
    /\ Goto(c, "returned")
    /\ UNCHANGED <<now, cache, alias>>

Miss(c) ==
    /\ pc[c] = "idle"
    /\ ~Fresh(c)
    /\ Goto(c, "run")
    /\ UNCHANGED <<now, cache, alias, result>>

\* ssh reads the file now; it prints and exits later, or it fails.
RunSSHDashG(c) ==
    /\ pc[c] = "run"
    /\ \E failed \in BOOLEAN :
          result' = [result EXCEPT ![c] = [read |-> now, failed |-> failed]]
    /\ Goto(c, "store")
    /\ UNCHANGED <<now, cache, alias>>

\* Mutation: the result is stamped with the time it expires.
StoreExpiry(c) ==
    /\ pc[c] = "store"
    /\ cache' = [cache EXCEPT ![alias[c]] = [what |-> result[c], at |-> now + TTL]]
    /\ Goto(c, "returned")
    /\ UNCHANGED <<now, alias, result>>

\* The result is stamped with the time it is stored, and replaces any other.
Store(c) ==
    /\ pc[c] = "store"
    /\ cache' = [cache EXCEPT ![alias[c]] = [what |-> result[c], at |-> now]]
    /\ Goto(c, "returned")
    /\ UNCHANGED <<now, alias, result>>

ResolveSSHConfig(c) == Hit(c) \/ Miss(c) \/ RunSSHDashG(c) \/ Store(c)

InvalidateSSHConfigCache ==
    /\ cache' = [a \in Aliases |-> NoResult]
    /\ UNCHANGED <<now, pc, alias, result>>

Tick ==
    /\ now < MaxTime
    /\ \A c \in Calls : pc[c] = "store" => now - result[c].read < MaxRun
    /\ now' = now + 1
    /\ UNCHANGED <<cache, pc, alias, result>>

Next ==
    \/ \E c \in Calls : ResolveSSHConfig(c)
    \/ InvalidateSSHConfigCache
    \/ Tick

Spec == Init /\ [][Next]_vars

-----------------------------------------------------------------------------
\* "without pinning stale values: the MCP server is long-lived and ~/.ssh/config
\* can change under it" (sshconfig.go:29-30): a call never returns facts that
\* ssh read longer ago than the lifetime of an entry and one run of ssh.
StalenessIsBounded ==
    [][\A c \in Calls :
          pc[c] # "returned" /\ pc'[c] = "returned" =>
              now - result'[c].read <= MaxRun + (IF pc[c] = "idle" THEN TTL - 1 ELSE 0)]_vars
=============================================================================
