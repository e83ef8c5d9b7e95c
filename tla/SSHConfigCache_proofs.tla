------------------------ MODULE SSHConfigCache_proofs ------------------------
(***************************************************************************)
(* How old a result of ResolveSSHConfig can be, for any number of callers, *)
(* any lifetime of an entry and any duration of `ssh -G`.                  *)
(***************************************************************************)
EXTENDS SSHConfigCache, TLAPS

\* What a run of ssh has read is not from the future, and is stored in time.
RunsAreShort ==
    \A c \in Calls :
        pc[c] = "store" => /\ result[c] \in Result
                           /\ result[c].read <= now
                           /\ now - result[c].read <= MaxRun

\* An entry was stored when the run it comes from ended.
EntriesWereFresh ==
    \A a \in Aliases :
        cache[a] # NoResult => /\ cache[a].at <= now
                               /\ cache[a].at - cache[a].what.read <= MaxRun

IInv == TypeOK /\ RunsAreShort /\ EntriesWereFresh

LEMMA InitInv == Init => IInv
  BY TimesAssumption DEF Init, IInv, TypeOK, RunsAreShort, EntriesWereFresh

LEMMA NextInv == IInv /\ [Next]_vars => IInv'
  <1> SUFFICES ASSUME IInv, [Next]_vars
               PROVE  IInv'
    OBVIOUS
  <1> USE TimesAssumption DEF IInv, TypeOK, RunsAreShort, EntriesWereFresh, Result, Goto
  <1>1. CASE UNCHANGED vars
    BY <1>1 DEF vars
  <1>2. ASSUME NEW c \in Calls, Hit(c)
        PROVE  IInv'
    <2>1. Cached(c) \in [what : Result, at : 0..MaxTime]
      BY <1>2 DEF Hit, Fresh, Cached
    <2> QED
      BY <1>2, <2>1 DEF Hit, Cached
  <1>3. ASSUME NEW c \in Calls, Miss(c)
        PROVE  IInv'
    BY <1>3 DEF Miss
  <1>4. ASSUME NEW c \in Calls, RunSSHDashG(c)
        PROVE  IInv'
    <2>1. PICK failed \in BOOLEAN :
              result' = [result EXCEPT ![c] = [read |-> now, failed |-> failed]]
      BY <1>4 DEF RunSSHDashG
    <2> QED
      BY <1>4, <2>1 DEF RunSSHDashG
  <1>5. ASSUME NEW c \in Calls, Store(c)
        PROVE  IInv'
    BY <1>5 DEF Store
  <1>6. CASE InvalidateSSHConfigCache
    BY <1>6 DEF InvalidateSSHConfigCache
  <1>7. CASE Tick
    <2>1. TypeOK'
      BY <1>7 DEF Tick
    <2>2. RunsAreShort'
      BY <1>7 DEF Tick
    <2>3. EntriesWereFresh'
      BY <1>7 DEF Tick
    <2> QED
      BY <2>1, <2>2, <2>3
  <1> QED
    BY <1>1, <1>2, <1>3, <1>4, <1>5, <1>6, <1>7 DEF Next, ResolveSSHConfig

LEMMA Invariance == Spec => []IInv
  BY InitInv, NextInv, PTL DEF Spec

-----------------------------------------------------------------------------
\* The type invariant: every variable keeps its type (sshconfig.go:33-43).
THEOREM Typing == Spec => []TypeOK
  <1>1. IInv => TypeOK
    BY DEF IInv
  <1> QED
    BY Invariance, <1>1, PTL

\* A call never returns facts that ssh read longer ago than the lifetime of an
\* entry and one run of ssh, also when a slower run replaces a newer result
\* (sshconfig.go:64-87).
THEOREM ResultsAreRecent == Spec => StalenessIsBounded
  <1>1. ASSUME IInv, [Next]_vars, NEW c \in Calls,
               pc[c] # "returned", pc'[c] = "returned"
        PROVE  now - result'[c].read <= MaxRun + (IF pc[c] = "idle" THEN TTL - 1 ELSE 0)
    <2> USE TimesAssumption DEF IInv, TypeOK, RunsAreShort, EntriesWereFresh, Result, Goto
    <2>1. Hit(c) \/ Store(c)
      BY <1>1 DEF Next, ResolveSSHConfig, Hit, Miss, RunSSHDashG, Store,
         InvalidateSSHConfigCache, Tick, vars
    <2>2. CASE Hit(c)
      <3>1. /\ Cached(c) \in [what : Result, at : 0..MaxTime]
            /\ result'[c] = Cached(c).what
        BY <1>1, <2>2 DEF Hit, Fresh, Cached
      <3>2. /\ Cached(c).at <= now
            /\ Cached(c).at - Cached(c).what.read <= MaxRun
            /\ now - Cached(c).at < TTL
        BY <1>1, <2>2 DEF Hit, Fresh, Cached
      <3>3. pc[c] = "idle"
        BY <2>2 DEF Hit
      <3> QED
        BY <1>1, <3>1, <3>2, <3>3
    <2>3. CASE Store(c)
      BY <1>1, <2>3 DEF Store
    <2> QED
      BY <2>1, <2>2, <2>3
  <1>2. IInv /\ [Next]_vars =>
            [\A c \in Calls :
                pc[c] # "returned" /\ pc'[c] = "returned" =>
                   now - result'[c].read
                      <= MaxRun + (IF pc[c] = "idle" THEN TTL - 1 ELSE 0)]_vars
    BY <1>1
  <1> QED
    BY Invariance, <1>2, PTL DEF Spec, StalenessIsBounded
=============================================================================
