---------------------------- MODULE SSHExec_proofs ----------------------------
(***************************************************************************)
(* ssh_exec starts a command at most once and keeps the promise of         *)
(* RemoteExec, for any number of calls, servers and entries.               *)
(***************************************************************************)
EXTENDS SSHExec, TLAPS

\* The exec request of a call exists once: not sent yet, then travelling, then
\* lost or started.  A call that waits has its request travelling or started.
RequestOnce ==
    \A c \in Calls :
        /\ phase[c] \notin {"wait", "done"} => runs[c] = 0 /\ sent[c] = NoClient
        /\ phase[c] = "wait" => sent[c] # NoClient \/ runs[c] = 1
        /\ sent[c] # NoClient => runs[c] = 0
        /\ runs[c] \in {0, 1}

\* A call answers once, and answers "ok" for a command that has run.
AnswersOnce ==
    \A c \in Calls :
        /\ phase[c] = "done" <=> reply[c] # "none"
        /\ reply[c] = "ok" => runs[c] = 1

\* What the pool holds, and what an invocation has found or returned, was
\* published by an invocation for the same server that has ended.
PoolFacts ==
    /\ \A s \in Servers :
          clients[s] # NoClient => pc[clients[s]] = "returned" /\ server[clients[s]] = s
    /\ \A g \in Gets :
          /\ seen[g] # NoClient => pc[seen[g]] = "returned" /\ server[seen[g]] = server[g]
          /\ ret[g] # NoClient => pc[ret[g]] = "returned" /\ server[ret[g]] = server[g]
          /\ pc[g] \in {"idle", "lookup"} => seen[g] = NoClient
          /\ pc[g] # "returned" => ret[g] = NoClient

\* The two tries of a call follow each other and are for the same server.
TriesInOrder ==
    \A c \in Calls :
        /\ server[<<c, 1>>] = server[<<c, 2>>]
        /\ phase[c] = "reset" => attempt[c] = 1 /\ pc[<<c, 1>>] = "returned"
        /\ attempt[c] = 1 => pc[<<c, 2>>] = "idle"
        /\ attempt[c] = 2 => pc[<<c, 1>>] = "returned"

\* The client of a first try that was reset has left the pool for good, and the
\* second try has not met it.
Gone(client, g) ==
    /\ \A s \in Servers : clients[s] # client
    /\ seen[g] # client
    /\ ret[g] # client

FirstClientGone ==
    \A c \in Calls :
        attempt[c] = 2 /\ ret[<<c, 1>>] # NoClient => Gone(ret[<<c, 1>>], <<c, 2>>)

IInv == TypeOK /\ RequestOnce /\ AnswersOnce /\ PoolFacts /\ TriesInOrder /\ FirstClientGone

LEMMA NoClientNotGet == NoClient \notin Gets
  BY PoolAssumption

LEMMA InitInv == Init => IInv
  BY PoolAssumption
  DEF Init, IInv, TypeOK, RequestOnce, AnswersOnce, PoolFacts, TriesInOrder,
      FirstClientGone, Gone, Gets, Phases, Pool!Init, Pool!TypeOK, Pool!Stages,
      Pool!ConnStates

\* The steps of the pool that ssh_exec takes or meets.
PoolStep ==
    \/ \E g \in Gets : Pool!GetClient(g)
    \/ \E s \in Servers : Pool!Close(s)
    \/ Pool!Environment

LEMMA PoolTyping == Pool!TypeOK /\ PoolStep => Pool!TypeOK'
  <1> SUFFICES ASSUME Pool!TypeOK, PoolStep
               PROVE  Pool!TypeOK'
    OBVIOUS
  <1> USE DEF Pool!TypeOK, Pool!Stages, Pool!ConnStates
  <1>1. CASE \E g \in Gets : Pool!GetClient(g)
    <2>1. PICK g \in Gets : Pool!GetClient(g)
      BY <1>1
    <2> QED
      BY <2>1 DEF Pool!GetClient, Pool!LoadEntry, Pool!NotConfigured, Pool!LoadFails,
         Pool!Lookup, Pool!ProbeAnswered, Pool!Reuse, Pool!ProbeFailed, Pool!Drop, Pool!Connect,
         Pool!ConnectFails, Pool!Handshake, Pool!HandshakeFails, Pool!Publish,
         Pool!Goto, Pool!Return
  <1>2. CASE \E s \in Servers : Pool!Close(s)
    BY <1>2 DEF Pool!Close, Pool!Evict
  <1>3. CASE Pool!Environment
    BY <1>3 DEF Pool!Environment, Pool!Close, Pool!CloseAll, Pool!Evict, Pool!SaveConfig,
       Pool!Network, Pool!PeerChange
  <1> QED
    BY <1>1, <1>2, <1>3 DEF PoolStep

\* An invocation changes what concerns itself only, and nothing once it has ended.
LEMMA OnlyOwn ==
    ASSUME Pool!TypeOK, NEW g \in Gets, Pool!GetClient(g)
    PROVE  /\ pc[g] # "returned"
           /\ server' = server
           /\ \A h \in Gets \ {g} : pc'[h] = pc[h] /\ seen'[h] = seen[h] /\ ret'[h] = ret[h]
  BY DEF Pool!TypeOK, Pool!GetClient, Pool!LoadEntry, Pool!NotConfigured, Pool!LoadFails,
         Pool!Lookup, Pool!ProbeAnswered, Pool!Reuse, Pool!ProbeFailed, Pool!Drop, Pool!Connect,
         Pool!ConnectFails, Pool!Handshake, Pool!HandshakeFails, Pool!Publish,
         Pool!Goto, Pool!Return

LEMMA NoOnes ==
    ASSUME Pool!Environment \/ \E s \in Servers : Pool!Close(s)
    PROVE  UNCHANGED <<pc, server, seen, ret>>
  BY DEF Pool!Environment, Pool!Close, Pool!CloseAll, Pool!Evict, Pool!SaveConfig,
       Pool!Network, Pool!PeerChange

LEMMA PoolFactsInv == Pool!TypeOK /\ PoolFacts /\ PoolStep => PoolFacts'
  <1> SUFFICES ASSUME Pool!TypeOK, PoolFacts, PoolStep
               PROVE  PoolFacts'
    OBVIOUS
  <1> USE NoClientNotGet DEF Pool!TypeOK, PoolFacts
  <1>1. CASE \E g \in Gets : Pool!GetClient(g)
    <2>1. PICK g \in Gets : Pool!GetClient(g)
      BY <1>1
    <2> QED
      BY <2>1 DEF Pool!GetClient, Pool!LoadEntry, Pool!NotConfigured, Pool!LoadFails,
         Pool!Lookup, Pool!ProbeAnswered, Pool!Reuse, Pool!ProbeFailed, Pool!Drop, Pool!Connect,
         Pool!ConnectFails, Pool!Handshake, Pool!HandshakeFails, Pool!Publish,
         Pool!Goto, Pool!Return
  <1>2. CASE Pool!Environment \/ \E s \in Servers : Pool!Close(s)
    BY <1>2 DEF Pool!Environment, Pool!Close, Pool!CloseAll, Pool!Evict, Pool!SaveConfig,
       Pool!Network, Pool!PeerChange
  <1> QED
    BY <1>1, <1>2 DEF PoolStep

\* A client that has left the pool never comes back.
LEMMA GoneForGood ==
    ASSUME Pool!TypeOK, PoolFacts, PoolStep,
           NEW client \in Gets, NEW g \in Gets, pc[client] = "returned", Gone(client, g)
    PROVE  Gone(client, g)'
  <1> USE NoClientNotGet DEF Pool!TypeOK, PoolFacts, Gone
  <1>1. CASE \E f \in Gets : Pool!GetClient(f)
    <2>1. PICK f \in Gets : Pool!GetClient(f)
      BY <1>1
    <2> QED
      BY <2>1 DEF Pool!GetClient, Pool!LoadEntry, Pool!NotConfigured, Pool!LoadFails,
         Pool!Lookup, Pool!ProbeAnswered, Pool!Reuse, Pool!ProbeFailed, Pool!Drop, Pool!Connect,
         Pool!ConnectFails, Pool!Handshake, Pool!HandshakeFails, Pool!Publish,
         Pool!Goto, Pool!Return
  <1>2. CASE Pool!Environment \/ \E s \in Servers : Pool!Close(s)
    BY <1>2 DEF Pool!Environment, Pool!Close, Pool!CloseAll, Pool!Evict, Pool!SaveConfig,
       Pool!Network, Pool!PeerChange
  <1> QED
    BY <1>1, <1>2 DEF PoolStep

LEMMA GetInGets == ASSUME TypeOK, NEW c \in Calls PROVE Get(c) \in Gets
  BY DEF TypeOK, Get, Gets

\* Every step is a step of the pool or leaves the pool alone.
LEMMA StepsOfPool ==
    ASSUME TypeOK, [Next]_vars
    PROVE  PoolStep \/ UNCHANGED poolVars
  <1>1. CASE UNCHANGED vars
    BY <1>1 DEF vars
  <1>2. ASSUME NEW c \in Calls, Call(c)
        PROVE  PoolStep \/ UNCHANGED poolVars
    <2>1. Get(c) \in Gets /\ server[Get(c)] \in Servers
      BY GetInGets DEF TypeOK, Pool!TypeOK
    <2>2. CASE CallGetClient(c)
      BY <2>1, <2>2 DEF CallGetClient, PoolStep
    <2>3. CASE Reset(c)
      BY <2>1, <2>3 DEF Reset, PoolStep
    <2> QED
      BY <1>2, <2>2, <2>3
      DEF Call, GetClientFailed, NewSession, NewSessionFails, RequestPty, SendExec, Start,
          Finished, RunFails, TimedOut
  <1>3. CASE Environment
    BY <1>3 DEF Environment, PoolStep
  <1> QED
    BY <1>1, <1>2, <1>3 DEF Next

LEMMA NextPoolTyping == TypeOK /\ [Next]_vars => Pool!TypeOK'
  <1> SUFFICES ASSUME TypeOK, [Next]_vars
               PROVE  Pool!TypeOK'
    OBVIOUS
  <1>1. CASE PoolStep
    BY <1>1, PoolTyping DEF TypeOK
  <1>2. CASE UNCHANGED poolVars
    BY <1>2 DEF poolVars, TypeOK, Pool!TypeOK
  <1> QED
    BY <1>1, <1>2, StepsOfPool

LEMMA NextPoolFacts == IInv /\ [Next]_vars => PoolFacts'
  <1> SUFFICES ASSUME IInv, [Next]_vars
               PROVE  PoolFacts'
    OBVIOUS
  <1>1. CASE PoolStep
    BY <1>1, PoolFactsInv DEF IInv, TypeOK
  <1>2. CASE UNCHANGED poolVars
    BY <1>2 DEF poolVars, IInv, PoolFacts
  <1> QED
    BY <1>1, <1>2, StepsOfPool DEF IInv

\* What ssh_exec adds to the pool is preserved.
LEMMA NextExec == IInv /\ [Next]_vars => TypeOK' /\ RequestOnce' /\ AnswersOnce'
  <1> SUFFICES ASSUME IInv, [Next]_vars
               PROVE  TypeOK' /\ RequestOnce' /\ AnswersOnce'
    OBVIOUS
  <1> USE DEF IInv, TypeOK, RequestOnce, AnswersOnce, Phases
  <1>0. Pool!TypeOK'
    BY NextPoolTyping
  <1>1. CASE UNCHANGED execVars
    BY <1>0, <1>1 DEF execVars
  <1>2. ASSUME NEW c \in Calls, Call(c)
        PROVE  TypeOK' /\ RequestOnce' /\ AnswersOnce'
    <2> USE <1>0, NoClientNotGet DEF Goto, Answer
    <2>1. CASE CallGetClient(c)
      BY <1>1, <2>1 DEF CallGetClient
    <2>2. CASE GetClientFailed(c)
      BY <2>2 DEF GetClientFailed
    <2>3. ASSUME NEW pty \in BOOLEAN, NewSession(c, pty)
          PROVE  TypeOK' /\ RequestOnce' /\ AnswersOnce'
      BY <2>3 DEF NewSession
    <2>4. CASE NewSessionFails(c)
      BY <2>4 DEF NewSessionFails
    <2>5. CASE Reset(c)
      <3>1. attempt[c] = 1
        BY <2>5 DEF Reset, TriesInOrder
      <3>2. attempt' = [attempt EXCEPT ![c] = 2]
        BY <2>5, <3>1 DEF Reset
      <3> QED
        BY <2>5, <3>2 DEF Reset
    <2>6. CASE RequestPty(c)
      BY <2>6 DEF RequestPty
    <2>7. CASE SendExec(c)
      <3>1. Client(c) \in Gets
        BY <2>7, GetInGets DEF SendExec, ClientIs, Client, Pool!TypeOK
      <3> QED
        BY <2>7, <3>1 DEF SendExec
    <2>8. CASE Start(c)
      BY <2>8 DEF Start
    <2>9. CASE Finished(c)
      BY <2>9 DEF Finished
    <2>10. CASE RunFails(c)
      BY <2>10 DEF RunFails
    <2>11. CASE TimedOut(c)
      BY <2>11 DEF TimedOut
    <2> QED
      BY <1>2, <2>1, <2>2, <2>3, <2>4, <2>5, <2>6, <2>7, <2>8, <2>9, <2>10, <2>11 DEF Call
  <1> QED
    BY <1>1, <1>2 DEF Next, Environment, vars, execVars

\* Nor do the two tries of a call get mixed up.
LEMMA NextTries == IInv /\ [Next]_vars => TriesInOrder' /\ FirstClientGone'
  <1> SUFFICES ASSUME IInv, [Next]_vars
               PROVE  TriesInOrder' /\ FirstClientGone'
    OBVIOUS
  <1>0. /\ TypeOK /\ Pool!TypeOK /\ PoolFacts /\ TriesInOrder /\ FirstClientGone
        /\ \A c \in Calls : <<c, 1>> \in Gets /\ <<c, 2>> \in Gets
    BY DEF IInv, TypeOK, Gets
  \* Where the phases and tries stay, only the steps of the pool matter.
  <1>1. ASSUME UNCHANGED <<phase, attempt>>, PoolStep,
               \A c \in Calls : attempt[c] = 1 => pc'[<<c, 2>>] = pc[<<c, 2>>]
        PROVE  TriesInOrder' /\ FirstClientGone'
    <2>1. server' = server /\ \A g \in Gets : pc[g] = "returned" =>
                                  pc'[g] = "returned" /\ ret'[g] = ret[g]
      BY <1>0, <1>1, OnlyOwn, NoOnes DEF PoolStep
    <2>2. TriesInOrder'
      BY <1>0, <1>1, <2>1 DEF TriesInOrder
    <2>3. ASSUME NEW c \in Calls, attempt'[c] = 2, ret'[<<c, 1>>] # NoClient
          PROVE  Gone(ret[<<c, 1>>], <<c, 2>>)' /\ ret'[<<c, 1>>] = ret[<<c, 1>>]
      <3>1. attempt[c] = 2 /\ ret'[<<c, 1>>] = ret[<<c, 1>>]
        BY <1>0, <1>1, <2>1, <2>3 DEF TriesInOrder
      <3>2. /\ ret[<<c, 1>>] \in Gets
            /\ pc[ret[<<c, 1>>]] = "returned"
            /\ Gone(ret[<<c, 1>>], <<c, 2>>)
        BY <1>0, <2>3, <3>1 DEF Pool!TypeOK, PoolFacts, FirstClientGone
      <3> DEFINE client == ret[<<c, 1>>]
      <3>3. Gone(client, <<c, 2>>) /\ client \in Gets /\ pc[client] = "returned"
        BY <3>2
      <3>4. \A s \in Servers : clients'[s] # client
        BY <1>0, <1>1, <3>2, GoneForGood DEF Gone
      <3>5. seen'[<<c, 2>>] # client /\ ret'[<<c, 2>>] # client
        BY <1>0, <1>1, <3>2, GoneForGood DEF Gone
      <3> QED
        BY <3>1, <3>4, <3>5 DEF Gone
    <2> QED
      BY <2>2, <2>3 DEF FirstClientGone, Gone
  <1>2. ASSUME UNCHANGED poolVars, UNCHANGED attempt,
               \A c \in Calls : phase'[c] = "reset" => attempt[c] = 1 /\ pc[<<c, 1>>] = "returned"
        PROVE  TriesInOrder' /\ FirstClientGone'
    BY <1>0, <1>2 DEF poolVars, TriesInOrder, FirstClientGone, Gone
  <1>3. ASSUME NEW c \in Calls, Call(c)
        PROVE  TriesInOrder' /\ FirstClientGone'
    <2>1. CASE CallGetClient(c)
      <3>1. Get(c) \in Gets /\ Pool!GetClient(Get(c)) /\ UNCHANGED <<phase, attempt>>
        BY <1>0, <2>1, GetInGets DEF CallGetClient, execVars
      <3>2. \A d \in Calls : attempt[d] = 1 => <<d, 2>> # Get(c)
        BY <1>0 DEF Get, TypeOK
      <3>3. \A d \in Calls : attempt[d] = 1 => pc'[<<d, 2>>] = pc[<<d, 2>>]
        BY <1>0, <3>1, <3>2, OnlyOwn
      <3> QED
        BY <1>1, <3>1, <3>3 DEF PoolStep
    <2>2. CASE NewSessionFails(c)
      <3>1. UNCHANGED poolVars /\ UNCHANGED attempt
        BY <2>2 DEF NewSessionFails
      <3>2. attempt[c] = 1 => pc[<<c, 1>>] = "returned"
        BY <1>0, <2>2 DEF NewSessionFails, ClientIs, Client, Get, PoolFacts
      <3>3. ASSUME NEW d \in Calls, phase'[d] = "reset"
            PROVE  attempt[d] = 1 /\ pc[<<d, 1>>] = "returned"
        BY <1>0, <2>2, <3>2, <3>3
        DEF NewSessionFails, Goto, Answer, TypeOK, TriesInOrder
      <3> QED
        BY <1>2, <3>1, <3>3
    <2>3. CASE Reset(c)
      <3>1. /\ attempt[c] = 1 /\ pc[<<c, 1>>] = "returned" /\ pc[<<c, 2>>] = "idle"
            /\ Get(c) = <<c, 1>> /\ Get(c) \in Gets
        BY <1>0, <2>3, GetInGets DEF Reset, TriesInOrder, Get
      <3>2. attempt' = [attempt EXCEPT ![c] = 2] /\ phase' = [phase EXCEPT ![c] = "open"]
        BY <2>3, <3>1 DEF Reset, Goto
      <3>3. UNCHANGED <<pc, server, seen, ret>>
        BY <2>3 DEF Reset, Pool!Close
      <3>4. \A s \in Servers :
               clients'[s] = IF s = server[<<c, 1>>] THEN NoClient ELSE clients[s]
        BY <1>0, <2>3, <3>1 DEF Reset, Pool!Close, Pool!Evict, Pool!TypeOK
      <3>5. TriesInOrder'
        BY <1>0, <3>1, <3>2, <3>3 DEF TriesInOrder, TypeOK
      <3>6. ASSUME NEW d \in Calls, attempt'[d] = 2, ret[<<d, 1>>] # NoClient
            PROVE  Gone(ret[<<d, 1>>], <<d, 2>>)'
        <4>1. CASE d = c
          <5>1. seen[<<c, 2>>] = NoClient /\ ret[<<c, 2>>] = NoClient
            BY <1>0, <3>1 DEF PoolFacts
          <5>2. server[ret[<<c, 1>>]] = server[<<c, 1>>]
            BY <1>0, <3>6, <4>1 DEF PoolFacts
          <5>3. \A s \in Servers : clients'[s] # ret[<<c, 1>>]
            BY <1>0, <3>4, <3>6, <4>1, <5>2 DEF PoolFacts
          <5> QED
            BY <3>3, <3>6, <4>1, <5>1, <5>3 DEF Gone
        <4>2. CASE d # c
          <5>1. Gone(ret[<<d, 1>>], <<d, 2>>)
            BY <1>0, <3>2, <3>6, <4>2 DEF FirstClientGone, TypeOK
          <5> QED
            BY <3>3, <3>4, <3>6, <5>1 DEF Gone
        <4> QED
          BY <4>1, <4>2
      <3> QED
        BY <3>3, <3>5, <3>6 DEF FirstClientGone, Gone
    <2>4. CASE \/ GetClientFailed(c) \/ RequestPty(c) \/ SendExec(c) \/ Start(c)
               \/ Finished(c) \/ RunFails(c) \/ TimedOut(c)
               \/ \E pty \in BOOLEAN : NewSession(c, pty)
      <3>1. UNCHANGED poolVars /\ UNCHANGED attempt
        BY <2>4 DEF GetClientFailed, RequestPty, SendExec, Start, Finished, RunFails,
           TimedOut, NewSession
      <3>2. \A d \in Calls : phase'[d] = "reset" => phase[d] = "reset"
        BY <1>0, <2>4 DEF GetClientFailed, RequestPty, SendExec, Start, Finished, RunFails,
           TimedOut, NewSession, Goto, Answer, TypeOK
      <3> QED
        BY <1>0, <1>2, <3>1, <3>2 DEF TriesInOrder
    <2> QED
      BY <1>3, <2>1, <2>2, <2>3, <2>4 DEF Call
  <1>4. CASE Environment
    <2>1. UNCHANGED <<phase, attempt>> /\ PoolStep /\ UNCHANGED pc
      BY <1>4, NoOnes DEF Environment, execVars, PoolStep
    <2> QED
      BY <1>1, <2>1
  <1>5. CASE UNCHANGED vars
    BY <1>0, <1>2, <1>5 DEF vars, execVars, TriesInOrder
  <1> QED
    BY <1>3, <1>4, <1>5 DEF Next

LEMMA NextInv == IInv /\ [Next]_vars => IInv'
  BY NextPoolFacts, NextExec, NextTries DEF IInv

LEMMA Invariance == Spec => []IInv
  BY InitInv, NextInv, PTL DEF Spec

-----------------------------------------------------------------------------
\* The type invariant: every variable keeps its type (mcp_server.go:289-327).
THEOREM Typing == Spec => []TypeOK
  <1>1. IInv => TypeOK
    BY DEF IInv
  <1> QED
    BY Invariance, <1>1, PTL

\* The command of a call starts at most once, whatever is lost, closed or
\* retried meanwhile (mcp_server.go:313-322, pool.go:181-247).
THEOREM NoCommandRunsTwice == Spec => []AtMostOnce
  <1>1. IInv => AtMostOnce
    BY DEF IInv, RequestOnce, AtMostOnce
  <1> QED
    BY Invariance, <1>1, PTL

\* The second try of a call never gets the client on which the first one could
\* not create a session (mcp_server.go:313-318, pool.go:122-132).
THEOREM RetryGetsAnother == Spec => []RetryIsFresh
  <1>1. IInv => RetryIsFresh
    <2> SUFFICES ASSUME IInv, NEW c \in Calls, ret[<<c, 2>>] # NoClient
                 PROVE  ret[<<c, 2>>] # ret[<<c, 1>>]
      BY DEF RetryIsFresh
    <2>1. <<c, 1>> \in Gets /\ <<c, 2>> \in Gets
      BY DEF Gets
    <2>2. attempt[c] = 2
      BY <2>1 DEF IInv, TypeOK, TriesInOrder, PoolFacts
    <2> QED
      BY <2>2 DEF IInv, FirstClientGone, Gone
  <1> QED
    BY Invariance, <1>1, PTL

\* ssh_exec is a client of the pool as SSHPool describes it
\* (mcp_server.go:308-319).
THEOREM ExecUsesPool == Spec => UsesPool
  <1>1. Init => Pool!Init
    BY DEF Init
  <1>2. IInv /\ [Next]_vars => [Pool!Next]_(Pool!vars)
    <2> SUFFICES ASSUME IInv, [Next]_vars
                 PROVE  [Pool!Next]_(Pool!vars)
      OBVIOUS
    <2>1. CASE PoolStep
      BY <2>1 DEF PoolStep, Pool!Next, Pool!Environment
    <2>2. CASE UNCHANGED poolVars
      BY <2>2 DEF poolVars, Pool!vars
    <2> QED
      BY <2>1, <2>2, StepsOfPool DEF IInv
  <1> QED
    BY Invariance, <1>1, <1>2, PTL DEF Spec, UsesPool, Pool!Spec

\* ssh_exec keeps the promise of RemoteExec: a command starts at most once, and
\* "ok" is answered only for a command that has run (mcp_server.go:307-327).
THEOREM ExecKeepsPromise == Spec => KeepsPromise
  <1>1. Init => Promise!Init
    BY DEF Init, Promise!Init
  <1>2. IInv /\ [Next]_vars => [Promise!Next]_<<runs, reply>>
    <2> SUFFICES ASSUME IInv, [Next]_vars
                 PROVE  [Promise!Next]_<<runs, reply>>
      OBVIOUS
    <2> USE DEF IInv, TypeOK, RequestOnce, AnswersOnce, Answer
    <2>1. CASE UNCHANGED <<runs, reply>>
      BY <2>1
    <2>2. ASSUME NEW c \in Calls, Call(c)
          PROVE  [Promise!Next]_<<runs, reply>>
      <3>1. CASE Start(c)
        <4>1. runs[c] = 0 /\ reply[c] # "ok" /\ UNCHANGED reply
          BY <3>1 DEF Start
        <4>2. runs' = [runs EXCEPT ![c] = 1]
          BY <3>1, <4>1 DEF Start
        <4>3. Promise!Run(c)
          BY <4>1, <4>2 DEF Promise!Run
        <4> QED
          BY <4>3 DEF Promise!Next
      <3>2. CASE Finished(c)
        <4>1. Promise!ReplyOk(c)
          BY <3>2 DEF Finished, Promise!ReplyOk
        <4> QED
          BY <4>1 DEF Promise!Next
      <3>3. CASE GetClientFailed(c) \/ RunFails(c) \/ TimedOut(c)
        <4>1. Promise!ReplyFailed(c)
          BY <3>3 DEF GetClientFailed, RunFails, TimedOut, Promise!ReplyFailed
        <4> QED
          BY <4>1 DEF Promise!Next
      <3>4. CASE NewSessionFails(c)
        <4>1. Promise!ReplyFailed(c) \/ UNCHANGED <<runs, reply>>
          BY <3>4 DEF NewSessionFails, Promise!ReplyFailed
        <4> QED
          BY <4>1 DEF Promise!Next
      <3> QED
        BY <2>2, <3>1, <3>2, <3>3, <3>4
        DEF Call, CallGetClient, NewSession, Reset, RequestPty, SendExec, execVars
    <2> QED
      BY <2>1, <2>2 DEF Next, Environment, vars, execVars
  <1> QED
    BY Invariance, <1>1, <1>2, PTL DEF Spec, KeepsPromise, Promise!Spec

-----------------------------------------------------------------------------
\* The theorems of the pool, about the pool below ssh_exec.
Proved == INSTANCE SSHPool_proofs

\* SSHPool is the same in both instances.
LEMMA SamePool == Pool!Spec <=> Proved!Spec
  <1> USE DEF Pool!Goto, Pool!Return, Proved!Goto, Proved!Return
  <1>1. Pool!Init <=> Proved!Init
    BY DEF Pool!Init, Proved!Init
  <1>2. \A g \in Gets : Pool!GetClient(g) = Proved!GetClient(g)
    BY DEF Pool!GetClient, Pool!LoadEntry, Pool!NotConfigured, Pool!LoadFails, Pool!Lookup,
           Pool!ProbeAnswered, Pool!Reuse, Pool!ProbeFailed, Pool!Drop, Pool!Connect, Pool!ConnectFails,
           Pool!Handshake, Pool!HandshakeFails, Pool!Publish,
           Proved!GetClient, Proved!LoadEntry, Proved!NotConfigured, Proved!LoadFails,
           Proved!Lookup, Proved!ProbeAnswered, Proved!Reuse, Proved!ProbeFailed, Proved!Drop,
           Proved!Connect, Proved!ConnectFails, Proved!Handshake, Proved!HandshakeFails,
           Proved!Publish
  <1>3. Pool!Environment = Proved!Environment
    BY DEF Pool!Environment, Pool!Close, Pool!CloseAll, Pool!Evict, Pool!SaveConfig,
           Pool!Network, Pool!PeerChange,
           Proved!Environment, Proved!Close, Proved!CloseAll, Proved!Evict, Proved!SaveConfig,
           Proved!Network, Proved!PeerChange
  <1>4. [Pool!Next]_(Pool!vars) <=> [Proved!Next]_(Proved!vars)
    BY <1>2, <1>3 DEF Pool!Next, Proved!Next, Pool!vars, Proved!vars
  <1> QED
    BY <1>1, <1>4, PTL DEF Pool!Spec, Proved!Spec

\* What the pool promises holds below ssh_exec, with its retries, sessions and
\* lost requests: no connection is leaked, none that kgssh closed stays pooled,
\* and none is returned but in the two races of the pool (pool.go:62-101,
\* mcp_server.go:308-319).
THEOREM ExecKeepsPool ==
    Spec => /\ []Pool!NoLeakedConnection
            /\ []Pool!ClosedNotPooled
            /\ Pool!ReturnsOpenClient
  <1>1. Spec => Proved!Spec
    BY ExecUsesPool, SamePool DEF UsesPool
  <1>2. /\ Proved!Spec => []Proved!NoLeakedConnection
        /\ Proved!Spec => []Proved!ClosedNotPooled
        /\ Proved!Spec => Proved!ReturnsOpenClient
    BY Proved!NoLeak, Proved!ClosedLeavesPool, Proved!ReturnedIsOpen, PoolAssumption
  <1>3. Proved!NoLeakedConnection => Pool!NoLeakedConnection
    BY DEF Proved!NoLeakedConnection, Pool!NoLeakedConnection, Proved!Open, Pool!Open
  <1>4. Proved!ClosedNotPooled => Pool!ClosedNotPooled
    BY DEF Proved!ClosedNotPooled, Pool!ClosedNotPooled
  <1> DEFINE A == \A g \in Gets :
                     /\ pc'[g] = "returned" /\ pc[g] # "returned"
                     /\ ret'[g] # NoClient /\ conn'[ret'[g]] = "closed"
                     => \/ pc[g] \in {"publish", "reuse"}
                           /\ \E h \in Gets \ {g} : pc[h] = "drop" /\ seen[h] = ret'[g]
                        \/ pc[g] = "reuse" /\ clients'[server[g]] # ret'[g]
  <1>5. [A]_(Proved!vars) => [A]_(Pool!vars)
    BY DEF Proved!vars, Pool!vars
  <1>6. Proved!ReturnsOpenClient => Pool!ReturnsOpenClient
    BY <1>5, PTL DEF Proved!ReturnsOpenClient, Pool!ReturnsOpenClient
  <1> QED
    BY <1>1, <1>2, <1>3, <1>4, <1>6, PTL
=============================================================================
