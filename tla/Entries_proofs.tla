---------------------------- MODULE Entries_proofs ----------------------------
(***************************************************************************)
(* What an entry says, after any sequence of commands, tools and edits of  *)
(* ssh_config; and the destination and the keys that it stands for.        *)
(***************************************************************************)
EXTENDS Entries, FiniteSetTheorems, SequenceTheorems, WellFoundedInduction, TLAPS

HasFlag(extra) == \E i \in DOMAIN extra : extra[i] \in [flag : {"-i"}, path : DOMAIN Spots]

\* The arguments are those that were stated last, or these and one -i.
ExtraInv(extra, stated) ==
    /\ IsPrefix(stated, extra)
    /\ extra = stated \/ (HasFlag(extra) /\ Len(extra) <= Len(stated) + 1)

LEMMA PrefixOfItself ==
    ASSUME NEW s \in Seq(Args)
    PROVE  ExtraInv(s, s)
  BY DEF ExtraInv, IsPrefix

\* add_server appends at most once to what was stated.
LEMMA WithIdentityKeeps ==
    ASSUME NEW extra \in Seq(Args), NEW stated \in Seq(Args), NEW path \in DOMAIN Spots,
           ExtraInv(extra, stated)
    PROVE  /\ WithIdentity(extra, path) \in Seq(Args)
           /\ ExtraInv(WithIdentity(extra, path), stated)
  <1>1. CASE HasFlag(extra)
    BY <1>1 DEF WithIdentity, HasFlag
  <1>2. CASE ~HasFlag(extra)
    <2> DEFINE arg == [flag |-> "-i", path |-> path]
               long == Append(extra, arg)
    <2>1. extra = stated
      BY <1>2 DEF ExtraInv
    <2>2. WithIdentity(extra, path) = long
      BY <1>2 DEF WithIdentity, HasFlag
    <2>3. arg \in Args /\ arg \in [flag : {"-i"}, path : DOMAIN Spots]
      BY ValuesAssumption DEF IdentityFlags
    <2>4. long \in Seq(Args) /\ Len(long) = Len(extra) + 1 /\ long[Len(extra) + 1] = arg
      BY <2>3
    <2>5. HasFlag(long)
      <3>1. Len(extra) + 1 \in DOMAIN long
        BY <2>4
      <3> QED
        BY <2>3, <2>4, <3>1 DEF HasFlag
    <2>6. IsPrefix(extra, long)
      BY <2>3 DEF IsPrefix
    <2> QED
      BY <2>1, <2>2, <2>4, <2>5, <2>6 DEF ExtraInv
  <1> QED
    BY <1>1, <1>2

\* What LastWordCounts says of one field.
FieldInv(value, stated, f) ==
    value = IF stated # Unset(f) THEN stated
            ELSE IF f = "user" /\ value = Root THEN Root
            ELSE IF f = "port" /\ value = 22 THEN 22
            ELSE Unset(f)

SaidInv ==
    /\ TypeOK
    /\ entry # NoEntry =>
          /\ entry.host = said.host
          /\ \A f \in Fields : FieldInv(entry[f], said[f], f)
          /\ ExtraInv(entry.extra, said.extra)

LEMMA SaidInvSuffices == SaidInv => LastWordCounts
  <1> SUFFICES ASSUME SaidInv, entry # NoEntry
               PROVE  LastWordCounts
    BY DEF LastWordCounts
  <1>1. entry.extra \in Seq(Args) /\ said.extra \in Seq(Args)
    BY DEF SaidInv, TypeOK, Entry, Request
  <1>2. Len(entry.extra) <= Len(said.extra) + 1
    BY <1>1 DEF SaidInv, ExtraInv
  <1> QED
    BY <1>2 DEF SaidInv, LastWordCounts, FieldInv, ExtraInv

LEMMA InitSaid == Init => SaidInv
  BY DEF Init, SaidInv, TypeOK

LEMMA SaidType ==
    ASSUME TypeOK, NEW r \in Requests
    PROVE  /\ Said(r) \in Request
           /\ Said(r).host = r.host
           /\ \A f \in Fields :
                 Said(r)[f] = IF r[f] = Unset(f) /\ said # NoEntry THEN said[f] ELSE r[f]
           /\ Said(r).extra = IF r.extra = <<>> /\ said # NoEntry THEN said.extra ELSE r.extra
  <1>1. r \in Request /\ (said # NoEntry => said \in Request)
    BY RequestsAssumption DEF TypeOK
  <1>2. /\ Said(r).host = r.host
        /\ Said(r).extra = IF r.extra = <<>> /\ said # NoEntry THEN said.extra ELSE r.extra
        /\ \A f \in Fields :
              Said(r)[f] = IF r[f] = Unset(f) /\ said # NoEntry THEN said[f] ELSE r[f]
    BY DEF Said, Fields
  <1>3. Said(r) = [host |-> Said(r).host, user |-> Said(r).user, port |-> Said(r).port,
                   password |-> Said(r).password, identity |-> Said(r).identity,
                   jump |-> Said(r).jump, description |-> Said(r).description,
                   extra |-> Said(r).extra]
    BY DEF Said, Fields
  <1>4. /\ Said(r).host \in Values /\ Said(r).user \in Values /\ Said(r).port \in Nat
        /\ Said(r).password \in Values /\ Said(r).identity \in Path /\ Said(r).jump \in Values
        /\ Said(r).description \in Values /\ Said(r).extra \in Seq(Args)
    BY <1>1, <1>2 DEF Request, Fields
  <1> QED
    BY <1>2, <1>3, <1>4 DEF Request

LEMMA MergedType ==
    ASSUME SaidInv, NEW r \in Requests
    PROVE  /\ Merged(r) \in Entry
           /\ Merged(r).host = Said(r).host
           /\ \A f \in Fields : FieldInv(Merged(r)[f], Said(r)[f], f)
           /\ ExtraInv(Merged(r).extra, Said(r).extra)
  <1>1. r \in Request /\ (entry # NoEntry => entry \in Entry) /\ TypeOK
    BY RequestsAssumption DEF SaidInv, TypeOK
  <1>2. Merged(r) \in Entry
    BY <1>1, ValuesAssumption
    DEF Merged, Entry, Request, Orelse, Old, OldExtra, OldInfo, Unset, Path
  <1>3. Merged(r).host = Said(r).host
    BY <1>1, SaidType DEF Merged
  <1>4. ASSUME NEW f \in Fields
        PROVE  FieldInv(Merged(r)[f], Said(r)[f], f)
    <2>1. Said(r)[f] = IF r[f] = Unset(f) /\ said # NoEntry THEN said[f] ELSE r[f]
      BY <1>1, SaidType
    <2>2. Merged(r)[f] = IF f = "port" THEN Orelse(f, Orelse(f, r[f], Old(f)), 22)
                         ELSE Orelse(f, r[f], Old(f))
      BY DEF Merged, Fields
    <2>3. entry # NoEntry => FieldInv(entry[f], said[f], f)
      BY DEF SaidInv
    <2> QED
      BY <1>1, <2>1, <2>2, <2>3 DEF FieldInv, Orelse, Old, Unset, TypeOK
  <1>5. ExtraInv(Merged(r).extra, Said(r).extra)
    <2>1. Merged(r).extra = IF r.extra = <<>> THEN OldExtra ELSE r.extra
      BY DEF Merged
    <2>2. Said(r).extra = IF r.extra = <<>> /\ said # NoEntry THEN said.extra ELSE r.extra
      BY <1>1, SaidType
    <2>3. r.extra \in Seq(Args) /\ (entry = NoEntry <=> said = NoEntry)
      BY <1>1 DEF Request, TypeOK
    <2> QED
      BY <2>1, <2>2, <2>3, PrefixOfItself DEF OldExtra, SaidInv
  <1> QED
    BY <1>2, <1>3, <1>4, <1>5

LEMMA NextSaid == SaidInv /\ [Next]_vars => SaidInv'
  <1> SUFFICES ASSUME SaidInv, [Next]_vars
               PROVE  SaidInv'
    OBVIOUS
  <1>t. TypeOK
    BY DEF SaidInv
  <1>e. \A x \in Entry \union Request : x # NoEntry
    BY ValuesAssumption
  <1>1. ASSUME NEW r \in Requests, Add(r)
        PROVE  SaidInv'
    BY <1>1, <1>t, <1>e, MergedType, SaidType DEF Add, SaidInv, TypeOK
  <1>2. ASSUME NEW r \in Requests, AddServer(r)
        PROVE  SaidInv'
    <2> DEFINE merged == Merged(r)
               user == IF entry = NoEntry THEN Orelse("user", r.user, Root) ELSE merged.user
               extra == IF r.identity = None THEN merged.extra
                        ELSE WithIdentity(merged.extra, r.identity)
    <2>1. /\ entry' = [merged EXCEPT !.user = user, !.extra = extra]
          /\ said' = Said(r) /\ UNCHANGED <<sshConfig, disk>>
      BY <1>2 DEF AddServer
    <2>2. r \in Request
      BY RequestsAssumption
    <2>3. extra \in Seq(Args) /\ ExtraInv(extra, Said(r).extra)
      <3>1. merged.extra \in Seq(Args) /\ Said(r).extra \in Seq(Args)
        BY <1>t, MergedType, SaidType DEF Entry, Request
      <3>2. r.identity # None => r.identity \in DOMAIN Spots
        BY <2>2 DEF Request, Path
      <3>3. ExtraInv(merged.extra, Said(r).extra)
        BY MergedType
      <3> QED
        BY <3>1, <3>2, <3>3, WithIdentityKeeps
    <2>4. user \in Values /\ FieldInv(user, Said(r).user, "user")
      <3>1. merged.user \in Values /\ FieldInv(merged.user, Said(r).user, "user")
        BY MergedType DEF Entry, Fields
      <3>2. CASE entry = NoEntry
        <4>1. Said(r)["user"] = r.user
          BY <1>t, <3>2, SaidType DEF TypeOK, Fields
        <4>2. r.user \in Values
          BY <2>2 DEF Request
        <4> QED
          BY <3>2, <4>1, <4>2, ValuesAssumption DEF Orelse, FieldInv, Unset
      <3> QED
        BY <3>1, <3>2
    <2>5. entry' \in Entry
      BY <2>1, <2>3, <2>4, MergedType DEF Entry
    <2>6. /\ entry'.host = merged.host /\ entry'.extra = extra /\ entry'.user = user
          /\ \A f \in Fields \ {"user"} : entry'[f] = merged[f]
      BY <2>1, MergedType DEF Entry, Fields
    <2>7. \A f \in Fields : FieldInv(entry'[f], said'[f], f)
      <3>1. ASSUME NEW f \in Fields, f # "user"
            PROVE  FieldInv(entry'[f], said'[f], f)
        BY <2>1, <2>6, <3>1, MergedType
      <3> QED
        BY <2>1, <2>4, <2>6, <3>1
    <2>8. TypeOK'
      BY <1>e, <1>t, <2>1, <2>5, SaidType DEF TypeOK
    <2> QED
      BY <2>1, <2>3, <2>6, <2>7, <2>8, MergedType DEF SaidInv
  <1>3. CASE RemoveServer
    BY <1>3, <1>t DEF RemoveServer, SaidInv, TypeOK
  <1>4. ASSUME NEW i \in Infos, UpdateServerInfo(i)
        PROVE  SaidInv'
    <2>1. entry \in Entry /\ entry' = [entry EXCEPT !.info = i] /\ UNCHANGED <<sshConfig, disk, said>>
      BY <1>4, <1>t DEF UpdateServerInfo, TypeOK
    <2>2. entry' \in Entry /\ entry'.host = entry.host /\ entry'.extra = entry.extra
          /\ \A f \in Fields : entry'[f] = entry[f]
      BY <2>1 DEF Entry, Fields
    <2> QED
      BY <1>e, <1>t, <2>1, <2>2 DEF SaidInv, TypeOK
  <1>5. ASSUME NEW o \in BOOLEAN, ImportCopy(o)
        PROVE  SaidInv'
    <2>1. sshConfig[AliasName] \in [host : Values, user : Values, port : Nat,
                                    identities : Seq(DOMAIN Spots), jump : Values]
      BY <1>t, SSHConfigsAssumption, ValuesAssumption DEF TypeOK, Block
    <2>2. Copied \in Request
      <3>1. Copied.identity \in Path
        BY <2>1 DEF Copied, Path, Last
      <3> QED
        BY <2>1, <3>1, ValuesAssumption DEF Copied, Request
    <2>3. /\ said' = Copied /\ entry' \in Entry
          /\ entry'.host = Copied.host /\ entry'.extra = Copied.extra
          /\ \A f \in Fields : entry'[f] = Copied[f]
      <3>1. said' = Copied
        BY <1>5 DEF ImportCopy
      <3>2. entry' = [host |-> Copied.host, user |-> Copied.user, port |-> Copied.port,
                 password |-> None, identity |-> Copied.identity, jump |-> Copied.jump,
                 description |-> None, extra |-> <<>>, info |-> None]
        BY <1>5 DEF ImportCopy
      <3>3. Copied.password = None /\ Copied.description = None /\ Copied.extra = <<>>
        BY DEF Copied
      <3> HIDE DEF Copied
      <3> QED
        BY <2>2, <3>1, <3>2, <3>3 DEF Entry, Request, Fields
    <2>4. \A f \in Fields : FieldInv(entry'[f], said'[f], f)
      BY <2>3 DEF FieldInv
    <2>5. ExtraInv(entry'.extra, said'.extra)
      BY <2>2, <2>3, PrefixOfItself DEF Request
    <2>6. UNCHANGED <<sshConfig, disk>>
      BY <1>5 DEF ImportCopy
    <2>7. TypeOK'
      BY <1>e, <1>t, <2>2, <2>3, <2>6 DEF TypeOK
    <2>8. entry'.host = said'.host
      BY <2>3
    <2> QED
      BY <2>4, <2>5, <2>7, <2>8 DEF SaidInv
  <1>6. ASSUME NEW o \in BOOLEAN, ImportLink(o)
        PROVE  SaidInv'
    <2>1. /\ entry # NoEntry => entry \in Entry
          /\ said # NoEntry => said \in Request
          /\ entry = NoEntry <=> said = NoEntry
      BY <1>t DEF TypeOK
    <2>2. entry' \in Entry /\ said' \in Request /\ UNCHANGED <<sshConfig, disk>>
      BY <1>6, <2>1, ValuesAssumption
      DEF ImportLink, Old, OldExtra, OldInfo, Entry, Request, Path, Unset
    <2>3. entry'.host = said'.host
      BY <1>6 DEF ImportLink
    <2>4. ExtraInv(entry'.extra, said'.extra)
      <3>1. /\ entry'.extra = IF entry = NoEntry THEN <<>> ELSE entry.extra
            /\ said'.extra = IF said = NoEntry THEN <<>> ELSE said.extra
        BY <1>6 DEF ImportLink, OldExtra
      <3>2. <<>> \in Seq(Args)
        OBVIOUS
      <3>3. entry # NoEntry => ExtraInv(entry.extra, said.extra)
        BY DEF SaidInv
      <3> QED
        BY <2>1, <3>1, <3>2, <3>3, PrefixOfItself
    <2>5. ASSUME NEW f \in Fields
          PROVE  FieldInv(entry'[f], said'[f], f)
      <3>1. CASE f = "description"
        <4>1. /\ entry'[f] = IF entry = NoEntry THEN None ELSE entry[f]
              /\ said'[f] = IF said = NoEntry THEN None ELSE said[f]
          BY <1>6, <3>1 DEF ImportLink, Old, Unset
        <4>2. entry # NoEntry => FieldInv(entry[f], said[f], f)
          BY DEF SaidInv
        <4> QED
          BY <2>1, <3>1, <4>1, <4>2 DEF FieldInv, Unset
      <3>2. CASE f # "description"
        BY <1>6, <3>2 DEF ImportLink, FieldInv, Unset, Fields
      <3> QED
        BY <3>1, <3>2
    <2> QED
      BY <1>e, <1>t, <2>2, <2>3, <2>4, <2>5 DEF SaidInv, TypeOK
  <1>7. CASE OmitHost
    <2>1. /\ entry \in Entry /\ said \in Request
          /\ entry' = [entry EXCEPT !.host = None] /\ said' = [said EXCEPT !.host = None]
          /\ UNCHANGED <<sshConfig, disk>>
      BY <1>7, <1>t DEF OmitHost, TypeOK
    <2>2. /\ entry' \in Entry /\ said' \in Request
          /\ entry'.host = said'.host /\ entry'.extra = entry.extra /\ said'.extra = said.extra
          /\ \A f \in Fields : entry'[f] = entry[f] /\ said'[f] = said[f]
      BY <2>1, ValuesAssumption DEF Entry, Request, Fields
    <2> QED
      BY <1>e, <1>t, <2>1, <2>2 DEF SaidInv, TypeOK
  <1>8. CASE EditSSHConfig \/ MoveKeys \/ UNCHANGED vars
    BY <1>8, <1>t DEF EditSSHConfig, MoveKeys, vars, SaidInv, TypeOK
  <1> QED
    BY <1>1, <1>2, <1>3, <1>4, <1>5, <1>6, <1>7, <1>8 DEF Next

\* The type invariant: every entry that a command or an import writes is well
\* formed (config.go:63-73).
THEOREM Typing == Spec => []TypeOK
  <1>1. SaidInv => TypeOK
    BY DEF SaidInv
  <1> QED
    BY <1>1, InitSaid, NextSaid, PTL DEF Spec

\* Whatever sequence of commands, tools and edits has written an entry, it has what
\* was last stated of each field, or a default, and add_server has appended at most
\* one -i to its arguments (main.go:341-381, mcp_server.go:612-664).
THEOREM LastWord == Spec => []LastWordCounts
  BY InitSaid, NextSaid, SaidInvSuffices, PTL DEF Spec

\* What OpenSSH makes of a name.
LEMMA DashGFacts ==
    ASSUME TypeOK, NEW name \in Values
    PROVE  /\ SSHDashG(name).port \in Nat \ {0}
           /\ SSHDashG(name).identities \in Seq(DOMAIN Spots)
  <1>1. sshConfig[name].port \in Nat /\ sshConfig[name].identities \in Seq(DOMAIN Spots)
    BY SSHConfigsAssumption DEF TypeOK, Block
  <1> QED
    BY <1>1, SSHConfigsAssumption DEF SSHDashG

\* Entries of all kinds, and not only those that commands write.
LEMMA TypeSuffices == TypeOK => SameDestination
  <1> DEFINE ssh == OpenSSH(BuildSSHArgs(entry))
             native == Native(entry)
             config == SSHDashG(entry.host)
  <1>1. SUFFICES ASSUME TypeOK, entry # NoEntry, ~Unresolved(entry)
                 PROVE  /\ DelegatesToSSHConfig(entry) \/ config.host = entry.host =>
                              native.host = ssh.host
                        /\ \/ DelegatesToSSHConfig(entry) \/ entry.port \notin {0, 22}
                           \/ config.port = 22
                           => native.port = ssh.port
                        /\ DelegatesToSSHConfig(entry) \/ entry.user # None =>
                              native.user = ssh.user
    BY DEF SameDestination
  <1>2. entry \in Entry
    BY <1>1 DEF TypeOK
  <1>3. CASE DelegatesToSSHConfig(entry)
    <2> DEFINE target == SSHDashG(AliasName)
    <2>1. /\ Effective(entry).host = target.host
          /\ Effective(entry).user = IF entry.user = None THEN target.user ELSE entry.user
          /\ Effective(entry).port = IF entry.port = 0 THEN target.port ELSE entry.port
      BY <1>2, <1>3 DEF Effective, Entry, Orelse, Unset
    <2>2. /\ BuildSSHArgs(entry).name = AliasName /\ BuildSSHArgs(entry).user = entry.user
          /\ BuildSSHArgs(entry).port = entry.port
      BY <1>3 DEF BuildSSHArgs
    <2>3. target.port # 0
      BY <1>1, DashGFacts, ValuesAssumption
    <2> HIDE DEF target
    <2> QED
      BY <1>3, <2>1, <2>2, <2>3 DEF OpenSSH, Native, target
  <1>4. CASE ~DelegatesToSSHConfig(entry)
    <2>1. Effective(entry) = entry
      BY <1>4 DEF Effective
    <2>2. /\ BuildSSHArgs(entry).name = entry.host /\ BuildSSHArgs(entry).user = entry.user
          /\ BuildSSHArgs(entry).port = IF entry.port = 22 THEN 0 ELSE entry.port
      BY <1>4 DEF BuildSSHArgs
    <2>3. /\ native.host = entry.host /\ native.user = entry.user
          /\ native.port = IF entry.port = 0 THEN 22 ELSE entry.port
      BY <2>1 DEF Native
    <2>4. /\ ssh.host = config.host
          /\ ssh.user = IF entry.user = None THEN config.user ELSE entry.user
          /\ ssh.port = IF entry.port \in {0, 22} THEN config.port ELSE entry.port
      BY <2>2 DEF OpenSSH
    <2> HIDE DEF ssh, native, config
    <2> QED
      BY <1>4, <2>3, <2>4
  <1> QED
    BY <1>3, <1>4

\* The ssh command and the tools go to the same host and port as the same user, for
\* every entry, whatever ssh_config says of each name: for a linked entry always, and
\* for an entry with its own host as far as ssh_config leaves alone what the entry
\* does not state (alias.go:19-53, config.go:237-280).
THEOREM DestinationsAgree == Spec => []SameDestination
  BY Typing, TypeSuffices, PTL

-----------------------------------------------------------------------------
\* A set of numbers that is not empty has a least element ...
LEMMA LeastElement ==
    ASSUME NEW S \in SUBSET Nat, S # {}
    PROVE  Min(S) \in S /\ \A m \in S : Min(S) <= m
  <1> DEFINE R == OpToRel(<, Nat)
  <1>1. IsWellFoundedOn(R, Nat)
    BY NatLessThanWellFounded
  <1> HIDE DEF R
  <1>2. PICK n \in S : \A m \in S : ~(<<m, n>> \in R)
    BY <1>1, WFMin
  <1>3. \A m \in S : m < n => <<m, n>> \in R
    BY DEF R, OpToRel
  <1>4. n \in Nat /\ \A m \in S : m \in Nat
    OBVIOUS
  <1>5. \A m \in S : ~(m < n)
    BY <1>2, <1>3
  <1>7. \A m \in S : n <= m
    BY <1>4, <1>5
  <1> QED
    BY <1>7 DEF Min

\* ... and induction follows, over a set in place of a predicate.
LEMMA Induction ==
    ASSUME NEW S, 0 \in S, \A n \in Nat : n \in S => n + 1 \in S
    PROVE  Nat \subseteq S
  <1> DEFINE T == Nat \ S
  <1> SUFFICES ASSUME T # {} PROVE FALSE
    OBVIOUS
  <1>1. PICK n \in T : \A m \in T : n <= m
    BY LeastElement
  <1>2. n # 0 /\ n \in Nat /\ n \notin S
    OBVIOUS
  <1>3. n - 1 \in Nat /\ n - 1 \notin T /\ (n - 1) + 1 = n
    BY <1>1, <1>2
  <1> QED
    BY <1>2, <1>3

\* At gives the elements at the positions, one for each, in order.
LEMMA AtFacts ==
    ASSUME NEW V, NEW s \in Seq(V), NEW I \in SUBSET (1 .. Len(s))
    PROVE  /\ At(s, I) \in Seq(V)
           /\ ToSet(At(s, I)) = {s[i] : i \in I}
  <1> DEFINE place(i) == Cardinality({j \in I : j <= i})
             size == Cardinality(I)
  <1>0. \A i \in I : i \in Nat /\ s[i] \in V
    OBVIOUS
  <1>1. IsFiniteSet(I) /\ size \in Nat
    <2>1. Len(s) \in Nat /\ IsFiniteSet(1 .. Len(s))
      BY FS_Interval
    <2> QED
      BY <2>1, FS_Subset, FS_CardinalityType
  <1>2. \A i \in I : IsFiniteSet({j \in I : j <= i}) /\ place(i) \in 1 .. size
    <2> SUFFICES ASSUME NEW i \in I
                 PROVE  IsFiniteSet({j \in I : j <= i}) /\ place(i) \in 1 .. size
      OBVIOUS
    <2> DEFINE below == {j \in I : j <= i}
    <2>1. IsFiniteSet(below) /\ Cardinality(below) <= size
      BY <1>1, FS_Subset
    <2>2. i \in below
      OBVIOUS
    <2>3. Cardinality(below) # 0 /\ Cardinality(below) \in Nat
      BY <2>1, <2>2, FS_EmptySet, FS_CardinalityType
    <2> QED
      BY <1>1, <2>1, <2>3
  <1>3. ASSUME NEW i \in I, NEW k \in I, i < k
        PROVE  place(i) # place(k)
    <2> DEFINE A == {j \in I : j <= i}
               B == {j \in I : j <= k}
    <2>1. \A j \in I : j \in Nat
      OBVIOUS
    <2>2. A \subseteq B /\ k \in B /\ k \notin A
      <3>1. i \in Nat /\ k \in Nat /\ ~(k <= i) /\ k <= k /\ \A j \in Nat : j <= i => j <= k
        BY <1>3, <2>1
      <3> QED
        BY <2>1, <3>1
    <2>3. IsFiniteSet(B)
      BY <1>2
    <2> QED
      BY <2>2, <2>3, FS_Subset
  <1>4. \A k \in 1 .. size : \E i \in I : place(i) = k
    <2> DEFINE f == [i \in I |-> place(i)]
    <2>1. f \in Injection(I, 1 .. size)
      <3>1. f \in [I -> 1 .. size]
        BY <1>2
      <3>2. \A i, k \in I : f[i] = f[k] => i = k
        <4>1. \A i, k \in I : i \in Nat /\ k \in Nat /\ (i = k \/ i < k \/ k < i)
          OBVIOUS
        <4> QED
          BY <1>3, <4>1
      <3> QED
        BY <3>1, <3>2 DEF Injection, IsInjective
    <2>2. IsFiniteSet(1 .. size) /\ Cardinality(1 .. size) = size
      BY <1>1, FS_Interval
    <2>3. f \in Surjection(I, 1 .. size)
      BY <2>1, <2>2, FS_Injection
    <2> QED
      BY <2>3 DEF Surjection
  <1> DEFINE pick(k) == CHOOSE i \in I : place(i) = k
  <1>5. \A k \in 1 .. size : pick(k) \in I /\ place(pick(k)) = k
    BY <1>4
  <1>6. At(s, I) = [k \in 1 .. size |-> s[pick(k)]]
    BY DEF At
  <1> HIDE DEF pick, place, size
  <1>7. \A i \in I : pick(place(i)) = i
    <2> SUFFICES ASSUME NEW i \in I PROVE pick(place(i)) = i
      OBVIOUS
    <2>1. pick(place(i)) \in I /\ place(pick(place(i))) = place(i)
      BY <1>2, <1>5
    <2>2. pick(place(i)) \in Nat /\ i \in Nat
      BY <1>0, <2>1
    <2> QED
      BY <1>3, <2>1, <2>2
  <1>8. At(s, I) \in Seq(V)
    <2>1. At(s, I) \in [1 .. size -> V]
      BY <1>0, <1>5, <1>6
    <2> QED
      BY <1>1, <2>1, SeqDef
  <1>9. DOMAIN At(s, I) = 1 .. size
    BY <1>6
  <1>10. ToSet(At(s, I)) = {s[i] : i \in I}
    <2>1. \A k \in 1 .. size : At(s, I)[k] \in {s[i] : i \in I}
      BY <1>5, <1>6
    <2>2. \A i \in I : place(i) \in 1 .. size /\ At(s, I)[place(i)] = s[i]
      BY <1>2, <1>7, <1>6
    <2> QED
      BY <1>9, <2>1, <2>2 DEF ToSet
  <1> QED
    BY <1>8, <1>10

\* dedupeSigners leaves each key once, the first one first.
LEMMA DedupeFacts ==
    ASSUME NEW V, NEW keys \in Seq(V)
    PROVE  LET result == dedupeSigners(keys)
           IN  /\ result \in Seq(V)
               /\ IsInjective(result)
               /\ ToSet(result) = ToSet(keys)
               /\ keys # <<>> => result # <<>> /\ result[1] = keys[1]
  <1> DEFINE body(g, i) == IF i = 0 THEN <<>>
                           ELSE IF keys[i] \in ToSet(g[i - 1]) THEN g[i - 1]
                           ELSE Append(g[i - 1], keys[i])
             got == CHOOSE g : g = [i \in 0 .. Len(keys) |-> body(g, i)]
             Loops == {n \in Nat : \E g : g = [i \in 0 .. n |-> body(g, i)]}
  <1>1. dedupeSigners(keys) = got[Len(keys)]
    BY DEF dedupeSigners
  <1>2. Nat \subseteq Loops
    <2>1. 0 \in Loops
      <3> DEFINE g == [i \in 0 .. 0 |-> <<>>]
      <3>1. g = [i \in 0 .. 0 |-> body(g, i)]
        OBVIOUS
      <3> QED
        BY <3>1
    <2>2. ASSUME NEW n \in Nat, n \in Loops PROVE n + 1 \in Loops
      <3>1. PICK g : g = [i \in 0 .. n |-> body(g, i)]
        BY <2>2
      <3> HIDE DEF body
      <3> DEFINE h == [i \in 0 .. n + 1 |-> IF i <= n THEN g[i] ELSE body(g, i)]
      <3>2. ASSUME NEW i \in 0 .. n + 1 PROVE h[i] = body(h, i)
        <4>1. i = 0 \/ (i - 1 \in 0 .. n /\ h[i - 1] = g[i - 1])
          OBVIOUS
        <4>2. body(h, i) = body(g, i)
          BY <4>1 DEF body
        <4>3. i <= n => g[i] = body(g, i)
          BY <3>1
        <4> QED
          BY <4>2, <4>3
      <3>3. h = [i \in 0 .. n + 1 |-> body(h, i)]
        BY <3>2
      <3> HIDE DEF h
      <3> QED
        BY <3>3
    <2> HIDE DEF Loops
    <2> QED
      BY <2>1, <2>2, Induction
  <1>3. Len(keys) \in Nat /\ got = [i \in 0 .. Len(keys) |-> body(got, i)]
    <2>1. Len(keys) \in Nat
      OBVIOUS
    <2>2. \E g : g = [i \in 0 .. Len(keys) |-> body(g, i)]
      BY <1>2, <2>1
    <2> HIDE DEF body
    <2> QED
      BY <2>1, <2>2
  <1> HIDE DEF got
  <1>4. /\ got[0] = <<>>
        /\ \A i \in 0 .. Len(keys) - 1 :
              got[i + 1] = IF keys[i + 1] \in ToSet(got[i]) THEN got[i]
                           ELSE Append(got[i], keys[i + 1])
    <2>1. \A i \in 0 .. Len(keys) : got[i] = body(got, i)
      <3> HIDE DEF body
      <3> QED
        BY <1>3
    <2>2. 0 \in 0 .. Len(keys)
      BY <1>3
    <2>3. \A i \in 0 .. Len(keys) - 1 :
            i + 1 \in 0 .. Len(keys) /\ i + 1 # 0 /\ (i + 1) - 1 = i
      BY <1>3
    <2> QED
      BY <2>1, <2>2, <2>3
  <1> HIDE DEF body
  \* What the loop keeps: each key so far once.
  <1> DEFINE Once(i) == /\ got[i] \in Seq(V)
                        /\ IsInjective(got[i])
                        /\ ToSet(got[i]) = {keys[j] : j \in 1 .. i}
                        /\ i > 0 => got[i] # <<>> /\ got[i][1] = keys[1]
             Good == {i \in Nat : i <= Len(keys) => Once(i)}
  <1>5. Nat \subseteq Good
    <2>1. 0 \in Good
      <3>1. got[0] \in Seq(V) /\ IsInjective(got[0]) /\ DOMAIN got[0] = {}
        BY <1>4 DEF IsInjective
      <3>2. ToSet(got[0]) = {} /\ {keys[j] : j \in 1 .. 0} = {}
        BY <3>1 DEF ToSet
      <3> QED
        BY <3>1, <3>2
    <2>2. ASSUME NEW i \in Nat, i \in Good PROVE i + 1 \in Good
      <3> SUFFICES ASSUME i + 1 <= Len(keys) PROVE Once(i + 1)
        <4> HIDE DEF Once
        <4> QED
          OBVIOUS
      <3>1. Once(i) /\ i \in 0 .. Len(keys) - 1 /\ i + 1 \in 1 .. Len(keys)
        <4>1. i <= Len(keys) /\ i \in 0 .. Len(keys) - 1 /\ i + 1 \in 1 .. Len(keys)
          BY <1>3
        <4> HIDE DEF Once
        <4> QED
          BY <2>2, <4>1
      <3>2. keys[i + 1] \in V
        BY <3>1
      <3>3. {keys[j] : j \in 1 .. i + 1} = {keys[j] : j \in 1 .. i} \union {keys[i + 1]}
        OBVIOUS
      <3>4. CASE keys[i + 1] \in ToSet(got[i])
        <4>1. got[i + 1] = got[i]
          BY <1>4, <3>1, <3>4
        <4>2. i > 0
          BY <3>1, <3>4
        <4> QED
          BY <3>1, <3>3, <3>4, <4>1, <4>2
      <3>5. CASE keys[i + 1] \notin ToSet(got[i])
        <4> DEFINE t == Append(got[i], keys[i + 1])
        <4>1. got[i + 1] = t
          BY <1>4, <3>1, <3>5
        <4>2. /\ t \in Seq(V) /\ Len(t) = Len(got[i]) + 1 /\ Len(got[i]) \in Nat
              /\ \A k \in 1 .. Len(got[i]) : t[k] = got[i][k]
              /\ t[Len(got[i]) + 1] = keys[i + 1]
              /\ DOMAIN t = 1 .. Len(got[i]) + 1 /\ DOMAIN got[i] = 1 .. Len(got[i])
          BY <3>1, <3>2
        <4> HIDE DEF t
        <4>3. ToSet(t) = ToSet(got[i]) \union {keys[i + 1]}
          <5>1. ToSet(t) = {t[k] : k \in 1 .. Len(got[i]) + 1}
            BY <4>2 DEF ToSet
          <5>2. ToSet(got[i]) = {got[i][k] : k \in 1 .. Len(got[i])}
            BY <4>2 DEF ToSet
          <5>3. 1 .. Len(got[i]) + 1 = (1 .. Len(got[i])) \union {Len(got[i]) + 1}
            BY <4>2
          <5>4. \A k \in 1 .. Len(got[i]) + 1 : t[k] \in ToSet(got[i]) \union {keys[i + 1]}
            BY <4>2, <5>2, <5>3
          <5>5. \A x \in ToSet(got[i]) : \E k \in 1 .. Len(got[i]) + 1 : t[k] = x
            BY <4>2, <5>2, <5>3
          <5> QED
            BY <4>2, <5>1, <5>4, <5>5
        <4>4. IsInjective(t)
          <5>1. \A k \in 1 .. Len(got[i]) : t[k] # keys[i + 1]
            BY <3>5, <4>2 DEF ToSet
          <5>2. \A k, m \in 1 .. Len(got[i]) : t[k] = t[m] => k = m
            BY <3>1, <4>2 DEF IsInjective
          <5>3. \A k \in DOMAIN t : k \in 1 .. Len(got[i]) \/ k = Len(got[i]) + 1
            BY <4>2
          <5> QED
            BY <4>2, <5>1, <5>2, <5>3 DEF IsInjective
        <4>5. t # <<>> /\ t[1] = keys[1]
          <5>1. CASE i = 0
            BY <1>4, <4>2, <5>1
          <5>2. CASE i > 0
            <6>1. Len(got[i]) > 0
              BY <3>1, <4>2, <5>2
            <6> QED
              BY <3>1, <4>2, <5>2, <6>1
          <5> QED
            BY <5>1, <5>2
        <4> QED
          BY <3>1, <3>3, <4>1, <4>2, <4>3, <4>4, <4>5
      <3> QED
        BY <3>4, <3>5
    <2> HIDE DEF Good
    <2> QED
      BY <2>1, <2>2, Induction
  <1>6. Once(Len(keys))
    <2> HIDE DEF Once
    <2>1. Len(keys) \in Good /\ Len(keys) <= Len(keys)
      <3> HIDE DEF Good
      <3> QED
        BY <1>3, <1>5
    <2> QED
      BY <2>1
  <1> HIDE DEF Once, Good
  <1> QED
    <2>1. ToSet(keys) = {keys[j] : j \in 1 .. Len(keys)}
      BY DEF ToSet
    <2> QED
      BY <1>1, <1>3, <1>6, <2>1 DEF Once

\* Two sequences in a row.
LEMMA ConcatSet ==
    ASSUME NEW V, NEW s \in Seq(V), NEW t \in Seq(V)
    PROVE  /\ s \o t \in Seq(V) /\ ToSet(s \o t) = ToSet(s) \union ToSet(t)
           /\ s # <<>> => s \o t # <<>> /\ (s \o t)[1] = s[1]
  <1>1. /\ Len(s) \in Nat /\ Len(t) \in Nat
        /\ s \o t \in Seq(V) /\ Len(s \o t) = Len(s) + Len(t)
        /\ \A i \in 1 .. Len(s) + Len(t) :
              (s \o t)[i] = IF i <= Len(s) THEN s[i] ELSE t[i - Len(s)]
    BY ConcatProperties
  <1>2. /\ ToSet(s \o t) = {(s \o t)[i] : i \in 1 .. Len(s) + Len(t)}
        /\ ToSet(s) = {s[i] : i \in 1 .. Len(s)} /\ ToSet(t) = {t[i] : i \in 1 .. Len(t)}
    BY <1>1 DEF ToSet
  <1>3. \A i \in 1 .. Len(s) + Len(t) : (s \o t)[i] \in ToSet(s) \union ToSet(t)
    <2> TAKE i \in 1 .. Len(s) + Len(t)
    <2>1. i \in 1 .. Len(s) \/ (~(i <= Len(s)) /\ i - Len(s) \in 1 .. Len(t))
      BY <1>1
    <2> QED
      BY <1>1, <1>2, <2>1
  <1>4. \A i \in 1 .. Len(s) : i \in 1 .. Len(s) + Len(t) /\ (s \o t)[i] = s[i]
    BY <1>1
  <1>5. \A i \in 1 .. Len(t) : Len(s) + i \in 1 .. Len(s) + Len(t) /\ (s \o t)[Len(s) + i] = t[i]
    BY <1>1
  <1>6. s # <<>> => s \o t # <<>> /\ (s \o t)[1] = s[1]
    <2> SUFFICES ASSUME s # <<>> PROVE s \o t # <<>> /\ (s \o t)[1] = s[1]
      OBVIOUS
    <2>1. Len(s) > 0
      BY <1>1
    <2> QED
      BY <1>1, <2>1
  <1>7. ToSet(s \o t) \subseteq ToSet(s) \union ToSet(t)
    BY <1>2, <1>3
  <1>8. ToSet(s) \subseteq ToSet(s \o t)
    BY <1>2, <1>4
  <1>9. ToSet(t) \subseteq ToSet(s \o t)
    BY <1>2, <1>5
  <1> QED
    BY <1>1, <1>6, <1>7, <1>8, <1>9

-----------------------------------------------------------------------------
\* Keys.
LEMMA Resolves ==
    ASSUME NEW p \in DOMAIN Spots
    PROVE  /\ resolveKeyPath(p) \in Files
           /\ Spots[p][1] \in disk => resolveKeyPath(p) = Spots[p][1]
  <1> DEFINE there == {i \in DOMAIN Spots[p] : Spots[p][i] \in disk}
  <1>1. /\ Spots[p] \in Seq(Files) /\ Spots[p] # <<>>
        /\ DOMAIN Spots[p] = 1 .. Len(Spots[p]) /\ Len(Spots[p]) \in Nat
    BY KeysAssumption
  <1>2. 1 \in DOMAIN Spots[p]
    BY <1>1
  <1>3. there # {} => Min(there) \in there /\ \A m \in there : Min(there) <= m
    <2>1. there \in SUBSET Nat
      BY <1>1
    <2> QED
      BY <2>1, LeastElement
  <1>4. resolveKeyPath(p) = IF there = {} THEN Spots[p][1] ELSE Spots[p][Min(there)]
    BY DEF resolveKeyPath
  <1>5. resolveKeyPath(p) \in Files
    BY <1>1, <1>2, <1>3, <1>4
  <1>6. ASSUME Spots[p][1] \in disk PROVE Min(there) = 1 /\ there # {}
    <2>1. 1 \in there
      BY <1>2, <1>6
    <2>2. Min(there) \in there /\ Min(there) <= 1
      BY <1>3, <2>1
    <2>3. Min(there) \in Nat /\ Min(there) >= 1
      BY <1>1, <2>2
    <2> QED
      BY <2>1, <2>2, <2>3
  <1> QED
    BY <1>4, <1>5, <1>6

Keys == {Key[file] : file \in Files} \union ToSet(Agent)

\* The file whose key is taken for a path.
LEMMA SourceFacts ==
    ASSUME NEW p \in DOMAIN Spots
    PROVE  /\ Source(p) \in Files \union {None}
           /\ CanRead(resolveKeyPath(p)) => Source(p) = resolveKeyPath(p)
  <1> DEFINE tried == <<resolveKeyPath(p), Spots[p][1], Fallback[p]>>
             readable == {i \in 1 .. 3 : CanRead(tried[i])}
  <1>1. readable \in SUBSET Nat /\ readable \subseteq 1 .. 3
    OBVIOUS
  <1>2. readable # {} => Min(readable) \in readable /\ \A i \in readable : Min(readable) <= i
    BY <1>1, LeastElement
  <1>3. Source(p) = IF readable = {} THEN None ELSE tried[Min(readable)]
    BY DEF Source
  <1>4. \A i \in 1 .. 3 : tried[i] \in Files \union {None}
    <2>1. resolveKeyPath(p) \in Files /\ Fallback[p] \in Files \union {None}
      BY Resolves, KeysAssumption
    <2>2. Spots[p][1] \in Files
      BY KeysAssumption
    <2> QED
      BY <2>1, <2>2
  <1>5. ASSUME CanRead(resolveKeyPath(p)) PROVE readable # {} /\ Min(readable) = 1
    <2>1. 1 \in readable
      BY <1>5
    <2>2. Min(readable) \in 1 .. 3 /\ Min(readable) <= 1
      BY <1>2, <2>1
    <2> QED
      BY <2>1, <2>2
  <1>6. Source(p) \in Files \union {None}
    <2> HIDE DEF readable, tried
    <2> QED
      BY <1>1, <1>2, <1>3, <1>4
  <1>7. CanRead(resolveKeyPath(p)) => Source(p) = resolveKeyPath(p)
    <2>1. tried[1] = resolveKeyPath(p)
      OBVIOUS
    <2> HIDE DEF readable, tried
    <2> QED
      BY <1>3, <1>5, <2>1
  <1> QED
    BY <1>6, <1>7

LEMMA KeysOfFacts ==
    ASSUME NEW paths \in Seq(DOMAIN Spots), \A p \in ToSet(paths) : Loads(p)
    PROVE  /\ KeysOf(paths) \in Seq(Keys)
           /\ ToSet(KeysOf(paths)) = {Key[Source(p)] : p \in ToSet(paths)}
           /\ paths # <<>> => KeysOf(paths) # <<>> /\ KeysOf(paths)[1] = Key[Source(paths[1])]
  <1>1. /\ Len(paths) \in Nat /\ DOMAIN paths = 1 .. Len(paths)
        /\ \A i \in 1 .. Len(paths) : paths[i] \in DOMAIN Spots /\ paths[i] \in ToSet(paths)
    BY DEF ToSet
  <1>2. /\ DOMAIN KeysOf(paths) = 1 .. Len(paths)
        /\ \A i \in 1 .. Len(paths) : KeysOf(paths)[i] = Key[Source(paths[i])]
        /\ KeysOf(paths) = [i \in 1 .. Len(paths) |-> Key[Source(paths[i])]]
    BY <1>1 DEF KeysOf
  <1>3. \A i \in 1 .. Len(paths) : Key[Source(paths[i])] \in Keys
    <2> TAKE i \in 1 .. Len(paths)
    <2>1. paths[i] \in DOMAIN Spots /\ Source(paths[i]) # None
      BY <1>1 DEF Loads
    <2>2. Source(paths[i]) \in Files
      BY <2>1, SourceFacts
    <2> QED
      BY <2>2 DEF Keys
  <1>4. KeysOf(paths) \in [1 .. Len(paths) -> Keys]
    BY <1>2, <1>3
  <1>5. KeysOf(paths) \in Seq(Keys)
    BY <1>1, <1>4, SeqDef
  <1>6. ToSet(KeysOf(paths)) = {Key[Source(p)] : p \in ToSet(paths)}
    BY <1>1, <1>2 DEF ToSet
  <1>7. paths # <<>> => KeysOf(paths) # <<>> /\ KeysOf(paths)[1] = Key[Source(paths[1])]
    <2> SUFFICES ASSUME paths # <<>>
                 PROVE  KeysOf(paths) # <<>> /\ KeysOf(paths)[1] = Key[Source(paths[1])]
      OBVIOUS
    <2>1. 1 \in 1 .. Len(paths)
      BY <1>1
    <2> QED
      BY <1>2, <2>1
  <1> QED
    BY <1>5, <1>6, <1>7

LEMMA AgentKeys ==
    Agent \in Seq(Keys)
  <1>1. Agent \in Seq(ToSet(Agent)) /\ ToSet(Agent) \subseteq Keys
    BY KeysAssumption DEF Keys
  <1> QED
    BY <1>1, SeqMonotonic

LEMMA LoadedFacts ==
    ASSUME NEW paths \in Seq(DOMAIN Spots)
    PROVE  /\ Loaded(paths) \in Seq(DOMAIN Spots)
           /\ ToSet(Loaded(paths)) = {p \in ToSet(paths) : Loads(p)}
  <1> DEFINE I == {i \in DOMAIN paths : Loads(paths[i])}
  <1>1. I \in SUBSET (1 .. Len(paths)) /\ DOMAIN paths = 1 .. Len(paths)
    OBVIOUS
  <1>2. Loaded(paths) = At(paths, I)
    BY DEF Loaded
  <1>3. {paths[i] : i \in I} = {p \in ToSet(paths) : Loads(p)}
    BY DEF ToSet
  <1> HIDE DEF I
  <1> QED
    BY <1>1, <1>2, <1>3, AtFacts

\* What an entry names.
LEMMA NamedType ==
    ASSUME NEW e, e.identity \in Path, e.extra \in Seq(Args)
    PROVE  /\ Named(e) \in Seq(DOMAIN Spots)
           /\ e.identity # None => Named(e) # <<>> /\ Named(e)[1] = e.identity
           /\ e.identity = None => Named(e) = IdentityArgs(e)
  <1> DEFINE I == {i \in DOMAIN e.extra : IsIdentity(e.extra[i])}
             args == At(e.extra, I)
             first == IF e.identity = None THEN <<>> ELSE <<e.identity>>
  <1>1. I \in SUBSET (1 .. Len(e.extra))
    OBVIOUS
  <1>2. args \in Seq(Args) /\ ToSet(args) = {e.extra[i] : i \in I}
    <2> HIDE DEF I
    <2> QED
      BY <1>1, AtFacts
  <1>3. \A k \in 1 .. Len(args) : args[k] \in ToSet(args)
    <2> HIDE DEF args
    <2> QED
      BY <1>2 DEF ToSet
  <1>4. \A a \in ToSet(args) : a.path \in DOMAIN Spots
    BY <1>2 DEF IsIdentity
  <1>5. IdentityArgs(e) = [k \in DOMAIN args |-> args[k].path]
    BY DEF IdentityArgs
  <1> HIDE DEF args
  <1>6. Len(args) \in Nat /\ DOMAIN args = 1 .. Len(args)
    BY <1>2
  <1>7. IdentityArgs(e) \in [1 .. Len(args) -> DOMAIN Spots]
    BY <1>3, <1>4, <1>5, <1>6
  <1>8. IdentityArgs(e) \in Seq(DOMAIN Spots)
    BY <1>6, <1>7, SeqDef
  <1>9. first \in Seq(DOMAIN Spots) /\ Named(e) = first \o IdentityArgs(e)
    <2>1. e.identity # None => e.identity \in DOMAIN Spots
      BY DEF Path
    <2>2. first \in Seq(DOMAIN Spots)
      <3>1. CASE e.identity = None
        <4>1. first = <<>> /\ <<>> \in Seq(DOMAIN Spots)
          BY <3>1
        <4> QED
          BY <4>1
      <3>2. CASE e.identity # None
        <4>1. first = <<e.identity>> /\ <<e.identity>> \in Seq(DOMAIN Spots)
          BY <2>1, <3>2
        <4> QED
          BY <4>1
      <3> QED
        BY <3>1, <3>2
    <2>3. Named(e) = first \o IdentityArgs(e)
      BY DEF Named
    <2> QED
      BY <2>2, <2>3
  <1>10. e.identity # None => first # <<>> /\ first[1] = e.identity
    OBVIOUS
  <1>11. e.identity = None => Named(e) = IdentityArgs(e)
    BY <1>8, <1>9
  <1> HIDE DEF first
  <1> QED
    BY <1>8, <1>9, <1>10, <1>11, ConcatSet

\* The signers are the keys that are named, of the agent and of usual names, each
\* once, and the first one named comes first.
LEMMA SignersFacts ==
    ASSUME NEW e, e.identity \in Path, e.extra \in Seq(Args),
           \A p \in ToSet(Named(e)) : Loads(p)
    PROVE  /\ IsInjective(Signers(e))
           /\ ToSet(Signers(e)) =
                {Key[Source(p)] : p \in ToSet(Named(e))} \union ToSet(Agent)
                \union {Key[Source(p)] : p \in {q \in ToSet(DefaultNames) : Loads(q)}}
           /\ Named(e) # <<>> => Signers(e)[1] = Key[Source(Named(e)[1])]
  <1> DEFINE named == KeysOf(Named(e))
             usual == KeysOf(Loaded(DefaultNames))
             all == named \o Agent \o usual
  <1>1. /\ named \in Seq(Keys) /\ ToSet(named) = {Key[Source(p)] : p \in ToSet(Named(e))}
        /\ Named(e) # <<>> => named # <<>> /\ named[1] = Key[Source(Named(e)[1])]
    BY NamedType, KeysOfFacts
  <1>2. /\ usual \in Seq(Keys)
        /\ ToSet(usual) =
              {Key[Source(p)] : p \in {q \in ToSet(DefaultNames) : Loads(q)}}
    <2>1. /\ Loaded(DefaultNames) \in Seq(DOMAIN Spots)
          /\ ToSet(Loaded(DefaultNames)) = {q \in ToSet(DefaultNames) : Loads(q)}
      BY KeysAssumption, LoadedFacts
    <2> QED
      BY <2>1, KeysOfFacts
  <1>3. Signers(e) = dedupeSigners(all)
    BY DEF Signers
  <1> HIDE DEF named, usual
  <1>4. /\ named \o Agent \in Seq(Keys) /\ ToSet(named \o Agent) = ToSet(named) \union ToSet(Agent)
        /\ named # <<>> => named \o Agent # <<>> /\ (named \o Agent)[1] = named[1]
    BY <1>1, AgentKeys, ConcatSet
  <1>5. /\ all \in Seq(Keys) /\ ToSet(all) = ToSet(named) \union ToSet(Agent) \union ToSet(usual)
        /\ named # <<>> => all # <<>> /\ all[1] = named[1]
    <2> DEFINE both == named \o Agent
    <2>1. both \in Seq(Keys) /\ usual \in Seq(Keys)
      BY <1>2, <1>4
    <2>2. all = both \o usual
      OBVIOUS
    <2>3. ToSet(both) = ToSet(named) \union ToSet(Agent)
      BY <1>4
    <2>4. named # <<>> => both # <<>> /\ both[1] = named[1]
      BY <1>4
    <2> HIDE DEF both, all
    <2>5. /\ both \o usual \in Seq(Keys) /\ ToSet(both \o usual) = ToSet(both) \union ToSet(usual)
          /\ both # <<>> => both \o usual # <<>> /\ (both \o usual)[1] = both[1]
      BY <2>1, ConcatSet
    <2> QED
      BY <2>2, <2>3, <2>4, <2>5
  <1> HIDE DEF all
  <1>6. /\ IsInjective(Signers(e)) /\ ToSet(Signers(e)) = ToSet(all)
        /\ all # <<>> => Signers(e)[1] = all[1]
    BY <1>3, <1>5, DedupeFacts
  <1> QED
    BY <1>1, <1>2, <1>5, <1>6

\* What the entry is when ssh_config has filled it in.
LEMMA EffectiveKeys ==
    ASSUME TypeOK, entry # NoEntry
    PROVE  LET full == Effective(entry)
           IN  /\ full.identity \in Path /\ full.extra \in Seq(Args) /\ full.extra = entry.extra
               /\ full.identity = IF DelegatesToSSHConfig(entry) /\ ResolvedIdentity(entry) = None
                                  THEN ExistingIdentity ELSE entry.identity
  <1>1. entry \in Entry
    BY DEF TypeOK
  <1>2. SSHDashG(AliasName).identities \in Seq(DOMAIN Spots)
    BY DashGFacts, ValuesAssumption
  <1>3. ExistingIdentity \in Path
    <2> DEFINE paths == SSHDashG(AliasName).identities
               there == {i \in DOMAIN paths : Spots[paths[i]][1] \in disk}
    <2>1. \A i \in DOMAIN paths : i \in Nat /\ paths[i] \in DOMAIN Spots
      BY <1>2
    <2>2. there \in SUBSET Nat
      BY <2>1
    <2>3. ExistingIdentity = IF there = {} THEN None ELSE paths[Min(there)]
      BY DEF ExistingIdentity
    <2>4. there # {} => Min(there) \in there
      BY <2>2, LeastElement
    <2> QED
      BY <2>1, <2>3, <2>4 DEF Path
  <1> DEFINE full == Effective(entry)
  <1>4. /\ full.extra = entry.extra
        /\ full.identity = IF DelegatesToSSHConfig(entry) /\ ResolvedIdentity(entry) = None
                           THEN ExistingIdentity ELSE entry.identity
    BY <1>1 DEF Effective, Entry
  <1> QED
    BY <1>1, <1>3, <1>4 DEF Entry

\* Entries, configurations and key files of all kinds.
LEMMA KeysOnce == TypeOK => EveryKeyOnce
  <1> SUFFICES ASSUME TypeOK, entry # NoEntry, CanDial(entry)
               PROVE  LET keys == Signers(Effective(entry))
                          paths == ToSet(Named(Effective(entry)) \o DefaultNames)
                      IN  /\ IsInjective(keys)
                          /\ ToSet(keys) = ToSet(Agent) \union
                                {Key[Source(path)] : path \in {p \in paths : Loads(p)}}
    BY DEF EveryKeyOnce
  <1>1. PICK full : full = Effective(entry)
    OBVIOUS
  <1>2. full.identity \in Path /\ full.extra \in Seq(Args)
    BY <1>1, EffectiveKeys
  <1>4. ToSet(Named(full) \o DefaultNames) = ToSet(Named(full)) \union ToSet(DefaultNames)
    BY <1>2, NamedType, ConcatSet, KeysAssumption
  <1>5. \A p \in ToSet(Named(full)) : Loads(p)
    BY <1>1 DEF CanDial, ToSet
  <1> QED
    BY <1>1, <1>2, <1>4, <1>5, SignersFacts

LEMMA FirstKey == TypeOK => SameKeyFirst
  <1> DEFINE files == OpenSSH(BuildSSHArgs(entry)).files
             there == {i \in DOMAIN files : files[i] \in disk}
  <1> SUFFICES ASSUME TypeOK, entry # NoEntry, CanDial(entry),
                      Named(entry) # <<>> \/ DelegatesToSSHConfig(entry),
                      there # {}, CanRead(files[Min(there)])
               PROVE  Signers(Effective(entry))[1] = Key[files[Min(there)]]
    BY DEF SameKeyFirst
  <1>1. PICK full : full = Effective(entry)
    OBVIOUS
  <1>2. /\ full.identity \in Path /\ full.extra \in Seq(Args) /\ full.extra = entry.extra
        /\ full.identity = IF DelegatesToSSHConfig(entry) /\ ResolvedIdentity(entry) = None
                           THEN ExistingIdentity ELSE entry.identity
        /\ entry.identity \in Path
    BY <1>1, EffectiveKeys DEF TypeOK, Entry
  <1>3. \A p \in ToSet(Named(full)) : Loads(p)
    BY <1>1 DEF CanDial, ToSet
  <1>4. Named(full) # <<>> => Signers(full)[1] = Key[Source(Named(full)[1])]
    BY <1>2, <1>3, SignersFacts
  <1>5. BuildSSHArgs(entry).identity = ResolvedIdentity(entry)
    BY DEF BuildSSHArgs
  <1>6. Named(entry) \in Seq(DOMAIN Spots)
    BY <1>2, NamedType
  \* The entry names its key.
  <1>7. CASE Named(entry) # <<>>
    <2>1. Named(entry)[1] \in DOMAIN Spots
      BY <1>6, <1>7
    <2>2. /\ ResolvedIdentity(entry) = resolveKeyPath(Named(entry)[1])
          /\ ResolvedIdentity(entry) # None
      BY <1>7, <2>1, Resolves, KeysAssumption DEF ResolvedIdentity
    <2>3. Named(full) = Named(entry)
      BY <1>2, <2>2 DEF Named, IdentityArgs
    <2>4. files = <<resolveKeyPath(Named(entry)[1])>>
      BY <1>5, <2>2 DEF OpenSSH
    <2>5. Min(there) = 1
      <3>1. DOMAIN files = {1}
        BY <2>4
      <3>2. there \in SUBSET Nat
        BY <3>1
      <3>3. Min(there) \in there
        BY <3>2, LeastElement
      <3> QED
        BY <3>1, <3>3
    <2>6. files[Min(there)] = resolveKeyPath(Named(entry)[1])
      BY <2>4, <2>5
    <2>7. Source(Named(entry)[1]) = files[Min(there)]
      BY <2>1, <2>6, SourceFacts
    <2> QED
      BY <1>1, <1>4, <1>7, <2>3, <2>7
  \* Or ssh_config does.
  <1>8. CASE Named(entry) = <<>>
    <2>1. ResolvedIdentity(entry) = None
      BY <1>8 DEF ResolvedIdentity
    <2>2. files = [i \in DOMAIN SSHDashG(BuildSSHArgs(entry).name).identities |->
                     Spots[SSHDashG(BuildSSHArgs(entry).name).identities[i]][1]]
      BY <1>5, <2>1 DEF OpenSSH
    <2>3. DelegatesToSSHConfig(entry)
      BY <1>8
    <2> DEFINE paths == SSHDashG(AliasName).identities
    <2>4. files = [i \in DOMAIN paths |-> Spots[paths[i]][1]]
      BY <2>2, <2>3 DEF BuildSSHArgs
    <2>5. paths \in Seq(DOMAIN Spots)
      <3>1. AliasName \in Values
        BY ValuesAssumption
      <3> QED
        BY <3>1, DashGFacts
    <2>6. /\ DOMAIN files = DOMAIN paths /\ \A i \in DOMAIN paths : files[i] = Spots[paths[i]][1]
          /\ \A i \in DOMAIN paths : i \in Nat /\ paths[i] \in DOMAIN Spots
      <3> HIDE DEF paths, files
      <3> QED
        BY <2>4, <2>5
    <2>7. there = {i \in DOMAIN paths : Spots[paths[i]][1] \in disk}
      BY <2>6
    <2>8. ExistingIdentity = paths[Min(there)]
      BY <2>7 DEF ExistingIdentity
    <2>9. Min(there) \in there
      <3>1. there \in SUBSET Nat
        BY <2>6
      <3> QED
        BY <3>1, LeastElement
    <2> HIDE DEF paths, files
    <2>10. /\ paths[Min(there)] \in DOMAIN Spots /\ Spots[paths[Min(there)]][1] \in disk
           /\ files[Min(there)] = Spots[paths[Min(there)]][1]
      BY <2>6, <2>9
    <2>11. full.identity = paths[Min(there)] /\ full.identity # None
      BY <1>2, <2>1, <2>3, <2>8, <2>10, KeysAssumption
    <2>12. Named(full) # <<>> /\ Named(full)[1] = paths[Min(there)]
      BY <1>2, <2>11, NamedType
    <2>13. resolveKeyPath(paths[Min(there)]) = files[Min(there)]
      BY <2>10, Resolves
    <2>14. Source(paths[Min(there)]) = files[Min(there)]
      BY <2>10, <2>13, SourceFacts
    <2> QED
      BY <1>1, <1>4, <2>12, <2>14
  <1> QED
    BY <1>7, <1>8

\* Whatever has written the entry, whatever ssh_config says and whichever key files
\* there are, an entry that names a key or is linked offers first the key that the
\* ssh command names, or else the first one of ssh_config or of ssh's own that is
\* there, provided that this file can be read (legacy_ssh.go:72-95, 228-251,
\* config.go:158-280).
THEOREM FirstKeyAgrees == Spec => []SameKeyFirst
  BY Typing, FirstKey, PTL

\* A client offers every key that loadSSHPrivateKey can get for the paths named and
\* the usual ones, and every key of the agent, and none of them twice
\* (legacy_ssh.go:70-126, 228-266).
THEOREM EachKeyOnce == Spec => []EveryKeyOnce
  BY Typing, KeysOnce, PTL
=============================================================================
