---------------------------- MODULE Transfer_proofs ----------------------------
(***************************************************************************)
(* What every upload, download and write_file keeps, for any number of     *)
(* concurrent calls and any source.                                        *)
(***************************************************************************)
EXTENDS Transfer, TLAPS

\* A request, as far as the types go.
LEMMA RequestType ==
    ASSUME TypeOK, NEW c \in Calls
    PROVE  /\ req[c].op \in Ops /\ req[c].source \in DOMAIN Sources
           /\ req[c].recursive \in BOOLEAN /\ req[c].overwrite \in BOOLEAN
  BY RequestsAssumption DEF TypeOK

\* A path of a source has a place at the destination.
LEMMA PathType ==
    ASSUME TypeOK, NEW c \in Calls, NEW p \in DOMAIN Source(c)
    PROVE  /\ p \in Seq(Nat)
           /\ Target(c, p) \in Places
           /\ Source(c)[p].kind \in Kinds
           /\ Source(c)[p].size \in Nat /\ Source(c)[p].perm \in Perms
           /\ <<>> \in DOMAIN Source(c)
  <1>1. p \in Places /\ <<Base>> \o p \in Places /\ p \in Seq(Nat)
    BY RequestType, SourcesAssumption DEF Source
  <1>2. <<>> \o p = p
    BY <1>1
  <1>3. Target(c, p) \in Places
    BY <1>1, <1>2 DEF Target, TypeOK
  <1> QED
    BY <1>1, <1>3, RequestType, SourcesAssumption DEF Source

LEMMA InitTyping == Init => TypeOK
  <1> SUFFICES ASSUME Init PROVE TypeOK
    OBVIOUS
  <1>1. \A c \in Calls : req[c] \in Requests[c]
    BY DEF Init
  <1>2. \A c \in Calls : <<>> \in DOMAIN Source(c)
    BY <1>1, RequestsAssumption, SourcesAssumption DEF Source
  <1> QED
    BY <1>1, <1>2, NodesAssumption DEF Init, TypeOK, Phases, Busy, Ended

\* A node after a chunk has been written is a node.
LEMMA WrittenType ==
    ASSUME TypeOK, NEW c \in Calls, NEW data \in Seq(Calls \union {Hole})
    PROVE  Written(c, data) \in Seq(Calls \union {Hole})
  <1> DEFINE n == IF Len(data) > offset[c] THEN Len(data) ELSE offset[c] + 1
  <1>1. n \in Nat /\ Len(data) \in Nat
    BY DEF TypeOK
  <1>2. \A i \in 1 .. n :
          (IF i = offset[c] + 1 THEN c ELSE IF i <= Len(data) THEN data[i] ELSE Hole)
             \in Calls \union {Hole}
    BY <1>1 DEF TypeOK
  <1> QED
    BY <1>1, <1>2 DEF Written

\* A step changes the destination in one of these ways only.
Makes(c) ==
    \E q \in Places :
        /\ \A r \in Places : IsPrefix(r, q) => ~IsFile(dest[r])
        /\ dest' = [r \in Places |-> IF IsPrefix(r, q) THEN Dir ELSE dest[r]]

Writes(c) == phase[c] = "copy" /\ WriteChunk(c)

SetsPerm(c) ==
    phase[c] = "chmod" /\ dest' = [dest EXCEPT ![Place(c)].perm = Source(c)[current[c]].perm]

\* A call is at a path of the destination while it has a file to copy.
LEMMA PlaceType ==
    ASSUME TypeOK, NEW c \in Calls, phase[c] \in {"create", "copy", "chmod"}
    PROVE  current[c] \in DOMAIN Source(c) /\ Place(c) \in Places
  <1>1. current[c] \in DOMAIN Source(c)
    BY DEF TypeOK
  <1> QED
    BY <1>1, PathType DEF Place

LEMMA HowDestChanges ==
    ASSUME TypeOK, NEW c \in Calls, Step(c) \/ Cancel(c) \/ Hang(c)
    PROVE  UNCHANGED dest \/ Makes(c) \/ Create(c) \/ Writes(c) \/ SetsPerm(c)
  <1>1. CASE VisitDir(c)
    <2>1. PICK p \in todo[c] : CanMake(Target(c, p)) /\ dest' = WithDirs(Target(c, p))
      BY <1>1 DEF VisitDir
    <2>2. Target(c, p) \in Places
      BY PathType DEF TypeOK
    <2> QED
      BY <2>1, <2>2 DEF CanMake, WithDirs, Makes
  <1> QED
    BY <1>1 DEF Step, Cancel, Hang, Begin, SkipIrregular, Check, CheckFails, BeginWrite, CopyChunk,
                WriteFails, Close, Chmod, Fail, Writes, SetsPerm

\* A file may be replaced by a file.
LEMMA FileReplaced ==
    ASSUME TypeOK, NEW p \in Places, NEW node \in [data : Seq(Calls \union {Hole}), perm : Perms],
           dest' = [dest EXCEPT ![p] = node]
    PROVE  /\ dest' \in [Places -> Node]
           /\ \A q \in Places : IsFile(dest[q]) => IsFile(dest'[q])
  <1>1. node \in Node /\ IsFile(node)
    BY NodesAssumption DEF Node, IsFile
  <1>2. dest \in [Places -> Node]
    BY DEF TypeOK
  <1> QED
    BY <1>1, <1>2

LEMMA DestTyping ==
    ASSUME TypeOK, NEW c \in Calls, Step(c) \/ Cancel(c) \/ Hang(c)
    PROVE  /\ dest' \in [Places -> Node]
           /\ \A q \in Places : IsFile(dest[q]) => IsFile(dest'[q])
           /\ Create(c) => IsFile(dest'[Place(c)])
  <1> USE DEF TypeOK, Node, IsFile
  <1>1. CASE UNCHANGED dest /\ ~Create(c)
    BY <1>1
  <1>2. CASE Makes(c) /\ ~Create(c)
    BY <1>2 DEF Makes
  <1>3. CASE Create(c)
    <2>1. Place(c) \in Places /\ NewPerm(c) \in Perms
      <3>1. Place(c) \in Places /\ Source(c)[current[c]].perm \in Perms
        BY <1>3, PlaceType, PathType DEF Create
      <3> QED
        BY <3>1, OthersAssumption DEF NewPerm
    <2>2. \A q \in Places : IsFile(dest[q]) => dest[q].perm \in Perms
      OBVIOUS
    <2>3. [data |-> <<>>, perm |-> IF IsFile(dest[Place(c)]) THEN dest[Place(c)].perm ELSE NewPerm(c)]
             \in [data : Seq(Calls \union {Hole}), perm : Perms]
      BY <2>1, <2>2
    <2>4. \A q \in Places :
            \/ q = Place(c) /\ dest'[q] \in [data : Seq(Calls \union {Hole}), perm : Perms]
            \/ q # Place(c) /\ dest'[q] = dest[q]
            \/ q # Place(c) /\ dest'[q] = Dir /\ ~IsFile(dest[q])
      BY <1>3, <2>3 DEF Create
    <2>5. dest' = [q \in Places |-> dest'[q]]
      BY <1>3 DEF Create
    <2> HIDE DEF TypeOK
    <2> DEFINE FileSet == [data : Seq(Calls \union {Hole}), perm : Perms]
    <2>6. \A x \in FileSet : x \in Node /\ IsFile(x)
      BY NodesAssumption
    <2>7. IsFile(dest'[Place(c)])
      BY <2>1, <2>4, <2>6
    <2>8. \A q \in Places : dest'[q] \in Node
      <3>1. \A q \in Places : dest[q] \in Node
        BY DEF TypeOK
      <3> QED
        BY <2>4, <2>6, <3>1
    <2>9. \A q \in Places : IsFile(dest[q]) => IsFile(dest'[q])
      BY <2>4, <2>6
    <2> QED
      BY <2>5, <2>7, <2>8, <2>9
  <1>4. CASE (Writes(c) \/ SetsPerm(c)) /\ ~Create(c)
    <2>1. Place(c) \in Places /\ dest[Place(c)] \in [data : Seq(Calls \union {Hole}), perm : Perms]
      BY <1>4, PlaceType DEF Writes, SetsPerm
    <2> HIDE DEF TypeOK, Node, IsFile
    <2>2. CASE Writes(c)
      <3> DEFINE node == [dest[Place(c)] EXCEPT !.data = Written(c, dest[Place(c)].data)]
      <3>1. Written(c, dest[Place(c)].data) \in Seq(Calls \union {Hole})
        BY <2>1, WrittenType
      <3>2. dest' = [dest EXCEPT ![Place(c)] = node]
        BY <2>2 DEF Writes, WriteChunk
      <3>3. node \in [data : Seq(Calls \union {Hole}), perm : Perms]
        BY <2>1, <3>1
      <3> HIDE DEF node
      <3> QED
        BY <1>4, <2>1, <3>2, <3>3, FileReplaced
    <2>3. CASE SetsPerm(c)
      <3> DEFINE node == [dest[Place(c)] EXCEPT !.perm = Source(c)[current[c]].perm]
      <3>1. Source(c)[current[c]].perm \in Perms
        BY <2>3, PlaceType, PathType DEF SetsPerm
      <3>2. dest' = [dest EXCEPT ![Place(c)] = node]
        BY <2>3 DEF SetsPerm
      <3>3. node \in [data : Seq(Calls \union {Hole}), perm : Perms]
        BY <2>1, <3>1
      <3> HIDE DEF node
      <3> QED
        BY <1>4, <2>1, <3>2, <3>3, FileReplaced
    <2> QED
      BY <1>4, <2>2, <2>3
  <1> QED
    BY <1>1, <1>2, <1>3, <1>4, HowDestChanges

LEMMA NextTyping == TypeOK /\ [Next]_vars => TypeOK'
  <1> SUFFICES ASSUME TypeOK, [Next]_vars
               PROVE  TypeOK'
    OBVIOUS
  <1> USE DEF Phases, Busy, Ended, Goto, GoOn, history, TypeOK, Source, Target, Place
  <1>1. CASE UNCHANGED vars
    BY <1>1 DEF vars
  <1>2. ASSUME NEW c \in Calls, Step(c) \/ Cancel(c) \/ Hang(c)
        PROVE  TypeOK'
    <2>0. ASSUME NEW d \in Calls PROVE <<>> \in DOMAIN Source(d)
      BY <2>0, RequestType, SourcesAssumption
    <2>d. dest' \in [Places -> Node] /\ \A q \in Places : IsFile(dest[q]) => IsFile(dest'[q])
      BY <1>2, DestTyping
    <2>p. \A d \in Calls : phase[d] \in {"copy", "chmod"} => Place(d) \in Places
      BY PlaceType
    <2>1. CASE Begin(c)
      BY <2>0, <2>1, <2>d, <2>p, OthersAssumption DEF Begin
    <2>2. CASE VisitDir(c)
      <3>1. PICK p \in todo[c] :
              /\ GoOn(c, (todo[c] \ {p}) \union Children(c, p))
              /\ phase[c] = "walk"
              /\ UNCHANGED <<req, root, current, offset, files, cancelled, stuck, history>>
        BY <2>2 DEF VisitDir, Visits
      <3>2. Children(c, p) \subseteq DOMAIN Source(c)
        BY DEF Children
      <3> QED
        BY <3>1, <3>2, <2>d, <2>p
    <2>3. CASE SkipIrregular(c)
      BY <2>3, <2>d, <2>p DEF SkipIrregular, Visits
    <2>4. CASE Check(c)
      BY <2>4, <2>d, <2>p DEF Check, VisitFile, Visits
    <2>5. CASE CheckFails(c)
      BY <2>5, <2>d, <2>p DEF CheckFails, VisitFile, Visits
    <2>6. CASE BeginWrite(c)
      BY <2>0, <2>6, <2>d, <2>p DEF BeginWrite
    <2>7. CASE Create(c)
      <3>1. Place(c) \in Places
        BY <2>7, PlaceType DEF Create
      <3>2. IsFile(dest'[Place(c)])
        BY <1>2, <2>7, DestTyping
      <3>3. created' = created \union {<<c, Place(c)>>}
        BY <2>7 DEF Create
      <3>4. clash' \subseteq created' /\ replaced' \subseteq created'
        <4>1. clash \subseteq created /\ replaced \subseteq created
          OBVIOUS
        <4> HIDE DEF TypeOK, Place, Target, Source
        <4> QED
          BY <2>7, <3>3, <4>1 DEF Create
      <3>5. created' \subseteq Calls \X Places
        <4>1. created \subseteq Calls \X Places
          OBVIOUS
        <4> HIDE DEF TypeOK, Place, Target, Source
        <4> QED
          BY <3>1, <3>3, <4>1
      <3>6. /\ phase' = [phase EXCEPT ![c] = "copy"] /\ phase[c] = "create"
            /\ offset' = [offset EXCEPT ![c] = 0]
            /\ UNCHANGED <<req, root, todo, current, files, cancelled, stuck, existed, blind>>
        BY <2>7 DEF Create
      <3> QED
        BY <3>2, <3>3, <3>4, <3>5, <3>6, <2>d, <2>p
    <2>8. CASE CopyChunk(c)
      BY <2>8, <2>d, <2>p DEF CopyChunk
    <2>9. CASE WriteFails(c)
      BY <2>9, <2>d, <2>p DEF WriteFails
    <2>10. CASE Close(c)
      <3>1. CASE Goto(c, "chmod") /\ UNCHANGED <<files, todo>>
        BY <2>10, <3>1, <2>d, <2>p DEF Close
      <3>2. CASE FileDone(c)
        BY <2>10, <3>2, <2>d, <2>p DEF Close, FileDone
      <3>3. CASE GoOn(c, {}) /\ UNCHANGED files
        BY <2>10, <3>3, <2>d, <2>p DEF Close
      <3> QED
        BY <2>10, <3>1, <3>2, <3>3 DEF Close
    <2>11. CASE Chmod(c)
      <3>1. /\ UNCHANGED <<req, root, current, offset, cancelled, stuck, history>>
            /\ files' = [files EXCEPT ![c] = @ + 1]
            /\ todo' = [todo EXCEPT ![c] = @ \ {current[c]}]
            /\ phase' = [phase EXCEPT ![c] = IF todo[c] \ {current[c]} = {} THEN "ok" ELSE "walk"]
        BY <2>11 DEF Chmod, FileDone
      <3> QED
        BY <3>1, <2>d, <2>p
    <2>12. CASE Fail(c)
      BY <2>12, <2>d, <2>p DEF Fail
    <2>13. CASE Cancel(c) \/ Hang(c)
      BY <2>13, <2>d, <2>p DEF Cancel, Hang
    <2> QED
      BY <1>2, <2>1, <2>2, <2>3, <2>4, <2>5, <2>6, <2>7, <2>8, <2>9, <2>10, <2>11, <2>12,
         <2>13 DEF Step
  <1> QED
    BY <1>1, <1>2 DEF Next

\* The type invariant: a call is always at a file of its source that has a place
\* at the destination (scp_ops.go:85-116, 197-227).
THEOREM Typing == Spec => []TypeOK
  BY InitTyping, NextTyping, PTL DEF Spec

-----------------------------------------------------------------------------
\* Nothing is removed from the destination.
LEMMA NothingRemoved ==
    ASSUME TypeOK, NEW c \in Calls, Step(c) \/ Cancel(c) \/ Hang(c)
    PROVE  \A q \in Places : dest[q] # Absent => dest'[q] # Absent
  <1>1. \A q \in Places : IsFile(dest[q]) => IsFile(dest'[q])
    BY DestTyping
  <1>2. \A q \in Places : dest[q] = Dir => dest'[q] # Absent
    <2>1. CASE UNCHANGED dest
      BY <2>1, NodesAssumption
    <2>2. CASE Makes(c)
      BY <2>2, NodesAssumption DEF Makes
    <2>3. CASE Create(c)
      BY <2>3, NodesAssumption DEF Create
    <2>4. CASE Writes(c) \/ SetsPerm(c)
      <3>1. IsFile(dest[Place(c)])
        BY <2>4 DEF Writes, SetsPerm, TypeOK
      <3>2. \A q \in Places : q # Place(c) => dest'[q] = dest[q]
        BY <2>4 DEF Writes, SetsPerm, WriteChunk, TypeOK
      <3> QED
        BY <3>1, <3>2, NodesAssumption DEF IsFile
    <2> QED
      BY <2>1, <2>2, <2>3, <2>4, HowDestChanges
  <1> QED
    BY <1>1, <1>2 DEF IsFile

Careful(c) == IsTransfer(c) /\ ~req[c].overwrite /\ c \notin blind

\* A careful call goes on to create only what was not there when it began.
SafeInv ==
    /\ ExistingFilesAreSafe
    /\ \A c \in Calls :
          /\ \A q \in existed[c] : dest[q] # Absent
          /\ phase[c] = "new" => \A q \in Places : <<c, q>> \notin created
          /\ Careful(c) /\ phase[c] = "create" => Place(c) \notin existed[c]

LEMMA NextSafe == TypeOK /\ SafeInv /\ [Next]_vars => SafeInv'
  <1> SUFFICES ASSUME TypeOK, SafeInv, [Next]_vars
               PROVE  SafeInv'
    OBVIOUS
  <1> USE DEF ExistingFilesAreSafe, Careful, IsTransfer
  <1>1. CASE UNCHANGED vars
    BY <1>1 DEF vars, history, SafeInv, Place, Target
  <1>2. ASSUME NEW c \in Calls, Step(c) \/ Cancel(c) \/ Hang(c)
        PROVE  SafeInv'
    <2>1. \A q \in Places : dest[q] # Absent => dest'[q] # Absent
      BY <1>2, NothingRemoved
    <2>2. req' = req /\ blind \subseteq blind' /\ TypeOK'
      BY <1>2, NextTyping
      DEF Step, Next, Begin, VisitDir, SkipIrregular, Check, CheckFails, BeginWrite, Create,
          CopyChunk, WriteFails, Close, Chmod, Fail, Cancel, Hang, history
    <2>3. \A d \in Calls : \A q \in existed'[d] : dest'[q] # Absent
      <3>1. CASE Begin(c)
        BY <2>1, <3>1 DEF Begin, SafeInv, TypeOK
      <3>2. CASE ~Begin(c)
        <4>1. existed' = existed
          BY <1>2, <3>2
          DEF Step, VisitDir, SkipIrregular, Check, CheckFails, BeginWrite, Create, CopyChunk,
              WriteFails, Close, Chmod, Fail, Cancel, Hang, history
        <4> QED
          BY <2>1, <4>1 DEF SafeInv, TypeOK
      <3> QED
        BY <3>1, <3>2
    <2>4. ASSUME NEW d \in Calls, Careful(d)', phase'[d] = "create"
          PROVE  Place(d)' \notin existed'[d]
      <3>1. CASE phase[d] = "create" /\ UNCHANGED <<root[d], current[d], existed[d]>>
        BY <2>2, <2>4, <3>1 DEF SafeInv, Place, Target
      <3>2. CASE d = c /\ (Check(c) \/ CheckFails(c))
        <4>1. PICK p \in todo[c] :
                /\ current' = [current EXCEPT ![c] = p]
                /\ req[c].overwrite \/ dest[Target(c, p)] = Absent \/ c \in blind'
                /\ root' = root /\ existed' = existed
          BY <3>2, <2>4 DEF Check, CheckFails, VisitFile, Goto, history, TypeOK
        <4>2. Place(c)' = Target(c, p)
          BY <4>1 DEF Place, Target, TypeOK
        <4> QED
          BY <2>2, <2>4, <3>2, <4>1, <4>2 DEF SafeInv
      <3>3. CASE d = c /\ ~Check(c) /\ ~CheckFails(c)
        BY <1>2, <2>2, <2>4, <3>1, <3>3
        DEF Step, Begin, VisitDir, SkipIrregular, BeginWrite, Create, CopyChunk, WriteFails, Close,
            FileDone, GoOn, Chmod, Fail, Cancel, Hang, Goto, TypeOK, history
      <3>4. CASE d # c
        <4>1. UNCHANGED <<phase[d], root[d], current[d], existed[d]>>
          BY <1>2, <3>4
          DEF Step, Begin, VisitDir, SkipIrregular, Check, CheckFails, VisitFile, BeginWrite, Create,
              CopyChunk, WriteFails, Close, FileDone, GoOn, Chmod, Fail, Cancel, Hang,
              Goto, TypeOK, history
        <4> QED
          BY <2>4, <3>1, <4>1
      <3> QED
        BY <3>2, <3>3, <3>4
    <2>5. ExistingFilesAreSafe'
      <3>1. CASE Create(c)
        BY <2>2, <3>1 DEF Create, SafeInv, history
      <3>2. CASE Begin(c)
        <4>1. \A q \in Places : <<c, q>> \notin replaced
          BY <3>2 DEF Begin, SafeInv, TypeOK
        <4> QED
          BY <2>2, <3>2, <4>1 DEF Begin, SafeInv, TypeOK
      <3>3. CASE ~Create(c) /\ ~Begin(c)
        <4>1. replaced' = replaced /\ existed' = existed
          BY <1>2, <3>3
          DEF Step, VisitDir, SkipIrregular, Check, CheckFails, BeginWrite, CopyChunk,
              WriteFails, Close, Chmod, Fail, Cancel, Hang, history
        <4> QED
          BY <2>2, <4>1 DEF SafeInv
      <3> QED
        BY <3>1, <3>2, <3>3
    <2>6. ASSUME NEW d \in Calls, phase'[d] = "new"
          PROVE  \A q \in Places : <<d, q>> \notin created'
      <3>1. phase[d] = "new" /\ ~(Create(c) /\ d = c)
        BY <1>2, <2>6
        DEF Step, Begin, VisitDir, SkipIrregular, Check, CheckFails, BeginWrite, Create, CopyChunk,
            WriteFails, Close, FileDone, GoOn, Chmod, Fail, Cancel, Hang, Goto, TypeOK
      <3>2. CASE Create(c)
        <4>1. d # c /\ created' = created \union {<<c, Place(c)>>}
          BY <3>1, <3>2 DEF Create
        <4> QED
          BY <3>1, <4>1 DEF SafeInv
      <3>3. CASE ~Create(c)
        <4>1. created' = created
          BY <1>2, <3>3
          DEF Step, Begin, VisitDir, SkipIrregular, Check, CheckFails, BeginWrite, CopyChunk,
              WriteFails, Close, Chmod, Fail, Cancel, Hang, history
        <4> QED
          BY <3>1, <4>1 DEF SafeInv
      <3> QED
        BY <3>2, <3>3
    <2> QED
      BY <2>3, <2>4, <2>5, <2>6 DEF SafeInv
  <1> QED
    BY <1>1, <1>2 DEF Next

LEMMA InitSafe == Init => SafeInv
  BY DEF Init, SafeInv, ExistingFilesAreSafe

\* An upload or a download without overwrite truncates nothing that was there when
\* it began, whatever calls run beside it, as long as Stat tells it the truth
\* (scp_ops.go:119-123, 230-234).  It holds because nothing is removed: what a careful call
\* finds absent was absent when it began.
THEOREM ExistingAreSafe == Spec => []ExistingFilesAreSafe
  <1>1. SafeInv => ExistingFilesAreSafe
    BY DEF SafeInv
  <1> QED
    BY <1>1, Typing, InitSafe, NextSafe, PTL DEF Spec

=============================================================================
