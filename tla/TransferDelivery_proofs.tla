------------------------ MODULE TransferDelivery_proofs ------------------------
(***************************************************************************)
(* What a call reports is what it has done: a success has delivered every  *)
(* file of the source, and the count of a failed call tells how many of    *)
(* its files are complete, for any number of concurrent calls and any      *)
(* finite source.                                                          *)
(***************************************************************************)
EXTENDS Transfer_proofs, FiniteSetTheorems, SequenceTheorems

-----------------------------------------------------------------------------
\* Paths: prefixes order them, and the prefixes of one path are a chain.
LEMMA PrefixOrder ==
    /\ \A p \in Seq(Nat) : IsPrefix(p, p) /\ IsPrefix(<<>>, p)
    /\ \A p, q \in Seq(Nat) : IsPrefix(p, q) /\ IsPrefix(q, p) => p = q
    /\ \A p, q, r \in Seq(Nat) : IsPrefix(p, q) /\ IsPrefix(q, r) => IsPrefix(p, r)
    /\ \A p, q, r \in Seq(Nat) :
          IsPrefix(p, r) /\ IsPrefix(q, r) => IsPrefix(p, q) \/ IsPrefix(q, p)
    /\ \A p, q \in Seq(Nat) : IsPrefix(p, q) /\ Len(p) >= Len(q) => p = q
  <1>0. \A p \in Seq(Nat) : Len(p) \in Nat
    OBVIOUS
  <1>1. \A p \in Seq(Nat) : IsPrefix(p, p) /\ IsPrefix(<<>>, p)
    BY <1>0 DEF IsPrefix
  <1>2. \A p, q \in Seq(Nat) : IsPrefix(p, q) /\ Len(p) >= Len(q) => p = q
    <2> SUFFICES ASSUME NEW p \in Seq(Nat), NEW q \in Seq(Nat), IsPrefix(p, q), Len(p) >= Len(q)
                 PROVE  p = q
      OBVIOUS
    <2>1. Len(p) = Len(q)
      BY <1>0 DEF IsPrefix
    <2> QED
      BY <2>1, SeqEqual DEF IsPrefix
  <1>3. \A p, q \in Seq(Nat) : IsPrefix(p, q) /\ IsPrefix(q, p) => p = q
    BY <1>0, <1>2 DEF IsPrefix
  <1>4. \A p, q, r \in Seq(Nat) : IsPrefix(p, q) /\ IsPrefix(q, r) => IsPrefix(p, r)
    BY <1>0 DEF IsPrefix
  <1>5. \A p, q, r \in Seq(Nat) :
          IsPrefix(p, r) /\ IsPrefix(q, r) => IsPrefix(p, q) \/ IsPrefix(q, p)
    BY <1>0 DEF IsPrefix
  <1> QED
    BY <1>1, <1>2, <1>3, <1>4, <1>5

\* Two paths of a source have two places.
LEMMA TargetsDiffer ==
    ASSUME TypeOK, NEW c \in Calls, NEW p \in DOMAIN Source(c), NEW q \in DOMAIN Source(c),
           Target(c, p) = Target(c, q)
    PROVE  p = q
  <1>1. p \in Seq(Nat) /\ q \in Seq(Nat)
    BY PathType
  <1>2. root[c] \in Seq(Nat)
    <2>1. <<Base>> \in Seq(Nat) /\ <<>> \in Seq(Nat)
      BY OthersAssumption
    <2>2. root[c] = <<>> \/ root[c] = <<Base>>
      BY DEF TypeOK
    <2> QED
      BY <2>1, <2>2, Zenon
  <1>3. root[c] \o p = root[c] \o q
    BY DEF Target
  <1>4. Len(p) = Len(q)
    BY <1>1, <1>2, <1>3, ConcatProperties
  <1>5. ASSUME NEW i \in 1 .. Len(p) PROVE p[i] = q[i]
    <2>1. /\ (root[c] \o p)[Len(root[c]) + i] = p[i]
          /\ (root[c] \o q)[Len(root[c]) + i] = q[i]
      BY <1>1, <1>2, <1>4
    <2> QED
      BY <1>3, <2>1
  <1> QED
    BY <1>1, <1>4, <1>5, SeqEqual

\* A proper prefix of a path is the root or a directory.
LEMMA Above ==
    ASSUME TypeOK, NEW c \in Calls, NEW p \in DOMAIN Source(c), NEW q \in DOMAIN Source(c),
           IsPrefix(q, p), q # p
    PROVE  /\ Len(q) < Len(p)
           /\ q = <<>> \/ Source(c)[q].kind = "dir"
           /\ \E r \in Children(c, q) : IsPrefix(r, p)
  <1>1. p \in Seq(Nat) /\ q \in Seq(Nat) /\ Len(p) \in Nat /\ Len(q) \in Nat
    BY PathType
  <1>2. Len(q) < Len(p)
    BY <1>1, PrefixOrder DEF IsPrefix
  <1>3. \A k \in 1 .. Len(p) - 1 :
          SubSeq(p, 1, k) \in DOMAIN Source(c) /\ Source(c)[SubSeq(p, 1, k)].kind = "dir"
    BY ParentsAssumption, RequestType DEF Source
  <1>4. \A k \in 0 .. Len(p) :
          LET s == SubSeq(p, 1, k)
          IN  s \in Seq(Nat) /\ Len(s) = k /\ \A i \in 1 .. k : s[i] = p[i]
    BY <1>1
  <1>5. ASSUME q # <<>> PROVE Source(c)[q].kind = "dir"
    <2>1. Len(q) \in 1 .. Len(p) - 1
      BY <1>1, <1>2, <1>5
    <2>2. SubSeq(p, 1, Len(q)) = q
      BY <1>1, <1>2, <1>4, SeqEqual DEF IsPrefix
    <2> QED
      BY <1>3, <2>1, <2>2
  <1>6. PICK r \in Seq(Nat) : r = SubSeq(p, 1, Len(q) + 1)
    <2>1. Len(q) + 1 \in 0 .. Len(p)
      BY <1>1, <1>2
    <2> QED
      BY <1>4, <2>1
  <1>7. Len(r) = Len(q) + 1 /\ \A i \in 1 .. Len(q) + 1 : r[i] = p[i]
    BY <1>1, <1>2, <1>4, <1>6
  <1>8. IsPrefix(r, p) /\ IsPrefix(q, r)
    <2>1. Len(q) + 1 <= Len(p) /\ Len(q) <= Len(q) + 1
      BY <1>1, <1>2
    <2>2. \A i \in 1 .. Len(q) : i \in 1 .. Len(q) + 1 /\ q[i] = p[i]
      BY <1>1 DEF IsPrefix
    <2>3. IsPrefix(r, p)
      BY <1>7, <2>1 DEF IsPrefix
    <2>4. \A i \in 1 .. Len(q) : q[i] = r[i]
      BY <1>7, <2>2
    <2> QED
      BY <1>7, <2>1, <2>3, <2>4 DEF IsPrefix
  <1>9. r \in DOMAIN Source(c)
    <2>1. CASE Len(q) + 1 = Len(p)
      <3>1. r = p
        BY <1>1, <1>7, <2>1, SeqEqual
      <3> QED
        BY <3>1
    <2>2. CASE Len(q) + 1 # Len(p)
      BY <1>1, <1>2, <1>3, <1>6, <2>2
    <2> QED
      BY <2>1, <2>2
  <1> QED
    BY <1>2, <1>5, <1>7, <1>8, <1>9 DEF Children
-----------------------------------------------------------------------------
\* The inductive invariant.

\* The walk will come to the path.
Covered(c, p) == \E q \in todo[c] : IsPrefix(q, p)

\* Where the walk is: what is left to be visited are subtrees that do not overlap,
\* and a call that walks is inside a root that it has entered.
WalkOf(c) ==
    /\ phase[c] \in {"new", "ok"} => todo[c] = {}
    /\ ~Walks(c) => phase[c] # "walk" /\ todo[c] \subseteq {<<>>}
    /\ Walks(c) =>
          /\ phase[c] # "check"
          /\ phase[c] \in {"create", "copy", "chmod"} => Source(c)[current[c]].kind = "file"
          /\ todo[c] \subseteq {<<>>} \/ Enters(c, <<>>)
    /\ \A p, q \in todo[c] : IsPrefix(p, q) => p = q

\* Whoever has a file open has created it, and every other call that has created
\* it knows of the clash.
OpenFiles ==
    \A c \in Calls, q \in Places :
        HasOpen(c, q) =>
            /\ <<c, q>> \in created
            /\ \A d \in Calls \ {c} : <<d, q>> \in created => <<d, q>> \in clash

Done(c, p) ==
    /\ <<c, Target(c, p)>> \in created
    /\ Delivered(c, p) \/ Disputed(c, p)

\* The file that a call has open holds what the call has written.
InProgress(c) ==
    LET node == dest[Place(c)] IN
    /\ offset[c] <= Source(c)[current[c]].size
    /\ phase[c] = "chmod" => offset[c] = Source(c)[current[c]].size /\ req[c].op = "upload"
    /\ \/ Disputed(c, current[c])
       \/ /\ node.data = [i \in 1 .. offset[c] |-> c]
          /\ req[c].op = "download" =>
                <<c, Place(c)>> \in replaced \/ node.perm = Masked[Source(c)[current[c]].perm]

\* What a call is to write is done or still ahead.
CopyOf(c) ==
    /\ phase[c] \in {"copy", "chmod"} => InProgress(c)
    /\ phase[c] \in Busy \union {"ok"} =>
          \A p \in ToWrite(c) : Covered(c, p) \/ Done(c, p)

\* The files that the call has created, and those of them that are complete.
Mine(c) == {p \in ToWrite(c) : <<c, Target(c, p)>> \in created}
Complete(c) == {p \in ToWrite(c) : Done(c, p)}

\* While a file is open, it is the one that is not counted yet.
CountOpen(c) ==
    /\ current[c] \in Mine(c)
    /\ Cardinality(Mine(c)) = files[c] + 1
    /\ Mine(c) \ {current[c]} \subseteq Complete(c)
    /\ \A p \in Mine(c) \ {current[c]} : ~Covered(c, p)

\* Between two files, all of them are counted.
CountBetween(c) ==
    /\ Cardinality(Mine(c)) = files[c]
    /\ Mine(c) \subseteq Complete(c)
    /\ phase[c] \in Busy => \A p \in Mine(c) : ~Covered(c, p)

\* A call that has failed may have left one file that is not complete.
CountFailed(c) ==
    /\ files[c] <= Cardinality(Complete(c))
    /\ Cardinality(Mine(c)) <= files[c] + 1

CountOf(c) ==
    /\ phase[c] = "new" => (\A q \in Places : <<c, q>> \notin created) /\ files[c] = 0
    /\ IsTransfer(c) =>
          /\ phase[c] \in {"copy", "chmod"} => CountOpen(c)
          /\ phase[c] = "failed" => CountFailed(c)
          /\ phase[c] \notin {"copy", "chmod", "failed"} => CountBetween(c)

DeliveryInv == OpenFiles /\ \A c \in Calls : WalkOf(c) /\ CopyOf(c) /\ CountOf(c)

-----------------------------------------------------------------------------
\* What a step leaves alone.
LEMMA OthersKeep ==
    ASSUME TypeOK, NEW c \in Calls, NEW d \in Calls, c # d, Step(d) \/ Cancel(d) \/ Hang(d)
    PROVE  UNCHANGED <<phase[c], root[c], todo[c], current[c], offset[c], files[c]>>
  BY DEF Step, Begin, VisitDir, SkipIrregular, Check, CheckFails, VisitFile, BeginWrite, Create,
         CopyChunk, WriteFails, Close, FileDone, GoOn, Chmod, Fail, Cancel, Hang,
         Goto, TypeOK, history

LEMMA HistoryGrows ==
    ASSUME NEW d \in Calls, Step(d) \/ Cancel(d) \/ Hang(d)
    PROVE  /\ req' = req
           /\ created \subseteq created' /\ replaced \subseteq replaced' /\ clash \subseteq clash'
           /\ Create(d) \/ UNCHANGED <<created, replaced, clash>>
  BY DEF Step, Begin, VisitDir, SkipIrregular, Check, CheckFails, BeginWrite, Create,
         CopyChunk, WriteFails, Close, Chmod, Fail, Cancel, Hang, history

\* A file changes by the hand of a call that is at it.
LEMMA FileChanges ==
    ASSUME TypeOK, NEW d \in Calls, Step(d) \/ Cancel(d) \/ Hang(d),
           NEW q \in Places, IsFile(dest[q]), dest'[q] # dest[q]
    PROVE  q = Place(d) /\ (Create(d) \/ phase[d] \in {"copy", "chmod"})
  <1>1. CASE Makes(d)
    BY <1>1 DEF Makes
  <1>2. CASE Create(d)
    BY <1>2 DEF Create
  <1>3. CASE Writes(d) \/ SetsPerm(d)
    BY <1>3 DEF Writes, WriteChunk, SetsPerm, TypeOK
  <1> QED
    BY <1>1, <1>2, <1>3, HowDestChanges

\* A file that a call has created stays as it is until the call itself is at it
\* again, or another call disputes it.
LEMMA CreatedKept ==
    ASSUME TypeOK, OpenFiles, NEW c \in Calls, NEW d \in Calls, Step(d) \/ Cancel(d) \/ Hang(d),
           NEW q \in Places, IsFile(dest[q]), <<c, q>> \in created,
           c = d => Place(c) # q \/ phase[c] \notin {"create", "copy", "chmod"}
    PROVE  /\ dest'[q] = dest[q] \/ <<c, q>> \in clash'
           /\ <<c, q>> \in replaced' <=> <<c, q>> \in replaced
  <1>1. ASSUME dest'[q] # dest[q] PROVE <<c, q>> \in clash'
    <2>1. q = Place(d) /\ (Create(d) \/ phase[d] \in {"copy", "chmod"})
      BY <1>1, FileChanges
    <2>2. c # d
      BY <2>1 DEF Create
    <2>3. CASE Create(d)
      BY <2>1, <2>3 DEF Create
    <2>4. CASE phase[d] \in {"copy", "chmod"}
      BY <2>1, <2>2, <2>4, HistoryGrows DEF OpenFiles, HasOpen
    <2> QED
      BY <2>1, <2>3, <2>4
  <1>2. <<c, q>> \in replaced' <=> <<c, q>> \in replaced
    BY HistoryGrows DEF Create
  <1> QED
    BY <1>1, <1>2

\* What is done stays done.
LEMMA DoneKept ==
    ASSUME TypeOK, OpenFiles, NEW c \in Calls, NEW d \in Calls, Step(d) \/ Cancel(d) \/ Hang(d),
           NEW p \in DOMAIN Source(c), Done(c, p), root'[c] = root[c],
           c = d => current[c] # p \/ phase[c] \notin {"create", "copy", "chmod"}
    PROVE  Done(c, p)'
  <1> DEFINE q == Target(c, p)
  <1>1. q \in Places /\ Target(c, p)' = q /\ Source(c)' = Source(c) /\ req' = req
    BY PathType, HistoryGrows DEF Target, Source
  <1>2. <<c, q>> \in created' /\ <<c, q>> \in created
    BY HistoryGrows DEF Done
  <1>3. CASE <<c, q>> \in clash'
    BY <1>1, <1>2, <1>3 DEF Done, Disputed
  <1>4. CASE <<c, q>> \notin clash'
    <2>1. Delivered(c, p)
      BY <1>4, HistoryGrows DEF Done, Disputed
    <2>2. c = d => Place(c) # q \/ phase[c] \notin {"create", "copy", "chmod"}
      BY PlaceType, TargetsDiffer DEF Place
    <2>3. dest'[q] = dest[q] /\ (<<c, q>> \in replaced' <=> <<c, q>> \in replaced)
      BY <1>1, <1>2, <1>4, <2>1, <2>2, CreatedKept DEF Delivered
    <2> QED
      BY <1>1, <1>2, <2>1, <2>3 DEF Done, Delivered
  <1> QED
    BY <1>3, <1>4

-----------------------------------------------------------------------------
\* The walk.
LEMMA ToWriteType ==
    ASSUME TypeOK, NEW c \in Calls
    PROVE  ToWrite(c) \subseteq DOMAIN Source(c) /\ IsFiniteSet(ToWrite(c))
  <1>1. <<>> \in DOMAIN Source(c) /\ IsFiniteSet(DOMAIN Source(c))
    BY RequestType, SourcesAssumption DEF Source
  <1>2. ToWrite(c) \subseteq DOMAIN Source(c)
    BY <1>1 DEF ToWrite
  <1> QED
    BY <1>1, <1>2, FS_Subset

\* The file that a call is at is one that it is to write, and holds no other.
LEMMA AtFile ==
    ASSUME TypeOK, NEW c \in Calls, WalkOf(c), phase[c] \in {"create", "copy", "chmod"}
    PROVE  /\ current[c] \in ToWrite(c) /\ current[c] \in todo[c]
           /\ \A p \in ToWrite(c) : IsPrefix(current[c], p) => p = current[c]
  <1>1. current[c] \in todo[c] /\ current[c] \in DOMAIN Source(c)
    BY DEF TypeOK
  <1>2. CASE ~Walks(c)
    BY <1>1, <1>2 DEF WalkOf, ToWrite
  <1>3. CASE Walks(c)
    <2>1. Source(c)[current[c]].kind = "file" /\ Source(c)[<<>>].kind \in {"dir", "link"}
      BY <1>3 DEF WalkOf, Walks, IsTree
    <2>2. current[c] # <<>>
      BY <2>1
    <2>3. Enters(c, <<>>)
      BY <1>1, <1>3, <2>2 DEF WalkOf
    <2>4. \A p \in ToWrite(c) : IsPrefix(current[c], p) => p = current[c]
      BY <1>1, <2>1, <2>2, Above, ToWriteType
    <2> QED
      BY <1>1, <1>3, <2>1, <2>3, <2>4 DEF ToWrite
  <1> QED
    BY <1>2, <1>3

\* A directory makes way for what it holds.
LEMMA SubtreesApart ==
    ASSUME TypeOK, NEW c \in Calls, WalkOf(c), NEW p \in todo[c],
           NEW q \in (todo[c] \ {p}) \union Children(c, p),
           NEW r \in (todo[c] \ {p}) \union Children(c, p),
           IsPrefix(q, r)
    PROVE  q = r
  <1>1. todo[c] \subseteq DOMAIN Source(c)
    BY DEF TypeOK
  <1>2. p \in Seq(Nat) /\ q \in Seq(Nat) /\ r \in Seq(Nat)
    BY <1>1, PathType DEF Children
  <1>3. \A a, b \in todo[c] : IsPrefix(a, b) => a = b
    BY DEF WalkOf
  <1>4. CASE q \in todo[c] \ {p} /\ r \in Children(c, p)
    BY <1>2, <1>3, <1>4, PrefixOrder DEF Children
  <1>5. CASE q \in Children(c, p) /\ r \in todo[c] \ {p}
    BY <1>2, <1>3, <1>5, PrefixOrder DEF Children
  <1>6. CASE q \in Children(c, p) /\ r \in Children(c, p)
    <2>1. Len(q) = Len(r) /\ Len(q) \in Nat
      BY <1>2, <1>6 DEF Children
    <2> QED
      BY <1>2, <2>1, PrefixOrder
  <1> QED
    BY <1>3, <1>4, <1>5, <1>6

LEMMA NextWalk ==
    ASSUME TypeOK, NEW c \in Calls, WalkOf(c), NEW d \in Calls, Step(d) \/ Cancel(d) \/ Hang(d)
    PROVE  WalkOf(c)'
  <1>0. /\ req' = req /\ Walks(c)' = Walks(c) /\ Source(c)' = Source(c)
        /\ Enters(c, <<>>)' = Enters(c, <<>>)
    BY HistoryGrows DEF Walks, IsTree, Source, Enters
  <1>1. CASE UNCHANGED <<phase[c], todo[c], current[c]>>
    BY <1>0, <1>1 DEF WalkOf
  <1>2. ASSUME c = d, Begin(c) PROVE WalkOf(c)'
    <2>1. todo'[c] = {<<>>} /\ phase[c] = "new"
      BY <1>2 DEF Begin, TypeOK
    <2>2. phase'[c] \in {"refused", "walk", "check"}
      BY <1>2 DEF Begin, Goto, TypeOK
    <2>3. phase'[c] = "walk" => Walks(c)
      BY <1>2 DEF Begin, Goto, TypeOK, Walks, IsTransfer
    <2>4. phase'[c] = "check" => ~Walks(c)
      BY <1>2 DEF Begin, Goto, TypeOK, Walks, IsTransfer
    <2> QED
      BY <1>0, <2>1, <2>2, <2>3, <2>4 DEF WalkOf
  <1>3. ASSUME c = d, VisitDir(c) PROVE WalkOf(c)'
    <2>1. PICK p \in todo[c] :
            /\ phase[c] = "walk" /\ Enters(c, p)
            /\ todo'[c] = (todo[c] \ {p}) \union Children(c, p)
            /\ phase'[c] = (IF todo'[c] = {} THEN "ok" ELSE "walk")
      BY <1>3 DEF VisitDir, Visits, GoOn, Goto, TypeOK
    <2>2. \A a, b \in todo'[c] : IsPrefix(a, b) => a = b
      BY <2>1, SubtreesApart
    <2>3. Walks(c) /\ Enters(c, <<>>)
      BY <2>1 DEF WalkOf
    <2> QED
      BY <1>0, <2>1, <2>2, <2>3 DEF WalkOf
  <1>4. ASSUME c = d, SkipIrregular(c) PROVE WalkOf(c)'
    <2>1. PICK p \in todo[c] :
            /\ phase[c] = "walk"
            /\ todo'[c] = todo[c] \ {p}
            /\ phase'[c] = (IF todo'[c] = {} THEN "ok" ELSE "walk")
      BY <1>4 DEF SkipIrregular, Visits, GoOn, Goto, TypeOK
    <2> QED
      BY <1>0, <2>1 DEF WalkOf
  <1>5. ASSUME c = d, Check(c) \/ CheckFails(c) PROVE WalkOf(c)'
    <2>1. PICK p \in todo[c] :
            /\ phase[c] = "check" \/ (phase[c] = "walk" /\ Source(c)[p].kind = "file")
            /\ current'[c] = p /\ todo'[c] = todo[c]
            /\ phase'[c] \in {"create", "refused"}
      <3>1. PICK p \in todo[c] :
              VisitFile(c, p) /\ todo' = todo /\ (Goto(c, "create") \/ Goto(c, "refused"))
        BY <1>5 DEF Check, CheckFails
      <3>2. current'[c] = p
        BY <3>1 DEF VisitFile, TypeOK
      <3>3. phase'[c] \in {"create", "refused"}
        <4>1. phase \in [Calls -> Phases]
          BY DEF TypeOK
        <4> QED
          BY <3>1, <4>1 DEF Goto
      <3> QED
        BY <3>1, <3>2, <3>3 DEF VisitFile, Visits
    <2> QED
      BY <1>0, <2>1 DEF WalkOf
  <1>6. ASSUME c = d, BeginWrite(c) PROVE WalkOf(c)'
    BY <1>0, <1>6 DEF WalkOf, BeginWrite, Goto, TypeOK, Walks
  <1>7. ASSUME c = d, Create(c) PROVE WalkOf(c)'
    <2>1. phase[c] = "create" /\ phase'[c] = "copy" /\ UNCHANGED <<todo[c], current[c]>>
      BY <1>7 DEF Create, Goto, TypeOK
    <2> QED
      BY <1>0, <2>1 DEF WalkOf
  <1>8. ASSUME c = d, Close(c) \/ Chmod(c) PROVE WalkOf(c)'
    <2>1. /\ phase[c] \in {"copy", "chmod"} /\ current'[c] = current[c]
          /\ \/ phase'[c] = "chmod" /\ todo'[c] = todo[c]
             \/ /\ todo'[c] \subseteq todo[c]
                /\ phase'[c] = (IF todo'[c] = {} THEN "ok" ELSE "walk")
      BY <1>8 DEF Close, Chmod, FileDone, GoOn, Goto, TypeOK
    <2>2. current[c] \in todo[c]
      BY <2>1 DEF TypeOK
    <2>3. ~Walks(c) => todo'[c] = {} \/ phase'[c] = "chmod"
      <3>1. ~Walks(c) => todo[c] \subseteq {<<>>} /\ current[c] = <<>>
        BY <2>2 DEF WalkOf
      <3>2. \/ phase'[c] = "chmod" \/ todo'[c] = {} \/ todo'[c] = todo[c] \ {current[c]}
        BY <1>8 DEF Close, Chmod, FileDone, GoOn, Goto, TypeOK
      <3> QED
        BY <3>1, <3>2
    <2> QED
      BY <1>0, <2>1, <2>3 DEF WalkOf
  <1>9. ASSUME c = d, Fail(c) \/ WriteFails(c) PROVE WalkOf(c)'
    <2>1. /\ UNCHANGED <<todo[c], current[c]>>
          /\ phase'[c] = "failed"
      BY <1>9 DEF Fail, WriteFails, Goto, TypeOK
    <2> QED
      BY <1>0, <2>1 DEF WalkOf
  <1>10. c # d => UNCHANGED <<phase[c], todo[c], current[c]>>
    BY OthersKeep
  <1>11. CopyChunk(d) \/ Cancel(d) \/ Hang(d) => UNCHANGED <<phase[c], todo[c], current[c]>>
    BY DEF CopyChunk, Cancel, Hang
  <1> QED
    BY <1>1, <1>2, <1>3, <1>4, <1>5, <1>6, <1>7, <1>8, <1>9, <1>10, <1>11 DEF Step

-----------------------------------------------------------------------------
\* Open files.

\* A file that is open was open before, unless it has just been created.
LEMMA OpenStays ==
    ASSUME TypeOK, NEW c \in Calls, NEW d \in Calls, Step(d) \/ Cancel(d) \/ Hang(d),
           phase'[c] \in {"copy", "chmod"}, ~(c = d /\ Create(c))
    PROVE  /\ phase[c] \in {"copy", "chmod"}
           /\ UNCHANGED <<root[c], current[c], todo[c], files[c]>>
           /\ \/ c = d /\ CopyChunk(c)
              \/ c = d /\ Close(c) /\ phase[c] = "copy" /\ UNCHANGED <<dest, offset[c]>>
              \/ phase'[c] = phase[c] /\ offset'[c] = offset[c] /\ (c = d => dest' = dest)
  <1>1. CASE c # d
    BY <1>1, OthersKeep
  <1>2. CASE c = d /\ CopyChunk(c)
    BY <1>2 DEF CopyChunk
  <1>3. CASE c = d /\ (Cancel(c) \/ Hang(c))
    BY <1>3 DEF Cancel, Hang
  <1>4. CASE c = d /\ Close(c)
    BY <1>4 DEF Close, FileDone, GoOn, Goto, TypeOK
  <1>5. CASE c = d /\ ~CopyChunk(c) /\ ~Close(c) /\ ~Cancel(c) /\ ~Hang(c)
    <2>1. phase'[c] \notin {"copy", "chmod"}
      BY <1>5 DEF Step, Begin, VisitDir, SkipIrregular, Check, CheckFails, BeginWrite, WriteFails,
                  FileDone, GoOn, Chmod, Fail, Goto, TypeOK
    <2> QED
      BY <2>1
  <1> QED
    BY <1>1, <1>2, <1>3, <1>4, <1>5

LEMMA NextOpenFiles ==
    ASSUME TypeOK, OpenFiles, NEW e \in Calls, Step(e) \/ Cancel(e) \/ Hang(e)
    PROVE  OpenFiles'
  <1> SUFFICES ASSUME NEW c \in Calls, NEW q \in Places, HasOpen(c, q)'
               PROVE  /\ <<c, q>> \in created'
                      /\ \A d \in Calls \ {c} : <<d, q>> \in created' => <<d, q>> \in clash'
    BY DEF OpenFiles
  <1>1. CASE c = e /\ Create(c)
    <2>1. q = Place(c)
      BY <1>1 DEF HasOpen, Create, Place, Target
    <2>2. \A d \in Calls \ {c} : <<d, q>> \in created' => <<d, q>> \in created
      BY <1>1, <2>1 DEF Create
    <2> QED
      BY <1>1, <2>1, <2>2 DEF Create
  <1>2. CASE ~(c = e /\ Create(c))
    <2>1. HasOpen(c, q)
      BY <1>2, OpenStays DEF HasOpen, Place, Target
    <2>2. /\ <<c, q>> \in created
          /\ \A d \in Calls \ {c} : <<d, q>> \in created => <<d, q>> \in clash
      BY <2>1 DEF OpenFiles
    <2>3. ASSUME NEW d \in Calls \ {c}, <<d, q>> \in created', <<d, q>> \notin created
          PROVE  <<d, q>> \in clash'
      <3>1. Create(e)
        BY <2>3, HistoryGrows
      <3>2. d = e /\ q = Place(e)
        BY <2>3, <3>1 DEF Create
      <3> QED
        BY <2>1, <3>1, <3>2 DEF Create
    <2> QED
      BY <2>2, <2>3, HistoryGrows
  <1> QED
    BY <1>1, <1>2

-----------------------------------------------------------------------------
\* The file in progress.
LEMMA CreateStarts ==
    ASSUME TypeOK, NEW c \in Calls, Create(c)
    PROVE  InProgress(c)'
  <1> DEFINE q == Place(c)
  <1>1. q \in Places /\ current[c] \in DOMAIN Source(c) /\ Source(c)[current[c]].size \in Nat
    BY PlaceType, PathType DEF Create
  <1>2. /\ Place(c)' = q /\ Source(c)' = Source(c) /\ current'[c] = current[c] /\ req' = req
    BY DEF Create, Place, Target, Source
  <1>3. offset'[c] = 0 /\ phase'[c] = "copy"
    BY DEF Create, Goto, TypeOK
  <1>4. dest'[q] = [data |-> <<>>, perm |-> IF IsFile(dest[q]) THEN dest[q].perm ELSE NewPerm(c)]
    BY <1>1 DEF Create
  <1>5. IsFile(dest[q]) => <<c, q>> \in replaced'
    BY DEF Create
  <1>6. req[c].op = "download" =>
          <<c, q>> \in replaced' \/ dest'[q].perm = Masked[Source(c)[current[c]].perm]
    BY <1>4, <1>5 DEF NewPerm
  <1>7. dest'[q].data = [i \in 1 .. 0 |-> c]
    <2>1. <<>> = [i \in 1 .. 0 |-> c]
      <3>1. [i \in 1 .. 0 |-> c] \in Seq(Calls) /\ Len([i \in 1 .. 0 |-> c]) = 0
        OBVIOUS
      <3> QED
        BY <3>1, EmptySeq
    <2> QED
      BY <1>4, <2>1
  <1> QED
    BY <1>1, <1>2, <1>3, <1>6, <1>7 DEF InProgress

LEMMA CopyGoesOn ==
    ASSUME TypeOK, OpenFiles, NEW c \in Calls, CopyChunk(c), InProgress(c)
    PROVE  InProgress(c)'
  <1> DEFINE q == Place(c)
  <1>1. /\ q \in Places /\ current[c] \in DOMAIN Source(c) /\ Source(c)[current[c]].size \in Nat
        /\ phase[c] = "copy"
    BY PlaceType, PathType DEF CopyChunk
  <1>2. /\ Place(c)' = q /\ Source(c)' = Source(c) /\ UNCHANGED <<current, req, root, replaced, clash>>
        /\ phase' = phase
    BY DEF CopyChunk, Place, Target, Source, history
  <1>3. offset[c] \in Nat /\ offset'[c] = offset[c] + 1 /\ offset[c] < Source(c)[current[c]].size
    BY DEF CopyChunk, TypeOK
  <1>4. dest[q] \in [data : Seq(Calls \union {Hole}), perm : Perms]
    BY <1>1 DEF TypeOK, IsFile, Node
  <1>5. dest'[q] = [dest[q] EXCEPT !.data = Written(c, dest[q].data)]
    BY <1>1 DEF CopyChunk, WriteChunk, TypeOK
  <1>6. dest'[q].perm = dest[q].perm /\ dest'[q].data = Written(c, dest[q].data)
    BY <1>4, <1>5
  <1>7. ASSUME dest[q].data = [i \in 1 .. offset[c] |-> c]
        PROVE  dest'[q].data = [i \in 1 .. offset'[c] |-> c]
    <2>1. Len(dest[q].data) = offset[c]
      BY <1>3, <1>7
    <2>2. Written(c, dest[q].data) =
            [i \in 1 .. offset[c] + 1 |->
                IF i = offset[c] + 1 THEN c ELSE IF i <= offset[c] THEN dest[q].data[i] ELSE Hole]
      BY <1>3, <2>1 DEF Written
    <2>3. \A i \in 1 .. offset[c] : dest[q].data[i] = c
      BY <1>7
    <2> QED
      BY <1>3, <1>6, <2>2, <2>3
  <1>8. Disputed(c, current[c]) => Disputed(c, current[c])'
    BY <1>2 DEF Disputed, Target
  <1> QED
    BY <1>1, <1>2, <1>3, <1>6, <1>7, <1>8 DEF InProgress

LEMMA NextInProgress ==
    ASSUME TypeOK, OpenFiles, NEW c \in Calls, WalkOf(c), CopyOf(c),
           NEW d \in Calls, Step(d) \/ Cancel(d) \/ Hang(d), phase'[c] \in {"copy", "chmod"}
    PROVE  InProgress(c)'
  <1>1. CASE c = d /\ Create(c)
    BY <1>1, CreateStarts
  <1>2. CASE ~(c = d /\ Create(c))
    <2> DEFINE q == Place(c)
    <2>1. /\ phase[c] \in {"copy", "chmod"} /\ UNCHANGED <<root[c], current[c]>>
          /\ InProgress(c)
      BY <1>2, OpenStays DEF CopyOf
    <2>2. /\ Place(c)' = q /\ req' = req /\ Source(c)' = Source(c)
          /\ q \in Places /\ IsFile(dest[q]) /\ <<c, q>> \in created
      BY <2>1, PlaceType, HistoryGrows DEF Place, Target, Source, TypeOK, OpenFiles, HasOpen
    <2>3. CASE c = d /\ CopyChunk(c)
      BY <2>1, <2>3, CopyGoesOn
    <2>4. CASE c = d /\ Close(c) /\ phase[c] = "copy" /\ UNCHANGED <<dest, offset[c]>>
      <3>1. /\ offset[c] = Source(c)[current[c]].size /\ UNCHANGED <<replaced, clash>>
            /\ phase'[c] = "chmod" => req[c].op = "upload"
        BY <2>4 DEF Close, FileDone, GoOn, Goto, TypeOK, history
      <3> QED
        BY <2>1, <2>2, <2>4, <3>1 DEF InProgress, Disputed, Target
    <2>5. CASE phase'[c] = phase[c] /\ offset'[c] = offset[c] /\ (c = d => dest' = dest)
      <3>1. \/ <<c, q>> \in clash'
            \/ dest'[q] = dest[q] /\ (<<c, q>> \in replaced' <=> <<c, q>> \in replaced)
        <4>1. CASE c = d
          BY <1>2, <2>5, <4>1, HistoryGrows
        <4>2. CASE c # d
          BY <2>2, <4>2, CreatedKept
        <4> QED
          BY <4>1, <4>2
      <3>2. Disputed(c, current[c]) => <<c, q>> \in clash'
        BY HistoryGrows DEF Disputed, Place
      <3>3. Disputed(c, current[c])' = (<<c, q>> \in clash')
        BY <2>1, <2>2 DEF Disputed, Place
      <3> QED
        BY <2>1, <2>2, <2>5, <3>1, <3>2, <3>3 DEF InProgress
    <2> QED
      BY <1>2, <2>3, <2>4, <2>5, OpenStays
  <1> QED
    BY <1>1, <1>2

\* A call that is through with its file has done it.
Finishes(c) == Chmod(c) \/ (Close(c) /\ phase'[c] # "chmod")

LEMMA FinishedIsDone ==
    ASSUME TypeOK, OpenFiles, NEW c \in Calls, CopyOf(c), Finishes(c), NEW p, p = current[c]
    PROVE  Done(c, p)'
  <1> DEFINE q == Place(c)
  <1>1. phase[c] \in {"copy", "chmod"}
    BY DEF Finishes, Chmod, Close
  <1>2. /\ q \in Places /\ IsFile(dest[q]) /\ <<c, q>> \in created /\ InProgress(c)
        /\ q = Target(c, p)
    BY <1>1, PlaceType DEF TypeOK, OpenFiles, HasOpen, CopyOf, Place
  <1>3. /\ UNCHANGED <<req, root, current, offset, created, replaced, clash>>
        /\ Source(c)' = Source(c) /\ Target(c, p)' = q
    BY <1>2 DEF Finishes, Chmod, Close, history, Source, Target
  <1>4. offset[c] = Source(c)[p].size
    BY <1>2 DEF Finishes, Chmod, Close, InProgress
  <1>5. CASE Disputed(c, p)
    BY <1>2, <1>3, <1>5 DEF Disputed, Done
  <1>6. CASE ~Disputed(c, p)
    <2>1. /\ dest[q].data = [i \in 1 .. Source(c)[p].size |-> c]
          /\ req[c].op = "download" =>
                <<c, q>> \in replaced \/ dest[q].perm = Masked[Source(c)[p].perm]
      BY <1>2, <1>4, <1>6 DEF InProgress
    <2>2. CASE Chmod(c)
      <3>1. dest[q] \in [data : Seq(Calls \union {Hole}), perm : Perms]
        BY <1>2 DEF TypeOK, IsFile, Node
      <3>2. dest'[q] = [dest[q] EXCEPT !.perm = Source(c)[p].perm]
        BY <1>2, <2>2 DEF Chmod, TypeOK
      <3>3. dest'[q].data = dest[q].data /\ dest'[q].perm = Source(c)[p].perm
        BY <3>1, <3>2
      <3>4. IsFile(dest'[q])
        BY <1>2, <2>2, DestTyping DEF Step
      <3> QED
        BY <1>2, <1>3, <2>1, <2>2, <3>3, <3>4 DEF Done, Delivered, Chmod, InProgress
    <2>3. CASE Close(c) /\ phase'[c] # "chmod"
      <3>1. dest' = dest /\ req[c].op \in {"download", "write"}
        BY <2>3 DEF Close, Goto, TypeOK
      <3> QED
        BY <1>2, <1>3, <2>1, <3>1 DEF Done, Delivered
    <2> QED
      BY <2>2, <2>3 DEF Finishes
  <1> QED
    BY <1>5, <1>6

-----------------------------------------------------------------------------
\* A step of the walk leaves nothing out ...
LEMMA StillCovered ==
    ASSUME TypeOK, NEW c \in Calls, WalkOf(c), Step(c) \/ Cancel(c) \/ Hang(c),
           phase[c] \in Busy, phase'[c] \in Busy \union {"ok"},
           NEW p \in ToWrite(c), Covered(c, p)
    PROVE  Covered(c, p)' \/ (p = current[c] /\ Finishes(c))
  <1>1. PICK q \in todo[c] : IsPrefix(q, p)
    BY DEF Covered
  <1>2. p \in DOMAIN Source(c) /\ q \in DOMAIN Source(c) /\ p \in Seq(Nat) /\ q \in Seq(Nat)
    BY ToWriteType, PathType DEF TypeOK
  <1>3. CASE q \in todo'[c]
    BY <1>1, <1>3 DEF Covered
  <1>4. CASE VisitDir(c)
    <2>1. PICK r \in todo[c] :
            /\ phase[c] = "walk" /\ Enters(c, r)
            /\ todo'[c] = (todo[c] \ {r}) \union Children(c, r)
      BY <1>4 DEF VisitDir, Visits, GoOn, TypeOK
    <2>2. Walks(c) /\ Source(c)[p].kind = "file" /\ Source(c)[r].kind # "file"
      BY <2>1 DEF WalkOf, ToWrite, Enters
    <2>3. CASE q = r
      <3>1. \E s \in Children(c, q) : IsPrefix(s, p)
        BY <1>1, <1>2, <2>2, <2>3, Above
      <3> QED
        BY <2>1, <2>3, <3>1 DEF Covered
    <2> QED
      BY <1>3, <2>1, <2>3
  <1>5. CASE SkipIrregular(c)
    <2>1. PICK r \in todo[c] :
            /\ phase[c] = "walk" /\ ~Enters(c, r) /\ Source(c)[r].kind # "file"
            /\ todo'[c] = todo[c] \ {r}
      BY <1>5 DEF SkipIrregular, Visits, GoOn, TypeOK
    <2>2. Walks(c) /\ Source(c)[p].kind = "file" /\ Enters(c, <<>>)
      BY <2>1 DEF WalkOf, ToWrite
    <2>3. q # r
      <3> SUFFICES ASSUME q = r PROVE FALSE
        OBVIOUS
      <3>1. q # p /\ q # <<>> /\ Source(c)[q].kind # "dir"
        BY <2>1, <2>2 DEF Enters
      <3> QED
        BY <1>1, <1>2, <3>1, Above
    <2> QED
      BY <1>3, <2>1, <2>3
  <1>6. CASE Chmod(c) \/ Close(c)
    <2>1. phase[c] \in {"copy", "chmod"}
      BY <1>6 DEF Chmod, Close
    <2>2. CASE todo' = todo
      BY <1>3, <2>2
    <2>3. CASE todo' # todo
      <3>1. Finishes(c)
        BY <1>6, <2>3 DEF Finishes, Close, FileDone, GoOn, Goto, TypeOK
      <3>2. todo'[c] = todo[c] \ {current[c]} \/ ~Walks(c)
        <4>1. \/ todo'[c] = todo[c] \ {current[c]} \/ req[c].op = "write"
          BY <1>6, <2>3 DEF Close, Chmod, FileDone, GoOn, TypeOK
        <4> QED
          BY <4>1 DEF Walks
      <3>3. CASE todo'[c] = todo[c] \ {current[c]}
        BY <1>1, <1>3, <2>1, <3>1, <3>3, AtFile
      <3>4. CASE ~Walks(c)
        <4>1. p = <<>> /\ current[c] = <<>>
          BY <2>1, <3>4, AtFile DEF ToWrite
        <4> QED
          BY <3>1, <4>1
      <3> QED
        BY <3>2, <3>3, <3>4
    <2> QED
      BY <2>2, <2>3
  <1>7. CASE /\ ~VisitDir(c) /\ ~SkipIrregular(c) /\ ~Chmod(c) /\ ~Close(c)
    <2>1. phase[c] # "new"
      BY DEF Busy
    <2>2. todo' = todo
      BY <1>7, <2>1 DEF Step, Begin, Check, CheckFails, BeginWrite, Create, CopyChunk, WriteFails,
                        Fail, Cancel, Hang
    <2> QED
      BY <1>3, <2>2
  <1> QED
    BY <1>4, <1>5, <1>6, <1>7

\* ... and never comes back to a file.
LEMMA NotCoveredAgain ==
    ASSUME TypeOK, NEW c \in Calls, WalkOf(c), Step(c) \/ Cancel(c) \/ Hang(c),
           phase[c] \in Busy, NEW p \in ToWrite(c), Covered(c, p)'
    PROVE  Covered(c, p) /\ (p = current[c] => ~Finishes(c))
  <1>0. p \in DOMAIN Source(c) /\ p \in Seq(Nat) /\ todo[c] \subseteq DOMAIN Source(c)
    BY ToWriteType, PathType DEF TypeOK
  <1>1. CASE VisitDir(c)
    <2>1. PICK r \in todo[c] :
            /\ phase[c] = "walk"
            /\ todo'[c] = (todo[c] \ {r}) \union Children(c, r)
      BY <1>1 DEF VisitDir, Visits, GoOn, TypeOK
    <2>2. PICK q \in todo'[c] : IsPrefix(q, p)
      BY DEF Covered
    <2>3. CASE q \in Children(c, r)
      <3>1. IsPrefix(r, q) /\ r \in Seq(Nat) /\ q \in Seq(Nat)
        BY <1>0, <2>3, PathType DEF Children
      <3>2. IsPrefix(r, p)
        BY <1>0, <2>2, <3>1, PrefixOrder
      <3> QED
        BY <2>1, <3>2 DEF Covered, Finishes, Chmod, Close
    <2> QED
      BY <2>1, <2>2, <2>3 DEF Covered, Finishes, Chmod, Close
  <1>2. CASE ~VisitDir(c)
    <2>1. phase[c] # "new"
      BY DEF Busy
    <2>2. todo'[c] \subseteq todo[c]
      BY <1>2, <2>1 DEF Step, Begin, SkipIrregular, Check, CheckFails, BeginWrite, Create, CopyChunk,
                        WriteFails, Close, Chmod, FileDone, GoOn, Fail, Cancel, Hang, TypeOK
    <2>3. PICK q \in todo'[c] : IsPrefix(q, p)
      BY DEF Covered
    <2>4. ASSUME p = current[c], Finishes(c) PROVE FALSE
      <3>1. p \in todo[c] /\ phase[c] \in {"copy", "chmod"}
        BY <2>4 DEF Finishes, Chmod, Close, TypeOK
      <3>2. q = p
        BY <2>2, <2>3, <3>1 DEF WalkOf
      <3>3. todo'[c] \subseteq todo[c] \ {current[c]}
        BY <2>4 DEF Finishes, Chmod, Close, FileDone, GoOn, Goto, TypeOK
      <3> QED
        BY <2>4, <3>2, <3>3
    <2> QED
      BY <2>2, <2>3, <2>4 DEF Covered
  <1> QED
    BY <1>1, <1>2

\* What a call is to write stays the same.
LEMMA ToWriteKept ==
    ASSUME req' = req, NEW c \in Calls
    PROVE  /\ ToWrite(c)' = ToWrite(c) /\ Source(c)' = Source(c)
           /\ IsTransfer(c)' = IsTransfer(c) /\ Walks(c)' = Walks(c)
  BY DEF ToWrite, Walks, IsTree, Source, Enters, IsTransfer

\* The root of a call is chosen as it begins.
LEMMA RootKept ==
    ASSUME TypeOK, NEW c \in Calls, NEW d \in Calls, Step(d) \/ Cancel(d) \/ Hang(d),
           phase[c] # "new"
    PROVE  root'[c] = root[c]
  <1>1. CASE c # d
    BY <1>1, OthersKeep
  <1>2. CASE c = d
    BY <1>2 DEF Step, Begin, VisitDir, SkipIrregular, Check, CheckFails, BeginWrite, Create,
                CopyChunk, WriteFails, Close, Chmod, Fail, Cancel, Hang
  <1> QED
    BY <1>1, <1>2

LEMMA NextCopy ==
    ASSUME TypeOK, OpenFiles, NEW c \in Calls, WalkOf(c), CopyOf(c),
           NEW d \in Calls, Step(d) \/ Cancel(d) \/ Hang(d)
    PROVE  CopyOf(c)'
  <1> SUFFICES ASSUME phase'[c] \in Busy \union {"ok"}, NEW p \in ToWrite(c)'
               PROVE  Covered(c, p)' \/ Done(c, p)'
    BY NextInProgress DEF CopyOf
  <1>1. req' = req /\ p \in ToWrite(c) /\ p \in DOMAIN Source(c)
    BY HistoryGrows, ToWriteKept, ToWriteType
  <1>2. CASE c # d
    <2>1. UNCHANGED <<phase[c], todo[c], root[c]>>
      BY <1>2, OthersKeep
    <2>2. Covered(c, p) \/ Done(c, p)
      BY <1>1, <2>1 DEF CopyOf
    <2>3. Covered(c, p) => Covered(c, p)'
      BY <2>1 DEF Covered
    <2> QED
      BY <1>1, <1>2, <2>1, <2>2, <2>3, DoneKept
  <1>3. CASE c = d /\ phase[c] = "new"
    <2>1. Begin(c) \/ BeginWrite(c)
      BY <1>1, <1>3
      DEF Step, VisitDir, SkipIrregular, Check, CheckFails, VisitFile, Visits, Create, CopyChunk,
          WriteFails, Close, Chmod, Fail, Cancel, Hang, Goto, TypeOK, Busy
    <2>2. todo'[c] = {<<>>}
      BY <2>1 DEF Begin, BeginWrite, TypeOK
    <2> QED
      BY <1>1, <2>2, PathType, PrefixOrder DEF Covered
  <1>4. CASE c = d /\ phase[c] # "new"
    <2>1. phase[c] \in Busy
      BY <1>1, <1>4
      DEF Step, VisitDir, SkipIrregular, Check, CheckFails, VisitFile, Visits, Create, CopyChunk,
          WriteFails, Close, Chmod, Begin, BeginWrite, Fail, Cancel, Hang, TypeOK, Busy,
          Active, Ended, Phases, WalkOf
    <2>2. Covered(c, p) \/ Done(c, p)
      BY <1>1, <2>1 DEF CopyOf
    <2>3. CASE Covered(c, p)
      <3>1. Covered(c, p)' \/ (p = current[c] /\ Finishes(c))
        BY <1>1, <1>4, <2>1, <2>3, StillCovered
      <3> QED
        BY <3>1, FinishedIsDone
    <2>4. CASE ~Covered(c, p)
      <3>1. current[c] # p \/ phase[c] \notin {"create", "copy", "chmod"}
        <4>1. phase[c] \in {"create", "copy", "chmod"} => current[c] \in todo[c]
          BY DEF TypeOK
        <4> QED
          BY <1>1, <2>4, <4>1, PathType, PrefixOrder DEF Covered
      <3> QED
        BY <1>1, <1>4, <2>2, <2>4, <3>1, RootKept, DoneKept
    <2> QED
      BY <2>3, <2>4
  <1> QED
    BY <1>2, <1>3, <1>4

-----------------------------------------------------------------------------
\* The count.
LEMMA MineType ==
    ASSUME TypeOK, NEW c \in Calls
    PROVE  /\ Complete(c) \subseteq Mine(c) /\ Mine(c) \subseteq ToWrite(c)
           /\ IsFiniteSet(Mine(c)) /\ IsFiniteSet(Complete(c))
           /\ Cardinality(Mine(c)) \in Nat /\ Cardinality(Complete(c)) \in Nat
  <1>1. Complete(c) \subseteq Mine(c) /\ Mine(c) \subseteq ToWrite(c)
    BY DEF Complete, Mine, Done
  <1>2. IsFiniteSet(Mine(c)) /\ IsFiniteSet(Complete(c))
    BY <1>1, ToWriteType, FS_Subset
  <1> QED
    BY <1>1, <1>2, FS_CardinalityType

LEMMA MineTypeNext ==
    ASSUME TypeOK, NEW c \in Calls, NEW d \in Calls, Step(d) \/ Cancel(d) \/ Hang(d)
    PROVE  /\ Complete(c)' \subseteq Mine(c)' /\ Mine(c)' \subseteq ToWrite(c)
           /\ IsFiniteSet(Mine(c)') /\ IsFiniteSet(Complete(c)')
           /\ Cardinality(Mine(c)') \in Nat /\ Cardinality(Complete(c)') \in Nat
  <1>1. Complete(c)' \subseteq Mine(c)' /\ Mine(c)' \subseteq ToWrite(c)
    BY HistoryGrows, ToWriteKept DEF Complete, Mine, Done
  <1>2. IsFiniteSet(Mine(c)') /\ IsFiniteSet(Complete(c)')
    BY <1>1, ToWriteType, FS_Subset
  <1> QED
    BY <1>1, <1>2, FS_CardinalityType

LEMMA MineKept ==
    ASSUME TypeOK, NEW c \in Calls, NEW d \in Calls, Step(d) \/ Cancel(d) \/ Hang(d),
           root'[c] = root[c], ~(c = d /\ Create(c))
    PROVE  Mine(c)' = Mine(c)
  <1>1. ToWrite(c)' = ToWrite(c) /\ \A p : Target(c, p)' = Target(c, p)
    BY HistoryGrows, ToWriteKept DEF Target
  <1>2. \A q : <<c, q>> \in created' <=> <<c, q>> \in created
    <2>1. CASE Create(d)
      <3>1. c # d /\ created' = created \union {<<d, Place(d)>>}
        BY <2>1 DEF Create
      <3> QED
        BY <3>1
    <2>2. CASE ~Create(d)
      BY <2>2, HistoryGrows
    <2> QED
      BY <2>1, <2>2
  <1> QED
    BY <1>1, <1>2 DEF Mine

\* To create a file is to come to one that the call has not created yet.
LEMMA MineGrows ==
    ASSUME TypeOK, NEW c \in Calls, WalkOf(c), Create(c)
    PROVE  /\ Mine(c)' = Mine(c) \union {current[c]}
           /\ current[c] \in todo[c] /\ Covered(c, current[c])
  <1>1. /\ ToWrite(c)' = ToWrite(c) /\ \A p : Target(c, p)' = Target(c, p)
        /\ created' = created \union {<<c, Target(c, current[c])>>}
    BY ToWriteKept DEF Target, Create, Place
  <1>2. current[c] \in ToWrite(c) /\ current[c] \in todo[c] /\ current[c] \in DOMAIN Source(c)
    BY AtFile, ToWriteType DEF Create
  <1>3. \A p \in ToWrite(c) : Target(c, p) = Target(c, current[c]) => p = current[c]
    BY <1>2, TargetsDiffer, ToWriteType
  <1>4. Covered(c, current[c])
    BY <1>2, PathType, PrefixOrder DEF Covered
  <1> QED
    BY <1>1, <1>2, <1>3, <1>4 DEF Mine

LEMMA CompleteKept ==
    ASSUME TypeOK, OpenFiles, NEW c \in Calls, NEW d \in Calls, Step(d) \/ Cancel(d) \/ Hang(d),
           root'[c] = root[c], NEW S \in SUBSET Complete(c),
           c = d => current[c] \notin S \/ phase[c] \notin {"create", "copy", "chmod"}
    PROVE  S \subseteq Complete(c)'
  <1> SUFFICES ASSUME NEW p \in S PROVE p \in Complete(c)'
    OBVIOUS
  <1>1. p \in ToWrite(c) /\ Done(c, p) /\ p \in DOMAIN Source(c)
    BY ToWriteType DEF Complete
  <1>2. Done(c, p)'
    BY <1>1, DoneKept
  <1>3. p \in ToWrite(c)'
    BY <1>1, HistoryGrows, ToWriteKept
  <1> QED
    BY <1>2, <1>3 DEF Complete

\* The count after the step, for each place where the call may be.
Counted(c) ==
    /\ phase[c] \in {"copy", "chmod"} => CountOpen(c)
    /\ phase[c] = "failed" => CountFailed(c)
    /\ phase[c] \notin {"copy", "chmod", "failed"} => CountBetween(c)

\* All files that the call has created but the one that is open are counted.
LEMMA OpenButOne ==
    ASSUME TypeOK, NEW c \in Calls, CountOpen(c)
    PROVE  Cardinality(Mine(c) \ {current[c]}) = files[c]
  <1>1. IsFiniteSet(Mine(c)) /\ Cardinality(Mine(c)) \in Nat /\ files[c] \in Nat
    BY MineType DEF TypeOK
  <1>2. Cardinality(Mine(c) \ {current[c]}) =
          IF current[c] \in Mine(c) THEN Cardinality(Mine(c)) - 1 ELSE Cardinality(Mine(c))
    BY <1>1, FS_RemoveElement
  <1> QED
    BY <1>1, <1>2 DEF CountOpen

LEMMA FromOpen ==
    ASSUME TypeOK, TypeOK', OpenFiles, NEW c \in Calls, WalkOf(c), CopyOf(c),
           NEW d \in Calls, Step(d) \/ Cancel(d) \/ Hang(d),
           IsTransfer(c), phase[c] \in {"copy", "chmod"}, CountOpen(c)
    PROVE  Counted(c)'
  <1> DEFINE S == Mine(c) \ {current[c]}
  <1>1. root'[c] = root[c] /\ ~(c = d /\ Create(c))
    BY RootKept DEF Create
  <1>2. Mine(c)' = Mine(c) /\ S \subseteq Complete(c)' /\ files[c] \in Nat
    BY <1>1, MineKept, CompleteKept DEF CountOpen, TypeOK
  <1>3. Cardinality(S) = files[c] /\ Cardinality(Mine(c)) = files[c] + 1 /\ current[c] \in Mine(c)
    BY <1>2, OpenButOne DEF CountOpen
  <1>4. \/ phase'[c] \in {"copy", "chmod"}
        \/ phase'[c] = "failed" /\ files'[c] = files[c]
        \/ c = d /\ Finishes(c) /\ files'[c] = files[c] + 1
    <2>1. CASE c # d
      BY <2>1, OthersKeep
    <2>2. CASE c = d /\ (Close(c) \/ Chmod(c))
      BY <2>2 DEF Close, Chmod, FileDone, GoOn, Goto, TypeOK, Finishes, IsTransfer
    <2>3. CASE c = d /\ ~Close(c) /\ ~Chmod(c)
      BY <2>3 DEF Step, Begin, VisitDir, SkipIrregular, Check, CheckFails, VisitFile, Visits,
                  BeginWrite, Create, CopyChunk, WriteFails, Fail, Cancel, Hang, Goto, TypeOK
    <2> QED
      BY <2>1, <2>2, <2>3
  <1>5. CASE phase'[c] \in {"copy", "chmod"}
    <2>1. UNCHANGED <<current[c], todo[c], files[c]>>
      BY <1>1, <1>5, OpenStays
    <2>2. \A p : Covered(c, p)' => Covered(c, p)
      BY <2>1 DEF Covered
    <2> QED
      BY <1>2, <1>3, <1>5, <2>1, <2>2 DEF CountOpen, Counted
  <1>6. CASE phase'[c] = "failed" /\ files'[c] = files[c]
    <2>1. Cardinality(S) <= Cardinality(Complete(c)')
      BY <1>2, MineTypeNext, FS_Subset
    <2> QED
      BY <1>2, <1>3, <1>6, <2>1 DEF CountFailed, Counted
  <1>7. CASE c = d /\ Finishes(c) /\ files'[c] = files[c] + 1
    <2>1. phase'[c] \in {"walk", "ok"}
      BY <1>7 DEF Finishes, Close, Chmod, FileDone, GoOn, Goto, TypeOK, IsTransfer
    <2>2. current[c] \in Complete(c)'
      <3>1. Done(c, current[c])' /\ current'[c] = current[c]
        <4>1. PICK p : p = current[c]
          OBVIOUS
        <4>2. current'[c] = p
          BY <1>7, <4>1 DEF Finishes, Close, Chmod
        <4>3. Done(c, p)'
          BY <1>7, <4>1, FinishedIsDone
        <4> QED
          BY <4>1, <4>2, <4>3 DEF Done, Delivered, Disputed, Target
      <3> QED
        BY <1>3, <3>1, HistoryGrows, ToWriteKept DEF Complete, Mine, Done
    <2>3. \A p \in Mine(c) : ~Covered(c, p)'
      BY <1>7, MineType, NotCoveredAgain DEF CountOpen, Busy
    <2>4. Mine(c)' \subseteq Complete(c)'
      BY <1>2, <2>2
    <2> QED
      BY <1>2, <1>3, <1>7, <2>1, <2>3, <2>4 DEF CountBetween, Counted
  <1> QED
    BY <1>4, <1>5, <1>6, <1>7

LEMMA FromBetween ==
    ASSUME TypeOK, TypeOK', OpenFiles, NEW c \in Calls, WalkOf(c), CopyOf(c),
           NEW d \in Calls, Step(d) \/ Cancel(d) \/ Hang(d),
           IsTransfer(c), phase[c] \notin {"new", "copy", "chmod", "failed"}, CountBetween(c)
    PROVE  Counted(c)'
  <1>1. root'[c] = root[c]
    BY RootKept
  <1>2. ASSUME phase[c] \in Busy
        PROVE  current[c] \notin Mine(c) \/ phase[c] \notin {"create", "copy", "chmod"}
    <2>1. ASSUME phase[c] = "create" PROVE Covered(c, current[c])
      <3>1. current[c] \in todo[c] /\ current[c] \in DOMAIN Source(c)
        BY <2>1, AtFile DEF TypeOK
      <3> HIDE DEF Covered
      <3>2. IsPrefix(current[c], current[c])
        BY <3>1, PathType, PrefixOrder
      <3> QED
        BY <3>1, <3>2 DEF Covered
    <2> QED
      BY <1>2, <2>1 DEF CountBetween
  <1>3. Mine(c) \subseteq Complete(c)' /\ files[c] \in Nat
    BY <1>1, <1>2, CompleteKept DEF CountBetween, TypeOK, Busy
  <1>4. CASE c = d /\ Create(c)
    <2>1. phase[c] \in Busy /\ phase'[c] = "copy" /\ UNCHANGED <<current[c], todo[c], files[c]>>
      BY <1>4 DEF Create, Goto, TypeOK, Busy
    <2>2. Mine(c)' = Mine(c) \union {current[c]} /\ current[c] \notin Mine(c)
      BY <1>4, <2>1, MineGrows DEF CountBetween
    <2>3. Cardinality(Mine(c)') = files[c] + 1
      <3>1. IsFiniteSet(Mine(c))
        BY MineType
      <3>2. Cardinality(Mine(c) \union {current[c]}) =
              IF current[c] \in Mine(c) THEN Cardinality(Mine(c)) ELSE Cardinality(Mine(c)) + 1
        BY <3>1, FS_AddElement
      <3> QED
        BY <2>2, <3>2 DEF CountBetween
    <2>4. \A p \in Mine(c) : ~Covered(c, p)'
      BY <2>1 DEF CountBetween, Covered
    <2>5. Mine(c)' \ {current'[c]} = Mine(c)
      BY <2>1, <2>2
    <2> QED
      BY <1>3, <2>1, <2>2, <2>3, <2>4, <2>5 DEF CountOpen, Counted
  <1>5. CASE ~(c = d /\ Create(c))
    <2>1. Mine(c)' = Mine(c)
      BY <1>1, <1>5, MineKept
    <2>2. /\ phase'[c] \notin {"new", "copy", "chmod"} /\ files'[c] = files[c]
          /\ phase'[c] \in Busy => phase[c] \in Busy
      <3>1. CASE c # d
        BY <3>1, OthersKeep
      <3>2. CASE c = d
        BY <1>5, <3>2
        DEF Step, Begin, VisitDir, SkipIrregular, Check, CheckFails, VisitFile, Visits, BeginWrite,
            CopyChunk, WriteFails, Close, Chmod, GoOn, Fail, Cancel, Hang, Goto, TypeOK,
            Active, Ended, Phases, Busy
      <3> QED
        BY <3>1, <3>2
    <2>3. CASE phase'[c] = "failed"
      <3>1. Cardinality(Mine(c)) <= Cardinality(Complete(c)')
        BY <1>3, MineTypeNext, FS_Subset
      <3> QED
        BY <1>3, <2>1, <2>2, <2>3, <3>1 DEF CountBetween, CountFailed, Counted
    <2>4. CASE phase'[c] # "failed"
      <3>1. ASSUME NEW p \in Mine(c), phase'[c] \in Busy PROVE ~Covered(c, p)'
        <4>1. phase[c] \in Busy /\ ~Covered(c, p)
          BY <2>2, <3>1 DEF CountBetween
        <4>2. CASE c = d
          BY <4>1, <4>2, MineType, NotCoveredAgain
        <4>3. CASE c # d
          BY <4>1, <4>3, OthersKeep DEF Covered
        <4> QED
          BY <4>2, <4>3
      <3> QED
        BY <1>3, <2>1, <2>2, <2>4, <3>1 DEF CountBetween, Counted
    <2> QED
      BY <2>3, <2>4
  <1> QED
    BY <1>4, <1>5

LEMMA FromFailed ==
    ASSUME TypeOK, TypeOK', OpenFiles, NEW c \in Calls,
           NEW d \in Calls, Step(d) \/ Cancel(d) \/ Hang(d),
           phase[c] = "failed", CountFailed(c)
    PROVE  Counted(c)'
  <1>1. c # d
    BY DEF Step, Begin, VisitDir, SkipIrregular, Check, CheckFails, VisitFile, Visits, BeginWrite,
           Create, CopyChunk, WriteFails, Close, Chmod, Fail, Cancel, Hang, Active, Ended
  <1>2. UNCHANGED <<phase[c], files[c], root[c]>>
    BY <1>1, OthersKeep
  <1>3. Mine(c)' = Mine(c) /\ Complete(c) \subseteq Complete(c)'
    BY <1>1, <1>2, MineKept, CompleteKept
  <1>4. Cardinality(Complete(c)) <= Cardinality(Complete(c)')
    BY <1>3, MineTypeNext, FS_Subset
  <1>5. files[c] \in Nat /\ Cardinality(Complete(c)) \in Nat /\ Cardinality(Complete(c)') \in Nat
    BY MineType, MineTypeNext DEF TypeOK
  <1> QED
    BY <1>2, <1>3, <1>4, <1>5 DEF CountFailed, Counted

\* A call that has not begun has created nothing.
LEMMA FromNew ==
    ASSUME TypeOK, TypeOK', NEW c \in Calls, NEW d \in Calls, Step(d) \/ Cancel(d) \/ Hang(d),
           phase[c] = "new", \A q \in Places : <<c, q>> \notin created, files[c] = 0
    PROVE  /\ \A q \in Places : <<c, q>> \notin created'
           /\ files'[c] = 0
           /\ IsTransfer(c) => Counted(c)'
  <1>1. ~(c = d /\ Create(c))
    BY DEF Create
  <1>2. \A q \in Places : <<c, q>> \notin created'
    BY <1>1, HistoryGrows DEF Create
  <1>3. files'[c] = 0 /\ phase'[c] \notin {"copy", "chmod"}
    <2>1. CASE c # d
      BY <2>1, OthersKeep
    <2>2. CASE c = d
      BY <2>2
      DEF Step, Begin, VisitDir, SkipIrregular, Check, CheckFails, VisitFile, Visits, BeginWrite,
          Create, CopyChunk, WriteFails, Close, Chmod, Fail, Cancel, Hang, Goto, TypeOK
    <2> QED
      BY <2>1, <2>2
  <1>4. Mine(c)' = {}
    <2>1. \A q : <<c, q>> \in created' => q \in Places
      BY DEF TypeOK
    <2> QED
      BY <1>2, <2>1 DEF Mine
  <1>5. Counted(c)'
    <2>1. Cardinality(Mine(c)') = 0 /\ Cardinality(Complete(c)') \in Nat
      BY <1>4, FS_EmptySet, MineTypeNext
    <2> QED
      BY <1>3, <1>4, <2>1 DEF Counted, CountFailed, CountBetween
  <1> QED
    BY <1>2, <1>3, <1>5

LEMMA NextCount ==
    ASSUME TypeOK, TypeOK', OpenFiles, NEW c \in Calls, WalkOf(c), CopyOf(c), CountOf(c),
           NEW d \in Calls, Step(d) \/ Cancel(d) \/ Hang(d)
    PROVE  CountOf(c)'
  <1>1. IsTransfer(c)' = IsTransfer(c)
    BY HistoryGrows, ToWriteKept
  <1>2. phase'[c] = "new" => phase[c] = "new"
    <2>1. CASE c # d
      BY <2>1, OthersKeep
    <2>2. CASE c = d
      BY <2>2
      DEF Step, Begin, VisitDir, SkipIrregular, Check, CheckFails, VisitFile, Visits, BeginWrite,
          Create, CopyChunk, WriteFails, Close, Chmod, FileDone, GoOn, Fail, Cancel, Hang,
          Goto, TypeOK
    <2> QED
      BY <2>1, <2>2
  <1>3. IsTransfer(c) => Counted(c)'
    BY FromNew, FromOpen, FromBetween, FromFailed DEF CountOf
  <1>4. phase[c] = "new" => (\A q \in Places : <<c, q>> \notin created') /\ files'[c] = 0
    BY FromNew DEF CountOf
  <1> QED
    BY <1>1, <1>2, <1>3, <1>4 DEF CountOf, Counted

-----------------------------------------------------------------------------
LEMMA InitDelivery == Init => DeliveryInv
  <1> SUFFICES ASSUME Init, NEW c \in Calls
               PROVE  OpenFiles /\ WalkOf(c) /\ CopyOf(c) /\ CountOf(c)
    BY DEF DeliveryInv, OpenFiles
  <1>1. phase[c] = "new" /\ todo[c] = {} /\ created = {} /\ files[c] = 0
    BY DEF Init
  <1>2. OpenFiles
    BY DEF Init, OpenFiles, HasOpen
  <1>3. Mine(c) = {}
    BY <1>1 DEF Mine
  <1> QED
    BY <1>1, <1>2, <1>3, FS_EmptySet DEF WalkOf, CopyOf, CountOf, CountBetween, Busy

LEMMA NextDelivery == TypeOK /\ DeliveryInv /\ [Next]_vars => DeliveryInv'
  <1> SUFFICES ASSUME TypeOK, DeliveryInv, [Next]_vars
               PROVE  DeliveryInv'
    OBVIOUS
  <1>1. CASE UNCHANGED vars
    <2> USE <1>1 DEF vars, history
    <2>1. OpenFiles'
      BY DEF DeliveryInv, OpenFiles, HasOpen, Place, Target
    <2>2. ASSUME NEW c \in Calls PROVE WalkOf(c)'
      BY <2>2 DEF DeliveryInv, WalkOf, Walks, IsTree, Enters, Source
    <2>3. \A c \in Calls :
            /\ ToWrite(c)' = ToWrite(c) /\ Source(c)' = Source(c) /\ IsTransfer(c)' = IsTransfer(c)
            /\ \A p : Target(c, p)' = Target(c, p) /\ (Covered(c, p)' <=> Covered(c, p))
      BY ToWriteKept DEF Target, Covered
    <2>4. \A c \in Calls : \A p : Done(c, p)' <=> Done(c, p)
      <3> SUFFICES ASSUME NEW c \in Calls, NEW p PROVE Done(c, p)' <=> Done(c, p)
        OBVIOUS
      <3>1. Delivered(c, p)' <=> Delivered(c, p)
        BY <2>3 DEF Delivered
      <3>2. Disputed(c, p)' <=> Disputed(c, p)
        BY <2>3 DEF Disputed
      <3> QED
        BY <2>3, <3>1, <3>2 DEF Done
    <2>5. ASSUME NEW c \in Calls PROVE CopyOf(c)'
      BY <2>3, <2>4, <2>5 DEF DeliveryInv, CopyOf, InProgress, Disputed, Place
    <2>6. ASSUME NEW c \in Calls PROVE CountOf(c)'
      <3>1. Mine(c)' = Mine(c) /\ Complete(c)' = Complete(c)
        BY <2>3, <2>4, <2>6 DEF Mine, Complete
      <3> QED
        BY <2>3, <2>6, <3>1 DEF DeliveryInv, CountOf, CountOpen, CountBetween, CountFailed
    <2> QED
      BY <2>1, <2>2, <2>5, <2>6 DEF DeliveryInv
  <1>2. ASSUME NEW d \in Calls, Step(d) \/ Cancel(d) \/ Hang(d)
        PROVE  DeliveryInv'
    <2>1. TypeOK' /\ OpenFiles'
      BY <1>2, NextTyping, NextOpenFiles DEF Next, DeliveryInv
    <2>2. ASSUME NEW c \in Calls PROVE WalkOf(c)' /\ CopyOf(c)' /\ CountOf(c)'
      BY <1>2, <2>1, NextWalk, NextCopy, NextCount DEF DeliveryInv
    <2> QED
      BY <2>1, <2>2 DEF DeliveryInv
  <1> QED
    BY <1>1, <1>2 DEF Next

LEMMA Delivery == Spec => [](TypeOK /\ DeliveryInv)
  BY InitTyping, NextTyping, InitDelivery, NextDelivery, PTL DEF Spec

\* A call that reports success has delivered every regular file of its source,
\* whatever other calls and failures come between, except where another call had the
\* same file open or opened it later (scp_ops.go:142-158, 255-266, 290-295).
THEOREM SuccessComplete == Spec => []SuccessIsComplete
  <1>1. DeliveryInv => SuccessIsComplete
    BY DEF DeliveryInv, WalkOf, CopyOf, Covered, Done, SuccessIsComplete
  <1> QED
    BY <1>1, Delivery, PTL

\* The count that a failed call reports as already written (mcp_server.go:546-550)
\* is right: so many files are complete, and at most one more has been begun.
THEOREM ReportAccurate == Spec => []ReportIsAccurate
  <1>1. TypeOK /\ DeliveryInv => ReportIsAccurate
    <2> SUFFICES ASSUME TypeOK, DeliveryInv, NEW c \in Calls, IsTransfer(c)
                 PROVE  /\ files[c] <= Cardinality(Complete(c))
                        /\ Cardinality(Mine(c)) <= files[c] + 1
      <3>1. \A c \in Calls :
              Complete(c) = {p \in Mine(c) : Delivered(c, p) \/ Disputed(c, p)}
        BY DEF Complete, Mine, Done
      <3> QED
        BY <3>1 DEF ReportIsAccurate, Mine
    <2>1. Counted(c) /\ files[c] \in Nat
      BY DEF DeliveryInv, CountOf, Counted, TypeOK
    <2>2. CASE CountOpen(c)
      <3>1. Cardinality(Mine(c) \ {current[c]}) = files[c]
        BY <2>1, <2>2, OpenButOne
      <3>2. Cardinality(Mine(c) \ {current[c]}) <= Cardinality(Complete(c))
        BY <2>2, MineType, FS_Subset DEF CountOpen
      <3> QED
        BY <2>1, <2>2, <3>1, <3>2 DEF CountOpen
    <2>3. CASE CountBetween(c)
      <3>1. Cardinality(Mine(c)) <= Cardinality(Complete(c))
        BY <2>3, MineType, FS_Subset DEF CountBetween
      <3> QED
        BY <2>1, <2>3, <3>1 DEF CountBetween
    <2>4. CASE CountFailed(c)
      BY <2>4 DEF CountFailed
    <2> QED
      BY <2>1, <2>2, <2>3, <2>4 DEF Counted
  <1> QED
    BY <1>1, Delivery, PTL
=============================================================================
