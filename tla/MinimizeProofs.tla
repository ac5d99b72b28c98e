--------------------------- MODULE MinimizeProofs ---------------------------
(***************************************************************************)
(* Proofs about the minimisation engine (module Minimize), for every set  *)
(* of paths, every bootstrap seed and every set of entry kinds.           *)
(***************************************************************************)
EXTENDS Minimize, FiniteSetTheorems, SequenceTheorems, TLAPS

(***************************************************************************)
(* A stream order of the members D is a sequence over D of length         *)
(* Cardinality(D).                                                         *)
(***************************************************************************)
LEMMA OrderIsSeq ==
  ASSUME NEW D \in SUBSET Paths, NEW s \in Orders(D)
  PROVE  /\ Cardinality(D) \in Nat
         /\ s \in Seq(D)
         /\ Len(s) = Cardinality(D)
<1>1. Cardinality(D) \in Nat
  BY ConstantsAssumption, FS_Subset, FS_CardinalityType
<1>2. s \in [1 .. Cardinality(D) -> D]
  BY DEF Orders
<1>3. s \in Seq(D)
  BY <1>1, <1>2, SeqDef
<1>4. Len(s) = Cardinality(D)
  BY <1>1, <1>2, <1>3, LenProperties
<1>5. QED
  BY <1>1, <1>3, <1>4

-----------------------------------------------------------------------------
(***************************************************************************)
(* Type correctness.                                                       *)
(***************************************************************************)
LEMMA InitTypeOK == Init => TypeOK
<1> SUFFICES ASSUME Init PROVE TypeOK
  OBVIOUS
<1>1. PICK D \in SUBSET Paths : arch \in [D -> Entry] /\ order \in Orders(D)
  BY DEF Init
<1>2. Members = D
  BY <1>1 DEF Members
<1>3. Len(order) \in Nat
  BY <1>1, OrderIsSeq
<1>4. QED
  BY <1>1, <1>2, <1>3, ConstantsAssumption
  DEF Init, TypeOK, ShadowNode, Absent, File

LEMMA NextTypeOK == TypeOK /\ [Next]_vars => TypeOK'
<1> SUFFICES ASSUME TypeOK, [Next]_vars PROVE TypeOK'
  OBVIOUS
<1>1. /\ Len(order) \in Nat
      /\ order \in Seq(Members)
  BY OrderIsSeq DEF TypeOK, Members
<1>2. ASSUME i <= Len(order) PROVE order[i] \in Members /\ arch[order[i]] \in Entry
  BY <1>1, <1>2, LenProperties DEF TypeOK, Members
<1> USE DEF TypeOK, Members
<1>3. CASE ScanSymlink
  <2>1. arch[order[i]].to \in Paths \cup {Outside}
    BY <1>2, <1>3 DEF ScanSymlink, Entry
  <2>2. QED
    BY <1>1, <1>3, <2>1 DEF ScanSymlink, inputs, ShadowNode
<1>4. CASE ScanSkip
  BY <1>1, <1>4 DEF ScanSkip, inputs
<1>5. CASE ScanRegular
  <2>1. arch[order[i]].interp \in Paths \cup {NoInterp, EmptyInterp}
    BY <1>2, <1>5 DEF ScanRegular, Entry
  <2>2. QED
    BY <1>1, <1>5, <2>1 DEF ScanRegular, inputs, ShadowNode, File
<1>6. CASE EndScan
  BY <1>6 DEF EndScan, inputs
<1>7. ASSUME NEW p \in Paths, ResolveSkip(p) PROVE TypeOK'
  BY <1>7 DEF ResolveSkip, inputs
<1>8. ASSUME NEW p \in Paths, ResolveLoopError(p) PROVE TypeOK'
  BY <1>8 DEF ResolveLoopError, inputs
<1>9. ASSUME NEW p \in Paths, ResolveLink(p) PROVE TypeOK'
  <2>1. Final(p) \in Paths
    BY <1>9 DEF ResolveLink, ExistsIn, Final
  <2>2. QED
    BY <1>9, <2>1 DEF ResolveLink, inputs
<1>10. CASE EndResolve
  BY <1>1, <1>10 DEF EndResolve, inputs
<1>11. CASE RewriteMember
  BY <1>1, <1>2, <1>11 DEF RewriteMember, inputs
<1>12. CASE EndRewrite
  BY <1>12 DEF EndRewrite, inputs
<1>13. CASE UNCHANGED vars
  BY <1>13 DEF vars
<1>14. QED
  BY <1>3, <1>4, <1>5, <1>6, <1>7, <1>8, <1>9, <1>10, <1>11, <1>12, <1>13
  DEF Next

(***************************************************************************)
(* Every reachable state of shrink_image is well typed.                    *)
(***************************************************************************)
THEOREM TypeCorrect == Spec => []TypeOK
BY InitTypeOK, NextTypeOK, PTL DEF Spec

-----------------------------------------------------------------------------
(***************************************************************************)
(* The inductive invariant behind SeedTargetsRetained.  The shadow tree   *)
(* holds exactly the scanned members while scanning and the whole archive *)
(* afterwards; every seed stays in path_set; every seed that pass 2 has   *)
(* handled has its final target in path_set; and the reduced archive      *)
(* holds the kept members among those rewritten so far.                   *)
(***************************************************************************)
Scanned == {order[j] : j \in 1 .. i - 1}

Target(q) == FinalIn(ArchTree, q) \in Members /\ arch[FinalIn(ArchTree, q)].kind = "reg"

SeedsInPathSet == Seed \subseteq pathSet
ShadowScanned == pc = "scan" => shadow = TreeOf(Scanned)
ShadowFull == pc \in {"resolve", "rewrite", "done"} => shadow = ArchTree
ResolvedSoFar ==
  pc = "resolve" => \A q \in Seed \ todo : Target(q) => Final(q) \in pathSet
ResolvedAll ==
  pc \in {"rewrite", "done"} => \A q \in Seed : Target(q) => Final(q) \in pathSet
RewrittenSoFar == pc = "rewrite" => out = {x \in Scanned : Kept(x)}
RewrittenAll == pc = "done" => out = {x \in Members : Kept(x)}
NothingWritten == pc \in {"scan", "resolve"} => out = {}

IInv ==
  /\ TypeOK
  /\ SeedsInPathSet
  /\ ShadowScanned
  /\ ShadowFull
  /\ ResolvedSoFar
  /\ ResolvedAll
  /\ RewrittenSoFar
  /\ RewrittenAll
  /\ NothingWritten

\* A step that leaves the archive and the log alone leaves what they define.
LEMMA InputsFrozen ==
  ASSUME inputs' = inputs
  PROVE  /\ Members' = Members
         /\ Seed' = Seed
         /\ ArchTree' = ArchTree
         /\ \A q : Target(q)' = Target(q)
BY DEF inputs, Members, Seed, ArchTree, TreeOf, NodeOf, Target

\* Scanning member i adds it to the scanned prefix.
LEMMA ScannedStep ==
  ASSUME TypeOK, i <= Len(order), i' = i + 1, order' = order
  PROVE  Scanned' = Scanned \cup {order[i]}
<1>1. i \in Nat /\ 1 <= i
  BY OrderIsSeq DEF TypeOK, Members
<1>2. 1 .. i = (1 .. i - 1) \cup {i}
  BY <1>1
<1>3. QED
  BY <1>1, <1>2 DEF Scanned

\* Once the cursor is past the end, every member has been scanned.
LEMMA ScannedAll ==
  ASSUME TypeOK, i > Len(order)
  PROVE  Scanned = Members
<1>1. /\ Cardinality(Members) \in Nat
      /\ Len(order) = Cardinality(Members)
  BY OrderIsSeq DEF TypeOK, Members
<1>2. i = Len(order) + 1
  BY <1>1 DEF TypeOK
<1>3. order \in [1 .. Len(order) -> Members]
  BY <1>1 DEF TypeOK, Orders, Members
<1>4. \A x \in Members : \E j \in 1 .. Len(order) : order[j] = x
  BY <1>1 DEF TypeOK, Orders, Members
<1>5. QED
  BY <1>2, <1>3, <1>4 DEF Scanned

\* A seed whose chain ends at a regular member exists in the full tree.
LEMMA TargetExists ==
  ASSUME TypeOK, NEW q, Target(q)
  PROVE  ExistsIn(ArchTree, q)
<1>1. DEFINE f == FinalIn(ArchTree, q)
<1>2. f \in Members /\ arch[f].kind = "reg"
  BY DEF Target
<1>3. f \in Paths
  BY <1>2 DEF TypeOK, Members
<1>4. ArchTree[f] = File
  BY <1>2, <1>3 DEF ArchTree, TreeOf, NodeOf
<1>5. QED
  BY <1>3, <1>4 DEF ExistsIn

-----------------------------------------------------------------------------
LEMMA InitIInv == Init => IInv
<1> SUFFICES ASSUME Init PROVE IInv
  OBVIOUS
<1>1. TypeOK
  BY InitTypeOK
<1>2. Scanned = {}
  BY DEF Init, Scanned
<1>3. shadow = TreeOf(Scanned)
  BY <1>2 DEF Init, TreeOf
<1>4. QED
  BY <1>1, <1>3 DEF Init, IInv, Seed, SeedsInPathSet, ShadowScanned, ShadowFull,
     ResolvedSoFar, ResolvedAll, RewrittenSoFar, RewrittenAll, NothingWritten

\* The steps of the scan keep the shadow tree equal to the scanned prefix.
LEMMA ScanStepIInv ==
  ASSUME IInv, TypeOK', pc = "scan", i <= Len(order), i' = i + 1,
         inputs' = inputs, UNCHANGED <<pc, todo, out>>,
         pathSet \subseteq pathSet',
         shadow' = [shadow EXCEPT ![order[i]] = NodeOf(order[i])]
  PROVE  IInv'
<1>1. Scanned' = Scanned \cup {order[i]}
  BY ScannedStep DEF IInv, inputs
<1>2. order[i] \in Paths
  BY OrderIsSeq, LenProperties DEF IInv, TypeOK, Members
<1>3. Seed' = Seed
  BY InputsFrozen
<1>a. SeedsInPathSet'
  BY <1>3 DEF IInv, SeedsInPathSet
<1>b. ShadowScanned'
  <2>1. \A x : NodeOf(x)' = NodeOf(x)
    BY DEF inputs, NodeOf
  <2>2. QED
    BY <1>1, <1>2, <2>1 DEF IInv, ShadowScanned, TreeOf, TypeOK
<1>c. QED
  BY <1>a, <1>b DEF IInv, ShadowFull, ResolvedSoFar, ResolvedAll,
     RewrittenSoFar, RewrittenAll, NothingWritten

\* A step to "failed" keeps the invariant: every phase part is vacuous.
LEMMA FailStepIInv ==
  ASSUME IInv, TypeOK', pc' = "failed", inputs' = inputs,
         pathSet \subseteq pathSet'
  PROVE  IInv'
<1>1. Seed' = Seed
  BY InputsFrozen
<1>2. SeedsInPathSet'
  BY <1>1 DEF IInv, SeedsInPathSet
<1>3. QED
  BY <1>2 DEF IInv, ShadowScanned, ShadowFull,
     ResolvedSoFar, ResolvedAll, RewrittenSoFar, RewrittenAll, NothingWritten

LEMMA NextIInv == IInv /\ [Next]_vars => IInv'
<1> SUFFICES ASSUME IInv, [Next]_vars PROVE IInv'
  OBVIOUS
<1>0. TypeOK'
  BY NextTypeOK DEF IInv
<1>1. CASE ScanSymlink
  <2>1. NodeOf(order[i]) = arch[order[i]].to
    BY <1>1 DEF ScanSymlink, NodeOf
  <2>2. QED
    BY <1>0, <1>1, <2>1, ScanStepIInv DEF ScanSymlink
<1>2. CASE ScanSkip
  <2>1. NodeOf(order[i]) = Absent
    BY <1>2 DEF ScanSkip, NodeOf
  <2>2. order[i] \in Paths /\ shadow \in [Paths -> ShadowNode]
    BY <1>2, OrderIsSeq, LenProperties DEF ScanSkip, IInv, TypeOK, Members
  <2>3. shadow[order[i]] = Absent
    BY <1>2, <2>1, <2>2 DEF ScanSkip, IInv, ShadowScanned, TreeOf
  <2>4. shadow' = [shadow EXCEPT ![order[i]] = NodeOf(order[i])]
    BY <1>2, <2>1, <2>2, <2>3 DEF ScanSkip
  <2>5. QED
    BY <1>0, <1>2, <2>4, ScanStepIInv DEF ScanSkip
<1>3. CASE ScanRegular
  <2>1. CASE pc' = "failed"
    BY <1>0, <1>3, <2>1, FailStepIInv DEF ScanRegular
  <2>2. CASE pc' # "failed"
    <3>1. NodeOf(order[i]) = File
      BY <1>3 DEF ScanRegular, NodeOf
    <3>2. /\ i' = i + 1 /\ inputs' = inputs /\ UNCHANGED <<pc, todo, out>>
          /\ pathSet \subseteq pathSet'
          /\ shadow' = [shadow EXCEPT ![order[i]] = File]
      BY <1>3, <2>2 DEF ScanRegular
    <3>3. QED
      BY <1>0, <1>3, <3>1, <3>2, ScanStepIInv DEF ScanRegular
  <2>3. QED
    BY <2>1, <2>2
<1>4. CASE EndScan
  <2>1. Scanned = Members
    BY <1>4, ScannedAll DEF EndScan, IInv
  <2>2. Seed' = Seed /\ ArchTree' = ArchTree
    BY <1>4, InputsFrozen DEF EndScan
  <2>a. SeedsInPathSet'
    BY <1>4, <2>2 DEF EndScan, IInv, SeedsInPathSet
  <2>b. ShadowFull'
    BY <1>4, <2>1, <2>2 DEF EndScan, IInv, ShadowScanned, ShadowFull, ArchTree
  <2>c. ResolvedSoFar'
    BY <1>4, <2>2 DEF EndScan, IInv, SeedsInPathSet, ResolvedSoFar
  <2>d. QED
    BY <1>0, <1>4, <2>a, <2>b, <2>c DEF EndScan, IInv, ShadowScanned,
       ResolvedAll, RewrittenSoFar, RewrittenAll, NothingWritten
<1>5. ASSUME NEW p \in Paths, ResolveSkip(p) PROVE IInv'
  <2>1. Seed' = Seed /\ \A q : Target(q)' = Target(q) /\ ArchTree' = ArchTree
    BY <1>5, InputsFrozen DEF ResolveSkip
  <2>2. shadow = ArchTree
    BY <1>5 DEF ResolveSkip, IInv, ShadowFull
  <2>3. ASSUME NEW q \in Seed \ todo', Target(q) PROVE Final(q) \in pathSet
    <3>1. CASE q \in Seed \ todo
      BY <1>5, <2>3, <3>1 DEF ResolveSkip, IInv, ResolvedSoFar
    <3>2. CASE q = p
      <4>1. ExistsIn(shadow, q)
        BY <2>2, <2>3, TargetExists DEF IInv
      <4>2. Final(q) = q
        BY <1>5, <3>2, <4>1 DEF ResolveSkip
      <4>3. QED
        BY <1>5, <3>2, <4>2 DEF ResolveSkip, IInv, TypeOK
    <3>3. QED
      BY <1>5, <3>1, <3>2 DEF ResolveSkip
  <2>4. \A q : Final(q)' = Final(q)
    BY <1>5 DEF ResolveSkip, Final
  <2>a. SeedsInPathSet'
    BY <1>5, <2>1 DEF ResolveSkip, IInv, SeedsInPathSet
  <2>b. ShadowFull'
    BY <1>5, <2>1 DEF ResolveSkip, IInv, ShadowFull
  <2>c. ResolvedSoFar'
    BY <1>5, <2>1, <2>3, <2>4 DEF ResolveSkip, ResolvedSoFar
  <2>d. QED
    BY <1>0, <1>5, <2>a, <2>b, <2>c DEF ResolveSkip, IInv, ShadowScanned,
       ResolvedAll, RewrittenSoFar, RewrittenAll, NothingWritten
<1>6. ASSUME NEW p \in Paths, ResolveLoopError(p) PROVE IInv'
  BY <1>0, <1>6, FailStepIInv DEF ResolveLoopError
<1>7. ASSUME NEW p \in Paths, ResolveLink(p) PROVE IInv'
  <2>1. CASE pc' = "failed"
    BY <1>0, <1>7, <2>1, FailStepIInv DEF ResolveLink
  <2>2. CASE pc' # "failed"
    <3>1. /\ pc = "resolve" /\ pc' = "resolve"
          /\ Final(p) \in pathSet'
          /\ pathSet \subseteq pathSet'
          /\ todo' = todo \ {p}
          /\ UNCHANGED <<inputs, i, shadow, shebangs, out>>
      BY <1>7, <2>2 DEF ResolveLink
    <3>2. Seed' = Seed /\ \A q : Target(q)' = Target(q) /\ ArchTree' = ArchTree
      BY <3>1, InputsFrozen
    <3>3. \A q : Final(q)' = Final(q)
      BY <3>1 DEF Final
    <3>a. SeedsInPathSet'
      BY <3>1, <3>2 DEF IInv, SeedsInPathSet
    <3>b. ShadowFull'
      BY <3>1, <3>2 DEF IInv, ShadowFull
    <3>c. ResolvedSoFar'
      BY <3>1, <3>2, <3>3 DEF IInv, ResolvedSoFar
    <3>d. QED
      BY <1>0, <3>1, <3>a, <3>b, <3>c DEF IInv, ShadowScanned,
         ResolvedAll, RewrittenSoFar, RewrittenAll, NothingWritten
  <2>3. QED
    BY <2>1, <2>2
<1>8. CASE EndResolve
  <2>1. Seed' = Seed /\ \A q : Target(q)' = Target(q) /\ ArchTree' = ArchTree
    BY <1>8, InputsFrozen DEF EndResolve
  <2>2. \A q : Final(q)' = Final(q)
    BY <1>8 DEF EndResolve, Final
  <2>3. Scanned' = {}
    BY <1>8 DEF EndResolve, Scanned
  <2>a. SeedsInPathSet'
    BY <1>8, <2>1 DEF EndResolve, IInv, SeedsInPathSet
  <2>b. ShadowFull'
    BY <1>8, <2>1 DEF EndResolve, IInv, ShadowFull
  <2>c. ResolvedAll'
    BY <1>8, <2>1, <2>2 DEF EndResolve, IInv, ResolvedSoFar, ResolvedAll
  <2>d. RewrittenSoFar'
    BY <1>8, <2>3 DEF EndResolve, IInv, RewrittenSoFar, NothingWritten
  <2>e. QED
    BY <1>0, <1>8, <2>a, <2>b, <2>c, <2>d DEF EndResolve, IInv, ShadowScanned,
       ResolvedSoFar, RewrittenAll, NothingWritten
<1>9. CASE RewriteMember
  <2>1. Scanned' = Scanned \cup {order[i]}
    BY <1>9, ScannedStep DEF RewriteMember, inputs, IInv
  <2>2. \A x : Kept(x)' = Kept(x)
    BY <1>9 DEF RewriteMember, Kept, inputs
  <2>3. Seed' = Seed /\ \A q : Target(q)' = Target(q) /\ ArchTree' = ArchTree
    BY <1>9, InputsFrozen DEF RewriteMember
  <2>4. \A q : Final(q)' = Final(q)
    BY <1>9 DEF RewriteMember, Final
  <2>a. SeedsInPathSet'
    BY <1>9, <2>3 DEF RewriteMember, IInv, SeedsInPathSet
  <2>b. ShadowFull'
    BY <1>9, <2>3 DEF RewriteMember, IInv, ShadowFull
  <2>c. ResolvedAll'
    BY <1>9, <2>3, <2>4 DEF RewriteMember, IInv, ResolvedAll
  <2>d. RewrittenSoFar'
    BY <1>9, <2>1, <2>2 DEF RewriteMember, IInv, RewrittenSoFar
  <2>e. QED
    BY <1>0, <1>9, <2>a, <2>b, <2>c, <2>d DEF RewriteMember, IInv, ShadowScanned,
       ResolvedSoFar, RewrittenAll, NothingWritten
<1>10. CASE EndRewrite
  <2>1. Scanned = Members
    BY <1>10, ScannedAll DEF EndRewrite, IInv
  <2>2. \A x : Kept(x)' = Kept(x)
    BY <1>10 DEF EndRewrite, Kept, inputs
  <2>3. /\ Seed' = Seed /\ \A q : Target(q)' = Target(q)
        /\ Members' = Members /\ ArchTree' = ArchTree
    BY <1>10, InputsFrozen DEF EndRewrite
  <2>4. \A q : Final(q)' = Final(q)
    BY <1>10 DEF EndRewrite, Final
  <2>a. SeedsInPathSet'
    BY <1>10, <2>3 DEF EndRewrite, IInv, SeedsInPathSet
  <2>b. ShadowFull'
    BY <1>10, <2>3 DEF EndRewrite, IInv, ShadowFull
  <2>c. ResolvedAll'
    BY <1>10, <2>3, <2>4 DEF EndRewrite, IInv, ResolvedAll
  <2>d. RewrittenAll'
    BY <1>10, <2>1, <2>2, <2>3 DEF EndRewrite, IInv, RewrittenSoFar, RewrittenAll, NothingWritten
  <2>e. QED
    BY <1>0, <1>10, <2>a, <2>b, <2>c, <2>d DEF EndRewrite, IInv, ShadowScanned,
       ResolvedSoFar, RewrittenSoFar, NothingWritten
<1>11. CASE UNCHANGED vars
  <2>1. Seed' = Seed /\ \A q : Target(q)' = Target(q) /\ Members' = Members
    BY <1>11, InputsFrozen DEF vars, inputs
  <2>2. \A x : Kept(x)' = Kept(x)
    BY <1>11 DEF vars, Kept
  <2>3. Scanned' = Scanned /\ ArchTree' = ArchTree
    BY <1>11, InputsFrozen DEF vars, inputs, Scanned
  <2>4. \A q : Final(q)' = Final(q)
    BY <1>11 DEF vars, Final
  <2>a. SeedsInPathSet'
    BY <1>11, <2>1 DEF vars, IInv, SeedsInPathSet
  <2>b. ShadowScanned'
    <3>1. \A x : NodeOf(x)' = NodeOf(x)
      BY <1>11 DEF vars, NodeOf
    <3>2. QED
      BY <1>11, <2>3, <3>1 DEF vars, IInv, ShadowScanned, TreeOf
  <2>c. ShadowFull'
    BY <1>11, <2>3 DEF vars, IInv, ShadowFull
  <2>d. ResolvedSoFar'
    BY <1>11, <2>1, <2>4 DEF vars, IInv, ResolvedSoFar
  <2>e. ResolvedAll'
    BY <1>11, <2>1, <2>4 DEF vars, IInv, ResolvedAll
  <2>f. RewrittenSoFar'
    BY <1>11, <2>2, <2>3 DEF vars, IInv, RewrittenSoFar
  <2>g. RewrittenAll'
    BY <1>11, <2>1, <2>2 DEF vars, IInv, RewrittenAll
  <2>h. NothingWritten'
    BY <1>11 DEF vars, IInv, NothingWritten
  <2>5. QED
    BY <1>0, <2>a, <2>b, <2>c, <2>d, <2>e, <2>f, <2>g, <2>h DEF IInv
<1>12. QED
  BY <1>1, <1>2, <1>3, <1>4, <1>5, <1>6, <1>7, <1>8, <1>9, <1>10, <1>11
  DEF Next

LEMMA IInvImpliesSeedTargets == IInv => SeedTargetsRetained
<1> SUFFICES ASSUME IInv, pc = "done", NEW p \in Seed, Target(p)
             PROVE  FinalIn(ArchTree, p) \in out
  BY DEF SeedTargetsRetained, Target
<1>1. Final(p) \in pathSet
  BY DEF IInv, ResolvedAll
<1>2. Final(p) = FinalIn(ArchTree, p)
  BY DEF IInv, ShadowFull, Final
<1>3. QED
  BY <1>1, <1>2 DEF IInv, RewrittenAll, Target, Kept

(***************************************************************************)
(* shrink_image keeps, for every bootstrap or logged path whose symlink   *)
(* chain ends at a regular member of the exported archive, that member in *)
(* the reduced archive (pass 2, lines 429-454, and the rewrite, line 464). *)
(***************************************************************************)
THEOREM SeedTargets == Spec => []SeedTargetsRetained
<1>1. Init => IInv
  BY InitIInv
<1>2. IInv /\ [Next]_vars => IInv'
  BY NextIInv
<1>3. IInv => SeedTargetsRetained
  BY IInvImpliesSeedTargets
<1>4. QED
  BY <1>1, <1>2, <1>3, PTL DEF Spec


-----------------------------------------------------------------------------
(***************************************************************************)
(* The inductive invariant behind InterpretersRetained.  It rests on IInv *)
(* and adds what the two code paths for interpreters maintain: the dict   *)
(* shebangs mirrors the scanned regular members; the scan has added the   *)
(* interpreter of every seeded script it met (line 421); and in pass 2    *)
(* each seed that reaches a script still has the path that will bring in *)
(* the script's interpreter waiting in the snapshot, or the interpreter's *)
(* final target is already in path_set.                                   *)
(***************************************************************************)
\* The interpreter that the first line of member x names, if x is a script.
ShebangsOf(S) ==
  [x \in Paths |->
     IF x \in S /\ arch[x].kind = "reg" /\ arch[x].interp \in Paths
     THEN arch[x].interp ELSE NoInterp]

\* The script the seed p reaches in the archive, and its interpreter.
ScriptOf(p) == FinalIn(ArchTree, p)
InterpOf(p) == arch[ScriptOf(p)].interp

\* p reaches a script whose interpreter resolves to a regular member.
Scripted(p) == Target(p) /\ InterpOf(p) \in Paths /\ Target(InterpOf(p))

\* The path of the snapshot whose pass-2 step brings the interpreter in:
\* the seed itself when it is a symlink (lines 445-453), else the
\* interpreter, picked up by the scan, which pass 2 then resolves.
Pending(p) == IF ScriptOf(p) = p THEN InterpOf(p) ELSE p

ShebangsScanned == pc = "scan" => shebangs = ShebangsOf(Scanned)
ShebangsFull == pc = "resolve" => shebangs = ShebangsOf(Members)
PickedUpSoFar ==
  pc = "scan" =>
    \A x \in Scanned \cap Seed :
      arch[x].kind = "reg" /\ arch[x].interp \in Paths => arch[x].interp \in pathSet
InterpsSoFar ==
  pc = "resolve" =>
    \A p \in Seed : Scripted(p) =>
      Pending(p) \in todo \/ FinalIn(ArchTree, InterpOf(p)) \in pathSet
InterpsAll ==
  pc \in {"rewrite", "done"} =>
    \A p \in Seed : Scripted(p) => FinalIn(ArchTree, InterpOf(p)) \in pathSet

JInv ==
  /\ ShebangsScanned
  /\ ShebangsFull
  /\ PickedUpSoFar
  /\ InterpsSoFar
  /\ InterpsAll

\* A step that leaves the archive and the log alone leaves what they define.
LEMMA InterpInputsFrozen ==
  ASSUME inputs' = inputs
  PROVE  /\ \A S : ShebangsOf(S)' = ShebangsOf(S)
         /\ \A q : ScriptOf(q)' = ScriptOf(q)
         /\ \A q : InterpOf(q)' = InterpOf(q)
         /\ \A q : Scripted(q)' = Scripted(q)
         /\ \A q : Pending(q)' = Pending(q)
BY InputsFrozen DEF inputs, ShebangsOf, ScriptOf, InterpOf, Scripted, Pending

\* The interpreter field of a regular member.
LEMMA RegInterp ==
  ASSUME TypeOK, NEW x \in Members, arch[x].kind = "reg"
  PROVE  arch[x].interp \in Paths \cup {NoInterp, EmptyInterp}
BY DEF TypeOK, Entry

\* A seed that reaches a script: the script is a regular member, and its
\* interpreter, a path, resolves to a regular member.
LEMMA ScriptedFacts ==
  ASSUME TypeOK, NEW p, Scripted(p)
  PROVE  /\ ScriptOf(p) \in Members /\ ScriptOf(p) \in Paths
         /\ arch[ScriptOf(p)].kind = "reg"
         /\ InterpOf(p) \in Paths /\ InterpOf(p) # NoInterp
         /\ ExistsIn(ArchTree, p) /\ ExistsIn(ArchTree, InterpOf(p))
BY TargetExists, ConstantsAssumption
   DEF Scripted, Target, ScriptOf, InterpOf, TypeOK

LEMMA InitJInv == Init => JInv
<1> SUFFICES ASSUME Init PROVE JInv
  OBVIOUS
<1>1. Scanned = {}
  BY DEF Init, Scanned
<1>2. shebangs = ShebangsOf(Scanned)
  BY <1>1 DEF Init, ShebangsOf
<1>3. QED
  BY <1>1, <1>2 DEF Init, JInv, ShebangsScanned, ShebangsFull, PickedUpSoFar,
     InterpsSoFar, InterpsAll

(***************************************************************************)
(* A scan step records the member's interpreter in shebangs and, for a    *)
(* member already in path_set, adds the interpreter to path_set.          *)
(***************************************************************************)
LEMMA ScanStepJInv ==
  ASSUME IInv, JInv, pc = "scan", pc' = "scan", i <= Len(order), i' = i + 1,
         inputs' = inputs, pathSet \subseteq pathSet',
         shebangs' = [shebangs EXCEPT ![order[i]] =
                        ShebangsOf(Scanned \cup {order[i]})[order[i]]],
         arch[order[i]].kind = "reg" /\ arch[order[i]].interp \in Paths
           /\ order[i] \in pathSet => arch[order[i]].interp \in pathSet'
  PROVE  JInv'
<1> DEFINE x == order[i]
<1>1. Scanned' = Scanned \cup {x}
  BY ScannedStep DEF IInv, inputs
<1>2. x \in Paths /\ x \in Members
  BY OrderIsSeq, LenProperties DEF IInv, TypeOK, Members
<1>3. \A S : ShebangsOf(S)' = ShebangsOf(S)
  BY InterpInputsFrozen
<1>4. Seed' = Seed /\ arch' = arch
  BY InputsFrozen DEF inputs
<1>5. ShebangsScanned'
  <2>1. shebangs = ShebangsOf(Scanned)
    BY DEF JInv, ShebangsScanned
  <2>2. \A y \in Paths \ {x} :
          ShebangsOf(Scanned \cup {x})[y] = ShebangsOf(Scanned)[y]
    BY DEF ShebangsOf
  <2>3. shebangs' = ShebangsOf(Scanned \cup {x})
    BY <1>2, <2>1, <2>2 DEF ShebangsOf
  <2>4. ShebangsOf(Scanned)' = ShebangsOf(Scanned \cup {x})
    BY <1>1, <1>4 DEF ShebangsOf
  <2>5. QED
    BY <2>3, <2>4, Zenon DEF ShebangsScanned
<1>6. PickedUpSoFar'
  <2> SUFFICES ASSUME NEW y \in Scanned' \cap Seed',
                      arch[y].kind = "reg", arch[y].interp \in Paths
               PROVE  arch[y].interp \in pathSet'
    BY <1>4 DEF PickedUpSoFar
  <2>1. CASE y \in Scanned
    BY <1>4, <2>1 DEF JInv, PickedUpSoFar
  <2>2. CASE y = x
    BY <1>4, <2>2 DEF IInv, SeedsInPathSet
  <2>3. QED
    BY <1>1, <1>4, <2>1, <2>2
<1>7. QED
  BY <1>5, <1>6 DEF JInv, ShebangsFull, InterpsSoFar, InterpsAll

\* A step to "failed" keeps the invariant: every phase part is vacuous.
LEMMA FailStepJInv ==
  ASSUME pc' = "failed"
  PROVE  JInv'
BY DEF JInv, ShebangsScanned, ShebangsFull, PickedUpSoFar, InterpsSoFar,
   InterpsAll


LEMMA NextJInv == IInv /\ JInv /\ [Next]_vars => JInv'
<1> SUFFICES ASSUME IInv, JInv, [Next]_vars PROVE JInv'
  OBVIOUS
<1>0. /\ TypeOK /\ Seed \subseteq pathSet
      /\ pc = "resolve" => shadow = ArchTree
  BY DEF IInv, SeedsInPathSet, ShadowFull
<1> DEFINE x == order[i]
<1>1. pc = "scan" /\ i <= Len(order)
      => /\ x \in Members /\ x \in Paths
             /\ shebangs[x] = ShebangsOf(Scanned)[x]
             /\ shebangs \in [Paths -> Paths \cup {NoInterp}]
  BY <1>0, OrderIsSeq, LenProperties
  DEF TypeOK, Members, JInv, ShebangsScanned
<1>2. CASE ScanSymlink \/ ScanSkip
  <2>1. /\ pc = "scan" /\ i <= Len(order) /\ arch[x].kind # "reg"
        /\ shebangs' = shebangs
    BY <1>2 DEF ScanSymlink, ScanSkip
  <2>2. ShebangsOf(Scanned \cup {x})[x] = NoInterp /\ shebangs[x] = NoInterp
    BY <1>1, <2>1 DEF ShebangsOf
  <2>3. shebangs' = [shebangs EXCEPT ![x] = ShebangsOf(Scanned \cup {x})[x]]
    BY <1>1, <2>1, <2>2
  <2>4. /\ pc' = "scan" /\ i' = i + 1 /\ inputs' = inputs
        /\ pathSet \subseteq pathSet'
    BY <1>2 DEF ScanSymlink, ScanSkip
  <2>5. arch[x].kind = "reg" /\ arch[x].interp \in Paths /\ x \in pathSet
          => arch[x].interp \in pathSet'
    BY <2>1
  <2>6. QED
    BY <2>1, <2>3, <2>4, <2>5, ScanStepJInv, Zenon
<1>3. CASE ScanRegular
  <2>1. CASE pc' = "failed"
    BY <2>1, FailStepJInv
  <2>2. CASE pc' # "failed"
    <3>1. /\ pc = "scan" /\ pc' = "scan" /\ i <= Len(order) /\ i' = i + 1
          /\ arch[x].kind = "reg" /\ arch[x].interp # EmptyInterp
          /\ inputs' = inputs
          /\ shebangs' = IF arch[x].interp = NoInterp THEN shebangs
                         ELSE [shebangs EXCEPT ![x] = arch[x].interp]
          /\ pathSet' = IF arch[x].interp # NoInterp /\ x \in pathSet
                        THEN pathSet \cup {arch[x].interp} ELSE pathSet
      BY <1>3, <2>2 DEF ScanRegular
    <3>2. arch[x].interp \in Paths \cup {NoInterp}
      BY <1>0, <1>1, <3>1, RegInterp
    <3>3. shebangs' = [shebangs EXCEPT ![x] = ShebangsOf(Scanned \cup {x})[x]]
      <4>1. CASE arch[x].interp = NoInterp
        <5>1. ShebangsOf(Scanned \cup {x})[x] = NoInterp /\ shebangs[x] = NoInterp
          BY <1>1, <3>1, <4>1, ConstantsAssumption DEF ShebangsOf
        <5>2. shebangs \in [Paths -> Paths \cup {NoInterp}] /\ x \in Paths
          BY <1>1, <3>1
        <5>3. [shebangs EXCEPT ![x] = NoInterp] = shebangs
          BY <5>1, <5>2
        <5>4. QED
          BY <3>1, <4>1, <5>1, <5>3
      <4>2. CASE arch[x].interp \in Paths
        <5>1. x \in Paths /\ x \in Scanned \cup {x}
          BY <1>1, <3>1
        <5>2. ShebangsOf(Scanned \cup {x})[x] = arch[x].interp
          BY <3>1, <4>2, <5>1 DEF ShebangsOf
        <5>3. arch[x].interp # NoInterp
          BY <4>2, ConstantsAssumption
        <5>4. shebangs' = [shebangs EXCEPT ![x] = arch[x].interp]
          BY <3>1, <5>3
        <5>5. QED
          BY <5>2, <5>4, Zenon
      <4>3. QED
        BY <3>2, <4>1, <4>2
    <3>4. arch[x].interp \in Paths /\ x \in pathSet
            => arch[x].interp \in pathSet'
      BY <3>1, ConstantsAssumption
    <3>5. arch[x].kind = "reg" /\ arch[x].interp \in Paths /\ x \in pathSet
            => arch[x].interp \in pathSet'
      BY <3>4
    <3>6. pathSet \subseteq pathSet'
      BY <3>1
    <3>7. QED
      BY <3>1, <3>3, <3>5, <3>6, ScanStepJInv, Zenon
  <2>3. QED
    BY <2>1, <2>2
<1>4. CASE EndScan
  <2>1. Scanned = Members
    BY <1>4, ScannedAll DEF EndScan, IInv
  <2>2. /\ pc' = "resolve" /\ todo' = pathSet /\ shebangs' = shebangs
        /\ pathSet' = pathSet /\ inputs' = inputs
    BY <1>4 DEF EndScan
  <2>3. /\ Seed' = Seed /\ ArchTree' = ArchTree /\ Members' = Members
        /\ \A r : Scripted(r)' = Scripted(r) /\ Pending(r)' = Pending(r)
    BY <2>2, InputsFrozen, InterpInputsFrozen
  <2>4. ShebangsFull'
    <3>1. shebangs = ShebangsOf(Members)
      BY <1>4, <2>1 DEF EndScan, JInv, ShebangsScanned
    <3>2. ShebangsOf(Members)' = ShebangsOf(Members)
      BY <2>2 DEF inputs, ShebangsOf, Members
    <3>3. QED
      BY <2>2, <3>1, <3>2 DEF ShebangsFull
  <2>5. InterpsSoFar'
    <3> SUFFICES ASSUME NEW p \in Seed, Scripted(p) PROVE Pending(p) \in pathSet
      BY <2>2, <2>3 DEF InterpsSoFar
    <3>1. CASE ScriptOf(p) = p
      <4>1. p \in Members /\ arch[p].kind = "reg" /\ arch[p].interp \in Paths
        BY <1>0, <3>1, ScriptedFacts DEF InterpOf
      <4>2. arch[p].interp \in pathSet
        BY <1>4, <2>1, <4>1 DEF EndScan, JInv, PickedUpSoFar
      <4>3. QED
        BY <3>1, <4>2 DEF Pending, InterpOf
    <3>2. CASE ScriptOf(p) # p
      BY <1>0, <3>2 DEF Pending
    <3>3. QED
      BY <3>1, <3>2
  <2>6. QED
    BY <2>2, <2>4, <2>5 DEF JInv, ShebangsScanned, PickedUpSoFar, InterpsAll
<1>5. ASSUME NEW q \in Paths, ResolveSkip(q) PROVE JInv'
  <2>1. /\ pc = "resolve" /\ pc' = "resolve" /\ todo' = todo \ {q}
        /\ q \in todo /\ (~ExistsIn(shadow, q) \/ Final(q) = q)
        /\ UNCHANGED <<inputs, pathSet, shebangs>>
    BY <1>5 DEF ResolveSkip
  <2>2. \A r : Scripted(r)' = Scripted(r) /\ Pending(r)' = Pending(r)
        /\ InterpOf(r)' = InterpOf(r)
    BY <2>1, InterpInputsFrozen
  <2>3. Seed' = Seed /\ ArchTree' = ArchTree /\ Members' = Members
    BY <2>1, InputsFrozen
  <2>4. InterpsSoFar'
    <3> SUFFICES ASSUME NEW p \in Seed, Scripted(p)
                 PROVE  Pending(p) \in todo' \/ FinalIn(ArchTree, InterpOf(p)) \in pathSet
      BY <2>1, <2>2, <2>3 DEF InterpsSoFar
    <3>1. Pending(p) \in todo \/ FinalIn(ArchTree, InterpOf(p)) \in pathSet
      BY <2>1 DEF JInv, InterpsSoFar
    <3>2. CASE Pending(p) # q
      BY <2>1, <3>1, <3>2
    <3>3. CASE Pending(p) = q /\ ScriptOf(p) # p
      <4>1. q = p /\ ExistsIn(shadow, p)
        BY <1>0, <2>1, <3>3, ScriptedFacts DEF Pending
      <4>2. Final(p) # p
        BY <1>0, <2>1, <3>3 DEF ScriptOf, Final
      <4>3. QED
        BY <2>1, <4>1, <4>2
    <3>4. CASE Pending(p) = q /\ ScriptOf(p) = p
      <4>1. q = InterpOf(p) /\ ExistsIn(shadow, q)
        BY <1>0, <2>1, <3>4, ScriptedFacts DEF Pending
      <4>2. FinalIn(ArchTree, q) = q
        BY <1>0, <2>1, <4>1 DEF Final
      <4>3. q \in pathSet
        BY <1>0, <2>1 DEF TypeOK
      <4>4. QED
        BY <4>1, <4>2, <4>3
    <3>5. QED
      BY <3>2, <3>3, <3>4
  <2>5. ShebangsFull'
    <3>1. ShebangsOf(Members)' = ShebangsOf(Members)
      BY <2>1, <2>3, InterpInputsFrozen
    <3>2. QED
      BY <2>1, <3>1 DEF JInv, ShebangsFull
  <2>6. QED
    BY <2>1, <2>4, <2>5 DEF JInv, ShebangsScanned, PickedUpSoFar, InterpsAll
<1>6. ASSUME NEW q \in Paths, ResolveLoopError(q) PROVE JInv'
  BY <1>6, FailStepJInv DEF ResolveLoopError

<1>7. ASSUME NEW q \in Paths, ResolveLink(q) PROVE JInv'
  <2>1. CASE pc' = "failed"
    BY <2>1, FailStepJInv
  <2>2. CASE pc' # "failed"
    <3>1. /\ pc = "resolve" /\ pc' = "resolve" /\ todo' = todo \ {q}
          /\ ExistsIn(shadow, q) /\ Final(q) # q
          /\ UNCHANGED <<inputs, shebangs>>
          /\ pathSet \subseteq pathSet' /\ Final(q) \in pathSet'
          /\ shebangs[Final(q)] # NoInterp
               => Final(shebangs[Final(q)]) \in pathSet'
      BY <1>7, <2>2 DEF ResolveLink
    <3>2. \A r : Scripted(r)' = Scripted(r) /\ Pending(r)' = Pending(r)
          /\ InterpOf(r)' = InterpOf(r)
      BY <3>1, InterpInputsFrozen
    <3>3. Seed' = Seed /\ ArchTree' = ArchTree /\ Members' = Members
      BY <3>1, InputsFrozen
    <3>4. InterpsSoFar'
      <4> SUFFICES ASSUME NEW p \in Seed, Scripted(p)
                   PROVE  Pending(p) \in todo' \/ FinalIn(ArchTree, InterpOf(p)) \in pathSet'
        BY <3>1, <3>2, <3>3 DEF InterpsSoFar
      <4>1. Pending(p) \in todo \/ FinalIn(ArchTree, InterpOf(p)) \in pathSet
        BY <3>1 DEF JInv, InterpsSoFar
      <4>2. CASE Pending(p) # q
        BY <3>1, <4>1, <4>2
      <4>3. CASE Pending(p) = q /\ ScriptOf(p) # p
        <5>1. q = p /\ Final(p) = ScriptOf(p)
          BY <1>0, <3>1, <4>3 DEF Pending, Final, ScriptOf
        <5>2. shebangs = ShebangsOf(Members)
          BY <3>1 DEF JInv, ShebangsFull
        <5>3. shebangs[ScriptOf(p)] = InterpOf(p) /\ InterpOf(p) # NoInterp
          BY <1>0, <5>2, ScriptedFacts DEF ShebangsOf, InterpOf
        <5>4. Final(InterpOf(p)) = FinalIn(ArchTree, InterpOf(p))
          BY <1>0, <3>1 DEF Final
        <5>5. QED
          BY <3>1, <5>1, <5>3, <5>4
      <4>4. CASE Pending(p) = q /\ ScriptOf(p) = p
        <5>1. q = InterpOf(p) /\ Final(q) = FinalIn(ArchTree, q)
          BY <1>0, <3>1, <4>4 DEF Pending, Final
        <5>2. QED
          BY <3>1, <5>1
      <4>5. QED
        BY <4>2, <4>3, <4>4
    <3>5. ShebangsFull'
      BY <3>1, <3>3 DEF JInv, ShebangsFull, ShebangsOf, inputs
    <3>6. QED
      BY <3>1, <3>4, <3>5 DEF JInv, ShebangsScanned, PickedUpSoFar, InterpsAll
  <2>3. QED
    BY <2>1, <2>2
<1>8. CASE EndResolve
  <2>1. /\ pc = "resolve" /\ todo = {} /\ pc' = "rewrite"
        /\ UNCHANGED <<inputs, pathSet>>
    BY <1>8 DEF EndResolve
  <2>2. \A r : Scripted(r)' = Scripted(r) /\ InterpOf(r)' = InterpOf(r)
    BY <2>1, InterpInputsFrozen
  <2>3. Seed' = Seed /\ ArchTree' = ArchTree
    BY <2>1, InputsFrozen
  <2>4. InterpsAll'
    BY <2>1, <2>2, <2>3 DEF JInv, InterpsSoFar, InterpsAll
  <2>5. QED
    BY <2>1, <2>4 DEF JInv, ShebangsScanned, ShebangsFull, PickedUpSoFar,
       InterpsSoFar
<1>9. CASE RewriteMember \/ EndRewrite \/ UNCHANGED vars
  <2>1. /\ pc' = pc \/ (pc = "rewrite" /\ pc' = "done")
        /\ pc \in {"scan", "resolve"} => Scanned' = Scanned
        /\ UNCHANGED <<inputs, pathSet, shebangs, todo>>
    <3>1. CASE RewriteMember
      BY <3>1 DEF RewriteMember
    <3>2. CASE EndRewrite
      BY <3>2 DEF EndRewrite
    <3>3. CASE UNCHANGED vars
      BY <3>3 DEF vars, inputs, Scanned
    <3>4. QED
      BY <1>9, <3>1, <3>2, <3>3
  <2>2. \A r : Scripted(r)' = Scripted(r) /\ Pending(r)' = Pending(r)
               /\ InterpOf(r)' = InterpOf(r)
    BY <2>1, InterpInputsFrozen
  <2>3. Seed' = Seed /\ ArchTree' = ArchTree /\ Members' = Members
    BY <2>1, InputsFrozen
  <2>4. ShebangsScanned'
    <3>1. SUFFICES ASSUME pc' = "scan" PROVE shebangs' = ShebangsOf(Scanned)'
      BY DEF ShebangsScanned
    <3>2. pc = "scan" /\ Scanned' = Scanned
      BY <2>1, <3>1
    <3>3. ShebangsOf(Scanned)' = ShebangsOf(Scanned)
      BY <2>1, <3>2 DEF ShebangsOf, inputs
    <3>4. QED
      BY <2>1, <3>2, <3>3 DEF JInv, ShebangsScanned
  <2>5. ShebangsFull'
    <3>1. SUFFICES ASSUME pc' = "resolve" PROVE shebangs' = ShebangsOf(Members)'
      BY DEF ShebangsFull
    <3>2. ShebangsOf(Members)' = ShebangsOf(Members)
      BY <2>1, <2>3 DEF ShebangsOf, inputs
    <3>3. QED
      BY <2>1, <3>1, <3>2 DEF JInv, ShebangsFull
  <2>6. PickedUpSoFar'
    <3>1. SUFFICES ASSUME pc' = "scan"
                   PROVE  \A y \in Scanned' \cap Seed' :
                            arch'[y].kind = "reg" /\ arch'[y].interp \in Paths
                              => arch'[y].interp \in pathSet'
      BY DEF PickedUpSoFar
    <3>2. pc = "scan" /\ Scanned' = Scanned /\ arch' = arch
      BY <2>1, <3>1 DEF inputs
    <3>3. QED
      BY <2>1, <2>3, <3>2 DEF JInv, PickedUpSoFar
  <2>7. InterpsSoFar' /\ InterpsAll'
    BY <2>1, <2>2, <2>3 DEF JInv, InterpsSoFar, InterpsAll
  <2>8. QED
    BY <2>4, <2>5, <2>6, <2>7 DEF JInv
<1>10. QED
  BY <1>2, <1>3, <1>4, <1>5, <1>6, <1>7, <1>8, <1>9 DEF Next

LEMMA IInvJInvImpliesInterpreters == IInv /\ JInv => InterpretersRetained
<1> SUFFICES ASSUME IInv, JInv, pc = "done", NEW p \in Seed,
                    Scripted(p)
             PROVE  FinalIn(ArchTree, InterpOf(p)) \in out
  BY DEF InterpretersRetained, Scripted, Target, ScriptOf, InterpOf
<1>1. FinalIn(ArchTree, InterpOf(p)) \in pathSet
  BY DEF JInv, InterpsAll
<1>2. FinalIn(ArchTree, InterpOf(p)) \in Members
  BY DEF Scripted, Target
<1>3. QED
  BY <1>1, <1>2 DEF IInv, RewrittenAll, Kept

(***************************************************************************)
(* shrink_image keeps, for every bootstrap or logged path whose symlink   *)
(* chain ends at a script whose "#!" interpreter resolves in the archive  *)
(* to a regular member, that member in the reduced archive: the pick-up   *)
(* of line 421 and the interpreter branch of pass 2 (lines 445-453)       *)
(* between them cover a script reached directly and one reached through   *)
(* symlinks.                                                               *)
(***************************************************************************)
THEOREM Interpreters == Spec => []InterpretersRetained
<1>1. Init => IInv /\ JInv
  BY InitIInv, InitJInv
<1>2. IInv /\ JInv /\ [Next]_vars => IInv' /\ JInv'
  BY NextIInv, NextJInv
<1>3. IInv /\ JInv => InterpretersRetained
  BY IInvJInvImpliesInterpreters
<1>4. QED
  BY <1>1, <1>2, <1>3, PTL DEF Spec
=============================================================================
