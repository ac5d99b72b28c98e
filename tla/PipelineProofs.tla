--------------------------- MODULE PipelineProofs ---------------------------
(***************************************************************************)
(* Proofs about the pipeline around images.json (module Pipeline), for    *)
(* every finite set of images and every bound on the invocations.         *)
(***************************************************************************)
EXTENDS Pipeline, FiniteSetTheorems, SequenceTheorems, TLAPS

\* The states in which write_images is under way.
Writing == {"truncate", "dump"}

(***************************************************************************)
(* The image order of images.json is a sequence with one entry per image. *)
(***************************************************************************)
LEMMA OrderIsSeq ==
  ASSUME NEW s \in [1 .. Cardinality(Images) -> Images]
  PROVE  /\ Cardinality(Images) \in Nat
         /\ s \in Seq(Images)
         /\ Len(s) = Cardinality(Images)
<1>1. Cardinality(Images) \in Nat
  BY PipelineAssumption, FS_CardinalityType
<1>2. s \in Seq(Images)
  BY <1>1, SeqDef
<1>3. QED
  BY <1>1, <1>2, LenProperties

(***************************************************************************)
(* The loop's current image is an image while the loop index is in range. *)
(***************************************************************************)
LEMMA CurIsImage ==
  ASSUME TypeOK, j <= Len(order)
  PROVE  Cur \in Images
BY OrderIsSeq DEF TypeOK, Cur

-----------------------------------------------------------------------------
(***************************************************************************)
(* Type correctness.                                                       *)
(***************************************************************************)
(***************************************************************************)
(* TypeOK is not inductive by itself: Dump advances the loop index, which *)
(* stays in range because a write starts only for an image of the list.   *)
(***************************************************************************)
TInv ==
  /\ TypeOK
  /\ pc \in Writing => j <= Len(order)

LEMMA InitTInv == Init => TInv
<1> SUFFICES ASSUME Init PROVE TInv
  OBVIOUS
<1>1. /\ order \in [1 .. Cardinality(Images) -> Images]
      /\ file \in [Images -> Rec] /\ mem = file
      /\ torn = FALSE /\ tool = "none" /\ pc = "loop" /\ j = 1
      /\ runs = 0 /\ pinned = FALSE
      /\ verified = {m \in Images : file[m].done}
      /\ completed = {m \in Images : file[m].done}
  BY DEF Init
<1>2. Len(order) \in Nat
  BY <1>1, OrderIsSeq
<1>3. j \in 1 .. Len(order) + 1 /\ runs \in 0 .. MaxRuns
  BY <1>1, <1>2, PipelineAssumption
<1>4. QED
  BY <1>1, <1>3, Zenon DEF TInv, TypeOK, Writing

(***************************************************************************)
(* TypeOK without the conjunct about order, which no action changes.      *)
(***************************************************************************)
TypeRest ==
  /\ file \in [Images -> Rec]
  /\ torn \in BOOLEAN
  /\ tool \in {"none", "pin", "shrink"}
  /\ mem \in [Images -> Rec]
  /\ pc \in {"loop", "truncate", "dump"}
  /\ j \in 1 .. Len(order) + 1
  /\ runs \in 0 .. MaxRuns
  /\ verified \subseteq Images /\ completed \subseteq Images
  /\ pinned \in BOOLEAN

LEMMA OrderFrozen == [Next]_vars => order' = order
  BY DEF Next, vars, Start, PinImage, EndPin, SkipImage, AnalyzeImage,
         EndShrink, Truncate, Dump, Crash

LEMMA NextTInv == TInv /\ [Next]_vars => TInv'
<1> SUFFICES ASSUME TInv, [Next]_vars PROVE TInv'
  OBVIOUS
<1>0. order \in [1 .. Cardinality(Images) -> Images]
  BY DEF TInv, TypeOK
<1>1. /\ Len(order) \in Nat
      /\ TypeRest
      /\ pc \in Writing => j <= Len(order)
  BY <1>0, OrderIsSeq DEF TInv, TypeOK, TypeRest
<1>2. order' = order
  BY OrderFrozen
<1>3. TypeRest' /\ (pc' \in Writing => j' <= Len(order'))
  <2> USE <1>1, <1>2, PipelineAssumption DEF TypeRest, Writing
  <2>1. ASSUME NEW t \in {"pin", "shrink"}, Start(t) PROVE TypeRest' /\ (pc' \in Writing => j' <= Len(order'))
    BY <2>1 DEF Start
  <2>2. CASE PinImage
    <3>1. Cur \in Images
      BY <2>2, CurIsImage DEF PinImage, TInv
    <3>2. mem' \in [Images -> Rec]
      BY <2>2, <3>1 DEF PinImage, Rec
    <3>3. j' \in 1 .. Len(order) + 1
      BY <2>2 DEF PinImage
    <3>4. QED
      BY <2>2, <3>2, <3>3, Zenon DEF PinImage
  <2>3. CASE EndPin
    BY <2>3 DEF EndPin
  <2>4. CASE SkipImage
    BY <2>4 DEF SkipImage
  <2>5. CASE AnalyzeImage
    <3>1. Cur \in Images
      BY <2>5, CurIsImage DEF AnalyzeImage, TInv
    <3>2. QED
      BY <2>5, <3>1 DEF AnalyzeImage, Rec
  <2>6. CASE EndShrink
    BY <2>6 DEF EndShrink
  <2>7. CASE Truncate
    BY <2>7 DEF Truncate
  <2>8. CASE Dump
    <3>1. j' \in 1 .. Len(order) + 1
      BY <2>8 DEF Dump
    <3>2. QED
      BY <2>8, <3>1, Zenon DEF Dump
  <2>9. CASE Crash
    BY <2>9 DEF Crash
  <2>10. CASE UNCHANGED vars
    BY <2>10 DEF vars
  <2>11. QED
    BY <2>1, <2>2, <2>3, <2>4, <2>5, <2>6, <2>7, <2>8, <2>9, <2>10 DEF Next
<1>4. QED
  BY <1>0, <1>1, <1>2, <1>3, Zenon DEF TInv, TypeOK, TypeRest

(***************************************************************************)
(* Every reachable state of the two tools and images.json is well typed.  *)
(***************************************************************************)
THEOREM TypeCorrect == Spec => []TypeOK
<1>1. Spec => []TInv
  BY InitTInv, NextTInv, PTL DEF Spec
<1>2. QED
  BY <1>1, PTL DEF TInv
-----------------------------------------------------------------------------
(***************************************************************************)
(* The inductive invariant.  VerifiedBeforeDone alone is not inductive:   *)
(* Dump copies the in-memory list to the file, so the in-memory list must *)
(* carry only verified markers too; and for the refinement and for        *)
(* NeverRedone the in-memory list of a running tool must agree with the   *)
(* file on every marker except the one being written.                     *)
(***************************************************************************)
DoneVerified == \A m \in Images : file[m].done => m \in verified

MemVerified == \A m \in Images : mem[m].done => m \in verified

MemSynced ==
  tool # "none" =>
    \A m \in Images :
      /\ file[m].done => mem[m].done
      /\ mem[m].done => file[m].done \/ (pc \in Writing /\ m = Cur)

CompletedOnFile == completed = {m \in Images : file[m].done}

IInv == TInv /\ DoneVerified /\ MemVerified /\ MemSynced /\ CompletedOnFile

LEMMA InitIInv == Init => IInv
<1> SUFFICES ASSUME Init PROVE IInv
  OBVIOUS
<1>1. TInv
  BY InitTInv
<1>2. QED
  BY <1>1 DEF Init, IInv, DoneVerified, MemVerified, MemSynced, CompletedOnFile

LEMMA NextIInv == IInv /\ [Next]_vars => IInv'
<1> SUFFICES ASSUME IInv, [Next]_vars PROVE IInv'
  OBVIOUS
<1>1. TInv'
  BY NextTInv DEF IInv
<1>2. /\ mem \in [Images -> Rec] /\ file \in [Images -> Rec]
      /\ pc \in Writing => j <= Len(order)
  BY DEF IInv, TInv, TypeOK
<1> USE <1>2 DEF IInv
<1> SUFFICES (DoneVerified /\ MemVerified /\ MemSynced /\ CompletedOnFile)'
  BY <1>1
<1>3. ASSUME NEW t \in {"pin", "shrink"}, Start(t)
      PROVE  (DoneVerified /\ MemVerified /\ MemSynced /\ CompletedOnFile)'
  BY <1>3 DEF Start, DoneVerified, MemVerified, MemSynced, CompletedOnFile
<1>4. CASE PinImage
  <2>1. Cur \in Images
    BY <1>4, CurIsImage DEF PinImage, TInv
  <2>2. \A m \in Images : mem'[m].done = mem[m].done
    BY <1>4, <2>1 DEF PinImage, Rec
  <2>3. Cur' = Cur \/ (pc' = "loop" /\ pc = "loop")
    BY <1>4 DEF PinImage, Cur
  <2>4. QED
    BY <1>4, <2>2, <2>3 DEF PinImage, DoneVerified, MemVerified, MemSynced, CompletedOnFile, Writing
<1>5. CASE EndPin
  BY <1>5 DEF EndPin, DoneVerified, MemVerified, MemSynced, CompletedOnFile
<1>6. CASE SkipImage
  BY <1>6 DEF SkipImage, DoneVerified, MemVerified, MemSynced, CompletedOnFile, Writing
<1>7. CASE AnalyzeImage
  <2>1. Cur \in Images
    BY <1>7, CurIsImage DEF AnalyzeImage, TInv
  <2>2. Cur' = Cur
    BY <1>7 DEF AnalyzeImage, Cur
  <2>3. CASE tool' = "none"
    BY <1>7, <2>3 DEF AnalyzeImage, DoneVerified, MemVerified, MemSynced, CompletedOnFile
  <2>4. CASE tool' # "none"
    <3>1. /\ mem' = [mem EXCEPT ![Cur].done = TRUE]
          /\ verified' = verified \cup {Cur}
          /\ pc' = "truncate"
          /\ UNCHANGED <<file, completed, tool>>
      BY <1>7, <2>4 DEF AnalyzeImage
    <3>2. \A m \in Images : mem'[m].done = (m = Cur \/ mem[m].done)
      BY <2>1, <3>1 DEF Rec
    <3>3. QED
      BY <2>1, <2>2, <3>1, <3>2 DEF DoneVerified, MemVerified, MemSynced, CompletedOnFile, Writing
  <2>5. QED
    BY <2>3, <2>4
<1>8. CASE EndShrink
  BY <1>8 DEF EndShrink, DoneVerified, MemVerified, MemSynced, CompletedOnFile
<1>9. CASE Truncate
  <2>1. Cur' = Cur
    BY <1>9 DEF Truncate, Cur
  <2>2. QED
    BY <1>9, <2>1 DEF Truncate, DoneVerified, MemVerified, MemSynced, CompletedOnFile, Writing
<1>10. CASE Dump
  BY <1>10 DEF Dump, DoneVerified, MemVerified, MemSynced, CompletedOnFile
<1>11. CASE Crash
  BY <1>11 DEF Crash, DoneVerified, MemVerified, MemSynced, CompletedOnFile
<1>12. CASE UNCHANGED vars
  BY <1>12 DEF vars, DoneVerified, MemVerified, MemSynced, CompletedOnFile, Cur
<1>13. QED
  BY <1>3, <1>4, <1>5, <1>6, <1>7, <1>8, <1>9, <1>10, <1>11, <1>12 DEF Next

(***************************************************************************)
(* images.json marks an image complete only after a verification run of   *)
(* its minimised image has passed (analyze_image, lines 498-505).         *)
(***************************************************************************)
THEOREM VerifiedFirst == Spec => []VerifiedBeforeDone
<1>1. IInv => VerifiedBeforeDone
  BY DEF IInv, DoneVerified, VerifiedBeforeDone
<1>2. QED
  BY <1>1, InitIInv, NextIInv, PTL DEF Spec
(***************************************************************************)
(* No invocation of either tool analyses an image whose completion marker *)
(* has reached images.json (the skip test of line 527 sees it, because a  *)
(* tool's list agrees with the file on every marker).                     *)
(***************************************************************************)
THEOREM NoRedo == Spec => NeverRedone
<1>1. IInv /\ AnalyzeImage => Cur \notin completed
  <2> SUFFICES ASSUME IInv, AnalyzeImage PROVE Cur \notin completed
    OBVIOUS
  <2>1. Cur \in Images /\ ~mem[Cur].done /\ tool # "none" /\ pc \notin Writing
    BY CurIsImage DEF AnalyzeImage, Processed, IInv, TInv, Writing
  <2>2. ~file[Cur].done
    BY <2>1 DEF IInv, MemSynced
  <2>3. QED
    BY <2>1, <2>2 DEF IInv, CompletedOnFile
<1>2. IInv => [AnalyzeImage => Cur \notin completed]_vars
  BY <1>1
<1>3. QED
  BY <1>2, InitIInv, NextIInv, PTL DEF Spec, NeverRedone

=============================================================================
