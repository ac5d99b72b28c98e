-------------------------- MODULE ControllerProofs --------------------------
(***************************************************************************)
(* Proofs about one call of run_container_instrumented (module            *)
(* Controller), for every set of sidecar names, every bound on the        *)
(* sidecars and every number of envs and test ports.                      *)
(***************************************************************************)
EXTENDS Controller, SequenceTheorems, TLAPS

USE ControllerAssumption

\* The image's declared sidecars as a sequence.
LEMMA SidecarsIsSeq ==
  ASSUME NEW s \in UNION {Injection(1 .. n, SidecarNames) : n \in 0 .. MaxSidecars}
  PROVE  /\ s \in Seq(SidecarNames)
         /\ Len(s) \in Nat
<1>1. PICK n \in 0 .. MaxSidecars : s \in Injection(1 .. n, SidecarNames)
  OBVIOUS
<1>2. s \in [1 .. n -> SidecarNames] /\ n \in Nat
  BY <1>1 DEF Injection
<1>3. QED
  BY <1>2, SeqDef, LenProperties

\* No step changes the image the call was made for.
LEMMA InputsFrozen == [Next]_vars => UNCHANGED inputs
  BY DEF Next, Call, Environment, vars, inputs, StartSidecar, SidecarFails,
         SubstituteEnvs, StartParent, ParentFails, ProbePort, EndProbe, Body,
         ExitParent, UnwindSidecar, Leave, Listen, ContainerExits

-----------------------------------------------------------------------------
(***************************************************************************)
(* Type correctness.                                                       *)
(***************************************************************************)
\* TypeOK without the conjuncts about the image, which no step changes.
TypeRest ==
  /\ pc \in PCs
  /\ k \in 1 .. Len(sidecars) + 1
  /\ stack \in Seq(SidecarNames)
  /\ entered \subseteq Names
  /\ ctr \in [Names -> CState]
  /\ portOpen \in BOOLEAN
  /\ env \in [1 .. NEnvs -> SUBSET SidecarNames]
  /\ port \in 1 .. NPorts + 1
  /\ exc \in BOOLEAN

LEMMA InitType == Init => TypeOK
<1> SUFFICES ASSUME Init PROVE TypeOK
  OBVIOUS
<1>1. Len(sidecars) \in Nat
  BY SidecarsIsSeq DEF Init
<1>2. /\ envs \in [1 .. NEnvs -> SUBSET SidecarNames]
      /\ digested \subseteq SidecarNames
  BY DEF Init
<1>3. TypeRest
  <2>1. stack \in Seq(SidecarNames)
    BY EmptySeq DEF Init
  <2>2. ctr \in [Names -> CState]
    BY DEF Init, CState
  <2>3. k \in 1 .. Len(sidecars) + 1 /\ port \in 1 .. NPorts + 1
    BY <1>1 DEF Init
  <2>4. QED
    BY <1>2, <2>1, <2>2, <2>3, Zenon DEF Init, TypeRest, PCs
<1>4. QED
  BY <1>2, <1>3, Zenon DEF Init, TypeOK, TypeRest

LEMMA NextType == TypeOK /\ [Next]_vars => TypeOK'
<1> SUFFICES ASSUME TypeOK, [Next]_vars PROVE TypeOK'
  OBVIOUS
<1>1. sidecars \in Seq(SidecarNames) /\ Len(sidecars) \in Nat
  BY SidecarsIsSeq DEF TypeOK
<1>2. UNCHANGED inputs
  BY InputsFrozen
<1>0. /\ TypeRest
      /\ envs \in [1 .. NEnvs -> SUBSET SidecarNames]
  BY DEF TypeOK, TypeRest
<1>3. TypeRest'
  <2> USE <1>0 DEF TypeRest
  <2>1. CASE StartSidecar
    <3>1. sidecars[k] \in SidecarNames /\ k + 1 \in 1 .. Len(sidecars) + 1
      BY <1>1, <2>1 DEF StartSidecar
    <3>2. stack' \in Seq(SidecarNames)
      BY <2>1, <3>1, AppendProperties DEF StartSidecar
    <3>3. ctr' \in [Names -> CState] /\ entered' \subseteq Names
      BY <2>1, <3>1 DEF StartSidecar, Names, CState
    <3>4. QED
      BY <1>2, <2>1, <3>1, <3>2, <3>3, Zenon DEF StartSidecar, inputs
  <2>2. CASE SidecarFails
    <3>1. sidecars[k] \in SidecarNames
      BY <1>1, <2>2 DEF SidecarFails
    <3>2. ctr' \in [Names -> CState]
      BY <2>2, <3>1 DEF SidecarFails, Names, CState, FailedRun
    <3>3. QED
      BY <1>2, <2>2, <3>2, Zenon DEF SidecarFails, inputs, PCs
  <2>3. CASE SubstituteEnvs
    <3>1. env' \in [1 .. NEnvs -> SUBSET SidecarNames]
      BY <2>3 DEF SubstituteEnvs, Substitute
    <3>2. QED
      BY <1>2, <2>3, <3>1, Zenon DEF SubstituteEnvs, inputs, PCs
  <2>4. CASE StartParent
    BY <1>2, <2>4 DEF StartParent, inputs, Names, CState, PCs
  <2>5. CASE ParentFails
    BY <1>2, <2>5 DEF ParentFails, inputs, Names, CState, FailedRun, PCs
  <2>6. CASE ProbePort
    BY <1>2, <2>6 DEF ProbePort, inputs
  <2>7. CASE EndProbe
    BY <1>2, <2>7 DEF EndProbe, inputs, PCs
  <2>8. CASE Body
    BY <1>2, <2>8 DEF Body, inputs, PCs
  <2>9. CASE ExitParent
    BY <1>2, <2>9 DEF ExitParent, inputs, Names, CState, PCs
  <2>10. CASE UnwindSidecar
    <3>1. Len(stack) \in Nat /\ Len(stack) >= 1
      BY <2>10, LenProperties, EmptySeq DEF UnwindSidecar
    <3>2. stack[Len(stack)] \in SidecarNames
      BY <3>1 DEF UnwindSidecar
    <3>3. SubSeq(stack, 1, Len(stack) - 1) \in Seq(SidecarNames)
      BY <3>1, SubSeqProperties
    <3>4. ctr' \in [Names -> CState]
      BY <2>10, <3>2 DEF UnwindSidecar, Names, CState
    <3>5. QED
      BY <1>2, <2>10, <3>3, <3>4, Zenon DEF UnwindSidecar, inputs
  <2>11. CASE Leave
    BY <1>2, <2>11 DEF Leave, inputs, PCs
  <2>12. CASE Listen
    BY <1>2, <2>12 DEF Listen, inputs
  <2>13. ASSUME NEW n \in Names, ContainerExits(n)
         PROVE  TypeRest'
    BY <1>2, <2>13 DEF ContainerExits, inputs, CState
  <2>14. CASE UNCHANGED vars
    BY <2>14 DEF vars
  <2>15. QED
    BY <2>1, <2>2, <2>3, <2>4, <2>5, <2>6, <2>7, <2>8, <2>9, <2>10,
       <2>11, <2>12, <2>13, <2>14 DEF Next, Call, Environment
<1>4. QED
  BY <1>2, <1>3, Zenon DEF TypeOK, TypeRest, inputs

(***************************************************************************)
(* Every reachable state of the call is well typed, for every value of    *)
(* the constants.                                                          *)
(***************************************************************************)
THEOREM TypeCorrect == Spec => []TypeOK
BY InitType, NextType, PTL DEF Spec
-----------------------------------------------------------------------------
(***************************************************************************)
(* Removal on every exit path.  UnwoundOnExit is not inductive: it speaks *)
(* only of the final states, so the invariant says, for every state, where *)
(* each entered container's removal is still owed.  A sidecar's is owed   *)
(* by the ExitStack as long as the sidecar is on it; the parent's is owed *)
(* by its own with-block until the call starts to unwind.                 *)
(***************************************************************************)
\* The sidecar n is still on the ExitStack.
Stacked(n) == \E i \in 1 .. Len(stack) : stack[i] = n

\* The parent is entered only after the sidecar loop and the substitution,
\* and it has been removed once the ExitStack unwinds.
ParentClosed ==
  Parent \in entered =>
    /\ pc \notin {"sidecar", "parent"}
    /\ pc \in {"unwind", "returned", "raised"} => ctr[Parent] = "none"

\* Before the unwinding, every sidecar entered is on the ExitStack.
SidecarsOnStack ==
  pc \in {"sidecar", "parent", "probe", "body", "exitParent"} =>
    \A n \in entered \ {Parent} : Stacked(n)

\* An entered sidecar is on the ExitStack or its container is gone.
SidecarsOwed ==
  \A n \in entered \ {Parent} : Stacked(n) \/ ctr[n] = "none"

\* The call leaves only with an empty ExitStack.
EmptyOnExit ==
  pc \in {"returned", "raised"} => stack = <<>>

IInv ==
  /\ TypeOK
  /\ ParentClosed
  /\ SidecarsOnStack
  /\ SidecarsOwed
  /\ EmptyOnExit
\* Popping the ExitStack keeps every entry but the last on it.
LEMMA PopKeeps ==
  ASSUME NEW s \in Seq(SidecarNames), s # <<>>, NEW n,
         \E i \in 1 .. Len(s) : s[i] = n, n # s[Len(s)]
  PROVE  \E i \in 1 .. Len(SubSeq(s, 1, Len(s) - 1)) :
           SubSeq(s, 1, Len(s) - 1)[i] = n
<1>1. Len(s) \in Nat /\ Len(s) >= 1
  BY LenProperties, EmptySeq
<1>2. PICK i \in 1 .. Len(s) : s[i] = n
  OBVIOUS
<1>3. i \in 1 .. Len(s) - 1
  BY <1>1, <1>2
<1>4. Len(SubSeq(s, 1, Len(s) - 1)) = Len(s) - 1
      /\ SubSeq(s, 1, Len(s) - 1)[i] = s[i]
  BY <1>1, <1>3, SubSeqProperties
<1>5. QED
  BY <1>2, <1>3, <1>4

\* Pushing onto the ExitStack keeps every entry on it and adds the new one.
LEMMA PushKeeps ==
  ASSUME NEW s \in Seq(SidecarNames), NEW x \in SidecarNames, NEW n,
         (\E i \in 1 .. Len(s) : s[i] = n) \/ n = x
  PROVE  \E i \in 1 .. Len(Append(s, x)) : Append(s, x)[i] = n
BY AppendProperties

LEMMA InitIInv == Init => IInv
<1> SUFFICES ASSUME Init PROVE IInv
  OBVIOUS
<1>1. TypeOK
  BY InitType
<1>2. QED
  BY <1>1 DEF Init, IInv, ParentClosed, SidecarsOnStack, SidecarsOwed,
             EmptyOnExit
LEMMA NextIInv == IInv /\ [Next]_vars => IInv'
<1> SUFFICES ASSUME IInv, [Next]_vars
             PROVE  (ParentClosed /\ SidecarsOnStack /\ SidecarsOwed /\ EmptyOnExit)'
  BY NextType DEF IInv
<1>1. /\ stack \in Seq(SidecarNames) /\ ctr \in [Names -> CState]
      /\ entered \subseteq Names /\ pc \in PCs
  BY DEF IInv, TypeOK
<1>2. /\ ParentClosed /\ SidecarsOnStack /\ SidecarsOwed /\ EmptyOnExit
  BY DEF IInv
<1> USE <1>1, <1>2
<1>3. CASE StartSidecar
  <2>1. sidecars[k] \in SidecarNames
    BY <1>3, SidecarsIsSeq DEF StartSidecar, IInv, TypeOK
  <2>2. Parent \notin entered'
    BY <1>3, <2>1 DEF StartSidecar, ParentClosed
  <2>3. SidecarsOnStack'
    BY <1>3, <2>1, PushKeeps DEF StartSidecar, SidecarsOnStack, Stacked
  <2>4. QED
    BY <1>3, <2>2, <2>3 DEF StartSidecar, ParentClosed, SidecarsOnStack,
                            SidecarsOwed, EmptyOnExit
<1>4. CASE SidecarFails
  BY <1>4 DEF SidecarFails, ParentClosed, SidecarsOnStack, SidecarsOwed,
              EmptyOnExit, Stacked
<1>5. CASE SubstituteEnvs
  BY <1>5 DEF SubstituteEnvs, ParentClosed, SidecarsOnStack, SidecarsOwed,
              EmptyOnExit, Stacked
<1>6. CASE StartParent
  BY <1>6 DEF StartParent, ParentClosed, SidecarsOnStack, SidecarsOwed,
              EmptyOnExit, Stacked
<1>7. CASE ParentFails
  BY <1>7 DEF ParentFails, ParentClosed, SidecarsOnStack, SidecarsOwed,
              EmptyOnExit, Stacked
<1>8. CASE ProbePort \/ EndProbe \/ Body
  BY <1>8 DEF ProbePort, EndProbe, Body, ParentClosed, SidecarsOnStack,
              SidecarsOwed, EmptyOnExit, Stacked
<1>9. CASE ExitParent
  BY <1>9 DEF ExitParent, ParentClosed, SidecarsOnStack, SidecarsOwed,
              EmptyOnExit, Stacked, Names
<1>10. CASE UnwindSidecar
  <2> DEFINE last == stack[Len(stack)]
  <2>1. last \in SidecarNames /\ last # Parent
    BY <1>10, LenProperties, EmptySeq DEF UnwindSidecar
  <2>2. ctr'[Parent] = ctr[Parent]
    BY <1>10, <2>1 DEF UnwindSidecar, Names
  <2>3. SidecarsOwed'
    <3> SUFFICES ASSUME NEW n \in entered' \ {Parent}
                 PROVE  Stacked(n)' \/ ctr'[n] = "none"
      BY DEF SidecarsOwed
    <3>1. CASE n = last
      BY <1>10, <3>1, <2>1 DEF UnwindSidecar, Names
    <3>2. CASE n # last /\ Stacked(n)
      BY <1>10, <3>2, PopKeeps DEF UnwindSidecar, Stacked
    <3>3. CASE n # last /\ ~Stacked(n)
      BY <1>10, <3>3 DEF UnwindSidecar, SidecarsOwed, Names
    <3>4. QED
      BY <3>1, <3>2, <3>3
  <2>4. QED
    BY <1>10, <2>2, <2>3 DEF UnwindSidecar, ParentClosed, SidecarsOnStack,
                             EmptyOnExit
<1>11. CASE Leave
  BY <1>11 DEF Leave, ParentClosed, SidecarsOnStack, SidecarsOwed,
               EmptyOnExit, Stacked
<1>12. CASE Listen
  BY <1>12 DEF Listen, ParentClosed, SidecarsOnStack, SidecarsOwed,
               EmptyOnExit, Stacked
<1>13. ASSUME NEW n0 \in Names, ContainerExits(n0)
       PROVE  (ParentClosed /\ SidecarsOnStack /\ SidecarsOwed /\ EmptyOnExit)'
  <2>1. \A n \in Names : ctr[n] = "none" => ctr'[n] = "none"
    BY <1>13 DEF ContainerExits
  <2>2. QED
    BY <1>13, <2>1 DEF ContainerExits, ParentClosed, SidecarsOnStack,
                       SidecarsOwed, EmptyOnExit, Stacked, Names
<1>14. CASE UNCHANGED vars
  BY <1>14 DEF vars, ParentClosed, SidecarsOnStack, SidecarsOwed,
               EmptyOnExit, Stacked
<1>15. QED
  BY <1>3, <1>4, <1>5, <1>6, <1>7, <1>8, <1>9, <1>10, <1>11, <1>12,
     <1>13, <1>14 DEF Next, Call, Environment

(***************************************************************************)
(* Whatever step raised, every container whose run_container context was  *)
(* entered has been removed once the call has returned or raised, for     *)
(* every set of sidecars, envs and test ports.                            *)
(***************************************************************************)
THEOREM Unwound == Spec => []UnwoundOnExit
<1>1. IInv => UnwoundOnExit
  <2> SUFFICES ASSUME IInv, pc \in {"returned", "raised"}, NEW n \in entered
               PROVE  ctr[n] = "none"
    BY DEF UnwoundOnExit
  <2>1. stack = <<>>
    BY DEF IInv, EmptyOnExit
  <2>2. CASE n = Parent
    BY <2>2 DEF IInv, ParentClosed
  <2>3. CASE n # Parent
    BY <2>1, <2>3 DEF IInv, SidecarsOwed, Stacked
  <2>4. QED
    BY <2>2, <2>3
<1>2. QED
  BY <1>1, InitIInv, NextIInv, PTL DEF Spec
-----------------------------------------------------------------------------
(***************************************************************************)
(* Teardown order.  The ExitStack holds, in image order, exactly the      *)
(* sidecars the loop has started, and none of their containers is removed *)
(* before the unwinding; the parent is entered only after the whole loop. *)
(***************************************************************************)
StackIsPrefix ==
  pc \in {"sidecar", "parent", "probe", "body", "exitParent"} =>
    /\ stack = SubSeq(sidecars, 1, k - 1)
    /\ \A j \in 1 .. k - 1 : ctr[sidecars[j]] # "none"

LoopDone ==
  pc \in {"parent", "probe", "body", "exitParent"} => k = Len(sidecars) + 1

OInv == TypeOK /\ StackIsPrefix /\ LoopDone

\* Pushing the k-th sidecar onto the first k - 1 gives the first k.
LEMMA PushNext ==
  ASSUME NEW s \in Seq(SidecarNames), NEW i \in 1 .. Len(s)
  PROVE  Append(SubSeq(s, 1, i - 1), s[i]) = SubSeq(s, 1, i)
<1>1. SubSeq(s, 1, i - 1) \in Seq(SidecarNames) /\ s[i] \in SidecarNames
  BY SubSeqProperties
<1>2. Append(SubSeq(s, 1, i - 1), s[i]) = SubSeq(s, 1, i - 1) \o << s[i] >>
  BY <1>1, AppendIsConcat
<1>3. QED
  BY <1>2, SubSeqRecursiveSecond

LEMMA InitOInv == Init => OInv
BY InitType, SidecarsIsSeq, SubSeqEmpty
   DEF Init, OInv, StackIsPrefix, LoopDone

LEMMA NextOInv == OInv /\ [Next]_vars => OInv'
<1> SUFFICES ASSUME OInv, [Next]_vars PROVE (StackIsPrefix /\ LoopDone)'
  BY NextType DEF OInv
<1>1. /\ sidecars \in Seq(SidecarNames) /\ Len(sidecars) \in Nat
      /\ k \in 1 .. Len(sidecars) + 1 /\ ctr \in [Names -> CState]
      /\ StackIsPrefix /\ LoopDone
  BY SidecarsIsSeq DEF OInv, TypeOK
<1>2. UNCHANGED inputs
  BY InputsFrozen
<1> USE <1>1, <1>2 DEF inputs
<1>3. CASE StartSidecar
  <2>1. k \in 1 .. Len(sidecars) /\ stack = SubSeq(sidecars, 1, k - 1)
    BY <1>3 DEF StartSidecar, StackIsPrefix
  <2>2. stack' = SubSeq(sidecars, 1, k' - 1)
    BY <1>3, <2>1, PushNext DEF StartSidecar
  <2>3. \A j \in 1 .. k' - 1 : ctr'[sidecars[j]] # "none"
    BY <1>3, <2>1 DEF StartSidecar, StackIsPrefix, Names
  <2>4. QED
    BY <1>3, <2>2, <2>3 DEF StartSidecar, StackIsPrefix, LoopDone
<1>4. CASE SubstituteEnvs
  BY <1>4 DEF SubstituteEnvs, StackIsPrefix, LoopDone
<1>5. CASE StartParent
  <2>1. \A j \in 1 .. k - 1 : sidecars[j] # Parent
    BY DEF Names
  <2>2. QED
    BY <1>5, <2>1 DEF StartParent, StackIsPrefix, LoopDone
<1>6. CASE SidecarFails \/ ParentFails \/ ExitParent \/ UnwindSidecar \/ Leave
  BY <1>6 DEF SidecarFails, ParentFails, ExitParent, UnwindSidecar, Leave,
              StackIsPrefix, LoopDone
<1>7. CASE ProbePort \/ EndProbe \/ Body \/ Listen
  BY <1>7 DEF ProbePort, EndProbe, Body, Listen, StackIsPrefix, LoopDone
<1>8. ASSUME NEW n0 \in Names, ContainerExits(n0)
      PROVE  (StackIsPrefix /\ LoopDone)'
  BY <1>8 DEF ContainerExits, StackIsPrefix, LoopDone
<1>9. CASE UNCHANGED vars
  BY <1>9 DEF vars, StackIsPrefix, LoopDone
<1>10. QED
  BY <1>3, <1>4, <1>5, <1>6, <1>7, <1>8, <1>9 DEF Next, Call, Environment

(***************************************************************************)
(* While the parent's context is open, every declared sidecar is on the   *)
(* ExitStack in image order and its container has not been removed, for   *)
(* every list of sidecars: the parent is torn down before any sidecar.    *)
(***************************************************************************)
THEOREM SidecarsFirst == Spec => []SidecarsOutliveParent
<1>1. OInv => SidecarsOutliveParent
  <2> SUFFICES ASSUME OInv, pc \in {"probe", "body", "exitParent"}
               PROVE  /\ stack = sidecars
                      /\ \A j \in DOMAIN sidecars : ctr[sidecars[j]] # "none"
    BY DEF SidecarsOutliveParent
  <2>1. sidecars \in Seq(SidecarNames) /\ k = Len(sidecars) + 1
    BY SidecarsIsSeq DEF OInv, TypeOK, LoopDone
  <2>2. QED
    BY <2>1, SubSeqFull DEF OInv, StackIsPrefix
<1>2. QED
  BY <1>1, InitOInv, NextOInv, PTL DEF Spec

-----------------------------------------------------------------------------
(***************************************************************************)
(* Refinement of ScopedRun.  Besides IInv and OInv, the mapping needs     *)
(* three facts: every container on the ExitStack has been entered (so     *)
(* popping it releases it), no sidecar still to be started in the loop    *)
(* has been entered (so starting it is a fresh acquisition, since          *)
(* image.sidecars has no repeats), and the parent is entered while its    *)
(* with-block is open.                                                     *)
(***************************************************************************)
StackEntered == \A j \in 1 .. Len(stack) : stack[j] \in entered

EnteredFresh ==
  pc = "sidecar" => \A j \in k .. Len(sidecars) : sidecars[j] \notin entered

ParentOpen == pc \in {"probe", "body", "exitParent"} => Parent \in entered

RInv == IInv /\ OInv /\ StackEntered /\ EnteredFresh /\ ParentOpen

\* image.sidecars has no repeats.
LEMMA SidecarsInjective ==
  ASSUME TypeOK,
         NEW a \in 1 .. Len(sidecars), NEW b \in 1 .. Len(sidecars),
         sidecars[a] = sidecars[b]
  PROVE  a = b
<1>1. PICK n \in 0 .. MaxSidecars : sidecars \in Injection(1 .. n, SidecarNames)
  BY DEF TypeOK
<1>2. Len(sidecars) = n
  BY <1>1, LenProperties, SidecarsIsSeq DEF Injection, TypeOK
<1>3. QED
  BY <1>1, <1>2 DEF Injection, IsInjective

\* Dropping the last entry of s \o <<x>> gives s back.
LEMMA FrontAppend ==
  ASSUME NEW S, NEW s \in Seq(S), NEW x \in S
  PROVE  SubSeq(Append(s, x), 1, Len(Append(s, x)) - 1) = s
<1>1. Len(Append(s, x)) = Len(s) + 1 /\ Append(s, x) \in Seq(S)
      /\ \A j \in 1 .. Len(s) : Append(s, x)[j] = s[j]
  BY AppendProperties
<1>2. \A j \in 1 .. Len(s) : Append(s, x)[j] \in S
  BY <1>1
<1>3. /\ SubSeq(Append(s, x), 1, Len(s)) \in Seq(S)
      /\ Len(SubSeq(Append(s, x), 1, Len(s))) = Len(s)
      /\ \A j \in 1 .. Len(s) : SubSeq(Append(s, x), 1, Len(s))[j] = s[j]
  BY <1>1, <1>2, SubSeqProperties
<1>4. QED
  BY <1>1, <1>3, SeqEqual

\* Dropping the last entry of a non-empty sequence keeps the others.
LEMMA FrontKeeps ==
  ASSUME NEW s \in Seq(SidecarNames), s # <<>>
  PROVE  /\ Len(SubSeq(s, 1, Len(s) - 1)) = Len(s) - 1
         /\ \A j \in 1 .. Len(s) - 1 : SubSeq(s, 1, Len(s) - 1)[j] = s[j]
<1>1. Len(s) \in Nat /\ Len(s) >= 1
  BY LenProperties, EmptySeq
<1>2. \A j \in 1 .. Len(s) - 1 : s[j] \in SidecarNames
  BY <1>1
<1>3. Len(SubSeq(s, 1, Len(s) - 1)) = Len(s) - 1
  <2>1. Len(SubSeq(s, 1, Len(s) - 1))
          = IF 1 <= Len(s) - 1 THEN Len(s) - 1 - 1 + 1 ELSE 0
    BY <1>1, <1>2, SubSeqProperties
  <2>2. CASE Len(s) = 1
    BY <2>1, <2>2
  <2>3. CASE Len(s) >= 2
    BY <2>1, <2>3
  <2>4. Len(s) = 1 \/ Len(s) >= 2
    BY <1>1
  <2>5. QED
    BY <2>2, <2>3, <2>4, Zenon
<1>4. ASSUME NEW j \in 1 .. Len(s) - 1
      PROVE  SubSeq(s, 1, Len(s) - 1)[j] = s[j]
  BY <1>1, <1>2, SubSeqProperties
<1>5. QED
  BY <1>3, <1>4

LEMMA InitRInv == Init => RInv
BY InitIInv, InitOInv DEF Init, RInv, StackEntered, EnteredFresh, ParentOpen

LEMMA NextRInv == RInv /\ [Next]_vars => RInv'
<1> SUFFICES ASSUME RInv, [Next]_vars
             PROVE  (StackEntered /\ EnteredFresh /\ ParentOpen)'
  BY NextIInv, NextOInv DEF RInv
<1>1. /\ TypeOK /\ sidecars \in Seq(SidecarNames) /\ Len(sidecars) \in Nat
      /\ StackEntered /\ EnteredFresh /\ ParentOpen
  BY SidecarsIsSeq DEF RInv, IInv, TypeOK
<1>2. UNCHANGED inputs
  BY InputsFrozen
<1> USE <1>1, <1>2 DEF inputs
<1>3. CASE StartSidecar
  <2>1. stack \in Seq(SidecarNames) /\ sidecars[k] \in SidecarNames
        /\ k \in 1 .. Len(sidecars)
    BY <1>3 DEF StartSidecar, TypeOK
  <2>2. StackEntered'
    <3>1. /\ Len(stack') = Len(stack) + 1
          /\ \A j \in 1 .. Len(stack) : stack'[j] = stack[j]
          /\ stack'[Len(stack) + 1] = sidecars[k]
      BY <1>3, <2>1, AppendProperties DEF StartSidecar
    <3>2. QED
      BY <1>3, <2>1, <3>1 DEF StartSidecar, StackEntered
  <2>3. EnteredFresh'
    <3> SUFFICES ASSUME NEW j \in k + 1 .. Len(sidecars)
                 PROVE  sidecars[j] \notin entered \cup {sidecars[k]}
      BY <1>3 DEF StartSidecar, EnteredFresh
    <3>1. sidecars[j] \notin entered
      BY <1>3, <2>1 DEF StartSidecar, EnteredFresh
    <3>2. sidecars[j] # sidecars[k]
      BY <2>1, SidecarsInjective
    <3>3. QED
      BY <3>1, <3>2
  <2>4. QED
    BY <1>3, <2>2, <2>3 DEF StartSidecar, ParentOpen
<1>4. CASE StartParent
  BY <1>4 DEF StartParent, StackEntered, EnteredFresh, ParentOpen
<1>5. CASE UnwindSidecar
  <2>1. stack \in Seq(SidecarNames) /\ Len(stack) \in Nat /\ Len(stack) >= 1
    BY <1>5, LenProperties, EmptySeq DEF UnwindSidecar, TypeOK
  <2>2. /\ Len(stack') = Len(stack) - 1
        /\ \A j \in 1 .. Len(stack) - 1 : stack'[j] = stack[j]
    BY <1>5, <2>1, FrontKeeps DEF UnwindSidecar
  <2>3. QED
    BY <1>5, <2>1, <2>2 DEF UnwindSidecar, StackEntered, EnteredFresh,
                           ParentOpen
<1>6. CASE SidecarFails \/ SubstituteEnvs \/ ParentFails \/ ExitParent \/ Leave
  BY <1>6 DEF SidecarFails, SubstituteEnvs, ParentFails, ExitParent, Leave,
              StackEntered, EnteredFresh, ParentOpen
<1>7. CASE ProbePort \/ EndProbe \/ Body \/ Listen
  BY <1>7 DEF ProbePort, EndProbe, Body, Listen, StackEntered, EnteredFresh,
              ParentOpen
<1>8. ASSUME NEW n0 \in Names, ContainerExits(n0)
      PROVE  (StackEntered /\ EnteredFresh /\ ParentOpen)'
  BY <1>8 DEF ContainerExits, StackEntered, EnteredFresh, ParentOpen
<1>9. CASE UNCHANGED vars
  BY <1>9 DEF vars, StackEntered, EnteredFresh, ParentOpen
<1>10. QED
  BY <1>3, <1>4, <1>5, <1>6, <1>7, <1>8, <1>9 DEF Next, Call, Environment

LEMMA InitScoped == Init => Scoped!Init
BY DEF Init, Scoped!Init, HeldOf, ReleasedOf, ClosedOf

LEMMA NextScoped ==
  RInv /\ [Next]_vars => [Scoped!Next]_<<HeldOf, ReleasedOf, ClosedOf>>
<1> SUFFICES ASSUME RInv, [Next]_vars
             PROVE  [Scoped!Next]_<<HeldOf, ReleasedOf, ClosedOf>>
  OBVIOUS
<1>1. /\ TypeOK /\ sidecars \in Seq(SidecarNames) /\ Len(sidecars) \in Nat
      /\ stack \in Seq(SidecarNames) /\ entered \subseteq Names
      /\ ctr \in [Names -> CState]
      /\ StackEntered /\ EnteredFresh /\ ParentOpen /\ ParentClosed
  BY SidecarsIsSeq DEF RInv, IInv, TypeOK
<1>2. UNCHANGED inputs
  BY InputsFrozen
<1> USE <1>1, <1>2 DEF inputs
<1>3. CASE StartSidecar
  <2> DEFINE r == sidecars[k]
  <2>1. /\ pc = "sidecar" /\ pc' = "sidecar" /\ k \in 1 .. Len(sidecars)
        /\ r \in SidecarNames /\ r \in Names
    BY <1>3 DEF StartSidecar, TypeOK, Names
  <2>2. r \notin entered
    BY <2>1 DEF EnteredFresh
  <2>3. HeldOf = stack /\ HeldOf' = Append(stack, r)
    BY <1>3, <2>1 DEF HeldOf, StartSidecar
  <2>4. ~Scoped!Holds(r)
    BY <2>2, <2>3 DEF StackEntered, Scoped!Holds
  <2>5. r \notin ReleasedOf /\ ReleasedOf' = ReleasedOf
    BY <1>3, <2>1, <2>2 DEF StartSidecar, ReleasedOf
  <2>6. ~ClosedOf /\ ClosedOf' = ClosedOf
    BY <2>1 DEF ClosedOf
  <2>7. Scoped!Acquire(r)
    BY <2>3, <2>4, <2>5, <2>6 DEF Scoped!Acquire
  <2>8. QED
    BY <2>1, <2>7 DEF Scoped!Next
<1>4. CASE StartParent
  <2>1. /\ pc = "parent" /\ pc' = "probe" /\ stack' = stack
        /\ entered' = entered \cup {Parent}
        /\ ctr' = [ctr EXCEPT ![Parent] = "running"]
    BY <1>4 DEF StartParent
  <2>2. Parent \notin entered
    BY <2>1 DEF ParentClosed
  <2>3. HeldOf = stack /\ HeldOf' = Append(stack, Parent)
    BY <2>1 DEF HeldOf
  <2>4. ~Scoped!Holds(Parent)
    BY <2>3 DEF Scoped!Holds
  <2>5. Parent \notin ReleasedOf /\ ReleasedOf' = ReleasedOf
    BY <2>1, <2>2 DEF ReleasedOf, Names
  <2>6. ~ClosedOf /\ ClosedOf' = ClosedOf
    BY <2>1 DEF ClosedOf
  <2>7. Scoped!Acquire(Parent)
    BY <2>3, <2>4, <2>5, <2>6 DEF Scoped!Acquire
  <2>8. QED
    BY <2>7 DEF Scoped!Next, Names
<1>5. CASE ExitParent
  <2>1. /\ pc = "exitParent" /\ pc' = "unwind" /\ stack' = stack
        /\ entered' = entered /\ ctr' = [ctr EXCEPT ![Parent] = "none"]
    BY <1>5 DEF ExitParent
  <2>2. Parent \in entered
    BY <2>1 DEF ParentOpen
  <2>3. HeldOf = Append(stack, Parent) /\ HeldOf' = stack
    BY <2>1 DEF HeldOf
  <2>4. stack \in Seq(Names)
    BY SeqMonotonic DEF Names
  <2>5. /\ HeldOf # <<>> /\ HeldOf[Len(HeldOf)] = Parent
        /\ HeldOf' = SubSeq(HeldOf, 1, Len(HeldOf) - 1)
    BY <2>3, <2>4, AppendProperties, FrontAppend DEF Names
  <2>6. ReleasedOf' = ReleasedOf \cup {Parent}
    BY <2>1, <2>2 DEF ReleasedOf, Names
  <2>7. ClosedOf' = ClosedOf
    BY <2>1 DEF ClosedOf
  <2>8. QED
    BY <2>5, <2>6, <2>7 DEF Scoped!Next, Scoped!Release
<1>6. CASE UnwindSidecar
  <2>1. /\ pc = "unwind" /\ pc' = "unwind" /\ stack # <<>> /\ entered' = entered
        /\ ctr' = [ctr EXCEPT ![stack[Len(stack)]] = "none"]
        /\ stack' = SubSeq(stack, 1, Len(stack) - 1)
    BY <1>6 DEF UnwindSidecar
  <2>2. Len(stack) \in Nat /\ Len(stack) >= 1
    BY <2>1, LenProperties, EmptySeq
  <2>3. stack[Len(stack)] \in entered
    BY <2>2 DEF StackEntered
  <2>4. HeldOf = stack /\ HeldOf' = stack'
    BY <2>1 DEF HeldOf
  <2>5. ReleasedOf' = ReleasedOf \cup {stack[Len(stack)]}
    BY <2>1, <2>3 DEF ReleasedOf
  <2>6. ClosedOf' = ClosedOf
    BY <2>1 DEF ClosedOf
  <2>7. QED
    BY <2>1, <2>4, <2>5, <2>6 DEF Scoped!Next, Scoped!Release
<1>7. CASE Leave
  <2>1. /\ pc = "unwind" /\ pc' \in {"returned", "raised"} /\ stack = <<>>
        /\ UNCHANGED <<stack, entered, ctr>>
    BY <1>7 DEF Leave
  <2>2. /\ HeldOf = <<>> /\ HeldOf' = HeldOf /\ ReleasedOf' = ReleasedOf
        /\ ~ClosedOf /\ ClosedOf' = TRUE
    BY <2>1 DEF HeldOf, ReleasedOf, ClosedOf
  <2>3. QED
    BY <2>2, Zenon DEF Scoped!Next, Scoped!Close
<1>8. CASE SidecarFails
  <2>1. /\ pc = "sidecar" /\ pc' = "unwind" /\ k \in 1 .. Len(sidecars)
        /\ UNCHANGED <<stack, entered>>
    BY <1>8 DEF SidecarFails, TypeOK
  <2>2. sidecars[k] \notin entered
    BY <2>1 DEF EnteredFresh
  <2>3. \A n \in entered : ctr'[n] = ctr[n]
    <3>1. CASE UNCHANGED ctr
      BY <3>1
    <3>2. CASE \E st \in FailedRun : ctr' = [ctr EXCEPT ![sidecars[k]] = st]
      BY <2>2, <3>2
    <3>3. QED
      BY <1>8, <3>1, <3>2 DEF SidecarFails
  <2>4. QED
    BY <2>1, <2>3 DEF HeldOf, ReleasedOf, ClosedOf
<1>9. CASE ParentFails
  <2>1. /\ pc = "parent" /\ pc' = "unwind" /\ UNCHANGED <<stack, entered>>
        /\ \A n \in Names \ {Parent} : ctr'[n] = ctr[n]
    BY <1>9 DEF ParentFails
  <2>2. Parent \notin entered
    BY <2>1 DEF ParentClosed
  <2>3. QED
    BY <2>1, <2>2 DEF HeldOf, ReleasedOf, ClosedOf
<1>10. CASE SubstituteEnvs \/ ProbePort \/ EndProbe \/ Body \/ Listen
  BY <1>10 DEF SubstituteEnvs, ProbePort, EndProbe, Body, Listen, HeldOf,
               ReleasedOf, ClosedOf
<1>11. ASSUME NEW n0 \in Names, ContainerExits(n0)
       PROVE  [Scoped!Next]_<<HeldOf, ReleasedOf, ClosedOf>>
  BY <1>11 DEF ContainerExits, HeldOf, ReleasedOf, ClosedOf
<1>12. CASE UNCHANGED vars
  BY <1>12 DEF vars, HeldOf, ReleasedOf, ClosedOf
<1>13. QED
  BY <1>3, <1>4, <1>5, <1>6, <1>7, <1>8, <1>9, <1>10, <1>11, <1>12
  DEF Next, Call, Environment

(***************************************************************************)
(* Every behaviour of run_container_instrumented is a behaviour of        *)
(* ScopedRun, for every list of sidecars: the nested with-blocks and the  *)
(* ExitStack of lines 279-302 start no container twice, remove the        *)
(* containers last-in first-out, and return or raise only once every      *)
(* container they started has been removed.                               *)
(***************************************************************************)
THEOREM ScopedAcquisition == Spec => ScopedRefined
<1>1. Spec => []RInv
  BY InitRInv, NextRInv, PTL DEF Spec
<1>2. QED
  BY <1>1, InitScoped, NextScoped, PTL
  DEF Spec, ScopedRefined, Scoped!Spec

=============================================================================
