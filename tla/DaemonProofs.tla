---------------------------- MODULE DaemonProofs ----------------------------
(***************************************************************************)
(* Proofs about run_dockerd and terminate across invocations of the tool  *)
(* (module Daemon), for every bound on the invocations.                   *)
(***************************************************************************)
EXTENDS Daemon, TLAPS

USE DaemonAssumption

LEMMA InitType == Init => TypeOK
<1> SUFFICES ASSUME Init PROVE TypeOK
  OBVIOUS
<1>1. runs \in 1 .. MaxRuns
  BY DEF Init
<1>2. sudo \in [Daemons -> BOOLEAN] /\ child \in [Daemons -> {"none", "alive", "stopping", "dead"}]
  BY DEF Init
<1>3. QED
  BY <1>1, <1>2, Zenon DEF Init, TypeOK

LEMMA NextType == TypeOK /\ [Next]_vars => TypeOK'
<1> SUFFICES ASSUME TypeOK, [Next]_vars PROVE TypeOK'
  OBVIOUS
<1>1. CASE KillStale \/ Spawn \/ PollReady \/ PollDead \/ Body
  BY <1>1 DEF KillStale, Spawn, PollReady, PollDead, Body, TypeOK
<1>2. ASSUME NEW d \in Daemons,
             Terminate(d) \/ WaitExited(d) \/ WaitTimeout(d)
      PROVE  TypeOK'
  BY <1>2, Zenon DEF Terminate, WaitExited, WaitTimeout, NextAfter, TypeOK,
                     WaitPc, Daemons
<1>3. CASE ReapDockerd \/ ReapContainerd
  BY <1>3 DEF ReapDockerd, ReapContainerd, TypeOK
<1>4. CASE DockerdUp \/ OrphanExits
  BY <1>4 DEF DockerdUp, OrphanExits, TypeOK, Daemons
<1>5. ASSUME NEW d \in Daemons, DaemonExits(d)
      PROVE  TypeOK'
  BY <1>5 DEF DaemonExits, TypeOK
<1>6. CASE Rerun
  <2>1. runs' \in 1 .. MaxRuns
    BY <1>6 DEF Rerun, TypeOK
  <2>2. QED
    BY <1>6, <2>1, Zenon DEF Rerun, TypeOK
<1>7. CASE UNCHANGED vars
  BY <1>7 DEF vars, TypeOK
<1>8. QED
  BY <1>1, <1>2, <1>3, <1>4, <1>5, <1>6, <1>7 DEF Next, Program, Environment

(***************************************************************************)
(* Every state of any sequence of invocations of the tool, killed and run *)
(* again up to MaxRuns times, is well typed; in particular no invocation   *)
(* beyond the bound is ever started by Rerun.                              *)
(***************************************************************************)
THEOREM TypeCorrect == Spec => []TypeOK
BY InitType, NextType, PTL DEF Spec
=============================================================================
