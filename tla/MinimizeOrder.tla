--------------------------- MODULE MinimizeOrder ---------------------------
(***************************************************************************)
(* Two runs of shrink_image over the same archive and the same trace log, *)
(* the archive listing its members in two orders.  Run A goes first; run  *)
(* B starts once A has returned or raised.  The runs share nothing but    *)
(* their inputs, so running them one after the other loses no behaviour   *)
(* of either.                                                              *)
(***************************************************************************)
EXTENDS Naturals

CONSTANTS Paths, Outside, NoInterp, EmptyInterp, Bootstrap, Kinds

VARIABLES
  arch, logs,
  orderA, pcA, iA, pathSetA, shadowA, shebangsA, todoA, outA,
  orderB, pcB, iB, pathSetB, shadowB, shebangsB, todoB, outB

varsA == <<orderA, pcA, iA, pathSetA, shadowA, shebangsA, todoA, outA>>
varsB == <<orderB, pcB, iB, pathSetB, shadowB, shebangsB, todoB, outB>>
vars == <<arch, logs, varsA, varsB>>

A == INSTANCE Minimize WITH order <- orderA, pc <- pcA, i <- iA,
       pathSet <- pathSetA, shadow <- shadowA, shebangs <- shebangsA,
       todo <- todoA, out <- outA
B == INSTANCE Minimize WITH order <- orderB, pc <- pcB, i <- iB,
       pathSet <- pathSetB, shadow <- shadowB, shebangs <- shebangsB,
       todo <- todoB, out <- outB

Init == A!Init /\ B!Init

Next ==
  \/ A!Next /\ UNCHANGED varsB
  \/ pcA \in {"done", "failed"} /\ B!Next /\ UNCHANGED varsA

Spec == Init /\ [][Next]_vars

(***************************************************************************)
(* Spec section 3: members are processed in archive order, and the order  *)
(* "is not otherwise semantically significant"; section 4.1: interpreter  *)
(* chains are followed one hop.  So two orders of one archive give the    *)
(* same reduced archive.                                                   *)
(***************************************************************************)
OrderIrrelevant == pcA = "done" /\ pcB = "done" => outA = outB
=============================================================================
