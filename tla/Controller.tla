----------------------------- MODULE Controller -----------------------------
(***************************************************************************)
(* The instrumented run controller of shrink_containers.py: one call of   *)
(* run_container_instrumented (lines 274-302), the run_container context  *)
(* managers it enters (lines 244-271), and the body analyze_image runs    *)
(* inside it: test_image (lines 305-341) and then the rest of the body,   *)
(* which may raise.                                                        *)
(*                                                                         *)
(* The docker daemon is modelled by the state of the container of each    *)
(* name.  Containers are named deterministically, so a container left by *)
(* an earlier, crashed invocation may exist under a name when the call    *)
(* starts.  The parent container may exit at any time and opens its test  *)
(* ports some time after it starts.                                        *)
(***************************************************************************)
EXTENDS Naturals, Sequences, FiniteSets, Functions

CONSTANTS
  SidecarNames,  \* names of the sidecars an image may declare
  Parent,        \* the name of the parent container
  MaxSidecars,   \* bound on the length of image.sidecars
  NEnvs,         \* length of image.envs
  NPorts         \* length of image.test_ports

ASSUME ControllerAssumption ==
  /\ Parent \notin SidecarNames
  /\ MaxSidecars \in Nat /\ NEnvs \in Nat /\ NPorts \in Nat

\* Container names: f"{image.name}-{sidecar.name}" for a sidecar, taken
\* here as injective, and image.name for the parent.
Names == SidecarNames \cup {Parent}

\* States of a named container in the daemon.  "created": docker run
\* created it and failed to start it.
CState == {"none", "created", "running", "exited"}

VARIABLES
  sidecars,   \* image.sidecars: a sequence of distinct sidecar names
  envs,       \* image.envs: each env as the set of ${name} placeholders in it
  digested,   \* the sidecars whose repo_digest is set
  pc,         \* control location of the call
  k,          \* index of the next sidecar to start
  stack,      \* the ExitStack: names of the sidecar containers entered
  entered,    \* names whose run_container context has been entered
  ctr,        \* the daemon: name -> container state
  portOpen,   \* the parent container listens on its test ports
  env,        \* the parent's envs after the placeholder substitution
  port,       \* index of the test port being probed
  exc         \* an exception is propagating

inputs == <<sidecars, envs, digested>>
vars == <<sidecars, envs, digested, pc, k, stack, entered, ctr,
          portOpen, env, port, exc>>

PCs == {"sidecar", "parent", "probe", "body", "exitParent",
        "unwind", "returned", "raised"}

\* Lines 287-291: for each env, each sidecar's placeholder is replaced in
\* the ORIGINAL env and the result assigned to image.envs[i]; the last
\* assignment, for the last sidecar in dict order, is the one that stays.
Substitute(e) ==
  IF Len(sidecars) = 0 THEN e ELSE e \ {sidecars[Len(sidecars)]}

\* The states a container is left in by a docker run that fails: nothing
\* was created, or the container was created and could not be started.
FailedRun == {"none", "created"}

-----------------------------------------------------------------------------
(***************************************************************************)
(* The call starts with containers of earlier invocations possibly left   *)
(* under its names.  They are stopped: dockerd was restarted since.       *)
(***************************************************************************)
Init ==
  /\ sidecars \in UNION {Injection(1 .. n, SidecarNames) : n \in 0 .. MaxSidecars}
  /\ envs \in [1 .. NEnvs -> SUBSET SidecarNames]
  /\ digested \in SUBSET SidecarNames
  /\ pc = "sidecar"
  /\ k = 1
  /\ stack = <<>>
  /\ entered = {}
  /\ ctr \in [Names -> {"none", "created", "exited"}]
  /\ portOpen = FALSE
  /\ env = envs
  /\ port = 1
  /\ exc = FALSE

\* Lines 253-256 and 264: the assertion on repo_digest, the forced removal
\* of a stale container by name, and docker run succeeding.
StartSidecar ==
  /\ pc = "sidecar" /\ k <= Len(sidecars)
  /\ sidecars[k] \in digested
  /\ ctr' = [ctr EXCEPT ![sidecars[k]] = "running"]
  /\ stack' = Append(stack, sidecars[k])
  /\ entered' = entered \cup {sidecars[k]}
  /\ k' = k + 1
  /\ UNCHANGED <<inputs, pc, portOpen, env, port, exc>>

\* Variant that re-raises at once instead of unwinding the ExitStack.
SidecarFailsNoUnwind ==
  /\ pc = "sidecar" /\ k <= Len(sidecars)
  /\ \/ sidecars[k] \notin digested /\ UNCHANGED ctr
     \/ sidecars[k] \in digested
        /\ \E s \in FailedRun : ctr' = [ctr EXCEPT ![sidecars[k]] = s]
  /\ pc' = "raised"
  /\ exc' = TRUE
  /\ UNCHANGED <<inputs, k, stack, entered, portOpen, env, port>>

\* Line 254: a sidecar without repo_digest fails the assertion before any
\* docker command; lines 256 and 264: docker run of a sidecar fails.
SidecarFails ==
  /\ pc = "sidecar" /\ k <= Len(sidecars)
  /\ \/ sidecars[k] \notin digested /\ UNCHANGED ctr
     \/ sidecars[k] \in digested
        /\ \E s \in FailedRun : ctr' = [ctr EXCEPT ![sidecars[k]] = s]
  /\ pc' = "unwind"
  /\ exc' = TRUE
  /\ UNCHANGED <<inputs, k, stack, entered, portOpen, env, port>>

\* Variant whose sidecar loop stops one short of the end.
SubstituteEnvsEarly ==
  /\ pc = "sidecar" /\ k >= Len(sidecars)
  /\ env' = [j \in DOMAIN envs |-> Substitute(envs[j])]
  /\ pc' = "parent"
  /\ UNCHANGED <<inputs, k, stack, entered, ctr, portOpen, port, exc>>

\* Lines 286-296: deep copy, placeholder substitution, settle delay.
SubstituteEnvs ==
  /\ pc = "sidecar" /\ k > Len(sidecars)
  /\ env' = [j \in DOMAIN envs |-> Substitute(envs[j])]
  /\ pc' = "parent"
  /\ UNCHANGED <<inputs, k, stack, entered, ctr, portOpen, port, exc>>

\* Lines 298-301 with 253-269: the parent is started under runq.
StartParent ==
  /\ pc = "parent"
  /\ ctr' = [ctr EXCEPT ![Parent] = "running"]
  /\ entered' = entered \cup {Parent}
  /\ pc' = "probe"
  /\ UNCHANGED <<inputs, k, stack, portOpen, env, port, exc>>

\* Line 264: docker run of the parent fails; the ExitStack unwinds.
ParentFails ==
  /\ pc = "parent"
  /\ \E s \in FailedRun : ctr' = [ctr EXCEPT ![Parent] = s]
  /\ pc' = "unwind"
  /\ exc' = TRUE
  /\ UNCHANGED <<inputs, k, stack, entered, portOpen, env, port>>

\* Variant whose loop over the test ports runs past the last one.
ProbePortPastEnd ==
  /\ pc = "probe"
  /\ ctr[Parent] = "running" /\ portOpen
  /\ port' = port + 1
  /\ UNCHANGED <<inputs, pc, k, stack, entered, ctr, portOpen, env, exc>>

(***************************************************************************)
(* Lines 305-314, 317-318 and 340-341: wait_tcp_port retries connect()    *)
(* until it succeeds.  A failed connect only sleeps, so the retry is a    *)
(* stuttering step; the probe moves on when the port accepts.             *)
(***************************************************************************)
ProbePort ==
  /\ pc = "probe" /\ port <= NPorts
  /\ ctr[Parent] = "running" /\ portOpen
  /\ port' = port + 1
  /\ UNCHANGED <<inputs, pc, k, stack, entered, ctr, portOpen, env, exc>>

\* Lines 340-341: every test port has been probed; the body goes on.
EndProbe ==
  /\ pc = "probe" /\ port > NPorts
  /\ pc' = "body"
  /\ UNCHANGED <<inputs, k, stack, entered, ctr, portOpen, env, port, exc>>

\* Lines 493-497 and 503: the rest of the with-body (docker logs, and
\* shrink_image in the traced run) returns or raises.
Body ==
  /\ pc = "body"
  /\ pc' = "exitParent"
  /\ exc' \in BOOLEAN
  /\ UNCHANGED <<inputs, k, stack, entered, ctr, portOpen, env, port>>

\* Line 271: leaving the parent's run_container removes its container.
ExitParent ==
  /\ pc = "exitParent"
  /\ ctr' = [ctr EXCEPT ![Parent] = "none"]
  /\ portOpen' = FALSE
  /\ pc' = "unwind"
  /\ UNCHANGED <<inputs, k, stack, entered, env, port, exc>>

\* Variant whose ExitStack exits the oldest sidecar context first.
UnwindSidecarFifo ==
  /\ pc = "unwind" /\ stack # <<>>
  /\ ctr' = [ctr EXCEPT ![stack[1]] = "none"]
  /\ stack' = Tail(stack)
  /\ UNCHANGED <<inputs, pc, k, entered, portOpen, env, port, exc>>

\* Line 279 with 271: the ExitStack exits the sidecar contexts last-in
\* first-out, each removing its container.
UnwindSidecar ==
  /\ pc = "unwind" /\ stack # <<>>
  /\ ctr' = [ctr EXCEPT ![stack[Len(stack)]] = "none"]
  /\ stack' = SubSeq(stack, 1, Len(stack) - 1)
  /\ UNCHANGED <<inputs, pc, k, entered, portOpen, env, port, exc>>

\* The call returns, or re-raises the exception that ended it.
Leave ==
  /\ pc = "unwind" /\ stack = <<>>
  /\ pc' = IF exc THEN "raised" ELSE "returned"
  /\ UNCHANGED <<inputs, k, stack, entered, ctr, portOpen, env, port, exc>>

\* The workload in the parent container starts listening.
Listen ==
  /\ ctr[Parent] = "running" /\ ~portOpen
  /\ portOpen' = TRUE
  /\ UNCHANGED <<inputs, pc, k, stack, entered, ctr, env, port, exc>>

\* A running container exits on its own (its main process ends).
ContainerExits(n) ==
  /\ ctr[n] = "running"
  /\ ctr' = [ctr EXCEPT ![n] = "exited"]
  /\ portOpen' = IF n = Parent THEN FALSE ELSE portOpen
  /\ UNCHANGED <<inputs, pc, k, stack, entered, env, port, exc>>

Call ==
  \/ StartSidecar \/ SidecarFails \/ SubstituteEnvs \/ StartParent
  \/ ParentFails \/ ProbePort \/ EndProbe \/ Body \/ ExitParent
  \/ UnwindSidecar \/ Leave

Environment == Listen \/ \E n \in Names : ContainerExits(n)

Next == Call \/ Environment

Spec == Init /\ [][Next]_vars

-----------------------------------------------------------------------------
TypeOK ==
  /\ sidecars \in UNION {Injection(1 .. n, SidecarNames) : n \in 0 .. MaxSidecars}
  /\ envs \in [1 .. NEnvs -> SUBSET SidecarNames]
  /\ digested \subseteq SidecarNames
  /\ pc \in PCs
  /\ k \in 1 .. Len(sidecars) + 1
  /\ stack \in Seq(SidecarNames)
  /\ entered \subseteq Names
  /\ ctr \in [Names -> CState]
  /\ portOpen \in BOOLEAN
  /\ env \in [1 .. NEnvs -> SUBSET SidecarNames]
  /\ port \in 1 .. NPorts + 1
  /\ exc \in BOOLEAN

(***************************************************************************)
(* While the parent container's context is open, every sidecar of         *)
(* image.sidecars was started before it, is still on the ExitStack in     *)
(* image order, and its container has not been removed: the nested with   *)
(* of lines 279-302 tears the parent down before any sidecar.             *)
(***************************************************************************)
SidecarsOutliveParent ==
  Parent \in entered /\ pc \in {"probe", "body", "exitParent"} =>
    /\ stack = sidecars
    /\ \A j \in DOMAIN sidecars : ctr[sidecars[j]] # "none"

(***************************************************************************)
(* Whatever step raised (a sidecar's assertion or docker run, the         *)
(* parent's docker run, or the body), once the call has returned or       *)
(* raised, every container whose run_container context was entered has    *)
(* been removed (spec 4.3: removal on every exit path).                   *)
(***************************************************************************)
UnwoundOnExit ==
  pc \in {"returned", "raised"} => \A n \in entered : ctr[n] = "none"

(***************************************************************************)
(* Spec 3 and 4.3: every ${sidecar_name} placeholder in the parent's envs *)
(* is replaced by the sidecar's address before the parent starts.         *)
(***************************************************************************)
ParentEnvResolved ==
  Parent \in entered =>
    \A j \in DOMAIN env : env[j] \cap Range(sidecars) = {}

(***************************************************************************)
(* Refinement of ScopedRun.  The containers held are the sidecars on the  *)
(* ExitStack, with the parent on top while its own with-block (lines      *)
(* 298-302) is open; a container is released once it has been entered and *)
(* removed; the scope is left when the call returns or raises.            *)
(***************************************************************************)
HeldOf == IF pc \in {"probe", "body", "exitParent"}
          THEN Append(stack, Parent) ELSE stack

ReleasedOf == {n \in entered : ctr[n] = "none"}

ClosedOf == pc \in {"returned", "raised"}

Scoped == INSTANCE ScopedRun
          WITH Resources <- Names, held <- HeldOf, released <- ReleasedOf,
               closed <- ClosedOf

(***************************************************************************)
(* Spec 4.3: the nested with-blocks and the ExitStack of lines 279-302   *)
(* implement scoped acquisition: no container is started twice, they are  *)
(* removed last-in first-out (the parent, then the sidecars from the last *)
(* to the first), and the call ends only once all of them are removed.    *)
(***************************************************************************)
ScopedRefined == Scoped!Spec

\* The program's thread runs whenever it can; a running workload that has
\* not exited eventually listens on its ports.
FairSpec == Spec /\ WF_vars(Call) /\ WF_vars(Listen)

(***************************************************************************)
(* Spec 5 and 7: waiting for a test port is a bounded poll that fails     *)
(* once the container has exited, so every call of                        *)
(* run_container_instrumented eventually returns or raises.               *)
(***************************************************************************)
CallEnds == <>(pc \in {"returned", "raised"})
=============================================================================
