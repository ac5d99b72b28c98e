------------------------------- MODULE Daemon -------------------------------
(***************************************************************************)
(* The daemon lifecycle of shrink_containers.py: run_dockerd (lines       *)
(* 126-209) and terminate (lines 116-122), over successive invocations of *)
(* the tool.                                                               *)
(*                                                                         *)
(* containerd and dockerd are each started as "sudo <daemon>": Popen     *)
(* holds the pid of sudo, which relays SIGTERM to its child and exits     *)
(* when the child exits; SIGKILL ends sudo alone and leaves the child     *)
(* running.  dockerd writes its own pid to docker.pid once it is up and   *)
(* removes the file when it stops on SIGTERM; it refuses to start while   *)
(* the process named in that file is alive.  A daemon may die at any     *)
(* time; the tool may be killed at any time, and is run again.            *)
(***************************************************************************)
EXTENDS Naturals, Sequences

CONSTANT MaxRuns   \* bound on the number of invocations of the tool

ASSUME DaemonAssumption == MaxRuns \in Nat \ {0}

Daemons == {"containerd", "dockerd"}

VARIABLES
  pc,        \* control location of the current invocation
  exc,       \* the with-block is left by an exception
  sudo,      \* daemon -> the sudo process of this invocation is alive
  child,     \* daemon -> "none", "alive", "stopping" (got SIGTERM) or "dead"
  ready,     \* dockerd of this invocation listens on docker.sock
  pidFile,   \* docker.pid exists
  orphan,    \* a dockerd of an earlier invocation is still alive
  runs       \* invocations started so far

vars == <<pc, exc, sudo, child, ready, pidFile, orphan, runs>>

Alive(d) == child[d] \in {"alive", "stopping"}

-----------------------------------------------------------------------------
Init ==
  /\ pc = "stale"
  /\ exc = FALSE
  /\ sudo = [d \in Daemons |-> FALSE]
  /\ child = [d \in Daemons |-> "none"]
  /\ ready = FALSE
  /\ pidFile \in BOOLEAN
  /\ orphan \in BOOLEAN
  /\ orphan => pidFile
  /\ runs = 1

\* Lines 153-156: the process named in a stale docker.pid gets SIGKILL and
\* the file is removed.
KillStale ==
  /\ pc = "stale"
  /\ orphan' = IF pidFile THEN FALSE ELSE orphan
  /\ pidFile' = FALSE
  /\ pc' = "spawn"
  /\ UNCHANGED <<exc, sudo, child, ready, runs>>

\* Line 184: sudo containerd and sudo dockerd are started.
Spawn ==
  /\ pc = "spawn"
  /\ sudo' = [d \in Daemons |-> TRUE]
  /\ child' = [d \in Daemons |-> "alive"]
  /\ pc' = "poll"
  /\ UNCHANGED <<exc, ready, pidFile, orphan, runs>>

\* Lines 186-190 and 198-201: docker.sock accepts; the pipeline runs.
PollReady ==
  /\ pc = "poll" /\ ready
  /\ pc' = "body"
  /\ UNCHANGED <<exc, sudo, child, ready, pidFile, orphan, runs>>

\* Lines 191-195: connect failed and p2.poll() found sudo dockerd gone:
\* sys.exit(1) raises SystemExit inside the with of line 184.
PollDead ==
  /\ pc = "poll" /\ ~ready /\ ~sudo["dockerd"]
  /\ pc' = "reapD"
  /\ exc' = TRUE
  /\ UNCHANGED <<sudo, child, ready, pidFile, orphan, runs>>

\* Line 201: the pipeline returns or raises; the finally of line 202 runs.
Body ==
  /\ pc = "body"
  /\ pc' = "term_dockerd"
  /\ exc' \in BOOLEAN
  /\ UNCHANGED <<sudo, child, ready, pidFile, orphan, runs>>

\* The control locations of terminate(p) and of its wait, per daemon.
TermPc == [d \in Daemons |-> IF d = "dockerd" THEN "term_dockerd" ELSE "term_containerd"]
WaitPc == [d \in Daemons |-> IF d = "dockerd" THEN "wait_dockerd" ELSE "wait_containerd"]

(***************************************************************************)
(* Lines 116-122, for dockerd (line 204) then containerd (line 207):      *)
(* sudo kill sends SIGTERM through sudo; wait(timeout=3) returns once     *)
(* sudo has exited, else sudo kill -9 ends sudo.                          *)
(***************************************************************************)
Terminate(d) ==
  /\ pc = TermPc[d]
  /\ child' = IF sudo[d] /\ child[d] = "alive"
              THEN [child EXCEPT ![d] = "stopping"] ELSE child
  /\ pc' = WaitPc[d]
  /\ UNCHANGED <<exc, sudo, ready, pidFile, orphan, runs>>

NextAfter(d) == IF d = "dockerd" THEN "term_containerd" ELSE "reapD"

WaitExited(d) ==
  /\ pc = WaitPc[d] /\ ~sudo[d]
  /\ pc' = NextAfter(d)
  /\ UNCHANGED <<exc, sudo, child, ready, pidFile, orphan, runs>>

\* Variant whose kill -9 does not take effect (a plain wait()).
WaitTimeoutNoKill(d) ==
  /\ pc = WaitPc[d] /\ sudo[d]
  /\ pc' = NextAfter(d)
  /\ UNCHANGED <<exc, sudo, child, ready, pidFile, orphan, runs>>

WaitTimeout(d) ==
  /\ pc = WaitPc[d] /\ sudo[d]
  /\ sudo' = [sudo EXCEPT ![d] = FALSE]
  /\ pc' = NextAfter(d)
  /\ UNCHANGED <<exc, child, ready, pidFile, orphan, runs>>

\* Line 184: leaving the with waits for p2 (sudo dockerd), then for p1
\* (sudo containerd); each wait blocks until that sudo has exited.
ReapDockerd ==
  /\ pc = "reapD" /\ ~sudo["dockerd"]
  /\ pc' = "reapC"
  /\ UNCHANGED <<exc, sudo, child, ready, pidFile, orphan, runs>>

ReapContainerd ==
  /\ pc = "reapC" /\ ~sudo["containerd"]
  /\ pc' = IF exc THEN "raised" ELSE "returned"
  /\ UNCHANGED <<exc, sudo, child, ready, pidFile, orphan, runs>>

(***************************************************************************)
(* dockerd comes up: it writes its pid to docker.pid and listens.  It     *)
(* would refuse to start while docker.pid names a live process, but       *)
(* KillStale has removed the file before every Spawn.                     *)
(***************************************************************************)
DockerdUp ==
  /\ child["dockerd"] = "alive" /\ ~ready
  /\ ready' = TRUE
  /\ pidFile' = TRUE
  /\ UNCHANGED <<pc, exc, sudo, child, orphan, runs>>

\* A daemon exits: on SIGTERM, or on its own.  sudo exits with it.  A
\* dockerd leaving on SIGTERM removes docker.pid.
DaemonExits(d) ==
  /\ Alive(d)
  /\ child' = [child EXCEPT ![d] = "dead"]
  /\ sudo' = [sudo EXCEPT ![d] = FALSE]
  /\ ready' = IF d = "dockerd" THEN FALSE ELSE ready
  /\ pidFile' = IF d = "dockerd" /\ child[d] = "stopping" THEN FALSE ELSE pidFile
  /\ UNCHANGED <<pc, exc, orphan, runs>>

\* An orphaned dockerd exits; if it was stopping it removes docker.pid.
OrphanExits ==
  /\ orphan
  /\ orphan' = FALSE
  /\ pidFile' \in {pidFile, FALSE}
  /\ UNCHANGED <<pc, exc, sudo, child, ready, runs>>

\* The tool ends (or is killed) and is run again; a dockerd of this
\* invocation that is still alive is now an orphan.
Rerun ==
  /\ runs < MaxRuns
  /\ pc # "stale"
  /\ orphan' = (orphan \/ Alive("dockerd"))
  /\ pc' = "stale"
  /\ exc' = FALSE
  /\ sudo' = [d \in Daemons |-> FALSE]
  /\ child' = [d \in Daemons |-> "none"]
  /\ ready' = FALSE
  /\ runs' = runs + 1
  /\ UNCHANGED pidFile

Program ==
  \/ KillStale \/ Spawn \/ PollReady \/ PollDead \/ Body
  \/ \E d \in Daemons : Terminate(d) \/ WaitExited(d) \/ WaitTimeout(d)
  \/ ReapDockerd \/ ReapContainerd

Environment ==
  \/ DockerdUp \/ OrphanExits
  \/ \E d \in Daemons : DaemonExits(d)

Next == Program \/ Environment \/ Rerun

Spec == Init /\ [][Next]_vars

-----------------------------------------------------------------------------
TypeOK ==
  /\ pc \in {"stale", "spawn", "poll", "body", "term_dockerd", "wait_dockerd",
             "term_containerd", "wait_containerd", "reapD", "reapC",
             "returned", "raised"}
  /\ exc \in BOOLEAN
  /\ sudo \in [Daemons -> BOOLEAN]
  /\ child \in [Daemons -> {"none", "alive", "stopping", "dead"}]
  /\ ready \in BOOLEAN /\ pidFile \in BOOLEAN /\ orphan \in BOOLEAN
  /\ runs \in 1 .. MaxRuns

\* The program's thread runs whenever it can; a started dockerd that does
\* not die comes up.  No daemon is assumed to honour SIGTERM.
FairSpec == Spec /\ WF_vars(Program) /\ WF_vars(DockerdUp)

(***************************************************************************)
(* Lines 202-209 and 116-122: once the with-body of run_dockerd has      *)
(* ended, the teardown completes and run_dockerd returns or raises, even  *)
(* when a daemon ignores SIGTERM: the 3 s timeout and kill -9 of sudo     *)
(* unblock the waits of terminate and of Popen.__exit__.  (Or the        *)
(* invocation is killed and a new one starts.)                            *)
(***************************************************************************)
TeardownEnds ==
  \A r \in 1 .. MaxRuns :
    pc = "term_dockerd" /\ runs = r ~> pc \in {"returned", "raised"} \/ runs # r

(***************************************************************************)
(* Spec 5: every daemon process started by the pipeline is asked to      *)
(* terminate, given a grace period and force-killed, so none is left once *)
(* run_dockerd has returned.                                              *)
(***************************************************************************)
DaemonsStoppedOnExit ==
  pc = "returned" => \A d \in Daemons : ~Alive(d)

(***************************************************************************)
(* Spec 5 and 7: the wait for the daemon's socket ends, with the daemon   *)
(* up or, once the daemon process has exited, with a fatal error.         *)
(***************************************************************************)
StartupEnds ==
  \A r \in 1 .. MaxRuns :
    pc = "poll" /\ runs = r ~> pc \in {"body", "returned", "raised"} \/ runs # r
=============================================================================
