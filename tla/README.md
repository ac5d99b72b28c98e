# Formal models of runq's container-shrinking pipeline

This directory holds TLA+ models of the Python tooling in `src/`. The tooling
minimises container images: it traces which files a container opens, keeps
those files and what they depend on, and re-runs the workload on the reduced
image to check it. The modules are checked with TLC. The most important
invariants are also proved with TLAPS.

## 1. The system

| Part | Source | What it does |
|---|---|---|
| Image descriptors | `images.py` 11-99 | `Image` records, `read_images`, and `write_images`, which truncates `images.json` and then dumps it. |
| Digest pinning | `images.py` 102-118 | For each top-level image without `repo_digest`: pull, inspect, set the digest, rewrite the file. |
| Resolver and rewriter | `shrink_containers.py` 350-480, `shrink_image` | 1. Seed `path_set` with a bootstrap list and the trace log. 2. Scan the exported tar once, building a shadow tree of symlinks and empty placeholders, recording `#!` interpreters, and picking up the interpreter of a file already in `path_set`. 3. Resolve a snapshot of `path_set` through the shadow tree. 4. Write a tar that keeps every directory and symlink and the files in `path_set`. |
| Run controller | 244-341 | `run_container_instrumented`: each sidecar is a `run_container` context on an `ExitStack`. Then come the `${name}` substitution in the parent's envs, a settle sleep, and the parent under runq. `test_image` polls every test port with `wait_tcp_port`. |
| Pipeline | 483-505, 520-531 | `main`: for each image that is neither complete (both sizes set) nor skipped, run `analyze_image` and then `write_images`. `analyze_image` does a traced run, `shrink_image` inside that run, a verification run of the new image, and then sets the sizes. |
| Daemon and bridge | 116-209, 508-517 | `create_bridge`, and `run_dockerd`, which starts containerd and dockerd, polls the socket and terminates both at the end. |
| Build, reports | 75-113, `pin-images.py`, `export_tsv.py` | Build of runq, a digest list generator, and a TSV report. |

How the parts interact:

- `main` drives `analyze_image` once per image.
- `analyze_image` runs the controller twice. Between the two runs it calls the
  resolver on the traced run's log.
- Both tools, the digest pinner and the minimiser, read and rewrite the same
  `images.json`. It is the only state that survives between invocations.

## 2. Modules

| Module | Models | State | Actions |
|---|---|---|---|
| `Minimize` | `shrink_image` | The archive (`arch`: path → entry; `order`: stream order), `logs`, `pathSet`, the shadow tree `shadow` (path → Absent, File, or a link target), `shebangs`, the pass-2 snapshot `todo`, the output `out` | One action per scan case (`ScanSymlink`, `ScanSkip`, `ScanRegular`), per pass-2 outcome (`ResolveSkip`, `ResolveLoopError`, `ResolveLink`), per rewritten member, and one per phase end |
| `MinimizeOrder` | Two runs of `shrink_image` on one archive in two stream orders | Two instances of `Minimize` sharing `arch` and `logs` | A's steps, then B's |
| `Controller` | One call of `run_container_instrumented` with its body | `pc`, the ExitStack `stack`, the container state of each name in the daemon `ctr`, the substituted `env`, the probe index, the exception flag, and the ghost `entered` | Start or fail each sidecar, substitute, start or fail the parent, probe, body, remove the parent, unwind the stack, leave. The environment's actions: the workload listens, a container exits. |
| `Pipeline` | `images.py` main, `shrink_containers.py` main and `analyze_image` | `images.json` (`file`, plus `torn` while it is being rewritten), the running tool, its in-memory list, the loop index, the invocation count, and the ghosts `verified`, `completed` and `pinned` | Start either tool, pin an image, skip or analyse an image, truncate, dump, kill the running tool |
| `Daemon` | `run_dockerd` and `terminate`, over successive invocations | `pc`, the exception flag, for each daemon whether its `sudo` lives and the state of the daemon under it (`none`, `alive`, `stopping` after SIGTERM, `dead`), whether dockerd listens, whether `docker.pid` exists, whether a dockerd of an earlier invocation lives (`orphan`), the invocation count | Kill the stale pid, spawn, poll (ready, or dockerd gone and `sys.exit`), body, terminate/wait/timeout per daemon, the two `Popen.__exit__` waits. The environment's actions: dockerd comes up, a daemon exits, an orphan exits. The tool may be killed and run again (`Rerun`, an environment action bounded by `MaxRuns`; it stands for the user re-invoking the tool and models no code). |
| `ScopedRun` | What `run_container_instrumented` promises about its containers (spec 4.3: scoped acquisition with guaranteed cleanup) | `held`: the acquired resources not yet released, oldest first; `released`; `closed` | `Acquire(r)` of a resource never acquired in the scope, `Release` of the last one held, `Close` with nothing held |
| `MinimizeProofs` | Proofs about `Minimize` | | |
| `PipelineProofs` | Proofs about `Pipeline` | | |
| `ControllerProofs` | Proofs about `Controller`, including that it implements `ScopedRun` | | |
| `DaemonProofs` | Proofs about `Daemon` | | |

How the data is abstracted:

- A path is a model value. Symlinks on intermediate directories are therefore
  not modelled, but chains of symlinks are.
- A regular member carries what its first line declares: no interpreter, an
  empty `#!`, or an absolute interpreter path.
- An env is the set of `${name}` placeholders it contains.
- An image record is four booleans: digest set, every sidecar's digest set,
  complete, skip.

Every action carries the code's guards and failure outcomes. An uncaught
exception sets `pc` to `"failed"` in `Minimize`, sends `Controller` to the
unwinding, and ends the tool in `Pipeline`.

## 3. Runs

All runs use `CHECK_DEADLOCK FALSE`. Each modelled procedure really returns or
raises, and each tool really exits.

| Run | Checks | Result and what it shows |
|---|---|---|
| `minimize_core` (`MCMinimize.cfg`) | `TypeOK`, `SeedTargetsRetained`, `InterpretersRetained` | **Pass.** The instance is every archive of directories, files and symlinks over 3 paths, in every order, with every log. It reaches about 600k states and covers loops, dangling links, out-of-tree links, scripts whose interpreter is a link, and bad `#!` lines. Every seed keeps its final regular target. Every seeded script keeps its interpreter. |
| `minimize_hardlinks` | `ReducedServesSeeds` | **Violated.** A logged hard link is kept and the member it names is dropped. |
| `minimize_order` (`MCMinimizeOrder`) | `OrderIrrelevant` | **Violated.** The interpreter of an interpreter is kept in one stream order and not in the other. |
| `controller_core` (`MCController.cfg`) | `TypeOK`, `SidecarsOutliveParent`, `UnwoundOnExit`, `ScopedRefined` | **Pass.** The instance has 0-2 sidecars, stale containers under every name, and every docker step able to fail. The parent only runs with all its sidecars present. Every entered container is removed on every exit path. `ScopedRefined` is `ScopedRun!Spec` under a mapping. The held containers are the ExitStack, with the parent on top while its with-block is open. A container is released once it has been entered and removed. The scope is closed when the call returns or raises. Two sidecars are needed to tell last-in first-out from first-in first-out, and the instance has them. |
| `controller_env` | `ParentEnvResolved` | **Violated** with two sidecars (a code bug; see findings). |
| `controller_hang` | `CallEnds` under `FairSpec` | **Violated.** The container exits before listening, and `wait_tcp_port` spins for ever. |
| `pipeline_core` (`MCPipeline.cfg`) | `TypeOK`, `VerifiedBeforeDone`, `NeverRedone` | **Pass.** The instance has 2 images, 3 invocations, and kills anywhere. Only verified images are marked complete, and no invocation analyses an image whose marker is in `images.json`. There is no refinement to a per-image lifecycle in which markers only accumulate. `write_images` truncates `images.json` before it dumps (`images.py:93`), and `read_images` fails on the truncated file (lines 85-87). A kill between the two therefore loses every marker, so a `done` image goes back to not done. `pipeline_crash` shows this. |
| `pipeline_crash` | `DoneMarksDurable` | **Violated.** A kill between truncation and dump leaves `images.json` unreadable. |
| `daemon_core` (`MCDaemon.cfg`) | `TeardownEnds` under `FairSpec` | **Pass.** Three invocations, kills anywhere, daemons that may ignore SIGTERM. Once the with-body has ended, the teardown ends: the 3 s timeout and `kill -9` unblock every wait. |
| `daemon_orphan` | `DaemonsStoppedOnExit` | **Violated.** `kill -9` reaches `sudo`, not the daemon. |
| `daemon_hang` | `StartupEnds` under `FairSpec` | **Violated.** dockerd dies during start-up; `sys.exit` then waits for containerd for ever. |
| `pipeline_digests` | `DigestsBeforeInstantiation` | **Violated.** Sidecar digests are never pinned. |

### Why the bounds are enough

- **Minimize:** three paths are enough to build a chain of two symlinks, a
  loop, and a script whose interpreter is a symlink to a file.
- **Controller:** two sidecars are the smallest case in which the ExitStack
  order and the substitution loop can go wrong.
- **Daemon:** three invocations let a killed invocation leave an orphan
  that the next one must clear, and a third start after that.
- **Pipeline:** three invocations let a killed run be followed by a resume,
  and two images let a skip and an analysis happen in one run.

### Fairness

The controller's liveness run assumes:

- weak fairness of the program's own steps. There is a single control thread
  (spec section 5), and nothing else competes for it.
- weak fairness of the workload's `Listen` step. A healthy container that
  keeps running eventually opens its port.

It assumes no fairness for a container exiting. The run shows that an exit
alone blocks progress.

The daemon's liveness runs assume weak fairness of the program's steps (the
same single thread) and of dockerd coming up. They assume no fairness of a
daemon exiting, not even on SIGTERM: `TeardownEnds` holds because the code
does not rely on it. A rerun of the tool is never forced. Both liveness
properties are stated per invocation, so a later invocation cannot discharge
an earlier one's obligation.

### Mutants

Every property of a passing run has a mutant recorded in `PROJECT.json`. A
mutant is a plausible bug in one action, and TLC finds it:

- a pass-2 step that adds the source instead of the target;
- a missing interpreter pick-up;
- a sidecar loop that stops one short;
- an exception that skips the unwinding;
- an ExitStack that removes the oldest sidecar first;
- a skip test without the completion marker;
- a verification failure that still records the sizes;
- a timeout whose `kill -9` has no effect (a plain `wait()`).

`Daemon`'s `TypeOK` is not checked by a run. Every action of `Daemon` writes
values of the declared types, so no plausible bug in `run_dockerd` or
`terminate` can break it. It is proved instead (section 5).

## 4. Findings

1. **Code bug**, `shrink_containers.py:289`. `image.envs[i] = env.replace(...)`
   starts from the original `env` for every sidecar. Only the last sidecar's
   placeholder is replaced.
2. **Spec gap**, line 400. docker export writes hard links. The scan ignores
   them, and the rewrite can keep a hard link without its target.
3. **Divergence** (modelled, not given a run), lines 416, 436, 447-451.
   Resolution anomalies raise, and `Minimize` ends in `"failed"`. Spec
   section 7 says they are skipped.
4. **Divergence**, line 421. The reduced image depends on the tar order.
5. **Divergence** (modelled, not given a run), line 264. A container created
   by a failing `docker run` is not removed. The next `run_container` of the
   same name removes it with `docker rm -f` (line 256).
6. **Divergence**, line 308. Port waits do not end when the container has
   exited.
7. **Divergence**, `images.py:93`. `write_images` is not atomic, so one kill
   loses every completion marker.
8. **Divergence**, `images.py:110`. Sidecar digests are never resolved, and
   `run_container` asserts them at line 254.

9. **Divergence**, line 122. On timeout `terminate` sends `kill -9` to the
   pid of `sudo`. sudo does not relay SIGKILL, so the daemon survives.
   Spec section 5 says such a daemon is force-killed.
10. **Code bug**, line 195. `sys.exit(1)` inside
    `with Popen(containerd) as p1, Popen(cmd) as p2` makes `p1.__exit__`
    wait for containerd, which is never told to stop. The tool hangs.
11. **Divergence** (modelled, not given a run), line 153. The previous invocation's dockerd is found only
    through `docker.pid`. If the tool was killed before dockerd wrote it, that
    dockerd survives and the next one starts beside it. The window is the
    start-up of dockerd, so this is rare.

## 5. Proofs

`MinimizeProofs` proves, for every finite `Paths` and every `Bootstrap` and
`Kinds` that satisfy `ConstantsAssumption`:

- **`TypeCorrect`:** `Spec => []TypeOK`. It rests on `OrderIsSeq` (a stream
  order is a sequence of length `Cardinality(D)`), and on `InitTypeOK` and
  `NextTypeOK`, which has one case per action.
- **`SeedTargets`:** `Spec => []SeedTargetsRetained`.
- **`Interpreters`:** `Spec => []InterpretersRetained`.

`SeedTargetsRetained` is not inductive. It talks about the final output, while
the code builds that output across three phases. The inductive invariant `IInv`
adds one named conjunct per phase fact:

- **`SeedsInPathSet`:** the seed is in `pathSet` from the start.
- **`ShadowScanned` / `ShadowFull`:** the shadow tree equals `TreeOf` of the
  members scanned so far, and the full `ArchTree` once the scan is over.
- **`ResolvedSoFar` / `ResolvedAll`:** every seed already processed in pass 2,
  and every seed once pass 2 is over, has its final regular target in
  `pathSet`.
- **`RewrittenSoFar` / `RewrittenAll`:** `out` holds exactly the kept members
  written so far, and all of them once the rewrite is over.
- **`NothingWritten`:** `out` is empty before the rewrite.

`NextIInv` proves each conjunct preserved with one step per action. It relies
on frame lemmas: the inputs, `Seed`, `ArchTree` and `Target` do not change.
`IInv` was checked with TLC as an invariant before it was proved.

`InterpretersRetained` needs a second invariant, `JInv`, on top of `IInv`.
The code keeps a seeded script's interpreter in one of two ways:

- **The script is the seed path itself.** The scan adds the interpreter when
  it reads the script (line 421). This works because the seed is already in
  `path_set`. Pass 2 then either skips the interpreter, when it is not a
  link, or adds its final target.
- **The script is reached through a symlink chain.** Pass 2 finds the
  script's `#!` entry in `shebangs` and adds the interpreter's final target
  (lines 445-453). Otherwise the step fails.

`JInv` has one conjunct for each fact these two cases use:

- **`ShebangsScanned` / `ShebangsFull`:** `shebangs` is exactly the `#!`
  interpreters of the members scanned so far, and of all members once the
  scan is over (`ShebangsOf`).
- **`PickedUpSoFar`:** every scanned seed that is a script has its
  interpreter in `pathSet`.
- **`InterpsSoFar`:** during pass 2, every seeded script either still has a
  pending path in `todo` (`Pending`: the interpreter for a direct script, the
  seed for a linked one), or already has its interpreter's final target in
  `pathSet`.
- **`InterpsAll`:** the second alternative holds once pass 2 is over.

`NextJInv` proves `JInv` preserved, with one step per action. The scan steps
share the lemma `ScanStepJInv`. `JInv` was checked with TLC on the
`minimize_core` instance (609,170 states) before it was proved.

`PipelineProofs` proves, for every finite set of images and every bound on
the invocations (`PipelineAssumption`):

- **`TypeCorrect`:** `Spec => []TypeOK`. `TypeOK` alone is not inductive. A
  dump advances the loop index, and it stays in range only because a write
  starts for an image of the list. `TInv` adds `pc \in Writing => j <= Len(order)`.
  The frame lemma `OrderFrozen` keeps the image order out of the step cases,
  whose function-space type makes SMT time out.
- **`VerifiedFirst`:** `Spec => []VerifiedBeforeDone`.
- **`NoRedo`:** `Spec => NeverRedone`, an action property.
The last two rest on the inductive invariant `IInv`:

- **`DoneVerified`:** a marker in the file was verified.
- **`MemVerified`:** a marker in memory was verified.
- **`MemSynced`:** while a tool runs, its in-memory list and the file agree
  on the markers. The one exception is the image being written.
- **`CompletedOnFile`:** the ghost `completed` is the set of markers in the
  file.

`MemSynced` is why the invariant is needed. A kill, or a dump, can only keep
`VerifiedBeforeDone` if the list being dumped carries no marker the file
lacks, other than the current image's.

`ControllerProofs` proves, for every set of sidecar names, bound on the
sidecars and number of envs and test ports (`ControllerAssumption`):

- **`TypeCorrect`:** `Spec => []TypeOK`. `SidecarsIsSeq` turns the image's
  sidecars into a sequence, and `InputsFrozen` says no step changes them.
- **`Unwound`:** `Spec => []UnwoundOnExit`. The invariant says, in every
  state, who still owes each container's removal:
  - **`SidecarsOnStack`:** before the unwinding, every entered sidecar is on
    the ExitStack.
  - **`SidecarsOwed`:** an entered sidecar is on the stack, or it is gone.
  - **`ParentClosed`:** the parent is entered only after the loop, and is
    gone once the unwinding starts.
  - **`EmptyOnExit`:** the call leaves only with an empty stack.

  `PopKeeps` and `PushKeeps` say what popping and pushing do to the stack's
  entries.
- **`SidecarsFirst`:** `Spec => []SidecarsOutliveParent`.
  - **`StackIsPrefix`:** until the unwinding, the stack is
    `SubSeq(sidecars, 1, k - 1)` and none of those containers is gone.
  - **`LoopDone`:** the parent is entered only after the whole loop.
  - **`PushNext`:** pushing the k-th sidecar onto the first k - 1 gives the
    first k.
- **`ScopedAcquisition`:** `Spec => ScopedRefined`. It rests on `RInv`, which
  adds three facts to the invariants of `Unwound` and `SidecarsFirst`:
  - **`StackEntered`:** every container on the ExitStack has been entered, so
    popping it releases it.
  - **`EnteredFresh`:** no sidecar still to be started in the loop has been
    entered. Starting one is then a fresh acquisition, because
    `image.sidecars` has no repeats (`SidecarsInjective`).
  - **`ParentOpen`:** the parent is entered while its with-block is open.

  `NextScoped` maps each step. `StartSidecar` and `StartParent` are
  `Acquire`. `ExitParent` and `UnwindSidecar` are `Release`; here
  `FrontAppend` and `FrontKeeps` give what dropping the last entry does.
  `Leave` is `Close`. Every other step, a failed docker run included, is a
  stutter.

`DaemonProofs` proves **`TypeCorrect`:** `Spec => []TypeOK` for every bound on
the invocations (`DaemonAssumption`). The bound on `runs` holds because
the environment's `Rerun` is guarded. The per-daemon control locations are the functions
`TermPc` and `WaitPc`, because the provers cannot evaluate string
concatenation.

Every strengthened invariant was first checked with TLC as an invariant of
the run of its module.

Left to TLC:

- **the liveness properties `CallEnds`, `TeardownEnds` and `StartupEnds`:**
  they rest on fairness and `ENABLED`, which the installed provers do not
  reason about;
- **what the recursive chase computes for every input:** that needs
  induction over data, and the library's induction theorems take an operator
  parameter that none of the installed provers can instantiate. The proofs
  use only what one hop of the chase does, and the shape of `FinalIn`.

No theorem module reaches a `RECURSIVE` operator. The symlink chase is a
recursive function.

## 6. Not modelled

- **`docker_run_options`:** it builds option strings only.
- **Name sanitisation:** assumed injective (a hazard is recorded).
- **Removal by the untrimmed container id:** taken as succeeding (a hazard is
  recorded).
- **`create_bridge`:** two `ip link` commands, with no state the models
  tell apart.
- **Pid reuse:** the daemon model does not name processes, so a stale
  `docker.pid` naming an unrelated process is not modelled.
- **`build_runq`, `pin-images.py`, `export_tsv.py`, logging:** I/O with no
  state shared with the rest of the system.

## 7. Plan for the next steps

1. **A composition of `Controller` and `Pipeline`:** `analyze_image` as two
   controller calls. Its `AnalyzeImage` outcomes would be refined by the
   controller's.
2. **A composition of `Daemon` with the pipeline's shrink tool:** a kill of
   the tool is then also a kill of the invocation of `run_dockerd`.
