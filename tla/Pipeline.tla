------------------------------ MODULE Pipeline ------------------------------
(***************************************************************************)
(* The pipeline around one images.json: the digest-pinning tool           *)
(* (images.py main, lines 102-118) and the minimisation tool              *)
(* (shrink_containers.py main, lines 520-531, with analyze_image, lines   *)
(* 483-505), run one after the other as separate invocations, each of     *)
(* which may be killed at any point.  Both persist the whole list with    *)
(* write_images (images.py lines 92-99), which truncates the file and     *)
(* then writes it.                                                         *)
(*                                                                         *)
(* An image record keeps what the pipeline tells apart: whether           *)
(* repo_digest is set, whether every sidecar's repo_digest is set, the    *)
(* completion marker (old_size and new_size both set) and skip.  One call *)
(* of analyze_image is one step with its three outcomes; the controller   *)
(* and the minimiser it drives are the modules Controller and Minimize.   *)
(***************************************************************************)
EXTENDS Naturals, Sequences, FiniteSets

CONSTANTS
  Images,     \* the image names of images.json
  MaxRuns     \* bound on the number of tool invocations

ASSUME PipelineAssumption == IsFiniteSet(Images) /\ MaxRuns \in Nat

\* An image record of images.json as Image.from_json reads it.
Rec == [digest : BOOLEAN, sideDigest : BOOLEAN, done : BOOLEAN, skip : BOOLEAN]

VARIABLES
  order,      \* the order of the images in images.json
  file,       \* images.json as last written in full: name -> Rec
  torn,       \* open(path, "w") has truncated it and json.dump not finished
  tool,       \* the running invocation: "none", "pin" or "shrink"
  mem,        \* the running invocation's list, read by read_images
  pc,         \* "loop", "truncate" or "dump"
  j,          \* index of the current image of the loop
  runs,       \* invocations started so far
  verified,   \* ghost: images whose verification run succeeded
  completed,  \* ghost: images whose completion marker has been persisted
  pinned      \* ghost: an invocation of images.py has finished its loop

vars == <<order, file, torn, tool, mem, pc, j, runs, verified, completed, pinned>>

Cur == order[j]

\* Variant that tests only skip, not the completion marker.
ProcessedOnlySkip(r) == r.skip

\* Line 527: the record carries both sizes, or skip.
Processed(r) == r.done \/ r.skip

-----------------------------------------------------------------------------
Init ==
  /\ order \in [1 .. Cardinality(Images) -> Images]
  /\ \A m \in Images : \E x \in DOMAIN order : order[x] = m
  /\ file \in [Images -> Rec]
  /\ torn = FALSE
  /\ tool = "none"
  /\ mem = file
  /\ pc = "loop"
  /\ j = 1
  /\ runs = 0
  /\ verified = {m \in Images : file[m].done}
  /\ completed = {m \in Images : file[m].done}
  /\ pinned = FALSE

\* images.py lines 106-107 and shrink_containers.py lines 521-525: the
\* tool reads images.json; json.load of a partial file raises.
Start(t) ==
  /\ tool = "none" /\ runs < MaxRuns
  /\ runs' = runs + 1
  /\ \/ ~torn /\ tool' = t /\ mem' = file /\ pc' = "loop" /\ j' = 1
     \/ torn /\ UNCHANGED <<tool, mem, pc, j>>
  /\ UNCHANGED <<order, file, torn, verified, completed, pinned>>

\* Variant whose write path also moves to the next image.
PinImageAdvance ==
  /\ tool = "pin" /\ pc = "loop" /\ j <= Len(order)
  /\ \/ mem[Cur].digest /\ j' = j + 1 /\ UNCHANGED <<tool, mem, pc>>
     \/ ~mem[Cur].digest
        /\ mem' = [mem EXCEPT ![Cur].digest = TRUE]
        /\ pc' = "truncate"
        /\ j' = j + 1
        /\ UNCHANGED tool
     \/ ~mem[Cur].digest /\ tool' = "none" /\ UNCHANGED <<mem, pc, j>>
  /\ UNCHANGED <<order, file, torn, runs, verified, completed, pinned>>

\* images.py lines 109-118: an image without repo_digest is pulled and
\* inspected (either may fail and end the tool), and the list written.
PinImage ==
  /\ tool = "pin" /\ pc = "loop" /\ j <= Len(order)
  /\ \/ mem[Cur].digest /\ j' = j + 1 /\ UNCHANGED <<tool, mem, pc>>
     \/ ~mem[Cur].digest
        /\ mem' = [mem EXCEPT ![Cur].digest = TRUE]
        /\ pc' = "truncate"
        /\ UNCHANGED <<tool, j>>
     \/ ~mem[Cur].digest /\ tool' = "none" /\ UNCHANGED <<mem, pc, j>>
  /\ UNCHANGED <<order, file, torn, runs, verified, completed, pinned>>

\* images.py line 109: the loop is over; the tool exits.
EndPin ==
  /\ tool = "pin" /\ pc = "loop" /\ j > Len(order)
  /\ tool' = "none"
  /\ pinned' = TRUE
  /\ UNCHANGED <<order, file, torn, mem, pc, j, runs, verified, completed>>

\* Lines 527-529: an image carrying both sizes, or skip, is passed over.
SkipImage ==
  /\ tool = "shrink" /\ pc = "loop" /\ j <= Len(order)
  /\ Processed(mem[Cur])
  /\ j' = j + 1
  /\ UNCHANGED <<order, file, torn, tool, mem, pc, runs, verified, completed, pinned>>

\* Variant in which a failing verification run still records the sizes.
AnalyzeImageUnverified ==
  /\ tool = "shrink" /\ pc = "loop" /\ j <= Len(order)
  /\ ~Processed(mem[Cur])
  /\ \/ ~(mem[Cur].digest /\ mem[Cur].sideDigest)
        /\ tool' = "none" /\ UNCHANGED <<mem, pc, verified>>
     \/ mem[Cur].digest /\ mem[Cur].sideDigest
        /\ mem' = [mem EXCEPT ![Cur].done = TRUE]
        /\ pc' = "truncate"
        /\ UNCHANGED <<tool, verified>>
     \/ mem[Cur].digest /\ mem[Cur].sideDigest
        /\ mem' = [mem EXCEPT ![Cur].done = TRUE]
        /\ verified' = verified \cup {Cur}
        /\ pc' = "truncate"
        /\ UNCHANGED tool
  /\ UNCHANGED <<order, file, torn, j, runs, completed, pinned>>

(***************************************************************************)
(* Lines 483-505 and 530: analyze_image asserts repo_digest (line 490);   *)
(* the traced run starts the sidecars, whose run_container asserts their  *)
(* own repo_digest (line 254); the traced run, the minimisation or the    *)
(* verification run may fail, which ends the tool; only when all succeed *)
(* are the sizes set and the list written (line 531).                     *)
(***************************************************************************)
AnalyzeImage ==
  /\ tool = "shrink" /\ pc = "loop" /\ j <= Len(order)
  /\ ~Processed(mem[Cur])
  /\ \/ ~(mem[Cur].digest /\ mem[Cur].sideDigest)
        /\ tool' = "none" /\ UNCHANGED <<mem, pc, verified>>
     \/ mem[Cur].digest /\ mem[Cur].sideDigest
        /\ tool' = "none" /\ UNCHANGED <<mem, pc, verified>>
     \/ mem[Cur].digest /\ mem[Cur].sideDigest
        /\ mem' = [mem EXCEPT ![Cur].done = TRUE]
        /\ verified' = verified \cup {Cur}
        /\ pc' = "truncate"
        /\ UNCHANGED tool
  /\ UNCHANGED <<order, file, torn, j, runs, completed, pinned>>

\* Line 531: the loop is over; the bridge and the daemons are torn down.
EndShrink ==
  /\ tool = "shrink" /\ pc = "loop" /\ j > Len(order)
  /\ tool' = "none"
  /\ UNCHANGED <<order, file, torn, mem, pc, j, runs, verified, completed, pinned>>

\* images.py line 93: open(path, "w") truncates images.json.
Truncate ==
  /\ tool # "none" /\ pc = "truncate"
  /\ torn' = TRUE
  /\ pc' = "dump"
  /\ UNCHANGED <<order, file, tool, mem, j, runs, verified, completed, pinned>>

\* images.py lines 94-99: the whole list is dumped; the loop goes on.
Dump ==
  /\ tool # "none" /\ pc = "dump"
  /\ file' = mem
  /\ torn' = FALSE
  /\ completed' = completed \cup {m \in Images : mem[m].done}
  /\ pc' = "loop"
  /\ j' = j + 1
  /\ UNCHANGED <<order, tool, mem, runs, verified, pinned>>

\* The running tool is killed (signal, power loss); what was written stays.
Crash ==
  /\ tool # "none"
  /\ tool' = "none"
  /\ UNCHANGED <<order, file, torn, mem, pc, j, runs, verified, completed, pinned>>

Next ==
  \/ Start("pin") \/ Start("shrink")
  \/ PinImage \/ EndPin \/ SkipImage \/ AnalyzeImage \/ EndShrink
  \/ Truncate \/ Dump \/ Crash

Spec == Init /\ [][Next]_vars

-----------------------------------------------------------------------------
TypeOK ==
  /\ order \in [1 .. Cardinality(Images) -> Images]
  /\ file \in [Images -> Rec]
  /\ torn \in BOOLEAN
  /\ tool \in {"none", "pin", "shrink"}
  /\ mem \in [Images -> Rec]
  /\ pc \in {"loop", "truncate", "dump"}
  /\ j \in 1 .. Len(order) + 1
  /\ runs \in 0 .. MaxRuns
  /\ verified \subseteq Images /\ completed \subseteq Images
  /\ pinned \in BOOLEAN

(***************************************************************************)
(* Spec 4.4 and 8 (pipeline resumability): an image whose completion      *)
(* marker has been persisted is never analysed again, by any later        *)
(* invocation of either tool.                                             *)
(***************************************************************************)
NeverRedone == [][AnalyzeImage => Cur \notin completed]_vars

(***************************************************************************)
(* Spec 4.4 step 5 and 7: a failed verification run is fatal and no      *)
(* sizes are written, so images.json marks an image complete only after  *)
(* its minimised image passed the verification run.                       *)
(***************************************************************************)
VerifiedBeforeDone ==
  ~torn => \A m \in Images : file[m].done => m \in verified

(***************************************************************************)
(* Spec 4.4: a crashed or interrupted run is safely restartable without   *)
(* redoing completed images: whenever no tool runs, images.json can be    *)
(* read and keeps every completion marker ever written.                   *)
(***************************************************************************)
DoneMarksDurable ==
  tool = "none" => ~torn /\ \A m \in completed : file[m].done

(***************************************************************************)
(* Spec 3: repo_digest is set before any container instantiation is      *)
(* attempted, resolved once and persisted; sidecars are Images too.  Once *)
(* images.py has pinned the list, analyze_image finds every digest it    *)
(* asserts, its own (line 490) and its sidecars' (line 254).             *)
(***************************************************************************)
DigestsBeforeInstantiation ==
  [][pinned /\ AnalyzeImage => mem[Cur].digest /\ mem[Cur].sideDigest]_vars
=============================================================================
