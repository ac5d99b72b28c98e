------------------------------ MODULE Minimize ------------------------------
(***************************************************************************)
(* The minimisation engine of shrink_containers.py: shrink_image, lines    *)
(* 350-480.  Given the exported archive of an image and the paths the      *)
(* traced run logged, it                                                   *)
(*   1. seeds path_set with a fixed bootstrap set and the logged paths,    *)
(*   2. scans the archive once, materialising symlinks and empty           *)
(*      placeholders of regular files in a shadow tree, recording each     *)
(*      file's "#!" interpreter, and adding the interpreter of a file      *)
(*      whose path is already in path_set,                                 *)
(*   3. resolves every path of a snapshot of path_set in the shadow tree,  *)
(*      adding the final target of a symlink chain and, for a target that  *)
(*      is a script, its resolved interpreter,                             *)
(*   4. rewrites the archive, keeping every directory and symlink and each *)
(*      other entry whose path is in path_set.                             *)
(*                                                                         *)
(* Paths are abstract: an archive is a function from a set of paths to     *)
(* entries, plus the order in which the tar stream lists them.  A path     *)
(* has no components, so a symlink on a directory of a path is not        *)
(* modelled; a chain of symlinks is.                                       *)
(***************************************************************************)
EXTENDS Naturals, Sequences, FiniteSets

CONSTANTS
  Paths,        \* absolute paths that archives and logs may name
  Outside,      \* a symlink target that leaves the shadow tree's root
  NoInterp,     \* first line is not "#!/<abs path>": no interpreter recorded
  EmptyInterp,  \* first line is "#!" followed by nothing but blanks
  Bootstrap,    \* the fixed seed of lines 352-362
  Kinds         \* the entry kinds archives may contain

ASSUME ConstantsAssumption ==
  /\ IsFiniteSet(Paths)
  /\ Outside \notin Paths
  /\ NoInterp \notin Paths /\ EmptyInterp \notin Paths
  /\ NoInterp # EmptyInterp
  /\ Bootstrap \subseteq Paths
  /\ Kinds \subseteq {"dir", "reg", "sym", "hardlink"}

(***************************************************************************)
(* Archive entries (tarfile members).  A regular file carries what its    *)
(* first line declares; a symlink its link name; a hard link the earlier  *)
(* member it names.                                                        *)
(***************************************************************************)
Entry ==
  {e \in [kind : {"dir"}] \cup
         [kind : {"reg"}, interp : Paths \cup {NoInterp, EmptyInterp}] \cup
         [kind : {"sym"}, to : Paths \cup {Outside}] \cup
         [kind : {"hardlink"}, to : Paths] : e.kind \in Kinds}

\* The orders in which a tar stream can list the members with paths D:
\* Cardinality(D) positions that name every member, hence each one once.
Orders(D) ==
  {s \in [1 .. Cardinality(D) -> D] :
     \A x \in D : \E j \in 1 .. Cardinality(D) : s[j] = x}

\* A hard link names a regular member that precedes it in the stream.
WellFormed(ord, a) ==
  \A j \in DOMAIN ord :
    a[ord[j]].kind = "hardlink" =>
      \E k \in 1 .. j - 1 : ord[k] = a[ord[j]].to /\ a[ord[k]].kind = "reg"

\* Shadow tree nodes: a path is absent, an empty placeholder, or a symlink
\* whose (tree-relative) target is a path or Outside.
Absent == "absent"
File == "file"
ShadowNode == {Absent, File} \cup Paths \cup {Outside}

VARIABLES
  order,     \* the archive's member paths in stream order
  arch,      \* the archive: member path -> entry
  logs,      \* absolute paths read from the trace log
  pc,        \* "scan", "resolve", "rewrite", "done" or "failed"
  i,         \* index of the next member in the scan and in the rewrite
  pathSet,   \* path_set
  shadow,    \* the shadow tree symlink_tree
  shebangs,  \* the dict shebangs: member path -> interpreter
  todo,      \* what is left of the snapshot list(path_set) of pass 2
  out        \* member paths written to the reduced archive

inputs == <<order, arch, logs>>
vars == <<order, arch, logs, pc, i, pathSet, shadow, shebangs, todo, out>>

Seed == Bootstrap \cup logs
Members == DOMAIN arch

-----------------------------------------------------------------------------
(***************************************************************************)
(* Path resolution in a shadow tree t.  One hop replaces a symlink by its *)
(* target; Path.resolve() follows the whole chain.  A chain of distinct   *)
(* symlinks has at most Cardinality(Paths) hops, so a path that is still  *)
(* a symlink after that many hops lies on a loop.                         *)
(***************************************************************************)
IsLinkIn(t, x) == x \in Paths /\ t[x] \in Paths \cup {Outside}

Hop(t, x) == IF IsLinkIn(t, x) THEN t[x] ELSE x

FinalIn(t, x) ==
  LET chase[n \in Nat] == IF n = 0 THEN x ELSE Hop(t, chase[n - 1])
  IN  chase[Cardinality(Paths)]

\* Path.exists(): the chain ends at a materialised file.
ExistsIn(t, x) == FinalIn(t, x) \in Paths /\ t[FinalIn(t, x)] = File

\* The chain never leaves the tree and never ends: a symlink loop.
LoopsIn(t, x) == IsLinkIn(t, FinalIn(t, x))

Final(x) == FinalIn(shadow, x)

\* The shadow node that scanning member x materialises.
NodeOf(x) ==
  CASE arch[x].kind = "sym" -> arch[x].to
    [] arch[x].kind = "reg" -> File
    [] OTHER                -> Absent

\* The shadow tree once the members S have been scanned.
TreeOf(S) == [x \in Paths |-> IF x \in S THEN NodeOf(x) ELSE Absent]

\* The shadow tree once every member has been scanned.
ArchTree == TreeOf(Members)

\* Lines 464: the rewriter keeps directories and symlinks unconditionally.
Kept(x) == arch[x].kind \in {"dir", "sym"} \/ x \in pathSet

-----------------------------------------------------------------------------
(***************************************************************************)
(* Lines 351-370: path_set starts as the bootstrap set plus every logged  *)
(* absolute path.  The archive is any well-formed archive over Paths.     *)
(***************************************************************************)
Init ==
  /\ \E D \in SUBSET Paths :
       /\ arch \in [D -> Entry]
       /\ order \in Orders(D)
  /\ WellFormed(order, arch)
  /\ logs \in SUBSET Paths
  /\ pc = "scan"
  /\ i = 1
  /\ pathSet = Bootstrap \cup logs
  /\ shadow = [x \in Paths |-> Absent]
  /\ shebangs = [x \in Paths |-> NoInterp]
  /\ todo = {}
  /\ out = {}

\* Lines 391-399: a symlink member is materialised in the shadow tree.
ScanSymlink ==
  /\ pc = "scan" /\ i <= Len(order)
  /\ arch[order[i]].kind = "sym"
  /\ shadow' = [shadow EXCEPT ![order[i]] = arch[order[i]].to]
  /\ i' = i + 1
  /\ UNCHANGED <<inputs, pc, pathSet, shebangs, todo, out>>

\* Lines 400-401: directories and hard links are skipped by the scan.
ScanSkip ==
  /\ pc = "scan" /\ i <= Len(order)
  /\ arch[order[i]].kind \in {"dir", "hardlink"}
  /\ i' = i + 1
  /\ UNCHANGED <<inputs, pc, pathSet, shadow, shebangs, todo, out>>

\* Variant without the pick-up of line 421: no interpreter is added in the scan.
ScanRegularNoPickup ==
  /\ pc = "scan" /\ i <= Len(order)
  /\ arch[order[i]].kind = "reg"
  /\ LET x == order[i]
         interp == arch[x].interp
     IN  \/ /\ interp = EmptyInterp
            /\ pc' = "failed"
            /\ UNCHANGED <<inputs, i, pathSet, shadow, shebangs, todo, out>>
         \/ /\ interp # EmptyInterp
            /\ shadow' = [shadow EXCEPT ![x] = File]
            /\ shebangs' = IF interp = NoInterp THEN shebangs
                           ELSE [shebangs EXCEPT ![x] = interp]
            /\ i' = i + 1
            /\ UNCHANGED <<inputs, pc, pathSet, todo, out>>

(***************************************************************************)
(* Lines 403-424: a regular member gets a placeholder; its first line is  *)
(* read.  "#!" with nothing after it makes split()[0] raise IndexError,    *)
(* which nothing catches.  An absolute interpreter is recorded, and added *)
(* to path_set when the member's own path already is in it.              *)
(***************************************************************************)
ScanRegular ==
  /\ pc = "scan" /\ i <= Len(order)
  /\ arch[order[i]].kind = "reg"
  /\ LET x == order[i]
         interp == arch[x].interp
     IN  \/ /\ interp = EmptyInterp
            /\ pc' = "failed"
            /\ UNCHANGED <<inputs, i, pathSet, shadow, shebangs, todo, out>>
         \/ /\ interp # EmptyInterp
            /\ shadow' = [shadow EXCEPT ![x] = File]
            /\ shebangs' = IF interp = NoInterp THEN shebangs
                           ELSE [shebangs EXCEPT ![x] = interp]
            /\ pathSet' = IF interp # NoInterp /\ x \in pathSet
                          THEN pathSet \cup {interp} ELSE pathSet
            /\ i' = i + 1
            /\ UNCHANGED <<inputs, pc, todo, out>>

\* Lines 426-429: the archive is closed; pass 2 iterates over list(path_set).
EndScan ==
  /\ pc = "scan" /\ i > Len(order)
  /\ pc' = "resolve"
  /\ todo' = pathSet
  /\ UNCHANGED <<inputs, i, pathSet, shadow, shebangs, out>>

(***************************************************************************)
(* Lines 430-444: p is dropped when its chain does not end at a           *)
(* materialised file (dangling, out of tree, or a loop: exists() is False  *)
(* for ELOOP from Python 3.8 on), or when it is not a symlink at all.     *)
(***************************************************************************)
ResolveSkip(p) ==
  /\ pc = "resolve" /\ p \in todo
  /\ ~ExistsIn(shadow, p) \/ Final(p) = p
  /\ todo' = todo \ {p}
  /\ UNCHANGED <<inputs, pc, i, pathSet, shadow, shebangs, out>>

\* Line 436 under Python 3.7: exists() lets the ELOOP OSError escape.
ResolveLoopError(p) ==
  /\ pc = "resolve" /\ p \in todo
  /\ LoopsIn(shadow, p)
  /\ pc' = "failed"
  /\ UNCHANGED <<inputs, i, pathSet, shadow, shebangs, todo, out>>

\* Variant that adds the unresolved path p instead of its final target.
ResolveLinkAddsSource(p) ==
  /\ pc = "resolve" /\ p \in todo
  /\ ExistsIn(shadow, p) /\ Final(p) # p
  /\ pathSet' = pathSet \cup {p}
  /\ todo' = todo \ {p}
  /\ UNCHANGED <<inputs, pc, i, shadow, shebangs, out>>

\* Variant without the relative_to check: an out-of-tree interpreter is added.
ResolveLinkUnchecked(p) ==
  /\ pc = "resolve" /\ p \in todo
  /\ ExistsIn(shadow, p) /\ Final(p) # p
  /\ LET f == Final(p)
         interp == shebangs[f]
     IN  pathSet' = pathSet \cup {f} \cup
                    (IF interp = NoInterp THEN {} ELSE {Final(interp)})
  /\ todo' = todo \ {p}
  /\ UNCHANGED <<inputs, pc, i, shadow, shebangs, out>>

(***************************************************************************)
(* Lines 437-454: a symlink chain ending at a file adds the file, and, if *)
(* the file has an interpreter, the interpreter resolved with the         *)
(* non-strict resolve().  An interpreter resolving out of the tree makes  *)
(* relative_to raise ValueError, and a looping one makes resolve() raise  *)
(* RuntimeError; neither is caught.                                       *)
(***************************************************************************)
ResolveLink(p) ==
  /\ pc = "resolve" /\ p \in todo
  /\ ExistsIn(shadow, p) /\ Final(p) # p
  /\ LET f == Final(p)
         interp == shebangs[f]
     IN  \/ /\ interp = NoInterp
            /\ pathSet' = pathSet \cup {f}
            /\ todo' = todo \ {p}
            /\ UNCHANGED pc
         \/ /\ interp # NoInterp
            /\ Final(interp) = Outside \/ LoopsIn(shadow, interp)
            /\ pc' = "failed"
            /\ UNCHANGED <<pathSet, todo>>
         \/ /\ interp # NoInterp
            /\ Final(interp) \in Paths /\ ~LoopsIn(shadow, interp)
            /\ pathSet' = pathSet \cup {f, Final(interp)}
            /\ todo' = todo \ {p}
            /\ UNCHANGED pc
  /\ UNCHANGED <<inputs, i, shadow, shebangs, out>>

EndResolve ==
  /\ pc = "resolve" /\ todo = {}
  /\ pc' = "rewrite"
  /\ i' = 1
  /\ UNCHANGED <<inputs, pathSet, shadow, shebangs, todo, out>>

\* Lines 460-471: each member is either copied to the reduced archive or not.
RewriteMember ==
  /\ pc = "rewrite" /\ i <= Len(order)
  /\ out' = IF Kept(order[i]) THEN out \cup {order[i]} ELSE out
  /\ i' = i + 1
  /\ UNCHANGED <<inputs, pc, pathSet, shadow, shebangs, todo>>

\* Lines 472-480: both archives are closed and the reduced one imported.
EndRewrite ==
  /\ pc = "rewrite" /\ i > Len(order)
  /\ pc' = "done"
  /\ UNCHANGED <<inputs, i, pathSet, shadow, shebangs, todo, out>>

Next ==
  \/ ScanSymlink \/ ScanSkip \/ ScanRegular \/ EndScan
  \/ \E p \in Paths : ResolveSkip(p) \/ ResolveLoopError(p) \/ ResolveLink(p)
  \/ EndResolve \/ RewriteMember \/ EndRewrite

Spec == Init /\ [][Next]_vars

-----------------------------------------------------------------------------
TypeOK ==
  /\ arch \in [Members -> Entry] /\ Members \subseteq Paths
  /\ order \in Orders(Members)
  /\ logs \subseteq Paths
  /\ pc \in {"scan", "resolve", "rewrite", "done", "failed"}
  /\ i \in 1 .. Len(order) + 1
  /\ pathSet \subseteq Paths
  /\ shadow \in [Paths -> ShadowNode]
  /\ shebangs \in [Paths -> Paths \cup {NoInterp}]
  /\ todo \subseteq pathSet
  /\ out \subseteq Members

(***************************************************************************)
(* Every seed path (bootstrap or logged) whose symlink chain in the       *)
(* original archive ends at a regular member has that member in the       *)
(* reduced archive: the traced accesses still find their file.  This is   *)
(* what pass 2 of shrink_image exists for; the chain /a -> /b -> /c of   *)
(* spec section 8 is an instance.                                          *)
(***************************************************************************)
SeedTargetsRetained ==
  pc = "done" =>
    \A p \in Seed :
      LET f == FinalIn(ArchTree, p)
      IN  f \in Members /\ arch[f].kind = "reg" => f \in out

(***************************************************************************)
(* A seed that reaches a script (directly or through symlinks) whose "#!" *)
(* interpreter resolves in the archive to a regular member keeps that     *)
(* member: the script can still be executed in the reduced image.  The    *)
(* two code paths that guarantee it are the pick-up during the scan       *)
(* (line 421) and the interpreter branch of pass 2 (lines 445-453).       *)
(***************************************************************************)
InterpretersRetained ==
  pc = "done" =>
    \A p \in Seed :
      LET f == FinalIn(ArchTree, p)
      IN  f \in Members /\ arch[f].kind = "reg" /\ arch[f].interp \in Paths =>
            LET g == FinalIn(ArchTree, arch[f].interp)
            IN  g \in Members /\ arch[g].kind = "reg" => g \in out

(***************************************************************************)
(* The reduced archive serves every seed path the original archive        *)
(* served: following the path through the kept symlinks reaches a kept    *)
(* regular member, or a kept hard link whose member is kept too.  Spec    *)
(* section 4.2: the rewritten archive must remain loadable on its own,    *)
(* and the traced accesses must still find their content.                 *)
(***************************************************************************)
Served(S, p) ==
  LET f == FinalIn(TreeOf(S), p)
  IN  /\ f \in S
      /\ \/ arch[f].kind = "reg"
         \/ arch[f].kind = "hardlink" /\ arch[f].to \in S

ReducedServesSeeds ==
  pc = "done" => \A p \in Seed : Served(Members, p) => Served(out, p)

=============================================================================
