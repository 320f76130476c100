--------------------------- MODULE PreparedStores ---------------------------
(***************************************************************************)
(* The names of the volumes and host directories a check is given, and     *)
(* whether what another check left there under a success marker is what    *)
(* its own preparation would have made.                                    *)
(*                                                                         *)
(* A check is a record: runner, repo, commit, profile, component and path  *)
(* of its step, whether the step is configured, its ecosystem, image,      *)
(* prepare command and extra dependency files, the digest the image        *)
(* resolved to (identity), and the tree: the contents of the files in the  *)
(* directory of the step.  A hash is the tuple of what is hashed.          *)
(***************************************************************************)
EXTENDS StepContainers

CONSTANT Absent

\* Files by role.  _DEPENDENCY_FILES names the root's manifests and locks;
\* "member" is a manifest below the root, "work" is go.work.
Named == {"manifest", "lock"}
Files == Named \cup {"member", "work", "config", "source"}

-----------------------------------------------------------------------------
Present(tree, files) == {f \in files : tree[f] # Absent}
Digest(tree, files) == [f \in Present(tree, files) |-> tree[f]]

DependencyFingerprint(c) ==
  IF c.configured
  THEN <<"configured", c.ecosystem, c.image,
         {<<c.path, f, c.tree[f]>> : f \in Present(c.tree, Named \cup c.extra)}, c.tree["config"]>>
  ELSE <<"dependencies", c.ecosystem, c.image, Digest(c.tree, Named \cup c.extra)>>

\* _scope_component_plan.
Fingerprint(c) ==
  IF c.component = "." THEN DependencyFingerprint(c)
  ELSE <<"component", c.component, DependencyFingerprint(c)>>
WorkingDirectory(c) == <<c.component, c.path>>

\* Mutant: the prepare command is left out.
ContextNoCommand(c) ==
  [ecosystem |-> c.ecosystem, image |-> c.image, fingerprint |-> Fingerprint(c),
   directory |-> WorkingDirectory(c)]

PreparationContext(c) ==
  [ecosystem |-> c.ecosystem, image |-> c.image, fingerprint |-> Fingerprint(c),
   prepare |-> c.prepare, directory |-> WorkingDirectory(c)]

ExecutionCacheKey(c) == <<PreparationContext(c), c.identity>>

DirName(c) == <<"dir", c.runner, c.repo, c.ecosystem, ExecutionCacheKey(c)>>
VolumeName(c) ==
  <<"volume", c.runner, c.repo, c.commit, c.profile, c.ecosystem, PreparationContext(c),
    Fingerprint(c), c.identity>>

-----------------------------------------------------------------------------
\* The step of a check as run_step sees it.
StepOf(c) ==
  [ecosystem |-> c.ecosystem, prepares |-> c.prepare # "", network |-> "none",
   dir |-> TRUE, volume |-> TRUE]

\* The stores whose marker a check believes; a support volume goes with its volume.
Believed(c) ==
  IF HasVolume(StepOf(c)) THEN {VolumeName(c)}
  ELSE IF c.prepare # "" /\ Markers(StepOf(c)) # {} THEN {DirName(c)} ELSE {}

\* What a package manager reads: anything of an exact commit where it works in
\* a volume; else cargo reads members unless a lock says all, and go reads the
\* modules of a workspace.
Reads(c) ==
  IF HasVolume(StepOf(c)) THEN Files
  ELSE Named \cup {f \in {"member", "work"} :
         \/ c.ecosystem = "rust" /\ c.tree["lock"] = Absent /\ f = "member"
         \/ c.ecosystem = "go" /\ c.tree["work"] # Absent}
Needs(c) ==
  [ecosystem |-> c.ecosystem, identity |-> c.identity, prepare |-> c.prepare,
   directory |-> WorkingDirectory(c), read |-> Digest(c.tree, Reads(c))]

\* One commit has one tree in one directory.
OneTree(x, y) ==
  x.commit = y.commit /\ WorkingDirectory(x) = WorkingDirectory(y) => x.tree = y.tree

\* All that the preparation reads is named by its fingerprint or its commit.
NamesItsInputs(c) ==
  HasVolume(StepOf(c)) \/ Reads(c) \subseteq Named \cup c.extra

(* A check that believes the marker of another finds what its own          *)
(* preparation would have made.                                            *)
FitsBoth(x, y) == Believed(x) \cap Believed(y) # {} => Needs(x) = Needs(y)
=============================================================================
