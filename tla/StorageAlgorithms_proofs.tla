----------------------- MODULE StorageAlgorithms_proofs -----------------------
(***************************************************************************)
(* What is kept between checks: a success marker is believed only over     *)
(* what one would have prepared oneself, both containers of a step find    *)
(* the same stores, a prune keeps its limits and goes by last use, and the *)
(* storage reserve is made where it can be.  For checks, entries and       *)
(* machines of any number and kind.  Hashes are taken not to collide.      *)
(***************************************************************************)
EXTENDS MCAlgorithms, SequenceLemmas

(* What DependencyFingerprint has read, the same names are of the same     *)
(* contents.                                                               *)
Fingerprinted(c) == Stores!Present(c.tree, Stores!Named \cup c.extra)

LEMMA SameFingerprint ==
  ASSUME NEW x, NEW y, Stores!DependencyFingerprint(x) = Stores!DependencyFingerprint(y), x.path = y.path
  PROVE  Fingerprinted(x) = Fingerprinted(y) /\ \A f \in Fingerprinted(x) : x.tree[f] = y.tree[f]
<1>1. CASE x.configured /\ y.configured
  <2>1. {<<x.path, f, x.tree[f]>> : f \in Fingerprinted(x)} = {<<y.path, f, y.tree[f]>> : f \in Fingerprinted(y)}
    BY <1>1 DEF Stores!DependencyFingerprint, Fingerprinted
  <2>2. ASSUME NEW f \in Fingerprinted(x) PROVE f \in Fingerprinted(y) /\ x.tree[f] = y.tree[f]
    <3>1. <<x.path, f, x.tree[f]>> \in {<<y.path, g, y.tree[g]>> : g \in Fingerprinted(y)}
      BY <2>1
    <3> QED BY <3>1
  <2>3. ASSUME NEW f \in Fingerprinted(y) PROVE f \in Fingerprinted(x)
    <3>1. <<y.path, f, y.tree[f]>> \in {<<x.path, g, x.tree[g]>> : g \in Fingerprinted(x)}
      BY <2>1
    <3> QED BY <3>1
  <2> QED BY <2>2, <2>3
<1>2. CASE ~x.configured /\ ~y.configured
  <2>1. [f \in Fingerprinted(x) |-> x.tree[f]] = [f \in Fingerprinted(y) |-> y.tree[f]]
    BY <1>2 DEF Stores!DependencyFingerprint, Stores!Digest, Fingerprinted
  <2>2. Fingerprinted(x) = Fingerprinted(y)
    <3>1. DOMAIN [f \in Fingerprinted(x) |-> x.tree[f]] = DOMAIN [f \in Fingerprinted(y) |-> y.tree[f]]
      BY <2>1
    <3> QED BY <3>1
  <2>3. ASSUME NEW f \in Fingerprinted(x) PROVE x.tree[f] = y.tree[f]
    <3>1. [g \in Fingerprinted(x) |-> x.tree[g]][f] = [g \in Fingerprinted(y) |-> y.tree[g]][f]
      BY <2>1
    <3> QED BY <2>2, <3>1
  <2> QED BY <2>2, <2>3
<1>3. CASE ~(x.configured <=> y.configured)
  <2>1. Stores!DependencyFingerprint(x)[1] # Stores!DependencyFingerprint(y)[1]
    BY <1>3 DEF Stores!DependencyFingerprint
  <2> QED BY <2>1
<1> QED BY <1>1, <1>2, <1>3

(* One execution cache key, one context of the preparation.                *)
LEMMA SameContext ==
  ASSUME NEW x, NEW y, Stores!ExecutionCacheKey(x) = Stores!ExecutionCacheKey(y)
  PROVE  /\ x.ecosystem = y.ecosystem /\ x.identity = y.identity /\ x.prepare = y.prepare
         /\ Stores!WorkingDirectory(x) = Stores!WorkingDirectory(y)
         /\ x.component = y.component /\ x.path = y.path
         /\ Stores!DependencyFingerprint(x) = Stores!DependencyFingerprint(y)
<1>1. Stores!PreparationContext(x) = Stores!PreparationContext(y) /\ x.identity = y.identity
  BY DEF Stores!ExecutionCacheKey
<1>2. /\ x.ecosystem = y.ecosystem /\ x.prepare = y.prepare
      /\ Stores!Fingerprint(x) = Stores!Fingerprint(y) /\ Stores!WorkingDirectory(x) = Stores!WorkingDirectory(y)
  BY <1>1 DEF Stores!PreparationContext
<1>3. x.component = y.component /\ x.path = y.path
  BY <1>2 DEF Stores!WorkingDirectory
<1>4. Stores!DependencyFingerprint(x) = Stores!DependencyFingerprint(y)
  BY <1>2, <1>3 DEF Stores!Fingerprint
<1> QED BY <1>1, <1>2, <1>3, <1>4

(* The names of host directories fit where the fingerprint names all that  *)
(* the package manager reads.                                              *)
LEMMA DirectoriesFit ==
  ASSUME NEW x, NEW y, Stores!DirName(x) = Stores!DirName(y), ~Stores!HasVolume(Stores!StepOf(x)),
         Stores!NamesItsInputs(x), Stores!NamesItsInputs(y)
  PROVE  Stores!Needs(x) = Stores!Needs(y)
<1>1. Stores!ExecutionCacheKey(x) = Stores!ExecutionCacheKey(y)
  BY DEF Stores!DirName
<1>2. x.ecosystem = y.ecosystem /\ x.prepare = y.prepare /\ ~Stores!HasVolume(Stores!StepOf(y))
  BY <1>1, SameContext DEF Stores!HasVolume, Stores!StepOf
<1>3. Fingerprinted(x) = Fingerprinted(y) /\ \A f \in Fingerprinted(x) : x.tree[f] = y.tree[f]
  BY <1>1, SameContext, SameFingerprint
<1>4. Stores!Reads(x) \subseteq Stores!Named \cup x.extra /\ Stores!Reads(y) \subseteq Stores!Named \cup y.extra
  BY <1>2 DEF Stores!NamesItsInputs
<1>5. x.tree["lock"] = NoContent <=> y.tree["lock"] = NoContent
  BY <1>3 DEF Fingerprinted, Stores!Present, Stores!Named
<1>6. x.ecosystem = "go" => (x.tree["work"] # NoContent <=> y.tree["work"] # NoContent)
  <2>1. x.ecosystem = "go" /\ x.tree["work"] # NoContent => "work" \in Stores!Reads(x)
    BY DEF Stores!Reads
  <2>2. x.ecosystem = "go" /\ y.tree["work"] # NoContent => "work" \in Stores!Reads(y)
    BY <1>2 DEF Stores!Reads
  <2> QED BY <1>3, <1>4, <2>1, <2>2 DEF Fingerprinted, Stores!Present
<1>7. Stores!Reads(x) = Stores!Reads(y)
  BY <1>2, <1>5, <1>6 DEF Stores!Reads
<1>8. /\ Stores!Present(x.tree, Stores!Reads(x)) = Stores!Present(y.tree, Stores!Reads(y))
      /\ \A f \in Stores!Present(x.tree, Stores!Reads(x)) : x.tree[f] = y.tree[f]
  BY <1>3, <1>4, <1>7 DEF Fingerprinted, Stores!Present
<1>9. Stores!Digest(x.tree, Stores!Reads(x)) = Stores!Digest(y.tree, Stores!Reads(y))
  BY <1>8 DEF Stores!Digest
<1> QED BY <1>1, <1>9, SameContext DEF Stores!Needs

(* The names of volumes fit because they hold the commit.                  *)
LEMMA VolumesFit ==
  ASSUME NEW x, NEW y, Stores!VolumeName(x) = Stores!VolumeName(y), Stores!HasVolume(Stores!StepOf(x)), Stores!OneTree(x, y)
  PROVE  Stores!Needs(x) = Stores!Needs(y)
<1>1. x.commit = y.commit /\ Stores!PreparationContext(x) = Stores!PreparationContext(y) /\ x.identity = y.identity
  BY DEF Stores!VolumeName
<1>2. Stores!ExecutionCacheKey(x) = Stores!ExecutionCacheKey(y)
  BY <1>1 DEF Stores!ExecutionCacheKey
<1>3. x.ecosystem = y.ecosystem /\ x.prepare = y.prepare /\ Stores!HasVolume(Stores!StepOf(y))
  BY <1>2, SameContext DEF Stores!HasVolume, Stores!StepOf
<1>4. x.tree = y.tree
  BY <1>1, <1>2, SameContext DEF Stores!OneTree
<1> QED BY <1>2, <1>3, <1>4, SameContext DEF Stores!Needs, Stores!Reads

(* A believed name is of a volume, or of a host directory.                 *)
LEMMA MarkersFit ==
  ASSUME NEW x, NEW y, Stores!OneTree(x, y), Stores!NamesItsInputs(x), Stores!NamesItsInputs(y)
  PROVE  Stores!FitsBoth(x, y)
<1> SUFFICES ASSUME NEW name \in Stores!Believed(x) \cap Stores!Believed(y) PROVE Stores!Needs(x) = Stores!Needs(y)
  BY DEF Stores!FitsBoth
<1>1. CASE Stores!HasVolume(Stores!StepOf(x)) /\ Stores!HasVolume(Stores!StepOf(y))
  BY <1>1, VolumesFit DEF Stores!Believed
<1>2. CASE ~Stores!HasVolume(Stores!StepOf(x)) /\ ~Stores!HasVolume(Stores!StepOf(y))
  BY <1>2, DirectoriesFit DEF Stores!Believed
<1>3. CASE ~(Stores!HasVolume(Stores!StepOf(x)) <=> Stores!HasVolume(Stores!StepOf(y)))
  <2>1. Stores!DirName(x) # Stores!VolumeName(y) /\ Stores!DirName(y) # Stores!VolumeName(x)
    BY DEF Stores!DirName, Stores!VolumeName
  <2> QED BY <1>3, <2>1 DEF Stores!Believed
<1> QED BY <1>1, <1>2, <1>3

(* "A success marker allows a fresh proof to skip redundant dependency     *)
(* preparation": two checks that believe one marker would have prepared    *)
(* the same, whatever else they differ in.                                 *)
THEOREM PreparedForBoth ==
  ASSUME input.of = "stores" => Stores!OneTree(input.one, input.two)
  PROVE  PreparedFits
BY MarkersFit DEF PreparedFits

-----------------------------------------------------------------------------
(* The two containers of a step.                                           *)
Found(place, at, setup) == at = place \/ \E led \in setup : led.place = place /\ led.to = at

(* A place that leads to one store.                                        *)
LEMMA BehindOne ==
  ASSUME NEW c, NEW place, NEW m \in c.mounts, Found(place, m.at, c.setup),
         \A n \in c.mounts : Found(place, n.at, c.setup) => n.store = m.store
  PROVE  Stores!Behind(place, c) = {m.store}
<1>1. ASSUME NEW x \in Stores!Behind(place, c) PROVE x = m.store
  BY <1>1 DEF Stores!Behind, Found
<1>2. m.store \in Stores!Behind(place, c)
  BY DEF Stores!Behind, Found
<1> QED BY <1>1, <1>2

(* An automatic step that prepares has a volume, or a directory.           *)
InVolume  == {"python", "deno", "cmake", "dotnet", "php", "ruby"}
Tools     == {"maven", "gradle"}
Compiled  == {"rust", "go"}
Preparing(step) == step \in Stores!Steps /\ Stores!Automatic(step) /\ step.prepares

LEMMA KindsOfSteps ==
  ASSUME NEW step, Preparing(step)
  PROVE  /\ step.ecosystem \in InVolume \cup Stores!Paired \cup Tools \cup Compiled
         /\ Stores!HasVolume(step) <=> step.ecosystem \notin Compiled
         /\ Stores!HasSupport(step) <=> step.ecosystem \in Stores!Paired
         /\ Stores!HasDir(step) <=> step.ecosystem \in Compiled
<1> USE DEF InVolume, Tools, Compiled, Stores!Paired, Stores!Stateful
<1>1. /\ step.ecosystem \in Stores!Ecosystems \ {"make", "other"}
      /\ step.prepares /\ step.dir /\ step.volume
  BY DEF Preparing, Stores!Automatic, Stores!Steps
<1>2. step.ecosystem \in InVolume \cup Stores!Paired \cup Tools \cup Compiled
  BY <1>1 DEF Stores!Ecosystems
<1>3. Stores!HasVolume(step) <=> step.ecosystem \notin Compiled
  BY <1>1, <1>2 DEF Stores!HasVolume
<1>4. Stores!HasSupport(step) <=> step.ecosystem \in Stores!Paired
  BY <1>3 DEF Stores!HasSupport
<1>5. Stores!HasDir(step) <=> step.ecosystem \in Compiled
  BY <1>1, <1>3 DEF Stores!HasDir
<1> QED BY <1>2, <1>3, <1>4, <1>5

(* What is mounted, apart from the inputs, and where.                      *)
StoreMounts(step, readOnly) ==
  CASE step.ecosystem \in InVolume -> {Stores!Mount("/prepared", "volume", ~readOnly)}
    [] step.ecosystem \in Stores!Paired ->
         {Stores!Mount("node_modules", "volume", TRUE), Stores!Mount("/prepared", "support", TRUE)}
    [] step.ecosystem \in Tools -> {Stores!Mount("/cache", "volume", TRUE)}
    [] step.ecosystem \in Compiled -> {Stores!Mount("/cache", "dir", TRUE)}

LEMMA MountsOfSteps ==
  ASSUME NEW step, Preparing(step), NEW runner, NEW readOnly
  PROVE  Stores!Mounts(runner, step, readOnly) = Stores!Inputs \cup StoreMounts(step, readOnly)
<1> USE DEF InVolume, Tools, Compiled, Stores!Paired
<1> DEFINE dir == Stores!DirMount(step)
           support == Stores!SupportMount(step)
           volume == IF runner = "container" THEN Stores!AppleVolume(step, readOnly)
                                             ELSE Stores!DockerVolume(step, readOnly)
<1>1. Stores!Mounts(runner, step, readOnly) = Stores!Inputs \cup dir \cup support \cup volume
  BY DEF Stores!Mounts
<1>2. dir = IF step.ecosystem \in Compiled THEN {Stores!Mount("/cache", "dir", TRUE)} ELSE {}
  BY KindsOfSteps DEF Stores!DirMount
<1>3. support = IF step.ecosystem \in Stores!Paired THEN {Stores!Mount("/prepared", "support", TRUE)} ELSE {}
  BY KindsOfSteps DEF Stores!SupportMount
<1>4. volume = IF step.ecosystem \in InVolume THEN {Stores!Mount("/prepared", "volume", ~readOnly)}
               ELSE IF step.ecosystem \in Stores!Paired THEN {Stores!Mount("node_modules", "volume", TRUE)}
               ELSE IF step.ecosystem \in Tools THEN {Stores!Mount("/cache", "volume", TRUE)} ELSE {}
  BY KindsOfSteps DEF Stores!AppleVolume, Stores!DockerVolume
<1>5. step.ecosystem \in InVolume \cup Stores!Paired \cup Tools \cup Compiled
  BY KindsOfSteps
<1> HIDE DEF dir, support, volume
<1>6. dir \cup support \cup volume = StoreMounts(step, readOnly)
  BY <1>2, <1>3, <1>4, <1>5 DEF StoreMounts
<1> QED BY <1>1, <1>6

(* Places of a container that are mounted, or led into a mount.            *)
LEMMA PlacesOfSteps ==
  ASSUME NEW step, Preparing(step), NEW place \in Stores!LeftBehind(step.ecosystem) \cup Stores!CacheRoot(step)
  PROVE  /\ place \notin {"/input", "/input.tar"}
         /\ step.ecosystem \in InVolume =>
              \A ro \in BOOLEAN : Found(place, "/prepared", Stores!Setup(step, ro))
         /\ step.ecosystem \in Stores!Paired => place \in {"node_modules", "/prepared"}
         /\ step.ecosystem \in Tools \cup Compiled => place = "/cache"
<1> USE DEF InVolume, Tools, Compiled, Stores!Paired
<1>1. Stores!HasVolume(step) <=> step.ecosystem \notin Compiled
  BY KindsOfSteps
<1>2. ASSUME step.ecosystem \in InVolume, NEW ro \in BOOLEAN
      PROVE  Found(place, "/prepared", Stores!Setup(step, ro))
  <2>1. CASE step.ecosystem = "python"
    <3>1. Stores!Setup(step, ro) = {Stores!Led(".venv", "/prepared", FALSE), Stores!Led(".tox", "/prepared", FALSE)}
      BY <1>1, <2>1 DEF Stores!Setup
    <3>2. place \in {".venv", ".tox", "/prepared"}
      BY <1>1, <2>1 DEF Stores!LeftBehind, Stores!CacheRoot
    <3> QED BY <3>1, <3>2 DEF Found, Stores!Led
  <2>2. CASE step.ecosystem = "deno"
    <3>1. Stores!Setup(step, ro) = {Stores!Led("vendor", "/prepared", FALSE), Stores!Led("node_modules", "/prepared", FALSE)}
      BY <1>1, <2>2 DEF Stores!Setup
    <3>2. place \in {"vendor", "node_modules", "/prepared"}
      BY <1>1, <2>2 DEF Stores!LeftBehind, Stores!CacheRoot
    <3> QED BY <3>1, <3>2 DEF Found, Stores!Led
  <2>3. CASE step.ecosystem = "php"
    <3>1. Stores!Setup(step, ro) = {Stores!Led("vendor", "/prepared", ro)}
      BY <1>1, <2>3 DEF Stores!Setup
    <3>2. place \in {"vendor", "/prepared"}
      BY <1>1, <2>3 DEF Stores!LeftBehind, Stores!CacheRoot
    <3> QED BY <3>1, <3>2 DEF Found, Stores!Led
  <2>4. CASE step.ecosystem \in {"cmake", "dotnet", "ruby"}
    <3>1. place = "/prepared"
      BY <1>1, <2>4 DEF Stores!LeftBehind, Stores!CacheRoot
    <3> QED BY <3>1 DEF Found
  <2> QED BY <1>2, <2>1, <2>2, <2>3, <2>4
<1>3. step.ecosystem \in Stores!Paired => place \in {"node_modules", "/prepared"}
  BY <1>1 DEF Stores!LeftBehind, Stores!CacheRoot
<1>4. step.ecosystem \in Tools \cup Compiled => place = "/cache"
  BY <1>1 DEF Stores!LeftBehind, Stores!CacheRoot
<1>5. step.ecosystem \in InVolume => place \in {".venv", ".tox", "vendor", "node_modules", "/prepared"}
  BY <1>1 DEF Stores!LeftBehind, Stores!CacheRoot
<1>6. step.ecosystem \in InVolume \cup Stores!Paired \cup Tools \cup Compiled
  BY KindsOfSteps
<1>7. place \notin {"/input", "/input.tar"}
  BY <1>3, <1>4, <1>5, <1>6
<1> QED BY <1>2, <1>3, <1>4, <1>7

(* A container of the step, of which only the mounts' modes may differ.    *)
IsContainer(c, step, readOnly) ==
  /\ readOnly \in BOOLEAN
  /\ c.mounts = Stores!Inputs \cup StoreMounts(step, readOnly)
  /\ c.setup = Stores!Setup(step, readOnly)

LEMMA StoresOfPlaces ==
  ASSUME NEW step, Preparing(step), NEW readOnly, NEW c, IsContainer(c, step, readOnly), NEW place,
         place \notin {"/input", "/input.tar"}
  PROVE  /\ step.ecosystem \in InVolume /\ Found(place, "/prepared", c.setup)
              => Stores!Behind(place, c) = {"volume"}
         /\ step.ecosystem \in Stores!Paired /\ place = "node_modules" => Stores!Behind(place, c) = {"volume"}
         /\ step.ecosystem \in Stores!Paired /\ place = "/prepared" => Stores!Behind(place, c) = {"support"}
         /\ step.ecosystem \in Tools /\ place = "/cache" => Stores!Behind(place, c) = {"volume"}
         /\ step.ecosystem \in Compiled /\ place = "/cache" => Stores!Behind(place, c) = {"dir"}
<1> USE DEF InVolume, Tools, Compiled, Stores!Paired
<1>1. \A led \in c.setup : led.to = "/prepared"
  BY DEF IsContainer, Stores!Setup, Stores!Led
<1>2. step.ecosystem \notin InVolume => c.setup = {}
  BY DEF IsContainer, Stores!Setup
<1>3. \A m \in Stores!Inputs : m.at \in {"/input", "/input.tar"}
  BY DEF Stores!Inputs, Stores!Mount
<1>4. \A m \in Stores!Inputs : ~Found(place, m.at, c.setup)
  BY <1>1, <1>3 DEF Found
<1>5. c.mounts = Stores!Inputs \cup StoreMounts(step, readOnly)
  BY DEF IsContainer
<1>6. ASSUME step.ecosystem \in InVolume, Found(place, "/prepared", c.setup)
      PROVE  Stores!Behind(place, c) = {"volume"}
  <2> DEFINE m == Stores!Mount("/prepared", "volume", ~readOnly)
  <2>1. StoreMounts(step, readOnly) = {m} /\ m.at = "/prepared" /\ m.store = "volume"
    BY <1>6 DEF StoreMounts, Stores!Mount
  <2> HIDE DEF m
  <2> QED BY <1>4, <1>5, <1>6, <2>1, BehindOne
<1>7. ASSUME step.ecosystem \in Stores!Paired
      PROVE  /\ place = "node_modules" => Stores!Behind(place, c) = {"volume"}
             /\ place = "/prepared" => Stores!Behind(place, c) = {"support"}
  <2> DEFINE m == Stores!Mount("node_modules", "volume", TRUE)
             n == Stores!Mount("/prepared", "support", TRUE)
  <2>1. /\ StoreMounts(step, readOnly) = {m, n}
        /\ m.at = "node_modules" /\ m.store = "volume" /\ n.at = "/prepared" /\ n.store = "support"
    BY <1>7 DEF StoreMounts, Stores!Mount
  <2>2. \A at : Found(place, at, c.setup) <=> at = place
    BY <1>2, <1>7 DEF Found
  <2> HIDE DEF m, n
  <2>3. m \in c.mounts /\ n \in c.mounts
    BY <1>5, <2>1
  <2>4. ASSUME place = "node_modules" PROVE Stores!Behind(place, c) = {"volume"}
    BY <1>4, <1>5, <2>1, <2>2, <2>3, <2>4, BehindOne
  <2>5. ASSUME place = "/prepared" PROVE Stores!Behind(place, c) = {"support"}
    BY <1>4, <1>5, <2>1, <2>2, <2>3, <2>5, BehindOne
  <2> QED BY <2>4, <2>5
<1>8. ASSUME step.ecosystem \in Tools, place = "/cache" PROVE Stores!Behind(place, c) = {"volume"}
  <2> DEFINE m == Stores!Mount("/cache", "volume", TRUE)
  <2>1. StoreMounts(step, readOnly) = {m} /\ m.at = "/cache" /\ m.store = "volume"
    BY <1>8 DEF StoreMounts, Stores!Mount
  <2>2. Found(place, m.at, c.setup)
    BY <1>8, <2>1 DEF Found
  <2> HIDE DEF m
  <2> QED BY <1>4, <1>5, <2>1, <2>2, BehindOne
<1>9. ASSUME step.ecosystem \in Compiled, place = "/cache" PROVE Stores!Behind(place, c) = {"dir"}
  <2> DEFINE m == Stores!Mount("/cache", "dir", TRUE)
  <2>1. StoreMounts(step, readOnly) = {m} /\ m.at = "/cache" /\ m.store = "dir"
    BY <1>9 DEF StoreMounts, Stores!Mount
  <2>2. Found(place, m.at, c.setup)
    BY <1>9, <2>1 DEF Found
  <2> HIDE DEF m
  <2>3. m \in c.mounts /\ \A n \in c.mounts : Found(place, n.at, c.setup) => n.store = m.store
    BY <1>4, <1>5, <2>1
  <2> QED BY <2>1, <2>2, <2>3, BehindOne
<1> QED BY <1>6, <1>7, <1>8, <1>9

(* The stores of a step, and where their markers are.                      *)
LEMMA StoresOfSteps ==
  ASSUME NEW step, Preparing(step)
  PROVE  /\ step.ecosystem \in InVolume \cup Tools => Stores!Stores(step) = {"volume"}
         /\ step.ecosystem \in Stores!Paired => Stores!Stores(step) = {"volume", "support"}
         /\ step.ecosystem \in Compiled => Stores!Stores(step) = {"dir"}
         /\ step.ecosystem \in InVolume => Stores!Markers(step) = {"/prepared"}
         /\ step.ecosystem \in Stores!Paired => Stores!Markers(step) = {"node_modules", "/prepared"}
         /\ step.ecosystem \in Tools \cup Compiled => Stores!Markers(step) = {"/cache"}
<1> USE DEF InVolume, Tools, Compiled, Stores!Paired
<1>1. /\ Stores!HasVolume(step) <=> step.ecosystem \notin Compiled
      /\ Stores!HasSupport(step) <=> step.ecosystem \in Stores!Paired
      /\ Stores!HasDir(step) <=> step.ecosystem \in Compiled
  BY KindsOfSteps
<1>2. /\ step.ecosystem \in InVolume \cup Tools => Stores!Stores(step) = {"volume"}
      /\ step.ecosystem \in Stores!Paired => Stores!Stores(step) = {"volume", "support"}
      /\ step.ecosystem \in Compiled => Stores!Stores(step) = {"dir"}
  BY <1>1 DEF Stores!Stores
<1>3. step.ecosystem \in InVolume => Stores!Markers(step) = {"/prepared"}
  BY <1>1 DEF Stores!Markers
<1>4. step.ecosystem \in Stores!Paired => Stores!Markers(step) = {"node_modules", "/prepared"}
  BY <1>1 DEF Stores!Markers
<1>5. step.ecosystem \in Tools \cup Compiled => Stores!Markers(step) = {"/cache"}
  BY <1>1 DEF Stores!Markers
<1> QED BY <1>2, <1>3, <1>4, <1>5

(* What can be written to is a store of the step, and in a container that  *)
(* is not read-only each of them can.                                      *)
LEMMA WritableStores ==
  ASSUME NEW step, Preparing(step), NEW readOnly, NEW c, IsContainer(c, step, readOnly)
  PROVE  /\ Stores!Writable(c) \subseteq Stores!Stores(step)
         /\ ~readOnly => Stores!Writable(c) = Stores!Stores(step)
<1> USE DEF InVolume, Tools, Compiled, Stores!Paired
<1>1. step.ecosystem \in InVolume \cup Stores!Paired \cup Tools \cup Compiled
  BY KindsOfSteps
<1> DEFINE mounts == StoreMounts(step, readOnly)
<1>2. \A m \in Stores!Inputs : ~m.writable
  BY DEF Stores!Inputs, Stores!Mount
<1>3. /\ {m.store : m \in mounts} = Stores!Stores(step)
      /\ ~readOnly => \A m \in mounts : m.writable
  <2>1. CASE step.ecosystem \in InVolume
    <3>1. mounts = {Stores!Mount("/prepared", "volume", ~readOnly)}
      BY <2>1 DEF StoreMounts
    <3>2. \A m \in mounts : m.store = "volume" /\ m.writable = ~readOnly
      BY <3>1 DEF Stores!Mount
    <3> HIDE DEF mounts
    <3>3. {m.store : m \in mounts} = {"volume"}
      BY <3>1, <3>2
    <3> QED BY <2>1, <3>2, <3>3, StoresOfSteps
  <2>2. CASE step.ecosystem \in Stores!Paired
    <3> DEFINE m == Stores!Mount("node_modules", "volume", TRUE)
               n == Stores!Mount("/prepared", "support", TRUE)
    <3>1. mounts = {m, n}
      BY <2>2 DEF StoreMounts
    <3>2. m.store = "volume" /\ m.writable /\ n.store = "support" /\ n.writable
      BY DEF Stores!Mount
    <3> HIDE DEF mounts, m, n
    <3>3. {x.store : x \in mounts} = {"volume", "support"}
      BY <3>1, <3>2
    <3> QED BY <2>2, <3>1, <3>2, <3>3, StoresOfSteps
  <2>3. CASE step.ecosystem \in Tools
    <3>1. mounts = {Stores!Mount("/cache", "volume", TRUE)}
      BY <2>3 DEF StoreMounts
    <3>2. \A m \in mounts : m.store = "volume" /\ m.writable
      BY <3>1 DEF Stores!Mount
    <3> HIDE DEF mounts
    <3>3. {m.store : m \in mounts} = {"volume"}
      BY <3>1, <3>2
    <3> QED BY <2>3, <3>2, <3>3, StoresOfSteps
  <2>4. CASE step.ecosystem \in Compiled
    <3>1. mounts = {Stores!Mount("/cache", "dir", TRUE)}
      BY <2>4 DEF StoreMounts
    <3>2. \A m \in mounts : m.store = "dir" /\ m.writable
      BY <3>1 DEF Stores!Mount
    <3> HIDE DEF mounts
    <3>3. {m.store : m \in mounts} = {"dir"}
      BY <3>1, <3>2
    <3> QED BY <2>4, <3>2, <3>3, StoresOfSteps
  <2> QED BY <1>1, <2>1, <2>2, <2>3, <2>4
<1> HIDE DEF mounts
<1>4. Stores!Writable(c) = {m.store : m \in {n \in Stores!Inputs \cup mounts : n.writable}}
  BY DEF IsContainer, Stores!Writable, mounts
<1>5. Stores!Writable(c) \subseteq {m.store : m \in mounts}
  BY <1>2, <1>4
<1>6. ~readOnly => {m.store : m \in mounts} \subseteq Stores!Writable(c)
  BY <1>3, <1>4
<1> QED BY <1>3, <1>5, <1>6

(* The containers a step gets.                                             *)
LEMMA ContainersOfSteps ==
  ASSUME NEW step, Preparing(step), NEW runner
  PROVE  LET prepare == Stores!PrepareContainer(runner, step)
             test == Stores!TestContainer(runner, step)
         IN  /\ prepare.kind = "container" /\ IsContainer(prepare, step, FALSE)
             /\ prepare.cache = Stores!CacheRoot(step)
             /\ test.kind = "container" /\ IsContainer(test, step, step.ecosystem \in {"php", "ruby"})
<1>1. step.ecosystem \in {"php", "ruby"} => Stores!HasVolume(step)
  BY KindsOfSteps DEF Compiled
<1>2. \A ro : Stores!Mounts(runner, step, ro) = Stores!Inputs \cup StoreMounts(step, ro)
  BY MountsOfSteps
<1>3. ASSUME NEW networked, NEW ro \in BOOLEAN, ro => Stores!HasVolume(step)
      PROVE  LET c == Stores!Container(runner, step, networked, ro)
             IN  c.kind = "container" /\ IsContainer(c, step, ro) /\ c.cache = Stores!CacheRoot(step)
  <2> DEFINE c == Stores!Container(runner, step, networked, ro)
  <2>1. c = [kind |-> "container", mounts |-> Stores!Mounts(runner, step, ro),
             setup |-> Stores!Setup(step, ro), cache |-> Stores!CacheRoot(step), networked |-> networked]
    BY <1>3 DEF Stores!Container
  <2> HIDE DEF c
  <2>2. /\ c.kind = "container" /\ c.mounts = Stores!Mounts(runner, step, ro)
        /\ c.setup = Stores!Setup(step, ro) /\ c.cache = Stores!CacheRoot(step)
    BY <2>1
  <2>3. c.mounts = Stores!Inputs \cup StoreMounts(step, ro)
    BY <1>2, <2>2
  <2> QED BY <2>2, <2>3 DEF IsContainer, c
<1>4. (step.ecosystem \in {"php", "ruby"}) \in BOOLEAN
  OBVIOUS
<1> QED BY <1>1, <1>3, <1>4 DEF Stores!PrepareContainer, Stores!TestContainer

(* The test container of an automatic step finds in its own mounts what    *)
(* the prepare container left in its, under every runner, with a marker in *)
(* each store.                                                             *)
LEMMA SameStoresInBoth ==
  ASSUME NEW step, Preparing(step), NEW runner
  PROVE  Stores!SameStores(runner, step)
<1> DEFINE prepare == Stores!PrepareContainer(runner, step)
           test    == Stores!TestContainer(runner, step)
           ro      == step.ecosystem \in {"php", "ruby"}
           marked  == UNION {Stores!Behind(place, prepare) : place \in Stores!Markers(step)}
<1>1. /\ prepare.kind = "container" /\ IsContainer(prepare, step, FALSE)
      /\ prepare.cache = Stores!CacheRoot(step)
      /\ test.kind = "container" /\ IsContainer(test, step, ro)
  BY ContainersOfSteps
<1>2. step.ecosystem \in InVolume \cup Stores!Paired \cup Tools \cup Compiled
  BY KindsOfSteps
<1> HIDE DEF prepare, test, ro
<1>3. Stores!Writable(prepare) = Stores!Stores(step) /\ Stores!Writable(test) \subseteq Stores!Stores(step)
  BY <1>1, WritableStores
<1>4. ASSUME NEW place, place \notin {"/input", "/input.tar"}, NEW c \in {prepare, test}
      PROVE  /\ step.ecosystem \in InVolume /\ Found(place, "/prepared", c.setup)
                  => Stores!Behind(place, c) = {"volume"}
             /\ step.ecosystem \in Stores!Paired /\ place = "node_modules" => Stores!Behind(place, c) = {"volume"}
             /\ step.ecosystem \in Stores!Paired /\ place = "/prepared" => Stores!Behind(place, c) = {"support"}
             /\ step.ecosystem \in Tools /\ place = "/cache" => Stores!Behind(place, c) = {"volume"}
             /\ step.ecosystem \in Compiled /\ place = "/cache" => Stores!Behind(place, c) = {"dir"}
  BY <1>1, <1>4, StoresOfPlaces
<1>5. marked = Stores!Stores(step)
  <2>1. CASE step.ecosystem \in InVolume
    <3>1. Found("/prepared", "/prepared", prepare.setup)
      BY DEF Found
    <3> QED BY <1>4, <2>1, <3>1, StoresOfSteps
  <2>2. CASE step.ecosystem \in Stores!Paired
    BY <1>4, <2>2, StoresOfSteps
  <2>3. CASE step.ecosystem \in Tools
    BY <1>4, <2>3, StoresOfSteps
  <2>4. CASE step.ecosystem \in Compiled
    BY <1>4, <2>4, StoresOfSteps
  <2> QED BY <1>2, <2>1, <2>2, <2>3, <2>4
<1>6. ASSUME NEW place \in Stores!LeftBehind(step.ecosystem) \cup prepare.cache
      PROVE  /\ Stores!Behind(place, prepare) # {}
             /\ Stores!Behind(place, prepare) \subseteq marked
             /\ Stores!Behind(place, test) = Stores!Behind(place, prepare)
  <2>1. /\ place \notin {"/input", "/input.tar"}
        /\ step.ecosystem \in InVolume => \A r \in BOOLEAN : Found(place, "/prepared", Stores!Setup(step, r))
        /\ step.ecosystem \in Stores!Paired => place \in {"node_modules", "/prepared"}
        /\ step.ecosystem \in Tools \cup Compiled => place = "/cache"
    BY <1>1, PlacesOfSteps
  <2>2. step.ecosystem \in InVolume => Found(place, "/prepared", prepare.setup) /\ Found(place, "/prepared", test.setup)
    BY <1>1, <2>1 DEF IsContainer
  <2> HIDE DEF marked
  <2>3. CASE step.ecosystem \in InVolume
    BY <1>4, <1>5, <2>1, <2>2, <2>3, StoresOfSteps
  <2>4. CASE step.ecosystem \in Stores!Paired
    BY <1>4, <1>5, <2>1, <2>4, StoresOfSteps
  <2>5. CASE step.ecosystem \in Tools
    BY <1>4, <1>5, <2>1, <2>5, StoresOfSteps
  <2>6. CASE step.ecosystem \in Compiled
    BY <1>4, <1>5, <2>1, <2>6, StoresOfSteps
  <2> QED BY <1>2, <2>3, <2>4, <2>5, <2>6
<1> QED BY <1>1, <1>3, <1>5, <1>6 DEF Stores!SameStores, prepare, test

(* Whatever the ecosystem of a step and its runner, its two containers     *)
(* agree on its stores; and whatever the repository asks for, its test has *)
(* a network only by the operator's word.                                  *)
THEOREM ContainersAgree ==
  ASSUME input.of = "containers" => input.step \in Stores!Steps
  PROVE  PhasesAgree
<1> SUFFICES ASSUME input.of = "containers"
             PROVE  /\ Stores!SameStores(input.runner, input.step)
                    /\ Stores!OfflineUnlessAllowed(input.runner, input.step, input.operator)
  BY DEF PhasesAgree
<1>1. Stores!SameStores(input.runner, input.step)
  <2>1. CASE Stores!Automatic(input.step) /\ input.step.prepares
    <3>1. Preparing(input.step)
      BY <2>1 DEF Preparing
    <3> QED BY <3>1, SameStoresInBoth
  <2>2. CASE ~(Stores!Automatic(input.step) /\ input.step.prepares)
    BY <2>2 DEF Stores!SameStores
  <2> QED BY <2>1, <2>2
<1>2. Stores!OfflineUnlessAllowed(input.runner, input.step, input.operator)
  <2> DEFINE allowed == Stores!ApplyNetworkPolicy(input.step, input.operator)
  <2>1. allowed.network = input.operator
    BY DEF Stores!ApplyNetworkPolicy, Stores!Steps
  <2> HIDE DEF allowed
  <2>2. LET test == Stores!TestContainer(input.runner, allowed)
        IN  test.kind = "container" => test.networked = (allowed.network = "enabled")
    BY DEF Stores!TestContainer, Stores!Container, Stores!RunnerError
  <2> QED BY <2>1, <2>2 DEF Stores!OfflineUnlessAllowed, allowed
<1> QED BY <1>1, <1>2
-----------------------------------------------------------------------------
(* The loop of a prune.  An entry may have more fields than these, such as *)
(* its path.                                                               *)
IsEntry(e) ==
  /\ e.used \in Int /\ e.bytes \in Nat /\ e.links \in Nat
  /\ e.sized \in BOOLEAN /\ e.stale \in BOOLEAN /\ e.kept \in BOOLEAN /\ e.fate \in Fates
AreEntries(T) == \A e \in T : IsEntry(e)

LEMMA ToSetElements ==
  ASSUME NEW T, NEW seq \in Seq(T)
  PROVE  ToSet(seq) = Elements(seq) /\ Elements(seq) \subseteq T
BY DEF ToSet, Elements

Ascending(seq) == \A i, j \in 1..Len(seq) : i <= j => seq[i].used <= seq[j].used

LEMMA AscendingAppend ==
  ASSUME NEW T, AreEntries(T), NEW s \in Seq(T), NEW e \in T
  PROVE  Ascending(Append(s, e)) <=> Ascending(s) /\ \A x \in Elements(s) : x.used <= e.used
<1> DEFINE n == Len(s)
           t == Append(s, e)
<1>1. n \in Nat /\ Len(t) = n + 1 /\ t[n + 1] = e /\ \A i \in 1..n : t[i] = s[i] /\ s[i] \in T
  OBVIOUS
<1>2. e.used \in Int /\ \A x \in T : x.used \in Int
  BY DEF AreEntries, IsEntry
<1> HIDE DEF t
<1>3. ASSUME Ascending(t) PROVE Ascending(s) /\ \A i \in 1..n : s[i].used <= e.used
  <2>1. \A i \in 1..n : i \in 1..(n + 1) /\ i <= n + 1
    BY <1>1
  <2>2. n + 1 \in 1..(n + 1)
    BY <1>1
  <2> QED BY <1>1, <1>3, <2>1, <2>2 DEF Ascending
<1>4. ASSUME Ascending(s), \A i \in 1..n : s[i].used <= e.used PROVE Ascending(t)
  <2> SUFFICES ASSUME NEW i \in 1..(n + 1), NEW j \in 1..(n + 1), i <= j PROVE t[i].used <= t[j].used
    BY <1>1 DEF Ascending
  <2>1. CASE j = n + 1 /\ i = n + 1
    BY <1>1, <1>2, <2>1
  <2>2. CASE j = n + 1 /\ i # n + 1
    <3>1. i \in 1..n
      BY <1>1, <2>2
    <3> QED BY <1>1, <1>4, <2>2, <3>1
  <2>3. CASE j # n + 1
    <3>1. i \in 1..n /\ j \in 1..n
      BY <1>1, <2>3
    <3> QED BY <1>1, <1>4, <3>1 DEF Ascending
  <2> QED BY <2>1, <2>2, <2>3
<1> QED BY <1>3, <1>4 DEF t, Elements

(* What a sieve leaves of an ascending list ascends.                       *)
LEMMA SieveAscending ==
  ASSUME NEW T, AreEntries(T), NEW seq \in Seq(T), NEW S, Ascending(seq)
  PROVE  Ascending(Sieve(seq, S))
<1> DEFINE Good(s) == Ascending(s) => Ascending(Sieve(s, S))
           P == {s \in Seq(T) : Good(s)}
<1>1. <<>> \in P
  BY SieveEmpty
<1>2. ASSUME NEW s \in Seq(T), NEW e \in T, s \in P PROVE Append(s, e) \in P
  <2>1. Append(s, e) \in Seq(T) /\ Good(s)
    BY <1>2
  <2>2. Sieve(s, S) \in Seq(T) /\ Elements(Sieve(s, S)) = Elements(s) \cap S
    BY SieveFirst, SieveElements
  <2>3. Sieve(Append(s, e), S) = IF e \in S THEN Append(Sieve(s, S), e) ELSE Sieve(s, S)
    BY SieveStep
  <2>4. Ascending(Append(s, e)) <=> Ascending(s) /\ \A x \in Elements(s) : x.used <= e.used
    BY AscendingAppend
  <2>5. Ascending(Append(Sieve(s, S), e))
          <=> Ascending(Sieve(s, S)) /\ \A x \in Elements(s) \cap S : x.used <= e.used
    BY <2>2, AscendingAppend
  <2>6. Good(Append(s, e))
    BY <2>1, <2>3, <2>4, <2>5
  <2> QED BY <2>1, <2>6
<1> HIDE DEF P
<1>3. \A s \in Seq(T) : s \in P
  BY <1>1, <1>2, SequenceInduction
<1> QED BY <1>3 DEF P

(* Two ascending lists, where the second begins no earlier than the first  *)
(* ends.                                                                   *)
LEMMA ConcatAscending ==
  ASSUME NEW T, AreEntries(T), NEW first \in Seq(T), NEW seq \in Seq(T), Ascending(first), Ascending(seq),
         \A x \in Elements(first), y \in Elements(seq) : x.used <= y.used
  PROVE  Ascending(first \o seq)
<1> DEFINE Good(s) ==
             /\ Elements(first \o s) = Elements(first) \cup Elements(s)
             /\ Ascending(s) /\ (\A x \in Elements(first), y \in Elements(s) : x.used <= y.used)
                  => Ascending(first \o s)
           P == {s \in Seq(T) : Good(s)}
<1>1. <<>> \in P
  <2>1. first \o <<>> = first /\ Elements(<<>>) = {}
    BY DEF Elements
  <2> QED BY <2>1
<1>2. ASSUME NEW s \in Seq(T), NEW e \in T, s \in P PROVE Append(s, e) \in P
  <2>1. Append(s, e) \in Seq(T) /\ Good(s)
    BY <1>2
  <2>2. first \o Append(s, e) = Append(first \o s, e) /\ first \o s \in Seq(T)
    BY ConcatAppend
  <2>3. Elements(Append(s, e)) = Elements(s) \cup {e}
    BY Appended
  <2>4. Elements(Append(first \o s, e)) = Elements(first \o s) \cup {e}
    <3>1. \A t \in Seq(T) : Elements(Append(t, e)) = Elements(t) \cup {e}
      BY Appended
    <3> QED BY <2>2, <3>1, Zenon
  <2>5. Ascending(Append(s, e)) <=> Ascending(s) /\ \A x \in Elements(s) : x.used <= e.used
    BY AscendingAppend
  <2>6. Ascending(Append(first \o s, e))
          <=> Ascending(first \o s) /\ \A x \in Elements(first \o s) : x.used <= e.used
    BY <2>2, AscendingAppend
  <2>7. Good(Append(s, e))
    BY <2>1, <2>2, <2>3, <2>4, <2>5, <2>6
  <2> QED BY <2>1, <2>7
<1> HIDE DEF P
<1>3. \A s \in Seq(T) : s \in P
  BY <1>1, <1>2, SequenceInduction
<1> QED BY <1>3 DEF P

(* An entry is inserted where it belongs, and nothing is lost.             *)
LEMMA Inserted ==
  ASSUME NEW T, AreEntries(T), NEW seq \in Seq(T), Ascending(seq), NEW e \in T
  PROVE  /\ Insert(seq, e) \in Seq(T) /\ Ascending(Insert(seq, e))
         /\ \A S, weight : IsWeight(weight, T) =>
              Amount(Insert(seq, e), S, weight) = Amount(Append(seq, e), S, weight)
<1> DEFINE A == {f \in ToSet(seq) : f.used <= e.used}
           B == {f \in ToSet(seq) : f.used > e.used}
           a == Sieve(seq, A)
           b == Sieve(seq, B)
           c == Append(a, e)
<1>1. a \in Seq(T) /\ b \in Seq(T) /\ Elements(a) = Elements(seq) \cap A /\ Elements(b) = Elements(seq) \cap B
  BY SieveFirst, SieveElements
<1>2. Ascending(a) /\ Ascending(b)
  BY SieveAscending
<1>3. ToSet(seq) = Elements(seq) /\ Elements(seq) \subseteq T
  BY ToSetElements
<1>4. e.used \in Int /\ \A x \in T : x.used \in Int
  BY DEF AreEntries, IsEntry
<1>5. (\A x \in A : x.used <= e.used) /\ (\A x \in B : e.used < x.used) /\ A \cup B = Elements(seq)
      /\ A \cap B = {}
  BY <1>3, <1>4
<1>6. A \subseteq T /\ B \subseteq T
  BY <1>3
<1>7. Insert(seq, e) = a \o <<e>> \o b
  BY DEF Insert
<1> HIDE DEF A, B, a, b, c
<1>8. a \o <<e>> = c
  BY <1>1 DEF c
<1>9. c \in Seq(T) /\ Elements(c) = Elements(a) \cup {e}
  BY <1>1, Appended DEF c
<1>10. Ascending(c)
  BY <1>1, <1>2, <1>5, AscendingAppend DEF c
<1>11. \A x \in Elements(c), y \in Elements(b) : x.used <= y.used
  <2> SUFFICES ASSUME NEW x \in Elements(c), NEW y \in Elements(b) PROVE x.used <= y.used
    OBVIOUS
  <2>1. y \in B /\ y.used \in Int /\ e.used < y.used
    BY <1>1, <1>4, <1>5, <1>6
  <2>2. x.used \in Int /\ x.used <= e.used
    BY <1>1, <1>4, <1>5, <1>6, <1>9
  <2> QED BY <1>4, <2>1, <2>2
<1>12. Ascending(c \o b)
  BY <1>1, <1>2, <1>9, <1>10, <1>11, ConcatAscending
<1>13. c \o b \in Seq(T)
  BY <1>1, <1>9
<1>14. ASSUME NEW S, NEW weight, IsWeight(weight, T)
       PROVE  Amount(c \o b, S, weight) = Amount(Append(seq, e), S, weight)
  <2>1. Amount(c \o b, S, weight) = Amount(c, S, weight) + Amount(b, S, weight)
    BY <1>1, <1>9, <1>14, AmountConcat
  <2>2. Amount(c, S, weight) = Amount(a, S, weight) + (IF e \in S THEN weight[e] ELSE 0)
    BY <1>1, <1>14, AmountStep DEF c
  <2>3. Amount(Append(seq, e), S, weight) = Amount(seq, S, weight) + (IF e \in S THEN weight[e] ELSE 0)
    BY <1>14, AmountStep
  <2>4. \A X : Amount(Sieve(seq, X), S, weight) = Amount(seq, S \cap X, weight)
    BY <1>14, SieveAmount
  <2>5. \A X : Amount(seq, S, weight) = Amount(seq, S \cap X, weight) + Amount(seq, S \ X, weight)
    BY <1>14, AmountSplit
  <2>6. Amount(seq, S \ A, weight) = Amount(seq, S \cap B, weight)
    <3>1. (S \ A) \cap Elements(seq) \subseteq S \cap B /\ (S \cap B) \cap Elements(seq) \subseteq S \ A
      BY <1>5
    <3> DEFINE U == S \ A
               V == S \cap B
    <3> HIDE DEF U, V
    <3>2. U \cap Elements(seq) \subseteq V /\ V \cap Elements(seq) \subseteq U
      BY <3>1 DEF U, V
    <3>3. Amount(seq, U, weight) = Amount(seq, V, weight)
      BY <1>14, <3>2, AmountWithin
    <3> QED BY <3>3 DEF U, V
  <2>7. Amount(seq, S, weight) = Amount(a, S, weight) + Amount(b, S, weight)
    <3>1. Amount(a, S, weight) = Amount(seq, S \cap A, weight) /\ Amount(b, S, weight) = Amount(seq, S \cap B, weight)
      BY <2>4, Zenon DEF a, b
    <3>2. Amount(seq, S, weight) = Amount(seq, S \cap A, weight) + Amount(seq, S \ A, weight)
      BY <2>5, Zenon
    <3> QED BY <2>6, <3>1, <3>2
  <2>8. Amount(a, S, weight) \in Nat /\ Amount(b, S, weight) \in Nat /\ (e \in S => weight[e] \in Nat)
    <3>1. Amount(a, S, weight) \in Nat /\ Amount(b, S, weight) \in Nat
      BY <1>1, <1>14, AmountGrows
    <3>2. weight[e] \in Nat
      BY <1>14 DEF IsWeight
    <3> QED BY <3>1, <3>2
  <2> QED BY <2>1, <2>2, <2>3, <2>7, <2>8
<1> QED BY <1>7, <1>8, <1>12, <1>13, <1>14

(* Order is the state its loop ends in.                                    *)
OrderRun(sorted, entries, T) ==
  /\ sorted \in [0..Len(entries) -> Seq(T)]
  /\ sorted[0] = <<>>
  /\ \A i \in 1..Len(entries) : sorted[i] = Insert(sorted[i - 1], entries[i])
  /\ Order(entries) = sorted[Len(entries)]

LEMMA OrderLoop ==
  ASSUME NEW T, AreEntries(T), NEW entries \in Seq(T)
  PROVE  \E sorted : OrderRun(sorted, entries, T) /\ \A i \in 0..Len(entries) : Ascending(sorted[i])
<1> DEFINE n == Len(entries)
           States == {s \in Seq(T) : Ascending(s)}
           start == <<>>
           Move(s, i) == Insert(s, entries[i])
           step == [x \in States \X (1..n) |-> Move(x[1], x[2])]
           Body(f) == [i \in 0..n |-> IF i = 0 THEN start ELSE Move(f[i - 1], i)]
           sorted == CHOOSE f : f = Body(f)
<1>1. n \in Nat /\ start \in States /\ \A s \in States, i \in 1..n : Move(s, i) \in States
  <2>1. Ascending(<<>>) /\ <<>> \in Seq(T)
    BY DEF Ascending
  <2>2. \A i \in 1..n : entries[i] \in T
    OBVIOUS
  <2>3. ASSUME NEW s \in States, NEW i \in 1..n PROVE Move(s, i) \in States
    <3>1. s \in Seq(T) /\ Ascending(s) /\ entries[i] \in T
      BY <2>2
    <3>2. Insert(s, entries[i]) \in Seq(T) /\ Ascending(Insert(s, entries[i]))
      BY <3>1, Inserted
    <3> QED BY <3>2
  <2> HIDE DEF Move, States
  <2>4. n \in Nat
    OBVIOUS
  <2>5. start \in States
    BY <2>1 DEF States
  <2> QED BY <2>3, <2>4, <2>5
<1>2. Order(entries) = sorted[n]
  BY DEF Order
<1>3. States \subseteq Seq(T) /\ \A s \in States : Ascending(s)
  OBVIOUS
<1> HIDE DEF n, States, start, Move
<1>4. IsLoop(step, n, States)
  BY <1>1 DEF IsLoop
<1>5. PICK f : IsRun(f, n, States, start, step)
  <2> HIDE DEF step
  <2>1. n \in Nat /\ start \in States
    BY <1>1
  <2> QED BY <1>4, <2>1, LoopRuns
<1>6. ASSUME NEW i \in 1..n PROVE f[i] = Move(f[i - 1], i)
  <2>1. f[i - 1] \in States
    BY <1>1, <1>5 DEF IsRun
  <2> QED BY <1>5, <2>1 DEF IsRun
<1>7. f = Body(f)
  BY <1>1, <1>5, <1>6 DEF IsRun
<1>8. sorted = Body(sorted)
  <2> HIDE DEF Body
  <2> QED BY <1>7
<1> HIDE DEF sorted
<1>9. sorted[0] = start /\ \A i \in 1..n : sorted[i] = Move(sorted[i - 1], i)
  <2>1. \A i \in 0..n : sorted[i] = IF i = 0 THEN start ELSE Move(sorted[i - 1], i)
    BY <1>8
  <2> QED BY <1>1, <2>1
<1>10. \A i \in 0..n : sorted[i] \in States
  <2> DEFINE P == {i \in 0..n : sorted[i] \in States}
  <2>1. 0 \in P /\ \A i \in 1..n : i - 1 \in P => i \in P
    BY <1>1, <1>9
  <2> HIDE DEF P
  <2>2. \A i \in 0..n : i \in P
    BY <1>1, <2>1, StepInduction
  <2> QED BY <2>2 DEF P
<1>11. sorted \in [0..n -> Seq(T)]
  BY <1>3, <1>8, <1>10
<1>12. OrderRun(sorted, entries, T)
  BY <1>2, <1>9, <1>11 DEF n, start, Move, OrderRun
<1>13. \A i \in 0..Len(entries) : Ascending(sorted[i])
  BY <1>3, <1>10 DEF n
<1> QED BY <1>12, <1>13

LEMMA OrderStep ==
  ASSUME NEW T, AreEntries(T), NEW entries \in Seq(T), NEW e \in T
  PROVE  Order(Append(entries, e)) = Insert(Order(entries), e)
<1> DEFINE n == Len(entries)
           more == Append(entries, e)
<1>1. /\ more \in Seq(T) /\ n \in Nat /\ Len(more) = n + 1
      /\ more[n + 1] = e /\ \A i \in 1..n : more[i] = entries[i]
  OBVIOUS
<1> HIDE DEF more
<1>2. PICK f : OrderRun(f, entries, T)
  BY OrderLoop
<1>3. PICK g : OrderRun(g, more, T)
  BY <1>1, OrderLoop
<1>4. \A i \in 1..n : f[i - 1] = g[i - 1] => f[i] = g[i]
  <2> SUFFICES ASSUME NEW i \in 1..n, f[i - 1] = g[i - 1] PROVE f[i] = g[i]
    OBVIOUS
  <2>1. i \in 1..Len(more) /\ more[i] = entries[i]
    BY <1>1
  <2> QED BY <1>2, <1>3, <2>1 DEF OrderRun
<1> HIDE DEF n
<1>5. f[n] = g[n]
  <2>1. GoAlike(f, g, n)
    BY <1>2, <1>3, <1>4 DEF GoAlike, OrderRun
  <2> QED BY <1>1, <2>1, RunsAlike
<1>6. g[n + 1] = Insert(g[n], more[n + 1])
  <2>1. n + 1 \in 1..Len(more) /\ (n + 1) - 1 = n
    BY <1>1
  <2> QED BY <1>3, <2>1 DEF OrderRun
<1>7. Order(entries) = f[n] /\ Order(more) = g[n + 1]
  BY <1>1, <1>2, <1>3 DEF OrderRun, n
<1> QED BY <1>1, <1>5, <1>6, <1>7 DEF more

(* The order of a prune is that of last use, and of all the entries.       *)
LEMMA OrderSorts ==
  ASSUME NEW T, AreEntries(T), NEW entries \in Seq(T)
  PROVE  /\ Order(entries) \in Seq(T) /\ Ascending(Order(entries))
         /\ \A S, weight : IsWeight(weight, T) =>
              Amount(Order(entries), S, weight) = Amount(entries, S, weight)
<1> DEFINE Good(s) == /\ Order(s) \in Seq(T) /\ Ascending(Order(s))
                      /\ \A S, weight : IsWeight(weight, T) =>
                           Amount(Order(s), S, weight) = Amount(s, S, weight)
           P == {s \in Seq(T) : Good(s)}
<1>1. <<>> \in P
  <2>1. <<>> \in Seq(T) /\ Ascending(<<>>)
    BY DEF Ascending
  <2>2. Order(<<>>) = <<>>
    <3>1. PICK f : OrderRun(f, <<>>, T)
      BY <2>1, OrderLoop
    <3>2. Len(<<>>) = 0
      OBVIOUS
    <3> QED BY <3>1, <3>2 DEF OrderRun
  <2> QED BY <2>1, <2>2
<1>2. ASSUME NEW s \in Seq(T), NEW e \in T, s \in P PROVE Append(s, e) \in P
  <2>1. Append(s, e) \in Seq(T) /\ Good(s)
    BY <1>2
  <2>2. Order(Append(s, e)) = Insert(Order(s), e)
    BY OrderStep
  <2> DEFINE order == Order(s)
  <2>3. /\ order \in Seq(T) /\ Ascending(order)
        /\ \A S, weight : IsWeight(weight, T) => Amount(order, S, weight) = Amount(s, S, weight)
    BY <2>1
  <2> HIDE DEF order
  <2>4. /\ Insert(order, e) \in Seq(T) /\ Ascending(Insert(order, e))
        /\ \A S, weight : IsWeight(weight, T) =>
             Amount(Insert(order, e), S, weight) = Amount(Append(order, e), S, weight)
    BY <2>3, Inserted
  <2>5. ASSUME NEW S, NEW weight, IsWeight(weight, T)
        PROVE  Amount(Insert(order, e), S, weight) = Amount(Append(s, e), S, weight)
    <3>1. Amount(Append(order, e), S, weight) = Amount(order, S, weight) + (IF e \in S THEN weight[e] ELSE 0)
      BY <2>3, <2>5, AmountStep
    <3>2. Amount(Append(s, e), S, weight) = Amount(s, S, weight) + (IF e \in S THEN weight[e] ELSE 0)
      BY <2>5, AmountStep
    <3> QED BY <2>3, <2>4, <2>5, <3>1, <3>2
  <2>6. Good(Append(s, e))
    BY <2>2, <2>4, <2>5 DEF order
  <2> QED BY <2>1, <2>6
<1> HIDE DEF P
<1>3. \A s \in Seq(T) : s \in P
  BY <1>1, <1>2, SequenceInduction
<1> QED BY <1>3 DEF P

(* Loop is the state its loop ends in.                                     *)
PruneState(T) == [count : Int, total : Int, tried : Seq(T)]
PruneStep(s, e, kind, limits) ==
  IF e.kept \/ ~MustRemove(kind, e, s.count, s.total, limits) THEN s
  ELSE [count |-> s.count - IF Counts(kind, e) THEN 1 ELSE 0,
        total |-> s.total - IF Counts(kind, e) THEN Credit(kind, e) ELSE 0,
        tried |-> Append(s.tried, e)]
PruneRun(after, kind, entries, limits, T) ==
  LET order == Order(entries)
  IN  /\ after \in [0..Len(order) -> PruneState(T)]
      /\ after[0] = [count |-> Len(order), total |-> SumOf(kind, order), tried |-> <<>>]
      /\ \A i \in 1..Len(order) : after[i] = PruneStep(after[i - 1], order[i], kind, limits)
      /\ Loop(kind, entries, limits) = after[Len(order)]

LEMMA WeightType ==
  ASSUME NEW kind \in Kinds, NEW e, IsEntry(e)
  PROVE  Weight(kind, e) \in Nat
BY DEF Weight, IsEntry, Kinds

LEMMA SumAmount ==
  ASSUME NEW T, AreEntries(T), NEW kind \in Kinds, NEW seq \in Seq(T), NEW S
  PROVE  /\ IsWeight([e \in T |-> Weight(kind, e)], T)
         /\ SumOf(kind, Sieve(seq, S)) = Amount(seq, S, [e \in T |-> Weight(kind, e)])
         /\ SumOf(kind, seq) = Amount(seq, T, [e \in T |-> Weight(kind, e)])
         /\ SumOf(kind, seq) \in Nat
<1> DEFINE weight == [e \in T |-> Weight(kind, e)]
<1>1. IsWeight(weight, T)
  BY WeightType DEF AreEntries, IsWeight
<1>2. ASSUME NEW X PROVE SumOf(kind, Sieve(seq, X)) = Amount(seq, X, weight)
  <2> DEFINE s == Sieve(seq, X)
  <2>1. s \in Seq(T)
    BY SieveFirst
  <2> HIDE DEF s
  <2>2. \A i \in DOMAIN s : s[i] \in T
    BY <2>1
  <2>3. [i \in DOMAIN s |-> Weight(kind, s[i])] = [i \in DOMAIN s |-> weight[s[i]]]
    BY <2>2
  <2> HIDE DEF weight
  <2> QED BY <2>3 DEF SumOf, Amount, s
<1>3. Elements(seq) \subseteq T
  BY ToSetElements
<1>4. Sieve(seq, T) = seq
  BY <1>3, SieveAll
<1>5. Amount(seq, T, weight) \in Nat
  BY <1>1, AmountGrows
<1> QED BY <1>1, <1>2, <1>4, <1>5

LEMMA PruneLoop ==
  ASSUME NEW T, AreEntries(T), NEW kind \in Kinds, NEW entries \in Seq(T), NEW limits
  PROVE  \E after : PruneRun(after, kind, entries, limits, T)
<1> DEFINE order == Order(entries)
           n == Len(order)
           States == PruneState(T)
           start == [count |-> Len(order), total |-> SumOf(kind, order), tried |-> <<>>]
           Move(s, i) == PruneStep(s, order[i], kind, limits)
           step == [x \in States \X (1..n) |-> Move(x[1], x[2])]
           Body(f) == [i \in 0..n |-> IF i = 0 THEN start ELSE Move(f[i - 1], i)]
           after == CHOOSE f : f = Body(f)
<1>1. order \in Seq(T) /\ n \in Nat
  BY OrderSorts
<1>2. start \in States
  <2> HIDE DEF order
  <2>1. SumOf(kind, order) \in Nat
    BY <1>1, SumAmount
  <2>2. Len(order) \in Int /\ SumOf(kind, order) \in Int /\ <<>> \in Seq(T)
    BY <1>1, <2>1
  <2> QED BY <2>2 DEF PruneState
<1>3. ASSUME NEW s \in States, NEW e \in T PROVE PruneStep(s, e, kind, limits) \in States
  <2>1. s.count \in Int /\ s.total \in Int /\ s.tried \in Seq(T)
    BY DEF PruneState
  <2>2. Credit(kind, e) \in Nat
    BY WeightType DEF AreEntries, Credit
  <2>3. Append(s.tried, e) \in Seq(T)
    BY <2>1
  <2> QED BY <2>1, <2>2, <2>3 DEF PruneStep, PruneState
<1>4. \A i \in 1..n : order[i] \in T
  BY <1>1
<1>5. \A s \in States, i \in 1..n : Move(s, i) \in States
  BY <1>3, <1>4
<1>6. Loop(kind, entries, limits) = after[n]
  BY DEF Loop, PruneStep
<1> HIDE DEF n, States, start, Move
<1>7. IsLoop(step, n, States)
  BY <1>5 DEF IsLoop
<1>8. PICK f : IsRun(f, n, States, start, step)
  <2> HIDE DEF step
  <2> QED BY <1>1, <1>2, <1>7, LoopRuns
<1>9. ASSUME NEW i \in 1..n PROVE f[i] = Move(f[i - 1], i)
  <2>1. f[i - 1] \in States
    BY <1>1, <1>8 DEF IsRun
  <2> QED BY <1>8, <2>1 DEF IsRun
<1>10. f = Body(f)
  BY <1>1, <1>8, <1>9 DEF IsRun
<1>11. after = Body(after)
  <2> HIDE DEF Body
  <2> QED BY <1>10
<1> HIDE DEF after
<1>12. after[0] = start /\ \A i \in 1..n : after[i] = Move(after[i - 1], i)
  <2>1. \A i \in 0..n : after[i] = IF i = 0 THEN start ELSE Move(after[i - 1], i)
    BY <1>11
  <2> QED BY <1>1, <2>1
<1>13. \A i \in 0..n : after[i] \in States
  <2> DEFINE P == {i \in 0..n : after[i] \in States}
  <2>1. 0 \in P /\ \A i \in 1..n : i - 1 \in P => i \in P
    BY <1>1, <1>2, <1>5, <1>12
  <2> HIDE DEF P
  <2>2. \A i \in 0..n : i \in P
    BY <1>1, <2>1, StepInduction
  <2> QED BY <2>2 DEF P
<1>14. after \in [0..n -> States]
  BY <1>11, <1>13
<1>15. PruneRun(after, kind, entries, limits, T)
  BY <1>6, <1>12, <1>14 DEF n, start, Move, PruneRun, States, order
<1> QED BY <1>15

(* What the loop has done after each of its steps, for entries of which no *)
(* two are the same: what it tries, in order of last use, is what the      *)
(* counters make it try, and the counters are of the entries that are left.*)
Ones(T) == [e \in T |-> 1]
Weights(kind, T) == [e \in T |-> Weight(kind, e)]
Chosen(after, kind, order, limits, k) ==
  ~order[k].kept /\ MustRemove(kind, order[k], after[k - 1].count, after[k - 1].total, limits)
Gone(after, kind, order, limits, i) ==
  {order[j] : j \in {k \in 1..i : Chosen(after, kind, order, limits, k) /\ Counts(kind, order[k])}}
PruneTrace(after, kind, entries, limits, T) ==
  LET order == Order(entries)
  IN  /\ order \in Seq(T) /\ Ascending(order) /\ Distinct(order)
      /\ Elements(order) = Elements(entries)
      /\ \A i \in 0..Len(order) : after[i].count \in Int /\ after[i].total \in Int
      /\ \A i, j \in 0..Len(order) :
           i <= j => after[j].count <= after[i].count /\ after[j].total <= after[i].total
      /\ Tried(kind, entries, limits) \subseteq Elements(order)
      /\ \A k \in 1..Len(order) :
           order[k] \in Tried(kind, entries, limits) <=> Chosen(after, kind, order, limits, k)
      /\ \A i \in 0..Len(order) :
           LET gone == Gone(after, kind, order, limits, i)
           IN  /\ after[i].count = Amount(entries, T \ gone, Ones(T))
               /\ after[i].total = Amount(entries, T \ gone, Weights(kind, T))

LEMMA OrderDistinct ==
  ASSUME NEW T, AreEntries(T), NEW entries \in Seq(T), Distinct(entries)
  PROVE  Distinct(Order(entries)) /\ Elements(Order(entries)) = Elements(entries)
<1> DEFINE order == Order(entries)
<1>1. IsWeight(Ones(T), T)
  BY DEF IsWeight, Ones
<1>2. order \in Seq(T) /\ \A S : Amount(order, S, Ones(T)) = Amount(entries, S, Ones(T))
  BY <1>1, OrderSorts
<1> HIDE DEF order
<1>3. \A x \in T : Times(order, x, T) = Times(entries, x, T)
  BY <1>2 DEF Times, Ones
<1>4. Distinct(order)
  <2>1. \A x \in T : Times(entries, x, T) <= 1
    BY DistinctOnce
  <2> QED BY <1>2, <1>3, <2>1, DistinctOnce
<1>5. \A x \in T : (x \in Elements(order) <=> Times(order, x, T) >= 1)
                /\ (x \in Elements(entries) <=> Times(entries, x, T) >= 1)
  BY <1>2, Occurs DEF Times
<1>6. Elements(order) \subseteq T /\ Elements(entries) \subseteq T
  BY <1>2, ToSetElements
<1>7. Elements(order) = Elements(entries)
  BY <1>3, <1>5, <1>6
<1> QED BY <1>4, <1>7 DEF order

(* What has been tried after a step.                                       *)
LEMMA TriedByStep ==
  ASSUME NEW T, AreEntries(T), NEW kind \in Kinds, NEW entries \in Seq(T), NEW limits,
         NEW after, PruneRun(after, kind, entries, limits, T)
  PROVE  LET order == Order(entries)
         IN  Tried(kind, entries, limits)
               = {order[j] : j \in {k \in 1..Len(order) : Chosen(after, kind, order, limits, k)}}
<1> DEFINE order == Order(entries)
           n == Len(order)
           Up(i) == {order[j] : j \in {k \in 1..i : Chosen(after, kind, order, limits, k)}}
           P == {i \in 0..n : Elements(after[i].tried) = Up(i)}
<1>1. order \in Seq(T) /\ n \in Nat
  BY OrderSorts
<1>2. /\ after \in [0..n -> PruneState(T)]
      /\ after[0] = [count |-> Len(order), total |-> SumOf(kind, order), tried |-> <<>>]
      /\ \A i \in 1..n : after[i] = PruneStep(after[i - 1], order[i], kind, limits)
      /\ Loop(kind, entries, limits) = after[n]
  BY DEF PruneRun
<1> HIDE DEF order, n
<1>3. 0 \in P
  <2>1. after[0].tried = <<>> /\ Elements(<<>>) = {}
    BY <1>2 DEF Elements
  <2>2. Up(0) = {} /\ 0 \in 0..n
    BY <1>1
  <2> QED BY <2>1, <2>2
<1>4. ASSUME NEW i \in 1..n, i - 1 \in P PROVE i \in P
  <2>1. i - 1 \in 0..n /\ i \in 0..n /\ i \in Nat
    BY <1>1
  <2>2. after[i - 1].tried \in Seq(T) /\ order[i] \in T
    <3>1. after[i - 1] \in PruneState(T)
      BY <1>2, <2>1
    <3>2. order[i] \in T
      BY <1>1 DEF n
    <3> QED BY <3>1, <3>2 DEF PruneState
  <2>3. Elements(after[i - 1].tried) = Up(i - 1)
    BY <1>4
  <2>4. Elements(Append(after[i - 1].tried, order[i])) = Elements(after[i - 1].tried) \cup {order[i]}
    BY <2>2, Appended
  <2>5. after[i] = PruneStep(after[i - 1], order[i], kind, limits)
    BY <1>2
  <2>6. \A k \in 1..i : k \in 1..(i - 1) \/ k = i
    BY <2>1
  <2>7. \A k \in 1..(i - 1) : k \in 1..i
    BY <2>1
  <2>8. CASE Chosen(after, kind, order, limits, i)
    <3>1. after[i].tried = Append(after[i - 1].tried, order[i])
      BY <2>5, <2>8 DEF Chosen, PruneStep
    <3>2. Up(i) = Up(i - 1) \cup {order[i]}
      BY <2>1, <2>6, <2>7, <2>8
    <3> QED BY <2>1, <2>3, <2>4, <3>1, <3>2
  <2>9. CASE ~Chosen(after, kind, order, limits, i)
    <3>1. after[i].tried = after[i - 1].tried
      BY <2>5, <2>9 DEF Chosen, PruneStep
    <3>2. Up(i) = Up(i - 1)
      BY <2>1, <2>6, <2>7, <2>9
    <3> QED BY <2>1, <2>3, <3>1, <3>2
  <2> QED BY <2>8, <2>9
<1>5. n \in P
  <2> HIDE DEF P
  <2>1. \A i \in 0..n : i \in P
    BY <1>1, <1>3, <1>4, StepInduction
  <2> QED BY <1>1, <2>1
<1>6. Tried(kind, entries, limits) = Elements(after[n].tried)
  <2>1. after[n].tried \in Seq(T)
    BY <1>1, <1>2 DEF PruneState
  <2>2. ToSet(after[n].tried) = Elements(after[n].tried)
    BY <2>1, ToSetElements
  <2> QED BY <1>2, <2>2 DEF Tried
<1> QED BY <1>5, <1>6 DEF order, n

LEMMA PruneTraces ==
  ASSUME NEW T, AreEntries(T), NEW kind \in Kinds, NEW entries \in Seq(T), Distinct(entries), NEW limits
  PROVE  \E after : PruneTrace(after, kind, entries, limits, T)
<1> DEFINE order == Order(entries)
           n == Len(order)
           ones == Ones(T)
           weight == Weights(kind, T)
<1>1. PICK after : PruneRun(after, kind, entries, limits, T)
  BY PruneLoop
<1> DEFINE C(k) == Chosen(after, kind, order, limits, k)
           G(i) == Gone(after, kind, order, limits, i)
           tried == Tried(kind, entries, limits)
<1>2. tried = {order[j] : j \in {k \in 1..n : C(k)}}
  BY <1>1, TriedByStep
<1>3. order \in Seq(T) /\ Ascending(order) /\ n \in Nat
  BY OrderSorts
<1>4. Distinct(order) /\ Elements(order) = Elements(entries)
  BY OrderDistinct
<1>5. IsWeight(ones, T) /\ IsWeight(weight, T)
  BY WeightType DEF AreEntries, IsWeight, Ones, Weights
<1>6. /\ after \in [0..n -> PruneState(T)]
      /\ after[0] = [count |-> n, total |-> SumOf(kind, order), tried |-> <<>>]
      /\ \A i \in 1..n : after[i] = PruneStep(after[i - 1], order[i], kind, limits)
  BY <1>1 DEF PruneRun
<1>7. \A S : /\ Amount(order, S, ones) = Amount(entries, S, ones)
             /\ Amount(order, S, weight) = Amount(entries, S, weight)
  BY <1>5, OrderSorts
<1>8. n = Amount(order, T, ones) /\ SumOf(kind, order) = Amount(order, T, weight)
  <2>1. Sieve(order, T) = order
    BY <1>3, SieveAll, ToSetElements
  <2>2. Len(Sieve(order, T)) = Amount(order, T, ones)
    BY <1>3, SieveLength DEF Ones
  <2>3. SumOf(kind, order) = Amount(order, T, weight)
    BY <1>3, SumAmount DEF Weights
  <2> QED BY <2>1, <2>2, <2>3
<1>9. \A k \in 1..n : order[k] \in T
  BY <1>3
<1> HIDE DEF order, n, ones, weight, tried
<1>10. \A i, j \in 1..n : order[i] = order[j] => i = j
  BY <1>4 DEF Distinct, n
<1>11. tried \subseteq Elements(order)
  BY <1>2 DEF Elements, n
<1>12. \A k \in 1..n : order[k] \in tried <=> C(k)
  BY <1>2, <1>10
<1>13. \A i \in 0..n : G(i) = {order[j] : j \in {k \in 1..i : C(k) /\ Counts(kind, order[k])}}
  BY DEF Gone
<1> HIDE DEF C, G
<1> DEFINE Kept(i) == /\ after[i].count = Amount(order, T \ G(i), ones)
                      /\ after[i].total = Amount(order, T \ G(i), weight)
           P == {i \in 0..n : Kept(i)}
<1>14. 0 \in P
  <2>1. 0 \in 0..n /\ G(0) = {}
    BY <1>3, <1>13
  <2>2. T \ G(0) = T
    BY <2>1
  <2>3. after[0].count = n /\ after[0].total = SumOf(kind, order)
    BY <1>6
  <2>4. Kept(0)
    BY <1>8, <2>2, <2>3
  <2> QED BY <2>1, <2>4
<1>15. ASSUME NEW i \in 1..n, i - 1 \in P PROVE i \in P
  <2>1. i - 1 \in 0..n /\ i \in 0..n /\ Kept(i - 1)
    BY <1>3, <1>15
  <2>2. after[i] = PruneStep(after[i - 1], order[i], kind, limits)
    BY <1>6
  <2>3. \A k \in 1..i : k \in 1..(i - 1) \/ k = i
    BY <1>3
  <2>4. \A k \in 1..(i - 1) : k \in 1..i /\ k \in 1..n /\ k # i
    BY <1>3
  <2>5. CASE C(i) /\ Counts(kind, order[i])
    <3>1. /\ after[i].count = after[i - 1].count - 1
          /\ after[i].total = after[i - 1].total - Weight(kind, order[i])
      BY <2>2, <2>5 DEF PruneStep, Credit, C, Chosen
    <3>2. G(i) = G(i - 1) \cup {order[i]} /\ order[i] \notin G(i - 1)
      BY <1>10, <1>13, <2>1, <2>3, <2>4, <2>5
    <3> DEFINE left == T \ G(i - 1)
    <3>3. T \ G(i) = left \ {order[i]} /\ order[i] \in left
      BY <1>9, <3>2
    <3>4. order[i] \in Elements(order)
      BY DEF Elements, n
    <3> HIDE DEF left
    <3>5. /\ Amount(order, left \ {order[i]}, ones) = Amount(order, left, ones) - ones[order[i]]
          /\ Amount(order, left \ {order[i]}, weight) = Amount(order, left, weight) - weight[order[i]]
      BY <1>3, <1>4, <1>5, <3>3, <3>4, WithoutOne
    <3>6. ones[order[i]] = 1 /\ weight[order[i]] = Weight(kind, order[i])
      BY <1>9 DEF ones, weight, Ones, Weights
    <3>7. Kept(i)
      BY <2>1, <3>1, <3>3, <3>5, <3>6 DEF left
    <3> QED BY <2>1, <3>7
  <2>6. CASE ~(C(i) /\ Counts(kind, order[i]))
    <3>1. after[i].count = after[i - 1].count /\ after[i].total = after[i - 1].total
      <4>1. after[i - 1].count \in Int /\ after[i - 1].total \in Int
        BY <1>6, <2>1 DEF PruneState
      <4> QED BY <2>2, <2>6, <4>1 DEF PruneStep, C, Chosen
    <3>2. G(i) = G(i - 1)
      BY <1>13, <2>1, <2>3, <2>4, <2>6
    <3> QED BY <2>1, <3>1, <3>2
  <2> QED BY <2>5, <2>6
<1>16. \A i \in 0..n : Kept(i)
  <2> HIDE DEF P
  <2>1. \A i \in 0..n : i \in P
    BY <1>3, <1>14, <1>15, StepInduction
  <2> QED BY <2>1 DEF P
<1>17. \A i \in 0..n : after[i].count \in Int /\ after[i].total \in Int
  BY <1>6 DEF PruneState
<1>18. ASSUME NEW i \in 0..n, NEW j \in 0..n, i <= j
       PROVE  after[j].count <= after[i].count /\ after[j].total <= after[i].total
  <2>1. G(i) \subseteq G(j)
    <3>1. \A k \in 1..i : k \in 1..j
      BY <1>3, <1>18
    <3> QED BY <1>13, <3>1
  <2> DEFINE small == T \ G(j)
             large == T \ G(i)
  <2>2. small \cap T \subseteq large
    BY <2>1
  <2> HIDE DEF small, large
  <2>3. Amount(order, small, ones) <= Amount(order, large, ones) /\ Amount(order, small, weight) <= Amount(order, large, weight)
    BY <1>3, <1>5, <2>2, AmountGrows
  <2> QED BY <1>16, <2>3 DEF small, large
<1>19. PruneTrace(after, kind, entries, limits, T)
  <2>1. \A i \in 0..n : /\ after[i].count = Amount(entries, T \ G(i), ones)
                        /\ after[i].total = Amount(entries, T \ G(i), weight)
    BY <1>7, <1>16
  <2> QED BY <1>3, <1>4, <1>11, <1>12, <1>17, <1>18, <2>1 DEF PruneTrace, order, n, ones, weight, tried, C, G
<1> QED BY <1>19

-----------------------------------------------------------------------------
(* The limits of a prune, for any entries of which no two are the same: an *)
(* entry is one path or one volume.                                        *)
Prunable(kind, entries, limits) ==
  /\ kind \in Kinds
  /\ entries \in Seq(ToSet(entries)) /\ AreEntries(ToSet(entries)) /\ Distinct(entries)
  /\ limits.entries \in Int /\ limits.bytes \in Int /\ limits.cutoff \in Int

(* The theorems below are about one prune, and its trace.                  *)
TracedPrune(after, kind, entries, limits) ==
  LET order == Order(entries)
      T == ToSet(entries)
  IN  /\ PruneTrace(after, kind, entries, limits, T)
      /\ entries \in Seq(T) /\ T = {order[k] : k \in 1..Len(order)}
      /\ Len(order) \in Nat

LEMMA TracesOfPrunes ==
  ASSUME NEW kind, NEW entries, NEW limits, Prunable(kind, entries, limits)
  PROVE  \E after : TracedPrune(after, kind, entries, limits)
<1> DEFINE T == ToSet(entries)
<1>1. kind \in Kinds /\ entries \in Seq(T) /\ AreEntries(T) /\ Distinct(entries)
  BY DEF Prunable
<1> HIDE DEF T
<1>2. PICK after : PruneTrace(after, kind, entries, limits, T)
  BY <1>1, PruneTraces
<1>3. T = Elements(entries)
  BY <1>1, ToSetElements DEF T
<1>4. T = {Order(entries)[k] : k \in 1..Len(Order(entries))}
  BY <1>2, <1>3 DEF PruneTrace, Elements
<1>5. Order(entries) \in Seq(T)
  BY <1>2 DEF PruneTrace
<1>6. Len(Order(entries)) \in Nat
  BY <1>5
<1> QED BY <1>1, <1>2, <1>4, <1>6 DEF TracedPrune, T

(* An entry that could go and has not was within the limits when it was    *)
(* looked at.                                                              *)
LEMMA Spared ==
  ASSUME NEW kind, NEW entries, NEW limits, Prunable(kind, entries, limits),
         NEW after, TracedPrune(after, kind, entries, limits),
         NEW k \in 1..Len(Order(entries)), Order(entries)[k] \notin Tried(kind, entries, limits),
         ~Order(entries)[k].kept
  PROVE  /\ after[k - 1].count <= limits.entries
         /\ after[k - 1].total <= limits.bytes \/ (kind = "volume" /\ ~Order(entries)[k].sized)
<1> DEFINE order == Order(entries)
<1>1. ~Chosen(after, kind, order, limits, k)
  BY DEF TracedPrune, PruneTrace
<1>2. k - 1 \in 0..Len(order)
  BY DEF TracedPrune
<1>3. after[k - 1].count \in Int /\ after[k - 1].total \in Int
  BY <1>2 DEF TracedPrune, PruneTrace
<1>4. ~MustRemove(kind, order[k], after[k - 1].count, after[k - 1].total, limits)
  BY <1>1 DEF Chosen
<1> HIDE DEF order
<1>5. ~(after[k - 1].count > limits.entries)
      /\ ~(after[k - 1].total > limits.bytes /\ (kind = "volume" => order[k].sized))
  BY <1>4 DEF MustRemove
<1>6. limits.entries \in Int /\ limits.bytes \in Int
  BY DEF Prunable
<1> QED BY <1>3, <1>5, <1>6 DEF order

LEMMA LeftWithinLimits ==
  ASSUME NEW kind, NEW entries, NEW limits, Prunable(kind, entries, limits)
  PROVE  WithinLimits(kind, entries, limits)
<1> DEFINE T == ToSet(entries)
           order == Order(entries)
           n == Len(order)
           tried == Tried(kind, entries, limits)
           left == Left(kind, entries, limits)
<1>1. SUFFICES ASSUME \A e \in T : e.fate = "removed"
      PROVE  /\ Len(left) > limits.entries => \A e \in ToSet(left) : e.kept
             /\ SumOf(kind, left) > limits.bytes =>
                  \A e \in ToSet(left) : e.kept \/ (kind = "volume" /\ ~e.sized)
  BY DEF WithinLimits
<1>2. PICK after : TracedPrune(after, kind, entries, limits)
  BY TracesOfPrunes
<1>3. entries \in Seq(T) /\ AreEntries(T) /\ kind \in Kinds
  BY DEF Prunable
<1>4. left = Sieve(entries, T \ tried)
  <2>1. {e \in T : e \notin tried \/ e.fate # "removed"} = T \ tried
    BY <1>1
  <2> QED BY <2>1 DEF Left
<1>5. Gone(after, kind, order, limits, n) = tried
  <2>1. \A k \in 1..n : order[k] \in T /\ Counts(kind, order[k])
    BY <1>1, <1>2 DEF TracedPrune, Counts
  <2>2. \A k \in 1..n : order[k] \in tried <=> Chosen(after, kind, order, limits, k)
    BY <1>2 DEF TracedPrune, PruneTrace
  <2>3. tried \subseteq {order[k] : k \in 1..n}
    BY <1>2 DEF TracedPrune, PruneTrace, Elements
  <2> HIDE DEF tried, order, n
  <2> QED BY <2>1, <2>2, <2>3 DEF Gone
<1>6. n \in Nat /\ n \in 0..n
  BY <1>2 DEF TracedPrune
<1>7. /\ after[n].count = Amount(entries, T \ tried, Ones(T))
      /\ after[n].total = Amount(entries, T \ tried, Weights(kind, T))
  BY <1>2, <1>5, <1>6 DEF TracedPrune, PruneTrace
<1>8. Len(left) = after[n].count /\ SumOf(kind, left) = after[n].total
  <2> HIDE DEF T, left, order, n, tried
  <2>1. Len(Sieve(entries, T \ tried)) = Amount(entries, T \ tried, Ones(T))
    BY <1>3, SieveLength DEF Ones
  <2>2. \A S : SumOf(kind, Sieve(entries, S)) = Amount(entries, S, Weights(kind, T))
    BY <1>3, SumAmount DEF Weights
  <2> QED BY <1>4, <1>7, <2>1, <2>2
<1>9. ASSUME NEW e \in ToSet(left), ~e.kept
      PROVE  after[n].count <= limits.entries /\ (after[n].total <= limits.bytes \/ (kind = "volume" /\ ~e.sized))
  <2>1. left \in Seq(T) /\ Elements(left) = Elements(entries) \cap (T \ tried)
    BY <1>3, <1>4, SieveFirst, SieveElements
  <2>2. e \in T \ tried
    <3> HIDE DEF left, tried, T
    <3>1. ToSet(left) = Elements(left)
      BY <2>1, ToSetElements
    <3> QED BY <1>9, <2>1, <3>1
  <2>3. PICK k \in 1..n : e = order[k]
    BY <1>2, <2>2 DEF TracedPrune
  <2>4. /\ after[k - 1].count <= limits.entries
        /\ after[k - 1].total <= limits.bytes \/ (kind = "volume" /\ ~e.sized)
    BY <1>2, <1>9, <2>2, <2>3, Spared
  <2>5. k - 1 \in 0..n /\ k - 1 <= n
    BY <1>6
  <2>6. after[n].count <= after[k - 1].count /\ after[n].total <= after[k - 1].total
    BY <1>2, <1>6, <2>5 DEF TracedPrune, PruneTrace
  <2>7. /\ after[n].count \in Int /\ after[n].total \in Int
        /\ after[k - 1].count \in Int /\ after[k - 1].total \in Int
    BY <1>2, <1>6, <2>5 DEF TracedPrune, PruneTrace
  <2>8. limits.entries \in Int /\ limits.bytes \in Int
    BY DEF Prunable
  <2> HIDE DEF left, n, order, tried
  <2> QED BY <2>4, <2>6, <2>7, <2>8
<1>10. after[n].count \in Int /\ after[n].total \in Int /\ limits.entries \in Int /\ limits.bytes \in Int
  BY <1>2, <1>6 DEF TracedPrune, PruneTrace, Prunable
<1> HIDE DEF left, n, order, tried, T
<1> QED BY <1>8, <1>9, <1>10

(* The entries that could still be there when one is tried for a limit.    *)
LEMMA NoneNeedless ==
  ASSUME NEW kind, NEW entries, NEW limits, Prunable(kind, entries, limits)
  PROVE  NothingNeedless(kind, entries, limits)
<1> DEFINE T == ToSet(entries)
           order == Order(entries)
           n == Len(order)
           tried == Tried(kind, entries, limits)
<1> SUFFICES ASSUME NEW e \in tried, ~Expired(kind, e, limits.cutoff)
             PROVE  LET there == Sieve(entries, {f \in T :
                                   \/ f \notin tried \/ f.fate # "removed" \/ f.used >= e.used})
                    IN  Len(there) > limits.entries \/ SumOf(kind, there) > limits.bytes
  BY DEF NothingNeedless
<1> DEFINE stays == {f \in T : f \notin tried \/ f.fate # "removed" \/ f.used >= e.used}
           there == Sieve(entries, stays)
<1>1. PICK after : TracedPrune(after, kind, entries, limits)
  BY TracesOfPrunes
<1>2. entries \in Seq(T) /\ AreEntries(T) /\ kind \in Kinds /\ Distinct(entries)
  BY DEF Prunable
<1>3. T = {order[k] : k \in 1..n} /\ n \in Nat /\ order \in Seq(T) /\ Ascending(order)
  BY <1>1 DEF TracedPrune, PruneTrace
<1>4. tried \subseteq T
  BY <1>1 DEF TracedPrune, PruneTrace, Elements
<1>5. PICK k \in 1..n : e = order[k]
  BY <1>3, <1>4
<1>6. \A j \in 1..n : order[j] \in tried <=> Chosen(after, kind, order, limits, j)
  BY <1>1 DEF TracedPrune, PruneTrace
<1>7. MustRemove(kind, e, after[k - 1].count, after[k - 1].total, limits)
  BY <1>5, <1>6 DEF Chosen
<1>8. after[k - 1].count > limits.entries \/ after[k - 1].total > limits.bytes
  BY <1>7 DEF MustRemove
<1> DEFINE gone == Gone(after, kind, order, limits, k - 1)
<1>9. k - 1 \in 0..n
  BY <1>3
<1>10. /\ after[k - 1].count = Amount(entries, T \ gone, Ones(T))
       /\ after[k - 1].total = Amount(entries, T \ gone, Weights(kind, T))
  BY <1>1, <1>9 DEF TracedPrune, PruneTrace
<1>11. T \ gone \subseteq stays
  <2> SUFFICES ASSUME NEW f \in T, f \in tried, f.fate = "removed", ~(f.used >= e.used)
               PROVE  f \in gone
    OBVIOUS
  <2>1. PICK j \in 1..n : f = order[j]
    BY <1>3
  <2>2. f.used \in Int /\ e.used \in Int
    BY <1>2, <1>4 DEF AreEntries, IsEntry
  <2>3. ~(k <= j)
    <3>1. k <= j => order[k].used <= order[j].used
      BY <1>3 DEF Ascending
    <3> QED BY <1>5, <2>1, <2>2, <3>1
  <2>4. j \in 1..(k - 1)
    BY <1>3, <2>3
  <2>5. Chosen(after, kind, order, limits, j) /\ Counts(kind, order[j])
    BY <1>6, <2>1 DEF Counts
  <2> QED BY <2>1, <2>4, <2>5 DEF Gone
<1> HIDE DEF T, order, n, tried, gone, stays
<1>12. /\ Len(there) = Amount(entries, stays, Ones(T))
       /\ SumOf(kind, there) = Amount(entries, stays, Weights(kind, T))
  <2>1. Len(Sieve(entries, stays)) = Amount(entries, stays, Ones(T))
    BY <1>2, SieveLength DEF Ones
  <2>2. SumOf(kind, Sieve(entries, stays)) = Amount(entries, stays, Weights(kind, T))
    BY <1>2, SumAmount DEF Weights
  <2> QED BY <2>1, <2>2
<1>13. IsWeight(Ones(T), T) /\ IsWeight(Weights(kind, T), T)
  BY <1>2, WeightType DEF AreEntries, IsWeight, Ones, Weights
<1>14. /\ Amount(entries, T \ gone, Ones(T)) <= Amount(entries, stays, Ones(T))
       /\ Amount(entries, T \ gone, Weights(kind, T)) <= Amount(entries, stays, Weights(kind, T))
       /\ Amount(entries, T \ gone, Ones(T)) \in Nat /\ Amount(entries, stays, Ones(T)) \in Nat
       /\ Amount(entries, T \ gone, Weights(kind, T)) \in Nat /\ Amount(entries, stays, Weights(kind, T)) \in Nat
  <2> DEFINE small == T \ gone
  <2>1. small \cap T \subseteq stays
    BY <1>11
  <2> HIDE DEF small
  <2>2. \A w : IsWeight(w, T) => Amount(entries, small, w) \in Nat /\ Amount(entries, small, w) <= Amount(entries, stays, w)
    BY <1>2, <2>1, AmountGrows
  <2>3. \A w : IsWeight(w, T) => Amount(entries, stays, w) \in Nat
    BY <1>2, AmountGrows
  <2> QED BY <1>13, <2>2, <2>3 DEF small
<1>15. limits.entries \in Int /\ limits.bytes \in Int
  BY DEF Prunable
<1> HIDE DEF there
<1>16. Len(there) > limits.entries \/ SumOf(kind, there) > limits.bytes
  BY <1>8, <1>10, <1>12, <1>14, <1>15
<1> QED BY <1>16 DEF there, stays

(* A prune whose removals succeed leaves what the limits allow, and one    *)
(* removes nothing for a limit that what is left keeps: whatever there is, *)
(* and however the removals end.                                           *)
THEOREM PruneKeepsLimits ==
  ASSUME input.of = "prune" => Prunable(input.kind, input.entries, input.limits)
  PROVE  LimitsKept
BY LeftWithinLimits, NoneNeedless DEF LimitsKept

(* A prune for a limit goes by last use.                                   *)
THEOREM OldestGoFirst ==
  ASSUME input.of = "prune" => Prunable(input.kind, input.entries, input.limits)
  PROVE  LeastRecentFirst
<1> DEFINE kind == input.kind
           entries == input.entries
           limits == input.limits
           order == Order(entries)
           n == Len(order)
           tried == Tried(kind, entries, limits)
<1> SUFFICES ASSUME Prunable(kind, entries, limits),
                    NEW e \in tried, NEW f \in ToSet(entries),
                    ~Expired(kind, e, limits.cutoff), f.used < e.used, f \notin tried
             PROVE  f.kept \/ (kind = "volume" /\ ~f.sized)
  BY DEF LeastRecentFirst, OldestFirst
<1>1. PICK after : TracedPrune(after, kind, entries, limits)
  BY TracesOfPrunes
<1> HIDE DEF kind, entries, limits
<1>2. /\ ToSet(entries) = {order[k] : k \in 1..n} /\ n \in Nat /\ Ascending(order)
      /\ tried \subseteq ToSet(entries)
  BY <1>1 DEF TracedPrune, PruneTrace, Elements
<1>3. PICK k \in 1..n : e = order[k]
  BY <1>2
<1>4. PICK j \in 1..n : f = order[j]
  BY <1>2
<1>5. \A i \in 1..n : order[i] \in tried <=> Chosen(after, kind, order, limits, i)
  BY <1>1 DEF TracedPrune, PruneTrace
<1>6. e.used \in Int /\ f.used \in Int
  BY <1>2 DEF Prunable, AreEntries, IsEntry
<1>7. j <= k
  <2>1. k <= j => order[k].used <= order[j].used
    BY <1>2 DEF Ascending
  <2> QED BY <1>2, <1>3, <1>4, <1>6, <2>1
<1>8. after[k - 1].count > limits.entries \/ (after[k - 1].total > limits.bytes /\ (kind = "volume" => e.sized))
  BY <1>3, <1>5 DEF Chosen, MustRemove
<1>9. SUFFICES ASSUME ~f.kept PROVE kind = "volume" /\ ~f.sized
  OBVIOUS
<1>10. /\ after[j - 1].count <= limits.entries
       /\ after[j - 1].total <= limits.bytes \/ (kind = "volume" /\ ~f.sized)
  BY <1>1, <1>4, <1>9, Spared
<1>11. k - 1 \in 0..n /\ j - 1 \in 0..n /\ j - 1 <= k - 1
  BY <1>2, <1>7
<1>12. /\ after[k - 1].count <= after[j - 1].count /\ after[k - 1].total <= after[j - 1].total
       /\ after[k - 1].count \in Int /\ after[k - 1].total \in Int
       /\ after[j - 1].count \in Int /\ after[j - 1].total \in Int
  BY <1>1, <1>11 DEF TracedPrune, PruneTrace
<1>13. limits.entries \in Int /\ limits.bytes \in Int
  BY DEF Prunable
<1> QED BY <1>8, <1>10, <1>12, <1>13

-----------------------------------------------------------------------------
(* The storage reserve.  Nobody protects an entry from the prunes of       *)
(* ensure_storage_reserve, and their sizes are known.                      *)
Reservable(entries) ==
  /\ entries \in Seq(ToSet(entries)) /\ AreEntries(ToSet(entries)) /\ Distinct(entries)
  /\ \A e \in ToSet(entries) : ~e.kept /\ e.sized
IsMachine(m) ==
  /\ m = [free |-> m.free, host |-> m.host, volumes |-> m.volumes, device |-> m.device, sized |-> m.sized]
  /\ m.sized \in BOOLEAN
  /\ \A d \in DOMAIN m.free : m.free[d] \in Nat
  /\ Reservable(m.host) /\ Reservable(m.volumes)

LEMMA LargestDeficit ==
  ASSUME NEW free, \A d \in DOMAIN free : free[d] \in Nat, Low(free) # {}
  PROVE  Max(Deficits(free)) \in Nat /\ \A d \in Low(free) : MinFree - free[d] <= Max(Deficits(free))
<1> DEFINE some == {free[d] : d \in Low(free)}
           all == Deficits(free)
<1>1. MinFree \in Nat /\ \A d \in Low(free) : free[d] \in Nat /\ free[d] < MinFree
  BY ReserveAssumption DEF Low
<1>2. PICK least \in some : \A x \in some : least <= x
  <2>1. some \in SUBSET Nat /\ some # {}
    BY <1>1
  <2> HIDE DEF some
  <2> QED BY <2>1, LeastNatural
<1>3. PICK d \in Low(free) : least = free[d]
  OBVIOUS
<1>4. all = {MinFree - free[x] : x \in Low(free)}
  BY DEF Deficits
<1>5. MinFree - free[d] \in all /\ \A y \in all : MinFree - free[d] >= y
  <2>1. MinFree - free[d] \in all
    BY <1>4
  <2>2. ASSUME NEW y \in all PROVE MinFree - free[d] >= y
    <3> HIDE DEF all
    <3>1. PICK x \in Low(free) : y = MinFree - free[x]
      BY <1>4
    <3>2. free[x] \in some
      OBVIOUS
    <3> HIDE DEF some
    <3>3. free[d] <= free[x] /\ free[x] \in Nat /\ free[d] \in Nat
      BY <1>1, <1>2, <1>3, <3>2
    <3> QED BY <1>1, <3>1, <3>3
  <2> QED BY <2>1, <2>2
<1>6. all \subseteq Nat
  BY <1>1, <1>4
<1> HIDE DEF all, some
<1>7. Max(all) \in all /\ \A y \in all : Max(all) >= y
  BY <1>5 DEF Max
<1>8. \A x \in Low(free) : MinFree - free[x] \in all
  BY <1>4
<1> QED BY <1>6, <1>7, <1>8 DEF all

(* A prune for space frees what is asked for, or all that can be removed.  *)
LEMMA FreesEnough ==
  ASSUME NEW kind \in {"host", "volume"}, NEW entries, Reservable(entries), NEW reclaim \in Nat
  PROVE  LET freed == Freed(kind, entries, Pruned(kind, entries, reclaim))
         IN  /\ freed \in Nat /\ Removable(kind, entries) \in Nat
             /\ Removable(kind, entries) <= SumOf(kind, entries) /\ SumOf(kind, entries) \in Nat
             /\ freed >= reclaim \/ freed >= Removable(kind, entries)
<1> DEFINE T == ToSet(entries)
           sum == SumOf(kind, entries)
           wanted == IF sum - reclaim < 0 THEN 0 ELSE sum - reclaim
           limits == Limits(wanted)
           order == Order(entries)
           n == Len(order)
           tried == Tried(kind, entries, limits)
           weight == Weights(kind, T)
           stay == {e \in T : e \notin tried \/ e.fate # "removed"}
           goes == {e \in T : e.fate = "removed"}
<1>1. entries \in Seq(T) /\ AreEntries(T) /\ kind \in Kinds /\ Distinct(entries)
  BY DEF Reservable, Kinds
<1>2. IsWeight(weight, T)
  BY <1>1, WeightType DEF AreEntries, IsWeight, Weights
<1>3. /\ sum = Amount(entries, T, weight) /\ sum \in Nat
      /\ \A S : SumOf(kind, Sieve(entries, S)) = Amount(entries, S, weight)
  <2> HIDE DEF T
  <2> QED BY <1>1, SumAmount DEF Weights
<1> HIDE DEF sum, weight
<1>4. wanted \in Nat /\ (wanted = sum - reclaim \/ (wanted = 0 /\ sum < reclaim))
  BY <1>3
<1>5. Prunable(kind, entries, limits) /\ limits.bytes = wanted
  BY <1>1, <1>4 DEF Prunable, Limits
<1>6. Pruned(kind, entries, reclaim) = Sieve(entries, stay)
  BY DEF Pruned, Left, sum
<1>7. Removable(kind, entries) = Amount(entries, goes, weight)
  BY <1>3 DEF Removable
<1> HIDE DEF wanted, limits
<1>8. PICK after : TracedPrune(after, kind, entries, limits)
  BY <1>5, TracesOfPrunes
<1>9. /\ T = {order[k] : k \in 1..n} /\ n \in Nat /\ tried \subseteq T
      /\ \A k \in 1..n : order[k] \in tried <=> Chosen(after, kind, order, limits, k)
  BY <1>8 DEF TracedPrune, PruneTrace, Elements
<1> DEFINE gone == Gone(after, kind, order, limits, n)
<1>10. gone = tried \cap goes
  <2>1. \A e : Counts(kind, e) <=> e.fate = "removed"
    BY DEF Counts
  <2> HIDE DEF tried, order, n
  <2> QED BY <1>9, <2>1 DEF Gone
<1>11. T \ gone = stay
  BY <1>10
<1>12. n \in 0..n /\ after[n].total \in Int
  BY <1>8, <1>9 DEF TracedPrune, PruneTrace
<1>13. after[n].total = Amount(entries, T \ gone, weight)
  BY <1>8, <1>12 DEF TracedPrune, PruneTrace, weight
<1>14. Freed(kind, entries, Pruned(kind, entries, reclaim)) = sum - after[n].total
  <2>1. SumOf(kind, Sieve(entries, stay)) = Amount(entries, stay, weight)
    BY <1>3
  <2> QED BY <1>6, <1>11, <1>13, <2>1 DEF Freed, sum
<1>15. /\ Amount(entries, stay, weight) \in Nat /\ Amount(entries, stay, weight) <= sum
       /\ Amount(entries, goes, weight) \in Nat /\ Amount(entries, goes, weight) <= sum
  <2>1. stay \cap T \subseteq T /\ goes \cap T \subseteq T
    OBVIOUS
  <2> HIDE DEF stay, goes, T
  <2> QED BY <1>1, <1>2, <1>3, <2>1, AmountGrows
<1> DEFINE freed == Freed(kind, entries, Pruned(kind, entries, reclaim))
           removable == Removable(kind, entries)
<1>18. removable \in Nat /\ removable <= sum /\ sum \in Nat
  BY <1>3, <1>7, <1>15
<1>19. freed \in Nat /\ freed = sum - after[n].total
  <2>1. after[n].total = Amount(entries, stay, weight)
    BY <1>11, <1>13
  <2> HIDE DEF stay, freed
  <2> QED BY <1>12, <1>14, <1>15, <1>18, <2>1 DEF freed
<1> HIDE DEF freed, removable
<1>16. ASSUME after[n].total <= wanted PROVE freed >= reclaim \/ freed >= removable
  BY <1>4, <1>12, <1>16, <1>18, <1>19
<1>17. ASSUME ~(after[n].total <= wanted) PROVE freed >= removable
  <2>1. ASSUME NEW e \in T, e \notin tried PROVE FALSE
    <3>1. PICK k \in 1..n : e = order[k]
      BY <1>9
    <3>2. ~e.kept /\ e.sized
      BY DEF Reservable
    <3>3. after[k - 1].total <= limits.bytes
      BY <1>5, <1>8, <2>1, <3>1, <3>2, Spared
    <3>4. k - 1 \in 0..n /\ k - 1 <= n
      BY <1>9
    <3>5. after[n].total <= after[k - 1].total /\ after[k - 1].total \in Int
      BY <1>8, <1>12, <3>4 DEF TracedPrune, PruneTrace
    <3> QED BY <1>4, <1>5, <1>12, <1>17, <3>3, <3>5
  <2>2. stay = T \ goes /\ T \cap goes = goes
    BY <2>1
  <2>3. Amount(entries, T, weight) = Amount(entries, T \cap goes, weight) + Amount(entries, T \ goes, weight)
    <3> HIDE DEF T, goes
    <3>1. \A X, A : Amount(entries, X, weight) = Amount(entries, X \cap A, weight) + Amount(entries, X \ A, weight)
      BY <1>1, <1>2, AmountSplit
    <3> QED BY <3>1, Zenon
  <2>4. removable = Amount(entries, T \cap goes, weight) /\ after[n].total = Amount(entries, T \ goes, weight)
    BY <1>7, <1>11, <1>13, <2>2 DEF removable
  <2> HIDE DEF T, goes, stay
  <2> QED BY <1>3, <1>12, <1>18, <1>19, <2>3, <2>4
<1> HIDE DEF gone
<1> QED BY <1>16, <1>17, <1>18, <1>19 DEF sum, freed, removable

(* After a prune for space on one device, with what it has freed.          *)
LEMMA RoomIsMade ==
  ASSUME NEW free, \A d \in DOMAIN free : free[d] \in Nat, Low(free) # {},
         NEW freed \in Nat, NEW removable \in Nat, NEW device,
         freed >= Reclaim(free) \/ freed >= removable
  PROVE  /\ DOMAIN With(free, device, freed) = DOMAIN free
         /\ \A d \in DOMAIN free :
              /\ With(free, device, freed)[d] \in Nat
              /\ With(free, device, freed)[d] = free[d] + (IF d = device THEN freed ELSE 0)
              /\ \/ With(free, device, freed)[d] >= MinFree
                 \/ d = device /\ With(free, device, freed)[d] >= free[d] + removable
                 \/ d # device /\ d \in Low(free)
<1>1. MinFree \in Nat /\ Slack \in Nat
  BY ReserveAssumption
<1>2. Max(Deficits(free)) \in Nat /\ \A d \in Low(free) : MinFree - free[d] <= Max(Deficits(free))
  BY LargestDeficit
<1>3. DOMAIN With(free, device, freed) = DOMAIN free
  BY DEF With
<1>4. \A d \in DOMAIN free :
        /\ With(free, device, freed)[d] \in Nat
        /\ With(free, device, freed)[d] = free[d] + (IF d = device THEN freed ELSE 0)
  BY DEF With
<1>5. ASSUME NEW d \in DOMAIN free
      PROVE  \/ With(free, device, freed)[d] >= MinFree
             \/ d = device /\ With(free, device, freed)[d] >= free[d] + removable
             \/ d # device /\ d \in Low(free)
  <2>1. d \in Low(free) <=> free[d] < MinFree
    BY DEF Low
  <2>2. d \in Low(free) => MinFree - free[d] <= Max(Deficits(free))
    BY <1>2
  <2>3. freed >= Max(Deficits(free)) + Slack \/ freed >= removable
    BY DEF Reclaim
  <2>4. free[d] \in Nat
    OBVIOUS
  <2> HIDE DEF With
  <2> QED BY <1>1, <1>2, <1>4, <2>1, <2>2, <2>3, <2>4
<1> QED BY <1>3, <1>4, <1>5

(* What the prune of the host cache leaves of a machine.                   *)
LEMMA AfterTheHost ==
  ASSUME NEW m, IsMachine(m)
  PROVE  LET h == AfterHost(m)
             removable == Removable("host", m.host)
         IN  /\ h.volumes = m.volumes /\ h.device = m.device /\ h.sized = m.sized
             /\ h = [free |-> h.free, host |-> h.host, volumes |-> h.volumes, device |-> h.device, sized |-> h.sized]
             /\ DOMAIN h.free = DOMAIN m.free /\ removable \in Nat
             /\ \A d \in DOMAIN m.free :
                  /\ h.free[d] \in Nat
                  /\ h.free[d] >= MinFree \/ h.free[d] >= m.free[d] + (IF d = "root" THEN removable ELSE 0)
<1> DEFINE h == AfterHost(m)
           removable == Removable("host", m.host)
           left == Pruned("host", m.host, Reclaim(m.free))
           freed == Freed("host", m.host, left)
<1>1. MinFree \in Nat /\ Slack \in Nat
  BY ReserveAssumption
<1>2. /\ m = [free |-> m.free, host |-> m.host, volumes |-> m.volumes, device |-> m.device, sized |-> m.sized]
      /\ \A d \in DOMAIN m.free : m.free[d] \in Nat
      /\ Reservable(m.host)
  BY DEF IsMachine
<1>3. removable \in Nat
  <2>1. 0 \in Nat
    OBVIOUS
  <2> QED BY <1>2, <2>1, FreesEnough
<1>4. CASE Low(m.free) = {}
  <2>1. h = m
    BY <1>4 DEF AfterHost
  <2>2. \A d \in DOMAIN m.free : m.free[d] >= MinFree
    BY <1>1, <1>2, <1>4 DEF Low
  <2> QED BY <1>2, <1>3, <2>1, <2>2
<1>5. CASE Low(m.free) # {}
  <2>1. h = [m EXCEPT !.host = left, !.free = With(m.free, "root", freed)]
    BY <1>5 DEF AfterHost
  <2>2. Reclaim(m.free) \in Nat
    BY <1>1, <1>2, <1>5, LargestDeficit DEF Reclaim
  <2>3. freed \in Nat /\ (freed >= Reclaim(m.free) \/ freed >= removable)
    BY <1>2, <2>2, FreesEnough
  <2> HIDE DEF h, removable, left, freed
  <2>4. /\ DOMAIN With(m.free, "root", freed) = DOMAIN m.free
        /\ \A d \in DOMAIN m.free :
             /\ With(m.free, "root", freed)[d] \in Nat
             /\ With(m.free, "root", freed)[d] = m.free[d] + (IF d = "root" THEN freed ELSE 0)
             /\ \/ With(m.free, "root", freed)[d] >= MinFree
                \/ d = "root" /\ With(m.free, "root", freed)[d] >= m.free[d] + removable
                \/ d # "root" /\ d \in Low(m.free)
    BY <1>2, <1>3, <1>5, <2>3, RoomIsMade
  <2> DEFINE now == With(m.free, "root", freed)
  <2> HIDE DEF now
  <2>5. h = [free |-> now, host |-> left, volumes |-> m.volumes, device |-> m.device, sized |-> m.sized]
    BY <1>2, <2>1 DEF now
  <2>6. /\ h.free = now /\ h.volumes = m.volumes /\ h.device = m.device /\ h.sized = m.sized /\ h.host = left
    BY <2>5
  <2>7. ASSUME NEW d \in DOMAIN m.free
        PROVE  now[d] \in Nat /\ (now[d] >= MinFree \/ now[d] >= m.free[d] + (IF d = "root" THEN removable ELSE 0))
    <3>1. m.free[d] \in Nat
      BY <1>2
    <3> QED BY <1>3, <2>3, <2>4, <3>1 DEF now
  <2>8. DOMAIN now = DOMAIN m.free
    BY <2>4 DEF now
  <2> QED BY <1>3, <2>5, <2>6, <2>7, <2>8 DEF h, removable
<1> QED BY <1>4, <1>5

(* A check is refused for want of space only if all of the cache would not *)
(* make enough, and volumes go only if the host cache would not.           *)
THEOREM ReserveIsMade ==
  ASSUME input.of = "reserve" => IsMachine(input.machine)
  PROVE  ReserveReached
<1> SUFFICES ASSUME NEW m, IsMachine(m) PROVE ReserveMade(m)
  BY DEF ReserveReached
<1> DEFINE h == AfterHost(m)
           forHost == Removable("host", m.host)
           forVolumes == Removable("volume", m.volumes)
           freed == Freed("volume", h.volumes, Pruned("volume", h.volumes, Reclaim(h.free)))
<1>1. /\ h.volumes = m.volumes /\ h.device = m.device /\ h.sized = m.sized
      /\ h = [free |-> h.free, host |-> h.host, volumes |-> h.volumes, device |-> h.device, sized |-> h.sized]
      /\ DOMAIN h.free = DOMAIN m.free /\ forHost \in Nat
      /\ \A d \in DOMAIN m.free :
           /\ h.free[d] \in Nat
           /\ h.free[d] >= MinFree \/ h.free[d] >= m.free[d] + (IF d = "root" THEN forHost ELSE 0)
  BY AfterTheHost
<1>2. MinFree \in Nat /\ Slack \in Nat
  BY ReserveAssumption
<1>3. Reservable(m.volumes) /\ m.sized \in BOOLEAN /\ \A d \in DOMAIN m.free : m.free[d] \in Nat
  BY DEF IsMachine
<1>4. forVolumes \in Nat /\ forVolumes <= SumOf("volume", m.volumes) /\ SumOf("volume", m.volumes) \in Nat
  <2>1. 0 \in Nat
    OBVIOUS
  <2> QED BY <1>3, <2>1, FreesEnough
<1> HIDE DEF h, forHost, forVolumes
<1>5. Low(h.free) = {} => AfterVolumes(h) = h
  BY DEF AfterVolumes
<1>6. ASSUME \A d \in DOMAIN m.free : m.free[d] + (IF d = "root" THEN forHost ELSE 0) >= MinFree
      PROVE  Low(h.free) = {}
  <2> SUFFICES ASSUME NEW d \in DOMAIN m.free PROVE ~(h.free[d] < MinFree)
    BY <1>1 DEF Low
  <2>1. m.free[d] + (IF d = "root" THEN forHost ELSE 0) >= MinFree
    BY <1>6
  <2> QED BY <1>1, <1>2, <1>3, <2>1
<1>7. ASSUME \A d \in DOMAIN m.free : m.free[d] + Reclaimable(m, d) >= MinFree
      PROVE  Low(AfterVolumes(h).free) = {}
  <2>1. CASE Low(h.free) = {}
    BY <1>5, <2>1
  <2>2. CASE Low(h.free) # {}
    <3>1. \A d \in DOMAIN m.free : Reclaimable(m, d) = (IF d = "root" THEN forHost ELSE 0)
                                      + (IF d = m.device /\ m.sized THEN forVolumes ELSE 0)
      BY DEF Reclaimable, forHost, forVolumes
    <3>2. ASSUME NEW d \in DOMAIN m.free
          PROVE  h.free[d] + (IF d = m.device /\ m.sized THEN forVolumes ELSE 0) >= MinFree
      <4>1. m.free[d] + Reclaimable(m, d) >= MinFree /\ m.free[d] \in Nat
        BY <1>3, <1>7
      <4>2. Reclaimable(m, d) = (IF d = "root" THEN forHost ELSE 0)
                                   + (IF d = m.device /\ m.sized THEN forVolumes ELSE 0)
        BY <3>1
      <4>3. h.free[d] \in Nat /\ (h.free[d] >= MinFree \/ h.free[d] >= m.free[d] + (IF d = "root" THEN forHost ELSE 0))
        BY <1>1
      <4> QED BY <1>1, <1>2, <1>4, <4>1, <4>2, <4>3
    <3>3. PICK low \in DOMAIN m.free : h.free[low] < MinFree
      BY <1>1, <2>2 DEF Low
    <3>4. low = m.device /\ m.sized /\ SumOf("volume", m.volumes) # 0
      <4>1. h.free[low] + (IF low = m.device /\ m.sized THEN forVolumes ELSE 0) >= MinFree /\ h.free[low] \in Nat
        BY <1>1, <3>2
      <4> QED BY <1>2, <1>3, <1>4, <3>3, <4>1
    <3>5. AfterVolumes(h).free = With(h.free, m.device, freed)
      <4>1. AfterVolumes(h) = [h EXCEPT !.volumes = Pruned("volume", h.volumes, Reclaim(h.free)),
                                        !.free = With(h.free, h.device, freed)]
        BY <1>1, <2>2, <3>4 DEF AfterVolumes
      <4> HIDE DEF freed
      <4>2. [h EXCEPT !.volumes = Pruned("volume", h.volumes, Reclaim(h.free)),
                      !.free = With(h.free, h.device, freed)].free = With(h.free, h.device, freed)
        BY <1>1
      <4> QED BY <1>1, <4>1, <4>2
    <3>6. \A d \in DOMAIN h.free : h.free[d] \in Nat
      BY <1>1
    <3>7. Reclaim(h.free) \in Nat
      BY <1>2, <2>2, <3>6, LargestDeficit DEF Reclaim
    <3>8. freed \in Nat /\ (freed >= Reclaim(h.free) \/ freed >= forVolumes)
      BY <1>1, <1>3, <3>7, FreesEnough DEF forVolumes
    <3> HIDE DEF freed
    <3> DEFINE now == With(h.free, m.device, freed)
    <3>9. DOMAIN now = DOMAIN h.free /\
          \A d \in DOMAIN h.free :
             /\ now[d] \in Nat
             /\ now[d] = h.free[d] + (IF d = m.device THEN freed ELSE 0)
             /\ \/ now[d] >= MinFree
                \/ d = m.device /\ now[d] >= h.free[d] + forVolumes
                \/ d # m.device /\ d \in Low(h.free)
      BY <1>4, <2>2, <3>6, <3>8, RoomIsMade
    <3> HIDE DEF now
    <3>10. ASSUME NEW d \in DOMAIN now PROVE ~(now[d] < MinFree)
      <4>1. d \in DOMAIN m.free /\ h.free[d] \in Nat /\ now[d] \in Nat
        BY <1>1, <3>9
      <4>2. h.free[d] + (IF d = m.device /\ m.sized THEN forVolumes ELSE 0) >= MinFree
        BY <3>2, <4>1
      <4>3. CASE d # m.device
        <5>1. h.free[d] >= MinFree /\ now[d] = h.free[d]
          BY <3>9, <4>1, <4>2, <4>3
        <5> QED BY <1>2, <4>1, <5>1
      <4>4. CASE d = m.device
        <5>1. now[d] >= MinFree \/ now[d] >= h.free[d] + forVolumes
          BY <3>9, <4>1, <4>4
        <5>2. h.free[d] + forVolumes >= MinFree
          BY <3>4, <4>2, <4>4
        <5> QED BY <1>2, <1>4, <4>1, <5>1, <5>2
      <4> QED BY <4>3, <4>4
    <3> QED BY <3>5, <3>10 DEF Low, now
  <2> QED BY <2>1, <2>2
<1>8. \A d \in DOMAIN m.free : /\ Reclaimable(m, d) \in Nat
                               /\ m.free[d] + (IF d = "root" THEN forHost ELSE 0) \in Nat
  BY <1>1, <1>3, <1>4 DEF Reclaimable, forHost, forVolumes
<1>9. Refused(m) => \E d \in DOMAIN m.free : m.free[d] + Reclaimable(m, d) < MinFree
  <2>1. Refused(m) => Low(AfterVolumes(h).free) # {}
    BY DEF Refused, EnsureStorageReserve, h
  <2>2. \A d \in DOMAIN m.free : ~(m.free[d] + Reclaimable(m, d) < MinFree)
                                   => m.free[d] + Reclaimable(m, d) >= MinFree
    BY <1>2, <1>3, <1>8
  <2> QED BY <1>7, <2>1, <2>2
<1>10. EnsureStorageReserve(m).volumes # m.volumes =>
         \E d \in DOMAIN m.free : m.free[d] + (IF d = "root" THEN forHost ELSE 0) < MinFree
  <2>1. \A d \in DOMAIN m.free : ~(m.free[d] + (IF d = "root" THEN forHost ELSE 0) < MinFree)
                                   => m.free[d] + (IF d = "root" THEN forHost ELSE 0) >= MinFree
    BY <1>2, <1>8
  <2>2. Low(h.free) = {} => EnsureStorageReserve(m).volumes = m.volumes
    BY <1>1, <1>5 DEF EnsureStorageReserve, h
  <2> QED BY <1>6, <2>1, <2>2
<1> QED BY <1>9, <1>10 DEF ReserveMade, forHost

-----------------------------------------------------------------------------
(* The inputs of the specification are among those of the theorems.        *)
Real(x) ==
  /\ x.of = "stores" => Stores!OneTree(x.one, x.two)
  /\ x.of = "containers" => x.step \in Stores!Steps
  /\ x.of = "prune" => Prunable(x.kind, x.entries, x.limits)
  /\ x.of = "reserve" => IsMachine(x.machine)

LEMMA OfAnotherKind ==
  ASSUME NEW x, x.of \in {"status", "runner", "log", "plan", "archive", "diagnosis", "root", "target"}
  PROVE  Real(x)
BY DEF Real

LEMMA EntryIs ==
  ASSUME NEW used \in Int, NEW bytes \in Nat, NEW links \in Nat, NEW sized \in BOOLEAN,
         NEW stale \in BOOLEAN, NEW kept \in BOOLEAN, NEW fate \in Fates
  PROVE  LET e == Entry(used, bytes, links, sized, stale, kept, fate)
         IN  IsEntry(e) /\ e.used = used /\ e.sized = sized /\ e.kept = kept
BY DEF Entry, IsEntry

(* A list of entries no two of which were used at the same time.           *)
LEMMA EntriesListed ==
  ASSUME NEW n \in Nat, NEW f, NEW entries, entries = [i \in 1..n |-> f[i]],
         \A i \in 1..n : IsEntry(f[i]),
         \A i \in 1..n, j \in 1..n : f[i].used = f[j].used => i = j
  PROVE  /\ entries \in Seq(ToSet(entries)) /\ AreEntries(ToSet(entries)) /\ Distinct(entries)
         /\ ToSet(entries) = {f[i] : i \in 1..n}
<1>1. entries \in Seq({f[i] : i \in 1..n}) /\ Len(entries) = n /\ \A i \in 1..n : entries[i] = f[i]
  OBVIOUS
<1>2. ToSet(entries) = {f[i] : i \in 1..n}
  BY <1>1 DEF ToSet
<1>3. AreEntries(ToSet(entries))
  BY <1>2 DEF AreEntries
<1>4. Distinct(entries)
  BY <1>1 DEF Distinct
<1> QED BY <1>1, <1>2, <1>3, <1>4

LEMMA RealPrune == \A x \in PruneInputs : Real(x)
<1> SUFFICES ASSUME NEW x \in PruneInputs PROVE Real(x)
  OBVIOUS
<1>1. /\ x.of = "prune" /\ x.kind \in Kinds /\ x.entries \in Entries
      /\ x.limits \in [entries : 1..2, bytes : {2, 4}, cutoff : {1, 2}]
  BY DEF PruneInputs
<1>2. x.limits.entries \in Int /\ x.limits.bytes \in Int /\ x.limits.cutoff \in Int
  BY <1>1
<1>3. ASSUME NEW entries \in Entries
      PROVE  entries \in Seq(ToSet(entries)) /\ AreEntries(ToSet(entries)) /\ Distinct(entries)
  <2>1. PICK b \in Triples({1, 2}), l \in Triples({0, 1}), unsized \in 0..1, odd \in 1..3 :
          \E stale \in 0..1, kept \in 0..2, fate \in Fates :
            entries = [i \in 1..3 |-> Entry(<<2, 3, 1>>[i], b[i], l[i], i # unsized, i = stale, i = kept,
                                            IF i = odd THEN fate ELSE "removed")]
    BY <1>3 DEF Entries
  <2>2. PICK stale \in 0..1, kept \in 0..2, fate \in Fates :
          entries = [i \in 1..3 |-> Entry(<<2, 3, 1>>[i], b[i], l[i], i # unsized, i = stale, i = kept,
                                          IF i = odd THEN fate ELSE "removed")]
    BY <2>1
  <2> DEFINE used(i) == <<2, 3, 1>>[i]
             sized(i) == i # unsized
             old(i) == i = stale
             kept2(i) == i = kept
             fated(i) == IF i = odd THEN fate ELSE "removed"
             f == [i \in 1..3 |-> Entry(used(i), b[i], l[i], sized(i), old(i), kept2(i), fated(i))]
  <2>3. \A i : sized(i) \in BOOLEAN /\ old(i) \in BOOLEAN /\ kept2(i) \in BOOLEAN
    BY Zenon
  <2>4. \A i : fated(i) \in Fates
    BY DEF Fates
  <2>5. \A i \in 1..3 : b[i] \in Nat /\ l[i] \in Nat
    BY DEF Triples
  <2>6. used(1) = 2 /\ used(2) = 3 /\ used(3) = 1
    OBVIOUS
  <2>7. entries = f
    BY <2>2, Zenon
  <2> HIDE DEF used, sized, old, kept2, fated
  <2>8. \A i \in 1..3 : used(i) \in Int
    BY <2>6
  <2>9. \A i \in 1..3 : IsEntry(f[i]) /\ f[i].used = used(i)
    <3> TAKE i \in 1..3
    <3>1. f[i] = Entry(used(i), b[i], l[i], sized(i), old(i), kept2(i), fated(i))
      OBVIOUS
    <3> DEFINE bytes == b[i]
               links == l[i]
               of == used(i)
               known == sized(i)
               stays == kept2(i)
               version == old(i)
               end == fated(i)
    <3>2. bytes \in Nat /\ links \in Nat /\ of \in Int
      BY <2>5, <2>8
    <3>3. known \in BOOLEAN /\ stays \in BOOLEAN /\ version \in BOOLEAN /\ end \in Fates
      BY <2>3, <2>4
    <3> DEFINE e == Entry(of, bytes, links, known, version, stays, end)
    <3>4. f[i] = e
      BY <3>1
    <3> HIDE DEF bytes, links, of, known, stays, version, end, f
    <3>5. IsEntry(e) /\ e.used = of
      BY <3>2, <3>3, EntryIs
    <3> QED BY <3>4, <3>5 DEF of
  <2>10. entries = [i \in 1..3 |-> f[i]]
    BY <2>7
  <2> HIDE DEF f
  <2>11. \A i \in 1..3, j \in 1..3 : f[i].used = f[j].used => i = j
    BY <2>6, <2>9
  <2> QED BY <2>9, <2>10, <2>11, EntriesListed
<1> QED BY <1>1, <1>2, <1>3 DEF Real, Prunable

LEMMA ReserveEntriesFit == \A entries \in ReserveEntries : Reservable(entries)
<1> SUFFICES ASSUME NEW entries \in ReserveEntries PROVE Reservable(entries)
  OBVIOUS
<1>1. PICK n \in 0..2, bytes \in [1..2 -> 1..2], refused \in 0..2 :
        entries = [i \in 1..n |-> ReserveEntry(i, bytes[i], IF i = refused THEN "refused" ELSE "removed")]
  BY DEF ReserveEntries
<1> DEFINE fated(i) == IF i = refused THEN "refused" ELSE "removed"
           yes == TRUE
           no == FALSE
           f == [i \in 1..n |-> Entry(i, bytes[i], 0, yes, no, no, fated(i))]
<1>2. entries = f
  BY <1>1 DEF ReserveEntry
<1>3. \A i : fated(i) \in Fates
  BY DEF Fates
<1>4. n \in Nat /\ \A i \in 1..n : i \in Int /\ bytes[i] \in Nat
  OBVIOUS
<1>5. yes \in BOOLEAN /\ no \in BOOLEAN /\ 0 \in Nat
  OBVIOUS
<1> HIDE DEF fated, yes, no
<1>6. \A i \in 1..n : IsEntry(f[i]) /\ f[i].used = i /\ f[i].sized = yes /\ f[i].kept = no
  <2> TAKE i \in 1..n
  <2> DEFINE size == bytes[i]
             e == Entry(i, size, 0, yes, no, no, fated(i))
  <2>1. f[i] = e /\ size \in Nat /\ i \in Int
    BY <1>4
  <2> HIDE DEF size, f
  <2>2. IsEntry(e)
    BY <1>3, <1>5, <2>1, EntryIs
  <2>3. e.used = i /\ e.sized = yes /\ e.kept = no
    BY <1>3, <1>5, <2>1, EntryIs
  <2> QED BY <2>1, <2>2, <2>3
<1>7. entries = [i \in 1..n |-> f[i]]
  BY <1>2
<1> HIDE DEF f
<1>8. /\ entries \in Seq(ToSet(entries)) /\ AreEntries(ToSet(entries)) /\ Distinct(entries)
      /\ ToSet(entries) = {f[i] : i \in 1..n}
  <2>1. \A i \in 1..n, j \in 1..n : f[i].used = f[j].used => i = j
    BY <1>6
  <2>2. \A i \in 1..n : IsEntry(f[i])
    BY <1>6
  <2> QED BY <1>4, <1>7, <2>1, <2>2, EntriesListed
<1> QED BY <1>6, <1>8 DEF Reservable, yes, no

LEMMA RealReserve ==
  ASSUME NEW free \in Frees, NEW host \in ReserveEntries, NEW volumes \in ReserveEntries, NEW device,
         NEW sized \in BOOLEAN, NEW x,
         x = [of |-> "reserve", machine |-> [free |-> free, host |-> host, volumes |-> volumes,
                                             device |-> device, sized |-> sized]]
  PROVE  Real(x)
<1>1. \A d \in DOMAIN free : free[d] \in Nat
  BY DEF Frees
<1>2. Reservable(host) /\ Reservable(volumes)
  BY ReserveEntriesFit
<1> DEFINE m == [free |-> free, host |-> host, volumes |-> volumes, device |-> device, sized |-> sized]
<1>3. m.free = free /\ m.host = host /\ m.volumes = volumes /\ m.device = device /\ m.sized = sized
  OBVIOUS
<1>4. x.of = "reserve" /\ x.machine = m
  OBVIOUS
<1>5. m = [free |-> m.free, host |-> m.host, volumes |-> m.volumes, device |-> m.device, sized |-> m.sized]
  BY <1>3
<1> HIDE DEF m
<1>6. IsMachine(m)
  BY <1>1, <1>2, <1>3, <1>5 DEF IsMachine
<1> QED BY <1>4, <1>6 DEF Real

LEMMA RealFromTheStart == Init => Real(input)
BY DEF Init, Real

LEMMA RealAfterwards ==
  ASSUME Next
  PROVE  Real(input)'
<1>1. CASE PickStatus
  <2>1. input'.of = "status"
    BY <1>1 DEF PickStatus, StatusInputs
  <2> QED BY <2>1, OfAnotherKind
<1>2. CASE PickRunner
  <2>1. input'.of = "runner"
    BY <1>2 DEF PickRunner, RunnerInputs
  <2> QED BY <2>1, OfAnotherKind
<1>3. CASE PickLog
  <2>1. input'.of = "log"
    BY <1>3 DEF PickLog, LogInputs
  <2> QED BY <2>1, OfAnotherKind
<1>4. CASE PickPrune
  BY <1>4, RealPrune DEF PickPrune
<1>5. CASE PickPlan
  <2>1. input'.of = "plan"
    BY <1>5 DEF PickPlan, PlanInputInputs
  <2> QED BY <2>1, OfAnotherKind
<1>6. CASE PickArchive
  <2>1. input'.of = "archive"
    BY <1>6 DEF PickArchive, Archive
  <2> QED BY <2>1, OfAnotherKind
<1>7. CASE PickContainers
  <2>1. input'.of = "containers" /\ input'.step \in Stores!Steps
    BY <1>7 DEF PickContainers
  <2> QED BY <2>1 DEF Real
<1>8. CASE PickStores
  <2>1. PICK x \in FirstChecks, fields \in UpToTwo(Fields), files \in UpToTwo(Stores!Files) :
          /\ Stores!OneTree(x, Second(x, fields, files))
          /\ input' = [of |-> "stores", one |-> x, two |-> Second(x, fields, files)]
    BY <1>8 DEF PickStores
  <2>2. input'.of = "stores" /\ input'.one = x /\ input'.two = Second(x, fields, files)
    BY <2>1
  <2> QED BY <2>1, <2>2 DEF Real
<1>9. CASE PickDiagnosis
  <2>1. \E phase : input' = [of |-> "diagnosis", phase |-> phase]
    BY <1>9 DEF PickDiagnosis
  <2>2. input'.of = "diagnosis"
    BY <2>1
  <2> QED BY <2>2, OfAnotherKind
<1>10. CASE PickRoot
  <2>1. \E root : Root(root)
    BY <1>10 DEF PickRoot
  <2>2. input'.of = "root"
    BY <2>1 DEF Root
  <2> QED BY <2>2, OfAnotherKind
<1>11. CASE PickTarget
  <2>1. input'.of = "target"
    BY <1>11 DEF PickTarget
  <2> QED BY <2>1, OfAnotherKind
<1>12. CASE PickReserve
  <2>1. PICK free \in Frees, host \in ReserveEntries, volumes \in ReserveEntries,
             device \in {"root", "temp", "other"}, sized \in BOOLEAN :
          input' = [of |-> "reserve", machine |-> [free |-> free, host |-> host, volumes |-> volumes,
                                                   device |-> device, sized |-> sized]]
    BY <1>12 DEF PickReserve
  <2> QED BY <2>1, RealReserve
<1> QED BY <1>1, <1>2, <1>3, <1>4, <1>5, <1>6, <1>7, <1>8, <1>9, <1>10, <1>11, <1>12 DEF Next

(* The hypotheses of the theorems above are met by all that the runs pick. *)
THEOREM StorageOfTheRuns ==
  Spec => [](PreparedFits /\ PhasesAgree /\ LimitsKept /\ LeastRecentFirst /\ ReserveReached)
<1> DEFINE Wanted == PreparedFits /\ PhasesAgree /\ LimitsKept /\ LeastRecentFirst /\ ReserveReached
<1>1. Init => Real(input)
  BY RealFromTheStart
<1>2. Real(input) /\ [Next]_input => Real(input)'
  BY RealAfterwards DEF Real
<1>3. Real(input) => Wanted
  <2> SUFFICES ASSUME Real(input) PROVE Wanted
    OBVIOUS
  <2>1. PreparedFits
    BY PreparedForBoth DEF Real
  <2>2. PhasesAgree
    BY ContainersAgree DEF Real
  <2>3. LimitsKept
    BY PruneKeepsLimits DEF Real
  <2>4. LeastRecentFirst
    BY OldestGoFirst DEF Real
  <2>5. ReserveReached
    BY ReserveIsMade DEF Real
  <2> QED BY <2>1, <2>2, <2>3, <2>4, <2>5
<1> HIDE DEF Wanted
<1>4. Spec => []Wanted
  BY <1>1, <1>2, <1>3, PTL DEF Spec
<1> QED BY <1>4 DEF Wanted
=============================================================================
