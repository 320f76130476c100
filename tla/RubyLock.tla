------------------------------ MODULE RubyLock ------------------------------
(***************************************************************************)
(* _detect_ruby: which Gemfile.lock is exact enough to be prepared with a  *)
(* network, and what is then downloaded.                                   *)
(*                                                                         *)
(* A lock is a record: whether it can be parsed, the names of its sections *)
(* in order, the GEM and PATH sections (remotes and specs; a remote of a   *)
(* PATH is whether it lies in the repository), platforms, the versions     *)
(* under BUNDLED WITH, the lines of CHECKSUMS and the direct dependencies. *)
(* A spec is a name and a version; a sum is NoSum or a digest; a line of   *)
(* CHECKSUMS that names two digests or none that is a SHA-256 has BadSum.  *)
(***************************************************************************)
EXTENDS CheckSteps, FiniteSets, FiniteSetsExt

CONSTANT MaxDownloads      \* what the acquisition manifest has room for

NoSum  == 0
BadSum == -1
RubyGems == "https://rubygems.org/"

Spec(name, version) == [name |-> name, version |-> version]
Names(specs) == {s.name : s \in specs}

-----------------------------------------------------------------------------
Unique(lock) == {"DEPENDENCIES", "CHECKSUMS", "PLATFORMS", "BUNDLED WITH"}
HasSections(lock) ==
  /\ {"GIT", "PLUGIN"} \cap ToSet(lock.sections) = {}
  /\ \A name \in Unique(lock) : Len(SelectSeq(lock.sections, LAMBDA s : s = name)) = 1

SpecsOf(sources) == UNION {s.specs : s \in sources}
GemSources(lock) ==
  /\ \A s \in lock.gems : s.remotes = <<RubyGems>> /\ s.specs # {}
  /\ lock.gems # {}
PathSources(lock) == \A s \in lock.paths : s.remotes = <<"inside">> /\ s.specs # {}

Bundler(lock)  == Spec("bundler", lock.bundled[1])
Required(lock) == SpecsOf(lock.gems) \cup {Bundler(lock)}

\* The map of CHECKSUMS, if each line has a known form and a spec of its own.
Mappable(lock) ==
  /\ \A i \in DOMAIN lock.checksums : lock.checksums[i].sum # BadSum
  /\ \A i, j \in DOMAIN lock.checksums :
       lock.checksums[i].spec = lock.checksums[j].spec => i = j
Summed(lock) == {line.spec : line \in ToSet(lock.checksums)}
Sum(lock, spec) ==
  IF spec \in Summed(lock)
  THEN (CHOOSE line \in ToSet(lock.checksums) : line.spec = spec).sum ELSE NoSum

\* Mutant: a line without a digest passes for any spec.
ExactSumsLoose(lock) ==
  /\ \A s \in Required(lock) : s \in Summed(lock)
  /\ SpecsOf(lock.paths) \subseteq Summed(lock)

ExactSums(lock) ==
  /\ \A s \in Required(lock) : Sum(lock, s) # NoSum
  /\ \A s \in Summed(lock) : Sum(lock, s) # NoSum => s \in Required(lock)
  /\ \A s \in Summed(lock) : Sum(lock, s) = NoSum => s \in SpecsOf(lock.paths)
  /\ SpecsOf(lock.paths) \subseteq Summed(lock)

-----------------------------------------------------------------------------
\* A test runner that is declared directly and locked.
LockedNames(lock) == Names(SpecsOf(lock.gems) \cup SpecsOf(lock.paths))
Declared(lock, runners) ==
  IF lock.dependencies \cap runners \subseteq LockedNames(lock)
  THEN lock.dependencies \cap runners ELSE {}
UsesRake(lock, root) ==
  /\ root.task /\ "rake" \in lock.dependencies \cap LockedNames(lock)
  /\ Declared(lock, {"minitest", "test-unit"}) # {}
UsesRspec(lock, root) == root.spec /\ Declared(lock, {"rspec", "rspec-core"}) # {}
Runner(lock, root) ==
  IF UsesRake(lock, root) THEN "rake" ELSE IF UsesRspec(lock, root) THEN "rspec" ELSE "none"

Downloads(lock) == {[spec |-> s, sum |-> Sum(lock, s)] : s \in Required(lock)}

Accepted(lock, root) ==
  /\ lock.parsed /\ HasSections(lock) /\ GemSources(lock) /\ PathSources(lock)
  /\ "ruby" \in lock.platforms /\ Len(lock.bundled) = 1
  /\ Mappable(lock) /\ ExactSums(lock)
  /\ Runner(lock, root) # "none"
  /\ Cardinality(Downloads(lock)) <= MaxDownloads

\* Bundler comes from the volume; its install --local looks in vendor/cache.
DetectRuby(root) ==
  LET lock == root.lock
      gem(s, at) == Thing("gem", s, at)
  IN  IF ~root.gemfile \/ ~root.locked \/ ~Accepted(lock, root) THEN NoStep
      ELSE Step("ruby", {What("tool", "ruby")}, {gem(d.spec, "/prepared") : d \in Downloads(lock)}, TRUE,
                <<Runs(Runner(lock, root), {gem(Bundler(lock), "/prepared")}
                   \cup {gem(s, "vendor/cache") : s \in SpecsOf(lock.gems)})>>)

-----------------------------------------------------------------------------
\* The lock names every archive of a gem server to the last byte: downloaded
\* once, from rubygems.org, with the one digest of its line, and nothing else;
\* what is not downloaded lies in the repository.
Archives(lock) == {d.spec : d \in Downloads(lock)}
Pinned(lock) ==
  /\ \A d \in Downloads(lock) :
       \E i \in DOMAIN lock.checksums :
         /\ {j \in DOMAIN lock.checksums : lock.checksums[j].spec = d.spec} = {i}
         /\ lock.checksums[i].sum = d.sum /\ d.sum > 0
  /\ \A s \in lock.gems : ToSet(s.remotes) = {RubyGems} /\ s.specs \subseteq Archives(lock)
  /\ \A s \in lock.paths : ToSet(s.remotes) = {"inside"}
  /\ {lock.checksums[i].spec : i \in DOMAIN lock.checksums}
       \subseteq Archives(lock) \cup UNION {s.specs : s \in lock.paths}

(* Nothing but what the lock pins is downloaded for a Ruby step.           *)
DownloadsPinned(root) == DetectRuby(root) # NoStep => Pinned(root.lock)
=============================================================================
