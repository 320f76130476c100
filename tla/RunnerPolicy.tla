---------------------------- MODULE RunnerPolicy ----------------------------
(***************************************************************************)
(* The choice of a container runner: the preference that a lookup without  *)
(* any daemon uses, and the selection among the runners that are ready     *)
(* once the lookup has missed.                                             *)
(***************************************************************************)
EXTENDS Lists

Supported == {"docker", "podman", "container"}

\* A machine: the runners installed and ready on it, whether it is a Mac, and
\* whether its Apple container is recent enough.
Machine == [installed : SUBSET Supported, ready : SUBSET Supported,
            darwin : BOOLEAN, recent : BOOLEAN]

AppleUsable(m) == m.darwin /\ "container" \in m.installed /\ m.recent

\* "auto": Apple container on a Mac, then Docker, then Podman.
Automatic(m) ==
  (IF AppleUsable(m) THEN <<"container">> ELSE <<>>)
    \o Sieve(<<"docker", "podman">>, m.installed)

\* _runner_preferences; <<>> is its RunnerError.
Preferences(requested, m) ==
  IF requested = "auto" THEN Automatic(m)
  ELSE IF /\ requested \in Supported \cap m.installed
          /\ requested = "container" => AppleUsable(m)
       THEN <<requested>> ELSE <<>>

Error == "error"

PreferredRunner(requested, m) ==
  IF Preferences(requested, m) = <<>> THEN Error ELSE Head(Preferences(requested, m))

\* runner_ready: an executable whose control command answers.
Ready(r, m) == r \in m.installed \cap m.ready

\* Mutant: only the preferred runner is probed.
SelectPreferred(requested, m) ==
  IF Preferences(requested, m) # <<>> /\ Ready(Head(Preferences(requested, m)), m)
  THEN Head(Preferences(requested, m)) ELSE Error

\* The candidates are probed at once; their order decides.
SelectRunner(requested, m) ==
  LET ready == Sieve(Preferences(requested, m), {r \in Supported : Ready(r, m)})
  IN  IF ready = <<>> THEN Error ELSE Head(ready)

-----------------------------------------------------------------------------
(* What the selection promises: of the runners asked for that are ready    *)
(* and fit the machine, the one that comes first.                          *)

Fits(r, requested, m) ==
  /\ requested \in {"auto", r}
  /\ Ready(r, m)
  /\ r = "container" => m.darwin /\ m.recent

Rank(r) == CASE r = "container" -> 1 [] r = "docker" -> 2 [] r = "podman" -> 3

FirstFit(requested, m) ==
  LET fits == {r \in Supported : Fits(r, requested, m)}
  IN  IF fits = {} THEN Error ELSE CHOOSE r \in fits : \A q \in fits : Rank(r) <= Rank(q)
=============================================================================
