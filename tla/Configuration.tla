--------------------------- MODULE Configuration ---------------------------
(***************************************************************************)
(* load_configuration and _configured_plan: a configuration is taken as it *)
(* stands or refused as a whole; there is no falling back from it.         *)
(*                                                                         *)
(* A configuration is a record: where its file leads (inside or outside    *)
(* the repository), whether it is a bounded TOML table without unknown     *)
(* keys, its version and its steps.  A raw step says for each key what     *)
(* matters of its value; profiles is a sequence, empty if the key is not   *)
(* there.                                                                  *)
(***************************************************************************)
EXTENDS CheckSteps

ConfigVersion == 1
MaxSteps      == 32

\* Where a path of the configuration leads.
Places == {"inside", "outside", "nowhere"}

ProfilesOf(raw) == IF raw.profiles = <<>> THEN Profiles ELSE ToSet(raw.profiles)
ValidStep(raw) ==
  /\ raw.known                                        \* no unknown keys
  /\ raw.path = "inside"
  /\ raw.ecosystem # "" /\ raw.image # "" /\ raw.command # ""
  /\ raw.network \in {"none", "enabled"}
  /\ raw.files \subseteq {"inside"}
  /\ IsInjective(raw.profiles) /\ ToSet(raw.profiles) \subseteq Profiles

Valid(config) ==
  /\ config.file = "inside" /\ config.table
  /\ config.version = ConfigVersion
  /\ Len(config.steps) \in 1..MaxSteps
  /\ \A i \in DOMAIN config.steps : ValidStep(config.steps[i])

\* The steps of a profile, in the order they are written.
ConfiguredSteps(config, profile) ==
  SelectSeq(config.steps, LAMBDA raw : profile \in ProfilesOf(raw))
=============================================================================
