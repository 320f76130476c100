----------------------------- MODULE CheckSteps -----------------------------
(***************************************************************************)
(* A step of an automatic plan, as the detectors of detect.py make it: the *)
(* tools its image has, what its prepare command leaves and where, whether *)
(* that is bound to a lock, and the runs of its test command with what     *)
(* each of them needs.  A detector gives no step or one.                   *)
(***************************************************************************)
EXTENDS Lists, SequencesExt

Profiles == {"quick", "reproduce", "full"}

What(kind, name) == <<kind, name>>
Thing(kind, name, at) == [what |-> What(kind, name), at |-> at]
InImage(kind, name)   == Thing(kind, name, "image")

\* The run of one script, target or environment.
Runs(name, uses) == [runs |-> name, uses |-> uses]

NoStep == <<>>
Step(ecosystem, image, prepare, locked, command) ==
  <<[ecosystem |-> ecosystem, image |-> image, prepare |-> prepare, locked |-> locked,
     command |-> command]>>

\* next((name for name in names if good), None)
FirstOf(names, good) ==
  LET found == Sieve(names, good)
  IN  IF found = <<>> THEN "none" ELSE found[1]
=============================================================================
