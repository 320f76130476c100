-------------------------- MODULE MCProbeWorkflow --------------------------
(* Small instances of ProbeWorkflow for TLC.                               *)
EXTENDS ProbeWorkflow, TLC

CONSTANTS p1, p2, p3, k1, k2, d1, d2, e1

\* d1 and d2 are one commit under two refs: one key, two plans.
\* e1 is the same commit under the other runner: a key of its own.
OneKey     == [d \in {d1, d2} |-> k1]
OneDest    == [d \in {d1} |-> k1]
TwoRunners == [d \in {d1, d2, e1} |-> IF d = e1 THEN k2 ELSE k1]

Steady(dests) == [d \in dests |-> {d}]
SteadyOneKey  == Steady({d1, d2})
SteadyOneDest == Steady({d1})
Fallback      == [d \in {d1, d2, e1} |-> IF d = d2 THEN {d2} ELSE {d1, e1}]

ProcSymmetry == Permutations(Procs)
=============================================================================
