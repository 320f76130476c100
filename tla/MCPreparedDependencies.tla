----------------------- MODULE MCPreparedDependencies -----------------------
(* Small instances of PreparedDependencies for TLC.                        *)
EXTENDS PreparedDependencies, TLC

CONSTANTS p1, p2, nodeModules, support, cargo

\* A Node step uses its node_modules volume and the support volume beside it,
\* a Rust step a host directory.
NodeSteps == {{nodeModules, support}}
RustSteps == {{cargo}}
DirOrVolume == {{nodeModules}, {cargo}}
ByName   == [r \in Resources |->
               CASE r = cargo -> 0 [] r = nodeModules -> 1 [] r = support -> 2]

ProcSymmetry == Permutations(Procs)
=============================================================================
