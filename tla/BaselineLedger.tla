--------------------------- MODULE BaselineLedger ---------------------------
(***************************************************************************)
(* What check_repository promises, without locks, logs or prune internals: *)
(* a probe key has at most one execution at a time; an execution that may  *)
(* use the cache begins only while no PASS is known for it; only a stored  *)
(* PASS is served; evidence in use is never evicted; and what an index     *)
(* names was once proven.                                                  *)
(***************************************************************************)
CONSTANTS Procs, Keys, Dests, KeyOf, None

VARIABLES
  stored,    \* destinations with a PASS receipt
  indexed,   \* what the PASS index of a key names
  running,   \* the execution of a key: a destination, and whether it was forced
  served,    \* the stored PASS a process was answered with, or None
  proven     \* destinations that have passed

vars == <<stored, indexed, running, served, proven>>

Idle == [dest |-> None, forced |-> FALSE]

\* A PASS for d is known: at its own path or through the index of its key.
Known(d) == d \in stored \/ indexed[KeyOf[d]] \in stored

Begin(d, forced) ==
  /\ running[KeyOf[d]] = Idle
  /\ forced \/ ~Known(d)
  /\ running' = [running EXCEPT ![KeyOf[d]] = [dest |-> d, forced |-> forced]]
  /\ UNCHANGED <<stored, indexed, served, proven>>

Prove(k) ==
  /\ running[k] # Idle
  /\ stored' = stored \cup {running[k].dest}
  /\ proven' = proven \cup {running[k].dest}
  /\ UNCHANGED <<indexed, running, served>>

Disprove(k) ==
  /\ running[k] # Idle
  /\ stored' = stored \ {running[k].dest}
  /\ UNCHANGED <<indexed, running, served, proven>>

Publish(k) ==
  /\ running[k].dest \in stored
  /\ indexed' = [indexed EXCEPT ![k] = running[k].dest]
  /\ UNCHANGED <<stored, running, served, proven>>

End(k) ==
  /\ running' = [running EXCEPT ![k] = Idle]
  /\ UNCHANGED <<stored, indexed, served, proven>>

Serve(p, d) ==
  /\ d \in stored
  /\ served' = [served EXCEPT ![p] = d]
  /\ UNCHANGED <<stored, indexed, running, proven>>

Dismiss(p) ==
  /\ served' = [served EXCEPT ![p] = None]
  /\ UNCHANGED <<stored, indexed, running, proven>>

Evict(d) ==
  /\ running[KeyOf[d]].dest # d
  /\ stored' = stored \ {d}
  /\ UNCHANGED <<indexed, running, served, proven>>

Unindex(k) ==
  /\ indexed' = [indexed EXCEPT ![k] = None]
  /\ UNCHANGED <<stored, running, served, proven>>

Init ==
  /\ stored \subseteq Dests
  /\ proven = stored
  /\ indexed \in [Keys -> stored \cup {None}]
  /\ running = [k \in Keys |-> Idle]
  /\ served = [p \in Procs |-> None]

Next ==
  \/ \E d \in Dests : Evict(d) \/ \E forced \in BOOLEAN : Begin(d, forced)
  \/ \E k \in Keys : Prove(k) \/ Disprove(k) \/ Publish(k) \/ End(k) \/ Unindex(k)
  \/ \E p \in Procs : Dismiss(p) \/ \E d \in Dests : Serve(p, d)

Spec == Init /\ [][Next]_vars
=============================================================================
