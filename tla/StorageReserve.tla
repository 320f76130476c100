--------------------------- MODULE StorageReserve ---------------------------
(***************************************************************************)
(* ensure_storage_reserve: how much is pruned before a check so that it    *)
(* does not fill the disk, and when the check is refused instead.          *)
(*                                                                         *)
(* A machine is a record: the free bytes of each device the check writes   *)
(* to ("root" of the cache, "temp" if that is another one), the entries of *)
(* the host cache, the prepared volumes, the device the runner keeps them  *)
(* on, and whether the runner tells the sizes of all of them.              *)
(***************************************************************************)
EXTENDS PrunePolicy, FiniteSetsExt

CONSTANTS
  MinFree,      \* the reserve
  Slack         \* what is reclaimed beyond it, 256 MiB

ASSUME ReserveAssumption == MinFree \in Nat /\ Slack \in Nat

\* The limits a prune has anyway do not bind here.
Limits(bytes) == [entries |-> 100, bytes |-> bytes, cutoff |-> 0]

Low(free) == {d \in DOMAIN free : free[d] < MinFree}
Deficits(free) == {MinFree - free[d] : d \in Low(free)}

\* Mutant: as much as the device that lacks the least.
ReclaimLeast(free) == Min(Deficits(free)) + Slack

Reclaim(free) == Max(Deficits(free)) + Slack

Pruned(kind, entries, reclaim) ==
  LET bytes == SumOf(kind, entries) - reclaim
  IN  Left(kind, entries, Limits(IF bytes < 0 THEN 0 ELSE bytes))
Freed(kind, entries, left) == SumOf(kind, entries) - SumOf(kind, left)
With(free, device, bytes) ==
  [d \in DOMAIN free |-> free[d] + IF d = device THEN bytes ELSE 0]

AfterHost(m) ==
  IF Low(m.free) = {} THEN m
  ELSE LET left == Pruned("host", m.host, Reclaim(m.free))
       IN  [m EXCEPT !.host = left, !.free = With(@, "root", Freed("host", m.host, left))]
AfterVolumes(m) ==
  IF Low(m.free) = {} \/ ~m.sized \/ SumOf("volume", m.volumes) = 0 THEN m
  ELSE LET left == Pruned("volume", m.volumes, Reclaim(m.free))
       IN  [m EXCEPT !.volumes = left,
                     !.free = With(@, m.device, Freed("volume", m.volumes, left))]

\* The machine afterwards; the check is refused if a device is low even then.
EnsureStorageReserve(m) == AfterVolumes(AfterHost(m))
Refused(m) == Low(EnsureStorageReserve(m).free) # {}

-----------------------------------------------------------------------------
Removable(kind, entries) == SumOf(kind, Sieve(entries, {e \in ToSet(entries) : e.fate = "removed"}))
Reclaimable(m, d) ==
  (IF d = "root" THEN Removable("host", m.host) ELSE 0)
    + (IF d = m.device /\ m.sized THEN Removable("volume", m.volumes) ELSE 0)

(* A check is refused only where all that could be removed from a device   *)
(* would not do, and the volumes, the dearest to make again, are touched   *)
(* only where the host cache alone would not do.                           *)
ReserveMade(m) ==
  /\ Refused(m) => \E d \in DOMAIN m.free : m.free[d] + Reclaimable(m, d) < MinFree
  /\ EnsureStorageReserve(m).volumes # m.volumes =>
       \E d \in DOMAIN m.free :
         m.free[d] + (IF d = "root" THEN Removable("host", m.host) ELSE 0) < MinFree
=============================================================================
