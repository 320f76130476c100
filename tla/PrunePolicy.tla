---------------------------- MODULE PrunePolicy ----------------------------
(***************************************************************************)
(* How _prune_cache_unlocked chooses what to remove.  Three loops, over    *)
(* host caches, evidence and prepared volumes, go over a snapshot sorted   *)
(* by last use, and lower a count and a sum of bytes as entries go.        *)
(***************************************************************************)
EXTENDS Lists, SequencesExt, TLC

Kinds == {"host", "evidence", "volume"}

\* An entry: when it was used, its bytes, those of the indexes that name it,
\* whether its bytes are known (a runner may not tell), whether its version is
\* an old one, whether the caller protects it, and what removing it comes to.
Fates == {"removed", "partial", "refused"}

\* Mutant: the newest first.
NewestFirst(entries) == SortSeq(entries, LAMBDA a, b : a.used > b.used)

\* The entry in a list that is sorted by last use, after those as old as it.
Insert(seq, e) ==
  Sieve(seq, {f \in ToSet(seq) : f.used <= e.used}) \o <<e>>
    \o Sieve(seq, {f \in ToSet(seq) : f.used > e.used})

\* sorted(entries, key=last_used), which is stable.
Order(entries) ==
  LET sorted[i \in 0..Len(entries)] ==
        IF i = 0 THEN <<>> ELSE Insert(sorted[i - 1], entries[i])
  IN  sorted[Len(entries)]

Weight(kind, e) ==
  CASE kind = "host" -> e.bytes
    [] kind = "evidence" -> e.bytes + e.links
    [] kind = "volume" -> IF e.sized THEN e.bytes ELSE 0

\* Mutant: a removed receipt is not credited with its index.
CreditBytes(kind, e) == IF kind = "volume" /\ ~e.sized THEN 0 ELSE e.bytes

Credit(kind, e) == Weight(kind, e)

\* Evidence of which a file is gone counts as gone, a directory does not.
Counts(kind, e) ==
  e.fate = "removed" \/ (kind = "evidence" /\ e.fate = "partial")

\* Removed whatever the limits say.
Expired(kind, e, cutoff) == e.used < cutoff \/ (kind = "evidence" /\ e.stale)

\* Mutant: the byte limit is not looked at.
MustRemoveByCount(kind, e, count, total, limits) ==
  Expired(kind, e, limits.cutoff) \/ count > limits.entries

MustRemove(kind, e, count, total, limits) ==
  \/ Expired(kind, e, limits.cutoff)
  \/ count > limits.entries
  \/ total > limits.bytes /\ (kind = "volume" => e.sized)

SumOf(kind, entries) == Total([i \in DOMAIN entries |-> Weight(kind, entries[i])])

\* The loop: its counters, and the entries it tried to remove so far.
Loop(kind, entries, limits) ==
  LET order == Order(entries)
      after[i \in 0..Len(order)] ==
        IF i = 0
        THEN [count |-> Len(order), total |-> SumOf(kind, order), tried |-> <<>>]
        ELSE LET s == after[i - 1]
                 e == order[i]
             IN  IF e.kept \/ ~MustRemove(kind, e, s.count, s.total, limits) THEN s
                 ELSE [count |-> s.count - IF Counts(kind, e) THEN 1 ELSE 0,
                       total |-> s.total - IF Counts(kind, e) THEN Credit(kind, e) ELSE 0,
                       tried |-> Append(s.tried, e)]
  IN  after[Len(order)]

-----------------------------------------------------------------------------
(* What the limits promise.                                                *)

Tried(kind, entries, limits) == ToSet(Loop(kind, entries, limits).tried)
Left(kind, entries, limits) ==
  Sieve(entries, {e \in ToSet(entries) :
                    e \notin Tried(kind, entries, limits) \/ e.fate # "removed"})

\* Where every removal succeeds, what is left keeps both limits, or could not
\* be removed: it is protected or, for the bytes, of unknown size.
WithinLimits(kind, entries, limits) ==
  LET left == Left(kind, entries, limits)
  IN  (\A e \in ToSet(entries) : e.fate = "removed") =>
        /\ Len(left) > limits.entries => \A e \in ToSet(left) : e.kept
        /\ SumOf(kind, left) > limits.bytes =>
             \A e \in ToSet(left) : e.kept \/ (kind = "volume" /\ ~e.sized)

\* Nothing goes for a limit while something older stays that could have gone.
OldestFirst(kind, entries, limits) ==
  \A e \in Tried(kind, entries, limits), f \in ToSet(entries) :
    /\ ~Expired(kind, e, limits.cutoff)
    /\ f.used < e.used
    /\ f \notin Tried(kind, entries, limits)
    => f.kept \/ (kind = "volume" /\ ~f.sized)

\* Nothing goes for a limit that what is there by then keeps.
NothingNeedless(kind, entries, limits) ==
  \A e \in Tried(kind, entries, limits) :
    LET there == Sieve(entries, {f \in ToSet(entries) :
                   \/ f \notin Tried(kind, entries, limits)
                   \/ f.fate # "removed" \/ f.used >= e.used})
    IN  \/ Expired(kind, e, limits.cutoff)
        \/ Len(there) > limits.entries
        \/ SumOf(kind, there) > limits.bytes
=============================================================================
