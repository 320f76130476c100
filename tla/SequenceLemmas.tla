--------------------------- MODULE SequenceLemmas ---------------------------
(***************************************************************************)
(* Induction over naturals and sequences, and the lemmas about lists the   *)
(* proofs of the algorithms rest on.  An induction is over the members of  *)
(* a set, and rests on the finite sets being well-founded.                 *)
(***************************************************************************)
EXTENDS Lists, FiniteSetTheorems, TLAPS

(* Every set of naturals that is not empty has a least member.             *)
LEMMA LeastNatural ==
  ASSUME NEW S \in SUBSET Nat, S # {}
  PROVE  \E m \in S : \A n \in S : m <= n
<1> DEFINE T == {0..n : n \in S}
           R == StrictSubsetOrdering(Nat)
<1>1. T \subseteq FiniteSubsetsOf(Nat)
  <2>1. \A n \in S : IsFiniteSet(0..n)
    BY FS_Interval
  <2> QED BY <2>1 DEF FiniteSubsetsOf
<1>2. PICK x \in T : \A y \in T : <<y, x>> \notin R
  <2>1. T # {}
    OBVIOUS
  <2>2. IsWellFoundedOn(R, FiniteSubsetsOf(Nat))
    BY FS_StrictSubsetOrderingWellFounded
  <2> HIDE DEF T, R
  <2> QED BY <1>1, <2>1, <2>2, WFMin
<1>3. PICK m \in S : x = 0..m
  OBVIOUS
<1>4. ASSUME NEW n \in S, n < m PROVE FALSE
  <2>1. (0..n) \subseteq (0..m) /\ m \notin 0..n /\ m \in 0..m
    BY <1>4
  <2>2. <<0..n, 0..m>> \in R
    BY <2>1 DEF StrictSubsetOrdering
  <2> QED BY <1>2, <1>3, <2>2
<1> QED BY <1>4

(* Induction along the steps of a loop of n steps.                         *)
LEMMA StepInduction ==
  ASSUME NEW n \in Nat, NEW P, 0 \in P, \A i \in 1..n : i - 1 \in P => i \in P
  PROVE  \A i \in 0..n : i \in P
<1> SUFFICES ASSUME NEW k \in (0..n) \ P PROVE FALSE
  OBVIOUS
<1>1. PICK m \in (0..n) \ P : \A i \in (0..n) \ P : m <= i
  <2>1. (0..n) \ P \in SUBSET Nat
    OBVIOUS
  <2> QED BY <2>1, LeastNatural
<1>2. m \in 1..n /\ m - 1 \in 0..n
  OBVIOUS
<1>3. m - 1 \in P
  BY <1>1, <1>2
<1> QED BY <1>2, <1>3

(* Induction over the naturals.                                            *)
LEMMA NatSetInduction ==
  ASSUME NEW P, 0 \in P, \A n \in Nat : n \in P => n + 1 \in P
  PROVE  \A n \in Nat : n \in P
<1> SUFFICES ASSUME NEW n \in Nat PROVE n \in P
  OBVIOUS
<1>1. ASSUME NEW i \in 1..n, i - 1 \in P PROVE i \in P
  <2>1. i - 1 \in Nat /\ (i - 1) + 1 = i
    OBVIOUS
  <2> QED BY <1>1, <2>1
<1> QED BY <1>1, StepInduction

(* A loop of n steps over the states S, as a function of the state and the *)
(* number of the step, and a run of it.                                    *)
IsLoop(step, n, S) == step \in [S \X (1..n) -> S]
IsRun(f, n, S, start, step) ==
  /\ f \in [0..n -> S]
  /\ f[0] = start /\ \A i \in 1..n : f[i] = step[<<f[i - 1], i>>]

(* A loop that starts in a set and stays there has its run of states.      *)
LEMMA LoopRuns ==
  ASSUME NEW n \in Nat, NEW S, NEW start \in S, NEW step, IsLoop(step, n, S)
  PROVE  \E f : IsRun(f, n, S, start, step)
<1> USE DEF IsLoop, IsRun
<1> DEFINE Run(f, k) == f \in [0..k -> S] /\ f[0] = start /\ \A i \in 1..k : f[i] = step[<<f[i - 1], i>>]
           P == {k \in 0..n : \E f : Run(f, k)}
<1>1. 0 \in P
  <2> DEFINE g == [i \in 0..0 |-> start]
  <2>1. Run(g, 0)
    OBVIOUS
  <2> HIDE DEF Run, g
  <2> QED BY <2>1
<1>2. ASSUME NEW k \in 1..n, k - 1 \in P PROVE k \in P
  <2>1. PICK f : Run(f, k - 1)
    BY <1>2
  <2> DEFINE g == [i \in 0..k |-> IF i = k THEN step[<<f[k - 1], k>>] ELSE f[i]]
  <2>2. f \in [0..(k - 1) -> S] /\ f[k - 1] \in S /\ step[<<f[k - 1], k>>] \in S
    BY <2>1
  <2>3. g \in [0..k -> S] /\ g[0] = start
    BY <2>1, <2>2
  <2>4. ASSUME NEW i \in 1..k PROVE g[i] = step[<<g[i - 1], i>>]
    <3>1. CASE i = k
      <4>1. k - 1 \in 0..k /\ k - 1 # k /\ k \in 0..k
        OBVIOUS
      <4>2. g[k - 1] = f[k - 1] /\ g[k] = step[<<f[k - 1], k>>]
        BY <4>1
      <4> QED BY <3>1, <4>2
    <3>2. CASE i # k
      <4>1. i \in 1..(k - 1) /\ i - 1 \in 0..k /\ i - 1 # k /\ i \in 0..k
        BY <3>2
      <4> QED BY <2>1, <3>2, <4>1
    <3> QED BY <3>1, <3>2
  <2>5. Run(g, k)
    BY <2>3, <2>4
  <2> HIDE DEF Run, g
  <2> QED BY <2>5
<1>3. n \in P
  <2> HIDE DEF P
  <2> QED BY <1>1, <1>2, StepInduction
<1> QED BY <1>3

(* Two runs that start alike and go on alike end alike.                    *)
GoAlike(f, g, n) == f[0] = g[0] /\ \A i \in 1..n : f[i - 1] = g[i - 1] => f[i] = g[i]

LEMMA RunsAlike ==
  ASSUME NEW n \in Nat, NEW f, NEW g, GoAlike(f, g, n)
  PROVE  f[n] = g[n]
<1> DEFINE P == {i \in 0..n : f[i] = g[i]}
<1>1. 0 \in P /\ \A i \in 1..n : i - 1 \in P => i \in P
  BY DEF GoAlike
<1> HIDE DEF P
<1>2. \A i \in 0..n : i \in P
  BY <1>1, StepInduction
<1> QED BY <1>2 DEF P

(* Induction over the sequences over a set, from the front to the back.    *)
LEMMA SequenceInduction ==
  ASSUME NEW T, NEW P, <<>> \in P, \A s \in Seq(T), e \in T : s \in P => Append(s, e) \in P
  PROVE  \A s \in Seq(T) : s \in P
<1> DEFINE Q == {n \in Nat : \A s \in Seq(T) : Len(s) = n => s \in P}
<1>1. 0 \in Q
  OBVIOUS
<1>2. ASSUME NEW n \in Nat, n \in Q PROVE n + 1 \in Q
  <2> SUFFICES ASSUME NEW s \in Seq(T), Len(s) = n + 1 PROVE s \in P
    OBVIOUS
  <2> DEFINE front == SubSeq(s, 1, n)
  <2>1. front \in Seq(T) /\ Len(front) = n /\ s[n + 1] \in T
    OBVIOUS
  <2>2. s = Append(front, s[n + 1])
    OBVIOUS
  <2>3. front \in P
    BY <1>2, <2>1
  <2> HIDE DEF front
  <2> QED BY <2>1, <2>2, <2>3
<1>3. \A n \in Nat : n \in Q
  <2> HIDE DEF Q
  <2> QED BY <1>1, <1>2, NatSetInduction
<1> QED BY <1>3

(* Sequences of the same elements in the same places are the same.         *)
LEMMA SameSequence ==
  ASSUME NEW T, NEW s \in Seq(T), NEW t \in Seq(T), Len(s) = Len(t), \A i \in 1..Len(s) : s[i] = t[i]
  PROVE  s = t
OBVIOUS

(* Two elements, one after the other.                                      *)
LEMMA Pair ==
  ASSUME NEW x, NEW y
  PROVE  <<x>> \o <<y>> = <<x, y>> /\ Append(<<x>>, y) = <<x, y>>
<1> DEFINE T == {x, y}
           s == <<x>> \o <<y>>
           t == <<x, y>>
           u == Append(<<x>>, y)
<1>1. s \in Seq(T) /\ Len(s) = 2 /\ s[1] = x /\ s[2] = y
  OBVIOUS
<1>2. t \in Seq(T) /\ Len(t) = 2 /\ t[1] = x /\ t[2] = y
  OBVIOUS
<1>3. u \in Seq(T) /\ Len(u) = 2 /\ u[1] = x /\ u[2] = y
  OBVIOUS
<1> HIDE DEF s, t, u, T
<1>4. \A i \in 1..2 : i = 1 \/ i = 2
  OBVIOUS
<1>5. s = t
  <2>1. \A i \in 1..Len(s) : s[i] = t[i]
    BY <1>1, <1>2, <1>4
  <2> QED BY <1>1, <1>2, <2>1, SameSequence
<1>6. u = t
  <2>1. \A i \in 1..Len(u) : u[i] = t[i]
    BY <1>3, <1>2, <1>4
  <2> QED BY <1>3, <1>2, <2>1, SameSequence
<1> QED BY <1>5, <1>6 DEF s, t, u

-----------------------------------------------------------------------------
(* Sieve is the state its loop ends in.                                    *)
(* The states of the loop of Sieve.                                        *)
SieveRun(kept, seq, S, T) ==
  /\ kept \in [0..Len(seq) -> Seq(T)]
  /\ kept[0] = <<>>
  /\ \A i \in 1..Len(seq) :
       kept[i] = IF seq[i] \in S THEN Append(kept[i - 1], seq[i]) ELSE kept[i - 1]
  /\ Sieve(seq, S) = kept[Len(seq)]

LEMMA SieveLoop ==
  ASSUME NEW T, NEW seq \in Seq(T), NEW S
  PROVE  \E kept : SieveRun(kept, seq, S, T)
<1> DEFINE n == Len(seq)
           States == Seq(T)
           start == <<>>
           Next(s, i) == IF seq[i] \in S THEN Append(s, seq[i]) ELSE s
           step == [x \in States \X (1..n) |-> Next(x[1], x[2])]
           Body(f) == [i \in 0..n |-> IF i = 0 THEN start ELSE Next(f[i - 1], i)]
           kept == CHOOSE f : f = Body(f)
<1>1. n \in Nat /\ start \in States /\ \A s \in States, i \in 1..n : Next(s, i) \in States
  OBVIOUS
<1>2. Sieve(seq, S) = kept[n]
  BY DEF Sieve
<1> HIDE DEF n, States, start, Next
<1>3. IsLoop(step, n, States)
  BY <1>1 DEF IsLoop
<1>4. PICK f : IsRun(f, n, States, start, step)
  <2> HIDE DEF step
  <2>1. n \in Nat /\ start \in States
    BY <1>1
  <2> QED BY <1>3, <2>1, LoopRuns
<1>5. ASSUME NEW i \in 1..n PROVE f[i] = Next(f[i - 1], i)
  <2>1. f[i - 1] \in States
    BY <1>1, <1>4 DEF IsRun
  <2> QED BY <1>4, <2>1 DEF IsRun
<1>6. f = Body(f)
  BY <1>1, <1>4, <1>5 DEF IsRun
<1>7. kept = Body(kept)
  <2> HIDE DEF Body
  <2> QED BY <1>6
<1> HIDE DEF kept
<1>8. kept[0] = start /\ \A i \in 1..n : kept[i] = Next(kept[i - 1], i)
  <2>1. \A i \in 0..n : kept[i] = IF i = 0 THEN start ELSE Next(kept[i - 1], i)
    BY <1>7
  <2> QED BY <1>1, <2>1
<1>9. \A i \in 0..n : kept[i] \in States
  <2> DEFINE P == {i \in 0..n : kept[i] \in States}
  <2>1. 0 \in P /\ \A i \in 1..n : i - 1 \in P => i \in P
    BY <1>1, <1>8
  <2> HIDE DEF P
  <2>2. \A i \in 0..n : i \in P
    BY <1>1, <2>1, StepInduction
  <2> QED BY <2>2 DEF P
<1>10. kept \in [0..n -> States]
  BY <1>7, <1>9
<1> QED BY <1>2, <1>8, <1>10 DEF n, States, start, Next, SieveRun
(* Total is the state its loop ends in.                                    *)
TotalRun(upto, numbers) ==
  /\ upto \in [0..Len(numbers) -> Int]
  /\ upto[0] = 0
  /\ \A i \in 1..Len(numbers) : upto[i] = upto[i - 1] + numbers[i]
  /\ Total(numbers) = upto[Len(numbers)]

LEMMA TotalLoop ==
  ASSUME NEW numbers \in Seq(Int)
  PROVE  \E upto : TotalRun(upto, numbers)
<1> DEFINE n == Len(numbers)
           Next(s, i) == s + numbers[i]
           step == [x \in Int \X (1..n) |-> Next(x[1], x[2])]
           Body(f) == [i \in 0..n |-> IF i = 0 THEN 0 ELSE Next(f[i - 1], i)]
           upto == CHOOSE f : f = Body(f)
<1>1. n \in Nat /\ \A s \in Int, i \in 1..n : Next(s, i) \in Int
  OBVIOUS
<1>2. Total(numbers) = upto[n]
  BY DEF Total
<1> HIDE DEF n, Next
<1>3. IsLoop(step, n, Int)
  BY <1>1 DEF IsLoop
<1>4. PICK f : IsRun(f, n, Int, 0, step)
  <2> HIDE DEF step
  <2>1. n \in Nat /\ 0 \in Int
    BY <1>1
  <2> QED BY <1>3, <2>1, LoopRuns
<1>5. ASSUME NEW i \in 1..n PROVE f[i] = Next(f[i - 1], i)
  <2>1. f[i - 1] \in Int
    BY <1>1, <1>4 DEF IsRun
  <2> QED BY <1>4, <2>1 DEF IsRun
<1>6. f = Body(f)
  BY <1>1, <1>4, <1>5 DEF IsRun
<1>7. upto = Body(upto)
  <2> HIDE DEF Body
  <2> QED BY <1>6
<1> HIDE DEF upto
<1>8. upto[0] = 0 /\ \A i \in 1..n : upto[i] = Next(upto[i - 1], i)
  <2>1. \A i \in 0..n : upto[i] = IF i = 0 THEN 0 ELSE Next(upto[i - 1], i)
    BY <1>7
  <2> QED BY <1>1, <2>1
<1>9. \A i \in 0..n : upto[i] \in Int
  <2> DEFINE P == {i \in 0..n : upto[i] \in Int}
  <2>1. 0 \in P
    BY <1>1, <1>8
  <2>2. ASSUME NEW i \in 1..n, i - 1 \in P PROVE i \in P
    <3>1. i \in 0..n
      BY <1>1
    <3> QED BY <1>1, <1>8, <2>2, <3>1
  <2> HIDE DEF P
  <2>3. \A i \in 0..n : i \in P
    BY <1>1, <2>1, <2>2, StepInduction
  <2> QED BY <2>3 DEF P
<1>10. upto \in [0..n -> Int]
  BY <1>7, <1>9
<1> QED BY <1>2, <1>8, <1>10 DEF n, Next, TotalRun

(* Sieve, element by element.                                              *)
LEMMA SieveEmpty ==
  ASSUME NEW S
  PROVE  Sieve(<<>>, S) = <<>>
<1>1. <<>> \in Seq({}) /\ Len(<<>>) = 0
  OBVIOUS
<1>2. PICK f : SieveRun(f, <<>>, S, {})
  BY <1>1, SieveLoop
<1> QED BY <1>1, <1>2 DEF SieveRun

LEMMA SieveStep ==
  ASSUME NEW T, NEW seq \in Seq(T), NEW e \in T, NEW S
  PROVE  Sieve(Append(seq, e), S) = IF e \in S THEN Append(Sieve(seq, S), e) ELSE Sieve(seq, S)
<1> DEFINE n == Len(seq)
           more == Append(seq, e)
<1>2. /\ more \in Seq(T) /\ n \in Nat /\ Len(more) = n + 1
      /\ more[n + 1] = e /\ \A i \in 1..n : more[i] = seq[i]
  OBVIOUS
<1> HIDE DEF more
<1>3. PICK f : SieveRun(f, seq, S, T)
  BY SieveLoop
<1>4. PICK g : SieveRun(g, more, S, T)
  BY <1>2, SieveLoop
<1>5. \A i \in 1..n : f[i - 1] = g[i - 1] => f[i] = g[i]
  <2> SUFFICES ASSUME NEW i \in 1..n, f[i - 1] = g[i - 1] PROVE f[i] = g[i]
    OBVIOUS
  <2>1. i \in 1..Len(more) /\ more[i] = seq[i]
    BY <1>2
  <2> QED BY <1>3, <1>4, <2>1 DEF SieveRun
<1> HIDE DEF n
<1>6. f[n] = g[n]
  <2>1. GoAlike(f, g, n)
    BY <1>3, <1>4, <1>5 DEF GoAlike, SieveRun
  <2> QED BY <1>2, <2>1, RunsAlike
<1>7. g[n + 1] = IF more[n + 1] \in S THEN Append(g[n], more[n + 1]) ELSE g[n]
  <2>1. n + 1 \in 1..Len(more) /\ (n + 1) - 1 = n
    BY <1>2
  <2> QED BY <1>4, <2>1 DEF SieveRun
<1>8. Sieve(seq, S) = f[n] /\ Sieve(more, S) = g[n + 1]
  BY <1>2, <1>3, <1>4 DEF SieveRun, n
<1> QED BY <1>2, <1>6, <1>7, <1>8 DEF more

(* Total, element by element.                                              *)
LEMMA TotalStep ==
  ASSUME NEW seq \in Seq(Int), NEW e \in Int
  PROVE  /\ Total(<<>>) = 0 /\ Total(seq) \in Int
         /\ Total(Append(seq, e)) = Total(seq) + e
<1> DEFINE n == Len(seq)
           more == Append(seq, e)
<1>1. Total(<<>>) = 0
  <2>1. <<>> \in Seq(Int) /\ Len(<<>>) = 0
    OBVIOUS
  <2>2. PICK f : TotalRun(f, <<>>)
    BY <2>1, TotalLoop
  <2> QED BY <2>1, <2>2 DEF TotalRun
<1>2. /\ more \in Seq(Int) /\ n \in Nat /\ Len(more) = n + 1
      /\ more[n + 1] = e /\ \A i \in 1..n : more[i] = seq[i]
  OBVIOUS
<1> HIDE DEF more
<1>3. PICK f : TotalRun(f, seq)
  BY TotalLoop
<1>4. PICK g : TotalRun(g, more)
  BY <1>2, TotalLoop
<1>5. \A i \in 1..n : f[i - 1] = g[i - 1] => f[i] = g[i]
  <2> SUFFICES ASSUME NEW i \in 1..n, f[i - 1] = g[i - 1] PROVE f[i] = g[i]
    OBVIOUS
  <2>1. i \in 1..Len(more) /\ more[i] = seq[i]
    BY <1>2
  <2> QED BY <1>3, <1>4, <2>1 DEF TotalRun
<1> HIDE DEF n
<1>6. f[n] = g[n]
  <2>1. GoAlike(f, g, n)
    BY <1>3, <1>4, <1>5 DEF GoAlike, TotalRun
  <2> QED BY <1>2, <2>1, RunsAlike
<1>7. g[n + 1] = g[n] + more[n + 1]
  <2>1. n + 1 \in 1..Len(more) /\ (n + 1) - 1 = n
    BY <1>2
  <2> QED BY <1>4, <2>1 DEF TotalRun
<1>8. Total(seq) = f[n] /\ Total(more) = g[n + 1]
  BY <1>2, <1>3, <1>4 DEF TotalRun, n
<1>9. f[n] \in Int
  BY <1>2, <1>3 DEF TotalRun, n
<1> QED BY <1>1, <1>2, <1>6, <1>7, <1>8, <1>9 DEF more

(* Sieve keeps nothing if nothing is to be kept, and else the first first. *)
IsFirst(i, seq, S) == i \in 1..Len(seq) /\ seq[i] \in S /\ \A j \in 1..(i - 1) : seq[j] \notin S

LEMMA SieveFirst ==
  ASSUME NEW T, NEW seq \in Seq(T), NEW S
  PROVE  /\ Sieve(seq, S) \in Seq(T)
         /\ Sieve(seq, S) = <<>> => \A i \in 1..Len(seq) : seq[i] \notin S
         /\ Sieve(seq, S) # <<>> => \E i : IsFirst(i, seq, S) /\ Head(Sieve(seq, S)) = seq[i]
<1> DEFINE Good(s) == /\ Sieve(s, S) \in Seq(T)
                      /\ Sieve(s, S) = <<>> => \A i \in 1..Len(s) : s[i] \notin S
                      /\ Sieve(s, S) # <<>> => \E i : IsFirst(i, s, S) /\ Head(Sieve(s, S)) = s[i]
           P == {s \in Seq(T) : Good(s)}
<1>1. <<>> \in P
  <2>1. Sieve(<<>>, S) = <<>>
    BY SieveEmpty
  <2>2. <<>> \in Seq(T) /\ \A i \in 1..Len(<<>>) : <<>>[i] \notin S
    OBVIOUS
  <2>3. Good(<<>>)
    BY <2>1, <2>2
  <2> HIDE DEF Good
  <2> QED BY <2>2, <2>3
<1>2. ASSUME NEW s \in Seq(T), NEW e \in T, Good(s) PROVE Good(Append(s, e))
  <2> DEFINE n == Len(s)
             t == Append(s, e)
             kept == Sieve(s, S)
  <2>1. /\ t \in Seq(T) /\ n \in Nat /\ Len(t) = n + 1
        /\ t[n + 1] = e /\ \A i \in 1..n : t[i] = s[i]
    OBVIOUS
  <2>2. Sieve(t, S) = IF e \in S THEN Append(kept, e) ELSE kept
    BY SieveStep
  <2>3. /\ kept \in Seq(T)
        /\ kept = <<>> => \A i \in 1..n : s[i] \notin S
        /\ kept # <<>> => \E i : IsFirst(i, s, S) /\ Head(kept) = s[i]
    BY <1>2
  <2> HIDE DEF t, kept
  <2>4. CASE kept = <<>>
    <3>1. CASE e \in S
      <4>1. Sieve(t, S) = <<e>> /\ Head(<<e>>) = e /\ <<e>> # <<>> /\ <<e>> \in Seq(T)
        BY <2>2, <2>4, <3>1
      <4>2. IsFirst(n + 1, t, S)
        BY <2>1, <2>3, <2>4, <3>1 DEF IsFirst
      <4> HIDE DEF n
      <4> QED BY <2>1, <4>1, <4>2 DEF t
    <3>2. CASE e \notin S
      <4>1. \A i \in 1..(n + 1) : t[i] \notin S
        BY <2>1, <2>3, <2>4, <3>2
      <4> QED BY <2>1, <2>2, <2>4, <3>2, <4>1 DEF t
    <3> QED BY <3>1, <3>2
  <2>5. CASE kept # <<>>
    <3>1. PICK i : IsFirst(i, s, S) /\ Head(kept) = s[i]
      BY <2>3, <2>5
    <3>2. IsFirst(i, t, S) /\ t[i] = s[i]
      BY <2>1, <3>1 DEF IsFirst
    <3>3. Sieve(t, S) \in Seq(T) /\ Sieve(t, S) # <<>> /\ Head(Sieve(t, S)) = Head(kept)
      BY <2>2, <2>3, <2>5
    <3> QED BY <3>1, <3>2, <3>3 DEF t
  <2> QED BY <2>4, <2>5
<1>3. \A s \in Seq(T) : s \in P
  <2>1. ASSUME NEW s \in Seq(T), NEW e \in T, s \in P PROVE Append(s, e) \in P
    <3>1. Append(s, e) \in Seq(T) /\ Good(s)
      BY <2>1
    <3>2. Good(Append(s, e))
      BY <1>2, <3>1
    <3> HIDE DEF Good
    <3> QED BY <3>1, <3>2
  <2> HIDE DEF P
  <2> QED BY <1>1, <2>1, SequenceInduction
<1> QED BY <1>3
-----------------------------------------------------------------------------
(* How much of a list lies in a set, each element with its weight.         *)
Elements(seq) == {seq[i] : i \in 1..Len(seq)}
Amount(seq, S, weight) ==
  Total([i \in DOMAIN Sieve(seq, S) |-> weight[Sieve(seq, S)[i]]])

(* What Append does to a list.                                             *)
LEMMA Appended ==
  ASSUME NEW T, NEW s \in Seq(T), NEW e \in T
  PROVE  /\ Append(s, e) \in Seq(T) /\ Len(s) \in Nat /\ Len(Append(s, e)) = Len(s) + 1
         /\ Append(s, e)[Len(s) + 1] = e /\ \A i \in 1..Len(s) : Append(s, e)[i] = s[i]
         /\ Elements(Append(s, e)) = Elements(s) \cup {e}
         /\ Elements(s) \subseteq T
<1> DEFINE n == Len(s)
           t == Append(s, e)
<1>1. t \in Seq(T) /\ n \in Nat /\ Len(t) = n + 1 /\ t[n + 1] = e /\ \A i \in 1..n : t[i] = s[i]
  OBVIOUS
<1>2. \A i \in 1..n : s[i] \in T
  OBVIOUS
<1> HIDE DEF t, n
<1>3. Elements(t) = {t[i] : i \in 1..(n + 1)} /\ Elements(s) = {s[i] : i \in 1..n}
  BY <1>1 DEF Elements, n
<1>4. 1..(n + 1) = (1..n) \cup {n + 1}
  BY <1>1
<1>5. Elements(t) = Elements(s) \cup {e}
  BY <1>1, <1>3, <1>4
<1> QED BY <1>1, <1>2, <1>3, <1>5 DEF t, n

IsWeight(weight, T) == weight \in [T -> Nat]

(* There is nothing of an empty list.                                      *)
LEMMA AmountNothing ==
  ASSUME NEW S, NEW weight
  PROVE  Amount(<<>>, S, weight) = 0
<1>1. [i \in DOMAIN <<>> |-> weight[<<>>[i]]] = <<>>
  OBVIOUS
<1>2. <<>> \in Seq(Int) /\ 0 \in Int
  OBVIOUS
<1>3. Total(<<>>) = 0
  BY <1>2, TotalStep
<1> QED BY <1>1, <1>3, SieveEmpty DEF Amount

LEMMA AmountStep ==
  ASSUME NEW T, NEW weight, IsWeight(weight, T), NEW seq \in Seq(T), NEW e \in T, NEW S
  PROVE  /\ Amount(seq, S, weight) \in Int
         /\ Amount(Append(seq, e), S, weight)
              = Amount(seq, S, weight) + (IF e \in S THEN weight[e] ELSE 0)
<1> USE DEF IsWeight
<1> DEFINE kept == Sieve(seq, S)
           Weights(s) == [i \in DOMAIN s |-> weight[s[i]]]
<1>1. \A s \in Seq(T) : Weights(s) \in Seq(Int) /\ Len(Weights(s)) = Len(s)
  <2> SUFFICES ASSUME NEW s \in Seq(T) PROVE Weights(s) \in Seq(Int) /\ Len(Weights(s)) = Len(s)
    OBVIOUS
  <2>1. DOMAIN s = 1..Len(s) /\ Len(s) \in Nat /\ \A i \in 1..Len(s) : weight[s[i]] \in Int
    OBVIOUS
  <2> QED BY <2>1
<1>2. kept \in Seq(T)
  BY SieveFirst
<1>3. Amount(seq, S, weight) \in Int
  <2>1. Total(Weights(kept)) \in Int
    <3> HIDE DEF Weights, kept
    <3>1. Weights(kept) \in Seq(Int) /\ 0 \in Int
      BY <1>1, <1>2
    <3> QED BY <3>1, TotalStep
  <2> QED BY <2>1 DEF Amount
<1>5. Weights(Append(kept, e)) = Append(Weights(kept), weight[e])
  <2> DEFINE more == Append(kept, e)
             n == Len(kept)
  <2>1. /\ more \in Seq(T) /\ n \in Nat /\ Len(more) = n + 1
        /\ more[n + 1] = e /\ \A i \in 1..n : more[i] = kept[i]
    BY <1>2, Appended
  <2>2. DOMAIN more = 1..(n + 1) /\ DOMAIN kept = 1..n
    BY <1>2, <2>1
  <2> DEFINE a == Weights(more)
             b == Append(Weights(kept), weight[e])
  <2>3. a \in Seq(Int) /\ Len(a) = n + 1 /\ \A i \in 1..(n + 1) : a[i] = weight[more[i]]
    <3>1. a \in Seq(Int) /\ Len(a) = Len(more)
      BY <1>1, <2>1
    <3>2. \A i \in 1..(n + 1) : a[i] = weight[more[i]]
      BY <2>2
    <3> QED BY <2>1, <3>1, <3>2
  <2>4. b \in Seq(Int) /\ Len(b) = n + 1 /\ b[n + 1] = weight[e] /\ \A i \in 1..n : b[i] = weight[kept[i]]
    <3>1. Weights(kept) \in Seq(Int) /\ Len(Weights(kept)) = n /\ weight[e] \in Int
      BY <1>1, <1>2
    <3>2. \A i \in 1..n : Weights(kept)[i] = weight[kept[i]]
      BY <2>2
    <3> HIDE DEF Weights, n
    <3> QED BY <2>1, <3>1, <3>2
  <2> HIDE DEF a, b, more, n
  <2>5. \A i \in 1..(n + 1) : a[i] = b[i]
    <3>1. \A i \in 1..(n + 1) : i \in 1..n \/ i = n + 1
      BY <2>1
    <3>2. n + 1 \in 1..(n + 1) /\ \A i \in 1..n : i \in 1..(n + 1)
      BY <2>1
    <3>3. a[n + 1] = b[n + 1]
      BY <2>1, <2>3, <2>4, <3>2
    <3>4. ASSUME NEW i \in 1..n PROVE a[i] = b[i]
      <4>1. a[i] = weight[more[i]] /\ b[i] = weight[kept[i]]
        BY <2>3, <2>4, <3>2
      <4> QED BY <2>1, <4>1
    <3> QED BY <3>1, <3>3, <3>4
  <2>6. a = b
    BY <2>3, <2>4, <2>5, SameSequence
  <2> QED BY <2>6 DEF a, b, more
<1>6. Total(Append(Weights(kept), weight[e])) = Total(Weights(kept)) + weight[e]
  <2>1. weight[e] \in Int /\ Weights(kept) \in Seq(Int)
    BY <1>1, <1>2
  <2> HIDE DEF Weights, kept
  <2> QED BY <2>1, TotalStep
<1>7. Sieve(Append(seq, e), S) = IF e \in S THEN Append(kept, e) ELSE kept
  BY SieveStep
<1>8. \A s : Amount(s, S, weight) = Total(Weights(Sieve(s, S)))
  BY DEF Amount
<1> HIDE DEF Weights, kept
<1>9. Amount(seq, S, weight) = Total(Weights(kept))
  BY <1>8 DEF kept
<1>10. CASE e \in S
  <2>1. Sieve(Append(seq, e), S) = Append(kept, e)
    BY <1>7, <1>10
  <2>2. Amount(Append(seq, e), S, weight) = Total(Append(Weights(kept), weight[e]))
    BY <1>5, <1>8, <2>1
  <2> QED BY <1>3, <1>6, <1>9, <1>10, <2>2
<1>11. CASE e \notin S
  <2>1. Sieve(Append(seq, e), S) = kept
    BY <1>7, <1>11
  <2>2. Amount(Append(seq, e), S, weight) = Amount(seq, S, weight)
    BY <1>8, <1>9, <2>1
  <2> QED BY <1>3, <1>11, <2>2
<1> QED BY <1>10, <1>11

(* Weights are not negative, and a larger set has no smaller part.         *)
LEMMA AmountGrows ==
  ASSUME NEW T, NEW weight, IsWeight(weight, T), NEW seq \in Seq(T), NEW S, NEW R, S \cap T \subseteq R
  PROVE  Amount(seq, S, weight) \in Nat /\ Amount(seq, S, weight) <= Amount(seq, R, weight)
<1> DEFINE Good(s) == Amount(s, S, weight) \in Nat /\ Amount(s, S, weight) <= Amount(s, R, weight)
           P == {s \in Seq(T) : Good(s)}
<1>1. <<>> \in P
  <2>1. Amount(<<>>, S, weight) = 0 /\ Amount(<<>>, R, weight) = 0
    BY AmountNothing
  <2> QED BY <2>1
<1>2. ASSUME NEW s \in Seq(T), NEW e \in T, s \in P PROVE Append(s, e) \in P
  <2>1. \A X : /\ Amount(s, X, weight) \in Int
               /\ Amount(Append(s, e), X, weight) = Amount(s, X, weight) + (IF e \in X THEN weight[e] ELSE 0)
    BY AmountStep
  <2>4. weight[e] \in Nat
    BY DEF IsWeight
  <2>5. e \in S => e \in R
    OBVIOUS
  <2>6. Good(s) /\ Append(s, e) \in Seq(T)
    BY <1>2
  <2> QED BY <2>1, <2>4, <2>5, <2>6
<1> HIDE DEF P
<1>3. \A s \in Seq(T) : s \in P
  BY <1>1, <1>2, SequenceInduction
<1> QED BY <1>3 DEF P

(* What lies in a set is what lies in a part of it, and in the rest.        *)
LEMMA AmountSplit ==
  ASSUME NEW T, NEW seq \in Seq(T), NEW weight, IsWeight(weight, T), NEW S, NEW A
  PROVE  Amount(seq, S, weight) = Amount(seq, S \cap A, weight) + Amount(seq, S \ A, weight)
<1> DEFINE Good(s) == Amount(s, S, weight) = Amount(s, S \cap A, weight) + Amount(s, S \ A, weight)
           P == {s \in Seq(T) : Good(s)}
<1>1. <<>> \in P
  <2>1. \A X : Amount(<<>>, X, weight) = 0
    BY AmountNothing
  <2> QED BY <2>1
<1>2. ASSUME NEW s \in Seq(T), NEW e \in T, s \in P PROVE Append(s, e) \in P
  <2>1. Append(s, e) \in Seq(T) /\ Good(s)
    BY <1>2
  <2>2. \A X : /\ Amount(s, X, weight) \in Int
               /\ Amount(Append(s, e), X, weight) = Amount(s, X, weight) + (IF e \in X THEN weight[e] ELSE 0)
    <3> HIDE DEF P
    <3> TAKE X
    <3> QED BY AmountStep
  <2>3. weight[e] \in Int
    BY DEF IsWeight
  <2>4. Good(Append(s, e))
    <3>1. CASE e \in S /\ e \in A
      BY <2>1, <2>2, <2>3, <3>1
    <3>2. CASE e \in S /\ e \notin A
      BY <2>1, <2>2, <2>3, <3>2
    <3>3. CASE e \notin S
      BY <2>1, <2>2, <2>3, <3>3
    <3> QED BY <3>1, <3>2, <3>3
  <2> QED BY <2>1, <2>4
<1> HIDE DEF P
<1>3. \A s \in Seq(T) : s \in P
  BY <1>1, <1>2, SequenceInduction
<1> QED BY <1>3 DEF P

(* What lies in a set after a sieve lies in both sets before it.           *)
LEMMA SieveAmount ==
  ASSUME NEW T, NEW seq \in Seq(T), NEW weight, IsWeight(weight, T), NEW S, NEW A
  PROVE  Amount(Sieve(seq, A), S, weight) = Amount(seq, S \cap A, weight)
<1> DEFINE Good(s) == Amount(Sieve(s, A), S, weight) = Amount(s, S \cap A, weight)
           P == {s \in Seq(T) : Good(s)}
<1>1. <<>> \in P
  <2>1. \A X : Amount(<<>>, X, weight) = 0
    BY AmountNothing
  <2> QED BY <2>1, SieveEmpty
<1>2. ASSUME NEW s \in Seq(T), NEW e \in T, s \in P PROVE Append(s, e) \in P
  <2>1. Append(s, e) \in Seq(T) /\ Good(s)
    BY <1>2
  <2>2. \A X : Amount(Append(s, e), X, weight) = Amount(s, X, weight) + (IF e \in X THEN weight[e] ELSE 0)
    BY AmountStep
  <2>3. Sieve(s, A) \in Seq(T)
    BY SieveFirst
  <2>4. \A X : /\ Amount(Sieve(s, A), X, weight) \in Int
               /\ Amount(Append(Sieve(s, A), e), X, weight)
                    = Amount(Sieve(s, A), X, weight) + (IF e \in X THEN weight[e] ELSE 0)
    <3> HIDE DEF P
    <3> TAKE X
    <3> QED BY <2>3, AmountStep
  <2>5. Sieve(Append(s, e), A) = IF e \in A THEN Append(Sieve(s, A), e) ELSE Sieve(s, A)
    BY SieveStep
  <2>6. Good(Append(s, e))
    <3>1. CASE e \in A
      BY <2>1, <2>2, <2>4, <2>5, <3>1
    <3>2. CASE e \notin A
      <4>1. Amount(s, S \cap A, weight) \in Int
        BY AmountStep
      <4> QED BY <2>1, <2>2, <2>4, <2>5, <3>2, <4>1
    <3> QED BY <3>1, <3>2
  <2> QED BY <2>1, <2>6
<1> HIDE DEF P
<1>3. \A s \in Seq(T) : s \in P
  BY <1>1, <1>2, SequenceInduction
<1> QED BY <1>3 DEF P

(* What a sieve keeps.                                                     *)
LEMMA SieveElements ==
  ASSUME NEW T, NEW seq \in Seq(T), NEW S
  PROVE  Elements(Sieve(seq, S)) = Elements(seq) \cap S
<1> DEFINE Good(s) == Elements(Sieve(s, S)) = Elements(s) \cap S
           P == {s \in Seq(T) : Good(s)}
<1>1. <<>> \in P
  <2>1. Elements(<<>>) = {}
    BY DEF Elements
  <2> QED BY <2>1, SieveEmpty
<1>2. ASSUME NEW s \in Seq(T), NEW e \in T, s \in P PROVE Append(s, e) \in P
  <2>1. Append(s, e) \in Seq(T) /\ Good(s)
    BY <1>2
  <2>2. Elements(Append(s, e)) = Elements(s) \cup {e}
    BY Appended
  <2>3. Sieve(s, S) \in Seq(T)
    BY SieveFirst
  <2>4. Elements(Append(Sieve(s, S), e)) = Elements(Sieve(s, S)) \cup {e}
    BY <2>3, Appended
  <2>5. Sieve(Append(s, e), S) = IF e \in S THEN Append(Sieve(s, S), e) ELSE Sieve(s, S)
    BY SieveStep
  <2> QED BY <2>1, <2>2, <2>4, <2>5
<1> HIDE DEF P
<1>3. \A s \in Seq(T) : s \in P
  BY <1>1, <1>2, SequenceInduction
<1> QED BY <1>3 DEF P

(* A sieve that lets all pass.                                             *)
LEMMA SieveAll ==
  ASSUME NEW T, NEW seq \in Seq(T), NEW S, Elements(seq) \subseteq S
  PROVE  Sieve(seq, S) = seq
<1> DEFINE Good(s) == Elements(s) \subseteq S => Sieve(s, S) = s
           P == {s \in Seq(T) : Good(s)}
<1>1. <<>> \in P
  BY SieveEmpty
<1>2. ASSUME NEW s \in Seq(T), NEW e \in T, s \in P PROVE Append(s, e) \in P
  <2>1. Append(s, e) \in Seq(T) /\ Good(s)
    BY <1>2
  <2>2. Elements(Append(s, e)) = Elements(s) \cup {e}
    BY Appended
  <2>3. Sieve(Append(s, e), S) = IF e \in S THEN Append(Sieve(s, S), e) ELSE Sieve(s, S)
    BY SieveStep
  <2> QED BY <2>1, <2>2, <2>3
<1> HIDE DEF P
<1>3. \A s \in Seq(T) : s \in P
  BY <1>1, <1>2, SequenceInduction
<1> QED BY <1>3 DEF P

(* The length of what a sieve keeps.                                       *)
LEMMA SieveLength ==
  ASSUME NEW T, NEW seq \in Seq(T)
  PROVE  \A S : Len(Sieve(seq, S)) = Amount(seq, S, [x \in T |-> 1])
<1> DEFINE Good(s) == \A S : Len(Sieve(s, S)) = Amount(s, S, [x \in T |-> 1])
           P == {s \in Seq(T) : Good(s)}
<1>1. <<>> \in P
  <2>1. \A X : Amount(<<>>, X, [x \in T |-> 1]) = 0 /\ Sieve(<<>>, X) = <<>>
    BY AmountNothing, SieveEmpty
  <2> QED BY <2>1
<1>2. ASSUME NEW s \in Seq(T), NEW e \in T, s \in P PROVE Append(s, e) \in P
  <2>1. Append(s, e) \in Seq(T) /\ Good(s)
    BY <1>2
  <2>2. IsWeight([x \in T |-> 1], T) /\ [x \in T |-> 1][e] = 1
    BY DEF IsWeight
  <2>3. \A X : Amount(Append(s, e), X, [x \in T |-> 1])
               = Amount(s, X, [x \in T |-> 1]) + (IF e \in X THEN 1 ELSE 0)
    BY <2>2, AmountStep
  <2>4. \A X : Sieve(s, X) \in Seq(T)
    BY SieveFirst
  <2>5. \A X : Len(Append(Sieve(s, X), e)) = Len(Sieve(s, X)) + 1 /\ Len(Sieve(s, X)) \in Nat
    BY <2>4, Appended
  <2>6. \A X : Sieve(Append(s, e), X) = IF e \in X THEN Append(Sieve(s, X), e) ELSE Sieve(s, X)
    BY SieveStep
  <2>7. Good(Append(s, e))
    BY <2>1, <2>3, <2>5, <2>6
  <2> QED BY <2>1, <2>7
<1> HIDE DEF P
<1>3. \A s \in Seq(T) : s \in P
  BY <1>1, <1>2, SequenceInduction
<1> QED BY <1>3 DEF P

(* What a list holds is there at least once.                               *)
LEMMA Occurs ==
  ASSUME NEW T, NEW seq \in Seq(T)
  PROVE  \A x \in T : x \in Elements(seq) <=> Amount(seq, {x}, [y \in T |-> 1]) >= 1
<1> DEFINE Good(s) == \A x \in T : x \in Elements(s) <=> Amount(s, {x}, [y \in T |-> 1]) >= 1
           P == {s \in Seq(T) : Good(s)}
<1>1. <<>> \in P
  <2>1. \A X : Amount(<<>>, X, [y \in T |-> 1]) = 0
    BY AmountNothing
  <2>2. Elements(<<>>) = {}
    BY DEF Elements
  <2> QED BY <2>1, <2>2
<1>2. ASSUME NEW s \in Seq(T), NEW e \in T, s \in P PROVE Append(s, e) \in P
  <2>1. Append(s, e) \in Seq(T) /\ Good(s)
    BY <1>2
  <2>2. IsWeight([y \in T |-> 1], T) /\ [y \in T |-> 1][e] = 1
    BY DEF IsWeight
  <2>3. \A X : Amount(Append(s, e), X, [y \in T |-> 1])
               = Amount(s, X, [y \in T |-> 1]) + (IF e \in X THEN 1 ELSE 0)
    BY <2>2, AmountStep
  <2>4. \A X : Amount(s, X, [y \in T |-> 1]) \in Nat
    BY <2>2, AmountGrows
  <2>5. Elements(Append(s, e)) = Elements(s) \cup {e}
    BY Appended
  <2>6. Good(Append(s, e))
    <3> SUFFICES ASSUME NEW x \in T
                 PROVE  x \in Elements(Append(s, e)) <=> Amount(Append(s, e), {x}, [y \in T |-> 1]) >= 1
      OBVIOUS
    <3>1. x \in Elements(s) <=> Amount(s, {x}, [y \in T |-> 1]) >= 1
      BY <2>1
    <3>2. Amount(s, {x}, [y \in T |-> 1]) \in Nat
      BY <2>4
    <3> QED BY <2>3, <2>5, <3>1, <3>2
  <2> QED BY <2>1, <2>6
<1> HIDE DEF P
<1>3. \A s \in Seq(T) : s \in P
  BY <1>1, <1>2, SequenceInduction
<1> QED BY <1>3 DEF P

(* An element after two lists is one after the second.                     *)
LEMMA ConcatAppend ==
  ASSUME NEW T, NEW first \in Seq(T), NEW s \in Seq(T), NEW e \in T
  PROVE  first \o Append(s, e) = Append(first \o s, e) /\ first \o s \in Seq(T)
<1>1. first \o s \in Seq(T)
  OBVIOUS
<1> DEFINE a == first \o Append(s, e)
           b == Append(first \o s, e)
<1>2. a \in Seq(T) /\ b \in Seq(T) /\ Len(a) = Len(first) + Len(s) + 1 /\ Len(b) = Len(a)
  OBVIOUS
<1>3. ASSUME NEW i \in 1..Len(a) PROVE a[i] = b[i]
  <2>1. Append(s, e) \in Seq(T) /\ Len(Append(s, e)) = Len(s) + 1
    OBVIOUS
  <2>2. CASE i <= Len(first)
    BY <1>2, <2>1, <2>2
  <2>3. CASE i > Len(first) /\ i <= Len(first) + Len(s)
    <3>1. a[i] = Append(s, e)[i - Len(first)] /\ b[i] = (first \o s)[i]
      BY <1>1, <1>2, <2>1, <2>3
    <3>2. i - Len(first) \in 1..Len(s)
      BY <2>3
    <3> QED BY <2>3, <3>1, <3>2
  <2>4. CASE i = Len(first) + Len(s) + 1
    <3>1. a[i] = Append(s, e)[i - Len(first)] /\ i - Len(first) = Len(s) + 1
      BY <1>2, <2>1, <2>4
    <3>2. b[i] = e
      BY <1>1, <2>4
    <3> QED BY <3>1, <3>2
  <2> QED BY <1>2, <2>2, <2>3, <2>4
<1> HIDE DEF a, b
<1>4. a = b
  BY <1>2, <1>3, SameSequence
<1> QED BY <1>1, <1>4 DEF a, b

(* Two lists, one after the other.                                         *)
LEMMA AmountConcat ==
  ASSUME NEW T, NEW seq \in Seq(T), NEW first \in Seq(T), NEW weight, IsWeight(weight, T), NEW S
  PROVE  Amount(first \o seq, S, weight) = Amount(first, S, weight) + Amount(seq, S, weight)
<1> DEFINE Good(s) == Amount(first \o s, S, weight) = Amount(first, S, weight) + Amount(s, S, weight)
           P == {s \in Seq(T) : Good(s)}
<1>1. <<>> \in P
  <2>1. first \o <<>> = first /\ Amount(<<>>, S, weight) = 0 /\ Amount(first, S, weight) \in Nat
    BY AmountNothing, AmountGrows
  <2> QED BY <2>1
<1>2. ASSUME NEW s \in Seq(T), NEW e \in T, s \in P PROVE Append(s, e) \in P
  <2>1. Append(s, e) \in Seq(T) /\ Good(s)
    BY <1>2
  <2>2. first \o Append(s, e) = Append(first \o s, e) /\ first \o s \in Seq(T)
    BY ConcatAppend
  <2>3. \A t \in Seq(T) : Amount(Append(t, e), S, weight) = Amount(t, S, weight) + (IF e \in S THEN weight[e] ELSE 0)
    <3> HIDE DEF P
    <3> TAKE t \in Seq(T)
    <3> QED BY AmountStep
  <2>4. Amount(s, S, weight) \in Nat /\ Amount(first, S, weight) \in Nat /\ weight[e] \in Nat
    BY AmountGrows DEF IsWeight
  <2>5. Amount(first \o Append(s, e), S, weight)
          = Amount(first \o s, S, weight) + (IF e \in S THEN weight[e] ELSE 0)
    BY <2>2, <2>3
  <2>6. Amount(Append(s, e), S, weight) = Amount(s, S, weight) + (IF e \in S THEN weight[e] ELSE 0)
    BY <2>3
  <2>7. Amount(first \o s, S, weight) = Amount(first, S, weight) + Amount(s, S, weight)
    BY <2>1
  <2>8. Good(Append(s, e))
    BY <2>4, <2>5, <2>6, <2>7
  <2> QED BY <2>1, <2>8
<1> HIDE DEF P
<1>3. \A s \in Seq(T) : s \in P
  BY <1>1, <1>2, SequenceInduction
<1> QED BY <1>3 DEF P

-----------------------------------------------------------------------------
(* Lists without repetition.                                               *)
Distinct(seq) == \A i, j \in 1..Len(seq) : seq[i] = seq[j] => i = j

LEMMA DistinctAppend ==
  ASSUME NEW T, NEW s \in Seq(T), NEW e \in T
  PROVE  Distinct(Append(s, e)) <=> Distinct(s) /\ e \notin Elements(s)
<1> DEFINE n == Len(s)
           t == Append(s, e)
<1>1. n \in Nat /\ Len(t) = n + 1 /\ t[n + 1] = e /\ \A i \in 1..n : t[i] = s[i]
  OBVIOUS
<1> HIDE DEF t
<1>2. ASSUME Distinct(t) PROVE Distinct(s) /\ e \notin Elements(s)
  <2>1. \A i, j \in 1..n : i \in 1..(n + 1) /\ j \in 1..(n + 1)
    BY <1>1
  <2>2. Distinct(s)
    BY <1>1, <1>2, <2>1 DEF Distinct
  <2>3. ASSUME NEW i \in 1..n, s[i] = e PROVE FALSE
    <3>1. i \in 1..(n + 1) /\ n + 1 \in 1..(n + 1) /\ i # n + 1
      BY <1>1
    <3> QED BY <1>1, <1>2, <2>3, <3>1 DEF Distinct
  <2> QED BY <2>2, <2>3 DEF Elements
<1>3. ASSUME Distinct(s), e \notin Elements(s) PROVE Distinct(t)
  <2> SUFFICES ASSUME NEW i \in 1..(n + 1), NEW j \in 1..(n + 1), t[i] = t[j] PROVE i = j
    BY <1>1 DEF Distinct
  <2>1. \A k \in 1..n : s[k] # e
    BY <1>3 DEF Elements
  <2>2. (i \in 1..n \/ i = n + 1) /\ (j \in 1..n \/ j = n + 1)
    BY <1>1
  <2> QED BY <1>1, <1>3, <2>1, <2>2 DEF Distinct
<1> QED BY <1>2, <1>3 DEF t

(* How often an element is in a list.                                      *)
Times(seq, x, T) == Amount(seq, {x}, [y \in T |-> 1])

LEMMA DistinctOnce ==
  ASSUME NEW T, NEW seq \in Seq(T)
  PROVE  Distinct(seq) <=> \A x \in T : Times(seq, x, T) <= 1
<1> DEFINE Good(s) == Distinct(s) <=> \A x \in T : Times(s, x, T) <= 1
           P == {s \in Seq(T) : Good(s)}
<1>1. <<>> \in P
  <2>1. \A x \in T : Times(<<>>, x, T) = 0
    BY AmountNothing DEF Times
  <2>2. Distinct(<<>>) /\ <<>> \in Seq(T)
    BY DEF Distinct
  <2> QED BY <2>1, <2>2
<1>2. ASSUME NEW s \in Seq(T), NEW e \in T, s \in P PROVE Append(s, e) \in P
  <2>1. Append(s, e) \in Seq(T) /\ Good(s)
    BY <1>2
  <2>2. IsWeight([y \in T |-> 1], T) /\ [y \in T |-> 1][e] = 1
    BY DEF IsWeight
  <2>3. \A x \in T : Times(Append(s, e), x, T) = Times(s, x, T) + (IF e = x THEN 1 ELSE 0)
    <3> TAKE x \in T
    <3>1. Amount(Append(s, e), {x}, [y \in T |-> 1])
            = Amount(s, {x}, [y \in T |-> 1]) + (IF e \in {x} THEN 1 ELSE 0)
      BY <2>2, AmountStep
    <3> QED BY <3>1 DEF Times
  <2>4. \A x \in T : Times(s, x, T) \in Nat
    BY <2>2, AmountGrows DEF Times
  <2>5. e \in Elements(s) <=> Times(s, e, T) >= 1
    BY Occurs DEF Times
  <2>6. Distinct(Append(s, e)) <=> Distinct(s) /\ e \notin Elements(s)
    BY DistinctAppend
  <2>7. (\A x \in T : Times(Append(s, e), x, T) <= 1)
          <=> (\A x \in T : Times(s, x, T) <= 1) /\ Times(s, e, T) < 1
    BY <2>3, <2>4
  <2> HIDE DEF P
  <2>8. Good(Append(s, e))
    BY <2>1, <2>4, <2>5, <2>6, <2>7
  <2> QED BY <2>1, <2>8 DEF P
<1> HIDE DEF P
<1>3. \A s \in Seq(T) : s \in P
  BY <1>1, <1>2, SequenceInduction
<1> QED BY <1>3 DEF P

(* In such a list an element weighs what it weighs once.                   *)
LEMMA DistinctWeight ==
  ASSUME NEW T, NEW seq \in Seq(T), NEW weight, IsWeight(weight, T), Distinct(seq), NEW x \in T
  PROVE  Amount(seq, {x}, weight) = IF x \in Elements(seq) THEN weight[x] ELSE 0
<1> DEFINE Good(s) == Distinct(s) =>
             Amount(s, {x}, weight) = IF x \in Elements(s) THEN weight[x] ELSE 0
           P == {s \in Seq(T) : Good(s)}
<1>1. <<>> \in P
  <2>1. Amount(<<>>, {x}, weight) = 0 /\ Elements(<<>>) = {}
    BY AmountNothing DEF Elements
  <2> QED BY <2>1
<1>2. ASSUME NEW s \in Seq(T), NEW e \in T, s \in P PROVE Append(s, e) \in P
  <2>1. Append(s, e) \in Seq(T) /\ Good(s)
    BY <1>2
  <2>2. /\ Amount(s, {x}, weight) \in Int
        /\ Amount(Append(s, e), {x}, weight)
             = Amount(s, {x}, weight) + (IF e \in {x} THEN weight[e] ELSE 0)
    BY AmountStep
  <2>3. Elements(Append(s, e)) = Elements(s) \cup {e}
    BY Appended
  <2>4. Distinct(Append(s, e)) <=> Distinct(s) /\ e \notin Elements(s)
    BY DistinctAppend
  <2>5. weight[x] \in Nat
    BY DEF IsWeight
  <2>6. Good(Append(s, e))
    BY <2>1, <2>2, <2>3, <2>4, <2>5
  <2> QED BY <2>1, <2>6
<1> HIDE DEF P
<1>3. \A s \in Seq(T) : s \in P
  BY <1>1, <1>2, SequenceInduction
<1> QED BY <1>3 DEF P

LEMMA WithoutOne ==
  ASSUME NEW T, NEW seq \in Seq(T), NEW weight, IsWeight(weight, T), Distinct(seq),
         NEW S, NEW x \in S, x \in Elements(seq)
  PROVE  Amount(seq, S \ {x}, weight) = Amount(seq, S, weight) - weight[x]
<1>1. x \in T
  BY DEF Elements
<1>2. Amount(seq, S, weight) = Amount(seq, S \cap {x}, weight) + Amount(seq, S \ {x}, weight)
  <2>1. \A A : Amount(seq, S, weight) = Amount(seq, S \cap A, weight) + Amount(seq, S \ A, weight)
    BY AmountSplit
  <2> QED BY <2>1, Zenon
<1>3. S \cap {x} = {x}
  OBVIOUS
<1>4. Amount(seq, {x}, weight) = weight[x]
  BY <1>1, DistinctWeight
<1>5. weight[x] \in Nat /\ Amount(seq, S \ {x}, weight) \in Nat
  BY <1>1, AmountGrows DEF IsWeight
<1>6. Amount(seq, S, weight) = weight[x] + Amount(seq, S \ {x}, weight)
  BY <1>2, <1>3, <1>4, Zenon
<1> DEFINE all == Amount(seq, S, weight)
           rest == Amount(seq, S \ {x}, weight)
           one == weight[x]
<1> HIDE DEF all, rest, one
<1>7. all = one + rest /\ one \in Nat /\ rest \in Nat
  BY <1>5, <1>6 DEF all, rest, one
<1>8. rest = all - one
  BY <1>7
<1> QED BY <1>8 DEF all, rest, one

(* Only what is in the list counts.                                        *)
LEMMA AmountWithin ==
  ASSUME NEW T, NEW seq \in Seq(T), NEW weight, IsWeight(weight, T), NEW S, NEW R,
         S \cap Elements(seq) \subseteq R
  PROVE  /\ Amount(seq, S, weight) <= Amount(seq, R, weight)
         /\ R \cap Elements(seq) \subseteq S => Amount(seq, S, weight) = Amount(seq, R, weight)
<1> DEFINE all == Elements(seq)
<1>1. \A X : Amount(seq, X, weight) = Amount(seq, X \cap all, weight) /\ Amount(seq, X, weight) \in Nat
  <2> TAKE X
  <2>1. Sieve(seq, all) = seq
    BY SieveAll
  <2>2. Amount(Sieve(seq, all), X, weight) = Amount(seq, X \cap all, weight)
    <3> HIDE DEF all
    <3> QED BY SieveAmount
  <2>3. Amount(seq, X, weight) \in Nat
    BY AmountGrows
  <2> QED BY <2>1, <2>2, <2>3
<1>2. all \subseteq T
  BY DEF Elements
<1> HIDE DEF all
<1>3. ASSUME NEW X, NEW Y, X \cap all \subseteq Y PROVE Amount(seq, X, weight) <= Amount(seq, Y, weight)
  <2> DEFINE small == X \cap all
             large == Y \cap all
  <2>1. small \cap T \subseteq large
    BY <1>3
  <2> HIDE DEF small, large
  <2>2. Amount(seq, small, weight) <= Amount(seq, large, weight)
    BY <2>1, AmountGrows
  <2> QED BY <1>1, <2>2 DEF small, large
<1>4. Amount(seq, S, weight) <= Amount(seq, R, weight)
  BY <1>3 DEF all
<1>5. R \cap Elements(seq) \subseteq S => Amount(seq, R, weight) <= Amount(seq, S, weight)
  BY <1>3 DEF all
<1> QED BY <1>1, <1>4, <1>5

(* One list behind another.                                                *)
LEMMA Concatenated ==
  ASSUME NEW T, NEW s \in Seq(T), NEW t \in Seq(T)
  PROVE  /\ s \o t \in Seq(T) /\ Len(s) \in Nat /\ Len(t) \in Nat /\ Len(s \o t) = Len(s) + Len(t)
         /\ \A i \in 1..Len(s) : i \in 1..Len(s \o t) /\ (s \o t)[i] = s[i]
         /\ \A i \in 1..Len(t) : Len(s) + i \in 1..Len(s \o t) /\ (s \o t)[Len(s) + i] = t[i]
<1>1. s \o t \in Seq(T) /\ Len(s) \in Nat /\ Len(t) \in Nat /\ Len(s \o t) = Len(s) + Len(t)
  OBVIOUS
<1>2. \A i \in 1..Len(s) : i \in 1..Len(s \o t) /\ (s \o t)[i] = s[i]
  OBVIOUS
<1>3. \A i \in 1..Len(t) : Len(s) + i \in 1..Len(s \o t)
  BY <1>1
<1>4. ASSUME NEW i \in 1..Len(t) PROVE (s \o t)[Len(s) + i] = t[i]
  <2>1. (Len(s) + i) - Len(s) = i /\ Len(s) + i > Len(s) /\ Len(s) + i \in 1..(Len(s) + Len(t))
    BY <1>1
  <2> QED BY <1>1, <2>1
<1> QED BY <1>1, <1>2, <1>3, <1>4

\* The same under a name, r for the whole.
Joined(s, t, r) ==
  /\ DOMAIN r = 1..Len(r) /\ Len(r) = Len(s) + Len(t)
  /\ \A i \in 1..Len(s) : i \in 1..Len(r) /\ r[i] = s[i]
  /\ \A i \in 1..Len(t) : Len(s) + i \in 1..Len(r) /\ r[Len(s) + i] = t[i]

LEMMA JoinedConcat ==
  ASSUME NEW T, NEW s \in Seq(T), NEW t \in Seq(T)
  PROVE  s \o t \in Seq(T) /\ Joined(s, t, s \o t)
BY Concatenated DEF Joined

(* What is left of a list behind its first m elements.                     *)
LEMMA Behind ==
  ASSUME NEW T, NEW s \in Seq(T), NEW m \in Nat, m <= Len(s)
  PROVE  LET left == SubSeq(s, m + 1, Len(s))
         IN  /\ left \in Seq(T) /\ Len(left) = Len(s) - m
             /\ \A k \in 1..Len(left) : m + k \in 1..Len(s) /\ left[k] = s[m + k]
<1> DEFINE left == SubSeq(s, m + 1, Len(s))
<1>1. left \in Seq(T) /\ Len(left) = Len(s) - m /\ Len(s) \in Nat
  OBVIOUS
<1>2. ASSUME NEW k \in 1..Len(left) PROVE m + k \in 1..Len(s) /\ left[k] = s[m + k]
  <2>1. k \in 1..(Len(s) - (m + 1) + 1) /\ m + k \in 1..Len(s) /\ (m + 1) + k - 1 = m + k
    BY <1>1
  <2> QED BY <2>1
<1> HIDE DEF left
<1> QED BY <1>1, <1>2 DEF left

(* A list is its front and its back.                                       *)
LEMMA Parts ==
  ASSUME NEW T, NEW s \in Seq(T), NEW m \in Nat, m <= Len(s)
  PROVE  /\ SubSeq(s, 1, m) \in Seq(T) /\ SubSeq(s, m + 1, Len(s)) \in Seq(T)
         /\ SubSeq(s, 1, m) \o SubSeq(s, m + 1, Len(s)) = s
<1> DEFINE front == SubSeq(s, 1, m)
           back == SubSeq(s, m + 1, Len(s))
           both == front \o back
<1>1. front \in Seq(T) /\ Len(front) = m /\ \A i \in 1..m : front[i] = s[i]
  OBVIOUS
<1>2. back \in Seq(T) /\ Len(back) = Len(s) - m /\ \A k \in 1..Len(back) : back[k] = s[m + k]
  BY Behind
<1> HIDE DEF front, back
<1>3. /\ both \in Seq(T) /\ Len(both) = Len(front) + Len(back)
      /\ \A i \in 1..Len(front) : both[i] = front[i]
      /\ \A i \in 1..Len(back) : both[Len(front) + i] = back[i]
  <2>1. both \in Seq(T) /\ Joined(front, back, both)
    BY <1>1, <1>2, JoinedConcat
  <2> HIDE DEF both
  <2> QED BY <2>1 DEF Joined
<1>4. Len(both) = Len(s) /\ Len(s) \in Nat
  BY <1>1, <1>2, <1>3
<1> HIDE DEF both
<1>5. ASSUME NEW i \in 1..Len(both) PROVE both[i] = s[i]
  <2>1. CASE i <= m
    BY <1>1, <1>3, <1>4, <2>1
  <2>2. CASE i > m
    <3>1. i - m \in 1..Len(back) /\ m + (i - m) = i
      BY <1>2, <1>4, <2>2
    <3>2. both[m + (i - m)] = back[i - m] /\ back[i - m] = s[m + (i - m)]
      BY <1>1, <1>2, <1>3, <3>1
    <3> QED BY <3>1, <3>2
  <2> QED BY <1>4, <2>1, <2>2
<1>6. both = s
  BY <1>3, <1>4, <1>5, SameSequence
<1> QED BY <1>1, <1>2, <1>6 DEF front, back, both

(* The back of two lists is a back of the second.                          *)
LEMMA BackOfConcat ==
  ASSUME NEW T, NEW a \in Seq(T), NEW b \in Seq(T), NEW k \in 1..Len(b)
  PROVE  SubSeq(a \o b, Len(a) + k, Len(a \o b)) = SubSeq(b, k, Len(b))
<1> DEFINE both == a \o b
           left == SubSeq(both, Len(a) + k, Len(both))
           right == SubSeq(b, k, Len(b))
<1>1. /\ both \in Seq(T) /\ Len(both) = Len(a) + Len(b) /\ Len(a) \in Nat /\ Len(b) \in Nat
      /\ \A i \in 1..Len(b) : both[Len(a) + i] = b[i]
  <2>1. both \in Seq(T) /\ Joined(a, b, both)
    BY JoinedConcat
  <2> HIDE DEF both
  <2> QED BY <2>1 DEF Joined
<1> HIDE DEF both
<1>2. k - 1 \in Nat /\ k - 1 <= Len(b) /\ (k - 1) + 1 = k
  BY <1>1
<1>3. Len(a) + (k - 1) \in Nat /\ Len(a) + (k - 1) <= Len(both) /\ (Len(a) + (k - 1)) + 1 = Len(a) + k
  BY <1>1, <1>2
<1>4. right \in Seq(T) /\ Len(right) = Len(b) - (k - 1) /\ \A i \in 1..Len(right) : right[i] = b[(k - 1) + i]
  BY <1>2, Behind
<1>5. /\ left \in Seq(T) /\ Len(left) = Len(both) - (Len(a) + (k - 1))
      /\ \A i \in 1..Len(left) : left[i] = both[(Len(a) + (k - 1)) + i]
  <2> DEFINE m == Len(a) + (k - 1)
  <2>1. left = SubSeq(both, m + 1, Len(both)) /\ m \in Nat /\ m <= Len(both)
    BY <1>3
  <2> HIDE DEF m
  <2>2. LET back == SubSeq(both, m + 1, Len(both))
        IN  /\ back \in Seq(T) /\ Len(back) = Len(both) - m
            /\ \A i \in 1..Len(back) : m + i \in 1..Len(both) /\ back[i] = both[m + i]
    BY <1>1, <2>1, Behind
  <2> HIDE DEF left
  <2>3. left \in Seq(T) /\ Len(left) = Len(both) - m /\ \A i \in 1..Len(left) : left[i] = both[m + i]
    BY <2>1, <2>2
  <2> QED BY <2>3 DEF m
<1> HIDE DEF left, right
<1>6. Len(left) = Len(right)
  BY <1>1, <1>4, <1>5
<1>7. ASSUME NEW i \in 1..Len(left) PROVE left[i] = right[i]
  <2> DEFINE d == k - 1
  <2>1. d \in Nat /\ d <= Len(b) /\ Len(a) \in Nat /\ Len(b) \in Nat
    BY <1>1, <1>2
  <2>2. Len(left) = Len(b) - d
    BY <1>4, <1>6
  <2> HIDE DEF d
  <2>3. d + i \in 1..Len(b) /\ (Len(a) + d) + i = Len(a) + (d + i)
    BY <2>1, <2>2
  <2>4. both[Len(a) + (d + i)] = b[d + i]
    BY <1>1, <2>3
  <2>5. left[i] = both[(Len(a) + d) + i]
    BY <1>5 DEF d
  <2>6. right[i] = b[d + i]
    BY <1>4, <1>6 DEF d
  <2> QED BY <2>3, <2>4, <2>5, <2>6
<1>8. left = right
  BY <1>4, <1>5, <1>6, <1>7, SameSequence
<1> QED BY <1>8 DEF both, left, right

(* What two lists hold, and three lists, one behind the other.             *)
LEMMA ElementsConcat ==
  ASSUME NEW T, NEW a \in Seq(T), NEW b \in Seq(T)
  PROVE  Elements(a \o b) = Elements(a) \cup Elements(b)
<1> DEFINE both == a \o b
<1>1. /\ Len(both) = Len(a) + Len(b) /\ Len(a) \in Nat /\ Len(b) \in Nat
      /\ \A i \in 1..Len(a) : i \in 1..Len(both) /\ both[i] = a[i]
      /\ \A i \in 1..Len(b) : Len(a) + i \in 1..Len(both) /\ both[Len(a) + i] = b[i]
  <2>1. both \in Seq(T) /\ Joined(a, b, both)
    BY JoinedConcat
  <2> HIDE DEF both
  <2> QED BY <2>1 DEF Joined
<1> HIDE DEF both
<1>2. Elements(a) \cup Elements(b) \subseteq Elements(both)
  BY <1>1 DEF Elements
<1>3. ASSUME NEW i \in 1..Len(both) PROVE both[i] \in Elements(a) \cup Elements(b)
  <2>1. CASE i <= Len(a)
    BY <1>1, <2>1 DEF Elements
  <2>2. CASE i > Len(a)
    <3>1. i - Len(a) \in 1..Len(b) /\ Len(a) + (i - Len(a)) = i
      BY <1>1, <2>2
    <3>2. both[Len(a) + (i - Len(a))] = b[i - Len(a)]
      BY <1>1, <3>1
    <3> QED BY <3>1, <3>2 DEF Elements
  <2> QED BY <1>1, <2>1, <2>2
<1>4. Elements(both) \subseteq Elements(a) \cup Elements(b)
  BY <1>3 DEF Elements
<1> QED BY <1>2, <1>4 DEF both

LEMMA ConcatThree ==
  ASSUME NEW T, NEW a \in Seq(T), NEW b \in Seq(T)
  PROVE  \A c \in Seq(T) : (a \o b) \o c = a \o (b \o c)
<1> DEFINE P == {c \in Seq(T) : (a \o b) \o c = a \o (b \o c)}
<1>1. a \o b \in Seq(T)
  BY Concatenated
<1>2. <<>> \in P
  <2>1. (a \o b) \o <<>> = a \o b /\ b \o <<>> = b
    BY <1>1
  <2> QED BY <2>1
<1>3. ASSUME NEW s \in Seq(T), NEW e \in T, s \in P PROVE Append(s, e) \in P
  <2>1. Append(s, e) \in Seq(T) /\ (a \o b) \o s = a \o (b \o s)
    BY <1>3
  <2>2. \A x \in Seq(T), y \in Seq(T) : x \o Append(y, e) = Append(x \o y, e) /\ x \o y \in Seq(T)
    <3> TAKE x \in Seq(T), y \in Seq(T)
    <3> QED BY ConcatAppend
  <2>3. (a \o b) \o Append(s, e) = Append((a \o b) \o s, e)
    BY <1>1, <2>2
  <2>4. b \o Append(s, e) = Append(b \o s, e) /\ b \o s \in Seq(T)
    BY <2>2
  <2>5. a \o Append(b \o s, e) = Append(a \o (b \o s), e)
    BY <2>2, <2>4
  <2> QED BY <2>1, <2>3, <2>4, <2>5
<1> HIDE DEF P
<1>4. \A s \in Seq(T) : s \in P
  BY <1>2, <1>3, SequenceInduction
<1> QED BY <1>4 DEF P
=============================================================================
