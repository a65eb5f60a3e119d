-------------------------- MODULE Requests_proofs --------------------------
(* Proofs about Requests, and the Metrics and UsageStats it is made of, for  *)
(* any number of updates, names and users and a ring buffer of any size.    *)
EXTENDS Requests, FiniteSetTheorems, TLAPS

-----------------------------------------------------------------------------
(* Induction over the subsets of a finite set, with a set of sets for the    *)
(* predicate.                                                               *)

LEMMA Smaller ==
  ASSUME NEW S, NEW A \in SUBSET S, NEW B \in SUBSET S, B \subseteq A, B # A
  PROVE  <<B, A>> \in StrictSubsetOrdering(S)
BY DEF StrictSubsetOrdering

LEMMA SubsetInduction ==
  ASSUME NEW S, IsFiniteSet(S), NEW P,
         \A A \in SUBSET S : (\A B \in SUBSET A : B # A => B \in P) => A \in P
  PROVE  SUBSET S \subseteq P
<1> DEFINE T == (SUBSET S) \ P
<1> SUFFICES ASSUME T # {} PROVE FALSE OBVIOUS
<1>1. IsWellFoundedOn(StrictSubsetOrdering(S), SUBSET S)
  <2>1. FiniteSubsetsOf(S) = SUBSET S BY FS_FiniteSubsetsOfFinite
  <2>2. IsWellFoundedOn(StrictSubsetOrdering(S), FiniteSubsetsOf(S))
    BY FS_StrictSubsetOrderingWellFounded
  <2> QED BY <2>1, <2>2
<1>2. T \subseteq SUBSET S OBVIOUS
<1>3. PICK A \in T : \A B \in T : ~ (<<B, A>> \in StrictSubsetOrdering(S))
  <2> HIDE DEF T
  <2> QED BY <1>1, <1>2, WFMin
<1>4. ASSUME NEW B \in SUBSET A, B # A PROVE B \in P
  <2>1. A \in SUBSET S /\ A \notin P OBVIOUS
  <2>2. B \subseteq A /\ B \in SUBSET S BY <1>4, <2>1
  <2>3. <<B, A>> \in StrictSubsetOrdering(S) BY <1>4, <2>1, <2>2, Smaller
  <2>4. B \notin T BY <1>3, <2>3
  <2> QED BY <2>2, <2>4
<1> QED BY <1>3, <1>4

LEMMA GrowingInduction ==
  ASSUME NEW S, IsFiniteSet(S), NEW P, {} \in P,
         \A A \in SUBSET S : \A x \in S \ A : A \in P => A \cup {x} \in P
  PROVE  S \in P
<1>1. ASSUME NEW A \in SUBSET S, \A B \in SUBSET A : B # A => B \in P
      PROVE  A \in P
  <2>1. CASE A = {} BY <2>1
  <2>2. CASE A # {}
    <3>1. PICK x \in A : TRUE BY <2>2
    <3>2. A \ {x} \in P BY <1>1, <3>1
    <3>3. (A \ {x}) \cup {x} = A /\ x \in S \ (A \ {x}) BY <3>1
    <3> QED BY <3>2, <3>3
  <2> QED BY <2>1, <2>2
<1>2. SUBSET S \subseteq P BY <1>1, SubsetInduction
<1> QED BY <1>2

-----------------------------------------------------------------------------
(* Sums                                                                     *)

Some(s) == CHOOSE x \in s : TRUE

Sums(f, S, g) ==
  g = [s \in SUBSET S |-> IF s = {} THEN 0 ELSE f[Some(s)] + g[s \ {Some(s)}]]

LEMMA SomeIn == ASSUME NEW s, s # {} PROVE Some(s) \in s
BY DEF Some

LEMMA SumIsChosen ==
  ASSUME NEW f, NEW S
  PROVE  SumFunctionOnSet(f, S) = (CHOOSE g : Sums(f, S, g))[S]
BY DEF SumFunctionOnSet, FoldFunctionOnSet, MapThenFoldSet, Sums, Some

LEMMA SumsUnfold ==
  ASSUME NEW f, NEW S, NEW g, Sums(f, S, g), NEW s \in SUBSET S
  PROVE  g[s] = IF s = {} THEN 0 ELSE f[Some(s)] + g[s \ {Some(s)}]
BY DEF Sums

LEMMA SumsUnique ==
  ASSUME NEW f, NEW S, NEW R, NEW g, NEW h, IsFiniteSet(S),
         Sums(f, S, g), Sums(f, R, h)
  PROVE  \A s \in SUBSET S : s \in SUBSET R => g[s] = h[s]
<1> DEFINE P == {s \in SUBSET S : s \in SUBSET R => g[s] = h[s]}
<1>1. ASSUME NEW A \in SUBSET S, \A B \in SUBSET A : B # A => B \in P
      PROVE  A \in P
  <2> SUFFICES ASSUME A \in SUBSET R PROVE g[A] = h[A] OBVIOUS
  <2>1. /\ g[A] = IF A = {} THEN 0 ELSE f[Some(A)] + g[A \ {Some(A)}]
        /\ h[A] = IF A = {} THEN 0 ELSE f[Some(A)] + h[A \ {Some(A)}]
    BY SumsUnfold
  <2>2. A # {} => g[A \ {Some(A)}] = h[A \ {Some(A)}] BY <1>1, SomeIn
  <2> QED BY <2>1, <2>2
<1> HIDE DEF P
<1>2. SUBSET S \subseteq P BY <1>1, SubsetInduction
<1> QED BY <1>2 DEF P

LEMMA SumsExist ==
  ASSUME NEW f, NEW S, IsFiniteSet(S)
  PROVE  \A A \in SUBSET S : \E g : Sums(f, A, g)
<1> DEFINE P == {A \in SUBSET S : \E g : Sums(f, A, g)}
<1>1. ASSUME NEW A \in SUBSET S, \A B \in SUBSET A : B # A => B \in P
      PROVE  A \in P
  <2> DEFINE h(B) == CHOOSE g : Sums(f, B, g)
             g == [s \in SUBSET A |->
                     IF s = {} THEN 0
                     ELSE f[Some(s)] + h(s \ {Some(s)})[s \ {Some(s)}]]
  <2>1. ASSUME NEW B \in SUBSET A, B # A PROVE Sums(f, B, h(B))
    BY <1>1, <2>1
  <2>2. ASSUME NEW s \in SUBSET A
        PROVE  g[s] = IF s = {} THEN 0 ELSE f[Some(s)] + g[s \ {Some(s)}]
    <3> DEFINE t == s \ {Some(s)}
    <3>1. CASE s = {} BY <3>1
    <3>2. CASE s # {}
      <4>1. Some(s) \in s /\ t \in SUBSET A /\ t # A BY <3>2, SomeIn
      <4>2. Sums(f, t, h(t)) BY <2>1, <4>1
      <4>3. g[s] = f[Some(s)] + h(t)[t] BY <3>2
      <4>4. g[t] = h(t)[t]
        <5>1. h(t)[t] = IF t = {} THEN 0 ELSE f[Some(t)] + h(t)[t \ {Some(t)}]
          <6> HIDE DEF t, h
          <6> QED BY <4>2, SumsUnfold
        <5>2. CASE t = {}
          <6>1. g[t] = 0 BY <4>1, <5>2
          <6> QED BY <5>1, <5>2, <6>1
        <5>3. CASE t # {}
          <6> DEFINE u == t \ {Some(t)}
          <6>1. u \in SUBSET A /\ u # A /\ u \in SUBSET t BY <4>1
          <6>2. Sums(f, u, h(u)) BY <2>1, <6>1
          <6>3. g[t] = f[Some(t)] + h(u)[u] BY <4>1, <5>3
          <6>4. IsFiniteSet(u) BY <6>1, FS_Subset
          <6>5. h(u)[u] = h(t)[u]
            <7> HIDE DEF t, u, h
            <7> QED BY <4>2, <6>1, <6>2, <6>4, SumsUnique
          <6> QED BY <5>1, <5>3, <6>3, <6>5
        <5> QED BY <5>2, <5>3
      <4> QED BY <3>2, <4>3, <4>4
    <3> QED BY <3>1, <3>2
  <2>3. Sums(f, A, g)
    <3>1. g = [s \in SUBSET A |-> g[s]] OBVIOUS
    <3> HIDE DEF g
    <3> QED BY <2>2, <3>1 DEF Sums
  <2> QED BY <2>3
<1> HIDE DEF P
<1>2. SUBSET S \subseteq P BY <1>1, SubsetInduction
<1> QED BY <1>2 DEF P

LEMMA SumOfNone == ASSUME NEW f PROVE SumFunctionOnSet(f, {}) = 0
<1>1. \E g : Sums(f, {}, g) BY SumsExist, FS_EmptySet
<1>2. Sums(f, {}, CHOOSE g : Sums(f, {}, g)) BY <1>1
<1> QED BY <1>2, SumIsChosen, SumsUnfold

LEMMA SumOfSome ==
  ASSUME NEW f, NEW S, IsFiniteSet(S), S # {}
  PROVE  SumFunctionOnSet(f, S) = f[Some(S)] + SumFunctionOnSet(f, S \ {Some(S)})
<1> DEFINE R == S \ {Some(S)}
           g == CHOOSE g : Sums(f, S, g)
           h == CHOOSE h : Sums(f, R, h)
<1>1. Sums(f, S, g) BY SumsExist
<1>2. IsFiniteSet(R) BY FS_Subset
<1>3. Sums(f, R, h)
  <2> HIDE DEF R
  <2> QED BY <1>2, SumsExist
<1>4. SumFunctionOnSet(f, S) = g[S] /\ SumFunctionOnSet(f, R) = h[R] BY SumIsChosen
<1> HIDE DEF g, h
<1>5. g[S] = f[Some(S)] + g[R] BY <1>1, SumsUnfold
<1>6. g[R] = h[R] BY <1>1, <1>3, SumsUnique
<1> QED BY <1>4, <1>5, <1>6

LEMMA SumType ==
  ASSUME NEW f, NEW S, IsFiniteSet(S), \A s \in S : f[s] \in Nat
  PROVE  SumFunctionOnSet(f, S) \in Nat
<1> DEFINE P == {A \in SUBSET S : SumFunctionOnSet(f, A) \in Nat}
<1>1. ASSUME NEW A \in SUBSET S, \A B \in SUBSET A : B # A => B \in P
      PROVE  A \in P
  <2>1. CASE A = {} BY <2>1, SumOfNone
  <2>2. CASE A # {}
    <3>1. Some(A) \in A BY <2>2, SomeIn
    <3>2. IsFiniteSet(A) BY FS_Subset
    <3>3. SumFunctionOnSet(f, A) = f[Some(A)] + SumFunctionOnSet(f, A \ {Some(A)})
      BY <2>2, <3>2, SumOfSome
    <3>4. A \ {Some(A)} \in P BY <1>1, <3>1
    <3> QED BY <3>1, <3>3, <3>4
  <2> QED BY <2>1, <2>2
<1> HIDE DEF P
<1>2. SUBSET S \subseteq P BY <1>1, SubsetInduction
<1> QED BY <1>2 DEF P

(* Any member of the set may be taken out first.                            *)
LEMMA SumRemove ==
  ASSUME NEW f, NEW S, IsFiniteSet(S), \A s \in S : f[s] \in Nat
  PROVE  \A y \in S : SumFunctionOnSet(f, S) = f[y] + SumFunctionOnSet(f, S \ {y})
<1> DEFINE Sum(A) == SumFunctionOnSet(f, A)
           P == {A \in SUBSET S : \A y \in A : Sum(A) = f[y] + Sum(A \ {y})}
<1>1. ASSUME NEW A \in SUBSET S, \A B \in SUBSET A : B # A => B \in P
      PROVE  A \in P
  <2> SUFFICES ASSUME NEW y \in A PROVE Sum(A) = f[y] + Sum(A \ {y}) OBVIOUS
  <2> DEFINE x == Some(A)
  <2>1. x \in A BY SomeIn
  <2>2. IsFiniteSet(A) BY FS_Subset
  <2>3. Sum(A) = f[x] + Sum(A \ {x}) BY <2>2, SumOfSome
  <2>4. CASE y = x BY <2>3, <2>4
  <2>5. CASE y # x
    <3> DEFINE C == (A \ {x}) \ {y}
    <3>1. A \ {x} \in P /\ A \ {y} \in P BY <1>1, <2>1
    <3>2. y \in A \ {x} /\ x \in A \ {y} BY <2>1, <2>5
    <3>3. (A \ {y}) \ {x} = C OBVIOUS
    <3>4. Sum(A \ {x}) = f[y] + Sum(C) BY <3>1, <3>2
    <3>5. Sum(A \ {y}) = f[x] + Sum(C) BY <3>1, <3>2, <3>3
    <3>6. Sum(C) \in Nat
      <4>1. IsFiniteSet(C) BY <2>2, FS_Subset
      <4> QED BY <4>1, SumType
    <3>7. f[x] \in Nat /\ f[y] \in Nat BY <2>1
    <3> HIDE DEF Sum, C, x, P
    <3> QED BY <2>3, <3>4, <3>5, <3>6, <3>7
  <2> QED BY <2>4, <2>5
<1> HIDE DEF P
<1>2. SUBSET S \subseteq P BY <1>1, SubsetInduction
<1> QED BY <1>2 DEF P

LEMMA SumAdd ==
  ASSUME NEW f, NEW S, IsFiniteSet(S), NEW x, x \notin S,
         f[x] \in Nat, \A s \in S : f[s] \in Nat
  PROVE  SumFunctionOnSet(f, S \cup {x}) = f[x] + SumFunctionOnSet(f, S)
<1>1. IsFiniteSet(S \cup {x}) BY FS_AddElement
<1>2. (S \cup {x}) \ {x} = S OBVIOUS
<1>3. \A s \in S \cup {x} : f[s] \in Nat OBVIOUS
<1> QED BY <1>1, <1>2, <1>3, SumRemove

LEMMA SumSame ==
  ASSUME NEW f, NEW h, NEW S, IsFiniteSet(S), \A s \in S : f[s] = h[s]
  PROVE  SumFunctionOnSet(f, S) = SumFunctionOnSet(h, S)
<1> DEFINE P == {A \in SUBSET S : SumFunctionOnSet(f, A) = SumFunctionOnSet(h, A)}
<1>1. ASSUME NEW A \in SUBSET S, \A B \in SUBSET A : B # A => B \in P
      PROVE  A \in P
  <2>1. CASE A = {} BY <2>1, SumOfNone
  <2>2. CASE A # {}
    <3>1. Some(A) \in A BY <2>2, SomeIn
    <3>2. IsFiniteSet(A) BY FS_Subset
    <3>3. /\ SumFunctionOnSet(f, A) = f[Some(A)] + SumFunctionOnSet(f, A \ {Some(A)})
          /\ SumFunctionOnSet(h, A) = h[Some(A)] + SumFunctionOnSet(h, A \ {Some(A)})
      BY <2>2, <3>2, SumOfSome
    <3>4. A \ {Some(A)} \in P BY <1>1, <3>1
    <3> QED BY <3>1, <3>3, <3>4
  <2> QED BY <2>1, <2>2
<1> HIDE DEF P
<1>2. SUBSET S \subseteq P BY <1>1, SubsetInduction
<1> QED BY <1>2 DEF P

LEMMA CardinalityApart ==
  ASSUME NEW A, NEW B, IsFiniteSet(A), IsFiniteSet(B), A \cap B = {}
  PROVE  Cardinality(A \cup B) = Cardinality(A) + Cardinality(B)
<1>1. Cardinality(A \cup B)
        = Cardinality(A) + Cardinality(B) - Cardinality(A \cap B)
  BY FS_Union
<1>2. Cardinality(A \cap B) = 0 BY FS_EmptySet
<1>3. Cardinality(A) \in Nat /\ Cardinality(B) \in Nat BY FS_CardinalityType
<1> QED BY <1>1, <1>2, <1>3

(* The classes of a finite set add up to it.                                *)
LEMMA SumOfClasses ==
  ASSUME NEW R, IsFiniteSet(R), NEW N, IsFiniteSet(N), NEW f, NEW k,
         \A n \in N : f[n] = Cardinality({g \in R : k[g] = n}),
         \A g \in R : k[g] \in N
  PROVE  SumFunctionOnSet(f, N) = Cardinality(R)
<1> DEFINE Of(A) == {g \in R : k[g] \in A}
           P == {A \in SUBSET N : SumFunctionOnSet(f, A) = Cardinality(Of(A))}
<1>1. \A n \in N : f[n] \in Nat
  <2> SUFFICES ASSUME NEW n \in N PROVE f[n] \in Nat OBVIOUS
  <2>1. IsFiniteSet({g \in R : k[g] = n}) BY FS_Subset
  <2> QED BY <2>1, FS_CardinalityType
<1>2. {} \in P
  <2>1. Of({}) = {} OBVIOUS
  <2>2. Cardinality(Of({})) = 0 BY <2>1, FS_EmptySet
  <2>3. SumFunctionOnSet(f, {}) = 0 BY SumOfNone
  <2> HIDE DEF Of
  <2> QED BY <2>2, <2>3
<1>3. ASSUME NEW A \in SUBSET N, NEW x \in N \ A, A \in P PROVE A \cup {x} \in P
  <2> DEFINE Z == {g \in R : k[g] = x}
  <2>1. IsFiniteSet(A) /\ IsFiniteSet(Of(A)) /\ IsFiniteSet(Z) BY FS_Subset
  <2>2. SumFunctionOnSet(f, A \cup {x}) = f[x] + SumFunctionOnSet(f, A)
    BY <1>1, <2>1, SumAdd
  <2>3. Of(A \cup {x}) = Of(A) \cup Z /\ Of(A) \cap Z = {} BY <1>3
  <2>4. Cardinality(Of(A \cup {x})) = Cardinality(Of(A)) + Cardinality(Z)
    <3> HIDE DEF Of, Z
    <3>1. Cardinality(Of(A) \cup Z) = Cardinality(Of(A)) + Cardinality(Z)
      BY <2>1, <2>3, CardinalityApart
    <3> QED BY <2>3, <3>1
  <2>5. f[x] = Cardinality(Z) OBVIOUS
  <2>6. Cardinality(Of(A)) \in Nat /\ Cardinality(Z) \in Nat
    BY <2>1, FS_CardinalityType
  <2>7. SumFunctionOnSet(f, A) = Cardinality(Of(A)) BY <1>3
  <2> HIDE DEF Of, Z
  <2> QED BY <2>2, <2>4, <2>5, <2>6, <2>7
<1> HIDE DEF P
<1>4. N \in P BY <1>2, <1>3, GrowingInduction
<1>5. Of(N) = R OBVIOUS
<1> QED BY <1>4, <1>5 DEF P

LEMMA SumOfFunction ==
  ASSUME NEW f PROVE SumFunction(f) = SumFunctionOnSet(f, DOMAIN f)
BY DEF SumFunction

-----------------------------------------------------------------------------
(* The counters                                                             *)

Ended == {"recorded", "event", "done"}

Recorded(n) == {g \in Updates : name[g] = n /\ pc[g] \in Ended}
Requested == {g \in Updates : Counted(g)}
Denied == {g \in Updates : pc[g] = "done" /\ name[g] = None}

MetricsTo(t) ==
  [total : Nat, denied : Nat, counterOf : [Names -> Updates \cup {None}],
   counted : [Updates -> Nat], times : [0..Size - 1 -> Never..t],
   pos : 0..Size - 1]

Typed ==
  /\ now \in Nat
  /\ pc \in [Updates -> Labels]
  /\ name \in [Updates -> Names \cup {None}]
  /\ stamp \in [Updates -> 0..now]
  /\ held \in [Updates -> Updates \cup {None}]
  /\ metrics \in MetricsTo(now)
  /\ added \in Seq(Nat)
  /\ reader \in
       [at : {"idle", "rate", "range", "taken"}, now : Nat, total : Nat, rate : 0..Size,
        denied : Nat, counts : [Names -> Nat], pending : SUBSET Names, before : SUBSET Updates]

(* A goroutine has the name of its request from the grant on.               *)
Named ==
  \A g \in Updates :
    /\ pc[g] \in {"new", "gone"} => name[g] = None
    /\ pc[g] \in {"total", "recorded", "event"} \cup Inside => name[g] # None

(* A counter belongs to one name, that of the goroutine that has stored it, *)
(* and stays; one that was not stored was never added to.                   *)
CountersOwned ==
  /\ \A n \in Names : metrics.counterOf[n] # None => name[metrics.counterOf[n]] = n
  /\ \A g \in Updates :
       (\A n \in Names : metrics.counterOf[n] # g) => metrics.counted[g] = 0
  /\ \A g \in Updates :
       pc[g] = "count" => held[g] # None /\ held[g] = metrics.counterOf[name[g]]

CountsRight ==
  /\ metrics.total = Cardinality(Requested)
  /\ metrics.denied = Cardinality(Denied)
  /\ \A n \in Names : Count(n) = Cardinality(Recorded(n))

(* The place in added of what slot i holds, below 1 where it holds nothing. *)
PlaceIn(l, p, i) == IF i < p THEN l - p + i + 1 ELSE l - p - Size + i + 1

Place(i) == PlaceIn(Len(added), metrics.pos, i)

RingRight ==
  \A i \in 0..Size - 1 :
    metrics.times[i] = IF Place(i) >= 1 THEN added[Place(i)] ELSE Never

(* What the Snapshot that is being taken relies on.                         *)
Reading ==
  /\ reader.total <= metrics.total
  /\ Cardinality(reader.before) <= reader.total
  /\ \A g \in reader.before : name[g] # None /\ pc[g] \in Ended
  /\ \A n \in Names : reader.counts[n] <= Count(n)
  /\ reader.at \in {"range", "taken"} =>
       \A n \in Names \ reader.pending :
         Cardinality({g \in reader.before : name[g] = n}) <= reader.counts[n]
  /\ reader.at = "taken" => reader.pending = {}

MInv == Typed /\ Named /\ CountersOwned /\ CountsRight /\ RingRight /\ Reading

-----------------------------------------------------------------------------
(* The statistics                                                           *)

Stored ==
  /\ salt \in Salts
  /\ row \in [Updates -> Rows \cup {NoRow}]
  /\ \A g \in Updates : pc[g] = "event" =>
       /\ row[g] \in Rows /\ row[g].day <= now
       /\ salt = Given => row[g].user[1] = Given
  /\ IsFiniteSet(DOMAIN db)
  /\ \A r \in DOMAIN db :
       /\ r \in Rows /\ db[r] \in Nat \ {0} /\ r.day <= now
       /\ salt = Given => r.user[1] = Given

Executed ==
  /\ SumOf(DOMAIN db) = executed.n
  /\ executed.users = {r.user[2] : r \in DOMAIN db}

(* The days of the report, against the database as it is or the totals.     *)
DaysBelow(daily, since, to, users, downloads) ==
  /\ IsFiniteSet(daily)
  /\ \A d \in daily :
       d.day \in since..to /\ d.downloads \in Nat /\ d.users \in Nat /\ d.users <= users
  /\ \A d, e \in daily : d.day = e.day => d = e
  /\ SumFunction([d \in daily |-> d.downloads]) <= downloads

Reported ==
  /\ query \in {"idle", "daily", "totals", "made"}
  /\ report = [since |-> report.since, daily |-> report.daily,
               users |-> report.users, downloads |-> report.downloads]
  /\ query # "idle" => report.since \in Int /\ report.since <= now
  /\ query = "totals" =>
       DaysBelow(report.daily, report.since, now,
                 UsersOf(DOMAIN db), Downloads(DOMAIN db))
  /\ query = "made" =>
       /\ report.users \in Nat /\ report.downloads \in Nat
       /\ DaysBelow(report.daily, report.since, now, report.users, report.downloads)

SInv == Stored /\ Executed /\ Reported

Inv == MInv /\ SInv

-----------------------------------------------------------------------------
(* RecordRequest and RecordRateDenied preserve MInv                         *)

LEMMA MetricsFields ==
  ASSUME NEW t, NEW m \in MetricsTo(t)
  PROVE  /\ m.total \in Nat /\ m.denied \in Nat /\ m.pos \in 0..Size - 1
         /\ m.counterOf \in [Names -> Updates \cup {None}]
         /\ m.counted \in [Updates -> Nat]
         /\ m.times \in [0..Size - 1 -> Never..t]
BY DEF MetricsTo

LEMMA MetricsChange ==
  ASSUME NEW t, NEW m \in MetricsTo(t), NEW k \in Nat
  PROVE  /\ [m EXCEPT !.total = k] \in MetricsTo(t)
         /\ [m EXCEPT !.denied = k] \in MetricsTo(t)
         /\ \A u \in Updates : [m EXCEPT !.counted[u] = k] \in MetricsTo(t)
         /\ \A n \in Names, u \in Updates \cup {None} :
              [m EXCEPT !.counterOf[n] = u] \in MetricsTo(t)
BY DEF MetricsTo

LEMMA SubsetOfUpdates ==
  ASSUME NEW S \in SUBSET Updates
  PROVE  IsFiniteSet(S) /\ Cardinality(S) \in Nat
BY MetricsAssumption, FS_Subset, FS_CardinalityType

LEMMA CountInNat ==
  ASSUME Typed, NEW n \in Names PROVE Count(n) \in Nat
BY MetricsAssumption, MetricsFields DEF Typed, Count

(* A step that only lets counts grow leaves a Snapshot right.               *)
LEMMA ReadingKept ==
  ASSUME MInv, UNCHANGED reader, metrics.total <= metrics'.total,
         metrics'.total \in Nat,
         \A n \in Names : Count(n)' \in Nat /\ Count(n) <= Count(n)',
         \A g \in Updates : pc[g] \in Ended => pc'[g] \in Ended /\ name'[g] = name[g]
  PROVE  Reading'
<1> USE DEF MInv, Reading
<1>1. reader.total \in Nat /\ metrics.total \in Nat /\ reader.before \subseteq Updates
  BY MetricsFields DEF Typed
<1>2. reader'.total <= metrics'.total BY <1>1
<1>3. \A g \in reader'.before : name'[g] # None /\ pc'[g] \in Ended BY <1>1
<1>4. \A n \in Names : reader'.counts[n] <= Count(n)'
  <2> SUFFICES ASSUME NEW n \in Names PROVE reader.counts[n] <= Count(n)' OBVIOUS
  <2>1. reader.counts[n] \in Nat /\ Count(n) \in Nat BY CountInNat DEF Typed
  <2>2. reader.counts[n] <= Count(n) /\ Count(n) <= Count(n)' /\ Count(n)' \in Nat
    OBVIOUS
  <2> QED BY <2>1, <2>2
<1>5. \A n : {g \in reader'.before : name'[g] = n} = {g \in reader.before : name[g] = n}
  BY <1>1
<1> QED BY <1>2, <1>3, <1>4, <1>5

LEMMA RingKept ==
  ASSUME RingRight, UNCHANGED added,
         metrics'.times = metrics.times, metrics'.pos = metrics.pos
  PROVE  RingRight'
BY DEF RingRight, Place

LEMMA GrantKeeps ==
  ASSUME MInv, NEW g \in Updates, Grant(g), UNCHANGED <<stamp, held, metrics, added>>,
         UNCHANGED <<now, reader>>
  PROVE  MInv'
<1> USE DEF MInv
<1>1. pc[g] = "new" /\ pc' = [pc EXCEPT ![g] = "total"] BY DEF Grant, Goto
<1>2. PICK n \in Names : name' = [name EXCEPT ![g] = n] BY DEF Grant, NamesOf
<1>3. name[g] = None /\ n # None BY <1>1, MetricsAssumption DEF Named
<1>4. \A m : Count(m)' = Count(m) BY DEF Count
<1>5. Typed' BY <1>1, <1>2 DEF Typed, Labels, Inside
<1>6. Named' BY <1>1, <1>2, <1>3 DEF Named, Typed, Inside
<1>7. CountersOwned'
  <2>1. \A m \in Names : metrics.counterOf[m] # g
    BY <1>3, MetricsAssumption DEF CountersOwned
  <2> QED BY <1>1, <1>2, <2>1 DEF CountersOwned, Typed
<1>8. CountsRight'
  <2>1. Requested' = Requested
    BY <1>1, <1>2, <1>3 DEF Requested, Counted, Typed
  <2>2. Denied' = Denied BY <1>1, <1>2 DEF Denied, Typed
  <2>3. \A m \in Names : Recorded(m)' = Recorded(m)
    BY <1>1, <1>2 DEF Recorded, Ended, Typed
  <2> QED BY <1>4, <2>1, <2>2, <2>3 DEF CountsRight
<1>9. Reading'
  <2>1. metrics.total \in Nat /\ metrics.total <= metrics'.total
    BY MetricsFields DEF Typed
  <2>2. \A m \in Names : Count(m)' \in Nat /\ Count(m) <= Count(m)'
    BY <1>4, CountInNat
  <2>3. \A h \in Updates : pc[h] \in Ended => pc'[h] \in Ended /\ name'[h] = name[h]
    BY <1>1, <1>2 DEF Ended, Typed
  <2> HIDE DEF MInv
  <2> QED BY <2>1, <2>2, <2>3, ReadingKept
<1> QED BY <1>5, <1>6, <1>7, <1>8, <1>9, RingKept

LEMMA RateDeniedKeeps ==
  ASSUME MInv, NEW g \in Updates, RecordRateDenied(g), UNCHANGED <<now, reader>>
  PROVE  MInv'
<1> USE DEF MInv
<1>1. /\ pc[g] = "new" /\ pc' = [pc EXCEPT ![g] = "done"]
      /\ UNCHANGED <<name, stamp, held, added>>
      /\ metrics' = [metrics EXCEPT !.denied = metrics.denied + 1]
  BY DEF RecordRateDenied, Goto
<1>2. name[g] = None BY <1>1 DEF Named
<1>3. /\ metrics'.total = metrics.total /\ metrics'.denied = metrics.denied + 1
      /\ metrics'.counterOf = metrics.counterOf /\ metrics'.counted = metrics.counted
      /\ metrics'.times = metrics.times /\ metrics'.pos = metrics.pos
  BY <1>1 DEF Typed, MetricsTo
<1>4. \A m : Count(m)' = Count(m) BY <1>3 DEF Count
<1>5. Typed'
  <2>1. metrics.denied + 1 \in Nat BY MetricsFields DEF Typed
  <2>2. metrics' \in MetricsTo(now)'
    BY <1>1, <2>1, MetricsChange DEF Typed
  <2> QED BY <1>1, <2>2 DEF Typed, Labels
<1>6. Named' BY <1>1 DEF Named, Typed, Inside
<1>7. CountersOwned' BY <1>1, <1>3 DEF CountersOwned, Typed
<1>8. CountsRight'
  <2>1. Requested' = Requested BY <1>1, <1>2 DEF Requested, Counted, Typed
  <2>2. Denied' = Denied \cup {g} /\ g \notin Denied
    BY <1>1, <1>2 DEF Denied, Typed
  <2>3. \A m \in Names : Recorded(m)' = Recorded(m)
    BY <1>1, <1>2, MetricsAssumption DEF Recorded, Ended, Typed
  <2>4. Denied \in SUBSET Updates BY DEF Denied
  <2>5. Cardinality(Denied') = Cardinality(Denied) + 1
    BY <2>2, <2>4, SubsetOfUpdates, FS_AddElement
  <2> QED BY <1>3, <1>4, <2>1, <2>3, <2>5 DEF CountsRight
<1>9. Reading'
  <2>1. metrics.total \in Nat /\ metrics.total <= metrics'.total
    BY <1>3, MetricsFields DEF Typed
  <2>2. \A m \in Names : Count(m)' \in Nat /\ Count(m) <= Count(m)'
    BY <1>4, CountInNat
  <2>3. \A h \in Updates : pc[h] \in Ended => pc'[h] \in Ended /\ name'[h] = name[h]
    BY <1>1 DEF Ended, Typed
  <2> HIDE DEF MInv
  <2> QED BY <1>3, <2>1, <2>2, <2>3, ReadingKept
<1> QED BY <1>1, <1>3, <1>5, <1>6, <1>7, <1>8, <1>9, RingKept

LEMMA AddTotalKeeps ==
  ASSUME MInv, NEW g \in Updates, AddTotal(g), UNCHANGED <<now, reader>>
  PROVE  MInv'
<1> USE DEF MInv
<1>1. /\ pc[g] = "total" /\ pc' = [pc EXCEPT ![g] = "stamp"]
      /\ UNCHANGED <<name, stamp, held, added>>
      /\ metrics' = [metrics EXCEPT !.total = metrics.total + 1]
  BY DEF AddTotal, Goto
<1>2. name[g] # None BY <1>1 DEF Named
<1>3. /\ metrics'.total = metrics.total + 1 /\ metrics'.denied = metrics.denied
      /\ metrics'.counterOf = metrics.counterOf /\ metrics'.counted = metrics.counted
      /\ metrics'.times = metrics.times /\ metrics'.pos = metrics.pos
  BY <1>1 DEF Typed, MetricsTo
<1>4. \A m : Count(m)' = Count(m) BY <1>3 DEF Count
<1>5. Typed'
  <2>1. metrics.total + 1 \in Nat BY MetricsFields DEF Typed
  <2>2. metrics' \in MetricsTo(now)'
    BY <1>1, <2>1, MetricsChange DEF Typed
  <2> QED BY <1>1, <2>2 DEF Typed, Labels, Inside
<1>6. Named' BY <1>1 DEF Named, Typed, Inside
<1>7. CountersOwned' BY <1>1, <1>3 DEF CountersOwned, Typed
<1>8. CountsRight'
  <2>1. Requested' = Requested \cup {g} /\ g \notin Requested
    BY <1>1, <1>2 DEF Requested, Counted, Typed
  <2>2. Denied' = Denied BY <1>1 DEF Denied, Typed
  <2>3. \A m \in Names : Recorded(m)' = Recorded(m)
    BY <1>1 DEF Recorded, Ended, Typed
  <2>4. Requested \in SUBSET Updates BY DEF Requested
  <2>5. Cardinality(Requested') = Cardinality(Requested) + 1
    BY <2>1, <2>4, SubsetOfUpdates, FS_AddElement
  <2> QED BY <1>3, <1>4, <2>2, <2>3, <2>5 DEF CountsRight
<1>9. Reading'
  <2>1. metrics.total <= metrics'.total /\ metrics'.total \in Nat
    BY <1>3, MetricsFields DEF Typed
  <2>2. \A m \in Names : Count(m)' \in Nat /\ Count(m) <= Count(m)'
    BY <1>4, CountInNat
  <2>3. \A h \in Updates : pc[h] \in Ended => pc'[h] \in Ended /\ name'[h] = name[h]
    BY <1>1 DEF Ended, Typed
  <2> HIDE DEF MInv
  <2> QED BY <2>1, <2>2, <2>3, ReadingKept
<1> QED BY <1>1, <1>3, <1>5, <1>6, <1>7, <1>8, <1>9, RingKept

LEMMA StampKeeps ==
  ASSUME MInv, NEW g \in Updates, Stamp(g), UNCHANGED <<now, reader>>
  PROVE  MInv'
<1> USE DEF MInv
<1>1. /\ pc[g] = "stamp" /\ pc' = [pc EXCEPT ![g] = "ring"]
      /\ stamp' = [stamp EXCEPT ![g] = now]
      /\ UNCHANGED <<name, held, metrics, added>>
  BY DEF Stamp, Goto
<1>2. \A m : Count(m)' = Count(m) BY <1>1 DEF Count
<1>3. Typed' BY <1>1 DEF Typed, Labels, Inside
<1>4. Named' BY <1>1 DEF Named, Typed, Inside
<1>5. CountersOwned' BY <1>1 DEF CountersOwned, Typed
<1>6. CountsRight'
  <2>1. Requested' = Requested BY <1>1 DEF Requested, Counted, Typed
  <2>2. Denied' = Denied BY <1>1 DEF Denied, Typed
  <2>3. \A m \in Names : Recorded(m)' = Recorded(m)
    BY <1>1 DEF Recorded, Ended, Typed
  <2> QED BY <1>1, <1>2, <2>1, <2>2, <2>3 DEF CountsRight
<1>7. Reading'
  <2>1. metrics.total <= metrics'.total /\ metrics'.total \in Nat
    BY <1>1, MetricsFields DEF Typed
  <2>2. \A m \in Names : Count(m)' \in Nat /\ Count(m) <= Count(m)'
    BY <1>2, CountInNat
  <2>3. \A h \in Updates : pc[h] \in Ended => pc'[h] \in Ended /\ name'[h] = name[h]
    BY <1>1 DEF Ended, Typed
  <2> HIDE DEF MInv
  <2> QED BY <2>1, <2>2, <2>3, ReadingKept
<1> QED BY <1>1, <1>3, <1>4, <1>5, <1>6, <1>7, RingKept

NextOf(p) == IF p + 1 = Size THEN 0 ELSE p + 1

LEMMA NextPos ==
  ASSUME NEW p \in 0..Size - 1
  PROVE  (p + 1) % Size = NextOf(p)
BY MetricsAssumption DEF NextOf

LEMMA PlaceAfter ==
  ASSUME NEW l \in Nat, NEW p \in 0..Size - 1, NEW i \in 0..Size - 1
  PROVE  /\ NextOf(p) \in 0..Size - 1
         /\ PlaceIn(l, p, i) \in Int /\ PlaceIn(l, p, i) <= l
         /\ i = p => PlaceIn(l + 1, NextOf(p), i) = l + 1
         /\ i # p => PlaceIn(l + 1, NextOf(p), i) = PlaceIn(l, p, i)
<1>1. Size \in Nat \ {0} BY MetricsAssumption
<1>2. CASE p + 1 = Size BY <1>1, <1>2 DEF PlaceIn, NextOf
<1>3. CASE p + 1 # Size BY <1>1, <1>3 DEF PlaceIn, NextOf
<1> QED BY <1>2, <1>3

LEMMA AddRingKeeps ==
  ASSUME MInv, NEW g \in Updates, AddRing(g), UNCHANGED <<now, reader>>
  PROVE  MInv'
<1> USE DEF MInv
<1> DEFINE p == metrics.pos
           q == NextOf(p)
           l == Len(added)
<1>1. /\ pc[g] = "ring" /\ pc' = [pc EXCEPT ![g] = "load"]
      /\ stamp' = [stamp EXCEPT ![g] = 0]
      /\ added' = Append(added, stamp[g])
      /\ UNCHANGED <<name, held>>
      /\ metrics' = [metrics EXCEPT !.times[p] = stamp[g], !.pos = (p + 1) % Size]
  BY DEF AddRing, Goto
<1>2. p \in 0..Size - 1 /\ l \in Nat BY MetricsFields DEF Typed
<1>3. q \in 0..Size - 1 /\ (p + 1) % Size = q BY <1>2, NextPos, PlaceAfter
<1>4. /\ metrics'.total = metrics.total /\ metrics'.denied = metrics.denied
      /\ metrics'.counterOf = metrics.counterOf /\ metrics'.counted = metrics.counted
      /\ metrics'.times = [metrics.times EXCEPT ![p] = stamp[g]] /\ metrics'.pos = q
  <2> HIDE DEF q
  <2> QED BY <1>1, <1>2, <1>3 DEF Typed, MetricsTo
<1>5. \A m : Count(m)' = Count(m) BY <1>4 DEF Count
<1>6. stamp[g] \in 0..now /\ now \in Nat BY DEF Typed
<1>7. Typed'
  <2> HIDE DEF q
  <2>1. metrics' \in MetricsTo(now)'
    <3>1. metrics.times \in [0..Size - 1 -> Never..now] BY MetricsFields DEF Typed
    <3>2. stamp[g] \in Never..now BY <1>6 DEF Never
    <3>3. [metrics.times EXCEPT ![p] = stamp[g]] \in [0..Size - 1 -> Never..now]
      BY <3>1, <3>2
    <3> QED BY <1>1, <1>3, <3>3 DEF Typed, MetricsTo
  <2>2. added' \in Seq(Nat) BY <1>1, <1>6 DEF Typed
  <2>3. stamp' \in [Updates -> 0..now] BY <1>1, <1>6 DEF Typed
  <2>4. pc' \in [Updates -> Labels] BY <1>1 DEF Typed, Labels, Inside
  <2> QED BY <1>1, <2>1, <2>2, <2>3, <2>4 DEF Typed
<1>8. Named' BY <1>1 DEF Named, Typed, Inside
<1>9. CountersOwned' BY <1>1, <1>4 DEF CountersOwned, Typed
<1>10. CountsRight'
  <2>1. Requested' = Requested BY <1>1 DEF Requested, Counted, Typed
  <2>2. Denied' = Denied BY <1>1 DEF Denied, Typed
  <2>3. \A m \in Names : Recorded(m)' = Recorded(m)
    BY <1>1 DEF Recorded, Ended, Typed
  <2> QED BY <1>4, <1>5, <2>1, <2>2, <2>3 DEF CountsRight
<1>11. RingRight'
  <2>1. /\ Len(added') = l + 1 /\ added'[l + 1] = stamp[g]
        /\ \A j \in 1..l : added'[j] = added[j]
    BY <1>1, <1>6 DEF Typed
  <2> SUFFICES ASSUME NEW i \in 0..Size - 1
               PROVE  metrics'.times[i] = IF Place(i)' >= 1 THEN added'[Place(i)'] ELSE Never
    BY DEF RingRight
  <2>2. Place(i)' = PlaceIn(l + 1, q, i) /\ Place(i) = PlaceIn(l, p, i)
    BY <1>4, <2>1 DEF Place
  <2>3. i = p => Place(i)' = l + 1 BY <1>2, <2>2, PlaceAfter
  <2>4. i # p => Place(i)' = Place(i) BY <1>2, <2>2, PlaceAfter
  <2>5. Place(i) \in Int /\ Place(i) <= l BY <1>2, <2>2, PlaceAfter
  <2>6. metrics'.times[i] = IF i = p THEN stamp[g] ELSE metrics.times[i]
    BY <1>2, <1>4, MetricsFields DEF Typed
  <2>7. metrics.times[i] = IF Place(i) >= 1 THEN added[Place(i)] ELSE Never
    BY DEF RingRight
  <2>8. CASE i = p BY <1>2, <2>1, <2>3, <2>6, <2>8
  <2>9. CASE i # p
    <3>1. Place(i) >= 1 => Place(i) \in 1..l BY <1>2, <2>5
    <3> QED BY <2>1, <2>4, <2>6, <2>7, <2>9, <3>1
  <2> QED BY <2>8, <2>9
<1>12. Reading'
  <2>1. metrics.total <= metrics'.total /\ metrics'.total \in Nat
    BY <1>4, MetricsFields DEF Typed
  <2>2. \A m \in Names : Count(m)' \in Nat /\ Count(m) <= Count(m)'
    BY <1>5, CountInNat
  <2>3. \A h \in Updates : pc[h] \in Ended => pc'[h] \in Ended /\ name'[h] = name[h]
    BY <1>1 DEF Ended, Typed
  <2> HIDE DEF MInv
  <2> QED BY <2>1, <2>2, <2>3, ReadingKept
<1> QED BY <1>7, <1>8, <1>9, <1>10, <1>11, <1>12

LEMMA LoadOrStoreKeeps ==
  ASSUME MInv, NEW g \in Updates, LoadOrStore(g), UNCHANGED <<now, reader>>
  PROVE  MInv'
<1> USE DEF MInv
<1> DEFINE n == name[g]
           c == IF metrics.counterOf[n] = None THEN g ELSE metrics.counterOf[n]
<1>1. /\ pc[g] = "load" /\ pc' = [pc EXCEPT ![g] = "count"]
      /\ metrics' = [metrics EXCEPT !.counterOf[n] = c]
      /\ held' = [held EXCEPT ![g] = metrics'.counterOf[n]]
      /\ UNCHANGED <<name, stamp, added>>
  BY DEF LoadOrStore, Goto
<1>2. n \in Names /\ n # None /\ None \notin Updates
  BY <1>1, MetricsAssumption DEF Named, Typed, Inside
<1>3. c \in Updates BY <1>2, MetricsFields DEF Typed
<1>4. /\ metrics'.total = metrics.total /\ metrics'.denied = metrics.denied
      /\ metrics'.counterOf = [metrics.counterOf EXCEPT ![n] = c]
      /\ metrics'.counted = metrics.counted
      /\ metrics'.times = metrics.times /\ metrics'.pos = metrics.pos
      /\ metrics.counterOf \in [Names -> Updates \cup {None}]
      /\ held' = [held EXCEPT ![g] = c]
  <2> HIDE DEF c, n
  <2> QED BY <1>1, <1>2 DEF Typed, MetricsTo
<1>5. name[c] = n BY <1>2 DEF CountersOwned
<1>6. \A m \in Names : metrics.counterOf[m] = g => m = n
  BY <1>2 DEF CountersOwned
<1>7. \A m \in Names : Count(m)' = Count(m)
  <2> SUFFICES ASSUME NEW m \in Names PROVE Count(m)' = Count(m) OBVIOUS
  <2>1. CASE m # n BY <1>4, <2>1 DEF Count
  <2>2. CASE m = n /\ metrics.counterOf[n] # None BY <1>2, <1>4, <2>2 DEF Count
  <2>3. CASE m = n /\ metrics.counterOf[n] = None
    <3>1. metrics.counted[g] = 0 BY <1>2, <1>6, <2>3 DEF CountersOwned
    <3> QED BY <1>2, <1>4, <2>3, <3>1 DEF Count
  <2> QED BY <2>1, <2>2, <2>3
<1>8. Typed'
  <2>1. metrics' \in MetricsTo(now)'
    <3> HIDE DEF c, n
    <3> QED BY <1>1, <1>2, <1>3, MetricsChange DEF Typed
  <2> QED BY <1>1, <1>3, <1>4, <2>1 DEF Typed, Labels, Inside
<1>9. Named' BY <1>1 DEF Named, Typed, Inside
<1>10. CountersOwned'
  <2>1. \A m \in Names : metrics'.counterOf[m] # None => name'[metrics'.counterOf[m]] = m
    BY <1>1, <1>4, <1>5 DEF CountersOwned
  <2>2. ASSUME NEW h \in Updates, \A m \in Names : metrics'.counterOf[m] # h
        PROVE  metrics'.counted[h] = 0
    <3>1. \A m \in Names : metrics.counterOf[m] # h
      BY <1>2, <1>4, <2>2
    <3> QED BY <1>4, <3>1 DEF CountersOwned
  <2>3. ASSUME NEW h \in Updates, pc'[h] = "count"
        PROVE  held'[h] # None /\ held'[h] = metrics'.counterOf[name'[h]]
    <3>1. CASE h = g BY <1>1, <1>2, <1>3, <1>4, <3>1 DEF Typed
    <3>2. CASE h # g
      <4>1. pc[h] = "count" /\ held'[h] = held[h] /\ name'[h] = name[h]
        BY <1>1, <1>4, <2>3, <3>2 DEF Typed
      <4>2. held[h] # None /\ held[h] = metrics.counterOf[name[h]] BY <4>1 DEF CountersOwned
      <4>3. metrics'.counterOf[name[h]] = metrics.counterOf[name[h]]
        BY <1>2, <1>4, <4>2
      <4> QED BY <4>1, <4>2, <4>3
    <3> QED BY <3>1, <3>2
  <2> QED BY <2>1, <2>2, <2>3 DEF CountersOwned
<1>11. CountsRight'
  <2>1. Requested' = Requested BY <1>1 DEF Requested, Counted, Typed
  <2>2. Denied' = Denied BY <1>1 DEF Denied, Typed
  <2>3. \A m \in Names : Recorded(m)' = Recorded(m)
    BY <1>1 DEF Recorded, Ended, Typed
  <2> QED BY <1>4, <1>7, <2>1, <2>2, <2>3 DEF CountsRight
<1>12. Reading'
  <2>1. metrics.total <= metrics'.total /\ metrics'.total \in Nat
    BY <1>4, MetricsFields DEF Typed
  <2>2. \A m \in Names : Count(m)' \in Nat /\ Count(m) <= Count(m)'
    BY <1>7, CountInNat
  <2>3. \A h \in Updates : pc[h] \in Ended => pc'[h] \in Ended /\ name'[h] = name[h]
    BY <1>1 DEF Ended, Typed
  <2> HIDE DEF MInv
  <2> QED BY <2>1, <2>2, <2>3, ReadingKept
<1> QED BY <1>1, <1>4, <1>8, <1>9, <1>10, <1>11, <1>12, RingKept

LEMMA AddCountKeeps ==
  ASSUME MInv, NEW g \in Updates, AddCount(g), UNCHANGED <<now, reader>>
  PROVE  MInv'
<1> USE DEF MInv
<1> DEFINE n == name[g]
           c == held[g]
<1>1. /\ pc[g] = "count" /\ pc' = [pc EXCEPT ![g] = "recorded"]
      /\ metrics' = [metrics EXCEPT !.counted[c] = metrics.counted[c] + 1]
      /\ held' = [held EXCEPT ![g] = None]
      /\ UNCHANGED <<name, stamp, added>>
  BY DEF AddCount, Goto
<1>2. n \in Names /\ n # None /\ None \notin Updates
  BY <1>1, MetricsAssumption DEF Named, Typed, Inside
<1>3. c \in Updates /\ c = metrics.counterOf[n] /\ name[c] = n
  BY <1>1, <1>2 DEF CountersOwned, Typed
<1>4. /\ metrics.counted[c] + 1 \in Nat /\ metrics.counted \in [Updates -> Nat]
      /\ metrics.total \in Nat
  <2> HIDE DEF c, n
  <2>1. metrics.counted \in [Updates -> Nat] /\ metrics.total \in Nat
    BY MetricsFields DEF Typed
  <2> QED BY <1>3, <2>1
<1>5. /\ metrics'.total = metrics.total /\ metrics'.denied = metrics.denied
      /\ metrics'.counterOf = metrics.counterOf
      /\ metrics'.counted = [metrics.counted EXCEPT ![c] = metrics.counted[c] + 1]
      /\ metrics'.times = metrics.times /\ metrics'.pos = metrics.pos
  <2> HIDE DEF c, n
  <2> QED BY <1>1 DEF Typed, MetricsTo
<1>6. \A m \in Names : Count(m)' = IF m = n THEN Count(m) + 1 ELSE Count(m)
  <2> SUFFICES ASSUME NEW m \in Names
               PROVE  Count(m)' = IF m = n THEN Count(m) + 1 ELSE Count(m)
    OBVIOUS
  <2>1. CASE m = n BY <1>2, <1>3, <1>4, <1>5, <2>1 DEF Count
  <2>2. CASE m # n
    <3>1. metrics.counterOf[m] # c BY <1>2, <1>3, <2>2 DEF CountersOwned
    <3> QED BY <1>5, <2>2, <3>1 DEF Count
  <2> QED BY <2>1, <2>2
<1>7. Typed'
  <2>1. metrics' \in MetricsTo(now)'
    <3> HIDE DEF c, n
    <3> QED BY <1>1, <1>3, <1>4, MetricsChange DEF Typed
  <2> QED BY <1>1, <2>1 DEF Typed, Labels
<1>8. Named' BY <1>1, <1>2 DEF Named, Typed, Inside
<1>9. CountersOwned'
  <2>1. \A h \in Updates :
          (\A m \in Names : metrics'.counterOf[m] # h) => metrics'.counted[h] = 0
    BY <1>2, <1>3, <1>5 DEF CountersOwned
  <2> QED BY <1>1, <1>5, <2>1 DEF CountersOwned, Typed
<1>10. CountsRight'
  <2>1. Requested' = Requested BY <1>1 DEF Requested, Counted, Typed
  <2>2. Denied' = Denied BY <1>1 DEF Denied, Typed
  <2>3. ASSUME NEW m \in Names PROVE Count(m)' = Cardinality(Recorded(m)')
    <3>1. CASE m # n
      <4>1. Recorded(m)' = Recorded(m)
        BY <1>1, <3>1 DEF Recorded, Ended, Typed
      <4> QED BY <1>6, <3>1, <4>1 DEF CountsRight
    <3>2. CASE m = n
      <4>1. Recorded(m)' = Recorded(m) \cup {g} /\ g \notin Recorded(m)
        BY <1>1, <3>2 DEF Recorded, Ended, Typed
      <4>2. Recorded(m) \in SUBSET Updates BY DEF Recorded
      <4>3. Cardinality(Recorded(m)') = Cardinality(Recorded(m)) + 1
        BY <4>1, <4>2, SubsetOfUpdates, FS_AddElement
      <4> QED BY <1>6, <3>2, <4>3 DEF CountsRight
    <3> QED BY <3>1, <3>2
  <2> QED BY <1>5, <2>1, <2>2, <2>3 DEF CountsRight
<1>11. Reading'
  <2>1. metrics.total <= metrics'.total /\ metrics'.total \in Nat BY <1>4, <1>5
  <2>2. \A m \in Names : Count(m)' \in Nat /\ Count(m) <= Count(m)'
    <3> SUFFICES ASSUME NEW m \in Names PROVE Count(m)' \in Nat /\ Count(m) <= Count(m)'
      OBVIOUS
    <3>1. Count(m) \in Nat BY CountInNat
    <3>2. Count(m)' = IF m = n THEN Count(m) + 1 ELSE Count(m) BY <1>6
    <3> QED BY <3>1, <3>2
  <2>3. \A h \in Updates : pc[h] \in Ended => pc'[h] \in Ended /\ name'[h] = name[h]
    BY <1>1 DEF Ended, Typed
  <2> HIDE DEF MInv
  <2> QED BY <2>1, <2>2, <2>3, ReadingKept
<1> QED BY <1>1, <1>5, <1>7, <1>8, <1>9, <1>10, <1>11, RingKept

-----------------------------------------------------------------------------
(* The other steps preserve MInv                                            *)

LEMMA AnswerKeeps ==
  ASSUME MInv, NEW g \in Updates,
         Goto(g, "recorded", "event") \/ Goto(g, "event", "done"),
         UNCHANGED <<now, name, stamp, held, metrics, added, reader>>
  PROVE  MInv'
<1> USE DEF MInv
<1>1. /\ pc[g] \in Ended /\ pc[g] # "done"
      /\ \/ pc' = [pc EXCEPT ![g] = "event"] \/ pc' = [pc EXCEPT ![g] = "done"]
  BY DEF Goto, Ended
<1>2. name[g] # None BY <1>1 DEF Named, Ended
<1>3. /\ Requested' = Requested
  BY <1>1, <1>2 DEF Requested, Counted, Typed, Ended
<1>4. Denied' = Denied BY <1>1, <1>2 DEF Denied, Typed
<1>5. \A m \in Names : Recorded(m)' = Recorded(m)
  BY <1>1 DEF Recorded, Ended, Typed
<1>6. \A m \in Names : Count(m)' = Count(m) /\ Count(m) \in Nat
  BY CountInNat DEF Count
<1>7. Typed' BY <1>1 DEF Typed, Labels
<1>8. Named' BY <1>1, <1>2 DEF Named, Typed, Inside, Ended
<1>9. CountersOwned' BY <1>1 DEF CountersOwned, Typed, Ended
<1>10. CountsRight' BY <1>3, <1>4, <1>5, <1>6 DEF CountsRight
<1>11. Reading'
  <2>1. \A h \in Updates : pc[h] \in Ended => pc'[h] \in Ended /\ name'[h] = name[h]
    BY <1>1 DEF Ended, Typed
  <2>2. metrics.total <= metrics'.total /\ metrics'.total \in Nat
    BY MetricsFields DEF Typed
  <2>3. \A m \in Names : Count(m)' \in Nat /\ Count(m) <= Count(m)' BY <1>6
  <2> HIDE DEF MInv
  <2> QED BY <2>1, <2>2, <2>3, ReadingKept
<1> QED BY <1>7, <1>8, <1>9, <1>10, <1>11, RingKept

LEMMA IgnoreKeeps ==
  ASSUME MInv, NEW g \in Updates, Ignore(g), UNCHANGED <<now, reader>>
  PROVE  MInv'
<1> USE DEF MInv
<1>1. /\ pc[g] = "new" /\ pc' = [pc EXCEPT ![g] = "gone"]
      /\ UNCHANGED <<now, name, stamp, held, metrics, added, reader>>
  BY DEF Ignore, Goto
<1>2. name[g] = None BY <1>1 DEF Named
<1>3. Requested' = Requested /\ Denied' = Denied
  BY <1>1, <1>2 DEF Requested, Counted, Denied, Typed
<1>4. \A m \in Names : Recorded(m)' = Recorded(m)
  BY <1>1 DEF Recorded, Ended, Typed
<1>5. \A m \in Names : Count(m)' = Count(m) BY <1>1 DEF Count
<1>6. (Typed /\ Named)' BY <1>1, <1>2 DEF Typed, Labels, Named, Inside
<1>7. CountersOwned' BY <1>1 DEF CountersOwned, Typed
<1>8. CountsRight' BY <1>1, <1>3, <1>4, <1>5 DEF CountsRight
<1>9. RingRight' BY <1>1 DEF RingRight, Place
<1>10. Reading' BY <1>1, <1>5 DEF Reading, Typed, Ended
<1> QED BY <1>6, <1>7, <1>8, <1>9, <1>10

LEMMA CountSinceBound ==
  ASSUME NEW since PROVE CountSince(since) \in 0..Size
<1> DEFINE I == {i \in 0..Size - 1 : metrics.times[i] # Never /\ metrics.times[i] >= since}
<1>1. Size \in Nat \ {0} BY MetricsAssumption
<1>2. IsFiniteSet(0..Size - 1) /\ Cardinality(0..Size - 1) = Size
  BY <1>1, FS_Interval
<1>3. IsFiniteSet(I) /\ Cardinality(I) <= Size BY <1>2, FS_Subset
<1>4. Cardinality(I) \in Nat BY <1>3, FS_CardinalityType
<1>5. Cardinality(I) \in 0..Size BY <1>1, <1>3, <1>4
<1> QED BY <1>5 DEF CountSince

LEMMA SnapshotKeeps ==
  ASSUME MInv, Snapshot PROVE MInv'
<1> USE DEF MInv
<1>1. UNCHANGED <<now, pc, name, stamp, held, metrics, added>>
  BY DEF Snapshot, calls
<1>2. Named' /\ CountersOwned' /\ CountsRight' /\ RingRight'
  BY <1>1 DEF Named, CountersOwned, CountsRight, RingRight, Place, Count, Requested,
              Counted, Denied, Recorded
<1>3. /\ metrics.total \in Nat /\ \A n \in Names : Count(n) \in Nat
      /\ metrics.counterOf \in [Names -> Updates \cup {None}]
  BY MetricsFields, CountInNat DEF Typed
<1>4. \A n : Count(n)' = Count(n) BY <1>1 DEF Count
<1>5. NoReader = [at |-> "idle", now |-> 0, total |-> 0, rate |-> 0, denied |-> 0,
                  counts |-> [n \in Names |-> 0], pending |-> {}, before |-> {}]
  BY DEF NoReader
<1>6. reader.counts \in [Names -> Nat] /\ reader.before \in SUBSET Updates
  BY DEF Typed
<1>7. 0 \in 0..Size BY MetricsAssumption
<1>8. CASE SnapTotal
  <2> DEFINE B == {g \in Updates : Counted(g) /\ pc[g] \notin Inside}
  <2>1. reader' = [at |-> "rate", now |-> now, total |-> metrics.total, rate |-> 0,
                   denied |-> 0, counts |-> [n \in Names |-> 0], pending |-> {}, before |-> B]
    BY <1>5, <1>8 DEF SnapTotal
  <2>2. B \in SUBSET Updates /\ B \subseteq Requested BY DEF Requested
  <2>3. Typed'
    <3> HIDE DEF B
    <3> QED BY <1>1, <1>3, <1>7, <2>1, <2>2 DEF Typed
  <2>4. \A g \in B : name[g] # None /\ pc[g] \in Ended
    BY DEF Counted, Ended, Typed, Labels, Named
  <2>5. Cardinality(B) <= metrics.total
    <3>1. Requested \in SUBSET Updates BY DEF Requested
    <3>2. IsFiniteSet(Requested) BY <3>1, SubsetOfUpdates
    <3> HIDE DEF B
    <3> QED BY <2>2, <3>2, FS_Subset DEF CountsRight
  <2>6. Reading'
    <3> HIDE DEF B
    <3> QED BY <1>1, <1>3, <1>4, <2>1, <2>4, <2>5 DEF Reading
  <2> QED BY <1>2, <2>3, <2>6
<1>9. CASE SnapRate
  <2>1. PICK more \in SUBSET Names :
          reader' = [reader EXCEPT
            !.at = "range", !.rate = CountSince(reader.now - Window),
            !.pending = more \cup {n \in Names : metrics.counterOf[n] # None}]
    BY <1>9 DEF SnapRate
  <2> DEFINE p == more \cup {n \in Names : metrics.counterOf[n] # None}
             c == CountSince(reader.now - Window)
  <2>2. reader' = [reader EXCEPT !.at = "range", !.rate = c, !.pending = p] BY <2>1
  <2>3. p \in SUBSET Names /\ c \in 0..Size BY CountSinceBound
  <2>4. Typed'
    <3> HIDE DEF p, c
    <3> QED BY <1>1, <2>3, <2>2 DEF Typed
  <2>5. /\ reader'.total = reader.total /\ reader'.counts = reader.counts
        /\ reader'.pending = p /\ reader'.before = reader.before
        /\ reader'.at = "range"
    <3> HIDE DEF p, c
    <3> QED BY <2>2 DEF Typed
  <2>6. ASSUME NEW n \in Names \ p
        PROVE  Cardinality({g \in reader.before : name[g] = n}) <= reader.counts[n]
    <3>1. Count(n) = 0 BY DEF Count
    <3>2. Recorded(n) \in SUBSET Updates BY DEF Recorded
    <3>3. Recorded(n) = {}
      BY <3>1, <3>2, SubsetOfUpdates, FS_EmptySet DEF CountsRight
    <3>4. {g \in reader.before : name[g] = n} = {}
      BY <1>6, <3>3 DEF Reading, Recorded
    <3>5. Cardinality({g \in reader.before : name[g] = n}) = 0
      BY <3>4, FS_EmptySet
    <3>6. reader.counts[n] \in Nat BY <1>6
    <3> QED BY <3>5, <3>6
  <2>7. Reading'
    <3> HIDE DEF p, c
    <3> QED BY <1>1, <1>4, <2>5, <2>6 DEF Reading
  <2> QED BY <1>2, <2>4, <2>7
<1>10. ASSUME NEW n \in Names, Visit(n) PROVE MInv'
  <2> DEFINE k == Count(n)
  <2>1. /\ reader.at = "range" /\ n \in reader.pending
        /\ reader' = [reader EXCEPT !.counts[n] = k, !.pending = reader.pending \ {n}]
    BY <1>10 DEF Visit
  <2>2. k \in Nat BY <1>3
  <2>3. Typed'
    <3> HIDE DEF k
    <3> QED BY <1>1, <2>1, <2>2 DEF Typed
  <2>4. /\ reader'.total = reader.total
        /\ reader'.counts = [reader.counts EXCEPT ![n] = k]
        /\ reader'.pending = reader.pending \ {n} /\ reader'.before = reader.before
        /\ reader'.at = "range"
    <3> HIDE DEF k
    <3> QED BY <2>1 DEF Typed
  <2>5. Cardinality({g \in reader.before : name[g] = n}) <= k
    <3> DEFINE b == {g \in reader.before : name[g] = n}
    <3>1. Recorded(n) \in SUBSET Updates BY DEF Recorded
    <3>2. b \subseteq Recorded(n) BY <1>6 DEF Recorded, Reading
    <3>3. IsFiniteSet(Recorded(n)) BY <3>1, SubsetOfUpdates
    <3>4. Cardinality(b) <= Cardinality(Recorded(n)) BY <3>2, <3>3, FS_Subset
    <3> QED BY <3>4 DEF CountsRight
  <2>6. \A m \in Names : reader'.counts[m] = IF m = n THEN k ELSE reader.counts[m]
    BY <1>6, <2>4
  <2>7. Reading'
    <3>1. \A m \in Names : reader'.counts[m] <= Count(m)'
      <4> SUFFICES ASSUME NEW m \in Names PROVE reader'.counts[m] <= Count(m)' OBVIOUS
      <4>1. CASE m = n BY <1>4, <2>2, <2>6, <4>1
      <4>2. CASE m # n BY <1>4, <2>6, <4>2 DEF Reading
      <4> QED BY <4>1, <4>2
    <3>2. ASSUME NEW m \in Names \ reader'.pending
          PROVE  Cardinality({g \in reader'.before : name'[g] = m}) <= reader'.counts[m]
      <4>1. CASE m = n BY <1>1, <2>4, <2>5, <2>6, <4>1
      <4>2. CASE m # n BY <1>1, <2>1, <2>4, <2>6, <4>2 DEF Reading
      <4> QED BY <4>1, <4>2
    <3> HIDE DEF k
    <3> QED BY <1>1, <2>4, <3>1, <3>2 DEF Reading
  <2> QED BY <1>2, <2>3, <2>7
<1>11. CASE RangeDone
  <2>1. reader.at = "range" /\ reader.pending = {}
        /\ reader' = [reader EXCEPT !.at = "taken", !.denied = metrics.denied]
    BY <1>11 DEF RangeDone
  <2>2. Typed'
    <3>1. metrics.denied \in Nat BY MetricsFields DEF Typed
    <3> QED BY <1>1, <2>1, <3>1 DEF Typed
  <2>3. /\ reader'.total = reader.total /\ reader'.counts = reader.counts
        /\ reader'.pending = reader.pending /\ reader'.before = reader.before
        /\ reader'.at = "taken"
    BY <2>1 DEF Typed
  <2>4. Reading' BY <1>1, <1>4, <2>1, <2>3 DEF Reading
  <2> QED BY <1>2, <2>2, <2>4
<1>12. CASE Reply
  <2>1. reader' = NoReader BY <1>12 DEF Reply
  <2>2. Typed' BY <1>1, <1>5, <1>7, <2>1 DEF Typed
  <2>3. Reading' BY <1>1, <1>3, <1>4, <1>5, <2>1, FS_EmptySet DEF Reading
  <2> QED BY <1>2, <2>2, <2>3
<1> QED BY <1>8, <1>9, <1>10, <1>11, <1>12 DEF Snapshot

(* How a process starts.                                                    *)
Fresh ==
  /\ now \in Nat /\ pc \in [Updates -> {"new", "gone"}]
  /\ name = [g \in Updates |-> None] /\ stamp = [g \in Updates |-> 0]
  /\ held = [g \in Updates |-> None]
  /\ metrics = NewMetrics /\ added = <<>> /\ reader = NoReader

LEMMA FreshIsRight == Fresh => MInv
<1> SUFFICES ASSUME Fresh PROVE MInv OBVIOUS
<1> USE DEF Fresh
<1>1. /\ metrics.total = 0 /\ metrics.denied = 0 /\ metrics.pos = 0
      /\ metrics.counterOf = [n \in Names |-> None]
      /\ metrics.counted = [g \in Updates |-> 0]
      /\ metrics.times = [i \in 0..Size - 1 |-> Never]
  BY DEF NewMetrics
<1>2. /\ reader.at = "idle" /\ reader.total = 0 /\ reader.rate = 0 /\ reader.before = {}
      /\ reader.counts = [n \in Names |-> 0] /\ reader.pending = {}
  BY DEF NoReader
<1>3. Size \in Nat \ {0} /\ None \notin Updates BY MetricsAssumption
<1>4. Typed
  <2>1. metrics \in MetricsTo(now)
    BY <1>3 DEF NewMetrics, MetricsTo, Never
  <2>2. reader \in
          [at : {"idle", "rate", "range", "taken"}, now : Nat, total : Nat, rate : 0..Size,
           denied : Nat, counts : [Names -> Nat], pending : SUBSET Names, before : SUBSET Updates]
    BY <1>3 DEF NoReader
  <2> QED BY <2>1, <2>2 DEF Typed, Labels
<1>5. Named BY DEF Named, Inside
<1>6. CountersOwned BY <1>1 DEF CountersOwned
<1>7. CountsRight
  <2>1. Requested = {} /\ Denied = {} /\ \A n \in Names : Recorded(n) = {}
    BY DEF Requested, Counted, Denied, Recorded, Ended
  <2>2. \A n \in Names : Count(n) = 0 BY <1>1 DEF Count
  <2> QED BY <1>1, <2>1, <2>2, FS_EmptySet DEF CountsRight
<1>8. RingRight
  <2> SUFFICES ASSUME NEW i \in 0..Size - 1
               PROVE  metrics.times[i] = IF Place(i) >= 1 THEN added[Place(i)] ELSE Never
    BY DEF RingRight
  <2>1. Len(added) = 0 OBVIOUS
  <2>2. Place(i) = 0 - 0 - Size + i + 1 BY <1>1, <2>1 DEF Place, PlaceIn
  <2>3. ~ (Place(i) >= 1) BY <1>3, <2>2
  <2> QED BY <1>1, <2>3
<1>9. Reading
  <2>1. \A n \in Names : Count(n) = 0 BY <1>1 DEF Count
  <2>2. Cardinality(reader.before) = 0 BY <1>2, FS_EmptySet
  <2> QED BY <1>1, <1>2, <2>1, <2>2 DEF Reading
<1> QED BY <1>4, <1>5, <1>6, <1>7, <1>8, <1>9 DEF MInv

LEMMA TickKeeps ==
  ASSUME MInv, Tick PROVE MInv'
<1> USE DEF MInv
<1>1. /\ now' = now + 1
      /\ UNCHANGED <<pc, name, stamp, held, metrics, added, reader>>
  BY DEF Tick, calls
<1>2. Typed'
  <2>1. now \in Nat /\ now' \in Nat BY <1>1 DEF Typed
  <2>2. stamp' \in [Updates -> 0..now'] BY <1>1, <2>1 DEF Typed
  <2>3. metrics' \in MetricsTo(now')
    <3>1. Never..now \subseteq Never..now' BY <1>1, <2>1 DEF Never
    <3>2. metrics \in MetricsTo(now) BY DEF Typed
    <3>3. metrics.times \in [0..Size - 1 -> Never..now'] BY <3>1, <3>2, MetricsFields
    <3>4. metrics \in MetricsTo(now') BY <3>2, <3>3 DEF MetricsTo
    <3> QED BY <1>1, <3>4
  <2> QED BY <1>1, <2>1, <2>2, <2>3 DEF Typed
<1>3. (Named /\ CountersOwned /\ CountsRight /\ RingRight /\ Reading)'
  BY <1>1 DEF Named, CountersOwned, CountsRight, RingRight, Place, Count, Requested,
              Counted, Denied, Recorded, Reading
<1> QED BY <1>2, <1>3

LEMMA RestartKeeps ==
  ASSUME MInv, Restart PROVE MInv'
<1>1. Fresh' BY DEF Restart, Fresh, MInv, Typed
<1> QED BY <1>1, FreshIsRight, PTL

LEMMA StutterKeeps ==
  ASSUME MInv, UNCHANGED mvars PROVE MInv'
<1>1. UNCHANGED <<now, pc, name, stamp, held, metrics, added, reader>>
  BY DEF mvars, calls
<1>2. Typed' BY <1>1 DEF MInv, Typed
<1>3. (Named /\ CountersOwned /\ CountsRight /\ RingRight /\ Reading)'
  BY <1>1 DEF MInv, Named, CountersOwned, CountsRight, RingRight, Place, Count, Requested,
              Counted, Denied, Recorded, Reading
<1> QED BY <1>2, <1>3 DEF MInv

LEMMA MInvInitial == Init => MInv
<1>1. Init => Fresh BY DEF Init, Fresh
<1> QED BY <1>1, FreshIsRight

LEMMA MInvKept == MInv /\ [Next]_vars => MInv'
<1> SUFFICES ASSUME MInv, [Next]_vars PROVE MInv' OBVIOUS
<1>1. ASSUME NEW g \in Updates, Update(g) PROVE MInv'
  <2>1. UNCHANGED <<now, reader>> BY <1>1 DEF Update
  <2>2. CASE Route(g)
    BY <2>1, <2>2, IgnoreKeeps, GrantKeeps, RateDeniedKeeps DEF Route
  <2>3. CASE RecordRequest(g)
    BY <2>1, <2>3, AddTotalKeeps, StampKeeps, AddRingKeeps, LoadOrStoreKeeps,
       AddCountKeeps DEF RecordRequest
  <2>4. CASE /\ Handle(g) \/ RecordEvent(g)
             /\ UNCHANGED <<name, stamp, held, metrics, added>>
    BY <2>1, <2>4, AnswerKeeps DEF Handle, RecordEvent
  <2> QED BY <1>1, <2>2, <2>3, <2>4 DEF Update
<1>2. CASE Dashboard BY <1>2, SnapshotKeeps, StutterKeeps DEF Dashboard
<1>3. CASE UNCHANGED vars BY <1>3, StutterKeeps DEF vars
<1> QED BY <1>1, <1>2, <1>3, TickKeeps, RestartKeeps DEF Next

-----------------------------------------------------------------------------
(* What MInv says of the counters and the dashboard                         *)

LEMMA MInvCountsAddUp == MInv => CountsAddUp
<1> SUFFICES ASSUME MInv PROVE CountsAddUp OBVIOUS
<1> DEFINE R == {g \in Updates : name[g] # None /\ pc[g] \in Ended}
           I == {g \in Updates : pc[g] \in Inside}
           F == [n \in Names |-> Count(n)]
<1>1. R \in SUBSET Updates /\ I \in SUBSET Updates OBVIOUS
<1>2. IsFiniteSet(R) /\ IsFiniteSet(I) BY <1>1, SubsetOfUpdates
<1>3. Requested = R \cup I /\ R \cap I = {}
  BY DEF MInv, Typed, Labels, Named, Requested, Counted, Ended, Inside
<1>4. Cardinality(Requested) = Cardinality(R) + Cardinality(I)
  <2> HIDE DEF R, I
  <2> QED BY <1>2, <1>3, CardinalityApart
<1>5. SumFunction(F) = Cardinality(R)
  <2>1. \A n \in Names : F[n] = Cardinality({g \in R : name[g] = n})
    <3> SUFFICES ASSUME NEW n \in Names
                 PROVE  F[n] = Cardinality({g \in R : name[g] = n})
      OBVIOUS
    <3>1. {g \in R : name[g] = n} = Recorded(n) BY MetricsAssumption DEF Recorded
    <3>2. F[n] = Count(n) OBVIOUS
    <3> HIDE DEF R, F
    <3> QED BY <3>1, <3>2 DEF MInv, CountsRight
  <2>2. \A g \in R : name[g] \in Names BY DEF MInv, Typed
  <2>3. SumFunction(F) = SumFunctionOnSet(F, Names) BY SumOfFunction
  <2> HIDE DEF R, F
  <2> QED BY <1>2, <2>1, <2>2, <2>3, MetricsAssumption, SumOfClasses
<1> HIDE DEF R
<1> QED BY <1>4, <1>5 DEF MInv, CountsRight, CountsAddUp, Requested

LEMMA MInvSnapshotFresh == MInv => SnapshotFresh
<1> SUFFICES ASSUME MInv, reader.at = "taken" PROVE SnapshotFresh BY DEF SnapshotFresh
<1> QED BY DEF MInv, Reading, SnapshotFresh

LEMMA MInvTypeOK == MInv => MTypeOK /\ pc \in [Updates -> Labels]
<1> SUFFICES ASSUME MInv PROVE MTypeOK /\ pc \in [Updates -> Labels] OBVIOUS
<1> DEFINE u == Cardinality(Updates)
<1>1. u \in Nat /\ \A S \in SUBSET Updates : Cardinality(S) \in 0..u
  <2>1. IsFiniteSet(Updates) BY MetricsAssumption
  <2>2. Updates \in SUBSET Updates OBVIOUS
  <2>3. u \in Nat BY <2>2, SubsetOfUpdates
  <2> SUFFICES ASSUME NEW S \in SUBSET Updates PROVE Cardinality(S) \in 0..u BY <2>3
  <2>4. Cardinality(S) \in Nat BY SubsetOfUpdates
  <2>5. Cardinality(S) <= u BY <2>1, FS_Subset
  <2> QED BY <2>3, <2>4, <2>5
<1> HIDE DEF u
<1>2. metrics.total \in 0..u /\ metrics.denied \in 0..u
  <2>1. Requested \in SUBSET Updates /\ Denied \in SUBSET Updates
    BY DEF Requested, Denied
  <2> QED BY <1>1, <2>1 DEF MInv, CountsRight
<1>3. \A n \in Names : Count(n) \in 0..u
  <2>1. \A n : Recorded(n) \in SUBSET Updates BY DEF Recorded
  <2> QED BY <1>1, <2>1 DEF MInv, CountsRight
<1>4. /\ metrics \in MetricsTo(now) /\ None \notin Updates
      /\ metrics.counted \in [Updates -> Nat] /\ metrics.total \in Nat
  BY MetricsAssumption, MetricsFields DEF MInv, Typed
<1>5. metrics.counted \in [Updates -> 0..u]
  <2> SUFFICES ASSUME NEW g \in Updates PROVE metrics.counted[g] \in 0..u
    BY <1>4
  <2>1. CASE \A n \in Names : metrics.counterOf[n] # g
    BY <1>1, <2>1 DEF MInv, CountersOwned
  <2>2. CASE \E n \in Names : metrics.counterOf[n] = g
    <3>1. PICK n \in Names : metrics.counterOf[n] = g BY <2>2
    <3>2. Count(n) = metrics.counted[g] BY <1>4, <3>1 DEF Count
    <3> QED BY <1>3, <3>2
  <2> QED BY <2>1, <2>2
<1>6. metrics \in
       [total : 0..u, denied : 0..u, counterOf : [Names -> Updates \cup {None}],
        counted : [Updates -> 0..u], times : [0..Size - 1 -> Never..now],
        pos : 0..Size - 1]
  BY <1>2, <1>4, <1>5 DEF MetricsTo
<1>7. reader.total \in 0..u /\ reader.counts \in [Names -> 0..u]
  <2>1. reader.total \in Nat /\ reader.counts \in [Names -> Nat] BY DEF MInv, Typed
  <2>2. reader.total <= metrics.total BY DEF MInv, Reading
  <2>3. reader.total \in 0..u BY <1>1, <1>2, <2>1, <2>2
  <2> SUFFICES ASSUME NEW n \in Names PROVE reader.counts[n] \in 0..u BY <2>1, <2>3
  <2>4. reader.counts[n] \in Nat /\ reader.counts[n] <= Count(n)
    BY <2>1 DEF MInv, Reading
  <2> QED BY <1>1, <1>3, <2>4
<1>8. reader \in
       [at : {"idle", "rate", "range", "taken"}, now : Nat, total : 0..u, rate : 0..Size,
        denied : Nat, counts : [Names -> 0..u], pending : SUBSET Names, before : SUBSET Updates]
  BY <1>7 DEF MInv, Typed
<1>9. stamp \in [Updates -> Nat] BY DEF MInv, Typed
<1> QED BY <1>6, <1>8, <1>9 DEF MInv, Typed, MTypeOK, u

LEMMA PlaceBijective ==
  ASSUME NEW l \in Nat, NEW p \in 0..Size - 1
  PROVE  /\ \A i, j \in 0..Size - 1 : PlaceIn(l, p, i) = PlaceIn(l, p, j) => i = j
         /\ \A k \in Int : k <= l /\ k > l - Size =>
              \E i \in 0..Size - 1 : PlaceIn(l, p, i) = k
         /\ \A i \in 0..Size - 1 : PlaceIn(l, p, i) \in Int /\ PlaceIn(l, p, i) <= l
                                   /\ PlaceIn(l, p, i) > l - Size
<1>1. Size \in Nat \ {0} BY MetricsAssumption
<1>2. \A i, j \in 0..Size - 1 : PlaceIn(l, p, i) = PlaceIn(l, p, j) => i = j
  BY <1>1 DEF PlaceIn
<1>3. ASSUME NEW k \in Int, k <= l, k > l - Size
      PROVE  \E i \in 0..Size - 1 : PlaceIn(l, p, i) = k
  <2> DEFINE i == k - l + p - 1
             j == k - l + p + Size - 1
  <2>1. CASE i >= 0
    <3>1. i \in 0..Size - 1 /\ PlaceIn(l, p, i) = k BY <1>1, <1>3, <2>1 DEF PlaceIn
    <3> QED BY <3>1
  <2>2. CASE i < 0
    <3>1. j \in 0..Size - 1 /\ PlaceIn(l, p, j) = k BY <1>1, <1>3, <2>2 DEF PlaceIn
    <3> QED BY <3>1
  <2> QED BY <2>1, <2>2
<1>4. \A i \in 0..Size - 1 : PlaceIn(l, p, i) \in Int /\ PlaceIn(l, p, i) <= l
                            /\ PlaceIn(l, p, i) > l - Size
  BY <1>1 DEF PlaceIn
<1> QED BY <1>2, <1>3, <1>4

(* Of the slots and the requests of the window: the slots are among the     *)
(* requests, they are all of these if the buffer has them, and else full.   *)
LEMMA MInvRateRight == MInv => RateRight
<1> SUFFICES ASSUME MInv PROVE RateRight OBVIOUS
<1> DEFINE since == now - Window
           l == Len(added)
           S == {i \in 0..Size - 1 : metrics.times[i] # Never /\ metrics.times[i] >= since}
           A == {i \in DOMAIN added : added[i] >= since}
           f == [i \in S |-> Place(i)]
<1>1. /\ l \in Nat /\ DOMAIN added = 1..l /\ \A k \in 1..l : added[k] \in Nat
      /\ since \in Int /\ Size \in Nat \ {0} /\ metrics.pos \in 0..Size - 1
  BY MetricsAssumption, MetricsFields DEF MInv, Typed
<1>2. \A i : Place(i) = PlaceIn(l, metrics.pos, i) BY DEF Place
<1> HIDE DEF l
<1>3. /\ \A i, j \in 0..Size - 1 :
           PlaceIn(l, metrics.pos, i) = PlaceIn(l, metrics.pos, j) => i = j
      /\ \A k \in Int : k <= l /\ k > l - Size =>
           \E i \in 0..Size - 1 : PlaceIn(l, metrics.pos, i) = k
      /\ \A i \in 0..Size - 1 :
           /\ PlaceIn(l, metrics.pos, i) \in Int /\ PlaceIn(l, metrics.pos, i) <= l
           /\ PlaceIn(l, metrics.pos, i) > l - Size
  BY <1>1, PlaceBijective
<1>4. IsFiniteSet(1..l) /\ Cardinality(1..l) = l
  <2>1. Cardinality(1..l) = IF 1 > l THEN 0 ELSE l - 1 + 1 BY <1>1, FS_Interval
  <2> QED BY <1>1, <2>1, FS_Interval
<1>5. \A i \in 0..Size - 1 :
        /\ Place(i) = PlaceIn(l, metrics.pos, i) /\ Place(i) \in Int
        /\ Place(i) <= l /\ Place(i) > l - Size
  BY <1>2, <1>3
<1>6. \A i \in 0..Size - 1 :
        i \in S <=> Place(i) \in 1..l /\ added[Place(i)] >= since
  <2> SUFFICES ASSUME NEW i \in 0..Size - 1
               PROVE  i \in S <=> Place(i) \in 1..l /\ added[Place(i)] >= since
    OBVIOUS
  <2>1. metrics.times[i] = IF Place(i) >= 1 THEN added[Place(i)] ELSE Never
    BY DEF MInv, RingRight
  <2>2. Place(i) \in Int /\ Place(i) <= l BY <1>5
  <2>3. CASE Place(i) >= 1
    <3>1. Place(i) \in 1..l BY <1>1, <2>2, <2>3
    <3>2. added[Place(i)] # Never BY <1>1, <3>1 DEF Never
    <3> QED BY <2>1, <2>3, <3>1, <3>2
  <2>4. CASE ~ (Place(i) >= 1) BY <1>1, <2>1, <2>2, <2>4
  <2> QED BY <2>3, <2>4
<1>7. IsFiniteSet(S) /\ IsFiniteSet(A)
  <2>1. IsFiniteSet(0..Size - 1) /\ IsFiniteSet(1..l) BY <1>1, FS_Interval
  <2>2. S \in SUBSET (0..Size - 1) /\ A \in SUBSET (1..l) BY <1>1
  <2> HIDE DEF S, A
  <2> QED BY <2>1, <2>2, FS_Subset
<1>8. CountSince(since) = Cardinality(S) BY DEF CountSince
<1> HIDE DEF S
<1>9. f \in Injection(S, A)
  <2>1. S \subseteq 0..Size - 1 BY DEF S
  <2>2. \A i \in S : Place(i) \in A BY <1>1, <1>6, <2>1
  <2>3. \A i, j \in S : Place(i) = Place(j) => i = j
    BY <1>2, <1>3, <2>1
  <2> HIDE DEF A
  <2> QED BY <2>2, <2>3 DEF Injection, IsInjective
<1> HIDE DEF A, f
<1>10. Cardinality(S) <= Cardinality(A) BY <1>7, <1>9, FS_Injection
<1>11. Cardinality(S) \in Nat /\ Cardinality(A) \in Nat BY <1>7, FS_CardinalityType
<1>12. ASSUME \A k \in A : k > l - Size PROVE Cardinality(S) = Cardinality(A)
  <2>1. \A k \in A : \E i \in S : f[i] = k
    <3> SUFFICES ASSUME NEW k \in A PROVE \E i \in S : f[i] = k OBVIOUS
    <3>1. k \in 1..l /\ added[k] >= since /\ k > l - Size BY <1>1, <1>12 DEF A
    <3>2. PICK i \in 0..Size - 1 : PlaceIn(l, metrics.pos, i) = k
      BY <1>1, <1>3, <3>1
    <3>3. Place(i) = k BY <1>5, <3>2
    <3> QED BY <1>6, <3>1, <3>3 DEF f
  <2>2. f \in Surjection(S, A) BY <1>9, <2>1 DEF Injection, Surjection
  <2> QED BY <1>7, <1>9, <2>2, FS_Injection
<1>13. ASSUME \A i, j \in DOMAIN added : i < j => added[i] <= added[j]
       PROVE  Cardinality(S) = IF Cardinality(A) < Size THEN Cardinality(A) ELSE Size
  <2>1. CASE l < Size
    <3>1. \A k \in A : k > l - Size BY <1>1, <2>1 DEF A
    <3>2. Cardinality(A) <= l
      <4>1. A \in SUBSET (1..l) BY <1>1 DEF A
      <4> QED BY <1>4, <4>1, FS_Subset
    <3>3. Cardinality(A) < Size BY <1>1, <1>11, <2>1, <3>2
    <3> QED BY <1>12, <3>1, <3>3
  <2>2. CASE l >= Size /\ \E k \in 1..l : k > l - Size /\ k \notin A
    <3>1. PICK k \in 1..l : k > l - Size /\ k \notin A BY <2>2
    <3>2. added[k] < since BY <1>1, <3>1 DEF A
    <3>3. A \in SUBSET (k + 1..l)
      <4> SUFFICES ASSUME NEW j \in A PROVE j \in k + 1..l OBVIOUS
      <4>1. j \in 1..l /\ added[j] >= since BY <1>1 DEF A
      <4>2. j < k => added[j] <= added[k] BY <1>1, <1>13, <4>1
      <4>3. ~ (j < k)
        <5>1. added[j] \in Nat /\ added[k] \in Nat BY <1>1, <4>1
        <5> QED BY <1>1, <3>2, <4>1, <4>2, <5>1
      <4>4. j # k BY <3>1
      <4> QED BY <1>1, <4>1, <4>3, <4>4
    <3>4. \A j \in A : j > l - Size BY <1>1, <3>1, <3>3
    <3>5. Cardinality(A) < Size
      <4> DEFINE m == k + 1
      <4>1. m \in Int /\ l \in Int BY <1>1
      <4>2. m = k + 1 /\ A \in SUBSET (m..l) BY <3>3
      <4> HIDE DEF m
      <4>3. IsFiniteSet(m..l) /\ Cardinality(m..l) = IF m > l THEN 0 ELSE l - m + 1
        BY <4>1, FS_Interval
      <4>4. Cardinality(A) <= Cardinality(m..l) BY <4>2, <4>3, FS_Subset
      <4> QED BY <1>1, <1>11, <3>1, <4>2, <4>3, <4>4
    <3> QED BY <1>12, <3>4, <3>5
  <2>3. CASE l >= Size /\ \A k \in 1..l : k > l - Size => k \in A
    <3>1. S = 0..Size - 1
      <4> SUFFICES ASSUME NEW i \in 0..Size - 1 PROVE i \in S BY DEF S
      <4>1. Place(i) \in 1..l /\ Place(i) > l - Size BY <1>1, <1>5, <2>3
      <4>2. Place(i) \in A BY <2>3, <4>1
      <4> QED BY <1>6, <4>1, <4>2 DEF A
    <3>2. Cardinality(0..Size - 1) = Size BY <1>1, FS_Interval
    <3> QED BY <1>1, <1>10, <1>11, <3>1, <3>2
  <2> QED BY <1>1, <2>1, <2>2, <2>3
<1> QED BY <1>8, <1>10, <1>13 DEF RateRight, A

-----------------------------------------------------------------------------
(* Sums that grow, and images                                               *)

LEMMA SumApart ==
  ASSUME NEW f, NEW A, IsFiniteSet(A), NEW B, IsFiniteSet(B), A \cap B = {},
         \A s \in A \cup B : f[s] \in Nat
  PROVE  SumFunctionOnSet(f, A \cup B) = SumFunctionOnSet(f, A) + SumFunctionOnSet(f, B)
<1> DEFINE Sum(C) == SumFunctionOnSet(f, C)
           P == {C \in SUBSET B : Sum(A \cup C) = Sum(A) + Sum(C)}
<1>1. Sum(A) \in Nat BY SumType
<1>2. {} \in P
  <2>1. A \cup {} = A OBVIOUS
  <2>2. Sum({}) = 0 BY SumOfNone
  <2> HIDE DEF Sum
  <2> QED BY <1>1, <2>1, <2>2
<1>3. ASSUME NEW C \in SUBSET B, NEW x \in B \ C, C \in P PROVE C \cup {x} \in P
  <2> DEFINE E == A \cup C
  <2>1. IsFiniteSet(C) BY FS_Subset
  <2>2. IsFiniteSet(E) BY <2>1, FS_Union
  <2>3. x \notin E /\ f[x] \in Nat /\ \A s \in E : f[s] \in Nat OBVIOUS
  <2>4. Sum(C \cup {x}) = f[x] + Sum(C) BY <2>1, <2>3, SumAdd
  <2>5. Sum(E \cup {x}) = f[x] + Sum(E)
    <3> HIDE DEF E
    <3> QED BY <2>2, <2>3, SumAdd
  <2>6. A \cup (C \cup {x}) = E \cup {x} OBVIOUS
  <2>7. Sum(C) \in Nat BY <2>1, <2>3, SumType
  <2>8. Sum(E) = Sum(A) + Sum(C) BY <1>3
  <2>9. Sum(A \cup (C \cup {x})) = Sum(E \cup {x}) BY <2>6
  <2>10. Sum(A \cup (C \cup {x})) = Sum(A) + Sum(C \cup {x})
    <3> HIDE DEF E, Sum
    <3> QED BY <1>1, <2>3, <2>4, <2>5, <2>7, <2>8, <2>9
  <2> QED BY <2>10
<1> HIDE DEF P
<1>4. B \in P BY <1>2, <1>3, GrowingInduction
<1> QED BY <1>4 DEF P

LEMMA SumOfPart ==
  ASSUME NEW f, NEW B, IsFiniteSet(B), NEW A \in SUBSET B, \A s \in B : f[s] \in Nat
  PROVE  SumFunctionOnSet(f, A) <= SumFunctionOnSet(f, B)
<1> DEFINE C == B \ A
<1>1. IsFiniteSet(A) /\ IsFiniteSet(C) BY FS_Subset
<1>2. A \cap C = {} /\ A \cup C = B OBVIOUS
<1>3. \A s \in A \cup C : f[s] \in Nat OBVIOUS
<1> HIDE DEF C
<1>4. SumFunctionOnSet(f, A \cup C) = SumFunctionOnSet(f, A) + SumFunctionOnSet(f, C)
  BY <1>1, <1>2, <1>3, SumApart
<1>5. SumFunctionOnSet(f, A) \in Nat /\ SumFunctionOnSet(f, C) \in Nat
  BY <1>1, <1>3, SumType
<1>6. SumFunctionOnSet(f, B) = SumFunctionOnSet(f, A \cup C) BY <1>2
<1> QED BY ONLY <1>4, <1>5, <1>6

LEMMA SumOfMore ==
  ASSUME NEW f, NEW h, NEW S, IsFiniteSet(S),
         \A s \in S : f[s] \in Nat /\ h[s] \in Nat /\ f[s] <= h[s]
  PROVE  SumFunctionOnSet(f, S) <= SumFunctionOnSet(h, S)
<1> DEFINE P == {A \in SUBSET S : SumFunctionOnSet(f, A) <= SumFunctionOnSet(h, A)}
<1>1. {} \in P BY SumOfNone
<1>2. ASSUME NEW A \in SUBSET S, NEW x \in S \ A, A \in P PROVE A \cup {x} \in P
  <2>1. IsFiniteSet(A) BY FS_Subset
  <2>2. /\ SumFunctionOnSet(f, A \cup {x}) = f[x] + SumFunctionOnSet(f, A)
        /\ SumFunctionOnSet(h, A \cup {x}) = h[x] + SumFunctionOnSet(h, A)
    BY <2>1, SumAdd
  <2>3. SumFunctionOnSet(f, A) \in Nat /\ SumFunctionOnSet(h, A) \in Nat
    BY <2>1, SumType
  <2>4. f[x] \in Nat /\ h[x] \in Nat /\ f[x] <= h[x] OBVIOUS
  <2> QED BY <1>2, <2>2, <2>3, <2>4
<1> HIDE DEF P
<1>3. S \in P BY <1>1, <1>2, GrowingInduction
<1> QED BY <1>3 DEF P

(* What Exec does to the counts.                                            *)
LEMMA SumOfOneMore ==
  ASSUME NEW f, NEW D, IsFiniteSet(D), \A q \in D : f[q] \in Nat, NEW r, NEW h,
         h = [q \in D \cup {r} |->
                IF q # r THEN f[q] ELSE IF r \in D THEN f[r] + 1 ELSE 1]
  PROVE  SumFunctionOnSet(h, D \cup {r}) = SumFunctionOnSet(f, D) + 1
<1> DEFINE R == D \ {r}
<1>1. IsFiniteSet(R) /\ r \notin R BY FS_Subset
<1>2. \A q \in R : f[q] \in Nat /\ h[q] = f[q] OBVIOUS
<1>3. D \cup {r} = R \cup {r} OBVIOUS
<1>4. h[r] = (IF r \in D THEN f[r] + 1 ELSE 1) /\ h[r] \in Nat OBVIOUS
<1>5. SumFunctionOnSet(h, R) = SumFunctionOnSet(f, R)
  <2> HIDE DEF R
  <2> QED BY <1>1, <1>2, SumSame
<1>6. SumFunctionOnSet(f, R) \in Nat BY <1>1, <1>2, SumType
<1>7. SumFunctionOnSet(h, R \cup {r}) = h[r] + SumFunctionOnSet(h, R)
  <2> HIDE DEF R
  <2> QED BY <1>1, <1>2, <1>4, SumAdd
<1>8. CASE r \in D
  <2>1. SumFunctionOnSet(f, D) = f[r] + SumFunctionOnSet(f, R) BY <1>8, SumRemove
  <2>2. h[r] = f[r] + 1 /\ f[r] \in Nat BY <1>4, <1>8
  <2>3. SumFunctionOnSet(h, D \cup {r}) = SumFunctionOnSet(h, R \cup {r}) BY <1>3
  <2> HIDE DEF R
  <2> QED BY ONLY <1>5, <1>6, <1>7, <2>1, <2>2, <2>3
<1>9. CASE r \notin D
  <2>1. D = R BY <1>9
  <2> HIDE DEF R
  <2> QED BY <1>3, <1>4, <1>5, <1>6, <1>7, <1>9, <2>1
<1> QED BY <1>8, <1>9

LEMMA ImageOf ==
  ASSUME NEW S, IsFiniteSet(S), NEW f
  PROVE  /\ IsFiniteSet({f[s] : s \in S})
         /\ Cardinality({f[s] : s \in S}) <= Cardinality(S)
         /\ (\A s, t \in S : f[s] = f[t] => s = t) =>
              Cardinality({f[s] : s \in S}) = Cardinality(S)
<1> DEFINE g == [s \in S |-> f[s]]
           T == {f[s] : s \in S}
<1>1. g \in Surjection(S, T) BY DEF Surjection
<1>2. (\A s, t \in S : f[s] = f[t] => s = t) => g \in Injection(S, T)
  BY DEF Injection, IsInjective
<1> HIDE DEF g, T
<1>3. /\ IsFiniteSet(T) /\ Cardinality(T) <= Cardinality(S)
      /\ Cardinality(T) = Cardinality(S) <=> g \in Injection(S, T)
  BY <1>1, FS_Surjection
<1> QED BY <1>2, <1>3 DEF T

LEMMA UsersFinite ==
  ASSUME NEW R, IsFiniteSet(R)
  PROVE  IsFiniteSet({r.user : r \in R}) /\ UsersOf(R) \in Nat
<1> DEFINE f == [r \in R |-> r.user]
<1>1. {r.user : r \in R} = {f[r] : r \in R} OBVIOUS
<1> HIDE DEF f
<1>2. IsFiniteSet({r.user : r \in R}) BY <1>1, ImageOf
<1> QED BY <1>2, FS_CardinalityType DEF UsersOf

LEMMA UsersOfPart ==
  ASSUME NEW S, IsFiniteSet(S), NEW R \in SUBSET S
  PROVE  UsersOf(R) <= UsersOf(S)
<1>1. {r.user : r \in R} \in SUBSET {r.user : r \in S} OBVIOUS
<1>2. IsFiniteSet({r.user : r \in S}) BY UsersFinite
<1> QED BY <1>1, <1>2, FS_Subset DEF UsersOf

LEMMA DaysStayBelow ==
  ASSUME NEW daily, NEW since \in Int, NEW to \in Nat, NEW users \in Nat,
         NEW downloads \in Nat, DaysBelow(daily, since, to, users, downloads),
         NEW later \in Nat, to <= later, NEW more \in Nat, users <= more,
         NEW others \in Nat, downloads <= others
  PROVE  DaysBelow(daily, since, later, more, others)
<1> USE DEF DaysBelow
<1> DEFINE F == [d \in daily |-> d.downloads]
<1>1. SumFunction(F) \in Nat
  <2>1. \A d \in daily : F[d] \in Nat OBVIOUS
  <2>2. DOMAIN F = daily OBVIOUS
  <2> HIDE DEF F
  <2> QED BY <2>1, <2>2, SumType, SumOfFunction
<1>2. SumFunction(F) <= others
  <2>1. SumFunction(F) <= downloads OBVIOUS
  <2> HIDE DEF F
  <2> QED BY <1>1, <2>1
<1>3. \A d \in daily : d.day \in since..later /\ d.users <= more OBVIOUS
<1> QED BY <1>2, <1>3

-----------------------------------------------------------------------------
(* RecordEvent and QueryDailyJSON preserve SInv                             *)

LEMMA DbFacts ==
  ASSUME Stored
  PROVE  /\ IsFiniteSet(DOMAIN db) /\ UsersOf(DOMAIN db) \in Nat
         /\ \A rows \in SUBSET DOMAIN db :
              IsFiniteSet(rows) /\ SumOf(rows) \in Nat
         /\ Downloads(DOMAIN db) \in Nat
<1>1. IsFiniteSet(DOMAIN db) /\ \A r \in DOMAIN db : db[r] \in Nat BY DEF Stored
<1>2. ASSUME NEW rows \in SUBSET DOMAIN db
      PROVE  IsFiniteSet(rows) /\ SumOf(rows) \in Nat
  <2>1. IsFiniteSet(rows) BY <1>1, FS_Subset
  <2>2. \A r \in rows : db[r] \in Nat BY <1>1
  <2> QED BY <2>1, <2>2, SumType DEF SumOf
<1>3. UsersOf(DOMAIN db) \in Nat BY <1>1, UsersFinite
<1>4. {r \in DOMAIN db : r.event = "download"} \in SUBSET DOMAIN db OBVIOUS
<1>5. Downloads(DOMAIN db) \in Nat BY <1>2, <1>4 DEF Downloads
<1> QED BY <1>1, <1>2, <1>3, <1>5

(* A step that touches neither the database nor the report.                 *)
LEMMA StatsKept ==
  ASSUME SInv, now \in Nat, now' \in Nat, now <= now',
         UNCHANGED <<db, executed, report, query, salt>>,
         row' \in [Updates -> Rows \cup {NoRow}],
         \A g \in Updates : pc'[g] = "event" =>
           \/ pc[g] = "event" /\ row'[g] = row[g]
           \/ /\ row'[g] \in Rows /\ row'[g].day <= now
              /\ salt = Given => row'[g].user[1] = Given
  PROVE  SInv'
<1>1. \A r \in Rows : r.day \in Nat BY DEF Rows
<1>2. Stored'
  <2>1. ASSUME NEW g \in Updates, pc'[g] = "event"
        PROVE  /\ row'[g] \in Rows /\ row'[g].day <= now'
               /\ salt' = Given => row'[g].user[1] = Given
    <3>1. /\ row'[g] \in Rows /\ row'[g].day <= now
          /\ salt = Given => row'[g].user[1] = Given
      BY <2>1 DEF SInv, Stored
    <3> QED BY <1>1, <3>1
  <2>2. ASSUME NEW r \in DOMAIN db
        PROVE  /\ r \in Rows /\ db[r] \in Nat \ {0} /\ r.day <= now'
               /\ salt = Given => r.user[1] = Given
    BY <1>1 DEF SInv, Stored
  <2> QED BY <2>1, <2>2 DEF SInv, Stored
<1>3. Executed' BY DEF SInv, Executed, SumOf
<1>4. Reported'
  <2>1. UsersOf(DOMAIN db) \in Nat /\ Downloads(DOMAIN db) \in Nat
    BY DbFacts DEF SInv
  <2>2. /\ UsersOf(DOMAIN db)' = UsersOf(DOMAIN db)
        /\ Downloads(DOMAIN db)' = Downloads(DOMAIN db)
    BY DEF UsersOf, Downloads, SumOf
  <2>3. query # "idle" => report.since \in Int /\ report.since <= now /\ report.since <= now'
    BY DEF SInv, Reported
  <2>4. query = "totals" =>
          DaysBelow(report.daily, report.since, now',
                    UsersOf(DOMAIN db), Downloads(DOMAIN db))
    BY <2>1, <2>3, DaysStayBelow DEF SInv, Reported
  <2>5. query = "made" =>
          DaysBelow(report.daily, report.since, now', report.users, report.downloads)
    <3> SUFFICES ASSUME query = "made"
                 PROVE  DaysBelow(report.daily, report.since, now',
                                  report.users, report.downloads)
      OBVIOUS
    <3>1. /\ report.users \in Nat /\ report.downloads \in Nat /\ report.since \in Int
          /\ DaysBelow(report.daily, report.since, now, report.users, report.downloads)
      BY DEF SInv, Reported
    <3> QED BY <3>1, DaysStayBelow
  <2> QED BY <2>2, <2>3, <2>4, <2>5 DEF SInv, Reported
<1> QED BY <1>2, <1>3, <1>4 DEF SInv

LEMMA ExecKeeps ==
  ASSUME SInv, now \in Nat, UNCHANGED now, NEW g \in Updates,
         Goto(g, "event", "done"), pc \in [Updates -> Labels], Exec(g)
  PROVE  SInv'
<1> DEFINE r == row[g]
           D == DOMAIN db
           Got(rows) == {q \in rows : q.event = "download"}
<1>1. /\ pc[g] = "event" /\ pc' = [pc EXCEPT ![g] = "done"]
      /\ db' = [q \in D \cup {r} |->
                  IF q # r THEN db[q] ELSE IF r \in D THEN db[r] + 1 ELSE 1]
      /\ executed' = [n |-> executed.n + 1, users |-> executed.users \cup {r.user[2]}]
      /\ row' = [row EXCEPT ![g] = NoRow]
      /\ UNCHANGED <<salt, report, query>>
  BY DEF Exec, Goto
<1>2. /\ r \in Rows /\ r.day <= now /\ (salt = Given => r.user[1] = Given)
      /\ IsFiniteSet(D) /\ row \in [Updates -> Rows \cup {NoRow}]
  BY <1>1 DEF SInv, Stored
<1>3. \A q \in D : q \in Rows /\ q.day <= now /\ (salt = Given => q.user[1] = Given)
  BY DEF SInv, Stored
<1>4. \A q \in D : db[q] \in Nat \ {0} BY DEF SInv, Stored
<1>5. DOMAIN db' = D \cup {r} BY <1>1
<1>6. \A q \in D \cup {r} : db'[q] \in Nat \ {0}
  <2> HIDE DEF r, D
  <2> QED BY <1>1, <1>4
<1>7. \A q \in D : db[q] \in Nat /\ db'[q] \in Nat /\ db[q] <= db'[q]
  <2> SUFFICES ASSUME NEW q \in D
               PROVE  db[q] \in Nat /\ db'[q] \in Nat /\ db[q] <= db'[q]
    OBVIOUS
  <2>1. db'[q] = IF q # r THEN db[q] ELSE db[q] + 1 BY <1>1
  <2>2. db[q] \in Nat BY <1>4
  <2> QED BY <2>1, <2>2
<1>8. IsFiniteSet(D \cup {r}) BY <1>2, FS_AddElement
<1>9. Stored'
  <2>1. salt' \in Salts /\ row' \in [Updates -> Rows \cup {NoRow}]
    BY <1>1, <1>2 DEF SInv, Stored
  <2>2. ASSUME NEW h \in Updates, pc'[h] = "event"
        PROVE  /\ row'[h] \in Rows /\ row'[h].day <= now'
               /\ salt' = Given => row'[h].user[1] = Given
    <3>1. h # g /\ pc[h] = "event" BY <1>1, <2>2
    <3>2. row'[h] = row[h] BY <1>1, <1>2, <3>1
    <3> QED BY <1>1, <3>1, <3>2 DEF SInv, Stored
  <2>3. ASSUME NEW q \in DOMAIN db'
        PROVE  /\ q \in Rows /\ db'[q] \in Nat \ {0} /\ q.day <= now'
               /\ salt' = Given => q.user[1] = Given
    <3>1. q \in D \cup {r} BY <1>5
    <3>2. db'[q] \in Nat \ {0} BY <1>6, <3>1
    <3>3. q \in Rows /\ q.day <= now /\ (salt = Given => q.user[1] = Given)
      BY <1>2, <1>3, <3>1
    <3> QED BY <1>1, <3>2, <3>3
  <2>4. IsFiniteSet(DOMAIN db') BY <1>5, <1>8
  <2> QED BY <2>1, <2>2, <2>3, <2>4 DEF Stored
<1>10. Executed'
  <2>1. SumFunctionOnSet(db', D \cup {r}) = SumFunctionOnSet(db, D) + 1
    <3>1. \A q \in D : db[q] \in Nat BY <1>4
    <3> HIDE DEF D, r
    <3> QED BY <1>1, <1>2, <3>1, SumOfOneMore
  <2>2. SumOf(DOMAIN db)' = executed'.n
    BY <1>1, <1>5, <2>1 DEF SInv, Executed, SumOf
  <2>3. executed'.users = {q.user[2] : q \in DOMAIN db'}
    BY <1>1, <1>5 DEF SInv, Executed
  <2> QED BY <2>2, <2>3 DEF Executed
<1>11. Reported'
  <2>1. UsersOf(DOMAIN db) \in Nat /\ Downloads(DOMAIN db) \in Nat
    BY DbFacts DEF SInv
  <2>2. UsersOf(DOMAIN db)' \in Nat /\ Downloads(DOMAIN db)' \in Nat
    <3>1. UsersOf(DOMAIN db') \in Nat BY <1>5, <1>8, UsersFinite
    <3>2. IsFiniteSet(Got(D \cup {r})) BY <1>8, FS_Subset
    <3>3. \A q \in Got(D \cup {r}) : db'[q] \in Nat BY <1>6
    <3>4. SumFunctionOnSet(db', Got(D \cup {r})) \in Nat
      <4> HIDE DEF D, r, Got
      <4> QED BY <3>2, <3>3, SumType
    <3> QED BY <1>5, <3>1, <3>4 DEF UsersOf, Downloads, SumOf
  <2>3. UsersOf(DOMAIN db) <= UsersOf(DOMAIN db)'
    <3>1. UsersOf(D) <= UsersOf(D \cup {r}) BY <1>8, UsersOfPart
    <3> QED BY <1>5, <3>1 DEF UsersOf
  <2>4. Downloads(DOMAIN db) <= Downloads(DOMAIN db)'
    <3>1. Got(D) \in SUBSET Got(D \cup {r}) OBVIOUS
    <3>2. IsFiniteSet(Got(D)) /\ IsFiniteSet(Got(D \cup {r})) BY <1>2, <1>8, FS_Subset
    <3>3. \A q \in Got(D) : db[q] \in Nat /\ db'[q] \in Nat /\ db[q] <= db'[q] BY <1>7
    <3>4. \A q \in Got(D \cup {r}) : db'[q] \in Nat BY <1>6
    <3> DEFINE old == SumFunctionOnSet(db, Got(D))
               mid == SumFunctionOnSet(db', Got(D))
               new == SumFunctionOnSet(db', Got(D \cup {r}))
    <3>5. Downloads(DOMAIN db) = old /\ Downloads(DOMAIN db)' = new
      BY <1>5 DEF Downloads, SumOf
    <3> HIDE DEF D, r, Got
    <3>6. old <= mid BY <3>2, <3>3, SumOfMore
    <3>7. mid <= new BY <3>1, <3>2, <3>4, SumOfPart
    <3>8. old \in Nat /\ mid \in Nat /\ new \in Nat
      BY <3>2, <3>3, <3>4, SumType
    <3> HIDE DEF old, mid, new
    <3> QED BY <3>5, <3>6, <3>7, <3>8
  <2>5. query = "totals" =>
          DaysBelow(report.daily, report.since, now,
                    UsersOf(DOMAIN db)', Downloads(DOMAIN db)')
    BY <2>1, <2>2, <2>3, <2>4, DaysStayBelow DEF SInv, Reported
  <2> QED BY <1>1, <2>5 DEF SInv, Reported
<1> QED BY <1>9, <1>10, <1>11 DEF SInv

(* The downloads of the days of a report are those of the rows of its days. *)
LEMMA DailyBelow ==
  ASSUME Stored, now \in Nat, report.since \in Int
  PROVE  DaysBelow(Daily, report.since, now, UsersOf(DOMAIN db), Downloads(DOMAIN db))
<1> DEFINE Late == {q \in DOMAIN db : q.day >= report.since}
           D == {q.day : q \in Late}
           Got(rows) == {q \in rows : q.event = "download"}
           On(A) == {q \in DOMAIN db : \E e \in A : e.day = q.day}
           F == [d \in Daily |-> d.downloads]
           day == [q \in Late |-> q.day]
           The(d) == [day |-> d, users |-> UsersOf(TheDay(d)),
                      downloads |-> Downloads(TheDay(d))]
           line == [d \in D |-> The(d)]
<1>1. IsFiniteSet(DOMAIN db) BY DbFacts
<1>2. IsFiniteSet(D)
  <2>1. IsFiniteSet(Late) BY <1>1, FS_Subset
  <2>2. D = {day[q] : q \in Late} OBVIOUS
  <2> HIDE DEF Late, D, day
  <2> QED BY <2>1, <2>2, ImageOf
<1>3. Daily = {The(d) : d \in D} BY DEF Daily
<1>4. IsFiniteSet(Daily)
  <2>1. Daily = {line[d] : d \in D} BY <1>3
  <2> HIDE DEF D, line
  <2> QED BY <1>2, <2>1, ImageOf
<1>5. \A d : TheDay(d) \in SUBSET DOMAIN db BY DEF TheDay
<1>6. \A e \in Daily :
        /\ e.day \in D /\ e.users = UsersOf(TheDay(e.day))
        /\ e.downloads = Downloads(TheDay(e.day))
  BY <1>3
<1>7. D \subseteq report.since..now
  <2>1. \A q \in DOMAIN db : q.day \in Nat /\ q.day <= now BY DEF Stored, Rows
  <2> QED BY <2>1
<1>8. \A d, e \in Daily : d.day = e.day => d = e BY <1>3
<1>9. ASSUME NEW d
      PROVE  UsersOf(TheDay(d)) \in Nat /\ UsersOf(TheDay(d)) <= UsersOf(DOMAIN db)
  <2>1. TheDay(d) \in SUBSET DOMAIN db BY <1>5
  <2>2. IsFiniteSet(TheDay(d)) BY <1>1, <2>1, FS_Subset
  <2> QED BY <1>1, <2>1, <2>2, UsersFinite, UsersOfPart
<1>10. ASSUME NEW d
       PROVE  /\ Got(TheDay(d)) \in SUBSET DOMAIN db /\ IsFiniteSet(Got(TheDay(d)))
              /\ Downloads(TheDay(d)) = SumOf(Got(TheDay(d)))
              /\ Downloads(TheDay(d)) \in Nat
  <2>1. Got(TheDay(d)) \in SUBSET DOMAIN db BY <1>5
  <2>2. Downloads(TheDay(d)) = SumOf(Got(TheDay(d))) BY DEF Downloads
  <2> HIDE DEF Got
  <2> QED BY <2>1, <2>2, DbFacts
<1>11. \A e \in Daily : F[e] = SumOf(Got(TheDay(e.day))) /\ F[e] \in Nat
  BY <1>6, <1>10
<1> DEFINE P == {A \in SUBSET Daily : SumFunctionOnSet(F, A) = SumOf(Got(On(A)))}
<1>12. {} \in P
  <2>1. Got(On({})) = {} OBVIOUS
  <2>2. SumOf({}) = 0 /\ SumFunctionOnSet(F, {}) = 0 BY SumOfNone DEF SumOf
  <2>3. SumFunctionOnSet(F, {}) = SumOf(Got(On({}))) BY <2>1, <2>2
  <2> QED BY <2>3
<1>13. ASSUME NEW A \in SUBSET Daily, NEW x \in Daily \ A, A \in P
       PROVE  A \cup {x} \in P
  <2> DEFINE X == Got(On(A))
             Y == Got(TheDay(x.day))
  <2>1. Got(On(A \cup {x})) = X \cup Y BY DEF TheDay
  <2>2. X \cap Y = {} BY <1>8 DEF TheDay
  <2>3. X \in SUBSET DOMAIN db /\ Y \in SUBSET DOMAIN db BY <1>10
  <2>4. IsFiniteSet(A) /\ IsFiniteSet(X) /\ IsFiniteSet(Y)
    <3> HIDE DEF X, Y
    <3> QED BY <1>1, <1>4, <2>3, FS_Subset
  <2>5. SumOf(X \cup Y) = SumOf(X) + SumOf(Y)
    <3>1. \A q \in X \cup Y : db[q] \in Nat BY <2>3 DEF Stored
    <3> HIDE DEF X, Y
    <3> QED BY <2>2, <2>4, <3>1, SumApart DEF SumOf
  <2>6. SumFunctionOnSet(F, A \cup {x}) = F[x] + SumFunctionOnSet(F, A)
    <3>1. \A s \in A : F[s] \in Nat BY <1>11
    <3>2. F[x] \in Nat /\ x \notin A BY <1>11
    <3> HIDE DEF F
    <3> QED BY <2>4, <3>1, <3>2, SumAdd
  <2>7. F[x] = SumOf(Y) BY <1>11
  <2>8. SumOf(X) \in Nat /\ SumOf(Y) \in Nat BY <2>3, DbFacts
  <2>9. SumFunctionOnSet(F, A) = SumOf(X) BY <1>13
  <2>10. SumFunctionOnSet(F, A \cup {x}) = SumOf(X \cup Y)
    <3> HIDE DEF X, Y, F
    <3> QED BY ONLY <2>5, <2>6, <2>7, <2>8, <2>9
  <2>11. SumFunctionOnSet(F, A \cup {x}) = SumOf(Got(On(A \cup {x}))) BY <2>1, <2>10
  <2> HIDE DEF F, Got, On
  <2> QED BY <2>11
<1> HIDE DEF P
<1>14. Daily \in P BY <1>4, <1>12, <1>13, GrowingInduction
<1>15. SumFunction(F) = SumOf(Got(On(Daily)))
  <2>1. DOMAIN F = Daily OBVIOUS
  <2>2. SumFunctionOnSet(F, Daily) = SumOf(Got(On(Daily))) BY <1>14 DEF P
  <2> HIDE DEF F
  <2> QED BY <2>1, <2>2, SumOfFunction
<1>16. SumOf(Got(On(Daily))) <= Downloads(DOMAIN db)
  <2> DEFINE X == Got(On(Daily))
             Y == Got(DOMAIN db)
  <2>1. X \in SUBSET Y /\ Y \in SUBSET DOMAIN db OBVIOUS
  <2>2. \A q \in Y : db[q] \in Nat BY DEF Stored
  <2>3. SumOf(Y) = Downloads(DOMAIN db) BY DEF Downloads
  <2> HIDE DEF X, Y
  <2>4. IsFiniteSet(Y) BY <1>1, <2>1, FS_Subset
  <2> QED BY <2>1, <2>2, <2>3, <2>4, SumOfPart DEF SumOf, X
<1>17. \A d \in Daily :
         /\ d.day \in report.since..now /\ d.downloads \in Nat
         /\ d.users \in Nat /\ d.users <= UsersOf(DOMAIN db)
  BY <1>6, <1>7, <1>9, <1>10
<1>18. SumFunction(F) <= Downloads(DOMAIN db) BY <1>15, <1>16
<1> QED BY <1>4, <1>8, <1>17, <1>18 DEF DaysBelow

LEMMA QueryKeeps ==
  ASSUME SInv, now \in Nat, UNCHANGED <<now, pc>>, QueryDailyJSON
  PROVE  SInv'
<1>1. UNCHANGED <<salt, row, db, executed>> BY DEF QueryDailyJSON
<1>2. Stored' /\ Executed' BY <1>1 DEF SInv, Stored, Executed, SumOf
<1>3. /\ UsersOf(DOMAIN db)' = UsersOf(DOMAIN db)
      /\ Downloads(DOMAIN db)' = Downloads(DOMAIN db)
  BY <1>1 DEF UsersOf, Downloads, SumOf
<1>4. NoReport = [since |-> 0, daily |-> {}, users |-> 0, downloads |-> 0]
  BY DEF NoReport
<1>5. report = [since |-> report.since, daily |-> report.daily,
                users |-> report.users, downloads |-> report.downloads]
  BY DEF SInv, Reported
<1>6. CASE QuerySince
  <2>1. /\ query' = "daily"
        /\ report' = [since |-> now - Days, daily |-> {}, users |-> 0, downloads |-> 0]
    BY <1>4, <1>6 DEF QuerySince
  <2>2. Days \in Nat BY RequestsAssumption
  <2>3. Reported' BY <2>1, <2>2 DEF Reported
  <2> QED BY <1>2, <2>3 DEF SInv
<1>7. CASE QueryDaily("daily", "totals")
  <2>1. /\ query = "daily" /\ query' = "totals"
        /\ report' = [since |-> report.since, daily |-> Daily,
                      users |-> report.users, downloads |-> report.downloads]
    BY <1>5, <1>7 DEF QueryDaily
  <2>2. report.since \in Int /\ report.since <= now BY <2>1 DEF SInv, Reported
  <2>3. DaysBelow(Daily, report.since, now, UsersOf(DOMAIN db), Downloads(DOMAIN db))
    BY <2>2, DailyBelow DEF SInv
  <2>4. Reported' BY <1>3, <2>1, <2>2, <2>3 DEF Reported
  <2> QED BY <1>2, <2>4 DEF SInv
<1>8. CASE TotalStats("totals", "made")
  <2>1. /\ query = "totals" /\ query' = "made"
        /\ report' = [since |-> report.since, daily |-> report.daily,
                      users |-> UsersOf(DOMAIN db), downloads |-> Downloads(DOMAIN db)]
    BY <1>5, <1>8 DEF TotalStats
  <2>2. /\ report.since \in Int /\ report.since <= now
        /\ DaysBelow(report.daily, report.since, now,
                     UsersOf(DOMAIN db), Downloads(DOMAIN db))
    BY <2>1 DEF SInv, Reported
  <2>3. UsersOf(DOMAIN db) \in Nat /\ Downloads(DOMAIN db) \in Nat
    BY DbFacts DEF SInv
  <2>4. Reported' BY <1>3, <2>1, <2>2, <2>3 DEF Reported
  <2> QED BY <1>2, <2>4 DEF SInv
<1>9. CASE Send
  <2>1. query' = "idle" /\ report' = NoReport BY <1>9 DEF Send
  <2>2. Reported' BY <1>4, <2>1 DEF Reported
  <2> QED BY <1>2, <2>2 DEF SInv
<1> QED BY <1>6, <1>7, <1>8, <1>9 DEF QueryDailyJSON

LEMMA UpdateKeepsStats ==
  ASSUME Inv, NEW g \in Updates, Update(g)
  PROVE  SInv'
<1>1. /\ now \in Nat /\ UNCHANGED now /\ pc \in [Updates -> Labels]
      /\ SInv /\ row \in [Updates -> Rows \cup {NoRow}]
  BY DEF Inv, MInv, Typed, Update, SInv, Stored
<1>2. CASE Route(g) \/ RecordRequest(g)
  <2>1. UNCHANGED <<salt, row, db, executed, report, query>>
    <3>1. CASE UNCHANGED stats BY <3>1 DEF stats
    <3>2. CASE Handle(g) \/ RecordEvent(g)
      BY <1>1, <1>2, <3>2
      DEF Route, Ignore, Grant, RecordRateDenied, RecordRequest, AddTotal, Stamp, AddRing,
          LoadOrStore, AddCount, Handle, RecordEvent, Goto
    <3> QED BY <3>1, <3>2 DEF Update
  <2>2. \A h \in Updates : pc'[h] = "event" => pc[h] = "event"
    BY <1>1, <1>2
    DEF Route, Ignore, Grant, RecordRateDenied, RecordRequest, AddTotal, Stamp, AddRing,
        LoadOrStore, AddCount, Goto
  <2> QED BY <1>1, <2>1, <2>2, StatsKept
<1>3. CASE Handle(g)
  <2>1. PICK u \in Users, e \in Events : Prepare(g, u, e) BY <1>3 DEF Handle
  <2> DEFINE r == [day |-> now, user |-> <<salt, u>>, event |-> e]
  <2>2. /\ row' = [row EXCEPT ![g] = r]
        /\ UNCHANGED <<salt, db, executed, report, query>>
        /\ pc' = [pc EXCEPT ![g] = "event"]
    BY <1>3, <2>1 DEF Prepare, hashUID, Handle, Goto
  <2>3. r \in Rows /\ r.day = now /\ r.user[1] = salt
    BY <1>1 DEF Rows, SInv, Stored
  <2> HIDE DEF r
  <2>4. row' \in [Updates -> Rows \cup {NoRow}] BY <1>1, <2>2, <2>3
  <2>5. ASSUME NEW h \in Updates, pc'[h] = "event"
        PROVE  \/ pc[h] = "event" /\ row'[h] = row[h]
               \/ /\ row'[h] \in Rows /\ row'[h].day <= now
                  /\ salt = Given => row'[h].user[1] = Given
    <3>1. CASE h = g
      <4>1. row'[h] = r BY <1>1, <2>2, <3>1
      <4> QED BY <1>1, <2>3, <4>1
    <3>2. CASE h # g BY <1>1, <2>2, <2>5, <3>2
    <3> QED BY <3>1, <3>2
  <2> QED BY <1>1, <2>2, <2>4, <2>5, StatsKept
<1>4. CASE RecordEvent(g)
  <2>1. CASE Exec(g) BY <1>1, <1>4, <2>1, ExecKeeps DEF RecordEvent
  <2>2. CASE ExecFails(g)
    <3>1. /\ row' = [row EXCEPT ![g] = NoRow]
          /\ UNCHANGED <<salt, db, executed, report, query>>
          /\ pc' = [pc EXCEPT ![g] = "done"]
      BY <1>4, <2>2 DEF ExecFails, RecordEvent, Goto
    <3>2. row' \in [Updates -> Rows \cup {NoRow}] BY <1>1, <3>1
    <3>3. \A h \in Updates : pc'[h] = "event" => pc[h] = "event" /\ row'[h] = row[h]
      BY <1>1, <3>1
    <3> QED BY <1>1, <3>1, <3>2, <3>3, StatsKept
  <2> QED BY <1>4, <2>1, <2>2 DEF RecordEvent
<1> QED BY <1>2, <1>3, <1>4 DEF Update

LEMMA RestartKeepsStats ==
  ASSUME Inv, Restart PROVE SInv'
<1>1. /\ now \in Nat /\ UNCHANGED <<now, db, executed>>
      /\ row' = [g \in Updates |-> NoRow] /\ query' = "idle" /\ report' = NoReport
      /\ salt' = IF salt = Given THEN salt ELSE salt + 1
      /\ pc' = [g \in Updates |-> IF pc[g] = "new" THEN "new" ELSE "gone"]
  BY DEF Inv, MInv, Typed, Restart
<1>2. salt \in Salts BY DEF Inv, SInv, Stored
<1>3. salt' \in Salts /\ (salt' = Given => salt = Given)
  BY <1>1, <1>2 DEF Salts, Given
<1>4. Stored' BY <1>1, <1>3 DEF Inv, SInv, Stored
<1>5. Executed' BY <1>1 DEF Inv, SInv, Executed, SumOf
<1>6. Reported' BY <1>1 DEF Reported, NoReport
<1> QED BY <1>4, <1>5, <1>6 DEF SInv

LEMMA SInvInitial == Init => SInv
<1> SUFFICES ASSUME Init PROVE SInv OBVIOUS
<1> USE DEF Init, UInit
<1>1. DOMAIN db = {} OBVIOUS
<1>2. salt \in Salts BY DEF Salts
<1>3. Stored BY <1>1, <1>2, FS_EmptySet DEF Stored
<1>4. Executed
  <2>1. SumOf(DOMAIN db) = 0 BY <1>1, SumOfNone DEF SumOf
  <2> QED BY <1>1, <2>1 DEF Executed
<1>5. Reported BY DEF Reported, NoReport
<1> QED BY <1>3, <1>4, <1>5 DEF SInv

LEMMA SInvKept == Inv /\ [Next]_vars => SInv'
<1> SUFFICES ASSUME Inv, [Next]_vars PROVE SInv' OBVIOUS
<1>1. now \in Nat /\ SInv /\ row \in [Updates -> Rows \cup {NoRow}]
  BY DEF Inv, MInv, Typed, SInv, Stored
<1>2. ASSUME UNCHANGED <<pc, stats>>, now' \in Nat, now <= now' PROVE SInv'
  BY <1>1, <1>2, StatsKept DEF stats
<1>3. CASE Dashboard
  <2>1. CASE Snapshot /\ UNCHANGED stats
    BY <1>1, <1>2, <2>1 DEF Snapshot, calls
  <2>2. CASE QueryDailyJSON /\ UNCHANGED mvars
    BY <1>1, <2>2, QueryKeeps DEF mvars, calls
  <2> QED BY <1>3, <2>1, <2>2 DEF Dashboard
<1>4. CASE Tick
  <2>1. now' = now + 1 BY <1>4 DEF Tick
  <2> QED BY <1>1, <1>2, <1>4, <2>1 DEF Tick, calls
<1>5. CASE UNCHANGED vars BY <1>1, <1>2, <1>5 DEF vars, mvars, calls
<1> QED BY <1>3, <1>4, <1>5, UpdateKeepsStats, RestartKeepsStats DEF Next

-----------------------------------------------------------------------------
(* What SInv says of the database and the report                            *)

LEMMA SInvEventsKept == SInv => EventsKept
<1> SUFFICES ASSUME SInv PROVE EventsKept OBVIOUS
<1> DEFINE U == {r.user : r \in DOMAIN db}
           f == [u \in U |-> u[2]]
<1>1. IsFiniteSet(U) BY UsersFinite DEF SInv, Stored
<1>2. executed.users = {f[u] : u \in U} BY DEF SInv, Executed
<1>3. ASSUME salt = Given PROVE \A u, v \in U : f[u] = f[v] => u = v
  <2>1. \A u \in U : u \in Salts \X Users /\ u[1] = Given
    BY <1>3 DEF SInv, Stored, Rows
  <2>2. \A u \in U : u = <<Given, f[u]>> BY <2>1
  <2> QED BY <2>2
<1>4. UsersOf(DOMAIN db) = Cardinality(U) BY DEF UsersOf
<1> HIDE DEF U, f
<1>5. /\ Cardinality(executed.users) <= Cardinality(U)
      /\ salt = Given => Cardinality(executed.users) = Cardinality(U)
  <2>1. /\ Cardinality({f[u] : u \in U}) <= Cardinality(U)
        /\ (\A u, v \in U : f[u] = f[v] => u = v) =>
             Cardinality({f[u] : u \in U}) = Cardinality(U)
    BY <1>1, ImageOf
  <2> QED BY <1>2, <1>3, <2>1
<1>6. Cardinality(executed.users) \in Nat /\ Cardinality(U) \in Nat
  BY <1>1, <1>2, ImageOf, FS_CardinalityType
<1> QED BY <1>4, <1>5, <1>6 DEF EventsKept, SInv, Executed

LEMMA SInvReportConsistent == Inv => ReportConsistent
<1> SUFFICES ASSUME Inv, query = "made" PROVE ReportConsistent BY DEF ReportConsistent
<1> DEFINE since == report.since
           daily == report.daily
<1>1. /\ now \in Nat /\ since \in Int /\ since <= now
      /\ DaysBelow(daily, since, now, report.users, report.downloads)
  BY DEF Inv, MInv, Typed, SInv, Reported
<1> QED BY <1>1 DEF DaysBelow, ReportConsistent

-----------------------------------------------------------------------------
(* THEOREMS                                                                 *)

LEMMA Invariance == Spec => []Inv
<1>1. Init => Inv BY MInvInitial, SInvInitial DEF Inv
<1>2. Inv /\ [Next]_vars => Inv' BY MInvKept, SInvKept DEF Inv
<1> QED BY <1>1, <1>2, PTL DEF Spec

(* No counter passes the number of updates and no position the buffer,      *)
(* whatever RecordRequest, Snapshot and RecordEvent do in whatever order.   *)
THEOREM TypeCorrect == Spec => []TypeOK
<1>1. Inv => TypeOK
  <2> SUFFICES ASSUME Inv PROVE TypeOK OBVIOUS
  <2>1. MTypeOK /\ pc \in [Updates -> Labels] BY MInvTypeOK DEF Inv
  <2>2. UTypeOK BY DEF Inv, MInv, Typed, SInv, Stored, Reported, UTypeOK
  <2> QED BY <2>1, <2>2 DEF TypeOK
<1> QED BY <1>1, Invariance, PTL

(* Whatever the interleaving of RecordRequest in any number of goroutines,  *)
(* every update is counted once, in the total and under its name, or as     *)
(* denied; and what RecordEvent has written stays, also across restarts.    *)
THEOREM NothingIsLost == Spec => []NothingLost
<1>1. Inv => NothingLost
  BY MInvCountsAddUp, SInvEventsKept
  DEF Inv, MInv, CountsRight, Denied, NothingLost
<1> QED BY <1>1, Invariance, PTL

(* RingBuffer.CountSince of a buffer of any size and for any window is the  *)
(* number of requests in it, up to the size of the buffer.                  *)
THEOREM RateIsRight == Spec => []RateRight
<1>1. Inv => RateRight BY MInvRateRight DEF Inv
<1> QED BY <1>1, Invariance, PTL

(* A Snapshot that is taken while the counters move misses no request that  *)
(* was recorded before it, and has none that was not made.                  *)
THEOREM SnapshotIsFresh == Spec => []SnapshotFresh
<1>1. Inv => SnapshotFresh BY MInvSnapshotFresh DEF Inv
<1> QED BY <1>1, Invariance, PTL

(* The days of a report of QueryDailyJSON never add up to more than its     *)
(* totals, although no transaction holds its two queries together.          *)
THEOREM ReportIsConsistent == Spec => []ReportConsistent
<1>1. Inv => ReportConsistent BY SInvReportConsistent
<1> QED BY <1>1, Invariance, PTL
=============================================================================
