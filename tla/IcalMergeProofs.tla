--------------------------- MODULE IcalMergeProofs ---------------------------
(***************************************************************************)
(* Theorems about IcalMerge and EventWindow, for any sources, calendars,   *)
(* windows and months, and any number of occurrences a walk may check.     *)
(***************************************************************************)
EXTENDS IcalMerge, FiniteSetTheorems, TLAPS

-----------------------------------------------------------------------------
(* Counting dates. *)

(* A set of natural numbers has a least one: of the intervals 1..n, one    *)
(* has no other inside.                                                    *)
LEMMA Least ==
    ASSUME NEW S \in SUBSET Nat, S # {}
    PROVE  \E n \in S : \A m \in S : n <= m
<1> DEFINE R == StrictSubsetOrdering(Nat)
           T == {1..n : n \in S}
<1>1. IsWellFoundedOn(R, FiniteSubsetsOf(Nat))
  BY FS_StrictSubsetOrderingWellFounded
<1>2. T \subseteq FiniteSubsetsOf(Nat) /\ T # {}
  <2>1. ASSUME NEW n \in S PROVE 1..n \in FiniteSubsetsOf(Nat)
    BY FS_Interval DEF FiniteSubsetsOf
  <2> QED BY <2>1
<1>3. ASSUME NEW m \in S, NEW n \in S, m < n PROVE <<1..m, 1..n>> \in R
  <2>1. n \in 1..n /\ n \notin 1..m /\ 1..m \subseteq 1..n
    BY <1>3
  <2>2. 1..m \in SUBSET Nat /\ 1..n \in SUBSET Nat
    OBVIOUS
  <2> QED BY <2>1, <2>2 DEF StrictSubsetOrdering
<1>4. \A m \in S : 1..m \in T
  OBVIOUS
<1>5. ASSUME NEW x \in T PROVE \E n \in S : x = 1..n
  BY <1>5
<1> HIDE DEF R, T
<1>6. PICK x \in T : \A y \in T : ~(<<y, x>> \in R)
  BY <1>1, <1>2, WFMin, Zenon
<1>7. PICK n \in S : x = 1..n
  BY <1>5, <1>6
<1>8. \A m \in S : ~(m < n)
  BY <1>3, <1>4, <1>6, <1>7
<1> QED BY <1>8

LEMMA BeforeFinite ==
    ASSUME NEW D, IsFiniteSet(D), NEW occ
    PROVE  /\ IsFiniteSet(Before(D, occ)) /\ Cardinality(Before(D, occ)) \in Nat
           /\ Cardinality(Before(D, occ)) <= Cardinality(D)
<1>1. Before(D, occ) \subseteq D
  BY DEF Before
<1> QED BY <1>1, FS_Subset, FS_CardinalityType

\* Every date has more dates before it than an earlier one.
LEMMA RankGrows ==
    ASSUME NEW D \in SUBSET Int, IsFiniteSet(D), NEW a \in D, NEW b \in Int, a < b
    PROVE  Cardinality(Before(D, a)) < Cardinality(Before(D, b))
<1>1. Before(D, a) \subseteq Before(D, b) /\ a \in Before(D, b) /\ a \notin Before(D, a)
  <2>1. \A x \in D : x < a => x < b
    OBVIOUS
  <2>2. Before(D, a) \subseteq Before(D, b)
    BY <2>1 DEF Before
  <2>3. a \in Before(D, b)
    BY DEF Before
  <2>4. ~(a < a)
    OBVIOUS
  <2> QED BY <2>2, <2>3, <2>4 DEF Before
<1>2. IsFiniteSet(Before(D, b)) /\ Cardinality(Before(D, b)) \in Nat
      /\ Cardinality(Before(D, a)) \in Nat
  BY BeforeFinite
<1>3. /\ Cardinality(Before(D, a)) <= Cardinality(Before(D, b))
      /\ Cardinality(Before(D, a)) # Cardinality(Before(D, b))
  BY <1>1, <1>2, FS_Subset
<1> QED BY <1>2, <1>3

LEMMA CheckedFinite ==
    ASSUME NEW D, IsFiniteSet(D)
    PROVE  IsFiniteSet(Checked(D)) /\ Cardinality(Checked(D)) \in Nat
<1>1. Checked(D) \subseteq D
  BY DEF Checked
<1> QED BY <1>1, FS_Subset, FS_CardinalityType

(* A walk over as many dates as it may check checks so many.               *)
LEMMA AllChecksUsed ==
    ASSUME NEW D \in SUBSET Int, IsFiniteSet(D), Cardinality(D) >= MaxChecks
    PROVE  Cardinality(Checked(D)) >= MaxChecks
<1> DEFINE Rank(x) == Cardinality(Before(D, x))
           Rest == D \ Checked(D)
           Ranks == {Rank(x) : x \in Rest}
<1>0. MaxChecks \in Nat /\ Cardinality(Checked(D)) \in Nat /\ Cardinality(D) \in Nat
  BY ChecksAssumption, CheckedFinite, FS_CardinalityType
<1> SUFFICES ASSUME Cardinality(Checked(D)) < MaxChecks PROVE FALSE
  BY <1>0
<1>1. \A x \in D : Rank(x) \in Nat
  BY BeforeFinite
<1>2. \A x \in D : x \in Checked(D) <=> Rank(x) < MaxChecks
  BY DEF Checked
<1>3. Rest # {}
  <2>1. Checked(D) \subseteq D
    BY DEF Checked
  <2>2. Rest = {} => Checked(D) = D
    BY <2>1
  <2> QED BY <1>0, <2>2
<1>4. PICK first \in Rest : \A x \in Rest : Rank(first) <= Rank(x)
  <2>1. Ranks \in SUBSET Nat /\ Ranks # {}
    BY <1>1, <1>3
  <2> HIDE DEF Rest, Rank
  <2>2. PICK n \in Ranks : \A m \in Ranks : n <= m
    BY <2>1, Least
  <2>3. PICK x \in Rest : Rank(x) = n
    BY <2>2
  <2> QED BY <2>2, <2>3
<1>5. Before(D, first) \subseteq Checked(D)
  <2> SUFFICES ASSUME NEW x \in Before(D, first), x \notin Checked(D) PROVE FALSE
    OBVIOUS
  <2>1. x \in D /\ x < first /\ x \in Rest /\ first \in D
    BY DEF Before
  <2>2. Rank(x) < Rank(first)
    BY <2>1, RankGrows
  <2> QED BY <1>1, <1>4, <2>1, <2>2
<1>6. Rank(first) <= Cardinality(Checked(D))
  BY <1>5, CheckedFinite, FS_Subset
<1> QED BY <1>0, <1>1, <1>2, <1>4, <1>6

\* A date with so many before it comes after every date that is checked.
LEMMA CheckedComeFirst ==
    ASSUME NEW D \in SUBSET Int, IsFiniteSet(D), NEW occ \in Int,
           Cardinality(Before(D, occ)) >= MaxChecks, NEW x \in Checked(D)
    PROVE  x < occ
<1>1. x \in D /\ Cardinality(Before(D, x)) < MaxChecks
  BY DEF Checked
<1>2. Cardinality(Before(D, occ)) \in Nat /\ Cardinality(Before(D, x)) \in Nat
  BY BeforeFinite
<1>3. CASE occ <= x
  <2>1. Before(D, occ) \subseteq Before(D, x)
    <3>1. x \in Int /\ \A y \in D : y \in Int /\ (y < occ => y < x)
      BY <1>1, <1>3
    <3> QED BY <3>1 DEF Before
  <2>2. Cardinality(Before(D, occ)) <= Cardinality(Before(D, x))
    BY <2>1, BeforeFinite, FS_Subset
  <2> QED BY <1>1, <1>2, <2>2, ChecksAssumption
<1> QED BY <1>1, <1>3

-----------------------------------------------------------------------------
(* The occurrences of a series. *)

Steps(start, every, n) == {start + k * every : k \in 0..(n - 1)}

LEMMA Ascending ==
    ASSUME NEW every \in Nat \ {0}, NEW j \in Nat, NEW k \in Nat, j < k
    PROVE  j * every < k * every
<1>1. (k - j) * every > 0 /\ k * every = j * every + (k - j) * every
  OBVIOUS
<1>2. j * every \in Nat /\ k * every \in Nat /\ (k - j) * every \in Nat
  OBVIOUS
<1> QED BY <1>1, <1>2

LEMMA StepsCounted ==
    ASSUME NEW start \in Int, NEW every \in Nat \ {0}, NEW n \in Nat
    PROVE  /\ IsFiniteSet(Steps(start, every, n)) /\ Steps(start, every, n) \subseteq Int
           /\ Cardinality(Steps(start, every, n)) = n
<1> DEFINE D == Steps(start, every, n)
           f == [k \in 0..(n - 1) |-> start + k * every]
<1>1. D \subseteq Int
  BY DEF Steps
<1>2. IsFiniteSet(0..(n - 1)) /\ Cardinality(0..(n - 1)) = n
  BY FS_Interval
<1>3. ExistsBijection(0..(n - 1), D)
  <2>1. f \in [0..(n - 1) -> D]
    BY DEF Steps
  <2>2. \A d \in D : \E k \in 0..(n - 1) : f[k] = d
    BY DEF Steps
  <2>3. ASSUME NEW j \in 0..(n - 1), NEW k \in 0..(n - 1), j # k PROVE f[j] # f[k]
    <3>1. j < k \/ k < j
      BY <2>3
    <3>2. j * every # k * every /\ j * every \in Int /\ k * every \in Int
      BY <3>1, Ascending
    <3> QED BY <3>2
  <2> HIDE DEF D, f
  <2>4. f \in Bijection(0..(n - 1), D)
    BY <2>1, <2>2, <2>3 DEF Bijection, Injection, Surjection, IsInjective
  <2> QED BY <2>4 DEF ExistsBijection
<1> HIDE DEF D
<1>4. IsFiniteSet(D) /\ Cardinality(D) = n
  BY <1>2, <1>3, FS_Bijection
<1> QED BY <1>1, <1>4 DEF D

(* The events of an input, as InputsAssumption has them. *)
Proper(ev) ==
    /\ ev \in Components
    /\ Optional(ev.span)
    /\ IsFiniteSet(ev.rdates) /\ IsFiniteSet(ev.exdates)
    /\ Far >= MaxChecks + Cardinality(ev.exdates)

LEMMA LastOf ==
    ASSUME NEW S, NEW q \in Seq(S), NEW n \in DOMAIN q PROVE q[n] \in S
OBVIOUS

LEMMA ProperParts ==
    ASSUME NEW ev, Proper(ev)
    PROVE  /\ ev.span \subseteq Int \X Int /\ ev.rdates \subseteq Int /\ ev.exdates \subseteq Int
           /\ \A r \in LastRule(ev) : r.every \in Nat \ {0} /\ r.count \in Nat
           /\ Cardinality(ev.exdates) \in Nat
           /\ MaxChecks + Cardinality(ev.exdates) \in Nat
<1>1. Cardinality(ev.exdates) \in Nat
  BY FS_CardinalityType DEF Proper
<1>2. \A r \in LastRule(ev) : r \in [every : Nat \ {0}, count : Nat]
  <2>1. ev.rule \in Seq([every : Nat \ {0}, count : Nat])
    BY DEF Proper, Components
  <2>2. CASE ev.rule # <<>>
    <3> DEFINE last == ev.rule[Len(ev.rule)]
    <3>1. last \in [every : Nat \ {0}, count : Nat]
      <4> HIDE DEF last
      <4>1. Len(ev.rule) \in DOMAIN ev.rule
        BY <2>1, <2>2
      <4> QED BY <2>1, <4>1, LastOf DEF last
    <3>2. LastRule(ev) = {last}
      BY <2>2 DEF LastRule
    <3> QED BY <3>1, <3>2
  <2> QED BY <2>2 DEF LastRule
<1> QED BY <1>1, <1>2, ChecksAssumption DEF Proper, Components

LEMMA RuledSteps ==
    ASSUME NEW r, NEW start, NEW n
    PROVE  /\ r.count = Forever => Ruled(r, start, n) = Steps(start, r.every, n)
           /\ r.count # Forever => Ruled(r, start, n) = Steps(start, r.every, r.count)
BY DEF Ruled, Steps

LEMMA InOccurrences ==
    ASSUME NEW ev, NEW start, NEW n, NEW d
    PROVE  d \in Occurrences(ev, start, n) <=>
             /\ d \in ev.rdates \/ \E r \in LastRule(ev) : d \in Ruled(r, start, n)
             /\ d \notin ev.exdates
BY DEF Occurrences

LEMMA OccurrencesFinite ==
    ASSUME NEW ev, Proper(ev), NEW start \in Int, NEW n \in Nat
    PROVE  /\ IsFiniteSet(Occurrences(ev, start, n))
           /\ Occurrences(ev, start, n) \subseteq Int
<1>0. \A d \in Occurrences(ev, start, n) :
         d \in ev.rdates \/ \E r \in LastRule(ev) : d \in Ruled(r, start, n)
  BY InOccurrences
<1> DEFINE U == UNION {Ruled(r, start, n) : r \in LastRule(ev)}
<1>1. \A r \in LastRule(ev) : IsFiniteSet(Ruled(r, start, n)) /\ Ruled(r, start, n) \subseteq Int
  BY ProperParts, StepsCounted, RuledSteps
<1>2. IsFiniteSet(U)
  <2>1. CASE ev.rule = <<>>
    <3>1. U = {}
      BY <2>1 DEF LastRule
    <3> QED BY <3>1, FS_EmptySet
  <2>2. CASE ev.rule # <<>>
    <3> DEFINE r == ev.rule[Len(ev.rule)]
    <3>1. LastRule(ev) = {r}
      BY <2>2 DEF LastRule
    <3>2. U = Ruled(r, start, n)
      BY <3>1
    <3> QED BY <1>1, <3>1, <3>2
  <2> QED BY <2>1, <2>2
<1>3. U \subseteq Int
  BY <1>1
<1>4. Occurrences(ev, start, n) \subseteq U \union ev.rdates
  BY <1>0
<1> HIDE DEF U
<1>5. IsFiniteSet(ev.rdates) /\ ev.rdates \subseteq Int
  BY ProperParts DEF Proper
<1>6. IsFiniteSet(U \union ev.rdates)
  BY <1>2, <1>5, FS_Union
<1> QED BY <1>3, <1>4, <1>5, <1>6, FS_Subset

\* A longer look at a rule sees the same dates and more.
LEMMA OccurrencesGrow ==
    ASSUME NEW ev, Proper(ev), NEW start \in Int, NEW m \in Nat, NEW n \in Nat, m <= n
    PROVE  Occurrences(ev, start, m) \subseteq Occurrences(ev, start, n)
<1>1. \A r \in LastRule(ev) : Ruled(r, start, m) \subseteq Ruled(r, start, n)
  BY DEF Ruled, Steps
<1> QED BY <1>1, InOccurrences

LEMMA WalkedDates ==
    ASSUME NEW ev, Proper(ev), NEW start \in Int
    PROVE  /\ IsFiniteSet(Walked(ev, start)) /\ Walked(ev, start) \subseteq Int
           /\ Walked(ev, start) \subseteq Occurrences(ev, start, Far)
<1>1. MaxChecks + Cardinality(ev.exdates) \in Nat /\ MaxChecks + Cardinality(ev.exdates) <= Far
  BY ProperParts DEF Proper
<1> QED BY <1>1, FarAssumption, OccurrencesFinite, OccurrencesGrow DEF Walked

(* A date the walk does not get to lies behind as many as it may check.    *)
LEMMA BeyondTheWalk ==
    ASSUME NEW ev, Proper(ev), NEW start \in Int,
           NEW occ \in Occurrences(ev, start, Far), occ \notin Walked(ev, start)
    PROVE  Cardinality(Before(Walked(ev, start), occ)) >= MaxChecks
<1> DEFINE n == MaxChecks + Cardinality(ev.exdates)
<1>0. n \in Nat /\ MaxChecks \in Nat /\ Cardinality(ev.exdates) \in Nat
  BY ProperParts, ChecksAssumption
<1>1. PICK r \in LastRule(ev) : occ \in Ruled(r, start, Far) /\ occ \notin Ruled(r, start, n)
  BY InOccurrences DEF Walked
<1>2. r.every \in Nat \ {0} /\ r.count = Forever
  BY <1>1, ProperParts DEF Ruled
<1> DEFINE D == Steps(start, r.every, n)
<1>3. PICK k \in 0..(Far - 1) : occ = start + k * r.every
  BY <1>1, <1>2, RuledSteps DEF Steps
<1>4. k >= n
  <2>1. k \notin 0..(n - 1)
    BY <1>1, <1>2, <1>3, RuledSteps DEF Steps
  <2> QED BY <1>0, <2>1, FarAssumption
<1>5. \A d \in D : d < occ
  <2> SUFFICES ASSUME NEW j \in 0..(n - 1) PROVE start + j * r.every < occ
    BY DEF Steps
  <2>1. j \in Nat /\ k \in Nat /\ j < k
    BY <1>0, <1>4, FarAssumption
  <2>2. j * r.every < k * r.every /\ j * r.every \in Int /\ k * r.every \in Int
    BY <1>2, <2>1, Ascending
  <2> QED BY <1>3, <2>2
<1>6. D \ ev.exdates \subseteq Before(Walked(ev, start), occ)
  <2>1. D = Ruled(r, start, n)
    BY <1>2, RuledSteps
  <2>2. D \ ev.exdates \subseteq Walked(ev, start)
    BY <1>1, <2>1, InOccurrences DEF Walked
  <2> HIDE DEF D
  <2> QED BY <1>5, <2>2 DEF Before
<1>7. IsFiniteSet(D) /\ Cardinality(D) = n
  BY <1>0, <1>2, StepsCounted
<1> HIDE DEF D
<1>8. Cardinality(D \ ev.exdates) >= MaxChecks
  <2>1. Cardinality(D \ ev.exdates) = n - Cardinality(D \cap ev.exdates)
    BY <1>7, FS_Difference
  <2>2. /\ Cardinality(D \cap ev.exdates) <= Cardinality(ev.exdates)
        /\ Cardinality(D \cap ev.exdates) \in Nat
    BY <1>7, FS_Intersection, FS_CardinalityType DEF Proper
  <2> QED BY <1>0, <2>1, <2>2
<1>9. /\ IsFiniteSet(Before(Walked(ev, start), occ))
      /\ Cardinality(Before(Walked(ev, start), occ)) \in Nat
  BY WalkedDates, BeforeFinite
<1>10. Cardinality(D \ ev.exdates) <= Cardinality(Before(Walked(ev, start), occ))
  BY <1>6, <1>9, FS_Subset
<1>11. Cardinality(D \ ev.exdates) \in Nat
  BY <1>6, <1>9, FS_Subset, FS_CardinalityType
<1> QED BY <1>0, <1>8, <1>9, <1>10, <1>11

-----------------------------------------------------------------------------
(* The window. *)

LEMMA BoundsTyped ==
    ASSUME NEW w \in Windows
    PROVE  bounds(w).earliest \subseteq Int /\ bounds(w).latest \subseteq Int
<1>1. /\ w.now.day \in Int /\ w.now.month \in Int
      /\ w.past \subseteq Nat /\ w.future \subseteq Nat
  BY WindowsAssumption
<1>2. /\ \A months \in w.past : AddMonths(w.now, -months) \in Int
      /\ \A months \in w.future : AddMonths(w.now, months) \in Int
  BY <1>1, WindowsAssumption, MonthsInOrder DEF AddMonths
<1> QED BY <1>2 DEF bounds

(* overlaps is what the properties say of a date. *)
LEMMA OverlapsMeans ==
    ASSUME window \in Windows, NEW span \in Int \X Int, NEW occ \in Int
    PROVE  /\ Duration(span[1], span[2]) = Lasts(span)
           /\ overlaps(occ, occ + Lasts(span), bounds(window)) <=> InWindow(span, occ)
           /\ ~Ahead(occ) <=> \A latest \in bounds(window).latest : occ < latest
<1> USE DEF InWindow
<1>1. Duration(span[1], span[2]) = Lasts(span) /\ Lasts(span) \in Nat
  BY DEF Duration, Lasts
<1> DEFINE end == occ + Lasts(span)
<1>2. (IF end < occ THEN occ ELSE end) = end /\ end \in Int
  BY <1>1
<1>3. ~Ahead(occ) <=> \A latest \in bounds(window).latest : occ < latest
  <2>1. \A months \in window.future : AddMonths(window.now, months) \in Int
    BY BoundsTyped DEF bounds
  <2> QED BY <2>1 DEF Ahead, bounds
<1>4. ~Over(span, occ) <=> \A earliest \in bounds(window).earliest : end > earliest
  <2>1. \A months \in window.past : AddMonths(window.now, -months) \in Int
    BY BoundsTyped DEF bounds
  <2> QED BY <1>2, <2>1 DEF Over, bounds
<1> QED BY <1>1, <1>2, <1>3, <1>4 DEF overlaps

(* The dates of a series that are seen are those of the set it walks. *)
LEMMA SeenOccurrences ==
    ASSUME NEW ev, Proper(ev), Repeats(ev), NEW span
    PROVE  SeenDates(ev, span) = Occurrences(ev, span[1], Far)
<1>1. \A r \in LastRule(ev) : \E k \in DOMAIN ev.rule : r = ev.rule[k]
  <2>1. CASE ev.rule # <<>>
    <3>1. Len(ev.rule) \in DOMAIN ev.rule
      BY <2>1 DEF Proper, Components
    <3> QED BY <2>1, <3>1 DEF LastRule
  <2> QED BY <2>1 DEF LastRule
<1>2. ASSUME NEW d, NEW r \in LastRule(ev), d \in Ruled(r, span[1], Far), d \notin ev.exdates
      PROVE  d \in Dates(ev, span)
  <2>1. PICK k \in DOMAIN ev.rule : r = ev.rule[k]
    BY <1>1
  <2> QED BY <1>2, <2>1 DEF Dates
<1>3. ASSUME NEW d \in ev.rdates, d \notin ev.exdates PROVE d \in Dates(ev, span)
  BY <1>3 DEF Dates
<1>4. \A d \in Dates(ev, span) : d \notin ev.exdates
  BY DEF Dates
<1> QED BY <1>2, <1>3, <1>4, InOccurrences DEF SeenDates

LEMMA SeenAlone ==
    ASSUME NEW ev, ~Repeats(ev), NEW span PROVE SeenDates(ev, span) = {span[1]}
BY DEF SeenDates, Dates

(* The walk does not miss an occurrence in the window: it meets it, or the *)
(* dates it checks come before it.                                         *)
LEMMA InsideHits ==
    ASSUME window \in Windows, NEW ev, Proper(ev), Inside(ev)
    PROVE  eventHits(ev, bounds(window))
<1>1. PICK span \in ev.span : \E occ \in SeenDates(ev, span) : InWindow(span, occ)
  BY DEF Inside
<1>2. PICK occ \in SeenDates(ev, span) : InWindow(span, occ)
  BY <1>1
<1>3. span \in Int \X Int /\ \A other \in ev.span : other = span
  BY <1>1, ProperParts DEF Proper, Optional
<1>4. CASE ~Repeats(ev)
  <2>1. occ = span[1]
    BY <1>2, <1>4, SeenAlone
  <2>2. \A latest \in bounds(window).latest : span[1] < latest
    BY <1>2, <1>3, <2>1, OverlapsMeans DEF InWindow
  <2>3. \A earliest \in bounds(window).earliest :
           (IF span[2] < span[1] THEN span[1] ELSE span[2]) > earliest
    <3>1. overlaps(span[1], span[1] + Lasts(span), bounds(window))
      BY <1>2, <1>3, <2>1, OverlapsMeans
    <3>2. span[1] + Lasts(span) = (IF span[2] < span[1] THEN span[1] ELSE span[2])
      BY <1>3 DEF Lasts
    <3>3. ~(span[1] + Lasts(span) < span[1])
      BY <1>3 DEF Lasts
    <3> QED BY <3>1, <3>2, <3>3 DEF overlaps
  <2> QED BY <1>3, <1>4, <2>2, <2>3 DEF eventHits, overlaps
<1>5. CASE Repeats(ev)
  <2> DEFINE start == span[1]
             dates == Walked(ev, start)
  <2>1. start \in Int /\ occ \in Occurrences(ev, start, Far)
    BY <1>2, <1>3, <1>5, SeenOccurrences
  <2>2. IsFiniteSet(dates) /\ dates \subseteq Int /\ occ \in Int
    BY <2>1, WalkedDates, OccurrencesFinite, FarAssumption
  <2>3. seriesHits(ev, span[1], span[2], bounds(window))
    <3>1. CASE occ \in Checked(dates)
      <4>1. overlaps(occ, occ + Duration(span[1], span[2]), bounds(window))
        BY <1>2, <1>3, <2>2, OverlapsMeans
      <4> QED BY <3>1, <4>1 DEF seriesHits
    <3>2. CASE occ \notin Checked(dates)
      <4>1. Cardinality(Before(dates, occ)) >= MaxChecks
        <5>1. CASE occ \in dates
          <6>1. ~(Cardinality(Before(dates, occ)) < MaxChecks)
            BY <3>2, <5>1 DEF Checked
          <6> QED BY <2>2, <6>1, BeforeFinite, ChecksAssumption
        <5>2. CASE occ \notin dates
          BY <2>1, <5>2, BeyondTheWalk
        <5> QED BY <5>1, <5>2
      <4>2. Cardinality(dates) >= MaxChecks
        <5>1. /\ Cardinality(Before(dates, occ)) <= Cardinality(dates)
              /\ Cardinality(Before(dates, occ)) \in Nat /\ Cardinality(dates) \in Nat
          BY <2>2, BeforeFinite, FS_CardinalityType
        <5> QED BY <4>1, <5>1, ChecksAssumption
      <4>3. ASSUME NEW x \in Checked(dates), NEW latest \in bounds(window).latest
            PROVE  x < latest
        <5>1. x < occ /\ x \in Int
          BY <2>2, <4>1, CheckedComeFirst DEF Checked
        <5>2. occ < latest /\ latest \in Int
          BY <1>2, <1>3, <2>2, OverlapsMeans, BoundsTyped DEF InWindow
        <5> QED BY <2>2, <5>1, <5>2
      <4> QED BY <4>2, <4>3 DEF seriesHits
    <3> QED BY <3>1, <3>2
  <2> QED BY <1>3, <1>5, <2>3 DEF eventHits
<1> QED BY <1>4, <1>5

(* What the walk keeps has an occurrence in the window, or as many before  *)
(* it as the walk may check.                                               *)
LEMMA HitsInside ==
    ASSUME window \in Windows, NEW ev, Proper(ev), eventHits(ev, bounds(window))
    PROVE  Inside(ev) \/ Undecided(ev)
<1>1. CASE ev.span = {}
  BY <1>1 DEF Undecided
<1>2. ASSUME NEW span \in ev.span PROVE Inside(ev) \/ Undecided(ev)
  <2>1. span \in Int \X Int
    BY ProperParts
  <2>2. CASE ~Repeats(ev)
    <3>1. overlaps(span[1], span[2], bounds(window))
      BY <1>2, <2>2 DEF eventHits
    <3>2. span[1] + Lasts(span) = (IF span[2] < span[1] THEN span[1] ELSE span[2])
      BY <2>1 DEF Lasts
    <3>3. ~(span[1] + Lasts(span) < span[1])
      BY <2>1 DEF Lasts
    <3>4. overlaps(span[1], span[1] + Lasts(span), bounds(window))
      BY <3>1, <3>2, <3>3 DEF overlaps
    <3>5. InWindow(span, span[1])
      BY <2>1, <3>4, OverlapsMeans
    <3> QED BY <1>2, <2>2, <3>5, SeenAlone DEF Inside
  <2>3. CASE Repeats(ev)
    <3> DEFINE start == span[1]
               dates == Walked(ev, start)
               over == {occ \in SeenDates(ev, span) : Over(span, occ)}
    <3>1. /\ IsFiniteSet(dates) /\ dates \subseteq Int
          /\ dates \subseteq SeenDates(ev, span) /\ IsFiniteSet(SeenDates(ev, span))
      BY <2>1, <2>3, WalkedDates, OccurrencesFinite, SeenOccurrences, FarAssumption
    <3>2. seriesHits(ev, span[1], span[2], bounds(window))
      BY <1>2, <2>3 DEF eventHits
    <3>3. Checked(dates) \subseteq dates
      BY DEF Checked
    <3>4. CASE \E occ \in Checked(dates) :
                 overlaps(occ, occ + Duration(span[1], span[2]), bounds(window))
      <4>1. PICK occ \in Checked(dates) :
                 overlaps(occ, occ + Duration(span[1], span[2]), bounds(window))
        BY <3>4
      <4>2. InWindow(span, occ) /\ occ \in SeenDates(ev, span)
        BY <2>1, <3>1, <3>3, <4>1, OverlapsMeans
      <4> QED BY <1>2, <4>2 DEF Inside
    <3>5. CASE /\ \A occ \in Checked(dates) :
                    ~overlaps(occ, occ + Duration(span[1], span[2]), bounds(window))
               /\ Cardinality(dates) >= MaxChecks
               /\ \A occ \in Checked(dates), latest \in bounds(window).latest : occ < latest
      <4>1. Checked(dates) \subseteq over
        <5> SUFFICES ASSUME NEW occ \in Checked(dates) PROVE Over(span, occ)
          BY <3>1, <3>3
        <5> QED BY <2>1, <3>1, <3>3, <3>5, OverlapsMeans DEF InWindow
      <4>2. IsFiniteSet(over) /\ Cardinality(over) \in Nat
        <5>1. over \subseteq SeenDates(ev, span)
          OBVIOUS
        <5> HIDE DEF over
        <5> QED BY <3>1, <5>1, FS_Subset, FS_CardinalityType
      <4>3. Cardinality(Checked(dates)) >= MaxChecks /\ Cardinality(Checked(dates)) \in Nat
        BY <3>1, <3>5, AllChecksUsed, CheckedFinite
      <4>4. Cardinality(Checked(dates)) <= Cardinality(over)
        <5> HIDE DEF over
        <5> QED BY <4>1, <4>2, FS_Subset
      <4>5. Cardinality(over) >= MaxChecks
        <5> HIDE DEF over
        <5> QED BY <4>2, <4>3, <4>4, ChecksAssumption
      <4> QED BY <1>2, <4>5 DEF Undecided
    <3> QED BY <3>2, <3>4, <3>5 DEF seriesHits
  <2> QED BY <2>2, <2>3
<1> QED BY <1>1, <1>2

(* Bounds further out let through what narrower ones do. *)
Looser(b, c) ==
    /\ \A e \in c.earliest : \E d \in b.earliest : e <= d
    /\ \A l \in c.latest : \E k \in b.latest : k <= l

BoundsOk(b) == b.earliest \subseteq Int /\ b.latest \subseteq Int

LEMMA LooserOverlaps ==
    ASSUME NEW b, NEW c, BoundsOk(b), BoundsOk(c), Looser(b, c),
           NEW start \in Int, NEW end \in Int, overlaps(start, end, b)
    PROVE  overlaps(start, end, c)
<1>1. ASSUME NEW latest \in c.latest PROVE start < latest
  <2>1. PICK k \in b.latest : k <= latest
    BY DEF Looser
  <2> QED BY <2>1 DEF overlaps, BoundsOk
<1>2. ASSUME NEW earliest \in c.earliest
      PROVE  (IF end < start THEN start ELSE end) > earliest
  <2>1. PICK d \in b.earliest : earliest <= d
    BY DEF Looser
  <2>2. (IF end < start THEN start ELSE end) > d
    BY DEF overlaps
  <2> QED BY <2>1, <2>2 DEF BoundsOk
<1> QED BY <1>1, <1>2 DEF overlaps

LEMMA LooserHits ==
    ASSUME NEW b, NEW c, BoundsOk(b), BoundsOk(c), Looser(b, c),
           NEW ev, Proper(ev), eventHits(ev, b)
    PROVE  eventHits(ev, c)
<1> SUFFICES ASSUME NEW span \in ev.span
             PROVE  IF Repeats(ev) THEN seriesHits(ev, span[1], span[2], c)
                    ELSE overlaps(span[1], span[2], c)
  BY DEF eventHits
<1>1. span[1] \in Int /\ span[2] \in Int
  BY ProperParts
<1>2. CASE ~Repeats(ev)
  BY <1>1, <1>2, LooserOverlaps DEF eventHits
<1>3. CASE Repeats(ev)
  <2> DEFINE dates == Walked(ev, span[1])
             duration == Duration(span[1], span[2])
  <2>1. Checked(dates) \subseteq Int /\ duration \in Int
    BY <1>1, WalkedDates DEF Checked, Duration
  <2>2. seriesHits(ev, span[1], span[2], b)
    BY <1>3 DEF eventHits
  <2>3. CASE \E occ \in Checked(dates) : overlaps(occ, occ + duration, b)
    <3>1. PICK occ \in Checked(dates) : overlaps(occ, occ + duration, b)
      BY <2>3
    <3>2. occ \in Int /\ occ + duration \in Int
      BY <2>1
    <3>3. overlaps(occ, occ + duration, c)
      BY <3>1, <3>2, LooserOverlaps
    <3> QED BY <1>3, <3>3 DEF seriesHits
  <2>4. CASE /\ Cardinality(dates) >= MaxChecks
             /\ \A occ \in Checked(dates), latest \in b.latest : occ < latest
    <3>1. ASSUME NEW occ \in Checked(dates), NEW latest \in c.latest PROVE occ < latest
      <4>1. PICK k \in b.latest : k <= latest
        BY DEF Looser
      <4>2. occ < k /\ occ \in Int
        BY <2>1, <2>4
      <4> QED BY <4>1, <4>2 DEF BoundsOk
    <3> QED BY <1>3, <2>4, <3>1 DEF seriesHits
  <2> QED BY <2>2, <2>3, <2>4 DEF seriesHits
<1> QED BY <1>2, <1>3

LEMMA MonthsGrow ==
    ASSUME NEW w \in Windows, NEW j \in Int, NEW k \in Int, j <= k,
           w.now.month + j \in DOMAIN MonthStart, w.now.month + k \in DOMAIN MonthStart
    PROVE  AddMonths(w.now, j) <= AddMonths(w.now, k)
<1>1. w.now.month \in Int /\ w.now.day \in Int
  BY WindowsAssumption
<1>2. w.now.month + j <= w.now.month + k
  BY <1>1
<1>3. MonthStart[w.now.month + j] <= MonthStart[w.now.month + k]
  BY <1>2, MonthsInOrder
<1>4. MonthStart[w.now.month + j] \in Int /\ MonthStart[w.now.month + k] \in Int
  BY MonthsInOrder
<1> QED BY <1>1, <1>3, <1>4 DEF AddMonths

LEMMA WiderIsLooser ==
    ASSUME window \in Windows, NEW v \in Wider(window)
    PROVE  v \in Windows /\ Looser(bounds(window), bounds(v))
<1>1. /\ v \in Windows /\ v.now = window.now
      /\ \A m \in v.past : \E k \in window.past : k <= m
      /\ \A m \in v.future : \E k \in window.future : k <= m
  BY DEF Wider
<1>2. /\ v.past \subseteq Nat /\ v.future \subseteq Nat
      /\ window.past \subseteq Nat /\ window.future \subseteq Nat
      /\ v.now.month \in Int
  BY <1>1, WindowsAssumption
<1>3. ASSUME NEW m \in v.past
      PROVE  \E d \in bounds(window).earliest : AddMonths(v.now, -m) <= d
  <2>1. PICK k \in window.past : k <= m
    BY <1>1
  <2>2. -m <= -k /\ -m \in Int /\ -k \in Int
    BY <1>2, <2>1
  <2>3. v.now.month - m \in DOMAIN MonthStart /\ v.now.month - k \in DOMAIN MonthStart
    BY <1>1, WindowsAssumption
  <2>4. v.now.month + (-m) = v.now.month - m /\ v.now.month + (-k) = v.now.month - k
    BY <1>2
  <2>5. AddMonths(v.now, -m) <= AddMonths(v.now, -k)
    BY <1>1, <2>2, <2>3, <2>4, MonthsGrow
  <2> QED BY <1>1, <2>5 DEF bounds
<1>4. ASSUME NEW m \in v.future
      PROVE  \E d \in bounds(window).latest : d <= AddMonths(v.now, m)
  <2>1. PICK k \in window.future : k <= m
    BY <1>1
  <2>2. v.now.month + m \in DOMAIN MonthStart /\ v.now.month + k \in DOMAIN MonthStart
    BY <1>1, WindowsAssumption
  <2>3. AddMonths(v.now, k) <= AddMonths(v.now, m)
    BY <1>1, <1>2, <2>1, <2>2, MonthsGrow
  <2> QED BY <1>1, <2>3 DEF bounds
<1> QED BY <1>1, <1>3, <1>4 DEF Looser, bounds

-----------------------------------------------------------------------------
(* The merge. *)

Index == Nat \ {0}

Entries == [from : Nat, at : Nat, comp : Components]

MergeTyped ==
    /\ sources \in Inputs
    /\ window \in Windows
    /\ next \in Index /\ at \in Index
    /\ out \in Seq(Entries)
    /\ seenTZ \subseteq STRING \ {""}
    /\ pc \in {"merging", "merged", "failed"}

\* The loops have been there.
Passed(i, j) == i < next \/ (i = next /\ j < at)

CopyOf(comp, id) == IF comp.kind = "VTIMEZONE" THEN comp ELSE Prefixed(comp, id)

\* The component a merged one is the copy of.
Original(entry, cal) ==
    /\ entry.at \in DOMAIN cal
    /\ Keeps(cal[entry.at], cal)
    /\ entry.comp = CopyOf(cal[entry.at], sources[entry.from].id)

(* Everything in the mix is the copy of a component that is kept. *)
CopiesInv ==
    \A a \in Positions :
        /\ out[a].from \in DOMAIN sources
        /\ \E cal \in sources[out[a].from].cal : Original(out[a], cal)

(* Everything that is kept is in the mix once the loops have been there,   *)
(* but a zone that is defined by then.                                     *)
KeptInv ==
    pc # "failed" =>
        \A i \in DOMAIN sources : \A cal \in sources[i].cal : \A j \in DOMAIN cal :
            Passed(i, j) /\ Keeps(cal[j], cal) =>
                \/ cal[j].kind = "VTIMEZONE" /\ cal[j].tzid \in seenTZ
                \/ Copied(i, j)

(* seenTZ has the zones that are defined. *)
SeenInv ==
    pc # "failed" =>
        /\ \A tzid \in seenTZ : \E a \in Positions : Defines(out[a].comp, tzid)
        /\ \A a \in Positions : \A tzid : Defines(out[a].comp, tzid) => tzid \in seenTZ

LoopInv ==
    /\ pc = "merged" => next > Len(sources)
    /\ pc = "failed" => out = <<>>

MergeInv == MergeTyped /\ CopiesInv /\ KeptInv /\ SeenInv /\ ZonesOnce /\ LoopInv

-----------------------------------------------------------------------------

LEMMA SeqParts ==
    ASSUME NEW S, NEW s \in Seq(S)
    PROVE  /\ Len(s) \in Nat /\ DOMAIN s = 1..Len(s)
           /\ \A i \in DOMAIN s : s[i] \in S
OBVIOUS

LEMMA Prepended ==
    ASSUME NEW S, NEW x \in S, NEW s \in Seq(S)
    PROVE  /\ <<x>> \o s \in Seq(S) /\ <<x>> \o s # <<>>
           /\ (<<x>> \o s)[1] = x
OBVIOUS

LEMMA SourcesTyped ==
    ASSUME sources \in Inputs
    PROVE  /\ sources \in Seq([id : STRING \ {""}, cal : SUBSET Seq(Components)])
           /\ Len(sources) \in Nat /\ DOMAIN sources = 1..Len(sources)
           /\ \A i \in DOMAIN sources : sources[i].id \in STRING \ {""}
           /\ \A i \in DOMAIN sources : \A cal \in sources[i].cal :
                /\ cal \in Seq(Components)
                /\ Len(cal) \in Nat /\ DOMAIN cal = 1..Len(cal)
                /\ \A other \in sources[i].cal : other = cal
                /\ \A j \in DOMAIN cal :
                     Proper(cal[j]) /\ (cal[j].kind = "VTIMEZONE" => cal[j].uid = <<>>)
<1>1. sources \in Seq([id : STRING \ {""}, cal : SUBSET Seq(Components)])
  BY InputsAssumption
<1>2. /\ Len(sources) \in Nat /\ DOMAIN sources = 1..Len(sources)
      /\ \A i \in DOMAIN sources :
           sources[i] \in [id : STRING \ {""}, cal : SUBSET Seq(Components)]
  BY <1>1, SeqParts
<1>3. ASSUME NEW i \in DOMAIN sources, NEW cal \in sources[i].cal
      PROVE  /\ cal \in Seq(Components)
             /\ Len(cal) \in Nat /\ DOMAIN cal = 1..Len(cal)
             /\ \A other \in sources[i].cal : other = cal
  <2>2. cal \in Seq(Components)
    BY <1>2
  <2>3. \A other \in sources[i].cal : other = cal
    BY InputsAssumption DEF Optional
  <2> QED BY <2>2, <2>3, SeqParts
<1>4. ASSUME NEW i \in DOMAIN sources, NEW cal \in sources[i].cal, NEW j \in DOMAIN cal
      PROVE  Proper(cal[j]) /\ (cal[j].kind = "VTIMEZONE" => cal[j].uid = <<>>)
  <2>1. cal[j] \in Components
    BY <1>3, SeqParts
  <2> QED BY <2>1, InputsAssumption DEF Proper
<1> QED BY <1>1, <1>2, <1>3, <1>4

LEMMA Indexes ==
    ASSUME sources \in Inputs, NEW i \in DOMAIN sources, NEW cal \in sources[i].cal,
           NEW j \in DOMAIN cal
    PROVE  i \in Nat \ {0} /\ j \in Nat \ {0}
<1>1. Len(sources) \in Nat /\ DOMAIN sources = 1..Len(sources)
  BY SourcesTyped
<1>2. Len(cal) \in Nat /\ DOMAIN cal = 1..Len(cal)
  BY SourcesTyped
<1> QED BY <1>1, <1>2

LEMMA MergeReads == ASSUME MergeInv PROVE sources \in Inputs /\ next \in Index /\ at \in Index
BY DEF MergeInv, MergeTyped

LEMMA PrefixTyped ==
    ASSUME NEW comp \in Components, NEW id \in STRING
    PROVE  /\ Prefixed(comp, id) \in Components
           /\ Prefixed(comp, id).kind = comp.kind
           /\ Prefixed(comp, id).tzid = comp.tzid
           /\ Prefixed(comp, id).uid = prefixUID(comp.uid, id)
<1>1. comp.uid \in Seq(STRING)
  BY DEF Components
<1>2. prefixUID(comp.uid, id) \in Seq(STRING)
  BY <1>1, Prepended DEF prefixUID
<1> QED BY <1>2 DEF Prefixed, Components

-----------------------------------------------------------------------------
(* Steps. *)

\* What CopyNext looks at, once.
LEMMA AtComponent ==
    ASSUME MergeInv, CopyNext
    PROVE  /\ pc = "merging" /\ pc' = pc /\ next \in DOMAIN sources
           /\ at' = at + 1 /\ UNCHANGED <<sources, window, next>>
           /\ \E cal \in sources[next].cal :
                /\ at \in DOMAIN cal
                /\ cal[at] \in Components
                /\ sources[next].id \in STRING
                /\ \/ Keeps(cal[at], cal) /\ copyComponent(cal[at], sources[next].id)
                   \/ ~Keeps(cal[at], cal) /\ UNCHANGED <<out, seenTZ>>
<1>1. PICK cal \in sources[next].cal :
         /\ at <= Len(cal)
         /\ IF Keeps(cal[at], cal) THEN copyComponent(cal[at], sources[next].id)
            ELSE UNCHANGED <<out, seenTZ>>
  BY DEF CopyNext
<1>2. next \in DOMAIN sources
  <2>1. next <= Len(sources) /\ next \in Nat \ {0}
    BY MergeReads DEF CopyNext, Index
  <2>2. Len(sources) \in Nat /\ DOMAIN sources = 1..Len(sources)
    BY MergeReads, SourcesTyped
  <2> QED BY <2>1, <2>2
<1>3. at \in DOMAIN cal /\ cal[at] \in Components
  <2>1. at \in DOMAIN cal
    <3>1. at <= Len(cal) /\ at \in Nat \ {0}
      BY <1>1, MergeReads DEF Index
    <3>2. Len(cal) \in Nat /\ DOMAIN cal = 1..Len(cal)
      BY <1>2, MergeReads, SourcesTyped
    <3> QED BY <3>1, <3>2
  <2> QED BY <1>2, <2>1, MergeReads, SourcesTyped DEF Proper
<1>4. sources[next].id \in STRING
  BY <1>2, MergeReads, SourcesTyped
<1> QED BY <1>1, <1>2, <1>3, <1>4 DEF CopyNext

LEMMA AppendParts ==
    ASSUME NEW S, NEW s \in Seq(S), NEW e \in S
    PROVE  /\ Append(s, e) \in Seq(S)
           /\ DOMAIN Append(s, e) = DOMAIN s \union {Len(s) + 1}
           /\ Len(s) + 1 \notin DOMAIN s
           /\ \A i \in DOMAIN s : Append(s, e)[i] = s[i]
           /\ Append(s, e)[Len(s) + 1] = e
OBVIOUS

\* What a turn of the inner loop does with a component.
LEMMA CopyNextCases ==
    ASSUME MergeInv, CopyNext
    PROVE  \E cal \in sources[next].cal : LET comp == cal[at] IN
             /\ at \in DOMAIN cal /\ comp \in Components
             /\ \/ /\ ~Keeps(comp, cal) \/ (comp.kind = "VTIMEZONE" /\ comp.tzid \in seenTZ)
                   /\ UNCHANGED <<out, seenTZ>>
                \/ \E entry \in Entries :
                     /\ entry.from = next /\ Original(entry, cal) /\ entry.at = at
                     /\ out' = Append(out, entry)
                     /\ \/ /\ comp.kind = "VTIMEZONE" /\ comp.tzid \notin seenTZ
                           /\ entry.comp = comp
                           /\ seenTZ' = seenTZ \union ({comp.tzid} \ {""})
                        \/ /\ comp.kind # "VTIMEZONE" /\ entry.comp.kind # "VTIMEZONE"
                           /\ UNCHANGED seenTZ
<1>1. PICK cal \in sources[next].cal :
        /\ at \in DOMAIN cal /\ cal[at] \in Components
        /\ sources[next].id \in STRING
        /\ \/ Keeps(cal[at], cal) /\ copyComponent(cal[at], sources[next].id)
           \/ ~Keeps(cal[at], cal) /\ UNCHANGED <<out, seenTZ>>
  BY AtComponent
<1> DEFINE comp == cal[at]
           id == sources[next].id
<1>0. next \in Nat /\ at \in Nat
  BY MergeReads DEF Index
<1>2. CASE Keeps(comp, cal) /\ comp.kind = "VTIMEZONE" /\ comp.tzid \notin seenTZ
  <2> DEFINE entry == [from |-> next, at |-> at, comp |-> comp]
  <2>1. entry \in Entries /\ entry.from = next /\ entry.at = at /\ entry.comp = comp
    BY <1>0, <1>1 DEF Entries
  <2>2. Original(entry, cal)
    BY <1>1, <1>2 DEF Original, CopyOf
  <2>3. out' = Append(out, entry) /\ seenTZ' = seenTZ \union ({comp.tzid} \ {""})
    BY <1>1, <1>2 DEF copyComponent, Emit
  <2> HIDE DEF entry
  <2> QED BY <1>1, <1>2, <2>1, <2>2, <2>3
<1>3. CASE Keeps(comp, cal) /\ comp.kind # "VTIMEZONE"
  <2> DEFINE entry == [from |-> next, at |-> at, comp |-> Prefixed(comp, id)]
  <2>0. Prefixed(comp, id) \in Components /\ Prefixed(comp, id).kind = comp.kind
    BY <1>1, PrefixTyped
  <2>1. /\ entry \in Entries /\ entry.from = next /\ entry.at = at
        /\ entry.comp.kind # "VTIMEZONE"
    BY <1>0, <1>3, <2>0 DEF Entries
  <2>2. Original(entry, cal)
    BY <1>1, <1>3 DEF Original, CopyOf
  <2>3. out' = Append(out, entry) /\ UNCHANGED seenTZ
    BY <1>1, <1>3 DEF copyComponent, Emit
  <2> HIDE DEF entry
  <2> QED BY <1>1, <1>3, <2>1, <2>2, <2>3
<1>4. CASE ~Keeps(comp, cal) \/ (comp.kind = "VTIMEZONE" /\ comp.tzid \in seenTZ)
  BY <1>1, <1>4 DEF copyComponent
<1> QED BY <1>2, <1>3, <1>4

LEMMA SameWindow ==
    ASSUME UNCHANGED <<sources, window>>
    PROVE  /\ \A comp, cal : Keeps(comp, cal)' <=> Keeps(comp, cal)
           /\ \A entry, cal : Original(entry, cal)' <=> Original(entry, cal)
<1>1. \A comp, cal : Keeps(comp, cal)' <=> Keeps(comp, cal)
  BY DEF Keeps
<1> QED BY <1>1 DEF Original

LEMMA OutTyped ==
    ASSUME MergeTyped
    PROVE  /\ out \in Seq(Entries) /\ Len(out) \in Nat /\ Positions = 1..Len(out)
           /\ \A a \in Positions : out[a] \in Entries
BY SeqParts DEF MergeTyped, Positions

\* A component is merged, or not.
LEMMA OutGrows ==
    ASSUME MergeTyped, NEW entry \in Entries, out' = Append(out, entry)
    PROVE  /\ out' \in Seq(Entries)
           /\ Positions' = Positions \union {Len(out) + 1}
           /\ Len(out) + 1 \notin Positions
           /\ \A a \in Positions : out'[a] = out[a]
           /\ out'[Len(out) + 1] = entry
BY OutTyped, AppendParts DEF Positions

LEMMA CopyNextTyped == ASSUME MergeInv, CopyNext PROVE MergeTyped'
<1> USE DEF MergeInv
<1>1. /\ pc = "merging" /\ pc' = pc /\ at' = at + 1
      /\ UNCHANGED <<sources, window, next>>
  BY AtComponent
<1>2. PICK cal \in sources[next].cal :
        /\ cal[at] \in Components
        /\ \/ UNCHANGED <<out, seenTZ>>
           \/ \E entry \in Entries :
                /\ out' = Append(out, entry)
                /\ \/ seenTZ' = seenTZ \union ({cal[at].tzid} \ {""})
                   \/ UNCHANGED seenTZ
  BY CopyNextCases
<1>3. cal[at].tzid \in STRING
  BY <1>2 DEF Components
<1>4. out' \in Seq(Entries)
  BY <1>2, OutGrows, OutTyped
<1>5. seenTZ' \subseteq STRING \ {""}
  BY <1>2, <1>3 DEF MergeTyped
<1>6. at + 1 \in Index
  BY MergeReads DEF Index
<1> QED BY <1>1, <1>4, <1>5, <1>6 DEF MergeTyped

LEMMA CopyNextCopies == ASSUME MergeInv, CopyNext PROVE CopiesInv'
<1> USE DEF MergeInv
<1>1. UNCHANGED <<sources, window>> /\ next \in DOMAIN sources
  BY AtComponent
<1>2. CASE UNCHANGED out
  BY <1>1, <1>2, SameWindow DEF CopiesInv, Positions
<1>3. ASSUME NEW cal \in sources[next].cal, NEW entry \in Entries,
             entry.from = next, Original(entry, cal), out' = Append(out, entry)
      PROVE  CopiesInv'
  <2> SUFFICES ASSUME NEW a \in Positions'
               PROVE  /\ out'[a].from \in DOMAIN sources
                      /\ \E c \in sources[out'[a].from].cal : Original(out'[a], c)
    BY <1>1, SameWindow DEF CopiesInv
  <2>1. CASE a \in Positions
    BY <1>3, <2>1, OutGrows DEF CopiesInv
  <2>2. CASE a \notin Positions
    BY <1>1, <1>3, <2>2, OutGrows
  <2> QED BY <2>1, <2>2
<1> QED BY <1>2, <1>3, CopyNextCases

LEMMA CopyNextKept == ASSUME MergeInv, CopyNext PROVE KeptInv'
<1> USE DEF MergeInv
<1>1. /\ pc = "merging" /\ pc' = pc /\ next \in DOMAIN sources
      /\ at' = at + 1 /\ UNCHANGED <<sources, window, next>>
  BY AtComponent
<1>2. PICK cal \in sources[next].cal :
        /\ at \in DOMAIN cal
        /\ \/ /\ \/ ~Keeps(cal[at], cal)
                 \/ cal[at].kind = "VTIMEZONE" /\ cal[at].tzid \in seenTZ
              /\ UNCHANGED <<out, seenTZ>>
           \/ \E entry \in Entries :
                /\ entry.from = next /\ entry.at = at
                /\ out' = Append(out, entry)
                /\ seenTZ \subseteq seenTZ'
  BY CopyNextCases
<1>3. seenTZ \subseteq seenTZ'
  BY <1>2
<1>4. ASSUME NEW i, NEW j, Copied(i, j) PROVE Copied(i, j)'
  <2>1. CASE UNCHANGED out
    BY <1>4, <2>1 DEF Copied, Positions
  <2>2. ASSUME NEW entry \in Entries, out' = Append(out, entry) PROVE Copied(i, j)'
    BY <1>4, <2>2, OutGrows DEF Copied
  <2> QED BY <1>2, <2>1, <2>2
<1>5. SUFFICES ASSUME NEW i \in DOMAIN sources, NEW c \in sources[i].cal, NEW j \in DOMAIN c,
                      Passed(i, j)', Keeps(c[j], c)
               PROVE  \/ c[j].kind = "VTIMEZONE" /\ c[j].tzid \in seenTZ'
                      \/ Copied(i, j)'
  BY <1>1, SameWindow DEF KeptInv
<1>6. CASE Passed(i, j)
  BY <1>1, <1>3, <1>4, <1>5, <1>6 DEF KeptInv
<1>7. CASE ~Passed(i, j)
  <2>1. i = next /\ j = at
    <3>1. i \in Nat /\ j \in Nat /\ next \in Nat /\ at \in Nat
      BY Indexes, MergeReads DEF Index
    <3> QED BY <1>1, <1>5, <1>7, <3>1 DEF Passed
  <2>2. c = cal
    BY <1>1, <2>1, SourcesTyped, MergeReads
  <2>3. CASE cal[at].kind = "VTIMEZONE" /\ cal[at].tzid \in seenTZ
    BY <1>3, <2>1, <2>2, <2>3
  <2>4. ASSUME NEW entry \in Entries, entry.from = next, entry.at = at,
               out' = Append(out, entry)
        PROVE  Copied(i, j)'
    BY <2>1, <2>4, OutGrows DEF Copied
  <2> QED BY <1>2, <1>5, <2>1, <2>2, <2>3, <2>4
<1> QED BY <1>6, <1>7

LEMMA CopyNextSeen == ASSUME MergeInv, CopyNext PROVE SeenInv' /\ ZonesOnce'
<1> USE DEF MergeInv
<1>1. pc = "merging"
  BY AtComponent
<1>2. PICK cal \in sources[next].cal :
        \/ UNCHANGED <<out, seenTZ>>
        \/ \E entry \in Entries :
             /\ out' = Append(out, entry)
             /\ \/ /\ cal[at].kind = "VTIMEZONE" /\ cal[at].tzid \notin seenTZ
                   /\ entry.comp = cal[at]
                   /\ seenTZ' = seenTZ \union ({cal[at].tzid} \ {""})
                \/ /\ entry.comp.kind # "VTIMEZONE"
                   /\ UNCHANGED seenTZ
  BY CopyNextCases
<1>3. CASE UNCHANGED <<out, seenTZ>>
  BY <1>1, <1>3 DEF SeenInv, ZonesOnce, Positions
<1>4. ASSUME NEW entry \in Entries, out' = Append(out, entry),
             \/ /\ cal[at].kind = "VTIMEZONE" /\ cal[at].tzid \notin seenTZ
                /\ entry.comp = cal[at]
                /\ seenTZ' = seenTZ \union ({cal[at].tzid} \ {""})
             \/ /\ entry.comp.kind # "VTIMEZONE"
                /\ UNCHANGED seenTZ
      PROVE  SeenInv' /\ ZonesOnce'
  <2> DEFINE new == Len(out) + 1
  <2>1. /\ Positions' = Positions \union {new} /\ new \notin Positions
        /\ out'[new] = entry /\ \A a \in Positions : out'[a] = out[a]
    BY <1>4, OutGrows
  <2> HIDE DEF new
  <2>2. /\ \A tzid : Defines(entry.comp, tzid) => tzid \in seenTZ' /\ tzid \notin seenTZ
        /\ \A tzid \in seenTZ' : tzid \in seenTZ \/ Defines(entry.comp, tzid)
        /\ seenTZ \subseteq seenTZ'
    BY <1>4 DEF Defines
  <2>3. /\ \A tzid \in seenTZ : \E a \in Positions : Defines(out[a].comp, tzid)
        /\ \A a \in Positions : \A tzid : Defines(out[a].comp, tzid) => tzid \in seenTZ
    BY <1>1 DEF SeenInv
  <2>4. SeenInv'
    BY <2>1, <2>2, <2>3 DEF SeenInv
  <2>5. ZonesOnce'
    <3> SUFFICES ASSUME NEW a \in Positions', NEW b \in Positions',
                        Defines(out'[a].comp, out'[a].comp.tzid),
                        Defines(out'[b].comp, out'[a].comp.tzid)
                 PROVE  a = b
      BY DEF ZonesOnce
    <3>1. CASE a \in Positions /\ b \in Positions
      BY <2>1, <3>1 DEF ZonesOnce
    <3>2. CASE a \in Positions /\ b = new
      BY <2>1, <2>2, <2>3, <3>2
    <3>3. CASE a = new /\ b \in Positions
      BY <2>1, <2>2, <2>3, <3>3
    <3> QED BY <2>1, <3>1, <3>2, <3>3
  <2> QED BY <2>4, <2>5
<1> QED BY <1>2, <1>3, <1>4

LEMMA MergeStep == ASSUME MergeInv, [Next]_vars PROVE MergeInv'
<1> USE DEF MergeInv
<1>1. CASE CopyNext
  <2>1. LoopInv'
    BY <1>1, AtComponent DEF LoopInv
  <2> QED BY <1>1, <2>1, CopyNextTyped, CopyNextCopies, CopyNextKept, CopyNextSeen
<1>2. CASE SourceDone
  <2>1. /\ pc = "merging" /\ next \in DOMAIN sources
        /\ next' = next + 1 /\ at' = 1
        /\ UNCHANGED <<sources, window, out, seenTZ, pc>>
    <3>1. next <= Len(sources) /\ next \in Nat \ {0}
      BY <1>2, MergeReads DEF SourceDone, Index
    <3>2. Len(sources) \in Nat /\ DOMAIN sources = 1..Len(sources)
      BY MergeReads, SourcesTyped
    <3> QED BY <1>2, <3>1, <3>2 DEF SourceDone
  <2>2. PICK cal \in sources[next].cal : at > Len(cal)
    BY <1>2 DEF SourceDone
  <2>3. MergeTyped'
    <3>1. next + 1 \in Index /\ 1 \in Index
      BY MergeReads DEF Index
    <3> QED BY <2>1, <3>1 DEF MergeTyped
  <2>4. CopiesInv' /\ SeenInv' /\ ZonesOnce' /\ LoopInv'
    BY <2>1, SameWindow DEF CopiesInv, SeenInv, ZonesOnce, LoopInv, Positions
  <2>5. KeptInv'
    <3> SUFFICES ASSUME NEW i \in DOMAIN sources, NEW c \in sources[i].cal,
                        NEW j \in DOMAIN c, Passed(i, j)', Keeps(c[j], c)
                 PROVE  \/ c[j].kind = "VTIMEZONE" /\ c[j].tzid \in seenTZ
                        \/ Copied(i, j)
      BY <2>1, SameWindow DEF KeptInv, Copied, Positions
    <3>1. i \in Nat /\ next \in Nat /\ at \in Nat /\ j \in Nat \ {0}
      BY Indexes, MergeReads DEF Index
    <3>2. i < next \/ i = next
      BY <2>1, <3>1 DEF Passed
    <3>3. i = next => c = cal
      BY <2>1, SourcesTyped, MergeReads
    <3>4. i = next => j < at
      <4> SUFFICES ASSUME i = next PROVE j < at
        OBVIOUS
      <4>1. Len(cal) \in Nat /\ DOMAIN cal = 1..Len(cal)
        BY <2>1, SourcesTyped, MergeReads
      <4> QED BY <2>2, <3>1, <3>3, <4>1
    <3>5. Passed(i, j)
      BY <3>2, <3>4 DEF Passed
    <3> QED BY <2>1, <3>5 DEF KeptInv
  <2> QED BY <2>3, <2>4, <2>5
<1>3. CASE ParseFails
  <2>1. /\ pc' = "failed" /\ out' = <<>>
        /\ UNCHANGED <<sources, window, next, at, seenTZ>>
    BY <1>3 DEF ParseFails
  <2>2. Positions' = {}
    BY <2>1 DEF Positions
  <2>3. MergeTyped'
    <3>1. <<>> \in Seq(Entries)
      OBVIOUS
    <3> QED BY <2>1, <3>1 DEF MergeTyped
  <2>4. CopiesInv' /\ KeptInv' /\ SeenInv' /\ ZonesOnce' /\ LoopInv'
    BY <2>1, <2>2 DEF CopiesInv, KeptInv, SeenInv, ZonesOnce, LoopInv
  <2> QED BY <2>3, <2>4
<1>4. CASE Serialize
  <2>1. /\ pc = "merging" /\ pc' = "merged" /\ next > Len(sources)
        /\ UNCHANGED <<sources, window, next, at, out, seenTZ>>
    BY <1>4 DEF Serialize
  <2>2. MergeTyped' /\ CopiesInv' /\ SeenInv' /\ ZonesOnce' /\ LoopInv'
    BY <2>1, SameWindow DEF MergeTyped, CopiesInv, SeenInv, ZonesOnce, LoopInv, Positions
  <2>3. KeptInv'
    BY <2>1, SameWindow DEF KeptInv, Copied, Positions, Passed
  <2> QED BY <2>2, <2>3
<1>5. CASE UNCHANGED vars
  <2>1. UNCHANGED <<sources, window, next, at, out, seenTZ, pc>>
    BY <1>5 DEF vars
  <2>2. MergeTyped' /\ SeenInv' /\ ZonesOnce' /\ LoopInv'
    BY <2>1 DEF MergeTyped, SeenInv, ZonesOnce, LoopInv, Positions
  <2>3. CopiesInv' /\ KeptInv'
    BY <2>1, SameWindow DEF CopiesInv, KeptInv, Positions, Copied, Passed
  <2> QED BY <2>2, <2>3
<1> QED BY <1>1, <1>2, <1>3, <1>4, <1>5 DEF Next

LEMMA MergeBegins == Init => MergeInv
<1> SUFFICES ASSUME Init PROVE MergeInv
  OBVIOUS
<1>1. Positions = {} /\ out = <<>> /\ seenTZ = {} /\ pc = "merging" /\ next = 1 /\ at = 1
  BY DEF Init, Positions
<1>2. MergeTyped
  BY <1>1 DEF Init, MergeTyped, Index
<1>3. KeptInv
  <2> SUFFICES ASSUME NEW i \in DOMAIN sources, NEW c \in sources[i].cal, NEW j \in DOMAIN c
               PROVE  ~Passed(i, j)
    BY DEF KeptInv
  <2>1. sources \in Inputs
    BY DEF Init
  <2>2. i \in Nat \ {0} /\ j \in Nat \ {0}
    BY <2>1, Indexes
  <2> QED BY <1>1, <2>2 DEF Passed
<1> QED BY <1>1, <1>2, <1>3 DEF MergeInv, CopiesInv, SeenInv, ZonesOnce, LoopInv

LEMMA MergeAlways == Spec => []MergeInv
BY MergeBegins, MergeStep, PTL DEF Spec

-----------------------------------------------------------------------------
(* What the invariant says of the mix. *)

LEMMA PrefixApart ==
    ASSUME NEW u \in Seq(STRING), NEW v \in Seq(STRING),
           NEW i \in STRING \ {""}, NEW j \in STRING \ {""},
           prefixUID(u, i) = prefixUID(v, j), prefixUID(u, i) # <<>>
    PROVE  i = j
<1>1. ASSUME NEW w \in Seq(STRING), NEW k \in STRING \ {""}, prefixUID(w, k) # <<>>
      PROVE  prefixUID(w, k)[1] = k
  <2>1. prefixUID(w, k) = <<k>> \o w
    BY <1>1 DEF prefixUID
  <2> QED BY <2>1, Prepended
<1> QED BY <1>1

\* The component an entry of the mix comes from.
LEMMA EntryParts ==
    ASSUME MergeInv, NEW a \in Positions, NEW cal \in sources[out[a].from].cal
    PROVE  /\ out[a].from \in DOMAIN sources /\ out[a].at \in DOMAIN cal
           /\ Keeps(cal[out[a].at], cal)
           /\ out[a].comp = CopyOf(cal[out[a].at], sources[out[a].from].id)
           /\ Proper(cal[out[a].at])
           /\ cal[out[a].at].kind = "VTIMEZONE" => cal[out[a].at].uid = <<>>
           /\ sources[out[a].from].id \in STRING \ {""}
<1>1. out[a].from \in DOMAIN sources /\ \E c \in sources[out[a].from].cal : Original(out[a], c)
  BY DEF MergeInv, CopiesInv
<1>2. \A c \in sources[out[a].from].cal : c = cal
  BY <1>1, MergeReads, SourcesTyped
<1>3. Original(out[a], cal)
  BY <1>1, <1>2
<1> QED BY <1>1, <1>3, MergeReads, SourcesTyped DEF Original

LEMMA EntryHasOrigin ==
    ASSUME MergeInv, NEW a \in Positions PROVE \E cal \in sources[out[a].from].cal : TRUE
BY DEF MergeInv, CopiesInv

\* When everything is merged the loops have been everywhere.
LEMMA AllPassed ==
    ASSUME MergeInv, Merged, NEW i \in DOMAIN sources, NEW cal \in sources[i].cal,
           NEW j \in DOMAIN cal, Keeps(cal[j], cal)
    PROVE  \/ cal[j].kind = "VTIMEZONE" /\ cal[j].tzid \in seenTZ
           \/ Copied(i, j)
<1>1. next > Len(sources) /\ Len(sources) \in Nat /\ DOMAIN sources = 1..Len(sources)
  BY MergeReads, SourcesTyped DEF MergeInv, LoopInv, Merged
<1>2. next \in Nat /\ i \in Nat
  BY MergeReads, Indexes DEF Index
<1>3. Passed(i, j)
  BY <1>1, <1>2 DEF Passed
<1> QED BY <1>3 DEF MergeInv, KeptInv, Merged

LEMMA CopyUid ==
    ASSUME NEW comp \in Components, NEW id \in STRING, comp.kind # "VTIMEZONE"
    PROVE  CopyOf(comp, id).uid = prefixUID(comp.uid, id)
BY PrefixTyped DEF CopyOf, Components

(* Components of different sources never share a UID in the mix            *)
(* (prefixUID), so that an exception finds the series it belongs to.       *)
THEOREM UidsStayApart == Spec => []UidsApart
<1>1. ASSUME MergeInv PROVE UidsApart
  <2> USE <1>1
  <2> SUFFICES ASSUME NEW a \in Positions, NEW b \in Positions,
                      out[a].comp.uid = out[b].comp.uid, out[a].comp.uid # <<>>
               PROVE  out[a].from = out[b].from
    BY DEF UidsApart
  <2>1. ASSUME NEW e \in Positions, out[e].comp.uid # <<>>
        PROVE  \E u \in Seq(STRING) :
                 out[e].comp.uid = prefixUID(u, sources[out[e].from].id)
    <3>1. PICK cal \in sources[out[e].from].cal : TRUE
      BY EntryHasOrigin
    <3> DEFINE comp == cal[out[e].at]
               id == sources[out[e].from].id
    <3>2. /\ out[e].comp = CopyOf(comp, id) /\ comp \in Components
          /\ comp.kind = "VTIMEZONE" => comp.uid = <<>>
          /\ id \in STRING
      BY EntryParts DEF Proper
    <3>3. comp.kind # "VTIMEZONE"
      BY <2>1, <3>2 DEF CopyOf
    <3>4. comp.uid \in Seq(STRING)
      BY <3>2 DEF Components
    <3>5. CopyOf(comp, id).uid = prefixUID(comp.uid, id)
      BY <3>2, <3>3, CopyUid
    <3>6. out[e].comp.uid = prefixUID(comp.uid, id)
      BY <3>2, <3>5
    <3> QED BY <3>4, <3>6
  <2>2. PICK u \in Seq(STRING) : out[a].comp.uid = prefixUID(u, sources[out[a].from].id)
    BY <2>1
  <2>3. PICK v \in Seq(STRING) : out[b].comp.uid = prefixUID(v, sources[out[b].from].id)
    BY <2>1
  <2>4. /\ out[a].from \in DOMAIN sources /\ out[b].from \in DOMAIN sources
        /\ sources[out[a].from].id \in STRING \ {""}
        /\ sources[out[b].from].id \in STRING \ {""}
    BY EntryHasOrigin, EntryParts
  <2>5. sources[out[a].from].id = sources[out[b].from].id
    BY <2>2, <2>3, <2>4, PrefixApart
  <2> QED BY <2>4, <2>5, MergeReads, InputsAssumption
<1> QED BY <1>1, MergeAlways, PTL

(* A TZID is defined once in the mix, by the first source that defines it  *)
(* (seenTZ).                                                               *)
THEOREM ZonesAreDefinedOnce == Spec => []ZonesOnce
<1>1. MergeInv => ZonesOnce
  BY DEF MergeInv
<1> QED BY <1>1, MergeAlways, PTL

(* A TZID that a merged component refers to and its source defines is      *)
(* defined in the mix, by that source or an earlier one.                   *)
THEOREM ZonesAreDefined == Spec => []ZonesDefined
<1>1. ASSUME MergeInv PROVE ZonesDefined
  <2> USE <1>1
  <2> SUFFICES ASSUME Merged, NEW a \in Positions, NEW cal \in sources[out[a].from].cal,
                      NEW j \in DOMAIN cal, Defines(cal[j], out[a].comp.tzid)
               PROVE  \E b \in Positions : Defines(out[b].comp, out[a].comp.tzid)
    BY DEF ZonesDefined
  <2> DEFINE i == out[a].from
             tzid == out[a].comp.tzid
  <2>1. i \in DOMAIN sources
    BY EntryParts
  <2>2. cal[j].kind = "VTIMEZONE" /\ cal[j].tzid = tzid /\ tzid # ""
    BY DEF Defines
  <2>3. cal[j].tzid \in seenTZ \/ Copied(i, j)
    BY <2>1, <2>2, AllPassed DEF Keeps
  <2>4. CASE cal[j].tzid \in seenTZ
    BY <2>2, <2>4 DEF MergeInv, SeenInv, Merged
  <2>5. CASE Copied(i, j)
    <3>1. PICK b \in Positions : out[b].from = i /\ out[b].at = j
      BY <2>5 DEF Copied
    <3>2. out[b].comp = CopyOf(cal[j], sources[i].id)
      BY <3>1, EntryParts
    <3> QED BY <2>2, <3>1, <3>2 DEF CopyOf, Defines
  <2> QED BY <2>3, <2>4, <2>5
<1> QED BY <1>1, MergeAlways, PTL

-----------------------------------------------------------------------------
(* The window of the mix. *)

LEMMA EventOf ==
    ASSUME sources \in Inputs, NEW i \in DOMAIN sources, NEW cal \in sources[i].cal,
           NEW ev \in Events(cal)
    PROVE  Proper(ev) /\ ev.kind = "VEVENT"
<1>1. PICK j \in DOMAIN cal : ev = cal[j] /\ ev.kind = "VEVENT"
  BY DEF Events
<1> QED BY <1>1, SourcesTyped

LEMMA InEvents ==
    ASSUME NEW cal, NEW j \in DOMAIN cal, cal[j].kind = "VEVENT"
    PROVE  cal[j] \in Events(cal)
BY DEF Events

(* An event that is in the mix brings every other of its UID with it       *)
(* (eventsInWindow groups by UID), and prefixUID gives all the same UID.   *)
THEOREM SeriesStayTogether == Spec => []SeriesTogether
<1>1. ASSUME MergeInv PROVE SeriesTogether
  <2> USE <1>1
  <2> SUFFICES ASSUME Merged, NEW a \in Positions, NEW cal \in sources[out[a].from].cal,
                      NEW j \in DOMAIN cal,
                      cal[out[a].at].kind = "VEVENT", cal[j].kind = "VEVENT",
                      cal[j].uid = cal[out[a].at].uid, cal[out[a].at].uid # <<>>
               PROVE  \E b \in Positions :
                        /\ out[b].from = out[a].from /\ out[b].at = j
                        /\ out[b].comp.uid = out[a].comp.uid
    BY DEF SeriesTogether
  <2> DEFINE i == out[a].from
             id == sources[i].id
             ev == cal[out[a].at]
  <2>1. /\ i \in DOMAIN sources /\ out[a].at \in DOMAIN cal /\ Keeps(ev, cal)
        /\ out[a].comp = CopyOf(ev, id) /\ ev \in Components /\ id \in STRING
    BY EntryParts DEF Proper
  <2>2. Keeps(cal[j], cal)
    <3>1. CASE ~Active(window)
      BY <3>1 DEF Keeps
    <3>2. CASE ev \in eventsInWindow(Events(cal), window)
      <4>1. PICK other \in Events(cal) :
               sameGroup(ev, other) /\ eventHits(other, bounds(window))
        BY <3>2 DEF eventsInWindow
      <4>2. sameGroup(cal[j], other)
        BY <4>1 DEF sameGroup
      <4>3. cal[j] \in Events(cal)
        BY InEvents
      <4> QED BY <4>1, <4>2, <4>3 DEF eventsInWindow, Keeps
    <3> QED BY <2>1, <3>1, <3>2 DEF Keeps
  <2>3. Copied(i, j)
    BY <2>1, <2>2, AllPassed
  <2>4. PICK b \in Positions : out[b].from = i /\ out[b].at = j
    BY <2>3 DEF Copied
  <2>5. out[b].comp = CopyOf(cal[j], id) /\ cal[j] \in Components
    BY <2>4, EntryParts DEF Proper
  <2>6. out[b].comp.uid = prefixUID(cal[j].uid, id) /\ out[a].comp.uid = prefixUID(ev.uid, id)
    BY <2>1, <2>5, PrefixTyped DEF CopyOf
  <2> QED BY <2>4, <2>6
<1> QED BY <1>1, MergeAlways, PTL

(* No event is missing from the mix that has an occurrence in the window   *)
(* which its last RRULE or an RDATE gives, or its DTSTART when it does not *)
(* repeat: not even one that first gets there after more occurrences than  *)
(* seriesHits looks at, nor one whose exclusions the walk steps over.      *)
THEOREM WhatIsInsideIsKept == Spec => []KeepsWhatIsInside
<1>1. ASSUME MergeInv PROVE KeepsWhatIsInside
  <2> USE <1>1
  <2> SUFFICES ASSUME Merged, NEW i \in DOMAIN sources, NEW cal \in sources[i].cal,
                      NEW j \in DOMAIN cal, cal[j].kind = "VEVENT", Inside(cal[j])
               PROVE  Copied(i, j)
    BY DEF KeepsWhatIsInside
  <2>1. cal[j] \in Events(cal)
    BY InEvents
  <2>2. eventHits(cal[j], bounds(window))
    <3>1. window \in Windows
      BY DEF MergeInv, MergeTyped
    <3>2. Proper(cal[j])
      BY <2>1, MergeReads, EventOf
    <3> QED BY <3>1, <3>2, InsideHits
  <2>3. Keeps(cal[j], cal)
    BY <2>1, <2>2 DEF Keeps, eventsInWindow, sameGroup
  <2> QED BY <2>3, AllPassed
<1> QED BY <1>1, MergeAlways, PTL

(* For an event with one RRULE, or none and no RDATE, those are all the    *)
(* dates it has.                                                           *)
Ordinary(ev) ==
    \/ ~Repeats(ev)
    \/ Len(ev.rule) = 1 /\ ev.rule[1].count > 0

OrdinaryEventsKept ==
    Merged =>
        \A i \in DOMAIN sources : \A cal \in sources[i].cal : \A j \in DOMAIN cal :
            \A span \in cal[j].span : \A occ \in Dates(cal[j], span) :
                cal[j].kind = "VEVENT" /\ Ordinary(cal[j]) /\ InWindow(span, occ) =>
                    Copied(i, j)

LEMMA OrdinaryDatesSeen ==
    ASSUME NEW ev, Proper(ev), Ordinary(ev), NEW span \in ev.span
    PROVE  Dates(ev, span) = SeenDates(ev, span)
<1>1. CASE ~Repeats(ev)
  BY <1>1 DEF SeenDates
<1>2. CASE Len(ev.rule) = 1 /\ ev.rule[1].count > 0
  <2> DEFINE r == ev.rule[1]
  <2>1. ev.rule \in Seq([every : Nat \ {0}, count : Nat])
    BY DEF Proper, Components
  <2>2. DOMAIN ev.rule = {1} /\ ev.rule # <<>>
    BY <1>2, <2>1
  <2>3. LastRule(ev) = {r}
    BY <1>2, <2>2 DEF LastRule
  <2>4. r.every \in Nat \ {0} /\ r.count \in Nat
    BY <2>3, ProperParts
  <2>5. span[1] \in Int
    BY ProperParts
  <2>6. span[1] \in Ruled(r, span[1], Far)
    <3>1. Far >= 1 /\ Far \in Nat
      BY ProperParts, ChecksAssumption, FarAssumption, FS_CardinalityType DEF Proper
    <3>2. 0 \in 0..((IF r.count = Forever THEN Far ELSE r.count) - 1)
      BY <1>2, <2>4, <3>1
    <3>3. span[1] = span[1] + 0 * r.every
      BY <2>4, <2>5
    <3> QED BY <3>2, <3>3 DEF Ruled
  <2>7. ASSUME NEW occ \in Dates(ev, span), Repeats(ev)
        PROVE  occ \in ev.rdates \/ occ \in Ruled(r, span[1], Far)
    BY <2>2, <2>6, <2>7 DEF Dates
  <2> QED BY <2>3, <2>7 DEF SeenDates
<1> QED BY <1>1, <1>2 DEF Ordinary

(* So no such event with a date in the window is missing from the mix: for *)
(* it the mix keeps the promise of faq.html:16 (seriesHits, spanHits).     *)
THEOREM OrdinaryEventsAreKept == Spec => []OrdinaryEventsKept
<1>1. ASSUME MergeInv, KeepsWhatIsInside PROVE OrdinaryEventsKept
  <2> USE <1>1
  <2> SUFFICES ASSUME Merged, NEW i \in DOMAIN sources, NEW cal \in sources[i].cal,
                      NEW j \in DOMAIN cal, NEW span \in cal[j].span,
                      NEW occ \in Dates(cal[j], span),
                      cal[j].kind = "VEVENT", Ordinary(cal[j]), InWindow(span, occ)
               PROVE  Copied(i, j)
    BY DEF OrdinaryEventsKept
  <2>1. Proper(cal[j])
    BY MergeReads, EventOf, InEvents
  <2>2. occ \in SeenDates(cal[j], span)
    BY <2>1, OrdinaryDatesSeen
  <2>3. Inside(cal[j])
    BY <2>2 DEF Inside
  <2> QED BY <2>3 DEF KeepsWhatIsInside
<1> QED BY <1>1, MergeAlways, WhatIsInsideIsKept, PTL

(* What an active window lets through has such an occurrence, cannot be    *)
(* decided, or shares its UID with an event that has or cannot             *)
(* (eventsInWindow).                                                       *)
THEOREM WhatIsOutsideIsDropped == Spec => []DropsWhatIsOutside
<1>1. ASSUME MergeInv PROVE DropsWhatIsOutside
  <2> USE <1>1
  <2> SUFFICES ASSUME Merged, Active(window), NEW i \in DOMAIN sources,
                      NEW cal \in sources[i].cal, NEW j \in DOMAIN cal,
                      cal[j].kind = "VEVENT", Copied(i, j)
               PROVE  \E other \in Events(cal) :
                        /\ other = cal[j] \/ (other.uid = cal[j].uid /\ other.uid # <<>>)
                        /\ Inside(other) \/ Undecided(other)
    BY DEF DropsWhatIsOutside
  <2>1. PICK a \in Positions : out[a].from = i /\ out[a].at = j
    BY DEF Copied
  <2>2. Keeps(cal[j], cal)
    BY <2>1, EntryParts
  <2>3. PICK other \in Events(cal) :
           sameGroup(cal[j], other) /\ eventHits(other, bounds(window))
    BY <2>2 DEF Keeps, eventsInWindow
  <2>4. Inside(other) \/ Undecided(other)
    <3>1. window \in Windows
      BY DEF MergeInv, MergeTyped
    <3>2. Proper(other)
      BY MergeReads, EventOf
    <3> QED BY <2>3, <3>1, <3>2, HitsInside
  <2> QED BY <2>3, <2>4 DEF sameGroup
<1> QED BY <1>1, MergeAlways, PTL

(* A window that reaches further keeps whatever a narrower one does        *)
(* (bounds, seriesHits): widening a mix never makes an event disappear.    *)
THEOREM WiderWindowKeepsMore == Spec => []WiderKeepsMore
<1>1. ASSUME MergeInv PROVE WiderKeepsMore
  <2> USE <1>1
  <2> SUFFICES ASSUME NEW v \in Wider(window), NEW i \in DOMAIN sources,
                      NEW cal \in sources[i].cal,
                      NEW ev \in eventsInWindow(Events(cal), window)
               PROVE  ev \in eventsInWindow(Events(cal), v)
    BY DEF WiderKeepsMore
  <2>1. window \in Windows
    BY DEF MergeInv, MergeTyped
  <2>2. v \in Windows /\ Looser(bounds(window), bounds(v))
    BY <2>1, WiderIsLooser
  <2>3. BoundsOk(bounds(window)) /\ BoundsOk(bounds(v))
    BY <2>1, <2>2, BoundsTyped DEF BoundsOk
  <2>4. PICK other \in Events(cal) :
           sameGroup(ev, other) /\ eventHits(other, bounds(window))
    BY DEF eventsInWindow
  <2>5. eventHits(other, bounds(v))
    <3>1. Proper(other)
      BY MergeReads, EventOf
    <3> QED BY <2>2, <2>3, <2>4, <3>1, LooserHits
  <2> QED BY <2>4, <2>5 DEF eventsInWindow
<1> QED BY <1>1, MergeAlways, PTL

-----------------------------------------------------------------------------
(* The order of the mix. *)

Earlier(e, f) == e.from < f.from \/ (e.from = f.from /\ e.at < f.at)

(* The mix has its components in the order of the sources, and each of     *)
(* them in the order of its calendar, none of them twice.                  *)
MixInOrder == \A a, b \in Positions : a < b => Earlier(out[a], out[b])

\* The loops have been where the mix comes from.
PassedInv == \A a \in Positions : Passed(out[a].from, out[a].at)

LEMMA OrderStep ==
    ASSUME MergeInv, MixInOrder, PassedInv, [Next]_vars PROVE MixInOrder' /\ PassedInv'
<1> USE DEF MergeInv
<1>0. next \in Nat /\ at \in Nat
  BY MergeReads DEF Index
<1>1. CASE CopyNext
  <2>1. at' = at + 1 /\ next' = next
    BY <1>1, AtComponent
  <2>2. \A i \in Nat, j \in Nat : Passed(i, j) => Passed(i, j)'
    BY <1>0, <2>1 DEF Passed
  <2>3. \A a \in Positions : out[a].from \in Nat /\ out[a].at \in Nat
    BY OutTyped DEF Entries
  <2>4. CASE UNCHANGED out
    BY <2>2, <2>3, <2>4 DEF MixInOrder, PassedInv, Positions
  <2>5. ASSUME NEW entry \in Entries, entry.from = next, entry.at = at,
               out' = Append(out, entry)
        PROVE  MixInOrder' /\ PassedInv'
    <3> DEFINE new == Len(out) + 1
    <3>1. /\ Positions' = Positions \union {new} /\ new \notin Positions
          /\ out'[new] = entry /\ \A a \in Positions : out'[a] = out[a]
      BY <2>5, OutGrows
    <3>2. \A a \in Positions : a \in Nat /\ a < new
      BY OutTyped
    <3>3. new \in Nat
      BY OutTyped
    <3> HIDE DEF new
    <3>4. ASSUME NEW i, NEW j, i = next, j = at PROVE Passed(i, j)'
      BY <1>0, <2>1, <3>4 DEF Passed
    <3>5. PassedInv'
      <4> SUFFICES ASSUME NEW a \in Positions', NEW i, NEW j,
                          i = out'[a].from, j = out'[a].at
                   PROVE  Passed(i, j)'
        BY DEF PassedInv, Passed
      <4>1. CASE a = new
        BY <2>5, <3>1, <3>4, <4>1
      <4>2. CASE a # new
        <5>1. a \in Positions /\ i = out[a].from /\ j = out[a].at
          BY <3>1, <4>2
        <5>2. Passed(i, j)
          BY <5>1 DEF PassedInv
        <5> QED BY <2>2, <2>3, <5>1, <5>2
      <4> QED BY <4>1, <4>2
    <3>6. \A a \in Positions : Earlier(out[a], entry)
      BY <2>5 DEF PassedInv, Passed, Earlier
    <3>7. MixInOrder'
      <4> SUFFICES ASSUME NEW a \in Positions', NEW b \in Positions', a < b
                   PROVE  Earlier(out'[a], out'[b])
        BY DEF MixInOrder
      <4>1. CASE b = new
        <5>1. a \in Positions
          BY <3>1, <3>3, <4>1
        <5> QED BY <3>1, <3>6, <4>1, <5>1
      <4>2. CASE b # new
        BY <3>1, <3>2, <3>3, <4>2 DEF MixInOrder
      <4> QED BY <4>1, <4>2
    <3> QED BY <3>5, <3>7
  <2> QED BY <1>1, <2>4, <2>5, CopyNextCases
<1>2. CASE SourceDone
  <2>1. next' = next + 1 /\ UNCHANGED out
    BY <1>2 DEF SourceDone
  <2>2. ASSUME NEW a \in Positions PROVE Passed(out[a].from, out[a].at)'
    <3>1. out[a].from \in Nat
      BY OutTyped DEF Entries
    <3> QED BY <1>0, <2>1, <3>1 DEF PassedInv, Passed
  <2> QED BY <2>1, <2>2 DEF MixInOrder, PassedInv, Positions
<1>3. CASE ParseFails
  <2>1. Positions' = {}
    BY <1>3 DEF ParseFails, Positions
  <2> QED BY <2>1 DEF MixInOrder, PassedInv
<1>4. CASE UNCHANGED <<next, at, out>>
  BY <1>4 DEF MixInOrder, PassedInv, Passed, Positions
<1> QED BY <1>1, <1>2, <1>3, <1>4 DEF Next, Serialize, vars

(* MergeWithWindow appends in one pass: what a subscriber gets keeps the   *)
(* order of the feed's sources, and no component is in it twice.           *)
THEOREM ComesInOrder == Spec => []MixInOrder
<1>1. Init => MixInOrder /\ PassedInv
  BY DEF Init, MixInOrder, PassedInv, Positions
<1> QED BY <1>1, MergeAlways, OrderStep, PTL DEF Spec
=============================================================================
