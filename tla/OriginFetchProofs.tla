-------------------------- MODULE OriginFetchProofs --------------------------
(***************************************************************************)
(* OriginFetch for any number of calls, URLs and slots: the pool is never  *)
(* overdrawn, and each step is a step of FetchPromise or leaves what it    *)
(* promises alone.                                                         *)
(*                                                                         *)
(* SlotsInv counts: the semaphore holds one token for each goroutine that  *)
(* fetches.  BurstInv ties the goroutines of a call to its result slice:   *)
(* what is not written yet belongs to a goroutine that is still counted by *)
(* the wait group, so a call that returns has a result for each URL.       *)
(*                                                                         *)
(* The last part is about OriginDial: its trips are steps of OriginFetch,  *)
(* and TripInv follows what a trip has left of the resolver's answers.     *)
(***************************************************************************)
EXTENDS OriginDial, FiniteSetTheorems, TLAPS

TypeInv ==
    /\ pc \in [Calls -> {"idle", "waiting", "returned"}]
    /\ asked \in [Calls -> SUBSET (0..MaxUrls)]
    /\ cancelled \in SUBSET Calls
    /\ worker \in [Calls -> [Urls -> Workers]]
    /\ out \in [Calls -> [Urls -> Outcomes]]
    /\ used \in Nat

SlotsInv ==
    /\ IsFiniteSet(Fetching)
    /\ used = Cardinality(Fetching)
    /\ used <= MaxConcurrent

(* A call that has begun asked for one number of URLs. *)
AskedInv ==
    \A c \in Calls :
        /\ (pc[c] = "idle") <=> (asked[c] = {})
        /\ pc[c] = "idle" => \A i \in Urls : worker[c][i] = "none"
        /\ \A m, n \in asked[c] : m = n

(* A URL of the burst is with its goroutine or has its result, unless the  *)
(* burst was refused; the others have no goroutine.                        *)
Refused(c, n) ==
    \A i \in 1..Burst(n) : worker[c][i] = "none" /\ out[c][i] = "limited"

UnderWay(c, n) ==
    \A i \in 1..Burst(n) :
        /\ worker[c][i] # "none"
        /\ worker[c][i] = "done" => out[c][i] \in {"body", "failed"}

BurstInv ==
    \A c \in Calls : \A n \in asked[c] :
        /\ Refused(c, n) \/ UnderWay(c, n)
        /\ \A i \in Urls : i > Burst(n) => worker[c][i] = "none"
        /\ \A i \in 1..n : i > MaxSources => out[c][i] = "capped"

(* Only a call that waits has goroutines under way. *)
RestInv == \A c \in Calls : pc[c] # "waiting" => AllDone(c)

FetchInv == TypeInv /\ SlotsInv /\ AskedInv /\ BurstInv /\ RestInv

-----------------------------------------------------------------------------
LEMMA FetchInit == Init => FetchInv
<1> SUFFICES ASSUME Init PROVE FetchInv
  OBVIOUS
<1> USE FetchAssumption
<1>1. TypeInv
  BY DEF Init, TypeInv, Workers, Outcomes
<1>2. Fetching = {}
  BY DEF Init, Fetching
<1>3. SlotsInv
  BY <1>2, FS_EmptySet DEF Init, SlotsInv
<1>4. AskedInv /\ BurstInv /\ RestInv
  BY DEF Init, AskedInv, BurstInv, RestInv, AllDone
<1> QED BY <1>1, <1>3, <1>4 DEF FetchInv

LEMMA TypeKept == ASSUME TypeInv, SlotsInv, [Next]_vars PROVE TypeInv'
<1> USE FetchAssumption DEF TypeInv, Workers, Outcomes
<1>1. ASSUME NEW c \in Calls, NEW n \in 0..MaxUrls, StartAll(c, n) PROVE TypeInv'
  BY <1>1 DEF StartAll
<1>2. ASSUME NEW c \in Calls, NEW n \in 0..MaxUrls, StartLimited(c, n)
      PROVE TypeInv'
  BY <1>2 DEF StartLimited
<1>3. ASSUME NEW c \in Calls, NEW i \in Urls, Check(c, i) PROVE TypeInv'
  <2>1. CASE worker' = [worker EXCEPT ![c][i] = "acquiring"] /\ UNCHANGED out
    BY <1>3, <2>1 DEF Check
  <2>2. CASE Done(c, i, "failed")
    BY <1>3, <2>2 DEF Check, Done
  <2> QED BY <1>3, <2>1, <2>2 DEF Check
<1>4. ASSUME NEW c \in Calls, NEW i \in Urls, acquire(c, i) PROVE TypeInv'
  BY <1>4 DEF acquire
<1>5. ASSUME NEW c \in Calls, NEW i \in Urls, GiveUp(c, i) PROVE TypeInv'
  BY <1>5 DEF GiveUp, Done
<1>6. ASSUME NEW c \in Calls, NEW i \in Urls, Respond(c, i) PROVE TypeInv'
  <2>1. <<c, i>> \in Fetching
    BY <1>6 DEF Respond, Fetching
  <2>2. used # 0
    BY <2>1, FS_EmptySet DEF SlotsInv
  <2> QED BY <1>6, <2>2 DEF Respond, Done, release
<1>7. ASSUME NEW c \in Calls, Return(c) PROVE TypeInv'
  BY <1>7 DEF Return
<1>8. ASSUME NEW c \in Calls, Cancel(c) PROVE TypeInv'
  BY <1>8 DEF Cancel
<1>9. CASE UNCHANGED vars
  BY <1>9 DEF vars
<1> QED
  BY <1>1, <1>2, <1>3, <1>4, <1>5, <1>6, <1>7, <1>8, <1>9 DEF Next, WorkerStep

\* A step that gives and takes no slot.
LEMMA SlotsSame ==
    ASSUME SlotsInv, UNCHANGED used, Fetching' = Fetching PROVE SlotsInv'
BY DEF SlotsInv

LEMMA SlotsKept ==
    ASSUME TypeInv, SlotsInv, AskedInv, BurstInv, RestInv, [Next]_vars
    PROVE  SlotsInv'
<1> USE FetchAssumption
<1>1. ASSUME NEW c \in Calls, NEW n \in 0..MaxUrls,
             StartAll(c, n) \/ StartLimited(c, n)
      PROVE  SlotsInv'
  <2>1. \A i \in Urls : worker[c][i] # "fetching" /\ worker'[c][i] # "fetching"
    <3>1. pc[c] = "idle"
      BY <1>1 DEF StartAll, StartLimited
    <3>2. \A i \in Urls : worker[c][i] # "fetching"
      BY <3>1 DEF AskedInv
    <3>3. CASE StartAll(c, n)
      BY <3>2, <3>3 DEF StartAll, TypeInv
    <3>4. CASE StartLimited(c, n)
      BY <3>2, <3>4 DEF StartLimited
    <3> QED BY <1>1, <3>3, <3>4
  <2>2. \A d \in Calls \ {c} : worker'[d] = worker[d]
    BY <1>1 DEF StartAll, StartLimited, TypeInv
  <2>3. Fetching' = Fetching
    BY <2>1, <2>2 DEF Fetching
  <2> QED BY <1>1, <2>3, SlotsSame DEF StartAll, StartLimited
<1>2. ASSUME NEW c \in Calls, NEW i \in Urls, Check(c, i) \/ GiveUp(c, i)
      PROVE  SlotsInv'
  <2>1. \A w \in Calls \X Urls :
          (worker'[w[1]][w[2]] = "fetching") <=> (worker[w[1]][w[2]] = "fetching")
    <3>1. \E to \in {"acquiring", "done"} :
             worker' = [worker EXCEPT ![c][i] = to]
      BY <1>2 DEF Check, GiveUp, Done
    <3>2. worker[c][i] # "fetching"
      BY <1>2 DEF Check, GiveUp
    <3> QED BY <3>1, <3>2 DEF TypeInv
  <2>2. Fetching' = Fetching
    BY <2>1 DEF Fetching
  <2> QED BY <1>2, <2>2, SlotsSame DEF Check, GiveUp
<1>3. ASSUME NEW c \in Calls, NEW i \in Urls, acquire(c, i) PROVE SlotsInv'
  <2>1. Fetching' = Fetching \union {<<c, i>>} /\ <<c, i>> \notin Fetching
    BY <1>3 DEF acquire, Fetching, TypeInv
  <2>2. /\ IsFiniteSet(Fetching')
        /\ Cardinality(Fetching') = Cardinality(Fetching) + 1
    BY <2>1, FS_AddElement DEF SlotsInv
  <2> QED BY <1>3, <2>2 DEF acquire, SlotFree, SlotsInv, TypeInv
<1>4. ASSUME NEW c \in Calls, NEW i \in Urls, Respond(c, i) PROVE SlotsInv'
  <2>1. Fetching' = Fetching \ {<<c, i>>} /\ <<c, i>> \in Fetching
    BY <1>4 DEF Respond, Done, Fetching, TypeInv
  <2>2. /\ IsFiniteSet(Fetching')
        /\ Cardinality(Fetching') = Cardinality(Fetching) - 1
    BY <2>1, FS_RemoveElement DEF SlotsInv
  <2> QED BY <1>4, <2>2 DEF Respond, release, SlotsInv, TypeInv
<1>5. ASSUME NEW c \in Calls, Return(c) \/ Cancel(c) PROVE SlotsInv'
  <2>1. Fetching' = Fetching
    BY <1>5 DEF Return, Cancel, Fetching
  <2> QED BY <1>5, <2>1, SlotsSame DEF Return, Cancel
<1>6. CASE UNCHANGED vars
  BY <1>6 DEF vars, SlotsInv, Fetching
<1> QED
  BY <1>1, <1>2, <1>3, <1>4, <1>5, <1>6 DEF Next, WorkerStep

-----------------------------------------------------------------------------
\* What a step of one goroutine may do to its call.
LEMMA WorkerFacts ==
    ASSUME TypeInv, RestInv, NEW c \in Calls, NEW i \in Urls, WorkerStep(c, i)
    PROVE  /\ worker[c][i] \notin {"none", "done"}
           /\ worker'[c][i] # "none"
           /\ worker'[c][i] = "done" => out'[c][i] \in {"body", "failed"}
           /\ \A d \in Calls : \A j \in Urls : <<d, j>> # <<c, i>> =>
                 worker'[d][j] = worker[d][j] /\ out'[d][j] = out[d][j]
           /\ UNCHANGED <<pc, asked>>
           /\ pc[c] = "waiting"
<1>1. worker[c][i] \notin {"none", "done"}
  BY DEF WorkerStep, Check, acquire, GiveUp, Respond
<1>2. pc[c] = "waiting"
  BY <1>1 DEF RestInv, AllDone
<1>3. CASE Check(c, i)
  BY <1>1, <1>2, <1>3 DEF Check, Done, TypeInv
<1>4. CASE acquire(c, i)
  BY <1>1, <1>2, <1>4 DEF acquire, TypeInv
<1>5. CASE GiveUp(c, i)
  BY <1>1, <1>2, <1>5 DEF GiveUp, Done, TypeInv
<1>6. CASE Respond(c, i)
  BY <1>1, <1>2, <1>6 DEF Respond, Done, TypeInv
<1> QED BY <1>3, <1>4, <1>5, <1>6 DEF WorkerStep

LEMMA AskedKept == ASSUME TypeInv, AskedInv, RestInv, [Next]_vars PROVE AskedInv'
<1> USE DEF TypeInv, AskedInv
<1>1. ASSUME NEW c \in Calls, NEW n \in 0..MaxUrls,
             StartAll(c, n) \/ StartLimited(c, n)
      PROVE  AskedInv'
  <2>1. pc' = [pc EXCEPT ![c] = "waiting"] /\ asked' = [asked EXCEPT ![c] = {n}]
    BY <1>1 DEF StartAll, StartLimited
  <2>2. \A d \in Calls \ {c} : worker'[d] = worker[d]
    BY <1>1 DEF StartAll, StartLimited
  <2> QED BY <2>1, <2>2
<1>2. ASSUME NEW c \in Calls, NEW i \in Urls, WorkerStep(c, i) PROVE AskedInv'
  BY <1>2, WorkerFacts
<1>3. ASSUME NEW c \in Calls, Return(c) \/ Cancel(c) PROVE AskedInv'
  BY <1>3 DEF Return, Cancel
<1>4. CASE UNCHANGED vars
  BY <1>4 DEF vars
<1> QED
  BY <1>1, <1>2, <1>3, <1>4 DEF Next

LEMMA BurstFacts ==
    ASSUME NEW n \in 0..MaxUrls
    PROVE  /\ Burst(n) \in 0..n /\ Burst(n) <= MaxSources
           /\ \A i \in 1..n : i <= MaxSources => i \in 1..Burst(n)
           /\ \A i \in 1..n : i \in Urls
BY FetchAssumption DEF Burst, Urls

LEMMA BurstKept ==
    ASSUME TypeInv, AskedInv, BurstInv, RestInv, [Next]_vars PROVE BurstInv'
<1> USE FetchAssumption
<1>1. ASSUME NEW c \in Calls, NEW n \in 0..MaxUrls,
             StartAll(c, n) \/ StartLimited(c, n)
      PROVE  BurstInv'
  <2>1. asked' = [asked EXCEPT ![c] = {n}]
    BY <1>1 DEF StartAll, StartLimited
  <2>2. SUFFICES ASSUME NEW d \in Calls, NEW m \in asked'[d]
                 PROVE  /\ Refused(d, m)' \/ UnderWay(d, m)'
                        /\ \A i \in Urls : i > Burst(m) => worker'[d][i] = "none"
                        /\ \A i \in 1..m : i > MaxSources => out'[d][i] = "capped"
    BY DEF BurstInv
  <2>3. CASE d # c
    <3>1. m \in asked[d] /\ worker'[d] = worker[d] /\ out'[d] = out[d]
      BY <1>1, <2>3 DEF StartAll, StartLimited, TypeInv
    <3> QED BY <3>1 DEF BurstInv, Refused, UnderWay
  <2>4. CASE d = c
    <3>1. m = n
      BY <2>1, <2>4 DEF TypeInv
    <3>2. \A i \in Urls : worker[c][i] \in {"none", "done"}
      BY <1>1 DEF StartAll, StartLimited, RestInv, AllDone
    <3>3. CASE StartAll(c, n)
      <4>1. \A i \in Urls :
               worker'[c][i] = IF i <= Burst(n) THEN "checking" ELSE "none"
        BY <3>3 DEF StartAll, TypeInv
      <4>2. \A i \in Urls : i <= n /\ i > MaxSources => out'[c][i] = "capped"
        BY <3>3 DEF StartAll, TypeInv
      <4>3. UnderWay(c, n)'
        BY <4>1, BurstFacts DEF UnderWay, Urls
      <4> QED BY <2>4, <3>1, <4>1, <4>2, <4>3, BurstFacts DEF Urls
    <3>4. CASE StartLimited(c, n)
      <4>1. \A i \in Urls : worker'[c][i] = "none"
        BY <3>4 DEF StartLimited, AskedInv
      <4> QED BY <2>4, <3>1, <3>4, <4>1, BurstFacts DEF StartLimited, Refused, TypeInv
    <3> QED BY <1>1, <3>3, <3>4
  <2> QED BY <2>3, <2>4
<1>2. ASSUME NEW c \in Calls, NEW k \in Urls, WorkerStep(c, k) PROVE BurstInv'
  <2>1. SUFFICES ASSUME NEW d \in Calls, NEW n \in asked[d]
                 PROVE  /\ Refused(d, n)' \/ UnderWay(d, n)'
                        /\ \A i \in Urls : i > Burst(n) => worker'[d][i] = "none"
                        /\ \A i \in 1..n : i > MaxSources => out'[d][i] = "capped"
    BY <1>2, WorkerFacts DEF BurstInv
  <2>2. n \in 0..MaxUrls
    BY DEF TypeInv
  <2>3. /\ Refused(d, n) \/ UnderWay(d, n)
        /\ \A i \in Urls : i > Burst(n) => worker[d][i] = "none"
        /\ \A i \in 1..n : i > MaxSources => out[d][i] = "capped"
    BY DEF BurstInv
  <2>4. CASE d # c
    BY <1>2, <2>2, <2>3, <2>4, WorkerFacts, BurstFacts DEF Refused, UnderWay, Urls
  <2>5. CASE d = c
    <3>1. k <= Burst(n) /\ ~Refused(d, n)
      BY <1>2, <2>2, <2>3, <2>5, WorkerFacts, BurstFacts DEF Refused, Urls
    <3>2. UnderWay(d, n)'
      BY <1>2, <2>2, <2>3, <2>5, <3>1, WorkerFacts, BurstFacts DEF UnderWay, Urls
    <3> QED BY <1>2, <2>2, <2>3, <2>5, <3>1, <3>2, WorkerFacts, BurstFacts DEF Urls
  <2> QED BY <2>4, <2>5
<1>3. ASSUME NEW c \in Calls, Return(c) \/ Cancel(c) PROVE BurstInv'
  BY <1>3 DEF Return, Cancel, BurstInv, Refused, UnderWay
<1>4. CASE UNCHANGED vars
  BY <1>4 DEF vars, BurstInv, Refused, UnderWay
<1> QED
  BY <1>1, <1>2, <1>3, <1>4 DEF Next

LEMMA RestKept == ASSUME TypeInv, RestInv, [Next]_vars PROVE RestInv'
<1>1. ASSUME NEW c \in Calls, NEW n \in 0..MaxUrls,
             StartAll(c, n) \/ StartLimited(c, n)
      PROVE  RestInv'
  BY <1>1 DEF StartAll, StartLimited, RestInv, AllDone, TypeInv
<1>2. ASSUME NEW c \in Calls, NEW i \in Urls, WorkerStep(c, i) PROVE RestInv'
  BY <1>2, WorkerFacts DEF RestInv, AllDone, TypeInv
<1>3. ASSUME NEW c \in Calls, Return(c) \/ Cancel(c) PROVE RestInv'
  BY <1>3 DEF Return, Cancel, RestInv, AllDone, TypeInv
<1>4. CASE UNCHANGED vars
  BY <1>4 DEF vars, RestInv, AllDone
<1> QED
  BY <1>1, <1>2, <1>3, <1>4 DEF Next

THEOREM FetchSafe == Spec => []FetchInv
<1>1. FetchInv /\ [Next]_vars => FetchInv'
  BY TypeKept, SlotsKept, AskedKept, BurstKept, RestKept DEF FetchInv
<1> QED BY <1>1, FetchInit, PTL DEF Spec

(* Calls and goroutines keep their types, and the slots taken are exactly  *)
(* those of the goroutines that fetch (acquire, release).                  *)
THEOREM FetchTyped == Spec => []TypeOK
<1>1. FetchInv => TypeOK
  BY DEF FetchInv, TypeInv, SlotsInv, TypeOK
<1> QED BY <1>1, FetchSafe, PTL

(* There are never more goroutines that fetch than slots, whatever GetAll  *)
(* is asked for and however a fetch ends (acquire, release).               *)
THEOREM PoolBounded == Spec => []FetchesBounded
<1>1. FetchInv => FetchesBounded
  BY DEF FetchInv, TypeInv, SlotsInv, TypeOK, FetchesBounded
<1> QED BY <1>1, FetchSafe, PTL

-----------------------------------------------------------------------------
(* Refinement: Start... is Ask, Return is Answer, the rest is invisible.   *)

result == [c \in Calls |-> IF pc[c] = "returned" THEN {Returned(c)} ELSE {}]

LEMMA ReturnedFits ==
    ASSUME FetchInv, NEW c \in Calls, NEW n \in asked[c], AllDone(c)
    PROVE  Returned(c) \in Promise!Results(n)
<1> USE FetchAssumption
<1>1. n \in 0..MaxUrls /\ (CHOOSE m \in asked[c] : TRUE) = n
  BY DEF FetchInv, TypeInv, AskedInv
<1>2. Returned(c) = [i \in 1..n |-> out[c][i]]
  BY <1>1 DEF Returned
<1>3. Refused(c, n) \/ UnderWay(c, n)
  BY DEF FetchInv, BurstInv
<1>4. \A i \in 1..n : i > MaxSources => out[c][i] = "capped"
  BY DEF FetchInv, BurstInv
<1>5. CASE Refused(c, n)
  <2>1. \A i \in 1..n : i <= MaxSources => out[c][i] = "limited"
    BY <1>1, <1>5, BurstFacts DEF Refused
  <2> QED BY <1>1, <1>2, <1>4, <2>1 DEF Promise!Results
<1>6. CASE UnderWay(c, n)
  <2>1. \A i \in 1..n : i <= MaxSources => out[c][i] \in {"body", "failed"}
    BY <1>1, <1>6, BurstFacts DEF UnderWay, AllDone
  <2> QED BY <1>1, <1>2, <1>4, <2>1 DEF Promise!Results
<1> QED BY <1>3, <1>5, <1>6

LEMMA ReturnedSame ==
    ASSUME NEW c \in Calls, asked'[c] = asked[c], TypeInv, AskedInv,
           pc[c] = "returned",
           \A i \in Urls : out'[c][i] = out[c][i]
    PROVE  Returned(c)' = Returned(c)
<1>1. PICK n \in asked[c] : n \in 0..MaxUrls
  BY DEF TypeInv, AskedInv
<1>2. asked[c] = {n} /\ asked'[c] = {n}
  BY <1>1 DEF AskedInv
<1>3. Returned(c) = [i \in 1..n |-> out[c][i]]
  BY <1>2 DEF Returned
<1>4. Returned(c)' = [i \in 1..n |-> out'[c][i]]
  BY <1>2 DEF Returned
<1>5. \A i \in 1..n : i \in Urls
  BY <1>1, FetchAssumption DEF Urls
<1> QED BY <1>3, <1>4, <1>5

LEMMA StepKeepsPromise ==
    ASSUME FetchInv, [Next]_vars
    PROVE  [Promise!Next]_<<asked, result>>
<1> USE DEF FetchInv
<1>1. ASSUME NEW c \in Calls, NEW n \in 0..MaxUrls,
             StartAll(c, n) \/ StartLimited(c, n)
      PROVE  Promise!Ask(c)
  <2>1. pc[c] = "idle" /\ pc' = [pc EXCEPT ![c] = "waiting"]
        /\ asked' = [asked EXCEPT ![c] = {n}]
    BY <1>1 DEF StartAll, StartLimited
  <2>2. asked[c] = {}
    BY <2>1 DEF AskedInv
  <2>3. \A d \in Calls : pc[d] = "returned" =>
           pc'[d] = "returned" /\ Returned(d)' = Returned(d)
    <3> SUFFICES ASSUME NEW d \in Calls, pc[d] = "returned"
                 PROVE  pc'[d] = "returned" /\ Returned(d)' = Returned(d)
      OBVIOUS
    <3>1. d # c /\ asked'[d] = asked[d] /\ pc'[d] = pc[d]
      BY <2>1 DEF TypeInv
    <3>2. \A i \in Urls : out'[d][i] = out[d][i]
      BY <1>1, <3>1 DEF StartAll, StartLimited, TypeInv
    <3> QED BY <3>1, <3>2, ReturnedSame
  <2>4. \A d \in Calls : pc'[d] = "returned" => pc[d] = "returned"
    BY <2>1 DEF TypeInv
  <2>5. UNCHANGED result
    BY <2>3, <2>4 DEF result
  <2> QED BY <2>1, <2>2, <2>5 DEF Promise!Ask, result
<1>2. ASSUME NEW c \in Calls, NEW i \in Urls, WorkerStep(c, i)
      PROVE  UNCHANGED <<asked, result>>
  <2>1. UNCHANGED <<pc, asked>> /\ pc[c] = "waiting"
    BY <1>2, WorkerFacts
  <2>2. \A d \in Calls : pc[d] = "returned" => Returned(d)' = Returned(d)
    <3> SUFFICES ASSUME NEW d \in Calls, pc[d] = "returned"
                 PROVE  Returned(d)' = Returned(d)
      OBVIOUS
    <3>1. \A j \in Urls : out'[d][j] = out[d][j]
      BY <1>2, <2>1, WorkerFacts
    <3> QED BY <2>1, <3>1, ReturnedSame
  <2> QED BY <2>1, <2>2 DEF result
<1>3. ASSUME NEW c \in Calls, Return(c) PROVE Promise!Answer(c)
  <2>1. pc[c] = "waiting" /\ pc' = [pc EXCEPT ![c] = "returned"]
        /\ UNCHANGED <<asked, out>> /\ AllDone(c)
    BY <1>3 DEF Return
  <2>2. PICK n \in asked[c] : TRUE
    BY <2>1 DEF AskedInv
  <2>3. Returned(c) \in Promise!Results(n)
    BY <2>1, <2>2, ReturnedFits
  <2>4. \A d \in Calls : Returned(d)' = Returned(d)
    BY <2>1 DEF Returned
  <2>5. result' = [result EXCEPT ![c] = {Returned(c)}]
    BY <2>1, <2>4 DEF result, TypeInv
  <2>6. result[c] = {}
    BY <2>1 DEF result
  <2> QED BY <2>1, <2>2, <2>3, <2>5, <2>6 DEF Promise!Answer, result
<1>4. ASSUME NEW c \in Calls, Cancel(c) PROVE UNCHANGED <<asked, result>>
  BY <1>4 DEF Cancel, result, Returned
<1>5. CASE UNCHANGED vars
  BY <1>5 DEF vars, result, Returned
<1> QED
  BY <1>1, <1>2, <1>3, <1>4, <1>5 DEF Next, Promise!Next, result

(* GetAll keeps the safety part of its promise: each call is answered at   *)
(* most once, by one result for each URL, all or nothing for the quota.    *)
THEOREM PromiseKept ==
    Spec => Promise!Init /\ [][Promise!Next]_<<asked, result>>
<1>1. Init => Promise!Init
  BY DEF Init, Promise!Init, result
<1> QED BY <1>1, StepKeepsPromise, FetchSafe, PTL DEF Spec

-----------------------------------------------------------------------------
(* Trips. *)

Journeys ==
    [at : {"none", "resolve", "connect", "connected"},
     host : ((Names \union Literals) \ Blocked) \union {"none"},
     tries : SUBSET Public, hop : 0..MaxRedirects]

TripInv == trip \in [Calls -> [Urls -> Journeys]]

DialInv == TripInv /\ RedirectsEnd

\* One trip changes.
Moved(c, i, j) == trip' = [trip EXCEPT ![c][i] = j]

LEMMA TripMoves ==
    ASSUME TripInv, NEW c \in Calls, NEW i \in Urls, NEW j \in Journeys, Moved(c, i, j)
    PROVE  /\ TripInv' /\ trip'[c][i] = j
           /\ \A d \in Calls, k \in Urls : (d = c /\ k = i) \/ trip'[d][k] = trip[d][k]
BY DEF TripInv, Moved

LEMMA HostsValidated == Validated \subseteq (Names \union Literals) \ Blocked
<1> SUFFICES ASSUME NEW u \in Targets, NEW answer, validateURL(u, answer)
             PROVE  u.host \in (Names \union Literals) \ Blocked
  BY DEF Validated
<1> QED BY DEF Targets, validateURL

LEMMA StartsResolving ==
    ASSUME NEW host \in Validated, NEW hop \in 0..MaxRedirects
    PROVE  /\ Resolving(host, hop) \in Journeys
           /\ Resolving(host, hop).at = "resolve" /\ Resolving(host, hop).hop = hop
BY HostsValidated DEF Resolving, Journeys

LEMMA NoTripJourney == NoTrip \in Journeys
BY DialAssumption DEF NoTrip, Journeys

\* One goroutine and its trip go on as RedirectsEnd says.
LEMMA OneEnds ==
    ASSUME DialInv, NEW c \in Calls, NEW i \in Urls, NEW j \in Journeys, Moved(c, i, j),
           \A d \in Calls, k \in Urls :
               (d = c /\ k = i) \/ worker'[d][k] = worker[d][k],
           CASE worker'[c][i] = "fetching" -> j.at # "none" /\ j.hop < MaxRedirects
             [] worker'[c][i] = "acquiring" -> j.at = "resolve" /\ j.hop = 0
             [] OTHER -> j = NoTrip
    PROVE  DialInv'
<1>1. TripInv' /\ trip'[c][i] = j
  BY TripMoves DEF DialInv
<1>2. \A d \in Calls, k \in Urls : (d = c /\ k = i) \/ trip'[d][k] = trip[d][k]
  BY TripMoves DEF DialInv
<1>3. ASSUME NEW d \in Calls, NEW k \in Urls
      PROVE  CASE worker'[d][k] = "fetching" ->
                    trip'[d][k].at # "none" /\ trip'[d][k].hop < MaxRedirects
               [] worker'[d][k] = "acquiring" ->
                    trip'[d][k].at = "resolve" /\ trip'[d][k].hop = 0
               [] OTHER -> trip'[d][k] = NoTrip
  BY <1>1, <1>2 DEF DialInv, RedirectsEnd
<1> QED BY <1>1, <1>3 DEF DialInv, RedirectsEnd

LEMMA OneGoes ==
    ASSUME DialInv, worker \in [Calls -> [Urls -> Workers]],
           NEW c \in Calls, NEW i \in Urls, NEW w, NEW j \in Journeys,
           worker' = [worker EXCEPT ![c][i] = w],
           trip' = [trip EXCEPT ![c][i] = j],
           w = "fetching" => j.at # "none" /\ j.hop < MaxRedirects,
           w = "acquiring" => j.at = "resolve" /\ j.hop = 0,
           w \notin {"fetching", "acquiring"} => j = NoTrip
    PROVE  DialInv'
<1>1. Moved(c, i, j)
  BY DEF Moved
<1>2. worker'[c][i] = w
  OBVIOUS
<1>3. \A d \in Calls, k \in Urls : (d = c /\ k = i) \/ worker'[d][k] = worker[d][k]
  OBVIOUS
<1>4. (CASE worker'[c][i] = "fetching" -> j.at # "none" /\ j.hop < MaxRedirects
         [] worker'[c][i] = "acquiring" -> j.at = "resolve" /\ j.hop = 0
         [] OTHER -> j = NoTrip)
  <2>1. CASE w = "fetching"
    BY <1>2, <2>1
  <2>2. CASE w = "acquiring"
    BY <1>2, <2>2
  <2>3. CASE w \notin {"fetching", "acquiring"}
    BY <1>2, <2>3
  <2> QED BY <2>1, <2>2, <2>3
<1> QED BY <1>1, <1>3, <1>4, OneEnds

\* What a trip is where a goroutine is.
LEMMA WhereTrips ==
    ASSUME DialInv, NEW c \in Calls, NEW i \in Urls
    PROVE  /\ trip[c][i] \in Journeys
           /\ worker[c][i] = "fetching" =>
                trip[c][i].at # "none" /\ trip[c][i].hop < MaxRedirects
           /\ worker[c][i] = "acquiring" => trip[c][i].at = "resolve" /\ trip[c][i].hop = 0
           /\ worker[c][i] \notin {"fetching", "acquiring"} => trip[c][i] = NoTrip
<1>1. trip[c][i] \in Journeys
  BY DEF DialInv, TripInv
<1> QED BY <1>1 DEF DialInv, RedirectsEnd

LEMMA TripStepEnds ==
    ASSUME FetchInv, DialInv, NEW c \in Calls, NEW i \in Urls, TripStep(c, i)
    PROVE  DialInv'
<1> USE DialAssumption
<1>0. worker \in [Calls -> [Urls -> Workers]] /\ TripInv
  BY DEF FetchInv, TypeInv, DialInv
<1>1. ASSUME NEW j, trip' = [trip EXCEPT ![c][i] = j] PROVE Moved(c, i, j)
  BY <1>1 DEF Moved
<1>2. trip = [trip EXCEPT ![c][i] = trip[c][i]]
  BY <1>0 DEF TripInv
<1>3. ASSUME NEW w, worker' = [worker EXCEPT ![c][i] = w]
      PROVE  /\ worker'[c][i] = w
             /\ \A d \in Calls, k \in Urls :
                  (d = c /\ k = i) \/ worker'[d][k] = worker[d][k]
  BY <1>0, <1>3
<1>4. CASE CheckUrl(c, i)
  <2>1. worker[c][i] = "checking" /\ trip[c][i] = NoTrip
    BY <1>4, WhereTrips DEF CheckUrl, Check
  <2>2. CASE worker' = [worker EXCEPT ![c][i] = "acquiring"]
    <3>1. PICK host \in Validated : trip' = [trip EXCEPT ![c][i] = Resolving(host, 0)]
      BY <1>3, <1>4, <2>2 DEF CheckUrl
    <3>2. /\ Resolving(host, 0) \in Journeys
          /\ Resolving(host, 0).at = "resolve" /\ Resolving(host, 0).hop = 0
      BY StartsResolving
    <3> QED BY <1>0, <2>2, <3>1, <3>2, OneGoes
  <2>3. CASE worker' = [worker EXCEPT ![c][i] = "done"]
    <3>1. trip' = [trip EXCEPT ![c][i] = NoTrip]
      BY <1>2, <1>3, <1>4, <2>1, <2>3 DEF CheckUrl
    <3> QED BY <1>0, <2>3, <3>1, NoTripJourney, OneGoes
  <2> QED BY <1>4, <2>2, <2>3 DEF CheckUrl, Check, Done
<1>5. CASE Acquire(c, i)
  <2>1. /\ worker[c][i] = "acquiring" /\ worker' = [worker EXCEPT ![c][i] = "fetching"]
        /\ trip' = [trip EXCEPT ![c][i] = trip[c][i]]
    BY <1>2, <1>5 DEF Acquire, acquire
  <2>2. trip[c][i] \in Journeys /\ trip[c][i].at = "resolve" /\ trip[c][i].hop = 0
    BY <2>1, WhereTrips
  <2>3. MaxRedirects > 0
    OBVIOUS
  <2> QED BY <1>0, <2>1, <2>2, <2>3, OneGoes
<1>6. CASE LeaveQueue(c, i) \/ Arrive(c, i)
  <2>1. /\ worker' = [worker EXCEPT ![c][i] = "done"]
        /\ trip' = [trip EXCEPT ![c][i] = NoTrip]
    BY <1>6 DEF LeaveQueue, Arrive, GiveUp, Respond, Done
  <2> QED BY <1>0, <2>1, NoTripJourney, OneGoes
<1>7. ASSUME NEW j \in Journeys, trip' = [trip EXCEPT ![c][i] = j], UNCHANGED vars,
             worker[c][i] = "fetching", j.at # "none", j.hop < MaxRedirects
      PROVE  DialInv'
  <2>1. UNCHANGED worker
    BY <1>7 DEF vars
  <2> QED BY <1>1, <1>7, <2>1, OneEnds
<1>8. worker[c][i] = "fetching" =>
         trip[c][i] \in Journeys /\ trip[c][i].at # "none" /\ trip[c][i].hop < MaxRedirects
  BY WhereTrips
<1>9. CASE Resolve(c, i)
  <2>1. PICK ips \in Resolutions(trip[c][i].host) :
           trip' = [trip EXCEPT ![c][i].at = "connect", ![c][i].tries = ips]
    BY <1>9 DEF Resolve
  <2> DEFINE j == [trip[c][i] EXCEPT !.at = "connect", !.tries = ips]
  <2>2. ips \subseteq Public
    BY <2>1 DEF Resolutions, resolvePublic
  <2>3. worker[c][i] = "fetching" /\ UNCHANGED vars
    BY <1>9 DEF Resolve, Travels
  <2>4. j \in Journeys /\ j.at # "none" /\ j.hop < MaxRedirects
    BY <1>8, <2>2, <2>3 DEF Journeys
  <2>5. trip' = [trip EXCEPT ![c][i] = j]
    BY <1>0, <2>1 DEF TripInv
  <2> HIDE DEF j
  <2> QED BY <1>7, <2>3, <2>4, <2>5
<1>10. CASE Connect(c, i)
  <2>1. PICK ip \in trip[c][i].tries :
           \/ trip' = [trip EXCEPT ![c][i].at = "connected", ![c][i].tries = {ip}]
           \/ trip' = [trip EXCEPT ![c][i].tries = @ \ {ip}]
    BY <1>10 DEF Connect
  <2>2. worker[c][i] = "fetching" /\ UNCHANGED vars
    BY <1>10 DEF Connect, Travels
  <2>3. trip[c][i].tries \subseteq Public
    BY <1>8, <2>2 DEF Journeys
  <2> DEFINE j == [trip[c][i] EXCEPT !.at = "connected", !.tries = {ip}]
             k == [trip[c][i] EXCEPT !.tries = @ \ {ip}]
  <2>4. j \in Journeys /\ j.at # "none" /\ j.hop < MaxRedirects
    BY <1>8, <2>1, <2>2, <2>3 DEF Journeys
  <2>5. k \in Journeys /\ k.at # "none" /\ k.hop < MaxRedirects
    BY <1>8, <2>1, <2>2, <2>3 DEF Journeys
  <2>6. trip' = [trip EXCEPT ![c][i] = j] \/ trip' = [trip EXCEPT ![c][i] = k]
    BY <1>0, <2>1 DEF TripInv
  <2> HIDE DEF j, k
  <2> QED BY <1>7, <2>2, <2>4, <2>5, <2>6
<1>11. CASE Redirect(c, i)
  <2>1. PICK host \in Validated :
           trip' = [trip EXCEPT ![c][i] = Resolving(host, trip[c][i].hop + 1)]
    BY <1>0, <1>11 DEF Redirect, TripInv
  <2>2. worker[c][i] = "fetching" /\ UNCHANGED vars /\ trip[c][i].hop + 1 < MaxRedirects
    BY <1>11 DEF Redirect, Travels, MoreAllowed
  <2>3. trip[c][i].hop \in Nat
    BY <1>8, <2>2 DEF Journeys
  <2>4. trip[c][i].hop + 1 \in 0..MaxRedirects
    BY <2>2, <2>3
  <2> DEFINE j == Resolving(host, trip[c][i].hop + 1)
  <2>5. j \in Journeys /\ j.at = "resolve" /\ j.hop = trip[c][i].hop + 1
    BY <2>4, StartsResolving
  <2> HIDE DEF j
  <2>6. trip' = [trip EXCEPT ![c][i] = j]
    BY <2>1 DEF j
  <2> QED BY <1>7, <2>2, <2>5, <2>6
<1> QED BY <1>4, <1>5, <1>6, <1>9, <1>10, <1>11 DEF TripStep

\* A trip is a step of OriginFetch, or nothing it can see.
LEMMA TripRefines == ASSUME [DNext]_dvars PROVE [Next]_vars
<1>1. ASSUME NEW c \in Calls, NEW i \in Urls, TripStep(c, i) PROVE [Next]_vars
  <2>1. WorkerStep(c, i) \/ UNCHANGED vars
    BY <1>1 DEF TripStep, CheckUrl, Acquire, LeaveQueue, Resolve, Connect, Redirect,
                Arrive, WorkerStep
  <2> QED BY <2>1 DEF Next
<1> QED BY <1>1 DEF DNext, Next, dvars

LEMMA DialKept ==
    ASSUME FetchInv, DialInv, [DNext]_dvars PROVE DialInv'
<1>1. ASSUME NEW c \in Calls,
             (\E n \in 0..MaxUrls : StartAll(c, n)), UNCHANGED trip
      PROVE  DialInv'
  <2>1. pc[c] = "idle" /\ \A i \in Urls : worker[c][i] = "none"
    BY <1>1 DEF StartAll, FetchInv, AskedInv
  <2>2. \A d \in Calls, i \in Urls :
           \/ worker'[d][i] = worker[d][i]
           \/ d = c /\ worker'[d][i] \in {"checking", "none"}
    BY <1>1 DEF StartAll, FetchInv, TypeInv
  <2>3. \A i \in Urls : trip[c][i] = NoTrip
    BY <2>1, WhereTrips
  <2>4. TripInv'
    BY <1>1 DEF DialInv, TripInv
  <2>5. ASSUME NEW d \in Calls, NEW i \in Urls
        PROVE  CASE worker'[d][i] = "fetching" ->
                      trip[d][i].at # "none" /\ trip[d][i].hop < MaxRedirects
                 [] worker'[d][i] = "acquiring" ->
                      trip[d][i].at = "resolve" /\ trip[d][i].hop = 0
                 [] OTHER -> trip[d][i] = NoTrip
    BY <2>2, <2>3 DEF DialInv, RedirectsEnd
  <2> QED BY <1>1, <2>4, <2>5 DEF DialInv, RedirectsEnd
<1>2. CASE UNCHANGED <<worker, trip>>
  BY <1>2 DEF DialInv, TripInv, RedirectsEnd
<1>3. ASSUME NEW c \in Calls,
             (\E n \in 0..MaxUrls : StartLimited(c, n)) \/ Return(c) \/ Cancel(c)
      PROVE  UNCHANGED worker
  BY <1>3 DEF StartLimited, Return, Cancel
<1>4. CASE UNCHANGED dvars
  BY <1>2, <1>4 DEF dvars, vars
<1>5. CASE DNext
  <2>1. PICK c \in Calls :
          \/ /\ \/ \E n \in 0..MaxUrls : StartAll(c, n) \/ StartLimited(c, n)
                \/ Return(c) \/ Cancel(c)
             /\ UNCHANGED trip
          \/ \E i \in Urls : TripStep(c, i)
    BY <1>5 DEF DNext
  <2>2. CASE \E i \in Urls : TripStep(c, i)
    BY <2>2, TripStepEnds
  <2>3. CASE ~\E i \in Urls : TripStep(c, i)
    BY <1>1, <1>2, <1>3, <2>1, <2>3
  <2> QED BY <2>2, <2>3
<1> QED BY <1>4, <1>5

THEOREM TripsSafe == DSpec => [](FetchInv /\ DialInv)
<1>1. DInit => FetchInv /\ DialInv
  BY FetchInit, NoTripJourney, DialAssumption
     DEF DInit, Init, DialInv, TripInv, RedirectsEnd
<1>2. FetchInv /\ DialInv /\ [DNext]_dvars => FetchInv' /\ DialInv'
  <2>1. FetchInv /\ [Next]_vars => FetchInv'
    BY TypeKept, SlotsKept, AskedKept, BurstKept, RestKept DEF FetchInv
  <2> QED BY <2>1, TripRefines, DialKept
<1> QED BY <1>1, <1>2, PTL DEF DSpec

(* A GET is sent only to an address publicIP accepts and never for a       *)
(* blocked name, whatever the resolver answers at either lookup and        *)
(* wherever the origins redirect to (validateURL, dialContext).            *)
THEOREM GetsStayPublic == DSpec => []StaysPublic
<1>1. DialInv => StaysPublic
  BY DialAssumption DEF DialInv, TripInv, Journeys, StaysPublic
<1> QED BY <1>1, TripsSafe, PTL

(* However its origins redirect, a URL costs them at most MaxRedirects     *)
(* GETs and one slot, which it holds only while it travels (CheckRedirect, *)
(* acquire, release).                                                      *)
THEOREM TripsEnd == DSpec => []RedirectsEnd
<1>1. DialInv => RedirectsEnd
  BY DEF DialInv
<1> QED BY <1>1, TripsSafe, PTL

(* Trips keep the safety part of the promise of GetAll too: each of their  *)
(* steps is a step of OriginFetch or nothing it can see.                   *)
THEOREM TripsKeepPromise ==
    DSpec => Promise!Init /\ [][Promise!Next]_<<asked, result>>
<1>1. DInit => Promise!Init
  BY DEF DInit, Init, Promise!Init, result
<1>2. FetchInv /\ [DNext]_dvars => [Promise!Next]_<<asked, result>>
  BY TripRefines, StepKeepsPromise
<1> QED BY <1>1, <1>2, TripsSafe, PTL DEF DSpec

-----------------------------------------------------------------------------
(* What is safe about every call returning: with weak fairness and a slot  *)
(* that comes free it follows from every goroutine coming to its end.      *)

Stage(state) ==
    CASE state = "checking" -> 3 [] state = "acquiring" -> 2 [] state = "fetching" -> 1
      [] OTHER -> 0

Leg(at) == CASE at = "resolve" -> 2 [] at = "connect" -> 1 [] OTHER -> 0

(* A step of a goroutine brings it nearer to its end: past a stage, past   *)
(* one of its redirects, which are bounded, or, on the way to a host, past *)
(* a leg or an address that does not answer.                               *)
ComesNearer(c, i) ==
    \/ Stage(worker'[c][i]) < Stage(worker[c][i])
    \/ /\ worker'[c][i] = worker[c][i]
       /\ LET old == trip[c][i]
              new == trip'[c][i]
          IN  \/ old.hop < new.hop /\ new.hop < MaxRedirects
              \/ new.hop = old.hop /\ Leg(new.at) < Leg(old.at)
              \/ /\ new.hop = old.hop /\ new.at = old.at
                 /\ Cardinality(new.tries) < Cardinality(old.tries)

TripsAdvance ==
    [][\A c \in Calls, i \in Urls : TripStep(c, i) => ComesNearer(c, i)]_dvars

LEMMA Nearer ==
    ASSUME FetchInv, DialInv, NEW c \in Calls, NEW i \in Urls, TripStep(c, i)
    PROVE  ComesNearer(c, i)
<1>0. worker \in [Calls -> [Urls -> Workers]] /\ trip \in [Calls -> [Urls -> Journeys]]
  BY DEF FetchInv, TypeInv, DialInv, TripInv
<1>1. trip[c][i] \in Journeys
  BY <1>0
<1>2. CASE CheckUrl(c, i)
  <2>1. worker[c][i] = "checking" /\ worker'[c][i] \in {"acquiring", "done"}
    BY <1>0, <1>2 DEF CheckUrl, Check, Done
  <2> QED BY <2>1 DEF ComesNearer, Stage
<1>3. CASE Acquire(c, i)
  <2>1. worker[c][i] = "acquiring" /\ worker'[c][i] = "fetching"
    BY <1>0, <1>3 DEF Acquire, acquire
  <2> QED BY <2>1 DEF ComesNearer, Stage
<1>4. CASE LeaveQueue(c, i) \/ Arrive(c, i)
  <2>1. worker[c][i] \in {"acquiring", "fetching"} /\ worker'[c][i] = "done"
    BY <1>0, <1>4 DEF LeaveQueue, GiveUp, Arrive, Respond, Done
  <2> QED BY <2>1 DEF ComesNearer, Stage
<1>5. CASE Resolve(c, i)
  <2>1. /\ worker'[c][i] = worker[c][i] /\ trip[c][i].at = "resolve"
        /\ trip'[c][i].at = "connect" /\ trip'[c][i].hop = trip[c][i].hop
    BY <1>0, <1>1, <1>5 DEF Resolve, Travels, vars, Journeys
  <2> QED BY <2>1 DEF ComesNearer, Leg
<1>6. CASE Connect(c, i)
  <2>1. worker'[c][i] = worker[c][i] /\ trip[c][i].at = "connect"
    BY <1>6 DEF Connect, Travels, vars
  <2>2. PICK ip \in trip[c][i].tries :
          \/ trip' = [trip EXCEPT ![c][i].at = "connected", ![c][i].tries = {ip}]
          \/ trip' = [trip EXCEPT ![c][i].tries = @ \ {ip}]
    BY <1>6 DEF Connect
  <2>3. CASE trip' = [trip EXCEPT ![c][i].at = "connected", ![c][i].tries = {ip}]
    <3>1. trip'[c][i].at = "connected" /\ trip'[c][i].hop = trip[c][i].hop
      BY <1>0, <1>1, <2>3 DEF Journeys
    <3> QED BY <2>1, <3>1 DEF ComesNearer, Leg
  <2>4. CASE trip' = [trip EXCEPT ![c][i].tries = @ \ {ip}]
    <3>1. /\ trip'[c][i].at = trip[c][i].at /\ trip'[c][i].hop = trip[c][i].hop
          /\ trip'[c][i].tries = trip[c][i].tries \ {ip}
      BY <1>0, <1>1, <2>4 DEF Journeys
    <3>2. IsFiniteSet(trip[c][i].tries)
      BY <1>1, DialAssumption, FS_Subset DEF Journeys
    <3>3. Cardinality(trip[c][i].tries \ {ip}) = Cardinality(trip[c][i].tries) - 1
      BY <2>2, <3>2, FS_RemoveElement
    <3>4. Cardinality(trip[c][i].tries) \in Nat
      BY <3>2, FS_CardinalityType
    <3> QED BY <2>1, <3>1, <3>3, <3>4 DEF ComesNearer
  <2> QED BY <2>2, <2>3, <2>4
<1>7. CASE Redirect(c, i)
  <2>1. PICK host \in Validated :
           trip' = [trip EXCEPT ![c][i] = Resolving(host, @.hop + 1)]
    BY <1>7 DEF Redirect
  <2>2. trip'[c][i].hop = trip[c][i].hop + 1 /\ trip[c][i].hop \in Nat
    BY <1>0, <1>1, <2>1 DEF Resolving, Journeys
  <2>3. worker'[c][i] = worker[c][i] /\ trip[c][i].hop + 1 < MaxRedirects
    BY <1>7 DEF Redirect, MoreAllowed, vars
  <2> QED BY <2>2, <2>3 DEF ComesNearer
<1> QED BY <1>2, <1>3, <1>4, <1>5, <1>6, <1>7 DEF TripStep

(* Every fetch ends, whatever resolver and origins answer: no goroutine    *)
(* that GetAll waits for ever goes back (acquire, dialContext,             *)
(* CheckRedirect).                                                         *)
THEOREM TripsComeToAnEnd == DSpec => TripsAdvance
<1>1. FetchInv /\ DialInv /\ [DNext]_dvars
        => [\A c \in Calls, i \in Urls : TripStep(c, i) => ComesNearer(c, i)]_dvars
  BY Nearer
<1> QED BY <1>1, TripsSafe, PTL DEF DSpec, TripsAdvance
=============================================================================
