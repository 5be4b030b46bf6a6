--------------------------- MODULE IPLimiterProofs ---------------------------
(***************************************************************************)
(* IPLimiter for every limit, window, delay and number of calls and keys.  *)
(*                                                                         *)
(* The argument: a hit leaves its bucket only when its stamp is a window   *)
(* old by the clock (DroppedAreOld), although the stamp that dropped it    *)
(* may be ahead of the stamp of the call that counts next.  That call's    *)
(* stamp is at most MaxDelay behind the clock (StampsRecent), so in any    *)
(* stretch of Window - MaxDelay that holds its stamp, every admitted hit   *)
(* is still in the bucket it counts.                                       *)
(***************************************************************************)
EXTENDS IPLimiter, FiniteSetTheorems, TLAPS

DroppedAreOld ==
    \A k \in Keys : \A h \in admitted[k] \ buckets[k] : h.at <= now - Window

StampsRecent ==
    \A r \in Calls : pc[r] = "stamped" =>
        call[r].at <= now /\ now <= call[r].at + MaxDelay

AdmittedFinite ==
    \A k \in Keys : IsFiniteSet(admitted[k]) /\ \A h \in admitted[k] : h.at <= now

Bounded ==
    \A k \in Keys : \A after \in Int :
        Cardinality(Within(k, after, Window - MaxDelay)) <= Max

LimiterInv ==
    /\ TypeOK
    /\ DroppedAreOld
    /\ StampsRecent
    /\ AdmittedFinite
    /\ Bounded

-----------------------------------------------------------------------------
(* Counting. *)

LEMMA NewHitsCount ==
    ASSUME NEW r \in Calls, call[r].n \in Nat
    PROVE  IsFiniteSet(NewHits(r)) /\ Cardinality(NewHits(r)) <= call[r].n
<1> DEFINE hit == [i \in 1..call[r].n |->
                     [call |-> r, number |-> i, at |-> call[r].at]]
<1>1. hit \in Surjection(1..call[r].n, NewHits(r))
  BY DEF NewHits, Surjection
<1>2. ExistsSurjection(1..call[r].n, NewHits(r))
  BY <1>1 DEF ExistsSurjection
<1>3. IsFiniteSet(NewHits(r))
  BY <1>2, FS_NatSurjection
<1> QED BY <1>2, <1>3, FS_SurjCardinalityBound

LEMMA SumBound ==
    ASSUME NEW S, NEW T, IsFiniteSet(S), IsFiniteSet(T),
           NEW U \in SUBSET (S \union T)
    PROVE  /\ IsFiniteSet(U)
           /\ Cardinality(U) <= Cardinality(S) + Cardinality(T)
<1>1. /\ IsFiniteSet(S \union T)
      /\ Cardinality(S \union T)
           = Cardinality(S) + Cardinality(T) - Cardinality(S \intersect T)
  BY FS_Union
<1>2. Cardinality(S \intersect T) \in Nat
  BY FS_Intersection, FS_CardinalityType
<1>3. IsFiniteSet(U) /\ Cardinality(U) <= Cardinality(S \union T)
  BY <1>1, FS_Subset
<1>4. Cardinality(S) \in Nat /\ Cardinality(T) \in Nat
      /\ Cardinality(U) \in Nat /\ Cardinality(S \union T) \in Nat
  BY <1>1, <1>3, FS_CardinalityType
<1> QED BY <1>1, <1>2, <1>3, <1>4

-----------------------------------------------------------------------------
(* What a call finds in the critical section. *)

LEMMA KeptFacts ==
    ASSUME TypeOK, NEW r \in Calls
    PROVE  /\ call[r].key \in Keys
           /\ Swept(r) \in [Keys -> SUBSET Hit]
           /\ \A k \in Keys : Swept(r)[k] \subseteq buckets[k]
           /\ Kept(r) \subseteq buckets[call[r].key]
           /\ \A k \in Keys : \A h \in buckets[k] \ Swept(r)[k] :
                 h.at <= call[r].at - Window
           /\ \A h \in buckets[call[r].key] \ Kept(r) :
                 h.at <= call[r].at - Window
<1> USE LimiterAssumption
<1>1. call[r] \in [key : Keys, n : Sizes, at : Nat]
  BY DEF TypeOK
<1>2. \A k \in Keys : buckets[k] \subseteq Hit
  BY DEF TypeOK
<1>3. Swept(r) \in [Keys -> SUBSET Hit]
  <2>1. CASE SweepDue(call[r].at)
    BY <2>1, <1>2 DEF Swept, pruneHits
  <2>2. CASE ~SweepDue(call[r].at)
    BY <2>2 DEF Swept, TypeOK
  <2> QED BY <2>1, <2>2
<1>4. \A k \in Keys : Swept(r)[k] \subseteq buckets[k]
  BY DEF Swept, pruneHits
<1>5. \A k \in Keys : \A h \in buckets[k] \ Swept(r)[k] :
        h.at <= call[r].at - Window
  BY <1>1, <1>2 DEF Swept, pruneHits, Hit
<1>6. Kept(r) \subseteq Swept(r)[call[r].key]
  BY DEF Kept, pruneHits
<1>7. \A h \in Swept(r)[call[r].key] \ Kept(r) : h.at <= call[r].at - Window
  BY <1>1, <1>3 DEF Kept, pruneHits, Hit
<1> QED BY <1>1, <1>3, <1>4, <1>5, <1>6, <1>7

LEMMA NewHitsTyped ==
    ASSUME TypeOK, NEW r \in Calls
    PROVE  /\ NewHits(r) \in SUBSET Hit
           /\ \A h \in NewHits(r) : h.call = r /\ h.at = call[r].at
<1> USE LimiterAssumption
<1>1. call[r] \in [key : Keys, n : Sizes, at : Nat]
  BY DEF TypeOK
<1> QED BY <1>1 DEF NewHits, Hit

-----------------------------------------------------------------------------
(* The inductive step. *)

LEMMA LimiterInit == Init => LimiterInv
<1> SUFFICES ASSUME Init PROVE LimiterInv
  OBVIOUS
<1> USE LimiterAssumption
<1>1. TypeOK
  BY DEF Init, TypeOK
<1>2. DroppedAreOld /\ StampsRecent
  BY DEF Init, DroppedAreOld, StampsRecent
<1>3. AdmittedFinite
  BY FS_EmptySet DEF Init, AdmittedFinite
<1>4. Bounded
  <2>1. \A k \in Keys : \A after \in Int :
          Within(k, after, Window - MaxDelay) = {}
    BY DEF Init, Within
  <2> QED BY <2>1, FS_EmptySet DEF Bounded
<1> QED BY <1>1, <1>2, <1>3, <1>4 DEF LimiterInv

LEMMA TickKeeps ==
    ASSUME LimiterInv, Tick PROVE LimiterInv'
<1> USE LimiterAssumption
<1>1. TypeOK'
  BY DEF LimiterInv, TypeOK, Tick
<1>2. \A k \in Keys : admitted[k] \subseteq Hit
  BY DEF LimiterInv, TypeOK
<1>3. now \in Nat /\ now' = now + 1
  BY DEF LimiterInv, TypeOK, Tick
<1>4. DroppedAreOld'
  BY <1>2, <1>3 DEF LimiterInv, DroppedAreOld, Tick, Hit
<1>5. StampsRecent'
  <2>1. \A r \in Calls : call[r].at \in Nat
    BY DEF LimiterInv, TypeOK
  <2> QED BY <2>1, <1>3 DEF LimiterInv, StampsRecent, Tick
<1>6. AdmittedFinite'
  BY <1>2, <1>3 DEF LimiterInv, AdmittedFinite, Tick, Hit
<1>7. Bounded'
  BY DEF LimiterInv, Bounded, Within, Tick
<1> QED BY <1>1, <1>4, <1>5, <1>6, <1>7 DEF LimiterInv

LEMMA StampKeeps ==
    ASSUME LimiterInv, NEW r \in Calls, Stamp(r) PROVE LimiterInv'
<1> USE LimiterAssumption
<1>1. call' \in [Calls -> [key : Keys, n : Sizes, at : Nat]]
  BY DEF LimiterInv, TypeOK, Stamp
<1>2. \A q \in Calls : pc'[q] = "done" <=> pc[q] = "done"
  BY DEF LimiterInv, TypeOK, Stamp
<1>3. \A k \in Keys : \A h \in admitted[k] : h \in Hit
  BY DEF LimiterInv, TypeOK
<1>4. TypeOK'
  BY <1>1, <1>2, <1>3 DEF LimiterInv, TypeOK, Stamp, Hit
<1>5. StampsRecent'
  BY DEF LimiterInv, TypeOK, StampsRecent, Stamp
<1>6. DroppedAreOld' /\ AdmittedFinite'
  BY DEF LimiterInv, DroppedAreOld, AdmittedFinite, Stamp
<1>7. Bounded'
  BY DEF LimiterInv, Bounded, Within, Stamp
<1> QED BY <1>4, <1>5, <1>6, <1>7 DEF LimiterInv

\* What both ways through the critical section preserve.
LEMMA EnterKeeps ==
    ASSUME LimiterInv, NEW r \in Calls, Enter(r)
    PROVE  /\ now' \in Nat
           /\ pc' \in [Calls -> {"idle", "stamped", "done"}]
           /\ call' \in [Calls -> [key : Keys, n : Sizes, at : Nat]]
           /\ lastSweep' \in SUBSET Nat
           /\ lastStamp' \in Nat
           /\ \A q \in Calls : pc[q] = "done" \/ q = r => pc'[q] = "done"
           /\ StampsRecent'
<1> USE LimiterAssumption
<1>1. call[r].at \in Nat
  BY DEF LimiterInv, TypeOK
<1> QED BY <1>1 DEF LimiterInv, TypeOK, Enter, StampsRecent

LEMMA RefuseKeeps ==
    ASSUME LimiterInv, NEW r \in Calls, Refuse(r) PROVE LimiterInv'
<1> USE LimiterAssumption
<1> DEFINE key == call[r].key
<1>1. TypeOK /\ Enter(r)
  BY DEF LimiterInv, Refuse
<1>2. /\ buckets' \in [Keys -> SUBSET Hit]
      /\ \A k \in Keys : buckets'[k] \subseteq buckets[k]
      /\ \A k \in Keys : \A h \in buckets[k] \ buckets'[k] :
            h.at <= call[r].at - Window
  BY <1>1, KeptFacts DEF Refuse, TypeOK
<1>3. admitted' = admitted /\ now' = now
  BY DEF Refuse, Enter
<1>4. TypeOK'
  <2>1. /\ admitted \in [Keys -> SUBSET Hit]
        /\ \A k \in Keys : buckets[k] \subseteq admitted[k]
        /\ \A k \in Keys : \A h \in admitted[k] : pc[h.call] = "done"
    BY <1>1 DEF TypeOK
  <2>2. \A k \in Keys : \A h \in admitted[k] : h.call \in Calls
    BY <2>1 DEF Hit
  <2> QED BY <1>1, <1>2, <1>3, <2>1, <2>2, EnterKeeps DEF TypeOK
<1>5. DroppedAreOld'
  <2>1. call[r].at <= now /\ call[r].at \in Nat /\ now \in Nat
    BY <1>1 DEF LimiterInv, StampsRecent, Enter, TypeOK
  <2>2. \A k \in Keys : \A h \in admitted[k] : h.at \in Nat
    BY <1>1 DEF TypeOK, Hit
  <2>3. \A k \in Keys : \A h \in admitted[k] \ buckets[k] : h.at <= now - Window
    BY DEF LimiterInv, DroppedAreOld
  <2>4. SUFFICES ASSUME NEW k \in Keys, NEW h \in admitted[k] \ buckets'[k]
                 PROVE  h.at <= now - Window
    BY <1>3 DEF DroppedAreOld
  <2>5. CASE h \in buckets[k]
    BY <2>5, <2>1, <2>2, <1>2
  <2>6. CASE h \notin buckets[k]
    BY <2>6, <2>3
  <2> QED BY <2>5, <2>6
<1>6. AdmittedFinite'
  BY <1>3 DEF LimiterInv, AdmittedFinite
<1>7. Bounded'
  BY <1>3 DEF LimiterInv, Bounded, Within
<1> QED BY <1>1, <1>4, <1>5, <1>6, <1>7, EnterKeeps DEF LimiterInv

LEMMA AdmitKeeps ==
    ASSUME LimiterInv, NEW r \in Calls, Admit(r) PROVE LimiterInv'
<1> USE LimiterAssumption
<1> DEFINE key == call[r].key
           length == Window - MaxDelay
<1>1. TypeOK /\ Enter(r) /\ Fits(r)
  BY DEF LimiterInv, Admit
<1>2. /\ call[r].at \in Nat /\ call[r].n \in Nat /\ now \in Nat
      /\ call[r].at <= now /\ now <= call[r].at + MaxDelay
  BY <1>1 DEF LimiterInv, StampsRecent, Enter, TypeOK
<1>3. now' = now /\ call' = call
  BY <1>1 DEF Enter
<1>4. /\ key \in Keys
      /\ admitted' = [admitted EXCEPT ![key] = @ \union NewHits(r)]
      /\ admitted \in [Keys -> SUBSET Hit]
      /\ NewHits(r) \in SUBSET Hit
      /\ \A h \in NewHits(r) : h.call = r /\ h.at = call[r].at
  BY <1>1, KeptFacts, NewHitsTyped DEF Admit, TypeOK
<1>5. \A k \in Keys : admitted'[k] =
        IF k = key THEN admitted[k] \union NewHits(r) ELSE admitted[k]
  BY <1>4
<1>6. \A k \in Keys : buckets'[k] =
        IF k = key THEN Kept(r) \union NewHits(r) ELSE Swept(r)[k]
  BY <1>1, <1>4, KeptFacts DEF Admit
<1>7. TypeOK'
  <2>1. buckets' \in [Keys -> SUBSET Hit]
    <3>1. Kept(r) \subseteq Hit
      BY <1>1, <1>4, KeptFacts DEF TypeOK
    <3>2. Swept(r) \in [Keys -> SUBSET Hit]
      BY <1>1, KeptFacts
    <3> QED BY <3>1, <3>2, <1>4 DEF Admit
  <2>2. admitted' \in [Keys -> SUBSET Hit]
    BY <1>4
  <2>3. \A k \in Keys : buckets'[k] \subseteq admitted'[k]
    <3>1. \A k \in Keys : buckets[k] \subseteq admitted[k]
      BY <1>1 DEF TypeOK
    <3>2. \A k \in Keys : Swept(r)[k] \subseteq buckets[k]
      BY <1>1, KeptFacts
    <3>3. Kept(r) \subseteq buckets[key]
      BY <1>1, KeptFacts
    <3> QED BY <3>1, <3>2, <3>3, <1>5, <1>6
  <2>4. \A k \in Keys : \A h \in admitted'[k] : pc'[h.call] = "done"
    <3>1. \A k \in Keys : \A h \in admitted[k] :
            h.call \in Calls /\ pc[h.call] = "done"
      BY <1>1 DEF TypeOK, Hit
    <3> QED BY <3>1, <1>1, <1>4, <1>5, EnterKeeps
  <2> QED BY <1>1, <2>1, <2>2, <2>3, <2>4, EnterKeeps DEF TypeOK
<1>8. DroppedAreOld'
  <2>1. \A k \in Keys : \A h \in admitted[k] : h.at \in Nat
    BY <1>4 DEF Hit
  <2>2. \A k \in Keys : \A h \in admitted[k] \ buckets[k] : h.at <= now - Window
    BY DEF LimiterInv, DroppedAreOld
  <2>3. SUFFICES ASSUME NEW k \in Keys, NEW h \in admitted'[k] \ buckets'[k]
                 PROVE  h.at <= now - Window
    BY <1>3 DEF DroppedAreOld
  <2>4. h \in admitted[k]
    BY <1>5, <1>6
  <2>5. CASE h \notin buckets[k]
    BY <2>5, <2>4, <2>2
  <2>6. CASE h \in buckets[k]
    <3>1. h.at <= call[r].at - Window
      BY <2>6, <1>1, <1>4, <1>6, KeptFacts
    <3> QED BY <3>1, <2>1, <2>4, <1>2
  <2> QED BY <2>5, <2>6
<1>9. AdmittedFinite'
  <2>1. IsFiniteSet(NewHits(r))
    BY <1>2, NewHitsCount
  <2>2. \A k \in Keys : IsFiniteSet(admitted[k])
                        /\ \A h \in admitted[k] : h.at <= now
    BY DEF LimiterInv, AdmittedFinite
  <2>3. IsFiniteSet(admitted[key] \union NewHits(r))
    BY <2>1, <2>2, <1>4, FS_Union
  <2> QED BY <2>2, <2>3, <1>2, <1>3, <1>4, <1>5 DEF AdmittedFinite
<1>10. Bounded'
  <2>1. SUFFICES ASSUME NEW k \in Keys, NEW after \in Int
                 PROVE  Cardinality(Within(k, after, length)') <= Max
    BY DEF Bounded
  <2>2. Within(k, after, length)' =
          {h \in admitted'[k] : after < h.at /\ h.at <= after + length}
    BY DEF Within
  <2>3. Cardinality(Within(k, after, length)) <= Max
    BY DEF LimiterInv, Bounded
  <2>4. CASE k # key \/ ~(after < call[r].at /\ call[r].at <= after + length)
    <3>1. Within(k, after, length)' = Within(k, after, length)
      BY <2>2, <2>4, <1>4, <1>5 DEF Within
    <3> QED BY <3>1, <2>3
  <2>5. CASE k = key /\ after < call[r].at /\ call[r].at <= after + length
    <3>1. Within(k, after, length)' \subseteq Kept(r) \union NewHits(r)
      <4>1. SUFFICES ASSUME NEW h \in admitted[key], after < h.at
                     PROVE  h \in Kept(r)
        BY <2>2, <2>5, <1>5
      <4>2. h.at \in Nat
        BY <1>4 DEF Hit
      <4>3. h \in buckets[key]
        BY <4>1, <4>2, <2>5, <1>2, <1>4 DEF LimiterInv, DroppedAreOld
      <4>4. ~(h.at <= call[r].at - Window)
        BY <4>1, <4>2, <2>5, <1>2
      <4> QED BY <4>3, <4>4, <1>1, KeptFacts
    <3>2. IsFiniteSet(Kept(r)) /\ Cardinality(Kept(r)) \in Nat
      <4>1. Kept(r) \subseteq admitted[key]
        BY <1>1, <1>4, KeptFacts DEF TypeOK
      <4>2. IsFiniteSet(admitted[key])
        BY <1>4 DEF LimiterInv, AdmittedFinite
      <4>3. IsFiniteSet(Kept(r))
        BY <4>1, <4>2, FS_Subset
      <4> QED BY <4>3, FS_CardinalityType
    <3>3. /\ IsFiniteSet(NewHits(r)) /\ Cardinality(NewHits(r)) <= call[r].n
          /\ Cardinality(NewHits(r)) \in Nat
      BY <1>2, NewHitsCount, FS_CardinalityType
    <3>4. /\ IsFiniteSet(Within(k, after, length)')
          /\ Cardinality(Within(k, after, length)')
               <= Cardinality(Kept(r)) + Cardinality(NewHits(r))
      BY <3>1, <3>2, <3>3, SumBound
    <3>5. Cardinality(Within(k, after, length)') \in Nat
      BY <3>4, FS_CardinalityType
    <3>6. Cardinality(Kept(r)) + call[r].n <= Max
      BY <1>1 DEF Fits
    <3> QED BY <3>2, <3>3, <3>4, <3>5, <3>6, <1>2
  <2> QED BY <2>4, <2>5
<1> QED BY <1>1, <1>7, <1>8, <1>9, <1>10, EnterKeeps DEF LimiterInv

THEOREM LimiterSafe == Spec => []LimiterInv
<1>1. LimiterInv /\ [Next]_vars => LimiterInv'
  <2> SUFFICES ASSUME LimiterInv, [Next]_vars PROVE LimiterInv'
    OBVIOUS
  <2>1. CASE Tick
    BY <2>1, TickKeeps
  <2>2. ASSUME NEW r \in Calls, Stamp(r) PROVE LimiterInv'
    BY <2>2, StampKeeps
  <2>3. ASSUME NEW r \in Calls, Admit(r) PROVE LimiterInv'
    BY <2>3, AdmitKeeps
  <2>4. ASSUME NEW r \in Calls, Refuse(r) PROVE LimiterInv'
    BY <2>4, RefuseKeeps
  <2>5. CASE UNCHANGED vars
    BY <2>5 DEF vars, LimiterInv, TypeOK, DroppedAreOld, StampsRecent,
                AdmittedFinite, Bounded, Within
  <2> QED BY <2>1, <2>2, <2>3, <2>4, <2>5 DEF Next
<1> QED BY <1>1, LimiterInit, PTL DEF Spec

(* The clock, the calls and the buckets keep their types: what a bucket    *)
(* holds was admitted, for a call that is done (allowN).                   *)
THEOREM LimiterTyped == Spec => []TypeOK
<1>1. LimiterInv => TypeOK
  BY DEF LimiterInv
<1> QED BY <1>1, LimiterSafe, PTL

(* A key never gets more than Max hits in a window shortened by the time a *)
(* call may wait for the mutex (allowN), for every value of the constants. *)
THEOREM LimitHolds == Spec => []BoundedPerWindow
<1>1. LimiterInv => BoundedPerWindow
  <2>1. ASSUME LimiterInv PROVE BoundedPerWindow
    <3>1. -Window..now \subseteq Int
      OBVIOUS
    <3> QED BY <2>1, <3>1 DEF LimiterInv, Bounded, BoundedPerWindow
  <2> QED BY <2>1
<1> QED BY <1>1, LimiterSafe, PTL

(* A refusal is never an artefact of what the bucket forgot or kept too    *)
(* long: the hits admitted since the cutoff leave no room.                 *)
THEOREM RefusalsJustified == Spec => RefusedOnlyWhenFull
<1>1. LimiterInv /\ [Next]_vars =>
        [\A r \in Calls : Refuse(r) =>
            LET key == call[r].key
                recent == {h \in admitted[key] : h.at > call[r].at - Window}
            IN  Cardinality(recent) + call[r].n > Max]_vars
  <2> SUFFICES ASSUME LimiterInv, NEW r \in Calls, Refuse(r)
               PROVE  Cardinality({h \in admitted[call[r].key] :
                                     h.at > call[r].at - Window})
                        + call[r].n > Max
    OBVIOUS
  <2> USE LimiterAssumption
  <2> DEFINE key == call[r].key
             recent == {h \in admitted[key] : h.at > call[r].at - Window}
  <2>1. TypeOK /\ key \in Keys /\ call[r].n \in Nat
    BY KeptFacts DEF LimiterInv, TypeOK
  <2>2. Kept(r) \subseteq recent
    <3>1. Kept(r) \subseteq admitted[key]
      BY <2>1, KeptFacts DEF TypeOK
    <3> QED BY <3>1 DEF Kept, pruneHits
  <2>3. IsFiniteSet(recent)
    BY <2>1, FS_Subset DEF LimiterInv, AdmittedFinite
  <2>4. /\ IsFiniteSet(Kept(r))
        /\ Cardinality(Kept(r)) <= Cardinality(recent)
    BY <2>2, <2>3, FS_Subset
  <2>5. Cardinality(Kept(r)) \in Nat /\ Cardinality(recent) \in Nat
    BY <2>3, <2>4, FS_CardinalityType
  <2>6. Cardinality(Kept(r)) + call[r].n > Max
    BY <2>1, <2>5 DEF Refuse, Fits
  <2> HIDE DEF recent
  <2>7. Cardinality(recent) + call[r].n > Max
    BY <2>1, <2>4, <2>5, <2>6
  <2> QED BY <2>7 DEF recent
<1> QED BY <1>1, LimiterSafe, PTL DEF Spec, RefusedOnlyWhenFull

-----------------------------------------------------------------------------
(* What the map forgets.  Nothing in it is a window older than the last    *)
(* sweep, and no call was stamped a window after that sweep.               *)

SweptInv ==
    /\ lastStamp <= now
    /\ lastSweep = {} => \A k \in Keys : buckets[k] = {}
    /\ \A s \in lastSweep :
        /\ s <= now
        /\ lastStamp - s < Window
        /\ \A k \in Keys : \A h \in buckets[k] : h.at > s - Window

\* The buckets a call leaves behind, admitted or refused.
LEMMA EnterLeaves ==
    ASSUME LimiterInv, NEW r \in Calls, Admit(r) \/ Refuse(r),
           NEW k \in Keys, NEW h \in buckets'[k]
    PROVE  h \in Swept(r)[k] \/ h.at = call[r].at
<1> DEFINE key == call[r].key
<1>1. key \in Keys /\ buckets \in [Keys -> SUBSET Hit]
  BY DEF LimiterInv, TypeOK
<1>2. Kept(r) \subseteq Swept(r)[key]
  BY DEF Kept, pruneHits
<1>3. \A g \in NewHits(r) : g.at = call[r].at
  BY DEF NewHits
<1>4. Swept(r) = [x \in Keys |-> Swept(r)[x]]
  BY <1>1 DEF Swept
<1> HIDE DEF key
<1>5. CASE k = key
  BY <1>1, <1>2, <1>3, <1>4, <1>5 DEF Admit, Refuse, key
<1>6. CASE k # key
  BY <1>1, <1>4, <1>6 DEF Admit, Refuse, key
<1> QED BY <1>5, <1>6

LEMMA SweptKept ==
    ASSUME LimiterInv, SweptInv, [Next]_vars, MaxDelay < Window PROVE SweptInv'
<1> USE LimiterAssumption
<1>0. /\ now \in Nat /\ lastStamp \in Nat /\ lastSweep \in SUBSET Nat
      /\ buckets \in [Keys -> SUBSET Hit]
      /\ \A k \in Keys : \A h \in buckets[k] : h.at \in Nat
  BY DEF LimiterInv, TypeOK, Hit
<1>1. CASE Tick
  BY <1>0, <1>1 DEF Tick, SweptInv
<1>2. ASSUME NEW r \in Calls, Stamp(r) PROVE SweptInv'
  BY <1>2 DEF Stamp, SweptInv
<1>3. ASSUME NEW r \in Calls, Admit(r) \/ Refuse(r) PROVE SweptInv'
  <2> DEFINE at == call[r].at
  <2>1. Enter(r)
    BY <1>3 DEF Admit, Refuse
  <2>2. at \in Nat /\ at <= now /\ now <= at + MaxDelay /\ UNCHANGED now
    BY <2>1 DEF Enter, LimiterInv, TypeOK, StampsRecent
  <2>3. lastStamp' = IF at > lastStamp THEN at ELSE lastStamp
    BY <2>1 DEF Enter
  <2>4. \A k \in Keys : \A h \in buckets'[k] : h \in Swept(r)[k] \/ h.at = at
    BY <1>3, EnterLeaves
  <2>5. lastStamp' \in Nat /\ lastStamp' <= now'
    BY <1>0, <2>2, <2>3 DEF SweptInv
  <2>6. CASE SweepDue(at)
    <3>1. lastSweep' = {at}
      BY <2>1, <2>6 DEF Enter
    <3>2. lastStamp' - at < Window
      <4>1. CASE lastSweep = {}
        BY <1>0, <2>2, <2>3 DEF SweptInv
      <4>2. CASE \E s \in lastSweep : at - s >= Window
        BY <1>0, <2>2, <2>3, <4>2 DEF SweptInv
      <4> QED BY <2>6, <4>1, <4>2 DEF SweepDue
    <3>3. \A k \in Keys : \A h \in Swept(r)[k] : h.at > at - Window
      BY <2>6 DEF Swept, pruneHits
    <3>4. \A k \in Keys : \A h \in buckets'[k] : h.at > at - Window
      BY <2>2, <2>4, <3>3
    <3> HIDE DEF at
    <3> QED BY <2>2, <2>5, <3>1, <3>2, <3>4 DEF SweptInv
  <2>7. CASE ~SweepDue(at)
    <3>1. lastSweep # {} /\ lastSweep' = lastSweep /\ Swept(r) = buckets
      BY <2>1, <2>7 DEF Enter, SweepDue, Swept
    <3>2. ASSUME NEW s \in lastSweep
          PROVE  lastStamp' - s < Window /\ s <= now
      <4>1. s \in Nat /\ ~(at - s >= Window) /\ lastStamp - s < Window
        BY <1>0, <2>7 DEF SweepDue, SweptInv
      <4> QED BY <1>0, <2>2, <2>3, <4>1 DEF SweptInv
    <3>3. ASSUME NEW s \in lastSweep, NEW k \in Keys, NEW h \in buckets'[k]
          PROVE  h.at > s - Window
      <4>1. s \in Nat /\ s <= now
        BY <1>0 DEF SweptInv
      <4>2. at > s - Window
        BY <1>0, <2>2, <4>1
      <4>3. h \in buckets[k] => h.at > s - Window
        BY DEF SweptInv
      <4> QED BY <2>4, <3>1, <4>2, <4>3
    <3> HIDE DEF at
    <3> QED BY <2>2, <2>5, <3>1, <3>2, <3>3 DEF SweptInv
  <2> QED BY <2>6, <2>7
<1>4. CASE UNCHANGED vars
  BY <1>4 DEF vars, SweptInv
<1> QED BY <1>1, <1>2, <1>3, <1>4 DEF Next

(* Nothing in the map is two windows older than the latest call, whichever *)
(* keys call (sweepLocked), if no call waits a whole window for the mutex. *)
THEOREM IdleKeysForgotten ==
    ASSUME MaxDelay < Window PROVE Spec => []ForgetsIdleKeys
<1>1. Init => SweptInv
  BY DEF Init, SweptInv
<1>2. LimiterInv /\ SweptInv /\ [Next]_vars => SweptInv'
  BY SweptKept
<1>3. LimiterInv /\ SweptInv => ForgetsIdleKeys
  <2> SUFFICES ASSUME LimiterInv, SweptInv, NEW k \in Keys, NEW h \in buckets[k]
               PROVE  lastStamp - h.at < 2 * Window
    BY DEF ForgetsIdleKeys
  <2>1. PICK s \in lastSweep : lastStamp - s < Window /\ h.at > s - Window
    BY DEF SweptInv
  <2>2. s \in Nat /\ lastStamp \in Nat /\ h.at \in Nat
    BY DEF LimiterInv, TypeOK, Hit
  <2> QED BY <2>1, <2>2, LimiterAssumption
<1> QED BY <1>1, <1>2, <1>3, LimiterSafe, PTL DEF Spec
=============================================================================
