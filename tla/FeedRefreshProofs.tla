-------------------------- MODULE FeedRefreshProofs --------------------------
(***************************************************************************)
(* Theorems about FeedRefresh, for any number of callers and sources, any  *)
(* clock and any Fresh and MaxStale: about one run first, then about a run *)
(* and what happens around it, saves of the manage page and other callers  *)
(* of the same feed.                                                       *)
(***************************************************************************)
EXTENDS FeedRefresh, FiniteSetTheorems, TLAPS

-----------------------------------------------------------------------------
(* The policy. *)

(* A body the policy lets a run use after an error is at most MaxStale old.*)
LEMMA UsableIsRecent ==
    ASSUME NEW cached, NEW n \in Nat, AtMostOne(cached),
           \A body \in cached : body.at \in Nat,
           Decide(cached, n) # "FetchFailOnError"
    PROVE  \A body \in cached : n - body.at <= MaxStale
BY PolicyAssumption, SMT DEF Decide, Age, AtMostOne

-----------------------------------------------------------------------------
(* Type correctness. *)

(* What the end of a run does to the callers. *)
LEMMA FinishTyped ==
    ASSUME CallersTyped, NEW c \in Callers, InFlight(c),
           NEW kind \in {"body", "limited", "noSources", "error"},
           NEW body \in SUBSET Merge, Finish(c, kind, body)
    PROVE  CallersTyped'
<1>1. NoRun \in Run
  BY DEF NoRun, Run
<1>2. [kind |-> kind, at |-> run[c].clock, body |-> body] \in Answer
  BY DEF CallersTyped, Run, Answer
<1>3. pc' \in [Callers -> RunStates \union {"idle", "waiting", "done"}]
  BY DEF Finish, CallersTyped
<1>4. run' \in [Callers -> Run]
  BY <1>1 DEF Finish, CallersTyped
<1>5. answer' \in [Callers -> SUBSET Answer]
  BY <1>2 DEF Finish, CallersTyped
<1>6. \A d \in Callers : (pc'[d] = "done") <=> (answer'[d] # {})
  BY DEF Finish, CallersTyped
<1>7. \A d \in Callers : pc'[d] \notin RunStates => run'[d] = NoRun
  BY DEF Finish, CallersTyped, InFlight, RunStates
<1> QED
  BY <1>3, <1>4, <1>5, <1>6, <1>7 DEF CallersTyped, InFlight

(* What a run does to its own caller when it goes on. *)
LEMMA StepTyped ==
    ASSUME CallersTyped, NEW c \in Callers, NEW state \in RunStates,
           NEW local \in Run, pc[c] # "done",
           pc' = [pc EXCEPT ![c] = state], run' = [run EXCEPT ![c] = local],
           UNCHANGED answer
    PROVE  CallersTyped'
<1>1. state # "done"
  BY DEF RunStates
<1> QED
  BY <1>1 DEF CallersTyped, InFlight

LEMMA OldMergeTyped ==
    ASSUME CallersTyped, NEW c \in Callers
    PROVE  OldMerge(c) \in SUBSET Merge
BY DEF CallersTyped, OldMerge, Run, FeedRow

LEMMA MergedTyped ==
    ASSUME CallersTyped, NEW c \in Callers, NEW feedRow \in run[c].row
    PROVE  Merged(c, feedRow) \in Merge
<1>1. run[c] \in Run
  BY DEF CallersTyped
<1>2. feedRow.settings \in Nat /\ run[c].clock \in Nat
  BY <1>1 DEF Run, FeedRow
<1>3. Named(c) \subseteq SourceRow
  BY <1>1 DEF Named, Run
<1>4. ASSUME NEW row \in Named(c), NEW body \in row.ics
      PROVE  [gen |-> row.gen, pos |-> row.pos, at |-> body.at] \in Part
  BY <1>3 DEF SourceRow, Body, Part
<1>5. Merged(c, feedRow).parts \subseteq Part
  BY <1>4 DEF Merged
<1> QED
  BY <1>2, <1>5 DEF Merged, Merge

LEMMA SourcesOfTyped ==
    ASSUME NEW n \in Nat, NEW k \in Nat
    PROVE  /\ SourcesOf(n, k) \in SUBSET SourceRow
           /\ \A r, s \in SourcesOf(n, k) : SameSource(r, s) => r = s
BY DEF SourcesOf, SourceRow, SameSource

LEMMA FetchedTyped ==
    ASSUME CallersTyped, NEW c \in Callers, NEW origin
    PROVE  Fetched(c, origin) \in SUBSET SourceRow
<1>1. ASSUME NEW row \in run[c].snap
      PROVE  applyFetch(row, origin[row], run[c].clock) \in SourceRow
  <2>1. [at |-> run[c].clock, parses |-> origin[row] = "calendar"] \in Body
    BY DEF Body, CallersTyped, Run
  <2>2. row \in SourceRow
    BY DEF CallersTyped, Run
  <2> QED
    BY <2>1, <2>2 DEF applyFetch, SourceRow
<1> QED
  BY <1>1 DEF Fetched

(* Writing one row back keeps the table typed and its ids unique. *)
LEMMA UpdateSourceFetchTyped ==
    ASSUME sources \in SUBSET SourceRow,
           \A r, s \in sources : SameSource(r, s) => r = s,
           NEW row \in SourceRow, UpdateSourceFetch(row)
    PROVE  /\ sources' \in SUBSET SourceRow
           /\ \A r, s \in sources' : SameSource(r, s) => r = s
<1> DEFINE written(s) == IF SameSource(s, row)
                         THEN [s EXCEPT !.ics = row.ics] ELSE s
<1>1. sources' = {written(s) : s \in sources}
  BY DEF UpdateSourceFetch
<1>2. ASSUME NEW s \in sources
      PROVE  /\ written(s) \in SourceRow
             /\ written(s).gen = s.gen /\ written(s).pos = s.pos
  BY DEF SourceRow
<1>3. ASSUME NEW r \in sources, NEW s \in sources,
             SameSource(written(r), written(s))
      PROVE  written(r) = written(s)
  <2>1. SameSource(r, s)
    BY <1>2, <1>3 DEF SameSource
  <2> QED
    BY <2>1
<1> HIDE DEF written
<1> QED
  BY <1>1, <1>2, <1>3

LEMMA InitTyped == Init => TypeOK
<1> SUFFICES ASSUME Init PROVE TypeOK
  OBVIOUS
<1>1. NoRun \in Run
  BY DEF NoRun, Run
<1>2. PICK k \in 1..MaxSources : sources = SourcesOf(0, k)
  BY DEF Init
<1>3. sources \in SUBSET SourceRow /\ \A r, s \in sources : SameSource(r, s) => r = s
  BY <1>2, SourcesOfTyped
<1>4. TablesTyped
  BY <1>3 DEF Init, TablesTyped, FeedRow, AtMostOne
<1>5. CallersTyped
  BY <1>1 DEF Init, CallersTyped, RunStates
<1> QED
  BY <1>4, <1>5 DEF TypeOK

LEMMA NextTyped == TypeOK /\ [Next]_vars => TypeOK'
<1> SUFFICES ASSUME TypeOK, [Next]_vars PROVE TypeOK'
  OBVIOUS
<1> USE DEF TypeOK
<1>0. \A c \in Callers : run[c] \in Run
  BY DEF CallersTyped
<1>1. ASSUME NEW c \in Callers, Refresh(c) PROVE TypeOK'
  <2>1. TablesTyped'
    BY <1>1 DEF Refresh, TablesTyped
  <2>2. CallersTyped'
    BY <1>1 DEF Refresh, CallersTyped, InFlight, RunStates
  <2> QED
    BY <2>1, <2>2
<1>2. ASSUME NEW c \in Callers, LoadFeedRow(c) PROVE TypeOK'
  <2>1. TablesTyped'
    BY <1>2 DEF LoadFeedRow, TablesTyped
  <2>2. InFlight(c) /\ pc[c] # "done"
    BY <1>2 DEF LoadFeedRow, InFlight, RunStates
  <2>3. CASE feed = {}
    BY <1>2, <2>1, <2>2, <2>3, FinishTyped DEF LoadFeedRow
  <2>4. CASE feed # {}
    <3>1. [run[c] EXCEPT !.row = feed] \in Run
      BY <1>0 DEF TablesTyped, Run
    <3>2. CallersTyped'
      BY <1>2, <2>2, <2>4, <3>1, StepTyped DEF LoadFeedRow, RunStates
    <3> QED
      BY <2>1, <3>2
  <2> QED
    BY <2>3, <2>4
<1>3. ASSUME NEW c \in Callers, LoadSourceRows(c) PROVE TypeOK'
  <2>1. TablesTyped'
    BY <1>3 DEF LoadSourceRows, TablesTyped
  <2>2. [run[c] EXCEPT !.snap = sources] \in Run
    BY <1>0 DEF TablesTyped, Run
  <2>3. CallersTyped'
    BY <1>3, <2>2, StepTyped DEF LoadSourceRows, RunStates
  <2> QED
    BY <2>1, <2>3
<1>4. ASSUME NEW c \in Callers, ReadClock(c) PROVE TypeOK'
  <2>1. TablesTyped'
    BY <1>4 DEF ReadClock, TablesTyped
  <2>2. [run[c] EXCEPT !.clock = now] \in Run
    BY <1>0 DEF TablesTyped, Run
  <2>3. CallersTyped'
    BY <1>4, <2>2, StepTyped DEF ReadClock, RunStates
  <2> QED
    BY <2>1, <2>3
<1>5. ASSUME NEW c \in Callers, ServeFresh(c) PROVE TypeOK'
  <2>1. TablesTyped'
    BY <1>5 DEF ServeFresh, TablesTyped
  <2>2. CallersTyped'
    BY <1>5, OldMergeTyped, FinishTyped DEF ServeFresh, InFlight, RunStates
  <2> QED
    BY <2>1, <2>2
<1>6. ASSUME NEW c \in Callers, FetchLimited(c) PROVE TypeOK'
  <2>1. TablesTyped'
    BY <1>6 DEF FetchLimited, TablesTyped
  <2>2. CallersTyped'
    BY <1>6, FinishTyped DEF FetchLimited, InFlight, RunStates
  <2> QED
    BY <2>1, <2>2
<1>7. ASSUME NEW c \in Callers, Fetch(c) PROVE TypeOK'
  <2>1. TablesTyped'
    BY <1>7 DEF Fetch, TablesTyped
  <2>2. PICK origin :
          run' = [run EXCEPT ![c].snap = Fetched(c, origin),
                             ![c].todo = Fetched(c, origin)]
    BY <1>7 DEF Fetch
  <2>3. Fetched(c, origin) \in SUBSET SourceRow
    BY FetchedTyped
  <2>5. [run[c] EXCEPT !.snap = Fetched(c, origin),
                       !.todo = Fetched(c, origin)] \in Run
    BY <1>0, <2>3 DEF Run
  <2>6. run' = [run EXCEPT ![c] = [run[c] EXCEPT !.snap = Fetched(c, origin),
                                                 !.todo = Fetched(c, origin)]]
    BY <2>2 DEF CallersTyped
  <2>7. CallersTyped'
    BY <1>7, <2>5, <2>6, StepTyped DEF Fetch, RunStates
  <2> QED
    BY <2>1, <2>7
<1>8. ASSUME NEW c \in Callers, StoreSource(c) PROVE TypeOK'
  <2>1. PICK row \in run[c].todo :
          /\ UpdateSourceFetch(row)
          /\ \/ /\ run' = [run EXCEPT ![c].todo = @ \ {row}]
                /\ UNCHANGED <<pc, answer>>
             \/ Finish(c, "error", {})
    BY <1>8 DEF StoreSource
  <2>2. row \in SourceRow
    BY <1>0 DEF Run
  <2>3. TablesTyped'
    BY <1>8, <2>1, <2>2, UpdateSourceFetchTyped DEF StoreSource, TablesTyped
  <2>4. CASE Finish(c, "error", {})
    BY <1>8, <2>3, <2>4, FinishTyped DEF StoreSource, InFlight, RunStates
  <2>5. CASE /\ run' = [run EXCEPT ![c].todo = @ \ {row}]
             /\ UNCHANGED <<pc, answer>>
    <3>1. [run[c] EXCEPT !.todo = @ \ {row}] \in Run
      BY <1>0 DEF Run
    <3>2. pc' = [pc EXCEPT ![c] = "store"] /\ pc[c] = "store"
      BY <1>8, <2>5 DEF StoreSource, CallersTyped
    <3>3. CallersTyped'
      BY <2>5, <3>1, <3>2, StepTyped DEF RunStates
    <3> QED
      BY <2>3, <3>3
  <2> QED
    BY <2>1, <2>4, <2>5
<1>9. ASSUME NEW c \in Callers, StoreDone(c) PROVE TypeOK'
  <2>1. TablesTyped'
    BY <1>9 DEF StoreDone, TablesTyped
  <2>2. run' = [run EXCEPT ![c] = run[c]]
    BY <1>9 DEF StoreDone, CallersTyped
  <2>3. CallersTyped'
    BY <1>0, <1>9, <2>2, StepTyped DEF StoreDone, RunStates
  <2> QED
    BY <2>1, <2>3
<1>10. ASSUME NEW c \in Callers, PublishNothing(c) PROVE TypeOK'
  <2>1. TablesTyped'
    BY <1>10 DEF PublishNothing, TablesTyped
  <2>2. CallersTyped'
    BY <1>10, OldMergeTyped, FinishTyped DEF PublishNothing, InFlight, RunStates
  <2> QED
    BY <2>1, <2>2
<1>11. ASSUME NEW c \in Callers, Publish(c) PROVE TypeOK'
  <2>1. PICK row \in run[c].row :
          /\ UpdateMerged(Merged(c, row))
          /\ \/ Finish(c, "body", {Merged(c, row)})
             \/ Finish(c, "error", {})
    BY <1>11 DEF Publish
  <2>2. Merged(c, row) \in Merge
    BY MergedTyped
  <2>3. feed' \in SUBSET FeedRow /\ AtMostOne(feed')
    BY <2>1, <2>2 DEF UpdateMerged, TablesTyped, FeedRow, AtMostOne
  <2>4. \A r \in feed' : AtMostOne(r.merged)
    BY <2>1 DEF UpdateMerged, TablesTyped, FeedRow, AtMostOne
  <2>5. TablesTyped'
    BY <1>11, <2>3, <2>4 DEF Publish, TablesTyped, AtMostOne
  <2>6. CallersTyped'
    BY <1>11, <2>1, <2>2, FinishTyped DEF Publish, InFlight, RunStates
  <2> QED
    BY <2>5, <2>6
<1>12. ASSUME NEW c \in Callers, StatementFails(c) PROVE TypeOK'
  <2>1. TablesTyped'
    BY <1>12 DEF StatementFails, TablesTyped
  <2>2. CallersTyped'
    BY <1>12, FinishTyped DEF StatementFails, InFlight, RunStates
  <2> QED
    BY <2>1, <2>2
<1>13. ASSUME NEW c \in Callers, Leave(c) PROVE TypeOK'
  <2>1. TablesTyped'
    BY <1>13 DEF Leave, TablesTyped
  <2>2. CallersTyped'
    BY <1>13 DEF Leave, CallersTyped, InFlight, RunStates
  <2> QED
    BY <2>1, <2>2
<1>14. ASSUME NEW k \in 1..MaxSources, UpdateFeed(k) PROVE TypeOK'
  <2>1. PICK row \in feed :
          /\ feed' = {[settings |-> row.settings + 1, merged |-> {}]}
          /\ sources' = SourcesOf(row.settings + 1, k)
          /\ overtaken' \subseteq overtaken \union {row.settings + 1}
          /\ UNCHANGED <<now, pc, run, answer>>
    BY <1>14 DEF UpdateFeed
  <2>2. row.settings + 1 \in Nat
    BY DEF TablesTyped, FeedRow
  <2>3. /\ sources' \in SUBSET SourceRow
        /\ \A r, s \in sources' : SameSource(r, s) => r = s
    BY <2>1, <2>2, SourcesOfTyped
  <2>4. feed' \in SUBSET FeedRow /\ AtMostOne(feed') /\ \A r \in feed' : AtMostOne(r.merged)
    BY <2>1, <2>2 DEF FeedRow, AtMostOne
  <2>5. TablesTyped'
    BY <2>1, <2>2, <2>3, <2>4 DEF TablesTyped, AtMostOne
  <2>6. CallersTyped'
    BY <2>1 DEF CallersTyped, InFlight
  <2> QED
    BY <2>5, <2>6
<1>15. CASE Tick
  BY <1>15 DEF Tick, TablesTyped, CallersTyped, InFlight
<1>16. CASE DeleteFeed
  BY <1>16 DEF DeleteFeed, TablesTyped, CallersTyped, InFlight, AtMostOne
<1>17. CASE Restart
  <2>1. NoRun \in Run
    BY DEF NoRun, Run
  <2>2. TablesTyped'
    BY <1>17 DEF Restart, TablesTyped
  <2>3. CallersTyped'
    BY <1>17, <2>1 DEF Restart, CallersTyped, InFlight, RunStates
  <2> QED
    BY <2>2, <2>3
<1>18. CASE UNCHANGED vars
  BY <1>18 DEF vars, TablesTyped, CallersTyped, InFlight
<1> QED
  BY <1>1, <1>2, <1>3, <1>4, <1>5, <1>6, <1>7, <1>8, <1>9, <1>10, <1>11,
     <1>12, <1>13, <1>14, <1>15, <1>16, <1>17, <1>18 DEF Next, RunStep

(* Every reachable state is typed: one feed row, unique source ids, a      *)
(* caller has an answer exactly when it is done.                           *)
THEOREM Typed == Spec => []TypeOK
BY InitTyped, NextTyped, PTL DEF Spec

-----------------------------------------------------------------------------
(* The age of what is served. *)

(* The bodies of a row, and the rows a run has read, are optional values.  *)
OneEach ==
    /\ \A s \in sources : AtMostOne(s.ics)
    /\ \A c \in Callers :
        /\ AtMostOne(OldMerge(c))
        /\ \A s \in run[c].snap : AtMostOne(s.ics)
        /\ \A s \in run[c].todo : AtMostOne(s.ics)

PartsRecent(merge) == \A part \in merge.parts : merge.at - part.at <= MaxStale

(* Inductive for ServedWithinTwiceMaxStale: each of the two expiry checks  *)
(* leaves its bound behind, wherever the merged body travels.              *)
AgesInv ==
    /\ OneEach
    /\ \A row \in feed : \A merge \in row.merged : PartsRecent(merge)
    /\ \A c \in Callers : \A merge \in OldMerge(c) : PartsRecent(merge)
    /\ \A c \in Callers : \A a \in answer[c] : \A merge \in a.body :
        PartsRecent(merge) /\ a.at - merge.at <= MaxStale

LEMMA AgesInit == Init => AgesInv
BY DEF Init, AgesInv, OneEach, OldMerge, NoRun, SourcesOf, AtMostOne

(* What the end of a run does to the ages. *)
LEMMA FinishAges ==
    ASSUME TypeOK, AgesInv, NEW c \in Callers, NEW kind,
           NEW body \in SUBSET Merge, Finish(c, kind, body),
           \A merge \in body : PartsRecent(merge) /\ run[c].clock - merge.at <= MaxStale
    PROVE  /\ \A d \in Callers : \A a \in answer'[d] : \A merge \in a.body :
                PartsRecent(merge) /\ a.at - merge.at <= MaxStale
           /\ \A d \in Callers : run'[d] = NoRun \/ run'[d] = run[d]
<1>1. \A d \in Callers : run'[d] = NoRun \/ run'[d] = run[d]
  BY DEF Finish, TypeOK, CallersTyped
<1>2. ASSUME NEW d \in Callers, NEW a \in answer'[d]
      PROVE  a \in answer[d] \/ (a.at = run[c].clock /\ a.body = body)
  BY <1>2 DEF Finish
<1> QED
  BY <1>1, <1>2 DEF AgesInv

(* What a run has read stays as optional and as recent as it was.          *)
LEMMA RunsAges ==
    ASSUME AgesInv,
           \A d \in Callers : run'[d] = NoRun \/ run'[d] = run[d]
    PROVE  \A d \in Callers :
             /\ AtMostOne(OldMerge(d)')
             /\ \A s \in run'[d].snap : AtMostOne(s.ics)
             /\ \A s \in run'[d].todo : AtMostOne(s.ics)
             /\ \A merge \in OldMerge(d)' : PartsRecent(merge)
BY DEF AgesInv, OneEach, OldMerge, NoRun, AtMostOne

(* A body that may be served without a fetch, or after an error.           *)
LEMMA OldMergeServable ==
    ASSUME TypeOK, AgesInv, NEW c \in Callers,
           Decide(OldMerge(c), run[c].clock) # "FetchFailOnError"
    PROVE  \A merge \in OldMerge(c) :
             PartsRecent(merge) /\ run[c].clock - merge.at <= MaxStale
<1>1. OldMerge(c) \in SUBSET Merge /\ run[c].clock \in Nat
  BY OldMergeTyped DEF TypeOK, CallersTyped, Run
<1>2. \A body \in OldMerge(c) : body.at \in Nat
  BY <1>1 DEF Merge
<1>3. AtMostOne(OldMerge(c))
  BY DEF AgesInv, OneEach
<1>4. \A merge \in OldMerge(c) : run[c].clock - merge.at <= MaxStale
  BY <1>1, <1>2, <1>3, UsableIsRecent
<1> QED
  BY <1>4 DEF AgesInv

(* A new merge is made of bodies the policy still allows. *)
LEMMA MergedRecent ==
    ASSUME TypeOK, AgesInv, NEW c \in Callers, NEW feedRow \in run[c].row
    PROVE  PartsRecent(Merged(c, feedRow))
<1>1. run[c].snap \in SUBSET SourceRow /\ run[c].clock \in Nat
  BY DEF TypeOK, CallersTyped, Run
<1>2. ASSUME NEW row \in Named(c), NEW body \in row.ics
      PROVE  run[c].clock - body.at <= MaxStale
  <2>1. Decide(row.ics, run[c].clock) # "FetchFailOnError"
    BY DEF Named, usableSourceBody
  <2>2. AtMostOne(row.ics) /\ \A b \in row.ics : b.at \in Nat
    BY <1>1 DEF Named, AgesInv, OneEach, SourceRow, Body
  <2> QED
    BY <1>1, <2>1, <2>2, UsableIsRecent
<1>3. ASSUME NEW part \in Merged(c, feedRow).parts
      PROVE  run[c].clock - part.at <= MaxStale
  <2>1. PICK row \in Named(c) : \E body \in row.ics : part.at = body.at
    BY <1>3 DEF Merged
  <2> QED
    BY <1>2, <2>1
<1> QED
  BY <1>3 DEF PartsRecent, Merged

LEMMA AgesNext == TypeOK /\ AgesInv /\ [Next]_vars => AgesInv'
<1> SUFFICES ASSUME TypeOK, AgesInv, [Next]_vars PROVE AgesInv'
  OBVIOUS
<1>1. ASSUME UNCHANGED <<feed, sources, answer>>,
             \A d \in Callers : run'[d] = NoRun \/ run'[d] = run[d]
      PROVE  AgesInv'
  BY <1>1, RunsAges DEF AgesInv, OneEach
<1>2. ASSUME NEW c \in Callers, NEW kind, NEW body \in SUBSET Merge,
             Finish(c, kind, body), UNCHANGED <<feed, sources>>,
             \A merge \in body : PartsRecent(merge) /\ run[c].clock - merge.at <= MaxStale
      PROVE  AgesInv'
  <2>1. /\ \A d \in Callers : \A a \in answer'[d] : \A merge \in a.body :
                PartsRecent(merge) /\ a.at - merge.at <= MaxStale
        /\ \A d \in Callers : run'[d] = NoRun \/ run'[d] = run[d]
    BY <1>2, FinishAges
  <2> QED
    BY <1>2, <2>1, RunsAges DEF AgesInv, OneEach
<1>3. ASSUME NEW c \in Callers, LoadFeedRow(c) PROVE AgesInv'
  <2>1. CASE feed = {}
    BY <1>2, <1>3, <2>1 DEF LoadFeedRow
  <2>2. CASE feed # {}
    <3>1. OldMerge(c)' = UNION {row.merged : row \in feed}
      BY <1>3, <2>2 DEF LoadFeedRow, OldMerge, TypeOK, CallersTyped, Run
    <3>2. AtMostOne(OldMerge(c)')
      BY <3>1 DEF TypeOK, TablesTyped, AtMostOne
    <3>3. \A merge \in OldMerge(c)' : PartsRecent(merge)
      BY <3>1 DEF AgesInv
    <3>4. \A d \in Callers \ {c} : run'[d] = run[d]
      BY <1>3, <2>2 DEF LoadFeedRow, TypeOK, CallersTyped
    <3>5. run'[c].snap = run[c].snap /\ run'[c].todo = run[c].todo
      BY <1>3, <2>2 DEF LoadFeedRow, TypeOK, CallersTyped, Run
    <3>6. \A d \in Callers \ {c} : OldMerge(d)' = OldMerge(d)
      BY <3>4 DEF OldMerge
    <3>7. OneEach'
      BY <1>3, <3>2, <3>4, <3>5, <3>6 DEF LoadFeedRow, AgesInv, OneEach
    <3> QED
      BY <1>3, <2>2, <3>3, <3>6, <3>7 DEF LoadFeedRow, AgesInv
  <2> QED
    BY <2>1, <2>2
\* Steps that change a run but not what it read of the feed row.
<1>4. ASSUME NEW c \in Callers, UNCHANGED <<feed, answer>>,
             \A d \in Callers \ {c} : run'[d] = run[d],
             run'[c].row = run[c].row,
             \A s \in sources' : AtMostOne(s.ics),
             \A s \in run'[c].snap \union run'[c].todo : AtMostOne(s.ics)
      PROVE  AgesInv'
  <2>1. \A d \in Callers : OldMerge(d)' = OldMerge(d)
    BY <1>4 DEF OldMerge
  <2>2. OneEach'
    BY <1>4, <2>1 DEF AgesInv, OneEach
  <2> QED
    BY <1>4, <2>1, <2>2 DEF AgesInv
<1>5. ASSUME NEW c \in Callers, LoadSourceRows(c) PROVE AgesInv'
  <2>1. /\ \A d \in Callers \ {c} : run'[d] = run[d]
        /\ run'[c].row = run[c].row /\ run'[c].snap = sources
        /\ run'[c].todo = run[c].todo
    BY <1>5 DEF LoadSourceRows, TypeOK, CallersTyped, Run
  <2> QED
    BY <1>4, <1>5, <2>1 DEF LoadSourceRows, AgesInv, OneEach
<1>6. ASSUME NEW c \in Callers, ReadClock(c) PROVE AgesInv'
  <2>1. /\ \A d \in Callers \ {c} : run'[d] = run[d]
        /\ run'[c].row = run[c].row /\ run'[c].snap = run[c].snap
        /\ run'[c].todo = run[c].todo
    BY <1>6 DEF ReadClock, TypeOK, CallersTyped, Run
  <2> QED
    BY <1>4, <1>6, <2>1 DEF ReadClock, AgesInv, OneEach
<1>7. ASSUME NEW c \in Callers, ServeFresh(c) PROVE AgesInv'
  <2>1. Decide(OldMerge(c), run[c].clock) # "FetchFailOnError"
    BY <1>7 DEF ServeFresh, ShouldFetch, Decision
  <2> QED
    BY <1>2, <1>7, <2>1, OldMergeServable, OldMergeTyped DEF ServeFresh, TypeOK
<1>8. ASSUME NEW c \in Callers, FetchLimited(c) PROVE AgesInv'
  BY <1>2, <1>8 DEF FetchLimited
<1>9. ASSUME NEW c \in Callers, Fetch(c) PROVE AgesInv'
  <2>1. PICK origin :
          run' = [run EXCEPT ![c].snap = Fetched(c, origin),
                             ![c].todo = Fetched(c, origin)]
    BY <1>9 DEF Fetch
  <2>3. \A s \in Fetched(c, origin) : AtMostOne(s.ics)
    <3>1. ASSUME NEW row \in run[c].snap
          PROVE  AtMostOne(applyFetch(row, origin[row], run[c].clock).ics)
      <4>1. AtMostOne(row.ics)
        BY DEF AgesInv, OneEach
      <4>2. row \in SourceRow
        BY DEF TypeOK, CallersTyped, Run
      <4> QED
        BY <4>1, <4>2 DEF applyFetch, AtMostOne, SourceRow
    <3> QED
      BY <3>1 DEF Fetched
  <2>4. /\ \A d \in Callers \ {c} : run'[d] = run[d]
        /\ run'[c].row = run[c].row /\ run'[c].snap = Fetched(c, origin)
        /\ run'[c].todo = Fetched(c, origin)
    BY <2>1 DEF TypeOK, CallersTyped, Run
  <2> QED
    BY <1>4, <1>9, <2>3, <2>4 DEF Fetch, AgesInv, OneEach
<1>10. ASSUME NEW c \in Callers, StoreSource(c) PROVE AgesInv'
  <2>1. PICK row \in run[c].todo :
          /\ UpdateSourceFetch(row)
          /\ \/ run' = [run EXCEPT ![c].todo = @ \ {row}] /\ UNCHANGED answer
             \/ Finish(c, "error", {})
    BY <1>10 DEF StoreSource
  <2>2. \A s \in sources' : AtMostOne(s.ics)
    <3>1. AtMostOne(row.ics)
      BY DEF AgesInv, OneEach
    <3>2. ASSUME NEW s \in sources
          PROVE  AtMostOne((IF SameSource(s, row) THEN [s EXCEPT !.ics = row.ics] ELSE s).ics)
      BY <3>1 DEF AgesInv, OneEach, TypeOK, TablesTyped, SourceRow
    <3> QED
      BY <2>1, <3>2 DEF UpdateSourceFetch
  <2>3. CASE run' = [run EXCEPT ![c].todo = @ \ {row}] /\ UNCHANGED answer
    <3>1. /\ \A d \in Callers \ {c} : run'[d] = run[d]
          /\ run'[c].row = run[c].row /\ run'[c].snap = run[c].snap
          /\ run'[c].todo \subseteq run[c].todo
      BY <2>3 DEF TypeOK, CallersTyped, Run
    <3> QED
      BY <1>4, <1>10, <2>2, <2>3, <3>1 DEF StoreSource, AgesInv, OneEach
  <2>4. CASE Finish(c, "error", {})
    <3>1. /\ \A d \in Callers : \A a \in answer'[d] : \A merge \in a.body :
                PartsRecent(merge) /\ a.at - merge.at <= MaxStale
          /\ \A d \in Callers : run'[d] = NoRun \/ run'[d] = run[d]
      BY <2>4, FinishAges
    <3> QED
      BY <1>10, <2>2, <3>1, RunsAges DEF StoreSource, AgesInv, OneEach
  <2> QED
    BY <2>1, <2>3, <2>4
<1>11. ASSUME NEW c \in Callers, StoreDone(c) PROVE AgesInv'
  BY <1>1, <1>11 DEF StoreDone
<1>12. ASSUME NEW c \in Callers, PublishNothing(c) PROVE AgesInv'
  <2>1. CASE ServeCacheOnError(Decision(c))
    <3>1. Decide(OldMerge(c), run[c].clock) # "FetchFailOnError"
      BY <2>1 DEF ServeCacheOnError, Decision
    <3> QED
      BY <1>2, <1>12, <2>1, <3>1, OldMergeServable, OldMergeTyped
         DEF PublishNothing, TypeOK
  <2>2. CASE ~ServeCacheOnError(Decision(c))
    BY <1>2, <1>12, <2>2 DEF PublishNothing
  <2> QED
    BY <2>1, <2>2
<1>13. ASSUME NEW c \in Callers, Publish(c) PROVE AgesInv'
  <2>1. PICK row \in run[c].row :
          /\ UpdateMerged(Merged(c, row))
          /\ \/ Finish(c, "body", {Merged(c, row)})
             \/ Finish(c, "error", {})
    BY <1>13 DEF Publish
  <2>2. /\ Merged(c, row) \in Merge /\ PartsRecent(Merged(c, row))
        /\ run[c].clock - Merged(c, row).at <= MaxStale
    BY MergedTyped, MergedRecent, PolicyAssumption
       DEF Merged, TypeOK, CallersTyped, Run
  <2>3. \A r \in feed' : \A merge \in r.merged : PartsRecent(merge)
    BY <2>1, <2>2 DEF UpdateMerged, TypeOK, TablesTyped, FeedRow
  <2>4. /\ \A d \in Callers : \A a \in answer'[d] : \A merge \in a.body :
                PartsRecent(merge) /\ a.at - merge.at <= MaxStale
        /\ \A d \in Callers : run'[d] = NoRun \/ run'[d] = run[d]
    BY <2>1, <2>2, FinishAges
  <2> QED
    BY <1>13, <2>3, <2>4, RunsAges DEF Publish, AgesInv, OneEach
<1>14. ASSUME NEW c \in Callers, StatementFails(c) PROVE AgesInv'
  BY <1>2, <1>14 DEF StatementFails
<1>15. ASSUME NEW c \in Callers, Leave(c) PROVE AgesInv'
  <2>1. /\ \A d \in Callers : answer'[d] \subseteq answer[d]
        /\ UNCHANGED <<feed, sources, run>>
    BY <1>15 DEF Leave, TypeOK, CallersTyped
  <2>2. \A d \in Callers : OldMerge(d)' = OldMerge(d)
    BY <2>1 DEF OldMerge
  <2> QED
    BY <2>1, <2>2 DEF AgesInv, OneEach
<1>16. ASSUME NEW k \in 1..MaxSources, UpdateFeed(k) PROVE AgesInv'
  <2>1. /\ \A r \in feed' : r.merged = {}
        /\ \A s \in sources' : s.ics = {}
        /\ UNCHANGED <<run, answer>>
    BY <1>16 DEF UpdateFeed, SourcesOf
  <2>2. \A d \in Callers : OldMerge(d)' = OldMerge(d)
    BY <2>1 DEF OldMerge
  <2> QED
    BY <2>1, <2>2 DEF AgesInv, OneEach, AtMostOne
<1>17. CASE Tick
  BY <1>1, <1>17 DEF Tick
<1>18. CASE DeleteFeed
  <2>1. \A d \in Callers : OldMerge(d)' = OldMerge(d)
    BY <1>18 DEF DeleteFeed, OldMerge
  <2> QED
    BY <1>18, <2>1 DEF DeleteFeed, AgesInv, OneEach
<1>19. CASE Restart
  BY <1>19 DEF Restart, AgesInv, OneEach, OldMerge, NoRun, AtMostOne
<1>20. ASSUME NEW c \in Callers, Refresh(c) PROVE AgesInv'
  BY <1>1, <1>20 DEF Refresh
<1>21. CASE UNCHANGED vars
  BY <1>1, <1>21 DEF vars
<1> QED
  BY <1>3, <1>5, <1>6, <1>7, <1>8, <1>9, <1>10, <1>11, <1>12, <1>13, <1>14,
     <1>15, <1>16, <1>17, <1>18, <1>19, <1>20, <1>21 DEF Next, RunStep

(* No caller of Refresh is ever handed an event that was fetched more than *)
(* 2 * MaxStale before its run read the clock, whatever fails, crashes or  *)
(* is saved in between.                                                    *)
THEOREM AgeBound == Spec => []ServedWithinTwiceMaxStale
<1>1. TypeOK /\ AgesInv => ServedWithinTwiceMaxStale
  <2> SUFFICES ASSUME TypeOK, AgesInv, NEW c \in Callers, NEW a \in answer[c],
                      NEW merge \in a.body, NEW part \in merge.parts
               PROVE  a.at - part.at <= 2 * MaxStale
    BY DEF ServedWithinTwiceMaxStale
  <2>1. a.at \in Nat /\ merge.at \in Nat /\ part.at \in Nat
    BY DEF TypeOK, CallersTyped, Answer, Merge, Part
  <2>2. merge.at - part.at <= MaxStale /\ a.at - merge.at <= MaxStale
    BY DEF AgesInv, PartsRecent
  <2> QED
    BY <2>1, <2>2, PolicyAssumption
<1> QED
  BY <1>1, AgesInit, AgesNext, Typed, PTL DEF Spec

-----------------------------------------------------------------------------
(* A run among saves and other callers. *)

(* What every step that ends a run does to the runs.                       *)
LEMMA FinishRuns ==
    ASSUME TypeOK, NEW c \in Callers, InFlight(c), NEW kind, NEW body,
           Finish(c, kind, body)
    PROVE  /\ run'[c] = NoRun /\ pc'[c] = "done"
           /\ \A d \in Callers \ {c} : run'[d] = run[d]
           /\ \A d \in Callers : pc'[d] \in RunStates => pc'[d] = pc[d] /\ d # c
           /\ \A d \in Callers \ {c} : pc[d] \in RunStates => pc'[d] = pc[d]
BY DEF Finish, TypeOK, CallersTyped, InFlight, RunStates

-----------------------------------------------------------------------------
(* Saves. *)

(* Inductive for StaleOnlyAfterOverlap: whatever a run holds belongs to    *)
(* the saved settings, or a save overtook the run.                         *)
SettingsInv ==
    /\ StaleOnlyAfterOverlap
    /\ \A row \in feed : \A s \in sources : s.gen = row.settings
    /\ \A c \in Callers : ~HasRow(c) => run[c] = NoRun
    /\ \A row \in feed : row.settings \notin overtaken =>
         \A c \in Callers :
            /\ \A r \in run[c].row : r.settings = row.settings
            /\ \A s \in run[c].snap : s.gen = row.settings

LEMMA SettingsInit == Init => SettingsInv
BY DEF Init, SettingsInv, StaleOnlyAfterOverlap, SourcesOf, HasRow, NoRun, RunStates

(* A step that leaves the settings, the sources' ids and the overtaken     *)
(* saves alone, and in which no run gets anything new.                     *)
LEMMA SettingsKept ==
    ASSUME SettingsInv, UNCHANGED overtaken,
           \A row \in feed' : \E old \in feed : row.settings = old.settings,
           \A s \in sources' : \E old \in sources : s.gen = old.gen,
           StaleOnlyAfterOverlap',
           \A c \in Callers : ~HasRow(c)' => run'[c] = NoRun,
           \A c \in Callers :
             /\ run'[c].row \subseteq run[c].row
             /\ \A s \in run'[c].snap : \E old \in run[c].snap : s.gen = old.gen
    PROVE  SettingsInv'
BY DEF SettingsInv

LEMMA StaleKept ==
    ASSUME SettingsInv, UNCHANGED <<feed, overtaken>>
    PROVE  StaleOnlyAfterOverlap'
BY DEF SettingsInv, StaleOnlyAfterOverlap, MergeOf

LEMMA SettingsFinish ==
    ASSUME TypeOK, SettingsInv, NEW c \in Callers, InFlight(c), NEW kind, NEW body,
           Finish(c, kind, body), UNCHANGED overtaken, StaleOnlyAfterOverlap',
           \A row \in feed' : \E old \in feed : row.settings = old.settings,
           \A s \in sources' : \E old \in sources : s.gen = old.gen
    PROVE  SettingsInv'
<1>1. \A d \in Callers : run'[d] = NoRun \/ run'[d] = run[d]
  BY FinishRuns
<1>2. \A d \in Callers : ~HasRow(d)' => run'[d] = NoRun
  BY FinishRuns DEF HasRow, SettingsInv, RunStates
<1>3. \A d \in Callers :
        /\ run'[d].row \subseteq run[d].row
        /\ \A s \in run'[d].snap : \E old \in run[d].snap : s.gen = old.gen
  BY <1>1 DEF NoRun
<1> QED
  BY <1>2, <1>3, SettingsKept

(* Writing a row back changes no id. *)
LEMMA UpdateKeepsIds ==
    ASSUME TypeOK, NEW row, UpdateSourceFetch(row)
    PROVE  \A s \in sources' : \E old \in sources :
             /\ s.gen = old.gen /\ s.pos = old.pos
             /\ s.ics = IF SameSource(old, row) THEN row.ics ELSE old.ics
<1>1. ASSUME NEW old \in sources, NEW s,
             s = IF SameSource(old, row) THEN [old EXCEPT !.ics = row.ics] ELSE old
      PROVE  /\ s.gen = old.gen /\ s.pos = old.pos
             /\ s.ics = IF SameSource(old, row) THEN row.ics ELSE old.ics
  <2>1. old \in SourceRow
    BY DEF TypeOK, TablesTyped
  <2> QED
    BY <1>1, <2>1 DEF SourceRow
<1> QED
  BY <1>1 DEF UpdateSourceFetch

(* Fetching changes no id either, and a body only for a new one. *)
LEMMA FetchKeepsIds ==
    ASSUME TypeOK, NEW c \in Callers, NEW origin
    PROVE  \A s \in Fetched(c, origin) : \E old \in run[c].snap :
             /\ s.gen = old.gen /\ s.pos = old.pos
             /\ s = applyFetch(old, origin[old], run[c].clock)
             /\ s.ics = old.ics
                \/ (s.ics # {} /\ \A body \in s.ics : body.at = run[c].clock)
<1>1. ASSUME NEW old \in run[c].snap
      PROVE  LET s == applyFetch(old, origin[old], run[c].clock)
             IN  /\ s.gen = old.gen /\ s.pos = old.pos
                 /\ s.ics = old.ics
                    \/ (s.ics # {} /\ \A body \in s.ics : body.at = run[c].clock)
  <2>1. old \in SourceRow
    BY DEF TypeOK, CallersTyped, Run
  <2>2. CASE origin[old] = "failure"
    BY <2>1, <2>2 DEF applyFetch, SourceRow
  <2>3. CASE origin[old] # "failure"
    <3>1. applyFetch(old, origin[old], run[c].clock).ics
            = {[at |-> run[c].clock, parses |-> origin[old] = "calendar"]}
      BY <2>1, <2>3 DEF applyFetch, SourceRow
    <3>2. \A body \in {[at |-> run[c].clock, parses |-> origin[old] = "calendar"]} :
            body.at = run[c].clock
      OBVIOUS
    <3>3. /\ applyFetch(old, origin[old], run[c].clock).gen = old.gen
          /\ applyFetch(old, origin[old], run[c].clock).pos = old.pos
      BY <2>1 DEF applyFetch, SourceRow
    <3> HIDE DEF applyFetch
    <3> QED
      BY <3>1, <3>2, <3>3
  <2> QED
    BY <2>2, <2>3
<1> QED
  BY <1>1 DEF Fetched

(* A new merge belongs to the settings of the run's row and the run's      *)
(* sources.                                                                *)
LEMMA MergedOf ==
    ASSUME TypeOK, NEW c \in Callers, NEW row \in run[c].row, NEW next,
           next.settings = row.settings,
           \A s \in run[c].snap : s.gen = row.settings
    PROVE  MergeOf(next, Merged(c, row))
<1>1. ASSUME NEW part \in Merged(c, row).parts
      PROVE  part.gen = row.settings
  <2>1. PICK s \in Named(c) : part.gen = s.gen
    BY <1>1 DEF Merged
  <2> QED
    BY <2>1 DEF Named
<1>2. Merged(c, row).settings = row.settings
  BY DEF Merged
<1> QED
  BY <1>1, <1>2 DEF MergeOf

LEMMA SettingsNext == TypeOK /\ SettingsInv /\ [Next]_vars => SettingsInv'
<1> SUFFICES ASSUME TypeOK, SettingsInv, [Next]_vars PROVE SettingsInv'
  OBVIOUS
<1>1. ASSUME UNCHANGED <<feed, sources, overtaken, run>>,
             \A c \in Callers : HasRow(c) => HasRow(c)'
      PROVE  SettingsInv'
  BY <1>1, StaleKept, SettingsKept DEF SettingsInv
<1>2. ASSUME NEW c \in Callers, InFlight(c), NEW kind, NEW body, Finish(c, kind, body),
             UNCHANGED <<feed, sources, overtaken>>
      PROVE  SettingsInv'
  BY <1>2, StaleKept, SettingsFinish
<1>3. ASSUME NEW c \in Callers, Refresh(c) PROVE SettingsInv'
  BY <1>1, <1>3 DEF Refresh, HasRow, RunStates, TypeOK, CallersTyped
<1>4. ASSUME NEW c \in Callers, LoadFeedRow(c) PROVE SettingsInv'
  <2>1. CASE feed = {}
    BY <1>2, <1>4, <2>1 DEF LoadFeedRow, InFlight, RunStates
  <2>2. CASE feed # {}
    <3>1. /\ \A d \in Callers \ {c} : run'[d] = run[d] /\ pc'[d] = pc[d]
          /\ run'[c].row = feed /\ run'[c].snap = run[c].snap
          /\ pc'[c] = "sourceRows"
      BY <1>4, <2>2 DEF LoadFeedRow, TypeOK, CallersTyped, Run
    <3>2. run[c].snap = {}
      BY <1>4 DEF LoadFeedRow, SettingsInv, HasRow, NoRun
    <3>3. \A d \in Callers : ~HasRow(d)' => run'[d] = NoRun
      BY <3>1 DEF SettingsInv, HasRow, RunStates
    <3>4. StaleOnlyAfterOverlap'
      BY <1>4, StaleKept DEF LoadFeedRow
    <3>5. \A r \in feed, row \in feed : r.settings = row.settings
      BY DEF TypeOK, TablesTyped, AtMostOne
    <3> QED
      BY <1>4, <3>1, <3>2, <3>3, <3>4, <3>5 DEF LoadFeedRow, SettingsInv
  <2> QED
    BY <2>1, <2>2
<1>5. ASSUME NEW c \in Callers, LoadSourceRows(c) PROVE SettingsInv'
  <2>1. /\ \A d \in Callers \ {c} : run'[d] = run[d] /\ pc'[d] = pc[d]
        /\ run'[c].row = run[c].row /\ run'[c].snap = sources
        /\ pc'[c] = "decide"
    BY <1>5 DEF LoadSourceRows, TypeOK, CallersTyped, Run
  <2>2. \A d \in Callers : ~HasRow(d)' => run'[d] = NoRun
    BY <2>1 DEF SettingsInv, HasRow, RunStates
  <2>3. StaleOnlyAfterOverlap'
    BY <1>5, StaleKept DEF LoadSourceRows
  <2> QED
    BY <1>5, <2>1, <2>2, <2>3 DEF LoadSourceRows, SettingsInv
\* A step of a run that gets no other row and no other sources.
<1>6. ASSUME NEW c \in Callers, NEW state \in RunStates \ {"feedRow"},
             pc' = [pc EXCEPT ![c] = state],
             \A d \in Callers \ {c} : run'[d] = run[d],
             run'[c].row = run[c].row,
             \A s \in run'[c].snap : \E old \in run[c].snap : s.gen = old.gen,
             UNCHANGED <<feed, overtaken>>,
             \A s \in sources' : \E old \in sources : s.gen = old.gen
      PROVE  SettingsInv'
  <2>1. \A d \in Callers : ~HasRow(d)' => run'[d] = NoRun
    BY <1>6 DEF SettingsInv, HasRow, TypeOK, CallersTyped
  <2>2. \A d \in Callers :
          /\ run'[d].row \subseteq run[d].row
          /\ \A s \in run'[d].snap : \E old \in run[d].snap : s.gen = old.gen
    BY <1>6
  <2> QED
    BY <1>6, <2>1, <2>2, StaleKept, SettingsKept
<1>7. ASSUME NEW c \in Callers, ReadClock(c) PROVE SettingsInv'
  <2>1. /\ \A d \in Callers \ {c} : run'[d] = run[d]
        /\ run'[c].row = run[c].row /\ run'[c].snap = run[c].snap
    BY <1>7 DEF ReadClock, TypeOK, CallersTyped, Run
  <2> QED
    BY <1>6, <1>7, <2>1 DEF ReadClock, RunStates
<1>8. ASSUME NEW c \in Callers, ServeFresh(c) PROVE SettingsInv'
  BY <1>2, <1>8 DEF ServeFresh, InFlight, RunStates
<1>9. ASSUME NEW c \in Callers, FetchLimited(c) PROVE SettingsInv'
  BY <1>2, <1>9 DEF FetchLimited, InFlight, RunStates
<1>10. ASSUME NEW c \in Callers, Fetch(c) PROVE SettingsInv'
  <2>1. PICK origin :
          run' = [run EXCEPT ![c].snap = Fetched(c, origin),
                             ![c].todo = Fetched(c, origin)]
    BY <1>10 DEF Fetch
  <2>2. /\ \A d \in Callers \ {c} : run'[d] = run[d]
        /\ run'[c].row = run[c].row /\ run'[c].snap = Fetched(c, origin)
    BY <2>1 DEF TypeOK, CallersTyped, Run
  <2>3. \A s \in Fetched(c, origin) : \E old \in run[c].snap : s.gen = old.gen
    BY FetchKeepsIds
  <2>4. \A s \in run'[c].snap : \E old \in run[c].snap : s.gen = old.gen
    BY <2>2, <2>3
  <2>5. /\ pc' = [pc EXCEPT ![c] = "store"]
        /\ UNCHANGED <<feed, sources, overtaken>>
    BY <1>10 DEF Fetch
  <2>6. \A s \in sources' : \E old \in sources : s.gen = old.gen
    BY <2>5
  <2> QED
    BY <1>6, <2>2, <2>4, <2>5, <2>6 DEF RunStates
<1>11. ASSUME NEW c \in Callers, StoreSource(c) PROVE SettingsInv'
  <2>1. PICK row \in run[c].todo :
          /\ UpdateSourceFetch(row)
          /\ \/ run' = [run EXCEPT ![c].todo = @ \ {row}] /\ UNCHANGED pc
             \/ Finish(c, "error", {})
    BY <1>11 DEF StoreSource
  <2>2. \A s \in sources' : \E old \in sources : s.gen = old.gen
    BY <2>1, UpdateKeepsIds
  <2>3. CASE run' = [run EXCEPT ![c].todo = @ \ {row}] /\ UNCHANGED pc
    <3>1. /\ \A d \in Callers \ {c} : run'[d] = run[d]
          /\ run'[c].row = run[c].row /\ run'[c].snap = run[c].snap
          /\ pc' = [pc EXCEPT ![c] = "store"]
      BY <1>11, <2>3 DEF StoreSource, TypeOK, CallersTyped, Run
    <3> QED
      BY <1>6, <1>11, <2>2, <3>1 DEF StoreSource, RunStates
  <2>4. CASE Finish(c, "error", {})
    BY <1>11, <2>2, <2>4, StaleKept, SettingsFinish DEF StoreSource, InFlight, RunStates
  <2> QED
    BY <2>1, <2>3, <2>4
<1>12. ASSUME NEW c \in Callers, StoreDone(c) PROVE SettingsInv'
  BY <1>6, <1>12 DEF StoreDone, RunStates
<1>13. ASSUME NEW c \in Callers, PublishNothing(c) PROVE SettingsInv'
  BY <1>2, <1>13 DEF PublishNothing, InFlight, RunStates
<1>14. ASSUME NEW c \in Callers, Publish(c) PROVE SettingsInv'
  <2>1. PICK row \in run[c].row :
          /\ UpdateMerged(Merged(c, row))
          /\ \E kind, body : Finish(c, kind, body)
    BY <1>14 DEF Publish
  <2>2. \A next \in feed' : \E old \in feed :
          next.settings = old.settings /\ next.merged = {Merged(c, row)}
    BY <2>1 DEF UpdateMerged, TypeOK, TablesTyped, FeedRow
  <2>3. StaleOnlyAfterOverlap'
    <3> SUFFICES ASSUME NEW next \in feed', next.settings \notin overtaken
                 PROVE  \A merge \in next.merged : MergeOf(next, merge)
      BY <1>14 DEF Publish, StaleOnlyAfterOverlap, MergeOf
    <3>1. PICK old \in feed :
            next.settings = old.settings /\ next.merged = {Merged(c, row)}
      BY <2>2
    <3>2. /\ row.settings = next.settings
          /\ \A s \in run[c].snap : s.gen = row.settings
      BY <3>1 DEF SettingsInv
    <3> QED
      BY <3>1, <3>2, MergedOf
  <2> QED
    BY <1>14, <2>1, <2>2, <2>3, SettingsFinish DEF Publish, InFlight, RunStates
<1>15. ASSUME NEW c \in Callers, StatementFails(c) PROVE SettingsInv'
  BY <1>2, <1>15 DEF StatementFails, InFlight, RunStates
<1>16. ASSUME NEW c \in Callers, Leave(c) PROVE SettingsInv'
  BY <1>1, <1>16 DEF Leave, HasRow, RunStates, TypeOK, CallersTyped
<1>17. ASSUME NEW k \in 1..MaxSources, UpdateFeed(k) PROVE SettingsInv'
  <2>1. PICK row \in feed :
          /\ feed' = {[settings |-> row.settings + 1, merged |-> {}]}
          /\ sources' = SourcesOf(row.settings + 1, k)
          /\ (\E c \in Callers : HasRow(c)) => row.settings + 1 \in overtaken'
          /\ UNCHANGED <<now, pc, run, answer>>
    BY <1>17 DEF UpdateFeed
  <2>2. \A s \in sources' : s.gen = row.settings + 1
    BY <2>1 DEF SourcesOf
  <2>3. StaleOnlyAfterOverlap'
    BY <2>1 DEF StaleOnlyAfterOverlap
  <2>4. \A c \in Callers : ~HasRow(c)' => run'[c] = NoRun
    BY <2>1 DEF SettingsInv, HasRow
  <2>5. row.settings + 1 \notin overtaken' => \A c \in Callers : run'[c] = NoRun
    BY <2>1 DEF SettingsInv
  <2> QED
    BY <2>1, <2>2, <2>3, <2>4, <2>5 DEF SettingsInv, NoRun
<1>18. CASE Tick
  BY <1>1, <1>18 DEF Tick, HasRow
<1>19. CASE DeleteFeed
  BY <1>19 DEF DeleteFeed, SettingsInv, StaleOnlyAfterOverlap, HasRow
<1>20. CASE Restart
  <2>1. \A c \in Callers : run'[c] = NoRun
    BY <1>20 DEF Restart
  <2>2. StaleOnlyAfterOverlap'
    BY <1>20, StaleKept DEF Restart
  <2> QED
    BY <1>20, <2>1, <2>2 DEF Restart, SettingsInv, NoRun
<1>21. CASE UNCHANGED vars
  BY <1>1, <1>21 DEF vars, HasRow
<1> QED
  BY <1>3, <1>4, <1>5, <1>7, <1>8, <1>9, <1>10, <1>11, <1>12, <1>13, <1>14,
     <1>15, <1>16, <1>17, <1>18, <1>19, <1>20, <1>21 DEF Next, RunStep

(* A merged body in the table is made from the saved settings and sources  *)
(* unless the last save overtook a run in flight: a save that no refresh   *)
(* overlaps always takes effect.                                           *)
THEOREM SavesTakeEffect == Spec => []StaleOnlyAfterOverlap
<1>1. SettingsInv => StaleOnlyAfterOverlap
  BY DEF SettingsInv
<1> QED
  BY <1>1, SettingsInit, SettingsNext, Typed, PTL DEF Spec

-----------------------------------------------------------------------------
(* Merges. *)

(* Inductive for MergeSpacing: singleflight leaves one run in flight, so   *)
(* the merged body in the table is the one this run has read (or none, if  *)
(* a save cleared it), and the decision to fetch was taken on its age.     *)
SpacingInv ==
    /\ \A c, d \in Callers : InFlight(c) /\ InFlight(d) => c = d
    /\ \A c \in Callers :
        pc[c] \in {"store", "publish"} => ShouldFetch(Decision(c))
    /\ \A c \in Callers :
        HasRow(c) => \A row \in feed : row.merged \subseteq OldMerge(c)

LEMMA SpacingInit == Init => SpacingInv
BY DEF Init, SpacingInv, InFlight, HasRow, RunStates

(* The steps at which a run ends. *)
LEMMA SpacingFinish ==
    ASSUME TypeOK, SpacingInv, NEW c \in Callers, InFlight(c), NEW kind, NEW body,
           Finish(c, kind, body)
    PROVE  SpacingInv'
<1>1. /\ \A d \in Callers : InFlight(d)' => InFlight(d) /\ d # c
      /\ \A d \in Callers : InFlight(d)' => run'[d] = run[d] /\ pc'[d] = pc[d]
  BY FinishRuns DEF InFlight
<1>2. \A d \in Callers : ~InFlight(d)'
  BY <1>1 DEF SpacingInv
<1> QED
  BY <1>2 DEF SpacingInv, InFlight, HasRow, RunStates

(* The steps at which a run goes on, and the feed row stays. *)
LEMMA SpacingGoesOn ==
    ASSUME TypeOK, SpacingInv, UNCHANGED feed,
           NEW c \in Callers, InFlight(c), NEW state \in RunStates,
           pc' = [pc EXCEPT ![c] = state],
           \A d \in Callers \ {c} : run'[d] = run[d],
           state \in {"store", "publish"} => ShouldFetch(Decision(c)'),
           HasRow(c)' => \A row \in feed : row.merged \subseteq OldMerge(c)'
    PROVE  SpacingInv'
<1>1. \A d \in Callers \ {c} : ~InFlight(d)
  BY DEF SpacingInv
<1>2. \A d \in Callers \ {c} : ~InFlight(d)' /\ ~HasRow(d)'
  BY <1>1 DEF InFlight, HasRow, TypeOK, CallersTyped
<1>3. pc'[c] = state
  BY DEF TypeOK, CallersTyped
<1>4. \A d \in Callers : pc'[d] \in {"store", "publish"} => d = c
  BY <1>2 DEF InFlight, RunStates
<1> QED
  BY <1>2, <1>3, <1>4 DEF SpacingInv

LEMMA SpacingNext == TypeOK /\ SpacingInv /\ [Next]_vars => SpacingInv'
<1> SUFFICES ASSUME TypeOK, SpacingInv, [Next]_vars PROVE SpacingInv'
  OBVIOUS
\* Steps of others, which at most clear the merged body.
<1>1. ASSUME UNCHANGED <<pc, run>>, \A row \in feed' : row \in feed \/ row.merged = {}
      PROVE  SpacingInv'
  <2>1. \A c \in Callers : OldMerge(c)' = OldMerge(c) /\ Decision(c)' = Decision(c)
    BY <1>1 DEF OldMerge, Decision
  <2> QED
    BY <1>1, <2>1 DEF SpacingInv, InFlight, HasRow
\* Steps of a run that keep its row and its clock.
<1>2. ASSUME NEW c \in Callers, UNCHANGED feed, HasRow(c), NEW state \in RunStates \ {"feedRow"},
             pc' = [pc EXCEPT ![c] = state],
             \A d \in Callers \ {c} : run'[d] = run[d],
             run'[c].row = run[c].row, run'[c].clock = run[c].clock,
             state \in {"store", "publish"} => ShouldFetch(Decision(c))
      PROVE  SpacingInv'
  <2>1. OldMerge(c)' = OldMerge(c) /\ Decision(c)' = Decision(c)
    BY <1>2 DEF OldMerge, Decision
  <2>2. InFlight(c)
    BY <1>2 DEF HasRow, InFlight
  <2> QED
    BY <1>2, <2>1, <2>2, SpacingGoesOn DEF SpacingInv
<1>3. ASSUME NEW c \in Callers, Refresh(c) PROVE SpacingInv'
  <2>1. CASE \E d \in Callers : InFlight(d)
    <3>1. \A d \in Callers : (InFlight(d)' <=> InFlight(d)) /\ (HasRow(d)' <=> HasRow(d))
      BY <1>3, <2>1 DEF Refresh, InFlight, HasRow, RunStates, TypeOK, CallersTyped
    <3>2. \A d \in Callers : pc'[d] \in {"store", "publish"} => pc[d] \in {"store", "publish"}
      BY <1>3, <2>1 DEF Refresh, TypeOK, CallersTyped
    <3>3. \A d \in Callers : OldMerge(d)' = OldMerge(d) /\ Decision(d)' = Decision(d)
      BY <1>3 DEF Refresh, OldMerge, Decision
    <3> QED
      BY <1>3, <3>1, <3>2, <3>3 DEF Refresh, SpacingInv
  <2>2. CASE \A d \in Callers : ~InFlight(d)
    <3>1. \A d \in Callers : d # c => pc'[d] = pc[d]
      BY <1>3 DEF Refresh, TypeOK, CallersTyped
    <3>2. pc'[c] = "feedRow"
      BY <1>3, <2>2 DEF Refresh, TypeOK, CallersTyped
    <3> QED
      BY <2>2, <3>1, <3>2 DEF SpacingInv, InFlight, HasRow, RunStates
  <2> QED
    BY <2>1, <2>2
<1>4. ASSUME NEW c \in Callers, LoadFeedRow(c) PROVE SpacingInv'
  <2>0. InFlight(c)
    BY <1>4 DEF LoadFeedRow, InFlight, RunStates
  <2>1. CASE feed = {}
    BY <1>4, <2>0, <2>1, SpacingFinish DEF LoadFeedRow
  <2>2. CASE feed # {}
    <3>1. /\ \A d \in Callers \ {c} : run'[d] = run[d]
          /\ run'[c].row = feed
          /\ pc' = [pc EXCEPT ![c] = "sourceRows"] /\ UNCHANGED feed
      BY <1>4, <2>2 DEF LoadFeedRow, TypeOK, CallersTyped, Run
    <3>2. OldMerge(c)' = UNION {row.merged : row \in feed}
      BY <3>1 DEF OldMerge
    <3>3. \A row \in feed : row.merged \subseteq OldMerge(c)'
      BY <3>2
    <3> QED
      BY <2>0, <3>1, <3>3, SpacingGoesOn DEF RunStates
  <2> QED
    BY <2>1, <2>2
<1>5. ASSUME NEW c \in Callers, LoadSourceRows(c) PROVE SpacingInv'
  <2>1. /\ \A d \in Callers \ {c} : run'[d] = run[d]
        /\ run'[c].row = run[c].row /\ run'[c].clock = run[c].clock
        /\ HasRow(c)
    BY <1>5 DEF LoadSourceRows, HasRow, RunStates, TypeOK, CallersTyped, Run
  <2> QED
    BY <1>2, <1>5, <2>1 DEF LoadSourceRows, RunStates
<1>6. ASSUME NEW c \in Callers, ReadClock(c) PROVE SpacingInv'
  <2>1. /\ \A d \in Callers \ {c} : run'[d] = run[d]
        /\ run'[c].row = run[c].row
        /\ HasRow(c) /\ InFlight(c)
    BY <1>6 DEF ReadClock, HasRow, InFlight, RunStates, TypeOK, CallersTyped, Run
  <2>2. OldMerge(c)' = OldMerge(c)
    BY <2>1 DEF OldMerge
  <2>3. \A row \in feed : row.merged \subseteq OldMerge(c)'
    BY <2>1, <2>2 DEF SpacingInv
  <2>4. pc' = [pc EXCEPT ![c] = "fetch"] /\ UNCHANGED feed
    BY <1>6 DEF ReadClock
  <2> QED
    BY <2>1, <2>3, <2>4, SpacingGoesOn DEF RunStates
<1>7. ASSUME NEW c \in Callers, Fetch(c) PROVE SpacingInv'
  <2>1. PICK origin :
          run' = [run EXCEPT ![c].snap = Fetched(c, origin),
                             ![c].todo = Fetched(c, origin)]
    BY <1>7 DEF Fetch
  <2>2. /\ \A d \in Callers \ {c} : run'[d] = run[d]
        /\ run'[c].row = run[c].row /\ run'[c].clock = run[c].clock
    BY <2>1 DEF TypeOK, CallersTyped, Run
  <2>3. /\ pc' = [pc EXCEPT ![c] = "store"] /\ UNCHANGED feed
        /\ HasRow(c) /\ ShouldFetch(Decision(c))
    BY <1>7 DEF Fetch, HasRow, RunStates
  <2> QED
    BY <1>2, <2>2, <2>3 DEF RunStates
<1>8. ASSUME NEW c \in Callers, StoreSource(c) PROVE SpacingInv'
  <2>1. PICK row \in run[c].todo :
          \/ run' = [run EXCEPT ![c].todo = @ \ {row}] /\ UNCHANGED pc
          \/ Finish(c, "error", {})
    BY <1>8 DEF StoreSource
  <2>2. CASE run' = [run EXCEPT ![c].todo = @ \ {row}] /\ UNCHANGED pc
    <3>1. /\ \A d \in Callers \ {c} : run'[d] = run[d]
          /\ run'[c].row = run[c].row /\ run'[c].clock = run[c].clock
      BY <2>2 DEF TypeOK, CallersTyped, Run
    <3>2. /\ pc' = [pc EXCEPT ![c] = "store"] /\ UNCHANGED feed
          /\ HasRow(c) /\ ShouldFetch(Decision(c))
      BY <1>8, <2>2 DEF StoreSource, HasRow, RunStates, SpacingInv, TypeOK, CallersTyped
    <3> QED
      BY <1>2, <3>1, <3>2 DEF RunStates
  <2>3. CASE Finish(c, "error", {})
    BY <1>8, <2>3, SpacingFinish DEF StoreSource, InFlight, RunStates
  <2> QED
    BY <2>1, <2>2, <2>3
<1>9. ASSUME NEW c \in Callers, StoreDone(c) PROVE SpacingInv'
  <2>1. /\ pc' = [pc EXCEPT ![c] = "publish"] /\ UNCHANGED <<feed, run>>
        /\ HasRow(c) /\ ShouldFetch(Decision(c))
    BY <1>9 DEF StoreDone, HasRow, RunStates, SpacingInv
  <2> QED
    BY <1>2, <2>1 DEF RunStates
\* Steps that end the run.
<1>10. ASSUME NEW c \in Callers, InFlight(c), \E kind, body : Finish(c, kind, body)
       PROVE  SpacingInv'
  BY <1>10, SpacingFinish
<1>11. ASSUME NEW c \in Callers,
              ServeFresh(c) \/ FetchLimited(c) \/ PublishNothing(c) \/ Publish(c)
                \/ StatementFails(c)
       PROVE  InFlight(c) /\ \E kind, body : Finish(c, kind, body)
  BY <1>11 DEF ServeFresh, FetchLimited, PublishNothing, Publish, StatementFails,
               InFlight, RunStates
<1>12. ASSUME NEW c \in Callers, Leave(c) PROVE SpacingInv'
  <2>1. \A d \in Callers : /\ pc'[d] = pc[d] \/ pc'[d] = "idle"
                           /\ OldMerge(d)' = OldMerge(d)
                           /\ Decision(d)' = Decision(d)
    BY <1>12 DEF Leave, TypeOK, CallersTyped, OldMerge, Decision
  <2> QED
    BY <1>12, <2>1 DEF Leave, SpacingInv, InFlight, HasRow, RunStates
<1>13. ASSUME NEW k \in 1..MaxSources, UpdateFeed(k) PROVE SpacingInv'
  BY <1>1, <1>13 DEF UpdateFeed
<1>14. CASE Tick
  BY <1>1, <1>14 DEF Tick
<1>15. CASE DeleteFeed
  BY <1>1, <1>15 DEF DeleteFeed
<1>16. CASE Restart
  BY <1>16 DEF Restart, SpacingInv, InFlight, HasRow, RunStates
<1>17. CASE UNCHANGED vars
  BY <1>1, <1>17 DEF vars
<1> QED
  BY <1>3, <1>4, <1>5, <1>6, <1>7, <1>8, <1>9, <1>10, <1>11, <1>12, <1>13,
     <1>14, <1>15, <1>16, <1>17 DEF Next, RunStep

(* A merged body leaves the table only for one merged at least Fresh later *)
(* (or for none): however many callers ask, a feed costs its origins at    *)
(* most one successful burst of fetches per fresh window and save.         *)
THEOREM OneMergePerWindow == Spec => MergeSpacing
<1>1. TypeOK /\ SpacingInv /\ [Next]_vars => [MergeReplaced]_vars
  <2> SUFFICES ASSUME TypeOK, SpacingInv, Next PROVE MergeReplaced
    BY DEF MergeReplaced, vars, TypeOK, TablesTyped, AtMostOne
  <2>1. ASSUME \A next \in feed' : next \in feed \/ next.merged = {}
        PROVE  MergeReplaced
    BY <2>1 DEF MergeReplaced, TypeOK, TablesTyped, AtMostOne
  <2>2. ASSUME NEW c \in Callers, Publish(c) PROVE MergeReplaced
    <3>1. PICK row \in run[c].row : UpdateMerged(Merged(c, row))
      BY <2>2 DEF Publish
    <3> SUFFICES ASSUME NEW old \in UNION {r.merged : r \in feed},
                        NEW next \in feed', NEW new \in next.merged
                 PROVE  new.at - old.at >= Fresh
      BY DEF MergeReplaced
    <3>2. new = Merged(c, row)
      BY <3>1 DEF UpdateMerged, TypeOK, TablesTyped, FeedRow
    <3>3. new.at = run[c].clock
      BY <3>2 DEF Merged
    <3>4. old \in OldMerge(c)
      BY <2>2 DEF Publish, SpacingInv, HasRow, RunStates
    <3>5. ~(run[c].clock - old.at < Fresh)
      BY <2>2, <3>4 DEF Publish, SpacingInv, ShouldFetch, Decision, Decide, Age
    <3>6. old.at \in Nat /\ run[c].clock \in Nat
      BY DEF TypeOK, TablesTyped, CallersTyped, FeedRow, Merge, Run
    <3> QED
      BY <3>3, <3>5, <3>6, PolicyAssumption
  <2>3. ASSUME NEW c \in Callers, RunStep(c), ~Publish(c) PROVE UNCHANGED feed
    BY <2>3 DEF RunStep, LoadFeedRow, LoadSourceRows, ReadClock, ServeFresh,
                FetchLimited, Fetch, StoreSource, StoreDone, PublishNothing,
                StatementFails
  <2>4. ASSUME NEW c \in Callers, Refresh(c) \/ Leave(c) PROVE UNCHANGED feed
    BY <2>4 DEF Refresh, Leave
  <2>5. ASSUME (\E k \in 1..MaxSources : UpdateFeed(k)) \/ Tick \/ DeleteFeed \/ Restart
        PROVE  \A next \in feed' : next \in feed \/ next.merged = {}
    BY <2>5 DEF UpdateFeed, Tick, DeleteFeed, Restart
  <2> QED
    BY <2>1, <2>2, <2>3, <2>4, <2>5 DEF Next
<1> QED
  BY <1>1, SpacingInit, SpacingNext, Typed, PTL DEF Spec, MergeSpacing

-----------------------------------------------------------------------------
(* Source bodies. *)

(* What the run in flight holds of the sources, beside what the table      *)
(* holds: the same bodies before it fetches; then those it fetched, or the *)
(* same, still to be written, and the same where it has written.  Rows of a later save  *)
(* are unknown to the run and have no body.                                *)
RunSources(c) ==
    /\ run[c].clock <= now
    /\ run[c].todo \subseteq run[c].snap
    /\ \A r, s \in run[c].snap : SameSource(r, s) => r = s
    /\ \A row \in feed : \A r \in run[c].snap : r.gen <= row.settings
    /\ pc[c] = "sourceRows" => run[c].snap = {}
    /\ pc[c] \in {"decide", "fetch"} =>
        \A s \in sources, r \in run[c].snap : SameSource(s, r) => s.ics = r.ics
    /\ pc[c] \in {"decide", "store"} =>
        \A r \in run[c].snap : \A body \in r.ics : body.at <= now
    /\ pc[c] = "fetch" =>
        \A r \in run[c].snap : \A body \in r.ics : body.at <= run[c].clock
    /\ pc[c] \in {"decide", "fetch", "store", "publish"} =>
        \A s \in sources : s.ics = {} \/ \E r \in run[c].snap : SameSource(s, r)
    /\ pc[c] = "store" =>
        \A s \in sources, r \in run[c].todo :
            SameSource(s, r) => Advances(s, r, run[c].clock)
    /\ pc[c] \in {"store", "publish"} =>
        \A s \in sources, r \in run[c].snap \ run[c].todo :
            SameSource(s, r) => s.ics = r.ics
    /\ pc[c] = "publish" => run[c].todo = {}

SourcesInv ==
    /\ \A s \in sources : \A body \in s.ics : body.at <= now
    /\ \A c \in Callers : RunSources(c)

LEMMA SourcesInit == Init => SourcesInv
BY DEF Init, SourcesInv, RunSources, SourcesOf, NoRun

(* A caller without a run has nothing to agree with. *)
LEMMA NoRunSources ==
    ASSUME NEW c \in Callers, run'[c] = NoRun, now' \in Nat,
           pc'[c] \notin {"decide", "fetch", "store", "publish"}
    PROVE  RunSources(c)'
BY DEF RunSources, NoRun

(* A caller whose run stays, while the tables lose rows at most. *)
LEMMA SameRunSources ==
    ASSUME TypeOK, SourcesInv, NEW c \in Callers,
           run'[c] = run[c], pc'[c] = pc[c], now' \in Nat, now <= now',
           sources' \subseteq sources, feed' \subseteq feed
    PROVE  RunSources(c)'
<1>1. run[c].clock \in Nat /\ now \in Nat
  BY DEF TypeOK, TablesTyped, CallersTyped, Run
<1>2. \A r \in run[c].snap : \A body \in r.ics : body.at \in Nat
  BY DEF TypeOK, CallersTyped, Run, SourceRow, Body
<1>3. RunSources(c)
  BY DEF SourcesInv
<1> QED
  BY <1>1, <1>2, <1>3 DEF RunSources

(* A run ends: no run is left, so only the times in the table matter. *)
LEMMA SourcesFinish ==
    ASSUME TypeOK, SpacingInv, SettingsInv, SourcesInv,
           NEW c \in Callers, InFlight(c), NEW kind, NEW body,
           Finish(c, kind, body), UNCHANGED now,
           \A s \in sources' : \A b \in s.ics : b.at <= now
    PROVE  SourcesInv'
<1>1. \A d \in Callers \ {c} : ~InFlight(d)
  BY DEF SpacingInv
<1>2. \A d \in Callers \ {c} : run[d] = NoRun
  BY <1>1 DEF TypeOK, CallersTyped
<1>3. \A d \in Callers : run'[d] = NoRun /\ pc'[d] \notin RunStates
  BY <1>1, <1>2, FinishRuns DEF InFlight
<1>4. now' \in Nat
  BY DEF TypeOK, TablesTyped
<1>5. \A d \in Callers : RunSources(d)'
  BY <1>3, <1>4, NoRunSources DEF RunStates
<1> QED
  BY <1>5 DEF SourcesInv

(* A run goes on: the other callers have none. *)
LEMMA SourcesGoesOn ==
    ASSUME TypeOK, SpacingInv, SourcesInv,
           NEW c \in Callers, InFlight(c), NEW state,
           pc' = [pc EXCEPT ![c] = state],
           \A d \in Callers \ {c} : run'[d] = run[d],
           UNCHANGED now, RunSources(c)',
           \A s \in sources' : \A b \in s.ics : b.at <= now
    PROVE  SourcesInv'
<1>1. \A d \in Callers \ {c} : ~InFlight(d)
  BY DEF SpacingInv
<1>2. \A d \in Callers \ {c} : run'[d] = NoRun /\ pc'[d] \notin RunStates
  BY <1>1 DEF TypeOK, CallersTyped, InFlight
<1>3. now' \in Nat
  BY DEF TypeOK, TablesTyped
<1>4. \A d \in Callers \ {c} : RunSources(d)'
  BY <1>2, <1>3, NoRunSources DEF RunStates
<1> QED
  BY <1>4 DEF SourcesInv

LEMMA SourcesLoadRows ==
    ASSUME TypeOK, SpacingInv, SettingsInv, SourcesInv,
           NEW c \in Callers, LoadSourceRows(c)
    PROVE  SourcesInv'
<1>1. /\ \A d \in Callers \ {c} : run'[d] = run[d]
      /\ run'[c].snap = sources /\ run'[c].todo = run[c].todo
      /\ run'[c].clock = run[c].clock
      /\ pc' = [pc EXCEPT ![c] = "decide"] /\ pc'[c] = "decide"
      /\ InFlight(c)
      /\ UNCHANGED <<now, feed, sources>>
  BY DEF LoadSourceRows, TypeOK, CallersTyped, Run, InFlight, RunStates
<1>2. run[c].todo = {} /\ run[c].clock <= now
  <2>1. RunSources(c) /\ pc[c] = "sourceRows"
    BY DEF LoadSourceRows, SourcesInv
  <2> QED
    BY <2>1 DEF RunSources
<1>3. \A r, s \in sources : SameSource(r, s) => r = s
  BY DEF TypeOK, TablesTyped
<1>4. \A row \in feed : \A s \in sources : s.gen <= row.settings
  BY DEF SettingsInv, TypeOK, TablesTyped, FeedRow
<1>5. \A s \in sources : SameSource(s, s)
  BY DEF SameSource
<1>6. \A s \in sources : \A body \in s.ics : body.at <= now
  BY DEF SourcesInv
<1>7. RunSources(c)'
  BY <1>1, <1>2, <1>3, <1>4, <1>5, <1>6 DEF RunSources
<1> QED
  BY <1>1, <1>6, <1>7, SourcesGoesOn

LEMMA SourcesReadClock ==
    ASSUME TypeOK, SpacingInv, SourcesInv, NEW c \in Callers, ReadClock(c)
    PROVE  SourcesInv'
<1>1. /\ \A d \in Callers \ {c} : run'[d] = run[d]
      /\ run'[c].snap = run[c].snap /\ run'[c].todo = run[c].todo
      /\ run'[c].clock = now
      /\ pc' = [pc EXCEPT ![c] = "fetch"] /\ pc'[c] = "fetch"
      /\ InFlight(c) /\ pc[c] = "decide" /\ now \in Nat
      /\ UNCHANGED <<now, feed, sources>>
  BY DEF ReadClock, TypeOK, TablesTyped, CallersTyped, Run, InFlight, RunStates
<1>2. RunSources(c)
  BY DEF SourcesInv
<1>3. RunSources(c)'
  BY <1>1, <1>2 DEF RunSources
<1> QED
  BY <1>1, <1>3, SourcesGoesOn DEF SourcesInv

LEMMA SourcesFetch ==
    ASSUME TypeOK, SpacingInv, SourcesInv, NEW c \in Callers, Fetch(c)
    PROVE  SourcesInv'
<1>1. PICK origin :
        run' = [run EXCEPT ![c].snap = Fetched(c, origin),
                           ![c].todo = Fetched(c, origin)]
  BY DEF Fetch
<1>2. /\ \A d \in Callers \ {c} : run'[d] = run[d]
      /\ run'[c].snap = Fetched(c, origin) /\ run'[c].todo = Fetched(c, origin)
      /\ run'[c].clock = run[c].clock
  BY <1>1 DEF TypeOK, CallersTyped, Run
<1>3. /\ pc' = [pc EXCEPT ![c] = "store"] /\ pc'[c] = "store"
      /\ InFlight(c) /\ pc[c] = "fetch"
      /\ UNCHANGED <<now, feed, sources>>
  BY DEF Fetch, TypeOK, CallersTyped, InFlight, RunStates
<1>4. RunSources(c)
  BY DEF SourcesInv
<1>5. ASSUME NEW r \in Fetched(c, origin)
      PROVE  \E old \in run[c].snap :
               /\ r.gen = old.gen /\ r.pos = old.pos
               /\ r = applyFetch(old, origin[old], run[c].clock)
               /\ r.ics = old.ics
                \/ (r.ics # {} /\ \A body \in r.ics : body.at = run[c].clock)
  BY FetchKeepsIds
<1>6. \A r, s \in Fetched(c, origin) : SameSource(r, s) => r = s
  BY <1>3, <1>4, <1>5 DEF RunSources, SameSource
<1>7. \A row \in feed : \A r \in Fetched(c, origin) : r.gen <= row.settings
  BY <1>4, <1>5 DEF RunSources
<1>8. \A s \in sources : s.ics = {} \/ \E r \in Fetched(c, origin) : SameSource(s, r)
  <2>1. ASSUME NEW old \in run[c].snap
        PROVE  \E r \in Fetched(c, origin) : r.gen = old.gen /\ r.pos = old.pos
    <3>1. old \in SourceRow
      BY DEF TypeOK, CallersTyped, Run
    <3>2. applyFetch(old, origin[old], run[c].clock) \in Fetched(c, origin)
      BY DEF Fetched
    <3> QED
      BY <3>1, <3>2 DEF applyFetch, SourceRow
  <2> QED
    BY <1>3, <1>4, <2>1 DEF RunSources, SameSource
<1>9. ASSUME NEW s \in sources, NEW r \in Fetched(c, origin), SameSource(s, r)
      PROVE  Advances(s, r, run[c].clock)
  <2>1. PICK old \in run[c].snap :
          /\ r.gen = old.gen /\ r.pos = old.pos
          /\ r.ics = old.ics
                \/ (r.ics # {} /\ \A body \in r.ics : body.at = run[c].clock)
    BY <1>5
  <2>2. s.ics = old.ics /\ \A body \in old.ics : body.at <= run[c].clock
    BY <1>3, <1>4, <1>9, <2>1 DEF RunSources, SameSource
  <2>3. \A body \in s.ics : body.at \in Nat
    BY DEF TypeOK, TablesTyped, SourceRow, Body
  <2> QED
    BY <2>1, <2>2, <2>3 DEF Advances
<1>10. \A r \in Fetched(c, origin) : \A body \in r.ics : body.at <= now
  <2>1. run[c].clock \in Nat /\ now \in Nat /\ run[c].clock <= now
    BY <1>4 DEF RunSources, TypeOK, TablesTyped, CallersTyped, Run
  <2>2. \A old \in run[c].snap : \A body \in old.ics :
          body.at \in Nat /\ body.at <= run[c].clock
    BY <1>3, <1>4 DEF RunSources, TypeOK, CallersTyped, Run, SourceRow, Body
  <2> QED
    BY <1>5, <2>1, <2>2
<1>12. RunSources(c)'
  BY <1>2, <1>3, <1>4, <1>6, <1>7, <1>8, <1>9, <1>10 DEF RunSources, Advances
<1>11. \A s \in sources' : \A body \in s.ics : body.at <= now
  BY <1>3 DEF SourcesInv
<1> QED
  BY <1>2, <1>3, <1>11, <1>12, SourcesGoesOn

LEMMA SourcesStore ==
    ASSUME TypeOK, SpacingInv, SettingsInv, SourcesInv, NEW c \in Callers, StoreSource(c)
    PROVE  SourcesInv' /\ BodiesAdvance
<1>1. PICK row \in run[c].todo :
        /\ UpdateSourceFetch(row)
        /\ \/ run' = [run EXCEPT ![c].todo = @ \ {row}] /\ UNCHANGED pc
           \/ Finish(c, "error", {})
  BY DEF StoreSource
<1>2. InFlight(c) /\ pc[c] = "store" /\ UNCHANGED <<now, feed>>
  BY DEF StoreSource, InFlight, RunStates
<1>3. RunSources(c)
  BY DEF SourcesInv
<1>4. row \in run[c].snap
  BY <1>3 DEF RunSources
<1>5. \A s \in sources' : \E old \in sources :
        /\ s.gen = old.gen /\ s.pos = old.pos
        /\ s.ics = IF SameSource(old, row) THEN row.ics ELSE old.ics
  BY <1>1, UpdateKeepsIds
<1>6. \A s \in sources' : \A b \in s.ics : b.at <= now
  BY <1>2, <1>3, <1>4, <1>5 DEF SourcesInv, RunSources
<1>7. BodiesAdvance
  <2> SUFFICES ASSUME NEW s \in sources, NEW t \in sources', SameSource(s, t)
               PROVE  t.ics = s.ics \/ Advances(s, t, run[c].clock)
    BY <1>2 DEF BodiesAdvance
  <2>1. PICK old \in sources :
          /\ t.gen = old.gen /\ t.pos = old.pos
          /\ t.ics = IF SameSource(old, row) THEN row.ics ELSE old.ics
    BY <1>5
  <2>2. SameSource(s, old)
    BY <2>1 DEF SameSource
  <2>3. s = old
    BY <2>2 DEF TypeOK, TablesTyped
  <2>4. CASE SameSource(old, row)
    BY <1>2, <1>3, <2>1, <2>3, <2>4 DEF RunSources, Advances
  <2>5. CASE ~SameSource(old, row)
    BY <2>1, <2>3, <2>5
  <2> QED
    BY <2>4, <2>5
<1>8. CASE Finish(c, "error", {})
  BY <1>2, <1>6, <1>7, <1>8, SourcesFinish
<1>9. CASE run' = [run EXCEPT ![c].todo = @ \ {row}] /\ UNCHANGED pc
  <2>1. /\ \A d \in Callers \ {c} : run'[d] = run[d]
        /\ run'[c].snap = run[c].snap /\ run'[c].clock = run[c].clock
        /\ run'[c].todo = run[c].todo \ {row}
    BY <1>9 DEF TypeOK, CallersTyped, Run
  <2>2. pc' = [pc EXCEPT ![c] = "store"] /\ pc'[c] = "store"
    BY <1>2, <1>9 DEF TypeOK, CallersTyped
  <2>3. ASSUME NEW s \in sources', NEW r \in run[c].snap, SameSource(s, r)
        PROVE  /\ r = row => s.ics = r.ics
               /\ r # row => \E old \in sources : SameSource(old, r) /\ s.ics = old.ics
    <3>1. PICK old \in sources :
            /\ s.gen = old.gen /\ s.pos = old.pos
            /\ s.ics = IF SameSource(old, row) THEN row.ics ELSE old.ics
      BY <1>5
    <3>2. SameSource(old, r)
      BY <2>3, <3>1 DEF SameSource
    <3>3. SameSource(old, row) => SameSource(r, row)
      BY <3>2 DEF SameSource
    <3>4. SameSource(old, row) => r = row
      BY <1>3, <1>4, <3>3 DEF RunSources
    <3> QED
      BY <3>1, <3>2, <3>4
  <2>4. \A s \in sources' : s.ics = {} \/ \E r \in run[c].snap : SameSource(s, r)
    <3> SUFFICES ASSUME NEW s \in sources', s.ics # {}
                 PROVE  \E r \in run[c].snap : SameSource(s, r)
      OBVIOUS
    <3>1. PICK old \in sources :
            /\ s.gen = old.gen /\ s.pos = old.pos
            /\ s.ics = IF SameSource(old, row) THEN row.ics ELSE old.ics
      BY <1>5
    <3>2. \A r : SameSource(old, r) => SameSource(s, r)
      BY <3>1 DEF SameSource
    <3> QED
      BY <1>2, <1>3, <1>4, <3>1, <3>2 DEF RunSources
  <2>5. \A s \in sources', r \in run'[c].todo :
          SameSource(s, r) => Advances(s, r, run[c].clock)
    <3> SUFFICES ASSUME NEW s \in sources', NEW r \in run[c].todo, r # row,
                        SameSource(s, r)
                 PROVE  Advances(s, r, run[c].clock)
      BY <2>1
    <3>1. r \in run[c].snap
      BY <1>3 DEF RunSources
    <3>2. PICK old \in sources : SameSource(old, r) /\ s.ics = old.ics
      BY <2>3, <3>1
    <3> QED
      BY <1>2, <1>3, <3>2 DEF RunSources, Advances
  <2>6. \A s \in sources', r \in run'[c].snap \ run'[c].todo :
          SameSource(s, r) => s.ics = r.ics
    BY <1>2, <1>3, <2>1, <2>3 DEF RunSources
  <2>7. RunSources(c)'
    BY <1>2, <1>3, <2>1, <2>2, <2>4, <2>5, <2>6 DEF RunSources, Advances
  <2> QED
    BY <1>2, <1>6, <1>7, <2>1, <2>2, <2>7, SourcesGoesOn
<1> QED
  BY <1>1, <1>8, <1>9

LEMMA SourcesStoreDone ==
    ASSUME TypeOK, SpacingInv, SourcesInv, NEW c \in Callers, StoreDone(c)
    PROVE  SourcesInv'
<1>1. /\ InFlight(c) /\ pc[c] = "store" /\ run[c].todo = {}
      /\ pc' = [pc EXCEPT ![c] = "publish"] /\ pc'[c] = "publish"
      /\ UNCHANGED <<now, feed, sources, run>>
  BY DEF StoreDone, InFlight, RunStates, TypeOK, CallersTyped
<1>2. RunSources(c)
  BY DEF SourcesInv
<1>3. RunSources(c)'
  BY <1>1, <1>2 DEF RunSources
<1> QED
  BY <1>1, <1>3, SourcesGoesOn DEF SourcesInv

LEMMA SourcesNext ==
    TypeOK /\ SpacingInv /\ SettingsInv /\ SourcesInv /\ [Next]_vars => SourcesInv'
<1> SUFFICES ASSUME TypeOK, SpacingInv, SettingsInv, SourcesInv, [Next]_vars
             PROVE  SourcesInv'
  OBVIOUS
<1>0. now \in Nat /\ now <= now
  BY DEF TypeOK, TablesTyped
\* Steps of others that take rows away at most.
<1>1. ASSUME UNCHANGED <<pc, run>>, now' \in Nat, now <= now',
             sources' \subseteq sources, feed' \subseteq feed
      PROVE  SourcesInv'
  <2>1. \A c \in Callers : RunSources(c)'
    BY <1>1, SameRunSources
  <2>2. \A s \in sources : \A b \in s.ics : b.at \in Nat
    BY DEF TypeOK, TablesTyped, SourceRow, Body
  <2> QED
    BY <1>0, <1>1, <2>1, <2>2 DEF SourcesInv
\* Steps at which a run ends.
<1>2. ASSUME NEW c \in Callers, InFlight(c), \E kind, body : Finish(c, kind, body),
             UNCHANGED <<now, sources>>
      PROVE  SourcesInv'
  BY <1>2, SourcesFinish DEF SourcesInv
<1>3. ASSUME NEW c \in Callers,
             ServeFresh(c) \/ FetchLimited(c) \/ PublishNothing(c) \/ Publish(c)
               \/ StatementFails(c)
      PROVE  SourcesInv'
  <2>1. /\ InFlight(c) /\ \E kind, body : Finish(c, kind, body)
        /\ UNCHANGED <<now, sources>>
    BY <1>3 DEF ServeFresh, FetchLimited, PublishNothing, Publish, StatementFails,
                InFlight, RunStates
  <2> QED
    BY <1>2, <2>1
\* Callers without a run.
<1>4. ASSUME NEW c \in Callers, Refresh(c) \/ Leave(c) PROVE SourcesInv'
  <2>1. /\ \A d \in Callers \ {c} : pc'[d] = pc[d]
        /\ pc'[c] \in {"waiting", "feedRow", "idle"}
        /\ ~InFlight(c)
        /\ UNCHANGED <<now, feed, sources, run>>
    BY <1>4 DEF Refresh, Leave, InFlight, RunStates, TypeOK, CallersTyped
  <2>2. run'[c] = NoRun
    BY <2>1 DEF TypeOK, CallersTyped
  <2>3. RunSources(c)'
    BY <1>0, <2>1, <2>2, NoRunSources
  <2>4. \A d \in Callers \ {c} : RunSources(d)'
    BY <1>0, <2>1, SameRunSources
  <2> QED
    BY <2>1, <2>3, <2>4 DEF SourcesInv
<1>5. ASSUME NEW c \in Callers, LoadFeedRow(c) PROVE SourcesInv'
  <2>0. InFlight(c) /\ UNCHANGED <<now, sources>>
    BY <1>5 DEF LoadFeedRow, InFlight, RunStates
  <2>1. CASE feed = {}
    BY <1>2, <1>5, <2>0, <2>1 DEF LoadFeedRow
  <2>2. CASE feed # {}
    <3>1. /\ \A d \in Callers \ {c} : run'[d] = run[d]
          /\ run'[c].snap = run[c].snap /\ run'[c].todo = run[c].todo
          /\ run'[c].clock = run[c].clock
          /\ pc' = [pc EXCEPT ![c] = "sourceRows"] /\ pc'[c] = "sourceRows"
          /\ UNCHANGED feed
      BY <1>5, <2>2 DEF LoadFeedRow, TypeOK, CallersTyped, Run
    <3>2. RunSources(c) /\ run[c].snap = {}
      BY <1>5 DEF LoadFeedRow, SourcesInv, SettingsInv, HasRow, NoRun
    <3>3. RunSources(c)'
      BY <2>0, <3>1, <3>2 DEF RunSources
    <3> QED
      BY <2>0, <3>1, <3>3, SourcesGoesOn DEF SourcesInv
  <2> QED
    BY <2>1, <2>2
<1>6. ASSUME NEW k \in 1..MaxSources, UpdateFeed(k) PROVE SourcesInv'
  <2>1. PICK row \in feed :
          /\ feed' = {[settings |-> row.settings + 1, merged |-> {}]}
          /\ sources' = SourcesOf(row.settings + 1, k)
          /\ UNCHANGED <<now, pc, run>>
    BY <1>6 DEF UpdateFeed
  <2>2. row.settings \in Nat
    BY DEF TypeOK, TablesTyped, FeedRow
  <2>3. \A s \in sources' : s.ics = {} /\ s.gen = row.settings + 1
    BY <2>1 DEF SourcesOf
  <2>4. ASSUME NEW c \in Callers PROVE RunSources(c)'
    <3>1. RunSources(c)
      BY DEF SourcesInv
    <3>2. \A r \in run[c].snap : r.gen \in Nat /\ r.gen <= row.settings
      BY <3>1 DEF RunSources, TypeOK, CallersTyped, Run, SourceRow
    <3>3. \A s \in sources', r \in run[c].snap : ~SameSource(s, r)
      BY <2>2, <2>3, <3>2 DEF SameSource
    <3>4. \A r \in run[c].snap : r.gen <= row.settings + 1
      BY <2>2, <3>2
    <3>5. run[c].todo \subseteq run[c].snap
      BY <3>1 DEF RunSources
    <3> QED
      BY <2>1, <2>3, <3>1, <3>3, <3>4, <3>5 DEF RunSources
  <2> QED
    BY <2>3, <2>4 DEF SourcesInv
<1>7. CASE Tick
  BY <1>0, <1>1, <1>7 DEF Tick
<1>8. CASE DeleteFeed
  BY <1>0, <1>1, <1>8 DEF DeleteFeed
<1>9. CASE Restart
  <2>1. \A c \in Callers : RunSources(c)'
    BY <1>0, <1>9, NoRunSources DEF Restart
  <2> QED
    BY <1>9, <2>1 DEF Restart, SourcesInv
<1>10. CASE UNCHANGED vars
  BY <1>0, <1>1, <1>10 DEF vars
<1> QED
  BY <1>3, <1>4, <1>5, <1>6, <1>7, <1>8, <1>9, <1>10, SourcesLoadRows,
     SourcesReadClock, SourcesFetch, SourcesStore, SourcesStoreDone DEF Next, RunStep

LEMMA SourcesReachable == Spec => [](TypeOK /\ SpacingInv /\ SettingsInv /\ SourcesInv)
BY Typed, SettingsInit, SettingsNext, SpacingInit, SpacingNext, SourcesInit,
   SourcesNext, PTL DEF Spec

(* The body stored for a source that stays in the table gives way only to  *)
(* what the run in flight fetched at its clock (applyFetch, for any 200    *)
(* answer): it is not lost to a failed fetch, to a crash halfway through   *)
(* the loop over the sources, or to an older body of a slower run.         *)
THEOREM StoredBodyKept == Spec => BodiesOnlyAdvance
<1>1. TypeOK /\ SpacingInv /\ SettingsInv /\ SourcesInv /\ [Next]_vars
        => [BodiesAdvance]_vars
  <2> SUFFICES ASSUME TypeOK, SpacingInv, SettingsInv, SourcesInv, Next
               PROVE  BodiesAdvance
    BY DEF vars
  <2>1. ASSUME sources' \subseteq sources PROVE BodiesAdvance
    <3>1. \A s, t \in sources : SameSource(s, t) => s = t
      BY DEF TypeOK, TablesTyped
    <3> QED
      BY <2>1, <3>1 DEF BodiesAdvance
  <2>2. ASSUME NEW c \in Callers, RunStep(c), ~StoreSource(c) PROVE UNCHANGED sources
    BY <2>2 DEF RunStep, LoadFeedRow, LoadSourceRows, ReadClock, ServeFresh,
                FetchLimited, Fetch, StoreDone, PublishNothing, Publish,
                StatementFails
  <2>3. ASSUME NEW c \in Callers, Refresh(c) \/ Leave(c) PROVE UNCHANGED sources
    BY <2>3 DEF Refresh, Leave
  <2>4. ASSUME Tick \/ DeleteFeed \/ Restart PROVE sources' \subseteq sources
    BY <2>4 DEF Tick, DeleteFeed, Restart
  <2>5. ASSUME NEW k \in 1..MaxSources, UpdateFeed(k) PROVE BodiesAdvance
    <3>1. PICK row \in feed : sources' = SourcesOf(row.settings + 1, k)
      BY <2>5 DEF UpdateFeed
    <3>2. row.settings \in Nat
      BY DEF TypeOK, TablesTyped, FeedRow
    <3>3. \A s \in sources, t \in sources' : ~SameSource(s, t)
      BY <3>1, <3>2 DEF SourcesOf, SettingsInv, SameSource
    <3> QED
      BY <3>3 DEF BodiesAdvance
  <2> QED
    BY <2>1, <2>2, <2>3, <2>4, <2>5, SourcesStore DEF Next
<1> QED
  BY <1>1, SourcesReachable, PTL DEF Spec, BodiesOnlyAdvance

(* What a step adds to the answers when a run ends. *)
LEMMA FinishAnswers ==
    ASSUME NEW c \in Callers, NEW kind, NEW body, Finish(c, kind, body)
    PROVE  \A d \in Callers : \A a \in answer'[d] \ answer[d] :
             a.kind = kind /\ a.at = run[c].clock
BY DEF Finish

(* The policy's refusal, read as ages. *)
LEMMA RefusedIsOld ==
    ASSUME NEW cached, NEW n \in Nat, \A body \in cached : body.at \in Nat,
           Decide(cached, n) = "FetchFailOnError"
    PROVE  \A body \in cached : Age(body, n) > MaxStale
BY PolicyAssumption DEF Decide, Age

LEMMA GivesUpStep ==
    ASSUME TypeOK, SpacingInv, SourcesInv, NEW c \in Callers,
           PublishNothing(c), Named(c) = {}, ~ServeCacheOnError(Decision(c))
    PROVE  NothingUsable(run[c].clock)
<1>1. /\ pc[c] = "publish" /\ HasRow(c) /\ run[c].clock \in Nat /\ RunSources(c)
  BY DEF PublishNothing, HasRow, RunStates, TypeOK, CallersTyped, Run, SourcesInv
<1>2. ASSUME NEW row \in feed, NEW merge \in row.merged
      PROVE  Age(merge, run[c].clock) > MaxStale
  <2>1. merge \in OldMerge(c)
    BY <1>1 DEF SpacingInv
  <2>2. \A m \in OldMerge(c) : m.at \in Nat
    BY OldMergeTyped DEF TypeOK, Merge
  <2>3. Decide(OldMerge(c), run[c].clock) = "FetchFailOnError"
    BY DEF ServeCacheOnError, Decision, Decide
  <2> QED
    BY <1>1, <2>1, <2>2, <2>3, RefusedIsOld
<1>3. ASSUME NEW s \in sources, NEW body \in s.ics
      PROVE  Age(body, run[c].clock) > MaxStale
  <2>1. PICK r \in run[c].snap : SameSource(s, r)
    BY <1>1, <1>3 DEF RunSources
  <2>2. s.ics = r.ics
    BY <1>1, <2>1 DEF RunSources
  <2>3. Decide(r.ics, run[c].clock) = "FetchFailOnError"
    BY <1>3, <2>2 DEF Named, usableSourceBody
  <2>4. \A b \in r.ics : b.at \in Nat
    BY <2>2 DEF TypeOK, TablesTyped, SourceRow, Body
  <2> QED
    BY <1>1, <1>3, <2>2, <2>3, <2>4, RefusedIsOld
<1> QED
  BY <1>2, <1>3 DEF NothingUsable

(* A run gives up with ErrNoUsableSources only when the tables, at that    *)
(* moment, hold no body the 24 hours would still allow.                    *)
THEOREM GivesUpSoundly == Spec => GivesUpOnlyWhenExpired
<1>1. TypeOK /\ SpacingInv /\ SettingsInv /\ SourcesInv /\ [Next]_vars
        => [GivesUpExpired]_vars
  <2> SUFFICES ASSUME TypeOK, SpacingInv, SourcesInv, Next
               PROVE  GivesUpExpired
    BY DEF vars
  <2>1. ASSUME NEW c \in Callers, NEW kind, NEW body, Finish(c, kind, body),
               kind # "noSources"
        PROVE  GivesUpExpired
    BY <2>1, FinishAnswers DEF GivesUpExpired
  <2>2. ASSUME \A d \in Callers : answer'[d] \subseteq answer[d]
        PROVE  GivesUpExpired
    BY <2>2 DEF GivesUpExpired
  <2>3. ASSUME NEW c \in Callers, PublishNothing(c) PROVE GivesUpExpired
    <3>1. CASE Named(c) = {} /\ ~ServeCacheOnError(Decision(c))
      <4>1. Finish(c, "noSources", {})
        BY <2>3, <3>1 DEF PublishNothing
      <4> QED
        BY <2>3, <3>1, <4>1, GivesUpStep, FinishAnswers DEF GivesUpExpired
    <3>2. CASE ~(Named(c) = {} /\ ~ServeCacheOnError(Decision(c)))
      BY <2>1, <2>3, <3>2 DEF PublishNothing
    <3> QED
      BY <3>1, <3>2
  <2>4. ASSUME NEW c \in Callers, RunStep(c), ~PublishNothing(c) PROVE GivesUpExpired
    <3>1. LoadFeedRow(c) => UNCHANGED answer \/ Finish(c, "error", {})
      BY DEF LoadFeedRow
    <3>2. LoadSourceRows(c) \/ ReadClock(c) \/ Fetch(c) \/ StoreDone(c) => UNCHANGED answer
      BY DEF LoadSourceRows, ReadClock, Fetch, StoreDone
    <3>3. StoreSource(c) => UNCHANGED answer \/ Finish(c, "error", {})
      BY DEF StoreSource
    <3>4. ServeFresh(c) => \E body : Finish(c, "body", body)
      BY DEF ServeFresh
    <3>5. FetchLimited(c) => Finish(c, "limited", {})
      BY DEF FetchLimited
    <3>6. Publish(c) => (\E body : Finish(c, "body", body)) \/ Finish(c, "error", {})
      BY DEF Publish
    <3>7. StatementFails(c) => Finish(c, "error", {})
      BY DEF StatementFails
    <3> QED
      BY <2>1, <2>2, <2>4, <3>1, <3>2, <3>3, <3>4, <3>5, <3>6, <3>7 DEF RunStep
  <2>5. ASSUME NEW c \in Callers, Refresh(c) \/ Leave(c)
        PROVE  \A d \in Callers : answer'[d] \subseteq answer[d]
    BY <2>5 DEF Refresh, Leave, TypeOK, CallersTyped
  <2>6. ASSUME (\E k \in 1..MaxSources : UpdateFeed(k)) \/ Tick \/ DeleteFeed \/ Restart
        PROVE  \A d \in Callers : answer'[d] \subseteq answer[d]
    BY <2>6 DEF UpdateFeed, Tick, DeleteFeed, Restart
  <2> QED
    BY <2>2, <2>3, <2>4, <2>5, <2>6 DEF Next
<1> QED
  BY <1>1, SourcesReachable, PTL DEF Spec, GivesUpOnlyWhenExpired

-----------------------------------------------------------------------------
(* The size of a run. *)

Small(S) == IsFiniteSet(S) /\ Cardinality(S) <= MaxSources

SmallRun(c) == Small(run[c].snap) /\ Small(run[c].todo)

(* A feed has at most MaxSources rows, and a run makes no more of them.    *)
SizeInv == Small(sources) /\ \A c \in Callers : SmallRun(c)

LEMMA NothingIsSmall == Small({}) /\ Small(NoRun.snap) /\ Small(NoRun.todo)
BY FS_EmptySet, RefreshAssumption DEF Small, NoRun

LEMMA PartIsSmall ==
    ASSUME NEW S, Small(S), NEW T, T \subseteq S PROVE Small(T)
<1>1. IsFiniteSet(T) /\ Cardinality(T) <= Cardinality(S)
  BY FS_Subset DEF Small
<1>2. Cardinality(T) \in Nat /\ Cardinality(S) \in Nat
  BY <1>1, FS_CardinalityType DEF Small
<1> QED BY <1>1, <1>2, RefreshAssumption DEF Small

LEMMA OnePerRow ==
    ASSUME NEW S, Small(S), NEW T, NEW f \in Surjection(S, T) PROVE Small(T)
<1>1. IsFiniteSet(T) /\ Cardinality(T) <= Cardinality(S)
  BY FS_Surjection DEF Small
<1>2. Cardinality(T) \in Nat /\ Cardinality(S) \in Nat
  BY <1>1, FS_CardinalityType DEF Small
<1> QED BY <1>1, <1>2, RefreshAssumption DEF Small

LEMMA SourcesOfSmall == ASSUME NEW n, NEW k \in 1..MaxSources PROVE Small(SourcesOf(n, k))
<1> DEFINE f == [i \in 1..k |-> [gen |-> n, pos |-> i, ics |-> {}]]
<1>1. f \in Surjection(1..k, SourcesOf(n, k))
  BY DEF Surjection, SourcesOf
<1>2. Small(1..k)
  BY FS_Interval, RefreshAssumption DEF Small
<1> HIDE DEF f
<1> QED BY <1>1, <1>2, OnePerRow

LEMMA FetchedSmall == ASSUME NEW c, Small(run[c].snap), NEW origin PROVE Small(Fetched(c, origin))
<1> DEFINE f == [row \in run[c].snap |-> applyFetch(row, origin[row], run[c].clock)]
<1>1. f \in Surjection(run[c].snap, Fetched(c, origin))
  BY DEF Surjection, Fetched
<1> HIDE DEF f
<1> QED BY <1>1, OnePerRow

LEMMA UpdatedSmall == ASSUME NEW row, Small(sources), UpdateSourceFetch(row) PROVE Small(sources')
<1> DEFINE f == [s \in sources |->
                   IF SameSource(s, row) THEN [s EXCEPT !.ics = row.ics] ELSE s]
<1>1. f \in Surjection(sources, sources')
  BY DEF Surjection, UpdateSourceFetch
<1> HIDE DEF f
<1> QED BY <1>1, OnePerRow

LEMMA SizeInit == Init => SizeInv
<1> SUFFICES ASSUME Init PROVE SizeInv
  OBVIOUS
<1>1. PICK k \in 1..MaxSources : sources = SourcesOf(0, k)
  BY DEF Init
<1> QED BY <1>1, SourcesOfSmall, NothingIsSmall DEF Init, SizeInv, SmallRun

\* Runs that end or stay as they are.
LEMMA RunsStaySmall ==
    ASSUME SizeInv, NEW c \in Callers,
           \A d \in Callers \ {c} : run'[d] = run[d] \/ run'[d] = NoRun,
           Small(sources'), SmallRun(c)'
    PROVE  SizeInv'
BY NothingIsSmall DEF SizeInv, SmallRun

LEMMA SizeFinish ==
    ASSUME TypeOK, SizeInv, NEW c \in Callers, InFlight(c), NEW kind, NEW body,
           Finish(c, kind, body), Small(sources')
    PROVE  SizeInv'
BY FinishRuns, RunsStaySmall, NothingIsSmall DEF SmallRun

LEMMA SizeNext == TypeOK /\ SizeInv /\ [Next]_vars => SizeInv'
<1> SUFFICES ASSUME TypeOK, SizeInv, [Next]_vars PROVE SizeInv'
  OBVIOUS
<1>0. Small(sources) /\ \A c \in Callers : Small(run[c].snap) /\ Small(run[c].todo)
  BY DEF SizeInv, SmallRun
<1>1. ASSUME UNCHANGED run, Small(sources') PROVE SizeInv'
  BY <1>0, <1>1 DEF SizeInv, SmallRun
<1>2. ASSUME NEW c \in Callers, LoadFeedRow(c) PROVE SizeInv'
  <2>1. InFlight(c) /\ UNCHANGED sources
    BY <1>2 DEF LoadFeedRow, InFlight, RunStates
  <2>2. CASE feed = {}
    BY <1>0, <1>2, <2>1, <2>2, SizeFinish DEF LoadFeedRow
  <2>3. CASE feed # {}
    <3>1. /\ \A d \in Callers \ {c} : run'[d] = run[d]
          /\ run'[c].snap = run[c].snap /\ run'[c].todo = run[c].todo
      BY <1>2, <2>3 DEF LoadFeedRow, TypeOK, CallersTyped, Run
    <3> QED BY <1>0, <2>1, <3>1, RunsStaySmall DEF SmallRun
  <2> QED BY <2>2, <2>3
<1>3. ASSUME NEW c \in Callers, LoadSourceRows(c) PROVE SizeInv'
  <2>1. /\ \A d \in Callers \ {c} : run'[d] = run[d]
        /\ run'[c].snap = sources /\ run'[c].todo = run[c].todo /\ UNCHANGED sources
    BY <1>3 DEF LoadSourceRows, TypeOK, CallersTyped, Run
  <2> QED BY <1>0, <2>1, RunsStaySmall DEF SmallRun
<1>4. ASSUME NEW c \in Callers, ReadClock(c) PROVE SizeInv'
  <2>1. /\ \A d \in Callers \ {c} : run'[d] = run[d]
        /\ run'[c].snap = run[c].snap /\ run'[c].todo = run[c].todo /\ UNCHANGED sources
    BY <1>4 DEF ReadClock, TypeOK, CallersTyped, Run
  <2> QED BY <1>0, <2>1, RunsStaySmall DEF SmallRun
<1>5. ASSUME NEW c \in Callers, Fetch(c) PROVE SizeInv'
  <2>1. PICK origin :
          run' = [run EXCEPT ![c].snap = Fetched(c, origin),
                             ![c].todo = Fetched(c, origin)]
    BY <1>5 DEF Fetch
  <2>2. /\ \A d \in Callers \ {c} : run'[d] = run[d]
        /\ run'[c].snap = Fetched(c, origin) /\ run'[c].todo = Fetched(c, origin)
        /\ UNCHANGED sources
    BY <1>5, <2>1 DEF Fetch, TypeOK, CallersTyped, Run
  <2> QED BY <1>0, <2>2, FetchedSmall, RunsStaySmall DEF SmallRun
<1>6. ASSUME NEW c \in Callers, StoreSource(c) PROVE SizeInv'
  <2>1. PICK row \in run[c].todo :
          /\ UpdateSourceFetch(row)
          /\ \/ run' = [run EXCEPT ![c].todo = @ \ {row}]
             \/ Finish(c, "error", {})
    BY <1>6 DEF StoreSource
  <2>2. Small(sources')
    BY <1>0, <2>1, UpdatedSmall
  <2>3. CASE run' = [run EXCEPT ![c].todo = @ \ {row}]
    <3>1. /\ \A d \in Callers \ {c} : run'[d] = run[d]
          /\ run'[c].snap = run[c].snap /\ run'[c].todo \subseteq run[c].todo
      BY <2>3 DEF TypeOK, CallersTyped, Run
    <3>2. Small(run'[c].todo)
      BY <1>0, <3>1, PartIsSmall
    <3> QED BY <1>0, <2>2, <3>1, <3>2, RunsStaySmall DEF SmallRun
  <2>4. CASE Finish(c, "error", {})
    BY <1>6, <2>2, <2>4, SizeFinish DEF StoreSource, InFlight, RunStates
  <2> QED BY <2>1, <2>3, <2>4
<1>7. ASSUME NEW c \in Callers,
             ServeFresh(c) \/ FetchLimited(c) \/ PublishNothing(c) \/ Publish(c)
               \/ StatementFails(c)
      PROVE  SizeInv'
  <2>1. InFlight(c) /\ UNCHANGED sources /\ \E kind, body : Finish(c, kind, body)
    BY <1>7 DEF ServeFresh, FetchLimited, PublishNothing, Publish, StatementFails,
                InFlight, RunStates
  <2> QED BY <1>0, <2>1, SizeFinish
<1>8. ASSUME NEW k \in 1..MaxSources, UpdateFeed(k) PROVE SizeInv'
  BY <1>1, <1>8, SourcesOfSmall DEF UpdateFeed
<1>9. CASE DeleteFeed
  BY <1>1, <1>9, NothingIsSmall DEF DeleteFeed
<1>10. CASE Restart
  BY <1>0, <1>10, NothingIsSmall DEF Restart, SizeInv, SmallRun
<1>11. ASSUME NEW c \in Callers, Refresh(c) \/ Leave(c) \/ StoreDone(c) PROVE SizeInv'
  BY <1>0, <1>1, <1>11 DEF Refresh, Leave, StoreDone
<1>12. CASE Tick \/ UNCHANGED vars
  BY <1>0, <1>1, <1>12 DEF Tick, vars
<1> QED
  BY <1>2, <1>3, <1>4, <1>5, <1>6, <1>7, <1>8, <1>9, <1>10, <1>11, <1>12 DEF Next, RunStep

(* A run asks GetAll for no more URLs than its cap lets through, so that   *)
(* no source of a feed is ever refused as one too many (fetch.MaxSources). *)
WithinTheCap == \A c \in Callers : Cardinality(run[c].snap) <= MaxSources

THEOREM NoSourceTooMany == Spec => []WithinTheCap
<1>1. SizeInv => WithinTheCap
  BY DEF SizeInv, SmallRun, Small, WithinTheCap
<1> QED BY <1>1, SizeInit, SizeNext, Typed, PTL DEF Spec

-----------------------------------------------------------------------------
(* What GetAll may return to a run, and what the run takes for its answer. *)

GetAll == INSTANCE FetchResults

\* The results a run makes of the answers of its origins, the i-th of the
\* URLs being that of the i-th row.
Told(c, rows, origin, out) ==
    \A i \in 1..Cardinality(run[c].snap) :
        out[i] = IF origin[rows[i]] = "failure" THEN "failed" ELSE "body"

(* The single step Fetch stands for GetAll: in whatever order a run asks   *)
(* for its sources, each answer it may take is one of GetAll, and each of  *)
(* GetAll's is one it may take, or is the refusal of FetchLimited.         *)
FetchIsGetAll ==
    \A c \in Callers :
        LET n == Cardinality(run[c].snap)
            Origins == [run[c].snap -> OriginAnswers]
        IN  \A rows \in Bijection(1..n, run[c].snap) :
              /\ \A origin \in Origins :
                   \E out \in GetAll!Results(n) : Told(c, rows, origin, out)
              /\ \A out \in GetAll!Results(n) :
                   \/ \E origin \in Origins : Told(c, rows, origin, out)
                   \/ run[c].snap # {} /\ \A i \in 1..n : out[i] = "limited"

LEMMA TakesWhatItGets ==
    ASSUME NEW n \in Nat, n <= MaxSources, NEW S, NEW rows \in Bijection(1..n, S),
           NEW A, {"calendar", "failure"} \subseteq A
    PROVE  /\ \A origin \in [S -> A] : \E out \in GetAll!Results(n) : \A i \in 1..n :
                out[i] = IF origin[rows[i]] = "failure" THEN "failed" ELSE "body"
           /\ \A out \in GetAll!Results(n) :
                \/ \E origin \in [S -> A] : \A i \in 1..n :
                     out[i] = IF origin[rows[i]] = "failure" THEN "failed" ELSE "body"
                \/ S # {} /\ \A i \in 1..n : out[i] = "limited"
<1>0. MaxSources \in Nat /\ \A i \in 1..n : ~(i > MaxSources) /\ i <= MaxSources
  BY RefreshAssumption
<1>1. /\ \A i \in 1..n : rows[i] \in S
      /\ \A row \in S : \E i \in 1..n : rows[i] = row
      /\ \A i, j \in 1..n : rows[i] = rows[j] => i = j
  BY DEF Bijection, Injection, Surjection, IsInjective
<1>2. ASSUME NEW origin \in [S -> A]
      PROVE  \E out \in GetAll!Results(n) : \A i \in 1..n :
                out[i] = IF origin[rows[i]] = "failure" THEN "failed" ELSE "body"
  <2> DEFINE out == [i \in 1..n |->
                       IF origin[rows[i]] = "failure" THEN "failed" ELSE "body"]
  <2>1. out \in [1..n -> {"body", "failed", "limited", "capped"}]
    OBVIOUS
  <2>2. \A i \in 1..n : out[i] # "capped" /\ out[i] # "limited"
    OBVIOUS
  <2>3. \A i \in 1..n :
          out[i] = IF origin[rows[i]] = "failure" THEN "failed" ELSE "body"
    OBVIOUS
  <2> HIDE DEF out
  <2>4. out \in GetAll!Results(n)
    BY <1>0, <2>1, <2>2 DEF GetAll!Results
  <2> QED BY <2>3, <2>4
<1>3. ASSUME NEW out \in GetAll!Results(n), ~(S # {} /\ \A i \in 1..n : out[i] = "limited")
      PROVE  \E origin \in [S -> A] : \A i \in 1..n :
                out[i] = IF origin[rows[i]] = "failure" THEN "failed" ELSE "body"
  <2>1. /\ \A i \in 1..n : out[i] \in {"body", "failed", "limited", "capped"}
        /\ \A i \in 1..n : out[i] # "capped"
        /\ \A i, j \in 1..n : out[i] = "limited" => out[j] = "limited"
    BY <1>0 DEF GetAll!Results
  <2>2. \A i \in 1..n : out[i] \in {"body", "failed"}
    BY <1>1, <1>3, <2>1
  <2> DEFINE index(row) == CHOOSE i \in 1..n : rows[i] = row
             origin == [row \in S |->
                          IF out[index(row)] = "failed" THEN "failure" ELSE "calendar"]
  <2>3. \A i \in 1..n : index(rows[i]) = i
    BY <1>1
  <2>4. origin \in [S -> A]
    OBVIOUS
  <2>5. \A i \in 1..n :
          origin[rows[i]] = IF out[i] = "failed" THEN "failure" ELSE "calendar"
    BY <1>1, <2>3
  <2> HIDE DEF origin
  <2>6. \A i \in 1..n :
          out[i] = IF origin[rows[i]] = "failure" THEN "failed" ELSE "body"
    BY <2>2, <2>5
  <2> QED BY <2>4, <2>6
<1> QED BY <1>2, <1>3

(* When any origin may answer or fail, what is proved of FeedRefresh is    *)
(* about what fetch.GetAll does, and not about answers it never gives: its *)
(* results are one for each row, for a run has no row beyond the cap.      *)
THEOREM RunsFetchWithGetAll ==
    ASSUME {"calendar", "failure"} \subseteq OriginAnswers
    PROVE  Spec => []FetchIsGetAll
<1>1. SizeInv => FetchIsGetAll
  <2> SUFFICES ASSUME SizeInv, NEW c \in Callers PROVE
          LET n == Cardinality(run[c].snap)
              Origins == [run[c].snap -> OriginAnswers]
          IN  \A rows \in Bijection(1..n, run[c].snap) :
                /\ \A origin \in Origins :
                     \E out \in GetAll!Results(n) : Told(c, rows, origin, out)
                /\ \A out \in GetAll!Results(n) :
                     \/ \E origin \in Origins : Told(c, rows, origin, out)
                     \/ run[c].snap # {} /\ \A i \in 1..n : out[i] = "limited"
    BY DEF FetchIsGetAll
  <2>1. Cardinality(run[c].snap) \in Nat /\ Cardinality(run[c].snap) <= MaxSources
    BY FS_CardinalityType DEF SizeInv, SmallRun, Small
  <2> QED BY <2>1, TakesWhatItGets DEF Told
<1> QED BY <1>1, SizeInit, SizeNext, Typed, PTL DEF Spec

-----------------------------------------------------------------------------
(* What is safe about CallersAnswered: with weak fairness it follows from  *)
(* a waiter having a run to wait for, and every run coming to its end.     *)

(* Whoever waits, waits for a run in flight (singleflight, Refresh).       *)
WaitersAreLed ==
    \A c \in Callers : pc[c] = "waiting" => \E d \in Callers : InFlight(d)

LEMMA LedNext == TypeOK /\ WaitersAreLed /\ [Next]_vars => WaitersAreLed'
<1> SUFFICES ASSUME TypeOK, WaitersAreLed, [Next]_vars PROVE WaitersAreLed'
  OBVIOUS
<1>0. pc \in [Callers -> RunStates \union {"idle", "waiting", "done"}]
  BY DEF TypeOK, CallersTyped
<1>1. ASSUME UNCHANGED pc PROVE WaitersAreLed'
  BY <1>1 DEF WaitersAreLed, InFlight
<1>2. ASSUME NEW c \in Callers, NEW kind, NEW body, Finish(c, kind, body)
      PROVE  WaitersAreLed'
  BY <1>0, <1>2 DEF Finish, WaitersAreLed
<1>3. ASSUME NEW c \in Callers, NEW state \in RunStates, pc' = [pc EXCEPT ![c] = state]
      PROVE  WaitersAreLed'
  <2>1. InFlight(c)'
    BY <1>0, <1>3 DEF InFlight
  <2> QED BY <2>1 DEF WaitersAreLed
<1>4. ASSUME NEW c \in Callers, Refresh(c) PROVE WaitersAreLed'
  <2>1. CASE \E d \in Callers : InFlight(d)
    <3>1. PICK d \in Callers : InFlight(d)
      BY <2>1
    <3>2. InFlight(d)'
      BY <1>0, <1>4, <3>1 DEF Refresh, InFlight, RunStates
    <3> QED BY <3>2 DEF WaitersAreLed
  <2>2. CASE ~ \E d \in Callers : InFlight(d)
    BY <1>3, <1>4, <2>2 DEF Refresh, RunStates
  <2> QED BY <2>1, <2>2
<1>5. ASSUME NEW c \in Callers, Leave(c) PROVE WaitersAreLed'
  <2>1. \A d \in Callers : InFlight(d) => InFlight(d)'
    BY <1>0, <1>5 DEF Leave, InFlight, RunStates
  <2>2. \A d \in Callers : pc'[d] = "waiting" => pc[d] = "waiting"
    BY <1>0, <1>5 DEF Leave
  <2> QED BY <2>1, <2>2 DEF WaitersAreLed
<1>6. ASSUME NEW c \in Callers, RunStep(c) PROVE WaitersAreLed'
  <2>1. \/ \E kind, body : Finish(c, kind, body)
        \/ \E state \in RunStates : pc' = [pc EXCEPT ![c] = state]
        \/ UNCHANGED pc
    BY <1>6 DEF RunStep, LoadFeedRow, LoadSourceRows, ReadClock, ServeFresh, FetchLimited,
                Fetch, StoreSource, StoreDone, PublishNothing, Publish, StatementFails,
                RunStates
  <2> QED BY <1>1, <1>2, <1>3, <2>1
<1>7. CASE Restart
  BY <1>7 DEF Restart, WaitersAreLed
<1>8. ASSUME NEW k \in 1..MaxSources, UpdateFeed(k) PROVE WaitersAreLed'
  BY <1>1, <1>8 DEF UpdateFeed
<1>9. CASE Tick \/ DeleteFeed \/ UNCHANGED vars
  BY <1>1, <1>9 DEF Tick, DeleteFeed, vars
<1> QED BY <1>4, <1>5, <1>6, <1>7, <1>8, <1>9 DEF Next

\* No caller is left waiting for a run that has ended.
THEOREM NobodyWaitsAlone == Spec => []WaitersAreLed
<1>1. Init => WaitersAreLed
  BY DEF Init, WaitersAreLed
<1> QED BY <1>1, LedNext, Typed, PTL DEF Spec

(* How many steps a run has before it at most, but for the statements of   *)
(* its loop.                                                               *)
Ahead(state) ==
    CASE state = "feedRow" -> 5 [] state = "sourceRows" -> 4 [] state = "decide" -> 3
      [] state = "fetch" -> 2 [] state = "store" -> 1 [] OTHER -> 0

(* A step of a run ends it, for all who wait for it, or brings it nearer   *)
(* to its end: to a later place, or to fewer rows to write.                *)
ComesNearer(c) ==
    \/ \A d \in Callers : ~InFlight(d)' /\ pc'[d] # "waiting"
    \/ pc'[c] \in RunStates /\ Ahead(pc'[c]) < Ahead(pc[c])
    \/ /\ pc'[c] = pc[c]
       /\ Cardinality(run'[c].todo) < Cardinality(run[c].todo)

RunsAdvance == [][\A c \in Callers : RunStep(c) => ComesNearer(c)]_vars

LEMMA Nearer ==
    ASSUME TypeOK, SpacingInv, SizeInv, NEW c \in Callers, RunStep(c) PROVE ComesNearer(c)
<1>0. /\ pc \in [Callers -> RunStates \union {"idle", "waiting", "done"}]
      /\ run \in [Callers -> Run]
  BY DEF TypeOK, CallersTyped
<1>1. InFlight(c)
  BY DEF RunStep, LoadFeedRow, LoadSourceRows, ReadClock, ServeFresh, FetchLimited,
         Fetch, StoreSource, StoreDone, PublishNothing, Publish, StatementFails,
         InFlight, RunStates
<1>2. ASSUME NEW kind, NEW body, Finish(c, kind, body) PROVE ComesNearer(c)
  <2>1. \A d \in Callers \ {c} : ~InFlight(d)
    BY <1>1 DEF SpacingInv
  <2>2. \A d \in Callers : ~InFlight(d)'
    BY <1>1, <1>2, <2>1, FinishRuns DEF InFlight
  <2>3. \A d \in Callers : pc'[d] # "waiting"
    BY <1>0, <1>2 DEF Finish
  <2> QED BY <2>2, <2>3 DEF ComesNearer
<1>3. ASSUME NEW state \in RunStates, pc' = [pc EXCEPT ![c] = state],
             Ahead(state) < Ahead(pc[c])
      PROVE  ComesNearer(c)
  BY <1>0, <1>3 DEF ComesNearer
<1>4. LoadFeedRow(c) => ComesNearer(c)
  BY <1>2, <1>3 DEF LoadFeedRow, RunStates, Ahead
<1>5. LoadSourceRows(c) \/ ReadClock(c) \/ Fetch(c) \/ StoreDone(c) => ComesNearer(c)
  BY <1>3 DEF LoadSourceRows, ReadClock, Fetch, StoreDone, RunStates, Ahead
<1>6. ServeFresh(c) \/ FetchLimited(c) \/ PublishNothing(c) \/ Publish(c)
        \/ StatementFails(c) => ComesNearer(c)
  BY <1>2 DEF ServeFresh, FetchLimited, PublishNothing, Publish, StatementFails
<1>7. ASSUME StoreSource(c) PROVE ComesNearer(c)
  <2>1. PICK row \in run[c].todo :
          \/ run' = [run EXCEPT ![c].todo = @ \ {row}] /\ UNCHANGED pc
          \/ Finish(c, "error", {})
    BY <1>7 DEF StoreSource
  <2>2. CASE run' = [run EXCEPT ![c].todo = @ \ {row}] /\ UNCHANGED pc
    <3>1. run'[c].todo = run[c].todo \ {row}
      BY <1>0, <2>2 DEF Run
    <3>2. IsFiniteSet(run[c].todo)
      BY DEF SizeInv, SmallRun, Small
    <3>3. Cardinality(run'[c].todo) = Cardinality(run[c].todo) - 1
      BY <2>1, <3>1, <3>2, FS_RemoveElement
    <3>4. Cardinality(run[c].todo) \in Nat
      BY <3>2, FS_CardinalityType
    <3> QED BY <2>2, <3>3, <3>4 DEF ComesNearer
  <2> QED BY <1>2, <2>1, <2>2
<1> QED BY <1>4, <1>5, <1>6, <1>7 DEF RunStep

(* A run ends after finitely many steps, whatever the origins, the tables  *)
(* and other callers do meanwhile: no step of it leads back.               *)
THEOREM RunsComeToAnEnd == Spec => RunsAdvance
<1>1. TypeOK /\ SpacingInv /\ SizeInv /\ [Next]_vars
        => [\A c \in Callers : RunStep(c) => ComesNearer(c)]_vars
  BY Nearer
<1> QED
  BY <1>1, Typed, SpacingInit, SpacingNext, SizeInit, SizeNext, PTL DEF Spec, RunsAdvance
=============================================================================
