----------------------- MODULE StoreTransactionsProofs -----------------------
(***************************************************************************)
(* Theorems about StoreTransactions, for any number of savers, deleters,   *)
(* callers and sources.                                                    *)
(*                                                                         *)
(* Both orders begin with the feed row, so whoever has it is the only      *)
(* transaction that has done anything.  It alone changes the source ids    *)
(* from then on, and what it saw of them is all there is when it commits.  *)
(* The refresh writes source rows but no ids, and waits for the feed row.  *)
(***************************************************************************)
EXTENDS StoreTransactions, FeedRefreshProofs

-----------------------------------------------------------------------------
(* The inductive invariant. *)

SourceIds == Nat \X Nat
Tx == [done : 0..2, settings : Nat, seen : SUBSET SUBSET SourceIds,
       gone : SUBSET SourceIds]

TxTyped == tx \in [Actors -> Tx]

\* Who has not come past its first row has done nothing.
FeedFirst == \A a \in Actors : tx[a].done = 0 => tx[a] = NoTx

\* One transaction at a time has the feed row.
OneHolder ==
    \A a, b \in Actors : tx[a].done > 0 /\ tx[b].done > 0 => a = b

\* Its row stays, under the settings it found.
HoldsFeed(a) ==
    tx[a].done > 0 => \E row \in feed : /\ tx[a].settings = row.settings + 1
                                        /\ a \in Savers => row.settings < MaxSaves

\* It saw, and deletes, all source rows there are.
SawAll(a) == tx[a].done = 1 => \A ids \in tx[a].seen : ids = Ids(sources)
GoneAll(a) == tx[a].done = 2 => tx[a].gone = Ids(sources)

Holder(a) == HoldsFeed(a) /\ SawAll(a) /\ GoneAll(a)

TxInv ==
    /\ TypeOK /\ TxTyped /\ FeedFirst /\ OneHolder
    /\ \A a \in Actors : Holder(a)

-----------------------------------------------------------------------------
(* Locks. *)

LEMMA OrderIs == \A a \in Actors : Order(a) = <<"feed", "sources">>
BY DEF Order, SaveOrder, DeleteOrder

LEMMA Coming ==
    ASSUME TxTyped, NEW a \in Actors
    PROVE  /\ ComesTo(a, "feed") <=> tx[a].done = 0
           /\ ComesTo(a, "sources") <=> tx[a].done = 1
           /\ Wrote(a, "feed") <=> tx[a].done > 0
<1>1. tx[a].done \in 0..2
  BY DEF TxTyped, Tx
<1>2. Order(a)[1] = "feed" /\ Order(a)[2] = "sources"
  BY OrderIs
<1>3. ComesTo(a, "feed") <=> tx[a].done = 0
  BY <1>1, <1>2 DEF ComesTo
<1>4. ComesTo(a, "sources") <=> tx[a].done = 1
  BY <1>1, <1>2 DEF ComesTo
<1>5. Wrote(a, "feed") <=> tx[a].done > 0
  BY <1>1, <1>2 DEF Wrote
<1> QED
  BY <1>3, <1>4, <1>5

LEMMA Unlocked ==
    ASSUME TxTyped, ~FeedLocked
    PROVE  \A a \in Actors : tx[a].done = 0
<1> SUFFICES ASSUME NEW a \in Actors PROVE tx[a].done = 0
  OBVIOUS
<1>1. tx[a].done \in 0..2
  BY DEF TxTyped, Tx
<1>2. ~Wrote(a, "feed")
  BY DEF FeedLocked
<1> QED
  BY <1>1, <1>2, Coming

LEMMA NoTxTyped == NoTx \in Tx
BY DEF NoTx, Tx

(* A step that ends the holder leaves nobody with a row. *)
LEMMA HolderEnds ==
    ASSUME TxInv, NEW a \in Actors, tx[a].done > 0,
           tx' = [tx EXCEPT ![a] = NoTx]
    PROVE  TxTyped' /\ \A b \in Actors : tx'[b] = NoTx
<1>1. TxTyped'
  BY NoTxTyped DEF TxInv, TxTyped
<1>2. ASSUME NEW b \in Actors PROVE tx'[b] = NoTx
  <2>1. CASE b = a
    BY <2>1 DEF TxInv, TxTyped
  <2>2. CASE b # a
    <3>1. tx[b].done \in 0..2 /\ ~(tx[b].done > 0)
      BY <2>2 DEF TxInv, TxTyped, Tx, OneHolder
    <3> QED
      BY <2>2, <3>1 DEF TxInv, TxTyped, FeedFirst
  <2> QED
    BY <2>1, <2>2
<1> QED
  BY <1>1, <1>2

LEMMA NobodyHolds ==
    ASSUME TxTyped', \A b \in Actors : tx'[b] = NoTx
    PROVE  FeedFirst' /\ OneHolder' /\ \A b \in Actors : Holder(b)'
BY DEF FeedFirst, OneHolder, Holder, HoldsFeed, SawAll, GoneAll, NoTx

-----------------------------------------------------------------------------
(* Steps of the refresh and of the clock: no id changes, and the feed row  *)
(* only while no transaction has it.                                       *)

LEMMA UpdateKeepsIdSet ==
    ASSUME TypeOK, NEW row, UpdateSourceFetch(row)
    PROVE  Ids(sources)' = Ids(sources)
<1> DEFINE written(s) == IF SameSource(s, row) THEN [s EXCEPT !.ics = row.ics] ELSE s
<1>1. \A s \in sources : Id(written(s)) = Id(s)
  <2>1. ASSUME NEW s \in sources PROVE Id(written(s)) = Id(s)
    <3>1. s \in SourceRow
      BY DEF TypeOK, TablesTyped
    <3> QED
      BY <3>1 DEF Id, SourceRow
  <2> QED
    BY <2>1
<1>2. sources' = {written(s) : s \in sources}
  BY DEF UpdateSourceFetch
<1>3. Ids(sources') = {Id(s) : s \in sources'}
  BY DEF Ids
<1> HIDE DEF written
<1>4. Ids(sources') = {Id(s) : s \in sources}
  BY <1>1, <1>2, <1>3
<1> QED
  BY <1>4 DEF Ids

LEMMA HolderKept ==
    ASSUME TxInv, UNCHANGED <<tx, feed>>, Ids(sources)' = Ids(sources)
    PROVE  TxTyped' /\ FeedFirst' /\ OneHolder' /\ \A a \in Actors : Holder(a)'
<1>1. TxTyped' /\ FeedFirst' /\ OneHolder'
  BY DEF TxInv, TxTyped, FeedFirst, OneHolder
<1>2. ASSUME NEW a \in Actors PROVE Holder(a)'
  BY DEF TxInv, Holder, HoldsFeed, SawAll, GoneAll
<1> QED
  BY <1>1, <1>2

LEMMA RunKeepsTx ==
    ASSUME TxInv, NEW c \in Callers,
           Refresh(c) \/ RunStepTx(c) \/ Leave(c), UNCHANGED tx
    PROVE  /\ [Next]_vars
           /\ TxTyped' /\ FeedFirst' /\ OneHolder' /\ \A a \in Actors : Holder(a)'
<1> USE DEF TxInv
<1>1. CASE StoreSourceTx(c)
  <2>1. RunStep(c)
    BY <1>1 DEF StoreSourceTx, RunStep
  <2>2. PICK row \in run[c].todo : UpdateSourceFetch(row)
    BY <1>1 DEF StoreSourceTx, StoreSource
  <2>3. Ids(sources)' = Ids(sources)
    BY <2>2, UpdateKeepsIdSet
  <2>4. UNCHANGED feed
    BY <1>1 DEF StoreSourceTx, StoreSource
  <2> QED
    BY <2>1, <2>3, <2>4, HolderKept DEF Next
<1>2. CASE PublishTx(c)
  <2>1. RunStep(c)
    BY <1>2 DEF PublishTx, RunStep
  <2>2. \A a \in Actors : tx[a].done = 0
    BY <1>2, Unlocked DEF PublishTx
  <2>3. TxTyped' /\ FeedFirst' /\ OneHolder'
    BY DEF TxTyped, FeedFirst, OneHolder
  <2>4. \A a \in Actors : Holder(a)'
    BY <2>2 DEF Holder, HoldsFeed, SawAll, GoneAll
  <2> QED
    BY <2>1, <2>3, <2>4 DEF Next
<1>3. CASE ~StoreSourceTx(c) /\ ~PublishTx(c)
  <2>1. Refresh(c) \/ RunStep(c) \/ Leave(c)
    BY <1>3 DEF RunStepTx, RunStep
  <2>2. UNCHANGED <<feed, sources>>
    BY <1>3 DEF RunStepTx, Refresh, Leave, LoadFeedRow, LoadSourceRows, ReadClock,
                ServeFresh, FetchLimited, Fetch, StoreDone, PublishNothing,
                StatementFails
  <2>3. Ids(sources)' = Ids(sources)
    BY <2>2
  <2> QED
    BY <2>1, <2>2, <2>3, HolderKept DEF Next
<1> QED
  BY <1>1, <1>2, <1>3

-----------------------------------------------------------------------------
(* Steps of the transactions. *)

LEMMA WriteFeedKeepsTx ==
    ASSUME TxInv, NEW a \in Actors, WriteFeed(a)
    PROVE  TxTyped' /\ FeedFirst' /\ OneHolder' /\ \A b \in Actors : Holder(b)'
<1> USE DEF TxInv
<1>1. \A b \in Actors : tx[b].done = 0 /\ tx[b] = NoTx
  BY Unlocked DEF WriteFeed, FeedFirst
<1>2. PICK row \in feed :
        /\ a \in Savers => row.settings < MaxSaves
        /\ tx' = [tx EXCEPT ![a].done = @ + 1, ![a].settings = row.settings + 1]
  BY DEF WriteFeed
<1>3. row.settings \in Nat
  BY DEF TypeOK, TablesTyped, FeedRow
<1> DEFINE through == [tx[a] EXCEPT !.done = 1]
<1>4. through \in Tx /\ through.done = 1 /\ through.seen = {}
  BY <1>1, NoTxTyped DEF Tx, NoTx
<1> HIDE DEF through
<1> DEFINE started == [through EXCEPT !.settings = row.settings + 1]
<1>5. /\ started \in Tx /\ started.done = 1 /\ started.seen = {}
      /\ started.settings = row.settings + 1
  BY <1>3, <1>4 DEF Tx
<1>6. tx' = [tx EXCEPT ![a] = started] /\ UNCHANGED <<feed, sources>>
  <2>1. tx[a].done + 1 = 1
    BY <1>1
  <2> QED
    BY <1>2, <2>1 DEF TxTyped, WriteFeed, vars, through
<1> HIDE DEF started
<1>7. TxTyped' /\ tx'[a] = started /\ \A b \in Actors : b # a => tx'[b] = NoTx
  BY <1>1, <1>5, <1>6 DEF TxTyped
<1>8. FeedFirst' /\ OneHolder'
  BY <1>5, <1>7 DEF FeedFirst, OneHolder, NoTx
<1>9. Holder(a)'
  <2>1. HoldsFeed(a)'
    BY <1>2, <1>5, <1>6, <1>7 DEF HoldsFeed
  <2>2. SawAll(a)' /\ GoneAll(a)'
    BY <1>5, <1>7 DEF SawAll, GoneAll
  <2> QED
    BY <2>1, <2>2 DEF Holder
<1>10. ASSUME NEW b \in Actors, b # a PROVE Holder(b)'
  BY <1>7, <1>10 DEF Holder, HoldsFeed, SawAll, GoneAll, NoTx
<1> QED
  BY <1>7, <1>8, <1>9, <1>10

LEMMA IdsTyped == TypeOK => Ids(sources) \in SUBSET SourceIds
BY DEF TypeOK, TablesTyped, SourceRow, Ids, Id, SourceIds

(* What one statement of the holder leaves alone. *)
LEMMA HolderGoesOn ==
    ASSUME TxInv, NEW a \in Actors, tx[a].done > 0, NEW next \in Tx,
           tx' = [tx EXCEPT ![a] = next], next.done > 0,
           next.settings = tx[a].settings,
           next.done = 1 => \A ids \in next.seen : ids = Ids(sources),
           next.done = 2 => next.gone = Ids(sources),
           UNCHANGED <<feed, sources>>
    PROVE  TxTyped' /\ FeedFirst' /\ OneHolder' /\ \A b \in Actors : Holder(b)'
<1> USE DEF TxInv
<1>1. TxTyped' /\ tx'[a] = next /\ \A b \in Actors : b # a => tx'[b] = tx[b]
  BY DEF TxTyped
<1>2. FeedFirst' /\ OneHolder'
  BY <1>1 DEF FeedFirst, OneHolder
<1>3. ASSUME NEW b \in Actors PROVE Holder(b)'
  <2>1. CASE b = a
    BY <1>1, <2>1 DEF Holder, HoldsFeed, SawAll, GoneAll
  <2>2. CASE b # a
    BY <1>1, <2>2 DEF Holder, HoldsFeed, SawAll, GoneAll
  <2> QED
    BY <2>1, <2>2
<1> QED
  BY <1>1, <1>2, <1>3

LEMMA SeeSourcesKeepsTx ==
    ASSUME TxInv, NEW a \in Actors, SeeSources(a)
    PROVE  TxTyped' /\ FeedFirst' /\ OneHolder' /\ \A b \in Actors : Holder(b)'
<1> USE DEF TxInv
<1>1. tx[a].done = 1 /\ tx[a] \in Tx
  BY Coming DEF SeeSources, TxTyped
<1> DEFINE next == [tx[a] EXCEPT !.seen = {Ids(sources)}]
<1>2. next \in Tx /\ next.done = 1 /\ next.settings = tx[a].settings
      /\ next.seen = {Ids(sources)}
  BY <1>1, IdsTyped DEF Tx
<1>3. tx' = [tx EXCEPT ![a] = next] /\ UNCHANGED <<feed, sources>>
  BY DEF SeeSources, vars, TxTyped
<1> HIDE DEF next
<1>4. /\ tx[a].done > 0 /\ next.done > 0 /\ next.done # 2
      /\ \A ids \in next.seen : ids = Ids(sources)
  BY <1>1, <1>2
<1> QED
  BY <1>2, <1>3, <1>4, HolderGoesOn

LEMMA DeleteSourcesKeepsTx ==
    ASSUME TxInv, NEW a \in Actors, DeleteSources(a)
    PROVE  TxTyped' /\ FeedFirst' /\ OneHolder' /\ \A b \in Actors : Holder(b)'
<1> USE DEF TxInv
<1>1. tx[a].done = 1 /\ tx[a] \in Tx
  BY Coming DEF DeleteSources, TxTyped
<1>2. PICK ids \in tx[a].seen :
        tx' = [tx EXCEPT ![a].done = @ + 1, ![a].gone = ids \intersect Ids(sources)]
  BY DEF DeleteSources
<1>3. ids = Ids(sources)
  BY <1>1 DEF Holder, SawAll
<1> DEFINE through == [tx[a] EXCEPT !.done = 2]
<1>4. /\ through \in Tx /\ through.done = 2
      /\ through.settings = tx[a].settings
  BY <1>1 DEF Tx
<1> HIDE DEF through
<1> DEFINE next == [through EXCEPT !.gone = Ids(sources)]
<1>5. /\ next \in Tx /\ next.done = 2 /\ next.settings = tx[a].settings
      /\ next.gone = Ids(sources)
  BY <1>4, IdsTyped DEF Tx
<1>6. tx' = [tx EXCEPT ![a] = next]
  <2>1. tx[a].done + 1 = 2 /\ ids \intersect Ids(sources) = Ids(sources)
    BY <1>1, <1>3
  <2> QED
    BY <1>2, <2>1 DEF TxTyped, through
<1>7. UNCHANGED <<feed, sources>>
  BY DEF DeleteSources, vars
<1> HIDE DEF next
<1>8. tx[a].done > 0 /\ next.done > 0 /\ next.done # 1
  BY <1>1, <1>5
<1> QED
  BY <1>5, <1>6, <1>7, <1>8, HolderGoesOn

(* A transaction that is ready is the holder, its row is the feed, and it  *)
(* has deleted every source.                                               *)
LEMMA ReadyFacts ==
    ASSUME TxInv, NEW a \in Actors, Ready(a)
    PROVE  /\ tx[a].done > 0
           /\ Remaining(a) = {}
           /\ \E row \in feed : /\ tx[a].settings = row.settings + 1
                                /\ a \in Savers => tx[a].settings <= MaxSaves
<1> USE DEF TxInv
<1>1. tx[a].done = 2
  BY DEF Ready
<1>2. tx[a].gone = Ids(sources)
  BY <1>1 DEF Holder, GoneAll
<1>3. Remaining(a) = {}
  BY <1>2 DEF Remaining, Ids
<1>4. PICK row \in feed : /\ tx[a].settings = row.settings + 1
                          /\ a \in Savers => row.settings < MaxSaves
  BY <1>1 DEF Holder, HoldsFeed
<1>5. row.settings \in Nat
  BY DEF TypeOK, TablesTyped, FeedRow
<1> QED
  BY <1>1, <1>3, <1>4, <1>5, RefreshAssumption

LEMMA CommitSaveKeepsTx ==
    ASSUME TxInv, NEW a \in Actors, NEW k \in 1..MaxSources, CommitSave(a, k)
    PROVE  /\ [Next]_vars
           /\ TxTyped' /\ FeedFirst' /\ OneHolder' /\ \A b \in Actors : Holder(b)'
<1>1. PICK row \in feed : /\ tx[a].settings = row.settings + 1
                          /\ a \in Savers => tx[a].settings <= MaxSaves
  BY ReadyFacts DEF CommitSave
<1>2. tx[a].done > 0 /\ Remaining(a) = {}
  BY ReadyFacts DEF CommitSave
<1>3. UpdateFeed(k)
  BY <1>1, <1>2 DEF CommitSave, UpdateFeed
<1>4. [Next]_vars
  BY <1>3 DEF Next
<1> QED
  BY <1>2, <1>4, HolderEnds, NobodyHolds DEF CommitSave

LEMMA CommitDeleteKeepsTx ==
    ASSUME TxInv, NEW a \in Actors, CommitDelete(a)
    PROVE  /\ [Next]_vars
           /\ TxTyped' /\ FeedFirst' /\ OneHolder' /\ \A b \in Actors : Holder(b)'
<1>1. feed # {} /\ tx[a].done > 0 /\ Remaining(a) = {}
  BY ReadyFacts DEF CommitDelete
<1>2. DeleteFeed
  BY <1>1 DEF CommitDelete, DeleteFeed
<1>3. [Next]_vars
  BY <1>2 DEF Next
<1> QED
  BY <1>1, <1>3, HolderEnds, NobodyHolds DEF CommitDelete

LEMMA RollbackKeepsTx ==
    ASSUME TxInv, NEW a \in Actors, Rollback(a)
    PROVE  TxTyped' /\ FeedFirst' /\ OneHolder' /\ \A b \in Actors : Holder(b)'
<1>1. tx[a].done > 0
  <2>1. tx[a].done \in 0..2
    BY DEF TxInv, TxTyped, Tx
  <2> QED
    BY <2>1 DEF TxInv, FeedFirst, Rollback
<1> QED
  BY <1>1, HolderEnds, NobodyHolds DEF Rollback

-----------------------------------------------------------------------------
(* The refinement. *)

LEMMA TxInitInv == TxInit => TxInv
<1> SUFFICES ASSUME TxInit PROVE TxInv
  OBVIOUS
<1>1. TypeOK
  BY InitTyped DEF TxInit
<1>2. TxTyped /\ \A a \in Actors : tx[a] = NoTx
  BY NoTxTyped DEF TxInit, TxTyped
<1>3. FeedFirst /\ OneHolder /\ \A a \in Actors : Holder(a)
  BY <1>2 DEF FeedFirst, OneHolder, Holder, HoldsFeed, SawAll, GoneAll, NoTx
<1> QED
  BY <1>1, <1>2, <1>3 DEF TxInv

LEMMA TxStepRefines == TxInv /\ [TxNext]_txVars => [Next]_vars /\ TxInv'
<1> SUFFICES ASSUME TxInv, [TxNext]_txVars PROVE [Next]_vars /\ TxInv'
  OBVIOUS
<1> DEFINE Kept == TxTyped' /\ FeedFirst' /\ OneHolder' /\ \A a \in Actors : Holder(a)'
<1> SUFFICES [Next]_vars /\ Kept
  BY NextTyped DEF TxInv
<1>1. ASSUME NEW c \in Callers, Refresh(c) \/ RunStepTx(c) \/ Leave(c), UNCHANGED tx
      PROVE  [Next]_vars /\ Kept
  BY <1>1, RunKeepsTx
<1>2. ASSUME NEW a \in Actors, TxStep(a)
      PROVE  [Next]_vars /\ Kept
  <2>1. CASE WriteFeed(a)
    BY <2>1, WriteFeedKeepsTx DEF WriteFeed
  <2>2. CASE SeeSources(a)
    BY <2>2, SeeSourcesKeepsTx DEF SeeSources
  <2>3. CASE DeleteSources(a)
    BY <2>3, DeleteSourcesKeepsTx DEF DeleteSources
  <2>4. ASSUME NEW k \in 1..MaxSources, CommitSave(a, k) PROVE [Next]_vars /\ Kept
    BY <2>4, CommitSaveKeepsTx
  <2>5. CASE CommitDelete(a)
    BY <2>5, CommitDeleteKeepsTx
  <2>6. CASE Rollback(a)
    BY <2>6, RollbackKeepsTx DEF Rollback
  <2> HIDE DEF Kept
  <2> QED
    BY <1>2, <2>1, <2>2, <2>3, <2>4, <2>5, <2>6 DEF TxStep
<1>3. CASE Tick /\ UNCHANGED tx
  <2>1. UNCHANGED <<tx, feed>> /\ Ids(sources)' = Ids(sources)
    BY <1>3 DEF Tick
  <2> QED
    BY <1>3, <2>1, HolderKept DEF Next
<1>4. CASE RestartTx
  <2>1. TxTyped' /\ \A a \in Actors : tx'[a] = NoTx
    BY <1>4, NoTxTyped DEF RestartTx, TxTyped
  <2> QED
    BY <1>4, <2>1, NobodyHolds DEF RestartTx, Next
<1>5. CASE UNCHANGED txVars
  <2>1. UNCHANGED vars /\ UNCHANGED <<tx, feed>> /\ Ids(sources)' = Ids(sources)
    BY <1>5 DEF txVars, vars
  <2> QED
    BY <2>1, HolderKept
<1> HIDE DEF Kept
<1> QED
  BY <1>1, <1>2, <1>3, <1>4, <1>5 DEF TxNext

LEMMA TxSafe == TxSpec => []TxInv
<1>1. TxInv /\ [TxNext]_txVars => TxInv'
  BY TxStepRefines
<1> QED
  BY <1>1, TxInitInv, PTL DEF TxSpec

(* UpdateFeed and the DELETE statements change the committed tables as if  *)
(* each were one step: the transactions implement FeedRefresh.             *)
THEOREM SavesAreAtomic == TxSpec => AtomicSaves
<1>1. TxInit => Init
  BY DEF TxInit
<1>2. TxInv /\ [TxNext]_txVars => [Next]_vars
  BY TxStepRefines
<1> QED
  BY <1>1, <1>2, TxSafe, PTL DEF TxSpec, AtomicSaves, Spec

(* Saves and deletions of one feed, UpdateFeed and DeleteFeed, take their  *)
(* rows in the same order and never wait for each other in a circle.       *)
THEOREM NeverDeadlocked == TxSpec => []NoCircularWait
<1>1. TxInv => NoCircularWait
  <2> SUFFICES ASSUME TxInv, NEW a \in Actors, NEW b \in Actors,
                      WaitsFor(a, b), WaitsFor(b, a)
               PROVE  FALSE
    BY DEF NoCircularWait
  <2> USE DEF TxInv
  <2>1. CASE tx[a].done = 0
    BY <2>1, Coming DEF WaitsFor, FeedFirst, NoTx
  <2>2. CASE tx[b].done = 0
    BY <2>2, Coming DEF WaitsFor, FeedFirst, NoTx
  <2>3. CASE tx[a].done # 0 /\ tx[b].done # 0
    <3>1. tx[a].done \in 0..2 /\ tx[b].done \in 0..2
      BY DEF TxTyped, Tx
    <3> QED
      BY <2>3, <3>1 DEF OneHolder, WaitsFor
  <2> QED
    BY <2>1, <2>2, <2>3
<1> QED
  BY <1>1, TxSafe, PTL

-----------------------------------------------------------------------------
(* The tables. *)

LEMMA SourcesOfGen ==
    ASSUME NEW n, NEW k \in 1..MaxSources
    PROVE  SourcesOf(n, k) # {} /\ \A s \in SourcesOf(n, k) : s.gen = n
<1>1. 1 \in 1..k
  BY RefreshAssumption
<1>2. [gen |-> n, pos |-> 1, ics |-> {}] \in SourcesOf(n, k)
  BY <1>1 DEF SourcesOf
<1>3. \A s \in SourcesOf(n, k) : s.gen = n
  BY DEF SourcesOf
<1> QED
  BY <1>2, <1>3

LEMMA AgreeInit == Init => TablesAgree
<1> SUFFICES ASSUME Init PROVE TablesAgree
  OBVIOUS
<1>1. PICK k \in 1..MaxSources : sources = SourcesOf(0, k)
  BY DEF Init
<1>2. sources # {} /\ \A s \in sources : s.gen = 0
  BY <1>1, SourcesOfGen
<1> QED
  BY <1>2 DEF Init, TablesAgree

LEMMA AgreeNext == TypeOK /\ TablesAgree /\ [Next]_vars => TablesAgree'
<1> SUFFICES ASSUME TypeOK, TablesAgree, [Next]_vars PROVE TablesAgree'
  OBVIOUS
<1>1. ASSUME NEW c \in Callers, StoreSource(c) PROVE TablesAgree'
  <2>1. PICK row \in run[c].todo : UpdateSourceFetch(row)
    BY <1>1 DEF StoreSource
  <2>2. \A s \in sources' : \E old \in sources : s.gen = old.gen
    BY <2>1, UpdateKeepsIds
  <2>3. sources # {} => sources' # {}
    BY <2>1 DEF UpdateSourceFetch
  <2>4. UNCHANGED feed
    BY <1>1 DEF StoreSource
  <2> QED
    BY <2>2, <2>3, <2>4 DEF TablesAgree
<1>2. ASSUME NEW c \in Callers, Publish(c) PROVE TablesAgree'
  <2>1. PICK merge : feed' = {[row EXCEPT !.merged = {merge}] : row \in feed}
    BY <1>2 DEF Publish, UpdateMerged
  <2>2. \A row \in feed : [row EXCEPT !.merged = {merge}].settings = row.settings
    BY DEF TypeOK, TablesTyped, FeedRow
  <2>3. UNCHANGED sources
    BY <1>2 DEF Publish
  <2>4. \A s \in sources : \E row \in feed' : s.gen = row.settings
    BY <2>1, <2>2 DEF TablesAgree
  <2> QED
    BY <2>1, <2>3, <2>4 DEF TablesAgree
<1>3. ASSUME NEW k \in 1..MaxSources, UpdateFeed(k) PROVE TablesAgree'
  <2>1. PICK row \in feed :
          /\ feed' = {[settings |-> row.settings + 1, merged |-> {}]}
          /\ sources' = SourcesOf(row.settings + 1, k)
    BY <1>3 DEF UpdateFeed
  <2>2. sources' # {} /\ \A s \in sources' : s.gen = row.settings + 1
    BY <2>1, SourcesOfGen
  <2> QED
    BY <2>1, <2>2 DEF TablesAgree
<1>4. CASE DeleteFeed
  BY <1>4 DEF DeleteFeed, TablesAgree
<1>5. CASE UNCHANGED <<feed, sources>>
  BY <1>5 DEF TablesAgree
<1>6. ASSUME NEW c \in Callers,
             Refresh(c) \/ (RunStep(c) /\ ~StoreSource(c) /\ ~Publish(c)) \/ Leave(c)
      PROVE  UNCHANGED <<feed, sources>>
  BY <1>6 DEF RunStep, Refresh, Leave, LoadFeedRow, LoadSourceRows, ReadClock,
              ServeFresh, FetchLimited, Fetch, StoreDone, PublishNothing, StatementFails
<1>7. Tick \/ Restart \/ UNCHANGED vars => UNCHANGED <<feed, sources>>
  BY DEF Tick, Restart, vars
<1> QED
  BY <1>1, <1>2, <1>3, <1>4, <1>5, <1>6, <1>7 DEF Next, RunStep

(* Every feed has sources, all written by the save that wrote its row, and *)
(* no source outlives its feed, whatever UpdateFeed, DeleteFeed and the    *)
(* refresh do to each other.                                               *)
THEOREM TablesStayTogether == TxSpec => []TablesAgree
<1>1. TypeOK /\ TablesAgree /\ [Next]_vars => TypeOK' /\ TablesAgree'
  BY NextTyped, AgreeNext
<1> QED
  BY <1>1, InitTyped, AgreeInit, SavesAreAtomic, PTL DEF AtomicSaves, Spec

-----------------------------------------------------------------------------
(* Who is waited for does not wait: the holder of the feed row is the only *)
(* transaction with a lock.  So there is no circle of any length.          *)
NoChainOfWaits ==
    \A a, b, c \in Actors : ~(WaitsFor(a, b) /\ WaitsFor(b, c))

THEOREM WaitsEndAtOnce == TxSpec => []NoChainOfWaits
<1>1. ASSUME TxInv, NEW a \in Actors, NEW b \in Actors, WaitsFor(a, b)
      PROVE  tx[b].done > 0
  <2> USE <1>1 DEF TxInv
  <2>1. tx[b].done \in 0..2
    BY DEF TxTyped, Tx
  <2>2. CASE Wrote(b, "feed")
    BY <2>2, Coming
  <2>3. CASE \E ids \in tx[a].seen : ids \intersect tx[b].gone # {}
    BY <2>1, <2>3 DEF FeedFirst, NoTx
  <2> QED BY <1>1, <2>2, <2>3 DEF WaitsFor
<1>2. TxInv => NoChainOfWaits
  <2> SUFFICES ASSUME TxInv, NEW a \in Actors, NEW b \in Actors, NEW c \in Actors,
                      WaitsFor(a, b), WaitsFor(b, c)
               PROVE  FALSE
    BY DEF NoChainOfWaits
  <2>1. tx[b].done > 0 /\ tx[c].done > 0
    BY <1>1
  <2>2. b = c
    BY <2>1 DEF TxInv, OneHolder
  <2> QED BY <2>2 DEF WaitsFor
<1> QED BY <1>2, TxSafe, PTL

(* What is proved of a refresh among saves and deletions as single steps   *)
(* holds of their statements: of the ages of what is served, of settings,  *)
(* merges and stored bodies, and of runs that come to an end.              *)
THEOREM StatementsKeepIt ==
    TxSpec => /\ []ServedWithinTwiceMaxStale /\ []StaleOnlyAfterOverlap
              /\ MergeSpacing /\ BodiesOnlyAdvance /\ GivesUpOnlyWhenExpired
              /\ []WaitersAreLed /\ RunsAdvance
BY SavesAreAtomic, AgeBound, SavesTakeEffect, OneMergePerWindow, StoredBodyKept,
   GivesUpSoundly, NobodyWaitsAlone, RunsComeToAnEnd, PTL DEF AtomicSaves
=============================================================================
