-------------------------- MODULE StoreTransactions --------------------------
(***************************************************************************)
(* Saving and deleting a feed as the transactions they are:                *)
(* Store.UpdateFeed and the DELETE statements of internal/store beside the *)
(* refresh, on PostgreSQL at its default level, READ COMMITTED.            *)
(*                                                                         *)
(* FeedRefresh takes a save and a deletion as one step each.  Here a save  *)
(* is an UPDATE of the feed row, a DELETE of the source rows, their        *)
(* INSERTs and a COMMIT; a deletion takes the feed row and cascades to the *)
(* source rows.  A statement that writes a row waits for the open          *)
(* transaction that wrote it last, and sees the rows that were committed   *)
(* when it started.  Reads see what is committed and wait for nobody.  The *)
(* tables of FeedRefresh are the committed ones, so that its specification *)
(* is the promise this module keeps.                                       *)
(*                                                                         *)
(* The INSERTs touch rows that nobody else can see before the COMMIT and   *)
(* are part of it.  A statement outside a transaction, all of those of the *)
(* refresh, is a transaction of its own.                                   *)
(***************************************************************************)
EXTENDS FeedRefresh, Sequences

CONSTANTS
    Savers,     \* requests that save
    Deleters    \* requests that delete, and the reaper

ASSUME TransactionAssumption == Savers \intersect Deleters = {}

VARIABLE tx     \* the transaction each saver or deleter has open

txVars == <<vars, tx>>

Actors == Savers \union Deleters

\* A source row is known by its id.
Id(row) == <<row.gen, row.pos>>
Ids(rows) == {Id(row) : row \in rows}

\* The rows the statements of a transaction write, in their order.
\* Mutants: the sources first.
SaveSourcesFirst == <<"sources", "feed">>
SaveOrder == <<"feed", "sources">>
DeleteSourcesFirst == <<"sources", "feed">>
DeleteOrder == <<"feed", "sources">>

Order(a) == IF a \in Savers THEN SaveOrder ELSE DeleteOrder

\* done: how many of its statements are through; seen: the source rows its
\* statement on them has found, once it has started; gone: those it deleted.
\* A transaction that waits for its first row has done nothing anyone could
\* notice.
NoTx == [done |-> 0, settings |-> 0, seen |-> {}, gone |-> {}]

TxInit == Init /\ tx = [a \in Actors |-> NoTx]

-----------------------------------------------------------------------------
(* Row locks. *)

ComesTo(a, what) == tx[a].done < 2 /\ Order(a)[tx[a].done + 1] = what

Wrote(a, what) == \E i \in 1..tx[a].done : Order(a)[i] = what

FeedLocked == \E a \in Actors : Wrote(a, "feed")
RowLocked(id) == \E a \in Actors : id \in tx[a].gone

-----------------------------------------------------------------------------
(* The transactions. *)

\* UPDATE feeds, or DELETE FROM feeds: waits for whoever has the row, then
\* goes on with the row as it is by now.
WriteFeed(a) ==
    /\ ComesTo(a, "feed")
    /\ ~FeedLocked
    /\ \E row \in feed :
        /\ a \in Savers => row.settings < MaxSaves
        /\ tx' = [tx EXCEPT ![a].done = @ + 1, ![a].settings = row.settings + 1]
    /\ UNCHANGED vars

\* DELETE FROM sources, or the cascade, finds its rows ...
SeeSources(a) ==
    /\ ComesTo(a, "sources")
    /\ tx[a].seen = {}
    /\ tx' = [tx EXCEPT ![a].seen = {Ids(sources)}]
    /\ UNCHANGED vars

\* ... and deletes those that are still there, when nobody has them.
DeleteSources(a) ==
    /\ ComesTo(a, "sources")
    /\ \E ids \in tx[a].seen :
        /\ \A id \in ids : ~RowLocked(id)
        /\ tx' = [tx EXCEPT ![a].done = @ + 1,
                            ![a].gone = ids \intersect Ids(sources)]
    /\ UNCHANGED vars

Ready(a) == tx[a].done = 2

Remaining(a) == {row \in sources : Id(row) \notin tx[a].gone}

\* The INSERTs and the COMMIT of UpdateFeed.
CommitSave(a, k) ==
    /\ a \in Savers /\ Ready(a)
    /\ feed # {}
    /\ LET n == tx[a].settings
       IN  /\ feed' = {[settings |-> n, merged |-> {}]}
           /\ sources' = Remaining(a) \union SourcesOf(n, k)
           /\ overtaken' = IF \E c \in Callers : HasRow(c)
                           THEN overtaken \union {n} ELSE overtaken
    /\ tx' = [tx EXCEPT ![a] = NoTx]
    /\ UNCHANGED <<now, pc, run, answer>>

\* The statement of DeleteFeed or DeleteStaleFeeds is through.
CommitDelete(a) ==
    /\ a \in Deleters /\ Ready(a)
    /\ feed' = {}
    /\ sources' = Remaining(a)
    /\ tx' = [tx EXCEPT ![a] = NoTx]
    /\ UNCHANGED <<now, pc, run, answer, overtaken>>

\* Mutant: the statements are not in a transaction.
RollbackNothing(a) ==
    /\ tx[a] # NoTx
    /\ tx' = [tx EXCEPT ![a] = NoTx]
    /\ sources' = Remaining(a)
    /\ UNCHANGED <<now, feed, pc, run, answer, overtaken>>

\* There is no such feed, a statement fails, or the client is gone.
Rollback(a) ==
    /\ tx[a] # NoTx
    /\ tx' = [tx EXCEPT ![a] = NoTx]
    /\ UNCHANGED vars

-----------------------------------------------------------------------------
(* The refresh between them. *)

\* The rows the next UpdateSourceFetch of a run writes.
NextRow(c) ==
    {row \in run[c].todo : \A other \in run[c].todo : row.pos <= other.pos}

StoreSourceTx(c) ==
    /\ \A row \in NextRow(c) : ~RowLocked(Id(row))
    /\ StoreSource(c)

PublishTx(c) == ~FeedLocked /\ Publish(c)

RunStepTx(c) ==
    \/ LoadFeedRow(c) \/ LoadSourceRows(c) \/ ReadClock(c)
    \/ ServeFresh(c) \/ FetchLimited(c) \/ Fetch(c)
    \/ StoreSourceTx(c) \/ StoreDone(c)
    \/ PublishNothing(c) \/ PublishTx(c) \/ StatementFails(c)

\* The process dies, and PostgreSQL rolls back what it had open.
RestartTx ==
    /\ Restart
    /\ tx' = [a \in Actors |-> NoTx]

TxStep(a) ==
    \/ WriteFeed(a) \/ SeeSources(a) \/ DeleteSources(a)
    \/ \E k \in 1..MaxSources : CommitSave(a, k)
    \/ CommitDelete(a) \/ Rollback(a)

TxNext ==
    \/ \E c \in Callers : (Refresh(c) \/ RunStepTx(c) \/ Leave(c)) /\ UNCHANGED tx
    \/ \E a \in Actors : TxStep(a)
    \/ Tick /\ UNCHANGED tx
    \/ RestartTx

TxSpec == TxInit /\ [][TxNext]_txVars

-----------------------------------------------------------------------------
(* Properties. *)

(* Whatever the statements of two saves, a deletion and a refresh do to    *)
(* each other, the committed tables change as if a save were one step and  *)
(* a deletion another: this module implements FeedRefresh.                 *)
AtomicSaves == Spec

(* The tables agree: every feed has sources, all of them written by the    *)
(* save that wrote the feed row, and no source row outlives its feed.      *)
TablesAgree ==
    /\ feed # {} => sources # {}
    /\ \A s \in sources : \E row \in feed : s.gen = row.settings

(* Two transactions never wait for each other: each of them comes to the   *)
(* feed row before it comes to the source rows.                            *)
WaitsFor(a, b) ==
    /\ a # b
    /\ \/ ComesTo(a, "feed") /\ Wrote(b, "feed")
       \/ ComesTo(a, "sources") /\ \E ids \in tx[a].seen : ids \intersect tx[b].gone # {}

NoCircularWait == \A a, b \in Actors : ~(WaitsFor(a, b) /\ WaitsFor(b, a))
=============================================================================
