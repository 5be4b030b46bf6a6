----------------------------- MODULE OriginFetch -----------------------------
(***************************************************************************)
(* Fetching the origins: internal/fetch.                                   *)
(*                                                                         *)
(* GetAll pays its whole burst from the quota of its context, starts one   *)
(* goroutine for each URL and waits for all of them.  A goroutine checks   *)
(* its URL (which may look the host up), waits for one of the slots all    *)
(* calls of the process share, fetches, gives the slot back and leaves its *)
(* result at its own index.  A cancelled context ends the wait for a slot; *)
(* a fetch under way ends with an error, by its context or its timeout.    *)
(*                                                                         *)
(* Which URLs and addresses are allowed is not modelled: a check passes or *)
(* fails, a fetch ends with a body or an error.                            *)
(***************************************************************************)
EXTENDS Integers, FiniteSets

CONSTANTS
    Calls,          \* concurrent calls of GetAll
    MaxSources,     \* Fetcher.MaxSources
    MaxUrls,        \* most URLs in one call
    MaxConcurrent   \* Fetcher.MaxConcurrent, the slots

ASSUME FetchAssumption ==
    /\ MaxSources \in Nat \ {0}
    /\ MaxUrls \in Nat
    /\ MaxConcurrent \in Nat \ {0}

VARIABLES
    pc,         \* each call: not begun, waiting for its goroutines, returned
    asked,      \* how many URLs it has, {} before it begins
    cancelled,  \* whose context is done
    worker,     \* the goroutine of each URL
    out,        \* the result slice, "none" where nothing is written yet
    used        \* how many slots of the semaphore are taken

vars == <<pc, asked, cancelled, worker, out, used>>

Urls == 1..MaxUrls
Workers == {"none", "checking", "acquiring", "fetching", "done"}
Outcomes == {"none", "body", "failed", "limited", "capped"}

Init ==
    /\ pc = [c \in Calls |-> "idle"]
    /\ asked = [c \in Calls |-> {}]
    /\ cancelled = {}
    /\ worker = [c \in Calls |-> [i \in Urls |-> "none"]]
    /\ out = [c \in Calls |-> [i \in Urls |-> "none"]]
    /\ used = 0

\* The URLs a call may fetch.
Burst(n) == IF n > MaxSources THEN MaxSources ELSE n

\* GetAll, when the quota has room or the context carries none.
StartAll(c, n) ==
    /\ pc[c] = "idle"
    /\ pc' = [pc EXCEPT ![c] = "waiting"]
    /\ asked' = [asked EXCEPT ![c] = {n}]
    /\ worker' = [worker EXCEPT ![c] =
                    [i \in Urls |-> IF i <= Burst(n) THEN "checking" ELSE "none"]]
    /\ out' = [out EXCEPT ![c] =
                 [i \in Urls |-> IF i <= n /\ i > MaxSources THEN "capped" ELSE "none"]]
    /\ UNCHANGED <<cancelled, used>>

\* GetAll, when consumeQuota refuses: there is nothing to wait for.
StartLimited(c, n) ==
    /\ pc[c] = "idle"
    /\ n > 0
    /\ pc' = [pc EXCEPT ![c] = "waiting"]
    /\ asked' = [asked EXCEPT ![c] = {n}]
    /\ out' = [out EXCEPT ![c] =
                 [i \in Urls |-> IF i <= Burst(n) THEN "limited"
                                 ELSE IF i <= n THEN "capped" ELSE "none"]]
    /\ UNCHANGED <<cancelled, worker, used>>

\* A goroutine returns its result.
Done(c, i, outcome) ==
    /\ worker' = [worker EXCEPT ![c][i] = "done"]
    /\ out' = [out EXCEPT ![c][i] = outcome]

\* url.Parse and validateURL.
Check(c, i) ==
    /\ worker[c][i] = "checking"
    /\ \/ worker' = [worker EXCEPT ![c][i] = "acquiring"] /\ UNCHANGED out
       \/ Done(c, i, "failed")
    /\ UNCHANGED <<pc, asked, cancelled, used>>

\* Mutant: one goroutine too many.
SlotFreeOffByOne == used <= MaxConcurrent

SlotFree == used < MaxConcurrent

acquire(c, i) ==
    /\ worker[c][i] = "acquiring"
    /\ SlotFree
    /\ used' = used + 1
    /\ worker' = [worker EXCEPT ![c][i] = "fetching"]
    /\ UNCHANGED <<pc, asked, cancelled, out>>

\* The context is done before there is a slot.
GiveUp(c, i) ==
    /\ worker[c][i] = "acquiring"
    /\ c \in cancelled
    /\ Done(c, i, "failed")
    /\ UNCHANGED <<pc, asked, cancelled, used>>

\* Mutant: the slot is not given back.
releaseNothing == UNCHANGED used

release == used' = used - 1

\* The answer, an error, or the timeout: the slot is given back either way.
Respond(c, i) ==
    /\ worker[c][i] = "fetching"
    /\ \E outcome \in {"body", "failed"} : Done(c, i, outcome)
    /\ release
    /\ UNCHANGED <<pc, asked, cancelled>>

\* Mutant: a goroutine registers only when it runs.
AllRegisteredDone(c) ==
    \A i \in Urls : worker[c][i] \in {"none", "checking", "done"}

\* wg.Wait
AllDone(c) == \A i \in Urls : worker[c][i] \in {"none", "done"}

Return(c) ==
    /\ pc[c] = "waiting"
    /\ AllDone(c)
    /\ pc' = [pc EXCEPT ![c] = "returned"]
    /\ UNCHANGED <<asked, cancelled, worker, out, used>>

\* The client of the request goes away.
Cancel(c) ==
    /\ pc[c] = "waiting"
    /\ c \notin cancelled
    /\ cancelled' = cancelled \union {c}
    /\ UNCHANGED <<pc, asked, worker, out, used>>

WorkerStep(c, i) == Check(c, i) \/ acquire(c, i) \/ GiveUp(c, i) \/ Respond(c, i)

Next ==
    \E c \in Calls :
        \/ \E n \in 0..MaxUrls : StartAll(c, n) \/ StartLimited(c, n)
        \/ \E i \in Urls : WorkerStep(c, i)
        \/ Return(c) \/ Cancel(c)

(* A lookup and a fetch end: the resolver and the client have timeouts.  A *)
(* slot that stays free is taken by whoever waits for it.  A client need   *)
(* not go away.                                                            *)
Spec ==
    /\ Init
    /\ [][Next]_vars
    /\ \A c \in Calls :
        /\ WF_vars(Return(c))
        /\ \A i \in Urls :
            /\ WF_vars(Check(c, i))
            /\ WF_vars(acquire(c, i))
            /\ WF_vars(Respond(c, i))

-----------------------------------------------------------------------------
(* Properties. *)

Fetching == {w \in Calls \X Urls : worker[w[1]][w[2]] = "fetching"}

(* Every variable has its type, and a slot is counted for each goroutine   *)
(* that holds one: none is lost, none is given back twice.                 *)
TypeOK ==
    /\ pc \in [Calls -> {"idle", "waiting", "returned"}]
    /\ asked \in [Calls -> SUBSET (0..MaxUrls)]
    /\ cancelled \in SUBSET Calls
    /\ worker \in [Calls -> [Urls -> Workers]]
    /\ out \in [Calls -> [Urls -> Outcomes]]
    /\ used = Cardinality(Fetching)

(* All calls of the process together never fetch from more origins at once *)
(* than there are slots, whoever waits, gives up or fails.                 *)
FetchesBounded == Cardinality(Fetching) <= MaxConcurrent

(* The promise: one result for each URL, all or nothing for the quota, and *)
(* every call returns, however full the pool is.                           *)
Returned(c) == [i \in 1..(CHOOSE n \in asked[c] : TRUE) |-> out[c][i]]

Promise == INSTANCE FetchPromise
             WITH result <- [c \in Calls |-> IF pc[c] = "returned"
                                             THEN {Returned(c)} ELSE {}]

KeepsPromise == Promise!Spec
=============================================================================
