------------------------------ MODULE IPLimiter ------------------------------
(***************************************************************************)
(* The sliding-window limiter of internal/http/limit.go.                   *)
(*                                                                         *)
(* A call of allowN reads the clock first and takes the mutex afterwards,  *)
(* so calls enter the critical section in an order that need not be the    *)
(* order of their stamps.  The critical section sweeps all buckets at most *)
(* once per window, prunes the caller's bucket and admits all n hits or    *)
(* none.                                                                   *)
(*                                                                         *)
(* A key without hits has no entry in the Go map; here its bucket is the   *)
(* empty set.  Calls with n <= 0 return before they touch anything and are *)
(* left out.  A hit is named by its call and its number, so that a bucket  *)
(* is a set and its length a cardinality.                                  *)
(***************************************************************************)
EXTENDS Integers, FiniteSets

CONSTANTS
    Calls,      \* the calls of allowN, each made at most once
    Keys,       \* what is limited: peer addresses, or feed ids
    Sizes,      \* how many hits a call may ask for
    Max,        \* ipLimiter.max
    Window,     \* ipLimiter.window
    MaxDelay,   \* longest time between a call's stamp and its turn
    MaxTime     \* bound on the clock, for TLC

ASSUME LimiterAssumption ==
    /\ Sizes \subseteq Nat \ {0}
    /\ Max \in Nat \ {0}
    /\ Window \in Nat \ {0}
    /\ MaxDelay \in Nat
    /\ MaxTime \in Nat

VARIABLES
    now,        \* the wall clock
    pc,         \* where each call is: before its stamp, before the lock, done
    call,       \* the key, the size and the stamp of each call
    buckets,    \* the hits kept for each key
    lastSweep,  \* the stamp of the last sweep, {} before the first
    lastStamp,  \* history: the latest stamp a call has entered with
    admitted    \* history: every hit ever admitted, for each key

vars == <<now, pc, call, buckets, lastSweep, lastStamp, admitted>>

Hit == [call : Calls, number : Nat, at : Nat]

Init ==
    /\ now = 0
    /\ pc = [r \in Calls |-> "idle"]
    /\ call \in [Calls -> [key : Keys, n : Sizes, at : {0}]]
    /\ buckets = [k \in Keys |-> {}]
    /\ lastSweep = {}
    /\ lastStamp = 0
    /\ admitted = [k \in Keys |-> {}]

Tick ==
    /\ now < MaxTime
    /\ \A r \in Calls : pc[r] = "stamped" => now < call[r].at + MaxDelay
    /\ now' = now + 1
    /\ UNCHANGED <<pc, call, buckets, lastSweep, lastStamp, admitted>>

\* now := l.now(), before the lock.
Stamp(r) ==
    /\ pc[r] = "idle"
    /\ pc' = [pc EXCEPT ![r] = "stamped"]
    /\ call' = [call EXCEPT ![r].at = now]
    /\ UNCHANGED <<now, buckets, lastSweep, lastStamp, admitted>>

pruneHits(hits, cutoff) == {h \in hits : h.at > cutoff}

\* Mutant: the map is never swept.
SweepNever(stamp) == FALSE

SweepDue(stamp) ==
    \/ lastSweep = {}
    \/ \E s \in lastSweep : stamp - s >= Window

\* The buckets after the sweep, if one is due.
Swept(r) ==
    IF SweepDue(call[r].at)
    THEN [k \in Keys |-> pruneHits(buckets[k], call[r].at - Window)]
    ELSE buckets

Kept(r) == pruneHits(Swept(r)[call[r].key], call[r].at - Window)

NewHits(r) ==
    {[call |-> r, number |-> i, at |-> call[r].at] : i \in 1..call[r].n}

\* Mutant: a call is admitted as long as there is room for one hit.
FitsOne(r) == Cardinality(Kept(r)) + 1 <= Max

\* Mutant: the last free place is not given away.
FitsBelow(r) == Cardinality(Kept(r)) + call[r].n < Max

Fits(r) == Cardinality(Kept(r)) + call[r].n <= Max

\* What entering the critical section changes, whatever it decides.
Enter(r) ==
    /\ pc[r] = "stamped"
    /\ pc' = [pc EXCEPT ![r] = "done"]
    /\ lastSweep' = IF SweepDue(call[r].at) THEN {call[r].at} ELSE lastSweep
    /\ lastStamp' = IF call[r].at > lastStamp THEN call[r].at ELSE lastStamp
    /\ UNCHANGED <<now, call>>

Admit(r) ==
    /\ Enter(r)
    /\ Fits(r)
    /\ buckets' = [Swept(r) EXCEPT ![call[r].key] = Kept(r) \union NewHits(r)]
    /\ admitted' = [admitted EXCEPT ![call[r].key] = @ \union NewHits(r)]

\* Mutant: a refused call is counted.
RefuseAndCount(r) ==
    /\ Enter(r)
    /\ ~Fits(r)
    /\ buckets' = [Swept(r) EXCEPT ![call[r].key] = Kept(r) \union NewHits(r)]
    /\ UNCHANGED admitted

Refuse(r) ==
    /\ Enter(r)
    /\ ~Fits(r)
    /\ buckets' = [Swept(r) EXCEPT ![call[r].key] = Kept(r)]
    /\ UNCHANGED admitted

Next ==
    \/ Tick
    \/ \E r \in Calls : Stamp(r) \/ Admit(r) \/ Refuse(r)

Spec == Init /\ [][Next]_vars

-----------------------------------------------------------------------------
(* Properties. *)

(* Every variable has its type, and a bucket only holds admitted hits. *)
TypeOK ==
    /\ now \in Nat
    /\ pc \in [Calls -> {"idle", "stamped", "done"}]
    /\ call \in [Calls -> [key : Keys, n : Sizes, at : Nat]]
    /\ buckets \in [Keys -> SUBSET Hit]
    /\ lastSweep \in SUBSET Nat
    /\ lastStamp \in Nat
    /\ admitted \in [Keys -> SUBSET Hit]
    /\ \A k \in Keys : buckets[k] \subseteq admitted[k]
    /\ \A k \in Keys : \A h \in admitted[k] : pc[h.call] = "done"

Within(k, after, length) ==
    {h \in admitted[k] : after < h.at /\ h.at <= after + length}

(* No key gets more than Max hits whose stamps lie in a window, once the   *)
(* window is shortened by the time a call may wait for its turn: a call    *)
(* with a later stamp may have pruned what an earlier stamp still counts.  *)
BoundedPerWindow ==
    \A k \in Keys : \A after \in -Window..now :
        Cardinality(Within(k, after, Window - MaxDelay)) <= Max

(* A call is refused only if the hits admitted for its key since its own   *)
(* cutoff leave no room: a refusal costs the key nothing.                  *)
RefusedOnlyWhenFull ==
    [][\A r \in Calls :
         Refuse(r) =>
            LET key == call[r].key
                recent == {h \in admitted[key] : h.at > call[r].at - Window}
            IN  Cardinality(recent) + call[r].n > Max]_vars

(* What the map remembers is bounded in time: nothing older than two       *)
(* windows survives the latest call, for keys that never call again too.   *)
ForgetsIdleKeys ==
    \A k \in Keys : \A h \in buckets[k] : lastStamp - h.at < 2 * Window
=============================================================================
