---------------------------- MODULE FetchPromise ----------------------------
(***************************************************************************)
(* What fetch.GetAll promises its callers: a call is answered once, and as *)
(* FetchResults says.                                                      *)
(***************************************************************************)
EXTENDS FetchResults

CONSTANTS
    Calls,      \* calls of GetAll
    MaxUrls     \* most URLs in one call

VARIABLES
    asked,      \* how many URLs each call has, {} before the call
    result      \* its result slice, {} before it returns

Init ==
    /\ asked = [c \in Calls |-> {}]
    /\ result = [c \in Calls |-> {}]

Ask(c) ==
    /\ asked[c] = {}
    /\ \E n \in 0..MaxUrls : asked' = [asked EXCEPT ![c] = {n}]
    /\ UNCHANGED result

Answer(c) ==
    /\ result[c] = {}
    /\ \E n \in asked[c] : \E out \in Results(n) :
         result' = [result EXCEPT ![c] = {out}]
    /\ UNCHANGED asked

Next == \E c \in Calls : Ask(c) \/ Answer(c)

Spec ==
    /\ Init
    /\ [][Next]_<<asked, result>>
    /\ \A c \in Calls : WF_<<asked, result>>(Answer(c))
=============================================================================
