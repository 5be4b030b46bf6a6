--------------------------- MODULE HandlersProofs ---------------------------
(***************************************************************************)
(* Handlers for every number of requests, managers, addresses and sources. *)
(*                                                                         *)
(* Every step of the handlers is a step of FeedAccess or changes nothing   *)
(* of it, so the theorems of FeedAccessProofs carry over.  FormInv relates *)
(* the two: a form past checkTurnstile keeps the answer siteverify gave,   *)
(* and the request that is about to write the row is past it.              *)
(***************************************************************************)
EXTENDS Handlers, FeedAccessProofs, FiniteSetTheorems

-----------------------------------------------------------------------------
(* The refinement. *)

LEMMA FormStepRefines ==
    ASSUME NEW p \in Posts, FormStep(p) PROVE [Next]_vars
<1>1. CASE Turnstile(p)
  BY <1>1 DEF Turnstile
<1>2. CASE PayForm(p)
  BY <1>2 DEF PayForm
<1>3. CASE FetchForm(p)
  BY <1>3 DEF FetchForm
<1>4. CASE FetchFails(p)
  BY <1>4 DEF FetchFails, Next, ManageStep
<1> QED BY <1>1, <1>2, <1>3, <1>4 DEF FormStep

LEMMA PostRefines ==
    ASSUME CreateStep \/ \E m \in Managers : ManagePostStep(m)
    PROVE  [Next]_vars
<1>1. CASE CreateStep
  BY <1>1 DEF CreateStep, PostCreate, RejectCreate, StampForm, CreateForm,
              CreateFormFails, Next
<1>2. ASSUME NEW m \in Managers, ManagePostStep(m) PROVE ManageStep(m)
  BY <1>2 DEF ManagePostStep, PostManage, RejectManage, Save, GenerateForm,
              Rotate, Delete, ManageStep
<1> QED BY <1>1, <1>2 DEF Next

LEMMA RequestRefines ==
    ASSUME NEW r \in Requests,
           AskRefresh(r) \/ TakeResult(r) \/ RefuseICS(r) \/ OutsideRefresh(r)
    PROVE  [Next]_vars
<1>1. CASE AskRefresh(r)
  BY <1>1 DEF AskRefresh
<1>2. CASE ~AskRefresh(r)
  <2>1. ICSStep(r)
    BY <1>2 DEF TakeResult, RefuseICS, OutsideRefresh, ICSStep
  <2> QED BY <2>1 DEF Next
<1> QED BY <1>1, <1>2

LEMMA RunChangesNoRow ==
    ASSUME NEW f, RunStep(f) PROVE UNCHANGED <<vars, form, rows>>
BY DEF RunStep, RunLoads, RunFresh, RunFetches, RunLimited, RunMerges, RunBreaks

(* Whatever a handler does is a step of FeedAccess, or none. *)
LEMMA StepRefines == ASSUME [HNext]_hvars PROVE [Next]_vars
<1>1. CASE \E p \in Posts : FormStep(p)
  BY <1>1, FormStepRefines
<1>2. CASE CreateStep \/ \E m \in Managers : ManagePostStep(m)
  BY <1>2, PostRefines
<1>3. CASE \E r \in Requests :
             AskRefresh(r) \/ TakeResult(r) \/ RefuseICS(r) \/ OutsideRefresh(r)
  BY <1>3, RequestRefines
<1>4. CASE \E f \in flight : RunStep(f)
  BY <1>4, RunChangesNoRow
<1>5. CASE Reap
  BY <1>5 DEF Reap, Next
<1>6. CASE ProcessRestarts
  BY <1>6 DEF ProcessRestarts, Next
<1>7. CASE (RunOnce \/ RunFails \/ Tick) /\ UNCHANGED added
  BY <1>7 DEF Next
<1>8. CASE UNCHANGED hvars
  BY <1>8 DEF hvars
<1> QED BY <1>1, <1>2, <1>3, <1>4, <1>5, <1>6, <1>7, <1>8 DEF HNext

(* The handlers with all their checks change the feed as FeedAccess says.  *)
THEOREM HandlersAreFeedAccess == HSpec => AsFeedAccess
<1>1. HInit => Init
  BY DEF HInit
<1>2. [HNext]_hvars => [Next]_vars
  BY StepRefines
<1> QED BY <1>1, <1>2, PTL DEF HSpec, AsFeedAccess, Spec

(* A request is served only with a secret that was the feed's at some time *)
(* since it came in, whatever checks, quotas and shared runs come between. *)
THEOREM SharedRunsServeTheirSecret == HSpec => []ServedWithItsSecret
BY HandlersAreFeedAccess, ServedProperly, PTL DEF AsFeedAccess

(* What FeedAccess promises of a feed's life holds among forms, quotas and *)
(* shared runs too: the reaper deletes only what is idle ...               *)
THEOREM OnlyIdleFeedsGo == HSpec => ReapedOnlyIdle
BY HandlersAreFeedAccess, ReapsOnlyIdle, PTL DEF AsFeedAccess

(* ... and what is idle, within a retention and the runs that were lost.   *)
THEOREM IdleFeedsGo == ASSUME MaxDelay <= Every PROVE HSpec => []IdleFeedsReaped
<1>1. Spec => []IdleFeedsReaped
  BY IdleOnesGo
<1> QED BY <1>1, HandlersAreFeedAccess, PTL DEF AsFeedAccess

-----------------------------------------------------------------------------
(* Gone for good. *)

(* The sources go with their feed. *)
GoneInv == feed = {} => rows = 0

LEMMA FormKeepsRow ==
    ASSUME NEW p \in Posts, FormStep(p) PROVE UNCHANGED <<create, feed, rows>>
BY DEF FormStep, Turnstile, PayForm, FetchForm, FetchFails, ManageEnds, vars, handlers

\* An ICS request and a run of the refresh make no feed and end none.
LEMMA AskKeepsFeed ==
    ASSUME NEW r \in Requests,
           AskRefresh(r) \/ TakeResult(r) \/ RefuseICS(r) \/ OutsideRefresh(r)
    PROVE  (feed' = {} <=> feed = {}) /\ UNCHANGED <<create, rows>>
<1>1. CASE AskRefresh(r)
  BY <1>1 DEF AskRefresh, vars, handlers
<1>2. CASE TakeResult(r)
  BY <1>2 DEF TakeResult, RefreshReturns, RefreshFails, Refused
<1>3. CASE RefuseICS(r)
  BY <1>3 DEF RefuseICS, Refused, added
<1>4. CASE OutsideRefresh(r)
  <2>1. UNCHANGED rows
    BY <1>4 DEF OutsideRefresh, added
  <2>2. CASE Begin(r) \/ Lookup(r) \/ NotFound(r) \/ Leave(r)
    BY <2>1, <2>2 DEF Begin, Lookup, NotFound, Leave
  <2>3. CASE Serve(r) \/ TouchFails(r)
    BY <2>1, <2>3 DEF Serve, TouchFails, TouchLastRequest
  <2> QED BY <1>4, <2>2, <2>3 DEF OutsideRefresh
<1> QED BY <1>1, <1>2, <1>3, <1>4

LEMMA GoneStep ==
    ASSUME GoneInv, [HNext]_hvars
    PROVE  GoneInv' /\ (create.pc = "done" /\ feed = {} => feed' = {} /\ rows' = 0)
<1> USE DEF GoneInv
<1>1. CASE \E p \in Posts : FormStep(p)
  BY <1>1, FormKeepsRow
<1>2. CASE CreateStep
  BY <1>2 DEF CreateStep, PostCreate, RejectCreate, StampForm, CreateForm,
              CreateFormFails, CreateStamp, CreateFeed, CreateFails,
              vars, handlers, added
<1>3. ASSUME NEW m \in Managers, ManagePostStep(m)
      PROVE  GoneInv' /\ (feed = {} => feed' = {} /\ rows' = 0)
  <2>1. CASE PostManage(m) \/ RejectManage(m) \/ GenerateForm(m) \/ Save(m)
    BY <2>1 DEF PostManage, RejectManage, GenerateForm, Save, LoadManaged,
                ManageEnds, Generate, added
  <2>2. CASE Rotate(m)
    BY <2>2 DEF Rotate, RotateFeedToken
  <2>3. CASE Delete(m)
    BY <2>3 DEF Delete, DeleteFeed
  <2> QED BY <1>3, <2>1, <2>2, <2>3 DEF ManagePostStep
<1>4. CASE \E r \in Requests :
             AskRefresh(r) \/ TakeResult(r) \/ RefuseICS(r) \/ OutsideRefresh(r)
  BY <1>4, AskKeepsFeed
<1>5. CASE \E f \in flight : RunStep(f)
  BY <1>5, RunChangesNoRow DEF vars
<1>6. CASE Reap
  BY <1>6 DEF Reap, DeleteStaleFeeds
<1>7. CASE ProcessRestarts
  BY <1>7 DEF ProcessRestarts, Restart
<1>8. CASE (RunOnce \/ RunFails \/ Tick) /\ UNCHANGED added
  BY <1>8 DEF RunOnce, RunFails, Tick, added
<1>9. CASE UNCHANGED hvars
  BY <1>9 DEF hvars, vars, added
<1> QED BY <1>1, <1>2, <1>3, <1>4, <1>5, <1>6, <1>7, <1>8, <1>9 DEF HNext

(* Once the feed is deleted no touch, save or rotation of a request that   *)
(* saw it before brings it or its sources back.                            *)
THEOREM DeletedIsGone == HSpec => GoneForGood
<1>1. HInit => GoneInv
  BY DEF HInit, GoneInv
<1>2. GoneInv /\ [HNext]_hvars => GoneInv'
  BY GoneStep
<1>3. GoneInv /\ [HNext]_hvars =>
        [create.pc = "done" /\ feed = {} => feed' = {} /\ rows' = 0]_hvars
  BY GoneStep
<1> QED BY <1>1, <1>2, <1>3, PTL DEF HSpec, GoneForGood

-----------------------------------------------------------------------------
(* Turnstile. *)

FormStates == {"idle", "posted", "verified", "paid", "fetched"}

Forms == [pc : FormStates, proof : SUBSET Verdicts, n : 0..MaxSources,
          paid : SUBSET Addresses]

(* Past checkTurnstile, a form keeps an answer that was accepted. *)
PastInv ==
    /\ form \in [Posts -> Forms]
    /\ \A p \in Posts : form[p].pc \notin {"idle", "posted"} => Verified(p)

(* Whoever is about to write the row is past it. *)
WriteInv ==
    /\ create.pc = "stamped" => At("create", "fetched")
    /\ \A m \in Managers : manage[m].pc = "rotate" => At(m, "verified")

FormInv == PastInv /\ WriteInv

LEMMA NoFormTyped == NoForm \in Forms
BY HandlersAssumption DEF NoForm, Forms, FormStates

\* A POST goes on: past checkTurnstile with an answer that was accepted, or
\* with the one it had.
LEMMA FormGoesOn ==
    ASSUME PastInv, NEW p \in Posts, NEW new \in Forms,
           form' = [form EXCEPT ![p] = new],
           new.pc \notin {"idle", "posted"} =>
              \/ TurnstileRequired => \E v \in new.proof : Accepts(v, Surface(p))
              \/ form[p].pc \notin {"idle", "posted"} /\ new.proof = form[p].proof
    PROVE  PastInv'
<1>1. form' \in [Posts -> Forms]
  BY DEF PastInv
<1>2. ASSUME NEW q \in Posts, form'[q].pc \notin {"idle", "posted"}
      PROVE  Verified(q)'
  <2>1. CASE q = p
    BY <1>2, <2>1 DEF PastInv, Verified, Accepts, Surface, Hosts
  <2>2. CASE q # p
    BY <1>2, <2>2 DEF PastInv, Verified, Surface, Hosts
  <2> QED BY <2>1, <2>2
<1> QED BY <1>1, <1>2 DEF PastInv

\* A POST is over.
LEMMA FormEnds ==
    ASSUME PastInv, NEW p \in Posts, Ends(p) PROVE PastInv'
BY FormGoesOn, NoFormTyped DEF Ends, NoForm

LEMMA PastSame == ASSUME PastInv, UNCHANGED form PROVE PastInv'
BY DEF PastInv, Verified, Surface, Hosts

LEMMA FormStepPast ==
    ASSUME PastInv, NEW p \in Posts, FormStep(p) PROVE PastInv'
<1> USE DEF Forms, FormStates
<1>0. form[p] \in Forms
  BY DEF PastInv
<1>1. CASE Turnstile(p)
  <2>1. CASE TurnstileRequired
    <3>1. PICK verdict \in Verdicts :
             /\ Accepts(verdict, Surface(p))
             /\ form' = [form EXCEPT ![p].pc = "verified", ![p].proof = {verdict}]
      BY <1>1, <2>1 DEF Turnstile
    <3> DEFINE new == [form[p] EXCEPT !.pc = "verified", !.proof = {verdict}]
    <3>2. new \in Forms /\ new.proof = {verdict} /\ form' = [form EXCEPT ![p] = new]
      BY <1>0, <3>1 DEF PastInv
    <3> HIDE DEF new
    <3> QED BY <3>1, <3>2, FormGoesOn
  <2>2. CASE ~TurnstileRequired
    <3> DEFINE new == [form[p] EXCEPT !.pc = "verified"]
    <3>1. new \in Forms /\ form' = [form EXCEPT ![p] = new]
      BY <1>0, <1>1, <2>2 DEF Turnstile, Goes, PastInv
    <3> HIDE DEF new
    <3> QED BY <2>2, <3>1, FormGoesOn
  <2> QED BY <2>1, <2>2
<1>2. CASE PayForm(p)
  <2>1. PICK a \in Addresses, n \in 0..MaxFields :
           Fits(n) /\ form' = [form EXCEPT ![p].pc = "paid", ![p].n = n, ![p].paid = {a}]
    BY <1>2 DEF PayForm
  <2> DEFINE new == [form[p] EXCEPT !.pc = "paid", !.n = n, !.paid = {a}]
  <2>2. n \in 0..MaxSources
    BY <2>1, HandlersAssumption DEF Fits
  <2>3. new \in Forms /\ new.proof = form[p].proof /\ form' = [form EXCEPT ![p] = new]
    BY <1>0, <2>1, <2>2 DEF PastInv
  <2>4. form[p].pc = "verified"
    BY <1>2 DEF PayForm, At
  <2> HIDE DEF new
  <2> QED BY <2>3, <2>4, FormGoesOn
<1>3. CASE FetchForm(p)
  <2> DEFINE new == [form[p] EXCEPT !.pc = "fetched", !.paid = {}]
  <2>1. new \in Forms /\ new.proof = form[p].proof /\ form' = [form EXCEPT ![p] = new]
    BY <1>0, <1>3 DEF PastInv, FetchForm
  <2>2. form[p].pc = "paid"
    BY <1>3 DEF FetchForm, At
  <2> HIDE DEF new
  <2> QED BY <2>1, <2>2, FormGoesOn
<1>4. CASE FetchFails(p)
  BY <1>4, FormEnds DEF FetchFails
<1> QED BY <1>1, <1>2, <1>3, <1>4 DEF FormStep

\* A handler begins a POST.
LEMMA FormBegins ==
    ASSUME PastInv, NEW p \in Posts, Goes(p, "posted") PROVE PastInv'
<1> USE DEF Forms, FormStates
<1> DEFINE new == [form[p] EXCEPT !.pc = "posted"]
<1>1. new \in Forms /\ new.pc = "posted" /\ form' = [form EXCEPT ![p] = new]
  BY DEF PastInv, Goes
<1> HIDE DEF new
<1> QED BY <1>1, FormGoesOn

LEMMA FormStepWrite ==
    ASSUME TypeOK, FormInv, NEW p \in Posts, FormStep(p) PROVE WriteInv'
<1> USE HandlersAssumption DEF FormInv, PastInv, WriteInv, At, Posts, TypeOK
<1>1. CASE Turnstile(p)
  <2>1. form[p].pc = "posted" /\ UNCHANGED <<create, manage>>
    BY <1>1 DEF Turnstile, vars, handlers
  <2>2. \A q \in Posts \ {p} : form'[q] = form[q]
    BY <1>1 DEF Turnstile, Goes
  <2> QED BY <2>1, <2>2
<1>2. CASE PayForm(p)
  <2>1. /\ form[p].pc = "verified" /\ UNCHANGED <<create, manage>>
        /\ p \in Managers => manage[p].pc = "loaded"
    BY <1>2 DEF PayForm, vars, handlers
  <2>2. \A q \in Posts \ {p} : form'[q] = form[q]
    BY <1>2 DEF PayForm
  <2> QED BY <2>1, <2>2
<1>3. CASE FetchForm(p)
  <2>1. form[p].pc = "paid" /\ UNCHANGED <<create, manage>>
    BY <1>3 DEF FetchForm, vars, handlers
  <2>2. \A q \in Posts \ {p} : form'[q] = form[q]
    BY <1>3 DEF FetchForm
  <2> QED BY <2>1, <2>2
<1>4. CASE FetchFails(p)
  <2>1. form[p].pc = "paid" /\ UNCHANGED create
    BY <1>4 DEF FetchFails, ManageEnds, vars, handlers
  <2>2. \A q \in Posts \ {p} : form'[q] = form[q]
    BY <1>4 DEF FetchFails, Ends
  <2>3. \A m \in Managers : m = p \/ manage'[m] = manage[m]
    BY <1>4 DEF FetchFails, ManageEnds, vars, handlers
  <2>4. p \in Managers => manage'[p].pc = "idle"
    BY <1>4 DEF FetchFails, ManageEnds
  <2> QED BY <2>1, <2>2, <2>3, <2>4
<1> QED BY <1>1, <1>2, <1>3, <1>4 DEF FormStep

LEMMA CreateStepForm ==
    ASSUME TypeOK, FormInv, CreateStep PROVE FormInv'
<1> USE HandlersAssumption DEF FormInv, WriteInv, At
<1>0. "create" \in Posts /\ \A m \in Managers : m \in Posts /\ m # "create"
  BY DEF Posts
<1>1. CASE PostCreate
  <2>1. PastInv' /\ UNCHANGED <<create, manage>> /\ create.pc = "idle"
    BY <1>0, <1>1, FormBegins DEF PostCreate, vars, handlers
  <2>2. \A m \in Managers : form'[m] = form[m]
    BY <1>0, <1>1 DEF PostCreate, Goes, PastInv
  <2> QED BY <2>1, <2>2
<1>2. CASE RejectCreate
  <2>1. PastInv' /\ UNCHANGED <<create, manage>> /\ create.pc = "idle"
    BY <1>0, <1>2, FormEnds DEF RejectCreate, vars, handlers
  <2>2. \A m \in Managers : form'[m] = form[m]
    BY <1>0, <1>2 DEF RejectCreate, Ends, PastInv
  <2> QED BY <2>1, <2>2
<1>3. CASE StampForm
  <2>1. PastInv' /\ UNCHANGED <<form, manage>>
    BY <1>3, PastSame DEF StampForm, CreateStamp, added
  <2> QED BY <1>3, <2>1 DEF StampForm
<1>4. CASE CreateForm \/ CreateFormFails
  <2>1. PastInv' /\ UNCHANGED manage
    BY <1>0, <1>4, FormEnds DEF CreateForm, CreateFormFails, CreateFeed, CreateFails
  <2>2. create'.pc = "done"
    BY <1>4 DEF CreateForm, CreateFormFails, CreateFeed, CreateFails, TypeOK
  <2>3. \A m \in Managers : form'[m] = form[m]
    BY <1>0, <1>4 DEF CreateForm, CreateFormFails, Ends, PastInv
  <2> QED BY <2>1, <2>2, <2>3
<1> QED BY <1>1, <1>2, <1>3, <1>4 DEF CreateStep

LEMMA ManageStepForm ==
    ASSUME TypeOK, FormInv, NEW m \in Managers, ManagePostStep(m) PROVE FormInv'
<1> USE HandlersAssumption DEF FormInv, WriteInv, At
<1>0. m \in Posts /\ m # "create" /\ "create" \in Posts /\ Managers \subseteq Posts
  BY DEF Posts
<1>1. CASE PostManage(m)
  <2>1. PastInv' /\ UNCHANGED create
    BY <1>0, <1>1, FormBegins DEF PostManage, LoadManaged
  <2>2. manage'[m].pc = "loaded"
    BY <1>1 DEF PostManage, LoadManaged, TypeOK
  <2>3. \A q \in Posts : q = m \/ form'[q] = form[q]
    BY <1>1 DEF PostManage, Goes, PastInv
  <2>4. \A q \in Managers : q = m \/ manage'[q] = manage[q]
    BY <1>1 DEF PostManage, LoadManaged, TypeOK
  <2> QED BY <1>0, <2>1, <2>2, <2>3, <2>4
<1>2. CASE RejectManage(m) \/ Save(m) \/ Rotate(m) \/ Delete(m)
  <2>1. Ends(m) /\ UNCHANGED create
    BY <1>2 DEF RejectManage, Save, Rotate, Delete, ManageEnds, RotateFeedToken, DeleteFeed
  <2>2. manage' = [manage EXCEPT ![m] = [pc |-> "idle", secret |-> 0]]
    BY <1>2 DEF RejectManage, Save, Rotate, Delete, ManageEnds, RotateFeedToken, DeleteFeed
  <2>3. PastInv' /\ \A q \in Posts : q = m \/ form'[q] = form[q]
    BY <1>0, <2>1, FormEnds DEF Ends, PastInv
  <2>4. manage'[m].pc = "idle" /\ \A q \in Managers : q = m \/ manage'[q] = manage[q]
    BY <2>2 DEF TypeOK
  <2> QED BY <1>0, <2>1, <2>3, <2>4
<1>3. CASE GenerateForm(m)
  <2>1. PastInv' /\ UNCHANGED <<create, form>> /\ form[m].pc = "verified"
    BY <1>3, PastSame DEF GenerateForm, Generate, added
  <2>2. \A q \in Managers : q = m \/ manage'[q] = manage[q]
    BY <1>3 DEF GenerateForm, Generate, TypeOK
  <2> QED BY <2>1, <2>2
<1> QED BY <1>1, <1>2, <1>3 DEF ManagePostStep

LEMMA FormSame ==
    ASSUME FormInv, UNCHANGED <<form, create, manage>> PROVE FormInv'
BY PastSame DEF FormInv, WriteInv, At

LEMMA FormKept ==
    ASSUME TypeOK, FormInv, [HNext]_hvars PROVE FormInv'
<1>1. CASE \E p \in Posts : FormStep(p)
  BY <1>1, FormStepPast, FormStepWrite DEF FormInv
<1>2. CASE CreateStep \/ \E m \in Managers : ManagePostStep(m)
  BY <1>2, CreateStepForm, ManageStepForm
<1>3. ASSUME NEW r \in Requests,
             AskRefresh(r) \/ TakeResult(r) \/ RefuseICS(r) \/ OutsideRefresh(r)
      PROVE  UNCHANGED <<form, create, manage>>
  <2>1. CASE AskRefresh(r) \/ TakeResult(r)
    BY <2>1 DEF AskRefresh, TakeResult, RefreshReturns, RefreshFails, Refused,
                vars, handlers
  <2>2. CASE RefuseICS(r) \/ OutsideRefresh(r)
    BY <2>2 DEF RefuseICS, OutsideRefresh, Refused, Begin, Lookup, NotFound,
                Serve, TouchFails, Leave, added
  <2> QED BY <1>3, <2>1, <2>2
<1>4. CASE \E f \in flight : RunStep(f)
  BY <1>4, RunChangesNoRow, FormSame DEF vars, handlers
<1>5. CASE Reap
  BY <1>5, FormSame DEF Reap, DeleteStaleFeeds, handlers
<1>6. CASE ProcessRestarts
  <2>1. PastInv'
    BY <1>6, NoFormTyped DEF ProcessRestarts, PastInv, NoForm
  <2>2. WriteInv'
    BY <1>6 DEF ProcessRestarts, Restart, TypeOK, WriteInv
  <2> QED BY <2>1, <2>2 DEF FormInv
<1>7. CASE (RunOnce \/ RunFails \/ Tick) /\ UNCHANGED added
  BY <1>7, FormSame DEF RunOnce, RunFails, Tick, handlers, added
<1>8. CASE UNCHANGED hvars
  BY <1>8, FormSame DEF hvars, vars, handlers, added
<1> QED BY <1>1, <1>2, <1>3, <1>4, <1>5, <1>6, <1>7, <1>8, FormSame DEF HNext

(* No save, rotation, deletion or creation writes the row before           *)
(* siteverify accepted that POST for its own surface (checkTurnstile),     *)
(* whatever else is under way and however often the process restarts.      *)
THEOREM NothingChangesUnverified == HSpec => ChangesVerified
<1>1. HInit => FormInv
  BY NoFormTyped DEF HInit, Init, FormInv, PastInv, WriteInv, NoForm
<1>2. TypeOK /\ FormInv /\ [HNext]_hvars => FormInv'
  BY FormKept
<1>3. TypeOK /\ FormInv /\ [HNext]_hvars =>
        [/\ CreateForm => Verified("create")
         /\ \A m \in Managers : Save(m) \/ Rotate(m) \/ Delete(m) => Verified(m)]_hvars
  <2> SUFFICES ASSUME FormInv
               PROVE  /\ CreateForm => Verified("create")
                      /\ \A m \in Managers :
                           Save(m) \/ Rotate(m) \/ Delete(m) => Verified(m)
    OBVIOUS
  <2>1. \A p \in Posts : form[p].pc \in {"verified", "fetched"} => Verified(p)
    BY DEF FormInv, PastInv
  <2>2. CreateForm => form["create"].pc = "fetched"
    BY DEF CreateForm, CreateFeed, FormInv, WriteInv, At
  <2>3. ASSUME NEW m \in Managers, Save(m) \/ Rotate(m) \/ Delete(m)
        PROVE  form[m].pc \in {"verified", "fetched"}
    BY <2>3 DEF Save, Rotate, Delete, RotateFeedToken, FormInv, WriteInv, At
  <2> QED BY <2>1, <2>2, <2>3 DEF Posts
<1>4. HSpec => []TypeOK
  BY HandlersAreFeedAccess, AccessTyped, PTL DEF AsFeedAccess
<1> QED BY <1>1, <1>2, <1>3, <1>4, PTL DEF HSpec, ChangesVerified

-----------------------------------------------------------------------------
(* Types, and how many sources a feed has. *)

Flights == [pc : {"load", "decide", "fetched"}, n : 0..MaxSources, ip : Addresses]

Results == {"none", "shares", "body", "limited", "error"}

Counters == [Addresses -> Nat]

(* A form that has paid has a URL: what a save and a creation write. *)
PaidInv ==
    /\ form \in [Posts -> Forms]
    /\ \A p \in Posts : form[p].pc \in {"paid", "fetched"} => form[p].n >= 1

RestInv ==
    /\ ask \in [Requests -> Results]
    /\ flight \in SUBSET Flights
    /\ hits \in Counters /\ gets \in Counters

RowsInv == IF feed = {} THEN rows = 0 ELSE rows \in 1..MaxSources

CountInv == PaidInv /\ RestInv /\ RowsInv

LEMMA CountCounts ==
    ASSUME NEW counter \in Counters, NEW a \in Addresses, NEW n \in Nat
    PROVE  Count(counter, a, n) \in Counters
BY DEF Count, Counters

LEMMA FormPays ==
    ASSUME PaidInv, NEW p \in Posts, FormStep(p) PROVE PaidInv'
<1> USE HandlersAssumption DEF PaidInv, Forms, FormStates
<1>1. CASE Turnstile(p)
  <2>1. CASE TurnstileRequired
    <3>1. PICK verdict \in Verdicts :
             form' = [form EXCEPT ![p].pc = "verified", ![p].proof = {verdict}]
      BY <1>1, <2>1 DEF Turnstile
    <3> QED BY <3>1
  <2>2. CASE ~TurnstileRequired
    BY <1>1, <2>2 DEF Turnstile, Goes
  <2> QED BY <2>1, <2>2
<1>2. CASE PayForm(p)
  <2>1. PICK a \in Addresses, n \in 0..MaxFields :
           Fits(n) /\ form' = [form EXCEPT ![p].pc = "paid", ![p].n = n, ![p].paid = {a}]
    BY <1>2 DEF PayForm
  <2> DEFINE new == [form[p] EXCEPT !.pc = "paid", !.n = n, !.paid = {a}]
  <2>2. n \in 1..MaxSources
    BY <2>1 DEF Fits
  <2>3. form[p] \in Forms
    OBVIOUS
  <2>4. new.n = n /\ new.pc = "paid" /\ new.paid = {a} /\ new.proof = form[p].proof
    BY <2>3
  <2>6. n \in 0..MaxSources /\ {a} \in SUBSET Addresses
    BY <2>2
  <2>7. new \in Forms
    BY <2>3, <2>6
  <2>5. form' = [form EXCEPT ![p] = new]
    BY <2>1
  <2> HIDE DEF new
  <2> QED BY <2>2, <2>4, <2>5, <2>7
<1>3. CASE FetchForm(p)
  BY <1>3 DEF FetchForm, At
<1>4. CASE FetchFails(p)
  BY <1>4, NoFormTyped DEF FetchFails, Ends, NoForm
<1> QED BY <1>1, <1>2, <1>3, <1>4 DEF FormStep

LEMMA FormCounts ==
    ASSUME CountInv, NEW p \in Posts, FormStep(p) PROVE RestInv'
<1> USE HandlersAssumption DEF CountInv, RestInv
<1>0. UNCHANGED <<ask, flight>>
  BY DEF FormStep, Turnstile, PayForm, FetchForm, FetchFails
<1>1. CASE Turnstile(p)
  BY <1>0, <1>1 DEF Turnstile
<1>2. CASE PayForm(p)
  <2>1. PICK a \in Addresses, n \in 0..MaxFields : hits' = Count(hits, a, n)
    BY <1>2 DEF PayForm
  <2> QED BY <1>0, <1>2, <2>1, CountCounts DEF PayForm
<1>3. CASE FetchForm(p) \/ FetchFails(p)
  <2>1. PICK a \in form[p].paid : GetAll(a, form[p].n, {a} \ {a})
    BY <1>3 DEF FetchForm, FetchFails, FormQuota
  <2>2. a \in Addresses /\ form[p].n \in Nat
    BY DEF PaidInv, Forms
  <2> QED BY <1>0, <2>1, <2>2, CountCounts DEF GetAll
<1> QED BY <1>1, <1>2, <1>3 DEF FormStep

LEMMA CreateCounts == ASSUME CountInv, FormInv, CreateStep PROVE CountInv'
<1> USE HandlersAssumption DEF CountInv, PaidInv, Forms, FormStates
<1>0. "create" \in Posts
  BY DEF Posts
<1>1. RestInv'
  BY DEF CreateStep, PostCreate, RejectCreate, StampForm, CreateForm,
         CreateFormFails, added, RestInv
<1>2. PaidInv'
  <2>1. CASE PostCreate
    BY <1>0, <2>1 DEF PostCreate, Goes
  <2>2. CASE RejectCreate \/ CreateForm \/ CreateFormFails
    BY <1>0, <2>2, NoFormTyped DEF RejectCreate, CreateForm, CreateFormFails, Ends, NoForm
  <2>3. CASE StampForm
    BY <2>3 DEF StampForm, added
  <2> QED BY <2>1, <2>2, <2>3 DEF CreateStep
<1>3. RowsInv'
  <2>1. CASE CreateForm
    <3>1. form["create"].n \in 1..MaxSources
      BY <1>0, <2>1 DEF CreateForm, CreateFeed, FormInv, WriteInv, At
    <3> QED BY <2>1, <3>1 DEF CreateForm, CreateFeed, RowsInv
  <2>2. CASE PostCreate \/ RejectCreate \/ StampForm \/ CreateFormFails
    BY <2>2 DEF PostCreate, RejectCreate, StampForm, CreateFormFails, CreateStamp,
                CreateFails, vars, added, RowsInv
  <2> QED BY <2>1, <2>2 DEF CreateStep
<1> QED BY <1>1, <1>2, <1>3

LEMMA ManageCounts ==
    ASSUME CountInv, FormInv, NEW m \in Managers, ManagePostStep(m) PROVE CountInv'
<1> USE HandlersAssumption DEF CountInv, PaidInv, Forms, FormStates
<1>0. m \in Posts
  BY DEF Posts
<1>1. RestInv'
  BY DEF ManagePostStep, PostManage, RejectManage, Save, GenerateForm, Rotate,
         Delete, added, RestInv
<1>2. PaidInv'
  <2>1. CASE PostManage(m)
    BY <1>0, <2>1 DEF PostManage, Goes
  <2>2. CASE RejectManage(m) \/ Save(m) \/ Rotate(m) \/ Delete(m)
    BY <1>0, <2>2, NoFormTyped DEF RejectManage, Save, Rotate, Delete, Ends, NoForm
  <2>3. CASE GenerateForm(m)
    BY <2>3 DEF GenerateForm, added
  <2> QED BY <2>1, <2>2, <2>3 DEF ManagePostStep
<1>3. RowsInv'
  <2>1. CASE Save(m)
    <3>1. form[m].n \in 1..MaxSources
      BY <1>0, <2>1 DEF Save, At
    <3> QED BY <2>1, <3>1 DEF Save, ManageEnds, RowsInv
  <2>2. CASE PostManage(m) \/ RejectManage(m) \/ GenerateForm(m)
    BY <2>2 DEF PostManage, RejectManage, GenerateForm, LoadManaged, ManageEnds,
                Generate, added, RowsInv
  <2>3. CASE Rotate(m)
    <3>1. feed # {} /\ UNCHANGED rows
      BY <2>3 DEF Rotate, RotateFeedToken
    <3>2. feed' = {[f EXCEPT !.secret = manage[m].secret] : f \in feed}
      BY <2>3 DEF Rotate, RotateFeedToken
    <3>3. PICK f \in feed : TRUE
      BY <3>1
    <3>4. [f EXCEPT !.secret = manage[m].secret] \in feed'
      BY <3>2, <3>3
    <3> QED BY <3>1, <3>4 DEF RowsInv
  <2>4. CASE Delete(m)
    BY <2>4 DEF Delete, DeleteFeed, RowsInv
  <2> QED BY <2>1, <2>2, <2>3, <2>4 DEF ManagePostStep
<1> QED BY <1>1, <1>2, <1>3

LEMMA AskCounts ==
    ASSUME RestInv, NEW r \in Requests,
           AskRefresh(r) \/ TakeResult(r) \/ RefuseICS(r) \/ OutsideRefresh(r)
    PROVE  RestInv' /\ UNCHANGED form
<1> USE HandlersAssumption DEF RestInv, Results, Flights
<1>1. CASE AskRefresh(r)
  BY <1>1 DEF AskRefresh
<1>2. CASE TakeResult(r)
  BY <1>2 DEF TakeResult
<1>3. CASE RefuseICS(r) \/ OutsideRefresh(r)
  BY <1>3 DEF RefuseICS, OutsideRefresh, added
<1> QED BY <1>1, <1>2, <1>3

LEMMA RunCounts ==
    ASSUME RestInv, RowsInv, NEW f \in flight, RunStep(f) PROVE RestInv'
<1> USE HandlersAssumption DEF RestInv
<1>0. f \in Flights
  OBVIOUS
<1>1. CASE RunLoads(f)
  <2>1. rows \in 0..MaxSources
    BY DEF RowsInv
  <2>2. [f EXCEPT !.pc = "decide", !.n = rows] \in Flights
    BY <1>0, <2>1 DEF Flights
  <2> QED BY <1>1, <2>2 DEF RunLoads
<1>2. CASE RunFetches(f)
  <2>1. [f EXCEPT !.pc = "fetched"] \in Flights
    BY <1>0 DEF Flights
  <2>2. f.ip \in Addresses /\ f.n \in Nat
    BY <1>0 DEF Flights
  <2>3. hits' \in Counters /\ gets' \in Counters
    BY <1>2, <2>2, CountCounts DEF RunFetches, GetAll
  <2> QED BY <1>2, <2>1, <2>3 DEF RunFetches
<1>3. ASSUME NEW result \in Results, RunEnds(result), UNCHANGED <<hits, gets>>
      PROVE  RestInv'
  BY <1>3 DEF RunEnds
<1>4. CASE RunFresh(f) \/ RunLimited(f) \/ RunMerges(f) \/ RunBreaks(f)
  BY <1>3, <1>4 DEF RunFresh, RunLimited, RunMerges, RunBreaks, Results
<1> QED BY <1>1, <1>2, <1>4 DEF RunStep

LEMMA CountKept ==
    ASSUME CountInv, FormInv, [HNext]_hvars PROVE CountInv'
<1> USE HandlersAssumption DEF CountInv
<1>1. ASSUME NEW p \in Posts, FormStep(p) PROVE CountInv'
  <2>1. PaidInv' /\ RestInv'
    BY <1>1, FormPays, FormCounts
  <2>2. UNCHANGED <<feed, rows>>
    BY <1>1, FormKeepsRow
  <2> QED BY <2>1, <2>2 DEF RowsInv
<1>2. CASE CreateStep \/ \E m \in Managers : ManagePostStep(m)
  BY <1>2, CreateCounts, ManageCounts
<1>3. ASSUME NEW r \in Requests,
             AskRefresh(r) \/ TakeResult(r) \/ RefuseICS(r) \/ OutsideRefresh(r)
      PROVE  CountInv'
  BY <1>3, AskCounts, AskKeepsFeed DEF PaidInv, RowsInv
<1>4. ASSUME NEW f \in flight, RunStep(f) PROVE CountInv'
  BY <1>4, RunCounts, RunChangesNoRow DEF PaidInv, RowsInv, vars
<1>5. CASE Reap
  BY <1>5 DEF Reap, DeleteStaleFeeds, PaidInv, RestInv, RowsInv
<1>6. CASE ProcessRestarts
  BY <1>6, NoFormTyped
     DEF ProcessRestarts, Restart, PaidInv, RestInv, RowsInv, NoForm, Results, Counters
<1>7. CASE (RunOnce \/ RunFails \/ Tick) /\ UNCHANGED added
  BY <1>7 DEF RunOnce, RunFails, Tick, added, PaidInv, RestInv, RowsInv
<1>8. CASE UNCHANGED hvars
  BY <1>8 DEF hvars, vars, added, PaidInv, RestInv, RowsInv
<1> QED BY <1>1, <1>2, <1>3, <1>4, <1>5, <1>6, <1>7, <1>8 DEF HNext

(* Forms, runs and counters keep their types, and a feed always has        *)
(* between one and MaxSources sources, a deleted one none: CreateFeed and  *)
(* UpdateFeed write what parseFormSources let through.                     *)
THEOREM HandlersTyped == HSpec => []HTypeOK
<1>1. HInit => CountInv /\ FormInv
  BY NoFormTyped DEF HInit, Init, CountInv, PaidInv, RestInv, RowsInv, NoForm,
     Results, Counters, FormInv, PastInv, WriteInv
<1>2. TypeOK /\ CountInv /\ FormInv /\ [HNext]_hvars => CountInv' /\ FormInv'
  BY CountKept, FormKept
<1>3. CountInv => HTypeOK
  BY DEF CountInv, PaidInv, RestInv, RowsInv, HTypeOK, Forms, FormStates, Flights,
         Results, Counters
<1>4. HSpec => []TypeOK
  BY HandlersAreFeedAccess, AccessTyped, PTL DEF AsFeedAccess
<1> QED BY <1>1, <1>2, <1>3, <1>4, PTL DEF HSpec

-----------------------------------------------------------------------------
(* The quota.  What is owed to an address are the GETs of the forms that   *)
(* have paid: PayForm adds those of one form, its download takes them off, *)
(* and no other step touches them, because a form that ends has none.      *)

(* Only a form about to fetch has paid, and from one address. *)
PayInv ==
    \A p \in Posts :
        /\ form[p].pc # "paid" => form[p].paid = {}
        /\ \A a, b \in form[p].paid : a = b

(* A manage request has no form when it is over. *)
BusyInv == \A m \in Managers : manage[m].pc = "idle" => At(m, "idle")

QuotaInv == PayInv /\ QuotaPaysForGets

LEMMA BusyKept ==
    ASSUME TypeOK, FormInv, BusyInv, [HNext]_hvars PROVE BusyInv'
<1> USE HandlersAssumption DEF BusyInv, FormInv, PastInv, At, TypeOK
<1>0. /\ "create" \in Posts
      /\ \A m \in Managers : m \in Posts /\ m # "create"
  BY DEF Posts
<1>1. ASSUME NEW p \in Posts, FormStep(p) PROVE BusyInv'
  <2>1. form[p].pc # "idle"
    BY <1>1 DEF FormStep, Turnstile, PayForm, FetchForm, FetchFails
  <2>2. \A q \in Posts : q = p \/ form'[q] = form[q]
    BY <1>1 DEF FormStep, Turnstile, Goes, PayForm, FetchForm, FetchFails, Ends
  <2>3. CASE FetchFails(p)
    BY <1>0, <2>2, <2>3 DEF FetchFails, Ends, NoForm, ManageEnds, vars, handlers
  <2>4. CASE ~FetchFails(p)
    <3>1. UNCHANGED manage
      BY <1>1, <2>4 DEF FormStep, Turnstile, PayForm, FetchForm, vars, handlers
    <3> QED BY <1>0, <2>1, <2>2, <3>1
  <2> QED BY <2>3, <2>4
<1>2. CASE CreateStep
  <2>1. UNCHANGED manage
    BY <1>2 DEF CreateStep, PostCreate, RejectCreate, StampForm, CreateForm,
                CreateFormFails, CreateStamp, CreateFeed, CreateFails, vars, handlers
  <2>2. \A m \in Managers : form'[m] = form[m]
    BY <1>0, <1>2 DEF CreateStep, PostCreate, Goes, RejectCreate, StampForm,
                CreateForm, CreateFormFails, Ends, added
  <2> QED BY <2>1, <2>2
<1>3. ASSUME NEW m \in Managers, ManagePostStep(m) PROVE BusyInv'
  <2>1. CASE RejectManage(m) \/ Save(m) \/ Rotate(m) \/ Delete(m)
    <3>1. /\ form' = [form EXCEPT ![m] = NoForm]
          /\ \A q \in Managers : q = m \/ manage'[q] = manage[q]
      BY <2>1 DEF RejectManage, Save, Rotate, Delete, Ends, ManageEnds,
                  RotateFeedToken, DeleteFeed
    <3> QED BY <1>0, <3>1 DEF NoForm
  <2>2. CASE PostManage(m) \/ GenerateForm(m)
    <3>1. /\ \A q \in Managers : q = m \/ (manage'[q] = manage[q] /\ form'[q] = form[q])
          /\ manage'[m].pc # "idle"
      BY <1>0, <2>2 DEF PostManage, GenerateForm, LoadManaged, Generate, Goes, added
    <3> QED BY <3>1
  <2> QED BY <1>3, <2>1, <2>2 DEF ManagePostStep
<1>4. ASSUME NEW r \in Requests,
             AskRefresh(r) \/ TakeResult(r) \/ RefuseICS(r) \/ OutsideRefresh(r)
      PROVE  UNCHANGED <<form, manage>>
  <2>1. CASE AskRefresh(r) \/ TakeResult(r)
    BY <2>1 DEF AskRefresh, TakeResult, RefreshReturns, RefreshFails, Refused,
                vars, handlers
  <2>2. CASE RefuseICS(r) \/ OutsideRefresh(r)
    BY <2>2 DEF RefuseICS, OutsideRefresh, Refused, Begin, Lookup, NotFound,
                Serve, TouchFails, Leave, added
  <2> QED BY <1>4, <2>1, <2>2
<1>5. CASE \E f \in flight : RunStep(f)
  BY <1>5, RunChangesNoRow DEF vars, handlers
<1>6. CASE Reap
  BY <1>6 DEF Reap, DeleteStaleFeeds, handlers
<1>7. CASE ProcessRestarts
  BY <1>7 DEF ProcessRestarts, NoForm, Posts
<1>8. CASE (RunOnce \/ RunFails \/ Tick) /\ UNCHANGED added
  BY <1>8 DEF RunOnce, RunFails, Tick, handlers, added
<1>9. CASE UNCHANGED hvars
  BY <1>9 DEF hvars, vars, handlers, added
<1> QED BY <1>1, <1>2, <1>3, <1>4, <1>5, <1>6, <1>7, <1>8, <1>9 DEF HNext

LEMMA PostsFinite == IsFiniteSet(Posts)
BY HandlersAssumption, FS_AddElement DEF Posts

LEMMA OwedFinite ==
    ASSUME NEW a PROVE IsFiniteSet(Owed(a)) /\ Cardinality(Owed(a)) \in Nat
<1>1. IsFiniteSet(1..MaxSources)
  BY HandlersAssumption, FS_Interval
<1>2. IsFiniteSet(Posts \X (1..MaxSources))
  BY <1>1, PostsFinite, FS_Product
<1>3. Owed(a) \subseteq Posts \X (1..MaxSources)
  BY DEF Owed
<1>4. IsFiniteSet(Owed(a))
  BY <1>2, <1>3, FS_Subset
<1> QED BY <1>4, FS_CardinalityType

LEMMA URLsOfForm ==
    ASSUME NEW p, NEW n \in Nat
    PROVE  IsFiniteSet({p} \X (1..n)) /\ Cardinality({p} \X (1..n)) = n
<1>1. IsFiniteSet({p}) /\ Cardinality({p}) = 1
  BY FS_Singleton
<1>2. IsFiniteSet(1..n) /\ Cardinality(1..n) = n
  BY FS_Interval
<1>3. /\ IsFiniteSet({p} \X (1..n))
      /\ Cardinality({p} \X (1..n)) = Cardinality({p}) * Cardinality(1..n)
  BY <1>1, <1>2, FS_Product
<1> QED BY <1>1, <1>2, <1>3

LEMMA DisjointForm ==
    ASSUME NEW S, IsFiniteSet(S), NEW p, NEW n \in Nat, S \cap ({p} \X (1..n)) = {}
    PROVE  Cardinality(S \union ({p} \X (1..n))) = Cardinality(S) + n
<1> DEFINE U == {p} \X (1..n)
<1>1. IsFiniteSet(U) /\ Cardinality(U) = n
  BY URLsOfForm
<1>2. Cardinality(S \cap U) = 0 /\ Cardinality(S) \in Nat
  BY FS_EmptySet, FS_CardinalityType
<1> HIDE DEF U
<1>3. Cardinality(S \union U) = Cardinality(S) + Cardinality(U) - Cardinality(S \cap U)
  BY <1>1, FS_Union
<1> QED BY <1>1, <1>2, <1>3 DEF U

\* What an address owes depends on the forms it has paid for.
LEMMA OwedSame ==
    ASSUME NEW a,
           \A q \in Posts : form'[q].paid = form[q].paid,
           \A q \in Posts : form[q].paid # {} => form'[q].n = form[q].n
    PROVE  Owed(a)' = Owed(a)
BY DEF Owed

\* Nothing is paid, and the counters stand.
LEMMA QuotaKept ==
    ASSUME QuotaInv, UNCHANGED <<hits, gets>>,
           \A q \in Posts : \/ form'[q] = form[q]
                            \/ form[q].paid = {} /\ form'[q].paid = {}
    PROVE  QuotaInv'
<1>1. PayInv'
  BY DEF QuotaInv, PayInv
<1>2. \A a : Owed(a)' = Owed(a)
  BY OwedSame
<1> QED BY <1>1, <1>2 DEF QuotaInv, QuotaPaysForGets, Spent

LEMMA FormIsPaid ==
    ASSUME CountInv, QuotaInv, NEW p \in Posts, PayForm(p) PROVE QuotaInv'
<1> USE HandlersAssumption DEF CountInv, PaidInv, RestInv, Counters
<1>1. PICK a \in Addresses, n \in 0..MaxFields :
         /\ Fits(n) /\ Room(a, n) /\ hits' = Count(hits, a, n)
         /\ form' = [form EXCEPT ![p].pc = "paid", ![p].n = n, ![p].paid = {a}]
  BY DEF PayForm
<1>2. form[p].paid = {}
  BY DEF PayForm, At, QuotaInv, PayInv
<1>3. n \in 1..MaxSources
  BY <1>1 DEF Fits
<1>4. /\ form'[p].pc = "paid" /\ form'[p].n = n /\ form'[p].paid = {a}
      /\ \A q \in Posts \ {p} : form'[q] = form[q]
  BY <1>1 DEF Forms
<1>5. PayInv'
  BY <1>4 DEF QuotaInv, PayInv
<1>6. Owed(a)' = Owed(a) \union ({p} \X (1..n))
  BY <1>2, <1>3, <1>4 DEF Owed
<1>7. Owed(a) \cap ({p} \X (1..n)) = {}
  BY <1>2 DEF Owed
<1>8. Cardinality(Owed(a)') = Cardinality(Owed(a)) + n
  <2>1. n \in Nat
    BY <1>3
  <2>2. Cardinality(Owed(a) \union ({p} \X (1..n))) = Cardinality(Owed(a)) + n
    BY <1>7, <2>1, OwedFinite, DisjointForm
  <2> QED BY <1>6, <2>2
<1>9. ASSUME NEW b \in Addresses PROVE (hits[b] = Spent(b) /\ hits[b] <= OriginLimit)'
  <2>1. gets' = gets
    BY DEF PayForm
  <2>2. CASE b = a
    <3>1. hits'[a] = hits[a] + n
      BY <1>1 DEF Count
    <3> QED BY <1>1, <1>8, <2>1, <2>2, <3>1, OwedFinite
            DEF QuotaInv, QuotaPaysForGets, Spent, Room
  <2>3. CASE b # a
    <3>1. Owed(b)' = Owed(b)
      BY <1>2, <1>4, <2>3 DEF Owed
    <3>2. hits'[b] = hits[b]
      BY <1>1, <2>3 DEF Count
    <3> QED BY <2>1, <3>1, <3>2 DEF QuotaInv, QuotaPaysForGets, Spent
  <2> QED BY <2>2, <2>3
<1> QED BY <1>5, <1>9 DEF QuotaInv, QuotaPaysForGets

LEMMA FormIsFetched ==
    ASSUME CountInv, QuotaInv, NEW p \in Posts, FetchForm(p) \/ FetchFails(p)
    PROVE  QuotaInv'
<1> USE HandlersAssumption DEF CountInv, PaidInv, RestInv, Counters
<1>1. PICK a \in form[p].paid : GetAll(a, form[p].n, FormQuota(a))
  BY DEF FetchForm, FetchFails
<1>2. form[p].paid = {a}
  BY DEF QuotaInv, PayInv
<1> DEFINE n == form[p].n
<1>3. n \in 0..MaxSources /\ a \in Addresses
  BY DEF Forms
<1>4. form'[p].pc # "paid" /\ form'[p].paid = {} /\ \A q \in Posts \ {p} : form'[q] = form[q]
  BY DEF FetchForm, FetchFails, Ends, NoForm, Forms
<1>5. PayInv'
  BY <1>4 DEF QuotaInv, PayInv
<1>6. Owed(a) = Owed(a)' \union ({p} \X (1..n))
  BY <1>2, <1>3, <1>4 DEF Owed
<1>7. Owed(a)' \cap ({p} \X (1..n)) = {}
  BY <1>4 DEF Owed
<1>8. Owed(a)' \subseteq Owed(a)
  BY <1>6
<1>9. IsFiniteSet(Owed(a)') /\ Cardinality(Owed(a)') \in Nat
  BY <1>8, OwedFinite, FS_Subset, FS_CardinalityType
<1>10. Cardinality(Owed(a)) = Cardinality(Owed(a)') + n
  <2>1. n \in Nat
    BY <1>3
  <2> HIDE DEF n
  <2>2. Cardinality(Owed(a)' \union ({p} \X (1..n))) = Cardinality(Owed(a)') + n
    BY <1>7, <1>9, <2>1, DisjointForm
  <2> QED BY <1>6, <2>2
<1>11. hits' = hits /\ gets' = Count(gets, a, n)
  BY <1>1 DEF GetAll, FormQuota
<1>12. ASSUME NEW b \in Addresses PROVE (hits[b] = Spent(b) /\ hits[b] <= OriginLimit)'
  <2>1. CASE b = a
    <3>1. gets'[a] = gets[a] + n
      BY <1>3, <1>11 DEF Count
    <3> QED BY <1>3, <1>9, <1>10, <1>11, <2>1, <3>1
            DEF QuotaInv, QuotaPaysForGets, Spent
  <2>2. CASE b # a
    <3>1. Owed(b)' = Owed(b)
      BY <1>2, <1>4, <2>2 DEF Owed
    <3>2. gets'[b] = gets[b]
      BY <1>11, <2>2 DEF Count
    <3> QED BY <1>11, <3>1, <3>2 DEF QuotaInv, QuotaPaysForGets, Spent
  <2> QED BY <2>1, <2>2
<1> QED BY <1>5, <1>12 DEF QuotaInv, QuotaPaysForGets

LEMMA RunIsPaid ==
    ASSUME CountInv, QuotaInv, NEW f \in flight, RunFetches(f) PROVE QuotaInv'
<1> USE HandlersAssumption DEF CountInv, RestInv, Counters
<1>1. f.ip \in Addresses /\ f.n \in Nat
  BY DEF Flights
<1>2. /\ Room(f.ip, f.n) /\ UNCHANGED form
      /\ gets' = Count(gets, f.ip, f.n) /\ hits' = Count(hits, f.ip, f.n)
  BY DEF RunFetches, RunQuota, GetAll
<1>3. PayInv' /\ \A b : Owed(b)' = Owed(b)
  BY <1>2, OwedSame DEF QuotaInv, PayInv
<1>4. ASSUME NEW b \in Addresses PROVE (hits[b] = Spent(b) /\ hits[b] <= OriginLimit)'
  <2>1. hits[b] = Spent(b) /\ hits[b] <= OriginLimit
    BY DEF QuotaInv, QuotaPaysForGets
  <2>2. CASE b = f.ip
    <3>1. hits'[b] = hits[b] + f.n /\ gets'[b] = gets[b] + f.n
      BY <1>1, <1>2, <2>2 DEF Count
    <3>2. Cardinality(Owed(b)') = Cardinality(Owed(b))
      BY <1>3
    <3>3. hits[b] \in Nat /\ gets[b] \in Nat /\ Cardinality(Owed(b)) \in Nat
      BY OwedFinite
    <3>4. hits[b] + f.n <= OriginLimit
      BY <1>2, <2>2 DEF Room
    <3> QED BY <1>1, <2>1, <3>1, <3>2, <3>3, <3>4 DEF Spent
  <2>3. CASE b # f.ip
    <3>1. hits'[b] = hits[b] /\ gets'[b] = gets[b]
      BY <1>2, <2>3 DEF Count
    <3> QED BY <1>3, <2>1, <3>1 DEF Spent
  <2> QED BY <2>2, <2>3
<1> QED BY <1>3, <1>4 DEF QuotaInv, QuotaPaysForGets

\* A POST that is over, or goes on without having paid.
LEMMA UnpaidEnds ==
    ASSUME PaidInv, QuotaInv, UNCHANGED <<hits, gets>>,
           NEW p \in Posts, form[p].pc # "paid",
           Ends(p) \/ Goes(p, "posted") \/ Goes(p, "verified")
    PROVE  QuotaInv'
<1>1. form[p].paid = {} /\ form'[p].paid = {}
  BY DEF QuotaInv, PayInv, PaidInv, Forms, Ends, NoForm, Goes
<1>2. \A q \in Posts \ {p} : form'[q] = form[q]
  BY DEF Ends, Goes, PaidInv
<1> QED BY <1>1, <1>2, QuotaKept

LEMMA QuotaFormStep ==
    ASSUME CountInv, QuotaInv, NEW p \in Posts, FormStep(p) PROVE QuotaInv'
<1>1. CASE Turnstile(p)
  <2>1. form[p].paid = {} /\ form'[p].paid = {}
    BY <1>1 DEF Turnstile, Goes, At, QuotaInv, PayInv, CountInv, PaidInv, Forms
  <2>2. UNCHANGED <<hits, gets>> /\ \A q \in Posts \ {p} : form'[q] = form[q]
    BY <1>1 DEF Turnstile, Goes, CountInv, PaidInv
  <2> QED BY <2>1, <2>2, QuotaKept
<1> QED BY <1>1, FormIsPaid, FormIsFetched DEF FormStep

LEMMA QuotaPostStep ==
    ASSUME CountInv, FormInv, BusyInv, QuotaInv,
           CreateStep \/ \E m \in Managers : ManagePostStep(m)
    PROVE  QuotaInv'
<1>1. CASE CreateStep
  <2>0. "create" \in Posts /\ PaidInv
    BY DEF Posts, CountInv
  <2>1. CASE PostCreate \/ RejectCreate
    BY <2>0, <2>1, UnpaidEnds DEF PostCreate, RejectCreate, At
  <2>2. CASE StampForm
    BY <2>2, QuotaKept DEF StampForm, added
  <2>3. CASE CreateForm \/ CreateFormFails
    <3>1. form["create"].pc # "paid"
      BY <2>3 DEF CreateForm, CreateFormFails, CreateFeed, CreateFails, FormInv,
                  WriteInv, At
    <3> QED BY <2>0, <2>3, <3>1, UnpaidEnds DEF CreateForm, CreateFormFails
  <2> QED BY <1>1, <2>1, <2>2, <2>3 DEF CreateStep
<1>2. ASSUME NEW m \in Managers, ManagePostStep(m) PROVE QuotaInv'
  <2>0. m \in Posts /\ PaidInv
    BY DEF Posts, CountInv
  <2>1. CASE PostManage(m)
    <3>1. form[m].pc # "paid"
      BY <2>1 DEF PostManage, LoadManaged, BusyInv, At
    <3> QED BY <2>0, <2>1, <3>1, UnpaidEnds DEF PostManage
  <2>2. CASE GenerateForm(m)
    BY <2>2, QuotaKept DEF GenerateForm, added
  <2>3. CASE RejectManage(m) \/ Save(m) \/ Rotate(m) \/ Delete(m)
    <3>1. form[m].pc # "paid"
      BY <2>3 DEF RejectManage, Save, Rotate, Delete, RotateFeedToken, FormInv,
                  WriteInv, At
    <3> QED BY <2>0, <2>3, <3>1, UnpaidEnds DEF RejectManage, Save, Rotate, Delete
  <2> QED BY <1>2, <2>1, <2>2, <2>3 DEF ManagePostStep
<1> QED BY <1>1, <1>2

LEMMA QuotaStep ==
    ASSUME CountInv, FormInv, BusyInv, QuotaInv, [HNext]_hvars PROVE QuotaInv'
<1>1. CASE \E p \in Posts : FormStep(p)
  BY <1>1, QuotaFormStep
<1>2. CASE CreateStep \/ \E m \in Managers : ManagePostStep(m)
  BY <1>2, QuotaPostStep
<1>3. ASSUME NEW r \in Requests,
             AskRefresh(r) \/ TakeResult(r) \/ RefuseICS(r) \/ OutsideRefresh(r)
      PROVE  QuotaInv'
  BY <1>3, QuotaKept DEF AskRefresh, TakeResult, RefuseICS, OutsideRefresh, added
<1>4. ASSUME NEW f \in flight, RunStep(f) PROVE QuotaInv'
  <2>1. CASE RunFetches(f)
    BY <2>1, RunIsPaid
  <2>2. CASE ~RunFetches(f)
    <3>1. UNCHANGED <<form, hits, gets>>
      BY <1>4, <2>2 DEF RunStep, RunLoads, RunFresh, RunLimited, RunMerges, RunBreaks
    <3> QED BY <3>1, QuotaKept
  <2> QED BY <2>1, <2>2
<1>5. CASE Reap
  BY <1>5, QuotaKept DEF Reap
<1>6. CASE ProcessRestarts
  <2>1. PayInv' /\ \A a : Owed(a)' = {}
    BY <1>6 DEF ProcessRestarts, NoForm, PayInv, Owed
  <2>2. \A a \in Addresses : hits'[a] = 0 /\ gets'[a] = 0
    BY <1>6 DEF ProcessRestarts
  <2>3. \A a : Cardinality(Owed(a)') = 0
    BY <2>1, FS_EmptySet
  <2> QED BY <2>1, <2>2, <2>3, HandlersAssumption
          DEF QuotaInv, QuotaPaysForGets, Spent
<1>7. CASE (RunOnce \/ RunFails \/ Tick) /\ UNCHANGED added
  BY <1>7, QuotaKept DEF added
<1>8. CASE UNCHANGED hvars
  BY <1>8, QuotaKept DEF hvars, added
<1> QED BY <1>1, <1>2, <1>3, <1>4, <1>5, <1>6, <1>7, <1>8 DEF HNext

LEMMA QuotaAlways == HSpec => [](CountInv /\ FormInv /\ BusyInv /\ QuotaInv)
<1>1. HInit => CountInv /\ FormInv /\ BusyInv /\ QuotaInv
  <2> SUFFICES ASSUME HInit PROVE CountInv /\ FormInv /\ BusyInv /\ QuotaInv
    OBVIOUS
  <2>1. CountInv /\ FormInv /\ BusyInv
    BY NoFormTyped DEF HInit, Init, CountInv, PaidInv, RestInv, RowsInv, NoForm,
       Results, Counters, FormInv, PastInv, WriteInv, BusyInv, At, Posts
  <2>2. PayInv /\ \A a : Owed(a) = {}
    BY DEF HInit, NoForm, PayInv, Owed
  <2>3. \A a \in Addresses : hits[a] = 0 /\ gets[a] = 0
    BY DEF HInit
  <2> QED BY <2>1, <2>2, <2>3, FS_EmptySet, HandlersAssumption
          DEF QuotaInv, QuotaPaysForGets, Spent
<1>2. TypeOK /\ (CountInv /\ FormInv /\ BusyInv /\ QuotaInv) /\ [HNext]_hvars =>
        (CountInv /\ FormInv /\ BusyInv /\ QuotaInv)'
  BY CountKept, FormKept, BusyKept, QuotaStep
<1>3. HSpec => []TypeOK
  BY HandlersAreFeedAccess, AccessTyped, PTL DEF AsFeedAccess
<1> QED BY <1>1, <1>2, <1>3, PTL DEF HSpec

(* The quota of an address has paid for every GET made on its behalf and   *)
(* for those about to be made, each once: serveCreate, serveManagePOST and *)
(* the leader of a refresh share one counter, and it never exceeds the     *)
(* limit.                                                                  *)
THEOREM QuotaPaid == HSpec => []QuotaPaysForGets
<1>1. CountInv /\ FormInv /\ BusyInv /\ QuotaInv => QuotaPaysForGets
  BY DEF QuotaInv
<1> QED BY <1>1, QuotaAlways, PTL

(* A request of a shared run is answered 429 only when the client that     *)
(* leads it has downloaded, or is about to, so much that the sources of    *)
(* the feed are beyond its quota (ErrRateLimited).                         *)
THEOREM LimitedWhenSpent == HSpec => LimitedOnlyWhenSpent
<1> DEFINE Told(r) == ask'[r] = "limited" /\ ask[r] # "limited"
           Poor == \E f \in flight : Spent(f.ip) + f.n > OriginLimit
<1>1. ASSUME CountInv, QuotaInv, HNext, NEW r \in Requests, Told(r) PROVE Poor
  <2>1. PICK f \in flight : RunLimited(f)
    <3>1. CASE \/ \E p \in Posts : FormStep(p)
               \/ CreateStep \/ \E m \in Managers : ManagePostStep(m)
      BY <1>1, <3>1
         DEF FormStep, Turnstile, PayForm, FetchForm, FetchFails, CreateStep,
             PostCreate, RejectCreate, StampForm, CreateForm, CreateFormFails,
             ManagePostStep, PostManage, RejectManage, Save, GenerateForm,
             Rotate, Delete, added
    <3>2. CASE \E q \in Requests : AskRefresh(q) \/ TakeResult(q)
      BY <1>1, <3>2 DEF AskRefresh, TakeResult, CountInv, RestInv
    <3>3. CASE \E q \in Requests : RefuseICS(q) \/ OutsideRefresh(q)
      BY <1>1, <3>3 DEF RefuseICS, OutsideRefresh, added
    <3>4. ASSUME NEW f \in flight, RunStep(f) PROVE RunLimited(f)
      BY <1>1, <3>4 DEF RunStep, RunLoads, RunFresh, RunFetches, RunMerges,
                        RunBreaks, RunEnds
    <3>5. CASE Reap \/ ProcessRestarts \/ ((RunOnce \/ RunFails \/ Tick) /\ UNCHANGED added)
      BY <1>1, <3>5 DEF Reap, ProcessRestarts, added
    <3> QED BY <1>1, <3>1, <3>2, <3>3, <3>4, <3>5 DEF HNext
  <2>2. f.ip \in Addresses /\ f.n \in Nat
    BY <1>1 DEF CountInv, RestInv, Flights
  <2>3. ~Room(f.ip, f.n) /\ hits[f.ip] = Spent(f.ip)
    BY <1>1, <2>1, <2>2 DEF RunLimited, RunQuota, QuotaInv, QuotaPaysForGets
  <2>4. hits[f.ip] \in Nat
    BY <1>1, <2>2 DEF CountInv, RestInv, Counters
  <2> QED BY <2>2, <2>3, <2>4, HandlersAssumption DEF Room
<1>2. CountInv /\ FormInv /\ BusyInv /\ QuotaInv /\ [HNext]_hvars =>
        [\A r \in Requests : Told(r) => Poor]_hvars
  BY <1>1
<1>3. HSpec => [][\A r \in Requests : Told(r) => Poor]_hvars
  BY <1>2, QuotaAlways, PTL DEF HSpec
<1> QED BY <1>3 DEF LimitedOnlyWhenSpent
=============================================================================
