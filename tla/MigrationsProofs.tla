-------------------------- MODULE MigrationsProofs ---------------------------
(***************************************************************************)
(* Migrations for any number of processes and of files: the schema grows   *)
(* in the order of the files, however many processes boot at once and      *)
(* wherever they die.  Then the same for ProcessLife, whose steps are      *)
(* steps of Migrations or leave it alone, and what a process that is told  *)
(* to stop owes its requests.                                              *)
(***************************************************************************)
EXTENDS ProcessLife, TLAPS

(* Who has come to a file has seen all the files before it recorded. *)
Arrived(p) ==
    /\ pc[p] \in {"check", "apply", "record", "up"} => 1..(name[p] - 1) \subseteq recorded
    /\ pc[p] \in {"apply", "record"} => name[p] <= Files
    /\ pc[p] = "record" => name[p] \in schema
    /\ pc[p] = "up" => name[p] = Files + 1

IInv ==
    /\ TypeOK
    /\ RecordedInOrder
    /\ \A p \in Processes : Arrived(p)

LEMMA InitIInv == Init => IInv
  BY MigrationsAssumption DEF Init, IInv, TypeOK, RecordedInOrder, Arrived

LEMMA StepIInv == IInv /\ [Next]_vars => IInv'
  <1> SUFFICES ASSUME IInv, [Next]_vars PROVE IInv'
    OBVIOUS
  <1> USE MigrationsAssumption
  <1>1. ASSUME NEW p \in Processes, Boot(p) PROVE IInv'
    BY <1>1 DEF Boot, IInv, TypeOK, RecordedInOrder, Arrived
  <1>2. ASSUME NEW p \in Processes, Check(p) PROVE IInv'
    <2>1. TypeOK'
      BY <1>2 DEF Check, IInv, TypeOK
    <2>2. RecordedInOrder'
      BY <1>2 DEF Check, IInv, RecordedInOrder
    <2>3. ASSUME NEW q \in Processes PROVE Arrived(q)'
      BY <1>2, <2>3 DEF Check, Skip, IInv, TypeOK, Arrived
    <2> QED BY <2>1, <2>2, <2>3 DEF IInv
  <1>3. ASSUME NEW p \in Processes, Serve(p) PROVE IInv'
    BY <1>3 DEF Serve, IInv, TypeOK, RecordedInOrder, Arrived
  <1>4. ASSUME NEW p \in Processes, Apply(p) PROVE IInv'
    <2>0. name[p] \in 1..Files
      BY <1>4 DEF Apply, IInv, TypeOK, Arrived
    <2>1. TypeOK'
      BY <1>4, <2>0 DEF Apply, IInv, TypeOK
    <2>2. RecordedInOrder'
      BY <1>4 DEF Apply, IInv, TypeOK, RecordedInOrder, Arrived
    <2>3. ASSUME NEW q \in Processes PROVE Arrived(q)'
      BY <1>4, <2>3 DEF Apply, IInv, TypeOK, Arrived
    <2> QED BY <2>1, <2>2, <2>3 DEF IInv
  <1>5. ASSUME NEW p \in Processes, ApplyFails(p) PROVE IInv'
    BY <1>5 DEF ApplyFails, IInv, TypeOK, RecordedInOrder, Arrived
  <1>6. ASSUME NEW p \in Processes, Record(p) PROVE IInv'
    <2>0. name[p] \in 1..Files
      BY <1>6 DEF Record, IInv, TypeOK, Arrived
    <2>1. TypeOK'
      <3>1. name' \in [Processes -> 1..(Files + 1)]
        BY <1>6, <2>0 DEF Record, IInv, TypeOK
      <3>2. pc' \in [Processes -> {"down", "check", "apply", "record", "up"}]
        BY <1>6 DEF Record, IInv, TypeOK
      <3> QED BY <1>6, <2>0, <3>1, <3>2 DEF Record, IInv, TypeOK
    <2>2. RecordedInOrder'
      BY <1>6 DEF Record, IInv, TypeOK, RecordedInOrder, Arrived
    <2>3. ASSUME NEW q \in Processes PROVE Arrived(q)'
      BY <1>6, <2>3 DEF Record, IInv, TypeOK, Arrived
    <2> QED BY <2>1, <2>2, <2>3 DEF IInv
  <1>7. ASSUME NEW p \in Processes, Die(p) PROVE IInv'
    BY <1>7 DEF Die, IInv, TypeOK, RecordedInOrder, Arrived
  <1>8. CASE UNCHANGED vars
    BY <1>8 DEF vars, IInv, TypeOK, RecordedInOrder, Arrived
  <1> QED BY <1>1, <1>2, <1>3, <1>4, <1>5, <1>6, <1>7, <1>8 DEF Next

(* The tables and the processes keep their types (Store.Migrate). *)
THEOREM MigrationsTyped == Spec => []TypeOK
  <1>1. IInv => TypeOK
    BY DEF IInv
  <1> QED BY <1>1, InitIInv, StepIInv, PTL DEF Spec

(* No version is recorded that is not in the schema, and no file is in the *)
(* schema before the ones it builds on (Store.Migrate's loop).             *)
THEOREM SchemaGrowsInOrder == Spec => []RecordedInOrder
  <1>1. IInv => RecordedInOrder
    BY DEF IInv
  <1> QED BY <1>1, InitIInv, StepIInv, PTL DEF Spec

(* Whoever serves has the whole schema (main serves after Migrate). *)
THEOREM ServesItsSchema == Spec => []ServesCurrentSchema
  <1>1. IInv => ServesCurrentSchema
    BY MigrationsAssumption
       DEF IInv, TypeOK, RecordedInOrder, Arrived, ServesCurrentSchema
  <1> QED BY <1>1, InitIInv, StepIInv, PTL DEF Spec

-----------------------------------------------------------------------------
(* What main does around Migrate. *)

LEMMA LifeStep == [LNext]_lvars => [Next]_vars
  <1> SUFFICES ASSUME [LNext]_lvars PROVE [Next]_vars
    OBVIOUS
  <1>1. ASSUME NEW p \in Processes, Start(p) PROVE Next
    BY <1>1 DEF Start, Next
  <1>2. ASSUME NEW p \in Processes, Migrate(p) PROVE Next
    BY <1>2 DEF Migrate, Next
  <1>3. ASSUME NEW p \in Processes, MigrateFails(p) PROVE Next
    BY <1>3 DEF MigrateFails, Next
  <1>4. ASSUME NEW p \in Processes, Serving(p) PROVE Next
    BY <1>4 DEF Serving, Next
  <1>5. ASSUME NEW p \in Processes, Exit(p) \/ Crash(p) PROVE Next
    BY <1>5 DEF Exit, Crash, Next
  <1>6. ASSUME NEW p \in Processes, Listen(p) \/ Signal(p) PROVE UNCHANGED vars
    BY <1>6 DEF Listen, Signal
  <1>7. ASSUME NEW p \in Processes, NEW r \in Requests, Begin(p, r) \/ Acquire(p, r)
        PROVE  UNCHANGED vars
    BY <1>7 DEF Begin, Acquire
  <1>8. ASSUME NEW p \in Processes, ReapBegins(p) \/ ReapEnds(p) PROVE UNCHANGED vars
    BY <1>8 DEF ReapBegins, ReapEnds
  <1>9. ASSUME NEW p \in Processes, BeginShutdown(p) \/ ShutdownReturns(p)
        PROVE  UNCHANGED vars
    BY <1>9 DEF BeginShutdown, ShutdownReturns
  <1>10. ASSUME NEW r \in Requests, Release(r) \/ Answered(r) PROVE UNCHANGED vars
    BY <1>10 DEF Release, Answered
  <1>11. CASE UNCHANGED lvars
    BY <1>11 DEF lvars
  <1> QED
    BY <1>1, <1>2, <1>3, <1>4, <1>5, <1>6, <1>7, <1>8, <1>9, <1>10, <1>11
       DEF LNext, Stop

(* Whatever a signal, the requests and the reaper do, a process migrates   *)
(* as the module Migrations says (main calls Migrate once, before the      *)
(* rest).                                                                  *)
THEOREM LifeMigrates == LSpec => Spec
  <1>1. LInit => Init
    BY DEF LInit
  <1> QED BY <1>1, LifeStep, PTL DEF LSpec, Spec

(* The schema grows in order, with signals in the midst of Migrate too. *)
THEOREM LifeGrowsInOrder == LSpec => []RecordedInOrder
  BY LifeMigrates, SchemaGrowsInOrder, PTL

(* Whoever serves has the whole schema, whatever stops the others. *)
THEOREM LifeServesItsSchema == LSpec => []ServesCurrentSchema
  BY LifeMigrates, ServesItsSchema, PTL

(* A process listens only while main waits for the signal, and when the    *)
(* store is closed in time nothing is open any more.                       *)
StopInv(p) ==
    /\ server[p] = "listening" => stage[p] = "serving"
    /\ stage[p] = "closing" /\ p \notin late => Open(p) = {}

LifeInv ==
    /\ stage \in [Processes -> {"none", "serving", "shutdown", "closing"}]
    /\ server \in [Processes -> {"off", "listening", "closed"}]
    /\ at \in [Requests -> SUBSET Processes]
    /\ \A p \in Processes : StopInv(p)

LEMMA InitLifeInv == LInit => LifeInv
  BY DEF LInit, LifeInv, StopInv, Open

LEMMA GoneKeepsLife == ASSUME LifeInv, NEW p \in Processes, Gone(p) PROVE LifeInv'
  BY DEF Gone, LifeInv, StopInv, Open

LEMMA StepLifeInv == LifeInv /\ [LNext]_lvars => LifeInv'
  <1> SUFFICES ASSUME LifeInv, [LNext]_lvars PROVE LifeInv'
    OBVIOUS
  <1>1. ASSUME UNCHANGED life PROVE LifeInv'
    BY <1>1 DEF life, LifeInv, StopInv, Open
  <1>2. ASSUME NEW p \in Processes, Start(p) \/ Migrate(p) PROVE LifeInv'
    BY <1>1, <1>2 DEF Start, Migrate
  <1>3. ASSUME NEW p \in Processes, MigrateFails(p) \/ Exit(p) \/ Crash(p) PROVE LifeInv'
    BY <1>3, GoneKeepsLife DEF MigrateFails, Exit, Crash
  <1>4. ASSUME NEW p \in Processes, Serving(p) PROVE LifeInv'
    BY <1>4 DEF Serving, LifeInv, StopInv, Open
  <1>5. ASSUME NEW p \in Processes, Listen(p) PROVE LifeInv'
    BY <1>5 DEF Listen, LifeInv, StopInv, Open
  <1>6. ASSUME NEW p \in Processes, Signal(p) \/ ReapBegins(p) \/ ReapEnds(p) PROVE LifeInv'
    BY <1>6 DEF Signal, ReapBegins, ReapEnds, LifeInv, StopInv, Open
  <1>7. ASSUME NEW p \in Processes, NEW r \in Requests, Begin(p, r) PROVE LifeInv'
    BY <1>7 DEF Begin, LifeInv, StopInv, Open
  <1>8. ASSUME NEW p \in Processes, NEW r \in Requests, Acquire(p, r) \/ Release(r) PROVE LifeInv'
    BY <1>8 DEF Acquire, Release, LifeInv, StopInv, Open
  <1>9. ASSUME NEW r \in Requests, Release(r) \/ Answered(r) PROVE LifeInv'
    BY <1>9 DEF Release, Answered, LifeInv, StopInv, Open
  <1>10. ASSUME NEW p \in Processes, BeginShutdown(p) PROVE LifeInv'
    BY <1>10 DEF BeginShutdown, LifeInv, StopInv, Open
  <1>11. ASSUME NEW p \in Processes, ShutdownReturns(p) PROVE LifeInv'
    BY <1>11 DEF ShutdownReturns, LifeInv, StopInv, Open
  <1>12. CASE UNCHANGED lvars
    BY <1>1, <1>12 DEF lvars
  <1> QED
    BY <1>2, <1>3, <1>4, <1>5, <1>6, <1>7, <1>8, <1>9, <1>10, <1>11, <1>12
       DEF LNext, Stop

(* For any number of processes and requests, an orderly stop cuts a        *)
(* request only after Shutdown's ten seconds and never in a statement      *)
(* (Shutdown, then the deferred Close of the store).                       *)
THEOREM StopsInOrder == LSpec => CutOnlyWhenLate
  <1>1. LifeInv =>
          (\A p \in Processes, r \in Requests :
             Exit(p) /\ p \in at[r] => r \notin busy /\ p \in late)
    <2> SUFFICES ASSUME LifeInv, NEW p \in Processes, NEW r \in Requests,
                        Exit(p), p \in at[r]
                 PROVE  r \notin busy /\ p \in late
      OBVIOUS
    <2>1. r \in Open(p)
      BY DEF Open
    <2>2. StopInv(p) /\ stage[p] = "closing" /\ Open(p) \intersect busy = {}
      BY DEF LifeInv, Exit
    <2> QED BY <2>1, <2>2 DEF StopInv
  <1> QED BY <1>1, InitLifeInv, StepLifeInv, PTL DEF LSpec, CutOnlyWhenLate

-----------------------------------------------------------------------------
(* What is safe about StopsWhenTold: Close has ever less to wait for.      *)

\* The connections that are out.
Out(p) == (Open(p) \intersect busy) \union (reaping \intersect {p})

(* While a process closes, no handler and no reaper takes a connection,    *)
(* and it does nothing else any more but end.                              *)
Drains(p) ==
    stage[p] = "closing" =>
        stage'[p] = "none" \/ (stage'[p] = "closing" /\ Out(p)' \subseteq Out(p))

CloseDrains == [][\A p \in Processes : Drains(p)]_lvars

\* One process answers a request.
OneAnswers == \A r \in Requests : \A p, q \in at[r] : p = q

LEMMA OneAnswersKept == LifeInv /\ OneAnswers /\ [LNext]_lvars => OneAnswers'
  <1> SUFFICES ASSUME LifeInv, OneAnswers, [LNext]_lvars PROVE OneAnswers'
    OBVIOUS
  <1>1. CASE UNCHANGED at
    BY <1>1 DEF OneAnswers
  <1>2. ASSUME NEW p \in Processes, Gone(p) PROVE OneAnswers'
    BY <1>2 DEF Gone, OneAnswers
  <1>3. ASSUME NEW p \in Processes, NEW r \in Requests, Begin(p, r) PROVE OneAnswers'
    BY <1>3 DEF Begin, OneAnswers, LifeInv
  <1>4. ASSUME NEW r \in Requests, Answered(r) PROVE OneAnswers'
    BY <1>4 DEF Answered, OneAnswers, LifeInv
  <1>5. ASSUME LNext, UNCHANGED at \/ ~UNCHANGED at PROVE
             \/ UNCHANGED at
             \/ \E p \in Processes : Gone(p) \/ \E r \in Requests : Begin(p, r)
             \/ \E r \in Requests : Answered(r)
    BY <1>5 DEF LNext, Start, Migrate, MigrateFails, Serving, Listen, Signal, Acquire,
                ReapBegins, ReapEnds, Stop, BeginShutdown, ShutdownReturns, Exit, Crash,
                Release, life
  <1>6. CASE UNCHANGED lvars
    BY <1>1, <1>6 DEF lvars, life
  <1> QED BY <1>1, <1>2, <1>3, <1>4, <1>5, <1>6

\* main is past Migrate only in a process that is up.
UpInv == \A p \in Processes : stage[p] # "none" => pc[p] = "up"

LEMMA UpKept == TypeOK /\ LifeInv /\ UpInv /\ [LNext]_lvars => UpInv'
  <1> SUFFICES ASSUME TypeOK, LifeInv, UpInv, [LNext]_lvars PROVE UpInv'
    OBVIOUS
  <1> USE DEF TypeOK, LifeInv, UpInv
  <1>1. ASSUME NEW p \in Processes, Gone(p), pc' = [pc EXCEPT ![p] = "down"]
        PROVE  UpInv'
    BY <1>1 DEF Gone
  <1>2. ASSUME NEW p \in Processes, Start(p) \/ Migrate(p) PROVE UpInv'
    BY <1>2 DEF Start, Migrate, Boot, Check, Apply, Record, life
  <1>3. ASSUME NEW p \in Processes, MigrateFails(p) \/ Exit(p) \/ Crash(p) PROVE UpInv'
    BY <1>1, <1>3 DEF MigrateFails, Exit, Crash, Die, ApplyFails
  <1>4. ASSUME NEW p \in Processes, Serving(p) PROVE UpInv'
    BY <1>4 DEF Serving, Serve
  <1>5. ASSUME NEW p \in Processes, BeginShutdown(p) \/ ShutdownReturns(p) PROVE UpInv'
    BY <1>5 DEF BeginShutdown, ShutdownReturns, vars
  <1>6. CASE UNCHANGED <<pc, stage>>
    BY <1>6
  <1>7. ASSUME NEW p \in Processes,
               Listen(p) \/ Signal(p) \/ ReapBegins(p) \/ ReapEnds(p)
        PROVE  UpInv'
    BY <1>6, <1>7 DEF Listen, Signal, ReapBegins, ReapEnds, vars
  <1>8. ASSUME NEW p \in Processes, NEW r \in Requests, Begin(p, r) \/ Acquire(p, r)
        PROVE  UpInv'
    BY <1>6, <1>8 DEF Begin, Acquire, vars
  <1>9. ASSUME NEW r \in Requests, Release(r) \/ Answered(r) PROVE UpInv'
    BY <1>6, <1>9 DEF Release, Answered, vars
  <1>10. CASE UNCHANGED lvars
    BY <1>6, <1>10 DEF lvars, vars, life
  <1> QED
    BY <1>2, <1>3, <1>4, <1>5, <1>7, <1>8, <1>9, <1>10 DEF LNext, Stop

LEMMA StepDrains ==
    ASSUME LifeInv, OneAnswers, UpInv, LNext, NEW p \in Processes, stage[p] = "closing",
           stage'[p] # "none"
    PROVE  stage'[p] = "closing" /\ Out(p)' \subseteq Out(p)
  <1>0. server[p] # "listening"
    BY DEF LifeInv, StopInv
  <1>1. ASSUME UNCHANGED <<stage, at, busy>>, reaping' \intersect {p} \subseteq reaping
        PROVE  stage'[p] = "closing" /\ Out(p)' \subseteq Out(p)
    BY <1>1 DEF Out, Open
  <1>2. ASSUME NEW q \in Processes, Gone(q)
        PROVE  stage'[p] = "closing" /\ Out(p)' \subseteq Out(p)
    <2>1. q # p
      BY <1>2 DEF Gone, LifeInv
    <2>2. stage'[p] = stage[p]
      BY <1>2, <2>1 DEF Gone, LifeInv
    <2>3. Open(p)' \subseteq Open(p) /\ busy' \subseteq busy /\ reaping' \subseteq reaping
      BY <1>2 DEF Gone, Open, LifeInv
    <2> QED BY <2>2, <2>3 DEF Out
  <1>3. ASSUME NEW q \in Processes, NEW r \in Requests, Begin(q, r)
        PROVE  stage'[p] = "closing" /\ Out(p)' \subseteq Out(p)
    <2>1. q # p
      BY <1>0, <1>3 DEF Begin
    <2>2. Open(p)' \subseteq Open(p)
      BY <1>3, <2>1 DEF Begin, Open, LifeInv
    <2> QED BY <1>3, <2>2 DEF Begin, Out
  <1>4. ASSUME NEW q \in Processes, NEW r \in Requests, Acquire(q, r)
        PROVE  stage'[p] = "closing" /\ Out(p)' \subseteq Out(p)
    <2>1. r \notin Open(p)
      BY <1>4 DEF Acquire, OneAnswers, Open
    <2>2. busy' = busy \union {r} /\ UNCHANGED <<stage, at, reaping>>
      BY <1>4 DEF Acquire
    <2> QED BY <2>1, <2>2 DEF Out, Open
  <1>5. ASSUME NEW r \in Requests, Release(r) \/ Answered(r)
        PROVE  stage'[p] = "closing" /\ Out(p)' \subseteq Out(p)
    <2>1. CASE Release(r)
      <3>1. busy' \subseteq busy /\ UNCHANGED <<stage, at, reaping>>
        BY <2>1 DEF Release
      <3> QED BY <3>1 DEF Out, Open
    <2>2. CASE Answered(r)
      <3>1. Open(p)' \subseteq Open(p)
        BY <2>2 DEF Answered, Open, LifeInv
      <3> QED BY <2>2, <3>1 DEF Answered, Out
    <2> QED BY <1>5, <2>1, <2>2
  <1>6. ASSUME NEW q \in Processes, ReapBegins(q) \/ ReapEnds(q)
        PROVE  stage'[p] = "closing" /\ Out(p)' \subseteq Out(p)
    <2>1. reaping' \intersect {p} \subseteq reaping
      BY <1>6 DEF ReapBegins, ReapEnds
    <2> QED BY <1>1, <1>6, <2>1 DEF ReapBegins, ReapEnds
  <1>7. ASSUME NEW q \in Processes, Serving(q) \/ BeginShutdown(q) \/ ShutdownReturns(q)
        PROVE  stage'[p] = "closing" /\ Out(p)' \subseteq Out(p)
    <2>1. stage'[p] = "closing"
      BY <1>7 DEF Serving, Serve, BeginShutdown, ShutdownReturns, LifeInv, UpInv
    <2>2. UNCHANGED <<at, busy, reaping>>
      BY <1>7 DEF Serving, BeginShutdown, ShutdownReturns
    <2> QED BY <2>1, <2>2 DEF Out, Open
  <1>8. ASSUME NEW q \in Processes, Start(q) \/ Migrate(q) \/ Listen(q) \/ Signal(q)
        PROVE  stage'[p] = "closing" /\ Out(p)' \subseteq Out(p)
    <2>1. UNCHANGED <<stage, at, busy, reaping>>
      BY <1>8 DEF Start, Migrate, Listen, Signal, life
    <2> QED BY <2>1 DEF Out, Open
  <1> QED
    BY <1>2, <1>3, <1>4, <1>5, <1>6, <1>7, <1>8
       DEF LNext, MigrateFails, Stop, Exit, Crash

(* Once Shutdown has returned, the deferred Close of the store waits only  *)
(* for the connections that are out by then: a handler that goes on gets   *)
(* none of a closed pool, and the reaper has stopped (main).               *)
THEOREM ClosingGoesOn == LSpec => CloseDrains
  <1>1. LifeInv /\ OneAnswers /\ UpInv /\ [LNext]_lvars
          => [\A p \in Processes : Drains(p)]_lvars
    BY StepDrains DEF Drains
  <1>2. LInit => OneAnswers /\ UpInv
    BY DEF LInit, OneAnswers, UpInv
  <1>3. LSpec => []TypeOK
    BY LifeMigrates, MigrationsTyped, PTL
  <1> QED
    BY <1>1, <1>2, <1>3, InitLifeInv, StepLifeInv, OneAnswersKept, UpKept, PTL
       DEF LSpec, CloseDrains
=============================================================================
