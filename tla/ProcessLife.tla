----------------------------- MODULE ProcessLife -----------------------------
(***************************************************************************)
(* The life of a process: main of cmd/catical.                             *)
(*                                                                         *)
(* main migrates, starts the reaper's loop, has a goroutine of its own     *)
(* listen, and waits for a signal.  Then Shutdown closes the listener and  *)
(* waits for the requests, ten seconds at most, and the deferred Close of  *)
(* the store gives out no connection any more and waits for those that are *)
(* out.  What requests still run after that ends with the process.         *)
(*                                                                         *)
(* The signal cancels one context, which Migrate and the reaper use.  It   *)
(* does not reach the requests.  A statement whose context is done before  *)
(* it is sent is not sent; one that was sent may have its effect, as if    *)
(* the signal had come later.  A second signal is swallowed: stop is       *)
(* deferred too.  Any other death is Crash.                                *)
(*                                                                         *)
(* A request computes, or holds a connection of the pool for a statement   *)
(* or a transaction; the modules FeedAccess and FeedRefresh have what it   *)
(* does with them.                                                         *)
(***************************************************************************)
EXTENDS Migrations

CONSTANT Requests

VARIABLES
    stage,      \* where main of each process is, once it has migrated
    server,     \* what its goroutine that serves has got to
    told,       \* the processes that got a signal
    late,       \* those whose Shutdown returned on its timeout
    at,         \* the process that answers each request, {} when none does
    busy,       \* the requests that hold a connection
    reaping     \* the processes whose reaper holds one

life == <<stage, server, told, late, at, busy, reaping>>
lvars == <<vars, life>>

Open(p) == {r \in Requests : p \in at[r]}

LInit ==
    /\ Init
    /\ stage = [p \in Processes |-> "none"]
    /\ server = [p \in Processes |-> "off"]
    /\ told = {} /\ late = {}
    /\ at = [r \in Requests |-> {}]
    /\ busy = {} /\ reaping = {}

-----------------------------------------------------------------------------
(* Starting. *)

Start(p) == Boot(p) /\ UNCHANGED life

\* A statement of Migrate, unless its context is done.
Migrate(p) ==
    /\ p \notin told
    /\ Check(p) \/ Apply(p) \/ Record(p)
    /\ UNCHANGED life

\* What is left of a process that is gone.
Gone(p) ==
    /\ stage' = [stage EXCEPT ![p] = "none"]
    /\ server' = [server EXCEPT ![p] = "off"]
    /\ told' = told \ {p}
    /\ late' = late \ {p}
    /\ at' = [r \in Requests |-> at[r] \ {p}]
    /\ busy' = busy \ Open(p)
    /\ reaping' = reaping \ {p}

\* Migrate returns an error, its own or that of its context: os.Exit.
MigrateFails(p) ==
    /\ stage[p] = "none"
    /\ \/ p \notin told /\ ApplyFails(p)
       \/ p \in told /\ name[p] <= Files /\ Die(p)
    /\ Gone(p)

\* Migrate returns; the reaper and the server are started.
Serving(p) ==
    /\ Serve(p)
    /\ stage' = [stage EXCEPT ![p] = "serving"]
    /\ UNCHANGED <<server, told, late, at, busy, reaping>>

\* Mutant: the goroutine does not know that Shutdown was called.
ListenAnyway(p) ==
    /\ stage[p] # "none" /\ server[p] = "off"
    /\ server' = [server EXCEPT ![p] = "listening"]
    /\ UNCHANGED <<vars, stage, told, late, at, busy, reaping>>

\* ListenAndServe; after Shutdown it returns ErrServerClosed at once.
Listen(p) ==
    /\ stage[p] # "none" /\ server[p] = "off"
    /\ server' = [server EXCEPT
                    ![p] = IF stage[p] = "serving" THEN "listening" ELSE "closed"]
    /\ UNCHANGED <<vars, stage, told, late, at, busy, reaping>>

\* SIGTERM or an interrupt.
Signal(p) ==
    /\ pc[p] # "down"
    /\ p \notin told
    /\ told' = told \union {p}
    /\ UNCHANGED <<vars, stage, server, late, at, busy, reaping>>

-----------------------------------------------------------------------------
(* Working. *)

\* A connection is accepted and its handler runs.
Begin(p, r) ==
    /\ server[p] = "listening"
    /\ at[r] = {}
    /\ at' = [at EXCEPT ![r] = {p}]
    /\ UNCHANGED <<vars, stage, server, told, late, busy, reaping>>

\* A handler gets a connection; a closed pool gives it an error instead.
Acquire(p, r) ==
    /\ p \in at[r] /\ r \notin busy
    /\ stage[p] # "closing"
    /\ busy' = busy \union {r}
    /\ UNCHANGED <<vars, stage, server, told, late, at, reaping>>

Release(r) ==
    /\ r \in busy
    /\ busy' = busy \ {r}
    /\ UNCHANGED <<vars, stage, server, told, late, at, reaping>>

\* The handler returns.
Answered(r) ==
    /\ at[r] # {} /\ r \notin busy
    /\ at' = [at EXCEPT ![r] = {}]
    /\ UNCHANGED <<vars, stage, server, told, late, busy, reaping>>

\* RunOnce of the reaper; its context ends with the signal.
ReapBegins(p) ==
    /\ stage[p] = "serving"
    /\ p \notin told \union reaping
    /\ reaping' = reaping \union {p}
    /\ UNCHANGED <<vars, stage, server, told, late, at, busy>>

ReapEnds(p) ==
    /\ p \in reaping
    /\ reaping' = reaping \ {p}
    /\ UNCHANGED <<vars, stage, server, told, late, at, busy>>

-----------------------------------------------------------------------------
(* Stopping. *)

\* <-ctx.Done(): Shutdown closes the listener.
BeginShutdown(p) ==
    /\ stage[p] = "serving" /\ p \in told
    /\ stage' = [stage EXCEPT ![p] = "shutdown"]
    /\ server' = [server EXCEPT ![p] = IF @ = "listening" THEN "closed" ELSE @]
    /\ UNCHANGED <<vars, told, late, at, busy, reaping>>

\* Mutant: a context without a timeout.
ShutdownWaits(p) ==
    /\ stage[p] = "shutdown" /\ Open(p) = {}
    /\ stage' = [stage EXCEPT ![p] = "closing"]
    /\ UNCHANGED <<vars, server, told, late, at, busy, reaping>>

\* Shutdown returns when nothing is open, or when ten seconds are over, and
\* the deferred Close closes the pool.
ShutdownReturns(p) ==
    /\ stage[p] = "shutdown"
    /\ stage' = [stage EXCEPT ![p] = "closing"]
    /\ late' = IF Open(p) = {} THEN late ELSE late \union {p}
    /\ UNCHANGED <<vars, server, told, at, busy, reaping>>

\* Close returns when all connections are back, and main is done.
Exit(p) ==
    /\ stage[p] = "closing"
    /\ Open(p) \intersect busy = {} /\ p \notin reaping
    /\ Die(p)
    /\ Gone(p)

\* The process is killed, or cannot open the store or listen: os.Exit.
Crash(p) == Die(p) /\ Gone(p)

Stop(p) == BeginShutdown(p) \/ ShutdownReturns(p) \/ Exit(p)

LNext ==
    \/ \E p \in Processes :
        \/ Start(p) \/ Migrate(p) \/ MigrateFails(p) \/ Serving(p)
        \/ Listen(p) \/ Signal(p)
        \/ \E r \in Requests : Begin(p, r) \/ Acquire(p, r)
        \/ ReapBegins(p) \/ ReapEnds(p)
        \/ Stop(p) \/ Crash(p)
    \/ \E r \in Requests : Release(r) \/ Answered(r)

(* main goes on, and a statement comes to an end: the database answers or  *)
(* its connection breaks.  A handler need not return: it may write to a    *)
(* client that does not read.                                              *)
LSpec ==
    /\ LInit
    /\ [][LNext]_lvars
    /\ \A p \in Processes :
        /\ WF_lvars(MigrateFails(p)) /\ WF_lvars(Serving(p))
        /\ WF_lvars(Stop(p)) /\ WF_lvars(ReapEnds(p))
    /\ \A r \in Requests : WF_lvars(Release(r))

-----------------------------------------------------------------------------
(* Properties. *)

(* A process that stops because it was told to leaves no statement and no  *)
(* transaction half done, and cuts a request short between two of them     *)
(* only after the ten seconds Shutdown gives it: none slips in between     *)
(* Shutdown and the end.                                                   *)
CutOnlyWhenLate ==
    [][\A p \in Processes, r \in Requests :
         Exit(p) /\ p \in at[r] => r \notin busy /\ p \in late]_lvars

(* A process that gets a signal stops, wherever it is: while it migrates,  *)
(* before it listens, and with requests that never end.                    *)
StopsWhenTold == \A p \in Processes : p \in told ~> pc[p] = "down"
=============================================================================
