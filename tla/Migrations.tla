----------------------------- MODULE Migrations ------------------------------
(***************************************************************************)
(* Store.Migrate, which every process runs before it serves anything.      *)
(*                                                                         *)
(* The files are applied in the order of their names.  For each file the   *)
(* process asks whether it is recorded, executes it, and records it: three *)
(* statements, each with a transaction of its own.  The process may die    *)
(* between them (main exits on any error too), and a deployment may start  *)
(* a second process while the first still boots.                           *)
(*                                                                         *)
(* A file is its position.  Executing it is atomic, for PostgreSQL runs    *)
(* the statements of one Exec in a single implicit transaction; a file     *)
(* that is not written to be repeated (002: ALTER TABLE ADD COLUMN) fails  *)
(* when it is already in the schema.                                       *)
(***************************************************************************)
EXTENDS Integers

CONSTANTS
    Processes,  \* processes that may boot
    Files,      \* how many files there are
    Repeatable, \* the files that may be executed again (001)
    MaxBoots    \* bound on the number of boots, for TLC

ASSUME MigrationsAssumption ==
    /\ Files \in Nat
    /\ Repeatable \subseteq 1..Files
    /\ MaxBoots \in Nat

VARIABLES
    pc,         \* where each process is
    name,       \* the file it is at
    schema,     \* the files whose statements took effect
    recorded,   \* the rows of schema_migrations
    boots,      \* history: how many boots there were
    refused     \* history: the files the schema refused to take again

vars == <<pc, name, schema, recorded, boots, refused>>

Init ==
    /\ pc = [p \in Processes |-> "down"]
    /\ name = [p \in Processes |-> 1]
    /\ schema = {}
    /\ recorded = {}
    /\ boots = 0
    /\ refused = {}

\* main calls Migrate; the version table is created unless it is there.
Boot(p) ==
    /\ pc[p] = "down"
    /\ boots < MaxBoots
    /\ boots' = boots + 1
    /\ pc' = [pc EXCEPT ![p] = "check"]
    /\ name' = [name EXCEPT ![p] = 1]
    /\ UNCHANGED <<schema, recorded, refused>>

\* Mutant: SELECT EXISTS without its WHERE.
SkipAny(p) == recorded # {}

\* SELECT EXISTS
Skip(p) == name[p] \in recorded

Check(p) ==
    /\ pc[p] = "check"
    /\ name[p] <= Files
    /\ IF Skip(p)
       THEN name' = [name EXCEPT ![p] = @ + 1] /\ UNCHANGED pc
       ELSE pc' = [pc EXCEPT ![p] = "apply"] /\ UNCHANGED name
    /\ UNCHANGED <<schema, recorded, boots, refused>>

\* Every file is in place: the process serves.
Serve(p) ==
    /\ pc[p] = "check"
    /\ name[p] > Files
    /\ pc' = [pc EXCEPT ![p] = "up"]
    /\ UNCHANGED <<name, schema, recorded, boots, refused>>

\* Mutant: the version is recorded before the file is executed.
ApplyRecords(p) ==
    /\ pc[p] = "apply"
    /\ name[p] \notin schema \/ name[p] \in Repeatable
    /\ recorded' = recorded \union {name[p]}
    /\ pc' = [pc EXCEPT ![p] = "record"]
    /\ UNCHANGED <<name, schema, boots, refused>>

\* The file is executed ...
Apply(p) ==
    /\ pc[p] = "apply"
    /\ name[p] \notin schema \/ name[p] \in Repeatable
    /\ schema' = schema \union {name[p]}
    /\ pc' = [pc EXCEPT ![p] = "record"]
    /\ UNCHANGED <<name, recorded, boots, refused>>

\* ... or refused, and main exits.
ApplyFails(p) ==
    /\ pc[p] = "apply"
    /\ name[p] \in schema /\ name[p] \notin Repeatable
    /\ refused' = refused \union {name[p]}
    /\ pc' = [pc EXCEPT ![p] = "down"]
    /\ UNCHANGED <<name, schema, recorded, boots>>

\* INSERT INTO schema_migrations, whose key refuses a second row.
Record(p) ==
    /\ pc[p] = "record"
    /\ name[p] \notin recorded
    /\ recorded' = recorded \union {name[p]}
    /\ pc' = [pc EXCEPT ![p] = "check"]
    /\ name' = [name EXCEPT ![p] = @ + 1]
    /\ UNCHANGED <<schema, boots, refused>>

\* The process dies, is stopped, or a statement of it fails.
Die(p) ==
    /\ pc[p] # "down"
    /\ pc' = [pc EXCEPT ![p] = "down"]
    /\ UNCHANGED <<name, schema, recorded, boots, refused>>

Next ==
    \E p \in Processes :
        \/ Boot(p) \/ Check(p) \/ Serve(p)
        \/ Apply(p) \/ ApplyFails(p) \/ Record(p) \/ Die(p)

Spec == Init /\ [][Next]_vars

-----------------------------------------------------------------------------
(* Properties. *)

(* Every variable has its type. *)
TypeOK ==
    /\ pc \in [Processes -> {"down", "check", "apply", "record", "up"}]
    /\ name \in [Processes -> 1..(Files + 1)]
    /\ schema \subseteq 1..Files
    /\ recorded \subseteq 1..Files
    /\ boots \in 0..MaxBoots
    /\ refused \subseteq 1..Files

(* A recorded version is in the schema, with all the files before it,      *)
(* however many processes boot at once and wherever they die: a later file *)
(* never meets a schema without an earlier one.                            *)
RecordedInOrder ==
    /\ recorded \subseteq schema
    /\ \A n \in schema : 1..(n - 1) \subseteq recorded

(* A process that serves has the schema its code expects. *)
ServesCurrentSchema ==
    \A p \in Processes : pc[p] = "up" => 1..Files \subseteq schema

-----------------------------------------------------------------------------
(* README.md:39: "Migrations apply on process start (version table; safe   *)
(* to run twice)".  No file is executed a second time over its own effect. *)
SafeToRunTwice == refused = {}
=============================================================================
