------------------------------ MODULE SchemaInit ------------------------------
(***************************************************************************)
(* init_db of storage/database.py.  Every API handler and every service    *)
(* function calls it first, so threads and processes run it side by side,  *)
(* on an empty database or on one an older version left.  Python's sqlite3 *)
(* opens no transaction for DDL: each CREATE and each ALTER is committed   *)
(* by itself, and a call that raises leaves what it did.                   *)
(*                                                                         *)
(* The worker process never calls it: until somebody's init_db has come    *)
(* far enough, its statements raise.                                       *)
(*                                                                         *)
(* The indexes change no answer and are created IF NOT EXISTS: each goes   *)
(* with the statement before it.                                           *)
(***************************************************************************)
EXTENDS Integers, Sequences, FiniteSets

CONSTANTS
  Callers,    \* threads that serve requests, in one process or several
  MaxFaults   \* bound: calls of init_db that raise or are cut off otherwise

ASSUME SchemaAssumption == MaxFaults \in Nat

Tables == {"users", "audit_logs", "sessions", "refresh_tokens", "alert_queue",
           "alert_dead_letter"}

(* The columns of alert_queue that its CREATE TABLE does not have.          *)
Columns == {"status", "attempts", "last_error", "locked_by", "locked_at",
            "processed_at"}

(* Mutant: the columns of the lock come before those of the retries.        *)
LockColumnsFirst ==
  <<"users", "audit_logs", "sessions", "refresh_tokens", "alert_queue",
    "alert_dead_letter", "status", "attempts", "locked_by", "locked_at",
    "last_error", "processed_at">>

(* init_db, statement by statement.                                         *)
Statements ==
  <<"users", "audit_logs", "sessions", "refresh_tokens", "alert_queue",
    "alert_dead_letter", "status", "attempts", "last_error", "locked_by",
    "locked_at", "processed_at">>

Steps == 1..12
Idle == 0
Ready == 13   \* init_db returned, the service works on the tables

(* What the statements of the worker name.                                  *)
ClaimUses == {"alert_queue", "status", "attempts", "locked_by", "locked_at"}
AckUses == {"alert_queue", "status", "locked_by", "locked_at", "processed_at"}
FailUses == {"alert_queue", "alert_dead_letter", "status", "attempts",
             "last_error", "locked_by", "locked_at"}

VARIABLES
  present,  \* the tables and columns the database has
  step,     \* the statement of init_db each caller is at
  missing,  \* _add_column_if_missing has probed, and will ALTER
  worker,   \* where the worker is in its loop
  lost,     \* history: the columns at which a caller's ALTER raised
  faults

vars == <<present, step, missing, worker, lost, faults>>

Init ==
  /\ \E n \in {0} \cup Steps : present = {Statements[i] : i \in 1..n}
  /\ step = [p \in Callers |-> Idle]
  /\ missing = [p \in Callers |-> FALSE]
  /\ worker = "poll"
  /\ lost = [p \in Callers |-> {}]
  /\ faults = 0

Goto(p, s) == step' = [step EXCEPT ![p] = s]

(* A request arrives.                                                       *)
Call(p) ==
  /\ step[p] = Idle
  /\ Goto(p, 1)
  /\ UNCHANGED <<present, missing, worker, lost, faults>>

(* CREATE TABLE IF NOT EXISTS.                                              *)
CreateTable(p) ==
  /\ step[p] \in Steps
  /\ Statements[step[p]] \in Tables
  /\ present' = present \cup {Statements[step[p]]}
  /\ Goto(p, step[p] + 1)
  /\ UNCHANGED <<missing, worker, lost, faults>>

AtColumn(p) == step[p] \in Steps /\ Statements[step[p]] \in Columns

(* Mutant: the columns are not looked up.                                   *)
ProbeNothing(p) ==
  /\ AtColumn(p)
  /\ ~missing[p]
  /\ missing' = [missing EXCEPT ![p] = TRUE]
  /\ UNCHANGED <<present, step, worker, lost, faults>>

(* Mutant: a column that is there ends the migration.                       *)
ProbeAndReturn(p) ==
  /\ AtColumn(p)
  /\ ~missing[p]
  /\ IF Statements[step[p]] \in present
       THEN Goto(p, Ready) /\ UNCHANGED missing
       ELSE missing' = [missing EXCEPT ![p] = TRUE] /\ UNCHANGED step
  /\ UNCHANGED <<present, worker, lost, faults>>

(* _add_column_if_missing: PRAGMA table_info ...                            *)
Probe(p) ==
  /\ AtColumn(p)
  /\ ~missing[p]
  /\ IF Statements[step[p]] \in present
       THEN Goto(p, step[p] + 1) /\ UNCHANGED missing
       ELSE missing' = [missing EXCEPT ![p] = TRUE] /\ UNCHANGED step
  /\ UNCHANGED <<present, worker, lost, faults>>

(* ... and ALTER TABLE.  Somebody else may have added the column by now:    *)
(* "duplicate column name" is raised through init_db and the request.       *)
AddColumn(p) ==
  /\ Statements[step[p]] \notin present
  /\ present' = present \cup {Statements[step[p]]}
  /\ Goto(p, step[p] + 1)
  /\ UNCHANGED lost

DuplicateColumn(p) ==
  /\ Statements[step[p]] \in present
  /\ lost' = [lost EXCEPT ![p] = @ \cup {Statements[step[p]]}]
  /\ Goto(p, Idle)
  /\ UNCHANGED present

(* Mutant: a failed ALTER is tried again, without another look.             *)
AlterAgain(p) ==
  /\ AtColumn(p)
  /\ missing[p]
  /\ \/ AddColumn(p) /\ missing' = [missing EXCEPT ![p] = FALSE]
     \/ Statements[step[p]] \in present /\ UNCHANGED <<present, step, missing, lost>>
  /\ UNCHANGED <<worker, faults>>

AlterTable(p) ==
  /\ AtColumn(p)
  /\ missing[p]
  /\ AddColumn(p) \/ DuplicateColumn(p)
  /\ missing' = [missing EXCEPT ![p] = FALSE]
  /\ UNCHANGED <<worker, faults>>

(* The service works on the tables, and the request ends.                   *)
Serve(p) ==
  /\ step[p] = Ready
  /\ Goto(p, Idle)
  /\ UNCHANGED <<present, missing, worker, lost, faults>>

(* Mutant: what was looked up outlives the call.                            *)
AbortKeepsProbe(p) ==
  /\ step[p] \in Steps
  /\ faults < MaxFaults
  /\ faults' = faults + 1
  /\ Goto(p, Idle)
  /\ UNCHANGED <<present, missing, worker, lost>>

(* "database is locked", or the end of the process.                         *)
Abort(p) ==
  /\ step[p] \in Steps
  /\ faults < MaxFaults
  /\ faults' = faults + 1
  /\ Goto(p, Idle)
  /\ missing' = [missing EXCEPT ![p] = FALSE]
  /\ UNCHANGED <<present, worker, lost>>

(* claim_due_alerts finds a row, one of an older version perhaps.  While a  *)
(* column it names is missing it raises, and the loop sleeps and goes on.   *)
Claim ==
  /\ worker = "poll"
  /\ ClaimUses \subseteq present
  /\ worker' = "ack"
  /\ UNCHANGED <<present, step, missing, lost, faults>>

(* ack_alert, or the except block when it raises.                           *)
Ack ==
  /\ worker = "ack"
  /\ worker' = IF AckUses \subseteq present THEN "poll" ELSE "fail"
  /\ UNCHANGED <<present, step, missing, lost, faults>>

(* fail_alert; when it raises too, the batch is dropped, locked.            *)
Fail ==
  /\ worker = "fail"
  /\ worker' = "poll"
  /\ UNCHANGED <<present, step, missing, lost, faults>>

InitDb(p) == CreateTable(p) \/ Probe(p) \/ AlterTable(p) \/ Serve(p)

Next ==
  \/ \E p \in Callers : Call(p) \/ InitDb(p) \/ Abort(p)
  \/ Claim \/ Ack \/ Fail

Spec == Init /\ [][Next]_vars

(* A call of init_db that began goes on, and clients send further requests. *)
FairSpec == Spec /\ \A p \in Callers : WF_vars(InitDb(p)) /\ WF_vars(Call(p))

-------------------------------------------------------------------------------
(* Types, and: what a probe found is used in the call that made it.         *)
SchemaTypeOK ==
  /\ present \subseteq Tables \cup Columns
  /\ step \in [Callers -> Idle..Ready]
  /\ missing \in [Callers -> BOOLEAN]
  /\ \A p \in Callers : missing[p] => AtColumn(p)
  /\ worker \in {"poll", "ack", "fail"}
  /\ lost \in [Callers -> SUBSET Columns]
  /\ faults \in 0..MaxFaults

(* A service that got past its init_db finds every table and every column,  *)
(* whatever other calls raised, were cut off, or still run.                 *)
ReadyMeansComplete ==
  (\E p \in Callers : step[p] = Ready) => Tables \cup Columns \subseteq present

(* The worker may claim rows of a database that is half migrated, and its   *)
(* ack may then raise.  The columns come in an order that keeps fail_alert  *)
(* working from the first claim on, so no such row stays locked.            *)
ClaimedCanFail == worker # "poll" => FailUses \subseteq present

(* database.py: "safe migration".  A caller loses the race for a column at  *)
(* most once, so after at most one failed request per column it gets on.    *)
LosesOnce ==
  [][\A p \in Callers :
       missing[p] /\ DuplicateColumn(p) => Statements[step[p]] \notin lost[p]]_vars

(* In the end every caller gets served, and the worker finds its columns.   *)
EveryoneStarts ==
  /\ \A p \in Callers : []<>(step[p] = Ready)
  /\ <>[](ClaimUses \cup AckUses \cup FailUses \subseteq present)
===============================================================================
