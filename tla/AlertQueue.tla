------------------------------ MODULE AlertQueue ------------------------------
(***************************************************************************)
(* The two alert tables of storage/database.py and the transactions over   *)
(* them: enqueue_alert, claim_due_alerts, ack_alert and fail_alert of      *)
(* storage/alert_queue.py, replay_dead_letter_alert of                     *)
(* storage/admin_alerts.py.                                                *)
(*                                                                         *)
(* Every operation is one SQLite transaction, so it is one action.  This   *)
(* module says nothing of who calls them: AlertQueue's Next lets any       *)
(* worker name acknowledge or fail any row at any time, so what holds here *)
(* holds whatever the callers do.  DeceptionWorker adds the callers.       *)
(***************************************************************************)
EXTENDS Integers, FiniteSets

CONSTANTS
  Alerts,        \* incidents: the username, session, type and payload of a row
  DelaySeconds,  \* [Alerts -> Int], the delay_seconds their producer passes
  WorkerNames,   \* values of WorkerConfig.worker_name
  Unlocked,      \* SQL NULL in locked_by
  NoAlert,       \* the alert of a row that is not in the table
  MaxAttempts,   \* WorkerConfig.max_attempts
  BatchSize,     \* WorkerConfig.batch_size
  LockTTL,       \* WorkerConfig.lock_ttl_seconds
  StartTime,     \* the clock when the system starts, in seconds
  ClockSteps,    \* how far the clock may move while nothing is waited for
  Horizon,       \* bound: those moves end at this time
  MaxId          \* bound: rows ever inserted in alert_queue

ASSUME QueueAssumption ==
  /\ DelaySeconds \in [Alerts -> Int]
  /\ NoAlert \notin Alerts
  /\ Unlocked \notin WorkerNames
  /\ MaxAttempts \in Nat \ {0}
  /\ BatchSize \in Nat \ {0}
  /\ LockTTL \in Nat
  /\ StartTime \in Nat
  /\ ClockSteps \subseteq Nat
  /\ Horizon \in Nat
  /\ MaxId \in Nat

VARIABLES
  now,          \* the UTC clock, in seconds
  queue,        \* table alert_queue: [Ids -> Row]
  nextId,       \* its AUTOINCREMENT counter
  deadLetters,  \* table alert_dead_letter
  raised,       \* history: the alerts that were enqueued
  settled       \* history: the alerts whose row an ack removed

tables == <<queue, nextId, deadLetters>>
queueVars == <<now, queue, nextId, deadLetters, raised, settled>>

Ids == 1..MaxId

(***************************************************************************)
(* Timestamps are TEXT columns compared as text.  isoformat() writes       *)
(* "2025-01-31T12:00:00+00:00", datetime('now') writes "2025-01-31         *)
(* 12:00:00": a blank sorts before "T", so the second sorts before every   *)
(* isoformat() of its day and after every one of the day before.  A stamp  *)
(* is the rank of a text in that order; NoStamp is SQL NULL.               *)
(***************************************************************************)
SecondsPerDay == 86400
IsoStamp(t) == 2 * t + 1
DayStamp(t) == 2 * (t - (t % SecondsPerDay))
NoStamp == 0

Row == [status    : {"absent", "pending", "processing"},
        alert     : Alerts \cup {NoAlert},
        scheduled : Nat,
        attempts  : Nat,
        lockedBy  : WorkerNames \cup {Unlocked},
        lockedAt  : Nat]

NoRow == [status |-> "absent", alert |-> NoAlert, scheduled |-> 0,
          attempts |-> 0, lockedBy |-> Unlocked, lockedAt |-> NoStamp]

PendingRow(a, stamp) ==
  [status |-> "pending", alert |-> a, scheduled |-> stamp,
   attempts |-> 0, lockedBy |-> Unlocked, lockedAt |-> NoStamp]

DeadLetter == [original : Ids, alert : Alerts, attempts : Nat]

RetryBackoffSeconds(attempts) ==
  CASE attempts = 1 -> 5
    [] attempts = 2 -> 30
    [] attempts = 3 -> 300
    [] attempts = 4 -> 1800
    [] attempts = 5 -> 7200
    [] OTHER -> 21600

AtLeastZero(n) == IF n < 0 THEN 0 ELSE n

-------------------------------------------------------------------------------
QueueInit ==
  /\ now = StartTime
  /\ queue = [i \in Ids |-> NoRow]
  /\ nextId = 1
  /\ deadLetters = {}
  /\ raised = {}
  /\ settled = {}

InsertRow(a, stamp) ==
  /\ nextId \in Ids
  /\ queue' = [queue EXCEPT ![nextId] = PendingRow(a, stamp)]
  /\ nextId' = nextId + 1

(* Each call of enqueue_alert is an incident of its own: its payload holds  *)
(* the request id and the time.                                             *)
EnqueueAlert(a) ==
  /\ a \notin raised
  /\ InsertRow(a, IsoStamp(now + AtLeastZero(DelaySeconds[a])))
  /\ raised' = raised \cup {a}
  /\ UNCHANGED <<now, deadLetters, settled>>

(* Mutant: a processing row whose lock is older than the TTL is due again.  *)
ClaimableOnceExpired ==
  {i \in Ids : \/ queue[i].status = "pending" /\ queue[i].scheduled <= IsoStamp(now)
               \/ /\ queue[i].status = "processing"
                  /\ queue[i].lockedAt < IsoStamp(now - LockTTL)}

Claimable ==
  {i \in Ids : /\ queue[i].status = "pending"
               /\ queue[i].scheduled <= IsoStamp(now)
               /\ \/ queue[i].lockedAt = NoStamp
                  \/ queue[i].lockedAt < IsoStamp(now - LockTTL)}

(* ORDER BY scheduled_at ASC, id ASC *)
SortsBefore(i, j) ==
  \/ queue[i].scheduled < queue[j].scheduled
  \/ queue[i].scheduled = queue[j].scheduled /\ i < j

(* The UPDATE of claim_due_alerts: the LIMIT earliest claimable rows.  What *)
(* the call returns is read by the SELECT in ClaimedBy.                     *)
ClaimDueAlerts(w) ==
  /\ \E taken \in SUBSET Claimable :
       /\ \/ taken = Claimable /\ Cardinality(taken) <= BatchSize
          \/ taken # Claimable /\ Cardinality(taken) = BatchSize
       /\ \A i \in taken, j \in Claimable \ taken : SortsBefore(i, j)
       /\ queue' = [i \in Ids |->
            IF i \in taken
              THEN [queue[i] EXCEPT !.status = "processing",
                                    !.lockedBy = w,
                                    !.lockedAt = IsoStamp(now)]
              ELSE queue[i]]
  /\ UNCHANGED <<now, nextId, deadLetters, raised, settled>>

(* Mutant: only the rows locked just now are returned.                      *)
ClaimedJustNow(w, q) ==
  {i \in Ids : /\ q[i].status = "processing"
               /\ q[i].lockedBy = w
               /\ q[i].lockedAt = IsoStamp(now)}

(* The SELECT of claim_due_alerts: every processing row under this name,    *)
(* the ones of an earlier claim included.                                   *)
ClaimedBy(w, q) ==
  {i \in Ids : q[i].status = "processing" /\ q[i].lockedBy = w}

(* Mutant: delete=False, the row stays as 'done'.                           *)
AckKeepsRow(i, w) ==
  /\ \/ queue[i].lockedBy # w /\ UNCHANGED <<queue, settled>>
     \/ /\ queue[i].lockedBy = w
        /\ queue' = [queue EXCEPT ![i].status = "done", ![i].lockedBy = Unlocked,
                                  ![i].lockedAt = NoStamp]
        /\ settled' = settled \cup {queue[i].alert}
  /\ UNCHANGED <<now, nextId, deadLetters, raised>>

(* delete=True, as every caller has it: the row goes to 'done' and is       *)
(* deleted in the same transaction.                                         *)
AckAlert(i, w) ==
  /\ \/ /\ queue[i].lockedBy # w
        /\ UNCHANGED <<queue, settled>>
     \/ /\ queue[i].lockedBy = w
        /\ queue' = [queue EXCEPT ![i] = NoRow]
        /\ settled' = settled \cup {queue[i].alert}
  /\ UNCHANGED <<now, nextId, deadLetters, raised>>

(* Mutant: the INSERT INTO alert_dead_letter is forgotten.                  *)
DropRow(i) ==
  /\ queue' = [queue EXCEPT ![i] = NoRow]
  /\ UNCHANGED deadLetters

(* attempts >= max_attempts: INSERT INTO alert_dead_letter, DELETE the row. *)
MoveToDeadLetter(i) ==
  /\ deadLetters' = deadLetters \cup
       {[original |-> i, alert |-> queue[i].alert,
         attempts |-> queue[i].attempts + 1]}
  /\ queue' = [queue EXCEPT ![i] = NoRow]

(* Mutant: the row goes back to 'pending' with its lock.                    *)
RescheduleLocked(i) ==
  /\ queue' = [queue EXCEPT
       ![i].status    = "pending",
       ![i].attempts  = queue[i].attempts + 1,
       ![i].scheduled = IsoStamp(now + RetryBackoffSeconds(queue[i].attempts + 1))]
  /\ UNCHANGED deadLetters

Reschedule(i) ==
  /\ queue' = [queue EXCEPT
       ![i].status    = "pending",
       ![i].attempts  = queue[i].attempts + 1,
       ![i].scheduled = IsoStamp(now + RetryBackoffSeconds(queue[i].attempts + 1)),
       ![i].lockedBy  = Unlocked,
       ![i].lockedAt  = NoStamp]
  /\ UNCHANGED deadLetters

(* Mutant: attempts > max_attempts.                                         *)
FailOnceMore(i, w) ==
  /\ queue[i].lockedBy = w
  /\ IF queue[i].attempts + 1 > MaxAttempts THEN MoveToDeadLetter(i)
                                            ELSE Reschedule(i)
  /\ UNCHANGED <<now, nextId, raised, settled>>

FailAlert(i, w) ==
  /\ \/ /\ queue[i].lockedBy # w
        /\ UNCHANGED <<queue, deadLetters>>
     \/ /\ queue[i].lockedBy = w
        /\ queue[i].attempts + 1 >= MaxAttempts
        /\ MoveToDeadLetter(i)
     \/ /\ queue[i].lockedBy = w
        /\ queue[i].attempts + 1 < MaxAttempts
        /\ Reschedule(i)
  /\ UNCHANGED <<now, nextId, raised, settled>>

(* Mutant: the DELETE FROM alert_dead_letter is forgotten.                  *)
ReplayKeepsDeadLetter(d) ==
  /\ d \in deadLetters
  /\ InsertRow(d.alert, DayStamp(now))
  /\ UNCHANGED <<now, deadLetters, raised, settled>>

(* A dead letter is named here by original_alert_id, which identifies it as *)
(* its own id does: an id of alert_queue dies once.  Replaying one that is  *)
(* gone returns None and changes nothing.                                   *)
ReplayDeadLetterAlert(d) ==
  /\ d \in deadLetters
  /\ InsertRow(d.alert, DayStamp(now))
  /\ deadLetters' = deadLetters \ {d}
  /\ UNCHANGED <<now, raised, settled>>

(* Time reaches the moment at which a waiting row falls due ...             *)
WaitUntilDue(i) ==
  /\ queue[i].status = "pending"
  /\ queue[i].scheduled > IsoStamp(now)
  /\ now' = (queue[i].scheduled - 1) \div 2
  /\ UNCHANGED <<tables, raised, settled>>

(* ... or simply passes, up to the Horizon.                                 *)
TimePasses(s) ==
  /\ s > 0
  /\ now + s <= Horizon
  /\ now' = now + s
  /\ UNCHANGED <<tables, raised, settled>>

Clock ==
  \/ \E i \in Ids : WaitUntilDue(i)
  \/ \E s \in ClockSteps : TimePasses(s)

QueueNext ==
  \/ \E a \in Alerts : EnqueueAlert(a)
  \/ \E w \in WorkerNames : ClaimDueAlerts(w)
  \/ \E i \in Ids, w \in WorkerNames : AckAlert(i, w)
  \/ \E i \in Ids, w \in WorkerNames : FailAlert(i, w)
  \/ \E d \in deadLetters : ReplayDeadLetterAlert(d)
  \/ Clock

QueueSpec == QueueInit /\ [][QueueNext]_queueVars

-------------------------------------------------------------------------------
(* Where an alert is.                                                       *)
Queued(a) == \E i \in Ids : queue[i].alert = a
Dead(a) == \E d \in deadLetters : d.alert = a

(* Types of the tables, and: ids from nextId on are unused.                 *)
QueueTypeOK ==
  /\ now \in Nat
  /\ queue \in [Ids -> Row]
  /\ nextId \in 1..(MaxId + 1)
  /\ deadLetters \subseteq DeadLetter
  /\ raised \subseteq Alerts
  /\ settled \subseteq Alerts

(* An alert that was enqueued is never lost: until an ack removes its row   *)
(* it is in alert_queue or in alert_dead_letter, whatever order the calls   *)
(* of workers and administrators come in.                                   *)
NothingLost ==
  \A a \in raised : Queued(a) \/ Dead(a) \/ a \in settled

(* An alert is never in two places, so no sequence of failures, moves to    *)
(* the dead-letter table and replays can double it, and one that an ack     *)
(* settled never comes back.                                                *)
OnePlace ==
  /\ \A i, j \in Ids :
       queue[i].alert = queue[j].alert /\ queue[i].alert # NoAlert => i = j
  /\ \A d, e \in deadLetters : d.alert = e.alert => d = e
  /\ \A a \in Alerts :
       /\ ~(Queued(a) /\ Dead(a))
       /\ a \in settled => ~Queued(a) /\ ~Dead(a)

(* A row carries a lock exactly while it is processing, and the lock names  *)
(* a worker.  (So a pending row is never locked: the lock_ttl_seconds test  *)
(* of the claim never decides anything.)                                    *)
LeaseDiscipline ==
  \A i \in Ids :
    /\ queue[i].status = "processing" <=> queue[i].lockedBy \in WorkerNames
    /\ queue[i].status = "processing" <=> queue[i].lockedAt # NoStamp
    /\ queue[i].lockedAt <= IsoStamp(now)

(* fail_alert counts every failure once: a row in the queue has attempts    *)
(* left, and a dead letter has used exactly max_attempts, also after any    *)
(* number of replays.                                                       *)
RetryBudget ==
  /\ \A i \in Ids : queue[i].attempts < MaxAttempts
  /\ \A d \in deadLetters : d.attempts = MaxAttempts
===============================================================================
