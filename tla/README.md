# TLA+ verification of DuressAuth

DuressAuth is an authentication backend in which a user has two passwords. The
real one opens a normal session; the duress password opens a session that looks
the same, while a silent alarm is queued and worked off by a separate process.
This directory models the parts of it in which order, concurrency and failure
matter, checks them with TLC and proves with TLAPS every safety property, action
property and refinement that a run checks, for all values of the constants.

Paths below are relative to `src/src/duress_auth/` unless they name the README
of the repository.

## 1. Inventory

| Component | State | Operations | Used by |
|---|---|---|---|
| Alert queue, `storage/alert_queue.py` | tables `alert_queue`, `alert_dead_letter` | enqueue, claim, ack, fail | service, duress policy, worker |
| Dead-letter administration, `storage/admin_alerts.py` | the same tables | replay; two listings | REST API |
| Deception worker, `deception/worker.py` | claimed batch in memory, position in the loop | `run_worker`, `_process_one` | its own process |
| Sessions, `auth/sessions.py` | table `sessions` | create, is active, touch, revoke | service |
| Refresh tokens, `auth/refresh_store.py` | table `refresh_tokens` | store, rotate, revoke all, active, known, fingerprint | service |
| Authentication service, `auth/service.py` | locals of each request | register, login, refresh, me, logout | REST API, CLI |
| Login lockout, in `auth/service.py` | `failed_attempts`, `lock_until` in `users` | reset, apply failed attempt | login |
| Rate limiter, `auth/rate_limiter.py` | list of times per address, in memory | check | login |
| Duress policy, `auth/duress_policy.py` | locals of each request | transfer | REST API |
| Tokens, `auth/tokens.py` | none (signed claims) | create, verify | service, policy |
| Schema, `storage/database.py` | the schema | create, migrate | every endpoint |
| Audit log, `audit/` | table `audit_logs` | insert | all |
| Metrics, `storage/*_metrics.py` | none | counts | REST API |
| REST API, CLI, schemas, hashing | none | | |

**How they interact.** The API server runs its handlers in a thread pool; each
handler calls functions that open an SQLite connection of their own and commit,
so a handler is a sequence of small transactions with nothing held between
them. Handlers and worker processes meet only in the database. Alerts go from a
handler (`enqueue_alert`) through the table to a worker, which tells the
channels, writes an audit record and acknowledges; a failed alert is retried
with a backoff and moved to the dead-letter table at `max_attempts`, from where
an administrator may replay it.

**What is hard.** Several workers and several requests at once; state checked in
one transaction and used in a later one; a process that ends between two
transactions; channels and database calls that fail; retries of what has been
done already; time, compared as text in two formats. `PROJECT.json` lists every
such hazard at its line with the properties that address it.

**What makes each component correct.**

- Queue: an alert is never lost or doubled; locks go with processing; attempts
  are counted exactly; nothing is claimed early.
- Worker: an ack follows full delivery and an audit record; a claim that is held
  stands; every queued alert is resolved in the end.
- Sessions and tokens: one live token per session; none in a revoked session; no
  token exchanged twice; replaying a token costs the session.
- Service: the silent alarm precedes the tokens; an incident is escalated; no
  request harms another session.
- Lockout and rate limiter: attempts are counted, locks are deserved and of the
  right length, refusals are due.
- Duress policy: no execution under duress; the alert precedes the answer.
- Schema: concurrent starts end with one complete schema.
- Metrics: an alert that is open is in one of the counts.

## 2. Modules

| Module | Models | Kind |
|---|---|---|
| `AlertQueue` | both alert tables, one action per transaction, the clock | component |
| `DeceptionWorker` | EXTENDS `AlertQueue`: worker processes, producers, administrator, faults and crashes | composition |
| `AlertPipeline` | what the pipeline promises: raised, open, settled, dead | abstract specification |
| `SessionLife` | what the session layer promises: one current token after the other, stripped, closed | abstract specification |
| `SessionStore` | `sessions`, `refresh_tokens` and the functions on them | component |
| `AuthService` | EXTENDS `SessionStore`: login, refresh, logout and transfer as request threads | composition |
| `LoginGate` | what a login passes first: rate limit by address, lockout of the account | component |
| `SchemaInit` | `init_db` by concurrent callers, beside a worker | component |
| `AlertMetrics` | EXTENDS `AlertQueue`: reading the figures while alerts move | composition |
| `AlertQueueProofs` | theorems about `AlertQueue` | proofs |
| `DeceptionWorkerProofs` | EXTENDS `AlertQueueProofs`: theorems about `DeceptionWorker`, and that it implements `AlertPipeline` | proofs |
| `AuthServiceProofs` | theorems about the tokens and sessions of `AuthService` | proofs |
| `SilentAlarmProofs` | EXTENDS `AuthServiceProofs`: theorems about the silent alarm, transfers under duress and the escalation of incidents | proofs |
| `LiveSessionProofs` | EXTENDS `SilentAlarmProofs`: theorems about live sessions and serial reuse, and that `AuthService` implements `SessionLife` | proofs |
| `AlertMetricsProofs` | EXTENDS `AlertQueueProofs`: the theorem about the figures | proofs |
| `LoginGateProofs` | theorems about `LoginGate` | proofs |
| `SchemaInitProofs` | theorems about `SchemaInit` | proofs |
| `MCAlertQueue`, `MCDeceptionWorker`, `MCAuthService`, `MCLoginGate`, `MCSchemaInit` | instances for TLC | model checking |

### AlertQueue

`queue` maps each id the table may hand out to its row; a row that is not there
is `NoRow`. `deadLetters` is the dead-letter table, `raised` and `settled` are
history. Each Python function is one transaction (`BEGIN IMMEDIATE` or a single
statement), hence one action. `QueueNext` lets any worker name ack or fail any
row at any time, so what is checked and proved here does not depend on callers.

`isoformat()` and SQLite's `datetime('now')` write different formats into the
same column and the claim compares them as text. `IsoStamp` and `DayStamp` are
the ranks of those texts: a replayed row's `YYYY-MM-DD hh:mm:ss` sorts before
every `YYYY-MM-DDThh...` of its day. `ReplayDeadLetterAlert` therefore makes a
row that is due at once and first in line, and the queue run crosses midnight.

Definitions marked *Mutant* in this and the other modules are not part of the
specification: each is a plausible mistake in the definition that follows it,
used to see that the properties notice.

### DeceptionWorker

`pc` follows `run_worker`: `poll` (claim), `process` (the next line of
`_process_one`), `logDone` / `ack` after success, `logFailed` / `fail` in the
`except` block. `batch` is the list of frozen `AlertItem`s. `FaultInItem` is an
exception of `log_event` or `ack_alert` inside the inner `try`, `FaultInHandler`
one inside the `except` block, which drops the rest of the batch; `Stop` is
Ctrl-C, a kill or a crash and leaves the rows as they are.

`Fate` maps the tables to `AlertPipeline`: not raised; open while a row exists;
dead while a dead letter exists; settled otherwise. The claim, the locks, the
audit records, retries, crashes and the clock are stuttering steps.

### SessionStore and AuthService

Sessions and tokens are named by the order of their INSERTs. A token row keeps
the context (address, user agent, device) it is bound to and, as history, the
token it was rotated from. In `AuthService` a thread's `call` is the position
and the local variables of one handler; every database call is one step.
`delivered` are the refresh tokens that left the server; whoever has one may
present it from any context at any time, which covers clients that retry after
a lost reply. `Abort` ends a request anywhere: an exception, or the end of the
API process.
`logout_user_service` and `me_user_service` are called by no endpoint and no
command yet; the logout is modelled as an operation of the service like the others.

`Life` maps the two tables to `SessionLife`: the state of a session is that of its
row, its current tokens are the active ones, its spent tokens the revoked ones.
Alerts, audit records, answers, requests in flight and aborts are stuttering
steps, and so is each of the two revocations when the other request of a race has
done it already.

A transfer follows `process_transfer_request`: it reads the mode of its session
once (`ReadMode`), queues the alert of a duress session, writes its audit record
and answers; in between the session may be revoked or the request cut off.
`answers` holds what a session's transfers were told.

Left out of `AuthService`: requests whose token does not verify (they touch no
table) and `touch_session` (its columns are read by nobody). What comes before a
login's password is verified is `LoginGate`. `Requests` restricts an instance to
some kinds of request.

### LoginGate

A login passes the rate limit of its address and the lockout of its account.
`check_ip_rate_limit` works without a lock on a list that the server's threads
share: rebuilding it, assigning it, comparing its length and appending are four
steps (`Filter`, `Assign`, `CheckLimit`, `AppendAttempt`), and what another
thread appends between the first two is dropped. The lockout is read in
`ReadUser`, which keeps counter and clock in the thread; two password checks
later `ResetLockState` or `ApplyFailedAttempt` writes the row. The check of the
password itself is the BOOLEAN `right`: either of the account's two passwords.

The exact properties hold while logins do not overlap; `raced` records where two
did: two threads in the rate limiter with one address, or two between the read
and the write of the row. What holds in spite of overlaps (`LockIsEarned`) does
not ask for it. `Restart` ends the process: the lists are gone, the row stays.

### SchemaInit

`Statements` is `init_db` in order: six CREATE TABLE IF NOT EXISTS, then the six
columns an older `alert_queue` lacks. Python's `sqlite3` opens no transaction for
DDL, so each statement is committed by itself; a column is looked up (`Probe`)
and added (`AlterTable`) in two steps, and when somebody else added it in
between, `DuplicateColumn` ends the call with an exception. The database starts
with any prefix of the statements: empty, of the version before the columns, or
left by a call that was cut off. The worker never calls `init_db`; `ClaimUses`,
`AckUses` and `FailUses` are the names its three statements need.

### AlertMetrics

`TablesChange` is any step of `AlertQueue`; it may come between any two of the
counts of `get_alert_metrics` (queue, then dead letters) or `get_worker_metrics`
(pending, processing, dead letters). `shown` is their sum, `unresolved` the alerts
that stayed open since the read began, `moved` whether one went against the order
of the counts.

## 3. Runs

| Run | Instance | Shows |
|---|---|---|
| `queue_tables` | 2 alerts (one delayed 120 s), 2 workers, `max_attempts` 2, batch 1, 4 row ids, start 10 s before midnight, one reader of the metrics | types, `NothingLost`, `OnePlace`, `LeaseDiscipline`, `RetryBudget`, `UnresolvedAreReported` |
| `worker_distinct` | 2 workers with own names, 2 alerts of different types, batch 2, 3 row ids, 1 fault, 1 stop | `HeldClaimsStand`, `ExclusiveProcessing`, `NoOrphans`, `SettledWasDelivered`, `DeadWasAudited`, refinement of `AlertPipeline` |
| `worker_resolves` | 1 worker that is restarted, 1 fault, 1 stop, fairness | `EventuallyResolved` |
| `worker_shared_rows` | 2 workers with one name | violated: `ExclusiveProcessing` |
| `worker_stuck_rows` | 2 workers, one is never restarted, fairness | violated: `EventuallyResolved` |
| `auth_chain` | 2 threads, 1 session, 3 tokens, transfers too, 1 abort | `TokenChain`, `RevokedMeansDead`, `AlarmBeforeTokens`, `DuressTransferIsDecoy`, `RotatesInLiveSession` |
| `auth_requests` | 2 threads, 2 sessions, 2 tokens, 2 devices, logins and refreshes, fairness, no abort | `LiveSessionHasToken`, `IncidentsInHand`, `IncidentEscalated`, refinement of `SessionLife` |
| `auth_concurrent_replay` | 2 threads | violated: `ReuseKillsSession` |
| `auth_incident_cut` | 2 threads, 1 abort, fairness | violated: `IncidentEscalated` |
| `login_gate` | 2 threads, 1 address, limit 2 in a window of 2, lock at 2 failures for 1 to 2 seconds, 4 logins, 4 seconds, any aborts and restarts | `SlidingWindow`, `RefusalsAreDue`, `SerialLockout`, `LockedRowStands`, `LockIsEarned` |
| `login_lock_lifted` | the same gate | violated: `LockStands` |
| `schema_start` | 2 callers, any older schema, 1 call cut off, the worker, fairness | `ReadyMeansComplete`, `ClaimedCanFail`, `LosesOnce`, `EveryoneStarts` |

The violated properties state what the repository's documentation or comments
say; `PROJECT.json` quotes them under `findings`.

**Bounds and why they are enough.** `MaxAttempts` 2 gives each alert a retry and
a dead letter; `RetryBackoffSeconds` keeps the code's table. Three or four row
ids allow a replay, whose row fails and dies again. Two alerts of different type
give a batch with a first and a last item, a delayed and an immediate one, and
routes of different length. Time jumps to the moment a row falls due; steps of
20 s in the queue run put a replay before and after midnight. One fault and one
stop at any place, in any worker, are what it takes to interrupt each step once;
`NotifyFails` is not bounded. Three tokens are a chain of two rotations, so that
a token has a parent and a successor; two threads show every race of two
requests. In the gate, four logins are two up to a limit and one beyond, or two
failures, a lock and one more failure that doubles it to the cap; the clock
moves past a window and a lock. Two callers of `init_db` show every race for a
column. `CHECK_DEADLOCK FALSE` stands in the auth instances because they stop
when the tokens are used up; the alert instances never stop, an idle worker polls
for ever.

**Symmetry** of the two threads or workers is used in `queue_tables`,
`auth_chain`, `auth_concurrent_replay`, `login_gate` and `login_lock_lifted`
only, whose properties are no liveness properties.

**Fairness.** `DeceptionWorker!Fairness`: a worker that runs takes its next step
(`while True`, every `Exception` caught, sleeps of bounded length); a worker in
`Supervised` is started again; the clock reaches the time a row is waiting for.
Nothing is assumed of producers, administrators or channels: a channel may fail
for ever, and the alert then ends as a dead letter. `AuthService!FairSpec`: a
thread goes on with the request it serves; nobody is obliged to send one.
`SchemaInit!FairSpec`: a call of `init_db` goes on, and clients go on sending
requests: a request that lost a race for a column fails, and it is a later one
that completes the migration.

## 4. What is proved

Every theorem holds for all values of the constants. The assumptions are
`QueueAssumption`, `WorkerAssumption`, `StoreAssumption`, `ServiceAssumption`, `GateAssumption` and
`SchemaAssumption` of the modules:
bounds and delays are numbers, the markers "no alert" and "not locked" are no
alert and no worker, a context has an address, an agent and a device. TLC
evaluates them in the passing runs.

| Theorem | States |
|---|---|
| `QueueTypes`, `AlertsAreNotLost`, `AlertsHaveOnePlace`, `LocksAreLeases`, `AttemptsAreCounted` | `QueueTypeOK`, `NothingLost`, `OnePlace`, `LeaseDiscipline`, `RetryBudget` under `QueueSpec` |
| `OpenAlertsAreReported` | `UnresolvedAreReported` under `AlertMetrics!MetricsSpec` |
| `WorkerTypes`, `ClaimsStand`, `OwnNamesExclude`, `SettledAlertsWereDelivered`, `DeadLettersWereAudited` | `WorkerTypeOK`, `HeldClaimsStand`, `ExclusiveProcessing`, `SettledWasDelivered`, `DeadWasAudited` under `DeceptionWorker!Spec`, if no two workers have one name (`OwnNames`) |
| `WorkersImplementPipeline` | `ImplementsPipeline`: `DeceptionWorker!Spec` implements `AlertPipeline!Spec`, under `OwnNames` |
| `WorkersFollowQueue`, `ClaimsAreInHand` | `DeceptionWorker!Spec` implements `QueueSpec`, and `NoOrphans`, under any names |
| `ServiceTypes`, `TokensAreChains`, `RevokedIsDead`, `RotationsAreLive` | `ServiceTypeOK`, `TokenChain`, `RevokedMeansDead`, `RotatesInLiveSession` under `AuthService!Spec` |
| `LiveSessionsHaveTokens` | `LiveSessionHasToken` under `AuthService!Spec`, if `MaxAborts = 0` |
| `RequestsImplementSessionLife` | `ImplementsSessionLife`: `AuthService!Spec` implements `SessionLife!Spec`, with aborts |
| `SerialReuseIsDetected` | `ReuseKillsSession` under `AuthService!Spec`, if there is one thread (`OneAtATime`) |
| `SilentAlarmFirst`, `DuressTransfersAreDecoys` | `AlarmBeforeTokens`, `DuressTransferIsDecoy` under `AuthService!Spec` |
| `IncidentsAreReported` | `IncidentsInHand` under `AuthService!Spec`, if `MaxAborts = 0` |
| `GateTypes`, `LocksAreEarned` | `GateTypeOK`, `LockIsEarned` under `LoginGate!Spec` |
| `SerialLockouts`, `LockedRowsStand`, `WindowSlides`, `RefusalsHaveCause` | `SerialLockout`, `LockedRowStands`, `SlidingWindow`, `RefusalsAreDue` under `LoginGate!Spec` |
| `SchemaInvariant`, `SchemaTypes`, `ReadyIsComplete`, `ClaimsCanFail`, `RacesAreLostOnce` | `SchemaTypeOK`, `ReadyMeansComplete`, `ClaimedCanFail`, `LosesOnce` under `SchemaInit!Spec` |

**Queue.** No invariant of the queue is inductive alone. `QueueInv` adds to the
five that a row that is there holds an alert and ids not yet given out are free
(`RowsFit`), and that what is in a table was raised (`OnlyRaised`). With them:
`fail_alert` moves a real alert, so nothing is lost; a new alert is nowhere yet,
so none is doubled; and a row below `max_attempts` reaches the dead-letter table
at exactly `max_attempts`. There is one lemma per transaction. `QueueSpec`
restricts no caller, so nothing the worker does wrong can break these.

**Worker.** Every step of the composition over the tables is a step of `QueueNext`,
so `QueueInv` holds of it too. `WorkerInv` adds `ClaimsAreRows`, that a claimed
item is still its row: it survives a step of another worker because one id is in
the batch of one worker only (`OneHolder`), which needs names of their own, and
`worker_shared_rows` shows what happens without. `Progress` follows a worker
through its current item: at the ack every channel of the route was told and the
record is written, at the failure the failure is. A crash or an exception empties
the batch and so owes nothing. The refinement is proved step by step: `Fate` of one
alert changes (`FateMoves`) or of none (`FateStays`); `OnePlace` gives that an
alert whose row goes is nowhere else, `Progress` that it may be settled.

**Any names.** Two things do not depend on whose name a worker has. Its steps over
the tables are steps of the queue (`WorkersFollowQueue`), so the theorems about
`QueueSpec` hold even of workers that share rows. And `NoOrphans`: a step that
takes a row from a batch either gives it back, or acknowledges it, or leaves the
worker polling or down, and a worker polls under the name the row is locked by. So
faults and crashes orphan nothing by themselves; what `worker_stuck_rows` shows is
a worker that stays down.

**Figures.** Each count is compared with the set of alerts it has to cover
(`Covered`). Until the next count this set only shrinks: an alert becomes pending
by a retry or a replay only, leaves the dead letters by a replay only, and an alert
enqueued meanwhile is not looked for. When a count is taken, the alerts are no more
than the rows that hold them (`ImageIsSmaller`).

**Tokens and sessions.** `RevokedMeansDead` is the subtle one: tokens and session
are revoked in two transactions, and requests that were checked before go on in
between. `ServiceInv` has three parts that explain why it holds. `TokensFit`: the
parent of a token is revoked and of the same session, so an active token was
never exchanged. `LoginsFit`: a login's session has no token yet and no other
login has it; hence no thread can revoke it, as revoking starts from a token of
the session. `CallsFit`: a thread that is about to revoke a session has revoked
its tokens; hence a rotation, which needs an active token, is never of that
session. From the same invariant follows the action property
`RotatesInLiveSession`: the check of the session is stale when the rotation
runs, but the token row says all that matters.

**Live sessions.** `LiveSessionHasToken` is inductive next to `ServiceInv`: a new
session has no token yet, a rotation gives its session a token for the one it
takes, and who revokes the tokens of a session is then the thread between the two
revocations. An abort of that thread breaks it, so the theorem excludes aborts.

**Session life.** The refinement needs the whole of `ServiceInv`: a grant finds a
session without tokens (`LoginsFit`), a rotation takes the one active token and
names a fresh one (`TokenChain`), a revocation strips the session of one token or of
none, and a session is closed only by a thread that has stripped it (`CallsFit`).
That nothing is granted after the stripping is what a wrong order of the two
revocations, or a rotation that did not look at the token row, would break.

**Serial reuse.** With one thread a token that was found active is still active
when it is rotated, so a refresh is turned away as invalid only if its session is
dead. This is the other half of `auth_concurrent_replay`: the overlap is all it takes.

**Incidents.** `IncidentsInHand` is the safety part of `IncidentEscalated`: an
incident that revoked a session has its record and its alert, or a thread is on
its way to write what is missing. `IncidentInv` adds the order of the two, as the
thread that enqueues the alert has written the record. An abort of that thread
breaks it, and `auth_incident_cut` shows so.

**Silent alarm.** `AlarmInv` follows a login over its six transactions: the session
row has the mode the handler remembers, the stored token is of that session, and
a handler that may answer with a token has one whose alarm is queued. What
exists keeps its mode and session and alerts only grow (`Grows`), so one lemma
(`CallKeeps`) covers every thread that does not move.

**Transfers.** Who may answer a transfer in a session has a delivered token of
it, so by `SilentAlarmFirst` the login's alarm is queued; the mode a handler
remembers is the session's, which never changes; and the step before a duress
answer is the alert. That the session may be revoked meanwhile does not matter,
since nothing removes an alert, a mode or an audit record.

**Lockout.** `LockIsEarned` needs that what a thread remembers is old but not
invented: the counter it read is at most the failures written by then, and its
clock is at most the present one. `SerialLockout` needs that without a race at
most one thread is between read and write, and that what it remembers is then
still in the row. The lock's length needs that a power of two is a natural
number, which the provers have no rule for: `PowerOfTwo` gets it by counting the
subsets of a set with that many elements.

`LockedRowStands` follows from the same: who is about to write the row has found it
unlocked, nobody else wrote it since, and the clock only unlocks (`RowInv`).

**Window.** While no two checks of an address overlap, the list of the address
differs from the logins that were let through only by those that are out of the
window: the filter drops these and no others, and nobody appends between the filter
and the comparison. `WindowInv` follows the list through the four steps; at
the comparison its length is the number of logins let through in the window that
ends there. Below the limit the new login is at most the last one allowed;
at the limit the refusal is due.

**Schema.** What the database has was created in the order of the statements
(`InOrder`), and a caller has all that is behind it (`BehindIsDone`). A caller that
returned is behind everything. The claim needs `locked_at`, the statement after
all that `fail_alert` needs: the order of the columns is what keeps a worker on a
half migrated table from locking a row for good. A probe that finds a column
missing finds none the caller has lost before, as those are there.

**Only model-checked.** Liveness (`EventuallyResolved`, `IncidentEscalated`,
`EveryoneStarts`): the prover has no rule for fairness or ENABLED. Induction over
data and RECURSIVE operators, which the provers do not support, are not used.

## 5. What was found

Each of the violated runs is a disagreement between the code and what its
documentation or comments say. Four have a theorem beside them that says when the
documentation is right: with names of their own (`OwnNamesExclude`), one request
at a time (`SerialReuseIsDetected`), no request cut off (`IncidentsAreReported`), no
two logins overlapping on the row (`LockedRowsStand`).

- `ExclusiveProcessing`: two workers started with the documented command have one
  name; a claim returns every row processing under that name, so both handle the
  same alert.
- `EventuallyResolved`: a claim takes pending rows only, so the lock TTL never
  frees the rows of a worker that does not come back.
- `ReuseKillsSession`: of two refreshes with one token at the same time the loser
  is told `REFRESH_INVALID` and the session lives on.
- `IncidentEscalated` with aborts: the session is revoked before the alert is
  queued, and after a cut in between no later request gets that far again.
- `LockStands`: a bad password whose login read the row before others were counted
  writes its old counter, and `lock_until = NULL` with it, over a lock that runs.

Seen while reading or modelling, and not run:

- The fingerprint check (`refresh_store.py:110`) requires the row not to be revoked,
  so a rotated token that is replayed counts as `FINGERPRINT_MISMATCH`; the branch
  "KNOWN but revoked -> REUSE DETECTED" (`service.py:413`) is reached by a race only.
- README:59-62 binds a refresh token to its IP; `STRICT_IP = False`
  (`refresh_store.py:101`), and the address is never compared.
- "enqueue silent/high-priority alert" (`duress_policy.py:48`): the payload has no
  severity, and `_simulate_soc_event` reports a transfer attempt as `info`.
- README:436 assumes that the visible response alone does not tell the modes
  apart; the login's reply has `mode`, the transfer's `mode`, `executed` and
  `simulated`.
- "safe migration" (`database.py:145`): of two callers that race for a column one
  raises "duplicate column name" and its request fails. `LosesOnce` and
  `EveryoneStarts` say what remains true.
- README:631 "queue totals are correct": the figures are of different moments. Pending
  and processing need not add up to the total, a retry or replay during a read
  hides an alert (`UnresolvedAreReported` excludes just that), and one that dies
  during it counts twice. `"healthy": processing >= 0` is true of every count.
- A worker on a table that has `locked_at` but not yet `processed_at` delivers an
  alert, cannot acknowledge it, and delivers it again after the backoff.
- The rate limit is one per server process, and an address seen once keeps its
  list for ever. Threads that overlap lose attempts (`Assign`).
- `/metrics/alerts` reads tables without `init_db`; the command line's `api` command
  imports a `create_app` that `api/app.py` does not define.

## 6. What is not modelled

- `touch_session`: writes `last_seen`, `last_ip`, `last_user_agent`, which no code
  reads. `me_user_service` otherwise only reads.
- Registration: one INSERT under a UNIQUE constraint.
- The listings of queue and dead letters, the counts by type and of audit records:
  they read and format.
- JWTs and hashing: cryptography behind a call; a token that does not verify ends
  the request before it touches a table.
- REST endpoints, schemas, command line: translation and output around one call
  of a service. Audit severities and the JSON on stdout: output.
- Timing: `_min_elapsed_sleep` and the dummy hash make answers equally slow, and
  no state depends on them.
- Empty files (`deception/engine.py`, `alerts.py`, `fake_data.py`, `api/deps.py`,
  `api/routes/`).

## 7. Plan

1. One composition of `AuthService` with `DeceptionWorker` through `AlertQueue`,
   with liveness from a duress login to its notification.
2. Theorems about that composition: the queue and the session layer each refine
   their abstract specification there too.
