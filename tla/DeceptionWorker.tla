--------------------------- MODULE DeceptionWorker ---------------------------
(***************************************************************************)
(* The worker processes of deception/worker.py, run against the tables of  *)
(* AlertQueue together with the producers of alerts, the administrator who *)
(* replays dead letters, and the clock.                                    *)
(*                                                                         *)
(* Every database call, every line written to a channel and every audit    *)
(* record of run_worker is a step of its own: other workers, the API and   *)
(* the end of the process come between any two of them.                    *)
(***************************************************************************)
EXTENDS AlertQueue, Sequences

CONSTANTS
  Workers,      \* worker processes
  NameOf,       \* [Workers -> WorkerNames], the worker_name each runs under
  Supervised,   \* the workers that are started again after they end
  AlertType,    \* [Alerts -> AlertTypes]
  MaxFaults,    \* bound: database or audit calls that raise
  MaxStops      \* bound: times a worker process ends

AlertTypes == {"DURESS_LOGIN", "FINGERPRINT_MISMATCH", "REFRESH_REUSE",
               "DURESS_TRANSFER_ATTEMPT"}
Channels == {"admin", "email", "soc"}

ASSUME WorkerAssumption ==
  /\ NameOf \in [Workers -> WorkerNames]
  /\ Supervised \subseteq Workers
  /\ AlertType \in [Alerts -> AlertTypes]
  /\ MaxFaults \in Nat
  /\ MaxStops \in Nat

VARIABLES
  pc,        \* where each worker is in run_worker
  batch,     \* the claimed alerts it has not finished
  sent,      \* channels it has told of the current alert
  notified,  \* [Alerts -> SUBSET Channels], what the channels received
  auditLog,  \* ALERT_PROCESSED and ALERT_FAILED records of audit_logs
  faults,    \* calls that raised so far
  stops      \* worker processes that ended so far

workerVars == <<pc, batch, sent, notified, auditLog, faults, stops>>
vars == <<queueVars, workerVars>>

(* _process_one: the channels an alert type is sent to, in order.           *)
Route(type) ==
  CASE type = "DURESS_LOGIN" -> <<"admin", "email", "soc">>
    [] type \in {"FINGERPRINT_MISMATCH", "REFRESH_REUSE"} -> <<"soc", "admin">>
    [] OTHER -> <<"soc">>

Required == [a \in Alerts |->
  {Route(AlertType[a])[k] : k \in 1..Len(Route(AlertType[a]))}]

(* The frozen AlertItem of claim_due_alerts, with the fields the loop uses. *)
AlertItem == [id : Ids, alert : Alerts, scheduled : Nat]

ItemsOf(w, q) ==
  {[id |-> i, alert |-> q[i].alert, scheduled |-> q[i].scheduled] :
     i \in ClaimedBy(w, q)}

(* x is the alert the for loop of p is at: batches are sorted by            *)
(* scheduled_at, id as they were when claimed.                              *)
IsCurrent(p, x) ==
  /\ x \in batch[p]
  /\ \A y \in batch[p] :
       \/ x.scheduled < y.scheduled
       \/ x.scheduled = y.scheduled /\ x.id <= y.id

-------------------------------------------------------------------------------
Init ==
  /\ QueueInit
  /\ pc = [p \in Workers |-> "poll"]
  /\ batch = [p \in Workers |-> {}]
  /\ sent = [p \in Workers |-> 0]
  /\ notified = [a \in Alerts |-> {}]
  /\ auditLog = {}
  /\ faults = 0
  /\ stops = 0

Goto(p, label) == pc' = [pc EXCEPT ![p] = label]

(* The for loop moves on, or returns to the while loop after the last item. *)
NextItem(p, x) ==
  /\ batch' = [batch EXCEPT ![p] = @ \ {x}]
  /\ sent' = [sent EXCEPT ![p] = 0]
  /\ Goto(p, IF batch[p] = {x} THEN "poll" ELSE "process")

Poll(p) ==
  /\ pc[p] = "poll"
  /\ ClaimDueAlerts(NameOf[p])
  /\ batch' = [batch EXCEPT ![p] = ItemsOf(NameOf[p], queue')]
  /\ sent' = [sent EXCEPT ![p] = 0]
  /\ Goto(p, IF ItemsOf(NameOf[p], queue') = {} THEN "poll" ELSE "process")
  /\ UNCHANGED <<notified, auditLog, faults, stops>>

(* Mutant: the last line is followed by the ack, not by the audit record.   *)
NotifyThenAck(p) ==
  /\ pc[p] = "process"
  /\ \E x \in batch[p] :
       /\ IsCurrent(p, x)
       /\ LET route == Route(AlertType[x.alert])
          IN  /\ notified' = [notified EXCEPT
                                ![x.alert] = @ \cup {route[sent[p] + 1]}]
              /\ Goto(p, IF sent[p] + 1 = Len(route) THEN "ack" ELSE "process")
  /\ sent' = [sent EXCEPT ![p] = @ + 1]
  /\ UNCHANGED <<queueVars, batch, auditLog, faults, stops>>

(* One line of _process_one reaches its channel.                            *)
Notify(p) ==
  /\ pc[p] = "process"
  /\ \E x \in batch[p] :
       /\ IsCurrent(p, x)
       /\ LET route == Route(AlertType[x.alert])
          IN  /\ notified' = [notified EXCEPT
                                ![x.alert] = @ \cup {route[sent[p] + 1]}]
              /\ Goto(p, IF sent[p] + 1 = Len(route) THEN "logDone" ELSE "process")
  /\ sent' = [sent EXCEPT ![p] = @ + 1]
  /\ UNCHANGED <<queueVars, batch, auditLog, faults, stops>>

(* Mutant: a channel's exception is swallowed.                              *)
NotifySwallows(p) ==
  /\ pc[p] = "process"
  /\ Goto(p, "logDone")
  /\ UNCHANGED <<queueVars, batch, sent, notified, auditLog, faults, stops>>

(* Mutant: a failure goes to fail_alert without an audit record.            *)
NotifyFailsUnlogged(p) ==
  /\ pc[p] = "process"
  /\ Goto(p, "fail")
  /\ UNCHANGED <<queueVars, batch, sent, notified, auditLog, faults, stops>>

(* A channel raises: the rest of _process_one is skipped.                   *)
NotifyFails(p) ==
  /\ pc[p] = "process"
  /\ Goto(p, "logFailed")
  /\ UNCHANGED <<queueVars, batch, sent, notified, auditLog, faults, stops>>

LogAlert(p, from, event, to) ==
  /\ pc[p] = from
  /\ \E x \in batch[p] :
       IsCurrent(p, x) /\ auditLog' = auditLog \cup {<<x.alert, event>>}
  /\ Goto(p, to)
  /\ UNCHANGED <<queueVars, batch, sent, notified, faults, stops>>

LogProcessed(p) == LogAlert(p, "logDone", "ALERT_PROCESSED", "ack")

LogFailed(p) == LogAlert(p, "logFailed", "ALERT_FAILED", "fail")

Ack(p) ==
  /\ pc[p] = "ack"
  /\ \E x \in batch[p] :
       IsCurrent(p, x) /\ AckAlert(x.id, NameOf[p]) /\ NextItem(p, x)
  /\ UNCHANGED <<notified, auditLog, faults, stops>>

Fail(p) ==
  /\ pc[p] = "fail"
  /\ \E x \in batch[p] :
       IsCurrent(p, x) /\ FailAlert(x.id, NameOf[p]) /\ NextItem(p, x)
  /\ UNCHANGED <<notified, auditLog, faults, stops>>

(* A call raises (the database is locked, the log cannot be written).       *)
Fault ==
  /\ faults < MaxFaults
  /\ faults' = faults + 1
  /\ UNCHANGED <<queueVars, notified, auditLog, stops>>

(* log_event or ack_alert raises inside the try of the for loop: the alert  *)
(* counts as failed although every channel has it.                          *)
FaultInItem(p) ==
  /\ pc[p] \in {"logDone", "ack"}
  /\ Goto(p, "logFailed")
  /\ Fault
  /\ UNCHANGED <<batch, sent>>

(* log_event or fail_alert raises inside the except block: the outer        *)
(* handler drops what is left of the batch and the loop polls again.        *)
FaultInHandler(p) ==
  /\ pc[p] \in {"logFailed", "fail"}
  /\ Goto(p, "poll")
  /\ batch' = [batch EXCEPT ![p] = {}]
  /\ sent' = [sent EXCEPT ![p] = 0]
  /\ Fault

(* KeyboardInterrupt, a kill or a crash: the rows stay as they are.         *)
Stop(p) ==
  /\ pc[p] # "down"
  /\ stops < MaxStops
  /\ stops' = stops + 1
  /\ Goto(p, "down")
  /\ batch' = [batch EXCEPT ![p] = {}]
  /\ sent' = [sent EXCEPT ![p] = 0]
  /\ UNCHANGED <<queueVars, notified, auditLog, faults>>

Start(p) ==
  /\ pc[p] = "down"
  /\ Goto(p, "poll")
  /\ UNCHANGED <<queueVars, batch, sent, notified, auditLog, faults, stops>>

RunWorker(p) ==
  \/ Poll(p)
  \/ Notify(p)
  \/ NotifyFails(p)
  \/ LogProcessed(p)
  \/ LogFailed(p)
  \/ Ack(p)
  \/ Fail(p)

Environment ==
  /\ \/ \E a \in Alerts : EnqueueAlert(a)
     \/ \E d \in deadLetters : ReplayDeadLetterAlert(d)
     \/ Clock
  /\ UNCHANGED workerVars

Next ==
  \/ Environment
  \/ \E p \in Workers :
       \/ RunWorker(p)
       \/ FaultInItem(p)
       \/ FaultInHandler(p)
       \/ Stop(p)
       \/ Start(p)

Spec == Init /\ [][Next]_vars

(* A running worker never stops of itself: run_worker is while True, and    *)
(* every Exception is caught.  A supervised worker is started again.  Time  *)
(* goes on.  Nothing is assumed of producers and administrators, nor that a *)
(* channel ever works.                                                      *)
Fairness ==
  /\ \A p \in Workers : WF_vars(RunWorker(p))
  /\ \A p \in Supervised : WF_vars(Start(p))
  /\ \A i \in Ids : WF_vars(WaitUntilDue(i) /\ UNCHANGED workerVars)

FairSpec == Spec /\ Fairness

-------------------------------------------------------------------------------
WorkerTypeOK ==
  /\ QueueTypeOK
  /\ pc \in [Workers -> {"down", "poll", "process", "logDone", "ack",
                         "logFailed", "fail"}]
  /\ batch \in [Workers -> SUBSET AlertItem]
  /\ sent \in [Workers -> 0..3]
  /\ notified \in [Alerts -> SUBSET Channels]
  /\ auditLog \subseteq Alerts \X {"ALERT_PROCESSED", "ALERT_FAILED"}
  /\ faults \in 0..MaxFaults
  /\ stops \in 0..MaxStops

(* Every claim a worker still works on stands: its row is processing under  *)
(* the worker's name, holds the alert the worker sees, and was due when     *)
(* claimed.  So an alert is never sent before its delay or its retry        *)
(* backoff is over, and no worker acts on a row another one has.  Needs     *)
(* distinct worker names.                                                   *)
HeldClaimsStand ==
  \A p \in Workers : \A x \in batch[p] :
    /\ queue[x.id].status = "processing"
    /\ queue[x.id].lockedBy = NameOf[p]
    /\ queue[x.id].alert = x.alert
    /\ x.scheduled <= IsoStamp(now)

(* alert_queue.py says of fail_alert's owner check "Ensure ownership": no   *)
(* two workers process the same row at the same time.                       *)
ExclusiveProcessing ==
  \A p, q \in Workers : \A x \in batch[p], y \in batch[q] :
    x.id = y.id => p = q

(* No claimed row is orphaned, whatever lock_ttl_seconds says of expired    *)
(* locks and although none ever expires: a row that is processing is in the *)
(* batch of a worker of the name it is locked by, or a worker of that name  *)
(* is about to claim again or is down, and will find the row by its name.   *)
NoOrphans ==
  \A i \in Ids : queue[i].status = "processing" =>
    \E p \in Workers :
      /\ NameOf[p] = queue[i].lockedBy
      /\ pc[p] \in {"poll", "down"} \/ \E x \in batch[p] : x.id = i

(* An ack removes the row for good, so it must come last: an alert is       *)
(* settled only after every channel of its type was told and an             *)
(* ALERT_PROCESSED record was written, whatever failed, stopped or was      *)
(* repeated before.                                                         *)
SettledWasDelivered ==
  \A a \in settled :
    /\ Required[a] \subseteq notified[a]
    /\ <<a, "ALERT_PROCESSED">> \in auditLog

(* A dead letter leaves a trace in the audit log: fail_alert is never       *)
(* reached without an ALERT_FAILED record.                                  *)
DeadWasAudited ==
  \A d \in deadLetters : <<d.alert, "ALERT_FAILED">> \in auditLog

(* README "Alert delivery failure" (worker failure, downstream integration, *)
(* internal exceptions: retries, backoff, dead-letter queue): an alert in   *)
(* the queue is delivered or dead-lettered in the end.                      *)
EventuallyResolved == \A a \in Alerts : Queued(a) ~> ~Queued(a)

Fate == [a \in Alerts |->
  IF a \notin raised THEN "unraised"
  ELSE IF Queued(a) THEN "open"
  ELSE IF Dead(a) THEN "dead"
  ELSE "settled"]

Pipeline == INSTANCE AlertPipeline WITH fate <- Fate

(* The tables, the workers and their failures implement the promise of      *)
(* AlertPipeline.  Needs distinct worker names.                             *)
ImplementsPipeline == Pipeline!Spec
===============================================================================
