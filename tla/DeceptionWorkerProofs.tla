------------------------ MODULE DeceptionWorkerProofs ------------------------
(***************************************************************************)
(* Proofs about DeceptionWorker, for any alerts, workers, delays, limits   *)
(* and numbers of faults and stops.  What a worker knows of a claim is     *)
(* worth something only if no other worker has its name: the theorems of   *)
(* the first two parts assume OwnNames, which the run worker_shared_rows   *)
(* does without.  Those of the last part hold under any names.             *)
(***************************************************************************)
EXTENDS DeceptionWorker, AlertQueueProofs

OwnNames == \A p, q \in Workers : NameOf[p] = NameOf[q] => p = q

(* A claimed item is its row, processing under the worker's name.           *)
ClaimsAreRows ==
  \A p \in Workers : \A x \in batch[p] :
    /\ queue[x.id].status = "processing"
    /\ queue[x.id].lockedBy = NameOf[p]
    /\ queue[x.id].alert = x.alert
    /\ queue[x.id].scheduled = x.scheduled

(* What is processing was due.                                              *)
ProcessingWasDue ==
  \A i \in Ids : queue[i].status = "processing" => queue[i].scheduled <= IsoStamp(now)

(* What a worker at a label has done for its current item.                  *)
Done(p, x) ==
  /\ pc[p] = "process" =>
       /\ sent[p] < Len(Route(AlertType[x.alert]))
       /\ \A k \in 1..sent[p] : Route(AlertType[x.alert])[k] \in notified[x.alert]
  /\ pc[p] \in {"logDone", "ack"} => Required[x.alert] \subseteq notified[x.alert]
  /\ pc[p] = "ack" => <<x.alert, "ALERT_PROCESSED">> \in auditLog
  /\ pc[p] = "fail" => <<x.alert, "ALERT_FAILED">> \in auditLog

Progress == \A p \in Workers : \A x \in batch[p] : IsCurrent(p, x) => Done(p, x)

WorkerInv ==
  /\ QueueInv
  /\ WorkerTypeOK
  /\ ClaimsAreRows
  /\ ProcessingWasDue
  /\ Progress
  /\ SettledWasDelivered
  /\ DeadWasAudited

-------------------------------------------------------------------------------
(* Every alert has a route of one to three channels.                        *)
LEMMA Routes ==
  ASSUME NEW a \in Alerts
  PROVE  /\ Len(Route(AlertType[a])) \in 1..3
         /\ Required[a] = {Route(AlertType[a])[k] : k \in 1..Len(Route(AlertType[a]))}
         /\ Required[a] \subseteq Channels
<1>1. AlertType[a] \in AlertTypes
  BY WorkerAssumption
<1>2. Len(Route(AlertType[a])) \in 1..3
  BY <1>1 DEF Route, AlertTypes
<1>3. Required[a] = {Route(AlertType[a])[k] : k \in 1..Len(Route(AlertType[a]))}
  BY DEF Required
<1>4. \A k \in 1..Len(Route(AlertType[a])) : Route(AlertType[a])[k] \in Channels
  BY <1>1 DEF Route, AlertTypes, Channels
<1> QED
  BY <1>2, <1>3, <1>4

(* The arithmetic of a route's length n, after m channels were told.        *)
LEMMA RouteIsLonger ==
  /\ \A n \in 1..3 : 0 < n /\ 1..0 = {}
  /\ \A n \in 1..3, m \in Nat : m < n => m + 1 \in 0..3
OBVIOUS

(* A worker is at one item.                                                 *)
LEMMA OneCurrent ==
  ASSUME WorkerTypeOK, ClaimsAreRows, NEW p \in Workers,
         NEW x \in batch[p], NEW y \in batch[p], IsCurrent(p, x), IsCurrent(p, y)
  PROVE  x = y
<1>1. x \in AlertItem /\ y \in AlertItem
  BY DEF WorkerTypeOK
<1>2. x.id \in Int /\ y.id \in Int /\ x.scheduled \in Nat /\ y.scheduled \in Nat
  BY <1>1 DEF AlertItem, Ids
<1>3. x.id = y.id
  BY <1>2 DEF IsCurrent
<1>4. x.alert = y.alert /\ x.scheduled = y.scheduled
  BY <1>3 DEF ClaimsAreRows
<1> QED
  BY <1>1, <1>3, <1>4 DEF AlertItem

(* Items of one id are one item of one worker.                              *)
LEMMA OneHolder ==
  ASSUME OwnNames, WorkerTypeOK, ClaimsAreRows, NEW p \in Workers, NEW q \in Workers,
         NEW x \in batch[p], NEW y \in batch[q], x.id = y.id
  PROVE  p = q /\ x = y
<1>1. p = q
  BY DEF OwnNames, ClaimsAreRows
<1>2. x \in AlertItem /\ y \in AlertItem
  BY DEF WorkerTypeOK
<1>3. x.alert = y.alert /\ x.scheduled = y.scheduled
  BY DEF ClaimsAreRows
<1> QED
  BY <1>1, <1>2, <1>3 DEF AlertItem

(* Claims stand while their rows stay, and workers drop items at most.      *)
LEMMA ClaimsStay ==
  ASSUME ClaimsAreRows, \A p \in Workers : batch'[p] \subseteq batch[p],
         \A p \in Workers : \A x \in batch'[p] : queue'[x.id] = queue[x.id]
  PROVE  ClaimsAreRows'
BY DEF ClaimsAreRows

(* What was told and written stays told and written.                        *)
LEMMA HistoryKeeps ==
  ASSUME WorkerInv, \A a \in Alerts : notified[a] \subseteq notified'[a],
         auditLog \subseteq auditLog', UNCHANGED <<settled, deadLetters>>
  PROVE  SettledWasDelivered' /\ DeadWasAudited'
BY DEF WorkerInv, SettledWasDelivered, DeadWasAudited, QueueTypeOK, WorkerTypeOK

(* So a worker that does not move keeps its progress.                       *)
LEMMA DoneKeeps ==
  ASSUME WorkerInv, NEW p \in Workers, NEW x \in batch[p], Done(p, x),
         pc'[p] = pc[p], sent'[p] = sent[p],
         \A a \in Alerts : notified[a] \subseteq notified'[a], auditLog \subseteq auditLog'
  PROVE  Done(p, x)'
<1>1. x.alert \in Alerts
  BY DEF WorkerInv, WorkerTypeOK, AlertItem
<1> QED
  BY <1>1 DEF Done

-------------------------------------------------------------------------------
LEMMA InitWorker == Init => WorkerInv
<1> SUFFICES ASSUME Init PROVE WorkerInv
  OBVIOUS
<1>1. QueueInv
  BY InitInv DEF Init
<1>2. WorkerTypeOK
  BY <1>1, WorkerAssumption DEF Init, WorkerTypeOK, QueueInv
<1>3. ProcessingWasDue
  BY DEF Init, QueueInit, ProcessingWasDue, NoRow
<1>4. SettledWasDelivered /\ DeadWasAudited
  BY DEF Init, QueueInit, SettledWasDelivered, DeadWasAudited
<1> QED
  BY <1>1, <1>2, <1>3, <1>4 DEF Init, WorkerInv, ClaimsAreRows, Progress

(* Steps that leave the workers alone: here the rows of claims stay.        *)
LEMMA EnvironmentKeeps == ASSUME WorkerInv, Environment PROVE WorkerInv'
<1> USE DEF WorkerInv
<1>1. UNCHANGED workerVars
  BY DEF Environment
<1>2. /\ [QueueNext]_queueVars
      /\ QueueInv'
  <2>1. QueueNext
    BY DEF Environment, QueueNext
  <2> QED
    BY <2>1, NextInv
<1>3. WorkerTypeOK'
  BY <1>1, <1>2 DEF WorkerTypeOK, workerVars, QueueInv
<1>4. \A i \in Ids : queue[i].status = "processing" => queue'[i] = queue[i]
  <2>1. ASSUME NEW a, NEW stamp, InsertRow(a, stamp), NEW i \in Ids,
               queue[i].status = "processing"
        PROVE  queue'[i] = queue[i]
    BY <2>1 DEF InsertRow, QueueInv, QueueTypeOK, RowsFit, Ids
  <2>2. CASE Clock
    BY <2>2 DEF Clock, WaitUntilDue, TimePasses, tables
  <2> QED
    BY <2>1, <2>2 DEF Environment, EnqueueAlert, ReplayDeadLetterAlert
<1>5. \A i \in Ids : queue'[i].status = "processing" => queue'[i] = queue[i]
  <2>1. ASSUME NEW a, NEW stamp, InsertRow(a, stamp), NEW i \in Ids,
               queue'[i].status = "processing"
        PROVE  queue'[i] = queue[i]
    BY <2>1 DEF InsertRow, PendingRow, QueueInv, QueueTypeOK
  <2>2. CASE Clock
    BY <2>2 DEF Clock, WaitUntilDue, TimePasses, tables
  <2> QED
    BY <2>1, <2>2 DEF Environment, EnqueueAlert, ReplayDeadLetterAlert
<1>6. now \in Nat /\ now' \in Nat /\ now <= now'
  <2>1. now \in Nat /\ now' \in Nat
    BY <1>2 DEF QueueInv, QueueTypeOK
  <2>2. ASSUME NEW i \in Ids, WaitUntilDue(i) PROVE now <= now'
    <3>1. queue[i].scheduled \in Nat
      BY DEF QueueInv, QueueTypeOK, Row
    <3>2. queue[i].scheduled > 2 * now + 1 /\ now' = (queue[i].scheduled - 1) \div 2
      BY <2>2 DEF WaitUntilDue, IsoStamp
    <3> QED
      BY <2>1, <3>1, <3>2
  <2>3. ASSUME NEW s \in ClockSteps, TimePasses(s) PROVE now <= now'
    BY <2>1, <2>3, QueueAssumption DEF TimePasses
  <2> QED
    BY <2>1, <2>2, <2>3 DEF Environment, EnqueueAlert, ReplayDeadLetterAlert, Clock
<1>7. ClaimsAreRows'
  <2>1. \A p \in Workers : \A x \in batch[p] : x.id \in Ids
    BY DEF WorkerTypeOK, AlertItem
  <2>2. batch' = batch
    BY <1>1 DEF workerVars
  <2>3. \A p \in Workers : \A x \in batch'[p] : queue'[x.id] = queue[x.id]
    BY <1>4, <2>1, <2>2 DEF ClaimsAreRows
  <2> QED
    BY <2>2, <2>3, ClaimsStay
<1>8. ProcessingWasDue'
  <2> SUFFICES ASSUME NEW i \in Ids, queue'[i].status = "processing"
               PROVE  queue'[i].scheduled <= IsoStamp(now')
    BY DEF ProcessingWasDue, IsoStamp
  <2>1. queue'[i] = queue[i]
    BY <1>5
  <2>2. queue[i].scheduled \in Nat /\ queue[i].scheduled <= IsoStamp(now)
    BY <2>1 DEF ProcessingWasDue, QueueInv, QueueTypeOK, Row
  <2> QED
    BY <1>6, <2>1, <2>2 DEF IsoStamp
<1>9. Progress'
  BY <1>1 DEF workerVars, Progress, IsCurrent, Done
<1>10. SettledWasDelivered' /\ DeadWasAudited'
  <2>1. settled' = settled
    BY DEF Environment, EnqueueAlert, ReplayDeadLetterAlert, Clock, WaitUntilDue, TimePasses
  <2>2. deadLetters' \subseteq deadLetters
    BY DEF Environment, EnqueueAlert, ReplayDeadLetterAlert, Clock, WaitUntilDue,
           TimePasses, tables
  <2> QED
    BY <1>1, <2>1, <2>2 DEF workerVars, SettledWasDelivered, DeadWasAudited
<1> QED
  BY <1>2, <1>3, <1>7, <1>8, <1>9, <1>10

-------------------------------------------------------------------------------
(* One worker moves: the others keep their progress.                        *)
LEMMA OthersProgress ==
  ASSUME WorkerInv, NEW p \in Workers,
         \A q \in Workers \ {p} :
           pc'[q] = pc[q] /\ sent'[q] = sent[q] /\ batch'[q] = batch[q],
         \A a \in Alerts : notified[a] \subseteq notified'[a], auditLog \subseteq auditLog',
         \A x \in batch'[p] : IsCurrent(p, x)' => Done(p, x)'
  PROVE  Progress'
<1> SUFFICES ASSUME NEW q \in Workers, NEW x \in batch'[q], IsCurrent(q, x)'
             PROVE  Done(q, x)'
  BY DEF Progress
<1>1. CASE q = p
  BY <1>1
<1>2. CASE q # p
  <2>1. x \in batch[q] /\ IsCurrent(q, x)
    BY <1>2 DEF IsCurrent
  <2>2. Done(q, x)
    BY <2>1 DEF WorkerInv, Progress
  <2> QED
    BY <1>2, <2>1, <2>2, DoneKeeps
<1> QED
  BY <1>1, <1>2

(* A worker at the start of an item, or without one, has done nothing.      *)
LEMMA NothingDone ==
  ASSUME WorkerTypeOK', NEW p \in Workers, NEW x \in batch'[p],
         pc'[p] \in {"process", "poll", "down"}, sent'[p] = 0
  PROVE  Done(p, x)'
<1>1. x.alert \in Alerts
  BY DEF WorkerTypeOK, AlertItem
<1>2. Len(Route(AlertType[x.alert])) \in 1..3
  BY <1>1, Routes
<1>3. 0 < Len(Route(AlertType[x.alert])) /\ 1..0 = {}
  BY <1>2, RouteIsLonger
<1>4. pc'[p] \notin {"logDone", "ack", "fail"}
  OBVIOUS
<1> QED
  BY <1>3, <1>4, Zenon DEF Done

(* claim_due_alerts takes pending rows only, and what it returns is there.  *)
LEMMA PollKeeps ==
  ASSUME WorkerInv, NEW p \in Workers, Poll(p)
  PROVE  WorkerInv'
<1> USE DEF WorkerInv
<1>1. NameOf[p] \in WorkerNames
  BY WorkerAssumption
<1>2. ClaimDueAlerts(NameOf[p]) /\ QueueInv'
  BY <1>1, ClaimKeeps DEF Poll
<1>3. PICK taken \in SUBSET Claimable :
        queue' = [i \in Ids |->
          IF i \in taken
            THEN [queue[i] EXCEPT !.status = "processing",
                                  !.lockedBy = NameOf[p],
                                  !.lockedAt = IsoStamp(now)]
            ELSE queue[i]]
  BY <1>2 DEF ClaimDueAlerts
<1>4. UNCHANGED <<now, nextId, deadLetters, raised, settled>>
  BY <1>2 DEF ClaimDueAlerts
<1>5. \A i \in Ids : queue[i].status = "processing" => queue'[i] = queue[i]
  BY <1>3 DEF Claimable
<1>6. ProcessingWasDue'
  <2> SUFFICES ASSUME NEW i \in Ids, queue'[i].status = "processing"
               PROVE  queue'[i].scheduled <= IsoStamp(now)
    BY <1>4 DEF ProcessingWasDue, IsoStamp
  <2>1. CASE i \in taken
    BY <1>3, <2>1 DEF Claimable, QueueInv, QueueTypeOK, Row
  <2>2. CASE i \notin taken
    BY <1>3, <2>2 DEF ProcessingWasDue
  <2> QED
    BY <2>1, <2>2
<1>7. /\ batch' = [batch EXCEPT ![p] = ItemsOf(NameOf[p], queue')]
      /\ sent' = [sent EXCEPT ![p] = 0]
      /\ pc' = [pc EXCEPT ![p] = IF ItemsOf(NameOf[p], queue') = {}
                                   THEN "poll" ELSE "process"]
      /\ UNCHANGED <<notified, auditLog, faults, stops>>
  BY DEF Poll, Goto
<1>8. ItemsOf(NameOf[p], queue') \subseteq AlertItem
  BY <1>2, QueueAssumption
    DEF ItemsOf, ClaimedBy, AlertItem, QueueInv, QueueTypeOK, RowsFit, Row
<1>9. WorkerTypeOK'
  BY <1>2, <1>7, <1>8 DEF WorkerTypeOK, QueueInv
<1>10. ClaimsAreRows'
  <2> SUFFICES ASSUME NEW q \in Workers, NEW x \in batch'[q]
               PROVE  /\ queue'[x.id].status = "processing"
                      /\ queue'[x.id].lockedBy = NameOf[q]
                      /\ queue'[x.id].alert = x.alert
                      /\ queue'[x.id].scheduled = x.scheduled
    BY DEF ClaimsAreRows
  <2>1. CASE q = p
    BY <1>7, <2>1 DEF ItemsOf, ClaimedBy, WorkerTypeOK
  <2>2. CASE q # p
    <3>1. x \in batch[q] /\ x.id \in Ids
      BY <1>7, <2>2 DEF WorkerTypeOK, AlertItem
    <3> QED
      BY <1>5, <3>1 DEF ClaimsAreRows
  <2> QED
    BY <2>1, <2>2
<1>11. Progress'
  <2>1. \A x \in batch'[p] : Done(p, x)'
    BY <1>7, <1>9, NothingDone DEF WorkerTypeOK
  <2> QED
    BY <1>7, <2>1, OthersProgress DEF WorkerTypeOK
<1>12. SettledWasDelivered' /\ DeadWasAudited'
  BY <1>4, <1>7, HistoryKeeps
<1> QED
  BY <1>2, <1>6, <1>9, <1>10, <1>11, <1>12

(* Steps of a worker that change no table.                                  *)
LEMMA TablesStay ==
  ASSUME WorkerInv, UNCHANGED queueVars, \A p \in Workers : batch'[p] \subseteq batch[p]
  PROVE  QueueInv' /\ ClaimsAreRows' /\ ProcessingWasDue'
<1>1. QueueInv'
  BY NextInv DEF WorkerInv
<1>2. ClaimsAreRows'
  BY ClaimsStay DEF WorkerInv, queueVars
<1>3. ProcessingWasDue'
  BY DEF WorkerInv, queueVars, ProcessingWasDue, IsoStamp
<1> QED
  BY <1>1, <1>2, <1>3

(* One more channel has been told.                                          *)
LEMMA NotifyKeeps ==
  ASSUME WorkerInv, NEW p \in Workers, Notify(p)
  PROVE  WorkerInv'
<1> USE DEF WorkerInv
<1>1. PICK x \in batch[p] :
        /\ IsCurrent(p, x)
        /\ notified' = [notified EXCEPT
             ![x.alert] = @ \cup {Route(AlertType[x.alert])[sent[p] + 1]}]
        /\ pc' = [pc EXCEPT ![p] =
             IF sent[p] + 1 = Len(Route(AlertType[x.alert])) THEN "logDone" ELSE "process"]
  BY DEF Notify, Goto
<1>2. /\ pc[p] = "process"
      /\ sent' = [sent EXCEPT ![p] = sent[p] + 1]
      /\ UNCHANGED <<queueVars, batch, auditLog, faults, stops>>
  BY DEF Notify, WorkerTypeOK
<1> DEFINE route == Route(AlertType[x.alert])
<1>3. /\ x.alert \in Alerts
      /\ Len(route) \in 1..3
      /\ Required[x.alert] = {route[k] : k \in 1..Len(route)}
      /\ Required[x.alert] \subseteq Channels
  <2>1. x.alert \in Alerts
    BY DEF WorkerTypeOK, AlertItem
  <2> QED
    BY <2>1, Routes
<1>4. /\ sent[p] \in Nat /\ sent[p] < Len(route)
      /\ \A k \in 1..sent[p] : route[k] \in notified[x.alert]
  <2>1. Done(p, x)
    BY <1>1 DEF Progress
  <2>2. sent[p] \in Nat
    BY DEF WorkerTypeOK
  <2> QED
    BY <1>2, <2>1, <2>2, Zenon DEF Done
<1>5. QueueInv' /\ ClaimsAreRows' /\ ProcessingWasDue'
  BY <1>2, TablesStay
<1>6. WorkerTypeOK'
  <2>1. route[sent[p] + 1] \in Channels
    BY <1>3, <1>4
  <2>2. notified' \in [Alerts -> SUBSET Channels]
    BY <1>1, <1>3, <2>1 DEF WorkerTypeOK
  <2>3. sent' \in [Workers -> 0..3]
    <3>1. sent[p] + 1 \in 0..3
      BY <1>3, <1>4, RouteIsLonger
    <3> QED
      BY <1>2, <3>1 DEF WorkerTypeOK
  <2> QED
    BY <1>1, <1>2, <1>5, <2>2, <2>3 DEF WorkerTypeOK, QueueInv
<1>7. \A a \in Alerts : notified[a] \subseteq notified'[a]
  BY <1>1, <1>3 DEF WorkerTypeOK
<1>8. \A k \in 1..(sent[p] + 1) : route[k] \in notified'[x.alert]
  BY <1>1, <1>3, <1>4 DEF WorkerTypeOK
<1>9. ASSUME NEW y \in batch'[p], IsCurrent(p, y)' PROVE Done(p, y)'
  <2>1. y \in batch[p] /\ IsCurrent(p, y)
    BY <1>2, <1>9 DEF IsCurrent
  <2>2. y = x
    BY <1>1, <2>1, OneCurrent
  <2>3. CASE sent[p] + 1 = Len(route)
    <3>1. pc'[p] = "logDone"
      BY <1>1, <2>3 DEF WorkerTypeOK
    <3>2. Required[x.alert] \subseteq notified'[x.alert]
      BY <1>3, <1>8, <2>3
    <3> QED
      BY <2>2, <3>1, <3>2 DEF Done
  <2>4. CASE sent[p] + 1 # Len(route)
    <3>1. pc'[p] = "process" /\ sent'[p] = sent[p] + 1
      BY <1>1, <1>2, <2>4 DEF WorkerTypeOK
    <3>2. sent[p] + 1 < Len(route)
      BY <1>3, <1>4, <2>4
    <3> QED
      BY <1>8, <2>2, <3>1, <3>2 DEF Done
  <2> QED
    BY <2>3, <2>4
<1>10. Progress'
  BY <1>1, <1>2, <1>7, <1>9, OthersProgress DEF WorkerTypeOK
<1>11. SettledWasDelivered' /\ DeadWasAudited'
  BY <1>2, <1>7, HistoryKeeps DEF queueVars
<1> QED
  BY <1>5, <1>6, <1>10, <1>11

(* Steps that only move a worker, and perhaps drop its batch.               *)
LEMMA MoveKeeps ==
  ASSUME WorkerInv, NEW p \in Workers, NEW label,
         pc' = [pc EXCEPT ![p] = label],
         \/ /\ label = "logFailed"
            /\ UNCHANGED <<batch, sent>>
         \/ /\ label \in {"down", "poll"}
            /\ batch' = [batch EXCEPT ![p] = {}]
            /\ sent' = [sent EXCEPT ![p] = 0]
         \/ /\ label = "poll"
            /\ pc[p] = "down"
            /\ UNCHANGED <<batch, sent>>,
         UNCHANGED <<queueVars, notified, auditLog>>,
         faults' \in 0..MaxFaults, stops' \in 0..MaxStops
  PROVE  WorkerInv'
<1> USE DEF WorkerInv
<1>1. \A q \in Workers : batch'[q] \subseteq batch[q]
  BY DEF WorkerTypeOK
<1>2. QueueInv' /\ ClaimsAreRows' /\ ProcessingWasDue'
  BY <1>1, TablesStay
<1>3. WorkerTypeOK'
  BY <1>2 DEF WorkerTypeOK, QueueInv
<1>4. \A x \in batch'[p] : Done(p, x)'
  BY DEF WorkerTypeOK, Done
<1>5. Progress'
  BY <1>4, OthersProgress DEF WorkerTypeOK
<1>6. SettledWasDelivered' /\ DeadWasAudited'
  BY HistoryKeeps DEF queueVars
<1> QED
  BY <1>2, <1>3, <1>5, <1>6

(* The audit record of the current item is written.                         *)
LEMMA LogKeeps ==
  ASSUME WorkerInv, NEW p \in Workers, LogProcessed(p) \/ LogFailed(p)
  PROVE  WorkerInv'
<1> USE DEF WorkerInv
<1>1. PICK x \in batch[p] :
        /\ IsCurrent(p, x)
        /\ \/ /\ pc[p] = "logDone"
              /\ auditLog' = auditLog \cup {<<x.alert, "ALERT_PROCESSED">>}
              /\ pc' = [pc EXCEPT ![p] = "ack"]
           \/ /\ pc[p] = "logFailed"
              /\ auditLog' = auditLog \cup {<<x.alert, "ALERT_FAILED">>}
              /\ pc' = [pc EXCEPT ![p] = "fail"]
  BY DEF LogProcessed, LogFailed, LogAlert, Goto
<1>2. UNCHANGED <<queueVars, batch, sent, notified, faults, stops>>
  BY DEF LogProcessed, LogFailed, LogAlert
<1>3. QueueInv' /\ ClaimsAreRows' /\ ProcessingWasDue'
  BY <1>2, TablesStay
<1>4. x.alert \in Alerts
  BY DEF WorkerTypeOK, AlertItem
<1>5. WorkerTypeOK'
  <2>1. auditLog' \subseteq Alerts \X {"ALERT_PROCESSED", "ALERT_FAILED"}
    BY <1>1, <1>4 DEF WorkerTypeOK
  <2> QED
    BY <1>1, <1>2, <1>3, <2>1 DEF WorkerTypeOK, QueueInv
<1>6. ASSUME NEW y \in batch'[p], IsCurrent(p, y)' PROVE Done(p, y)'
  <2>1. y \in batch[p] /\ IsCurrent(p, y)
    BY <1>2, <1>6 DEF IsCurrent
  <2>2. y = x
    BY <1>1, <2>1, OneCurrent
  <2>3. Done(p, x)
    BY <1>1 DEF Progress
  <2> QED
    BY <1>1, <1>2, <2>2, <2>3 DEF Done, WorkerTypeOK
<1>7. Progress'
  BY <1>1, <1>2, <1>6, OthersProgress DEF WorkerTypeOK
<1>8. SettledWasDelivered' /\ DeadWasAudited'
  BY <1>1, <1>2, HistoryKeeps DEF queueVars
<1> QED
  BY <1>3, <1>5, <1>7, <1>8
-------------------------------------------------------------------------------
(* The worker is through with an item, whose row left processing.           *)
LEMMA FinishKeeps ==
  ASSUME OwnNames, WorkerInv, NEW p \in Workers, NEW x \in batch[p], NextItem(p, x),
         QueueInv', \A j \in Ids : j # x.id => queue'[j] = queue[j],
         queue'[x.id].status # "processing",
         UNCHANGED <<now, notified, auditLog, faults, stops>>
  PROVE  WorkerTypeOK' /\ ClaimsAreRows' /\ ProcessingWasDue' /\ Progress'
<1> USE DEF WorkerInv
<1>1. /\ batch' = [batch EXCEPT ![p] = batch[p] \ {x}]
      /\ sent' = [sent EXCEPT ![p] = 0]
      /\ pc' = [pc EXCEPT ![p] = IF batch[p] = {x} THEN "poll" ELSE "process"]
  BY DEF NextItem, Goto, WorkerTypeOK
<1>2. WorkerTypeOK'
  <2>1. batch' \in [Workers -> SUBSET AlertItem]
    BY <1>1 DEF WorkerTypeOK
  <2> QED
    BY <1>1, <2>1 DEF WorkerTypeOK, QueueInv
<1>3. \A q \in Workers : batch'[q] \subseteq batch[q]
  BY <1>1 DEF WorkerTypeOK
<1>4. ClaimsAreRows'
  <2> SUFFICES ASSUME NEW q \in Workers, NEW y \in batch'[q]
               PROVE  queue'[y.id] = queue[y.id]
    BY <1>3, ClaimsStay
  <2>1. y \in batch[q] /\ y.id \in Ids
    BY <1>3 DEF WorkerTypeOK, AlertItem
  <2>2. y.id # x.id
    <3>1. SUFFICES ASSUME y.id = x.id PROVE FALSE
      OBVIOUS
    <3>2. p = q /\ x = y
      BY <2>1, <3>1, OneHolder
    <3> QED
      BY <1>1, <3>2 DEF WorkerTypeOK
  <2> QED
    BY <2>1, <2>2
<1>5. ProcessingWasDue'
  BY DEF ProcessingWasDue, IsoStamp
<1>6. \A y \in batch'[p] : Done(p, y)'
  BY <1>1, <1>2, NothingDone DEF WorkerTypeOK
<1>7. Progress'
  BY <1>1, <1>6, OthersProgress DEF WorkerTypeOK
<1> QED
  BY <1>2, <1>4, <1>5, <1>7

(* ack_alert: the current item was delivered, logged, and is the worker's.  *)
LEMMA AckSettles ==
  ASSUME WorkerInv, NEW p \in Workers, Ack(p)
  PROVE  \E x \in batch[p] :
           /\ IsCurrent(p, x) /\ NextItem(p, x)
           /\ x.id \in Ids /\ x.alert \in Alerts
           /\ AckAlert(x.id, NameOf[p])
           /\ queue[x.id].alert = x.alert
           /\ queue' = [queue EXCEPT ![x.id] = NoRow]
           /\ settled' = settled \cup {x.alert}
           /\ Required[x.alert] \subseteq notified[x.alert]
           /\ <<x.alert, "ALERT_PROCESSED">> \in auditLog
           /\ UNCHANGED <<now, nextId, deadLetters, raised>>
<1> USE DEF WorkerInv
<1>1. PICK x \in batch[p] :
        IsCurrent(p, x) /\ AckAlert(x.id, NameOf[p]) /\ NextItem(p, x)
  BY DEF Ack
<1>2. x.id \in Ids /\ x.alert \in Alerts
  BY DEF WorkerTypeOK, AlertItem
<1>3. queue[x.id].lockedBy = NameOf[p] /\ queue[x.id].alert = x.alert
  BY DEF ClaimsAreRows
<1>4. Done(p, x) /\ pc[p] = "ack"
  BY <1>1 DEF Progress, Ack
<1>5. /\ Required[x.alert] \subseteq notified[x.alert]
      /\ <<x.alert, "ALERT_PROCESSED">> \in auditLog
  BY <1>4 DEF Done
<1>6. /\ queue' = [queue EXCEPT ![x.id] = NoRow]
      /\ settled' = settled \cup {x.alert}
      /\ UNCHANGED <<now, nextId, deadLetters, raised>>
  BY <1>1, <1>3 DEF AckAlert
<1> QED
  BY <1>1, <1>2, <1>3, <1>5, <1>6

LEMMA WorkerAckKeeps ==
  ASSUME OwnNames, WorkerInv, NEW p \in Workers, Ack(p)
  PROVE  WorkerInv'
<1> USE DEF WorkerInv
<1>1. PICK x \in batch[p] :
           /\ IsCurrent(p, x) /\ NextItem(p, x)
           /\ x.id \in Ids /\ x.alert \in Alerts
           /\ AckAlert(x.id, NameOf[p])
           /\ queue[x.id].alert = x.alert
           /\ queue' = [queue EXCEPT ![x.id] = NoRow]
           /\ settled' = settled \cup {x.alert}
           /\ Required[x.alert] \subseteq notified[x.alert]
           /\ <<x.alert, "ALERT_PROCESSED">> \in auditLog
           /\ UNCHANGED <<now, nextId, deadLetters, raised>>
  BY AckSettles
<1>2. UNCHANGED <<notified, auditLog, faults, stops>>
  BY DEF Ack
<1>3. QueueInv'
  BY <1>1, AckKeeps, WorkerAssumption
<1>4. /\ \A j \in Ids : j # x.id => queue'[j] = queue[j]
      /\ queue'[x.id].status # "processing"
  BY <1>1 DEF QueueInv, QueueTypeOK, NoRow
<1>5. WorkerTypeOK' /\ ClaimsAreRows' /\ ProcessingWasDue' /\ Progress'
  BY <1>1, <1>2, <1>3, <1>4, FinishKeeps
<1>6. SettledWasDelivered'
  BY <1>1, <1>2 DEF SettledWasDelivered
<1>7. DeadWasAudited'
  BY <1>1, <1>2 DEF DeadWasAudited
<1> QED
  BY <1>3, <1>5, <1>6, <1>7

(* fail_alert: the current item was logged and is the worker's.             *)
LEMMA FailBuriesOrRetries ==
  ASSUME WorkerInv, NEW p \in Workers, Fail(p)
  PROVE  \E x \in batch[p] :
           /\ IsCurrent(p, x) /\ NextItem(p, x)
           /\ x.id \in Ids /\ x.alert \in Alerts
           /\ FailAlert(x.id, NameOf[p])
           /\ queue[x.id].alert = x.alert
           /\ MoveToDeadLetter(x.id) \/ Reschedule(x.id)
           /\ <<x.alert, "ALERT_FAILED">> \in auditLog
           /\ UNCHANGED <<now, nextId, raised, settled>>
<1> USE DEF WorkerInv
<1>1. PICK x \in batch[p] :
        IsCurrent(p, x) /\ FailAlert(x.id, NameOf[p]) /\ NextItem(p, x)
  BY DEF Fail
<1>2. x.id \in Ids /\ x.alert \in Alerts
  BY DEF WorkerTypeOK, AlertItem
<1>3. queue[x.id].lockedBy = NameOf[p] /\ queue[x.id].alert = x.alert
  BY DEF ClaimsAreRows
<1>4. Done(p, x) /\ pc[p] = "fail"
  BY <1>1 DEF Progress, Fail
<1>5. <<x.alert, "ALERT_FAILED">> \in auditLog
  BY <1>4 DEF Done
<1>6. /\ MoveToDeadLetter(x.id) \/ Reschedule(x.id)
      /\ UNCHANGED <<now, nextId, raised, settled>>
  BY <1>1, <1>3 DEF FailAlert
<1> QED
  BY <1>1, <1>2, <1>3, <1>5, <1>6

LEMMA WorkerFailKeeps ==
  ASSUME OwnNames, WorkerInv, NEW p \in Workers, Fail(p)
  PROVE  WorkerInv'
<1> USE DEF WorkerInv
<1>1. PICK x \in batch[p] :
           /\ IsCurrent(p, x) /\ NextItem(p, x)
           /\ x.id \in Ids /\ x.alert \in Alerts
           /\ FailAlert(x.id, NameOf[p])
           /\ queue[x.id].alert = x.alert
           /\ MoveToDeadLetter(x.id) \/ Reschedule(x.id)
           /\ <<x.alert, "ALERT_FAILED">> \in auditLog
           /\ UNCHANGED <<now, nextId, raised, settled>>
  BY FailBuriesOrRetries
<1>2. UNCHANGED <<notified, auditLog, faults, stops>>
  BY DEF Fail
<1>3. QueueInv'
  BY <1>1, FailKeeps, WorkerAssumption
<1>4. /\ \A j \in Ids : j # x.id => queue'[j] = queue[j]
      /\ queue'[x.id].status # "processing"
  BY <1>1 DEF QueueInv, QueueTypeOK, Row, NoRow, MoveToDeadLetter, Reschedule
<1>5. WorkerTypeOK' /\ ClaimsAreRows' /\ ProcessingWasDue' /\ Progress'
  BY <1>1, <1>2, <1>3, <1>4, FinishKeeps
<1>6. SettledWasDelivered'
  BY <1>1, <1>2 DEF SettledWasDelivered
<1>7. DeadWasAudited'
  <2>1. \A d \in deadLetters' : d \in deadLetters \/ d.alert = x.alert
    BY <1>1 DEF MoveToDeadLetter, Reschedule
  <2> QED
    BY <1>1, <1>2, <2>1 DEF DeadWasAudited
<1> QED
  BY <1>3, <1>5, <1>6, <1>7

-------------------------------------------------------------------------------
(* WorkerInv is inductive: every call and every failure of every worker     *)
(* keeps it, whatever producers, administrators and the clock do between.   *)
LEMMA WorkerNextInv == OwnNames /\ WorkerInv /\ [Next]_vars => WorkerInv'
<1> SUFFICES ASSUME OwnNames, WorkerInv, [Next]_vars PROVE WorkerInv'
  OBVIOUS
<1>1. CASE Environment
  BY <1>1, EnvironmentKeeps
<1>2. ASSUME NEW p \in Workers, RunWorker(p) PROVE WorkerInv'
  <2>1. CASE Poll(p)
    BY <2>1, PollKeeps
  <2>2. CASE Notify(p)
    BY <2>2, NotifyKeeps
  <2>3. CASE NotifyFails(p)
    <3>1. faults' \in 0..MaxFaults /\ stops' \in 0..MaxStops
      BY <2>3 DEF NotifyFails, WorkerInv, WorkerTypeOK
    <3> QED
      BY <2>3, <3>1, MoveKeeps DEF NotifyFails, Goto
  <2>4. CASE LogProcessed(p) \/ LogFailed(p)
    BY <2>4, LogKeeps
  <2>5. CASE Ack(p)
    BY <2>5, WorkerAckKeeps
  <2>6. CASE Fail(p)
    BY <2>6, WorkerFailKeeps
  <2> QED
    BY <1>2, <2>1, <2>2, <2>3, <2>4, <2>5, <2>6 DEF RunWorker
<1>3. ASSUME NEW p \in Workers, FaultInItem(p) \/ FaultInHandler(p) PROVE WorkerInv'
  <2>1. faults' \in 0..MaxFaults /\ stops' \in 0..MaxStops
    BY <1>3, WorkerAssumption DEF FaultInItem, FaultInHandler, Fault, WorkerInv, WorkerTypeOK
  <2>2. UNCHANGED <<queueVars, notified, auditLog>>
    BY <1>3 DEF FaultInItem, FaultInHandler, Fault
  <2>3. CASE FaultInItem(p)
    BY <2>1, <2>2, <2>3, MoveKeeps DEF FaultInItem, Goto
  <2>4. CASE FaultInHandler(p)
    BY <2>1, <2>2, <2>4, MoveKeeps DEF FaultInHandler, Goto
  <2> QED
    BY <1>3, <2>3, <2>4
<1>4. ASSUME NEW p \in Workers, Stop(p) \/ Start(p) PROVE WorkerInv'
  <2>1. faults' \in 0..MaxFaults /\ stops' \in 0..MaxStops
    BY <1>4, WorkerAssumption DEF Stop, Start, WorkerInv, WorkerTypeOK
  <2>2. UNCHANGED <<queueVars, notified, auditLog>>
    BY <1>4 DEF Stop, Start
  <2>3. CASE Stop(p)
    BY <2>1, <2>2, <2>3, MoveKeeps DEF Stop, Goto
  <2>4. CASE Start(p)
    BY <2>1, <2>2, <2>4, MoveKeeps DEF Start, Goto
  <2> QED
    BY <1>4, <2>3, <2>4
<1>5. CASE UNCHANGED vars
  <2>1. UNCHANGED queueVars /\ UNCHANGED workerVars
    BY <1>5 DEF vars
  <2>2. QueueInv' /\ ClaimsAreRows' /\ ProcessingWasDue'
    BY <2>1, TablesStay DEF workerVars
  <2> QED
    BY <2>1, <2>2 DEF WorkerInv, WorkerTypeOK, queueVars, workerVars, Progress,
       IsCurrent, Done, QueueInv, SettledWasDelivered, DeadWasAudited
<1> QED
  BY <1>1, <1>2, <1>3, <1>4, <1>5 DEF Next

(* Every reachable state of the workers and the tables satisfies WorkerInv. *)
THEOREM WorkerInvariant == ASSUME OwnNames PROVE Spec => []WorkerInv
BY InitWorker, WorkerNextInv, PTL DEF Spec

(* Tables, batches, channels and audit records have their types.            *)
THEOREM WorkerTypes == ASSUME OwnNames PROVE Spec => []WorkerTypeOK
<1>1. WorkerInv => WorkerTypeOK
  BY DEF WorkerInv
<1> QED
  BY <1>1, WorkerInvariant, PTL

(* No worker acts on a row that another has, or before it is due.           *)
THEOREM ClaimsStand == ASSUME OwnNames PROVE Spec => []HeldClaimsStand
<1>1. WorkerInv => HeldClaimsStand
  BY DEF WorkerInv, ClaimsAreRows, ProcessingWasDue, HeldClaimsStand, WorkerTypeOK, AlertItem
<1> QED
  BY <1>1, WorkerInvariant, PTL

(* Names of their own are all the workers need to keep off each other's     *)
(* rows.                                                                    *)
THEOREM OwnNamesExclude == ASSUME OwnNames PROVE Spec => []ExclusiveProcessing
<1>1. OwnNames /\ WorkerInv => ExclusiveProcessing
  BY OneHolder DEF WorkerInv, ExclusiveProcessing
<1> QED
  BY <1>1, WorkerInvariant, PTL

(* An alert leaves the queue for good only after every channel has it and   *)
(* the audit log says so.                                                   *)
THEOREM SettledAlertsWereDelivered == ASSUME OwnNames PROVE Spec => []SettledWasDelivered
<1>1. WorkerInv => SettledWasDelivered
  BY DEF WorkerInv
<1> QED
  BY <1>1, WorkerInvariant, PTL

(* Nothing is buried without an audit record.                               *)
THEOREM DeadLettersWereAudited == ASSUME OwnNames PROVE Spec => []DeadWasAudited
<1>1. WorkerInv => DeadWasAudited
  BY DEF WorkerInv
<1> QED
  BY <1>1, WorkerInvariant, PTL
-------------------------------------------------------------------------------
(* What Fate says of an alert, in the terms of the tables.                  *)
LEMMA FateIs ==
  ASSUME QueueInv, NEW a \in Alerts
  PROVE  /\ Fate[a] = "unraised" <=> a \notin raised
         /\ Queued(a) => Fate[a] = "open"
         /\ Dead(a) => Fate[a] = "dead"
BY QueueAssumption DEF Fate, QueueInv, OnlyRaised, OnePlace, Queued, Dead

(* An alert whose places do not change keeps its fate.                      *)
LEMMA FateStays ==
  ASSUME \A a \in Alerts : /\ Queued(a)' <=> Queued(a)
                           /\ Dead(a)' <=> Dead(a)
                           /\ a \in raised' <=> a \in raised
  PROVE  Fate' = Fate
BY DEF Fate

(* If one alert moves, Fate changes for it alone.                           *)
LEMMA FateMoves ==
  ASSUME NEW a \in Alerts, NEW to, Fate'[a] = to,
         \A b \in Alerts \ {a} : /\ Queued(b)' <=> Queued(b)
                                 /\ Dead(b)' <=> Dead(b)
                                 /\ b \in raised' <=> b \in raised
  PROVE  Fate' = [Fate EXCEPT ![a] = to]
<1>1. \A b \in Alerts \ {a} : Fate'[b] = Fate[b]
  BY DEF Fate
<1> QED
  BY <1>1 DEF Fate

LEMMA InitMaps == Init => Pipeline!Init
BY QueueAssumption DEF Init, QueueInit, Pipeline!Init, Fate

(* Rows keep their alerts under claims and under the clock, so nothing      *)
(* moves.                                                                   *)
LEMMA AlertsStay ==
  ASSUME \A i \in Ids : queue'[i].alert = queue[i].alert, UNCHANGED <<deadLetters, raised>>
  PROVE  Fate' = Fate
BY FateStays DEF Queued, Dead

(* Enqueueing raises an alert and replaying opens it again.                 *)
LEMMA InsertMaps ==
  ASSUME WorkerInv, WorkerInv', Environment
  PROVE  Pipeline!Next \/ UNCHANGED <<Fate, notified>>
<1> USE DEF WorkerInv
<1>1. notified' = notified
  BY DEF Environment, workerVars
<1>2. ASSUME NEW a \in Alerts, NEW stamp, InsertRow(a, stamp)
      PROVE  /\ Queued(a)'
             /\ \A b \in Alerts \ {a} : Queued(b)' <=> Queued(b)
  <2>1. /\ nextId \in Ids
        /\ queue[nextId].alert = NoAlert
        /\ queue'[nextId].alert = a
        /\ \A i \in Ids : i # nextId => queue'[i] = queue[i]
    BY <1>2 DEF InsertRow, PendingRow, QueueInv, QueueTypeOK, RowsFit, Ids
  <2> QED
    BY <2>1, QueueAssumption DEF Queued
<1>3. ASSUME NEW a \in Alerts, EnqueueAlert(a) PROVE Pipeline!Next
  <2>1. /\ InsertRow(a, IsoStamp(now + AtLeastZero(DelaySeconds[a])))
        /\ a \notin raised /\ raised' = raised \cup {a}
        /\ deadLetters' = deadLetters
    BY <1>3 DEF EnqueueAlert
  <2>2. Fate[a] = "unraised"
    BY <2>1, FateIs
  <2>3. Fate'[a] = "open"
    BY <1>2, <2>1, FateIs DEF Fate
  <2>4. Fate' = [Fate EXCEPT ![a] = "open"]
    BY <1>2, <2>1, <2>3, FateMoves DEF Dead
  <2> QED
    BY <1>1, <2>2, <2>4 DEF Pipeline!Next, Pipeline!Raise, Pipeline!Move
<1>4. ASSUME NEW d \in deadLetters, ReplayDeadLetterAlert(d) PROVE Pipeline!Next
  <2>1. /\ InsertRow(d.alert, DayStamp(now))
        /\ deadLetters' = deadLetters \ {d}
        /\ raised' = raised
    BY <1>4 DEF ReplayDeadLetterAlert
  <2>2. d.alert \in Alerts /\ d.alert \in raised
    BY DEF QueueInv, QueueTypeOK, DeadLetter, OnlyRaised
  <2>3. Fate[d.alert] = "dead"
    BY <2>2, FateIs DEF Dead
  <2>4. Fate'[d.alert] = "open"
    BY <1>2, <2>1, <2>2 DEF Fate
  <2>5. \A b \in Alerts \ {d.alert} : Dead(b)' <=> Dead(b)
    BY <2>1 DEF Dead
  <2>6. Fate' = [Fate EXCEPT ![d.alert] = "open"]
    BY <1>2, <2>1, <2>2, <2>4, <2>5, FateMoves
  <2> QED
    BY <1>1, <2>2, <2>3, <2>6 DEF Pipeline!Next, Pipeline!Reopen, Pipeline!Move
<1>5. CASE Clock
  <2>1. UNCHANGED <<queue, deadLetters, raised>>
    BY <1>5 DEF Clock, WaitUntilDue, TimePasses, tables
  <2> QED
    BY <1>1, <2>1, AlertsStay
<1> QED
  BY <1>3, <1>4, <1>5 DEF Environment

(* Channels are told of open alerts, and only the ones of the route.        *)
LEMMA NotifyMaps ==
  ASSUME WorkerInv, NEW p \in Workers, Notify(p)
  PROVE  Pipeline!Next
<1> USE DEF WorkerInv
<1>1. PICK x \in batch[p] :
        /\ IsCurrent(p, x)
        /\ notified' = [notified EXCEPT
             ![x.alert] = @ \cup {Route(AlertType[x.alert])[sent[p] + 1]}]
  BY DEF Notify
<1>2. x.alert \in Alerts /\ x.id \in Ids
  BY DEF WorkerTypeOK, AlertItem
<1>3. Fate' = Fate
  BY AlertsStay DEF Notify, queueVars
<1>4. Fate[x.alert] = "open"
  BY <1>2, FateIs DEF ClaimsAreRows, Queued
<1> DEFINE n == Len(Route(AlertType[x.alert]))
           c == Route(AlertType[x.alert])[sent[p] + 1]
<1>5. n \in 1..3 /\ sent[p] \in Nat /\ sent[p] < n
  <2>1. Done(p, x)
    BY <1>1 DEF Progress
  <2>2. n \in 1..3
    BY <1>2, Routes
  <2>3. sent[p] < n
    BY <2>1, Zenon DEF Done, Notify
  <2> QED
    BY <2>2, <2>3 DEF WorkerTypeOK
<1>6. sent[p] + 1 \in 1..n
  <2> HIDE DEF n
  <2> QED
    BY <1>5
<1>7. c \in Required[x.alert]
  BY <1>2, <1>6, Zenon DEF Required
<1>8. c \in Channels
  BY <1>2, <1>7, Routes
<1>9. notified' = [notified EXCEPT ![x.alert] = @ \cup {c}]
  BY <1>1
<1> HIDE DEF c
<1> QED
  BY <1>2, <1>3, <1>4, <1>7, <1>8, <1>9 DEF Pipeline!Next, Pipeline!Notify

(* A row that goes takes its alert out of the queue, and no other.          *)
LEMMA RemovedIsGone ==
  ASSUME QueueInv, NEW i \in Ids, NEW a \in Alerts, queue[i].alert = a,
         queue' = [queue EXCEPT ![i] = NoRow]
  PROVE  /\ ~Queued(a)'
         /\ \A b \in Alerts \ {a} : Queued(b)' <=> Queued(b)
<1>1. /\ queue'[i].alert = NoAlert
      /\ \A j \in Ids : j # i => queue'[j] = queue[j]
  BY DEF QueueInv, QueueTypeOK, NoRow
<1>2. \A j \in Ids : queue[j].alert = a => j = i
  BY QueueAssumption DEF QueueInv, OnePlace
<1> QED
  BY <1>1, <1>2, QueueAssumption DEF Queued

(* An ack settles an alert of which every channel was told.                 *)
LEMMA AckMaps ==
  ASSUME WorkerInv, NEW p \in Workers, Ack(p)
  PROVE  Pipeline!Next
<1> USE DEF WorkerInv
<1>1. PICK x \in batch[p] :
           /\ x.id \in Ids /\ x.alert \in Alerts
           /\ queue[x.id].alert = x.alert
           /\ queue' = [queue EXCEPT ![x.id] = NoRow]
           /\ Required[x.alert] \subseteq notified[x.alert]
           /\ UNCHANGED <<deadLetters, raised>>
  BY AckSettles
<1>2. notified' = notified
  BY DEF Ack
<1>3. Queued(x.alert)
  BY <1>1 DEF Queued
<1>4. Fate[x.alert] = "open" /\ x.alert \in raised /\ ~Dead(x.alert)
  BY <1>1, <1>3, FateIs DEF QueueInv, OnePlace
<1>5. /\ ~Queued(x.alert)'
      /\ \A b \in Alerts \ {x.alert} : Queued(b)' <=> Queued(b)
  BY <1>1, RemovedIsGone
<1>6. \A b \in Alerts : Dead(b)' <=> Dead(b)
  BY <1>1 DEF Dead
<1>7. Fate'[x.alert] = "settled"
  BY <1>1, <1>4, <1>5, <1>6 DEF Fate
<1>8. Fate' = [Fate EXCEPT ![x.alert] = "settled"]
  BY <1>1, <1>5, <1>6, <1>7, FateMoves
<1> QED
  BY <1>1, <1>2, <1>4, <1>8 DEF Pipeline!Next, Pipeline!Settle, Pipeline!Move

(* A failure buries an alert or leaves it open.                             *)
LEMMA FailMaps ==
  ASSUME WorkerInv, NEW p \in Workers, Fail(p)
  PROVE  Pipeline!Next \/ UNCHANGED <<Fate, notified>>
<1> USE DEF WorkerInv
<1>1. PICK x \in batch[p] :
           /\ x.id \in Ids /\ x.alert \in Alerts
           /\ queue[x.id].alert = x.alert
           /\ MoveToDeadLetter(x.id) \/ Reschedule(x.id)
           /\ raised' = raised
  BY FailBuriesOrRetries
<1>2. notified' = notified
  BY DEF Fail
<1>3. Queued(x.alert)
  BY <1>1 DEF Queued
<1>4. Fate[x.alert] = "open" /\ x.alert \in raised
  BY <1>1, <1>3, FateIs
<1>5. CASE MoveToDeadLetter(x.id)
  <2>1. /\ queue' = [queue EXCEPT ![x.id] = NoRow]
        /\ Dead(x.alert)'
        /\ \A b \in Alerts \ {x.alert} : Dead(b)' <=> Dead(b)
    <3> DEFINE d == [original |-> x.id, alert |-> queue[x.id].alert,
                     attempts |-> queue[x.id].attempts + 1]
    <3>1. /\ queue' = [queue EXCEPT ![x.id] = NoRow]
          /\ deadLetters' = deadLetters \cup {d}
      BY <1>5 DEF MoveToDeadLetter
    <3>2. d.alert = x.alert
      BY <1>1
    <3> HIDE DEF d
    <3> QED
      BY <3>1, <3>2 DEF Dead
  <2>2. /\ ~Queued(x.alert)'
        /\ \A b \in Alerts \ {x.alert} : Queued(b)' <=> Queued(b)
    BY <1>1, <2>1, RemovedIsGone
  <2>3. Fate'[x.alert] = "dead"
    BY <1>1, <1>4, <2>1, <2>2 DEF Fate
  <2>4. Fate' = [Fate EXCEPT ![x.alert] = "dead"]
    BY <1>1, <2>1, <2>2, <2>3, FateMoves
  <2> QED
    BY <1>1, <1>2, <1>4, <2>4 DEF Pipeline!Next, Pipeline!Bury, Pipeline!Move
<1>6. CASE Reschedule(x.id)
  <2>1. \A i \in Ids : queue'[i].alert = queue[i].alert
    BY <1>6 DEF Reschedule, QueueInv, QueueTypeOK, Row
  <2> QED
    BY <1>1, <1>2, <1>6, <2>1, AlertsStay DEF Reschedule
<1> QED
  BY <1>1, <1>5, <1>6

LEMMA StepMaps ==
  ASSUME WorkerInv, WorkerInv', [Next]_vars
  PROVE  Pipeline!Next \/ UNCHANGED <<Fate, notified>>
<1>1. CASE Environment
  BY <1>1, InsertMaps
<1>2. ASSUME NEW p \in Workers, Poll(p) PROVE UNCHANGED <<Fate, notified>>
  <2>1. ClaimDueAlerts(NameOf[p]) /\ notified' = notified
    BY <1>2 DEF Poll
  <2>2. PICK taken \in SUBSET Claimable :
          queue' = [i \in Ids |->
            IF i \in taken
              THEN [queue[i] EXCEPT !.status = "processing",
                                    !.lockedBy = NameOf[p],
                                    !.lockedAt = IsoStamp(now)]
              ELSE queue[i]]
    BY <2>1 DEF ClaimDueAlerts
  <2>3. \A i \in Ids : queue'[i].alert = queue[i].alert
    BY <2>2 DEF WorkerInv, QueueInv, QueueTypeOK, Row
  <2>4. UNCHANGED <<deadLetters, raised>>
    BY <2>1 DEF ClaimDueAlerts
  <2> QED
    BY <2>1, <2>3, <2>4, AlertsStay
<1>3. ASSUME NEW p \in Workers,
             NotifyFails(p) \/ LogProcessed(p) \/ LogFailed(p) \/ FaultInItem(p)
               \/ FaultInHandler(p) \/ Stop(p) \/ Start(p)
      PROVE  UNCHANGED <<Fate, notified>>
  <2>1. UNCHANGED <<queue, deadLetters, raised, notified>>
    BY <1>3 DEF NotifyFails, LogProcessed, LogFailed, LogAlert, FaultInItem,
       FaultInHandler, Fault, Stop, Start, queueVars
  <2> QED
    BY <2>1, AlertsStay
<1>4. CASE UNCHANGED vars
  <2>1. UNCHANGED <<queue, deadLetters, raised, notified>>
    BY <1>4 DEF vars, queueVars, workerVars
  <2> QED
    BY <2>1, AlertsStay
<1> QED
  BY <1>1, <1>2, <1>3, <1>4, NotifyMaps, AckMaps, FailMaps DEF Next, RunWorker

(* The workers, the tables, the administrator, the clock and every failure  *)
(* together keep the promise of AlertPipeline: channels hear of open alerts *)
(* only, and an alert leaves the queue settled or buried, never otherwise.  *)
THEOREM WorkersImplementPipeline == ASSUME OwnNames PROVE Spec => ImplementsPipeline
<1>1. WorkerInv /\ WorkerInv' /\ [Next]_vars => [Pipeline!Next]_(Pipeline!pipelineVars)
  BY StepMaps DEF Pipeline!pipelineVars
<1> QED
  BY <1>1, InitMaps, WorkerInvariant, PTL DEF Spec, ImplementsPipeline, Pipeline!Spec

-------------------------------------------------------------------------------
(* What holds of the workers under any names: a batch is made of items with *)
(* ids of the table, so every step of the system is a step of the queue.    *)
PlacesFit ==
  /\ QueueInv
  /\ pc \in [Workers -> {"down", "poll", "process", "logDone", "ack",
                         "logFailed", "fail"}]
  /\ batch \in [Workers -> SUBSET AlertItem]

(* Who is there to finish row i.                                            *)
InHand(i) ==
  \E p \in Workers :
    /\ NameOf[p] = queue[i].lockedBy
    /\ pc[p] \in {"poll", "down"} \/ \E x \in batch[p] : x.id = i

LEMMA StepsFollowQueue ==
  ASSUME PlacesFit, [Next]_vars
  PROVE  [QueueNext]_queueVars
<1>1. \A p \in Workers : NameOf[p] \in WorkerNames
  BY WorkerAssumption
<1>2. \A p \in Workers : \A x \in batch[p] : x.id \in Ids
  BY DEF PlacesFit, AlertItem
<1>3. CASE Environment
  BY <1>3 DEF Environment, QueueNext
<1>4. ASSUME NEW p \in Workers, Poll(p) PROVE QueueNext
  BY <1>1, <1>4 DEF Poll, QueueNext
<1>5. ASSUME NEW p \in Workers, Ack(p) PROVE QueueNext
  BY <1>1, <1>2, <1>5 DEF Ack, QueueNext
<1>6. ASSUME NEW p \in Workers, Fail(p) PROVE QueueNext
  BY <1>1, <1>2, <1>6 DEF Fail, QueueNext
<1>7. ASSUME NEW p \in Workers,
             \/ Notify(p) \/ NotifyFails(p) \/ LogProcessed(p) \/ LogFailed(p)
             \/ FaultInItem(p) \/ FaultInHandler(p) \/ Stop(p) \/ Start(p)
      PROVE  UNCHANGED queueVars
  BY <1>7 DEF Notify, NotifyFails, LogProcessed, LogFailed, LogAlert, FaultInItem,
              FaultInHandler, Fault, Stop, Start
<1> QED
  BY <1>3, <1>4, <1>5, <1>6, <1>7 DEF Next, RunWorker, vars

(* A worker that stays up keeps its batch, but for an item it settled and   *)
(* the batch it claims.                                                     *)
LEMMA PlacesKeep ==
  ASSUME PlacesFit, [Next]_vars
  PROVE  PlacesFit'
<1>1. QueueInv'
  BY StepsFollowQueue, NextInv DEF PlacesFit
<1> USE DEF PlacesFit
<1>2. ASSUME NEW p \in Workers, Poll(p) PROVE PlacesFit'
  <2>1. ItemsOf(NameOf[p], queue') \subseteq AlertItem
    BY <1>1, QueueAssumption
      DEF ItemsOf, ClaimedBy, AlertItem, QueueInv, QueueTypeOK, RowsFit, Row
  <2> QED
    BY <1>1, <1>2, <2>1 DEF Poll, Goto
<1>3. ASSUME NEW p \in Workers, Ack(p) \/ Fail(p) PROVE PlacesFit'
  BY <1>1, <1>3 DEF Ack, Fail, NextItem, Goto
<1>4. ASSUME NEW p \in Workers,
             \/ Notify(p) \/ NotifyFails(p) \/ LogProcessed(p) \/ LogFailed(p)
             \/ FaultInItem(p) \/ FaultInHandler(p) \/ Stop(p) \/ Start(p)
      PROVE  PlacesFit'
  BY <1>1, <1>4 DEF Notify, NotifyFails, LogProcessed, LogFailed, LogAlert,
                    FaultInItem, FaultInHandler, Stop, Start, Goto
<1>5. CASE Environment \/ UNCHANGED vars
  BY <1>1, <1>5 DEF Environment, workerVars, vars
<1> QED
  BY <1>2, <1>3, <1>4, <1>5 DEF Next, RunWorker

LEMMA InitPlaces == Init => PlacesFit
BY InitInv DEF Init, PlacesFit

(* One worker moves: a row that stays processing stays in hand if that      *)
(* worker does not let go of it.                                            *)
LEMMA StaysInHand ==
  ASSUME NEW p \in Workers, NEW i \in Ids, InHand(i), queue'[i] = queue[i],
         \A q \in Workers \ {p} : pc'[q] = pc[q] /\ batch'[q] = batch[q],
         NameOf[p] = queue[i].lockedBy =>
           \/ pc'[p] \in {"poll", "down"}
           \/ \E x \in batch'[p] : x.id = i
           \/ pc[p] \notin {"poll", "down"} /\ ~\E x \in batch[p] : x.id = i
  PROVE  InHand(i)'
<1>1. PICK q \in Workers :
        /\ NameOf[q] = queue[i].lockedBy
        /\ pc[q] \in {"poll", "down"} \/ \E x \in batch[q] : x.id = i
  BY DEF InHand
<1>2. CASE q = p
  BY <1>1, <1>2 DEF InHand
<1>3. CASE q # p
  BY <1>1, <1>3 DEF InHand
<1> QED
  BY <1>2, <1>3

(* A claim returns what was already processing under the name, too.         *)
LEMMA PollTakesInHand ==
  ASSUME PlacesFit, NoOrphans, NEW p \in Workers, Poll(p)
  PROVE  NoOrphans'
<1> DEFINE w == NameOf[p]
           claimed == ItemsOf(w, queue')
<1> SUFFICES ASSUME NEW i \in Ids, queue'[i].status = "processing" PROVE InHand(i)'
  BY DEF NoOrphans, InHand
<1>1. PICK taken \in SUBSET Claimable :
        queue' = [j \in Ids |->
          IF j \in taken
            THEN [queue[j] EXCEPT !.status = "processing",
                                  !.lockedBy = w,
                                  !.lockedAt = IsoStamp(now)]
            ELSE queue[j]]
  BY DEF Poll, ClaimDueAlerts
<1>2. /\ batch'[p] = claimed
      /\ \A q \in Workers \ {p} : pc'[q] = pc[q] /\ batch'[q] = batch[q]
  <2>1. /\ batch' = [batch EXCEPT ![p] = ItemsOf(NameOf[p], queue')]
        /\ pc' = [pc EXCEPT ![p] = IF ItemsOf(NameOf[p], queue') = {}
                                     THEN "poll" ELSE "process"]
    BY DEF Poll, Goto
  <2> HIDE DEF claimed
  <2>2. batch' = [batch EXCEPT ![p] = claimed]
    BY <2>1 DEF claimed
  <2> QED
    BY <2>1, <2>2 DEF PlacesFit
<1>3. CASE queue'[i].lockedBy = w
  <2>1. i \in ClaimedBy(w, queue')
    BY <1>3 DEF ClaimedBy
  <2>2. [id |-> i, alert |-> queue'[i].alert, scheduled |-> queue'[i].scheduled] \in claimed
    BY <2>1 DEF ItemsOf
  <2> HIDE DEF claimed
  <2> QED
    BY <1>2, <1>3, <2>2 DEF InHand
<1>4. CASE queue'[i].lockedBy # w
  <2>1. queue[i] \in Row
    BY DEF PlacesFit, QueueInv, QueueTypeOK
  <2>2. queue'[i] = queue[i]
    BY <1>1, <1>4, <2>1 DEF Row
  <2>3. InHand(i)
    BY <2>2 DEF NoOrphans, InHand
  <2> QED
    BY <1>2, <1>4, <2>2, <2>3, StaysInHand
<1> QED
  BY <1>3, <1>4

(* A worker leaves an item behind only when its row is no longer processing *)
(* under the worker's name.                                                 *)
LEMMA FinishLeavesNone ==
  ASSUME PlacesFit, NoOrphans, NEW p \in Workers, NEW x \in batch[p],
         AckAlert(x.id, NameOf[p]) \/ FailAlert(x.id, NameOf[p]),
         NextItem(p, x), pc[p] \in {"ack", "fail"}
  PROVE  NoOrphans'
<1> SUFFICES ASSUME NEW i \in Ids, queue'[i].status = "processing" PROVE InHand(i)'
  BY DEF NoOrphans, InHand
<1>1. /\ x.id \in Ids
      /\ queue \in [Ids -> Row]
      /\ pc \in [Workers -> {"down", "poll", "process", "logDone", "ack",
                             "logFailed", "fail"}]
      /\ batch \in [Workers -> SUBSET AlertItem]
  BY DEF PlacesFit, AlertItem, QueueInv, QueueTypeOK
<1>2. CASE queue[x.id].lockedBy # NameOf[p]
  <2>1. queue' = queue
    BY <1>2 DEF AckAlert, FailAlert
  <2>2. InHand(i)
    BY <2>1 DEF NoOrphans, InHand
  <2> QED
    BY <1>1, <1>2, <2>1, <2>2, StaysInHand DEF NextItem, Goto
<1>3. CASE queue[x.id].lockedBy = NameOf[p]
  <2>1. queue'[x.id].status # "processing" /\ \A j \in Ids \ {x.id} : queue'[j] = queue[j]
    BY <1>1, <1>3
    DEF AckAlert, FailAlert, MoveToDeadLetter, Reschedule, NoRow, Row
  <2>2. i # x.id /\ queue'[i] = queue[i]
    BY <2>1
  <2>3. InHand(i)
    BY <2>2 DEF NoOrphans, InHand
  <2>4. \A y \in batch[p] : y.id = i => y \in batch'[p]
    BY <1>1, <2>2 DEF NextItem
  <2> QED
    BY <1>1, <2>2, <2>3, <2>4, StaysInHand DEF NextItem, Goto
<1> QED
  BY <1>2, <1>3

LEMMA NoOrphansNext == PlacesFit /\ NoOrphans /\ [Next]_vars => NoOrphans'
<1> SUFFICES ASSUME PlacesFit, NoOrphans, [Next]_vars PROVE NoOrphans'
  OBVIOUS
<1>1. /\ queue \in [Ids -> Row]
      /\ pc \in [Workers -> {"down", "poll", "process", "logDone", "ack",
                             "logFailed", "fail"}]
      /\ batch \in [Workers -> SUBSET AlertItem]
  BY DEF PlacesFit, QueueInv, QueueTypeOK
<1>2. CASE Environment
  <2>1. \A i \in Ids : queue'[i].status = "processing" => queue'[i] = queue[i]
    BY <1>1, <1>2
    DEF Environment, EnqueueAlert, ReplayDeadLetterAlert, InsertRow, PendingRow,
        Clock, WaitUntilDue, TimePasses, tables
  <2>2. UNCHANGED <<pc, batch>>
    BY <1>2 DEF Environment, workerVars
  <2> QED
    BY <2>1, <2>2 DEF NoOrphans
<1>3. ASSUME NEW p \in Workers, Poll(p) PROVE NoOrphans'
  BY <1>3, PollTakesInHand
<1>4. ASSUME NEW p \in Workers, Ack(p) \/ Fail(p) PROVE NoOrphans'
  BY <1>4, FinishLeavesNone DEF Ack, Fail
<1>5. ASSUME NEW p \in Workers,
             \/ Notify(p) \/ NotifyFails(p) \/ LogProcessed(p) \/ LogFailed(p)
             \/ FaultInItem(p) \/ FaultInHandler(p) \/ Stop(p) \/ Start(p)
      PROVE  NoOrphans'
  <2>1. /\ queue' = queue
        /\ \A q \in Workers \ {p} : pc'[q] = pc[q] /\ batch'[q] = batch[q]
        /\ pc'[p] \in {"poll", "down"} \/ batch'[p] = batch[p]
    BY <1>1, <1>5
    DEF Notify, NotifyFails, LogProcessed, LogFailed, LogAlert, FaultInItem,
        FaultInHandler, Fault, Stop, Start, Goto, queueVars
  <2>2. pc[p] = "poll" => pc'[p] \in {"poll", "down"}
    BY <1>1, <1>5
    DEF Notify, NotifyFails, LogProcessed, LogFailed, LogAlert, FaultInItem,
        FaultInHandler, Stop, Start, Goto
  <2>3. pc[p] = "down" => pc'[p] \in {"poll", "down"}
    BY <1>1, <1>5
    DEF Notify, NotifyFails, LogProcessed, LogFailed, LogAlert, FaultInItem,
        FaultInHandler, Stop, Start, Goto
  <2> SUFFICES ASSUME NEW i \in Ids, queue'[i].status = "processing" PROVE InHand(i)'
    BY DEF NoOrphans, InHand
  <2>4. InHand(i)
    BY <2>1 DEF NoOrphans, InHand
  <2> QED
    BY <2>1, <2>2, <2>3, <2>4, StaysInHand
<1>6. CASE UNCHANGED vars
  BY <1>6 DEF vars, queueVars, workerVars, NoOrphans
<1> QED
  BY <1>2, <1>3, <1>4, <1>5, <1>6 DEF Next, RunWorker

(* The system of workers, under any names, is one of the systems the queue  *)
(* was proved right for: nothing it does gets an alert lost, doubled or     *)
(* tried more often than max_attempts.                                      *)
THEOREM WorkersFollowQueue == Spec => QueueSpec
<1>1. Init => QueueInit
  BY DEF Init
<1> QED
  BY <1>1, InitPlaces, PlacesKeep, StepsFollowQueue, PTL DEF Spec, QueueSpec

(* A claim that was left behind by a fault or a crash is found again, by    *)
(* the name and not by the age of its lock; under any names.                *)
THEOREM ClaimsAreInHand == Spec => []NoOrphans
<1>1. Init => NoOrphans
  BY DEF Init, QueueInit, NoRow, NoOrphans
<1> QED
  BY <1>1, InitPlaces, PlacesKeep, NoOrphansNext, PTL DEF Spec
===============================================================================
