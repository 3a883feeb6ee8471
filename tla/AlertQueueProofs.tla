--------------------------- MODULE AlertQueueProofs ---------------------------
(***************************************************************************)
(* Proofs about AlertQueue: its invariants hold for every set of alerts    *)
(* and workers, every delay, retry limit and batch size, and any order of  *)
(* calls.                                                                  *)
(*                                                                         *)
(* The invariants are not inductive one by one.  NothingLost survives      *)
(* fail_alert only because the row that moves holds an alert (RowsFit),    *)
(* OnePlace survives enqueue_alert only because a new incident is nowhere  *)
(* yet (OnlyRaised), and a dead letter's attempts are exact only because   *)
(* the row's were below the limit (RetryBudget).  QueueInv has them all.   *)
(***************************************************************************)
EXTENDS AlertQueue, TLAPS

(* A row without an alert is NoRow in every field the operations look at,   *)
(* and the ids from nextId on have never been given out.                    *)
RowsFit ==
  \A i \in Ids :
    /\ queue[i].alert = NoAlert <=> queue[i].status = "absent"
    /\ i >= nextId => queue[i].status = "absent"

(* What is in a table or settled was raised.                                *)
OnlyRaised ==
  /\ \A i \in Ids : queue[i].alert # NoAlert => queue[i].alert \in raised
  /\ \A d \in deadLetters : d.alert \in raised
  /\ settled \subseteq raised

QueueInv ==
  /\ QueueTypeOK
  /\ LeaseDiscipline
  /\ RetryBudget
  /\ NothingLost
  /\ OnePlace
  /\ RowsFit
  /\ OnlyRaised

-------------------------------------------------------------------------------
(* Every stamp the operations write is a proper time, never SQL NULL where  *)
(* NULL would be read as "not locked".                                      *)
LEMMA StampsAreNat ==
  ASSUME NEW t \in Nat
  PROVE  /\ IsoStamp(t) \in Nat
         /\ IsoStamp(t) # NoStamp
         /\ DayStamp(t) \in Nat
BY DEF IsoStamp, DayStamp, NoStamp, SecondsPerDay

(* Later times have later stamps.                                           *)
LEMMA StampsGrow ==
  ASSUME NEW t \in Nat, NEW u \in Nat, t <= u
  PROVE  IsoStamp(t) <= IsoStamp(u)
BY DEF IsoStamp

(* The backoff table answers every number of attempts with a whole number   *)
(* of seconds.                                                              *)
LEMMA BackoffIsNat ==
  ASSUME NEW n \in Nat
  PROVE  RetryBackoffSeconds(n) \in Nat
BY DEF RetryBackoffSeconds

(* A row that is in the table holds an alert.                               *)
LEMMA PresentRowHasAlert ==
  ASSUME QueueTypeOK, RowsFit, NEW i \in Ids, queue[i].status # "absent"
  PROVE  /\ queue[i].alert \in Alerts
         /\ queue[i].alert # NoAlert
BY QueueAssumption DEF QueueTypeOK, RowsFit, Row

(* A row an owner may ack or fail is processing and holds an alert.         *)
LEMMA OwnedRowHasAlert ==
  ASSUME QueueInv, NEW i \in Ids, NEW w \in WorkerNames, queue[i].lockedBy = w
  PROVE  /\ queue[i].status = "processing"
         /\ queue[i].alert \in Alerts
         /\ queue[i].alert # NoAlert
BY PresentRowHasAlert DEF QueueInv, LeaseDiscipline

-------------------------------------------------------------------------------
(* The tables start empty.                                                  *)
LEMMA InitInv == QueueInit => QueueInv
<1> SUFFICES ASSUME QueueInit PROVE QueueInv
  OBVIOUS
<1> USE QueueAssumption DEF QueueInit, NoRow, Ids
<1>1. QueueTypeOK
  BY DEF QueueTypeOK, Row, NoStamp
<1>2. LeaseDiscipline
  BY DEF LeaseDiscipline, NoStamp, IsoStamp
<1>3. RetryBudget
  BY DEF RetryBudget
<1>4. NothingLost /\ OnePlace /\ RowsFit /\ OnlyRaised
  BY DEF NothingLost, OnePlace, Queued, Dead, RowsFit, OnlyRaised
<1> QED
  BY <1>1, <1>2, <1>3, <1>4 DEF QueueInv

(* A call that changes no table and a clock that does not run backwards     *)
(* disturb nothing.                                                         *)
LEMMA ClockKeeps ==
  ASSUME QueueInv, UNCHANGED <<queue, nextId, deadLetters, raised, settled>>,
         now' \in Nat, now' >= now
  PROVE  QueueInv'
<1> USE DEF QueueInv
<1>1. QueueTypeOK'
  BY DEF QueueTypeOK
<1>2. LeaseDiscipline'
  <2>1. IsoStamp(now) <= IsoStamp(now')
    <3> now \in Nat /\ now <= now'
      BY DEF QueueTypeOK
    <3> QED
      BY StampsGrow
  <2>2. \A i \in Ids : queue[i].lockedAt \in Nat
    BY DEF QueueTypeOK, Row
  <2> QED
    BY <2>1, <2>2, StampsAreNat DEF LeaseDiscipline, QueueTypeOK
<1>3. RetryBudget' /\ NothingLost' /\ OnePlace' /\ RowsFit' /\ OnlyRaised'
  BY DEF RetryBudget, NothingLost, OnePlace, Queued, Dead, RowsFit, OnlyRaised
<1> QED
  BY <1>1, <1>2, <1>3

LEMMA EnqueueKeeps ==
  ASSUME QueueInv, NEW a \in Alerts, EnqueueAlert(a)
  PROVE  QueueInv'
<1> DEFINE stamp == IsoStamp(now + AtLeastZero(DelaySeconds[a]))
<1> USE DEF QueueInv, EnqueueAlert, InsertRow
<1>1. /\ stamp \in Nat
      /\ nextId \in Ids
      /\ a \notin raised
      /\ a # NoAlert
  BY StampsAreNat, QueueAssumption DEF AtLeastZero, QueueTypeOK
<1> HIDE DEF stamp
<1>2. PendingRow(a, stamp) \in Row
  BY <1>1 DEF PendingRow, Row, NoStamp
<1>3. /\ queue' = [queue EXCEPT ![nextId] = PendingRow(a, stamp)]
      /\ nextId' = nextId + 1
      /\ raised' = raised \cup {a}
      /\ UNCHANGED <<now, deadLetters, settled>>
  BY DEF stamp
<1>4. queue[nextId].alert = NoAlert
  BY <1>1 DEF RowsFit, QueueTypeOK
<1>5. QueueTypeOK'
  <2>1. queue' \in [Ids -> Row]
    BY <1>1, <1>2, <1>3 DEF QueueTypeOK
  <2>2. nextId' \in 1..(MaxId + 1)
    BY <1>1, <1>3, QueueAssumption DEF QueueTypeOK, Ids
  <2> QED
    BY <1>1, <1>3, <2>1, <2>2 DEF QueueTypeOK
<1>6. LeaseDiscipline'
  BY <1>1, <1>3, QueueAssumption, StampsAreNat
  DEF LeaseDiscipline, QueueTypeOK, PendingRow, NoStamp
<1>7. RetryBudget'
  BY <1>1, <1>3, QueueAssumption DEF RetryBudget, QueueTypeOK, PendingRow
<1>8. NothingLost'
  <2>1. \A i \in Ids : queue[i].alert # NoAlert => queue'[i].alert = queue[i].alert
    BY <1>1, <1>3, <1>4 DEF QueueTypeOK
  <2>2. \A b \in Alerts : Queued(b) => Queued(b)'
    BY <2>1, QueueAssumption DEF Queued
  <2>3. Queued(a)'
    BY <1>1, <1>3 DEF Queued, QueueTypeOK, PendingRow
  <2> QED
    BY <1>3, <2>2, <2>3 DEF NothingLost, Dead, QueueTypeOK
<1>9. OnePlace'
  BY <1>1, <1>3, <1>4
  DEF OnePlace, OnlyRaised, QueueTypeOK, PendingRow, Queued, Dead
<1>10. RowsFit'
  BY <1>1, <1>3, QueueAssumption DEF RowsFit, QueueTypeOK, PendingRow, Ids
<1>11. OnlyRaised'
  BY <1>1, <1>3 DEF OnlyRaised, QueueTypeOK, PendingRow
<1> QED
  BY <1>5, <1>6, <1>7, <1>8, <1>9, <1>10, <1>11

LEMMA ClaimKeeps ==
  ASSUME QueueInv, NEW w \in WorkerNames, ClaimDueAlerts(w)
  PROVE  QueueInv'
<1> USE DEF QueueInv
<1>1. PICK taken \in SUBSET Claimable :
        queue' = [i \in Ids |->
          IF i \in taken
            THEN [queue[i] EXCEPT !.status = "processing",
                                  !.lockedBy = w,
                                  !.lockedAt = IsoStamp(now)]
            ELSE queue[i]]
  BY DEF ClaimDueAlerts
<1>2. UNCHANGED <<now, nextId, deadLetters, raised, settled>>
  BY DEF ClaimDueAlerts
<1>3. \A i \in Ids : i \in taken => queue[i].status = "pending"
  BY DEF Claimable
<1>4. IsoStamp(now) \in Nat /\ IsoStamp(now) # NoStamp
  BY StampsAreNat DEF QueueTypeOK
<1>5. \A i \in Ids :
        /\ queue'[i].alert = queue[i].alert
        /\ queue'[i].attempts = queue[i].attempts
        /\ queue'[i] # queue[i] => /\ queue[i].status = "pending"
                                   /\ queue'[i].status = "processing"
                                   /\ queue'[i].lockedBy = w
                                   /\ queue'[i].lockedAt = IsoStamp(now)
  BY <1>1, <1>3 DEF QueueTypeOK, Row
<1>6. QueueTypeOK'
  BY <1>1, <1>2, <1>4 DEF QueueTypeOK, Row
<1>7. LeaseDiscipline'
  BY <1>2, <1>4, <1>5 DEF LeaseDiscipline, QueueTypeOK
<1>8. RetryBudget' /\ NothingLost' /\ OnePlace'
  BY <1>2, <1>5 DEF RetryBudget, NothingLost, OnePlace, Queued, Dead
<1>9. RowsFit' /\ OnlyRaised'
  BY <1>2, <1>5 DEF RowsFit, OnlyRaised
<1> QED
  BY <1>6, <1>7, <1>8, <1>9

(* Emptying the row of an alert that goes elsewhere: what ack_alert, the    *)
(* move to the dead-letter table and nothing else do to alert_queue.        *)
LEMMA RemoveRow ==
  ASSUME QueueInv, NEW i \in Ids, queue' = [queue EXCEPT ![i] = NoRow],
         UNCHANGED <<now, nextId>>
  PROVE  /\ queue' \in [Ids -> Row]
         /\ LeaseDiscipline'
         /\ RowsFit'
         /\ \A j \in Ids : queue'[j].attempts < MaxAttempts
         /\ \A j \in Ids : queue'[j].alert # NoAlert
               => /\ j # i
                  /\ queue'[j].alert = queue[j].alert
<1> USE QueueAssumption DEF QueueInv
<1>1. NoRow \in Row
  BY DEF NoRow, Row, NoStamp
<1>2. queue \in [Ids -> Row] /\ now \in Nat
  BY DEF QueueTypeOK
<1>3. IsoStamp(now) \in Nat
  BY <1>2, StampsAreNat
<1>4. queue' \in [Ids -> Row]
  BY <1>1, <1>2
<1>5. LeaseDiscipline'
  BY <1>2, <1>3 DEF LeaseDiscipline, NoRow, NoStamp, IsoStamp
<1>6. RowsFit'
  BY <1>2 DEF RowsFit, NoRow
<1>7. \A j \in Ids : queue'[j].attempts < MaxAttempts
  BY <1>2 DEF RetryBudget, NoRow
<1>8. \A j \in Ids : queue'[j].alert # NoAlert
               => /\ j # i
                  /\ queue'[j].alert = queue[j].alert
  BY <1>2 DEF NoRow
<1> QED
  BY <1>4, <1>5, <1>6, <1>7, <1>8

LEMMA AckKeeps ==
  ASSUME QueueInv, NEW i \in Ids, NEW w \in WorkerNames, AckAlert(i, w)
  PROVE  QueueInv'
<1>1. CASE queue[i].lockedBy # w
  <2>1. UNCHANGED queueVars
    BY <1>1 DEF AckAlert, queueVars
  <2> QED
    BY <2>1, ClockKeeps DEF queueVars, QueueInv, QueueTypeOK
<1>2. CASE queue[i].lockedBy = w
  <2> USE DEF QueueInv
  <2>1. /\ queue' = [queue EXCEPT ![i] = NoRow]
        /\ settled' = settled \cup {queue[i].alert}
        /\ UNCHANGED <<now, nextId, deadLetters, raised>>
    BY <1>2 DEF AckAlert
  <2>2. queue[i].alert \in Alerts /\ queue[i].alert # NoAlert
    BY <1>2, OwnedRowHasAlert
  <2>3. /\ queue' \in [Ids -> Row]
        /\ LeaseDiscipline'
        /\ RowsFit'
        /\ \A j \in Ids : queue'[j].attempts < MaxAttempts
        /\ \A j \in Ids : queue'[j].alert # NoAlert
              => /\ j # i
                 /\ queue'[j].alert = queue[j].alert
    BY <2>1, RemoveRow
  <2>4. QueueTypeOK'
    BY <2>1, <2>2, <2>3 DEF QueueTypeOK
  <2>5. RetryBudget'
    BY <2>1, <2>3 DEF RetryBudget
  <2>6. NothingLost'
    <3>1. \A j \in Ids : j # i => queue'[j] = queue[j]
      BY <2>1 DEF QueueTypeOK
    <3>2. \A a \in Alerts : Queued(a) => Queued(a)' \/ a = queue[i].alert
      BY <3>1 DEF Queued
    <3> QED
      BY <2>1, <3>2 DEF NothingLost, Dead, QueueTypeOK
  <2>7. OnePlace'
    BY <2>1, <2>2, <2>3, QueueAssumption DEF OnePlace, Queued, Dead
  <2>8. OnlyRaised'
    BY <2>1, <2>2, <2>3 DEF OnlyRaised
  <2> QED
    BY <2>3, <2>4, <2>5, <2>6, <2>7, <2>8
<1> QED
  BY <1>1, <1>2

(* fail_alert with no attempt left.                                         *)
LEMMA DeadLetterKeeps ==
  ASSUME QueueInv, NEW i \in Ids, NEW w \in WorkerNames, queue[i].lockedBy = w,
         queue[i].attempts + 1 >= MaxAttempts, MoveToDeadLetter(i),
         UNCHANGED <<now, nextId, raised, settled>>
  PROVE  QueueInv'
<1> USE DEF QueueInv
<1> DEFINE d == [original |-> i, alert |-> queue[i].alert,
                 attempts |-> queue[i].attempts + 1]
<1>1. /\ queue' = [queue EXCEPT ![i] = NoRow]
      /\ deadLetters' = deadLetters \cup {d}
  BY DEF MoveToDeadLetter
<1>2. queue[i].alert \in Alerts /\ queue[i].alert # NoAlert
  BY OwnedRowHasAlert
<1>3. /\ queue' \in [Ids -> Row]
      /\ LeaseDiscipline'
      /\ RowsFit'
      /\ \A j \in Ids : queue'[j].attempts < MaxAttempts
      /\ \A j \in Ids : queue'[j].alert # NoAlert
            => /\ j # i
               /\ queue'[j].alert = queue[j].alert
  BY <1>1, RemoveRow
<1>4. /\ d \in DeadLetter
      /\ d.alert = queue[i].alert
      /\ d.attempts = MaxAttempts
  <2>1. queue[i].attempts \in Nat /\ queue[i].attempts < MaxAttempts
    BY DEF QueueTypeOK, Row, RetryBudget
  <2> QED
    BY <1>2, <2>1, QueueAssumption DEF DeadLetter
<1> HIDE DEF d
<1>5. QueueTypeOK'
  BY <1>1, <1>3, <1>4 DEF QueueTypeOK
<1>6. RetryBudget'
  BY <1>1, <1>3, <1>4 DEF RetryBudget
<1>7. NothingLost'
  <2>1. \A j \in Ids : j # i => queue'[j] = queue[j]
    BY <1>1 DEF QueueTypeOK
  <2>2. \A a \in Alerts : Queued(a) => Queued(a)' \/ Dead(a)'
    BY <1>1, <1>4, <2>1 DEF Queued, Dead
  <2>3. \A a \in Alerts : Dead(a) => Dead(a)'
    BY <1>1 DEF Dead
  <2> QED
    BY <2>2, <2>3 DEF NothingLost, QueueTypeOK
<1>8. OnePlace'
  <2>1. ~Dead(queue[i].alert) /\ queue[i].alert \notin settled
    BY <1>2 DEF OnePlace, Queued
  <2>2. \A j \in Ids : j # i /\ queue[j].alert # NoAlert
                         => queue[j].alert # queue[i].alert
    BY <1>2 DEF OnePlace
  <2>3. \A a \in Alerts : Queued(a)' => Queued(a) /\ a # queue[i].alert
    BY <1>3, <2>2, QueueAssumption DEF Queued
  <2>4. \A a \in Alerts : Dead(a)' => Dead(a) \/ a = queue[i].alert
    BY <1>1, <1>4 DEF Dead
  <2>5. \A j, k \in Ids :
          queue'[j].alert = queue'[k].alert /\ queue'[j].alert # NoAlert => j = k
    BY <1>3 DEF OnePlace
  <2>6. \A e, f \in deadLetters' : e.alert = f.alert => e = f
    BY <1>1, <1>4, <2>1 DEF OnePlace, Dead
  <2>7. \A a \in Alerts :
          /\ ~(Queued(a)' /\ Dead(a)')
          /\ a \in settled' => ~Queued(a)' /\ ~Dead(a)'
    BY <2>1, <2>3, <2>4 DEF OnePlace
  <2> QED
    BY <2>5, <2>6, <2>7 DEF OnePlace
<1>9. OnlyRaised'
  BY <1>1, <1>2, <1>3, <1>4 DEF OnlyRaised
<1> QED
  BY <1>3, <1>5, <1>6, <1>7, <1>8, <1>9

(* fail_alert with attempts left.                                           *)
LEMMA RescheduleKeeps ==
  ASSUME QueueInv, NEW i \in Ids, NEW w \in WorkerNames, queue[i].lockedBy = w,
         queue[i].attempts + 1 < MaxAttempts, Reschedule(i),
         UNCHANGED <<now, nextId, raised, settled>>
  PROVE  QueueInv'
<1> USE DEF QueueInv
<1> DEFINE due == IsoStamp(now + RetryBackoffSeconds(queue[i].attempts + 1))
<1>1. /\ queue[i].attempts \in Nat
      /\ queue[i].status = "processing"
      /\ UNCHANGED deadLetters
  BY OwnedRowHasAlert DEF QueueTypeOK, Row, Reschedule
<1>2. due \in Nat
  <2>1. RetryBackoffSeconds(queue[i].attempts + 1) \in Nat
    BY <1>1, BackoffIsNat
  <2>2. now + RetryBackoffSeconds(queue[i].attempts + 1) \in Nat
    BY <2>1 DEF QueueTypeOK
  <2> QED
    BY <2>2, StampsAreNat
<1>3. queue' = [queue EXCEPT
       ![i].status = "pending", ![i].attempts = queue[i].attempts + 1,
       ![i].scheduled = due, ![i].lockedBy = Unlocked, ![i].lockedAt = NoStamp]
  BY DEF Reschedule
<1> HIDE DEF due
<1>4. \A j \in Ids :
        /\ queue'[j].alert = queue[j].alert
        /\ j # i => queue'[j] = queue[j]
  BY <1>3 DEF QueueTypeOK, Row
<1>5. /\ queue'[i].status = "pending"
      /\ queue'[i].attempts = queue[i].attempts + 1
      /\ queue'[i].lockedBy = Unlocked
      /\ queue'[i].lockedAt = NoStamp
  BY <1>3 DEF QueueTypeOK, Row
<1>6. QueueTypeOK'
  <2>1. queue' \in [Ids -> Row]
    BY <1>1, <1>2, <1>3 DEF QueueTypeOK, Row, NoStamp
  <2> QED
    BY <1>1, <2>1 DEF QueueTypeOK
<1>7. LeaseDiscipline'
  <2>1. IsoStamp(now) \in Nat
    BY StampsAreNat DEF QueueTypeOK
  <2> QED
    BY <1>4, <1>5, <2>1, QueueAssumption DEF LeaseDiscipline, NoStamp
<1>8. RetryBudget'
  BY <1>1, <1>4, <1>5 DEF RetryBudget
<1>9. NothingLost' /\ OnePlace' /\ OnlyRaised'
  BY <1>1, <1>4 DEF NothingLost, OnePlace, OnlyRaised, Queued, Dead
<1>10. RowsFit'
  BY <1>1, <1>4, <1>5 DEF RowsFit
<1> QED
  BY <1>6, <1>7, <1>8, <1>9, <1>10

LEMMA FailKeeps ==
  ASSUME QueueInv, NEW i \in Ids, NEW w \in WorkerNames, FailAlert(i, w)
  PROVE  QueueInv'
<1>1. CASE queue[i].lockedBy # w
  <2>1. UNCHANGED queueVars
    BY <1>1 DEF FailAlert, queueVars
  <2> QED
    BY <2>1, ClockKeeps DEF queueVars, QueueInv, QueueTypeOK
<1>2. CASE queue[i].lockedBy = w /\ MoveToDeadLetter(i)
              /\ queue[i].attempts + 1 >= MaxAttempts
  BY <1>2, DeadLetterKeeps DEF FailAlert
<1>3. CASE queue[i].lockedBy = w /\ Reschedule(i)
              /\ queue[i].attempts + 1 < MaxAttempts
  BY <1>3, RescheduleKeeps DEF FailAlert
<1> QED
  BY <1>1, <1>2, <1>3 DEF FailAlert

LEMMA ReplayKeeps ==
  ASSUME QueueInv, NEW d \in deadLetters, ReplayDeadLetterAlert(d)
  PROVE  QueueInv'
<1> USE DEF QueueInv
<1>1. /\ nextId \in Ids
      /\ d.alert \in Alerts
      /\ d.alert # NoAlert
      /\ DayStamp(now) \in Nat
  BY StampsAreNat, QueueAssumption
  DEF ReplayDeadLetterAlert, InsertRow, QueueTypeOK, DeadLetter
<1>2. PendingRow(d.alert, DayStamp(now)) \in Row
  BY <1>1 DEF PendingRow, Row, NoStamp
<1>3. /\ queue' = [queue EXCEPT ![nextId] = PendingRow(d.alert, DayStamp(now))]
      /\ nextId' = nextId + 1
      /\ deadLetters' = deadLetters \ {d}
      /\ UNCHANGED <<now, raised, settled>>
  BY DEF ReplayDeadLetterAlert, InsertRow
<1>4. /\ queue[nextId].alert = NoAlert
      /\ queue'[nextId].alert = d.alert
      /\ \A i \in Ids : i # nextId => queue'[i] = queue[i]
  BY <1>1, <1>3 DEF RowsFit, QueueTypeOK, PendingRow
<1>5. QueueTypeOK'
  <2>1. queue' \in [Ids -> Row]
    BY <1>1, <1>2, <1>3 DEF QueueTypeOK
  <2>2. nextId' \in 1..(MaxId + 1)
    BY <1>1, <1>3, QueueAssumption DEF QueueTypeOK, Ids
  <2> QED
    BY <1>1, <1>3, <2>1, <2>2 DEF QueueTypeOK
<1>6. LeaseDiscipline'
  BY <1>1, <1>3, QueueAssumption, StampsAreNat
  DEF LeaseDiscipline, QueueTypeOK, PendingRow, NoStamp
<1>7. RetryBudget'
  BY <1>1, <1>3, QueueAssumption DEF RetryBudget, QueueTypeOK, PendingRow
<1>8. NothingLost'
  <2>1. \A a \in Alerts : Queued(a) => Queued(a)'
    BY <1>1, <1>4, QueueAssumption DEF Queued
  <2>2. \A a \in Alerts : Dead(a) => Dead(a)' \/ Queued(a)'
    BY <1>1, <1>3, <1>4 DEF Dead, Queued
  <2> QED
    BY <1>3, <2>1, <2>2 DEF NothingLost, QueueTypeOK
<1>9. OnePlace'
  <2>1. ~Queued(d.alert) /\ d.alert \notin settled
    BY <1>1 DEF OnePlace, Dead
  <2>2. \A a \in Alerts : Queued(a)' => Queued(a) \/ a = d.alert
    BY <1>4 DEF Queued
  <2>3. \A a \in Alerts : Dead(a)' => Dead(a) /\ a # d.alert
    BY <1>3 DEF Dead, OnePlace
  <2>4. \A i, j \in Ids :
          queue'[i].alert = queue'[j].alert /\ queue'[i].alert # NoAlert => i = j
    BY <1>1, <1>4, <2>1 DEF OnePlace, Queued
  <2>5. \A e, f \in deadLetters' : e.alert = f.alert => e = f
    BY <1>3 DEF OnePlace
  <2>6. \A a \in Alerts :
          /\ ~(Queued(a)' /\ Dead(a)')
          /\ a \in settled' => ~Queued(a)' /\ ~Dead(a)'
    BY <1>3, <2>1, <2>2, <2>3 DEF OnePlace
  <2> QED
    BY <2>4, <2>5, <2>6 DEF OnePlace
<1>10. RowsFit'
  BY <1>1, <1>3, QueueAssumption DEF RowsFit, QueueTypeOK, PendingRow, Ids
<1>11. OnlyRaised'
  BY <1>3, <1>4 DEF OnlyRaised
<1> QED
  BY <1>5, <1>6, <1>7, <1>8, <1>9, <1>10, <1>11

LEMMA TimeKeeps == ASSUME QueueInv, Clock PROVE QueueInv'
<1> USE DEF QueueInv, QueueTypeOK
<1>1. ASSUME NEW i \in Ids, WaitUntilDue(i) PROVE QueueInv'
  <2>1. UNCHANGED <<queue, nextId, deadLetters, raised, settled>>
    BY <1>1 DEF WaitUntilDue, tables
  <2>2. now' \in Nat /\ now' >= now
    <3>1. queue[i].scheduled \in Nat /\ now \in Nat
      BY DEF Row
    <3>2. queue[i].scheduled > 2 * now + 1 /\ now' = (queue[i].scheduled - 1) \div 2
      BY <1>1 DEF WaitUntilDue, IsoStamp
    <3> QED
      BY <3>1, <3>2
  <2> QED
    BY <2>1, <2>2, ClockKeeps
<1>2. ASSUME NEW s \in ClockSteps, TimePasses(s) PROVE QueueInv'
  <2>1. UNCHANGED <<queue, nextId, deadLetters, raised, settled>>
    BY <1>2 DEF TimePasses, tables
  <2>2. now' \in Nat /\ now' >= now
    BY <1>2, QueueAssumption DEF TimePasses
  <2> QED
    BY <2>1, <2>2, ClockKeeps
<1> QED
  BY <1>1, <1>2 DEF Clock

-------------------------------------------------------------------------------
(* QueueInv is inductive: every transaction over the alert tables, in any   *)
(* order and by any caller, keeps it.                                       *)
LEMMA NextInv == QueueInv /\ [QueueNext]_queueVars => QueueInv'
<1> SUFFICES ASSUME QueueInv, [QueueNext]_queueVars PROVE QueueInv'
  OBVIOUS
<1>1. ASSUME NEW a \in Alerts, EnqueueAlert(a) PROVE QueueInv'
  BY <1>1, EnqueueKeeps
<1>2. ASSUME NEW w \in WorkerNames, ClaimDueAlerts(w) PROVE QueueInv'
  BY <1>2, ClaimKeeps
<1>3. ASSUME NEW i \in Ids, NEW w \in WorkerNames, AckAlert(i, w) PROVE QueueInv'
  BY <1>3, AckKeeps
<1>4. ASSUME NEW i \in Ids, NEW w \in WorkerNames, FailAlert(i, w) PROVE QueueInv'
  BY <1>4, FailKeeps
<1>5. ASSUME NEW d \in deadLetters, ReplayDeadLetterAlert(d) PROVE QueueInv'
  BY <1>5, ReplayKeeps
<1>6. CASE Clock
  BY <1>6, TimeKeeps
<1>7. CASE UNCHANGED queueVars
  BY <1>7, ClockKeeps DEF queueVars, QueueInv, QueueTypeOK
<1> QED
  BY <1>1, <1>2, <1>3, <1>4, <1>5, <1>6, <1>7 DEF QueueNext

(* Every reachable state of the alert tables satisfies QueueInv.            *)
THEOREM QueueInvariant == QueueSpec => []QueueInv
BY InitInv, NextInv, PTL DEF QueueSpec

(* The two tables always have the columns' types.                           *)
THEOREM QueueTypes == QueueSpec => []QueueTypeOK
BY QueueInvariant, PTL DEF QueueInv

(* No sequence of enqueue, claim, ack, fail and replay loses an alert.      *)
THEOREM AlertsAreNotLost == QueueSpec => []NothingLost
BY QueueInvariant, PTL DEF QueueInv

(* ... nor doubles one, nor brings a settled one back.                      *)
THEOREM AlertsHaveOnePlace == QueueSpec => []OnePlace
BY QueueInvariant, PTL DEF QueueInv

(* Locks and the processing status go together.                             *)
THEOREM LocksAreLeases == QueueSpec => []LeaseDiscipline
BY QueueInvariant, PTL DEF QueueInv

(* Attempts are counted exactly, up to max_attempts.                        *)
THEOREM AttemptsAreCounted == QueueSpec => []RetryBudget
BY QueueInvariant, PTL DEF QueueInv
===============================================================================
