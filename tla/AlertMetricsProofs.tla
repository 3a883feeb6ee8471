-------------------------- MODULE AlertMetricsProofs --------------------------
(***************************************************************************)
(* Proof of UnresolvedAreReported: no alert that stays open all through a  *)
(* read of the figures is missing from their sum, unless a move against    *)
(* the order of the counts came in between.                                *)
(*                                                                         *)
(* A count is compared with a set of alerts: after the pending rows are    *)
(* counted, the sum covers the open alerts that are pending; after the     *)
(* processing ones, those that are not dead letters; in the end, all       *)
(* (Covered).  Until the next count these sets only shrink: an alert       *)
(* becomes pending by a retry or a replay only, leaves the dead letters by *)
(* a replay only, and one that is enqueued meanwhile is not looked for.    *)
(***************************************************************************)
EXTENDS AlertMetrics, AlertQueueProofs, FiniteSetTheorems, FunctionTheorems

(* The alerts of the rows with a status.                                    *)
AlertsWith(status) == {queue[i].alert : i \in {j \in Ids : queue[j].status = status}}

DeadAlerts == {d.alert : d \in deadLetters}

(* The open alerts that the counts made so far must have seen.              *)
Covered ==
  CASE reader.pc = "processing" -> unresolved \cap AlertsWith("pending")
    [] reader.pc = "dead" -> unresolved \ DeadAlerts
    [] reader.pc = "done" -> unresolved
    [] OTHER -> {}

Excuse == IF reader.kind = "alerts" THEN {"replay"} ELSE {"replay", "retry"}

ReaderTypeOK ==
  /\ reader \in [pc : {"idle", "total", "pending", "processing", "dead", "done"},
                 kind : Kinds, shown : Nat]
  /\ reader.pc \in {"pending", "processing"} => reader.kind = "worker"
  /\ unresolved \subseteq raised \ settled
  /\ IsFiniteSet(raised)
  /\ IsFiniteSet(deadLetters)

MetricsInv ==
  /\ QueueInv
  /\ ReaderTypeOK
  /\ moved \cap Excuse = {} => Cardinality(Covered) <= reader.shown

-------------------------------------------------------------------------------
LEMMA FiniteUnresolved ==
  ASSUME ReaderTypeOK
  PROVE  IsFiniteSet(unresolved)
BY FS_Subset DEF ReaderTypeOK

(* There are no more values than there are rows that hold them.             *)
LEMMA ImageIsSmaller ==
  ASSUME NEW S, IsFiniteSet(S), NEW f, f = [x \in S |-> f[x]]
  PROVE  /\ IsFiniteSet({f[x] : x \in S})
         /\ Cardinality({f[x] : x \in S}) <= Cardinality(S)
<1> DEFINE T == {f[x] : x \in S}
<1>1. f \in Surjection(S, T)
  BY Fun_IsSurj
<1> HIDE DEF T
<1>2. IsFiniteSet(T) /\ Cardinality(T) <= Cardinality(S)
  BY <1>1, FS_Surjection
<1> QED
  BY <1>2 DEF T

(* A count is never below the number of alerts in what it counts.           *)
LEMMA CountCovers ==
  ASSUME NEW status
  PROVE  /\ IsFiniteSet(AlertsWith(status))
         /\ Cardinality(AlertsWith(status)) <= WithStatus(status)
         /\ WithStatus(status) \in Nat
<1> DEFINE rows == {i \in Ids : queue[i].status = status}
           f == [i \in rows |-> queue[i].alert]
<1>1. IsFiniteSet(rows)
  <2>1. IsFiniteSet(Ids)
    BY FS_Interval, QueueAssumption DEF Ids
  <2> QED
    BY <2>1, FS_Subset
<1>2. AlertsWith(status) = {f[i] : i \in rows}
  BY DEF AlertsWith
<1>3. WithStatus(status) = Cardinality(rows)
  BY DEF WithStatus
<1>4. f = [i \in rows |-> f[i]]
  OBVIOUS
<1> HIDE DEF rows, f
<1>5. /\ IsFiniteSet({f[i] : i \in rows})
      /\ Cardinality({f[i] : i \in rows}) <= Cardinality(rows)
  BY <1>1, <1>4, ImageIsSmaller
<1> QED
  BY <1>1, <1>2, <1>3, <1>5, FS_CardinalityType

LEMMA DeadCovers ==
  ASSUME IsFiniteSet(deadLetters)
  PROVE  /\ IsFiniteSet(DeadAlerts)
         /\ Cardinality(DeadAlerts) <= Cardinality(deadLetters)
         /\ Cardinality(deadLetters) \in Nat
<1> DEFINE f == [d \in deadLetters |-> d.alert]
<1>1. DeadAlerts = {f[d] : d \in deadLetters}
  BY DEF DeadAlerts
<1>2. f = [d \in deadLetters |-> f[d]]
  OBVIOUS
<1> HIDE DEF f
<1> QED
  BY <1>1, <1>2, ImageIsSmaller, FS_CardinalityType

(* What is split in two is covered by two counts.                           *)
LEMMA CoverUnion ==
  ASSUME NEW S, NEW A, NEW B, IsFiniteSet(A), IsFiniteSet(B), S \subseteq A \cup B,
         NEW m \in Nat, NEW n \in Nat, Cardinality(A) <= m, Cardinality(B) <= n
  PROVE  /\ IsFiniteSet(S)
         /\ Cardinality(S) <= m + n
<1>1. /\ IsFiniteSet(A \cup B)
      /\ IsFiniteSet(A \cap B)
      /\ Cardinality(A \cup B) = Cardinality(A) + Cardinality(B) - Cardinality(A \cap B)
  BY FS_Union, FS_Intersection
<1>2. /\ IsFiniteSet(S)
      /\ Cardinality(S) <= Cardinality(A \cup B)
  BY <1>1, FS_Subset
<1>3. /\ Cardinality(A) \in Nat
      /\ Cardinality(B) \in Nat
      /\ Cardinality(A \cap B) \in Nat
      /\ Cardinality(A \cup B) \in Nat
      /\ Cardinality(S) \in Nat
  BY <1>1, <1>2, FS_CardinalityType
<1> QED
  BY <1>1, <1>2, <1>3

(* An open alert is in a pending row, in a processing row or dead.          *)
LEMMA OpenIsSomewhere ==
  ASSUME QueueInv, ReaderTypeOK
  PROVE  unresolved \subseteq AlertsWith("pending") \cup AlertsWith("processing") \cup DeadAlerts
<1> SUFFICES ASSUME NEW a \in unresolved, a \notin DeadAlerts
             PROVE  a \in AlertsWith("pending") \cup AlertsWith("processing")
  OBVIOUS
<1>1. a \in raised /\ a \notin settled /\ raised \subseteq Alerts
  BY DEF ReaderTypeOK, QueueInv, QueueTypeOK
<1>2. ~Dead(a)
  BY DEF Dead, DeadAlerts
<1>3. PICK i \in Ids : queue[i].alert = a
  BY <1>1, <1>2 DEF QueueInv, NothingLost, Queued
<1>4. queue[i].status \in {"pending", "processing"}
  BY <1>1, <1>3, QueueAssumption DEF QueueInv, RowsFit, QueueTypeOK, Row
<1> QED
  BY <1>3, <1>4 DEF AlertsWith

-------------------------------------------------------------------------------
LEMMA InitMetrics == MetricsInit => MetricsInv
<1> SUFFICES ASSUME MetricsInit PROVE MetricsInv
  OBVIOUS
<1>1. QueueInv
  BY InitInv DEF MetricsInit
<1>2. ReaderTypeOK
  BY FS_EmptySet DEF MetricsInit, QueueInit, NoRead, Kinds, ReaderTypeOK
<1>3. Cardinality(Covered) = 0 /\ reader.shown = 0
  BY FS_EmptySet DEF MetricsInit, NoRead, Covered
<1> QED
  BY <1>1, <1>2, <1>3 DEF MetricsInv

(* One count after the other.                                               *)
LEMMA CountKeeps ==
  ASSUME MetricsInv, NEW from, NEW n \in Nat, NEW to \in {"processing", "dead", "done"},
         Count(from, n, to), to = "processing" => reader.kind = "worker",
         moved \cap Excuse = {} => Cardinality(Covered') <= reader.shown + n
  PROVE  MetricsInv'
<1>1. /\ UNCHANGED <<now, queue, nextId, deadLetters, raised, settled, unresolved, moved>>
      /\ reader \in [pc : {"idle", "total", "pending", "processing", "dead", "done"},
                     kind : Kinds, shown : Nat]
      /\ reader' = [reader EXCEPT !.pc = to, !.shown = @ + n]
  BY DEF Count, queueVars, MetricsInv, ReaderTypeOK
<1>2. reader'.pc = to /\ reader'.kind = reader.kind /\ reader'.shown = reader.shown + n
  BY <1>1
<1>3. QueueInv'
  BY <1>1, NextInv DEF MetricsInv, queueVars
<1>4. ReaderTypeOK'
  <2>1. reader' \in [pc : {"idle", "total", "pending", "processing", "dead", "done"},
                     kind : Kinds, shown : Nat]
    <3> DEFINE sum == reader.shown + n
    <3>1. sum \in Nat /\ reader' = [reader EXCEPT !.pc = to, !.shown = sum]
      BY <1>1
    <3> HIDE DEF sum
    <3> QED
      BY <1>1, <3>1
  <2>2. reader'.pc \in {"pending", "processing"} => reader'.kind = "worker"
    BY <1>2
  <2>3. unresolved' \subseteq raised' \ settled' /\ IsFiniteSet(raised') /\ IsFiniteSet(deadLetters')
    BY <1>1 DEF MetricsInv, ReaderTypeOK
  <2> QED
    BY <2>1, <2>2, <2>3 DEF ReaderTypeOK
<1> QED
  BY <1>1, <1>2, <1>3, <1>4 DEF MetricsInv, Excuse

LEMMA ReadKeeps ==
  ASSUME MetricsInv, Read
  PROVE  MetricsInv'
<1> DEFINE pending == AlertsWith("pending")
           processing == AlertsWith("processing")
<1>1. /\ IsFiniteSet(pending)
      /\ IsFiniteSet(processing)
      /\ IsFiniteSet(DeadAlerts)
      /\ IsFiniteSet(unresolved)
      /\ Cardinality(pending) <= WithStatus("pending")
      /\ Cardinality(processing) <= WithStatus("processing")
      /\ Cardinality(DeadAlerts) <= Cardinality(deadLetters)
      /\ WithStatus("pending") \in Nat
      /\ WithStatus("processing") \in Nat
      /\ Cardinality(deadLetters) \in Nat
  BY CountCovers, DeadCovers, FiniteUnresolved DEF MetricsInv, ReaderTypeOK
<1>2. /\ unresolved \subseteq pending \cup processing \cup DeadAlerts
      /\ reader \in [pc : {"idle", "total", "pending", "processing", "dead", "done"},
                     kind : Kinds, shown : Nat]
      /\ reader.pc \in {"pending", "processing"} => reader.kind = "worker"
      /\ reader.shown \in Nat
      /\ moved \cap Excuse = {} => Cardinality(Covered) <= reader.shown
  BY OpenIsSomewhere DEF MetricsInv, ReaderTypeOK
<1> HIDE DEF pending, processing
<1>4. CASE CountPending
  <2>1. reader.pc = "pending" /\ reader'.pc = "processing"
    BY <1>2, <1>4 DEF CountPending, Count
  <2>2. Covered' = unresolved \cap pending
    BY <1>4, <2>1 DEF Covered, CountPending, Count, AlertsWith, pending, queueVars
  <2>3. Cardinality(Covered') <= Cardinality(pending)
    BY <1>1, <2>2, FS_Intersection
  <2>4. Cardinality(Covered') <= reader.shown + WithStatus("pending")
    <3>1. Cardinality(Covered') \in Nat
      BY <1>1, <2>2, FS_Intersection, FS_CardinalityType
    <3>2. Cardinality(pending) \in Nat
      BY <1>1, FS_CardinalityType
    <3> QED
      BY <1>1, <1>2, <2>3, <3>1, <3>2
  <2> QED
    BY <1>1, <1>2, <1>4, <2>1, <2>4, CountKeeps DEF CountPending
<1>5. CASE CountProcessing
  <2>1. reader.pc = "processing" /\ reader'.pc = "dead"
    BY <1>2, <1>5 DEF CountProcessing, Count
  <2>2. /\ Covered = unresolved \cap pending
        /\ Covered' = unresolved \ DeadAlerts
    BY <1>5, <2>1 DEF Covered, CountProcessing, Count, DeadAlerts, pending, queueVars
  <2>3. ASSUME moved \cap Excuse = {}
        PROVE  Cardinality(Covered') <= reader.shown + WithStatus("processing")
    <3>1. Cardinality(unresolved \cap pending) <= reader.shown /\ IsFiniteSet(unresolved \cap pending)
      BY <1>1, <1>2, <2>2, <2>3, FS_Intersection
    <3>2. Covered' \subseteq (unresolved \cap pending) \cup processing
      BY <1>2, <2>2
    <3> QED
      BY <1>1, <1>2, <3>1, <3>2, CoverUnion
  <2> QED
    BY <1>1, <1>5, <2>3, CountKeeps DEF CountProcessing
<1>6. CASE CountTotal
  <2>1. reader.pc = "total" /\ reader'.pc = "dead"
    BY <1>2, <1>6 DEF CountTotal, Count
  <2>2. Covered' = unresolved \ DeadAlerts
    BY <1>6, <2>1 DEF Covered, CountTotal, Count, DeadAlerts, queueVars
  <2>3. /\ Cardinality(Covered') <= WithStatus("pending") + WithStatus("processing")
        /\ IsFiniteSet(Covered')
    <3>1. Covered' \subseteq pending \cup processing
      BY <1>2, <2>2
    <3> QED
      BY <1>1, <3>1, CoverUnion
  <2>4. Cardinality(Covered') <= reader.shown + (WithStatus("pending") + WithStatus("processing"))
    BY <1>1, <1>2, <2>3, FS_CardinalityType
  <2> QED
    BY <1>1, <1>6, <2>4, CountKeeps DEF CountTotal
<1>7. CASE CountDead
  <2>1. reader.pc = "dead" /\ reader'.pc = "done"
    BY <1>2, <1>7 DEF CountDead, Count
  <2>2. Covered = unresolved \ DeadAlerts /\ Covered' = unresolved
    BY <1>7, <2>1 DEF Covered, CountDead, Count
  <2>3. ASSUME moved \cap Excuse = {}
        PROVE  Cardinality(Covered') <= reader.shown + Cardinality(deadLetters)
    <3>1. Cardinality(unresolved \ DeadAlerts) <= reader.shown /\ IsFiniteSet(unresolved \ DeadAlerts)
      BY <1>1, <1>2, <2>2, <2>3, FS_Difference
    <3>2. Covered' \subseteq (unresolved \ DeadAlerts) \cup DeadAlerts
      BY <2>2
    <3> QED
      BY <1>1, <1>2, <3>1, <3>2, CoverUnion
  <2> QED
    BY <1>1, <1>7, <2>3, CountKeeps DEF CountDead
<1> QED
  BY <1>4, <1>5, <1>6, <1>7 DEF Read

-------------------------------------------------------------------------------
(* What a transaction over the tables does to where alerts are: one that    *)
(* was raised before becomes pending by a retry or a replay only, and       *)
(* leaves the dead letters by a replay only.                                *)
Drift ==
  /\ "replay" \notin MovedBack => DeadAlerts \subseteq DeadAlerts'
  /\ MovedBack = {} => AlertsWith("pending")' \cap raised \subseteq AlertsWith("pending")
  /\ IsFiniteSet(raised) => IsFiniteSet(raised')
  /\ IsFiniteSet(deadLetters) => IsFiniteSet(deadLetters')
  /\ raised \subseteq raised'

LEMMA QuietDrift ==
  ASSUME UNCHANGED <<deadLetters, raised>>,
         \A i \in Ids : queue'[i].status = "pending" =>
           queue[i].status = "pending" /\ queue'[i].alert = queue[i].alert
  PROVE  Drift
BY DEF Drift, DeadAlerts, AlertsWith

LEMMA TablesDrift ==
  ASSUME QueueInv, QueueNext
  PROVE  Drift
<1>1. queue \in [Ids -> Row] /\ NoRow.status = "absent"
  BY DEF QueueInv, QueueTypeOK, NoRow
<1>2. ASSUME NEW a \in Alerts, EnqueueAlert(a) PROVE Drift
  <2>1. /\ a \notin raised
        /\ nextId \in Ids
        /\ raised' = raised \cup {a}
        /\ deadLetters' = deadLetters
        /\ queue'[nextId].alert = a
        /\ \A i \in Ids : i # nextId => queue'[i] = queue[i]
    BY <1>1, <1>2 DEF EnqueueAlert, InsertRow, PendingRow
  <2>2. AlertsWith("pending")' \cap raised \subseteq AlertsWith("pending")
    BY <2>1 DEF AlertsWith
  <2>3. IsFiniteSet(raised) => IsFiniteSet(raised')
    BY <2>1, FS_AddElement
  <2> QED
    BY <2>1, <2>2, <2>3 DEF Drift, DeadAlerts
<1>3. ASSUME NEW w \in WorkerNames, ClaimDueAlerts(w) PROVE Drift
  <2>1. PICK taken \in SUBSET Claimable :
          queue' = [i \in Ids |->
            IF i \in taken
              THEN [queue[i] EXCEPT !.status = "processing",
                                    !.lockedBy = w,
                                    !.lockedAt = IsoStamp(now)]
              ELSE queue[i]]
    BY <1>3 DEF ClaimDueAlerts
  <2>2. \A i \in Ids : queue'[i].status = "pending" => queue'[i] = queue[i]
    BY <1>1, <2>1 DEF Row
  <2> QED
    BY <1>3, <2>2, QuietDrift DEF ClaimDueAlerts
<1>4. ASSUME NEW i \in Ids, NEW w \in WorkerNames, AckAlert(i, w) PROVE Drift
  <2>1. \A j \in Ids : queue'[j].status = "pending" => queue'[j] = queue[j]
    BY <1>1, <1>4 DEF AckAlert
  <2> QED
    BY <1>4, <2>1, QuietDrift DEF AckAlert
<1>5. ASSUME NEW i \in Ids, NEW w \in WorkerNames, FailAlert(i, w) PROVE Drift
  <2>1. CASE UNCHANGED <<queue, deadLetters>>
    BY <1>5, <2>1, QuietDrift DEF FailAlert
  <2>2. CASE queue[i].lockedBy = w /\ MoveToDeadLetter(i)
    <3> DEFINE d == [original |-> i, alert |-> queue[i].alert,
                     attempts |-> queue[i].attempts + 1]
    <3>1. /\ deadLetters' = deadLetters \cup {d}
          /\ raised' = raised
          /\ \A j \in Ids : queue'[j].status = "pending" => queue'[j] = queue[j]
      BY <1>1, <1>5, <2>2 DEF FailAlert, MoveToDeadLetter
    <3> HIDE DEF d
    <3>2. IsFiniteSet(deadLetters) => IsFiniteSet(deadLetters')
      BY <3>1, FS_AddElement
    <3> QED
      BY <3>1, <3>2 DEF Drift, DeadAlerts, AlertsWith
  <2>3. CASE queue[i].lockedBy = w /\ Reschedule(i)
    <3>1. queue[i].status = "processing"
      BY <2>3, OwnedRowHasAlert
    <3>2. queue'[i].status = "pending"
      BY <1>1, <2>3 DEF Reschedule, Row
    <3>3. MovedBack # {}
      BY <3>1, <3>2 DEF MovedBack
    <3> QED
      BY <1>5, <2>3, <3>3 DEF Drift, DeadAlerts, Reschedule, FailAlert
  <2> QED
    BY <1>5, <2>1, <2>2, <2>3 DEF FailAlert
<1>6. ASSUME NEW d \in deadLetters, ReplayDeadLetterAlert(d) PROVE Drift
  <2>1. deadLetters' = deadLetters \ {d} /\ raised' = raised
    BY <1>6 DEF ReplayDeadLetterAlert
  <2>2. "replay" \in MovedBack
    BY <2>1 DEF MovedBack
  <2>3. IsFiniteSet(deadLetters) => IsFiniteSet(deadLetters')
    BY <2>1, FS_Subset
  <2> QED
    BY <2>1, <2>2, <2>3 DEF Drift
<1>7. CASE Clock
  BY <1>7, QuietDrift DEF Clock, WaitUntilDue, TimePasses, tables
<1> QED
  BY <1>2, <1>3, <1>4, <1>5, <1>6, <1>7 DEF QueueNext

LEMMA TablesKeep ==
  ASSUME MetricsInv, TablesChange
  PROVE  MetricsInv'
<1>1. QueueInv' /\ Drift
  BY NextInv, TablesDrift DEF MetricsInv, TablesChange
<1>2. /\ unresolved' = unresolved \ settled'
      /\ moved' = IF reader.pc = "idle" THEN {} ELSE moved \cup MovedBack
      /\ reader' = reader
  BY DEF TablesChange
<1>3. ReaderTypeOK'
  BY <1>1, <1>2 DEF MetricsInv, ReaderTypeOK, Drift
<1>4. ASSUME moved' \cap Excuse = {}
      PROVE  Cardinality(Covered') <= reader.shown
  <2>1. CASE reader.pc \in {"idle", "total", "pending"}
    <3>1. Covered' = {} /\ Covered = {}
      BY <1>2, <2>1 DEF Covered
    <3> QED
      BY <3>1, FS_EmptySet DEF MetricsInv, ReaderTypeOK
  <2>2. CASE reader.pc \in {"processing", "dead", "done"}
    <3>1. moved \cap Excuse = {} /\ MovedBack \cap Excuse = {}
      BY <1>2, <1>4, <2>2
    <3>2. unresolved \subseteq raised /\ IsFiniteSet(unresolved)
      BY FiniteUnresolved DEF MetricsInv, ReaderTypeOK
    <3>3. "replay" \notin MovedBack /\ (reader.pc = "processing" => MovedBack = {})
      BY <3>1 DEF Excuse, MovedBack, MetricsInv, ReaderTypeOK
    <3>4. Covered' \subseteq Covered
      BY <1>1, <1>2, <2>2, <3>2, <3>3 DEF Covered, Drift
    <3>5. IsFiniteSet(Covered)
      BY <2>2, <3>2, FS_Subset DEF Covered
    <3>6. /\ Cardinality(Covered') <= Cardinality(Covered)
          /\ Cardinality(Covered') \in Nat
          /\ Cardinality(Covered) \in Nat
      BY <3>4, <3>5, FS_Subset, FS_CardinalityType
    <3>7. Cardinality(Covered) <= reader.shown /\ reader.shown \in Nat
      BY <3>1 DEF MetricsInv, ReaderTypeOK
    <3> QED
      BY <3>6, <3>7
  <2> QED
    BY <2>1, <2>2 DEF MetricsInv, ReaderTypeOK
<1> QED
  BY <1>1, <1>2, <1>3, <1>4 DEF MetricsInv, Excuse

LEMMA ReaderMovesKeep ==
  ASSUME MetricsInv, (\E kind \in Kinds : StartRead(kind)) \/ EndRead
  PROVE  MetricsInv'
<1>1. UNCHANGED queueVars
  BY DEF StartRead, EndRead
<1>2. QueueInv'
  BY <1>1, NextInv DEF MetricsInv
<1>3. /\ reader' \in [pc : {"idle", "total", "pending", "processing", "dead", "done"},
                      kind : Kinds, shown : Nat]
      /\ reader'.pc \in {"idle", "total", "pending"}
      /\ reader'.pc = "pending" => reader'.kind = "worker"
      /\ reader'.shown = 0
  BY DEF StartRead, EndRead, NoRead, Kinds
<1>4. ReaderTypeOK'
  BY <1>1, <1>3 DEF MetricsInv, ReaderTypeOK, StartRead, EndRead, queueVars
<1>5. Covered' = {}
  BY <1>3 DEF Covered
<1> QED
  BY <1>2, <1>3, <1>4, <1>5, FS_EmptySet DEF MetricsInv

LEMMA MetricsNextInv == MetricsInv /\ [MetricsNext]_metricsVars => MetricsInv'
<1> SUFFICES ASSUME MetricsInv, [MetricsNext]_metricsVars PROVE MetricsInv'
  OBVIOUS
<1>1. CASE UNCHANGED metricsVars
  <2>1. QueueInv'
    BY <1>1, NextInv DEF MetricsInv, metricsVars
  <2>2. Covered' = Covered
    BY <1>1 DEF Covered, AlertsWith, DeadAlerts, metricsVars, queueVars
  <2> QED
    BY <1>1, <2>1, <2>2 DEF MetricsInv, ReaderTypeOK, Excuse, metricsVars, queueVars
<1> QED
  BY <1>1, TablesKeep, ReadKeeps, ReaderMovesKeep DEF MetricsNext

(* Whatever workers and administrators do between two counts, the figures   *)
(* show every alert that was open all the time, unless a replay (or, for    *)
(* the worker's figures, a retry) moved one back behind the counts.         *)
THEOREM OpenAlertsAreReported == MetricsSpec => []UnresolvedAreReported
<1>1. MetricsInv => UnresolvedAreReported
  <2> SUFFICES ASSUME MetricsInv, reader.pc = "done", moved \cap Excuse = {}
               PROVE  reader.shown >= Cardinality(unresolved)
    BY DEF UnresolvedAreReported, Excuse
  <2>1. Covered = unresolved
    BY DEF Covered
  <2>2. Cardinality(unresolved) \in Nat /\ reader.shown \in Nat
    BY FiniteUnresolved, FS_CardinalityType DEF MetricsInv, ReaderTypeOK
  <2> QED
    BY <2>1, <2>2 DEF MetricsInv
<1> QED
  BY <1>1, InitMetrics, MetricsNextInv, PTL DEF MetricsSpec
===============================================================================
