----------------------------- MODULE AlertMetrics -----------------------------
(***************************************************************************)
(* The figures an administrator reads while alerts move: get_alert_metrics *)
(* of storage/alert_metrics.py and get_worker_metrics of                   *)
(* storage/worker_metrics.py.  Each counts rows with several SELECTs in no *)
(* transaction, so any operation of AlertQueue comes between two counts.   *)
(*                                                                         *)
(* Kept are the counts that together tell how many alerts are open: total  *)
(* and dead letters of the first, pending, processing and dead letters of  *)
(* the second.  The other figures break a total down, or count audit       *)
(* records, and no property is about them.                                 *)
(***************************************************************************)
EXTENDS AlertQueue

VARIABLES
  reader,      \* the read that is under way, and the sum of its counts so far
  unresolved,  \* history: alerts that are open since it began
  moved        \* history: moves against the order of the counts since then

metricsVars == <<queueVars, reader, unresolved, moved>>

Kinds == {"alerts", "worker"}

NoRead == [pc |-> "idle", kind |-> "alerts", shown |-> 0]

MetricsInit ==
  /\ QueueInit
  /\ reader = NoRead
  /\ unresolved = {}
  /\ moved = {}

StartRead(kind) ==
  /\ reader.pc = "idle"
  /\ reader' = [pc |-> IF kind = "alerts" THEN "total" ELSE "pending",
                kind |-> kind, shown |-> 0]
  /\ unresolved' = raised \ settled
  /\ UNCHANGED <<queueVars, moved>>

WithStatus(status) == Cardinality({i \in Ids : queue[i].status = status})

Count(from, n, to) ==
  /\ reader.pc = from
  /\ reader' = [reader EXCEPT !.pc = to, !.shown = @ + n]
  /\ UNCHANGED <<queueVars, unresolved, moved>>

CountPending == Count("pending", WithStatus("pending"), "processing")

CountProcessing == Count("processing", WithStatus("processing"), "dead")

CountTotal == Count("total", WithStatus("pending") + WithStatus("processing"), "dead")

CountDead == Count("dead", Cardinality(deadLetters), "done")

(* Mutant: get_alert_metrics counts the dead letters first, then the queue. *)
ReadDeadFirst ==
  \/ CountPending \/ CountProcessing
  \/ Count("total", Cardinality(deadLetters), "dead")
  \/ reader.kind = "worker" /\ CountDead
  \/ /\ reader.kind = "alerts"
     /\ Count("dead", WithStatus("pending") + WithStatus("processing"), "done")

Read == CountPending \/ CountProcessing \/ CountTotal \/ CountDead

EndRead ==
  /\ reader.pc = "done"
  /\ reader' = NoRead
  /\ unresolved' = {}
  /\ moved' = {}
  /\ UNCHANGED queueVars

(* A retry goes from processing to pending, a replay from the dead letters  *)
(* to the queue: both from what is counted later to what was counted.       *)
MovedBack ==
  {m \in {"retry", "replay"} :
     \/ m = "retry" /\ \E i \in Ids : /\ queue[i].status = "processing"
                                      /\ queue'[i].status = "pending"
     \/ m = "replay" /\ ~(deadLetters \subseteq deadLetters')}

TablesChange ==
  /\ QueueNext
  /\ unresolved' = unresolved \ settled'
  /\ moved' = IF reader.pc = "idle" THEN {} ELSE moved \cup MovedBack
  /\ UNCHANGED reader

MetricsNext ==
  \/ TablesChange
  \/ \E kind \in Kinds : StartRead(kind)
  \/ Read
  \/ EndRead

MetricsSpec == MetricsInit /\ [][MetricsNext]_metricsVars

-------------------------------------------------------------------------------
(* README: "queue totals are correct".  The figures show every alert that   *)
(* was open all through the read, however rows move between the counts:     *)
(* total and dead letters miss one only if a replay came in between,        *)
(* pending, processing and dead letters only if a replay or a retry did.    *)
UnresolvedAreReported ==
  reader.pc = "done" =>
    LET excuse == IF reader.kind = "alerts" THEN {"replay"} ELSE {"replay", "retry"}
    IN  moved \cap excuse = {} => reader.shown >= Cardinality(unresolved)
===============================================================================
