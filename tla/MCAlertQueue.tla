----------------------------- MODULE MCAlertQueue -----------------------------
(* Instances of AlertQueue and AlertMetrics for TLC: any caller.             *)
EXTENDS AlertMetrics, TLC

CONSTANTS a1, a2, w1, w2

(* A duress login waits 120 s (service.py), an incident does not wait.       *)
MCDelaySeconds == (a1 :> 120) @@ (a2 :> 0)
MCClockSteps == {20}

AnyWorker == Permutations(WorkerNames)
===============================================================================
