-------------------------- MODULE MCDeceptionWorker --------------------------
(* Instances of DeceptionWorker for TLC.                                      *)
EXTENDS DeceptionWorker, TLC

CONSTANTS a1, a2, p1, p2, w1, w2

(* service.py: a duress login waits 120 s, the other alerts do not wait.     *)
DelayOf(type) == IF type = "DURESS_LOGIN" THEN 120 ELSE 0
MCDelaySeconds == [a \in Alerts |-> DelayOf(AlertType[a])]

LoginAndReuse == (a1 :> "DURESS_LOGIN") @@ (a2 :> "REFRESH_REUSE")

DistinctNames == (p1 :> w1) @@ (p2 :> w2)
DefaultName == (p1 :> w1) @@ (p2 :> w1)
OneWorker == p1 :> w1

MCClockSteps == {60}
===============================================================================
