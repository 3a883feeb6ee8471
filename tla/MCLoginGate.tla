----------------------------- MODULE MCLoginGate -----------------------------
(* Instances of LoginGate for TLC.                                           *)
EXTENDS LoginGate, TLC

CONSTANTS r1, r2, ip

AnyThread == Permutations(Threads)
===============================================================================
