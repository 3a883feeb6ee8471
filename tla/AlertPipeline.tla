---------------------------- MODULE AlertPipeline ----------------------------
(***************************************************************************)
(* What the alert pipeline promises, without tables, locks or workers: an  *)
(* alert that is raised stays open until every channel its type calls for  *)
(* has been told of it, or until it is buried in the dead-letter store,    *)
(* from where an administrator can open it again.  Channels are only told  *)
(* of open alerts.  DeceptionWorker implements this module.                *)
(***************************************************************************)
CONSTANTS
  Alerts,
  Channels,
  Required   \* [Alerts -> SUBSET Channels]

VARIABLES
  fate,      \* [Alerts -> {"unraised", "open", "settled", "dead"}]
  notified   \* [Alerts -> SUBSET Channels]

pipelineVars == <<fate, notified>>

Init ==
  /\ fate = [a \in Alerts |-> "unraised"]
  /\ notified = [a \in Alerts |-> {}]

Move(a, from, to) ==
  /\ fate[a] = from
  /\ fate' = [fate EXCEPT ![a] = to]
  /\ UNCHANGED notified

Raise(a) == Move(a, "unraised", "open")

Notify(a, c) ==
  /\ fate[a] = "open"
  /\ c \in Required[a]
  /\ notified' = [notified EXCEPT ![a] = @ \cup {c}]
  /\ UNCHANGED fate

Settle(a) == Required[a] \subseteq notified[a] /\ Move(a, "open", "settled")

Bury(a) == Move(a, "open", "dead")

Reopen(a) == Move(a, "dead", "open")

Next ==
  \E a \in Alerts :
    \/ Raise(a)
    \/ \E c \in Channels : Notify(a, c)
    \/ Settle(a)
    \/ Bury(a)
    \/ Reopen(a)

Spec == Init /\ [][Next]_pipelineVars
===============================================================================
