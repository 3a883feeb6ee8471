------------------------------ MODULE SessionLife ------------------------------
(***************************************************************************)
(* What the session layer promises, without rows, threads or requests.  A  *)
(* session is opened once and granted one refresh token; from then on one  *)
(* token after the other is current, and what was current is spent, never  *)
(* to come back and never to pass to another session.  Stripping it of its *)
(* current token is final: nothing is granted afterwards, and only a       *)
(* session that was stripped is closed.  AuthService implements this       *)
(* module.                                                                 *)
(***************************************************************************)
CONSTANTS
  Sessions,
  Tokens

VARIABLE
  life   \* [Sessions -> [state, current, spent]]

Init ==
  life = [s \in Sessions |-> [state |-> "absent", current |-> {}, spent |-> {}]]

Fresh(t) == \A s \in Sessions : t \notin life[s].current \cup life[s].spent

Open(s) ==
  /\ life[s].state = "absent"
  /\ life' = [life EXCEPT ![s].state = "active"]

Grant(s, t) ==
  /\ life[s].state = "active"
  /\ life[s].current = {} /\ life[s].spent = {}
  /\ Fresh(t)
  /\ life' = [life EXCEPT ![s].current = {t}]

Rotate(s, t, u) ==
  /\ life[s].state = "active"
  /\ life[s].current = {t}
  /\ Fresh(u)
  /\ life' = [life EXCEPT ![s].current = {u}, ![s].spent = @ \cup {t}]

Strip(s) ==
  /\ life[s].state = "active"
  /\ \E t \in Tokens : life[s].current = {t}
  /\ life' = [life EXCEPT ![s].current = {}, ![s].spent = @ \cup life[s].current]

Close(s) ==
  /\ life[s].state = "active"
  /\ life[s].current = {} /\ life[s].spent # {}
  /\ life' = [life EXCEPT ![s].state = "revoked"]

Next ==
  \E s \in Sessions :
    \/ Open(s)
    \/ \E t \in Tokens : Grant(s, t)
    \/ \E t, u \in Tokens : Rotate(s, t, u)
    \/ Strip(s)
    \/ Close(s)

Spec == Init /\ [][Next]_life
===============================================================================
