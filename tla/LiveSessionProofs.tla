--------------------------- MODULE LiveSessionProofs ---------------------------
(***************************************************************************)
(* What requests do to the sessions, as a whole and for any number of      *)
(* threads, sessions and tokens.                                           *)
(*                                                                         *)
(* LiveSessionHasToken: no request takes a live session its tokens, as     *)
(* long as no request is cut off (MaxAborts = 0); one that ends between    *)
(* its two revocations leaves a session that is active and has no token,   *)
(* for ever.                                                               *)
(*                                                                         *)
(* ImplementsSessionLife: cut off or not, requests implement SessionLife.  *)
(*                                                                         *)
(* ReuseKillsSession, which overlapping refreshes break, holds when        *)
(* requests are served one after the other: the overlap is all it takes,   *)
(* and nothing less will do.                                               *)
(***************************************************************************)
EXTENDS SilentAlarmProofs

LiveInv == ServiceInv /\ LiveSessionHasToken

(* A step that changes neither table, by a thread that is not between the   *)
(* two revocations.                                                         *)
LEMMA QuietStep ==
  ASSUME LiveSessionHasToken, NEW r \in Threads, call[r].pc # "revokeSession",
         UNCHANGED <<sessions, refreshTokens>>,
         \A q \in Threads \ {r} : call'[q] = call[q]
  PROVE  LiveSessionHasToken'
<1>1. \A q \in Threads : At(q, "revokeSession") => call'[q] = call[q]
  BY DEF At
<1> QED
  BY <1>1 DEF LiveSessionHasToken, IsSessionActive, At

(* A step moves one thread.                                                 *)
LEMMA OneThreadMoves ==
  ASSUME ServiceInv, NEW r \in Threads, Serve(r) \/ Receive(r) \/ Abort(r)
  PROVE  \A q \in Threads \ {r} : call'[q] = call[q]
<1>1. ASSUME NEW label, Goto(r, label) PROVE \A q \in Threads \ {r} : call'[q] = call[q]
  BY <1>1 DEF Goto, ServiceInv, ServiceTypeOK
<1>2. CASE Return(r)
  BY <1>2 DEF Return, ServiceInv, ServiceTypeOK
<1>3. CASE Receive(r)
  BY <1>3 DEF Receive, StartLogin, StartRefresh, StartLogout, StartTransfer,
     ServiceInv, ServiceTypeOK
<1>4. CASE LoginCreateSession(r) \/ StoreToken(r) \/ CheckFingerprint(r)
             \/ Rotate(r) \/ CheckKnown(r) \/ ReadMode(r)
  BY <1>1, <1>4 DEF LoginCreateSession, StoreToken, CheckFingerprint, Rotate,
     CheckKnown, ReadMode, ServiceInv, ServiceTypeOK
<1>5. CASE LogLogin(r) \/ ActivateDuressMode(r) \/ EnqueueLogin(r) \/ Reply(r)
             \/ CheckSession(r) \/ CheckActive(r) \/ LogRotated(r) \/ LogInvalid(r)
  BY <1>1, <1>2, <1>5 DEF LogLogin, ActivateDuressMode, EnqueueLogin, Reply,
     CheckSession, CheckActive, LogRotated, LogInvalid
<1>6. CASE RevokeTokens(r) \/ KillSession(r) \/ LogLogout(r) \/ LogDenied(r)
             \/ LogIncident(r) \/ EnqueueIncident(r) \/ EnqueueTransfer(r)
             \/ LogTransfer(r) \/ AnswerTransfer(r) \/ Abort(r)
  BY <1>1, <1>2, <1>6 DEF RevokeTokens, KillSession, LogLogout, LogDenied, LogIncident,
     EnqueueIncident, EnqueueTransfer, LogTransfer, AnswerTransfer, Abort
<1> QED
  BY <1>3, <1>4, <1>5, <1>6 DEF Serve

-------------------------------------------------------------------------------
(* A new session has no token that could have been taken from it.           *)
LEMMA CreateSessionLeavesLive ==
  ASSUME LiveInv, NEW r \in Threads, LoginCreateSession(r),
         \A q \in Threads \ {r} : call'[q] = call[q]
  PROVE  LiveSessionHasToken'
<1> USE DEF LiveInv
<1>1. /\ sessions' = [sessions EXCEPT ![lastSession + 1] =
           [state |-> "active", mode |-> call[r].mode, reason |-> "none"]]
      /\ refreshTokens' = refreshTokens
      /\ call[r].pc # "revokeSession"
  BY DEF LoginCreateSession, CreateSession, At
<1>2. \A t \in TokenIds : refreshTokens[t].session # lastSession + 1
  <2>1. lastSession \in Nat /\ lastToken \in Nat
    BY DEF ServiceInv, ServiceTypeOK
  <2> QED
    BY <2>1 DEF ServiceInv, TokensFit, NoSession, TokenIds
<1>3. ASSUME NEW s \in SessionIds, IsSessionActive(s)',
             \E t \in TokenIds : refreshTokens'[t].session = s
      PROVE  IsSessionActive(s) /\ \E t \in TokenIds : refreshTokens[t].session = s
  BY <1>1, <1>2, <1>3 DEF IsSessionActive, ServiceInv, ServiceTypeOK
<1> QED
  BY <1>1, <1>3 DEF LiveSessionHasToken, At

(* Storing a token gives its session one.                                   *)
LEMMA StoreTokenLeavesLive ==
  ASSUME LiveInv, NEW r \in Threads, StoreToken(r),
         \A q \in Threads \ {r} : call'[q] = call[q]
  PROVE  LiveSessionHasToken'
<1> USE DEF LiveInv
<1> DEFINE n == lastToken + 1
<1>1. /\ refreshTokens' = [refreshTokens EXCEPT
           ![n] = NewToken(call[r].session, call[r].context, NoToken)]
      /\ sessions' = sessions
      /\ call[r].pc # "revokeSession"
      /\ n \in TokenIds
      /\ n > lastToken
  BY StoreAssumption
  DEF StoreToken, StoreRefreshToken, At, TokenIds, ServiceInv, ServiceTypeOK
<1>2. /\ refreshTokens'[n].session = call[r].session
      /\ refreshTokens'[n].state = "active"
      /\ \A t \in TokenIds : t # n => refreshTokens'[t] = refreshTokens[t]
      /\ refreshTokens[n].state # "active"
  BY <1>1 DEF NewToken, ServiceInv, ServiceTypeOK, TokensFit
<1> HIDE DEF n
<1> QED
  BY <1>1, <1>2 DEF LiveSessionHasToken, IsSessionActive, At

(* A rotation takes a token and gives its session another.                  *)
LEMMA RotateLeavesLive ==
  ASSUME LiveInv, NEW r \in Threads, Rotate(r),
         \A q \in Threads \ {r} : call'[q] = call[q]
  PROVE  LiveSessionHasToken'
<1> USE DEF LiveInv
<1>1. call[r].pc # "revokeSession"
  BY DEF Rotate, At
<1>2. CASE UNCHANGED storeVars
  BY <1>1, <1>2, QuietStep DEF storeVars
<1>3. CASE RotateRefreshToken(call[r].token)
  <2> DEFINE t == call[r].token
             n == lastToken + 1
  <2>0. lastToken \in Nat /\ lastToken < MaxTokens
    BY <1>3 DEF RotateRefreshToken, ServiceInv, ServiceTypeOK
  <2>1. /\ refreshTokens' = [refreshTokens EXCEPT
             ![t].state = "revoked",
             ![n] = NewToken(refreshTokens[t].session, refreshTokens[t].context, t)]
        /\ sessions' = sessions
        /\ n \in TokenIds
        /\ n > lastToken
    BY <1>3, <2>0, StoreAssumption DEF RotateRefreshToken, TokenIds
  <2>2. t \in 1..lastToken
    <3>1. call[r].pc \in Presented
      BY DEF Rotate, At, Presented
    <3> QED
      BY <3>1 DEF ServiceInv, CallsFit
  <2>3. t # n /\ t \in TokenIds
    BY <2>0, <2>2, StoreAssumption DEF TokenIds
  <2> HIDE DEF t, n
  <2>4. refreshTokens \in [TokenIds -> TokenRow]
    BY DEF ServiceInv, ServiceTypeOK
  <2>5. /\ refreshTokens'[n].session = refreshTokens[t].session
        /\ refreshTokens'[n].state = "active"
    BY <2>1, <2>4 DEF NewToken
  <2>6. refreshTokens'[t].session = refreshTokens[t].session
    BY <2>1, <2>3, <2>4 DEF TokenRow
  <2>7. \A u \in TokenIds : u # n /\ u # t => refreshTokens'[u] = refreshTokens[u]
    BY <2>1, <2>4
  <2>8. refreshTokens[n].state # "active" /\ refreshTokens[n].session = NoSession
    <3>1. n \in Nat /\ ~(n <= lastToken)
      BY <2>0, <2>1 DEF TokenIds
    <3> QED
      BY <2>0, <2>1, <3>1 DEF ServiceInv, TokensFit
  <2>9. ASSUME NEW s \in SessionIds, IsSessionActive(s)',
               NEW u \in TokenIds, refreshTokens'[u].session = s
        PROVE  \/ \E v \in TokenIds :
                    refreshTokens'[v].session = s /\ refreshTokens'[v].state = "active"
               \/ \E q \in Threads : At(q, "revokeSession")' /\ call'[q].session = s
    <3>1. CASE s = refreshTokens[t].session
      BY <2>1, <2>5, <3>1
    <3>2. CASE s # refreshTokens[t].session
      <4>1. IsSessionActive(s) /\ refreshTokens[u].session = s
        BY <2>1, <2>5, <2>6, <2>7, <2>9, <3>2 DEF IsSessionActive
      <4>2. CASE \E v \in TokenIds :
                   refreshTokens[v].session = s /\ refreshTokens[v].state = "active"
        BY <2>7, <2>8, <3>2, <4>2
      <4>3. CASE \E q \in Threads : At(q, "revokeSession") /\ call[q].session = s
        BY <1>1, <4>3 DEF At
      <4> QED
        BY <4>1, <4>2, <4>3 DEF LiveSessionHasToken
    <3> QED
      BY <3>1, <3>2
  <2> QED
    BY <2>9 DEF LiveSessionHasToken
<1> QED
  BY <1>2, <1>3 DEF Rotate

(* Who revokes the tokens of a session is between the two revocations of it. *)
LEMMA RevokeTokensLeavesLive ==
  ASSUME LiveInv, NEW r \in Threads, RevokeTokens(r),
         \A q \in Threads \ {r} : call'[q] = call[q]
  PROVE  LiveSessionHasToken'
<1> USE DEF LiveInv
<1>1. /\ call[r].pc = "revokeTokens"
      /\ call'[r].pc = "revokeSession"
      /\ call'[r].session = call[r].session
      /\ sessions' = sessions
  BY DEF RevokeTokens, RevokeAllRefreshForSession, At, Goto, ServiceInv, ServiceTypeOK, Call
<1>2. \A t \in TokenIds :
        /\ refreshTokens'[t].session = refreshTokens[t].session
        /\ refreshTokens[t].session # call[r].session
             => refreshTokens'[t] = refreshTokens[t]
  BY DEF RevokeTokens, RevokeAllRefreshForSession, ServiceInv, ServiceTypeOK, TokenRow
<1> QED
  BY <1>1, <1>2 DEF LiveSessionHasToken, IsSessionActive, At

(* ... and then revokes that one.                                           *)
LEMMA KillSessionLeavesLive ==
  ASSUME LiveInv, NEW r \in Threads, KillSession(r),
         \A q \in Threads \ {r} : call'[q] = call[q]
  PROVE  LiveSessionHasToken'
<1> USE DEF LiveInv
<1>1. refreshTokens' = refreshTokens
  BY DEF KillSession, RevokeSession
<1>2. \A s \in SessionIds :
        IsSessionActive(s)' => IsSessionActive(s) /\ s # call[r].session
  BY DEF KillSession, RevokeSession, IsSessionActive, ServiceInv, ServiceTypeOK, SessionRow
<1> QED
  BY <1>1, <1>2 DEF LiveSessionHasToken, At

(* All other steps change neither table.                                    *)
LEMMA OthersLeaveLive ==
  ASSUME LiveInv, NEW r \in Threads,
         \A q \in Threads \ {r} : call'[q] = call[q],
         \/ Receive(r)
         \/ LogLogin(r) \/ ActivateDuressMode(r) \/ EnqueueLogin(r) \/ Reply(r)
         \/ CheckSession(r) \/ CheckFingerprint(r) \/ CheckActive(r)
         \/ LogRotated(r) \/ CheckKnown(r) \/ LogInvalid(r) \/ LogLogout(r)
         \/ LogDenied(r) \/ LogIncident(r) \/ EnqueueIncident(r) \/ TransferStep(r)
  PROVE  LiveSessionHasToken'
<1>1. call[r].pc # "revokeSession" /\ UNCHANGED <<sessions, refreshTokens>>
  BY DEF Receive, StartLogin, StartRefresh, StartLogout, StartTransfer, LogLogin,
     ActivateDuressMode, EnqueueLogin, Reply, CheckSession, CheckFingerprint,
     CheckActive, LogRotated, CheckKnown, LogInvalid, LogLogout, LogDenied,
     LogIncident, EnqueueIncident, TransferStep, ReadMode, EnqueueTransfer,
     LogTransfer, AnswerTransfer, At, storeVars
<1> QED
  BY <1>1, QuietStep DEF LiveInv

LEMMA LiveNext ==
  MaxAborts = 0 /\ LiveInv /\ [Next]_vars => LiveSessionHasToken'
<1> SUFFICES ASSUME MaxAborts = 0, LiveInv, [Next]_vars PROVE LiveSessionHasToken'
  OBVIOUS
<1>1. ASSUME NEW r \in Threads, Serve(r) \/ Receive(r) PROVE LiveSessionHasToken'
  <2>1. \A q \in Threads \ {r} : call'[q] = call[q]
    BY <1>1, OneThreadMoves DEF LiveInv
  <2> QED
    BY <1>1, <2>1, CreateSessionLeavesLive, StoreTokenLeavesLive, RotateLeavesLive,
       RevokeTokensLeavesLive, KillSessionLeavesLive, OthersLeaveLive
    DEF Serve, TransferStep
<1>2. ASSUME NEW r \in Threads PROVE ~Abort(r)
  BY DEF Abort, LiveInv, ServiceInv, ServiceTypeOK
<1>3. CASE UNCHANGED vars
  BY <1>3 DEF vars, storeVars, LiveInv, LiveSessionHasToken, IsSessionActive, At
<1> QED
  BY <1>1, <1>2, <1>3 DEF Next

(* While no request is cut off, a session that lives and was given tokens   *)
(* has an active one, or the request that revokes it is under way: no       *)
(* rotation, logout or incident reaches the tokens of another session.      *)
THEOREM LiveSessionsHaveTokens ==
  ASSUME MaxAborts = 0 PROVE Spec => []LiveSessionHasToken
<1>1. Init => LiveSessionHasToken
  BY DEF Init, StoreInit, LiveSessionHasToken, IsSessionActive, NoSessionRow
<1>2. LiveInv /\ [Next]_vars => LiveSessionHasToken'
  BY LiveNext
<1> QED
  BY <1>1, <1>2, ServiceInvariant, PTL DEF Spec, LiveInv

-------------------------------------------------------------------------------
(* The refinement of SessionLife.  It needs the whole of ServiceInv:        *)
(* LoginsFit makes a stored token a grant, TokenChain a rotation the end of *)
(* the one current token, and CallsFit a revocation the closing of a        *)
(* session that was stripped.                                               *)
LEMMA LifeIs ==
  ASSUME NEW s \in SessionIds
  PROVE  Life[s] = [state   |-> sessions[s].state,
                    current |-> TokensOf(s, "active"),
                    spent   |-> TokensOf(s, "revoked")]
BY DEF Life

LEMMA LifeStays ==
  ASSUME \A s \in SessionIds : sessions'[s].state = sessions[s].state,
         \A t \in TokenIds : /\ refreshTokens'[t].session = refreshTokens[t].session
                             /\ refreshTokens'[t].state = refreshTokens[t].state
  PROVE  Life' = Life
<1>1. ASSUME NEW s \in SessionIds, NEW st PROVE TokensOf(s, st)' = TokensOf(s, st)
  BY DEF TokensOf
<1> QED
  BY <1>1 DEF Life

(* A step that is about one session changes one life.                       *)
LEMMA LifeChanges ==
  ASSUME NEW s \in SessionIds, NEW st, NEW cur, NEW sp,
         sessions'[s].state = st,
         TokensOf(s, "active")' = cur, TokensOf(s, "revoked")' = sp,
         \A x \in SessionIds \ {s} : sessions'[x].state = sessions[x].state,
         \A x \in SessionIds \ {s} : TokensOf(x, "active")' = TokensOf(x, "active"),
         \A x \in SessionIds \ {s} : TokensOf(x, "revoked")' = TokensOf(x, "revoked")
  PROVE  Life' = [Life EXCEPT ![s] = [state |-> st, current |-> cur, spent |-> sp]]
BY DEF Life

LEMMA InitLives == Init => Lives!Init
<1> SUFFICES ASSUME Init PROVE Lives!Init
  OBVIOUS
<1>1. ASSUME NEW s \in SessionIds, NEW st \in {"active", "revoked"}
      PROVE  sessions[s].state = "absent" /\ TokensOf(s, st) = {}
  BY <1>1 DEF Init, StoreInit, NoSessionRow, NoTokenRow, TokensOf
<1> QED
  BY <1>1 DEF Lives!Init, Life

LEMMA CreateSessionOpens ==
  ASSUME ServiceInv, NEW r \in Threads, LoginCreateSession(r)
  PROVE  Lives!Next
<1> DEFINE n == lastSession + 1
<1>1. /\ sessions' = [sessions EXCEPT ![n] =
           [state |-> "active", mode |-> call[r].mode, reason |-> "none"]]
      /\ refreshTokens' = refreshTokens
      /\ n \in SessionIds
      /\ ~(n <= lastSession)
      /\ sessions \in [SessionIds -> SessionRow]
  BY StoreAssumption
  DEF LoginCreateSession, CreateSession, SessionIds, ServiceInv, ServiceTypeOK
<1> HIDE DEF n
<1>2. PICK s \in SessionIds : s = n
  BY <1>1
<1>3. sessions[s].state = "absent"
  BY <1>1, <1>2 DEF ServiceInv, TokensFit
<1>4. \A x \in SessionIds, st \in States : TokensOf(x, st)' = TokensOf(x, st)
  BY <1>1 DEF TokensOf
<1>5. Life' = [Life EXCEPT ![s] = [state   |-> "active",
                                   current |-> TokensOf(s, "active"),
                                   spent   |-> TokensOf(s, "revoked")]]
  BY <1>1, <1>2, <1>4, LifeChanges DEF States
<1>6. Lives!Open(s)
  BY <1>3, <1>5, LifeIs DEF Lives!Open, Life
<1> QED
  BY <1>6 DEF Lives!Next

(* An id that was not inserted yet belongs to no session.                   *)
LEMMA NewTokenIsFresh ==
  ASSUME ServiceInv, NEW t \in TokenIds, t > lastToken
  PROVE  /\ Lives!Fresh(t)
         /\ \A x \in SessionIds, st \in States : t \notin TokensOf(x, st)
<1>1. refreshTokens[t].session = 0
  BY DEF ServiceInv, TokensFit, NoSession
<1>2. \A x \in SessionIds, st \in States : t \notin TokensOf(x, st)
  BY <1>1, StoreAssumption DEF SessionIds, TokensOf
<1>3. \A x \in SessionIds :
        t \notin TokensOf(x, "active") /\ t \notin TokensOf(x, "revoked")
  BY <1>2 DEF States
<1>4. \A x \in SessionIds :
        /\ Life[x].current = TokensOf(x, "active")
        /\ Life[x].spent = TokensOf(x, "revoked")
  BY DEF Life
<1>5. Lives!Fresh(t)
  <2> SUFFICES ASSUME NEW x \in SessionIds PROVE t \notin Life[x].current \cup Life[x].spent
    BY DEF Lives!Fresh
  <2> QED
    BY <1>3, <1>4
<1> QED
  BY <1>2, <1>5

LEMMA StoreTokenGrants ==
  ASSUME ServiceInv, NEW r \in Threads, StoreToken(r)
  PROVE  Lives!Next
<1> DEFINE n == lastToken + 1
<1>1. /\ refreshTokens' = [refreshTokens EXCEPT
           ![n] = NewToken(call[r].session, call[r].context, NoToken)]
      /\ sessions' = sessions
      /\ n \in TokenIds
      /\ n > lastToken
      /\ refreshTokens \in [TokenIds -> TokenRow]
  BY StoreAssumption
  DEF StoreToken, StoreRefreshToken, TokenIds, ServiceInv, ServiceTypeOK
<1>2. /\ call[r].session \in SessionIds
      /\ sessions[call[r].session].state = "active"
      /\ \A u \in TokenIds : refreshTokens[u].session # call[r].session
  <2>1. call[r].pc \in Opening
    BY DEF StoreToken, At, Opening
  <2> QED
    BY <2>1, StoreAssumption DEF ServiceInv, ServiceTypeOK, LoginsFit, SessionIds
<1> HIDE DEF n
<1>3. PICK s \in SessionIds : s = call[r].session
  BY <1>2
<1>4. PICK t \in TokenIds : t = n
  BY <1>1
<1>5. Lives!Fresh(t) /\ \A x \in SessionIds, st \in States : t \notin TokensOf(x, st)
  BY <1>1, <1>4, NewTokenIsFresh
<1>6. TokensOf(s, "active") = {} /\ TokensOf(s, "revoked") = {}
  BY <1>2, <1>3 DEF TokensOf
<1>7. /\ refreshTokens'[t].session = s
      /\ refreshTokens'[t].state = "active"
      /\ \A u \in TokenIds \ {t} : refreshTokens'[u] = refreshTokens[u]
  BY <1>1, <1>3, <1>4 DEF NewToken
<1>8. TokensOf(s, "active")' = {t} /\ TokensOf(s, "revoked")' = {}
  BY <1>6, <1>7 DEF TokensOf
<1>9. \A x \in SessionIds \ {s}, st \in States : TokensOf(x, st)' = TokensOf(x, st)
  BY <1>5, <1>7 DEF TokensOf
<1>10. sessions'[s].state = "active"
  BY <1>1, <1>2, <1>3
<1>11. Life' = [Life EXCEPT ![s] = [state |-> "active", current |-> {t}, spent |-> {}]]
  BY <1>1, <1>8, <1>9, <1>10, LifeChanges DEF States
<1>12. Life[s] = [state |-> "active", current |-> {}, spent |-> {}]
  BY <1>2, <1>3, <1>6, LifeIs
<1>13. Lives!Grant(s, t)
  BY <1>5, <1>11, <1>12 DEF Lives!Grant, Life
<1> QED
  BY <1>13 DEF Lives!Next

(* The tokens of a session that are active are one.                         *)
LEMMA OneActive ==
  ASSUME ServiceInv, NEW s \in SessionIds, NEW t \in TokensOf(s, "active")
  PROVE  TokensOf(s, "active") = {t} /\ sessions[s].state = "active"
BY DEF ServiceInv, TokenChain, RevokedMeansDead, IsSessionActive, TokensOf

LEMMA RotateRotates ==
  ASSUME ServiceInv, NEW r \in Threads, Rotate(r), RotateRefreshToken(call[r].token)
  PROVE  Lives!Next
<1> DEFINE n == lastToken + 1
           old == call[r].token
<1>1. /\ refreshTokens' = [refreshTokens EXCEPT
           ![old].state = "revoked",
           ![n] = NewToken(refreshTokens[old].session, refreshTokens[old].context, old)]
      /\ sessions' = sessions
      /\ n \in TokenIds
      /\ n > lastToken
      /\ refreshTokens[old].state = "active"
      /\ refreshTokens \in [TokenIds -> TokenRow]
  BY StoreAssumption
  DEF RotateRefreshToken, IsRefreshTokenActive, TokenIds, ServiceInv, ServiceTypeOK
<1>2. old \in 1..lastToken /\ refreshTokens[old].session \in SessionIds
  <2>1. call[r].pc \in Presented
    BY DEF Rotate, At, Presented
  <2>2. old \in 1..lastToken
    BY <2>1 DEF ServiceInv, CallsFit
  <2> QED
    BY <2>2, StoreAssumption DEF ServiceInv, ServiceTypeOK, TokensFit, TokenIds, SessionIds
<1>3. old # n /\ old \in TokenIds
  BY <1>1, <1>2, StoreAssumption DEF TokenIds, ServiceInv, ServiceTypeOK
<1> HIDE DEF n, old
<1>4. PICK s \in SessionIds : s = refreshTokens[old].session
  BY <1>2
<1>5. PICK t \in TokenIds : t = old
  BY <1>3
<1>6. PICK u \in TokenIds : u = n
  BY <1>1
<1>7. Lives!Fresh(u) /\ \A x \in SessionIds, st \in States : u \notin TokensOf(x, st)
  BY <1>1, <1>6, NewTokenIsFresh
<1>8. TokensOf(s, "active") = {t} /\ sessions[s].state = "active"
  <2>1. t \in TokensOf(s, "active")
    BY <1>1, <1>4, <1>5 DEF TokensOf
  <2> QED
    BY <2>1, OneActive
<1>9. /\ refreshTokens'[u].session = s
      /\ refreshTokens'[u].state = "active"
      /\ refreshTokens'[t].session = s
      /\ refreshTokens'[t].state = "revoked"
      /\ \A v \in TokenIds \ {t, u} : refreshTokens'[v] = refreshTokens[v]
  BY <1>1, <1>3, <1>4, <1>5, <1>6 DEF NewToken, TokenRow
<1>10. refreshTokens[t].session = s /\ t # u
  BY <1>3, <1>4, <1>5, <1>6
<1>11. TokensOf(s, "active")' = {u}
  BY <1>8, <1>9, <1>10 DEF TokensOf
<1>12. TokensOf(s, "revoked")' = TokensOf(s, "revoked") \cup {t}
  <2>1. u \notin TokensOf(s, "revoked")
    BY <1>7 DEF States
  <2> QED
    BY <1>9, <1>10, <2>1 DEF TokensOf
<1>13. \A x \in SessionIds \ {s}, st \in States : TokensOf(x, st)' = TokensOf(x, st)
  BY <1>7, <1>9, <1>10 DEF TokensOf
<1>14. Life' = [Life EXCEPT ![s] = [state   |-> "active",
                                    current |-> {u},
                                    spent   |-> TokensOf(s, "revoked") \cup {t}]]
  BY <1>1, <1>8, <1>11, <1>12, <1>13, LifeChanges DEF States
<1>15. Life[s] = [state |-> "active", current |-> {t}, spent |-> TokensOf(s, "revoked")]
  BY <1>8, LifeIs
<1>16. Lives!Rotate(s, t, u)
  BY <1>7, <1>14, <1>15 DEF Lives!Rotate, Life
<1> QED
  BY <1>16 DEF Lives!Next

LEMMA RevokeTokensStrips ==
  ASSUME ServiceInv, NEW r \in Threads, RevokeTokens(r)
  PROVE  Lives!Next \/ UNCHANGED Life
<1>1. /\ refreshTokens \in [TokenIds -> TokenRow]
      /\ sessions' = sessions
      /\ refreshTokens' = [t \in TokenIds |->
           IF refreshTokens[t].session = call[r].session /\ refreshTokens[t].state = "active"
             THEN [refreshTokens[t] EXCEPT !.state = "revoked"]
             ELSE refreshTokens[t]]
  BY DEF RevokeTokens, RevokeAllRefreshForSession, ServiceInv, ServiceTypeOK
<1>2. call[r].session \in SessionIds
  <2>1. call[r].pc \in Presented
    BY DEF RevokeTokens, At, Presented
  <2> QED
    BY <2>1, StoreAssumption
    DEF ServiceInv, ServiceTypeOK, CallsFit, TokensFit, TokenIds, SessionIds
<1>3. PICK s \in SessionIds : s = call[r].session
  BY <1>2
<1>4. \A t \in TokenIds :
        /\ refreshTokens'[t].session = refreshTokens[t].session
        /\ refreshTokens'[t].state =
             IF t \in TokensOf(s, "active") THEN "revoked" ELSE refreshTokens[t].state
  BY <1>1, <1>3 DEF TokenRow, TokensOf
<1>5. CASE TokensOf(s, "active") = {}
  BY <1>1, <1>4, <1>5, LifeStays
<1>6. ASSUME NEW t \in TokensOf(s, "active") PROVE Lives!Next
  <2>1. TokensOf(s, "active") = {t} /\ sessions[s].state = "active" /\ t \in TokenIds
    BY OneActive DEF TokensOf
  <2>2. TokensOf(s, "active")' = {}
    BY <1>4 DEF TokensOf
  <2>3. TokensOf(s, "revoked")' = TokensOf(s, "revoked") \cup {t}
    BY <1>4, <2>1 DEF TokensOf
  <2>4. \A x \in SessionIds \ {s}, st \in States : TokensOf(x, st)' = TokensOf(x, st)
    BY <1>4 DEF TokensOf
  <2>5. Life' = [Life EXCEPT ![s] = [state   |-> "active",
                                     current |-> {},
                                     spent   |-> TokensOf(s, "revoked") \cup {t}]]
    BY <1>1, <2>1, <2>2, <2>3, <2>4, LifeChanges DEF States
  <2>6. Life[s] = [state |-> "active", current |-> {t}, spent |-> TokensOf(s, "revoked")]
    BY <2>1, LifeIs
  <2>7. Lives!Strip(s)
    BY <2>1, <2>5, <2>6 DEF Lives!Strip, Life
  <2> QED
    BY <2>7 DEF Lives!Next
<1> QED
  BY <1>5, <1>6

LEMMA KillSessionCloses ==
  ASSUME ServiceInv, NEW r \in Threads, KillSession(r)
  PROVE  Lives!Next \/ UNCHANGED Life
<1>1. /\ sessions \in [SessionIds -> SessionRow]
      /\ refreshTokens \in [TokenIds -> TokenRow]
      /\ refreshTokens' = refreshTokens
      /\ sessions' = [sessions EXCEPT ![call[r].session].state = "revoked",
                                      ![call[r].session].reason = call[r].reason]
  BY DEF KillSession, RevokeSession, ServiceInv, ServiceTypeOK
<1>2. call[r].pc \in Presented /\ call[r].pc = "revokeSession"
  BY DEF KillSession, At, Presented
<1>3. /\ call[r].token \in 1..lastToken
      /\ refreshTokens[call[r].token].session = call[r].session
      /\ call[r].session \in 1..lastSession
  BY <1>2, StoreAssumption DEF ServiceInv, ServiceTypeOK, CallsFit, TokensFit, TokenIds
<1>4. call[r].token \in TokenIds /\ call[r].session \in SessionIds
  BY <1>3, StoreAssumption DEF ServiceInv, ServiceTypeOK, TokenIds, SessionIds
<1>5. PICK s \in SessionIds : s = call[r].session
  BY <1>4
<1>6. TokensOf(s, "active") = {}
  BY <1>2, <1>5 DEF ServiceInv, CallsFit, TokensOf
<1>7. call[r].token \in TokensOf(s, "revoked")
  <2>1. refreshTokens[call[r].token].state # "absent"
    BY <1>3, <1>4, StoreAssumption DEF ServiceInv, ServiceTypeOK, TokensFit
  <2>2. refreshTokens[call[r].token].state # "active"
    BY <1>3, <1>4, <1>5, <1>6 DEF TokensOf
  <2>3. refreshTokens[call[r].token].state \in States
    BY <1>1, <1>4 DEF TokenRow
  <2> QED
    BY <1>3, <1>4, <1>5, <2>1, <2>2, <2>3 DEF TokensOf, States
<1>8. \A x \in SessionIds, st \in States : TokensOf(x, st)' = TokensOf(x, st)
  BY <1>1 DEF TokensOf
<1>9. /\ sessions'[s].state = "revoked"
      /\ \A x \in SessionIds \ {s} : sessions'[x].state = sessions[x].state
  BY <1>1, <1>5 DEF SessionRow
<1>10. sessions[s].state \in {"active", "revoked"}
  BY <1>1, <1>3, <1>5 DEF ServiceInv, ServiceTypeOK, TokensFit, SessionRow, States
<1>11. CASE sessions[s].state = "revoked"
  BY <1>1, <1>9, <1>11, LifeStays
<1>12. CASE sessions[s].state = "active"
  <2>1. Life' = [Life EXCEPT ![s] = [state   |-> "revoked",
                                     current |-> {},
                                     spent   |-> TokensOf(s, "revoked")]]
    BY <1>6, <1>8, <1>9, LifeChanges DEF States
  <2>2. Life[s] = [state |-> "active", current |-> {}, spent |-> TokensOf(s, "revoked")]
    BY <1>6, <1>12, LifeIs
  <2>3. Lives!Close(s)
    BY <1>7, <2>1, <2>2 DEF Lives!Close, Life
  <2> QED
    BY <2>3 DEF Lives!Next
<1> QED
  BY <1>10, <1>11, <1>12

LEMMA OthersLeaveLife ==
  ASSUME NEW r \in Threads,
         \/ Receive(r) \/ Abort(r)
         \/ LogLogin(r) \/ ActivateDuressMode(r) \/ EnqueueLogin(r) \/ Reply(r)
         \/ CheckSession(r) \/ CheckFingerprint(r) \/ CheckActive(r)
         \/ LogRotated(r) \/ CheckKnown(r) \/ LogInvalid(r) \/ LogLogout(r)
         \/ LogDenied(r) \/ LogIncident(r) \/ EnqueueIncident(r) \/ TransferStep(r)
  PROVE  UNCHANGED Life
<1>1. UNCHANGED <<sessions, refreshTokens>>
  BY DEF Receive, StartLogin, StartRefresh, StartLogout, StartTransfer, Abort, LogLogin,
     ActivateDuressMode, EnqueueLogin, Reply, CheckSession, CheckFingerprint,
     CheckActive, LogRotated, CheckKnown, LogInvalid, LogLogout, LogDenied,
     LogIncident, EnqueueIncident, TransferStep, ReadMode, EnqueueTransfer,
     LogTransfer, AnswerTransfer, storeVars
<1> QED
  BY <1>1, LifeStays

LEMMA RotateMaps ==
  ASSUME ServiceInv, NEW r \in Threads, Rotate(r)
  PROVE  Lives!Next \/ UNCHANGED Life
<1>1. CASE RotateRefreshToken(call[r].token)
  BY <1>1, RotateRotates
<1>2. CASE UNCHANGED storeVars
  BY <1>2, LifeStays DEF storeVars
<1> QED
  BY <1>1, <1>2 DEF Rotate

LEMMA LifeNext == ServiceInv /\ [Next]_vars => [Lives!Next]_Life
<1> SUFFICES ASSUME ServiceInv, [Next]_vars PROVE Lives!Next \/ UNCHANGED Life
  OBVIOUS
<1>1. ASSUME NEW r \in Threads, Serve(r) \/ Receive(r) \/ Abort(r)
      PROVE  Lives!Next \/ UNCHANGED Life
  BY <1>1, CreateSessionOpens, StoreTokenGrants, RotateMaps, RevokeTokensStrips,
     KillSessionCloses, OthersLeaveLife
  DEF Serve, TransferStep
<1>2. CASE UNCHANGED vars
  BY <1>2, LifeStays DEF vars, storeVars
<1> QED
  BY <1>1, <1>2 DEF Next

(* However requests interleave and wherever they are cut off, a session is  *)
(* granted one chain of tokens that no other session shares, stripping it   *)
(* is final, and it is closed only after that.                              *)
THEOREM RequestsImplementSessionLife == Spec => ImplementsSessionLife
BY InitLives, LifeNext, ServiceInvariant, PTL DEF Spec, ImplementsSessionLife, Lives!Spec

-------------------------------------------------------------------------------
(* Requests are served one after the other.                                 *)
OneAtATime == \A r, q \in Threads : r = q

(* Then a token found active is active when it is rotated, and whoever is   *)
(* turned away presented a token of a dead session.                         *)
CallDetects(r) ==
  /\ call[r].pc = "rotate" => IsRefreshTokenActive(call[r].token)
  /\ call[r].pc = "logInvalid" => ~IsSessionActive(call[r].session)

ReuseInv ==
  /\ \A r \in Threads : CallDetects(r)
  /\ \A t \in turnedAway : /\ t \in 1..lastToken
                           /\ ~IsSessionActive(refreshTokens[t].session)

(* A session that exists and is not active never is again.                  *)
LEMMA DeadStays ==
  ASSUME ServiceInv, NEW r \in Threads, Serve(r) \/ Receive(r) \/ Abort(r),
         NEW s \in 1..lastSession, ~IsSessionActive(s)
  PROVE  ~IsSessionActive(s)'
<1>1. /\ s \in SessionIds /\ s # lastSession + 1
      /\ sessions \in [SessionIds -> SessionRow]
  BY StoreAssumption DEF ServiceInv, ServiceTypeOK, SessionIds
<1>2. CASE LoginCreateSession(r)
  BY <1>1, <1>2 DEF LoginCreateSession, CreateSession, IsSessionActive
<1>3. CASE KillSession(r)
  BY <1>1, <1>3 DEF KillSession, RevokeSession, IsSessionActive, SessionRow
<1>4. CASE sessions' = sessions
  BY <1>4 DEF IsSessionActive
<1>5. CASE \/ LogLogin(r) \/ StoreToken(r) \/ ActivateDuressMode(r)
           \/ EnqueueLogin(r) \/ Reply(r) \/ CheckSession(r) \/ CheckFingerprint(r)
           \/ CheckActive(r) \/ Rotate(r) \/ LogRotated(r) \/ CheckKnown(r)
           \/ LogInvalid(r) \/ RevokeTokens(r)
  BY <1>4, <1>5
  DEF LogLogin, StoreToken, StoreRefreshToken, ActivateDuressMode, EnqueueLogin,
      Reply, CheckSession, CheckFingerprint, CheckActive, Rotate, RotateRefreshToken,
      LogRotated, CheckKnown, LogInvalid, RevokeTokens, RevokeAllRefreshForSession,
      storeVars
<1>6. CASE \/ LogLogout(r) \/ LogDenied(r) \/ LogIncident(r) \/ EnqueueIncident(r)
           \/ TransferStep(r) \/ Receive(r) \/ Abort(r)
  BY <1>4, <1>6, TransferLeavesTables
  DEF LogLogout, LogDenied, LogIncident, EnqueueIncident, Receive, StartLogin,
      StartRefresh, StartLogout, StartTransfer, Abort, storeVars
<1> QED
  BY <1>2, <1>3, <1>5, <1>6 DEF Serve, TransferStep

(* The steps that lead to a rotation or to a refusal know what they need.   *)
LEMMA DetectsKeeps ==
  ASSUME ServiceInv, ReuseInv, NEW r \in Threads, Serve(r) \/ Receive(r) \/ Abort(r)
  PROVE  CallDetects(r)'
<1>1. call \in [Threads -> Call] /\ call[r] \in Call /\ CallDetects(r)
  BY DEF ServiceInv, ServiceTypeOK, ReuseInv
<1>2. CASE CheckSession(r)
  BY <1>1, <1>2 DEF CheckSession, Goto, Call, CallDetects, IsSessionActive, storeVars
<1>3. CASE CheckActive(r)
  BY <1>1, <1>3 DEF CheckActive, Goto, Call, CallDetects, IsRefreshTokenActive, storeVars
<1>4. CASE Rotate(r)
  <2>1. IsRefreshTokenActive(call[r].token)
    BY <1>1, <1>4 DEF Rotate, At, CallDetects
  <2>2. call'[r].pc = "logRotated"
    BY <1>1, <1>4, <2>1 DEF Rotate, Call
  <2> QED
    BY <2>2 DEF CallDetects
<1>5. CASE CheckKnown(r)
  <2>1. call[r].token \in 1..lastToken
    BY <1>5 DEF CheckKnown, At, ServiceInv, CallsFit, Presented
  <2>2. IsRefreshTokenKnown(call[r].token)
    BY <2>1, StoreAssumption
    DEF IsRefreshTokenKnown, ServiceInv, ServiceTypeOK, TokensFit, TokenIds
  <2>3. call'[r].pc = "revokeTokens"
    BY <1>1, <1>5, <2>2 DEF CheckKnown, Call
  <2> QED
    BY <2>3 DEF CallDetects
<1>6. CASE \/ LoginCreateSession(r) \/ LogLogin(r) \/ StoreToken(r)
           \/ ActivateDuressMode(r) \/ EnqueueLogin(r) \/ Reply(r)
           \/ CheckFingerprint(r) \/ LogRotated(r) \/ LogInvalid(r)
  BY <1>1, <1>6
  DEF LoginCreateSession, LogLogin, StoreToken, ActivateDuressMode, EnqueueLogin,
      Reply, CheckFingerprint, LogRotated, LogInvalid, Goto, Return, Idle, Call,
      CallDetects
<1>7. CASE \/ RevokeTokens(r) \/ KillSession(r) \/ LogLogout(r) \/ LogDenied(r)
           \/ LogIncident(r) \/ EnqueueIncident(r) \/ Abort(r)
  BY <1>1, <1>7
  DEF RevokeTokens, KillSession, LogLogout, LogDenied, LogIncident, EnqueueIncident,
      Abort, Goto, Return, Idle, Call, CallDetects
<1>8. CASE TransferStep(r)
  BY <1>1, <1>8
  DEF TransferStep, ReadMode, EnqueueTransfer, LogTransfer, AnswerTransfer, Goto,
      Return, Idle, Call, CallDetects
<1>9. CASE Receive(r)
  BY <1>1, <1>9
  DEF Receive, StartLogin, StartRefresh, StartLogout, StartTransfer, Idle, CallDetects
<1> QED
  BY <1>2, <1>3, <1>4, <1>5, <1>6, <1>7, <1>8, <1>9 DEF Serve, TransferStep

(* Only LogInvalid turns a token away.                                      *)
LEMMA WhoIsTurnedAway ==
  ASSUME ServiceInv, ReuseInv, NEW r \in Threads, Serve(r) \/ Receive(r) \/ Abort(r),
         NEW t \in turnedAway'
  PROVE  t \in 1..lastToken /\ ~IsSessionActive(refreshTokens[t].session)
<1>1. CASE t \in turnedAway
  BY <1>1 DEF ReuseInv
<1>2. CASE t \notin turnedAway
  <2>1. LogInvalid(r) /\ t = call[r].token
    BY <1>2
    DEF Serve, LoginCreateSession, LogLogin, StoreToken, ActivateDuressMode,
        EnqueueLogin, Reply, CheckSession, CheckFingerprint, CheckActive, Rotate,
        LogRotated, CheckKnown, LogInvalid, RevokeTokens, KillSession, LogDenied,
        LogIncident, EnqueueIncident, LogLogout, ReadMode, EnqueueTransfer,
        LogTransfer, AnswerTransfer, Receive, StartLogin, StartRefresh, StartLogout,
        StartTransfer, Abort
  <2>2. call[r].pc = "logInvalid"
    BY <2>1 DEF LogInvalid, At
  <2>3. t \in 1..lastToken /\ refreshTokens[t].session = call[r].session
    BY <2>1, <2>2 DEF ServiceInv, CallsFit, Presented
  <2> QED
    BY <2>2, <2>3 DEF ReuseInv, CallDetects
<1> QED
  BY <1>1, <1>2

LEMMA ReuseNext ==
  OneAtATime /\ ServiceInv /\ ReuseInv /\ [Next]_vars => ReuseInv'
<1> SUFFICES ASSUME OneAtATime, ServiceInv, ReuseInv, [Next]_vars PROVE ReuseInv'
  OBVIOUS
<1>1. CASE Next
  <2>1. PICK r \in Threads : Serve(r) \/ Receive(r) \/ Abort(r)
    BY <1>1 DEF Next
  <2>2. Grows /\ ServiceInv'
    BY <1>1, NextGrows, NextInv
  <2>3. \A q \in Threads : CallDetects(q)'
    BY <2>1, DetectsKeeps DEF OneAtATime
  <2>4. ASSUME NEW t \in turnedAway'
        PROVE  t \in 1..lastToken' /\ ~IsSessionActive(refreshTokens[t].session)'
    <3>1. t \in 1..lastToken /\ ~IsSessionActive(refreshTokens[t].session)
      BY <2>1, WhoIsTurnedAway
    <3>2. /\ refreshTokens'[t].session = refreshTokens[t].session
          /\ refreshTokens[t].session \in 1..lastSession
      BY <2>2, <3>1, StoreAssumption
      DEF Grows, ServiceInv, ServiceTypeOK, TokensFit, TokenIds
    <3>3. sessions'[refreshTokens'[t].session].state # "active"
      <4>1. PICK s \in 1..lastSession : s = refreshTokens[t].session
        BY <3>2
      <4>2. ~IsSessionActive(s)'
        BY <2>1, <3>1, <4>1, DeadStays
      <4> QED
        BY <3>2, <4>1, <4>2 DEF IsSessionActive
    <3>4. t \in 1..lastToken'
      <4>1. /\ t \in TokenIds /\ t \in Nat /\ t >= 1
            /\ lastToken' \in Nat
        BY <2>2, <3>1, StoreAssumption DEF ServiceInv, ServiceTypeOK, TokenIds
      <4>2. refreshTokens'[t].session # NoSession
        BY <3>2, StoreAssumption DEF NoSession, ServiceInv, ServiceTypeOK
      <4>3. ~(t > lastToken')
        BY <2>2, <4>1, <4>2 DEF ServiceInv, TokensFit
      <4> QED
        BY <4>1, <4>3
    <3> QED
      BY <3>3, <3>4 DEF IsSessionActive
  <2> QED
    BY <2>3, <2>4 DEF ReuseInv
<1>2. CASE UNCHANGED vars
  BY <1>2 DEF vars, storeVars, ReuseInv, CallDetects, IsSessionActive, IsRefreshTokenActive
<1> QED
  BY <1>1, <1>2

(* Served one after the other, no refresh with a token of a live session is *)
(* ever turned away as invalid: it rotates the token, or it is an incident  *)
(* and revokes the session.                                                 *)
THEOREM SerialReuseIsDetected == ASSUME OneAtATime PROVE Spec => []ReuseKillsSession
<1>1. Init => ReuseInv
  BY DEF Init, Idle, ReuseInv, CallDetects
<1>2. ReuseInv => ReuseKillsSession
  BY DEF ReuseInv, ReuseKillsSession
<1>3. ServiceInv /\ ReuseInv /\ [Next]_vars => ReuseInv'
  BY ReuseNext
<1> QED
  BY <1>1, <1>2, <1>3, ServiceInvariant, PTL DEF Spec
===============================================================================
