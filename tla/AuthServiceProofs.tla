--------------------------- MODULE AuthServiceProofs ---------------------------
(***************************************************************************)
(* Proofs about AuthService: the token invariants hold for any number of   *)
(* request threads, sessions, tokens, contexts and aborted requests.       *)
(*                                                                         *)
(* RevokedMeansDead is the heart: a session is revoked in a transaction of *)
(* its own, and what keeps a new token from appearing between the two      *)
(* revocations is (a) that a rotation needs an active token of the session *)
(* (TokensFit), (b) that a login stores its token in a session nobody can  *)
(* present a token of yet (LoginsFit), and (c) that the thread about to    *)
(* revoke the session has revoked its tokens (CallsFit).                   *)
(***************************************************************************)
EXTENDS AuthService, TLAPS

(* Where a thread holds a session of its own login without a token yet ...  *)
Opening == {"logLogin", "storeToken"}
(* ... where it holds a token a client presented ...                        *)
Presented == {"checkSession", "checkFingerprint", "checkActive", "rotate",
              "logRotated", "checkKnown", "logInvalid", "revokeTokens",
              "revokeSession", "logLogout", "logDenied", "logIncident",
              "enqueueIncident"}
(* ... and where it holds a token it minted.                                *)
Minted == {"activateDuress", "enqueueLogin", "logRotated", "reply"}
(* A transfer holds the session of the access token it came with.           *)
Transferring == {"readMode", "enqueueTransfer", "logTransfer", "answerTransfer"}

(* Rows up to the counters exist, the others do not; a token belongs to an  *)
(* existing session, and its parent, of the same session, is revoked.       *)
TokensFit ==
  /\ \A s \in SessionIds : sessions[s].state # "absent" <=> s <= lastSession
  /\ \A t \in TokenIds :
       /\ refreshTokens[t].state # "absent" <=> t <= lastToken
       /\ t <= lastToken => refreshTokens[t].session \in 1..lastSession
       /\ t > lastToken => /\ refreshTokens[t].parent = NoToken
                           /\ refreshTokens[t].session = NoSession
       /\ refreshTokens[t].parent # NoToken =>
            /\ refreshTokens[refreshTokens[t].parent].state = "revoked"
            /\ refreshTokens[refreshTokens[t].parent].session
                 = refreshTokens[t].session

(* A login between its two inserts has a live session of its own mode that  *)
(* no token and no other login has.                                         *)
LoginsFit ==
  \A r \in Threads : call[r].pc \in Opening =>
    /\ call[r].session \in 1..lastSession
    /\ sessions[call[r].session].state = "active"
    /\ \A t \in TokenIds : refreshTokens[t].session # call[r].session
    /\ \A q \in Threads : q # r /\ call[q].pc \in Opening
                            => call[q].session # call[r].session

(* A presented token was stored and tells the session; a thread that is     *)
(* about to revoke a session has revoked its tokens.                        *)
CallsFit ==
  \A r \in Threads :
    /\ call[r].pc \in Presented =>
         /\ call[r].token \in 1..lastToken
         /\ call[r].session = refreshTokens[call[r].token].session
    /\ call[r].pc = "revokeSession" =>
         \A t \in TokenIds : refreshTokens[t].state = "active"
           => refreshTokens[t].session # call[r].session
    /\ call[r].pc \in Minted => call[r].minted \in 1..lastToken
    /\ call[r].pc \in Transferring => call[r].session \in 1..lastSession

ServiceInv ==
  /\ ServiceTypeOK
  /\ TokensFit
  /\ LoginsFit
  /\ CallsFit
  /\ TokenChain
  /\ RevokedMeansDead
  /\ delivered \subseteq 1..lastToken

-------------------------------------------------------------------------------
(* The tables start empty and the threads idle.                             *)
LEMMA InitInv == Init => ServiceInv
<1> SUFFICES ASSUME Init PROVE ServiceInv
  OBVIOUS
<1> USE StoreAssumption, ServiceAssumption
    DEF Init, StoreInit, NoSessionRow, NoTokenRow, Idle, SessionIds, TokenIds,
        NoSession, NoToken
<1>1. ServiceTypeOK
  <2>1. NoSessionRow \in SessionRow /\ NoTokenRow \in TokenRow /\ Idle \in Call
    BY DEF SessionRow, TokenRow, Call, States, Labels
  <2> QED
    BY <2>1 DEF ServiceTypeOK
<1>2. TokensFit /\ TokenChain /\ RevokedMeansDead
  BY DEF TokensFit, TokenChain, RevokedMeansDead
<1>3. LoginsFit /\ CallsFit
  BY DEF LoginsFit, CallsFit, Opening, Presented, Minted, Transferring
<1> QED
  BY <1>1, <1>2, <1>3 DEF ServiceInv

(* A step of one thread that touches no table keeps ServiceInv if what the  *)
(* thread holds afterwards fits.                                            *)
LEMMA LocalStep ==
  ASSUME ServiceInv, NEW r \in Threads, NEW c \in Call,
         call' = [call EXCEPT ![r] = c],
         UNCHANGED <<sessions, lastSession, refreshTokens, lastToken>>,
         delivered' \subseteq 1..lastToken, aborts' \in 0..MaxAborts,
         c.pc \in Opening => /\ call[r].pc \in Opening
                             /\ c.session = call[r].session,
         c.pc \in Presented => /\ c.token \in 1..lastToken
                               /\ c.session = refreshTokens[c.token].session,
         c.pc # "revokeSession",
         c.pc \in Minted => c.minted \in 1..lastToken,
         c.pc \in Transferring => c.session \in 1..lastSession
  PROVE  ServiceInv'
<1> USE DEF ServiceInv
<1>1. /\ call'[r] = c
      /\ \A q \in Threads : q # r => call'[q] = call[q]
  BY DEF ServiceTypeOK
<1>2. ServiceTypeOK'
  <2>1. 1..lastToken \subseteq TokenIds
    BY StoreAssumption DEF ServiceTypeOK, TokenIds
  <2> QED
    BY <2>1 DEF ServiceTypeOK
<1>3. TokensFit' /\ TokenChain' /\ RevokedMeansDead'
  BY DEF TokensFit, TokenChain, RevokedMeansDead, IsSessionActive
<1>4. LoginsFit'
  BY <1>1 DEF LoginsFit
<1>5. CallsFit'
  BY <1>1 DEF CallsFit
<1> QED
  BY <1>2, <1>3, <1>4, <1>5

(* Most local steps only move the program counter.                          *)
LEMMA MoveStep ==
  ASSUME ServiceInv, NEW r \in Threads, NEW label \in Labels, Goto(r, label),
         UNCHANGED <<sessions, lastSession, refreshTokens, lastToken>>,
         delivered' = delivered, aborts' = aborts,
         label \in Opening => call[r].pc \in Opening,
         label \in Presented => call[r].pc \in Presented,
         label \in Minted => call[r].pc \in Minted,
         label \in Transferring => call[r].pc \in Transferring,
         label # "revokeSession"
  PROVE  ServiceInv'
<1> DEFINE c == [call[r] EXCEPT !.pc = label]
<1>1. call[r] \in Call
  BY DEF ServiceInv, ServiceTypeOK
<1>2. /\ c \in Call
      /\ c.pc = label
      /\ c.session = call[r].session
      /\ c.token = call[r].token
      /\ c.minted = call[r].minted
  BY <1>1 DEF Call
<1>3. call' = [call EXCEPT ![r] = c]
  BY DEF Goto, ServiceInv, ServiceTypeOK
<1> HIDE DEF c
<1>4. call[r].pc \in Presented =>
        /\ call[r].token \in 1..lastToken
        /\ call[r].session = refreshTokens[call[r].token].session
  BY DEF ServiceInv, CallsFit
<1>5. /\ call[r].pc \in Minted => call[r].minted \in 1..lastToken
      /\ call[r].pc \in Transferring => call[r].session \in 1..lastSession
  BY DEF ServiceInv, CallsFit
<1> QED
  BY <1>2, <1>3, <1>4, <1>5, LocalStep DEF ServiceInv, ServiceTypeOK

(* A thread that is done holds nothing.                                     *)
LEMMA ReturnStep ==
  ASSUME ServiceInv, NEW r \in Threads, Return(r),
         UNCHANGED <<sessions, lastSession, refreshTokens, lastToken>>,
         delivered' \subseteq 1..lastToken, aborts' \in 0..MaxAborts
  PROVE  ServiceInv'
<1>1. /\ Idle \in Call
      /\ Idle.pc = "idle"
  BY DEF Idle, Call, Labels, NoSession, NoToken
<1> QED
  BY <1>1, LocalStep DEF Return, Opening, Presented, Minted, Transferring

-------------------------------------------------------------------------------
LEMMA StartLoginKeeps ==
  ASSUME ServiceInv, NEW r \in Threads, NEW mode \in Modes, NEW x \in Contexts,
         StartLogin(r, mode, x)
  PROVE  ServiceInv'
<1> DEFINE c == [Idle EXCEPT !.pc = "createSession", !.mode = mode, !.context = x]
<1>1. c \in Call /\ c.pc = "createSession"
  BY DEF Idle, Call, Labels, NoSession, NoToken
<1>2. /\ call' = [call EXCEPT ![r] = c]
      /\ UNCHANGED <<sessions, lastSession, refreshTokens, lastToken, delivered, aborts>>
  BY DEF StartLogin, storeVars
<1> HIDE DEF c
<1> QED
  BY <1>1, <1>2, LocalStep
  DEF ServiceInv, ServiceTypeOK, Opening, Presented, Minted, Transferring

(* The session a delivered token opens.                                     *)
LEMMA DeliveredToken ==
  ASSUME ServiceInv, NEW t \in delivered
  PROVE  /\ t \in 1..lastToken
         /\ t \in TokenIds
         /\ refreshTokens[t].session \in 1..lastSession
         /\ refreshTokens[t].session \in SessionIds
<1>1. t \in 1..lastToken /\ t \in TokenIds
  BY DEF ServiceInv, ServiceTypeOK
<1>2. refreshTokens[t].session \in 1..lastSession
  BY <1>1 DEF ServiceInv, TokensFit
<1> QED
  BY <1>1, <1>2, StoreAssumption DEF ServiceInv, ServiceTypeOK, SessionIds

LEMMA StartRefreshKeeps ==
  ASSUME ServiceInv, NEW r \in Threads, NEW t \in TokenIds, NEW x \in Contexts,
         StartRefresh(r, t, x)
  PROVE  ServiceInv'
<1> DEFINE c == [Idle EXCEPT !.pc = "checkSession", !.token = t, !.context = x,
                             !.session = refreshTokens[t].session]
<1>1. t \in delivered
  BY DEF StartRefresh
<1>2. /\ c \in Call
      /\ c.pc = "checkSession"
      /\ c.token = t
      /\ c.session = refreshTokens[t].session
  BY <1>1, DeliveredToken DEF Idle, Call, Labels, NoSession, NoToken
<1>3. /\ call' = [call EXCEPT ![r] = c]
      /\ UNCHANGED <<sessions, lastSession, refreshTokens, lastToken, delivered, aborts>>
  BY DEF StartRefresh, storeVars
<1> HIDE DEF c
<1> QED
  BY <1>1, <1>2, <1>3, DeliveredToken, LocalStep
  DEF ServiceInv, ServiceTypeOK, Opening, Minted, Transferring

LEMMA StartLogoutKeeps ==
  ASSUME ServiceInv, NEW r \in Threads, NEW t \in TokenIds, StartLogout(r, t)
  PROVE  ServiceInv'
<1> DEFINE c == [Idle EXCEPT !.pc = "revokeTokens", !.token = t, !.reason = "logout",
                             !.session = refreshTokens[t].session]
<1>1. t \in delivered
  BY DEF StartLogout
<1>2. /\ c \in Call
      /\ c.pc = "revokeTokens"
      /\ c.token = t
      /\ c.session = refreshTokens[t].session
  BY <1>1, DeliveredToken DEF Idle, Call, Labels, NoSession, NoToken
<1>3. /\ call' = [call EXCEPT ![r] = c]
      /\ UNCHANGED <<sessions, lastSession, refreshTokens, lastToken, delivered, aborts>>
  BY DEF StartLogout, storeVars
<1> HIDE DEF c
<1> QED
  BY <1>1, <1>2, <1>3, DeliveredToken, LocalStep
  DEF ServiceInv, ServiceTypeOK, Opening, Minted, Transferring

(* The two incidents: a thread learns the reason it will revoke with.       *)
LEMMA IncidentStep ==
  ASSUME ServiceInv, NEW r \in Threads, NEW reason \in Incidents,
         call[r].pc \in Presented,
         call' = [call EXCEPT ![r].pc = "revokeTokens", ![r].reason = reason],
         UNCHANGED <<sessions, lastSession, refreshTokens, lastToken, delivered, aborts>>
  PROVE  ServiceInv'
<1> DEFINE c == [call[r] EXCEPT !.pc = "revokeTokens", !.reason = reason]
<1>1. call[r] \in Call
  BY DEF ServiceInv, ServiceTypeOK
<1>2. /\ c \in Call
      /\ c.pc = "revokeTokens"
      /\ c.session = call[r].session
      /\ c.token = call[r].token
  BY <1>1 DEF Call, Labels
<1>3. call' = [call EXCEPT ![r] = c]
  BY DEF ServiceInv, ServiceTypeOK
<1> HIDE DEF c
<1>4. /\ call[r].token \in 1..lastToken
      /\ call[r].session = refreshTokens[call[r].token].session
  BY DEF ServiceInv, CallsFit
<1> QED
  BY <1>2, <1>3, <1>4, LocalStep
  DEF ServiceInv, ServiceTypeOK, Opening, Minted, Transferring

(* The steps of a request that read tables, write records or answer.        *)
LEMMA LocalActionsKeep ==
  ASSUME ServiceInv, NEW r \in Threads,
         \/ LogLogin(r) \/ ActivateDuressMode(r) \/ EnqueueLogin(r) \/ Reply(r)
         \/ CheckSession(r) \/ CheckFingerprint(r) \/ CheckActive(r)
         \/ LogRotated(r) \/ CheckKnown(r) \/ LogInvalid(r) \/ LogLogout(r)
         \/ LogDenied(r) \/ LogIncident(r) \/ EnqueueIncident(r) \/ Abort(r)
  PROVE  ServiceInv'
<1> USE DEF At, storeVars, Labels, Opening, Presented, Minted, Transferring
<1>1. aborts \in 0..MaxAborts /\ delivered \subseteq 1..lastToken
  BY DEF ServiceInv, ServiceTypeOK
<1>2. CASE LogLogin(r)
  BY <1>2, MoveStep DEF LogLogin
<1>3. CASE ActivateDuressMode(r)
  BY <1>3, MoveStep DEF ActivateDuressMode
<1>4. CASE EnqueueLogin(r)
  BY <1>4, MoveStep DEF EnqueueLogin
<1>5. CASE Reply(r)
  <2>1. call[r].minted \in 1..lastToken
    BY <1>5 DEF Reply, ServiceInv, CallsFit
  <2> QED
    BY <1>1, <1>5, <2>1, ReturnStep DEF Reply
<1>6. CASE CheckSession(r)
  <2>1. CASE IsSessionActive(call[r].session)
    BY <1>6, <2>1, MoveStep DEF CheckSession
  <2>2. CASE ~IsSessionActive(call[r].session)
    BY <1>6, <2>2, MoveStep DEF CheckSession
  <2> QED
    BY <2>1, <2>2
<1>7. CASE CheckFingerprint(r)
  <2>1. CASE Goto(r, "checkActive")
    BY <1>7, <2>1, MoveStep DEF CheckFingerprint
  <2>2. CASE call' = [call EXCEPT ![r].pc = "revokeTokens",
                                  ![r].reason = "fingerprint_mismatch"]
    BY <1>7, <2>2, IncidentStep DEF CheckFingerprint, Incidents
  <2> QED
    BY <1>7, <2>1, <2>2 DEF CheckFingerprint
<1>8. CASE CheckActive(r)
  <2>1. CASE IsRefreshTokenActive(call[r].token)
    BY <1>8, <2>1, MoveStep DEF CheckActive
  <2>2. CASE ~IsRefreshTokenActive(call[r].token)
    BY <1>8, <2>2, MoveStep DEF CheckActive
  <2> QED
    BY <2>1, <2>2
<1>9. CASE LogRotated(r)
  BY <1>9, MoveStep DEF LogRotated
<1>10. CASE CheckKnown(r)
  <2>1. CASE IsRefreshTokenKnown(call[r].token)
    BY <1>10, <2>1, IncidentStep DEF CheckKnown, Incidents
  <2>2. CASE ~IsRefreshTokenKnown(call[r].token)
    BY <1>10, <2>2, MoveStep DEF CheckKnown, Goto
  <2> QED
    BY <2>1, <2>2
<1>11. CASE LogInvalid(r)
  BY <1>1, <1>11, ReturnStep DEF LogInvalid
<1>12. CASE LogDenied(r)
  BY <1>12, MoveStep DEF LogDenied
<1>13. CASE LogIncident(r)
  BY <1>13, MoveStep DEF LogIncident
<1>14. CASE EnqueueIncident(r)
  BY <1>1, <1>14, ReturnStep DEF EnqueueIncident
<1>15. CASE Abort(r)
  <2>1. aborts' \in 0..MaxAborts
    BY <1>1, <1>15, ServiceAssumption DEF Abort
  <2> QED
    BY <1>1, <1>15, <2>1, ReturnStep DEF Abort
<1>16. CASE LogLogout(r)
  BY <1>1, <1>16, ReturnStep DEF LogLogout
<1> QED
  BY <1>2, <1>3, <1>4, <1>5, <1>6, <1>7, <1>8, <1>9, <1>10, <1>11, <1>12, <1>13,
     <1>14, <1>15, <1>16

TransferStep(r) ==
  ReadMode(r) \/ EnqueueTransfer(r) \/ LogTransfer(r) \/ AnswerTransfer(r)

(* A transfer reads a session and touches no table of them.                 *)
LEMMA TransferLeavesTables ==
  ASSUME NEW r \in Threads, TransferStep(r)
  PROVE  UNCHANGED <<sessions, lastSession, refreshTokens, lastToken, delivered, aborts>>
BY DEF TransferStep, ReadMode, EnqueueTransfer, LogTransfer, AnswerTransfer, storeVars

LEMMA StartTransferKeeps ==
  ASSUME ServiceInv, NEW r \in Threads, NEW t \in TokenIds, StartTransfer(r, t)
  PROVE  ServiceInv'
<1> DEFINE c == [Idle EXCEPT !.pc = "readMode", !.session = refreshTokens[t].session]
<1>1. t \in delivered
  BY DEF StartTransfer
<1>2. c \in Call /\ c.pc = "readMode" /\ c.session = refreshTokens[t].session
  BY <1>1, DeliveredToken DEF Idle, Call, Labels, NoSession, NoToken
<1>3. /\ call' = [call EXCEPT ![r] = c]
      /\ UNCHANGED <<sessions, lastSession, refreshTokens, lastToken, delivered, aborts>>
  BY DEF StartTransfer, storeVars
<1> HIDE DEF c
<1> QED
  BY <1>1, <1>2, <1>3, DeliveredToken, LocalStep
  DEF ServiceInv, ServiceTypeOK, Opening, Presented, Minted, Transferring

LEMMA TransferKeeps ==
  ASSUME ServiceInv, NEW r \in Threads, TransferStep(r)
  PROVE  ServiceInv'
<1> USE DEF At, Labels, Opening, Presented, Minted, Transferring
<1>1. /\ UNCHANGED <<sessions, lastSession, refreshTokens, lastToken, delivered, aborts>>
      /\ aborts \in 0..MaxAborts
      /\ delivered \subseteq 1..lastToken
      /\ call \in [Threads -> Call]
  BY TransferLeavesTables DEF ServiceInv, ServiceTypeOK
<1>2. CASE ReadMode(r) /\ IsSessionActive(call[r].session)
  <2> DEFINE mode == sessions[call[r].session].mode
             label == IF mode = "duress" THEN "enqueueTransfer" ELSE "logTransfer"
             c == [call[r] EXCEPT !.pc = label, !.mode = mode]
  <2>1. call[r].session \in SessionIds \cup {NoSession} /\ call[r] \in Call
    BY <1>1 DEF Call
  <2>2. call' = [call EXCEPT ![r] = c]
    BY <1>1, <1>2 DEF ReadMode
  <2>3. call[r].session \in 1..lastSession
    BY <1>2 DEF ReadMode, At, ServiceInv, CallsFit
  <2>4. ASSUME mode \in Modes \cup {"none"} PROVE ServiceInv'
    <3>1. /\ c \in Call
          /\ c.pc \in {"enqueueTransfer", "logTransfer"}
          /\ c.session = call[r].session
      <4>1. label \in {"enqueueTransfer", "logTransfer"} /\ label \in Labels
        OBVIOUS
      <4> HIDE DEF label, mode, At, Labels, Opening, Presented, Minted, Transferring
      <4>2. /\ c.pc = label
            /\ c.session = call[r].session
        BY <2>1 DEF Call
      <4>3. c \in Call
        BY <2>1, <2>4, <4>1 DEF Call
      <4> QED
        BY <4>1, <4>2, <4>3
    <3> HIDE DEF c
    <3> QED
      BY <1>1, <2>2, <2>3, <3>1, LocalStep
  <2> QED
    BY <2>3, <2>4, StoreAssumption DEF ServiceInv, ServiceTypeOK, SessionRow, SessionIds
<1>3. CASE ReadMode(r) /\ ~IsSessionActive(call[r].session)
  BY <1>1, <1>3, MoveStep DEF ReadMode
<1>4. CASE EnqueueTransfer(r)
  BY <1>1, <1>4, MoveStep DEF EnqueueTransfer
<1>5. CASE LogTransfer(r)
  <2>1. CASE Return(r)
    BY <1>1, <2>1, ReturnStep
  <2>2. CASE Goto(r, "answerTransfer")
    BY <1>1, <1>5, <2>2, MoveStep DEF LogTransfer
  <2> QED
    BY <1>5, <2>1, <2>2 DEF LogTransfer
<1>6. CASE AnswerTransfer(r)
  BY <1>1, <1>6, ReturnStep DEF AnswerTransfer
<1> QED
  BY <1>2, <1>3, <1>4, <1>5, <1>6 DEF TransferStep

-------------------------------------------------------------------------------
(* A new session has no token yet, and no other thread knows it.            *)
LEMMA LoginCreateSessionKeeps ==
  ASSUME ServiceInv, NEW r \in Threads, LoginCreateSession(r)
  PROVE  ServiceInv'
<1> DEFINE n == lastSession + 1
           c == [call[r] EXCEPT !.pc = "logLogin", !.session = n]
           row == [state |-> "active", mode |-> call[r].mode, reason |-> "none"]
<1>1. /\ n \in SessionIds
      /\ lastSession \in Nat
      /\ call[r] \in Call
  BY StoreAssumption
  DEF LoginCreateSession, CreateSession, ServiceInv, ServiceTypeOK, SessionIds
<1>2. /\ c \in Call
      /\ c.pc = "logLogin"
      /\ c.session = n
  BY <1>1 DEF Call, Labels
<1>3. /\ call' = [call EXCEPT ![r] = c]
      /\ sessions' = [sessions EXCEPT ![n] = row]
      /\ lastSession' = n
      /\ UNCHANGED <<refreshTokens, lastToken, delivered, aborts>>
  BY DEF LoginCreateSession, CreateSession, ServiceInv, ServiceTypeOK
<1>4. row \in [state : States, mode : Modes \cup {"none"}, reason : {"none"}]
      /\ row.state = "active"
  BY <1>1 DEF States, Call
<1> HIDE DEF c, row
<1> USE DEF ServiceInv
<1>5. /\ call'[r] = c
      /\ \A q \in Threads : q # r => call'[q] = call[q]
      /\ sessions'[n].state = "active"
      /\ \A s \in SessionIds : s # n => sessions'[s] = sessions[s]
  BY <1>1, <1>3, <1>4 DEF ServiceTypeOK
<1>6. ServiceTypeOK'
  <2>1. row \in SessionRow
    BY <1>4 DEF SessionRow
  <2>2. lastSession' \in 0..MaxSessions
    BY <1>1, <1>3, StoreAssumption DEF SessionIds
  <2> QED
    BY <1>1, <1>2, <1>3, <2>1, <2>2 DEF ServiceTypeOK
<1>7. \A t \in TokenIds : refreshTokens[t].session # n
  BY <1>1, StoreAssumption DEF TokensFit, TokenIds, NoSession, ServiceTypeOK
<1>8. TokensFit'
  <2>1. ASSUME NEW s \in SessionIds
        PROVE  sessions'[s].state # "absent" <=> s <= lastSession'
    BY <1>1, <1>3, <1>5 DEF TokensFit, SessionIds
  <2> QED
    BY <1>1, <1>3, <2>1 DEF TokensFit
<1>9. TokenChain' /\ RevokedMeansDead'
  BY <1>3, <1>5, <1>7 DEF TokenChain, RevokedMeansDead, IsSessionActive,
     TokensFit, ServiceTypeOK, TokenRow, SessionIds
<1>10. LoginsFit'
  BY <1>1, <1>2, <1>3, <1>5, <1>7 DEF LoginsFit, SessionIds
<1>11. CallsFit'
  BY <1>1, <1>2, <1>3, <1>5 DEF CallsFit, Presented, Minted, Transferring
<1> QED
  BY <1>3, <1>6, <1>8, <1>9, <1>10, <1>11

(* The first token of a login's session: it has no other, and no thread     *)
(* revokes a session it has no token of.                                    *)
LEMMA StoreTokenKeeps ==
  ASSUME ServiceInv, NEW r \in Threads, StoreToken(r)
  PROVE  ServiceInv'
<1> DEFINE n == lastToken + 1
           s == call[r].session
           label == IF call[r].mode = "duress" THEN "activateDuress" ELSE "reply"
           c == [call[r] EXCEPT !.pc = label, !.minted = n]
           row == NewToken(s, call[r].context, NoToken)
<1>1. /\ n \in TokenIds
      /\ lastToken \in Nat
      /\ call[r] \in Call
      /\ call[r].pc \in Opening
  BY StoreAssumption
  DEF StoreToken, StoreRefreshToken, ServiceInv, ServiceTypeOK, TokenIds, At, Opening
<1>2. /\ c \in Call
      /\ c.pc \in Minted
      /\ c.pc \notin Opening
      /\ c.pc \notin Presented
      /\ c.pc \notin Transferring
      /\ c.minted = n
  <2>1. label \in {"activateDuress", "reply"}
    OBVIOUS
  <2> HIDE DEF label
  <2>2. c \in Call /\ c.pc = label /\ c.minted = n
    BY <1>1, <2>1 DEF Call, Labels
  <2> QED
    BY <2>1, <2>2 DEF Minted, Opening, Presented, Transferring
<1>3. /\ call' = [call EXCEPT ![r] = c]
      /\ refreshTokens' = [refreshTokens EXCEPT ![n] = row]
      /\ lastToken' = n
      /\ UNCHANGED <<sessions, lastSession, delivered, aborts>>
  BY DEF StoreToken, StoreRefreshToken, ServiceInv, ServiceTypeOK
<1>4. /\ row \in TokenRow
      /\ row.state = "active"
      /\ row.session = s
      /\ row.parent = NoToken
  BY <1>1 DEF NewToken, TokenRow, States, Call
<1> HIDE DEF c, row, label
<1> USE DEF ServiceInv
<1>5. /\ s \in 1..lastSession
      /\ sessions[s].state = "active"
      /\ \A t \in TokenIds : refreshTokens[t].session # s
      /\ \A q \in Threads : q # r /\ call[q].pc \in Opening => call[q].session # s
  BY <1>1 DEF LoginsFit
<1> HIDE DEF s
<1>6. /\ call'[r] = c
      /\ \A q \in Threads : q # r => call'[q] = call[q]
      /\ refreshTokens'[n] = row
      /\ \A t \in TokenIds : t # n => refreshTokens'[t] = refreshTokens[t]
  BY <1>1, <1>3 DEF ServiceTypeOK
<1>7. ServiceTypeOK'
  <2>1. lastToken' \in 0..MaxTokens
    BY <1>1, <1>3, StoreAssumption DEF TokenIds
  <2> QED
    BY <1>1, <1>2, <1>3, <1>4, <2>1 DEF ServiceTypeOK
<1>8. TokensFit'
  <2> SUFFICES ASSUME NEW t \in TokenIds
               PROVE  /\ refreshTokens'[t].state # "absent" <=> t <= n
                      /\ t <= n => refreshTokens'[t].session \in 1..lastSession
                      /\ t > n => /\ refreshTokens'[t].parent = NoToken
                                  /\ refreshTokens'[t].session = NoSession
                      /\ refreshTokens'[t].parent # NoToken =>
                           /\ refreshTokens'[refreshTokens'[t].parent].state = "revoked"
                           /\ refreshTokens'[refreshTokens'[t].parent].session
                                = refreshTokens'[t].session
    BY <1>3 DEF TokensFit
  <2>1. CASE t = n
    BY <1>1, <1>4, <1>5, <1>6, <2>1
  <2>2. CASE t # n
    <3>1. /\ refreshTokens[t].state # "absent" <=> t <= lastToken
          /\ t <= lastToken => refreshTokens[t].session \in 1..lastSession
          /\ t > lastToken => /\ refreshTokens[t].parent = NoToken
                              /\ refreshTokens[t].session = NoSession
      BY DEF TokensFit
    <3>2. t <= lastToken <=> t <= n
      BY <1>1, <2>2 DEF TokenIds
    <3>3. ASSUME refreshTokens[t].parent # NoToken
          PROVE  refreshTokens'[refreshTokens[t].parent]
                   = refreshTokens[refreshTokens[t].parent]
      <4>1. refreshTokens[t].parent \in TokenIds
        BY <3>3 DEF ServiceTypeOK, TokenRow
      <4>2. refreshTokens[n].state = "absent"
        BY <1>1 DEF TokensFit
      <4> QED
        BY <1>6, <3>3, <4>1, <4>2 DEF TokensFit
    <3> QED
      BY <1>6, <2>2, <3>1, <3>2, <3>3, <1>1 DEF TokensFit, TokenIds
  <2> QED
    BY <2>1, <2>2
<1>9. TokenChain'
  BY <1>1, <1>4, <1>5, <1>6 DEF TokenChain
<1>10. RevokedMeansDead'
  BY <1>1, <1>3, <1>4, <1>5, <1>6 DEF RevokedMeansDead, IsSessionActive
<1>11. LoginsFit'
  BY <1>1, <1>2, <1>3, <1>4, <1>5, <1>6 DEF LoginsFit
<1>12. CallsFit'
  <2> SUFFICES ASSUME NEW q \in Threads
               PROVE  /\ call'[q].pc \in Presented =>
                           /\ call'[q].token \in 1..n
                           /\ call'[q].session = refreshTokens'[call'[q].token].session
                      /\ call'[q].pc = "revokeSession" =>
                           \A t \in TokenIds : refreshTokens'[t].state = "active"
                             => refreshTokens'[t].session # call'[q].session
                      /\ call'[q].pc \in Minted => call'[q].minted \in 1..n
                      /\ call'[q].pc \in Transferring =>
                           call'[q].session \in 1..lastSession
    BY <1>3 DEF CallsFit
  <2>1. CASE q = r
    BY <1>1, <1>2, <1>6, <2>1 DEF Presented
  <2>2. CASE q # r
    <3>1. ASSUME call[q].pc \in Presented
          PROVE  /\ call[q].token \in 1..n
                 /\ call[q].token \in TokenIds
                 /\ call[q].token # n
                 /\ call[q].session = refreshTokens[call[q].token].session
                 /\ call[q].session # s
      BY <1>1, <1>5, <3>1, StoreAssumption DEF CallsFit, TokenIds
    <3>2. call[q].pc = "revokeSession" =>
            \A t \in TokenIds : refreshTokens[t].state = "active"
              => refreshTokens[t].session # call[q].session
      BY DEF CallsFit
    <3>3. call[q].pc \in Minted => call[q].minted \in 1..n
      BY <1>1 DEF CallsFit
    <3>4. call[q].pc \in Transferring => call[q].session \in 1..lastSession
      BY DEF CallsFit
    <3> QED
      BY <1>4, <1>6, <2>2, <3>1, <3>2, <3>3, <3>4 DEF Presented
  <2> QED
    BY <2>1, <2>2
<1>13. delivered' \subseteq 1..lastToken'
  BY <1>1, <1>3
<1> QED
  BY <1>7, <1>8, <1>9, <1>10, <1>11, <1>12, <1>13

(* A rotation revokes the only active token of a live session and adds its  *)
(* successor: nobody is about to revoke that session, for whoever is has    *)
(* already revoked the token.                                               *)
LEMMA RotateKeeps ==
  ASSUME ServiceInv, NEW r \in Threads, At(r, "rotate"),
         RotateRefreshToken(call[r].token),
         call' = [call EXCEPT ![r].pc = "logRotated", ![r].minted = lastToken + 1],
         UNCHANGED <<delivered, aborts>>
  PROVE  ServiceInv'
<1> DEFINE n == lastToken + 1
           o == call[r].token
           s == refreshTokens[o].session
           c == [call[r] EXCEPT !.pc = "logRotated", !.minted = n]
           old == [refreshTokens[o] EXCEPT !.state = "revoked"]
           row == NewToken(s, refreshTokens[o].context, o)
<1>1. /\ n \in TokenIds
      /\ lastToken \in Nat
      /\ call[r] \in Call
      /\ o \in 1..lastToken
      /\ o \in TokenIds
      /\ o # n
      /\ refreshTokens[o] \in TokenRow
      /\ refreshTokens[o].state = "active"
      /\ call[r].session = s
  BY StoreAssumption
  DEF RotateRefreshToken, IsRefreshTokenActive, ServiceInv, ServiceTypeOK,
      CallsFit, TokenIds, At, Presented
<1>2. /\ c \in Call
      /\ c.pc = "logRotated"
      /\ c.minted = n
      /\ c.token = o
      /\ c.session = s
  BY <1>1 DEF Call, Labels
<1>3. /\ call' = [call EXCEPT ![r] = c]
      /\ refreshTokens' = [refreshTokens EXCEPT ![o] = old, ![n] = row]
      /\ lastToken' = n
      /\ UNCHANGED <<sessions, lastSession, delivered, aborts>>
  BY <1>1 DEF RotateRefreshToken, ServiceInv, ServiceTypeOK
<1>4. /\ row \in TokenRow
      /\ row.state = "active"
      /\ row.session = s
      /\ row.parent = o
      /\ old \in TokenRow
      /\ old.state = "revoked"
      /\ old.session = s
      /\ old.parent = refreshTokens[o].parent
  BY <1>1 DEF NewToken, TokenRow, States
<1> HIDE DEF c, row, old
<1> USE DEF ServiceInv
<1>5. /\ s \in 1..lastSession
      /\ sessions[s].state = "active"
      /\ \A t \in TokenIds : t # o /\ refreshTokens[t].session = s
                               => refreshTokens[t].state # "active"
      /\ \A t \in TokenIds : refreshTokens[t].parent # o
  <2>1. o # NoToken
    BY <1>1 DEF NoToken
  <2> QED
    BY <1>1, <2>1 DEF TokensFit, RevokedMeansDead, TokenChain, IsSessionActive
<1>6. /\ call'[r] = c
      /\ \A q \in Threads : q # r => call'[q] = call[q]
      /\ refreshTokens'[o] = old
      /\ refreshTokens'[n] = row
      /\ \A t \in TokenIds : t # n /\ t # o => refreshTokens'[t] = refreshTokens[t]
  BY <1>1, <1>3 DEF ServiceTypeOK
<1> HIDE DEF s
<1>7. ServiceTypeOK'
  <2>1. lastToken' \in 0..MaxTokens
    BY <1>1, <1>3, StoreAssumption DEF TokenIds
  <2>2. refreshTokens' \in [TokenIds -> TokenRow]
    BY <1>1, <1>3, <1>4 DEF ServiceTypeOK
  <2>3. call' \in [Threads -> Call]
    BY <1>2, <1>3 DEF ServiceTypeOK
  <2> QED
    BY <1>3, <2>1, <2>2, <2>3 DEF ServiceTypeOK
<1>8. \A t \in TokenIds : t # n =>
        /\ refreshTokens'[t].session = refreshTokens[t].session
        /\ refreshTokens'[t].parent = refreshTokens[t].parent
        /\ refreshTokens'[t].state = "absent" <=> refreshTokens[t].state = "absent"
        /\ refreshTokens[t].state = "revoked" => refreshTokens'[t].state = "revoked"
        /\ refreshTokens'[t].state = "active" => refreshTokens[t].state = "active"
  BY <1>1, <1>4, <1>6 DEF s
<1>9. TokensFit'
  <2> SUFFICES ASSUME NEW t \in TokenIds
               PROVE  /\ refreshTokens'[t].state # "absent" <=> t <= n
                      /\ t <= n => refreshTokens'[t].session \in 1..lastSession
                      /\ t > n => /\ refreshTokens'[t].parent = NoToken
                                  /\ refreshTokens'[t].session = NoSession
                      /\ refreshTokens'[t].parent # NoToken =>
                           /\ refreshTokens'[refreshTokens'[t].parent].state = "revoked"
                           /\ refreshTokens'[refreshTokens'[t].parent].session
                                = refreshTokens'[t].session
    BY <1>3 DEF TokensFit
  <2>1. CASE t = n
    BY <1>1, <1>4, <1>5, <1>6, <2>1
  <2>2. CASE t # n
    <3>1. /\ refreshTokens[t].state # "absent" <=> t <= lastToken
          /\ t <= lastToken => refreshTokens[t].session \in 1..lastSession
          /\ t > lastToken => /\ refreshTokens[t].parent = NoToken
                              /\ refreshTokens[t].session = NoSession
      BY DEF TokensFit
    <3>2. t <= lastToken <=> t <= n
      BY <1>1, <2>2 DEF TokenIds
    <3>3. ASSUME refreshTokens[t].parent # NoToken
          PROVE  /\ refreshTokens'[refreshTokens[t].parent].state = "revoked"
                 /\ refreshTokens'[refreshTokens[t].parent].session
                      = refreshTokens[t].session
      <4>1. /\ refreshTokens[t].parent \in TokenIds
            /\ refreshTokens[refreshTokens[t].parent].state = "revoked"
            /\ refreshTokens[refreshTokens[t].parent].session = refreshTokens[t].session
        BY <3>3 DEF ServiceTypeOK, TokenRow, TokensFit
      <4>2. refreshTokens[n].state = "absent"
        BY <1>1 DEF TokensFit
      <4> QED
        BY <1>8, <4>1, <4>2
    <3> QED
      BY <1>8, <2>2, <3>1, <3>2, <3>3, <1>1 DEF TokenIds
  <2> QED
    BY <2>1, <2>2
<1>10. TokenChain'
  <2> SUFFICES ASSUME NEW t \in TokenIds, NEW u \in TokenIds
               PROVE  /\ (/\ refreshTokens'[t].state = "active"
                          /\ refreshTokens'[u].state = "active"
                          /\ refreshTokens'[t].session = refreshTokens'[u].session)
                           => t = u
                      /\ (/\ refreshTokens'[t].parent = refreshTokens'[u].parent
                          /\ refreshTokens'[t].parent # NoToken) => t = u
    BY DEF TokenChain
  <2>1. CASE t # n /\ u # n
    BY <1>8, <2>1 DEF TokenChain
  <2>2. \A v \in TokenIds : v # n =>
          /\ refreshTokens'[v].parent # o
          /\ refreshTokens'[v].session = s => refreshTokens'[v].state # "active"
    BY <1>4, <1>5, <1>6, <1>8
  <2> QED
    BY <1>4, <1>6, <2>1, <2>2
<1>11. RevokedMeansDead'
  <2> SUFFICES ASSUME NEW t \in TokenIds, refreshTokens'[t].state = "active"
               PROVE  sessions[refreshTokens'[t].session].state = "active"
    BY <1>3 DEF RevokedMeansDead, IsSessionActive
  <2>1. CASE t = n
    BY <1>4, <1>5, <1>6, <2>1
  <2>2. CASE t # n
    BY <1>8, <2>2 DEF RevokedMeansDead, IsSessionActive
  <2> QED
    BY <2>1, <2>2
<1>12. LoginsFit'
  <2> SUFFICES ASSUME NEW q \in Threads, call'[q].pc \in Opening
               PROVE  /\ call'[q].session \in 1..lastSession
                      /\ sessions[call'[q].session].state = "active"
                      /\ \A t \in TokenIds :
                           refreshTokens'[t].session # call'[q].session
                      /\ \A p \in Threads : p # q /\ call'[p].pc \in Opening
                           => call'[p].session # call'[q].session
    BY <1>3 DEF LoginsFit
  <2>1. /\ \A p \in Threads : call'[p].pc \in Opening => p # r
        /\ q # r
        /\ call[q].pc \in Opening
        /\ call'[q] = call[q]
    BY <1>2, <1>6 DEF Opening
  <2>2. /\ call[q].session \in 1..lastSession
        /\ sessions[call[q].session].state = "active"
        /\ \A t \in TokenIds : refreshTokens[t].session # call[q].session
        /\ \A p \in Threads : p # q /\ call[p].pc \in Opening
             => call[p].session # call[q].session
    BY <2>1 DEF LoginsFit
  <2>3. call[q].session # s
    BY <1>1, <2>2 DEF s
  <2>4. ASSUME NEW t \in TokenIds
        PROVE  refreshTokens'[t].session # call[q].session
    BY <1>4, <1>6, <1>8, <2>2, <2>3
  <2> QED
    BY <1>6, <2>1, <2>2, <2>4
<1>13. CallsFit'
  <2> SUFFICES ASSUME NEW q \in Threads
               PROVE  /\ call'[q].pc \in Presented =>
                           /\ call'[q].token \in 1..n
                           /\ call'[q].session = refreshTokens'[call'[q].token].session
                      /\ call'[q].pc = "revokeSession" =>
                           \A t \in TokenIds : refreshTokens'[t].state = "active"
                             => refreshTokens'[t].session # call'[q].session
                      /\ call'[q].pc \in Minted => call'[q].minted \in 1..n
                      /\ call'[q].pc \in Transferring =>
                           call'[q].session \in 1..lastSession
    BY <1>3 DEF CallsFit
  <2>1. CASE q = r
    BY <1>1, <1>2, <1>4, <1>6, <2>1 DEF Transferring
  <2>2. CASE q # r
    <3>1. ASSUME call[q].pc \in Presented
          PROVE  /\ call[q].token \in 1..n
                 /\ call[q].token \in TokenIds
                 /\ call[q].token # n
                 /\ call[q].session = refreshTokens[call[q].token].session
      BY <1>1, <3>1, StoreAssumption DEF CallsFit, TokenIds
    <3>2. call[q].pc = "revokeSession" =>
            /\ call[q].session # s
            /\ \A t \in TokenIds : refreshTokens[t].state = "active"
                 => refreshTokens[t].session # call[q].session
      BY <1>1 DEF CallsFit, s
    <3>3. call[q].pc \in Minted => call[q].minted \in 1..n
      BY <1>1 DEF CallsFit
    <3>4. ASSUME call[q].pc = "revokeSession", NEW t \in TokenIds,
                 refreshTokens'[t].state = "active"
          PROVE  refreshTokens'[t].session # call[q].session
      <4>1. CASE t = n
        BY <1>4, <1>6, <3>2, <3>4, <4>1
      <4>2. CASE t # n
        BY <1>8, <3>2, <3>4, <4>2
      <4> QED
        BY <4>1, <4>2
    <3>5. call[q].pc \in Presented =>
            call[q].session = refreshTokens'[call[q].token].session
      BY <1>8, <3>1
    <3>6. call[q].pc \in Transferring => call[q].session \in 1..lastSession
      BY DEF CallsFit
    <3> QED
      BY <1>6, <2>2, <3>1, <3>3, <3>4, <3>5, <3>6
  <2> QED
    BY <2>1, <2>2
<1>14. delivered' \subseteq 1..lastToken'
  BY <1>1, <1>3
<1> QED
  BY <1>7, <1>9, <1>10, <1>11, <1>12, <1>13, <1>14

(* Revoking tokens creates none: afterwards the session has no active one.  *)
LEMMA RevokeTokensKeeps ==
  ASSUME ServiceInv, NEW r \in Threads, RevokeTokens(r)
  PROVE  ServiceInv'
<1> DEFINE c == [call[r] EXCEPT !.pc = "revokeSession"]
<1>1. /\ call[r] \in Call
      /\ call[r].token \in 1..lastToken
      /\ call[r].session = refreshTokens[call[r].token].session
  BY DEF RevokeTokens, At, ServiceInv, ServiceTypeOK, CallsFit, Presented
<1>2. /\ c \in Call
      /\ c.pc = "revokeSession"
      /\ c.token = call[r].token
      /\ c.session = call[r].session
  BY <1>1 DEF Call, Labels
<1>3. /\ call' = [call EXCEPT ![r] = c]
      /\ UNCHANGED <<sessions, lastSession, lastToken, delivered, aborts>>
  BY DEF RevokeTokens, RevokeAllRefreshForSession, Goto, ServiceInv, ServiceTypeOK
<1>4. refreshTokens' = [t \in TokenIds |->
        IF refreshTokens[t].session = call[r].session /\ refreshTokens[t].state = "active"
          THEN [refreshTokens[t] EXCEPT !.state = "revoked"] ELSE refreshTokens[t]]
  BY DEF RevokeTokens, RevokeAllRefreshForSession
<1> HIDE DEF c
<1> USE DEF ServiceInv
<1>5. \A t \in TokenIds :
        /\ refreshTokens'[t] \in TokenRow
        /\ refreshTokens'[t].session = refreshTokens[t].session
        /\ refreshTokens'[t].parent = refreshTokens[t].parent
        /\ refreshTokens'[t].state = "absent" <=> refreshTokens[t].state = "absent"
        /\ refreshTokens[t].state = "revoked" => refreshTokens'[t].state = "revoked"
        /\ refreshTokens'[t].state = "active" =>
             /\ refreshTokens[t].state = "active"
             /\ refreshTokens[t].session # call[r].session
  <2> SUFFICES ASSUME NEW t \in TokenIds
               PROVE  /\ refreshTokens'[t] \in TokenRow
                      /\ refreshTokens'[t].session = refreshTokens[t].session
                      /\ refreshTokens'[t].parent = refreshTokens[t].parent
                      /\ refreshTokens'[t].state = "absent"
                           <=> refreshTokens[t].state = "absent"
                      /\ refreshTokens[t].state = "revoked"
                           => refreshTokens'[t].state = "revoked"
                      /\ refreshTokens'[t].state = "active" =>
                           /\ refreshTokens[t].state = "active"
                           /\ refreshTokens[t].session # call[r].session
    OBVIOUS
  <2>1. refreshTokens[t] \in TokenRow
    BY DEF ServiceTypeOK
  <2>2. CASE refreshTokens[t].session = call[r].session /\ refreshTokens[t].state = "active"
    BY <1>4, <2>1, <2>2 DEF TokenRow, States
  <2>3. CASE ~(refreshTokens[t].session = call[r].session /\ refreshTokens[t].state = "active")
    BY <1>4, <2>1, <2>3
  <2> QED
    BY <2>2, <2>3
<1>6. /\ call'[r] = c
      /\ \A q \in Threads : q # r => call'[q] = call[q]
  BY <1>3 DEF ServiceTypeOK
<1>7. ServiceTypeOK'
  <2>1. refreshTokens' \in [TokenIds -> TokenRow]
    <3>1. /\ refreshTokens' = [t \in TokenIds |-> refreshTokens'[t]]
          /\ \A t \in TokenIds : refreshTokens'[t] \in TokenRow
      BY <1>4, <1>5
    <3> QED
      BY <3>1
  <2> QED
    BY <1>2, <1>3, <2>1 DEF ServiceTypeOK
<1>8. TokensFit'
  <2>1. \A t \in TokenIds : refreshTokens[t].parent \in TokenIds \cup {NoToken}
    BY DEF ServiceTypeOK, TokenRow
  <2> QED
    BY <1>3, <1>5, <2>1 DEF TokensFit
<1>9. TokenChain' /\ RevokedMeansDead'
  BY <1>3, <1>5 DEF TokenChain, RevokedMeansDead, IsSessionActive
<1>10. LoginsFit'
  BY <1>2, <1>3, <1>5, <1>6 DEF LoginsFit, Opening
<1>11. CallsFit'
  <2>1. 1..lastToken \subseteq TokenIds
    BY StoreAssumption DEF ServiceTypeOK, TokenIds
  <2> QED
    BY <1>1, <1>2, <1>3, <1>5, <1>6, <2>1 DEF CallsFit, Minted, Transferring
<1> QED
  BY <1>3, <1>7, <1>8, <1>9, <1>10, <1>11

(* A session that is revoked has no active token left, and no login is      *)
(* about to give it its first one.                                          *)
LEMMA KillSessionKeeps ==
  ASSUME ServiceInv, NEW r \in Threads, KillSession(r)
  PROVE  ServiceInv'
<1> DEFINE s == call[r].session
           c == [call[r] EXCEPT
                  !.pc = IF call[r].reason = "logout" THEN "logLogout" ELSE "logDenied"]
           row == [sessions[s] EXCEPT !.state = "revoked", !.reason = call[r].reason]
<1>1. /\ call[r] \in Call
      /\ call[r].token \in 1..lastToken
      /\ call[r].token \in TokenIds
      /\ s = refreshTokens[call[r].token].session
      /\ \A t \in TokenIds : refreshTokens[t].state = "active"
           => refreshTokens[t].session # s
  BY StoreAssumption
  DEF KillSession, At, ServiceInv, ServiceTypeOK, CallsFit, Presented, TokenIds
<1>2. s \in 1..lastSession /\ s \in SessionIds
  BY <1>1, StoreAssumption
  DEF ServiceInv, ServiceTypeOK, TokensFit, SessionIds
<1>3. /\ c \in Call
      /\ c.pc \in {"logLogout", "logDenied"}
      /\ c.token = call[r].token
      /\ c.session = s
  BY <1>1 DEF Call, Labels
<1>4. /\ call' = [call EXCEPT ![r] = c]
      /\ sessions' = [sessions EXCEPT ![s] = row]
      /\ UNCHANGED <<lastSession, refreshTokens, lastToken, delivered, aborts>>
  BY <1>2 DEF KillSession, RevokeSession, Goto, ServiceInv, ServiceTypeOK
<1>5. row \in SessionRow /\ row.state = "revoked"
  <2>1. sessions[s] \in SessionRow
    BY <1>2 DEF ServiceInv, ServiceTypeOK
  <2>2. call[r].reason \in Incidents \cup {"logout", "none"}
    BY <1>1 DEF Call
  <2> QED
    BY <2>1, <2>2 DEF SessionRow, States
<1> HIDE DEF c, row
<1> USE DEF ServiceInv
<1>6. /\ call'[r] = c
      /\ \A q \in Threads : q # r => call'[q] = call[q]
      /\ sessions'[s] = row
      /\ \A z \in SessionIds : z # s => sessions'[z] = sessions[z]
  BY <1>2, <1>4 DEF ServiceTypeOK
<1>7. ServiceTypeOK'
  BY <1>3, <1>4, <1>5 DEF ServiceTypeOK
<1>8. TokensFit'
  <2>1. \A z \in SessionIds : sessions'[z].state # "absent" <=> z <= lastSession
    BY <1>2, <1>5, <1>6 DEF TokensFit
  <2> QED
    BY <1>4, <2>1 DEF TokensFit
<1>9. TokenChain' /\ RevokedMeansDead'
  <2>1. 1..lastSession \subseteq SessionIds
    BY StoreAssumption DEF ServiceTypeOK, SessionIds
  <2>2. \A t \in TokenIds : refreshTokens[t].state = "active"
          => refreshTokens[t].session \in SessionIds
    BY <2>1 DEF TokensFit
  <2> QED
    BY <1>1, <1>4, <1>6, <2>2 DEF TokenChain, RevokedMeansDead, IsSessionActive
<1>10. LoginsFit'
  <2>1. 1..lastSession \subseteq SessionIds
    BY StoreAssumption DEF ServiceTypeOK, SessionIds
  <2>2. \A q \in Threads : call[q].pc \in Opening => call[q].session # s
    BY <1>1 DEF LoginsFit
  <2> QED
    BY <1>3, <1>4, <1>6, <2>1, <2>2 DEF LoginsFit, Opening
<1>11. CallsFit'
  BY <1>1, <1>3, <1>4, <1>6 DEF CallsFit, Presented, Minted, Transferring
<1> QED
  BY <1>4, <1>7, <1>8, <1>9, <1>10, <1>11

-------------------------------------------------------------------------------
(* The handlers keep the tables and the requests in step.                   *)
LEMMA ServeKeeps ==
  ASSUME ServiceInv, NEW r \in Threads, Serve(r)
  PROVE  ServiceInv'
<1>1. CASE LoginCreateSession(r)
  BY <1>1, LoginCreateSessionKeeps
<1>2. CASE StoreToken(r)
  BY <1>2, StoreTokenKeeps
<1>3. CASE Rotate(r)
  <2>1. CASE /\ RotateRefreshToken(call[r].token)
             /\ call' = [call EXCEPT ![r].pc = "logRotated", ![r].minted = lastToken + 1]
    BY <1>3, <2>1, RotateKeeps DEF Rotate
  <2>2. CASE Goto(r, "logInvalid") /\ UNCHANGED storeVars
    BY <1>3, <2>2, MoveStep
    DEF Rotate, At, storeVars, Labels, Opening, Presented, Minted, Transferring
  <2> QED
    BY <1>3, <2>1, <2>2 DEF Rotate
<1>4. CASE RevokeTokens(r)
  BY <1>4, RevokeTokensKeeps
<1>5. CASE KillSession(r)
  BY <1>5, KillSessionKeeps
<1>6. CASE TransferStep(r)
  BY <1>6, TransferKeeps
<1> QED
  BY <1>1, <1>2, <1>3, <1>4, <1>5, <1>6, LocalActionsKeep DEF Serve, TransferStep

LEMMA NextInv == ServiceInv /\ [Next]_vars => ServiceInv'
<1> SUFFICES ASSUME ServiceInv, [Next]_vars PROVE ServiceInv'
  OBVIOUS
<1>1. CASE Next
  <2>1. PICK r \in Threads : Serve(r) \/ Receive(r) \/ Abort(r)
    BY <1>1 DEF Next
  <2>2. CASE Serve(r)
    BY <2>2, ServeKeeps
  <2>3. CASE Receive(r)
    BY <2>3, StartLoginKeeps, StartRefreshKeeps, StartLogoutKeeps,
       StartTransferKeeps
    DEF Receive
  <2>4. CASE Abort(r)
    BY <2>4, LocalActionsKeep
  <2> QED
    BY <2>1, <2>2, <2>3, <2>4
<1>2. CASE UNCHANGED vars
  BY <1>2
  DEF vars, storeVars, ServiceInv, ServiceTypeOK, TokensFit, LoginsFit, CallsFit,
      TokenChain, RevokedMeansDead, IsSessionActive
<1> QED
  BY <1>1, <1>2

(* What the tables and the requests in flight satisfy in every state.       *)
THEOREM ServiceInvariant == Spec => []ServiceInv
  BY InitInv, NextInv, PTL DEF Spec

(* Rows and requests stay well-formed, however requests interleave and      *)
(* wherever they are cut off.                                               *)
THEOREM ServiceTypes == Spec => []ServiceTypeOK
<1>1. ServiceInv => ServiceTypeOK
  BY DEF ServiceInv
<1> QED
  BY <1>1, ServiceInvariant, PTL

(* BEGIN IMMEDIATE in rotate_refresh_token is enough: a session never has   *)
(* two active tokens and no token two successors.                           *)
THEOREM TokensAreChains == Spec => []TokenChain
<1>1. ServiceInv => TokenChain
  BY DEF ServiceInv
<1> QED
  BY <1>1, ServiceInvariant, PTL

(* Tokens first, then the session: the order of the two revocations in      *)
(* logout and in both incidents leaves no active token in a revoked         *)
(* session.                                                                 *)
THEOREM RevokedIsDead == Spec => []RevokedMeansDead
<1>1. ServiceInv => RevokedMeansDead
  BY DEF ServiceInv
<1> QED
  BY <1>1, ServiceInvariant, PTL

-------------------------------------------------------------------------------
Rotation ==
  \A t \in TokenIds :
    refreshTokens'[t].parent # refreshTokens[t].parent
      => /\ IsSessionActive(refreshTokens'[t].session)
         /\ refreshTokens[refreshTokens'[t].parent].session
              = refreshTokens'[t].session

(* Only a rotation makes a token the successor of another.                  *)
LEMMA ServeRotates ==
  ASSUME ServiceInv, NEW r \in Threads, Serve(r)
  PROVE  Rotation
<1> USE DEF ServiceInv, Rotation
<1>1. CASE StoreToken(r)
  <2> DEFINE n == lastToken + 1
  <2>1. /\ n \in TokenIds
        /\ refreshTokens[n].parent = NoToken
    BY <1>1, StoreAssumption
    DEF StoreToken, StoreRefreshToken, ServiceTypeOK, TokenIds, TokensFit
  <2>2. refreshTokens' = [refreshTokens EXCEPT
          ![n] = NewToken(call[r].session, call[r].context, NoToken)]
    BY <1>1 DEF StoreToken, StoreRefreshToken
  <2> HIDE DEF n
  <2> QED
    BY <2>1, <2>2 DEF ServiceTypeOK, NewToken
<1>2. CASE RotateRefreshToken(call[r].token) /\ Rotate(r)
  <2> DEFINE n == lastToken + 1
             o == call[r].token
             row == NewToken(refreshTokens[o].session, refreshTokens[o].context, o)
             old == [refreshTokens[o] EXCEPT !.state = "revoked"]
  <2>1. /\ n \in TokenIds
        /\ o \in TokenIds
        /\ o # n
        /\ refreshTokens[o] \in TokenRow
        /\ refreshTokens[o].state = "active"
    BY <1>2, StoreAssumption
    DEF Rotate, At, RotateRefreshToken, IsRefreshTokenActive, ServiceTypeOK,
        CallsFit, TokenIds, Presented
  <2>2. refreshTokens' = [refreshTokens EXCEPT ![o] = old, ![n] = row]
    BY <1>2, <2>1 DEF RotateRefreshToken, ServiceTypeOK
  <2>3. /\ old.parent = refreshTokens[o].parent
        /\ row.parent = o
        /\ row.session = refreshTokens[o].session
    BY <2>1 DEF NewToken, TokenRow
  <2>4. IsSessionActive(refreshTokens[o].session)
    BY <2>1 DEF RevokedMeansDead
  <2> HIDE DEF n, o, row, old
  <2> QED
    BY <2>1, <2>2, <2>3, <2>4 DEF ServiceTypeOK
<1>3. CASE RevokeTokens(r)
  <2>1. \A t \in TokenIds : refreshTokens[t] \in TokenRow
    BY DEF ServiceTypeOK
  <2> QED
    BY <1>3, <2>1 DEF RevokeTokens, RevokeAllRefreshForSession, TokenRow
<1>4. CASE refreshTokens' = refreshTokens
  BY <1>4
<1>5. CASE TransferStep(r)
  BY <1>4, <1>5, TransferLeavesTables
<1> QED
  BY <1>1, <1>2, <1>3, <1>4, <1>5
  DEF TransferStep, Serve, LoginCreateSession, CreateSession, LogLogin,
      ActivateDuressMode, EnqueueLogin, Reply, CheckSession, CheckFingerprint,
      CheckActive, Rotate, LogRotated, CheckKnown, LogInvalid, KillSession,
      RevokeSession, LogLogout, LogDenied, LogIncident, EnqueueIncident, storeVars

(* check_session and rotate_refresh_token are two transactions, and still   *)
(* no chain grows in a session that was revoked in between.                 *)
THEOREM RotationsAreLive == Spec => RotatesInLiveSession
<1>1. ServiceInv /\ [Next]_vars => [Rotation]_vars
  <2> SUFFICES ASSUME ServiceInv, Next PROVE Rotation
    OBVIOUS
  <2>1. PICK r \in Threads : Serve(r) \/ Receive(r) \/ Abort(r)
    BY DEF Next
  <2>2. CASE Serve(r)
    BY <2>2, ServeRotates
  <2>3. CASE Receive(r) \/ Abort(r)
    BY <2>3 DEF Receive, StartLogin, StartRefresh, StartLogout, StartTransfer, Abort,
       storeVars, Rotation
  <2> QED
    BY <2>1, <2>2, <2>3
<1> QED
  BY <1>1, ServiceInvariant, PTL DEF Spec, RotatesInLiveSession, Rotation
===============================================================================
