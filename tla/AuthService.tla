------------------------------ MODULE AuthService ------------------------------
(***************************************************************************)
(* The request handlers of auth/service.py and auth/duress_policy.py over  *)
(* the tables of SessionStore: a successful login, a refresh, a logout and *)
(* a transfer.  FastAPI runs the handlers in a thread pool, every call     *)
(* they make opens a connection of its own, and so one database call is    *)
(* one step and requests interleave between any two of them.               *)
(*                                                                         *)
(* A request whose token does not verify (bad signature, expired, wrong    *)
(* type) changes none of these tables: it is not started here.  LoginGate  *)
(* models what comes before a login is started here: the rate limit, the   *)
(* lockout and the password check.  touch_session writes only columns no   *)
(* code reads, so me_user_service changes nothing here.                    *)
(***************************************************************************)
EXTENDS SessionStore

CONSTANTS
  Threads,    \* requests served at one time
  Requests,   \* the kinds of request that clients send
  MaxAborts   \* bound: requests that end before their reply

ASSUME ServiceAssumption ==
  /\ Requests \subseteq {"login", "refresh", "logout", "transfer"}
  /\ MaxAborts \in Nat

VARIABLES
  call,       \* the request each thread serves
  delivered,  \* refresh tokens that were sent in a reply
  alerts,     \* rows that were inserted in alert_queue, by type and session
  auditLog,   \* the details of each audit_logs row, by session
  answers,    \* what transfers were answered with, by session
  turnedAway, \* history: tokens some refresh returned REFRESH_INVALID for
  aborts      \* requests that were cut off so far

vars == <<storeVars, call, delivered, alerts, auditLog, answers, turnedAway, aborts>>

Labels == {"idle", "createSession", "logLogin", "storeToken", "activateDuress",
           "enqueueLogin", "checkSession", "checkFingerprint", "checkActive",
           "rotate", "logRotated", "checkKnown", "logInvalid", "revokeTokens",
           "revokeSession", "logLogout", "logDenied", "logIncident",
           "enqueueIncident", "reply", "readMode", "enqueueTransfer",
           "logTransfer", "answerTransfer"}

(* What a handler holds in local variables: the token presented, the reason *)
(* it revokes with, and the token it minted.                                *)
Call == [pc      : Labels,
         mode    : Modes \cup {"none"},
         session : SessionIds \cup {NoSession},
         context : Contexts \cup {NoHeader},
         token   : TokenIds \cup {NoToken},
         reason  : Incidents \cup {"logout", "none"},
         minted  : TokenIds \cup {NoToken}]

Idle == [pc |-> "idle", mode |-> "none", session |-> NoSession,
         context |-> NoHeader, token |-> NoToken, reason |-> "none",
         minted |-> NoToken]

AlertOf(reason) ==
  IF reason = "fingerprint_mismatch" THEN "FINGERPRINT_MISMATCH"
  ELSE "REFRESH_REUSE"

DeniedEvent(reason) ==
  IF reason = "fingerprint_mismatch" THEN "FINGERPRINT_MISMATCH"
  ELSE "REFRESH_REUSED"

IncidentEvent(reason) ==
  IF reason = "fingerprint_mismatch" THEN "INCIDENT_FINGERPRINT_MISMATCH"
  ELSE "INCIDENT_REFRESH_REUSE"

-------------------------------------------------------------------------------
Init ==
  /\ StoreInit
  /\ call = [r \in Threads |-> Idle]
  /\ delivered = {}
  /\ alerts = {}
  /\ auditLog = {}
  /\ answers = {}
  /\ turnedAway = {}
  /\ aborts = 0

At(r, label) == call[r].pc = label
Goto(r, label) == call' = [call EXCEPT ![r].pc = label]
Return(r) == call' = [call EXCEPT ![r] = Idle]

Logs(r, details) == auditLog' = auditLog \cup {<<call[r].session, details>>}
Enqueues(r, type) == alerts' = alerts \cup {<<call[r].session, type>>}

(* login_user_service, from the password that verified on.                  *)
StartLogin(r, mode, c) ==
  /\ At(r, "idle")
  /\ lastSession < MaxSessions
  /\ call' = [call EXCEPT ![r] =
       [Idle EXCEPT !.pc = "createSession", !.mode = mode, !.context = c]]
  /\ UNCHANGED <<storeVars, delivered, alerts, auditLog, answers, turnedAway, aborts>>

LoginCreateSession(r) ==
  /\ At(r, "createSession")
  /\ CreateSession(call[r].mode)
  /\ call' = [call EXCEPT ![r].pc = "logLogin", ![r].session = lastSession + 1]
  /\ UNCHANGED <<delivered, alerts, auditLog, answers, turnedAway, aborts>>

LogLogin(r) ==
  /\ At(r, "logLogin")
  /\ Logs(r, call[r].mode)
  /\ Goto(r, "storeToken")
  /\ UNCHANGED <<storeVars, delivered, alerts, answers, turnedAway, aborts>>

(* Mutant: a duress login is answered like a real one.                      *)
StoreTokenAndReply(r) ==
  /\ At(r, "storeToken")
  /\ StoreRefreshToken(call[r].session, call[r].context)
  /\ call' = [call EXCEPT ![r].pc = "reply", ![r].minted = lastToken + 1]
  /\ UNCHANGED <<delivered, alerts, auditLog, answers, turnedAway, aborts>>

StoreToken(r) ==
  /\ At(r, "storeToken")
  /\ StoreRefreshToken(call[r].session, call[r].context)
  /\ call' = [call EXCEPT
       ![r].pc = IF call[r].mode = "duress" THEN "activateDuress" ELSE "reply",
       ![r].minted = lastToken + 1]
  /\ UNCHANGED <<delivered, alerts, auditLog, answers, turnedAway, aborts>>

ActivateDuressMode(r) ==
  /\ At(r, "activateDuress")
  /\ auditLog' = auditLog \cup {<<NoSession, "duress_activated">>}
  /\ Goto(r, "enqueueLogin")
  /\ UNCHANGED <<storeVars, delivered, alerts, answers, turnedAway, aborts>>

EnqueueLogin(r) ==
  /\ At(r, "enqueueLogin")
  /\ Enqueues(r, "DURESS_LOGIN")
  /\ Goto(r, "reply")
  /\ UNCHANGED <<storeVars, delivered, auditLog, answers, turnedAway, aborts>>

(* The new refresh token leaves the server (login or refresh).              *)
Reply(r) ==
  /\ At(r, "reply")
  /\ delivered' = delivered \cup {call[r].minted}
  /\ Return(r)
  /\ UNCHANGED <<storeVars, alerts, auditLog, answers, turnedAway, aborts>>

-------------------------------------------------------------------------------
(* refresh_user_service.  Whoever has the token presents it: its client, a  *)
(* retry of a request whose reply was lost, or another device.              *)
StartRefresh(r, t, c) ==
  /\ At(r, "idle")
  /\ t \in delivered
  /\ call' = [call EXCEPT ![r] =
       [Idle EXCEPT !.pc = "checkSession", !.token = t, !.context = c,
                    !.session = refreshTokens[t].session]]
  /\ UNCHANGED <<storeVars, delivered, alerts, auditLog, answers, turnedAway, aborts>>

CheckSession(r) ==
  /\ At(r, "checkSession")
  /\ Goto(r, IF IsSessionActive(call[r].session)
               THEN "checkFingerprint" ELSE "logInvalid")
  /\ UNCHANGED <<storeVars, delivered, alerts, auditLog, answers, turnedAway, aborts>>

CheckFingerprint(r) ==
  /\ At(r, "checkFingerprint")
  /\ \/ /\ IsRefreshFingerprintOk(call[r].token, call[r].context)
        /\ Goto(r, "checkActive")
     \/ /\ ~IsRefreshFingerprintOk(call[r].token, call[r].context)
        /\ call' = [call EXCEPT ![r].pc = "revokeTokens",
                                ![r].reason = "fingerprint_mismatch"]
  /\ UNCHANGED <<storeVars, delivered, alerts, auditLog, answers, turnedAway, aborts>>

CheckActive(r) ==
  /\ At(r, "checkActive")
  /\ Goto(r, IF IsRefreshTokenActive(call[r].token) THEN "rotate" ELSE "checkKnown")
  /\ UNCHANGED <<storeVars, delivered, alerts, auditLog, answers, turnedAway, aborts>>

Rotate(r) ==
  /\ At(r, "rotate")
  /\ \/ /\ RotateRefreshToken(call[r].token)
        /\ call' = [call EXCEPT ![r].pc = "logRotated", ![r].minted = lastToken + 1]
     \/ /\ ~IsRefreshTokenActive(call[r].token)
        /\ Goto(r, "logInvalid")
        /\ UNCHANGED storeVars
  /\ UNCHANGED <<delivered, alerts, auditLog, answers, turnedAway, aborts>>

LogRotated(r) ==
  /\ At(r, "logRotated")
  /\ Logs(r, "REFRESH_ROTATED")
  /\ Goto(r, "reply")
  /\ UNCHANGED <<storeVars, delivered, alerts, answers, turnedAway, aborts>>

CheckKnown(r) ==
  /\ At(r, "checkKnown")
  /\ call' = IF IsRefreshTokenKnown(call[r].token)
               THEN [call EXCEPT ![r].pc = "revokeTokens",
                                 ![r].reason = "refresh_reuse_detected"]
               ELSE [call EXCEPT ![r].pc = "logInvalid"]
  /\ UNCHANGED <<storeVars, delivered, alerts, auditLog, answers, turnedAway, aborts>>

LogInvalid(r) ==
  /\ At(r, "logInvalid")
  /\ Logs(r, "REFRESH_INVALID")
  /\ turnedAway' = turnedAway \cup {call[r].token}
  /\ Return(r)
  /\ UNCHANGED <<storeVars, delivered, alerts, answers, aborts>>

(* logout_user_service needs no active session.                             *)
StartLogout(r, t) ==
  /\ At(r, "idle")
  /\ t \in delivered
  /\ call' = [call EXCEPT ![r] =
       [Idle EXCEPT !.pc = "revokeTokens", !.token = t, !.reason = "logout",
                    !.session = refreshTokens[t].session]]
  /\ UNCHANGED <<storeVars, delivered, alerts, auditLog, answers, turnedAway, aborts>>

(* Mutant: only the session is revoked.                                     *)
SkipTokens(r) ==
  /\ At(r, "revokeTokens")
  /\ Goto(r, "revokeSession")
  /\ UNCHANGED <<storeVars, delivered, alerts, auditLog, answers, turnedAway, aborts>>

(* The two revocations of logout and of both incidents, in the code's order *)
RevokeTokens(r) ==
  /\ At(r, "revokeTokens")
  /\ RevokeAllRefreshForSession(call[r].session)
  /\ Goto(r, "revokeSession")
  /\ UNCHANGED <<delivered, alerts, auditLog, answers, turnedAway, aborts>>

(* Mutant: the handler returns after the revocation.                        *)
KillSessionQuietly(r) ==
  /\ At(r, "revokeSession")
  /\ RevokeSession(call[r].session, call[r].reason)
  /\ Return(r)
  /\ UNCHANGED <<delivered, alerts, auditLog, answers, turnedAway, aborts>>

KillSession(r) ==
  /\ At(r, "revokeSession")
  /\ RevokeSession(call[r].session, call[r].reason)
  /\ Goto(r, IF call[r].reason = "logout" THEN "logLogout" ELSE "logDenied")
  /\ UNCHANGED <<delivered, alerts, auditLog, answers, turnedAway, aborts>>

LogLogout(r) ==
  /\ At(r, "logLogout")
  /\ Logs(r, "USER_LOGOUT")
  /\ Return(r)
  /\ UNCHANGED <<storeVars, delivered, alerts, answers, turnedAway, aborts>>

LogDenied(r) ==
  /\ At(r, "logDenied")
  /\ Logs(r, DeniedEvent(call[r].reason))
  /\ Goto(r, "logIncident")
  /\ UNCHANGED <<storeVars, delivered, alerts, answers, turnedAway, aborts>>

LogIncident(r) ==
  /\ At(r, "logIncident")
  /\ Logs(r, IncidentEvent(call[r].reason))
  /\ Goto(r, "enqueueIncident")
  /\ UNCHANGED <<storeVars, delivered, alerts, answers, turnedAway, aborts>>

EnqueueIncident(r) ==
  /\ At(r, "enqueueIncident")
  /\ Enqueues(r, AlertOf(call[r].reason))
  /\ Return(r)
  /\ UNCHANGED <<storeVars, delivered, auditLog, answers, turnedAway, aborts>>

-------------------------------------------------------------------------------
(* process_transfer_request.  An access token leaves the server in the same *)
(* replies as a refresh token of its session.                               *)
StartTransfer(r, t) ==
  /\ At(r, "idle")
  /\ t \in delivered
  /\ call' = [call EXCEPT ![r] =
       [Idle EXCEPT !.pc = "readMode", !.session = refreshTokens[t].session]]
  /\ UNCHANGED <<storeVars, delivered, alerts, auditLog, answers, turnedAway, aborts>>

(* _get_session_mode: an active session's mode, or none.                    *)
ReadMode(r) ==
  /\ At(r, "readMode")
  /\ \/ /\ ~IsSessionActive(call[r].session)
        /\ Goto(r, "logTransfer")
     \/ /\ IsSessionActive(call[r].session)
        /\ LET mode == sessions[call[r].session].mode IN
             call' = [call EXCEPT
               ![r].pc = IF mode = "duress" THEN "enqueueTransfer" ELSE "logTransfer",
               ![r].mode = mode]
  /\ UNCHANGED <<storeVars, delivered, alerts, auditLog, answers, turnedAway, aborts>>

(* Mutant: a transfer under duress raises no alert.                         *)
SkipTransferAlert(r) ==
  /\ At(r, "enqueueTransfer")
  /\ Goto(r, "logTransfer")
  /\ UNCHANGED <<storeVars, delivered, alerts, auditLog, answers, turnedAway, aborts>>

EnqueueTransfer(r) ==
  /\ At(r, "enqueueTransfer")
  /\ Enqueues(r, "DURESS_TRANSFER_ATTEMPT")
  /\ Goto(r, "logTransfer")
  /\ UNCHANGED <<storeVars, delivered, auditLog, answers, turnedAway, aborts>>

TransferEvent(mode) ==
  CASE mode = "duress" -> "transfer_duress_simulated"
    [] mode = "real" -> "transfer_real"
    [] OTHER -> "transfer_invalid_session"

LogTransfer(r) ==
  /\ At(r, "logTransfer")
  /\ Logs(r, TransferEvent(call[r].mode))
  /\ IF call[r].mode = "none" THEN Return(r) ELSE Goto(r, "answerTransfer")
  /\ UNCHANGED <<storeVars, delivered, alerts, answers, turnedAway, aborts>>

AnswerTransfer(r) ==
  /\ At(r, "answerTransfer")
  /\ answers' = answers \cup
       {<<call[r].session, IF call[r].mode = "duress" THEN "simulated" ELSE "executed">>}
  /\ Return(r)
  /\ UNCHANGED <<storeVars, delivered, alerts, auditLog, turnedAway, aborts>>

-------------------------------------------------------------------------------
(* A database call raises (the database stays locked) or the API process    *)
(* ends: what the request did so far stays, the rest never happens.         *)
Abort(r) ==
  /\ ~At(r, "idle")
  /\ aborts < MaxAborts
  /\ aborts' = aborts + 1
  /\ Return(r)
  /\ UNCHANGED <<storeVars, delivered, alerts, auditLog, answers, turnedAway>>

Serve(r) ==
  \/ LoginCreateSession(r) \/ LogLogin(r) \/ StoreToken(r)
  \/ ActivateDuressMode(r) \/ EnqueueLogin(r) \/ Reply(r)
  \/ CheckSession(r) \/ CheckFingerprint(r) \/ CheckActive(r)
  \/ Rotate(r) \/ LogRotated(r) \/ CheckKnown(r) \/ LogInvalid(r)
  \/ RevokeTokens(r) \/ KillSession(r) \/ LogLogout(r)
  \/ LogDenied(r) \/ LogIncident(r) \/ EnqueueIncident(r)
  \/ ReadMode(r) \/ EnqueueTransfer(r) \/ LogTransfer(r) \/ AnswerTransfer(r)

Receive(r) ==
  \/ /\ "login" \in Requests
     /\ \E mode \in Modes, c \in Contexts : StartLogin(r, mode, c)
  \/ /\ "refresh" \in Requests
     /\ \E t \in TokenIds, c \in Contexts : StartRefresh(r, t, c)
  \/ "logout" \in Requests /\ \E t \in TokenIds : StartLogout(r, t)
  \/ "transfer" \in Requests /\ \E t \in TokenIds : StartTransfer(r, t)

Next == \E r \in Threads : Serve(r) \/ Receive(r) \/ Abort(r)

Spec == Init /\ [][Next]_vars

(* A thread goes on with its request; nobody is obliged to send one.        *)
FairSpec == Spec /\ \A r \in Threads : WF_vars(Serve(r))

-------------------------------------------------------------------------------
ServiceTypeOK ==
  /\ sessions \in [SessionIds -> SessionRow]
  /\ lastSession \in 0..MaxSessions
  /\ refreshTokens \in [TokenIds -> TokenRow]
  /\ lastToken \in 0..MaxTokens
  /\ call \in [Threads -> Call]
  /\ delivered \subseteq TokenIds
  /\ aborts \in 0..MaxAborts

(* The tokens of a session are one chain, whatever refreshes run at once:   *)
(* at most one is active, and no token is exchanged for two successors.     *)
TokenChain ==
  \A t, u \in TokenIds :
    /\ (/\ refreshTokens[t].state = "active"
        /\ refreshTokens[u].state = "active"
        /\ refreshTokens[t].session = refreshTokens[u].session) => t = u
    /\ (/\ refreshTokens[t].parent = refreshTokens[u].parent
        /\ refreshTokens[t].parent # NoToken) => t = u

(* Revoked is dead: a revoked session has no active refresh token, although *)
(* the two are revoked in two transactions and refreshes run in between.    *)
RevokedMeansDead ==
  \A t \in TokenIds :
    refreshTokens[t].state = "active" => IsSessionActive(refreshTokens[t].session)

(* No request harms a session it is not about: a live session that was      *)
(* given a refresh token still has an active one, unless a request that     *)
(* revokes this very session is between its two revocations.  (An aborted   *)
(* request stays there for ever: it holds without aborts.)                  *)
LiveSessionHasToken ==
  \A s \in SessionIds :
    /\ IsSessionActive(s)
    /\ \E t \in TokenIds : refreshTokens[t].session = s
    => \/ \E t \in TokenIds :
            refreshTokens[t].session = s /\ refreshTokens[t].state = "active"
       \/ \E r \in Threads : At(r, "revokeSession") /\ call[r].session = s

(* A rotation extends the chain of a live session only, although the check  *)
(* of the session and the rotation are separate transactions.               *)
RotatesInLiveSession ==
  [][\A t \in TokenIds :
       refreshTokens'[t].parent # refreshTokens[t].parent
         => /\ IsSessionActive(refreshTokens'[t].session)
            /\ refreshTokens[refreshTokens'[t].parent].session
                 = refreshTokens'[t].session
    ]_vars

(* The tokens of a duress session are in nobody's hands before its silent   *)
(* alarm is in the queue, wherever a login was cut off.                     *)
AlarmBeforeTokens ==
  \A t \in delivered :
    sessions[refreshTokens[t].session].mode = "duress"
      => <<refreshTokens[t].session, "DURESS_LOGIN">> \in alerts

(* README, threats 2 and 3: on an incident "the session is revoked, an      *)
(* incident is logged and escalated".  A session that an incident revoked   *)
(* gets its incident record and its alert in the end.                       *)
IncidentEscalated ==
  \A s \in SessionIds, reason \in Incidents :
    sessions[s].reason = reason
      ~> /\ <<s, AlertOf(reason)>> \in alerts
         /\ <<s, IncidentEvent(reason)>> \in auditLog

(* What makes that so, step by step: the alert and the record of the        *)
(* incident are there, or a thread is on its way to write what is missing.  *)
(* (An aborted request is on its way nowhere: it holds without aborts.)     *)
IncidentsInHand ==
  \A s \in SessionIds, reason \in Incidents :
    sessions[s].reason = reason
      => \/ /\ <<s, AlertOf(reason)>> \in alerts
            /\ <<s, IncidentEvent(reason)>> \in auditLog
         \/ \E r \in Threads :
              /\ call[r].pc \in {"logDenied", "logIncident", "enqueueIncident"}
              /\ call[r].session = s
              /\ call[r].reason = reason

(* README: "reuse of an already-rotated refresh token is detected, session  *)
(* is revoked".  If one refresh exchanged a token and another with the same *)
(* token was turned away as invalid, the session is revoked.                *)
ReuseKillsSession ==
  \A t \in turnedAway :
    (\E u \in TokenIds : refreshTokens[u].parent = t)
      => ~IsSessionActive(refreshTokens[t].session)

(* duress_policy.py: "DO NOT execute real transfer", "enqueue silent/       *)
(* high-priority alert".  A transfer of a duress session is only simulated, *)
(* and its answer is preceded by its alert and by that of the login; one of *)
(* a real session is never simulated.  The session may be revoked, and the  *)
(* request cut off, between any two of the steps.                           *)
DuressTransferIsDecoy ==
  \A s \in SessionIds :
    /\ <<s, "executed">> \in answers => sessions[s].mode = "real"
    /\ <<s, "simulated">> \in answers =>
         /\ sessions[s].mode = "duress"
         /\ {<<s, "DURESS_LOGIN">>, <<s, "DURESS_TRANSFER_ATTEMPT">>} \subseteq alerts
         /\ <<s, "transfer_duress_simulated">> \in auditLog

TokensOf(s, state) ==
  {t \in TokenIds : refreshTokens[t].session = s /\ refreshTokens[t].state = state}

Life == [s \in SessionIds |->
  [state   |-> sessions[s].state,
   current |-> TokensOf(s, "active"),
   spent   |-> TokensOf(s, "revoked")]]

Lives == INSTANCE SessionLife WITH
           Sessions <- SessionIds, Tokens <- TokenIds, life <- Life

(* The two tables, written by requests that interleave between any two      *)
(* transactions and may be cut off there, keep the promise of SessionLife.  *)
ImplementsSessionLife == Lives!Spec
===============================================================================
