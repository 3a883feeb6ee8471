--------------------------- MODULE SilentAlarmProofs ---------------------------
(***************************************************************************)
(* A duress session raises its alarms before it is answered.               *)
(*                                                                         *)
(* AlarmBeforeTokens: wherever requests are cut off, a token of a duress   *)
(* session is delivered only after the silent alarm was queued.  The tables*)
(* say nothing of a login that is half done.  AlarmInv follows it: the     *)
(* session has the mode the thread remembers, the token stored is of that  *)
(* session, and a thread that holds a token it may answer with, or that a  *)
(* client presented, holds one whose session has raised its alarm.         *)
(*                                                                         *)
(* DuressTransferIsDecoy: a transfer of a duress session is only simulated,*)
(* and answered after its alert, its record and the alert of the login.    *)
(* The handler keeps the mode in a local variable while the session may be *)
(* revoked.  TransferInv says that this is the session's own mode, which a *)
(* row never changes, and what was queued and recorded when the thread     *)
(* reached each of its steps.                                              *)
(***************************************************************************)
EXTENDS AuthServiceProofs

Alarmed(s) ==
  sessions[s].mode = "duress" => <<s, "DURESS_LOGIN">> \in alerts

CallAlarmed(r) ==
  /\ call[r].pc \in Opening => sessions[call[r].session].mode = call[r].mode
  /\ call[r].pc \in {"activateDuress", "enqueueLogin"} =>
       refreshTokens[call[r].minted].session = call[r].session
  /\ call[r].pc \in Presented \cup Transferring => Alarmed(call[r].session)
  /\ call[r].pc \in {"logRotated", "reply"} =>
       Alarmed(refreshTokens[call[r].minted].session)

AlarmInv ==
  /\ \A t \in delivered : Alarmed(refreshTokens[t].session)
  /\ \A r \in Threads : CallAlarmed(r)

-------------------------------------------------------------------------------
(* What exists keeps its session and its mode, alerts are not unraised and  *)
(* records not unwritten.                                                   *)
Grows ==
  /\ \A s \in 1..lastSession : sessions'[s].mode = sessions[s].mode
  /\ \A t \in 1..lastToken : refreshTokens'[t].session = refreshTokens[t].session
  /\ 1..lastSession \subseteq 1..lastSession'
  /\ alerts \subseteq alerts'
  /\ auditLog \subseteq auditLog'

LEMMA ServeGrows ==
  ASSUME ServiceInv, NEW r \in Threads, Serve(r)
  PROVE  Grows
<1>1. /\ 1..lastSession \subseteq SessionIds
      /\ 1..lastToken \subseteq TokenIds
      /\ lastSession \in Nat
      /\ lastToken \in Nat
  BY StoreAssumption DEF ServiceInv, ServiceTypeOK, SessionIds, TokenIds
<1>2. /\ \A s \in SessionIds : sessions[s] \in SessionRow
      /\ \A t \in TokenIds : refreshTokens[t] \in TokenRow
      /\ sessions \in [SessionIds -> SessionRow]
      /\ refreshTokens \in [TokenIds -> TokenRow]
  BY DEF ServiceInv, ServiceTypeOK
<1>3. \A s \in 1..lastSession : sessions'[s].mode = sessions[s].mode
  <2>1. CASE LoginCreateSession(r)
    BY <1>1, <1>2, <2>1 DEF LoginCreateSession, CreateSession
  <2>2. CASE KillSession(r)
    BY <1>1, <1>2, <2>2 DEF KillSession, RevokeSession, SessionRow
  <2>3. CASE sessions' = sessions
    BY <2>3
  <2> QED
    BY <2>1, <2>2, <2>3, TransferLeavesTables
    DEF Serve, TransferStep, LogLogin, StoreToken, StoreRefreshToken,
        ActivateDuressMode, EnqueueLogin, Reply, CheckSession, CheckFingerprint,
        CheckActive, Rotate, RotateRefreshToken, LogRotated, CheckKnown, LogInvalid,
        RevokeTokens, RevokeAllRefreshForSession, LogLogout, LogDenied, LogIncident, EnqueueIncident,
        storeVars
<1>4. \A t \in 1..lastToken : refreshTokens'[t].session = refreshTokens[t].session
  <2>1. CASE StoreToken(r)
    BY <1>1, <1>2, <2>1 DEF StoreToken, StoreRefreshToken
  <2>2. CASE Rotate(r) /\ RotateRefreshToken(call[r].token)
    <3> DEFINE n == lastToken + 1
               o == call[r].token
               row == NewToken(refreshTokens[o].session, refreshTokens[o].context, o)
               old == [refreshTokens[o] EXCEPT !.state = "revoked"]
    <3>1. o \in 1..lastToken
      BY <2>2 DEF Rotate, At, ServiceInv, CallsFit, Presented
    <3>2. refreshTokens' = [refreshTokens EXCEPT ![o] = old, ![n] = row]
      BY <1>1, <1>2, <2>2, <3>1 DEF RotateRefreshToken
    <3>3. old.session = refreshTokens[o].session
      BY <1>1, <1>2, <3>1 DEF TokenRow
    <3>4. \A t \in 1..lastToken : t \in TokenIds /\ t # n
      BY <1>1
    <3> HIDE DEF o, n, row, old
    <3> QED
      BY <1>2, <3>1, <3>2, <3>3, <3>4
  <2>3. CASE RevokeTokens(r)
    BY <1>1, <1>2, <2>3 DEF RevokeTokens, RevokeAllRefreshForSession, TokenRow
  <2>4. CASE refreshTokens' = refreshTokens
    BY <2>4
  <2> QED
    BY <2>1, <2>2, <2>3, <2>4, TransferLeavesTables
    DEF Serve, TransferStep, LoginCreateSession, CreateSession, LogLogin,
        ActivateDuressMode, EnqueueLogin, Reply, CheckSession, CheckFingerprint,
        CheckActive, Rotate, LogRotated, CheckKnown, LogInvalid, KillSession,
        RevokeSession, LogLogout, LogDenied,
        LogIncident, EnqueueIncident, storeVars
<1>5. alerts \subseteq alerts'
  BY DEF Serve, LoginCreateSession, LogLogin, StoreToken, ActivateDuressMode,
     EnqueueLogin, Reply, CheckSession, CheckFingerprint, CheckActive, Rotate,
     LogRotated, CheckKnown, LogInvalid, RevokeTokens, KillSession, LogDenied,
     LogIncident, EnqueueIncident, LogLogout, ReadMode, EnqueueTransfer,
     LogTransfer, AnswerTransfer, Enqueues
<1>6. auditLog \subseteq auditLog'
  BY DEF Serve, LoginCreateSession, LogLogin, StoreToken, ActivateDuressMode,
     EnqueueLogin, Reply, CheckSession, CheckFingerprint, CheckActive, Rotate,
     LogRotated, CheckKnown, LogInvalid, RevokeTokens, KillSession, LogDenied,
     LogIncident, EnqueueIncident, LogLogout, ReadMode, EnqueueTransfer,
     LogTransfer, AnswerTransfer, Logs
<1>7. 1..lastSession \subseteq 1..lastSession'
  <2>1. lastSession' = lastSession \/ lastSession' = lastSession + 1
    BY TransferLeavesTables
    DEF Serve, TransferStep, LoginCreateSession, CreateSession, LogLogin, StoreToken,
        StoreRefreshToken, ActivateDuressMode, EnqueueLogin, Reply, CheckSession,
        CheckFingerprint, CheckActive, Rotate, RotateRefreshToken, LogRotated,
        CheckKnown, LogInvalid, RevokeTokens, RevokeAllRefreshForSession,
        KillSession, RevokeSession, LogLogout, LogDenied, LogIncident,
        EnqueueIncident, storeVars
  <2> QED
    BY <1>1, <2>1
<1> QED
  BY <1>3, <1>4, <1>5, <1>6, <1>7 DEF Grows

LEMMA NextGrows == ServiceInv /\ Next => Grows
<1> SUFFICES ASSUME ServiceInv, NEW r \in Threads,
                    Serve(r) \/ Receive(r) \/ Abort(r)
             PROVE  Grows
  BY DEF Next
<1>1. CASE Serve(r)
  BY <1>1, ServeGrows
<1>2. CASE Receive(r) \/ Abort(r)
  BY <1>2 DEF Receive, StartLogin, StartRefresh, StartLogout, StartTransfer,
     Abort, storeVars, Grows
<1> QED
  BY <1>1, <1>2

(* A session that raised its alarm has raised it for good.                  *)
LEMMA AlarmedStays ==
  ASSUME Grows, NEW s \in 1..lastSession, Alarmed(s)
  PROVE  Alarmed(s)'
BY DEF Grows, Alarmed

(* The sessions and tokens a thread holds exist.                            *)
LEMMA HeldExist ==
  ASSUME ServiceInv, NEW r \in Threads
  PROVE  /\ call[r].pc \in Opening \cup Presented \cup Transferring
               => call[r].session \in 1..lastSession
         /\ call[r].pc \in Minted =>
              /\ call[r].minted \in 1..lastToken
              /\ refreshTokens[call[r].minted].session \in 1..lastSession
<1>1. \A t \in 1..lastToken : refreshTokens[t].session \in 1..lastSession
  BY StoreAssumption DEF ServiceInv, ServiceTypeOK, TokensFit, TokenIds
<1> QED
  BY <1>1 DEF ServiceInv, LoginsFit, CallsFit

(* A thread that keeps its session and its minted token, and whose position *)
(* asks no more of it than before, stays as it was.                         *)
LEMMA CallKeeps ==
  ASSUME ServiceInv, Grows, NEW r \in Threads, CallAlarmed(r),
         call'[r].session = call[r].session,
         call'[r].mode = call[r].mode,
         call'[r].minted = call[r].minted,
         call'[r].pc \in Opening => call[r].pc \in Opening,
         call'[r].pc \in {"activateDuress", "enqueueLogin"} =>
           call[r].pc \in {"activateDuress", "enqueueLogin"},
         call'[r].pc \in Presented \cup Transferring =>
           call[r].pc \in Presented \cup Transferring,
         call'[r].pc \in {"logRotated", "reply"} =>
           call[r].pc \in {"logRotated", "reply"}
  PROVE  CallAlarmed(r)'
<1> USE HeldExist
<1>1. call'[r].pc \in Opening => sessions'[call[r].session].mode = call[r].mode
  BY DEF CallAlarmed, Grows
<1>2. call'[r].pc \in {"activateDuress", "enqueueLogin"} =>
        refreshTokens'[call[r].minted].session = call[r].session
  BY DEF CallAlarmed, Grows, Minted
<1>3. call'[r].pc \in Presented \cup Transferring => Alarmed(call[r].session)'
  <2> HAVE call'[r].pc \in Presented \cup Transferring
  <2>1. Alarmed(call[r].session) /\ call[r].session \in 1..lastSession
    BY DEF CallAlarmed
  <2> QED
    BY <2>1 DEF Alarmed, Grows
<1>4. call'[r].pc \in {"logRotated", "reply"} =>
        Alarmed(refreshTokens[call[r].minted].session)'
  <2> HAVE call'[r].pc \in {"logRotated", "reply"}
  <2>1. /\ Alarmed(refreshTokens[call[r].minted].session)
        /\ refreshTokens[call[r].minted].session \in 1..lastSession
        /\ call[r].minted \in 1..lastToken
    BY DEF CallAlarmed, Minted
  <2> QED
    BY <2>1 DEF Alarmed, Grows
<1> QED
  BY <1>1, <1>2, <1>3, <1>4 DEF CallAlarmed, Alarmed

-------------------------------------------------------------------------------
(* The login: the mode goes into the session row, the token into the same   *)
(* session, and the alarm of a duress session into the queue before the     *)
(* answer.                                                                  *)
LEMMA LoginCallKeeps ==
  ASSUME ServiceInv, AlarmInv, Grows, NEW r \in Threads,
         \/ LoginCreateSession(r) \/ LogLogin(r) \/ StoreToken(r)
         \/ ActivateDuressMode(r) \/ EnqueueLogin(r) \/ Reply(r)
  PROVE  CallAlarmed(r)'
<1> USE DEF Opening, Presented, Transferring
<1>1. CallAlarmed(r) /\ call[r] \in Call /\ call \in [Threads -> Call]
  BY DEF AlarmInv, ServiceInv, ServiceTypeOK
<1>2. CASE LoginCreateSession(r)
  <2>1. /\ lastSession + 1 \in SessionIds
        /\ sessions \in [SessionIds -> SessionRow]
    BY <1>2, StoreAssumption
    DEF LoginCreateSession, CreateSession, ServiceInv, ServiceTypeOK, SessionIds
  <2>2. /\ call'[r].pc = "logLogin"
        /\ call'[r].session = lastSession + 1
        /\ call'[r].mode = call[r].mode
        /\ sessions'[lastSession + 1].mode = call[r].mode
    BY <1>1, <1>2, <2>1 DEF LoginCreateSession, CreateSession, Call
  <2> QED
    BY <2>2 DEF CallAlarmed
<1>3. CASE LogLogin(r)
  BY <1>1, <1>3, CallKeeps DEF LogLogin, At, Goto, Call
<1>4. CASE StoreToken(r)
  <2> DEFINE s == call[r].session
             n == lastToken + 1
  <2>1. /\ call[r].pc \in Opening
        /\ sessions[s].mode = call[r].mode
        /\ sessions' = sessions
        /\ n \in TokenIds
        /\ refreshTokens \in [TokenIds -> TokenRow]
    BY <1>1, <1>4, StoreAssumption
    DEF StoreToken, StoreRefreshToken, At, CallAlarmed, ServiceInv, ServiceTypeOK,
        TokenIds
  <2>2. /\ call'[r].pc = IF call[r].mode = "duress" THEN "activateDuress" ELSE "reply"
        /\ call'[r].session = s
        /\ call'[r].minted = n
    BY <1>1, <1>4 DEF StoreToken, Call
  <2>3. refreshTokens'[n].session = s
    BY <1>4, <2>1 DEF StoreToken, StoreRefreshToken, NewToken
  <2>4. CASE call[r].mode = "duress"
    <3>1. call'[r].pc = "activateDuress"
      BY <2>2, <2>4
    <3> QED
      BY <2>2, <2>3, <3>1 DEF CallAlarmed
  <2>5. CASE call[r].mode # "duress"
    <3>1. call'[r].pc = "reply"
      BY <2>2, <2>5
    <3>2. sessions'[s].mode # "duress"
      BY <2>1, <2>5
    <3> QED
      BY <2>2, <2>3, <3>1, <3>2 DEF CallAlarmed, Alarmed
  <2> QED
    BY <2>4, <2>5
<1>5. CASE ActivateDuressMode(r)
  BY <1>1, <1>5, CallKeeps DEF ActivateDuressMode, At, Goto, Call
<1>6. CASE EnqueueLogin(r)
  <2>1. /\ call'[r].pc = "reply"
        /\ call'[r].session = call[r].session
        /\ call'[r].minted = call[r].minted
        /\ refreshTokens' = refreshTokens
        /\ <<call[r].session, "DURESS_LOGIN">> \in alerts'
    BY <1>1, <1>6 DEF EnqueueLogin, Goto, Enqueues, Call, storeVars
  <2>2. refreshTokens[call[r].minted].session = call[r].session
    BY <1>1, <1>6 DEF EnqueueLogin, At, CallAlarmed
  <2> QED
    BY <2>1, <2>2 DEF CallAlarmed, Alarmed
<1>7. CASE Reply(r)
  BY <1>1, <1>7 DEF Reply, Return, Idle, CallAlarmed
<1> QED
  BY <1>2, <1>3, <1>4, <1>5, <1>6, <1>7

(* A refresh or logout works with a token that was delivered; the token it  *)
(* mints is of the same session.                                            *)
LEMMA RequestCallKeeps ==
  ASSUME ServiceInv, AlarmInv, Grows, NEW r \in Threads,
         \/ CheckSession(r) \/ CheckFingerprint(r) \/ CheckActive(r)
         \/ Rotate(r) \/ LogRotated(r) \/ CheckKnown(r) \/ LogInvalid(r)
         \/ RevokeTokens(r) \/ KillSession(r) \/ LogLogout(r)
         \/ LogDenied(r) \/ LogIncident(r) \/ EnqueueIncident(r)
  PROVE  CallAlarmed(r)'
<1> USE DEF Opening, Presented, Transferring
<1>1. CallAlarmed(r) /\ call[r] \in Call /\ call \in [Threads -> Call]
  BY DEF AlarmInv, ServiceInv, ServiceTypeOK
<1>2. CASE CheckSession(r)
  BY <1>1, <1>2, CallKeeps DEF CheckSession, At, Goto, Call
<1>3. CASE CheckFingerprint(r)
  BY <1>1, <1>3, CallKeeps DEF CheckFingerprint, At, Goto, Call
<1>4. CASE CheckActive(r)
  BY <1>1, <1>4, CallKeeps DEF CheckActive, At, Goto, Call
<1>5. CASE Rotate(r)
  <2>1. CASE RotateRefreshToken(call[r].token) /\ call'[r].pc = "logRotated"
    <3> DEFINE n == lastToken + 1
               o == call[r].token
               s == call[r].session
    <3>1. /\ o \in 1..lastToken
          /\ s = refreshTokens[o].session
          /\ Alarmed(s)
          /\ s \in 1..lastSession
      BY <1>1, <1>5, HeldExist DEF Rotate, At, CallAlarmed, ServiceInv, CallsFit
    <3>2. /\ n \in TokenIds
          /\ o \in TokenIds
          /\ refreshTokens \in [TokenIds -> TokenRow]
      BY <2>1, <3>1, StoreAssumption
      DEF RotateRefreshToken, ServiceInv, ServiceTypeOK, TokenIds
    <3>3. /\ call'[r].session = s
          /\ call'[r].minted = n
      BY <1>1, <1>5, <2>1 DEF Rotate, Goto, Call
    <3>4. refreshTokens'[n].session = s
      BY <2>1, <3>1, <3>2 DEF RotateRefreshToken, NewToken
    <3>5. sessions'[s].mode = "duress" => <<s, "DURESS_LOGIN">> \in alerts'
      BY <3>1 DEF Alarmed, Grows
    <3> QED
      BY <2>1, <3>3, <3>4, <3>5 DEF CallAlarmed, Alarmed
  <2>2. CASE Goto(r, "logInvalid")
    BY <1>1, <1>5, <2>2, CallKeeps DEF Rotate, At, Goto, Call
  <2> QED
    BY <1>1, <1>5, <2>1, <2>2 DEF Rotate, Call
<1>6. CASE LogRotated(r)
  BY <1>1, <1>6, CallKeeps DEF LogRotated, At, Goto, Call
<1>7. CASE CheckKnown(r)
  BY <1>1, <1>7, CallKeeps DEF CheckKnown, At, Goto, Call
<1>8. CASE LogInvalid(r) \/ EnqueueIncident(r) \/ LogLogout(r)
  BY <1>1, <1>8 DEF LogInvalid, EnqueueIncident, LogLogout, Return, Idle, CallAlarmed
<1>9. CASE RevokeTokens(r)
  BY <1>1, <1>9, CallKeeps DEF RevokeTokens, At, Goto, Call
<1>10. CASE KillSession(r)
  <2> DEFINE label == IF call[r].reason = "logout" THEN "logLogout" ELSE "logDenied"
  <2>1. label \in {"logLogout", "logDenied"}
    OBVIOUS
  <2>2. call' = [call EXCEPT ![r].pc = label] /\ call[r].pc = "revokeSession"
    BY <1>10 DEF KillSession, At, Goto
  <2> HIDE DEF label
  <2> QED
    BY <1>1, <2>1, <2>2, CallKeeps DEF Call
<1>11. CASE LogDenied(r) \/ LogIncident(r)
  BY <1>1, <1>11, CallKeeps DEF LogDenied, LogIncident, At, Goto, Call
<1> QED
  BY <1>2, <1>3, <1>4, <1>5, <1>6, <1>7, <1>8, <1>9, <1>10, <1>11

LEMMA ReceiveCallKeeps ==
  ASSUME ServiceInv, AlarmInv, Grows, NEW r \in Threads, Receive(r) \/ Abort(r)
  PROVE  CallAlarmed(r)'
<1> USE DEF Opening, Presented, Transferring
<1>1. call \in [Threads -> Call]
  BY DEF ServiceInv, ServiceTypeOK
<1>2. CASE Abort(r)
  BY <1>1, <1>2 DEF Abort, Return, Idle, CallAlarmed
<1>3. CASE \E mode \in Modes, c \in Contexts : StartLogin(r, mode, c)
  BY <1>1, <1>3 DEF StartLogin, Idle, CallAlarmed
<1>4. ASSUME NEW t \in TokenIds, t \in delivered,
             UNCHANGED <<sessions, refreshTokens, alerts>>,
             call'[r].pc \in {"checkSession", "revokeTokens", "readMode"},
             call'[r].session = refreshTokens[t].session
      PROVE  CallAlarmed(r)'
  <2>1. Alarmed(refreshTokens[t].session)
    BY <1>4 DEF AlarmInv
  <2> QED
    BY <1>4, <2>1 DEF CallAlarmed, Alarmed
<1>5. CASE \E t \in TokenIds, c \in Contexts : StartRefresh(r, t, c)
  BY <1>1, <1>4, <1>5 DEF StartRefresh, Idle, storeVars
<1>6. CASE \E t \in TokenIds : StartLogout(r, t)
  BY <1>1, <1>4, <1>6 DEF StartLogout, Idle, storeVars
<1>7. CASE \E t \in TokenIds : StartTransfer(r, t)
  BY <1>1, <1>4, <1>7 DEF StartTransfer, Idle, storeVars
<1> QED
  BY <1>2, <1>3, <1>5, <1>6, <1>7 DEF Receive

(* A transfer keeps the session it came with.                               *)
LEMMA TransferCallKeeps ==
  ASSUME ServiceInv, AlarmInv, Grows, NEW r \in Threads, TransferStep(r)
  PROVE  CallAlarmed(r)'
<1> USE DEF Opening, Presented, Transferring
<1>1. CallAlarmed(r) /\ call[r] \in Call /\ call \in [Threads -> Call]
  BY DEF AlarmInv, ServiceInv, ServiceTypeOK
<1>2. CASE call'[r] = Idle
  BY <1>2 DEF Idle, CallAlarmed
<1>3. ASSUME call[r].pc \in Transferring, call'[r].pc \in Transferring,
             call'[r].session = call[r].session
      PROVE  CallAlarmed(r)'
  <2>1. Alarmed(call[r].session) /\ call[r].session \in 1..lastSession
    BY <1>1, <1>3, HeldExist DEF CallAlarmed
  <2>2. sessions'[call[r].session].mode = "duress"
          => <<call[r].session, "DURESS_LOGIN">> \in alerts'
    BY <2>1 DEF Grows, Alarmed
  <2> QED
    BY <1>3, <2>2 DEF CallAlarmed, Alarmed
<1>4. CASE ReadMode(r)
  <2>1. CASE call' = [call EXCEPT ![r].pc = "logTransfer"]
    BY <1>1, <1>3, <1>4, <2>1 DEF ReadMode, At, Call
  <2>2. ASSUME NEW label \in {"enqueueTransfer", "logTransfer"}, NEW mode,
               call' = [call EXCEPT ![r].pc = label, ![r].mode = mode]
        PROVE  CallAlarmed(r)'
    BY <1>1, <1>3, <1>4, <2>2 DEF ReadMode, At, Call
  <2>3. (IF sessions[call[r].session].mode = "duress"
           THEN "enqueueTransfer" ELSE "logTransfer") \in {"enqueueTransfer", "logTransfer"}
    OBVIOUS
  <2> QED
    BY <1>4, <2>1, <2>2, <2>3 DEF ReadMode, Goto
<1>5. CASE EnqueueTransfer(r)
  BY <1>1, <1>3, <1>5 DEF EnqueueTransfer, At, Goto, Call
<1>6. CASE LogTransfer(r)
  BY <1>1, <1>2, <1>3, <1>6 DEF LogTransfer, At, Goto, Return, Call
<1>7. CASE AnswerTransfer(r)
  BY <1>1, <1>2, <1>7 DEF AnswerTransfer, Return
<1> QED
  BY <1>4, <1>5, <1>6, <1>7 DEF TransferStep

-------------------------------------------------------------------------------
(* A step of one thread leaves what the others hold.                        *)
LEMMA OtherCallsStay ==
  ASSUME ServiceInv, NEW r \in Threads, Serve(r) \/ Receive(r) \/ Abort(r),
         NEW q \in Threads, q # r
  PROVE  call'[q] = call[q]
BY DEF Serve, LoginCreateSession, LogLogin, StoreToken, ActivateDuressMode,
   EnqueueLogin, Reply, CheckSession, CheckFingerprint, CheckActive, Rotate,
   LogRotated, CheckKnown, LogInvalid, RevokeTokens, KillSession, LogDenied,
   LogIncident, EnqueueIncident, LogLogout, ReadMode, EnqueueTransfer,
   LogTransfer, AnswerTransfer, Receive, StartLogin, StartRefresh,
   StartLogout, StartTransfer, Abort, Goto, Return, ServiceInv, ServiceTypeOK

LEMMA AlarmNext == ServiceInv /\ AlarmInv /\ [Next]_vars => AlarmInv'
<1> SUFFICES ASSUME ServiceInv, AlarmInv, [Next]_vars PROVE AlarmInv'
  OBVIOUS
<1>1. CASE Next
  <2>1. PICK r \in Threads : Serve(r) \/ Receive(r) \/ Abort(r)
    BY <1>1 DEF Next
  <2>2. Grows
    BY <1>1, NextGrows
  <2>3. CallAlarmed(r)'
    BY <2>1, <2>2, LoginCallKeeps, RequestCallKeeps, ReceiveCallKeeps,
       TransferCallKeeps
    DEF Serve, TransferStep
  <2>4. ASSUME NEW q \in Threads, q # r PROVE CallAlarmed(q)'
    <3>1. call'[q] = call[q]
      BY <2>1, <2>4, OtherCallsStay
    <3>2. CallAlarmed(q)
      BY DEF AlarmInv
    <3> QED
      BY <2>2, <3>1, <3>2, CallKeeps
  <2>5. ASSUME NEW t \in delivered' PROVE Alarmed(refreshTokens[t].session)'
    <3>1. t \in 1..lastToken /\ Alarmed(refreshTokens[t].session)
      <4>1. CASE t \in delivered
        BY <4>1, DeliveredToken DEF AlarmInv
      <4>2. CASE t \notin delivered
        <5>1. Reply(r) /\ t = call[r].minted
          BY <2>1, <2>5, <4>2
          DEF Serve, LoginCreateSession, LogLogin, StoreToken, ActivateDuressMode,
              EnqueueLogin, Reply, CheckSession, CheckFingerprint, CheckActive,
              Rotate, LogRotated, CheckKnown, LogInvalid, RevokeTokens,
              KillSession, LogDenied, LogIncident, EnqueueIncident, LogLogout,
              ReadMode, EnqueueTransfer, LogTransfer, AnswerTransfer, Receive,
              StartLogin, StartRefresh, StartLogout, StartTransfer, Abort
        <5>2. CallAlarmed(r)
          BY DEF AlarmInv
        <5> QED
          BY <5>1, <5>2, HeldExist DEF Reply, At, CallAlarmed, Minted
      <4> QED
        BY <4>1, <4>2
    <3>2. refreshTokens[t].session \in 1..lastSession
      BY <3>1, StoreAssumption DEF ServiceInv, ServiceTypeOK, TokensFit, TokenIds
    <3> QED
      BY <2>2, <3>1, <3>2 DEF Grows, Alarmed
  <2> QED
    BY <2>3, <2>4, <2>5 DEF AlarmInv
<1>2. CASE UNCHANGED vars
  BY <1>2 DEF vars, storeVars, AlarmInv, CallAlarmed, Alarmed
<1> QED
  BY <1>1, <1>2

LEMMA AlarmInvariant == Spec => []AlarmInv
<1>1. Init => AlarmInv
  BY DEF Init, AlarmInv, CallAlarmed, Idle, Opening, Presented, Transferring
<1> QED
  BY <1>1, AlarmNext, ServiceInvariant, PTL DEF Spec

(* The silent alarm of a duress login is in the queue before any token of   *)
(* its session leaves the server, by the login itself or by a refresh,      *)
(* whatever else runs and wherever requests end early.                      *)
THEOREM SilentAlarmFirst == Spec => []AlarmBeforeTokens
<1>1. AlarmInv => AlarmBeforeTokens
  BY DEF AlarmInv, Alarmed, AlarmBeforeTokens
<1> QED
  BY <1>1, AlarmInvariant, PTL

-------------------------------------------------------------------------------

(* Where the mode has been read.                                            *)
Decided == {"enqueueTransfer", "logTransfer", "answerTransfer"}

CallDecoy(r) ==
  /\ call[r].pc = "readMode" => call[r].mode = "none"
  /\ call[r].pc \in Decided /\ call[r].mode # "none"
       => sessions[call[r].session].mode = call[r].mode
  /\ call[r].pc \in {"logTransfer", "answerTransfer"} /\ call[r].mode = "duress"
       => <<call[r].session, "DURESS_TRANSFER_ATTEMPT">> \in alerts
  /\ call[r].pc = "answerTransfer" => call[r].mode # "none"
  /\ call[r].pc = "answerTransfer" /\ call[r].mode = "duress"
       => <<call[r].session, "transfer_duress_simulated">> \in auditLog

AnswerFits(s) ==
  /\ <<s, "executed">> \in answers \/ <<s, "simulated">> \in answers
       => s \in 1..lastSession
  /\ <<s, "executed">> \in answers => sessions[s].mode = "real"
  /\ <<s, "simulated">> \in answers =>
       /\ sessions[s].mode = "duress"
       /\ <<s, "DURESS_LOGIN">> \in alerts
       /\ <<s, "DURESS_TRANSFER_ATTEMPT">> \in alerts
       /\ <<s, "transfer_duress_simulated">> \in auditLog

TransferInv ==
  /\ \A s \in SessionIds : AnswerFits(s)
  /\ \A r \in Threads : CallDecoy(r)

-------------------------------------------------------------------------------
(* Nobody else's step disturbs a transfer.                                  *)
LEMMA DecoyKeeps ==
  ASSUME ServiceInv, Grows, NEW r \in Threads, CallDecoy(r), call'[r] = call[r]
  PROVE  CallDecoy(r)'
<1>1. call[r].pc \in Decided => call[r].session \in 1..lastSession
  BY DEF ServiceInv, CallsFit, Transferring, Decided
<1>2. call'[r].pc \in Decided /\ call'[r].mode # "none"
        => sessions'[call'[r].session].mode = call'[r].mode
  BY <1>1 DEF CallDecoy, Grows
<1> QED
  BY <1>2 DEF CallDecoy, Grows

(* The other requests answer no transfer and read no mode.                  *)
LEMMA OthersKeep ==
  ASSUME ServiceInv, NEW r \in Threads,
         (Serve(r) /\ ~TransferStep(r)) \/ Receive(r) \/ Abort(r)
  PROVE  /\ call'[r].pc \notin Decided
         /\ call'[r].pc = "readMode" => call'[r].mode = "none"
         /\ answers' = answers
<1>1. call[r] \in Call /\ call \in [Threads -> Call]
  BY DEF ServiceInv, ServiceTypeOK
<1>2. answers' = answers
  BY DEF Serve, TransferStep, LoginCreateSession, LogLogin, StoreToken,
     ActivateDuressMode, EnqueueLogin, Reply, CheckSession, CheckFingerprint,
     CheckActive, Rotate, LogRotated, CheckKnown, LogInvalid, RevokeTokens,
     KillSession, LogLogout, LogDenied, LogIncident, EnqueueIncident, Receive,
     StartLogin, StartRefresh, StartLogout, StartTransfer, Abort
<1>3. CASE \/ LoginCreateSession(r) \/ LogLogin(r) \/ StoreToken(r)
           \/ ActivateDuressMode(r) \/ EnqueueLogin(r) \/ Reply(r)
  BY <1>1, <1>3
  DEF LoginCreateSession, LogLogin, StoreToken, ActivateDuressMode, EnqueueLogin,
      Reply, Goto, Return, Idle, Call, Decided
<1>4. CASE \/ CheckSession(r) \/ CheckFingerprint(r) \/ CheckActive(r)
           \/ Rotate(r) \/ LogRotated(r) \/ CheckKnown(r) \/ LogInvalid(r)
  BY <1>1, <1>4
  DEF CheckSession, CheckFingerprint, CheckActive, Rotate, LogRotated, CheckKnown,
      LogInvalid, Goto, Return, Idle, Call, Decided
<1>5. CASE \/ RevokeTokens(r) \/ KillSession(r) \/ LogLogout(r) \/ LogDenied(r)
           \/ LogIncident(r) \/ EnqueueIncident(r)
  BY <1>1, <1>5
  DEF RevokeTokens, KillSession, LogLogout, LogDenied, LogIncident,
      EnqueueIncident, Goto, Return, Idle, Call, Decided
<1>6. CASE Receive(r)
  <2>1. CASE \E mode \in Modes, c \in Contexts : StartLogin(r, mode, c)
    BY <1>1, <2>1 DEF StartLogin, Idle, Decided
  <2>2. CASE \E t \in TokenIds, c \in Contexts : StartRefresh(r, t, c)
    BY <1>1, <2>2 DEF StartRefresh, Idle, Decided
  <2>3. CASE \E t \in TokenIds : StartLogout(r, t)
    BY <1>1, <2>3 DEF StartLogout, Idle, Decided
  <2>4. CASE \E t \in TokenIds : StartTransfer(r, t)
    BY <1>1, <2>4 DEF StartTransfer, Idle, Decided
  <2> QED
    BY <1>6, <2>1, <2>2, <2>3, <2>4 DEF Receive
<1>7. CASE Abort(r)
  BY <1>1, <1>7 DEF Abort, Return, Idle, Decided
<1> QED
  BY <1>2, <1>3, <1>4, <1>5, <1>6, <1>7 DEF Serve, TransferStep

(* A transfer remembers the mode of its session and does its work in order. *)
LEMMA TransferDecoyKeeps ==
  ASSUME ServiceInv, TransferInv, NEW r \in Threads, TransferStep(r)
  PROVE  CallDecoy(r)'
<1> DEFINE s == call[r].session
<1>1. /\ CallDecoy(r)
      /\ call[r] \in Call
      /\ call \in [Threads -> Call]
      /\ sessions' = sessions
  BY TransferLeavesTables DEF TransferInv, ServiceInv, ServiceTypeOK
<1>2. CASE call'[r] = Idle
  BY <1>2 DEF Idle, CallDecoy, Decided
<1>3. CASE ReadMode(r)
  <2>1. CASE Goto(r, "logTransfer") /\ call[r].mode = "none"
    BY <1>1, <2>1 DEF Goto, Call, CallDecoy
  <2>2. CASE IsSessionActive(s)
    <3> DEFINE mode == sessions[s].mode
               label == IF mode = "duress" THEN "enqueueTransfer" ELSE "logTransfer"
    <3>1. call' = [call EXCEPT ![r].pc = label, ![r].mode = mode]
      BY <1>3, <2>2 DEF ReadMode
    <3>2. label = "logTransfer" => mode # "duress"
      OBVIOUS
    <3>3. label \in {"enqueueTransfer", "logTransfer"}
      OBVIOUS
    <3> HIDE DEF label
    <3>4. /\ call'[r].pc = label
          /\ call'[r].mode = mode
          /\ call'[r].session = s
      BY <1>1, <3>1 DEF Call
    <3> QED
      BY <1>1, <3>2, <3>3, <3>4 DEF CallDecoy
  <2> QED
    BY <1>1, <1>3, <2>1, <2>2 DEF ReadMode, At, CallDecoy
<1>4. CASE EnqueueTransfer(r)
  BY <1>1, <1>4 DEF EnqueueTransfer, At, Goto, Enqueues, Call, CallDecoy, Decided
<1>5. CASE LogTransfer(r)
  <2>1. CASE call[r].mode = "none"
    BY <1>1, <1>2, <1>5, <2>1 DEF LogTransfer, Return
  <2>2. CASE call[r].mode # "none"
    BY <1>1, <1>5, <2>2
    DEF LogTransfer, At, Goto, Logs, TransferEvent, Call, CallDecoy, Decided
  <2> QED
    BY <2>1, <2>2
<1>6. CASE AnswerTransfer(r)
  BY <1>1, <1>2, <1>6 DEF AnswerTransfer, Return
<1> QED
  BY <1>3, <1>4, <1>5, <1>6 DEF TransferStep

-------------------------------------------------------------------------------
LEMMA AnswersKeep ==
  ASSUME ServiceInv, AlarmInv, TransferInv, Grows, NEW r \in Threads,
         Serve(r) \/ Receive(r) \/ Abort(r), NEW s \in SessionIds
  PROVE  AnswerFits(s)'
<1>1. AnswerFits(s)
  BY DEF TransferInv
<1>2. CASE answers' = answers
  BY <1>1, <1>2 DEF AnswerFits, Grows
<1>3. CASE AnswerTransfer(r)
  <2>1. CallDecoy(r) /\ CallAlarmed(r) /\ call[r] \in Call
    BY DEF TransferInv, AlarmInv, ServiceInv, ServiceTypeOK
  <2>2. /\ call[r].pc = "answerTransfer"
        /\ call[r].session \in 1..lastSession
    BY <1>3 DEF AnswerTransfer, At, ServiceInv, CallsFit, Transferring
  <2>3. CASE call[r].mode = "duress"
    BY <1>1, <1>3, <2>1, <2>2, <2>3
    DEF AnswerTransfer, AnswerFits, CallDecoy, CallAlarmed, Alarmed, Decided,
        Transferring, Grows, storeVars
  <2>4. CASE call[r].mode = "real"
    BY <1>1, <1>3, <2>1, <2>2, <2>4
    DEF AnswerTransfer, AnswerFits, CallDecoy, Decided, Grows, storeVars
  <2> QED
    BY <2>1, <2>2, <2>3, <2>4 DEF CallDecoy, Call, Modes
<1> QED
  BY <1>2, <1>3, OthersKeep
  DEF TransferStep, ReadMode, EnqueueTransfer, LogTransfer

LEMMA TransferNext == ServiceInv /\ AlarmInv /\ TransferInv /\ [Next]_vars => TransferInv'
<1> SUFFICES ASSUME ServiceInv, AlarmInv, TransferInv, [Next]_vars PROVE TransferInv'
  OBVIOUS
<1>1. CASE Next
  <2>1. PICK r \in Threads : Serve(r) \/ Receive(r) \/ Abort(r)
    BY <1>1 DEF Next
  <2>2. Grows
    BY <1>1, NextGrows
  <2>3. CallDecoy(r)'
    BY <2>1, OthersKeep, TransferDecoyKeeps DEF CallDecoy, Decided, TransferStep
  <2>4. ASSUME NEW q \in Threads, q # r PROVE CallDecoy(q)'
    BY <2>1, <2>2, <2>4, OtherCallsStay, DecoyKeeps DEF TransferInv
  <2>5. \A s \in SessionIds : AnswerFits(s)'
    BY <2>1, <2>2, AnswersKeep
  <2> QED
    BY <2>3, <2>4, <2>5 DEF TransferInv
<1>2. CASE UNCHANGED vars
  BY <1>2 DEF vars, storeVars, TransferInv, CallDecoy, AnswerFits
<1> QED
  BY <1>1, <1>2

(* Whoever transfers money in a duress session is told a success that moves *)
(* nothing, and the alert of the transfer is in the queue by then; no       *)
(* transfer of a real session is swallowed.                                 *)
THEOREM DuressTransfersAreDecoys == Spec => []DuressTransferIsDecoy
<1>1. Init => TransferInv
  BY DEF Init, TransferInv, CallDecoy, AnswerFits, Idle, Decided
<1>2. TransferInv => DuressTransferIsDecoy
  BY DEF TransferInv, AnswerFits, DuressTransferIsDecoy
<1>3. Spec => []AlarmInv
  BY AlarmInvariant
<1> QED
  BY <1>1, <1>2, <1>3, TransferNext, ServiceInvariant, PTL DEF Spec

-------------------------------------------------------------------------------
(* What an incident's revocation owes: a thread between the revocation and  *)
(* the end of its request still reports, and it enqueues after it logged.   *)
Reporting == {"logDenied", "logIncident", "enqueueIncident"}

Reported(s, reason) ==
  /\ <<s, AlertOf(reason)>> \in alerts
  /\ <<s, IncidentEvent(reason)>> \in auditLog

Reports(r, s, reason) ==
  call[r].pc \in Reporting /\ call[r].session = s /\ call[r].reason = reason

CallRecorded(r) ==
  call[r].pc = "enqueueIncident"
    => <<call[r].session, IncidentEvent(call[r].reason)>> \in auditLog

IncidentInv ==
  /\ IncidentsInHand
  /\ \A r \in Threads : CallRecorded(r)

(* In these terms, IncidentsInHand is about one session and one reason.     *)
InHand(s, reason) ==
  sessions[s].reason = reason
    => Reported(s, reason) \/ \E r \in Threads : Reports(r, s, reason)

LEMMA InHandIs ==
  IncidentsInHand <=> \A s \in SessionIds, reason \in Incidents : InHand(s, reason)
BY DEF IncidentsInHand, InHand, Reported, Reports, Reporting

LEMMA InHandIsPrime ==
  IncidentsInHand' <=> \A s \in SessionIds, reason \in Incidents : InHand(s, reason)'
BY DEF IncidentsInHand, InHand, Reported, Reports, Reporting

(* A thread that is not between its revocation and its report leaves every  *)
(* session in the hands it is in.                                           *)
LEMMA UnrelatedKeeps ==
  ASSUME IncidentInv, Grows, NEW r \in Threads,
         \A q \in Threads \ {r} : call'[q] = call[q],
         call[r].pc \notin Reporting, call'[r].pc # "enqueueIncident",
         \A s \in SessionIds :
           sessions'[s].reason \in Incidents => sessions'[s].reason = sessions[s].reason
  PROVE  IncidentInv'
<1>1. ASSUME NEW s \in SessionIds, NEW reason \in Incidents PROVE InHand(s, reason)'
  <2> SUFFICES ASSUME sessions'[s].reason = reason
               PROVE  Reported(s, reason)' \/ \E q \in Threads : Reports(q, s, reason)'
    BY DEF InHand
  <2>1. Reported(s, reason) \/ \E q \in Threads : Reports(q, s, reason)
    BY InHandIs DEF IncidentInv, InHand
  <2>2. CASE Reported(s, reason)
    BY <2>2 DEF Reported, Grows
  <2>3. ASSUME NEW q \in Threads, Reports(q, s, reason) PROVE Reports(q, s, reason)'
    BY <2>3 DEF Reports
  <2> QED
    BY <2>1, <2>2, <2>3
<1>2. ASSUME NEW q \in Threads PROVE CallRecorded(q)'
  BY DEF IncidentInv, CallRecorded, Grows
<1> QED
  BY <1>1, <1>2, InHandIsPrime DEF IncidentInv

(* Who revokes a session for an incident takes its report in hand.          *)
LEMMA KillTakesInHand ==
  ASSUME ServiceInv, IncidentInv, Grows, NEW r \in Threads, KillSession(r),
         \A q \in Threads \ {r} : call'[q] = call[q]
  PROVE  IncidentInv'
<1> DEFINE k == call[r].session
           label == IF call[r].reason = "logout" THEN "logLogout" ELSE "logDenied"
<1>1. /\ call \in [Threads -> Call]
      /\ sessions \in [SessionIds -> SessionRow]
      /\ call[r].pc = "revokeSession"
      /\ sessions' = [sessions EXCEPT ![k].state = "revoked", ![k].reason = call[r].reason]
      /\ call' = [call EXCEPT ![r].pc = label]
  BY DEF ServiceInv, ServiceTypeOK, KillSession, RevokeSession, At, Goto
<1>2. call[r].reason \in Incidents => label = "logDenied"
  BY DEF Incidents
<1>3. label # "enqueueIncident"
  OBVIOUS
<1> HIDE DEF label
<1>4. /\ call'[r].pc = label
      /\ call'[r].session = k
      /\ call'[r].reason = call[r].reason
  BY <1>1 DEF Call
<1>5. ASSUME NEW s \in SessionIds, NEW reason \in Incidents PROVE InHand(s, reason)'
  <2> SUFFICES ASSUME sessions'[s].reason = reason
               PROVE  Reported(s, reason)' \/ \E q \in Threads : Reports(q, s, reason)'
    BY DEF InHand
  <2>1. CASE s = k
    <3>1. reason = call[r].reason
      BY <1>1, <2>1 DEF SessionRow
    <3> QED
      BY <1>2, <1>4, <2>1, <3>1 DEF Reports, Reporting
  <2>2. CASE s # k
    <3>1. sessions[s].reason = reason
      BY <1>1, <2>2
    <3>2. Reported(s, reason) \/ \E q \in Threads : Reports(q, s, reason)
      BY <3>1, InHandIs DEF IncidentInv, InHand
    <3>3. CASE Reported(s, reason)
      BY <3>3 DEF Reported, Grows
    <3>4. ASSUME NEW q \in Threads, Reports(q, s, reason) PROVE Reports(q, s, reason)'
      BY <1>1, <3>4 DEF Reports, Reporting
    <3> QED
      BY <3>2, <3>3, <3>4
  <2> QED
    BY <2>1, <2>2
<1>6. ASSUME NEW q \in Threads PROVE CallRecorded(q)'
  BY <1>3, <1>4 DEF IncidentInv, CallRecorded, Grows
<1> QED
  BY <1>5, <1>6, InHandIsPrime DEF IncidentInv

(* A reporting thread goes on reporting, with the record before the alert,  *)
(* or has reported.                                                         *)
LEMMA ReportKeeps ==
  ASSUME ServiceInv, IncidentInv, Grows, NEW r \in Threads,
         LogDenied(r) \/ LogIncident(r) \/ EnqueueIncident(r),
         \A q \in Threads \ {r} : call'[q] = call[q]
  PROVE  IncidentInv'
<1> DEFINE s0 == call[r].session
           reason0 == call[r].reason
<1>1. sessions' = sessions /\ call[r] \in Call /\ call \in [Threads -> Call]
  BY DEF LogDenied, LogIncident, EnqueueIncident, storeVars, ServiceInv, ServiceTypeOK
<1>2. \/ /\ call'[r].pc = "logIncident"
         /\ call'[r].session = s0 /\ call'[r].reason = reason0
      \/ /\ call'[r].pc = "enqueueIncident"
         /\ call'[r].session = s0 /\ call'[r].reason = reason0
         /\ <<s0, IncidentEvent(reason0)>> \in auditLog'
      \/ /\ <<s0, AlertOf(reason0)>> \in alerts'
         /\ <<s0, IncidentEvent(reason0)>> \in auditLog'
         /\ call'[r].pc = "idle"
  <2>1. CASE LogDenied(r)
    BY <1>1, <2>1 DEF LogDenied, Goto, Call
  <2>2. CASE LogIncident(r)
    BY <1>1, <2>2 DEF LogIncident, Logs, Goto, Call
  <2>3. CASE EnqueueIncident(r)
    <3>1. <<s0, IncidentEvent(reason0)>> \in auditLog
      BY <2>3 DEF EnqueueIncident, At, IncidentInv, CallRecorded
    <3>2. <<s0, AlertOf(reason0)>> \in alerts' /\ auditLog' = auditLog
      BY <2>3 DEF EnqueueIncident, Enqueues
    <3>3. call'[r].pc = "idle"
      BY <1>1, <2>3 DEF EnqueueIncident, Return, Idle
    <3> QED
      BY <3>1, <3>2, <3>3
  <2> QED
    BY <2>1, <2>2, <2>3
<1>3. ASSUME NEW s \in SessionIds, NEW reason \in Incidents PROVE InHand(s, reason)'
  <2> SUFFICES ASSUME sessions'[s].reason = reason
               PROVE  Reported(s, reason)' \/ \E q \in Threads : Reports(q, s, reason)'
    BY DEF InHand
  <2>1. Reported(s, reason) \/ \E q \in Threads : Reports(q, s, reason)
    BY <1>1, InHandIs DEF IncidentInv, InHand
  <2>2. CASE Reported(s, reason)
    BY <2>2 DEF Reported, Grows
  <2>3. ASSUME NEW q \in Threads, Reports(q, s, reason)
        PROVE  Reported(s, reason)' \/ Reports(q, s, reason)'
    <3>1. CASE q # r
      BY <2>3, <3>1 DEF Reports
    <3>2. CASE q = r
      BY <1>2, <2>3, <3>2 DEF Reports, Reported, Reporting
    <3> QED
      BY <3>1, <3>2
  <2> QED
    BY <2>1, <2>2, <2>3
<1>4. ASSUME NEW q \in Threads PROVE CallRecorded(q)'
  BY <1>2 DEF IncidentInv, CallRecorded, Grows
<1> QED
  BY <1>3, <1>4, InHandIsPrime DEF IncidentInv

(* All other steps of a request begin and end outside the report.           *)
LEMMA OthersReportNothing ==
  ASSUME ServiceInv, IncidentInv, Grows, NEW r \in Threads,
         \A q \in Threads \ {r} : call'[q] = call[q],
         Serve(r) \/ Receive(r),
         ~(KillSession(r) \/ LogDenied(r) \/ LogIncident(r) \/ EnqueueIncident(r))
  PROVE  IncidentInv'
<1>1. /\ call \in [Threads -> Call]
      /\ sessions \in [SessionIds -> SessionRow]
      /\ call[r] \in Call
  BY DEF ServiceInv, ServiceTypeOK
<1>2. CASE LoginCreateSession(r)
  <2>1. /\ call[r].pc = "createSession"
        /\ call'[r].pc = "logLogin"
        /\ sessions' = [sessions EXCEPT ![lastSession + 1] =
             [state |-> "active", mode |-> call[r].mode, reason |-> "none"]]
    BY <1>1, <1>2 DEF LoginCreateSession, CreateSession, At, Call
  <2>2. \A s \in SessionIds :
          sessions'[s].reason \in Incidents => sessions'[s].reason = sessions[s].reason
    BY <1>1, <2>1 DEF Incidents
  <2> QED
    BY <2>1, <2>2, UnrelatedKeeps DEF Reporting
<1>3. CASE Receive(r)
  <2>1. call[r].pc = "idle" /\ sessions' = sessions
    BY <1>3 DEF Receive, StartLogin, StartRefresh, StartLogout, StartTransfer, At, storeVars
  <2>2. call'[r].pc # "enqueueIncident"
    BY <1>1, <1>3 DEF Receive, StartLogin, StartRefresh, StartLogout, StartTransfer, Idle
  <2> QED
    BY <2>1, <2>2, UnrelatedKeeps DEF Reporting
<1>4. CASE \/ LogLogin(r) \/ StoreToken(r) \/ ActivateDuressMode(r)
           \/ EnqueueLogin(r) \/ Reply(r) \/ RevokeTokens(r) \/ LogLogout(r)
  <2>1. call[r].pc \notin Reporting /\ sessions' = sessions
    BY <1>4
    DEF LogLogin, StoreToken, StoreRefreshToken, ActivateDuressMode, EnqueueLogin,
        Reply, RevokeTokens, RevokeAllRefreshForSession, LogLogout, At, Reporting,
        storeVars
  <2>2. call'[r].pc # "enqueueIncident"
    BY <1>1, <1>4
    DEF LogLogin, StoreToken, ActivateDuressMode, EnqueueLogin, Reply,
        RevokeTokens, LogLogout, Goto, Return, Idle, Call
  <2> QED
    BY <2>1, <2>2, UnrelatedKeeps
<1>5. CASE \/ CheckSession(r) \/ CheckFingerprint(r) \/ CheckActive(r)
           \/ Rotate(r) \/ LogRotated(r) \/ CheckKnown(r) \/ LogInvalid(r)
  <2>1. call[r].pc \notin Reporting /\ sessions' = sessions
    BY <1>5
    DEF CheckSession, CheckFingerprint, CheckActive, Rotate, RotateRefreshToken,
        LogRotated, CheckKnown, LogInvalid, At, Reporting, storeVars
  <2>2. call'[r].pc # "enqueueIncident"
    BY <1>1, <1>5
    DEF CheckSession, CheckFingerprint, CheckActive, Rotate, LogRotated,
        CheckKnown, LogInvalid, Goto, Return, Idle, Call
  <2> QED
    BY <2>1, <2>2, UnrelatedKeeps
<1>6. CASE TransferStep(r)
  <2>1. call[r].pc \notin Reporting /\ sessions' = sessions
    BY <1>6, TransferLeavesTables
    DEF TransferStep, ReadMode, EnqueueTransfer, LogTransfer, AnswerTransfer, At,
        Reporting
  <2>2. call'[r].pc # "enqueueIncident"
    BY <1>1, <1>6
    DEF TransferStep, ReadMode, EnqueueTransfer, LogTransfer, AnswerTransfer, Goto,
        Return, Idle, Call
  <2> QED
    BY <2>1, <2>2, UnrelatedKeeps
<1> QED
  BY <1>2, <1>3, <1>4, <1>5, <1>6 DEF Serve, TransferStep

LEMMA IncidentNext ==
  MaxAborts = 0 /\ ServiceInv /\ IncidentInv /\ [Next]_vars => IncidentInv'
<1> SUFFICES ASSUME MaxAborts = 0, ServiceInv, IncidentInv, [Next]_vars
             PROVE  IncidentInv'
  OBVIOUS
<1>1. ASSUME NEW r \in Threads, Serve(r) \/ Receive(r) PROVE IncidentInv'
  <2>1. Grows
    BY <1>1, NextGrows DEF Next
  <2>2. \A q \in Threads \ {r} : call'[q] = call[q]
    BY <1>1, OtherCallsStay
  <2> QED
    BY <1>1, <2>1, <2>2, KillTakesInHand, ReportKeeps, OthersReportNothing
<1>2. ASSUME NEW r \in Threads PROVE ~Abort(r)
  BY DEF Abort, ServiceInv, ServiceTypeOK
<1>3. CASE UNCHANGED vars
  BY <1>3 DEF vars, storeVars, IncidentInv, IncidentsInHand, CallRecorded
<1> QED
  BY <1>1, <1>2, <1>3 DEF Next

(* While no request is cut off, no session stands revoked for an incident   *)
(* without its record and its alert, or a request about to write them.      *)
THEOREM IncidentsAreReported ==
  ASSUME MaxAborts = 0 PROVE Spec => []IncidentsInHand
<1>1. Init => IncidentInv
  BY DEF Init, StoreInit, NoSessionRow, Idle, Incidents, IncidentInv,
         IncidentsInHand, CallRecorded
<1>2. IncidentInv => IncidentsInHand
  BY DEF IncidentInv
<1>3. ServiceInv /\ IncidentInv /\ [Next]_vars => IncidentInv'
  BY IncidentNext
<1> QED
  BY <1>1, <1>2, <1>3, ServiceInvariant, PTL DEF Spec
===============================================================================
