----------------------------- MODULE SessionStore -----------------------------
(***************************************************************************)
(* The tables sessions and refresh_tokens of storage/database.py and the   *)
(* statements over them: auth/sessions.py and auth/refresh_store.py.  Each *)
(* function opens its own connection and commits, so each is one atomic    *)
(* operator; AuthService says in which order the handlers call them.       *)
(*                                                                         *)
(* A session and a refresh token are named by the order of their INSERTs   *)
(* (the code's uuid4 ids and token hashes are only ever compared).  The    *)
(* queries also give the username and the session id: both come from the   *)
(* token's own claims, which were written together with its row, so the    *)
(* token alone determines the row.                                         *)
(***************************************************************************)
EXTENDS Integers

CONSTANTS
  MaxSessions,  \* bound: rows ever inserted in sessions
  MaxTokens,    \* bound: rows ever inserted in refresh_tokens
  Contexts,     \* what a request shows of its sender: ip, user_agent, device_id
  NoHeader      \* the user_agent or device_id of a request that sends none

ASSUME StoreAssumption ==
  /\ MaxSessions \in Nat
  /\ MaxTokens \in Nat
  /\ \A c \in Contexts : DOMAIN c = {"ip", "agent", "device"}

VARIABLES
  sessions,      \* table sessions: [SessionIds -> SessionRow]
  lastSession,   \* sessions inserted so far
  refreshTokens, \* table refresh_tokens: [TokenIds -> TokenRow]
  lastToken      \* refresh tokens inserted so far

storeVars == <<sessions, lastSession, refreshTokens, lastToken>>

SessionIds == 1..MaxSessions
TokenIds == 1..MaxTokens
NoSession == 0
NoToken == 0

Modes == {"real", "duress"}
Incidents == {"fingerprint_mismatch", "refresh_reuse_detected"}

(* state stands for the row being there and its revoked column.             *)
States == {"absent", "active", "revoked"}

SessionRow == [state  : States,
               mode   : Modes \cup {"none"},
               reason : Incidents \cup {"logout", "none"}]

(* parent is history: the token this one was rotated from.                  *)
TokenRow == [state   : States,
             session : SessionIds \cup {NoSession},
             context : Contexts \cup {NoHeader},
             parent  : TokenIds \cup {NoToken}]

NoSessionRow == [state |-> "absent", mode |-> "none", reason |-> "none"]
NoTokenRow == [state |-> "absent", session |-> NoSession,
               context |-> NoHeader, parent |-> NoToken]

StoreInit ==
  /\ sessions = [s \in SessionIds |-> NoSessionRow]
  /\ lastSession = 0
  /\ refreshTokens = [t \in TokenIds |-> NoTokenRow]
  /\ lastToken = 0

-------------------------------------------------------------------------------
(* sessions.py                                                              *)
CreateSession(mode) ==
  /\ lastSession < MaxSessions
  /\ lastSession' = lastSession + 1
  /\ sessions' = [sessions EXCEPT ![lastSession + 1] =
       [state |-> "active", mode |-> mode, reason |-> "none"]]
  /\ UNCHANGED <<refreshTokens, lastToken>>

IsSessionActive(s) == sessions[s].state = "active"

(* Mutant: revoke_session is called without its reason.                     *)
RevokeSessionByDefault(s, reason) ==
  /\ sessions' = [sessions EXCEPT ![s].state = "revoked", ![s].reason = "revoked"]
  /\ UNCHANGED <<lastSession, refreshTokens, lastToken>>

(* No WHERE revoked = 0: a later revocation overwrites the reason.          *)
RevokeSession(s, reason) ==
  /\ sessions' = [sessions EXCEPT ![s].state = "revoked", ![s].reason = reason]
  /\ UNCHANGED <<lastSession, refreshTokens, lastToken>>

-------------------------------------------------------------------------------
(* refresh_store.py                                                         *)
NewToken(s, c, parent) ==
  [state |-> "active", session |-> s, context |-> c, parent |-> parent]

StoreRefreshToken(s, c) ==
  /\ lastToken < MaxTokens
  /\ lastToken' = lastToken + 1
  /\ refreshTokens' =
       [refreshTokens EXCEPT ![lastToken + 1] = NewToken(s, c, NoToken)]
  /\ UNCHANGED <<sessions, lastSession>>

(* Mutant: WHERE session_id = ? is forgotten.                               *)
RevokeAllRefresh(s) ==
  /\ refreshTokens' = [t \in TokenIds |->
       IF refreshTokens[t].state = "active"
         THEN [refreshTokens[t] EXCEPT !.state = "revoked"]
         ELSE refreshTokens[t]]
  /\ UNCHANGED <<sessions, lastSession, lastToken>>

RevokeAllRefreshForSession(s) ==
  /\ refreshTokens' = [t \in TokenIds |->
       IF refreshTokens[t].session = s /\ refreshTokens[t].state = "active"
         THEN [refreshTokens[t] EXCEPT !.state = "revoked"]
         ELSE refreshTokens[t]]
  /\ UNCHANGED <<sessions, lastSession, lastToken>>

IsRefreshTokenActive(t) == refreshTokens[t].state = "active"

IsRefreshTokenKnown(t) == refreshTokens[t].state # "absent"

(* Strict on what was stored, and only on that; the address is not compared *)
(* (STRICT_IP = False).                                                     *)
SameFingerprint(stored, c) ==
  /\ stored.device \in {NoHeader, c.device}
  /\ stored.agent \in {NoHeader, c.agent}

(* The row is looked up with revoked = 0: no active row, no match.          *)
IsRefreshFingerprintOk(t, c) ==
  /\ IsRefreshTokenActive(t)
  /\ SameFingerprint(refreshTokens[t].context, c)

(* Mutant: AND revoked = 0 is forgotten.                                    *)
RotateAnyToken(t) ==
  /\ lastToken < MaxTokens
  /\ lastToken' = lastToken + 1
  /\ refreshTokens' = [refreshTokens EXCEPT
       ![t].state = "revoked",
       ![lastToken + 1] =
         NewToken(refreshTokens[t].session, refreshTokens[t].context, t)]
  /\ UNCHANGED <<sessions, lastSession>>

(* BEGIN IMMEDIATE: revoke the old row and insert the new one under the     *)
(* same session and fingerprint.  Without an active old row nothing happens *)
(* and the call returns False.                                              *)
RotateRefreshToken(t) ==
  /\ IsRefreshTokenActive(t)
  /\ lastToken < MaxTokens
  /\ lastToken' = lastToken + 1
  /\ refreshTokens' = [refreshTokens EXCEPT
       ![t].state = "revoked",
       ![lastToken + 1] =
         NewToken(refreshTokens[t].session, refreshTokens[t].context, t)]
  /\ UNCHANGED <<sessions, lastSession>>
===============================================================================
