------------------------------- MODULE LoginGate -------------------------------
(***************************************************************************)
(* What a login passes before AuthService starts it: the rate limit by     *)
(* address (auth/rate_limiter.py) and the lockout of the account           *)
(* (login_user_service).  Logins run in a thread pool.  The rate limiter   *)
(* is a list per address in the memory of the process, rebuilt and         *)
(* appended to without a lock; the lockout is a row that is read, counted  *)
(* up in Python and written back in another transaction, with two argon2   *)
(* verifications in between.                                               *)
(*                                                                         *)
(* One account: rows of other accounts are never touched.  A login to an   *)
(* account that does not exist passes the rate limit and writes nothing    *)
(* else.  The audit record that follows each outcome is read by no code.   *)
(***************************************************************************)
EXTENDS Integers, FiniteSets

CONSTANTS
  Threads,                \* logins served at one time
  Addresses,              \* the ip of a request
  NoAddress,              \* a request without one is not rate limited
  RateMax,                \* MAX_ATTEMPTS of rate_limiter.py, 10
  Window,                 \* WINDOW_SECONDS, 60
  MaxAttemptsBeforeLock,  \* MAX_ATTEMPTS_BEFORE_LOCK, 5
  BaseLock,               \* BASE_LOCK_SECONDS, 30
  MaxLock,                \* MAX_LOCK_SECONDS, 900
  MaxRequests,            \* bound: logins ever started
  MaxClock                \* bound: the last second

ASSUME GateAssumption ==
  /\ RateMax \in Nat \ {0}
  /\ Window \in Nat
  /\ MaxAttemptsBeforeLock \in Nat \ {0}
  /\ BaseLock \in Nat
  /\ MaxLock \in Nat
  /\ MaxRequests \in Nat
  /\ MaxClock \in Nat
  /\ NoAddress \notin Addresses

VARIABLES
  clock,
  attempts,   \* _ip_attempts: [Addresses -> SUBSET Attempt]
  user,       \* failed_attempts and lock_until of the account's row
  login,      \* the login each thread serves
  requests,   \* logins started so far
  letThrough, \* history: the logins the rate limit let through, by address
  failures,   \* history: bad passwords written to the row
  streak,     \* history: those since the last right one, and the last's time
  raced       \* history: where two logins overlapped: rate limit or row

vars == <<clock, attempts, user, login, requests, letThrough, failures, streak, raced>>

NotLocked == 0

(* The code's lists hold times only and are filtered and counted: a set, in *)
(* which a number tells attempts of the same second apart.                  *)
Attempt == [nth : Nat, at : Nat]

Login == [pc      : {"idle", "filter", "assign", "check", "append", "readUser", "verify"},
          address : Addresses \cup {NoAddress},
          right   : BOOLEAN,     \* the password is one of the account's two
          started : Nat,         \* now of check_ip_rate_limit
          kept    : SUBSET Attempt, \* the list rebuilt without what expired
          failed  : Nat,         \* failed_attempts as it was read
          now     : Nat]         \* now of login_user_service

Idle == [pc |-> "idle", address |-> NoAddress, right |-> FALSE,
         started |-> 0, kept |-> {}, failed |-> 0, now |-> 0]

(* Mutant: the lock doubles without end.                                    *)
CalcLockUncapped(n) ==
  LET over == IF n > MaxAttemptsBeforeLock THEN n - MaxAttemptsBeforeLock ELSE 0
  IN  BaseLock * 2^over

(* _calc_lock_seconds                                                       *)
CalcLockSeconds(n) ==
  LET over == IF n > MaxAttemptsBeforeLock THEN n - MaxAttemptsBeforeLock ELSE 0
      seconds == BaseLock * 2^over
  IN  IF seconds < MaxLock THEN seconds ELSE MaxLock

-------------------------------------------------------------------------------
Init ==
  /\ clock = 1
  /\ attempts = [a \in Addresses |-> {}]
  /\ user = [failed |-> 0, lockUntil |-> NotLocked]
  /\ login = [r \in Threads |-> Idle]
  /\ requests = 0
  /\ letThrough = [a \in Addresses |-> {}]
  /\ failures = 0
  /\ streak = [count |-> 0, last |-> 0]
  /\ raced = {}

At(r, label) == login[r].pc = label
Goto(r, label) == login' = [login EXCEPT ![r].pc = label]
Return(r) == login' = [login EXCEPT ![r] = Idle]

Limiting == {"filter", "assign", "check", "append"}

StartLogin(r, a, right) ==
  /\ At(r, "idle")
  /\ requests < MaxRequests
  /\ requests' = requests + 1
  /\ login' = [login EXCEPT ![r] =
       [Idle EXCEPT !.pc = IF a = NoAddress THEN "readUser" ELSE "filter",
                    !.address = a, !.right = right, !.started = clock]]
  /\ raced' = raced \cup
       {x \in {"limit"} : \E q \in Threads :
                            login[q].pc \in Limiting /\ login[q].address = a}
  /\ UNCHANGED <<clock, attempts, user, letThrough, failures, streak>>

(* Mutant: <= for <.                                                        *)
FilterLate(r) ==
  /\ At(r, "filter")
  /\ login' = [login EXCEPT
       ![r].pc = "assign",
       ![r].kept = {e \in attempts[login[r].address] :
                      login[r].started - e.at <= Window}]
  /\ UNCHANGED <<clock, attempts, user, requests, letThrough, failures, streak, raced>>

(* check_ip_rate_limit: the comprehension, ...                              *)
Filter(r) ==
  /\ At(r, "filter")
  /\ login' = [login EXCEPT
       ![r].pc = "assign",
       ![r].kept = {e \in attempts[login[r].address] :
                      login[r].started - e.at < Window}]
  /\ UNCHANGED <<clock, attempts, user, requests, letThrough, failures, streak, raced>>

(* ... its assignment, which drops what others appended in between, ...     *)
Assign(r) ==
  /\ At(r, "assign")
  /\ attempts' = [attempts EXCEPT ![login[r].address] = login[r].kept]
  /\ Goto(r, "check")
  /\ UNCHANGED <<clock, user, requests, letThrough, failures, streak, raced>>

(* Mutant: > for >=.                                                        *)
CheckLimitLate(r) ==
  /\ At(r, "check")
  /\ IF Cardinality(attempts[login[r].address]) > RateMax
       THEN Return(r)
       ELSE Goto(r, "append")
  /\ UNCHANGED <<clock, attempts, user, requests, letThrough, failures, streak, raced>>

(* ... the comparison, ...                                                  *)
CheckLimit(r) ==
  /\ At(r, "check")
  /\ IF Cardinality(attempts[login[r].address]) >= RateMax
       THEN Return(r)
       ELSE Goto(r, "append")
  /\ UNCHANGED <<clock, attempts, user, requests, letThrough, failures, streak, raced>>

(* ... and the append.                                                      *)
AppendAttempt(r) ==
  /\ At(r, "append")
  /\ LET a == login[r].address
         now == login[r].started
         same == {e \in letThrough[a] : e.at = now}
         entry == [nth |-> Cardinality(same), at |-> now]
     IN  /\ attempts' = [attempts EXCEPT ![a] = @ \cup {entry}]
         /\ letThrough' = [letThrough EXCEPT ![a] = @ \cup {entry}]
  /\ Goto(r, "readUser")
  /\ UNCHANGED <<clock, user, requests, failures, streak, raced>>

-------------------------------------------------------------------------------
IsLocked(until, now) == until # NotLocked /\ now < until

(* Mutant: the lock is not looked at.                                       *)
ReadUserAnyway(r) ==
  /\ At(r, "readUser")
  /\ login' = [login EXCEPT ![r].pc = "verify", ![r].failed = user.failed,
                            ![r].now = clock]
  /\ raced' = raced \cup {x \in {"row"} : \E q \in Threads : At(q, "verify")}
  /\ UNCHANGED <<clock, attempts, user, requests, letThrough, failures, streak>>

(* SELECT the row, look at the clock, refuse while it is locked.            *)
ReadUser(r) ==
  /\ At(r, "readUser")
  /\ \/ /\ IsLocked(user.lockUntil, clock)
        /\ Return(r)
        /\ UNCHANGED raced
     \/ /\ ~IsLocked(user.lockUntil, clock)
        /\ login' = [login EXCEPT ![r].pc = "verify", ![r].failed = user.failed,
                                  ![r].now = clock]
        /\ raced' = raced \cup
             {x \in {"row"} : \E q \in Threads : At(q, "verify")}
  /\ UNCHANGED <<clock, attempts, user, requests, letThrough, failures, streak>>

(* Mutant: the successful login itself is taken off the counter.            *)
CountDown(r) ==
  /\ At(r, "verify")
  /\ login[r].right
  /\ user' = [failed |-> user.failed - 1, lockUntil |-> NotLocked]
  /\ streak' = [count |-> 0, last |-> 0]
  /\ Return(r)
  /\ UNCHANGED <<clock, attempts, requests, letThrough, failures, raced>>

(* Mutant: the counter is kept.                                             *)
LiftLockOnly(r) ==
  /\ At(r, "verify")
  /\ login[r].right
  /\ user' = [user EXCEPT !.lockUntil = NotLocked]
  /\ streak' = [count |-> 0, last |-> 0]
  /\ Return(r)
  /\ UNCHANGED <<clock, attempts, requests, letThrough, failures, raced>>

(* _reset_lock_state, after either password of the account verified.        *)
ResetLockState(r) ==
  /\ At(r, "verify")
  /\ login[r].right
  /\ user' = [failed |-> 0, lockUntil |-> NotLocked]
  /\ streak' = [count |-> 0, last |-> 0]
  /\ Return(r)
  /\ UNCHANGED <<clock, attempts, requests, letThrough, failures, raced>>

(* _apply_failed_attempt with the counter as it was read.                   *)
ApplyFailedAttempt(r) ==
  /\ At(r, "verify")
  /\ ~login[r].right
  /\ LET n == login[r].failed + 1 IN
       user' = [failed |-> n,
                lockUntil |-> IF n >= MaxAttemptsBeforeLock
                                THEN login[r].now + CalcLockSeconds(n)
                                ELSE NotLocked]
  /\ failures' = failures + 1
  /\ streak' = [count |-> streak.count + 1, last |-> login[r].now]
  /\ Return(r)
  /\ UNCHANGED <<clock, attempts, requests, letThrough, raced>>

(* A call raises, and what the login did so far stays.                      *)
Abort(r) ==
  /\ ~At(r, "idle")
  /\ Return(r)
  /\ UNCHANGED <<clock, attempts, user, requests, letThrough, failures, streak, raced>>

(* The lists of the rate limiter live and end with the process.             *)
Restart ==
  /\ attempts' = [a \in Addresses |-> {}]
  /\ letThrough' = [a \in Addresses |-> {}]
  /\ login' = [r \in Threads |-> Idle]
  /\ UNCHANGED <<clock, user, requests, failures, streak, raced>>

Tick ==
  /\ clock < MaxClock
  /\ clock' = clock + 1
  /\ UNCHANGED <<attempts, user, login, requests, letThrough, failures, streak, raced>>

Serve(r) ==
  \/ Filter(r) \/ Assign(r) \/ CheckLimit(r) \/ AppendAttempt(r)
  \/ ReadUser(r) \/ ResetLockState(r) \/ ApplyFailedAttempt(r)

Next ==
  \/ \E r \in Threads :
       \/ \E a \in Addresses \cup {NoAddress}, right \in BOOLEAN : StartLogin(r, a, right)
       \/ Serve(r)
       \/ Abort(r)
  \/ Restart
  \/ Tick

Spec == Init /\ [][Next]_vars

-------------------------------------------------------------------------------
GateTypeOK ==
  /\ clock \in Nat
  /\ attempts \in [Addresses -> SUBSET Attempt]
  /\ user \in [failed : Nat, lockUntil : Nat]
  /\ login \in [Threads -> Login]
  /\ requests \in 0..MaxRequests
  /\ letThrough \in [Addresses -> SUBSET Attempt]
  /\ failures \in Nat
  /\ streak \in [count : Nat, last : Nat]
  /\ raced \subseteq {"limit", "row"}

(* What was let through in the window that ends at a time.                  *)
Recent(a, time) ==
  {e \in letThrough[a] : e.at <= time /\ time - e.at < Window}

(* rate_limiter.py: "max 10 attempts per 60 seconds".  While no two checks  *)
(* of an address overlap, no window has more than RateMax logins of it that *)
(* one process let through.                                                 *)
SlidingWindow ==
  "limit" \notin raced => \A a \in Addresses : \A e \in letThrough[a] :
    Cardinality(Recent(a, e.at)) <= RateMax

(* A refusal by the rate limit is due: RateMax logins of the address were   *)
(* let through in the window that ends with the refused one.  What was      *)
(* refused does not prolong it.                                             *)
RefusalsAreDue ==
  [][\A r \in Threads :
       /\ "limit" \notin raced
       /\ At(r, "check")
       /\ CheckLimit(r)
       /\ login'[r].pc = "idle"
       => Cardinality(Recent(login[r].address, login[r].started)) >= RateMax]_vars

(* Served one after the other, logins are counted exactly: the row holds    *)
(* the bad passwords since the last right one, and the lock that goes with  *)
(* their number, counted from the last of them.                             *)
SerialLockout ==
  "row" \notin raced =>
    /\ user.failed = streak.count
    /\ user.lockUntil =
         IF streak.count >= MaxAttemptsBeforeLock
           THEN streak.last + CalcLockSeconds(streak.count)
           ELSE NotLocked

(* README: "login denied during lock period".  Served one after the other,  *)
(* logins leave the row alone while its lock runs, the right password too:  *)
(* whoever verifies one found the row unlocked, and it still is.            *)
LockedRowStands ==
  [][/\ IsLocked(user.lockUntil, clock)
     /\ "row" \notin raced
     => user' = user]_vars

(* However logins overlap, the counter may miss a bad password and never    *)
(* invents one, so nobody is locked out before MaxAttemptsBeforeLock of     *)
(* them; and no lock reaches more than MaxLock ahead.                       *)
LockIsEarned ==
  /\ user.failed <= failures
  /\ user.lockUntil # NotLocked =>
       /\ failures >= MaxAttemptsBeforeLock
       /\ user.lockUntil <= clock + MaxLock

(* README: "failed attempt counter increases", "account eventually locks",  *)
(* "login denied during lock period".  While a lock runs, only a right      *)
(* password (which sets the counter to 0) lifts or shortens it.             *)
LockStands ==
  [][/\ IsLocked(user.lockUntil, clock)
     /\ user'.lockUntil < user.lockUntil
     => user'.failed = 0]_vars
===============================================================================
