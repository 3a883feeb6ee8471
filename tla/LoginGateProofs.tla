---------------------------- MODULE LoginGateProofs ----------------------------
(***************************************************************************)
(* Proofs about LoginGate, for any number of addresses and of logins that  *)
(* overlap: its types; that the lockout is earned and bounded; and that,   *)
(* while nothing overlaps, rate limit and lockout are exact.               *)
(*                                                                         *)
(* A login writes a counter that may be old.  What it holds is still no    *)
(* more than the bad passwords that were ever written, which only grow,    *)
(* and the time it counts the lock from is past (GateInv).                 *)
(*                                                                         *)
(* The window holds because, at the comparison, the list of the address is *)
(* what was let through in the window that ends there; WindowInv follows   *)
(* the list through the steps of the check.  The row holds because a       *)
(* thread that verifies a password remembers what is still in it (RowInv). *)
(***************************************************************************)
EXTENDS LoginGate, FiniteSetTheorems, TLAPS

GateInv ==
  /\ GateTypeOK
  /\ LockIsEarned
  /\ user.lockUntil # NotLocked => user.failed >= MaxAttemptsBeforeLock
  /\ \A a \in Addresses : IsFiniteSet(letThrough[a])
  /\ \A r \in Threads :
       /\ login[r].pc = "verify" => login[r].failed <= failures /\ login[r].now <= clock
       /\ login[r].pc \in Limiting => login[r].address \in Addresses

-------------------------------------------------------------------------------
(* 2^n counts the subsets of 1..n.                                          *)
LEMMA PowerOfTwo ==
  ASSUME NEW n \in Nat
  PROVE  2^n \in Nat
<1>1. IsFiniteSet(1..n) /\ Cardinality(1..n) = n
  BY FS_Interval
<1>2. IsFiniteSet(SUBSET (1..n)) /\ Cardinality(SUBSET (1..n)) = 2^Cardinality(1..n)
  BY <1>1, FS_SUBSET
<1>3. Cardinality(SUBSET (1..n)) \in Nat
  BY <1>2, FS_CardinalityType
<1> QED
  BY <1>1, <1>2, <1>3

(* _calc_lock_seconds returns no more than MAX_LOCK_SECONDS, whatever the   *)
(* counter.                                                                 *)
LEMMA LockSeconds ==
  ASSUME NEW n \in Nat
  PROVE  CalcLockSeconds(n) \in 0..MaxLock
<1> DEFINE over == IF n > MaxAttemptsBeforeLock THEN n - MaxAttemptsBeforeLock ELSE 0
           power == 2^over
<1>1. over \in Nat
  BY GateAssumption
<1> HIDE DEF over
<1>2. power \in Nat
  BY <1>1, PowerOfTwo
<1> HIDE DEF power
<1>3. BaseLock * power \in Nat
  BY <1>2, GateAssumption
<1>4. CalcLockSeconds(n) = IF BaseLock * power < MaxLock THEN BaseLock * power ELSE MaxLock
  BY DEF CalcLockSeconds, over, power
<1> QED
  BY <1>3, <1>4, GateAssumption

LEMMA InitGate == Init => GateInv
<1> SUFFICES ASSUME Init PROVE GateInv
  OBVIOUS
<1>1. Idle \in Login /\ Idle.pc = "idle"
  BY DEF Idle, Login
<1>2. GateTypeOK
  BY <1>1, GateAssumption DEF Init, GateTypeOK, NotLocked
<1>3. LockIsEarned /\ user.lockUntil = NotLocked
  BY DEF Init, LockIsEarned, NotLocked
<1>4. \A a \in Addresses : IsFiniteSet(letThrough[a])
  BY FS_EmptySet DEF Init
<1>5. \A r \in Threads : login[r].pc = "idle"
  BY <1>1 DEF Init
<1> QED
  BY <1>2, <1>3, <1>4, <1>5 DEF GateInv, Limiting

(* A step that leaves the row alone and lets no thread reach the write.     *)
LEMMA LocalGateStep ==
  ASSUME GateInv, NEW r \in Threads, NEW l \in Login,
         l.pc # "verify", l.pc \in Limiting => l.address \in Addresses,
         login' = [login EXCEPT ![r] = l],
         clock' = clock, user' = user, failures' = failures, streak' = streak,
         requests' \in 0..MaxRequests, raced' \subseteq {"limit", "row"},
         attempts' \in [Addresses -> SUBSET Attempt],
         letThrough' \in [Addresses -> SUBSET Attempt],
         \A a \in Addresses : IsFiniteSet(letThrough'[a])
  PROVE  GateInv'
<1>1. GateTypeOK'
  BY DEF GateInv, GateTypeOK
<1> QED
  BY <1>1 DEF GateInv, GateTypeOK, LockIsEarned

LEMMA LimiterKeeps ==
  ASSUME GateInv, NEW r \in Threads,
         \/ Filter(r) \/ Assign(r) \/ CheckLimit(r) \/ AppendAttempt(r) \/ Abort(r)
  PROVE  GateInv'
<1>1. /\ login[r] \in Login
      /\ login \in [Threads -> Login]
      /\ attempts \in [Addresses -> SUBSET Attempt]
      /\ letThrough \in [Addresses -> SUBSET Attempt]
      /\ requests \in 0..MaxRequests
      /\ raced \subseteq {"limit", "row"}
      /\ \A a \in Addresses : IsFiniteSet(letThrough[a])
  BY DEF GateInv, GateTypeOK
<1>2. Idle \in Login /\ Idle.pc = "idle"
  BY DEF Idle, Login
<1>3. login[r].pc \in Limiting => login[r].address \in Addresses
  BY DEF GateInv
<1>4. CASE Return(r) /\ UNCHANGED <<clock, attempts, user, requests, letThrough,
                                    failures, streak, raced>>
  BY <1>1, <1>2, <1>4, LocalGateStep DEF Return, Limiting
<1>5. ASSUME NEW label \in {"check", "append", "readUser"}, Goto(r, label),
             login[r].pc \in Limiting,
             UNCHANGED <<clock, user, requests, failures, streak, raced>>,
             attempts' \in [Addresses -> SUBSET Attempt],
             letThrough' \in [Addresses -> SUBSET Attempt],
             \A a \in Addresses : IsFiniteSet(letThrough'[a])
      PROVE  GateInv'
  <2> DEFINE l == [login[r] EXCEPT !.pc = label]
  <2>1. l \in Login /\ l.pc # "verify" /\ l.address \in Addresses
    BY <1>1, <1>3, <1>5 DEF Login
  <2>2. login' = [login EXCEPT ![r] = l]
    BY <1>1, <1>5 DEF Goto
  <2> HIDE DEF l
  <2> QED
    BY <1>1, <1>5, <2>1, <2>2, LocalGateStep
<1>6. CASE Filter(r)
  <2> DEFINE kept == {e \in attempts[login[r].address] :
                        login[r].started - e.at < Window}
             l == [login[r] EXCEPT !.pc = "assign", !.kept = kept]
  <2>1. login[r].address \in Addresses /\ kept \subseteq Attempt
    BY <1>1, <1>3, <1>6 DEF Filter, At, Limiting
  <2>2. login' = [login EXCEPT ![r] = l]
    BY <1>1, <1>6 DEF Filter
  <2> HIDE DEF kept
  <2>3. l \in Login /\ l.pc # "verify" /\ l.address \in Addresses
    BY <1>1, <2>1 DEF Login
  <2> HIDE DEF l
  <2> QED
    BY <1>1, <1>6, <2>2, <2>3, LocalGateStep DEF Filter
<1>7. CASE Assign(r)
  <2>1. /\ login[r].pc \in Limiting
        /\ attempts' \in [Addresses -> SUBSET Attempt]
    BY <1>1, <1>7 DEF Assign, At, Limiting, Login
  <2> QED
    BY <1>1, <1>5, <1>7, <2>1 DEF Assign
<1>8. CASE CheckLimit(r)
  <2>1. login[r].pc \in Limiting
    BY <1>8 DEF CheckLimit, At, Limiting
  <2> QED
    BY <1>1, <1>4, <1>5, <1>8, <2>1 DEF CheckLimit
<1>9. CASE AppendAttempt(r)
  <2> DEFINE a == login[r].address
             same == {e \in letThrough[a] : e.at = login[r].started}
             entry == [nth |-> Cardinality(same), at |-> login[r].started]
  <2>1. login[r].pc \in Limiting /\ a \in Addresses
    BY <1>3, <1>9 DEF AppendAttempt, At, Limiting
  <2>2. IsFiniteSet(letThrough[a]) /\ same \subseteq letThrough[a]
    BY <1>1, <2>1
  <2>3. Cardinality(same) \in Nat
    BY <2>2, FS_Subset, FS_CardinalityType
  <2>4. login[r].started \in Nat
    BY <1>1 DEF Login
  <2>5. entry \in Attempt
    BY <2>3, <2>4 DEF Attempt
  <2>6. /\ attempts' = [attempts EXCEPT ![a] = @ \cup {entry}]
        /\ letThrough' = [letThrough EXCEPT ![a] = @ \cup {entry}]
    BY <1>9 DEF AppendAttempt
  <2> HIDE DEF entry, same, a
  <2>7. IsFiniteSet(letThrough[a] \cup {entry})
    BY <2>2, FS_AddElement
  <2>8. \A b \in Addresses : IsFiniteSet(letThrough'[b])
    BY <1>1, <2>1, <2>6, <2>7
  <2>9. /\ attempts' \in [Addresses -> SUBSET Attempt]
        /\ letThrough' \in [Addresses -> SUBSET Attempt]
    BY <1>1, <2>1, <2>5, <2>6
  <2> QED
    BY <1>5, <1>9, <2>1, <2>8, <2>9 DEF AppendAttempt
<1>10. CASE Abort(r)
  BY <1>4, <1>10 DEF Abort
<1> QED
  BY <1>6, <1>7, <1>8, <1>9, <1>10

LEMMA StartLoginKeeps ==
  ASSUME GateInv, NEW r \in Threads, NEW a \in Addresses \cup {NoAddress},
         NEW right \in BOOLEAN, StartLogin(r, a, right)
  PROVE  GateInv'
<1> DEFINE label == IF a = NoAddress THEN "readUser" ELSE "filter"
           l == [Idle EXCEPT !.pc = label, !.address = a, !.right = right,
                             !.started = clock]
<1>1. label \in {"readUser", "filter"} /\ (label = "filter" => a \in Addresses)
  OBVIOUS
<1>2. login' = [login EXCEPT ![r] = l]
  BY DEF StartLogin
<1> HIDE DEF label
<1>3. clock \in Nat
  BY DEF GateInv, GateTypeOK
<1>4. l \in Login /\ l.pc = label /\ l.address = a
  BY <1>1, <1>3 DEF Idle, Login
<1> HIDE DEF l
<1>5. requests' \in 0..MaxRequests /\ raced' \subseteq {"limit", "row"}
  BY GateAssumption DEF StartLogin, GateInv, GateTypeOK
<1> QED
  BY <1>1, <1>2, <1>4, <1>5, LocalGateStep
  DEF StartLogin, GateInv, GateTypeOK, Limiting

(* The counter and the time a login takes with it.                          *)
LEMMA ReadUserKeeps ==
  ASSUME GateInv, NEW r \in Threads, ReadUser(r)
  PROVE  GateInv'
<1>1. /\ login[r] \in Login
      /\ login \in [Threads -> Login]
      /\ clock \in Nat
      /\ failures \in Nat
      /\ user \in [failed : Nat, lockUntil : Nat]
      /\ user.failed <= failures
  BY DEF GateInv, GateTypeOK, LockIsEarned
<1>2. CASE Return(r) /\ UNCHANGED raced
  <2>1. Idle \in Login /\ Idle.pc = "idle"
    BY DEF Idle, Login
  <2> QED
    BY <1>2, <2>1, LocalGateStep
    DEF ReadUser, Return, GateInv, GateTypeOK, Limiting
<1>3. CASE login' = [login EXCEPT ![r].pc = "verify", ![r].failed = user.failed,
                                  ![r].now = clock]
  <2> DEFINE n == user.failed
             l == [login[r] EXCEPT !.pc = "verify", !.failed = n, !.now = clock]
  <2>1. n \in Nat /\ n <= failures
    BY <1>1
  <2>2. login' = [login EXCEPT ![r] = l]
    BY <1>1, <1>3
  <2> HIDE DEF n
  <2>3. /\ l \in Login
        /\ l.pc = "verify"
        /\ l.failed <= failures
        /\ l.now <= clock
    <3> DEFINE k == [login[r] EXCEPT !.pc = "verify", !.failed = n]
    <3>1. k \in Login /\ k.pc = "verify" /\ k.failed = n
      BY <1>1, <2>1 DEF Login
    <3>2. l = [k EXCEPT !.now = clock]
      OBVIOUS
    <3> HIDE DEF k, l
    <3> QED
      BY <1>1, <2>1, <3>1, <3>2 DEF Login
  <2> HIDE DEF l
  <2>4. login'[r] = l /\ \A q \in Threads : q # r => login'[q] = login[q]
    BY <1>1, <2>2
  <2>5. raced' \subseteq {"limit", "row"}
    BY DEF ReadUser, GateInv, GateTypeOK
  <2>6. GateTypeOK'
    BY <2>3, <2>2, <2>5 DEF ReadUser, GateInv, GateTypeOK
  <2> QED
    BY <2>3, <2>4, <2>6 DEF ReadUser, GateInv, LockIsEarned, Limiting
<1> QED
  BY <1>2, <1>3 DEF ReadUser

(* Right or wrong, what is written back is covered by the failures so far.  *)
LEMMA WriteUserKeeps ==
  ASSUME GateInv, NEW r \in Threads, ResetLockState(r) \/ ApplyFailedAttempt(r)
  PROVE  GateInv'
<1>1. /\ login[r] \in Login
      /\ login \in [Threads -> Login]
      /\ clock \in Nat
      /\ failures \in Nat
      /\ streak \in [count : Nat, last : Nat]
  BY DEF GateInv, GateTypeOK
<1>2. login' = [login EXCEPT ![r] = Idle] /\ Idle \in Login /\ Idle.pc = "idle"
  BY DEF ResetLockState, ApplyFailedAttempt, Return, Idle, Login
<1>3. login'[r].pc = "idle" /\ \A q \in Threads : q # r => login'[q] = login[q]
  BY <1>1, <1>2
<1>4. CASE ResetLockState(r)
  <2>1. /\ user' = [failed |-> 0, lockUntil |-> NotLocked]
        /\ UNCHANGED <<clock, attempts, requests, letThrough, failures, raced>>
        /\ streak' \in [count : Nat, last : Nat]
    BY <1>4 DEF ResetLockState
  <2>2. GateTypeOK'
    BY <1>2, <2>1 DEF GateInv, GateTypeOK, NotLocked
  <2> QED
    BY <1>1, <1>3, <2>1, <2>2 DEF GateInv, LockIsEarned, Limiting
<1>5. CASE ApplyFailedAttempt(r)
  <2> DEFINE n == login[r].failed + 1
             until == login[r].now + CalcLockSeconds(n)
  <2>1. /\ login[r].failed \in Nat
        /\ login[r].now \in Nat
        /\ login[r].failed <= failures
        /\ login[r].now <= clock
    BY <1>1, <1>5 DEF ApplyFailedAttempt, At, GateInv, Login
  <2>2. n \in Nat /\ n <= failures + 1
    BY <1>1, <2>1
  <2>3. CalcLockSeconds(n) \in 0..MaxLock
    BY <2>2, LockSeconds
  <2>4. until \in Nat /\ until <= clock + MaxLock
    BY <1>1, <2>1, <2>3, GateAssumption
  <2>5. /\ user' = [failed |-> n, lockUntil |->
               IF n >= MaxAttemptsBeforeLock THEN until ELSE NotLocked]
        /\ failures' = failures + 1
        /\ UNCHANGED <<clock, attempts, requests, letThrough, raced>>
        /\ streak' \in [count : Nat, last : Nat]
    BY <1>1, <1>5, <2>1 DEF ApplyFailedAttempt
  <2> HIDE DEF n, until
  <2>6. GateTypeOK'
    BY <1>1, <1>2, <2>2, <2>4, <2>5 DEF GateInv, GateTypeOK, NotLocked
  <2>7. LockIsEarned' /\ (user'.lockUntil # NotLocked => user'.failed >= MaxAttemptsBeforeLock)
    BY <1>1, <2>2, <2>4, <2>5, GateAssumption DEF LockIsEarned
  <2>8. \A q \in Threads : login'[q].pc = "verify" => login'[q].failed <= failures'
    <3> SUFFICES ASSUME NEW q \in Threads, login'[q].pc = "verify"
                 PROVE  login'[q].failed <= failures'
      OBVIOUS
    <3>1. login'[q] = login[q] /\ login[q] \in Login
      BY <1>1, <1>3
    <3>2. login[q].failed \in Nat /\ login[q].failed <= failures
      BY <3>1 DEF GateInv, Login
    <3> QED
      BY <1>1, <2>5, <3>1, <3>2
  <2> QED
    BY <1>3, <2>5, <2>6, <2>7, <2>8 DEF GateInv, Limiting
<1> QED
  BY <1>4, <1>5

LEMMA ClockKeeps == GateInv /\ (Tick \/ Restart) => GateInv'
<1> SUFFICES ASSUME GateInv, Tick \/ Restart PROVE GateInv'
  OBVIOUS
<1>1. CASE Tick
  <2>1. clock \in Nat /\ clock' = clock + 1
    BY <1>1 DEF Tick, GateInv, GateTypeOK
  <2>2. GateTypeOK'
    BY <1>1, <2>1 DEF Tick, GateInv, GateTypeOK
  <2>3. LockIsEarned'
    BY <1>1, <2>1, GateAssumption DEF Tick, GateInv, GateTypeOK, LockIsEarned
  <2>4. \A r \in Threads : login[r].pc = "verify" => login[r].now <= clock'
    BY <2>1 DEF GateInv, GateTypeOK, Login
  <2> QED
    BY <1>1, <2>2, <2>3, <2>4 DEF Tick, GateInv
<1>2. CASE Restart
  <2>1. Idle \in Login /\ Idle.pc = "idle"
    BY DEF Idle, Login
  <2> QED
    BY <1>2, <2>1, FS_EmptySet
    DEF Restart, GateInv, GateTypeOK, LockIsEarned, Limiting
<1> QED
  BY <1>1, <1>2

-------------------------------------------------------------------------------
LEMMA GateNext == GateInv /\ [Next]_vars => GateInv'
<1> SUFFICES ASSUME GateInv, [Next]_vars PROVE GateInv'
  OBVIOUS
<1>1. CASE UNCHANGED vars
  BY <1>1 DEF vars, GateInv, GateTypeOK, LockIsEarned
<1> QED
  BY <1>1, StartLoginKeeps, LimiterKeeps, ReadUserKeeps, WriteUserKeeps, ClockKeeps
  DEF Next, Serve

LEMMA GateInvariant == Spec => []GateInv
  BY InitGate, GateNext, PTL DEF Spec

(* The row, the lists and the logins in flight stay well-formed.            *)
THEOREM GateTypes == Spec => []GateTypeOK
<1>1. GateInv => GateTypeOK
  BY DEF GateInv
<1> QED
  BY <1>1, GateInvariant, PTL

(* However many logins read an old counter and write it back, the account   *)
(* is locked only after enough bad passwords, and for MAX_LOCK_SECONDS at   *)
(* most.                                                                    *)
THEOREM LocksAreEarned == Spec => []LockIsEarned
<1>1. GateInv => LockIsEarned
  BY DEF GateInv
<1> QED
  BY <1>1, GateInvariant, PTL

-------------------------------------------------------------------------------
(* While no two logins overlapped on the row, whoever holds it holds it as  *)
(* it is, and unlocked.                                                     *)
RowInv ==
  "row" \notin raced =>
    /\ SerialLockout
    /\ \A r \in Threads : At(r, "verify") =>
         /\ login[r].failed = user.failed
         /\ ~IsLocked(user.lockUntil, clock)
         /\ \A q \in Threads : At(q, "verify") => q = r

LEMMA RowInit == Init => RowInv
BY GateAssumption DEF Init, RowInv, SerialLockout, At, Idle

LEMMA RowNext == GateInv /\ RowInv /\ [Next]_vars => RowInv'
<1> SUFFICES ASSUME GateInv, RowInv, [Next]_vars, "row" \notin raced' PROVE RowInv'
  BY DEF RowInv
<1> USE DEF At
<1>1. /\ login \in [Threads -> Login]
      /\ Idle.pc = "idle"
      /\ user \in [failed : Nat, lockUntil : Nat]
      /\ clock \in Nat
  BY DEF GateInv, GateTypeOK, Idle
<1>2. ASSUME UNCHANGED <<user, streak>>, "row" \notin raced, clock' \in {clock, clock + 1},
             \A q \in Threads : login'[q].pc = "verify" => login'[q] = login[q]
      PROVE  RowInv'
  <2>1. ~IsLocked(user.lockUntil, clock) => ~IsLocked(user'.lockUntil, clock')
    BY <1>1, <1>2 DEF IsLocked
  <2> QED
    BY <1>2, <2>1 DEF RowInv, SerialLockout
<1>3. ASSUME NEW r \in Threads, UNCHANGED <<clock, user, streak>>, "row" \notin raced,
             NEW l, l.pc # "verify", login' = [login EXCEPT ![r] = l]
      PROVE  RowInv'
  BY <1>1, <1>2, <1>3
<1>4. ASSUME NEW r \in Threads, NEW a \in Addresses \cup {NoAddress},
             NEW right \in BOOLEAN, StartLogin(r, a, right)
      PROVE  RowInv'
  <2> DEFINE label == IF a = NoAddress THEN "readUser" ELSE "filter"
             l == [Idle EXCEPT !.pc = label, !.address = a, !.right = right,
                               !.started = clock]
  <2>1. l.pc # "verify"
    BY DEF Idle
  <2>2. /\ login' = [login EXCEPT ![r] = l]
        /\ "row" \notin raced
        /\ UNCHANGED <<clock, user, streak>>
    BY <1>4 DEF StartLogin
  <2> HIDE DEF l
  <2> QED
    BY <1>3, <2>1, <2>2
<1>5. ASSUME NEW r \in Threads,
             \/ Filter(r) \/ Assign(r) \/ CheckLimit(r) \/ AppendAttempt(r) \/ Abort(r)
      PROVE  RowInv'
  <2>1. login[r] \in Login
    BY <1>1
  <2>2. UNCHANGED <<clock, user, streak>> /\ "row" \notin raced
    BY <1>5 DEF Filter, Assign, CheckLimit, AppendAttempt, Abort
  <2>3. login'[r].pc # "verify" /\ \A q \in Threads : q # r => login'[q] = login[q]
    BY <1>1, <1>5, <2>1
    DEF Filter, Assign, CheckLimit, AppendAttempt, Abort, Goto, Return, Login
  <2> QED
    BY <1>2, <2>2, <2>3
<1>6. ASSUME NEW r \in Threads, ReadUser(r)
      PROVE  RowInv'
  <2>1. UNCHANGED <<clock, user, streak>> /\ "row" \notin raced
    BY <1>6 DEF ReadUser
  <2>2. CASE Return(r)
    BY <1>1, <1>3, <2>1, <2>2 DEF Return
  <2>3. CASE login' = [login EXCEPT ![r].pc = "verify", ![r].failed = user.failed,
                                    ![r].now = clock]
             /\ raced' = raced \cup {x \in {"row"} : \E q \in Threads : At(q, "verify")}
    <3>1. \A q \in Threads : login[q].pc # "verify"
      BY <2>3
    <3>2. ~IsLocked(user.lockUntil, clock)
      <4>1. ~Return(r)
        BY <1>1, <2>3 DEF Return, Login
      <4> QED
        BY <1>6, <4>1 DEF ReadUser
    <3>3. login'[r].failed = user.failed /\ \A q \in Threads : q # r => login'[q] = login[q]
      BY <1>1, <2>3 DEF Login
    <3> QED
      BY <2>1, <3>1, <3>2, <3>3 DEF RowInv, SerialLockout
  <2> QED
    BY <1>6, <2>2, <2>3 DEF ReadUser
<1>7. ASSUME NEW r \in Threads, ResetLockState(r)
      PROVE  RowInv'
  <2>1. /\ "row" \notin raced
        /\ user' = [failed |-> 0, lockUntil |-> NotLocked]
        /\ streak' = [count |-> 0, last |-> 0]
    BY <1>7 DEF ResetLockState
  <2>2. \A q \in Threads : login'[q].pc # "verify"
    BY <1>1, <1>7, <2>1 DEF ResetLockState, Return, RowInv
  <2> QED
    BY <2>1, <2>2, GateAssumption DEF RowInv, SerialLockout
<1>8. ASSUME NEW r \in Threads, ApplyFailedAttempt(r)
      PROVE  RowInv'
  <2> DEFINE n == login[r].failed + 1
  <2>1. /\ "row" \notin raced
        /\ user' = [failed |-> n, lockUntil |->
              IF n >= MaxAttemptsBeforeLock THEN login[r].now + CalcLockSeconds(n)
                                            ELSE NotLocked]
        /\ streak' = [count |-> streak.count + 1, last |-> login[r].now]
    BY <1>8 DEF ApplyFailedAttempt
  <2>2. \A q \in Threads : login'[q].pc # "verify"
    BY <1>1, <1>8, <2>1 DEF ApplyFailedAttempt, Return, RowInv
  <2>3. n = streak.count + 1
    BY <1>8, <2>1 DEF ApplyFailedAttempt, RowInv, SerialLockout
  <2> QED
    BY <2>1, <2>2, <2>3 DEF RowInv, SerialLockout
<1>9. CASE Tick \/ UNCHANGED vars
  BY <1>2, <1>9 DEF Tick, vars
<1>10. CASE Restart
  BY <1>1, <1>2, <1>10 DEF Restart
<1> QED
  BY <1>4, <1>5, <1>6, <1>7, <1>8, <1>9, <1>10 DEF Next, Serve

(* Logins that do not overlap on the row are counted exactly, and the lock  *)
(* is the one of their number, across rate limits, aborts and restarts.     *)
THEOREM SerialLockouts == Spec => []SerialLockout
<1>1. RowInv => SerialLockout
  BY DEF RowInv, SerialLockout
<1> QED
  BY <1>1, RowInit, RowNext, GateInvariant, PTL DEF Spec

(* ... and none of them touches the row while its lock runs.                *)
THEOREM LockedRowsStand == Spec => LockedRowStands
<1>1. GateInv /\ RowInv /\ [Next]_vars =>
        [IsLocked(user.lockUntil, clock) /\ "row" \notin raced => user' = user]_vars
  <2> SUFFICES ASSUME GateInv, RowInv, Next, IsLocked(user.lockUntil, clock), "row" \notin raced
               PROVE  user' = user
    BY DEF vars
  <2>1. ASSUME NEW r \in Threads PROVE ~At(r, "verify")
    BY <2>1 DEF RowInv
  <2> QED
    BY <2>1
    DEF Next, Serve, StartLogin, Filter, Assign, CheckLimit, AppendAttempt, ReadUser,
        ResetLockState, ApplyFailedAttempt, Abort, Restart, Tick
<1> QED
  BY <1>1, RowInit, RowNext, GateInvariant, PTL DEF Spec, LockedRowStands

-------------------------------------------------------------------------------
(* What of the logins let through is in the window that ends at a time.     *)
InWindow(through, time) == {e \in through : e.at <= time /\ time - e.at < Window}

(* What a login that checks the rate limit relies on, of the list of its    *)
(* address and what was let through for it: all of that is no later than    *)
(* its own time, and on the list unless it is out of the window; past the   *)
(* assignment, the list is the window.                                      *)
Checking(l, list, through) ==
  /\ \A e \in through :
       /\ e.at <= l.started
       /\ e \in list \/ l.started - e.at >= Window
  /\ l.pc = "assign" => l.kept = {e \in list : l.started - e.at < Window}
  /\ l.pc \in {"check", "append"} => list = InWindow(through, l.started)
  /\ l.pc = "append" => Cardinality(list) < RateMax

(* The list of an address holds all that was let through in the window that *)
(* ends now, and one login at a time works on it.                           *)
ListIsWindow ==
  /\ \A q, r \in Threads :
       /\ q # r
       /\ login[q].pc \in Limiting
       /\ login[r].pc \in Limiting
       => login[q].address # login[r].address
  /\ \A a \in Addresses :
       /\ attempts[a] \subseteq letThrough[a]
       /\ \A e \in letThrough[a] :
            /\ e.at <= clock
            /\ e \in attempts[a] \/ clock - e.at >= Window
  /\ \A r \in Threads : login[r].pc \in Limiting =>
       /\ login[r].started <= clock
       /\ Checking(login[r], attempts[login[r].address], letThrough[login[r].address])

WindowInv == "limit" \notin raced => ListIsWindow /\ SlidingWindow

(* A step that leaves the lists alone and starts no check.                  *)
LEMMA ListFrame ==
  ASSUME ListIsWindow, UNCHANGED <<clock, attempts, letThrough>>,
         \A q \in Threads : login'[q].pc \in Limiting => login'[q] = login[q]
  PROVE  ListIsWindow'
BY DEF ListIsWindow

(* A step of a login that checks the rate limit and lets nothing through:   *)
(* it drops what is out of the window, and knows what its next step needs.  *)
LEMMA CheckingStep ==
  ASSUME GateInv, ListIsWindow, NEW r \in Threads, NEW l,
         login[r].pc \in Limiting,
         login' = [login EXCEPT ![r] = l],
         NEW kept \in SUBSET attempts[login[r].address],
         l.pc \in Limiting =>
           /\ l.address = login[r].address
           /\ l.started = login[r].started
           /\ Checking(l, kept, letThrough[login[r].address]),
         clock' = clock, letThrough' = letThrough,
         attempts' = [attempts EXCEPT ![login[r].address] = kept],
         \A e \in attempts[login[r].address] : e \in kept \/ clock - e.at >= Window
  PROVE  ListIsWindow'
<1> DEFINE a == login[r].address
<1>1. /\ login \in [Threads -> Login]
      /\ attempts \in [Addresses -> SUBSET Attempt]
      /\ a \in Addresses
  BY DEF GateInv, GateTypeOK
<1>2. login'[r] = l /\ \A q \in Threads : q # r => login'[q] = login[q]
  BY <1>1
<1>3. attempts'[a] = kept /\ \A b \in Addresses : b # a => attempts'[b] = attempts[b]
  BY <1>1
<1>4. \A b \in Addresses :
        /\ attempts'[b] \subseteq letThrough'[b]
        /\ \A e \in letThrough'[b] : e.at <= clock' /\ (e \in attempts'[b] \/ clock' - e.at >= Window)
  BY <1>3 DEF ListIsWindow
<1>5. ASSUME NEW q \in Threads, q # r, login[q].pc \in Limiting
      PROVE  login[q].address \in Addresses /\ login[q].address # a
  BY <1>5 DEF ListIsWindow, GateInv
<1>6. \A q \in Threads : login'[q].pc \in Limiting =>
        /\ login'[q].started <= clock'
        /\ Checking(login'[q], attempts'[login'[q].address], letThrough'[login'[q].address])
  BY <1>2, <1>3, <1>5 DEF ListIsWindow
<1>7. \A p, q \in Threads :
        p # q /\ login'[p].pc \in Limiting /\ login'[q].pc \in Limiting
        => login'[p].address # login'[q].address
  BY <1>2 DEF ListIsWindow
<1> QED
  BY <1>4, <1>6, <1>7 DEF ListIsWindow

LEMMA StartKeepsWindow ==
  ASSUME GateInv, ListIsWindow, NEW r \in Threads, NEW a \in Addresses \cup {NoAddress},
         NEW right \in BOOLEAN, StartLogin(r, a, right), "limit" \notin raced'
  PROVE  ListIsWindow'
<1> DEFINE label == IF a = NoAddress THEN "readUser" ELSE "filter"
           l == [Idle EXCEPT !.pc = label, !.address = a, !.right = right,
                             !.started = clock]
<1>1. /\ login \in [Threads -> Login]
      /\ clock \in Nat
      /\ login[r].pc = "idle"
      /\ login' = [login EXCEPT ![r] = l]
      /\ UNCHANGED <<clock, attempts, letThrough>>
  BY DEF StartLogin, At, GateInv, GateTypeOK
<1>2. l.pc = label /\ l.address = a /\ l.started = clock
  BY DEF Idle
<1>3. \A q \in Threads : login[q].pc \in Limiting => login[q].address # a
  BY DEF StartLogin
<1> HIDE DEF l
<1>4. login'[r] = l /\ \A q \in Threads : q # r => login'[q] = login[q]
  BY <1>1
<1>5. CASE a = NoAddress
  BY <1>1, <1>2, <1>4, <1>5, ListFrame DEF Limiting
<1>6. CASE a \in Addresses
  <2>1. label = "filter"
    BY <1>6, GateAssumption
  <2>2. Checking(l, attempts[a], letThrough[a])
    BY <1>1, <1>2, <1>6, <2>1 DEF ListIsWindow, Checking
  <2>3. \A q \in Threads : login'[q].pc \in Limiting =>
          /\ login'[q].started <= clock
          /\ Checking(login'[q], attempts[login'[q].address], letThrough[login'[q].address])
    BY <1>1, <1>2, <1>4, <2>2 DEF ListIsWindow
  <2>4. \A p, q \in Threads :
          p # q /\ login'[p].pc \in Limiting /\ login'[q].pc \in Limiting
          => login'[p].address # login'[q].address
    BY <1>2, <1>3, <1>4 DEF ListIsWindow
  <2> QED
    BY <1>1, <2>3, <2>4 DEF ListIsWindow
<1> QED
  BY <1>5, <1>6

LEMMA CheckKeepsWindow ==
  ASSUME GateInv, ListIsWindow, NEW r \in Threads, login[r].pc \in Limiting,
         Filter(r) \/ Assign(r) \/ CheckLimit(r) \/ Abort(r)
  PROVE  ListIsWindow'
<1> DEFINE a == login[r].address
           now == login[r].started
<1>1. /\ login \in [Threads -> Login]
      /\ login[r] \in Login
      /\ attempts \in [Addresses -> SUBSET Attempt]
      /\ clock \in Nat
      /\ a \in Addresses
      /\ now \in Nat
      /\ now <= clock
      /\ Checking(login[r], attempts[a], letThrough[a])
      /\ Idle.pc = "idle"
  BY DEF GateInv, GateTypeOK, ListIsWindow, Idle, Login
<1>2. clock' = clock /\ letThrough' = letThrough
  BY DEF Filter, Assign, CheckLimit, Abort
<1>3. \A e \in attempts[a] : e.at \in Nat
  BY <1>1 DEF Attempt
<1>4. /\ attempts[a] \subseteq letThrough[a]
      /\ IsFiniteSet(letThrough[a])
  BY <1>1 DEF ListIsWindow, GateInv
<1>5. ASSUME NEW l, login' = [login EXCEPT ![r] = l], attempts' = attempts,
             l.pc \in Limiting =>
               /\ l.address = a
               /\ l.started = now
               /\ Checking(l, attempts[a], letThrough[a])
      PROVE  ListIsWindow'
  <2>1. attempts' = [attempts EXCEPT ![a] = attempts[a]]
    BY <1>1, <1>5
  <2> QED
    BY <1>2, <1>5, <2>1, CheckingStep
<1>6. CASE Return(r) /\ attempts' = attempts
  BY <1>1, <1>5, <1>6 DEF Return, Limiting
<1>7. CASE Filter(r)
  <2> DEFINE kept == {e \in attempts[a] : now - e.at < Window}
             l == [login[r] EXCEPT !.pc = "assign", !.kept = kept]
  <2>1. login' = [login EXCEPT ![r] = l] /\ attempts' = attempts
    BY <1>1, <1>7 DEF Filter
  <2>2. l.pc = "assign" /\ l.address = a /\ l.started = now /\ l.kept = kept
    BY <1>1 DEF Login
  <2> HIDE DEF l
  <2>3. Checking(l, attempts[a], letThrough[a])
    BY <1>1, <2>2 DEF Checking
  <2> QED
    BY <1>5, <2>1, <2>2, <2>3
<1>8. CASE Assign(r)
  <2> DEFINE kept == login[r].kept
             l == [login[r] EXCEPT !.pc = "check"]
  <2>1. /\ login' = [login EXCEPT ![r] = l]
        /\ attempts' = [attempts EXCEPT ![a] = kept]
    BY <1>1, <1>8 DEF Assign, Goto
  <2>2. l.pc = "check" /\ l.address = a /\ l.started = now
    BY <1>1 DEF Login
  <2>3. kept = {e \in attempts[a] : now - e.at < Window}
    BY <1>1, <1>8 DEF Assign, At, Checking
  <2> HIDE DEF l, kept
  <2>4. \A e \in attempts[a] : e \in kept \/ clock - e.at >= Window
    BY <1>1, <1>3, <2>3, GateAssumption
  <2>5. \A e \in letThrough[a] :
          e.at <= now /\ (e \in kept \/ now - e.at >= Window)
    BY <1>1, <1>3, <2>3, GateAssumption DEF Checking
  <2>6. kept = InWindow(letThrough[a], now)
    <3>1. letThrough[a] \subseteq Attempt
      BY <1>1 DEF GateInv, GateTypeOK
    <3>2. \A e \in letThrough[a] : e.at \in Nat
      BY <3>1 DEF Attempt
    <3> QED
      BY <1>1, <1>4, <2>3, <2>5, <3>2, GateAssumption DEF InWindow
  <2>7. Checking(l, kept, letThrough[a])
    BY <2>2, <2>5, <2>6 DEF Checking
  <2>8. kept \in SUBSET attempts[a]
    BY <2>3
  <2> QED
    BY <1>1, <1>2, <2>1, <2>2, <2>4, <2>7, <2>8, CheckingStep
<1>9. CASE CheckLimit(r) /\ ~Return(r)
  <2> DEFINE l == [login[r] EXCEPT !.pc = "append"]
  <2>1. /\ login' = [login EXCEPT ![r] = l]
        /\ attempts' = attempts
        /\ login[r].pc = "check"
        /\ ~(Cardinality(attempts[a]) >= RateMax)
    BY <1>1, <1>9 DEF CheckLimit, Goto, At
  <2>2. l.pc = "append" /\ l.address = a /\ l.started = now
    BY <1>1 DEF Login
  <2>3. Cardinality(attempts[a]) \in Nat
    BY <1>4, FS_Subset, FS_CardinalityType
  <2>4. Cardinality(attempts[a]) < RateMax
    BY <2>1, <2>3, GateAssumption
  <2> HIDE DEF l
  <2>5. Checking(l, attempts[a], letThrough[a])
    BY <1>1, <2>1, <2>2, <2>4 DEF Checking
  <2> QED
    BY <1>5, <2>1, <2>2, <2>5
<1> QED
  BY <1>6, <1>7, <1>8, <1>9 DEF CheckLimit, Abort

(* The window that ends with the login let through had room for it, and no  *)
(* window that ended before has changed.                                    *)
LEMMA AppendKeepsWindow ==
  ASSUME GateInv, ListIsWindow, "limit" \notin raced, SlidingWindow,
         NEW r \in Threads, AppendAttempt(r)
  PROVE  ListIsWindow' /\ SlidingWindow'
<1> DEFINE a == login[r].address
           now == login[r].started
           l == [login[r] EXCEPT !.pc = "readUser"]
           same == {e \in letThrough[a] : e.at = now}
           entry == [nth |-> Cardinality(same), at |-> now]
<1>1. /\ login \in [Threads -> Login]
      /\ login[r] \in Login
      /\ login[r].pc = "append"
      /\ attempts \in [Addresses -> SUBSET Attempt]
      /\ letThrough \in [Addresses -> SUBSET Attempt]
      /\ clock \in Nat
      /\ a \in Addresses
      /\ now \in Nat
      /\ now <= clock
      /\ Checking(login[r], attempts[a], letThrough[a])
  BY DEF GateInv, GateTypeOK, ListIsWindow, AppendAttempt, At, Limiting, Login
<1>2. /\ login' = [login EXCEPT ![r] = l]
      /\ attempts' = [attempts EXCEPT ![a] = @ \cup {entry}]
      /\ letThrough' = [letThrough EXCEPT ![a] = @ \cup {entry}]
      /\ UNCHANGED <<clock, raced>>
  BY DEF AppendAttempt, Goto
<1>3. entry.at = now /\ l.pc = "readUser"
  BY <1>1 DEF Login
<1> HIDE DEF l, same, entry
<1>4. /\ login'[r] = l
      /\ \A q \in Threads : q # r => login'[q] = login[q]
      /\ attempts'[a] = attempts[a] \cup {entry}
      /\ letThrough'[a] = letThrough[a] \cup {entry}
      /\ \A b \in Addresses : b # a => attempts'[b] = attempts[b] /\ letThrough'[b] = letThrough[b]
  BY <1>1, <1>2
<1>5. ListIsWindow'
  <2>1. \A b \in Addresses :
          /\ attempts'[b] \subseteq letThrough'[b]
          /\ \A e \in letThrough'[b] : e.at <= clock' /\ (e \in attempts'[b] \/ clock' - e.at >= Window)
    BY <1>1, <1>2, <1>3, <1>4 DEF ListIsWindow
  <2>2. \A p, q \in Threads :
          p # q /\ login'[p].pc \in Limiting /\ login'[q].pc \in Limiting
          => login'[p].address # login'[q].address
    BY <1>3, <1>4 DEF ListIsWindow, Limiting
  <2>3. ASSUME NEW q \in Threads, login'[q].pc \in Limiting
        PROVE  /\ login'[q].started <= clock'
               /\ Checking(login'[q], attempts'[login'[q].address], letThrough'[login'[q].address])
    <3>1. q # r /\ login'[q] = login[q] /\ login[q].pc \in Limiting
      BY <1>3, <1>4, <2>3 DEF Limiting
    <3>2. login[q].address # a /\ login[q].address \in Addresses
      BY <1>1, <3>1 DEF ListIsWindow, GateInv, Limiting
    <3> QED
      BY <1>2, <1>4, <3>1, <3>2 DEF ListIsWindow
  <2> QED
    BY <2>1, <2>2, <2>3 DEF ListIsWindow
<1>6. Cardinality(InWindow(letThrough'[a], now)) <= RateMax
  <2>1. IsFiniteSet(attempts[a]) /\ Cardinality(attempts[a]) < RateMax
    <3>1. attempts[a] \subseteq letThrough[a] /\ IsFiniteSet(letThrough[a])
      BY <1>1 DEF ListIsWindow, GateInv
    <3> QED
      BY <1>1, <3>1, FS_Subset DEF Checking
  <2>2. InWindow(letThrough'[a], now) \subseteq attempts[a] \cup {entry}
    <3>1. attempts[a] = InWindow(letThrough[a], now)
      BY <1>1 DEF Checking
    <3> QED
      BY <1>4, <3>1 DEF InWindow
  <2>3. /\ IsFiniteSet(attempts[a] \cup {entry})
        /\ Cardinality(attempts[a] \cup {entry}) \in Nat
        /\ Cardinality(attempts[a] \cup {entry}) <= RateMax
    <3>1. /\ IsFiniteSet(attempts[a] \cup {entry})
          /\ Cardinality(attempts[a] \cup {entry}) \in {Cardinality(attempts[a]),
                                                        Cardinality(attempts[a]) + 1}
      BY <2>1, FS_AddElement
    <3>2. Cardinality(attempts[a]) \in Nat
      BY <2>1, FS_CardinalityType
    <3> QED
      BY <2>1, <3>1, <3>2, GateAssumption
  <2>4. /\ Cardinality(InWindow(letThrough'[a], now)) <= Cardinality(attempts[a] \cup {entry})
        /\ Cardinality(InWindow(letThrough'[a], now)) \in Nat
    BY <2>2, <2>3, FS_Subset, FS_CardinalityType
  <2> QED
    BY <2>3, <2>4, GateAssumption
<1>7. ASSUME NEW b \in Addresses, NEW e \in letThrough'[b]
      PROVE  Cardinality(InWindow(letThrough'[b], e.at)) <= RateMax
  <2>1. CASE b = a /\ e.at = now
    BY <1>6, <2>1
  <2>2. CASE b = a /\ e.at # now
    <3>1. e \in letThrough[a] /\ letThrough[a] \subseteq Attempt /\ e.at <= now
      BY <1>1, <1>3, <1>4, <1>7, <2>2 DEF Checking
    <3>2. e.at \in Nat /\ e.at < now
      BY <1>1, <2>2, <3>1 DEF Attempt
    <3>3. InWindow(letThrough'[b], e.at) = InWindow(letThrough[a], e.at)
      BY <1>1, <1>3, <1>4, <2>2, <3>2 DEF InWindow
    <3> QED
      BY <1>1, <3>1, <3>3 DEF SlidingWindow, Recent, InWindow
  <2>3. CASE b # a
    BY <1>4, <1>7, <2>3 DEF SlidingWindow, Recent, InWindow
  <2> QED
    BY <2>1, <2>2, <2>3
<1> QED
  BY <1>5, <1>7 DEF SlidingWindow, Recent, InWindow

LEMMA WindowNext == GateInv /\ WindowInv /\ [Next]_vars => WindowInv'
<1> SUFFICES ASSUME GateInv, WindowInv, [Next]_vars, "limit" \notin raced'
             PROVE  ListIsWindow' /\ SlidingWindow'
  BY DEF WindowInv
<1>1. /\ login \in [Threads -> Login]
      /\ Idle.pc = "idle"
      /\ clock \in Nat
      /\ letThrough \in [Addresses -> SUBSET Attempt]
  BY DEF GateInv, GateTypeOK, Idle
<1>2. ASSUME "limit" \notin raced, letThrough' = letThrough PROVE SlidingWindow'
  BY <1>2 DEF WindowInv, SlidingWindow, Recent
<1>3. ASSUME "limit" \notin raced, UNCHANGED <<clock, attempts, letThrough>>,
             NEW r \in Threads, NEW l, l.pc \notin Limiting,
             login' = [login EXCEPT ![r] = l]
      PROVE  ListIsWindow' /\ SlidingWindow'
  BY <1>1, <1>2, <1>3, ListFrame DEF WindowInv
<1>4. ASSUME NEW r \in Threads, NEW a \in Addresses \cup {NoAddress},
             NEW right \in BOOLEAN, StartLogin(r, a, right)
      PROVE  ListIsWindow' /\ SlidingWindow'
  <2>1. "limit" \notin raced /\ letThrough' = letThrough
    BY <1>4 DEF StartLogin
  <2> QED
    BY <1>2, <1>4, <2>1, StartKeepsWindow DEF WindowInv
<1>5. ASSUME NEW r \in Threads, Filter(r) \/ Assign(r) \/ CheckLimit(r) \/ Abort(r)
      PROVE  ListIsWindow' /\ SlidingWindow'
  <2>1. "limit" \notin raced /\ letThrough' = letThrough
    BY <1>5 DEF Filter, Assign, CheckLimit, Abort
  <2>2. CASE login[r].pc \in Limiting
    BY <1>2, <1>5, <2>1, <2>2, CheckKeepsWindow DEF WindowInv
  <2>3. CASE login[r].pc \notin Limiting
    <3>1. Abort(r)
      BY <1>5, <2>3 DEF Filter, Assign, CheckLimit, At, Limiting
    <3> QED
      BY <1>1, <1>3, <2>1, <3>1 DEF Abort, Return, Limiting
  <2> QED
    BY <2>2, <2>3
<1>6. ASSUME NEW r \in Threads, AppendAttempt(r)
      PROVE  ListIsWindow' /\ SlidingWindow'
  <2>1. "limit" \notin raced
    BY <1>6 DEF AppendAttempt
  <2> QED
    BY <1>6, <2>1, AppendKeepsWindow DEF WindowInv
<1>7. ASSUME NEW r \in Threads, ReadUser(r)
      PROVE  ListIsWindow' /\ SlidingWindow'
  <2>1. "limit" \notin raced /\ UNCHANGED <<clock, attempts, letThrough>>
    BY <1>7 DEF ReadUser
  <2>2. login'[r].pc \notin Limiting /\ \A q \in Threads : q # r => login'[q] = login[q]
    BY <1>1, <1>7 DEF ReadUser, Return, Limiting, Login
  <2> QED
    BY <1>2, <2>1, <2>2, ListFrame DEF WindowInv
<1>8. ASSUME NEW r \in Threads, ResetLockState(r) \/ ApplyFailedAttempt(r)
      PROVE  ListIsWindow' /\ SlidingWindow'
  BY <1>1, <1>3, <1>8 DEF ResetLockState, ApplyFailedAttempt, Return, Limiting
<1>9. CASE UNCHANGED vars
  BY <1>2, <1>9, ListFrame DEF vars, WindowInv
<1>10. CASE Tick
  <2>1. /\ clock' = clock + 1
        /\ UNCHANGED <<attempts, login, letThrough, raced>>
    BY <1>10 DEF Tick
  <2>2. \A a \in Addresses : \A e \in letThrough[a] : e.at \in Nat
    BY <1>1 DEF Attempt
  <2>3. \A r \in Threads : login[r].started \in Nat
    BY <1>1 DEF Login
  <2>4. ListIsWindow'
    BY <1>1, <2>1, <2>2, <2>3, GateAssumption DEF WindowInv, ListIsWindow
  <2> QED
    BY <1>2, <2>1, <2>4
<1>11. CASE Restart
  BY <1>1, <1>11 DEF Restart, ListIsWindow, SlidingWindow, Limiting
<1> QED
  BY <1>4, <1>5, <1>6, <1>7, <1>8, <1>9, <1>10, <1>11 DEF Next, Serve

LEMMA InitWindow == Init => WindowInv
BY DEF Init, WindowInv, ListIsWindow, SlidingWindow, Idle, Limiting

(* While no two checks of an address overlap, no more than MAX_ATTEMPTS     *)
(* logins of it pass in any WINDOW_SECONDS, through aborts and restarts.    *)
THEOREM WindowSlides == Spec => []SlidingWindow
<1>1. WindowInv => SlidingWindow
  BY DEF WindowInv, SlidingWindow
<1> QED
  BY <1>1, InitWindow, WindowNext, GateInvariant, PTL DEF Spec

(* ... and whoever is refused comes in a window that is full.               *)
THEOREM RefusalsHaveCause == Spec => RefusalsAreDue
<1>1. GateInv /\ WindowInv /\ [Next]_vars =>
        [\A r \in Threads :
           /\ "limit" \notin raced
           /\ At(r, "check")
           /\ CheckLimit(r)
           /\ login'[r].pc = "idle"
           => Cardinality(Recent(login[r].address, login[r].started)) >= RateMax]_vars
  <2> SUFFICES ASSUME GateInv, WindowInv, NEW r \in Threads, "limit" \notin raced,
                      At(r, "check"), CheckLimit(r), login'[r].pc = "idle"
               PROVE  Cardinality(Recent(login[r].address, login[r].started)) >= RateMax
    OBVIOUS
  <2>1. attempts[login[r].address] = Recent(login[r].address, login[r].started)
    BY DEF WindowInv, ListIsWindow, Checking, At, Limiting, Recent, InWindow
  <2>2. login \in [Threads -> Login] /\ login[r] \in Login
    BY DEF GateInv, GateTypeOK
  <2>3. ~Goto(r, "append")
    BY <2>2 DEF Goto, Login
  <2> QED
    BY <2>1, <2>3 DEF CheckLimit
<1> QED
  BY <1>1, InitWindow, WindowNext, GateInvariant, PTL DEF Spec, RefusalsAreDue
===============================================================================
