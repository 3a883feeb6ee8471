--------------------------- MODULE SchemaInitProofs ---------------------------
(* Proofs about SchemaInit, for any number of callers and of faults.         *)
EXTENDS SchemaInit, TLAPS

(* The statements are distinct, and each creates a table or adds a column.  *)
LEMMA StatementsDiffer ==
  \A i, j \in Steps : Statements[i] = Statements[j] => i = j
BY DEF Statements, Steps

LEMMA StatementsCover ==
  /\ \A i \in Steps : Statements[i] \in Tables \cup Columns
  /\ \A x \in Tables \cup Columns : \E i \in Steps : Statements[i] = x
<1>1. \A i \in Steps : Statements[i] \in Tables \cup Columns
  BY DEF Statements, Steps, Tables, Columns
<1>2. ASSUME NEW x \in Tables \cup Columns PROVE \E i \in Steps : Statements[i] = x
  <2>1. /\ x = "users" => Statements[1] = x
        /\ x = "audit_logs" => Statements[2] = x
        /\ x = "sessions" => Statements[3] = x
        /\ x = "refresh_tokens" => Statements[4] = x
        /\ x = "alert_queue" => Statements[5] = x
        /\ x = "alert_dead_letter" => Statements[6] = x
        /\ x = "status" => Statements[7] = x
        /\ x = "attempts" => Statements[8] = x
        /\ x = "last_error" => Statements[9] = x
        /\ x = "locked_by" => Statements[10] = x
        /\ x = "locked_at" => Statements[11] = x
        /\ x = "processed_at" => Statements[12] = x
    BY DEF Statements
  <2> QED
    BY <1>2, <2>1 DEF Tables, Columns, Steps
<1> QED
  BY <1>1, <1>2

(* What is there was created in the order of the statements ...             *)
InOrder == \A i, j \in Steps :
  j < i /\ Statements[i] \in present => Statements[j] \in present

(* ... and a caller has everything before the statement it is at.           *)
BehindIsDone == \A p \in Callers : \A i \in Steps :
  i < step[p] => Statements[i] \in present

(* What a caller lost a race for is there, so a probe did not find it then. *)
LostIsPresent == \A p \in Callers :
  /\ lost[p] \subseteq present
  /\ missing[p] => Statements[step[p]] \notin lost[p]

SchemaInv ==
  /\ SchemaTypeOK
  /\ InOrder
  /\ BehindIsDone
  /\ LostIsPresent
  /\ ClaimedCanFail

LEMMA InvInit == Init => SchemaInv
<1> SUFFICES ASSUME Init PROVE SchemaInv
  OBVIOUS
<1> PICK n \in {0} \cup Steps : present = {Statements[i] : i \in 1..n}
  BY DEF Init
<1>n. n \in 0..12
  BY DEF Steps
<1>1. SchemaTypeOK
  <2>1. present \subseteq Tables \cup Columns
    <3>1. \A i \in 1..n : i \in Steps
      BY <1>n DEF Steps
    <3> QED
      BY <3>1, StatementsCover
  <2> QED
    BY <2>1, SchemaAssumption DEF Init, SchemaTypeOK, Idle, Ready
<1>2. InOrder
  <2> SUFFICES ASSUME NEW i \in Steps, NEW j \in Steps, j < i,
                      Statements[i] \in present
               PROVE  Statements[j] \in present
    BY DEF InOrder
  <2>1. PICK k \in 1..n : Statements[i] = Statements[k]
    OBVIOUS
  <2>2. k \in Steps
    BY <1>n DEF Steps
  <2>3. k = i
    BY <2>1, <2>2, StatementsDiffer
  <2>4. j \in 1..n
    BY <2>3, <1>n DEF Steps
  <2> QED
    BY <2>4
<1>3. BehindIsDone
  BY DEF Init, BehindIsDone, Steps, Idle
<1>4. LostIsPresent /\ ClaimedCanFail
  BY DEF Init, LostIsPresent, ClaimedCanFail
<1> QED
  BY <1>1, <1>2, <1>3, <1>4 DEF SchemaInv

(* A caller at a statement whose predecessors are there adds it.            *)
LEMMA AddKeepsOrder ==
  ASSUME InOrder, BehindIsDone, NEW p \in Callers, step[p] \in Steps,
         present' = present \cup {Statements[step[p]]}
  PROVE  InOrder'
<1> SUFFICES ASSUME NEW i \in Steps, NEW j \in Steps, j < i,
                    Statements[i] \in present'
             PROVE  Statements[j] \in present'
  BY DEF InOrder
<1>1. CASE Statements[i] \in present
  BY <1>1 DEF InOrder
<1>2. CASE Statements[i] = Statements[step[p]]
  <2>1. i = step[p]
    BY <1>2, StatementsDiffer
  <2> QED
    BY <2>1 DEF BehindIsDone
<1> QED
  BY <1>1, <1>2

(* When p moves to the next statement after its own is there.               *)
LEMMA AdvanceKeepsDone ==
  ASSUME SchemaTypeOK, BehindIsDone, NEW p \in Callers, step[p] \in Steps,
         present \subseteq present', Statements[step[p]] \in present',
         step' = [step EXCEPT ![p] = step[p] + 1]
  PROVE  /\ BehindIsDone'
         /\ step' \in [Callers -> Idle..Ready]
<1>1. step' \in [Callers -> Idle..Ready]
  BY DEF SchemaTypeOK, Idle, Ready, Steps
<1>2. ASSUME NEW q \in Callers, NEW i \in Steps, i < step'[q]
      PROVE  Statements[i] \in present'
  <2>1. CASE q = p
    <3>1. i < step[p] \/ i = step[p]
      BY <1>2, <2>1 DEF SchemaTypeOK, Steps
    <3> QED
      BY <3>1 DEF BehindIsDone
  <2>2. CASE q # p
    BY <1>2, <2>2 DEF SchemaTypeOK, BehindIsDone
  <2> QED
    BY <2>1, <2>2
<1> QED
  BY <1>1, <1>2 DEF BehindIsDone

(* When p leaves init_db.                                                   *)
LEMMA LeaveKeepsDone ==
  ASSUME SchemaTypeOK, BehindIsDone, NEW p \in Callers, NEW s \in {Idle, 1},
         UNCHANGED present, step' = [step EXCEPT ![p] = s]
  PROVE  BehindIsDone' /\ step' \in [Callers -> Idle..Ready]
BY DEF SchemaTypeOK, BehindIsDone, Idle, Ready, Steps

(* The claim's columns come after those of fail_alert.                      *)
LEMMA ClaimImpliesFail ==
  ASSUME InOrder, ClaimUses \subseteq present
  PROVE  FailUses \subseteq present
<1>1. Statements[11] \in present
  BY DEF ClaimUses, Statements
<1>2. \A j \in 1..10 : Statements[j] \in present
  BY <1>1 DEF InOrder, Steps
<1>3. /\ Statements[5] \in present /\ Statements[6] \in present
      /\ Statements[7] \in present /\ Statements[8] \in present
      /\ Statements[9] \in present /\ Statements[10] \in present
  BY <1>2
<1> QED
  BY <1>1, <1>3 DEF FailUses, Statements

LEMMA InvNext == SchemaInv /\ [Next]_vars => SchemaInv'
<1> SUFFICES ASSUME SchemaInv, [Next]_vars PROVE SchemaInv'
  OBVIOUS
<1> USE DEF SchemaInv
<1>1. ASSUME NEW p \in Callers, Call(p) PROVE SchemaInv'
  <2>1. BehindIsDone' /\ step' \in [Callers -> Idle..Ready]
    BY <1>1, LeaveKeepsDone DEF Call, Goto
  <2>2. ~missing[p]
    BY <1>1 DEF Call, SchemaTypeOK, AtColumn, Steps, Idle
  <2> QED
    BY <1>1, <2>1, <2>2
      DEF Call, Goto, SchemaTypeOK, AtColumn, InOrder, LostIsPresent, ClaimedCanFail
<1>2. ASSUME NEW p \in Callers, CreateTable(p) PROVE SchemaInv'
  <2>1. InOrder'
    BY <1>2, AddKeepsOrder DEF CreateTable
  <2>2. BehindIsDone' /\ step' \in [Callers -> Idle..Ready]
    BY <1>2, AdvanceKeepsDone DEF CreateTable, Goto
  <2>3. ~missing[p]
    BY <1>2 DEF CreateTable, SchemaTypeOK, AtColumn, Tables, Columns
  <2>4. present' \subseteq Tables \cup Columns
    BY <1>2, StatementsCover DEF CreateTable, SchemaTypeOK
  <2> QED
    BY <1>2, <2>1, <2>2, <2>3, <2>4
      DEF CreateTable, Goto, SchemaTypeOK, AtColumn, LostIsPresent, ClaimedCanFail
<1>3. ASSUME NEW p \in Callers, Probe(p) PROVE SchemaInv'
  <2>1. CASE Statements[step[p]] \in present
    <3>1. BehindIsDone' /\ step' \in [Callers -> Idle..Ready]
      BY <1>3, <2>1, AdvanceKeepsDone DEF Probe, AtColumn, Goto
    <3> QED
      BY <1>3, <2>1, <3>1
        DEF Probe, Goto, SchemaTypeOK, AtColumn, InOrder, LostIsPresent, ClaimedCanFail
  <2>2. CASE Statements[step[p]] \notin present
    BY <1>3, <2>2
      DEF Probe, SchemaTypeOK, AtColumn, InOrder, BehindIsDone, LostIsPresent,
          ClaimedCanFail
  <2> QED
    BY <2>1, <2>2
<1>4. ASSUME NEW p \in Callers, AlterTable(p) PROVE SchemaInv'
  <2>1. CASE AddColumn(p)
    <3>1. InOrder'
      BY <1>4, <2>1, AddKeepsOrder DEF AlterTable, AtColumn, AddColumn
    <3>2. BehindIsDone' /\ step' \in [Callers -> Idle..Ready]
      BY <1>4, <2>1, AdvanceKeepsDone DEF AlterTable, AtColumn, AddColumn, Goto
    <3>3. present' \subseteq Tables \cup Columns
      BY <1>4, <2>1, StatementsCover DEF AlterTable, AtColumn, AddColumn, SchemaTypeOK
    <3> QED
      BY <1>4, <2>1, <3>1, <3>2, <3>3
        DEF AlterTable, AddColumn, Goto, SchemaTypeOK, AtColumn, LostIsPresent,
            ClaimedCanFail
  <2>2. CASE DuplicateColumn(p)
    <3>1. BehindIsDone' /\ step' \in [Callers -> Idle..Ready]
      BY <2>2, LeaveKeepsDone DEF DuplicateColumn, Goto
    <3>2. lost' \in [Callers -> SUBSET Columns]
      BY <1>4, <2>2 DEF AlterTable, AtColumn, DuplicateColumn, SchemaTypeOK
    <3> QED
      BY <1>4, <2>2, <3>1, <3>2
        DEF AlterTable, DuplicateColumn, Goto, SchemaTypeOK, AtColumn, InOrder,
            LostIsPresent, ClaimedCanFail
  <2> QED
    BY <1>4, <2>1, <2>2 DEF AlterTable
<1>5. ASSUME NEW p \in Callers, Serve(p) PROVE SchemaInv'
  <2>1. BehindIsDone' /\ step' \in [Callers -> Idle..Ready]
    BY <1>5, LeaveKeepsDone DEF Serve, Goto
  <2>2. ~missing[p]
    BY <1>5 DEF Serve, SchemaTypeOK, AtColumn, Steps, Ready
  <2> QED
    BY <1>5, <2>1, <2>2
      DEF Serve, Goto, SchemaTypeOK, AtColumn, InOrder, LostIsPresent, ClaimedCanFail
<1>6. ASSUME NEW p \in Callers, Abort(p) PROVE SchemaInv'
  <2>1. BehindIsDone' /\ step' \in [Callers -> Idle..Ready]
    BY <1>6, LeaveKeepsDone DEF Abort, Goto
  <2>2. faults' \in 0..MaxFaults
    BY <1>6, SchemaAssumption DEF Abort, SchemaTypeOK
  <2> QED
    BY <1>6, <2>1, <2>2
      DEF Abort, Goto, SchemaTypeOK, AtColumn, InOrder, LostIsPresent, ClaimedCanFail
<1>7. ASSUME Claim PROVE SchemaInv'
  BY <1>7, ClaimImpliesFail
    DEF Claim, SchemaTypeOK, AtColumn, InOrder, BehindIsDone, LostIsPresent, ClaimedCanFail
<1>8. ASSUME Ack \/ Fail PROVE SchemaInv'
  BY <1>8
    DEF Ack, Fail, SchemaTypeOK, AtColumn, InOrder, BehindIsDone, LostIsPresent,
        ClaimedCanFail
<1>9. CASE UNCHANGED vars
  BY <1>9
    DEF vars, SchemaTypeOK, AtColumn, InOrder, BehindIsDone, LostIsPresent, ClaimedCanFail
<1> QED
  BY <1>1, <1>2, <1>3, <1>4, <1>5, <1>6, <1>7, <1>8, <1>9 DEF Next, InitDb

(* init_db's inductive invariant: what is there was created in order.       *)
THEOREM SchemaInvariant == Spec => []SchemaInv
BY InvInit, InvNext, PTL DEF Spec

(* The database, the callers and the worker keep their types, and no probe  *)
(* outlives its call.                                                       *)
THEOREM SchemaTypes == Spec => []SchemaTypeOK
<1>1. SchemaInv => SchemaTypeOK
  BY DEF SchemaInv
<1> QED
  BY <1>1, SchemaInvariant, PTL

(* However many calls of init_db race, fail or are cut off, one that        *)
(* returned leaves every table and column its service names.                *)
THEOREM ReadyIsComplete == Spec => []ReadyMeansComplete
<1>1. SchemaInv => ReadyMeansComplete
  <2> SUFFICES ASSUME SchemaInv, NEW p \in Callers, step[p] = Ready,
                      NEW x \in Tables \cup Columns
               PROVE  x \in present
    BY DEF ReadyMeansComplete
  <2>1. PICK i \in Steps : Statements[i] = x
    BY StatementsCover
  <2> QED
    BY <2>1 DEF SchemaInv, BehindIsDone, Ready, Steps
<1> QED
  BY <1>1, SchemaInvariant, PTL

(* On a database that is half migrated, what the worker claims it can fail. *)
THEOREM ClaimsCanFail == Spec => []ClaimedCanFail
<1>1. SchemaInv => ClaimedCanFail
  BY DEF SchemaInv
<1> QED
  BY <1>1, SchemaInvariant, PTL

(* No caller loses the race for a column twice.                             *)
THEOREM RacesAreLostOnce == Spec => LosesOnce
<1>1. SchemaInv => \A p \in Callers :
        missing[p] /\ DuplicateColumn(p) => Statements[step[p]] \notin lost[p]
  BY DEF SchemaInv, LostIsPresent
<1> QED
  BY <1>1, SchemaInvariant, PTL DEF LosesOnce
===============================================================================
