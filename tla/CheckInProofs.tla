--------------------------- MODULE CheckInProofs ---------------------------
(***************************************************************************)
(* Invariants of CheckIn for any number of requests, staff, events and     *)
(* registrations, whether or not a lock may lapse; and that CheckIn        *)
(* implements the ledger of Admission.                                     *)
(***************************************************************************)
EXTENDS CheckIn, TLAPS

----------------------------------------------------------------------------
(* Type correctness                                                        *)

\* The free slot of Idle is a slot.
LEMMA IdleType == Idle \in Locals /\ Idle.pc = "idle"
<1> DEFINE r == CHOOSE r \in Registrations : TRUE
<1>1. r \in Registrations
  BY RegistrationsAssumption
<1>2. EventOf[r] \in Events /\ Owner[EventOf[r]] \in Staff
  BY <1>1, OwnerAssumption, EventOfAssumption
<1>3. QED
  BY <1>1, <1>2 DEF Idle, Locals, Tokens, Results

\* Moving on, settling, answering and beginning keep every slot well typed.
LEMMA GotoType ==
  ASSUME req \in [Requests -> Locals], NEW p \in Requests,
         NEW to \in {"idle"} \cup ScanSteps \cup UndoSteps, Goto(p, to)
  PROVE  req' \in [Requests -> Locals]
BY DEF Goto, Locals

LEMMA SettleType ==
  ASSUME req \in [Requests -> Locals], NEW p \in Requests, NEW x \in Results, Settle(p, x)
  PROVE  req' \in [Requests -> Locals]
<1>1. "release" \in ScanSteps
  BY DEF ScanSteps
<1>2. [req[p] EXCEPT !.pc = "release", !.result = x] \in Locals
  BY <1>1 DEF Locals
<1>3. req' = [req EXCEPT ![p] = [req[p] EXCEPT !.pc = "release", !.result = x]]
  BY DEF Settle
<1>4. QED
  BY <1>2, <1>3

LEMMA AnswerType ==
  ASSUME req \in [Requests -> Locals], NEW p \in Requests, NEW x \in Results, Answer(p, x)
  PROVE  req' \in [Requests -> Locals]
<1>1. [Idle EXCEPT !.result = x] \in Locals
  BY IdleType DEF Locals
<1>2. QED
  BY <1>1 DEF Answer

LEMMA BeginType ==
  ASSUME req \in [Requests -> Locals], NEW p \in Requests,
         NEW to \in ScanSteps \cup UndoSteps, NEW e \in Events, NEW s \in Staff,
         NEW t \in Tokens, NEW own \in BOOLEAN, Begin(p, to, e, s, t, own)
  PROVE  req' \in [Requests -> Locals]
BY DEF Begin, Locals, Results

\* The row updates of the admitting and undoing transactions give rows again.
LEMMA RowUpdates ==
  ASSUME NEW t \in QrTokenRow, NEW a \in AuditRows, NEW k \in {"qr", "manual"}
  PROVE  /\ [t EXCEPT !.revoked = TRUE, !.scanCount = @ + 1] \in QrTokenRow
         /\ Reenable(t) \in QrTokenRow
         /\ [a EXCEPT !.valid = @ + 1, !.via = k] \in AuditRows
<1>1. ASSUME NEW b \in BOOLEAN, NEW n \in Int
      PROVE  [t EXCEPT !.revoked = b, !.scanCount = n] \in QrTokenRow
  <2>1. [t EXCEPT !.revoked = b] \in QrTokenRow
    BY DEF QrTokenRow
  <2>2. ASSUME NEW u \in QrTokenRow PROVE [u EXCEPT !.scanCount = n] \in QrTokenRow
    BY DEF QrTokenRow
  <2>3. QED
    BY <2>1, <2>2
<1>2. t.scanCount \in Int
  BY DEF QrTokenRow
<1>3. [t EXCEPT !.revoked = TRUE, !.scanCount = @ + 1] \in QrTokenRow
  <2>1. t.scanCount + 1 \in Int
    BY <1>2
  <2>2. QED
    BY <1>1, <2>1
<1>4. Reenable(t) \in QrTokenRow
  <2>1. t.scanCount - 1 \in Int
    BY <1>2
  <2>2. QED
    BY <1>1, <2>1 DEF Reenable
<1>5. [a EXCEPT !.valid = @ + 1, !.via = k] \in AuditRows
  <2>1. [a EXCEPT !.valid = @ + 1] \in AuditRows
    BY DEF AuditRows
  <2>2. ASSUME NEW b \in AuditRows PROVE [b EXCEPT !.via = k] \in AuditRows
    BY DEF AuditRows
  <2>3. QED
    BY <2>1, <2>2
<1>6. QED
  BY <1>3, <1>4, <1>5

LEMMA InitType == Init => TypeOK
<1> SUFFICES ASSUME Init PROVE TypeOK
  OBVIOUS
<1>1. checkIn \in [Registrations -> CheckInRow]
  BY OwnerAssumption, EventOfAssumption DEF Init, CheckInRow
<1>a. qrToken \in [Registrations -> QrTokenRow]
  <2>1. ASSUME NEW i \in BOOLEAN
        PROVE  [issued |-> i, revoked |-> FALSE, scanCount |-> 0] \in QrTokenRow
    BY DEF QrTokenRow
  <2>2. QED
    BY <2>1 DEF Init
<1>b. audit \in [Registrations -> AuditRows]
  BY DEF Init, AuditRows
<1>2. req \in [Requests -> Locals]
  BY IdleType DEF Init
<1>3. QED
  BY <1>1, <1>2, <1>a, <1>b DEF Init, TypeOK

\* The admitting transactions keep the types.
LEMMA AdmitType ==
  ASSUME TypeOK, NEW p \in Requests, Admit(p)
  PROVE  TypeOK'
<1> DEFINE r == RegOf(p)
<1>1. r \in Registrations /\ req[p].staff \in Staff /\ req[p].token.kind \in {"qr", "manual"}
  BY DEF TypeOK, RegOf, Locals, Tokens
<1>2. checkIn' \in [Registrations -> CheckInRow]
  BY <1>1 DEF TypeOK, Admit, CheckInRow
<1>3. qrToken' \in [Registrations -> QrTokenRow]
  <2>1. [qrToken[r] EXCEPT !.revoked = TRUE, !.scanCount = @ + 1] \in QrTokenRow
    BY <1>1, RowUpdates DEF TypeOK
  <2>2. QED
    BY <1>1, <2>1 DEF TypeOK, Admit
<1>4. audit' \in [Registrations -> AuditRows]
  <2>1. [audit[r] EXCEPT !.valid = @ + 1, !.via = req[p].token.kind] \in AuditRows
    BY <1>1, RowUpdates DEF TypeOK
  <2>2. QED
    BY <1>1, <2>1 DEF TypeOK, Admit
<1>5. req' \in [Requests -> Locals]
  BY SettleType DEF TypeOK, Admit, Results
<1>6. QED
  BY <1>2, <1>3, <1>4, <1>5 DEF TypeOK, Admit

\* So does undoCheckin's transaction.
LEMMA UndoType ==
  ASSUME TypeOK, NEW p \in Requests, UndoCommit(p)
  PROVE  TypeOK'
<1> DEFINE r == RegOf(p)
<1>1. r \in Registrations
  BY DEF TypeOK, RegOf, Locals, Tokens
<1>2. checkIn' \in [Registrations -> CheckInRow]
  BY <1>1 DEF TypeOK, UndoCommit, CheckInRow
<1>3. qrToken' \in [Registrations -> QrTokenRow]
  <2>1. Reenable(qrToken[r]) \in QrTokenRow
    BY <1>1, RowUpdates DEF TypeOK
  <2>2. QED
    BY <1>1, <2>1 DEF TypeOK, UndoCommit
<1>4. audit' \in [Registrations -> AuditRows]
  <2>1. [audit[r] EXCEPT !.undo = @ + 1] \in AuditRows
    BY <1>1 DEF TypeOK, AuditRows
  <2>2. QED
    BY <1>1, <2>1 DEF TypeOK, UndoCommit
<1>5. req' \in [Requests -> Locals]
  BY AnswerType DEF TypeOK, UndoCommit, Results
<1>6. status' \in [Registrations -> {"PENDING", "CONFIRMED", "CANCELLED"}]
  BY <1>1 DEF TypeOK, UndoCommit
<1>7. QED
  BY <1>2, <1>3, <1>4, <1>5, <1>6 DEF TypeOK, UndoCommit

\* Every step keeps the types.
LEMMA StepType == TypeOK /\ [Next]_vars => TypeOK'
<1> SUFFICES ASSUME TypeOK, [Next]_vars PROVE TypeOK'
  OBVIOUS
<1> USE DEF database
<1>0. ASSUME NEW p \in Requests
      PROVE  RegOf(p) \in Registrations /\ KeyOf(p) \in LockKeys
  BY DEF TypeOK, RegOf, KeyOf, Locals, LockKeys, Tokens
<1>1. ASSUME NEW p \in Requests, ScanStart(p) PROVE TypeOK'
  <2>1. PICK e \in Events, s \in Staff, t \in Tokens :
          \/ Begin(p, "acquire", e, s, t, FALSE)
          \/ Answer(p, "NOT_AUTHORIZED")
    BY <1>1 DEF ScanStart
  <2>2. CASE Begin(p, "acquire", e, s, t, FALSE)
    <3>1. req' \in [Requests -> Locals]
      BY <2>2, BeginType DEF TypeOK, ScanSteps
    <3>2. QED
      BY <1>1, <3>1 DEF TypeOK, ScanStart, Arrive
  <2>3. CASE Answer(p, "NOT_AUTHORIZED")
    <3>1. req' \in [Requests -> Locals]
      BY <2>3, AnswerType DEF TypeOK, Results
    <3>2. QED
      BY <1>1, <3>1 DEF TypeOK, ScanStart, Arrive
  <2>4. QED
    BY <2>1, <2>2, <2>3
<1>2. ASSUME NEW p \in Requests, UndoStart(p) PROVE TypeOK'
  <2>1. PICK s \in Staff, r \in Registrations :
          \/ Begin(p, "authorise", EventOf[r], s, [kind |-> "manual", reg |-> r],
                   checkIn[r].staff = s)
          \/ Answer(p, "NOT_FOUND")
    BY <1>2 DEF UndoStart
  <2>2. EventOf[r] \in Events /\ [kind |-> "manual", reg |-> r] \in Tokens
    BY EventOfAssumption DEF Tokens
  <2>3. req' \in [Requests -> Locals]
    <3>1. CASE Begin(p, "authorise", EventOf[r], s, [kind |-> "manual", reg |-> r],
                     checkIn[r].staff = s)
      BY <2>2, <3>1, BeginType DEF TypeOK, UndoSteps
    <3>2. CASE Answer(p, "NOT_FOUND")
      BY <3>2, AnswerType DEF TypeOK, Results
    <3>3. QED
      BY <2>1, <3>1, <3>2
  <2>4. UNCHANGED <<database, lock>> /\ calls' = calls + 1
    BY <1>2 DEF UndoStart, Arrive
  <2>5. QED
    BY <2>3, <2>4 DEF TypeOK
<1>3. ASSUME NEW p \in Requests, AcquireLock(p) \/ AcquireFails(p) PROVE TypeOK'
  <2>1. req' \in [Requests -> Locals]
    BY <1>3, GotoType, AnswerType DEF TypeOK, AcquireLock, AcquireFails, ScanSteps, Results
  <2>2. lock' \subseteq LockKeys
    BY <1>0, <1>3 DEF TypeOK, AcquireLock, AcquireFails
  <2>3. QED
    BY <1>3, <2>1, <2>2 DEF TypeOK, AcquireLock, AcquireFails
<1>4. ASSUME NEW p \in Requests, LookupToken(p) PROVE TypeOK'
  <2>1. ASSUME NEW late \in BOOLEAN PROVE Verdict(p, late) \in Results \cup {"go on"}
    BY DEF Verdict, Results
  <2>2. req' \in [Requests -> Locals]
    BY <1>4, <2>1, GotoType, SettleType DEF TypeOK, LookupToken, ScanSteps
  <2>3. QED
    BY <1>4, <2>2 DEF TypeOK, LookupToken
<1>5. ASSUME NEW p \in Requests, ReadCheckIn(p) PROVE TypeOK'
  <2>1. ResolveBranch(checkIn[RegOf(p)].row) \in ScanSteps
    BY <1>0 DEF TypeOK, CheckInRow, ResolveBranch, ScanSteps
  <2>2. req' \in [Requests -> Locals]
    BY <1>5, <2>1, GotoType DEF TypeOK, ReadCheckIn
  <2>3. QED
    BY <1>5, <2>2 DEF TypeOK, ReadCheckIn
<1>6. ASSUME NEW p \in Requests, LogDuplicate(p) PROVE TypeOK'
  <2>1. req' \in [Requests -> Locals]
    BY <1>6, SettleType DEF TypeOK, LogDuplicate, Results
  <2>2. audit' \in [Registrations -> AuditRows]
    <3>1. [audit[RegOf(p)] EXCEPT !.duplicate = @ + 1] \in AuditRows
      BY <1>0 DEF TypeOK, AuditRows
    <3>2. QED
      BY <1>0, <1>6, <3>1 DEF TypeOK, LogDuplicate
  <2>3. QED
    BY <1>6, <2>1, <2>2 DEF TypeOK, LogDuplicate
<1>7. ASSUME NEW p \in Requests, CreateCheckIn(p) \/ RestoreCheckIn(p) PROVE TypeOK'
  BY <1>7, AdmitType DEF CreateCheckIn, RestoreCheckIn
<1>8. ASSUME NEW p \in Requests, CreateCollides(p) \/ ScanQueryFails(p) PROVE TypeOK'
  <2>1. req' \in [Requests -> Locals]
    BY <1>8, SettleType DEF TypeOK, CreateCollides, ScanQueryFails, Results
  <2>2. QED
    BY <1>8, <2>1 DEF TypeOK, CreateCollides, ScanQueryFails
<1>9. ASSUME NEW p \in Requests, ReleaseLock(p) \/ ReleaseFails(p) PROVE TypeOK'
  <2>1. req[p].result \in Results
    BY DEF TypeOK, Locals
  <2>2. req' \in [Requests -> Locals]
    BY <1>9, <2>1, AnswerType DEF TypeOK, ReleaseLock, ReleaseFails
  <2>3. QED
    BY <1>9, <2>2 DEF TypeOK, ReleaseLock, ReleaseFails
<1>10. ASSUME NEW p \in Requests, UndoAuthorise(p) PROVE TypeOK'
  <2>1. req' \in [Requests -> Locals]
    BY <1>10, AnswerType, GotoType DEF TypeOK, UndoAuthorise, UndoSteps, Results
  <2>2. QED
    BY <1>10, <2>1 DEF TypeOK, UndoAuthorise
<1>11. ASSUME NEW p \in Requests, UndoCommit(p) PROVE TypeOK'
  BY <1>11, UndoType
<1>12. ASSUME NEW p \in Requests, UndoMisses(p) \/ UndoQueryFails(p) PROVE TypeOK'
  <2>1. req' \in [Requests -> Locals]
    BY <1>12, AnswerType DEF TypeOK, UndoMisses, UndoQueryFails, Results
  <2>2. QED
    BY <1>12, <2>1 DEF TypeOK, UndoMisses, UndoQueryFails
<1>13. CASE LockExpires
  BY <1>13 DEF TypeOK, LockExpires
<1>14. CASE ServerCrash
  <2>1. [Idle EXCEPT !.result = "LOST"] \in Locals
    BY IdleType DEF Locals, Results
  <2>2. req' \in [Requests -> Locals]
    BY <1>14, <2>1 DEF TypeOK, ServerCrash
  <2>3. QED
    BY <1>14, <2>2 DEF TypeOK, ServerCrash
<1>15. CASE RemoveStaff
  BY <1>15 DEF TypeOK, RemoveStaff
<1>16. CASE DeleteEvent
  BY <1>16 DEF TypeOK, DeleteEvent
<1>17. CASE UNCHANGED vars
  BY <1>17 DEF TypeOK, vars
<1>18. QED
  BY <1>1, <1>2, <1>3, <1>4, <1>5, <1>6, <1>7, <1>8, <1>9, <1>10, <1>11, <1>12,
     <1>13, <1>14, <1>15, <1>16, <1>17 DEF Next, Proceed

\* CheckIn is type correct, for every instance.
THEOREM TypeCorrect == Spec => []TypeOK
BY InitType, StepType, PTL DEF Spec

----------------------------------------------------------------------------
(* Safety of the gate                                                      *)

\* What the row of a registration says about its audit trail.
HistoryAgrees ==
  \A r \in Registrations :
    /\ checkIn[r].row = "none" => audit[r].valid = 0 /\ audit[r].undo = 0
    /\ checkIn[r].row = "undone" => audit[r].undo >= 1
    /\ checkIn[r].row = "active" => audit[r].valid >= 1

\* A scan on its way to the restoring transaction has seen an undone row, so
\* its registration was undone at least once, whatever became of the row since.
RestoreIsJustified ==
  \A p \in Requests : req[p].pc = "restore" => audit[RegOf(p)].undo >= 1

\* The inductive invariant: OneAdmissionBeforeUndo is not inductive alone, as
\* only RestoreIsJustified excludes a restore before the first undo.
GateInv ==
  /\ TypeOK
  /\ HistoryAgrees
  /\ RestoreIsJustified
  /\ OneAdmissionBeforeUndo
  /\ UndosArePaidFor
  /\ RevokedMeansAdmitted
  /\ ScanCountSound

LEMMA InitGate == Init => GateInv
<1> SUFFICES ASSUME Init PROVE GateInv
  OBVIOUS
<1>1. TypeOK
  BY InitType
<1>2. \A p \in Requests : req[p].pc = "idle"
  BY IdleType DEF Init
<1>3. \A r \in Registrations : /\ checkIn[r].row = "none"
                               /\ audit[r].valid = 0 /\ audit[r].undo = 0
                               /\ ~qrToken[r].revoked /\ qrToken[r].scanCount = 0
  BY DEF Init
<1>4. QED
  BY <1>1, <1>2, <1>3 DEF GateInv, HistoryAgrees, RestoreIsJustified, OneAdmissionBeforeUndo,
     UndosArePaidFor, RevokedMeansAdmitted, ScanCountSound, Inside, Admitted

\* Nobody newly comes to the restoring transaction.
NoNewRestore ==
  \A q \in Requests :
    req'[q].pc = "restore" => req[q].pc = "restore" /\ req'[q].token = req[q].token

LEMMA AnswerMoves ==
  ASSUME TypeOK, NEW p \in Requests, NEW x, Answer(p, x)
  PROVE  NoNewRestore
<1>1. [Idle EXCEPT !.result = x].pc = "idle"
  BY IdleType DEF Locals
<1>2. QED
  BY <1>1 DEF Answer, NoNewRestore, TypeOK

LEMMA SlotMoves ==
  ASSUME TypeOK, NEW p \in Requests, NEW x, NEW to, to # "restore",
         NEW e, NEW s, NEW t, NEW own,
         \/ Goto(p, to)
         \/ Settle(p, x)
         \/ Answer(p, x)
         \/ Begin(p, to, e, s, t, own)
  PROVE  NoNewRestore
<1>1. req \in [Requests -> Locals]
  BY DEF TypeOK
<1>2. CASE Goto(p, to)
  BY <1>1, <1>2 DEF Goto, NoNewRestore, Locals
<1>3. CASE Settle(p, x)
  <2>1. req' = [req EXCEPT ![p] = [req[p] EXCEPT !.pc = "release", !.result = x]]
    BY <1>3 DEF Settle
  <2>2. [req[p] EXCEPT !.pc = "release", !.result = x].pc = "release"
    BY <1>1 DEF Locals
  <2>3. QED
    BY <1>1, <2>1, <2>2 DEF NoNewRestore
<1>4. CASE Answer(p, x)
  BY <1>4, AnswerMoves
<1>5. CASE Begin(p, to, e, s, t, own)
  BY <1>1, <1>5 DEF Begin, NoNewRestore
<1>6. QED
  BY <1>2, <1>3, <1>4, <1>5

\* A step that writes none of the three tables and brings no one to "restore".
LEMMA QuietStep ==
  ASSUME GateInv, TypeOK', UNCHANGED <<checkIn, qrToken, audit>>, NoNewRestore
  PROVE  GateInv'
<1>1. RestoreIsJustified'
  BY DEF GateInv, RestoreIsJustified, NoNewRestore, RegOf
<1>2. QED
  BY <1>1 DEF GateInv, HistoryAgrees, OneAdmissionBeforeUndo, UndosArePaidFor,
     RevokedMeansAdmitted, ScanCountSound, Inside, Admitted

\* An admitting transaction: the first one is the create, which finds no row;
\* a restore may find the row active, but only after some undo.
LEMMA AdmitGate ==
  ASSUME GateInv, NEW p \in Requests, CreateCheckIn(p) \/ RestoreCheckIn(p)
  PROVE  GateInv'
<1> DEFINE r == RegOf(p)
<1>1. TypeOK' /\ Admit(p)
  BY AdmitType DEF GateInv, CreateCheckIn, RestoreCheckIn
<1>2. r \in Registrations
  BY DEF GateInv, TypeOK, RegOf, Locals, Tokens
<1>3. checkIn[r].row = "none" \/ audit[r].undo >= 1
  BY DEF GateInv, RestoreIsJustified, CreateCheckIn, RestoreCheckIn
<1>4. /\ checkIn'[r].row = "active"
      /\ audit'[r].valid = audit[r].valid + 1 /\ audit'[r].undo = audit[r].undo
      /\ \/ qrToken'[r] = qrToken[r]
         \/ qrToken'[r].revoked /\ qrToken'[r].scanCount = qrToken[r].scanCount + 1
  BY <1>1, <1>2 DEF Admit, GateInv, TypeOK, QrTokenRow, AuditRows
<1>5. \A o \in Registrations \ {r} :
        checkIn'[o] = checkIn[o] /\ audit'[o] = audit[o] /\ qrToken'[o] = qrToken[o]
  BY <1>1, <1>2 DEF Admit, GateInv, TypeOK
<1>6. NoNewRestore
  <2>1. Settle(p, "VALID")
    BY <1>1 DEF Admit
  <2>2. QED
    BY <2>1, SlotMoves DEF GateInv
<1>7. /\ audit[r].valid \in Nat /\ audit[r].undo \in Nat /\ qrToken[r].scanCount \in Int
  BY <1>2 DEF GateInv, TypeOK, AuditRows, QrTokenRow
<1>8. HistoryAgrees'
  BY <1>4, <1>5, <1>7 DEF GateInv, HistoryAgrees
<1>9. RestoreIsJustified'
  <2>1. \A q \in Requests : RegOf(q) \in Registrations
    BY DEF GateInv, TypeOK, RegOf, Locals, Tokens
  <2>2. \A o \in Registrations : audit'[o].undo = audit[o].undo
    BY <1>4, <1>5
  <2>3. QED
    BY <1>6, <2>1, <2>2 DEF GateInv, RestoreIsJustified, NoNewRestore, RegOf
<1>10. OneAdmissionBeforeUndo'
  BY <1>2, <1>3, <1>4, <1>5, <1>7
     DEF GateInv, OneAdmissionBeforeUndo, HistoryAgrees, Inside, Admitted
<1>11. UndosArePaidFor'
  BY <1>2, <1>4, <1>5, <1>7 DEF GateInv, UndosArePaidFor, Inside, Admitted
<1>12. RevokedMeansAdmitted'
  BY <1>4, <1>5 DEF GateInv, RevokedMeansAdmitted, Admitted
<1>13. ScanCountSound'
  BY <1>2, <1>4, <1>5, <1>7 DEF GateInv, ScanCountSound
<1>14. QED
  BY <1>1, <1>8, <1>9, <1>10, <1>11, <1>12, <1>13 DEF GateInv

\* The undo: it finds the row active, so an admission is there to be taken back,
\* and the token it finds revoked was counted.
LEMMA UndoGate ==
  ASSUME GateInv, NEW p \in Requests, UndoCommit(p)
  PROVE  GateInv'
<1> DEFINE r == RegOf(p)
<1>1. TypeOK'
  BY UndoType DEF GateInv
<1>2. r \in Registrations
  BY DEF GateInv, TypeOK, RegOf, Locals, Tokens
<1>3. Admitted(r)
  BY DEF UndoCommit, Admitted
<1>4. /\ checkIn'[r].row = "undone"
      /\ audit'[r].valid = audit[r].valid /\ audit'[r].undo = audit[r].undo + 1
  BY <1>2 DEF UndoCommit, GateInv, TypeOK, CheckInRow, AuditRows
<1>5. /\ ~qrToken'[r].revoked
      /\ qrToken'[r].scanCount = IF qrToken[r].revoked THEN qrToken[r].scanCount - 1
                                                       ELSE qrToken[r].scanCount
  <2>1. qrToken'[r] = Reenable(qrToken[r])
    BY <1>2 DEF UndoCommit, GateInv, TypeOK
  <2>2. qrToken[r] \in QrTokenRow
    BY <1>2 DEF GateInv, TypeOK
  <2>3. CASE qrToken[r].revoked
    BY <2>1, <2>2, <2>3 DEF Reenable, QrTokenRow
  <2>4. CASE ~qrToken[r].revoked
    BY <2>1, <2>4 DEF Reenable
  <2>5. QED
    BY <2>3, <2>4
<1>6. \A o \in Registrations \ {r} :
        checkIn'[o] = checkIn[o] /\ audit'[o] = audit[o] /\ qrToken'[o] = qrToken[o]
  BY <1>2 DEF UndoCommit, GateInv, TypeOK
<1>7. NoNewRestore
  BY SlotMoves DEF UndoCommit, GateInv
<1>8. \A o \in Registrations :
        audit[o].valid \in Nat /\ audit[o].undo \in Nat /\ qrToken[o].scanCount \in Int
  BY DEF GateInv, TypeOK, AuditRows, QrTokenRow
<1>9. HistoryAgrees'
  BY <1>2, <1>4, <1>6, <1>8 DEF GateInv, HistoryAgrees
<1>10. RestoreIsJustified'
  <2>1. \A q \in Requests : RegOf(q) \in Registrations
    BY DEF GateInv, TypeOK, RegOf, Locals, Tokens
  <2>2. \A o \in Registrations : audit'[o].undo >= audit[o].undo
    BY <1>4, <1>6, <1>8
  <2>3. \A o \in Registrations : audit'[o].undo \in Nat
    BY <1>1 DEF TypeOK, AuditRows
  <2>4. ASSUME NEW q \in Requests, req'[q].pc = "restore"
        PROVE  audit'[RegOf(q)'].undo >= 1
    <3>1. req[q].pc = "restore" /\ RegOf(q)' = RegOf(q)
      BY <1>7, <2>4 DEF NoNewRestore, RegOf
    <3>2. audit[RegOf(q)].undo >= 1
      BY <3>1 DEF GateInv, RestoreIsJustified
    <3>3. QED
      BY <3>1, <3>2, <1>8, <2>1, <2>2, <2>3
  <2>5. QED
    BY <2>4 DEF RestoreIsJustified
<1>11. OneAdmissionBeforeUndo'
  BY <1>2, <1>4, <1>6, <1>8 DEF GateInv, OneAdmissionBeforeUndo, Inside, Admitted
<1>12. UndosArePaidFor'
  BY <1>2, <1>3, <1>4, <1>6, <1>8 DEF GateInv, UndosArePaidFor, Inside, Admitted
<1>13. RevokedMeansAdmitted'
  BY <1>2, <1>5, <1>6 DEF GateInv, RevokedMeansAdmitted, Admitted
<1>14. ScanCountSound'
  BY <1>2, <1>5, <1>6, <1>8 DEF GateInv, ScanCountSound
<1>15. QED
  BY <1>1, <1>9, <1>10, <1>11, <1>12, <1>13, <1>14 DEF GateInv

LEMMA StepGate == GateInv /\ [Next]_vars => GateInv'
<1> SUFFICES ASSUME GateInv, [Next]_vars PROVE GateInv'
  OBVIOUS
<1> USE DEF database
<1>1. TypeOK /\ TypeOK'
  BY StepType DEF GateInv
<1>2. ASSUME NEW p \in Requests, ScanStart(p) PROVE GateInv'
  <2>1. NoNewRestore
    <3>1. PICK e \in Events, s \in Staff, t \in Tokens :
            \/ Begin(p, "acquire", e, s, t, FALSE)
            \/ Answer(p, "NOT_AUTHORIZED")
      BY <1>2 DEF ScanStart
    <3>2. CASE Begin(p, "acquire", e, s, t, FALSE)
      BY <1>1, <3>2 DEF Begin, NoNewRestore, TypeOK
    <3>3. CASE Answer(p, "NOT_AUTHORIZED")
      BY <1>1, <3>3, AnswerMoves
    <3>4. QED
      BY <3>1, <3>2, <3>3
  <2>2. QED
    BY <1>1, <1>2, <2>1, QuietStep DEF ScanStart
<1>3. ASSUME NEW p \in Requests, UndoStart(p) PROVE GateInv'
  <2>1. NoNewRestore
    BY <1>1, <1>3, SlotMoves DEF UndoStart
  <2>2. QED
    BY <1>1, <1>3, <2>1, QuietStep DEF UndoStart
<1>4. ASSUME NEW p \in Requests, AcquireLock(p) \/ AcquireFails(p) PROVE GateInv'
  <2>1. NoNewRestore
    BY <1>1, <1>4, SlotMoves DEF AcquireLock, AcquireFails
  <2>2. QED
    BY <1>1, <1>4, <2>1, QuietStep DEF AcquireLock, AcquireFails
<1>5. ASSUME NEW p \in Requests, LookupToken(p) PROVE GateInv'
  <2>1. NoNewRestore
    BY <1>1, <1>5, SlotMoves DEF LookupToken
  <2>2. QED
    BY <1>1, <1>5, <2>1, QuietStep DEF LookupToken
<1>6. ASSUME NEW p \in Requests, ReadCheckIn(p) PROVE GateInv'
  <2>1. CASE checkIn[RegOf(p)].row = "undone"
    <3>1. RegOf(p) \in Registrations
      BY <1>1 DEF TypeOK, RegOf, Locals, Tokens
    <3>2. audit[RegOf(p)].undo >= 1
      BY <2>1, <3>1 DEF GateInv, HistoryAgrees
    <3>3. req' = [req EXCEPT ![p].pc = "restore"] /\ UNCHANGED <<checkIn, qrToken, audit>>
      BY <1>6, <2>1 DEF ReadCheckIn, ResolveBranch, Goto
    <3>4. \A q \in Requests : req'[q].token = req[q].token
                              /\ (req'[q].pc = "restore" => q = p \/ req[q].pc = "restore")
      BY <1>1, <3>3 DEF TypeOK, Locals
    <3>5. RestoreIsJustified'
      BY <3>2, <3>3, <3>4 DEF GateInv, RestoreIsJustified, RegOf
    <3>6. QED
      BY <1>1, <3>3, <3>5 DEF GateInv, HistoryAgrees, OneAdmissionBeforeUndo,
         UndosArePaidFor, RevokedMeansAdmitted, ScanCountSound, Inside, Admitted
  <2>2. CASE checkIn[RegOf(p)].row # "undone"
    <3>1. ResolveBranch(checkIn[RegOf(p)].row) # "restore"
      <4>1. checkIn[RegOf(p)].row \in {"none", "active"}
        BY <1>1, <2>2 DEF TypeOK, RegOf, Locals, Tokens, CheckInRow
      <4>2. QED
        BY <4>1 DEF ResolveBranch
    <3>2. NoNewRestore
      BY <1>1, <1>6, <3>1, SlotMoves DEF ReadCheckIn
    <3>3. QED
      BY <1>1, <1>6, <3>2, QuietStep DEF ReadCheckIn
  <2>3. QED
    BY <2>1, <2>2
<1>7. ASSUME NEW p \in Requests, LogDuplicate(p) PROVE GateInv'
  <2>1. NoNewRestore
    BY <1>1, <1>7, SlotMoves DEF LogDuplicate
  <2>2. \A r \in Registrations : audit'[r].valid = audit[r].valid
                                 /\ audit'[r].undo = audit[r].undo
    BY <1>1, <1>7 DEF LogDuplicate, TypeOK, AuditRows
  <2>3. \A q \in Requests : RegOf(q) \in Registrations
    BY <1>1 DEF TypeOK, RegOf, Locals, Tokens
  <2>4. RestoreIsJustified'
    BY <2>1, <2>2, <2>3 DEF GateInv, RestoreIsJustified, NoNewRestore, RegOf
  <2>5. QED
    BY <1>1, <1>7, <2>2, <2>4 DEF LogDuplicate, GateInv, HistoryAgrees,
       OneAdmissionBeforeUndo, UndosArePaidFor, RevokedMeansAdmitted, ScanCountSound,
       Inside, Admitted
<1>8. ASSUME NEW p \in Requests, CreateCheckIn(p) \/ RestoreCheckIn(p) PROVE GateInv'
  BY <1>8, AdmitGate
<1>9. ASSUME NEW p \in Requests, CreateCollides(p) \/ ScanQueryFails(p) PROVE GateInv'
  <2>1. NoNewRestore
    BY <1>1, <1>9, SlotMoves DEF CreateCollides, ScanQueryFails
  <2>2. QED
    BY <1>1, <1>9, <2>1, QuietStep DEF CreateCollides, ScanQueryFails
<1>10. ASSUME NEW p \in Requests, ReleaseLock(p) \/ ReleaseFails(p) PROVE GateInv'
  <2>1. NoNewRestore
    BY <1>1, <1>10, SlotMoves DEF ReleaseLock, ReleaseFails
  <2>2. QED
    BY <1>1, <1>10, <2>1, QuietStep DEF ReleaseLock, ReleaseFails
<1>11. ASSUME NEW p \in Requests, UndoAuthorise(p) PROVE GateInv'
  <2>1. NoNewRestore
    BY <1>1, <1>11, SlotMoves DEF UndoAuthorise
  <2>2. QED
    BY <1>1, <1>11, <2>1, QuietStep DEF UndoAuthorise
<1>12. ASSUME NEW p \in Requests, UndoCommit(p) PROVE GateInv'
  BY <1>12, UndoGate
<1>13. ASSUME NEW p \in Requests, UndoMisses(p) \/ UndoQueryFails(p) PROVE GateInv'
  <2>1. NoNewRestore
    BY <1>1, <1>13, SlotMoves DEF UndoMisses, UndoQueryFails
  <2>2. QED
    BY <1>1, <1>13, <2>1, QuietStep DEF UndoMisses, UndoQueryFails
<1>14. CASE ServerCrash
  <2>1. [Idle EXCEPT !.result = "LOST"].pc = "idle"
    BY IdleType DEF Locals
  <2>2. NoNewRestore
    BY <1>14, <2>1 DEF ServerCrash, NoNewRestore
  <2>3. QED
    BY <1>1, <1>14, <2>2, QuietStep DEF ServerCrash
<1>15. CASE LockExpires \/ RemoveStaff \/ DeleteEvent
  BY <1>1, <1>15, QuietStep DEF LockExpires, RemoveStaff, DeleteEvent, NoNewRestore
<1>16. CASE UNCHANGED vars
  BY <1>1, <1>16, QuietStep DEF vars, NoNewRestore
<1>17. QED
  BY <1>2, <1>3, <1>4, <1>5, <1>6, <1>7, <1>8, <1>9, <1>10, <1>11, <1>12, <1>13,
     <1>14, <1>15, <1>16 DEF Next, Proceed

\* Every reachable state satisfies the inductive invariant.
THEOREM GateInvariant == Spec => []GateInv
BY InitGate, StepGate, PTL DEF Spec

\* However many scans race, and even if their locks lapse, a registration is
\* answered VALID once until somebody undoes it.
THEOREM OneAdmission == Spec => []OneAdmissionBeforeUndo
<1>1. GateInv => OneAdmissionBeforeUndo
  BY DEF GateInv
<1>2. QED
  BY <1>1, GateInvariant, PTL

\* Undos and the standing admission never exceed the CHECKIN_VALID entries.
THEOREM PaidUndos == Spec => []UndosArePaidFor
<1>1. GateInv => UndosArePaidFor
  BY DEF GateInv
<1>2. QED
  BY <1>1, GateInvariant, PTL

\* A QR code that answers REVOKED belongs to somebody who is in.
THEOREM RevokedAreIn == Spec => []RevokedMeansAdmitted
<1>1. GateInv => RevokedMeansAdmitted
  BY DEF GateInv
<1>2. QED
  BY <1>1, GateInvariant, PTL

\* scanCount is never negative, and positive for a revoked token.
THEOREM SoundScanCount == Spec => []ScanCountSound
<1>1. GateInv => ScanCountSound
  BY DEF GateInv
<1>2. QED
  BY <1>1, GateInvariant, PTL

----------------------------------------------------------------------------
(* CheckIn implements Admission                                            *)

LEMMA InitPromise == Init => Promise!Init
BY DEF Init, Promise!Init, Admitted

\* An admitting transaction is an Enter of its registration.
LEMMA AdmitIsEnter ==
  ASSUME GateInv, NEW p \in Requests, CreateCheckIn(p) \/ RestoreCheckIn(p),
         NEW r \in Registrations, r = RegOf(p)
  PROVE  Promise!Enter(r)
<1>1. r \in Registrations
  OBVIOUS
<1>2. Admit(p)
  BY DEF CreateCheckIn, RestoreCheckIn
<1>3. checkIn[r].row = "none" \/ audit[r].undo >= 1
  BY DEF GateInv, RestoreIsJustified, CreateCheckIn, RestoreCheckIn
<1>4. r \notin {o \in Registrations : Admitted(o)} \/ [o \in Registrations |-> audit[o].undo][r] > 0
  BY <1>1, <1>3 DEF Admitted, GateInv, TypeOK, AuditRows
<1>5. /\ checkIn'[r].row = "active"
      /\ audit'[r].valid = audit[r].valid + 1 /\ audit'[r].undo = audit[r].undo
  BY <1>1, <1>2 DEF Admit, GateInv, TypeOK, AuditRows
<1>6. \A o \in Registrations \ {r} : checkIn'[o] = checkIn[o] /\ audit'[o] = audit[o]
  BY <1>1, <1>2 DEF Admit, GateInv, TypeOK
<1>7. {o \in Registrations : Admitted(o)}' = {o \in Registrations : Admitted(o)} \cup {r}
  BY <1>1, <1>5, <1>6 DEF Admitted
<1>8. [o \in Registrations |-> audit[o].valid]'
        = [[o \in Registrations |-> audit[o].valid] EXCEPT ![r] = @ + 1]
  BY <1>1, <1>5, <1>6
<1>9. [o \in Registrations |-> audit[o].undo]' = [o \in Registrations |-> audit[o].undo]
  BY <1>1, <1>5, <1>6
<1>10. QED
  BY <1>4, <1>7, <1>8, <1>9 DEF Promise!Enter

\* undoCheckin's transaction is a Leave of its registration.
LEMMA UndoIsLeave ==
  ASSUME GateInv, NEW p \in Requests, UndoCommit(p),
         NEW r \in Registrations, r = RegOf(p)
  PROVE  Promise!Leave(r)
<1>1. r \in Registrations
  OBVIOUS
<1>2. r \in {o \in Registrations : Admitted(o)}
  BY <1>1 DEF UndoCommit, Admitted
<1>3. /\ checkIn'[r].row = "undone"
      /\ audit'[r].valid = audit[r].valid /\ audit'[r].undo = audit[r].undo + 1
  BY <1>1 DEF UndoCommit, GateInv, TypeOK, CheckInRow, AuditRows
<1>4. \A o \in Registrations \ {r} : checkIn'[o] = checkIn[o] /\ audit'[o] = audit[o]
  BY <1>1 DEF UndoCommit, GateInv, TypeOK
<1>5. {o \in Registrations : Admitted(o)}' = {o \in Registrations : Admitted(o)} \ {r}
  BY <1>1, <1>3, <1>4 DEF Admitted
<1>6. [o \in Registrations |-> audit[o].undo]'
        = [[o \in Registrations |-> audit[o].undo] EXCEPT ![r] = @ + 1]
  BY <1>1, <1>3, <1>4
<1>7. [o \in Registrations |-> audit[o].valid]' = [o \in Registrations |-> audit[o].valid]
  BY <1>1, <1>3, <1>4
<1>8. QED
  BY <1>2, <1>5, <1>6, <1>7 DEF Promise!Leave

\* What the ledger does not see.
LEMMA PromiseStutters ==
  ASSUME UNCHANGED checkIn,
         \A r \in Registrations : audit'[r].valid = audit[r].valid
                                  /\ audit'[r].undo = audit[r].undo
  PROVE  UNCHANGED Promise!ledger
<1>1. {o \in Registrations : Admitted(o)}' = {o \in Registrations : Admitted(o)}
  BY DEF Admitted
<1>2. [o \in Registrations |-> audit[o].undo]' = [o \in Registrations |-> audit[o].undo]
  OBVIOUS
<1>3. [o \in Registrations |-> audit[o].valid]' = [o \in Registrations |-> audit[o].valid]
  OBVIOUS
<1>4. QED
  BY <1>1, <1>2, <1>3 DEF Promise!ledger

LEMMA StepPromise == GateInv /\ [Next]_vars => [Promise!Next]_Promise!ledger
<1> SUFFICES ASSUME GateInv, [Next]_vars PROVE [Promise!Next]_Promise!ledger
  OBVIOUS
<1> USE DEF database
<1>1. ASSUME NEW p \in Requests PROVE RegOf(p) \in Registrations
  BY DEF GateInv, TypeOK, RegOf, Locals, Tokens
<1>2. ASSUME NEW p \in Requests, CreateCheckIn(p) \/ RestoreCheckIn(p)
      PROVE  Promise!Next
  <2>1. PICK r \in Registrations : r = RegOf(p)
    BY <1>1
  <2>2. Promise!Enter(r)
    BY <1>2, <2>1, AdmitIsEnter
  <2>3. QED
    BY <2>2 DEF Promise!Next
<1>3. ASSUME NEW p \in Requests, UndoCommit(p)
      PROVE  Promise!Next
  <2>1. PICK r \in Registrations : r = RegOf(p)
    BY <1>1
  <2>2. Promise!Leave(r)
    BY <1>3, <2>1, UndoIsLeave
  <2>3. QED
    BY <2>2 DEF Promise!Next
<1>4. ASSUME NEW p \in Requests, LogDuplicate(p)
      PROVE  UNCHANGED Promise!ledger
  <2>1. \A r \in Registrations : audit'[r].valid = audit[r].valid
                                 /\ audit'[r].undo = audit[r].undo
    BY <1>4 DEF LogDuplicate, GateInv, TypeOK, AuditRows
  <2>2. QED
    BY <1>4, <2>1, PromiseStutters DEF LogDuplicate
<1>5. ASSUME NEW p \in Requests,
             \/ ScanStart(p) \/ AcquireLock(p) \/ AcquireFails(p) \/ LookupToken(p)
             \/ ReadCheckIn(p) \/ CreateCollides(p) \/ ScanQueryFails(p)
             \/ ReleaseLock(p) \/ ReleaseFails(p)
      PROVE  UNCHANGED Promise!ledger
  BY <1>5, PromiseStutters DEF ScanStart, AcquireLock, AcquireFails, LookupToken,
     ReadCheckIn, CreateCollides, ScanQueryFails, ReleaseLock, ReleaseFails
<1>6. ASSUME NEW p \in Requests,
             \/ UndoStart(p) \/ UndoAuthorise(p) \/ UndoMisses(p) \/ UndoQueryFails(p)
      PROVE  UNCHANGED Promise!ledger
  BY <1>6, PromiseStutters DEF UndoStart, UndoAuthorise, UndoMisses, UndoQueryFails
<1>7. CASE LockExpires \/ ServerCrash \/ RemoveStaff \/ DeleteEvent
  BY <1>7, PromiseStutters DEF LockExpires, ServerCrash, RemoveStaff, DeleteEvent
<1>8. CASE UNCHANGED vars
  BY <1>8, PromiseStutters DEF vars
<1>9. QED
  BY <1>2, <1>3, <1>4, <1>5, <1>6, <1>7, <1>8 DEF Next, Proceed

\* The gate keeps the ledger of Admission.
THEOREM GateImplementsAdmission == Spec => ImplementsAdmission
BY InitPromise, StepPromise, GateInvariant, PTL DEF Spec, ImplementsAdmission, Promise!Spec

----------------------------------------------------------------------------
(* The scan lock, when no key lapses under its holder                      *)

\* A scan in its critical section owns its key.
LockIsHeld == \A p \in Requests : Scanning(p) => KeyOf(p) \in lock

LockInv == TypeOK /\ LockIsHeld /\ ScanExclusion

\* Nobody newly enters the critical section.
NoNewScan ==
  \A q \in Requests : Scanning(q)' => Scanning(q) /\ KeyOf(q)' = KeyOf(q)

\* The four ways a slot changes.
LEMMA AnswerLeaves ==
  ASSUME TypeOK, NEW p \in Requests, NEW x, Answer(p, x)
  PROVE  NoNewScan /\ ~Scanning(p)'
<1>1. [Idle EXCEPT !.result = x].pc = "idle"
  BY IdleType DEF Locals
<1>2. req'[p].pc = "idle" /\ \A q \in Requests \ {p} : req'[q] = req[q]
  BY <1>1 DEF Answer, TypeOK
<1>3. ~Scanning(p)'
  BY <1>2 DEF Scanning, ScanSteps
<1>4. QED
  BY <1>2, <1>3 DEF NoNewScan, Scanning, KeyOf

LEMMA SettleStays ==
  ASSUME TypeOK, NEW p \in Requests, NEW x, Scanning(p), Settle(p, x)
  PROVE  NoNewScan
<1>1. \A q \in Requests : req'[q].event = req[q].event /\ req'[q].token = req[q].token
  <2>1. req[p] \in Locals
    BY DEF TypeOK
  <2>2. req' = [req EXCEPT ![p] = [req[p] EXCEPT !.pc = "release", !.result = x]]
    BY DEF Settle
  <2>3. /\ [req[p] EXCEPT !.pc = "release", !.result = x].event = req[p].event
        /\ [req[p] EXCEPT !.pc = "release", !.result = x].token = req[p].token
    BY <2>1 DEF Locals
  <2>4. QED
    BY <2>2, <2>3 DEF TypeOK
<1>2. \A q \in Requests \ {p} : req'[q].pc = req[q].pc
  BY DEF Settle, TypeOK
<1>3. QED
  BY <1>1, <1>2 DEF NoNewScan, Scanning, KeyOf

LEMMA GotoStays ==
  ASSUME TypeOK, NEW p \in Requests, NEW to, Goto(p, to), Scanning(p) \/ to \in UndoSteps
  PROVE  NoNewScan
<1>1. \A q \in Requests : /\ req'[q].event = req[q].event /\ req'[q].token = req[q].token
                          /\ req'[q].pc = IF q = p THEN to ELSE req[q].pc
  BY DEF Goto, TypeOK, Locals
<1>2. QED
  BY <1>1 DEF NoNewScan, Scanning, KeyOf, ScanSteps, UndoSteps

LEMMA BeginStays ==
  ASSUME TypeOK, NEW p \in Requests, NEW to \in {"acquire", "authorise"},
         NEW e, NEW s, NEW t, NEW own, Begin(p, to, e, s, t, own)
  PROVE  NoNewScan
<1>1. req'[p].pc = to /\ \A q \in Requests \ {p} : req'[q] = req[q]
  BY DEF Begin, TypeOK
<1>2. QED
  BY <1>1 DEF NoNewScan, Scanning, KeyOf, ScanSteps

\* Steps that bring nobody in and take no key away.
LEMMA QuietLock ==
  ASSUME LockInv, TypeOK', NoNewScan, lock \subseteq lock'
  PROVE  LockInv'
BY DEF LockInv, LockIsHeld, ScanExclusion, NoNewScan

LEMMA StepLock == ~LockMayLapse /\ LockInv /\ [Next]_vars => LockInv'
<1> SUFFICES ASSUME ~LockMayLapse, LockInv, [Next]_vars PROVE LockInv'
  OBVIOUS
<1> USE DEF database
<1>1. TypeOK /\ TypeOK'
  BY StepType DEF LockInv
<1>2. ASSUME NEW p \in Requests, ScanStart(p) PROVE LockInv'
  <2>1. PICK e \in Events, s \in Staff, t \in Tokens :
          \/ Begin(p, "acquire", e, s, t, FALSE)
          \/ Answer(p, "NOT_AUTHORIZED")
    BY <1>2 DEF ScanStart
  <2>2. NoNewScan
    BY <1>1, <2>1, BeginStays, AnswerLeaves
  <2>3. QED
    BY <1>1, <1>2, <2>2, QuietLock DEF ScanStart
<1>3. ASSUME NEW p \in Requests, UndoStart(p) PROVE LockInv'
  <2>1. PICK s \in Staff, r \in Registrations :
          \/ Begin(p, "authorise", EventOf[r], s, [kind |-> "manual", reg |-> r],
                   checkIn[r].staff = s)
          \/ Answer(p, "NOT_FOUND")
    BY <1>3 DEF UndoStart
  <2>2. NoNewScan
    <3>1. CASE Begin(p, "authorise", EventOf[r], s, [kind |-> "manual", reg |-> r],
                     checkIn[r].staff = s)
      BY <1>1, <3>1, BeginStays
    <3>2. CASE Answer(p, "NOT_FOUND")
      BY <1>1, <3>2, AnswerLeaves
    <3>3. QED
      BY <2>1, <3>1, <3>2
  <2>3. QED
    BY <1>1, <1>3, <2>2, QuietLock DEF UndoStart
<1>4. ASSUME NEW p \in Requests, AcquireLock(p) PROVE LockInv'
  <2>1. CASE KeyOf(p) \in lock
    <3>1. NoNewScan
      BY <1>1, <1>4, <2>1, AnswerLeaves DEF AcquireLock
    <3>2. QED
      BY <1>1, <1>4, <2>1, <3>1, QuietLock DEF AcquireLock
  <2>2. CASE KeyOf(p) \notin lock
    <3>1. lock' = lock \cup {KeyOf(p)} /\ Goto(p, "lookup")
      BY <1>4, <2>2 DEF AcquireLock
    <3>2. \A q \in Requests : /\ KeyOf(q)' = KeyOf(q)
                              /\ Scanning(q)' => q = p \/ Scanning(q)
      BY <1>1, <3>1 DEF Goto, TypeOK, Locals, KeyOf, Scanning
    <3>3. QED
      BY <1>1, <2>2, <3>1, <3>2 DEF LockInv, LockIsHeld, ScanExclusion
  <2>3. QED
    BY <2>1, <2>2
<1>5. ASSUME NEW p \in Requests, AcquireFails(p) PROVE LockInv'
  <2>1. NoNewScan
    BY <1>1, <1>5, AnswerLeaves DEF AcquireFails
  <2>2. QED
    BY <1>1, <1>5, <2>1, QuietLock DEF AcquireFails
<1>6. ASSUME NEW p \in Requests, LookupToken(p) \/ ReadCheckIn(p) PROVE LockInv'
  <2>1. Scanning(p) /\ UNCHANGED lock
    BY <1>6 DEF LookupToken, ReadCheckIn, Scanning, ScanSteps
  <2>2. (\E to : Goto(p, to)) \/ (\E x : Settle(p, x))
    BY <1>6 DEF LookupToken, ReadCheckIn
  <2>3. NoNewScan
    BY <1>1, <2>1, <2>2, GotoStays, SettleStays
  <2>4. QED
    BY <1>1, <2>1, <2>3, QuietLock
<1>7. ASSUME NEW p \in Requests,
             \/ LogDuplicate(p) \/ CreateCheckIn(p) \/ RestoreCheckIn(p)
             \/ CreateCollides(p) \/ ScanQueryFails(p)
      PROVE  LockInv'
  <2>1. Scanning(p) /\ UNCHANGED lock
    BY <1>7 DEF LogDuplicate, CreateCheckIn, RestoreCheckIn, CreateCollides,
       ScanQueryFails, Admit, Scanning, ScanSteps
  <2>2. \E x : Settle(p, x)
    BY <1>7 DEF LogDuplicate, CreateCheckIn, RestoreCheckIn, CreateCollides,
       ScanQueryFails, Admit
  <2>3. NoNewScan
    BY <1>1, <2>1, <2>2, SettleStays
  <2>4. QED
    BY <1>1, <2>1, <2>3, QuietLock
<1>8. ASSUME NEW p \in Requests, ReleaseLock(p) PROVE LockInv'
  <2>1. Scanning(p) /\ lock' = lock \ {KeyOf(p)}
    BY <1>8 DEF ReleaseLock, Scanning, ScanSteps
  <2>2. NoNewScan /\ ~Scanning(p)'
    BY <1>1, <1>8, AnswerLeaves DEF ReleaseLock
  <2>3. \A q \in Requests : Scanning(q) /\ q # p => KeyOf(q) \in lock /\ KeyOf(q) # KeyOf(p)
    BY <2>1 DEF LockInv, LockIsHeld, ScanExclusion
  <2>4. QED
    BY <1>1, <2>1, <2>2, <2>3 DEF LockInv, LockIsHeld, ScanExclusion, NoNewScan
<1>9. ASSUME NEW p \in Requests, ReleaseFails(p) PROVE LockInv'
  <2>1. NoNewScan
    BY <1>1, <1>9, AnswerLeaves DEF ReleaseFails
  <2>2. QED
    BY <1>1, <1>9, <2>1, QuietLock DEF ReleaseFails
<1>10. ASSUME NEW p \in Requests, UndoAuthorise(p) PROVE LockInv'
  <2>1. (\E x : Answer(p, x)) \/ Goto(p, "undo")
    BY <1>10 DEF UndoAuthorise
  <2>2. NoNewScan
    BY <1>1, <2>1, AnswerLeaves, GotoStays DEF UndoSteps
  <2>3. QED
    BY <1>1, <1>10, <2>2, QuietLock DEF UndoAuthorise
<1>11. ASSUME NEW p \in Requests, UndoCommit(p) \/ UndoMisses(p) \/ UndoQueryFails(p)
       PROVE  LockInv'
  <2>1. (\E x : Answer(p, x)) /\ UNCHANGED lock
    BY <1>11 DEF UndoCommit, UndoMisses, UndoQueryFails
  <2>2. NoNewScan
    BY <1>1, <2>1, AnswerLeaves
  <2>3. QED
    BY <1>1, <2>1, <2>2, QuietLock
<1>12. CASE LockExpires
  <2>1. PICK k \in lock : /\ \A p \in Requests : Scanning(p) => KeyOf(p) # k
                          /\ lock' = lock \ {k} /\ UNCHANGED req
    BY <1>12 DEF LockExpires
  <2>2. QED
    BY <1>1, <2>1 DEF LockInv, LockIsHeld, ScanExclusion, Scanning, KeyOf
<1>13. CASE ServerCrash
  <2>1. [Idle EXCEPT !.result = "LOST"].pc = "idle"
    BY IdleType DEF Locals
  <2>2. \A q \in Requests : req'[q].pc = "idle"
    BY <1>13, <2>1 DEF ServerCrash, InFlight
  <2>3. NoNewScan
    BY <2>2 DEF NoNewScan, Scanning, ScanSteps
  <2>4. QED
    BY <1>1, <1>13, <2>3, QuietLock DEF ServerCrash
<1>14. CASE RemoveStaff \/ DeleteEvent \/ UNCHANGED vars
  <2>1. UNCHANGED <<req, lock>>
    BY <1>14 DEF RemoveStaff, DeleteEvent, vars
  <2>2. NoNewScan
    BY <2>1 DEF NoNewScan, Scanning, KeyOf
  <2>3. QED
    BY <1>1, <2>1, <2>2, QuietLock
<1>15. QED
  BY <1>2, <1>3, <1>4, <1>5, <1>6, <1>7, <1>8, <1>9, <1>10, <1>11, <1>12, <1>13, <1>14
     DEF Next, Proceed

LEMMA InitLock == Init => LockInv
<1> SUFFICES ASSUME Init PROVE LockInv
  OBVIOUS
<1>1. \A p \in Requests : ~Scanning(p)
  BY IdleType DEF Init, Scanning, ScanSteps
<1>2. QED
  BY <1>1, InitType DEF LockInv, LockIsHeld, ScanExclusion

\* If no key lapses under its holder, two scans of one presented token never
\* run their critical sections together.
THEOREM Exclusion == ~LockMayLapse => (Spec => []ScanExclusion)
<1> SUFFICES ASSUME ~LockMayLapse PROVE Spec => []ScanExclusion
  OBVIOUS
<1>1. LockInv /\ [Next]_vars => LockInv'
  BY StepLock
<1>2. LockInv => ScanExclusion
  BY DEF LockInv
<1>3. QED
  BY InitLock, <1>1, <1>2, PTL DEF Spec

----------------------------------------------------------------------------
(* scanCount, when no key lapses under its holder                          *)

\* Scans past the revocation check whose transaction is still to come.
Deciding(p) == req[p].pc \in {"resolve", "create", "restore"}

\* The revocation check of a QR scan is still good when its transaction runs:
\* only a scan of the same token could revoke it, and the lock keeps that out.
CheckStillGood ==
  \A p \in Requests : Deciding(p) /\ req[p].token.kind = "qr" =>
    ~qrToken[RegOf(p)].revoked /\ EventOf[RegOf(p)] = req[p].event

CountInv == LockInv /\ ScanCountExact /\ CheckStillGood

NoNewDecider ==
  \A q \in Requests :
    Deciding(q)' => Deciding(q) /\ req'[q].token = req[q].token /\ req'[q].event = req[q].event

LEMMA SlotDecides ==
  ASSUME TypeOK, NEW p \in Requests,
         \/ \E x : Answer(p, x) \/ Settle(p, x)
         \/ \E to \in {"acquire", "authorise"} : \E e, s, t, own : Begin(p, to, e, s, t, own)
         \/ \E to \in {"lookup", "duplicate", "undo"} : Goto(p, to)
  PROVE  /\ \A q \in Requests \ {p} : req'[q] = req[q]
         /\ ~Deciding(p)'
<1>1. CASE \E x : Answer(p, x)
  <2>1. PICK x : Answer(p, x)
    BY <1>1
  <2>2. [Idle EXCEPT !.result = x].pc = "idle"
    BY IdleType DEF Locals
  <2>3. QED
    BY <2>1, <2>2 DEF Answer, TypeOK, Deciding
<1>2. CASE \E x : Settle(p, x)
  <2>1. PICK x : Settle(p, x)
    BY <1>2
  <2>2. req' = [req EXCEPT ![p] = [req[p] EXCEPT !.pc = "release", !.result = x]]
    BY <2>1 DEF Settle
  <2>3. [req[p] EXCEPT !.pc = "release", !.result = x].pc = "release"
    BY DEF TypeOK, Locals
  <2>4. QED
    BY <2>2, <2>3 DEF TypeOK, Deciding
<1>3. CASE \E to \in {"acquire", "authorise"} : \E e, s, t, own : Begin(p, to, e, s, t, own)
  BY <1>3 DEF Begin, TypeOK, Deciding
<1>4. CASE \E to \in {"lookup", "duplicate", "undo"} : Goto(p, to)
  BY <1>4 DEF Goto, TypeOK, Locals, Deciding
<1>5. QED
  BY <1>1, <1>2, <1>3, <1>4

LEMMA QuietCount ==
  ASSUME CountInv, LockInv', UNCHANGED qrToken, NoNewDecider
  PROVE  CountInv'
BY DEF CountInv, ScanCountExact, CheckStillGood, NoNewDecider, RegOf

LEMMA OtherKeys ==
  ASSUME CountInv, NEW p \in Requests, NEW q \in Requests, p # q,
         Deciding(p), Deciding(q), req[p].token.kind = "qr", req[q].token.kind = "qr"
  PROVE  RegOf(p) # RegOf(q)
<1> SUFFICES ASSUME RegOf(p) = RegOf(q) PROVE FALSE
  OBVIOUS
<1>1. req[p].token \in Tokens /\ req[q].token \in Tokens
  BY DEF CountInv, LockInv, TypeOK, Locals
<1>2. req[p].token = req[q].token
  BY <1>1 DEF Tokens, RegOf
<1>3. req[p].event = req[q].event
  BY DEF CountInv, CheckStillGood
<1>4. Scanning(p) /\ Scanning(q)
  BY DEF Deciding, Scanning, ScanSteps
<1>5. QED
  BY <1>2, <1>3, <1>4 DEF CountInv, LockInv, ScanExclusion, KeyOf

LEMMA AdmitCount ==
  ASSUME CountInv, LockInv', NEW p \in Requests, CreateCheckIn(p) \/ RestoreCheckIn(p)
  PROVE  CountInv'
<1> DEFINE r == RegOf(p)
<1>1. Admit(p) /\ Deciding(p)
  BY DEF CreateCheckIn, RestoreCheckIn, Deciding
<1>2. TypeOK /\ r \in Registrations
  BY DEF CountInv, LockInv, TypeOK, RegOf, Locals, Tokens
<1>3. (\A q \in Requests \ {p} : req'[q] = req[q]) /\ ~Deciding(p)'
  BY <1>1, <1>2, SlotDecides DEF Admit
<1>4. CASE req[p].token.kind = "qr"
  <2>1. ~qrToken[r].revoked /\ qrToken[r].scanCount = 0
    BY <1>1, <1>2, <1>4 DEF CountInv, CheckStillGood, ScanCountExact
  <2>2. qrToken'[r].revoked /\ qrToken'[r].scanCount = qrToken[r].scanCount + 1
    BY <1>1, <1>2, <1>4 DEF Admit, TypeOK, QrTokenRow
  <2>3. \A o \in Registrations \ {r} : qrToken'[o] = qrToken[o]
    BY <1>1, <1>2, <1>4 DEF Admit, TypeOK
  <2>4. ScanCountExact'
    BY <2>1, <2>2, <2>3 DEF CountInv, ScanCountExact
  <2>5. ASSUME NEW q \in Requests, Deciding(q)', req'[q].token.kind = "qr"
        PROVE  ~qrToken'[RegOf(q)'].revoked /\ EventOf[RegOf(q)'] = req'[q].event
    <3>1. q # p /\ req'[q] = req[q]
      BY <1>3, <2>5
    <3>2. Deciding(q) /\ req[q].token.kind = "qr" /\ RegOf(q)' = RegOf(q)
      BY <2>5, <3>1 DEF Deciding, RegOf
    <3>3. RegOf(q) # r /\ RegOf(q) \in Registrations
      BY <1>1, <1>2, <1>4, <3>1, <3>2, OtherKeys DEF TypeOK, Locals, Tokens, RegOf
    <3>4. QED
      BY <2>3, <3>1, <3>2, <3>3 DEF CountInv, CheckStillGood
  <2>6. QED
    BY <2>4, <2>5 DEF CountInv, CheckStillGood
<1>5. CASE req[p].token.kind # "qr"
  <2>1. UNCHANGED qrToken
    BY <1>1, <1>5 DEF Admit
  <2>2. NoNewDecider
    BY <1>3 DEF NoNewDecider, Deciding
  <2>3. QED
    BY <2>1, <2>2, QuietCount
<1>6. QED
  BY <1>4, <1>5

LEMMA UndoCount ==
  ASSUME CountInv, LockInv', NEW p \in Requests, UndoCommit(p)
  PROVE  CountInv'
<1> DEFINE r == RegOf(p)
<1>1. TypeOK /\ r \in Registrations
  BY DEF CountInv, LockInv, TypeOK, RegOf, Locals, Tokens
<1>2. (\A q \in Requests \ {p} : req'[q] = req[q]) /\ ~Deciding(p)'
  BY <1>1, SlotDecides DEF UndoCommit
<1>3. qrToken'[r] = Reenable(qrToken[r]) /\ \A o \in Registrations \ {r} : qrToken'[o] = qrToken[o]
  BY <1>1 DEF UndoCommit, TypeOK
<1>4. ~qrToken'[r].revoked /\ qrToken'[r].scanCount = 0
  <2>1. qrToken[r] \in QrTokenRow /\ qrToken[r].scanCount = IF qrToken[r].revoked THEN 1 ELSE 0
    BY <1>1 DEF CountInv, ScanCountExact, TypeOK
  <2>2. CASE qrToken[r].revoked
    BY <1>3, <2>1, <2>2 DEF Reenable, QrTokenRow
  <2>3. CASE ~qrToken[r].revoked
    BY <1>3, <2>1, <2>3 DEF Reenable
  <2>4. QED
    BY <2>2, <2>3
<1>5. ScanCountExact'
  BY <1>3, <1>4 DEF CountInv, ScanCountExact
<1>6. \A o \in Registrations : qrToken'[o].revoked => qrToken[o].revoked
  BY <1>3, <1>4
<1>7. CheckStillGood'
  <2>1. ASSUME NEW q \in Requests, Deciding(q)', req'[q].token.kind = "qr"
        PROVE  ~qrToken'[RegOf(q)'].revoked /\ EventOf[RegOf(q)'] = req'[q].event
    <3>1. q # p /\ req'[q] = req[q]
      BY <1>2, <2>1
    <3>2. Deciding(q) /\ req[q].token.kind = "qr" /\ RegOf(q)' = RegOf(q)
      BY <2>1, <3>1 DEF Deciding, RegOf
    <3>3. RegOf(q) \in Registrations
      BY <1>1 DEF TypeOK, Locals, Tokens, RegOf
    <3>4. QED
      BY <1>6, <3>1, <3>2, <3>3 DEF CountInv, CheckStillGood
  <2>2. QED
    BY <2>1 DEF CheckStillGood
<1>8. QED
  BY <1>5, <1>7 DEF CountInv

LEMMA StepCount == ~LockMayLapse /\ CountInv /\ [Next]_vars => CountInv'
<1> SUFFICES ASSUME ~LockMayLapse, CountInv, [Next]_vars PROVE CountInv'
  OBVIOUS
<1> USE DEF database
<1>1. TypeOK /\ LockInv'
  BY StepLock DEF CountInv, LockInv
<1>2. ASSUME NEW p \in Requests,
             \A q \in Requests \ {p} : req'[q] = req[q], ~Deciding(p)', UNCHANGED qrToken
      PROVE  CountInv'
  <2>1. NoNewDecider
    BY <1>2 DEF NoNewDecider, Deciding
  <2>2. QED
    BY <1>1, <1>2, <2>1, QuietCount
<1>3. ASSUME NEW p \in Requests, ScanStart(p) PROVE CountInv'
  <2>1. /\ \/ \E x : Answer(p, x)
           \/ \E to \in {"acquire", "authorise"} : \E e, s, t, own : Begin(p, to, e, s, t, own)
        /\ UNCHANGED qrToken
    BY <1>3 DEF ScanStart
  <2>2. QED
    BY <1>1, <1>2, <2>1, SlotDecides
<1>4. ASSUME NEW p \in Requests, UndoStart(p) PROVE CountInv'
  <2>1. /\ \/ \E x : Answer(p, x)
           \/ \E to \in {"acquire", "authorise"} : \E e, s, t, own : Begin(p, to, e, s, t, own)
        /\ UNCHANGED qrToken
    BY <1>4 DEF UndoStart
  <2>2. QED
    BY <1>1, <1>2, <2>1, SlotDecides
<1>5. ASSUME NEW p \in Requests,
             \/ AcquireLock(p) \/ AcquireFails(p) \/ ReleaseLock(p) \/ ReleaseFails(p)
             \/ UndoAuthorise(p) \/ UndoMisses(p) \/ UndoQueryFails(p)
      PROVE  CountInv'
  <2>1. /\ \/ \E x : Answer(p, x)
           \/ \E to \in {"lookup", "duplicate", "undo"} : Goto(p, to)
        /\ UNCHANGED qrToken
    BY <1>5 DEF AcquireLock, AcquireFails, ReleaseLock, ReleaseFails, UndoAuthorise,
       UndoMisses, UndoQueryFails
  <2>2. QED
    BY <1>1, <1>2, <2>1, SlotDecides
<1>6. ASSUME NEW p \in Requests, LogDuplicate(p) \/ CreateCollides(p) \/ ScanQueryFails(p)
      PROVE  CountInv'
  <2>1. (\E x : Settle(p, x)) /\ UNCHANGED qrToken
    BY <1>6 DEF LogDuplicate, CreateCollides, ScanQueryFails
  <2>2. QED
    BY <1>1, <1>2, <2>1, SlotDecides
<1>7. ASSUME NEW p \in Requests, LookupToken(p) PROVE CountInv'
  <2>1. CASE \E x : Settle(p, x)
    BY <1>1, <1>2, <1>7, <2>1, SlotDecides DEF LookupToken
  <2>2. CASE \E late \in BOOLEAN : Verdict(p, late) = "go on" /\ Goto(p, "resolve")
    <3>1. PICK late \in BOOLEAN : Verdict(p, late) = "go on" /\ Goto(p, "resolve")
      BY <2>2
    <3>2. req[p].token.kind = "qr" => ~qrToken[RegOf(p)].revoked /\ EventOf[RegOf(p)] = req[p].event
      BY <3>1 DEF Verdict
    <3>3. \A q \in Requests : /\ req'[q].token = req[q].token /\ req'[q].event = req[q].event
                              /\ q # p => req'[q].pc = req[q].pc
      BY <1>1, <3>1 DEF Goto, TypeOK, Locals
    <3>4. UNCHANGED qrToken
      BY <1>7 DEF LookupToken
    <3>5. CheckStillGood'
      BY <3>2, <3>3, <3>4 DEF CountInv, CheckStillGood, Deciding, RegOf
    <3>6. QED
      BY <1>1, <3>4, <3>5 DEF CountInv, ScanCountExact
  <2>3. QED
    BY <1>7, <2>1, <2>2 DEF LookupToken
<1>8. ASSUME NEW p \in Requests, ReadCheckIn(p) PROVE CountInv'
  <2>1. /\ Deciding(p) /\ UNCHANGED qrToken
        /\ Goto(p, ResolveBranch(checkIn[RegOf(p)].row))
    BY <1>8 DEF ReadCheckIn, Deciding
  <2>2. \A q \in Requests : /\ req'[q].token = req[q].token /\ req'[q].event = req[q].event
                            /\ q # p => req'[q].pc = req[q].pc
    BY <1>1, <2>1 DEF Goto, TypeOK, Locals
  <2>3. NoNewDecider
    BY <2>1, <2>2 DEF NoNewDecider, Deciding
  <2>4. QED
    BY <1>1, <2>1, <2>3, QuietCount
<1>9. ASSUME NEW p \in Requests, CreateCheckIn(p) \/ RestoreCheckIn(p) PROVE CountInv'
  BY <1>1, <1>9, AdmitCount
<1>10. ASSUME NEW p \in Requests, UndoCommit(p) PROVE CountInv'
  BY <1>1, <1>10, UndoCount
<1>11. CASE ServerCrash
  <2>1. [Idle EXCEPT !.result = "LOST"].pc = "idle"
    BY IdleType DEF Locals
  <2>2. \A q \in Requests : req'[q].pc = "idle"
    BY <1>11, <2>1 DEF ServerCrash, InFlight
  <2>3. NoNewDecider
    BY <2>2 DEF NoNewDecider, Deciding
  <2>4. QED
    BY <1>1, <1>11, <2>3, QuietCount DEF ServerCrash
<1>12. CASE LockExpires \/ RemoveStaff \/ DeleteEvent \/ UNCHANGED vars
  <2>1. UNCHANGED <<req, qrToken>>
    BY <1>12 DEF LockExpires, RemoveStaff, DeleteEvent, vars
  <2>2. QED
    BY <1>1, <2>1, QuietCount DEF NoNewDecider, Deciding
<1>13. QED
  BY <1>3, <1>4, <1>5, <1>6, <1>7, <1>8, <1>9, <1>10, <1>11, <1>12 DEF Next, Proceed

\* If no key lapses under its holder, scanCount is 1 exactly for the tokens the
\* current check-ins revoked.
THEOREM ExactScanCount == ~LockMayLapse => (Spec => []ScanCountExact)
<1> SUFFICES ASSUME ~LockMayLapse PROVE Spec => []ScanCountExact
  OBVIOUS
<1>1. Init => CountInv
  <2> SUFFICES ASSUME Init PROVE CountInv
    OBVIOUS
  <2>1. \A p \in Requests : ~Deciding(p)
    BY IdleType DEF Init, Deciding
  <2>2. ScanCountExact
    BY DEF Init, ScanCountExact
  <2>3. QED
    BY <2>1, <2>2, InitLock DEF CountInv, CheckStillGood
<1>2. CountInv /\ [Next]_vars => CountInv'
  BY StepCount
<1>3. CountInv => ScanCountExact
  BY DEF CountInv
<1>4. QED
  BY <1>1, <1>2, <1>3, PTL DEF Spec

----------------------------------------------------------------------------
(* Which token admitted whom, when no key lapses under its holder          *)

\* A scan about to restore an admission found nobody in: whoever is in by now
\* came in on the other token, for the lock keeps a second scan of its own out.
InOnTheOther ==
  \A p \in Requests :
    /\ Deciding(p) => EventOf[RegOf(p)] = req[p].event
    /\ req[p].pc = "restore" /\ Admitted(RegOf(p)) => audit[RegOf(p)].via # req[p].token.kind

ViaInv == LockInv /\ InOnTheOther

\* Steps after which nobody else is in, and nobody newly decides.
LEMMA QuietVia ==
  ASSUME ViaInv, LockInv', NEW p \in Requests, \A q \in Requests \ {p} : req'[q] = req[q], ~Deciding(p)',
         \A r \in Registrations : Admitted(r)' => Admitted(r) /\ audit'[r].via = audit[r].via
  PROVE  ViaInv'
<1>1. ASSUME NEW q \in Requests, Deciding(q)' PROVE q # p /\ req'[q] = req[q] /\ RegOf(q) \in Registrations
  BY <1>1 DEF Deciding, ViaInv, LockInv, TypeOK, Locals, Tokens, RegOf
<1>2. QED
  BY <1>1 DEF ViaInv, InOnTheOther, Deciding, RegOf, Admitted

LEMMA AdmitVia ==
  ASSUME ViaInv, LockInv', NEW p \in Requests, CreateCheckIn(p) \/ RestoreCheckIn(p)
  PROVE  ViaInv'
<1> DEFINE r == RegOf(p)
<1>1. Admit(p) /\ Deciding(p)
  BY DEF CreateCheckIn, RestoreCheckIn, Deciding
<1>2. TypeOK /\ r \in Registrations
  BY DEF ViaInv, LockInv, TypeOK, RegOf, Locals, Tokens
<1>3. (\A q \in Requests \ {p} : req'[q] = req[q]) /\ ~Deciding(p)'
  BY <1>1, <1>2, SlotDecides DEF Admit
<1>4. /\ audit'[r].via = req[p].token.kind
      /\ \A o \in Registrations \ {r} : audit'[o] = audit[o] /\ checkIn'[o] = checkIn[o]
  <2>1. audit' = [audit EXCEPT ![r] = [audit[r] EXCEPT !.valid = @ + 1, !.via = req[p].token.kind]]
    BY <1>1 DEF Admit
  <2>2. [audit[r] EXCEPT !.valid = @ + 1, !.via = req[p].token.kind].via = req[p].token.kind
    BY <1>2 DEF TypeOK, AuditRows
  <2>3. \A o \in Registrations \ {r} : checkIn'[o] = checkIn[o]
    BY <1>1, <1>2 DEF Admit, TypeOK
  <2>4. QED
    BY <1>2, <2>1, <2>2, <2>3 DEF TypeOK
<1>5. ASSUME NEW q \in Requests, Deciding(q)'
      PROVE  /\ EventOf[RegOf(q)'] = req'[q].event
             /\ req'[q].pc = "restore" /\ Admitted(RegOf(q))' => audit'[RegOf(q)'].via # req'[q].token.kind
  <2>1. q # p /\ req'[q] = req[q] /\ Deciding(q) /\ RegOf(q)' = RegOf(q) /\ RegOf(q) \in Registrations
    BY <1>2, <1>3, <1>5 DEF Deciding, RegOf, TypeOK, Locals, Tokens
  <2>2. EventOf[RegOf(q)] = req[q].event /\ EventOf[r] = req[p].event
    BY <1>1, <2>1 DEF ViaInv, InOnTheOther
  <2>3. CASE RegOf(q) = r
    <3>1. req[q].token.kind # req[p].token.kind
      <4> SUFFICES ASSUME req[q].token.kind = req[p].token.kind PROVE FALSE
        OBVIOUS
      <4>1. req[p].token \in Tokens /\ req[q].token \in Tokens
        BY <1>2 DEF TypeOK, Locals
      <4>2. KeyOf(p) = KeyOf(q)
        BY <2>2, <2>3, <4>1 DEF KeyOf, Tokens, RegOf
      <4>3. Scanning(p) /\ Scanning(q)
        BY <1>1, <2>1 DEF Deciding, Scanning, ScanSteps
      <4>4. QED
        BY <2>1, <4>2, <4>3 DEF ViaInv, LockInv, ScanExclusion
    <3>2. QED
      BY <1>4, <2>1, <2>2, <2>3, <3>1
  <2>4. CASE RegOf(q) # r
    BY <1>4, <2>1, <2>2, <2>4 DEF ViaInv, InOnTheOther, Admitted
  <2>5. QED
    BY <2>3, <2>4
<1>6. QED
  BY <1>5 DEF ViaInv, InOnTheOther, Deciding

LEMMA StepVia == ~LockMayLapse /\ ViaInv /\ [Next]_vars => ViaInv'
<1> SUFFICES ASSUME ~LockMayLapse, ViaInv, [Next]_vars PROVE ViaInv'
  OBVIOUS
<1> USE DEF database
<1>1. TypeOK /\ LockInv'
  BY StepLock DEF ViaInv, LockInv
<1>2. ASSUME NEW p \in Requests,
             \A q \in Requests \ {p} : req'[q] = req[q], ~Deciding(p)', UNCHANGED <<checkIn, audit>>
      PROVE  ViaInv'
  BY <1>1, <1>2, QuietVia DEF Admitted
<1>3. ASSUME NEW p \in Requests, ScanStart(p) \/ UndoStart(p) PROVE ViaInv'
  <2>1. /\ \/ \E x : Answer(p, x)
           \/ \E to \in {"acquire", "authorise"} : \E e, s, t, own : Begin(p, to, e, s, t, own)
        /\ UNCHANGED <<checkIn, audit>>
    <3>1. CASE ScanStart(p)
      BY <3>1 DEF ScanStart
    <3>2. CASE UndoStart(p)
      BY <3>2 DEF UndoStart
    <3>3. QED
      BY <1>3, <3>1, <3>2
  <2>2. QED
    BY <1>1, <1>2, <2>1, SlotDecides
<1>4. ASSUME NEW p \in Requests,
             \/ AcquireLock(p) \/ AcquireFails(p) \/ ReleaseLock(p) \/ ReleaseFails(p)
             \/ UndoAuthorise(p) \/ UndoMisses(p) \/ UndoQueryFails(p)
      PROVE  ViaInv'
  <2>1. /\ \/ \E x : Answer(p, x)
           \/ \E to \in {"lookup", "duplicate", "undo"} : Goto(p, to)
        /\ UNCHANGED <<checkIn, audit>>
    BY <1>4 DEF AcquireLock, AcquireFails, ReleaseLock, ReleaseFails, UndoAuthorise,
       UndoMisses, UndoQueryFails
  <2>2. QED
    BY <1>1, <1>2, <2>1, SlotDecides
<1>5. ASSUME NEW p \in Requests, CreateCollides(p) \/ ScanQueryFails(p) PROVE ViaInv'
  <2>1. (\E x : Settle(p, x)) /\ UNCHANGED <<checkIn, audit>>
    BY <1>5 DEF CreateCollides, ScanQueryFails
  <2>2. QED
    BY <1>1, <1>2, <2>1, SlotDecides
<1>6. ASSUME NEW p \in Requests, LogDuplicate(p) PROVE ViaInv'
  <2>1. (\A q \in Requests \ {p} : req'[q] = req[q]) /\ ~Deciding(p)' /\ UNCHANGED checkIn
    BY <1>1, <1>6, SlotDecides DEF LogDuplicate
  <2>2. \A r \in Registrations : audit'[r].via = audit[r].via
    BY <1>1, <1>6 DEF LogDuplicate, TypeOK, AuditRows
  <2>3. QED
    BY <1>1, <2>1, <2>2, QuietVia DEF Admitted
<1>7. ASSUME NEW p \in Requests, LookupToken(p) PROVE ViaInv'
  <2>1. CASE \E x : Settle(p, x)
    BY <1>1, <1>2, <1>7, <2>1, SlotDecides DEF LookupToken
  <2>2. CASE \E late \in BOOLEAN : Verdict(p, late) = "go on" /\ Goto(p, "resolve")
    <3>1. PICK late \in BOOLEAN : Verdict(p, late) = "go on" /\ Goto(p, "resolve")
      BY <2>2
    <3>2. EventOf[RegOf(p)] = req[p].event
      BY <1>1, <3>1 DEF Verdict
    <3>3. \A q \in Requests : /\ req'[q].token = req[q].token /\ req'[q].event = req[q].event
                              /\ req'[q].pc = IF q = p THEN "resolve" ELSE req[q].pc
      BY <1>1, <3>1 DEF Goto, TypeOK, Locals
    <3>4. InOnTheOther'
      BY <1>7, <3>2, <3>3 DEF LookupToken, ViaInv, InOnTheOther, Deciding, RegOf, Admitted
    <3>5. QED
      BY <1>1, <3>4 DEF ViaInv
  <2>3. QED
    BY <1>7, <2>1, <2>2 DEF LookupToken
<1>8. ASSUME NEW p \in Requests, ReadCheckIn(p) PROVE ViaInv'
  <2>1. /\ Deciding(p) /\ UNCHANGED <<checkIn, audit>>
        /\ Goto(p, ResolveBranch(checkIn[RegOf(p)].row))
    BY <1>8 DEF ReadCheckIn, Deciding
  <2>2. \A q \in Requests : /\ req'[q].token = req[q].token /\ req'[q].event = req[q].event
                            /\ q # p => req'[q].pc = req[q].pc
                            /\ q = p => req'[q].pc = ResolveBranch(checkIn[RegOf(p)].row)
    BY <1>1, <2>1 DEF Goto, TypeOK, Locals
  <2>3. req'[p].pc = "restore" => ~Admitted(RegOf(p))
    BY <2>2 DEF ResolveBranch, Admitted
  <2>4. InOnTheOther'
    BY <2>1, <2>2, <2>3 DEF ViaInv, InOnTheOther, Deciding, RegOf, Admitted
  <2>5. QED
    BY <1>1, <2>4 DEF ViaInv
<1>9. ASSUME NEW p \in Requests, CreateCheckIn(p) \/ RestoreCheckIn(p) PROVE ViaInv'
  BY <1>1, <1>9, AdmitVia
<1>10. ASSUME NEW p \in Requests, UndoCommit(p) PROVE ViaInv'
  <2>1. PICK r \in Registrations : r = RegOf(p)
    BY <1>1 DEF TypeOK, RegOf, Locals, Tokens
  <2>2. (\A q \in Requests \ {p} : req'[q] = req[q]) /\ ~Deciding(p)'
    BY <1>1, <1>10, SlotDecides DEF UndoCommit
  <2>3. ~Admitted(r)'
    <3>1. checkIn'[r] = [checkIn[r] EXCEPT !.row = "undone"]
      BY <1>1, <1>10, <2>1 DEF UndoCommit, TypeOK
    <3>2. [checkIn[r] EXCEPT !.row = "undone"].row = "undone"
      BY <1>1 DEF TypeOK, CheckInRow
    <3>3. QED
      BY <3>1, <3>2 DEF Admitted
  <2>4. \A o \in Registrations \ {r} : checkIn'[o] = checkIn[o] /\ audit'[o] = audit[o]
    BY <1>1, <1>10, <2>1 DEF UndoCommit, TypeOK
  <2>5. \A o \in Registrations : Admitted(o)' => Admitted(o) /\ audit'[o].via = audit[o].via
    BY <2>3, <2>4 DEF Admitted
  <2>6. QED
    BY <1>1, <2>2, <2>5, QuietVia
<1>11. CASE ServerCrash
  <2>1. [Idle EXCEPT !.result = "LOST"].pc = "idle"
    BY IdleType DEF Locals
  <2>2. \A q \in Requests : req'[q].pc = "idle"
    BY <1>11, <2>1 DEF ServerCrash, InFlight
  <2>3. QED
    BY <1>1, <2>2 DEF ViaInv, InOnTheOther, Deciding
<1>12. CASE LockExpires \/ RemoveStaff \/ DeleteEvent \/ UNCHANGED vars
  <2>1. UNCHANGED <<req, checkIn, audit>>
    BY <1>12 DEF LockExpires, RemoveStaff, DeleteEvent, vars
  <2>2. QED
    BY <1>1, <2>1 DEF ViaInv, InOnTheOther, Deciding, RegOf, Admitted
<1>13. QED
  BY <1>3, <1>4, <1>5, <1>6, <1>7, <1>8, <1>9, <1>10, <1>11, <1>12 DEF Next, Proceed

\* If no key lapses under its holder, a token never admits somebody who is in on
\* that very token.
THEOREM TokenAdmitsOnce == ~LockMayLapse => (Spec => SameTokenAdmitsOnce)
<1> SUFFICES ASSUME ~LockMayLapse PROVE Spec => SameTokenAdmitsOnce
  OBVIOUS
<1> DEFINE A == \A r \in Registrations :
                  Admitted(r) /\ audit'[r].valid > audit[r].valid => audit'[r].via # audit[r].via
<1>1. Init => ViaInv
  <2> SUFFICES ASSUME Init PROVE ViaInv
    OBVIOUS
  <2>1. \A p \in Requests : ~Deciding(p)
    BY IdleType DEF Init, Deciding
  <2>2. QED
    BY <2>1, InitLock DEF ViaInv, InOnTheOther, Deciding
<1>2. ViaInv /\ [Next]_vars => ViaInv'
  BY StepVia
<1>3. ViaInv /\ [Next]_vars => [A]_vars
  <2> SUFFICES ASSUME ViaInv, [Next]_vars, NEW r \in Registrations, Admitted(r),
                      audit'[r].valid > audit[r].valid
               PROVE  audit'[r].via # audit[r].via
    OBVIOUS
  <2>1. TypeOK /\ audit[r] \in AuditRows /\ audit[r].valid \in Nat
    BY DEF ViaInv, LockInv, TypeOK, AuditRows
  <2>2. ~UNCHANGED audit
    BY <2>1
  <2>3. PICK p \in Requests : LogDuplicate(p) \/ CreateCheckIn(p) \/ RestoreCheckIn(p) \/ UndoCommit(p)
    BY <2>2 DEF Next, Proceed, ScanStart, UndoStart, AcquireLock, AcquireFails, LookupToken, ReadCheckIn,
                CreateCollides, ScanQueryFails, ReleaseLock, ReleaseFails, UndoAuthorise, UndoMisses,
                UndoQueryFails, LockExpires, ServerCrash, RemoveStaff, DeleteEvent, vars, database
  <2>4. CASE LogDuplicate(p)
    BY <2>1, <2>4 DEF LogDuplicate, TypeOK, AuditRows
  <2>5. CASE UndoCommit(p)
    BY <2>1, <2>5 DEF UndoCommit, TypeOK, AuditRows
  <2>6. CASE CreateCheckIn(p) \/ RestoreCheckIn(p)
    <3>1. Admit(p) /\ RegOf(p) \in Registrations
      BY <2>1, <2>6 DEF CreateCheckIn, RestoreCheckIn, TypeOK, Locals, Tokens, RegOf
    <3>2. RegOf(p) = r
      BY <2>1, <3>1 DEF Admit, TypeOK
    <3>3. req[p].pc = "restore"
      BY <2>6, <3>2 DEF CreateCheckIn, RestoreCheckIn, Admitted
    <3>4. audit'[r].via = req[p].token.kind
      <4>1. audit' = [audit EXCEPT ![r] = [audit[r] EXCEPT !.valid = @ + 1, !.via = req[p].token.kind]]
        BY <3>1, <3>2 DEF Admit
      <4>2. [audit[r] EXCEPT !.valid = @ + 1, !.via = req[p].token.kind].via = req[p].token.kind
        BY <2>1 DEF AuditRows
      <4>3. QED
        BY <2>1, <4>1, <4>2 DEF TypeOK
    <3>5. QED
      BY <3>2, <3>3, <3>4 DEF ViaInv, InOnTheOther
  <2>7. QED
    BY <2>3, <2>4, <2>5, <2>6
<1>4. QED
  BY <1>1, <1>2, <1>3, PTL DEF Spec, SameTokenAdmitsOnce
=============================================================================
