------------------------------ MODULE CheckIn ------------------------------
(***************************************************************************)
(* The gate of an event: QR and manual scans, undos, and the Redis lock    *)
(* and Postgres rows they share (src/modules/checkins/checkins.service.js).*)
(*                                                                         *)
(* A request is one HTTP call.  Between two of its awaits any other        *)
(* request may run, so every await is an action of its own; a Prisma       *)
(* transaction is one action, because every transaction on a registration  *)
(* first locks or inserts its unique check_ins row.                        *)
(*                                                                         *)
(* A presented token is a record: kind "qr" is the attendee's raw token,   *)
(* kind "manual" the registration id staff send when the QR is unreadable. *)
(* The two hash differently, so they take different locks.                 *)
(***************************************************************************)
EXTENDS Integers, FiniteSets

CONSTANTS
  Requests,       \* slots for requests in flight; a finished slot is reused
  Staff,          \* users who work at gates, owners included
  Events,
  Registrations,
  Owner,          \* Events -> Staff: events.owner_id
  EventOf,        \* Registrations -> Events: registrations.event_id
  MaxCalls,       \* bound: how many requests are ever made
  LockMayLapse    \* may the 10 s TTL end while the scan holding it still runs?

ASSUME OwnerAssumption   == Owner \in [Events -> Staff]
ASSUME EventOfAssumption == EventOf \in [Registrations -> Events]
ASSUME RegistrationsAssumption == Registrations # {}
ASSUME MaxCallsAssumption == MaxCalls \in Nat
ASSUME LapseAssumption   == LockMayLapse \in BOOLEAN

VARIABLES
  deleted,     \* events with deletedAt set
  assigned,    \* {<<e, s>>}: active event_staff_assignments rows
  status,      \* registration -> RegistrationStatus
  qrToken,     \* registration -> its qr_tokens row, keyed by registration_id
  checkIn,     \* registration -> its check_ins row
  audit,       \* registration -> its audit_logs rows: how many of each action, and
               \*   the kind of token in the latest CHECKIN_VALID entry
  lock,        \* the scan:{event}:{tokenHash} keys now in Redis
  req,         \* request slot -> its position and local variables
  calls        \* how many requests have been made

vars == <<deleted, assigned, status, qrToken, checkIn, audit, lock, req, calls>>
database == <<deleted, assigned, status, qrToken, checkIn, audit>>

Tokens   == [kind: {"qr", "manual"}, reg: Registrations]
LockKeys == Events \X Tokens

Results == {"VALID", "DUPLICATE", "INVALID", "EXPIRED", "WRONG_EVENT", "REVOKED",
            "NOT_AUTHORIZED", "CONFLICT", "NOT_FOUND", "WINDOW", "UNDONE", "ERROR",
            "LOST", "none"}

ScanSteps == {"acquire", "lookup", "resolve", "duplicate", "create", "restore", "release"}
UndoSteps == {"authorise", "undo"}

Locals == [pc: {"idle"} \cup ScanSteps \cup UndoSteps,
           event: Events, staff: Staff, token: Tokens,
           own: BOOLEAN,   \* undo: the row it read was scanned by the caller
           result: Results]

\* Rows of the three tables, as far as the gate reads and writes them.
QrTokenRow == [issued: BOOLEAN, revoked: BOOLEAN, scanCount: Int]
CheckInRow == [row: {"none", "active", "undone"}, staff: Staff]
AuditRows  == [valid: Nat, via: {"none", "qr", "manual"}, undo: Nat, duplicate: Nat]

\* The registration a request is about, and the lock a scan asks for.
RegOf(p) == req[p].token.reg
KeyOf(p) == <<req[p].event, req[p].token>>

InFlight(p) == req[p].pc # "idle"

\* Past "acquire" and before the DEL of the finally block.
Scanning(p) == req[p].pc \in ScanSteps \ {"acquire"}

----------------------------------------------------------------------------
\* A slot that has served no request yet.
Idle == LET r == CHOOSE r \in Registrations : TRUE
        IN [pc |-> "idle", event |-> EventOf[r], staff |-> Owner[EventOf[r]],
            token |-> [kind |-> "qr", reg |-> r], own |-> FALSE, result |-> "none"]

(* Initial state: registrations exist and are CONFIRMED, nobody is in.     *)

Init ==
  /\ deleted = {}
  /\ assigned \in SUBSET {a \in Events \X Staff : Owner[a[1]] # a[2]}
  /\ status = [r \in Registrations |-> "CONFIRMED"]
  /\ qrToken \in [Registrations -> {[issued |-> i, revoked |-> FALSE, scanCount |-> 0] :
                                     i \in BOOLEAN}]
  /\ checkIn = [r \in Registrations |-> [row |-> "none", staff |-> Owner[EventOf[r]]]]
  /\ audit = [r \in Registrations |-> [valid |-> 0, via |-> "none", undo |-> 0, duplicate |-> 0]]
  /\ lock = {}
  /\ req = [p \in Requests |-> Idle]
  /\ calls = 0

\* Request p goes on at `to`; settles on result x and goes to the finally
\* block; or answers x, which frees its slot.
Goto(p, to)  == req' = [req EXCEPT ![p].pc = to]
Settle(p, x) == req' = [req EXCEPT ![p].pc = "release", ![p].result = x]
Answer(p, x) == req' = [req EXCEPT ![p] = [Idle EXCEPT !.result = x]]

\* A free slot takes a new request, answered at once or continued at `to`.
Arrive(p) == ~InFlight(p) /\ calls < MaxCalls /\ calls' = calls + 1
Begin(p, to, e, s, t, own) ==
  req' = [req EXCEPT ![p] = [pc |-> to, event |-> e, staff |-> s, token |-> t,
                             own |-> own, result |-> "none"]]

MayScan(e, s) == e \notin deleted /\ (Owner[e] = s \/ <<e, s>> \in assigned)

----------------------------------------------------------------------------
(* scanQr                                                                  *)

\* The authorisation reads; everything after uses them unchecked.
ScanStart(p) ==
  \E e \in Events, s \in Staff, t \in Tokens :
    /\ Arrive(p)
    /\ IF MayScan(e, s) THEN Begin(p, "acquire", e, s, t, FALSE)
                        ELSE Answer(p, "NOT_AUTHORIZED")
    /\ UNCHANGED <<database, lock>>

\* Mutated form of AcquireLock: SET without NX.
AcquireWithoutNX(p) ==
  /\ req[p].pc = "acquire"
  /\ lock' = lock \cup {KeyOf(p)}
  /\ Goto(p, "lookup")
  /\ UNCHANGED <<database, calls>>

\* SET key 1 EX 10 NX
AcquireLock(p) ==
  /\ req[p].pc = "acquire"
  /\ IF KeyOf(p) \in lock
     THEN Answer(p, "CONFLICT") /\ UNCHANGED lock
     ELSE /\ lock' = lock \cup {KeyOf(p)}
          /\ Goto(p, "lookup")
  /\ UNCHANGED <<database, calls>>

\* The SET rejects: the catch logs and leaves lockHeld false, and a false
\* lockHeld throws ConflictError.  The key may have reached Redis all the same.
AcquireFails(p) ==
  /\ req[p].pc = "acquire"
  /\ lock' \in {lock, lock \cup {KeyOf(p)}}
  /\ Answer(p, "CONFLICT")
  /\ UNCHANGED <<database, calls>>

\* What the lookup of the presented token decides: a final result, or "go on".
\* `late` says whether the clock is past the token's expiresAt.
Verdict(p, late) ==
  LET r == RegOf(p)
      manual == req[p].token.kind = "manual"
  IN CASE ~manual /\ ~qrToken[r].issued                  -> "INVALID"
       [] ~manual /\ qrToken[r].issued /\ late           -> "EXPIRED"
       [] manual /\ EventOf[r] # req[p].event            -> "INVALID"
       [] status[r] # "CONFIRMED"                        -> "INVALID"
       [] EventOf[r] # req[p].event                      -> "WRONG_EVENT"
       [] ~manual /\ qrToken[r].revoked                  -> "REVOKED"
       [] OTHER                                          -> "go on"

LookupToken(p) ==
  /\ req[p].pc = "lookup"
  /\ \E late \in BOOLEAN :
       IF Verdict(p, late) = "go on" THEN Goto(p, "resolve")
                                     ELSE Settle(p, Verdict(p, late))
  /\ UNCHANGED <<database, lock, calls>>

\* Mutated forms of ResolveBranch: an active row is restored again; the row's
\* state is taken for the branch to run.
BranchIgnoresActive(row) == IF row = "none" THEN "create" ELSE "restore"
BranchIsRow(row) == row

\* resolveCheckIn reads the check_ins row once and picks its branch.
ResolveBranch(row) ==
  CASE row = "active" -> "duplicate"
    [] row = "undone" -> "restore"
    [] row = "none"   -> "create"

ReadCheckIn(p) ==
  /\ req[p].pc = "resolve"
  /\ Goto(p, ResolveBranch(checkIn[RegOf(p)].row))
  /\ UNCHANGED <<database, lock, calls>>

LogDuplicate(p) ==
  /\ req[p].pc = "duplicate"
  /\ audit' = [audit EXCEPT ![RegOf(p)].duplicate = @ + 1]
  /\ Settle(p, "DUPLICATE")
  /\ UNCHANGED <<deleted, assigned, status, qrToken, checkIn, lock, calls>>

\* The common part of both admitting transactions: row, QR token, audit entry.
Admit(p) ==
  LET r == RegOf(p) IN
  /\ checkIn' = [checkIn EXCEPT ![r] = [row |-> "active", staff |-> req[p].staff]]
  /\ qrToken' = IF req[p].token.kind = "qr"
                THEN [qrToken EXCEPT ![r].revoked = TRUE, ![r].scanCount = @ + 1]
                ELSE qrToken
  /\ audit' = [audit EXCEPT ![r].valid = @ + 1, ![r].via = req[p].token.kind]
  /\ Settle(p, "VALID")
  /\ UNCHANGED <<deleted, assigned, status, lock, calls>>

\* Mutated form of CreateCheckIn: no unique constraint, so a second insert succeeds.
CreateUnconstrained(p) ==
  /\ req[p].pc = "create"
  /\ Admit(p)

\* INSERT under the unique (event_id, registration_id) constraint.
CreateCheckIn(p) ==
  /\ req[p].pc = "create"
  /\ checkIn[RegOf(p)].row = "none"
  /\ Admit(p)

\* ... which rejects the loser of two inserts (P2002, answered 500).
CreateCollides(p) ==
  /\ req[p].pc = "create"
  /\ checkIn[RegOf(p)].row # "none"
  /\ Settle(p, "ERROR")
  /\ UNCHANGED <<database, lock, calls>>

\* UPDATE by primary key: no condition on deleted_at, whatever it is by now.
RestoreCheckIn(p) ==
  /\ req[p].pc = "restore"
  /\ checkIn[RegOf(p)].row # "none"
  /\ Admit(p)

\* Any query of the try block may reject; a transaction then rolls back.
ScanQueryFails(p) ==
  /\ Scanning(p)
  /\ req[p].pc # "release"
  /\ Settle(p, "ERROR")
  /\ UNCHANGED <<database, lock, calls>>

\* finally: DEL key, whoever set it.
ReleaseLock(p) ==
  /\ req[p].pc = "release"
  /\ lock' = lock \ {KeyOf(p)}
  /\ Answer(p, req[p].result)
  /\ UNCHANGED <<database, calls>>

\* The DEL rejects; the error is swallowed and the key left to its TTL.
ReleaseFails(p) ==
  /\ req[p].pc = "release"
  /\ Answer(p, req[p].result)
  /\ UNCHANGED <<database, lock, calls>>

----------------------------------------------------------------------------
(* undoCheckin                                                             *)

\* The check_ins row is read first; own remembers whose scan it was then.
UndoStart(p) ==
  \E s \in Staff, r \in Registrations :
    LET e == EventOf[r]
        row == checkIn[r]
        t == [kind |-> "manual", reg |-> r]
    IN /\ row.row # "none"
       /\ Arrive(p)
       /\ IF row.row = "undone" THEN Answer(p, "NOT_FOUND")
                                ELSE Begin(p, "authorise", e, s, t, row.staff = s)
       /\ UNCHANGED <<database, lock>>

\* The event read, then the two checks on the rows read so far.  `late` says
\* whether 24 hours have passed since the scannedAt read by UndoStart.
UndoAuthorise(p) ==
  /\ req[p].pc = "authorise"
  /\ IF req[p].event \in deleted THEN Answer(p, "NOT_FOUND")
     ELSE IF ~(Owner[req[p].event] = req[p].staff \/ req[p].own)
       THEN Answer(p, "NOT_AUTHORIZED")
     ELSE \E late \in BOOLEAN :
            IF late THEN Answer(p, "WINDOW") ELSE Goto(p, "undo")
  /\ UNCHANGED <<database, lock, calls>>

\* Mutated forms of Reenable: the token stays revoked; the count goes down for
\* a token the check-in never touched.
KeepRevoked(t) == t
AlwaysDecrement(t) == [t EXCEPT !.revoked = FALSE, !.scanCount = @ - 1]

\* A revoked QR token is re-enabled together with the check-in it admitted.
Reenable(t) == IF t.revoked THEN [t EXCEPT !.revoked = FALSE, !.scanCount = @ - 1] ELSE t

\* Mutated form of UndoCommit: updateMany without deletedAt: null in its where.
UndoUnguarded(p) ==
  LET r == RegOf(p) IN
  /\ req[p].pc = "undo"
  /\ checkIn' = [checkIn EXCEPT ![r].row = "undone"]
  /\ audit' = [audit EXCEPT ![r].undo = @ + 1]
  /\ status' = [status EXCEPT ![r] = "CONFIRMED"]
  /\ qrToken' = [qrToken EXCEPT ![r] = Reenable(@)]
  /\ Answer(p, "UNDONE")
  /\ UNCHANGED <<deleted, assigned, lock, calls>>

UndoCommit(p) ==
  LET r == RegOf(p) IN
  /\ req[p].pc = "undo"
  /\ checkIn[r].row = "active"
  /\ checkIn' = [checkIn EXCEPT ![r].row = "undone"]
  /\ audit' = [audit EXCEPT ![r].undo = @ + 1]
  /\ status' = [status EXCEPT ![r] = "CONFIRMED"]
  /\ qrToken' = [qrToken EXCEPT ![r] = Reenable(@)]
  /\ Answer(p, "UNDONE")
  /\ UNCHANGED <<deleted, assigned, lock, calls>>

\* updateMany matched no row: somebody else undid it first.
UndoMisses(p) ==
  /\ req[p].pc = "undo"
  /\ checkIn[RegOf(p)].row # "active"
  /\ Answer(p, "NOT_FOUND")
  /\ UNCHANGED <<database, lock, calls>>

UndoQueryFails(p) ==
  /\ req[p].pc \in UndoSteps
  /\ Answer(p, "ERROR")
  /\ UNCHANGED <<database, lock, calls>>

----------------------------------------------------------------------------
(* The rest of the system, as far as the gate can tell                     *)

\* Mutated form of LockExpires: SET without EX, the key never expires.
LockNeverExpires == FALSE /\ UNCHANGED vars

\* EX 10: Redis drops the key, with its holder alive only if LockMayLapse.
LockExpires ==
  \E k \in lock :
    /\ LockMayLapse \/ \A p \in Requests : Scanning(p) => KeyOf(p) # k
    /\ lock' = lock \ {k}
    /\ UNCHANGED <<database, req, calls>>

\* The Node process dies: every request in flight is gone, rows and keys stay.
ServerCrash ==
  /\ \E p \in Requests : InFlight(p)
  /\ req' = [p \in Requests |->
               IF InFlight(p) THEN [Idle EXCEPT !.result = "LOST"] ELSE req[p]]
  /\ UNCHANGED <<database, lock, calls>>

\* staff.service.js removeStaff and event.service.js deleteEvent.
RemoveStaff ==
  \E a \in assigned :
    /\ assigned' = assigned \ {a}
    /\ UNCHANGED <<deleted, status, qrToken, checkIn, audit, lock, req, calls>>

DeleteEvent ==
  \E e \in Events \ deleted :
    /\ deleted' = deleted \cup {e}
    /\ UNCHANGED <<assigned, status, qrToken, checkIn, audit, lock, req, calls>>

----------------------------------------------------------------------------
\* The step that comes next for a request in flight; each await also fails.
Proceed(p) ==
  \/ AcquireLock(p)
  \/ AcquireFails(p)
  \/ LookupToken(p)
  \/ ReadCheckIn(p)
  \/ LogDuplicate(p)
  \/ CreateCheckIn(p)
  \/ CreateCollides(p)
  \/ RestoreCheckIn(p)
  \/ ScanQueryFails(p)
  \/ ReleaseLock(p)
  \/ ReleaseFails(p)
  \/ UndoAuthorise(p)
  \/ UndoCommit(p)
  \/ UndoMisses(p)
  \/ UndoQueryFails(p)

Next ==
  \/ \E p \in Requests : ScanStart(p) \/ UndoStart(p) \/ Proceed(p)
  \/ LockExpires
  \/ ServerCrash
  \/ RemoveStaff
  \/ DeleteEvent

Spec == Init /\ [][Next]_vars

\* The event loop settles every await (ioredis and Prisma time out), and Redis
\* expires every key that was set with EX.
FairSpec == Spec /\ WF_vars(LockExpires) /\ \A p \in Requests : WF_vars(Proceed(p))
----------------------------------------------------------------------------
(* Properties                                                              *)

Admitted(r) == checkIn[r].row = "active"
Inside(r) == IF Admitted(r) THEN 1 ELSE 0

\* Every variable holds what its column, key or local can hold.
TypeOK ==
  /\ deleted \subseteq Events
  /\ assigned \subseteq Events \X Staff
  /\ status \in [Registrations -> {"PENDING", "CONFIRMED", "CANCELLED"}]
  /\ qrToken \in [Registrations -> QrTokenRow]
  /\ checkIn \in [Registrations -> CheckInRow]
  /\ audit \in [Registrations -> AuditRows]
  /\ lock \subseteq LockKeys
  /\ req \in [Requests -> Locals]
  /\ calls \in Nat

\* However many QR and manual scans of one registration race, and even when
\* their lock lapses, exactly one of them is answered VALID until somebody
\* undoes it (the unique constraint behind resolveCheckIn's create).
OneAdmissionBeforeUndo ==
  \A r \in Registrations : audit[r].undo = 0 => audit[r].valid = Inside(r)

\* The audit trail pays for every undo with an admission of its own: undos
\* and the admission still standing never exceed the CHECKIN_VALID entries,
\* whatever stale row two racing undos read (undoCheckin's updateMany).
UndosArePaidFor ==
  \A r \in Registrations : audit[r].undo + Inside(r) <= audit[r].valid

\* A QR code that answers REVOKED belongs to somebody who is in: no order of
\* scans, undos, restores and crashes leaves an attendee outside with a dead
\* code (revokedAt is written by resolveCheckIn and undoCheckin only).
RevokedMeansAdmitted ==
  \A r \in Registrations : qrToken[r].revoked => Admitted(r)

\* The undo of a manual check-in, or of one that was restored twice, never
\* takes scanCount below zero, and a revoked token has been counted.
ScanCountSound ==
  \A r \in Registrations :
    /\ qrToken[r].scanCount >= 0
    /\ qrToken[r].revoked => qrToken[r].scanCount >= 1

\* As long as no lock lapses under its holder, scanCount is 1 exactly for the
\* tokens revoked by the current check-in: nothing is counted twice.
ScanCountExact ==
  \A r \in Registrations :
    qrToken[r].scanCount = IF qrToken[r].revoked THEN 1 ELSE 0

\* Two scans of the same presented token never run their critical sections
\* together unless the key lapsed (SET NX ... DEL around scanQr's try block).
ScanExclusion ==
  \A p, q \in Requests :
    Scanning(p) /\ Scanning(q) /\ KeyOf(p) = KeyOf(q) => p = q

\* As long as no lock lapses, one and the same token never admits somebody
\* who is in on that very token: a second VALID for an admitted registration
\* can only come from the other way of identifying it.
SameTokenAdmitsOnce ==
  [][\A r \in Registrations :
       Admitted(r) /\ audit'[r].valid > audit[r].valid => audit'[r].via # audit[r].via]_vars

\* A scan lock never outlives its use: also after a crash in the critical
\* section, or a DEL or SET that failed half-way, the key goes away.
LockIsFreed ==
  \A k \in LockKeys : (k \in lock) ~> (k \notin lock)

Promise == INSTANCE Admission WITH
  Attendees <- Registrations,
  inside    <- {r \in Registrations : Admitted(r)},
  entries   <- [r \in Registrations |-> audit[r].valid],
  exits     <- [r \in Registrations |-> audit[r].undo]

\* The gate implements the ledger of Admission: every commit of scanQr or
\* undoCheckin is one Enter or Leave of its registration, or stutters.
ImplementsAdmission == Promise!Spec

----------------------------------------------------------------------------
(* What the documentation says, for the runs that refute it                *)

\* README.md:18 (lock and unique constraint "block duplicates"): nobody who
\* is in is admitted again.
NoDoubleAdmission ==
  [][\A r \in Registrations : audit'[r].valid > audit[r].valid => ~Admitted(r)]_vars

\* ARCHITECTURE.md (undo is limited to the owner "or the original scanning
\* staff"): an undo removes a check-in its caller may undo.
UndoByOwnerOrScanner ==
  [][\A p \in Requests :
       req[p].pc = "undo" /\ req'[p].result = "UNDONE" =>
         req[p].staff \in {Owner[req[p].event], checkIn[RegOf(p)].staff}]_vars
============================================================================
