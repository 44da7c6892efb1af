---------------------------- MODULE Registration ----------------------------
(***************************************************************************)
(* How the seats of one event are given away: free public registrations    *)
(* (registration.service.js), the bulk import of a file of attendees       *)
(* (import.service.js) and the organiser's edits of ticket types           *)
(* (tickets.service.js), on the Postgres rows they share.                  *)
(*                                                                         *)
(* Transactions run at READ COMMITTED.  What they have written so far is   *)
(* kept in the locals of the process that runs them and reaches the rows   *)
(* when they commit.  The row locks they hold follow from their positions: *)
(*   - SELECT .. FOR UPDATE locks the event row for a registration; an     *)
(*     import's inserts take a key-share lock on it (foreign keys), which  *)
(*     excludes FOR UPDATE and admits other imports;                       *)
(*   - UPDATE locks a ticket type row until its transaction ends.          *)
(* A statement rejected inside a transaction aborts it: later statements   *)
(* are rejected too, and COMMIT rolls back without an error.               *)
(*                                                                         *)
(* Every registration is CONFIRMED: no code cancels one.  Prices and the   *)
(* format of a row are left out: all tickets are free, all rows well-formed.*)
(***************************************************************************)
EXTENDS Integers, FiniteSets, Sequences

CONSTANTS
  Emails,          \* normalised attendee addresses
  TicketTypes,
  NoType,          \* no ticket type asked for
  Requests,        \* POST /registrations/free calls
  Imports,         \* POST /events/:eventId/import calls
  Files,           \* the files uploaded: sequences of rows [email, type]
  BatchSize,       \* BATCH_SIZE: rows per transaction of an import
  Retries,         \* CONFIRMATION_CODE_RETRIES
  EventCapacities, \* what events.capacity may be; no route writes it
  TypeCapacities,  \* the capacities a ticket type is given
  NoLimit,         \* a NULL capacity
  MaxEdits         \* bound: how often the organiser edits ticket types

Choices == TicketTypes \cup {NoType}
Rows == [email: Emails, type: Choices]

ASSUME NoTypeAssumption   == NoType \notin TicketTypes
ASSUME FilesAssumption    == Files \subseteq Seq(Rows)
ASSUME EmailsAssumption   == Emails # {} /\ IsFiniteSet(Emails)
ASSUME RequestsAssumption == Requests \cap Imports = {}
ASSUME BoundsAssumption   == /\ BatchSize \in Nat \ {0}
                             /\ Retries \in Nat \ {0}
                             /\ MaxEdits \in Nat
ASSUME CapacityAssumption == /\ NoLimit \notin Nat
                             /\ EventCapacities \subseteq Nat \cup {NoLimit}
                             /\ TypeCapacities \subseteq Nat \cup {NoLimit}

VARIABLES
  capacity,      \* events.capacity of this event
  ticketType,    \* ticket type -> its ticket_types row
  registration,  \* email -> its registrations row (unique per event and email)
  qrToken,       \* emails whose registration has a qr_tokens row
  importBatch,   \* import -> its import_batches row
  req,           \* request -> its position and locals
  imp,           \* import -> its position and locals
  edits          \* organiser edits so far

vars == <<capacity, ticketType, registration, qrToken, importBatch, req, imp, edits>>
database == <<capacity, ticketType, registration, qrToken, importBatch, edits>>

\* Rows of the tables, as far as registering reads and writes them.
TicketTypeRow == [active: BOOLEAN, capacity: Nat \cup {NoLimit}, quantitySold: Nat]
RegistrationRow == [source: {"none", "PUBLIC_LINK", "IMPORT"}, type: Choices,
                    qrIssued: BOOLEAN]
ImportBatchRow == [status: {"none", "PROCESSING", "COMPLETED", "FAILED"},
                   successRows: Nat, failedRows: Nat]

LookSteps  == {"find", "count", "type", "duplicate"}
TxSteps    == {"lock", "claim", "create"}
IssueSteps == {"token", "mint", "mark", "deliver"}
Request == [pc: LookSteps \cup TxSteps \cup IssueSteps \cup {"recheck", "done"},
            email: Emails, type: Choices, attempt: Nat,
            result: {"none", "NOT_OPEN", "CAPACITY_EXCEEDED", "INVALID_TICKET_TYPE",
                     "TICKET_TYPE_FULL", "DUPLICATE", "ERROR", "CREATED", "LOST"}]

BatchSteps == {"row", "rowClaim", "rowCreate"}
Import == [pc: {"start", "dedupe", "types", "next", "done"} \cup BatchSteps,
           file: Seq(Rows),
           todo: SUBSET Nat,     \* rows toCreate that no transaction has taken yet
           batch: SUBSET Nat,    \* rows the current transaction has still to start
           row: Nat,             \* the row its loop is at
           size: Nat,            \* rows the current transaction was given
           made: SUBSET Nat,     \* rows it has created (batchAttendees)
           claimed: SUBSET TicketTypes,   \* ticket type rows it has updated
           capacity: Nat \cup {NoLimit},  \* tt.capacity of the current row
           aborted: BOOLEAN,
           success: Nat, failed: Nat]

Registered(e) == registration[e].source # "none"
Seats == Cardinality({e \in Emails : Registered(e)})
Left(n, limit) == limit = NoLimit \/ n < limit

----------------------------------------------------------------------------
(* Locks                                                                   *)

\* Request p holds the event row FOR UPDATE; import i holds it for key share.
HoldsEvent(p)  == req[p].pc \in {"claim", "create"}
SharesEvent(i) == imp[i].made # {}

RequestHoldsType(p, t) == req[p].pc = "create" /\ req[p].type = t
ImportHoldsType(i, t)  == t \in imp[i].claimed

EventFreeForUpdate(p) ==
  /\ \A q \in Requests \ {p} : ~HoldsEvent(q)
  /\ \A i \in Imports : ~SharesEvent(i)
EventFreeForInsert == \A q \in Requests : ~HoldsEvent(q)

TypeFree(t, self) ==
  /\ \A q \in Requests \ self : ~RequestHoldsType(q, t)
  /\ \A i \in Imports \ self : ~ImportHoldsType(i, t)

\* Emails import i has inserted and not committed.
Pending(i) == {imp[i].file[n].email : n \in imp[i].made}

----------------------------------------------------------------------------
NoFile == <<>>
NewRequest == LET e == CHOOSE e \in Emails : TRUE
              IN [pc |-> "find", email |-> e, type |-> NoType, attempt |-> 0,
                  result |-> "none"]
NewImport == [pc |-> "start", file |-> NoFile, todo |-> {}, batch |-> {}, row |-> 0, size |-> 0,
              made |-> {}, claimed |-> {}, capacity |-> NoLimit, aborted |-> FALSE,
              success |-> 0, failed |-> 0]

Init ==
  /\ capacity \in EventCapacities
  /\ ticketType \in [TicketTypes -> {[active |-> TRUE, capacity |-> c, quantitySold |-> 0] :
                                     c \in TypeCapacities}]
  /\ registration = [e \in Emails |-> [source |-> "none", type |-> NoType, qrIssued |-> FALSE]]
  /\ qrToken = {}
  /\ importBatch = [i \in Imports |-> [status |-> "none", successRows |-> 0, failedRows |-> 0]]
  /\ req = [p \in Requests |-> NewRequest]
  /\ imp = [i \in Imports |-> NewImport]
  /\ edits = 0

\* Request p goes on with locals l; at `to` with those it has; or is refused
\* with x and forgets them.
Proceed(p, l) == req' = [req EXCEPT ![p] = l]
Goto(p, to)   == Proceed(p, [req[p] EXCEPT !.pc = to])
Refusal(x)    == [NewRequest EXCEPT !.pc = "done", !.result = x]
Answer(p, x)  == Proceed(p, Refusal(x))

----------------------------------------------------------------------------
(* registerFree                                                            *)

\* findOpenEventBySlug.  Status, mode and window are the organiser's and the
\* clock's: any call may find the event closed.
FindEvent(p) ==
  \E e \in Emails, t \in Choices, open \in BOOLEAN :
    /\ req[p].pc = "find"
    /\ IF open
       THEN Proceed(p, [req[p] EXCEPT !.pc = "count", !.email = e, !.type = t])
       ELSE Answer(p, "NOT_OPEN")
    /\ UNCHANGED <<database, imp>>

\* assertCapacity: the event, then the ticket type.  Nothing is locked yet.
CountSeats(p) ==
  /\ req[p].pc = "count"
  /\ IF ~Left(Seats, capacity) THEN Answer(p, "CAPACITY_EXCEEDED")
     ELSE Goto(p, IF req[p].type = NoType THEN "duplicate" ELSE "type")
  /\ UNCHANGED <<database, imp>>

ReadTicketType(p) ==
  /\ req[p].pc = "type"
  /\ LET row == ticketType[req[p].type] IN
       IF ~row.active THEN Answer(p, "INVALID_TICKET_TYPE")
       ELSE IF ~Left(row.quantitySold, row.capacity) THEN Answer(p, "TICKET_TYPE_FULL")
       ELSE Goto(p, "duplicate")
  /\ UNCHANGED <<database, imp>>

\* assertNoDuplicate; a registration whose QR was never issued is completed.
FindDuplicate(p) ==
  /\ req[p].pc = "duplicate"
  /\ IF ~Registered(req[p].email) THEN Goto(p, "lock")
     ELSE IF registration[req[p].email].qrIssued THEN Answer(p, "DUPLICATE")
     ELSE Goto(p, "token")
  /\ UNCHANGED <<database, imp>>

\* Where the transaction of p goes once it has a seat.
AfterSeat(p) == IF req[p].type = NoType THEN "create" ELSE "claim"

\* Mutated form of LockEvent: the count without FOR UPDATE.
LockEventUnlocked(p) ==
  /\ req[p].pc = "lock"
  /\ IF Left(Seats, capacity) THEN Goto(p, AfterSeat(p))
                                   ELSE Answer(p, "CAPACITY_EXCEEDED")
  /\ UNCHANGED <<database, imp>>

\* SELECT capacity .. FOR UPDATE, then the count under that lock.
LockEvent(p) ==
  /\ req[p].pc = "lock"
  /\ EventFreeForUpdate(p)
  /\ IF Left(Seats, capacity) THEN Goto(p, AfterSeat(p))
                                   ELSE Answer(p, "CAPACITY_EXCEEDED")
  /\ UNCHANGED <<database, imp>>

\* Mutated form of ClaimTicketType: the row read before is trusted.
ClaimUnguarded(p) ==
  /\ req[p].pc = "claim"
  /\ TypeFree(req[p].type, {p})
  /\ Goto(p, "create")
  /\ UNCHANGED <<database, imp>>

\* UPDATE ticket_types .. WHERE active AND quantity_sold < capacity
ClaimTicketType(p) ==
  /\ req[p].pc = "claim"
  /\ TypeFree(req[p].type, {p})
  /\ LET row == ticketType[req[p].type] IN
       IF row.active /\ Left(row.quantitySold, row.capacity)
       THEN Goto(p, "create") ELSE Answer(p, "TICKET_TYPE_FULL")
  /\ UNCHANGED <<database, imp>>

\* The types' rows with one more ticket of type t sold.
Sold(t) == IF t = NoType THEN ticketType
           ELSE [ticketType EXCEPT ![t].quantitySold = @ + 1]

\* Mutated form of CreateRegistration: the claim commits on its own, so the
\* registration no longer carries it.
CreateWithoutClaim(p) ==
  /\ req[p].pc = "create"
  /\ ~Registered(req[p].email)
  /\ registration' = [registration EXCEPT ![req[p].email] =
                        [source |-> "PUBLIC_LINK", type |-> req[p].type, qrIssued |-> FALSE]]
  /\ Goto(p, "token")
  /\ UNCHANGED <<capacity, ticketType, qrToken, importBatch, imp, edits>>

\* INSERT ticket_codes, INSERT registrations, COMMIT
CreateRegistration(p) ==
  /\ req[p].pc = "create"
  /\ ~Registered(req[p].email)
  /\ registration' = [registration EXCEPT ![req[p].email] =
                        [source |-> "PUBLIC_LINK", type |-> req[p].type, qrIssued |-> FALSE]]
  /\ ticketType' = Sold(req[p].type)
  /\ Goto(p, "token")
  /\ UNCHANGED <<capacity, qrToken, importBatch, imp, edits>>

\* P2002: the email is taken, or one of the two random codes is.
CreateCollides(p) ==
  /\ req[p].pc = "create"
  /\ Goto(p, "recheck")
  /\ UNCHANGED <<database, imp>>

\* Which of the two it was decides between an answer and another attempt.
Recheck(p) ==
  /\ req[p].pc = "recheck"
  /\ IF Registered(req[p].email) THEN Answer(p, "DUPLICATE")
     ELSE IF req[p].attempt + 1 = Retries THEN Answer(p, "ERROR")
     ELSE Proceed(p, [req[p] EXCEPT !.pc = "lock", !.attempt = @ + 1])
  /\ UNCHANGED <<database, imp>>

\* Mutated form of FindToken: the flag is set before there is a token.
MarkFirst(p) ==
  /\ req[p].pc = "token"
  /\ Goto(p, "mark")
  /\ UNCHANGED <<database, imp>>

\* issueQrToken: a token left by an earlier attempt is recovered, not replaced.
FindToken(p) ==
  /\ req[p].pc = "token"
  /\ Goto(p, IF req[p].email \in qrToken THEN "mark" ELSE "mint")
  /\ UNCHANGED <<database, imp>>

\* generateToken, under the unique registration_id of qr_tokens.
MintToken(p) ==
  /\ req[p].pc = "mint"
  /\ IF req[p].email \in qrToken
     THEN Answer(p, "ERROR") /\ UNCHANGED qrToken
     ELSE Goto(p, "mark") /\ qrToken' = qrToken \cup {req[p].email}
  /\ UNCHANGED <<capacity, ticketType, registration, importBatch, imp, edits>>

MarkIssued(p) ==
  /\ req[p].pc = "mark"
  /\ registration' = [registration EXCEPT ![req[p].email].qrIssued = TRUE]
  /\ Goto(p, "deliver")
  /\ UNCHANGED <<capacity, ticketType, qrToken, importBatch, imp, edits>>

\* The rest of completeRegistration: emails, audit, event, answer 201.
Deliver(p) ==
  /\ req[p].pc = "deliver"
  /\ Proceed(p, [req[p] EXCEPT !.pc = "done", !.result = "CREATED"])
  /\ UNCHANGED <<database, imp>>

\* Any await of registerFree may reject (a lock wait that times out or is
\* picked as deadlock victim included); its transaction rolls back.
RequestFails(p) ==
  /\ req[p].pc # "done"
  /\ Answer(p, "ERROR")
  /\ UNCHANGED <<database, imp>>

----------------------------------------------------------------------------
(* processImportFile                                                       *)

\* Import i goes on with the locals l.
Become(i, l) == imp' = [imp EXCEPT ![i] = l]

EmailAt(i, n) == imp[i].file[n].email
TypeAt(i, n)  == imp[i].file[n].type

\* validateRow: the rows whose email no earlier row has.
FirstMentions(file) ==
  {n \in DOMAIN file : \A m \in 1 .. (n - 1) : file[m].email # file[n].email}

\* The batch row is written PROCESSING, then the rows are validated in memory.
ImportStart(i) ==
  \E f \in Files :
    /\ imp[i].pc = "start"
    /\ importBatch' = [importBatch EXCEPT ![i].status = "PROCESSING"]
    /\ Become(i, [imp[i] EXCEPT !.pc = "dedupe", !.file = f, !.todo = FirstMentions(f),
                                !.failed = Len(f) - Cardinality(FirstMentions(f))])
    /\ UNCHANGED <<capacity, ticketType, registration, qrToken, req, edits>>

\* Import i keeps the rows of `kept` and reports the others as errors.
Keep(i, kept, to) ==
  Become(i, [imp[i] EXCEPT !.pc = to, !.todo = kept,
                           !.failed = @ + Cardinality(imp[i].todo \ kept)])

\* One findMany over all emails of the file.
ImportDedupe(i) ==
  /\ imp[i].pc = "dedupe"
  /\ Keep(i, {n \in imp[i].todo : ~Registered(EmailAt(i, n))}, "types")
  /\ UNCHANGED <<database, req>>

\* The ticket types are read once; rows claim them in file order.
Claimable(i, n) ==
  LET t == TypeAt(i, n)
      earlier == {m \in imp[i].todo : m < n /\ TypeAt(i, m) = t}
  IN \/ t = NoType
     \/ /\ ticketType[t].active
        /\ Left(ticketType[t].quantitySold + Cardinality(earlier), ticketType[t].capacity)

ImportCheckTypes(i) ==
  /\ imp[i].pc = "types"
  /\ Keep(i, {n \in imp[i].todo : Claimable(i, n)}, "next")
  /\ UNCHANGED <<database, req>>

\* The next BATCH_SIZE rows get a transaction.
NextRows(i) ==
  {n \in imp[i].todo : Cardinality({m \in imp[i].todo : m < n}) < BatchSize}

ImportNextBatch(i) ==
  /\ imp[i].pc = "next"
  /\ imp[i].todo # {}
  /\ Become(i, [imp[i] EXCEPT !.pc = "row", !.todo = @ \ NextRows(i), !.batch = NextRows(i),
                              !.size = Cardinality(NextRows(i))])
  /\ UNCHANGED <<database, req>>

CurrentType(i) == TypeAt(i, imp[i].row)

\* The loop takes the next row and reads its ticket type, outside the row's own
\* try: in an aborted transaction that read takes the whole batch down (BatchFails).
RowStart(i) ==
  \E n \in imp[i].batch :
    LET t == TypeAt(i, n)
        begun == [imp[i] EXCEPT !.row = n, !.batch = @ \ {n}]
    IN /\ imp[i].pc = "row"
       /\ \A m \in imp[i].batch : n <= m
       /\ IF t = NoType
          THEN Become(i, [begun EXCEPT !.pc = "rowCreate"])
          ELSE /\ ~imp[i].aborted
               /\ Become(i, [begun EXCEPT !.pc = "rowClaim",
                                          !.capacity = ticketType[t].capacity])
       /\ UNCHANGED <<database, req>>

\* Tickets of type t that the open transaction of i has sold.
SoldBy(i, t) == Cardinality({n \in imp[i].made : TypeAt(i, n) = t})

\* Mutated form of ClaimMatches: the update has no condition on quantitySold.
ClaimAnyway(i) == TRUE

\* The where of updateMany: the capacity read before, the quantity of now; a
\* capacity that has become NULL is no limit, one that was NULL must still be.
ClaimMatches(i) ==
  LET row == ticketType[CurrentType(i)] IN
    \/ row.capacity = NoLimit
    \/ /\ imp[i].capacity # NoLimit
       /\ row.quantitySold + SoldBy(i, CurrentType(i)) < imp[i].capacity

\* The current row is done with, as a failed one.
RowFailed(i, abort) ==
  Become(i, [imp[i] EXCEPT !.pc = "row", !.failed = @ + 1, !.aborted = @ \/ abort])

RowClaim(i) ==
  /\ imp[i].pc = "rowClaim"
  /\ TypeFree(CurrentType(i), {i})
  /\ IF ClaimMatches(i)
     THEN Become(i, [imp[i] EXCEPT !.pc = "rowCreate", !.claimed = @ \cup {CurrentType(i)}])
     ELSE RowFailed(i, FALSE)
  /\ UNCHANGED <<database, req>>

\* Mutated form of RowCreate: the insert is an upsert.
RowUpserts(i) ==
  /\ imp[i].pc = "rowCreate"
  /\ ~imp[i].aborted
  /\ EventFreeForInsert
  /\ Become(i, [imp[i] EXCEPT !.pc = "row", !.made = @ \cup {imp[i].row}])
  /\ UNCHANGED <<database, req>>

\* ticketCode, registration and qrToken of one row.
RowCreate(i) ==
  /\ imp[i].pc = "rowCreate"
  /\ ~imp[i].aborted
  /\ EventFreeForInsert
  /\ ~Registered(EmailAt(i, imp[i].row))
  /\ \A j \in Imports \ {i} : EmailAt(i, imp[i].row) \notin Pending(j)
  /\ Become(i, [imp[i] EXCEPT !.pc = "row", !.made = @ \cup {imp[i].row}])
  /\ UNCHANGED <<database, req>>

\* A statement of the row is rejected: email or code taken, lock wait given
\* up, or the transaction already aborted (then the claim's decrement, the
\* code's delete and the code's retries are rejected as well).
RowFails(i) ==
  /\ imp[i].pc \in {"rowClaim", "rowCreate"}
  /\ RowFailed(i, TRUE)
  /\ UNCHANGED <<database, req>>

\* What import i's transaction leaves behind for the next one.
EndBatch(i, success, failed) ==
  Become(i, [imp[i] EXCEPT !.pc = "next", !.batch = {}, !.row = 0, !.size = 0, !.made = {},
                           !.claimed = {}, !.aborted = FALSE,
                           !.success = @ + success, !.failed = @ + failed])

\* The row of email e, as import i creates it.
Imported(i, e) ==
  [source |-> "IMPORT", type |-> TypeAt(i, CHOOSE n \in imp[i].made : EmailAt(i, n) = e),
   qrIssued |-> TRUE]

CommitRows(i) ==
  /\ registration' = [e \in Emails |->
                        IF e \in Pending(i) THEN Imported(i, e) ELSE registration[e]]
  /\ qrToken' = qrToken \cup Pending(i)
  /\ ticketType' = [t \in TicketTypes |->
                      [ticketType[t] EXCEPT !.quantitySold = @ + SoldBy(i, t)]]

\* The callback returned, so the rows it created count as imported.  COMMIT of
\* an aborted transaction is a rollback and reports no error.
BatchCommit(i) ==
  /\ imp[i].pc = "row"
  /\ imp[i].batch = {}
  /\ IF imp[i].aborted THEN UNCHANGED <<registration, qrToken, ticketType>>
                       ELSE CommitRows(i)
  /\ EndBatch(i, Cardinality(imp[i].made), 0)
  /\ UNCHANGED <<capacity, importBatch, req, edits>>

\* Mutated form of BatchFails: the rows of the batch are not reported.
BatchFailsSilently(i) ==
  /\ imp[i].pc \in BatchSteps
  /\ EndBatch(i, 0, 0)
  /\ UNCHANGED <<database, req>>

\* The transaction rejects (the read in RowStart, its timeout, the database
\* gone): every row of the batch counts as failed, once more if it had already.
BatchFails(i) ==
  /\ imp[i].pc \in BatchSteps
  /\ EndBatch(i, 0, imp[i].size)
  /\ UNCHANGED <<database, req>>

ImportFinish(i) ==
  /\ imp[i].pc = "next"
  /\ imp[i].todo = {}
  /\ importBatch' = [importBatch EXCEPT ![i] =
                       [status |-> IF imp[i].success = 0 THEN "FAILED" ELSE "COMPLETED",
                        successRows |-> imp[i].success, failedRows |-> imp[i].failed]]
  /\ Become(i, [imp[i] EXCEPT !.pc = "done"])
  /\ UNCHANGED <<capacity, ticketType, registration, qrToken, req, edits>>

\* A read before the batches, or the last update, rejects: the import ends
\* and its batch row stays as it is.
ImportFails(i) ==
  /\ imp[i].pc \in {"dedupe", "types", "next"}
  /\ imp[i].pc = "next" => imp[i].todo = {}
  /\ Become(i, [imp[i] EXCEPT !.pc = "done"])
  /\ UNCHANGED <<database, req>>

----------------------------------------------------------------------------
(* The organiser and the process                                           *)

\* updateTicketType: any new capacity, whatever was sold; waits for the row.
UpdateTicketType ==
  \E t \in TicketTypes, a \in BOOLEAN, c \in TypeCapacities :
    /\ edits < MaxEdits
    /\ TypeFree(t, {})
    /\ c = NoLimit => ticketType[t].capacity = NoLimit
    /\ ticketType' = [ticketType EXCEPT ![t] = [@ EXCEPT !.active = a, !.capacity = c]]
    /\ edits' = edits + 1
    /\ UNCHANGED <<capacity, registration, qrToken, importBatch, req, imp>>

\* The Node process dies: transactions roll back, calls are never answered.
ServerCrash ==
  /\ req' = [p \in Requests |-> IF req[p].pc \in {"find", "done"} THEN req[p]
                                ELSE Refusal("LOST")]
  /\ imp' = [i \in Imports |-> IF imp[i].pc \in {"start", "done"} THEN imp[i]
                               ELSE [NewImport EXCEPT !.pc = "done", !.file = imp[i].file]]
  /\ UNCHANGED database

----------------------------------------------------------------------------
RegisterStep(p) ==
  \/ FindEvent(p)
  \/ CountSeats(p)
  \/ ReadTicketType(p)
  \/ FindDuplicate(p)
  \/ LockEvent(p)
  \/ ClaimTicketType(p)
  \/ CreateRegistration(p)
  \/ CreateCollides(p)
  \/ Recheck(p)
  \/ FindToken(p)
  \/ MintToken(p)
  \/ MarkIssued(p)
  \/ Deliver(p)
  \/ RequestFails(p)

ImportStep(i) ==
  \/ ImportStart(i)
  \/ ImportDedupe(i)
  \/ ImportCheckTypes(i)
  \/ ImportNextBatch(i)
  \/ RowStart(i)
  \/ RowClaim(i)
  \/ RowCreate(i)
  \/ RowFails(i)
  \/ BatchCommit(i)
  \/ BatchFails(i)
  \/ ImportFinish(i)
  \/ ImportFails(i)

Next ==
  \/ \E p \in Requests : RegisterStep(p)
  \/ \E i \in Imports : ImportStep(i)
  \/ UpdateTicketType
  \/ ServerCrash

Spec == Init /\ [][Next]_vars
----------------------------------------------------------------------------
(* Properties                                                              *)

TypeOK ==
  /\ capacity \in Nat \cup {NoLimit}
  /\ ticketType \in [TicketTypes -> TicketTypeRow]
  /\ registration \in [Emails -> RegistrationRow]
  /\ qrToken \subseteq Emails
  /\ importBatch \in [Imports -> ImportBatchRow]
  /\ req \in [Requests -> Request]
  /\ imp \in [Imports -> Import]
  /\ edits \in Nat

\* A free registration is only ever committed while the event has a seat left
\* at that very moment, however many registrations and imports race (the row
\* lock of createFreeRegistration, which count and insert share).
FreeNeverOversells ==
  [][\A e \in Emails :
       ~Registered(e) /\ registration'[e].source = "PUBLIC_LINK" => Left(Seats, capacity)]_vars

\* Nor does it ever take a ticket of a type that has none left, or that the
\* organiser has closed, when it commits.
FreeTypeNeverOversells ==
  [][\A e \in Emails :
       LET t == registration'[e].type IN
         ~Registered(e) /\ registration'[e].source = "PUBLIC_LINK" /\ t # NoType =>
           ticketType[t].active /\ Left(ticketType[t].quantitySold, ticketType[t].capacity)]_vars

\* quantity_sold is exactly the number of registrations of the type: no
\* collision, retry, failed row, rolled back batch or crash leaks a ticket.
SoldIsExact ==
  \A t \in TicketTypes :
    ticketType[t].quantitySold =
      Cardinality({e \in Emails : Registered(e) /\ registration[e].type = t})

\* As long as nobody edits ticket types, no mix of imports and free
\* registrations sells more of one than its capacity (claims are checked
\* against rows read long before, then by conditional updates).
TypeWithinCapacity ==
  edits = 0 => \A t \in TicketTypes :
    ticketType[t].capacity # NoLimit => ticketType[t].quantitySold <= ticketType[t].capacity

\* A registration marked qr_issued has a QR token, and whoever is answered 201
\* holds such a registration, also when two calls for one email complete it.
IssuedHasToken ==
  /\ \A e \in Emails : registration[e].qrIssued => Registered(e) /\ e \in qrToken
  /\ \A p \in Requests : req[p].result = "CREATED" => registration[req[p].email].qrIssued

\* A COMPLETED or FAILED report accounts for every row of the file: no row
\* that was not imported goes unreported.
ReportCoversFile ==
  \A i \in Imports : importBatch[i].status \in {"COMPLETED", "FAILED"} =>
    importBatch[i].successRows + importBatch[i].failedRows >= Len(imp[i].file)

\* Registering implements the box office: a guest's booking is the commit of a
\* free registration, the organiser's list the commit of a batch, and a ticket
\* is handed over when qr_issued is set; all other steps of calls, retries,
\* rolled back batches and crashes change nothing that anybody was promised.
Box == INSTANCE BoxOffice WITH
  People   <- Emails,
  Kinds    <- TicketTypes,
  NoKind   <- NoType,
  Limits   <- EventCapacities \cup TypeCapacities,
  booking  <- [e \in {x \in Emails : Registered(x)} |-> registration[e].type],
  ticketed <- {e \in Emails : registration[e].qrIssued},
  room     <- capacity,
  offer    <- [t \in TicketTypes |-> [active |-> ticketType[t].active,
                                      capacity |-> ticketType[t].capacity]],
  changed  <- edits # 0
ImplementsBoxOffice == Box!Spec

----------------------------------------------------------------------------
(* What comments and documentation say, for the runs that refute it        *)

\* QPASS_API_DOC.md:640 ("Each valid row creates a Registration"): the rows an
\* import reports as imported are registered.
ReportedRowsExist ==
  \A i \in Imports : importBatch[i].status = "COMPLETED" =>
    importBatch[i].successRows <=
      Cardinality({n \in DOMAIN imp[i].file : Registered(EmailAt(i, n))})

\* registration.service.js:243-244 (a token "is reused so a retry can
\* complete"): once the call that made a registration has ended without a QR
\* code, a retry is not turned away because the event is full.
RetryCanComplete ==
  [][\A p \in Requests :
       LET e == req[p].email
           waiting == Registered(e) /\ ~registration[e].qrIssued
           ended == \A q \in Requests : req[q].email = e => req[q].pc \notin IssueSteps
       IN req[p].pc = "count" /\ waiting /\ ended => req'[p].result # "CAPACITY_EXCEEDED"]_vars
=============================================================================
