# QPass backend: TLA+ models and proofs

QPass is a ticketing and check-in backend (Express, Prisma on Postgres, Redis,
Socket.IO). This directory holds TLA+ modules of the parts of it in which concurrent
requests, crashes and half-done work decide whether the system is right, TLC
configurations that check them on small instances, and TLAPS proofs that the main safety
properties hold for instances of every size. `PROJECT.json` maps every definition to the
source lines it stands for and lists runs, mutants, findings, hazards and theorems.

    tlc -workers 2 -config MCCheckIn_lapse.cfg MCCheckIn      # one run
    tlapm CheckInProofs.tla                                   # one proof module

## 1. Inventory

Paths are relative to the repository; `M/` stands for `src/modules/`.

| Component | Code | State | Operations | What makes it hard |
|---|---|---|---|---|
| Check-in gate | `M/checkins` | `check_ins`, `qr_tokens.revokedAt/scanCount`, `audit_logs`, Redis `scan:*` keys | `scanQr`, `resolveCheckIn`, `undoCheckin` | a lock per presented token rather than per attendee; a TTL shorter than a slow scan; reads before transactions |
| Registration | `M/registrations/registration.service.js` | `registrations`, `ticket_codes`, `qr_tokens`, `ticket_types.quantity_sold` | `registerFree` | capacity checked twice, retries after P2002, QR issued after the commit |
| Import | `M/registrations/import.service.js`, `import.controller.js`, `src/middlewares/upload.middleware.js` | the same rows, `import_batches`, a temporary file | upload, `processImportFile`, mails, answer | batches in transactions of their own, failures swallowed inside a transaction, claims against stale reads |
| Ticket types | `M/tickets/tickets.service.js` | `ticket_types` | create, update, delete, listings | capacity edited under running sales |
| QR tokens | `M/tickets/qr.service.js` | `qr_tokens` | generate, recover, rotate | two readers rotate one legacy token |
| Sessions | `M/auth/auth.service.js`, `session.service.js`, `password.service.js` | Redis `session:*`, `blacklist:*`; `users` | login, refresh, logout, list, revoke, change and reset password | nothing is atomic but single Redis commands; identical tokens within a second |
| One-time secrets | `M/auth/otp`, `verification`, `password`, `oauth`; `M/admin/admin-users` | Redis keys with a TTL | send/verify OTP, verify e-mail, reset password, OAuth state, admin invitation | get, check, use and delete are separate awaits |
| Event lifecycle | `M/events` | `events.status/deletedAt` | create, update, publish, unpublish, cancel, delete | read, then conditional `updateMany` |
| Event staff | `M/staff` | `event_staff_assignments`, `users` | assign, remove | creates users and promotes roles on the way, from a row read earlier |
| Realtime rooms | `src/realtime` | Socket.IO rooms | join an event or a scan room, broadcasts | authorised once, at the join; counts emitted after they were read |
| Notifications | `M/notifications` | `notifications` rows | send, retry | the row's state and the mail cannot be atomic; a retry may run beside the first attempt |
| Administration | `M/admin`, `src/scripts` | `users`, `audit_logs` | invite, promote, deactivate, first administrator, listings | rows are read, then written by id, while access tokens keep an old role |
| Reports, analytics, exports, PDF | `M/reports`, exports of `M/tickets` | none | queries and rendering | one answer is made of several snapshots; the CSV stream pages by offset |
| File parsers | `src/utils/parsers` | none | CSV, XLSX, PDF, DOCX to rows and errors | four hand-written loops with headers, offsets and fallbacks of their own |
| HTTP layer, configuration | `src/middlewares`, `src/config`, routes | none | validation and wiring | none of their own |

How they meet: every request is an async function in one Node process (several processes
may run); between two of its awaits any other request runs. They share Postgres rows
(transactions at READ COMMITTED, unique constraints, conditional updates, one
`SELECT .. FOR UPDATE` on the event row) and Redis keys (single commands are atomic,
sequences are not). Registration and import give a registration its QR token, the gate
revokes and re-enables it, the ticket listing may rotate it. Staff and event deletion
decide who may scan. Password change and reset revoke sessions.

What must be right, per component:
- gate: one admission until an undo; every undo pays for itself; a dead QR code only in
  the hands of somebody who is in; locks are never kept for ever;
- registration, import, ticket types: no seat and no ticket sold twice, the counter of
  sold tickets is the number of tickets, an issued registration has a token, the report of
  an import accounts for its file;
- sessions: a refresh token is worth one refresh, refreshing never multiplies sessions, a
  password change ends all sessions;
- one-time secrets: gone once its use was answered, not lost to a use that failed, and a
  Google state good for one callback;
- accounts and staff: nobody becomes an administrator but through one; whoever is assigned
  to an event can work at its gate; a suspension is not lifted on the side;
- lifecycle, ticket types: a cancelled or deleted event stays so, one of many concurrent
  publications takes effect, types are listed in the order of their creation, nobody
  registers for an event that was already closed;
- passes, reports, rooms: a pass that was handed out stays the one the gate knows (one that
  an import mailed does not, section 5), removal closes the gate to requests that come after
  it, the numbers of one answer agree with each other but for what was written meanwhile, an
  export loses nobody whose time of registration is his own;
- imports and notifications: a report accounts for everybody in the file, the attendees'
  mails are over before the answer, an upload comes to an end.

The hazards behind these, each at its line, are the `hazards` of `PROJECT.json`. Four have
no property: nothing in the repository says what should become of a deactivated user's
sessions, when a socket has to leave a room, or which of two e-mail codes should survive a
failed mail, and the limits of who may undo a check-in are broken (section 5). Where a
property covers a hazard in part only, a `note` says what is left out.

## 2. Modules

| Module | What it is |
|---|---|
| `Admission` | abstract: a ledger of entries and exits per attendee, knowing nothing of locks, tokens or rows |
| `CheckIn` | `scanQr`, `resolveCheckIn`, `undoCheckin` await by await; implements `Admission` |
| `BoxOffice` | abstract: who has a seat and on which kind of ticket, who was given the ticket, the room and what is on offer; no calls, locks or transactions |
| `Registration` | `registerFree`, `processImportFile` and `updateTicketType` statement by statement, on the rows and row locks they share; implements `BoxOffice` |
| `RefreshLedger` | abstract: which refresh tokens of a user are good and which refreshes are under way, with the password each goes back to |
| `Sessions` | login, refresh, logout, revocation and password change, Redis command by Redis command; implements `RefreshLedger` |
| `Voucher` | abstract: a mailed token that is issued once, may be redeemed by whoever was let in with it, and is only taken away after that or by lapsing |
| `OneTimeCode` | sending and using verification and reset tokens, e-mail codes, admin invitations and Google states; implements `Voucher` |
| `Accounts` | the `users` rows under sign-up, sign-in, Google, the first administrator, invitations, promotion, deactivation and staff assignments; roles copied into access tokens |
| `EventLifecycle` | create with its slug, update, publish, unpublish, cancel, delete |
| `TicketTypes` | extends it with ticket types and the registrations that refer to them |
| `Passes` | the passes of an event under readers that rotate them, scans, undos, removals of staff, and sockets in its room |
| `Reports` | extends it with the queries of the dashboard, the statistics, the lists and the exports |
| `ImportFile` | pure: what the four parsers make of a file |
| `Notifications` | a notification row around one mail, and its retry |
| `ImportDesk` | composes the two last with the upload, the batch row and the answer |
| `MCCheckIn`, `MCRegistration`, `MCSessions`, `MCOneTimeCode`, `MCAccounts`, `MCTicketTypes`, `MCReports`, `MCImportDesk` | instances for TLC |
| `CheckInProofs`, `RegistrationProofs`, `SessionsProofs`, `OneTimeCodeProofs`, `AccountsProofs`, `TicketTypesProofs`, `ReportsProofs`, `ImportDeskProofs` | theorems about the module of that name and those it extends |

### CheckIn and Admission

`req[p]` is one HTTP call: `pc` is the await it is at, the other fields its local
variables. `checkIn`, `qrToken`, `audit`, `status`, `deleted` and `assigned` are tables,
`lock` the set of Redis keys. One action per await: `ScanStart` (the reads of the event
and the assignment, lines 17-32 of the service), `AcquireLock` (`SET NX EX 10`),
`LookupToken`, `ReadCheckIn`, then one of `LogDuplicate`, `CreateCheckIn` and
`RestoreCheckIn` (a transaction each, one action since its first statement locks or
inserts the unique `check_ins` row), and `ReleaseLock` (the `finally`). `UndoStart`,
`UndoAuthorise` and `UndoCommit` are `undoCheckin`. Every await may also reject
(`AcquireFails`, `ScanQueryFails`, `ReleaseFails`, `UndoQueryFails`), a rejected `SET` may
have reached Redis or not, the process may die (`ServerCrash`), and the key may expire
(`LockExpires`; with `LockMayLapse` also under its holder). A presented token is `qr` or
`manual`: they hash differently, so they take different locks.

`Admission` promises that an attendee leaves only while inside, and enters only while
outside or once an earlier admission has been taken back. `CheckIn` implements it under
the mapping: inside = registrations with an active row, entries and exits = CHECKIN_VALID
and CHECKIN_UNDO audit rows. The ledger lets somebody who is inside enter again after an
exit because the code does: its restore is unconditional (see `checkin_double`).

### Registration and BoxOffice

`req[p]` is a `registerFree` call, `imp[i]` an import. A transaction's uncommitted work is
kept in the locals of its process (`claimed`, `made`) and reaches the tables at its
commit; the locks it holds are predicates over those locals (`HoldsEvent`, `SharesEvent`,
`RequestHoldsType`, `ImportHoldsType`) and are the guards of the statements that need
them. A process waiting for a lock stutters; the deadlock Postgres would break by
rejecting a statement is covered by the rejection every statement may meet anyway. A
P2002 inside an import's batch aborts its transaction: later statements fail, and COMMIT
silently rolls back. Tickets are free and rows are well-formed.

`BoxOffice` is what all that is for, as a guest and an organiser see it: a guest books a
seat within the room and the offer of that very moment (`Book`), an organiser's list takes
seats for all on it or for nobody (`BookList`), a seat is never lost and never changes its
kind, a ticket is only handed to somebody who has a seat and is never taken back
(`HandOver`). It also says what is not promised: a list is not held to the room, because an
import never asks, and to the capacities of its ticket types only until somebody edits one.
`Registration` implements it: a `Book` is the commit of `registerFree` and a `BookList` that
of a batch, although what they rest on was read several statements before; the bookings are
the rows of `registrations`, the tickets `qr_issued`; everything else (reads, claims,
retries, rollbacks, the report, crashes) is a stutter.

### Sessions and RefreshLedger

A refresh token is a record of the second it was signed in and of nothing else that
differs between two tokens of one user, as in the code (no `jti`, `iat` in whole
seconds). `session` and `blacklist` are the Redis keys, `call[c]` the position and locals
of a call. `basis`, `logins`, `recorded` and `consumed` are history: the password a
token's login was checked against, and how often logins recorded a session, a token's
session was recorded, and a refresh got past GETDEL with it. `Tick` moves the clock. With
`RedisMayFail`, every Redis command that the code lets fail may fail. The password reset
ends in the same `revokeAllSessions` as the password change and is not told apart from it
here.

`RefreshLedger` is what the tokens promise: only a login opens a session (`Login`), a
refresh takes one (`Take`) and gives back at most one on the password that its login was
let in with (`GiveBack`), and everything else only loses some (`Lose`). `Sessions`
implements it: `Login` is the SET of a login, `Take` the GETDEL of a refresh and `GiveBack`
its SET; a failed command, a check that answers 401, a logout, a revocation and a refresh
that gives up are a `Lose`; `ChangePassword` is the UPDATE of the hash. The ledger does not
promise that a change of the password closes anything, nor that a login under way is of
the new password, because the code does not (section 5).

### OneTimeCode and Voucher

One e-mail address, with its `users` row (none, soft-deleted or there), and the secrets
sent to it. `stored` is Redis; a token's key contains the token, so that tokens never meet
(`SameKey`), and a code's key only the address, so that a new code replaces the old one
and a DEL takes whichever is there. The five services have one shape and are one set of
actions on a secret with a `kind`: `SendStart` (read the row, draw the secret),
`SendStore` (SET EX), `SendMail`, and after a failed mail `DropKey` (the catch around the
mail) and `CleanUp` (the test of its result), whose rejected DEL the code ignores; then
`UseGet`, `UseRead`, `UseWrite`, `UseDelete`. A Google state is taken with one GETDEL
(`ConsumeState`) instead. `MaySend` and `MayUse` hold what each service asks of the row.
`registerUser` (`RegisterRead`, `RegisterWrite`) races for the same row. Every await may
reject: a rejected SET, DEL or GETDEL may have reached Redis, a mail reported as failed
may have arrived, keys expire at any time (`Expire`), and the process may die between any
two awaits. `lapsed` and `effects` are history: tokens that expired or were withdrawn, and
how often a use has been written.

`Voucher` is what remains for verification, reset and invitation tokens: Issue, Admit,
Redeem, GiveUp, ShutDown, Lapse, Spend. Its `Spend` asks for an earlier `Redeem`, which is
the point: the services write before they delete, so a call that fails never costs the
user the token. Its price is also in it: two clients may be admitted with one voucher
and both redeem it.

### Accounts

`user` is the table, keyed by address; `tokens` the access tokens in circulation, each an
address and the role its row had when it was signed (`GenerateTokens`: a login, a Google
sign-in and a registration sign them); `assigned` and `invites` hold the
calls that made an assignment or a mailed invitation. A call (`pc`, `req`, `saw`) reads its
row in one action and writes by id or by address in a later one what it decided on that
reading, as the services do: `Register`, `Google`, `Promote`, `Deactivate`, `Accept`,
`BootstrapChecks`/`BootstrapWrites` (`src/scripts/create-admin.js`), and the five steps of
`assignStaff`. `RequireAuth` reads the row, `RequireRole` believes the token. Access tokens
do not expire here, so their copy of the role may be as stale as can be. A call may stop for
ever after any step. `founded` and `after` are history: whether an administrator was there
from the start or was made by the script, and which calls had been answered before a call
began.

### EventLifecycle and TicketTypes

`Transition` is the shape of `publishEvent`, `unpublishEvent` and `cancelEvent`: read, look
at the status, `updateMany` on the condition of status, owner and `deletedAt`, load again.
`GenerateUniqueSlug` and `CreateEvent` are two nested retry loops, the first against a query
that does not see deleted events, the second against a unique index that does. A title
stands for all fields of an update. `TicketTypes` adds the sort order (highest number read,
then insert with the next, P2002 tried again), the foreign key that protects a type from
deletion, and `Register`, which reads the event once and later inserts without looking at
it again. `wrote` and `after` are history.

### Passes and Reports

A raw token is named by the call that minted it, a cipher by the token it opens to.
`RecoverRawToken` replaces a legacy token (no cipher, or one that does not open to the
stored hash) by a conditional update; `ReloadToken` is what the loser of that race does. A
registration's pass is made after its commit, with a cipher (`GenerateToken`); an import's
row comes with a pass that has none (`ProcessImportFile`), so that every imported pass is a
legacy one to its first reader, and its raw token is known from the mail only
(`SendQrIssuedEmail`, which may come after that reader, or not at all). Scans are shorter
here than in `CheckIn` (no lock, which may lapse anyway, and their own writes do not fail)
but longer at the end: they count and emit, and a rejected count or emission is caught
(`CountFails`): the scan is answered and the dashboards keep what they had. Rooms are sets
of joins; `Leave` awaits nothing and may overtake the join of the same socket. `stamp` is
the time of a registration, which is drawn before its commit (`Insert`) and may be another's
as well. `Reports` lists for each report the queries
that run beside each other (`Promise.all`) and those that come later; `Query` evaluates one
in the state it meets; `ByType` is what the breakdown by ticket type counts, which leaves
out registrations without a type. `ReadBatch` is the CSV stream: a page from the offset it
has pushed, of the registrations in any order that their times allow (`Pages`), since the
query orders by `createdAt` and by nothing else and two pages need not agree on ties.
`missed[c]` counts the commits while `c` runs and `used[c]` the passes it may have seen
used; both only serve the properties.

### ImportFile, Notifications and ImportDesk

A file is what the format's library finds in it: tables of cells, or lines of words.
`ImportFile` is the rest of `src/utils/parsers`: headings and aliases (in documents also the
half-anchored patterns), columns, rows without a name or address, row numbers and their
offsets, several tables, fallbacks to the text, the row limit. `Notifications` is
`sendNotification` and `retryNotification`, write by write. `ImportDesk` walks an upload
from `fileFilter` to the `finally` that unlinks the file. What `Registration` has in detail
is one step here (`RegisterRows`): any of the rows that may be created. `parsed` is written
at the upload because it is a function of the file. `DeleteEvent` is offered only until
`CheckEvent` has read the event, after which the import never looks again. `hit` and
`refused` remember which uploads and notifications had a query rejected or died.

## 3. Runs

| Run | Shows | Bounds |
|---|---|---|
| `checkin_lapse` | every gate property that does not need the lock, and that the gate implements `Admission`, although the lock may lapse under its holder | 2 requests at a time, 4 in all, 1 registration, owner and one gate |
| `checkin_exclusive` | what the lock adds while it lasts: `scanCount` is exact, the same token never admits twice, and the lock goes away, crash or failed DEL included | the same, at the owner's gate |
| `registration_race` | registrations and imports implement `BoxOffice`, no oversell of event or ticket type by registrations, claims within the capacity at hand, `quantity_sold` exact, issued means token, an import's report covers its file | 2 registrations, an import of 3 rows in batches of 2, capacities 1 or none, 1 edit |
| `sessions_rotation` | a refresh is paid for by a login, refreshing never multiplies sessions, and the calls implement `RefreshLedger` | 4 calls, clock 0..2, Redis may fail |
| `secrets_mail` | a token that was answered as used is gone for good, a Google state lets one callback in, and mailed tokens are vouchers | 3 calls, 2 tokens, 2 codes, one address |
| `accounts` | administrators have a root, assigned people are staff, a lock-out of all administrators and the end of a suspension need an overlap that the property names | 3 calls, an owner and two people, 4 databases to start from |
| `events` | endings are final, publications alternate, types are numbered in the order of creation; nobody registers after the event was cancelled, deleted or taken back to draft, unless under way or let in by a publication that overlapped both | 3 calls, 3 events, 2 slugs, 3 old types, 2 tries of each loop |
| `views` | handed passes stay good but for those an import mailed, an empty answer only for a used pass, the count of a scan that nothing overlapped is right unless it failed, removal closes the gate, the numbers of a report agree (the breakdown by type with the check-ins that have a type), the CSV stream loses nobody but at a tie | 3 calls, 3 tickets (legacy unused, legacy used, undone), two of them registered at one time and one of no type, 2 times for new ones, pages of 2 |
| `imports` | a report accounts for everybody in the tables, or every line of the text, that the file is read from, and numbers its rows apart where there is one table, attendees are mailed before the answer, an upload ends | one upload of any of some 400 files, `MAX_IMPORT_ROWS` 2, one row with rejected writes, one retry |
| `checkin_double`, `registration_phantom`, `sessions_revoke` | findings, section 5 | as above |

Why the bounds are enough to be interesting: two requests at a time at the gate show every
pairwise race, and the third and fourth call (in freed slots) the undo and the second
admission that the races need; counters of the audit trail reach 4. In `registration_race`
a batch of two rows followed by a batch of one shows a transaction that commits after
another failed, an address mentioned twice, a claim that is repeated and one that loses
the last ticket; capacity 1 makes everybody compete, and no limit lets everybody win. Two
imports at once are not in the run (the state space outgrows it) but are in the theorems.
Three seconds of the clock separate "same second", "next second" and "revoked in between".
In `secrets_mail` three calls are one that sends and two that use what it sent, or two
senders and a user. In `accounts`, `events` and `views` three calls are two that race and
one that comes before, between or after them, over every pair of requests listed in the MC
module, which has each operation by a user whom it tells apart and leaves out what differs
in the name only; a race of these services is between a read and a write by id, so that
two calls show it and the third prepares or observes it. The files of `imports` have
headings in any order, doubled, nearly right or missing, blank and empty rows, a row too
many, one or two tables (of which a workbook gives the first), text only, tables that give
no row so that the text is read, a DOCX with a table of no known heading before two
others, a workbook of two sheets, a CSV declared as a PDF; the limit of 2 is met, passed
and not reached. Symmetry is used for request slots, calls, tokens and codes, which are
interchangeable, and not in the runs with liveness. `CHECK_DEADLOCK FALSE` is in every cfg
because the number of calls is bounded: a system that has served them all stops.

Fairness. `FairSpec` of `CheckIn`: `WF` on `Proceed(p)` because the event loop settles
every await, ioredis and Prisma time out, and `WF` on `LockExpires` because the key was
set with `EX 10` and Redis drops it. `Spec` of `ImportDesk`: `WF` on the steps of each
upload and of each `sendNotification`, for the same reason (a rejection is a step too). No
fairness for new requests, retries, deletions or crashes.

Each property of a passing run has a mutant in `PROJECT.json`: a plausible bug in the code
(SET without NX or EX, an `updateMany` without its condition, a count that is not given
back, a token deleted before its use, mails nobody awaits, a page mistaken for the last,
...) under which the property fails.

## 4. Proofs

All for every value of the constants, from the `ASSUME`s in the modules: finitely many
addresses and calls, a batch size, page size and number of retries of at least one,
capacities that are naturals or no limit, requests and imports disjoint, one owner per
event, requests that name existing events or tickets and have the fields their operation
needs, events and tickets that are created with a new id. Four say something about the
world: an installation in which somebody has the role ADMIN, or a token that says so, has an
administrator who can sign in (`AdministratorsAreReal`); the tickets and passes there at the
start are distinct (`FirstTicketsAreTickets`); a file is sequences of cells and words, a
readable CSV one table (`FilesAreFiles`); and there is a note for every row of an upload
(`NotesAreThere`). None of the theorems needs the bounds `MaxCalls`, `MaxEdits`, `MaxTime`,
`MaxRefusals` or `MaxRetries`.

- **`CheckInProofs`**: `TypeCorrect`; `OneAdmission`, `PaidUndos`, `RevokedAreIn`,
  `SoundScanCount` from one inductive invariant `GateInv` over rows and audit counts. Its
  strengthenings are `HistoryAgrees` (a row is there exactly if the trail says so) and
  `RestoreIsJustified` (a request about to restore an undone row has an undo behind it);
  it says nothing of the locks, which is why the result survives a lapse. `Exclusion`,
  `ExactScanCount` and `TokenAdmitsOnce` assume `~LockMayLapse`: `LockInv` adds that the key
  of every scanning request is in Redis (`LockIsHeld`) to `ScanExclusion`, `CountInv` that
  what a scan read of the token before its transaction still holds at the transaction
  (`CheckStillGood`), and `ViaInv` that whoever is in while a scan is about to admit came in
  on the other token (`InOnTheOther`). `GateImplementsAdmission` maps every step to `Enter`,
  `Leave` or a stutter.
- **`RegistrationProofs`**: `TypeCorrect`. An import's locals only make sense together
  (rows to do, current batch, rows made are disjoint parts of its file), so the invariant
  has `Shape`, `Covers` and `Sound` parts beside the types. `NeverOversells` and
  `TypeNeverOversells` (action properties) follow from the facts that the holder of the
  event row `FOR UPDATE` is alone (`Alone`) and that what it counted is still the count
  (`Counted`); `IssuedAlways` from what a request at each step of the issuance has behind
  it; `ReportCovers` from the arithmetic of batches; `SoldExactly` (`quantity_sold` is the
  number of registrations of the type) from a bijection between the rows a commit inserts
  and the claims it made, which needs that the rows of a file that survive `dedupe` mention
  different addresses; `WithinCapacity` from the exclusive row lock of a claimed type and
  the capacity the claim compared with. `RegistrationImplementsBoxOffice` maps every step
  to a `Book`, `HandOver`, `BookList` or `EditOffer` or a stutter. It puts the others
  together: that the room and the offer hold at the commit, and not only at the reads, is
  `NeverOversells` and `TypeNeverOversells`; that the capacities hold for a list is
  `SoldExactly` with `WithinCapacity`; and one invariant more (`Served`) says that a call
  about to set `qr_issued` has a row to set it in, or nothing to do.
- **`SessionsProofs`**: `TypeCorrect`, with `SignedByNow` (no call holds a token from the
  future) as its strengthening; `RefreshesPaid` and `NeverMultiply`: every step either
  leaves tokens, sessions and counts alone (the quiet steps) or moves one unit from one of
  them to another. `SessionsImplementRefreshLedger` maps the steps to those of the ledger by
  what they do and not one by one (`StepIs`): a step opens a session, takes one, or is quiet
  and loses at most some. It needs that no call was let in, and no session recorded, with a
  password yet to be set (`NoneAhead`), and that a refresh keeps the password it goes back
  to until its SET (`Carried`).
- **`OneTimeCodeProofs`**: `TypeCorrect`, `SpentForGood` and `StateOnce` from one
  invariant: whatever is stored, known, lapsed, used or in a call's hands has been drawn
  (`Provenance`), hence a token before its SET is nowhere else (`NotYetStored`), hence no
  SET brings back a token that was deleted. `FrameKeeps` proves the invariant once for any
  step described by what it leaves alone (`Frame`) and what becomes of its call
  (`OwnStep`), and each action is then shown to be such a step.
  `SecretsImplementVoucher` maps the steps to those of `Voucher`; that a late write is a
  `Redeem` of a token already gone needs that nobody is admitted with a token that was
  never issued (`Accounted`), which the abstract steps alone preserve (`AccountedStep`).
- **`AccountsProofs`**: `TypeCorrect` and `RootOnly` (`AdminsHaveRoot`). The invariant adds
  that a row a call has seen stays (`SeenStays`), and that before there is an administrator
  no call of one is under way (`Rooted`). `DeactivationsStick` looks at what each step does
  to the row of its target. `StaffHoldTheirRole` follows the role a call checked or stored
  (`AssignedAreStaff` alone is not inductive: between the check and the insert others
  write). `LockedOutOnlyByOverlap` keeps account of what a call read before somebody became
  an administrator and may still write over, and of deactivations under way: whoever has
  begun one is an administrator who can sign in, hence one more than its target.
- **`TicketTypesProofs`**: about `TypesSpec`, events and ticket types together.
  `TypeCorrect` and `Endings` (`EndingsAreFinal`): every step but the beginning of a call is
  `Legal`: it stores no row, or continues one that is there and not deleted, or founds one
  for a creation. That the last never overwrites an event needs that no two creations ask
  for one id (`CreationsDiffer`) and that who finds the id taken is not the first
  (`CreatedOnDemand`). `Publications`: the balance of the publications and withdrawals of an
  event is its status, because a conditional update takes effect only from the other one.
  `LateRegistrations`: an event that a call found open was not closed by what was answered
  before that call began, or a publication that overlapped both opened it again (`InTime`);
  what a cancellation, deletion or withdrawal leaves behind stays closed until such a
  publication (`Closed`). `Orderly`: a call about to insert a type has
  a number above those of all types created before it began (`Follows`), and the unique
  index refuses a number that is taken; it rests on a finite set of numbered things having a
  largest.
- **`ReportsProofs`**: one invariant (`Control`, `DataTyped`, `PassesRight`) under six
  theorems. `HandedStayGood` and `EmptyHanded`: a call that lost the race for a legacy
  pass finds the winner's; a pass that a registration or a reader handed out has a cipher
  that opens and is never replaced (`PassesRight`); one that an import mailed is there, or
  was replaced by a reader who still has the pass the gate knows (`ImportsRight`).
  `GateCloses`: what `after` says of a call was so at its reads, whether access was taken
  away before it began (`TakenAway`) and that it is then kept out (`KeptOut`).
  `CountCatchesUp`: from its count to its answer, and after it, a scan that nothing
  overlaps has and leaves the number of check-ins (`Calm`, for all scans `UpToDate`),
  whatever was shown before. `NumbersAgree`: the distance of every number an answer has so
  far from what it would be now is at most the number of commits missed. `NobodyIsLost`:
  times of registration are drawn before the commit and may be shared, so pages do not
  join to one list; but whoever has a time of his own is in the stream or still behind the
  rows it has read (`Exported`), since a registration that commits late with an earlier
  time only moves people to later places.
- **`ImportDeskProofs`**: what the four parsers make of a file of any size. `InOrder`, the
  fold over the tables of a document and `FlattenSeq` are recursive functions; the library's
  induction theorems take an operator, which the provers cannot instantiate, but the
  well-foundedness of the naturals (`WFMin`) gives an induction over a set of good numbers
  (`Induction`). From there, parser by parser: rows and errors are
  well-formed (`Neat`), have different numbers where there is one table and no worksheet
  (`Numbered`), and are at least as many as the people under a heading or the lines of the
  text (the lemmas named `...Counts`). For the text of a PDF that needs the order of what
  `InOrder` keeps (`InOrderSorted`): the lines that are read are those behind the first one
  that looks like a header, and a line below any such line is behind the first
  (`LinesThere`). The invariant of the desk (`IInv`) says that what was parsed is what
  `ParseFile` gives, which rows a call may have created and when their mails are over
  (`ReadRight`, `Chosen`, `Answered`), and of a note that its row, its mails and its calls
  tell one story (`Honest`). `RowsAreToldApart`, `MailsAreOver`, and `EverybodyIsAccounted`,
  which is `RowsAreAccounted` for every file.

`RowsAreAccounted` used to ask for the people in the tables of every file, and the run of
that time agreed. The proof did not go through for a PDF that is read from its text, and for
a reason: with two tables, of which the first gives only errors and the second only a header
that the text parser knows, the text begins below that header and the people of the first
table are neither rows nor errors. The files of the run have that PDF now (`Mails` in
`MCImportDesk`), and the property asks for what such a file is read from (`FromText`,
`LinesOf`); section 5 has what the code does with it.

Model-checked only:
- the liveness properties `LockIsFreed` and `UploadsEnd`, which with `ENABLED` is beyond
  the provers used;
- what the parsers compute, beyond numbers and counts: which cell becomes a name or an
  address;
- the three violation runs.

## 5. Findings and disagreements

Three violation runs have one property each, stated from a sentence of the repository.

1. `checkin_double` - README.md:18 and TRD:48 say duplicates are blocked. After an undo,
   a QR and a manual scan hold different locks, read the same undone row, and the
   unconditional restore answers both VALID.
2. `registration_phantom` - API_DOC:640 says each valid row creates a registration. A row
   that fails in the database aborts its batch, whose earlier rows are still reported as
   imported and e-mailed a ticket.
3. `sessions_revoke` - session.service.js:168 revokes all sessions on a password change; a
   login that compared the old password earlier records its session after the listing.

Three more sentences do not hold in the models; each is a definition there, without a run:
`UndoByOwnerOrScanner` of `CheckIn` (ARCHITECTURE.md:144 limits undo to the owner or the
original scanner; the authorisation is against the row read before the transaction, and the
check-in removed may be a later one by somebody else), `RetryCanComplete` of `Registration`
(registration.service.js:243-244 keeps a token "so a retry can complete"; when the
registration holds the last seat the retry is refused for capacity) and `PairIsFresh` of
`Sessions` (ARCHITECTURE.md:123: the old token is blacklisted before a new pair is issued;
within the second of its signature the new token is the old one, blacklisted).

What the code does elsewhere that a reader of its documents may not expect:

- secrets: two uses of one mailed token at once both succeed; the failed mail of an older
  e-mail code deletes a newer one; an invitation accepted while the address registers
  overwrites the registration;
- gate: a QR code scanned twice is answered REVOKED (the first scan revoked it, and
  revocation is tested first), where TRD:594 expects DUPLICATE; the old and the new raw
  token of a pass, scanned around its rotation, have different locks;
- accounts: a staff assignment that read an attendee stores STAFF over the ADMIN a
  promotion wrote meanwhile, a registration that read a deleted user stores its role over
  that of an administrator made meanwhile, and two administrators may deactivate each other
  at once; all three can leave a system without one; Google sign-in makes an account ACTIVE
  again that is deleted and INACTIVE, without any overlap (oauth.service.js:221-232); an
  invitation whose mail and whose DEL both failed was answered as failed and can be used;
- passes: a revoked pass with a good cipher is still handed out (a comment at
  tickets.service.js:325-326 expects none); the pass that an import mails is stored without
  a cipher (import.service.js:571-580), as only "legacy tokens (issued before encryption)"
  are by qr.service.js:75; the first time its holder, or anybody who may, looks at the
  ticket it is replaced, and the QR code of the mail, which may not even have gone out yet,
  is refused at the gate;
- dashboards: a scan whose count or emission is rejected is answered all the same
  (checkins.service.js:123-125), an undo tells nobody, and two scans may emit in the other
  order than they counted, so that a dashboard keeps an old number until the next scan
  that nothing overlaps; the breakdown by ticket type leaves out check-ins without a type,
  so that it adds up to less than the total;
- exports: the CSV stream orders by `createdAt` alone (ticket-export.service.js:112); the
  rows of an import's batch may share it, and of those who do a page may repeat one and
  leave another out, with no row too few;
- rooms: `leave:event` does not wait for a join that is being authorised, and the socket
  ends up in the room it left; a socket that is in is never asked again, removed from the
  staff or not;
- import: a batch row stays PROCESSING for ever when its import dies, or a query outside its
  batches is rejected (import.service.js:389, 426, 634); the rows of a worksheet are numbered one higher than
  its errors; row numbers repeat across the tables of a PDF, and across those of a DOCX
  that have empty rows; a DOCX table whose only known heading is in its first column is
  passed over without a word; headings of documents are matched by patterns anchored at
  one end; a PDF whose tables give errors and no row is read again from its text, without
  those errors, from below the first line that looks like a header, so that whoever stands
  above it is in no count of the report; `.xls` is known to the parser and refused by the
  upload filter; a row that fails in a batch which is then rejected is counted twice as
  failed.

Seen while reading and not modelled: no route writes an event's capacity, although
docs/QPASS_API_DOC.md:423 lists it; an import does not look at the event's capacity at
all; an import and a registration take the event row and the ticket type row in opposite
orders, which Postgres answers with a rejected statement; the CSV stream's "Checked In"
counts check-ins that were undone.

## 6. Plan

Done, in this order: the gate, the seats, the sessions, the one-time secrets; accounts,
events and ticket types, passes with rooms and reports, imports with files and
notifications; then the theorems about all of them, with `BoxOffice` as the abstraction of
registration and `RefreshLedger` as that of sessions. Every safety property of a passing
run, the four refinements included, is now a theorem. What could follow:

1. an abstract specification of the batch row and its mails that `ImportDesk` implements;
2. two imports at once beside registrations in `Registration`'s run, if its state space can
   be brought down.

## 7. Not modelled

- The HTTP layer: routing, validation, rate limits, wiring, configuration, the seed script.
  `requireAuth` and `requireRole` are operators of `Accounts`. A process that dies is
  `ServerCrash` where the code keeps work in memory.
- Rendering: PDF tickets, CSV and PDF layout, e-mail templates, QR images.
- Cryptography and tokens as strings: hashes, signatures and ciphers are injective or open
  to what they were made from.
- Read-only listings with a single query (audit logs, users, events, staff, sessions of an
  administrator), `getProfile` and `updateProfile`, which touch one row once.
- Code no route calls: `registerPublic`, `parseImportFile`, `generateTicketPdf`.
  (`createRegistrationCsvStream` and `retryNotification` have no route either; they are
  modelled for what they do next to other calls.)
- The Socket.IO handshake, its Redis adapter, and shutdown.
- Prices and payments: all modelled registrations are free.
- The libraries that open CSV, XLSX, PDF and DOCX files.
