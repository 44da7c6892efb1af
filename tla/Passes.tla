------------------------------- MODULE Passes -------------------------------
(***************************************************************************)
(* The passes of one event's attendees while scans, undos and readers run: *)
(* a reader recovers the raw token of a pass and replaces a legacy one, a  *)
(* scan revokes it and tells the dashboards a count, sockets join the      *)
(* event's room after an authorisation that is not repeated.  An import    *)
(* mails the raw token of a pass it stores without a cipher, as legacy     *)
(* passes are; an import that is a call here stands for one of its rows.   *)
(*                                                                         *)
(* A raw token is named by the call that minted it, "old" when it is older *)
(* than the behaviour; a cipher is the raw token it decrypts to, "bad"     *)
(* when it does not decrypt to the token whose hash is stored, or "none".  *)
(* The scan lock may lapse (CheckIn), so no scan waits here, and no pass   *)
(* expires.  A call may stop between any two steps.                        *)
(***************************************************************************)
EXTENDS Integers, FiniteSets, SequencesExt

CONSTANTS
  Calls,          \* the requests of one behaviour, each made once
  Requests,       \* what a call may ask
  FirstTickets,   \* the tickets there are at first
  FirstPasses,    \* their passes
  FirstRows,      \* their rows in check_ins: "none", "valid" or "undone"
  FirstStamps,    \* their times of registration, which several may share
  FirstTyped,     \* those that are of a ticket type
  Times,          \* what the clocks may show while the behaviour lasts
  Owner, Staff,   \* the event's owner, and the users assigned to it at first
  Admins

VARIABLES pc, req, after, missed, used, saw, got,
          pass, row, dups, regs, stamp, open, staff, room, shown, wrote

call == <<pc, req, after, missed, used, saw, got>>
data == <<pass, row, dups, regs, stamp, open, staff, room, shown, wrote>>
vars == <<call, data>>

Tickets == FirstTickets \cup Calls
NoPass == [raw |-> "none", cipher |-> "none", revoked |-> FALSE]
NoRequest == [op |-> "none"]
Answers == {"ok", "refused", "notfound", "error"}
\* The operations of the owner and the staff, and those of the owner
GatedOps == {"scan", "join", "dashboard", "statistics", "attendees", "checkins"}
OwnedOps == {"tickets", "registrations", "attendance", "stream"}

ASSUME FirstTicketsAreTickets ==
  /\ IsFiniteSet(Calls) /\ IsFiniteSet(FirstTickets)
  /\ FirstTickets \cap Calls = {}
  /\ Tickets \cap {"old", "bad", "none", "null"} = {}
  /\ FirstPasses \in [FirstTickets -> [raw : {"old"}, cipher : {"old", "bad", "none"},
                                      revoked : BOOLEAN]]
  /\ FirstRows \in [FirstTickets -> {"none", "valid", "undone"}]
  /\ Times \subseteq Nat /\ FirstStamps \in [FirstTickets -> Nat]
  /\ FirstTyped \subseteq FirstTickets

ASSUME RequestsAreRequests ==
  \A r \in Requests :
    /\ {"op", "user"} \subseteq DOMAIN r
    /\ r.op = "scan" => {"ticket", "manual"} \subseteq DOMAIN r /\ r.manual \in BOOLEAN
    /\ r.op \in {"scan", "undo"} => r.ticket \in Tickets
    /\ r.op \in {"attendees", "tickets"} => r.page \in Nat \ {0}
    /\ r.op \in {"register", "import"} => r.typed \in BOOLEAN

\* The function f with x mapped to v.
With(f, x, v) == [y \in DOMAIN f \cup {x} |-> IF y = x THEN v ELSE f[y]]

Finished(c) == pc[c] \in Answers
Valid == {r \in Tickets : row[r] = "valid"}

\* What is of a ticket type
Typed(r) == IF r \in Calls THEN req[r].typed ELSE r \in FirstTyped

Init ==
  /\ pc = [c \in Calls |-> "new"]
  /\ req = [c \in Calls |-> NoRequest]
  /\ after = [c \in Calls |-> {}]
  /\ missed = [c \in Calls |-> 0]
  /\ used = [c \in Calls |-> {}]
  /\ saw = [c \in Calls |-> <<>>]
  /\ got = [c \in Calls |-> <<>>]
  /\ pass = [r \in Tickets |-> IF r \in Calls THEN NoPass ELSE FirstPasses[r]]
  /\ row = [r \in Tickets |-> IF r \in Calls THEN "none" ELSE FirstRows[r]]
  /\ dups = [r \in Tickets |-> 0]
  /\ regs = FirstTickets
  /\ stamp = [r \in Tickets |-> IF r \in Calls THEN 0 ELSE FirstStamps[r]]
  /\ open = TRUE /\ staff = Staff /\ room = {} /\ wrote = {}
  /\ shown = Cardinality(Valid)

\* The raw tokens of a ticket that somebody holds: the one that was mailed, and
\* what calls handed out.
Held(r) == {FirstPasses[t].raw : t \in {r} \ Calls}
           \cup {got[c][r] : c \in {d \in Calls : pc[d] = "ok" /\ r \in DOMAIN got[d]}}

Begin(c) ==
  /\ pc[c] = "new"
  /\ \E r \in Requests :
       IF r.op = "scan" /\ ~r.manual
       THEN \E raw \in Held(r.ticket) \ {"null"} : req' = [req EXCEPT ![c] = With(r, "raw", raw)]
       ELSE req' = [req EXCEPT ![c] = r]
  /\ pc' = [pc EXCEPT ![c] = "start"]
  /\ after' = [after EXCEPT ![c] = {d \in Calls : Finished(d)}]
  /\ used' = [used EXCEPT ![c] = {r \in Tickets : pass[r].revoked}]
  /\ UNCHANGED <<missed, saw, got, data>>

At(c, op, label) == pc[c] = label /\ req[c].op = op
Goto(c, label) == pc' = [pc EXCEPT ![c] = label] /\ UNCHANGED <<req, after>>
Skip(c, label) == Goto(c, label) /\ UNCHANGED <<missed, used, saw, got, data>>
\* A write, which every call under way may or may not have seen.
Committed(c) ==
  /\ wrote' = wrote \cup {c}
  /\ missed' = [d \in Calls |-> IF pc[d] = "new" \/ Finished(d) THEN missed[d]
                                ELSE missed[d] + 1]

-----------------------------------------------------------------------------
\* What an operation behind the gate goes on with.
Body == [scan |-> "token", join |-> "join", dashboard |-> "query",
         statistics |-> "query", attendees |-> "query", checkins |-> "query"]

\* The event is read, and, unless the caller owns it or is an ADMIN, who may not
\* scan or list the scans, the assignment; a socket of an ADMIN joins unasked.
ReadEvent(c) ==
  LET u == req[c].user
      trusted == u = Owner \/ (u \in Admins /\ req[c].op \notin {"scan", "checkins"})
  IN  /\ pc[c] \in {"start", "event"} /\ req[c].op \in GatedOps
      /\ Skip(c, CASE req[c].op = "join" /\ u \in Admins -> "join"
                   [] ~open /\ ~(req[c].op = "join" /\ u \in Admins) -> "refused"
                   [] OTHER -> IF trusted \/ pc[c] = "event" THEN Body[req[c].op] ELSE "staff")

\* Mutated form of Assigned: the role decides, not the assignment.
AssignedOnce(u) == u \in Staff

Assigned(u) == u \in staff

\* The assignment; a scan asks for both at once and may see it first.
ReadAssignment(c) ==
  /\ pc[c] = "staff" \/ (At(c, "scan", "start") /\ req[c].user # Owner)
  /\ Skip(c, CASE ~Assigned(req[c].user) -> "refused"
               [] Assigned(req[c].user) /\ pc[c] = "staff" -> Body[req[c].op]
               [] Assigned(req[c].user) /\ pc[c] # "staff" -> "event")

\* removeStaff, as far as the gate is concerned, and deleteEvent
RemoveStaff(c) ==
  /\ At(c, "remove", "start")
  /\ staff' = staff \ {req[c].user} /\ Committed(c) /\ Goto(c, "ok")
  /\ UNCHANGED <<used, saw, got, pass, row, dups, regs, stamp, open, room, shown>>
DeleteEvent(c) ==
  /\ At(c, "delete", "start")
  /\ open' = FALSE /\ Committed(c) /\ Goto(c, "ok")
  /\ UNCHANGED <<used, saw, got, pass, row, dups, regs, stamp, staff, room, shown>>

\* "join:event" once the authorisation has answered, and "leave:event", which
\* waits for nothing and may overtake a join of the same socket
Join(c) ==
  /\ At(c, "join", "join")
  /\ room' = room \cup {c} /\ Goto(c, "ok")
  /\ UNCHANGED <<missed, used, saw, got, pass, row, dups, regs, stamp, open, staff, shown, wrote>>
Leave(c) ==
  /\ At(c, "leave", "start")
  /\ room' = {d \in room : req[d].user # req[c].user} /\ Goto(c, "ok")
  /\ UNCHANGED <<missed, used, saw, got, pass, row, dups, regs, stamp, open, staff, shown, wrote>>

-----------------------------------------------------------------------------
\* scanQr past its lock: the pass whose hash was scanned, or the registration a
\* member of the staff named.
ReadToken(c) ==
  LET r == req[c].ticket IN
  /\ At(c, "scan", "token")
  /\ Skip(c, IF IF req[c].manual THEN r \in regs
                ELSE pass[r].raw = req[c].raw /\ ~pass[r].revoked
             THEN "resolve" ELSE "count")

\* resolveCheckIn, up to its transaction
ResolveCheckIn(c) ==
  LET r == req[c].ticket IN
  /\ At(c, "scan", "resolve")
  /\ IF row[r] = "valid"
     THEN /\ dups' = [dups EXCEPT ![r] = @ + 1] /\ Committed(c) /\ Goto(c, "count")
          /\ UNCHANGED <<used, saw, got, pass, row, regs, stamp, open, staff, room, shown>>
     ELSE Skip(c, IF row[r] = "none" THEN "create" ELSE "restore")

\* The transaction: the row is created, unless another scan did (P2002), or
\* restored by its id whatever it has become; the pass is revoked by its id.
CommitCheckIn(c) ==
  LET r == req[c].ticket IN
  /\ req[c].op = "scan" /\ pc[c] \in {"create", "restore"}
  /\ IF pc[c] = "create" /\ row[r] # "none" THEN Skip(c, "error")
     ELSE /\ row' = [row EXCEPT ![r] = "valid"]
          /\ pass' = IF req[c].manual THEN pass ELSE [pass EXCEPT ![r].revoked = TRUE]
          /\ used' = IF req[c].manual THEN used ELSE [d \in Calls |-> used[d] \cup {r}]
          /\ Committed(c) /\ Goto(c, "count")
          /\ UNCHANGED <<saw, got, dups, regs, stamp, open, staff, room, shown>>

\* Mutated form of Counted: rows that were undone are counted.
CountedEver == {r \in Tickets : row[r] # "none"}

Counted == Valid

\* The count, and its emission to the dashboards (checkin:update)
CountCheckedIn(c) ==
  /\ At(c, "scan", "count")
  /\ saw' = [saw EXCEPT ![c] = [count |-> Cardinality(Counted)]] /\ Goto(c, "emit")
  /\ UNCHANGED <<missed, used, got, data>>
EmitCheckinUpdate(c) ==
  /\ At(c, "scan", "emit")
  /\ shown' = saw[c].count /\ Goto(c, "ok")
  /\ UNCHANGED <<missed, used, saw, got, pass, row, dups, regs, stamp, open, staff, room, wrote>>

\* The count, or its emission, is rejected: that is caught, and the scan answered.
CountFails(c) ==
  /\ At(c, "scan", "count") /\ Skip(c, "ok")

\* undoCheckin: the row is found, then marked on the condition that it is not
\* yet; a revoked pass becomes good again.
UndoCheckin(c) ==
  LET r == req[c].ticket
      there == row[r] = "valid"
  IN  \/ /\ At(c, "undo", "start")
         /\ Skip(c, IF there /\ open THEN "undo" ELSE "notfound")
      \/ /\ At(c, "undo", "undo")
         /\ IF ~there THEN Skip(c, "notfound")
            ELSE /\ row' = [row EXCEPT ![r] = "undone"]
                 /\ pass' = [pass EXCEPT ![r].revoked = FALSE]
                 /\ Committed(c) /\ Goto(c, "ok")
                 /\ UNCHANGED <<used, saw, got, dups, regs, stamp, open, staff, room, shown>>

\* A registration has the time of its insert and is seen when its transaction
\* commits: one that is made on its own gets its pass (generateToken) after
\* that, ...
Insert(c) ==
  /\ req[c].op \in {"register", "import"} /\ pc[c] = "start"
  /\ \E time \in Times : stamp' = [stamp EXCEPT ![c] = time]
  /\ Goto(c, "insert")
  /\ UNCHANGED <<missed, used, saw, got, pass, row, dups, regs, open, staff, room, shown, wrote>>
Register(c) ==
  /\ At(c, "register", "insert")
  /\ regs' = regs \cup {c} /\ Committed(c) /\ Goto(c, "issue")
  /\ UNCHANGED <<used, saw, got, pass, row, dups, stamp, open, staff, room, shown>>
GenerateToken(c) ==
  /\ At(c, "register", "issue")
  /\ pass' = [pass EXCEPT ![c] = [raw |-> c, cipher |-> c, revoked |-> FALSE]]
  /\ got' = [got EXCEPT ![c] = With(<<>>, c, c)] /\ Goto(c, "ok")
  /\ UNCHANGED <<missed, used, saw, row, dups, regs, stamp, open, staff, room, shown, wrote>>

\* ... one that is imported in the same transaction, without a cipher: its raw
\* token is known from the mail only, which may not be wanted, or fail.
ProcessImportFile(c) ==
  /\ At(c, "import", "insert")
  /\ regs' = regs \cup {c}
  /\ pass' = [pass EXCEPT ![c] = [raw |-> c, cipher |-> "none", revoked |-> FALSE]]
  /\ Committed(c) /\ Goto(c, "mail")
  /\ UNCHANGED <<used, saw, got, row, dups, stamp, open, staff, room, shown>>
SendQrIssuedEmail(c) ==
  /\ At(c, "import", "mail")
  /\ got' = [got EXCEPT ![c] = With(<<>>, c, c)] \/ UNCHANGED got
  /\ Goto(c, "ok")
  /\ UNCHANGED <<missed, used, saw, data>>

-----------------------------------------------------------------------------
\* getTicketDetails (one ticket; a member of the staff sees no token) and
\* listMyTickets (all of a holder's tickets, read at once).
TicketsRead(c) == {r \in req[c].tickets \cap regs : pass[r] # NoPass}
GetTicketDetails(c) ==
  \/ /\ At(c, "details", "start")
     /\ Skip(c, CASE ~(req[c].tickets \subseteq regs) -> "notfound"
                  [] req[c].tickets \subseteq regs /\ req[c].user \in Staff -> "ok"
                  [] OTHER -> "pass")
  \/ /\ At(c, "details", "pass")
     /\ saw' = [saw EXCEPT ![c] = [r \in TicketsRead(c) |-> pass[r]]] /\ Goto(c, "recover")
     /\ UNCHANGED <<missed, used, got, data>>
ListMyTickets(c) ==
  /\ At(c, "mine", "start")
  /\ saw' = [saw EXCEPT ![c] = [r \in TicketsRead(c) |-> pass[r]]] /\ Goto(c, "recover")
  /\ UNCHANGED <<missed, used, got, data>>

\* What is handed out for a pass as it was read, when no update is needed.
Readable(p) == p.cipher = p.raw
Hand(c, r, raw) == got' = [got EXCEPT ![c] = With(@, r, raw)]
Left(c) == DOMAIN saw[c] \ DOMAIN got[c]

\* Mutated forms of StillAsRead: the cipher, or the revocation, is not asked for.
NotRevoked(p, was) == ~p.revoked

\* The where clause of the conditional update.
StillAsRead(p, was) == p.cipher = was.cipher /\ ~p.revoked

\* recoverRawToken, up to its conditional update
RecoverRawToken(c) ==
  /\ pc[c] = "recover"
  /\ IF Left(c) = {} THEN Skip(c, "ok")
     ELSE \E r \in Left(c) :
       LET p == saw[c][r]
           kept == Readable(p) \/ p.revoked
           mint == ~kept /\ StillAsRead(pass[r], p)
       IN  /\ IF kept \/ mint
              THEN Hand(c, r, IF mint THEN c ELSE IF Readable(p) THEN p.raw ELSE "null")
              ELSE UNCHANGED got
           /\ pass' = IF mint THEN [pass EXCEPT ![r] = [raw |-> c, cipher |-> c, revoked |-> @.revoked]]
                      ELSE pass
           /\ saw' = IF kept \/ mint THEN saw ELSE [saw EXCEPT ![c][r] = With(@, "lost", TRUE)]
           /\ Goto(c, IF kept \/ mint THEN "recover" ELSE "reload")
           /\ UNCHANGED <<missed, used, row, dups, regs, stamp, open, staff, room, shown, wrote>>

\* Mutated form of Winning: the loser of the race answers without a pass.
NoWinning(p) == "null"

\* What the loser returns: the winner's token.
Winning(p) == IF ~p.revoked /\ Readable(p) THEN p.raw ELSE "null"

\* recoverRawToken after a lost race
ReloadToken(c) ==
  /\ pc[c] = "reload"
  /\ \E r \in Left(c) : "lost" \in DOMAIN saw[c][r] /\ Hand(c, r, Winning(pass[r]))
  /\ Goto(c, "recover")
  /\ UNCHANGED <<missed, used, saw, data>>

GateStep(c) ==
  \/ ReadEvent(c) \/ ReadAssignment(c) \/ RemoveStaff(c) \/ DeleteEvent(c)
  \/ Join(c) \/ Leave(c)
ScanStep(c) ==
  \/ ReadToken(c) \/ ResolveCheckIn(c) \/ CommitCheckIn(c) \/ CountCheckedIn(c)
  \/ EmitCheckinUpdate(c) \/ CountFails(c) \/ UndoCheckin(c)
IssueStep(c) ==
  \/ Insert(c) \/ Register(c) \/ GenerateToken(c) \/ ProcessImportFile(c) \/ SendQrIssuedEmail(c)
PassStep(c) ==
  \/ GetTicketDetails(c) \/ ListMyTickets(c) \/ RecoverRawToken(c) \/ ReloadToken(c)

-----------------------------------------------------------------------------
Handed(c) == {r \in DOMAIN got[c] \cap Tickets : got[c][r] # "null"}

\* A pass that was handed to anybody, by a registration or by any reader, is
\* the one the gate knows: no reader that raced with it has replaced it.  Only
\* one that an import mailed is replaced, once, by a reader of that ticket, who
\* has been handed the new one.
Reads(d) == req[d].op \in {"details", "mine"}
HandedPassesStayGood ==
  \A c \in Calls : \A r \in Handed(c) :
    \/ pass[r].raw = got[c][r]
    \/ /\ req[c].op = "import"
       /\ \E d \in Calls : Reads(d) /\ r \in Handed(d) /\ got[d][r] = pass[r].raw

\* Who asks for a pass and gets none asked while the pass was used: losing the
\* race to replace a legacy token costs nobody the pass.
EmptyHandedOnlyWhenUsed ==
  \A c \in Calls : \A r \in (DOMAIN got[c] \cap Tickets) \ Handed(c) : r \in used[c]

\* A scan that was answered and told the dashboards has left them the number of
\* check-ins, whatever earlier scans and undos had failed to tell, and so it
\* stays while scans that began later check nobody in and nothing is undone:
\* unless another scan or undo ran beside it.
Scans == {c \in Calls : req[c].op = "scan"}
Undisturbed(c) ==
  \A d \in Calls \ {c} :
    req[d].op \in {"scan", "undo"} => d \in after[c] \/ (c \in after[d] /\ d \notin wrote)
LoneScanShowsTheCount ==
  \A c \in Scans :
    pc[c] = "ok" /\ saw[c] # <<>> /\ Undisturbed(c) => shown = Cardinality(Valid)

\* The gate, the reports and the rooms are closed to a member of the staff whose
\* removal was answered before the request (the owner and the ADMINs need no
\* assignment), and to everyone but an ADMIN's socket once the event is deleted:
\* what was read early serves only requests that were already under way.
RemovalClosesTheGate ==
  \A c \in Calls, d \in wrote :
    /\ req[c].op \in GatedOps \cup OwnedOps /\ pc[c] \in {"ok", "error"} /\ d \in after[c]
    /\ \/ req[d].op = "remove" /\ req[d].user = req[c].user /\ req[d].user \notin Admins \cup {Owner}
       \/ req[d].op = "delete"
    => req[c].op = "join" /\ req[c].user \in Admins
=============================================================================
