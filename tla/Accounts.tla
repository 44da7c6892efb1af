------------------------------ MODULE Accounts ------------------------------
(***************************************************************************)
(* Who may do what: the users table, the access tokens that carry a copy   *)
(* of a role, the administrators' invites and the staff assignments of an  *)
(* event.  A call reads a row, awaits, and writes by id or by address what *)
(* it decided on that reading; several calls run at once and any of them   *)
(* may stop for ever between two steps (its process died).                 *)
(*                                                                         *)
(* An invite and an assignment are named by the call that made them.       *)
(* Passwords, mails and the contents of the audit rows are left out; an    *)
(* access token does not expire here, so its copy of the role may be as    *)
(* stale as can be.                                                        *)
(***************************************************************************)
EXTENDS Naturals, FiniteSets

CONSTANTS
  Addresses,      \* the e-mail addresses, the key of a user
  Events,
  OwnerOf,        \* the user an event belongs to
  Calls,          \* the requests of one behaviour, each made once
  Requests,       \* what a call may ask
  Installations   \* the databases a behaviour may start from

VARIABLES user, tokens, invites, assigned, founded, pc, req, saw, after

data == <<user, tokens, invites, assigned, founded>>
vars == <<data, pc, req, saw, after>>

Roles == {"ATTENDEE", "ORGANIZER", "STAFF", "ADMIN"}
SignUpRoles == Roles \ {"ADMIN"}
Statuses == {"ACTIVE", "INACTIVE", "SUSPENDED"}
Rows == [role : Roles, status : Statuses, deleted : BOOLEAN]
NoRow == [role |-> "none", status |-> "none", deleted |-> FALSE]

New(role) == [role |-> role, status |-> "ACTIVE", deleted |-> FALSE]

Ops == {"login", "register", "google", "bootstrap", "invite", "accept",
        "promote", "deactivate", "assign", "remove"}
RequestType ==
  [op : Ops, actor : Addresses, target : Addresses, event : Events,
   role : SignUpRoles, about : Calls \cup {"none"}]
NoRequest == [op |-> "none"]

ASSUME OwnersHaveAddresses == OwnerOf \in [Events -> Addresses]
ASSUME RequestsAreTyped == Requests \subseteq RequestType
ASSUME InstallationsAreTyped ==
  Installations \subseteq [user : [Addresses -> Rows \cup {NoRow}],
                           tokens : SUBSET (Addresses \X Roles)]

Exists(row) == row # NoRow
Live(row) == Exists(row) /\ ~row.deleted
Usable(row) == Live(row) /\ row.status = "ACTIVE"
Admin(row) == Live(row) /\ row.role = "ADMIN"
Finished(c) == pc[c] \in {"done", "refused"}

\* A token was made from the row of a live user, and nothing but the overlaps
\* of StaleWrite below takes the role or the row from an administrator.
ASSUME AdministratorsAreReal ==
  \A i \in Installations :
    /\ \A a \in Addresses : <<a, "ADMIN">> \in i.tokens => Admin(i.user[a])
    /\ (\E a \in Addresses : i.user[a].role = "ADMIN") =>
         \E a \in Addresses : Usable(i.user[a]) /\ Admin(i.user[a])

(***************************************************************************)
(* Admission to a handler: requireAuth reads the row of the token's user,  *)
(* requireRole believes the role written in the token.                     *)
(***************************************************************************)
RequireAuth(a) == Usable(user[a])
\* Mutated form of RequireRole: any token will do.
RequireAnyRole(a, role) == \E r \in Roles : <<a, r>> \in tokens
RequireRole(a, role) == <<a, role>> \in tokens
Admitted(r) ==
  /\ r.op \in {"invite", "promote", "deactivate"} =>
       RequireAuth(r.actor) /\ RequireRole(r.actor, "ADMIN")
  /\ r.op \in {"assign", "remove"} =>
       RequireAuth(r.actor) /\ RequireRole(r.actor, "ORGANIZER")
  /\ r.op = "accept" => r.about \in invites

Init ==
  /\ \E i \in Installations :
       /\ user = i.user
       /\ tokens = i.tokens
       /\ founded = \/ \E a \in Addresses : i.user[a].role = "ADMIN"
                    \/ \E a \in Addresses : <<a, "ADMIN">> \in i.tokens
  /\ invites = {}
  /\ assigned = {}
  /\ pc = [c \in Calls |-> "new"]
  /\ req = [c \in Calls |-> NoRequest]
  /\ saw = [c \in Calls |-> NoRow]
  /\ after = [c \in Calls |-> {}]

Begin(c) ==
  \E r \in Requests :
    /\ pc[c] = "new"
    /\ Admitted(r)
    /\ req' = [req EXCEPT ![c] = IF r.op = "accept"
                                 THEN [r EXCEPT !.target = req[r.about].target]
                                 ELSE r]
    /\ pc' = [pc EXCEPT ![c] = "start"]
    /\ after' = [after EXCEPT ![c] = {d \in Calls : Finished(d)}]
    /\ UNCHANGED <<data, saw>>

(***************************************************************************)
(* The pieces a handler is made of.                                        *)
(***************************************************************************)
At(c, op, label) == pc[c] = label /\ req[c].op = op
Row(c) == user[req[c].target]
Goto(c, label) == pc' = [pc EXCEPT ![c] = label] /\ UNCHANGED <<req, after>>
Look(c, label) ==
  Goto(c, label) /\ saw' = [saw EXCEPT ![c] = Row(c)] /\ UNCHANGED data
Skip(c, label) == Goto(c, label) /\ UNCHANGED <<data, saw>>
Store(c, row) == user' = [user EXCEPT ![req[c].target] = row]

\* An insert meets the unique index on the address, an update by id the row
\* as it is by then.
Insert(c, row) ==
  IF Exists(Row(c)) THEN Skip(c, "refused")
  ELSE Store(c, row) /\ Goto(c, "done") /\ UNCHANGED saw

\* The tokens are made from the row that was written.
GenerateTokens(c) ==
  tokens' = IF pc'[c] = "done"
            THEN tokens \cup {<<req[c].target, user'[req[c].target].role>>} ELSE tokens

-----------------------------------------------------------------------------
\* authenticateUser; the tokens are made from the row it returns
Login(c) ==
  /\ At(c, "login", "start")
  /\ tokens' = IF Usable(Row(c))
               THEN tokens \cup {<<req[c].target, Row(c).role>>} ELSE tokens
  /\ Goto(c, IF Usable(Row(c)) THEN "done" ELSE "refused")
  /\ UNCHANGED <<user, invites, assigned, founded, saw>>

\* registerUser: a row that was deleted is given the role asked for
Register(c) ==
  \/ /\ At(c, "register", "start")
     /\ Look(c, IF Live(Row(c)) THEN "refused" ELSE "write")
  \/ /\ At(c, "register", "write")
     /\ IF Exists(saw[c])
        THEN /\ Store(c, [Row(c) EXCEPT !.role = req[c].role, !.deleted = FALSE])
             /\ Goto(c, "done") /\ UNCHANGED saw
        ELSE Insert(c, New(req[c].role))
     /\ GenerateTokens(c)
     /\ UNCHANGED <<invites, assigned, founded>>

\* findOrCreateGoogleUser
\* Mutated form of GoogleUpdate: every sign-in reactivates.
GoogleAlwaysRevives(c) == [Row(c) EXCEPT !.status = "ACTIVE", !.deleted = FALSE]
GoogleUpdate(c) ==
  IF saw[c].deleted THEN [Row(c) EXCEPT !.status = "ACTIVE", !.deleted = FALSE]
  ELSE Row(c)
Google(c) ==
  \/ /\ At(c, "google", "start")
     /\ Look(c, IF Row(c).status = "SUSPENDED" THEN "refused" ELSE "write")
  \/ /\ At(c, "google", "write")
     /\ IF Exists(saw[c])
        THEN Store(c, GoogleUpdate(c)) /\ Goto(c, "done") /\ UNCHANGED saw
        ELSE Insert(c, New(req[c].role))
     /\ GenerateTokens(c)
     /\ UNCHANGED <<invites, assigned, founded>>

\* bootstrapFirstAdmin: no administrator, then the row, then the write
BootstrapChecks(c) ==
  /\ At(c, "bootstrap", "start")
  /\ Skip(c, IF \E a \in Addresses : Admin(user[a]) THEN "refused" ELSE "find")
BootstrapRow(c) ==
  [role |-> "ADMIN", status |-> "ACTIVE", deleted |-> ~saw[c].deleted /\ Row(c).deleted]
BootstrapWrites(c) ==
  \/ /\ At(c, "bootstrap", "find")
     /\ Look(c, "write")
  \/ /\ At(c, "bootstrap", "write")
     /\ IF Exists(saw[c])
        THEN /\ Store(c, BootstrapRow(c))
             /\ Goto(c, "done") /\ UNCHANGED saw
        ELSE Insert(c, New("ADMIN"))
     /\ founded' = (founded \/ pc'[c] = "done")
     /\ UNCHANGED <<tokens, invites, assigned>>

\* sendAdminInvite: the token is stored and mailed, or taken back if the mail
\* fails; if the taking back fails too, the inviter is told that it failed and
\* the token stays.
Invite(c) ==
  \/ /\ At(c, "invite", "start")
     /\ Look(c, IF Live(Row(c)) THEN "refused" ELSE "write")
  \/ /\ At(c, "invite", "write")
     /\ \E mailed, deleted \in BOOLEAN :
          /\ invites' = IF ~mailed /\ deleted THEN invites ELSE invites \cup {c}
          /\ Goto(c, IF mailed THEN "done" ELSE "refused")
     /\ UNCHANGED <<user, tokens, assigned, founded, saw>>

\* acceptAdminInvite, begun with a token that redis still held
Accept(c) ==
  \/ /\ At(c, "accept", "start")
     /\ Look(c, IF Live(Row(c)) THEN "refused" ELSE "write")
  \/ /\ At(c, "accept", "write")
     /\ IF Exists(saw[c])
        THEN Store(c, New("ADMIN")) /\ Goto(c, "spend") /\ UNCHANGED saw
        ELSE IF Exists(Row(c)) THEN Skip(c, "refused")
        ELSE Store(c, New("ADMIN")) /\ Goto(c, "spend") /\ UNCHANGED saw
     /\ UNCHANGED <<tokens, invites, assigned, founded>>
  \/ /\ At(c, "accept", "spend")
     /\ invites' = invites \ {req[c].about}
     /\ Goto(c, "done")
     /\ UNCHANGED <<user, tokens, assigned, founded, saw>>

\* promoteToAdmin
Promote(c) ==
  \/ /\ At(c, "promote", "start")
     /\ IF req[c].target = req[c].actor THEN Skip(c, "refused")
        ELSE Look(c, IF Live(Row(c)) THEN "write" ELSE "refused")
  \/ /\ At(c, "promote", "write")
     /\ Store(c, [Row(c) EXCEPT !.role = "ADMIN"])
     /\ Goto(c, "done")
     /\ UNCHANGED <<tokens, invites, assigned, founded, saw>>

\* Mutated form of Deactivate: oneself too.
DeactivateAnybody(c) ==
  \/ /\ At(c, "deactivate", "start")
     /\ Look(c, IF Live(Row(c)) THEN "write" ELSE "refused")
  \/ /\ At(c, "deactivate", "write")
     /\ Store(c, [Row(c) EXCEPT !.status = "INACTIVE"])
     /\ Goto(c, "done")
     /\ UNCHANGED <<tokens, invites, assigned, founded, saw>>

\* deactivateUser
Deactivate(c) ==
  \/ /\ At(c, "deactivate", "start")
     /\ IF req[c].target = req[c].actor THEN Skip(c, "refused")
        ELSE Look(c, IF ~Live(Row(c)) THEN "refused"
                     ELSE IF Row(c).status = "INACTIVE" THEN "done" ELSE "write")
  \/ /\ At(c, "deactivate", "write")
     /\ Store(c, [Row(c) EXCEPT !.status = "INACTIVE"])
     /\ Goto(c, "done")
     /\ UNCHANGED <<tokens, invites, assigned, founded, saw>>

-----------------------------------------------------------------------------
(***************************************************************************)
(* assignStaff.  The row read at the start, or made when there is none, is *)
(* what every later step goes by.                                          *)
(***************************************************************************)
VerifyEventOwnership(c) == OwnerOf[req[c].event] = req[c].actor
Pair(c) == <<req[c].event, req[c].target>>
Taken(c) == \E d \in assigned : Pair(d) = Pair(c)

AssignReads(c) ==
  /\ At(c, "assign", "start")
  /\ IF VerifyEventOwnership(c)
     THEN Look(c, IF Exists(Row(c)) THEN "check" ELSE "create")
     ELSE Skip(c, "refused")

\* A lost race for the address (P2002) is answered by reading the row again.
AssignCreates(c) ==
  \/ /\ At(c, "assign", "create")
     /\ IF Exists(Row(c)) THEN Skip(c, "reread")
        ELSE /\ Store(c, New("STAFF"))
             /\ saw' = [saw EXCEPT ![c] = New("STAFF")]
             /\ Goto(c, "check")
             /\ UNCHANGED <<tokens, invites, assigned, founded>>
  \/ /\ At(c, "assign", "reread")
     /\ Look(c, "check")

\* Mutated form of AssignChecks: an attendee keeps that role.
AssignKeepsRole(c) ==
  /\ At(c, "assign", "check")
  /\ Skip(c, IF ~Taken(c) /\ saw[c].role \in {"ATTENDEE", "STAFF"}
              THEN "insert" ELSE "refused")

AssignChecks(c) ==
  \/ /\ At(c, "assign", "check")
     /\ Skip(c, CASE Taken(c)                              -> "refused"
                  [] ~Taken(c) /\ saw[c].role = "ATTENDEE" -> "promote"
                  [] ~Taken(c) /\ saw[c].role = "STAFF"    -> "insert"
                  [] OTHER                                 -> "refused")
  \/ /\ At(c, "assign", "promote")
     /\ Store(c, [Row(c) EXCEPT !.role = "STAFF"])
     /\ Goto(c, "insert")
     /\ UNCHANGED <<tokens, invites, assigned, founded, saw>>

\* One transaction: the assignment, unique for its event and user, and its
\* audit row.
AssignInserts(c) ==
  /\ At(c, "assign", "insert")
  /\ assigned' = IF Taken(c) THEN assigned ELSE assigned \cup {c}
  /\ Goto(c, IF Taken(c) THEN "refused" ELSE "done")
  /\ UNCHANGED <<user, tokens, invites, founded, saw>>

\* removeStaff: the assignment by its id, then a delete that may come too late
Remove(c) ==
  \/ /\ At(c, "remove", "start")
     /\ Skip(c, IF /\ VerifyEventOwnership(c)
                   /\ req[c].about \in assigned
                   /\ req[req[c].about].event = req[c].event
                THEN "delete" ELSE "refused")
  \/ /\ At(c, "remove", "delete")
     /\ assigned' = assigned \ {req[c].about}
     /\ Goto(c, IF req[c].about \in assigned THEN "done" ELSE "refused")
     /\ UNCHANGED <<user, tokens, invites, founded, saw>>

Next ==
  \E c \in Calls :
    \/ Begin(c) \/ Login(c) \/ Register(c) \/ Google(c)
    \/ BootstrapChecks(c) \/ BootstrapWrites(c)
    \/ Invite(c) \/ Accept(c) \/ Promote(c) \/ Deactivate(c)
    \/ AssignReads(c) \/ AssignCreates(c) \/ AssignChecks(c) \/ AssignInserts(c)
    \/ Remove(c)

Spec == Init /\ [][Next]_vars

-----------------------------------------------------------------------------
Labels == {"new", "start", "find", "write", "spend", "create", "reread",
           "check", "promote", "insert", "delete", "done", "refused"}

\* Every variable has its type, and a call that has begun has a request.
TypeOK ==
  /\ user \in [Addresses -> Rows \cup {NoRow}]
  /\ tokens \subseteq Addresses \X Roles
  /\ invites \subseteq Calls
  /\ assigned \subseteq Calls
  /\ founded \in BOOLEAN
  /\ pc \in [Calls -> Labels]
  /\ req \in [Calls -> RequestType \cup {NoRequest}]
  /\ saw \in [Calls -> Rows \cup {NoRow}]
  /\ after \in [Calls -> SUBSET Calls]
  /\ \A c \in Calls : pc[c] # "new" => req[c] \in RequestType

\* The role is handed down only from above: as long as no administrator was
\* there from the start and the bootstrap script has made none, there is no
\* administrator, no token that says so and no invite to become one, however
\* sign-ups, assignments and reactivations interleave.
AdminsHaveRoot ==
  \/ founded
  \/ /\ \A a \in Addresses : user[a].role # "ADMIN" /\ <<a, "ADMIN">> \notin tokens
     /\ invites = {}

Answered(op) == {c \in Calls : req[c].op = op /\ pc[c] = "done"}

\* Whoever is assigned to an event has a role the gate lets in, although the
\* role is stored by a step of its own, from a row read earlier, and other
\* calls write it too; only somebody whose deleted account was registered
\* afresh may have lost it.
AssignedAreStaff ==
  \A c \in assigned :
    \/ Row(c).role \in {"STAFF", "ADMIN"}
    \/ \E d \in Answered("register") : req[d].target = req[c].target /\ saw[d].deleted

Overlap(c, d) == c \notin after[d] /\ d \notin after[c]
MakeAdmins == {"promote", "bootstrap", "accept"}
StaleWrite == \E c, d \in Calls :
  /\ \/ /\ req[c].op = "assign" /\ saw[c].role = "ATTENDEE"
        /\ req[d].op \in MakeAdmins
     \/ /\ req[c].op = "register" /\ saw[c].deleted
        /\ req[d].op \in MakeAdmins \cup {"google"}
  /\ req[d].target = req[c].target /\ Overlap(c, d)

\* Once there is an administrator who can sign in there is one for ever,
\* unless two deactivations ran at once (each passed requireAuth before the
\* other's update) or a role was stored over the administrator's by a call
\* that had read the row before: a staff assignment that saw an attendee, or a
\* registration that saw a deleted user, overlapping the making of an
\* administrator (Google's reactivation of a deleted one included).
LockoutNeedsOverlap ==
  founded /\ ~(\E a \in Addresses : Usable(user[a]) /\ Admin(user[a])) =>
    \/ StaleWrite
    \/ \E c, d \in Calls : /\ c # d /\ Overlap(c, d)
                           /\ req[c].op = "deactivate" /\ req[d].op = "deactivate"

\* An account that is not active becomes so only through the bootstrap script
\* or through a reactivation that had read it while it was deleted: Google
\* sign-in never lifts a suspension, and of an account that was not deleted it
\* never undoes a deactivation, however late it writes.
DeactivationSticks ==
  [][\A a \in Addresses :
       /\ user[a].status \in {"INACTIVE", "SUSPENDED"}
       /\ user'[a].status = "ACTIVE"
       => \E c \in Calls :
            /\ pc[c] # "new" /\ pc'[c] # pc[c] /\ req[c].target = a
            /\ \/ req[c].op = "bootstrap"
               \/ req[c].op = "accept" /\ saw[c].deleted
               \/ /\ req[c].op = "google" /\ saw[c].deleted
                  /\ saw[c].status # "SUSPENDED"]_vars

=============================================================================
