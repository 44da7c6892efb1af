--------------------------- MODULE AccountsProofs ---------------------------
(***************************************************************************)
(* Type correctness of Accounts, and that the role of an administrator is  *)
(* handed down from administrators only, for any addresses, events,        *)
(* databases to start from and calls.                                      *)
(***************************************************************************)
EXTENDS Accounts, TLAPS

\* The operations that an administrator starts, or the holder of an invitation.
FromAdmins == {"invite", "accept", "promote", "deactivate"}

\* A row that was seen never goes away, so what updates by id has a row to
\* update; an invitation names a call that has begun.
SeenStays ==
  \A c \in Calls :
    /\ saw[c] # NoRow => pc[c] # "new" /\ user[req[c].target] # NoRow
    /\ pc[c] = "write" /\ req[c].op \in {"promote", "deactivate"} => saw[c] # NoRow
    /\ pc[c] = "promote" => saw[c] # NoRow
    /\ c \in invites => pc[c] # "new"

\* Before there is an administrator nobody has what it takes to make one.
NoAdminYet ==
  /\ \A a \in Addresses : user[a].role # "ADMIN" /\ <<a, "ADMIN">> \notin tokens
  /\ invites = {}
  /\ \A c \in Calls : pc[c] # "new" => req[c].op \notin FromAdmins
Rooted == founded \/ NoAdminYet

IInv == TypeOK /\ SeenStays /\ Rooted

-----------------------------------------------------------------------------
LEMMA InitHolds == Init => IInv
  <1> SUFFICES ASSUME Init PROVE IInv
    OBVIOUS
  <1>1. PICK i \in Installations :
          /\ user = i.user /\ tokens = i.tokens
          /\ founded = \/ \E a \in Addresses : i.user[a].role = "ADMIN"
                       \/ \E a \in Addresses : <<a, "ADMIN">> \in i.tokens
    BY DEF Init
  <1>2. user \in [Addresses -> Rows \cup {NoRow}] /\ tokens \subseteq Addresses \X Roles
    BY <1>1, InstallationsAreTyped
  <1>3. founded \in BOOLEAN
    BY <1>1
  <1>4. TypeOK
    BY <1>2, <1>3 DEF Init, TypeOK, Labels
  <1>5. SeenStays
    BY DEF Init, SeenStays
  <1>6. Rooted
    BY <1>1 DEF Init, Rooted, NoAdminYet
  <1> QED
    BY <1>4, <1>5, <1>6 DEF IInv

LEMMA BeginKeeps == ASSUME NEW c \in Calls, IInv, Begin(c) PROVE IInv'
  <1>1. PICK r \in Requests :
          /\ pc[c] = "new" /\ Admitted(r)
          /\ req' = [req EXCEPT ![c] = IF r.op = "accept" THEN [r EXCEPT !.target = req[r.about].target]
                                       ELSE r]
          /\ pc' = [pc EXCEPT ![c] = "start"]
          /\ after' = [after EXCEPT ![c] = {d \in Calls : Finished(d)}]
          /\ UNCHANGED <<data, saw>>
    BY DEF Begin
  <1>2. r \in RequestType
    BY RequestsAreTyped
  <1>3. r.op = "accept" => req[r.about] \in RequestType
    BY <1>1 DEF Admitted, IInv, SeenStays, TypeOK
  <1>4. req'[c] \in RequestType /\ req'[c].op = r.op /\ req' \in [Calls -> RequestType \cup {NoRequest}]
    BY <1>1, <1>2, <1>3 DEF IInv, TypeOK, RequestType
  <1>5. \A d \in Calls \ {c} : req'[d] = req[d] /\ pc'[d] = pc[d]
    BY <1>1 DEF IInv, TypeOK
  <1>6. TypeOK'
    BY <1>1, <1>4, <1>5 DEF IInv, TypeOK, data, Labels, Finished
  <1>7. SeenStays'
    BY <1>1, <1>5 DEF IInv, TypeOK, SeenStays, data
  <1>8. Rooted'
    <2>1. ~founded => r.op \notin FromAdmins
      BY <1>1, <1>2 DEF IInv, Rooted, NoAdminYet, Admitted, RequireRole, FromAdmins, RequestType
    <2> QED
      BY <2>1, <1>1, <1>4, <1>5 DEF IInv, TypeOK, Rooted, NoAdminYet, data
  <1> QED
    BY <1>6, <1>7, <1>8 DEF IInv

(***************************************************************************)
(* Any other step moves its call to a label and stores at most one row.    *)
(***************************************************************************)
Stores(c, row) ==
  /\ row \in Rows /\ Store(c, row)
  /\ row.role = "ADMIN" => Row(c).role = "ADMIN" \/ founded' \/ req[c].op \in FromAdmins

Legal(c, label) ==
  /\ pc[c] # "new" /\ label \in Labels \ {"new"}
  /\ pc' = [pc EXCEPT ![c] = label] /\ UNCHANGED <<req, after>>
  /\ UNCHANGED user \/ \E row : Stores(c, row)
  /\ UNCHANGED saw \/ saw' = [saw EXCEPT ![c] = user'[req[c].target]]
  /\ \/ label = "write" /\ req[c].op \in {"promote", "deactivate"}
     \/ label = "promote"
     => saw'[c] # NoRow
  /\ tokens' \subseteq tokens \cup {<<req[c].target, user'[req[c].target].role>>}
  /\ tokens' = tokens \/ user'[req[c].target] # NoRow
  /\ invites' \subseteq invites \cup {d \in {c} : req[c].op = "invite"}
  /\ assigned' \subseteq assigned \cup {c}
  /\ founded' \in BOOLEAN /\ (founded => founded')

LEMMA LegalKeeps == ASSUME NEW c \in Calls, NEW label, IInv, Legal(c, label) PROVE IInv'
  <1>1. /\ req[c] \in RequestType /\ req[c].target \in Addresses
        /\ req' = req /\ pc'[c] = label /\ \A d \in Calls \ {c} : pc'[d] = pc[d]
    BY DEF Legal, IInv, TypeOK, RequestType
  <1>2. user' \in [Addresses -> Rows \cup {NoRow}]
    BY <1>1 DEF Legal, Stores, Store, IInv, TypeOK
  <1>3. tokens' \subseteq Addresses \X Roles
    BY <1>1, <1>2 DEF Legal, IInv, TypeOK, Rows
  <1>4. saw' \in [Calls -> Rows \cup {NoRow}]
    BY <1>1, <1>2 DEF Legal, IInv, TypeOK
  <1>5. TypeOK'
    BY <1>1, <1>2, <1>3, <1>4 DEF Legal, IInv, TypeOK
  <1>6. \A a \in Addresses : user[a] # NoRow => user'[a] # NoRow
    BY <1>1 DEF Legal, Stores, Store, IInv, TypeOK, Rows, NoRow, Roles
  <1>7. SeenStays'
    <2> SUFFICES ASSUME NEW d \in Calls
                 PROVE  /\ saw'[d] # NoRow => pc'[d] # "new" /\ user'[req'[d].target] # NoRow
                        /\ pc'[d] = "write" /\ req'[d].op \in {"promote", "deactivate"} => saw'[d] # NoRow
                        /\ pc'[d] = "promote" => saw'[d] # NoRow
                        /\ d \in invites' => pc'[d] # "new"
      BY DEF SeenStays
    <2>1. CASE d = c
      BY <2>1, <1>1, <1>6 DEF Legal, IInv, TypeOK, SeenStays
    <2>2. CASE d # c
      <3>1. pc[d] # "new" => req[d].target \in Addresses
        BY DEF IInv, TypeOK, RequestType
      <3> QED
        BY <3>1, <2>2, <1>1, <1>6 DEF Legal, IInv, TypeOK, SeenStays
    <2> QED
      BY <2>1, <2>2
  <1>8. Rooted'
    <2> SUFFICES ASSUME ~founded' PROVE NoAdminYet'
      BY DEF Rooted
    <2>1. NoAdminYet /\ req[c].op \notin FromAdmins
      BY DEF Legal, IInv, Rooted, NoAdminYet
    <2>2. \A a \in Addresses : user'[a].role # "ADMIN"
      BY <1>1, <2>1 DEF Legal, Stores, Store, IInv, TypeOK, NoAdminYet, Row
    <2>3. \A a \in Addresses : <<a, "ADMIN">> \notin tokens'
      BY <1>1, <2>1, <2>2 DEF Legal, NoAdminYet
    <2>4. invites' = {}
      BY <2>1 DEF Legal, NoAdminYet, FromAdmins
    <2> QED
      BY <1>1, <2>1, <2>2, <2>3, <2>4 DEF NoAdminYet
  <1> QED
    BY <1>5, <1>7, <1>8 DEF IInv
-----------------------------------------------------------------------------
LEMMA TargetTyped ==
  ASSUME NEW c \in Calls, IInv, pc[c] # "new"
  PROVE  /\ req[c] \in RequestType /\ req[c].target \in Addresses /\ req[c].role \in SignUpRoles
         /\ Row(c) \in Rows \cup {NoRow} /\ (Exists(Row(c)) => Row(c) \in Rows)
         /\ Exists(saw[c]) => Exists(Row(c)) /\ Row(c) \in Rows
  BY DEF IInv, TypeOK, SeenStays, RequestType, Row, Exists

\* Steps that write no row, and may read one.
LEMMA SkipIsLegal ==
  ASSUME NEW c \in Calls, IInv, pc[c] # "new", NEW label \in Labels \ {"new"},
         Skip(c, label) \/ Look(c, label) \/ (Goto(c, label) /\ UNCHANGED <<user, tokens, founded, saw>>),
         invites' \subseteq invites \cup {d \in {c} : req[c].op = "invite"},
         assigned' \subseteq assigned \cup {c},
         (label = "write" /\ req[c].op \in {"promote", "deactivate"}) \/ label = "promote" => saw'[c] # NoRow
  PROVE  Legal(c, label)
  <1>1. saw' = saw \/ (saw' = [saw EXCEPT ![c] = user'[req[c].target]] /\ user' = user)
    BY TargetTyped DEF Skip, Look, Goto, data, Row
  <1>2. UNCHANGED <<user, tokens, founded>> /\ founded \in BOOLEAN
    BY DEF Skip, Look, Goto, data, IInv, TypeOK
  <1> QED
    BY <1>1, <1>2 DEF Skip, Look, Goto, Legal

\* Steps that write a row.
LEMMA StoreIsLegal ==
  ASSUME NEW c \in Calls, IInv, pc[c] # "new", NEW label \in Labels \ {"new", "write", "promote"},
         NEW row, Stores(c, row), Goto(c, label),
         UNCHANGED saw \/ saw' = [saw EXCEPT ![c] = user'[req[c].target]],
         UNCHANGED <<invites, assigned>>,
         tokens' \subseteq tokens \cup {<<req[c].target, user'[req[c].target].role>>},
         founded' \in BOOLEAN, founded => founded'
  PROVE  Legal(c, label)
  <1>1. user'[req[c].target] # NoRow
    BY TargetTyped DEF Stores, Store, Rows, NoRow, Roles, IInv, TypeOK
  <1> QED
    BY <1>1 DEF Goto, Legal

\* Rows that are made or changed.
LEMMA NewRow == ASSUME NEW role \in Roles PROVE New(role) \in Rows /\ New(role).role = role
  BY DEF New, Rows, Statuses

LEMMA RoleChange ==
  ASSUME NEW row \in Rows, NEW role \in Roles
  PROVE  [row EXCEPT !.role = role] \in Rows /\ [row EXCEPT !.role = role].role = role
  BY DEF Rows

LEMMA StatusChange ==
  ASSUME NEW row \in Rows, NEW status \in Statuses
  PROVE  [row EXCEPT !.status = status] \in Rows /\ [row EXCEPT !.status = status].role = row.role
  BY DEF Rows

LEMMA Undeleted ==
  ASSUME NEW row \in Rows
  PROVE  [row EXCEPT !.deleted = FALSE] \in Rows /\ [row EXCEPT !.deleted = FALSE].role = row.role
  BY DEF Rows

LEMMA InsertIsLegal ==
  ASSUME NEW c \in Calls, IInv, pc[c] # "new", NEW role \in Roles, Insert(c, New(role)),
         UNCHANGED <<invites, assigned>>, founded' \in BOOLEAN, founded => founded',
         tokens' = tokens \/ (tokens' = tokens \cup {<<req[c].target, user'[req[c].target].role>>}
                             /\ pc'[c] = "done"),
         role = "ADMIN" => founded' \/ pc'[c] # "done"
  PROVE  \E label : Legal(c, label)
  <1>1. pc'[c] # "done" \/ pc' = [pc EXCEPT ![c] = "done"]
    BY DEF Insert, Skip, Goto, IInv, TypeOK
  <1>2. CASE Exists(Row(c))
    <2>1. Skip(c, "refused") /\ pc'[c] = "refused"
      BY <1>2 DEF Insert, Skip, Goto, IInv, TypeOK
    <2> QED
      BY <2>1, SkipIsLegal DEF Labels
  <1>3. CASE ~Exists(Row(c))
    <2>1. Store(c, New(role)) /\ Goto(c, "done") /\ UNCHANGED saw /\ pc'[c] = "done"
      BY <1>3 DEF Insert, Goto, IInv, TypeOK
    <2>2. Stores(c, New(role))
      BY <2>1, NewRow DEF Stores
    <2> QED
      BY <2>1, <2>2, StoreIsLegal DEF Labels
  <1> QED
    BY <1>2, <1>3

LEMMA LoginIsLegal == ASSUME NEW c \in Calls, IInv, Login(c) PROVE \E label : Legal(c, label)
  <1>1. PICK label \in {"done", "refused"} : Goto(c, label)
    BY DEF Login
  <1>2. pc[c] # "new" /\ UNCHANGED <<user, invites, assigned, founded, saw>>
    BY DEF Login, At
  <1>3. tokens' = tokens \/ (Usable(Row(c)) /\ tokens' = tokens \cup {<<req[c].target, Row(c).role>>})
    BY DEF Login
  <1>4. Row(c) = user'[req[c].target]
    BY <1>2 DEF Row
  <1>5. founded' \in BOOLEAN
    BY <1>2 DEF IInv, TypeOK
  <1> QED
    BY <1>1, <1>2, <1>3, <1>4, <1>5 DEF Legal, Goto, Labels, Usable, Live, Exists

LEMMA RegisterIsLegal == ASSUME NEW c \in Calls, IInv, Register(c) PROVE \E label : Legal(c, label)
  <1>1. pc[c] # "new" /\ req[c].op = "register"
    BY DEF Register, At
  <1>2. req[c].role \in Roles /\ req[c].role # "ADMIN"
    BY <1>1, TargetTyped DEF SignUpRoles
  <1>3. CASE At(c, "register", "start")
    <2>1. PICK label \in {"refused", "write"} : Look(c, label)
      BY <1>3 DEF Register, At
    <2> QED
      BY <1>1, <2>1, SkipIsLegal DEF Look, data, Labels
  <1>4. CASE At(c, "register", "write") /\ Exists(saw[c])
    <2> DEFINE row == [Row(c) EXCEPT !.role = req[c].role, !.deleted = FALSE]
    <2>1. row \in Rows /\ row.role # "ADMIN"
      BY <1>1, <1>2, <1>4, TargetTyped, RoleChange, Undeleted
    <2>2. /\ Store(c, row) /\ Goto(c, "done") /\ UNCHANGED <<saw, invites, assigned, founded>>
          /\ tokens' \subseteq tokens \cup {<<req[c].target, user'[req[c].target].role>>}
      BY <1>4 DEF Register, At, GenerateTokens
    <2>3. Stores(c, row)
      BY <2>1, <2>2 DEF Stores
    <2>4. founded' \in BOOLEAN
      BY <2>2 DEF IInv, TypeOK
    <2> QED
      BY <1>1, <2>2, <2>3, <2>4, StoreIsLegal DEF Labels
  <1>5. CASE At(c, "register", "write") /\ ~Exists(saw[c])
    <2>1. /\ Insert(c, New(req[c].role)) /\ UNCHANGED <<invites, assigned, founded>>
          /\ tokens' = tokens \/ (tokens' = tokens \cup {<<req[c].target, user'[req[c].target].role>>}
                                 /\ pc'[c] = "done")
      BY <1>5 DEF Register, At, GenerateTokens
    <2>2. founded' \in BOOLEAN
      BY <2>1 DEF IInv, TypeOK
    <2> QED
      BY <1>1, <1>2, <2>1, <2>2, InsertIsLegal
  <1> QED
    BY <1>3, <1>4, <1>5 DEF Register

LEMMA GoogleIsLegal == ASSUME NEW c \in Calls, IInv, Google(c) PROVE \E label : Legal(c, label)
  <1>1. pc[c] # "new" /\ req[c].op = "google"
    BY DEF Google, At
  <1>2. req[c].role \in Roles /\ req[c].role # "ADMIN"
    BY <1>1, TargetTyped DEF SignUpRoles
  <1>3. CASE At(c, "google", "start")
    <2>1. PICK label \in {"refused", "write"} : Look(c, label)
      BY <1>3 DEF Google, At
    <2> QED
      BY <1>1, <2>1, SkipIsLegal DEF Look, data, Labels
  <1>4. CASE At(c, "google", "write")
    <2>1. /\ UNCHANGED <<invites, assigned, founded>> /\ founded' \in BOOLEAN
          /\ tokens' = tokens \/ (tokens' = tokens \cup {<<req[c].target, user'[req[c].target].role>>}
                                 /\ pc'[c] = "done")
      BY <1>4 DEF Google, At, GenerateTokens, IInv, TypeOK
    <2>2. CASE Exists(saw[c])
      <3>1. GoogleUpdate(c) \in Rows /\ GoogleUpdate(c).role = Row(c).role
        BY <1>1, <2>2, TargetTyped, StatusChange, Undeleted DEF GoogleUpdate, Statuses
      <3>2. Store(c, GoogleUpdate(c)) /\ Goto(c, "done") /\ UNCHANGED saw
        BY <1>4, <2>2 DEF Google, At
      <3>3. Stores(c, GoogleUpdate(c))
        BY <3>1, <3>2 DEF Stores
      <3> QED
        BY <1>1, <2>1, <3>2, <3>3, StoreIsLegal DEF Labels
    <2>3. CASE ~Exists(saw[c])
      <3>1. Insert(c, New(req[c].role))
        BY <1>4, <2>3 DEF Google, At
      <3> QED
        BY <1>1, <1>2, <2>1, <3>1, InsertIsLegal
    <2> QED
      BY <2>2, <2>3
  <1> QED
    BY <1>3, <1>4 DEF Google

LEMMA BootstrapIsLegal ==
  ASSUME NEW c \in Calls, IInv, BootstrapChecks(c) \/ BootstrapWrites(c) PROVE \E label : Legal(c, label)
  <1>1. pc[c] # "new" /\ req[c].op = "bootstrap"
    BY DEF BootstrapChecks, BootstrapWrites, At
  <1>2. CASE BootstrapChecks(c)
    <2>1. PICK label \in {"refused", "find"} : Skip(c, label)
      BY <1>2 DEF BootstrapChecks
    <2> QED
      BY <1>1, <2>1, SkipIsLegal DEF Skip, data, Labels
  <1>3. CASE At(c, "bootstrap", "find") /\ Look(c, "write")
    <2>1. PICK label \in {"write"} : Look(c, label)
      BY <1>3
    <2> QED
      BY <1>1, <2>1, SkipIsLegal DEF Look, data, Labels
  <1>4. CASE BootstrapWrites(c) /\ At(c, "bootstrap", "write")
    <2>1. /\ UNCHANGED <<tokens, invites, assigned>> /\ founded' \in BOOLEAN
          /\ founded => founded'
          /\ pc'[c] = "done" => founded'
      BY <1>4 DEF BootstrapWrites, At, IInv, TypeOK
    <2>2. CASE Exists(saw[c])
      <3>1. BootstrapRow(c) \in Rows
        BY DEF BootstrapRow, Rows, Roles, Statuses
      <3>2. Store(c, BootstrapRow(c)) /\ Goto(c, "done") /\ UNCHANGED saw
        BY <1>4, <2>2 DEF BootstrapWrites, At
      <3>3. founded'
        BY <2>1, <3>2 DEF Goto, IInv, TypeOK
      <3>4. Stores(c, BootstrapRow(c))
        BY <3>1, <3>2, <3>3 DEF Stores
      <3> QED
        BY <1>1, <2>1, <3>2, <3>4, StoreIsLegal DEF Labels
    <2>3. CASE ~Exists(saw[c])
      <3>1. Insert(c, New("ADMIN"))
        BY <1>4, <2>3 DEF BootstrapWrites, At
      <3> QED
        BY <1>1, <2>1, <3>1, InsertIsLegal DEF Roles
    <2> QED
      BY <2>2, <2>3
  <1> QED
    BY <1>2, <1>3, <1>4 DEF BootstrapWrites

LEMMA InviteIsLegal == ASSUME NEW c \in Calls, IInv, Invite(c) PROVE \E label : Legal(c, label)
  <1>1. pc[c] # "new" /\ req[c].op = "invite"
    BY DEF Invite, At
  <1>2. CASE At(c, "invite", "start")
    <2>1. PICK label \in {"refused", "write"} : Look(c, label)
      BY <1>2 DEF Invite, At
    <2> QED
      BY <1>1, <2>1, SkipIsLegal DEF Look, data, Labels
  <1>3. CASE At(c, "invite", "write")
    <2>1. PICK label \in {"done", "refused"} : Goto(c, label)
      BY <1>3 DEF Invite, At
    <2>2. UNCHANGED <<user, tokens, assigned, founded, saw>> /\ invites' \subseteq invites \cup {c}
      BY <1>3 DEF Invite, At
    <2> QED
      BY <1>1, <2>1, <2>2, SkipIsLegal DEF Labels
  <1> QED
    BY <1>2, <1>3 DEF Invite

LEMMA AcceptIsLegal == ASSUME NEW c \in Calls, IInv, Accept(c) PROVE \E label : Legal(c, label)
  <1>1. pc[c] # "new" /\ req[c].op = "accept"
    BY DEF Accept, At
  <1>2. CASE At(c, "accept", "start")
    <2>1. PICK label \in {"refused", "write"} : Look(c, label)
      BY <1>2 DEF Accept, At
    <2> QED
      BY <1>1, <2>1, SkipIsLegal DEF Look, data, Labels
  <1>3. CASE At(c, "accept", "write")
    <2>1. UNCHANGED <<tokens, invites, assigned, founded>> /\ founded' \in BOOLEAN
      BY <1>3 DEF Accept, At, IInv, TypeOK
    <2>2. CASE Skip(c, "refused")
      BY <1>1, <2>1, <2>2, SkipIsLegal DEF Labels
    <2>3. CASE Store(c, New("ADMIN")) /\ Goto(c, "spend") /\ UNCHANGED saw
      <3>1. Stores(c, New("ADMIN"))
        BY <1>1, <2>3, NewRow DEF Stores, FromAdmins, Roles
      <3> QED
        BY <1>1, <2>1, <2>3, <3>1, StoreIsLegal DEF Labels
    <2> QED
      BY <1>3, <2>2, <2>3 DEF Accept, At
  <1>4. CASE At(c, "accept", "spend")
    <2>1. /\ Goto(c, "done") /\ UNCHANGED <<user, tokens, assigned, founded, saw>>
          /\ invites' \subseteq invites
      BY <1>4 DEF Accept, At
    <2> QED
      BY <1>1, <2>1, SkipIsLegal DEF Labels
  <1> QED
    BY <1>2, <1>3, <1>4 DEF Accept

LEMMA PromoteIsLegal ==
  ASSUME NEW c \in Calls, IInv, Promote(c) \/ Deactivate(c) PROVE \E label : Legal(c, label)
  <1>1. pc[c] # "new" /\ req[c].op \in {"promote", "deactivate"}
    BY DEF Promote, Deactivate, At
  <1>2. CASE pc[c] = "start"
    <2>1. PICK label \in {"refused", "done", "write"} :
            \/ label = "refused" /\ Skip(c, label)
            \/ Look(c, label) /\ (label = "write" => Live(Row(c)))
      BY <1>2 DEF Promote, Deactivate, At
    <2>2. label = "write" => saw'[c] # NoRow
      BY <2>1 DEF Look, Live, Exists, IInv, TypeOK
    <2>3. UNCHANGED data
      BY <2>1 DEF Skip, Look
    <2>4. Skip(c, label) \/ Look(c, label)
      BY <2>1
    <2> QED
      BY <1>1, <2>1, <2>2, <2>3, <2>4, SkipIsLegal DEF data, Labels
  <1>3. CASE pc[c] = "write"
    <2>1. Exists(saw[c])
      BY <1>1, <1>3 DEF IInv, SeenStays, Exists
    <2> DEFINE admin == [Row(c) EXCEPT !.role = "ADMIN"]
               inactive == [Row(c) EXCEPT !.status = "INACTIVE"]
    <2>2. admin \in Rows /\ inactive \in Rows
      BY <1>1, <2>1, TargetTyped, RoleChange, StatusChange DEF Roles, Statuses
    <2>3. \/ Store(c, admin) /\ Goto(c, "done") /\ UNCHANGED <<tokens, invites, assigned, founded, saw>>
          \/ Store(c, inactive) /\ Goto(c, "done") /\ UNCHANGED <<tokens, invites, assigned, founded, saw>>
      BY <1>3 DEF Promote, Deactivate, At
    <2> HIDE DEF admin, inactive
    <2>4. PICK row \in {admin, inactive} :
            Store(c, row) /\ Goto(c, "done") /\ UNCHANGED <<tokens, invites, assigned, founded, saw>>
      BY <2>3
    <2>5. row \in Rows
      BY <2>4, <2>2
    <2>6. Stores(c, row) /\ founded' \in BOOLEAN
      BY <1>1, <2>4, <2>5 DEF Stores, FromAdmins, IInv, TypeOK
    <2> QED
      BY <1>1, <2>4, <2>6, StoreIsLegal DEF Labels
  <1> QED
    BY <1>2, <1>3 DEF Promote, Deactivate, At

LEMMA AssignIsLegal ==
  ASSUME NEW c \in Calls, IInv,
         AssignReads(c) \/ AssignCreates(c) \/ AssignChecks(c) \/ AssignInserts(c)
  PROVE  \E label : Legal(c, label)
  <1>1. pc[c] # "new" /\ req[c].op = "assign"
    BY DEF AssignReads, AssignCreates, AssignChecks, AssignInserts, At
  <1>2. CASE pc[c] \in {"start", "reread"}
    <2>1. PICK label \in {"check", "create", "refused"} : Look(c, label) \/ Skip(c, label)
      BY <1>2 DEF AssignReads, AssignCreates, AssignChecks, AssignInserts, At
    <2> QED
      BY <1>1, <2>1, SkipIsLegal DEF Look, Skip, data, Labels
  <1>3. CASE pc[c] = "create"
    <2>1. CASE Skip(c, "reread")
      BY <1>1, <2>1, SkipIsLegal DEF Skip, data, Labels
    <2>2. CASE ~Skip(c, "reread")
      <3>1. /\ Store(c, New("STAFF")) /\ saw' = [saw EXCEPT ![c] = New("STAFF")] /\ Goto(c, "check")
            /\ UNCHANGED <<tokens, invites, assigned, founded>>
        BY <1>3, <2>2 DEF AssignReads, AssignCreates, AssignChecks, AssignInserts, At
      <3>2. New("STAFF") \in Rows /\ New("STAFF").role = "STAFF"
        BY NewRow DEF Roles
      <3>3. Stores(c, New("STAFF")) /\ user'[req[c].target] = New("STAFF") /\ founded' \in BOOLEAN
        BY <1>1, <3>1, <3>2, TargetTyped DEF Stores, Store, IInv, TypeOK
      <3> QED
        BY <1>1, <3>1, <3>3, StoreIsLegal DEF Labels
    <2> QED
      BY <2>1, <2>2
  <1>4. CASE pc[c] = "check"
    <2>1. PICK label \in {"refused", "promote", "insert"} :
            Skip(c, label) /\ (label = "promote" => saw[c].role = "ATTENDEE")
      BY <1>4 DEF AssignReads, AssignCreates, AssignChecks, AssignInserts, At
    <2>2. label = "promote" => saw'[c] # NoRow
      BY <2>1 DEF Skip, NoRow
    <2> QED
      BY <1>1, <2>1, <2>2, SkipIsLegal DEF Skip, data, Labels
  <1>5. CASE pc[c] = "promote"
    <2> DEFINE staff == [Row(c) EXCEPT !.role = "STAFF"]
    <2>1. /\ Store(c, staff) /\ Goto(c, "insert")
          /\ UNCHANGED <<tokens, invites, assigned, founded, saw>>
      BY <1>5 DEF AssignReads, AssignCreates, AssignChecks, AssignInserts, At
    <2>2. Exists(saw[c])
      BY <1>5 DEF IInv, SeenStays, Exists
    <2>3. staff \in Rows /\ staff.role = "STAFF"
      BY <1>1, <2>2, TargetTyped, RoleChange DEF Roles
    <2> HIDE DEF staff
    <2>4. Stores(c, staff) /\ founded' \in BOOLEAN
      BY <2>1, <2>3 DEF Stores, IInv, TypeOK
    <2> QED
      BY <1>1, <2>1, <2>4, StoreIsLegal DEF Labels
  <1>6. CASE pc[c] = "insert"
    <2>1. PICK label \in {"done", "refused"} : Goto(c, label)
      BY <1>6 DEF AssignReads, AssignCreates, AssignChecks, AssignInserts, At
    <2>2. UNCHANGED <<user, tokens, invites, founded, saw>> /\ assigned' \subseteq assigned \cup {c}
      BY <1>6 DEF AssignReads, AssignCreates, AssignChecks, AssignInserts, At
    <2> QED
      BY <1>1, <2>1, <2>2, SkipIsLegal DEF Labels
  <1> QED
    BY <1>2, <1>3, <1>4, <1>5, <1>6 DEF AssignReads, AssignCreates, AssignChecks, AssignInserts, At

LEMMA RemoveIsLegal == ASSUME NEW c \in Calls, IInv, Remove(c) PROVE \E label : Legal(c, label)
  <1>1. pc[c] # "new" /\ req[c].op = "remove"
    BY DEF Remove, At
  <1>2. PICK label \in {"delete", "done", "refused"} : Skip(c, label) \/ Goto(c, label)
    BY DEF Remove, At
  <1>3. UNCHANGED <<user, tokens, invites, founded, saw>> /\ assigned' \subseteq assigned /\ Goto(c, label)
    BY <1>2 DEF Remove, At, Skip, data
  <1> QED
    BY <1>1, <1>3, SkipIsLegal DEF Labels

-----------------------------------------------------------------------------
LEMMA NextKeeps == ASSUME IInv, [Next]_vars PROVE IInv'
  <1>1. CASE UNCHANGED vars
    BY <1>1 DEF vars, data, IInv, TypeOK, SeenStays, Rooted, NoAdminYet
  <1>2. ASSUME NEW c \in Calls, ~Begin(c),
               \/ Login(c) \/ Register(c) \/ Google(c) \/ BootstrapChecks(c) \/ BootstrapWrites(c)
               \/ Invite(c) \/ Accept(c) \/ Promote(c) \/ Deactivate(c)
               \/ AssignReads(c) \/ AssignCreates(c) \/ AssignChecks(c) \/ AssignInserts(c)
               \/ Remove(c)
        PROVE  IInv'
    BY <1>2, LegalKeeps, LoginIsLegal, RegisterIsLegal, GoogleIsLegal, BootstrapIsLegal, InviteIsLegal,
       AcceptIsLegal, PromoteIsLegal, AssignIsLegal, RemoveIsLegal
  <1> QED
    BY <1>1, <1>2, BeginKeeps DEF Next

\* Rows keep their types through updates by id that go by an earlier reading:
\* a row that was seen is still there to be updated.
THEOREM TypeCorrect == Spec => []TypeOK
  <1>1. Init => IInv
    BY InitHolds
  <1>2. IInv /\ [Next]_vars => IInv'
    BY NextKeeps
  <1>3. IInv => TypeOK
    BY DEF IInv
  <1> QED
    BY <1>1, <1>2, <1>3, PTL DEF Spec

\* No sign-up, sign-in, reactivation or staff assignment makes an administrator
\* of anybody while there is none, in any order.
THEOREM RootOnly == Spec => []AdminsHaveRoot
  <1>1. Init => IInv
    BY InitHolds
  <1>2. IInv /\ [Next]_vars => IInv'
    BY NextKeeps
  <1>3. IInv => AdminsHaveRoot
    BY DEF IInv, Rooted, NoAdminYet, AdminsHaveRoot
  <1> QED
    BY <1>1, <1>2, <1>3, PTL DEF Spec

-----------------------------------------------------------------------------
(***************************************************************************)
(* What a step does to the row of its target, and to nobody else's.        *)
(***************************************************************************)
Revives(c) ==
  \/ req[c].op = "bootstrap"
  \/ req[c].op = "accept" /\ saw[c].deleted
  \/ req[c].op = "google" /\ saw[c].deleted /\ saw[c].status # "SUSPENDED"

RoleFrom(c, old, new) ==
  \/ new.role = old.role
  \/ new.role = "ADMIN" /\ req[c].op \in MakeAdmins
  \/ new.role # "ADMIN" /\ ~Exists(old)
  \/ new.role = "STAFF" /\ req[c].op = "assign" /\ saw[c].role = "ATTENDEE" /\ ~Finished(c)
  \/ /\ new.role # "ADMIN" /\ req[c].op = "register" /\ saw[c].deleted /\ ~Finished(c)
     /\ pc'[c] = "done"

StatusFrom(c, old, new) ==
  \/ new.status = old.status
  \/ new.status = "INACTIVE" /\ req[c].op = "deactivate" /\ req[c].target # req[c].actor
  \/ new.status = "ACTIVE" /\ (~Exists(old) \/ Revives(c))

LifeFrom(c, old, new) ==
  /\ Live(old) => Live(new)
  /\ ~Live(old) /\ Admin(new) => req[c].op \in MakeAdmins \cup {"google"}

Fate(c, old, new) == RoleFrom(c, old, new) /\ StatusFrom(c, old, new) /\ LifeFrom(c, old, new)

\* The way to an assignment: the role that is checked, the role that is stored.
StaffStep(c) ==
  /\ pc'[c] = "check" => saw'[c] = user'[req[c].target]
  /\ pc'[c] = "insert" => \/ user'[req[c].target].role = "STAFF"
                          \/ pc[c] = "check" /\ saw[c].role = "STAFF"
  /\ c \in assigned' => c \in assigned \/ pc[c] = "insert"

\* A step of a call: what becomes of its row, what it may learn of it, and when
\* it hands out a token.
Change(c) ==
  /\ ~Finished(c)
  /\ \A a \in Addresses \ {req[c].target} : user'[a] = user[a]
  /\ Fate(c, Row(c), user'[req[c].target])
  /\ saw[c] # NoRow => saw' = saw
  /\ tokens' = tokens \/ Live(user'[req[c].target])
  /\ founded' => founded \/ (Usable(user'[req[c].target]) /\ Admin(user'[req[c].target]))
  /\ StaffStep(c)

\* What a call remembers of the row it saw, step by step of its handler.
SawRight(c) ==
  /\ pc[c] = "new" => req[c] = NoRequest /\ c \notin assigned
  /\ pc[c] \in {"new", "start", "create", "reread", "find"} => saw[c] = NoRow
  /\ pc[c] = "write" /\ req[c].op \in {"register", "accept"} => ~Live(saw[c])
  /\ pc[c] = "write" /\ req[c].op = "google" => saw[c].status # "SUSPENDED"
  /\ pc[c] = "write" /\ req[c].op = "deactivate" => req[c].target # req[c].actor
  /\ pc[c] = "promote" => saw[c].role = "ATTENDEE"
  /\ Live(saw[c]) => Live(Row(c))
SawsRight == \A c \in Calls : SawRight(c)

\* The calls that were over when a call began are over.
AfterIsOver == \A c \in Calls : \A d \in after[c] : Finished(d)

Reading == IInv /\ SawsRight /\ AfterIsOver

LEMMA LiveRows ==
  /\ ~Live(NoRow)
  /\ \A row \in Rows : /\ Exists(row) /\ (Live(row) <=> ~row.deleted)
                       /\ row.role \in Roles /\ row.status \in Statuses /\ row.deleted \in BOOLEAN
  /\ \A row \in Rows \cup {NoRow} : row.deleted => row \in Rows
  BY DEF Live, Exists, Rows, NoRow, Roles

LEMMA StoreChanges ==
  ASSUME NEW c \in Calls, Reading, pc[c] # "new", ~Finished(c), NEW row, Store(c, row),
         Fate(c, Row(c), row), UNCHANGED <<saw, assigned>>, pc'[c] \notin {"check", "insert"},
         tokens' = tokens \/ Live(row), founded' => founded \/ (Usable(row) /\ Admin(row))
  PROVE  Change(c)
  <1>1. req[c].target \in Addresses /\ user \in [Addresses -> Rows \cup {NoRow}]
    BY TargetTyped DEF Reading, IInv, TypeOK
  <1>2. user'[req[c].target] = row /\ \A a \in Addresses \ {req[c].target} : user'[a] = user[a]
    BY <1>1 DEF Store
  <1>3. StaffStep(c)
    BY DEF StaffStep
  <1> QED
    BY <1>2, <1>3 DEF Change

LEMMA SameRow ==
  ASSUME NEW c \in Calls, NEW row PROVE Live(row) \/ ~Admin(row) => Fate(c, row, row)
  BY DEF Fate, RoleFrom, StatusFrom, LifeFrom, Admin

LEMMA SkipChanges ==
  ASSUME NEW c \in Calls, Reading, pc[c] # "new", ~Finished(c),
         UNCHANGED <<user, founded>>, saw[c] # NoRow => saw' = saw,
         tokens' = tokens \/ Live(Row(c)), StaffStep(c)
  PROVE  Change(c)
  <1>1. Fate(c, Row(c), user'[req[c].target])
    BY SameRow DEF Row, Admin
  <1> QED
    BY <1>1 DEF Change, Row

Right(c) == Change(c) /\ SawRight(c)'

LEMMA StoreIsRight ==
  ASSUME NEW c \in Calls, Reading, pc[c] # "new", ~Finished(c),
         NEW label \in {"done", "spend"}, Goto(c, label), NEW row, Store(c, row),
         Fate(c, Row(c), row), UNCHANGED <<saw, assigned>>,
         tokens' = tokens \/ Live(row), founded' => founded \/ (Usable(row) /\ Admin(row))
  PROVE  Right(c)
  <1>1. req'[c] = req[c] /\ pc'[c] = label /\ saw'[c] = saw[c]
    BY DEF Goto, Reading, IInv, TypeOK
  <1>2. Change(c)
    BY <1>1, StoreChanges
  <1>3. user'[req[c].target] = row
    BY TargetTyped DEF Store, Reading, IInv, TypeOK
  <1>4. SawRight(c)'
    BY <1>1, <1>3 DEF SawRight, Reading, SawsRight, Row, Fate, LifeFrom
  <1> QED
    BY <1>2, <1>4 DEF Right

LEMMA LookIsRight ==
  ASSUME NEW c \in Calls, Reading, pc[c] \in {"start", "find", "reread"}, NEW label, Look(c, label),
         \/ label \in {"refused", "done", "check"}
         \/ label = "create" /\ ~Exists(Row(c))
         \/ /\ label = "write"
            /\ req[c].op \in {"register", "accept"} => ~Live(Row(c))
            /\ req[c].op = "google" => Row(c).status # "SUSPENDED"
            /\ req[c].op = "deactivate" => req[c].target # req[c].actor
  PROVE  Right(c)
  <1>1. /\ req'[c] = req[c] /\ pc'[c] = label /\ saw'[c] = Row(c) /\ saw[c] = NoRow
        /\ UNCHANGED <<user, tokens, invites, assigned, founded>>
    BY DEF Look, Goto, data, Reading, SawsRight, SawRight, IInv, TypeOK
  <1>2. StaffStep(c)
    BY <1>1 DEF StaffStep, Row
  <1>3. Change(c)
    BY <1>1, <1>2, SkipChanges DEF Finished
  <1>4. SawRight(c)'
    BY <1>1 DEF SawRight, Row, Exists
  <1> QED
    BY <1>3, <1>4 DEF Right

LEMMA SkipIsRight ==
  ASSUME NEW c \in Calls, Reading, pc[c] # "new", ~Finished(c), NEW label, Goto(c, label),
         UNCHANGED <<user, founded, saw>>, tokens' = tokens \/ Live(Row(c)),
         \/ label \in {"refused", "done", "spend", "delete"}
         \/ label = "find" /\ pc[c] = "start"
         \/ label = "reread" /\ pc[c] = "create"
         \/ label = "promote" /\ saw[c].role = "ATTENDEE"
         \/ label = "insert" /\ pc[c] = "check" /\ saw[c].role = "STAFF",
         c \in assigned' => c \in assigned \/ pc[c] = "insert"
  PROVE  Right(c)
  <1>1. req'[c] = req[c] /\ pc'[c] = label /\ saw'[c] = saw[c]
    BY DEF Goto, Reading, IInv, TypeOK
  <1>2. StaffStep(c)
    BY <1>1 DEF StaffStep
  <1>3. Change(c)
    BY <1>1, <1>2, SkipChanges
  <1>4. SawRight(c)'
    BY <1>1 DEF SawRight, Reading, SawsRight, Row
  <1> QED
    BY <1>3, <1>4 DEF Right

\* Rows that are made or changed, field by field.
LEMMA RoleSet ==
  ASSUME NEW row \in Rows, NEW role \in Roles
  PROVE  /\ [row EXCEPT !.role = role] \in Rows
         /\ [row EXCEPT !.role = role].role = role
         /\ [row EXCEPT !.role = role].status = row.status
         /\ [row EXCEPT !.role = role].deleted = row.deleted
  BY DEF Rows

LEMMA StatusSet ==
  ASSUME NEW row \in Rows, NEW status \in Statuses
  PROVE  /\ [row EXCEPT !.status = status] \in Rows
         /\ [row EXCEPT !.status = status].role = row.role
         /\ [row EXCEPT !.status = status].status = status
         /\ [row EXCEPT !.status = status].deleted = row.deleted
  BY DEF Rows

LEMMA DeletedReset ==
  ASSUME NEW row \in Rows
  PROVE  /\ [row EXCEPT !.deleted = FALSE] \in Rows
         /\ [row EXCEPT !.deleted = FALSE].role = row.role
         /\ [row EXCEPT !.deleted = FALSE].status = row.status
         /\ [row EXCEPT !.deleted = FALSE].deleted = FALSE
  BY DEF Rows

LEMMA InsertIsRight ==
  ASSUME NEW c \in Calls, Reading, pc[c] # "new", ~Finished(c), NEW role \in Roles, Insert(c, New(role)),
         role = "ADMIN" => req[c].op \in MakeAdmins,
         UNCHANGED assigned, tokens' = tokens \/ pc'[c] = "done",
         founded' => founded \/ (role = "ADMIN" /\ pc'[c] = "done")
  PROVE  Right(c)
  <1>1. CASE Exists(Row(c))
    <2>1. Skip(c, "refused") /\ pc'[c] = "refused"
      BY <1>1 DEF Insert, Skip, Goto, Reading, IInv, TypeOK
    <2>2. PICK label \in {"refused"} : Skip(c, label)
      BY <2>1
    <2> QED
      BY <2>1, <2>2, SkipIsRight DEF Skip, data
  <1>2. CASE ~Exists(Row(c))
    <2>1. PICK label \in {"done"} : Store(c, New(role)) /\ Goto(c, label) /\ UNCHANGED saw
      BY <1>2 DEF Insert
    <2>2. Live(New(role)) /\ (role = "ADMIN" => Usable(New(role)) /\ Admin(New(role)))
      BY DEF New, Live, Usable, Admin, Exists, NoRow
    <2>3. Fate(c, Row(c), New(role))
      BY <1>2, <2>2 DEF Fate, RoleFrom, StatusFrom, LifeFrom, Admin, New, Live
    <2>4. founded' => founded \/ (Usable(New(role)) /\ Admin(New(role)))
      BY <2>2
    <2> HIDE DEF New
    <2> QED
      BY <2>1, <2>2, <2>3, <2>4, StoreIsRight
  <1> QED
    BY <1>1, <1>2

LEMMA LoginIsRight == ASSUME NEW c \in Calls, Reading, Login(c) PROVE Right(c)
  <1>1. PICK label \in {"done", "refused"} : Goto(c, label)
    BY DEF Login
  <1>2. pc[c] = "start" /\ UNCHANGED <<user, assigned, founded, saw>> /\ (tokens' = tokens \/ Live(Row(c)))
    BY DEF Login, At, Usable
  <1> QED
    BY <1>1, <1>2, SkipIsRight DEF Finished

LEMMA RegisterIsRight == ASSUME NEW c \in Calls, Reading, Register(c) PROVE Right(c)
  <1>1. pc[c] # "new" /\ ~Finished(c) /\ req[c].op = "register"
    BY DEF Register, At, Finished
  <1>2. req[c].role \in Roles /\ req[c].role # "ADMIN"
    BY <1>1, TargetTyped DEF SignUpRoles, Reading
  <1>3. CASE At(c, "register", "start")
    <2>1. PICK label \in {"refused", "write"} : Look(c, label) /\ (label = "write" => ~Live(Row(c)))
      BY <1>3 DEF Register, At
    <2> QED
      BY <1>1, <1>3, <2>1, LookIsRight DEF At
  <1>4. CASE At(c, "register", "write") /\ Exists(saw[c])
    <2> DEFINE row == [Row(c) EXCEPT !.role = req[c].role, !.deleted = FALSE]
    <2>1. Row(c) \in Rows /\ saw[c].deleted
      BY <1>1, <1>4, TargetTyped DEF Reading, SawsRight, SawRight, IInv, TypeOK, Live, Rows, Exists, At
    <2>2. row \in Rows /\ row.role = req[c].role /\ row.status = Row(c).status /\ row.deleted = FALSE
      <3> DEFINE reset == [Row(c) EXCEPT !.role = req[c].role]
      <3>1. /\ reset \in Rows /\ reset.role = req[c].role
            /\ reset.status = Row(c).status /\ row = [reset EXCEPT !.deleted = FALSE]
        BY <1>2, <2>1, RoleSet
      <3> HIDE DEF row, reset
      <3> QED
        BY <3>1, DeletedReset
    <2>3. \E label \in {"done"} : Store(c, row) /\ Goto(c, label) /\ UNCHANGED <<saw, assigned, founded>>
      BY <1>4 DEF Register, At
    <2> HIDE DEF row
    <2>4. PICK label \in {"done"} :
            Store(c, row) /\ Goto(c, label) /\ UNCHANGED <<saw, assigned, founded>>
      BY <2>3
    <2>5. pc'[c] = "done"
      BY <2>4 DEF Goto, Reading, IInv, TypeOK
    <2>6. Live(row) /\ ~Admin(row)
      BY <1>2, <2>2, LiveRows DEF Admin
    <2>7. Fate(c, Row(c), row)
      BY <1>1, <1>2, <2>1, <2>2, <2>5, <2>6 DEF Fate, RoleFrom, StatusFrom, LifeFrom
    <2>8. founded' = founded
      BY <2>4
    <2> QED
      BY <1>1, <2>4, <2>6, <2>7, <2>8, StoreIsRight
  <1>5. CASE At(c, "register", "write") /\ ~Exists(saw[c])
    <2>1. /\ Insert(c, New(req[c].role)) /\ UNCHANGED <<assigned, founded>>
          /\ tokens' = tokens \/ pc'[c] = "done"
      BY <1>5 DEF Register, At, GenerateTokens
    <2> QED
      BY <1>1, <1>2, <2>1, InsertIsRight
  <1> QED
    BY <1>3, <1>4, <1>5 DEF Register

LEMMA GoogleIsRight == ASSUME NEW c \in Calls, Reading, Google(c) PROVE Right(c)
  <1>1. pc[c] # "new" /\ ~Finished(c) /\ req[c].op = "google"
    BY DEF Google, At, Finished
  <1>2. req[c].role \in Roles /\ req[c].role # "ADMIN"
    BY <1>1, TargetTyped DEF SignUpRoles, Reading
  <1>3. CASE At(c, "google", "start")
    <2>1. PICK label \in {"refused", "write"} :
            Look(c, label) /\ (label = "write" => Row(c).status # "SUSPENDED")
      BY <1>3 DEF Google, At
    <2> QED
      BY <1>1, <1>3, <2>1, LookIsRight DEF At
  <1>4. CASE At(c, "google", "write")
    <2>1. UNCHANGED <<assigned, founded>> /\ (tokens' = tokens \/ pc'[c] = "done")
      BY <1>4 DEF Google, At, GenerateTokens
    <2>2. CASE Exists(saw[c])
      <3> DEFINE row == GoogleUpdate(c)
      <3>1. /\ Row(c) \in Rows /\ (saw[c].deleted \/ Live(Row(c)))
            /\ saw[c].status # "SUSPENDED"
        BY <1>1, <1>4, <2>2, TargetTyped DEF Reading, SawsRight, SawRight, IInv, TypeOK, Live, Rows, Exists, At
      <3>2. \/ row = Row(c) /\ Live(Row(c))
            \/ /\ saw[c].deleted /\ row \in Rows
               /\ row.role = Row(c).role /\ row.status = "ACTIVE" /\ row.deleted = FALSE
        <4>1. CASE ~saw[c].deleted
          BY <3>1, <4>1 DEF GoogleUpdate
        <4>2. CASE saw[c].deleted
          <5> DEFINE active == [Row(c) EXCEPT !.status = "ACTIVE"]
          <5>1. row = [active EXCEPT !.deleted = FALSE]
            BY <4>2 DEF GoogleUpdate
          <5>2. /\ active \in Rows /\ active.role = Row(c).role /\ active.status = "ACTIVE"
            BY <3>1, StatusSet DEF Statuses
          <5> HIDE DEF row, active
          <5> QED
            BY <4>2, <5>1, <5>2, DeletedReset
        <4> QED
          BY <4>1, <4>2
      <3>3. PICK label \in {"done"} : Store(c, row) /\ Goto(c, label) /\ UNCHANGED saw
        BY <1>4, <2>2 DEF Google, At
      <3> HIDE DEF row
      <3>4. CASE row = Row(c) /\ Live(Row(c))
        BY <1>1, <2>1, <3>3, <3>4, SameRow, StoreIsRight
      <3>5. CASE /\ saw[c].deleted /\ row \in Rows
                 /\ row.role = Row(c).role /\ row.status = "ACTIVE" /\ row.deleted = FALSE
        <4>1. Live(row)
          BY <3>5, LiveRows
        <4>2. Fate(c, Row(c), row)
          BY <1>1, <3>1, <3>5, <4>1 DEF Fate, RoleFrom, StatusFrom, LifeFrom, Revives
        <4> QED
          BY <1>1, <2>1, <3>3, <4>1, <4>2, StoreIsRight
      <3> QED
        BY <3>2, <3>4, <3>5
    <2>3. CASE ~Exists(saw[c])
      <3>1. Insert(c, New(req[c].role))
        BY <1>4, <2>3 DEF Google, At
      <3> QED
        BY <1>1, <1>2, <2>1, <3>1, InsertIsRight
    <2> QED
      BY <2>2, <2>3
  <1> QED
    BY <1>3, <1>4 DEF Google

LEMMA BootstrapIsRight ==
  ASSUME NEW c \in Calls, Reading, BootstrapChecks(c) \/ BootstrapWrites(c) PROVE Right(c)
  <1>1. pc[c] # "new" /\ ~Finished(c) /\ req[c].op = "bootstrap"
    BY DEF BootstrapChecks, BootstrapWrites, At, Finished
  <1>2. CASE BootstrapChecks(c)
    <2>1. PICK label \in {"refused", "find"} : Skip(c, label) /\ pc[c] = "start"
      BY <1>2 DEF BootstrapChecks, At
    <2> QED
      BY <1>1, <2>1, SkipIsRight DEF Skip, data
  <1>3. CASE At(c, "bootstrap", "find") /\ Look(c, "write")
    <2>1. PICK label \in {"write"} : Look(c, label)
      BY <1>3
    <2> QED
      BY <1>1, <1>3, <2>1, LookIsRight DEF At
  <1>4. CASE BootstrapWrites(c) /\ At(c, "bootstrap", "write")
    <2>1. UNCHANGED <<tokens, assigned>> /\ (founded' => founded \/ pc'[c] = "done")
      BY <1>4 DEF BootstrapWrites, At
    <2>2. CASE Exists(saw[c])
      <3>1. PICK label \in {"done"} : Store(c, BootstrapRow(c)) /\ Goto(c, label) /\ UNCHANGED saw
        BY <1>4, <2>2 DEF BootstrapWrites, At
      <3>2. Live(saw[c]) => Live(Row(c))
        BY DEF Reading, SawsRight, SawRight
      <3>3. saw[c] \in Rows /\ Row(c) \in Rows
        BY <1>1, <2>2, TargetTyped DEF Reading, IInv, TypeOK, Exists
      <3>4. BootstrapRow(c) = [role |-> "ADMIN", status |-> "ACTIVE", deleted |-> FALSE]
        BY <3>2, <3>3, LiveRows DEF BootstrapRow
      <3>5. Usable(BootstrapRow(c)) /\ Admin(BootstrapRow(c)) /\ Live(BootstrapRow(c))
        BY <3>4 DEF Usable, Admin, Live, Exists, NoRow
      <3>6. Fate(c, Row(c), BootstrapRow(c))
        BY <1>1, <3>4, <3>5 DEF Fate, RoleFrom, StatusFrom, LifeFrom, Revives, MakeAdmins
      <3> QED
        BY <1>1, <2>1, <3>1, <3>5, <3>6, StoreIsRight
    <2>3. CASE ~Exists(saw[c])
      <3>1. Insert(c, New("ADMIN"))
        BY <1>4, <2>3 DEF BootstrapWrites, At
      <3>2. PICK role \in {"ADMIN"} : Insert(c, New(role))
        BY <3>1
      <3> QED
        BY <1>1, <2>1, <3>2, InsertIsRight DEF Roles, MakeAdmins
    <2> QED
      BY <2>2, <2>3
  <1> QED
    BY <1>2, <1>3, <1>4 DEF BootstrapWrites

LEMMA InviteIsRight == ASSUME NEW c \in Calls, Reading, Invite(c) PROVE Right(c)
  <1>1. pc[c] # "new" /\ ~Finished(c) /\ req[c].op = "invite"
    BY DEF Invite, At, Finished
  <1>2. CASE At(c, "invite", "start")
    <2>1. PICK label \in {"refused", "write"} : Look(c, label)
      BY <1>2 DEF Invite, At
    <2> QED
      BY <1>1, <1>2, <2>1, LookIsRight DEF At
  <1>3. CASE At(c, "invite", "write")
    <2>1. PICK label \in {"done", "refused"} : Goto(c, label)
      BY <1>3 DEF Invite, At
    <2> QED
      BY <1>1, <1>3, <2>1, SkipIsRight DEF Invite, At
  <1> QED
    BY <1>2, <1>3 DEF Invite

LEMMA AcceptIsRight == ASSUME NEW c \in Calls, Reading, Accept(c) PROVE Right(c)
  <1>1. pc[c] # "new" /\ ~Finished(c) /\ req[c].op = "accept"
    BY DEF Accept, At, Finished
  <1>2. CASE At(c, "accept", "start")
    <2>1. PICK label \in {"refused", "write"} : Look(c, label) /\ (label = "write" => ~Live(Row(c)))
      BY <1>2 DEF Accept, At
    <2> QED
      BY <1>1, <1>2, <2>1, LookIsRight DEF At
  <1>3. CASE At(c, "accept", "write")
    <2>1. UNCHANGED <<tokens, assigned, founded>>
      BY <1>3 DEF Accept, At
    <2>2. CASE Skip(c, "refused")
      <3>1. PICK label \in {"refused"} : Skip(c, label)
        BY <2>2
      <3> QED
        BY <1>1, <2>1, <3>1, SkipIsRight DEF Skip, data
    <2>3. CASE ~Skip(c, "refused")
      <3>1. PICK label \in {"spend"} : Store(c, New("ADMIN")) /\ Goto(c, label) /\ UNCHANGED saw
        BY <1>3, <2>3 DEF Accept, At
      <3>2. saw[c].deleted \/ ~Exists(Row(c))
        <4>1. CASE ~Exists(saw[c])
          BY <1>3, <2>3, <4>1 DEF Accept, At
        <4>2. CASE Exists(saw[c])
          BY <1>1, <1>3, <4>2 DEF Reading, SawsRight, SawRight, At, Live
        <4> QED
          BY <4>1, <4>2
      <3>3. New("ADMIN") = [role |-> "ADMIN", status |-> "ACTIVE", deleted |-> FALSE]
        BY DEF New
      <3>4. Live(New("ADMIN"))
        BY <3>3 DEF Live, Exists, NoRow
      <3>5. Fate(c, Row(c), New("ADMIN"))
        BY <1>1, <3>2, <3>3, <3>4 DEF Fate, RoleFrom, StatusFrom, LifeFrom, Revives, MakeAdmins
      <3> QED
        BY <1>1, <2>1, <3>1, <3>5, StoreIsRight
    <2> QED
      BY <2>2, <2>3
  <1>4. CASE At(c, "accept", "spend")
    <2>1. PICK label \in {"done"} : Goto(c, label)
      BY <1>4 DEF Accept, At
    <2> QED
      BY <1>1, <1>4, <2>1, SkipIsRight DEF Accept, At
  <1> QED
    BY <1>2, <1>3, <1>4 DEF Accept

LEMMA PromoteIsRight == ASSUME NEW c \in Calls, Reading, Promote(c) PROVE Right(c)
  <1>1. pc[c] # "new" /\ ~Finished(c) /\ req[c].op = "promote"
    BY DEF Promote, At, Finished
  <1>2. CASE pc[c] = "start"
    <2>1. PICK label \in {"refused", "write"} : (label = "refused" /\ Skip(c, label)) \/ Look(c, label)
      BY <1>2 DEF Promote, At
    <2> QED
      BY <1>1, <1>2, <2>1, LookIsRight, SkipIsRight DEF Skip, data
  <1>3. CASE pc[c] = "write"
    <2> DEFINE row == [Row(c) EXCEPT !.role = "ADMIN"]
    <2>1. Row(c) \in Rows
      BY <1>1, <1>3, TargetTyped DEF Reading, IInv, SeenStays, Exists
    <2>2. row \in Rows /\ row.role = "ADMIN" /\ row.status = Row(c).status /\ row.deleted = Row(c).deleted
      BY <2>1, RoleSet DEF Roles
    <2>3. \E label \in {"done"} : Store(c, row) /\ Goto(c, label) /\ UNCHANGED <<saw, tokens, assigned, founded>>
      BY <1>3 DEF Promote, At
    <2> HIDE DEF row
    <2>4. PICK label \in {"done"} :
            Store(c, row) /\ Goto(c, label) /\ UNCHANGED <<saw, tokens, assigned, founded>>
      BY <2>3
    <2>5. Fate(c, Row(c), row)
      BY <1>1, <2>1, <2>2, LiveRows DEF Fate, RoleFrom, StatusFrom, LifeFrom, MakeAdmins
    <2> QED
      BY <1>1, <2>4, <2>5, StoreIsRight
  <1> QED
    BY <1>2, <1>3 DEF Promote, At

LEMMA DeactivateIsRight == ASSUME NEW c \in Calls, Reading, Deactivate(c) PROVE Right(c)
  <1>1. pc[c] # "new" /\ ~Finished(c) /\ req[c].op = "deactivate"
    BY DEF Deactivate, At, Finished
  <1>2. CASE pc[c] = "start"
    <2>1. PICK label \in {"refused", "done", "write"} :
            \/ label = "refused" /\ Skip(c, label)
            \/ Look(c, label) /\ req[c].target # req[c].actor
      BY <1>2 DEF Deactivate, At
    <2> QED
      BY <1>1, <1>2, <2>1, LookIsRight, SkipIsRight DEF Skip, data
  <1>3. CASE pc[c] = "write"
    <2> DEFINE row == [Row(c) EXCEPT !.status = "INACTIVE"]
    <2>1. Row(c) \in Rows /\ req[c].target # req[c].actor
      BY <1>1, <1>3, TargetTyped DEF Reading, IInv, SeenStays, Exists, SawsRight, SawRight
    <2>2. row \in Rows /\ row.role = Row(c).role /\ row.status = "INACTIVE" /\ row.deleted = Row(c).deleted
      BY <2>1, StatusSet DEF Statuses
    <2>3. \E label \in {"done"} : Store(c, row) /\ Goto(c, label) /\ UNCHANGED <<saw, tokens, assigned, founded>>
      BY <1>3 DEF Deactivate, At
    <2> HIDE DEF row
    <2>4. PICK label \in {"done"} :
            Store(c, row) /\ Goto(c, label) /\ UNCHANGED <<saw, tokens, assigned, founded>>
      BY <2>3
    <2>5. Fate(c, Row(c), row)
      BY <1>1, <2>1, <2>2, LiveRows DEF Fate, RoleFrom, StatusFrom, LifeFrom, Admin
    <2> QED
      BY <1>1, <2>4, <2>5, StoreIsRight
  <1> QED
    BY <1>2, <1>3 DEF Deactivate, At

LEMMA AssignIsRight ==
  ASSUME NEW c \in Calls, Reading,
         AssignReads(c) \/ AssignCreates(c) \/ AssignChecks(c) \/ AssignInserts(c)
  PROVE  Right(c)
  <1> USE DEF AssignReads, AssignCreates, AssignChecks, AssignInserts, At
  <1>1. pc[c] # "new" /\ ~Finished(c) /\ req[c].op = "assign"
    BY DEF Finished
  <1>2. CASE pc[c] \in {"start", "reread"}
    <2>1. PICK label \in {"check", "create", "refused"} :
            \/ Look(c, label) /\ (label = "create" => ~Exists(Row(c)))
            \/ Skip(c, label) /\ label = "refused"
      BY <1>2
    <2> QED
      BY <1>1, <1>2, <2>1, LookIsRight, SkipIsRight DEF Skip, data
  <1>3. CASE pc[c] = "create"
    <2>1. CASE Exists(Row(c))
      <3>1. PICK label \in {"reread"} : Skip(c, label)
        BY <1>3, <2>1
      <3> QED
        BY <1>1, <1>3, <3>1, SkipIsRight DEF Skip, data
    <2>2. CASE ~Exists(Row(c))
      <3> DEFINE row == New("STAFF")
      <3>1. /\ Store(c, row) /\ saw' = [saw EXCEPT ![c] = row] /\ Goto(c, "check")
            /\ UNCHANGED <<tokens, invites, assigned, founded>>
        BY <1>3, <2>2
      <3>2. row = [role |-> "STAFF", status |-> "ACTIVE", deleted |-> FALSE]
        BY DEF New
      <3>3. Live(row) /\ ~Admin(row)
        BY <3>2 DEF Live, Exists, NoRow, Admin
      <3>4. Fate(c, Row(c), row)
        BY <2>2, <3>2, <3>3 DEF Fate, RoleFrom, StatusFrom, LifeFrom, Live
      <3> HIDE DEF row
      <3>5. /\ req'[c] = req[c] /\ pc'[c] = "check" /\ saw'[c] = row /\ saw[c] = NoRow
            /\ user'[req[c].target] = row
            /\ \A a \in Addresses \ {req[c].target} : user'[a] = user[a]
        BY <1>1, <1>3, <3>1, TargetTyped DEF Store, Goto, Reading, IInv, TypeOK, SawsRight, SawRight
      <3>6. StaffStep(c)
        BY <3>1, <3>5 DEF StaffStep
      <3>7. Change(c)
        BY <1>1, <3>1, <3>4, <3>5, <3>6 DEF Change
      <3>8. SawRight(c)'
        BY <3>5 DEF SawRight, Row
      <3> QED
        BY <3>7, <3>8 DEF Right
    <2> QED
      BY <2>1, <2>2
  <1>4. CASE pc[c] = "check"
    <2>1. PICK label \in {"refused", "promote", "insert"} :
            /\ Skip(c, label)
            /\ label = "promote" => saw[c].role = "ATTENDEE"
            /\ label = "insert" => saw[c].role = "STAFF"
      BY <1>4
    <2>2. Goto(c, label) /\ UNCHANGED <<user, tokens, assigned, founded, saw>>
      BY <2>1 DEF Skip, data
    <2> QED
      BY <1>1, <1>4, <2>1, <2>2, SkipIsRight
  <1>5. CASE pc[c] = "promote"
    <2> DEFINE row == [Row(c) EXCEPT !.role = "STAFF"]
    <2>1. Row(c) \in Rows /\ saw[c].role = "ATTENDEE"
      BY <1>1, <1>5, TargetTyped DEF Reading, IInv, SeenStays, Exists, SawsRight, SawRight
    <2>2. row \in Rows /\ row.role = "STAFF" /\ row.status = Row(c).status /\ row.deleted = Row(c).deleted
      BY <2>1, RoleSet DEF Roles
    <2>3. /\ Store(c, row) /\ Goto(c, "insert")
          /\ UNCHANGED <<tokens, invites, assigned, founded, saw>>
      BY <1>5
    <2> HIDE DEF row
    <2>4. Fate(c, Row(c), row)
      BY <1>1, <2>1, <2>2, LiveRows DEF Fate, RoleFrom, StatusFrom, LifeFrom, Admin
    <2>5. /\ req'[c] = req[c] /\ pc'[c] = "insert" /\ saw'[c] = saw[c]
          /\ user'[req[c].target] = row
          /\ \A a \in Addresses \ {req[c].target} : user'[a] = user[a]
      BY <1>1, <2>3, TargetTyped DEF Store, Goto, Reading, IInv, TypeOK
    <2>6. StaffStep(c)
      BY <2>2, <2>3, <2>5 DEF StaffStep
    <2>7. Change(c)
      BY <1>1, <2>3, <2>4, <2>5, <2>6 DEF Change
    <2>8. SawRight(c)'
      BY <2>4, <2>5 DEF SawRight, Reading, SawsRight, Row, Fate, LifeFrom
    <2> QED
      BY <2>7, <2>8 DEF Right
  <1>6. CASE pc[c] = "insert"
    <2>1. PICK label \in {"done", "refused"} : Goto(c, label)
      BY <1>6
    <2>2. UNCHANGED <<user, tokens, founded, saw>>
      BY <1>6
    <2> QED
      BY <1>1, <1>6, <2>1, <2>2, SkipIsRight
  <1> QED
    BY <1>2, <1>3, <1>4, <1>5, <1>6

LEMMA RemoveIsRight == ASSUME NEW c \in Calls, Reading, Remove(c) PROVE Right(c)
  <1>1. pc[c] # "new" /\ ~Finished(c)
    BY DEF Remove, At, Finished
  <1>2. PICK label \in {"delete", "done", "refused"} : Skip(c, label) \/ Goto(c, label)
    BY DEF Remove, At
  <1>3. UNCHANGED <<user, tokens, founded, saw>> /\ assigned' \subseteq assigned /\ Goto(c, label)
    BY <1>2 DEF Remove, At, Skip, data
  <1> QED
    BY <1>1, <1>3, SkipIsRight

Steps(c) ==
  \/ Login(c) \/ Register(c) \/ Google(c) \/ BootstrapChecks(c) \/ BootstrapWrites(c)
  \/ Invite(c) \/ Accept(c) \/ Promote(c) \/ Deactivate(c)
  \/ AssignReads(c) \/ AssignCreates(c) \/ AssignChecks(c) \/ AssignInserts(c)
  \/ Remove(c)

LEMMA StepIsRight == ASSUME NEW c \in Calls, Reading, Steps(c) PROVE Right(c)
  BY LoginIsRight, RegisterIsRight, GoogleIsRight, BootstrapIsRight, InviteIsRight, AcceptIsRight,
     PromoteIsRight, DeactivateIsRight, AssignIsRight, RemoveIsRight DEF Steps

LEMMA StepIsLegal == ASSUME NEW c \in Calls, IInv, Steps(c) PROVE \E label : Legal(c, label)
  BY LoginIsLegal, RegisterIsLegal, GoogleIsLegal, BootstrapIsLegal, InviteIsLegal, AcceptIsLegal,
     PromoteIsLegal, AssignIsLegal, RemoveIsLegal DEF Steps

\* The frame of a step, Begin or another: only its own call moves.
LEMMA Frame ==
  ASSUME NEW c \in Calls, Reading, Steps(c)
  PROVE  /\ pc[c] # "new" /\ pc'[c] # "new" /\ ~Finished(c) /\ UNCHANGED <<req, after>>
         /\ req[c] \in RequestType /\ req[c].target \in Addresses
         /\ \A d \in Calls \ {c} : pc'[d] = pc[d] /\ saw'[d] = saw[d]
         /\ saw'[c] = saw[c] \/ saw'[c] = user'[req[c].target]
         /\ assigned' \subseteq assigned \cup {c}
         /\ tokens' \subseteq tokens \cup {<<req[c].target, user'[req[c].target].role>>}
  <1>1. IInv
    BY DEF Reading
  <1>2. PICK label : Legal(c, label)
    BY <1>1, StepIsLegal
  <1>3. Change(c)
    BY StepIsRight DEF Right
  <1> QED
    BY <1>1, <1>2, <1>3, TargetTyped DEF Legal, Change, IInv, TypeOK

LEMMA ReadingKept == ASSUME Reading, [Next]_vars PROVE Reading'
  <1>1. IInv'
    BY NextKeeps DEF Reading
  <1>2. CASE UNCHANGED vars
    BY <1>1, <1>2 DEF vars, data, Reading, SawsRight, SawRight, AfterIsOver, Finished, Row
  <1>3. ASSUME NEW c \in Calls, Begin(c) PROVE Reading'
    <2>1. /\ pc[c] = "new" /\ pc' = [pc EXCEPT ![c] = "start"] /\ UNCHANGED <<data, saw>>
          /\ after' = [after EXCEPT ![c] = {d \in Calls : Finished(d)}]
          /\ \E r : req' = [req EXCEPT ![c] = r]
      BY <1>3 DEF Begin
    <2>2. \A d \in Calls : Finished(d) => Finished(d)' /\ d # c
      BY <2>1 DEF Finished, Reading, IInv, TypeOK
    <2>3. AfterIsOver'
      BY <2>1, <2>2 DEF AfterIsOver, Reading, IInv, TypeOK
    <2>4. SawsRight'
      <3> SUFFICES ASSUME NEW d \in Calls PROVE SawRight(d)'
        BY DEF SawsRight
      <3>1. CASE d = c
        <4>1. pc'[c] = "start" /\ saw'[c] = NoRow
          BY <2>1 DEF Reading, SawsRight, SawRight, IInv, TypeOK
        <4> QED
          BY <3>1, <4>1, LiveRows DEF SawRight
      <3>2. CASE d # c
        <4>1. pc'[d] = pc[d] /\ saw'[d] = saw[d] /\ req'[d] = req[d] /\ user' = user /\ assigned' = assigned
          BY <2>1, <3>2 DEF data, Reading, IInv, TypeOK
        <4> QED
          BY <4>1 DEF Reading, SawsRight, SawRight, Row
      <3> QED
        BY <3>1, <3>2
    <2> QED
      BY <1>1, <2>3, <2>4 DEF Reading
  <1>4. ASSUME NEW c \in Calls, Steps(c) PROVE Reading'
    <2>1. Change(c) /\ SawRight(c)'
      BY <1>4, StepIsRight DEF Right
    <2>2. /\ UNCHANGED <<req, after>> /\ assigned' \subseteq assigned \cup {c} /\ ~Finished(c) /\ pc'[c] # "new"
          /\ \A d \in Calls \ {c} : pc'[d] = pc[d] /\ saw'[d] = saw[d]
      BY <1>4, Frame
    <2>3. AfterIsOver'
      BY <2>2 DEF AfterIsOver, Reading, Finished, IInv, TypeOK
    <2>4. SawsRight'
      <3> SUFFICES ASSUME NEW d \in Calls, d # c PROVE SawRight(d)'
        BY <2>1 DEF SawsRight
      <3>1. pc'[d] = pc[d] /\ saw'[d] = saw[d] /\ req'[d] = req[d]
        BY <2>2
      <3>2. pc[d] = "new" \/ (Live(Row(d)) => Live(Row(d))')
        <4>1. CASE req[d].target = req[c].target
          BY <2>1, <2>2, <4>1 DEF Change, Fate, LifeFrom, Row
        <4>2. CASE req[d].target # req[c].target /\ req[d].target \in Addresses
          BY <2>1, <2>2, <4>2 DEF Change, Row
        <4>3. CASE req[d].target \notin Addresses
          BY <4>3 DEF Reading, IInv, TypeOK, RequestType
        <4> QED
          BY <4>1, <4>2, <4>3
      <3> QED
        BY <2>2, <3>1, <3>2, LiveRows DEF Reading, SawsRight, SawRight
    <2> QED
      BY <1>1, <2>3, <2>4 DEF Reading
  <1> QED
    BY <1>2, <1>3, <1>4 DEF Next, Steps

LEMMA ReadingAtFirst == Init => Reading
  <1> SUFFICES ASSUME Init PROVE Reading
    OBVIOUS
  <1>1. IInv
    BY InitHolds
  <1>2. SawsRight
    BY LiveRows DEF Init, SawsRight, SawRight
  <1>3. AfterIsOver
    BY DEF Init, AfterIsOver
  <1> QED
    BY <1>1, <1>2, <1>3 DEF Reading

\* No step leaves its call where it was.
LEMMA StepMoves == ASSUME NEW c \in Calls, IInv, Steps(c) PROVE pc'[c] # pc[c]
  <1> USE DEF At, Insert, Look, Skip, Goto, IInv, TypeOK
  <1>1. CASE Login(c)
    BY <1>1 DEF Login
  <1>2. CASE Register(c)
    BY <1>2 DEF Register
  <1>3. CASE Google(c)
    BY <1>3 DEF Google
  <1>4. CASE BootstrapChecks(c)
    BY <1>4 DEF BootstrapChecks
  <1>5. CASE BootstrapWrites(c)
    BY <1>5 DEF BootstrapWrites
  <1>6. CASE Invite(c)
    BY <1>6 DEF Invite
  <1>7. CASE Accept(c)
    BY <1>7 DEF Accept
  <1>8. CASE Promote(c)
    BY <1>8 DEF Promote
  <1>9. CASE Deactivate(c)
    BY <1>9 DEF Deactivate
  <1>10. CASE AssignReads(c)
    BY <1>10 DEF AssignReads
  <1>11. CASE AssignCreates(c)
    BY <1>11 DEF AssignCreates
  <1>12. CASE AssignChecks(c)
    BY <1>12 DEF AssignChecks
  <1>13. CASE AssignInserts(c)
    BY <1>13 DEF AssignInserts
  <1>14. CASE Remove(c)
    BY <1>14 DEF Remove
  <1> QED
    BY <1>1, <1>2, <1>3, <1>4, <1>5, <1>6, <1>7, <1>8, <1>9, <1>10, <1>11, <1>12, <1>13, <1>14 DEF Steps

LEMMA Sticking ==
  ASSUME Reading, [Next]_vars, NEW a \in Addresses,
         user[a].status \in {"INACTIVE", "SUSPENDED"}, user'[a].status = "ACTIVE"
  PROVE  \E c \in Calls :
           /\ pc[c] # "new" /\ pc'[c] # pc[c] /\ req[c].target = a
           /\ \/ req[c].op = "bootstrap"
              \/ req[c].op = "accept" /\ saw[c].deleted
              \/ /\ req[c].op = "google" /\ saw[c].deleted
                 /\ saw[c].status # "SUSPENDED"
  <1>1. user' # user
    OBVIOUS
  <1>2. PICK c \in Calls : Steps(c)
    BY <1>1 DEF Next, Steps, Begin, vars, data
  <1>3. Change(c) /\ pc[c] # "new" /\ pc'[c] # pc[c]
    BY <1>2, StepIsRight, StepMoves, Frame DEF Right, Reading
  <1>4. req[c].target = a
    BY <1>3 DEF Change
  <1>5. Exists(Row(c)) /\ StatusFrom(c, Row(c), user'[a])
    BY <1>3, <1>4 DEF Change, Fate, Row, Exists, NoRow
  <1> QED
    BY <1>3, <1>4, <1>5 DEF StatusFrom, Revives, Row

\* Neither a suspension nor, of an account that was not deleted, a deactivation
\* is lifted by a sign-in, whatever ran in between: a call that reactivates an
\* account read it while it was deleted, or it is the bootstrap script.
THEOREM DeactivationsStick == Spec => DeactivationSticks
  <1>1. Init => Reading
    BY ReadingAtFirst
  <1>2. Reading /\ [Next]_vars => Reading'
    BY ReadingKept
  <1>3. Reading /\ [Next]_vars =>
          [\A a \in Addresses :
             /\ user[a].status \in {"INACTIVE", "SUSPENDED"}
             /\ user'[a].status = "ACTIVE"
             => \E c \in Calls :
                  /\ pc[c] # "new" /\ pc'[c] # pc[c] /\ req[c].target = a
                  /\ \/ req[c].op = "bootstrap"
                     \/ req[c].op = "accept" /\ saw[c].deleted
                     \/ /\ req[c].op = "google" /\ saw[c].deleted
                        /\ saw[c].status # "SUSPENDED"]_vars
    BY Sticking
  <1> QED
    BY <1>1, <1>2, <1>3, PTL DEF Spec, DeactivationSticks

(***************************************************************************)
(* Staff: the role a call checked, or stored, stays one the gate lets in   *)
(* until somebody registers over the row of a deleted user.                *)
(***************************************************************************)
StaffOrReset(c) ==
  \/ Row(c).role \in {"STAFF", "ADMIN"}
  \/ \E d \in Answered("register") : req[d].target = req[c].target /\ saw[d].deleted

Counted(c) ==
  \/ c \in assigned
  \/ pc[c] = "insert"
  \/ pc[c] = "check" /\ saw[c].role = "STAFF"

Staffed == \A c \in Calls : Counted(c) => StaffOrReset(c)

LEMMA StaffedKept == ASSUME Reading, Staffed, [Next]_vars PROVE Staffed'
  <1>1. CASE UNCHANGED vars
    BY <1>1 DEF vars, data, Staffed, Counted, StaffOrReset, Row, Answered
  <1>2. ASSUME NEW c \in Calls, Begin(c) PROVE Staffed'
    <2>1. /\ pc[c] = "new" /\ pc' = [pc EXCEPT ![c] = "start"] /\ UNCHANGED <<data, saw>>
          /\ \E r : req' = [req EXCEPT ![c] = r]
      BY <1>2 DEF Begin
    <2>2. /\ pc'[c] = "start" /\ c \notin assigned
          /\ \A d \in Calls \ {c} : pc'[d] = pc[d] /\ req'[d] = req[d]
      BY <2>1 DEF Reading, SawsRight, SawRight, IInv, TypeOK
    <2> SUFFICES ASSUME NEW d \in Calls, Counted(d)' PROVE StaffOrReset(d)'
      BY DEF Staffed
    <2>3. d # c /\ Counted(d) /\ StaffOrReset(d)
      BY <2>1, <2>2 DEF Counted, Staffed, data
    <2> QED
      BY <2>1, <2>2, <2>3 DEF StaffOrReset, Row, data, Answered
  <1>3. ASSUME NEW c \in Calls, Steps(c) PROVE Staffed'
    <2>1. Change(c)
      BY <1>3, StepIsRight DEF Right
    <2>2. /\ UNCHANGED req /\ ~Finished(c) /\ pc[c] # "new" /\ assigned' \subseteq assigned \cup {c}
          /\ \A d \in Calls \ {c} : pc'[d] = pc[d] /\ saw'[d] = saw[d]
          /\ req[c] \in RequestType
      BY <1>3, Frame
    <2> SUFFICES ASSUME NEW d \in Calls, Counted(d)' PROVE StaffOrReset(d)'
      BY DEF Staffed
    <2>3. \A e \in Answered("register") : e \in Answered("register")' /\ saw'[e] = saw[e]
      BY <2>2 DEF Answered, Finished
    <2>4. pc[d] # "new" /\ req[d].target \in Addresses
      BY <2>2 DEF Counted, Reading, SawsRight, SawRight, IInv, TypeOK, RequestType
    <2>5. CASE StaffOrReset(d)
      <3>1. CASE req[d].target # req[c].target
        BY <2>1, <2>2, <2>3, <2>4, <2>5, <3>1 DEF Change, StaffOrReset, Row
      <3>2. CASE req[d].target = req[c].target /\ Row(d).role \in {"STAFF", "ADMIN"}
        <4>1. RoleFrom(c, Row(d), user'[req[d].target]) /\ Exists(Row(d))
          BY <2>1, <3>2 DEF Change, Fate, Row, Exists, NoRow
        <4>2. CASE user'[req[d].target].role \in {"STAFF", "ADMIN"}
          BY <2>2, <4>2 DEF StaffOrReset, Row
        <4>3. CASE user'[req[d].target].role \notin {"STAFF", "ADMIN"}
          <5>1. req[c].op = "register" /\ saw[c].deleted /\ pc'[c] = "done"
            BY <3>2, <4>1, <4>3 DEF RoleFrom
          <5>2. saw'[c].deleted
            <6>1. saw[c] # NoRow
              BY <5>1 DEF NoRow
            <6> QED
              BY <2>1, <5>1, <6>1 DEF Change
          <5> QED
            BY <2>2, <3>2, <5>1, <5>2 DEF StaffOrReset, Answered
        <4> QED
          BY <4>2, <4>3
      <3>3. CASE Row(d).role \notin {"STAFF", "ADMIN"}
        BY <2>2, <2>3, <2>5, <3>3 DEF StaffOrReset
      <3> QED
        BY <3>1, <3>2, <3>3
    <2>6. CASE ~StaffOrReset(d)
      <3>1. ~Counted(d)
        BY <2>6 DEF Staffed
      <3>2. d = c
        BY <2>2, <3>1 DEF Counted
      <3>3. user'[req[c].target].role = "STAFF"
        BY <2>1, <3>1, <3>2 DEF Change, StaffStep, Counted
      <3> QED
        BY <2>2, <3>2, <3>3 DEF StaffOrReset, Row
    <2> QED
      BY <2>5, <2>6
  <1> QED
    BY <1>1, <1>2, <1>3 DEF Next, Steps

\* Whoever is assigned has a role the gate lets in, or was registered afresh
\* after a deletion, however other calls write the role in between.
THEOREM StaffHoldTheirRole == Spec => []AssignedAreStaff
  <1>1. Init => Reading /\ Staffed
    <2>1. Init => Staffed
      BY DEF Init, Staffed, Counted
    <2> QED
      BY <2>1, ReadingAtFirst
  <1>2. Reading /\ Staffed /\ [Next]_vars => (Reading /\ Staffed)'
    BY ReadingKept, StaffedKept
  <1>3. Reading /\ Staffed => AssignedAreStaff
    BY DEF Reading, Staffed, Counted, StaffOrReset, AssignedAreStaff, IInv, TypeOK
  <1> QED
    BY <1>1, <1>2, <1>3, PTL DEF Spec

(***************************************************************************)
(* The last administrator.  What a call read before somebody became an     *)
(* administrator and may still write over; and that whoever has begun a    *)
(* deactivation is an administrator who can sign in, hence one more than   *)
(* its target.                                                             *)
(***************************************************************************)
Chief(a) == Usable(user[a]) /\ Admin(user[a])

TwoDeactivations ==
  \E c, d \in Calls : /\ c # d /\ Overlap(c, d)
                      /\ req[c].op = "deactivate" /\ req[d].op = "deactivate"
Excused == StaleWrite \/ TwoDeactivations

OverAdmin(c) ==
  \/ req[c].op = "assign" /\ saw[c].role = "ATTENDEE" /\ Row(c).role = "ADMIN"
  \/ req[c].op = "register" /\ saw[c].deleted /\ Admin(Row(c))

Deactivating(c, a) == ~Finished(c) /\ req[c].op = "deactivate" /\ req[c].actor = a

Rule ==
  /\ \A c \in Calls : ~Finished(c) /\ OverAdmin(c) => StaleWrite
  /\ \A a \in Addresses : <<a, "ADMIN">> \in tokens => Admin(user[a]) \/ StaleWrite
  /\ \A c \in Calls, a \in Addresses : Deactivating(c, a) => Chief(a) \/ Excused
  /\ founded => (\E a \in Addresses : Chief(a)) \/ Excused

LEMMA RuleAtFirst == Init => Rule
  <1> SUFFICES ASSUME Init PROVE Rule
    OBVIOUS
  <1>1. PICK i \in Installations :
          /\ user = i.user /\ tokens = i.tokens
          /\ founded = \/ \E a \in Addresses : i.user[a].role = "ADMIN"
                       \/ \E a \in Addresses : <<a, "ADMIN">> \in i.tokens
    BY DEF Init
  <1>2. \A a \in Addresses : <<a, "ADMIN">> \in tokens => Admin(user[a])
    BY <1>1, AdministratorsAreReal
  <1>3. founded => \E a \in Addresses : Chief(a)
    <2>1. founded => \E a \in Addresses : user[a].role = "ADMIN"
      BY <1>1, <1>2 DEF Admin
    <2>2. (\E a \in Addresses : user[a].role = "ADMIN") => \E a \in Addresses : Chief(a)
      BY <1>1, AdministratorsAreReal DEF Chief
    <2> QED
      BY <2>1, <2>2
  <1>4. \A c \in Calls : req[c].op = "none" /\ ~OverAdmin(c)
    BY DEF Init, NoRequest, OverAdmin
  <1> QED
    BY <1>2, <1>3, <1>4 DEF Rule, Deactivating

\* The overlap that excuses stays on record.
LEMMA ExcuseStays ==
  ASSUME Reading, [Next]_vars
  PROVE  (StaleWrite => StaleWrite') /\ (TwoDeactivations => TwoDeactivations')
  <1>1. \A c \in Calls : req[c].op # "none" => req'[c] = req[c] /\ after'[c] = after[c] /\ (saw[c] # NoRow => saw'[c] = saw[c])
    <2>1. CASE UNCHANGED vars
      BY <2>1 DEF vars
    <2>2. ASSUME NEW e \in Calls, Begin(e), NEW c \in Calls, req[c].op # "none"
          PROVE  req'[c] = req[c] /\ after'[c] = after[c] /\ saw'[c] = saw[c]
      <3>1. /\ pc[e] = "new" /\ UNCHANGED saw
            /\ \E x : after' = [after EXCEPT ![e] = x]
            /\ \E r : req' = [req EXCEPT ![e] = r]
        BY <2>2 DEF Begin
      <3>2. c # e
        BY <2>2, <3>1 DEF Reading, SawsRight, SawRight, NoRequest
      <3> QED
        BY <3>1, <3>2 DEF Reading, IInv, TypeOK
    <2>3. ASSUME NEW e \in Calls, Steps(e), NEW c \in Calls
          PROVE  req'[c] = req[c] /\ after'[c] = after[c] /\ (saw[c] # NoRow => saw'[c] = saw[c])
      BY <2>3, Frame, StepIsRight DEF Right, Change
    <2> QED
      BY <2>1, <2>2, <2>3 DEF Next, Steps
  <1>2. StaleWrite => StaleWrite'
    <2> SUFFICES ASSUME StaleWrite PROVE StaleWrite'
      OBVIOUS
    <2>1. PICK c, d \in Calls :
            /\ \/ /\ req[c].op = "assign" /\ saw[c].role = "ATTENDEE"
                  /\ req[d].op \in MakeAdmins
               \/ /\ req[c].op = "register" /\ saw[c].deleted
                  /\ req[d].op \in MakeAdmins \cup {"google"}
            /\ req[d].target = req[c].target /\ Overlap(c, d)
      BY DEF StaleWrite
    <2>2. req[c].op # "none" /\ req[d].op # "none" /\ saw[c] # NoRow
      BY <2>1 DEF MakeAdmins, NoRow
    <2>3. /\ req'[c] = req[c] /\ after'[c] = after[c] /\ saw'[c] = saw[c]
          /\ req'[d] = req[d] /\ after'[d] = after[d]
      BY <1>1, <2>2
    <2> QED
      BY <2>1, <2>3 DEF StaleWrite, Overlap
  <1>3. TwoDeactivations => TwoDeactivations'
    BY <1>1 DEF TwoDeactivations, Overlap
  <1> QED
    BY <1>2, <1>3

LEMMA BothUnderWay ==
  ASSUME Reading, NEW c \in Calls, NEW d \in Calls, ~Finished(c), ~Finished(d)
  PROVE  Overlap(c, d) /\ Overlap(d, c)
  BY DEF Reading, AfterIsOver, Overlap

LEMMA AdminLost ==
  ASSUME Reading, Rule, NEW c \in Calls, Steps(c), NEW a \in Addresses, Admin(user[a]), ~Admin(user'[a])
  PROVE  StaleWrite
  <1>1. Change(c)
    BY StepIsRight DEF Right
  <1>2. a = req[c].target
    BY <1>1 DEF Change
  <1>3. Fate(c, user[a], user'[a]) /\ ~Finished(c) /\ Row(c) = user[a]
    BY <1>1, <1>2 DEF Change, Row
  <1>4. OverAdmin(c)
    BY <1>3 DEF Fate, RoleFrom, LifeFrom, Admin, Live, OverAdmin
  <1> QED
    BY <1>3, <1>4 DEF Rule

LEMMA ChiefLost ==
  ASSUME Reading, Rule, NEW c \in Calls, Steps(c), NEW a \in Addresses, Chief(a), ~Chief(a)'
  PROVE  StaleWrite \/ (req[c].op = "deactivate" /\ req[c].target = a /\ req[c].actor # a)
  <1>1. Change(c)
    BY StepIsRight DEF Right
  <1>2. a = req[c].target
    BY <1>1 DEF Change, Chief
  <1>3. Fate(c, user[a], user'[a])
    BY <1>1, <1>2 DEF Change, Row
  <1>4. Admin(user[a]) /\ (Admin(user'[a]) => user'[a].status # "ACTIVE") /\ user[a].status = "ACTIVE"
    BY DEF Chief, Usable, Admin
  <1>5. CASE ~Admin(user'[a])
    BY <1>4, <1>5, AdminLost
  <1>6. CASE user'[a].status # "ACTIVE"
    BY <1>2, <1>3, <1>4, <1>6 DEF Fate, StatusFrom
  <1> QED
    BY <1>4, <1>5, <1>6

LEMMA RuleKept == ASSUME Reading, Rule, [Next]_vars PROVE Rule'
  <1>0. (StaleWrite => StaleWrite') /\ (Excused => Excused')
    BY ExcuseStays DEF Excused
  <1>1. CASE UNCHANGED vars
    <2>1. /\ \A c \in Calls : /\ Finished(c)' = Finished(c) /\ OverAdmin(c)' = OverAdmin(c)
          /\ \A c \in Calls, a \in Addresses : Deactivating(c, a)' = Deactivating(c, a)
          /\ \A a : Chief(a)' = Chief(a)
          /\ user' = user /\ tokens' = tokens /\ founded' = founded
      BY <1>1 DEF vars, data, Finished, OverAdmin, Chief, Row, Deactivating
    <2> QED
      BY <1>0, <2>1 DEF Rule
  <1>2. ASSUME NEW c \in Calls, Begin(c) PROVE Rule'
    <2>1. PICK r \in Requests :
            /\ pc[c] = "new" /\ Admitted(r)
            /\ req' = [req EXCEPT ![c] = IF r.op = "accept" THEN [r EXCEPT !.target = req[r.about].target]
                                         ELSE r]
            /\ pc' = [pc EXCEPT ![c] = "start"]
            /\ UNCHANGED <<data, saw>>
      BY <1>2 DEF Begin
    <2>2. saw[c] = NoRow /\ UNCHANGED <<user, tokens, founded, saw>>
      BY <2>1 DEF Reading, SawsRight, SawRight, data
    <2>3. \A d \in Calls \ {c} : pc'[d] = pc[d] /\ req'[d] = req[d]
      BY <2>1 DEF Reading, IInv, TypeOK
    <2>4. \A a : Chief(a)' = Chief(a)
      BY <2>2 DEF Chief
    <2>5. \A d \in Calls : ~Finished(d)' /\ OverAdmin(d)' => StaleWrite'
      <3> SUFFICES ASSUME NEW d \in Calls, ~Finished(d)', OverAdmin(d)' PROVE StaleWrite'
        OBVIOUS
      <3>1. d # c
        BY <2>2 DEF OverAdmin, NoRow
      <3>2. ~Finished(d) /\ OverAdmin(d)
        BY <3>1, <2>2, <2>3 DEF OverAdmin, Finished, Row
      <3> QED
        BY <1>0, <3>2 DEF Rule
    <2>6. \A d \in Calls, a \in Addresses : Deactivating(d, a)' => Chief(a)' \/ Excused'
      <3> SUFFICES ASSUME NEW d \in Calls, NEW a \in Addresses, Deactivating(d, a)'
                   PROVE  Chief(a)' \/ Excused'
        OBVIOUS
      <3>1. CASE d = c
        <4>1. r.op = "deactivate" /\ r.actor = a
          <5>1. req'[c] = IF r.op = "accept" THEN [r EXCEPT !.target = req[r.about].target] ELSE r
            BY <2>1 DEF Reading, IInv, TypeOK
          <5>2. r \in RequestType
            BY <2>1, RequestsAreTyped
          <5> QED
            BY <3>1, <5>1, <5>2 DEF RequestType, Deactivating
        <4>2. Usable(user[a]) /\ <<a, "ADMIN">> \in tokens
          BY <2>1, <4>1 DEF Admitted, RequireAuth, RequireRole
        <4>3. Chief(a) \/ StaleWrite
          BY <4>2 DEF Rule, Chief
        <4> QED
          BY <1>0, <2>4, <4>3 DEF Excused
      <3>2. CASE d # c
        <4>1. Deactivating(d, a)
          BY <2>3, <3>2 DEF Finished, Deactivating
        <4> QED
          BY <1>0, <2>4, <4>1 DEF Rule
      <3> QED
        BY <3>1, <3>2
    <2> QED
      BY <1>0, <2>2, <2>4, <2>5, <2>6 DEF Rule
  <1>3. ASSUME NEW c \in Calls, Steps(c) PROVE Rule'
    <2>1. Change(c)
      BY <1>3, StepIsRight DEF Right
    <2>2. /\ pc[c] # "new" /\ pc'[c] # "new" /\ ~Finished(c) /\ UNCHANGED <<req, after>>
          /\ req[c] \in RequestType /\ req[c].target \in Addresses /\ req[c].actor \in Addresses
          /\ \A d \in Calls \ {c} : pc'[d] = pc[d] /\ saw'[d] = saw[d]
          /\ saw'[c] = saw[c] \/ saw'[c] = user'[req[c].target]
          /\ tokens' \subseteq tokens \cup {<<req[c].target, user'[req[c].target].role>>}
      BY <1>3, Frame DEF RequestType
    <2>3. \A d \in Calls : ~Finished(d)' /\ OverAdmin(d)' => StaleWrite'
      <3> SUFFICES ASSUME NEW d \in Calls, ~Finished(d)', OverAdmin(d)' PROVE StaleWrite'
        OBVIOUS
      <3>1. req'[d] = req[d] /\ req[d].op \in {"assign", "register"} /\ ~Finished(d)
        BY <2>2 DEF OverAdmin, Finished
      <3>2. CASE OverAdmin(d)
        BY <1>0, <3>1, <3>2 DEF Rule
      <3>3. CASE ~OverAdmin(d) /\ saw'[d] = saw[d]
        <4>1. req[d].target = req[c].target
          <5>1. req[d].target \in Addresses
            BY <3>1 DEF Reading, IInv, TypeOK, RequestType, NoRequest
          <5> QED
            BY <2>1, <3>1, <3>3, <5>1 DEF Change, OverAdmin, Row
        <4>2. Fate(c, Row(d), Row(d)')
          BY <2>1, <3>1, <4>1 DEF Change, Row
        <4>3. \/ req[d].op = "assign" /\ saw[d].role = "ATTENDEE" /\ req[c].op \in MakeAdmins
              \/ req[d].op = "register" /\ saw[d].deleted /\ req[c].op \in MakeAdmins \cup {"google"}
          BY <3>1, <3>3, <4>2 DEF OverAdmin, Fate, RoleFrom, LifeFrom, Admin
        <4>4. Overlap(d, c)
          BY <2>2, <3>1, BothUnderWay
        <4>5. StaleWrite
          BY <4>1, <4>3, <4>4 DEF StaleWrite
        <4> QED
          BY <1>0, <4>5
      <3>4. CASE saw'[d] # saw[d]
        BY <2>2, <3>1, <3>4 DEF OverAdmin, Row, Admin, Live
      <3> QED
        BY <3>2, <3>3, <3>4
    <2>4. \A a \in Addresses : <<a, "ADMIN">> \in tokens' => Admin(user'[a]) \/ StaleWrite'
      <3> SUFFICES ASSUME NEW a \in Addresses, <<a, "ADMIN">> \in tokens', ~Admin(user'[a]) PROVE StaleWrite'
        OBVIOUS
      <3>1. <<a, "ADMIN">> \in tokens
        BY <2>1, <2>2 DEF Change, Admin
      <3>2. Admin(user[a]) => StaleWrite
        BY <1>3, AdminLost
      <3> QED
        BY <1>0, <3>1, <3>2 DEF Rule
    <2>5. \A d \in Calls, a \in Addresses : Deactivating(d, a)' => Chief(a)' \/ Excused'
      <3> SUFFICES ASSUME NEW d \in Calls, NEW a \in Addresses, Deactivating(d, a)', ~Chief(a)'
                   PROVE  Excused'
        OBVIOUS
      <3>1. ~Finished(d) /\ Deactivating(d, a)
        BY <2>2 DEF Finished, Deactivating
      <3>2. CASE Chief(a)
        <4>1. StaleWrite \/ (req[c].op = "deactivate" /\ req[c].target = a /\ req[c].actor # a)
          BY <1>3, <3>2, ChiefLost
        <4>2. CASE StaleWrite
          BY <1>0, <4>2 DEF Excused
        <4>3. CASE req[c].op = "deactivate" /\ req[c].actor # a
          <5>1. c # d /\ Overlap(c, d)
            BY <2>2, <3>1, <4>3, BothUnderWay DEF Deactivating
          <5> QED
            BY <1>0, <3>1, <4>3, <5>1 DEF Excused, TwoDeactivations, Deactivating
        <4> QED
          BY <4>1, <4>2, <4>3
      <3>3. CASE ~Chief(a)
        BY <1>0, <3>1, <3>3 DEF Rule
      <3> QED
        BY <3>2, <3>3
    <2>6. founded' => (\E a \in Addresses : Chief(a)') \/ Excused'
      <3> SUFFICES ASSUME founded', ~Excused' PROVE \E a \in Addresses : Chief(a)'
        OBVIOUS
      <3>1. CASE ~founded
        BY <2>1, <2>2, <3>1 DEF Change, Chief
      <3>2. CASE founded
        <4>1. PICK a \in Addresses : Chief(a)
          BY <1>0, <3>2 DEF Rule
        <4>2. CASE Chief(a)'
          BY <4>2
        <4>3. CASE ~Chief(a)'
          <5>1. req[c].op = "deactivate" /\ req[c].target = a /\ req[c].actor # a
            BY <1>0, <1>3, <4>1, <4>3, ChiefLost DEF Excused
          <5>2. PICK b \in Addresses : b = req[c].actor
            BY <2>2
          <5>3. Chief(b)
            BY <1>0, <2>2, <5>1, <5>2 DEF Rule, Deactivating
          <5> QED
            BY <2>1, <5>1, <5>2, <5>3 DEF Change, Chief
        <4> QED
          BY <4>2, <4>3
      <3> QED
        BY <3>1, <3>2
    <2> QED
      BY <2>3, <2>4, <2>5, <2>6 DEF Rule
  <1> QED
    BY <1>1, <1>2, <1>3 DEF Next, Steps

\* There is always an administrator left who can sign in, except after two
\* deactivations at once, or a role written over an administrator's from a row
\* read before: whoever deactivates somebody is one.
THEOREM LockedOutOnlyByOverlap == Spec => []LockoutNeedsOverlap
  <1>1. Init => Reading /\ Rule
    BY ReadingAtFirst, RuleAtFirst
  <1>2. Reading /\ Rule /\ [Next]_vars => (Reading /\ Rule)'
    BY ReadingKept, RuleKept
  <1>3. Reading /\ Rule => LockoutNeedsOverlap
    BY DEF Rule, Chief, Excused, TwoDeactivations, LockoutNeedsOverlap
  <1> QED
    BY <1>1, <1>2, <1>3, PTL DEF Spec

=============================================================================
