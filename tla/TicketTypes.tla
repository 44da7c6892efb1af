---------------------------- MODULE TicketTypes ----------------------------
(***************************************************************************)
(* The ticket types of the events of EventLifecycle, and registrations for *)
(* them: createTicketType numbers a type after the last one and tries      *)
(* again when another call took the number, deleteTicketType is refused by *)
(* the foreign key of a registration, registerFree reads the event once    *)
(* and inserts later.  A type and a registration are named by the call     *)
(* that made them.                                                         *)
(***************************************************************************)
EXTENDS EventLifecycle, Integers, FiniteSetsExt

CONSTANT FirstTypes   \* the types there are at first, a function on their ids

VARIABLES types, registered, top

vars == <<eventVars, types, registered, top>>

TypeRows == [order : Nat, event : Events, active : BOOLEAN]
NoType == [order |-> -1]
TypeIds == DOMAIN FirstTypes \cup Calls

ASSUME FirstTypesAreTyped ==
  /\ IsFiniteSet(DOMAIN FirstTypes)
  /\ DOMAIN FirstTypes \cap Calls = {}
  /\ \A t \in DOMAIN FirstTypes : FirstTypes[t] \in TypeRows
TypeOps == {"createType", "updateType", "deleteType", "register"}

TypesInit ==
  /\ Init
  /\ types = [t \in TypeIds |-> IF t \in Calls THEN NoType ELSE FirstTypes[t]]
  /\ registered = {}
  /\ top = [c \in Calls |-> 0]

TypesOf(e) == {t \in TypeIds : types[t] # NoType /\ types[t].event = e}
Orders(e) == {types[t].order : t \in TypesOf(e)}

Stay(c, label) == Skip(c, label) /\ UNCHANGED <<types, registered, top>>
Effect(c, label) ==
  /\ wrote' = wrote \cup {c} /\ Goto(c, label)
  /\ UNCHANGED <<event, saw, slug, tries, top>>

\* checkEventOwnership, with which every operation on types begins
CheckEventOwnership(c) ==
  /\ pc[c] = "start" /\ req[c].op \in TypeOps \ {"register"}
  /\ Stay(c, IF Mine(c) THEN "find" ELSE WhyNot(c))

-----------------------------------------------------------------------------
\* Mutated form of NextOrder: the first gap is filled.
FirstGap(e) == Min((0 .. Cardinality(TypeIds)) \ Orders(e))

NextOrder(e) == Max({-1} \cup Orders(e)) + 1

\* The loop begins again with the aggregate.
AgainFrom(c) == "find"

\* createTicketType: the largest number, then the insert with the next one; a
\* P2002 is tried again twice.
CreateTicketType(c) ==
  \/ /\ At(c, "createType", "find")
     /\ top' = [top EXCEPT ![c] = NextOrder(req[c].event)]
     /\ Goto(c, "insert")
     /\ UNCHANGED <<event, saw, slug, tries, wrote, types, registered>>
  \/ /\ At(c, "createType", "insert")
     /\ IF top[c] \in Orders(req[c].event)
        THEN /\ tries' = [tries EXCEPT ![c].create = @ + 1]
             /\ Goto(c, IF tries[c].create + 1 < CreateTries THEN AgainFrom(c) ELSE "error")
             /\ UNCHANGED <<event, saw, slug, wrote, types, registered, top>>
        ELSE /\ types' = [types EXCEPT ![c] = [order |-> top[c], event |-> req[c].event,
                                               active |-> TRUE]]
             /\ Effect(c, "ok") /\ UNCHANGED registered

\* updateTicketType: found first, then updated by id, which fails when the type
\* is gone by then.
UpdateTicketType(c) ==
  LET t == req[c].type IN
  \/ /\ At(c, "updateType", "find")
     /\ Stay(c, IF t \in TypesOf(req[c].event) THEN "update" ELSE "notfound")
  \/ /\ At(c, "updateType", "update")
     /\ IF types[t] = NoType THEN Stay(c, "error")
        ELSE /\ types' = [types EXCEPT ![t].active = ~@]
             /\ Effect(c, "ok") /\ UNCHANGED registered

\* The foreign key of registrations (onDelete: Restrict).
Referred(t) == \E d \in registered : req[d].type = t

\* deleteTicketType: found, then deleted, unless a registration refers to it
\* (P2003) or it is gone.
DeleteTicketType(c) ==
  LET t == req[c].type IN
  \/ /\ At(c, "deleteType", "find")
     /\ Stay(c, IF t \in TypesOf(req[c].event) THEN "delete" ELSE "notfound")
  \/ /\ At(c, "deleteType", "delete")
     /\ IF types[t] = NoType \/ Referred(t)
        THEN Stay(c, "error")
        ELSE /\ types' = [types EXCEPT ![t] = NoType]
             /\ Effect(c, "ok") /\ UNCHANGED registered

\* Mutated form of Open: any event that is not deleted.
OpenAny(row) == Present(row)

\* findOpenEventBySlug, as far as it depends on this module's state
Open(row) == Present(row) /\ row.status \in {"PUBLISHED", "ACTIVE"}

\* registerFree: the event and the type are read, and the transaction looks at
\* the type again but not at the event.
Usable(t) == types[t] # NoType /\ types[t].active
Register(c) ==
  \/ /\ At(c, "register", "start")
     /\ Stay(c, IF Open(Row(c)) /\ Usable(req[c].type) THEN "insert" ELSE "invalid")
  \/ /\ At(c, "register", "insert")
     /\ IF Usable(req[c].type)
        THEN registered' = registered \cup {c} /\ Effect(c, "ok") /\ UNCHANGED types
        ELSE Stay(c, "invalid")

TypeStep(c) ==
  \/ CheckEventOwnership(c) \/ CreateTicketType(c) \/ UpdateTicketType(c)
  \/ DeleteTicketType(c) \/ Register(c)

NextWithTypes ==
  \E c \in Calls :
    \/ (Begin(c) \/ EventStep(c)) /\ UNCHANGED <<types, registered, top>>
    \/ TypeStep(c)

TypesSpec == TypesInit /\ [][NextWithTypes]_vars

-----------------------------------------------------------------------------

\* Types are listed in the order they were made: a type that is there when the
\* creation of another begins is numbered before it, whatever was deleted and
\* whoever lost how many races in between.
OrderFollowsCreation ==
  \A e \in Events : \A s \in TypesOf(e), t \in TypesOf(e) \cap Calls :
    s \in DOMAIN FirstTypes \/ s \in after[t] => types[s].order < types[t].order

\* Nobody registers for an event that was cancelled, deleted or taken back to
\* draft before the request began, unless a publication that overlapped them
\* opened it again: only a request already under way gets in afterwards.
Closes(d, e) == req[d].event = e /\ req[d].op \in {"cancel", "delete", "unpublish"}
Reopens(p, d) ==
  /\ p \in wrote /\ p \notin after[d]
  /\ req[p].op = "publish" /\ req[p].event = req[d].event /\ req[d].op = "unpublish"
LateRegistrationsOverlap ==
  \A c \in registered, d \in wrote :
    d \in after[c] /\ Closes(d, req[c].event) =>
      \E p \in Calls : Reopens(p, d) /\ c \notin after[p]
=============================================================================
