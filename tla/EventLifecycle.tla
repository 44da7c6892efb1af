--------------------------- MODULE EventLifecycle ---------------------------
(***************************************************************************)
(* event.service.js: an event is created as a draft, published, taken back *)
(* to draft, cancelled and deleted by calls that read the row, decide, and *)
(* then update it on the condition that its status still allows it.        *)
(*                                                                         *)
(* Titles stand for every field updateEvent may set, and a title is named  *)
(* by the call that wrote it.  ACTIVE and COMPLETED are statuses rows may  *)
(* have (seeded data) and no operation sets.  A call may stop between any  *)
(* two steps.                                                              *)
(***************************************************************************)
EXTENDS Naturals, FiniteSets

CONSTANTS
  Events,         \* the ids events may get
  Slugs,          \* what generateSlug may return
  Users,
  Calls,          \* the requests of one behaviour, each made once
  Requests,       \* what a call may ask of an event
  Catalogues,     \* the events a behaviour may start with
  Drafts,         \* those that are drafts at first, or created later
  SlugTries,      \* MAX_SLUG_RETRIES
  CreateTries     \* MAX_RETRIES of createEvent and createTicketType

VARIABLES event, pc, req, saw, slug, tries, wrote, after

eventVars == <<event, pc, req, saw, slug, tries, wrote, after>>

Statuses == {"DRAFT", "PUBLISHED", "ACTIVE", "COMPLETED", "CANCELLED"}
EventRows == [status : Statuses, deleted : BOOLEAN, owner : Users, slug : Slugs,
              title : Calls \cup {"first"}]
NoEvent == [status |-> "none"]
NoRequest == [op |-> "none"]
Answers == {"ok", "notfound", "forbidden", "invalid", "error"}

ASSUME TriesArePositive == SlugTries \in Nat \ {0} /\ CreateTries \in Nat \ {0}
ASSUME CataloguesAreTyped == Catalogues \subseteq [Events -> EventRows \cup {NoEvent}]
ASSUME DraftsAreDrafts ==
  Drafts \subseteq Events /\ \A k \in Catalogues, e \in Drafts : k[e] = NoEvent \/ k[e].status = "DRAFT"
ASSUME RequestsNameEvents ==
  \A r \in Requests : r.event \in Events /\ r.user \in Users /\ r.admin \in BOOLEAN
ASSUME CreationsAreNew ==
  \A r \in Requests, k \in Catalogues : r.op = "create" => k[r.event] = NoEvent

Finished(c) == pc[c] \in Answers
At(c, op, label) == pc[c] = label /\ req[c].op = op

Init ==
  /\ event \in Catalogues
  /\ pc = [c \in Calls |-> "new"]
  /\ req = [c \in Calls |-> NoRequest]
  /\ saw = [c \in Calls |-> NoEvent]
  /\ slug = [c \in Calls |-> "none"]
  /\ tries = [c \in Calls |-> [create |-> 0, slug |-> 0]]
  /\ wrote = {}
  /\ after = [c \in Calls |-> {}]

Begin(c) ==
  /\ pc[c] = "new"
  /\ \E r \in Requests :
       /\ r.op = "create" => \A d \in Calls : req[d].op = "create" => req[d].event # r.event
       /\ req' = [req EXCEPT ![c] = r]
  /\ pc' = [pc EXCEPT ![c] = "start"]
  /\ after' = [after EXCEPT ![c] = {d \in Calls : Finished(d)}]
  /\ UNCHANGED <<event, saw, slug, tries, wrote>>

Row(c) == event[req[c].event]
Goto(c, label) == pc' = [pc EXCEPT ![c] = label] /\ UNCHANGED <<req, after>>
Skip(c, label) == Goto(c, label) /\ UNCHANGED <<event, saw, slug, tries, wrote>>
Store(c, row) == /\ event' = [event EXCEPT ![req[c].event] = row]
                 /\ wrote' = wrote \cup {c}
                 /\ UNCHANGED <<saw, slug, tries>>

\* What the where clauses and the ownership tests let a caller see.
Present(row) == row # NoEvent /\ ~row.deleted
Mine(c) == Present(Row(c)) /\ (Row(c).owner = req[c].user \/ req[c].admin)
WhyNot(c) == IF Present(Row(c)) THEN "forbidden" ELSE "notfound"

-----------------------------------------------------------------------------
\* generateUniqueSlug: a slug no event that is not deleted has, or an error
\* after MAX_SLUG_RETRIES misses.
GenerateUniqueSlug(c) ==
  \E s \in Slugs :
    LET used == \E e \in Events : Present(event[e]) /\ event[e].slug = s
        last == tries[c].slug + 1 >= SlugTries
    IN  /\ At(c, "create", "start")
        /\ slug' = [slug EXCEPT ![c] = s]
        /\ tries' = IF used THEN [tries EXCEPT ![c].slug = @ + 1] ELSE tries
        /\ Goto(c, CASE ~used         -> "write"
                     [] used /\ last  -> "error"
                     [] OTHER         -> "start")
        /\ UNCHANGED <<event, saw, wrote>>

\* The unique index on slug knows deleted events too.
SlugTaken(s) == \E e \in Events : event[e] # NoEvent /\ event[e].slug = s

\* createEvent: the insert, tried again with a new slug after a P2002.
CreateEvent(c) ==
  /\ At(c, "create", "write")
  /\ IF SlugTaken(slug[c])
     THEN /\ tries' = [tries EXCEPT ![c] = [create |-> @.create + 1, slug |-> 0]]
          /\ Goto(c, IF tries[c].create + 1 < CreateTries THEN "start" ELSE "error")
          /\ UNCHANGED <<event, saw, slug, wrote>>
     ELSE /\ Store(c, [status |-> "DRAFT", deleted |-> FALSE, owner |-> req[c].user,
                       slug |-> slug[c], title |-> "first"])
          /\ Goto(c, "ok")

\* getEvent, with which the other operations end.
GetEvent(c) ==
  /\ pc[c] = "reload" \/ At(c, "get", "start")
  /\ Skip(c, IF Mine(c) THEN "ok" ELSE WhyNot(c))

\* updateEvent: an audit snapshot, the update, and why it matched nothing.
UpdateEvent(c) ==
  \/ /\ At(c, "update", "start")
     /\ saw' = [saw EXCEPT ![c] = IF Mine(c) THEN Row(c) ELSE NoEvent]
     /\ Goto(c, "write")
     /\ UNCHANGED <<event, slug, tries, wrote>>
  \/ /\ At(c, "update", "write")
     /\ IF Mine(c) THEN Store(c, [Row(c) EXCEPT !.title = c]) /\ Goto(c, "reload")
        ELSE Skip(c, "exists")
  \/ /\ At(c, "update", "exists")
     /\ Skip(c, WhyNot(c))

\* deleteEvent
DeleteEvent(c) ==
  \/ /\ At(c, "delete", "start")
     /\ IF Mine(c) THEN Store(c, [Row(c) EXCEPT !.deleted = TRUE]) /\ Goto(c, "ok")
        ELSE Skip(c, "exists")
  \/ /\ At(c, "delete", "exists")
     /\ Skip(c, WhyNot(c))

\* Mutated form of Allows: the status is looked at only when it is first read.
AllowsAny(row, from) == TRUE

Allows(row, from) == row.status \in from

\* publishEvent, unpublishEvent and cancelEvent read the row, look at its
\* status, update it where the status is still one of these, and load it again.
Transition(c, op, from, to) ==
  \/ /\ At(c, op, "start")
     /\ saw' = [saw EXCEPT ![c] = Row(c)]
     /\ Goto(c, CASE ~Mine(c)                              -> WhyNot(c)
                  [] Mine(c) /\ Row(c).status \notin from  -> "invalid"
                  [] OTHER                                 -> "write")
     /\ UNCHANGED <<event, slug, tries, wrote>>
  \/ /\ At(c, op, "write")
     /\ IF Mine(c) /\ Allows(Row(c), from)
        THEN Store(c, [Row(c) EXCEPT !.status = to]) /\ Goto(c, "reload")
        ELSE Skip(c, "invalid")

PublishEvent(c) == Transition(c, "publish", {"DRAFT"}, "PUBLISHED")
UnpublishEvent(c) == Transition(c, "unpublish", {"PUBLISHED", "ACTIVE"}, "DRAFT")
CancelEvent(c) ==
  Transition(c, "cancel", {"PUBLISHED", "ACTIVE", "COMPLETED"}, "CANCELLED")

EventStep(c) ==
  \/ GenerateUniqueSlug(c) \/ CreateEvent(c) \/ GetEvent(c) \/ UpdateEvent(c)
  \/ DeleteEvent(c) \/ PublishEvent(c) \/ UnpublishEvent(c) \/ CancelEvent(c)

-----------------------------------------------------------------------------
\* Every variable has its type; a call that goes on has a request.
EventsTyped ==
  /\ event \in [Events -> EventRows \cup {NoEvent}]
  /\ slug \in [Calls -> Slugs \cup {"none"}]
  /\ tries \in [Calls -> [create : 0 .. CreateTries, slug : 0 .. SlugTries]]
  /\ wrote \subseteq Calls
  /\ \A c \in Calls : /\ saw[c] \in EventRows \cup {NoEvent}
                      /\ after[c] \subseteq Calls
                      /\ pc[c] # "new" => req[c] \in Requests

\* Nothing brings an event back: a cancelled one stays cancelled whichever
\* call read it before, and the row of a deleted one never changes again.
EndingsAreFinal ==
  [][\A e \in Events : event[e] # NoEvent =>
       /\ event[e].deleted => event'[e] = event[e]
       /\ event[e].status = "CANCELLED" => event'[e].status = "CANCELLED"]_eventVars

Changes(e, op) == Cardinality({c \in wrote : req[c].op = op /\ req[c].event = e})

\* Publishing and unpublishing alternate: of any number of concurrent calls
\* that all read a draft, one publishes it.  For an event that began as a draft
\* the calls that took effect (the EVENT_PUBLISHED and EVENT_UNPUBLISHED audit
\* rows) tell whether it is one now.
PublicationsAlternate ==
  \A e \in Drafts :
    event[e] # NoEvent =>
      /\ Changes(e, "publish") = Changes(e, "unpublish")
                                 + (IF event[e].status = "DRAFT" THEN 0 ELSE 1)
      /\ Changes(e, "cancel") = (IF event[e].status = "CANCELLED" THEN 1 ELSE 0)

=============================================================================
