-------------------------- MODULE TicketTypesProofs --------------------------
(***************************************************************************)
(* Type correctness of EventLifecycle and TicketTypes, that the endings of *)
(* an event are final, and what the calls that took effect say about it:   *)
(* for any events, ticket types, users, requests and number of calls.      *)
(***************************************************************************)
EXTENDS TicketTypes, FiniteSetTheorems, TLAPS

Labels == {"new", "start", "write", "exists", "reload", "find", "insert", "update", "delete"}
          \cup Answers

\* What EventsTyped leaves out: labels, and requests as functions of the calls.
CallsTyped ==
  /\ pc \in [Calls -> Labels]
  /\ req \in [Calls -> Requests \cup {NoRequest}]
  /\ saw \in [Calls -> EventRows \cup {NoEvent}]
  /\ after \in [Calls -> SUBSET Calls]

Asks(c, e) == req[c].op = "create" /\ req[c].event = e
Creating(c) == req[c].op = "create" /\ pc[c] \in {"start", "write"}
Counting(c) == Creating(c) \/ (req[c].op = "createType" /\ pc[c] \in {"start", "find", "insert"})

\* A creation under way has tries left, a slug once it writes, and an id that
\* no event has yet.
CreationFits(c) ==
  /\ Counting(c) \/ pc[c] = "new" => tries[c].create < CreateTries /\ tries[c].slug < SlugTries
  /\ Creating(c) => /\ event[req[c].event] = NoEvent
                    /\ pc[c] = "write" => slug[c] \in Slugs
CreationsFit == \A c \in Calls : CreationFits(c)

\* No two creations ask for one id, and who finds it taken is not the first.
CreationsDiffer == \A c, d \in Calls, e \in Events : Asks(c, e) /\ Asks(d, e) => c = d
CreatedOnDemand ==
  \A r \in Requests : r.op = "create" /\ event[r.event] # NoEvent => \E c \in Calls : Asks(c, r.event)

OnlyNewWait == \A c \in Calls : pc[c] = "new" => req[c] = NoRequest

IInv ==
  EventsTyped /\ CallsTyped /\ CreationsFit /\ CreationsDiffer /\ CreatedOnDemand /\ OnlyNewWait

-----------------------------------------------------------------------------
LEMMA InitHolds == Init => IInv
  <1> SUFFICES ASSUME Init PROVE IInv
    OBVIOUS
  <1>1. EventsTyped /\ CallsTyped
    BY TriesArePositive, CataloguesAreTyped
       DEF Init, EventsTyped, CallsTyped, Labels, NoRequest, Answers
  <1>2. CreationsFit /\ CreationsDiffer /\ OnlyNewWait
    BY TriesArePositive DEF Init, CreationsFit, CreationFits, CreationsDiffer, Asks, OnlyNewWait, Creating, Counting, NoRequest
  <1>3. CreatedOnDemand
    BY CreationsAreNew DEF Init, CreatedOnDemand
  <1> QED
    BY <1>1, <1>2, <1>3 DEF IInv

\* A new request joins those there are.
LEMMA BeginKeeps == ASSUME NEW c \in Calls, IInv, Begin(c) PROVE IInv'
  <1>1. PICK r \in Requests :
          /\ r.op = "create" => \A d \in Calls : req[d].op = "create" => req[d].event # r.event
          /\ req' = [req EXCEPT ![c] = r]
    BY DEF Begin
  <1> USE DEF IInv, CallsTyped
  <1>2. /\ pc' = [pc EXCEPT ![c] = "start"] /\ pc[c] = "new" /\ req[c] = NoRequest
        /\ UNCHANGED <<event, saw, slug, tries, wrote>>
        /\ after' = [after EXCEPT ![c] = {d \in Calls : Finished(d)}]
    BY DEF Begin, OnlyNewWait
  <1>3. /\ req'[c] = r /\ pc'[c] = "start"
        /\ \A d \in Calls \ {c} : req'[d] = req[d] /\ pc'[d] = pc[d]
    BY <1>1, <1>2
  <1>4. CallsTyped'
    BY <1>1, <1>2 DEF Labels
  <1>5. EventsTyped'
    BY <1>2, <1>3, <1>4 DEF EventsTyped
  <1>6. CreationsFit'
    <2> SUFFICES ASSUME NEW d \in Calls PROVE CreationFits(d)'
      BY DEF CreationsFit
    <2>1. CASE d = c
      <3>1. r.op = "create" => event[r.event] = NoEvent
        BY <1>1 DEF CreatedOnDemand, Asks
      <3> QED
        BY <3>1, <2>1, <1>2, <1>3 DEF CreationsFit, CreationFits, Creating, Counting
    <2>2. CASE d # c
      BY <2>2, <1>2, <1>3 DEF CreationsFit, CreationFits, Creating, Counting
    <2> QED
      BY <2>1, <2>2
  <1>7. CreationsDiffer'
    BY <1>1, <1>3 DEF CreationsDiffer, Asks
  <1>8. CreatedOnDemand'
    BY <1>2, <1>3 DEF CreatedOnDemand, Asks, NoRequest
  <1>9. OnlyNewWait'
    BY <1>2, <1>3 DEF OnlyNewWait
  <1> QED
    BY <1>4, <1>5, <1>6, <1>7, <1>8, <1>9

\* Any other step: call c goes on to a label, and stores at most one row.
Moves(c, label) ==
  /\ pc[c] # "new" /\ label \in Labels \ {"new"} /\ pc' = [pc EXCEPT ![c] = label]
  /\ UNCHANGED <<req, after>>
Stores(c, row) == row \in EventRows /\ event' = [event EXCEPT ![req[c].event] = row]

\* What a stored row may change, and who may store it.
Continues(c, row) ==
  /\ Present(Row(c)) /\ Stores(c, row)
  /\ Row(c).status = "CANCELLED" => row.status = "CANCELLED"
Founds(c, row) == Creating(c) /\ Stores(c, row)

Legal(c, label) ==
  /\ Moves(c, label)
  /\ \/ UNCHANGED event
     \/ \E row : Continues(c, row)
     \/ label = "ok" /\ \E row : Founds(c, row)
  /\ saw' \in [Calls -> EventRows \cup {NoEvent}]
  /\ slug' \in [Calls -> Slugs \cup {"none"}]
  /\ tries' \in [Calls -> [create : 0 .. CreateTries, slug : 0 .. SlugTries]]
  /\ wrote' \subseteq Calls
  /\ \A d \in Calls \ {c} : tries'[d] = tries[d] /\ slug'[d] = slug[d]
  /\ Counting(c)' => Counting(c) /\ tries'[c].create < CreateTries /\ tries'[c].slug < SlugTries
  /\ Creating(c)' => Creating(c) /\ (label = "write" => slug'[c] \in Slugs)

LEMMA LegalKeeps == ASSUME NEW c \in Calls, NEW label, IInv, Legal(c, label) PROVE IInv'
  <1> USE DEF IInv, CallsTyped
  <1>1. /\ pc'[c] = label /\ req' = req
        /\ \A d \in Calls \ {c} : pc'[d] = pc[d]
    BY DEF Legal, Moves
  <1>2. req[c] \in Requests /\ req[c].event \in Events
    BY RequestsNameEvents DEF Legal, Moves, EventsTyped
  <1>3. CallsTyped' /\ EventsTyped'
    <2>1. event' \in [Events -> EventRows \cup {NoEvent}]
      BY <1>2 DEF Legal, Continues, Founds, Stores, EventsTyped
    <2>2. CallsTyped'
      BY <1>1 DEF Legal, Moves
    <2> QED
      BY <1>1, <2>1, <2>2 DEF Legal, Moves, EventsTyped
  <1>4. \A e \in Events : event'[e] = NoEvent \/ event[e] # NoEvent \/ (Asks(c, e) /\ Creating(c) /\ label = "ok")
    BY <1>2 DEF Legal, Continues, Founds, Stores, Present, Row, Creating, Asks, EventsTyped
  <1>5. CreationsFit'
    <2> SUFFICES ASSUME NEW d \in Calls PROVE CreationFits(d)'
      BY DEF CreationsFit
    <2>1. CASE d = c
      <3>1. Creating(c)' => UNCHANGED event
        BY <1>1, <1>2 DEF Legal, Continues, Row, Present, Creating, CreationsFit, CreationFits
      <3> QED
        BY <3>1, <2>1, <1>1 DEF CreationsFit, CreationFits, Legal, Moves
    <2>2. CASE d # c
      <3>1. req[d] \in Requests \/ req[d].op = "none"
        BY DEF NoRequest
      <3>2. Creating(d) /\ req[d] \in Requests => event'[req[d].event] = NoEvent
        BY <2>2, <1>4, RequestsNameEvents DEF CreationsFit, CreationFits, CreationsDiffer, Asks, Creating
      <3> QED
        BY <3>1, <3>2, <2>2, <1>1 DEF CreationsFit, CreationFits, Creating, Counting, Legal
    <2> QED
      BY <2>1, <2>2
  <1>6. CreationsDiffer'
    BY <1>1 DEF CreationsDiffer, Asks
  <1>7. CreatedOnDemand'
    BY <1>1, <1>4, RequestsNameEvents DEF CreatedOnDemand, Asks
  <1>8. OnlyNewWait'
    BY <1>1 DEF OnlyNewWait, Legal, Moves
  <1> QED
    BY <1>3, <1>5, <1>6, <1>7, <1>8

LEMMA LegalEndings ==
  ASSUME NEW c \in Calls, NEW label, IInv, Legal(c, label), NEW e \in Events, event[e] # NoEvent
  PROVE  /\ event[e].deleted => event'[e] = event[e]
         /\ event[e].status = "CANCELLED" => event'[e].status = "CANCELLED"
  <1>1. req[c] \in Requests /\ req[c].event \in Events
    BY RequestsNameEvents DEF Legal, Moves, EventsTyped, IInv
  <1>2. CASE \E row : Continues(c, row)
    BY <1>1, <1>2 DEF Continues, Stores, Present, Row, EventsTyped, IInv
  <1>3. CASE \E row : Founds(c, row)
    BY <1>1, <1>3 DEF Founds, Stores, Creating, CreationsFit, CreationFits, EventsTyped, IInv
  <1> QED
    BY <1>2, <1>3 DEF Legal

-----------------------------------------------------------------------------
\* Steps that only move their call.
LEMMA SkipIsLegal ==
  ASSUME NEW c \in Calls, IInv, pc[c] # "new", NEW label \in Labels \ {"new"}, Skip(c, label),
         \/ label \notin {"start", "write", "find", "insert"}
         \/ req[c].op \notin {"create", "createType"}
         \/ label = "find" /\ pc[c] = "start" /\ req[c].op # "create"
  PROVE  Legal(c, label)
  <1>1. Moves(c, label) /\ UNCHANGED <<event, saw, slug, tries, wrote>>
    BY DEF Skip, Goto, Moves
  <1>2. pc'[c] = label /\ req' = req
    BY <1>1 DEF Moves, IInv, CallsTyped
  <1>3. Counting(c)' => Counting(c) /\ tries[c].create < CreateTries /\ tries[c].slug < SlugTries
    BY <1>2 DEF Counting, Creating, IInv, CreationsFit, CreationFits
  <1>4. ~Creating(c)'
    BY <1>2 DEF Creating
  <1> QED
    BY <1>1, <1>3, <1>4 DEF Legal, IInv, EventsTyped, CallsTyped

\* Steps that write the row the call has in sight.
LEMMA StoreIsLegal ==
  ASSUME NEW c \in Calls, IInv, pc[c] # "new", NEW label \in {"reload", "ok"}, NEW row \in EventRows,
         Store(c, row), Goto(c, label),
         \/ Mine(c) /\ (Row(c).status = "CANCELLED" => row.status = "CANCELLED")
         \/ Creating(c) /\ label = "ok"
  PROVE  Legal(c, label)
  BY DEF Store, Goto, Legal, Moves, IInv, EventsTyped, CallsTyped, Creating, Counting, Continues, Founds, Stores,
         Mine, Labels, Answers

LEMMA RowInSight ==
  ASSUME NEW c \in Calls, IInv, pc[c] # "new"
  PROVE  /\ req[c] \in Requests /\ req[c].event \in Events /\ req[c].user \in Users
         /\ Row(c) \in EventRows \cup {NoEvent} /\ (Mine(c) => Row(c) \in EventRows)
         /\ WhyNot(c) \in {"forbidden", "notfound"}
  BY RequestsNameEvents DEF IInv, EventsTyped, Row, Mine, Present, WhyNot

LEMMA TransitionIsLegal ==
  ASSUME NEW c \in Calls, IInv, NEW op, NEW from, NEW to \in Statuses, "CANCELLED" \notin from,
         op \notin {"create", "createType"}, Transition(c, op, from, to)
  PROVE  \E label : Legal(c, label)
  <1>1. pc[c] # "new" /\ req[c].op = op
    BY DEF Transition, At
  <1>2. CASE At(c, op, "start")
    <2>1. PICK label \in {"forbidden", "notfound", "invalid", "write"} :
            Goto(c, label) /\ saw' = [saw EXCEPT ![c] = Row(c)] /\ UNCHANGED <<event, slug, tries, wrote>>
      BY <1>1, <1>2, RowInSight DEF Transition, At
    <2> QED
      BY <1>1, <2>1, RowInSight
         DEF Goto, Legal, Moves, IInv, EventsTyped, CallsTyped, Creating, Counting, Labels, Answers
  <1>3. CASE ~At(c, op, "start") /\ Mine(c) /\ Allows(Row(c), from)
    <2> DEFINE row == [Row(c) EXCEPT !.status = to]
    <2>1. row \in EventRows /\ Row(c).status # "CANCELLED"
      BY <1>1, <1>3, RowInSight DEF EventRows, Allows
    <2>2. Store(c, row) /\ Goto(c, "reload")
      BY <1>3 DEF Transition
    <2> QED
      BY <1>1, <1>3, <2>1, <2>2, StoreIsLegal
  <1>4. CASE ~At(c, op, "start") /\ ~(Mine(c) /\ Allows(Row(c), from))
    <2>1. Skip(c, "invalid")
      BY <1>4 DEF Transition
    <2> QED
      BY <1>1, <2>1, SkipIsLegal DEF Labels, Answers
  <1> QED
    BY <1>2, <1>3, <1>4

LEMMA UpdateIsLegal ==
  ASSUME NEW c \in Calls, IInv, UpdateEvent(c) PROVE \E label : Legal(c, label)
  <1>1. pc[c] # "new" /\ req[c].op = "update"
    BY DEF UpdateEvent, At
  <1>2. CASE At(c, "update", "start")
    <2>1. /\ Goto(c, "write") /\ saw' = [saw EXCEPT ![c] = IF Mine(c) THEN Row(c) ELSE NoEvent]
          /\ UNCHANGED <<event, slug, tries, wrote>>
      BY <1>2 DEF UpdateEvent, At
    <2> QED
      BY <1>1, <2>1, RowInSight
         DEF Goto, Legal, Moves, IInv, EventsTyped, CallsTyped, Creating, Counting, Labels
  <1>3. CASE At(c, "update", "write") /\ Mine(c)
    <2> DEFINE row == [Row(c) EXCEPT !.title = c]
    <2>1. row \in EventRows /\ row.status = Row(c).status
      BY <1>1, <1>3, RowInSight DEF EventRows
    <2>2. Store(c, row) /\ Goto(c, "reload")
      BY <1>3 DEF UpdateEvent, At
    <2> QED
      BY <1>1, <1>3, <2>1, <2>2, StoreIsLegal
  <1>4. CASE At(c, "update", "write") /\ ~Mine(c)
    BY <1>1, <1>4, SkipIsLegal DEF UpdateEvent, At, Labels
  <1>5. CASE At(c, "update", "exists")
    BY <1>1, <1>5, SkipIsLegal, RowInSight DEF UpdateEvent, At, Labels, Answers
  <1> QED
    BY <1>2, <1>3, <1>4, <1>5 DEF UpdateEvent

LEMMA DeleteIsLegal ==
  ASSUME NEW c \in Calls, IInv, DeleteEvent(c) PROVE \E label : Legal(c, label)
  <1>1. pc[c] # "new" /\ req[c].op = "delete"
    BY DEF DeleteEvent, At
  <1>2. CASE At(c, "delete", "start") /\ Mine(c)
    <2> DEFINE row == [Row(c) EXCEPT !.deleted = TRUE]
    <2>1. row \in EventRows /\ row.status = Row(c).status
      BY <1>1, <1>2, RowInSight DEF EventRows
    <2>2. Store(c, row) /\ Goto(c, "ok")
      BY <1>2 DEF DeleteEvent, At
    <2> QED
      BY <1>1, <1>2, <2>1, <2>2, StoreIsLegal
  <1>3. CASE At(c, "delete", "start") /\ ~Mine(c)
    BY <1>1, <1>3, SkipIsLegal DEF DeleteEvent, At, Labels
  <1>4. CASE At(c, "delete", "exists")
    BY <1>1, <1>4, SkipIsLegal, RowInSight DEF DeleteEvent, At, Labels, Answers
  <1> QED
    BY <1>2, <1>3, <1>4 DEF DeleteEvent

LEMMA GetIsLegal ==
  ASSUME NEW c \in Calls, IInv, GetEvent(c) PROVE \E label : Legal(c, label)
  <1>1. pc[c] # "new"
    BY DEF GetEvent, At
  <1>2. PICK label \in {"ok", "forbidden", "notfound"} : Skip(c, label)
    BY <1>1, RowInSight DEF GetEvent
  <1> QED
    BY <1>1, <1>2, SkipIsLegal DEF Labels, Answers

LEMMA GenerateIsLegal ==
  ASSUME NEW c \in Calls, IInv, GenerateUniqueSlug(c) PROVE \E label : Legal(c, label)
  <1>1. PICK s \in Slugs, label \in {"write", "error", "start"} :
          /\ At(c, "create", "start")
          /\ slug' = [slug EXCEPT ![c] = s] /\ UNCHANGED <<event, saw, wrote>> /\ Goto(c, label)
          /\ \/ tries' = tries
             \/ tries' = [tries EXCEPT ![c].slug = @ + 1] /\ label # "write"
          /\ label = "start" => tries[c].slug + 1 < SlugTries
    <2> DEFINE last == tries[c].slug + 1 >= SlugTries
               used(s) == \E e \in Events : Present(event[e]) /\ event[e].slug = s
               label(s) == IF ~used(s) THEN "write" ELSE IF last THEN "error" ELSE "start"
    <2>1. PICK s \in Slugs :
            /\ At(c, "create", "start")
            /\ slug' = [slug EXCEPT ![c] = s] /\ UNCHANGED <<event, saw, wrote>>
            /\ tries' = IF used(s) THEN [tries EXCEPT ![c].slug = @ + 1] ELSE tries
            /\ Goto(c, label(s))
      BY DEF GenerateUniqueSlug
    <2>2. tries[c].slug \in Nat /\ SlugTries \in Nat
      BY TriesArePositive DEF IInv, EventsTyped
    <2>3. last \/ tries[c].slug + 1 < SlugTries
      BY <2>2
    <2> HIDE DEF last, used
    <2> QED
      BY <2>1, <2>3 DEF last
  <1>2. /\ Creating(c) /\ tries[c].create < CreateTries /\ tries[c].slug < SlugTries
        /\ tries[c] \in [create : 0 .. CreateTries, slug : 0 .. SlugTries]
    BY <1>1 DEF Creating, At, IInv, CreationsFit, CreationFits, Counting, EventsTyped
  <1>3. /\ tries' \in [Calls -> [create : 0 .. CreateTries, slug : 0 .. SlugTries]]
        /\ tries'[c].create < CreateTries /\ (label # "error" => tries'[c].slug < SlugTries)
        /\ \A d \in Calls \ {c} : tries'[d] = tries[d]
    BY <1>1, <1>2, TriesArePositive DEF IInv, EventsTyped
  <1> QED
    BY <1>1, <1>2, <1>3
       DEF Goto, At, Legal, Moves, IInv, EventsTyped, CallsTyped, Creating, Counting, Labels, Answers

LEMMA CreateIsLegal ==
  ASSUME NEW c \in Calls, IInv, CreateEvent(c) PROVE \E label : Legal(c, label)
  <1>1. /\ pc[c] = "write" /\ Creating(c) /\ slug[c] \in Slugs /\ tries[c].create < CreateTries
        /\ tries[c] \in [create : 0 .. CreateTries, slug : 0 .. SlugTries]
    BY DEF CreateEvent, Creating, Counting, At, IInv, CreationsFit, CreationFits, EventsTyped
  <1>2. CASE SlugTaken(slug[c])
    <2>1. PICK label \in {"start", "error"} :
            /\ tries' = [tries EXCEPT ![c] = [create |-> tries[c].create + 1, slug |-> 0]]
            /\ Goto(c, label) /\ UNCHANGED <<event, saw, slug, wrote>>
            /\ label = "start" => tries[c].create + 1 < CreateTries
      BY <1>2 DEF CreateEvent, At, IInv, EventsTyped
    <2>2. /\ tries' \in [Calls -> [create : 0 .. CreateTries, slug : 0 .. SlugTries]]
          /\ label = "start" => tries'[c].create < CreateTries
          /\ tries'[c].slug < SlugTries
          /\ \A d \in Calls \ {c} : tries'[d] = tries[d]
      BY <1>1, <2>1, TriesArePositive DEF IInv, EventsTyped
    <2> QED
      BY <1>1, <2>1, <2>2
         DEF Goto, Legal, Moves, IInv, EventsTyped, CallsTyped, Creating, Counting, Labels, Answers
  <1>3. CASE ~SlugTaken(slug[c])
    <2> DEFINE row == [status |-> "DRAFT", deleted |-> FALSE, owner |-> req[c].user,
                       slug |-> slug[c], title |-> "first"]
    <2>1. row \in EventRows
      BY <1>1, RowInSight DEF EventRows, Statuses
    <2>2. Store(c, row) /\ Goto(c, "ok")
      BY <1>3 DEF CreateEvent
    <2> QED
      BY <1>1, <2>1, <2>2, StoreIsLegal
  <1> QED
    BY <1>2, <1>3

\* Every step but the beginning of a call is one of these.
LEMMA StepIsLegal ==
  ASSUME NEW c \in Calls, IInv, EventStep(c) PROVE \E label : Legal(c, label)
  <1> USE DEF Statuses
  <1>1. ASSUME PublishEvent(c) PROVE \E label : Legal(c, label)
    BY <1>1, TransitionIsLegal DEF PublishEvent
  <1>2. ASSUME UnpublishEvent(c) PROVE \E label : Legal(c, label)
    BY <1>2, TransitionIsLegal DEF UnpublishEvent
  <1>3. ASSUME CancelEvent(c) PROVE \E label : Legal(c, label)
    BY <1>3, TransitionIsLegal DEF CancelEvent
  <1> QED
    BY <1>1, <1>2, <1>3, UpdateIsLegal, DeleteIsLegal, GetIsLegal, GenerateIsLegal, CreateIsLegal
       DEF EventStep

-----------------------------------------------------------------------------
\* Steps on the ticket types, as far as the calls and the events go.
LEMMA EffectIsLegal ==
  ASSUME NEW c \in Calls, IInv, pc[c] # "new", Effect(c, "ok") PROVE Legal(c, "ok")
  <1>1. Moves(c, "ok") /\ UNCHANGED <<event, saw, slug, tries>> /\ wrote' = wrote \cup {c}
    BY DEF Effect, Goto, Moves, Labels, Answers
  <1>2. ~Counting(c)' /\ ~Creating(c)'
    BY <1>1 DEF Moves, IInv, CallsTyped, Counting, Creating
  <1> QED
    BY <1>1, <1>2 DEF Legal, IInv, EventsTyped, CallsTyped

LEMMA OwnershipIsLegal ==
  ASSUME NEW c \in Calls, IInv, CheckEventOwnership(c) PROVE \E label : Legal(c, label)
  <1>1. pc[c] = "start" /\ req[c].op # "create"
    BY DEF CheckEventOwnership, TypeOps
  <1>2. PICK label \in {"find", "forbidden", "notfound"} : Skip(c, label)
    BY <1>1, RowInSight DEF CheckEventOwnership, Stay
  <1> QED
    BY <1>1, <1>2, SkipIsLegal DEF Labels, Answers

LEMMA CreateTypeIsLegal ==
  ASSUME NEW c \in Calls, IInv, CreateTicketType(c) PROVE \E label : Legal(c, label)
  <1>1. /\ pc[c] \in {"find", "insert"} /\ req[c].op = "createType" /\ Counting(c)
        /\ tries[c].create < CreateTries /\ tries[c].slug < SlugTries
        /\ tries[c] \in [create : 0 .. CreateTries, slug : 0 .. SlugTries]
    BY DEF CreateTicketType, Counting, At, IInv, CreationsFit, CreationFits, EventsTyped
  <1>2. CASE pc[c] = "find"
    <2>1. Moves(c, "insert") /\ UNCHANGED <<event, saw, slug, tries, wrote>>
      BY <1>1, <1>2 DEF CreateTicketType, At, Goto, Moves, Labels
    <2>2. pc'[c] = "insert" /\ req' = req
      BY <2>1 DEF Moves, IInv, CallsTyped
    <2> QED
      BY <1>1, <2>1, <2>2 DEF Legal, IInv, EventsTyped, CallsTyped, Counting, Creating
  <1>3. CASE pc[c] = "insert" /\ top[c] \in Orders(req[c].event)
    <2>1. PICK label \in {"find", "error"} :
            /\ tries' = [tries EXCEPT ![c].create = @ + 1]
            /\ Goto(c, label) /\ UNCHANGED <<event, saw, slug, wrote>>
            /\ label = "find" => tries[c].create + 1 < CreateTries
      BY <1>1, <1>3 DEF CreateTicketType, At, AgainFrom
    <2>2. /\ tries' \in [Calls -> [create : 0 .. CreateTries, slug : 0 .. SlugTries]]
          /\ label = "find" => tries'[c].create < CreateTries
          /\ tries'[c].slug < SlugTries
          /\ \A d \in Calls \ {c} : tries'[d] = tries[d]
      BY <1>1, <2>1, TriesArePositive DEF IInv, EventsTyped
    <2>3. pc'[c] = label /\ req' = req /\ Moves(c, label)
      BY <1>1, <2>1 DEF Goto, Moves, IInv, CallsTyped, Labels, Answers
    <2> QED
      BY <1>1, <2>1, <2>2, <2>3 DEF Legal, IInv, EventsTyped, CallsTyped, Counting, Creating
  <1>4. CASE pc[c] = "insert" /\ top[c] \notin Orders(req[c].event)
    <2>1. Effect(c, "ok")
      BY <1>1, <1>4 DEF CreateTicketType, At
    <2> QED
      BY <1>1, <2>1, EffectIsLegal
  <1> QED
    BY <1>1, <1>2, <1>3, <1>4

LEMMA OtherTypeStepsLegal ==
  ASSUME NEW c \in Calls, IInv, UpdateTicketType(c) \/ DeleteTicketType(c) \/ Register(c)
  PROVE  \E label : Legal(c, label)
  <1>1. pc[c] # "new" /\ req[c].op \notin {"create", "createType"}
    BY DEF UpdateTicketType, DeleteTicketType, Register, At
  <1>2. \/ Effect(c, "ok")
        \/ \E label \in {"update", "delete", "notfound", "error", "insert", "invalid"} : Stay(c, label)
    BY DEF UpdateTicketType, DeleteTicketType, Register
  <1>3. CASE Effect(c, "ok")
    BY <1>1, <1>3, EffectIsLegal
  <1>4. CASE \E label \in {"update", "delete", "notfound", "error", "insert", "invalid"} : Stay(c, label)
    <2>1. PICK label \in {"update", "delete", "notfound", "error", "insert", "invalid"} : Skip(c, label)
      BY <1>4 DEF Stay
    <2> QED
      BY <1>1, <2>1, SkipIsLegal DEF Labels, Answers
  <1> QED
    BY <1>2, <1>3, <1>4

LEMMA TypeStepIsLegal ==
  ASSUME NEW c \in Calls, IInv, TypeStep(c) PROVE \E label : Legal(c, label)
  BY OwnershipIsLegal, CreateTypeIsLegal, OtherTypeStepsLegal DEF TypeStep

Step(c) == (EventStep(c) /\ UNCHANGED <<types, registered, top>>) \/ TypeStep(c)

LEMMA NextKeeps == ASSUME IInv, [NextWithTypes]_vars PROVE IInv'
  <1>1. CASE UNCHANGED vars
    BY <1>1 DEF vars, eventVars, IInv, EventsTyped, CallsTyped, CreationsFit, CreationFits, CreationsDiffer,
                CreatedOnDemand, OnlyNewWait, Creating, Counting, Asks
  <1>2. CASE NextWithTypes
    BY <1>2, BeginKeeps, StepIsLegal, TypeStepIsLegal, LegalKeeps DEF NextWithTypes
  <1> QED
    BY <1>1, <1>2

\* Rows, slugs and the counters of the retry loops of createEvent and
\* createTicketType keep their types.
THEOREM TypeCorrect == TypesSpec => []EventsTyped
  <1>1. TypesInit => IInv
    BY InitHolds DEF TypesInit
  <1>2. IInv /\ [NextWithTypes]_vars => IInv'
    BY NextKeeps
  <1>3. IInv => EventsTyped
    BY DEF IInv
  <1> QED
    BY <1>1, <1>2, <1>3, PTL DEF TypesSpec

\* A cancelled event stays cancelled and a deleted one as it is, whatever the
\* calls under way have read before.
THEOREM Endings == TypesSpec => EndingsAreFinal
  <1>1. TypesInit => IInv
    BY InitHolds DEF TypesInit
  <1>2. IInv /\ [NextWithTypes]_vars => IInv'
    BY NextKeeps
  <1> DEFINE Final == \A e \in Events : event[e] # NoEvent =>
               /\ event[e].deleted => event'[e] = event[e]
               /\ event[e].status = "CANCELLED" => event'[e].status = "CANCELLED"
  <1>3. IInv /\ [NextWithTypes]_vars => [Final]_eventVars
    <2>1. ASSUME IInv, NEW c \in Calls, Begin(c) PROVE Final
      BY <2>1 DEF Begin
    <2>2. ASSUME IInv, NEW c \in Calls, EventStep(c) \/ TypeStep(c) PROVE Final
      BY <2>2, StepIsLegal, TypeStepIsLegal, LegalEndings
    <2> QED
      BY <2>1, <2>2 DEF NextWithTypes, vars
  <1> QED
    BY <1>1, <1>2, <1>3, PTL DEF TypesSpec, EndingsAreFinal
-----------------------------------------------------------------------------
(***************************************************************************)
(* What a step does to the event of its call, if it takes effect; a call   *)
(* that has taken effect only loads the event again.                       *)
(***************************************************************************)
Takes(c, old, new) ==
  \/ req[c].op = "create" /\ old = NoEvent /\ new.status = "DRAFT"
  \/ /\ Present(old)
     /\ \/ req[c].op = "update" /\ new.status = old.status
        \/ req[c].op = "delete" /\ new.status = old.status /\ new.deleted
        \/ req[c].op = "publish" /\ old.status = "DRAFT" /\ new.status = "PUBLISHED"
        \/ req[c].op = "unpublish" /\ old.status \in {"PUBLISHED", "ACTIVE"} /\ new.status = "DRAFT"
        \/ /\ req[c].op = "cancel" /\ old.status \in {"PUBLISHED", "ACTIVE", "COMPLETED"}
           /\ new.status = "CANCELLED"

Over == {"reload"} \cup Answers
Did(c) ==
  /\ pc[c] \notin Answers \cup {"new"}
  /\ pc[c] = "reload" => pc'[c] \in Answers
  /\ \/ UNCHANGED <<event, wrote>>
     \/ /\ pc[c] # "reload" /\ pc'[c] \in Over /\ wrote' = wrote \cup {c}
        /\ \/ event' = event /\ req[c].op \in TypeOps
           \/ \E row \in EventRows : Stores(c, row) /\ Takes(c, Row(c), row)

LEMMA SkipDoes ==
  ASSUME NEW c \in Calls, IInv, pc[c] \notin Answers \cup {"new"}, NEW label, Goto(c, label),
         UNCHANGED <<event, wrote>>, pc[c] = "reload" => label \in Answers
  PROVE  Did(c)
  BY DEF Goto, Did, IInv, CallsTyped

LEMMA StoreDoes ==
  ASSUME NEW c \in Calls, IInv, pc[c] \notin Over \cup {"new"}, NEW label \in {"reload", "ok"}, Goto(c, label),
         NEW row \in EventRows, Store(c, row), Takes(c, Row(c), row)
  PROVE  Did(c)
  BY DEF Goto, Did, IInv, CallsTyped, Store, Stores, Over, Answers

LEMMA EffectDoes ==
  ASSUME NEW c \in Calls, IInv, pc[c] \notin Over \cup {"new"}, Effect(c, "ok"), req[c].op \in TypeOps
  PROVE  Did(c)
  BY DEF Effect, Goto, Did, IInv, CallsTyped, Over, Answers

LEMMA TransitionDoes ==
  ASSUME NEW c \in Calls, IInv, NEW op, NEW from, NEW to \in Statuses, Transition(c, op, from, to),
         \/ op = "publish" /\ from = {"DRAFT"} /\ to = "PUBLISHED"
         \/ op = "unpublish" /\ from = {"PUBLISHED", "ACTIVE"} /\ to = "DRAFT"
         \/ op = "cancel" /\ from = {"PUBLISHED", "ACTIVE", "COMPLETED"} /\ to = "CANCELLED"
  PROVE  Did(c)
  <1>1. pc[c] \in {"start", "write"} /\ req[c].op = op
    BY DEF Transition, At
  <1>2. CASE pc[c] = "start" \/ ~(Mine(c) /\ Allows(Row(c), from))
    <2>1. PICK label : Goto(c, label) /\ UNCHANGED <<event, wrote>>
      BY <1>1, <1>2 DEF Transition, At, Skip
    <2> QED
      BY <1>1, <2>1, SkipDoes DEF Answers
  <1>3. CASE pc[c] = "write" /\ Mine(c) /\ Allows(Row(c), from)
    <2> DEFINE row == [Row(c) EXCEPT !.status = to]
    <2>1. row \in EventRows /\ row.status = to /\ Present(Row(c)) /\ Row(c).status \in from
      BY <1>1, <1>3, RowInSight DEF EventRows, Allows, Mine
    <2>2. Store(c, row) /\ Goto(c, "reload")
      BY <1>1, <1>3 DEF Transition, At
    <2> HIDE DEF row
    <2>3. Takes(c, Row(c), row)
      BY <1>1, <2>1 DEF Takes
    <2> QED
      BY <1>1, <2>1, <2>2, <2>3, StoreDoes DEF Over, Answers
  <1> QED
    BY <1>1, <1>2, <1>3

LEMMA UpdateDoes == ASSUME NEW c \in Calls, IInv, UpdateEvent(c) PROVE Did(c)
  <1>1. pc[c] \in {"start", "write", "exists"} /\ req[c].op = "update"
    BY DEF UpdateEvent, At
  <1>2. CASE pc[c] # "write" \/ ~Mine(c)
    <2>1. PICK label : Goto(c, label) /\ UNCHANGED <<event, wrote>>
      BY <1>1, <1>2 DEF UpdateEvent, At, Skip
    <2> QED
      BY <1>1, <2>1, SkipDoes DEF Answers
  <1>3. CASE pc[c] = "write" /\ Mine(c)
    <2> DEFINE row == [Row(c) EXCEPT !.title = c]
    <2>1. row \in EventRows /\ row.status = Row(c).status /\ Present(Row(c))
      BY <1>1, <1>3, RowInSight DEF EventRows, Mine
    <2>2. Store(c, row) /\ Goto(c, "reload")
      BY <1>1, <1>3 DEF UpdateEvent, At
    <2> HIDE DEF row
    <2>3. Takes(c, Row(c), row)
      BY <1>1, <2>1 DEF Takes
    <2> QED
      BY <1>1, <2>1, <2>2, <2>3, StoreDoes DEF Over, Answers
  <1> QED
    BY <1>1, <1>2, <1>3

LEMMA DeleteDoes == ASSUME NEW c \in Calls, IInv, DeleteEvent(c) PROVE Did(c)
  <1>1. pc[c] \in {"start", "exists"} /\ req[c].op = "delete"
    BY DEF DeleteEvent, At
  <1>2. CASE pc[c] = "exists" \/ ~Mine(c)
    <2>1. PICK label : Goto(c, label) /\ UNCHANGED <<event, wrote>>
      BY <1>1, <1>2 DEF DeleteEvent, At, Skip
    <2> QED
      BY <1>1, <2>1, SkipDoes DEF Answers
  <1>3. CASE pc[c] = "start" /\ Mine(c)
    <2> DEFINE row == [Row(c) EXCEPT !.deleted = TRUE]
    <2>1. row \in EventRows /\ row.status = Row(c).status /\ row.deleted /\ Present(Row(c))
      BY <1>1, <1>3, RowInSight DEF EventRows, Mine
    <2>2. Store(c, row) /\ Goto(c, "ok")
      BY <1>1, <1>3 DEF DeleteEvent, At
    <2> HIDE DEF row
    <2>3. Takes(c, Row(c), row)
      BY <1>1, <2>1 DEF Takes
    <2> QED
      BY <1>1, <2>1, <2>2, <2>3, StoreDoes DEF Over, Answers
  <1> QED
    BY <1>1, <1>2, <1>3

LEMMA CreateDoes ==
  ASSUME NEW c \in Calls, IInv, GenerateUniqueSlug(c) \/ CreateEvent(c) PROVE Did(c)
  <1>1. pc[c] \in {"start", "write"} /\ req[c].op = "create"
    BY DEF GenerateUniqueSlug, CreateEvent, At
  <1>2. CASE pc[c] = "start" \/ SlugTaken(slug[c])
    <2>1. PICK label : Goto(c, label) /\ UNCHANGED <<event, wrote>>
      BY <1>1, <1>2 DEF GenerateUniqueSlug, CreateEvent, At
    <2> QED
      BY <1>1, <2>1, SkipDoes DEF Answers
  <1>3. CASE pc[c] = "write" /\ ~SlugTaken(slug[c])
    <2> DEFINE row == [status |-> "DRAFT", deleted |-> FALSE, owner |-> req[c].user,
                       slug |-> slug[c], title |-> "first"]
    <2>1. slug[c] \in Slugs /\ Row(c) = NoEvent
      BY <1>1, <1>3 DEF IInv, CreationsFit, CreationFits, Creating, Row
    <2>2. row \in EventRows /\ row.status = "DRAFT"
      BY <1>1, <2>1, RowInSight DEF EventRows, Statuses
    <2>3. Store(c, row) /\ Goto(c, "ok")
      BY <1>1, <1>3 DEF CreateEvent, GenerateUniqueSlug, At
    <2> HIDE DEF row
    <2>4. Takes(c, Row(c), row)
      BY <1>1, <2>1, <2>2 DEF Takes
    <2> QED
      BY <1>1, <2>2, <2>3, <2>4, StoreDoes DEF Over, Answers
  <1> QED
    BY <1>1, <1>2, <1>3

LEMMA GetDoes == ASSUME NEW c \in Calls, IInv, GetEvent(c) PROVE Did(c)
  <1>1. pc[c] \in {"reload", "start"}
    BY DEF GetEvent, At
  <1>2. PICK label \in Answers : Skip(c, label)
    BY <1>1, RowInSight DEF GetEvent, Answers
  <1> QED
    BY <1>1, <1>2, SkipDoes DEF Skip, Answers

LEMMA TypeStepDoes == ASSUME NEW c \in Calls, IInv, TypeStep(c) PROVE Did(c)
  <1>1. pc[c] \in {"start", "find", "insert", "update", "delete"} /\ req[c].op \in TypeOps
    BY DEF TypeStep, CheckEventOwnership, CreateTicketType, UpdateTicketType, DeleteTicketType, Register,
           At, TypeOps
  <1>2. Effect(c, "ok") \/ \E label : Goto(c, label) /\ UNCHANGED <<event, wrote>>
    BY DEF TypeStep, CheckEventOwnership, CreateTicketType, UpdateTicketType, DeleteTicketType, Register,
           Stay, Skip
  <1> QED
    BY <1>1, <1>2, EffectDoes, SkipDoes DEF Over, Answers

LEMMA StepDoes == ASSUME NEW c \in Calls, IInv, Step(c) PROVE Did(c)
  <1> USE DEF Statuses
  <1>1. ASSUME PublishEvent(c) PROVE Did(c)
    BY <1>1, TransitionDoes DEF PublishEvent
  <1>2. ASSUME UnpublishEvent(c) PROVE Did(c)
    BY <1>2, TransitionDoes DEF UnpublishEvent
  <1>3. ASSUME CancelEvent(c) PROVE Did(c)
    BY <1>3, TransitionDoes DEF CancelEvent
  <1> QED
    BY <1>1, <1>2, <1>3, UpdateDoes, DeleteDoes, CreateDoes, GetDoes, TypeStepDoes DEF Step, EventStep
-----------------------------------------------------------------------------
(***************************************************************************)
(* What is known of the calls that took effect: they are over, their event *)
(* exists, and an ending they gave it is still there.                      *)
(***************************************************************************)
Takers == {"create", "update", "delete", "publish", "unpublish", "cancel"}

Effects ==
  /\ IsFiniteSet(wrote)
  /\ \A c \in wrote :
       /\ pc[c] \in Over
       /\ req[c].op \in Takers => Row(c) # NoEvent
       /\ req[c].op = "cancel" => Row(c).status = "CANCELLED"
       /\ req[c].op = "delete" => Row(c).deleted

\* The calls that were over when a call began are over.
AfterIsOver == \A c \in Calls : c \notin after[c] /\ \A d \in after[c] : Finished(d)

Known == IInv /\ Effects /\ AfterIsOver

LEMMA StepFrame ==
  ASSUME NEW c \in Calls, IInv, Step(c)
  PROVE  /\ Did(c) /\ UNCHANGED <<req, after>> /\ req[c] \in Requests /\ req[c].event \in Events
         /\ \A d \in Calls \ {c} : pc'[d] = pc[d]
         /\ IInv'
         /\ \A e \in Events : event[e] # NoEvent =>
              /\ event'[e] # NoEvent
              /\ event[e].deleted => event'[e] = event[e]
              /\ event[e].status = "CANCELLED" => event'[e].status = "CANCELLED"
  <1>1. PICK label : Legal(c, label)
    BY StepIsLegal, TypeStepIsLegal DEF Step
  <1>2. IInv' /\ Did(c)
    BY <1>1, LegalKeeps, StepDoes
  <1>3. UNCHANGED <<req, after>> /\ \A d \in Calls \ {c} : pc'[d] = pc[d]
    BY <1>1 DEF Legal, Moves, IInv, CallsTyped
  <1>4. req[c] \in Requests /\ req[c].event \in Events
    BY <1>1, RequestsNameEvents DEF Legal, Moves, IInv, EventsTyped
  <1>5. \A e \in Events : event[e] # NoEvent => event'[e] # NoEvent
    BY <1>2, <1>4 DEF Did, Stores, IInv, EventsTyped, EventRows, NoEvent, Statuses
  <1> QED
    BY <1>1, <1>2, <1>3, <1>4, <1>5, LegalEndings

LEMMA BeginFrame ==
  ASSUME NEW c \in Calls, Known, Begin(c)
  PROVE  /\ pc[c] = "new" /\ c \notin wrote /\ req[c] = NoRequest
         /\ UNCHANGED <<event, saw, slug, tries, wrote>>
         /\ req'[c] \in Requests /\ pc'[c] = "start" /\ after'[c] = {d \in Calls : Finished(d)}
         /\ \A d \in Calls \ {c} : pc'[d] = pc[d] /\ req'[d] = req[d] /\ after'[d] = after[d]
         /\ IInv'
  <1>1. IInv'
    BY BeginKeeps DEF Known
  <1>2. pc[c] = "new" /\ req[c] = NoRequest /\ c \notin wrote
    BY DEF Begin, Known, IInv, OnlyNewWait, Effects, Over, Answers
  <1>3. PICK r \in Requests :
          /\ req' = [req EXCEPT ![c] = r] /\ pc' = [pc EXCEPT ![c] = "start"]
          /\ after' = [after EXCEPT ![c] = {d \in Calls : Finished(d)}]
          /\ UNCHANGED <<event, saw, slug, tries, wrote>>
    BY DEF Begin
  <1> QED
    BY <1>1, <1>2, <1>3 DEF Known, IInv, CallsTyped

LEMMA KnownKept == ASSUME Known, [NextWithTypes]_vars PROVE Known'
  <1>1. CASE UNCHANGED vars
    <2>1. IInv'
      BY NextKeeps DEF Known
    <2> QED
      BY <1>1, <2>1 DEF Known, Effects, AfterIsOver, Finished, Row, vars, eventVars
  <1>2. ASSUME NEW c \in Calls, Begin(c) PROVE Known'
    <2>1. Effects'
      BY <1>2, BeginFrame DEF Known, Effects, Row, IInv, EventsTyped
    <2>2. AfterIsOver'
      <3>1. \A d \in Calls : Finished(d) => Finished(d)'
        BY <1>2, BeginFrame DEF Finished, Answers
      <3>2. c \notin after'[c] /\ \A d \in after'[c] : Finished(d)
        BY <1>2, BeginFrame DEF Finished, Answers
      <3> QED
        BY <1>2, <3>1, <3>2, BeginFrame DEF Known, AfterIsOver, IInv, EventsTyped
    <2> QED
      BY <1>2, <2>1, <2>2, BeginFrame DEF Known
  <1>3. ASSUME NEW c \in Calls, Step(c) PROVE Known'
    <2>1. /\ Did(c) /\ UNCHANGED <<req, after>> /\ req[c] \in Requests /\ req[c].event \in Events
          /\ \A d \in Calls \ {c} : pc'[d] = pc[d]
          /\ IInv'
          /\ \A e \in Events : event[e] # NoEvent =>
               /\ event'[e] # NoEvent
               /\ event[e].deleted => event'[e] = event[e]
               /\ event[e].status = "CANCELLED" => event'[e].status = "CANCELLED"
      BY <1>3, StepFrame DEF Known
    <2>2. AfterIsOver'
      BY <2>1 DEF Known, AfterIsOver, Did, Finished, IInv, EventsTyped
    <2>3. wrote' = wrote \/ wrote' = wrote \cup {c}
      BY <2>1 DEF Did
    <2>4. IsFiniteSet(wrote')
      BY <2>3, FS_AddElement DEF Known, Effects
    <2>5. ASSUME NEW d \in wrote'
          PROVE  /\ pc'[d] \in Over
                 /\ req'[d].op \in Takers => event'[req[d].event] # NoEvent
                 /\ req'[d].op = "cancel" => event'[req[d].event].status = "CANCELLED"
                 /\ req'[d].op = "delete" => event'[req[d].event].deleted
      <3>1. CASE d \in wrote
        <4>1. d \in Calls /\ req[d] \in Requests /\ req[d].event \in Events
          BY <3>1, RequestsNameEvents DEF Known, Effects, IInv, EventsTyped, Over, Answers
        <4>2. pc'[d] \in Over
          BY <2>1, <3>1, <4>1 DEF Known, Effects, Did, Over
        <4>3. req[d].op \in {"cancel", "delete"} => req[d].op \in Takers
          BY DEF Takers
        <4> QED
          BY <2>1, <3>1, <4>1, <4>2, <4>3 DEF Known, Effects, Row
      <3>2. CASE d \notin wrote
        <4>1. d = c /\ wrote' # wrote
          BY <2>3, <3>2
        <4>2. /\ pc'[c] \in Over
              /\ \/ event' = event /\ req[c].op \in TypeOps
                 \/ \E row \in EventRows : Stores(c, row) /\ Takes(c, Row(c), row)
          BY <2>1, <4>1 DEF Did
        <4>3. CASE req[c].op \in TypeOps
          BY <2>1, <4>1, <4>2, <4>3 DEF TypeOps, Takers
        <4>4. CASE \E row \in EventRows : Stores(c, row) /\ Takes(c, Row(c), row)
          <5>1. PICK row \in EventRows : Stores(c, row) /\ Takes(c, Row(c), row)
            BY <4>4
          <5>2. event'[req[c].event] = row /\ row # NoEvent
            BY <2>1, <5>1 DEF Stores, Known, IInv, EventsTyped, EventRows, NoEvent, Statuses
          <5> QED
            BY <2>1, <4>1, <4>2, <5>1, <5>2 DEF Takes
        <4> QED
          BY <4>2, <4>3, <4>4
      <3> QED
        BY <3>1, <3>2
    <2>6. Effects'
      BY <2>1, <2>4, <2>5 DEF Effects, Row
    <2> QED
      BY <2>1, <2>2, <2>6 DEF Known
  <1> QED
    BY <1>1, <1>2, <1>3 DEF NextWithTypes, Step

LEMMA KnownAtFirst == TypesInit => Known
  BY InitHolds, FS_EmptySet DEF TypesInit, Init, Known, Effects, AfterIsOver

(***************************************************************************)
(* Publications.                                                           *)
(***************************************************************************)
LEMMA CountsOne ==
  ASSUME Known, NEW c \in Calls, c \notin wrote, wrote' = wrote \cup {c}, req' = req,
         NEW e \in Events, NEW op
  PROVE  /\ Changes(e, op) \in Nat
         /\ Changes(e, op)' = Changes(e, op) + (IF req[c].op = op /\ req[c].event = e THEN 1 ELSE 0)
  <1> DEFINE S == {d \in wrote : req[d].op = op /\ req[d].event = e}
             T == {d \in wrote' : req'[d].op = op /\ req'[d].event = e}
  <1>1. IsFiniteSet(S) /\ c \notin S /\ Cardinality(S) \in Nat
    BY FS_Subset, FS_CardinalityType DEF Known, Effects
  <1>2. T = IF req[c].op = op /\ req[c].event = e THEN S \cup {c} ELSE S
    OBVIOUS
  <1>3. Cardinality(T) = Cardinality(S) + (IF req[c].op = op /\ req[c].event = e THEN 1 ELSE 0)
    <2> HIDE DEF S, T
    <2>1. CASE req[c].op = op /\ req[c].event = e
      BY <1>1, <1>2, <2>1, FS_AddElement
    <2>2. CASE ~(req[c].op = op /\ req[c].event = e)
      BY <1>1, <1>2, <2>2
    <2> QED
      BY <2>1, <2>2
  <1> QED
    BY <1>1, <1>3 DEF Changes

Alternate(e) ==
  event[e] # NoEvent =>
    /\ Changes(e, "publish") = Changes(e, "unpublish")
                               + (IF event[e].status = "DRAFT" THEN 0 ELSE 1)
    /\ Changes(e, "cancel") = (IF event[e].status = "CANCELLED" THEN 1 ELSE 0)

LEMMA AlternateKept ==
  ASSUME Known, PublicationsAlternate, [NextWithTypes]_vars PROVE PublicationsAlternate'
  <1> USE DEF Known
  <1>1. CASE UNCHANGED vars
    BY <1>1 DEF vars, eventVars, PublicationsAlternate, Changes
  <1>2. ASSUME NEW c \in Calls, Begin(c) PROVE PublicationsAlternate'
    <2>1. ASSUME NEW e \in Events, NEW op PROVE Changes(e, op)' = Changes(e, op)
      <3>1. \A d \in wrote : req'[d] = req[d]
        BY <1>2, BeginFrame DEF IInv, EventsTyped
      <3>2. {d \in wrote : req'[d].op = op /\ req'[d].event = e} = {d \in wrote : req[d].op = op /\ req[d].event = e}
        BY <3>1
      <3> QED
        BY <1>2, <3>2, BeginFrame DEF Changes
    <2> QED
      BY <1>2, <2>1, BeginFrame, DraftsAreDrafts DEF PublicationsAlternate
  <1>3. ASSUME NEW c \in Calls, Step(c) PROVE PublicationsAlternate'
    <2> SUFFICES ASSUME NEW e \in Drafts PROVE Alternate(e)'
      BY DEF PublicationsAlternate, Alternate
    <2>1. e \in Events /\ Alternate(e)
      BY DraftsAreDrafts DEF PublicationsAlternate, Alternate
    <2>2. Did(c) /\ UNCHANGED req /\ req[c].event \in Events
      BY <1>3, StepFrame
    <2>3. CASE UNCHANGED <<event, wrote>>
      BY <2>1, <2>2, <2>3 DEF Alternate, Changes
    <2>4. CASE ~UNCHANGED <<event, wrote>>
      <3>1. /\ pc[c] \notin Over /\ wrote' = wrote \cup {c}
            /\ \/ event' = event /\ req[c].op \in TypeOps
               \/ \E row \in EventRows : Stores(c, row) /\ Takes(c, Row(c), row)
        BY <2>2, <2>4 DEF Did, Over
      <3>2. c \notin wrote
        BY <3>1 DEF Effects
      <3> DEFINE p == Changes(e, "publish")
                 u == Changes(e, "unpublish")
                 k == Changes(e, "cancel")
                 one(op) == IF req[c].op = op /\ req[c].event = e THEN 1 ELSE 0
      <3>3. /\ p \in Nat /\ u \in Nat /\ k \in Nat
            /\ p' = p + one("publish") /\ u' = u + one("unpublish") /\ k' = k + one("cancel")
        BY <2>1, <2>2, <3>1, <3>2, CountsOne
      <3>4. Alternate(e) <=> (event[e] # NoEvent => /\ p = u + (IF event[e].status = "DRAFT" THEN 0 ELSE 1)
                                                   /\ k = (IF event[e].status = "CANCELLED" THEN 1 ELSE 0))
        BY DEF Alternate
      <3>5. Alternate(e)' <=> (event'[e] # NoEvent => /\ p' = u' + (IF event'[e].status = "DRAFT" THEN 0 ELSE 1)
                                                     /\ k' = (IF event'[e].status = "CANCELLED" THEN 1 ELSE 0))
        BY DEF Alternate
      <3>6. event[e] = NoEvent => p = 0 /\ u = 0 /\ k = 0
        <4> SUFFICES ASSUME event[e] = NoEvent,
                            NEW op \in {"publish", "unpublish", "cancel"}
                     PROVE  Changes(e, op) = 0
          OBVIOUS
        <4>1. {d \in wrote : req[d].op = op /\ req[d].event = e} = {}
          BY DEF Effects, Takers, Row
        <4> QED
          BY <4>1, FS_EmptySet DEF Changes
      <3> HIDE DEF p, u, k
      <3>7. CASE event'[e] = event[e] /\ one("publish") = 0 /\ one("unpublish") = 0 /\ one("cancel") = 0
        BY <2>1, <3>3, <3>4, <3>5, <3>7
      <3>8. CASE req[c].event = e /\ \E row \in EventRows : Stores(c, row) /\ Takes(c, Row(c), row)
        <4>1. PICK row \in EventRows : Stores(c, row) /\ Takes(c, Row(c), row)
          BY <3>8
        <4>2. event'[e] = row /\ Row(c) = event[e]
          BY <2>1, <3>8, <4>1 DEF Stores, Row, IInv, EventsTyped
        <4>3. CASE req[c].op = "create" /\ event[e] = NoEvent /\ row.status = "DRAFT"
          BY <3>3, <3>5, <3>6, <4>2, <4>3
        <4>4. CASE event[e] # NoEvent /\ Takes(c, event[e], row) /\ req[c].op # "create"
          BY <2>1, <3>3, <3>4, <3>5, <3>8, <4>2, <4>4 DEF Takes
        <4> QED
          BY <4>1, <4>2, <4>3, <4>4 DEF Takes, Present
      <3> QED
        BY <2>1, <3>1, <3>7, <3>8 DEF Stores, TypeOps, IInv, EventsTyped
    <2> QED
      BY <2>3, <2>4
  <1> QED
    BY <1>1, <1>2, <1>3 DEF NextWithTypes, Step

\* Of all the calls that read an event as a draft one publishes it, until one
\* takes it back: by the status each conditional update leaves, for any number
\* of calls.
THEOREM Publications == TypesSpec => []PublicationsAlternate
  <1>1. TypesInit => Known /\ PublicationsAlternate
    <2>1. TypesInit => PublicationsAlternate
      <3> SUFFICES ASSUME TypesInit, NEW e \in Drafts, event[e] # NoEvent
                   PROVE  /\ \A op : Changes(e, op) = 0
                          /\ event[e].status = "DRAFT"
        BY DEF PublicationsAlternate
      <3>1. \A op : {c \in wrote : req[c].op = op /\ req[c].event = e} = {}
        BY DEF TypesInit, Init
      <3> QED
        BY <3>1, FS_EmptySet, DraftsAreDrafts DEF TypesInit, Init, Changes
    <2> QED
      BY <2>1, KnownAtFirst
  <1>2. Known /\ PublicationsAlternate /\ [NextWithTypes]_vars => (Known /\ PublicationsAlternate)'
    BY KnownKept, AlternateKept
  <1> QED
    BY <1>1, <1>2, PTL DEF TypesSpec
-----------------------------------------------------------------------------
(***************************************************************************)
(* Registrations: what a call saw of its event, and who may have ended the *)
(* event since.                                                            *)
(***************************************************************************)
Ended(d, e) == d \in wrote /\ Closes(d, e)
\* What c has read, or reads now, it reads after d: then somebody opened the event
\* again, and not after c was over.
Excused(d, c) == \E p \in Calls : Reopens(p, d) /\ c \notin after[p]
InTime(c) ==
  c \in registered \/ (pc[c] = "insert" /\ req[c].op = "register") =>
    \A d \in after[c] : Ended(d, req[c].event) => Excused(d, c)
\* An event is closed after the call that closed it, until one opens it again.
Closed(d) ==
  d \in wrote /\ Closes(d, req[d].event) /\ Open(Row(d)) => \E p \in Calls : Reopens(p, d)
Punctual ==
  /\ registered \subseteq wrote
  /\ \A c \in Calls : InTime(c) /\ Closed(c)

LEMMA RegisterDoes ==
  ASSUME NEW c \in Calls, IInv, Step(c)
  PROVE  /\ \/ registered' = registered
            \/ /\ registered' = registered \cup {c} /\ wrote' = wrote \cup {c}
               /\ pc[c] = "insert" /\ req[c].op = "register"
         /\ pc'[c] = "insert" /\ req[c].op = "register" => Open(Row(c))
  <1>1. CASE TypeStep(c) /\ req[c].op = "register"
    <2>1. Register(c)
      BY <1>1 DEF TypeStep, CheckEventOwnership, CreateTicketType, UpdateTicketType, DeleteTicketType, At
    <2> QED
      BY <2>1 DEF Register, At, Effect, Stay, Skip, Goto, IInv, CallsTyped
  <1>2. CASE TypeStep(c) /\ req[c].op # "register"
    BY <1>2 DEF TypeStep, CheckEventOwnership, CreateTicketType, UpdateTicketType, DeleteTicketType, Register,
                At, Stay
  <1>3. CASE EventStep(c) /\ UNCHANGED <<types, registered, top>>
    <2>1. CASE pc[c] = "reload"
      BY <1>3, <2>1, StepDoes DEF Did, Answers
    <2>2. CASE pc[c] # "reload"
      BY <1>3, <2>2 DEF EventStep, GenerateUniqueSlug, CreateEvent, GetEvent, UpdateEvent, DeleteEvent,
                        PublishEvent, UnpublishEvent, CancelEvent, Transition, At
    <2> QED
      BY <2>1, <2>2
  <1> QED
    BY <1>1, <1>2, <1>3 DEF Step

LEMMA ReopensKept ==
  ASSUME NEW p \in Calls, NEW d \in Calls, Reopens(p, d), wrote \subseteq wrote',
         req'[p] = req[p], after'[p] = after[p], req'[d] = req[d], after'[d] = after[d]
  PROVE  Reopens(p, d)'
  BY DEF Reopens

LEMMA ClosedKept ==
  ASSUME NEW c \in Calls, NEW d \in Calls, Known, Closed(d), Step(c) PROVE Closed(d)'
  <1>1. /\ Did(c) /\ UNCHANGED <<req, after>> /\ req[c].event \in Events /\ IInv
    BY StepFrame DEF Known
  <1>2. ~Finished(c) /\ wrote \subseteq wrote' /\ wrote' \subseteq wrote \cup {c} /\ c \notin after[d]
    BY <1>1 DEF Did, Finished, Known, AfterIsOver
  <1>3. SUFFICES ASSUME d \in wrote', Closes(d, req[d].event), Open(Row(d)'), ~\E p \in Calls : Reopens(p, d)'
                 PROVE  FALSE
    BY <1>1 DEF Closed, Closes
  <1>4. ~\E p \in Calls : Reopens(p, d)
    BY <1>1, <1>2, <1>3, ReopensKept
  <1>5. d \in wrote => ~Open(Row(d))
    BY <1>3, <1>4 DEF Closed
  <1>6. Row(d)' = event'[req[d].event] /\ Row(d) = event[req[d].event] /\ Row(c) = event[req[c].event]
    BY <1>1 DEF Row
  <1>7. CASE event' = event
    <2>1. d = c /\ wrote' # wrote
      BY <1>2, <1>3, <1>5, <1>6, <1>7
    <2>2. req[c].op \notin TypeOps /\ req[c].op \in {"cancel", "delete", "unpublish"}
      BY <1>3, <2>1 DEF Closes, TypeOps
    <2>3. PICK row \in EventRows : Stores(c, row) /\ Takes(c, Row(c), row)
      BY <1>1, <2>1, <2>2 DEF Did
    <2>4. row = Row(c)
      BY <1>1, <1>6, <1>7, <2>3 DEF Stores, IInv, EventsTyped
    <2> QED
      BY <2>2, <2>3, <2>4 DEF Takes, Present
  <1>8. CASE event' # event
    <2>1. PICK row \in EventRows : Stores(c, row) /\ Takes(c, Row(c), row) /\ c \in wrote'
      BY <1>1, <1>8 DEF Did
    <2>2. \A e \in Events : event'[e] = IF e = req[c].event THEN row ELSE event[e]
      BY <1>1, <2>1 DEF Stores, IInv, EventsTyped
    <2>3. CASE d = c
      <3>1. Row(d)' = row
        BY <1>1, <1>6, <2>2, <2>3
      <3>2. req[c].op \in {"cancel", "delete", "unpublish"}
        BY <1>3, <2>3 DEF Closes
      <3> QED
        BY <1>3, <2>1, <3>1, <3>2 DEF Takes, Open, Present
    <2>4. CASE d # c
      <3>1. d \in wrote /\ req[d].event \in Events
        BY <1>2, <1>3, <2>4, RequestsNameEvents DEF Known, Effects, IInv, EventsTyped, Over, Answers
      <3>2. req[d].event = req[c].event /\ Row(d)' = row /\ Row(d) = Row(c) /\ Open(row) /\ ~Open(Row(c))
        BY <1>1, <1>3, <1>5, <1>6, <2>2, <3>1
      <3>3. req[c].op = "publish"
        BY <2>1, <3>2 DEF Takes, Open, Present, EventRows
      <3>4. req[d].op = "unpublish"
        <4>1. req[d].op \notin {"cancel", "delete"}
          BY <2>1, <3>1, <3>2, <3>3 DEF Known, Effects, Takes, Present, Row
        <4> QED
          BY <1>3, <4>1 DEF Closes
      <3> QED
        BY <1>1, <1>2, <1>3, <2>1, <3>2, <3>3, <3>4 DEF Reopens
    <2> QED
      BY <2>3, <2>4
  <1> QED
    BY <1>7, <1>8

LEMMA PunctualKept == ASSUME Known, Punctual, [NextWithTypes]_vars PROVE Punctual'
  <1> USE DEF Known
  <1>1. CASE UNCHANGED vars
    BY <1>1 DEF vars, eventVars, Punctual, InTime, Ended, Excused, Closed, Closes, Reopens, Row
  <1>2. ASSUME NEW c \in Calls, Begin(c), UNCHANGED registered PROVE Punctual'
    <2>1. \A p, d \in Calls : Reopens(p, d) /\ d \in wrote => Reopens(p, d)'
      BY <1>2, BeginFrame, ReopensKept DEF Reopens
    <2>2. \A d \in Calls : d \in wrote => d # c
      BY <1>2, BeginFrame
    <2> SUFFICES ASSUME NEW b \in Calls PROVE InTime(b)' /\ Closed(b)'
      BY <1>2, BeginFrame DEF Punctual
    <2>3. Closed(b)'
      BY <1>2, <2>1, <2>2, BeginFrame DEF Punctual, Closed, Closes, Row
    <2>4. CASE b = c
      BY <1>2, <2>3, <2>4, BeginFrame DEF Punctual, InTime
    <2>5. CASE b # c
      <3> SUFFICES ASSUME b \in registered \/ (pc[b] = "insert" /\ req[b].op = "register"),
                          NEW d \in after[b], Ended(d, req[b].event)'
                   PROVE  Excused(d, b)'
        <4>1. pc'[b] = pc[b] /\ req'[b] = req[b] /\ after'[b] = after[b] /\ registered' = registered
          BY <1>2, <2>5, BeginFrame
        <4> QED
          BY <2>3, <4>1 DEF InTime
      <3>1. d \in Calls /\ d # c /\ Ended(d, req[b].event)
        BY <1>2, <2>2, <2>5, BeginFrame DEF Ended, Closes, IInv, EventsTyped
      <3>2. PICK p \in Calls : Reopens(p, d) /\ b \notin after[p]
        BY <3>1 DEF Punctual, InTime, Excused
      <3>3. Reopens(p, d)' /\ b \notin after'[p]
        BY <1>2, <2>1, <3>1, <3>2, BeginFrame DEF Ended, Reopens
      <3> QED
        BY <3>3 DEF Excused
    <2> QED
      BY <2>3, <2>4, <2>5
  <1>3. ASSUME NEW c \in Calls, Step(c) PROVE Punctual'
    <2>1. /\ Did(c) /\ UNCHANGED <<req, after>> /\ req[c].event \in Events
          /\ \A d \in Calls \ {c} : pc'[d] = pc[d]
      BY <1>3, StepFrame
    <2>2. registered' \subseteq wrote'
      BY <1>3, <2>1, RegisterDoes DEF Punctual, Did
    <2>3. ~Finished(c) /\ wrote \subseteq wrote' /\ wrote' \subseteq wrote \cup {c}
      BY <2>1 DEF Did, Finished
    <2> SUFFICES ASSUME NEW b \in Calls PROVE InTime(b)'
      BY <1>3, <2>2, ClosedKept DEF Punctual
    <2>4. \A d \in after[b] : d \in Calls /\ (Ended(d, req[b].event)' => Ended(d, req[b].event))
      BY <2>1, <2>3 DEF AfterIsOver, Ended, Closes, IInv, EventsTyped
    <2>5. \A d \in Calls : Excused(d, b) => Excused(d, b)'
      BY <2>1, <2>3, ReopensKept DEF Excused
    <2>6. CASE b = c /\ pc'[c] = "insert" /\ req[c].op = "register"
      <3>1. Open(Row(c))
        BY <1>3, <2>6, RegisterDoes
      <3>2. \A p \in Calls : c \notin after[p]
        BY <2>3 DEF AfterIsOver
      <3>3. ASSUME NEW d \in after[c], Ended(d, req[c].event) PROVE Excused(d, c)
        <4>1. d \in Calls /\ Row(d) = Row(c) /\ Closes(d, req[d].event) /\ d \in wrote
          BY <3>3 DEF Ended, Closes, Row, IInv, EventsTyped
        <4>2. PICK p \in Calls : Reopens(p, d)
          BY <3>1, <4>1 DEF Punctual, Closed
        <4> QED
          BY <3>2, <4>2 DEF Excused
      <3> QED
        BY <2>1, <2>4, <2>5, <2>6, <3>3 DEF InTime
    <2>7. CASE b = c /\ ~(pc'[c] = "insert" /\ req[c].op = "register")
      BY <1>3, <2>1, <2>4, <2>5, <2>7, RegisterDoes DEF Punctual, InTime
    <2>8. CASE b # c
      BY <1>3, <2>1, <2>4, <2>5, <2>8, RegisterDoes DEF Punctual, InTime
    <2> QED
      BY <2>6, <2>7, <2>8
  <1> QED
    BY <1>1, <1>2, <1>3 DEF NextWithTypes, Step

\* A registration for an event that was cancelled, deleted or taken back to draft
\* was under way when that happened, or an overlapping publication opened it
\* again: the event is read once, after the call began.
THEOREM LateRegistrations == TypesSpec => []LateRegistrationsOverlap
  <1>1. TypesInit => Known /\ Punctual
    BY KnownAtFirst DEF TypesInit, Init, Punctual, InTime, Closed
  <1>2. Known /\ Punctual /\ [NextWithTypes]_vars => (Known /\ Punctual)'
    BY KnownKept, PunctualKept
  <1>3. Known /\ Punctual => LateRegistrationsOverlap
    <2> SUFFICES ASSUME Known, Punctual, NEW c \in registered, NEW d \in wrote,
                        d \in after[c], Closes(d, req[c].event)
                 PROVE  \E p \in Calls : Reopens(p, d) /\ c \notin after[p]
      BY DEF LateRegistrationsOverlap
    <2>1. c \in Calls /\ Ended(d, req[c].event)
      BY DEF Known, IInv, EventsTyped, Punctual, Ended
    <2> QED
      BY <2>1 DEF Punctual, InTime, Excused
  <1> QED
    BY <1>1, <1>2, <1>3, PTL DEF TypesSpec

-----------------------------------------------------------------------------
(***************************************************************************)
(* The numbers of ticket types.  A finite set of numbered things has one   *)
(* with the largest number: the least subset without one would have one    *)
(* element less.                                                           *)
(***************************************************************************)
LEMMA LargestThere ==
  ASSUME NEW T, IsFiniteSet(T), T # {}, NEW f \in [T -> Int]
  PROVE  \E m \in T : \A t \in T : f[t] <= f[m]
  <1> DEFINE Has(U) == \E m \in U : \A t \in U : f[t] <= f[m]
             Bad == {U \in FiniteSubsetsOf(T) : U # {} /\ ~Has(U)}
             R == StrictSubsetOrdering(T)
  <1>1. T \in FiniteSubsetsOf(T)
    BY DEF FiniteSubsetsOf
  <1>2. IsWellFoundedOn(R, FiniteSubsetsOf(T))
    BY FS_StrictSubsetOrderingWellFounded
  <1>3. SUFFICES ASSUME Bad # {} PROVE FALSE
    BY <1>1
  <1>4. PICK U \in Bad : \A V \in Bad : <<V, U>> \notin R
    <2> HIDE DEF R
    <2>1. Bad \subseteq FiniteSubsetsOf(T)
      OBVIOUS
    <2> HIDE DEF Bad
    <2> QED
      BY <1>2, <1>3, <2>1, WFMin
  <1>5. PICK x \in U : TRUE
    BY <1>4
  <1> DEFINE V == U \ {x}
  <1>6. U \subseteq T /\ IsFiniteSet(U) /\ V \subseteq U /\ V # U /\ IsFiniteSet(V) /\ \A t \in U : f[t] \in Int
    <2>1. U \subseteq T /\ IsFiniteSet(U)
      BY <1>4 DEF FiniteSubsetsOf
    <2>2. IsFiniteSet(V)
      BY <2>1, FS_Subset
    <2> QED
      BY <1>5, <2>1, <2>2
  <1>7. V \notin Bad
    BY <1>4, <1>6 DEF StrictSubsetOrdering
  <1>8. V = {} \/ Has(V)
    BY <1>6, <1>7 DEF FiniteSubsetsOf
  <1>9. Has(U)
    <2>1. CASE V = {}
      <3>1. U = {x}
        BY <1>5, <2>1
      <3> QED
        BY <1>5, <1>6, <3>1
    <2>2. CASE Has(V)
      <3>1. PICK m \in V : \A t \in V : f[t] <= f[m]
        BY <2>2
      <3>2. CASE f[m] <= f[x]
        BY <1>5, <1>6, <3>1, <3>2
      <3>3. CASE f[x] <= f[m]
        BY <1>5, <1>6, <3>1, <3>3
      <3> QED
        BY <1>5, <1>6, <3>1, <3>2, <3>3
    <2> QED
      BY <1>8, <2>1, <2>2
  <1> QED
    BY <1>4, <1>9

\* What is known of the types: rows, numbers to insert, who made them.
TypesTyped ==
  /\ types \in [TypeIds -> TypeRows \cup {NoType}]
  /\ top \in [Calls -> Nat]
  /\ \A c \in Calls : /\ types[c] # NoType => c \in wrote
                      /\ pc[c] \in {"update", "delete"} => req[c].type \in TypeIds

LEMMA NextOrderIsLast ==
  ASSUME Known, TypesTyped, NEW e \in Events
  PROVE  NextOrder(e) \in Nat /\ \A t \in TypesOf(e) : types[t].order < NextOrder(e)
  <1> DEFINE T == TypesOf(e)
             f == [t \in T |-> types[t].order]
  <1>1. IsFiniteSet(T)
    <2>1. T \subseteq DOMAIN FirstTypes \cup wrote
      BY DEF TypesOf, TypeIds, TypesTyped
    <2>2. IsFiniteSet(DOMAIN FirstTypes \cup wrote)
      BY FirstTypesAreTyped, FS_Union DEF Known, Effects
    <2> QED
      BY <2>1, <2>2, FS_Subset
  <1>2. \A t \in T : types[t].order \in Nat
    BY DEF TypesOf, TypesTyped, TypeRows
  <1>3. \E x \in {-1} \cup Orders(e) : \A y \in {-1} \cup Orders(e) : x >= y
    <2>1. CASE T = {}
      BY <2>1 DEF Orders
    <2>2. CASE T # {}
      <3>1. f \in [T -> Int]
        BY <1>2
      <3> HIDE DEF f
      <3>2. PICK m \in T : \A t \in T : f[t] <= f[m]
        BY <1>1, <2>2, <3>1, LargestThere
      <3>3. \A t \in T : types[t].order <= types[m].order
        BY <3>2 DEF f
      <3> QED
        BY <1>2, <3>2, <3>3 DEF Orders
    <2> QED
      BY <2>1, <2>2
  <1>4. /\ Max({-1} \cup Orders(e)) \in {-1} \cup Orders(e)
        /\ \A y \in {-1} \cup Orders(e) : Max({-1} \cup Orders(e)) >= y
    BY <1>3 DEF Max
  <1> DEFINE m == Max({-1} \cup Orders(e))
  <1>5. m \in Int /\ m >= -1
    BY <1>2, <1>4 DEF Orders
  <1>6. \A t \in T : types[t].order <= m
    BY <1>2, <1>4, <1>5 DEF Orders
  <1> HIDE DEF m, T
  <1>7. NextOrder(e) = m + 1
    BY DEF NextOrder, m
  <1> QED
    BY <1>2, <1>5, <1>6, <1>7 DEF T
\* What a step does to the types: the one that its call inserts is new, the
\* others keep their number and event or go.
Inserts(c) ==
  /\ pc[c] = "insert" /\ req[c].op = "createType" /\ c \in wrote' /\ pc'[c] \in Answers
  /\ types' = [types EXCEPT ![c] = [order |-> top[c], event |-> req[c].event, active |-> TRUE]]
Stays(t) == types'[t] = NoType \/ (types[t] # NoType /\ types'[t].order = types[t].order
                                                     /\ types'[t].event = types[t].event)
TypesDo(c) ==
  /\ types' \in [TypeIds -> TypeRows \cup {NoType}]
  /\ Inserts(c) \/ \A t \in TypeIds : Stays(t)
  /\ \/ UNCHANGED top /\ ~(pc'[c] = "insert" /\ req[c].op = "createType")
     \/ UNCHANGED types /\ top' = [top EXCEPT ![c] = NextOrder(req[c].event)]
  /\ pc'[c] \in {"update", "delete"} => req[c].type \in TypeIds

LEMMA StepOnTypes ==
  ASSUME NEW c \in Calls, Known, TypesTyped, Step(c)
  PROVE  TypesDo(c)
  <1> USE DEF Known
  <1>1. req[c].event \in Events /\ c \in TypeIds /\ top[c] \in Nat
    BY StepFrame DEF TypeIds, TypesTyped
  <1>2. UNCHANGED types => \A t \in TypeIds : Stays(t)
    BY DEF Stays
  <1>3. CASE EventStep(c) /\ UNCHANGED <<types, registered, top>>
    <2>1. PICK label \in {"start", "write", "error", "ok", "exists", "reload"} \cup Answers : Goto(c, label)
      <3>1. WhyNot(c) \in Answers
        BY DEF WhyNot, Answers
      <3> QED
        BY <1>3, <3>1 DEF EventStep, GenerateUniqueSlug, CreateEvent, GetEvent, UpdateEvent, DeleteEvent,
                    PublishEvent, UnpublishEvent, CancelEvent, Transition, Skip, Answers
    <2>2. pc'[c] = label
      BY <2>1 DEF Goto, IInv, CallsTyped
    <2> QED
      BY <1>2, <1>3, <2>1, <2>2 DEF TypesDo, TypesTyped, Answers
  <1>4. CASE CheckEventOwnership(c)
    <2>1. PICK label \in {"find"} \cup Answers : Stay(c, label)
      BY <1>4 DEF CheckEventOwnership, WhyNot, Answers
    <2>2. pc'[c] = label /\ UNCHANGED <<types, top>>
      BY <2>1 DEF Stay, Skip, Goto, IInv, CallsTyped
    <2> QED
      BY <1>2, <2>1, <2>2 DEF TypesDo, TypesTyped, Answers
  <1>5. CASE CreateTicketType(c)
    <2>1. pc[c] \in {"find", "insert"} /\ req[c].op = "createType"
      BY <1>5 DEF CreateTicketType, At
    <2>2. CASE pc[c] = "find"
      <3>1. UNCHANGED types /\ top' = [top EXCEPT ![c] = NextOrder(req[c].event)] /\ Goto(c, "insert")
        BY <1>5, <2>2 DEF CreateTicketType, At
      <3>2. pc'[c] = "insert"
        BY <3>1 DEF Goto, IInv, CallsTyped
      <3> QED
        BY <1>2, <3>1, <3>2 DEF TypesDo, TypesTyped
    <2>3. CASE pc[c] = "insert" /\ top[c] \in Orders(req[c].event)
      <3>1. PICK label \in {"find", "error"} : Goto(c, label) /\ UNCHANGED <<types, top>>
        BY <1>5, <2>3 DEF CreateTicketType, At, AgainFrom
      <3>2. pc'[c] = label
        BY <3>1 DEF Goto, IInv, CallsTyped
      <3> QED
        BY <1>2, <3>1, <3>2 DEF TypesDo, TypesTyped
    <2>4. CASE pc[c] = "insert" /\ top[c] \notin Orders(req[c].event)
      <3> DEFINE row == [order |-> top[c], event |-> req[c].event, active |-> TRUE]
      <3>1. types' = [types EXCEPT ![c] = row] /\ Effect(c, "ok")
        BY <1>5, <2>4 DEF CreateTicketType, At
      <3>2. pc'[c] = "ok" /\ UNCHANGED top /\ c \in wrote'
        BY <3>1 DEF Effect, Goto, IInv, CallsTyped
      <3>3. row \in TypeRows
        BY <1>1 DEF TypeRows
      <3>4. Inserts(c)
        BY <2>1, <2>4, <3>1, <3>2 DEF Inserts, Answers
      <3>5. types' \in [TypeIds -> TypeRows \cup {NoType}]
        <4> HIDE DEF row
        <4> QED
          BY <1>1, <3>1, <3>3 DEF TypesTyped
      <3> QED
        BY <3>2, <3>4, <3>5 DEF TypesDo
    <2> QED
      BY <2>1, <2>2, <2>3, <2>4
  <1>6. CASE UpdateTicketType(c)
    <2> DEFINE t == req[c].type
    <2>1. CASE \E label \in {"update"} \cup Answers : Stay(c, label) /\ (label = "update" => t \in TypeIds)
      <3>1. PICK label \in {"update"} \cup Answers : Stay(c, label) /\ (label = "update" => t \in TypeIds)
        BY <2>1
      <3>2. pc'[c] = label /\ UNCHANGED <<types, top>>
        BY <3>1 DEF Stay, Skip, Goto, IInv, CallsTyped
      <3> QED
        BY <1>2, <3>1, <3>2 DEF TypesDo, TypesTyped, Answers
    <2>2. CASE /\ pc[c] = "update" /\ types[t] # NoType /\ types' = [types EXCEPT ![t].active = ~@]
               /\ Effect(c, "ok")
      <3>1. t \in TypeIds /\ types[t] \in TypeRows
        BY <2>2 DEF TypesTyped
      <3>2. pc'[c] = "ok" /\ UNCHANGED top
        BY <2>2 DEF Effect, Goto, IInv, CallsTyped
      <3> HIDE DEF t
      <3>3. /\ types' \in [TypeIds -> TypeRows \cup {NoType}]
            /\ types'[t].order = types[t].order /\ types'[t].event = types[t].event
            /\ \A s \in TypeIds \ {t} : types'[s] = types[s]
        BY <2>2, <3>1 DEF TypesTyped, TypeRows
      <3>4. \A s \in TypeIds : Stays(s)
        BY <2>2, <3>3 DEF Stays
      <3> QED
        BY <3>2, <3>3, <3>4 DEF TypesDo
    <2> QED
      BY <1>6, <2>1, <2>2 DEF UpdateTicketType, At, TypesOf, Answers
  <1>7. CASE DeleteTicketType(c)
    <2> DEFINE t == req[c].type
    <2>1. CASE \E label \in {"delete"} \cup Answers : Stay(c, label) /\ (label = "delete" => t \in TypeIds)
      <3>1. PICK label \in {"delete"} \cup Answers : Stay(c, label) /\ (label = "delete" => t \in TypeIds)
        BY <2>1
      <3>2. pc'[c] = label /\ UNCHANGED <<types, top>>
        BY <3>1 DEF Stay, Skip, Goto, IInv, CallsTyped
      <3> QED
        BY <1>2, <3>1, <3>2 DEF TypesDo, TypesTyped, Answers
    <2>2. CASE types' = [types EXCEPT ![t] = NoType] /\ Effect(c, "ok")
      <3>1. pc'[c] = "ok" /\ UNCHANGED top
        BY <2>2 DEF Effect, Goto, IInv, CallsTyped
      <3>2. types' \in [TypeIds -> TypeRows \cup {NoType}] /\ \A s \in TypeIds : types'[s] \in {types[s], NoType}
        BY <2>2 DEF TypesTyped
      <3> QED
        BY <3>1, <3>2 DEF TypesDo, Stays
    <2> QED
      BY <1>7, <2>1, <2>2 DEF DeleteTicketType, At, TypesOf, Answers
  <1>8. CASE Register(c)
    <2>1. UNCHANGED <<types, top>> /\ req[c].op = "register"
      BY <1>8 DEF Register, At, Stay, Effect
    <2>2. PICK label \in {"insert"} \cup Answers : Goto(c, label)
      BY <1>8 DEF Register, At, Stay, Skip, Effect, Answers
    <2>3. pc'[c] = label
      BY <2>2 DEF Goto, IInv, CallsTyped
    <2> QED
      BY <1>2, <2>1, <2>2, <2>3 DEF TypesDo, TypesTyped, Answers
  <1> QED
    BY <1>3, <1>4, <1>5, <1>6, <1>7, <1>8 DEF Step, TypeStep
\* A call about to insert has a number above those of all types it may follow.
Precedes(s, t) == s \in DOMAIN FirstTypes \/ s \in after[t]
Follows(c) ==
  pc[c] = "insert" /\ req[c].op = "createType" =>
    \A s \in TypesOf(req[c].event) : Precedes(s, c) => types[s].order < top[c]
Numbered == TypesTyped /\ (\A c \in Calls : Follows(c)) /\ OrderFollowsCreation

LEMMA NumberedKept == ASSUME Known, Numbered, [NextWithTypes]_vars PROVE Numbered'
  <1> USE DEF Known, Numbered
  <1>1. CASE UNCHANGED vars
    BY <1>1 DEF vars, eventVars, TypesTyped, Follows, Precedes, TypesOf, OrderFollowsCreation
  <1>2. ASSUME NEW c \in Calls, Begin(c), UNCHANGED <<types, registered, top>> PROVE Numbered'
    <2>1. TypesTyped'
      BY <1>2, BeginFrame DEF TypesTyped
    <2>2. ASSUME NEW b \in Calls PROVE Follows(b)'
      <3>1. CASE b = c
        BY <1>2, <3>1, BeginFrame DEF Follows
      <3>2. CASE b # c
        BY <1>2, <3>2, BeginFrame DEF Follows, Precedes, TypesOf
      <3> QED
        BY <3>1, <3>2
    <2>3. \A t \in Calls : types[t] # NoType => after'[t] = after[t]
      BY <1>2, BeginFrame DEF TypesTyped
    <2>4. OrderFollowsCreation'
      BY <1>2, <2>3 DEF OrderFollowsCreation, TypesOf
    <2> QED
      BY <2>1, <2>2, <2>4
  <1>3. ASSUME NEW c \in Calls, Step(c) PROVE Numbered'
    <2>1. /\ Did(c) /\ UNCHANGED <<req, after>> /\ req[c].event \in Events
          /\ \A d \in Calls \ {c} : pc'[d] = pc[d]
      BY <1>3, StepFrame
    <2>2. TypesDo(c)
      BY <1>3, StepOnTypes
    <2>3. ~Finished(c) /\ c \notin DOMAIN FirstTypes
      BY <2>1, FirstTypesAreTyped DEF Did, Finished
    <2>4. \A t \in Calls : ~Precedes(c, t)
      BY <2>3 DEF Precedes, AfterIsOver
    <2>5. \A e \in Events : NextOrder(e) \in Nat
      BY NextOrderIsLast
    <2>6. \A t \in TypeIds \ {c} : Stays(t)
      BY <2>2 DEF TypesDo, Inserts, Stays, TypesTyped
    <2>7. top' \in [Calls -> Nat] /\ \A d \in Calls \ {c} : top'[d] = top[d]
      BY <2>1, <2>2, <2>5 DEF TypesDo, TypesTyped
    <2>8. TypesTyped'
      <3>1. ASSUME NEW d \in Calls, types'[d] # NoType PROVE d \in wrote'
        <4>1. types[d] # NoType \/ (d = c /\ Inserts(c))
          BY <2>2, <2>6, <3>1 DEF TypesDo, Stays, TypeIds
        <4> QED
          BY <2>1, <4>1 DEF TypesTyped, Inserts, Did
      <3>2. ASSUME NEW d \in Calls, pc'[d] \in {"update", "delete"} PROVE req'[d].type \in TypeIds
        BY <2>1, <2>2, <3>2 DEF TypesTyped, TypesDo
      <3> QED
        BY <2>2, <2>7, <3>1, <3>2 DEF TypesTyped, TypesDo
    <2>9. ASSUME NEW b \in Calls PROVE Follows(b)'
      <3> SUFFICES ASSUME pc'[b] = "insert", req[b].op = "createType",
                          NEW s \in TypeIds, types'[s] # NoType, types'[s].event = req[b].event,
                          Precedes(s, b)
                   PROVE  types'[s].order < top'[b]
        BY <2>1 DEF Follows, TypesOf, Precedes
      <3>1. s # c
        BY <2>4
      <3>2. Stays(s) /\ s \in TypesOf(req[b].event)
        BY <2>6, <3>1 DEF Stays, TypesOf
      <3>3. CASE b = c
        <4>1. UNCHANGED types /\ top'[c] = NextOrder(req[c].event)
          BY <2>2, <3>3 DEF TypesDo, TypesTyped
        <4> QED
          BY <2>1, <3>2, <3>3, <4>1, NextOrderIsLast
      <3>4. CASE b # c
        <4>1. types[s].order < top[b]
          BY <2>1, <3>2, <3>4 DEF Follows
        <4> QED
          BY <2>7, <3>2, <3>4, <4>1 DEF Stays
      <3> QED
        BY <3>3, <3>4
    <2>10. OrderFollowsCreation'
      <3> SUFFICES ASSUME NEW e \in Events, NEW s \in TypeIds, NEW t \in Calls,
                          types'[s] # NoType, types'[s].event = e, types'[t] # NoType, types'[t].event = e,
                          Precedes(s, t)
                   PROVE  types'[s].order < types'[t].order
        BY <2>1 DEF OrderFollowsCreation, TypesOf, Precedes
      <3>1. s # c /\ t \in TypeIds
        BY <2>4 DEF TypeIds
      <3>2. Stays(s) /\ s \in TypesOf(e)
        BY <2>6, <3>1 DEF Stays, TypesOf
      <3>3. CASE Stays(t)
        <4>1. t \in TypesOf(e) \cap Calls
          BY <3>1, <3>3 DEF Stays, TypesOf
        <4>2. types[s].order < types[t].order
          BY <3>2, <4>1 DEF OrderFollowsCreation, Precedes
        <4> QED
          BY <3>2, <3>3, <4>2 DEF Stays
      <3>4. CASE ~Stays(t)
        <4>1. t = c /\ Inserts(c)
          BY <2>2, <2>6, <3>1, <3>4 DEF TypesDo
        <4>2. types'[c] = [order |-> top[c], event |-> req[c].event, active |-> TRUE]
          BY <3>1, <4>1 DEF Inserts, TypesTyped
        <4>3. types[s].order < top[c]
          BY <3>2, <4>1, <4>2 DEF Follows, Inserts
        <4> QED
          BY <3>2, <4>1, <4>2, <4>3 DEF Stays
      <3> QED
        BY <3>3, <3>4
    <2> QED
      BY <2>8, <2>9, <2>10
  <1> QED
    BY <1>1, <1>2, <1>3 DEF NextWithTypes, Step

LEMMA NumberedAtFirst == TypesInit => Numbered
  <1> SUFFICES ASSUME TypesInit PROVE Numbered
    OBVIOUS
  <1>1. types \in [TypeIds -> TypeRows \cup {NoType}] /\ \A c \in Calls : types[c] = NoType
    BY FirstTypesAreTyped DEF TypesInit, TypeIds
  <1>2. TypesTyped
    BY <1>1 DEF TypesInit, Init, TypesTyped
  <1>3. OrderFollowsCreation
    BY <1>1 DEF OrderFollowsCreation, TypesOf
  <1> QED
    BY <1>2, <1>3 DEF TypesInit, Init, Numbered, Follows

\* Types are listed in the order they were made, for any number of calls that
\* race for the next number, lose, delete and try again: a call takes a number
\* above all there were after it began.
THEOREM Orderly == TypesSpec => []OrderFollowsCreation
  <1>1. TypesInit => Known /\ Numbered
    BY KnownAtFirst, NumberedAtFirst
  <1>2. Known /\ Numbered /\ [NextWithTypes]_vars => (Known /\ Numbered)'
    BY KnownKept, NumberedKept
  <1>3. Numbered => OrderFollowsCreation
    BY DEF Numbered
  <1> QED
    BY <1>1, <1>2, <1>3, PTL DEF TypesSpec
=============================================================================
