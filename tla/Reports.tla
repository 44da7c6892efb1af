------------------------------- MODULE Reports -------------------------------
(***************************************************************************)
(* What the owner and the staff are shown of the event of Passes: the      *)
(* dashboard, the statistics, the lists and the exports.  A report is made *)
(* of queries that run beside each other (Promise.all), each in a snapshot *)
(* of its own, and of later ones; a list is one page and a total; the CSV  *)
(* stream reads page after page, by offset, as its reader asks for more,   *)
(* in the order of the times of registration, which several may share: the *)
(* database may put those in another order for every page.                 *)
(***************************************************************************)
EXTENDS Passes

CONSTANTS PageSize, BATCH_SIZE   \* take of a list, and of the CSV stream

ASSUME SizesArePositive == PageSize \in Nat \ {0} /\ BATCH_SIZE \in Nat \ {0}

Report(first, last) == [first |-> first, last |-> last]

\* The queries of each report
GetDashboardStats == Report({"registered", "rows", "byType"}, {"duplicates"})
GetCheckinStatistics == Report({"valid", "distinct", "duplicates"}, {"events"})
ListEventAttendees == Report({"page", "registered"}, {})
ListRegistrationsByEvent == Report({"page", "registered"}, {})
GetCheckins == Report({"rows"}, {})
ExportRegistrations == Report({"people"}, {})
ExportAttendance == Report({"rows"}, {})
GetOverviewStats == Report({"events", "attended"}, {})

Reports ==
  [dashboard |-> GetDashboardStats, statistics |-> GetCheckinStatistics,
   attendees |-> ListEventAttendees, tickets |-> ListRegistrationsByEvent,
   checkins |-> GetCheckins, registrations |-> ExportRegistrations,
   attendance |-> ExportAttendance, overview |-> GetOverviewStats]

\* What an answer calls its parts is no ticket.
ASSUME PartsAreNoTickets ==
  Tickets \cap ({"csv"} \cup UNION {Reports[op].first \cup Reports[op].last : op \in DOMAIN Reports}) = {}

\* checkEventOwnership of the exports and lists; the CSV stream is the owner's,
\* and the overview is everybody's, of what they own.
CheckEventOwnership(c) ==
  LET u == req[c].user
      mine == u = Owner \/ (u \in Admins /\ req[c].op # "stream")
  IN  /\ pc[c] = "start" /\ req[c].op \in OwnedOps \cup {"overview"}
      /\ Skip(c, CASE req[c].op = "overview"                 -> "query"
                   [] req[c].op # "overview" /\ ~open        -> "notfound"
                   [] req[c].op # "overview" /\ open /\ mine ->
                        IF req[c].op = "stream" THEN "batch" ELSE "query"
                   [] OTHER                                  -> "refused")

\* How many rows there are on a page of a list
Taken(skip, take) == Max({0, Min({take, Cardinality(regs) - skip})})

\* The pages of the registrations in some order of their times: r may have any
\* of the places after Before(r), up to Upto(r).
Before(r) == Cardinality({s \in regs : stamp[s] < stamp[r]})
Upto(r) == Cardinality({s \in regs : stamp[s] <= stamp[r]})
Pages(skip, take) ==
  {rows \in Injection(1 .. Taken(skip, take), regs) :
     \A i \in DOMAIN rows : Before(rows[i]) < skip + i /\ skip + i <= Upto(rows[i])}

\* Mutated form of CountDistinct: undone check-ins count.
CountDistinctEver == Cardinality({r \in Tickets : row[r] # "none"})

\* countDistinctCheckedInRegistrations
CountDistinct == Cardinality(Valid)

\* countDuplicateScans, of the check-ins that are active now; the dashboard asks
\* for those of the rows it has read.
CountDuplicateScans(rows) == MapThenSumSet(LAMBDA r : dups[r], rows)

\* The check-ins that the breakdown by ticket type counts
ByType(rows) == {r \in rows : Typed(r)}

Answer(c, q) ==
  CASE q = "registered"          -> Cardinality(regs)
    [] q = "rows"                -> Valid
    [] q = "people"              -> regs
    [] q = "valid"               -> Cardinality(Valid)
    [] q = "byType"              -> Cardinality(ByType(Valid))
    [] q = "distinct"            -> CountDistinct
    [] q = "attended"            -> IF open THEN Cardinality(regs) ELSE 0
    [] q = "duplicates" -> CountDuplicateScans(IF req[c].op = "dashboard" THEN got[c].rows ELSE Valid)
    [] q = "events" -> IF open /\ (req[c].op = "statistics" => Valid # {}) THEN 1 ELSE 0
    [] q = "page"   -> Taken((req[c].page - 1) * PageSize, PageSize)

Query(c) ==
  LET r == Reports[req[c].op]
      due == IF r.first \subseteq DOMAIN got[c] THEN r.last ELSE r.first
      left == (r.first \cup r.last) \ DOMAIN got[c]
  IN  /\ pc[c] = "query"
      /\ \E q \in due \cap left :
           /\ got' = [got EXCEPT ![c] = With(@, q, Answer(c, q))]
           /\ Goto(c, IF left = {q} THEN "ok" ELSE "query")
      /\ UNCHANGED <<missed, used, saw, data>>

\* Mutated form of HasMore: a full page is taken for the last one.
NeverMore(rows) == FALSE

HasMore(rows) == Len(rows) = BATCH_SIZE

\* createRegistrationCsvStream: the rows pushed so far are the offset of the
\* next page; who was registered at the first is kept to compare with.
ReadBatch(c) ==
  LET pushed == IF got[c] = <<>> THEN <<>> ELSE got[c].csv
  IN  /\ At(c, "stream", "batch")
      /\ saw' = IF got[c] = <<>> THEN [saw EXCEPT ![c] = [present |-> regs]] ELSE saw
      /\ \E rows \in Pages(Len(pushed), BATCH_SIZE) :
           /\ got' = [got EXCEPT ![c] = [csv |-> pushed \o rows]]
           /\ Goto(c, IF HasMore(rows) THEN "batch" ELSE "ok")
      /\ UNCHANGED <<missed, used, data>>

ReportStep(c) == CheckEventOwnership(c) \/ Query(c) \/ ReadBatch(c)

Next ==
  \E c \in Calls :
    Begin(c) \/ GateStep(c) \/ ScanStep(c) \/ IssueStep(c) \/ PassStep(c) \/ ReportStep(c)

Spec == Init /\ [][Next]_vars

-----------------------------------------------------------------------------
Near(m, n, c) == m - n <= missed[c] /\ n - m <= missed[c]
Told(c, op) == req[c].op = op /\ pc[c] = "ok"

\* The numbers of one answer agree with each other to within the writes that
\* were committed while it was put together, exactly if there were none: the
\* check-ins of a ticket type with those the breakdown counts (it leaves the
\* others out), with the distinct attendees, with the registrations (no negative
\* no-shows are hidden), the page with its total.
ReportsAgree ==
  \A c \in Calls :
    LET g == got[c] IN
    /\ Told(c, "dashboard") =>
         /\ Near(Cardinality(ByType(g.rows)), g.byType, c)
         /\ Cardinality(g.rows) <= g.registered + missed[c]
    /\ Told(c, "statistics") =>
         /\ Near(g.valid, g.distinct, c)
         /\ missed[c] = 0 => (g.events = 1 <=> g.valid > 0)
    /\ Told(c, "attendees") \/ Told(c, "tickets") =>
         Near(g.page, Max({0, Min({PageSize, g.registered - (req[c].page - 1) * PageSize})}), c)

\* The CSV stream has a row for everybody who was registered when it began, and
\* no more if nobody registered meanwhile.  Whom it leaves out shares the time of
\* registration with another; whom it then has twice does, too.
Shared(r) == \E s \in regs \ {r} : stamp[s] = stamp[r]
ExportLosesNobody ==
  \A c \in Calls :
    Told(c, "stream") =>
      LET csv == got[c].csv
          present == saw[c].present
      IN  /\ \A p \in present : p \in ToSet(csv) \/ Shared(p)
          /\ Len(csv) >= Cardinality(present)
          /\ missed[c] = 0 =>
               /\ Len(csv) = Cardinality(present)
               /\ \A i, j \in DOMAIN csv : csv[i] = csv[j] => i = j \/ Shared(csv[i])
=============================================================================
