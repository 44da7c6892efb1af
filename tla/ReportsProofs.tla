--------------------------- MODULE ReportsProofs ---------------------------
(***************************************************************************)
(* What Passes and Reports promise for any calls, tickets, requests and    *)
(* page sizes: handed passes stay good, the dashboards catch up, the gate  *)
(* closes, and what is shown or exported agrees with itself.               *)
(***************************************************************************)
EXTENDS Reports, FiniteSetTheorems, SequenceTheorems, TLAPS

ReportOps == {"dashboard", "statistics", "attendees", "tickets", "checkins",
              "registrations", "attendance", "overview"}
Labels == {"new", "start", "event", "staff", "join", "token", "resolve", "create", "restore",
           "count", "emit", "undo", "insert", "issue", "mail", "pass", "recover", "reload",
           "query", "batch"} \cup Answers
Raws == Calls \cup {"old"}
PassRows == [raw : Raws \cup {"none"}, cipher : Raws \cup {"bad", "none"}, revoked : BOOLEAN]

\* The operations that have a label.
Belongs(op, label) ==
  /\ label \in {"event", "staff"} => op \in GatedOps
  /\ label = "join" => op = "join"
  /\ label \in {"token", "resolve", "create", "restore", "count", "emit"} => op = "scan"
  /\ label = "undo" => op = "undo"
  /\ label = "insert" => op \in {"register", "import"}
  /\ label = "issue" => op = "register"
  /\ label = "mail" => op = "import"
  /\ label \in {"pass", "recover", "reload"} => op \in {"details", "mine"}
  /\ label = "query" => op \in ReportOps
  /\ label = "batch" => op = "stream"

\* Labels, requests and what is known of the past.
CallsTyped ==
  /\ pc \in [Calls -> Labels]
  /\ DOMAIN req = Calls /\ DOMAIN saw = Calls /\ DOMAIN got = Calls
  /\ after \in [Calls -> SUBSET Calls]
  /\ missed \in [Calls -> Nat]
  /\ wrote \subseteq Calls
DataTyped ==
  /\ used \in [Calls -> SUBSET Tickets]
  /\ pass \in [Tickets -> PassRows]
  /\ row \in [Tickets -> {"none", "valid", "undone"}]
  /\ regs \subseteq Tickets
  /\ open \in BOOLEAN

\* A request as it was made: a scanned code is one that somebody held.
Fits(r) ==
  /\ r.op = "scan" => /\ r.manual \in BOOLEAN
                      /\ ~r.manual => r.raw \in Raws
  /\ r.op \in {"scan", "undo"} => r.ticket \in Tickets
  /\ r.op \in {"attendees", "tickets"} => r.page \in Nat \ {0}
Placed(c) ==
  /\ pc[c] = "new" => req[c] = NoRequest /\ c \notin wrote
  /\ pc[c] # "new" => Fits(req[c])
  /\ pc[c] \in {"new", "start"} => got[c] = <<>> /\ saw[c] = <<>>
  /\ Belongs(req[c].op, pc[c])
AfterIsOver == \A c \in Calls : \A d \in after[c] : Finished(d)

Control == CallsTyped /\ AfterIsOver /\ \A c \in Calls : Placed(c)

-----------------------------------------------------------------------------
(* The passes                                                              *)

\* A pass whose code can be read, and one whose code cannot: from before codes
\* were kept, or imported.
Own(p) == p.cipher = p.raw /\ p.raw \in Raws
Legacy(p) == p.raw \in Raws /\ p.cipher \in {"bad", "none"}
PassesThere ==
  \A r \in Tickets :
    /\ pass[r] # NoPass => r \in regs /\ (Own(pass[r]) \/ Legacy(pass[r]))
    /\ r \in regs \cap Calls => pc[r] \in {"issue", "mail", "ok"} /\ req[r].op \in {"register", "import"}
    /\ r \in Calls /\ pc[r] \in {"issue", "mail"} => r \in regs
    /\ r \in Calls /\ pass[r] # NoPass => pc[r] \in {"mail", "ok"}
Remembered ==
  \A c \in Calls, r \in Tickets : pc[c] # "new" /\ pass[r].revoked => r \in used[c]
\* What a reader saw of a pass is what it is, or a legacy pass somebody replaced.
SeenRight(c, r) ==
  LET p == saw[c][r] IN
  /\ r \in Tickets /\ pass[r] # NoPass
  /\ {"raw", "cipher", "revoked"} \subseteq DOMAIN p
  /\ Own(p) \/ Legacy(p)
  /\ Legacy(pass[r]) => p.cipher = pass[r].cipher
  /\ p.revoked \in BOOLEAN
  /\ Own(p) => Own(pass[r]) /\ pass[r].raw = p.raw
  /\ p.revoked => r \in used[c]
  /\ "lost" \in DOMAIN p => r \in used[c] \/ Own(pass[r])
ReadersRight ==
  \A c \in Calls : pc[c] \in {"recover", "reload"} => \A r \in DOMAIN saw[c] : SeenRight(c, r)
HandedRight ==
  \A c \in Calls : req[c].op # "import" => \A r \in DOMAIN got[c] \cap Tickets :
    IF got[c][r] = "null" THEN r \in used[c]
    ELSE pass[r] # NoPass /\ Own(pass[r]) /\ pass[r].raw = got[c][r]
\* An imported pass has the code it was made with, or that of a reader who has
\* it; an import hands out the code it made.
Renewed(r) ==
  \E d \in Calls : Reads(d) /\ r \in DOMAIN got[d] /\ got[d][r] # "null" /\ got[d][r] = pass[r].raw
ImportsRight ==
  \A c \in Calls : req[c].op = "import" =>
    /\ c \in regs => pass[c] # NoPass /\ (Renewed(c) \/ (Legacy(pass[c]) /\ pass[c].raw = c))
    /\ got[c] # <<>> => c \in regs /\ DOMAIN got[c] = {c} /\ got[c][c] = c
\* Past ReadToken, the ticket of a scan is registered, and has the pass scanned.
Scanned(c) ==
  pc[c] \in {"resolve", "create", "restore"} =>
    req[c].ticket \in regs /\ (req[c].manual \/ pass[req[c].ticket] # NoPass)

PassesRight ==
  PassesThere /\ Remembered /\ ReadersRight /\ HandedRight /\ ImportsRight /\ \A c \in Calls : Scanned(c)

IInv == Control /\ DataTyped /\ PassesRight

-----------------------------------------------------------------------------
LEMMA TicketsFinite == IsFiniteSet(FirstTickets) /\ IsFiniteSet(Tickets) /\ IsFiniteSet(Calls)
  BY FS_Union, FirstTicketsAreTickets DEF Tickets

LEMMA InitHolds == Init => IInv
  <1> SUFFICES ASSUME Init PROVE IInv
    OBVIOUS
  <1>1. Control
    BY DEF Init, Control, CallsTyped, AfterIsOver, Placed, Labels, NoRequest, Belongs, Finished, Answers
  <1>2. DataTyped
    BY FirstTicketsAreTickets DEF Init, DataTyped, Raws, PassRows, Tickets, NoPass
  <1>3. PassesThere
    <2> SUFFICES ASSUME NEW r \in Tickets
                 PROVE  /\ pass[r] # NoPass => r \in regs /\ (Own(pass[r]) \/ Legacy(pass[r]))
                        /\ r \notin regs \cap Calls /\ ~(r \in Calls /\ pc[r] \in {"issue", "mail"})
                        /\ ~(r \in Calls /\ pass[r] # NoPass)
      BY DEF PassesThere
    <2>1. CASE r \in Calls
      BY <2>1, FirstTicketsAreTickets DEF Init
    <2>2. CASE r \in FirstTickets
      <3>1. r \notin Calls /\ pass[r] = FirstPasses[r] /\ r \in regs
        BY <2>2, FirstTicketsAreTickets DEF Init
      <3> QED
        BY <2>2, <3>1, FirstTicketsAreTickets DEF Own, Legacy, Raws
    <2> QED
      BY <2>1, <2>2 DEF Tickets
  <1>4. Remembered /\ ReadersRight /\ HandedRight /\ ImportsRight /\ \A c \in Calls : Scanned(c)
    BY DEF Init, Remembered, ReadersRight, HandedRight, ImportsRight, NoRequest, Scanned
  <1> QED
    BY <1>1, <1>2, <1>3, <1>4 DEF IInv, PassesRight

-----------------------------------------------------------------------------
(* How calls go on                                                         *)

\* A call goes on to label: the others stay as they are, requests and pasts too.
Goes(c, label) ==
  /\ pc[c] \notin Answers \cup {"new"} /\ label \in Labels \ {"new", "start"}
  /\ pc' = [pc EXCEPT ![c] = label] /\ UNCHANGED <<req, after>>
  /\ Belongs(req[c].op, label)
  /\ DOMAIN saw' = Calls /\ DOMAIN got' = Calls
  /\ \A d \in Calls \ {c} : saw'[d] = saw[d] /\ got'[d] = got[d]
  /\ (wrote' = wrote /\ missed' = missed) \/ Committed(c)

LEMMA SkipGoes ==
  ASSUME NEW c \in Calls, Control, NEW label \in Labels \ {"new", "start"}, Skip(c, label),
         pc[c] \notin Answers \cup {"new"}, Belongs(req[c].op, label)
  PROVE  Goes(c, label)
  BY DEF Skip, Goto, Goes, data, Control, CallsTyped

LEMMA GateGoes ==
  ASSUME NEW c \in Calls, Control, GateStep(c) PROVE \E label : Goes(c, label)
  <1>1. CASE ReadEvent(c)
    <2>1. Body[req[c].op] \in {"token", "join", "query"} /\ Belongs(req[c].op, Body[req[c].op])
      BY <1>1 DEF ReadEvent, Body, GatedOps, Belongs, ReportOps
    <2> DEFINE l == Body[req[c].op]
    <2>2. PICK label \in {"join", "refused", l, "staff"} :
            Skip(c, label) /\ (label = "join" => req[c].op = "join")
      <3> HIDE DEF l
      <3>1. \E label \in {"join", "refused", l, "staff"} :
              Skip(c, label) /\ (label = "join" => req[c].op = "join" \/ label = l)
        BY <1>1 DEF ReadEvent, l
      <3>2. l = "join" => req[c].op = "join"
        BY <2>1 DEF l, Belongs
      <3> QED
        BY <3>1, <3>2
    <2>3. pc[c] \in {"start", "event"} /\ req[c].op \in GatedOps
      BY <1>1 DEF ReadEvent
    <2> QED
      BY <2>1, <2>2, <2>3, SkipGoes DEF Labels, Answers, Belongs
  <1>2. CASE ReadAssignment(c)
    <2>1. req[c].op \in GatedOps /\ pc[c] \in {"start", "staff"} /\ (pc[c] = "start" => req[c].op = "scan")
      BY <1>2 DEF ReadAssignment, At, Control, Placed, Belongs, GatedOps
    <2>2. Body[req[c].op] \in {"token", "join", "query"} /\ Belongs(req[c].op, Body[req[c].op])
      BY <2>1 DEF Body, GatedOps, Belongs, ReportOps
    <2> DEFINE l == Body[req[c].op]
    <2>3. PICK label \in {"refused", l, "event"} : Skip(c, label)
      BY <1>2 DEF ReadAssignment
    <2> QED
      BY <2>1, <2>2, <2>3, SkipGoes DEF Labels, Answers, Belongs
  <1>3. CASE RemoveStaff(c) \/ DeleteEvent(c) \/ Join(c) \/ Leave(c)
    BY <1>3 DEF RemoveStaff, DeleteEvent, Join, Leave, At, Goto, Goes, Labels, Answers, Belongs, Control, CallsTyped
  <1> QED
    BY <1>1, <1>2, <1>3 DEF GateStep

LEMMA ScanGoes ==
  ASSUME NEW c \in Calls, Control, ScanStep(c) PROVE \E label : Goes(c, label)
  <1> USE DEF At, Labels, Answers, Belongs
  <1>1. CASE ReadToken(c)
    <2>1. PICK label \in {"resolve", "count"} : Skip(c, label)
      BY <1>1 DEF ReadToken
    <2> QED
      BY <1>1, <2>1, SkipGoes DEF ReadToken
  <1>2. CASE ResolveCheckIn(c)
    <2>1. CASE row[req[c].ticket] = "valid"
      BY <1>2, <2>1 DEF ResolveCheckIn, Goto, Goes, Control, CallsTyped
    <2>2. CASE row[req[c].ticket] # "valid"
      <3>1. PICK label \in {"create", "restore"} : Skip(c, label)
        BY <1>2, <2>2 DEF ResolveCheckIn
      <3> QED
        BY <1>2, <3>1, SkipGoes DEF ResolveCheckIn
    <2> QED
      BY <2>1, <2>2
  <1>3. CASE CommitCheckIn(c)
    <2>1. CASE pc[c] = "create" /\ row[req[c].ticket] # "none"
      BY <1>3, <2>1, SkipGoes DEF CommitCheckIn
    <2>2. CASE ~(pc[c] = "create" /\ row[req[c].ticket] # "none")
      BY <1>3, <2>2 DEF CommitCheckIn, Goto, Goes, Control, CallsTyped
    <2> QED
      BY <2>1, <2>2
  <1>4. CASE CountCheckedIn(c)
    BY <1>4 DEF CountCheckedIn, Goto, Goes, data, Control, CallsTyped
  <1>5. CASE EmitCheckinUpdate(c)
    BY <1>5 DEF EmitCheckinUpdate, Goto, Goes, Control, CallsTyped
  <1>6. CASE UndoCheckin(c)
    <2>1. CASE pc[c] = "start"
      <3>1. PICK label \in {"undo", "notfound"} : Skip(c, label)
        BY <1>6, <2>1 DEF UndoCheckin
      <3> QED
        BY <1>6, <2>1, <3>1, SkipGoes DEF UndoCheckin
    <2>2. CASE pc[c] # "start" /\ row[req[c].ticket] # "valid"
      BY <1>6, <2>2, SkipGoes DEF UndoCheckin
    <2>3. CASE pc[c] # "start" /\ row[req[c].ticket] = "valid"
      BY <1>6, <2>3 DEF UndoCheckin, Goto, Goes, Control, CallsTyped
    <2> QED
      BY <2>1, <2>2, <2>3
  <1>7. CASE CountFails(c)
    BY <1>7, SkipGoes DEF CountFails
  <1> QED
    BY <1>1, <1>2, <1>3, <1>4, <1>5, <1>6, <1>7 DEF ScanStep

LEMMA IssueGoes ==
  ASSUME NEW c \in Calls, Control, IssueStep(c) PROVE \E label : Goes(c, label)
  <1> USE DEF At, Labels, Answers, Belongs
  <1>1. CASE Insert(c)
    BY <1>1 DEF Insert, Goto, Goes, Control, CallsTyped
  <1>2. CASE Register(c)
    BY <1>2 DEF Register, Goto, Goes, Control, CallsTyped
  <1>3. CASE GenerateToken(c)
    BY <1>3 DEF GenerateToken, Goto, Goes, Control, CallsTyped
  <1>4. CASE ProcessImportFile(c)
    BY <1>4 DEF ProcessImportFile, Goto, Goes, Control, CallsTyped
  <1>5. CASE SendQrIssuedEmail(c)
    BY <1>5 DEF SendQrIssuedEmail, Goto, Goes, data, Control, CallsTyped
  <1> QED
    BY <1>1, <1>2, <1>3, <1>4, <1>5 DEF IssueStep

LEMMA PassGoes ==
  ASSUME NEW c \in Calls, Control, PassStep(c) PROVE \E label : Goes(c, label)
  <1> USE DEF At, Labels, Answers, Belongs
  <1>1. CASE GetTicketDetails(c)
    <2>1. CASE pc[c] = "start"
      <3>1. PICK label \in {"notfound", "ok", "pass"} : Skip(c, label)
        BY <1>1, <2>1 DEF GetTicketDetails
      <3> QED
        BY <1>1, <2>1, <3>1, SkipGoes DEF GetTicketDetails
    <2>2. CASE pc[c] # "start"
      BY <1>1, <2>2 DEF GetTicketDetails, Goto, Goes, data, Control, CallsTyped
    <2> QED
      BY <2>1, <2>2
  <1>2. CASE ListMyTickets(c)
    BY <1>2 DEF ListMyTickets, Goto, Goes, data, Control, CallsTyped
  <1>3. CASE RecoverRawToken(c)
    <2>1. req[c].op \in {"details", "mine"} /\ pc[c] = "recover"
      BY <1>3 DEF RecoverRawToken, Control, Placed
    <2>2. CASE Left(c) = {}
      BY <1>3, <2>1, <2>2, SkipGoes DEF RecoverRawToken
    <2>3. CASE Left(c) # {}
      <3>1. PICK r \in Left(c), label \in {"recover", "reload"} :
              /\ Goto(c, label) /\ UNCHANGED <<missed, wrote>>
              /\ saw' = saw \/ saw' = [saw EXCEPT ![c][r] = With(@, "lost", TRUE)]
              /\ got' = got \/ \E raw : Hand(c, r, raw)
        BY <1>3, <2>3 DEF RecoverRawToken
      <3> QED
        BY <2>1, <3>1 DEF Hand, Goto, Goes, Control, CallsTyped
    <2> QED
      BY <2>2, <2>3
  <1>4. CASE ReloadToken(c)
    <2>1. req[c].op \in {"details", "mine"} /\ pc[c] = "reload"
      BY <1>4 DEF ReloadToken, Control, Placed
    <2> QED
      BY <1>4, <2>1 DEF ReloadToken, Hand, Goto, Goes, data, Control, CallsTyped
  <1> QED
    BY <1>1, <1>2, <1>3, <1>4 DEF PassStep

LEMMA ReportGoes ==
  ASSUME NEW c \in Calls, Control, ReportStep(c) PROVE \E label : Goes(c, label)
  <1> USE DEF At, Labels, Answers, Belongs
  <1>1. CASE CheckEventOwnership(c)
    <2>1. PICK label \in {"query", "batch", "notfound", "refused"} :
            /\ Skip(c, label)
            /\ label = "batch" => req[c].op = "stream"
            /\ label = "query" => req[c].op \in ReportOps
      BY <1>1 DEF CheckEventOwnership, OwnedOps, ReportOps
    <2> QED
      BY <1>1, <2>1, SkipGoes DEF CheckEventOwnership
  <1>2. CASE Query(c)
    <2>1. pc[c] = "query" /\ req[c].op \in ReportOps
      BY <1>2 DEF Query, Control, Placed
    <2>2. PICK label \in {"ok", "query"} :
            /\ \E q : got' = [got EXCEPT ![c] = With(@, q, Answer(c, q))]
            /\ Goto(c, label) /\ UNCHANGED <<missed, saw, wrote>>
      BY <1>2 DEF Query, data
    <2> QED
      BY <2>1, <2>2 DEF Goto, Goes, Control, CallsTyped
  <1>3. CASE ReadBatch(c)
    <2>1. PICK label \in {"ok", "batch"} :
            /\ pc[c] = "batch" /\ req[c].op = "stream"
            /\ saw' = saw \/ saw' = [saw EXCEPT ![c] = [present |-> regs]]
            /\ \E csv : got' = [got EXCEPT ![c] = [csv |-> csv]]
            /\ Goto(c, label) /\ UNCHANGED <<missed, wrote>>
      BY <1>3 DEF ReadBatch, data
    <2> QED
      BY <2>1 DEF Goto, Goes, Control, CallsTyped
  <1> QED
    BY <1>1, <1>2, <1>3 DEF ReportStep

Step(c) == GateStep(c) \/ ScanStep(c) \/ IssueStep(c) \/ PassStep(c) \/ ReportStep(c)
LEMMA StepGoes == ASSUME NEW c \in Calls, Control, Step(c) PROVE \E label : Goes(c, label)
  BY GateGoes, ScanGoes, IssueGoes, PassGoes, ReportGoes DEF Step

LEMMA GoesKeeps ==
  ASSUME NEW c \in Calls, NEW label, Control, Goes(c, label) PROVE Control'
  <1>1. wrote' \subseteq wrote \cup {c} /\ missed' \in [Calls -> Nat]
    BY DEF Goes, Committed, Control, CallsTyped
  <1>2. CallsTyped' /\ AfterIsOver'
    BY <1>1 DEF Goes, Control, CallsTyped, AfterIsOver, Finished
  <1>3. \A d \in Calls : Placed(d)'
    BY <1>1 DEF Goes, Control, CallsTyped, Placed
  <1> QED
    BY <1>2, <1>3 DEF Control

\* The code of a request is one of a pass there is, or was.
LEMMA HeldAreRaws ==
  ASSUME IInv, NEW r \in Tickets PROVE Held(r) \ {"null"} \subseteq Raws
  <1> SUFFICES ASSUME NEW x \in Held(r), x # "null" PROVE x \in Raws
    OBVIOUS
  <1>1. CASE x \in {FirstPasses[t].raw : t \in {r} \ Calls}
    BY <1>1, FirstTicketsAreTickets DEF Tickets, Raws
  <1>2. CASE \E c \in Calls : r \in DOMAIN got[c] /\ x = got[c][r]
    <2>1. PICK c \in Calls : r \in DOMAIN got[c] /\ x = got[c][r]
      BY <1>2
    <2>2. CASE req[c].op = "import"
      BY <2>1, <2>2 DEF IInv, PassesRight, ImportsRight, Raws
    <2>3. CASE req[c].op # "import"
      BY <2>1, <2>3 DEF IInv, PassesRight, HandedRight, Own
    <2> QED
      BY <2>2, <2>3
  <1> QED
    BY <1>1, <1>2 DEF Held

LEMMA BeginKeeps == ASSUME NEW c \in Calls, IInv, Begin(c) PROVE IInv'
  <1> USE DEF IInv, Control
  <1>1. PICK r \in Requests :
          IF r.op = "scan" /\ ~r.manual
          THEN \E raw \in Held(r.ticket) \ {"null"} : req' = [req EXCEPT ![c] = With(r, "raw", raw)]
          ELSE req' = [req EXCEPT ![c] = r]
    BY DEF Begin
  <1>2. Fits(req'[c]) /\ DOMAIN req' = Calls /\ \A d \in Calls \ {c} : req'[d] = req[d]
    <2>1. CASE r.op = "scan" /\ ~r.manual
      <3>1. PICK raw \in Raws : req' = [req EXCEPT ![c] = With(r, "raw", raw)]
        BY <1>1, <2>1, RequestsAreRequests, HeldAreRaws
      <3> DEFINE q == With(r, "raw", raw)
      <3>2. q.op = r.op /\ q.manual = r.manual /\ q.ticket = r.ticket /\ q.raw = raw
        BY <2>1, RequestsAreRequests DEF With
      <3> HIDE DEF q
      <3>3. Fits(q)
        BY <2>1, <3>2, RequestsAreRequests DEF Fits
      <3> QED
        BY <3>1, <3>3 DEF q, CallsTyped
    <2>2. CASE ~(r.op = "scan" /\ ~r.manual)
      BY <1>1, <2>2, RequestsAreRequests DEF Fits, CallsTyped
    <2> QED
      BY <2>1, <2>2
  <1>3. /\ pc[c] = "new" /\ pc' = [pc EXCEPT ![c] = "start"]
        /\ after' = [after EXCEPT ![c] = {d \in Calls : Finished(d)}]
        /\ used' = [used EXCEPT ![c] = {r1 \in Tickets : pass[r1].revoked}]
        /\ UNCHANGED <<missed, saw, got, data>>
    BY DEF Begin
  <1>4. CallsTyped' /\ AfterIsOver'
    BY <1>2, <1>3 DEF CallsTyped, AfterIsOver, Finished, Labels, Answers, data
  <1>5. \A d \in Calls : Placed(d)'
    BY <1>2, <1>3 DEF CallsTyped, Placed, Belongs, data
  <1>6. DataTyped'
    BY <1>3 DEF DataTyped, data
  <1>7. \A d \in Calls : used[d] \subseteq used'[d] \/ d = c
    BY <1>3 DEF DataTyped
  <1>8. got[c] = <<>> /\ \A r1 \in regs \cap Calls : r1 # c
    BY <1>3 DEF Placed, PassesRight, PassesThere, DataTyped
  <1>9. PassesThere' /\ Remembered' /\ \A d \in Calls : Scanned(d)'
    BY <1>2, <1>3, <1>8 DEF PassesRight, PassesThere, Remembered, Scanned, CallsTyped, DataTyped, Own, Legacy, data
  <1>10. ReadersRight'
    BY <1>3 DEF PassesRight, ReadersRight, SeenRight, CallsTyped, DataTyped, Own, Legacy, data
  <1>11. HandedRight'
    BY <1>2, <1>3, <1>8 DEF PassesRight, HandedRight, CallsTyped, DataTyped, Own, data
  <1>12. ImportsRight'
    <2>1. ASSUME NEW d \in Calls, req'[d].op = "import", d \in regs'
          PROVE  pass'[d] # NoPass /\ (Renewed(d)' \/ (Legacy(pass'[d]) /\ pass'[d].raw = d))
      <3>1. d # c /\ req[d].op = "import" /\ d \in regs /\ UNCHANGED <<pass, got>>
        BY <1>2, <1>3, <1>8, <2>1 DEF data
      <3>2. pass[d] # NoPass /\ (Renewed(d) \/ (Legacy(pass[d]) /\ pass[d].raw = d))
        BY <3>1 DEF PassesRight, ImportsRight
      <3>3. CASE Renewed(d)
        <4>1. PICK e \in Calls : Reads(e) /\ d \in DOMAIN got[e] /\ got[e][d] # "null" /\ got[e][d] = pass[d].raw
          BY <3>3 DEF Renewed
        <4>2. e # c
          BY <1>8, <4>1
        <4>3. Reads(e)'
          BY <1>2, <4>1, <4>2 DEF Reads
        <4> QED
          BY <3>1, <3>2, <4>1, <4>3 DEF Renewed
      <3> QED
        BY <3>1, <3>2, <3>3
    <2>2. ASSUME NEW d \in Calls, req'[d].op = "import", got'[d] # <<>>
          PROVE  d \in regs' /\ DOMAIN got'[d] = {d} /\ got'[d][d] = d
      <3>1. d # c /\ req[d].op = "import" /\ UNCHANGED <<regs, got>>
        BY <1>2, <1>3, <1>8, <2>2 DEF data
      <3> QED
        BY <2>2, <3>1 DEF PassesRight, ImportsRight
    <2> QED
      BY <2>1, <2>2 DEF ImportsRight
  <1> QED
    BY <1>4, <1>5, <1>6, <1>9, <1>10, <1>11, <1>12 DEF PassesRight

-----------------------------------------------------------------------------
(* What a step does to the passes                                          *)

Fresh(c) == [raw |-> c, cipher |-> c, revoked |-> FALSE]
Imported(c) == [raw |-> c, cipher |-> "none", revoked |-> FALSE]
Passage(c) ==
  /\ DataTyped'
  /\ \A d \in Calls : used[d] \subseteq used'[d]
  /\ regs \subseteq regs' /\ \A r \in regs' \ regs :
       r = c /\ pc[c] = "insert" /\ (pc'[c] = "issue" \/ (pc'[c] = "mail" /\ pass'[c] = Imported(c)))
  /\ \A r \in Tickets :
       \/ pass'[r] = pass[r]
       \/ r = c /\ pc[c] = "issue" /\ pc'[c] = "ok" /\ pass'[r] = Fresh(c)
       \/ r = c /\ pc[c] = "insert" /\ pc'[c] = "mail" /\ pass'[r] = Imported(c) /\ c \in regs'
       \/ /\ pass[r] # NoPass /\ pass'[r].raw = pass[r].raw /\ pass'[r].cipher = pass[r].cipher
          /\ pass'[r].revoked => \A d \in Calls : r \in used'[d]
       \/ /\ Legacy(pass[r]) /\ ~pass[r].revoked /\ pass'[r] = Fresh(c)
          /\ Reads(c) /\ r \in DOMAIN got'[c] /\ got'[c][r] = c

\* The revocation, and the code, of a pass are changed on their own.
LEMMA PassUpdates ==
  ASSUME NEW p \in PassRows, NEW c \in Calls, NEW b \in BOOLEAN
  PROVE  /\ [p EXCEPT !.revoked = b] \in PassRows
         /\ [p EXCEPT !.revoked = b].raw = p.raw /\ [p EXCEPT !.revoked = b].cipher = p.cipher
         /\ [p EXCEPT !.revoked = b].revoked = b
         /\ Fresh(c) \in PassRows
  <1>1. /\ [p EXCEPT !.revoked = b] \in PassRows
        /\ [p EXCEPT !.revoked = b].raw = p.raw /\ [p EXCEPT !.revoked = b].cipher = p.cipher
        /\ [p EXCEPT !.revoked = b].revoked = b
    BY DEF PassRows
  <1>2. Fresh(c) \in PassRows
    BY DEF Fresh, PassRows, Raws
  <1> QED
    BY <1>1, <1>2

\* Steps that leave passes and registrations alone
LEMMA StillPassage ==
  ASSUME NEW c \in Calls, IInv, UNCHANGED <<used, pass, regs>>,
         row' \in [Tickets -> {"none", "valid", "undone"}], open' \in BOOLEAN
  PROVE  Passage(c)
  BY DEF Passage, IInv, DataTyped

LEMMA GatePassage == ASSUME NEW c \in Calls, IInv, GateStep(c) PROVE Passage(c)
  <1>1. UNCHANGED <<used, pass, regs, row>> /\ open' \in {open, FALSE}
    <2>1. CASE ReadEvent(c)
      BY <2>1 DEF ReadEvent, Skip, data
    <2>2. CASE ReadAssignment(c)
      BY <2>2 DEF ReadAssignment, Skip, data
    <2>3. CASE RemoveStaff(c) \/ DeleteEvent(c) \/ Join(c) \/ Leave(c)
      BY <2>3 DEF RemoveStaff, DeleteEvent, Join, Leave
    <2> QED
      BY <2>1, <2>2, <2>3 DEF GateStep
  <1> QED
    BY <1>1, StillPassage DEF IInv, DataTyped

LEMMA ReportPassage == ASSUME NEW c \in Calls, IInv, ReportStep(c) PROVE Passage(c)
  <1>1. UNCHANGED <<used, data>>
    BY DEF ReportStep, CheckEventOwnership, Query, ReadBatch, Skip
  <1> QED
    BY <1>1, StillPassage DEF IInv, DataTyped, data

LEMMA CommitPassage == ASSUME NEW c \in Calls, IInv, CommitCheckIn(c) PROVE Passage(c)
  <1> DEFINE r == req[c].ticket
  <1>1. /\ req[c].op = "scan" /\ pc[c] \in {"create", "restore"} /\ r \in regs
        /\ req[c].manual \/ pass[r] # NoPass
        /\ req[c].manual \in BOOLEAN /\ r \in Tickets
    BY DEF CommitCheckIn, IInv, Control, Placed, Fits, PassesRight, Scanned
  <1>2. CASE pc[c] = "create" /\ row[r] # "none"
    BY <1>2, StillPassage DEF CommitCheckIn, Skip, data, IInv, DataTyped
  <1>3. CASE ~(pc[c] = "create" /\ row[r] # "none")
    <2>1. /\ row' = [row EXCEPT ![r] = "valid"] /\ UNCHANGED <<regs, open>>
          /\ pass' = IF req[c].manual THEN pass ELSE [pass EXCEPT ![r].revoked = TRUE]
          /\ used' = IF req[c].manual THEN used ELSE [d \in Calls |-> used[d] \cup {r}]
      BY <1>3 DEF CommitCheckIn
    <2>2. CASE req[c].manual
      BY <2>1, <2>2, StillPassage DEF IInv, DataTyped
    <2>3. CASE ~req[c].manual
      <3>1. pass[r] # NoPass /\ r \in Tickets
        BY <1>1, <2>3 DEF IInv, DataTyped
      <3>2. /\ used' = [d \in Calls |-> used[d] \cup {r}]
            /\ pass' = [pass EXCEPT ![r].revoked = TRUE]
        BY <2>1, <2>3
      <3> HIDE DEF r
      <3>3. /\ pass' \in [Tickets -> PassRows]
            /\ pass'[r].raw = pass[r].raw /\ pass'[r].cipher = pass[r].cipher
            /\ \A t \in Tickets \ {r} : pass'[t] = pass[t]
        BY <3>1, <3>2, PassUpdates DEF IInv, DataTyped
      <3>4. used' \in [Calls -> SUBSET Tickets] /\ \A d \in Calls : used[d] \subseteq used'[d] /\ r \in used'[d]
        BY <3>1, <3>2 DEF IInv, DataTyped
      <3> QED
        BY <2>1, <3>1, <3>3, <3>4 DEF Passage, IInv, DataTyped
    <2> QED
      BY <2>2, <2>3
  <1> QED
    BY <1>2, <1>3

LEMMA UndoPassage == ASSUME NEW c \in Calls, IInv, UndoCheckin(c) PROVE Passage(c)
  <1> DEFINE r == req[c].ticket
  <1>1. r \in Tickets
    BY DEF UndoCheckin, At, IInv, Control, Placed, Fits
  <1>2. CASE UNCHANGED <<used, data>>
    BY <1>2, StillPassage DEF data, IInv, DataTyped
  <1>3. CASE /\ row' = [row EXCEPT ![r] = "undone"] /\ pass' = [pass EXCEPT ![r].revoked = FALSE]
             /\ UNCHANGED <<used, regs, open>>
    <2> HIDE DEF r
    <2>1. pass[r] = NoPass => pass' = pass
      BY <1>1, <1>3 DEF NoPass, IInv, DataTyped
    <2>2. /\ pass' \in [Tickets -> PassRows] /\ ~pass'[r].revoked
          /\ pass'[r].raw = pass[r].raw /\ pass'[r].cipher = pass[r].cipher
          /\ \A t \in Tickets \ {r} : pass'[t] = pass[t]
      BY <1>1, <1>3, PassUpdates DEF IInv, DataTyped
    <2> QED
      BY <1>1, <1>3, <2>1, <2>2 DEF Passage, IInv, DataTyped
  <1> QED
    BY <1>2, <1>3 DEF UndoCheckin, Skip

LEMMA ScanPassage == ASSUME NEW c \in Calls, IInv, ScanStep(c) PROVE Passage(c)
  <1>1. CASE ReadToken(c) \/ ResolveCheckIn(c) \/ CountCheckedIn(c) \/ EmitCheckinUpdate(c) \/ CountFails(c)
    <2>1. UNCHANGED <<used, pass, regs, row, open>>
      BY <1>1 DEF ReadToken, ResolveCheckIn, CountCheckedIn, EmitCheckinUpdate, CountFails, Skip, data
    <2> QED
      BY <2>1, StillPassage DEF IInv, DataTyped
  <1> QED
    BY <1>1, CommitPassage, UndoPassage DEF ScanStep

LEMMA IssuePassage == ASSUME NEW c \in Calls, IInv, IssueStep(c) PROVE Passage(c)
  <1>0. c \in Tickets /\ pc \in [Calls -> Labels] /\ Fresh(c) \in PassRows /\ Imported(c) \in PassRows
    BY DEF Tickets, IInv, Control, CallsTyped, Fresh, Imported, PassRows, Raws
  <1>1. CASE Insert(c) \/ SendQrIssuedEmail(c)
    <2>1. UNCHANGED <<used, pass, regs, row, open>>
      BY <1>1 DEF Insert, SendQrIssuedEmail, data
    <2> QED
      BY <2>1, StillPassage DEF IInv, DataTyped
  <1>2. CASE Register(c)
    BY <1>0, <1>2 DEF Register, At, Goto, Passage, IInv, DataTyped
  <1>3. CASE GenerateToken(c)
    <2>1. pass' = [pass EXCEPT ![c] = Fresh(c)] /\ UNCHANGED <<used, regs, row, open>>
          /\ pc[c] = "issue" /\ pc'[c] = "ok"
      BY <1>0, <1>3 DEF GenerateToken, Fresh, At, Goto
    <2> QED
      BY <1>0, <2>1 DEF Passage, IInv, DataTyped
  <1>4. CASE ProcessImportFile(c)
    <2>1. pass' = [pass EXCEPT ![c] = Imported(c)] /\ regs' = regs \cup {c} /\ UNCHANGED <<used, row, open>>
          /\ pc[c] = "insert" /\ pc'[c] = "mail"
      BY <1>0, <1>4 DEF ProcessImportFile, Imported, At, Goto
    <2> QED
      BY <1>0, <2>1 DEF Passage, IInv, DataTyped
  <1> QED
    BY <1>1, <1>2, <1>3, <1>4 DEF IssueStep

LEMMA PassPassage == ASSUME NEW c \in Calls, IInv, PassStep(c) PROVE Passage(c)
  <1>1. CASE GetTicketDetails(c) \/ ListMyTickets(c) \/ ReloadToken(c)
    <2>1. UNCHANGED <<used, data>>
      BY <1>1 DEF GetTicketDetails, ListMyTickets, ReloadToken, Skip
    <2> QED
      BY <2>1, StillPassage DEF data, IInv, DataTyped
  <1>2. CASE RecoverRawToken(c)
    <2>1. CASE Left(c) = {}
      BY <1>2, <2>1, StillPassage DEF RecoverRawToken, Skip, data, IInv, DataTyped
    <2>2. CASE Left(c) # {}
      <3> DEFINE mint(r) == ~(Readable(saw[c][r]) \/ saw[c][r].revoked) /\ StillAsRead(pass[r], saw[c][r])
      <3>1. PICK r \in Left(c) :
              /\ pass' = IF mint(r)
                         THEN [pass EXCEPT ![r] = [raw |-> c, cipher |-> c, revoked |-> @.revoked]] ELSE pass
              /\ mint(r) => Hand(c, r, c)
              /\ UNCHANGED <<used, row, regs, open>>
        BY <1>2, <2>2 DEF RecoverRawToken
      <3>2. CASE pass' = pass
        BY <3>1, <3>2, StillPassage DEF IInv, DataTyped
      <3>3. CASE pass' # pass
        <4>0. Reads(c) /\ DOMAIN got = Calls
          BY <1>2 DEF RecoverRawToken, Reads, IInv, Control, CallsTyped, Placed, Belongs
        <4>6. r \in DOMAIN got'[c] /\ got'[c][r] = c
          BY <3>1, <3>3, <4>0 DEF Hand, With
        <4>1. /\ ~Readable(saw[c][r]) /\ StillAsRead(pass[r], saw[c][r]) /\ SeenRight(c, r)
              /\ pass' = [pass EXCEPT ![r] = [raw |-> c, cipher |-> c, revoked |-> @.revoked]]
          BY <1>2, <3>1, <3>3 DEF RecoverRawToken, Left, IInv, PassesRight, ReadersRight
        <4>2. /\ r \in Tickets /\ pass[r] # NoPass /\ ~pass[r].revoked
              /\ pass[r].cipher \in {"bad", "none"}
          BY <4>1 DEF Readable, StillAsRead, SeenRight, Own, Legacy
        <4>3. "bad" \notin Raws /\ "none" \notin Raws
          BY FirstTicketsAreTickets DEF Tickets, Raws
        <4>4. Legacy(pass[r])
          BY <4>2, <4>3 DEF Own, Legacy, IInv, PassesRight, PassesThere
        <4>5. pass' = [pass EXCEPT ![r] = Fresh(c)] /\ Fresh(c) \in PassRows
          BY <4>1, <4>2, PassUpdates DEF Fresh, IInv, DataTyped, PassRows
        <4> QED
          BY <3>1, <4>0, <4>2, <4>4, <4>5, <4>6 DEF Passage, IInv, DataTyped
      <3> QED
        BY <3>2, <3>3
    <2> QED
      BY <2>1, <2>2
  <1> QED
    BY <1>1, <1>2 DEF PassStep

LEMMA StepPassage == ASSUME NEW c \in Calls, IInv, Step(c) PROVE Passage(c)
  BY GatePassage, ScanPassage, IssuePassage, PassPassage, ReportPassage DEF Step

\* A readable pass keeps its code, and a pass that is there stays there.
LEMMA PassesStable ==
  ASSUME NEW c \in Calls, IInv, Passage(c), NEW r \in Tickets
  PROVE  /\ Own(pass[r]) => Own(pass'[r]) /\ pass'[r].raw = pass[r].raw
         /\ pass[r] # NoPass /\ Legacy(pass'[r]) => Legacy(pass[r]) /\ pass'[r].cipher = pass[r].cipher
         /\ pass[r] # NoPass => pass'[r] # NoPass
         /\ pass'[r] # NoPass => Own(pass'[r]) \/ Legacy(pass'[r])
         /\ \A d \in Calls : pc[d] # "new" /\ pass'[r].revoked => r \in used'[d]
  <1> USE FirstTicketsAreTickets DEF IInv, PassesRight, PassesThere, Own, Legacy, Raws, Tickets, NoPass
  <1>1. pass[r] # NoPass => pass[r].raw # "none" /\ (Own(pass[r]) \/ Legacy(pass[r]))
    OBVIOUS
  <1>2. ~Own(NoPass)
    OBVIOUS
  <1>3. CASE pass'[r] = pass[r]
    BY <1>1, <1>3 DEF Passage, Remembered
  <1>4. CASE r = c /\ pc[c] = "issue" /\ pass'[r] = Fresh(c)
    <2>1. pass[r] = NoPass
      BY <1>4
    <2> QED
      BY <1>2, <1>4, <2>1 DEF Fresh
  <1>5. CASE /\ pass[r] # NoPass /\ pass'[r].raw = pass[r].raw /\ pass'[r].cipher = pass[r].cipher
             /\ pass'[r].revoked => \A d \in Calls : r \in used'[d]
    BY <1>1, <1>5
  <1>6. CASE Legacy(pass[r]) /\ ~pass[r].revoked /\ pass'[r] = Fresh(c)
    BY <1>6 DEF Fresh
  <1>7. CASE r = c /\ pc[c] = "insert" /\ pass'[r] = Imported(c)
    <2>1. pass[r] = NoPass
      BY <1>7
    <2> QED
      BY <1>2, <1>7, <2>1 DEF Imported
  <1> QED
    BY <1>3, <1>4, <1>5, <1>6, <1>7 DEF Passage

\* What issues passes
LEMMA Issuers ==
  ASSUME NEW c \in Calls, Control, IssueStep(c)
  PROVE  /\ req[c].op \in {"register", "import"} /\ pc[c] \in {"start", "insert", "issue", "mail"}
         /\ UNCHANGED <<used, saw, row, dups, open, staff, room, shown>>
  BY DEF IssueStep, Insert, Register, GenerateToken, ProcessImportFile, SendQrIssuedEmail, At, data

\* Nothing else does what a registration or an import asks for.
LEMMA OnlyIssuers ==
  ASSUME NEW c \in Calls, Control, Step(c), req[c].op \in {"register", "import"}
  PROVE  IssueStep(c)
  <1>1. ~GateStep(c)
    BY DEF GateStep, ReadEvent, ReadAssignment, RemoveStaff, DeleteEvent, Join, Leave, At,
           GatedOps, Control, Placed, Belongs
  <1>2. ~PassStep(c)
    BY DEF PassStep, GetTicketDetails, ListMyTickets, RecoverRawToken, ReloadToken, At,
           Control, Placed, Belongs
  <1>3. ~ReportStep(c)
    BY DEF ReportStep, CheckEventOwnership, Query, ReadBatch, At, OwnedOps,
           Control, Placed, Belongs, ReportOps
  <1>4. ~ScanStep(c)
    BY DEF ScanStep, ReadToken, ResolveCheckIn, CommitCheckIn, CountCheckedIn, EmitCheckinUpdate,
           CountFails, UndoCheckin, At
  <1> QED
    BY <1>1, <1>2, <1>3, <1>4 DEF Step

\* Only a registration or an import inserts, and is over when the pass is out.
LEMMA Issuing ==
  ASSUME NEW c \in Calls, NEW label, IInv, Step(c), Goes(c, label)
  PROVE  /\ pc[c] \in {"issue", "mail"} => label = "ok"
         /\ label \in {"issue", "mail"} => c \in regs'
  <1>1. SUFFICES ASSUME pc[c] \in {"issue", "mail"} \/ label \in {"issue", "mail"}
                 PROVE  /\ pc[c] \in {"issue", "mail"} => label = "ok"
                        /\ label \in {"issue", "mail"} => c \in regs'
    OBVIOUS
  <1>2. req[c].op \in {"register", "import"} /\ label = pc'[c] /\ pc \in [Calls -> Labels]
    BY <1>1 DEF Goes, IInv, Control, CallsTyped, Placed, Belongs
  <1>3. IssueStep(c)
    BY <1>2, OnlyIssuers DEF IInv
  <1> QED
    BY <1>2, <1>3 DEF IssueStep, Insert, Register, GenerateToken, ProcessImportFile, SendQrIssuedEmail, At, Goto

LEMMA ThereKeeps ==
  ASSUME NEW c \in Calls, NEW label, IInv, Step(c), Goes(c, label), Passage(c)
  PROVE  PassesThere' /\ Remembered'
  <1>1. /\ pc[c] # "new" /\ req' = req /\ pc' = [pc EXCEPT ![c] = label] /\ pc \in [Calls -> Labels]
        /\ Belongs(req[c].op, label) /\ pc[c] \notin Answers /\ pc'[c] = label
        /\ (pc[c] \in {"issue", "mail"} => label = "ok") /\ (label \in {"issue", "mail"} => c \in regs')
    BY Issuing DEF Goes, IInv, Control, CallsTyped
  <1>2. Remembered'
    BY <1>1, PassesStable DEF Remembered
  <1>3. ASSUME NEW r \in Tickets
        PROVE  /\ pass'[r] # NoPass => r \in regs' /\ (Own(pass'[r]) \/ Legacy(pass'[r]))
               /\ r \in regs' \cap Calls => pc'[r] \in {"issue", "mail", "ok"} /\ req[r].op \in {"register", "import"}
               /\ r \in Calls /\ pc'[r] \in {"issue", "mail"} => r \in regs'
               /\ r \in Calls /\ pass'[r] # NoPass => pc'[r] \in {"mail", "ok"}
    <2>1. CASE pass[r] # NoPass
      BY <1>1, <2>1, PassesStable DEF Passage, IInv, PassesRight, PassesThere, Answers, Belongs
    <2>2. CASE pass[r] = NoPass
      <3>1. pass'[r] # NoPass =>
              r = c /\ ((pc[c] = "issue" /\ label = "ok") \/ (label = "mail" /\ c \in regs'))
        <4>1. ~Legacy(NoPass)
          BY FirstTicketsAreTickets DEF Legacy, NoPass, Raws, Tickets
        <4> QED
          BY <1>1, <2>2, <4>1 DEF Passage
      <3> QED
        BY <1>1, <3>1, PassesStable DEF Passage, IInv, PassesRight, PassesThere, Answers, Belongs
    <2> QED
      BY <2>1, <2>2
  <1> QED
    BY <1>1, <1>3, <1>2 DEF PassesThere

\* What other calls saw and were given stays right.
LEMMA OthersKeep ==
  ASSUME NEW c \in Calls, NEW label, IInv, Goes(c, label), Passage(c), NEW d \in Calls
  PROVE  /\ pc[d] \in {"recover", "reload"} =>
              \A r \in DOMAIN saw[d] : saw'[d][r] = saw[d][r] => SeenRight(d, r)'
         /\ req[d].op # "import" => \A r \in DOMAIN got[d] \cap Tickets :
              IF got[d][r] = "null" THEN r \in used'[d]
              ELSE pass'[r] # NoPass /\ Own(pass'[r]) /\ pass'[r].raw = got[d][r]
  <1>1. used[d] \subseteq used'[d]
    BY DEF Passage
  <1>2. ASSUME pc[d] \in {"recover", "reload"}, NEW r \in DOMAIN saw[d], saw'[d][r] = saw[d][r]
        PROVE  SeenRight(d, r)'
    <2>1. SeenRight(d, r)
      BY <1>2 DEF IInv, PassesRight, ReadersRight
    <2> QED
      BY <1>1, <1>2, <2>1, PassesStable DEF SeenRight
  <1>3. ASSUME req[d].op # "import", NEW r \in DOMAIN got[d] \cap Tickets
        PROVE  IF got[d][r] = "null" THEN r \in used'[d]
               ELSE pass'[r] # NoPass /\ Own(pass'[r]) /\ pass'[r].raw = got[d][r]
    BY <1>1, <1>3, PassesStable DEF IInv, PassesRight, HandedRight
  <1> QED
    BY <1>2, <1>3

LEMMA Codes ==
  /\ "null" \notin Raws /\ "none" \notin Raws /\ "bad" \notin Raws
  /\ \A p : Own(p) => ~Legacy(p)
  /\ \A p : Legacy(p) => ~Readable(p)
  BY FirstTicketsAreTickets DEF Raws, Tickets, Own, Legacy, Readable

\* What a call says of the pass of r
Says(c, r, raw) ==
  IF raw = "null" THEN r \in used[c] ELSE pass[r] # NoPass /\ Own(pass[r]) /\ pass[r].raw = raw

\* recoverRawToken hands out the code it minted, the code it read, or null when
\* the pass is used; the loser lost to a use or to a code that can be read.
Replaces(c, r) ==
  ~Readable(saw[c][r]) /\ ~saw[c][r].revoked /\ StillAsRead(pass[r], saw[c][r])
LEMMA RecoverHands ==
  ASSUME NEW c \in Calls, IInv, pc[c] = "recover", NEW r \in DOMAIN saw[c]
  PROVE  /\ Replaces(c, r) /\ pass'[r] = [raw |-> c, cipher |-> c, revoked |-> pass[r].revoked]
              => Says(c, r, c)'
         /\ Readable(saw[c][r]) => Says(c, r, saw[c][r].raw)
         /\ ~Readable(saw[c][r]) /\ saw[c][r].revoked => Says(c, r, "null")
         /\ ~Readable(saw[c][r]) /\ ~saw[c][r].revoked /\ ~Replaces(c, r) => r \in used[c] \/ Own(pass[r])
  <1>1. SeenRight(c, r) /\ r \in Tickets
    BY DEF IInv, PassesRight, ReadersRight, SeenRight
  <1>2. ASSUME pass'[r] = [raw |-> c, cipher |-> c, revoked |-> pass[r].revoked] PROVE Says(c, r, c)'
    <2>1. pass'[r] # NoPass /\ Own(pass'[r]) /\ pass'[r].raw = c /\ c # "null"
      BY <1>2, FirstTicketsAreTickets DEF Own, Raws, NoPass, Tickets
    <2> QED
      BY <2>1 DEF Says
  <1>3. ASSUME Readable(saw[c][r]) PROVE Says(c, r, saw[c][r].raw)
    <2>1. Own(saw[c][r]) /\ saw[c][r].raw # "null"
      BY <1>1, <1>3, Codes DEF SeenRight, Own
    <2> QED
      BY <1>1, <2>1 DEF Says, SeenRight
  <1>4. ASSUME saw[c][r].revoked PROVE Says(c, r, "null")
    BY <1>1, <1>4 DEF Says, SeenRight
  <1>5. ASSUME ~Readable(saw[c][r]), ~saw[c][r].revoked, ~Replaces(c, r)
        PROVE  r \in used[c] \/ Own(pass[r])
    <2>1. pass[r].cipher # saw[c][r].cipher \/ pass[r].revoked
      BY <1>5 DEF StillAsRead, Replaces
    <2>2. pass[r].revoked => r \in used[c]
      BY <1>1 DEF IInv, PassesRight, Remembered
    <2>3. pass[r].cipher # saw[c][r].cipher => Own(pass[r])
      BY <1>1 DEF SeenRight, IInv, PassesRight, PassesThere
    <2> QED
      BY <2>1, <2>2, <2>3
  <1> QED
    BY <1>2, <1>3, <1>4, <1>5

\* The loser of the race is told the winner's code, or null when it is used.
LEMMA ReloadHands ==
  ASSUME NEW c \in Calls, IInv, ReloadToken(c), NEW r \in Left(c), "lost" \in DOMAIN saw[c][r]
  PROVE  Says(c, r, Winning(pass[r])) /\ r \in Tickets
  <1>1. SeenRight(c, r) /\ pc[c] = "reload"
    BY DEF ReloadToken, Left, IInv, PassesRight, ReadersRight
  <1>2. Readable(pass[r]) => Own(pass[r]) /\ pass[r].raw # "null"
    BY <1>1, Codes DEF SeenRight, IInv, PassesRight, PassesThere, Own
  <1>3. pass[r].revoked => r \in used[c]
    BY <1>1 DEF SeenRight, IInv, PassesRight, Remembered
  <1>4. Own(pass[r]) => Readable(pass[r])
    BY DEF Own, Readable
  <1> QED
    BY <1>1, <1>2, <1>3, <1>4 DEF Says, Winning, SeenRight

\* After its step a call has seen and says what is right.
SawRight(c) == pc[c] \in {"recover", "reload"} => \A r \in DOMAIN saw[c] : SeenRight(c, r)
GotRight(c) ==
  req[c].op # "import" =>
    \A r \in DOMAIN got[c] \cap Tickets : \A raw : raw = got[c][r] => Says(c, r, raw)

LEMMA SaysKeeps ==
  ASSUME NEW c \in Calls, NEW label, IInv, Goes(c, label), Passage(c), NEW d \in Calls,
         NEW r \in Tickets, NEW raw, Says(d, r, raw)
  PROVE  Says(d, r, raw)'
  BY PassesStable DEF Says, Passage, IInv, DataTyped

LEMMA GotSays == ASSUME IInv, NEW d \in Calls PROVE GotRight(d)
  BY DEF GotRight, Says, IInv, PassesRight, HandedRight

LEMMA SameGot ==
  ASSUME NEW c \in Calls, NEW label, IInv, Goes(c, label), Passage(c), NEW d \in Calls, got'[d] = got[d]
  PROVE  GotRight(d)'
  BY SaysKeeps, GotSays DEF GotRight, Goes

\* One more code, or null, joins what was given before.
LEMMA HandRight ==
  ASSUME NEW c \in Calls, NEW label, IInv, Goes(c, label), Passage(c), NEW x, NEW new,
         got' = [got EXCEPT ![c] = With(@, x, new)], x \in Tickets => Says(c, x, new)'
  PROVE  GotRight(c)'
  <1> SUFFICES ASSUME req[c].op # "import" PROVE GotRight(c)'
    BY DEF GotRight, Goes
  <1>1. got'[c] = With(got[c], x, new)
    BY DEF IInv, Control, CallsTyped
  <1>2. ASSUME NEW r \in Tickets, r \in DOMAIN got'[c], NEW raw, raw = got'[c][r]
        PROVE  Says(c, r, raw)'
    <2>1. CASE r = x
      BY <1>1, <1>2, <2>1 DEF With
    <2>2. CASE r # x
      <3>1. r \in DOMAIN got[c] /\ raw = got[c][r]
        BY <1>1, <1>2, <2>2 DEF With
      <3> QED
        BY <1>2, <3>1, SaysKeeps, GotSays DEF GotRight
    <2> QED
      BY <2>1, <2>2
  <1> QED
    BY <1>2 DEF GotRight

\* Steps of calls that read no pass
LEMMA OtherOps ==
  ASSUME NEW c \in Calls, NEW label, IInv, Goes(c, label), Passage(c), Step(c), ~PassStep(c)
  PROVE  GotRight(c)' /\ SawRight(c)'
  <1>1. pc'[c] = label /\ req[c].op \notin {"details", "mine"}
    <2>1. CASE GateStep(c)
      BY <2>1 DEF GateStep, ReadEvent, ReadAssignment, RemoveStaff, DeleteEvent, Join, Leave, At,
                  GatedOps, IInv, Control, CallsTyped, Placed, Belongs, Goes
    <2>2. CASE ScanStep(c)
      BY <2>2 DEF ScanStep, ReadToken, ResolveCheckIn, CommitCheckIn, CountCheckedIn, CountFails,
                  EmitCheckinUpdate, UndoCheckin, At, IInv, Control, CallsTyped, Goes
    <2>3. CASE ReportStep(c)
      BY <2>3 DEF ReportStep, CheckEventOwnership, Query, ReadBatch, At, OwnedOps,
                  ReportOps, IInv, Control, CallsTyped, Placed, Belongs, Goes
    <2>4. CASE IssueStep(c)
      BY <2>4, Issuers DEF IInv, Control, CallsTyped, Goes
    <2> QED
      BY <2>1, <2>2, <2>3, <2>4 DEF Step
  <1>2. SawRight(c)'
    BY <1>1 DEF SawRight, Goes, Belongs
  <1>3. CASE got' = got
    BY <1>2, <1>3, SameGot
  <1>4. CASE GenerateToken(c)
    <2>1. got' = [got EXCEPT ![c] = With(<<>>, c, c)] /\ pass'[c] = Fresh(c) /\ got[c] = got[c]
      BY <1>4 DEF GenerateToken, Fresh, IInv, DataTyped, Tickets
    <2>2. Says(c, c, c)'
      BY <2>1, FirstTicketsAreTickets DEF Says, Fresh, NoPass, Own, Raws, Tickets
    <2>3. got'[c] = With(<<>>, c, c)
      BY <2>1 DEF IInv, Control, CallsTyped
    <2>4. DOMAIN got'[c] \cap Tickets \subseteq {c} \cup DOMAIN <<>> /\ got'[c][c] = c
      BY <2>3 DEF With
    <2> QED
      BY <1>2, <2>2, <2>4 DEF GotRight
  <1>5. CASE Query(c)
    <2>1. pc[c] = "query" /\ req[c].op \in DOMAIN Reports
      BY <1>5 DEF Query, IInv, Control, Placed, Belongs, ReportOps, Reports
    <2>2. PICK q \in Reports[req[c].op].first \cup Reports[req[c].op].last :
            got' = [got EXCEPT ![c] = With(@, q, Answer(c, q))]
      BY <1>5 DEF Query
    <2>3. q \notin Tickets
      BY <2>1, PartsAreNoTickets
    <2>4. PICK a : a = Answer(c, q)
      OBVIOUS
    <2> QED
      BY <1>2, <2>2, <2>3, <2>4, HandRight
  <1>6. CASE ReadBatch(c)
    <2>1. DOMAIN got'[c] = {"csv"}
      BY <1>6 DEF ReadBatch, IInv, Control, CallsTyped
    <2> QED
      BY <1>2, <2>1, PartsAreNoTickets DEF GotRight
  <1>7. CASE SendQrIssuedEmail(c)
    <2>1. req'[c].op = "import"
      BY <1>7 DEF SendQrIssuedEmail, At, Goto
    <2> QED
      BY <1>2, <2>1 DEF GotRight
  <1>8. got' = got \/ GenerateToken(c) \/ SendQrIssuedEmail(c) \/ Query(c) \/ ReadBatch(c)
    <2>1. CASE GateStep(c)
      BY <2>1 DEF GateStep, ReadEvent, ReadAssignment, RemoveStaff, DeleteEvent, Join, Leave, Skip
    <2>2. CASE ScanStep(c)
      BY <2>2 DEF ScanStep, ReadToken, ResolveCheckIn, CommitCheckIn, CountCheckedIn, CountFails,
                  EmitCheckinUpdate, UndoCheckin, Skip
    <2>3. CASE ReportStep(c)
      BY <2>3 DEF ReportStep, CheckEventOwnership, Skip
    <2>4. CASE IssueStep(c)
      BY <2>4 DEF IssueStep, Insert, Register, ProcessImportFile
    <2> QED
      BY <2>1, <2>2, <2>3, <2>4 DEF Step
  <1> QED
    BY <1>3, <1>4, <1>5, <1>6, <1>7, <1>8

LEMMA RecoverRight ==
  ASSUME NEW c \in Calls, NEW label, IInv, Goes(c, label), Passage(c), RecoverRawToken(c)
  PROVE  GotRight(c)' /\ SawRight(c)'
  <1>1. pc[c] = "recover" /\ pc'[c] = label
    BY DEF RecoverRawToken, Goes, IInv, Control, CallsTyped
  <1>2. CASE Left(c) = {}
    <2>1. got' = got /\ pc'[c] = "ok"
      BY <1>2 DEF RecoverRawToken, Skip, Goto, IInv, Control, CallsTyped
    <2> QED
      BY <2>1, SameGot DEF SawRight
  <1>3. CASE Left(c) # {}
    <2>1. PICK r \in Left(c) :
            LET p == saw[c][r]
                kept == Readable(p) \/ p.revoked
                mint == ~kept /\ StillAsRead(pass[r], p)
            IN  /\ IF kept \/ mint
                   THEN Hand(c, r, IF mint THEN c ELSE IF Readable(p) THEN p.raw ELSE "null")
                   ELSE UNCHANGED got
                /\ pass' = IF mint THEN [pass EXCEPT ![r] = [raw |-> c, cipher |-> c, revoked |-> @.revoked]]
                           ELSE pass
                /\ saw' = IF kept \/ mint THEN saw ELSE [saw EXCEPT ![c][r] = With(@, "lost", TRUE)]
                /\ used' = used
      BY <1>3 DEF RecoverRawToken
    <2>2. r \in DOMAIN saw[c] /\ SeenRight(c, r) /\ r \in Tickets
      BY <1>1 DEF Left, IInv, PassesRight, ReadersRight, SeenRight
    <2>3. ASSUME NEW t \in DOMAIN saw[c], saw'[c][t] = saw[c][t] PROVE SeenRight(c, t)'
      BY <1>1, <2>3, OthersKeep
    <2>4. CASE Replaces(c, r)
      <3>1. /\ Hand(c, r, c) /\ saw' = saw
            /\ pass' = [pass EXCEPT ![r] = [raw |-> c, cipher |-> c, revoked |-> @.revoked]]
        BY <2>1, <2>4 DEF Replaces
      <3>2. Says(c, r, c)'
        BY <1>1, <2>2, <2>4, <3>1, RecoverHands DEF IInv, DataTyped
      <3> QED
        BY <2>3, <3>1, <3>2, HandRight DEF Hand, SawRight
    <2>5. CASE Readable(saw[c][r]) \/ saw[c][r].revoked
      <3>1. PICK raw : /\ Hand(c, r, raw) /\ saw' = saw
                       /\ raw = IF Readable(saw[c][r]) THEN saw[c][r].raw ELSE "null"
        BY <2>1, <2>5
      <3>2. Says(c, r, raw)
        BY <1>1, <2>2, <2>5, <3>1, RecoverHands
      <3>3. Says(c, r, raw)'
        BY <2>2, <3>2, SaysKeeps
      <3> QED
        BY <2>3, <3>1, <3>3, HandRight DEF Hand, SawRight
    <2>6. CASE ~(Readable(saw[c][r]) \/ saw[c][r].revoked) /\ ~Replaces(c, r)
      <3>1. got' = got /\ saw' = [saw EXCEPT ![c][r] = With(@, "lost", TRUE)] /\ pass' = pass /\ used' = used
        BY <2>1, <2>6 DEF Replaces
      <3>2. r \in used[c] \/ Own(pass[r])
        BY <1>1, <2>2, <2>6, RecoverHands
      <3>3. /\ saw'[c][r] = With(saw[c][r], "lost", TRUE) /\ DOMAIN saw'[c] = DOMAIN saw[c]
            /\ \A t \in DOMAIN saw[c] \ {r} : saw'[c][t] = saw[c][t]
        BY <2>2, <3>1 DEF IInv, Control, CallsTyped
      <3> DEFINE p == With(saw[c][r], "lost", TRUE)
      <3>4. /\ p.raw = saw[c][r].raw /\ p.cipher = saw[c][r].cipher /\ p.revoked = saw[c][r].revoked
            /\ {"raw", "cipher", "revoked"} \subseteq DOMAIN p
        BY <2>2 DEF With, SeenRight
      <3>5. SeenRight(c, r)'
        <4> HIDE DEF p
        <4>1. saw'[c][r] = p
          BY <3>3 DEF p
        <4>2. Own(p) <=> Own(saw[c][r])
          BY <3>4 DEF Own
        <4>3. Legacy(p) <=> Legacy(saw[c][r])
          BY <3>4 DEF Legacy
        <4> QED
          BY <2>2, <3>1, <3>2, <3>4, <4>1, <4>2, <4>3 DEF SeenRight
      <3> QED
        BY <2>3, <3>1, <3>3, <3>5, SameGot DEF SawRight
    <2> QED
      BY <2>4, <2>5, <2>6
  <1> QED
    BY <1>2, <1>3

LEMMA PassRight ==
  ASSUME NEW c \in Calls, NEW label, IInv, Goes(c, label), Passage(c), PassStep(c)
  PROVE  GotRight(c)' /\ SawRight(c)'
  <1>1. CASE GetTicketDetails(c) \/ ListMyTickets(c)
    <2>1. got' = got
      BY <1>1 DEF GetTicketDetails, ListMyTickets, Skip
    <2>2. CASE pc'[c] = "recover"
      <3>1. saw' = [saw EXCEPT ![c] = [r \in TicketsRead(c) |-> pass[r]]] /\ UNCHANGED <<used, data>>
        BY <1>1, <2>2 DEF GetTicketDetails, ListMyTickets, Skip, Goto, At, IInv, Control, CallsTyped
      <3>2. ASSUME NEW r \in TicketsRead(c) PROVE SeenRight(c, r)'
        <4>1. saw'[c][r] = pass[r] /\ r \in Tickets /\ pass[r] # NoPass /\ pass[r] \in PassRows
          BY <3>1, <3>2 DEF TicketsRead, IInv, DataTyped, Control, CallsTyped
        <4>2. DOMAIN pass[r] = {"raw", "cipher", "revoked"} /\ pass[r].revoked \in BOOLEAN
          BY <4>1 DEF PassRows
        <4>3. (Own(pass[r]) \/ Legacy(pass[r])) /\ (pass[r].revoked => r \in used[c])
          BY <4>1 DEF Goes, IInv, PassesRight, PassesThere, Remembered
        <4>4. pass' = pass /\ used' = used
          BY <3>1 DEF data
        <4> QED
          BY <4>1, <4>2, <4>3, <4>4 DEF SeenRight
      <3>3. DOMAIN saw'[c] = TicketsRead(c)
        BY <3>1 DEF IInv, Control, CallsTyped
      <3> QED
        BY <2>1, <3>2, <3>3, SameGot DEF SawRight
    <2>3. CASE pc'[c] # "recover"
      <3>1. pc'[c] # "reload"
        BY <1>1, <2>3 DEF GetTicketDetails, ListMyTickets, Skip, Goto, At, IInv, Control, CallsTyped
      <3> QED
        BY <2>1, <2>3, <3>1, SameGot DEF SawRight
    <2> QED
      BY <2>2, <2>3
  <1>2. CASE RecoverRawToken(c)
    BY <1>2, RecoverRight
  <1>3. CASE ReloadToken(c)
    <2>0. PICK r \in Left(c) :
            "lost" \in DOMAIN saw[c][r] /\ Hand(c, r, Winning(pass[r])) /\ saw' = saw
      BY <1>3 DEF ReloadToken
    <2>1. PICK raw : raw = Winning(pass[r]) /\ Hand(c, r, raw) /\ saw' = saw
      BY <2>0
    <2>2. Says(c, r, raw)'
      BY <1>3, <2>0, <2>1, ReloadHands, SaysKeeps
    <2>3. SawRight(c)'
      BY <1>3, <2>1, OthersKeep DEF ReloadToken, SawRight
    <2> QED
      BY <2>1, <2>2, <2>3, HandRight DEF Hand
  <1> QED
    BY <1>1, <1>2, <1>3 DEF PassStep

\* A scan gets past ReadToken with a registered ticket, or with its pass.
LEMMA ScannedRight ==
  ASSUME NEW c \in Calls, NEW label, IInv, Goes(c, label), Passage(c), Step(c), NEW d \in Calls
  PROVE  Scanned(d)'
  <1>1. pc' = [pc EXCEPT ![c] = label] /\ req' = req /\ pc \in [Calls -> Labels]
        /\ pc[c] \notin Answers \cup {"new"} /\ Belongs(req[c].op, label) /\ pc'[c] = label
    BY DEF Goes, IInv, Control, CallsTyped
  <1>2. Fits(req[d]) \/ pc'[d] = "new"
    BY <1>1 DEF IInv, Control, Placed
  <1>3. Scanned(d) => \/ pc[d] \notin {"resolve", "create", "restore"}
                      \/ req[d].ticket \in regs' /\ (req[d].manual \/ pass'[req[d].ticket] # NoPass)
    BY PassesStable DEF Scanned, Passage, IInv, DataTyped
  <1>4. CASE pc[d] \in {"resolve", "create", "restore"} \/ pc'[d] \notin {"resolve", "create", "restore"}
    BY <1>1, <1>3, <1>4 DEF Scanned, IInv, PassesRight
  <1>5. CASE pc[d] \notin {"resolve", "create", "restore"} /\ pc'[d] \in {"resolve", "create", "restore"}
    <2>1. d = c /\ req[c].op = "scan" /\ Fits(req[c])
      BY <1>1, <1>2, <1>5 DEF Belongs
    <2>2. ReadToken(c)
      <3>1. ~GateStep(c)
        BY <1>1, <1>5, <2>1 DEF GateStep, ReadEvent, ReadAssignment, RemoveStaff, DeleteEvent, Join, Leave,
                                At, Skip, Goto, Body
      <3>2. ~PassStep(c) /\ ~ReportStep(c)
        BY <1>1, <2>1 DEF PassStep, GetTicketDetails, ListMyTickets, RecoverRawToken, ReloadToken, At,
                          ReportStep, CheckEventOwnership, Query, ReadBatch, OwnedOps, ReportOps,
                          IInv, Control, Placed, Belongs
      <3>3. ~ResolveCheckIn(c) /\ ~CommitCheckIn(c)
        BY <1>5, <2>1 DEF ResolveCheckIn, CommitCheckIn, At
      <3>4. ~(CountCheckedIn(c) \/ EmitCheckinUpdate(c) \/ CountFails(c) \/ UndoCheckin(c) \/ IssueStep(c))
        BY <1>1, <1>5, <2>1, Issuers
           DEF CountCheckedIn, EmitCheckinUpdate, CountFails, UndoCheckin, At, Goto, Skip, IInv
      <3> QED
        BY <3>1, <3>2, <3>3, <3>4 DEF Step, ScanStep
    <2> DEFINE r == req[c].ticket
    <2>3. /\ IF req[c].manual THEN r \in regs ELSE pass[r].raw = req[c].raw
          /\ UNCHANGED <<regs, pass>>
      BY <1>1, <1>5, <2>1, <2>2 DEF ReadToken, Skip, Goto, data
    <2>4. req[c].manual \in BOOLEAN /\ r \in Tickets /\ (~req[c].manual => req[c].raw \in Raws)
      BY <2>1 DEF Fits
    <2>5. ~req[c].manual => pass[r] # NoPass /\ r \in regs
      BY <2>3, <2>4, Codes DEF NoPass, IInv, PassesRight, PassesThere
    <2> QED
      BY <1>1, <2>1, <2>3, <2>4, <2>5 DEF Scanned
  <1> QED
    BY <1>4, <1>5

\* A reader keeps what it was given.
LEMMA GotStays ==
  ASSUME NEW c \in Calls, Control, Step(c), Reads(c), NEW r \in DOMAIN got[c]
  PROVE  r \in DOMAIN got'[c] /\ got'[c][r] = got[c][r]
  <1>1. DOMAIN got = Calls
    BY DEF Control, CallsTyped
  <1>2. PassStep(c)
    <2>1. ~GateStep(c)
      BY DEF Reads, GateStep, ReadEvent, ReadAssignment, RemoveStaff, DeleteEvent, Join, Leave, At,
             GatedOps, Control, Placed, Belongs
    <2>2. ~ScanStep(c)
      BY DEF Reads, ScanStep, ReadToken, ResolveCheckIn, CommitCheckIn, CountCheckedIn,
             EmitCheckinUpdate, CountFails, UndoCheckin, At
    <2>3. ~IssueStep(c)
      BY Issuers DEF Reads
    <2>4. ~ReportStep(c)
      BY DEF Reads, ReportStep, CheckEventOwnership, Query, ReadBatch, At, OwnedOps,
             Control, Placed, Belongs, ReportOps
    <2> QED
      BY <2>1, <2>2, <2>3, <2>4 DEF Step
  <1>3. CASE got' = got
    BY <1>3
  <1>4. CASE \E x \in Left(c) : \E raw : Hand(c, x, raw)
    <2>1. PICK x \in Left(c) : \E raw : Hand(c, x, raw)
      BY <1>4
    <2>2. x # r
      BY <2>1 DEF Left
    <2> QED
      BY <1>1, <2>1, <2>2 DEF Hand, With
  <1> QED
    BY <1>2, <1>3, <1>4
       DEF PassStep, GetTicketDetails, ListMyTickets, RecoverRawToken, ReloadToken, Skip

\* An imported pass is as it was made until a reader has a new one for it.
LEMMA ImportsKeep ==
  ASSUME NEW c \in Calls, NEW label, IInv, Step(c), Goes(c, label), Passage(c)
  PROVE  ImportsRight'
  <1>1. /\ req' = req /\ pc'[c] = label /\ Belongs(req[c].op, label) /\ Belongs(req[c].op, pc[c])
        /\ \A d \in Calls \ {c} : got'[d] = got[d]
    BY DEF Goes, IInv, Control, CallsTyped, Placed
  <1>2. ASSUME NEW d \in Calls, req[d].op = "import", d \in regs' \ regs
        PROVE  pass'[d] # NoPass /\ Legacy(pass'[d]) /\ pass'[d].raw = d
    <2>1. d = c /\ pass'[c] = Imported(c)
      BY <1>1, <1>2 DEF Passage, Belongs
    <2> QED
      BY <2>1, FirstTicketsAreTickets DEF Imported, Legacy, NoPass, Raws, Tickets
  <1>3. ASSUME NEW d \in Calls, req[d].op = "import", d \in regs
        PROVE  pass'[d] # NoPass /\ (Renewed(d)' \/ (Legacy(pass'[d]) /\ pass'[d].raw = d))
    <2>1. d \in Tickets /\ pass[d] # NoPass /\ pc[d] \in {"issue", "mail", "ok"}
      BY <1>3 DEF Tickets, IInv, PassesRight, ImportsRight, PassesThere
    <2>2. pass'[d] # NoPass
      BY <2>1, PassesStable
    <2>3. CASE Renewed(d)
      <3>1. PICK e \in Calls :
              Reads(e) /\ d \in DOMAIN got[e] /\ got[e][d] # "null" /\ got[e][d] = pass[d].raw
        BY <2>3 DEF Renewed
      <3>2. Own(pass[d])
        BY <2>1, <3>1 DEF Reads, IInv, PassesRight, HandedRight
      <3>3. pass'[d].raw = pass[d].raw
        BY <2>1, <3>2, PassesStable
      <3>4. d \in DOMAIN got'[e] /\ got'[e][d] = got[e][d]
        BY <1>1, <3>1, GotStays DEF IInv
      <3>5. Reads(e)'
        BY <1>1, <3>1 DEF Reads
      <3> QED
        BY <2>2, <3>1, <3>3, <3>4, <3>5 DEF Renewed
    <2>4. CASE Legacy(pass[d]) /\ pass[d].raw = d
      <3>1. CASE Reads(c) /\ d \in DOMAIN got'[c] /\ got'[c][d] = c /\ pass'[d] = Fresh(c)
        <4>1. c # "null" /\ pass'[d].raw = c /\ Reads(c)'
          BY <1>1, <3>1, FirstTicketsAreTickets DEF Fresh, Tickets, Reads
        <4> QED
          BY <2>2, <3>1, <4>1 DEF Renewed
      <3>2. CASE pass'[d].raw = pass[d].raw /\ pass'[d].cipher = pass[d].cipher
        BY <2>2, <2>4, <3>2 DEF Legacy
      <3>3. ~(d = c /\ pc[c] \in {"issue", "insert"})
        BY <1>1, <1>3, <2>1 DEF Belongs
      <3> QED
        BY <2>1, <3>1, <3>2, <3>3 DEF Passage
    <2> QED
      BY <1>3, <2>3, <2>4 DEF IInv, PassesRight, ImportsRight
  <1>4. ASSUME NEW d \in Calls, req[d].op = "import", got'[d] # <<>>
        PROVE  d \in regs' /\ DOMAIN got'[d] = {d} /\ got'[d][d] = d
    <2>1. CASE got'[d] = got[d]
      BY <1>4, <2>1 DEF Passage, IInv, PassesRight, ImportsRight
    <2>2. CASE got'[d] # got[d]
      <3>1. d = c /\ IssueStep(c)
        BY <1>1, <1>4, <2>2, OnlyIssuers DEF IInv
      <3>2. SendQrIssuedEmail(c) /\ got' = [got EXCEPT ![c] = With(<<>>, c, c)]
        BY <1>4, <2>2, <3>1 DEF IssueStep, Insert, Register, GenerateToken, ProcessImportFile, SendQrIssuedEmail, At
      <3>3. got'[c] = With(<<>>, c, c)
        BY <3>2 DEF IInv, Control, CallsTyped
      <3>4. DOMAIN got'[c] = {c} /\ got'[c][c] = c
        BY <3>3 DEF With
      <3>5. c \in regs
        BY <3>2 DEF SendQrIssuedEmail, At, IInv, PassesRight, PassesThere, Tickets
      <3> QED
        BY <3>1, <3>4, <3>5 DEF Passage
    <2> QED
      BY <2>1, <2>2
  <1> QED
    BY <1>1, <1>2, <1>3, <1>4 DEF ImportsRight

LEMMA StepKeeps ==
  ASSUME NEW c \in Calls, NEW label, IInv, Step(c), Goes(c, label), Passage(c) PROVE IInv'
  <1>1. Control'
    BY GoesKeeps DEF IInv
  <1>2. DataTyped'
    BY DEF Passage
  <1>3. PassesThere' /\ Remembered'
    BY ThereKeeps
  <1>4. GotRight(c)' /\ SawRight(c)'
    BY OtherOps, PassRight
  <1>5. ReadersRight'
    <2>1. ASSUME NEW d \in Calls \ {c}, pc'[d] \in {"recover", "reload"}, NEW r \in DOMAIN saw'[d]
          PROVE  SeenRight(d, r)'
      <3>1. pc[d] = pc'[d] /\ saw'[d] = saw[d]
        BY <2>1 DEF Goes, IInv, Control, CallsTyped
      <3> QED
        BY <2>1, <3>1, OthersKeep
    <2> QED
      BY <1>4, <2>1 DEF ReadersRight, SawRight
  <1>6. HandedRight'
    <2>1. \A d \in Calls : GotRight(d)'
      BY <1>4, SameGot DEF Goes
    <2>2. ASSUME NEW d \in Calls, req'[d].op # "import", NEW r \in DOMAIN got'[d] \cap Tickets
          PROVE  IF got'[d][r] = "null" THEN r \in used'[d]
                 ELSE pass'[r] # NoPass /\ Own(pass'[r]) /\ pass'[r].raw = got'[d][r]
      <3>1. PICK raw : raw = got'[d][r]
        OBVIOUS
      <3>2. Says(d, r, raw)'
        BY <2>1, <2>2, <3>1 DEF GotRight
      <3> QED
        BY <3>1, <3>2 DEF Says
    <2> QED
      BY <2>2 DEF HandedRight
  <1>7. \A d \in Calls : Scanned(d)'
    BY ScannedRight
  <1>8. ImportsRight'
    BY ImportsKeep
  <1> QED
    BY <1>1, <1>2, <1>3, <1>5, <1>6, <1>7, <1>8 DEF IInv, PassesRight

LEMMA NextSteps == Next <=> \E c \in Calls : Begin(c) \/ Step(c)
  BY DEF Next, Step

LEMMA NextKeeps == ASSUME IInv, [Next]_vars PROVE IInv'
  <1>1. CASE UNCHANGED vars
    BY <1>1 DEF vars, call, data, IInv, Control, CallsTyped, AfterIsOver, Placed, Finished, DataTyped,
                PassesRight, PassesThere, Remembered, ReadersRight, SeenRight, HandedRight, ImportsRight,
                Renewed, Reads, Scanned
  <1>2. ASSUME NEW c \in Calls, Step(c) PROVE IInv'
    <2>1. PICK label : Goes(c, label)
      BY <1>2, StepGoes DEF IInv
    <2> QED
      BY <1>2, <2>1, StepPassage, StepKeeps
  <1> QED
    BY <1>1, <1>2, BeginKeeps, NextSteps

LEMMA Invariant == Spec => []IInv
  BY InitHolds, NextKeeps, PTL DEF Spec

\* A code that was handed to anybody is the one the gate knows, whoever raced to
\* replace the legacy pass; that of an import is, or a reader has the new one.
THEOREM HandedStayGood == Spec => []HandedPassesStayGood
  <1>1. IInv => HandedPassesStayGood
    <2> SUFFICES ASSUME IInv, NEW c \in Calls, NEW r \in Handed(c), pass[r].raw # got[c][r]
                 PROVE  /\ req[c].op = "import"
                        /\ \E d \in Calls : Reads(d) /\ r \in Handed(d) /\ got[d][r] = pass[r].raw
      BY DEF HandedPassesStayGood
    <2>1. req[c].op = "import"
      BY DEF IInv, PassesRight, HandedRight, Handed
    <2>2. r = c /\ c \in regs /\ got[c][c] = c /\ c \in Tickets
      BY <2>1 DEF IInv, PassesRight, ImportsRight, Handed
    <2>3. Renewed(c)
      BY <2>1, <2>2 DEF IInv, PassesRight, ImportsRight
    <2> QED
      BY <2>1, <2>2, <2>3 DEF Renewed, Handed
  <1> QED
    BY <1>1, Invariant, PTL

\* Who asks for a pass and gets none asked while it was used.
THEOREM EmptyHanded == Spec => []EmptyHandedOnlyWhenUsed
  <1>1. IInv => EmptyHandedOnlyWhenUsed
    <2> SUFFICES ASSUME IInv, NEW c \in Calls, NEW r \in DOMAIN got[c] \cap Tickets, got[c][r] = "null"
                 PROVE  r \in used[c]
      BY DEF EmptyHandedOnlyWhenUsed, Handed
    <2>1. req[c].op # "import"
      BY FirstTicketsAreTickets DEF IInv, PassesRight, ImportsRight, Tickets
    <2> QED
      BY <2>1 DEF IInv, PassesRight, HandedRight
  <1> QED
    BY <1>1, Invariant, PTL

-----------------------------------------------------------------------------
(* The gate                                                                *)

\* What a removal or a deletion that took effect left behind.
TakenAway ==
  \A d \in wrote : /\ req[d].op = "remove" => req[d].user \notin staff
                   /\ req[d].op = "delete" => ~open
\* How far a request gets that began after one was answered.
Outside(c, d) ==
  /\ req[d].op = "delete" /\ ~(req[c].op = "join" /\ req[c].user \in Admins)
       => pc[c] \in {"start", "event", "refused", "notfound"}
  /\ req[d].op = "remove" /\ req[d].user = req[c].user /\ req[d].user \notin Admins \cup {Owner}
       => pc[c] \in {"start", "staff", "refused", "notfound"}
KeptOut ==
  \A c \in Calls : req[c].op \in GatedOps \cup OwnedOps => \A d \in wrote \cap after[c] : Outside(c, d)

Gate == IInv /\ TakenAway /\ KeptOut

\* The only steps that write who may enter are a removal and a deletion.
LEMMA TakesAway ==
  ASSUME NEW c \in Calls, NEW label, Control, Step(c), Goes(c, label)
  PROVE  /\ staff' \subseteq staff /\ open' \in {open, FALSE}
         /\ c \in wrote' \ wrote /\ req[c].op = "remove" => req[c].user \notin staff'
         /\ c \in wrote' \ wrote /\ req[c].op = "delete" => ~open'
  <1>1. CASE RemoveStaff(c) \/ DeleteEvent(c)
    BY <1>1 DEF RemoveStaff, DeleteEvent, At
  <1>2. CASE ~(RemoveStaff(c) \/ DeleteEvent(c))
    <2>1. UNCHANGED <<staff, open>> /\ (req[c].op \in {"remove", "delete"} => wrote' = wrote)
      <3>1. CASE GateStep(c)
        BY <1>2, <3>1 DEF GateStep, ReadEvent, ReadAssignment, Join, Leave, Skip, data
      <3>2. CASE ScanStep(c)
        BY <3>2 DEF ScanStep, ReadToken, ResolveCheckIn, CommitCheckIn, CountCheckedIn, CountFails,
                    EmitCheckinUpdate, UndoCheckin, At, Skip, data
      <3>3. CASE PassStep(c)
        BY <3>3 DEF PassStep, GetTicketDetails, ListMyTickets, RecoverRawToken, ReloadToken, Skip, data
      <3>4. CASE ReportStep(c)
        BY <3>4 DEF ReportStep, CheckEventOwnership, Query, ReadBatch, Skip, data
      <3>5. CASE IssueStep(c)
        BY <3>5, Issuers
      <3> QED
        BY <3>1, <3>2, <3>3, <3>4, <3>5 DEF Step
    <2>2. c \in wrote' \ wrote => req[c].op \notin {"remove", "delete"}
      BY <2>1
    <2> QED
      BY <2>1, <2>2
  <1> QED
    BY <1>1, <1>2

\* A request at the gate reads the event, the assignment, or the owner.
LEMMA AtTheGate ==
  ASSUME NEW c \in Calls, Control, Step(c), req[c].op \in GatedOps \cup OwnedOps,
         pc[c] \in {"start", "event", "staff"}
  PROVE  ReadEvent(c) \/ ReadAssignment(c) \/ CheckEventOwnership(c)
  <1>1. ~PassStep(c) /\ ~ScanStep(c)
    BY DEF PassStep, GetTicketDetails, ListMyTickets, RecoverRawToken, ReloadToken, At, GatedOps, OwnedOps,
           ScanStep, ReadToken, ResolveCheckIn, CommitCheckIn, CountCheckedIn, EmitCheckinUpdate,
           CountFails, UndoCheckin
  <1>2. ~IssueStep(c)
    BY Issuers DEF GatedOps, OwnedOps
  <1>3. ~(RemoveStaff(c) \/ DeleteEvent(c) \/ Join(c) \/ Leave(c) \/ Query(c) \/ ReadBatch(c))
    BY DEF RemoveStaff, DeleteEvent, Join, Leave, Query, ReadBatch, At, GatedOps, OwnedOps
  <1> QED
    BY <1>1, <1>2, <1>3 DEF Step, GateStep, ReportStep

\* Nobody gets in who began after being removed, nor after the deletion.
LEMMA StaysOut ==
  ASSUME NEW c \in Calls, NEW label, Gate, Step(c), Goes(c, label), NEW d \in wrote \cap after[c],
         req[c].op \in GatedOps \cup OwnedOps
  PROVE  Outside(c, d)'
  <1>1. /\ pc' = [pc EXCEPT ![c] = label] /\ req' = req /\ pc \in [Calls -> Labels] /\ pc'[c] = label
        /\ pc[c] \notin Answers \cup {"new"} /\ Outside(c, d) /\ open \in BOOLEAN
    BY DEF Goes, Gate, KeptOut, IInv, Control, CallsTyped, DataTyped
  <1>2. ASSUME req[d].op = "delete", ~(req[c].op = "join" /\ req[c].user \in Admins)
        PROVE  label \in {"start", "event", "refused", "notfound"}
    <2>1. pc[c] \in {"start", "event"} /\ ~open
      BY <1>1, <1>2 DEF Outside, Gate, TakenAway, Answers
    <2>2. CASE ReadEvent(c)
      <3>1. label = "refused"
        BY <1>1, <1>2, <2>1, <2>2 DEF ReadEvent, Skip, Goto
      <3> QED
        BY <3>1
    <2>3. CASE ReadAssignment(c)
      <3>1. label \in {"refused", "event"}
        BY <1>1, <1>2, <2>1, <2>3 DEF ReadAssignment, Skip, Goto
      <3> QED
        BY <3>1
    <2>4. CASE CheckEventOwnership(c)
      <3>1. req[c].op # "overview"
        BY DEF GatedOps, OwnedOps
      <3>2. label = "notfound"
        BY <1>1, <1>2, <2>1, <2>4, <3>1 DEF CheckEventOwnership, Skip, Goto
      <3> QED
        BY <3>2
    <2>5. Control
      BY DEF Gate, IInv
    <2> QED
      BY <2>1, <2>2, <2>3, <2>4, <2>5, AtTheGate
  <1>3. ASSUME req[d].op = "remove", req[d].user = req[c].user, req[d].user \notin Admins \cup {Owner}
        PROVE  label \in {"start", "staff", "refused", "notfound"}
    <2>1. pc[c] \in {"start", "staff"} /\ req[c].user \notin staff /\ req[c].user \notin Admins \cup {Owner}
      <3>1. pc[c] \in {"start", "staff"}
        <4>1. pc[c] \in {"start", "staff", "refused", "notfound"}
          BY <1>1, <1>3 DEF Outside
        <4> QED
          BY <1>1, <4>1 DEF Answers
      <3>2. req[d].user \notin staff
        BY <1>3 DEF Gate, TakenAway
      <3> QED
        BY <1>3, <3>1, <3>2
    <2>2. CASE ReadEvent(c)
      <3>1. label \in {"refused", "staff"}
        BY <1>1, <2>1, <2>2 DEF ReadEvent, Skip, Goto
      <3> QED
        BY <3>1
    <2>3. CASE ReadAssignment(c)
      <3>1. label = "refused"
        BY <1>1, <2>1, <2>3 DEF ReadAssignment, Assigned, Skip, Goto
      <3> QED
        BY <3>1
    <2>4. CASE CheckEventOwnership(c)
      <3>1. req[c].op # "overview"
        BY DEF GatedOps, OwnedOps
      <3>2. label \in {"notfound", "refused"}
        BY <1>1, <2>1, <2>4, <3>1 DEF CheckEventOwnership, Skip, Goto
      <3> QED
        BY <3>2
    <2>5. Control
      BY DEF Gate, IInv
    <2> QED
      BY <2>1, <2>2, <2>3, <2>4, <2>5, AtTheGate
  <1> QED
    BY <1>1, <1>2, <1>3 DEF Outside

LEMMA GateKeeps == ASSUME Gate, [Next]_vars PROVE Gate'
  <1>1. IInv'
    BY NextKeeps DEF Gate
  <1>2. CASE UNCHANGED vars
    BY <1>1, <1>2 DEF vars, call, data, Gate, TakenAway, KeptOut, Outside
  <1>3. ASSUME NEW c \in Calls, Begin(c) PROVE Gate'
    <2>1. /\ pc[c] = "new" /\ pc'[c] = "start" /\ c \notin wrote /\ wrote \subseteq Calls
          /\ \A d \in Calls \ {c} : req'[d] = req[d] /\ pc'[d] = pc[d] /\ after'[d] = after[d]
          /\ after'[c] = {d \in Calls : Finished(d)}
          /\ UNCHANGED <<staff, open, wrote>>
      BY <1>3 DEF Begin, data, Gate, IInv, Control, CallsTyped, Placed
    <2>2. c \notin after'[c] /\ \A d \in Calls : c \notin after[d]
      BY <2>1 DEF Finished, Answers, Gate, IInv, Control, AfterIsOver
    <2> QED
      BY <1>1, <2>1, <2>2 DEF Gate, TakenAway, KeptOut, Outside
  <1>4. ASSUME NEW c \in Calls, Step(c) PROVE Gate'
    <2>1. PICK label : Goes(c, label)
      BY <1>4, StepGoes DEF Gate, IInv
    <2>2. wrote \subseteq wrote' /\ wrote' \subseteq wrote \cup {c} /\ UNCHANGED <<req, after>>
      BY <2>1 DEF Goes, Committed
    <2>3. TakenAway'
      BY <1>4, <2>1, <2>2, TakesAway DEF Gate, TakenAway, IInv
    <2>4. \A d \in Calls : c \notin after[d]
      BY <2>1 DEF Goes, Gate, IInv, Control, AfterIsOver, Finished
    <2>5. KeptOut'
      <3>1. ASSUME NEW e \in Calls, req[e].op \in GatedOps \cup OwnedOps, NEW d \in wrote \cap after[e]
            PROVE  Outside(e, d)'
        <4>1. CASE e = c
          BY <1>4, <2>1, <3>1, <4>1, StaysOut
        <4>2. CASE e # c
          BY <2>1, <3>1, <4>2 DEF Goes, Gate, IInv, Control, CallsTyped, KeptOut, Outside
        <4> QED
          BY <4>1, <4>2
      <3> QED
        BY <2>2, <2>4, <3>1 DEF KeptOut
    <2> QED
      BY <1>1, <2>3, <2>5 DEF Gate
  <1> QED
    BY <1>2, <1>3, <1>4, NextSteps

\* The gate, the reports and the rooms are closed to a request made after the
\* removal or the deletion that shuts it out was answered.
THEOREM GateCloses == Spec => []RemovalClosesTheGate
  <1>1. Init => Gate
    BY InitHolds DEF Init, Gate, TakenAway, KeptOut
  <1>2. Gate => RemovalClosesTheGate
    BY DEF Gate, KeptOut, Outside, RemovalClosesTheGate, IInv, Control, CallsTyped
  <1> QED
    BY <1>1, <1>2, GateKeeps, PTL DEF Spec

-----------------------------------------------------------------------------
(* What the dashboards show                                                *)

\* A scan that nothing runs beside is about to tell the number of check-ins, or
\* has told it and so do those that tell it after.
Calm(c) ==
  /\ pc[c] \notin {"emit", "ok"} => saw[c] = <<>>
  /\ Undisturbed(c) =>
       /\ pc[c] = "emit" => saw[c].count = Cardinality(Valid)
       /\ pc[c] = "ok" /\ saw[c] # <<>> =>
            /\ shown = Cardinality(Valid)
            /\ \A d \in Calls : pc[d] = "emit" => saw[d].count = Cardinality(Valid)
UpToDate == \A c \in Scans : Calm(c)

\* What a step does to the rows and to what is shown.
Shows(c) ==
  /\ row' = row \/ (req[c].op \in {"scan", "undo"} /\ c \in wrote')
  /\ pc[c] # "emit" => shown' = shown
  /\ pc[c] = "emit" => shown' = saw[c].count /\ row' = row /\ pc'[c] = "ok"
  /\ pc'[c] = "emit" => pc[c] = "count" /\ row' = row /\ saw'[c].count = Cardinality(Valid)
  /\ req[c].op = "scan" =>
       /\ pc'[c] = "emit" \/ saw'[c] = saw[c]
       /\ pc'[c] = "ok" => pc[c] \in {"count", "emit"}

LEMMA StepShows ==
  ASSUME NEW c \in Calls, NEW label, Control, Step(c), Goes(c, label) PROVE Shows(c)
  <1>1. /\ pc'[c] = label /\ pc' = [pc EXCEPT ![c] = label] /\ pc \in [Calls -> Labels] /\ DOMAIN saw = Calls
        /\ pc[c] = "emit" \/ label \in {"count", "emit"} => req[c].op = "scan"
    BY DEF Goes, Control, CallsTyped, Placed, Belongs
  <1>2. CASE CountCheckedIn(c)
    BY <1>1, <1>2 DEF CountCheckedIn, Counted, At, Goto, Shows, data
  <1>3. CASE EmitCheckinUpdate(c)
    BY <1>1, <1>3 DEF EmitCheckinUpdate, At, Goto, Shows
  <1>4. CASE CountFails(c)
    BY <1>1, <1>4 DEF CountFails, At, Goto, Skip, Shows, data
  <1>5. CASE ReadToken(c) \/ ResolveCheckIn(c) \/ CommitCheckIn(c)
    <2>1. /\ pc[c] # "emit" /\ pc'[c] \notin {"emit", "ok"} /\ shown' = shown /\ saw' = saw
          /\ row' = row \/ (req[c].op = "scan" /\ c \in wrote')
      BY <1>1, <1>5 DEF ReadToken, ResolveCheckIn, CommitCheckIn, Committed, At, Goto, Skip, data
    <2> QED
      BY <2>1 DEF Shows
  <1>6. CASE UndoCheckin(c)
    <2>1. req[c].op = "undo" /\ shown' = shown /\ (row' = row \/ c \in wrote')
      BY <1>6 DEF UndoCheckin, Committed, At, Goto, Skip, data
    <2> QED
      BY <1>1, <2>1 DEF Shows
  <1>7. CASE GateStep(c)
    <2>1. UNCHANGED <<row, shown, saw>> /\ pc[c] # "emit"
      BY <1>7 DEF GateStep, ReadEvent, ReadAssignment, RemoveStaff, DeleteEvent, Join, Leave, At, Skip, data
    <2>2. pc'[c] # "emit" /\ (req[c].op = "scan" => pc'[c] # "ok")
      BY <1>1, <1>7
         DEF GateStep, ReadEvent, ReadAssignment, RemoveStaff, DeleteEvent, Join, Leave, At, Goto, Skip,
             Body, GatedOps
    <2> QED
      BY <2>1, <2>2 DEF Shows
  <1>8. CASE IssueStep(c)
    <2>1. req[c].op \in {"register", "import"} /\ UNCHANGED <<row, shown, saw>>
      BY <1>8, Issuers
    <2> QED
      BY <1>1, <2>1 DEF Shows
  <1>9. CASE PassStep(c) \/ ReportStep(c)
    <2>1. UNCHANGED <<row, shown>>
      BY <1>9 DEF PassStep, GetTicketDetails, ListMyTickets, RecoverRawToken, ReloadToken, Skip, data,
                  ReportStep, CheckEventOwnership, Query, ReadBatch
    <2>2. req[c].op # "scan"
      BY <1>9 DEF PassStep, GetTicketDetails, ListMyTickets, RecoverRawToken, ReloadToken, At,
                  ReportStep, CheckEventOwnership, Query, ReadBatch, OwnedOps, ReportOps,
                  Control, Placed, Belongs
    <2> QED
      BY <1>1, <2>1, <2>2 DEF Shows
  <1> QED
    BY <1>2, <1>3, <1>4, <1>5, <1>6, <1>7, <1>8, <1>9 DEF Step, ScanStep

LEMMA ShownKeeps == ASSUME IInv, UpToDate, [Next]_vars PROVE UpToDate'
  <1>1. CASE UNCHANGED vars
    BY <1>1 DEF vars, call, data, UpToDate, Calm, Undisturbed, Scans, Valid
  <1>2. ASSUME NEW c \in Calls, Begin(c) PROVE UpToDate'
    <2>1. /\ pc[c] = "new" /\ pc' = [pc EXCEPT ![c] = "start"] /\ req[c] = NoRequest /\ saw[c] = <<>>
          /\ \A d \in Calls \ {c} : req'[d] = req[d] /\ after'[d] = after[d]
          /\ UNCHANGED <<saw, shown, row, wrote>> /\ pc \in [Calls -> Labels]
      BY <1>2 DEF Begin, data, IInv, Control, CallsTyped, Placed
    <2>2. Valid' = Valid
      BY <2>1 DEF Valid
    <2>3. ASSUME NEW e \in Calls \ {c}, req'[e].op = "scan" PROVE Calm(e)'
      <3>1. Undisturbed(e)' => Undisturbed(e)
        BY <2>1, <2>3 DEF Undisturbed, NoRequest
      <3>2. Calm(e) /\ pc'[e] = pc[e]
        BY <2>1, <2>3 DEF UpToDate, Scans
      <3> QED
        BY <2>1, <2>2, <3>1, <3>2 DEF Calm
    <2>4. Calm(c)'
      BY <2>1 DEF Calm
    <2> QED
      BY <2>3, <2>4 DEF UpToDate, Scans
  <1>3. ASSUME NEW c \in Calls, Step(c) PROVE UpToDate'
    <2>1. PICK label : Goes(c, label)
      BY <1>3, StepGoes DEF IInv
    <2>2. /\ pc' = [pc EXCEPT ![c] = label] /\ pc \in [Calls -> Labels] /\ ~Finished(c) /\ Shows(c)
          /\ UNCHANGED <<req, after>> /\ wrote \subseteq wrote' /\ \A d \in Calls \ {c} : saw'[d] = saw[d]
      BY <1>3, <2>1, StepShows DEF Goes, Committed, IInv, Control, CallsTyped, Finished
    <2>3. row' = row => Valid' = Valid
      BY DEF Valid
    <2>4. \A e \in Calls : c \notin after[e]
      BY <2>2 DEF IInv, Control, AfterIsOver
    <2>5. \A e \in Calls : Undisturbed(e)' => Undisturbed(e)
      BY <2>2 DEF Undisturbed
    <2>6. ASSUME NEW e \in Scans, e # c PROVE Calm(e)'
      <3>1. pc'[e] = pc[e] /\ saw'[e] = saw[e] /\ Calm(e)
        BY <2>2, <2>6 DEF UpToDate, Scans
      <3>2. Undisturbed(e)' => row' = row /\ Valid' = Valid
        BY <2>2, <2>3, <2>4, <2>6 DEF Undisturbed, Shows, Scans
      <3>3. ASSUME Undisturbed(e)', pc[e] = "ok", saw[e] # <<>>
            PROVE  /\ shown' = Cardinality(Valid)
                   /\ \A d \in Calls : pc'[d] = "emit" => saw'[d].count = Cardinality(Valid)
        <4>1. shown = Cardinality(Valid) /\ \A d \in Calls : pc[d] = "emit" => saw[d].count = Cardinality(Valid)
          BY <2>5, <3>1, <3>3 DEF Calm, Scans
        <4> QED
          BY <2>2, <4>1 DEF Shows
      <3>4. pc'[e] \notin {"emit", "ok"} => saw'[e] = <<>>
        BY <3>1 DEF Calm
      <3>5. Undisturbed(e)' /\ pc'[e] = "emit" => saw'[e].count = Cardinality(Valid')
        BY <2>5, <3>1, <3>2 DEF Calm, Scans
      <3>6. Undisturbed(e)' => Valid' = Valid
        BY <3>2
      <3> QED
        BY <3>1, <3>3, <3>4, <3>5, <3>6 DEF Calm
    <2>7. ASSUME c \in Scans PROVE Calm(c)'
      <3>1. req[c].op = "scan" /\ Calm(c) /\ pc[c] # "ok" /\ pc'[c] = label
        BY <2>2, <2>7 DEF Scans, UpToDate, Finished, Answers
      <3>2. ASSUME Undisturbed(c)', pc'[c] = "emit" PROVE saw'[c].count = Cardinality(Valid')
        BY <2>2, <2>3, <3>2 DEF Shows
      <3>3. ASSUME Undisturbed(c)', pc'[c] = "ok", saw'[c] # <<>>
            PROVE  /\ shown' = Cardinality(Valid')
                   /\ \A d \in Calls : pc'[d] = "emit" => saw'[d].count = Cardinality(Valid')
        <4>1. pc[c] = "emit" /\ shown' = Cardinality(Valid') /\ row' = row
          BY <2>2, <2>3, <2>5, <3>1, <3>3 DEF Shows, Calm
        <4>2. ASSUME NEW d \in Calls, pc'[d] = "emit" PROVE FALSE
          <5>1. d # c /\ pc[d] = "emit" /\ req[d].op = "scan"
            BY <2>2, <3>3, <4>2 DEF IInv, Control, Placed, Belongs
          <5>2. c \notin after[d] /\ d \notin after[c]
            BY <2>4, <5>1 DEF IInv, Control, AfterIsOver, Finished, Answers
          <5> QED
            BY <2>5, <3>3, <5>1, <5>2 DEF Undisturbed
        <4> QED
          BY <4>1, <4>2
      <3>4. pc'[c] \notin {"emit", "ok"} => saw'[c] = <<>>
        BY <2>2, <3>1 DEF Shows, Calm
      <3> QED
        BY <3>2, <3>3, <3>4 DEF Calm
    <2>8. Scans' = Scans
      BY <2>2 DEF Scans
    <2> QED
      BY <2>6, <2>7, <2>8 DEF UpToDate
  <1> QED
    BY <1>1, <1>2, <1>3, NextSteps

\* A scan that told the dashboards its count, and that no other scan or undo ran
\* beside, has left them the number of check-ins.
THEOREM CountCatchesUp == Spec => []LoneScanShowsTheCount
  <1>1. Init => UpToDate
    BY DEF Init, UpToDate, Scans, NoRequest
  <1>2. UpToDate => LoneScanShowsTheCount
    BY DEF UpToDate, Calm, LoneScanShowsTheCount
  <1> QED
    BY <1>1, <1>2, Invariant, InitHolds, NextKeeps, ShownKeeps, PTL DEF Spec

-----------------------------------------------------------------------------
(* How far the numbers of a report can be from each other                  *)

LEMMA MinMax ==
  \A a, b \in Int : /\ Min({a, b}) = IF a <= b THEN a ELSE b
                    /\ Max({a, b}) = IF a >= b THEN a ELSE b
  <1> SUFFICES ASSUME NEW a \in Int, NEW b \in Int
               PROVE  /\ Min({a, b}) = IF a <= b THEN a ELSE b
                      /\ Max({a, b}) = IF a >= b THEN a ELSE b
    OBVIOUS
  <1>1. Min({a, b}) = IF a <= b THEN a ELSE b
    BY DEF Min
  <1>2. Max({a, b}) = IF a >= b THEN a ELSE b
    BY DEF Max
  <1> QED
    BY <1>1, <1>2

\* The length of page p of a list of n rows
Listed(n, p) == Max({0, Min({PageSize, n - (p - 1) * PageSize})})

\* One row more or less is at most one more or less on a page.
LEMMA PagesDrift ==
  ASSUME NEW a \in Int, NEW b \in Int, NEW p \in Nat \ {0}, a <= b
  PROVE  /\ Listed(a, p) \in Nat /\ Listed(b, p) \in Nat
         /\ Listed(b, p) - Listed(a, p) <= b - a /\ Listed(a, p) <= Listed(b, p)
  <1> DEFINE s == (p - 1) * PageSize
             f(x) == IF PageSize <= x - s THEN PageSize ELSE IF x - s >= 0 THEN x - s ELSE 0
  <1>1. s \in Int /\ PageSize \in Nat
    BY SizesArePositive
  <1> HIDE DEF s
  <1>2. ASSUME NEW x \in Int PROVE Max({0, Min({PageSize, x - s})}) = f(x)
    <2>1. Min({PageSize, x - s}) = IF PageSize <= x - s THEN PageSize ELSE x - s
      BY <1>1, MinMax
    <2>2. PICK y \in Int : y = Min({PageSize, x - s})
      BY <1>1, <2>1
    <2>3. Max({0, y}) = IF 0 >= y THEN 0 ELSE y
      BY <2>2, MinMax
    <2> QED
      BY <1>1, <2>1, <2>2, <2>3
  <1>3. f(a) \in Nat /\ f(b) \in Nat /\ f(b) - f(a) <= b - a /\ f(a) <= f(b)
    BY <1>1
  <1> QED
    BY <1>2, <1>3 DEF Listed, s

\* What every count is made of
Counts ==
  /\ Valid \subseteq regs
  /\ IsFiniteSet(regs) /\ Cardinality(regs) \in Nat
  /\ IsFiniteSet(Valid) /\ Cardinality(Valid) \in Nat
  /\ IsFiniteSet(ByType(Valid)) /\ Cardinality(ByType(Valid)) \in Nat
RowsRight == \A r \in Tickets : row[r] = "valid" => r \in regs

LEMMA CountsRight == ASSUME IInv, RowsRight PROVE Counts
  <1>1. IsFiniteSet(regs) /\ Cardinality(regs) \in Nat
    BY TicketsFinite, FS_Subset, FS_CardinalityType DEF IInv, DataTyped
  <1>2. Valid \subseteq regs /\ ByType(Valid) \subseteq regs
    BY DEF Valid, RowsRight, ByType
  <1> QED
    BY <1>1, <1>2, FS_Subset, FS_CardinalityType DEF Counts

\* A step leaves counts alone, or is one write that every call under way counts:
\* then one more or less is checked in, or one more registered.
Drifts(c) ==
  /\ open' \in {open, FALSE} /\ regs \subseteq regs' /\ req' = req
  /\ \/ UNCHANGED <<missed, row, regs, open>>
     \/ /\ Committed(c)
        /\ Cardinality(Valid') - Cardinality(Valid) \in -1 .. 1
        /\ Cardinality(ByType(Valid)') - Cardinality(ByType(Valid)) \in -1 .. 1
        /\ Cardinality(regs') - Cardinality(regs) \in 0 .. 1

LEMMA OneRow ==
  ASSUME NEW r \in Tickets, IInv, RowsRight, NEW x \in {"none", "valid", "undone"},
         row' = [row EXCEPT ![r] = x], req' = req
  PROVE  /\ Cardinality(Valid') - Cardinality(Valid) \in -1 .. 1
         /\ Cardinality(ByType(Valid)') - Cardinality(ByType(Valid)) \in -1 .. 1
  <1>1. /\ IsFiniteSet(Valid) /\ Cardinality(Valid) \in Nat
        /\ IsFiniteSet(ByType(Valid)) /\ Cardinality(ByType(Valid)) \in Nat
    BY CountsRight DEF Counts
  <1>2. ASSUME NEW S, IsFiniteSet(S), Cardinality(S) \in Nat
        PROVE  /\ Cardinality(S \cup {r}) - Cardinality(S) \in -1 .. 1
               /\ Cardinality(S \ {r}) - Cardinality(S) \in -1 .. 1
               /\ Cardinality(S) - Cardinality(S) \in -1 .. 1
    <2>1. Cardinality(S \cup {r}) \in {Cardinality(S), Cardinality(S) + 1}
      BY <1>2, FS_AddElement
    <2>2. Cardinality(S \ {r}) \in {Cardinality(S), Cardinality(S) - 1}
      BY <1>2, FS_RemoveElement
    <2> QED
      BY <1>2, <2>1, <2>2
  <1>3. \A t : Typed(t)' = Typed(t)
    BY DEF Typed
  <1>4. Valid' = Valid \cup {r} \/ Valid' = Valid \ {r}
    BY DEF Valid, IInv, DataTyped
  <1>5. \/ ByType(Valid)' = ByType(Valid) \cup {r} \/ ByType(Valid)' = ByType(Valid) \ {r}
        \/ ByType(Valid)' = ByType(Valid)
    BY <1>3, <1>4 DEF ByType
  <1> QED
    BY <1>1, <1>2, <1>4, <1>5

LEMMA StepDrifts ==
  ASSUME NEW c \in Calls, NEW label, IInv, RowsRight, Step(c), Goes(c, label), Passage(c)
  PROVE  Drifts(c) /\ RowsRight'
  <1>1. Counts
    BY CountsRight
  <1>2. open' \in {open, FALSE} /\ regs \subseteq regs' /\ req' = req
    BY TakesAway DEF Passage, IInv, Goes
  <1>3. CASE UNCHANGED <<missed, row, regs, open>>
    BY <1>2, <1>3 DEF Drifts, RowsRight
  <1>4. CASE Committed(c) /\ UNCHANGED <<row, regs>>
    <2>1. Valid' = Valid /\ ByType(Valid)' = ByType(Valid) /\ regs' = regs /\ RowsRight'
      BY <1>2, <1>4 DEF Valid, ByType, Typed, RowsRight
    <2>2. /\ Cardinality(Valid') - Cardinality(Valid) \in -1 .. 1
          /\ Cardinality(ByType(Valid)') - Cardinality(ByType(Valid)) \in -1 .. 1
          /\ Cardinality(regs') - Cardinality(regs) \in 0 .. 1
      BY <1>1, <2>1 DEF Counts
    <2> QED
      BY <1>2, <1>4, <2>1, <2>2 DEF Drifts
  <1>5. CASE Register(c) \/ ProcessImportFile(c)
    <2>1. regs' = regs \cup {c} /\ row' = row /\ Committed(c)
      BY <1>5 DEF Register, ProcessImportFile
    <2>2. Valid' = Valid /\ ByType(Valid)' = ByType(Valid) /\ RowsRight'
      BY <1>2, <2>1 DEF Valid, ByType, Typed, RowsRight
    <2>3. Cardinality(regs \cup {c}) - Cardinality(regs) \in 0 .. 1
      <3>1. Cardinality(regs) \in Nat /\ IsFiniteSet(regs)
        BY <1>1 DEF Counts
      <3>2. Cardinality(regs \cup {c}) = IF c \in regs THEN Cardinality(regs) ELSE Cardinality(regs) + 1
        BY <3>1, FS_AddElement
      <3> QED
        BY <3>1, <3>2
    <2>4. /\ Cardinality(Valid') - Cardinality(Valid) \in -1 .. 1
          /\ Cardinality(ByType(Valid)') - Cardinality(ByType(Valid)) \in -1 .. 1
      BY <1>1, <2>2 DEF Counts
    <2> QED
      BY <1>2, <2>1, <2>2, <2>3, <2>4 DEF Drifts
  <1>6. CASE (CommitCheckIn(c) \/ UndoCheckin(c)) /\ Committed(c)
    <2>1. req[c].op \in {"scan", "undo"}
      BY <1>6 DEF CommitCheckIn, UndoCheckin, At
    <2>2. pc[c] # "new"
      BY DEF Goes
    <2>3. req[c].ticket \in Tickets
      BY <2>1, <2>2 DEF IInv, Control, Placed, Fits
    <2>4. PICK x \in {"valid", "undone"} :
            /\ UNCHANGED regs /\ (x = "valid" => CommitCheckIn(c))
            /\ row' = [row EXCEPT ![req[c].ticket] = x] \/ row' = row
      BY <1>6 DEF CommitCheckIn, UndoCheckin, Skip, data
    <2>5. CASE row' = row
      BY <1>4, <1>6, <2>4, <2>5
    <2>6. CASE row' = [row EXCEPT ![req[c].ticket] = x]
      <3>1. /\ Cardinality(Valid') - Cardinality(Valid) \in -1 .. 1
            /\ Cardinality(ByType(Valid)') - Cardinality(ByType(Valid)) \in -1 .. 1
        BY <1>2, <2>3, <2>6, OneRow
      <3>2. RowsRight'
        BY <2>3, <2>4, <2>6 DEF RowsRight, CommitCheckIn, IInv, DataTyped, PassesRight, Scanned
      <3>3. Cardinality(regs') - Cardinality(regs) \in 0 .. 1
        BY <1>1, <2>4 DEF Counts
      <3> QED
        BY <1>2, <1>6, <3>1, <3>2, <3>3 DEF Drifts
    <2> QED
      BY <2>4, <2>5, <2>6
  <1>7. \/ UNCHANGED <<missed, row, regs, open>>
        \/ Committed(c) /\ UNCHANGED <<row, regs>>
        \/ Register(c) \/ ProcessImportFile(c)
        \/ (CommitCheckIn(c) \/ UndoCheckin(c)) /\ Committed(c)
    <2>1. CASE GateStep(c)
      BY <2>1 DEF GateStep, ReadEvent, ReadAssignment, RemoveStaff, DeleteEvent, Join, Leave, Skip, data
    <2>2. CASE ScanStep(c)
      <3>1. CASE ReadToken(c) \/ CountCheckedIn(c) \/ EmitCheckinUpdate(c) \/ CountFails(c)
        BY <3>1 DEF ReadToken, CountCheckedIn, EmitCheckinUpdate, CountFails, Skip, data
      <3>2. CASE ResolveCheckIn(c)
        BY <3>2 DEF ResolveCheckIn, Skip, data
      <3>3. CASE CommitCheckIn(c)
        BY <3>3 DEF CommitCheckIn, Skip, data
      <3>4. CASE UndoCheckin(c)
        BY <3>4 DEF UndoCheckin, Skip, data
      <3> QED
        BY <2>2, <3>1, <3>2, <3>3, <3>4 DEF ScanStep
    <2>3. CASE PassStep(c)
      BY <2>3 DEF PassStep, GetTicketDetails, ListMyTickets, RecoverRawToken, ReloadToken, Skip, data
    <2>4. CASE ReportStep(c)
      BY <2>4 DEF ReportStep, CheckEventOwnership, Query, ReadBatch, Skip, data
    <2>5. CASE IssueStep(c)
      BY <2>5 DEF IssueStep, Insert, GenerateToken, SendQrIssuedEmail, data
    <2> QED
      BY <2>1, <2>2, <2>3, <2>4, <2>5 DEF Step
  <1> QED
    BY <1>3, <1>4, <1>5, <1>6, <1>7

\* A number n of a report: what it counts is now at now.
Close(c, n, now) == n \in Nat /\ (pc[c] = "query" => Near(n, now, c))
Whole(op) == Reports[op].first \cup Reports[op].last
\* The numbers that a report has read, ...
Read(c) ==
  /\ DOMAIN got[c] \subseteq Whole(req[c].op)
  /\ pc[c] \notin {"query", "ok"} => DOMAIN got[c] = {}
  /\ pc[c] = "ok" => DOMAIN got[c] = Whole(req[c].op)
  /\ "events" \in DOMAIN got[c] /\ req[c].op = "statistics" => "valid" \in DOMAIN got[c]
  /\ pc[c] \in {"staff", "query"} /\ req[c].op = "statistics" /\ missed[c] = 0 => open
CloseOnes(c) ==
  LET g == got[c] IN
  /\ "rows" \in DOMAIN g => /\ g.rows \subseteq regs
                            /\ Close(c, Cardinality(ByType(g.rows)), Cardinality(ByType(Valid)))
  /\ "byType" \in DOMAIN g => Close(c, g.byType, Cardinality(ByType(Valid)))
  /\ "valid" \in DOMAIN g => Close(c, g.valid, Cardinality(Valid))
  /\ "distinct" \in DOMAIN g => Close(c, g.distinct, Cardinality(Valid))
ClosePages(c) ==
  LET g == got[c] IN
  /\ "registered" \in DOMAIN g => Close(c, g.registered, Cardinality(regs))
  /\ "page" \in DOMAIN g /\ req[c].op \in {"attendees", "tickets"}
       => Close(c, g.page, Listed(Cardinality(regs), req[c].page))
\* ... and what two of them have to do with each other.
Agreed(c) ==
  LET g == got[c] IN
  /\ {"rows", "byType"} \subseteq DOMAIN g => Near(Cardinality(ByType(g.rows)), g.byType, c)
  /\ {"rows", "registered"} \subseteq DOMAIN g => Cardinality(g.rows) <= g.registered + missed[c]
  /\ {"valid", "distinct"} \subseteq DOMAIN g => Near(g.valid, g.distinct, c)
  /\ {"valid", "events"} \subseteq DOMAIN g /\ req[c].op = "statistics" /\ missed[c] = 0
       => (g.events = 1 <=> g.valid > 0)
  /\ {"page", "registered"} \subseteq DOMAIN g /\ req[c].op \in {"attendees", "tickets"}
       => Near(g.page, Listed(g.registered, req[c].page), c)
Consistent(c) == Read(c) /\ CloseOnes(c) /\ ClosePages(c) /\ Agreed(c)
Summed == RowsRight /\ \A c \in Calls : req[c].op \in ReportOps => Consistent(c)

\* A query adds one part to its report, the last parts after the first.
LEMMA Reading ==
  ASSUME NEW c \in Calls, IInv, Query(c)
  PROVE  \E q \in Whole(req[c].op) \ DOMAIN got[c] :
           /\ req[c].op \in ReportOps /\ pc[c] = "query" /\ pc'[c] \in {"query", "ok"}
           /\ pc'[c] = "ok" <=> Whole(req[c].op) \ DOMAIN got[c] = {q}
           /\ q \in Reports[req[c].op].first \/ Reports[req[c].op].first \subseteq DOMAIN got[c]
           /\ DOMAIN got'[c] = DOMAIN got[c] \cup {q} /\ got'[c][q] = Answer(c, q)
           /\ \A p \in DOMAIN got[c] : got'[c][p] = got[c][p]
           /\ UNCHANGED <<req, missed, data>>
  <1> DEFINE r == Reports[req[c].op]
  <1>1. req[c].op \in ReportOps /\ pc[c] = "query" /\ pc \in [Calls -> Labels] /\ DOMAIN got = Calls
    BY DEF Query, IInv, Control, CallsTyped, Placed, Belongs
  <1>2. PICK q \in (r.first \cup r.last) \ DOMAIN got[c] :
          /\ q \in r.first \/ r.first \subseteq DOMAIN got[c]
          /\ got' = [got EXCEPT ![c] = With(got[c], q, Answer(c, q))]
          /\ Goto(c, IF (r.first \cup r.last) \ DOMAIN got[c] = {q} THEN "ok" ELSE "query")
    BY DEF Query
  <1>3. got'[c] = With(got[c], q, Answer(c, q))
    BY <1>1, <1>2
  <1>4. /\ DOMAIN got'[c] = DOMAIN got[c] \cup {q} /\ got'[c][q] = Answer(c, q)
        /\ \A p \in DOMAIN got[c] : got'[c][p] = got[c][p]
    BY <1>2, <1>3 DEF With
  <1>5. pc'[c] = (IF (r.first \cup r.last) \ DOMAIN got[c] = {q} THEN "ok" ELSE "query") /\ req' = req
    BY <1>1, <1>2 DEF Goto
  <1>6. UNCHANGED <<missed, data>>
    BY DEF Query
  <1> QED
    BY <1>1, <1>2, <1>4, <1>5, <1>6 DEF Whole

\* What the queries of the numbers answer.
LEMMA AnswersNow ==
  ASSUME NEW c \in Calls
  PROVE  /\ Answer(c, "registered") = Cardinality(regs) /\ Answer(c, "rows") = Valid
         /\ Answer(c, "byType") = Cardinality(ByType(Valid)) /\ Answer(c, "valid") = Cardinality(Valid)
         /\ Answer(c, "distinct") = Cardinality(Valid)
         /\ req[c].op = "statistics" => Answer(c, "events") = IF open /\ Valid # {} THEN 1 ELSE 0
         /\ Answer(c, "page") = Listed(Cardinality(regs), req[c].page)
  BY DEF Answer, CountDistinct, Taken, Listed

\* A report that has read one more part is still consistent.
LEMMA QueryConsistent ==
  ASSUME NEW c \in Calls, IInv, RowsRight, Consistent(c), Query(c) PROVE Consistent(c)'
  <1>1. PICK q \in Whole(req[c].op) \ DOMAIN got[c] :
           /\ req[c].op \in ReportOps /\ pc[c] = "query" /\ pc'[c] \in {"query", "ok"}
           /\ pc'[c] = "ok" <=> Whole(req[c].op) \ DOMAIN got[c] = {q}
           /\ q \in Reports[req[c].op].first \/ Reports[req[c].op].first \subseteq DOMAIN got[c]
           /\ DOMAIN got'[c] = DOMAIN got[c] \cup {q} /\ got'[c][q] = Answer(c, q)
           /\ \A p \in DOMAIN got[c] : got'[c][p] = got[c][p]
           /\ UNCHANGED <<req, missed, data>>
    BY Reading
  <1>2. /\ missed[c] \in Nat /\ missed'[c] = missed[c] /\ UNCHANGED <<row, regs, open>> /\ Valid' = Valid
        /\ req'[c] = req[c]
    BY <1>1 DEF data, Valid, IInv, Control, CallsTyped
  <1>12. \A t : Typed(t)' = Typed(t)
    BY <1>1 DEF Typed
  <1>3. Counts
    BY CountsRight
  <1> DEFINE ones == Cardinality(Valid)
             some == Cardinality(ByType(Valid))
             all == Cardinality(regs)
  <1>4. ones \in Nat /\ some \in Nat /\ all \in Nat
    BY <1>3 DEF Counts
  <1>5. ones' = ones /\ some' = some /\ all' = all
    BY <1>2, <1>12 DEF ByType
  <1>6. Read(c)'
    <2>1. q = "events" /\ req[c].op = "statistics" => "valid" \in DOMAIN got[c]
      BY <1>1 DEF Reports, Report, GetCheckinStatistics
    <2> QED
      BY <1>1, <1>2, <2>1 DEF Consistent, Read, Whole
  <1>7. /\ Answer(c, "registered") = all /\ Answer(c, "rows") = Valid /\ Answer(c, "byType") = some
        /\ Answer(c, "valid") = ones /\ Answer(c, "distinct") = ones
    BY <1>1, AnswersNow
  <1>8. CloseOnes(c)'
    <2>1. "rows" \in DOMAIN got'[c] =>
            /\ got'[c].rows \subseteq regs
            /\ Close(c, Cardinality(ByType(got[c].rows)), some)'
      <3>1. CASE q = "rows"
        <4>1. got'[c].rows = Valid /\ ByType(got[c].rows)' = ByType(Valid) /\ Valid \subseteq regs
          BY <1>1, <1>3, <1>7, <1>12, <3>1 DEF ByType, Counts
        <4> QED
          BY <1>2, <1>4, <1>5, <4>1 DEF Close, Near
      <3>2. CASE q # "rows" /\ "rows" \in DOMAIN got'[c]
        <4>1. got'[c].rows = got[c].rows /\ ByType(got[c].rows)' = ByType(got[c].rows) /\ "rows" \in DOMAIN got[c]
          BY <1>1, <1>12, <3>2 DEF ByType
        <4> QED
          BY <1>1, <1>2, <1>5, <4>1 DEF Consistent, CloseOnes, Close, Near
      <3> QED
        BY <3>1, <3>2
    <2>2. "byType" \in DOMAIN got'[c] => Close(c, got[c].byType, some)'
      BY <1>1, <1>2, <1>4, <1>5, <1>7 DEF Consistent, CloseOnes, Close, Near
    <2>3. /\ "valid" \in DOMAIN got'[c] => Close(c, got[c].valid, ones)'
          /\ "distinct" \in DOMAIN got'[c] => Close(c, got[c].distinct, ones)'
      BY <1>1, <1>2, <1>4, <1>5, <1>7 DEF Consistent, CloseOnes, Close, Near
    <2> QED
      BY <1>2, <2>1, <2>2, <2>3 DEF CloseOnes
  <1>9. ASSUME req[c].op \in {"attendees", "tickets"}
        PROVE  /\ req[c].page \in Nat \ {0} /\ Listed(all, req[c].page) \in Nat
               /\ Answer(c, "page") = Listed(all, req[c].page)
               /\ \A n \in Nat : Near(n, all, c) => Near(Listed(n, req[c].page), Listed(all, req[c].page), c)
    <2>1. req[c].page \in Nat \ {0} /\ Answer(c, "page") = Listed(all, req[c].page)
      <3>1. req[c].page \in Nat \ {0}
        BY <1>1, <1>9 DEF IInv, Control, Placed, Fits
      <3>2. Answer(c, "page") = Listed(Cardinality(regs), req[c].page)
        BY AnswersNow
      <3> QED
        BY <3>1, <3>2
    <2>2. Listed(all, req[c].page) \in Nat
      <3>1. ASSUME NEW n \in Int PROVE Listed(n, req[c].page) \in Nat
        <4>1. n <= n
          OBVIOUS
        <4> QED
          BY <2>1, <4>1, PagesDrift
      <3> QED
        BY <1>4, <3>1
    <2>3. ASSUME NEW n \in Nat, Near(n, all, c) PROVE Near(Listed(n, req[c].page), Listed(all, req[c].page), c)
      <3> DEFINE p == req[c].page
                 a == Listed(n, p)
                 b == Listed(all, p)
      <3>0. p \in Nat \ {0} /\ n \in Int /\ all \in Int
        BY <1>4, <2>1
      <3> HIDE DEF p, all
      <3>1. CASE n <= all
        <4>1. a \in Nat /\ b \in Nat /\ b - a <= all - n /\ a <= b
          BY <3>0, <3>1, PagesDrift
        <4> QED
          BY <1>2, <2>3, <3>0, <4>1 DEF Near, p
      <3>2. CASE all <= n
        <4>1. a \in Nat /\ b \in Nat /\ a - b <= n - all /\ b <= a
          BY <3>0, <3>2, PagesDrift
        <4> QED
          BY <1>2, <2>3, <3>0, <4>1 DEF Near, p
      <3> QED
        BY <1>4, <3>1, <3>2
    <2> QED
      BY <2>1, <2>2, <2>3
  <1>10. ClosePages(c)'
    <2>1. "registered" \in DOMAIN got'[c] => Close(c, got[c].registered, all)' 
      BY <1>1, <1>2, <1>4, <1>7 DEF Consistent, ClosePages, Close, Near
    <2>2. ASSUME "page" \in DOMAIN got'[c], req[c].op \in {"attendees", "tickets"}
          PROVE  Close(c, got[c].page, Listed(all, req[c].page))'
      <3>1. CASE q = "page"
        BY <1>1, <1>2, <1>4, <1>5, <1>9, <2>2, <3>1 DEF Close, Near
      <3>2. CASE q # "page"
        BY <1>1, <1>2, <1>5, <2>2, <3>2 DEF Consistent, ClosePages, Close, Near
      <3> QED
        BY <3>1, <3>2
    <2> QED
      BY <1>1, <2>1, <2>2 DEF ClosePages
  <1>11. Agreed(c)'
    <2>1. ASSUME {"rows", "byType"} \subseteq DOMAIN got'[c]
          PROVE  Near(Cardinality(ByType(got[c].rows)), got[c].byType, c)'
      <3>1. CASE q = "rows"
        <4>1. ByType(got[c].rows)' = ByType(Valid) /\ got'[c].byType = got[c].byType /\ "byType" \in DOMAIN got[c]
          BY <1>1, <1>7, <1>12, <2>1, <3>1 DEF ByType
        <4> QED
          BY <1>1, <1>2, <1>4, <4>1 DEF Consistent, CloseOnes, Close, Near
      <3>2. CASE q # "rows"
        <4>1. ByType(got[c].rows)' = ByType(got[c].rows) /\ "rows" \in DOMAIN got[c]
          BY <1>1, <1>12, <2>1, <3>2 DEF ByType
        <4> QED
          BY <1>1, <1>2, <1>4, <1>7, <2>1, <4>1 DEF Consistent, CloseOnes, Agreed, Close, Near
      <3> QED
        BY <3>1, <3>2
    <2>2. ASSUME {"rows", "registered"} \subseteq DOMAIN got'[c]
          PROVE  Cardinality(got'[c].rows) <= got'[c].registered + missed'[c]
      <3>1. CASE q \notin {"rows", "registered"}
        BY <1>1, <1>2, <2>2, <3>1 DEF Consistent, Agreed
      <3>2. CASE q \in {"rows", "registered"}
        <4>1. got'[c].rows \subseteq regs
          BY <1>2, <1>8, <2>2 DEF CloseOnes
        <4>2. PICK rows \in SUBSET regs : rows = got'[c].rows
          BY <4>1
        <4>3. Cardinality(rows) \in Nat /\ Cardinality(rows) <= all
          BY <1>3, FS_Subset, FS_CardinalityType DEF Counts
        <4>4. got'[c].registered \in Nat /\ all <= got'[c].registered + missed[c]
          BY <1>1, <1>2, <1>4, <1>7, <2>2, <3>2 DEF Consistent, ClosePages, Close, Near
        <4> HIDE DEF all
        <4> QED
          BY <1>2, <1>4, <4>2, <4>3, <4>4
      <3> QED
        BY <3>1, <3>2
    <2>3. {"valid", "distinct"} \subseteq DOMAIN got'[c] => Near(got[c].valid, got[c].distinct, c)'
      BY <1>1, <1>2, <1>4, <1>7 DEF Consistent, CloseOnes, Agreed, Close, Near
    <2>4. ASSUME {"valid", "events"} \subseteq DOMAIN got'[c], req[c].op = "statistics", missed[c] = 0
          PROVE  got'[c].events = 1 <=> got'[c].valid > 0
      <3>1. q # "valid" \/ "events" \notin DOMAIN got[c]
        BY <2>4 DEF Consistent, Read
      <3>2. CASE q = "events"
        <4>1. "valid" \in DOMAIN got[c] /\ got'[c].valid = got[c].valid
          BY <1>1, <2>4, <3>2
        <4>2. got[c].valid = ones
          BY <1>1, <1>4, <2>4, <4>1 DEF Consistent, CloseOnes, Close, Near
        <4>3. open /\ got'[c].events = IF open /\ Valid # {} THEN 1 ELSE 0
          BY <1>1, <2>4, <3>2, AnswersNow DEF Consistent, Read
        <4>4. Valid # {} <=> ones > 0
          BY <1>3, <1>4, FS_EmptySet DEF Counts
        <4> QED
          BY <1>4, <4>1, <4>2, <4>3, <4>4
      <3>3. CASE q # "events"
        <4>1. {"valid", "events"} \subseteq DOMAIN got[c]
          BY <1>1, <2>4, <3>1, <3>3
        <4>2. got'[c].valid = got[c].valid /\ got'[c].events = got[c].events
          BY <1>1, <4>1
        <4> QED
          BY <2>4, <4>1, <4>2 DEF Consistent, Agreed
      <3> QED
        BY <3>2, <3>3
    <2>5. ASSUME {"page", "registered"} \subseteq DOMAIN got'[c], req[c].op \in {"attendees", "tickets"}
          PROVE  Near(got[c].page, Listed(got[c].registered, req[c].page), c)'
      <3>1. CASE q = "page"
        <4>1. "registered" \in DOMAIN got[c] /\ got'[c].registered = got[c].registered
          BY <1>1, <2>5, <3>1
        <4>2. got[c].registered \in Nat /\ Near(got[c].registered, all, c)
          BY <1>1, <4>1 DEF Consistent, ClosePages, Close
        <4>3. got'[c].page = Listed(all, req[c].page)
          BY <1>1, <1>9, <2>5, <3>1
        <4>4. Near(Listed(got[c].registered, req[c].page), Listed(all, req[c].page), c)
          BY <1>9, <2>5, <4>2
        <4> QED
          BY <1>2, <4>1, <4>3, <4>4 DEF Near
      <3>2. CASE q = "registered"
        <4>1. "page" \in DOMAIN got[c] /\ got'[c].page = got[c].page
          BY <1>1, <2>5, <3>2
        <4>2. Near(got[c].page, Listed(all, req[c].page), c)
          BY <1>1, <2>5, <4>1 DEF Consistent, ClosePages, Close
        <4>3. got'[c].registered = all
          BY <1>1, <1>7, <3>2
        <4> QED
          BY <1>2, <4>1, <4>2, <4>3 DEF Near
      <3>3. CASE q \notin {"page", "registered"}
        BY <1>1, <1>2, <2>5, <3>3 DEF Consistent, Agreed, Near
      <3> QED
        BY <3>1, <3>2, <3>3
    <2> QED
      BY <1>2, <2>1, <2>2, <2>3, <2>4, <2>5 DEF Agreed
  <1> QED
    BY <1>6, <1>8, <1>10, <1>11 DEF Consistent

LEMMA OneOff ==
  ASSUME NEW a \in Int, NEW b \in Int, b - a \in -1 .. 1, NEW m \in Int, NEW n \in Int, n - a <= m, a - n <= m
  PROVE  n - b <= m + 1 /\ b - n <= m + 1
  OBVIOUS

\* A write between two queries of a report moves its numbers by one at most.
LEMMA DriftConsistent ==
  ASSUME NEW c \in Calls, NEW d \in Calls, IInv, RowsRight, RowsRight', DataTyped', IInv', Drifts(c),
         Consistent(d), req[d].op \in ReportOps, got'[d] = got[d], req'[d] = req[d], pc'[d] = pc[d]
  PROVE  Consistent(d)'
  <1> DEFINE ones == Cardinality(Valid)
             some == Cardinality(ByType(Valid))
             all == Cardinality(regs)
  <1>1. /\ ones \in Nat /\ some \in Nat /\ all \in Nat
        /\ ones' \in Nat /\ some' \in Nat /\ all' \in Nat /\ missed[d] \in Nat
    <2>1. Counts /\ Counts'
      <3>1. IInv => (RowsRight => Counts)
        BY CountsRight
      <3>2. (IInv => (RowsRight => Counts))'
        BY CountsRight, PTL
      <3> QED
        BY <3>1, <3>2
    <2> QED
      BY <2>1 DEF Counts, IInv, Control, CallsTyped
  <1>4. \A t : Typed(t)' = Typed(t)
    BY DEF Drifts, Typed
  <1>6. /\ ByType(got[d].rows)' = ByType(got[d].rows) /\ regs \subseteq regs'
    BY <1>4 DEF ByType, Drifts
  <1>2. CASE UNCHANGED <<missed, row, regs, open>>
    <2>1. Valid' = Valid /\ ByType(Valid)' = ByType(Valid)
      BY <1>2, <1>4 DEF Valid, ByType
    <2>2. Read(d)' /\ ClosePages(d)'
      BY <1>2 DEF Consistent, Read, ClosePages, Close, Near
    <2>3. CloseOnes(d)' /\ Agreed(d)'
      BY <1>2, <1>6, <2>1 DEF Consistent, CloseOnes, Agreed, Close, Near
    <2> QED
      BY <2>2, <2>3 DEF Consistent
  <1>3. CASE ~UNCHANGED <<missed, row, regs, open>>
    <2>1. /\ missed'[d] = IF pc[d] = "new" \/ Finished(d) THEN missed[d] ELSE missed[d] + 1
          /\ ones' - ones \in -1 .. 1 /\ some' - some \in -1 .. 1 /\ all' - all \in 0 .. 1
      BY <1>3 DEF Drifts, Committed
    <2>4. all <= all' /\ all' <= all + 1
      BY <1>1, <2>1
    <2>6. PICK g \in Int, h \in Int :
            g = Cardinality(Valid) /\ h = Cardinality(Valid)' /\ h - g \in -1 .. 1
      BY <1>1, <2>1
    <2>5. PICK u \in Int, v \in Int :
            u = Cardinality(ByType(Valid)) /\ v = Cardinality(ByType(Valid)') /\ v - u \in -1 .. 1
      BY <1>1, <2>1
    <2> HIDE DEF ones, some, all
    <2>2. CASE pc[d] # "query"
      <3>1. DOMAIN got[d] = {} \/ missed'[d] = missed[d]
        BY <2>1, <2>2 DEF Consistent, Read, Finished, Answers
      <3>2. Read(d)'
        BY <1>1, <2>1, <2>2 DEF Consistent, Read, Finished, Answers
      <3>3. CloseOnes(d)' /\ ClosePages(d)'
        BY <1>6, <2>2, <3>1 DEF Consistent, CloseOnes, ClosePages, Close
      <3>4. Agreed(d)'
        BY <1>6, <3>1 DEF Consistent, Agreed, Near
      <3> QED
        BY <3>2, <3>3, <3>4 DEF Consistent
    <2>3. CASE pc[d] = "query"
      <3>1. missed'[d] = missed[d] + 1
        BY <2>1, <2>3 DEF Finished, Answers
      <3>2. Read(d)'
        BY <1>1, <2>3, <3>1 DEF Consistent, Read
      <3>3. ASSUME NEW n \in Nat, n - g <= missed[d], g - n <= missed[d]
            PROVE  n - h <= missed'[d] /\ h - n <= missed'[d]
        BY <1>1, <2>6, <3>1, <3>3
      <3>8. ASSUME NEW n \in Nat, n - u <= missed[d], u - n <= missed[d]
            PROVE  n - v <= missed'[d] /\ v - n <= missed'[d]
        BY <1>1, <2>5, <3>1, <3>8
      <3>4. ASSUME NEW n \in Nat, n - all <= missed[d], all - n <= missed[d]
            PROVE  n - all' <= missed'[d] /\ all' - n <= missed'[d]
        BY <1>1, <2>4, <3>1, <3>4
      <3>5. CloseOnes(d)'
        <4>1. ASSUME NEW n, Close(d, n, Cardinality(Valid)) PROVE Close(d, n, Cardinality(Valid))'
          BY <2>3, <2>6, <3>3, <4>1 DEF Close, Near
        <4>2. ASSUME NEW n, Close(d, n, Cardinality(ByType(Valid))) PROVE Close(d, n, Cardinality(ByType(Valid)))'
          BY <2>3, <2>5, <3>8, <4>2 DEF Close, Near
        <4>3. "rows" \in DOMAIN got[d] => Close(d, Cardinality(ByType(got[d].rows)), Cardinality(ByType(Valid)))'
          <5>1. PICK n : n = Cardinality(ByType(got[d].rows))
            OBVIOUS
          <5> QED
            BY <1>6, <4>2, <5>1 DEF Consistent, CloseOnes, Close, Near
        <4> QED
          BY <1>6, <2>3, <4>1, <4>2, <4>3 DEF Consistent, CloseOnes
      <3>6. ClosePages(d)'
        <4>1. ASSUME NEW n, Close(d, n, Cardinality(regs)) PROVE Close(d, n, Cardinality(regs))'
          BY <2>3, <3>4, <4>1 DEF Close, Near, all
        <4>2. ASSUME req[d].op \in {"attendees", "tickets"}, NEW n, Close(d, n, Listed(all, req[d].page))
              PROVE  Close(d, n, Listed(all, req[d].page))'
          <5> DEFINE p == req[d].page
                     x == Listed(all, p)
                     y == Listed(all', p)
          <5>1. p \in Nat \ {0}
            BY <2>3, <4>2 DEF IInv, Control, Placed, Fits
          <5>2. x \in Nat /\ y \in Nat /\ y <= x + 1 /\ x <= y
            <6>1. all \in Int /\ all' \in Int /\ all <= all' /\ all' <= all + 1
              BY <1>1, <2>4
            <6>2. ASSUME NEW a \in Int, NEW b \in Int, a <= b, b <= a + 1
                  PROVE  /\ Listed(a, p) \in Nat /\ Listed(b, p) \in Nat
                         /\ Listed(b, p) <= Listed(a, p) + 1 /\ Listed(a, p) <= Listed(b, p)
              <7>1. /\ Listed(a, p) \in Nat /\ Listed(b, p) \in Nat
                    /\ Listed(b, p) - Listed(a, p) <= b - a /\ Listed(a, p) <= Listed(b, p)
                BY <5>1, <6>2, PagesDrift
              <7> HIDE DEF p
              <7> QED
                BY <6>2, <7>1
            <6> HIDE DEF p
            <6> QED
              BY <6>1, <6>2
          <5>3. n \in Nat /\ n - x <= missed[d] /\ x - n <= missed[d]
            BY <2>3, <4>2 DEF Close, Near
          <5>4. Listed(all, req[d].page)' = y
            BY DEF Listed
          <5> HIDE DEF x, y
          <5>5. n - y <= missed'[d] /\ y - n <= missed'[d]
            <6>1. missed[d] \in Int
              BY <1>1
            <6>2. n <= x + missed[d] /\ x <= n + missed[d]
              BY <5>2, <5>3, <6>1
            <6>3. n <= y + missed[d] /\ y <= n + missed[d] + 1
              BY <5>2, <5>3, <6>1, <6>2
            <6> QED
              BY <3>1, <5>2, <5>3, <6>1, <6>3
          <5> QED
            BY <5>3, <5>4, <5>5 DEF Close, Near
        <4> QED
          BY <2>3, <4>1, <4>2 DEF Consistent, ClosePages, all
      <3>7. Agreed(d)'
        <4>1. ASSUME NEW m, NEW n, Near(m, n, d), m \in Int, n \in Int PROVE Near(m, n, d)'
          BY <1>1, <3>1, <4>1 DEF Near
        <4>2. /\ "rows" \in DOMAIN got[d] => Cardinality(ByType(got[d].rows)) \in Int
              /\ "byType" \in DOMAIN got[d] => got[d].byType \in Int
              /\ "valid" \in DOMAIN got[d] => got[d].valid \in Int
              /\ "distinct" \in DOMAIN got[d] => got[d].distinct \in Int
          BY DEF Consistent, CloseOnes, Close
        <4>3. "registered" \in DOMAIN got[d] => got[d].registered \in Int
          BY DEF Consistent, ClosePages, Close
        <4>4. ASSUME req[d].op \in {"attendees", "tickets"}
              PROVE  /\ "page" \in DOMAIN got[d] => got[d].page \in Int
                     /\ "registered" \in DOMAIN got[d] => Listed(got[d].registered, req[d].page) \in Int
          <5>1. req[d].page \in Nat \ {0}
            BY <2>3, <4>4 DEF IInv, Control, Placed, Fits
          <5> QED
            <6>1. "page" \in DOMAIN got[d] => got[d].page \in Int
              BY <4>4 DEF Consistent, ClosePages, Close
            <6>2. ASSUME NEW a \in Int PROVE Listed(a, req[d].page) \in Int
              BY <5>1, PagesDrift
            <6> QED
              BY <4>3, <6>1, <6>2
        <4>5. {"rows", "registered"} \subseteq DOMAIN got[d]
                => Cardinality(got[d].rows) <= got[d].registered + missed'[d]
          <5>1. "rows" \in DOMAIN got[d] => Cardinality(got[d].rows) \in Nat
            <6>1. "rows" \in DOMAIN got[d] => IsFiniteSet(got[d].rows)
              BY CountsRight, FS_Subset DEF Consistent, CloseOnes, Counts
            <6> QED
              BY <6>1, FS_CardinalityType
          <5> QED
            BY <1>1, <3>1, <4>3, <5>1 DEF Consistent, Agreed
        <4>6. missed'[d] # 0
          BY <1>1, <3>1
        <4>7. ASSUME {"page", "registered"} \subseteq DOMAIN got[d], req[d].op \in {"attendees", "tickets"}
              PROVE  Near(got[d].page, Listed(got[d].registered, req[d].page), d)'
          <5>1. Near(got[d].page, Listed(got[d].registered, req[d].page), d)
            BY <4>7 DEF Consistent, Agreed
          <5>2. PICK m \in Int, n \in Int : m = got[d].page /\ n = Listed(got[d].registered, req[d].page)
            BY <4>4, <4>7
          <5>3. Near(m, n, d)'
            BY <4>1, <5>1, <5>2
          <5> QED
            BY <5>2, <5>3 DEF Near, Listed
        <4>8. {"rows", "byType"} \subseteq DOMAIN got[d]
                => Near(Cardinality(ByType(got[d].rows)), got[d].byType, d)'
          <5>1. PICK n : n = Cardinality(ByType(got[d].rows))
            OBVIOUS
          <5> QED
            BY <1>6, <4>1, <4>2, <5>1 DEF Consistent, Agreed, Near
        <4>9. {"valid", "distinct"} \subseteq DOMAIN got[d] => Near(got[d].valid, got[d].distinct, d)'
          BY <4>1, <4>2 DEF Consistent, Agreed, Near
        <4> QED
          BY <4>5, <4>6, <4>7, <4>8, <4>9 DEF Agreed
      <3> QED
        BY <3>2, <3>5, <3>6, <3>7 DEF Consistent
    <2> QED
      BY <2>2, <2>3
  <1> QED
    BY <1>2, <1>3

\* What else a report does reads nothing.
LEMMA OwnConsistent ==
  ASSUME NEW c \in Calls, NEW label, IInv, Consistent(c), req[c].op \in ReportOps, Step(c), Goes(c, label),
         ~Query(c)
  PROVE  Consistent(c)'
  <1>1. ReadEvent(c) \/ ReadAssignment(c) \/ CheckEventOwnership(c)
    <2>1. ~PassStep(c) /\ ~ScanStep(c)
      BY DEF PassStep, GetTicketDetails, ListMyTickets, RecoverRawToken, ReloadToken, At, ReportOps,
             ScanStep, ReadToken, ResolveCheckIn, CommitCheckIn, CountCheckedIn, EmitCheckinUpdate,
             CountFails, UndoCheckin, IInv, Control, Placed, Belongs
    <2>2. ~(RemoveStaff(c) \/ DeleteEvent(c) \/ Join(c) \/ Leave(c) \/ ReadBatch(c))
      BY DEF RemoveStaff, DeleteEvent, Join, Leave, ReadBatch, At, ReportOps
    <2>3. ~IssueStep(c)
      BY Issuers DEF ReportOps, IInv
    <2> QED
      BY <2>1, <2>2, <2>3 DEF Step, GateStep, ReportStep
  <1>2. UNCHANGED <<req, missed, got, regs, row, open>> /\ pc[c] \notin {"query", "ok"}
    BY <1>1 DEF ReadEvent, ReadAssignment, CheckEventOwnership, Skip, Goto, data, At
  <1>3. pc'[c] = label /\ label # "ok"
    <2>1. pc'[c] = label
      BY DEF Goes, IInv, Control, CallsTyped
    <2>2. CASE ReadEvent(c)
      <3>1. req[c].op # "join" /\ Body[req[c].op] # "ok"
        BY <2>2 DEF ReadEvent, Body, ReportOps, GatedOps
      <3>2. label \in {"refused", "staff", Body[req[c].op]}
        BY <2>1, <2>2, <3>1 DEF ReadEvent, Skip, Goto, IInv, Control, CallsTyped
      <3> QED
        BY <2>1, <3>1, <3>2
    <2>3. CASE ReadAssignment(c)
      <3>1. pc[c] = "staff" /\ req[c].op \in GatedOps /\ Body[req[c].op] # "ok"
        BY <2>3 DEF ReadAssignment, At, Body, ReportOps, GatedOps, IInv, Control, Placed, Belongs
      <3>2. label \in {"refused", Body[req[c].op]}
        BY <2>1, <2>3, <3>1 DEF ReadAssignment, Skip, Goto, IInv, Control, CallsTyped
      <3> QED
        BY <2>1, <3>1, <3>2
    <2>4. CASE CheckEventOwnership(c)
      <3>1. label \in {"query", "batch", "notfound", "refused"}
        BY <2>1, <2>4 DEF CheckEventOwnership, Skip, Goto, IInv, Control, CallsTyped
      <3> QED
        BY <2>1, <3>1
    <2> QED
      BY <1>1, <2>2, <2>3, <2>4
  <1>4. req[c].op = "statistics" /\ label \in {"staff", "query"} /\ missed[c] = 0 => open
    <2>1. CASE ReadEvent(c)
      BY <1>3, <2>1 DEF ReadEvent, Skip, Goto, Goes, IInv, Control, CallsTyped
    <2>2. CASE ReadAssignment(c)
      BY <2>2 DEF ReadAssignment, Consistent, Read, At
    <2>3. CASE CheckEventOwnership(c)
      BY <2>3 DEF CheckEventOwnership, OwnedOps
    <2> QED
      BY <1>1, <2>1, <2>2, <2>3
  <1> QED
    BY <1>2, <1>3, <1>4 DEF Consistent, Read, CloseOnes, ClosePages, Agreed

LEMMA SummedKeeps == ASSUME IInv, Summed, [Next]_vars PROVE Summed'
  <1>1. IInv'
    BY NextKeeps
  <1>2. CASE UNCHANGED vars
    <2>1. UNCHANGED <<pc, req, missed, got, row, regs, open>> /\ Valid' = Valid /\ ByType(Valid)' = ByType(Valid)
      BY <1>2 DEF vars, call, data, Valid, ByType, Typed
    <2>2. ASSUME NEW c \in Calls, Consistent(c) PROVE Consistent(c)'
      <3>3. ByType(got[c].rows)' = ByType(got[c].rows)
        BY <2>1 DEF ByType, Typed
      <3>1. Read(c)' /\ Agreed(c)'
        BY <2>1, <2>2, <3>3 DEF Consistent, Read, Agreed, Near
      <3>2. CloseOnes(c)' /\ ClosePages(c)'
        BY <2>1, <2>2, <3>3 DEF Consistent, CloseOnes, ClosePages, Close, Near
      <3> QED
        BY <3>1, <3>2 DEF Consistent
    <2> QED
      BY <2>1, <2>2 DEF Summed, RowsRight
  <1>3. ASSUME NEW c \in Calls, Begin(c) PROVE Summed'
    <2>1. /\ pc[c] = "new" /\ pc'[c] = "start" /\ got[c] = <<>>
          /\ \A d \in Calls \ {c} : req'[d] = req[d] /\ pc'[d] = pc[d]
          /\ UNCHANGED <<got, missed, regs, row, open>>
      BY <1>3 DEF Begin, data, IInv, Control, CallsTyped, Placed
    <2>2. Valid' = Valid
      BY <2>1 DEF Valid
    <2>4. c \notin regs /\ Valid \subseteq regs
      BY <2>1 DEF IInv, PassesRight, PassesThere, DataTyped, Summed, RowsRight, Valid
    <2>5. \A t \in regs : Typed(t)' = Typed(t)
      BY <2>1, <2>4 DEF Typed
    <2>7. ByType(Valid)' = ByType(Valid)
      BY <2>2, <2>4, <2>5 DEF ByType
    <2>3. ASSUME NEW d \in Calls, req'[d].op \in ReportOps PROVE Consistent(d)'
      <3>1. CASE d = c
        BY <2>1, <3>1 DEF Consistent, Read, CloseOnes, ClosePages, Agreed
      <3>2. CASE d # c
        <4>1. Consistent(d) /\ got'[d] = got[d] /\ req'[d] = req[d] /\ pc'[d] = pc[d]
          BY <2>1, <2>3, <3>2 DEF Summed
        <4>2. "rows" \in DOMAIN got[d] => ByType(got[d].rows)' = ByType(got[d].rows)
          BY <2>1, <2>5, <4>1 DEF ByType, Consistent, CloseOnes
        <4>3. Read(d)' /\ ClosePages(d)'
          BY <2>1, <4>1 DEF Consistent, Read, ClosePages, Close, Near
        <4>4. CloseOnes(d)' /\ Agreed(d)'
          BY <2>1, <2>2, <2>7, <4>1, <4>2 DEF Consistent, CloseOnes, Agreed, Close, Near
        <4> QED
          BY <4>3, <4>4 DEF Consistent
      <3> QED
        BY <3>1, <3>2
    <2> QED
      BY <2>1, <2>3 DEF Summed, RowsRight
  <1>4. ASSUME NEW c \in Calls, Step(c) PROVE Summed'
    <2>1. PICK label : Goes(c, label)
      BY <1>4, StepGoes DEF IInv
    <2>2. Passage(c) /\ Drifts(c) /\ RowsRight'
      BY <1>4, <2>1, StepPassage, StepDrifts DEF Summed
    <2>3. ASSUME NEW d \in Calls, req'[d].op \in ReportOps PROVE Consistent(d)'
      <3>1. req' = req /\ Consistent(d)
        BY <2>1, <2>3 DEF Goes, Summed
      <3>2. CASE d # c
        <4>1. got'[d] = got[d] /\ pc'[d] = pc[d]
          BY <2>1, <3>2 DEF Goes, IInv, Control, CallsTyped
        <4> QED
          BY <1>1, <2>2, <2>3, <3>1, <4>1, DriftConsistent DEF Summed, Passage
      <3>3. CASE d = c /\ Query(c)
        BY <3>1, <3>3, QueryConsistent DEF Summed
      <3>4. CASE d = c /\ ~Query(c)
        BY <1>4, <2>1, <2>3, <3>1, <3>4, OwnConsistent
      <3> QED
        BY <3>2, <3>3, <3>4
    <2> QED
      BY <2>2, <2>3 DEF Summed
  <1> QED
    BY <1>2, <1>3, <1>4, NextSteps

\* The numbers of one answer agree to within the writes committed while it was
\* put together, and exactly if there were none.
THEOREM NumbersAgree == Spec => []ReportsAgree
  <1>1. Init => Summed
    <2> SUFFICES ASSUME Init PROVE Summed
      OBVIOUS
    <2>1. RowsRight
      BY DEF Init, RowsRight, Tickets
    <2>2. \A c \in Calls : req[c].op \notin ReportOps
      BY DEF Init, NoRequest, ReportOps
    <2> QED
      BY <2>1, <2>2 DEF Summed
  <1>2. IInv /\ Summed => ReportsAgree
    <2> SUFFICES ASSUME IInv, Summed, NEW c \in Calls, pc[c] = "ok"
                 PROVE  LET g == got[c] IN
                        /\ req[c].op = "dashboard" => /\ Near(Cardinality(ByType(g.rows)), g.byType, c)
                                                      /\ Cardinality(g.rows) <= g.registered + missed[c]
                        /\ req[c].op = "statistics" => /\ Near(g.valid, g.distinct, c)
                                                       /\ missed[c] = 0 => (g.events = 1 <=> g.valid > 0)
                        /\ req[c].op \in {"attendees", "tickets"}
                             => Near(g.page, Listed(g.registered, req[c].page), c)
      BY DEF ReportsAgree, Told, Listed
    <2>1. ASSUME req[c].op \in ReportOps PROVE DOMAIN got[c] = Whole(req[c].op) /\ Agreed(c)
      BY <2>1 DEF Summed, Consistent, Read
    <2>2. CASE req[c].op = "dashboard"
      <3>1. {"rows", "byType", "registered"} \subseteq DOMAIN got[c]
        BY <2>1, <2>2 DEF ReportOps, Whole, Reports, Report, GetDashboardStats
      <3> QED
        BY <2>1, <2>2, <3>1 DEF ReportOps, Agreed
    <2>3. CASE req[c].op = "statistics"
      <3>1. {"valid", "distinct", "events"} \subseteq DOMAIN got[c]
        BY <2>1, <2>3 DEF ReportOps, Whole, Reports, Report, GetCheckinStatistics
      <3> QED
        BY <2>1, <2>3, <3>1 DEF ReportOps, Agreed
    <2>4. CASE req[c].op \in {"attendees", "tickets"}
      <3>1. {"page", "registered"} \subseteq DOMAIN got[c]
        BY <2>1, <2>4 DEF ReportOps, Whole, Reports, Report, ListEventAttendees, ListRegistrationsByEvent
      <3> QED
        BY <2>1, <2>4, <3>1 DEF ReportOps, Agreed
    <2> QED
      BY <2>2, <2>3, <2>4
  <1> QED
    BY <1>1, <1>2, Invariant, InitHolds, NextKeeps, SummedKeeps, PTL DEF Spec

-----------------------------------------------------------------------------
(* The CSV stream                                                          *)

Stamped == stamp \in [Tickets -> Nat]
\* r may be at place i of the order of the times.
InPlace(r, i) == Before(r) < i /\ i <= Upto(r)
\* Who was registered when the stream began is in it, or has a time that somebody
\* shares, or comes after the rows read; a stream that no write has met has every
\* row at a place of its own.
Exported(c) ==
  \E csv, present :
      /\ csv = got[c].csv /\ present = saw[c].present
      /\ csv \in Seq(regs) /\ present \subseteq regs
      /\ \A p \in present : p \in ToSet(csv) \/ Shared(p) \/ (pc[c] = "batch" /\ Before(p) >= Len(csv))
      /\ pc[c] = "ok" => Len(csv) >= Cardinality(present)
      /\ missed[c] = 0 /\ pc[c] = "batch" =>
           /\ present = regs /\ Len(csv) <= Cardinality(regs)
           /\ \A i \in 1 .. Len(csv) : InPlace(csv[i], i)
      /\ missed[c] = 0 /\ pc[c] = "ok" =>
           /\ Len(csv) = Cardinality(present)
           /\ \A i, j \in 1 .. Len(csv) : csv[i] = csv[j] => i = j \/ Shared(csv[i])
Streams ==
  \A c \in Calls : req[c].op = "stream" =>
    /\ got[c] # <<>> => pc[c] \in {"batch", "ok"} /\ Exported(c)
    /\ pc[c] = "ok" => got[c] # <<>>

\* A registration gets its time before anybody sees it.
Timed(c) ==
  stamp' = stamp \/ (pc[c] = "start" /\ \E time \in Nat : stamp' = [stamp EXCEPT ![c] = time])

LEMMA StepTimes == ASSUME NEW c \in Calls, Control, Step(c) PROVE Timed(c)
  <1>1. CASE GateStep(c)
    BY <1>1 DEF GateStep, ReadEvent, ReadAssignment, RemoveStaff, DeleteEvent, Join, Leave, Skip, data, Timed
  <1>2. CASE ScanStep(c)
    BY <1>2 DEF ScanStep, ReadToken, ResolveCheckIn, CommitCheckIn, CountCheckedIn, CountFails,
                EmitCheckinUpdate, UndoCheckin, Skip, data, Timed
  <1>3. CASE PassStep(c)
    BY <1>3 DEF PassStep, GetTicketDetails, ListMyTickets, RecoverRawToken, ReloadToken, Skip, data, Timed
  <1>4. CASE ReportStep(c)
    BY <1>4 DEF ReportStep, CheckEventOwnership, Query, ReadBatch, Skip, data, Timed
  <1>5. CASE IssueStep(c)
    BY <1>5, FirstTicketsAreTickets
       DEF IssueStep, Insert, Register, GenerateToken, ProcessImportFile, SendQrIssuedEmail, data, Timed
  <1> QED
    BY <1>1, <1>2, <1>3, <1>4, <1>5 DEF Step

LEMMA StampedKeeps ==
  ASSUME NEW c \in Calls, IInv, Stamped, Timed(c) PROVE Stamped' /\ \A r \in regs : stamp'[r] = stamp[r]
  <1>1. CASE stamp' = stamp
    BY <1>1 DEF Stamped
  <1>2. CASE pc[c] = "start" /\ \E time \in Nat : stamp' = [stamp EXCEPT ![c] = time]
    <2>1. c \in Tickets /\ c \notin regs /\ regs \subseteq Tickets
      BY <1>2 DEF Tickets, IInv, PassesRight, PassesThere, DataTyped
    <2> QED
      BY <1>2, <2>1 DEF Stamped
  <1> QED
    BY <1>1, <1>2 DEF Timed

\* Different times have places apart, and a time of one's own has one place.
LEMMA Places ==
  ASSUME IInv, Stamped
  PROVE  /\ IsFiniteSet(regs) /\ Cardinality(regs) \in Nat
         /\ \A r \in regs : /\ Before(r) \in Nat /\ Upto(r) \in Nat /\ Upto(r) <= Cardinality(regs)
                            /\ ~Shared(r) => Upto(r) = Before(r) + 1
         /\ \A r, s \in regs : stamp[r] < stamp[s] => Upto(r) <= Before(s)
  <1> DEFINE B(r) == {s \in regs : stamp[s] < stamp[r]}
             U(r) == {s \in regs : stamp[s] <= stamp[r]}
  <1>1. /\ IsFiniteSet(regs) /\ Cardinality(regs) \in Nat /\ \A r \in regs : stamp[r] \in Nat
    BY TicketsFinite, FS_Subset, FS_CardinalityType DEF IInv, DataTyped, Stamped
  <1>2. \A S \in SUBSET regs :
          IsFiniteSet(S) /\ Cardinality(S) \in Nat /\ \A T \in SUBSET S : Cardinality(T) <= Cardinality(S)
    BY <1>1, FS_Subset, FS_CardinalityType
  <1>3. \A r \in regs : B(r) \in SUBSET regs /\ U(r) \in SUBSET regs
                        /\ Before(r) = Cardinality(B(r)) /\ Upto(r) = Cardinality(U(r))
    BY DEF Before, Upto
  <1>4. ASSUME NEW r \in regs, ~Shared(r) PROVE Upto(r) = Before(r) + 1
    <2>1. U(r) = B(r) \cup {r} /\ r \notin B(r)
      BY <1>1, <1>4 DEF Shared
    <2>2. B(r) \in SUBSET regs /\ Before(r) = Cardinality(B(r)) /\ Upto(r) = Cardinality(U(r))
      BY <1>3
    <2> HIDE DEF B, U
    <2> QED
      BY <1>2, <2>1, <2>2, FS_AddElement
  <1>5. ASSUME NEW r \in regs, NEW s \in regs, stamp[r] < stamp[s] PROVE Upto(r) <= Before(s)
    <2>1. U(r) \in SUBSET B(s)
      BY <1>1, <1>5
    <2>2. B(s) \in SUBSET regs /\ Before(s) = Cardinality(B(s)) /\ Upto(r) = Cardinality(U(r))
      BY <1>3
    <2> HIDE DEF B, U
    <2> QED
      BY <1>2, <2>1, <2>2
  <1>6. ASSUME NEW r \in regs PROVE Before(r) \in Nat /\ Upto(r) \in Nat /\ Upto(r) <= Cardinality(regs)
    <2> HIDE DEF B, U
    <2> QED
      BY <1>2, <1>3
  <1> QED
    BY <1>1, <1>4, <1>5, <1>6

\* Nobody's place goes down, and shared times stay shared.
LEMMA PlacesGrow ==
  ASSUME IInv, IInv', Stamped, Stamped', regs \subseteq regs', \A r \in regs : stamp'[r] = stamp[r],
         NEW p \in regs
  PROVE  /\ Before(p) \in Nat /\ Before(p)' \in Nat /\ Before(p) <= Before(p)'
         /\ Shared(p) => Shared(p)'
         /\ regs' = regs => Before(p)' = Before(p) /\ Upto(p)' = Upto(p)
  <1> DEFINE A == {s \in regs : stamp[s] < stamp[p]}
             B == {s \in regs' : stamp'[s] < stamp'[p]}
  <1>1. A \subseteq B
    OBVIOUS
  <1>2. IsFiniteSet(B)
    <2>1. IsFiniteSet(regs')
      BY TicketsFinite, FS_Subset DEF IInv, DataTyped
    <2> QED
      BY <2>1, FS_Subset
  <1>3. Before(p) = Cardinality(A) /\ Before(p)' = Cardinality(B)
    BY DEF Before
  <1>4. regs' = regs => Before(p)' = Before(p) /\ Upto(p)' = Upto(p)
    <2> SUFFICES ASSUME regs' = regs PROVE Before(p)' = Before(p) /\ Upto(p)' = Upto(p)
      OBVIOUS
    <2>1. {s \in regs' : stamp'[s] <= stamp'[p]} = {s \in regs : stamp[s] <= stamp[p]} /\ B = A
      OBVIOUS
    <2> QED
      BY <1>3, <2>1 DEF Upto
  <1>5. Shared(p) => Shared(p)'
    BY DEF Shared
  <1> HIDE DEF A, B
  <1> QED
    BY <1>1, <1>2, <1>3, <1>4, <1>5, FS_Subset, FS_CardinalityType

\* A page: as many rows as are left, each of them at one of its places.
LEMMA BatchRows ==
  ASSUME IInv, Stamped, NEW pushed \in Seq(regs), NEW rows \in Pages(Len(pushed), BATCH_SIZE)
  PROVE  LET n == Cardinality(regs)
             k == Len(pushed)
             csv == pushed \o rows
             l == Len(csv)
         IN  /\ csv \in Seq(regs) /\ n \in Nat /\ k \in Nat /\ l \in Nat /\ k <= l
             /\ k <= n => l <= n
             /\ Len(rows) = BATCH_SIZE \/ n <= l
             /\ \A i \in 1 .. k : csv[i] = pushed[i]
             /\ \A i \in k + 1 .. l : csv[i] \in regs /\ InPlace(csv[i], i)
  <1> DEFINE n == Cardinality(regs)
             k == Len(pushed)
             t == Taken(k, BATCH_SIZE)
             csv == pushed \o rows
  <1>1. n \in Nat /\ k \in Nat /\ BATCH_SIZE \in Nat \ {0}
    BY Places, SizesArePositive
  <1>2. t = IF BATCH_SIZE <= n - k THEN BATCH_SIZE ELSE IF n - k >= 0 THEN n - k ELSE 0
    <2>1. n - k \in Int /\ BATCH_SIZE \in Int
      BY <1>1
    <2>2. Min({BATCH_SIZE, n - k}) = IF BATCH_SIZE <= n - k THEN BATCH_SIZE ELSE n - k
      BY <2>1, MinMax
    <2>3. PICK m \in Int : m = Min({BATCH_SIZE, n - k})
      BY <2>1, <2>2
    <2>4. Max({0, m}) = IF 0 >= m THEN 0 ELSE m
      <3>1. \A b \in Int : Max({0, b}) = IF 0 >= b THEN 0 ELSE b
        BY MinMax, 0 \in Int
      <3> QED
        BY <2>3, <3>1
    <2>5. t = Max({0, m})
      BY <2>3 DEF Taken
    <2> HIDE DEF n, k, t
    <2> QED
      BY <1>1, <2>2, <2>3, <2>4, <2>5
  <1>3. rows \in [1 .. t -> regs] /\ \A i \in 1 .. t : InPlace(rows[i], k + i)
    BY DEF Pages, Injection, InPlace
  <1> HIDE DEF n, k, t
  <1>4. t \in Nat
    BY <1>1, <1>2
  <1>5. rows \in Seq(regs) /\ Len(rows) = t
    BY <1>3, <1>4
  <1>6. csv \in Seq(regs) /\ Len(csv) = k + t /\ \A i \in 1 .. k + t : csv[i] = IF i <= k THEN pushed[i] ELSE rows[i - k]
    BY <1>5 DEF k
  <1> HIDE DEF csv
  <1>7. \A i \in 1 .. k : csv[i] = pushed[i]
    BY <1>1, <1>4, <1>6
  <1>8. ASSUME NEW i \in k + 1 .. k + t PROVE csv[i] \in regs /\ InPlace(csv[i], i)
    <2>1. i \in 1 .. k + t /\ ~(i <= k) /\ i - k \in 1 .. t /\ k + (i - k) = i
      BY <1>1, <1>4
    <2> QED
      BY <1>3, <1>6, <2>1
  <1>9. (k <= n => k + t <= n) /\ (t = BATCH_SIZE \/ n <= k + t) /\ k + t \in Nat /\ k <= k + t
    BY <1>1, <1>2, <1>4
  <1> QED
    BY <1>1, <1>5, <1>6, <1>7, <1>8, <1>9 DEF n, k, csv

\* What a step has to show of the stream of c, in terms of the rows it has then
LEMMA Exports ==
  ASSUME NEW c \in Calls, NEW csv, NEW present, got'[c].csv = csv, saw'[c].present = present,
         csv \in Seq(regs') /\ present \subseteq regs',
         \A p \in present : p \in ToSet(csv) \/ Shared(p)' \/ (pc'[c] = "batch" /\ Before(p)' >= Len(csv)),
         pc'[c] = "ok" => Len(csv) >= Cardinality(present),
         missed'[c] = 0 /\ pc'[c] = "batch" =>
           /\ present = regs' /\ Len(csv) <= Cardinality(regs')
           /\ \A i \in 1 .. Len(csv) : InPlace(csv[i], i)',
         missed'[c] = 0 /\ pc'[c] = "ok" =>
           /\ Len(csv) = Cardinality(present)
           /\ \A i, j \in 1 .. Len(csv) : csv[i] = csv[j] => i = j \/ Shared(csv[i])'
  PROVE  Exported(c)'
  BY DEF Exported

LEMMA BatchExports ==
  ASSUME NEW c \in Calls, IInv, Stamped, Streams, ReadBatch(c)
  PROVE  got'[c] # <<>> /\ pc'[c] \in {"batch", "ok"} /\ Exported(c)'
  <1> DEFINE pushed == IF got[c] = <<>> THEN <<>> ELSE got[c].csv
             k == Len(pushed)
             n == Cardinality(regs)
             held == IF got[c] = <<>> THEN regs ELSE saw[c].present
  <1>1. PICK rows \in Pages(k, BATCH_SIZE) :
          /\ pc[c] = "batch" /\ req[c].op = "stream" /\ got'[c] = [csv |-> pushed \o rows]
          /\ saw'[c].present = held /\ UNCHANGED <<missed, regs, stamp>>
          /\ pc'[c] = IF HasMore(rows) THEN "batch" ELSE "ok"
    BY DEF ReadBatch, At, Goto, data, IInv, Control, CallsTyped
  <1>0. PICK csv, present : csv = pushed \o rows /\ present = held
    OBVIOUS
  <1> DEFINE l == Len(csv)
  <1>2. /\ pushed \in Seq(regs) /\ present \subseteq regs
        /\ \A p \in present : p \in ToSet(pushed) \/ Shared(p) \/ Before(p) >= k
        /\ missed[c] = 0 => present = regs /\ k <= n /\ \A i \in 1 .. k : InPlace(pushed[i], i)
    <2>1. CASE got[c] = <<>>
      <3>1. pushed = <<>> /\ k = 0 /\ present = regs
        BY <1>0, <2>1
      <3>2. n >= 0 /\ \A r \in regs : Before(r) >= 0
        BY Places
      <3> HIDE DEF k, pushed, n
      <3> QED
        BY <3>1, <3>2
    <2>2. CASE got[c] # <<>>
      BY <1>0, <1>1, <2>2 DEF Streams, Exported
    <2> QED
      BY <2>1, <2>2
  <1>3. /\ csv \in Seq(regs) /\ n \in Nat /\ k \in Nat /\ l \in Nat /\ k <= l
        /\ k <= n => l <= n
        /\ Len(rows) = BATCH_SIZE \/ n <= l
        /\ \A i \in 1 .. k : csv[i] = pushed[i]
        /\ \A i \in k + 1 .. l : csv[i] \in regs /\ InPlace(csv[i], i)
    <2> HIDE DEF pushed
    <2> QED
      BY <1>0, <1>1, <1>2, BatchRows
  <1>4. DOMAIN pushed = 1 .. k /\ DOMAIN csv = 1 .. l
    BY <1>2, <1>3
  <1> HIDE DEF pushed, k, n, held, l
  <1>5. pc'[c] = "batch" \/ (pc'[c] = "ok" /\ n <= l)
    BY <1>1, <1>3 DEF HasMore
  <1>6. ASSUME NEW p \in present, p \notin ToSet(csv), ~Shared(p) PROVE pc'[c] = "batch" /\ Before(p) >= l
    <2>1. p \in regs /\ p \notin ToSet(pushed)
      BY <1>2, <1>3, <1>4, <1>6 DEF ToSet
    <2>2. Before(p) >= k /\ Before(p) \in Nat /\ Upto(p) = Before(p) + 1 /\ Upto(p) <= n
      BY <1>2, <1>6, <2>1, Places DEF n
    <2>3. ASSUME Before(p) < l PROVE FALSE
      <3> DEFINE i == Before(p) + 1
      <3>1. i \in k + 1 .. l /\ i \in 1 .. l
        BY <1>3, <2>2, <2>3
      <3>2. PICK r \in regs : r = csv[i] /\ Before(r) < i /\ i <= Upto(r)
        BY <1>3, <3>1 DEF InPlace
      <3>3. r # p
        BY <1>4, <1>6, <3>1, <3>2 DEF ToSet
      <3>4. Before(r) \in Nat /\ Upto(r) \in Nat /\ stamp[r] \in Nat /\ stamp[p] \in Nat
        BY <2>1, Places DEF Stamped, IInv, DataTyped
      <3>5. ~(stamp[r] < stamp[p])
        <4>1. stamp[r] < stamp[p] => Upto(r) <= Before(p)
          BY <2>1, Places
        <4> QED
          BY <2>2, <3>2, <3>4, <4>1
      <3>6. ~(stamp[p] < stamp[r])
        <4>1. stamp[p] < stamp[r] => Upto(p) <= Before(r)
          BY <2>1, Places
        <4> QED
          BY <2>2, <3>2, <3>4, <4>1
      <3> QED
        BY <1>6, <3>3, <3>4, <3>5, <3>6 DEF Shared
    <2> QED
      BY <1>3, <1>5, <2>2, <2>3
  <1>7. ASSUME missed[c] = 0, NEW i \in 1 .. l PROVE InPlace(csv[i], i) /\ csv[i] \in regs
    <2>1. CASE i \in k + 1 .. l
      BY <1>3, <2>1
    <2>2. CASE i \in 1 .. k
      BY <1>2, <1>3, <1>4, <1>7, <2>2
    <2> QED
      BY <1>3, <2>1, <2>2
  <1>8. ASSUME missed[c] = 0, NEW i \in 1 .. l, NEW j \in 1 .. l, csv[i] = csv[j], ~Shared(csv[i]) PROVE i = j
    <2>1. PICK r \in regs : r = csv[i] /\ Before(r) < i /\ i <= Upto(r) /\ Before(r) < j /\ j <= Upto(r)
      BY <1>7, <1>8 DEF InPlace
    <2>2. Before(r) \in Nat /\ Upto(r) = Before(r) + 1
      BY <1>8, <2>1, Places
    <2> QED
      BY <2>1, <2>2
  <1>9. Cardinality(present) \in Nat /\ Cardinality(present) <= n
    BY <1>2, Places, FS_Subset, FS_CardinalityType DEF n
  <1>10. \A r, i : Before(r)' = Before(r) /\ Shared(r)' = Shared(r) /\ InPlace(r, i)' = InPlace(r, i)
    BY <1>1 DEF Before, Upto, InPlace, Shared
  <1>11. got'[c].csv = csv /\ got'[c] # <<>> /\ saw'[c].present = present
    <2>1. "csv" \in DOMAIN got'[c]
      BY <1>1
    <2> QED
      BY <1>0, <1>1, <2>1
  <1>12. /\ pc'[c] = "ok" => l >= Cardinality(present)
         /\ missed[c] = 0 => present = regs /\ l <= n
    BY <1>2, <1>3, <1>5, <1>9
  <1>13. missed[c] = 0 /\ pc'[c] = "ok" => l = Cardinality(present)
    BY <1>3, <1>5, <1>12 DEF n
  <1>14. n = Cardinality(regs) /\ l = Len(csv)
    BY DEF n, l
  <1> QED
    <2>1. got'[c] # <<>> /\ pc'[c] \in {"batch", "ok"}
      BY <1>5, <1>11
    <2>2. csv \in Seq(regs') /\ present \subseteq regs' /\ missed' = missed /\ regs' = regs
      BY <1>1, <1>2, <1>3
    <2>3. \A p \in present : p \in ToSet(csv) \/ Shared(p)' \/ (pc'[c] = "batch" /\ Before(p)' >= Len(csv))
      BY <1>6, <1>10, <1>14
    <2>4. missed'[c] = 0 => \A i \in 1 .. Len(csv) : InPlace(csv[i], i)'
      BY <1>7, <1>10, <1>14, <2>2
    <2>5. missed'[c] = 0 => \A i, j \in 1 .. Len(csv) : csv[i] = csv[j] => i = j \/ Shared(csv[i])'
      BY <1>8, <1>10, <1>14, <2>2
    <2>6. pc'[c] = "ok" => Len(csv) >= Cardinality(present)
      BY <1>12, <1>14
    <2>7. missed'[c] = 0 /\ pc'[c] = "batch" => present = regs' /\ Len(csv) <= Cardinality(regs')
      BY <1>12, <1>14, <2>2
    <2>8. missed'[c] = 0 /\ pc'[c] = "ok" => Len(csv) = Cardinality(present)
      BY <1>13, <1>14, <2>2
    <2> QED
      BY <1>11, <2>1, <2>2, <2>3, <2>4, <2>5, <2>6, <2>7, <2>8, Exports

LEMMA SameExport ==
  ASSUME NEW d \in Calls, UNCHANGED <<missed, regs, stamp>>,
         got'[d] = got[d], saw'[d] = saw[d], pc'[d] = pc[d], Exported(d)
  PROVE  Exported(d)'
  <1>1. PICK csv, present : csv = got[d].csv /\ present = saw[d].present
    OBVIOUS
  <1>2. got'[d].csv = csv /\ saw'[d].present = present
    BY <1>1
  <1>3. \A r, i : Before(r)' = Before(r) /\ Shared(r)' = Shared(r) /\ InPlace(r, i)' = InPlace(r, i)
    BY DEF Before, Upto, InPlace, Shared
  <1>4. csv \in Seq(regs') /\ present \subseteq regs' /\ missed' = missed /\ regs' = regs
    BY <1>1 DEF Exported
  <1>5. \A p \in present : p \in ToSet(csv) \/ Shared(p)' \/ (pc'[d] = "batch" /\ Before(p)' >= Len(csv))
    BY <1>1, <1>3 DEF Exported
  <1>6. pc'[d] = "ok" => Len(csv) >= Cardinality(present)
    BY <1>1 DEF Exported
  <1>7. missed'[d] = 0 /\ pc'[d] = "batch" =>
          /\ present = regs' /\ Len(csv) <= Cardinality(regs')
          /\ \A i \in 1 .. Len(csv) : InPlace(csv[i], i)'
    BY <1>1, <1>3, <1>4 DEF Exported
  <1>8. missed'[d] = 0 /\ pc'[d] = "ok" =>
          /\ Len(csv) = Cardinality(present)
          /\ \A i, j \in 1 .. Len(csv) : csv[i] = csv[j] => i = j \/ Shared(csv[i])'
    BY <1>1, <1>3, <1>4 DEF Exported
  <1> QED
    BY <1>2, <1>4, <1>5, <1>6, <1>7, <1>8, Exports

Booked == Summed /\ Stamped /\ Streams

\* Between two batches, registrations only push others up.
LEMMA OtherStreams ==
  ASSUME NEW c \in Calls, NEW d \in Calls, IInv, IInv', Booked, Stamped', Drifts(c),
         \A r \in regs : stamp'[r] = stamp[r], Exported(d), pc[d] \in {"batch", "ok"},
         pc'[d] = pc[d], got'[d] = got[d], saw'[d] = saw[d]
  PROVE  Exported(d)'
  <1>0. PICK csv, present : csv = got[d].csv /\ present = saw[d].present
    OBVIOUS
  <1>1. regs \subseteq regs' /\ csv \in Seq(regs) /\ Len(csv) \in Nat /\ present \subseteq regs
    BY <1>0 DEF Drifts, Exported
  <1>2. \A p \in regs : /\ Before(p) \in Nat /\ Before(p)' \in Nat /\ Before(p) <= Before(p)'
                        /\ Shared(p) => Shared(p)'
                        /\ regs' = regs => Before(p)' = Before(p) /\ Upto(p)' = Upto(p)
    BY <1>1, PlacesGrow DEF Booked
  <1>3. missed'[d] = 0 => missed[d] = 0 /\ (pc[d] = "batch" => regs' = regs)
    <2>1. missed[d] \in Nat
      BY DEF IInv, Control, CallsTyped
    <2> QED
      BY <2>1 DEF Drifts, Committed, Finished, Answers
  <1>4. \A p \in present : p \in ToSet(csv) \/ Shared(p)' \/ (pc[d] = "batch" /\ Before(p)' >= Len(csv))
    <2> SUFFICES ASSUME NEW p \in present, p \notin ToSet(csv), ~Shared(p)'
                 PROVE  pc[d] = "batch" /\ Before(p)' >= Len(csv)
      OBVIOUS
    <2>1. p \in regs /\ ~Shared(p)
      BY <1>1, <1>2
    <2>2. pc[d] = "batch" /\ Before(p) >= Len(csv)
      BY <1>0, <2>1 DEF Exported
    <2> QED
      BY <1>1, <1>2, <2>1, <2>2
  <1>5. ASSUME missed'[d] = 0, pc[d] = "batch"
        PROVE  /\ present = regs' /\ Len(csv) <= Cardinality(regs')
               /\ \A i \in 1 .. Len(csv) : InPlace(csv[i], i)'
    <2>1. regs' = regs /\ present = regs /\ Len(csv) <= Cardinality(regs)
      BY <1>0, <1>3, <1>5 DEF Exported
    <2>2. ASSUME NEW i \in 1 .. Len(csv) PROVE InPlace(csv[i], i)'
      <3>1. InPlace(csv[i], i)
        BY <1>0, <1>3, <1>5 DEF Exported
      <3>2. PICK r \in regs : r = csv[i]
        BY <1>1
      <3>3. Before(r)' = Before(r) /\ Upto(r)' = Upto(r)
        BY <1>2, <2>1
      <3>4. InPlace(csv[i], i)' <=> InPlace(r, i)'
        BY <3>2 DEF InPlace, Before, Upto
      <3> QED
        BY <3>1, <3>2, <3>3, <3>4 DEF InPlace
    <2> QED
      BY <2>1, <2>2
  <1>6. ASSUME missed'[d] = 0, pc[d] = "ok", NEW i \in 1 .. Len(csv), NEW j \in 1 .. Len(csv), csv[i] = csv[j]
        PROVE  i = j \/ Shared(csv[i])'
    <2>1. i = j \/ Shared(csv[i])
      BY <1>0, <1>3, <1>6 DEF Exported
    <2>2. PICK r \in regs : r = csv[i]
      BY <1>1
    <2>3. Shared(csv[i])' <=> Shared(r)'
      BY <2>2 DEF Shared
    <2> QED
      BY <1>2, <2>1, <2>2, <2>3
  <1>7. /\ pc[d] = "ok" => Len(csv) >= Cardinality(present)
        /\ missed'[d] = 0 /\ pc[d] = "ok" => Len(csv) = Cardinality(present)
    BY <1>0, <1>3 DEF Exported
  <1>8. csv \in Seq(regs') /\ present \subseteq regs'
    BY <1>1
  <1> QED
    <2>1. got'[d].csv = csv /\ saw'[d].present = present /\ pc'[d] = pc[d]
      BY <1>0
    <2> QED
      BY <1>4, <1>5, <1>6, <1>7, <1>8, <2>1, Exports

LEMMA StreamsKeep ==
  ASSUME NEW c \in Calls, NEW label, IInv, IInv', Booked, Stamped', Step(c), Goes(c, label), Drifts(c),
         \A r \in regs : stamp'[r] = stamp[r]
  PROVE  Streams'
  <1> SUFFICES ASSUME NEW d \in Calls, req'[d].op = "stream"
               PROVE  /\ got'[d] # <<>> => pc'[d] \in {"batch", "ok"} /\ Exported(d)'
                      /\ pc'[d] = "ok" => got'[d] # <<>>
    BY DEF Streams
  <1>1. /\ req[d].op = "stream" /\ pc \in [Calls -> Labels] /\ pc' = [pc EXCEPT ![c] = label] /\ Streams
        /\ \A e \in Calls \ {c} : got'[e] = got[e] /\ saw'[e] = saw[e]
    BY DEF Goes, IInv, Control, CallsTyped, Booked
  <1>2. CASE d # c
    <2>1. pc'[d] = pc[d] /\ got'[d] = got[d] /\ saw'[d] = saw[d]
      BY <1>1, <1>2
    <2> QED
      BY <1>1, <2>1, OtherStreams DEF Streams
  <1>3. CASE d = c /\ ReadBatch(c)
    BY <1>1, <1>3, BatchExports DEF Booked
  <1>4. CASE d = c /\ ~ReadBatch(c)
    <2>1. CheckEventOwnership(c)
      <3>1. ~GateStep(c)
        BY <1>1, <1>4 DEF GateStep, ReadEvent, ReadAssignment, RemoveStaff, DeleteEvent, Join, Leave, At,
                    GatedOps, IInv, Control, Placed, Belongs
      <3>2. ~PassStep(c)
        BY <1>1, <1>4 DEF PassStep, GetTicketDetails, ListMyTickets, RecoverRawToken, ReloadToken, At,
                    IInv, Control, Placed, Belongs
      <3>3. ~ScanStep(c)
        BY <1>1, <1>4 DEF ScanStep, ReadToken, ResolveCheckIn, CommitCheckIn, CountCheckedIn,
                          CountFails, EmitCheckinUpdate, UndoCheckin, At
      <3>4. ~Query(c)
        BY <1>1, <1>4 DEF Query, IInv, Control, Placed, Belongs, ReportOps
      <3>5. ~IssueStep(c)
        BY <1>1, <1>4, Issuers DEF IInv
      <3> QED
        BY <1>4, <3>1, <3>2, <3>3, <3>4, <3>5 DEF Step, ReportStep
    <2>2. got[c] = <<>> /\ got' = got
      BY <2>1 DEF CheckEventOwnership, Skip, IInv, Control, Placed
    <2>3. pc'[c] # "ok"
      BY <1>1, <2>1 DEF CheckEventOwnership, Skip, Goto
    <2> QED
      BY <1>4, <2>2, <2>3
  <1> QED
    BY <1>2, <1>3, <1>4

LEMMA BookedKeeps == ASSUME IInv, Booked, [Next]_vars PROVE Booked'
  <1>1. IInv' /\ Summed'
    BY NextKeeps, SummedKeeps DEF Booked
  <1>2. CASE UNCHANGED vars
    <2>1. UNCHANGED <<pc, req, missed, got, saw, regs, stamp>>
      BY <1>2 DEF vars, call, data
    <2>2. Stamped'
      BY <2>1 DEF Booked, Stamped
    <2>3. Streams'
      <3> SUFFICES ASSUME NEW d \in Calls, req'[d].op = "stream"
                   PROVE  /\ got'[d] # <<>> => pc'[d] \in {"batch", "ok"} /\ Exported(d)'
                          /\ pc'[d] = "ok" => got'[d] # <<>>
        BY DEF Streams
      <3> QED
        BY <2>1, SameExport DEF Booked, Streams
    <2> QED
      BY <1>1, <2>2, <2>3 DEF Booked
  <1>3. ASSUME NEW c \in Calls, Begin(c) PROVE Booked'
    <2>1. /\ pc[c] = "new" /\ pc'[c] = "start" /\ got[c] = <<>>
          /\ \A d \in Calls \ {c} : req'[d] = req[d] /\ pc'[d] = pc[d]
          /\ UNCHANGED <<got, saw, missed, regs, stamp>>
      BY <1>3 DEF Begin, data, IInv, Control, CallsTyped, Placed
    <2>2. Stamped'
      BY <2>1 DEF Booked, Stamped
    <2>3. ASSUME NEW d \in Calls, req'[d].op = "stream"
          PROVE  /\ got'[d] # <<>> => pc'[d] \in {"batch", "ok"} /\ Exported(d)'
                 /\ pc'[d] = "ok" => got'[d] # <<>>
      <3>1. CASE d = c
        BY <2>1, <3>1
      <3>2. CASE d # c
        BY <2>1, <2>3, <3>2, SameExport DEF Booked, Streams
      <3> QED
        BY <3>1, <3>2
    <2> QED
      BY <1>1, <2>2, <2>3 DEF Booked, Streams
  <1>4. ASSUME NEW c \in Calls, Step(c) PROVE Booked'
    <2>1. PICK label : Goes(c, label)
      BY <1>4, StepGoes DEF IInv
    <2>2. Passage(c) /\ Drifts(c) /\ Timed(c)
      BY <1>4, <2>1, StepPassage, StepDrifts, StepTimes DEF Booked, Summed, IInv
    <2>3. Stamped' /\ \A r \in regs : stamp'[r] = stamp[r]
      BY <2>2, StampedKeeps DEF Booked
    <2>4. Streams'
      BY <1>1, <1>4, <2>1, <2>2, <2>3, StreamsKeep
    <2> QED
      BY <1>1, <2>3, <2>4 DEF Booked
  <1> QED
    BY <1>2, <1>3, <1>4, NextSteps

\* The CSV stream has a row for everybody who was registered when it began, and
\* no more if nobody registered meanwhile; it leaves out, and has twice, only who
\* shares the time of registration with another.
THEOREM NobodyIsLost == Spec => []ExportLosesNobody
  <1>1. Init => Booked
    <2> SUFFICES ASSUME Init PROVE Booked
      OBVIOUS
    <2>1. RowsRight
      BY DEF Init, RowsRight, Tickets
    <2>2. \A c \in Calls : req[c].op \notin ReportOps \cup {"stream"}
      BY DEF Init, NoRequest, ReportOps
    <2>3. Stamped
      BY FirstTicketsAreTickets DEF Init, Stamped, Tickets
    <2> QED
      BY <2>1, <2>2, <2>3 DEF Booked, Summed, Streams
  <1>2. Booked => ExportLosesNobody
    <2> SUFFICES ASSUME Booked, NEW c \in Calls, Told(c, "stream")
                 PROVE  LET csv == got[c].csv
                            present == saw[c].present
                        IN  /\ \A p \in present : p \in ToSet(csv) \/ Shared(p)
                            /\ Len(csv) >= Cardinality(present)
                            /\ missed[c] = 0 =>
                                 /\ Len(csv) = Cardinality(present)
                                 /\ \A i, j \in DOMAIN csv : csv[i] = csv[j] => i = j \/ Shared(csv[i])
      BY DEF ExportLosesNobody
    <2>1. Exported(c) /\ pc[c] = "ok"
      BY DEF Told, Booked, Streams
    <2>2. DOMAIN got[c].csv = 1 .. Len(got[c].csv)
      BY <2>1 DEF Exported
    <2> QED
      BY <2>1, <2>2 DEF Exported
  <1> QED
    BY <1>1, <1>2, Invariant, InitHolds, NextKeeps, BookedKeeps, PTL DEF Spec
=============================================================================
