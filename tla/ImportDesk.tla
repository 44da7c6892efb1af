----------------------------- MODULE ImportDesk -----------------------------
(***************************************************************************)
(* An attendee import as its caller sees it: the upload on disk, the       *)
(* parsed file, the batch row, the attendees' mails and the answer.  The   *)
(* transactions in the middle, which Registration has in detail, are one   *)
(* step here that registers any of the rows it may.                        *)
(***************************************************************************)
EXTENDS ImportFile, Notifications

CONSTANTS
  Uploads,        \* the calls of importAttendeesController
  Files,          \* what may be uploaded
  Registered      \* the addresses that are registered already

\* What a library finds in a file; one table in a CSV.
ASSUME FilesAreFiles ==
  \A f \in Files : f.ext \in FORMAT_MAP =>
    /\ f.tables \in Seq(Seq(Seq(STRING)))
    /\ f.lines \in Seq(Seq(STRING))
    /\ f.ext = "csv" /\ f.readable => Len(f.tables) = 1

\* A notification for every attendee of an upload, and one for its summary.
ASSUME NotesAreThere == Uploads \X (0 .. MAX_IMPORT_ROWS) \subseteq Notes

VARIABLES
  step,           \* of each upload
  file,
  parsed,         \* what parseFile makes of it, a function of the file alone
  disk,           \* the uploads whose temporary file exists
  open,           \* the event has not been deleted
  batch,          \* the import_batches row of each upload
  created,        \* the rows of its file that its batches count as registered
  hit             \* the uploads that a read or write was rejected of

deskVars == <<step, file, parsed, disk, open, batch, created, hit>>
vars == <<deskVars, mailVars>>

Note(u, k) == <<u, k>>      \* of attendee k, of the summary if k = 0
NoFile == [ext |-> "none"]
NoBatch == [status |-> "none"]

Init ==
  /\ MailInit
  /\ step = [u \in Uploads |-> "upload"]
  /\ file = [u \in Uploads |-> NoFile]
  /\ parsed = [u \in Uploads |-> Found(<<>>, <<>>)]
  /\ disk = {} /\ hit = {} /\ open = TRUE
  /\ batch = [u \in Uploads |-> NoBatch]
  /\ created = [u \in Uploads |-> {}]

Goto(u, s) == step' = [step EXCEPT ![u] = s]

\* fileFilter refuses other extensions; multer stores the file.
UploadAttendees(u) ==
  /\ step[u] = "upload"
  /\ \E f \in Files :
       IF f.ext \in FORMAT_MAP
       THEN /\ Goto(u, "owner")
            /\ disk' = disk \cup {u}
            /\ file' = [file EXCEPT ![u] = f]
            /\ parsed' = [parsed EXCEPT ![u] = ParseFile(f)]
       ELSE Goto(u, "over") /\ UNCHANGED <<disk, file, parsed>>
  /\ UNCHANGED <<open, batch, created, hit, mailVars>>

\* assertEventOwner, which does not mind a deleted event.
AssertEventOwner(u) ==
  /\ step[u] = "owner"
  /\ \E owner \in BOOLEAN : Goto(u, IF owner THEN "check" ELSE "unlink")
  /\ UNCHANGED <<file, parsed, disk, open, batch, created, hit, mailVars>>

\* The head of processImportFile: the event, then parseFile, which may throw.
CheckEvent(u) ==
  /\ step[u] = "check"
  /\ Goto(u, IF open /\ ~Unacceptable(file[u]) THEN "batch" ELSE "unlink")
  /\ UNCHANGED <<file, parsed, disk, open, batch, created, hit, mailVars>>

CreateBatch(u) ==
  /\ step[u] = "batch"
  /\ batch' = [batch EXCEPT ![u] =
       [status |-> "PROCESSING", successRows |-> 0, failedRows |-> 0,
        totalRows |-> Len(parsed[u].rows) + Len(parsed[u].errors)]]
  /\ Goto(u, "rows")
  /\ UNCHANGED <<file, parsed, disk, open, created, hit, mailVars>>

\* validateRow of every row: the first mention of an address counts, in a row
\* that has a name.
ValidEntries(u) ==
  LET rows == parsed[u].rows
      fit(k) == rows[k].value.email \in Addresses /\ rows[k].value.name # ""
  IN  {k \in DOMAIN rows : fit(k) /\ \A j \in 1 .. k - 1 :
         fit(j) => rows[j].value.email # rows[k].value.email}

ToCreate(u) == {k \in ValidEntries(u) : parsed[u].rows[k].value.email \notin Registered}

\* The batches, as far as the answer goes: which rows they count as registered
\* (capacity, collisions and rejected transactions leave some out).
RegisterRows(u) ==
  /\ step[u] = "rows"
  /\ \E S \in SUBSET ToCreate(u) : created' = [created EXCEPT ![u] = S]
  /\ Goto(u, "finish")
  /\ UNCHANGED <<file, parsed, disk, open, batch, hit, mailVars>>

\* A row that fails in a transaction which is then rejected is counted twice.
FinishBatch(u) ==
  /\ step[u] = "finish"
  /\ LET n == Cardinality(created[u]) IN
     \E twice \in 0 .. Cardinality(ToCreate(u)) - n :
       batch' = [batch EXCEPT ![u].status = IF n = 0 THEN "FAILED" ELSE "COMPLETED",
                              ![u].successRows = n,
                              ![u].failedRows = Len(parsed[u].errors) + Len(parsed[u].rows) - n + twice]
  /\ Goto(u, "mail")
  /\ UNCHANGED <<file, parsed, disk, open, created, hit, mailVars>>

Start(notes) ==
  /\ call' = [n \in Notes |-> IF n \in notes THEN [call[n] EXCEPT !.send = "create"] ELSE call[n]]
  /\ UNCHANGED <<notification, mailed, refused>>

\* sendQrIssuedEmail for every attendee at once; none of them fails the import.
MailAttendees(u) ==
  /\ step[u] = "mail"
  /\ Start({Note(u, k) : k \in created[u]})
  /\ Goto(u, "wait")
  /\ UNCHANGED <<file, parsed, disk, open, batch, created, hit>>

\* Mutated forms of AllOver: nobody waits for the mails, or a failed one is
\* waited for.
NoneAwaited(u) == TRUE
AllSent(u) == \A k \in created[u] : notification[Note(u, k)] = "SENT"

AllOver(u) == \A k \in created[u] : Over(Note(u, k))

\* The summary is sent and not awaited; the audit row may fail unseen.
MailSummary(u) ==
  /\ step[u] = "wait" /\ AllOver(u)
  /\ Start({Note(u, 0)})
  /\ Goto(u, "answer")
  /\ UNCHANGED <<file, parsed, disk, open, batch, created, hit>>

Respond(u) ==
  /\ step[u] = "answer"
  /\ Goto(u, "unlink")
  /\ UNCHANGED <<file, parsed, disk, open, batch, created, hit, mailVars>>

\* The finally of the controller; a failed unlink is swallowed, and the file
\* kept.
Unlink(u) ==
  /\ step[u] = "unlink"
  /\ \/ Goto(u, "over") /\ disk' = disk \ {u}
     \/ Goto(u, "kept") /\ UNCHANGED disk
  /\ UNCHANGED <<file, parsed, open, batch, created, hit, mailVars>>

\* A read or write of the import itself is rejected, after the mails that of
\* the uploader: the call ends as it is, its batch row too.
Rejects(u) ==
  /\ step[u] \in {"owner", "check", "batch", "rows", "finish", "wait"}
  /\ step[u] = "wait" => AllOver(u)
  /\ Goto(u, "unlink")
  /\ hit' = hit \cup {u}
  /\ UNCHANGED <<file, parsed, disk, open, batch, created, mailVars>>

UploadStep(u) ==
  \/ AssertEventOwner(u) \/ CheckEvent(u) \/ CreateBatch(u) \/ RegisterRows(u) \/ FinishBatch(u)
  \/ MailAttendees(u) \/ MailSummary(u) \/ Respond(u) \/ Unlink(u) \/ Rejects(u)

\* The organiser deletes the event; later than this nobody looks at it.
DeleteEvent ==
  /\ open /\ \E u \in Uploads : step[u] \in {"upload", "owner", "check"}
  /\ open' = FALSE
  /\ UNCHANGED <<step, file, parsed, disk, batch, created, hit, mailVars>>

Running == {u \in Uploads : step[u] \notin {"upload", "over", "kept", "dead"}}

ServerCrash ==
  /\ Running # {}
  /\ step' = [u \in Uploads |-> IF u \in Running THEN "dead" ELSE step[u]]
  /\ CallsDie
  /\ UNCHANGED <<file, parsed, disk, open, batch, created, hit>>

Next ==
  \/ \E u \in Uploads : UploadAttendees(u) \/ UploadStep(u)
  \/ \E n \in Notes : (SendNotification(n) \/ RetryNotification(n)) /\ UNCHANGED deskVars
  \/ DeleteEvent
  \/ ServerCrash

\* Node runs what it was called for, and every query answers or rejects.
Spec ==
  /\ Init /\ [][Next]_vars
  /\ \A u \in Uploads : WF_vars(UploadStep(u))
  /\ \A n \in Notes : WF_vars(SendNotification(n) /\ UNCHANGED deskVars)

-----------------------------------------------------------------------------
Reported(u) == batch[u].status \in {"COMPLETED", "FAILED"}

Accounted(u) ==
  /\ batch[u].successRows + batch[u].failedRows >= batch[u].totalRows
  /\ \/ batch[u].totalRows >= Cardinality(People(file[u]))
     \/ ~file[u].readable \/ parsed[u] = Failed("ROW_LIMIT_EXCEEDED")

\* However a file is built (headings in any column or doubled, blank lines,
\* several tables, some of them without headings), a report on it accounts for
\* everybody in its tables that have a heading Name or Email or, where a
\* document is read from its text, for every line of that; only a file that
\* cannot be opened or has too many rows is rejected as a whole.  And the two
\* counts of the report leave nobody of its total out.
RowsAreAccounted == \A u \in Uploads : Reported(u) => Accounted(u)

RowNumbers(u) == [k \in DOMAIN parsed[u].rows |-> parsed[u].rows[k].sourceRow]
ErrorNumbers(u) == [k \in DOMAIN parsed[u].errors |-> parsed[u].errors[k].row]
OneTable(u) == file[u].ext = "xlsx" \/ Len(file[u].tables) <= 1

\* Two rows of a file with one table, a worksheet too, or of a DOCX whose tables
\* have no empty rows never go by one number, nor do two errors of a file with
\* one table; and there, except in a worksheet (where the two are numbered
\* differently), no row goes by the number of an error.
NumbersTellRowsApart ==
  \A u \in Uploads : batch[u] # NoBatch =>
    /\ OneTable(u) \/ (file[u].ext = "docx" /\ parsed[u].errors = <<>>) => IsInjective(RowNumbers(u))
    /\ OneTable(u) => IsInjective(ErrorNumbers(u))
    /\ OneTable(u) /\ file[u].ext # "xlsx" => ToSet(RowNumbers(u)) \cap ToSet(ErrorNumbers(u)) = {}

\* Whoever is answered after an import knows that the mail of every attendee it
\* registered is over with, and their rows tell the truth also while somebody
\* retries them: SENT if the mail went out and no write was rejected.
AttendeesAreMailed ==
  \A u \in Uploads :
    step[u] \in {"answer", "unlink", "over", "kept"} /\ u \notin hit =>
      \A k \in created[u] : Over(Note(u, k)) /\ TellsTruth(Note(u, k))

\* An upload comes to an end while the process lives: its temporary file is
\* removed, unless the removal itself fails, whatever was rejected before; and
\* its batch row leaves PROCESSING, unless a query of the import was rejected.
UploadsEnd ==
  \A u \in Uploads :
    u \in disk ~> \/ step[u] = "dead"
                  \/ /\ u \notin disk \/ step[u] = "kept"
                     /\ u \in hit \/ batch[u].status # "PROCESSING"
=============================================================================
