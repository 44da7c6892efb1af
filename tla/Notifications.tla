---------------------------- MODULE Notifications ----------------------------
(***************************************************************************)
(* A notification is a row that goes from PENDING to SENT or FAILED around *)
(* one mail.  The mail of this version is a log line that never fails, so  *)
(* what can go wrong are the writes around it, the process, and a second   *)
(* call for the same row (retryNotification) that does not know of the     *)
(* first.  `refused` keeps which rows had a write rejected, for the        *)
(* properties.                                                             *)
(***************************************************************************)
EXTENDS Naturals, FiniteSets

CONSTANTS
  Notes,          \* the notifications a behaviour may send
  MaxRefusals,    \* bound: the rows some write of which the database rejects
  MaxRetries      \* bound: the rows that are retried

ASSUME BoundsAreNumbers == MaxRefusals \in Nat /\ MaxRetries \in Nat

VARIABLES
  notification,   \* the status of each row
  mailed,         \* the mails that went out for it
  call,           \* where its sendNotification and its retryNotification are
  refused

mailVars == <<notification, mailed, call, refused>>

Kinds == {"send", "retry"}
AtWork == {"create", "reset", "mail", "sent", "failed"}

MailInit ==
  /\ notification = [n \in Notes |-> "none"]
  /\ mailed = [n \in Notes |-> 0]
  /\ call = [n \in Notes |-> [k \in Kinds |-> "idle"]]
  /\ refused = {}

Become(n, k, step) == call' = [call EXCEPT ![n][k] = step]

\* A call's step from one place to another with the write of a status.
Write(n, k, from, status, to) ==
  /\ call[n][k] = from
  /\ notification' = [notification EXCEPT ![n] = status]
  /\ Become(n, k, to)
  /\ UNCHANGED <<mailed, refused>>

SendEmail(n, k) ==
  /\ call[n][k] = "mail"
  /\ mailed' = [mailed EXCEPT ![n] = @ + 1]
  /\ Become(n, k, "sent")
  /\ UNCHANGED <<notification, refused>>

\* The database rejects a write: the catch around the mail and the first update
\* writes FAILED, and whatever else rejects goes to the caller.
Rejected(n, k) ==
  /\ call[n][k] \in AtWork \ {"mail"}
  /\ Cardinality(refused \cup {n}) <= MaxRefusals
  /\ refused' = refused \cup {n}
  /\ Become(n, k, IF call[n][k] = "sent" THEN "failed" ELSE "threw")
  /\ UNCHANGED <<notification, mailed>>

\* What follows the mail, or its failure.
After(n, k) ==
  \/ Write(n, k, "sent", "SENT", "done")
  \/ Write(n, k, "failed", "FAILED", "done")

SendNotification(n) ==
  \/ Write(n, "send", "create", "PENDING", "mail")
  \/ SendEmail(n, "send") \/ After(n, "send") \/ Rejected(n, "send")

\* It may be called for any row, whatever its status and whoever is at it.
RetryNotification(n) ==
  \/ /\ notification[n] # "none" /\ call[n].retry = "idle"
     /\ Cardinality({m \in Notes : call[m].retry # "idle"}) < MaxRetries
     /\ Become(n, "retry", "reset")
     /\ UNCHANGED <<notification, mailed, refused>>
  \/ Write(n, "retry", "reset", "PENDING", "mail")
  \/ SendEmail(n, "retry") \/ After(n, "retry") \/ Rejected(n, "retry")

\* The process dies: nothing of its calls is left but what they have written.
CallsDie ==
  /\ call' = [n \in Notes |-> [k \in Kinds |-> IF call[n][k] \in AtWork THEN "dead" ELSE call[n][k]]]
  /\ UNCHANGED <<notification, mailed, refused>>

-----------------------------------------------------------------------------
Over(n) == call[n].send \in {"done", "threw"}

\* What a row says once nobody is at work on it: SENT, and the mail went out;
\* FAILED or PENDING are left only by a rejected write or a dead process.
TellsTruth(n) ==
  (\A k \in Kinds : call[n][k] \notin AtWork) =>
    \/ notification[n] = "SENT" /\ mailed[n] > 0
    \/ n \in refused
    \/ \E k \in Kinds : call[n][k] = "dead"
=============================================================================
