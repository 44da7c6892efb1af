---------------------------- MODULE OneTimeCode ----------------------------
(***************************************************************************)
(* The one-time secrets of one e-mail address, on Redis keys with a TTL    *)
(* and one users row (src/modules/auth and src/modules/admin):             *)
(*   verify   verification token       verification.service.js             *)
(*   otp      six-digit code           otp.service.js                      *)
(*   reset    password reset token     password.service.js                 *)
(*   invite   admin invitation         admin-users.service.js              *)
(*   state    Google sign-in state     oauth.service.js                    *)
(* The first four are stored, mailed, and deleted again if the mail fails; *)
(* a call that uses one reads the key, reads and writes the row, and only  *)
(* then deletes the key.  A state is taken with one GETDEL.                *)
(*                                                                         *)
(* Tokens and states are 32 random bytes and never drawn twice; a code may *)
(* be.  The key of a token contains the token, the key of a code only the  *)
(* address, so that a new code replaces the old one.                       *)
(***************************************************************************)
EXTENDS Integers

CONSTANTS
  Calls,    \* HTTP calls, each made once
  Tokens,   \* bound: the random bytes drawn
  Codes     \* the values a six-digit code may have

TokenSecrets == [kind: {"verify", "reset", "invite"}, id: Tokens]
StateSecrets == [kind: {"state"}, id: Tokens]
CodeSecrets  == [kind: {"otp"}, id: Codes]
Secrets == TokenSecrets \cup StateSecrets \cup CodeSecrets

NoSecret == [kind |-> "none", id |-> "none"]

ASSUME CodesAssumption == Codes \cap Tokens = {}

VARIABLES
  row,        \* the users row of the address: there, soft-deleted, or not there
  verified,   \* users.email_verified_at is set
  stored,     \* the secrets now in Redis
  drawn,      \* tokens drawn so far
  known,      \* secrets that have reached the owner of the address
  lapsed,     \* token secrets that expired, or whose failed mail removed them
  effects,    \* token secret -> how often a call has written what it is for
  call        \* call -> its position and locals

history == <<lapsed, effects>>
vars == <<row, verified, stored, drawn, known, history, call>>

Rows == {"none", "deleted", "live"}

\* A call with a secret that passed its GET, or its GETDEL, and not yet wrote.
UseSteps  == {"read", "write"}
SendSteps == {"store", "mail", "drop", "cleanup"}

Locals == [pc: {"idle", "enroll", "delete", "done"} \cup UseSteps \cup SendSteps,
           secret: Secrets \cup {NoSecret},
           saw: Rows,      \* the row as the call read it
           answer: {"none", "SENT", "USED", "REGISTERED", "REFUSED", "ERROR", "LOST"}]

Init ==
  /\ row \in Rows
  /\ verified \in BOOLEAN
  /\ row = "none" => ~verified
  /\ stored = {}
  /\ drawn = {}
  /\ known = {}
  /\ lapsed = {}
  /\ effects = [s \in TokenSecrets |-> 0]
  /\ call = [c \in Calls |-> [pc |-> "idle", secret |-> NoSecret, saw |-> "none",
                              answer |-> "none"]]

\* Call c begins with secret s at `to`; goes on at `to`; or goes on there with
\* the row it has just read.
Begin(c, to, s) == call' = [call EXCEPT ![c].pc = to, ![c].secret = s]
Goto(c, to)     == call' = [call EXCEPT ![c].pc = to]
GotoSeen(c, to) == call' = [call EXCEPT ![c].pc = to, ![c].saw = row]

\* An answered call forgets its locals, but for the secret it has used.
Answered(l, x) == [pc |-> "done", secret |-> IF x = "USED" THEN l.secret ELSE NoSecret,
                   saw |-> "none", answer |-> x]
Answer(c, x) == call' = [call EXCEPT ![c] = Answered(@, x)]

Kind(c) == call[c].secret.kind

\* Two secrets under one key: the same one, or two codes.
SameKey(s, t) == s = t \/ (s.kind = "otp" /\ t.kind = "otp")

\* What SET and DEL leave in Redis.
Set(s) == {t \in stored : ~SameKey(s, t)} \cup {s}
Del(s) == {t \in stored : ~SameKey(s, t)}

----------------------------------------------------------------------------
(* Sending: forgotPassword, requestEmailVerification, sendOtp,             *)
(* sendAdminInvite, and initiateGoogleOAuth, which sends a redirect        *)

\* What each of them asks of the row it reads.
MaySend(kind) ==
  CASE kind = "reset"             -> row # "none"
    [] kind \in {"verify", "otp"} -> row = "live" /\ ~verified
    [] kind = "invite"            -> row # "live"
    [] kind = "state"             -> TRUE

\* The row is read and the secret drawn.
SendStart(c) ==
  \E s \in Secrets :
    /\ call[c].pc = "idle"
    /\ s.id \notin drawn
    /\ IF MaySend(s.kind)
       THEN /\ Begin(c, "store", s)
            /\ drawn' = drawn \cup ({s.id} \cap Tokens)
       ELSE Answer(c, "REFUSED") /\ UNCHANGED drawn
    /\ UNCHANGED <<row, verified, stored, known, history>>

\* SET key value EX ttl; a state goes back to the browser at once.
SendStore(c) ==
  LET s == call[c].secret IN
  /\ call[c].pc = "store"
  /\ stored' = Set(s)
  /\ IF s.kind = "state" THEN Answer(c, "SENT") /\ known' = known \cup {s}
                         ELSE Goto(c, "mail") /\ UNCHANGED known
  /\ UNCHANGED <<row, verified, drawn, history>>

\* The SET rejects; the key may have reached Redis all the same.
StoreFails(c) ==
  /\ call[c].pc = "store"
  /\ stored' \in {stored, Set(call[c].secret)}
  /\ Answer(c, "ERROR")
  /\ UNCHANGED <<row, verified, drawn, known, history>>

\* Mutated form of SendMail: the key is set again, to last from the mail on.
SendMailAndRenew(c) ==
  LET s == call[c].secret IN
  /\ call[c].pc = "mail"
  /\ stored' = Set(s)
  /\ known' = known \cup {s}
  /\ Answer(c, "SENT")
  /\ UNCHANGED <<row, verified, drawn, history>>

\* sendNotification reports success, reports failure or rejects.  A mail
\* reported or rejected as failed may still have arrived.
SendMail(c) ==
  LET s == call[c].secret IN
  /\ call[c].pc = "mail"
  /\ \/ Answer(c, "SENT") /\ known' = known \cup {s}
     \/ Goto(c, "cleanup") /\ known' \in {known, known \cup {s}}
     \/ Goto(c, "drop") /\ known' \in {known, known \cup {s}}
  /\ UNCHANGED <<row, verified, stored, drawn, history>>

\* The secrets a DEL or the TTL takes away count as lapsed.
Discard(s) ==
  /\ stored' = Del(s)
  /\ lapsed' = lapsed \cup ({s} \cap stored \cap TokenSecrets)

\* A rejected mail is cleaned up by its catch, and then again as a failed one.
\* The DEL may reject, and the error is ignored.
DropKey(c) ==
  /\ call[c].pc = "drop"
  /\ Discard(call[c].secret) \/ UNCHANGED <<stored, lapsed>>
  /\ Goto(c, "cleanup")
  /\ UNCHANGED <<row, verified, drawn, known, effects>>

CleanUp(c) ==
  /\ call[c].pc = "cleanup"
  /\ Discard(call[c].secret) \/ UNCHANGED <<stored, lapsed>>
  /\ Answer(c, "ERROR")
  /\ UNCHANGED <<row, verified, drawn, known, effects>>

----------------------------------------------------------------------------
(* Using: resetPassword, verifyEmail, verifyOtp, acceptAdminInvite and     *)
(* completeGoogleOAuth                                                     *)

\* resetPassword writes without reading the row.
AfterGet(s) == IF s.kind = "reset" THEN "write" ELSE "read"

\* Mutated form of UseGet: GETDEL in the place of GET.
UseTake(c) ==
  \E s \in known \cup CodeSecrets :
    /\ call[c].pc = "idle"
    /\ s.kind # "state"
    /\ stored' = Del(s)
    /\ IF s \in stored THEN Begin(c, AfterGet(s), s) ELSE Answer(c, "REFUSED")
    /\ UNCHANGED <<row, verified, drawn, known, history>>

\* GET; a code must equal the stored one.  Codes are typed in, so any may come.
UseGet(c) ==
  \E s \in known \cup CodeSecrets :
    /\ call[c].pc = "idle"
    /\ s.kind # "state"
    /\ IF s \in stored THEN Begin(c, AfterGet(s), s) ELSE Answer(c, "REFUSED")
    /\ UNCHANGED <<row, verified, stored, drawn, known, history>>

\* Mutated form of ConsumeState: GET in the place of GETDEL.
PeekState(c) ==
  \E s \in known \cap StateSecrets :
    /\ call[c].pc = "idle"
    /\ IF s \in stored THEN Begin(c, "read", s) ELSE Answer(c, "REFUSED")
    /\ UNCHANGED <<row, verified, stored, drawn, known, history>>

\* consumeOAuthState: GETDEL.
ConsumeState(c) ==
  \E s \in known \cap StateSecrets :
    /\ call[c].pc = "idle"
    /\ IF s \in stored THEN Begin(c, "read", s) ELSE Answer(c, "REFUSED")
    /\ stored' = Del(s)
    /\ UNCHANGED <<row, verified, drawn, known, history>>

\* GETDEL rejects, before or after Redis took the key; or the state it took is
\* bound to another browser.
ConsumeFails(c) ==
  \E s \in known \cap StateSecrets :
    /\ call[c].pc = "idle"
    /\ stored' \in {stored, Del(s)}
    /\ Answer(c, "ERROR")
    /\ UNCHANGED <<row, verified, drawn, known, history>>

\* What the row read allows: a verification needs the account, an invitation
\* must not meet one, Google signs in or up.
MayUse(kind) ==
  CASE kind \in {"verify", "otp"} -> row = "live"
    [] kind = "invite"            -> row # "live"
    [] kind = "state"             -> TRUE

UseRead(c) ==
  /\ call[c].pc = "read"
  /\ IF MayUse(Kind(c)) THEN GotoSeen(c, "write") ELSE Answer(c, "REFUSED")
  /\ UNCHANGED <<row, verified, stored, drawn, known, history>>

\* An INSERT where the call saw no row; the unique e-mail rejects it if there
\* is one by now.  Everything else updates by id, whatever the row is by now.
Inserts(c) == Kind(c) \in {"invite", "state"} /\ call[c].saw = "none"

UseWrite(c) ==
  LET s == call[c].secret IN
  /\ call[c].pc = "write"
  /\ Inserts(c) => row = "none"
  /\ row' = IF s.kind \in {"invite", "state"} /\ call[c].saw # "live" THEN "live" ELSE row
  /\ verified' = (verified \/ s.kind # "reset")
  /\ effects' = IF s \in TokenSecrets THEN [effects EXCEPT ![s] = @ + 1] ELSE effects
  /\ IF s.kind = "state" THEN Answer(c, "USED") ELSE Goto(c, "delete")
  /\ UNCHANGED <<stored, drawn, known, lapsed>>

UseCollides(c) ==
  /\ call[c].pc = "write"
  /\ Inserts(c)
  /\ row # "none"
  /\ Answer(c, "ERROR")
  /\ UNCHANGED <<row, verified, stored, drawn, known, history>>

\* A read, the password hash or the exchange with Google rejects, Google's user
\* is suspended, or the write rejects; so may the first read of any call.  (A
\* write whose answer is lost is UseWrite and then DeleteFails.)
CallFails(c) ==
  /\ call[c].pc \in {"idle", "enroll"} \cup UseSteps
  /\ Answer(c, "ERROR")
  /\ UNCHANGED <<row, verified, stored, drawn, known, history>>

\* DEL key: for a code, whichever is stored by now.  resetPassword then revokes
\* the sessions, which cannot fail it.
UseDelete(c) ==
  /\ call[c].pc = "delete"
  /\ stored' = Del(call[c].secret)
  /\ Answer(c, "USED")
  /\ UNCHANGED <<row, verified, drawn, known, history>>

\* Mutated form of DeleteFails: the error is ignored, as it is in CleanUp.
DeleteIgnored(c) ==
  /\ call[c].pc = "delete"
  /\ stored' \in {stored, Del(call[c].secret)}
  /\ Answer(c, "USED")
  /\ UNCHANGED <<row, verified, drawn, known, history>>

\* The DEL rejects: the call fails although its write stands.
DeleteFails(c) ==
  /\ call[c].pc = "delete"
  /\ stored' \in {stored, Del(call[c].secret)}
  /\ Answer(c, "ERROR")
  /\ UNCHANGED <<row, verified, drawn, known, history>>

----------------------------------------------------------------------------
(* registerUser, which races for the same row                              *)

RegisterRead(c) ==
  /\ call[c].pc = "idle"
  /\ IF row = "live" THEN Answer(c, "REFUSED") ELSE GotoSeen(c, "enroll")
  /\ UNCHANGED <<row, verified, stored, drawn, known, history>>

RegisterWrite(c) ==
  /\ call[c].pc = "enroll"
  /\ IF call[c].saw = "none" /\ row # "none"
     THEN Answer(c, "ERROR") /\ UNCHANGED row
     ELSE Answer(c, "REGISTERED") /\ row' = "live"
  /\ UNCHANGED <<verified, stored, drawn, known, history>>

\* EX: Redis drops the key.
Expire ==
  \E s \in stored :
    /\ Discard(s)
    /\ UNCHANGED <<row, verified, drawn, known, effects, call>>

\* The Node process dies: calls in flight are gone, rows and keys stay.
InFlight(c) == call[c].pc \notin {"idle", "done"}

ServerCrash ==
  /\ \E c \in Calls : InFlight(c)
  /\ call' = [c \in Calls |-> IF InFlight(c) THEN Answered(call[c], "LOST") ELSE call[c]]
  /\ UNCHANGED <<row, verified, stored, drawn, known, history>>

----------------------------------------------------------------------------
SendStep(c) ==
  SendStart(c) \/ SendStore(c) \/ StoreFails(c) \/ SendMail(c) \/ DropKey(c) \/ CleanUp(c)

UseStep(c) ==
  \/ UseGet(c)
  \/ ConsumeState(c)
  \/ ConsumeFails(c)
  \/ UseRead(c)
  \/ UseWrite(c)
  \/ UseCollides(c)
  \/ CallFails(c)
  \/ UseDelete(c)
  \/ DeleteFails(c)

Next ==
  \/ \E c \in Calls : SendStep(c) \/ UseStep(c) \/ RegisterRead(c) \/ RegisterWrite(c)
  \/ Expire
  \/ ServerCrash

Spec == Init /\ [][Next]_vars
----------------------------------------------------------------------------
(* Properties                                                              *)

\* Every variable holds what its column or key can hold, and a key that has
\* lapsed does not come back.
TypeOK ==
  /\ row \in Rows
  /\ verified \in BOOLEAN
  /\ stored \subseteq Secrets
  /\ drawn \subseteq Tokens
  /\ known \subseteq Secrets
  /\ lapsed \subseteq TokenSecrets \ stored
  /\ effects \in [TokenSecrets -> Nat]
  /\ call \in [Calls -> Locals]

\* A mailed token is spent once its use has been answered: whatever mails,
\* clean-ups, expiries and other uses of it do in the meantime, no later call
\* is let in with it (the DEL that every service awaits before it answers).
AnsweredIsSpent ==
  \A c \in Calls :
    call[c].answer = "USED" /\ call[c].secret \in TokenSecrets => call[c].secret \notin stored

\* However many callbacks arrive with one Google state, at most one of them
\* gets past it (GETDEL in consumeOAuthState).
LetIn(c) == Kind(c) = "state" /\ (call[c].pc \in UseSteps \/ call[c].answer = "USED")
StateIsSingleUse ==
  \A c, d \in Calls : LetIn(c) /\ LetIn(d) /\ call[c].secret = call[d].secret => c = d

Stage(s) ==
  CASE s \in stored -> "live"
    [] s \in lapsed -> "lapsed"
    [] s \notin stored \cup lapsed /\ effects[s] > 0 -> "spent"
    [] OTHER -> "blank"

MayRedeem(c) == IF call[c].pc \in UseSteps THEN {call[c].secret} \cap TokenSecrets ELSE {}

Promise == INSTANCE Voucher WITH
  Vouchers <- TokenSecrets,
  Clients  <- Calls,
  stage    <- [s \in TokenSecrets |-> Stage(s)],
  admitted <- [c \in Calls |-> MayRedeem(c)],
  redeemed <- effects

\* The verification, reset and invitation tokens are the vouchers of Voucher:
\* in particular none of them is lost to a call that then fails, because the
\* services delete the key after the write and not before it.
ImplementsVoucher == Promise!Spec
============================================================================
