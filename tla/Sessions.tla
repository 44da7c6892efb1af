------------------------------ MODULE Sessions ------------------------------
(***************************************************************************)
(* The refresh tokens of one user: login, refresh, logout, revocation and  *)
(* password change (src/modules/auth/auth.routes.js, auth.service.js,      *)
(* session.service.js) on two sets of Redis keys and one users row.  Users *)
(* share no key and no row, so one is enough.                              *)
(*                                                                         *)
(* A refresh token is a signed JWT without a jti: its bytes are determined *)
(* by the user's claims and by iat, in whole seconds.  Two tokens signed   *)
(* for one user in the same second are therefore the same token, and a     *)
(* token is modelled by the second it was signed in.                       *)
(*                                                                         *)
(* Keys expire with the token they are about, so expiry is left out.       *)
(***************************************************************************)
EXTENDS Integers, FiniteSets

CONSTANTS
  Calls,          \* HTTP calls, each made once
  MaxTime,        \* bound: the last second of the clock
  RedisMayFail    \* may a Redis command be rejected?

ASSUME CallsAssumption == IsFiniteSet(Calls)
ASSUME TimeAssumption  == MaxTime \in Nat
ASSUME RedisAssumption == RedisMayFail \in BOOLEAN

VARIABLES
  now,        \* the clock, in seconds
  password,   \* users.password_hash: how often it has been changed
  active,     \* users.status = ACTIVE
  session,    \* tokens with a session:{user}:{hash} key
  blacklist,  \* tokens with a blacklist:refresh:{token} key
  issued,     \* tokens a client has been answered
  call,       \* call -> its position and locals
  basis,      \* token -> the password its login was checked against
  logins,     \* how many logins have recorded a session
  recorded,   \* token -> how often a session of it was recorded
  consumed    \* token -> how often refresh was let through with it

redis == <<session, blacklist>>
row   == <<password, active>>
past  == <<basis, logins, recorded, consumed>>
vars  == <<now, row, redis, issued, call, past>>

Tokens == 0 .. MaxTime

RefreshSteps == {"check", "user", "blacklist", "rotate"}
Steps == {"idle", "sign", "record", "logout", "forget", "update", "list", "revoke", "done"}
         \cup RefreshSteps

Locals == [pc: Steps,
           token: Tokens,        \* the token presented
           fresh: Tokens,        \* the token signed
           checked: Nat,         \* the password the call was let in with
           todo: SUBSET Tokens,  \* revokeAllSessions: listed and not yet deleted
           answer: {"none", "OK", "401", "ERROR"}]

Init ==
  /\ now = 0
  /\ password = 0
  /\ active = TRUE
  /\ session = {}
  /\ blacklist = {}
  /\ issued = {}
  /\ call = [c \in Calls |-> [pc |-> "idle", token |-> 0, fresh |-> 0, checked |-> 0,
                              todo |-> {}, answer |-> "none"]]
  /\ basis = [t \in Tokens |-> 0]
  /\ logins = 0
  /\ recorded = [t \in Tokens |-> 0]
  /\ consumed = [t \in Tokens |-> 0]

Goto(c, to)  == call' = [call EXCEPT ![c].pc = to]
Answer(c, x) == call' = [call EXCEPT ![c].pc = "done", ![c].answer = x]

----------------------------------------------------------------------------
(* POST /login                                                             *)

\* authenticateUser reads the row once and compares against what it read.
LoginRead(c) ==
  /\ call[c].pc = "idle"
  /\ active
  /\ call' = [call EXCEPT ![c].pc = "sign", ![c].checked = password]
  /\ UNCHANGED <<now, row, redis, issued, past>>

\* generateTokens, once bcrypt is done
LoginSign(c) ==
  /\ call[c].pc = "sign"
  /\ call' = [call EXCEPT ![c].pc = "record", ![c].fresh = now]
  /\ UNCHANGED <<now, row, redis, issued, past>>

\* recordSession of token t, signed for a caller let in with password v.
RecordSession(t, v) ==
  /\ session' = session \cup {t}
  /\ basis' = [basis EXCEPT ![t] = v]
  /\ recorded' = [recorded EXCEPT ![t] = @ + 1]
  /\ issued' = issued \cup {t}

LoginRecord(c) ==
  /\ call[c].pc = "record"
  /\ RecordSession(call[c].fresh, call[c].checked)
  /\ logins' = logins + 1
  /\ Answer(c, "OK")
  /\ UNCHANGED <<now, row, blacklist, consumed>>

\* recordSession is best effort: the tokens are answered all the same.
RecordFails(c) ==
  /\ RedisMayFail
  /\ call[c].pc \in {"record", "rotate"}
  /\ issued' = issued \cup {call[c].fresh}
  /\ Answer(c, "OK")
  /\ UNCHANGED <<now, row, redis, past>>

----------------------------------------------------------------------------
(* POST /refresh                                                           *)

\* Mutated form of RefreshConsume: GET in the place of GETDEL.
RefreshPeek(c) ==
  \E t \in issued :
    /\ call[c].pc = "idle"
    /\ IF t \in session
       THEN /\ consumed' = [consumed EXCEPT ![t] = @ + 1]
            /\ call' = [call EXCEPT ![c].pc = "check", ![c].token = t, ![c].checked = basis[t]]
       ELSE Answer(c, "401") /\ UNCHANGED consumed
    /\ UNCHANGED <<now, row, redis, issued, basis, logins, recorded>>

\* consumeSession: GETDEL lets the first caller through and takes the key.
RefreshConsume(c) ==
  \E t \in issued :
    /\ call[c].pc = "idle"
    /\ session' = session \ {t}
    /\ IF t \in session
       THEN /\ consumed' = [consumed EXCEPT ![t] = @ + 1]
            /\ call' = [call EXCEPT ![c].pc = "check", ![c].token = t, ![c].checked = basis[t]]
       ELSE Answer(c, "401") /\ UNCHANGED consumed
    /\ UNCHANGED <<now, row, blacklist, issued, basis, logins, recorded>>

\* Mutated form of ConsumeFails: a rejected GETDEL lets the refresh through.
ConsumeFailsOpen(c) ==
  \E t \in issued :
    /\ RedisMayFail
    /\ call[c].pc = "idle"
    /\ session' \in {session, session \ {t}}
    /\ call' = [call EXCEPT ![c].pc = "check", ![c].token = t, ![c].checked = basis[t]]
    /\ UNCHANGED <<now, row, blacklist, issued, past>>

\* GETDEL rejects, before or after Redis took the key.
ConsumeFails(c) ==
  \E t \in issued :
    /\ RedisMayFail
    /\ call[c].pc = "idle"
    /\ session' \in {session, session \ {t}}
    /\ Answer(c, "401")
    /\ UNCHANGED <<now, row, blacklist, issued, past>>

\* isTokenBlacklisted
RefreshCheck(c) ==
  /\ call[c].pc = "check"
  /\ IF call[c].token \in blacklist THEN Answer(c, "401") ELSE Goto(c, "user")
  /\ UNCHANGED <<now, row, redis, issued, past>>

\* The user is read again, then both new tokens are signed.
RefreshSign(c) ==
  /\ call[c].pc = "user"
  /\ IF active THEN call' = [call EXCEPT ![c].pc = "blacklist", ![c].fresh = now]
               ELSE Answer(c, "401")
  /\ UNCHANGED <<now, row, redis, issued, past>>

\* blacklistRefreshToken swallows every error.
RefreshBlacklist(c) ==
  /\ call[c].pc = "blacklist"
  /\ \/ blacklist' = blacklist \cup {call[c].token}
     \/ RedisMayFail /\ UNCHANGED blacklist
  /\ Goto(c, "rotate")
  /\ UNCHANGED <<now, row, session, issued, past>>

RefreshRecord(c) ==
  /\ call[c].pc = "rotate"
  /\ RecordSession(call[c].fresh, call[c].checked)
  /\ Answer(c, "OK")
  /\ UNCHANGED <<now, row, blacklist, logins, consumed>>

\* The blacklist read or the user read rejects: the session is gone already.
RefreshFails(c) ==
  /\ call[c].pc \in {"check", "user"}
  /\ Answer(c, "ERROR")
  /\ UNCHANGED <<now, row, redis, issued, past>>

----------------------------------------------------------------------------
(* POST /logout, DELETE /sessions/:sessionId                               *)

LogoutStart(c) ==
  \E t \in issued :
    /\ call[c].pc = "idle"
    /\ active
    /\ call' = [call EXCEPT ![c].pc = "logout", ![c].token = t]
    /\ UNCHANGED <<now, row, redis, issued, past>>

LogoutBlacklist(c) ==
  /\ call[c].pc = "logout"
  /\ \/ blacklist' = blacklist \cup {call[c].token}
     \/ RedisMayFail /\ UNCHANGED blacklist
  /\ Goto(c, "forget")
  /\ UNCHANGED <<now, row, session, issued, past>>

LogoutForget(c) ==
  /\ call[c].pc = "forget"
  /\ \/ session' = session \ {call[c].token}
     \/ RedisMayFail /\ UNCHANGED session
  /\ Answer(c, "OK")
  /\ UNCHANGED <<now, row, blacklist, issued, past>>

RevokeSession(c) ==
  \E t \in issued :
    /\ call[c].pc = "idle"
    /\ active
    /\ \/ session' = session \ {t}
       \/ RedisMayFail /\ UNCHANGED session
    /\ Answer(c, "OK")
    /\ UNCHANGED <<now, row, blacklist, issued, past>>

----------------------------------------------------------------------------
(* POST /change-password                                                   *)

\* requireAuth and changePassword read the row; the password typed is compared
\* with the one read, and nothing compares it again.
ChangeRead(c) ==
  /\ call[c].pc = "idle"
  /\ active
  /\ issued # {}
  /\ call' = [call EXCEPT ![c].pc = "update", ![c].checked = password]
  /\ UNCHANGED <<now, row, redis, issued, past>>

ChangeUpdate(c) ==
  /\ call[c].pc = "update"
  /\ password' = password + 1
  /\ Goto(c, "list")
  /\ UNCHANGED <<now, active, redis, issued, past>>

\* listSessions: SCAN, here one snapshot; any error gives an empty list.
ListSessions(c) ==
  /\ call[c].pc = "list"
  /\ \E found \in {session} \cup (IF RedisMayFail THEN {{}} ELSE {}) :
       call' = [call EXCEPT ![c].pc = "revoke", ![c].todo = found]
  /\ UNCHANGED <<now, row, redis, issued, past>>

\* revokeAllSessions deletes what it listed, key by key.
RevokeNext(c) ==
  \E t \in call[c].todo :
    /\ call[c].pc = "revoke"
    /\ \/ session' = session \ {t}
       \/ RedisMayFail /\ UNCHANGED session
    /\ call' = [call EXCEPT ![c].todo = @ \ {t}]
    /\ UNCHANGED <<now, row, blacklist, issued, past>>

RevokeEnds(c) ==
  /\ call[c].pc = "revoke"
  /\ call[c].todo = {}
  /\ Answer(c, "OK")
  /\ UNCHANGED <<now, row, redis, issued, past>>

----------------------------------------------------------------------------
\* deactivateUser: the sessions stay.
DeactivateUser ==
  /\ active
  /\ active' = FALSE
  /\ UNCHANGED <<now, password, redis, issued, call, past>>

Tick ==
  /\ now < MaxTime
  /\ now' = now + 1
  /\ UNCHANGED <<row, redis, issued, call, past>>

LoginStep(c) == LoginRead(c) \/ LoginSign(c) \/ LoginRecord(c) \/ RecordFails(c)

RefreshStep(c) ==
  \/ RefreshConsume(c)
  \/ ConsumeFails(c)
  \/ RefreshCheck(c)
  \/ RefreshSign(c)
  \/ RefreshBlacklist(c)
  \/ RefreshRecord(c)
  \/ RefreshFails(c)

RevokeStep(c) ==
  \/ LogoutStart(c)
  \/ LogoutBlacklist(c)
  \/ LogoutForget(c)
  \/ RevokeSession(c)
  \/ ChangeRead(c)
  \/ ChangeUpdate(c)
  \/ ListSessions(c)
  \/ RevokeNext(c)
  \/ RevokeEnds(c)

Next ==
  \/ \E c \in Calls : LoginStep(c) \/ RefreshStep(c) \/ RevokeStep(c)
  \/ DeactivateUser
  \/ Tick

Spec == Init /\ [][Next]_vars
----------------------------------------------------------------------------
(* Properties                                                              *)

TypeOK ==
  /\ now \in Tokens
  /\ password \in Nat
  /\ active \in BOOLEAN
  /\ session \subseteq Tokens
  /\ blacklist \subseteq Tokens
  /\ issued \subseteq 0 .. now
  /\ call \in [Calls -> Locals]
  /\ basis \in [Tokens -> Nat]
  /\ logins \in Nat
  /\ recorded \in [Tokens -> Nat]
  /\ consumed \in [Tokens -> Nat]

\* A token is exchanged at most as often as a session was recorded for it: any
\* number of concurrent refreshes with one token get one pair between them,
\* unless the token was handed out again (consumeSession's GETDEL).
RefreshesArePaidFor ==
  \A t \in Tokens : consumed[t] + (IF t \in session THEN 1 ELSE 0) <= recorded[t]

\* Rotation never multiplies sessions: the live ones and those being rotated
\* are at most as many as the logins, whatever is replayed and whatever fails.
Rotating == {c \in Calls : call[c].pc \in RefreshSteps}
SessionsNeverMultiply == Cardinality(session) + Cardinality(Rotating) <= logins

\* The calls implement the ledger: recording a login opens a session, GETDEL
\* takes one, recording the new token of a refresh gives one back on the old
\* password; no other step, none that fails and no replay adds anything.
Ledger == INSTANCE RefreshLedger WITH
  Clients  <- Calls,
  sessions <- [t \in session |-> basis[t]],
  underway <- [c \in Rotating |-> call[c].checked]
ImplementsRefreshLedger == Ledger!Spec

----------------------------------------------------------------------------
(* What comments and documentation say, for the runs that refute it        *)

\* ARCHITECTURE.md:123 ("the old refresh token is blacklisted in Redis before
\* a new pair is issued"): the new pair is not the one blacklisted.
PairIsFresh ==
  [][\A c \in Calls :
       call[c].pc = "rotate" /\ call'[c].answer = "OK" => call[c].fresh # call[c].token]_vars

\* session.service.js:168 ("Revoke all of a user's active sessions"): when the
\* revocation after a password change ends, no session of an older password lives.
NoSessionOutlivesPassword ==
  [][\A c \in Calls :
       call[c].pc = "revoke" /\ call'[c].answer = "OK" =>
         \A t \in session : basis[t] = password]_vars
=============================================================================
