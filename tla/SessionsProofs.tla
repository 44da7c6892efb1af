---------------------------- MODULE SessionsProofs ----------------------------
(***************************************************************************)
(* For any set of calls, any bound of the clock and any Redis failures: a  *)
(* token is exchanged only as often as it was recorded, and rotation never *)
(* leaves more sessions than there were logins; and the calls implement    *)
(* RefreshLedger.                                                          *)
(***************************************************************************)
EXTENDS Sessions, FiniteSetTheorems, TLAPS

----------------------------------------------------------------------------
(* Type correctness                                                        *)

\* TypeOK says of issued that no token is from the future.  What keeps it so is
\* that nobody holds a token signed later than now.
SignedByNow == \A c \in Calls : call[c].fresh <= now

SessionsTyped == TypeOK /\ SignedByNow

\* Replacing one local leaves locals.
LEMMA FieldUpdates ==
  ASSUME NEW l \in Locals
  PROVE  /\ \A x \in Steps : [l EXCEPT !.pc = x] \in Locals
         /\ \A t \in Tokens : [l EXCEPT !.token = t] \in Locals
         /\ \A t \in Tokens : [l EXCEPT !.fresh = t] \in Locals
         /\ \A v \in Nat : [l EXCEPT !.checked = v] \in Locals
         /\ \A T \in SUBSET Tokens : [l EXCEPT !.todo = T] \in Locals
         /\ \A x \in {"none", "OK", "401", "ERROR"} : [l EXCEPT !.answer = x] \in Locals
BY DEF Locals

\* Going on and answering change neither the types nor the token signed.
LEMMA GotoType ==
  ASSUME call \in [Calls -> Locals], NEW c \in Calls, NEW to \in Steps, Goto(c, to)
  PROVE  /\ call' \in [Calls -> Locals]
         /\ \A d \in Calls : call'[d].fresh = call[d].fresh
<1>1. [call[c] EXCEPT !.pc = to] \in Locals
  BY FieldUpdates
<1>2. QED
  BY <1>1 DEF Goto, Locals

LEMMA AnswerType ==
  ASSUME call \in [Calls -> Locals], NEW c \in Calls,
         NEW x \in {"OK", "401", "ERROR"}, Answer(c, x)
  PROVE  /\ call' \in [Calls -> Locals]
         /\ \A d \in Calls : call'[d].fresh = call[d].fresh
<1>1. "done" \in Steps
  BY DEF Steps
<1>2. [[call[c] EXCEPT !.pc = "done"] EXCEPT !.answer = x] \in Locals
  BY <1>1, FieldUpdates
<1>3. call' = [call EXCEPT ![c] = [[call[c] EXCEPT !.pc = "done"] EXCEPT !.answer = x]]
  BY DEF Answer, Locals
<1>4. QED
  BY <1>2, <1>3 DEF Locals

LEMMA TypedInit == Init => SessionsTyped
<1> SUFFICES ASSUME Init PROVE SessionsTyped
  OBVIOUS
<1>1. 0 \in Tokens
  BY TimeAssumption DEF Tokens
<1>2. call \in [Calls -> Locals]
  BY <1>1 DEF Init, Locals, Steps
<1>3. QED
  BY <1>1, <1>2 DEF Init, SessionsTyped, TypeOK, SignedByNow

\* A login or a refresh writes down token t.
LEMMA RecordType ==
  ASSUME TypeOK, NEW t \in Tokens, NEW v \in Nat, t <= now, now' = now, RecordSession(t, v)
  PROVE  /\ session' \subseteq Tokens
         /\ issued' \subseteq 0 .. now
         /\ basis' \in [Tokens -> Nat]
         /\ recorded' \in [Tokens -> Nat]
<1>1. session' \subseteq Tokens
  BY DEF TypeOK, RecordSession
<1>2. issued' \subseteq 0 .. now
  BY DEF TypeOK, RecordSession, Tokens
<1>3. basis' \in [Tokens -> Nat]
  BY DEF TypeOK, RecordSession
<1>4. recorded' \in [Tokens -> Nat]
  BY DEF TypeOK, RecordSession
<1>5. QED
  BY <1>1, <1>2, <1>3, <1>4

\* The steps of logins.
LEMMA LoginTyped ==
  ASSUME SessionsTyped, NEW c \in Calls, LoginStep(c)
  PROVE  SessionsTyped'
<1> USE DEF SessionsTyped
<1>0. call[c] \in Locals /\ now \in Tokens
  BY DEF TypeOK
<1>1. CASE LoginRead(c)
  <2>1. [[call[c] EXCEPT !.pc = "sign"] EXCEPT !.checked = password] \in Locals
    BY <1>0, FieldUpdates DEF TypeOK, Steps
  <2>2. call' = [call EXCEPT ![c] = [[call[c] EXCEPT !.pc = "sign"] EXCEPT !.checked = password]]
    BY <1>1 DEF LoginRead, TypeOK, Locals
  <2>3. QED
    BY <1>1, <2>1, <2>2 DEF LoginRead, TypeOK, SignedByNow, Locals, row, redis, past
<1>2. CASE LoginSign(c)
  <2> DEFINE l == [[call[c] EXCEPT !.pc = "record"] EXCEPT !.fresh = now]
  <2>1. l \in Locals
    BY <1>0, FieldUpdates DEF Steps
  <2>2. call' = [call EXCEPT ![c] = l]
    BY <1>2 DEF LoginSign, TypeOK, Locals
  <2>3. l.fresh = now /\ now <= now
    BY <1>0 DEF Locals, Tokens
  <2> HIDE DEF l
  <2>4. QED
    BY <1>2, <2>1, <2>2, <2>3 DEF LoginSign, TypeOK, SignedByNow, row, redis, past
<1>3. CASE LoginRecord(c)
  <2>1. call[c].fresh \in Tokens /\ call[c].fresh <= now /\ call[c].checked \in Nat
    BY <1>0 DEF SignedByNow, Locals
  <2>2. /\ session' \subseteq Tokens
        /\ issued' \subseteq 0 .. now
        /\ basis' \in [Tokens -> Nat]
        /\ recorded' \in [Tokens -> Nat]
    BY <1>3, <2>1, RecordType DEF LoginRecord
  <2>3. /\ call' \in [Calls -> Locals]
        /\ \A d \in Calls : call'[d].fresh = call[d].fresh
    BY <1>3, AnswerType DEF LoginRecord, TypeOK
  <2>4. QED
    BY <1>3, <2>2, <2>3 DEF LoginRecord, TypeOK, SignedByNow, row
<1>4. CASE RecordFails(c)
  <2>1. call[c].fresh \in 0 .. now
    BY <1>0, TimeAssumption DEF SignedByNow, Locals, Tokens
  <2>2. /\ call' \in [Calls -> Locals]
        /\ \A d \in Calls : call'[d].fresh = call[d].fresh
    BY <1>4, AnswerType DEF RecordFails, TypeOK
  <2>3. QED
    BY <1>4, <2>1, <2>2 DEF RecordFails, TypeOK, SignedByNow, row, redis, past
<1>5. QED
  BY <1>1, <1>2, <1>3, <1>4 DEF LoginStep

\* The steps of refreshes.
LEMMA RefreshTyped ==
  ASSUME SessionsTyped, NEW c \in Calls, RefreshStep(c)
  PROVE  SessionsTyped'
<1> USE DEF SessionsTyped
<1>0. /\ call[c] \in Locals /\ now \in Tokens
      /\ issued \subseteq Tokens
      /\ {"check", "user", "blacklist", "rotate", "done"} \subseteq Steps
  BY TimeAssumption DEF TypeOK, Tokens, Steps, RefreshSteps
<1>1. CASE RefreshConsume(c)
  <2>1. PICK t \in issued : RefreshConsume(c)!(t)
    BY <1>1 DEF RefreshConsume
  <2>2. CASE t \in session
    <3> DEFINE l == [[[call[c] EXCEPT !.pc = "check"] EXCEPT !.token = t] EXCEPT !.checked = basis[t]]
    <3>1. t \in Tokens /\ basis[t] \in Nat
      BY <1>0 DEF TypeOK
    <3>2. l \in Locals
      BY <1>0, <3>1, FieldUpdates
    <3>3. call' = [call EXCEPT ![c] = l]
      BY <2>1, <2>2 DEF TypeOK, Locals
    <3>4. l.fresh = call[c].fresh
      BY <1>0 DEF Locals
    <3>5. consumed' \in [Tokens -> Nat]
      BY <2>1, <2>2, <3>1 DEF TypeOK
    <3> HIDE DEF l
    <3>6. QED
      BY <2>1, <3>2, <3>3, <3>4, <3>5 DEF TypeOK, SignedByNow, row
  <2>3. CASE t \notin session
    <3>1. /\ call' \in [Calls -> Locals]
          /\ \A d \in Calls : call'[d].fresh = call[d].fresh
      BY <2>1, <2>3, AnswerType DEF TypeOK
    <3>2. QED
      BY <2>1, <2>3, <3>1 DEF TypeOK, SignedByNow, row
  <2>4. QED
    BY <2>2, <2>3
<1>2. CASE ConsumeFails(c)
  <2>1. /\ call' \in [Calls -> Locals]
        /\ \A d \in Calls : call'[d].fresh = call[d].fresh
    BY <1>2, AnswerType DEF ConsumeFails, TypeOK
  <2>2. QED
    BY <1>2, <2>1 DEF ConsumeFails, TypeOK, SignedByNow, row, past
<1>3. CASE RefreshCheck(c)
  <2>1. /\ call' \in [Calls -> Locals]
        /\ \A d \in Calls : call'[d].fresh = call[d].fresh
    BY <1>0, <1>3, AnswerType, GotoType DEF RefreshCheck, TypeOK
  <2>2. QED
    BY <1>3, <2>1 DEF RefreshCheck, TypeOK, SignedByNow, row, redis, past
<1>4. CASE RefreshSign(c)
  <2>1. CASE active
    <3> DEFINE l == [[call[c] EXCEPT !.pc = "blacklist"] EXCEPT !.fresh = now]
    <3>1. l \in Locals
      BY <1>0, FieldUpdates
    <3>2. call' = [call EXCEPT ![c] = l]
      BY <1>4, <2>1 DEF RefreshSign, TypeOK, Locals
    <3>3. l.fresh = now /\ now <= now
      BY <1>0 DEF Locals, Tokens
    <3> HIDE DEF l
    <3>4. QED
      BY <1>4, <3>1, <3>2, <3>3 DEF RefreshSign, TypeOK, SignedByNow, row, redis, past
  <2>2. CASE ~active
    <3>1. /\ call' \in [Calls -> Locals]
          /\ \A d \in Calls : call'[d].fresh = call[d].fresh
      BY <1>4, <2>2, AnswerType DEF RefreshSign, TypeOK
    <3>2. QED
      BY <1>4, <3>1 DEF RefreshSign, TypeOK, SignedByNow, row, redis, past
  <2>3. QED
    BY <2>1, <2>2
<1>5. CASE RefreshBlacklist(c)
  <2>1. /\ call' \in [Calls -> Locals]
        /\ \A d \in Calls : call'[d].fresh = call[d].fresh
    BY <1>0, <1>5, GotoType DEF RefreshBlacklist, TypeOK
  <2>2. blacklist' \subseteq Tokens
    BY <1>0, <1>5 DEF RefreshBlacklist, TypeOK, Locals
  <2>3. QED
    BY <1>5, <2>1, <2>2 DEF RefreshBlacklist, TypeOK, SignedByNow, row, past
<1>6. CASE RefreshRecord(c)
  <2>1. call[c].fresh \in Tokens /\ call[c].fresh <= now /\ call[c].checked \in Nat
    BY <1>0 DEF SignedByNow, Locals
  <2>2. /\ session' \subseteq Tokens
        /\ issued' \subseteq 0 .. now
        /\ basis' \in [Tokens -> Nat]
        /\ recorded' \in [Tokens -> Nat]
    BY <1>6, <2>1, RecordType DEF RefreshRecord
  <2>3. /\ call' \in [Calls -> Locals]
        /\ \A d \in Calls : call'[d].fresh = call[d].fresh
    BY <1>6, AnswerType DEF RefreshRecord, TypeOK
  <2>4. QED
    BY <1>6, <2>2, <2>3 DEF RefreshRecord, TypeOK, SignedByNow, row
<1>7. CASE RefreshFails(c)
  <2>1. /\ call' \in [Calls -> Locals]
        /\ \A d \in Calls : call'[d].fresh = call[d].fresh
    BY <1>7, AnswerType DEF RefreshFails, TypeOK
  <2>2. QED
    BY <1>7, <2>1 DEF RefreshFails, TypeOK, SignedByNow, row, redis, past
<1>8. QED
  BY <1>1, <1>2, <1>3, <1>4, <1>5, <1>6, <1>7 DEF RefreshStep

\* The steps of logouts, revocations and password changes.
LEMMA RevokeTyped ==
  ASSUME SessionsTyped, NEW c \in Calls, RevokeStep(c)
  PROVE  SessionsTyped'
<1> USE DEF SessionsTyped
<1>0. /\ call[c] \in Locals /\ now \in Tokens
      /\ issued \subseteq Tokens
      /\ {"logout", "forget", "update", "list", "revoke", "done"} \subseteq Steps
  BY TimeAssumption DEF TypeOK, Tokens, Steps
<1>1. CASE LogoutStart(c)
  <2>1. PICK t \in issued : LogoutStart(c)!(t)
    BY <1>1 DEF LogoutStart
  <2> DEFINE l == [[call[c] EXCEPT !.pc = "logout"] EXCEPT !.token = t]
  <2>2. t \in Tokens
    BY <1>0
  <2>3. l \in Locals
    BY <1>0, <2>2, FieldUpdates
  <2>4. call' = [call EXCEPT ![c] = l]
    BY <2>1 DEF TypeOK, Locals
  <2>5. l.fresh = call[c].fresh
    BY <1>0 DEF Locals
  <2> HIDE DEF l
  <2>6. QED
    BY <2>1, <2>3, <2>4, <2>5 DEF TypeOK, SignedByNow, row, redis, past
<1>2. CASE LogoutBlacklist(c)
  <2>1. /\ call' \in [Calls -> Locals]
        /\ \A d \in Calls : call'[d].fresh = call[d].fresh
    BY <1>0, <1>2, GotoType DEF LogoutBlacklist, TypeOK
  <2>2. blacklist' \subseteq Tokens
    BY <1>0, <1>2 DEF LogoutBlacklist, TypeOK, Locals
  <2>3. QED
    BY <1>2, <2>1, <2>2 DEF LogoutBlacklist, TypeOK, SignedByNow, row, past
<1>3. CASE LogoutForget(c)
  <2>1. /\ call' \in [Calls -> Locals]
        /\ \A d \in Calls : call'[d].fresh = call[d].fresh
    BY <1>3, AnswerType DEF LogoutForget, TypeOK
  <2>2. QED
    BY <1>3, <2>1 DEF LogoutForget, TypeOK, SignedByNow, row, past
<1>4. CASE RevokeSession(c)
  <2>1. /\ call' \in [Calls -> Locals]
        /\ \A d \in Calls : call'[d].fresh = call[d].fresh
    BY <1>4, AnswerType DEF RevokeSession, TypeOK
  <2>2. QED
    BY <1>4, <2>1 DEF RevokeSession, TypeOK, SignedByNow, row, past
<1>5. CASE ChangeRead(c)
  <2> DEFINE l == [[call[c] EXCEPT !.pc = "update"] EXCEPT !.checked = password]
  <2>1. l \in Locals
    BY <1>0, FieldUpdates DEF TypeOK
  <2>2. call' = [call EXCEPT ![c] = l]
    BY <1>5 DEF ChangeRead, TypeOK, Locals
  <2>3. l.fresh = call[c].fresh
    BY <1>0 DEF Locals
  <2> HIDE DEF l
  <2>4. QED
    BY <1>5, <2>1, <2>2, <2>3 DEF ChangeRead, TypeOK, SignedByNow, row, redis, past
<1>6. CASE ChangeUpdate(c)
  <2>1. /\ call' \in [Calls -> Locals]
        /\ \A d \in Calls : call'[d].fresh = call[d].fresh
    BY <1>0, <1>6, GotoType DEF ChangeUpdate, TypeOK
  <2>2. QED
    BY <1>6, <2>1 DEF ChangeUpdate, TypeOK, SignedByNow, redis, past
<1>7. CASE ListSessions(c)
  <2>1. PICK found \in {session} \cup (IF RedisMayFail THEN {{}} ELSE {}) :
          call' = [call EXCEPT ![c].pc = "revoke", ![c].todo = found]
    BY <1>7 DEF ListSessions
  <2> DEFINE l == [[call[c] EXCEPT !.pc = "revoke"] EXCEPT !.todo = found]
  <2>2. found \in SUBSET Tokens
    BY DEF TypeOK
  <2>3. l \in Locals
    BY <1>0, <2>2, FieldUpdates
  <2>4. call' = [call EXCEPT ![c] = l]
    BY <2>1 DEF TypeOK, Locals
  <2>5. l.fresh = call[c].fresh
    BY <1>0 DEF Locals
  <2> HIDE DEF l
  <2>6. QED
    BY <1>7, <2>3, <2>4, <2>5 DEF ListSessions, TypeOK, SignedByNow, row, redis, past
<1>8. CASE RevokeNext(c)
  <2>1. PICK t \in call[c].todo : RevokeNext(c)!(t)
    BY <1>8 DEF RevokeNext
  <2> DEFINE l == [call[c] EXCEPT !.todo = @ \ {t}]
  <2>2. call[c].todo \ {t} \in SUBSET Tokens
    BY <1>0 DEF Locals
  <2>3. l \in Locals
    BY <1>0, <2>2, FieldUpdates
  <2>4. l.fresh = call[c].fresh
    BY <1>0 DEF Locals
  <2>5. call' = [call EXCEPT ![c] = l]
    BY <2>1
  <2> HIDE DEF l
  <2>6. QED
    BY <2>1, <2>3, <2>4, <2>5 DEF TypeOK, SignedByNow, row, past
<1>9. CASE RevokeEnds(c)
  <2>1. /\ call' \in [Calls -> Locals]
        /\ \A d \in Calls : call'[d].fresh = call[d].fresh
    BY <1>9, AnswerType DEF RevokeEnds, TypeOK
  <2>2. QED
    BY <1>9, <2>1 DEF RevokeEnds, TypeOK, SignedByNow, row, redis, past
<1>10. QED
  BY <1>1, <1>2, <1>3, <1>4, <1>5, <1>6, <1>7, <1>8, <1>9 DEF RevokeStep

LEMMA TypedStep == SessionsTyped /\ [Next]_vars => SessionsTyped'
<1> SUFFICES ASSUME SessionsTyped, [Next]_vars PROVE SessionsTyped'
  OBVIOUS
<1>1. ASSUME NEW c \in Calls, LoginStep(c) \/ RefreshStep(c) \/ RevokeStep(c)
      PROVE  SessionsTyped'
  BY <1>1, LoginTyped, RefreshTyped, RevokeTyped
<1>2. CASE DeactivateUser
  BY <1>2 DEF DeactivateUser, SessionsTyped, TypeOK, SignedByNow, redis, past
<1>3. CASE Tick
  <2>1. now' \in Tokens /\ \A t \in Tokens : t <= now => t <= now'
    BY <1>3, TimeAssumption DEF Tick, SessionsTyped, TypeOK, Tokens
  <2>2. issued' \subseteq 0 .. now'
    BY <1>3, TimeAssumption DEF Tick, SessionsTyped, TypeOK, Tokens
  <2>3. SignedByNow'
    BY <1>3, <2>1 DEF Tick, SessionsTyped, TypeOK, SignedByNow, Locals
  <2>4. QED
    BY <1>3, <2>1, <2>2, <2>3 DEF Tick, SessionsTyped, TypeOK, row, redis, past
<1>4. CASE UNCHANGED vars
  BY <1>4 DEF vars, row, redis, past, SessionsTyped, TypeOK, SignedByNow
<1>5. QED
  BY <1>1, <1>2, <1>3, <1>4 DEF Next

\* Keys, rows and locals always hold what they can hold, and no client ever
\* holds a token from the future (auth.service.js signs with the current time).
THEOREM TypeCorrect == Spec => []TypeOK
<1>1. SessionsTyped => TypeOK
  BY DEF SessionsTyped
<1>2. QED
  BY <1>1, TypedInit, TypedStep, PTL DEF Spec

----------------------------------------------------------------------------
(* What most steps leave alone                                             *)

\* No session appears, no refresh is let through, nothing is counted.
Quiet ==
  /\ session' \subseteq session
  /\ Rotating' \subseteq Rotating
  /\ UNCHANGED <<logins, recorded, consumed>>

\* A call that answers, or goes on where it is no refresh, rotates no longer.
LEMMA AnswerRotating ==
  ASSUME call \in [Calls -> Locals], NEW c \in Calls, NEW x, Answer(c, x)
  PROVE  Rotating' = Rotating \ {c}
<1>1. "done" \notin RefreshSteps
  BY DEF RefreshSteps
<1>2. \A d \in Calls : call'[d].pc = IF d = c THEN "done" ELSE call[d].pc
  BY DEF Answer, Locals
<1>3. QED
  BY <1>1, <1>2 DEF Rotating

LEMMA GotoRotating ==
  ASSUME call \in [Calls -> Locals], NEW c \in Calls, NEW to, Goto(c, to),
         to \in RefreshSteps => call[c].pc \in RefreshSteps
  PROVE  Rotating' \subseteq Rotating
<1>1. \A d \in Calls : call'[d].pc = IF d = c THEN to ELSE call[d].pc
  BY DEF Goto, Locals
<1>2. QED
  BY <1>1 DEF Rotating

\* The same of a call whose position changes along with other locals.
LEMMA MoveRotating ==
  ASSUME NEW c \in Calls, NEW to,
         \A d \in Calls : call'[d].pc = IF d = c THEN to ELSE call[d].pc,
         to \in RefreshSteps => call[c].pc \in RefreshSteps
  PROVE  Rotating' \subseteq Rotating
BY DEF Rotating

LEMMA QuietLogin ==
  ASSUME TypeOK, NEW c \in Calls, LoginStep(c), ~LoginRecord(c)
  PROVE  Quiet
<1>0. call \in [Calls -> Locals]
  BY DEF TypeOK
<1>1. CASE LoginRead(c)
  <2>1. \A d \in Calls : call'[d].pc = IF d = c THEN "sign" ELSE call[d].pc
    BY <1>0, <1>1, ZenonT(60) DEF LoginRead, Locals
  <2>2. QED
    BY <1>1, <2>1, MoveRotating DEF LoginRead, Quiet, redis, past, RefreshSteps
<1>2. CASE LoginSign(c)
  <2>1. \A d \in Calls : call'[d].pc = IF d = c THEN "record" ELSE call[d].pc
    BY <1>0, <1>2, ZenonT(60) DEF LoginSign, Locals
  <2>2. QED
    BY <1>2, <2>1, MoveRotating DEF LoginSign, Quiet, redis, past, RefreshSteps
<1>3. CASE RecordFails(c)
  BY <1>0, <1>3, AnswerRotating DEF RecordFails, Quiet, redis, past
<1>4. QED
  BY <1>1, <1>2, <1>3 DEF LoginStep

LEMMA QuietRefresh ==
  ASSUME TypeOK, NEW c \in Calls, RefreshStep(c), ~RefreshConsume(c), ~RefreshRecord(c)
  PROVE  Quiet
<1>0. call \in [Calls -> Locals]
  BY DEF TypeOK
<1>1. CASE ConsumeFails(c)
  <2>1. Rotating' \subseteq Rotating
    BY <1>0, <1>1, AnswerRotating DEF ConsumeFails
  <2>2. QED
    BY <1>1, <2>1 DEF ConsumeFails, Quiet, past
<1>2. CASE RefreshCheck(c)
  <2>1. Rotating' \subseteq Rotating
    BY <1>0, <1>2, AnswerRotating, GotoRotating DEF RefreshCheck, RefreshSteps
  <2>2. QED
    BY <1>2, <2>1 DEF RefreshCheck, Quiet, redis, past
<1>3. CASE RefreshSign(c)
  <2>1. CASE active
    <3>1. \A d \in Calls : call'[d].pc = IF d = c THEN "blacklist" ELSE call[d].pc
      BY <1>0, <1>3, <2>1 DEF RefreshSign, Locals
    <3>2. QED
      BY <1>3, <3>1, MoveRotating DEF RefreshSign, Quiet, redis, past, RefreshSteps
  <2>2. CASE ~active
    BY <1>0, <1>3, <2>2, AnswerRotating DEF RefreshSign, Quiet, redis, past
  <2>3. QED
    BY <2>1, <2>2
<1>4. CASE RefreshBlacklist(c)
  <2>1. Rotating' \subseteq Rotating
    BY <1>0, <1>4, GotoRotating DEF RefreshBlacklist, RefreshSteps
  <2>2. QED
    BY <1>4, <2>1 DEF RefreshBlacklist, Quiet, past
<1>5. CASE RefreshFails(c)
  BY <1>0, <1>5, AnswerRotating DEF RefreshFails, Quiet, redis, past
<1>6. QED
  BY <1>1, <1>2, <1>3, <1>4, <1>5 DEF RefreshStep

LEMMA QuietRevoke ==
  ASSUME TypeOK, NEW c \in Calls, RevokeStep(c)
  PROVE  Quiet
<1>0. call \in [Calls -> Locals]
  BY DEF TypeOK
<1>1. CASE LogoutStart(c)
  <2>1. \A d \in Calls : call'[d].pc = IF d = c THEN "logout" ELSE call[d].pc
    BY <1>0, <1>1 DEF LogoutStart, Locals
  <2>2. QED
    BY <1>1, <2>1, MoveRotating DEF LogoutStart, Quiet, redis, past, RefreshSteps
<1>2. CASE LogoutBlacklist(c)
  <2>1. Rotating' \subseteq Rotating
    BY <1>0, <1>2, GotoRotating DEF LogoutBlacklist, RefreshSteps
  <2>2. QED
    BY <1>2, <2>1 DEF LogoutBlacklist, Quiet, past
<1>3. CASE LogoutForget(c)
  <2>1. Rotating' \subseteq Rotating
    BY <1>0, <1>3, AnswerRotating DEF LogoutForget
  <2>2. QED
    BY <1>3, <2>1 DEF LogoutForget, Quiet, past
<1>4. CASE RevokeSession(c)
  <2>1. Rotating' \subseteq Rotating
    BY <1>0, <1>4, AnswerRotating DEF RevokeSession
  <2>2. QED
    BY <1>4, <2>1 DEF RevokeSession, Quiet, past
<1>5. CASE ChangeRead(c)
  <2>1. \A d \in Calls : call'[d].pc = IF d = c THEN "update" ELSE call[d].pc
    BY <1>0, <1>5, ZenonT(60) DEF ChangeRead, Locals
  <2>2. QED
    BY <1>5, <2>1, MoveRotating DEF ChangeRead, Quiet, redis, past, RefreshSteps
<1>6. CASE ChangeUpdate(c)
  <2>1. Rotating' \subseteq Rotating
    BY <1>0, <1>6, GotoRotating DEF ChangeUpdate, RefreshSteps
  <2>2. QED
    BY <1>6, <2>1 DEF ChangeUpdate, Quiet, redis, past
<1>7. CASE ListSessions(c)
  <2>1. PICK found \in {session} \cup (IF RedisMayFail THEN {{}} ELSE {}) :
          call' = [call EXCEPT ![c].pc = "revoke", ![c].todo = found]
    BY <1>7 DEF ListSessions
  <2>2. \A d \in Calls : call'[d].pc = IF d = c THEN "revoke" ELSE call[d].pc
    BY <1>0, <2>1 DEF Locals
  <2>3. QED
    BY <1>7, <2>2, MoveRotating DEF ListSessions, Quiet, redis, past, RefreshSteps
<1>8. CASE RevokeNext(c)
  <2>1. PICK t \in call[c].todo : RevokeNext(c)!(t)
    BY <1>8 DEF RevokeNext
  <2>2. \A d \in Calls : call'[d].pc = IF d = c THEN "revoke" ELSE call[d].pc
    BY <1>0, <2>1 DEF Locals
  <2>3. QED
    BY <2>1, <2>2, MoveRotating DEF Quiet, past, RefreshSteps
<1>9. CASE RevokeEnds(c)
  BY <1>0, <1>9, AnswerRotating DEF RevokeEnds, Quiet, redis, past
<1>10. QED
  BY <1>1, <1>2, <1>3, <1>4, <1>5, <1>6, <1>7, <1>8, <1>9 DEF RevokeStep

\* So only three steps can make or break the invariants below.
LEMMA QuietStep ==
  ASSUME TypeOK, [Next]_vars,
         \A c \in Calls : ~LoginRecord(c) /\ ~RefreshConsume(c) /\ ~RefreshRecord(c)
  PROVE  Quiet
<1>1. ASSUME NEW c \in Calls, LoginStep(c) \/ RefreshStep(c) \/ RevokeStep(c)
      PROVE  Quiet
  BY <1>1, QuietLogin, QuietRefresh, QuietRevoke
<1>2. CASE DeactivateUser
  BY <1>2 DEF DeactivateUser, Quiet, Rotating, redis, past
<1>3. CASE Tick
  BY <1>3 DEF Tick, Quiet, Rotating, redis, past
<1>4. CASE UNCHANGED vars
  BY <1>4 DEF vars, Quiet, Rotating, redis, past
<1>5. QED
  BY <1>1, <1>2, <1>3, <1>4 DEF Next

----------------------------------------------------------------------------
(* A token is exchanged once per recording                                 *)

LEMMA RecordPays ==
  ASSUME TypeOK, RefreshesArePaidFor, NEW t \in Tokens, NEW v,
         RecordSession(t, v), UNCHANGED consumed
  PROVE  RefreshesArePaidFor'
BY DEF TypeOK, RefreshesArePaidFor, RecordSession

LEMMA PaidForStep ==
  ASSUME TypeOK, [Next]_vars, RefreshesArePaidFor
  PROVE  RefreshesArePaidFor'
<1>0. call \in [Calls -> Locals] /\ issued \subseteq Tokens
  BY TimeAssumption DEF TypeOK, Tokens
<1>1. ASSUME NEW c \in Calls, LoginRecord(c)
      PROVE  RefreshesArePaidFor'
  <2>1. call[c].fresh \in Tokens
    BY <1>0 DEF Locals
  <2>2. QED
    BY <1>1, <2>1, RecordPays DEF LoginRecord
<1>2. ASSUME NEW c \in Calls, RefreshRecord(c)
      PROVE  RefreshesArePaidFor'
  <2>1. call[c].fresh \in Tokens
    BY <1>0 DEF Locals
  <2>2. QED
    BY <1>2, <2>1, RecordPays DEF RefreshRecord
<1>3. ASSUME NEW c \in Calls, RefreshConsume(c)
      PROVE  RefreshesArePaidFor'
  <2>1. PICK t \in issued : RefreshConsume(c)!(t)
    BY <1>3 DEF RefreshConsume
  <2>2. t \in Tokens
    BY <1>0
  <2>3. QED
    BY <2>1, <2>2 DEF TypeOK, RefreshesArePaidFor
<1>4. CASE Quiet
  BY <1>4 DEF TypeOK, Quiet, RefreshesArePaidFor
<1>5. QED
  BY <1>1, <1>2, <1>3, <1>4, QuietStep

\* A refresh token is exchanged at most as often as a session was recorded for
\* it, for any number of concurrent or repeated refreshes (consumeSession).
THEOREM RefreshesPaid == Spec => []RefreshesArePaidFor
<1>1. Init => RefreshesArePaidFor
  BY DEF Init, RefreshesArePaidFor
<1>2. TypeOK /\ [Next]_vars /\ RefreshesArePaidFor => RefreshesArePaidFor'
  BY PaidForStep
<1>3. QED
  BY <1>1, <1>2, TypeCorrect, PTL DEF Spec

----------------------------------------------------------------------------
(* Rotation never multiplies sessions                                      *)

LEMMA AddOne ==
  ASSUME NEW S, NEW x, IsFiniteSet(S)
  PROVE  /\ Cardinality(S \cup {x}) \in Nat
         /\ Cardinality(S \cup {x}) <= Cardinality(S) + 1
<1>1. Cardinality(S) \in Nat
  BY FS_CardinalityType
<1>2. Cardinality(S \cup {x}) = IF x \in S THEN Cardinality(S) ELSE Cardinality(S) + 1
  BY FS_AddElement
<1>3. QED
  BY <1>1, <1>2

LEMMA Finite ==
  ASSUME TypeOK
  PROVE  /\ IsFiniteSet(session) /\ Cardinality(session) \in Nat
         /\ IsFiniteSet(Rotating) /\ Cardinality(Rotating) \in Nat
<1>1. IsFiniteSet(Tokens)
  BY TimeAssumption, FS_Interval DEF Tokens
<1>2. IsFiniteSet(session)
  BY <1>1, FS_Subset DEF TypeOK
<1>3. Rotating \in SUBSET Calls
  BY DEF Rotating
<1>4. IsFiniteSet(Rotating)
  BY <1>3, CallsAssumption, FS_Subset
<1>5. QED
  BY <1>2, <1>4, FS_CardinalityType

LEMMA FewStep ==
  ASSUME TypeOK, [Next]_vars, SessionsNeverMultiply
  PROVE  SessionsNeverMultiply'
<1>0. call \in [Calls -> Locals] /\ logins \in Nat
  BY DEF TypeOK
<1>1. ASSUME NEW c \in Calls, LoginRecord(c)
      PROVE  SessionsNeverMultiply'
  <2> DEFINE t == call[c].fresh
  <2>1. Rotating' = Rotating \ {c} /\ c \notin Rotating
    BY <1>0, <1>1, AnswerRotating DEF LoginRecord, Rotating, RefreshSteps
  <2>2. session' = session \cup {t} /\ logins' = logins + 1
    BY <1>1 DEF LoginRecord, RecordSession
  <2>3. Cardinality(session \cup {t}) <= Cardinality(session) + 1
    BY Finite, AddOne
  <2>4. Rotating' = Rotating
    BY <2>1
  <2>5. Cardinality(session \cup {t}) \in Nat
    BY Finite, AddOne
  <2>6. Cardinality(session)' = Cardinality(session \cup {t})
        /\ Cardinality(Rotating)' = Cardinality(Rotating)
    BY <2>2, <2>4
  <2> HIDE DEF t
  <2>7. QED
    BY <1>0, <2>2, <2>3, <2>5, <2>6, Finite DEF SessionsNeverMultiply
<1>2. ASSUME NEW c \in Calls, RefreshRecord(c)
      PROVE  SessionsNeverMultiply'
  <2> DEFINE t == call[c].fresh
  <2>1. Rotating' = Rotating \ {c} /\ c \in Rotating
    BY <1>0, <1>2, AnswerRotating DEF RefreshRecord, Rotating, RefreshSteps
  <2>2. session' = session \cup {t} /\ logins' = logins
    BY <1>2 DEF RefreshRecord, RecordSession
  <2>3. Cardinality(session \cup {t}) <= Cardinality(session) + 1
        /\ Cardinality(session \cup {t}) \in Nat
    BY Finite, AddOne
  <2>4. Cardinality(Rotating \ {c}) = Cardinality(Rotating) - 1
    BY <2>1, Finite, FS_RemoveElement
  <2>5. Cardinality(session)' = Cardinality(session \cup {t})
        /\ Cardinality(Rotating)' = Cardinality(Rotating \ {c})
    BY <2>1, <2>2
  <2> HIDE DEF t
  <2>6. QED
    BY <1>0, <2>2, <2>3, <2>4, <2>5, Finite DEF SessionsNeverMultiply
<1>3. ASSUME NEW c \in Calls, RefreshConsume(c)
      PROVE  SessionsNeverMultiply'
  <2>1. PICK t \in issued : RefreshConsume(c)!(t)
    BY <1>3 DEF RefreshConsume
  <2>2. CASE t \in session
    <3>1. \A d \in Calls : call'[d].pc = IF d = c THEN "check" ELSE call[d].pc
      BY <1>0, <2>1, <2>2 DEF Locals
    <3>2. Rotating' = Rotating \cup {c}
      BY <3>1 DEF Rotating, RefreshSteps
    <3>3. session' = session \ {t} /\ logins' = logins
      BY <2>1
    <3>4. Cardinality(Rotating \cup {c}) <= Cardinality(Rotating) + 1
          /\ Cardinality(Rotating \cup {c}) \in Nat
      BY Finite, AddOne
    <3>5. Cardinality(session \ {t}) = Cardinality(session) - 1
      BY <2>2, Finite, FS_RemoveElement
    <3>6. Cardinality(session)' = Cardinality(session \ {t})
          /\ Cardinality(Rotating)' = Cardinality(Rotating \cup {c})
      BY <3>2, <3>3
    <3>7. QED
      BY <1>0, <3>3, <3>4, <3>5, <3>6, Finite DEF SessionsNeverMultiply
  <2>3. CASE t \notin session
    <3>1. Rotating' = Rotating \ {c} /\ c \notin Rotating
      BY <1>0, <2>1, <2>3, AnswerRotating DEF Rotating, RefreshSteps
    <3>2. session' = session /\ Rotating' = Rotating /\ logins' = logins
      BY <2>1, <2>3, <3>1
    <3>3. QED
      BY <3>2 DEF SessionsNeverMultiply
  <2>4. QED
    BY <2>2, <2>3
<1>4. CASE Quiet
  <2>1. /\ session' \in SUBSET session
        /\ Rotating' \in SUBSET Rotating
        /\ logins' = logins
    BY <1>4 DEF Quiet
  <2>2. /\ Cardinality(session') <= Cardinality(session)
        /\ Cardinality(session') \in Nat
    BY <2>1, Finite, FS_Subset, FS_CardinalityType
  <2>3. /\ Cardinality(Rotating') <= Cardinality(Rotating)
        /\ Cardinality(Rotating') \in Nat
    BY <2>1, Finite, FS_Subset, FS_CardinalityType
  <2>4. Cardinality(session)' = Cardinality(session')
        /\ Cardinality(Rotating)' = Cardinality(Rotating')
    OBVIOUS
  <2>5. QED
    BY <1>0, <2>1, <2>2, <2>3, <2>4, Finite DEF SessionsNeverMultiply
<1>5. QED
  BY <1>1, <1>2, <1>3, <1>4, QuietStep

\* Sessions alive and refreshes under way are at most as many as the logins,
\* whatever is replayed, fails or is revoked (consumeSession, recordSession).
THEOREM NeverMultiply == Spec => []SessionsNeverMultiply
<1>1. Init => SessionsNeverMultiply
  <2>1. SUFFICES ASSUME Init PROVE SessionsNeverMultiply
    OBVIOUS
  <2>2. session = {} /\ logins = 0
    BY <2>1 DEF Init
  <2>3. Rotating = {}
    BY <2>1 DEF Init, Rotating, RefreshSteps
  <2>4. QED
    BY <2>2, <2>3, FS_EmptySet DEF SessionsNeverMultiply
<1>2. TypeOK /\ [Next]_vars /\ SessionsNeverMultiply => SessionsNeverMultiply'
  BY FewStep
<1>3. QED
  BY <1>1, <1>2, TypeCorrect, PTL DEF Spec

----------------------------------------------------------------------------
(* Sessions implements RefreshLedger                                       *)

\* No call was let in, and no session goes back to, a password yet to be set.
NoneAhead ==
  /\ \A c \in Calls : call[c].checked <= password
  /\ \A t \in Tokens : basis[t] <= password

\* A call that rotates, and a session, keep the password they go back to.
Carried ==
  /\ UNCHANGED basis
  /\ \A c \in Calls : \/ call'[c].checked = call[c].checked
                      \/ call'[c].checked = password /\ call'[c].pc \notin RefreshSteps
  /\ \/ UNCHANGED password
     \/ password' = password + 1 /\ UNCHANGED <<session, Rotating>>

LEMMA AnswerCarries ==
  ASSUME call \in [Calls -> Locals], NEW c \in Calls, NEW x, Answer(c, x)
  PROVE  \A d \in Calls : call'[d].checked = call[d].checked
BY DEF Answer, Locals

LEMMA GotoCarries ==
  ASSUME call \in [Calls -> Locals], NEW c \in Calls, NEW to, Goto(c, to)
  PROVE  \A d \in Calls : call'[d].checked = call[d].checked
BY DEF Goto, Locals

LEMMA CarriedLogin ==
  ASSUME TypeOK, NEW c \in Calls, LoginStep(c), ~LoginRecord(c)
  PROVE  Carried
<1>0. call \in [Calls -> Locals]
  BY DEF TypeOK
<1>1. CASE LoginRead(c)
  <2>1. \A d \in Calls : /\ call'[d].checked = IF d = c THEN password ELSE call[d].checked
                         /\ call'[d].pc = IF d = c THEN "sign" ELSE call[d].pc
    BY <1>0, <1>1 DEF LoginRead, Locals
  <2>2. UNCHANGED <<basis, password>>
    BY <1>1 DEF LoginRead, row, past
  <2>3. "sign" \notin RefreshSteps
    BY DEF RefreshSteps
  <2>4. ASSUME NEW d \in Calls
        PROVE  \/ call'[d].checked = call[d].checked
               \/ call'[d].checked = password /\ call'[d].pc \notin RefreshSteps
    <3>1. CASE d = c
      BY <2>1, <2>3, <3>1
    <3>2. CASE d # c
      BY <2>1, <3>2
    <3>3. QED
      BY <3>1, <3>2
  <2>5. QED
    BY <2>2, <2>4 DEF Carried
<1>2. CASE LoginSign(c)
  <2>1. \A d \in Calls : call'[d].checked = call[d].checked
    BY <1>0, <1>2 DEF LoginSign, Locals
  <2>2. QED
    BY <1>2, <2>1 DEF LoginSign, Carried, row, past
<1>3. CASE RecordFails(c)
  BY <1>0, <1>3, AnswerCarries DEF RecordFails, Carried, row, past
<1>4. QED
  BY <1>1, <1>2, <1>3 DEF LoginStep

LEMMA CarriedRefresh ==
  ASSUME TypeOK, NEW c \in Calls, RefreshStep(c), ~RefreshConsume(c), ~RefreshRecord(c)
  PROVE  Carried
<1>0. call \in [Calls -> Locals]
  BY DEF TypeOK
<1>1. \A d \in Calls : call'[d].checked = call[d].checked
  <2>1. CASE ConsumeFails(c)
    BY <1>0, <2>1, AnswerCarries DEF ConsumeFails
  <2>2. CASE RefreshCheck(c)
    BY <1>0, <2>2, AnswerCarries, GotoCarries DEF RefreshCheck
  <2>3. CASE RefreshSign(c)
    <3>1. CASE active
      BY <1>0, <2>3, <3>1 DEF RefreshSign, Locals
    <3>2. CASE ~active
      BY <1>0, <2>3, <3>2, AnswerCarries DEF RefreshSign
    <3>3. QED
      BY <3>1, <3>2
  <2>4. CASE RefreshBlacklist(c)
    BY <1>0, <2>4, GotoCarries DEF RefreshBlacklist
  <2>5. CASE RefreshFails(c)
    BY <1>0, <2>5, AnswerCarries DEF RefreshFails
  <2>6. QED
    BY <2>1, <2>2, <2>3, <2>4, <2>5 DEF RefreshStep
<1>2. UNCHANGED <<basis, password>>
  BY DEF RefreshStep, ConsumeFails, RefreshCheck, RefreshSign, RefreshBlacklist, RefreshFails, row, past
<1>3. QED
  BY <1>1, <1>2 DEF Carried

LEMMA CarriedRevoke ==
  ASSUME TypeOK, NEW c \in Calls, RevokeStep(c)
  PROVE  Carried
<1>0. call \in [Calls -> Locals]
  BY DEF TypeOK
<1>1. CASE ChangeRead(c)
  <2>1. \A d \in Calls : /\ call'[d].checked = IF d = c THEN password ELSE call[d].checked
                         /\ call'[d].pc = IF d = c THEN "update" ELSE call[d].pc
    BY <1>0, <1>1 DEF ChangeRead, Locals
  <2>2. UNCHANGED <<basis, password>>
    BY <1>1 DEF ChangeRead, row, past
  <2>3. "update" \notin RefreshSteps
    BY DEF RefreshSteps
  <2>4. ASSUME NEW d \in Calls
        PROVE  \/ call'[d].checked = call[d].checked
               \/ call'[d].checked = password /\ call'[d].pc \notin RefreshSteps
    <3>1. CASE d = c
      BY <2>1, <2>3, <3>1
    <3>2. CASE d # c
      BY <2>1, <3>2
    <3>3. QED
      BY <3>1, <3>2
  <2>5. QED
    BY <2>2, <2>4 DEF Carried
<1>2. CASE ChangeUpdate(c)
  <2>1. \A d \in Calls : call'[d].checked = call[d].checked
    BY <1>0, <1>2, GotoCarries DEF ChangeUpdate
  <2>2. \A d \in Calls : call'[d].pc = IF d = c THEN "list" ELSE call[d].pc
    BY <1>0, <1>2 DEF ChangeUpdate, Goto, Locals
  <2>3. Rotating' = Rotating
    BY <1>2, <2>2 DEF ChangeUpdate, Rotating, RefreshSteps
  <2>4. QED
    BY <1>2, <2>1, <2>3 DEF ChangeUpdate, Carried, redis, past
<1>3. ASSUME ~ChangeRead(c), ~ChangeUpdate(c)
      PROVE  (\A d \in Calls : call'[d].checked = call[d].checked) /\ UNCHANGED <<basis, password>>
  <2>1. CASE LogoutStart(c)
    BY <1>0, <2>1 DEF LogoutStart, Locals, row, past
  <2>2. CASE LogoutBlacklist(c)
    BY <1>0, <2>2, GotoCarries DEF LogoutBlacklist, row, past
  <2>3. CASE LogoutForget(c)
    BY <1>0, <2>3, AnswerCarries DEF LogoutForget, row, past
  <2>4. CASE RevokeSession(c)
    BY <1>0, <2>4, AnswerCarries DEF RevokeSession, row, past
  <2>5. CASE ListSessions(c)
    <3>1. PICK found \in {session} \cup (IF RedisMayFail THEN {{}} ELSE {}) :
            call' = [call EXCEPT ![c].pc = "revoke", ![c].todo = found]
      BY <2>5 DEF ListSessions
    <3>2. QED
      BY <1>0, <2>5, <3>1 DEF ListSessions, Locals, row, past
  <2>6. CASE RevokeNext(c)
    <3>1. PICK t \in call[c].todo : RevokeNext(c)!(t)
      BY <2>6 DEF RevokeNext
    <3>2. QED
      BY <1>0, <3>1 DEF Locals, row, past
  <2>7. CASE RevokeEnds(c)
    BY <1>0, <2>7, AnswerCarries DEF RevokeEnds, row, past
  <2>8. QED
    BY <1>3, <2>1, <2>2, <2>3, <2>4, <2>5, <2>6, <2>7 DEF RevokeStep
<1>4. QED
  BY <1>1, <1>2, <1>3 DEF Carried

LEMMA CarriedStep ==
  ASSUME TypeOK, [Next]_vars,
         \A c \in Calls : ~LoginRecord(c) /\ ~RefreshConsume(c) /\ ~RefreshRecord(c)
  PROVE  Carried
<1>1. ASSUME NEW c \in Calls, LoginStep(c) \/ RefreshStep(c) \/ RevokeStep(c)
      PROVE  Carried
  BY <1>1, CarriedLogin, CarriedRefresh, CarriedRevoke
<1>2. CASE DeactivateUser
  BY <1>2 DEF DeactivateUser, Carried, past
<1>3. CASE Tick
  BY <1>3 DEF Tick, Carried, row, past
<1>4. CASE UNCHANGED vars
  BY <1>4 DEF vars, Carried, row, past
<1>5. QED
  BY <1>1, <1>2, <1>3, <1>4 DEF Next

\* The three steps that the others are not, in the terms of the ledger.
Opened(c) ==
  /\ session' = session \cup {call[c].fresh}
  /\ basis' = [basis EXCEPT ![call[c].fresh] = call[c].checked]
  /\ Rotating' = Rotating \ {c}
  /\ UNCHANGED password
  /\ \A d \in Calls : call'[d].checked = call[d].checked

LEMMA RecordOpens ==
  ASSUME TypeOK, NEW c \in Calls, LoginRecord(c) \/ RefreshRecord(c)
  PROVE  Opened(c)
<1>1. call \in [Calls -> Locals]
  BY DEF TypeOK
<1>2. Rotating' = Rotating \ {c} /\ \A d \in Calls : call'[d].checked = call[d].checked
  BY <1>1, AnswerRotating, AnswerCarries DEF LoginRecord, RefreshRecord
<1>3. QED
  BY <1>2 DEF LoginRecord, RefreshRecord, RecordSession, Opened, row

Taken(c, t) ==
  /\ t \in session /\ session' = session \ {t}
  /\ c \notin Rotating /\ Rotating' = Rotating \cup {c}
  /\ UNCHANGED <<basis, password>>
  /\ \A d \in Calls : call'[d].checked = IF d = c THEN basis[t] ELSE call[d].checked

LEMMA ConsumeTakes ==
  ASSUME TypeOK, NEW c \in Calls, RefreshConsume(c)
  PROVE  (\E t \in Tokens : Taken(c, t)) \/ (Quiet /\ Carried)
<1>0. call \in [Calls -> Locals] /\ issued \subseteq Tokens
  BY TimeAssumption DEF TypeOK, Tokens
<1>1. PICK t \in issued : RefreshConsume(c)!(t)
  BY DEF RefreshConsume
<1>2. CASE t \in session
  <2>1. \A d \in Calls : /\ call'[d].pc = IF d = c THEN "check" ELSE call[d].pc
                         /\ call'[d].checked = IF d = c THEN basis[t] ELSE call[d].checked
    BY <1>0, <1>1, <1>2 DEF Locals
  <2>2. Rotating' = Rotating \cup {c} /\ c \notin Rotating
    BY <1>1, <2>1 DEF Rotating, RefreshSteps
  <2>3. Taken(c, t)
    BY <1>1, <1>2, <2>1, <2>2 DEF Taken, row
  <2>4. QED
    BY <1>0, <2>3
<1>3. CASE t \notin session
  <2>1. Rotating' = Rotating \ {c} /\ \A d \in Calls : call'[d].checked = call[d].checked
    BY <1>0, <1>1, <1>3, AnswerRotating, AnswerCarries
  <2>2. QED
    BY <1>1, <1>3, <2>1 DEF Quiet, Carried, row
<1>4. QED
  BY <1>2, <1>3

\* What every step is.
LEMMA StepIs ==
  ASSUME TypeOK, [Next]_vars
  PROVE  \/ \E c \in Calls : (LoginRecord(c) \/ RefreshRecord(c)) /\ Opened(c)
         \/ \E c \in Calls, t \in Tokens : Taken(c, t)
         \/ Quiet /\ Carried
BY RecordOpens, ConsumeTakes, QuietStep, CarriedStep

LEMMA AheadStep ==
  ASSUME TypeOK, TypeOK', [Next]_vars, NoneAhead
  PROVE  NoneAhead'
<1>0. /\ password \in Nat /\ password' \in Nat
      /\ basis \in [Tokens -> Nat] /\ basis' \in [Tokens -> Nat]
      /\ \A c \in Calls : call[c].checked \in Nat /\ call'[c].checked \in Nat
  BY DEF TypeOK, Locals
<1>1. ASSUME NEW c \in Calls, Opened(c) PROVE NoneAhead'
  BY <1>0, <1>1 DEF Opened, NoneAhead
<1>2. ASSUME NEW c \in Calls, NEW t \in Tokens, Taken(c, t) PROVE NoneAhead'
  BY <1>0, <1>2 DEF Taken, NoneAhead
<1>3. CASE Carried
  <2>1. password <= password' /\ UNCHANGED basis
    BY <1>0, <1>3 DEF Carried
  <2>2. \A c \in Calls : call'[c].checked <= password
    BY <1>0, <1>3 DEF Carried, NoneAhead
  <2>3. \A c \in Calls : call'[c].checked <= password'
    BY <1>0, <2>1, <2>2
  <2>4. \A t \in Tokens : basis'[t] <= password'
    BY <1>0, <2>1 DEF NoneAhead
  <2>5. QED
    BY <2>3, <2>4 DEF NoneAhead
<1>4. QED
  BY <1>1, <1>2, <1>3, StepIs

LEMMA InitLedger == Init => Ledger!Init
<1> SUFFICES ASSUME Init PROVE Ledger!Init
  OBVIOUS
<1>1. session = {} /\ password = 0
  BY DEF Init
<1>2. Rotating = {}
  BY DEF Init, Rotating, RefreshSteps
<1>3. QED
  BY <1>1, <1>2 DEF Ledger!Init

LEMMA OpenedIsLogin ==
  ASSUME TypeOK, NoneAhead, NEW c \in Calls, LoginRecord(c), Opened(c)
  PROVE  \E t \in Tokens : Ledger!Login(t)
<1>0. call[c] \in Locals /\ password \in Nat
  BY DEF TypeOK
<1>t. PICK t \in Tokens, v \in Nat : t = call[c].fresh /\ v = call[c].checked
  BY <1>0 DEF Locals
<1>1. t \in Tokens /\ v \in 0 .. password /\ session \subseteq Tokens /\ basis \in [Tokens -> Nat]
  BY <1>0, <1>t DEF TypeOK, NoneAhead
<1>2. c \notin Rotating
  BY DEF LoginRecord, Rotating, RefreshSteps
<1>3. Rotating' = Rotating /\ \A d \in Calls : call'[d].checked = call[d].checked
  BY <1>2 DEF Opened
<1>4. Rotating \subseteq Calls
  BY DEF Rotating
<1>5. [d \in Rotating |-> call[d].checked]' = [d \in Rotating |-> call[d].checked]
  BY <1>3, <1>4
<1>6. session' = session \cup {t} /\ basis' = [basis EXCEPT ![t] = v] /\ password' = password
  BY <1>t DEF Opened
<1>7. [x \in session |-> basis[x]]' = Ledger!With([x \in session |-> basis[x]], t, v)
  BY <1>1, <1>6 DEF Ledger!With
<1>8. Ledger!Login(t)
  BY <1>1, <1>5, <1>6, <1>7 DEF Ledger!Login
<1>9. QED
  BY <1>8

LEMMA OpenedIsGiveBack ==
  ASSUME TypeOK, NEW c \in Calls, RefreshRecord(c), Opened(c)
  PROVE  \E t \in Tokens : Ledger!GiveBack(c, t)
<1> DEFINE U == [d \in Rotating |-> call[d].checked]
           L == [x \in session |-> basis[x]]
<1>t. PICK t \in Tokens, v \in Nat : t = call[c].fresh /\ v = call[c].checked
  BY DEF TypeOK, Locals
<1>1. session \subseteq Tokens /\ basis \in [Tokens -> Nat]
  BY DEF TypeOK
<1>2. c \in Rotating /\ Rotating \subseteq Calls
  BY DEF RefreshRecord, Rotating, RefreshSteps
<1>3. /\ Rotating' = Rotating \ {c} /\ \A d \in Calls : call'[d].checked = call[d].checked
      /\ session' = session \cup {t} /\ basis' = [basis EXCEPT ![t] = v] /\ password' = password
  BY <1>t DEF Opened
<1>4. c \in DOMAIN U /\ U[c] = v
  BY <1>t, <1>2
<1>5. U' = Ledger!Without(U, c)
  <2>1. U' = [d \in Rotating \ {c} |-> call'[d].checked]
    BY <1>3
  <2>2. [d \in Rotating \ {c} |-> call'[d].checked] = [d \in Rotating \ {c} |-> call[d].checked]
    BY <1>2, <1>3
  <2>3. Ledger!Without(U, c) = [d \in Rotating \ {c} |-> call[d].checked]
    BY DEF Ledger!Without, Ledger!Only
  <2>4. QED
    BY <2>1, <2>2, <2>3
<1>6. L' = Ledger!With(L, t, v)
  BY <1>1, <1>3 DEF Ledger!With
<1>7. Ledger!GiveBack(c, t)
  BY <1>3, <1>4, <1>5, <1>6 DEF Ledger!GiveBack
<1>8. QED
  BY <1>7

LEMMA TakenIsTake ==
  ASSUME TypeOK, NEW c \in Calls, NEW t \in Tokens, Taken(c, t)
  PROVE  Ledger!Take(c, t)
<1> DEFINE U == [d \in Rotating |-> call[d].checked]
           L == [x \in session |-> basis[x]]
<1>1. Rotating \subseteq Calls
  BY DEF Rotating
<1>2. t \in DOMAIN L /\ L[t] = basis[t] /\ c \notin DOMAIN U
  BY DEF Taken
<1>3. L' = Ledger!Without(L, t)
  <2>1. L' = [x \in session \ {t} |-> basis[x]]
    BY DEF Taken
  <2>2. QED
    BY <2>1 DEF Ledger!Without, Ledger!Only
<1>4. U' = Ledger!With(U, c, basis[t])
  <2>1. U' = [d \in Rotating \cup {c} |-> call'[d].checked]
    BY DEF Taken
  <2>2. \A d \in Rotating \cup {c} : call'[d].checked = IF d = c THEN basis[t] ELSE U[d]
    BY <1>1 DEF Taken
  <2>3. U' = [d \in Rotating \cup {c} |-> IF d = c THEN basis[t] ELSE U[d]]
    BY <2>1, <2>2
  <2>4. QED
    BY <2>3 DEF Ledger!With
<1>5. password' = password
  BY DEF Taken
<1>6. QED
  BY <1>2, <1>3, <1>4, <1>5 DEF Ledger!Take

LEMMA QuietIsLoss ==
  ASSUME TypeOK, Quiet, Carried
  PROVE  Ledger!Next
<1> DEFINE U == [d \in Rotating |-> call[d].checked]
           L == [x \in session |-> basis[x]]
<1>1. Rotating \subseteq Calls /\ Rotating' \subseteq Calls /\ session \subseteq Tokens
  BY DEF Rotating, TypeOK
<1>2. \A d \in Rotating' : d \in Rotating /\ call'[d].checked = call[d].checked
  BY DEF Quiet, Carried, Rotating
<1>3. PICK S \in SUBSET Tokens, C \in SUBSET Calls : S = session' /\ C = Rotating'
  <2>1. session' \in SUBSET Tokens /\ Rotating' \in SUBSET Calls
    BY <1>1 DEF Quiet
  <2>2. QED
    BY <2>1
<1>4. L' = [x \in S |-> basis[x]] /\ S \subseteq session
  BY <1>3 DEF Quiet, Carried
<1>5. U' = [d \in C |-> call[d].checked] /\ C \subseteq Rotating
  <2>1. U' = [d \in C |-> call'[d].checked]
    BY <1>3
  <2>2. \A d \in C : d \in Rotating /\ call'[d].checked = call[d].checked
    BY <1>2, <1>3
  <2>3. QED
    BY <2>1, <2>2
<1>6. L' = Ledger!Only(L, S)
  <2>1. session \cap S = S
    BY <1>4
  <2>2. QED
    BY <1>4, <2>1 DEF Ledger!Only
<1>7. U' = Ledger!Only(U, C)
  <2>1. Rotating \cap C = C
    BY <1>5
  <2>2. QED
    BY <1>5, <2>1 DEF Ledger!Only
<1>8. CASE UNCHANGED password
  <2>1. Ledger!Lose(S, C)
    BY <1>6, <1>7, <1>8 DEF Ledger!Lose
  <2>2. QED
    BY <2>1 DEF Ledger!Next
<1>9. CASE password' = password + 1 /\ UNCHANGED <<session, Rotating>>
  <2>1. S = session /\ C = Rotating
    BY <1>3, <1>9
  <2>2. L' = L /\ U' = U
    BY <1>4, <1>5, <2>1
  <2>3. Ledger!ChangePassword
    BY <1>9, <2>2 DEF Ledger!ChangePassword
  <2>4. QED
    BY <2>3 DEF Ledger!Next
<1>10. QED
  BY <1>8, <1>9 DEF Carried

LEMMA StepLedger == TypeOK /\ NoneAhead /\ [Next]_vars => [Ledger!Next]_Ledger!ledger
<1> SUFFICES ASSUME TypeOK, NoneAhead, [Next]_vars PROVE Ledger!Next
  OBVIOUS
<1>1. ASSUME NEW c \in Calls, LoginRecord(c), Opened(c) PROVE Ledger!Next
  BY <1>1, OpenedIsLogin DEF Ledger!Next
<1>2. ASSUME NEW c \in Calls, RefreshRecord(c), Opened(c) PROVE Ledger!Next
  BY <1>2, OpenedIsGiveBack DEF Ledger!Next
<1>3. ASSUME NEW c \in Calls, NEW t \in Tokens, Taken(c, t) PROVE Ledger!Next
  BY <1>3, TakenIsTake DEF Ledger!Next
<1>4. CASE Quiet /\ Carried
  BY <1>4, QuietIsLoss
<1>5. QED
  BY <1>1, <1>2, <1>3, <1>4, StepIs

\* Whatever clients replay and Redis refuses, sessions are only opened by logins
\* and passed on by refreshes, one for one and on the password of the login
\* (auth.routes.js login and refresh, session.service.js).
THEOREM SessionsImplementRefreshLedger == Spec => ImplementsRefreshLedger
<1>1. Init => NoneAhead
  BY DEF Init, NoneAhead
<1>2. TypeOK /\ TypeOK' /\ NoneAhead /\ [Next]_vars => NoneAhead'
  BY AheadStep
<1>3. QED
  BY <1>1, <1>2, TypeCorrect, InitLedger, StepLedger, PTL DEF Spec, ImplementsRefreshLedger, Ledger!Spec
===============================================================================
