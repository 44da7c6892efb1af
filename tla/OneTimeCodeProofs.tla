------------------------- MODULE OneTimeCodeProofs -------------------------
(***************************************************************************)
(* For any number of calls, tokens and codes: a token is spent once its    *)
(* use has been answered, a Google state lets one call in, and the mailed  *)
(* tokens are the vouchers of Voucher.                                     *)
(***************************************************************************)
EXTENDS OneTimeCode, TLAPS

----------------------------------------------------------------------------
(* Secrets, keys and locals                                                *)

\* Secrets that carry random bytes.
Drawn(s) == s \in TokenSecrets \cup StateSecrets

LEMMA SecretKinds ==
  /\ \A s \in Secrets : Drawn(s) \/ s \in CodeSecrets
  /\ \A s \in Secrets : Drawn(s) <=> s.kind # "otp"
  /\ \A s \in Secrets : s \in StateSecrets <=> s.kind = "state"
  /\ \A s \in Secrets : s \in TokenSecrets <=> s.kind \in {"verify", "reset", "invite"}
  /\ \A s : Drawn(s) => s \in Secrets /\ s.id \in Tokens
  /\ NoSecret \notin Secrets
BY DEF Drawn, Secrets, TokenSecrets, StateSecrets, CodeSecrets, NoSecret

\* SET and DEL touch one drawn secret, or none.
LEMMA KeysApart ==
  ASSUME NEW s \in Secrets, NEW x, Drawn(x)
  PROVE  /\ x \in Set(s) <=> x \in stored \/ x = s
         /\ x \in Del(s) <=> x \in stored /\ x # s
<1>1. x.kind # "otp"
  BY SecretKinds
<1>2. SameKey(x, s) <=> x = s
  BY <1>1 DEF SameKey
<1>3. SameKey(s, x) <=> x = s
  BY <1>1 DEF SameKey
<1>4. QED
  BY <1>2, <1>3 DEF Set, Del

LEMMA KeyTypes ==
  ASSUME stored \subseteq Secrets, NEW s \in Secrets
  PROVE  Set(s) \subseteq Secrets /\ Del(s) \subseteq stored /\ s \notin Del(s)
BY DEF Set, Del, SameKey

Pcs == {"idle", "enroll", "delete", "done"} \cup UseSteps \cup SendSteps
Answers == {"none", "SENT", "USED", "REGISTERED", "REFUSED", "ERROR", "LOST"}

\* Locals with one field replaced.
LEMMA FieldUpdates ==
  ASSUME NEW l \in Locals
  PROVE  /\ \A x \in Pcs : [l EXCEPT !.pc = x] \in Locals
         /\ \A s \in Secrets \cup {NoSecret} : [l EXCEPT !.secret = s] \in Locals
         /\ \A x \in Rows : [l EXCEPT !.saw = x] \in Locals
BY DEF Locals, Pcs

LEMMA AnsweredType ==
  ASSUME NEW l \in Locals, NEW x \in Answers
  PROVE  /\ Answered(l, x) \in Locals
         /\ Answered(l, x).pc = "done"
         /\ Answered(l, x).answer = x
         /\ x = "USED" => Answered(l, x).secret = l.secret
         /\ x # "USED" => Answered(l, x).secret = NoSecret
BY DEF Answered, Locals, Answers, Rows

\* What each way of going on makes of the locals.
LEMMA Moves ==
  ASSUME call \in [Calls -> Locals], NEW c \in Calls
  PROVE  /\ \A to \in Pcs, s \in Secrets : Begin(c, to, s) =>
              /\ call' \in [Calls -> Locals]
              /\ call'[c].pc = to /\ call'[c].secret = s /\ call'[c].answer = call[c].answer
              /\ \A d \in Calls : d # c => call'[d] = call[d]
         /\ \A to \in Pcs : Goto(c, to) \/ (row \in Rows /\ GotoSeen(c, to)) =>
              /\ call' \in [Calls -> Locals]
              /\ call'[c].pc = to /\ call'[c].secret = call[c].secret
              /\ call'[c].answer = call[c].answer
              /\ \A d \in Calls : d # c => call'[d] = call[d]
         /\ \A x \in Answers : Answer(c, x) =>
              /\ call' \in [Calls -> Locals]
              /\ call'[c].pc = "done" /\ call'[c].answer = x
              /\ x = "USED" => call'[c].secret = call[c].secret
              /\ x # "USED" => call'[c].secret = NoSecret
              /\ \A d \in Calls : d # c => call'[d] = call[d]
<1> DEFINE l == call[c]
<1>0. l \in Locals
  OBVIOUS
<1>1. ASSUME NEW to \in Pcs, NEW s \in Secrets, Begin(c, to, s)
      PROVE  /\ call' \in [Calls -> Locals]
             /\ call'[c].pc = to /\ call'[c].secret = s /\ call'[c].answer = call[c].answer
             /\ \A d \in Calls : d # c => call'[d] = call[d]
  <2> DEFINE m == [[l EXCEPT !.pc = to] EXCEPT !.secret = s]
  <2>1. m \in Locals
    BY <1>0, FieldUpdates
  <2>2. call' = [call EXCEPT ![c] = m]
    BY <1>0, <1>1 DEF Begin, Locals
  <2>3. m.pc = to /\ m.secret = s /\ m.answer = l.answer
    BY <1>0 DEF Locals
  <2> HIDE DEF m
  <2>4. QED
    BY <2>1, <2>2, <2>3
<1>2. ASSUME NEW to \in Pcs, Goto(c, to)
      PROVE  /\ call' \in [Calls -> Locals]
             /\ call'[c].pc = to /\ call'[c].secret = call[c].secret
             /\ call'[c].answer = call[c].answer
             /\ \A d \in Calls : d # c => call'[d] = call[d]
  <2> DEFINE m == [l EXCEPT !.pc = to]
  <2>1. m \in Locals
    BY <1>0, FieldUpdates
  <2>2. call' = [call EXCEPT ![c] = m]
    BY <1>2 DEF Goto
  <2>3. m.pc = to /\ m.secret = l.secret /\ m.answer = l.answer
    BY <1>0 DEF Locals
  <2> HIDE DEF m
  <2>4. QED
    BY <2>1, <2>2, <2>3
<1>3. ASSUME NEW to \in Pcs, row \in Rows, GotoSeen(c, to)
      PROVE  /\ call' \in [Calls -> Locals]
             /\ call'[c].pc = to /\ call'[c].secret = call[c].secret
             /\ call'[c].answer = call[c].answer
             /\ \A d \in Calls : d # c => call'[d] = call[d]
  <2> DEFINE m == [[l EXCEPT !.pc = to] EXCEPT !.saw = row]
  <2>1. m \in Locals
    BY <1>0, <1>3, FieldUpdates
  <2>2. call' = [call EXCEPT ![c] = m]
    BY <1>0, <1>3 DEF GotoSeen, Locals
  <2>3. m.pc = to /\ m.secret = l.secret /\ m.answer = l.answer
    BY <1>0 DEF Locals
  <2> HIDE DEF m
  <2>4. QED
    BY <2>1, <2>2, <2>3
<1>4. ASSUME NEW x \in Answers, Answer(c, x)
      PROVE  /\ call' \in [Calls -> Locals]
             /\ call'[c].pc = "done" /\ call'[c].answer = x
             /\ x = "USED" => call'[c].secret = call[c].secret
             /\ x # "USED" => call'[c].secret = NoSecret
             /\ \A d \in Calls : d # c => call'[d] = call[d]
  <2>1. call' = [call EXCEPT ![c] = Answered(l, x)]
    BY <1>4 DEF Answer
  <2>2. QED
    BY <1>0, <2>1, AnsweredType
<1>5. QED
  BY <1>1, <1>2, <1>3, <1>4

----------------------------------------------------------------------------
(* The invariant                                                           *)

\* Whatever is anywhere has been drawn.
Provenance ==
  /\ \A s \in stored \cup known \cup lapsed : Drawn(s) => s.id \in drawn
  /\ \A s \in TokenSecrets : effects[s] > 0 => s.id \in drawn
  /\ \A c \in Calls : Drawn(call[c].secret) => call[c].secret.id \in drawn

\* Before its SET nobody but the call that drew it has a token.
NotYetStored ==
  \A c \in Calls : call[c].pc = "store" /\ Drawn(call[c].secret) =>
    /\ call[c].secret \notin stored \cup known \cup lapsed
    /\ call[c].secret \in TokenSecrets => effects[call[c].secret] = 0
    /\ \A d \in Calls : call[d].secret = call[c].secret => d = c

\* What a call at each position has, and has done.
Positions ==
  \A c \in Calls :
    /\ call[c].pc # "done" => call[c].answer = "none"
    /\ call[c].pc \in UseSteps \cup SendSteps \cup {"delete"} => call[c].secret \in Secrets
    /\ call[c].pc = "delete" =>
         /\ call[c].secret \notin StateSecrets
         /\ call[c].secret \in TokenSecrets => effects[call[c].secret] > 0

\* A state that let a call in is not stored.
StateTaken == \A c \in Calls : LetIn(c) => call[c].secret \notin stored

Inv == /\ TypeOK
       /\ Provenance
       /\ NotYetStored
       /\ Positions
       /\ AnsweredIsSpent
       /\ StateTaken
       /\ StateIsSingleUse

\* What any step of call c leaves as it is or may change.
Frame(c) ==
  /\ call' \in [Calls -> Locals]
  /\ \A d \in Calls : d # c => call'[d] = call[d]
  /\ drawn \subseteq drawn'
  /\ \A s : Drawn(s) /\ s \in stored' =>
       s \in stored \/ (s = call[c].secret /\ call[c].pc = "store" /\ call'[c].pc # "store")
  /\ \A s : Drawn(s) /\ s \in known' =>
       s \in known \/ (s = call[c].secret /\ call'[c].pc # "store")
  /\ \A s \in lapsed' : s \in lapsed \/ s \in stored
  /\ \A s \in TokenSecrets :
       \/ effects'[s] = effects[s]
       \/ effects'[s] = effects[s] + 1 /\ s = call[c].secret /\ call[c].pc = "write"

\* What becomes of the call itself.
OwnStep(c) ==
  LET l == call'[c] IN
  /\ l.pc # "done" => l.answer = "none"
  /\ l.pc \in UseSteps \cup SendSteps \cup {"delete"} => l.secret \in Secrets
  /\ \/ l.secret \in {call[c].secret, NoSecret}
     \/ l.pc = "store" /\ (Drawn(l.secret) => l.secret.id \in drawn')
     \/ l.secret \in stored
  /\ l.pc = "store" => call[c].pc = "idle" /\ (Drawn(l.secret) => l.secret.id \notin drawn)
  /\ l.pc = "delete" =>
       /\ call[c].pc = "write" /\ l.secret = call[c].secret /\ l.secret \notin StateSecrets
       /\ l.secret \in TokenSecrets => effects'[l.secret] = effects[l.secret] + 1
  /\ l.answer = "USED" /\ l.secret \in TokenSecrets => l.secret \notin stored'
  /\ l.secret \in StateSecrets /\ (l.pc \in UseSteps \/ l.answer = "USED") =>
       \/ l.secret = call[c].secret /\ call[c].pc \in UseSteps
       \/ l.secret \in stored /\ l.secret \notin stored'

\* TypeOK without the locals.
TablesTyped ==
  /\ row \in Rows
  /\ verified \in BOOLEAN
  /\ stored \subseteq Secrets
  /\ drawn \subseteq Tokens
  /\ known \subseteq Secrets
  /\ lapsed \subseteq TokenSecrets \ stored
  /\ effects \in [TokenSecrets -> Nat]

LEMMA InitInv == Init => Inv
<1> SUFFICES ASSUME Init PROVE Inv
  OBVIOUS
<1>1. TypeOK
  BY DEF Init, TypeOK, Locals, Rows
<1>2. Provenance
  <2>1. ~Drawn(NoSecret)
    BY SecretKinds
  <2>2. QED
    BY <2>1 DEF Init, Provenance
<1>3. NotYetStored /\ Positions /\ AnsweredIsSpent
  BY DEF Init, NotYetStored, Positions, AnsweredIsSpent, UseSteps, SendSteps
<1>4. StateTaken /\ StateIsSingleUse
  BY DEF Init, StateTaken, StateIsSingleUse, LetIn, Kind, NoSecret, UseSteps
<1>5. QED
  BY <1>1, <1>2, <1>3, <1>4 DEF Inv

\* The frame and the step of the call are all the invariant needs.
LEMMA FrameKeeps ==
  ASSUME Inv, NEW c \in Calls, Frame(c), OwnStep(c), TablesTyped'
  PROVE  Inv'
<1> USE DEF Inv
<1>0. \A s \in TokenSecrets \cup StateSecrets : Drawn(s)
  BY DEF Drawn
<1>a. ~Drawn(NoSecret)
  BY SecretKinds
<1>1. TypeOK'
  BY DEF Frame, TablesTyped, TypeOK
<1>2. Provenance'
  <2>1. ASSUME NEW s \in stored' \cup known' \cup lapsed', Drawn(s) PROVE s.id \in drawn'
    BY <2>1 DEF Frame, Provenance
  <2>2. ASSUME NEW s \in TokenSecrets, effects'[s] > 0 PROVE s.id \in drawn'
    BY <2>2, <1>0 DEF Frame, Provenance
  <2>3. ASSUME NEW d \in Calls, Drawn(call'[d].secret) PROVE call'[d].secret.id \in drawn'
    <3>1. CASE d # c
      BY <2>3, <3>1 DEF Frame, Provenance
    <3>2. CASE d = c
      BY <2>3, <3>2, <1>a DEF Frame, OwnStep, Provenance
    <3>3. QED
      BY <3>1, <3>2
  <2>4. QED
    BY <2>1, <2>2, <2>3 DEF Provenance
<1>3. NotYetStored'
  <2> SUFFICES ASSUME NEW d \in Calls, call'[d].pc = "store", Drawn(call'[d].secret)
               PROVE  /\ call'[d].secret \notin stored' \cup known' \cup lapsed'
                      /\ call'[d].secret \in TokenSecrets => effects'[call'[d].secret] = 0
                      /\ \A e \in Calls : call'[e].secret = call'[d].secret => e = d
    BY DEF NotYetStored
  <2> DEFINE x == call'[d].secret
  <2>1. CASE d # c
    <3>1. call[d].pc = "store" /\ call[d].secret = x
      BY <2>1 DEF Frame
    <3>2. /\ x \notin stored \cup known \cup lapsed
          /\ x \in TokenSecrets => effects[x] = 0
          /\ \A e \in Calls : call[e].secret = x => e = d
      BY <3>1 DEF NotYetStored
    <3>3. call[c].secret # x
      BY <2>1, <3>2
    <3>4. x.id \in drawn
      BY <3>1 DEF Provenance
    <3>5. x \notin stored' \cup known' \cup lapsed'
      BY <3>2, <3>3 DEF Frame
    <3>6. x \in TokenSecrets => effects'[x] = 0
      BY <3>2, <3>3 DEF Frame
    <3>7. call'[c].secret # x
      BY <3>2, <3>3, <3>4, <1>a DEF OwnStep
    <3>8. QED
      BY <2>1, <3>2, <3>5, <3>6, <3>7 DEF Frame
  <2>2. CASE d = c
    <3>1. call[c].pc = "idle" /\ x.id \notin drawn
      BY <2>2 DEF OwnStep
    <3>2. x \notin stored \cup known \cup lapsed /\ \A e \in Calls : call[e].secret # x
      BY <3>1 DEF Provenance
    <3>3. x \in TokenSecrets => effects[x] = 0
      BY <3>1 DEF Provenance, TypeOK
    <3>4. x \notin stored' \cup known' \cup lapsed'
      BY <3>1, <3>2 DEF Frame
    <3>5. x \in TokenSecrets => effects'[x] = 0
      BY <3>1, <3>3 DEF Frame
    <3>6. QED
      BY <2>2, <3>2, <3>4, <3>5 DEF Frame
  <2>3. QED
    BY <2>1, <2>2
<1>4. Positions'
  <2> SUFFICES ASSUME NEW d \in Calls
               PROVE  /\ call'[d].pc # "done" => call'[d].answer = "none"
                      /\ call'[d].pc \in UseSteps \cup SendSteps \cup {"delete"} =>
                           call'[d].secret \in Secrets
                      /\ call'[d].pc = "delete" =>
                           /\ call'[d].secret \notin StateSecrets
                           /\ call'[d].secret \in TokenSecrets => effects'[call'[d].secret] > 0
    BY DEF Positions
  <2>1. \A s \in TokenSecrets : effects[s] \in Nat /\ effects'[s] \in Nat
    BY DEF TypeOK, TablesTyped
  <2>2. CASE d # c
    BY <2>1, <2>2 DEF Frame, Positions
  <2>3. CASE d = c
    BY <2>1, <2>3 DEF OwnStep
  <2>4. QED
    BY <2>2, <2>3
<1>5. ASSUME NEW d \in Calls, d # c, call[d].secret \notin stored, Drawn(call[d].secret)
      PROVE  call[d].secret \notin stored'
  <2>1. call[c].pc = "store" => call[d].secret # call[c].secret
    BY <1>5 DEF NotYetStored
  <2>2. QED
    BY <1>5, <2>1 DEF Frame
<1>6. AnsweredIsSpent'
  <2> SUFFICES ASSUME NEW d \in Calls, call'[d].answer = "USED", call'[d].secret \in TokenSecrets
               PROVE  call'[d].secret \notin stored'
    BY DEF AnsweredIsSpent
  <2>1. CASE d # c
    BY <2>1, <1>0, <1>5 DEF Frame, AnsweredIsSpent
  <2>2. CASE d = c
    BY <2>2 DEF OwnStep
  <2>3. QED
    BY <2>1, <2>2
<1>7. \A d \in Calls : LetIn(d) => Drawn(call[d].secret) /\ call[d].secret \in StateSecrets
  <2> SUFFICES ASSUME NEW d \in Calls, LetIn(d)
               PROVE  Drawn(call[d].secret) /\ call[d].secret \in StateSecrets
    OBVIOUS
  <2>1. call[d].secret \in Secrets \cup {NoSecret}
    BY DEF TypeOK, Locals
  <2>2. call[d].secret # NoSecret
    BY DEF LetIn, Kind, NoSecret
  <2>3. QED
    BY <2>1, <2>2, <1>0, SecretKinds DEF LetIn, Kind
<1>8. \A d \in Calls : d # c => (LetIn(d)' <=> LetIn(d))
  BY DEF Frame, LetIn, Kind
<1>9. LetIn(c)' => \/ LetIn(c) /\ call'[c].secret = call[c].secret
                   \/ call'[c].secret \in stored /\ call'[c].secret \notin stored'
  <2> SUFFICES ASSUME LetIn(c)'
               PROVE  \/ LetIn(c) /\ call'[c].secret = call[c].secret
                      \/ call'[c].secret \in stored /\ call'[c].secret \notin stored'
    OBVIOUS
  <2>1. call'[c].secret \in Secrets \cup {NoSecret} /\ call'[c].secret.kind = "state"
    BY DEF Frame, Locals, LetIn, Kind
  <2>2. call'[c].secret \in StateSecrets
    BY <2>1, SecretKinds DEF NoSecret
  <2>3. call'[c].pc \in UseSteps \/ call'[c].answer = "USED"
    BY DEF LetIn
  <2>4. CASE call'[c].secret = call[c].secret /\ call[c].pc \in UseSteps
    BY <2>1, <2>4 DEF LetIn, Kind
  <2>5. QED
    BY <2>2, <2>3, <2>4 DEF OwnStep
<1>10. StateTaken'
  <2> SUFFICES ASSUME NEW d \in Calls, LetIn(d)' PROVE call'[d].secret \notin stored'
    BY DEF StateTaken
  <2>1. CASE d # c
    BY <2>1, <1>5, <1>7, <1>8 DEF Frame, StateTaken
  <2>2. CASE d = c /\ call'[c].secret \in stored /\ call'[c].secret \notin stored'
    BY <2>2
  <2>3. CASE d = c /\ LetIn(c) /\ call'[c].secret = call[c].secret
    <3>1. call[c].secret \notin stored /\ Drawn(call[c].secret)
      BY <2>3, <1>7 DEF StateTaken
    <3>2. call[c].pc # "store"
      BY <2>3 DEF LetIn, Positions, UseSteps
    <3>3. QED
      BY <2>3, <3>1, <3>2 DEF Frame
  <2>4. QED
    BY <2>1, <2>2, <2>3, <1>9
<1>11. StateIsSingleUse'
  <2> SUFFICES ASSUME NEW d \in Calls, NEW e \in Calls, LetIn(d)', LetIn(e)',
                      call'[d].secret = call'[e].secret
               PROVE  d = e
    BY DEF StateIsSingleUse
  <2>1. CASE d # c /\ e # c
    BY <2>1, <1>8 DEF Frame, StateIsSingleUse
  <2>2. ASSUME NEW f \in Calls, f # c, LetIn(f)', LetIn(c)',
               call'[f].secret = call'[c].secret
        PROVE  FALSE
    <3>1. LetIn(f) /\ call'[f].secret = call[f].secret
      BY <2>2, <1>8 DEF Frame
    <3>2. call[f].secret \notin stored
      BY <3>1 DEF StateTaken
    <3>3. LetIn(c) /\ call[c].secret = call[f].secret
      BY <2>2, <3>1, <3>2, <1>9
    <3>4. QED
      BY <2>2, <3>1, <3>3 DEF StateIsSingleUse
  <2>3. QED
    BY <2>1, <2>2
<1>12. QED
  BY <1>1, <1>2, <1>3, <1>4, <1>6, <1>10, <1>11

----------------------------------------------------------------------------
(* Every step keeps it                                                     *)

\* A step that writes no table and gives the call no new secret.
LEMMA OnlyAnswers ==
  ASSUME Inv, NEW c \in Calls, NEW x \in Answers \ {"USED"}, Answer(c, x),
         drawn \subseteq drawn', stored' \subseteq stored, known' = known,
         \A s \in lapsed' : s \in lapsed \/ s \in stored, effects' = effects
  PROVE  Frame(c) /\ OwnStep(c)
<1>1. call \in [Calls -> Locals]
  BY DEF Inv, TypeOK
<1>2. /\ call' \in [Calls -> Locals]
      /\ call'[c].pc = "done" /\ call'[c].answer = x
      /\ call'[c].secret = NoSecret
      /\ \A d \in Calls : d # c => call'[d] = call[d]
  BY <1>1, Moves
<1>3. NoSecret \notin StateSecrets /\ NoSecret \notin TokenSecrets
  BY SecretKinds DEF Secrets
<1>4. Frame(c)
  BY <1>2 DEF Frame
<1>5. OwnStep(c)
  BY <1>2, <1>3 DEF OwnStep, UseSteps, SendSteps
<1>6. QED
  BY <1>4, <1>5

LEMMA SendKeeps ==
  ASSUME Inv, NEW c \in Calls, SendStep(c)
  PROVE  Inv'
<1> DEFINE s == call[c].secret
<1>0. /\ call \in [Calls -> Locals] /\ stored \subseteq Secrets /\ known \subseteq Secrets
      /\ lapsed \subseteq TokenSecrets \ stored /\ drawn \subseteq Tokens
      /\ effects \in [TokenSecrets -> Nat] /\ row \in Rows /\ verified \in BOOLEAN
  BY DEF Inv, TypeOK
<1>p. \A d \in Calls :
        /\ call[d].pc # "done" => call[d].answer = "none"
        /\ call[d].pc \in UseSteps \cup SendSteps \cup {"delete"} => call[d].secret \in Secrets
  BY DEF Inv, Positions
<1>q. {"store", "mail", "drop", "cleanup"} \subseteq Pcs /\ "store" \notin UseSteps
  BY DEF Pcs, SendSteps, UseSteps
<1>r. {"SENT", "REFUSED", "ERROR"} \subseteq Answers \ {"USED"}
  BY DEF Answers
<1>1. CASE SendStart(c)
  <2>1. PICK t \in Secrets : SendStart(c)!(t)
    BY <1>1 DEF SendStart
  <2>2. UNCHANGED <<row, verified, stored, known, history>>
    BY <2>1
  <2>3. CASE MaySend(t.kind)
    <3>1. Begin(c, "store", t) /\ drawn' = drawn \cup ({t.id} \cap Tokens)
      BY <2>1, <2>3
    <3>2. /\ call' \in [Calls -> Locals]
          /\ call'[c].pc = "store" /\ call'[c].secret = t /\ call'[c].answer = call[c].answer
          /\ \A d \in Calls : d # c => call'[d] = call[d]
      BY <3>1, <1>0, <1>q, Moves
    <3>3. Drawn(t) => t.id \in drawn' /\ t.id \notin drawn
      BY <2>1, <3>1, SecretKinds
    <3>4. Frame(c)
      BY <2>2, <3>1, <3>2 DEF Frame, history
    <3>5. call[c].pc = "idle" /\ call[c].answer = "none"
      BY <2>1, <1>p
    <3>6. OwnStep(c)
      BY <3>2, <3>3, <3>5, <1>q DEF OwnStep
    <3>7. TablesTyped'
      BY <2>2, <3>1, <1>0 DEF TablesTyped, history
    <3>8. QED
      BY <3>4, <3>6, <3>7, FrameKeeps
  <2>4. CASE ~MaySend(t.kind)
    <3>1. Answer(c, "REFUSED") /\ drawn' = drawn
      BY <2>1, <2>4
    <3>2. Frame(c) /\ OwnStep(c)
      BY <2>2, <3>1, <1>r, OnlyAnswers DEF history
    <3>3. TablesTyped'
      BY <2>2, <3>1, <1>0 DEF TablesTyped, history
    <3>4. QED
      BY <3>2, <3>3, FrameKeeps
  <2>5. QED
    BY <2>3, <2>4
<1>2. ASSUME call[c].pc \in {"store", "mail"}, call'[c].pc # "store",
             stored' \in {stored, Set(s)}, call[c].pc = "mail" => stored' = stored,
             known' \in {known, known \cup {s}},
             UNCHANGED <<row, verified, drawn, history>>
      PROVE  /\ TablesTyped'
             /\ call' \in [Calls -> Locals] /\ (\A d \in Calls : d # c => call'[d] = call[d]) =>
                  Frame(c)
  <2>1. s \in Secrets
    BY <1>2, <1>p DEF SendSteps
  <2>2. stored' \subseteq Secrets /\ known' \subseteq Secrets
    BY <1>0, <1>2, <2>1, KeyTypes
  <2>3. \A x : Drawn(x) /\ x \in stored' => x \in stored \/ (x = s /\ call[c].pc = "store")
    BY <1>2, <2>1, KeysApart
  <2>4. lapsed \cap stored' = {}
    <3> SUFFICES ASSUME NEW x \in lapsed, x \in stored' PROVE FALSE
      OBVIOUS
    <3>1. Drawn(x) /\ x \notin stored
      BY <1>0 DEF Drawn
    <3>2. x = s /\ call[c].pc = "store"
      BY <2>3, <3>1
    <3>3. QED
      BY <3>1, <3>2 DEF Inv, NotYetStored
  <2>5. TablesTyped'
    BY <1>0, <1>2, <2>2, <2>4 DEF TablesTyped, history
  <2>6. ASSUME call' \in [Calls -> Locals], \A d \in Calls : d # c => call'[d] = call[d]
        PROVE  Frame(c)
    BY <2>6, <1>2, <2>3 DEF Frame, history
  <2>7. QED
    BY <2>5, <2>6
<1>3. CASE SendStore(c) \/ StoreFails(c) \/ SendMail(c)
  <2>1. /\ call[c].pc \in {"store", "mail"}
        /\ stored' \in {stored, Set(s)} /\ (call[c].pc = "mail" => stored' = stored)
        /\ known' \in {known, known \cup {s}}
        /\ UNCHANGED <<row, verified, drawn, history>>
    BY <1>3 DEF SendStore, StoreFails, SendMail
  <2>2. \/ \E x \in {"SENT", "ERROR"} : Answer(c, x)
        \/ \E to \in {"mail", "drop", "cleanup"} : Goto(c, to)
    BY <1>3 DEF SendStore, StoreFails, SendMail
  <2>3. ASSUME NEW x \in {"SENT", "ERROR"}, Answer(c, x)
        PROVE  Inv'
    <3>1. /\ call' \in [Calls -> Locals]
          /\ call'[c].pc = "done" /\ call'[c].answer = x /\ call'[c].secret = NoSecret
          /\ \A d \in Calls : d # c => call'[d] = call[d]
      BY <2>3, <1>0, <1>r, Moves
    <3>2. NoSecret \notin StateSecrets /\ NoSecret \notin TokenSecrets
      BY SecretKinds DEF Secrets
    <3>3. OwnStep(c)
      BY <3>1, <3>2 DEF OwnStep, UseSteps, SendSteps
    <3>4. Frame(c) /\ TablesTyped'
      BY <1>2, <2>1, <3>1
    <3>5. QED
      BY <3>3, <3>4, FrameKeeps
  <2>4. ASSUME NEW to \in {"mail", "drop", "cleanup"}, Goto(c, to)
        PROVE  Inv'
    <3>1. /\ call' \in [Calls -> Locals]
          /\ call'[c].pc = to /\ call'[c].secret = s /\ call'[c].answer = call[c].answer
          /\ \A d \in Calls : d # c => call'[d] = call[d]
      BY <2>4, <1>0, <1>q, Moves
    <3>2. s \in Secrets /\ call[c].answer = "none"
      BY <2>1, <1>p DEF SendSteps
    <3>3. OwnStep(c)
      BY <3>1, <3>2 DEF OwnStep, UseSteps
    <3>4. Frame(c) /\ TablesTyped'
      BY <1>2, <2>1, <3>1
    <3>5. QED
      BY <3>3, <3>4, FrameKeeps
  <2>5. QED
    BY <2>2, <2>3, <2>4
<1>4. CASE DropKey(c) \/ CleanUp(c)
  <2>1. /\ call[c].pc \in {"drop", "cleanup"}
        /\ Discard(s) \/ UNCHANGED <<stored, lapsed>>
        /\ UNCHANGED <<row, verified, drawn, known, effects>>
    BY <1>4 DEF DropKey, CleanUp
  <2>2. s \in Secrets
    BY <2>1, <1>p DEF SendSteps
  <2>3. stored' \subseteq stored /\ lapsed' \subseteq lapsed \cup (stored \cap TokenSecrets)
    BY <2>1, <2>2, <1>0, KeyTypes DEF Discard
  <2>4. lapsed' \cap stored' = {}
    BY <2>1, <2>2, <1>0, KeyTypes DEF Discard
  <2>5. TablesTyped'
    BY <2>1, <2>3, <2>4, <1>0 DEF TablesTyped
  <2>6. CASE Answer(c, "ERROR")
    <3>1. Frame(c) /\ OwnStep(c)
      BY <2>1, <2>3, <2>6, <1>r, OnlyAnswers
    <3>2. QED
      BY <3>1, <2>5, FrameKeeps
  <2>7. CASE Goto(c, "cleanup")
    <3>1. /\ call' \in [Calls -> Locals]
          /\ call'[c].pc = "cleanup" /\ call'[c].secret = s /\ call'[c].answer = call[c].answer
          /\ \A d \in Calls : d # c => call'[d] = call[d]
      BY <2>7, <1>0, <1>q, Moves
    <3>2. call[c].answer = "none"
      BY <2>1, <1>p
    <3>3. OwnStep(c)
      BY <3>1, <3>2, <2>2 DEF OwnStep, UseSteps
    <3>4. Frame(c)
      BY <3>1, <2>1, <2>3 DEF Frame
    <3>5. QED
      BY <3>3, <3>4, <2>5, FrameKeeps
  <2>8. QED
    BY <1>4, <2>6, <2>7 DEF DropKey, CleanUp
<1>5. QED
  BY <1>1, <1>3, <1>4 DEF SendStep

LEMMA UseKeeps ==
  ASSUME Inv, NEW c \in Calls, UseStep(c)
  PROVE  Inv'
<1> DEFINE s == call[c].secret
<1>0. /\ call \in [Calls -> Locals] /\ stored \subseteq Secrets /\ known \subseteq Secrets
      /\ lapsed \subseteq TokenSecrets \ stored /\ drawn \subseteq Tokens
      /\ effects \in [TokenSecrets -> Nat] /\ row \in Rows /\ verified \in BOOLEAN
  BY DEF Inv, TypeOK
<1>p. \A d \in Calls :
        /\ call[d].pc # "done" => call[d].answer = "none"
        /\ call[d].pc \in UseSteps \cup SendSteps \cup {"delete"} => call[d].secret \in Secrets
        /\ call[d].pc = "delete" => call[d].secret \notin StateSecrets
  BY DEF Inv, Positions
<1>q. {"read", "write", "delete"} \subseteq Pcs /\ UseSteps = {"read", "write"}
  BY DEF Pcs, UseSteps
<1>r. {"REFUSED", "ERROR"} \subseteq Answers \ {"USED"} /\ "USED" \in Answers
  BY DEF Answers
\* A step that may take keys away and writes nothing else.
<1>1. ASSUME stored' \subseteq stored, UNCHANGED <<row, verified, drawn, known, history>>
      PROVE  TablesTyped'
  BY <1>0, <1>1 DEF TablesTyped, history
<1>2. ASSUME stored' \subseteq stored, UNCHANGED <<row, verified, drawn, known, history>>,
             \E x \in {"REFUSED", "ERROR"} : Answer(c, x)
      PROVE  Inv'
  <2>1. Frame(c) /\ OwnStep(c)
    BY <1>2, <1>r, OnlyAnswers DEF history
  <2>2. QED
    BY <1>1, <1>2, <2>1, FrameKeeps
\* A call that is let in.
<1>3. ASSUME NEW t \in stored, call[c].pc = "idle", stored' \subseteq stored,
             t \in StateSecrets => t \notin stored',
             UNCHANGED <<row, verified, drawn, known, history>>,
             NEW to \in {"read", "write"}, Begin(c, to, t)
      PROVE  Inv'
  <2>1. t \in Secrets /\ to \in Pcs
    BY <1>0, <1>q
  <2>2. /\ call' \in [Calls -> Locals]
        /\ call'[c].pc = to /\ call'[c].secret = t /\ call'[c].answer = call[c].answer
        /\ \A d \in Calls : d # c => call'[d] = call[d]
    BY <2>1, <1>0, <1>3, Moves
  <2>3. call[c].answer = "none"
    BY <1>3, <1>p
  <2>4. OwnStep(c)
    BY <2>1, <2>2, <2>3, <1>3 DEF OwnStep
  <2>5. Frame(c)
    BY <2>2, <1>3 DEF Frame, history
  <2>6. QED
    BY <1>1, <1>3, <2>4, <2>5, FrameKeeps
<1>4. CASE UseGet(c)
  <2>1. PICK t \in known \cup CodeSecrets : UseGet(c)!(t)
    BY <1>4 DEF UseGet
  <2>2. CASE t \in stored
    <3>1. Begin(c, AfterGet(t), t) /\ AfterGet(t) \in {"read", "write"}
      BY <2>1, <2>2 DEF AfterGet
    <3>2. t \notin StateSecrets
      BY <2>1 DEF StateSecrets
    <3>3. QED
      BY <2>1, <2>2, <3>1, <3>2, <1>3
  <2>3. CASE t \notin stored
    BY <2>1, <2>3, <1>2
  <2>4. QED
    BY <2>2, <2>3
<1>5. CASE ConsumeState(c)
  <2>1. PICK t \in known \cap StateSecrets : ConsumeState(c)!(t)
    BY <1>5 DEF ConsumeState
  <2>2. stored' \subseteq stored /\ t \notin stored'
    BY <2>1, <1>0, KeyTypes
  <2>3. CASE t \in stored
    BY <2>1, <2>2, <2>3, <1>3
  <2>4. CASE t \notin stored
    BY <2>1, <2>2, <2>4, <1>2
  <2>5. QED
    BY <2>3, <2>4
<1>6. CASE ConsumeFails(c)
  <2>1. PICK t \in known \cap StateSecrets : ConsumeFails(c)!(t)
    BY <1>6 DEF ConsumeFails
  <2>2. stored' \subseteq stored
    BY <2>1, <1>0, KeyTypes
  <2>3. QED
    BY <2>1, <2>2, <1>2
<1>7. CASE UseCollides(c) \/ CallFails(c)
  BY <1>7, <1>2 DEF UseCollides, CallFails
<1>8. CASE UseRead(c)
  <2>1. CASE MayUse(Kind(c))
    <3>1. GotoSeen(c, "write") /\ UNCHANGED <<row, verified, stored, drawn, known, history>>
      BY <1>8, <2>1 DEF UseRead
    <3>2. /\ call' \in [Calls -> Locals]
          /\ call'[c].pc = "write" /\ call'[c].secret = s /\ call'[c].answer = call[c].answer
          /\ \A d \in Calls : d # c => call'[d] = call[d]
      BY <3>1, <1>0, <1>q, Moves
    <3>3. call[c].pc = "read" /\ call[c].answer = "none" /\ s \in Secrets
      BY <1>8, <1>p, <1>q DEF UseRead
    <3>4. OwnStep(c)
      BY <3>2, <3>3, <1>q DEF OwnStep
    <3>5. Frame(c)
      BY <3>1, <3>2 DEF Frame, history
    <3>6. QED
      BY <3>1, <3>4, <3>5, <1>1, FrameKeeps
  <2>2. CASE ~MayUse(Kind(c))
    BY <1>8, <2>2, <1>2 DEF UseRead
  <2>3. QED
    BY <2>1, <2>2
<1>9. CASE UseWrite(c)
  <2>1. /\ call[c].pc = "write" /\ call[c].answer = "none" /\ s \in Secrets
        /\ UNCHANGED <<stored, drawn, known, lapsed>>
        /\ effects' = IF s \in TokenSecrets THEN [effects EXCEPT ![s] = @ + 1] ELSE effects
    BY <1>9, <1>p, <1>q DEF UseWrite
  <2>2. TablesTyped'
    <3>1. row' \in Rows /\ verified' \in BOOLEAN
      BY <1>9, <1>0 DEF UseWrite, Rows
    <3>2. effects' \in [TokenSecrets -> Nat]
      BY <2>1, <1>0
    <3>3. QED
      BY <2>1, <3>1, <3>2, <1>0 DEF TablesTyped
  <2>3. \A x \in TokenSecrets : effects'[x] = IF x = s THEN effects[x] + 1 ELSE effects[x]
    BY <2>1, <1>0
  <2>4. CASE s.kind = "state"
    <3>1. Answer(c, "USED") /\ s \in StateSecrets /\ s \notin TokenSecrets
      BY <1>9, <2>1, <2>4, SecretKinds DEF UseWrite
    <3>2. /\ call' \in [Calls -> Locals]
          /\ call'[c].pc = "done" /\ call'[c].answer = "USED" /\ call'[c].secret = s
          /\ \A d \in Calls : d # c => call'[d] = call[d]
      BY <3>1, <1>0, <1>r, Moves
    <3>3. OwnStep(c)
      BY <3>1, <3>2, <2>1, <1>q DEF OwnStep, SendSteps
    <3>4. Frame(c)
      BY <2>1, <2>3, <3>2 DEF Frame
    <3>5. QED
      BY <2>2, <3>3, <3>4, FrameKeeps
  <2>5. CASE s.kind # "state"
    <3>1. Goto(c, "delete") /\ s \notin StateSecrets
      BY <1>9, <2>1, <2>5, SecretKinds DEF UseWrite
    <3>2. /\ call' \in [Calls -> Locals]
          /\ call'[c].pc = "delete" /\ call'[c].secret = s /\ call'[c].answer = call[c].answer
          /\ \A d \in Calls : d # c => call'[d] = call[d]
      BY <3>1, <1>0, <1>q, Moves
    <3>3. OwnStep(c)
      BY <3>1, <3>2, <2>1, <2>3 DEF OwnStep
    <3>4. Frame(c)
      BY <2>1, <2>3, <3>2 DEF Frame
    <3>5. QED
      BY <2>2, <3>3, <3>4, FrameKeeps
  <2>6. QED
    BY <2>4, <2>5
<1>10. CASE DeleteFails(c)
  <2>1. s \in Secrets
    BY <1>10, <1>p DEF DeleteFails
  <2>2. stored' \subseteq stored
    BY <1>10, <2>1, <1>0, KeyTypes DEF DeleteFails
  <2>3. QED
    BY <1>10, <2>2, <1>2 DEF DeleteFails
<1>11. CASE UseDelete(c)
  <2>1. /\ Answer(c, "USED") /\ stored' = Del(s) /\ s \in Secrets /\ s \notin StateSecrets
        /\ UNCHANGED <<row, verified, drawn, known, history>>
    BY <1>11, <1>p DEF UseDelete
  <2>2. stored' \subseteq stored /\ s \notin stored'
    BY <2>1, <1>0, KeyTypes
  <2>3. /\ call' \in [Calls -> Locals]
        /\ call'[c].pc = "done" /\ call'[c].answer = "USED" /\ call'[c].secret = s
        /\ \A d \in Calls : d # c => call'[d] = call[d]
    BY <2>1, <1>0, <1>r, Moves
  <2>4. OwnStep(c)
    BY <2>1, <2>2, <2>3, <1>q DEF OwnStep, SendSteps
  <2>5. Frame(c)
    BY <2>1, <2>2, <2>3 DEF Frame, history
  <2>6. QED
    BY <1>1, <2>1, <2>2, <2>4, <2>5, FrameKeeps
<1>12. QED
  BY <1>4, <1>5, <1>6, <1>7, <1>8, <1>9, <1>10, <1>11 DEF UseStep

LEMMA RegisterKeeps ==
  ASSUME Inv, NEW c \in Calls, RegisterRead(c) \/ RegisterWrite(c)
  PROVE  Inv'
<1>0. /\ call \in [Calls -> Locals] /\ row \in Rows /\ TablesTyped
  BY DEF Inv, TypeOK, TablesTyped
<1>1. UNCHANGED <<verified, stored, drawn, known, history>> /\ row' \in Rows
  BY <1>0 DEF RegisterRead, RegisterWrite, Rows
<1>2. TablesTyped'
  BY <1>0, <1>1 DEF TablesTyped, history
<1>3. {"REFUSED", "ERROR", "REGISTERED"} \subseteq Answers \ {"USED"} /\ "enroll" \in Pcs
  BY DEF Answers, Pcs
<1>4. CASE \E x \in {"REFUSED", "ERROR", "REGISTERED"} : Answer(c, x)
  <2>1. Frame(c) /\ OwnStep(c)
    BY <1>1, <1>3, <1>4, OnlyAnswers DEF history
  <2>2. QED
    BY <1>2, <2>1, FrameKeeps
<1>5. CASE call[c].pc = "idle" /\ GotoSeen(c, "enroll")
  <2>1. /\ call' \in [Calls -> Locals]
        /\ call'[c].pc = "enroll" /\ call'[c].secret = call[c].secret
        /\ call'[c].answer = call[c].answer
        /\ \A d \in Calls : d # c => call'[d] = call[d]
    BY <1>5, <1>0, <1>3, Moves
  <2>2. call[c].answer = "none"
    BY <1>5 DEF Inv, Positions
  <2>3. OwnStep(c)
    BY <2>1, <2>2 DEF OwnStep, UseSteps, SendSteps
  <2>4. Frame(c)
    BY <1>1, <2>1 DEF Frame, history
  <2>5. QED
    BY <1>2, <2>3, <2>4, FrameKeeps
<1>6. QED
  BY <1>4, <1>5 DEF RegisterRead, RegisterWrite

\* Calls may all have stopped; no table but stored and lapsed has changed.
LEMMA QuietKeeps ==
  ASSUME Inv, TypeOK', stored' \subseteq stored,
         UNCHANGED <<drawn, known, effects>>,
         \A s \in lapsed' : s \in lapsed \/ s \in stored,
         \A c \in Calls : \/ call'[c] = call[c]
                          \/ /\ call'[c].pc = "done" /\ call'[c].answer # "USED"
                             /\ call'[c].secret = NoSecret
  PROVE  Inv'
<1> USE DEF Inv
<1>1. ~Drawn(NoSecret) /\ NoSecret \notin TokenSecrets /\ NoSecret \notin StateSecrets
  BY SecretKinds DEF Secrets
<1>2. Provenance'
  BY <1>1 DEF Provenance
<1>3. NotYetStored'
  BY <1>1 DEF NotYetStored
<1>4. Positions'
  BY <1>1 DEF Positions, UseSteps, SendSteps
<1>5. AnsweredIsSpent'
  BY <1>1 DEF AnsweredIsSpent
<1>6. \A c \in Calls : LetIn(c)' => LetIn(c) /\ call'[c] = call[c]
  BY DEF LetIn, Kind, UseSteps
<1>7. StateTaken' /\ StateIsSingleUse'
  BY <1>6 DEF StateTaken, StateIsSingleUse
<1>8. QED
  BY <1>2, <1>3, <1>4, <1>5, <1>7

LEMMA OthersKeep ==
  ASSUME Inv, Expire \/ ServerCrash \/ UNCHANGED vars
  PROVE  Inv'
<1>0. TypeOK
  BY DEF Inv
<1>1. CASE Expire
  <2>1. PICK s \in stored : Discard(s)
    BY <1>1 DEF Expire
  <2>2. s \in Secrets /\ UNCHANGED <<row, verified, drawn, known, effects, call>>
    BY <1>0, <1>1 DEF Expire, TypeOK
  <2>3. /\ stored' \subseteq stored /\ \A x \in lapsed' : x \in lapsed \/ x \in stored
        /\ lapsed' \subseteq TokenSecrets \ stored'
    BY <1>0, <2>1, <2>2, KeyTypes DEF Discard, TypeOK
  <2>4. TypeOK'
    BY <1>0, <2>2, <2>3 DEF TypeOK
  <2>5. QED
    BY <2>2, <2>3, <2>4, QuietKeeps
<1>2. CASE ServerCrash
  <2>1. /\ UNCHANGED <<row, verified, stored, drawn, known, history>>
        /\ call' = [c \in Calls |-> IF InFlight(c) THEN Answered(call[c], "LOST") ELSE call[c]]
    BY <1>2 DEF ServerCrash
  <2>2. ASSUME NEW c \in Calls
        PROVE  /\ call'[c] \in Locals
               /\ \/ call'[c] = call[c]
                  \/ /\ call'[c].pc = "done" /\ call'[c].answer # "USED"
                     /\ call'[c].secret = NoSecret
    <3>1. call[c] \in Locals /\ "LOST" \in Answers
      BY <1>0 DEF TypeOK, Answers
    <3>2. call'[c] = IF InFlight(c) THEN Answered(call[c], "LOST") ELSE call[c]
      BY <2>1
    <3>3. QED
      BY <3>1, <3>2, AnsweredType
  <2>3. TypeOK'
    <3>1. call' \in [Calls -> Locals]
      BY <2>1, <2>2
    <3>2. QED
      BY <1>0, <2>1, <3>1 DEF TypeOK, history
  <2>4. QED
    BY <2>1, <2>2, <2>3, QuietKeeps DEF history
<1>3. CASE UNCHANGED vars
  BY <1>0, <1>3, QuietKeeps DEF vars, history, TypeOK
<1>4. QED
  BY <1>1, <1>2, <1>3

LEMMA StepInv == Inv /\ [Next]_vars => Inv'
BY SendKeeps, UseKeeps, RegisterKeeps, OthersKeep DEF Next

LEMMA Invariant == Spec => []Inv
<1>1. QED
  BY InitInv, StepInv, PTL DEF Spec

\* Every row, key and call has its type at all times.
THEOREM TypeCorrect == Spec => []TypeOK
<1>1. Inv => TypeOK
  BY DEF Inv
<1>2. QED
  BY <1>1, Invariant, PTL

\* A token whose use has been answered is not in Redis again, whatever comes.
THEOREM SpentForGood == Spec => []AnsweredIsSpent
<1>1. Inv => AnsweredIsSpent
  BY DEF Inv
<1>2. QED
  BY <1>1, Invariant, PTL

\* One Google state lets one callback in, however many arrive with it.
THEOREM StateOnce == Spec => []StateIsSingleUse
<1>1. Inv => StateIsSingleUse
  BY DEF Inv
<1>2. QED
  BY <1>1, Invariant, PTL

----------------------------------------------------------------------------
(* OneTimeCode implements Voucher                                          *)

\* Whoever may redeem a token was let in with one that had been issued.
Accounted == \A c \in Calls : \A s \in MayRedeem(c) : Stage(s) # "blank"

Stages     == [s \in TokenSecrets |-> Stage(s)]
Admissions == [c \in Calls |-> MayRedeem(c)]

LEMMA Views ==
  /\ \A s \in TokenSecrets : Stages[s] = Stage(s)
  /\ \A c \in Calls : Admissions[c] = MayRedeem(c)
  /\ \A c \in Calls : MayRedeem(c) \subseteq TokenSecrets
BY DEF Stages, Admissions, MayRedeem

LEMMA InitPromise == Init => Promise!Init /\ Accounted
<1> SUFFICES ASSUME Init PROVE Promise!Init /\ Accounted
  OBVIOUS
<1>1. \A s \in TokenSecrets : Stage(s) = "blank"
  BY DEF Init, Stage
<1>2. \A c \in Calls : MayRedeem(c) = {}
  BY DEF Init, MayRedeem, UseSteps
<1>3. effects = [s \in TokenSecrets |-> 0]
  BY DEF Init
<1>4. QED
  BY <1>1, <1>2, <1>3 DEF Promise!Init, Accounted

\* The promise alone keeps every admission accounted for.
LEMMA AccountedStep ==
  ASSUME Accounted, [Promise!Next]_Promise!ledger
  PROVE  Accounted'
<1>1. Stages = [s \in TokenSecrets |-> Stage(s)] /\ Admissions = [c \in Calls |-> MayRedeem(c)]
  BY DEF Stages, Admissions
<1> DEFINE Onward ==
      /\ \A s \in TokenSecrets : Stages[s] # "blank" => Stages'[s] # "blank"
      /\ \A c \in Calls : \A s \in TokenSecrets :
           s \in Admissions'[c] => s \in Admissions[c] \/ Stages[s] = "live"
<1>2. Onward
  <2>1. CASE UNCHANGED Promise!ledger
    BY <2>1, <1>1 DEF Promise!ledger, Stages, Admissions
  <2>2. ASSUME NEW v \in TokenSecrets, Promise!Issue(v) \/ Promise!Lapse(v) \/ Promise!Spend(v)
        PROVE  Onward
    <3>1. Admissions' = Admissions
      BY <2>2 DEF Promise!Issue, Promise!Lapse, Promise!Spend, Admissions
    <3>2. \E x \in {"live", "lapsed", "spent"} : Stages' = [Stages EXCEPT ![v] = x]
      BY <2>2 DEF Promise!Issue, Promise!Lapse, Promise!Spend, Stages
    <3>3. QED
      BY <1>1, <3>1, <3>2
  <2>3. ASSUME NEW c \in Calls, NEW v \in TokenSecrets,
               Promise!Admit(c, v) \/ Promise!Redeem(c, v)
        PROVE  Onward
    <3>1. Stages' = Stages
      BY <2>3 DEF Promise!Admit, Promise!Redeem, Stages
    <3>2. CASE Promise!Admit(c, v)
      <4>1. Stages[v] = "live" /\ Admissions' = [Admissions EXCEPT ![c] = @ \cup {v}]
        BY <3>2 DEF Promise!Admit, Stages, Admissions
      <4>2. QED
        BY <1>1, <3>1, <4>1
    <3>3. CASE Promise!Redeem(c, v)
      <4>1. Admissions' = [Admissions EXCEPT ![c] = @ \ {v}]
        BY <3>3 DEF Promise!Redeem, Admissions
      <4>2. QED
        BY <1>1, <3>1, <4>1
    <3>4. QED
      BY <2>3, <3>2, <3>3
  <2>4. CASE Promise!ShutDown \/ \E c \in Calls : Promise!GiveUp(c)
    <3>1. Stages' = Stages
      BY <2>4 DEF Promise!ShutDown, Promise!GiveUp, Stages
    <3>2. \/ Admissions' = [c \in Calls |-> {}]
          \/ \E c \in Calls : Admissions' = [Admissions EXCEPT ![c] = {}]
      BY <2>4 DEF Promise!ShutDown, Promise!GiveUp, Admissions
    <3>3. QED
      BY <1>1, <3>1, <3>2
  <2>5. QED
    BY <2>1, <2>2, <2>3, <2>4 DEF Promise!Next
<1>3. SUFFICES ASSUME NEW c \in Calls, NEW s \in MayRedeem(c)' PROVE Stage(s)' # "blank"
  BY DEF Accounted
<1>4. s \in TokenSecrets /\ s \in Admissions'[c]
  BY DEF MayRedeem, Admissions
<1>5. Stages[s] # "blank"
  BY <1>2, <1>4, Views DEF Accounted
<1>6. Stages'[s] # "blank"
  BY <1>2, <1>4, <1>5
<1>7. QED
  BY <1>4, <1>6 DEF Stages

\* A token that a step leaves where it was.
Still(s) ==
  /\ s \in stored' <=> s \in stored
  /\ s \in lapsed' <=> s \in lapsed
  /\ effects'[s] = effects[s]

LEMMA StillStage ==
  ASSUME NEW s \in TokenSecrets, Still(s)
  PROVE  Stage(s)' = Stage(s)
BY DEF Still, Stage

\* No token moves, and the call may drop what it was admitted to.
LEMMA CallMoves ==
  ASSUME Inv, NEW c \in Calls, \A s \in TokenSecrets : Still(s), effects' = effects,
         \A d \in Calls : d # c => call'[d] = call[d],
         MayRedeem(c)' \in {MayRedeem(c), {}}
  PROVE  [Promise!Next]_Promise!ledger
<1>1. [s \in TokenSecrets |-> Stage(s)]' = [s \in TokenSecrets |-> Stage(s)]
  BY StillStage
<1>2. \A d \in Calls : d # c => MayRedeem(d)' = MayRedeem(d)
  BY DEF MayRedeem
<1>3. CASE MayRedeem(c)' = MayRedeem(c)
  <2>1. [d \in Calls |-> MayRedeem(d)]' = [d \in Calls |-> MayRedeem(d)]
    BY <1>2, <1>3
  <2>2. QED
    BY <1>1, <2>1 DEF Promise!ledger
<1>4. CASE MayRedeem(c)' = {}
  <2>1. [d \in Calls |-> MayRedeem(d)]' = [[d \in Calls |-> MayRedeem(d)] EXCEPT ![c] = {}]
    BY <1>2, <1>4
  <2>2. Promise!GiveUp(c)
    BY <1>1, <2>1 DEF Promise!GiveUp
  <2>3. QED
    BY <2>2 DEF Promise!Next
<1>5. QED
  BY <1>3, <1>4

\* One token moves to another stage, and nobody's admission changes.
LEMMA StageMoves ==
  ASSUME Inv, NEW t \in TokenSecrets, \A s \in TokenSecrets : s # t => Still(s),
         effects' = effects, \A d \in Calls : MayRedeem(d)' = MayRedeem(d),
         \/ Stage(t) = "blank" /\ Stage(t)' = "live"
         \/ Stage(t) = "live" /\ Stage(t)' = "lapsed"
         \/ Stage(t) = "live" /\ Stage(t)' = "spent" /\ effects[t] > 0
  PROVE  [Promise!Next]_Promise!ledger
<1>1. \A s \in TokenSecrets : s # t => Stage(s)' = Stage(s)
  BY StillStage
<1>2. [s \in TokenSecrets |-> Stage(s)]'
        = [[s \in TokenSecrets |-> Stage(s)] EXCEPT ![t] = Stage(t)']
  BY <1>1
<1>3. [d \in Calls |-> MayRedeem(d)]' = [d \in Calls |-> MayRedeem(d)]
  OBVIOUS
<1>4. Promise!Issue(t) \/ Promise!Lapse(t) \/ Promise!Spend(t)
  BY <1>2, <1>3 DEF Promise!Issue, Promise!Lapse, Promise!Spend
<1>5. QED
  BY <1>4 DEF Promise!Next

\* What a call is admitted to before and after it leaves a position.
LEMMA Admittance ==
  ASSUME NEW c \in Calls
  PROVE  /\ call[c].pc \notin UseSteps => MayRedeem(c) = {}
         /\ call'[c].pc \notin UseSteps => MayRedeem(c)' = {}
         /\ call[c].pc \in UseSteps => MayRedeem(c) = {call[c].secret} \cap TokenSecrets
         /\ call'[c].pc \in UseSteps => MayRedeem(c)' = {call'[c].secret} \cap TokenSecrets
BY DEF MayRedeem

\* What a SET and a DEL do to the tokens.
LEMMA SetMoves ==
  ASSUME Inv, NEW c \in Calls, call[c].pc = "store", stored' \in {stored, Set(call[c].secret)},
         UNCHANGED history, call'[c].pc \notin UseSteps,
         \A d \in Calls : d # c => call'[d] = call[d]
  PROVE  [Promise!Next]_Promise!ledger
<1>1. PICK s \in Secrets : s = call[c].secret
  BY DEF Inv, Positions, SendSteps
<1>2. \A x \in TokenSecrets : Drawn(x)
  BY DEF Drawn
<1>3. \A x \in TokenSecrets : x # s \/ stored' = stored => Still(x)
  BY <1>1, <1>2, KeysApart DEF Still, history
<1>4. \A d \in Calls : MayRedeem(d)' = MayRedeem(d)
  BY DEF MayRedeem, UseSteps
<1>5. CASE stored' = stored \/ s \notin TokenSecrets
  <2>1. \A x \in TokenSecrets : Still(x)
    BY <1>3, <1>5
  <2>2. QED
    BY <1>4, <2>1, CallMoves DEF history
<1>6. CASE stored' = Set(s) /\ s \in TokenSecrets
  <2>1. s \notin stored /\ s \notin lapsed /\ effects[s] = 0 /\ s \in stored' /\ s \notin lapsed'
    BY <1>1, <1>2, <1>6, KeysApart DEF Inv, NotYetStored, history
  <2>2. Stage(s) = "blank" /\ Stage(s)' = "live"
    BY <2>1 DEF Stage
  <2>3. QED
    BY <1>3, <1>4, <1>6, <2>2, StageMoves DEF history
<1>7. QED
  BY <1>1, <1>5, <1>6

LEMMA DiscardMoves ==
  ASSUME Inv, NEW s \in Secrets, Discard(s), effects' = effects,
         \A d \in Calls : MayRedeem(d)' = MayRedeem(d)
  PROVE  [Promise!Next]_Promise!ledger
<1>1. \A x \in TokenSecrets : Drawn(x)
  BY DEF Drawn
<1>2. \A x \in TokenSecrets : x # s \/ s \notin stored => Still(x)
  BY <1>1, KeysApart DEF Still, Discard
<1>3. CASE s \in stored /\ s \in TokenSecrets
  <2>1. s \notin lapsed /\ s \notin stored' /\ s \in lapsed'
    BY <1>1, <1>3, KeysApart DEF Discard, Inv, TypeOK
  <2>2. Stage(s) = "live" /\ Stage(s)' = "lapsed"
    BY <1>3, <2>1 DEF Stage
  <2>3. QED
    BY <1>2, <1>3, <2>2, StageMoves
<1>4. CASE ~(s \in stored /\ s \in TokenSecrets)
  <2>1. [x \in TokenSecrets |-> Stage(x)]' = [x \in TokenSecrets |-> Stage(x)]
    BY <1>2, <1>4, StillStage
  <2>2. [d \in Calls |-> MayRedeem(d)]' = [d \in Calls |-> MayRedeem(d)]
    OBVIOUS
  <2>3. QED
    BY <2>1, <2>2 DEF Promise!ledger
<1>5. QED
  BY <1>3, <1>4

\* A call that is let in with a token is an Admit.
LEMMA GetMoves ==
  ASSUME Inv, NEW c \in Calls, UseGet(c)
  PROVE  [Promise!Next]_Promise!ledger
<1>1. PICK t \in known \cup CodeSecrets : UseGet(c)!(t)
  BY DEF UseGet
<1>2. /\ call \in [Calls -> Locals] /\ t \in Secrets /\ lapsed \cap stored = {}
  BY DEF Inv, TypeOK, Secrets
<1>3. \A s \in TokenSecrets : Still(s)
  BY <1>1 DEF Still, history
<1>4. MayRedeem(c) = {} /\ effects' = effects
  BY <1>1, Admittance DEF UseSteps, history
<1>5. CASE t \in stored
  <2>1. Begin(c, AfterGet(t), t) /\ AfterGet(t) \in Pcs /\ AfterGet(t) \in UseSteps
    BY <1>1, <1>5 DEF AfterGet, Pcs, UseSteps
  <2>2. /\ call'[c].pc = AfterGet(t) /\ call'[c].secret = t
        /\ \A d \in Calls : d # c => call'[d] = call[d]
    BY <1>2, <2>1, Moves
  <2>3. MayRedeem(c)' = {t} \cap TokenSecrets
    BY <2>1, <2>2, Admittance
  <2>4. CASE t \notin TokenSecrets
    BY <1>3, <1>4, <2>2, <2>3, <2>4, CallMoves
  <2>5. CASE t \in TokenSecrets
    <3>1. Stage(t) = "live"
      BY <1>2, <1>5 DEF Stage
    <3>2. [s \in TokenSecrets |-> Stage(s)]' = [s \in TokenSecrets |-> Stage(s)]
      BY <1>3, StillStage
    <3>3. \A d \in Calls : d # c => MayRedeem(d)' = MayRedeem(d)
      BY <2>2 DEF MayRedeem
    <3>4. MayRedeem(c)' = MayRedeem(c) \cup {t}
      BY <1>4, <2>3, <2>5
    <3>5. [d \in Calls |-> MayRedeem(d)]'
            = [[d \in Calls |-> MayRedeem(d)] EXCEPT ![c] = @ \cup {t}]
      BY <3>3, <3>4
    <3>6. Promise!Admit(c, t)
      BY <1>4, <2>5, <3>1, <3>2, <3>5 DEF Promise!Admit
    <3>7. QED
      BY <2>5, <3>6 DEF Promise!Next
  <2>6. QED
    BY <2>4, <2>5
<1>6. CASE t \notin stored
  <2>1. Answer(c, "REFUSED") /\ "REFUSED" \in Answers
    BY <1>1, <1>6 DEF Answers
  <2>2. call'[c].pc = "done" /\ \A d \in Calls : d # c => call'[d] = call[d]
    BY <1>2, <2>1, Moves
  <2>3. MayRedeem(c)' = {}
    BY <2>2, Admittance DEF UseSteps
  <2>4. QED
    BY <1>3, <1>4, <2>2, <2>3, CallMoves
<1>7. QED
  BY <1>5, <1>6

\* The write of a token's use is a Redeem, whether or not the token is still there.
LEMMA WriteMoves ==
  ASSUME Inv, Accounted, NEW c \in Calls, UseWrite(c)
  PROVE  [Promise!Next]_Promise!ledger
<1>1. PICK t \in Secrets : t = call[c].secret /\ call[c].pc = "write"
  BY DEF UseWrite, Inv, Positions, UseSteps
<1>2. /\ UNCHANGED <<stored, lapsed>>
      /\ effects' = IF t \in TokenSecrets THEN [effects EXCEPT ![t] = @ + 1] ELSE effects
  BY <1>1 DEF UseWrite
<1>3. call \in [Calls -> Locals] /\ effects \in [TokenSecrets -> Nat] /\ lapsed \cap stored = {}
  BY DEF Inv, TypeOK
<1>4. call'[c].pc \in {"done", "delete"} /\ \A d \in Calls : d # c => call'[d] = call[d]
  <2>1. Answer(c, "USED") \/ Goto(c, "delete")
    BY DEF UseWrite
  <2>2. "USED" \in Answers /\ "delete" \in Pcs
    BY DEF Answers, Pcs
  <2>3. QED
    BY <1>3, <2>1, <2>2, Moves
<1>5. MayRedeem(c) = {t} \cap TokenSecrets /\ MayRedeem(c)' = {}
  BY <1>1, <1>4, Admittance DEF UseSteps
<1>6. CASE t \notin TokenSecrets
  <2>1. \A s \in TokenSecrets : Still(s)
    BY <1>2, <1>6 DEF Still
  <2>2. QED
    BY <1>2, <1>4, <1>5, <1>6, <2>1, CallMoves
<1>7. CASE t \in TokenSecrets
  <2>1. effects[t] \in Nat /\ effects'[t] = effects[t] + 1
    BY <1>2, <1>3, <1>7
  <2>2. \A s \in TokenSecrets : s # t => Still(s)
    BY <1>2, <1>3, <1>7 DEF Still
  <2>3. Stage(t) # "blank"
    BY <1>5, <1>7 DEF Accounted
  <2>4. Stage(t)' = Stage(t)
    <3>1. CASE t \in stored
      BY <1>2, <1>3, <3>1 DEF Stage
    <3>2. CASE t \in lapsed
      BY <1>2, <1>3, <3>2 DEF Stage
    <3>3. CASE t \notin stored /\ t \notin lapsed
      <4>1. effects[t] > 0
        BY <2>3, <3>3 DEF Stage
      <4>2. effects'[t] > 0
        BY <2>1, <4>1
      <4>3. QED
        BY <1>2, <3>3, <4>1, <4>2 DEF Stage
    <3>4. QED
      BY <3>1, <3>2, <3>3
  <2>5. [s \in TokenSecrets |-> Stage(s)]' = [s \in TokenSecrets |-> Stage(s)]
    BY <2>2, <2>4, StillStage
  <2>6. \A d \in Calls : d # c => MayRedeem(d)' = MayRedeem(d)
    BY <1>4 DEF MayRedeem
  <2>7. MayRedeem(c)' = MayRedeem(c) \ {t} /\ t \in MayRedeem(c)
    BY <1>5, <1>7
  <2>8. [d \in Calls |-> MayRedeem(d)]'
          = [[d \in Calls |-> MayRedeem(d)] EXCEPT ![c] = @ \ {t}]
    BY <2>6, <2>7
  <2>9. Promise!Redeem(c, t)
    BY <1>2, <1>7, <2>5, <2>7, <2>8 DEF Promise!Redeem
  <2>10. QED
    BY <1>7, <2>9 DEF Promise!Next
<1>8. QED
  BY <1>6, <1>7

\* The DEL of a use is a Spend: the use has been written before it.
LEMMA DeleteMoves ==
  ASSUME Inv, NEW c \in Calls, UseDelete(c) \/ DeleteFails(c)
  PROVE  [Promise!Next]_Promise!ledger
<1>1. PICK t \in Secrets : t = call[c].secret
  BY DEF UseDelete, DeleteFails, Inv, Positions
<1>2. /\ stored' \in {stored, Del(t)} /\ UNCHANGED <<lapsed, effects>>
      /\ t \in TokenSecrets => effects[t] > 0
      /\ call \in [Calls -> Locals] /\ lapsed \cap stored = {}
  BY <1>1 DEF UseDelete, DeleteFails, history, Inv, Positions, TypeOK
<1>3. call'[c].pc = "done" /\ call[c].pc = "delete" /\ \A d \in Calls : d # c => call'[d] = call[d]
  <2>1. call[c].pc = "delete" /\ \E x \in {"USED", "ERROR"} : Answer(c, x)
    BY DEF UseDelete, DeleteFails
  <2>2. {"USED", "ERROR"} \subseteq Answers
    BY DEF Answers
  <2>3. QED
    BY <1>2, <2>1, <2>2, Moves
<1>4. MayRedeem(c) = {} /\ MayRedeem(c)' = {}
  BY <1>3, Admittance DEF UseSteps
<1>5. \A d \in Calls : MayRedeem(d)' = MayRedeem(d)
  BY <1>3, <1>4 DEF MayRedeem
<1>6. \A x \in TokenSecrets : Drawn(x)
  BY DEF Drawn
<1>7. \A x \in TokenSecrets : x # t => Still(x)
  BY <1>2, <1>6, KeysApart DEF Still
<1>8. CASE t \in TokenSecrets /\ t \in stored /\ stored' = Del(t)
  <2>1. t \notin stored' /\ t \notin lapsed /\ t \notin lapsed' /\ effects[t] > 0 /\ effects'[t] > 0
    BY <1>2, <1>6, <1>8, KeysApart
  <2>2. Stage(t) = "live" /\ Stage(t)' = "spent"
    BY <1>8, <2>1 DEF Stage
  <2>3. QED
    BY <1>2, <1>5, <1>7, <1>8, <2>2, StageMoves
<1>9. CASE ~(t \in TokenSecrets /\ t \in stored /\ stored' = Del(t))
  <2>1. \A x \in TokenSecrets : Still(x)
    BY <1>2, <1>6, <1>9, KeysApart DEF Still
  <2>2. QED
    BY <1>2, <1>3, <1>4, <2>1, CallMoves
<1>10. QED
  BY <1>8, <1>9

LEMMA StepPromise == Inv /\ Accounted /\ [Next]_vars => [Promise!Next]_Promise!ledger
<1> SUFFICES ASSUME Inv, Accounted, [Next]_vars PROVE [Promise!Next]_Promise!ledger
  OBVIOUS
<1>0. call \in [Calls -> Locals] /\ row \in Rows /\ stored \subseteq Secrets
  BY DEF Inv, TypeOK
<1>q. /\ {"mail", "cleanup", "store", "enroll", "write"} \subseteq Pcs
      /\ {"SENT", "REFUSED", "REGISTERED", "ERROR"} \subseteq Answers
      /\ UseSteps = {"read", "write"}
  BY DEF Pcs, Answers, UseSteps, SendSteps
\* Steps of a call that leave it without an admission, and the keys as they were.
<1>1. ASSUME NEW c \in Calls,
             \/ \E x \in {"SENT", "REFUSED", "REGISTERED", "ERROR"} : Answer(c, x)
             \/ \E to \in {"mail", "cleanup", "drop"} : Goto(c, to)
             \/ \E s \in Secrets : Begin(c, "store", s)
             \/ GotoSeen(c, "enroll")
      PROVE  /\ call'[c].pc \notin UseSteps /\ MayRedeem(c)' = {}
             /\ \A d \in Calls : d # c => call'[d] = call[d]
  <2>1. /\ call'[c].pc \notin UseSteps
        /\ \A d \in Calls : d # c => call'[d] = call[d]
    BY <1>0, <1>1, <1>q, Moves DEF Pcs, SendSteps
  <2>2. QED
    BY <2>1, Admittance
<1>2. ASSUME NEW c \in Calls,
             \/ \E x \in {"SENT", "REFUSED", "REGISTERED", "ERROR"} : Answer(c, x)
             \/ \E to \in {"mail", "cleanup", "drop"} : Goto(c, to)
             \/ \E s \in Secrets : Begin(c, "store", s)
             \/ GotoSeen(c, "enroll"),
             \A s \in TokenSecrets : Still(s), effects' = effects
      PROVE  [Promise!Next]_Promise!ledger
  BY <1>1, <1>2, CallMoves
<1>3. ASSUME NEW c \in Calls, SendStart(c)
      PROVE  [Promise!Next]_Promise!ledger
  <2>1. UNCHANGED <<stored, history>>
    BY <1>3 DEF SendStart
  <2>2. \A s \in TokenSecrets : Still(s)
    BY <2>1 DEF Still, history
  <2>3. Answer(c, "REFUSED") \/ \E s \in Secrets : Begin(c, "store", s)
    BY <1>3 DEF SendStart
  <2>4. QED
    BY <1>2, <2>1, <2>2, <2>3 DEF history
<1>4. ASSUME NEW c \in Calls, SendStore(c) \/ StoreFails(c)
      PROVE  [Promise!Next]_Promise!ledger
  <2>1. /\ call[c].pc = "store" /\ stored' \in {stored, Set(call[c].secret)}
        /\ UNCHANGED history
        /\ (\E x \in {"SENT", "ERROR"} : Answer(c, x)) \/ Goto(c, "mail")
    BY <1>4 DEF SendStore, StoreFails
  <2>2. QED
    BY <1>1, <2>1, SetMoves
<1>5. ASSUME NEW c \in Calls,
             SendMail(c) \/ UseCollides(c) \/ CallFails(c) \/ RegisterRead(c) \/ RegisterWrite(c)
      PROVE  [Promise!Next]_Promise!ledger
  <2>1. UNCHANGED <<stored, history>>
    BY <1>5 DEF SendMail, UseCollides, CallFails, RegisterRead, RegisterWrite
  <2>2. \A s \in TokenSecrets : Still(s)
    BY <2>1 DEF Still, history
  <2>3. \/ \E x \in {"SENT", "REFUSED", "REGISTERED", "ERROR"} : Answer(c, x)
        \/ \E to \in {"mail", "cleanup", "drop"} : Goto(c, to)
        \/ GotoSeen(c, "enroll")
    BY <1>5 DEF SendMail, UseCollides, CallFails, RegisterRead, RegisterWrite
  <2>4. QED
    BY <1>2, <2>1, <2>2, <2>3 DEF history
<1>6. ASSUME NEW c \in Calls, DropKey(c) \/ CleanUp(c)
      PROVE  [Promise!Next]_Promise!ledger
  <2>1. PICK s \in Secrets : s = call[c].secret
    BY <1>6 DEF DropKey, CleanUp, Inv, Positions, SendSteps
  <2>2. /\ call[c].pc \notin UseSteps /\ effects' = effects
        /\ Discard(s) \/ UNCHANGED <<stored, lapsed>>
        /\ Answer(c, "ERROR") \/ Goto(c, "cleanup")
    BY <1>6, <2>1 DEF DropKey, CleanUp, UseSteps
  <2>3. /\ MayRedeem(c)' = {} /\ MayRedeem(c) = {}
        /\ \A d \in Calls : d # c => call'[d] = call[d]
    BY <1>1, <2>2, Admittance
  <2>4. \A d \in Calls : MayRedeem(d)' = MayRedeem(d)
    BY <2>3 DEF MayRedeem
  <2>5. CASE Discard(s)
    BY <2>2, <2>4, <2>5, DiscardMoves
  <2>6. CASE UNCHANGED <<stored, lapsed>>
    <3>1. \A x \in TokenSecrets : Still(x)
      BY <2>2, <2>6 DEF Still
    <3>2. QED
      BY <2>2, <2>3, <3>1, CallMoves
  <2>7. QED
    BY <2>2, <2>5, <2>6
<1>7. ASSUME NEW c \in Calls, ConsumeState(c) \/ ConsumeFails(c)
      PROVE  [Promise!Next]_Promise!ledger
  <2>1. PICK s \in known \cap StateSecrets :
          /\ stored' \in {stored, Del(s)}
          /\ (\E x \in {"REFUSED", "ERROR"} : Answer(c, x)) \/ Begin(c, "read", s)
    BY <1>7 DEF ConsumeState, ConsumeFails
  <2>2. s \in Secrets /\ s \notin TokenSecrets /\ call[c].pc = "idle" /\ UNCHANGED history
    BY <1>7 DEF ConsumeState, ConsumeFails, Secrets, StateSecrets, TokenSecrets
  <2>3. \A x \in TokenSecrets : Still(x)
    <3>1. \A x \in TokenSecrets : Drawn(x)
      BY DEF Drawn
    <3>2. QED
      BY <2>1, <2>2, <3>1, KeysApart DEF Still, history
  <2>4. CASE Begin(c, "read", s)
    <3>1. /\ call'[c].pc = "read" /\ call'[c].secret = s
          /\ \A d \in Calls : d # c => call'[d] = call[d]
      BY <1>0, <2>2, <2>4, Moves DEF Pcs, UseSteps
    <3>2. MayRedeem(c)' = {}
      BY <2>2, <3>1, <1>q, Admittance
    <3>3. QED
      BY <2>2, <2>3, <3>1, <3>2, CallMoves DEF history
  <2>5. CASE \E x \in {"REFUSED", "ERROR"} : Answer(c, x)
    BY <1>2, <2>2, <2>3, <2>5 DEF history
  <2>6. QED
    BY <2>1, <2>4, <2>5
<1>8. ASSUME NEW c \in Calls, UseRead(c)
      PROVE  [Promise!Next]_Promise!ledger
  <2>1. UNCHANGED <<stored, history>> /\ call[c].pc = "read"
    BY <1>8 DEF UseRead
  <2>2. \A s \in TokenSecrets : Still(s)
    BY <2>1 DEF Still, history
  <2>3. CASE GotoSeen(c, "write")
    <3>1. /\ call'[c].pc = "write" /\ call'[c].secret = call[c].secret
          /\ \A d \in Calls : d # c => call'[d] = call[d]
      BY <1>0, <2>3, <1>q, Moves
    <3>2. MayRedeem(c)' = MayRedeem(c)
      BY <2>1, <3>1, <1>q, Admittance
    <3>3. QED
      BY <2>1, <2>2, <3>1, <3>2, CallMoves DEF history
  <2>4. CASE Answer(c, "REFUSED")
    BY <1>2, <2>1, <2>2, <2>4 DEF history
  <2>5. QED
    BY <1>8, <2>3, <2>4 DEF UseRead
<1>9. CASE Expire
  <2>1. PICK s \in Secrets : Discard(s) /\ UNCHANGED <<effects, call>>
    BY <1>9, <1>0 DEF Expire
  <2>2. \A d \in Calls : MayRedeem(d)' = MayRedeem(d)
    BY <2>1 DEF MayRedeem
  <2>3. QED
    BY <2>1, <2>2, DiscardMoves
<1>10. CASE ServerCrash
  <2>1. /\ UNCHANGED <<stored, history>>
        /\ call' = [c \in Calls |-> IF InFlight(c) THEN Answered(call[c], "LOST") ELSE call[c]]
    BY <1>10 DEF ServerCrash
  <2>2. ASSUME NEW c \in Calls PROVE MayRedeem(c)' = {}
    <3>1. call'[c] = IF InFlight(c) THEN Answered(call[c], "LOST") ELSE call[c]
      BY <2>1
    <3>2. call'[c].pc \notin UseSteps
      BY <3>1 DEF InFlight, Answered, UseSteps
    <3>3. QED
      BY <3>2, Admittance
  <2>3. [s \in TokenSecrets |-> Stage(s)]' = [s \in TokenSecrets |-> Stage(s)]
    BY <2>1 DEF Stage, history
  <2>4. [c \in Calls |-> MayRedeem(c)]' = [c \in Calls |-> {}]
    BY <2>2
  <2>5. Promise!ShutDown
    BY <2>1, <2>3, <2>4 DEF Promise!ShutDown, history
  <2>6. QED
    BY <2>5 DEF Promise!Next
<1>11. CASE UNCHANGED vars
  BY <1>11 DEF vars, history, Promise!ledger, Stage, MayRedeem
<1>12. QED
  BY <1>3, <1>4, <1>5, <1>6, <1>7, <1>8, <1>9, <1>10, <1>11, GetMoves, WriteMoves, DeleteMoves
     DEF Next, SendStep, UseStep

\* The mailed tokens are vouchers: issued once, gone only by lapsing or after a
\* use of them has been written.
THEOREM SecretsImplementVoucher == Spec => ImplementsVoucher
<1>1. Init => Promise!Init /\ Accounted
  BY InitPromise
<1>2. Inv /\ Accounted /\ [Next]_vars => [Promise!Next]_Promise!ledger /\ Accounted'
  BY StepPromise, AccountedStep
<1>3. QED
  BY <1>1, <1>2, Invariant, PTL DEF Spec, ImplementsVoucher, Promise!Spec
================================================================================
