-------------------------- MODULE RegistrationProofs --------------------------
(***************************************************************************)
(* Registration for any number of requests and imports, any files, any     *)
(* capacities and any batch size: what its rows and counters can hold, and *)
(* what it promises about seats, tickets, QR codes and reports.            *)
(***************************************************************************)
EXTENDS Registration, FiniteSetTheorems, TLAPS

----------------------------------------------------------------------------
(* Files and their rows                                                    *)

LEMMA FileRows ==
  ASSUME NEW f \in Seq(Rows)
  PROVE  /\ Len(f) \in Nat
         /\ DOMAIN f = 1 .. Len(f)
         /\ \A n \in DOMAIN f : n \in Nat /\ f[n].email \in Emails /\ f[n].type \in Choices
         /\ FirstMentions(f) \subseteq DOMAIN f
<1>1. Len(f) \in Nat /\ DOMAIN f = 1 .. Len(f)
  OBVIOUS
<1>2. \A n \in 1 .. Len(f) : n \in Nat
  BY <1>1
<1>3. \A n \in 1 .. Len(f) : f[n] \in Rows
  BY <1>1
<1>4. \A r \in Rows : r.email \in Emails /\ r.type \in Choices
  BY DEF Rows
<1>5. FirstMentions(f) \subseteq DOMAIN f
  BY DEF FirstMentions
<1>6. QED
  BY <1>1, <1>2, <1>3, <1>4, <1>5

\* A set of rows is finite, and no larger than the file.
LEMMA RowCount ==
  ASSUME NEW f \in Seq(Rows), NEW S \in SUBSET DOMAIN f
  PROVE  /\ IsFiniteSet(S)
         /\ Cardinality(S) \in Nat
         /\ Cardinality(S) <= Len(f)
<1>1. Len(f) \in Nat /\ DOMAIN f = 1 .. Len(f)
  BY FileRows
<1>2. IsFiniteSet(1 .. Len(f)) /\ Cardinality(1 .. Len(f)) = Len(f)
  <2>1. /\ IsFiniteSet(1 .. Len(f))
        /\ Cardinality(1 .. Len(f)) = IF 1 > Len(f) THEN 0 ELSE Len(f) - 1 + 1
    BY <1>1, FS_Interval
  <2>2. QED
    BY <1>1, <2>1
<1>3. IsFiniteSet(S) /\ Cardinality(S) <= Len(f)
  BY <1>1, <1>2, FS_Subset
<1>4. QED
  BY <1>3, FS_CardinalityType

LEMMA Split ==
  ASSUME NEW S, IsFiniteSet(S), NEW T \in SUBSET S
  PROVE  Cardinality(S \ T) = Cardinality(S) - Cardinality(T)
<1>1. S \cap T = T
  OBVIOUS
<1>2. Cardinality(S \ T) = Cardinality(S) - Cardinality(S \cap T)
  BY FS_Difference
<1>3. QED
  BY <1>1, <1>2

\* Rows with the same email: only one of them is a first mention.
LEMMA FirstMentionsDiffer ==
  ASSUME NEW f \in Seq(Rows), NEW m \in FirstMentions(f), NEW n \in FirstMentions(f),
         f[m].email = f[n].email
  PROVE  m = n
<1>1. m \in Nat /\ n \in Nat /\ m \in 1 .. Len(f) /\ n \in 1 .. Len(f)
  BY FileRows
<1>2. CASE m < n
  <2>1. m \in 1 .. (n - 1)
    BY <1>1, <1>2
  <2>2. QED
    BY <2>1 DEF FirstMentions
<1>3. CASE n < m
  <2>1. n \in 1 .. (m - 1)
    BY <1>1, <1>3
  <2>2. QED
    BY <2>1 DEF FirstMentions
<1>4. QED
  BY <1>1, <1>2, <1>3

----------------------------------------------------------------------------
(* The locals of an import                                                 *)

\* Each first mention is ahead of the import, in the transaction, or behind it;
\* what a transaction has created, its claims allow.
Shape(l) ==
  /\ l.todo \cup l.batch \cup l.made \subseteq FirstMentions(l.file)
  /\ l.todo \cap l.batch = {} /\ l.todo \cap l.made = {} /\ l.batch \cap l.made = {}
  /\ l.pc \in {"rowClaim", "rowCreate"} =>
       /\ l.row \in FirstMentions(l.file)
       /\ l.row \notin l.todo /\ l.row \notin l.batch /\ l.row \notin l.made
  /\ l.pc = "rowClaim" => l.file[l.row].type # NoType
  /\ l.pc = "rowCreate" => l.file[l.row].type \in l.claimed \cup {NoType}
  /\ \A n \in l.made : l.file[n].type \in l.claimed \cup {NoType}
  /\ l.pc \notin BatchSteps => l.batch = {} /\ l.made = {} /\ l.claimed = {} /\ ~l.aborted

\* Rows counted so far and rows still to be counted make up the file; in a
\* transaction also if it should fail as a whole.
AtRow(l) == IF l.pc \in {"rowClaim", "rowCreate"} THEN 1 ELSE 0
Covers(l) ==
  /\ l.pc # "done" =>
       l.success + l.failed + Cardinality(l.todo) + Cardinality(l.batch)
         + Cardinality(l.made) + AtRow(l) >= Len(l.file)
  /\ l.pc \in BatchSteps =>
       l.success + l.failed + Cardinality(l.todo) + l.size >= Len(l.file)

Sound(l) == l \in Import /\ Shape(l) /\ Covers(l)

LEMMA ImportFields ==
  ASSUME NEW l \in Import
  PROVE  /\ \A x \in {"start", "dedupe", "types", "next", "done"} \cup BatchSteps :
              [l EXCEPT !.pc = x] \in Import
         /\ \A f \in Seq(Rows) : [l EXCEPT !.file = f] \in Import
         /\ \A S \in SUBSET Nat : /\ [l EXCEPT !.todo = S] \in Import
                                  /\ [l EXCEPT !.batch = S] \in Import
                                  /\ [l EXCEPT !.made = S] \in Import
         /\ \A n \in Nat : /\ [l EXCEPT !.row = n] \in Import
                           /\ [l EXCEPT !.size = n] \in Import
                           /\ [l EXCEPT !.success = n] \in Import
                           /\ [l EXCEPT !.failed = n] \in Import
         /\ \A T \in SUBSET TicketTypes : [l EXCEPT !.claimed = T] \in Import
         /\ \A c \in Nat \cup {NoLimit} : [l EXCEPT !.capacity = c] \in Import
         /\ \A b \in BOOLEAN : [l EXCEPT !.aborted = b] \in Import
BY DEF Import

\* One more failed row where one row was under way.
LEMMA OneMoreFailed ==
  ASSUME NEW s \in Nat, NEW f \in Nat, NEW t \in Nat, NEW b \in Nat, NEW m \in Nat,
         NEW z \in Nat, NEW n \in Nat
  PROVE  /\ s + f + t + b + m + 1 >= n => s + (f + 1) + t + b + m + 0 >= n
         /\ s + f + t + z >= n => s + (f + 1) + t + z >= n
OBVIOUS

LEMMA NewSound == Sound(NewImport)
<1>1. <<>> \in Seq(Rows) /\ Len(<<>>) = 0 /\ FirstMentions(<<>>) = {}
  BY DEF FirstMentions
<1>2. NewImport \in Import
  BY <1>1, CapacityAssumption DEF NewImport, NoFile, Import
<1>3. Shape(NewImport)
  BY <1>1 DEF Shape, NewImport, NoFile, BatchSteps
<1>4. Covers(NewImport)
  BY <1>1, FS_EmptySet DEF Covers, AtRow, NewImport, NoFile, BatchSteps
<1>5. QED
  BY <1>2, <1>3, <1>4 DEF Sound

\* ImportStart
LEMMA StartSound ==
  ASSUME NEW l, Sound(l), l.pc = "start", NEW f \in Seq(Rows)
  PROVE  Sound([l EXCEPT !.pc = "dedupe", !.file = f, !.todo = FirstMentions(f),
                         !.failed = Len(f) - Cardinality(FirstMentions(f))])
<1> DEFINE n == Len(f) - Cardinality(FirstMentions(f))
           r == [l EXCEPT !.pc = "dedupe", !.file = f, !.todo = FirstMentions(f), !.failed = n]
<1>1. /\ FirstMentions(f) \in SUBSET Nat
      /\ Cardinality(FirstMentions(f)) \in Nat
      /\ Len(f) \in Nat
      /\ n \in Nat
  BY FileRows, RowCount
<1>2. r \in Import
  <2>1. [l EXCEPT !.pc = "dedupe"] \in Import
    BY ImportFields DEF Sound
  <2>2. [[l EXCEPT !.pc = "dedupe"] EXCEPT !.file = f] \in Import
    BY <2>1, ImportFields
  <2>3. [[[l EXCEPT !.pc = "dedupe"] EXCEPT !.file = f] EXCEPT !.todo = FirstMentions(f)] \in Import
    BY <1>1, <2>2, ImportFields
  <2> HIDE DEF n
  <2>4. QED
    BY <1>1, <2>3, ImportFields
<1>3. /\ r.pc = "dedupe" /\ r.file = f /\ r.todo = FirstMentions(f) /\ r.failed = n
      /\ r.batch = l.batch /\ r.made = l.made /\ r.claimed = l.claimed
      /\ r.aborted = l.aborted /\ r.success = l.success
  BY DEF Sound, Import
<1>4. /\ l.batch = {} /\ l.made = {} /\ l.claimed = {} /\ ~l.aborted
      /\ l.success \in Nat
  BY DEF Sound, Shape, Import, BatchSteps
<1> HIDE DEF r
<1>5. Shape(r)
  BY <1>3, <1>4 DEF Shape, BatchSteps
<1>6. Covers(r)
  <2>1. r.success + r.failed + Cardinality(r.todo) + Cardinality(r.batch)
          + Cardinality(r.made) + AtRow(r) >= Len(r.file)
    BY <1>1, <1>3, <1>4, FS_EmptySet DEF AtRow
  <2>2. QED
    BY <1>3, <2>1 DEF Covers, BatchSteps
<1>7. QED
  BY <1>2, <1>5, <1>6 DEF Sound, r

\* The sets of rows in the locals are finite.
LEMMA SoundSets ==
  ASSUME NEW l, Sound(l)
  PROVE  /\ l.file \in Seq(Rows) /\ Len(l.file) \in Nat
         /\ FirstMentions(l.file) \subseteq Nat
         /\ \A S \in SUBSET FirstMentions(l.file) :
              IsFiniteSet(S) /\ Cardinality(S) \in Nat
         /\ l.todo \in SUBSET FirstMentions(l.file)
         /\ l.batch \in SUBSET FirstMentions(l.file)
         /\ l.made \in SUBSET FirstMentions(l.file)
         /\ l.success \in Nat /\ l.failed \in Nat /\ l.size \in Nat
<1>1. l.file \in Seq(Rows) /\ l.success \in Nat /\ l.failed \in Nat /\ l.size \in Nat
  BY DEF Sound, Import
<1>2. Len(l.file) \in Nat /\ FirstMentions(l.file) \subseteq DOMAIN l.file
      /\ FirstMentions(l.file) \subseteq Nat
  BY <1>1, FileRows
<1>3. ASSUME NEW S \in SUBSET FirstMentions(l.file)
      PROVE  IsFiniteSet(S) /\ Cardinality(S) \in Nat
  <2>1. S \in SUBSET DOMAIN l.file
    BY <1>2
  <2>2. QED
    BY <1>1, <2>1, RowCount
<1>4. /\ l.todo \in SUBSET FirstMentions(l.file)
      /\ l.batch \in SUBSET FirstMentions(l.file)
      /\ l.made \in SUBSET FirstMentions(l.file)
  BY DEF Sound, Shape
<1>5. QED
  BY <1>1, <1>2, <1>3, <1>4

\* ImportDedupe and ImportCheckTypes
LEMMA KeepSound ==
  ASSUME NEW l, Sound(l), l.pc \in {"dedupe", "types"}, NEW kept \in SUBSET l.todo,
         NEW to \in {"types", "next"}
  PROVE  Sound([l EXCEPT !.pc = to, !.todo = kept,
                         !.failed = @ + Cardinality(l.todo \ kept)])
<1> DEFINE n == l.failed + Cardinality(l.todo \ kept)
           r == [l EXCEPT !.pc = to, !.todo = kept, !.failed = n]
<1>1. /\ kept \in SUBSET Nat
      /\ Cardinality(kept) \in Nat
      /\ Cardinality(l.todo \ kept) \in Nat
      /\ l.failed \in Nat /\ l.success \in Nat /\ Len(l.file) \in Nat
      /\ IsFiniteSet(l.todo) /\ Cardinality(l.todo) \in Nat
  BY SoundSets
<1>2. Cardinality(l.todo \ kept) = Cardinality(l.todo) - Cardinality(kept)
  BY <1>1, Split
<1>3. r \in Import
  <2>0. l \in Import /\ n \in Nat
    BY <1>1 DEF Sound
  <2>1. [l EXCEPT !.pc = to] \in Import
    BY <2>0, ImportFields
  <2>2. [[l EXCEPT !.pc = to] EXCEPT !.todo = kept] \in Import
    BY <1>1, <2>1, ImportFields
  <2> HIDE DEF n
  <2>3. QED
    BY <2>0, <2>2, ImportFields
<1>4. /\ r.pc = to /\ r.file = l.file /\ r.todo = kept /\ r.failed = n
      /\ r.batch = l.batch /\ r.made = l.made /\ r.claimed = l.claimed
      /\ r.aborted = l.aborted /\ r.success = l.success
  BY DEF Sound, Import
<1>5. /\ l.batch = {} /\ l.made = {} /\ l.claimed = {} /\ ~l.aborted
      /\ l.todo \subseteq FirstMentions(l.file)
      /\ l.success + l.failed + Cardinality(l.todo) + Cardinality(l.batch)
           + Cardinality(l.made) + 0 >= Len(l.file)
  BY DEF Sound, Shape, Covers, AtRow, BatchSteps
<1> HIDE DEF r
<1>6. Shape(r)
  BY <1>4, <1>5 DEF Shape, BatchSteps
<1>7. Covers(r)
  <2>1. r.success + r.failed + Cardinality(r.todo) + Cardinality(r.batch)
          + Cardinality(r.made) + AtRow(r) >= Len(r.file)
    <3>1. Cardinality(r.batch) = 0 /\ Cardinality(r.made) = 0 /\ AtRow(r) = 0
      BY <1>4, <1>5, FS_EmptySet DEF AtRow
    <3>2. Cardinality(l.batch) = 0 /\ Cardinality(l.made) = 0
      BY <1>5, FS_EmptySet
    <3>3. QED
      BY <1>1, <1>2, <1>4, <1>5, <3>1, <3>2
  <2>2. QED
    BY <1>4, <2>1 DEF Covers, BatchSteps
<1>8. QED
  BY <1>3, <1>6, <1>7 DEF Sound, r

\* ImportNextBatch
LEMMA NextBatchSound ==
  ASSUME NEW l, Sound(l), l.pc = "next", NEW B \in SUBSET l.todo
  PROVE  Sound([l EXCEPT !.pc = "row", !.todo = @ \ B, !.batch = B, !.size = Cardinality(B)])
<1> DEFINE r == [l EXCEPT !.pc = "row", !.todo = @ \ B, !.batch = B, !.size = Cardinality(B)]
<1>1. /\ B \in SUBSET Nat /\ l.todo \ B \in SUBSET Nat
      /\ Cardinality(B) \in Nat
      /\ Cardinality(l.todo \ B) \in Nat
      /\ l.failed \in Nat /\ l.success \in Nat /\ Len(l.file) \in Nat
      /\ IsFiniteSet(l.todo) /\ Cardinality(l.todo) \in Nat
  BY SoundSets
<1>2. Cardinality(l.todo \ B) = Cardinality(l.todo) - Cardinality(B)
  BY <1>1, Split
<1>3. r \in Import
  <2>1. [l EXCEPT !.pc = "row"] \in Import
    BY ImportFields DEF Sound, BatchSteps
  <2>2. [[l EXCEPT !.pc = "row"] EXCEPT !.todo = l.todo \ B] \in Import
    BY <1>1, <2>1, ImportFields
  <2>3. [[[l EXCEPT !.pc = "row"] EXCEPT !.todo = l.todo \ B] EXCEPT !.batch = B] \in Import
    BY <1>1, <2>2, ImportFields
  <2>4. [[[[l EXCEPT !.pc = "row"] EXCEPT !.todo = l.todo \ B] EXCEPT !.batch = B]
           EXCEPT !.size = Cardinality(B)] \in Import
    BY <1>1, <2>3, ImportFields
  <2>5. QED
    BY <2>4
<1>4. /\ r.pc = "row" /\ r.file = l.file /\ r.todo = l.todo \ B /\ r.batch = B
      /\ r.size = Cardinality(B)
      /\ r.failed = l.failed /\ r.made = l.made /\ r.claimed = l.claimed
      /\ r.aborted = l.aborted /\ r.success = l.success
  BY DEF Sound, Import
<1>5. /\ l.batch = {} /\ l.made = {} /\ l.claimed = {} /\ ~l.aborted
      /\ l.todo \subseteq FirstMentions(l.file)
      /\ l.success + l.failed + Cardinality(l.todo) + Cardinality(l.batch)
           + Cardinality(l.made) + 0 >= Len(l.file)
  BY DEF Sound, Shape, Covers, AtRow, BatchSteps
<1> HIDE DEF r
<1>6. Shape(r)
  BY <1>4, <1>5 DEF Shape, BatchSteps
<1>7. Covers(r)
  <2>1. r.success + r.failed + Cardinality(r.todo) + Cardinality(r.batch)
          + Cardinality(r.made) + AtRow(r) >= Len(r.file)
    BY <1>1, <1>2, <1>4, <1>5, FS_EmptySet DEF AtRow
  <2>2. r.success + r.failed + Cardinality(r.todo) + r.size >= Len(r.file)
    BY <1>1, <1>2, <1>4, <1>5, FS_EmptySet
  <2>3. QED
    BY <2>1, <2>2 DEF Covers
<1>8. QED
  BY <1>3, <1>6, <1>7 DEF Sound, r

\* RowStart: row n leaves the batch, towards its claim or its creation.
LEMMA RowStartSound ==
  ASSUME NEW l, Sound(l), l.pc = "row", NEW n \in l.batch, NEW to \in {"rowClaim", "rowCreate"},
         NEW r, r \in Import,
         r.pc = to, r.file = l.file, r.todo = l.todo, r.batch = l.batch \ {n}, r.row = n,
         r.made = l.made, r.claimed = l.claimed, r.aborted = l.aborted,
         r.size = l.size, r.success = l.success, r.failed = l.failed,
         to = "rowCreate" <=> l.file[n].type = NoType
  PROVE  Sound(r)
<1>1. Shape(r)
  BY DEF Sound, Shape, BatchSteps
<1>2. /\ IsFiniteSet(l.batch) /\ Cardinality(l.batch) \in Nat
      /\ Cardinality(l.todo) \in Nat /\ Cardinality(l.made) \in Nat
      /\ l.success \in Nat /\ l.failed \in Nat /\ l.size \in Nat /\ Len(l.file) \in Nat
  BY SoundSets
<1>3. Cardinality(l.batch \ {n}) = Cardinality(l.batch) - 1
  BY <1>2, FS_RemoveElement
<1>4. /\ l.success + l.failed + Cardinality(l.todo) + Cardinality(l.batch)
           + Cardinality(l.made) + 0 >= Len(l.file)
      /\ l.success + l.failed + Cardinality(l.todo) + l.size >= Len(l.file)
  BY DEF Sound, Covers, AtRow, BatchSteps
<1>5. AtRow(r) = 1
  BY DEF AtRow
<1>6. Covers(r)
  BY <1>2, <1>3, <1>4, <1>5 DEF Covers
<1>7. QED
  BY <1>1, <1>6 DEF Sound

\* RowClaim: the row's type is claimed.
LEMMA ClaimSound ==
  ASSUME NEW l, Sound(l), l.pc = "rowClaim"
  PROVE  Sound([l EXCEPT !.pc = "rowCreate", !.claimed = @ \cup {l.file[l.row].type}])
<1> DEFINE t == l.file[l.row].type
           r == [l EXCEPT !.pc = "rowCreate", !.claimed = @ \cup {t}]
<1>1. t \in TicketTypes
  <2>1. l.row \in DOMAIN l.file /\ t # NoType
    BY SoundSets, FileRows DEF Sound, Shape
  <2>2. QED
    BY <2>1, SoundSets, FileRows DEF Choices
<1>2. r \in Import
  <2>1. [l EXCEPT !.pc = "rowCreate"] \in Import
    BY ImportFields DEF Sound, BatchSteps
  <2>2. l.claimed \cup {t} \in SUBSET TicketTypes
    BY <1>1 DEF Sound, Import
  <2> HIDE DEF t
  <2>3. [[l EXCEPT !.pc = "rowCreate"] EXCEPT !.claimed = l.claimed \cup {t}] \in Import
    BY <2>1, <2>2, ImportFields
  <2>4. QED
    BY <2>3
<1>3. /\ r.pc = "rowCreate" /\ r.file = l.file /\ r.todo = l.todo /\ r.batch = l.batch
      /\ r.made = l.made /\ r.claimed = l.claimed \cup {t} /\ r.aborted = l.aborted
      /\ r.row = l.row /\ r.size = l.size /\ r.success = l.success /\ r.failed = l.failed
  BY DEF Sound, Import
<1> HIDE DEF r
<1>4. Shape(r)
  BY <1>3 DEF Sound, Shape, BatchSteps
<1>5. Covers(r)
  BY <1>3 DEF Sound, Covers, AtRow, BatchSteps
<1>6. QED
  BY <1>2, <1>4, <1>5 DEF Sound, r

\* RowFailed: the row counts as failed.
LEMMA RowFailedSound ==
  ASSUME NEW l, Sound(l), l.pc \in {"rowClaim", "rowCreate"}, NEW abort \in BOOLEAN
  PROVE  Sound([l EXCEPT !.pc = "row", !.failed = @ + 1, !.aborted = @ \/ abort])
<1> DEFINE v == l.failed + 1
           r == [l EXCEPT !.pc = "row", !.failed = v, !.aborted = @ \/ abort]
<1>1. /\ l.failed \in Nat /\ l.success \in Nat /\ l.size \in Nat /\ Len(l.file) \in Nat
      /\ Cardinality(l.todo) \in Nat /\ Cardinality(l.batch) \in Nat
      /\ Cardinality(l.made) \in Nat
  BY SoundSets
<1>2. /\ v \in Nat
      /\ l.success + v + Cardinality(l.todo) + Cardinality(l.batch)
           + Cardinality(l.made) + 0 >= Len(l.file)
      /\ l.success + v + Cardinality(l.todo) + l.size >= Len(l.file)
  <2>1. /\ l.success + l.failed + Cardinality(l.todo) + Cardinality(l.batch)
             + Cardinality(l.made) + 1 >= Len(l.file)
        /\ l.success + l.failed + Cardinality(l.todo) + l.size >= Len(l.file)
    BY DEF Sound, Covers, AtRow, BatchSteps
  <2>2. l.failed + 1 \in Nat
    BY <1>1
  <2>3. l.success + (l.failed + 1) + Cardinality(l.todo) + Cardinality(l.batch)
          + Cardinality(l.made) + 0 >= Len(l.file)
    BY <1>1, <2>1, OneMoreFailed
  <2>4. l.success + (l.failed + 1) + Cardinality(l.todo) + l.size >= Len(l.file)
    BY <1>1, <2>1, OneMoreFailed
  <2>5. QED
    BY <2>2, <2>3, <2>4
<1> HIDE DEF v
<1>3. r \in Import
  <2>1. [l EXCEPT !.pc = "row"] \in Import
    BY ImportFields DEF Sound, BatchSteps
  <2>2. [[l EXCEPT !.pc = "row"] EXCEPT !.failed = v] \in Import
    BY <1>2, <2>1, ImportFields
  <2>3. (l.aborted \/ abort) \in BOOLEAN
    OBVIOUS
  <2>4. [[[l EXCEPT !.pc = "row"] EXCEPT !.failed = v]
           EXCEPT !.aborted = l.aborted \/ abort] \in Import
    BY <2>2, <2>3, ImportFields
  <2>5. QED
    BY <2>4
<1>4. /\ r.pc = "row" /\ r.file = l.file /\ r.todo = l.todo /\ r.batch = l.batch
      /\ r.made = l.made /\ r.claimed = l.claimed
      /\ r.size = l.size /\ r.success = l.success /\ r.failed = v
  BY DEF Sound, Import
<1> HIDE DEF r
<1>5. Shape(r)
  BY <1>4 DEF Sound, Shape, BatchSteps
<1>6. Covers(r)
  <2>1. AtRow(r) = 0
    BY <1>4 DEF AtRow
  <2>2. QED
    BY <1>2, <1>4, <2>1 DEF Covers
<1>7. QED
  BY <1>3, <1>5, <1>6 DEF Sound, r, v

\* RowCreate: the row is one of those the transaction has made.
LEMMA CreateSound ==
  ASSUME NEW l, Sound(l), l.pc = "rowCreate"
  PROVE  Sound([l EXCEPT !.pc = "row", !.made = @ \cup {l.row}])
<1> DEFINE r == [l EXCEPT !.pc = "row", !.made = @ \cup {l.row}]
<1>1. /\ l.failed \in Nat /\ l.success \in Nat /\ l.size \in Nat /\ Len(l.file) \in Nat
      /\ Cardinality(l.todo) \in Nat /\ Cardinality(l.batch) \in Nat
      /\ Cardinality(l.made) \in Nat /\ IsFiniteSet(l.made)
      /\ l.made \cup {l.row} \in SUBSET Nat
      /\ l.row \notin l.made
  BY SoundSets DEF Sound, Shape
<1>2. r \in Import
  <2>1. [l EXCEPT !.pc = "row"] \in Import
    BY ImportFields DEF Sound, BatchSteps
  <2>2. [[l EXCEPT !.pc = "row"] EXCEPT !.made = l.made \cup {l.row}] \in Import
    BY <1>1, <2>1, ImportFields
  <2>3. QED
    BY <2>2
<1>3. /\ r.pc = "row" /\ r.file = l.file /\ r.todo = l.todo /\ r.batch = l.batch
      /\ r.made = l.made \cup {l.row} /\ r.claimed = l.claimed
      /\ r.size = l.size /\ r.success = l.success /\ r.failed = l.failed
  BY DEF Sound, Import
<1> HIDE DEF r
<1>4. Shape(r)
  BY <1>3 DEF Sound, Shape, BatchSteps
<1>5. Covers(r)
  <2>1. /\ l.success + l.failed + Cardinality(l.todo) + Cardinality(l.batch)
             + Cardinality(l.made) + 1 >= Len(l.file)
        /\ l.success + l.failed + Cardinality(l.todo) + l.size >= Len(l.file)
    BY DEF Sound, Covers, AtRow, BatchSteps
  <2>2. AtRow(r) = 0
    BY <1>3 DEF AtRow
  <2>3. Cardinality(r.made) = Cardinality(l.made) + 1
    <3>1. Cardinality(l.made \cup {l.row}) = Cardinality(l.made) + 1
      BY <1>1, FS_AddElement
    <3>2. QED
      BY <1>3, <3>1
  <2>4. r.success + r.failed + Cardinality(r.todo) + Cardinality(r.batch)
          + Cardinality(r.made) + AtRow(r) >= Len(r.file)
    BY <1>1, <1>3, <2>1, <2>2, <2>3
  <2>5. r.success + r.failed + Cardinality(r.todo) + r.size >= Len(r.file)
    BY <1>1, <1>3, <2>1
  <2>6. QED
    BY <2>4, <2>5 DEF Covers
<1>6. QED
  BY <1>2, <1>4, <1>5 DEF Sound, r

LEMMA Regroup ==
  ASSUME NEW s \in Nat, NEW a \in Nat, NEW f \in Nat, NEW b \in Nat, NEW t \in Nat,
         NEW k \in Nat, s + a + f + b + t >= k
  PROVE  (s + a) + (f + b) + t + 0 + 0 + 0 >= k
OBVIOUS

\* EndBatch: the transaction is over, and counts for all of its rows.
LEMMA EndSound ==
  ASSUME NEW l, Sound(l), l.pc \in BatchSteps, NEW s \in Nat, NEW n \in Nat,
         l.success + s + l.failed + n + Cardinality(l.todo) >= Len(l.file)
  PROVE  Sound([l EXCEPT !.pc = "next", !.batch = {}, !.row = 0, !.size = 0, !.made = {},
                         !.claimed = {}, !.aborted = FALSE,
                         !.success = @ + s, !.failed = @ + n])
<1> DEFINE a == [[[l EXCEPT !.pc = "next"] EXCEPT !.batch = {}] EXCEPT !.row = 0]
           b == [[[[a EXCEPT !.size = 0] EXCEPT !.made = {}] EXCEPT !.claimed = {}]
                   EXCEPT !.aborted = FALSE]
           r == [[b EXCEPT !.success = l.success + s] EXCEPT !.failed = l.failed + n]
<1>1. /\ l.failed \in Nat /\ l.success \in Nat /\ Len(l.file) \in Nat
      /\ l.success + s \in Nat /\ l.failed + n \in Nat
      /\ Cardinality(l.todo) \in Nat
  BY SoundSets
<1>2. a \in Import
  <2>1. l \in Import
    BY DEF Sound
  <2>2. [l EXCEPT !.pc = "next"] \in Import
    BY <2>1, ImportFields
  <2>3. [[l EXCEPT !.pc = "next"] EXCEPT !.batch = {}] \in Import
    BY <2>2, ImportFields
  <2>4. QED
    BY <2>3, ImportFields
<1>3. /\ a.pc = "next" /\ a.file = l.file /\ a.todo = l.todo /\ a.batch = {}
      /\ a.success = l.success /\ a.failed = l.failed
  BY DEF Sound, Import
<1>4. b \in Import
  <2> HIDE DEF a
  <2>1. [a EXCEPT !.size = 0] \in Import
    BY <1>2, ImportFields
  <2>2. [[a EXCEPT !.size = 0] EXCEPT !.made = {}] \in Import
    BY <2>1, ImportFields
  <2>3. [[[a EXCEPT !.size = 0] EXCEPT !.made = {}] EXCEPT !.claimed = {}] \in Import
    BY <2>2, ImportFields
  <2>4. QED
    BY <2>3, ImportFields
<1>5. /\ b.pc = "next" /\ b.file = l.file /\ b.todo = l.todo /\ b.batch = {}
      /\ b.made = {} /\ b.claimed = {} /\ b.aborted = FALSE
      /\ b.success = l.success /\ b.failed = l.failed
  <2> HIDE DEF a
  <2>1. QED
    BY <1>2, <1>3 DEF Import
<1>6. r \in Import
  <2> HIDE DEF b
  <2>1. [b EXCEPT !.success = l.success + s] \in Import
    BY <1>1, <1>4, ImportFields
  <2>2. QED
    BY <1>1, <2>1, ImportFields
<1>7. /\ r.pc = "next" /\ r.file = l.file /\ r.todo = l.todo /\ r.batch = {}
      /\ r.made = {} /\ r.claimed = {} /\ r.aborted = FALSE
      /\ r.success = l.success + s /\ r.failed = l.failed + n
  <2> HIDE DEF b
  <2>1. QED
    BY <1>4, <1>5 DEF Import
<1>8. Shape(r)
  <2> HIDE DEF r
  <2>1. QED
    BY <1>7 DEF Sound, Shape, BatchSteps
<1>9. Covers(r)
  <2> HIDE DEF r
  <2>1. Cardinality(r.batch) = 0 /\ Cardinality(r.made) = 0 /\ AtRow(r) = 0
    BY <1>7, FS_EmptySet DEF AtRow
  <2>2. r.success + r.failed + Cardinality(r.todo) + Cardinality(r.batch)
          + Cardinality(r.made) + AtRow(r) >= Len(r.file)
    <3>1. (l.success + s) + (l.failed + n) + Cardinality(l.todo) + 0 + 0 + 0 >= Len(l.file)
      BY <1>1, Regroup
    <3>2. QED
      BY <1>7, <2>1, <3>1
  <2>3. r.pc \notin BatchSteps
    BY <1>7 DEF BatchSteps
  <2>4. QED
    BY <2>2, <2>3 DEF Covers
<1>10. Sound(r)
  <2> HIDE DEF r
  <2>1. QED
    BY <1>6, <1>8, <1>9 DEF Sound
<1>11. [l EXCEPT !.pc = "next", !.batch = {}, !.row = 0, !.size = 0, !.made = {},
                 !.claimed = {}, !.aborted = FALSE, !.success = @ + s, !.failed = @ + n] = r
  BY DEF Sound, Import
<1>12. QED
  BY <1>10, <1>11

\* ImportFinish and ImportFails
LEMMA DoneSound ==
  ASSUME NEW l, Sound(l), l.pc \in {"dedupe", "types", "next"}
  PROVE  Sound([l EXCEPT !.pc = "done"])
<1> DEFINE r == [l EXCEPT !.pc = "done"]
<1>1. r \in Import
  BY ImportFields DEF Sound
<1>2. /\ r.pc = "done" /\ r.file = l.file /\ r.todo = l.todo /\ r.batch = l.batch
      /\ r.made = l.made /\ r.claimed = l.claimed /\ r.aborted = l.aborted
  BY DEF Sound, Import
<1> HIDE DEF r
<1>3. Shape(r)
  BY <1>2 DEF Sound, Shape, BatchSteps
<1>4. Covers(r)
  BY <1>2 DEF Covers, BatchSteps
<1>5. QED
  BY <1>1, <1>3, <1>4 DEF Sound, r

\* ServerCrash
LEMMA CrashSound ==
  ASSUME NEW f \in Seq(Rows)
  PROVE  Sound([NewImport EXCEPT !.pc = "done", !.file = f])
<1> DEFINE r == [NewImport EXCEPT !.pc = "done", !.file = f]
<1>1. r \in Import
  <2>1. [NewImport EXCEPT !.pc = "done"] \in Import
    BY NewSound, ImportFields DEF Sound
  <2>2. QED
    BY <2>1, ImportFields
<1>2. /\ r.pc = "done" /\ r.todo = {} /\ r.batch = {} /\ r.made = {}
      /\ r.claimed = {} /\ r.aborted = FALSE
  BY DEF NewImport
<1> HIDE DEF r
<1>3. Shape(r)
  BY <1>2 DEF Shape, BatchSteps
<1>4. Covers(r)
  BY <1>2 DEF Covers, BatchSteps
<1>5. QED
  BY <1>1, <1>3, <1>4 DEF Sound, r

----------------------------------------------------------------------------
(* Type correctness                                                        *)

\* Of an import, TypeOK is no more than its locals' being sound.
ImportsSound == \A i \in Imports : Sound(imp[i])
Typed == TypeOK /\ ImportsSound

LEMMA NewRequestType == NewRequest \in Request
<1> DEFINE e == CHOOSE e \in Emails : TRUE
<1>1. e \in Emails
  BY EmailsAssumption
<1>2. QED
  BY <1>1 DEF NewRequest, Request, Choices, LookSteps

LEMMA RequestFields ==
  ASSUME NEW l \in Request
  PROVE  /\ \A x \in LookSteps \cup TxSteps \cup IssueSteps \cup {"recheck", "done"} :
              [l EXCEPT !.pc = x] \in Request
         /\ \A e \in Emails : [l EXCEPT !.email = e] \in Request
         /\ \A t \in Choices : [l EXCEPT !.type = t] \in Request
         /\ \A n \in Nat : [l EXCEPT !.attempt = n] \in Request
         /\ \A x \in {"none", "NOT_OPEN", "CAPACITY_EXCEEDED", "INVALID_TICKET_TYPE",
                      "TICKET_TYPE_FULL", "DUPLICATE", "ERROR", "CREATED", "LOST"} :
              [l EXCEPT !.result = x] \in Request
BY DEF Request

LEMMA RefusalType ==
  ASSUME NEW x \in {"NOT_OPEN", "CAPACITY_EXCEEDED", "INVALID_TICKET_TYPE",
                    "TICKET_TYPE_FULL", "DUPLICATE", "ERROR", "LOST"}
  PROVE  /\ Refusal(x) \in Request
         /\ Refusal(x).pc = "done" /\ Refusal(x).result = x
<1>1. [NewRequest EXCEPT !.pc = "done"] \in Request
  BY NewRequestType, RequestFields
<1>2. [[NewRequest EXCEPT !.pc = "done"] EXCEPT !.result = x] \in Request
  BY <1>1, RequestFields
<1>3. QED
  BY <1>2, NewRequestType DEF Refusal, Request

LEMMA GotoType ==
  ASSUME req \in [Requests -> Request], NEW p \in Requests,
         NEW to \in LookSteps \cup TxSteps \cup IssueSteps \cup {"recheck", "done"}, Goto(p, to)
  PROVE  /\ req' \in [Requests -> Request]
         /\ req'[p] = [req[p] EXCEPT !.pc = to]
         /\ \A q \in Requests : q # p => req'[q] = req[q]
<1>1. [req[p] EXCEPT !.pc = to] \in Request
  BY RequestFields
<1>2. QED
  BY <1>1 DEF Goto, Proceed

LEMMA AnswerType ==
  ASSUME req \in [Requests -> Request], NEW p \in Requests,
         NEW x \in {"NOT_OPEN", "CAPACITY_EXCEEDED", "INVALID_TICKET_TYPE",
                    "TICKET_TYPE_FULL", "DUPLICATE", "ERROR", "LOST"},
         Answer(p, x)
  PROVE  /\ req' \in [Requests -> Request]
         /\ req'[p] = Refusal(x)
         /\ \A q \in Requests : q # p => req'[q] = req[q]
BY RefusalType DEF Answer, Proceed

LEMMA TypeRows ==
  ASSUME NEW r \in TicketTypeRow
  PROVE  /\ r.quantitySold \in Nat /\ r.capacity \in Nat \cup {NoLimit} /\ r.active \in BOOLEAN
         /\ \A n \in Nat : [r EXCEPT !.quantitySold = n] \in TicketTypeRow
         /\ \A c \in Nat \cup {NoLimit} : [r EXCEPT !.capacity = c] \in TicketTypeRow
         /\ \A a \in BOOLEAN : [r EXCEPT !.active = a] \in TicketTypeRow
BY DEF TicketTypeRow

LEMMA TypedInit == Init => Typed
<1> SUFFICES ASSUME Init PROVE Typed
  OBVIOUS
<1>1. ticketType \in [TicketTypes -> TicketTypeRow]
  <2>1. ASSUME NEW c \in TypeCapacities
        PROVE  [active |-> TRUE, capacity |-> c, quantitySold |-> 0] \in TicketTypeRow
    BY CapacityAssumption DEF TicketTypeRow
  <2>2. QED
    BY <2>1 DEF Init
<1>2. registration \in [Emails -> RegistrationRow]
  BY DEF Init, RegistrationRow, Choices
<1>3. importBatch \in [Imports -> ImportBatchRow]
  BY DEF Init, ImportBatchRow
<1>4. req \in [Requests -> Request]
  BY NewRequestType DEF Init
<1>5. imp \in [Imports -> Import] /\ ImportsSound
  BY NewSound DEF Init, ImportsSound, Sound
<1>6. QED
  BY <1>1, <1>2, <1>3, <1>4, <1>5, CapacityAssumption DEF Init, Typed, TypeOK

\* Requests do not touch the locals of imports.
LEMMA RequestTyped ==
  ASSUME Typed, NEW p \in Requests, RegisterStep(p)
  PROVE  Typed'
<1> DEFINE Steps == LookSteps \cup TxSteps \cup IssueSteps \cup {"recheck", "done"}
<1>0. /\ req \in [Requests -> Request] /\ req[p] \in Request
      /\ req[p].email \in Emails /\ req[p].type \in Choices /\ req[p].attempt \in Nat
      /\ {"find", "count", "type", "duplicate", "lock", "claim", "create", "recheck",
          "token", "mint", "mark", "deliver", "done"} \subseteq Steps
  BY DEF Typed, TypeOK, Request, LookSteps, TxSteps, IssueSteps
<1>a. ASSUME req' \in [Requests -> Request], UNCHANGED <<database, imp>>
      PROVE  Typed'
  BY <1>a DEF Typed, TypeOK, ImportsSound, database
<1>1. CASE FindEvent(p)
  <2>1. PICK e \in Emails, t \in Choices, open \in BOOLEAN : FindEvent(p)!(e, t, open)
    BY <1>1 DEF FindEvent
  <2>2. CASE open
    <3>1. [req[p] EXCEPT !.pc = "count"] \in Request
      BY <1>0, RequestFields
    <3>2. [[req[p] EXCEPT !.pc = "count"] EXCEPT !.email = e] \in Request
      BY <3>1, RequestFields
    <3>3. [[[req[p] EXCEPT !.pc = "count"] EXCEPT !.email = e] EXCEPT !.type = t] \in Request
      BY <3>2, RequestFields
    <3>4. req' \in [Requests -> Request]
      BY <1>0, <2>1, <2>2, <3>3 DEF Proceed
    <3>5. QED
      BY <1>a, <2>1, <3>4
  <2>3. CASE ~open
    BY <1>0, <1>a, <2>1, <2>3, AnswerType
  <2>4. QED
    BY <2>2, <2>3
<1>2. CASE CountSeats(p)
  <2>1. req' \in [Requests -> Request]
    BY <1>0, <1>2, AnswerType, GotoType DEF CountSeats
  <2>2. QED
    BY <1>2, <1>a, <2>1 DEF CountSeats
<1>3. CASE ReadTicketType(p)
  <2>1. req' \in [Requests -> Request]
    BY <1>0, <1>3, AnswerType, GotoType DEF ReadTicketType
  <2>2. QED
    BY <1>3, <1>a, <2>1 DEF ReadTicketType
<1>4. CASE FindDuplicate(p)
  <2>1. req' \in [Requests -> Request]
    BY <1>0, <1>4, AnswerType, GotoType DEF FindDuplicate
  <2>2. QED
    BY <1>4, <1>a, <2>1 DEF FindDuplicate
<1>5. CASE LockEvent(p)
  <2>1. AfterSeat(p) \in Steps
    BY <1>0 DEF AfterSeat
  <2>2. req' \in [Requests -> Request]
    BY <1>0, <1>5, <2>1, AnswerType, GotoType DEF LockEvent
  <2>3. QED
    BY <1>5, <1>a, <2>2 DEF LockEvent
<1>6. CASE ClaimTicketType(p)
  <2>1. req' \in [Requests -> Request]
    BY <1>0, <1>6, AnswerType, GotoType DEF ClaimTicketType
  <2>2. QED
    BY <1>6, <1>a, <2>1 DEF ClaimTicketType
<1>7. CASE CreateRegistration(p)
  <2>1. req' \in [Requests -> Request]
    BY <1>0, <1>7, GotoType DEF CreateRegistration
  <2>2. registration' \in [Emails -> RegistrationRow]
    <3>1. [source |-> "PUBLIC_LINK", type |-> req[p].type, qrIssued |-> FALSE] \in RegistrationRow
      BY <1>0 DEF RegistrationRow
    <3>2. QED
      BY <1>7, <3>1 DEF CreateRegistration, Typed, TypeOK
  <2>3. ticketType' \in [TicketTypes -> TicketTypeRow]
    <3>1. ASSUME NEW t \in TicketTypes
          PROVE  [ticketType[t] EXCEPT !.quantitySold = @ + 1] \in TicketTypeRow
      <4>1. ticketType[t] \in TicketTypeRow /\ ticketType[t].quantitySold + 1 \in Nat
        BY TypeRows DEF Typed, TypeOK
      <4>2. QED
        BY <4>1, TypeRows
    <3>2. req[p].type # NoType => req[p].type \in TicketTypes
      BY <1>0 DEF Choices
    <3>3. QED
      BY <1>7, <3>1, <3>2 DEF CreateRegistration, Sold, Typed, TypeOK
  <2>4. QED
    BY <1>7, <2>1, <2>2, <2>3 DEF CreateRegistration, Typed, TypeOK, ImportsSound
<1>8. CASE CreateCollides(p)
  BY <1>0, <1>8, <1>a, GotoType DEF CreateCollides
<1>9. CASE Recheck(p)
  <2>1. CASE Answer(p, "DUPLICATE") \/ Answer(p, "ERROR")
    BY <1>0, <1>9, <1>a, <2>1, AnswerType DEF Recheck
  <2>2. CASE Proceed(p, [req[p] EXCEPT !.pc = "lock", !.attempt = @ + 1])
    <3>1. req[p].attempt + 1 \in Nat
      BY <1>0
    <3>2. [req[p] EXCEPT !.pc = "lock"] \in Request
      BY <1>0, RequestFields
    <3>3. [[req[p] EXCEPT !.pc = "lock"] EXCEPT !.attempt = req[p].attempt + 1] \in Request
      BY <3>1, <3>2, RequestFields
    <3>4. [req[p] EXCEPT !.pc = "lock", !.attempt = @ + 1]
            = [[req[p] EXCEPT !.pc = "lock"] EXCEPT !.attempt = req[p].attempt + 1]
      BY <1>0 DEF Request
    <3>5. req' \in [Requests -> Request]
      BY <1>0, <2>2, <3>3, <3>4 DEF Proceed
    <3>6. QED
      BY <1>9, <1>a, <3>5 DEF Recheck
  <2>3. QED
    BY <1>9, <2>1, <2>2 DEF Recheck
<1>10. CASE FindToken(p)
  <2>1. req' \in [Requests -> Request]
    BY <1>0, <1>10, GotoType DEF FindToken
  <2>2. QED
    BY <1>10, <1>a, <2>1 DEF FindToken
<1>11. CASE MintToken(p)
  <2>1. req' \in [Requests -> Request]
    BY <1>0, <1>11, AnswerType, GotoType DEF MintToken
  <2>2. qrToken' \subseteq Emails
    BY <1>0, <1>11 DEF MintToken, Typed, TypeOK
  <2>3. QED
    BY <1>11, <2>1, <2>2 DEF MintToken, Typed, TypeOK, ImportsSound
<1>12. CASE MarkIssued(p)
  <2>1. req' \in [Requests -> Request]
    BY <1>0, <1>12, GotoType DEF MarkIssued
  <2>2. registration' \in [Emails -> RegistrationRow]
    BY <1>0, <1>12 DEF MarkIssued, Typed, TypeOK, RegistrationRow
  <2>3. QED
    BY <1>12, <2>1, <2>2 DEF MarkIssued, Typed, TypeOK, ImportsSound
<1>13. CASE Deliver(p)
  <2>1. [req[p] EXCEPT !.pc = "done"] \in Request
    BY <1>0, RequestFields
  <2>2. [[req[p] EXCEPT !.pc = "done"] EXCEPT !.result = "CREATED"] \in Request
    BY <2>1, RequestFields
  <2>3. req' \in [Requests -> Request]
    BY <1>0, <1>13, <2>2 DEF Deliver, Proceed
  <2>4. QED
    BY <1>13, <1>a, <2>3 DEF Deliver
<1>14. CASE RequestFails(p)
  BY <1>0, <1>14, <1>a, AnswerType DEF RequestFails
<1>15. QED
  BY <1>1, <1>2, <1>3, <1>4, <1>5, <1>6, <1>7, <1>8, <1>9, <1>10, <1>11, <1>12, <1>13, <1>14
     DEF RegisterStep

\* What a committing import writes.
LEMMA Rearrange ==
  ASSUME NEW s \in Nat, NEW f \in Nat, NEW t \in Nat, NEW m \in Nat, NEW n \in Nat
  PROVE  /\ s + f + t + 0 + m + 0 >= n => s + m + f + 0 + t >= n
         /\ s + f + t + m >= n => s + 0 + f + m + t >= n
OBVIOUS

LEMMA SoldByType ==
  ASSUME Typed, NEW i \in Imports, NEW t
  PROVE  SoldBy(i, t) \in Nat
<1>1. Sound(imp[i])
  BY DEF Typed, ImportsSound
<1>2. {n \in imp[i].made : TypeAt(i, n) = t} \in SUBSET FirstMentions(imp[i].file)
  BY <1>1, SoundSets
<1>3. QED
  BY <1>1, <1>2, SoundSets DEF SoldBy

LEMMA MadeRows ==
  ASSUME Typed, NEW i \in Imports, NEW n \in imp[i].made
  PROVE  EmailAt(i, n) \in Emails /\ TypeAt(i, n) \in Choices
<1>1. Sound(imp[i])
  BY DEF Typed, ImportsSound
<1>2. n \in DOMAIN imp[i].file
  BY <1>1, SoundSets, FileRows
<1>3. QED
  BY <1>1, <1>2, SoundSets, FileRows DEF EmailAt, TypeAt

LEMMA PendingType ==
  ASSUME Typed, NEW i \in Imports
  PROVE  /\ Pending(i) \subseteq Emails
         /\ \A e \in Pending(i) : Imported(i, e) \in RegistrationRow
<1>1. Pending(i) = {EmailAt(i, n) : n \in imp[i].made}
  BY DEF Pending, EmailAt
<1>2. ASSUME NEW e \in Pending(i)
      PROVE  Imported(i, e) \in RegistrationRow
  <2> DEFINE n == CHOOSE n \in imp[i].made : EmailAt(i, n) = e
  <2>1. n \in imp[i].made
    BY <1>1
  <2>2. TypeAt(i, n) \in Choices
    BY <2>1, MadeRows
  <2>3. QED
    BY <2>2 DEF Imported, RegistrationRow
<1>3. QED
  BY <1>1, <1>2, MadeRows

LEMMA CommitType ==
  ASSUME Typed, NEW i \in Imports, CommitRows(i)
  PROVE  /\ registration' \in [Emails -> RegistrationRow]
         /\ qrToken' \subseteq Emails
         /\ ticketType' \in [TicketTypes -> TicketTypeRow]
<1>1. registration' \in [Emails -> RegistrationRow]
  BY PendingType DEF CommitRows, Typed, TypeOK
<1>2. qrToken' \subseteq Emails
  BY PendingType DEF CommitRows, Typed, TypeOK
<1>3. ASSUME NEW t \in TicketTypes
      PROVE  [ticketType[t] EXCEPT !.quantitySold = @ + SoldBy(i, t)] \in TicketTypeRow
  <2>1. ticketType[t] \in TicketTypeRow /\ ticketType[t].quantitySold + SoldBy(i, t) \in Nat
    BY SoldByType, TypeRows DEF Typed, TypeOK
  <2>2. QED
    BY <2>1, TypeRows
<1>4. QED
  BY <1>1, <1>2, <1>3 DEF CommitRows

LEMMA BecomeSound ==
  ASSUME imp \in [Imports -> Import], ImportsSound, NEW i \in Imports, NEW l, Sound(l),
         Become(i, l)
  PROVE  /\ imp' \in [Imports -> Import]
         /\ ImportsSound'
         /\ imp'[i] = l
         /\ \A j \in Imports : j # i => imp'[j] = imp[j]
BY DEF Become, ImportsSound, Sound

LEMMA ImportTyped ==
  ASSUME Typed, NEW i \in Imports, ImportStep(i)
  PROVE  Typed'
<1>0. /\ imp \in [Imports -> Import] /\ ImportsSound /\ Sound(imp[i])
      /\ imp[i] \in Import /\ imp[i].file \in Seq(Rows)
  BY SoundSets DEF Typed, TypeOK, ImportsSound
<1>a. ASSUME NEW l, Sound(l), Become(i, l), UNCHANGED <<database, req>>
      PROVE  Typed'
  BY <1>0, <1>a, BecomeSound DEF Typed, TypeOK, database
<1>1. CASE ImportStart(i)
  <2>1. PICK f \in Files : ImportStart(i)!(f)
    BY <1>1 DEF ImportStart
  <2>2. f \in Seq(Rows)
    BY FilesAssumption
  <2>3. imp' \in [Imports -> Import] /\ ImportsSound'
    BY <1>0, <2>1, <2>2, StartSound, BecomeSound
  <2>4. importBatch' \in [Imports -> ImportBatchRow]
    BY <2>1 DEF Typed, TypeOK, ImportBatchRow
  <2>5. QED
    BY <2>1, <2>3, <2>4 DEF Typed, TypeOK
<1>2. CASE ImportDedupe(i)
  <2> DEFINE kept == {n \in imp[i].todo : ~Registered(EmailAt(i, n))}
  <2>1. Sound([imp[i] EXCEPT !.pc = "types", !.todo = kept,
                             !.failed = @ + Cardinality(imp[i].todo \ kept)])
    <3>1. kept \in SUBSET imp[i].todo /\ imp[i].pc = "dedupe"
      BY <1>2 DEF ImportDedupe
    <3> HIDE DEF kept
    <3>2. QED
      BY <1>0, <3>1, KeepSound
  <2>2. QED
    BY <1>2, <1>a, <2>1 DEF ImportDedupe, Keep
<1>3. CASE ImportCheckTypes(i)
  <2> DEFINE kept == {n \in imp[i].todo : Claimable(i, n)}
  <2>1. Sound([imp[i] EXCEPT !.pc = "next", !.todo = kept,
                             !.failed = @ + Cardinality(imp[i].todo \ kept)])
    <3>1. kept \in SUBSET imp[i].todo /\ imp[i].pc = "types"
      BY <1>3 DEF ImportCheckTypes
    <3> HIDE DEF kept
    <3>2. QED
      BY <1>0, <3>1, KeepSound
  <2>2. QED
    BY <1>3, <1>a, <2>1 DEF ImportCheckTypes, Keep
<1>4. CASE ImportNextBatch(i)
  <2>1. NextRows(i) \in SUBSET imp[i].todo /\ imp[i].pc = "next"
    BY <1>4 DEF ImportNextBatch, NextRows
  <2>2. Sound([imp[i] EXCEPT !.pc = "row", !.todo = @ \ NextRows(i), !.batch = NextRows(i),
                             !.size = Cardinality(NextRows(i))])
    BY <1>0, <2>1, NextBatchSound
  <2>3. QED
    BY <1>4, <1>a, <2>2 DEF ImportNextBatch
<1>5. CASE RowStart(i)
  <2>1. PICK n \in imp[i].batch : RowStart(i)!(n)
    BY <1>5 DEF RowStart
  <2> DEFINE t == TypeAt(i, n)
             b == [[imp[i] EXCEPT !.row = n] EXCEPT !.batch = imp[i].batch \ {n}]
  <2>2. n \in Nat /\ imp[i].batch \ {n} \in SUBSET Nat /\ t \in Choices
    <3>1. n \in DOMAIN imp[i].file /\ n \in Nat
      BY <1>0, SoundSets, FileRows
    <3>2. t \in Choices
      BY <1>0, <3>1, FileRows DEF TypeAt
    <3>3. QED
      BY <1>0, <3>1, <3>2, SoundSets
  <2>3. /\ b \in Import
        /\ b.file = imp[i].file /\ b.todo = imp[i].todo /\ b.batch = imp[i].batch \ {n}
        /\ b.row = n /\ b.made = imp[i].made /\ b.claimed = imp[i].claimed
        /\ b.aborted = imp[i].aborted /\ b.size = imp[i].size
        /\ b.success = imp[i].success /\ b.failed = imp[i].failed
    <3>1. [imp[i] EXCEPT !.row = n] \in Import
      BY <1>0, <2>2, ImportFields
    <3>2. b \in Import
      BY <2>2, <3>1, ImportFields
    <3>3. QED
      BY <1>0, <3>2 DEF Import
  <2> HIDE DEF b
  <2>4. CASE t = NoType
    <3>1. [b EXCEPT !.pc = "rowCreate"] \in Import
      BY <2>3, ImportFields DEF BatchSteps
    <3>2. Sound([b EXCEPT !.pc = "rowCreate"])
      <4> DEFINE r == [b EXCEPT !.pc = "rowCreate"]
      <4>1. /\ r.pc = "rowCreate"
            /\ r.file = imp[i].file /\ r.todo = imp[i].todo /\ r.batch = imp[i].batch \ {n}
            /\ r.row = n /\ r.made = imp[i].made /\ r.claimed = imp[i].claimed
            /\ r.aborted = imp[i].aborted /\ r.size = imp[i].size
            /\ r.success = imp[i].success /\ r.failed = imp[i].failed
        BY <2>3 DEF Import
      <4>2. imp[i].pc = "row" /\ imp[i].file[n].type = NoType
        BY <2>1, <2>4 DEF TypeAt
      <4> HIDE DEF r
      <4>3. Sound(r)
        BY <1>0, <3>1, <4>1, <4>2, RowStartSound DEF r
      <4>4. QED
        BY <4>3 DEF r
    <3>3. Become(i, [b EXCEPT !.pc = "rowCreate"]) /\ UNCHANGED <<database, req>>
      BY <2>1, <2>4 DEF b
    <3>4. QED
      BY <1>a, <3>2, <3>3
  <2>5. CASE t # NoType
    <3> DEFINE c == ticketType[t].capacity
               r == [[b EXCEPT !.pc = "rowClaim"] EXCEPT !.capacity = c]
    <3>1. c \in Nat \cup {NoLimit}
      BY <2>2, <2>5, TypeRows DEF Typed, TypeOK, Choices
    <3> HIDE DEF c
    <3>2. [b EXCEPT !.pc = "rowClaim"] \in Import
      BY <2>3, ImportFields DEF BatchSteps
    <3>3. r \in Import
      BY <3>1, <3>2, ImportFields
    <3>4. /\ r.pc = "rowClaim"
          /\ r.file = imp[i].file /\ r.todo = imp[i].todo /\ r.batch = imp[i].batch \ {n}
          /\ r.row = n /\ r.made = imp[i].made /\ r.claimed = imp[i].claimed
          /\ r.aborted = imp[i].aborted /\ r.size = imp[i].size
          /\ r.success = imp[i].success /\ r.failed = imp[i].failed
      BY <2>3 DEF Import
    <3>5. imp[i].pc = "row" /\ imp[i].file[n].type # NoType
      BY <2>1, <2>5 DEF TypeAt
    <3>6. Become(i, r) /\ UNCHANGED <<database, req>>
      BY <2>1, <2>5 DEF b, c
    <3> HIDE DEF r
    <3>7. Sound(r)
      BY <1>0, <3>3, <3>4, <3>5, RowStartSound
    <3>8. QED
      BY <1>a, <3>6, <3>7
  <2>6. QED
    BY <2>4, <2>5
<1>6. CASE RowClaim(i)
  <2>1. CASE Become(i, [imp[i] EXCEPT !.pc = "rowCreate", !.claimed = @ \cup {CurrentType(i)}])
    <3>1. Sound([imp[i] EXCEPT !.pc = "rowCreate", !.claimed = @ \cup {CurrentType(i)}])
      BY <1>0, <1>6, ClaimSound DEF RowClaim, CurrentType, TypeAt
    <3>2. QED
      BY <1>6, <1>a, <2>1, <3>1 DEF RowClaim
  <2>2. CASE RowFailed(i, FALSE)
    <3>1. Sound([imp[i] EXCEPT !.pc = "row", !.failed = @ + 1, !.aborted = @ \/ FALSE])
      BY <1>0, <1>6, RowFailedSound DEF RowClaim
    <3>2. QED
      BY <1>6, <1>a, <2>2, <3>1 DEF RowClaim, RowFailed
  <2>3. QED
    BY <1>6, <2>1, <2>2 DEF RowClaim
<1>7. CASE RowCreate(i)
  <2>1. Sound([imp[i] EXCEPT !.pc = "row", !.made = @ \cup {imp[i].row}])
    BY <1>0, <1>7, CreateSound DEF RowCreate
  <2>2. QED
    BY <1>7, <1>a, <2>1 DEF RowCreate
<1>8. CASE RowFails(i)
  <2>1. Sound([imp[i] EXCEPT !.pc = "row", !.failed = @ + 1, !.aborted = @ \/ TRUE])
    BY <1>0, <1>8, RowFailedSound DEF RowFails
  <2>2. QED
    BY <1>8, <1>a, <2>1 DEF RowFails, RowFailed
<1>9. CASE BatchCommit(i)
  <2>1. Sound([imp[i] EXCEPT !.pc = "next", !.batch = {}, !.row = 0, !.size = 0, !.made = {},
                             !.claimed = {}, !.aborted = FALSE,
                             !.success = @ + Cardinality(imp[i].made), !.failed = @ + 0])
    <3>1. /\ imp[i].success \in Nat /\ imp[i].failed \in Nat
          /\ Cardinality(imp[i].made) \in Nat /\ Cardinality(imp[i].todo) \in Nat
          /\ Len(imp[i].file) \in Nat
      BY <1>0, SoundSets
    <3>2. Cardinality(imp[i].batch) = 0 /\ AtRow(imp[i]) = 0
      BY <1>9, FS_EmptySet DEF BatchCommit, AtRow
    <3>3. imp[i].success + imp[i].failed + Cardinality(imp[i].todo) + Cardinality(imp[i].batch)
            + Cardinality(imp[i].made) + AtRow(imp[i]) >= Len(imp[i].file)
      BY <1>0, <1>9 DEF Sound, Covers, BatchCommit
    <3>4. imp[i].success + Cardinality(imp[i].made) + imp[i].failed + 0
            + Cardinality(imp[i].todo) >= Len(imp[i].file)
      BY <3>1, <3>2, <3>3, Rearrange
    <3>5. imp[i].pc \in BatchSteps
      BY <1>9 DEF BatchCommit, BatchSteps
    <3>6. QED
      BY <1>0, <3>1, <3>4, <3>5, EndSound
  <2>2. imp' \in [Imports -> Import] /\ ImportsSound'
    BY <1>0, <1>9, <2>1, BecomeSound DEF BatchCommit, EndBatch
  <2>3. /\ registration' \in [Emails -> RegistrationRow]
        /\ qrToken' \subseteq Emails
        /\ ticketType' \in [TicketTypes -> TicketTypeRow]
    <3>1. CASE imp[i].aborted
      BY <1>9, <3>1 DEF BatchCommit, Typed, TypeOK
    <3>2. CASE ~imp[i].aborted
      BY <1>9, <3>2, CommitType DEF BatchCommit
    <3>3. QED
      BY <3>1, <3>2
  <2>4. QED
    BY <1>9, <2>2, <2>3 DEF BatchCommit, Typed, TypeOK
<1>10. CASE BatchFails(i)
  <2>1. Sound([imp[i] EXCEPT !.pc = "next", !.batch = {}, !.row = 0, !.size = 0, !.made = {},
                             !.claimed = {}, !.aborted = FALSE,
                             !.success = @ + 0, !.failed = @ + imp[i].size])
    <3>1. /\ imp[i].success \in Nat /\ imp[i].failed \in Nat /\ imp[i].size \in Nat
          /\ Cardinality(imp[i].todo) \in Nat /\ Len(imp[i].file) \in Nat
      BY <1>0, SoundSets
    <3>2. imp[i].success + imp[i].failed + Cardinality(imp[i].todo) + imp[i].size
            >= Len(imp[i].file)
      BY <1>0, <1>10 DEF Sound, Covers, BatchFails
    <3>3. imp[i].success + 0 + imp[i].failed + imp[i].size
            + Cardinality(imp[i].todo) >= Len(imp[i].file)
      BY <3>1, <3>2, Rearrange
    <3>4. QED
      BY <1>0, <1>10, <3>1, <3>3, EndSound DEF BatchFails
  <2>2. QED
    BY <1>10, <1>a, <2>1 DEF BatchFails, EndBatch
<1>11. CASE ImportFinish(i)
  <2>1. Sound([imp[i] EXCEPT !.pc = "done"])
    BY <1>0, <1>11, DoneSound DEF ImportFinish
  <2>2. imp' \in [Imports -> Import] /\ ImportsSound'
    BY <1>0, <1>11, <2>1, BecomeSound DEF ImportFinish
  <2>3. importBatch' \in [Imports -> ImportBatchRow]
    BY <1>0, <1>11, SoundSets DEF ImportFinish, Typed, TypeOK, ImportBatchRow
  <2>4. QED
    BY <1>11, <2>2, <2>3 DEF ImportFinish, Typed, TypeOK
<1>12. CASE ImportFails(i)
  <2>1. Sound([imp[i] EXCEPT !.pc = "done"])
    BY <1>0, <1>12, DoneSound DEF ImportFails
  <2>2. QED
    BY <1>12, <1>a, <2>1 DEF ImportFails
<1>13. QED
  BY <1>1, <1>2, <1>3, <1>4, <1>5, <1>6, <1>7, <1>8, <1>9, <1>10, <1>11, <1>12 DEF ImportStep

LEMMA UpdateTyped ==
  ASSUME Typed, UpdateTicketType
  PROVE  Typed'
<1>1. PICK t \in TicketTypes, a \in BOOLEAN, c \in TypeCapacities : UpdateTicketType!(t, a, c)
  BY DEF UpdateTicketType
<1>2. [[ticketType[t] EXCEPT !.active = a] EXCEPT !.capacity = c] \in TicketTypeRow
  <2>1. ticketType[t] \in TicketTypeRow /\ c \in Nat \cup {NoLimit}
    BY CapacityAssumption DEF Typed, TypeOK
  <2>2. [ticketType[t] EXCEPT !.active = a] \in TicketTypeRow
    BY <2>1, TypeRows
  <2>3. QED
    BY <2>1, <2>2, TypeRows
<1>3. ticketType' \in [TicketTypes -> TicketTypeRow]
  BY <1>1, <1>2 DEF Typed, TypeOK
<1>4. QED
  BY <1>1, <1>3 DEF Typed, TypeOK, ImportsSound

LEMMA CrashTyped ==
  ASSUME Typed, ServerCrash
  PROVE  Typed'
<1>1. req' \in [Requests -> Request]
  BY RefusalType DEF ServerCrash, Typed, TypeOK
<1>2. ASSUME NEW i \in Imports
      PROVE  Sound([NewImport EXCEPT !.pc = "done", !.file = imp[i].file])
  BY <1>2, SoundSets, CrashSound DEF Typed, ImportsSound
<1>3. imp' \in [Imports -> Import] /\ ImportsSound'
  BY <1>2 DEF ServerCrash, Typed, TypeOK, ImportsSound, Sound
<1>4. QED
  BY <1>1, <1>3 DEF ServerCrash, database, Typed, TypeOK

LEMMA TypedStep == Typed /\ [Next]_vars => Typed'
<1> SUFFICES ASSUME Typed, [Next]_vars PROVE Typed'
  OBVIOUS
<1>1. CASE UNCHANGED vars
  BY <1>1 DEF vars, Typed, TypeOK, ImportsSound
<1>2. QED
  BY <1>1, RequestTyped, ImportTyped, UpdateTyped, CrashTyped DEF Next

LEMMA AlwaysTyped == Spec => []Typed
BY TypedInit, TypedStep, PTL DEF Spec

\* Rows, counters and locals always hold what they can hold: an import never
\* loses its place in the file, and no counter of its report runs below zero.
THEOREM TypeCorrect == Spec => []TypeOK
<1>1. Typed => TypeOK
  BY DEF Typed
<1>2. QED
  BY <1>1, AlwaysTyped, PTL

----------------------------------------------------------------------------
(* What the steps of one process leave alone                               *)

\* A step of request p, seen by the others.
LEMMA RequestFrame ==
  ASSUME Typed, NEW p \in Requests, RegisterStep(p)
  PROVE  /\ imp' = imp /\ capacity' = capacity /\ importBatch' = importBatch /\ edits' = edits
         /\ req' = [req EXCEPT ![p] = req'[p]]
         /\ \A q \in Requests : q # p => req'[q] = req[q]
BY DEF Typed, TypeOK, RegisterStep, FindEvent, CountSeats, ReadTicketType, FindDuplicate, LockEvent,
       ClaimTicketType, CreateRegistration, CreateCollides, Recheck, FindToken, MintToken,
       MarkIssued, Deliver, RequestFails, Goto, Answer, Proceed, database

\* A step of import i: which rows and locks it can touch.
LEMMA ImportFrame ==
  ASSUME Typed, NEW i \in Imports, ImportStep(i)
  PROVE  /\ req' = req /\ capacity' = capacity /\ edits' = edits
         /\ \A j \in Imports : j # i => imp'[j] = imp[j]
         /\ \/ UNCHANGED <<ticketType, registration, qrToken>>
            \/ imp[i].pc = "row" /\ CommitRows(i)
         /\ SharesEvent(i)' => SharesEvent(i) \/ EventFreeForInsert
         /\ \A t \in imp'[i].claimed : t \in imp[i].claimed \/ TypeFree(t, {i})
<1>0. imp \in [Imports -> Import] /\ imp[i] \in Import
  BY DEF Typed, TypeOK
<1>a. ASSUME NEW l, Become(i, l)
      PROVE  imp'[i] = l /\ \A j \in Imports : j # i => imp'[j] = imp[j]
  BY <1>0, <1>a DEF Become
<1>b. ASSUME NEW l, Become(i, l), l.made = imp[i].made \/ l.made = {},
             l.claimed = imp[i].claimed \/ l.claimed = {}
      PROVE  /\ \A j \in Imports : j # i => imp'[j] = imp[j]
             /\ SharesEvent(i)' => SharesEvent(i)
             /\ imp'[i].claimed \subseteq imp[i].claimed
  BY <1>a, <1>b DEF SharesEvent
<1>1. CASE ImportStart(i)
  BY <1>0, <1>1, <1>b DEF ImportStart, Import
<1>2. CASE ImportDedupe(i)
  BY <1>0, <1>2, <1>b DEF ImportDedupe, Keep, Import, database
<1>3. CASE ImportCheckTypes(i)
  BY <1>0, <1>3, <1>b DEF ImportCheckTypes, Keep, Import, database
<1>4. CASE ImportNextBatch(i)
  BY <1>0, <1>4, <1>b DEF ImportNextBatch, Import, database
<1>5. CASE RowStart(i)
  BY <1>0, <1>5, <1>b DEF RowStart, Import, database
<1>6. CASE RowClaim(i)
  <2> DEFINE l == [imp[i] EXCEPT !.pc = "rowCreate", !.claimed = @ \cup {CurrentType(i)}]
  <2>1. CASE Become(i, l)
    <3>1. l.made = imp[i].made /\ l.claimed = imp[i].claimed \cup {CurrentType(i)}
      BY <1>0 DEF Import
    <3> HIDE DEF l
    <3>2. QED
      BY <1>6, <1>a, <2>1, <3>1 DEF RowClaim, SharesEvent, database
  <2>2. CASE RowFailed(i, FALSE)
    BY <1>0, <1>6, <1>b, <2>2 DEF RowClaim, RowFailed, Import, database
  <2>3. QED
    BY <1>6, <2>1, <2>2 DEF RowClaim
<1>7. CASE RowCreate(i)
  <2> DEFINE l == [imp[i] EXCEPT !.pc = "row", !.made = @ \cup {imp[i].row}]
  <2>1. Become(i, l) /\ EventFreeForInsert /\ UNCHANGED <<database, req>>
    BY <1>7 DEF RowCreate
  <2>2. l.claimed = imp[i].claimed
    BY <1>0 DEF Import
  <2> HIDE DEF l
  <2>3. QED
    BY <1>a, <2>1, <2>2 DEF database
<1>8. CASE RowFails(i)
  BY <1>0, <1>8, <1>b DEF RowFails, RowFailed, Import, database
<1>9. CASE BatchCommit(i)
  BY <1>0, <1>9, <1>b DEF BatchCommit, EndBatch, Import
<1>10. CASE BatchFails(i)
  BY <1>0, <1>10, <1>b DEF BatchFails, EndBatch, Import, database
<1>11. CASE ImportFinish(i)
  BY <1>0, <1>11, <1>b DEF ImportFinish, Import
<1>12. CASE ImportFails(i)
  BY <1>0, <1>12, <1>b DEF ImportFails, Import, database
<1>13. QED
  BY <1>1, <1>2, <1>3, <1>4, <1>5, <1>6, <1>7, <1>8, <1>9, <1>10, <1>11, <1>12 DEF ImportStep

\* What a step leaves in the locals of import i.
LEMMA RowFailedLocals ==
  ASSUME Typed, NEW i \in Imports, NEW abort, RowFailed(i, abort)
  PROVE  /\ imp'[i].pc = "row" /\ imp'[i].file = imp[i].file
         /\ imp'[i].claimed = imp[i].claimed /\ imp'[i].made = imp[i].made
<1> DEFINE r == [imp[i] EXCEPT !.pc = "row", !.failed = @ + 1, !.aborted = @ \/ abort]
<1>0. imp \in [Imports -> Import] /\ imp[i] \in Import
  BY DEF Typed, TypeOK
<1>1. Become(i, r)
  BY DEF RowFailed
<1>2. /\ r.pc = "row" /\ r.file = imp[i].file
      /\ r.claimed = imp[i].claimed /\ r.made = imp[i].made
  BY <1>0 DEF Import
<1> HIDE DEF r
<1>3. imp'[i] = r
  BY <1>0, <1>1 DEF Become
<1>4. QED
  BY <1>2, <1>3

LEMMA EndBatchLocals ==
  ASSUME Typed, NEW i \in Imports, NEW s, NEW n, EndBatch(i, s, n)
  PROVE  imp'[i].pc = "next" /\ imp'[i].claimed = {} /\ imp'[i].made = {}
<1> DEFINE r == [imp[i] EXCEPT !.pc = "next", !.batch = {}, !.row = 0, !.size = 0, !.made = {},
                               !.claimed = {}, !.aborted = FALSE,
                               !.success = @ + s, !.failed = @ + n]
<1>0. imp \in [Imports -> Import] /\ imp[i] \in Import
  BY DEF Typed, TypeOK
<1>1. Become(i, r)
  BY DEF EndBatch
<1>2. r.pc = "next" /\ r.claimed = {} /\ r.made = {}
  BY <1>0 DEF Import
<1> HIDE DEF r
<1>3. imp'[i] = r
  BY <1>0, <1>1 DEF Become
<1>4. QED
  BY <1>2, <1>3

LEMMA RowStartLocals ==
  ASSUME Typed, NEW i \in Imports, RowStart(i)
  PROVE  /\ imp'[i].file = imp[i].file
         /\ imp'[i].claimed = imp[i].claimed /\ imp'[i].made = imp[i].made
         /\ \/ imp'[i].pc = "rowCreate" /\ CurrentType(i)' = NoType
            \/ /\ imp'[i].pc = "rowClaim"
               /\ imp'[i].capacity = ticketType[imp'[i].file[imp'[i].row].type].capacity
<1>0. imp \in [Imports -> Import] /\ imp[i] \in Import
  BY DEF Typed, TypeOK
<1>1. PICK n \in imp[i].batch : RowStart(i)!(n)
  BY DEF RowStart
<1> DEFINE t == TypeAt(i, n)
           b == [imp[i] EXCEPT !.row = n, !.batch = @ \ {n}]
           rc == [b EXCEPT !.pc = "rowCreate"]
           rl == [b EXCEPT !.pc = "rowClaim", !.capacity = ticketType[t].capacity]
<1>2. /\ rc.pc = "rowCreate" /\ rc.row = n /\ rc.file = imp[i].file
      /\ rc.claimed = imp[i].claimed /\ rc.made = imp[i].made
  BY <1>0 DEF Import
<1>3. /\ rl.pc = "rowClaim" /\ rl.row = n /\ rl.file = imp[i].file
      /\ rl.claimed = imp[i].claimed /\ rl.made = imp[i].made
      /\ rl.capacity = ticketType[t].capacity
  BY <1>0 DEF Import
<1>4. \/ t = NoType /\ Become(i, rc)
      \/ Become(i, rl)
  BY <1>1
<1> HIDE DEF rc, rl
<1>5. CASE t = NoType /\ Become(i, rc)
  <2>1. imp'[i] = rc
    BY <1>0, <1>5 DEF Become
  <2>2. QED
    BY <1>2, <1>5, <2>1 DEF CurrentType, TypeAt
<1>6. CASE Become(i, rl)
  <2>1. imp'[i] = rl
    BY <1>0, <1>6 DEF Become
  <2>2. QED
    BY <1>3, <2>1 DEF TypeAt
<1>7. QED
  BY <1>4, <1>5, <1>6

\* A transaction that has created no row commits none.
LEMMA NothingMade ==
  ASSUME Typed, NEW i \in Imports, CommitRows(i), ~SharesEvent(i)
  PROVE  /\ registration' = registration
         /\ \A t \in TicketTypes :
              /\ ticketType'[t].active = ticketType[t].active
              /\ ticketType'[t].capacity = ticketType[t].capacity
              /\ ticketType'[t].quantitySold = ticketType[t].quantitySold
<1>1. Pending(i) = {} /\ \A t : {n \in imp[i].made : TypeAt(i, n) = t} = {}
  BY DEF SharesEvent, Pending
<1>2. registration' = registration
  BY <1>1 DEF CommitRows, Typed, TypeOK
<1>3. ASSUME NEW t \in TicketTypes
      PROVE  /\ ticketType'[t].active = ticketType[t].active
             /\ ticketType'[t].capacity = ticketType[t].capacity
             /\ ticketType'[t].quantitySold = ticketType[t].quantitySold
  <2>1. SoldBy(i, t) = 0
    BY <1>1, FS_EmptySet DEF SoldBy
  <2>2. ticketType[t] \in TicketTypeRow /\ ticketType[t].quantitySold + 0 = ticketType[t].quantitySold
    BY TypeRows DEF Typed, TypeOK
  <2>3. ticketType'[t] = [ticketType[t] EXCEPT !.quantitySold = @ + 0]
    BY <2>1 DEF CommitRows
  <2>4. QED
    BY <2>2, <2>3 DEF TicketTypeRow
<1>4. QED
  BY <1>2, <1>3

----------------------------------------------------------------------------
(* Locks                                                                   *)

\* One request at a time is past the lock on the event row, and no import has
\* uncommitted rows meanwhile; its count and its claim therefore still hold.
Alone ==
  /\ \A p, q \in Requests : HoldsEvent(p) /\ HoldsEvent(q) => p = q
  /\ \A p \in Requests, i \in Imports : HoldsEvent(p) => ~SharesEvent(i)
  /\ \A p \in Requests, i \in Imports :
       req[p].pc = "create" => req[p].type \notin imp[i].claimed
Counted ==
  \A p \in Requests :
    /\ HoldsEvent(p) => Left(Seats, capacity)
    /\ req[p].pc = "claim" => req[p].type # NoType
    /\ req[p].pc = "create" /\ req[p].type # NoType =>
         LET row == ticketType[req[p].type]
         IN row.active /\ Left(row.quantitySold, row.capacity)
Held == Alone /\ Counted

\* A step after which request p holds no lock, and no seat or ticket has gone
\* while another holds one.
LEMMA HeldByOthers ==
  ASSUME Held, NEW p \in Requests, \A q \in Requests : q # p => req'[q] = req[q],
         ~HoldsEvent(p)', imp' = imp,
         \/ \A q \in Requests : q # p => ~HoldsEvent(q)
         \/ capacity' = capacity /\ ticketType' = ticketType /\ Seats' = Seats
  PROVE  Held'
<1>1. Alone'
  BY DEF Held, Alone, HoldsEvent, SharesEvent
<1>2. Counted'
  BY DEF Held, Counted, HoldsEvent, Left
<1>3. QED
  BY <1>1, <1>2 DEF Held

LEMMA SeatsOnly ==
  ASSUME \A e \in Emails : Registered(e)' <=> Registered(e)
  PROVE  Seats' = Seats
<1>1. {e \in Emails : Registered(e)}' = {e \in Emails : Registered(e)}
  OBVIOUS
<1>2. QED
  BY <1>1 DEF Seats

LEMMA HeldInit == Init => Held
BY DEF Init, Held, Alone, Counted, HoldsEvent, NewRequest

LEMMA HeldByRequest ==
  ASSUME Typed, Held, NEW p \in Requests, RegisterStep(p)
  PROVE  Held'
<1>0. /\ req \in [Requests -> Request] /\ req[p] \in Request
      /\ imp' = imp /\ capacity' = capacity
      /\ \A q \in Requests : q # p => req'[q] = req[q]
  BY RequestFrame DEF Typed, TypeOK
\* Once p holds no lock, only the commit of its own registration matters.
<1>a. ASSUME req'[p].pc \notin {"claim", "create"}, UNCHANGED <<ticketType, registration>>
      PROVE  Held'
  <2>1. Seats' = Seats
    BY <1>a, SeatsOnly DEF Registered
  <2>2. QED
    BY <1>0, <1>a, <2>1, HeldByOthers DEF HoldsEvent
<1>b. ASSUME NEW x \in {"find", "count", "type", "duplicate", "lock", "recheck", "token", "mint",
                        "mark", "deliver", "done"}, Goto(p, x)
      PROVE  req'[p].pc \notin {"claim", "create"}
  BY <1>0, <1>b DEF Goto, Proceed, Request
<1>c. ASSUME NEW x, Answer(p, x)
      PROVE  req'[p].pc \notin {"claim", "create"}
  BY <1>0, <1>c DEF Answer, Proceed, Refusal, NewRequest
<1>1. CASE FindEvent(p)
  <2>1. req'[p].pc \notin {"claim", "create"}
    BY <1>0, <1>1, <1>c DEF FindEvent, Proceed, Request
  <2>2. QED
    BY <1>1, <1>a, <2>1 DEF FindEvent, database
<1>2. CASE CountSeats(p)
  BY <1>2, <1>a, <1>b, <1>c DEF CountSeats, database
<1>3. CASE ReadTicketType(p)
  BY <1>3, <1>a, <1>b, <1>c DEF ReadTicketType, database
<1>4. CASE FindDuplicate(p)
  BY <1>4, <1>a, <1>b, <1>c DEF FindDuplicate, database
<1>5. CASE LockEvent(p)
  <2>1. UNCHANGED <<ticketType, registration>> /\ EventFreeForUpdate(p)
    BY <1>5 DEF LockEvent, database
  <2>2. CASE Left(Seats, capacity) /\ Goto(p, AfterSeat(p))
    <3>1. /\ req'[p].pc = AfterSeat(p) /\ req'[p].type = req[p].type
      BY <1>0, <2>2 DEF Goto, Proceed, Request
    <3>2. Seats' = Seats
      BY <2>1, SeatsOnly DEF Registered
    <3>3. \A i \in Imports : NoType \notin imp[i].claimed
      BY NoTypeAssumption DEF Typed, TypeOK, Import
    <3>4. Alone'
      BY <1>0, <2>1, <3>1, <3>3
         DEF Held, Alone, HoldsEvent, SharesEvent, EventFreeForUpdate, AfterSeat
    <3>5. Counted'
      BY <1>0, <2>1, <2>2, <3>1, <3>2 DEF Held, Counted, HoldsEvent, AfterSeat, Left
    <3>6. QED
      BY <3>4, <3>5 DEF Held
  <2>3. CASE Answer(p, "CAPACITY_EXCEEDED")
    BY <1>a, <1>c, <2>1, <2>3
  <2>4. QED
    BY <1>5, <2>2, <2>3 DEF LockEvent
<1>6. CASE ClaimTicketType(p)
  <2>1. /\ UNCHANGED <<ticketType, registration>> /\ TypeFree(req[p].type, {p})
        /\ req[p].pc = "claim"
    BY <1>6 DEF ClaimTicketType, database
  <2>2. CASE /\ ticketType[req[p].type].active
             /\ Left(ticketType[req[p].type].quantitySold, ticketType[req[p].type].capacity)
             /\ Goto(p, "create")
    <3>1. req'[p].pc = "create" /\ req'[p].type = req[p].type
      BY <1>0, <2>2 DEF Goto, Proceed, Request
    <3>2. Seats' = Seats
      BY <2>1, SeatsOnly DEF Registered
    <3>3. \A i \in Imports : req[p].type \notin imp[i].claimed
      BY <2>1, RequestsAssumption DEF TypeFree, ImportHoldsType
    <3>4. Alone'
      BY <1>0, <2>1, <3>1, <3>3 DEF Held, Alone, HoldsEvent, SharesEvent
    <3>5. Counted'
      BY <1>0, <2>1, <2>2, <3>1, <3>2 DEF Held, Counted, HoldsEvent, Left
    <3>6. QED
      BY <3>4, <3>5 DEF Held
  <2>3. CASE Answer(p, "TICKET_TYPE_FULL")
    BY <1>a, <1>c, <2>1, <2>3
  <2>4. QED
    BY <1>6, <2>2, <2>3 DEF ClaimTicketType
<1>7. CASE CreateRegistration(p)
  <2>1. \A q \in Requests : q # p => ~HoldsEvent(q)
    BY <1>7 DEF CreateRegistration, Held, Alone, HoldsEvent
  <2>2. req'[p].pc \notin {"claim", "create"}
    BY <1>7, <1>b DEF CreateRegistration
  <2>3. QED
    BY <1>0, <2>1, <2>2, HeldByOthers DEF HoldsEvent
<1>8. CASE CreateCollides(p)
  BY <1>8, <1>a, <1>b DEF CreateCollides, database
<1>9. CASE Recheck(p)
  <2>1. req'[p].pc \notin {"claim", "create"}
    BY <1>0, <1>9, <1>c DEF Recheck, Proceed, Request
  <2>2. QED
    BY <1>9, <1>a, <2>1 DEF Recheck, database
<1>10. CASE FindToken(p)
  BY <1>10, <1>a, <1>b DEF FindToken, database
<1>11. CASE MintToken(p)
  BY <1>11, <1>a, <1>b, <1>c DEF MintToken
<1>12. CASE MarkIssued(p)
  <2>1. req'[p].pc \notin {"claim", "create"} /\ ticketType' = ticketType
    BY <1>12, <1>b DEF MarkIssued
  <2>2. \A e \in Emails : registration'[e].source = registration[e].source
    BY <1>12 DEF MarkIssued, Typed, TypeOK, RegistrationRow
  <2>3. Seats' = Seats
    BY <2>2, SeatsOnly DEF Registered
  <2>4. QED
    BY <1>0, <2>1, <2>3, HeldByOthers DEF HoldsEvent
<1>13. CASE Deliver(p)
  <2>1. req'[p].pc \notin {"claim", "create"}
    BY <1>0, <1>13 DEF Deliver, Proceed, Request
  <2>2. QED
    BY <1>13, <1>a, <2>1 DEF Deliver, database
<1>14. CASE RequestFails(p)
  BY <1>14, <1>a, <1>c DEF RequestFails, database
<1>15. QED
  BY <1>1, <1>2, <1>3, <1>4, <1>5, <1>6, <1>7, <1>8, <1>9, <1>10, <1>11, <1>12, <1>13, <1>14
     DEF RegisterStep

LEMMA HeldByImport ==
  ASSUME Typed, Held, NEW i \in Imports, ImportStep(i)
  PROVE  Held'
<1>0. /\ req' = req /\ capacity' = capacity
      /\ \A j \in Imports : j # i => imp'[j] = imp[j]
      /\ SharesEvent(i)' => SharesEvent(i) \/ EventFreeForInsert
      /\ \A t \in imp'[i].claimed : t \in imp[i].claimed \/ TypeFree(t, {i})
  BY ImportFrame
<1>1. Alone'
  <2>1. \A p \in Requests, j \in Imports : HoldsEvent(p) => ~SharesEvent(j)'
    BY <1>0 DEF Held, Alone, SharesEvent, EventFreeForInsert
  <2>2. \A p \in Requests, j \in Imports : req[p].pc = "create" => req[p].type \notin imp'[j].claimed
    BY <1>0, RequestsAssumption DEF Held, Alone, TypeFree, RequestHoldsType
  <2>3. QED
    BY <1>0, <2>1, <2>2 DEF Held, Alone, HoldsEvent, SharesEvent
<1>2. Counted'
  <2>1. CASE UNCHANGED <<ticketType, registration>>
    <3>1. Seats' = Seats
      BY <2>1, SeatsOnly DEF Registered
    <3>2. QED
      BY <1>0, <2>1, <3>1 DEF Held, Counted, HoldsEvent, Left
  <2>2. CASE CommitRows(i) /\ ~SharesEvent(i)
    <3>1. /\ registration' = registration
          /\ \A t \in TicketTypes :
               /\ ticketType'[t].active = ticketType[t].active
               /\ ticketType'[t].capacity = ticketType[t].capacity
               /\ ticketType'[t].quantitySold = ticketType[t].quantitySold
      BY <2>2, NothingMade
    <3>2. Seats' = Seats
      BY <3>1, SeatsOnly DEF Registered
    <3>3. \A p \in Requests : req[p].type # NoType => req[p].type \in TicketTypes
      BY DEF Typed, TypeOK, Request, Choices
    <3>4. QED
      BY <1>0, <3>1, <3>2, <3>3 DEF Held, Counted, HoldsEvent, Left
  <2>3. CASE SharesEvent(i)
    <3>1. \A p \in Requests : ~HoldsEvent(p)
      BY <2>3 DEF Held, Alone
    <3>2. QED
      BY <1>0, <3>1 DEF Counted, HoldsEvent
  <2>4. QED
    BY <2>1, <2>2, <2>3, ImportFrame
<1>3. QED
  BY <1>1, <1>2 DEF Held

LEMMA HeldStep == Typed /\ [Next]_vars /\ Held => Held'
<1> SUFFICES ASSUME Typed, [Next]_vars, Held PROVE Held'
  OBVIOUS
<1>1. CASE UNCHANGED vars
  <2>1. Seats' = Seats
    BY <1>1, SeatsOnly DEF vars, Registered
  <2>2. QED
    BY <1>1, <2>1 DEF vars, Held, Alone, Counted, HoldsEvent, SharesEvent, Left
<1>2. CASE UpdateTicketType
  <2>1. PICK t \in TicketTypes, a \in BOOLEAN, c \in TypeCapacities : UpdateTicketType!(t, a, c)
    BY <1>2 DEF UpdateTicketType
  <2>2. /\ \A p \in Requests : ~RequestHoldsType(p, t)
        /\ \A u \in TicketTypes : u # t => ticketType'[u] = ticketType[u]
    BY <2>1 DEF TypeFree, Typed, TypeOK
  <2>3. Seats' = Seats
    BY <2>1, SeatsOnly DEF Registered
  <2>4. \A p \in Requests : req[p].type # NoType => req[p].type \in TicketTypes
    BY DEF Typed, TypeOK, Request, Choices
  <2>5. Alone'
    BY <2>1 DEF Held, Alone, HoldsEvent, SharesEvent
  <2>6. Counted'
    BY <2>1, <2>2, <2>3, <2>4 DEF Held, Counted, HoldsEvent, Left, RequestHoldsType
  <2>7. QED
    BY <2>5, <2>6 DEF Held
<1>3. CASE ServerCrash
  <2>1. \A p \in Requests : ~HoldsEvent(p)'
    BY <1>3 DEF ServerCrash, HoldsEvent, Refusal, NewRequest, Typed, TypeOK
  <2>2. QED
    BY <2>1 DEF Held, Alone, Counted, HoldsEvent
<1>4. QED
  BY <1>1, <1>2, <1>3, HeldByRequest, HeldByImport DEF Next

LEMMA AlwaysHeld == Spec => [](Typed /\ Held)
<1>1. Typed /\ Held /\ [Next]_vars => (Typed /\ Held)'
  BY TypedStep, HeldStep
<1>2. Init => Typed /\ Held
  BY TypedInit, HeldInit
<1>3. QED
  BY <1>1, <1>2, PTL DEF Spec

\* Only the commit of a free registration writes a PUBLIC_LINK row.
LEMMA PublicRows ==
  ASSUME Typed, [Next]_vars, NEW e \in Emails, ~Registered(e),
         registration'[e].source = "PUBLIC_LINK"
  PROVE  \E p \in Requests : CreateRegistration(p) /\ registration'[e].type = req[p].type
<1>0. registration \in [Emails -> RegistrationRow] /\ registration'[e] # registration[e]
  BY DEF Typed, TypeOK, Registered
<1>1. ASSUME NEW p \in Requests, RegisterStep(p)
      PROVE  CreateRegistration(p)
  <2>1. CASE MarkIssued(p)
    BY <1>0, <2>1 DEF MarkIssued, RegistrationRow, Registered
  <2>2. CASE MintToken(p)
    BY <1>0, <2>2 DEF MintToken
  <2>3. QED
    BY <1>0, <1>1, <2>1, <2>2
       DEF RegisterStep, FindEvent, CountSeats, ReadTicketType, FindDuplicate, LockEvent,
           ClaimTicketType, CreateCollides, Recheck, FindToken, Deliver, RequestFails, database
<1>2. ASSUME NEW i \in Imports, ImportStep(i)
      PROVE  FALSE
  <2>1. CommitRows(i)
    BY <1>0, <1>2, ImportFrame
  <2>2. QED
    BY <1>0, <2>1 DEF CommitRows, Imported
<1>3. PICK p \in Requests : CreateRegistration(p)
  BY <1>0, <1>1, <1>2 DEF Next, UpdateTicketType, ServerCrash, database, vars
<1>4. registration'[e].type = req[p].type
  BY <1>0, <1>3 DEF CreateRegistration
<1>5. QED
  BY <1>3, <1>4

\* The count under the row lock is still right when the registration commits:
\* no free registration is ever committed without a seat.
THEOREM NeverOversells == Spec => FreeNeverOversells
<1>1. ASSUME Typed, Held, [Next]_vars, NEW e \in Emails, ~Registered(e),
             registration'[e].source = "PUBLIC_LINK"
      PROVE  Left(Seats, capacity)
  <2>1. PICK p \in Requests : CreateRegistration(p)
    BY <1>1, PublicRows
  <2>2. QED
    BY <1>1, <2>1 DEF CreateRegistration, Held, Counted, HoldsEvent
<1>2. Typed /\ Held /\ [Next]_vars =>
        [\A e \in Emails : ~Registered(e) /\ registration'[e].source = "PUBLIC_LINK"
                             => Left(Seats, capacity)]_vars
  BY <1>1
<1>3. QED
  BY <1>2, AlwaysHeld, PTL DEF Spec, FreeNeverOversells

\* Nor without a ticket of an open type: the claim is still right, too.
THEOREM TypeNeverOversells == Spec => FreeTypeNeverOversells
<1>1. ASSUME Typed, Held, [Next]_vars, NEW e \in Emails, ~Registered(e),
             registration'[e].source = "PUBLIC_LINK", registration'[e].type # NoType
      PROVE  LET t == registration'[e].type IN
               ticketType[t].active /\ Left(ticketType[t].quantitySold, ticketType[t].capacity)
  <2>1. PICK p \in Requests : CreateRegistration(p) /\ registration'[e].type = req[p].type
    BY <1>1, PublicRows
  <2>2. QED
    BY <1>1, <2>1 DEF CreateRegistration, Held, Counted
<1>2. Typed /\ Held /\ [Next]_vars =>
        [\A e \in Emails :
           LET t == registration'[e].type IN
             ~Registered(e) /\ registration'[e].source = "PUBLIC_LINK" /\ t # NoType =>
               ticketType[t].active /\ Left(ticketType[t].quantitySold, ticketType[t].capacity)]_vars
  BY <1>1
<1>3. QED
  BY <1>2, AlwaysHeld, PTL DEF Spec, FreeTypeNeverOversells

----------------------------------------------------------------------------
(* QR codes                                                                *)

\* What a request that issues a QR code has behind it.
IssuedRows == \A e \in Emails : registration[e].qrIssued => Registered(e) /\ e \in qrToken
Behind(l) ==
  /\ l.pc \in IssueSteps => Registered(l.email)
  /\ l.pc = "mark" => l.email \in qrToken
  /\ l.pc = "deliver" => registration[l.email].qrIssued
  /\ l.pc # "done" => l.result = "none"
  /\ l.result = "CREATED" => registration[l.email].qrIssued
Issuing == IssuedRows /\ \A p \in Requests : Behind(req[p])

LEMMA IssuingInit == Init => Issuing
BY DEF Init, Issuing, IssuedRows, Behind, NewRequest, IssueSteps

\* Rows are only ever added, and flags only ever set.
LEMMA RowsGrow ==
  ASSUME Typed, [Next]_vars
  PROVE  /\ qrToken \subseteq qrToken'
         /\ \A e \in Emails : /\ Registered(e) => Registered(e)'
                              /\ registration[e].qrIssued => registration'[e].qrIssued
                                                               \/ ~Registered(e)
<1>0. registration \in [Emails -> RegistrationRow]
  BY DEF Typed, TypeOK
<1>a. CASE UNCHANGED <<registration, qrToken>>
  BY <1>a DEF Registered
<1>1. ASSUME NEW p \in Requests, RegisterStep(p)
      PROVE  \/ UNCHANGED <<registration, qrToken>>
             \/ CreateRegistration(p) \/ MintToken(p) \/ MarkIssued(p)
  BY <1>1 DEF RegisterStep, FindEvent, CountSeats, ReadTicketType, FindDuplicate, LockEvent,
              ClaimTicketType, CreateCollides, Recheck, FindToken, Deliver, RequestFails, database
<1>2. ASSUME NEW p \in Requests, CreateRegistration(p)
      PROVE  /\ qrToken' = qrToken
             /\ \A e \in Emails : /\ Registered(e) => registration'[e] = registration[e]
                                  /\ Registered(e) => Registered(e)'
  BY <1>0, <1>2 DEF CreateRegistration, Registered
<1>3. ASSUME NEW p \in Requests, MintToken(p)
      PROVE  qrToken \subseteq qrToken' /\ registration' = registration
  BY <1>3 DEF MintToken
<1>4. ASSUME NEW p \in Requests, MarkIssued(p)
      PROVE  /\ qrToken' = qrToken
             /\ \A e \in Emails : /\ registration'[e].source = registration[e].source
                                  /\ registration[e].qrIssued => registration'[e].qrIssued
  BY <1>0, <1>4 DEF MarkIssued, RegistrationRow
<1>5. ASSUME NEW i \in Imports, CommitRows(i)
      PROVE  /\ qrToken \subseteq qrToken'
             /\ \A e \in Emails : \/ registration'[e] = registration[e]
                                  \/ Registered(e)' /\ registration'[e].qrIssued
  BY <1>0, <1>5 DEF CommitRows, Imported, Registered
<1>6. QED
  BY <1>a, <1>1, <1>2, <1>3, <1>4, <1>5, ImportFrame
     DEF Next, vars, UpdateTicketType, ServerCrash, database, Registered

\* What is behind a request stays behind it.
LEMMA BehindStays ==
  ASSUME Typed, [Next]_vars, Issuing, NEW p \in Requests, req'[p] = req[p]
  PROVE  Behind(req[p])'
<1>1. req[p].email \in Emails /\ Behind(req[p])
  BY DEF Typed, TypeOK, Request, Issuing
<1>2. /\ Registered(req[p].email) => registration'[req[p].email].source # "none"
      /\ registration[req[p].email].qrIssued => registration'[req[p].email].qrIssued
      /\ req[p].email \in qrToken => req[p].email \in qrToken'
  BY <1>1, RowsGrow DEF Issuing, IssuedRows, Registered
<1>3. QED
  BY <1>1, <1>2 DEF Behind, Registered

LEMMA IssuedRowsStep == Typed /\ [Next]_vars /\ Issuing => IssuedRows'
<1> SUFFICES ASSUME Typed, [Next]_vars, Issuing PROVE IssuedRows'
  OBVIOUS
<1>0. registration \in [Emails -> RegistrationRow] /\ req \in [Requests -> Request]
  BY DEF Typed, TypeOK
<1>a. CASE UNCHANGED registration
  BY <1>a, RowsGrow DEF Issuing, IssuedRows, Registered
<1>1. ASSUME NEW p \in Requests, RegisterStep(p)
      PROVE  UNCHANGED registration \/ CreateRegistration(p) \/ MarkIssued(p)
  BY <1>1 DEF RegisterStep, FindEvent, CountSeats, ReadTicketType, FindDuplicate, LockEvent, MintToken,
              ClaimTicketType, CreateCollides, Recheck, FindToken, Deliver, RequestFails, database
<1>2. ASSUME NEW p \in Requests, CreateRegistration(p)
      PROVE  IssuedRows'
  <2>1. \A e \in Emails : registration'[e].qrIssued => registration'[e] = registration[e]
    BY <1>0, <1>2 DEF CreateRegistration
  <2>2. QED
    BY <2>1, RowsGrow DEF Issuing, IssuedRows, Registered
<1>3. ASSUME NEW p \in Requests, MarkIssued(p)
      PROVE  IssuedRows'
  <2>1. /\ \A e \in Emails : e # req[p].email => registration'[e] = registration[e]
        /\ Registered(req[p].email) /\ req[p].email \in qrToken
    BY <1>0, <1>3 DEF MarkIssued, Issuing, Behind, IssueSteps
  <2>2. QED
    BY <2>1, RowsGrow DEF Issuing, IssuedRows, Registered
<1>4. ASSUME NEW i \in Imports, CommitRows(i)
      PROVE  IssuedRows'
  <2>1. \A e \in Emails : \/ registration'[e] = registration[e]
                          \/ e \in Pending(i) /\ registration'[e].source = "IMPORT"
    BY <1>0, <1>4 DEF CommitRows, Imported
  <2>2. qrToken' = qrToken \cup Pending(i)
    BY <1>4 DEF CommitRows
  <2>3. QED
    BY <2>1, <2>2 DEF Issuing, IssuedRows, Registered
<1>5. QED
  BY <1>a, <1>1, <1>2, <1>3, <1>4, ImportFrame
     DEF Next, vars, UpdateTicketType, ServerCrash, database

\* A request reaches each step of the issuing with its precondition met.
LEMMA BehindStep ==
  ASSUME Typed, Issuing, NEW p \in Requests, RegisterStep(p), [Next]_vars
  PROVE  Behind(req[p])'
<1>0. /\ req \in [Requests -> Request] /\ req[p] \in Request /\ req[p].email \in Emails
      /\ registration \in [Emails -> RegistrationRow]
      /\ Behind(req[p])
  BY DEF Typed, TypeOK, Issuing, Request
<1>z. /\ Registered(req[p].email) => registration'[req[p].email].source # "none"
      /\ registration[req[p].email].qrIssued => registration'[req[p].email].qrIssued
      /\ req[p].email \in qrToken => req[p].email \in qrToken'
  BY <1>0, RowsGrow DEF Issuing, IssuedRows, Registered
\* Before the issuing there is nothing to show.
<1>a. ASSUME NEW x \in LookSteps \cup TxSteps \cup {"recheck"}, req'[p].pc = x,
             req'[p].result = "none"
      PROVE  Behind(req[p])'
  BY <1>a DEF Behind, LookSteps, TxSteps, IssueSteps
<1>b. ASSUME NEW x \in LookSteps \cup TxSteps \cup {"recheck"}, Goto(p, x), req[p].pc # "done"
      PROVE  Behind(req[p])'
  <2>1. req'[p].pc = x /\ req'[p].result = "none"
    BY <1>0, <1>b DEF Goto, Proceed, Request, Behind
  <2>2. QED
    BY <1>a, <2>1
<1>c. ASSUME NEW x \in {"NOT_OPEN", "CAPACITY_EXCEEDED", "INVALID_TICKET_TYPE",
                        "TICKET_TYPE_FULL", "DUPLICATE", "ERROR", "LOST"}, Answer(p, x)
      PROVE  Behind(req[p])'
  BY <1>0, <1>c, AnswerType, RefusalType DEF Behind, IssueSteps
<1>d. ASSUME NEW x \in IssueSteps, Goto(p, x), req[p].pc # "done",
             registration'[req[p].email].source # "none",
             x = "mark" => req[p].email \in qrToken',
             x = "deliver" => registration'[req[p].email].qrIssued
      PROVE  Behind(req[p])'
  <2>1. req'[p].pc = x /\ req'[p].result = "none" /\ req'[p].email = req[p].email
    BY <1>0, <1>d DEF Goto, Proceed, Request, Behind
  <2>2. QED
    BY <1>d, <2>1 DEF Behind, IssueSteps, Registered
<1>1. CASE FindEvent(p)
  <2>1. PICK e \in Emails, t \in Choices, open \in BOOLEAN : FindEvent(p)!(e, t, open)
    BY <1>1 DEF FindEvent
  <2>2. CASE open
    <3>1. req[p].result = "none"
      BY <1>0, <2>1 DEF Behind
    <3>2. req'[p] = [req[p] EXCEPT !.pc = "count", !.email = e, !.type = t]
      BY <1>0, <2>1, <2>2 DEF Proceed
    <3>3. req'[p].pc = "count" /\ req'[p].result = "none"
      BY <1>0, <3>1, <3>2 DEF Request
    <3>4. QED
      BY <1>a, <3>3 DEF LookSteps
  <2>3. QED
    BY <1>c, <2>1, <2>2
<1>2. CASE CountSeats(p)
  BY <1>2, <1>b, <1>c DEF CountSeats, LookSteps
<1>3. CASE ReadTicketType(p)
  BY <1>3, <1>b, <1>c DEF ReadTicketType, LookSteps
<1>4. CASE FindDuplicate(p)
  <2>1. CASE Registered(req[p].email) /\ Goto(p, "token")
    BY <1>4, <1>d, <1>z, <2>1 DEF FindDuplicate, IssueSteps
  <2>2. CASE Goto(p, "lock") \/ Answer(p, "DUPLICATE")
    BY <1>4, <1>b, <1>c, <2>2 DEF FindDuplicate, TxSteps
  <2>3. QED
    BY <1>4, <2>1, <2>2 DEF FindDuplicate
<1>5. CASE LockEvent(p)
  <2>1. AfterSeat(p) \in TxSteps
    BY DEF AfterSeat, TxSteps
  <2>2. QED
    BY <1>5, <1>b, <1>c, <2>1 DEF LockEvent
<1>6. CASE ClaimTicketType(p)
  BY <1>6, <1>b, <1>c DEF ClaimTicketType, TxSteps
<1>7. CASE CreateRegistration(p)
  <2>1. registration'[req[p].email].source # "none"
    BY <1>0, <1>7 DEF CreateRegistration, Registered, Goto, Proceed
  <2>2. QED
    BY <1>7, <1>d, <2>1 DEF CreateRegistration, IssueSteps
<1>8. CASE CreateCollides(p)
  BY <1>8, <1>b DEF CreateCollides
<1>9. CASE Recheck(p)
  <2>1. CASE Proceed(p, [req[p] EXCEPT !.pc = "lock", !.attempt = @ + 1])
    <3>1. req'[p].pc = "lock" /\ req'[p].result = "none"
      BY <1>0, <1>9, <2>1 DEF Recheck, Proceed, Request, Behind
    <3>2. QED
      BY <1>a, <3>1 DEF TxSteps
  <2>2. CASE Answer(p, "DUPLICATE") \/ Answer(p, "ERROR")
    BY <1>c, <2>2
  <2>3. QED
    BY <1>9, <2>1, <2>2 DEF Recheck
<1>10. CASE FindToken(p)
  <2>1. req[p].pc = "token" /\ registration'[req[p].email].source # "none"
    BY <1>0, <1>10, <1>z DEF FindToken, Behind, IssueSteps
  <2>2. QED
    BY <1>10, <1>d, <2>1 DEF FindToken, IssueSteps, database
<1>11. CASE MintToken(p)
  <2>1. req[p].pc = "mint" /\ registration'[req[p].email].source # "none"
    BY <1>0, <1>11, <1>z DEF MintToken, Behind, IssueSteps
  <2>2. QED
    BY <1>11, <1>c, <1>d, <2>1 DEF MintToken, IssueSteps
<1>12. CASE MarkIssued(p)
  <2>1. req[p].pc = "mark" /\ registration'[req[p].email].source # "none"
    BY <1>0, <1>12, <1>z DEF MarkIssued, Behind, IssueSteps
  <2>2. registration'[req[p].email].qrIssued
    BY <1>0, <1>12 DEF MarkIssued, RegistrationRow
  <2>3. QED
    BY <1>12, <1>d, <2>1, <2>2 DEF MarkIssued, IssueSteps
<1>13. CASE Deliver(p)
  <2>1. req[p].pc = "deliver" /\ req'[p].pc = "done" /\ req'[p].email = req[p].email
    BY <1>0, <1>13 DEF Deliver, Proceed, Request
  <2>2. registration'[req[p].email].qrIssued
    BY <1>0, <1>z, <2>1 DEF Behind
  <2>3. QED
    BY <2>1, <2>2 DEF Behind, IssueSteps
<1>14. CASE RequestFails(p)
  BY <1>14, <1>c DEF RequestFails
<1>15. QED
  BY <1>1, <1>2, <1>3, <1>4, <1>5, <1>6, <1>7, <1>8, <1>9, <1>10, <1>11, <1>12, <1>13, <1>14
     DEF RegisterStep

LEMMA IssuingStep == Typed /\ [Next]_vars /\ Issuing => Issuing'
<1> SUFFICES ASSUME Typed, [Next]_vars, Issuing PROVE Issuing'
  OBVIOUS
<1>0. \A q \in Requests : req[q] \in Request /\ Behind(req[q])
  BY DEF Typed, TypeOK, Issuing
<1>1. ASSUME NEW q \in Requests, req'[q] = req[q]
      PROVE  Behind(req[q])'
  BY <1>1, BehindStays
<1>2. ASSUME NEW q \in Requests
      PROVE  Behind(req[q])'
  <2>1. CASE \E p \in Requests : RegisterStep(p)
    BY <1>1, <2>1, RequestFrame, BehindStep
  <2>2. CASE ServerCrash
    <3>1. req'[q] = req[q] \/ req'[q] = Refusal("LOST")
      BY <2>2 DEF ServerCrash
    <3>2. QED
      BY <1>1, <3>1, RefusalType DEF Behind, IssueSteps
  <2>3. QED
    BY <1>1, <2>1, <2>2, ImportFrame DEF Next, UpdateTicketType, vars
<1>3. QED
  BY <1>2, IssuedRowsStep DEF Issuing

\* No interleaving of registrations, retries, imports and crashes answers 201,
\* or marks a registration as issued, without a QR token behind it.
THEOREM IssuedAlways == Spec => []IssuedHasToken
<1>1. Typed /\ Issuing /\ [Next]_vars => (Typed /\ Issuing)'
  BY TypedStep, IssuingStep
<1>2. Init => Typed /\ Issuing
  BY TypedInit, IssuingInit
<1>3. Issuing => IssuedHasToken
  BY DEF Issuing, IssuedRows, Behind, IssuedHasToken
<1>4. QED
  BY <1>1, <1>2, <1>3, PTL DEF Spec

----------------------------------------------------------------------------
(* Reports                                                                 *)

Reported ==
  \A i \in Imports : importBatch[i].status \in {"COMPLETED", "FAILED"} =>
    /\ imp[i].pc = "done"
    /\ importBatch[i].successRows + importBatch[i].failedRows >= Len(imp[i].file)

LEMMA ReportedInit == Init => Reported
BY DEF Init, Reported

LEMMA ReportedStep == Typed /\ [Next]_vars /\ Reported => Reported'
<1> SUFFICES ASSUME Typed, [Next]_vars, Reported PROVE Reported'
  OBVIOUS
<1>0. /\ importBatch \in [Imports -> ImportBatchRow] /\ imp \in [Imports -> Import]
      /\ \A i \in Imports : imp[i] \in Import /\ Sound(imp[i])
  BY DEF Typed, TypeOK, ImportsSound
<1>1. ASSUME NEW i \in Imports, ImportStep(i), UNCHANGED importBatch
      PROVE  Reported'
  <2>1. imp[i].pc # "done"
    BY <1>1 DEF ImportStep, ImportStart, ImportDedupe, ImportCheckTypes, ImportNextBatch, RowStart,
                RowClaim, RowCreate, RowFails, BatchCommit, BatchFails, ImportFinish, ImportFails,
                BatchSteps
  <2>2. \A j \in Imports : j # i => imp'[j] = imp[j]
    BY <1>1, ImportFrame
  <2>3. QED
    BY <1>1, <2>1, <2>2 DEF Reported
<1>2. ASSUME NEW i \in Imports, ImportStart(i)
      PROVE  Reported'
  <2>1. /\ importBatch'[i].status = "PROCESSING"
        /\ \A j \in Imports : j # i => importBatch'[j] = importBatch[j] /\ imp'[j] = imp[j]
    BY <1>0, <1>2 DEF ImportStart, Become, ImportBatchRow
  <2>2. QED
    BY <2>1 DEF Reported
<1>3. ASSUME NEW i \in Imports, ImportFinish(i)
      PROVE  Reported'
  <2>1. /\ imp[i].pc = "next" /\ imp[i].todo = {} /\ imp[i].batch = {} /\ imp[i].made = {}
        /\ imp[i].success \in Nat /\ imp[i].failed \in Nat /\ Len(imp[i].file) \in Nat
    BY <1>0, <1>3, SoundSets DEF ImportFinish, Sound, Shape, BatchSteps
  <2>2. Cardinality(imp[i].todo) = 0 /\ Cardinality(imp[i].batch) = 0
        /\ Cardinality(imp[i].made) = 0 /\ AtRow(imp[i]) = 0
    BY <2>1, FS_EmptySet DEF AtRow
  <2>3. imp[i].success + imp[i].failed >= Len(imp[i].file)
    <3>1. imp[i].success + imp[i].failed + 0 + 0 + 0 + 0 >= Len(imp[i].file)
      BY <1>0, <2>1, <2>2 DEF Sound, Covers
    <3>2. QED
      BY <2>1, <3>1
  <2>4. /\ imp'[i].pc = "done" /\ imp'[i].file = imp[i].file
        /\ importBatch'[i].successRows = imp[i].success
        /\ importBatch'[i].failedRows = imp[i].failed
        /\ \A j \in Imports : j # i => importBatch'[j] = importBatch[j] /\ imp'[j] = imp[j]
    BY <1>0, <1>3 DEF ImportFinish, Become, Import
  <2>5. QED
    BY <2>3, <2>4 DEF Reported
<1>4. CASE ServerCrash
  BY <1>0, <1>4 DEF ServerCrash, database, Reported
<1>5. CASE UNCHANGED <<importBatch, imp>>
  BY <1>5 DEF Reported
<1>6. ASSUME NEW i \in Imports, ImportStep(i)
      PROVE  UNCHANGED importBatch \/ ImportStart(i) \/ ImportFinish(i)
  BY <1>6 DEF ImportStep, ImportDedupe, ImportCheckTypes, ImportNextBatch, RowStart,
              RowClaim, RowCreate, RowFails, BatchCommit, BatchFails, ImportFails, database
<1>7. QED
  BY <1>1, <1>2, <1>3, <1>4, <1>5, <1>6, RequestFrame DEF Next, vars, UpdateTicketType

\* Whatever fails, and however its transactions end, an import that reports a
\* result accounts for every row of its file.
THEOREM ReportCovers == Spec => []ReportCoversFile
<1>1. Typed /\ Reported /\ [Next]_vars => (Typed /\ Reported)'
  BY TypedStep, ReportedStep
<1>2. Init => Typed /\ Reported
  BY TypedInit, ReportedInit
<1>3. Reported => ReportCoversFile
  BY DEF Reported, ReportCoversFile
<1>4. QED
  BY <1>1, <1>2, <1>3, PTL DEF Spec

----------------------------------------------------------------------------
(* Tickets sold                                                            *)

LEMMA SameSize ==
  ASSUME NEW S, IsFiniteSet(S), NEW f, DOMAIN f = S,
         \A x, y \in S : f[x] = f[y] => x = y
  PROVE  /\ IsFiniteSet({f[x] : x \in S})
         /\ Cardinality({f[x] : x \in S}) = Cardinality(S)
<1> DEFINE T == {f[x] : x \in S}
           g == [x \in S |-> f[x]]
<1>1. g \in Bijection(S, T)
  BY DEF Bijection, Injection, Surjection, IsInjective
<1>2. ExistsBijection(S, T)
  BY <1>1 DEF ExistsBijection
<1>3. QED
  BY <1>2, FS_Bijection

LEMMA DisjointUnion ==
  ASSUME NEW S, IsFiniteSet(S), NEW T, IsFiniteSet(T), S \cap T = {}
  PROVE  Cardinality(S \cup T) = Cardinality(S) + Cardinality(T)
<1>1. Cardinality(S \cap T) = 0 /\ Cardinality(S) \in Nat /\ Cardinality(T) \in Nat
  BY FS_EmptySet, FS_CardinalityType
<1>2. Cardinality(S \cup T) = Cardinality(S) + Cardinality(T) - Cardinality(S \cap T)
  BY FS_Union
<1>3. QED
  BY <1>1, <1>2

\* Registrations of type t.
Holders(t) == {e \in Emails : Registered(e) /\ registration[e].type = t}

LEMMA FewHolders == \A t : IsFiniteSet(Holders(t)) /\ Cardinality(Holders(t)) \in Nat
<1>1. \A t : Holders(t) \subseteq Emails
  BY DEF Holders
<1>2. QED
  BY <1>1, EmailsAssumption, FS_Subset, FS_CardinalityType

\* No uncommitted row of an import is registered already, or inserted twice.
Fresh ==
  /\ \A i \in Imports : \A n \in imp[i].made : ~Registered(EmailAt(i, n))
  /\ \A i, j \in Imports : i # j => Pending(i) \cap Pending(j) = {}

LEMMA FreshInit == Init => Fresh
BY DEF Init, Fresh, Pending, NewImport

\* Which rows import i has created after a step of its own.
LEMMA MadeStep ==
  ASSUME Typed, NEW i \in Imports, ImportStep(i)
  PROVE  \/ imp'[i].made = {}
         \/ imp'[i].made = imp[i].made /\ imp'[i].file = imp[i].file
              /\ UNCHANGED <<registration, ticketType>>
         \/ /\ RowCreate(i)
            /\ imp'[i].made = imp[i].made \cup {imp[i].row} /\ imp'[i].file = imp[i].file
<1>0. imp \in [Imports -> Import] /\ imp[i] \in Import /\ Shape(imp[i])
  BY DEF Typed, TypeOK, ImportsSound, Sound
<1>a. ASSUME NEW l, Become(i, l)
      PROVE  imp'[i] = l
  BY <1>0, <1>a DEF Become
<1>1. CASE imp[i].pc \notin BatchSteps
  <2>1. imp[i].made = {}
    BY <1>0, <1>1 DEF Shape
  <2>2. CASE ImportStart(i)
    BY <1>0, <1>a, <2>1, <2>2 DEF ImportStart, Import
  <2>3. CASE ImportDedupe(i)
    BY <1>0, <1>a, <2>1, <2>3 DEF ImportDedupe, Keep, Import
  <2>4. CASE ImportCheckTypes(i)
    BY <1>0, <1>a, <2>1, <2>4 DEF ImportCheckTypes, Keep, Import
  <2>5. CASE ImportNextBatch(i)
    BY <1>0, <1>a, <2>1, <2>5 DEF ImportNextBatch, Import
  <2>6. CASE ImportFinish(i)
    BY <1>0, <1>a, <2>1, <2>6 DEF ImportFinish, Import
  <2>7. CASE ImportFails(i)
    BY <1>0, <1>a, <2>1, <2>7 DEF ImportFails, Import
  <2>8. QED
    BY <1>1, <2>2, <2>3, <2>4, <2>5, <2>6, <2>7
       DEF ImportStep, RowStart, RowClaim, RowCreate, RowFails, BatchCommit, BatchFails, BatchSteps
<1>2. CASE RowStart(i)
  BY <1>2, RowStartLocals DEF RowStart, database
<1>3. CASE RowClaim(i)
  <2>1. CASE RowFailed(i, FALSE)
    BY <1>3, <2>1, RowFailedLocals DEF RowClaim, database
  <2>2. CASE Become(i, [imp[i] EXCEPT !.pc = "rowCreate", !.claimed = @ \cup {CurrentType(i)}])
    BY <1>0, <1>a, <1>3, <2>2 DEF RowClaim, Import, database
  <2>3. QED
    BY <1>3, <2>1, <2>2 DEF RowClaim
<1>4. CASE RowCreate(i)
  BY <1>0, <1>a, <1>4 DEF RowCreate, Import
<1>5. CASE RowFails(i)
  BY <1>5, RowFailedLocals DEF RowFails, database
<1>6. CASE BatchCommit(i)
  BY <1>6, EndBatchLocals DEF BatchCommit
<1>7. CASE BatchFails(i)
  BY <1>7, EndBatchLocals DEF BatchFails
<1>8. QED
  BY <1>1, <1>2, <1>3, <1>4, <1>5, <1>6, <1>7
     DEF ImportStep, ImportStart, ImportDedupe, ImportCheckTypes, ImportNextBatch, ImportFinish,
         ImportFails, BatchSteps

LEMMA FreshStep == Typed /\ Held /\ [Next]_vars /\ Fresh => Fresh'
<1> SUFFICES ASSUME Typed, Held, [Next]_vars, Fresh PROVE Fresh'
  OBVIOUS
<1>0. \A i \in Imports : \A n \in imp[i].made : EmailAt(i, n) \in Emails
  BY MadeRows
\* The imports keep their rows, and no email they hold gets registered.
<1>a. ASSUME \A i \in Imports : imp'[i].made = {} \/ imp'[i] = imp[i],
             \A e \in Emails : ~Registered(e) => registration'[e].source = "none"
      PROVE  Fresh'
  BY <1>0, <1>a DEF Fresh, Pending, EmailAt, Registered
<1>1. ASSUME NEW p \in Requests, RegisterStep(p)
      PROVE  Fresh'
  <2>1. imp' = imp
    BY <1>1, RequestFrame
  <2>2. CASE CreateRegistration(p)
    <3>1. \A i \in Imports : imp[i].made = {}
      BY <2>2 DEF CreateRegistration, Held, Alone, HoldsEvent, SharesEvent
    <3>2. QED
      BY <2>1, <3>1 DEF Fresh, Pending
  <2>3. CASE ~CreateRegistration(p)
    <3>1. \A e \in Emails : registration'[e].source = registration[e].source
      <4>1. CASE MarkIssued(p)
        BY <4>1 DEF MarkIssued, Typed, TypeOK, RegistrationRow
      <4>2. CASE ~MarkIssued(p)
        BY <1>1, <2>3, <4>2 DEF RegisterStep, FindEvent, CountSeats, ReadTicketType, FindDuplicate,
              LockEvent, MintToken, ClaimTicketType, CreateCollides, Recheck, FindToken, Deliver,
              RequestFails, database
      <4>3. QED
        BY <4>1, <4>2
    <3>2. QED
      BY <1>a, <2>1, <3>1 DEF Registered
  <2>4. QED
    BY <2>2, <2>3
<1>2. ASSUME NEW i \in Imports, ImportStep(i)
      PROVE  Fresh'
  <2>0. \A j \in Imports : j # i => imp'[j] = imp[j]
    BY <1>2, ImportFrame
  <2>1. CASE UNCHANGED registration /\ imp'[i].made = {}
    BY <1>a, <2>0, <2>1 DEF Registered
  <2>2. CASE UNCHANGED registration /\ imp'[i].made = imp[i].made /\ imp'[i].file = imp[i].file
    <3>1. \A j \in Imports : imp'[j].made = imp[j].made /\ imp'[j].file = imp[j].file
      BY <2>0, <2>2
    <3>2. \A j \in Imports : Pending(j)' = Pending(j)
      BY <3>1 DEF Pending
    <3>3. \A j \in Imports : \A n \in imp'[j].made : ~Registered(EmailAt(j, n))'
      BY <2>2, <3>1 DEF Fresh, EmailAt, Registered
    <3>4. QED
      BY <3>2, <3>3 DEF Fresh
  <2>3. CASE /\ RowCreate(i)
             /\ imp'[i].made = imp[i].made \cup {imp[i].row} /\ imp'[i].file = imp[i].file
    <3> DEFINE e == EmailAt(i, imp[i].row)
    <3>1. /\ ~Registered(e) /\ UNCHANGED registration
          /\ \A j \in Imports \ {i} : e \notin Pending(j)
      BY <2>3 DEF RowCreate, database
    <3>2. Pending(i)' = Pending(i) \cup {e}
      BY <2>3 DEF Pending, EmailAt
    <3>3. \A j \in Imports : j # i => Pending(j)' = Pending(j)
      BY <2>0 DEF Pending
    <3>4. \A j, k \in Imports : j # k => Pending(j)' \cap Pending(k)' = {}
      BY <3>1, <3>2, <3>3 DEF Fresh
    <3>5. \A j \in Imports : \A n \in imp'[j].made :
            \/ imp'[j].file[n].email = e
            \/ n \in imp[j].made /\ imp'[j].file[n].email = EmailAt(j, n)
      BY <2>0, <2>3 DEF EmailAt
    <3>6. \A j \in Imports : \A n \in imp'[j].made : ~Registered(imp'[j].file[n].email)
      BY <3>1, <3>5 DEF Fresh
    <3>7. QED
      BY <3>1, <3>4, <3>6 DEF Fresh, EmailAt, Registered
  <2>4. CASE CommitRows(i) /\ imp[i].pc = "row" /\ imp'[i].made = {}
    <3>1. \A j \in Imports : j # i => \A n \in imp[j].made : EmailAt(j, n) \notin Pending(i)
      <4>1. \A j \in Imports : \A n \in imp[j].made : EmailAt(j, n) \in Pending(j)
        BY DEF Pending, EmailAt
      <4>2. QED
        BY <4>1 DEF Fresh
    <3>2. \A e \in Emails : e \notin Pending(i) => registration'[e] = registration[e]
      BY <2>4 DEF CommitRows
    <3>3. \A j \in Imports : \A n \in imp'[j].made : imp'[j] = imp[j] /\ j # i
      BY <2>0, <2>4
    <3>4. \A j \in Imports : \A n \in imp'[j].made : ~Registered(EmailAt(j, n))'
      BY <1>0, <3>1, <3>2, <3>3 DEF Fresh, EmailAt, Registered
    <3>5. \A j, k \in Imports : j # k => (Pending(j) \cap Pending(k))' = {}
      <4>1. Pending(i)' = {}
        BY <2>4 DEF Pending
      <4>2. \A j \in Imports : j # i => Pending(j)' = Pending(j)
        BY <2>0 DEF Pending
      <4>3. QED
        BY <4>1, <4>2 DEF Fresh
    <3>6. QED
      BY <3>4, <3>5 DEF Fresh
  <2>5. CommitRows(i) /\ imp[i].pc = "row" => imp'[i].made = {} \/ UNCHANGED registration
    BY <1>2, MadeStep DEF RowCreate, database
  <2>6. QED
    BY <1>2, <2>1, <2>2, <2>3, <2>4, <2>5, MadeStep, ImportFrame DEF RowCreate, database
<1>3. CASE ServerCrash
  <2>1. \A i \in Imports : imp'[i].made = {}
    BY <1>3 DEF ServerCrash, NewImport, Typed, TypeOK, ImportsSound, Sound, Shape, BatchSteps
  <2>2. QED
    BY <2>1 DEF Fresh, Pending
<1>4. CASE UNCHANGED <<imp, registration>>
  <2>1. \A i \in Imports : Pending(i)' = Pending(i)
    BY <1>4 DEF Pending
  <2>2. \A i \in Imports : \A n \in imp'[i].made : ~Registered(EmailAt(i, n))'
    BY <1>4 DEF Fresh, EmailAt, Registered
  <2>3. QED
    BY <2>1, <2>2 DEF Fresh
<1>5. QED
  BY <1>1, <1>2, <1>3, <1>4 DEF Next, vars, UpdateTicketType

\* A commit gives each type as many holders as it sells tickets.
LEMMA CommitHolders ==
  ASSUME Typed, Fresh, NEW i \in Imports, CommitRows(i), NEW t \in TicketTypes
  PROVE  Cardinality(Holders(t)') = Cardinality(Holders(t)) + SoldBy(i, t)
<1> DEFINE S == {n \in imp[i].made : TypeAt(i, n) = t}
           f == [n \in S |-> EmailAt(i, n)]
           New == {f[n] : n \in S}
<1>0. Sound(imp[i]) /\ imp[i].made \in SUBSET FirstMentions(imp[i].file)
      /\ imp[i].file \in Seq(Rows)
  BY SoundSets DEF Typed, ImportsSound
<1>1. \A m, n \in imp[i].made : EmailAt(i, m) = EmailAt(i, n) => m = n
  BY <1>0, FirstMentionsDiffer DEF EmailAt
<1>2. IsFiniteSet(S)
  BY <1>0, SoundSets
<1>3. IsFiniteSet(New) /\ Cardinality(New) = Cardinality(S)
  <2>1. DOMAIN f = S /\ \A x, y \in S : f[x] = f[y] => x = y
    BY <1>1
  <2> HIDE DEF S, f
  <2>2. QED
    BY <1>2, <2>1, SameSize
<1>4. New = {EmailAt(i, n) : n \in S}
  OBVIOUS
<1>5. \A n \in imp[i].made : EmailAt(i, n) \in Emails /\ EmailAt(i, n) \in Pending(i)
                              /\ ~Registered(EmailAt(i, n))
  BY MadeRows DEF Pending, EmailAt, Fresh
<1>6. \A n \in imp[i].made : registration'[EmailAt(i, n)] =
                               [source |-> "IMPORT", type |-> TypeAt(i, n), qrIssued |-> TRUE]
  <2>1. TAKE n \in imp[i].made
  <2>2. (CHOOSE m \in imp[i].made : EmailAt(i, m) = EmailAt(i, n)) = n
    BY <1>1
  <2>3. QED
    BY <1>5, <2>2 DEF CommitRows, Imported
<1>7. \A e \in Emails : e \notin Pending(i) => registration'[e] = registration[e]
  BY DEF CommitRows
<1>8. \A e \in Pending(i) : \E n \in imp[i].made : e = EmailAt(i, n)
  BY DEF Pending, EmailAt
<1>9. Holders(t)' = Holders(t) \cup New
  <2>1. ASSUME NEW e \in Emails
        PROVE  (registration'[e].source # "none" /\ registration'[e].type = t)
                 <=> e \in Holders(t) \/ e \in New
    <3>1. CASE e \notin Pending(i)
      <4>1. e \notin New
        BY <1>4, <1>5, <3>1
      <4>2. QED
        BY <1>7, <3>1, <4>1 DEF Holders, Registered
    <3>2. CASE e \in Pending(i)
      <4>1. PICK n \in imp[i].made : e = EmailAt(i, n)
        BY <1>8, <3>2
      <4>2. /\ e \notin Holders(t)
            /\ registration'[e].source # "none" /\ registration'[e].type = TypeAt(i, n)
        <5>1. ~Registered(e)
          BY <1>5, <4>1
        <5>2. registration'[e] = [source |-> "IMPORT", type |-> TypeAt(i, n), qrIssued |-> TRUE]
          BY <1>6, <4>1
        <5>3. QED
          BY <5>1, <5>2 DEF Holders
      <4>3. e \in New <=> TypeAt(i, n) = t
        BY <1>1, <1>4, <4>1
      <4>4. QED
        BY <4>2, <4>3
    <3>3. QED
      BY <3>1, <3>2
  <2>2. New \subseteq Emails
    BY <1>4, <1>5
  <2> HIDE DEF New
  <2>3. QED
    BY <2>1, <2>2 DEF Holders, Registered
<1>10. Holders(t) \cap New = {}
  BY <1>4, <1>5 DEF Holders
<1>11. Cardinality(Holders(t) \cup New) = Cardinality(Holders(t)) + Cardinality(New)
  <2> HIDE DEF New
  <2>1. QED
    BY <1>3, <1>10, FewHolders, DisjointUnion
<1>12. QED
  BY <1>3, <1>9, <1>11 DEF SoldBy

LEMMA CreateHolders ==
  ASSUME Typed, NEW p \in Requests, CreateRegistration(p), NEW t \in TicketTypes
  PROVE  Cardinality(Holders(t)') =
           IF t = req[p].type THEN Cardinality(Holders(t)) + 1 ELSE Cardinality(Holders(t))
<1> DEFINE e == req[p].email
<1>1. e \in Emails /\ e \notin Holders(t)
  BY DEF CreateRegistration, Holders, Typed, TypeOK, Request
<1>2. Holders(t)' = IF t = req[p].type THEN Holders(t) \cup {e} ELSE Holders(t)
  <2>1. \A a \in Emails : a # e => registration'[a] = registration[a]
    BY DEF CreateRegistration, Typed, TypeOK
  <2>2. registration'[e].source # "none" /\ registration'[e].type = req[p].type
    BY <1>1 DEF CreateRegistration, Typed, TypeOK
  <2>3. \A a \in Emails : (registration'[a].source # "none" /\ registration'[a].type = t) <=>
                            a \in Holders(t) \/ (a = e /\ t = req[p].type)
    BY <1>1, <2>1, <2>2 DEF Holders, Registered
  <2>4. QED
    BY <1>1, <2>3 DEF Holders, Registered
<1>3. Cardinality(Holders(t) \cup {e}) = Cardinality(Holders(t)) + 1
  BY <1>1, FewHolders, FS_AddElement
<1>4. QED
  BY <1>2, <1>3

LEMMA SoldStep == Typed /\ Fresh /\ [Next]_vars /\ SoldIsExact => SoldIsExact'
<1> SUFFICES ASSUME Typed, Fresh, [Next]_vars, SoldIsExact PROVE SoldIsExact'
  OBVIOUS
<1>0. \A t \in TicketTypes : /\ ticketType[t].quantitySold = Cardinality(Holders(t))
                             /\ ticketType[t] \in TicketTypeRow
                             /\ ticketType[t].quantitySold \in Nat
  BY TypeRows DEF SoldIsExact, Holders, Typed, TypeOK
<1>a. ASSUME \A t \in TicketTypes : /\ ticketType'[t].quantitySold = ticketType[t].quantitySold
                                    /\ Holders(t)' = Holders(t)
      PROVE  SoldIsExact'
  <2>1. \A t \in TicketTypes : ticketType'[t].quantitySold = Cardinality(Holders(t)')
    BY <1>0, <1>a
  <2>2. QED
    BY <2>1 DEF SoldIsExact, Holders
<1>b. ASSUME UNCHANGED registration
      PROVE  \A t : Holders(t)' = Holders(t)
  BY <1>b DEF Holders, Registered
<1>1. ASSUME NEW p \in Requests, CreateRegistration(p)
      PROVE  SoldIsExact'
  <2>1. \A t \in TicketTypes : ticketType'[t].quantitySold =
          IF t = req[p].type THEN ticketType[t].quantitySold + 1 ELSE ticketType[t].quantitySold
    BY <1>0, <1>1, NoTypeAssumption
       DEF CreateRegistration, Sold, Typed, TypeOK, TicketTypeRow, Request, Choices
  <2>2. \A t \in TicketTypes : ticketType'[t].quantitySold = Cardinality(Holders(t)')
    BY <1>0, <1>1, <2>1, CreateHolders
  <2>3. QED
    BY <2>2 DEF SoldIsExact, Holders
<1>2. ASSUME NEW i \in Imports, CommitRows(i)
      PROVE  SoldIsExact'
  <2>1. \A t \in TicketTypes : ticketType'[t].quantitySold
                                 = ticketType[t].quantitySold + SoldBy(i, t)
    BY <1>0, <1>2 DEF CommitRows, TicketTypeRow
  <2>2. \A t \in TicketTypes : ticketType'[t].quantitySold = Cardinality(Holders(t)')
    BY <1>0, <1>2, <2>1, CommitHolders
  <2>3. QED
    BY <2>2 DEF SoldIsExact, Holders
<1>3. ASSUME NEW p \in Requests, MarkIssued(p)
      PROVE  SoldIsExact'
  <2>1. \A e \in Emails : /\ registration'[e].source = registration[e].source
                          /\ registration'[e].type = registration[e].type
    BY <1>3 DEF MarkIssued, Typed, TypeOK, RegistrationRow
  <2>2. \A t : Holders(t)' = Holders(t)
    BY <2>1 DEF Holders, Registered
  <2>3. QED
    BY <1>3, <1>a, <2>2 DEF MarkIssued
<1>4. CASE UpdateTicketType
  <2>1. \A t \in TicketTypes : ticketType'[t].quantitySold = ticketType[t].quantitySold
    BY <1>0, <1>4 DEF UpdateTicketType, Typed, TypeOK, TicketTypeRow
  <2>2. QED
    BY <1>4, <1>a, <1>b, <2>1 DEF UpdateTicketType
<1>5. CASE UNCHANGED <<registration, ticketType>>
  BY <1>5, <1>a, <1>b
<1>6. ASSUME NEW p \in Requests, RegisterStep(p)
      PROVE  \/ CreateRegistration(p) \/ MarkIssued(p)
             \/ UNCHANGED <<registration, ticketType>>
  BY <1>6 DEF RegisterStep, FindEvent, CountSeats, ReadTicketType, FindDuplicate, LockEvent,
              ClaimTicketType, CreateCollides, Recheck, FindToken, MintToken, Deliver, RequestFails,
              database
<1>7. QED
  BY <1>1, <1>2, <1>3, <1>4, <1>5, <1>6, ImportFrame DEF Next, vars, ServerCrash, database

LEMMA SoldInit == Init => SoldIsExact
<1> SUFFICES ASSUME Init PROVE SoldIsExact
  OBVIOUS
<1>1. \A t \in TicketTypes : ticketType[t].quantitySold = 0
  BY DEF Init
<1>2. \A t \in TicketTypes : {e \in Emails : Registered(e) /\ registration[e].type = t} = {}
  BY DEF Init, Registered
<1>3. QED
  BY <1>1, <1>2, FS_EmptySet DEF SoldIsExact

\* quantity_sold counts the registrations of its type exactly, through every
\* collision, retry, failed row, rolled back batch and crash.
THEOREM SoldExactly == Spec => []SoldIsExact
<1>1. Init => Typed /\ Held /\ Fresh /\ SoldIsExact
  BY TypedInit, HeldInit, FreshInit, SoldInit
<1>2. (Typed /\ Held /\ Fresh /\ SoldIsExact) /\ [Next]_vars
        => (Typed /\ Held /\ Fresh /\ SoldIsExact)'
  BY TypedStep, HeldStep, FreshStep, SoldStep
<1>3. QED
  BY <1>1, <1>2, PTL DEF Spec

----------------------------------------------------------------------------
(* Capacities of ticket types                                              *)

\* Tickets of type t that import i's transaction has taken: those of the rows
\* it has created, and the one its current row has just claimed.
Current(i, t) == imp[i].pc = "rowCreate" /\ CurrentType(i) = t
Taken(i, t) == SoldBy(i, t) + IF Current(i, t) THEN 1 ELSE 0

\* A claimed type is locked, so what was counted when it was claimed holds.
Exclusive == \A i, j \in Imports : i # j => imp[i].claimed \cap imp[j].claimed = {}
Afford(i) ==
  /\ imp[i].pc = "rowClaim" => imp[i].capacity = ticketType[CurrentType(i)].capacity
  /\ \A t \in imp[i].claimed : ticketType[t].capacity # NoLimit =>
       ticketType[t].quantitySold + Taken(i, t) <= ticketType[t].capacity
Claims ==
  /\ Exclusive
  /\ edits = 0 => TypeWithinCapacity /\ \A i \in Imports : Afford(i)

LEMMA ClaimsInit == Init => Claims
<1> SUFFICES ASSUME Init PROVE Claims
  OBVIOUS
<1>1. \A i \in Imports : imp[i].claimed = {} /\ imp[i].pc = "start"
  BY DEF Init, NewImport
<1>2. TypeWithinCapacity
  BY CapacityAssumption DEF Init, TypeWithinCapacity
<1>3. QED
  BY <1>1, <1>2 DEF Claims, Exclusive, Afford

LEMMA ExclusiveStep == Typed /\ [Next]_vars /\ Exclusive => Exclusive'
<1> SUFFICES ASSUME Typed, [Next]_vars, Exclusive PROVE Exclusive'
  OBVIOUS
<1>1. ASSUME NEW i \in Imports, ImportStep(i)
      PROVE  Exclusive'
  <2>1. /\ \A j \in Imports : j # i => imp'[j] = imp[j]
        /\ \A t \in imp'[i].claimed : t \in imp[i].claimed \/ TypeFree(t, {i})
    BY <1>1, ImportFrame
  <2>2. QED
    BY <2>1 DEF Exclusive, TypeFree, ImportHoldsType
<1>2. CASE ServerCrash
  <2>1. \A i \in Imports : imp'[i].claimed = {}
    BY <1>2 DEF ServerCrash, NewImport, Typed, ImportsSound, Sound, Shape, TypeOK, BatchSteps
  <2>2. QED
    BY <2>1 DEF Exclusive
<1>3. CASE UNCHANGED imp
  BY <1>3 DEF Exclusive
<1>4. QED
  BY <1>1, <1>2, <1>3, RequestFrame DEF Next, vars, UpdateTicketType

\* What a step of import i does to its own claims.
LEMMA AffordStep ==
  ASSUME Typed, NEW i \in Imports, ImportStep(i), Afford(i)
  PROVE  Afford(i)'
<1>0. /\ imp \in [Imports -> Import] /\ imp[i] \in Import /\ Shape(imp[i]) /\ Sound(imp[i])
      /\ \A t : SoldBy(i, t) \in Nat
      /\ \A t \in TicketTypes : /\ ticketType[t].quantitySold \in Nat
                                /\ ticketType[t].capacity \in Nat \cup {NoLimit}
      /\ imp[i].claimed \subseteq TicketTypes /\ NoType \notin imp[i].claimed
  BY SoldByType, TypeRows, NoTypeAssumption DEF Typed, TypeOK, ImportsSound, Sound, Import
<1>a. ASSUME NEW l, Become(i, l)
      PROVE  imp'[i] = l
  BY <1>0, <1>a DEF Become
\* Outside a transaction nothing is claimed.
<1>b. ASSUME imp'[i].claimed = {}, imp'[i].pc # "rowClaim"
      PROVE  Afford(i)'
  BY <1>b DEF Afford
\* The claims stay, and what is taken does not grow.
<1>c. ASSUME imp'[i].claimed = imp[i].claimed, imp'[i].made = imp[i].made,
             imp'[i].file = imp[i].file, UNCHANGED ticketType,
             imp'[i].pc = "rowClaim" =>
               imp'[i].capacity = ticketType[imp'[i].file[imp'[i].row].type].capacity,
             imp'[i].pc = "rowCreate" => imp'[i].file[imp'[i].row].type = NoType
      PROVE  Afford(i)'
  <2>1. \A t \in imp[i].claimed : Taken(i, t)' = SoldBy(i, t)
    <3>1. \A t : SoldBy(i, t)' = SoldBy(i, t)
      BY <1>c DEF SoldBy, TypeAt
    <3>2. \A t \in imp[i].claimed : ~Current(i, t)'
      BY <1>0, <1>c DEF Current, CurrentType, TypeAt
    <3>3. QED
      BY <1>0, <3>1, <3>2 DEF Taken
  <2>2. \A t \in imp[i].claimed : ticketType[t].capacity # NoLimit =>
          ticketType[t].quantitySold + SoldBy(i, t) <= ticketType[t].capacity
    <3>1. \A t \in imp[i].claimed : ticketType[t].capacity # NoLimit =>
            ticketType[t].quantitySold + Taken(i, t) <= ticketType[t].capacity
      BY DEF Afford
    <3>2. \A t : Taken(i, t) = SoldBy(i, t) \/ Taken(i, t) = SoldBy(i, t) + 1
      BY <1>0 DEF Taken
    <3>3. QED
      BY <1>0, <3>1, <3>2
  <2>3. QED
    BY <1>c, <2>1, <2>2 DEF Afford, CurrentType, TypeAt
<1>1. CASE imp[i].pc \notin BatchSteps
  <2>1. imp[i].claimed = {}
    BY <1>0, <1>1 DEF Shape
  <2>2. CASE ImportStart(i)
    BY <1>0, <1>a, <1>b, <2>1, <2>2 DEF ImportStart, Import
  <2>3. CASE ImportDedupe(i)
    BY <1>0, <1>a, <1>b, <2>1, <2>3 DEF ImportDedupe, Keep, Import
  <2>4. CASE ImportCheckTypes(i)
    BY <1>0, <1>a, <1>b, <2>1, <2>4 DEF ImportCheckTypes, Keep, Import
  <2>5. CASE ImportNextBatch(i)
    BY <1>0, <1>a, <1>b, <2>1, <2>5 DEF ImportNextBatch, Import
  <2>6. CASE ImportFinish(i)
    BY <1>0, <1>a, <1>b, <2>1, <2>6 DEF ImportFinish, Import
  <2>7. CASE ImportFails(i)
    BY <1>0, <1>a, <1>b, <2>1, <2>7 DEF ImportFails, Import
  <2>8. QED
    BY <1>1, <2>2, <2>3, <2>4, <2>5, <2>6, <2>7
       DEF ImportStep, RowStart, RowClaim, RowCreate, RowFails, BatchCommit, BatchFails, BatchSteps
<1>2. CASE RowStart(i)
  <2>1. ticketType' = ticketType
    BY <1>2 DEF RowStart, database
  <2>2. QED
    BY <1>2, <1>c, <2>1, RowStartLocals DEF CurrentType, TypeAt
<1>3. CASE RowClaim(i)
  <2> DEFINE t == CurrentType(i)
             l == [imp[i] EXCEPT !.pc = "rowCreate", !.claimed = @ \cup {t}]
  <2>1. CASE ClaimMatches(i) /\ Become(i, l)
    <3>1. /\ imp'[i].pc = "rowCreate" /\ imp'[i].row = imp[i].row /\ imp'[i].file = imp[i].file
          /\ imp'[i].claimed = imp[i].claimed \cup {t} /\ imp'[i].made = imp[i].made
      BY <1>0, <1>a, <2>1 DEF Import
    <3>2. ticketType' = ticketType /\ imp[i].pc = "rowClaim"
      BY <1>3 DEF RowClaim, database
    <3>3. \A u : SoldBy(i, u)' = SoldBy(i, u)
      BY <3>1 DEF SoldBy, TypeAt
    <3>4. CurrentType(i)' = t
      BY <3>1 DEF CurrentType, TypeAt
    <3>5. \A u : /\ Taken(i, u) = SoldBy(i, u)
                 /\ Taken(i, u)' = IF u = t THEN SoldBy(i, u) + 1 ELSE SoldBy(i, u)
      BY <1>0, <3>1, <3>2, <3>3, <3>4 DEF Taken, Current
    <3>6. t \in TicketTypes
      <4>1. imp[i].row \in DOMAIN imp[i].file /\ t # NoType
        BY <1>0, <3>2, SoundSets, FileRows DEF Shape, CurrentType, TypeAt
      <4>2. QED
        BY <1>0, <4>1, SoundSets, FileRows DEF Choices, CurrentType, TypeAt
    <3>7. ticketType[t].capacity # NoLimit =>
            ticketType[t].quantitySold + (SoldBy(i, t) + 1) <= ticketType[t].capacity
      <4>1. ticketType[t].capacity # NoLimit =>
              ticketType[t].quantitySold + SoldBy(i, t) < ticketType[t].capacity
        BY <2>1, <3>2 DEF ClaimMatches, Afford
      <4>2. QED
        BY <1>0, <3>6, <4>1
    <3>8. QED
      BY <3>1, <3>2, <3>5, <3>7 DEF Afford
  <2>2. CASE RowFailed(i, FALSE)
    <3>1. /\ imp'[i].pc = "row" /\ imp'[i].file = imp[i].file
          /\ imp'[i].claimed = imp[i].claimed /\ imp'[i].made = imp[i].made
      BY <2>2, RowFailedLocals
    <3>2. QED
      BY <1>3, <1>c, <3>1 DEF RowClaim, database
  <2>3. QED
    BY <1>3, <2>1, <2>2 DEF RowClaim
<1>4. CASE RowCreate(i)
  <2> DEFINE n == imp[i].row
             t == CurrentType(i)
  <2>1. /\ imp'[i].pc = "row" /\ imp'[i].file = imp[i].file
        /\ imp'[i].claimed = imp[i].claimed /\ imp'[i].made = imp[i].made \cup {n}
    BY <1>0, <1>4, <1>a DEF RowCreate, Import
  <2>2. n \notin imp[i].made /\ imp[i].pc = "rowCreate" /\ ticketType' = ticketType
    BY <1>0, <1>4 DEF RowCreate, Shape, database
  <2>3. \A u : SoldBy(i, u)' = SoldBy(i, u) + IF u = t THEN 1 ELSE 0
    <3>1. TAKE u
    <3> DEFINE S == {m \in imp[i].made : TypeAt(i, m) = u}
    <3>2. {m \in imp[i].made : TypeAt(i, m) = u}' = IF u = t THEN S \cup {n} ELSE S
      BY <2>1 DEF TypeAt, CurrentType
    <3>3. IsFiniteSet(S) /\ Cardinality(S) \in Nat /\ n \notin S
      BY <1>0, <2>2, SoundSets
    <3>4. Cardinality(S \cup {n}) = Cardinality(S) + 1
      <4> HIDE DEF S
      <4>1. QED
        BY <3>3, FS_AddElement
    <3>5. SoldBy(i, u) = Cardinality(S)
      BY DEF SoldBy
    <3>6. SoldBy(i, u)' = Cardinality(IF u = t THEN S \cup {n} ELSE S)
      BY <3>2 DEF SoldBy
    <3> HIDE DEF S
    <3>7. QED
      BY <3>3, <3>4, <3>5, <3>6
  <2>4. \A u : Taken(i, u)' = Taken(i, u)
    <3>1. \A u : Taken(i, u) = SoldBy(i, u) + IF u = t THEN 1 ELSE 0
      BY <2>2 DEF Taken, Current
    <3>2. \A u : Taken(i, u)' = SoldBy(i, u)'
      <4>1. \A u : Taken(i, u)' = SoldBy(i, u)' + 0
        BY <2>1 DEF Taken, Current
      <4>2. \A u : SoldBy(i, u)' \in Nat
        BY <1>0, <2>3
      <4>3. QED
        BY <4>1, <4>2
    <3>3. QED
      BY <2>3, <3>1, <3>2
  <2>5. QED
    BY <2>1, <2>2, <2>4 DEF Afford
<1>5. CASE RowFails(i)
  <2>1. /\ imp'[i].pc = "row" /\ imp'[i].file = imp[i].file
        /\ imp'[i].claimed = imp[i].claimed /\ imp'[i].made = imp[i].made
    BY <1>5, RowFailedLocals DEF RowFails
  <2>2. QED
    BY <1>5, <1>c, <2>1 DEF RowFails, database
<1>6. CASE BatchCommit(i)
  <2>1. imp'[i].claimed = {} /\ imp'[i].pc = "next"
    BY <1>6, EndBatchLocals DEF BatchCommit
  <2>2. QED
    BY <1>b, <2>1
<1>7. CASE BatchFails(i)
  <2>1. imp'[i].claimed = {} /\ imp'[i].pc = "next"
    BY <1>7, EndBatchLocals DEF BatchFails
  <2>2. QED
    BY <1>b, <2>1
<1>8. QED
  BY <1>1, <1>2, <1>3, <1>4, <1>5, <1>6, <1>7
     DEF ImportStep, ImportStart, ImportDedupe, ImportCheckTypes, ImportNextBatch, ImportFinish,
         ImportFails, BatchSteps

\* A transaction sells no tickets of a type it has not claimed.
LEMMA UnclaimedUnsold ==
  ASSUME Typed, NEW i \in Imports, NEW t \in TicketTypes, t \notin imp[i].claimed
  PROVE  SoldBy(i, t) = 0
<1>1. \A n \in imp[i].made : TypeAt(i, n) \in imp[i].claimed \cup {NoType}
  BY DEF Typed, ImportsSound, Sound, Shape, TypeAt
<1>2. {n \in imp[i].made : TypeAt(i, n) = t} = {}
  BY <1>1, NoTypeAssumption
<1>3. QED
  BY <1>2, FS_EmptySet DEF SoldBy

\* The claims of an import outlast what changes neither them nor their types.
LEMMA AffordStays ==
  ASSUME NEW i \in Imports, Afford(i), imp'[i] = imp[i],
         \A t \in TicketTypes : ticketType'[t].capacity = ticketType[t].capacity,
         \A t \in imp[i].claimed : ticketType'[t].quantitySold = ticketType[t].quantitySold,
         imp[i].claimed \subseteq TicketTypes,
         imp[i].pc = "rowClaim" => CurrentType(i) \in TicketTypes
  PROVE  Afford(i)'
<1>1. CurrentType(i)' = CurrentType(i)
  BY DEF CurrentType, TypeAt
<1>2. \A t : SoldBy(i, t)' = SoldBy(i, t)
  BY DEF SoldBy, TypeAt
<1>3. \A t : Taken(i, t)' = Taken(i, t)
  BY <1>1, <1>2 DEF Taken, Current
<1>4. QED
  BY <1>1, <1>3 DEF Afford

LEMMA ClaimingTypes ==
  ASSUME Typed, NEW i \in Imports
  PROVE  /\ imp[i].claimed \subseteq TicketTypes
         /\ imp[i].pc = "rowClaim" => CurrentType(i) \in TicketTypes
<1>1. Sound(imp[i]) /\ imp[i].claimed \subseteq TicketTypes
  BY DEF Typed, TypeOK, ImportsSound, Import
<1>2. ASSUME imp[i].pc = "rowClaim"
      PROVE  CurrentType(i) \in TicketTypes
  <2>1. imp[i].row \in DOMAIN imp[i].file /\ CurrentType(i) # NoType
    BY <1>1, <1>2, SoundSets, FileRows DEF Sound, Shape, CurrentType, TypeAt
  <2>2. QED
    BY <1>1, <2>1, SoundSets, FileRows DEF Choices, CurrentType, TypeAt
<1>3. QED
  BY <1>1, <1>2

LEMMA ClaimsStep == Typed /\ Held /\ [Next]_vars /\ Claims => Claims'
<1> SUFFICES ASSUME Typed, Held, [Next]_vars, Claims PROVE Claims'
  OBVIOUS
<1>0. \A t \in TicketTypes : /\ ticketType[t] \in TicketTypeRow
                             /\ ticketType[t].quantitySold \in Nat
                             /\ ticketType[t].capacity \in Nat \cup {NoLimit}
  BY TypeRows DEF Typed, TypeOK
<1>1. Exclusive'
  BY ExclusiveStep DEF Claims
<1>2. SUFFICES ASSUME edits' = 0
               PROVE  TypeWithinCapacity' /\ \A i \in Imports : Afford(i)'
  BY <1>1, <1>2 DEF Claims
\* Rows of ticket types and locals of imports as they were.
<1>a. ASSUME edits = 0, UNCHANGED <<ticketType, imp>>
      PROVE  TypeWithinCapacity' /\ \A i \in Imports : Afford(i)'
  <2>1. TypeWithinCapacity'
    BY <1>a, <1>2 DEF Claims, TypeWithinCapacity
  <2>2. \A i \in Imports : Afford(i)'
    BY <1>a, ClaimingTypes, AffordStays DEF Claims
  <2>3. QED
    BY <2>1, <2>2
<1>3. ASSUME NEW p \in Requests, RegisterStep(p)
      PROVE  TypeWithinCapacity' /\ \A i \in Imports : Afford(i)'
  <2>0. edits = 0 /\ imp' = imp
    BY <1>2, <1>3, RequestFrame
  <2>1. CASE CreateRegistration(p)
    <3>1. \A t \in TicketTypes : /\ ticketType'[t].capacity = ticketType[t].capacity
                                 /\ ticketType'[t].quantitySold =
                                      IF t = req[p].type THEN ticketType[t].quantitySold + 1
                                                         ELSE ticketType[t].quantitySold
      BY <1>0, <2>1, NoTypeAssumption
         DEF CreateRegistration, Sold, Typed, TypeOK, TicketTypeRow, Request, Choices
    <3>2. /\ \A i \in Imports : req[p].type \notin imp[i].claimed
          /\ req[p].type # NoType =>
               Left(ticketType[req[p].type].quantitySold, ticketType[req[p].type].capacity)
      BY <2>1 DEF CreateRegistration, Held, Alone, Counted
    <3>3. TypeWithinCapacity'
      <4>1. ASSUME NEW t \in TicketTypes, ticketType[t].capacity # NoLimit
            PROVE  ticketType'[t].quantitySold <= ticketType[t].capacity
        BY <1>0, <2>0, <3>1, <3>2, <4>1, NoTypeAssumption DEF Claims, TypeWithinCapacity, Left
      <4>2. QED
        BY <3>1, <4>1 DEF TypeWithinCapacity
    <3>4. ASSUME NEW i \in Imports
          PROVE  Afford(i)'
      <4>1. imp[i].claimed \subseteq TicketTypes
            /\ (imp[i].pc = "rowClaim" => CurrentType(i) \in TicketTypes)
        BY ClaimingTypes
      <4>2. \A t \in imp[i].claimed : ticketType'[t].quantitySold = ticketType[t].quantitySold
        BY <3>1, <3>2, <4>1
      <4>3. QED
        BY <2>0, <3>1, <4>1, <4>2, AffordStays DEF Claims
    <3>5. QED
      BY <3>3, <3>4
  <2>2. CASE ~CreateRegistration(p)
    <3>1. ticketType' = ticketType
      BY <1>3, <2>2 DEF RegisterStep, FindEvent, CountSeats, ReadTicketType, FindDuplicate, LockEvent,
              ClaimTicketType, CreateCollides, Recheck, FindToken, MintToken, MarkIssued, Deliver,
              RequestFails, database
    <3>2. QED
      BY <1>a, <2>0, <3>1
  <2>3. QED
    BY <2>1, <2>2
<1>4. ASSUME NEW i \in Imports, ImportStep(i)
      PROVE  TypeWithinCapacity' /\ \A j \in Imports : Afford(j)'
  <2>0. edits = 0 /\ \A j \in Imports : j # i => imp'[j] = imp[j]
    BY <1>2, <1>4, ImportFrame
  <2>1. Afford(i)'
    BY <1>4, <2>0, AffordStep DEF Claims
  <2>2. CASE ticketType' = ticketType
    <3>1. TypeWithinCapacity'
      BY <1>2, <2>0, <2>2 DEF Claims, TypeWithinCapacity
    <3>2. \A j \in Imports : j # i => Afford(j)'
      BY <2>0, <2>2, ClaimingTypes, AffordStays DEF Claims
    <3>3. QED
      BY <2>1, <3>1, <3>2
  <2>3. CASE imp[i].pc = "row" /\ CommitRows(i)
    <3>1. \A t \in TicketTypes : /\ ticketType'[t].capacity = ticketType[t].capacity
                                 /\ ticketType'[t].quantitySold
                                      = ticketType[t].quantitySold + SoldBy(i, t)
                                 /\ SoldBy(i, t) \in Nat
      BY <1>0, <2>3, SoldByType DEF CommitRows, TicketTypeRow
    <3>2. \A t \in TicketTypes : t \notin imp[i].claimed
                                   => ticketType'[t].quantitySold = ticketType[t].quantitySold
      BY <1>0, <3>1, UnclaimedUnsold
    <3>3. TypeWithinCapacity'
      <4>1. ASSUME NEW t \in TicketTypes, ticketType[t].capacity # NoLimit
            PROVE  ticketType'[t].quantitySold <= ticketType[t].capacity
        <5>1. CASE t \in imp[i].claimed
          <6>1. ticketType[t].quantitySold + Taken(i, t) <= ticketType[t].capacity
            BY <2>0, <4>1, <5>1 DEF Claims, Afford
          <6>2. Taken(i, t) = SoldBy(i, t)
            BY <2>3, <3>1 DEF Taken, Current
          <6>3. QED
            BY <3>1, <6>1, <6>2
        <5>2. CASE t \notin imp[i].claimed
          BY <2>0, <3>2, <4>1, <5>2 DEF Claims, TypeWithinCapacity
        <5>3. QED
          BY <5>1, <5>2
      <4>2. QED
        BY <3>1, <4>1 DEF TypeWithinCapacity
    <3>4. ASSUME NEW j \in Imports, j # i
          PROVE  Afford(j)'
      <4>1. imp[j].claimed \subseteq TicketTypes
            /\ (imp[j].pc = "rowClaim" => CurrentType(j) \in TicketTypes)
        BY ClaimingTypes
      <4>2. \A t \in imp[j].claimed : ticketType'[t].quantitySold = ticketType[t].quantitySold
        BY <3>2, <3>4, <4>1 DEF Claims, Exclusive
      <4>3. QED
        BY <2>0, <3>1, <3>4, <4>1, <4>2, AffordStays DEF Claims
    <3>5. QED
      BY <2>1, <3>3, <3>4
  <2>4. QED
    BY <1>4, <2>2, <2>3, ImportFrame
<1>5. CASE UpdateTicketType
  <2>1. edits \in Nat /\ edits' = edits + 1
    BY <1>5 DEF UpdateTicketType, Typed, TypeOK
  <2>2. QED
    BY <1>2, <2>1
<1>6. CASE ServerCrash
  <2>1. \A i \in Imports : imp'[i].claimed = {} /\ imp'[i].pc # "rowClaim"
    BY <1>6 DEF ServerCrash, NewImport, Typed, ImportsSound, Sound, Shape, TypeOK, BatchSteps
  <2>2. UNCHANGED <<ticketType, edits>>
    BY <1>6 DEF ServerCrash, database
  <2>3. TypeWithinCapacity'
    BY <1>2, <2>2 DEF Claims, TypeWithinCapacity
  <2>4. QED
    BY <2>1, <2>3 DEF Afford
<1>7. CASE UNCHANGED vars
  BY <1>2, <1>7, <1>a DEF vars
<1>8. QED
  BY <1>3, <1>4, <1>5, <1>6, <1>7 DEF Next

\* While no organiser edits ticket types, imports and free registrations never
\* sell more tickets of a type than it has, whatever they read beforehand.
THEOREM WithinCapacity == Spec => []TypeWithinCapacity
<1>1. Init => Typed /\ Held /\ Claims
  BY TypedInit, HeldInit, ClaimsInit
<1>2. (Typed /\ Held /\ Claims) /\ [Next]_vars => (Typed /\ Held /\ Claims)'
  BY TypedStep, HeldStep, ClaimsStep
<1>3. Claims => TypeWithinCapacity
  BY DEF Claims, TypeWithinCapacity
<1>4. QED
  BY <1>1, <1>2, <1>3, PTL DEF Spec
----------------------------------------------------------------------------
(* Registration implements BoxOffice                                       *)

\* The seats and the offers, as the box office has them.
Booked == {e \in Emails : Registered(e)}
Bookings == [e \in Booked |-> registration[e].type]
OnOffer == [t \in TicketTypes |-> [active |-> ticketType[t].active, capacity |-> ticketType[t].capacity]]
Tickets == {e \in Emails : registration[e].qrIssued}

\* The box office counts as FiniteSets does.
LEMMA SameCount == \A S : Box!Cardinality(S) = Cardinality(S)
BY DEF Box!Cardinality, Cardinality

LEMMA SeatsAndHolders ==
  /\ DOMAIN Bookings = Booked
  /\ Seats = Cardinality(Booked) /\ Seats \in Nat
  /\ \A t \in TicketTypes : Box!HoldersOf(Bookings, t) = Holders(t)
<1>1. IsFiniteSet(Booked)
  BY EmailsAssumption, FS_Subset DEF Booked
<1>2. Seats = Cardinality(Booked) /\ Seats \in Nat
  BY <1>1, FS_CardinalityType DEF Seats, Booked
<1>3. \A t \in TicketTypes : Box!HoldersOf(Bookings, t) = Holders(t)
  BY DEF Box!HoldersOf, Bookings, Booked, Holders
<1>4. QED
  BY <1>2, <1>3 DEF Bookings

\* The variables of the box office, by these names.
LEMMA BoxIs ==
  /\ Box!box = <<Bookings, Tickets, capacity, OnOffer, edits # 0>>
  /\ Box!Seated = Booked
  /\ \A more : Box!With(more) = [a \in Booked \cup DOMAIN more |->
                                   IF a \in Booked THEN Bookings[a] ELSE more[a]]
BY DEF Box!box, Box!Seated, Box!With, Bookings, Booked, OnOffer, Tickets

LEMMA InitBox == Init => Box!Init
<1> SUFFICES ASSUME Init PROVE Box!Init
  OBVIOUS
<1>1. Booked = {} /\ Tickets = {}
  BY DEF Init, Booked, Registered, Tickets
<1>2. Bookings = [a \in {} |-> NoType]
  BY <1>1 DEF Bookings
<1>3. OnOffer \in [TicketTypes -> [active: BOOLEAN, capacity: EventCapacities \cup TypeCapacities]]
  <2>1. ASSUME NEW t \in TicketTypes
        PROVE  /\ ticketType[t].active \in BOOLEAN
               /\ ticketType[t].capacity \in EventCapacities \cup TypeCapacities
    <3>1. PICK c \in TypeCapacities :
            ticketType[t] = [active |-> TRUE, capacity |-> c, quantitySold |-> 0]
      BY DEF Init
    <3>2. QED
      BY <3>1
  <2>2. QED
    BY <2>1 DEF OnOffer
<1>4. capacity \in EventCapacities \cup TypeCapacities /\ (edits # 0) = FALSE
  BY DEF Init
<1>5. QED
  BY <1>1, <1>2, <1>3, <1>4 DEF Box!Init, Box!Offers, Bookings, Booked, OnOffer, Tickets

\* What the box office does not see.
LEMMA BoxStutters ==
  ASSUME UNCHANGED <<registration, ticketType, capacity, edits>>
  PROVE  UNCHANGED Box!box
<1>1. Booked' = Booked /\ Tickets' = Tickets /\ OnOffer' = OnOffer
  BY DEF Booked, Registered, Tickets, OnOffer
<1>2. Bookings' = Bookings
  BY <1>1 DEF Bookings
<1>3. QED
  BY <1>1, <1>2 DEF Box!box, Bookings, Booked, OnOffer, Tickets

\* The commit of a free registration books a seat that is there.
LEMMA CreateIsBook ==
  ASSUME Typed, Held, Issuing, SoldIsExact, NEW p \in Requests, CreateRegistration(p),
         NEW e, e = req[p].email, NEW t, t = req[p].type
  PROVE  Box!Book(e, t)
<1>0. /\ registration \in [Emails -> RegistrationRow] /\ e \in Emails /\ t \in Choices
      /\ capacity \in Nat \cup {NoLimit}
      /\ ticketType \in [TicketTypes -> TicketTypeRow]
  BY DEF Typed, TypeOK, Request
<1>1. e \notin Booked
  BY DEF CreateRegistration, Booked
<1>2. Box!Within(Cardinality(Booked) + 1, capacity)
  <2>1. Left(Seats, capacity)
    BY DEF CreateRegistration, Held, Counted, HoldsEvent
  <2>2. QED
    BY <1>0, <2>1, SeatsAndHolders DEF Left, Box!Within
<1>3. t # NoType => /\ OnOffer[t].active
                    /\ Box!Within(Cardinality(Box!HoldersOf(Bookings, t)) + 1, OnOffer[t].capacity)
  <2> SUFFICES ASSUME t # NoType
               PROVE  /\ OnOffer[t].active
                      /\ Box!Within(Cardinality(Box!HoldersOf(Bookings, t)) + 1, OnOffer[t].capacity)
    OBVIOUS
  <2>1. t \in TicketTypes
    BY <1>0 DEF Choices
  <2>2. ticketType[t].active /\ Left(ticketType[t].quantitySold, ticketType[t].capacity)
    BY DEF CreateRegistration, Held, Counted
  <2>3. /\ ticketType[t].quantitySold = Cardinality(Holders(t))
        /\ ticketType[t].quantitySold \in Nat /\ ticketType[t].capacity \in Nat \cup {NoLimit}
    BY <1>0, <2>1, TypeRows DEF SoldIsExact, Holders
  <2>4. OnOffer[t] = [active |-> ticketType[t].active, capacity |-> ticketType[t].capacity]
    BY <2>1 DEF OnOffer
  <2>5. Box!HoldersOf(Bookings, t) = Holders(t)
    BY <2>1, SeatsAndHolders
  <2>6. QED
    BY <2>2, <2>3, <2>4, <2>5 DEF Left, Box!Within
<1>4. /\ registration'[e] = [source |-> "PUBLIC_LINK", type |-> t, qrIssued |-> FALSE]
      /\ \A a \in Emails : a # e => registration'[a] = registration[a]
  BY <1>0 DEF CreateRegistration
<1>5. Booked' = Booked \cup {e}
  BY <1>0, <1>4 DEF Booked, Registered
<1>6. Bookings' = Box!With([x \in {e} |-> t])
  <2>1. Bookings' = [a \in Booked \cup {e} |-> registration'[a].type]
    BY <1>5 DEF Bookings
  <2>2. Box!With([x \in {e} |-> t]) =
          [a \in Booked \cup {e} |-> IF a \in Booked THEN Bookings[a] ELSE [x \in {e} |-> t][a]]
    BY BoxIs
  <2>3. ASSUME NEW a \in Booked \cup {e}
        PROVE  registration'[a].type = IF a \in Booked THEN Bookings[a] ELSE [x \in {e} |-> t][a]
    BY <1>1, <1>4 DEF Bookings, Booked
  <2>4. QED
    BY <2>1, <2>2, <2>3
<1>7. Tickets' = Tickets
  <2>1. ~registration[e].qrIssued /\ ~registration'[e].qrIssued
    BY <1>0, <1>4 DEF CreateRegistration, Issuing, IssuedRows
  <2>2. \A a \in Emails : a # e => registration'[a].qrIssued = registration[a].qrIssued
    BY <1>4
  <2>3. QED
    BY <1>0, <2>1, <2>2 DEF Tickets
<1>8. OnOffer' = OnOffer
  BY <1>0, NoTypeAssumption DEF OnOffer, CreateRegistration, Sold, TicketTypeRow
<1>9. capacity' = capacity /\ (edits # 0)' = (edits # 0)
  BY DEF CreateRegistration
<1>10. e \notin Box!Seated /\ Box!Within(Cardinality(Box!Seated) + 1, capacity)
  BY <1>1, <1>2, BoxIs
<1>11. QED
  BY <1>3, <1>6, <1>7, <1>8, <1>9, <1>10, SameCount, Zenon
     DEF Box!Book, Bookings, Booked, OnOffer, Tickets

\* Setting qr_issued hands over the ticket of a seat that is booked.
LEMMA MarkIsHandOver ==
  ASSUME Typed, Issuing, NEW p \in Requests, MarkIssued(p), NEW e, e = req[p].email
  PROVE  Box!HandOver(e)
<1>0. registration \in [Emails -> RegistrationRow] /\ e \in Emails
  BY DEF Typed, TypeOK, Request
<1>1. e \in Booked
  BY <1>0 DEF MarkIssued, Issuing, Behind, IssueSteps, Booked
<1>2. /\ registration'[e].source = registration[e].source
      /\ registration'[e].type = registration[e].type /\ registration'[e].qrIssued
      /\ \A a \in Emails : a # e => registration'[a] = registration[a]
  BY <1>0 DEF MarkIssued, RegistrationRow
<1>3. Booked' = Booked
  BY <1>0, <1>2 DEF Booked, Registered
<1>4. Bookings' = Bookings
  <2>1. \A a \in Booked : registration'[a].type = registration[a].type
    BY <1>2 DEF Booked
  <2>2. QED
    BY <1>3, <2>1 DEF Bookings
<1>5. Tickets' = Tickets \cup {e}
  BY <1>0, <1>2 DEF Tickets
<1>6. OnOffer' = OnOffer
  BY DEF OnOffer, MarkIssued
<1>7. QED
  BY <1>1, <1>4, <1>5, <1>6, BoxIs DEF Box!HandOver, MarkIssued, Bookings, Booked, OnOffer, Tickets

\* The commit of a batch books its rows, none of which has a seat, as a list.
LEMMA CommitIsBookList ==
  ASSUME Typed, Fresh, SoldIsExact', TypeWithinCapacity', NEW i \in Imports, CommitRows(i),
         ticketType' \in [TicketTypes -> TicketTypeRow], capacity' = capacity, edits' = edits,
         NEW S, S = Pending(i), NEW list, list = [e \in S |-> registration'[e].type]
  PROVE  /\ Box!BookList(list)
         /\ S \subseteq Emails /\ list \in [S -> Choices]
<1>0. /\ registration \in [Emails -> RegistrationRow] /\ S \subseteq Emails
      /\ ticketType \in [TicketTypes -> TicketTypeRow]
      /\ \A e \in S : Imported(i, e) \in RegistrationRow
  BY PendingType DEF Typed, TypeOK
<1>1. \A e \in S : e \notin Booked
  BY DEF Fresh, Pending, EmailAt, Booked
<1>2. /\ \A e \in S : registration'[e] = Imported(i, e)
      /\ \A e \in Emails : e \notin S => registration'[e] = registration[e]
  BY <1>0 DEF CommitRows
<1>3. \A e \in S : registration'[e].source # "none" /\ registration'[e].qrIssued
                     /\ registration'[e].type \in Choices
  BY <1>0, <1>2 DEF Imported, RegistrationRow
<1>4. Booked' = Booked \cup S /\ Tickets' = Tickets \cup S
  BY <1>0, <1>2, <1>3 DEF Booked, Registered, Tickets
<1>5. Bookings' = Box!With(list)
  <2>1. Bookings' = [a \in Booked \cup S |-> registration'[a].type]
    BY <1>4 DEF Bookings
  <2>2. Box!With(list) = [a \in Booked \cup S |-> IF a \in Booked THEN Bookings[a] ELSE list[a]]
    BY BoxIs
  <2>3. ASSUME NEW a \in Booked \cup S
        PROVE  registration'[a].type = IF a \in Booked THEN Bookings[a] ELSE list[a]
    BY <1>1, <1>2 DEF Bookings, Booked
  <2>4. QED
    BY <2>1, <2>2, <2>3
<1>6. OnOffer' = OnOffer
  <2>1. \A t \in TicketTypes : /\ ticketType'[t].active = ticketType[t].active
                               /\ ticketType'[t].capacity = ticketType[t].capacity
    BY <1>0 DEF CommitRows, TicketTypeRow
  <2>2. QED
    BY <2>1 DEF OnOffer
<1>7. edits # 0 \/ \A t \in TicketTypes :
        Box!Within(Cardinality(Box!HoldersOf(Bookings', t)), OnOffer[t].capacity)
  <2> SUFFICES ASSUME edits = 0, NEW t \in TicketTypes
               PROVE  Box!Within(Cardinality(Box!HoldersOf(Bookings', t)), OnOffer[t].capacity)
    OBVIOUS
  <2>1. Box!HoldersOf(Bookings', t) = Holders(t)'
    BY DEF Box!HoldersOf, Bookings, Booked, Holders
  <2>2. ticketType'[t].quantitySold = Cardinality(Holders(t)')
    BY DEF SoldIsExact, Holders
  <2>3. ticketType'[t].capacity = NoLimit \/ ticketType'[t].quantitySold <= ticketType'[t].capacity
    BY DEF TypeWithinCapacity
  <2>4. OnOffer[t].capacity = ticketType'[t].capacity
    BY <1>6 DEF OnOffer
  <2>5. QED
    BY <2>1, <2>2, <2>3, <2>4 DEF Box!Within
<1>8. DOMAIN list = S /\ list \in [S -> Choices]
  BY <1>3
<1>9. capacity' = capacity /\ (edits # 0)' = (edits # 0)
  OBVIOUS
<1>10. DOMAIN list \cap Box!Seated = {} /\ Tickets' = Tickets \cup DOMAIN list
  BY <1>1, <1>4, <1>8, BoxIs
<1>11. Box!BookList(list)
  BY <1>5, <1>6, <1>7, <1>9, <1>10, SameCount, Zenon
     DEF Box!BookList, Bookings, Booked, OnOffer, Tickets
<1>12. QED
  BY <1>0, <1>8, <1>11

LEMMA UpdateIsEditOffer ==
  ASSUME Typed, UpdateTicketType
  PROVE  \E t \in TicketTypes : \E o \in Box!Offers : Box!EditOffer(t, o)
<1>1. PICK t \in TicketTypes, a \in BOOLEAN, c \in TypeCapacities : UpdateTicketType!(t, a, c)
  BY Zenon DEF UpdateTicketType
<1> DEFINE o == [active |-> a, capacity |-> c]
<1>0. ticketType \in [TicketTypes -> TicketTypeRow]
  BY DEF Typed, TypeOK
<1>2. o \in Box!Offers
  BY <1>1 DEF Box!Offers
<1>3. Booked' = Booked /\ Tickets' = Tickets
  BY <1>1 DEF Booked, Registered, Tickets
<1>4. Bookings' = Bookings
  BY <1>1, <1>3 DEF Bookings
<1>5. OnOffer' = [OnOffer EXCEPT ![t] = o]
  <2>1. /\ ticketType'[t].active = a /\ ticketType'[t].capacity = c
        /\ \A u \in TicketTypes : u # t => ticketType'[u] = ticketType[u]
    BY <1>0, <1>1 DEF TicketTypeRow
  <2>2. QED
    BY <2>1 DEF OnOffer
<1>6. c = NoLimit => OnOffer[t].capacity = NoLimit
  BY <1>1 DEF OnOffer
<1>7. (edits # 0)' = TRUE /\ capacity' = capacity
  BY <1>1 DEF Typed, TypeOK
<1>8. Box!EditOffer(t, o)
  BY <1>3, <1>4, <1>5, <1>6, <1>7, BoxIs DEF Box!EditOffer, Bookings, Booked, OnOffer, Tickets
<1>9. QED
  BY <1>2, <1>8

\* What the steps below are taken from.
Served == Typed /\ Held /\ Issuing /\ Fresh /\ SoldIsExact /\ Claims

LEMMA AlwaysServed == Spec => []Served
<1>1. Init => Served
  BY TypedInit, HeldInit, IssuingInit, FreshInit, SoldInit, ClaimsInit DEF Served
<1>2. Served /\ [Next]_vars => Served'
  BY TypedStep, HeldStep, IssuingStep, FreshStep, SoldStep, ClaimsStep DEF Served
<1>3. QED
  BY <1>1, <1>2, PTL DEF Spec

LEMMA StepBox == Served /\ Served' /\ [Next]_vars => [Box!Next]_Box!box
<1> SUFFICES ASSUME Served, Served', [Next]_vars PROVE [Box!Next]_Box!box
  OBVIOUS
<1> USE DEF Served
<1>1. ASSUME NEW p \in Requests, CreateRegistration(p)
      PROVE  Box!Next
  <2>1. PICK e \in Emails, t \in TicketTypes \cup {NoType} : e = req[p].email /\ t = req[p].type
    BY DEF Typed, TypeOK, Request, Choices
  <2>2. Box!Book(e, t)
    BY <1>1, <2>1, CreateIsBook
  <2>3. QED
    BY <2>1, <2>2 DEF Box!Next
<1>2. ASSUME NEW p \in Requests, MarkIssued(p)
      PROVE  Box!Next
  <2>1. PICK e \in Emails : e = req[p].email
    BY DEF Typed, TypeOK, Request
  <2>2. Box!HandOver(e)
    BY <1>2, <2>1, MarkIsHandOver
  <2>3. QED
    BY <2>1, <2>2 DEF Box!Next
<1>3. ASSUME NEW p \in Requests, RegisterStep(p), ~CreateRegistration(p), ~MarkIssued(p)
      PROVE  UNCHANGED Box!box
  <2>1. UNCHANGED <<registration, ticketType, capacity, edits>>
    BY <1>3 DEF RegisterStep, FindEvent, CountSeats, ReadTicketType, FindDuplicate, LockEvent,
                ClaimTicketType, CreateCollides, Recheck, FindToken, MintToken, Deliver,
                RequestFails, database
  <2>2. QED
    BY <2>1, BoxStutters
<1>4. ASSUME NEW i \in Imports, ImportStep(i)
      PROVE  Box!Next \/ UNCHANGED Box!box
  <2>1. capacity' = capacity /\ edits' = edits
    BY <1>4, ImportFrame
  <2>2. CASE UNCHANGED <<ticketType, registration, qrToken>>
    BY <2>1, <2>2, BoxStutters
  <2>3. CASE CommitRows(i)
    <3>1. TypeWithinCapacity' /\ ticketType' \in [TicketTypes -> TicketTypeRow]
      BY DEF Claims, TypeWithinCapacity, Typed, TypeOK
    <3>2. PICK S, list : S = Pending(i) /\ list = [e \in S |-> registration'[e].type]
      OBVIOUS
    <3>3. /\ Box!BookList(list)
          /\ S \in SUBSET Emails /\ list \in [S -> TicketTypes \cup {NoType}]
      BY <2>1, <2>3, <3>1, <3>2, CommitIsBookList DEF Choices
    <3>4. QED
      BY <3>3 DEF Box!Next
  <2>4. QED
    BY <1>4, <2>2, <2>3, ImportFrame
<1>5. CASE UpdateTicketType
  BY <1>5, UpdateIsEditOffer DEF Box!Next
<1>6. CASE ServerCrash \/ UNCHANGED vars
  <2>1. UNCHANGED <<registration, ticketType, capacity, edits>>
    BY <1>6 DEF ServerCrash, vars, database
  <2>2. QED
    BY <2>1, BoxStutters
<1>7. QED
  BY <1>1, <1>2, <1>3, <1>4, <1>5, <1>6 DEF Next

\* Registering implements the box office: whatever is interleaved, retried,
\* rolled back or lost in a crash, a guest is held to the room and the offer of
\* the moment, a list to the capacities nobody has edited, a seat and a ticket
\* once given stay, and nobody is ticketed without a seat.
THEOREM RegistrationImplementsBoxOffice == Spec => ImplementsBoxOffice
BY InitBox, StepBox, AlwaysServed, PTL DEF Spec, ImplementsBoxOffice, Box!Spec
================================================================================
