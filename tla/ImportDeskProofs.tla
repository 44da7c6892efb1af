--------------------------- MODULE ImportDeskProofs ---------------------------
(***************************************************************************)
(* What ImportDesk promises about row numbers, counts and mails, for any   *)
(* files, any limit and any number of uploads.                             *)
(***************************************************************************)
EXTENDS ImportDesk, FiniteSetTheorems, SequenceTheorems, WellFoundedInduction, TLAPS

----------------------------------------------------------------------------
(* Induction on numbers, for recursive functions over 0 .. n               *)

LEMMA Induction ==
  ASSUME NEW S, 0 \in S, \A n \in Nat : n \in S => n + 1 \in S
  PROVE  Nat \subseteq S
<1> DEFINE R == StrictSubsetOrdering(Nat)
           Bad == {1 .. n : n \in Nat \ S}
<1>1. SUFFICES ASSUME NEW n \in Nat, n \notin S PROVE FALSE
  OBVIOUS
<1>2. PICK U \in Bad : \A V \in Bad : <<V, U>> \notin R
  <2> HIDE DEF R
  <2>1. IsWellFoundedOn(R, FiniteSubsetsOf(Nat))
    BY FS_StrictSubsetOrderingWellFounded DEF R
  <2>2. Bad \subseteq FiniteSubsetsOf(Nat) /\ Bad # {}
    <3>1. \A k \in Nat : IsFiniteSet(1 .. k) /\ 1 .. k \subseteq Nat
      BY FS_Interval
    <3>2. QED
      BY <1>1, <3>1 DEF FiniteSubsetsOf
  <2> HIDE DEF Bad
  <2>3. QED
    BY <2>1, <2>2, WFMin
<1>3. PICK x \in Nat \ S : U = 1 .. x
  BY <1>2
<1>4. x # 0 /\ x - 1 \in Nat /\ (x - 1) + 1 = x /\ x \in 1 .. x /\ x \notin 1 .. x - 1 /\ 1 .. x - 1 \subseteq 1 .. x
  BY <1>3
<1>5. x - 1 \notin S
  BY <1>3, <1>4
<1>6. <<1 .. x - 1, U>> \in R
  BY <1>3, <1>4 DEF StrictSubsetOrdering
<1>7. QED
  BY <1>2, <1>4, <1>5, <1>6

----------------------------------------------------------------------------
(* Rows in their order                                                     *)

\* The steps of InOrder.
Steps(S, n, up) == up = [k \in 0 .. n |-> IF k = 0 THEN <<>> ELSE IF k \in S THEN Append(up[k - 1], k) ELSE up[k - 1]]

LEMMA StepsThere ==
  ASSUME NEW S, NEW n \in Nat
  PROVE  \E up : Steps(S, n, up)
<1> DEFINE Good == {m \in Nat : \E up : Steps(S, m, up)}
<1>1. 0 \in Good
  <2> DEFINE up == [k \in 0 .. 0 |-> <<>>]
  <2>1. up = [k \in 0 .. 0 |-> IF k = 0 THEN <<>> ELSE IF k \in S THEN Append(up[k - 1], k) ELSE up[k - 1]]
    OBVIOUS
  <2>2. QED
    BY <2>1 DEF Steps
<1>2. ASSUME NEW m \in Nat, m \in Good PROVE m + 1 \in Good
  <2>1. PICK up : Steps(S, m, up)
    BY <1>2
  <2> DEFINE more == [k \in 0 .. m + 1 |-> IF k <= m THEN up[k]
                        ELSE IF k \in S THEN Append(up[m], k) ELSE up[m]]
         rhs == [k \in 0 .. m + 1 |-> IF k = 0 THEN <<>> ELSE IF k \in S THEN Append(more[k - 1], k) ELSE more[k - 1]]
  <2>2. more = rhs
    <3>1. ASSUME NEW k \in 0 .. m + 1
          PROVE  more[k] = IF k = 0 THEN <<>> ELSE IF k \in S THEN Append(more[k - 1], k) ELSE more[k - 1]
      <4>1. CASE k <= m
        <5>1. k \in 0 .. m /\ (k # 0 => k - 1 \in 0 .. m /\ more[k - 1] = up[k - 1]) /\ more[k] = up[k]
          BY <4>1
        <5>2. up[k] = IF k = 0 THEN <<>> ELSE IF k \in S THEN Append(up[k - 1], k) ELSE up[k - 1]
          BY <2>1, <5>1 DEF Steps
        <5>3. QED
          BY <5>1, <5>2
      <4>2. CASE ~(k <= m)
        <5>1. k = m + 1 /\ k - 1 = m /\ k # 0 /\ m \in 0 .. m + 1 /\ m <= m
          BY <4>2
        <5>2. more[m] = up[m]
          BY <5>1
        <5>3. more[k] = IF k \in S THEN Append(up[m], k) ELSE up[m]
          BY <4>2
        <5>4. QED
          BY <5>1, <5>2, <5>3
      <4>3. QED
        BY <4>1, <4>2
    <3>2. \A k \in 0 .. m + 1 : more[k] = rhs[k]
      BY <3>1
    <3>3. DOMAIN more = 0 .. m + 1 /\ DOMAIN rhs = 0 .. m + 1 
      OBVIOUS
    <3>4. more = [k \in 0 .. m + 1 |-> more[k]] /\ rhs = [k \in 0 .. m + 1 |-> rhs[k]]
      OBVIOUS
    <3> HIDE DEF more, rhs
    <3>5. QED
      BY <3>2, <3>4
  <2>3. Steps(S, m + 1, more)
    <3> HIDE DEF more
    <3>1. QED
      BY <2>2 DEF Steps
  <2>4. QED
    BY <2>3
<1>3. Nat \subseteq Good
  <2> HIDE DEF Good
  <2>1. QED
    BY <1>1, <1>2, Induction
<1>4. QED
  BY <1>3
LEMMA StepsGrow ==
  ASSUME NEW S, NEW n \in Nat, NEW up, Steps(S, n, up), NEW h \in 0 .. n
  PROVE  up[h] \in Seq(S \cap 1 .. h) /\ IsInjective(up[h])
<1> DEFINE Good == {k \in Nat : k <= n => up[k] \in Seq(S \cap 1 .. k) /\ IsInjective(up[k])}
<1>1. 0 \in Good
  <2>1. up[0] = <<>>
    BY DEF Steps
  <2>2. <<>> \in Seq(S \cap 1 .. 0) /\ IsInjective(<<>>)
    BY EmptySeq DEF IsInjective
  <2>3. QED
    BY <2>1, <2>2
<1>2. ASSUME NEW k \in Nat, k \in Good PROVE k + 1 \in Good
  <2> SUFFICES ASSUME k + 1 <= n PROVE up[k + 1] \in Seq(S \cap 1 .. k + 1) /\ IsInjective(up[k + 1])
    OBVIOUS
  <2>1. up[k + 1] = IF k + 1 \in S THEN Append(up[k], k + 1) ELSE up[k]
    <3>1. k + 1 \in 0 .. n /\ k + 1 # 0 /\ (k + 1) - 1 = k
      OBVIOUS
    <3>2. \A g \in 0 .. n : up[g] = IF g = 0 THEN <<>> ELSE IF g \in S THEN Append(up[g - 1], g) ELSE up[g - 1]
      BY DEF Steps
    <3>3. QED
      BY <3>1, <3>2
  <2>2. up[k] \in Seq(S \cap 1 .. k) /\ IsInjective(up[k])
    BY <1>2
  <2>3. up[k] \in Seq(S \cap 1 .. k + 1)
    <3>1. S \cap 1 .. k \subseteq S \cap 1 .. k + 1
      OBVIOUS
    <3>2. QED
      BY <2>2, <3>1, SeqMonotonic
  <2>4. CASE k + 1 \in S
    <3>1. k + 1 \in S \cap 1 .. k + 1
      BY <2>4
    <3> DEFINE s == up[k]
               t == Append(s, k + 1)
    <3>2. /\ t \in Seq(S \cap 1 .. k + 1) /\ Len(s) \in Nat /\ Len(t) = Len(s) + 1
          /\ t[Len(s) + 1] = k + 1 /\ \A i \in 1 .. Len(s) : t[i] = s[i]
      BY <2>3, <3>1, AppendProperties
    <3>3. \A i \in 1 .. Len(s) : s[i] \in 1 .. k
      BY <2>2, ElementOfSeq
    <3>4. IsInjective(t)
      <4>0. DOMAIN t = 1 .. Len(s) + 1 /\ DOMAIN s = 1 .. Len(s)
        BY <2>3, <3>2, LenProperties
      <4>5. \A i, j \in 1 .. Len(s) : s[i] = s[j] => i = j
        BY <2>2, <4>0 DEF IsInjective
      <4> SUFFICES ASSUME NEW i \in 1 .. Len(s) + 1, NEW j \in 1 .. Len(s) + 1, t[i] = t[j] PROVE i = j
        BY <4>0 DEF IsInjective
      <4> HIDE DEF s, t
      <4>1. CASE i <= Len(s) /\ j <= Len(s)
        <5>1. t[i] = s[i] /\ t[j] = s[j]
          BY <3>2, <4>1
        <5>2. s[i] = s[j]
          BY <5>1
        <5>3. i \in 1 .. Len(s) /\ j \in 1 .. Len(s)
          BY <3>2, <4>1
        <5>4. QED
          BY <4>5, <5>2, <5>3, Zenon
      <4>2. CASE i <= Len(s) /\ j = Len(s) + 1
        <5>1. t[i] \in 1 .. k /\ t[j] = k + 1
          BY <3>2, <3>3, <4>2
        <5>2. QED
          BY <5>1
      <4>3. CASE i = Len(s) + 1 /\ j <= Len(s)
        <5>1. t[j] \in 1 .. k /\ t[i] = k + 1
          BY <3>2, <3>3, <4>3
        <5>2. QED
          BY <5>1
      <4>4. QED
        BY <3>2, <4>1, <4>2, <4>3
    <3>5. up[k + 1] = t
      BY <2>1, <2>4
    <3>6. QED
      BY <3>2, <3>4, <3>5
  <2>5. CASE k + 1 \notin S
    BY <2>1, <2>2, <2>3, <2>5
  <2>6. QED
    BY <2>4, <2>5
<1>3. Nat \subseteq Good
  <2> HIDE DEF Good
  <2>1. QED
    BY <1>1, <1>2, Induction
<1>4. up[h] \in Seq(S \cap 1 .. h) /\ IsInjective(up[h])
  <2>1. h \in Good /\ h <= n
    <3> HIDE DEF Good
    <3>1. QED
      BY <1>3
  <2>2. QED
    BY <2>1
<1>5. QED
  BY <1>4

LEMMA InOrderSteps ==
  ASSUME NEW S, NEW n \in Nat
  PROVE  \E up : Steps(S, n, up) /\ InOrder(S, n) = up[n]
<1>1. PICK up : Steps(S, n, up)
  BY StepsThere
<1> DEFINE upTo == CHOOSE f : f = [k \in 0 .. n |-> IF k = 0 THEN <<>>
                                     ELSE IF k \in S THEN Append(f[k - 1], k) ELSE f[k - 1]]
<1>2. Steps(S, n, upTo)
  <2>1. \E f : f = [k \in 0 .. n |-> IF k = 0 THEN <<>> ELSE IF k \in S THEN Append(f[k - 1], k) ELSE f[k - 1]]
    BY <1>1 DEF Steps
  <2>2. upTo = [k \in 0 .. n |-> IF k = 0 THEN <<>> ELSE IF k \in S THEN Append(upTo[k - 1], k) ELSE upTo[k - 1]]
    BY <2>1
  <2> HIDE DEF upTo
  <2>3. QED
    BY <2>2 DEF Steps
<1>3. InOrder(S, n) = upTo[n]
  BY DEF InOrder
<1>4. QED
  BY <1>2, <1>3

LEMMA InOrderThere ==
  ASSUME NEW S, NEW n \in Nat
  PROVE  InOrder(S, n) \in Seq(S \cap 1 .. n) /\ IsInjective(InOrder(S, n))
<1>1. PICK up : Steps(S, n, up) /\ InOrder(S, n) = up[n]
  BY InOrderSteps
<1>2. n \in 0 .. n
  OBVIOUS
<1>3. up[n] \in Seq(S \cap 1 .. n) /\ IsInjective(up[n])
  BY <1>1, <1>2, StepsGrow
<1>4. QED
  BY <1>1, <1>3

\* Places of a sequence make a sequence.
LEMMA AtThere ==
  ASSUME NEW A, NEW s \in Seq(A), NEW S, S \subseteq DOMAIN s
  PROVE  At(s, S) \in Seq(A)
<1> DEFINE kept == InOrder(S, Len(s))
<1>1. Len(s) \in Nat /\ \A i \in 1 .. Len(s) : s[i] \in A
  BY LenProperties, ElementOfSeq
<1>2. kept \in Seq(S \cap 1 .. Len(s))
  BY <1>1, InOrderThere
<1>3. Len(kept) \in Nat /\ DOMAIN kept = 1 .. Len(kept) /\ \A j \in 1 .. Len(kept) : kept[j] \in 1 .. Len(s)
  BY <1>2, LenProperties, ElementOfSeq
<1> HIDE DEF kept
<1>4. \A j \in 1 .. Len(kept) : s[kept[j]] \in A
  BY <1>1, <1>3
<1>5. [j \in 1 .. Len(kept) |-> s[kept[j]]] \in Seq(A)
  BY <1>3, <1>4, IsASeq
<1>6. QED
  BY <1>3, <1>5 DEF At, kept

LEMMA NotBlankThere ==
  ASSUME NEW A, NEW s \in Seq(A)
  PROVE  NotBlank(s) \in Seq(A)
BY AtThere DEF NotBlank

----------------------------------------------------------------------------
(* Rows and errors with their numbers                                      *)

Reasons == {"EMPTY", "NO_ROWS", "NO_HEADER", "NO_WORKSHEETS", "ROW_LIMIT_EXCEEDED", "CSV_PARSE_FAILED",
            "XLSX_PARSE_FAILED", "PDF_PARSE_FAILED", "DOCX_PARSE_FAILED"}

Tidy(f, V) ==
  /\ f.rows \in Seq([sourceRow : Nat, value : V])
  /\ f.errors \in Seq([row : Nat, why : Reasons])
Neat(f) == \E V : Tidy(f, V)

\* No number is used for two rows, nor for two errors.
Apart(f) ==
  /\ \A j, k \in DOMAIN f.rows : f.rows[j].sourceRow = f.rows[k].sourceRow => j = k
  /\ \A j, k \in DOMAIN f.errors : f.errors[j].row = f.errors[k].row => j = k

\* No number is used twice.
Numbered(f) ==
  /\ Apart(f)
  /\ \A j \in DOMAIN f.rows, k \in DOMAIN f.errors : f.rows[j].sourceRow # f.errors[k].row

LEMMA EmptyThere == Neat(Found(<<>>, <<>>)) /\ Numbered(Found(<<>>, <<>>))
<1>1. Tidy(Found(<<>>, <<>>), {})
  BY EmptySeq DEF Tidy, Found
<1>2. Numbered(Found(<<>>, <<>>))
  BY DEF Numbered, Apart, Found
<1>3. QED
  BY <1>1, <1>2 DEF Neat

LEMMA FailedThere ==
  ASSUME NEW why \in Reasons
  PROVE  Neat(Failed(why)) /\ Numbered(Failed(why))
<1> DEFINE e == [row |-> 0, why |-> why]
<1>1. e \in [row : Nat, why : Reasons]
  OBVIOUS
<1>2. Failed(why).rows = <<>> /\ Failed(why).errors = <<e>>
  BY DEF Failed, Found
<1> HIDE DEF e
<1>3. <<e>> \in Seq([row : Nat, why : Reasons]) /\ DOMAIN <<e>> = {1} /\ DOMAIN <<>> = {}
  BY <1>1
<1>4. Tidy(Failed(why), {})
  BY <1>2, <1>3, EmptySeq DEF Tidy
<1>5. Numbered(Failed(why))
  BY <1>2, <1>3 DEF Numbered, Apart
<1>6. QED
  BY <1>4, <1>5 DEF Neat

\* What is sorted out comes from places of its own.
LEMMA SortThere ==
  ASSUME NEW V, NEW values \in Seq(V), NEW needed, NEW rowBase \in Nat, NEW errorBase \in Nat
  PROVE  /\ Neat(Sort(values, needed, rowBase, errorBase)) /\ Apart(Sort(values, needed, rowBase, errorBase))
         /\ rowBase = errorBase => Numbered(Sort(values, needed, rowBase, errorBase))
<1> DEFINE n == Len(values)
           fits == {k \in DOMAIN values : \E f \in needed : values[k][f] # ""}
           rest == DOMAIN values \ fits
           good == InOrder(fits, n)
           bad == InOrder(rest, n)
           rows == [j \in DOMAIN good |-> [sourceRow |-> RowNumber(rowBase, good[j], j), value |-> values[good[j]]]]
           errors == [j \in DOMAIN bad |-> [row |-> errorBase + bad[j], why |-> "EMPTY"]]
           result == Sort(values, needed, rowBase, errorBase)
<1>1. n \in Nat /\ DOMAIN values = 1 .. n /\ \A k \in 1 .. n : values[k] \in V
  BY LenProperties, ElementOfSeq
<1>2. result.rows = rows /\ result.errors = errors
  BY DEF Sort, Found
<1>3. fits \subseteq 1 .. n /\ rest \subseteq 1 .. n /\ fits \cap rest = {}
  BY <1>1
<1> HIDE DEF fits, rest, n, result
<1>4. /\ good \in Seq(fits \cap 1 .. n) /\ IsInjective(good)
      /\ bad \in Seq(rest \cap 1 .. n) /\ IsInjective(bad)
  BY <1>1, InOrderThere
<1> HIDE DEF good, bad
<1>5. /\ Len(good) \in Nat /\ DOMAIN good = 1 .. Len(good)
      /\ \A j \in DOMAIN good : good[j] \in fits /\ good[j] \in 1 .. n
      /\ Len(bad) \in Nat /\ DOMAIN bad = 1 .. Len(bad)
      /\ \A j \in DOMAIN bad : bad[j] \in rest /\ bad[j] \in 1 .. n
  BY <1>4, LenProperties, ElementOfSeq
<1>6. rows \in Seq([sourceRow : Nat, value : V])
  <2>1. \A j \in 1 .. Len(good) :
          [sourceRow |-> RowNumber(rowBase, good[j], j), value |-> values[good[j]]] \in [sourceRow : Nat, value : V]
    BY <1>1, <1>5 DEF RowNumber
  <2>2. [j \in 1 .. Len(good) |-> [sourceRow |-> RowNumber(rowBase, good[j], j), value |-> values[good[j]]]]
          \in Seq([sourceRow : Nat, value : V])
    BY <1>5, <2>1, IsASeq
  <2>3. QED
    BY <1>5, <2>2
<1>7. errors \in Seq([row : Nat, why : Reasons])
  <2>1. \A j \in 1 .. Len(bad) : [row |-> errorBase + bad[j], why |-> "EMPTY"] \in [row : Nat, why : Reasons]
    <3>1. ASSUME NEW j \in 1 .. Len(bad)
          PROVE  [row |-> errorBase + bad[j], why |-> "EMPTY"] \in [row : Nat, why : Reasons]
      <4>1. bad[j] \in 1 .. n
        BY <1>5
      <4>2. bad[j] \in Nat
        BY <1>1, <4>1
      <4>3. errorBase + bad[j] \in Nat /\ "EMPTY" \in Reasons
        BY <4>2 DEF Reasons
      <4>4. QED
        BY <4>3
    <3>2. QED
      BY <3>1
  <2>2. [j \in 1 .. Len(bad) |-> [row |-> errorBase + bad[j], why |-> "EMPTY"]] \in Seq([row : Nat, why : Reasons])
    BY <1>5, <2>1, IsASeq
  <2>3. QED
    BY <1>5, <2>2
<1>8. Neat(result)
  BY <1>2, <1>6, <1>7 DEF Neat, Tidy
<1>9. Apart(result) /\ (rowBase = errorBase => Numbered(result))
  <2>1. /\ DOMAIN rows = DOMAIN good /\ DOMAIN errors = DOMAIN bad
        /\ \A j \in DOMAIN good : rows[j].sourceRow = rowBase + good[j]
        /\ \A j \in DOMAIN bad : errors[j].row = errorBase + bad[j]
    BY DEF RowNumber
  <2> HIDE DEF rows, errors
  <2>2. ASSUME NEW j \in DOMAIN rows, NEW k \in DOMAIN rows, rows[j].sourceRow = rows[k].sourceRow PROVE j = k
    <3>1. good[j] = good[k]
      BY <1>5, <2>1, <2>2
    <3>2. QED
      BY <1>4, <2>1, <3>1 DEF IsInjective
  <2>3. ASSUME NEW j \in DOMAIN errors, NEW k \in DOMAIN errors, errors[j].row = errors[k].row PROVE j = k
    <3>1. bad[j] = bad[k]
      BY <1>5, <2>1, <2>3
    <3>2. QED
      BY <1>4, <2>1, <3>1 DEF IsInjective
  <2>4. ASSUME rowBase = errorBase, NEW j \in DOMAIN rows, NEW k \in DOMAIN errors PROVE rows[j].sourceRow # errors[k].row
    <3>1. good[j] # bad[k]
      BY <1>3, <1>5, <2>1
    <3>2. QED
      BY <1>5, <2>1, <2>4, <3>1
  <2>5. QED
    BY <1>2, <2>2, <2>3, <2>4 DEF Numbered, Apart
<1>10. QED
  BY <1>8, <1>9 DEF result

----------------------------------------------------------------------------
(* The parsers                                                             *)

LEMMA ListThere ==
  ASSUME NEW n \in Nat, NEW g, g = [k \in 1 .. n |-> g[k]]
  PROVE  \E V : g \in Seq(V)
<1> DEFINE V == {g[k] : k \in 1 .. n}
<1>1. \A k \in 1 .. n : g[k] \in V
  OBVIOUS
<1> HIDE DEF V
<1>2. [k \in 1 .. n |-> g[k]] \in Seq(V)
  BY <1>1, IsASeq
<1>3. QED
  BY <1>2

LEMMA ColumnsThere ==
  ASSUME NEW D, NEW data \in Seq(D), NEW map
  PROVE  \E V : Columns(map, data) \in Seq(V)
<1> DEFINE g == Columns(map, data)
<1>1. Len(data) \in Nat /\ DOMAIN data = 1 .. Len(data)
  BY LenProperties
<1>2. g = [k \in 1 .. Len(data) |-> g[k]]
  BY <1>1 DEF Columns
<1> HIDE DEF g
<1>3. \E V : g \in Seq(V)
  BY <1>1, <1>2, ListThere
<1>4. QED
  BY <1>3 DEF g

LEMMA TailThere ==
  ASSUME NEW D, NEW s \in Seq(D), s # <<>>
  PROVE  Tail(s) \in Seq(D)
BY HeadTailProperties

LEMMA CsvThere ==
  ASSUME NEW f, NEW D, f.readable => Head(f.tables) \in Seq(D)
  PROVE  Neat(ParseCsv(f)) /\ Numbered(ParseCsv(f))
<1> DEFINE sheet == NotBlank(Head(f.tables))
           g == [k \in DOMAIN Tail(sheet) |-> NormalizeRow(Head(sheet), Tail(sheet)[k])]
<1>1. CASE ~f.readable
  BY <1>1, FailedThere DEF ParseCsv, Reasons
<1>2. CASE f.readable /\ sheet = <<>>
  BY <1>2, EmptyThere DEF ParseCsv
<1>3. CASE f.readable /\ sheet # <<>>
  <2>1. Tail(sheet) \in Seq(D)
    BY <1>3, NotBlankThere, TailThere
  <2>2. Len(Tail(sheet)) \in Nat /\ DOMAIN Tail(sheet) = 1 .. Len(Tail(sheet))
    BY <2>1, LenProperties
  <2>3. g = [k \in 1 .. Len(Tail(sheet)) |-> g[k]]
    BY <2>2
  <2>4. ParseCsv(f) = Sort(g, Named, 1, 1)
    BY <1>3 DEF ParseCsv
  <2> HIDE DEF g, sheet
  <2>5. PICK V : g \in Seq(V)
    BY <2>2, <2>3, ListThere
  <2>6. QED
    BY <2>4, <2>5, SortThere
<1>4. QED
  BY <1>1, <1>2, <1>3

LEMMA XlsxThere ==
  ASSUME NEW f, NEW D, f.tables # <<>> => Head(f.tables) \in Seq(D)
  PROVE  Neat(ParseXlsx(f)) /\ Apart(ParseXlsx(f))
<1> DEFINE sheet == NotBlank(Head(f.tables))
           colMap == [x \in Fields |-> SelectInSeq(Head(sheet), LAMBDA h : Names(h, x))]
<1>1. CASE ~f.readable
  BY <1>1, FailedThere DEF ParseXlsx, Reasons, Numbered
<1>2. CASE f.readable /\ f.tables = <<>>
  BY <1>2, FailedThere DEF ParseXlsx, Reasons, Numbered
<1>3. CASE f.readable /\ f.tables # <<>>
  <2>1. ParseXlsx(f) = IF sheet = <<>> THEN Found(<<>>, <<>>)
                       ELSE IF colMap.name = 0 /\ colMap.email = 0 THEN Failed("NO_HEADER")
                       ELSE Sort(Columns(colMap, Tail(sheet)), Named, 2, 1)
    BY <1>3 DEF ParseXlsx
  <2>2. sheet # <<>> => Tail(sheet) \in Seq(D)
    BY <1>3, NotBlankThere, TailThere
  <2> HIDE DEF sheet, colMap
  <2>3. ASSUME sheet # <<>> PROVE Neat(Sort(Columns(colMap, Tail(sheet)), Named, 2, 1)) /\ Apart(Sort(Columns(colMap, Tail(sheet)), Named, 2, 1))
    <3>1. PICK V : Columns(colMap, Tail(sheet)) \in Seq(V)
      BY <2>2, <2>3, ColumnsThere
    <3>2. QED
      BY <3>1, SortThere
  <2>4. /\ Neat(Found(<<>>, <<>>)) /\ Neat(Failed("NO_HEADER"))
        /\ Apart(Found(<<>>, <<>>)) /\ Apart(Failed("NO_HEADER"))
    BY EmptyThere, FailedThere DEF Reasons, Numbered
  <2>5. QED
    BY <2>1, <2>3, <2>4
<1>4. QED
  BY <1>1, <1>2, <1>3

LEMMA HtmlTableThere ==
  ASSUME NEW D, NEW table \in Seq(D), NEW rowOffset \in Nat
  PROVE  Neat(ExtractHtmlTableRows(table, rowOffset)) /\ Numbered(ExtractHtmlTableRows(table, rowOffset))
<1> DEFINE headerMap == [x \in Fields |-> LastColumn(Head(table), x)]
           found == ExtractHtmlTableRows(table, rowOffset)
           sorted == Sort(Columns(headerMap, Tail(table)), Named, rowOffset, rowOffset)
<1>1. \/ found \in {Failed("NO_ROWS"), Failed("NO_HEADER")}
      \/ table # <<>> /\ found = sorted
  <2>1. CASE table = <<>>
    BY <2>1 DEF ExtractHtmlTableRows
  <2>2. CASE table # <<>>
    <3>1. found = IF headerMap.name <= 1 /\ headerMap.email <= 1 THEN Failed("NO_HEADER") ELSE sorted
      BY <2>2 DEF ExtractHtmlTableRows
    <3> HIDE DEF found, headerMap, sorted
    <3>2. QED
      BY <2>2, <3>1
  <2>3. QED
    BY <2>1, <2>2
<1> HIDE DEF headerMap, found
<1>2. ASSUME table # <<>> PROVE Neat(sorted) /\ Numbered(sorted)
  <2>1. Tail(table) \in Seq(D)
    BY <1>2, TailThere
  <2>2. PICK V : Columns(headerMap, Tail(table)) \in Seq(V)
    BY <2>1, ColumnsThere
  <2>3. QED
    BY <2>2, SortThere
<1>3. QED
  BY <1>1, <1>2, FailedThere DEF found, Reasons

LEMMA TableThere ==
  ASSUME NEW D, NEW table \in Seq(D)
  PROVE  Neat(ExtractTableRows(table)) /\ Numbered(ExtractTableRows(table))
<1> DEFINE headerMap == [x \in Fields |-> LastColumn(Head(table), x)]
           found == ExtractTableRows(table)
           sorted == Sort(Columns(headerMap, Tail(table)), Named, 2, 2)
<1>1. \/ found \in {Found(<<>>, <<>>), Failed("NO_HEADER")}
      \/ table # <<>> /\ found = sorted
  <2>1. CASE table = <<>>
    BY <2>1 DEF ExtractTableRows
  <2>2. CASE table # <<>>
    <3>1. found = IF headerMap.name = 0 /\ headerMap.email = 0 THEN Failed("NO_HEADER") ELSE sorted
      BY <2>2 DEF ExtractTableRows
    <3> HIDE DEF found, headerMap, sorted
    <3>2. QED
      BY <2>2, <3>1
  <2>3. QED
    BY <2>1, <2>2
<1> HIDE DEF headerMap, found
<1>2. ASSUME table # <<>> PROVE Neat(sorted) /\ Numbered(sorted)
  <2>1. Tail(table) \in Seq(D)
    BY <1>2, TailThere
  <2>2. PICK V : Columns(headerMap, Tail(table)) \in Seq(V)
    BY <2>1, ColumnsThere
  <2>3. QED
    BY <2>2, SortThere
<1>3. QED
  BY <1>1, <1>2, EmptyThere, FailedThere DEF found, Reasons

LEMMA ParagraphsThere ==
  ASSUME NEW D, NEW lines \in Seq(D)
  PROVE  Neat(ParseDocxParagraphs(lines)) /\ Numbered(ParseDocxParagraphs(lines))
<1> DEFINE g == [k \in DOMAIN lines |->
                   LET email == Cell(lines[k], SelectInSeq(lines[k], LAMBDA w : w \in Addresses))
                   IN  [name |-> Cell(lines[k], SelectInSeq(lines[k], LAMBDA w : w \notin {"", email})),
                        email |-> email, phone |-> "", ticketType |-> ""]]
<1>1. Len(lines) \in Nat /\ DOMAIN lines = 1 .. Len(lines)
  BY LenProperties
<1>2. g = [k \in 1 .. Len(lines) |-> g[k]]
  BY <1>1
<1>3. ParseDocxParagraphs(lines) = Sort(g, HasEmail, 0, 0)
  BY DEF ParseDocxParagraphs
<1> HIDE DEF g
<1>4. PICK V : g \in Seq(V)
  BY <1>1, <1>2, ListThere
<1>5. QED
  BY <1>3, <1>4, SortThere

LEMMA MinThere ==
  ASSUME NEW n \in Nat, NEW I, I \subseteq 1 .. n, I # {}
  PROVE  Min(I) \in I /\ \A i \in I : Min(I) <= i
<1> DEFINE Good == {k \in Nat : (\E i \in I : i <= k) => \E m \in I : \A j \in I : m <= j}
<1>1. 0 \in Good
  OBVIOUS
<1>2. ASSUME NEW k \in Nat, k \in Good PROVE k + 1 \in Good
  <2> SUFFICES ASSUME NEW i \in I, i <= k + 1, \A j \in I : ~(j <= k) PROVE \E m \in I : \A j \in I : m <= j
    BY <1>2
  <2>1. \A j \in I : j \in Nat
    OBVIOUS
  <2>2. \A j \in I : i <= j
    BY <2>1
  <2>3. QED
    BY <2>2
<1>3. n \in Good
  <2> HIDE DEF Good
  <2>1. QED
    BY <1>1, <1>2, Induction
<1>4. PICK m \in I : \A j \in I : m <= j
  <2>1. PICK i \in I : i \in 1 .. n
    OBVIOUS
  <2>2. QED
    BY <1>3, <2>1
<1>5. QED
  BY <1>4 DEF Min

LEMMA TextRowsThere ==
  ASSUME NEW D, NEW lines \in Seq(D)
  PROVE  Neat(ParseTextRows(lines)) /\ Numbered(ParseTextRows(lines))
<1> DEFINE text == NotBlank(lines)
           header == SelectInSeq(text, HeaderLine)
           rest == SubSeq(text, header + 1, Len(text))
           found == ParseDocxParagraphs(rest)
           rows == [j \in DOMAIN found.rows |-> [found.rows[j] EXCEPT !.sourceRow = @ + header]]
           errors == [j \in DOMAIN found.errors |-> [found.errors[j] EXCEPT !.row = @ + header]]
           result == ParseTextRows(lines)
<1>1. text \in Seq(D) /\ Len(text) \in Nat
  BY NotBlankThere, LenProperties
<1>2. result.rows = rows /\ result.errors = errors
  BY DEF ParseTextRows, Found
<1>3. header \in 0 .. Len(text)
  <2> DEFINE I == {i \in 1 .. Len(text) : HeaderLine(text[i])}
  <2>1. header = IF I # {} THEN Min(I) ELSE 0
    BY DEF SelectInSeq
  <2>2. I # {} => Min(I) \in I
    <3> HIDE DEF text
    <3>1. QED
      BY <1>1, MinThere
  <2>3. QED
    BY <1>1, <2>1, <2>2
<1> HIDE DEF text, header, result
<1>4. rest \in Seq(D)
  BY <1>1, <1>3, SubSeqProperties
<1> HIDE DEF rest
<1>5. Neat(found) /\ Numbered(found)
  BY <1>4, ParagraphsThere
<1> HIDE DEF found
<1>6. PICK V : Tidy(found, V)
  BY <1>5 DEF Neat
<1>7. /\ Len(found.rows) \in Nat /\ DOMAIN found.rows = 1 .. Len(found.rows)
      /\ \A j \in DOMAIN found.rows : found.rows[j] \in [sourceRow : Nat, value : V]
      /\ Len(found.errors) \in Nat /\ DOMAIN found.errors = 1 .. Len(found.errors)
      /\ \A j \in DOMAIN found.errors : found.errors[j] \in [row : Nat, why : Reasons]
  BY <1>6, LenProperties, ElementOfSeq DEF Tidy
<1>8. /\ DOMAIN rows = DOMAIN found.rows
      /\ \A j \in DOMAIN found.rows :
           /\ rows[j] \in [sourceRow : Nat, value : V]
           /\ rows[j].sourceRow = found.rows[j].sourceRow + header /\ found.rows[j].sourceRow \in Nat
  <2>1. ASSUME NEW j \in DOMAIN found.rows
        PROVE  /\ rows[j] \in [sourceRow : Nat, value : V]
               /\ rows[j].sourceRow = found.rows[j].sourceRow + header /\ found.rows[j].sourceRow \in Nat
    <3>1. found.rows[j] \in [sourceRow : Nat, value : V] /\ header \in Nat
      BY <1>1, <1>3, <1>7
    <3>2. found.rows[j].sourceRow \in Nat /\ found.rows[j].sourceRow + header \in Nat
      BY <3>1
    <3>3. rows[j] = [found.rows[j] EXCEPT !.sourceRow = @ + header]
      OBVIOUS
    <3> HIDE DEF rows
    <3>4. QED
      BY <3>1, <3>2, <3>3
  <2>2. QED
    BY <2>1
<1>9. /\ DOMAIN errors = DOMAIN found.errors
      /\ \A j \in DOMAIN found.errors :
           /\ errors[j] \in [row : Nat, why : Reasons]
           /\ errors[j].row = found.errors[j].row + header /\ found.errors[j].row \in Nat
  <2>1. ASSUME NEW j \in DOMAIN found.errors
        PROVE  /\ errors[j] \in [row : Nat, why : Reasons]
               /\ errors[j].row = found.errors[j].row + header /\ found.errors[j].row \in Nat
    <3>1. found.errors[j] \in [row : Nat, why : Reasons] /\ header \in Nat
      BY <1>1, <1>3, <1>7
    <3>2. found.errors[j].row \in Nat /\ found.errors[j].row + header \in Nat
      BY <3>1
    <3>3. errors[j] = [found.errors[j] EXCEPT !.row = @ + header]
      OBVIOUS
    <3> HIDE DEF errors
    <3>4. QED
      BY <3>1, <3>2, <3>3
  <2>2. QED
    BY <2>1
<1>10. Neat(result)
  <2>1. rows = [j \in 1 .. Len(found.rows) |-> rows[j]] /\ errors = [j \in 1 .. Len(found.errors) |-> errors[j]]
    BY <1>7
  <2> HIDE DEF rows, errors
  <2>2. [j \in 1 .. Len(found.rows) |-> rows[j]] \in Seq([sourceRow : Nat, value : V])
    BY <1>7, <1>8, IsASeq
  <2>3. [j \in 1 .. Len(found.errors) |-> errors[j]] \in Seq([row : Nat, why : Reasons])
    BY <1>7, <1>9, IsASeq
  <2>4. QED
    BY <1>2, <2>1, <2>2, <2>3 DEF Neat, Tidy
<1>11. Numbered(result)
  <2> HIDE DEF rows, errors
  <2>1. header \in Nat
    BY <1>1, <1>3
  <2>2. ASSUME NEW j \in DOMAIN rows, NEW k \in DOMAIN rows, rows[j].sourceRow = rows[k].sourceRow PROVE j = k
    BY <1>5, <1>8, <2>1, <2>2 DEF Numbered, Apart
  <2>3. ASSUME NEW j \in DOMAIN errors, NEW k \in DOMAIN errors, errors[j].row = errors[k].row PROVE j = k
    BY <1>5, <1>9, <2>1, <2>3 DEF Numbered, Apart
  <2>4. ASSUME NEW j \in DOMAIN rows, NEW k \in DOMAIN errors PROVE rows[j].sourceRow # errors[k].row
    BY <1>5, <1>8, <1>9, <2>1, <2>4 DEF Numbered, Apart
  <2>5. QED
    BY <1>2, <2>2, <2>3, <2>4 DEF Numbered, Apart
<1>12. QED
  BY <1>10, <1>11 DEF result

\* The steps of FlattenSeq.
Pieces(seqs, n, f) == f = [i \in 1 .. n |-> IF i = 1 THEN seqs[i] ELSE f[i - 1] \o seqs[i]]

LEMMA PiecesThere ==
  ASSUME NEW seqs, NEW n \in Nat
  PROVE  \E f : Pieces(seqs, n, f)
<1> DEFINE Good == {m \in Nat : \E f : Pieces(seqs, m, f)}
<1>1. 0 \in Good
  <2> DEFINE f == [i \in 1 .. 0 |-> <<>>]
  <2>1. f = [i \in 1 .. 0 |-> IF i = 1 THEN seqs[i] ELSE f[i - 1] \o seqs[i]]
    OBVIOUS
  <2>2. QED
    BY <2>1 DEF Pieces
<1>2. ASSUME NEW m \in Nat, m \in Good PROVE m + 1 \in Good
  <2>1. PICK f : Pieces(seqs, m, f)
    BY <1>2
  <2> DEFINE g == [i \in 1 .. m + 1 |-> IF i <= m THEN f[i] ELSE IF i = 1 THEN seqs[i] ELSE f[m] \o seqs[i]]
             rhs == [i \in 1 .. m + 1 |-> IF i = 1 THEN seqs[i] ELSE g[i - 1] \o seqs[i]]
  <2>2. g = rhs
    <3>1. ASSUME NEW i \in 1 .. m + 1
          PROVE  g[i] = IF i = 1 THEN seqs[i] ELSE g[i - 1] \o seqs[i]
      <4>1. CASE i <= m
        <5>1. i \in 1 .. m /\ (i # 1 => i - 1 \in 1 .. m /\ g[i - 1] = f[i - 1]) /\ g[i] = f[i]
          BY <4>1
        <5>2. f[i] = IF i = 1 THEN seqs[i] ELSE f[i - 1] \o seqs[i]
          BY <2>1, <5>1 DEF Pieces
        <5>3. QED
          BY <5>1, <5>2
      <4>2. CASE ~(i <= m)
        <5>1. i = m + 1 /\ i - 1 = m /\ (i # 1 => m \in 1 .. m + 1 /\ m <= m)
          BY <4>2
        <5>2. i # 1 => g[m] = f[m]
          BY <5>1
        <5>3. g[i] = IF i = 1 THEN seqs[i] ELSE f[m] \o seqs[i]
          BY <4>2
        <5>4. QED
          BY <5>1, <5>2, <5>3
      <4>3. QED
        BY <4>1, <4>2
    <3>2. \A i \in 1 .. m + 1 : g[i] = rhs[i]
      BY <3>1
    <3>3. g = [i \in 1 .. m + 1 |-> g[i]] /\ rhs = [i \in 1 .. m + 1 |-> rhs[i]]
      OBVIOUS
    <3> HIDE DEF g, rhs
    <3>4. QED
      BY <3>2, <3>3
  <2>3. Pieces(seqs, m + 1, g)
    <3> HIDE DEF g
    <3>1. QED
      BY <2>2 DEF Pieces
  <2>4. QED
    BY <2>3
<1>3. Nat \subseteq Good
  <2> HIDE DEF Good
  <2>1. QED
    BY <1>1, <1>2, Induction
<1>4. QED
  BY <1>3

LEMMA PiecesGrow ==
  ASSUME NEW A, NEW seqs \in Seq(Seq(A)), NEW f, Pieces(seqs, Len(seqs), f), NEW h \in 1 .. Len(seqs)
  PROVE  f[h] \in Seq(A)
<1> DEFINE n == Len(seqs)
           Good == {k \in Nat : k \in 1 .. n => f[k] \in Seq(A)}
<1>1. n \in Nat /\ \A k \in 1 .. n : seqs[k] \in Seq(A)
  BY LenProperties, ElementOfSeq
<1>2. \A k \in 1 .. n : f[k] = IF k = 1 THEN seqs[k] ELSE f[k - 1] \o seqs[k]
  BY DEF Pieces
<1>3. h \in 1 .. n
  OBVIOUS
<1> HIDE DEF n
<1>4. 0 \in Good
  OBVIOUS
<1>5. ASSUME NEW k \in Nat, k \in Good PROVE k + 1 \in Good
  <2> SUFFICES ASSUME k + 1 \in 1 .. n PROVE f[k + 1] \in Seq(A)
    OBVIOUS
  <2>1. seqs[k + 1] \in Seq(A)
    BY <1>1
  <2>2. CASE k = 0
    <3>1. f[k + 1] = seqs[k + 1]
      BY <1>2, <2>2
    <3>2. QED
      BY <2>1, <3>1
  <2>3. CASE k # 0
    <3>1. k \in 1 .. n /\ (k + 1) - 1 = k /\ k + 1 # 1
      BY <1>1, <2>3
    <3>2. f[k] \in Seq(A) /\ f[k + 1] = f[k] \o seqs[k + 1]
      BY <1>2, <1>5, <3>1
    <3>3. QED
      BY <2>1, <3>2, ConcatProperties
  <2>4. QED
    BY <2>2, <2>3
<1>6. h \in Good
  <2>1. h \in Nat
    BY <1>1, <1>3
  <2> HIDE DEF Good
  <2>2. QED
    BY <1>4, <1>5, <2>1, Induction
<1>7. QED
  BY <1>3, <1>6

LEMMA FlattenThere ==
  ASSUME NEW A, NEW seqs \in Seq(Seq(A))
  PROVE  /\ FlattenSeq(seqs) \in Seq(A)
         /\ Len(seqs) = 1 => FlattenSeq(seqs) = seqs[1]
         /\ Len(seqs) = 0 => FlattenSeq(seqs) = <<>>
<1>1. Len(seqs) \in Nat
  BY LenProperties
<1>2. CASE Len(seqs) = 0
  <2>1. seqs = <<>> /\ FlattenSeq(seqs) = seqs
    BY <1>2, EmptySeq DEF FlattenSeq
  <2>2. FlattenSeq(seqs) = <<>> /\ <<>> \in Seq(A)
    BY <2>1, EmptySeq
  <2>3. QED
    BY <1>2, <2>2
<1>3. CASE Len(seqs) # 0
  <2> DEFINE n == Len(seqs)
             flatten == CHOOSE f : f = [i \in 1 .. n |-> IF i = 1 THEN seqs[i] ELSE f[i - 1] \o seqs[i]]
  <2>1. Pieces(seqs, n, flatten)
    <3>1. \E f : f = [i \in 1 .. n |-> IF i = 1 THEN seqs[i] ELSE f[i - 1] \o seqs[i]]
      BY <1>1, PiecesThere DEF Pieces
    <3>2. flatten = [i \in 1 .. n |-> IF i = 1 THEN seqs[i] ELSE flatten[i - 1] \o seqs[i]]
      BY <3>1
    <3> HIDE DEF flatten
    <3>3. QED
      BY <3>2 DEF Pieces
  <2>2. FlattenSeq(seqs) = flatten[n]
    BY <1>3 DEF FlattenSeq
  <2>3. PICK f : f = flatten /\ Pieces(seqs, Len(seqs), f)
    BY <2>1
  <2>4. n \in 1 .. Len(seqs)
    BY <1>1, <1>3
  <2>5. f[n] \in Seq(A)
    BY <2>3, <2>4, PiecesGrow
  <2>6. n = 1 => f[n] = seqs[1]
    <3>1. \A i \in 1 .. n : f[i] = IF i = 1 THEN seqs[i] ELSE f[i - 1] \o seqs[i]
      BY <2>3 DEF Pieces
    <3>2. QED
      BY <2>4, <3>1
  <2> HIDE DEF flatten
  <2>7. FlattenSeq(seqs) = f[n]
    BY <2>2, <2>3
  <2>8. QED
    BY <1>3, <2>5, <2>6, <2>7
<1>4. QED
  BY <1>2, <1>3

\* Lists of rows and errors, each neat, put one after the other.
LEMMA ValuesTogether ==
  ASSUME NEW n \in Nat, NEW found, DOMAIN found = 1 .. n, \A k \in 1 .. n : Neat(found[k])
  PROVE  \E V : /\ [k \in 1 .. n |-> found[k].rows] \in Seq(Seq([sourceRow : Nat, value : V]))
                /\ [k \in 1 .. n |-> found[k].errors] \in Seq(Seq([row : Nat, why : Reasons]))
<1> DEFINE W(k) == CHOOSE V : Tidy(found[k], V)
           V == UNION {W(k) : k \in 1 .. n}
<1>1. ASSUME NEW k \in 1 .. n
      PROVE  /\ found[k].rows \in Seq([sourceRow : Nat, value : V])
             /\ found[k].errors \in Seq([row : Nat, why : Reasons])
  <2>1. Tidy(found[k], W(k))
    BY DEF Neat
  <2>2. W(k) \subseteq V
    OBVIOUS
  <2> HIDE DEF W, V
  <2>3. [sourceRow : Nat, value : W(k)] \subseteq [sourceRow : Nat, value : V]
    BY <2>2
  <2>4. found[k].rows \in Seq([sourceRow : Nat, value : W(k)]) /\ found[k].errors \in Seq([row : Nat, why : Reasons])
    BY <2>1 DEF Tidy
  <2>5. QED
    BY <2>3, <2>4, SeqMonotonic
<1> HIDE DEF V
<1> DEFINE R == Seq([sourceRow : Nat, value : V])
           E == Seq([row : Nat, why : Reasons])
<1>2. \A k \in 1 .. n : found[k].rows \in R /\ found[k].errors \in E
  BY <1>1
<1> HIDE DEF R, E
<1>3. [k \in 1 .. n |-> found[k].rows] \in Seq(R) /\ [k \in 1 .. n |-> found[k].errors] \in Seq(E)
  BY <1>2, IsASeq
<1>4. QED
  BY <1>3 DEF R, E

LEMMA PdfThere ==
  ASSUME NEW f, NEW D, f.tables \in Seq(Seq(D)), f.lines \in Seq(D)
  PROVE  /\ Neat(ParsePdf(f))
         /\ Len(f.tables) <= 1 => Numbered(ParsePdf(f))
<1> DEFINE n == Len(f.tables)
           found == [k \in DOMAIN f.tables |-> ExtractTableRows(f.tables[k])]
           rows == FlattenSeq([k \in DOMAIN found |-> found[k].rows])
           errors == FlattenSeq([k \in DOMAIN found |-> found[k].errors])
           tables == Found(rows, errors)
           result == ParsePdf(f)
<1>1. n \in Nat /\ DOMAIN f.tables = 1 .. n /\ \A k \in 1 .. n : f.tables[k] \in Seq(D)
  BY LenProperties, ElementOfSeq
<1>2. DOMAIN found = 1 .. n /\ \A k \in 1 .. n : Neat(found[k]) /\ Numbered(found[k])
  BY <1>1, TableThere
<1>3. \/ result = tables
      \/ result \in {Failed("PDF_PARSE_FAILED"), ParseTextRows(f.lines)}
  <2> DEFINE text == IF NotBlank(f.lines) = <<>> THEN Failed("PDF_PARSE_FAILED") ELSE ParseTextRows(f.lines)
  <2>1. result = CASE ~f.readable -> Failed("PDF_PARSE_FAILED")
                   [] f.readable /\ tables.rows # <<>> -> tables
                   [] OTHER -> text
    BY DEF ParsePdf, PdfTables
  <2>2. text \in {Failed("PDF_PARSE_FAILED"), ParseTextRows(f.lines)}
    OBVIOUS
  <2> HIDE DEF result, tables, text
  <2>3. CASE ~f.readable
    BY <2>1, <2>3
  <2>4. CASE f.readable /\ tables.rows # <<>>
    BY <2>1, <2>4
  <2>5. CASE f.readable /\ tables.rows = <<>>
    BY <2>1, <2>2, <2>5
  <2>6. QED
    BY <2>3, <2>4, <2>5
<1>4. Neat(Failed("PDF_PARSE_FAILED")) /\ Numbered(Failed("PDF_PARSE_FAILED"))
  BY FailedThere DEF Reasons
<1>5. Neat(ParseTextRows(f.lines)) /\ Numbered(ParseTextRows(f.lines))
  BY TextRowsThere
<1> DEFINE allRows == [k \in 1 .. n |-> found[k].rows]
           allErrors == [k \in 1 .. n |-> found[k].errors]
<1>6. rows = FlattenSeq(allRows) /\ errors = FlattenSeq(allErrors)
  BY <1>2
<1> HIDE DEF found, rows, errors, result, n
<1>7. PICK V : /\ allRows \in Seq(Seq([sourceRow : Nat, value : V]))
               /\ allErrors \in Seq(Seq([row : Nat, why : Reasons]))
  BY <1>1, <1>2, ValuesTogether
<1>8. /\ Len(allRows) = n /\ Len(allErrors) = n
      /\ 1 \in 1 .. n => allRows[1] = found[1].rows /\ allErrors[1] = found[1].errors
  BY <1>1
<1> HIDE DEF allRows, allErrors
<1>9. /\ rows \in Seq([sourceRow : Nat, value : V]) /\ errors \in Seq([row : Nat, why : Reasons])
      /\ n = 1 => rows = allRows[1] /\ errors = allErrors[1]
      /\ n = 0 => rows = <<>> /\ errors = <<>>
  BY <1>6, <1>7, <1>8, FlattenThere
<1>10. tables.rows = rows /\ tables.errors = errors
  BY DEF Found
<1> HIDE DEF tables
<1>11. Neat(tables)
  BY <1>9, <1>10 DEF Neat, Tidy
<1>12. ASSUME n <= 1 PROVE Numbered(tables)
  <2>1. CASE n = 0
    BY <1>9, <1>10, <2>1 DEF Numbered, Apart
  <2>2. CASE n = 1
    <3>1. Numbered(found[1]) /\ tables.rows = found[1].rows /\ tables.errors = found[1].errors
      BY <1>2, <1>8, <1>9, <1>10, <2>2
    <3>2. QED
      BY <3>1 DEF Numbered, Apart
  <2>3. QED
    BY <1>1, <1>12, <2>1, <2>2
<1>13. Neat(result) /\ (n <= 1 => Numbered(result))
  BY <1>3, <1>4, <1>5, <1>11, <1>12
<1>14. QED
  BY <1>13 DEF result, n

LEMMA JoinedThere ==
  ASSUME NEW a, NEW b, Neat(a), Neat(b)
  PROVE  /\ Neat(Joined(a, b))
         /\ Joined(Found(<<>>, <<>>), b) = Found(b.rows, b.errors)
<1>1. PICK V : Tidy(a, V)
  BY DEF Neat
<1>2. PICK W : Tidy(b, W)
  BY DEF Neat
<1> DEFINE U == V \cup W
           R == [sourceRow : Nat, value : U]
           E == [row : Nat, why : Reasons]
<1>3. [sourceRow : Nat, value : V] \subseteq R /\ [sourceRow : Nat, value : W] \subseteq R
  OBVIOUS
<1>4. a.rows \in Seq([sourceRow : Nat, value : V]) /\ b.rows \in Seq([sourceRow : Nat, value : W])
      /\ a.errors \in Seq(E) /\ b.errors \in Seq(E)
  BY <1>1, <1>2 DEF Tidy
<1> HIDE DEF U
<1> HIDE DEF R, E
<1>5. a.rows \in Seq(R) /\ b.rows \in Seq(R)
  <2>1. Seq([sourceRow : Nat, value : V]) \subseteq Seq(R)
    BY <1>3, SeqMonotonic
  <2>2. Seq([sourceRow : Nat, value : W]) \subseteq Seq(R)
    BY <1>3, SeqMonotonic
  <2>3. QED
    BY <1>4, <2>1, <2>2, Zenon
<1>6. a.rows \o b.rows \in Seq(R) /\ a.errors \o b.errors \in Seq(E)
  BY <1>4, <1>5, ConcatProperties
<1>7. Neat(Joined(a, b))
  <2>1. Joined(a, b).rows = a.rows \o b.rows /\ Joined(a, b).errors = a.errors \o b.errors
    BY DEF Joined, Found
  <2>2. QED
    BY <1>6, <2>1 DEF Neat, Tidy, R, E
<1>8. <<>> \o b.rows = b.rows /\ <<>> \o b.errors = b.errors
  BY <1>4, <1>5, ConcatEmptySeq
<1>9. QED
  BY <1>7, <1>8 DEF Joined, Found

LEMMA AddTableThere ==
  ASSUME NEW D, NEW table \in Seq(D), NEW found, Neat(found)
  PROVE  /\ Neat(AddTable(found, table))
         /\ found = Found(<<>>, <<>>) => Numbered(AddTable(found, table))
<1> DEFINE more == ExtractHtmlTableRows(table, Len(found.rows))
<1>1. Len(found.rows) \in Nat
  BY LenProperties DEF Neat, Tidy
<1>2. Neat(more) /\ Numbered(more)
  BY <1>1, HtmlTableThere
<1>3. AddTable(found, table) = IF more = Failed("NO_HEADER") THEN found ELSE Joined(found, more)
  BY DEF AddTable
<1> HIDE DEF more
<1>4. Neat(AddTable(found, table))
  BY <1>2, <1>3, JoinedThere
<1>5. ASSUME found = Found(<<>>, <<>>) PROVE Numbered(AddTable(found, table))
  <2>1. Joined(found, more) = Found(more.rows, more.errors)
    BY <1>2, <1>5, JoinedThere
  <2>2. Numbered(Joined(found, more))
    BY <1>2, <2>1 DEF Numbered, Apart, Found
  <2>3. QED
    BY <1>3, <1>5, <2>2, EmptyThere
<1>6. QED
  BY <1>4, <1>5

\* The steps of the fold over the tables.
Folded(tables, n, g) ==
  g = [s \in SUBSET (1 .. n) |-> IF s = {} THEN Found(<<>>, <<>>)
                                 ELSE AddTable(g[s \ {Max(s)}], tables[Max(s)])]

LEMMA LastThere ==
  ASSUME NEW n \in Nat, NEW s \in SUBSET (1 .. n + 1), n + 1 \in s
  PROVE  Max(s) = n + 1
<1>1. \A y \in s : n + 1 >= y
  OBVIOUS
<1>2. \A x \in s : (\A y \in s : x >= y) => x = n + 1
  <2>1. ASSUME NEW x \in s, \A y \in s : x >= y PROVE x = n + 1
    <3>1. x >= n + 1 /\ x \in 1 .. n + 1
      BY <2>1
    <3>2. QED
      BY <3>1
  <2>2. QED
    BY <2>1
<1>3. QED
  BY <1>1, <1>2 DEF Max

LEMMA FoldThere ==
  ASSUME NEW tables, NEW n \in Nat
  PROVE  \E g : Folded(tables, n, g)
<1> DEFINE Good == {m \in Nat : \E g : Folded(tables, m, g)}
           none == Found(<<>>, <<>>)
<1>1. 0 \in Good
  <2> DEFINE g == [s \in SUBSET (1 .. 0) |-> none]
             rhs == [s \in SUBSET (1 .. 0) |-> IF s = {} THEN none ELSE AddTable(g[s \ {Max(s)}], tables[Max(s)])]
  <2>1. \A s \in SUBSET (1 .. 0) : s = {}
    OBVIOUS
  <2>2. g = rhs
    BY <2>1
  <2> HIDE DEF g
  <2>3. Folded(tables, 0, g)
    BY <2>2 DEF Folded
  <2>4. QED
    BY <2>3
<1>2. ASSUME NEW m \in Nat, m \in Good PROVE m + 1 \in Good
  <2>1. PICK g : Folded(tables, m, g)
    BY <1>2
  <2> DEFINE h == [s \in SUBSET (1 .. m + 1) |->
                     IF m + 1 \in s THEN AddTable(g[s \ {m + 1}], tables[m + 1]) ELSE g[s]]
             rhs == [s \in SUBSET (1 .. m + 1) |-> IF s = {} THEN none ELSE AddTable(h[s \ {Max(s)}], tables[Max(s)])]
  <2>2. h = rhs
    <3>1. ASSUME NEW s \in SUBSET (1 .. m + 1)
          PROVE  h[s] = IF s = {} THEN none ELSE AddTable(h[s \ {Max(s)}], tables[Max(s)])
      <4>1. CASE m + 1 \in s
        <5>1. Max(s) = m + 1 /\ s # {}
          BY <4>1, LastThere
        <5>2. s \ {m + 1} \in SUBSET (1 .. m + 1) /\ m + 1 \notin s \ {m + 1}
          OBVIOUS
        <5>3. h[s \ {m + 1}] = g[s \ {m + 1}] /\ h[s] = AddTable(g[s \ {m + 1}], tables[m + 1])
          BY <4>1, <5>2
        <5> HIDE DEF h
        <5>4. QED
          BY <5>1, <5>3
      <4>2. CASE m + 1 \notin s
        <5>1. s \in SUBSET (1 .. m)
          <6>1. \A x \in 1 .. m + 1 : x # m + 1 => x \in 1 .. m
            OBVIOUS
          <6>2. QED
            BY <4>2, <6>1
        <5>2. g[s] = IF s = {} THEN none ELSE AddTable(g[s \ {Max(s)}], tables[Max(s)])
          BY <2>1, <5>1 DEF Folded
        <5>3. s \ {Max(s)} \in SUBSET (1 .. m + 1) /\ m + 1 \notin s \ {Max(s)}
          BY <4>2
        <5>4. h[s] = g[s] /\ h[s \ {Max(s)}] = g[s \ {Max(s)}]
          BY <4>2, <5>3
        <5> HIDE DEF h
        <5>5. QED
          BY <5>2, <5>4
      <4>3. QED
        BY <4>1, <4>2
    <3>2. \A s \in SUBSET (1 .. m + 1) : h[s] = rhs[s]
      BY <3>1
    <3>3. h = [s \in SUBSET (1 .. m + 1) |-> h[s]] /\ rhs = [s \in SUBSET (1 .. m + 1) |-> rhs[s]]
      OBVIOUS
    <3> HIDE DEF h, rhs
    <3>4. QED
      BY <3>2, <3>3
  <2>3. Folded(tables, m + 1, h)
    <3> HIDE DEF h
    <3>1. QED
      BY <2>2 DEF Folded
  <2>4. QED
    BY <2>3
<1>3. Nat \subseteq Good
  <2> HIDE DEF Good
  <2>1. QED
    BY <1>1, <1>2, Induction
<1>4. QED
  BY <1>3

\* What the fold has after each table.
LEMMA FoldSteps ==
  ASSUME NEW T, NEW tables \in Seq(T)
  PROVE  \E h : /\ FoldLeft(AddTable, Found(<<>>, <<>>), tables) = h[Len(tables)]
                /\ h[0] = Found(<<>>, <<>>)
                /\ \A k \in Nat : k + 1 <= Len(tables) => h[k + 1] = AddTable(h[k], tables[k + 1])
<1> DEFINE n == Len(tables)
           found == FoldLeft(AddTable, Found(<<>>, <<>>), tables)
           iter == CHOOSE g : g = [s \in SUBSET (DOMAIN tables) |->
                                     IF s = {} THEN Found(<<>>, <<>>)
                                     ELSE AddTable(g[s \ {Max(s)}], tables[Max(s)])]
<1>1. n \in Nat /\ DOMAIN tables = 1 .. n
  BY LenProperties
<1>2. found = iter[DOMAIN tables]
  BY DEF FoldLeft, MapThenFoldSet
<1> HIDE DEF n, found
<1>3. Folded(tables, n, iter)
  <2>1. \E g : g = [s \in SUBSET (DOMAIN tables) |-> IF s = {} THEN Found(<<>>, <<>>)
                                     ELSE AddTable(g[s \ {Max(s)}], tables[Max(s)])]
    <3>1. PICK g : Folded(tables, n, g)
      BY <1>1, FoldThere
    <3>2. QED
      BY <1>1, <3>1, Zenon DEF Folded
  <2>2. iter = [s \in SUBSET (DOMAIN tables) |-> IF s = {} THEN Found(<<>>, <<>>)
                                     ELSE AddTable(iter[s \ {Max(s)}], tables[Max(s)])]
    BY <2>1
  <2> HIDE DEF iter
  <2>3. QED
    BY <1>1, <2>2 DEF Folded
<1>4. PICK g : g = iter /\ Folded(tables, n, g)
  BY <1>3
<1> HIDE DEF iter
<1>5. found = g[1 .. n]
  BY <1>1, <1>2, <1>4
<1>6. \A s \in SUBSET (1 .. n) :
        g[s] = IF s = {} THEN Found(<<>>, <<>>) ELSE AddTable(g[s \ {Max(s)}], tables[Max(s)])
  BY <1>4 DEF Folded
<1> DEFINE h == [k \in 0 .. n |-> g[1 .. k]]
<1>7. h[0] = Found(<<>>, <<>>)
  <2>1. 1 .. 0 = {} /\ {} \in SUBSET (1 .. n) /\ 0 \in 0 .. n
    BY <1>1
  <2>2. g[{}] = Found(<<>>, <<>>)
    BY <1>6, <2>1
  <2>3. QED
    BY <2>1, <2>2
<1>8. ASSUME NEW k \in Nat, k + 1 <= n PROVE h[k + 1] = AddTable(h[k], tables[k + 1])
  <2>1. /\ 1 .. k + 1 \in SUBSET (1 .. n) /\ k + 1 \in 1 .. k + 1 /\ 1 .. k + 1 # {}
        /\ (1 .. k + 1) \ {k + 1} = 1 .. k /\ k + 1 \in 0 .. n /\ k \in 0 .. n
    <3>1. n \in Nat /\ k + 1 \in Nat
      BY <1>1
    <3>2. \A x \in 1 .. k + 1 : x \in 1 .. n
      BY <1>8, <3>1
    <3>3. k + 1 \in 1 .. k + 1 /\ k + 1 \in 0 .. n /\ k \in 0 .. n
      BY <1>8, <3>1
    <3>4. \A x : x \in (1 .. k + 1) \ {k + 1} <=> x \in 1 .. k
      BY <3>1
    <3>5. QED
      BY <3>2, <3>3, <3>4, Zenon
  <2>2. Max(1 .. k + 1) = k + 1
    BY <2>1, LastThere
  <2>3. g[1 .. k + 1] = AddTable(g[1 .. k], tables[k + 1])
    BY <1>6, <2>1, <2>2
  <2>4. QED
    BY <2>1, <2>3
<1>9. h[n] = found
  BY <1>1, <1>5
<1> HIDE DEF h
<1>10. QED
  BY <1>7, <1>8, <1>9 DEF n, found

LEMMA TablesThere ==
  ASSUME NEW D, NEW tables \in Seq(Seq(D))
  PROVE  LET found == FoldLeft(AddTable, Found(<<>>, <<>>), tables) IN
         Neat(found) /\ (Len(tables) <= 1 => Numbered(found))
<1> DEFINE n == Len(tables)
           found == FoldLeft(AddTable, Found(<<>>, <<>>), tables)
<1>1. PICK h : /\ found = h[n] /\ h[0] = Found(<<>>, <<>>)
               /\ \A k \in Nat : k + 1 <= n => h[k + 1] = AddTable(h[k], tables[k + 1])
  BY FoldSteps
<1>2. n \in Nat /\ \A k \in 1 .. n : tables[k] \in Seq(D)
  BY LenProperties, ElementOfSeq
<1> HIDE DEF n, found
<1> DEFINE Good == {k \in Nat : k <= n => Neat(h[k]) /\ (k <= 1 => Numbered(h[k]))}
<1>3. 0 \in Good
  BY <1>1, EmptyThere
<1>4. ASSUME NEW k \in Nat, k \in Good PROVE k + 1 \in Good
  <2> SUFFICES ASSUME k + 1 <= n PROVE Neat(h[k + 1]) /\ (k + 1 <= 1 => Numbered(h[k + 1]))
    OBVIOUS
  <2>1. k <= n /\ k + 1 \in 1 .. n
    BY <1>2
  <2>2. h[k + 1] = AddTable(h[k], tables[k + 1]) /\ tables[k + 1] \in Seq(D) /\ Neat(h[k])
    BY <1>1, <1>2, <1>4, <2>1
  <2>3. k + 1 <= 1 => h[k] = Found(<<>>, <<>>)
    <3>1. k + 1 <= 1 => k = 0
      OBVIOUS
    <3>2. QED
      BY <1>1, <3>1
  <2>4. QED
    BY <2>2, <2>3, AddTableThere
<1>5. n \in Good
  <2> HIDE DEF Good
  <2>1. QED
    BY <1>2, <1>3, <1>4, Induction
<1>6. Neat(found) /\ (n <= 1 => Numbered(found))
  BY <1>1, <1>2, <1>5
<1>7. QED
  BY <1>6 DEF found, n

LEMMA DocxThere ==
  ASSUME NEW f, NEW W, f.tables \in Seq(Seq(Seq(W))), f.lines \in Seq(Seq(W))
  PROVE  /\ Neat(ParseDocx(f))
         /\ Len(f.tables) <= 1 => Numbered(ParseDocx(f))
<1> DEFINE D == Seq(W)
           tables == FoldLeft(AddTable, Found(<<>>, <<>>), f.tables)
           words == FlattenSeq(FlattenSeq(f.tables))
           cells == At(words, {k \in DOMAIN words : words[k] # ""})
           singles == [k \in DOMAIN cells |-> <<cells[k]>>]
           text == singles \o NotBlank(f.lines)
           result == ParseDocx(f)
<1>1. Neat(tables) /\ (Len(f.tables) <= 1 => Numbered(tables))
  <2> HIDE DEF D
  <2>1. f.tables \in Seq(Seq(D))
    BY DEF D
  <2>2. QED
    BY <2>1, TablesThere
<1>2. words \in Seq(W)
  <2>1. FlattenSeq(f.tables) \in Seq(Seq(W))
    <3> HIDE DEF D
    <3>1. f.tables \in Seq(Seq(D))
      BY DEF D
    <3>2. FlattenSeq(f.tables) \in Seq(D)
      BY <3>1, FlattenThere
    <3>3. QED
      BY <3>2 DEF D
  <2>2. QED
    BY <2>1, FlattenThere
<1>3. cells \in Seq(W)
  <2> HIDE DEF words
  <2>1. QED
    BY <1>2, AtThere
<1>4. singles \in Seq(D)
  <2> HIDE DEF cells
  <2>1. Len(cells) \in Nat /\ DOMAIN cells = 1 .. Len(cells) /\ \A k \in 1 .. Len(cells) : cells[k] \in W
    BY <1>3, LenProperties, ElementOfSeq
  <2>2. ASSUME NEW k \in 1 .. Len(cells) PROVE <<cells[k]>> \in D
    <3>1. cells[k] \in W
      BY <2>1
    <3>2. QED
      BY <3>1
  <2> HIDE DEF D
  <2>3. [k \in 1 .. Len(cells) |-> <<cells[k]>>] \in Seq(D)
    BY <2>1, <2>2, IsASeq
  <2>4. QED
    BY <2>1, <2>3
<1>5. NotBlank(f.lines) \in Seq(D)
  <2> HIDE DEF D
  <2>1. f.lines \in Seq(D)
    BY DEF D
  <2>2. QED
    BY <2>1, NotBlankThere
<1> HIDE DEF D, singles, cells, words
<1>6. text \in Seq(D)
  BY <1>4, <1>5, ConcatProperties
<1> HIDE DEF text, tables
<1>7. Neat(ParseDocxParagraphs(text)) /\ Numbered(ParseDocxParagraphs(text))
  BY <1>6, ParagraphsThere
<1>8. result = IF ~f.readable THEN Failed("DOCX_PARSE_FAILED")
               ELSE IF tables # Found(<<>>, <<>>) THEN tables ELSE ParseDocxParagraphs(text)
  BY DEF ParseDocx, DocxTables, tables, text, singles, cells, words
<1>9. Neat(Failed("DOCX_PARSE_FAILED")) /\ Numbered(Failed("DOCX_PARSE_FAILED"))
  BY FailedThere DEF Reasons
<1> HIDE DEF result
<1>10. Neat(result) /\ (Len(f.tables) <= 1 => Numbered(result))
  BY <1>1, <1>7, <1>8, <1>9
<1>11. QED
  BY <1>10 DEF result

LEMMA FileThere ==
  ASSUME NEW f \in Files, f.ext \in FORMAT_MAP
  PROVE  /\ Neat(ParseFile(f)) /\ Len(ParseFile(f).rows) \in 0 .. MAX_IMPORT_ROWS
         /\ f.ext # "xlsx" /\ Len(f.tables) <= 1 => Numbered(ParseFile(f))
         /\ f.ext = "xlsx" => Apart(ParseFile(f))
<1> DEFINE D == Seq(STRING)
           Right(found) == /\ Neat(found) /\ (f.ext # "xlsx" /\ Len(f.tables) <= 1 => Numbered(found))
                           /\ f.ext = "xlsx" => Apart(found)
           found == CASE f.ext = "csv"  -> ParseCsv(f)
                      [] f.ext = "xlsx" -> ParseXlsx(f)
                      [] f.ext = "pdf"  -> ParsePdf(f)
                      [] OTHER -> ParseDocx(f)
           result == ParseFile(f)
<1>1. /\ f.tables \in Seq(Seq(D)) /\ f.lines \in Seq(D)
      /\ f.ext = "csv" /\ f.readable => f.tables # <<>>
  <2>1. f.ext = "csv" /\ f.readable => Len(f.tables) = 1
    BY FilesAreFiles
  <2>2. f.tables = <<>> => Len(f.tables) = 0
    OBVIOUS
  <2>3. f.ext = "csv" /\ f.readable => f.tables # <<>>
    <3>1. 1 # 0
      OBVIOUS
    <3>2. QED
      BY <2>1, <2>2, <3>1, Zenon
  <2>4. f.tables \in Seq(Seq(D)) /\ f.lines \in Seq(D)
    BY FilesAreFiles
  <2>5. QED
    BY <2>3, <2>4
<1>2. f.tables # <<>> => Head(f.tables) \in Seq(D)
  <2> HIDE DEF D
  <2> DEFINE E == Seq(D)
  <2>1. f.tables \in Seq(E)
    BY <1>1
  <2> HIDE DEF E
  <2>2. f.tables # <<>> => Head(f.tables) \in E
    BY <2>1, HeadTailProperties
  <2>3. QED
    BY <2>2 DEF E
<1>3. f.ext = "docx" => Neat(ParseDocx(f)) /\ (Len(f.tables) <= 1 => Numbered(ParseDocx(f)))
  <2>1. f.tables \in Seq(Seq(Seq(STRING))) /\ f.lines \in Seq(Seq(STRING))
    BY <1>1
  <2>2. QED
    BY <2>1, DocxThere
<1> HIDE DEF D, Right
<1>4. ASSUME f.ext = "csv" PROVE Right(found)
  <2>1. f.readable => Head(f.tables) \in Seq(D)
    BY <1>1, <1>2, <1>4
  <2>2. found = ParseCsv(f)
    BY <1>4
  <2>3. QED
    BY <1>4, <2>1, <2>2, CsvThere DEF Right
<1>5. ASSUME f.ext = "xlsx" PROVE Right(found)
  <2>1. found = ParseXlsx(f)
    BY <1>5
  <2>2. QED
    BY <1>2, <1>5, <2>1, XlsxThere DEF Right
<1>6. ASSUME f.ext = "pdf" PROVE Right(found)
  <2>1. found = ParsePdf(f)
    BY <1>6
  <2>2. QED
    BY <1>1, <1>6, <2>1, PdfThere DEF Right
<1>7. ASSUME f.ext = "docx" PROVE Right(found)
  <2>1. found = ParseDocx(f)
    BY <1>7
  <2>2. QED
    BY <1>3, <1>7, <2>1 DEF Right
<1>8. Right(found)
  BY <1>4, <1>5, <1>6, <1>7 DEF FORMAT_MAP
<1>9. result = IF Len(found.rows) > MAX_IMPORT_ROWS THEN Failed("ROW_LIMIT_EXCEEDED") ELSE found
  BY DEF ParseFile, WithinLimit
<1> HIDE DEF found, result
<1>10. Len(found.rows) \in Nat
  BY <1>8, LenProperties DEF Right, Neat, Tidy
<1>11. Right(Failed("ROW_LIMIT_EXCEEDED")) /\ Len(Failed("ROW_LIMIT_EXCEEDED").rows) = 0
  <2>1. Failed("ROW_LIMIT_EXCEEDED").rows = <<>>
    BY DEF Failed, Found
  <2>2. QED
    BY <2>1, FailedThere DEF Right, Reasons, Numbered
<1>12. Right(result) /\ Len(result.rows) \in 0 .. MAX_IMPORT_ROWS
  <2>1. MAX_IMPORT_ROWS \in Nat
    BY MaxIsPositive
  <2>2. CASE Len(found.rows) > MAX_IMPORT_ROWS
    BY <1>9, <1>11, <2>1, <2>2
  <2>3. CASE ~(Len(found.rows) > MAX_IMPORT_ROWS)
    BY <1>8, <1>9, <1>10, <2>1, <2>3
  <2>4. QED
    BY <2>2, <2>3
<1>13. QED
  BY <1>12 DEF Right, result

----------------------------------------------------------------------------
(* How many rows are found                                                 *)

Count(f) == Len(f.rows) + Len(f.errors)

LEMMA StepsCount ==
  ASSUME NEW S, NEW n \in Nat, NEW up, Steps(S, n, up), NEW h \in 0 .. n
  PROVE  IsFiniteSet(S \cap 1 .. h) /\ Len(up[h]) = Cardinality(S \cap 1 .. h)
<1> DEFINE Good == {k \in Nat : k <= n => IsFiniteSet(S \cap 1 .. k) /\ Len(up[k]) = Cardinality(S \cap 1 .. k)}
<1>1. 0 \in Good
  <2>1. up[0] = <<>> /\ S \cap 1 .. 0 = {}
    BY DEF Steps
  <2>2. IsFiniteSet(S \cap 1 .. 0) /\ Len(up[0]) = 0 /\ Cardinality(S \cap 1 .. 0) = 0
    BY <2>1, FS_EmptySet
  <2>3. QED
    BY <2>2
<1>2. ASSUME NEW k \in Nat, k \in Good PROVE k + 1 \in Good
  <2> SUFFICES ASSUME k + 1 <= n
               PROVE  IsFiniteSet(S \cap 1 .. k + 1) /\ Len(up[k + 1]) = Cardinality(S \cap 1 .. k + 1)
    OBVIOUS
  <2>1. k + 1 \in 0 .. n /\ k + 1 # 0 /\ (k + 1) - 1 = k /\ k \in 0 .. n
    OBVIOUS
  <2>2. up[k + 1] = IF k + 1 \in S THEN Append(up[k], k + 1) ELSE up[k]
    <3>1. \A g \in 0 .. n : up[g] = IF g = 0 THEN <<>> ELSE IF g \in S THEN Append(up[g - 1], g) ELSE up[g - 1]
      BY DEF Steps
    <3>2. QED
      BY <2>1, <3>1
  <2>3. up[k] \in Seq(S \cap 1 .. k) /\ IsFiniteSet(S \cap 1 .. k) /\ Len(up[k]) = Cardinality(S \cap 1 .. k)
    <3>1. up[k] \in Seq(S \cap 1 .. k)
      BY <2>1, StepsGrow
    <3>2. k <= n
      OBVIOUS
    <3>3. QED
      BY <1>2, <3>1, <3>2
  <2>4. CASE k + 1 \in S
    <3>1. S \cap 1 .. k + 1 = (S \cap 1 .. k) \cup {k + 1} /\ k + 1 \notin S \cap 1 .. k
      BY <2>4
    <3>2. IsFiniteSet(S \cap 1 .. k + 1) /\ Cardinality(S \cap 1 .. k + 1) = Cardinality(S \cap 1 .. k) + 1
      <4> DEFINE A == S \cap 1 .. k
                 B == S \cap 1 .. k + 1
      <4>1. IsFiniteSet(A) /\ B = A \cup {k + 1} /\ k + 1 \notin A
        BY <2>3, <3>1
      <4> HIDE DEF A, B
      <4>2. IsFiniteSet(B) /\ Cardinality(B) = Cardinality(A) + 1
        BY <4>1, FS_AddElement
      <4>3. QED
        BY <4>2 DEF A, B
    <3>3. up[k] \in Seq(Nat) /\ up[k + 1] = Append(up[k], k + 1)
      <4>1. S \cap 1 .. k \subseteq Nat
        OBVIOUS
      <4>2. QED
        BY <2>2, <2>3, <2>4, <4>1, SeqMonotonic
    <3>4. Len(up[k + 1]) = Len(up[k]) + 1
      BY <3>3, AppendProperties
    <3>5. QED
      BY <2>3, <3>2, <3>4
  <2>5. CASE k + 1 \notin S
    <3>1. S \cap 1 .. k + 1 = S \cap 1 .. k
      BY <2>5
    <3>2. QED
      BY <2>2, <2>3, <2>5, <3>1
  <2>6. QED
    BY <2>4, <2>5
<1>3. h \in Good
  <2>1. h \in Nat
    OBVIOUS
  <2> HIDE DEF Good
  <2>2. QED
    BY <1>1, <1>2, <2>1, Induction
<1>4. QED
  BY <1>3

LEMMA InOrderCount ==
  ASSUME NEW n \in Nat, NEW S \in SUBSET (1 .. n)
  PROVE  IsFiniteSet(S) /\ Len(InOrder(S, n)) = Cardinality(S)
<1>1. PICK up : Steps(S, n, up) /\ InOrder(S, n) = up[n]
  BY InOrderSteps
<1>2. n \in 0 .. n /\ S \cap 1 .. n = S
  <2>1. n \in 0 .. n
    OBVIOUS
  <2>2. S \cap 1 .. n = S
    BY Zenon
  <2>3. QED
    BY <2>1, <2>2
<1>3. IsFiniteSet(S \cap 1 .. n) /\ Len(up[n]) = Cardinality(S \cap 1 .. n)
  BY <1>1, <1>2, StepsCount
<1>4. QED
  BY <1>1, <1>2, <1>3

Ascends(s) == \A i, j \in DOMAIN s : i < j => s[i] < s[j]
Lists(s, T) == \A k \in T : \E j \in DOMAIN s : s[j] = k

\* InOrder lists the whole set, in its order.
LEMMA StepsSorted ==
  ASSUME NEW S, NEW n \in Nat, NEW up, Steps(S, n, up), NEW h \in 0 .. n
  PROVE  Ascends(up[h]) /\ Lists(up[h], S \cap 1 .. h)
<1> DEFINE Good == {k \in Nat : k <= n => Ascends(up[k]) /\ Lists(up[k], S \cap 1 .. k)}
<1>1. 0 \in Good
  <2>1. up[0] = <<>>
    BY DEF Steps
  <2>2. DOMAIN <<>> = {} /\ S \cap 1 .. 0 = {}
    OBVIOUS
  <2>3. Ascends(<<>>) /\ Lists(<<>>, S \cap 1 .. 0)
    BY <2>2 DEF Ascends, Lists
  <2>4. QED
    BY <2>1, <2>3
<1>2. ASSUME NEW k \in Nat, k \in Good PROVE k + 1 \in Good
  <2> SUFFICES ASSUME k + 1 <= n PROVE Ascends(up[k + 1]) /\ Lists(up[k + 1], S \cap 1 .. k + 1)
    OBVIOUS
  <2> DEFINE s == up[k]
             t == up[k + 1]
  <2>1. k + 1 \in 0 .. n /\ k + 1 # 0 /\ (k + 1) - 1 = k /\ k \in 0 .. n
    OBVIOUS
  <2>2. t = IF k + 1 \in S THEN Append(s, k + 1) ELSE s
    <3>1. \A g \in 0 .. n : up[g] = IF g = 0 THEN <<>> ELSE IF g \in S THEN Append(up[g - 1], g) ELSE up[g - 1]
      BY DEF Steps
    <3>2. QED
      BY <2>1, <3>1
  <2>3. s \in Seq(S \cap 1 .. k)
    BY <2>1, StepsGrow
  <2>4. Ascends(s) /\ Lists(s, S \cap 1 .. k)
    BY <1>2
  <2>5. /\ Len(s) \in Nat /\ DOMAIN s = 1 .. Len(s)
        /\ \A i \in DOMAIN s : s[i] \in 1 .. k
    BY <2>3, LenProperties, ElementOfSeq
  <2>6. CASE k + 1 \in S
    <3>1. s \in Seq(Nat) /\ t = Append(s, k + 1)
      <4>1. S \cap 1 .. k \subseteq Nat
        OBVIOUS
      <4>2. QED
        BY <2>2, <2>3, <2>6, <4>1, SeqMonotonic
    <3> HIDE DEF s, t
    <3>2. /\ t \in Seq(Nat) /\ Len(t) = Len(s) + 1
          /\ t[Len(s) + 1] = k + 1 /\ \A i \in 1 .. Len(s) : t[i] = s[i]
      BY <3>1, AppendProperties
    <3>3. DOMAIN t = 1 .. Len(s) + 1
      BY <3>2, LenProperties
    <3>4. Ascends(t)
      <4> SUFFICES ASSUME NEW i \in DOMAIN t, NEW j \in DOMAIN t, i < j PROVE t[i] < t[j]
        BY DEF Ascends
      <4>1. i \in DOMAIN s /\ t[i] = s[i] /\ s[i] \in 1 .. k
        BY <2>5, <3>2, <3>3
      <4>2. CASE j = Len(s) + 1
        <5>1. t[j] = k + 1
          BY <3>2, <4>2
        <5>2. QED
          BY <4>1, <5>1
      <4>3. CASE j # Len(s) + 1
        <5>1. j \in DOMAIN s
          BY <2>5, <3>3, <4>3
        <5>2. t[j] = s[j]
          BY <2>5, <3>2, <5>1
        <5>3. s[i] < s[j]
          BY <2>4, <4>1, <5>1 DEF Ascends
        <5>4. QED
          BY <4>1, <5>2, <5>3
      <4>4. QED
        BY <4>2, <4>3
    <3>5. Lists(t, S \cap 1 .. k + 1)
      <4> SUFFICES ASSUME NEW g \in S \cap 1 .. k + 1 PROVE \E j \in DOMAIN t : t[j] = g
        BY DEF Lists
      <4>1. CASE g = k + 1
        <5>1. Len(s) + 1 \in DOMAIN t /\ t[Len(s) + 1] = g
          BY <2>5, <3>2, <3>3, <4>1
        <5>2. QED
          BY <5>1
      <4>2. CASE g # k + 1
        <5>1. g \in S \cap 1 .. k
          BY <4>2
        <5>2. PICK j \in DOMAIN s : s[j] = g
          BY <2>4, <5>1 DEF Lists
        <5>3. j \in DOMAIN t /\ t[j] = g
          BY <2>5, <3>2, <3>3, <5>2
        <5>4. QED
          BY <5>3
      <4>3. QED
        BY <4>1, <4>2
    <3>6. QED
      BY <3>4, <3>5 DEF t
  <2>7. CASE k + 1 \notin S
    <3>1. S \cap 1 .. k + 1 = S \cap 1 .. k
      BY <2>7
    <3>2. QED
      BY <2>2, <2>4, <2>7, <3>1
  <2>8. QED
    BY <2>6, <2>7
<1>3. h \in Good
  <2>1. h \in Nat
    OBVIOUS
  <2> HIDE DEF Good
  <2>2. QED
    BY <1>1, <1>2, <2>1, Induction
<1>4. QED
  BY <1>3

LEMMA InOrderSorted ==
  ASSUME NEW n \in Nat, NEW S \in SUBSET (1 .. n)
  PROVE  Ascends(InOrder(S, n)) /\ Lists(InOrder(S, n), S)
<1>1. PICK up : Steps(S, n, up) /\ InOrder(S, n) = up[n]
  BY InOrderSteps
<1>2. n \in 0 .. n
  OBVIOUS
<1>3. S \cap 1 .. n = S
  BY Zenon
<1>4. Ascends(up[n]) /\ Lists(up[n], S \cap 1 .. n)
  BY <1>1, <1>2, StepsSorted
<1>5. QED
  BY <1>1, <1>3, <1>4

\* The whole of 1 .. n in its order is 1 .. n.
LEMMA WholeInOrder ==
  ASSUME NEW n \in Nat, NEW j \in DOMAIN InOrder(1 .. n, n)
  PROVE  InOrder(1 .. n, n)[j] = j
<1>1. PICK up : Steps(1 .. n, n, up) /\ InOrder(1 .. n, n) = up[n]
  BY InOrderSteps
<1> DEFINE Good == {k \in Nat : k <= n => up[k] \in Seq(Nat) /\ Len(up[k]) = k /\ \A i \in 1 .. k : up[k][i] = i}
<1>2. \A k \in 0 .. n : up[k] = IF k = 0 THEN <<>> ELSE IF k \in 1 .. n THEN Append(up[k - 1], k) ELSE up[k - 1]
  BY <1>1 DEF Steps
<1>3. 0 \in Good
  <2>1. up[0] = <<>>
    BY <1>2
  <2>2. up[0] \in Seq(Nat) /\ Len(up[0]) = 0
    BY <2>1, EmptySeq
  <2>3. \A i \in 1 .. 0 : up[0][i] = i
    OBVIOUS
  <2>4. QED
    BY <2>2, <2>3
<1>4. ASSUME NEW k \in Nat, k \in Good PROVE k + 1 \in Good
  <2> SUFFICES ASSUME k + 1 <= n
               PROVE  up[k + 1] \in Seq(Nat) /\ Len(up[k + 1]) = k + 1 /\ \A i \in 1 .. k + 1 : up[k + 1][i] = i
    OBVIOUS
  <2>1. up[k] \in Seq(Nat) /\ Len(up[k]) = k /\ \A i \in 1 .. k : up[k][i] = i
    BY <1>4
  <2>2. up[k + 1] = Append(up[k], k + 1)
    <3>1. k + 1 \in 0 .. n /\ k + 1 \in 1 .. n /\ k + 1 # 0 /\ (k + 1) - 1 = k
      OBVIOUS
    <3>2. QED
      BY <1>2, <3>1
  <2> DEFINE s == up[k]
             t == up[k + 1]
  <2>3. /\ t \in Seq(Nat) /\ Len(t) = Len(s) + 1 /\ t[Len(s) + 1] = k + 1
        /\ \A i \in 1 .. Len(s) : t[i] = s[i]
    BY <2>1, <2>2, AppendProperties
  <2>4. ASSUME NEW i \in 1 .. k + 1 PROVE t[i] = i
    <3>1. i \in 1 .. k \/ i = k + 1
      OBVIOUS
    <3>2. QED
      BY <2>1, <2>3, <3>1
  <2>5. QED
    BY <2>1, <2>3, <2>4
<1>5. up[n] \in Seq(Nat) /\ Len(up[n]) = n /\ \A i \in 1 .. n : up[n][i] = i
  <2>1. n \in Good
    <3> HIDE DEF Good
    <3>1. QED
      BY <1>3, <1>4, Induction
  <2>2. QED
    BY <2>1
<1>6. j \in 1 .. n
  BY <1>1, <1>5, LenProperties
<1>7. QED
  BY <1>1, <1>5, <1>6

LEMMA LenThere ==
  ASSUME NEW n \in Nat, NEW g, g = [k \in 1 .. n |-> g[k]]
  PROVE  Len(g) = n
<1>1. PICK V : g \in Seq(V)
  BY ListThere
<1>2. DOMAIN g = 1 .. n
  OBVIOUS
<1>3. Len(g) \in Nat /\ DOMAIN g = 1 .. Len(g)
  BY <1>1, LenProperties
<1>4. QED
  BY <1>2, <1>3

\* Every row that is sorted becomes a row or an error.
LEMMA SortCounts ==
  ASSUME NEW V, NEW values \in Seq(V), NEW needed, NEW rowBase \in Nat, NEW errorBase \in Nat
  PROVE  LET found == Sort(values, needed, rowBase, errorBase) IN
         /\ Count(found) = Len(values)
         /\ \A k \in DOMAIN found.errors : found.errors[k].why = "EMPTY"
<1> DEFINE n == Len(values)
           fits == {k \in DOMAIN values : \E f \in needed : values[k][f] # ""}
           rest == DOMAIN values \ fits
           good == InOrder(fits, n)
           bad == InOrder(rest, n)
           rows == [j \in DOMAIN good |-> [sourceRow |-> RowNumber(rowBase, good[j], j), value |-> values[good[j]]]]
           errors == [j \in DOMAIN bad |-> [row |-> errorBase + bad[j], why |-> "EMPTY"]]
           found == Sort(values, needed, rowBase, errorBase)
<1>1. n \in Nat /\ DOMAIN values = 1 .. n
  BY LenProperties
<1>2. found.rows = rows /\ found.errors = errors
  BY DEF Sort, Found
<1>3. fits \in SUBSET (1 .. n) /\ rest \in SUBSET (1 .. n) /\ rest = (1 .. n) \ fits
  BY <1>1
<1> HIDE DEF fits, rest, n, found
<1>4. /\ good \in Seq(fits \cap 1 .. n) /\ Len(good) = Cardinality(fits)
      /\ bad \in Seq(rest \cap 1 .. n) /\ Len(bad) = Cardinality(rest)
  BY <1>1, <1>3, InOrderThere, InOrderCount
<1>5. /\ Len(good) \in Nat /\ DOMAIN good = 1 .. Len(good)
      /\ Len(bad) \in Nat /\ DOMAIN bad = 1 .. Len(bad)
  BY <1>4, LenProperties
<1>6. rows = [j \in 1 .. Len(good) |-> rows[j]] /\ errors = [j \in 1 .. Len(bad) |-> errors[j]]
  BY <1>5
<1>7. \A k \in DOMAIN errors : errors[k].why = "EMPTY"
  OBVIOUS
<1> HIDE DEF rows, errors, good, bad
<1>8. Len(rows) = Len(good) /\ Len(errors) = Len(bad)
  BY <1>5, <1>6, LenThere
<1>9. Cardinality(fits) + Cardinality(rest) = n
  <2>1. IsFiniteSet(1 .. n) /\ Cardinality(1 .. n) = n
    BY <1>1, FS_Interval
  <2>2. Cardinality(rest) = Cardinality(1 .. n) - Cardinality(fits)
    <3>1. Cardinality((1 .. n) \ fits) = Cardinality(1 .. n) - Cardinality((1 .. n) \cap fits)
      BY <2>1, FS_Difference, Zenon
    <3>2. (1 .. n) \cap fits = fits
      BY <1>3, Zenon
    <3>3. QED
      BY <1>3, <3>1, <3>2, Zenon
  <2>3. Cardinality(fits) \in Nat
    BY <1>4, <1>5
  <2>4. QED
    BY <1>1, <2>1, <2>2, <2>3
<1>10. QED
  BY <1>2, <1>4, <1>7, <1>8, <1>9 DEF Count, n, found

\* Where no row is an error, the numbers go on one by one from b.
Straight(f, b) == f.errors = <<>> => \A j \in DOMAIN f.rows : f.rows[j].sourceRow = b + j

LEMMA FailedStraight ==
  ASSUME NEW why, NEW b
  PROVE  Straight(Failed(why), b)
<1>1. Failed(why).errors # <<>>
  BY DEF Failed, Found
<1>2. QED
  BY <1>1 DEF Straight

LEMMA SortStraight ==
  ASSUME NEW V, NEW values \in Seq(V), NEW needed, NEW rowBase \in Nat, NEW errorBase \in Nat
  PROVE  Straight(Sort(values, needed, rowBase, errorBase), rowBase)
<1> DEFINE n == Len(values)
           fits == {k \in DOMAIN values : \E f \in needed : values[k][f] # ""}
           rest == DOMAIN values \ fits
           good == InOrder(fits, n)
           bad == InOrder(rest, n)
           rows == [j \in DOMAIN good |-> [sourceRow |-> RowNumber(rowBase, good[j], j), value |-> values[good[j]]]]
           errors == [j \in DOMAIN bad |-> [row |-> errorBase + bad[j], why |-> "EMPTY"]]
           result == Sort(values, needed, rowBase, errorBase)
<1>1. n \in Nat /\ DOMAIN values = 1 .. n
  BY LenProperties
<1>2. result.rows = rows /\ result.errors = errors
  BY DEF Sort, Found
<1>3. DOMAIN rows = DOMAIN good /\ DOMAIN errors = DOMAIN bad /\ \A j \in DOMAIN good : rows[j].sourceRow = rowBase + good[j]
  BY DEF RowNumber
<1>4. rest \in SUBSET (1 .. n) /\ fits \in SUBSET (1 .. n) /\ rest = (1 .. n) \ fits
  BY <1>1
<1> HIDE DEF n, fits, rest, good, bad, rows, errors, result
<1> SUFFICES ASSUME result.errors = <<>>, NEW j \in DOMAIN result.rows PROVE result.rows[j].sourceRow = rowBase + j
  BY DEF Straight, result
<1>5. DOMAIN bad = {}
  <2>1. DOMAIN <<>> = {}
    OBVIOUS
  <2>2. QED
    BY <1>2, <1>3, <2>1
<1>6. rest = {}
  <2>1. \A k \in rest : \E i \in DOMAIN bad : bad[i] = k
    BY <1>1, <1>4, InOrderSorted DEF bad, Lists
  <2>2. QED
    BY <1>5, <2>1
<1>7. fits = 1 .. n
  BY <1>4, <1>6
<1>8. good[j] = j
  BY <1>1, <1>2, <1>3, <1>7, WholeInOrder DEF good
<1>9. QED
  BY <1>2, <1>3, <1>8

LEMMA HtmlTableStraight ==
  ASSUME NEW D, NEW table \in Seq(D), NEW rowOffset \in Nat
  PROVE  Straight(ExtractHtmlTableRows(table, rowOffset), rowOffset)
<1> DEFINE headerMap == [x \in Fields |-> LastColumn(Head(table), x)]
           found == ExtractHtmlTableRows(table, rowOffset)
           sorted == Sort(Columns(headerMap, Tail(table)), Named, rowOffset, rowOffset)
<1>1. \/ found \in {Failed("NO_ROWS"), Failed("NO_HEADER")}
      \/ table # <<>> /\ found = sorted
  <2>1. CASE table = <<>>
    BY <2>1 DEF ExtractHtmlTableRows
  <2>2. CASE table # <<>>
    <3>1. found = IF headerMap.name <= 1 /\ headerMap.email <= 1 THEN Failed("NO_HEADER") ELSE sorted
      BY <2>2 DEF ExtractHtmlTableRows
    <3> HIDE DEF found, headerMap, sorted
    <3>2. QED
      BY <2>2, <3>1
  <2>3. QED
    BY <2>1, <2>2
<1> HIDE DEF headerMap, found
<1>2. ASSUME table # <<>> PROVE Straight(sorted, rowOffset)
  <2>1. Tail(table) \in Seq(D)
    BY <1>2, TailThere
  <2>2. PICK V : Columns(headerMap, Tail(table)) \in Seq(V)
    BY <2>1, ColumnsThere
  <2>3. QED
    BY <2>2, SortStraight
<1>3. QED
  BY <1>1, <1>2, FailedStraight DEF found

\* A table goes on where those before it have stopped.
LEMMA AddTableStraight ==
  ASSUME NEW D, NEW table \in Seq(D), NEW found, Neat(found), Straight(found, 0)
  PROVE  Straight(AddTable(found, table), 0)
<1> DEFINE m == Len(found.rows)
           more == ExtractHtmlTableRows(table, m)
           both == Joined(found, more)
<1>1. m \in Nat
  BY LenProperties DEF Neat, Tidy
<1>2. Neat(more) /\ Straight(more, m)
  BY <1>1, HtmlTableThere, HtmlTableStraight
<1>3. AddTable(found, table) = IF more = Failed("NO_HEADER") THEN found ELSE both
  BY DEF AddTable
<1>4. both.rows = found.rows \o more.rows /\ both.errors = found.errors \o more.errors
  BY DEF Joined, Found
<1> HIDE DEF more, both
<1>5. PICK V : found.rows \in Seq([sourceRow : Nat, value : V]) /\ found.errors \in Seq([row : Nat, why : Reasons])
  BY DEF Neat, Tidy
<1>6. PICK W : more.rows \in Seq([sourceRow : Nat, value : W]) /\ more.errors \in Seq([row : Nat, why : Reasons])
  BY <1>2 DEF Neat, Tidy
<1> DEFINE R == [sourceRow : Nat, value : V \cup W]
           F == [row : Nat, why : Reasons]
           a == found.rows
           b == more.rows
           c == found.errors
           d == more.errors
<1>7. a \in Seq(R) /\ b \in Seq(R) /\ c \in Seq(F) /\ d \in Seq(F)
  <2>1. [sourceRow : Nat, value : V] \subseteq R /\ [sourceRow : Nat, value : W] \subseteq R
    OBVIOUS
  <2> HIDE DEF R
  <2>2. Seq([sourceRow : Nat, value : V]) \subseteq Seq(R) /\ Seq([sourceRow : Nat, value : W]) \subseteq Seq(R)
    BY <2>1, SeqMonotonic
  <2>3. QED
    BY <1>5, <1>6, <2>2, Zenon
<1> HIDE DEF R, F
<1>8. ASSUME both.errors = <<>> PROVE \A j \in DOMAIN both.rows : both.rows[j].sourceRow = 0 + j
  <2>1. Len(a) = m
    OBVIOUS
  <2> HIDE DEF a, b, c, d, m
  <2>2. Len(c \o d) = Len(c) + Len(d) /\ Len(c) \in Nat /\ Len(d) \in Nat
    BY <1>7, ConcatProperties, LenProperties
  <2>3. c \o d = <<>>
    BY <1>4, <1>8 DEF c, d
  <2>4. Len(c) = 0 /\ Len(d) = 0
    BY <2>2, <2>3
  <2>5. c = <<>> /\ d = <<>>
    BY <1>7, <2>4, EmptySeq
  <2>6. /\ \A j \in DOMAIN a : a[j].sourceRow = 0 + j
        /\ \A j \in DOMAIN b : b[j].sourceRow = m + j
    BY <1>2, <2>5 DEF Straight, a, b, c, d
  <2>7. /\ a \o b \in Seq(R) /\ Len(a \o b) = m + Len(b) /\ Len(b) \in Nat
        /\ \A j \in 1 .. m + Len(b) : (a \o b)[j] = IF j <= m THEN a[j] ELSE b[j - m]
        /\ DOMAIN a = 1 .. m /\ DOMAIN b = 1 .. Len(b)
    BY <1>7, <2>1, ConcatProperties, LenProperties
  <2>8. DOMAIN (a \o b) = 1 .. m + Len(b)
    BY <2>7, LenProperties
  <2>9. both.rows = a \o b
    BY <1>4 DEF a, b
  <2>10. ASSUME NEW j \in 1 .. m + Len(b) PROVE (a \o b)[j].sourceRow = 0 + j
    <3>1. CASE j <= m
      <4>1. j \in 1 .. m
        BY <1>1, <2>7, <3>1
      <4>2. QED
        BY <2>6, <2>7, <3>1, <4>1
    <3>2. CASE ~(j <= m)
      <4>1. j - m \in 1 .. Len(b) /\ m + (j - m) = 0 + j
        BY <1>1, <2>7, <3>2
      <4>2. b[j - m].sourceRow = m + (j - m)
        BY <2>6, <2>7, <4>1
      <4>3. (a \o b)[j] = b[j - m]
        BY <2>7, <3>2
      <4>4. QED
        BY <4>1, <4>2, <4>3
    <3>3. QED
      BY <3>1, <3>2
  <2>11. QED
    BY <2>8, <2>9, <2>10
<1>9. Straight(both, 0)
  BY <1>8 DEF Straight
<1>10. QED
  BY <1>3, <1>9

LEMMA TablesStraight ==
  ASSUME NEW D, NEW tables \in Seq(Seq(D))
  PROVE  Straight(FoldLeft(AddTable, Found(<<>>, <<>>), tables), 0)
<1> DEFINE n == Len(tables)
           found == FoldLeft(AddTable, Found(<<>>, <<>>), tables)
<1>1. PICK h : /\ found = h[n] /\ h[0] = Found(<<>>, <<>>)
               /\ \A k \in Nat : k + 1 <= n => h[k + 1] = AddTable(h[k], tables[k + 1])
  BY FoldSteps
<1>2. n \in Nat /\ \A k \in 1 .. n : tables[k] \in Seq(D)
  BY LenProperties, ElementOfSeq
<1> HIDE DEF n, found
<1> DEFINE Good == {k \in Nat : k <= n => Neat(h[k]) /\ Straight(h[k], 0)}
<1>3. 0 \in Good
  <2>1. Straight(Found(<<>>, <<>>), 0)
    BY DEF Straight, Found
  <2>2. QED
    BY <1>1, <2>1, EmptyThere
<1>4. ASSUME NEW k \in Nat, k \in Good PROVE k + 1 \in Good
  <2> SUFFICES ASSUME k + 1 <= n PROVE Neat(h[k + 1]) /\ Straight(h[k + 1], 0)
    OBVIOUS
  <2>1. k <= n /\ k + 1 \in 1 .. n
    BY <1>2
  <2>2. h[k + 1] = AddTable(h[k], tables[k + 1]) /\ tables[k + 1] \in Seq(D) /\ Neat(h[k]) /\ Straight(h[k], 0)
    BY <1>1, <1>2, <1>4, <2>1
  <2>3. QED
    BY <2>2, AddTableThere, AddTableStraight
<1>5. n \in Good
  <2> HIDE DEF Good
  <2>1. QED
    BY <1>2, <1>3, <1>4, Induction
<1>6. QED
  BY <1>1, <1>2, <1>5 DEF found

LEMMA ParagraphsStraight ==
  ASSUME NEW D, NEW lines \in Seq(D)
  PROVE  Straight(ParseDocxParagraphs(lines), 0)
<1> DEFINE g == [k \in DOMAIN lines |->
                   LET email == Cell(lines[k], SelectInSeq(lines[k], LAMBDA w : w \in Addresses))
                   IN  [name |-> Cell(lines[k], SelectInSeq(lines[k], LAMBDA w : w \notin {"", email})),
                        email |-> email, phone |-> "", ticketType |-> ""]]
<1>1. Len(lines) \in Nat /\ DOMAIN lines = 1 .. Len(lines)
  BY LenProperties
<1>2. g = [k \in 1 .. Len(lines) |-> g[k]]
  BY <1>1
<1>3. ParseDocxParagraphs(lines) = Sort(g, HasEmail, 0, 0)
  BY DEF ParseDocxParagraphs
<1> HIDE DEF g
<1>4. PICK V : g \in Seq(V)
  BY <1>1, <1>2, ListThere
<1>5. QED
  BY <1>3, <1>4, SortStraight

LEMMA DocxStraight ==
  ASSUME NEW f, NEW W, f.tables \in Seq(Seq(Seq(W))), f.lines \in Seq(Seq(W))
  PROVE  Straight(ParseDocx(f), 0)
<1> DEFINE D == Seq(W)
           tables == FoldLeft(AddTable, Found(<<>>, <<>>), f.tables)
           words == FlattenSeq(FlattenSeq(f.tables))
           cells == At(words, {k \in DOMAIN words : words[k] # ""})
           singles == [k \in DOMAIN cells |-> <<cells[k]>>]
           text == singles \o NotBlank(f.lines)
           result == ParseDocx(f)
<1>1. Straight(tables, 0)
  <2> HIDE DEF D
  <2>1. f.tables \in Seq(Seq(D))
    BY DEF D
  <2>2. QED
    BY <2>1, TablesStraight
<1>2. words \in Seq(W)
  <2>1. FlattenSeq(f.tables) \in Seq(Seq(W))
    <3> HIDE DEF D
    <3>1. f.tables \in Seq(Seq(D))
      BY DEF D
    <3>2. FlattenSeq(f.tables) \in Seq(D)
      BY <3>1, FlattenThere
    <3>3. QED
      BY <3>2 DEF D
  <2>2. QED
    BY <2>1, FlattenThere
<1>3. cells \in Seq(W)
  <2> HIDE DEF words
  <2>1. QED
    BY <1>2, AtThere
<1>4. singles \in Seq(D)
  <2> HIDE DEF cells
  <2>1. Len(cells) \in Nat /\ DOMAIN cells = 1 .. Len(cells) /\ \A k \in 1 .. Len(cells) : cells[k] \in W
    BY <1>3, LenProperties, ElementOfSeq
  <2>2. ASSUME NEW k \in 1 .. Len(cells) PROVE <<cells[k]>> \in D
    <3>1. cells[k] \in W
      BY <2>1
    <3>2. QED
      BY <3>1
  <2> HIDE DEF D
  <2>3. [k \in 1 .. Len(cells) |-> <<cells[k]>>] \in Seq(D)
    BY <2>1, <2>2, IsASeq
  <2>4. QED
    BY <2>1, <2>3
<1>5. NotBlank(f.lines) \in Seq(D)
  <2> HIDE DEF D
  <2>1. f.lines \in Seq(D)
    BY DEF D
  <2>2. QED
    BY <2>1, NotBlankThere
<1> HIDE DEF D, singles, cells, words
<1>6. text \in Seq(D)
  BY <1>4, <1>5, ConcatProperties
<1> HIDE DEF text, tables
<1>7. Straight(ParseDocxParagraphs(text), 0)
  BY <1>6, ParagraphsStraight
<1>8. result = IF ~f.readable THEN Failed("DOCX_PARSE_FAILED")
               ELSE IF tables # Found(<<>>, <<>>) THEN tables ELSE ParseDocxParagraphs(text)
  BY DEF ParseDocx, DocxTables, tables, text, singles, cells, words
<1>9. Straight(Failed("DOCX_PARSE_FAILED"), 0)
  BY FailedStraight
<1> HIDE DEF result
<1>10. Straight(result, 0)
  BY <1>1, <1>7, <1>8, <1>9
<1>11. QED
  BY <1>10 DEF result

\* The numbers of a DOCX go on from table to table.
LEMMA FileStraight ==
  ASSUME NEW f \in Files, f.ext = "docx"
  PROVE  Straight(ParseFile(f), 0)
<1>1. f.tables \in Seq(Seq(Seq(STRING))) /\ f.lines \in Seq(Seq(STRING))
  BY FilesAreFiles DEF FORMAT_MAP
<1>2. Straight(ParseDocx(f), 0) /\ Straight(Failed("ROW_LIMIT_EXCEEDED"), 0)
  BY <1>1, DocxStraight, FailedStraight
<1>3. ParseFile(f) = WithinLimit(ParseDocx(f))
  BY DEF ParseFile
<1>4. QED
  BY <1>2, <1>3 DEF WithinLimit

LEMMA MaxThere ==
  ASSUME NEW n \in Nat, NEW I, I \subseteq 1 .. n, NEW i \in I
  PROVE  Max(I) \in I /\ Max(I) >= i
<1> DEFINE Above == {k \in Nat : (\E j \in I : j >= n - k) => \E m \in I : \A j \in I : m >= j}
<1>1. 0 \in Above
  <2>1. ASSUME NEW j \in I, j >= n - 0 PROVE \A g \in I : j >= g
    BY <2>1
  <2>2. QED
    BY <2>1
<1>2. ASSUME NEW k \in Nat, k \in Above PROVE k + 1 \in Above
  <2> SUFFICES ASSUME NEW j \in I, j >= n - (k + 1), \A g \in I : ~(g >= n - k)
               PROVE  \E m \in I : \A g \in I : m >= g
    BY <1>2
  <2>1. \A g \in I : g \in Nat
    OBVIOUS
  <2>2. \A g \in I : j >= g
    BY <2>1
  <2>3. QED
    BY <2>2
<1>3. n \in Above
  <2> HIDE DEF Above
  <2>1. QED
    BY <1>1, <1>2, Induction
<1>4. PICK m \in I : \A j \in I : m >= j
  <2>1. i \in 1 .. n /\ i >= n - n
    OBVIOUS
  <2>2. QED
    BY <1>3, <2>1
<1>5. Max(I) \in I /\ \A j \in I : Max(I) >= j
  BY <1>4 DEF Max
<1>6. QED
  BY <1>5

\* A header that names both fields names one of them beyond the first column.
LEMMA HeadingThere ==
  ASSUME NEW D, NEW header \in Seq(D), NEW i \in 1 .. Len(header), NEW x, Names(header[i], x)
  PROVE  LastColumn(header, x) \in Nat /\ LastColumn(header, x) >= i
<1> DEFINE I == {k \in 1 .. Len(header) : LooselyNames(header[k], x)}
<1>1. Len(header) \in Nat
  BY LenProperties
<1>2. LastColumn(header, x) = IF I # {} THEN Max(I) ELSE 0
  BY DEF LastColumn, SelectLastInSeq
<1>3. i \in I /\ I \subseteq 1 .. Len(header)
  BY DEF LooselyNames
<1> HIDE DEF I
<1>4. Max(I) \in I /\ Max(I) >= i
  BY <1>1, <1>3, MaxThere
<1>5. Max(I) \in 1 .. Len(header) /\ I # {}
  BY <1>3, <1>4, Zenon
<1>6. Max(I) \in Nat
  BY <1>1, <1>5
<1>7. QED
  BY <1>2, <1>4, <1>5, <1>6, Zenon

LEMMA HeaderThere ==
  ASSUME NEW D, NEW table \in Seq(Seq(D)), NEW from, Headed(table, from)
  PROVE  /\ table # <<>> /\ Head(table) = table[1] /\ Head(table) \in Seq(D)
         /\ \E i \in 1 .. Len(Head(table)) : i >= from /\ \E x \in Named : Names(Head(table)[i], x)
<1> DEFINE E == Seq(D)
<1>1. table \in Seq(E) /\ table # <<>>
  BY DEF Headed
<1> HIDE DEF E
<1>2. Head(table) \in E /\ Head(table) = table[1]
  BY <1>1, HeadTailProperties
<1>3. Head(table) \in Seq(D)
  BY <1>2 DEF E
<1>4. DOMAIN Head(table) = 1 .. Len(Head(table))
  BY <1>3, LenProperties
<1>5. QED
  BY <1>1, <1>2, <1>3, <1>4 DEF Headed, Naming

\* A header with a heading at a column that counts is not passed over.
LEMMA HeadedThere ==
  ASSUME NEW D, NEW table \in Seq(Seq(D)), NEW from \in Nat, Headed(table, from)
  PROVE  \/ LastColumn(Head(table), "name") \in Nat /\ LastColumn(Head(table), "name") >= from
         \/ LastColumn(Head(table), "email") \in Nat /\ LastColumn(Head(table), "email") >= from
<1> DEFINE header == Head(table)
<1>1. PICK i \in 1 .. Len(header), x \in Named : i >= from /\ Names(header[i], x)
  BY HeaderThere
<1>2. header \in Seq(D)
  BY HeaderThere
<1> HIDE DEF header
<1>3. LastColumn(header, x) \in Nat /\ LastColumn(header, x) >= i /\ i \in Nat
  BY <1>1, <1>2, HeadingThere
<1>4. LastColumn(header, x) >= from
  BY <1>1, <1>3
<1>5. QED
  BY <1>1, <1>3, <1>4 DEF Named, header

\* The people of a table are rows below its header, and none of them is blank.
LEMMA PeopleThere ==
  ASSUME NEW D, NEW table \in Seq(Seq(D)), NEW from
  PROVE  /\ IsFiniteSet(PeopleOf(table, from)) /\ Cardinality(PeopleOf(table, from)) \in Nat
         /\ PeopleOf(table, from) # {} => Headed(table, from)
         /\ table # <<>> => Cardinality(PeopleOf(table, from)) <= Len(Tail(table))
         /\ NotBlank(table) = <<>> => Cardinality(PeopleOf(table, from)) = 0
         /\ NotBlank(table) # <<>> => Cardinality(PeopleOf(table, from)) <= Len(Tail(NotBlank(table)))
<1> DEFINE n == Len(table)
           P == PeopleOf(table, from)
           S == {k \in DOMAIN table : table[k] # <<>>}
           sheet == NotBlank(table)
           E == Seq(D)
<1>1. n \in Nat /\ DOMAIN table = 1 .. n
  BY LenProperties
<1>2. P \in SUBSET (2 .. n) /\ (P # {} => Headed(table, from))
  BY DEF PeopleOf
<1>3. P # {} => table # <<>> /\ table[1] # <<>>
  <2> SUFFICES ASSUME Headed(table, from) PROVE table # <<>> /\ table[1] # <<>>
    BY <1>2
  <2>1. table # <<>> /\ DOMAIN Head(table) # {}
    BY DEF Headed
  <2>2. Head(table) # <<>>
    <3>1. DOMAIN <<>> = {}
      OBVIOUS
    <3>2. QED
      BY <2>1, <3>1
  <2>3. Head(table) = table[1]
    <3>1. table \in Seq(E)
      OBVIOUS
    <3> HIDE DEF E
    <3>2. QED
      BY <2>1, <3>1, HeadTailProperties
  <2>4. QED
    BY <2>1, <2>2, <2>3
<1>4. \A k \in P : k \in DOMAIN table /\ table[k] # <<>>
  <2> SUFFICES ASSUME NEW k \in P PROVE k \in DOMAIN table /\ table[k] # <<>>
    OBVIOUS
  <2>1. PICK i : i \in DOMAIN table[k]
    BY DEF PeopleOf
  <2>2. table[k] # <<>>
    <3>1. DOMAIN <<>> = {}
      OBVIOUS
    <3>2. QED
      BY <2>1, <3>1
  <2>3. QED
    BY <1>1, <1>2, <2>2
<1>5. /\ sheet \in Seq(E) /\ Len(sheet) = Cardinality(S) /\ IsFiniteSet(S)
  <2> HIDE DEF E
  <2>1. table \in Seq(E)
    BY DEF E
  <2>2. sheet \in Seq(E)
    BY <2>1, NotBlankThere
  <2> DEFINE kept == InOrder(S, n)
  <2>3. S \in SUBSET (1 .. n)
    BY <1>1
  <2> HIDE DEF S, n
  <2>4. kept \in Seq(S \cap 1 .. n) /\ IsFiniteSet(S) /\ Len(kept) = Cardinality(S)
    BY <1>1, <2>3, InOrderThere, InOrderCount
  <2>5. Len(kept) \in Nat /\ DOMAIN kept = 1 .. Len(kept)
    BY <2>4, LenProperties
  <2>6. sheet = [j \in 1 .. Len(kept) |-> table[kept[j]]]
    BY <2>5 DEF NotBlank, At, S, n
  <2> HIDE DEF kept, sheet
  <2>7. sheet = [j \in 1 .. Len(kept) |-> sheet[j]]
    BY <2>6
  <2>8. Len(sheet) = Len(kept)
    BY <2>5, <2>7, LenThere
  <2>9. QED
    BY <2>2, <2>4, <2>8
<1>6. P \subseteq S \ {1} /\ (P # {} => 1 \in S)
  <2>1. P # {} => 1 \in DOMAIN table
    <3>1. P # {} => n # 0
      BY <1>2
    <3>2. QED
      BY <1>1, <3>1
  <2>2. 1 \notin P
    BY <1>2
  <2>3. QED
    BY <1>3, <1>4, <2>1, <2>2
<1> HIDE DEF P, S, sheet, E
<1>7. /\ IsFiniteSet(P) /\ Cardinality(P) \in Nat /\ (P = {} => Cardinality(P) = 0)
      /\ Cardinality(P) <= Cardinality(S \ {1})
  <2>1. IsFiniteSet(S \ {1})
    BY <1>5, FS_RemoveElement
  <2>2. IsFiniteSet(P) /\ Cardinality(P) <= Cardinality(S \ {1})
    BY <1>6, <2>1, FS_Subset
  <2>3. QED
    BY <2>2, FS_CardinalityType, FS_EmptySet
<1>8. P # {} => Cardinality(S \ {1}) = Cardinality(S) - 1
  BY <1>5, <1>6, FS_RemoveElement
<1>9. Cardinality(S) \in Nat
  BY <1>5, FS_CardinalityType
<1>10. sheet # <<>> => Len(Tail(sheet)) = Len(sheet) - 1 /\ Len(sheet) >= 1
  <2>1. Len(sheet) \in Nat
    BY <1>5, LenProperties
  <2>2. sheet # <<>> => Len(sheet) # 0 /\ Len(Tail(sheet)) = Len(sheet) - 1
    BY <1>5, EmptySeq, HeadTailProperties
  <2>3. QED
    BY <2>1, <2>2
<1>11. sheet = <<>> => P = {}
  <2>1. sheet = <<>> => Len(sheet) = 0
    OBVIOUS
  <2>2. QED
    BY <1>5, <1>7, <1>8, <1>9, <2>1
<1>12. sheet # <<>> => Cardinality(P) <= Len(Tail(sheet))
  BY <1>5, <1>7, <1>8, <1>9, <1>10
<1>13. table # <<>> => Cardinality(P) <= Len(Tail(table))
  <2>1. IsFiniteSet(2 .. n) /\ Cardinality(2 .. n) = IF 2 > n THEN 0 ELSE n - 1
    BY <1>1, FS_Interval
  <2>2. Cardinality(P) <= Cardinality(2 .. n)
    BY <1>2, <2>1, FS_Subset
  <2>3. table # <<>> => n # 0 /\ Len(Tail(table)) = n - 1
    <3> HIDE DEF E
    <3>1. table \in Seq(E)
      BY DEF E
    <3>2. QED
      BY <3>1, EmptySeq, HeadTailProperties
  <2>4. QED
    BY <1>1, <1>7, <2>1, <2>2, <2>3
<1>14. QED
  BY <1>2, <1>7, <1>11, <1>12, <1>13 DEF P, sheet

Enough(f, n) == Count(f) >= n

LEMMA RefusedThere ==
  ASSUME NEW why
  PROVE  Count(Failed(why)) = 1 /\ 1 \in DOMAIN Failed(why).errors /\ Failed(why).errors[1].why = why
<1> DEFINE e == [row |-> 0, why |-> why]
<1>1. Failed(why).rows = <<>> /\ Failed(why).errors = <<e>> /\ e.row = 0 /\ e.why = why
  BY DEF Failed, Found
<1> HIDE DEF e
<1>2. DOMAIN <<e>> = {1} /\ <<e>>[1] = e /\ Len(<<e>>) = 1 /\ Len(<<>>) = 0
  OBVIOUS
<1>3. QED
  BY <1>1, <1>2 DEF Count

LEMMA CountThere ==
  ASSUME NEW f, Neat(f)
  PROVE  Len(f.rows) \in Nat /\ Len(f.errors) \in Nat /\ Count(f) \in Nat
<1>1. PICK V : f.rows \in Seq([sourceRow : Nat, value : V]) /\ f.errors \in Seq([row : Nat, why : Reasons])
  BY DEF Neat, Tidy
<1>2. Len(f.rows) \in Nat /\ Len(f.errors) \in Nat
  BY <1>1, LenProperties
<1> DEFINE a == Len(f.rows)
           b == Len(f.errors)
<1>3. Count(f) = a + b /\ a \in Nat /\ b \in Nat
  BY <1>2, Zenon DEF Count
<1> HIDE DEF a, b
<1>4. Count(f) \in Nat
  BY <1>3
<1>5. QED
  BY <1>2, <1>4

LEMMA ConcatThere ==
  ASSUME NEW F, NEW a \in Seq(F), NEW b \in Seq(F)
  PROVE  /\ Len(a \o b) = Len(a) + Len(b) /\ Len(a) \in Nat /\ Len(b) \in Nat
         /\ \A i \in DOMAIN a : i \in DOMAIN (a \o b) /\ (a \o b)[i] = a[i]
         /\ \A i \in DOMAIN b : \E j \in DOMAIN (a \o b) : (a \o b)[j] = b[i]
<1> DEFINE s == a \o b
           m == Len(a)
           n == Len(b)
<1>1. /\ m \in Nat /\ n \in Nat /\ DOMAIN a = 1 .. m /\ DOMAIN b = 1 .. n
      /\ s \in Seq(F) /\ Len(s) = m + n
      /\ \A i \in 1 .. m + n : s[i] = IF i <= m THEN a[i] ELSE b[i - m]
  BY LenProperties, ConcatProperties
<1>2. DOMAIN s = 1 .. m + n
  BY <1>1, LenProperties
<1> HIDE DEF s, m, n
<1>3. ASSUME NEW i \in 1 .. m PROVE i \in 1 .. m + n /\ s[i] = a[i]
  BY <1>1
<1>4. ASSUME NEW i \in 1 .. n PROVE \E j \in 1 .. m + n : s[j] = b[i]
  <2>1. i + m \in 1 .. m + n /\ ~(i + m <= m) /\ (i + m) - m = i
    BY <1>1
  <2>2. s[i + m] = b[i]
    BY <1>1, <2>1
  <2>3. QED
    BY <2>1, <2>2
<1>5. QED
  BY <1>1, <1>2, <1>3, <1>4 DEF s, m, n

LEMMA ColumnsCount ==
  ASSUME NEW D, NEW data \in Seq(D), NEW map
  PROVE  Len(Columns(map, data)) = Len(data)
<1> DEFINE g == Columns(map, data)
<1>1. Len(data) \in Nat /\ DOMAIN data = 1 .. Len(data)
  BY LenProperties
<1>2. g = [k \in 1 .. Len(data) |-> g[k]]
  BY <1>1 DEF Columns
<1> HIDE DEF g
<1>3. QED
  BY <1>1, <1>2, LenThere DEF g

LEMMA CsvCounts ==
  ASSUME NEW f, NEW D, f.readable, Head(f.tables) \in Seq(Seq(D))
  PROVE  Enough(ParseCsv(f), Cardinality(PeopleOf(Head(f.tables), 1)))
<1> DEFINE table == Head(f.tables)
           sheet == NotBlank(table)
           g == [k \in DOMAIN Tail(sheet) |-> NormalizeRow(Head(sheet), Tail(sheet)[k])]
           E == Seq(D)
<1>2. CASE sheet = <<>>
  <2>1. ParseCsv(f) = Found(<<>>, <<>>) /\ Cardinality(PeopleOf(table, 1)) = 0
    BY <1>2, PeopleThere DEF ParseCsv
  <2>2. Count(Found(<<>>, <<>>)) = 0
    BY DEF Count, Found
  <2>3. QED
    BY <2>1, <2>2 DEF Enough
<1>3. CASE sheet # <<>>
  <2>1. table \in Seq(E)
    BY <1>3
  <2>2. Cardinality(PeopleOf(table, 1)) <= Len(Tail(sheet)) /\ Cardinality(PeopleOf(table, 1)) \in Nat
    BY <1>3, PeopleThere
  <2>3. ParseCsv(f) = Sort(g, Named, 1, 1)
    BY <1>3 DEF ParseCsv
  <2> HIDE DEF E, table
  <2>4. Tail(sheet) \in Seq(E)
    BY <1>3, <2>1, NotBlankThere, TailThere
  <2>5. Len(Tail(sheet)) \in Nat /\ DOMAIN Tail(sheet) = 1 .. Len(Tail(sheet))
    BY <2>4, LenProperties
  <2>6. g = [k \in 1 .. Len(Tail(sheet)) |-> g[k]]
    BY <2>5
  <2> HIDE DEF g, sheet
  <2>7. PICK V : g \in Seq(V)
    BY <2>5, <2>6, ListThere
  <2>8. Len(g) = Len(Tail(sheet))
    BY <2>5, <2>6, LenThere
  <2>9. Count(Sort(g, Named, 1, 1)) = Len(g)
    BY <2>7, SortCounts
  <2>10. Count(ParseCsv(f)) >= Cardinality(PeopleOf(table, 1))
    BY <2>2, <2>3, <2>5, <2>8, <2>9
  <2>11. QED
    BY <2>10 DEF Enough, table
<1>4. QED
  BY <1>2, <1>3

\* The header of a worksheet is its first row if that is not blank.
LEMMA SheetHeader ==
  ASSUME NEW D, NEW table \in Seq(Seq(D)), Headed(table, 1)
  PROVE  LET colMap == [x \in Fields |-> SelectInSeq(Head(NotBlank(table)), LAMBDA h : Names(h, x))]
         IN  ~(colMap.name = 0 /\ colMap.email = 0)
<1> DEFINE header == Head(table)
           sheet == NotBlank(table)
           S == {k \in DOMAIN table : table[k] # <<>>}
           n == Len(table)
           kept == InOrder(S, n)
           E == Seq(D)
<1>1. /\ table # <<>> /\ header = table[1] /\ header \in Seq(D)
      /\ \E i \in 1 .. Len(header) : i >= 1 /\ \E x \in Named : Names(header[i], x)
  BY HeaderThere
<1>2. n \in Nat /\ DOMAIN table = 1 .. n /\ n # 0
  BY <1>1, LenProperties, EmptySeq
<1>3. PICK i \in 1 .. Len(header), x \in Named : Names(header[i], x)
  BY <1>1
<1>4. header # <<>>
  <2>1. header = <<>> => Len(header) = 0
    OBVIOUS
  <2>2. QED
    BY <1>3, <2>1
<1>5. S \in SUBSET (1 .. n) /\ 1 \in S
  BY <1>1, <1>2, <1>4
<1>6. Head(sheet) = header
  <2>1. sheet = [j \in DOMAIN kept |-> table[kept[j]]]
    BY DEF NotBlank, At
  <2> HIDE DEF S, n, kept, sheet, header
  <2>2. /\ kept \in Seq(S \cap 1 .. n)
        /\ \A i1, j1 \in DOMAIN kept : i1 < j1 => kept[i1] < kept[j1]
        /\ \A k \in S : \E j \in DOMAIN kept : kept[j] = k
    BY <1>2, <1>5, InOrderThere, InOrderSorted DEF kept, Ascends, Lists
  <2>3. Len(kept) \in Nat /\ DOMAIN kept = 1 .. Len(kept) /\ \A j \in 1 .. Len(kept) : kept[j] \in 1 .. n
    BY <2>2, LenProperties, ElementOfSeq
  <2>4. PICK j \in 1 .. Len(kept) : kept[j] = 1
    BY <1>5, <2>2, <2>3
  <2>5. 1 \in 1 .. Len(kept)
    BY <2>3, <2>4
  <2>6. kept[1] = 1
    <3>1. kept[1] \in 1 .. n /\ (1 < j => kept[1] < kept[j])
      BY <2>2, <2>3, <2>4, <2>5
    <3>2. j = 1 \/ 1 < j
      BY <2>3, <2>4
    <3>3. QED
      BY <1>2, <2>4, <3>1, <3>2
  <2>7. sheet[1] = table[1] /\ DOMAIN sheet = 1 .. Len(kept)
    BY <2>1, <2>3, <2>5, <2>6
  <2>8. sheet \in Seq(E)
    BY NotBlankThere DEF sheet
  <2> HIDE DEF E
  <2>9. sheet # <<>>
    <3>1. DOMAIN <<>> = {}
      OBVIOUS
    <3>2. QED
      BY <2>5, <2>7, <3>1
  <2>10. QED
    BY <1>1, <2>7, <2>8, <2>9, HeadTailProperties
<1> HIDE DEF header, sheet
<1> DEFINE I == {k \in 1 .. Len(header) : Names(header[k], x)}
<1>7. SelectInSeq(header, LAMBDA h : Names(h, x)) = IF I # {} THEN Min(I) ELSE 0
  BY DEF SelectInSeq
<1>8. i \in I /\ I \subseteq 1 .. Len(header) /\ Len(header) \in Nat
  BY <1>1, <1>3, LenProperties
<1> HIDE DEF I
<1>9. Min(I) \in 1 .. Len(header)
  BY <1>8, MinThere
<1>10. SelectInSeq(header, LAMBDA h : Names(h, x)) # 0
  BY <1>7, <1>8, <1>9
<1>11. "name" \in Fields /\ "email" \in Fields /\ x \in {"name", "email"}
  BY <1>3 DEF Named, Fields, HEADER_ALIASES
<1> DEFINE at(f) == SelectInSeq(header, LAMBDA h : Names(h, f))
           colMap == [f \in Fields |-> at(f)]
<1>12. at(x) # 0
  BY <1>10
<1> HIDE DEF at
<1>13. colMap.name = at("name") /\ colMap.email = at("email")
  BY <1>11
<1> HIDE DEF colMap
<1>14. ~(colMap.name = 0 /\ colMap.email = 0)
  BY <1>11, <1>12, <1>13
<1>15. QED
  BY <1>6, <1>14 DEF sheet, colMap, at

LEMMA XlsxCounts ==
  ASSUME NEW f, NEW D, f.readable, f.tables # <<>> => Head(f.tables) \in Seq(Seq(D))
  PROVE  /\ f.tables # <<>> => Enough(ParseXlsx(f), Cardinality(PeopleOf(Head(f.tables), 1)))
         /\ f.tables = <<>> => Enough(ParseXlsx(f), 0)
<1> DEFINE table == Head(f.tables)
           sheet == NotBlank(table)
           colMap == [x \in Fields |-> SelectInSeq(Head(sheet), LAMBDA h : Names(h, x))]
           sorted == Sort(Columns(colMap, Tail(sheet)), Named, 2, 1)
           E == Seq(D)
<1>2. CASE f.tables = <<>>
  BY <1>2, RefusedThere DEF ParseXlsx, Enough
<1>3. CASE f.tables # <<>>
  <2>1. ParseXlsx(f) = IF sheet = <<>> THEN Found(<<>>, <<>>)
                       ELSE IF colMap.name = 0 /\ colMap.email = 0 THEN Failed("NO_HEADER") ELSE sorted
    BY <1>3 DEF ParseXlsx
  <2>2. /\ table \in Seq(E) /\ Cardinality(PeopleOf(table, 1)) \in Nat
        /\ IsFiniteSet(PeopleOf(table, 1)) /\ (PeopleOf(table, 1) # {} => Headed(table, 1))
        /\ sheet = <<>> => Cardinality(PeopleOf(table, 1)) = 0
        /\ sheet # <<>> => Cardinality(PeopleOf(table, 1)) <= Len(Tail(sheet))
    BY <1>3, PeopleThere
  <2> HIDE DEF E, table
  <2>9. ASSUME sheet # <<>>, colMap.name = 0, colMap.email = 0 PROVE Cardinality(PeopleOf(table, 1)) = 0
    <3>1. ~Headed(table, 1)
      BY <1>3, <2>9, SheetHeader DEF table, E
    <3>2. QED
      BY <2>2, <3>1, FS_EmptySet
  <2>3. sheet # <<>> => Tail(sheet) \in Seq(E)
    BY <2>2, NotBlankThere, TailThere
  <2> HIDE DEF sheet, colMap
  <2>4. ASSUME sheet # <<>> PROVE Count(sorted) >= Cardinality(PeopleOf(table, 1))
    <3> DEFINE columns == Columns(colMap, Tail(sheet))
    <3>1. PICK V : columns \in Seq(V)
      BY <2>3, <2>4, ColumnsThere
    <3>2. Len(columns) = Len(Tail(sheet))
      BY <2>3, <2>4, ColumnsCount
    <3>3. Count(sorted) = Len(Tail(sheet))
      <4> HIDE DEF columns
      <4>1. Count(Sort(columns, Named, 2, 1)) = Len(columns)
        BY <3>1, SortCounts
      <4>2. QED
        BY <3>2, <4>1 DEF columns
    <3>4. Len(Tail(sheet)) \in Nat
      BY <2>3, <2>4, LenProperties
    <3>5. QED
      BY <2>2, <2>4, <3>3, <3>4
  <2>5. Count(Found(<<>>, <<>>)) = 0
    BY DEF Count, Found
  <2>6. Count(Failed("NO_HEADER")) = 1
    BY RefusedThere
  <2> HIDE DEF sorted
  <2>7. Enough(ParseXlsx(f), Cardinality(PeopleOf(table, 1)))
    <3>1. CASE sheet = <<>>
      BY <2>1, <2>2, <2>5, <3>1 DEF Enough
    <3>2. CASE sheet # <<>>
      BY <2>1, <2>2, <2>4, <2>6, <2>9, <3>2 DEF Enough
    <3>3. QED
      BY <3>1, <3>2
  <2>8. QED
    BY <1>3, <2>7 DEF table
<1>4. QED
  BY <1>2, <1>3

\* A table that is passed over has nobody in it; of any other, everybody counts.
LEMMA HtmlTableCounts ==
  ASSUME NEW D, NEW table \in Seq(Seq(D)), NEW rowOffset \in Nat
  PROVE  LET more == ExtractHtmlTableRows(table, rowOffset) IN
         /\ more = Failed("NO_HEADER") => Cardinality(PeopleOf(table, 2)) = 0
         /\ Enough(more, Cardinality(PeopleOf(table, 2)))
<1> DEFINE headerMap == [x \in Fields |-> LastColumn(Head(table), x)]
           more == ExtractHtmlTableRows(table, rowOffset)
           columns == Columns(headerMap, Tail(table))
           sorted == Sort(columns, Named, rowOffset, rowOffset)
           E == Seq(D)
           people == Cardinality(PeopleOf(table, 2))
<1>1. /\ people \in Nat /\ (PeopleOf(table, 2) # {} => Headed(table, 2))
      /\ table # <<>> => people <= Len(Tail(table))
  BY PeopleThere
<1>2. PeopleOf(table, 2) = {} => people = 0
  BY FS_EmptySet
<1>3. CASE table = <<>>
  <2>1. more = Failed("NO_ROWS")
    BY <1>3 DEF ExtractHtmlTableRows
  <2>2. more # Failed("NO_HEADER") /\ Count(more) = 1
    <3>1. Failed("NO_ROWS").errors[1].why = "NO_ROWS" /\ Failed("NO_HEADER").errors[1].why = "NO_HEADER"
      BY RefusedThere
    <3>2. Failed("NO_ROWS") # Failed("NO_HEADER")
      BY <3>1
    <3>3. QED
      BY <2>1, <3>2, RefusedThere
  <2>3. people = 0
    BY <1>1, <1>2, <1>3 DEF Headed
  <2>4. QED
    BY <2>2, <2>3 DEF Enough
<1>4. CASE table # <<>> /\ headerMap.name <= 1 /\ headerMap.email <= 1
  <2>1. more = Failed("NO_HEADER")
    BY <1>4 DEF ExtractHtmlTableRows
  <2>2. PeopleOf(table, 2) = {}
    <3>1. headerMap.name = LastColumn(Head(table), "name") /\ headerMap.email = LastColumn(Head(table), "email")
      BY DEF Fields, HEADER_ALIASES
    <3> DEFINE m == headerMap.name
               e == headerMap.email
    <3>2. Headed(table, 2) => (m \in Nat /\ m >= 2) \/ (e \in Nat /\ e >= 2)
      BY <3>1, HeadedThere
    <3> HIDE DEF m, e
    <3>3. m <= 1 /\ e <= 1
      BY <1>4 DEF m, e
    <3>4. ~Headed(table, 2)
      BY <3>2, <3>3
    <3>5. QED
      BY <1>1, <3>4, Zenon
  <2>3. QED
    BY <1>2, <2>1, <2>2, RefusedThere DEF Enough
<1>5. CASE table # <<>> /\ ~(headerMap.name <= 1 /\ headerMap.email <= 1)
  <2>1. more = sorted
    BY <1>5 DEF ExtractHtmlTableRows
  <2>2. Tail(table) \in Seq(E)
    <3>1. table \in Seq(E)
      OBVIOUS
    <3> HIDE DEF E
    <3>2. QED
      BY <1>5, <3>1, TailThere
  <2> HIDE DEF E, headerMap
  <2>3. Len(columns) = Len(Tail(table)) /\ \E V : columns \in Seq(V)
    BY <2>2, ColumnsThere, ColumnsCount
  <2>4. PICK V : columns \in Seq(V)
    BY <2>3
  <2> HIDE DEF columns
  <2>5. Count(sorted) = Len(columns) /\ \A k \in DOMAIN sorted.errors : sorted.errors[k].why = "EMPTY"
    BY <2>4, SortCounts
  <2> HIDE DEF sorted
  <2>6. sorted # Failed("NO_HEADER")
    <3>1. 1 \in DOMAIN Failed("NO_HEADER").errors /\ Failed("NO_HEADER").errors[1].why = "NO_HEADER"
      BY RefusedThere
    <3>2. QED
      BY <2>5, <3>1
  <2>7. Count(sorted) >= people
    <3>1. Len(Tail(table)) \in Nat
      BY <2>2, LenProperties
    <3>2. QED
      BY <1>1, <1>5, <2>3, <2>5, <3>1
  <2>8. QED
    BY <2>1, <2>6, <2>7 DEF Enough
<1>6. QED
  BY <1>3, <1>4, <1>5

LEMMA TableCounts ==
  ASSUME NEW D, NEW table \in Seq(Seq(D))
  PROVE  Count(ExtractTableRows(table)) >= Cardinality(PeopleOf(table, 1))
<1> DEFINE headerMap == [x \in Fields |-> LastColumn(Head(table), x)]
           more == ExtractTableRows(table)
           columns == Columns(headerMap, Tail(table))
           sorted == Sort(columns, Named, 2, 2)
           E == Seq(D)
           people == Cardinality(PeopleOf(table, 1))
<1>1. /\ people \in Nat /\ (PeopleOf(table, 1) # {} => Headed(table, 1))
      /\ table # <<>> => people <= Len(Tail(table))
  BY PeopleThere
<1>2. PeopleOf(table, 1) = {} => people = 0
  BY FS_EmptySet
<1>3. CASE table = <<>>
  <2>1. more = Found(<<>>, <<>>) /\ people = 0
    BY <1>1, <1>2, <1>3 DEF ExtractTableRows, Headed
  <2>2. Count(Found(<<>>, <<>>)) = 0
    BY DEF Count, Found
  <2>3. QED
    BY <2>1, <2>2
<1>4. CASE table # <<>> /\ headerMap.name = 0 /\ headerMap.email = 0
  <2>1. more = Failed("NO_HEADER")
    BY <1>4 DEF ExtractTableRows
  <2>2. PeopleOf(table, 1) = {}
    <3>1. headerMap.name = LastColumn(Head(table), "name") /\ headerMap.email = LastColumn(Head(table), "email")
      BY DEF Fields, HEADER_ALIASES
    <3>2. Headed(table, 1) => (headerMap.name \in Nat /\ headerMap.name >= 1) \/ (headerMap.email \in Nat /\ headerMap.email >= 1)
      BY <3>1, HeadedThere
    <3>3. ~(headerMap.name >= 1) /\ ~(headerMap.email >= 1)
      BY <1>4
    <3>4. QED
      BY <1>1, <3>2, <3>3, Zenon
  <2>3. Count(Failed("NO_HEADER")) \in Nat
    <3>1. Neat(Failed("NO_HEADER"))
      BY FailedThere DEF Reasons
    <3>2. QED
      BY <3>1, CountThere
  <2>4. QED
    BY <1>2, <2>1, <2>2, <2>3
<1>5. CASE table # <<>> /\ ~(headerMap.name = 0 /\ headerMap.email = 0)
  <2>1. more = sorted
    BY <1>5 DEF ExtractTableRows
  <2>2. Tail(table) \in Seq(E)
    <3>1. table \in Seq(E)
      OBVIOUS
    <3> HIDE DEF E
    <3>2. QED
      BY <1>5, <3>1, TailThere
  <2> HIDE DEF E, headerMap
  <2>3. Len(columns) = Len(Tail(table)) /\ \E V : columns \in Seq(V)
    BY <2>2, ColumnsThere, ColumnsCount
  <2>4. PICK V : columns \in Seq(V)
    BY <2>3
  <2> HIDE DEF columns
  <2>5. Count(sorted) = Len(columns)
    BY <2>4, SortCounts
  <2>6. Len(Tail(table)) \in Nat
    BY <2>2, LenProperties
  <2> HIDE DEF sorted
  <2>7. QED
    BY <1>1, <1>5, <2>1, <2>3, <2>5, <2>6
<1>6. QED
  BY <1>3, <1>4, <1>5

\* The people of the first k tables.
Upto(tables, k, from) == UNION {{t} \X PeopleOf(tables[t], from) : t \in 1 .. k}

LEMMA UptoNone ==
  ASSUME NEW tables, NEW from
  PROVE  IsFiniteSet(Upto(tables, 0, from)) /\ Cardinality(Upto(tables, 0, from)) = 0
<1>1. Upto(tables, 0, from) = {}
  BY DEF Upto
<1>2. QED
  BY <1>1, FS_EmptySet

LEMMA UptoNext ==
  ASSUME NEW tables, NEW k \in Nat, NEW from, IsFiniteSet(Upto(tables, k, from)), IsFiniteSet(PeopleOf(tables[k + 1], from))
  PROVE  /\ IsFiniteSet(Upto(tables, k + 1, from))
         /\ Cardinality(Upto(tables, k + 1, from)) = Cardinality(Upto(tables, k, from)) + Cardinality(PeopleOf(tables[k + 1], from))
<1> DEFINE A == Upto(tables, k, from)
           P == PeopleOf(tables[k + 1], from)
           B == {k + 1} \X P
           C == Upto(tables, k + 1, from)
<1>1. \A t : t \in 1 .. k + 1 <=> t \in 1 .. k \/ t = k + 1
  OBVIOUS
<1>2. k + 1 \notin 1 .. k
  OBVIOUS
<1>3. C = A \cup B
  BY <1>1, Zenon DEF Upto
<1>4. A \cap B = {}
  BY <1>2 DEF Upto
<1>5. IsFiniteSet({k + 1}) /\ Cardinality({k + 1}) = 1
  BY FS_Singleton
<1> HIDE DEF A, P, C
<1>6. IsFiniteSet(P) /\ IsFiniteSet(A)
  BY DEF P, A
<1>7. IsFiniteSet(B) /\ Cardinality(B) = 1 * Cardinality(P)
  BY <1>5, <1>6, FS_Product
<1> HIDE DEF B
<1>8. IsFiniteSet(A \cup B) /\ Cardinality(A \cup B) = Cardinality(A) + Cardinality(B) - Cardinality(A \cap B)
  BY <1>6, <1>7, FS_Union
<1>9. Cardinality(A) \in Nat /\ Cardinality(P) \in Nat /\ Cardinality(A \cap B) = 0
  BY <1>4, <1>6, FS_CardinalityType, FS_EmptySet
<1>10. IsFiniteSet(C) /\ Cardinality(C) = Cardinality(A) + Cardinality(P)
  BY <1>3, <1>7, <1>8, <1>9
<1>11. QED
  BY <1>10 DEF A, P, C

LEMMA AddTableCounts ==
  ASSUME NEW D, NEW table \in Seq(Seq(D)), NEW found, Neat(found), NEW n \in Nat, Enough(found, n)
  PROVE  Enough(AddTable(found, table), n + Cardinality(PeopleOf(table, 2)))
<1> DEFINE E == Seq(D)
           more == ExtractHtmlTableRows(table, Len(found.rows))
           people == Cardinality(PeopleOf(table, 2))
           both == Joined(found, more)
<1>1. Len(found.rows) \in Nat /\ Count(found) \in Nat /\ people \in Nat
  BY CountThere, PeopleThere
<1>2. Neat(more)
  <2>1. table \in Seq(E)
    OBVIOUS
  <2> HIDE DEF E
  <2>2. QED
    BY <1>1, <2>1, HtmlTableThere
<1>3. (more = Failed("NO_HEADER") => people = 0) /\ Enough(more, people)
  BY <1>1, HtmlTableCounts
<1>4. AddTable(found, table) = IF more = Failed("NO_HEADER") THEN found ELSE both
  BY DEF AddTable
<1> HIDE DEF more, people
<1>5. CASE more = Failed("NO_HEADER")
  <2>1. people = 0 /\ AddTable(found, table) = found /\ n + people = n
    BY <1>3, <1>4, <1>5
  <2>2. QED
    BY <2>1 DEF people
<1>6. CASE more # Failed("NO_HEADER")
  <2>1. PICK V : found.rows \in Seq([sourceRow : Nat, value : V]) /\ found.errors \in Seq([row : Nat, why : Reasons])
    BY DEF Neat, Tidy
  <2>2. PICK W : more.rows \in Seq([sourceRow : Nat, value : W]) /\ more.errors \in Seq([row : Nat, why : Reasons])
    BY <1>2 DEF Neat, Tidy
  <2> DEFINE R == [sourceRow : Nat, value : V \cup W]
             F == [row : Nat, why : Reasons]
  <2>3. found.rows \in Seq(R) /\ more.rows \in Seq(R) /\ found.errors \in Seq(F) /\ more.errors \in Seq(F)
    <3>1. [sourceRow : Nat, value : V] \subseteq R /\ [sourceRow : Nat, value : W] \subseteq R
      OBVIOUS
    <3> HIDE DEF R
    <3>2. Seq([sourceRow : Nat, value : V]) \subseteq Seq(R) /\ Seq([sourceRow : Nat, value : W]) \subseteq Seq(R)
      BY <3>1, SeqMonotonic
    <3>3. QED
      BY <2>1, <2>2, <3>2, Zenon
  <2>4. both.rows = found.rows \o more.rows /\ both.errors = found.errors \o more.errors
    BY DEF Joined, Found
  <2> HIDE DEF R, F, both
  <2>5. /\ Len(both.rows) = Len(found.rows) + Len(more.rows)
        /\ Len(both.errors) = Len(found.errors) + Len(more.errors)
        /\ \A i \in DOMAIN found.errors : i \in DOMAIN both.errors /\ both.errors[i] = found.errors[i]
        /\ \A i \in DOMAIN more.errors : \E j \in DOMAIN both.errors : both.errors[j] = more.errors[i]
        /\ Len(found.rows) \in Nat /\ Len(found.errors) \in Nat
        /\ Len(more.rows) \in Nat /\ Len(more.errors) \in Nat
    <3>1. /\ Len(both.rows) = Len(found.rows) + Len(more.rows)
          /\ Len(found.rows) \in Nat /\ Len(more.rows) \in Nat
      BY <2>3, <2>4, ConcatThere
    <3>2. /\ Len(both.errors) = Len(found.errors) + Len(more.errors)
          /\ Len(found.errors) \in Nat /\ Len(more.errors) \in Nat
          /\ \A i \in DOMAIN found.errors : i \in DOMAIN both.errors /\ both.errors[i] = found.errors[i]
          /\ \A i \in DOMAIN more.errors : \E j \in DOMAIN both.errors : both.errors[j] = more.errors[i]
      <4> DEFINE a == found.errors
                 b == more.errors
                 s == both.errors
      <4>1. s = a \o b /\ a \in Seq(F) /\ b \in Seq(F)
        BY <2>3, <2>4
      <4> HIDE DEF a, b, s
      <4>2. /\ Len(a \o b) = Len(a) + Len(b) /\ Len(a) \in Nat /\ Len(b) \in Nat
            /\ \A i \in DOMAIN a : i \in DOMAIN (a \o b) /\ (a \o b)[i] = a[i]
            /\ \A i \in DOMAIN b : \E j \in DOMAIN (a \o b) : (a \o b)[j] = b[i]
        BY <4>1, ConcatThere
      <4>3. /\ Len(s) = Len(a) + Len(b) /\ Len(a) \in Nat /\ Len(b) \in Nat
            /\ \A i \in DOMAIN a : i \in DOMAIN s /\ s[i] = a[i]
            /\ \A i \in DOMAIN b : \E j \in DOMAIN s : s[j] = b[i]
        BY <4>1, <4>2, Zenon
      <4>4. QED
        BY <4>3 DEF a, b, s
    <3>3. QED
      BY <3>1, <3>2
  <2>6. Count(both) = Count(found) + Count(more)
    <3> DEFINE a == Len(found.rows)
               b == Len(found.errors)
               c == Len(more.rows)
               d == Len(more.errors)
    <3>1. Count(both) = (a + c) + (b + d) /\ Count(found) = a + b /\ Count(more) = c + d
      BY <2>5, Zenon DEF Count
    <3>2. a \in Nat /\ b \in Nat /\ c \in Nat /\ d \in Nat
      BY <2>5
    <3> HIDE DEF a, b, c, d
    <3>3. QED
      BY <3>1, <3>2
  <2>9. Enough(both, n + people)
    <3>1. Count(found) \in Nat /\ Count(more) \in Nat
      BY <1>1, <1>2, CountThere
    <3>2. people \in Nat
      BY <1>1 DEF people
    <3>3. QED
      BY <1>3, <2>6, <3>1, <3>2 DEF Enough
  <2>10. AddTable(found, table) = both
    BY <1>4, <1>6
  <2>11. QED
    BY <2>9, <2>10 DEF people
<1>7. QED
  BY <1>5, <1>6

LEMMA TablesCount ==
  ASSUME NEW D, NEW tables \in Seq(Seq(Seq(D)))
  PROVE  Enough(FoldLeft(AddTable, Found(<<>>, <<>>), tables), Cardinality(Upto(tables, Len(tables), 2)))
<1> DEFINE n == Len(tables)
           T == Seq(Seq(D))
           E == Seq(D)
           found == FoldLeft(AddTable, Found(<<>>, <<>>), tables)
<1>1. PICK h : /\ found = h[n] /\ h[0] = Found(<<>>, <<>>)
               /\ \A k \in Nat : k + 1 <= n => h[k + 1] = AddTable(h[k], tables[k + 1])
  BY FoldSteps
<1>2. n \in Nat /\ \A k \in 1 .. n : tables[k] \in Seq(E)
  <2>1. tables \in Seq(T)
    OBVIOUS
  <2> HIDE DEF T
  <2>2. n \in Nat /\ \A k \in 1 .. n : tables[k] \in T
    BY <2>1, LenProperties, ElementOfSeq
  <2>3. QED
    BY <2>2 DEF T
<1>3. \A k \in 1 .. n : IsFiniteSet(PeopleOf(tables[k], 2))
  BY <1>2, PeopleThere
<1> HIDE DEF n, found
<1> DEFINE Good == {k \in Nat : k <= n => /\ Neat(h[k]) /\ IsFiniteSet(Upto(tables, k, 2))
                                          /\ Enough(h[k], Cardinality(Upto(tables, k, 2)))}
<1>4. 0 \in Good
  <2>1. Count(Found(<<>>, <<>>)) = 0
    BY DEF Count, Found
  <2>2. QED
    BY <1>1, <2>1, EmptyThere, UptoNone DEF Enough
<1>5. ASSUME NEW k \in Nat, k \in Good PROVE k + 1 \in Good
  <2> SUFFICES ASSUME k + 1 <= n
               PROVE  /\ Neat(h[k + 1]) /\ IsFiniteSet(Upto(tables, k + 1, 2))
                      /\ Enough(h[k + 1], Cardinality(Upto(tables, k + 1, 2)))
    OBVIOUS
  <2>1. k <= n /\ k + 1 \in 1 .. n
    BY <1>2
  <2>2. /\ Neat(h[k]) /\ IsFiniteSet(Upto(tables, k, 2)) /\ Enough(h[k], Cardinality(Upto(tables, k, 2)))
        /\ h[k + 1] = AddTable(h[k], tables[k + 1]) /\ tables[k + 1] \in Seq(E)
        /\ IsFiniteSet(PeopleOf(tables[k + 1], 2))
    BY <1>1, <1>2, <1>3, <1>5, <2>1
  <2>3. /\ IsFiniteSet(Upto(tables, k + 1, 2))
        /\ Cardinality(Upto(tables, k + 1, 2)) = Cardinality(Upto(tables, k, 2)) + Cardinality(PeopleOf(tables[k + 1], 2))
    BY <2>2, UptoNext
  <2>4. Cardinality(Upto(tables, k, 2)) \in Nat
    BY <2>2, FS_CardinalityType
  <2>5. Enough(h[k + 1], Cardinality(Upto(tables, k + 1, 2)))
    BY <2>2, <2>3, <2>4, AddTableCounts
  <2>6. Neat(h[k + 1])
    <3> HIDE DEF E
    <3>1. QED
      BY <2>2, AddTableThere
  <2>7. QED
    BY <2>3, <2>5, <2>6
<1>6. n \in Good
  <2> HIDE DEF Good
  <2>1. QED
    BY <1>2, <1>4, <1>5, Induction
<1>7. Enough(found, Cardinality(Upto(tables, n, 2)))
  BY <1>1, <1>2, <1>6
<1>8. QED
  BY <1>7 DEF found, n

LEMMA UptoThere ==
  ASSUME NEW D, NEW tables \in Seq(Seq(Seq(D))), NEW from
  PROVE  IsFiniteSet(Upto(tables, Len(tables), from))
<1> DEFINE n == Len(tables)
           T == Seq(Seq(D))
<1>1. n \in Nat /\ \A k \in 1 .. n : tables[k] \in T
  <2>1. tables \in Seq(T)
    OBVIOUS
  <2> HIDE DEF T
  <2>2. QED
    BY <2>1, LenProperties, ElementOfSeq
<1>2. \A k \in 1 .. n : IsFiniteSet(PeopleOf(tables[k], from))
  BY <1>1, PeopleThere
<1> HIDE DEF n
<1> DEFINE Good == {k \in Nat : k <= n => IsFiniteSet(Upto(tables, k, from))}
<1>3. 0 \in Good
  BY UptoNone
<1>4. ASSUME NEW k \in Nat, k \in Good PROVE k + 1 \in Good
  <2> SUFFICES ASSUME k + 1 <= n PROVE IsFiniteSet(Upto(tables, k + 1, from))
    OBVIOUS
  <2>1. k <= n /\ k + 1 \in 1 .. n
    BY <1>1
  <2>2. IsFiniteSet(Upto(tables, k, from)) /\ IsFiniteSet(PeopleOf(tables[k + 1], from))
    BY <1>2, <1>4, <2>1
  <2>3. QED
    BY <2>2, UptoNext
<1>5. n \in Good
  <2> HIDE DEF Good
  <2>1. QED
    BY <1>1, <1>3, <1>4, Induction
<1>6. QED
  BY <1>1, <1>5 DEF n

LEMMA DocxCounts ==
  ASSUME NEW f, NEW W, f.tables \in Seq(Seq(Seq(W))), f.lines \in Seq(Seq(W)), f.readable
  PROVE  Enough(ParseDocx(f), Cardinality(Upto(f.tables, Len(f.tables), 2)))
<1> DEFINE tables == FoldLeft(AddTable, Found(<<>>, <<>>), f.tables)
           people == Cardinality(Upto(f.tables, Len(f.tables), 2))
           words == FlattenSeq(FlattenSeq(f.tables))
           cells == At(words, {k \in DOMAIN words : words[k] # ""})
           singles == [k \in DOMAIN cells |-> <<cells[k]>>]
           text == singles \o NotBlank(f.lines)
           result == ParseDocx(f)
<1>1. Enough(tables, people)
  BY TablesCount
<1>2. Count(Found(<<>>, <<>>)) = 0
  BY DEF Count, Found
<1>3. Neat(result)
  BY DocxThere
<1> HIDE DEF tables, people, singles, cells, words
<1>4. result = IF ~f.readable THEN Failed("DOCX_PARSE_FAILED")
               ELSE IF tables # Found(<<>>, <<>>) THEN tables ELSE ParseDocxParagraphs(text)
  BY DEF ParseDocx, DocxTables, tables, singles, cells, words
<1> HIDE DEF result, text
<1>6. CASE f.readable /\ tables # Found(<<>>, <<>>)
  <2>1. Enough(result, people)
    BY <1>1, <1>4, <1>6
  <2>2. QED
    BY <2>1 DEF result, people
<1>7. CASE f.readable /\ tables = Found(<<>>, <<>>)
  <2>1. 0 >= people
    BY <1>1, <1>2, <1>7 DEF Enough
  <2>2. Count(result) \in Nat
    BY <1>3, CountThere
  <2>3. people \in Nat
    <3> DEFINE T == Seq(Seq(W))
    <3>1. f.tables \in Seq(T)
      OBVIOUS
    <3>2. Len(f.tables) \in Nat
      <4> HIDE DEF T
      <4>1. QED
        BY <3>1, LenProperties
    <3>3. IsFiniteSet(Upto(f.tables, Len(f.tables), 2))
      BY UptoThere
    <3>4. QED
      BY <3>3, FS_CardinalityType DEF people
  <2>4. Count(result) >= people
    BY <2>1, <2>2, <2>3
  <2>5. QED
    BY <2>4 DEF Enough, result, people
<1>8. QED
  BY <1>6, <1>7

\* The length of the pieces put together, piece after piece.
LEMMA FlattenCounts ==
  ASSUME NEW A, NEW seqs \in Seq(Seq(A))
  PROVE  \E sum : /\ sum[Len(seqs)] = Len(FlattenSeq(seqs)) /\ sum[0] = 0
                  /\ \A k \in Nat : k + 1 <= Len(seqs) => sum[k + 1] = sum[k] + Len(seqs[k + 1])
<1> DEFINE n == Len(seqs)
           flatten == CHOOSE f : f = [i \in 1 .. n |-> IF i = 1 THEN seqs[i] ELSE f[i - 1] \o seqs[i]]
<1>1. n \in Nat /\ \A k \in 1 .. n : seqs[k] \in Seq(A)
  <2> DEFINE E == Seq(A)
  <2> HIDE DEF E
  <2>1. seqs \in Seq(E)
    BY DEF E
  <2>2. QED
    BY <2>1, LenProperties, ElementOfSeq DEF E
<1>2. Pieces(seqs, n, flatten)
  <2>1. \E f : f = [i \in 1 .. n |-> IF i = 1 THEN seqs[i] ELSE f[i - 1] \o seqs[i]]
    BY <1>1, PiecesThere DEF Pieces
  <2>2. flatten = [i \in 1 .. n |-> IF i = 1 THEN seqs[i] ELSE flatten[i - 1] \o seqs[i]]
    BY <2>1
  <2> HIDE DEF flatten
  <2>3. QED
    BY <2>2 DEF Pieces
<1>3. FlattenSeq(seqs) = IF n = 0 THEN seqs ELSE flatten[n]
  BY DEF FlattenSeq
<1>4. PICK f : f = flatten /\ Pieces(seqs, n, f)
  BY <1>2
<1> HIDE DEF flatten
<1> DEFINE sum == [k \in 0 .. n |-> IF k = 0 THEN 0 ELSE Len(f[k])]
<1>5. sum[n] = Len(FlattenSeq(seqs))
  <2>1. n = 0 => Len(FlattenSeq(seqs)) = 0
    BY <1>3
  <2>2. n # 0 => FlattenSeq(seqs) = f[n]
    BY <1>3, <1>4
  <2>3. n \in 0 .. n
    BY <1>1
  <2> HIDE DEF n
  <2>4. QED
    BY <2>1, <2>2, <2>3
<1>6. ASSUME NEW k \in Nat, k + 1 <= n PROVE sum[k + 1] = sum[k] + Len(seqs[k + 1])
  <2>1. k \in 0 .. n /\ k + 1 \in 0 .. n /\ k + 1 \in 1 .. n /\ k + 1 # 0
    BY <1>1, <1>6
  <2>2. f[k + 1] = IF k + 1 = 1 THEN seqs[k + 1] ELSE f[(k + 1) - 1] \o seqs[k + 1]
    <3>1. \A i \in 1 .. n : f[i] = IF i = 1 THEN seqs[i] ELSE f[i - 1] \o seqs[i]
      BY <1>4 DEF Pieces
    <3> HIDE DEF n
    <3>2. QED
      BY <2>1, <3>1
  <2>3. sum[k + 1] = Len(f[k + 1]) /\ sum[k] = IF k = 0 THEN 0 ELSE Len(f[k])
    BY <2>1
  <2>4. seqs[k + 1] \in Seq(A) /\ Len(seqs[k + 1]) \in Nat
    BY <1>1, <2>1, LenProperties
  <2> HIDE DEF sum
  <2>5. CASE k = 0
    <3>1. f[k + 1] = seqs[k + 1]
      BY <2>2, <2>5
    <3>2. QED
      BY <2>3, <2>4, <2>5, <3>1
  <2>6. CASE k # 0
    <3>1. k \in 1 .. n /\ (k + 1) - 1 = k /\ k + 1 # 1
      BY <2>1, <2>6
    <3>2. f[k] \in Seq(A) /\ f[k + 1] = f[k] \o seqs[k + 1]
      BY <1>4, <2>2, <3>1, PiecesGrow
    <3>3. Len(f[k + 1]) = Len(f[k]) + Len(seqs[k + 1])
      BY <2>4, <3>2, ConcatProperties
    <3>4. QED
      BY <2>3, <2>6, <3>3
  <2>7. QED
    BY <2>5, <2>6
<1>7. sum[0] = 0
  BY <1>1
<1> HIDE DEF sum
<1>8. QED
  BY <1>5, <1>6, <1>7 DEF n

\* A PDF whose tables give a row: its text is not looked at.
LEMMA PdfCounts ==
  ASSUME NEW f, NEW W, f.tables \in Seq(Seq(Seq(W))), f.lines \in Seq(Seq(W)), f.readable, PdfTables(f).rows # <<>>
  PROVE  Enough(ParsePdf(f), Cardinality(Upto(f.tables, Len(f.tables), 1)))
<1> DEFINE n == Len(f.tables)
           found == [k \in DOMAIN f.tables |-> ExtractTableRows(f.tables[k])]
           rows == FlattenSeq([k \in DOMAIN found |-> found[k].rows])
           errors == FlattenSeq([k \in DOMAIN found |-> found[k].errors])
           tables == Found(rows, errors)
           E == Seq(W)
           T == Seq(E)
           people(k) == Cardinality(Upto(f.tables, k, 1))
<1>1. n \in Nat /\ DOMAIN f.tables = 1 .. n /\ \A k \in 1 .. n : f.tables[k] \in T
  <2> HIDE DEF T
  <2>1. f.tables \in Seq(T)
    BY DEF T
  <2>2. QED
    BY <2>1, LenProperties, ElementOfSeq
<1>2. DOMAIN found = 1 .. n /\ \A k \in 1 .. n : Neat(found[k]) /\ found[k] = ExtractTableRows(f.tables[k])
  <2> HIDE DEF E
  <2>1. QED
    BY <1>1, TableThere
<1>3. \A k \in 1 .. n : /\ Count(found[k]) >= Cardinality(PeopleOf(f.tables[k], 1))
                        /\ IsFiniteSet(PeopleOf(f.tables[k], 1)) /\ Cardinality(PeopleOf(f.tables[k], 1)) \in Nat
  <2>1. ASSUME NEW k \in 1 .. n
        PROVE  /\ Count(found[k]) >= Cardinality(PeopleOf(f.tables[k], 1))
               /\ IsFiniteSet(PeopleOf(f.tables[k], 1)) /\ Cardinality(PeopleOf(f.tables[k], 1)) \in Nat
    <3>1. f.tables[k] \in Seq(Seq(W)) /\ found[k] = ExtractTableRows(f.tables[k])
      BY <1>1, <1>2
    <3> HIDE DEF found, n
    <3>2. QED
      BY <3>1, TableCounts, PeopleThere
  <2>2. QED
    BY <2>1
<1>4. PdfTables(f) = tables /\ tables.rows # <<>>
  BY DEF PdfTables
<1>5. ParsePdf(f) = tables
  BY <1>4 DEF ParsePdf
<1>7. tables.rows = rows /\ tables.errors = errors
  BY DEF Found
<1> DEFINE allRows == [k \in 1 .. n |-> found[k].rows]
           allErrors == [k \in 1 .. n |-> found[k].errors]
<1>8. rows = FlattenSeq(allRows) /\ errors = FlattenSeq(allErrors)
  BY <1>2
<1> HIDE DEF found, rows, errors, n, tables, T, E, people
<1>9. PICK V : /\ allRows \in Seq(Seq([sourceRow : Nat, value : V]))
               /\ allErrors \in Seq(Seq([row : Nat, why : Reasons]))
  BY <1>1, <1>2, ValuesTogether
<1>10. /\ Len(allRows) = n /\ Len(allErrors) = n
       /\ \A k \in 1 .. n : allRows[k] = found[k].rows /\ allErrors[k] = found[k].errors
  BY <1>1
<1>11. ASSUME NEW k \in 1 .. n PROVE Len(found[k].rows) \in Nat /\ Len(found[k].errors) \in Nat
  BY <1>2, CountThere
<1> HIDE DEF allRows, allErrors
<1> DEFINE R == [sourceRow : Nat, value : V]
           F == [row : Nat, why : Reasons]
<1> USE DEF R, F
<1>9a. allRows \in Seq(Seq(R)) /\ allErrors \in Seq(Seq(F))
  BY <1>9
<1> HIDE DEF R, F
<1>12. PICK a : /\ a[n] = Len(rows) /\ a[0] = 0
                /\ \A k \in Nat : k + 1 <= n => a[k + 1] = a[k] + Len(allRows[k + 1])
  <2>1. \E a : /\ a[Len(allRows)] = Len(FlattenSeq(allRows)) /\ a[0] = 0
               /\ \A k \in Nat : k + 1 <= Len(allRows) => a[k + 1] = a[k] + Len(allRows[k + 1])
    BY <1>9a, FlattenCounts
  <2>2. QED
    BY <1>8, <1>10, <2>1
<1>13. PICK b : /\ b[n] = Len(errors) /\ b[0] = 0
                /\ \A k \in Nat : k + 1 <= n => b[k + 1] = b[k] + Len(allErrors[k + 1])
  <2>1. \E b : /\ b[Len(allErrors)] = Len(FlattenSeq(allErrors)) /\ b[0] = 0
               /\ \A k \in Nat : k + 1 <= Len(allErrors) => b[k + 1] = b[k] + Len(allErrors[k + 1])
    BY <1>9a, FlattenCounts
  <2>2. QED
    BY <1>8, <1>10, <2>1
<1> DEFINE Good == {k \in Nat : k <= n =>
                      /\ a[k] \in Nat /\ b[k] \in Nat /\ IsFiniteSet(Upto(f.tables, k, 1))
                      /\ people(k) \in Nat /\ a[k] + b[k] >= people(k)}
<1>14. 0 \in Good
  <2>1. IsFiniteSet(Upto(f.tables, 0, 1)) /\ people(0) = 0
    BY UptoNone DEF people
  <2>2. QED
    BY <1>12, <1>13, <2>1
<1>15. ASSUME NEW k \in Nat, k \in Good PROVE k + 1 \in Good
  <2> SUFFICES ASSUME k + 1 <= n
               PROVE  /\ a[k + 1] \in Nat /\ b[k + 1] \in Nat /\ IsFiniteSet(Upto(f.tables, k + 1, 1))
                      /\ people(k + 1) \in Nat /\ a[k + 1] + b[k + 1] >= people(k + 1)
    OBVIOUS
  <2>1. k <= n /\ k + 1 \in 1 .. n
    BY <1>1
  <2>2. /\ a[k] \in Nat /\ b[k] \in Nat /\ IsFiniteSet(Upto(f.tables, k, 1))
        /\ people(k) \in Nat /\ a[k] + b[k] >= people(k)
    BY <1>15, <2>1
  <2> DEFINE p == Cardinality(PeopleOf(f.tables[k + 1], 1))
             c == Len(found[k + 1].rows)
             d == Len(found[k + 1].errors)
  <2>3. a[k + 1] = a[k] + c /\ b[k + 1] = b[k] + d /\ c \in Nat /\ d \in Nat
    BY <1>10, <1>11, <1>12, <1>13, <2>1, <2>2
  <2>4. p \in Nat /\ c + d >= p /\ IsFiniteSet(PeopleOf(f.tables[k + 1], 1))
    BY <1>3, <2>1 DEF Count
  <2>5. IsFiniteSet(Upto(f.tables, k + 1, 1)) /\ people(k + 1) = people(k) + p
    BY <2>2, <2>4, UptoNext DEF people
  <2> HIDE DEF c, d, p
  <2> DEFINE A == a[k]
             B == b[k]
             P == people(k)
             A1 == a[k + 1]
             B1 == b[k + 1]
             P1 == people(k + 1)
  <2>sums. /\ A \in Nat /\ B \in Nat /\ P \in Nat /\ c \in Nat /\ d \in Nat /\ p \in Nat
           /\ A + B >= P /\ c + d >= p
           /\ A1 = A + c /\ B1 = B + d /\ P1 = P + p
    BY <2>2, <2>3, <2>4, <2>5
  <2> HIDE DEF A, B, P, A1, B1, P1
  <2>all. A1 \in Nat /\ B1 \in Nat /\ P1 \in Nat /\ A1 + B1 >= P1
    BY <2>sums
  <2>7. a[k + 1] \in Nat /\ b[k + 1] \in Nat /\ people(k + 1) \in Nat
    BY <2>all DEF A1, B1, P1
  <2>8. a[k + 1] + b[k + 1] >= people(k + 1)
    BY <2>all DEF A1, B1, P1
  <2>9. QED
    BY <2>5, <2>7, <2>8
<1>16. n \in Good
  <2> HIDE DEF Good
  <2>1. QED
    BY <1>1, <1>14, <1>15, Induction
<1>17. Len(rows) \in Nat /\ Len(errors) \in Nat /\ Len(rows) + Len(errors) >= people(n)
  BY <1>1, <1>12, <1>13, <1>16
<1>18. Count(tables) >= people(n)
  BY <1>7, <1>17 DEF Count
<1>19. QED
  BY <1>5, <1>18 DEF Enough, people, n
----------------------------------------------------------------------------
(* Lines of text                                                           *)


LEMMA ParagraphsCount ==
  ASSUME NEW D, NEW lines \in Seq(D)
  PROVE  Count(ParseDocxParagraphs(lines)) = Len(lines)
<1> DEFINE g == [k \in DOMAIN lines |->
                   LET email == Cell(lines[k], SelectInSeq(lines[k], LAMBDA w : w \in Addresses))
                   IN  [name |-> Cell(lines[k], SelectInSeq(lines[k], LAMBDA w : w \notin {"", email})),
                        email |-> email, phone |-> "", ticketType |-> ""]]
<1>1. Len(lines) \in Nat /\ DOMAIN lines = 1 .. Len(lines)
  BY LenProperties
<1>2. g = [k \in 1 .. Len(lines) |-> g[k]]
  BY <1>1
<1>3. ParseDocxParagraphs(lines) = Sort(g, HasEmail, 0, 0)
  BY DEF ParseDocxParagraphs
<1> HIDE DEF g
<1>4. PICK V : g \in Seq(V)
  BY <1>1, <1>2, ListThere
<1>5. Len(g) = Len(lines)
  BY <1>1, <1>2, LenThere
<1>6. QED
  BY <1>3, <1>4, <1>5, SortCounts

\* Below the header of a text every line becomes a row or an error.
LEMMA TextCounts ==
  ASSUME NEW D, NEW lines \in Seq(D)
  PROVE  LET text == NotBlank(lines)
             header == SelectInSeq(text, HeaderLine)
         IN  Count(ParseTextRows(lines)) = Len(text) - header
<1> DEFINE text == NotBlank(lines)
           header == SelectInSeq(text, HeaderLine)
           rest == SubSeq(text, header + 1, Len(text))
           found == ParseDocxParagraphs(rest)
           rows == [j \in DOMAIN found.rows |-> [found.rows[j] EXCEPT !.sourceRow = @ + header]]
           errors == [j \in DOMAIN found.errors |-> [found.errors[j] EXCEPT !.row = @ + header]]
           result == ParseTextRows(lines)
<1>1. text \in Seq(D) /\ Len(text) \in Nat
  BY NotBlankThere, LenProperties
<1>2. result.rows = rows /\ result.errors = errors
  BY DEF ParseTextRows, Found
<1>3. header \in 0 .. Len(text)
  <2> DEFINE I == {i \in 1 .. Len(text) : HeaderLine(text[i])}
  <2>1. header = IF I # {} THEN Min(I) ELSE 0
    BY DEF SelectInSeq
  <2>2. I # {} => Min(I) \in I
    <3> HIDE DEF text
    <3>1. QED
      BY <1>1, MinThere
  <2>3. QED
    BY <1>1, <2>1, <2>2
<1> HIDE DEF text, header, result
<1>4. rest \in Seq(D) /\ Len(rest) = Len(text) - header
  BY <1>1, <1>3, SubSeqProperties
<1> HIDE DEF rest
<1>5. Neat(found) /\ Count(found) = Len(rest)
  BY <1>4, ParagraphsThere, ParagraphsCount
<1> HIDE DEF found
<1>6. PICK V : Tidy(found, V)
  BY <1>5 DEF Neat
<1>7. /\ Len(found.rows) \in Nat /\ DOMAIN found.rows = 1 .. Len(found.rows)
      /\ Len(found.errors) \in Nat /\ DOMAIN found.errors = 1 .. Len(found.errors)
  BY <1>6, LenProperties DEF Tidy
<1>8. rows = [j \in 1 .. Len(found.rows) |-> rows[j]] /\ errors = [j \in 1 .. Len(found.errors) |-> errors[j]]
  BY <1>7
<1> HIDE DEF rows, errors
<1>9. Len(rows) = Len(found.rows) /\ Len(errors) = Len(found.errors)
  BY <1>7, <1>8, LenThere
<1>10. Count(result) = Count(found)
  BY <1>2, <1>9 DEF Count
<1>11. QED
  BY <1>4, <1>5, <1>10 DEF text, header, result

\* The lines that count are no more than those.
LEMMA LinesThere ==
  ASSUME NEW f, NEW D, f.lines \in Seq(D)
  PROVE  LET text == NotBlank(f.lines)
             header == SelectInSeq(text, HeaderLine)
         IN  /\ f.ext = "pdf" => Cardinality(LinesOf(f)) <= Len(text) - header
             /\ f.ext # "pdf" => Cardinality(LinesOf(f)) = Len(text)
             /\ header \in 0 .. Len(text) /\ Len(text) \in Nat
             /\ Cardinality(LinesOf(f)) \in Nat
<1> DEFINE lines == f.lines
           n == Len(lines)
           S == {k \in DOMAIN lines : lines[k] # <<>>}
           kept == InOrder(S, n)
           text == NotBlank(lines)
           m == Len(kept)
           header == SelectInSeq(text, HeaderLine)
           heads == {h \in DOMAIN lines : f.ext = "pdf" /\ HeaderLine(lines[h])}
<1>1. n \in Nat /\ DOMAIN lines = 1 .. n
  BY LenProperties
<1>2. LinesOf(f) = {k \in S : heads = {} \/ \E h \in heads : h < k}
  BY DEF LinesOf
<1>3. text = [j \in DOMAIN kept |-> lines[kept[j]]]
  BY DEF NotBlank, At
<1>4. S \in SUBSET (1 .. n)
  BY <1>1
<1>5. \A k \in DOMAIN lines : HeaderLine(lines[k]) => k \in S
  <2>1. ~HeaderLine(<<>>)
    <3>1. DOMAIN <<>> = {}
      OBVIOUS
    <3>2. QED
      BY <3>1 DEF HeaderLine
  <2>2. QED
    BY <2>1
<1> HIDE DEF n, kept, text, header
<1>6. /\ kept \in Seq(S \cap 1 .. n) /\ m = Cardinality(S) /\ IsFiniteSet(S)
      /\ \A i, j \in DOMAIN kept : i < j => kept[i] < kept[j]
      /\ \A k \in S : \E j \in DOMAIN kept : kept[j] = k
  BY <1>1, <1>4, InOrderThere, InOrderCount, InOrderSorted DEF kept, Ascends, Lists
<1>7. /\ m \in Nat /\ DOMAIN kept = 1 .. m
      /\ \A j \in 1 .. m : kept[j] \in S /\ kept[j] \in 1 .. n
  BY <1>6, LenProperties, ElementOfSeq
<1>8. Len(text) = m /\ \A j \in 1 .. m : text[j] = lines[kept[j]]
  <2>1. text = [j \in 1 .. m |-> text[j]] /\ \A j \in 1 .. m : text[j] = lines[kept[j]]
    BY <1>3, <1>7
  <2>2. QED
    BY <1>7, <2>1, LenThere
<1>9. /\ header \in 0 .. m
      /\ \A i \in 1 .. m : HeaderLine(text[i]) => header <= i
  <2> DEFINE I == {i \in 1 .. m : HeaderLine(text[i])}
  <2>1. header = IF I # {} THEN Min(I) ELSE 0
    BY <1>8 DEF SelectInSeq, header
  <2>2. I # {} => Min(I) \in I /\ \A i \in I : Min(I) <= i
    <3> HIDE DEF m
    <3>1. QED
      BY <1>7, MinThere
  <2>3. \A i \in 1 .. m : HeaderLine(text[i]) => i \in I
    OBVIOUS
  <2>4. I \subseteq 1 .. m
    OBVIOUS
  <2> HIDE DEF I
  <2>5. CASE I = {}
    BY <1>7, <2>1, <2>3, <2>5
  <2>6. CASE I # {}
    <3>1. header \in I /\ \A i \in I : header <= i
      BY <2>1, <2>2, <2>6
    <3> HIDE DEF m
    <3>2. QED
      BY <1>7, <2>3, <2>4, <3>1
  <2>7. QED
    BY <2>5, <2>6
<1>10. LinesOf(f) \subseteq S
  BY <1>2
<1>11. IsFiniteSet(LinesOf(f)) /\ Cardinality(LinesOf(f)) \in Nat
  BY <1>6, <1>10, FS_Subset, FS_CardinalityType
<1>12. ASSUME f.ext # "pdf" PROVE Cardinality(LinesOf(f)) = m
  <2>1. LinesOf(f) = S
    BY <1>2, <1>12
  <2>2. QED
    BY <1>6, <2>1
<1>13. ASSUME f.ext = "pdf" PROVE Cardinality(LinesOf(f)) <= m - header
  <2> HIDE DEF m
  <2> DEFINE J == header + 1 .. m
             T == {kept[j] : j \in J}
             g == [j \in J |-> kept[j]]
  <2>1. LinesOf(f) \subseteq T
    <3> SUFFICES ASSUME NEW k \in LinesOf(f) PROVE k \in T
      OBVIOUS
    <3>1. PICK j \in 1 .. m : kept[j] = k
      BY <1>6, <1>7, <1>10
    <3>2. CASE heads = {}
      <4>1. \A i \in 1 .. m : ~HeaderLine(text[i])
        BY <1>4, <1>7, <1>8, <1>13, <3>2
      <4>2. header = 0
        <5>1. {i \in 1 .. m : HeaderLine(text[i])} = {}
          BY <4>1
        <5>2. QED
          BY <1>8, <5>1 DEF SelectInSeq, header
      <4>3. QED
        BY <3>1, <4>2
    <3>3. CASE heads # {}
      <4>1. PICK h \in heads : h < k
        BY <1>2, <3>3
      <4>2. PICK i \in 1 .. m : kept[i] = h
        BY <1>5, <1>6, <1>7, <4>1
      <4>3. HeaderLine(text[i])
        BY <1>8, <4>1, <4>2
      <4>4. header <= i
        BY <1>9, <4>3
      <4>5. i < j
        <5>1. h \in 1 .. n /\ k \in 1 .. n
          BY <1>7, <3>1, <4>2
        <5>2. ~(j < i)
          <6>1. j < i => k < h
            BY <1>6, <1>7, <3>1, <4>2
          <6>2. QED
            BY <4>1, <5>1, <6>1
        <5>3. i # j
          BY <3>1, <4>1, <4>2, <5>1
        <5>4. QED
          BY <1>7, <5>2, <5>3
      <4>6. j \in J
        BY <1>7, <1>9, <4>4, <4>5
      <4>7. QED
        BY <3>1, <4>6
    <3>4. QED
      BY <3>2, <3>3
  <2>2. IsFiniteSet(J) /\ Cardinality(J) = m - header
    <3>1. header + 1 \in Int /\ m \in Int /\ header + 1 <= m + 1
      BY <1>7, <1>9
    <3>2. IsFiniteSet(J) /\ Cardinality(J) = IF header + 1 > m THEN 0 ELSE m - (header + 1) + 1
      BY <3>1, FS_Interval
    <3>3. QED
      BY <1>7, <1>9, <3>2
  <2>3. g \in Surjection(J, T)
    BY DEF Surjection
  <2> HIDE DEF J, T, g
  <2>4. IsFiniteSet(T) /\ Cardinality(T) <= Cardinality(J)
    BY <2>2, <2>3, FS_Surjection
  <2>5. Cardinality(LinesOf(f)) <= Cardinality(T) /\ Cardinality(T) \in Nat
    BY <2>1, <2>4, FS_Subset, FS_CardinalityType
  <2>6. QED
    BY <1>7, <1>9, <1>11, <2>2, <2>4, <2>5
<1>14. QED
  BY <1>7, <1>8, <1>9, <1>11, <1>12, <1>13 DEF header, text

\* A PDF that is read from its text.
LEMMA PdfTextCounts ==
  ASSUME NEW f, NEW D, f.lines \in Seq(D), f.ext = "pdf", f.readable, PdfTables(f).rows = <<>>
  PROVE  Enough(ParsePdf(f), Cardinality(LinesOf(f)))
<1> DEFINE text == NotBlank(f.lines)
           header == SelectInSeq(text, HeaderLine)
<1>1. ParsePdf(f) = IF text # <<>> THEN ParseTextRows(f.lines) ELSE Failed("PDF_PARSE_FAILED")
  BY DEF ParsePdf
<1>2. CASE text # <<>>
  <2>1. Count(ParseTextRows(f.lines)) = Len(text) - header
    BY TextCounts
  <2>2. /\ Cardinality(LinesOf(f)) <= Len(text) - header /\ Cardinality(LinesOf(f)) \in Nat
        /\ header \in 0 .. Len(text) /\ Len(text) \in Nat
    BY LinesThere
  <2> HIDE DEF text, header
  <2>3. Len(text) - header >= Cardinality(LinesOf(f))
    BY <2>2
  <2>4. QED
    BY <1>1, <1>2, <2>1, <2>3 DEF Enough
<1>3. CASE text = <<>>
  <2>1. /\ Cardinality(LinesOf(f)) <= Len(text) - header /\ Cardinality(LinesOf(f)) \in Nat
        /\ header \in 0 .. Len(text) /\ Len(text) \in Nat
    BY LinesThere
  <2>2. Len(text) = 0
    BY <1>3
  <2> HIDE DEF text, header
  <2>3. Cardinality(LinesOf(f)) = 0
    BY <2>1, <2>2
  <2>4. ParsePdf(f) = Failed("PDF_PARSE_FAILED")
    BY <1>1, <1>3
  <2>5. QED
    BY <2>3, <2>4, RefusedThere DEF Enough
<1>4. QED
  BY <1>2, <1>3

\* A Word file that is read from its text.
LEMMA DocxTextCounts ==
  ASSUME NEW f, NEW W, f.tables \in Seq(Seq(Seq(W))), f.lines \in Seq(Seq(W)), f.ext = "docx", f.readable,
         DocxTables(f) = Found(<<>>, <<>>)
  PROVE  Enough(ParseDocx(f), Cardinality(LinesOf(f)))
<1> DEFINE D == Seq(W)
           words == FlattenSeq(FlattenSeq(f.tables))
           cells == At(words, {k \in DOMAIN words : words[k] # ""})
           singles == [k \in DOMAIN cells |-> <<cells[k]>>]
           lines == NotBlank(f.lines)
           text == singles \o lines
<1>1. words \in Seq(W)
  <2>1. FlattenSeq(f.tables) \in Seq(Seq(W))
    <3> HIDE DEF D
    <3>1. f.tables \in Seq(Seq(D))
      BY DEF D
    <3>2. FlattenSeq(f.tables) \in Seq(D)
      BY <3>1, FlattenThere
    <3>3. QED
      BY <3>2 DEF D
  <2>2. QED
    BY <2>1, FlattenThere
<1>2. cells \in Seq(W)
  <2> HIDE DEF words
  <2>1. QED
    BY <1>1, AtThere
<1>3. singles \in Seq(D)
  <2> HIDE DEF cells
  <2>1. Len(cells) \in Nat /\ DOMAIN cells = 1 .. Len(cells) /\ \A k \in 1 .. Len(cells) : cells[k] \in W
    BY <1>2, LenProperties, ElementOfSeq
  <2>2. ASSUME NEW k \in 1 .. Len(cells) PROVE <<cells[k]>> \in D
    <3>1. cells[k] \in W
      BY <2>1
    <3>2. QED
      BY <3>1
  <2> HIDE DEF D
  <2>3. [k \in 1 .. Len(cells) |-> <<cells[k]>>] \in Seq(D)
    BY <2>1, <2>2, IsASeq
  <2>4. QED
    BY <2>1, <2>3
<1>4. f.lines \in Seq(D)
  OBVIOUS
<1> HIDE DEF D, words, cells
<1>5. lines \in Seq(D)
  BY <1>4, NotBlankThere
<1>6. f.ext # "pdf"
  BY Zenon
<1>7. Cardinality(LinesOf(f)) = Len(lines)
  BY <1>4, <1>6, LinesThere
<1>8. ParseDocx(f) = ParseDocxParagraphs(text)
  BY Zenon DEF ParseDocx, words, cells
<1> HIDE DEF singles, lines
<1>9. Len(text) = Len(singles) + Len(lines) /\ Len(singles) \in Nat /\ Len(lines) \in Nat
  BY <1>3, <1>5, ConcatThere
<1>10. text \in Seq(D)
  BY <1>3, <1>5, ConcatProperties
<1> HIDE DEF text
<1>11. Count(ParseDocxParagraphs(text)) >= Cardinality(LinesOf(f))
  BY <1>7, <1>9, <1>10, ParagraphsCount
<1>12. QED
  BY <1>8, <1>11 DEF Enough

----------------------------------------------------------------------------
(* The whole file                                                          *)

\* The people of a file with one kind of table, of a CSV and of a workbook.
LEMMA PeopleOfFile ==
  ASSUME NEW f, NEW D, f.tables \in Seq(Seq(Seq(D)))
  PROVE  /\ f.ext # "xlsx" => TablePeople(f) = Upto(f.tables, Len(f.tables), FirstColumn(f))
         /\ f.ext # "xlsx" /\ Len(f.tables) = 1 => Cardinality(TablePeople(f)) = Cardinality(PeopleOf(Head(f.tables), FirstColumn(f)))
         /\ f.ext = "xlsx" /\ f.tables # <<>> => Cardinality(TablePeople(f)) = Cardinality(PeopleOf(Head(f.tables), FirstColumn(f)))
         /\ f.ext = "xlsx" /\ f.tables = <<>> => Cardinality(TablePeople(f)) = 0
<1> DEFINE T == Seq(Seq(D))
           n == Len(f.tables)
           c == FirstColumn(f)
<1>1. /\ DOMAIN f.tables = 1 .. n /\ n \in Nat
      /\ \A k \in 1 .. n : f.tables[k] \in T
      /\ f.tables # <<>> => 1 \in 1 .. n /\ Head(f.tables) = f.tables[1]
      /\ f.tables = <<>> => n = 0
  <2>1. f.tables \in Seq(T)
    OBVIOUS
  <2> HIDE DEF T
  <2>2. DOMAIN f.tables = 1 .. n /\ n \in Nat /\ \A k \in 1 .. n : f.tables[k] \in T
    BY <2>1, LenProperties, ElementOfSeq
  <2>3. f.tables # <<>> => n # 0 /\ Head(f.tables) = f.tables[1]
    BY <2>1, HeadTailProperties, EmptySeq
  <2>4. f.tables = <<>> => n = 0
    BY <2>1, EmptySeq
  <2>5. QED
    BY <2>2, <2>3, <2>4
<1>2. \A k \in 1 .. n : IsFiniteSet(PeopleOf(f.tables[k], c))
  BY <1>1, PeopleThere
<1> HIDE DEF n
<1>3. f.ext # "xlsx" => TablePeople(f) = Upto(f.tables, n, c)
  <2>1. f.ext # "xlsx" => {i \in DOMAIN f.tables : i = 1 \/ f.ext # "xlsx"} = 1 .. n
    BY <1>1
  <2>2. QED
    BY <2>1 DEF TablePeople, Upto
<1>4. f.tables # <<>> => /\ Cardinality(Upto(f.tables, 1, c)) = Cardinality(PeopleOf(Head(f.tables), c))
                         /\ Upto(f.tables, 1, c) = {1} \X PeopleOf(Head(f.tables), c)
  <2> SUFFICES ASSUME f.tables # <<>>
               PROVE  /\ Cardinality(Upto(f.tables, 1, c)) = Cardinality(PeopleOf(Head(f.tables), c))
                      /\ Upto(f.tables, 1, c) = {1} \X PeopleOf(Head(f.tables), c)
    OBVIOUS
  <2>1. IsFiniteSet(PeopleOf(f.tables[1], c)) /\ Head(f.tables) = f.tables[1]
    BY <1>1, <1>2
  <2>2. IsFiniteSet(Upto(f.tables, 0, c)) /\ Cardinality(Upto(f.tables, 0, c)) = 0 /\ 0 + 1 = 1 /\ 0 \in Nat
    BY UptoNone
  <2>3. Cardinality(Upto(f.tables, 0 + 1, c)) = Cardinality(Upto(f.tables, 0, c)) + Cardinality(PeopleOf(f.tables[0 + 1], c))
    BY <2>1, <2>2, UptoNext
  <2>4. Cardinality(PeopleOf(f.tables[1], c)) \in Nat
    BY <2>1, FS_CardinalityType
  <2>5. Upto(f.tables, 1, c) = {1} \X PeopleOf(f.tables[1], c)
    <3>1. 1 .. 1 = {1}
      OBVIOUS
    <3>2. QED
      BY <3>1 DEF Upto
  <2>6. QED
    BY <2>1, <2>2, <2>3, <2>4, <2>5
<1>5. f.ext # "xlsx" /\ n = 1 => Cardinality(TablePeople(f)) = Cardinality(PeopleOf(Head(f.tables), c))
  <2>1. n = 1 => f.tables # <<>>
    <3>1. 1 # 0
      OBVIOUS
    <3>2. QED
      BY <1>1, <3>1, Zenon
  <2>2. QED
    BY <1>3, <1>4, <2>1, Zenon
<1>6. f.ext = "xlsx" /\ f.tables # <<>> => Cardinality(TablePeople(f)) = Cardinality(PeopleOf(Head(f.tables), c))
  <2> SUFFICES ASSUME f.ext = "xlsx", f.tables # <<>> PROVE TablePeople(f) = Upto(f.tables, 1, c)
    BY <1>4
  <2>1. {i \in DOMAIN f.tables : i = 1 \/ f.ext # "xlsx"} = {1}
    BY <1>1
  <2>2. TablePeople(f) = {1} \X PeopleOf(f.tables[1], c)
    BY <2>1 DEF TablePeople
  <2>3. QED
    BY <1>1, <1>4, <2>2
<1>7. f.ext = "xlsx" /\ f.tables = <<>> => Cardinality(TablePeople(f)) = 0
  <2> SUFFICES ASSUME f.tables = <<>> PROVE Cardinality(TablePeople(f)) = 0
    OBVIOUS
  <2>1. DOMAIN f.tables = {}
    BY <1>1
  <2>2. TablePeople(f) = {}
    BY <2>1 DEF TablePeople
  <2>3. QED
    BY <2>2, FS_EmptySet
<1>8. QED
  BY <1>3, <1>5, <1>6, <1>7 DEF n

\* What the whole parser finds in a file that it can open: everybody, unless
\* they are too many.
LEMMA FileCounts ==
  ASSUME NEW f \in Files, f.ext \in FORMAT_MAP, f.readable
  PROVE  ParseFile(f) = Failed("ROW_LIMIT_EXCEEDED") \/ Enough(ParseFile(f), Cardinality(People(f)))
<1> DEFINE D == STRING
           people == Cardinality(People(f))
           found == CASE f.ext = "csv"  -> ParseCsv(f)
                      [] f.ext = "xlsx" -> ParseXlsx(f)
                      [] f.ext = "pdf"  -> ParsePdf(f)
                      [] OTHER -> ParseDocx(f)
           result == ParseFile(f)
<1>1. f.tables \in Seq(Seq(Seq(D))) /\ f.lines \in Seq(Seq(D)) /\ (f.ext = "csv" /\ f.readable => Len(f.tables) = 1)
  BY FilesAreFiles
<1> HIDE DEF D
<1>2. f.tables # <<>> => Head(f.tables) \in Seq(Seq(D))
  <2> DEFINE T == Seq(Seq(D))
  <2>1. f.tables \in Seq(T)
    BY <1>1
  <2> HIDE DEF T
  <2>2. f.tables # <<>> => Head(f.tables) \in T
    BY <2>1, HeadTailProperties
  <2>3. QED
    BY <2>2 DEF T
<1>3. ~FromText(f) =>
        /\ f.ext # "xlsx" => people = Cardinality(Upto(f.tables, Len(f.tables), FirstColumn(f)))
        /\ f.ext # "xlsx" /\ Len(f.tables) = 1 => people = Cardinality(PeopleOf(Head(f.tables), FirstColumn(f)))
        /\ f.ext = "xlsx" /\ f.tables # <<>> => people = Cardinality(PeopleOf(Head(f.tables), FirstColumn(f)))
        /\ f.ext = "xlsx" /\ f.tables = <<>> => people = 0
  <2>1. ~FromText(f) => People(f) = TablePeople(f)
    BY DEF People
  <2>2. QED
    BY <1>1, <2>1, PeopleOfFile
<1>text. FromText(f) => people = Cardinality(LinesOf(f))
  BY DEF People
<1>first. (f.ext # "docx" => FirstColumn(f) = 1) /\ (f.ext = "docx" => FirstColumn(f) = 2)
  BY DEF FirstColumn
<1>4. ASSUME f.ext = "csv" PROVE Enough(found, people)
  <2>1. found = ParseCsv(f)
    BY <1>4
  <2>2. Enough(found, people)
    <3>1. Len(f.tables) = 1 /\ f.ext # "xlsx" /\ ~FromText(f)
      BY <1>1, <1>4 DEF FromText
    <3>2. f.tables # <<>>
      <4>1. 1 # 0 /\ Len(<<>>) = 0
        OBVIOUS
      <4>2. QED
        BY <3>1, <4>1, Zenon
    <3>3. Enough(ParseCsv(f), Cardinality(PeopleOf(Head(f.tables), FirstColumn(f))))
      BY <1>2, <1>4, <3>2, <1>first, CsvCounts
    <3>4. QED
      BY <1>3, <2>1, <3>1, <3>3
  <2>3. QED
    BY <2>2
<1>5. ASSUME f.ext = "xlsx" PROVE Enough(found, people)
  <2>1. found = ParseXlsx(f)
    BY <1>5
  <2>2. /\ f.tables # <<>> => Enough(ParseXlsx(f), Cardinality(PeopleOf(Head(f.tables), FirstColumn(f))))
        /\ f.tables = <<>> => Enough(ParseXlsx(f), 0)
    BY <1>2, <1>first, <1>5, XlsxCounts
  <2>3. ~FromText(f)
    BY <1>5 DEF FromText
  <2>4. QED
    BY <1>3, <1>5, <2>1, <2>2, <2>3
<1>6. ASSUME f.ext = "pdf" PROVE Enough(found, people)
  <2>1. found = ParsePdf(f)
    BY <1>6
  <2>2. CASE FromText(f)
    <3>1. PdfTables(f).rows = <<>>
      BY <1>6, <2>2 DEF FromText
    <3>2. Enough(ParsePdf(f), Cardinality(LinesOf(f)))
      BY <1>1, <1>6, <3>1, PdfTextCounts
    <3>3. QED
      BY <1>text, <2>1, <2>2, <3>2
  <2>3. CASE ~FromText(f)
    <3>1. PdfTables(f).rows # <<>>
      BY <1>6, <2>3 DEF FromText
    <3>2. Enough(ParsePdf(f), Cardinality(Upto(f.tables, Len(f.tables), FirstColumn(f))))
      BY <1>1, <1>6, <1>first, <3>1, PdfCounts
    <3>3. QED
      BY <1>3, <1>6, <2>1, <2>3, <3>2
  <2>4. QED
    BY <2>2, <2>3
<1>7. ASSUME f.ext = "docx" PROVE Enough(found, people)
  <2>1. found = ParseDocx(f)
    BY <1>7
  <2>2. CASE FromText(f)
    <3>1. DocxTables(f) = Found(<<>>, <<>>)
      BY <1>7, <2>2 DEF FromText
    <3>2. Enough(ParseDocx(f), Cardinality(LinesOf(f)))
      BY <1>1, <1>7, <3>1, DocxTextCounts
    <3>3. QED
      BY <1>text, <2>1, <2>2, <3>2
  <2>3. CASE ~FromText(f)
    <3>1. Enough(ParseDocx(f), Cardinality(Upto(f.tables, Len(f.tables), FirstColumn(f))))
      BY <1>1, <1>7, <1>first, DocxCounts
    <3>2. QED
      BY <1>3, <1>7, <2>1, <2>3, <3>1
  <2>4. QED
    BY <2>2, <2>3
<1>8. Enough(found, people)
  BY <1>4, <1>5, <1>6, <1>7 DEF FORMAT_MAP
<1>9. result = IF Len(found.rows) > MAX_IMPORT_ROWS THEN Failed("ROW_LIMIT_EXCEEDED") ELSE found
  BY DEF ParseFile, WithinLimit
<1> HIDE DEF found, result, people
<1>10. result = Failed("ROW_LIMIT_EXCEEDED") \/ Enough(result, people)
  BY <1>8, <1>9
<1>11. QED
  BY <1>10 DEF result, people


----------------------------------------------------------------------------
(* Mails                                                                   *)

Places == AtWork \cup {"idle", "done", "threw", "dead"}

MailTyped ==
  /\ notification = [n \in Notes |-> notification[n]]
  /\ mailed \in [Notes -> Nat]
  /\ call \in [Notes -> [Kinds -> Places]]

\* What a note says of the calls that are done with it.
Honest(n) ==
  /\ \A k \in Kinds : call[n][k] = "sent" => mailed[n] > 0
  /\ \A k \in Kinds : call[n][k] \in {"failed", "threw"} => n \in refused
  /\ \/ n \in refused
     \/ \E k \in Kinds : call[n][k] \in AtWork \cup {"dead"}
     \/ \A k \in Kinds : call[n][k] = "idle"
     \/ notification[n] = "SENT" /\ mailed[n] > 0

MailInv == MailTyped /\ \A n \in Notes : Honest(n)

LEMMA MailStarts == MailInit => MailInv
<1> SUFFICES ASSUME MailInit PROVE MailInv
  OBVIOUS
<1>1. MailTyped
  BY DEF MailInit, MailTyped, Places
<1>2. ASSUME NEW n \in Notes PROVE Honest(n)
  <2>1. \A k \in Kinds : call[n][k] = "idle"
    BY DEF MailInit
  <2>2. QED
    BY <2>1 DEF Honest
<1>3. QED
  BY <1>1, <1>2 DEF MailInv

\* A step of one call: the other notes, and the other call of its own, stay.
LEMMA CallSteps ==
  ASSUME MailInv, NEW n \in Notes, NEW k \in Kinds, NEW to \in Places, Become(n, k, to)
  PROVE  /\ call' \in [Notes -> [Kinds -> Places]]
         /\ call'[n][k] = to
         /\ \A m \in Notes, j \in Kinds : m # n \/ j # k => call'[m][j] = call[m][j]
BY DEF MailInv, MailTyped, Become

LEMMA OthersStay ==
  ASSUME MailInv, NEW n \in Notes, NEW m \in Notes, m # n,
         \A j \in Kinds : call'[m][j] = call[m][j],
         notification'[m] = notification[m], mailed'[m] = mailed[m], refused \subseteq refused'
  PROVE  Honest(m)'
BY Zenon DEF MailInv, Honest

LEMMA WriteHonest ==
  ASSUME MailInv, NEW n \in Notes, NEW k \in Kinds,
         \/ Write(n, k, "create", "PENDING", "mail")
         \/ Write(n, k, "reset", "PENDING", "mail")
         \/ After(n, k)
  PROVE  MailInv'
<1>1. PICK from \in AtWork, status \in {"PENDING", "SENT", "FAILED"}, to \in {"mail", "done"} :
        /\ Write(n, k, from, status, to)
        /\ to = "mail" \/ (from = "sent" /\ status = "SENT") \/ from = "failed"
  BY DEF After, AtWork
<1>2. /\ call' \in [Notes -> [Kinds -> Places]] /\ call'[n][k] = to
      /\ \A m \in Notes, j \in Kinds : m # n \/ j # k => call'[m][j] = call[m][j]
  BY <1>1, CallSteps DEF Write, Places, AtWork
<1>3. MailTyped'
  BY <1>1, <1>2 DEF MailInv, MailTyped, Write
<1>4. Honest(n)'
  <2>1. /\ notification'[n] = status /\ mailed'[n] = mailed[n] /\ refused' = refused /\ call[n][k] = from
    BY <1>1 DEF MailInv, MailTyped, Write
  <2>2. /\ \A j \in Kinds : call[n][j] = "sent" => mailed[n] > 0
        /\ \A j \in Kinds : call[n][j] \in {"failed", "threw"} => n \in refused
    BY DEF MailInv, Honest
  <2>3. \A j \in Kinds : call'[n][j] = call[n][j] \/ call'[n][j] \in {"mail", "done"}
    BY <1>2
  <2>4. /\ \A j \in Kinds : call'[n][j] = "sent" => mailed'[n] > 0
        /\ \A j \in Kinds : call'[n][j] \in {"failed", "threw"} => n \in refused'
    BY <2>1, <2>2, <2>3
  <2>5. \/ n \in refused'
        \/ \E j \in Kinds : call'[n][j] \in AtWork \cup {"dead"}
        \/ notification'[n] = "SENT" /\ mailed'[n] > 0
    <3>1. CASE to = "mail"
      BY <1>2, <3>1 DEF AtWork
    <3>2. CASE from = "sent" /\ status = "SENT"
      BY <2>1, <2>2, <3>2
    <3>3. CASE from = "failed"
      BY <2>1, <2>2, <3>3
    <3>4. QED
      BY <1>1, <3>1, <3>2, <3>3
  <2>6. QED
    BY <2>4, <2>5 DEF Honest
<1>5. ASSUME NEW m \in Notes, m # n PROVE Honest(m)'
  <2>1. notification'[m] = notification[m] /\ mailed'[m] = mailed[m] /\ refused' = refused
    BY <1>1, <1>5 DEF MailInv, MailTyped, Write
  <2>2. \A j \in Kinds : call'[m][j] = call[m][j]
    BY <1>2, <1>5
  <2>3. QED
    BY <1>5, <2>1, <2>2, OthersStay
<1>6. QED
  BY <1>3, <1>4, <1>5 DEF MailInv

LEMMA SendHonest ==
  ASSUME MailInv, NEW n \in Notes, NEW k \in Kinds, SendEmail(n, k)
  PROVE  MailInv'
<1>1. /\ call' \in [Notes -> [Kinds -> Places]] /\ call'[n][k] = "sent"
      /\ \A m \in Notes, j \in Kinds : m # n \/ j # k => call'[m][j] = call[m][j]
  <2>1. "sent" \in Places /\ Become(n, k, "sent")
    BY DEF SendEmail, Places, AtWork
  <2>2. QED
    BY <2>1, CallSteps
<1>2. /\ mailed' \in [Notes -> Nat] /\ mailed'[n] > 0 /\ \A m \in Notes : m # n => mailed'[m] = mailed[m]
      /\ notification' = notification /\ refused' = refused
  BY DEF SendEmail, MailInv, MailTyped
<1>3. MailTyped'
  BY <1>1, <1>2 DEF MailInv, MailTyped
<1>4. Honest(n)'
  <2>1. \A j \in Kinds : call[n][j] \in {"failed", "threw"} => n \in refused
    BY DEF MailInv, Honest
  <2>2. \A j \in Kinds : call'[n][j] \in {"failed", "threw"} => n \in refused'
    BY <1>1, <1>2, <2>1
  <2>3. \E j \in Kinds : call'[n][j] \in AtWork
    BY <1>1 DEF AtWork
  <2>4. QED
    BY <1>2, <2>2, <2>3 DEF Honest
<1>5. ASSUME NEW m \in Notes, m # n PROVE Honest(m)'
  <2>1. \A j \in Kinds : call'[m][j] = call[m][j]
    BY <1>1, <1>5
  <2>2. QED
    BY <1>2, <1>5, <2>1, OthersStay
<1>6. QED
  BY <1>3, <1>4, <1>5 DEF MailInv

LEMMA RejectedHonest ==
  ASSUME MailInv, NEW n \in Notes, NEW k \in Kinds, Rejected(n, k)
  PROVE  MailInv'
<1>1. PICK to \in {"failed", "threw"} : Become(n, k, to)
  BY DEF Rejected
<1>2. /\ call' \in [Notes -> [Kinds -> Places]] /\ call'[n][k] = to
      /\ \A m \in Notes, j \in Kinds : m # n \/ j # k => call'[m][j] = call[m][j]
  BY <1>1, CallSteps DEF Places, AtWork
<1>3. notification' = notification /\ mailed' = mailed /\ refused' = refused \cup {n}
  BY DEF Rejected
<1>4. MailTyped'
  BY <1>2, <1>3 DEF MailInv, MailTyped
<1>5. Honest(n)'
  <2>1. \A j \in Kinds : call[n][j] = "sent" => mailed[n] > 0
    BY DEF MailInv, Honest
  <2>2. \A j \in Kinds : call'[n][j] = "sent" => mailed'[n] > 0
    BY <1>2, <1>3, <2>1
  <2>3. n \in refused'
    BY <1>3
  <2>4. QED
    BY <2>2, <2>3 DEF Honest
<1>6. ASSUME NEW m \in Notes, m # n PROVE Honest(m)'
  <2>1. \A j \in Kinds : call'[m][j] = call[m][j]
    BY <1>2, <1>6
  <2>2. QED
    BY <1>3, <1>6, <2>1, OthersStay
<1>7. QED
  BY <1>4, <1>5, <1>6 DEF MailInv

LEMMA RetryHonest ==
  ASSUME MailInv, NEW n \in Notes, Become(n, "retry", "reset"), UNCHANGED <<notification, mailed, refused>>
  PROVE  MailInv'
<1>1. /\ call' \in [Notes -> [Kinds -> Places]] /\ call'[n]["retry"] = "reset"
      /\ \A m \in Notes, j \in Kinds : m # n \/ j # "retry" => call'[m][j] = call[m][j]
  BY CallSteps DEF Places, AtWork, Kinds
<1>2. MailTyped'
  BY <1>1 DEF MailInv, MailTyped
<1>3. Honest(n)'
  <2>1. /\ \A j \in Kinds : call[n][j] = "sent" => mailed[n] > 0
        /\ \A j \in Kinds : call[n][j] \in {"failed", "threw"} => n \in refused
    BY DEF MailInv, Honest
  <2>2. \A j \in Kinds : call'[n][j] = call[n][j] \/ call'[n][j] = "reset"
    BY <1>1
  <2>3. /\ \A j \in Kinds : call'[n][j] = "sent" => mailed'[n] > 0
        /\ \A j \in Kinds : call'[n][j] \in {"failed", "threw"} => n \in refused'
    BY <2>1, <2>2
  <2>4. \E j \in Kinds : call'[n][j] \in AtWork
    BY <1>1 DEF AtWork, Kinds
  <2>5. QED
    BY <2>3, <2>4 DEF Honest
<1>4. ASSUME NEW m \in Notes, m # n PROVE Honest(m)'
  <2>1. \A j \in Kinds : call'[m][j] = call[m][j]
    BY <1>1, <1>4
  <2>2. QED
    BY <1>4, <2>1, OthersStay
<1>5. QED
  BY <1>2, <1>3, <1>4 DEF MailInv

\* Calls that begin, or die, at any notes at once.
LEMMA DieHonest ==
  ASSUME MailInv, CallsDie
  PROVE  MailInv' /\ \A n \in Notes : Over(n) => Over(n)'
<1>1. /\ call' = [n \in Notes |-> [k \in Kinds |-> IF call[n][k] \in AtWork THEN "dead" ELSE call[n][k]]]
      /\ UNCHANGED <<notification, mailed, refused>>
  BY DEF CallsDie
<1>2. \A n \in Notes, k \in Kinds : call'[n][k] = IF call[n][k] \in AtWork THEN "dead" ELSE call[n][k]
  BY <1>1
<1>3. MailTyped'
  <2>1. \A n \in Notes, k \in Kinds : (IF call[n][k] \in AtWork THEN "dead" ELSE call[n][k]) \in Places
    BY DEF MailInv, MailTyped, Places
  <2>2. QED
    BY <1>1, <2>1 DEF MailInv, MailTyped
<1>4. ASSUME NEW n \in Notes PROVE Honest(n)'
  <2>1. Honest(n)
    BY DEF MailInv
  <2>2. \A k \in Kinds : call'[n][k] = call[n][k] \/ call'[n][k] = "dead"
    BY <1>2
  <2>3. /\ \A k \in Kinds : call'[n][k] = "sent" => mailed'[n] > 0
        /\ \A k \in Kinds : call'[n][k] \in {"failed", "threw"} => n \in refused'
    BY <1>1, <2>1, <2>2 DEF Honest
  <2>4. ASSUME NEW k \in Kinds, call[n][k] \in AtWork \cup {"dead"} PROVE call'[n][k] = "dead"
    BY <1>2, <2>4
  <2>5. (\A k \in Kinds : call[n][k] = "idle") => \A k \in Kinds : call'[n][k] = "idle"
    BY <1>2 DEF AtWork
  <2>6. QED
    BY <1>1, <2>1, <2>3, <2>4, <2>5 DEF Honest
<1>5. ASSUME NEW n \in Notes, Over(n) PROVE Over(n)'
  <2>1. call'[n]["send"] = call[n]["send"]
    BY <1>2, <1>5 DEF Over, AtWork, Kinds
  <2>2. QED
    BY <1>5, <2>1 DEF Over
<1>6. QED
  BY <1>3, <1>4, <1>5 DEF MailInv

LEMMA StartHonest ==
  ASSUME MailInv, NEW notes, Start(notes)
  PROVE  MailInv' /\ \A n \in Notes : n \notin notes /\ Over(n) => Over(n)'
<1>1. /\ call' = [n \in Notes |-> IF n \in notes THEN [call[n] EXCEPT !.send = "create"] ELSE call[n]]
      /\ UNCHANGED <<notification, mailed, refused>>
  BY DEF Start
<1>2. \A n \in Notes : call[n] \in [Kinds -> Places]
  BY DEF MailInv, MailTyped
<1>3. ASSUME NEW n \in Notes
      PROVE  /\ call'[n] \in [Kinds -> Places]
             /\ n \notin notes => call'[n] = call[n]
             /\ n \in notes => call'[n]["send"] = "create" /\ call'[n]["retry"] = call[n]["retry"]
  BY <1>1, <1>2 DEF Kinds, Places, AtWork
<1>4. MailTyped'
  <2>1. call' = [n \in Notes |-> call'[n]]
    BY <1>1
  <2>2. call' \in [Notes -> [Kinds -> Places]]
    BY <1>3, <2>1
  <2>3. QED
    BY <1>1, <2>2 DEF MailInv, MailTyped
<1>5. ASSUME NEW n \in Notes PROVE Honest(n)'
  <2>1. Honest(n)
    BY DEF MailInv
  <2>2. CASE n \notin notes
    BY <1>1, <1>3, <2>1, <2>2 DEF Honest
  <2>3. CASE n \in notes
    <3>1. \A k \in Kinds : call'[n][k] = call[n][k] \/ call'[n][k] = "create"
      BY <1>3, <2>3 DEF Kinds
    <3>2. "send" \in Kinds /\ call'[n]["send"] \in AtWork
      BY <1>3, <2>3 DEF Kinds, AtWork
    <3>3. QED
      BY <1>1, <2>1, <3>1, <3>2 DEF Honest
  <2>4. QED
    BY <2>2, <2>3
<1>6. ASSUME NEW n \in Notes, n \notin notes, Over(n) PROVE Over(n)'
  BY <1>3, <1>6 DEF Over
<1>7. QED
  BY <1>4, <1>5, <1>6 DEF MailInv

\* A call that is over stays over, whoever retries its note.
LEMMA CallsHonest ==
  ASSUME MailInv, NEW n \in Notes, SendNotification(n) \/ RetryNotification(n)
  PROVE  MailInv' /\ \A m \in Notes : Over(m) => Over(m)'
<1>1. "send" \in Kinds /\ "retry" \in Kinds
  BY DEF Kinds
<1>2. MailInv'
  BY <1>1, WriteHonest, SendHonest, RejectedHonest, RetryHonest DEF SendNotification, RetryNotification
<1>3. \E k \in Kinds, to \in Places : Become(n, k, to) /\ (k = "send" => call[n]["send"] \in AtWork)
  <2>1. CASE SendNotification(n)
    <3>1. call[n]["send"] \in AtWork
      BY <2>1 DEF SendNotification, Write, SendEmail, After, Rejected, AtWork
    <3>2. \E to \in Places : Become(n, "send", to)
      BY <2>1 DEF SendNotification, Write, SendEmail, After, Rejected, Places, AtWork
    <3>3. QED
      BY <1>1, <3>1, <3>2
  <2>2. CASE RetryNotification(n)
    <3>1. \E to \in Places : Become(n, "retry", to)
      BY <2>2 DEF RetryNotification, Write, SendEmail, After, Rejected, Places, AtWork
    <3>2. QED
      BY <1>1, <3>1
  <2>3. QED
    BY <2>1, <2>2
<1>4. ASSUME NEW m \in Notes, Over(m) PROVE Over(m)'
  <2>1. PICK k \in Kinds, to \in Places : Become(n, k, to) /\ (k = "send" => call[n]["send"] \in AtWork)
    BY <1>3
  <2>2. \A j \in Kinds : m # n \/ j # k => call'[m][j] = call[m][j]
    BY <2>1, CallSteps
  <2>3. m # n \/ k # "send"
    BY <1>4, <2>1 DEF Over, AtWork
  <2>4. call'[m]["send"] = call[m]["send"]
    BY <1>1, <2>2, <2>3
  <2>5. QED
    BY <1>4, <2>4 DEF Over
<1>5. QED
  BY <1>2, <1>4

----------------------------------------------------------------------------
(* The desk                                                                *)

Stages == {"upload", "owner", "check", "batch", "rows", "finish", "mail", "wait", "answer", "unlink", "over", "kept", "dead"}
DeskTyped ==
  /\ step \in [Uploads -> Stages]
  /\ DOMAIN file = Uploads /\ DOMAIN parsed = Uploads /\ DOMAIN batch = Uploads /\ DOMAIN created = Uploads

\* Whoever has a batch, or rows, has a file, and its rows are those of the file.
ReadRight(u) ==
  \/ file[u] \in Files /\ file[u].ext \in FORMAT_MAP /\ parsed[u] = ParseFile(file[u])
  \/ step[u] \in {"upload", "over"} /\ batch[u] = NoBatch /\ created[u] = {}

\* Rows are registered late, and they are rows of the file.
Chosen(u) ==
  /\ step[u] \in {"upload", "owner", "check", "batch", "rows"} => created[u] = {}
  /\ created[u] \subseteq 1 .. MAX_IMPORT_ROWS

\* Whoever is past the wait has seen every call end.
Answered(u) ==
  step[u] \in {"answer", "unlink", "over", "kept"} /\ u \notin hit => \A k \in created[u] : Over(Note(u, k))

Right(u) == ReadRight(u) /\ Chosen(u) /\ Answered(u)
IInv == MailInv /\ DeskTyped /\ \A u \in Uploads : Right(u)

LEMMA NotesOfUploads ==
  ASSUME NEW u \in Uploads, NEW k \in 0 .. MAX_IMPORT_ROWS
  PROVE  Note(u, k) \in Notes
BY NotesAreThere DEF Note

LEMMA QuietMail ==
  ASSUME MailInv, UNCHANGED mailVars
  PROVE  MailInv' /\ \A n \in Notes : Over(n) => Over(n)'
<1>1. notification' = notification /\ mailed' = mailed /\ call' = call /\ refused' = refused
  BY DEF mailVars
<1>2. MailInv'
  BY <1>1, Zenon DEF MailInv, MailTyped, Honest
<1>3. \A n \in Notes : Over(n) => Over(n)'
  BY <1>1, Zenon DEF Over
<1>4. QED
  BY <1>2, <1>3

\* A call that is over stays over: what holds of an upload nobody steps stays.
LEMMA OthersAnswered ==
  ASSUME IInv, NEW u \in Uploads,
         step'[u] = step[u] \/ (step'[u] = "dead" /\ step[u] \notin {"upload", "over"}),
         file'[u] = file[u], parsed'[u] = parsed[u], batch'[u] = batch[u], created'[u] = created[u],
         hit \subseteq hit',
         \A k \in 1 .. MAX_IMPORT_ROWS : Over(Note(u, k)) => Over(Note(u, k))'
  PROVE  Right(u)'
<1>1. ReadRight(u) /\ Chosen(u) /\ Answered(u)
  BY DEF IInv, Right
<1>2. ReadRight(u)'
  BY <1>1 DEF ReadRight
<1>3. Chosen(u)'
  BY <1>1 DEF Chosen
<1>4. Answered(u)'
  <2> SUFFICES ASSUME step'[u] \in {"answer", "unlink", "over", "kept"}, u \notin hit', NEW k \in created'[u]
               PROVE  Over(Note(u, k))'
    BY DEF Answered
  <2>1. step[u] \in {"answer", "unlink", "over", "kept"} /\ u \notin hit /\ k \in created[u]
    OBVIOUS
  <2>2. Over(Note(u, k))
    BY <1>1, <2>1 DEF Answered
  <2>3. k \in 1 .. MAX_IMPORT_ROWS
    BY <1>1, <2>1 DEF Chosen
  <2>4. QED
    BY <2>2, <2>3
<1>5. QED
  BY <1>2, <1>3, <1>4 DEF Right

\* A step of one upload.
LEMMA OneUpload ==
  ASSUME IInv, MailInv', DeskTyped', NEW w \in Uploads,
         \A u \in Uploads : u # w =>
           /\ step'[u] = step[u] /\ file'[u] = file[u] /\ parsed'[u] = parsed[u]
           /\ batch'[u] = batch[u] /\ created'[u] = created[u],
         hit \subseteq hit',
         \A u \in Uploads, k \in 1 .. MAX_IMPORT_ROWS : u # w /\ Over(Note(u, k)) => Over(Note(u, k))',
         Right(w)'
  PROVE  IInv'
<1>1. ASSUME NEW u \in Uploads, u # w PROVE Right(u)'
  BY <1>1, OthersAnswered
<1>2. \A u \in Uploads : Right(u)'
  BY <1>1
<1>3. QED
  BY <1>2 DEF IInv

LEMMA QuietUpload ==
  ASSUME IInv, UNCHANGED mailVars, DeskTyped', NEW w \in Uploads,
         \A u \in Uploads : u # w =>
           /\ step'[u] = step[u] /\ file'[u] = file[u] /\ parsed'[u] = parsed[u]
           /\ batch'[u] = batch[u] /\ created'[u] = created[u],
         hit \subseteq hit',
         Right(w)'
  PROVE  IInv'
<1>1. MailInv' /\ \A n \in Notes : Over(n) => Over(n)'
  BY QuietMail DEF IInv
<1>2. ASSUME NEW u \in Uploads, NEW k \in 1 .. MAX_IMPORT_ROWS, Over(Note(u, k)) PROVE Over(Note(u, k))'
  <2>1. k \in 0 .. MAX_IMPORT_ROWS
    BY MaxIsPositive
  <2>2. Note(u, k) \in Notes
    BY <2>1, NotesOfUploads
  <2>3. QED
    BY <1>1, <1>2, <2>2
<1>3. QED
  BY <1>1, <1>2, OneUpload

LEMMA Begins == Init => IInv
<1> SUFFICES ASSUME Init PROVE IInv
  OBVIOUS
<1>1. MailInv
  BY MailStarts DEF Init
<1>2. DeskTyped
  BY DEF Init, DeskTyped, Stages
<1>3. ASSUME NEW u \in Uploads PROVE Right(u)
  BY DEF Init, Right, ReadRight, Chosen, Answered
<1>4. QED
  BY <1>1, <1>2, <1>3 DEF IInv

LEMMA UploadKeeps ==
  ASSUME IInv, NEW w \in Uploads, UploadAttendees(w)
  PROVE  IInv'
<1>1. PICK f \in Files :
        IF f.ext \in FORMAT_MAP
        THEN /\ Goto(w, "owner")
             /\ file' = [file EXCEPT ![w] = f]
             /\ parsed' = [parsed EXCEPT ![w] = ParseFile(f)]
        ELSE Goto(w, "over") /\ UNCHANGED <<file, parsed>>
  BY DEF UploadAttendees
<1>2. /\ step[w] = "upload" /\ batch' = batch /\ created' = created /\ hit' = hit /\ UNCHANGED mailVars
  BY DEF UploadAttendees
<1>3. DeskTyped
  BY DEF IInv
<1>4. created[w] = {} /\ Right(w)
  BY <1>2 DEF IInv, Right, Chosen
<1>5. CASE f.ext \in FORMAT_MAP
  <2>1. step' = [step EXCEPT ![w] = "owner"] /\ file' = [file EXCEPT ![w] = f] /\ parsed' = [parsed EXCEPT ![w] = ParseFile(f)]
    BY <1>1, <1>5 DEF Goto
  <2>2. DeskTyped'
    BY <1>2, <1>3, <2>1 DEF DeskTyped, Stages
  <2>3. step'[w] = "owner" /\ file'[w] = f /\ parsed'[w] = ParseFile(f) /\ created'[w] = {}
    BY <1>2, <1>3, <1>4, <2>1 DEF DeskTyped
  <2>4. Right(w)'
    BY <1>5, <2>3 DEF Right, ReadRight, Chosen, Answered
  <2>5. \A u \in Uploads : u # w => step'[u] = step[u] /\ file'[u] = file[u] /\ parsed'[u] = parsed[u]
    BY <1>3, <2>1 DEF DeskTyped
  <2>6. QED
    BY <1>2, <2>2, <2>4, <2>5, QuietUpload
<1>6. CASE f.ext \notin FORMAT_MAP
  <2>1. step' = [step EXCEPT ![w] = "over"] /\ file' = file /\ parsed' = parsed
    BY <1>1, <1>6 DEF Goto
  <2>2. DeskTyped'
    BY <1>2, <1>3, <2>1 DEF DeskTyped, Stages
  <2>3. step'[w] = "over" /\ \A u \in Uploads : u # w => step'[u] = step[u]
    BY <1>3, <2>1 DEF DeskTyped
  <2>4. Right(w)'
    BY <1>2, <1>4, <2>1, <2>3 DEF Right, ReadRight, Chosen, Answered
  <2>5. QED
    BY <1>2, <2>1, <2>2, <2>3, <2>4, QuietUpload
<1>7. QED
  BY <1>5, <1>6

\* A step that leaves the file and the mails alone.
LEMMA Moves ==
  ASSUME IInv, NEW w \in Uploads, step[w] \notin {"upload", "over"},
         NEW to \in Stages, to \notin {"upload", "owner"}, Goto(w, to),
         UNCHANGED <<file, parsed, mailVars>>, hit \subseteq hit',
         DOMAIN batch' = Uploads, DOMAIN created' = Uploads,
         \A u \in Uploads : u # w => batch'[u] = batch[u] /\ created'[u] = created[u],
         created'[w] \subseteq 1 .. MAX_IMPORT_ROWS,
         to \in {"check", "batch", "rows"} => created'[w] = {},
         to \in {"unlink", "over", "kept"} /\ w \notin hit' =>
           created'[w] = created[w] /\ (created[w] = {} \/ step[w] \in {"answer", "unlink"}),
         to # "answer"
  PROVE  IInv'
<1>1. DeskTyped /\ ReadRight(w) /\ Chosen(w) /\ Answered(w) /\ MailInv
  BY DEF IInv, Right
<1>2. step' = [step EXCEPT ![w] = to] /\ file' = file /\ parsed' = parsed /\ UNCHANGED mailVars
  BY DEF Goto
<1>3. step'[w] = to /\ \A u \in Uploads : u # w => step'[u] = step[u]
  BY <1>1, <1>2 DEF DeskTyped
<1>4. DeskTyped'
  BY <1>1, <1>2 DEF DeskTyped
<1>5. ReadRight(w)'
  BY <1>1, <1>2 DEF ReadRight
<1>6. Chosen(w)'
  BY <1>3 DEF Chosen
<1>7. Answered(w)'
  <2> SUFFICES ASSUME to \in {"unlink", "over", "kept"}, w \notin hit', NEW k \in created'[w]
               PROVE  Over(Note(w, k))'
    BY <1>3 DEF Answered
  <2>1. k \in created[w] /\ step[w] \in {"answer", "unlink"} /\ w \notin hit
    OBVIOUS
  <2>2. Over(Note(w, k))
    BY <1>1, <2>1 DEF Answered
  <2>3. k \in 0 .. MAX_IMPORT_ROWS
    BY <1>1, <2>1, MaxIsPositive DEF Chosen
  <2>4. QED
    BY <1>1, <1>2, <2>2, <2>3, NotesOfUploads, QuietMail
<1>8. Right(w)'
  BY <1>5, <1>6, <1>7 DEF Right
<1>9. QED
  BY <1>2, <1>3, <1>4, <1>8, QuietUpload

LEMMA UploadStepKeeps ==
  ASSUME IInv, NEW w \in Uploads, UploadStep(w)
  PROVE  IInv'
<1>1. DeskTyped /\ ReadRight(w) /\ Chosen(w) /\ Answered(w) /\ MailInv
  BY DEF IInv, Right
<1>2. CASE AssertEventOwner(w)
  <2>1. PICK to \in {"check", "unlink"} : Goto(w, to)
    BY <1>2 DEF AssertEventOwner
  <2>2. step[w] = "owner" /\ batch' = batch /\ created' = created /\ hit' = hit /\ UNCHANGED <<file, parsed, mailVars>>
    BY <1>2 DEF AssertEventOwner
  <2>3. created[w] = {}
    BY <1>1, <2>2 DEF Chosen
  <2>4. QED
    BY <1>1, <2>1, <2>2, <2>3, Moves DEF DeskTyped, Stages
<1>3. CASE CheckEvent(w)
  <2>1. PICK to \in {"batch", "unlink"} : Goto(w, to)
    BY <1>3 DEF CheckEvent
  <2>2. step[w] = "check" /\ batch' = batch /\ created' = created /\ hit' = hit /\ UNCHANGED <<file, parsed, mailVars>>
    BY <1>3 DEF CheckEvent
  <2>3. created[w] = {}
    BY <1>1, <2>2 DEF Chosen
  <2>4. QED
    BY <1>1, <2>1, <2>2, <2>3, Moves DEF DeskTyped, Stages
<1>4. CASE CreateBatch(w)
  <2>1. /\ step[w] = "batch" /\ Goto(w, "rows") /\ created' = created /\ hit' = hit
        /\ UNCHANGED <<file, parsed, mailVars>>
    BY <1>4 DEF CreateBatch
  <2>2. DOMAIN batch' = DOMAIN batch /\ \A u \in DOMAIN batch : u # w => batch'[u] = batch[u]
    BY <1>4 DEF CreateBatch
  <2>3. created[w] = {}
    BY <1>1, <2>1 DEF Chosen
  <2>4. QED
    BY <1>1, <2>1, <2>2, <2>3, Moves DEF DeskTyped, Stages
<1>5. CASE RegisterRows(w)
  <2>1. PICK S \in SUBSET ToCreate(w) : created' = [created EXCEPT ![w] = S]
    BY <1>5 DEF RegisterRows
  <2>2. step[w] = "rows" /\ Goto(w, "finish") /\ batch' = batch /\ hit' = hit /\ UNCHANGED <<file, parsed, mailVars>>
    BY <1>5 DEF RegisterRows
  <2>3. ToCreate(w) \subseteq DOMAIN parsed[w].rows
    BY DEF ToCreate, ValidEntries
  <2>4. DOMAIN parsed[w].rows \subseteq 1 .. MAX_IMPORT_ROWS
    <3>1. file[w] \in Files /\ file[w].ext \in FORMAT_MAP /\ parsed[w] = ParseFile(file[w])
      BY <1>1, <2>2 DEF ReadRight
    <3>2. Neat(parsed[w]) /\ Len(parsed[w].rows) \in 0 .. MAX_IMPORT_ROWS
      BY <3>1, FileThere
    <3>3. DOMAIN parsed[w].rows = 1 .. Len(parsed[w].rows)
      BY <3>2, LenProperties DEF Neat, Tidy
    <3>4. QED
      BY <3>2, <3>3, MaxIsPositive
  <2>5. /\ DOMAIN created' = Uploads /\ created'[w] = S
        /\ \A u \in Uploads : u # w => created'[u] = created[u]
    BY <1>1, <2>1 DEF DeskTyped
  <2>6. S \subseteq 1 .. MAX_IMPORT_ROWS
    BY <2>3, <2>4
  <2>7. QED
    BY <1>1, <2>2, <2>5, <2>6, Moves DEF DeskTyped, Stages
<1>6. CASE FinishBatch(w)
  <2>1. step[w] = "finish" /\ Goto(w, "mail") /\ created' = created /\ hit' = hit /\ UNCHANGED <<file, parsed, mailVars>>
    BY <1>6 DEF FinishBatch
  <2>2. DOMAIN batch' = DOMAIN batch /\ \A u \in DOMAIN batch : u # w => batch'[u] = batch[u]
    BY <1>6 DEF FinishBatch
  <2>3. created[w] \subseteq 1 .. MAX_IMPORT_ROWS
    BY <1>1 DEF Chosen
  <2>4. QED
    BY <1>1, <2>1, <2>2, <2>3, Moves DEF DeskTyped, Stages
<1>7. CASE MailAttendees(w)
  <2> DEFINE notes == {Note(w, k) : k \in created[w]}
  <2>1. /\ Start(notes) /\ step' = [step EXCEPT ![w] = "wait"] /\ step[w] = "mail"
        /\ UNCHANGED <<file, parsed, batch, created, hit>>
    BY <1>7 DEF MailAttendees, Goto
  <2>2. \A u \in Uploads, k \in 1 .. MAX_IMPORT_ROWS : u # w => Note(u, k) \notin notes
    BY DEF Note
  <2> HIDE DEF notes
  <2>3. MailInv' /\ \A n \in Notes : n \notin notes /\ Over(n) => Over(n)'
    BY <1>1, <2>1, StartHonest
  <2>4. ASSUME NEW u \in Uploads, NEW k \in 1 .. MAX_IMPORT_ROWS, u # w, Over(Note(u, k)) PROVE Over(Note(u, k))'
    <3>1. k \in 0 .. MAX_IMPORT_ROWS
      BY MaxIsPositive
    <3>2. QED
      BY <2>2, <2>3, <2>4, <3>1, NotesOfUploads
  <2>5. step'[w] = "wait" /\ \A u \in Uploads : u # w => step'[u] = step[u]
    BY <1>1, <2>1 DEF DeskTyped
  <2>6. DeskTyped'
    BY <1>1, <2>1 DEF DeskTyped, Stages
  <2>7. Right(w)'
    BY <1>1, <2>1, <2>5 DEF Right, ReadRight, Chosen, Answered
  <2>8. QED
    BY <2>1, <2>3, <2>4, <2>5, <2>6, <2>7, OneUpload
<1>8. CASE MailSummary(w)
  <2> DEFINE notes == {Note(w, 0)}
  <2>1. /\ Start(notes) /\ step' = [step EXCEPT ![w] = "answer"] /\ step[w] = "wait" /\ AllOver(w)
        /\ UNCHANGED <<file, parsed, batch, created, hit>>
    BY <1>8 DEF MailSummary, Goto
  <2>2. \A u \in Uploads, k \in 1 .. MAX_IMPORT_ROWS : Note(u, k) \notin notes
    BY DEF Note
  <2> HIDE DEF notes
  <2>3. MailInv' /\ \A n \in Notes : n \notin notes /\ Over(n) => Over(n)'
    BY <1>1, <2>1, StartHonest
  <2>4. ASSUME NEW u \in Uploads, NEW k \in 1 .. MAX_IMPORT_ROWS, Over(Note(u, k)) PROVE Over(Note(u, k))'
    <3>1. k \in 0 .. MAX_IMPORT_ROWS
      BY MaxIsPositive
    <3>2. QED
      BY <2>2, <2>3, <2>4, <3>1, NotesOfUploads
  <2>5. step'[w] = "answer" /\ \A u \in Uploads : u # w => step'[u] = step[u]
    BY <1>1, <2>1 DEF DeskTyped
  <2>6. DeskTyped'
    BY <1>1, <2>1 DEF DeskTyped, Stages
  <2>7. Answered(w)'
    <3>1. ASSUME NEW k \in created[w] PROVE Over(Note(w, k))'
      <4>1. k \in 1 .. MAX_IMPORT_ROWS /\ Over(Note(w, k))
        BY <1>1, <2>1 DEF Chosen, AllOver
      <4>2. QED
        BY <2>4, <4>1
    <3>2. created' = created
      BY <2>1
    <3>3. QED
      BY <3>1, <3>2 DEF Answered
  <2>8. Right(w)'
    BY <1>1, <2>1, <2>5, <2>7 DEF Right, ReadRight, Chosen
  <2>9. QED
    BY <2>1, <2>3, <2>4, <2>5, <2>6, <2>8, OneUpload
<1>9. CASE Respond(w)
  <2>1. /\ step[w] = "answer" /\ Goto(w, "unlink") /\ batch' = batch /\ created' = created /\ hit' = hit
        /\ UNCHANGED <<file, parsed, mailVars>>
    BY <1>9 DEF Respond
  <2>2. created[w] \subseteq 1 .. MAX_IMPORT_ROWS
    BY <1>1 DEF Chosen
  <2>3. QED
    BY <1>1, <2>1, <2>2, Moves DEF DeskTyped, Stages
<1>10. CASE Unlink(w)
  <2>1. PICK to \in {"over", "kept"} : Goto(w, to)
    BY <1>10 DEF Unlink
  <2>3. step[w] = "unlink" /\ batch' = batch /\ created' = created /\ hit' = hit /\ UNCHANGED <<file, parsed, mailVars>>
    BY <1>10 DEF Unlink
  <2>2. created[w] \subseteq 1 .. MAX_IMPORT_ROWS
    BY <1>1 DEF Chosen
  <2>4. QED
    BY <1>1, <2>1, <2>2, <2>3, Moves DEF DeskTyped, Stages
<1>11. CASE Rejects(w)
  <2>1. /\ step[w] \notin {"upload", "over"} /\ Goto(w, "unlink") /\ batch' = batch /\ created' = created
        /\ hit \subseteq hit' /\ w \in hit' /\ UNCHANGED <<file, parsed, mailVars>>
    BY <1>11 DEF Rejects
  <2>2. created[w] \subseteq 1 .. MAX_IMPORT_ROWS
    BY <1>1 DEF Chosen
  <2>3. QED
    BY <1>1, <2>1, <2>2, Moves DEF DeskTyped, Stages
<1>12. QED
  BY <1>2, <1>3, <1>4, <1>5, <1>6, <1>7, <1>8, <1>9, <1>10, <1>11 DEF UploadStep

LEMMA NextKeeps == IInv /\ [Next]_vars => IInv'
<1> SUFFICES ASSUME IInv, [Next]_vars PROVE IInv'
  OBVIOUS
<1>1. DeskTyped /\ MailInv /\ \A u \in Uploads : Right(u)
  BY DEF IInv
<1>2. ASSUME MailInv', \A n \in Notes : Over(n) => Over(n)', UNCHANGED <<file, parsed, batch, created>>, DeskTyped',
             hit \subseteq hit',
             \A u \in Uploads : step'[u] = step[u] \/ (step'[u] = "dead" /\ step[u] \notin {"upload", "over"})
      PROVE  IInv'
  <2>1. ASSUME NEW u \in Uploads, NEW k \in 1 .. MAX_IMPORT_ROWS, Over(Note(u, k)) PROVE Over(Note(u, k))'
    <3>1. k \in 0 .. MAX_IMPORT_ROWS
      BY MaxIsPositive
    <3>2. QED
      BY <1>2, <2>1, <3>1, NotesOfUploads
  <2>2. file' = file /\ parsed' = parsed /\ batch' = batch /\ created' = created
    BY <1>2
  <2>3. ASSUME NEW u \in Uploads PROVE Right(u)'
    BY <1>2, <2>1, <2>2, <2>3, OthersAnswered
  <2>4. QED
    BY <1>2, <2>3 DEF IInv
<1>3. CASE \E u \in Uploads : UploadAttendees(u) \/ UploadStep(u)
  BY <1>3, UploadKeeps, UploadStepKeeps
<1>4. CASE \E n \in Notes : (SendNotification(n) \/ RetryNotification(n)) /\ UNCHANGED deskVars
  <2>1. MailInv' /\ \A n \in Notes : Over(n) => Over(n)'
    BY <1>1, <1>4, CallsHonest
  <2>2. step' = step /\ file' = file /\ parsed' = parsed /\ batch' = batch /\ created' = created /\ hit' = hit
    BY <1>4 DEF deskVars
  <2>3. DeskTyped'
    BY <1>1, <2>2 DEF DeskTyped
  <2>4. QED
    BY <1>2, <2>1, <2>2, <2>3
<1>5. CASE DeleteEvent \/ UNCHANGED vars
  <2>1. /\ step' = step /\ file' = file /\ parsed' = parsed /\ batch' = batch /\ created' = created /\ hit' = hit
        /\ UNCHANGED mailVars
    BY <1>5 DEF DeleteEvent, vars, deskVars
  <2>2. DeskTyped'
    BY <1>1, <2>1 DEF DeskTyped
  <2>3. QED
    BY <1>1, <1>2, <2>1, <2>2, QuietMail
<1>6. CASE ServerCrash
  <2>1. /\ step' = [u \in Uploads |-> IF u \in Running THEN "dead" ELSE step[u]]
        /\ hit \subseteq hit' /\ CallsDie /\ UNCHANGED <<file, parsed, batch, created>>
    BY <1>6 DEF ServerCrash
  <2>2. \A u \in Uploads : step'[u] = step[u] \/ (step'[u] = "dead" /\ step[u] \notin {"upload", "over"})
    BY <2>1 DEF Running
  <2>3. DeskTyped'
    BY <1>1, <2>1 DEF DeskTyped, Stages
  <2>4. QED
    BY <1>1, <1>2, <2>1, <2>2, <2>3, DieHonest
<1>7. QED
  BY <1>3, <1>4, <1>5, <1>6 DEF Next

LEMMA Invariance == Spec => []IInv
<1>1. QED
  BY Begins, NextKeeps, PTL DEF Spec

----------------------------------------------------------------------------
(* What holds of every import                                              *)

\* Numbers that are told apart as they are counted or reported.
LEMMA ApartThere ==
  ASSUME NEW f, Apart(f)
  PROVE  /\ IsInjective([k \in DOMAIN f.rows |-> f.rows[k].sourceRow])
         /\ IsInjective([k \in DOMAIN f.errors |-> f.errors[k].row])
BY DEF Apart, IsInjective

LEMMA StraightThere ==
  ASSUME NEW f, Neat(f), Straight(f, 0), f.errors = <<>>
  PROVE  IsInjective([k \in DOMAIN f.rows |-> f.rows[k].sourceRow])
<1>1. DOMAIN f.rows = 1 .. Len(f.rows)
  BY LenProperties DEF Neat, Tidy
<1>2. \A j \in DOMAIN f.rows : f.rows[j].sourceRow = 0 + j /\ j \in Nat
  BY <1>1 DEF Straight
<1>3. ASSUME NEW j \in DOMAIN f.rows, NEW k \in DOMAIN f.rows, f.rows[j].sourceRow = f.rows[k].sourceRow PROVE j = k
  BY <1>2, <1>3
<1>4. QED
  BY <1>3 DEF IsInjective

\* In a file with one table no two rows go by one number, no two errors do, and
\* but in a worksheet no row goes by the number of an error, whatever the file:
\* its headings and their order, blank lines, the place where its text begins,
\* and which rows are errors; nor do two rows of a DOCX with any number of
\* tables in which no row is an error.
THEOREM RowsAreToldApart == Spec => []NumbersTellRowsApart
<1>1. IInv => NumbersTellRowsApart
  <2> SUFFICES ASSUME IInv, NEW u \in Uploads, batch[u] # NoBatch
               PROVE  /\ OneTable(u) \/ (file[u].ext = "docx" /\ parsed[u].errors = <<>>) => IsInjective(RowNumbers(u))
                      /\ OneTable(u) => IsInjective(ErrorNumbers(u))
                      /\ OneTable(u) /\ file[u].ext # "xlsx" => ToSet(RowNumbers(u)) \cap ToSet(ErrorNumbers(u)) = {}
    BY DEF NumbersTellRowsApart
  <2>1. PICK f \in Files : f = file[u] /\ f.ext \in FORMAT_MAP /\ parsed[u] = ParseFile(f)
    BY DEF IInv, Right, ReadRight
  <2>2. PICK found : found = parsed[u]
    OBVIOUS
  <2>3. /\ Neat(found) /\ (OneTable(u) => Apart(found))
        /\ OneTable(u) /\ f.ext # "xlsx" => Numbered(found)
    BY <2>1, <2>2, FileThere DEF OneTable, Numbered
  <2>4. f.ext = "docx" => Straight(found, 0)
    BY <2>1, <2>2, FileStraight
  <2>5. /\ RowNumbers(u) = [k \in DOMAIN found.rows |-> found.rows[k].sourceRow]
        /\ ErrorNumbers(u) = [k \in DOMAIN found.errors |-> found.errors[k].row]
    BY <2>2 DEF RowNumbers, ErrorNumbers
  <2>6. ASSUME OneTable(u) PROVE IsInjective(RowNumbers(u)) /\ IsInjective(ErrorNumbers(u))
    BY <2>3, <2>5, <2>6, ApartThere
  <2>7. ASSUME f.ext = "docx", found.errors = <<>> PROVE IsInjective(RowNumbers(u))
    BY <2>3, <2>4, <2>5, <2>7, StraightThere
  <2>8. ASSUME OneTable(u), f.ext # "xlsx" PROVE ToSet(RowNumbers(u)) \cap ToSet(ErrorNumbers(u)) = {}
    <3>1. \A j \in DOMAIN found.rows, k \in DOMAIN found.errors : found.rows[j].sourceRow # found.errors[k].row
      BY <2>3, <2>8 DEF Numbered
    <3>2. QED
      BY <2>5, <3>1 DEF ToSet
  <2>9. QED
    BY <2>1, <2>2, <2>6, <2>7, <2>8
<1>2. QED
  BY <1>1, Invariance, PTL

\* The answer to an import waits for the mail of every attendee it registered,
\* of any number; and a note tells the truth once its calls are over, whoever
\* retries it meanwhile and whichever of its writes is rejected.
THEOREM MailsAreOver == Spec => []AttendeesAreMailed
<1>1. IInv => AttendeesAreMailed
  <2> SUFFICES ASSUME IInv, NEW u \in Uploads, step[u] \in {"answer", "unlink", "over", "kept"}, u \notin hit,
                      NEW k \in created[u]
               PROVE  Over(Note(u, k)) /\ TellsTruth(Note(u, k))
    BY DEF AttendeesAreMailed
  <2>1. Over(Note(u, k)) /\ k \in 1 .. MAX_IMPORT_ROWS
    BY DEF IInv, Right, Answered, Chosen
  <2>2. k \in 0 .. MAX_IMPORT_ROWS
    BY <2>1, MaxIsPositive
  <2>3. Note(u, k) \in Notes
    BY <2>2, NotesOfUploads
  <2>4. PICK n \in Notes : n = Note(u, k)
    BY <2>3
  <2>5. Honest(n) /\ Over(n)
    BY <2>1, <2>4 DEF IInv, MailInv
  <2>6. "send" \in Kinds /\ call[n]["send"] # "idle"
    BY <2>5 DEF Over, Kinds
  <2>7. TellsTruth(n)
    BY <2>5, <2>6 DEF Honest, TellsTruth
  <2>8. QED
    BY <2>1, <2>4, <2>7
<1>2. QED
  BY <1>1, Invariance, PTL

----------------------------------------------------------------------------
(* The batch row                                                           *)

\* A batch row has the total of its file from the start; once it is reported
\* nobody of the total is missing from its two counts.
Kept(u) ==
  \/ batch[u] = NoBatch /\ step[u] \notin {"rows", "finish"}
  \/ /\ step[u] # "upload"
     /\ batch[u] \in [status : {"PROCESSING", "COMPLETED", "FAILED"},
                      successRows : Int, failedRows : Int, totalRows : Int]
     /\ batch[u].totalRows = Count(parsed[u])
     /\ Reported(u) => batch[u].successRows + batch[u].failedRows >= batch[u].totalRows

BatchInv == \A u \in Uploads : Kept(u)

LEMMA ParsedThere ==
  ASSUME IInv, NEW u \in Uploads, step[u] \notin {"upload", "over"}
  PROVE  /\ Len(parsed[u].rows) \in Nat /\ Len(parsed[u].errors) \in Nat
         /\ Count(parsed[u]) = Len(parsed[u].rows) + Len(parsed[u].errors)
         /\ IsFiniteSet(ToCreate(u))
<1>1. file[u] \in Files /\ file[u].ext \in FORMAT_MAP /\ parsed[u] = ParseFile(file[u])
  BY DEF IInv, Right, ReadRight
<1>2. Neat(parsed[u])
  BY <1>1, FileThere
<1>3. Len(parsed[u].rows) \in Nat /\ Len(parsed[u].errors) \in Nat
  BY <1>2, CountThere
<1>4. DOMAIN parsed[u].rows = 1 .. Len(parsed[u].rows)
  BY <1>2, LenProperties DEF Neat, Tidy
<1>5. ToCreate(u) \subseteq 1 .. Len(parsed[u].rows)
  <2>1. ToCreate(u) \subseteq DOMAIN parsed[u].rows
    BY Zenon DEF ToCreate, ValidEntries
  <2>2. QED
    BY <1>4, <2>1
<1>6. IsFiniteSet(1 .. Len(parsed[u].rows))
  <2>1. Len(parsed[u].rows) \in Int /\ 1 \in Int
    BY <1>3
  <2>2. QED
    BY <2>1, FS_Interval
<1>7. IsFiniteSet(ToCreate(u))
  BY <1>5, <1>6, FS_Subset
<1>8. QED
  BY <1>3, <1>7 DEF Count

LEMMA BatchBegins == Init => BatchInv
<1>1. QED
  BY DEF Init, BatchInv, Kept

LEMMA FinishKeeps ==
  ASSUME IInv, BatchInv, NEW w \in Uploads, FinishBatch(w)
  PROVE  Kept(w)'
<1>1. step[w] = "finish" /\ step' = [step EXCEPT ![w] = "mail"] /\ parsed' = parsed /\ DeskTyped
  BY DEF FinishBatch, Goto, IInv
<1>2. /\ Len(parsed[w].rows) \in Nat /\ Len(parsed[w].errors) \in Nat
      /\ Count(parsed[w]) = Len(parsed[w].rows) + Len(parsed[w].errors)
      /\ IsFiniteSet(ToCreate(w))
  BY <1>1, ParsedThere
<1> DEFINE n == Cardinality(created[w])
           r == Len(parsed[w].rows)
           e == Len(parsed[w].errors)
           most == Cardinality(ToCreate(w)) - n
           B == [status : {"PROCESSING", "COMPLETED", "FAILED"}, successRows : Int, failedRows : Int, totalRows : Int]
<1>3. n \in Nat /\ most \in Int /\ r \in Nat /\ e \in Nat
  <2>1. created[w] \subseteq 1 .. MAX_IMPORT_ROWS /\ MAX_IMPORT_ROWS \in Nat
    BY MaxIsPositive DEF IInv, Right, Chosen
  <2>2. IsFiniteSet(1 .. MAX_IMPORT_ROWS)
    BY <2>1, FS_Interval
  <2>3. IsFiniteSet(created[w])
    BY <2>1, <2>2, FS_Subset
  <2>4. QED
    BY <1>2, <2>3, FS_CardinalityType
<1>4. PICK twice \in 0 .. most :
        batch' = [batch EXCEPT ![w].status = IF n = 0 THEN "FAILED" ELSE "COMPLETED",
                               ![w].successRows = n,
                               ![w].failedRows = e + r - n + twice]
  BY DEF FinishBatch
<1>5. batch[w] \in B /\ batch[w].totalRows = Count(parsed[w])
  BY <1>1 DEF BatchInv, Kept
<1> HIDE DEF n, r, e, most
<1> DEFINE failed == e + r - n + twice
           status == IF n = 0 THEN "FAILED" ELSE "COMPLETED"
           b == [[[batch[w] EXCEPT !.status = status] EXCEPT !.successRows = n] EXCEPT !.failedRows = failed]
<1>6. twice \in Int /\ twice >= 0 /\ failed \in Int /\ n + failed >= r + e
  BY <1>3
<1>7. status \in {"COMPLETED", "FAILED"}
  OBVIOUS
<1> HIDE DEF failed, status
<1>8. batch' = [[[batch EXCEPT ![w].status = status] EXCEPT ![w].successRows = n] EXCEPT ![w].failedRows = failed]
  BY <1>4 DEF failed, status
<1>9. batch'[w] = b
  BY <1>1, <1>8 DEF DeskTyped
<1>10. b \in B /\ b.totalRows = batch[w].totalRows /\ b.successRows = n /\ b.failedRows = failed
  <2> DEFINE b1 == [batch[w] EXCEPT !.status = status]
             b2 == [b1 EXCEPT !.successRows = n]
             b3 == [b2 EXCEPT !.failedRows = failed]
  <2>1. b1 \in B /\ b1.totalRows = batch[w].totalRows
    BY <1>5, <1>7
  <2> HIDE DEF b1
  <2>2. b2 \in B /\ b2.totalRows = b1.totalRows /\ b2.successRows = n
    BY <1>3, <2>1
  <2> HIDE DEF b2
  <2>3. b3 \in B /\ b3.totalRows = b2.totalRows /\ b3.successRows = b2.successRows /\ b3.failedRows = failed
    BY <1>6, <2>2
  <2>4. b = b3
    BY DEF b1, b2
  <2> HIDE DEF b, b3
  <2>5. QED
    BY <2>1, <2>2, <2>3, <2>4
<1> HIDE DEF b
<1>11. batch'[w] \in B /\ batch'[w].totalRows = r + e /\ batch'[w].successRows = n /\ batch'[w].failedRows = failed
  BY <1>2, <1>5, <1>9, <1>10 DEF r, e
<1>12. step'[w] = "mail"
  BY <1>1 DEF DeskTyped
<1>13. batch'[w].totalRows = Count(parsed[w])' /\ batch'[w].successRows + batch'[w].failedRows >= batch'[w].totalRows
  <2>1. Count(parsed[w])' = r + e
    BY <1>1, <1>2 DEF r, e
  <2>2. QED
    BY <1>6, <1>11, <2>1
<1>14. QED
  BY <1>11, <1>12, <1>13 DEF Kept

LEMMA BatchKept == IInv /\ BatchInv /\ [Next]_vars => BatchInv'
<1> SUFFICES ASSUME IInv, BatchInv, [Next]_vars, NEW u \in Uploads PROVE Kept(u)'
  BY DEF BatchInv
<1>1. Kept(u) /\ DeskTyped
  BY DEF BatchInv, IInv
<1>2. ASSUME batch'[u] = batch[u], parsed'[u] = parsed[u],
             step'[u] \in {"rows", "finish"} => step[u] \in {"rows", "finish"}, step'[u] = "upload" => step[u] = "upload"
      PROVE  Kept(u)'
  BY <1>1, <1>2 DEF Kept, Reported, Count
<1>3. ASSUME NEW w \in Uploads, UploadAttendees(w) PROVE Kept(u)'
  <2>1. /\ step[w] = "upload" /\ batch' = batch
        /\ \E to \in {"owner", "over"} : step' = [step EXCEPT ![w] = to]
        /\ \A v \in Uploads : v # w => parsed'[v] = parsed[v]
    BY <1>1, <1>3 DEF UploadAttendees, Goto, DeskTyped
  <2>2. CASE u = w
    <3>1. batch[u] = NoBatch /\ batch'[u] = NoBatch /\ step'[u] \in {"owner", "over"}
      BY <1>1, <2>1, <2>2 DEF Kept, DeskTyped
    <3>2. QED
      BY <3>1 DEF Kept
  <2>3. CASE u # w
    BY <1>1, <1>2, <2>1, <2>3 DEF DeskTyped
  <2>4. QED
    BY <2>2, <2>3
<1>4. ASSUME NEW w \in Uploads, UploadStep(w) PROVE Kept(u)'
  <2>1. CASE CreateBatch(w)
    <3>1. /\ step[w] = "batch" /\ step' = [step EXCEPT ![w] = "rows"] /\ parsed' = parsed
          /\ batch' = [batch EXCEPT ![w] =
               [status |-> "PROCESSING", successRows |-> 0, failedRows |-> 0,
                totalRows |-> Len(parsed[w].rows) + Len(parsed[w].errors)]]
      BY <2>1 DEF CreateBatch, Goto
    <3>2. CASE u = w
      <4>1. /\ Len(parsed[w].rows) \in Nat /\ Len(parsed[w].errors) \in Nat
            /\ Count(parsed[w]) = Len(parsed[w].rows) + Len(parsed[w].errors)
        BY <3>1, ParsedThere
      <4>2. step'[w] = "rows" /\ Count(parsed[w])' = Count(parsed[w])
        BY <1>1, <3>1 DEF DeskTyped
      <4> DEFINE n == Len(parsed[w].rows) + Len(parsed[w].errors)
      <4>3. batch'[w] = [status |-> "PROCESSING", successRows |-> 0, failedRows |-> 0, totalRows |-> n]
        BY <1>1, <3>1 DEF DeskTyped
      <4>4. n \in Int /\ Count(parsed[w]) = n
        BY <4>1
      <4> HIDE DEF n
      <4>5. QED
        BY <3>2, <4>2, <4>3, <4>4 DEF Kept, Reported
    <3>3. CASE u # w
      BY <1>1, <1>2, <3>1, <3>3 DEF DeskTyped
    <3>4. QED
      BY <3>2, <3>3
  <2>2. CASE FinishBatch(w)
    <3>1. CASE u = w
      BY <2>2, <3>1, FinishKeeps
    <3>2. CASE u # w
      <4>1. /\ step' = [step EXCEPT ![w] = "mail"] /\ parsed' = parsed
            /\ \A v \in DOMAIN batch : v # w => batch'[v] = batch[v]
        BY <2>2 DEF FinishBatch, Goto
      <4>2. QED
        BY <1>1, <1>2, <3>2, <4>1 DEF DeskTyped
    <3>3. QED
      BY <3>1, <3>2
  <2>3. CASE RegisterRows(w)
    <3>1. step[w] = "rows" /\ step' = [step EXCEPT ![w] = "finish"] /\ parsed' = parsed /\ batch' = batch
      BY <2>3 DEF RegisterRows, Goto
    <3>2. QED
      BY <1>1, <1>2, <3>1 DEF DeskTyped
  <2>4. ASSUME NEW to \in Stages \ {"upload", "rows", "finish"}, step' = [step EXCEPT ![w] = to],
               parsed' = parsed, batch' = batch
        PROVE  Kept(u)'
    BY <1>1, <1>2, <2>4 DEF DeskTyped
  <2>5. CASE AssertEventOwner(w)
    <3>1. (\E to \in {"check", "unlink"} : step' = [step EXCEPT ![w] = to]) /\ parsed' = parsed /\ batch' = batch
      BY <2>5 DEF AssertEventOwner, Goto
    <3>2. QED
      BY <2>4, <3>1 DEF Stages
  <2>6. CASE CheckEvent(w)
    <3>1. (\E to \in {"batch", "unlink"} : step' = [step EXCEPT ![w] = to]) /\ parsed' = parsed /\ batch' = batch
      BY <2>6 DEF CheckEvent, Goto
    <3>2. QED
      BY <2>4, <3>1 DEF Stages
  <2>7. CASE MailAttendees(w) \/ MailSummary(w) \/ Respond(w) \/ Unlink(w) \/ Rejects(w)
    <3>1. /\ \E to \in {"wait", "answer", "unlink", "over", "kept"} : step' = [step EXCEPT ![w] = to]
          /\ parsed' = parsed /\ batch' = batch
      BY <2>7 DEF MailAttendees, MailSummary, Respond, Unlink, Rejects, Goto
    <3>2. QED
      BY <2>4, <3>1 DEF Stages
  <2>8. QED
    BY <1>4, <2>1, <2>2, <2>3, <2>5, <2>6, <2>7 DEF UploadStep
<1>5. CASE (\E n \in Notes : (SendNotification(n) \/ RetryNotification(n)) /\ UNCHANGED deskVars)
           \/ DeleteEvent \/ UNCHANGED vars
  <2>1. step' = step /\ parsed' = parsed /\ batch' = batch
    BY <1>5 DEF DeleteEvent, vars, deskVars
  <2>2. QED
    BY <1>2, <2>1
<1>6. CASE ServerCrash
  <2>1. step' = [v \in Uploads |-> IF v \in Running THEN "dead" ELSE step[v]] /\ parsed' = parsed /\ batch' = batch
    BY <1>6 DEF ServerCrash
  <2>2. step'[u] = step[u] \/ step'[u] = "dead"
    BY <2>1
  <2>3. QED
    BY <1>2, <2>1, <2>2
<1>7. QED
  BY <1>3, <1>4, <1>5, <1>6 DEF Next

LEMMA BatchInvariance == Spec => [](IInv /\ BatchInv)
<1>1. Init => IInv /\ BatchInv
  BY Begins, BatchBegins
<1>2. IInv /\ BatchInv /\ [Next]_vars => (IInv /\ BatchInv)'
  BY NextKeeps, BatchKept
<1>3. QED
  BY <1>1, <1>2, PTL DEF Spec

\* However its file is built, of any size and in any format, a report accounts
\* for everybody in the tables or for every line of the text it was read from,
\* or rejects the file; and its two counts leave nobody of its total out.
THEOREM EverybodyIsAccounted == Spec => []RowsAreAccounted
<1>1. IInv /\ BatchInv => RowsAreAccounted
  <2> SUFFICES ASSUME IInv, BatchInv, NEW u \in Uploads, Reported(u)
               PROVE  Accounted(u)
    BY DEF RowsAreAccounted
  <2>1. batch[u] # NoBatch
    BY DEF Reported, NoBatch
  <2>2. /\ batch[u].totalRows = Count(parsed[u])
        /\ batch[u].successRows + batch[u].failedRows >= batch[u].totalRows
    BY <2>1 DEF BatchInv, Kept
  <2>3. file[u] \in Files /\ file[u].ext \in FORMAT_MAP /\ parsed[u] = ParseFile(file[u])
    BY <2>1 DEF IInv, Right, ReadRight
  <2>4. \/ ~file[u].readable \/ parsed[u] = Failed("ROW_LIMIT_EXCEEDED")
        \/ Enough(parsed[u], Cardinality(People(file[u])))
    BY <2>3, FileCounts
  <2>5. QED
    BY <2>2, <2>4 DEF Enough, Accounted
<1>2. QED
  BY <1>1, BatchInvariance, PTL
===============================================================================
