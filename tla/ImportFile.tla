----------------------------- MODULE ImportFile -----------------------------
(***************************************************************************)
(* What the import makes of an uploaded file: the rows it will try to      *)
(* register and the errors it will report, each under a row number.  The   *)
(* libraries that open the four formats are outside; a file is what they   *)
(* find in it:                                                             *)
(*   ext, mime   the format that its name and its Content-Type stand for   *)
(*   empty       whether it has no bytes                                   *)
(*   readable    whether the library can open it                           *)
(*   tables      its tables (a CSV or a worksheet is one), each a sequence *)
(*               of rows of cells whose first row is the header            *)
(*   lines       its text, each line a sequence of words                   *)
(* A heading is the word left after blanks, - and _ are taken out.         *)
(***************************************************************************)
EXTENDS Naturals, Sequences, SequencesExt

CONSTANTS
  Addresses,        \* the words that are e-mail addresses
  MAX_IMPORT_ROWS

ASSUME MaxIsPositive == MAX_IMPORT_ROWS \in Nat \ {0}

FORMAT_MAP == {"csv", "xlsx", "pdf", "docx"}

HEADER_ALIASES ==
  [name       |-> <<"name", "fullname", "attendeename">>,
   email      |-> <<"email", "emailaddress", "mail", "attendeeemail">>,
   phone      |-> <<"phone", "phonenumber", "telephone", "mobile", "contact">>,
   ticketType |-> <<"tickettype", "tickettypeid", "ticket", "type">>]

Names(h, f) == h \in ToSet(HEADER_ALIASES[f])

\* In documents ^ and $ bind to one alternative of the pattern only, so that a
\* heading which starts with, ends in or holds an alias is taken for it.
LooseHeadings ==
  [nameofguest |-> "name", mailinglist |-> "email", phoneextension |-> "phone", ticketclass |-> "ticketType"]
LooselyNames(h, f) ==
  Names(h, f) \/ (h \in DOMAIN LooseHeadings /\ LooseHeadings[h] = f)

Found(rows, errors) == [rows |-> rows, errors |-> errors]
Failed(why) == Found(<<>>, <<[row |-> 0, why |-> why]>>)

\* The numbers 1 .. n that are in S, in their order.
InOrder(S, n) ==
  LET upTo[k \in 0 .. n] ==
        IF k = 0 THEN <<>> ELSE IF k \in S THEN Append(upTo[k - 1], k) ELSE upTo[k - 1]
  IN  upTo[n]

\* The elements of s at the places S, in their order.
At(s, S) == LET kept == InOrder(S, Len(s)) IN [j \in DOMAIN kept |-> s[kept[j]]]
NotBlank(lines) == At(lines, {k \in DOMAIN lines : lines[k] # <<>>})

Cell(row, i) == IF i \in DOMAIN row THEN row[i] ELSE ""
Fields == DOMAIN HEADER_ALIASES

\* Mutated form of RowNumber: a row is numbered by the rows found so far.
RowNumberOfFound(base, k, j) == base + j

\* The number of row k below the header, which is the j-th to be accepted.
RowNumber(base, k, j) == base + k

\* The loop over the rows below a header: row k becomes a row of the result if
\* one of the needed fields is there, an error otherwise; the numbers start
\* after these two.
Sort(values, needed, rowBase, errorBase) ==
  LET fits == {k \in DOMAIN values : \E f \in needed : values[k][f] # ""}
      good == InOrder(fits, Len(values))
      bad == InOrder(DOMAIN values \ fits, Len(values))
  IN  Found([j \in DOMAIN good |-> [sourceRow |-> RowNumber(rowBase, good[j], j), value |-> values[good[j]]]],
            [j \in DOMAIN bad |-> [row |-> errorBase + bad[j], why |-> "EMPTY"]])

Named == {"name", "email"}
HasEmail == {"email"}

\* By columns: the map gives the column of each field, 0 if there is none.
Columns(map, data) == [k \in DOMAIN data |-> [f \in Fields |-> Cell(data[k], map[f])]]
LastColumn(header, f) == SelectLastInSeq(header, LAMBDA h : LooselyNames(h, f))

\* normalizeRow: the first alias of the field that has a value, the last column
\* of that heading.
NormalizeRow(header, row) ==
  LET at(h) == Cell(row, SelectLastInSeq(SubSeq(header, 1, Min({Len(header), Len(row)})), LAMBDA g : g = h))
      filled(f) == SelectSeq(HEADER_ALIASES[f], LAMBDA h : at(h) # "")
  IN  [f \in Fields |-> IF filled(f) = <<>> THEN "" ELSE at(filled(f)[1])]

\* parseCsv; csv-parse leaves out blank lines.
ParseCsv(file) ==
  IF ~file.readable THEN Failed("CSV_PARSE_FAILED")
  ELSE LET sheet == NotBlank(Head(file.tables)) IN
       IF sheet = <<>> THEN Found(<<>>, <<>>)
       ELSE Sort([k \in DOMAIN Tail(sheet) |-> NormalizeRow(Head(sheet), Tail(sheet)[k])],
                 Named, 1, 1)

\* parseXlsx: the first worksheet, the first column of each heading; the rows
\* are numbered one higher than the errors.
ParseXlsx(file) ==
  LET sheet == NotBlank(Head(file.tables))
      colMap == [f \in Fields |-> SelectInSeq(Head(sheet), LAMBDA h : Names(h, f))]
  IN  CASE ~file.readable -> Failed("XLSX_PARSE_FAILED")
        [] file.readable /\ file.tables = <<>> -> Failed("NO_WORKSHEETS")
        [] OTHER ->
             IF sheet = <<>> THEN Found(<<>>, <<>>)
             ELSE IF colMap.name = 0 /\ colMap.email = 0 THEN Failed("NO_HEADER")
             ELSE Sort(Columns(colMap, Tail(sheet)), Named, 2, 1)

\* extractHtmlTableRows: a field in the very first column (index 0) does not
\* count for the header.
ExtractHtmlTableRows(table, rowOffset) ==
  IF table = <<>> THEN Failed("NO_ROWS")
  ELSE LET headerMap == [f \in Fields |-> LastColumn(Head(table), f)] IN
       IF headerMap.name <= 1 /\ headerMap.email <= 1 THEN Failed("NO_HEADER")
       ELSE Sort(Columns(headerMap, Tail(table)), Named, rowOffset, rowOffset)

\* parseDocxParagraphs, and the loop of parseTextRows: an address in the line
\* makes it a row, whose name is the rest.
ParseDocxParagraphs(lines) ==
  Sort([k \in DOMAIN lines |->
          LET email == Cell(lines[k], SelectInSeq(lines[k], LAMBDA w : w \in Addresses))
          IN  [name |-> Cell(lines[k], SelectInSeq(lines[k], LAMBDA w : w \notin {"", email})),
               email |-> email, phone |-> "", ticketType |-> ""]],
       HasEmail, 0, 0)

Joined(a, b) == Found(a.rows \o b.rows, a.errors \o b.errors)

\* The tables one after the other, the row numbers going on after the rows (not
\* the errors) of those before; tables without a header are passed over.
AddTable(found, table) ==
  LET more == ExtractHtmlTableRows(table, Len(found.rows)) IN
    IF more = Failed("NO_HEADER") THEN found ELSE Joined(found, more)

DocxTables(file) == FoldLeft(AddTable, Found(<<>>, <<>>), file.tables)

\* parseDocx: the tables; in a file with nothing else every cell is a paragraph.
ParseDocx(file) ==
  LET tables == DocxTables(file)
      words == FlattenSeq(FlattenSeq(file.tables))
      cells == At(words, {k \in DOMAIN words : words[k] # ""})
  IN  IF ~file.readable THEN Failed("DOCX_PARSE_FAILED")
      ELSE IF tables # Found(<<>>, <<>>) THEN tables
      ELSE ParseDocxParagraphs([k \in DOMAIN cells |-> <<cells[k]>>]
                               \o NotBlank(file.lines))

\* extractTableRows
ExtractTableRows(table) ==
  IF table = <<>> THEN Found(<<>>, <<>>)
  ELSE LET headerMap == [f \in Fields |-> LastColumn(Head(table), f)] IN
       IF headerMap.name = 0 /\ headerMap.email = 0 THEN Failed("NO_HEADER")
       ELSE Sort(Columns(headerMap, Tail(table)), Named, 2, 2)

\* The words that have another word in them, which is all a line is searched for.
WordsWith ==
  [name     |-> {"name", "fullname", "attendeename", "nameofguest"},
   email    |-> {"email", "emailaddress", "attendeeemail"},
   phone    |-> {"phone", "phonenumber", "telephone", "phoneextension"},
   attendee |-> {"attendeename", "attendeeemail"}]

\* Some name and some email in either order, a name before a phone, an attendee
\* before an email (or in one word with it).
HeaderLine(line) ==
  \E i, j \in DOMAIN line :
    \/ line[i] \in WordsWith.name /\ line[j] \in WordsWith.email
    \/ line[i] \in WordsWith.name /\ line[j] \in WordsWith.phone /\ i < j
    \/ line[i] \in WordsWith.attendee /\ line[j] \in WordsWith.email /\ i <= j

\* parseTextRows: what follows the first line that looks like a header, if
\* there is one; the numbers are those of the lines.
ParseTextRows(lines) ==
  LET text == NotBlank(lines)
      header == SelectInSeq(text, HeaderLine)
      found == ParseDocxParagraphs(SubSeq(text, header + 1, Len(text)))
  IN  Found([j \in DOMAIN found.rows |-> [found.rows[j] EXCEPT !.sourceRow = @ + header]],
            [j \in DOMAIN found.errors |-> [found.errors[j] EXCEPT !.row = @ + header]])

PdfTables(file) ==
  LET found == [k \in DOMAIN file.tables |-> ExtractTableRows(file.tables[k])]
  IN  Found(FlattenSeq([k \in DOMAIN found |-> found[k].rows]),
            FlattenSeq([k \in DOMAIN found |-> found[k].errors]))

\* parsePdf: the tables if they give a row, or else the text.
ParsePdf(file) ==
  LET tables == PdfTables(file)
  IN  CASE ~file.readable -> Failed("PDF_PARSE_FAILED")
        [] file.readable /\ tables.rows # <<>> -> tables
        [] OTHER -> IF NotBlank(file.lines) = <<>> THEN Failed("PDF_PARSE_FAILED")
                    ELSE ParseTextRows(file.lines)

\* parseFile: what it throws on, and what it returns otherwise.
Unacceptable(file) ==
  file.empty \/ file.ext \notin FORMAT_MAP \/ file.mime \notin {file.ext, "unknown"}

\* Mutated form of WithinLimit: the rows over the limit are left out.
CutToLimit(found) == [found EXCEPT !.rows = SubSeq(@, 1, Min({MAX_IMPORT_ROWS, Len(@)}))]

WithinLimit(found) ==
  IF Len(found.rows) > MAX_IMPORT_ROWS THEN Failed("ROW_LIMIT_EXCEEDED") ELSE found

ParseFile(file) ==
  WithinLimit(CASE file.ext = "csv"  -> ParseCsv(file)
                [] file.ext = "xlsx" -> ParseXlsx(file)
                [] file.ext = "pdf"  -> ParsePdf(file)
                [] OTHER -> ParseDocx(file))

-----------------------------------------------------------------------------
\* For the properties, without the parsers: the tables with a heading Name or
\* Email (for a DOCX not in the first column alone), and the rows below it that
\* have something in such a column.
Naming(h) == \E f \in Named : Names(h, f)
Headed(table, from) == table # <<>> /\ \E i \in DOMAIN Head(table) : i >= from /\ Naming(Head(table)[i])
PeopleOf(table, from) ==
  {k \in 2 .. Len(table) : Headed(table, from) /\ \E i \in DOMAIN table[k] \cap DOMAIN Head(table) :
     table[k][i] # "" /\ Naming(Head(table)[i])}
FirstColumn(file) == IF file.ext = "docx" THEN 2 ELSE 1
\* Of a workbook only the first worksheet is read.
TablePeople(file) ==
  UNION {{t} \X PeopleOf(file.tables[t], FirstColumn(file)) :
           t \in {i \in DOMAIN file.tables : i = 1 \/ file.ext # "xlsx"}}

\* A document whose tables give nothing is read from its text, where every line
\* counts, in a PDF every line below the first that looks like a header.
FromText(file) ==
  \/ file.ext = "pdf" /\ PdfTables(file).rows = <<>>
  \/ file.ext = "docx" /\ DocxTables(file) = Found(<<>>, <<>>)
LinesOf(file) ==
  LET heads == {h \in DOMAIN file.lines : file.ext = "pdf" /\ HeaderLine(file.lines[h])}
  IN  {k \in DOMAIN file.lines :
         file.lines[k] # <<>> /\ (heads = {} \/ \E h \in heads : h < k)}

\* Whom a report on the file has to account for.
People(file) == IF FromText(file) THEN LinesOf(file) ELSE TablePeople(file)
=============================================================================
