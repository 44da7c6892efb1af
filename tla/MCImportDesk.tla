---------------------------- MODULE MCImportDesk ----------------------------
(***************************************************************************)
(* One upload of any of some 400 files: headers in any order, near         *)
(* misses, rows without a name or an address, blank lines, a row more than *)
(* the limit, two tables, text, tables that give nothing.  Bob is          *)
(* registered already.                                                     *)
(***************************************************************************)
EXTENDS ImportDesk

CONSTANT u1

Headers == {<<"name", "email">>, <<"email", "seat", "fullname">>,
            <<"seat", "name", "email", "mailinglist">>, <<"name">>}
Ann == <<"ann", "ann@x", "", "">>
DataRows == {Ann, <<"bob@x", "ann", "bob">>, <<"", "", "eve@x">>, <<"", "">>, <<"bob">>, <<>>}

Tables == {<<h>> : h \in Headers} \cup {<<h, r>> : h \in Headers, r \in DataRows}
          \cup {<<h, Ann, r>> : h \in Headers, r \in DataRows} \cup {<<h, <<"", "">>, Ann>> : h \in Headers}
TooLong == <<<<"name", "email">>, <<"ann", "ann@x">>, <<"bob", "bob@x">>, <<"eve", "eve@x">>>>
Two == <<<<"name", "email">>, Ann, <<"eve", "eve@x">>>>
Mails == <<<<"fullname", "mail", "mailinglist">>, <<"", "ann@x", "">>>>
Badges == <<<<"name", "email">>, <<"", "">>, <<"bob", "bob@x">>>>

File(ext, tables, lines) ==
  [ext |-> ext, mime |-> ext, empty |-> FALSE, readable |-> TRUE, tables |-> tables, lines |-> lines]
Sheets == {File(e, <<t>>, <<>>) : e \in {"csv", "xlsx"}, t \in Tables \cup {Two, TooLong, <<>>}}
\* A document's text is that of its tables, which may be all that is found, or
\* give nothing.
Text(ts) == [k \in DOMAIN FlattenSeq(ts) |-> SelectSeq(FlattenSeq(ts)[k], LAMBDA w : w # "")]
Documents ==
  {File(e, ts, Text(ts)) : e \in {"pdf", "docx"}, ts \in {<<t>> : t \in Tables} \cup {<<TooLong>>}}
  \cup {File("pdf", <<>>, Text(<<t>>)) : t \in Tables}
  \cup {File("pdf", <<Mails, t>>, Text(<<Mails, t>>)) : t \in {<<h>> : h \in Headers}}
  \cup {File(e, <<Badges, t>>, <<>>) : e \in {"pdf", "docx"}, t \in Tables}
  \cup {File("docx", <<<<<<"seat">>, Ann>>, <<h, r>>, <<h, <<"eve@x", "eve@x">>>>>>, <<>>) : h \in Headers, r \in DataRows}
Misfits ==
  {[File(e, <<>>, <<>>) EXCEPT !.readable = FALSE] : e \in FORMAT_MAP}
  \cup {File("txt", <<>>, <<>>), File("xlsx", <<>>, <<>>)}
  \cup {File("xlsx", <<Badges, Two>>, <<>>)}
  \cup {[File("csv", <<TooLong>>, <<>>) EXCEPT !.mime = "pdf"], [File("csv", <<<<>>>>, <<>>) EXCEPT !.empty = TRUE]}

Everything == Sheets \cup Documents \cup Misfits
Notifications1 == Uploads \X (0 .. MAX_IMPORT_ROWS)
=============================================================================
