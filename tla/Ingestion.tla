------------------------------ MODULE Ingestion ------------------------------
(***************************************************************************)
(* How an attachment becomes evidence units: SafetyPolicy, FileKindRouter  *)
(* and the choice of a reader (file_routing.py), and what each reader      *)
(* makes of the bytes it finds (readers.py).  Units and artifacts of an    *)
(* attachment are sets; of a unit only its id and its artifact are kept,   *)
(* of an issue its code.  An id is a sequence of words, as '_' joins them. *)
(***************************************************************************)
EXTENDS Naturals, FiniteSets, Sequences

CONSTANTS
    Word,                           \* what ids are made of
    Numeral, RowWord, ColumnWord,   \* the words of the numbers 1, 2, ...
    None

\* Suffixes by what they mean to the router; a macro_ suffix is one of
\* MACRO_ENABLED_EXTENSIONS as well.
Suffix ==
    {"pdf", "image", "spreadsheet", "macro_spreadsheet", "table", "office",
     "macro_office", "email", "zip", "text", "other"}

MediaType == {"image", "csv", "plain", "other"}

Sheet == [hidden : BOOLEAN, cells : SUBSET Word]

\* What the bytes are to each reader: gone, or a PDF signature, rows of text
\* by their number of cells, pages, an image header, a workbook's sheets.
\* A truncated header and a workbook that is encrypted or badly compressed
\* raise what no reader catches.
Body ==
    [gone : BOOLEAN, magic : BOOLEAN, rows : Seq(Nat) \cup {None}, pages : Nat,
     encrypted : BOOLEAN, image : {"known", "unknown", "truncated"},
     workbook : {"readable", "unreadable", "raises"}, sheets : Seq(Sheet)]

\* RawAttachment; media holds the declared and the detected type.  Lines,
\* pages, sheets, rows and columns can be counted with the words there are.
Attachment ==
    {a \in [id : Seq(Word), suffix : Suffix, media : SUBSET MediaType, big : BOOLEAN,
            body : Body] :
        /\ {1} \cup (1 .. a.body.pages) \cup DOMAIN a.body.sheets \subseteq DOMAIN Numeral
        /\ a.body.rows # None =>
              /\ DOMAIN a.body.rows \subseteq DOMAIN Numeral \cap DOMAIN RowWord
              /\ \A n \in DOMAIN a.body.rows : 1 .. a.body.rows[n] \subseteq DOMAIN ColumnWord}

ASSUME WordAssumption ==
    /\ \A f \in {Numeral, RowWord, ColumnWord} :
          /\ f \in Seq(Word)
          /\ \A i, j \in DOMAIN f : f[i] = f[j] => i = j
    /\ {"page", "sheet", "workbook", "line", "table", "pdf", "image", "profile", "text",
        "word", "artifact", "unsupported", "unit"} \subseteq Word

-----------------------------------------------------------------------------
(***************************************************************************)
(* Safety and routing.                                                     *)
(***************************************************************************)

\* The issues with severity "blocking".
Blocking == {"file_too_large", "file_signature_mismatch", "unsupported_media_type", "encrypted_pdf"}

\* SafetyPolicy.evaluate
Safety(a) ==
    [allowed |-> ~a.big,
     issues |-> {i \in {"file_too_large", "macro_enabled_office_file"} :
                    \/ i = "file_too_large" /\ a.big
                    \/ i = "macro_enabled_office_file"
                         /\ a.suffix \in {"macro_spreadsheet", "macro_office"}}]

SuffixRoute ==
    [image |-> "image", spreadsheet |-> "spreadsheet", macro_spreadsheet |-> "spreadsheet",
     table |-> "delimited_table", office |-> "office_document",
     macro_office |-> "office_document", email |-> "email", zip |-> "archive",
     text |-> "plain_text"]

MediaRoute == [image |-> "image", csv |-> "delimited_table", plain |-> "plain_text"]

\* _route_from_extension_or_media_type
RouteByName(a) ==
    IF a.suffix \in DOMAIN SuffixRoute THEN SuffixRoute[a.suffix]
    ELSE IF "image" \in a.media THEN MediaRoute.image
    ELSE IF "csv" \in a.media THEN MediaRoute.csv
    ELSE IF "plain" \in a.media THEN MediaRoute.plain
    ELSE "unknown"

\* FileKindRouter.route: only a PDF is looked into.
Route(a) ==
    LET signed == ~a.body.gone /\ a.body.magic
        route == IF a.suffix # "pdf" THEN RouteByName(a)
                 ELSE IF signed THEN "pdf" ELSE "unknown"
    IN  [route |-> route,
         issues |-> IF route # "unknown" THEN {}
                    ELSE IF a.suffix = "pdf" THEN {"file_signature_mismatch"}
                    ELSE {"unsupported_media_type"}]

-----------------------------------------------------------------------------
(***************************************************************************)
(* The readers: what each makes of an attachment, in a set that is empty   *)
(* when it raises.                                                         *)
(***************************************************************************)
Artifact(id, parent, issues) == [id |-> id, parent |-> parent, issues |-> issues]

Unit(id, artifact) == [id |-> id, artifact |-> artifact]

Named(a) == <<"artifact">> \o a.id

\* The id of a unit of a, from the words that tell it from a's other units.
UnitOf(a, words, artifact) == Unit(<<"unit">> \o a.id \o words, artifact)

\* The inventory of an attachment; its issues are those of its artifacts.
Inventory(a, artifacts, units) ==
    [attachment |-> a.id, route |-> Route(a), safety |-> Safety(a),
     artifacts |-> artifacts, units |-> units,
     issues |-> UNION {f.issues : f \in artifacts}]

\* _file_artifact, of a file that is one artifact
FileInventory(a, issues, units) == Inventory(a, {Artifact(Named(a), a.id, issues)}, units)

UnsupportedReader(a) ==
    {Inventory(a, {Artifact(<<"unsupported">> \o a.id, a.id,
                            Route(a).issues \cup Safety(a).issues \cup {"unsupported_media_type"})},
               {})}

PlainTextReader(a) ==
    IF a.body.gone \/ a.body.rows = None THEN {}
    ELSE {FileInventory(a, {"plain_text_low_provenance"},
            {UnitOf(a, <<"line", Numeral[n]>>, Named(a)) :
                n \in {m \in DOMAIN a.body.rows : a.body.rows[m] > 0}})}

\* The first row are the headers; a table is a unit itself.
DelimitedTableReader(a) ==
    IF a.body.gone \/ a.body.rows = None THEN {}
    ELSE {FileInventory(a, {},
            {UnitOf(a, <<"table", Numeral[1]>>, Named(a))} \cup
            UNION {{UnitOf(a, <<RowWord[n], ColumnWord[m]>>, Named(a)) :
                      m \in 1 .. a.body.rows[n]} : n \in DOMAIN a.body.rows \ {1}})}

\* A document without page marks counts as one page.
PdfProfileReader(a) ==
    IF a.body.gone THEN {}
    ELSE {Inventory(a,
            {Artifact(Named(a), a.id, IF a.body.encrypted THEN {"encrypted_pdf"} ELSE {})} \cup
            {Artifact(Named(a) \o <<"page", Numeral[n]>>, Named(a), {}) :
                n \in {1} \cup 1 .. a.body.pages},
            {UnitOf(a, <<"pdf", "profile">>, Named(a))})}

ImageProfileReader(a) ==
    IF a.body.gone \/ a.body.image = "truncated" THEN {}
    ELSE {FileInventory(a, IF a.body.image = "unknown" THEN {"image_profile_unreadable"} ELSE {},
            {UnitOf(a, <<"image", "profile">>, Named(a))})}

\* Mutant: an unreadable workbook is just empty.
SpreadsheetUnreported(a) == {FileInventory(a, {}, {})}

UnreadableWorkbook(a) == {FileInventory(a, {"spreadsheet_profile_unreadable"}, {})}

\* Mutant: sheets are told apart by their cells alone.
SheetIdOfFile(a, n) == Named(a) \o <<"sheet">>

SheetId(a, n) == Named(a) \o <<"sheet", Numeral[n]>>

\* Every sheet is an artifact with a table unit and a unit for each cell.
Workbook(a, sheets) ==
    {Inventory(a,
        {Artifact(Named(a) \o <<"workbook">>, a.id, {})} \cup
        {Artifact(SheetId(a, n), Named(a) \o <<"workbook">>,
                  IF sheets[n].hidden THEN {"hidden_spreadsheet_sheet"} ELSE {}) :
            n \in DOMAIN sheets},
        UNION {{UnitOf(a, <<"sheet", Numeral[n], "table", Numeral[1]>>, SheetId(a, n))} \cup
               {UnitOf(a, <<"sheet", Numeral[n], c>>, SheetId(a, n)) : c \in sheets[n].cells} :
               n \in DOMAIN sheets})}

\* A file that is gone is caught here, as OSError.
SpreadsheetReader(a) ==
    IF a.body.gone \/ a.body.workbook = "unreadable" THEN UnreadableWorkbook(a)
    ELSE IF a.body.workbook = "raises" THEN {}
    ELSE Workbook(a, a.body.sheets)

\* ingest_attachment
Ingested(a) ==
    IF ~Safety(a).allowed THEN UnsupportedReader(a)
    ELSE CASE Route(a).route = "plain_text" -> PlainTextReader(a)
           [] Route(a).route = "delimited_table" -> DelimitedTableReader(a)
           [] Route(a).route = "pdf" -> PdfProfileReader(a)
           [] Route(a).route = "image" -> ImageProfileReader(a)
           [] Route(a).route = "spreadsheet" -> SpreadsheetReader(a)
           [] OTHER -> UnsupportedReader(a)

=============================================================================
