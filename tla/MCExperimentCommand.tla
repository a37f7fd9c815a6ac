------------------------- MODULE MCExperimentCommand -------------------------
(***************************************************************************)
(* Bundles in which attachments of every kind fail or not, alone and       *)
(* before or after others; two commands, one after the other, over the     *)
(* same files.                                                             *)
(***************************************************************************)
EXTENDS ExperimentCommand

Plain ==
    [gone |-> FALSE, magic |-> FALSE, rows |-> <<2, 0, 1>>, pages |-> 0,
     encrypted |-> FALSE, image |-> "known",
     workbook |-> "readable",
     sheets |-> <<[hidden |-> FALSE, cells |-> {"A1", "B2"}],
                  [hidden |-> TRUE, cells |-> {}]>>]

File(id, suffix) ==
    [id |-> id, suffix |-> suffix, media |-> {}, big |-> FALSE, body |-> Plain]

Bill == <<"bill">>
BillSheet == <<"bill", "sheet", "1">>
Log == <<"log">>

Table == File(Log, "table")
Pdf == [File(Bill, "pdf") EXCEPT !.body.magic = TRUE]

MCBundles ==
    {<<>>,
     <<File(Bill, "spreadsheet"), Table>>,
     <<File(Bill, "spreadsheet"), File(BillSheet, "table")>>,
     <<[Pdf EXCEPT !.body.pages = 2], [File(Log, "other") EXCEPT !.media = {"plain"}]>>,
     <<[Pdf EXCEPT !.big = TRUE], File(Log, "text")>>,
     <<File(Bill, "pdf"), [Table EXCEPT !.body.rows = <<>>, !.media = {"image", "csv"}]>>,
     <<File(Bill, "image"), [File(Log, "macro_spreadsheet") EXCEPT !.body.workbook = "unreadable"]>>,
     <<[File(Bill, "other") EXCEPT !.media = {"image"}, !.body.image = "unknown"],
       File(Log, "macro_office")>>,
     <<[Pdf EXCEPT !.body.encrypted = TRUE], [Table EXCEPT !.body.gone = TRUE]>>,
     <<Table, [File(Bill, "image") EXCEPT !.body.image = "truncated"], Pdf>>,
     <<[File(Bill, "text") EXCEPT !.body.rows = None]>>,
     <<[File(Bill, "spreadsheet") EXCEPT !.body.workbook = "raises"]>>,
     <<[File(Bill, "spreadsheet") EXCEPT !.body.sheets = <<>>],
       [File(Log, "other") EXCEPT !.media = {"csv"}]>>,
     <<[File(Bill, "spreadsheet") EXCEPT !.body.gone = TRUE], [File(Log, "text") EXCEPT !.big = TRUE],
       File(<<"mail">>, "email"), File(<<"all">>, "zip"), File(<<"rest">>, "other")>>}

Fields(status, supporting) == [f \in Field |-> IF f = "status" THEN status ELSE supporting]

MCRow(claim, status, supporting) == [claim |-> claim, fields |-> Fields(status, supporting)]

Expect(claim, status, supporting) ==
    [convergence |-> FALSE, claim |-> claim, fields |-> Fields(status, supporting)]

MCOutcomes ==
    {[convergence |-> FALSE, rows |-> <<MCRow("x1", "supported", <<"a1", "a9", "a2">>)>>,
      atoms |-> <<[id |-> "a1", type |-> "usage"], [id |-> "a2", type |-> "period"]>>],
     [convergence |-> FALSE,
      rows |-> <<MCRow("x1", "supported", <<>>), MCRow("x1", "contradicted", <<"a1">>)>>,
      atoms |-> <<[id |-> "a1", type |-> "period"], [id |-> "a1", type |-> "usage"]>>],
     [convergence |-> TRUE, rows |-> <<MCRow("x1", "supported", <<>>)>>, atoms |-> <<>>]}

MCExpected ==
    {<<>>,
     <<Expect("x1", "supported", <<"usage", "period">>)>>,
     <<Expect("x1", None, <<"usage">>), Expect("x2", None, None)>>,
     <<[Expect("x1", "supported", None) EXCEPT !.convergence = TRUE]>>}

Run(convergence, bundle) ==
    [convergence |-> convergence, readable |-> TRUE, bundle |-> bundle, judged |-> FALSE,
     loads |-> TRUE, expected |-> <<>>]

MCCommands ==
    {Run(FALSE, b) : b \in MCBundles} \cup {Run(TRUE, b) : b \in MCBundles}
      \cup {[Run(c, <<Table>>) EXCEPT !.judged = TRUE, !.expected = e] :
              c \in BOOLEAN, e \in MCExpected}
      \cup {[Run(FALSE, <<Table>>) EXCEPT !.judged = TRUE, !.loads = FALSE],
            [Run(FALSE, <<Table>>) EXCEPT !.readable = FALSE]}

MCNumeral == <<"1", "2", "3">>
MCRowWord == <<"r1", "r2", "r3">>
MCColumnWord == <<"c1", "c2", "c3">>

MCWord ==
    {"page", "sheet", "workbook", "line", "table", "pdf", "image", "profile", "text", "word",
     "artifact", "unsupported", "unit", "bill", "log", "mail", "all", "rest", "A1", "B2",
     "1", "2", "3", "r1", "r2", "r3", "c1", "c2", "c3"}

=============================================================================
