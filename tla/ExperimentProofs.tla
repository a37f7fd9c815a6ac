-------------------------- MODULE ExperimentProofs --------------------------
(***************************************************************************)
(* Theorems about ExperimentCommand, for all commands, attachments and     *)
(* outcomes and any number of rounds.                                      *)
(***************************************************************************)
EXTENDS ExperimentCommand, SequenceTheorems, TLAPS

-----------------------------------------------------------------------------
(***************************************************************************)
(* The inductive invariant.                                                *)
(***************************************************************************)

\* What has been read so far is what the first attachments give.
ReadInOrder ==
    /\ read \in Seq(UNION {Ingested(command.bundle[n]) : n \in DOMAIN command.bundle})
    /\ Len(read) <= Len(command.bundle)
    /\ \A n \in DOMAIN read : read[n] \in Ingested(command.bundle[n])
    /\ AllRead => Len(read) = Len(command.bundle)

\* A whole trace of the current command is of its run and of all it read.
TraceOfRun ==
    /\ (trace.whole /\ trace.of = round) =>
          /\ Len(read) = Len(command.bundle)
          /\ trace.content.units = Units(read)
          /\ trace.content.failures = IF command.convergence THEN PartialFailures(read) ELSE {}
    /\ pc \in {"judge", "report", "fill_report"} =>
          command.judged
    /\ pc \in {"judge", "report", "fill_report", "print"} =>
          trace.whole /\ trace.of = round /\ trace.content.run = run
    /\ pc = "print" /\ command.judged => report.whole /\ report.of = round

\* Until its report is opened, no file is of the current command but the trace.
FilesInOrder ==
    /\ pc \in {"load", "ingest", "trace"} => trace.of < round
    /\ pc \in {"load", "ingest", "trace", "fill_trace", "judge", "report"} => report.of < round
    /\ pc = "fill_trace" => ~trace.whole
    /\ {trace.whole, report.whole} \subseteq BOOLEAN

\* The exit status of a command that did not raise is a verdict on the trace.
Verdict ==
    (pc = "idle" /\ exit \in {"code_0", "code_1"} /\ ~traceback) =>
        /\ trace.whole /\ trace.of = round
        /\ command.judged => report.whole /\ report.of = round
        /\ exit = "code_1" => command.judged
        /\ command.judged =>
             (exit = "code_0" <=> Passes(trace.content.run, command.expected))

Inv ==
    TypeOK /\ ReadInOrder /\ TraceOfRun /\ FilesInOrder /\ Verdict /\ ReportOfTrace

\* The reader an attachment is given to has one answer or none.
LEMMA OneInventory ==
    ASSUME NEW a, NEW u \in Ingested(a), NEW w \in Ingested(a)
    PROVE  u = w
  BY DEF Ingested, UnsupportedReader, PlainTextReader, DelimitedTableReader, PdfProfileReader,
         ImageProfileReader, SpreadsheetReader, UnreadableWorkbook, Workbook, FileInventory

\* Every command has a bundle that is a sequence.
LEMMA BundleType ==
    ASSUME NEW c \in Commands
    PROVE  /\ c.bundle \in Seq(Attachment) /\ c.judged \in BOOLEAN
           /\ Len(c.bundle) \in Nat /\ DOMAIN c.bundle = 1 .. Len(c.bundle)
<1>1. c \in Command
    BY CommandAssumption
<1>2. c.bundle \in Seq(Attachment) /\ c.judged \in BOOLEAN
    BY <1>1 DEF Command
<1> QED BY <1>2, LenProperties

LEMMA InvInit == Init => Inv
<1> SUFFICES ASSUME Init PROVE Inv
    OBVIOUS
<1> USE DEF Init
<1>1. TypeOK
  <2>1. traceback \in BOOLEAN /\ (traceback => exit = "code_1")
    BY Zenon
  <2>2. ~AllRead
    BY DEF AllRead
  <2>3. command \in Commands /\ Len(read) <= Len(command.bundle)
    BY BundleType
  <2>4. {trace.of, report.of} \subseteq 0 .. round /\ round \in 0 .. MaxRounds
    BY CommandAssumption DEF NoFile
  <2>5. pc = "idle" /\ run = None /\ exit = None
    OBVIOUS
  <2> QED BY ONLY <2>1, <2>2, <2>3, <2>4, <2>5 DEF TypeOK
<1>2. ReadInOrder
    BY BundleType, EmptySeq DEF ReadInOrder, AllRead
<1>3. TraceOfRun /\ FilesInOrder
    BY CommandAssumption DEF TraceOfRun, FilesInOrder, NoFile
<1>4. Verdict
    BY CommandAssumption DEF Verdict
<1>5. ReportOfTrace
    BY DEF ReportOfTrace, NoFile
<1> QED BY <1>1, <1>2, <1>3, <1>4, <1>5 DEF Inv

-----------------------------------------------------------------------------
(***************************************************************************)
(* Every step preserves it, one lemma per action.                          *)
(***************************************************************************)

\* What the actions have in common.
LEMMA InvType ==
    ASSUME Inv
    PROVE  /\ TypeOK /\ round \in Nat /\ trace.of \in Nat /\ report.of \in Nat
           /\ trace.of <= round /\ report.of <= round
           /\ trace.whole \in BOOLEAN /\ report.whole \in BOOLEAN
           /\ command \in Commands /\ Len(command.bundle) \in Nat
           /\ Len(read) \in Nat /\ DOMAIN read = 1 .. Len(read)
           /\ DOMAIN command.bundle = 1 .. Len(command.bundle)
<1>1. TypeOK /\ ReadInOrder /\ FilesInOrder
    BY DEF Inv
<1>2. round \in Nat /\ command \in Commands
    BY <1>1, CommandAssumption DEF TypeOK
<1>3. trace.of \in 0 .. round /\ report.of \in 0 .. round
    BY <1>1 DEF TypeOK
<1>4. Len(read) \in Nat /\ DOMAIN read = 1 .. Len(read)
    BY <1>1, LenProperties DEF ReadInOrder
<1>5. trace.whole \in BOOLEAN /\ report.whole \in BOOLEAN
    BY <1>1 DEF FilesInOrder
<1> QED BY <1>1, <1>2, <1>3, <1>4, <1>5, BundleType

LEMMA InvStart ==
    ASSUME Inv, NEW c \in Commands, Start(c)
    PROVE  Inv'
<1> USE DEF Start
<1>1. TypeOK'
  <2>1. traceback' \in BOOLEAN /\ (traceback' => exit' = "code_1")
    BY Zenon
  <2>2. ~AllRead'
    BY DEF AllRead
  <2>3. command' \in Commands /\ Len(read') <= Len(command'.bundle)
    BY BundleType
  <2>4. {trace'.of, report'.of} \subseteq 0 .. round' /\ round' \in 0 .. MaxRounds
    BY InvType, CommandAssumption DEF TypeOK
  <2>5. pc' = "load" /\ run' = None /\ exit' = None
    OBVIOUS
  <2> QED BY ONLY <2>1, <2>2, <2>3, <2>4, <2>5 DEF TypeOK
<1>2. ReadInOrder'
    BY BundleType, EmptySeq DEF ReadInOrder, AllRead
<1>3. TraceOfRun' /\ FilesInOrder'
    BY InvType DEF TraceOfRun, FilesInOrder
<1>4. Verdict'
    BY DEF Verdict
<1>5. ReportOfTrace'
    BY DEF Inv, ReportOfTrace
<1> QED BY <1>1, <1>2, <1>3, <1>4, <1>5 DEF Inv

\* A step that leaves the files alone and does not end with a verdict: all
\* that it has to show.
LEMMA FilesKept ==
    ASSUME Inv, UNCHANGED <<trace, report>>,
           TypeOK', ReadInOrder', TraceOfRun', FilesInOrder', Verdict'
    PROVE  Inv'
<1>1. ReportOfTrace'
    BY DEF Inv, ReportOfTrace, Passes, Meets
<1> QED BY <1>1 DEF Inv

\* A command that is given up: by an error, or from outside.
LEMMA InvEnd ==
    ASSUME Inv, pc # "idle", Raises \/ Exits("other"),
           UNCHANGED <<command, round, read, run, trace, report>>
    PROVE  Inv'
<1> USE DEF Raises, Exits
<1>1. TypeOK'
    BY DEF Inv, TypeOK, AllRead
<1>2. ReadInOrder'
    BY DEF Inv, ReadInOrder, AllRead
<1>3. TraceOfRun' /\ FilesInOrder'
    BY DEF Inv, TraceOfRun, FilesInOrder, Units, PartialFailures
<1>4. Verdict'
    BY CommandAssumption DEF Verdict
<1> QED BY <1>1, <1>2, <1>3, <1>4, FilesKept

\* A command that goes on, at a place where nothing of it is written.
LEMMA InvOn ==
    ASSUME Inv, pc' \in {"ingest", "report"}, pc # "idle",
           pc' = "ingest" <=> pc = "load",
           pc' = "report" <=> pc = "judge",
           UNCHANGED <<command, round, read, run, trace, report, exit, traceback>>
    PROVE  Inv'
<1>1. TypeOK'
    BY DEF Inv, TypeOK, AllRead
<1>2. ReadInOrder'
    BY DEF Inv, ReadInOrder, AllRead
<1>3. TraceOfRun' /\ FilesInOrder'
    BY DEF Inv, TraceOfRun, FilesInOrder, Units, PartialFailures
<1>4. Verdict'
    BY DEF Verdict
<1> QED BY <1>1, <1>2, <1>3, <1>4, FilesKept

LEMMA InvLoad ==
    ASSUME Inv, Load
    PROVE  Inv'
  BY InvOn, InvEnd DEF Load

LEMMA InvJudge ==
    ASSUME Inv, Judge
    PROVE  Inv'
  BY InvOn, InvEnd DEF Judge

LEMMA InvIngest ==
    ASSUME Inv, Ingest
    PROVE  Inv'
<1> DEFINE All == UNION {Ingested(command.bundle[n]) : n \in DOMAIN command.bundle}
<1>1. PICK inventory \in Ingested(Next1) : read' = Append(read, inventory)
    BY DEF Ingest
<1>2. /\ Len(read) + 1 \in DOMAIN command.bundle
      /\ Len(read) < Len(command.bundle) /\ pc = "ingest"
    BY InvType DEF Ingest
<1>3. inventory \in All /\ read \in Seq(All)
    BY <1>1, <1>2 DEF Next1, Inv, ReadInOrder
<1> HIDE DEF All
<1>4. /\ read' \in Seq(All) /\ Len(read') = Len(read) + 1
      /\ \A n \in 1 .. Len(read) : read'[n] = read[n]
      /\ read'[Len(read) + 1] = inventory
    BY <1>1, <1>3, AppendProperties
<1>5. DOMAIN read' = 1 .. Len(read) + 1
    BY <1>4, LenProperties
<1>6. \A n \in DOMAIN read' : read'[n] \in Ingested(command.bundle[n])
  <2> SUFFICES ASSUME NEW n \in 1 .. Len(read) + 1
               PROVE  read'[n] \in Ingested(command.bundle[n])
      BY <1>5
  <2>1. CASE n \in 1 .. Len(read)
      BY <2>1, <1>4, InvType DEF Inv, ReadInOrder
  <2>2. CASE n = Len(read) + 1
      BY <2>2, <1>1, <1>4 DEF Next1
  <2> QED BY <2>1, <2>2, InvType
<1>7. UNCHANGED <<command, round, pc, run, trace, report, exit, traceback>>
    BY DEF Ingest
<1>8. read' \in Seq(UNION {Ingested(command.bundle[n]) : n \in DOMAIN command.bundle})
    BY <1>4 DEF All
<1>9. ReadInOrder'
    BY <1>2, <1>4, <1>6, <1>7, <1>8, InvType DEF ReadInOrder, AllRead
<1>10. TypeOK'
    BY <1>2, <1>4, <1>7, InvType DEF TypeOK, AllRead
<1>11. TraceOfRun' /\ FilesInOrder'
    BY <1>2, <1>7, InvType DEF Inv, TraceOfRun, FilesInOrder
<1>12. Verdict'
    BY <1>2, <1>7 DEF Verdict
<1> QED BY <1>7, <1>9, <1>10, <1>11, <1>12, FilesKept

LEMMA InvCycle ==
    ASSUME Inv, Cycle
    PROVE  Inv'
<1>1. run' \in Outcomes /\ run' # None
    BY CommandAssumption DEF Cycle
<1>2. /\ pc = "ingest" /\ pc' = "trace" /\ Len(read) = Len(command.bundle)
      /\ UNCHANGED <<command, round, read, trace, report, exit, traceback>>
    BY DEF Cycle
<1>3. TypeOK'
    BY <1>1, <1>2 DEF Inv, TypeOK, AllRead
<1>4. ReadInOrder'
    BY <1>2 DEF Inv, ReadInOrder, AllRead
<1>5. TraceOfRun' /\ FilesInOrder'
    BY <1>2, InvType DEF Inv, TraceOfRun, FilesInOrder
<1>6. Verdict'
    BY <1>2 DEF Verdict
<1> QED BY <1>2, <1>3, <1>4, <1>5, <1>6, FilesKept

LEMMA InvOpenTrace ==
    ASSUME Inv, OpenTrace
    PROVE  Inv'
<1>1. /\ trace'.of = round /\ trace'.whole = FALSE
      /\ pc = "trace" /\ pc' = "fill_trace"
      /\ UNCHANGED <<command, round, read, run, report, exit, traceback>>
    BY DEF OpenTrace, Truncated
<1>2. TypeOK'
    BY <1>1, InvType DEF TypeOK, AllRead
<1>3. ReadInOrder'
    BY <1>1 DEF Inv, ReadInOrder, AllRead
<1>4. TraceOfRun'
    BY <1>1 DEF TraceOfRun
<1>5. FilesInOrder'
    BY <1>1 DEF Inv, FilesInOrder
<1>6. Verdict'
    BY <1>1 DEF Verdict
<1>7. ReportOfTrace'
    BY <1>1, InvType DEF ReportOfTrace
<1> QED BY <1>2, <1>3, <1>4, <1>5, <1>6, <1>7 DEF Inv

LEMMA InvFillTrace ==
    ASSUME Inv, FillTrace
    PROVE  Inv'
<1>1. /\ trace'.of = round /\ trace'.whole = TRUE
      /\ trace'.content.units = Units(read) /\ trace'.content.run = run
      /\ trace'.content.failures = IF command.convergence THEN PartialFailures(read) ELSE {}
    BY DEF FillTrace, Filled
<1>2. /\ pc = "fill_trace"
      /\ UNCHANGED <<command, round, read, run, report>>
    BY DEF FillTrace
<1>3. /\ exit' = exit /\ traceback' = traceback
      /\ \/ command.judged /\ pc' = "judge"
         \/ ~command.judged /\ pc' = "print"
    BY DEF FillTrace
<1>4. /\ report.of < round /\ Len(read) = Len(command.bundle)
    BY <1>2 DEF Inv, FilesInOrder, ReadInOrder, AllRead
<1>5. TypeOK'
    BY <1>1, <1>2, <1>3, InvType DEF TypeOK, AllRead
<1>6. ReadInOrder'
    BY <1>2, <1>3, <1>4 DEF Inv, ReadInOrder, AllRead
<1>7. TraceOfRun'
    BY <1>1, <1>2, <1>3, <1>4 DEF TraceOfRun, Units, PartialFailures
<1>8. FilesInOrder'
    BY <1>1, <1>2, <1>3, <1>4, InvType DEF FilesInOrder
<1>9. Verdict'
    BY <1>1, <1>2, <1>3 DEF Verdict
<1>10. ReportOfTrace'
    BY <1>1, <1>2, <1>4, InvType DEF ReportOfTrace
<1> QED BY <1>5, <1>6, <1>7, <1>8, <1>9, <1>10 DEF Inv

LEMMA InvOpenReport ==
    ASSUME Inv, OpenReport
    PROVE  Inv'
<1>1. /\ report'.of = round /\ report'.whole = FALSE
      /\ pc = "report" /\ pc' = "fill_report"
      /\ UNCHANGED <<command, round, read, run, trace, exit, traceback>>
    BY DEF OpenReport, Truncated
<1>2. trace.of = round
    BY <1>1 DEF Inv, TraceOfRun
<1>3. TypeOK'
    BY <1>1, InvType DEF TypeOK, AllRead
<1>4. ReadInOrder'
    BY <1>1 DEF Inv, ReadInOrder, AllRead
<1>5. TraceOfRun'
    BY <1>1 DEF Inv, TraceOfRun, Units, PartialFailures
<1>6. FilesInOrder'
    BY <1>1 DEF Inv, FilesInOrder
<1>7. Verdict'
    BY <1>1 DEF Verdict
<1>8. ReportOfTrace'
    BY <1>1, <1>2, InvType DEF ReportOfTrace
<1> QED BY <1>3, <1>4, <1>5, <1>6, <1>7, <1>8 DEF Inv

LEMMA InvFillReport ==
    ASSUME Inv, FillReport
    PROVE  Inv'
<1> DEFINE passed == Passes(run, command.expected)
<1>1. /\ report'.of = round /\ report'.whole = TRUE
      /\ report'.content.passed = passed /\ report'.content.expected = command.expected
    BY DEF FillReport, Filled
<1>2. /\ pc = "fill_report" /\ pc' = "print"
      /\ UNCHANGED <<command, round, read, run, trace, exit, traceback>>
    BY DEF FillReport
<1>3. /\ command.judged /\ trace.whole /\ trace.of = round /\ trace.content.run = run
    BY <1>2 DEF Inv, TraceOfRun
<1> HIDE DEF passed
<1>4. TypeOK'
    BY <1>1, <1>2, InvType DEF TypeOK, AllRead
<1>5. ReadInOrder'
    BY <1>2 DEF Inv, ReadInOrder, AllRead
<1>6. TraceOfRun'
    BY <1>1, <1>2, <1>3 DEF Inv, TraceOfRun, Units, PartialFailures
<1>7. FilesInOrder'
    BY <1>1, <1>2, InvType DEF FilesInOrder
<1>8. passed = Passes(trace'.content.run, command.expected)
    BY <1>2, <1>3 DEF passed
<1>9. Verdict'
    BY <1>2 DEF Verdict
<1>10. ReportOfTrace'
    BY <1>1, <1>2, <1>3, <1>8, InvType DEF ReportOfTrace
<1> QED BY <1>4, <1>5, <1>6, <1>7, <1>9, <1>10 DEF Inv

\* The status is the verdict of the report that was written.
LEMMA InvPrintSummary ==
    ASSUME Inv, PrintSummary
    PROVE  Inv'
<1> DEFINE passed == Passes(run, command.expected)
<1>1. /\ pc = "print" /\ pc' = "idle" /\ traceback' = FALSE
      /\ exit' = IF command.judged /\ ~passed THEN "code_1" ELSE "code_0"
      /\ UNCHANGED <<command, round, read, run, trace, report>>
    BY DEF PrintSummary, Exits
<1>2. /\ trace.whole /\ trace.of = round /\ trace.content.run = run
      /\ command.judged => report.whole /\ report.of = round
    BY <1>1 DEF Inv, TraceOfRun
<1>3. passed = Passes(trace'.content.run, command.expected)
    BY <1>1, <1>2
<1> HIDE DEF passed
<1>4. TypeOK'
    BY <1>1 DEF Inv, TypeOK, AllRead
<1>5. ReadInOrder'
    BY <1>1 DEF Inv, ReadInOrder, AllRead
<1>6. TraceOfRun' /\ FilesInOrder'
    BY <1>1 DEF Inv, TraceOfRun, FilesInOrder, Units, PartialFailures
<1>7. Verdict'
    BY <1>1, <1>2, <1>3 DEF Verdict, Passes
<1> QED BY <1>1, <1>4, <1>5, <1>6, <1>7, FilesKept

LEMMA InvNext ==
    ASSUME Inv, [Next]_vars
    PROVE  Inv'
<1>1. CASE \E c \in Commands : Start(c)
    BY <1>1, InvStart
<1>2. CASE Step
  <2>1. ASSUME IngestRaises \/ CycleRaises PROVE Inv'
      BY <2>1, InvEnd DEF IngestRaises, CycleRaises
  <2> QED BY <1>2, <2>1, InvLoad, InvIngest, InvCycle, InvOpenTrace, InvFillTrace, InvJudge,
             InvOpenReport, InvFillReport, InvPrintSummary DEF Step
<1>3. CASE WriteFails \/ Killed
    BY <1>3, InvEnd DEF WriteFails, Killed
<1>4. CASE UNCHANGED vars
  <2>1. UNCHANGED <<command, round, pc, read, run, trace, report, exit, traceback>>
      BY <1>4 DEF vars
  <2>2. TypeOK'
      BY <2>1 DEF Inv, TypeOK, AllRead
  <2>3. ReadInOrder'
      BY <2>1 DEF Inv, ReadInOrder, AllRead
  <2>4. TraceOfRun' /\ FilesInOrder'
      BY <2>1 DEF Inv, TraceOfRun, FilesInOrder, Units, PartialFailures
  <2>5. Verdict'
      BY <2>1 DEF Inv, Verdict
  <2> QED BY <2>1, <2>2, <2>3, <2>4, <2>5, FilesKept
<1> QED BY <1>1, <1>2, <1>3, <1>4 DEF Next, Rest

\* The invariant holds in every reachable state.
THEOREM Invariant == Spec => []Inv
<1>1. Inv /\ [Next]_vars => Inv'
    BY InvNext
<1> QED BY <1>1, InvInit, PTL DEF Spec

-----------------------------------------------------------------------------
(***************************************************************************)
(* What follows from it.                                                   *)
(***************************************************************************)

\* Every variable has its type, and a command that runs has no exit status.
THEOREM TypeCorrect == Spec => []TypeOK
<1>1. Inv => TypeOK
    BY DEF Inv
<1> QED BY <1>1, Invariant, PTL

\* The report is never ahead of the trace, and of one command it is the
\* verdict on that trace.
THEOREM ReportTheorem == Spec => []ReportOfTrace
<1>1. Inv => ReportOfTrace
    BY DEF Inv
<1> QED BY <1>1, Invariant, PTL

\* An exit status of 0, or of 1 without a traceback, is the verdict of this
\* command's report on this command's trace, whatever earlier commands left.
THEOREM ExitTheorem == Spec => []ExitTellsReport
<1>1. ASSUME Inv PROVE ExitTellsReport
  <2>1. \A o, e : Meets(o, e) <=>
            /\ RowsOf(o, e) # {}
            /\ \A f \in Field : e.fields[f] \in
                  {None, Actual(o, o.rows[LastAt(RowsOf(o, e))], f)}
      BY DEF Meets
  <2>2. Verdict
      BY <1>1 DEF Inv
  <2> QED BY <2>1, <2>2 DEF Verdict, ExitTellsReport, Passes
<1> QED BY <1>1, Invariant, PTL

\* A trace is written of the whole bundle or not at all.
THEOREM CompleteTheorem == Spec => []TraceComplete
<1>1. ASSUME Inv, trace.whole, trace.of = round
      PROVE  /\ \A n \in DOMAIN command.bundle : Ingested(command.bundle[n]) # {}
             /\ trace.content.units =
                  UNION {UNION {inv.units : inv \in Ingested(command.bundle[n])} :
                         n \in DOMAIN command.bundle}
             /\ trace.content.failures =
                  IF command.convergence
                  THEN UNION {UNION {inv.issues \ Blocking : inv \in Ingested(command.bundle[n])} :
                              n \in DOMAIN command.bundle}
                  ELSE {}
  <2>1. /\ DOMAIN read = DOMAIN command.bundle
        /\ trace.content.units = Units(read)
        /\ trace.content.failures = IF command.convergence THEN PartialFailures(read) ELSE {}
      BY <1>1, InvType DEF Inv, TraceOfRun
  <2>2. \A n \in DOMAIN command.bundle : read[n] \in Ingested(command.bundle[n])
      BY <1>1, <2>1 DEF Inv, ReadInOrder
  <2>3. ASSUME NEW n \in DOMAIN command.bundle
        PROVE  /\ UNION {inv.units : inv \in Ingested(command.bundle[n])} = read[n].units
               /\ UNION {inv.issues \ Blocking : inv \in Ingested(command.bundle[n])}
                    = read[n].issues \ Blocking
    <3>1. Ingested(command.bundle[n]) = {read[n]}
        BY <2>2, OneInventory
    <3> QED BY <3>1
  <2>4. Units(read) = UNION {UNION {inv.units : inv \in Ingested(command.bundle[n])} :
                             n \in DOMAIN command.bundle}
      BY <2>1, <2>3 DEF Units
  <2>5. PartialFailures(read) =
          UNION {UNION {inv.issues \ Blocking : inv \in Ingested(command.bundle[n])} :
                 n \in DOMAIN command.bundle}
      BY <2>1, <2>3 DEF PartialFailures
  <2> QED BY <2>1, <2>2, <2>4, <2>5
<1>2. Inv => TraceComplete
    BY <1>1 DEF TraceComplete
<1> QED BY <1>2, Invariant, PTL

\* What NothingSilent asks of one attachment.
Accounted(a, inv) ==
    /\ inv.units = {} => inv.issues # {} \/ (inv.route.route = "spreadsheet" /\ a.body.sheets = <<>>)
    /\ (a.big \/ (a.suffix = "pdf" /\ ~a.body.magic)) =>
         inv.units = {} /\ inv.issues \cap Blocking # {}

\* What cannot be read has an issue.
LEMMA UnsupportedAccounted ==
    ASSUME NEW a, NEW inv \in UnsupportedReader(a)
    PROVE  Accounted(a, inv)
<1>1. inv.units = {} /\ "unsupported_media_type" \in inv.issues
    BY DEF UnsupportedReader, Inventory, Artifact
<1> QED BY <1>1 DEF Accounted, Blocking

\* A workbook with sheets has a unit or an issue.
LEMMA WorkbookAccounted ==
    ASSUME NEW a \in Attachment, Route(a).route = "spreadsheet", NEW inv \in SpreadsheetReader(a)
    PROVE  inv.units = {} =>
             inv.issues # {} \/ (inv.route.route = "spreadsheet" /\ a.body.sheets = <<>>)
<1>1. CASE inv \in UnreadableWorkbook(a)
  <2>1. "spreadsheet_profile_unreadable" \in inv.issues
      BY <1>1 DEF UnreadableWorkbook, FileInventory, Inventory, Artifact
  <2> QED BY <2>1
<1>2. CASE inv \in Workbook(a, a.body.sheets)
  <2>1. inv.route = Route(a)
      BY <1>2 DEF Workbook, Inventory
  <2>2. a.body.sheets \in Seq(Sheet)
      BY DEF Attachment, Body
  <2>3. ASSUME NEW n \in DOMAIN a.body.sheets
        PROVE  inv.units # {}
    <3> DEFINE Table(m) == UnitOf(a, <<"sheet", Numeral[m], "table", Numeral[1]>>, SheetId(a, m))
               Cells(m) == {UnitOf(a, <<"sheet", Numeral[m], c>>, SheetId(a, m)) :
                              c \in a.body.sheets[m].cells}
    <3>1. inv.units = UNION {{Table(m)} \cup Cells(m) : m \in DOMAIN a.body.sheets}
      <4> DEFINE artifacts == {Artifact(Named(a) \o <<"workbook">>, a.id, {})} \cup
                                {Artifact(SheetId(a, m), Named(a) \o <<"workbook">>,
                                          IF a.body.sheets[m].hidden
                                          THEN {"hidden_spreadsheet_sheet"} ELSE {}) :
                                   m \in DOMAIN a.body.sheets}
                 units == UNION {{Table(m)} \cup Cells(m) : m \in DOMAIN a.body.sheets}
      <4>1. inv = Inventory(a, artifacts, units)
          BY <1>2 DEF Workbook
      <4> HIDE DEF artifacts, units
      <4>2. inv.units = units
          BY <4>1 DEF Inventory
      <4> QED BY <4>2 DEF units
    <3> HIDE DEF Table, Cells
    <3>2. Table(n) \in inv.units
        BY <3>1, <2>3
    <3> QED BY <3>2
  <2>4. DOMAIN a.body.sheets = {} => a.body.sheets = <<>>
    <3>1. DOMAIN a.body.sheets = 1 .. Len(a.body.sheets)
        BY <2>2, LenProperties
    <3>2. ASSUME a.body.sheets # <<>>
          PROVE  1 \in DOMAIN a.body.sheets
        BY <2>2, <3>1, <3>2, EmptySeq
    <3> QED BY <3>2
  <2> QED BY <2>1, <2>3, <2>4
<1> QED BY <1>1, <1>2 DEF SpreadsheetReader

\* So it is for each reader.
LEMMA ReaderAccounts ==
    ASSUME NEW a \in Attachment, NEW inv \in Ingested(a)
    PROVE  Accounted(a, inv)
<1>1. CASE inv \in UnsupportedReader(a)
    BY <1>1, UnsupportedAccounted
<1>2. CASE /\ Safety(a).allowed
           /\ Route(a).route \in {"plain_text", "delimited_table", "pdf", "image", "spreadsheet"}
  <2>1. ~(a.big \/ (a.suffix = "pdf" /\ ~a.body.magic))
      BY <1>2 DEF Safety, Route
  <2>2. ASSUME Route(a).route # "spreadsheet"
        PROVE  inv.units # {} \/ inv.issues # {}
    <3>1. CASE inv \in PlainTextReader(a)
      <4>1. "plain_text_low_provenance" \in inv.issues
          BY <3>1 DEF PlainTextReader, FileInventory, Inventory, Artifact
      <4> QED BY <4>1
    <3>2. CASE inv \in DelimitedTableReader(a)
        BY <3>2 DEF DelimitedTableReader, FileInventory, Inventory
    <3>3. CASE inv \in PdfProfileReader(a)
        BY <3>3 DEF PdfProfileReader, Inventory
    <3>4. CASE inv \in ImageProfileReader(a)
        BY <3>4 DEF ImageProfileReader, FileInventory, Inventory
    <3> QED BY <1>2, <2>2, <3>1, <3>2, <3>3, <3>4 DEF Ingested
  <2>3. ASSUME Route(a).route = "spreadsheet"
        PROVE  inv \in SpreadsheetReader(a)
      BY <1>2, <2>3 DEF Ingested
  <2> QED BY <2>1, <2>2, <2>3, WorkbookAccounted DEF Accounted
<1>3. inv \in UnsupportedReader(a)
        \/ /\ Safety(a).allowed
           /\ Route(a).route \in {"plain_text", "delimited_table", "pdf", "image", "spreadsheet"}
    BY DEF Ingested
<1> QED BY <1>1, <1>2, <1>3

\* No attachment is lost in silence, save a workbook without sheets.
THEOREM SilentTheorem == Spec => []NothingSilent
<1>1. ASSUME Inv, NEW n \in DOMAIN read
      PROVE  Accounted(command.bundle[n], read[n])
  <2>1. n \in DOMAIN command.bundle /\ read[n] \in Ingested(command.bundle[n])
      BY <1>1, InvType DEF Inv, ReadInOrder
  <2>2. command.bundle[n] \in Attachment
      BY <1>1, <2>1, InvType, BundleType, ElementOfSeq
  <2> QED BY <2>1, <2>2, ReaderAccounts
<1>2. Inv => NothingSilent
    BY <1>1 DEF NothingSilent, Accounted
<1> QED BY <1>2, Invariant, PTL

-----------------------------------------------------------------------------
(***************************************************************************)
(* Ids.                                                                    *)
(***************************************************************************)

\* The id of what belongs to s, and the word that tells units from artifacts.
Joined(x, s, w) == <<x>> \o s \o w

\* A joined id begins with its kind and the id it is joined to.
LEMMA JoinedProperties ==
    ASSUME NEW x \in Word, NEW s \in Seq(Word), NEW w \in Seq(Word)
    PROVE  /\ Joined(x, s, w) \in Seq(Word) /\ Len(s) \in Nat
           /\ Joined(x, s, w)[1] = x
           /\ \A k \in 1 .. Len(s) : Joined(x, s, w)[k + 1] = s[k]
<1> DEFINE t == <<x>> \o s
<1>1. <<x>> \in Seq(Word) /\ Len(<<x>>) = 1 /\ <<x>>[1] = x
    OBVIOUS
<1> HIDE DEF t
<1>2. /\ t \in Seq(Word) /\ Len(t) = 1 + Len(s) /\ Len(s) \in Nat
      /\ t[1] = x /\ \A k \in 1 .. Len(s) : t[k + 1] = s[k]
  <2> DEFINE y == <<x>>
  <2>1. y \in Seq(Word) /\ Len(y) = 1 /\ y[1] = x
      BY <1>1
  <2> HIDE DEF y
  <2>2. /\ y \o s \in Seq(Word) /\ Len(y \o s) = Len(y) + Len(s)
        /\ \A k \in 1 .. Len(y) + Len(s) :
              (y \o s)[k] = IF k <= Len(y) THEN y[k] ELSE s[k - Len(y)]
      BY <2>1, ConcatProperties
  <2>3. t = y \o s
      BY DEF t, y
  <2>4. Len(s) \in Nat
      BY LenProperties
  <2> QED BY <2>1, <2>2, <2>3, <2>4
<1>3. /\ t \o w \in Seq(Word)
      /\ \A k \in 1 .. Len(t) + Len(w) :
            (t \o w)[k] = IF k <= Len(t) THEN t[k] ELSE w[k - Len(t)]
    BY <1>2, ConcatProperties
<1>4. Len(w) \in Nat
    BY LenProperties
<1>5. Joined(x, s, w) = t \o w
    BY DEF Joined, t
<1> QED BY <1>2, <1>3, <1>4, <1>5

\* Within an attachment ids differ where the words do.
LEMMA JoinedCancels ==
    ASSUME NEW x \in Word, NEW s \in Seq(Word), NEW v \in Seq(Word), NEW w \in Seq(Word),
           Joined(x, s, v) = Joined(x, s, w)
    PROVE  v = w
<1> DEFINE t == <<x>> \o s
<1>1. t \in Seq(Word)
  <2>1. <<x>> \in Seq(Word)
      OBVIOUS
  <2> QED BY <2>1, ConcatProperties
<1>2. t \o v = t \o w
    BY DEF Joined
<1> HIDE DEF t
<1> QED BY <1>1, <1>2, ConcatSimplifications

\* Across attachments an id is shared only where one attachment's id begins
\* the other's.
LEMMA JoinedPrefix ==
    ASSUME NEW x \in Word, NEW y \in Word, NEW s \in Seq(Word), NEW t \in Seq(Word),
           NEW v \in Seq(Word), NEW w \in Seq(Word), Joined(x, s, v) = Joined(y, t, w)
    PROVE  x = y /\ (PrefixOf(s, t) \/ PrefixOf(t, s))
<1> DEFINE j == Joined(x, s, v)
<1>1. /\ j[1] = x /\ j[1] = y /\ Len(s) \in Nat /\ Len(t) \in Nat
      /\ \A k \in 1 .. Len(s) : j[k + 1] = s[k]
      /\ \A k \in 1 .. Len(t) : j[k + 1] = t[k]
    BY JoinedProperties
<1> HIDE DEF j
<1>2. ASSUME NEW a \in Seq(Word), NEW b \in Seq(Word), Len(a) \in Nat, Len(b) \in Nat,
             Len(a) <= Len(b),
             \A k \in 1 .. Len(a) : j[k + 1] = a[k], \A k \in 1 .. Len(b) : j[k + 1] = b[k]
      PROVE  PrefixOf(a, b)
  <2>1. \A k \in 1 .. Len(a) : k \in 1 .. Len(b) /\ b[k] = a[k] /\ b[k] \in Word
      BY <1>2, ElementOfSeq
  <2> DEFINE p == SubSeq(b, 1, Len(a))
  <2>2. p \in Seq(Word) /\ Len(p) = Len(a) /\ \A k \in 1 .. Len(a) : p[k] = a[k]
    <3>1. /\ p \in Seq(Word) /\ Len(p) = (IF 1 <= Len(a) THEN Len(a) - 1 + 1 ELSE 0)
          /\ \A k \in 1 .. Len(a) - 1 + 1 : p[k] = b[1 + k - 1]
        BY <1>2, <2>1, SubSeqProperties
    <3> HIDE DEF p
    <3> QED BY <1>2, <2>1, <3>1
  <2> HIDE DEF p
  <2>3. p = a
      BY <1>2, <2>2, SeqEqual
  <2> QED BY <1>2, <2>3 DEF PrefixOf, p
<1>3. CASE Len(s) <= Len(t)
    BY <1>1, <1>2, <1>3
<1>4. CASE Len(t) <= Len(s)
    BY <1>1, <1>2, <1>4
<1> QED BY <1>1, <1>3, <1>4

-----------------------------------------------------------------------------
(***************************************************************************)
(* The sources of units.                                                   *)
(***************************************************************************)

\* Units and artifacts bear the attachment's id, no two the same, and lead to
\* the attachment.
Sources(a, inv) ==
    /\ inv.attachment = a.id
    /\ \A u \in inv.units : \E w \in Seq(Word) : u.id = Joined("unit", a.id, w)
    /\ \A f \in inv.artifacts :
          \E x \in {"artifact", "unsupported"}, w \in Seq(Word) : f.id = Joined(x, a.id, w)
    /\ \A u, w \in inv.units : u.id = w.id => u = w
    /\ \A f, g \in inv.artifacts : f.id = g.id => f = g
    /\ \A u \in inv.units : \E f \in inv.artifacts : f.id = u.artifact
    /\ \A f \in inv.artifacts :
          \/ f.parent = a.id
          \/ \E g \in inv.artifacts : g.id = f.parent /\ g.parent = a.id

\* The words of ids are distinct numerals and kinds.
LEMMA Words ==
    /\ {"page", "sheet", "workbook", "line", "table", "pdf", "image", "profile",
        "artifact", "unsupported", "unit"} \subseteq Word
    /\ \A f \in {Numeral, RowWord, ColumnWord} : \A n \in DOMAIN f : f[n] \in Word
    /\ \A m, n \in DOMAIN Numeral : Numeral[m] = Numeral[n] => m = n
<1>1. \A f \in {Numeral, RowWord, ColumnWord} :
          f \in Seq(Word) /\ \A i, j \in DOMAIN f : f[i] = f[j] => i = j
    BY WordAssumption
<1>2. \A f \in Seq(Word) : DOMAIN f = 1 .. Len(f) /\ \A n \in 1 .. Len(f) : f[n] \in Word
    BY LenProperties, ElementOfSeq
<1>3. \A f \in {Numeral, RowWord, ColumnWord} : \A n \in DOMAIN f : f[n] \in Word
  <2> SUFFICES ASSUME NEW f \in {Numeral, RowWord, ColumnWord}, NEW n \in DOMAIN f
               PROVE  f[n] \in Word
      OBVIOUS
  <2>1. f \in Seq(Word)
      BY <1>1
  <2> QED BY <1>2, <2>1
<1> QED BY <1>1, <1>3, WordAssumption

\* Places of an attachment have words.
LEMMA AttachmentType ==
    ASSUME NEW a \in Attachment
    PROVE  /\ a.id \in Seq(Word)
           /\ {1} \cup (1 .. a.body.pages) \cup DOMAIN a.body.sheets \subseteq DOMAIN Numeral
           /\ a.body.rows # None =>
                 /\ DOMAIN a.body.rows \subseteq DOMAIN Numeral \cap DOMAIN RowWord
                 /\ \A n \in DOMAIN a.body.rows :
                       1 .. a.body.rows[n] \subseteq DOMAIN ColumnWord
           /\ \A n \in DOMAIN a.body.sheets : a.body.sheets[n].cells \subseteq Word
<1>1. a.id \in Seq(Word) /\ a.body \in Body
    BY DEF Attachment
<1>2. a.body.sheets \in Seq(Sheet)
    BY <1>1 DEF Body
<1>3. \A n \in DOMAIN a.body.sheets : a.body.sheets[n] \in Sheet
    BY <1>2, LenProperties, ElementOfSeq
<1>4. \A n \in DOMAIN a.body.sheets : a.body.sheets[n].cells \subseteq Word
    BY <1>3 DEF Sheet
<1> QED BY <1>1, <1>4 DEF Attachment

\* What an inventory is made of.
LEMMA InventoryFields ==
    ASSUME NEW a, NEW artifacts, NEW units
    PROVE  /\ Inventory(a, artifacts, units).attachment = a.id
           /\ Inventory(a, artifacts, units).artifacts = artifacts
           /\ Inventory(a, artifacts, units).units = units
  BY DEF Inventory

\* A file that is one artifact, with units told apart by their words.
LEMMA FileSources ==
    ASSUME NEW a, a.id \in Seq(Word), NEW x \in {"artifact", "unsupported"}, NEW issues,
           NEW W \in SUBSET Seq(Word), x = "artifact" \/ W = {},
           NEW inv,
           inv.attachment = a.id, inv.artifacts = {Artifact(<<x>> \o a.id, a.id, issues)},
           inv.units = {UnitOf(a, w, Named(a)) : w \in W}
    PROVE  Sources(a, inv)
<1> DEFINE f == Artifact(<<x>> \o a.id, a.id, issues)
<1>1. f.id = <<x>> \o a.id /\ f.parent = a.id
    BY DEF Artifact
<1>2. f.id = Joined(x, a.id, <<>>) /\ <<>> \in Seq(Word)
  <2>1. x \in Word
      BY Words
  <2>2. <<x>> \in Seq(Word)
      BY <2>1
  <2>3. <<x>> \o a.id \in Seq(Word)
      BY <2>2, ConcatProperties
  <2> DEFINE t == <<x>> \o a.id
  <2>4. t \o <<>> = t
    <3>1. t \in Seq(Word)
        BY <2>3
    <3> HIDE DEF t
    <3> QED BY <3>1, ConcatEmptySeq
  <2> QED BY <1>1, <2>4 DEF Joined
<1>3. \A w \in W : /\ UnitOf(a, w, Named(a)).id = Joined("unit", a.id, w)
                   /\ UnitOf(a, w, Named(a)).artifact = Named(a)
    BY DEF UnitOf, Unit, Joined
<1> HIDE DEF f
<1>4. inv.artifacts = {f}
    BY DEF f
<1>5. \A u \in inv.units : \E w \in W : u = UnitOf(a, w, Named(a))
    OBVIOUS
<1>6. ASSUME NEW u \in inv.units, NEW v \in inv.units, u.id = v.id
      PROVE  u = v
  <2>1. PICK w \in W : u = UnitOf(a, w, Named(a))
      BY <1>5
  <2>2. PICK y \in W : v = UnitOf(a, y, Named(a))
      BY <1>5
  <2>3. Joined("unit", a.id, w) = Joined("unit", a.id, y)
      BY <1>3, <1>6, <2>1, <2>2
  <2>4. w = y
    <3>1. "unit" \in Word /\ w \in Seq(Word) /\ y \in Seq(Word)
        BY Words
    <3> QED BY <2>3, <3>1, JoinedCancels
  <2> QED BY <2>1, <2>2, <2>4
<1>7. \A u \in inv.units : \E w \in Seq(Word) : u.id = Joined("unit", a.id, w)
    BY <1>3, <1>5
<1>8. \A u \in inv.units : \E g \in inv.artifacts : g.id = u.artifact
  <2> SUFFICES ASSUME NEW u \in inv.units PROVE f.id = u.artifact
      BY <1>4
  <2>1. u.artifact = Named(a) /\ W # {}
      BY <1>3, <1>5
  <2> QED BY <1>1, <2>1 DEF Named
<1>9. \A g \in inv.artifacts :
          \E y \in {"artifact", "unsupported"}, w \in Seq(Word) : g.id = Joined(y, a.id, w)
    BY <1>2, <1>4
<1> QED BY <1>1, <1>4, <1>6, <1>7, <1>8, <1>9 DEF Sources

\* Every reader but those of PDFs and workbooks makes one artifact.
LEMMA PlainTextSources ==
    ASSUME NEW a \in Attachment, NEW inv \in PlainTextReader(a)
    PROVE  Sources(a, inv)
<1> DEFINE lines == {m \in DOMAIN a.body.rows : a.body.rows[m] > 0}
           W == {<<"line", Numeral[n]>> : n \in lines}
           units == {UnitOf(a, <<"line", Numeral[n]>>, Named(a)) : n \in lines}
           issues == {"plain_text_low_provenance"}
           artifacts == {Artifact(Named(a), a.id, issues)}
<1>1. a.body.rows # None /\ inv = Inventory(a, artifacts, units)
    BY DEF PlainTextReader, FileInventory
<1>2. W \in SUBSET Seq(Word)
  <2> SUFFICES ASSUME NEW n \in lines PROVE <<"line", Numeral[n]>> \in Seq(Word)
      OBVIOUS
  <2>1. n \in DOMAIN Numeral
      BY <1>1, AttachmentType
  <2>2. "line" \in Word /\ Numeral[n] \in Word
      BY <2>1, Words
  <2> QED BY <2>2
<1>3. units = {UnitOf(a, w, Named(a)) : w \in W}
    OBVIOUS
<1> HIDE DEF W, units, issues
<1>4. inv.attachment = a.id /\ inv.artifacts = {Artifact(<<"artifact">> \o a.id, a.id, issues)}
      /\ inv.units = units
  <2> HIDE DEF artifacts
  <2>1. inv.attachment = a.id /\ inv.artifacts = artifacts /\ inv.units = units
      BY <1>1, InventoryFields
  <2> QED BY <2>1 DEF artifacts, Named
<1> QED BY <1>2, <1>3, <1>4, AttachmentType, FileSources

\* Rows and cells of a table get ids of their own.
LEMMA DelimitedTableSources ==
    ASSUME NEW a \in Attachment, NEW inv \in DelimitedTableReader(a)
    PROVE  Sources(a, inv)
<1> DEFINE data == DOMAIN a.body.rows \ {1}
           Cells(n) == {<<RowWord[n], ColumnWord[m]>> : m \in 1 .. a.body.rows[n]}
           W == {<<"table", Numeral[1]>>} \cup UNION {Cells(n) : n \in data}
           units == {UnitOf(a, <<"table", Numeral[1]>>, Named(a))} \cup
                      UNION {{UnitOf(a, <<RowWord[n], ColumnWord[m]>>, Named(a)) :
                                m \in 1 .. a.body.rows[n]} : n \in data}
           artifacts == {Artifact(Named(a), a.id, {})}
<1>1. a.body.rows # None /\ inv = Inventory(a, artifacts, units)
    BY DEF DelimitedTableReader, FileInventory
<1>2. W \in SUBSET Seq(Word)
  <2>1. <<"table", Numeral[1]>> \in Seq(Word)
    <3>1. 1 \in DOMAIN Numeral
        BY AttachmentType
    <3>2. "table" \in Word /\ Numeral[1] \in Word
        BY <3>1, Words
    <3> QED BY <3>2
  <2>2. ASSUME NEW n \in data, NEW m \in 1 .. a.body.rows[n]
        PROVE  <<RowWord[n], ColumnWord[m]>> \in Seq(Word)
    <3>1. n \in DOMAIN RowWord /\ m \in DOMAIN ColumnWord
        BY <1>1, AttachmentType
    <3>2. RowWord[n] \in Word /\ ColumnWord[m] \in Word
        BY <3>1, Words
    <3> QED BY <3>2
  <2>3. ASSUME NEW w \in W
        PROVE  w \in Seq(Word)
    <3>1. CASE w = <<"table", Numeral[1]>>
        BY <2>1, <3>1
    <3>2. CASE \E n \in data : \E m \in 1 .. a.body.rows[n] : w = <<RowWord[n], ColumnWord[m]>>
        BY <2>2, <3>2
    <3> QED BY <2>3, <3>1, <3>2
  <2> HIDE DEF W
  <2> QED BY <2>3
<1>3. units = {UnitOf(a, w, Named(a)) : w \in W}
  <2> DEFINE U(w) == UnitOf(a, w, Named(a))
             row(n, m) == <<RowWord[n], ColumnWord[m]>>
             head == <<"table", Numeral[1]>>
  <2>1. \A u : u \in units <=> \/ u = U(head)
                               \/ \E n \in data : \E m \in 1 .. a.body.rows[n] : u = U(row(n, m))
      OBVIOUS
  <2>2. \A w : w \in W <=> \/ w = head
                           \/ \E n \in data : \E m \in 1 .. a.body.rows[n] : w = row(n, m)
      OBVIOUS
  <2> HIDE DEF units, W, U, row, head, data
  <2>3. \A u : u \in units <=> \E w \in W : u = U(w)
    <3>1. \A u : u \in units => \E w \in W : u = U(w)
        BY <2>1, <2>2
    <3>2. \A w \in W : U(w) \in units
        BY <2>1, <2>2
    <3> QED BY <3>1, <3>2
  <2>4. units = {U(w) : w \in W}
      BY <2>3
  <2> QED BY <2>4 DEF U
<1> HIDE DEF W, units
<1>4. inv.attachment = a.id /\ inv.artifacts = {Artifact(<<"artifact">> \o a.id, a.id, {})}
      /\ inv.units = units
  <2> HIDE DEF artifacts
  <2>1. inv.attachment = a.id /\ inv.artifacts = artifacts /\ inv.units = units
      BY <1>1, InventoryFields
  <2> QED BY <2>1 DEF artifacts, Named
<1> QED BY <1>2, <1>3, <1>4, AttachmentType, FileSources

\* One unit has an id of its own.
LEMMA OneUnitSources ==
    ASSUME NEW a \in Attachment, NEW issues, NEW w \in Seq(Word),
           NEW inv, inv = FileInventory(a, issues, {UnitOf(a, w, Named(a))})
    PROVE  Sources(a, inv)
<1> DEFINE artifacts == {Artifact(Named(a), a.id, issues)}
           units == {UnitOf(a, w, Named(a))}
<1>1. inv = Inventory(a, artifacts, units)
    BY DEF FileInventory
<1>2. units = {UnitOf(a, v, Named(a)) : v \in {w}} /\ {w} \in SUBSET Seq(Word)
    OBVIOUS
<1> HIDE DEF units
<1>4. inv.attachment = a.id /\ inv.artifacts = {Artifact(<<"artifact">> \o a.id, a.id, issues)}
      /\ inv.units = units
  <2> HIDE DEF artifacts
  <2>1. inv.attachment = a.id /\ inv.artifacts = artifacts /\ inv.units = units
      BY <1>1, InventoryFields
  <2> QED BY <2>1 DEF artifacts, Named
<1> QED BY <1>2, <1>4, AttachmentType, FileSources

\* Without units there is one artifact.
LEMMA NoUnitSources ==
    ASSUME NEW a \in Attachment, NEW x \in {"artifact", "unsupported"}, NEW issues,
           NEW inv, inv = Inventory(a, {Artifact(<<x>> \o a.id, a.id, issues)}, {})
    PROVE  Sources(a, inv)
<1> DEFINE artifacts == {Artifact(<<x>> \o a.id, a.id, issues)}
<1>1. {} = {UnitOf(a, v, Named(a)) : v \in {}} /\ {} \in SUBSET Seq(Word)
    OBVIOUS
<1>2. inv.attachment = a.id /\ inv.artifacts = {Artifact(<<x>> \o a.id, a.id, issues)}
      /\ inv.units = {}
  <2> HIDE DEF artifacts
  <2>1. inv.attachment = a.id /\ inv.artifacts = artifacts /\ inv.units = {}
      BY InventoryFields DEF artifacts
  <2> QED BY <2>1 DEF artifacts
<1> QED BY <1>1, <1>2, AttachmentType, FileSources

\* The id of an artifact is a joined one.
LEMMA NamedJoined ==
    ASSUME NEW a, a.id \in Seq(Word)
    PROVE  Named(a) = Joined("artifact", a.id, <<>>)
<1> DEFINE t == <<"artifact">> \o a.id
<1>1. t \in Seq(Word)
  <2>1. <<"artifact">> \in Seq(Word)
      BY Words
  <2> QED BY <2>1, ConcatProperties
<1> HIDE DEF t
<1>2. t \o <<>> = t
    BY <1>1, ConcatEmptySeq
<1> QED BY <1>2 DEF Named, Joined, t

\* A PDF is an artifact, and so is each of its pages.
LEMMA PdfSources ==
    ASSUME NEW a \in Attachment, NEW inv \in PdfProfileReader(a)
    PROVE  Sources(a, inv)
<1> DEFINE root == Artifact(Named(a), a.id, IF a.body.encrypted THEN {"encrypted_pdf"} ELSE {})
           Numbers == {1} \cup 1 .. a.body.pages
           words(n) == <<"page", Numeral[n]>>
           page(n) == Artifact(Named(a) \o words(n), Named(a), {})
           artifacts == {root} \cup {page(n) : n \in Numbers}
           profile == <<"pdf", "profile">>
           unit == UnitOf(a, profile, Named(a))
<1>1. inv.attachment = a.id /\ inv.artifacts = artifacts /\ inv.units = {unit}
  <2>1. inv = Inventory(a, artifacts, {unit})
      BY DEF PdfProfileReader
  <2> HIDE DEF artifacts, unit
  <2> QED BY <2>1, InventoryFields
<1>2. a.id \in Seq(Word)
    BY AttachmentType
<1>3. \A n \in Numbers : words(n) \in Seq(Word) /\ words(n) # <<>>
  <2> SUFFICES ASSUME NEW n \in Numbers PROVE words(n) \in Seq(Word) /\ words(n) # <<>>
      OBVIOUS
  <2>1. n \in DOMAIN Numeral
      BY AttachmentType
  <2>2. "page" \in Word /\ Numeral[n] \in Word
      BY <2>1, Words
  <2> QED BY <2>2
<1>4. "artifact" \in Word /\ "unit" \in Word /\ profile \in Seq(Word) /\ <<>> \in Seq(Word)
    BY Words
<1>5. root.id = Joined("artifact", a.id, <<>>) /\ root.parent = a.id /\ root.id = Named(a)
    BY <1>2, NamedJoined DEF Artifact
<1>6. \A n : page(n).id = Joined("artifact", a.id, words(n)) /\ page(n).parent = Named(a)
             /\ page(n) = Artifact(Named(a) \o words(n), Named(a), {})
    BY DEF Artifact, Joined, Named
<1>7. unit.id = Joined("unit", a.id, profile) /\ unit.artifact = Named(a)
    BY DEF UnitOf, Unit, Joined
<1>8. \A f \in artifacts : f = root \/ \E n \in Numbers : f = page(n)
    OBVIOUS
<1>9. root \in artifacts
    OBVIOUS
<1> HIDE DEF root, page, words, Numbers, artifacts, unit, profile
<1>10. \A f \in artifacts : \E w \in Seq(Word) : f.id = Joined("artifact", a.id, w)
    BY <1>3, <1>4, <1>5, <1>6, <1>8
<1>11. ASSUME NEW f \in artifacts, NEW g \in artifacts, f.id = g.id
       PROVE  f = g
  <2>1. \A v, w \in Seq(Word) :
            Joined("artifact", a.id, v) = Joined("artifact", a.id, w) => v = w
      BY <1>2, <1>4, JoinedCancels
  <2>2. \A n \in Numbers : root.id # page(n).id
      BY <1>3, <1>4, <1>5, <1>6, <2>1
  <2>3. \A m, n \in Numbers : page(m).id = page(n).id => page(m) = page(n)
    <3> SUFFICES ASSUME NEW m \in Numbers, NEW n \in Numbers, page(m).id = page(n).id
                 PROVE  page(m) = page(n)
        OBVIOUS
    <3>1. words(m) = words(n)
        BY <1>3, <1>6, <2>1
    <3> QED BY <1>6, <3>1
  <2> QED BY <1>8, <1>11, <2>2, <2>3
<1>12. \A f \in artifacts : f.parent = a.id \/ f.parent = root.id
    BY <1>5, <1>6, <1>8
<1> QED BY <1>1, <1>4, <1>5, <1>7, <1>9, <1>10, <1>11, <1>12 DEF Sources

\* Sheets are told apart by their numbers, their units by sheet and cell.
LEMMA WorkbookSources ==
    ASSUME NEW a \in Attachment, NEW inv \in Workbook(a, a.body.sheets)
    PROVE  Sources(a, inv)
<1> DEFINE D == DOMAIN a.body.sheets
           cells(n) == a.body.sheets[n].cells
           bookWords == <<"workbook">>
           sheetWords(n) == <<"sheet", Numeral[n]>>
           tableWords(n) == <<"sheet", Numeral[n], "table", Numeral[1]>>
           cellWords(n, c) == <<"sheet", Numeral[n], c>>
           book == Artifact(Named(a) \o bookWords, a.id, {})
           sheet(n) == Artifact(SheetId(a, n), Named(a) \o bookWords,
                                IF a.body.sheets[n].hidden
                                THEN {"hidden_spreadsheet_sheet"} ELSE {})
           artifacts == {book} \cup {sheet(n) : n \in D}
           table(n) == UnitOf(a, tableWords(n), SheetId(a, n))
           cell(n, c) == UnitOf(a, cellWords(n, c), SheetId(a, n))
           units == UNION {{table(n)} \cup {cell(n, c) : c \in cells(n)} : n \in D}
<1>1. inv.attachment = a.id /\ inv.artifacts = artifacts /\ inv.units = units
  <2>1. inv = Inventory(a, artifacts, units)
      BY DEF Workbook
  <2> HIDE DEF artifacts, units
  <2> QED BY <2>1, InventoryFields
<1>2. a.id \in Seq(Word) /\ D \subseteq DOMAIN Numeral
    BY AttachmentType
<1>3. \A n \in D : sheetWords(n) \in Seq(Word) /\ tableWords(n) \in Seq(Word)
  <2> SUFFICES ASSUME NEW n \in D
               PROVE  sheetWords(n) \in Seq(Word) /\ tableWords(n) \in Seq(Word)
      OBVIOUS
  <2>1. n \in DOMAIN Numeral /\ 1 \in DOMAIN Numeral
      BY AttachmentType
  <2>2. "sheet" \in Word /\ "table" \in Word /\ Numeral[n] \in Word /\ Numeral[1] \in Word
      BY <2>1, Words
  <2> QED BY <2>2
<1>4. \A n \in D : \A c \in cells(n) : cellWords(n, c) \in Seq(Word)
  <2> SUFFICES ASSUME NEW n \in D, NEW c \in cells(n) PROVE cellWords(n, c) \in Seq(Word)
      OBVIOUS
  <2>1. n \in DOMAIN Numeral /\ c \in Word
      BY AttachmentType
  <2>2. "sheet" \in Word /\ Numeral[n] \in Word
      BY <2>1, Words
  <2> QED BY <2>1, <2>2
<1>5. "artifact" \in Word /\ "unit" \in Word /\ bookWords \in Seq(Word)
    BY Words
<1>6. \A m, n \in D : Numeral[m] = Numeral[n] => m = n
    BY <1>2, Words
\* Which words are equal.
<1>7. /\ \A m, n \in D : sheetWords(m) = sheetWords(n) => m = n
      /\ \A m, n \in D : tableWords(m) = tableWords(n) => m = n
      /\ \A m, n \in D : \A c \in cells(m), d \in cells(n) :
            cellWords(m, c) = cellWords(n, d) => m = n /\ c = d
      /\ \A m, n \in D : \A c \in cells(m) : cellWords(m, c) # tableWords(n)
      /\ \A n \in D : sheetWords(n) # bookWords
  <2>1. \A m, n \in D : sheetWords(m) = sheetWords(n) => Numeral[m] = Numeral[n]
      OBVIOUS
  <2>2. \A m, n \in D : tableWords(m) = tableWords(n) => Numeral[m] = Numeral[n]
      OBVIOUS
  <2>3. \A m, n \in D : \A c, d :
            cellWords(m, c) = cellWords(n, d) => Numeral[m] = Numeral[n] /\ c = d
      OBVIOUS
  <2>4. \A m, n \in D : \A c : cellWords(m, c) # tableWords(n)
    <3>1. \A m, n, c : DOMAIN cellWords(m, c) = 1 .. 3 /\ DOMAIN tableWords(n) = 1 .. 4
        OBVIOUS
    <3>2. 4 \in 1 .. 4 /\ 4 \notin 1 .. 3
        OBVIOUS
    <3> HIDE DEF cellWords, tableWords
    <3> QED BY <3>1, <3>2
  <2>5. \A n \in D : sheetWords(n) # bookWords
    <3>1. \A n : DOMAIN sheetWords(n) = 1 .. 2 /\ DOMAIN bookWords = 1 .. 1
        OBVIOUS
    <3>2. 2 \in 1 .. 2 /\ 2 \notin 1 .. 1
        OBVIOUS
    <3> HIDE DEF sheetWords, bookWords
    <3> QED BY <3>1, <3>2
  <2> HIDE DEF sheetWords, tableWords, cellWords, bookWords, D, cells
  <2> QED BY <1>6, <2>1, <2>2, <2>3, <2>4, <2>5
<1>8. book.id = Joined("artifact", a.id, bookWords) /\ book.parent = a.id
    BY DEF Artifact, Joined, Named
<1>9. \A n : sheet(n).id = Joined("artifact", a.id, sheetWords(n))
             /\ sheet(n).parent = book.id /\ sheet(n).id = SheetId(a, n)
    BY DEF Artifact, Joined, Named, SheetId
<1>10. \A n : table(n).id = Joined("unit", a.id, tableWords(n))
              /\ table(n).artifact = SheetId(a, n)
    BY DEF UnitOf, Unit, Joined
<1>11. \A n, c : cell(n, c).id = Joined("unit", a.id, cellWords(n, c))
                 /\ cell(n, c).artifact = SheetId(a, n)
    BY DEF UnitOf, Unit, Joined
<1>12. \A f \in artifacts : f = book \/ \E n \in D : f = sheet(n)
    OBVIOUS
<1>13. book \in artifacts /\ \A n \in D : sheet(n) \in artifacts
    OBVIOUS
<1>14. \A u \in units : \E n \in D : u = table(n) \/ \E c \in cells(n) : u = cell(n, c)
    OBVIOUS
<1> HIDE DEF D, cells, bookWords, sheetWords, tableWords, cellWords, book, sheet, artifacts,
             table, cell, units
<1>15. \A x \in {"artifact", "unit"} : \A v, w \in Seq(Word) :
           Joined(x, a.id, v) = Joined(x, a.id, w) => v = w
    BY <1>2, <1>5, JoinedCancels
<1>16. \A f \in artifacts : \E w \in Seq(Word) : f.id = Joined("artifact", a.id, w)
    BY <1>3, <1>5, <1>8, <1>9, <1>12
<1>17. \A u \in units : \E w \in Seq(Word) : u.id = Joined("unit", a.id, w)
  <2> SUFFICES ASSUME NEW u \in units
               PROVE  \E w \in Seq(Word) : u.id = Joined("unit", a.id, w)
      OBVIOUS
  <2>1. PICK n \in D : u = table(n) \/ \E c \in cells(n) : u = cell(n, c)
      BY <1>14
  <2>2. CASE u = table(n)
      BY <1>3, <1>10, <2>2
  <2>3. CASE \E c \in cells(n) : u = cell(n, c)
      BY <1>4, <1>11, <2>3
  <2> QED BY <2>1, <2>2, <2>3
<1>18. ASSUME NEW f \in artifacts, NEW g \in artifacts, f.id = g.id
       PROVE  f = g
  <2>1. \A n \in D : book.id # sheet(n).id
      BY <1>3, <1>5, <1>7, <1>8, <1>9, <1>15
  <2>2. \A m, n \in D : sheet(m).id = sheet(n).id => m = n
      BY <1>3, <1>7, <1>9, <1>15
  <2> QED BY <1>12, <1>18, <2>1, <2>2
<1>19. ASSUME NEW u \in units, NEW w \in units, u.id = w.id
       PROVE  u = w
  <2>1. PICK m \in D : u = table(m) \/ \E c \in cells(m) : u = cell(m, c)
      BY <1>14
  <2>2. PICK n \in D : w = table(n) \/ \E c \in cells(n) : w = cell(n, c)
      BY <1>14
  <2>3. CASE u = table(m) /\ w = table(n)
    <3>1. tableWords(m) = tableWords(n)
        BY <1>3, <1>10, <1>15, <1>19, <2>3
    <3> QED BY <1>7, <2>3, <3>1
  <2>4. ASSUME NEW c \in cells(m), NEW d \in cells(n), u = cell(m, c), w = cell(n, d)
        PROVE  u = w
    <3>1. cellWords(m, c) = cellWords(n, d)
        BY <1>4, <1>11, <1>15, <1>19, <2>4
    <3> QED BY <1>7, <2>4, <3>1
  <2>5. ASSUME NEW c \in cells(m), u = cell(m, c), w = table(n)
        PROVE  FALSE
    <3>1. cellWords(m, c) = tableWords(n)
        BY <1>3, <1>4, <1>10, <1>11, <1>15, <1>19, <2>5
    <3> QED BY <1>7, <3>1
  <2>6. ASSUME NEW d \in cells(n), u = table(m), w = cell(n, d)
        PROVE  FALSE
    <3>1. cellWords(n, d) = tableWords(m)
        BY <1>3, <1>4, <1>10, <1>11, <1>15, <1>19, <2>6
    <3> QED BY <1>7, <3>1
  <2> QED BY <2>1, <2>2, <2>3, <2>4, <2>5, <2>6
<1>20. \A u \in units : \E f \in artifacts : f.id = u.artifact
  <2> SUFFICES ASSUME NEW u \in units PROVE \E f \in artifacts : f.id = u.artifact
      OBVIOUS
  <2>1. PICK n \in D : u = table(n) \/ \E c \in cells(n) : u = cell(n, c)
      BY <1>14
  <2>2. u.artifact = SheetId(a, n)
      BY <1>10, <1>11, <2>1
  <2> QED BY <1>9, <1>13, <2>2
<1>21. \A f \in artifacts : f.parent = a.id \/ f.parent = book.id
    BY <1>8, <1>9, <1>12
<1> QED BY <1>1, <1>8, <1>13, <1>16, <1>17, <1>18, <1>19, <1>20, <1>21 DEF Sources

\* So it is for each reader: the ids of an attachment name one source each.
LEMMA IngestedSources ==
    ASSUME NEW a \in Attachment, NEW inv \in Ingested(a)
    PROVE  Sources(a, inv)
<1>1. CASE inv \in UnsupportedReader(a)
  <2> DEFINE issues == Route(a).issues \cup Safety(a).issues \cup {"unsupported_media_type"}
  <2>1. inv = Inventory(a, {Artifact(<<"unsupported">> \o a.id, a.id, issues)}, {})
      BY <1>1 DEF UnsupportedReader
  <2> HIDE DEF issues
  <2> QED BY <2>1, NoUnitSources
<1>2. CASE inv \in PlainTextReader(a) \/ inv \in DelimitedTableReader(a)
             \/ inv \in PdfProfileReader(a)
    BY <1>2, PlainTextSources, DelimitedTableSources, PdfSources
<1>3. CASE inv \in ImageProfileReader(a)
  <2> DEFINE w == <<"image", "profile">>
  <2>1. \E issues : inv = FileInventory(a, issues, {UnitOf(a, w, Named(a))})
      BY <1>3 DEF ImageProfileReader
  <2>2. w \in Seq(Word)
      BY Words
  <2> HIDE DEF w
  <2> QED BY <2>1, <2>2, OneUnitSources
<1>4. CASE inv \in SpreadsheetReader(a)
  <2>1. CASE inv \in UnreadableWorkbook(a)
    <3> DEFINE issues == {"spreadsheet_profile_unreadable"}
    <3>1. inv = Inventory(a, {Artifact(<<"artifact">> \o a.id, a.id, issues)}, {})
        BY <2>1 DEF UnreadableWorkbook, FileInventory, Named
    <3> HIDE DEF issues
    <3> QED BY <3>1, NoUnitSources
  <2>2. CASE inv \in Workbook(a, a.body.sheets)
      BY <2>2, WorkbookSources
  <2> QED BY <1>4, <2>1, <2>2 DEF SpreadsheetReader
<1> QED BY <1>1, <1>2, <1>3, <1>4 DEF Ingested

\* Where no attachment's id begins another's, an id is of one inventory.
LEMMA ApartInventories ==
    ASSUME NEW a, NEW b, a.id \in Seq(Word), b.id \in Seq(Word),
           ~PrefixOf(a.id, b.id), ~PrefixOf(b.id, a.id),
           NEW inv, NEW other, Sources(a, inv), Sources(b, other)
    PROVE  /\ \A u \in inv.units, w \in other.units : u.id # w.id
           /\ \A f \in inv.artifacts, g \in other.artifacts : f.id # g.id
<1>1. ASSUME NEW x \in {"artifact", "unsupported", "unit"},
             NEW y \in {"artifact", "unsupported", "unit"},
             NEW v \in Seq(Word), NEW w \in Seq(Word)
      PROVE  Joined(x, a.id, v) # Joined(y, b.id, w)
  <2>1. x \in Word /\ y \in Word
      BY Words
  <2> DEFINE s == a.id
             t == b.id
  <2>2. s \in Seq(Word) /\ t \in Seq(Word) /\ ~PrefixOf(s, t) /\ ~PrefixOf(t, s)
      OBVIOUS
  <2> HIDE DEF s, t
  <2>3. Joined(x, s, v) # Joined(y, t, w)
      BY <2>1, <2>2, JoinedPrefix
  <2> QED BY <2>3 DEF s, t
<1>2. \A u \in inv.units, w \in other.units : u.id # w.id
  <2> SUFFICES ASSUME NEW u \in inv.units, NEW w \in other.units PROVE u.id # w.id
      OBVIOUS
  <2>1. PICK p \in Seq(Word) : u.id = Joined("unit", a.id, p)
      BY DEF Sources
  <2>2. PICK q \in Seq(Word) : w.id = Joined("unit", b.id, q)
      BY DEF Sources
  <2> QED BY <1>1, <2>1, <2>2
<1>3. \A f \in inv.artifacts, g \in other.artifacts : f.id # g.id
  <2> SUFFICES ASSUME NEW f \in inv.artifacts, NEW g \in other.artifacts PROVE f.id # g.id
      OBVIOUS
  <2>1. PICK x \in {"artifact", "unsupported"}, p \in Seq(Word) : f.id = Joined(x, a.id, p)
      BY DEF Sources
  <2>2. PICK y \in {"artifact", "unsupported"}, q \in Seq(Word) : g.id = Joined(y, b.id, q)
      BY DEF Sources
  <2> QED BY <1>1, <2>1, <2>2
<1> QED BY <1>2, <1>3

\* The id of a unit tells which artifact of which attachment it is of, for
\* attachments of every kind whose ids do not begin one another.
THEOREM TraceableTheorem == Spec => []UnitsTraceable
<1>1. ASSUME Inv, NEW n \in DOMAIN read
      PROVE  /\ n \in DOMAIN command.bundle /\ command.bundle[n].id \in Seq(Word)
             /\ Sources(command.bundle[n], read[n])
  <2>1. n \in DOMAIN command.bundle /\ read[n] \in Ingested(command.bundle[n])
      BY <1>1, InvType DEF Inv, ReadInOrder
  <2>2. command.bundle[n] \in Attachment
      BY <1>1, <2>1, InvType, BundleType, ElementOfSeq
  <2> QED BY <2>1, <2>2, IngestedSources, AttachmentType
<1>2. ASSUME Inv, IdsApart, NEW m \in DOMAIN read, NEW n \in DOMAIN read, m # n
      PROVE  /\ \A u \in read[m].units, w \in read[n].units : u.id # w.id
             /\ \A f \in read[m].artifacts, g \in read[n].artifacts : f.id # g.id
  <2> DEFINE a == command.bundle[m]
             b == command.bundle[n]
  <2>1. /\ a.id \in Seq(Word) /\ b.id \in Seq(Word)
        /\ Sources(a, read[m]) /\ Sources(b, read[n])
        /\ ~PrefixOf(a.id, b.id) /\ ~PrefixOf(b.id, a.id)
      BY <1>1, <1>2 DEF IdsApart
  <2> HIDE DEF a, b
  <2> QED BY <2>1, ApartInventories
<1>3. Inv => UnitsTraceable
  <2> SUFFICES ASSUME Inv, IdsApart PROVE UnitsTraceable
      BY DEF UnitsTraceable
  <2>1. \A m, n \in DOMAIN read : \A u \in read[m].units, w \in read[n].units :
            u.id = w.id => u = w /\ m = n
    <3> SUFFICES ASSUME NEW m \in DOMAIN read, NEW n \in DOMAIN read,
                        NEW u \in read[m].units, NEW w \in read[n].units, u.id = w.id
                 PROVE  u = w /\ m = n
        OBVIOUS
    <3>1. m = n
        BY <1>2
    <3> QED BY <1>1, <3>1 DEF Sources
  <2>2. \A m, n \in DOMAIN read : \A f \in read[m].artifacts, g \in read[n].artifacts :
            f.id = g.id => f = g /\ m = n
    <3> SUFFICES ASSUME NEW m \in DOMAIN read, NEW n \in DOMAIN read,
                        NEW f \in read[m].artifacts, NEW g \in read[n].artifacts, f.id = g.id
                 PROVE  f = g /\ m = n
        OBVIOUS
    <3>1. m = n
        BY <1>2
    <3> QED BY <1>1, <3>1 DEF Sources
  <2>3. ASSUME NEW n \in DOMAIN read
        PROVE  /\ \A u \in read[n].units : \E f \in read[n].artifacts : f.id = u.artifact
               /\ \A f \in read[n].artifacts :
                     \/ f.parent = read[n].attachment
                     \/ \E g \in read[n].artifacts :
                           g.id = f.parent /\ g.parent = read[n].attachment
    <3>1. Sources(command.bundle[n], read[n])
        BY <1>1
    <3> QED BY <3>1 DEF Sources
  <2> QED BY <2>1, <2>2, <2>3 DEF UnitsTraceable
<1> QED BY <1>3, Invariant, PTL

=============================================================================
