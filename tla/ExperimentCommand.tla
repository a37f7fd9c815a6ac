-------------------------- MODULE ExperimentCommand --------------------------
(***************************************************************************)
(* The commands run-experiment and run-convergence (cli.py) over the files *)
(* they leave behind: the attachments of a manifest are ingested one by    *)
(* one, a cycle runs on the inventory, the trace is written, compared with *)
(* an expected behaviour (experiments.py), and the report is written.      *)
(* Anything may raise, a write may be cut short, the process may be        *)
(* killed, and the next command finds the files as they were left.         *)
(*                                                                         *)
(* What a cycle reports is taken from a set; ResolutionCycle and           *)
(* ConvergenceRunner say what it can be.                                   *)
(***************************************************************************)
EXTENDS Ingestion

CONSTANTS
    ClaimId, AtomId, AtomType,
    Field,        \* what an expectation may state about a claim
    IdField,      \* fields reported as ids of atoms, expected as their types
    Value,        \* values of the other fields
    Commands, Outcomes,
    MaxRounds     \* bound on the number of commands

\* A row of a graph or of a convergence report.
Row == [claim : ClaimId, fields : [Field -> Seq(AtomId) \cup Value]]

\* The run of a trace: rows in order, the ids and types of the atoms; the
\* resolutions of a graph, or the claim reports of a convergence.
Outcome ==
    [convergence : BOOLEAN, rows : Seq(Row), atoms : Seq([id : AtomId, type : AtomType])]

\* None states nothing about a field.
Expectation ==
    [convergence : BOOLEAN, claim : ClaimId,
     fields : [Field -> Seq(AtomType) \cup Value \cup {None}]]

\* readable: manifest and attachments are; judged: an expected file is
\* named; loads: that file is well-formed.
Command ==
    [convergence : BOOLEAN, readable : BOOLEAN, bundle : Seq(Attachment),
     judged : BOOLEAN, loads : BOOLEAN, expected : Seq(Expectation)]

ASSUME CommandAssumption ==
    /\ Commands \subseteq Command
    /\ Outcomes \subseteq Outcome
    /\ None \notin Outcomes
    /\ None \notin {"code_0", "code_1", "other"}
    /\ MaxRounds \in Nat
    /\ IdField \subseteq Field

VARIABLES
    command, round,   \* the command and its number
    pc,               \* what it does next
    read,             \* the inventories of the attachments ingested so far
    run,              \* what the cycle reported
    trace, report,    \* the files
    exit,             \* the status of the process, None while it runs
    traceback         \* it ended with an exception that nobody caught

vars == <<command, round, pc, read, run, trace, report, exit, traceback>>

-----------------------------------------------------------------------------
(***************************************************************************)
(* The inventory of a bundle and the oracle.                               *)
(***************************************************************************)

\* merge_evidence_inventories
Units(inventories) == UNION {inventories[n].units : n \in DOMAIN inventories}

\* _partial_failures_from_inventory: one code for every such issue.
PartialFailures(inventories) ==
    UNION {inventories[n].issues \ Blocking : n \in DOMAIN inventories}

\* _atom_types_by_id, _resolutions_by_claim: of equal keys the last.
LastAt(positions) == CHOOSE n \in positions : \A m \in positions : m <= n

TypeOf(atoms, id) == atoms[LastAt({n \in DOMAIN atoms : atoms[n].id = id})].type

\* _types_for_ids: atoms the state does not have are left out.
TypesFor(atoms, ids) ==
    LET known == {n \in DOMAIN ids : \E m \in DOMAIN atoms : atoms[m].id = ids[n]}
        place(n) == Cardinality({m \in known : m <= n})
    IN  [k \in 1 .. Cardinality(known) |->
            TypeOf(atoms, ids[CHOOSE n \in known : place(n) = k])]

Actual(outcome, row, f) ==
    IF f \in IdField THEN TypesFor(outcome.atoms, row.fields[f]) ELSE row.fields[f]

RowsOf(outcome, e) ==
    {n \in DOMAIN outcome.rows :
        outcome.convergence = e.convergence /\ outcome.rows[n].claim = e.claim}

\* Mutant: a claim the trace does not have is passed over.
MeetsIfPresent(outcome, e) ==
    RowsOf(outcome, e) # {} =>
        \A f \in Field : e.fields[f] \in
            {None, Actual(outcome, outcome.rows[LastAt(RowsOf(outcome, e))], f)}

\* The checks made for an expectation pass.
Meets(outcome, e) ==
    /\ RowsOf(outcome, e) # {}
    /\ \A f \in Field :
          e.fields[f] # None =>
              e.fields[f] = Actual(outcome, outcome.rows[LastAt(RowsOf(outcome, e))], f)

\* evaluate_expected_behavior
Passes(outcome, expected) == \A n \in DOMAIN expected : Meets(outcome, expected[n])

-----------------------------------------------------------------------------
(***************************************************************************)
(* A command.                                                              *)
(***************************************************************************)
NoFile == [of |-> 0, whole |-> FALSE, content |-> None]

\* write_text has truncated the file, and has filled it.
Truncated == [of |-> round, whole |-> FALSE, content |-> None]
Filled(content) == [of |-> round, whole |-> TRUE, content |-> content]

Init ==
    /\ command \in Commands
    /\ round = 0
    /\ pc = "idle"
    /\ read = <<>>
    /\ run = None
    /\ trace = NoFile
    /\ report = NoFile
    /\ exit = None
    /\ traceback = FALSE

\* Mutant: the exit status of the last command is still there.
StartStale(c) ==
    /\ pc = "idle" /\ round < MaxRounds
    /\ command' = c
    /\ round' = round + 1
    /\ pc' = "load"
    /\ read' = <<>>
    /\ run' = None
    /\ UNCHANGED <<trace, report, exit, traceback>>

Start(c) ==
    /\ pc = "idle" /\ round < MaxRounds
    /\ command' = c
    /\ round' = round + 1
    /\ pc' = "load"
    /\ read' = <<>>
    /\ run' = None
    /\ exit' = None
    /\ traceback' = FALSE
    /\ UNCHANGED <<trace, report>>

Exits(status) == exit' = status /\ traceback' = FALSE /\ pc' = "idle"

\* No exception is caught: Python prints it and exits with status 1, too.
Raises == exit' = "code_1" /\ traceback' = TRUE /\ pc' = "idle"

\* load_experiment_manifest, to_attachment_bundle
Load ==
    /\ pc = "load"
    /\ IF command.readable THEN pc' = "ingest" /\ UNCHANGED <<exit, traceback>> ELSE Raises
    /\ UNCHANGED <<command, round, read, run, trace, report>>

Next1 == command.bundle[Len(read) + 1]

\* ingest_bundle, attachment by attachment
Ingest ==
    /\ pc = "ingest" /\ Len(read) < Len(command.bundle)
    /\ \E inventory \in Ingested(Next1) : read' = Append(read, inventory)
    /\ UNCHANGED <<command, round, pc, run, trace, report, exit, traceback>>

\* Mutant: an attachment that cannot be read is skipped.
IngestSkips ==
    /\ pc = "ingest" /\ Len(read) < Len(command.bundle)
    /\ Ingested(Next1) = {}
    /\ read' = Append(read, Inventory(Next1, {}, {}))
    /\ UNCHANGED <<command, round, pc, run, trace, report, exit, traceback>>

\* A reader raises, and with it the ingestion of all attachments.
IngestRaises ==
    /\ pc = "ingest" /\ Len(read) < Len(command.bundle)
    /\ Ingested(Next1) = {}
    /\ Raises
    /\ UNCHANGED <<command, round, read, run, trace, report>>

\* Mutant: the comparison comes before the trace is written.
CycleThenJudge ==
    /\ pc = "ingest" /\ Len(read) = Len(command.bundle)
    /\ \E outcome \in Outcomes :
          outcome.convergence = command.convergence /\ run' = outcome
    /\ pc' = IF command.judged THEN "judge" ELSE "trace"
    /\ UNCHANGED <<command, round, read, trace, report, exit, traceback>>

\* run_resolution_cycle or run_convergence_cycle returns.
Cycle ==
    /\ pc = "ingest" /\ Len(read) = Len(command.bundle)
    /\ \E outcome \in Outcomes :
          outcome.convergence = command.convergence /\ run' = outcome
    /\ pc' = "trace"
    /\ UNCHANGED <<command, round, read, trace, report, exit, traceback>>

CycleRaises ==
    /\ pc = "ingest" /\ Len(read) = Len(command.bundle)
    /\ Raises
    /\ UNCHANGED <<command, round, read, run, trace, report>>

\* write_experiment_run_trace
OpenTrace ==
    /\ pc = "trace"
    /\ trace' = Truncated
    /\ pc' = "fill_trace"
    /\ UNCHANGED <<command, round, read, run, report, exit, traceback>>

FillTrace ==
    /\ pc = "fill_trace"
    /\ trace' = Filled([units |-> Units(read), run |-> run,
                        failures |-> IF command.convergence THEN PartialFailures(read) ELSE {}])
    /\ pc' = IF command.judged THEN "judge" ELSE "print"
    /\ UNCHANGED <<command, round, read, run, report, exit, traceback>>

\* load_experiment_expected_behavior raises on a malformed file, evaluate_expected_behavior
\* does not.
Judge ==
    /\ pc = "judge"
    /\ IF command.loads THEN pc' = "report" /\ UNCHANGED <<exit, traceback>> ELSE Raises
    /\ UNCHANGED <<command, round, read, run, trace, report>>

OpenReport ==
    /\ pc = "report"
    /\ report' = Truncated
    /\ pc' = "fill_report"
    /\ UNCHANGED <<command, round, read, run, trace, exit, traceback>>

FillReport ==
    /\ pc = "fill_report"
    /\ report' = Filled([passed |-> Passes(run, command.expected),
                         expected |-> command.expected])
    /\ pc' = "print"
    /\ UNCHANGED <<command, round, read, run, trace, exit, traceback>>

\* The summary is printed, and main returns.
PrintSummary ==
    /\ pc = "print"
    /\ Exits(IF command.judged /\ ~Passes(run, command.expected)
             THEN "code_1" ELSE "code_0")
    /\ UNCHANGED <<command, round, read, run, trace, report>>

\* A directory, a file or the standard output cannot be written.
WriteFails ==
    /\ pc \in {"trace", "fill_trace", "report", "fill_report", "print"}
    /\ Raises
    /\ UNCHANGED <<command, round, read, run, trace, report>>

\* The process is killed, or cannot flush its output when it exits.
Killed ==
    /\ pc # "idle"
    /\ Exits("other")
    /\ UNCHANGED <<command, round, read, run, trace, report>>

Step ==
    \/ Load \/ Ingest \/ IngestRaises \/ Cycle \/ CycleRaises
    \/ OpenTrace \/ FillTrace \/ Judge \/ OpenReport \/ FillReport
    \/ PrintSummary

Rest == pc = "idle" /\ round = MaxRounds /\ UNCHANGED vars

Next ==
    \/ \E c \in Commands : Start(c)
    \/ Step
    \/ WriteFails
    \/ Killed
    \/ Rest

Spec == Init /\ [][Next]_vars

-----------------------------------------------------------------------------
(***************************************************************************)
(* Properties.                                                             *)
(***************************************************************************)
AllRead == pc \in {"trace", "fill_trace", "judge", "report", "fill_report", "print"}

\* The variables have their types; a command that runs has no exit status yet,
\* and has a run once everything is read.
TypeOK ==
    /\ command \in Commands /\ round \in 0 .. MaxRounds
    /\ pc \in {"idle", "load", "ingest"} \/ AllRead
    /\ Len(read) <= Len(command.bundle)
    /\ run \in Outcomes \cup {None} /\ (AllRead => run # None)
    /\ exit \in {None, "code_0", "code_1", "other"} /\ (pc # "idle" => exit = None)
    /\ traceback \in BOOLEAN /\ (traceback => exit = "code_1")
    /\ {trace.of, report.of} \subseteq 0 .. round

\* What the end of a command says of the files, whatever commands before it
\* left there or were killed over.  Exit status 0, or 1 without a traceback:
\* the trace is its own, and, if a comparison was asked for, so is the report;
\* 0 means that every expected claim is in the trace and as expected, 1 that
\* some is not.  Status 1 with a traceback says nothing of them: the trace may
\* be new and the report old, or both be new and the comparison passed.
ExitTellsReport ==
    (pc = "idle" /\ exit \in {"code_0", "code_1"} /\ ~traceback) =>
        /\ trace.whole /\ trace.of = round
        /\ command.judged => report.whole /\ report.of = round
        /\ exit = "code_1" => command.judged
        /\ command.judged =>
             (exit = "code_0" <=>
                \A n \in DOMAIN command.expected :
                    LET e == command.expected[n]
                        rows == RowsOf(trace.content.run, e)
                    IN  /\ rows # {}
                        /\ \A f \in Field : e.fields[f] \in
                             {None, Actual(trace.content.run,
                                           trace.content.run.rows[LastAt(rows)], f)})

\* The report is never ahead of the trace, and when both are of one command
\* the report is the verdict on that trace.
ReportOfTrace ==
    /\ report.of <= trace.of
    /\ (report.whole /\ trace.whole /\ report.of = trace.of) =>
          (report.content.passed <=> Passes(trace.content.run, report.content.expected))

\* A trace is written of a whole bundle or not at all: it has all units that
\* the attachments of its command give, that of a convergence run also all
\* issues they give short of blocking ones, and an attachment that cannot be
\* read prevents it.
TraceComplete ==
    (trace.whole /\ trace.of = round) =>
        /\ \A n \in DOMAIN command.bundle : Ingested(command.bundle[n]) # {}
        /\ trace.content.units =
             UNION {UNION {inv.units : inv \in Ingested(command.bundle[n])} :
                    n \in DOMAIN command.bundle}
        /\ trace.content.failures =
             IF command.convergence
             THEN UNION {UNION {inv.issues \ Blocking : inv \in Ingested(command.bundle[n])} :
                         n \in DOMAIN command.bundle}
             ELSE {}

\* An attachment that yields no unit has an issue on record, if only that its
\* text, be there any or none, is of low provenance, and one refused for its
\* size or its signature yields none; only a workbook without sheets is silent.
NothingSilent ==
    \A n \in DOMAIN read :
        LET inv == read[n]
            a == command.bundle[n]
        IN  /\ inv.units = {} =>
                 \/ inv.issues # {}
                 \/ inv.route.route = "spreadsheet" /\ a.body.sheets = <<>>
            /\ (a.big \/ (a.suffix = "pdf" /\ ~a.body.magic)) =>
                 inv.units = {} /\ inv.issues \cap Blocking # {}

PrefixOf(p, s) == Len(p) <= Len(s) /\ SubSeq(s, 1, Len(p)) = p

\* No attachment id is another one, or another one with words appended.
IdsApart ==
    \A m, n \in DOMAIN command.bundle :
        m # n => ~PrefixOf(command.bundle[m].id, command.bundle[n].id)

\* The source of a unit can be told from its id: the unit is of one artifact,
\* the artifact of one inventory, and its parents lead to the attachment.
UnitsTraceable ==
    IdsApart =>
        /\ \A m, n \in DOMAIN read : \A u \in read[m].units, w \in read[n].units :
              u.id = w.id => u = w /\ m = n
        /\ \A m, n \in DOMAIN read : \A f \in read[m].artifacts, g \in read[n].artifacts :
              f.id = g.id => f = g /\ m = n
        /\ \A n \in DOMAIN read :
              /\ \A u \in read[n].units : \E f \in read[n].artifacts : f.id = u.artifact
              /\ \A f \in read[n].artifacts :
                    \/ f.parent = read[n].attachment
                    \/ \E g \in read[n].artifacts :
                          g.id = f.parent /\ g.parent = read[n].attachment

=============================================================================
