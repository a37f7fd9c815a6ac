# evidence-toolchain: verification project

TLA+ models of the toolchain that turns attachments (mails, spreadsheets, PDFs, images)
into evidence, compares the evidence with declared claims and reports, claim by claim,
what is supported, what is not and what a person must look at. Paths below are relative
to `src/src/evidence_toolchain/` unless they start with `docs/`, `src/`, `pyproject.toml` or `.github/`.

The models are written from the code. Documents are quoted only where a run shows that
the code does something else (section "Findings").

## 1. Inventory

The program is a library of sequential Python. Nothing runs concurrently, and
the only state that outlives a call are the trace and report files of a command; what makes it hard is long protocols between small parts, untrusted
answers (model-backed capabilities, planners, readers), budgets and stop reasons, partial failure,
and state computed once and used later.

| part | state it keeps | operations | used by |
|---|---|---|---|
| convergence kernel: masks, gaps, patches, validation (`convergence/{schemas,candidates,gaps,patches,masks,validator}.py`) | `CandidateMaskState`: six masks, raw and normalized payloads, source refs, alignments | compute a gap, validate a patch, apply it | convergence runner |
| convergence scheduler (`convergence/scheduler.py`) | none | eligibility, order of capabilities | convergence runner |
| convergence runner (`convergence/runner.py`, `board.py`) | `ConvergenceBoard`: candidates, events, review triggers; step, stop reason | seed, loop, stop, detect conflicts, report | CLI, experiments |
| built-in capabilities (`convergence/capabilities.py`) | none | assign slots of a row, normalize units, align with a claim | convergence runner |
| document capability runner (`runners.py`, `runtime.py`, `capabilities.py`, `planner.py`, `reports.py`) | `EvidenceRunState`: pending and completed capabilities, results, interrupts, events | plan a document, run pending capabilities, choose fallbacks, ask for review, resume | ingestion callers |
| local investigation loop (`investigation_runner.py`, `investigation_gaps.py`, `investigation_retrieval.py`, `investigation.py`) | `InvestigationState`: agenda, completed tasks, ledger, atoms, normalizations, draft graph, iterations, stop reason | plan tasks from gaps, execute retrieval / visual / atomize / normalize tasks, guard model atoms, account the budget, stop | resolution cycle |
| hard-gate resolver and claims (`resolution.py`, `claims.py`, `normalizers.py`, `atomizers.py`) | `ResolutionGraph`: nodes, edges, issues, status per need | derive needs from a claim, normalize atoms, gate each need | investigation loop, resolution cycle |
| resolution cycle (`resolution_cycle.py`) | inventory, state and final graph of one cycle | wire the above together | CLI, experiments |
| ingestion and safety routing (`ingestion.py`, `file_routing.py`) | `EvidenceInventory`: artifacts, units, issues | safety policy, routing, read, merge | CLI, experiments |
| readers (`readers.py`) | none | parse one file format into units and issues | ingestion |
| experiments, expected-behaviour oracle, CLI (`experiments.py`, `cli.py`) | trace and report files | run a bundle, write the trace, compare with expectations, exit code, budgets from flags | user |
| adapter acceptance (`adapter_acceptance.py`) | none | scenario checks for adapters | tests |
| synthetic artifact factory (`src/synthetic/artifact_factory/`) | plan of tool calls, produced files | plan, execute, verify, compile | test data |

How they interact: readers produce an inventory of evidence units; the convergence
cycle seeds one candidate per claim and row of it and lets capabilities propose patches to
the candidates; the resolution cycle runs the older path over the same inventory, an agenda
of tasks that turn units into atoms, normalizations and a gated graph. The document capability
runner works on one document at a time, before either. All calls are synchronous; producers,
planners, readers and model providers are callbacks the caller may replace.

Hard behaviours and the properties that make each part correct:

* Convergence. Patches come from arbitrary producers, some of them models. Whatever they
  answer, a candidate must stay in the lattice *unknown, present, assigned, normalized, aligned*,
  must keep a source for every value, and may advance only by the authority of a capability's spec.
  The loop must end, its stop reason must be true of the board it leaves, and a claim may be called
  converged only on a candidate of its own that nothing contradicts. One rejected patch ends the
  run for all candidates, a raising producer loses the board, `max_steps` is shared.
* Capability runner. A run is resumed with the pending steps of the last call, by whatever runners are at
  hand; no step may be lost or doubled unrecorded, a failure must leave its result and all fallbacks, and resuming must come to an end.
* Investigation. Budget, repeated task and planner stops must leave the agenda and draft
  graph consistent with the atoms; a stop reason must be true when read.
* Resolver and gap planner. A need may count as supported, a claim as contradicted, only on a line of text that says so
  in units that compare; and what the resolver leaves open the planner must ask for.
* Resolution cycle. Five parts with rules of their own turn lines into a verdict. The verdict must be that of the lines, must not go back as the
  search goes on, and the reason given for the end of the search must be true under every combination of limits.
* Ingestion. Units must come only from attachments the safety policy let through, each must be traceable to its source by its
  id, and no attachment may vanish without an issue. A reader that raises ends the command.
* Commands. They may fail or be killed between any two steps and leave files behind; exit status, trace and report must tell
  one story whatever was there before.

The list of hazards, each at its line and with the properties that cover it, is in
`PROJECT.json`.

## 2. Plan

Order: the most consequential behaviour, the verdict on a claim, first.

| step | modules | state |
|---|---|---|
| 1 | `MaskKernel`, `GapScheduler`, `ConvergenceLoop`, `ConvergenceRunner`, abstract `ConvergenceContract`; proofs in `ConvergenceProofs` | done |
| 1b | `UtilityConvergence`: the loop with the default schema and built-in producers, against a reference definition of "this row states this claim"; proofs in `UtilityProofs` | done |
| 2 | `DocumentPlanner`, `CapabilityRunner` (`run_document`, then `run_capability_steps` called repeatedly with failing, raising, review-requesting and missing runners), abstract `CapabilityContract`; proofs in `CapabilityProofs` | done |
| 3 | `InvestigationRunner`: agenda, budget, stop reasons, draft-graph refresh, model-atom guardrail; abstract `InvestigationContract`; proofs in `InvestigationProofs`, `InvestigationHistory` | done |
| 4 | `HardGateResolver` (needs, normal forms, gates), `GapPlanner` that turns its graph into tasks and selects units for them, `ResolutionCycle`, which composes them with 3; proofs in `ResolutionProofs` | done |
| 5 | `Ingestion`: policy, routing, readers, artifacts and units with their ids | done |
| 6 | `ExperimentCommand`: the commands over their files, the expected-behaviour oracle; the budgets of the command line in `ResolutionCycle`; proofs in `ExperimentProofs` | done |

Composition: `GapScheduler` extends `MaskKernel`; `ConvergenceLoop` extends `GapScheduler`;
`ConvergenceRunner` and `UtilityConvergence` extend `ConvergenceLoop` and differ only in what
producers answer; in `InvestigationRunner` the ports are sets; `GapPlanner` extends `HardGateResolver`, and `ResolutionCycle` extends `GapPlanner` and instantiates
`InvestigationRunner` with ports that answer as the built-in ones do; `ExperimentCommand` extends `Ingestion`.

All invariants that the passing runs check are now theorems, but `LostToMalformed`. Left of those worth having: that one, and that `UtilityConvergence` implements `ConvergenceRunner`'s
safety part (its producers answer with members of `PatchOver`), so that the theorems of the one carry over to the other.

Conventions: a mask is a set of bits, a dict keyed by slot is a function on its keys,
recursion is avoided in modules with proofs, constants carry named assumptions that TLC
evaluates on every run.

## 3. Modules

**`MaskKernel`** - data and checks. `SchemaAssumption` is what `EvidenceSchema` guarantees:
every mask is built from the schema's own slots. `Gap` and `ActiveMask` are
`compute_candidate_gap` and `CandidateGap.active_mask` (issues alone keep no gap open). `AfterPatch` is
`_candidate_after_patch`: masks are or-ed, payloads overwritten, source refs merged, ambiguity
and issue bits set and then cleared. `ValidPatch` conjoins, in the validator's order, every
check of `validate_patch`. A validation result carries no state, so the
order of the checks matters to messages only. `alignment_by_slot` is kept as its key set; `rejected_mask` is never
written by any code and is left out.

**`GapScheduler`** - `IsEligible` and the sort key of `select_capabilities`. Names are
ordered by `nameRank`. `CapabilityAssumption` says names are distinct; the code would
let a second producer of the same name replace the first in its lookup table.

**`ConvergenceLoop`** - `run_convergence_cycle` without the choice of patches. One action per way
an iteration can end:

| action | code (`convergence/runner.py`) |
|---|---|
| `StopConverged` | `_next_action` finds no gap, `break` before any event |
| `StopNoEligible` | no capability for the first candidate with a gap |
| `ProducerRaises` | the exception of a producer leaves the call |
| `StopNoProgress` | the proposed patch touches nothing |
| `RejectPatch` | `validate_patch` says no: trigger, stop |
| `ApplyPatch` | the patch is applied, the step counted |
| `StopExhausted` | the `else` of the `for` loop |
| `Finalize` | conflict detection, claim reports, last event |

The report keeps, per claim, alignment and convergence status, supporting candidate and
unresolved mask. Event messages and metadata are kept only as far as they name a candidate, a capability or touched bits.

**`ConvergenceRunner`** - the loop with *any* producers: the answer of the selected producer is
any member of `Patches`, or an exception.

**`ConvergenceContract`** - the abstract specification: settled slots stay settled, work is paid from a
budget, the run closes once, claims are judged after that and on their own candidates.
The runner refines it with `settled` = aligned required slots.

**`UtilityConvergence`** - the loop with `utility_usage_schema` and the three built-in producers, over
rows and claims chosen in `Init`. `Assignment`, `Normalization` and `Alignment` compute the
patches of `_propose_slot_assignment`, `_propose_normalization` and `_propose_alignment`. A row is the sequence of its cells whose
header names a slot; several headers name one slot, so a row may hold several cells of a slot, or none. `States(row, fields)` is the
reference definition the code is held against; it does not mention masks or stages. `interpreter` is the Python of the process, chosen in `Init`: `_to_number` makes an int of a
quantity without a fraction and `_compact_number` calls its `is_integer()`, which an int has since Python 3.12 only, while the project supports 3.11. So quantities are
counted in fractions (`Unity` of them make one), `CompactsInt` says where an int gets there (whole, with a unit, and not Wh, which are divided first), and `NormalizerRaises` makes the selected normalizer take `ProducerRaises`.

**`DocumentPlanner`** - `plan_document`: the capabilities and fallbacks of each document class.

**`CapabilityRunner`** - a run state and the calls of `run_capability_steps` on it. Run states are immutable in the code: a
call builds `current` from local lists and returns it. `state` is what the caller holds; it changes only in `Finish`.

| action | code (`runners.py`) |
|---|---|
| `Init` | `run_document` up to the first call: any plan a router answers, its steps pending, four events |
| `Resume` | a call begins; the local lists are taken from the state |
| `Keep` | `can_run` is false: the step stays pending |
| `Start` | `capability_started`, then the runner is called with the state built so far |
| `Succeed`, `Fail` | the result, also one made from an exception: completed step, result, interrupt, events |
| `SkipFallback`, `SelectFallback` | one turn of the inner loop over the plan's fallbacks |
| `Recovered` | the inner loop ends |
| `Finish` | the call returns kept and selected steps as pending |
| `Abandon` | the call does not return: `can_run` raises, `run` raises what is no `Exception`, the process ends |
| `Rest` | the caller calls no more |

`Keep` and `Start` are always both possible, as the caller may bring other runners to each call. Reasons, outputs and errors are left out except
`source_capability`, which ties a fallback to a failure. `fullCalls` is a history variable: how many successive calls kept no step.

**`CapabilityContract`** - the abstract specification: a call takes effect as a whole or not at all, runs some of the work, keeps the
rest, and adds fallbacks only after a failure, and then leaves none out.

**`InvestigationRunner`** - a `LocalInvestigationRunner` and the calls of `run_once` and `run_agenda` on a state. States are
immutable; `current` is what a call has built, `state` what the caller holds. One action is one task, with all the runner does for it:

| action | code (`investigation_runner.py`) |
|---|---|
| `RunOnce`, `RunAgenda` | a call begins |
| `ReturnAgenda`, `StopRepeated` | the loop of `run_agenda` is over; the task at the head has run in this call before |
| `ExhaustBudget`, `Plan` | `run_once`: the budget is used up; the agenda is empty and the planner is asked |
| `Retrieve`, `Inspect`, `Atomize`, `Normalize`, `RequestReview`, `SkipStop`, `FailTask` | the branches of `_execute_task` |
| `Raise` | a port raises; nothing catches it, the caller keeps the state before the call |
| `Rest` | the caller calls no more |

`Completions` is `_complete_task` with its two filters (`Acceptable` is the guardrail for atoms, normalizations of rejected atoms are
dropped), `Preceded` puts a follow-up task in front of the agenda, `Step` is what `run_agenda` does with the state `run_once` returns, `Refreshed` reruns the
resolver. A draft graph is kept as the amount of material it was resolved from, a normalization as its target id, a task id as the planner's name followed
by the suffixes of follow-up tasks. An observer's result is recorded under whatever task id it names, as in the code. `InvestigationAssumption` says of start states
what `run_resolution_cycle`, the only place in `src/` that makes one, makes of them: nothing completed, no event, no reason to stop; and tasks have names.

**`InvestigationContract`** - the abstract specification: calls are atomic, evidence and graph never move back and move only with a task closed, the graph
rests on known atoms, the budget bounds the tasks ever closed, a stop reason stays and allows one task per call.

**`Selection`** - `Picked(seq, positions)`, the comprehension `tuple(x for x in xs if ...)`: what is kept of a sequence, in its order; `Subsequence` is the same as a function.

**`HardGateResolver`** - `derive_need_spec`, `_normalize_quantity`, the branches of `_resolve_need` and `_resolution_status`. A graph maps the position of a claim
to its edges, missing needs and status. An amount is counted in thousandths of its unit, and the unit map in thousandths of the canonical unit, so that integers decide
what the code decides with floats; `Rounded` names the amounts whose product with the factor is not exact, which equal only themselves. `TargetClaim` is the
lookup by need id, `SpecOf` the lookup of a claim's needs by claim id: the code has a rule of its own for equal keys in each.

**`GapPlanner`** - `plan_from_graph` (`Reviewed`, `Retrieved`, `GapPlans`) and `CandidateUnitRetriever` (`SelectedUnits`). A unit is kept as the classes of words it
contains, the targets it quotes, and whether the atomizer reads its type.

**`ResolutionCycle`** - `run_resolution_cycle`, from the lines of an inventory to the draft graph and the stop reason. A line is what the patterns of the atomizer can find in
it, `Read` their order of precedence. An atom's id carries what it says, so that the loop, which knows ids only, is the one of `InvestigationRunner`:

| action | code |
|---|---|
| `Init` | the agenda is planned from the graph of no atoms (`resolution_cycle.py`), the limits come from flag and manifest (`cli.py`) |
| `Call`, `Return` | `run_agenda` begins and ends |
| `ExhaustBudget` | `run_once` finds the budget used up |
| `Retrieve`, `Atomize`, `Normalize` | the three kinds of task, answered by `SelectedUnits`, `Atomized` and the normalization adapter |
| `Break` | the normalizer raises on a month that does not exist; there is no result |
| `Rest` | the cycle is over |

**`Ingestion`** - what becomes of an attachment: `Safety`, `Route`, and for each reader the artifacts and units it makes of a file, as a set that is empty when it
raises. A file is kept as what its bytes are to the readers. An id is the sequence of words that the code joins with underscores, so that two ids can come out equal as they can there.

**`ExperimentCommand`** - `run-experiment` and `run-convergence` over the files they leave behind. A file is the number of the command that wrote it, whether it is whole, and its content.

| action | code |
|---|---|
| `Start` | a command is given; the files are as the last one left them |
| `Load` | manifest and attachments are read, or that raises |
| `Ingest`, `IngestRaises` | one attachment, read by its reader or not |
| `Cycle`, `CycleRaises` | the resolution or convergence cycle returns what it likes, or raises |
| `OpenTrace`, `FillTrace`, `OpenReport`, `FillReport` | `write_text` truncates the file, then fills it |
| `Judge` | the expected behaviour is loaded, or that raises; `Passes` is `evaluate_expected_behavior` |
| `PrintSummary` | the summary is printed, `main` returns 0 or 1 |
| `WriteFails` | a directory, a file or the standard output cannot be written: an exception |
| `Killed` | the process is killed, anywhere |
| `Rest` | no more commands |

`exit` is the status the process ends with, `traceback` whether it ended with an exception. `cli.py` catches none (`raise SystemExit(main())`), so each of them (`Raises`) ends the process with status 1, the
status of a failed comparison; only the traceback on the standard error tells the two apart. A usage error (status 2 of `argparse`) ends the process before a command begins.

**`MC...`** - instances for TLC, one for each of `ConvergenceRunner`, `UtilityConvergence`, `CapabilityRunner`, `InvestigationRunner`, `ResolutionCycle` and `ExperimentCommand`.
**`ConvergenceProofs`, `UtilityProofs`, `CapabilityProofs`, `InvestigationProofs`, `ResolutionProofs`, `ExperimentProofs`** - theorems about the modules they are named for. `InvestigationHistory` continues
`InvestigationProofs` with what is true of the event log. `SelectionProofs` has the lemmas they share, about filtered sequences (`PickedType`, `SubsequenceAppend`) and about counting (`OccurrencesConcat`, ...).

## 4. Runs

| run | asks | bounds |
|---|---|---|
| `runner_safety` | Do lattice, provenance, authority, trace and stop reason survive arbitrary patches; does the loop end? | 2 candidates of 1 claim, 2-slot schema, `MaxSteps` 7 |
| `runner_claims` | Are the verdicts backed, is a rejection reported, is the contract implemented? | 3 candidates of 2 claims, `MaxSteps` 10 |
| `utility_producers` | With the built-in producers, is a claim supported exactly by rows that state it, and what is lost to an exception of the normalizer? | 2 rows of a menu of 9, 2 claims of a menu of 3, 2 interpreters, `MaxSteps` 13 |
| `capability` | Over repeated, partial and abandoned calls, is work conserved, are failures covered by fallbacks, does resuming drain the queue, do the records agree, is the report honest? | all plans of the rule planner and 4 of another router, `MaxCalls` 4 |
| `investigation` | Is no task lost, does the draft graph keep up, is a stop reason true, do the filters hold against models, are calls atomic and bounded? | 7 runners with budget 3, 4 or none, 4 start states, `MaxSteps` 4, `MaxCalls` 4 |
| `resolution_cycle` | Is a verdict that of the lines, does it never go back, is the stop reason true under all limits, is a result lost to a malformed month only, does the planner ask for exactly what is open? | 11 sets of claims, 8 inventories, 8 requests, `MaxUnits` 2, `MaxSteps` 12 |
| `experiment` | Do exit status, trace and report agree whatever came before, is an attachment never lost silently, can a unit be traced? | 15 bundles of at most 5 attachments, 4 expectations, 3 outcomes, `MaxRounds` 2 |
| the five violation runs | see Findings | as the passing run of the module, or fewer steps and calls |

What the properties say:

* `LatticeInv`, `EvidenceBacked` - no accepted sequence of patches takes a candidate out of
  schema or lattice, or leaves a value without a source. Payloads are overwritten and refs accumulate, in different code.
* `TraceExplainsState` - every bit of every candidate is traced to an applied patch of a capability with the authority
  to set it. It relates the board to its own event log over the whole run.
* `StopReasonSound` - each stop reason is true of the board it is reported with; `max_steps_exhausted` is said of exactly the runs that applied `MaxSteps` patches, counted in the event log.
* `ConvergedMeansSupported` - the loop's notion of done (no active gap) implies the report's (all required slots aligned),
  provided every required slot must and can be aligned. Without that proviso it is false: a required slot that needs no alignment closes
  its gap and is never aligned. The built-in schema satisfies it.
* `VerdictBacked` - a converged claim rests on its own, fully aligned, sourced candidate that no other candidate of the
  claim contradicts.
* `RejectionReported` - after a rejection no claim is reported as merely lacking evidence.
* `ImplementsContract` - the refinement, including its fairness.
* `SupportIsTrue` - support only from a row that really states the claim, through three rewriting stages.
* `EvidenceTraces` - each payload is the first usable cell of its slot in the candidate's own row, which its only ref
  names, and each normalized value is current.
* `ReachedIsJudged` - in a run that ends with a report, with enough budget and no stuck earlier candidate, a candidate is supported *iff* its row states the claim. A run that ends with an exception has come to a row
  that is `Fatal`: on Python 3.11, readable in full, with a whole quantity in a unit that is not Wh.
* `Termination`, `AlwaysReports` - liveness: every run ends, and with the built-in producers it ends with a report where no row is `Fatal`, as none is from Python 3.12 on.
* `WorkConserved` - each planned step waits or has run exactly as often as planned, and each further step has a `fallback_selected`
  event of its own. A step moves through five lists and two return values; this says none is dropped or copied on the way.
* `FailureCovered` - once anything failed, every fallback of the plan is pending or has run, in each state a caller gets.
* `HistoryAgrees` - completed steps, results, interrupts and four kinds of events, appended in different places, tell one story, also
  in the state a runner sees in the middle of a call.
* `ReportHonest` - a request for review stays the recommendation, and "nothing to do" means all planned and selected work has run.
* `HistoryKept` - what a caller was told is never changed by a later or an abandoned call.
* `Drained` - three successive calls that can run every step leave nothing pending, however many fail. Two are not enough: `_has_capability` does
  not look at steps the loop has not reached, so a fallback waiting for its turn is selected again.

* `NoTaskLost` - the agenda against the event log: a planned task is waiting, or was started and completed at once, as often as it was planned.
* `GraphCurrent` - an atom the graph was not resolved from has a normalize task waiting, through follow-ups skipped because a like one was pending, budgets and repeated tasks. It
  is true without an observer only; with one it is the finding `EvidenceIsJudged`.
* `StopExplained` - the reason left in the metadata is the last one in the event log, and an exhausted budget is exhausted.
* `GuardrailHolds` - an admitted atom has a type that the task its chain *began* with allows, not only the task that produced it.
* `VerdictOfEvidence` - the verdict from text to status, across retrieval, atomizer, normalizer and resolver, stated over the lines in exact arithmetic: supported only by a line that
  states the target and is not money, contradicted only by one that states another value, and when the agenda is exhausted by *every* such line within reach. What "reach" and
  "target" are is the code's (`Reached`, `TargetClaim`); whether the target is the claim's own is the finding `JudgedByOwnClaim`.
* `VerdictsForward` - an action property of the whole cycle: edges, met needs and contradictions stay.
* `StopHonest` - the reason of each result is true, whatever flag, manifest and budget: exhausted agendas have searched each gap, the budget derived from the command line never
  stops a run before its steps do, a repeated task needs a repeated claim.
* `LostToMalformed` - a cycle has no result only if the search for a period reaches a line with a month that does not exist, and no cycle exhausts its agenda past such a line: the
  normalizer's exception costs all claims their result, and nothing else does.
* `PlanFollowsVerdict` - resolver and planner, which read graph and needs by rules of their own, agree on what is open (`Fits`): planned again, the graph reached asks for a review of each need that evidence contradicts,
  for one search of each other need that is missing, and for nothing else; for claims with distinct ids.
* `ExitTellsReport` - exit status 0, or 1 without a traceback, means that trace and report are this command's and whole, and that each expected claim is in the trace and as
  expected, or not. It is stated by the fields compared, not by `Passes`. Status 1 with a traceback says nothing of the files: a malformed expected file leaves a new trace beside an old report, a failing print both
  new files beside a passed comparison. A script that reads the status alone cannot tell.
* `ReportOfTrace` - the files as a later reader finds them: a whole report of the same command as a whole trace is the verdict on it, and no report is newer than its trace.
* `TraceComplete` - nothing of a bundle is missing from a whole trace, through merging, failures and kills: all units, and, in the trace of a convergence run, all issues short of blocking ones as partial failures.
* `NothingSilent` - each attachment yields a unit or an issue, whatever its name claims and its bytes are. The exception is a workbook without sheets, which the code reads in silence. For a blank text the issue is the one
  every text has, that its provenance is low.
* `UnitsTraceable` - ids joined from words name one source. It is stated for bundles in which no attachment id begins with another (`IdsApart`): with ids `bill` (a workbook) and `bill_sheet_1`
  (a table) the code does give two artifacts one id.

### Bounds, and why they are enough

* *Schema.* Two slots in `MCConvergenceRunner`, one compared directly, one only after normalization, so both
  paths up the lattice exist; one bit outside the schema lets patches leave it. `runner_safety` demands
  provenance of one of the slots only, `runner_claims` of both.
* *Patches.* `MCPatches` combines, for every producer, present, assigned, sourced, normalized, aligned and ambiguous masks, so
  that patches of every kind are both accepted and rejected: outside the schema, beyond the authority of the
  capability, unsourced, skipping a stage; some patches name another candidate or another capability. (The input check cannot fail in the
  loop: the scheduler has made it before.) `MCRowPatches` differ in the values they read, which is what conflicts need.
* *Candidates.* Three, two of one claim and one of another: the least with a conflict in one claim and a bystander.
* *Steps.* One candidate needs three steps (assign, normalize, align); `MaxSteps` 7 and 10 leave one over after all candidates
  have theirs, so both `converged` and `max_steps_exhausted` occur, and repeated work is seen. In `utility_producers` four candidates need twelve.
* *Rows.* The menu has the claim's amount in MWh, kWh and Wh, in two spellings, with a unit that is no energy unit, with a blank unit, another
  site, a missing cell, only an unusable cell, and several cells of one slot. Quantities are counted in halves, so that the MWh are a fraction and the kWh whole; both interpreters run all of them.
  Wh are multiples of 1000: Python divides as a float, the model as an integer.

* *Capability plans.* The rule plans have at most one fallback and no repetition. The routed plans add what another router may answer: two fallbacks,
  a fallback named twice or also planned, a capability planned twice, no capability at all; one runner returns results in another's name.
* *Calls.* `Drained` needs three full calls; the fourth lets one keep a step or be abandoned in between.
* *Investigations.* The cycle's agendas have the same task twice (with another id), a review and a targeted normalize task; atoms arrive in two orders, so the ids of
  a pending task are compared as sets. Atoms that overlap without being equal tell sets from subsets. Four tasks in a call
  pass a whole chain retrieve, atomize, normalize and the task after it. The models offer an atom without provenance, one outside the vocabulary,
  one the task forbids under an id that is also accepted, and normalizations for rejected atoms.

* *Cycles.* Claims are alone, in pairs with the same or different targets, and once with an id twice. Lines prove, refute, mix money with an amount, name a malformed month, are in a unit the
  atomizer does not read, or are beyond the first two matching units (`MaxUnits` is 12 in the code). One amount is not exact in binary. The requests lie on both sides of each boundary of the
  step limits: no flag, a negative one, zero, one above and one below the manifest's, and a budget below the steps. Eleven steps exceed the longest chain, so each stop reason occurs.
* *Commands.* Bundles have each reader succeeding and failing in each way it can, before and after other attachments. Two commands are enough for what one finds of another: a file is
  this command's or an earlier one's, and the first can be cut off at any step.

### Fairness

The convergence loop: `WF_vars(Next)` only. The loop is straight-line sequential code: when an iteration can run, it does. No fairness is
assumed of any single action, so a producer may be useless for ever; the loop still ends because each iteration stops or is counted.
`ProducerRaises` is allowed and never required. Deadlock is checked; a call that returned or raised stutters (`Returned`).

The capability runner, the investigation, the cycle and the commands: none. A command has no loop but that over the attachments, each of which is read once. Nothing obliges a caller to resume, so "pending work is eventually done" is false; what the code promises if he does
is the safety property `Drained`.

## 5. Findings

Each is a run TLC must find violated. The fourth was also reproduced by calling `run_resolution_cycle`.

1. `PassOnlyWhenReady` - `_claim_report` selects a candidate by `aligned_mask` alone. One with an ambiguous slot
   is reported converged; `docs/convergence/03-candidate-mask-state.md:395` allows only ready candidates, which are unambiguous.
2. `ConflictIsOfTheClaim` - a `candidate_conflict` trigger of one claim marks every supported claim
   as conflicting; `docs/convergence/06-runner-and-report.md:273` speaks of the same claim.
3. `EvidenceIsJudged` - visual work adds atoms and normalizations and plans nothing, so the agenda empties with a draft graph that knows neither;
   `docs/investigation-loop-boundary.md:27` leads from new evidence to a rerun of the resolver.
4. `JudgedByOwnClaim` - a need is looked up by its id, which is its type, so the first claim of a run that states an amount or a period sets the target of all. A second claim is reported
   contradicted by the very line that states it; the edge says (`resolution.py:371`) that the period matches the need of the claim.
5. `NeverRaises` - on Python 3.11 a whole quantity with a unit (other than Wh) makes the built-in normalizer raise `AttributeError` (`convergence/capabilities.py:297`: `int.is_integer` is of 3.12), and
   the convergence cycle has no result for any claim; `pyproject.toml:10` says `requires-python = ">=3.11"` and `.github/workflows/ci.yml:25` runs 3.11.

Seen while modelling, without a run of their own. Convergence:

* only an empty patch stops the convergence loop as `no_progress`. The aligner re-proposes slots already aligned and runs until `max_steps`, while
  `docs/convergence/06-runner-and-report.md:185` lists the stop condition "same scheduled capability repeats without progress";
* the assignment of a row lacking a slot is rejected, because provenance is demanded of every slot at once, and the report says *unresolved gap* for a claim
  that `docs/convergence/06-runner-and-report.md:397` calls *insufficient, missing required slots*;
* a candidate that cannot be aligned uses up `max_steps`; claims whose rows were never read are then reported as lacking required slots;
* a run that closes its last gap in step `max_steps` reports `max_steps_exhausted`, not `converged`: the bound is tested first;
* neither `no_eligible_capability` nor `max_steps_exhausted` raises a review trigger;
* `_candidate_conflicts` compares candidate values exactly, while alignment ignores case, and compares a normalized with a raw quantity
  when the other candidate was not reached: conflicts can be missed or invented. `VerdictBacked` is stated with the code's notion of conflict;
* only the row's quantity is normalized, so a claim declared in MWh is never supported;
* GWh are left in their own unit, while `docs/convergence/05-gap-scheduler-and-capabilities.md:361` says they become kWh;
* a comparable slot with a blank text is never normalized, and the normalizer is selected again until `max_steps`.

Capability runner:

* a utility bill with a text layer gets no fallbacks, and the fallbacks of `CAPABILITY_REGISTRY` (`capabilities.py:88`,
  `docs/capability-registry.md:48`) are never consulted. When `docling_parse` fails, the report recommends nothing;
  `docs/testing/failure-mode-test-strategy.md:15` and `docs/failure-modes.md:165` ask for a fallback or a review;
* a fallback that still waits is selected once more by a failure before it, so a manual review may be requested twice;
* `source_capability` is the name in the failed result, which need not be the capability that was asked;
* in the middle of a call the state given to runners shows only the kept steps as pending.

Investigation and cycle:

* `run_agenda` returns on any `stop_reason`, which is never cleared. One the planner gave ends every later call after one task;
  `docs/investigation-loop-boundary.md:163` makes ending the loop a rule of the controller, not a judgement of the model;
* after an investigation task ended in `manual_review_required` (or a `stop` task was skipped) the runner takes the next; `docs/investigation-loop-boundary.md:160` lists
  a required review as a condition that ends the loop;
* `no_progress_detected` cannot be reached: the signature includes the number of events, and each task records some;
* the budget's `max_model_calls`, `max_new_units` and `max_new_atoms` are not read by the runner;
* `manual_review_requested` is an event type nothing records;
* of equal claim ids the planner keeps the last need specification, the resolver the first, and the gap tasks of the second claim end the call as `repeated_task_detected`;
* a malformed month in any retrieved line raises in the normalizer and ends the cycle, whatever was found before;
* converted amounts are compared exactly: 1.005 MWh contradicts a claim of 1005 kWh;
* retrieval keeps the first twelve matching units in the order of the inventory, not the best;
* a line with an amount of money and a usage yields the money only;
* an activity or site named in a claim is a required need that no relation of the hard gate supports, so such a claim is never supported; one that states a supplier only
  is insufficient without any gap to search.

Ingestion and commands:

* blocking issues of the inventory, a file too large or with a wrong signature, become no partial failure of the convergence report (`convergence/runner.py:492`);
  `docs/convergence/06-runner-and-report.md:283` lists `blocking_failure` first among the treatments the report records (reproduced by calling `run_convergence_cycle`);
* any suffix but `.pdf` decides the route alone; `docs/ingestion-normalization.md:231` forbids to settle a route on the file extension;
* attachment ids that begin with one another can give two artifacts one id (see `UnitsTraceable`);
* a workbook without sheets, or in the strict variant of the format, is read as empty without an issue;
* text in another encoding, an encrypted workbook and a truncated JPEG raise what no reader catches, and end the command;
* the trace is written in place, so a kill leaves half a file under the name of a whole one, next to the report of an earlier command;
* an expectation without claims passes; of two rows with one claim id the last is compared.

## 6. Proofs

`ConvergenceProofs` proves, for every schema, every set of capabilities, every menu of patches, every number of candidates
and claims and every `MaxSteps`, from `SchemaAssumption`, `CapabilityAssumption`, `LoopAssumption` and `PatchAssumption`:

| theorem | says |
|---|---|
| `TypeCorrect` | `Spec => []TypeOK` |
| `LatticeTheorem`, `EvidenceTheorem` | the two candidate invariants |
| `StopReasonTheorem` | `StopReasonSound` |
| `TraceTheorem` | `TraceExplainsState` |
| `ConvergedTheorem`, `VerdictTheorem`, `RejectionTheorem` | the three properties of verdicts |
| `ContractTheorem` | initial states and steps of the runner map to initial states and steps of the contract |

The argument. Lemmas on dicts (`MergeDictType`, `MergeSourceRefsType`) give the type of a patched candidate; with the type of events,
triggers and reports, `TypeOK` is inductive. `ValidPatchKeepsState` and `ValidPatchKeepsSources` say what the validator
buys; `OnlyValidPatches` shows that a step leaves the candidates alone or applies one valid patch to one of them, so the candidate invariants hold by one case each.
`EvidenceBacked` is inductive because payload keys arrive only together with a source and refs are never removed.
`StopReasonSound` is not inductive: nothing in it says that a looping run has no reason and no rejection trigger yet. `Progress` adds
that, and `StopInv` is inductive; `Counted` says that the step counter is the number of applied patches on the trace. The verdict properties speak of a report that is written once from a board that then stays: `BoardInv` collects the invariants
of the board, `ReportOnlyAtTheEnd` says only `Finalize` writes a report, and one lemma per property
proves it from `BoardInv` at that step. The selection of the first candidate uses that a nonempty set of numbers has a least element (`LeastCandidate`).
The refinement maps each stop to `Close`, each applied patch to `Work` and `Finalize` to `Judge`.
`TraceExplainsState` becomes inductive with `TypeOK` and one fact about masks: a patch sets no bit that it does not touch, and it was valid, so the event
written with it has the authority; events are appended, so what they explained they still explain.

`UtilityProofs` proves, for every number of rows and claims, every set of words and amounts, and every `MaxSteps`, from `UtilityAssumption`
(which states the usage schema, the three built-in capabilities and the facts about spellings of units that the conversion relies on) and the assumptions of the loop:

| theorem | says |
|---|---|
| `EvidenceTracesTheorem` | `EvidenceTraces` |
| `SupportTheorem` | `SupportIsTrue` |
| `JudgementTheorem` | `ReachedIsJudged` |

The argument. A candidate is determined by its row, its claim and how far it is: seeded, or `Filled` with everything the row says, a set of normalized slots and a set of aligned ones. `Board`
says so of all candidates, and is inductive with one lemma for each producer's patch (`AssignmentEffect`, `NormalizationEffect`, `AlignmentEffect`), which also says whether the patch is valid:
the states a candidate can get stuck in are `Refused`. `Harmless` says that a candidate with a fatal row is never normalized, so no fatal row is ever judged and a run that raises
has come to one. `EvidenceTraces` follows from `Board`, `SupportIsTrue` too, once `FullMatchStates` has shown that a fully
aligned candidate is one whose row states the claim: this is where the arithmetic of units meets the reference definition. `ReachedIsJudged` speaks of budgets: `InOrder` says that no candidate is worked on before all earlier ones
are done, `Pace` that each took three steps, `Ending` what a loop that is over has come to. `Turns` joins the four; `Reported` ties the report to the board it was written from.

`CapabilityProofs` proves, for every set of plans and answers and any number of calls, from `RunnerAssumption`:

| theorem | says |
|---|---|
| `TypeCorrect` | `Spec => []TypeOK` |
| `FailureTheorem` | `Spec => []FailureCovered` |
| `HistoryTheorem` | `Spec => HistoryKept` |
| `DrainTheorem` | `Spec => []Drained` |
| `ContractTheorem` | `Spec => ImplementsContract` |
| `WorkTheorem` | `Spec => []WorkConserved` |
| `HistoryAgreesTheorem` | `Spec => []HistoryAgrees` |
| `ReportTheorem` | `Spec => []ReportHonest` |

The argument. `TypeOK` alone is inductive once the local lists of an idle runner are known to be empty (`Typed`). None of the others is: they speak of the caller's state, while
the work is done on `current`. `CallInv` says, for the middle of a call, that `current` extends `state` (`Extends`), that the two are one between calls (`AtRest`), that the steps pending at its start
are those it has run, has kept or has to do, and that it selects fallbacks of the plan only, after a failure of its own (`Split`), and that after a failure the fallbacks not yet looked at are the only ones that may be missing
(`Covered`). `Finish` then gives `FailureCovered`, `HistoryKept` and one call of the contract, with the steps of the call as the witnesses for what ran, stayed and was added; all
other actions stutter. `DrainInv` counts full
calls: after one, nothing is pending unless something failed; after two, a failure on record means that all fallbacks have run, because `FailureCovered`
had put them all among the work of the second; so the third selects none and keeps none.

`WorkConserved` counts, so it needs `Balance`: for each capability and source, what is completed and what waits make what was planned or selected, in the caller's state and in the one being built, where
what waits is what the call has kept, has to do and has selected (`Backlog`). A run step leaves the backlog and joins the completed in one action, and an abandoned call falls back on the caller's balance.
`HistoryAgrees` needs `Story`: completed steps, results, interrupts and events are four projections of one history, one event short while a runner runs. `ReportHonest` needs both, and that an event that
selects a fallback names it and its source (`NamedInv`), as the report counts by names.

`InvestigationProofs` proves, for every set of ports' answers, start states and budgets and any number of calls, from `InvestigationAssumption`:

| theorem | says |
|---|---|
| `TypeCorrect` | `Spec => []TypeOK` |
| `GraphTheorem` | `Spec => []GraphCurrent` |
| `ContractTheorem` | `Spec => ImplementsContract` |

The argument. `PickedType` says that a filter returns a sequence of the same kind; with it `CompletionType` describes the state after `_complete_task` by what matters:
the head of the agenda is gone, some atoms are appended, graph and stop reason are untouched. Three lemmas say how agendas grow and shrink without hiding a
waiting normalize task. `Advances(c, r)` is the one relation all steps satisfy: no task closed and nothing learned, or one within the budget; a stop reason stays;
if the graph followed the atoms of `c`, it follows those of `r`. There is one lemma for each action (`RetrieveStep`, `InspectStep`, ...), and `EveryStep` joins them.
`GraphCurrent` and the contract speak of the caller's state, which changes on return only; `Ahead` (with `FurtherAhead` for a step) says how far `current` may be from it: not at all if `state` has a
stop reason, else by closed tasks, and `Accounted` keeps the budget. `ReturnKeeps` and `GoesOnKeeps` then prove invariant and refinement together.

`InvestigationHistory` proves, from the same assumption:

| theorem | says |
|---|---|
| `HistoryInvariance` | `Spec => []Histories`, the inductive invariant of the other three |
| `TaskTheorem` | `Spec => []NoTaskLost` |
| `GuardrailTheorem` | `Spec => []GuardrailHolds` |
| `StopTheorem` | `Spec => []StopExplained` |

The argument. All three relate a state to its event log, so one description of what a step appends to the log (`Adds`) serves them. `Balanced` is a balance as above, of tasks: what the agenda has lost since the start, completed events name, and each such event comes right after
the start of the same task. `Guarded` follows chains: a follow-up has the first part of the id of the task the chain began with, and its permission (`Descends`); only a normalize task, which admits no atoms, may lack it. That an id's first part finds a root is why tasks need a name. Completed results and
completed events are as many, which is what lets a result find the id it was admitted under. `Explained` is the last stop on record. `Recounted` joins the three, and `Histories` says it of both states.

`ResolutionProofs` proves, for every set of cases and requests, every retrieval size and every bound, from `ResolverAssumption` and `CycleAssumption`:

| theorem | says |
|---|---|
| `LoopTheorem` | `Spec => Loop!Spec`: the cycle is a behaviour of the investigation loop |
| `TypeCorrect` | `Spec => []TypeOK` |
| `ResolverMonotone` | a fact about `Resolved` alone, for any claims and readings |
| `ForwardTheorem` | `Spec => VerdictsForward` |
| `StopTheorem` | `Spec => []StopHonest` |
| `PlannerFollows` | a fact about `plan_from_graph`, for any claims with distinct ids and any readings |
| `PlanTheorem` | `Spec => []PlanFollowsVerdict` |
| `VerdictTheorem` | `Spec => []VerdictOfEvidence` |
| `OwnTarget` | `Spec => [](NeedsApart => JudgedByOwnClaim)` |

The argument. `LoopAssumption` discharges the assumption of `InvestigationRunner` for the parameters the cycle gives it, so the lemmas of `InvestigationProofs` can be cited under `Proofs`, a second instance
with the same parameters; `SameOperators` and `SameActions` say that the two instances name the same things. `Wiring` adds to the loop's invariant that the units of a state are those of the case, which
makes what retrieval selects a legal answer, and that a draft graph speaks of material the state has. `Moves` is what all steps but a raising normalizer satisfy: the new state has the atoms and normalizations of the old one first, and its graph or one
of everything (`Grown`). `ReadingsGrow` turns that into more readings, and `ResolverMonotone` into `VerdictsForward`. Two successive states are not compared when a call is given up, which is the exception the property makes.

`StopHonest` needs `Course`: the cycle's one call starts from the planned agenda, the work left is counted against the limits (`Counted`), each gap of the start is waiting or searched (`Searched`), and with distinct claim ids everything on the agenda is
*further* than all that was done: its stage (retrieve, atomize, normalize) for its gap is higher. That is why no task is met twice, so `repeated_task_detected` needs a repeated claim.

`PlannerFollows` needs no invariant, only that both sides look at the same claim: `OwnNeeds` says that with distinct ids the planner's need specs (looked up by claim id, the last wins) and the resolver's needs
(by need id) are those of the claim. `PlanTasks` says that a plan has the task of every open place and no other, `PlanDistinct` that it has each once, and a task's target names the claim and need of its place.

`VerdictOfEvidence` relates the last state to the text of the files, and its invariant `Ledger` keeps account of every line on the way. `Gathered` says of a state that nothing is made up: each atom says what a legible line of
a unit says that one of the searches reaches and may use (`ReadFrom`), and each task on the agenda is such a search or goes on with one (`Derived`); and that nothing is lost: whatever a search would offer is given to the
resolver already or still promised by a task on the agenda (`Promised`: the search itself, the atomize task with its units, or the normalize task that names the atom). `RetrieveGathers`, `AtomizeGathers` and `NormalizeGathers`
hand the promise on; `AcceptedLines` shows that the filters of `_complete_task` drop only what the task may not use. TLC checked `Ledger` on the run's instance before it was proved. With an
empty agenda all promises are kept (`ReachedReadings`), and `ReadingJudged` compares the resolver's verdict on one reading, by units, factors, rounding and periods, with what
`Proves` and `Refutes` say of the line in exact arithmetic. `LedgerMeansVerdicts` joins them for all edges of a claim. What a line proves is relative to `TargetClaim`, the first claim that states the need;
`OwnTarget` proves that this is the claim itself where no two claims of a cycle have a need in common (`NeedsApart`), the case in which finding 4 cannot occur.

`ExperimentProofs` proves, for every set of commands, attachments and outcomes and any number of rounds, from `CommandAssumption`:

| theorem | says |
|---|---|
| `TypeCorrect` | `Spec => []TypeOK` |
| `ExitTheorem` | `Spec => []ExitTellsReport` |
| `ReportTheorem` | `Spec => []ReportOfTrace` |
| `CompleteTheorem` | `Spec => []TraceComplete` |
| `SilentTheorem` | `Spec => []NothingSilent` |
| `TraceableTheorem` | `Spec => []UnitsTraceable` |

The argument. None of the four is inductive. `ReadInOrder` says that the inventories read so far are those of the first attachments, `TraceOfRun` that a whole trace of this command is of its run and all it read,
`FilesInOrder` which files can be this command's at which place of it: that is what rules out that an old report is taken for a new one. There is one lemma for each action; the steps that write nothing share `FilesKept`.
`CompleteTheorem` needs that a reader has one answer at most (`OneInventory`), `SilentTheorem` a case for each reader (`ReaderAccounts`).
`TraceableTheorem` has a case for each reader, too: an id is its kind, the id of the attachment and the words of a place (`Joined`); numerals tell the places of a reader apart (`WordAssumption`), and of two attachments the
ids differ where neither begins with the other. That the words for numbers do not run out is part of `Attachment`: rows, columns, pages and sheets are as many as `Numeral`, `RowWord` and `ColumnWord` name, which the
code, formatting any integer, never lacks. Without it the theorem would be about attachments whose ids are undefined.

Only model-checked: `LostToMalformed`, and liveness (`Termination`, `AlwaysReports`, and the fairness of `ConvergenceContract`), which the provers cannot do: they need `ENABLED`. Not provable here either is
what a definition by recursion over data computes; the modules have none that a theorem depends on, and filtered sequences are described by the positions they keep instead. The five findings are counterexamples, and
need no proof. Every other invariant and every action property of the passing runs is a theorem.

## 7. Not modelled

Within the convergence kernel: texts of messages and event metadata, the serialisation of boards and reports, inventory
issues, the computation of rows from units (headers are matched to slots before the model starts), float rounding, and schemas or producers with duplicate names.
Of the document capability runner: preflight and observation (matching of file names and text), plan issues (copied, never read), report writing.
Of the investigation: questions, reasons, scores, issues and
the fields of ledgers, artifacts (they stand in a task's units). Of resolver and normalizers: labels, aliases of units, confidences, basis texts; the regular expressions of the atomizer stand in `Line`, and units have distinct ids there.
Of ingestion and readers: parsing itself (a file is what its bytes are to a reader), confidences, routing signals, and `PdfPlumberExtractReader`, which no route chooses.
Of the commands: the fields of manifests, the text of the printed summary (that it is printed, or cannot be, is a step), usage errors and `case_snapshot.py`, which labels a run. `ExperimentCommand` takes what a cycle reports from a set; what it can be is the matter of the other modules.

Adapter acceptance compares fields of the result of one convergence run with a caller's producer, which is `ConvergenceRunner`; nothing is left of it that has state. The synthetic artifact factory
makes test fixtures by running other tools on scenario files, one after the other; it is no part of the toolchain. LLM and OCR adapters are ports: their answers are the sets the models take.

## 8. Running

    tlc -workers 2 -config MCConvergenceRunner.cfg MCConvergenceRunner.tla
    tlapm SelectionProofs.tla
    tlapm ConvergenceProofs.tla
    tlapm UtilityProofs.tla
    tlapm CapabilityProofs.tla
    tlapm InvestigationProofs.tla
    tlapm InvestigationHistory.tla
    tlapm ResolutionProofs.tla
    tlapm ExperimentProofs.tla

`PROJECT.json` lists every run with its configuration, and for every property of a passing run a mutated definition under
which TLC finds it violated (the operators commented "Mutant:").
