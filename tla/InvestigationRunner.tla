------------------------- MODULE InvestigationRunner -------------------------
(***************************************************************************)
(* The local investigation loop                                            *)
(* (src/evidence_toolchain/investigation_runner.py): an agenda of tasks    *)
(* that turn units into atoms, atoms into normalizations and both into a   *)
(* draft graph, worked off by calls of run_once and run_agenda.  Planner,  *)
(* observer, atomizer and normalizers are ports that answer as they like;  *)
(* what they answer is filtered.  One action is one task; a call returns a *)
(* new state, one that does not return leaves the state it was given.      *)
(*                                                                         *)
(* Questions, reasons and issues are left out; the artifacts a task looks  *)
(* at are in its units.  A normalization is kept as the id of its atom, a  *)
(* draft graph as the amount of material it was resolved from.             *)
(***************************************************************************)
EXTENDS Naturals, FiniteSets, Sequences, Selection

CONSTANTS
    Name,          \* parts of task ids
    Target,        \* <<claim, need>> a task may be for
    Unit,          \* evidence units
    AtomId, CoreType, OtherType,    \* atoms: ids, vocabulary, what else models say
    Normalizable,  \* the types the normalization adapter has a result for
    Setups,        \* [ports wired, budget]
    StartStates,   \* states an investigation may begin with
    Proposals,     \* what the planner may answer: [tasks, stop]
    Observations,  \* what the observer may answer: [status, units, atoms, norms]
    Atomizations,  \* what the atomizer may answer
    Guesses,       \* what the model-backed normalizer may answer
    Reason,        \* the planner's stop reasons
    MaxSteps,      \* bound on the max_steps of a call
    MaxCalls,      \* bound on the number of calls
    None

TaskType ==
    {"retrieve_candidate_units", "atomize_unit_cluster", "inspect_visual_artifact",
     "inspect_visual_region", "normalize_candidate", "request_manual_review",
     "stop"}

Visual == {"inspect_visual_artifact", "inspect_visual_region"}

Status ==
    {"planned", "completed", "failed", "no_new_clue", "manual_review_required",
     "skipped"}

\* A task id is the planner's name with the suffixes of follow-up tasks.
TaskId == Seq(Name \cup {"atomize", "normalize"})

\* allowed: allowed_atom_types, empty for all; atoms: target_atom_ids;
\* source: source_task_id.  "other" stands for any type without a handler.
Task ==
    [id : TaskId, type : TaskType \cup {"other"}, target : Target \cup {None},
     units : SUBSET Unit, allowed : SUBSET CoreType, atoms : Seq(AtomId),
     source : TaskId]

\* sourced: the atom names a unit or an artifact it was read from.
Atom == [id : AtomId, type : CoreType \cup OtherType, sourced : BOOLEAN]

Result == [task : TaskId, status : Status, atoms : Seq(Atom)]

StopReasons == Reason \cup {"max_iterations_exhausted", "repeated_task_detected"}

EventRecord ==
    [type : {"task_planned", "task_started", "task_completed", "state_updated",
             "budget_exhausted", "stopped"},
     tasks : Seq(TaskId), reason : StopReasons \cup {None}]

Graph == [atoms : Nat, norms : Nat]

State ==
    [agenda : Seq(Task), completed : Seq(Result), units : SUBSET Unit,
     atoms : Seq(Atom), norms : Seq(AtomId), graph : Graph \cup {None},
     stop : StopReasons \cup {None}, events : Seq(EventRecord)]

Setup ==
    [retriever : BOOLEAN, observer : BOOLEAN, atomizer : BOOLEAN,
     normalizer : {"adapter", "llm", "none"}, resolver : BOOLEAN,
     maxIterations : Nat]

Observation ==
    [task : TaskId, status : Status, units : SUBSET Unit, atoms : Seq(Atom),
     norms : Seq(AtomId)]

ASSUME InvestigationAssumption ==
    /\ None \notin Target \cup StopReasons \cup Graph
    /\ Normalizable \subseteq CoreType
    /\ CoreType \cap OtherType = {}
    /\ Setups \subseteq Setup
    /\ StartStates \subseteq State
    \* An investigation starts with no history and a graph of all its material,
    \* or none.
    /\ \A s \in StartStates :
          /\ s.completed = <<>> /\ s.events = <<>> /\ s.stop = None
          /\ s.graph # None => s.graph = [atoms |-> Len(s.atoms), norms |-> Len(s.norms)]
    /\ Proposals \subseteq [tasks : Seq(Task), stop : Reason \cup {None}]
    \* Tasks come with a name.
    /\ \A s \in StartStates : \A n \in DOMAIN s.agenda : s.agenda[n].id # <<>>
    /\ \A p \in Proposals : \A n \in DOMAIN p.tasks : p.tasks[n].id # <<>>
    /\ Observations \subseteq Observation
    /\ Atomizations \subseteq Seq(Atom)
    /\ Guesses \subseteq Seq(AtomId)
    /\ MaxSteps \in Nat /\ MaxCalls \in Nat

VARIABLES
    setup,    \* the runner's ports and state.budget.max_iterations
    start,    \* history: the state the investigation began with
    state,    \* the investigation state the caller holds
    current,  \* the state a call has built so far
    phase,    \* "idle", or the call that runs: "once", "agenda"
    left,     \* iterations the call may still make
    seen,     \* seen_task_fingerprints
    calls

given == <<setup, start>>
vars == <<given, state, current, phase, left, seen, calls>>

-----------------------------------------------------------------------------
(***************************************************************************)
(* Effects on a state.                                                     *)
(***************************************************************************)
Recorded(s, type, tasks, reason) ==
    [s EXCEPT !.events = Append(@, [type |-> type, tasks |-> tasks, reason |-> reason])]

Planned(s, tasks) ==
    Recorded(s, "task_planned", [n \in DOMAIN tasks |-> tasks[n].id], None)

\* Mutant: the reason is kept, the event forgotten.
StoppedSilently(s, reason, type) == [s EXCEPT !.stop = reason]

Stopped(s, reason, type) == Recorded([s EXCEPT !.stop = reason], type, <<>>, reason)

\* The task as the planner would propose it again: everything but its id.
Fingerprint(t) == [t EXCEPT !.id = <<>>]

\* _atom_guardrail_issue is None
Acceptable(t, a) ==
    /\ a.type \in CoreType
    /\ t.allowed # {} => a.type \in t.allowed
    /\ a.sourced

Ids(atoms) == [n \in DOMAIN atoms |-> atoms[n].id]

\* run_once has recorded the start of the head t of the agenda, and the task
\* is completed with the atoms and normalizations that were kept.
Completed(s, t, task, status, units, accepted, kept) ==
    Recorded(
        [Recorded(s, "task_started", <<t.id>>, None) EXCEPT
           !.agenda = Tail(@),
           !.completed = Append(@, [task |-> task, status |-> status, atoms |-> accepted]),
           !.units = @ \cup units,
           !.atoms = @ \o accepted,
           !.norms = @ \o kept],
        "task_completed", <<t.id>>, None)

\* Atoms that fail the guardrail are dropped ...
Admitted(t, offered) == {n \in DOMAIN offered : Acceptable(t, offered[n])}

\* ... and with them the normalizations that name one.
Retained(t, offered, norms) ==
    {n \in DOMAIN norms :
        \A m \in DOMAIN offered \ Admitted(t, offered) : norms[n] # offered[m].id}

\* _complete_task filters and merges what the task produced.
Completions(s, t, task, status, units, offered, norms) ==
    {Completed(s, t, task, status, units, accepted, kept) :
        accepted \in Picked(offered, Admitted(t, offered)),
        kept \in Picked(norms, Retained(t, offered, norms))}

\* Mutant: the follow-up replaces the next task.
PrecededInPlace(s, t) ==
    Planned([s EXCEPT !.agenda = IF @ = <<>> THEN <<t>> ELSE <<t>> \o Tail(@)], <<t>>)

\* A follow-up task goes to the front of the agenda.
Preceded(s, t) == Planned([s EXCEPT !.agenda = <<t>> \o @], <<t>>)

\* Mutant: the follow-up does not inherit the allowed types.
AtomizeTaskOpen(t, selected) ==
    [t EXCEPT !.id = Append(@, "atomize"), !.type = "atomize_unit_cluster",
              !.units = selected, !.allowed = {}, !.atoms = <<>>, !.source = t.id]

AtomizeTask(t, selected) ==
    [t EXCEPT !.id = Append(@, "atomize"), !.type = "atomize_unit_cluster",
              !.units = selected, !.atoms = <<>>, !.source = t.id]

NormalizeTask(t, ids) ==
    [t EXCEPT !.id = Append(@, "normalize"), !.type = "normalize_candidate",
              !.units = {}, !.allowed = {}, !.atoms = ids, !.source = <<>>]

Elements(ids) == {ids[n] : n \in DOMAIN ids}

\* Mutant: a pending task for some of the atoms is enough.
PendingForSome(agenda, ids) ==
    \E n \in DOMAIN agenda :
        /\ agenda[n].type = "normalize_candidate"
        /\ Elements(agenda[n].atoms) \cap Elements(ids) # {}

\* _has_pending_normalize_task
PendingNormalization(agenda, ids) ==
    \E n \in DOMAIN agenda :
        agenda[n].type = "normalize_candidate" /\ Elements(agenda[n].atoms) = Elements(ids)

\* _refresh_draft_graph
Refreshed(s) ==
    IF setup.resolver
    THEN Recorded([s EXCEPT !.graph = [atoms |-> Len(s.atoms), norms |-> Len(s.norms)]],
                  "state_updated", <<>>, None)
    ELSE s

\* _select_atoms: no target ids mean all atoms.
Selected(s, t) ==
    {n \in DOMAIN s.atoms : t.atoms = <<>> \/ s.atoms[n].id \in Elements(t.atoms)}

\* What the wired normalizer may answer for a task.
NormalizerAnswers(s, t) ==
    CASE setup.normalizer = "adapter" ->
           {Ids(atoms) : atoms \in Picked(s.atoms,
                {n \in Selected(s, t) : s.atoms[n].type \in Normalizable})}
      [] setup.normalizer = "llm" -> Guesses
      [] OTHER -> {<<>>}

\* Mutant: one task beyond the budget.
ExhaustedLate(s) == setup.maxIterations > 0 /\ Len(s.completed) > setup.maxIterations

Exhausted(s) == setup.maxIterations > 0 /\ Len(s.completed) >= setup.maxIterations

-----------------------------------------------------------------------------
(***************************************************************************)
(* Calls.                                                                  *)
(***************************************************************************)
Init ==
    /\ setup \in Setups
    /\ start \in StartStates
    /\ state = start
    /\ current = state
    /\ phase = "idle"
    /\ left = 0
    /\ seen = {}
    /\ calls = 0

Begin(call, steps) ==
    /\ phase = "idle" /\ calls < MaxCalls
    /\ phase' = call
    /\ left' = steps
    /\ current' = state
    /\ seen' = {}
    /\ calls' = calls + 1
    /\ UNCHANGED <<given, state>>

RunOnce == Begin("once", 1)

RunAgenda == \E n \in 0 .. MaxSteps : Begin("agenda", n)

\* The call returns s.
Return(s) ==
    /\ state' = s
    /\ current' = s
    /\ phase' = "idle"
    /\ left' = 0
    /\ seen' = {}
    /\ UNCHANGED <<given, calls>>

\* The for loop of run_agenda is over, or there is nothing to do.
ReturnAgenda ==
    /\ phase = "agenda"
    /\ left = 0 \/ current.agenda = <<>>
    /\ Return(current)

\* The task at the head has run in this call before.
StopRepeated ==
    /\ phase = "agenda" /\ left > 0 /\ current.agenda # <<>>
    /\ Fingerprint(Head(current.agenda)) \in seen
    /\ Return(Stopped(current, "repeated_task_detected", "stopped"))

\* Mutant: max_steps is not looked at.
MayStepOn ==
    \/ phase = "once"
    \/ /\ phase = "agenda" /\ current.agenda # <<>>
       /\ Fingerprint(Head(current.agenda)) \notin seen

\* run_once may be called, by the caller or by run_agenda.
MayStep ==
    \/ phase = "once"
    \/ /\ phase = "agenda" /\ left > 0 /\ current.agenda # <<>>
       /\ Fingerprint(Head(current.agenda)) \notin seen

\* run_once returns s; run_agenda goes on unless there is a stop reason.
Step(s) ==
    IF phase = "once" \/ s.stop # None
    THEN Return(s)
    ELSE /\ current' = s
         /\ left' = left - 1
         /\ seen' = seen \cup {Fingerprint(Head(current.agenda))}
         /\ UNCHANGED <<given, state, phase, calls>>

ExhaustBudget ==
    /\ MayStep /\ Exhausted(current)
    /\ Step(Stopped(current, "max_iterations_exhausted", "budget_exhausted"))

\* _plan_next_tasks
Plan(p) ==
    /\ MayStep /\ ~Exhausted(current) /\ current.agenda = <<>>
    /\ LET s == [current EXCEPT !.agenda = @ \o p.tasks]
       IN  Step(IF p.tasks # <<>> THEN Planned(s, p.tasks)
                ELSE IF p.stop # None THEN Stopped(s, p.stop, "stopped")
                ELSE s)

\* run_once has a task of one of these types to execute.
Executes(t, types) ==
    /\ MayStep /\ ~Exhausted(current) /\ current.agenda # <<>>
    /\ t = Head(current.agenda)
    /\ t.type \in types

\* A task that produces nothing.
Complete(t, status) ==
    \E s \in Completions(current, t, t.id, status, {}, <<>>, <<>>) : Step(s)

Retrieve(t, selected) ==
    /\ Executes(t, {"retrieve_candidate_units"}) /\ setup.retriever
    /\ \/ selected = {} /\ Complete(t, "no_new_clue")
       \/ /\ selected # {}
          /\ \E s \in Completions(current, t, t.id, "completed", {}, <<>>, <<>>) :
                Step(Preceded(s, AtomizeTask(t, selected)))

\* The observer's result is recorded under the task id it names.
Inspect(t, o) ==
    /\ Executes(t, Visual) /\ setup.observer
    /\ \E s \in Completions(current, t, o.task, o.status, o.units, o.atoms, o.norms) :
          Step(s)

\* The atoms task t produced are to be normalized, unless a task for them waits.
Followed(s, t) ==
    LET ids == Ids(s.completed[Len(s.completed)].atoms)
    IN  IF ids = <<>> \/ setup.normalizer = "none" \/ PendingNormalization(s.agenda, ids)
        THEN s
        ELSE Preceded(s, NormalizeTask(t, ids))

Atomize(t, offered) ==
    /\ Executes(t, {"atomize_unit_cluster"})
    /\ setup.atomizer \/ offered = <<>>
    /\ \E s \in Completions(current, t, t.id, "completed", {}, offered, <<>>) :
          Step(Followed(s, t))

Normalize(t, norms) ==
    /\ Executes(t, {"normalize_candidate"})
    /\ \E s \in Completions(current, t, t.id, "completed", {}, <<>>, norms) :
          Step(Refreshed(s))

RequestReview(t) ==
    /\ Executes(t, {"request_manual_review"})
    /\ Complete(t, "manual_review_required")

SkipStop(t) ==
    /\ Executes(t, {"stop"})
    /\ Complete(t, "skipped")

\* A port is missing, or the type has no handler.
FailTask(t) ==
    /\ Executes(t, {"other"} \cup (IF setup.retriever THEN {} ELSE {"retrieve_candidate_units"})
                             \cup (IF setup.observer THEN {} ELSE Visual))
    /\ Complete(t, "failed")

\* A port raises: nothing in the runner catches it.
Raise ==
    /\ phase # "idle"
    /\ current' = state
    /\ phase' = "idle"
    /\ left' = 0
    /\ seen' = {}
    /\ UNCHANGED <<given, state, calls>>

\* The caller does not call again.
Rest == phase = "idle" /\ UNCHANGED vars

Execute(t) ==
    \/ \E selected \in SUBSET current.units : Retrieve(t, selected)
    \/ \E o \in Observations : Inspect(t, o)
    \/ \E offered \in Atomizations \cup {<<>>} : Atomize(t, offered)
    \/ \E norms \in NormalizerAnswers(current, t) : Normalize(t, norms)
    \/ RequestReview(t)
    \/ SkipStop(t)
    \/ FailTask(t)

Next ==
    \/ RunOnce
    \/ RunAgenda
    \/ ReturnAgenda
    \/ StopRepeated
    \/ ExhaustBudget
    \/ \E p \in Proposals : Plan(p)
    \/ current.agenda # <<>> /\ Execute(Head(current.agenda))
    \/ Raise
    \/ Rest

Spec == Init /\ [][Next]_vars

-----------------------------------------------------------------------------
(***************************************************************************)
(* Properties.                                                             *)
(***************************************************************************)

\* Every variable has the type its class declares, and a call never has more
\* iterations left than it was allowed.
TypeOK ==
    /\ setup \in Setups /\ start \in StartStates
    /\ state \in State /\ current \in State
    /\ phase \in {"idle", "once", "agenda"}
    /\ left \in 0 .. MaxSteps \cup {1}
    /\ seen \subseteq Task
    /\ calls \in 0 .. MaxCalls

OfTypes(events, types) == Subsequence(events, {n \in DOMAIN events : events[n].type \in types})

RootTasks ==
    {start.agenda[n] : n \in DOMAIN start.agenda}
        \cup UNION {{p.tasks[n] : n \in DOMAIN p.tasks} : p \in Proposals}

\* Whatever a model says, however long the chain of follow-up tasks it is
\* asked in: an atom is admitted only with provenance, of the vocabulary, and
\* of a type allowed by the task the chain began with
\* (docs/investigation-loop-boundary.md:82).
GuardrailHolds ==
    LET done == OfTypes(current.events, {"task_completed"})
    IN  /\ Len(done) = Len(current.completed)
        /\ \A n \in DOMAIN current.completed :
             \A m \in DOMAIN current.completed[n].atoms :
                LET a == current.completed[n].atoms[m]
                IN  /\ a.sourced /\ a.type \in CoreType
                    /\ \E t \in RootTasks :
                          /\ t.id[1] = done[n].tasks[1][1]
                          /\ t.allowed = {} \/ a.type \in t.allowed

Times(events, type, id) ==
    Cardinality(UNION {{<<n, m>> : m \in {k \in DOMAIN events[n].tasks :
                                          events[n].tasks[k] = id}} :
                       n \in {k \in DOMAIN events : events[k].type = type}})

TimesIn(agenda, id) == Cardinality({n \in DOMAIN agenda : agenda[n].id = id})

\* Each planned task is on the agenda or was started and completed once for
\* each time it was planned, whatever follow-ups were put before it and
\* wherever a call stopped.
NoTaskLost ==
    LET ids == {start.agenda[n].id : n \in DOMAIN start.agenda}
                 \cup UNION {Elements(current.events[n].tasks) : n \in DOMAIN current.events}
    IN  /\ \A n \in DOMAIN current.events :
              current.events[n].type = "task_completed" =>
                 /\ current.events[n - 1].type = "task_started"
                 /\ current.events[n - 1].tasks = current.events[n].tasks
        /\ \A i \in ids :
              TimesIn(start.agenda, i) + Times(current.events, "task_planned", i)
                = TimesIn(current.agenda, i) + Times(current.events, "task_completed", i)

\* The atoms for which a normalize task is on the agenda.
Waiting(agenda) ==
    UNION {Elements(agenda[n].atoms) :
              n \in {m \in DOMAIN agenda : agenda[m].type = "normalize_candidate"}}

\* Without an observer the draft graph never falls behind unnoticed: an atom
\* it was not resolved from has a normalize task waiting, in each state a
\* caller gets, so that an empty agenda means a graph of all the evidence.
GraphFollows(s) ==
    (setup.resolver /\ setup.normalizer # "none" /\ ~setup.observer /\ s.graph # None) =>
        /\ s.graph.norms = Len(s.norms)
        /\ {s.atoms[n].id : n \in s.graph.atoms + 1 .. Len(s.atoms)} \subseteq Waiting(s.agenda)

GraphCurrent == GraphFollows(state)

\* A stop reason is that of the last stop on record, and a budget that is on
\* record as exhausted is, whatever reasons a planner gives.
StopExplained ==
    LET stops == OfTypes(state.events, {"budget_exhausted", "stopped"})
    IN  /\ state.stop = (IF stops = <<>> THEN None ELSE stops[Len(stops)].reason)
        /\ \A n \in DOMAIN stops : stops[n].type = "budget_exhausted" => Exhausted(state)

\* The runner implements the contract.
Contract ==
    INSTANCE InvestigationContract WITH
        budget <- setup.maxIterations,
        closed <- Len(state.completed),
        known <- Len(state.atoms),
        judged <- IF state.graph = None THEN 0 ELSE state.graph.atoms,
        stopped <- state.stop # None

\* Calls are atomic, bounded by the budget, and move evidence and draft graph
\* forward only.
ImplementsContract == Contract!Spec

-----------------------------------------------------------------------------
(***************************************************************************)
(* What the documents say and the code does not do.                        *)
(***************************************************************************)

\* New units, atoms and normalizations are followed by a resolver rerun
\* (docs/investigation-loop-boundary.md:27-29), here: before an investigation
\* that does not stop runs out of tasks.  Visual evidence is not.
EvidenceIsJudged ==
    (setup.resolver /\ state.graph # None /\ state.agenda = <<>>) =>
        state.graph = [atoms |-> Len(state.atoms), norms |-> Len(state.norms)]

=============================================================================
