--------------------------- MODULE ResolutionCycle ---------------------------
(***************************************************************************)
(* run_resolution_cycle (src/evidence_toolchain/resolution_cycle.py), the  *)
(* composition of gap planner, investigation loop, retriever, atomizer,    *)
(* normalizer and resolver, under the step limits the command line gives   *)
(* it.  The loop is that of InvestigationRunner with ports that answer as  *)
(* the built-in ones do; the id of an atom carries what the atom says.     *)
(*                                                                         *)
(* A text is the clues its unit contains and what each of its lines can be *)
(* read as.  Units of an inventory have distinct ids; a unit is named by   *)
(* its position.                                                           *)
(***************************************************************************)
EXTENDS GapPlanner, Integers

CONSTANTS
    Malformed,   \* spans of a month that does not exist
    Cases,       \* [claims, units, lines]
    Requests,    \* the flag and the manifest's max_iterations, or another caller's budget
    MaxSteps     \* bound on the steps of a call

\* What the patterns of the atomizer find in a line of a unit.
Line ==
    [unit : Nat, span : Span \cup {None}, money : BOOLEAN,
     amount : Nat \cup {None}, unitName : UnitName \cup {None}, date : BOOLEAN]

\* Lines are in the order of their units, a period has a label, an amount a
\* unit, and no claim is about a month that does not exist.
Case ==
    {c \in [claims : Seq(Claim), units : Seq(InventoryUnit), lines : Seq(Line)] :
        /\ Places(c.claims) \subseteq DOMAIN GapId
        /\ \A i \in DOMAIN c.claims : c.claims[i].period \notin Malformed
        /\ \A n \in DOMAIN c.lines :
              /\ c.lines[n].unit \in DOMAIN c.units
              /\ \A m \in 1 .. n : c.lines[m].unit <= c.lines[n].unit
              /\ c.lines[n].span # None => "period" \in c.units[c.lines[n].unit].clues
              /\ c.lines[n].amount = None <=> c.lines[n].unitName = None}

\* _max_investigation_steps without a flag and a manifest's limit
DefaultSteps == 10

ASSUME CycleAssumption ==
    /\ None \notin (XId \X NeedType) \cup [atoms : Nat, norms : Nat]
         \cup {"agenda_empty", "max_iterations_exhausted", "repeated_task_detected"}
    /\ \A j, k \in DOMAIN GapId : GapId[j] = GapId[k] => j = k
    /\ Malformed \subseteq Span
    /\ Cases \subseteq Case
    /\ MaxSteps \in Nat
    /\ Requests \subseteq [flag : Int \cup {None}, manifest : Int, budget : Nat \cup {None}]
    /\ DefaultSteps <= MaxSteps
    /\ \A r \in Requests : (r.flag # None => r.flag <= MaxSteps) /\ r.manifest <= MaxSteps
    /\ MaxUnits \in Nat

VARIABLES
    case,      \* the inventory and the claims
    request,   \* the limits of the call
    setup, start, state, current, phase, left, seen, calls   \* the loop

loop == <<setup, start, state, current, phase, left, seen, calls>>
vars == <<case, request, loop>>

-----------------------------------------------------------------------------
(***************************************************************************)
(* The command line.                                                       *)
(***************************************************************************)

\* Mutant: a negative flag is taken as it is.
StepsAsGiven(r) ==
    IF r.flag # None THEN r.flag
    ELSE IF r.manifest > 0 THEN r.manifest ELSE DefaultSteps

\* _max_investigation_steps
StepsOf(r) ==
    IF r.flag # None THEN (IF r.flag < 0 THEN 0 ELSE r.flag)
    ELSE IF r.manifest > 0 THEN r.manifest
    ELSE DefaultSteps

\* Mutant: the flag does not change the manifest's budget.
BudgetOfManifest(r) ==
    IF r.budget # None THEN r.budget
    ELSE IF r.manifest > 0 THEN r.manifest ELSE StepsOf(r)

\* _budget_for_run, or what another caller passes.
BudgetOf(r) == IF r.budget # None THEN r.budget ELSE StepsOf(r)

-----------------------------------------------------------------------------
(***************************************************************************)
(* The loop and its ports.                                                 *)
(***************************************************************************)
Vocabulary ==
    {"document_type", "activity_identity", "usage_amount", "service_period",
     "site_identity", "supplier_identity", "line_item", "currency_amount", "date",
     "identifier"}

GapIds == {GapId[k] : k \in DOMAIN GapId}

AtomName == [task : Seq(GapIds \cup {"atomize", "normalize"}), n : Nat, says : Reading]

CycleAtom == [id : AtomName, type : Vocabulary, sourced : BOOLEAN]

\* All ports of run_resolution_cycle but the observer.
Wired(max) ==
    [retriever |-> TRUE, observer |-> FALSE, atomizer |-> TRUE,
     normalizer |-> "adapter", resolver |-> TRUE, maxIterations |-> max]

NoReadings == [n \in {} |-> None]

\* The agenda is planned from the graph of no atoms.
FirstStates(c) ==
    {[agenda |-> agenda, completed |-> <<>>, units |-> DOMAIN c.units, atoms |-> <<>>,
      norms |-> <<>>, graph |-> [atoms |-> 0, norms |-> 0], stop |-> None,
      events |-> <<>>] :
        agenda \in GapPlans(c.claims, Resolved(c.claims, NoReadings))}

Loop ==
    INSTANCE InvestigationRunner WITH
        Name <- GapIds,
        Target <- XId \X NeedType,
        Unit <- Nat,
        AtomId <- AtomName,
        CoreType <- Vocabulary,
        OtherType <- {},
        Normalizable <- {"usage_amount", "currency_amount", "service_period", "date"},
        Setups <- {Wired(BudgetOf(r)) : r \in Requests},
        StartStates <- UNION {FirstStates(c) : c \in Cases},
        Proposals <- {[tasks |-> <<>>, stop |-> "agenda_empty"]},
        Observations <- {},
        Atomizations <- Seq(CycleAtom),
        Guesses <- {},
        Reason <- {"agenda_empty"},
        MaxCalls <- 1

\* _atoms_from_text: a line is one atom at most, of the first pattern found.
Read(l) ==
    IF l.span # None THEN {Says("service_period", None, None, l.span)}
    ELSE IF l.money THEN {Says("currency_amount", None, None, None)}
    ELSE IF l.amount # None THEN {Says("usage_amount", l.amount, l.unitName, None)}
    ELSE IF l.date THEN {Says("date", None, None, None)}
    ELSE {}

\* The lines of some units that become atoms.
Legible(c, units) ==
    {n \in DOMAIN c.lines :
        c.lines[n].unit \in units /\ c.units[c.lines[n].unit].atomizable
          /\ Read(c.lines[n]) # {}}

\* SimpleUnitClusterAtomizer: atoms are numbered within their task.
Atomized(c, t) ==
    {[n \in DOMAIN lines |->
        LET r == CHOOSE r \in Read(lines[n]) : TRUE
        IN  [id |-> [task |-> t.id, n |-> n, says |-> r], type |-> r.type, sourced |-> TRUE]] :
        lines \in Picked(c.lines, Legible(c, t.units))}

\* Mutant: the normalizer passes over what it cannot read.
BreaksNever(s, t) == FALSE

\* normalize_atom_value raises on some atom of the task.
Breaks(s, t) ==
    \E n \in Loop!Selected(s, t) : s.atoms[n].id.says.span \in Malformed

-----------------------------------------------------------------------------
Init ==
    /\ case \in Cases
    /\ request \in Requests
    /\ setup = Wired(BudgetOf(request))
    /\ start \in FirstStates(case)
    /\ state = start
    /\ current = state
    /\ phase = "idle"
    /\ left = 0
    /\ seen = {}
    /\ calls = 0

Call ==
    /\ Loop!Begin("agenda", StepsOf(request))
    /\ UNCHANGED <<case, request>>

Return ==
    /\ Loop!ReturnAgenda \/ Loop!StopRepeated
    /\ UNCHANGED <<case, request>>

ExhaustBudget ==
    /\ Loop!ExhaustBudget
    /\ UNCHANGED <<case, request>>

Retrieve(t) ==
    /\ Loop!Retrieve(t, SelectedUnits(case.claims, case.units, t))
    /\ UNCHANGED <<case, request>>

Atomize(t) ==
    /\ \E offered \in Atomized(case, t) : Loop!Atomize(t, offered)
    /\ UNCHANGED <<case, request>>

Normalize(t) ==
    /\ ~Breaks(current, t)
    /\ \E norms \in Loop!NormalizerAnswers(current, t) : Loop!Normalize(t, norms)
    /\ UNCHANGED <<case, request>>

\* The normalizer raises; run_resolution_cycle has no result.
Break(t) ==
    /\ Loop!Executes(t, {"normalize_candidate"})
    /\ Breaks(current, t)
    /\ Loop!Raise
    /\ UNCHANGED <<case, request>>

Rest == phase = "idle" /\ calls = 1 /\ UNCHANGED vars

Execute(t) == Retrieve(t) \/ Atomize(t) \/ Normalize(t) \/ Break(t)

Next ==
    \/ Call
    \/ Return
    \/ ExhaustBudget
    \/ current.agenda # <<>> /\ Execute(Head(current.agenda))
    \/ Rest

Spec == Init /\ [][Next]_vars

-----------------------------------------------------------------------------
(***************************************************************************)
(* Properties.                                                             *)
(***************************************************************************)

\* Every variable has its type, the loop's those of InvestigationRunner.
TypeOK ==
    /\ case \in Cases /\ request \in Requests
    /\ setup = Wired(BudgetOf(request))
    /\ {start, state, current} \subseteq Loop!State
    /\ phase \in {"idle", "agenda"} /\ left \in 0 .. MaxSteps /\ calls \in 0 .. 1

\* The draft graph of a state: what the resolver made of the material the
\* graph was resolved from.
Verdicts(s) ==
    Resolved(case.claims,
        [n \in {m \in 1 .. s.graph.norms :
                  \E a \in 1 .. s.graph.atoms : s.atoms[a].id = s.norms[m]} |->
            s.norms[n].says])

\* EvidenceResolutionRun.stop_reason
StopReason(s) ==
    IF s.stop # None THEN s.stop
    ELSE IF s.agenda = <<>> THEN "agenda_exhausted"
    ELSE "max_investigation_steps_reached"

DistinctIds == \A i, j \in DOMAIN case.claims :
                  case.claims[i].x = case.claims[j].x => i = j

\* The call has come back with a result.
Returned ==
    /\ phase = "idle" /\ calls = 1
    /\ state.events # <<>> \/ start.agenda = <<>> \/ StepsOf(request) = 0

\* Lines in the units selected for a gap in need n, of whatever claim.
Reached(n) ==
    UNION {{case.lines[m] : m \in Legible(case, SelectedUnits(case.claims, case.units, t))} :
           t \in {start.agenda[k] : k \in {j \in DOMAIN start.agenda :
                                            start.agenda[j].target[2] = n}}}

\* The line states nothing but an amount.
Plain(l) == l.span = None /\ ~l.money /\ l.amount # None

\* In exact arithmetic.
SameAmount(a, u, b, w) ==
    \/ u = w /\ a = b
    \/ /\ {u, w} \subseteq DOMAIN Scale
       /\ CanonicalUnit[u] = CanonicalUnit[w] /\ a * Scale[u] = b * Scale[w]

Commensurable(u, w) ==
    u = w \/ ({u, w} \subseteq DOMAIN Scale /\ CanonicalUnit[u] = CanonicalUnit[w])

Proves(c, n, l) ==
    \/ n = "usage_amount" /\ Plain(l) /\ SameAmount(l.amount, l.unitName, c.amount, c.unit)
    \/ n = "service_period" /\ l.span = c.period

\* Different, or equal in exact arithmetic only.
Refutes(c, n, l) ==
    \/ /\ n = "usage_amount" /\ Plain(l) /\ Commensurable(l.unitName, c.unit)
       /\ \/ ~SameAmount(l.amount, l.unitName, c.amount, c.unit)
          \/ {<<l.amount, l.unitName>>} \cap Rounded # {<<c.amount, c.unit>>} \cap Rounded
    \/ n = "service_period" /\ l.span \notin {None, c.period}

\* From the text of the inventory to the verdict: whenever the cycle ends, a
\* need counts as supported, and a claim as contradicted, only on a line in
\* the units retrieval reached that says so, and never on money; and when
\* the agenda is exhausted on all such lines.
VerdictOfEvidence ==
    \A i \in DOMAIN case.claims :
        LET v == Verdicts(state)[i]
            stated == {n \in NeedsOf(SpecOf(case.claims, i)) : Stating(case.claims, n) # {}}
            Lines(n) == {l \in Reached(n) : Proves(TargetClaim(case.claims, n), n, l)}
            Against(n) == {l \in Reached(n) : Refutes(TargetClaim(case.claims, n), n, l)}
        IN  /\ \A n \in SupportedNeeds(v.edges) : Lines(n) # {}
            /\ v.status = "contradicted" => \E n \in stated : Against(n) # {}
            /\ (Returned /\ StopReason(state) = "agenda_exhausted") =>
                 /\ \A n \in stated : Lines(n) \subseteq Against(n) \/ n \notin v.missing
                 /\ (\E n \in stated : Against(n) # {}) => v.status = "contradicted"

\* A reason to stop is the true one, for every combination of the step limits:
\* an exhausted agenda has searched each gap, the budget a command line passes
\* is never the one that stops it, a repeated task is one of a repeated claim,
\* and where steps ran out, all of them were made.
StopHonest ==
    Returned =>
        CASE StopReason(state) = "agenda_exhausted" ->
                \A k \in DOMAIN start.agenda : \E n \in DOMAIN state.completed :
                    state.completed[n].task = start.agenda[k].id
          [] StopReason(state) = "max_iterations_exhausted" ->
                request.budget # None /\ Len(state.completed) = request.budget
          [] StopReason(state) = "repeated_task_detected" -> ~DistinctIds
          [] OTHER -> Len(state.completed) = StepsOf(request)

\* One month that does not exist costs all claims their result, and nothing
\* else does: the cycle raises only when the search for a period reaches a line
\* that names such a month, and never exhausts its agenda past one.
LostToMalformed ==
    LET malformed == {l \in Reached("service_period") : l.span \in Malformed}
    IN  /\ (phase = "idle" /\ calls = 1 /\ ~Returned) => malformed # {}
        /\ (Returned /\ StopReason(state) = "agenda_exhausted") => malformed = {}

\* Searching on never makes a claim look worse explained: no edge of the draft
\* graph is lost, no need becomes missing again, a contradiction stays.
VerdictsForward ==
    [][phase' = "agenda" \/ state' # state =>
         \A i \in DOMAIN case.claims :
            LET v == Verdicts(current)[i]
                w == Verdicts(current)'[i]
            IN  /\ v.edges \subseteq w.edges
                /\ w.missing \subseteq v.missing
                /\ v.status = "contradicted" => w.status = "contradicted"]_vars

\* A plan asks for a review of each need that evidence contradicts, for a
\* search of each other one that is missing, once, and for nothing else; so
\* for nothing of a supported claim, nor of one that lacks no required need.
Fits(plan, claims, graph) ==
    /\ \A i \in DOMAIN claims, n \in NeedType :
          LET disputed == \E e \in graph[i].edges : e.need = n /\ e.relation = "contradicts"
              Asks(type) == \E k \in DOMAIN plan :
                               plan[k].type = type /\ plan[k].target = <<claims[i].x, n>>
          IN  /\ Asks("request_manual_review") <=> disputed
              /\ Asks("retrieve_candidate_units") <=> n \in graph[i].missing /\ ~disputed
              /\ graph[i].status \in {"supported_direct", "supported_after_unit_normalization"}
                   => ~Asks("request_manual_review") /\ ~Asks("retrieve_candidate_units")
    /\ \A k \in DOMAIN plan :
          /\ plan[k].type \in {"request_manual_review", "retrieve_candidate_units"}
          /\ plan[k].target \in {claims[i].x : i \in DOMAIN claims} \X NeedType
          /\ \A j \in DOMAIN plan : plan[j].target = plan[k].target => j = k

\* Resolver and gap planner agree on what is open: planned again, the graph
\* reached asks for exactly what its verdicts leave open.
PlanFollowsVerdict ==
    DistinctIds =>
        LET graph == Verdicts(state)
        IN  \A plan \in GapPlans(case.claims, graph) : Fits(plan, case.claims, graph)

-----------------------------------------------------------------------------
\* The resolver relates a claim to evidence by what that claim states: an edge
\* of a claim is the one its own target gives ("period ... matches the claim
\* need", src/src/evidence_toolchain/resolution.py:371).
JudgedByOwnClaim ==
    \A i \in DOMAIN case.claims : \A e \in Verdicts(state)[i].edges :
        e.relation \in Relations(SpecOf(case.claims, i), e.need, state.norms[e.at].says)

=============================================================================
