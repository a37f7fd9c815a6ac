--------------------------- MODULE ConvergenceLoop ---------------------------
(***************************************************************************)
(* The loop of run_convergence_cycle                                       *)
(* (src/evidence_toolchain/convergence/runner.py): at every iteration the  *)
(* first candidate with an active gap gets one capability, whose producer  *)
(* answers with a patch or raises.  One action per way an iteration can    *)
(* end, one for the exhausted loop and one for conflict detection and the  *)
(* report.  Which patches producers answer with is left to the modules     *)
(* that extend this one: ConvergenceRunner (any) and UtilityConvergence    *)
(* (the built-in producers).                                               *)
(*                                                                         *)
(* Candidates are numbered in board order.  Messages and metadata of       *)
(* events and triggers are kept as far as they name a candidate, a         *)
(* capability or touched slots.                                            *)
(***************************************************************************)
EXTENDS GapScheduler, Sequences

CONSTANTS
    NumCandidates,   \* seeded candidates
    Claim,           \* declared claims
    ClaimOf,         \* the claim each candidate was seeded for
    MaxSteps,        \* max_steps
    ContextBits,     \* SITE, PERIOD, ACTIVITY and UNIT
    QuantityBit,     \* QUANTITY
    None             \* the absent value, and the absent name

Candidates == 1 .. NumCandidates

ASSUME LoopAssumption ==
    /\ NumCandidates \in Nat
    /\ ClaimOf \in [Candidates -> Claim]
    /\ MaxSteps \in Nat
    /\ None \notin Value /\ None \notin Name

VARIABLES
    candidates,      \* board.candidates
    step,            \* iterations completed
    phase,           \* "looping", "stopped", "finalized" or "raised"
    stopReason,      \* stop_reason
    events,          \* board.events
    reviewTriggers,  \* board.review_triggers
    report           \* one ClaimConvergenceReport per claim

vars == <<candidates, step, phase, stopReason, events, reviewTriggers, report>>

-----------------------------------------------------------------------------
(***************************************************************************)
(* Events, triggers, reports.                                              *)
(***************************************************************************)
EventTypes ==
    {"candidate_seeded", "gap_computed", "capability_selected",
     "patch_proposed", "patch_applied", "patch_rejected", "stopped", "finalized"}

StopReasons ==
    {"none", "converged", "no_eligible_capability", "no_progress",
     "patch_rejected", "max_steps_exhausted"}

AlignmentStatuses ==
    {"none", "supported_direct", "supported_after_unit_normalization",
     "insufficient", "not_evaluated"}

ConvergenceStatuses ==
    {"none", "evidence_converged", "needs_review_due_to_candidate_conflict",
     "needs_review_unresolved_gap", "insufficient_missing_required_slots"}

EventRecord ==
    [type : EventTypes, candidate : 0 .. NumCandidates,
     capability : Name \cup {None}, touched : SUBSET Bits]

\* candidate 0 and capability None: the event names none.
Event(type, i, name, touched) ==
    [type |-> type, candidate |-> i, capability |-> name, touched |-> touched]

Trigger(code, i, j) == [code |-> code, candidate |-> i, other |-> j]

TriggerRecord ==
    [code : {"patch_rejected", "candidate_conflict"},
     candidate : Candidates, other : 0 .. NumCandidates]

ClaimReportRecord ==
    [alignment : AlignmentStatuses, convergence : ConvergenceStatuses,
     support : 0 .. NumCandidates, unresolved : SUBSET Bits]

NoReport ==
    [alignment |-> "none", convergence |-> "none", support |-> 0, unresolved |-> {}]

-----------------------------------------------------------------------------
(***************************************************************************)
(* The board.                                                              *)
(***************************************************************************)
ActiveCandidates == {i \in Candidates : ActiveMask(candidates[i]) # {}}

\* _next_action: board order decides, not the size of the gap.
Current ==
    CHOOSE i \in Candidates :
        ActiveMask(candidates[i]) # {} /\ \A j \in 1 .. i - 1 : ActiveMask(candidates[j]) = {}

\* Mutant: candidates are not filtered by claim.
CandidatesOfBoard(m) == Candidates

CandidatesOf(m) == {i \in Candidates : ClaimOf[i] = m}

Supported(c) == Required \subseteq c.aligned

SupportOf(m) == {i \in CandidatesOf(m) : Supported(candidates[i])}

\* selected[0]
SelectedFor(m) == CHOOSE i \in SupportOf(m) : \A j \in SupportOf(m) : i <= j

\* _candidate_value: the normalized value if there is one, else the raw one.
CandidateValue(c, b) ==
    IF b \in DOMAIN c.normalizedPayload THEN c.normalizedPayload[b]
    ELSE IF b \in DOMAIN c.payload THEN c.payload[b]
    ELSE None

\* _candidate_conflicts: same context, different quantities.
Conflicting(c, d) ==
    /\ \A b \in ContextBits : CandidateValue(c, b) = CandidateValue(d, b)
    /\ CandidateValue(c, QuantityBit) # None
    /\ CandidateValue(d, QuantityBit) # None
    /\ CandidateValue(c, QuantityBit) # CandidateValue(d, QuantityBit)

\* _detect_simple_conflicts: each claim's selected candidate is compared
\* with every other candidate of the claim.
ConflictTriggers ==
    UNION {{Trigger("candidate_conflict", SelectedFor(m), j) :
              j \in {j \in CandidatesOf(m) \ {SelectedFor(m)} :
                       Conflicting(candidates[SelectedFor(m)], candidates[j])}} :
           m \in {m \in Claim : SupportOf(m) # {}}}

HasTrigger(triggers, code) == \E t \in triggers : t.code = code

UnresolvedGaps(m) ==
    UNION {ActiveMask(candidates[i]) : i \in CandidatesOf(m) \ SupportOf(m)}

\* Mutant: a conflict does not downgrade support.
SupportedReportDespiteConflict(m, triggers) ==
    [alignment |->
        IF candidates[SelectedFor(m)].normalized # {}
        THEN "supported_after_unit_normalization" ELSE "supported_direct",
     convergence |-> "evidence_converged",
     support |-> SelectedFor(m),
     unresolved |-> UnresolvedGaps(m)]

\* _claim_report.  The triggers are the whole board's, not the claim's.
SupportedReport(m, triggers) ==
    [alignment |->
        IF candidates[SelectedFor(m)].normalized # {}
        THEN "supported_after_unit_normalization" ELSE "supported_direct",
     convergence |->
        IF HasTrigger(triggers, "candidate_conflict")
        THEN "needs_review_due_to_candidate_conflict" ELSE "evidence_converged",
     support |-> SelectedFor(m),
     unresolved |-> UnresolvedGaps(m)]

\* Mutant: missing slots are reported before the rejection.
UnsupportedReportRejectionLast(m, triggers) ==
    LET insufficient == \E i \in CandidatesOf(m) : Gap(candidates[i]).missing # {}
    IN  [alignment |-> IF insufficient THEN "insufficient" ELSE "not_evaluated",
         convergence |->
            IF insufficient THEN "insufficient_missing_required_slots"
            ELSE "needs_review_unresolved_gap",
         support |-> 0,
         unresolved |-> UnresolvedGaps(m)]

UnsupportedReport(m, triggers) ==
    LET insufficient ==
          /\ ~HasTrigger(triggers, "patch_rejected")
          /\ \E i \in CandidatesOf(m) : Gap(candidates[i]).missing # {}
    IN  [alignment |-> IF insufficient THEN "insufficient" ELSE "not_evaluated",
         convergence |->
            IF insufficient THEN "insufficient_missing_required_slots"
            ELSE "needs_review_unresolved_gap",
         support |-> 0,
         unresolved |-> UnresolvedGaps(m)]

ClaimReport(m, triggers) ==
    IF SupportOf(m) # {} THEN SupportedReport(m, triggers)
    ELSE UnsupportedReport(m, triggers)

-----------------------------------------------------------------------------
(***************************************************************************)
(* The loop.                                                               *)
(***************************************************************************)
SeedEvents == [i \in Candidates |-> Event("candidate_seeded", i, None, {})]

Init ==
    /\ candidates = [i \in Candidates |-> SeededCandidate]
    /\ step = 0
    /\ phase = "looping"
    /\ stopReason = "none"
    /\ events = SeedEvents
    /\ reviewTriggers = {}
    /\ report = [m \in Claim |-> NoReport]

\* Mutant: one iteration too many.
IteratingOnce == phase = "looping" /\ step <= MaxSteps

Iterating == phase = "looping" /\ step < MaxSteps

Stop(reason) ==
    /\ phase' = "stopped"
    /\ stopReason' = reason
    /\ UNCHANGED <<step, candidates, report>>

\* The events of one iteration up to the proposal of patch p.
ProposalEvents(i, k, p) ==
    <<Event("gap_computed", i, None, {}),
      Event("capability_selected", i, k.name, {}),
      Event("patch_proposed", i, k.name, TouchedMask(p))>>

\* Mutant: one finished candidate ends the loop.
StopConvergedOnFirst ==
    /\ Iterating
    /\ ActiveCandidates # Candidates
    /\ Stop("converged")
    /\ UNCHANGED <<events, reviewTriggers>>

\* No candidate has an active gap: break before anything is recorded.
StopConverged ==
    /\ Iterating
    /\ ActiveCandidates = {}
    /\ Stop("converged")
    /\ UNCHANGED <<events, reviewTriggers>>

StopNoEligible ==
    /\ Iterating
    /\ ActiveCandidates # {}
    /\ Eligible(candidates[Current]) = {}
    /\ Stop("no_eligible_capability")
    /\ events' = events \o <<Event("gap_computed", Current, None, {}),
                             Event("stopped", Current, None, {})>>
    /\ UNCHANGED reviewTriggers

\* Capability k is selected for candidate i: the guard of everything below
\* that happens between the selection and the end of the iteration.
Working(i, k) ==
    /\ Iterating
    /\ ActiveCandidates # {}
    /\ i = Current
    /\ Eligible(candidates[i]) # {}
    /\ k = SelectCapability(candidates[i])

\* An exception of a producer leaves run_convergence_cycle: the board is lost.
ProducerRaises ==
    /\ phase' = "raised"
    /\ UNCHANGED <<candidates, step, stopReason, events, reviewTriggers, report>>

\* Only an empty patch counts as no progress.
StopNoProgress(i, k, p) ==
    /\ TouchedMask(p) = {}
    /\ Stop("no_progress")
    /\ events' = events \o ProposalEvents(i, k, p)
                        \o <<Event("stopped", i, k.name, {})>>
    /\ UNCHANGED reviewTriggers

\* One rejected patch ends the run for every candidate.
RejectPatch(i, k, p) ==
    /\ TouchedMask(p) # {}
    /\ ~ValidPatch(i, candidates[i], p, k)
    /\ Stop("patch_rejected")
    /\ events' = events \o ProposalEvents(i, k, p)
                        \o <<Event("patch_rejected", i, k.name, {})>>
    /\ reviewTriggers' = reviewTriggers \cup {Trigger("patch_rejected", i, 0)}

ApplyPatch(i, k, p) ==
    /\ TouchedMask(p) # {}
    /\ ValidPatch(i, candidates[i], p, k)
    /\ candidates' = [candidates EXCEPT ![i] = AfterPatch(candidates[i], p)]
    /\ events' = events \o ProposalEvents(i, k, p)
                        \o <<Event("patch_applied", i, k.name, TouchedMask(p))>>
    /\ step' = step + 1
    /\ UNCHANGED <<phase, stopReason, reviewTriggers, report>>

\* Mutant: the bound is noticed and the loop goes round without leaving.
StopExhaustedNever ==
    /\ phase = "looping"
    /\ step = MaxSteps
    /\ UNCHANGED vars

\* The for loop's else: also taken when the last step closed the last gap.
StopExhausted ==
    /\ phase = "looping"
    /\ step = MaxSteps
    /\ Stop("max_steps_exhausted")
    /\ UNCHANGED <<events, reviewTriggers>>

\* Conflict detection, the report, then the last event.
Finalize ==
    /\ phase = "stopped"
    /\ phase' = "finalized"
    /\ reviewTriggers' = reviewTriggers \cup ConflictTriggers
    /\ report' = [m \in Claim |-> ClaimReport(m, reviewTriggers')]
    /\ events' = Append(events, Event("finalized", 0, None, {}))
    /\ UNCHANGED <<candidates, step, stopReason>>

\* What the loop does with the answer p of the selected producer.
HandlePatch(i, k, p) ==
    \/ StopNoProgress(i, k, p)
    \/ RejectPatch(i, k, p)
    \/ ApplyPatch(i, k, p)

Control ==
    \/ StopConverged
    \/ StopNoEligible
    \/ StopExhausted
    \/ Finalize

Done == phase \in {"finalized", "raised"}

\* The call has returned or raised.
Returned == Done /\ UNCHANGED vars

-----------------------------------------------------------------------------
(***************************************************************************)
(* Properties.                                                             *)
(***************************************************************************)

\* Every variable has the type its class declares.
TypeOK ==
    /\ candidates \in [Candidates -> Candidate]
    /\ step \in 0 .. MaxSteps
    /\ phase \in {"looping", "stopped", "finalized", "raised"}
    /\ stopReason \in StopReasons
    /\ events \in Seq(EventRecord)
    /\ reviewTriggers \subseteq TriggerRecord
    /\ report \in [Claim -> ClaimReportRecord]

\* Whatever producers propose, no candidate on the board ever leaves the
\* schema or the lattice assigned <= present, normalized <= assigned,
\* aligned <= normalized or directly comparable: validate_patch is the only
\* way in (docs/convergence/03-candidate-mask-state.md, "Lattice invariants").
LatticeInv ==
    \A i \in Candidates :
        CandidateInSchema(candidates[i]) /\ Lattice(candidates[i])

\* No candidate holds a value, or has advanced a slot, without evidence: each
\* raw payload has a source ref, and once any mask bit is set every slot the
\* schema wants sourced is.  It survives overwritten payloads and merged refs.
EvidenceBacked ==
    \A i \in Candidates :
        LET c == candidates[i]
        IN  /\ DOMAIN c.payload \subseteq Sourced(c.refs)
            /\ c.present \cup c.assigned \cup c.normalized \cup c.aligned # {}
                  => ProvenanceComplete(c)

\* The events that applied a patch to candidate i and touched bit b.
AppliedTo(i, b) ==
    {e \in {events[n] : n \in DOMAIN events} :
        e.type = "patch_applied" /\ e.candidate = i /\ b \in e.touched}

\* The capabilities whose applied patches touched it.
AppliedBy(i, b) ==
    {k \in Capabilities : \E e \in AppliedTo(i, b) : e.capability = k.name}

\* The trace accounts for the state: each present, assigned, normalized or
\* aligned bit of a candidate was touched by an applied patch of a capability
\* that is allowed to set that mask there (docs/convergence/04, "Alignment
\* authority rule": authority comes from CapabilitySpec).
TraceExplainsState ==
    \A i \in Candidates :
        LET c == candidates[i]
        IN  /\ \A b \in c.present : \E k \in AppliedBy(i, b) : b \in k.mayPresent
            /\ \A b \in c.assigned : \E k \in AppliedBy(i, b) : b \in k.mayAssigned
            /\ \A b \in c.normalized : \E k \in AppliedBy(i, b) : b \in k.mayNormalized
            /\ \A b \in c.aligned : \E k \in AppliedBy(i, b) : b \in k.mayAligned

\* The patches that were applied, by the places of their events.
AppliedIn(trace) == {n \in DOMAIN trace : trace[n].type = "patch_applied"}

\* The stop reason is true of the board the run stops with: "converged" leaves
\* no candidate with a gap, "no_eligible_capability" leaves one nobody can
\* work on, a rejection leaves exactly its trigger, no other run carries a
\* patch_rejected trigger, and "max_steps_exhausted" is said where MaxSteps
\* patches were applied, never where the run ended for another reason first.
StopReasonSound ==
    phase \in {"stopped", "finalized"} =>
        /\ stopReason # "none"
        /\ stopReason = "converged" => ActiveCandidates = {}
        /\ stopReason = "no_eligible_capability" =>
              \E i \in ActiveCandidates :
                  /\ Eligible(candidates[i]) = {}
                  /\ \A j \in 1 .. i - 1 : j \notin ActiveCandidates
        /\ stopReason = "patch_rejected"
              <=> HasTrigger(reviewTriggers, "patch_rejected")
        /\ stopReason = "max_steps_exhausted"
              <=> Cardinality(AppliedIn(events)) = MaxSteps

\* A schema whose every required slot can reach alignment: it must be aligned,
\* and is compared directly or after normalization.
AlignableSchema ==
    Required \subseteq AlignmentRequired \cap (Comparable \cup DirectlyComparable)

\* Under such a schema the two tests the runner uses agree: a run that stops
\* because no gap is active (compute_candidate_gap) has every candidate
\* supported in the sense of _claim_report (all required slots aligned).
ConvergedMeansSupported ==
    (AlignableSchema /\ stopReason = "converged") =>
        \A i \in Candidates : Supported(candidates[i])

\* A claim is reported converged only with a candidate of its own whose
\* required slots are all aligned, each of them normalized or directly
\* comparable, all provenance in place, and no other candidate of the claim
\* states a different quantity in the same context.
VerdictBacked ==
    \A m \in Claim :
        report[m].convergence = "evidence_converged" =>
            /\ report[m].support \in CandidatesOf(m)
            /\ LET c == candidates[report[m].support]
               IN  /\ Required \subseteq c.aligned
                   /\ Required \subseteq c.normalized \cup DirectlyComparable
                   /\ Required # {} => ProvenanceComplete(c)
                   /\ \A j \in CandidatesOf(m) : ~Conflicting(c, candidates[j])

\* A rejected patch is never silent and never supports anything: after a
\* rejection every claim without a finished candidate asks for review.
RejectionReported ==
    (phase = "finalized" /\ stopReason = "patch_rejected") =>
        \A m \in Claim :
            report[m].support = 0 =>
                /\ report[m].alignment = "not_evaluated"
                /\ report[m].convergence = "needs_review_unresolved_gap"

\* Every run ends: it reports, or a producer raised.
Termination == <>Done

\* The runner implements the contract of a convergence cycle.
VerdictOf(status) ==
    CASE status = "none" -> "none"
      [] status = "evidence_converged" -> "converged"
      [] status = "insufficient_missing_required_slots" -> "insufficient"
      [] OTHER -> "review"

Contract ==
    INSTANCE ConvergenceContract WITH
        Candidate <- Candidates, Slot <- Required, Budget <- MaxSteps,
        settled <- [i \in Candidates |-> candidates[i].aligned \cap Required],
        spent <- step,
        run <- phase,
        verdict <- [m \in Claim |-> VerdictOf(report[m].convergence)]

\* Settled slots stay settled, work is bounded, and each claim is judged
\* exactly once, after the loop, by whether a candidate of its own settled
\* every required slot.
ImplementsContract == Contract!Spec

-----------------------------------------------------------------------------
(***************************************************************************)
(* What the documents say and the code does not do.                        *)
(***************************************************************************)

\* "Candidate readiness", docs/convergence/03-candidate-mask-state.md:374.
Ready(c) ==
    /\ Required \subseteq c.present \cap c.assigned
    /\ Comparable \subseteq c.normalized
    /\ AlignmentRequired \subseteq c.aligned
    /\ ProvenanceComplete(c)
    /\ c.ambiguous = {}

\* "MVP convergence can only pass when selected candidate satisfies these
\* conditions" (docs/convergence/03-candidate-mask-state.md:395); _claim_report
\* selects by aligned_mask alone.
PassOnlyWhenReady ==
    \A m \in Claim :
        report[m].convergence = "evidence_converged" =>
            Ready(candidates[report[m].support])

\* "If two active candidates for the same claim align the same required slot
\* to different values, raise needs_review_due_to_candidate_conflict"
\* (docs/convergence/06-runner-and-report.md:273); _claim_report asks whether
\* any claim of the board has a conflict.
ConflictIsOfTheClaim ==
    \A m \in Claim :
        report[m].convergence = "needs_review_due_to_candidate_conflict" =>
            \E i, j \in CandidatesOf(m) : Conflicting(candidates[i], candidates[j])

=============================================================================
