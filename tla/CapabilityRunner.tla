-------------------------- MODULE CapabilityRunner --------------------------
(***************************************************************************)
(* The capability steps of one document                                    *)
(* (src/evidence_toolchain/runners.py, runtime.py, reports.py): a run      *)
(* state with a queue of pending steps, handed again and again to          *)
(* run_capability_steps with whatever runners are at hand.  A step is kept *)
(* when no runner can run it; otherwise it runs, and a failure selects     *)
(* fallbacks of the plan.  Each action is one pass through a part of the   *)
(* loop body.  A call works on local lists and returns a new state; one    *)
(* that does not return (can_run raised, the process died) leaves the      *)
(* state it was given.                                                     *)
(*                                                                         *)
(* Reasons, outputs and errors are left out, except the source_capability  *)
(* of a fallback.  An event's sequence number is its position: every       *)
(* recorder computes len(events) + 1.                                      *)
(***************************************************************************)
EXTENDS Naturals, FiniteSets, Sequences, Selection

CONSTANTS
    Capability,   \* capability names
    Plans,        \* what the router may answer: [selected, fallbacks]
    Answers,      \* the results a runner of each capability may return
    MaxCalls,     \* bound on the number of calls
    None          \* no source_capability

Plan == [selected : Seq(Capability), fallbacks : Seq(Capability)]

\* Every status but the two that are tested is "completed" here; echo: the
\* outputs name the step's source_capability.
Answer ==
    [capability : Capability,
     status : {"completed", "failed", "review_requested"}, echo : BOOLEAN]

ASSUME RunnerAssumption ==
    /\ Plans \subseteq Plan
    /\ Answers \in [Capability -> SUBSET Answer]
    /\ MaxCalls \in Nat
    /\ None \notin Capability

VARIABLES
    plan,       \* state.plan
    state,      \* the run state the caller holds
    phase,      \* "idle" between calls; "stepping", "running", "recovering"
    current,    \* the state a call has built so far
    todo,       \* the steps the for loop has not finished
    kept,       \* pending
    chosen,     \* selected_fallbacks
    untried,    \* the fallbacks the inner loop has not looked at
    failing,    \* result.capability, while recovering
    calls,      \* calls made
    fullCalls   \* history: successive calls that kept no step, up to 3

locals == <<todo, kept, chosen, untried, failing>>
vars == <<plan, state, phase, current, locals, calls, fullCalls>>

-----------------------------------------------------------------------------
(***************************************************************************)
(* Steps, events, states.                                                  *)
(***************************************************************************)
Step ==
    [capability : Capability, source : Capability \cup {None},
     status : {"pending", "completed", "failed"}]

PendingStep(c, source) == [capability |-> c, source |-> source, status |-> "pending"]

ResultTypes == {"capability_completed", "capability_failed"}

EventTypes ==
    {"document_received", "preflight_completed", "observation_created",
     "plan_created", "capability_started", "fallback_selected",
     "review_requested"} \cup ResultTypes

Payload == [capability : Capability, source : Capability \cup {None}]

EventRecord ==
    [type : EventTypes, capability : Capability \cup {None},
     source : Capability \cup {None}]

Event(type, c, source) == [type |-> type, capability |-> c, source |-> source]

RunState ==
    [completed : Seq(Step), pending : Seq(Step),
     results : Seq([capability : Capability,
                    status : {"completed", "failed", "review_requested"}]),
     interrupts : Seq(Payload), events : Seq(EventRecord)]

InitialEvents ==
    <<Event("document_received", None, None), Event("preflight_completed", None, None),
      Event("observation_created", None, None), Event("plan_created", None, None)>>

\* _pending_capability_steps
PlannedSteps(p) == [n \in DOMAIN p.selected |-> PendingStep(p.selected[n], None)]

Names(steps) == {steps[n].capability : n \in DOMAIN steps}

NamesIn(names) == {names[n] : n \in DOMAIN names}

-----------------------------------------------------------------------------
(***************************************************************************)
(* run_document, then calls of run_capability_steps.                       *)
(***************************************************************************)
Init ==
    /\ plan \in Plans
    /\ state = [completed |-> <<>>, pending |-> PlannedSteps(plan), results |-> <<>>,
                interrupts |-> <<>>, events |-> InitialEvents]
    /\ phase = "idle"
    /\ current = state
    /\ todo = <<>> /\ kept = <<>> /\ chosen = <<>> /\ untried = <<>>
    /\ failing = None
    /\ calls = 0
    /\ fullCalls = 0

\* Mutant: a resumed call starts without the steps already completed.
ResumeAfresh ==
    /\ phase = "idle" /\ calls < MaxCalls
    /\ phase' = "stepping"
    /\ todo' = state.pending
    /\ current' = [state EXCEPT !.completed = <<>>]
    /\ calls' = calls + 1
    /\ UNCHANGED <<plan, state, kept, chosen, untried, failing, fullCalls>>

Resume ==
    /\ phase = "idle" /\ calls < MaxCalls
    /\ phase' = "stepping"
    /\ todo' = state.pending
    /\ current' = state
    /\ calls' = calls + 1
    /\ UNCHANGED <<plan, state, kept, chosen, untried, failing, fullCalls>>

\* Mutant: a kept step is marked as skipped.
KeepSkipped ==
    /\ phase = "stepping" /\ todo # <<>>
    /\ kept' = Append(kept, [Head(todo) EXCEPT !.status = "skipped"])
    /\ todo' = Tail(todo)
    /\ UNCHANGED <<plan, state, phase, current, chosen, untried, failing, calls, fullCalls>>

\* Mutant: a step nobody can run is forgotten.
KeepNothing ==
    /\ phase = "stepping" /\ todo # <<>>
    /\ todo' = Tail(todo)
    /\ UNCHANGED <<plan, state, phase, current, kept, chosen, untried, failing,
                   calls, fullCalls>>

\* can_run is false.
Keep ==
    /\ phase = "stepping" /\ todo # <<>>
    /\ kept' = Append(kept, Head(todo))
    /\ todo' = Tail(todo)
    /\ UNCHANGED <<plan, state, phase, current, chosen, untried, failing, calls, fullCalls>>

\* can_run is true: the runner is called with the state built so far.
Start ==
    /\ phase = "stepping" /\ todo # <<>>
    /\ phase' = "running"
    /\ current' = [current EXCEPT
         !.events = Append(@, Event("capability_started", Head(todo).capability, None))]
    /\ UNCHANGED <<plan, state, locals, calls, fullCalls>>

\* An exception of run becomes a failed result.
AnswersTo(step) ==
    Answers[step.capability]
        \cup {[capability |-> step.capability, status |-> "failed", echo |-> FALSE]}

ResultEvent(a) ==
    Event(IF a.status = "failed" THEN "capability_failed" ELSE "capability_completed",
          a.capability, None)

\* Mutant: the step is completed whatever the result says.
RecordedCompleted(step, a) ==
    [completed |-> Append(current.completed, [step EXCEPT !.status = "completed"]),
     pending |-> kept,
     results |-> Append(current.results,
        [capability |-> a.capability, status |-> a.status]),
     interrupts |-> IF a.status = "review_requested"
        THEN Append(current.interrupts, [capability |-> a.capability,
                    source |-> IF a.echo THEN step.source ELSE None])
        ELSE current.interrupts,
     events |-> Append(current.events, ResultEvent(a))
        \o IF a.status = "review_requested"
           THEN <<Event("review_requested", a.capability,
                        IF a.echo THEN step.source ELSE None)>>
           ELSE <<>>]

\* The state after result a of a step, before fallbacks.
Recorded(step, a) ==
    LET source == IF a.echo THEN step.source ELSE None
        review == a.status = "review_requested"
    IN  [completed |-> Append(current.completed,
           [step EXCEPT !.status = IF a.status = "failed" THEN "failed" ELSE "completed"]),
         pending |-> kept,
         results |-> Append(current.results,
           [capability |-> a.capability, status |-> a.status]),
         interrupts |-> IF review
           THEN Append(current.interrupts, [capability |-> a.capability, source |-> source])
           ELSE current.interrupts,
         events |-> IF review
           THEN Append(Append(current.events, ResultEvent(a)),
                       Event("review_requested", a.capability, source))
           ELSE Append(current.events, ResultEvent(a))]

Succeed(a) ==
    /\ phase = "running" /\ a.status # "failed"
    /\ current' = Recorded(Head(todo), a)
    /\ todo' = Tail(todo)
    /\ phase' = "stepping"
    /\ UNCHANGED <<plan, state, kept, chosen, untried, failing, calls, fullCalls>>

\* The result names the failing capability, not the step.
Fail(a) ==
    /\ phase = "running" /\ a.status = "failed"
    /\ current' = Recorded(Head(todo), a)
    /\ todo' = Tail(todo)
    /\ phase' = "recovering"
    /\ untried' = plan.fallbacks
    /\ failing' = a.capability
    /\ UNCHANGED <<plan, state, kept, chosen, calls, fullCalls>>

\* Mutant: a fallback that has already run may be selected again.
HasCapabilityPending(c) == c \in Names(kept) \cup Names(chosen)

\* _has_capability(pending + completed + selected_fallbacks, fallback): the
\* steps the loop has not come to are not looked at.
HasCapability(c) == c \in Names(kept) \cup Names(current.completed) \cup Names(chosen)

SkipFallback ==
    /\ phase = "recovering" /\ untried # <<>>
    /\ HasCapability(Head(untried))
    /\ untried' = Tail(untried)
    /\ UNCHANGED <<plan, state, phase, current, todo, kept, chosen, failing, calls, fullCalls>>

SelectFallback ==
    /\ phase = "recovering" /\ untried # <<>>
    /\ ~HasCapability(Head(untried))
    /\ chosen' = Append(chosen, PendingStep(Head(untried), failing))
    /\ current' = [current EXCEPT
         !.events = Append(@, Event("fallback_selected", Head(untried), failing))]
    /\ untried' = Tail(untried)
    /\ UNCHANGED <<plan, state, phase, todo, kept, failing, calls, fullCalls>>

Recovered ==
    /\ phase = "recovering" /\ untried = <<>>
    /\ phase' = "stepping"
    /\ failing' = None
    /\ UNCHANGED <<plan, state, current, todo, kept, chosen, untried, calls, fullCalls>>

\* The local lists of a call are gone when it ends.
Forget ==
    /\ phase' = "idle"
    /\ todo' = <<>> /\ kept' = <<>> /\ chosen' = <<>> /\ untried' = <<>>
    /\ failing' = None

\* Mutant: selected fallbacks replace nothing and are lost when steps were kept.
FinishKeptFirst ==
    /\ phase = "stepping" /\ todo = <<>>
    /\ state' = [current EXCEPT !.pending = IF kept = <<>> THEN chosen ELSE kept]
    /\ current' = state'
    /\ fullCalls' = IF kept # <<>> THEN 0 ELSE IF fullCalls = 3 THEN 3 ELSE fullCalls + 1
    /\ Forget
    /\ UNCHANGED <<plan, calls>>

\* The call returns.
Finish ==
    /\ phase = "stepping" /\ todo = <<>>
    /\ state' = [current EXCEPT !.pending = kept \o chosen]
    /\ current' = state'
    /\ fullCalls' = IF kept # <<>> THEN 0 ELSE IF fullCalls = 3 THEN 3 ELSE fullCalls + 1
    /\ Forget
    /\ UNCHANGED <<plan, calls>>

\* Mutant: what a call has done so far is visible to its caller.
AbandonHalfway ==
    /\ phase # "idle"
    /\ state' = current
    /\ current' = current
    /\ Forget
    /\ UNCHANGED <<plan, calls, fullCalls>>

\* can_run raises, run raises what is no Exception, or the process dies.
Abandon ==
    /\ phase # "idle"
    /\ current' = state
    /\ Forget
    /\ UNCHANGED <<plan, state, calls, fullCalls>>

\* The caller does not call again.
Rest == phase = "idle" /\ UNCHANGED vars

Next ==
    \/ Resume
    \/ Keep
    \/ Start
    \/ phase = "running" /\ \E a \in AnswersTo(Head(todo)) : Succeed(a) \/ Fail(a)
    \/ SkipFallback
    \/ SelectFallback
    \/ Recovered
    \/ Finish
    \/ Abandon
    \/ Rest

Spec == Init /\ [][Next]_vars

-----------------------------------------------------------------------------
(***************************************************************************)
(* emit_evidence_report: what to do next.                                  *)
(***************************************************************************)

\* Mutant: pending steps are reported before reviews.
NextActionPendingFirst(s) ==
    IF s.pending # <<>> THEN "run_pending_capabilities"
    ELSE IF s.interrupts # <<>> THEN "manual_review" ELSE "none"

RecommendedNextAction(s) ==
    IF s.interrupts # <<>> THEN "manual_review"
    ELSE IF s.pending # <<>> THEN "run_pending_capabilities" ELSE "none"

-----------------------------------------------------------------------------
(***************************************************************************)
(* Properties.                                                             *)
(***************************************************************************)

\* Every variable has the type its class declares; steps that wait are
\* pending.
TypeOK ==
    /\ plan \in Plans
    /\ state \in RunState /\ current \in RunState
    /\ phase \in {"idle", "stepping", "running", "recovering"}
    /\ todo \in Seq(Step) /\ kept \in Seq(Step) /\ chosen \in Seq(Step)
    /\ \A steps \in {state.pending, todo, kept, chosen} :
          \A n \in DOMAIN steps : steps[n].status = "pending"
    /\ untried \in Seq(Capability)
    /\ failing \in Capability \cup {None}
    /\ calls \in 0 .. MaxCalls
    /\ fullCalls \in 0 .. 3

\* Everything that waits, in whatever list it is at the moment.
Backlog == IF phase = "idle" THEN state.pending ELSE kept \o todo \o chosen

Count(steps, c, source) ==
    Cardinality({n \in DOMAIN steps :
                   steps[n].capability = c /\ steps[n].source = source})

\* Each planned step waits or has run, exactly as often as it was planned,
\* and each further step is a fallback with a fallback_selected event of its
\* own, of the same capability and source: over any number of calls, kept
\* steps and abandoned calls, no step is lost, doubled or unexplained.
WorkConserved ==
    /\ \A c \in Capability :
          Count(current.completed, c, None) + Count(Backlog, c, None)
            = Cardinality({n \in DOMAIN plan.selected : plan.selected[n] = c})
    /\ \A c, source \in Capability :
          Count(current.completed, c, source) + Count(Backlog, c, source)
            = Cardinality({n \in DOMAIN current.events :
                 current.events[n] = Event("fallback_selected", c, source)})

FailedSteps(s) == {n \in DOMAIN s.completed : s.completed[n].status = "failed"}

\* Once a step has failed, every fallback of the plan is pending or has run,
\* in each state a caller gets to hold, whichever calls kept or abandoned
\* what (docs/failure-modes.md, "try allowed fallback if available").
FailureCovered ==
    FailedSteps(state) # {} =>
        NamesIn(plan.fallbacks) \subseteq Names(state.pending) \cup Names(state.completed)

OfTypes(events, types) ==
    Subsequence(events, {n \in DOMAIN events : events[n].type \in types})

Reviews(results) ==
    Subsequence(results, {n \in DOMAIN results : results[n].status = "review_requested"})

\* Steps, results, review requests and events tell one story, also in the
\* state a runner sees in the middle of a call: the result events are the
\* results in order, each answers a started event of its own, the step's
\* status is its result's, and each review_requested result has one interrupt
\* and one event with the same payload.
HistoryAgrees ==
    LET s == current
        resultEvents == OfTypes(s.events, ResultTypes)
        reviewEvents == OfTypes(s.events, {"review_requested"})
        started == OfTypes(s.events, {"capability_started"})
        reviews == Reviews(s.results)
    IN  /\ Len(resultEvents) = Len(s.results) /\ Len(s.completed) = Len(s.results)
        /\ Len(started) = Len(s.results) + (IF phase = "running" THEN 1 ELSE 0)
        /\ \A n \in DOMAIN s.results :
              /\ started[n].capability = s.completed[n].capability
              /\ resultEvents[n].capability = s.results[n].capability
              /\ resultEvents[n].type = "capability_failed"
                    <=> s.completed[n].status = "failed"
              /\ s.completed[n].status = "failed" <=> s.results[n].status = "failed"
        /\ Len(reviewEvents) = Len(reviews) /\ Len(s.interrupts) = Len(reviews)
        /\ \A n \in DOMAIN reviews :
              /\ reviews[n].capability = s.interrupts[n].capability
              /\ reviewEvents[n].capability = s.interrupts[n].capability
              /\ reviewEvents[n].source = s.interrupts[n].source

\* A review asked for at any time is what the report recommends from then on,
\* and a report recommends nothing only when all planned steps and all
\* selected fallbacks have run and nobody asked for a review.
ReportHonest ==
    /\ (\E n \in DOMAIN state.results : state.results[n].status = "review_requested")
          <=> RecommendedNextAction(state) = "manual_review"
    /\ RecommendedNextAction(state) = "none" =>
          /\ NamesIn(plan.selected) \subseteq Names(state.completed)
          /\ \A n \in DOMAIN state.events :
                state.events[n].type = "fallback_selected" =>
                    state.events[n].capability \in Names(state.completed)

IsPrefixOf(s, t) == Len(s) <= Len(t) /\ \A n \in DOMAIN s : t[n] = s[n]

\* What a caller has been told stays told: a later state extends completed
\* steps, results, interrupts and events of the earlier one
\* (docs/orchestration-boundary.md:47, events are append-only).
HistoryKept ==
    [][/\ IsPrefixOf(state.completed, state'.completed)
       /\ IsPrefixOf(state.results, state'.results)
       /\ IsPrefixOf(state.interrupts, state'.interrupts)
       /\ IsPrefixOf(state.events, state'.events)]_vars

\* Resuming comes to an end: three successive calls in which every step can
\* run leave nothing pending, however many of them fail.  Two are not enough
\* when a fallback fails before another that waits behind it.
Drained == fullCalls = 3 => state.pending = <<>>

\* The runner implements the contract: a call is atomic for its caller.
Contract ==
    INSTANCE CapabilityContract WITH
        allowed <- NamesIn(plan.fallbacks),
        todo <- Names(state.pending),
        done <- Names(state.completed),
        failed <- {state.completed[n].capability : n \in FailedSteps(state)}

\* Each call runs some of the pending work, keeps the rest, and adds
\* fallbacks only for a failure, all of them or those not yet there; a call
\* that does not return changes nothing.
ImplementsContract == Contract!Spec

=============================================================================
