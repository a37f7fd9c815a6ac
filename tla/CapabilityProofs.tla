--------------------------- MODULE CapabilityProofs ---------------------------
(***************************************************************************)
(* Theorems about CapabilityRunner, for every router, every set of runners *)
(* and any number of calls.                                                *)
(***************************************************************************)
EXTENDS CapabilityRunner, SelectionProofs, SequenceTheorems, TLAPS

-----------------------------------------------------------------------------
(***************************************************************************)
(* The capability names of sequences of steps.                             *)
(***************************************************************************)

\* An appended step adds its name.
LEMMA NamesAppend ==
    ASSUME NEW s \in Seq(Step), NEW e \in Step
    PROVE  Names(Append(s, e)) = Names(s) \cup {e.capability}
BY AppendProperties, LenProperties DEF Names

\* A nonempty queue holds the name of its head and those of its tail.
LEMMA NamesHeadTail ==
    ASSUME NEW s \in Seq(Step), s # <<>>
    PROVE  /\ Head(s) \in Step /\ Tail(s) \in Seq(Step)
           /\ Names(s) = {Head(s).capability} \cup Names(Tail(s))
<1>1. /\ Head(s) \in Step /\ Tail(s) \in Seq(Step)
      /\ Len(Tail(s)) = Len(s) - 1 /\ Len(s) \in Nat \ {0} /\ Head(s) = s[1]
      /\ DOMAIN s = 1 .. Len(s) /\ DOMAIN Tail(s) = 1 .. Len(s) - 1
      /\ \A i \in 1 .. Len(s) - 1 : Tail(s)[i] = s[i + 1]
    BY HeadTailProperties, LenProperties, EmptySeq
<1>2. \A n \in 1 .. Len(s) : n = 1 \/ (n - 1 \in 1 .. Len(s) - 1 /\ s[n] = Tail(s)[n - 1])
    <2> TAKE n \in 1 .. Len(s)
    <2> SUFFICES ASSUME n # 1 PROVE n - 1 \in 1 .. Len(s) - 1 /\ s[n] = Tail(s)[n - 1]
        OBVIOUS
    <2>1. n - 1 \in 1 .. Len(s) - 1 /\ (n - 1) + 1 = n
        BY <1>1
    <2> QED BY <2>1, <1>1
<1>3. Names(s) \subseteq {Head(s).capability} \cup Names(Tail(s))
    <2> SUFFICES ASSUME NEW n \in 1 .. Len(s)
                 PROVE s[n].capability \in {Head(s).capability} \cup Names(Tail(s))
        BY <1>1 DEF Names
    <2>1. CASE n = 1
        BY <1>1, <2>1
    <2>2. CASE n - 1 \in 1 .. Len(s) - 1 /\ s[n] = Tail(s)[n - 1]
        BY <1>1, <2>2 DEF Names
    <2> QED BY <1>2, <2>1, <2>2
<1>4. \A i \in 1 .. Len(s) - 1 : i + 1 \in 1 .. Len(s)
    BY <1>1
<1>5. 1 \in 1 .. Len(s)
    BY <1>1
<1>6. {Head(s).capability} \cup Names(Tail(s)) \subseteq Names(s)
    BY <1>1, <1>4, <1>5 DEF Names
<1> QED BY <1>1, <1>3, <1>6

\* Concatenation joins the names.
LEMMA NamesConcat ==
    ASSUME NEW s \in Seq(Step), NEW t \in Seq(Step)
    PROVE  Names(s \o t) = Names(s) \cup Names(t)
<1>1. /\ DOMAIN s = 1 .. Len(s) /\ DOMAIN t = 1 .. Len(t) /\ Len(s) \in Nat /\ Len(t) \in Nat
      /\ DOMAIN (s \o t) = 1 .. Len(s) + Len(t)
      /\ \A i \in 1 .. Len(s) + Len(t) :
            (s \o t)[i] = IF i <= Len(s) THEN s[i] ELSE t[i - Len(s)]
    BY ConcatProperties, LenProperties
<1>2. Names(s \o t) \subseteq Names(s) \cup Names(t)
    <2> SUFFICES ASSUME NEW i \in 1 .. Len(s) + Len(t)
                 PROVE (s \o t)[i].capability \in Names(s) \cup Names(t)
        BY <1>1 DEF Names
    <2>1. CASE i <= Len(s)
        <3>1. i \in 1 .. Len(s)
            BY <1>1, <2>1
        <3> QED BY <1>1, <2>1, <3>1 DEF Names
    <2>2. CASE ~(i <= Len(s))
        <3>1. i - Len(s) \in 1 .. Len(t)
            BY <1>1, <2>2
        <3> QED BY <1>1, <2>2, <3>1 DEF Names
    <2> QED BY <2>1, <2>2
<1>3. Names(s) \subseteq Names(s \o t)
    <2> SUFFICES ASSUME NEW i \in 1 .. Len(s)
                 PROVE s[i].capability \in Names(s \o t)
        BY <1>1 DEF Names
    <2>1. i \in 1 .. Len(s) + Len(t) /\ (s \o t)[i] = s[i]
        BY <1>1
    <2> QED BY <1>1, <2>1 DEF Names
<1>4. Names(t) \subseteq Names(s \o t)
    <2> SUFFICES ASSUME NEW i \in 1 .. Len(t)
                 PROVE t[i].capability \in Names(s \o t)
        BY <1>1 DEF Names
    <2>1. /\ i + Len(s) \in 1 .. Len(s) + Len(t)
          /\ ~(i + Len(s) <= Len(s)) /\ (i + Len(s)) - Len(s) = i
        BY <1>1
    <2>2. (s \o t)[i + Len(s)] = t[i]
        BY <1>1, <2>1
    <2> QED BY <1>1, <2>1, <2>2 DEF Names
<1> QED BY <1>2, <1>3, <1>4

\* The empty list names nothing, and only it.
LEMMA NamesEmpty ==
    ASSUME NEW s \in Seq(Step)
    PROVE  Names(s) = {} <=> s = <<>>
<1>1. s # <<>> => Names(s) # {}
    BY NamesHeadTail
<1>2. Names(<<>>) = {}
    BY DEF Names
<1> QED BY <1>1, <1>2

\* The same for lists of bare names, such as a plan's fallbacks.
LEMMA NamesInHeadTail ==
    ASSUME NEW s \in Seq(Capability), s # <<>>
    PROVE  /\ Head(s) \in Capability /\ Tail(s) \in Seq(Capability)
           /\ NamesIn(s) = {Head(s)} \cup NamesIn(Tail(s))
<1>1. /\ Head(s) \in Capability /\ Tail(s) \in Seq(Capability)
      /\ Len(Tail(s)) = Len(s) - 1 /\ Len(s) \in Nat \ {0} /\ Head(s) = s[1]
      /\ DOMAIN s = 1 .. Len(s) /\ DOMAIN Tail(s) = 1 .. Len(s) - 1
      /\ \A i \in 1 .. Len(s) - 1 : Tail(s)[i] = s[i + 1]
    BY HeadTailProperties, LenProperties, EmptySeq
<1>2. \A n \in 1 .. Len(s) : n = 1 \/ (n - 1 \in 1 .. Len(s) - 1 /\ s[n] = Tail(s)[n - 1])
    <2> TAKE n \in 1 .. Len(s)
    <2> SUFFICES ASSUME n # 1 PROVE n - 1 \in 1 .. Len(s) - 1 /\ s[n] = Tail(s)[n - 1]
        OBVIOUS
    <2>1. n - 1 \in 1 .. Len(s) - 1 /\ (n - 1) + 1 = n
        BY <1>1
    <2> QED BY <2>1, <1>1
<1>3. NamesIn(s) \subseteq {Head(s)} \cup NamesIn(Tail(s))
    <2> SUFFICES ASSUME NEW n \in 1 .. Len(s)
                 PROVE s[n] \in {Head(s)} \cup NamesIn(Tail(s))
        BY <1>1 DEF NamesIn
    <2>1. CASE n = 1
        BY <1>1, <2>1
    <2>2. CASE n - 1 \in 1 .. Len(s) - 1 /\ s[n] = Tail(s)[n - 1]
        BY <1>1, <2>2 DEF NamesIn
    <2> QED BY <1>2, <2>1, <2>2
<1>4. \A i \in 1 .. Len(s) - 1 : i + 1 \in 1 .. Len(s)
    BY <1>1
<1>5. 1 \in 1 .. Len(s)
    BY <1>1
<1>6. {Head(s)} \cup NamesIn(Tail(s)) \subseteq NamesIn(s)
    BY <1>1, <1>4, <1>5 DEF NamesIn
<1> QED BY <1>1, <1>3, <1>6

-----------------------------------------------------------------------------
(***************************************************************************)
(* Types.                                                                  *)
(***************************************************************************)
AllPending(steps) == \A n \in DOMAIN steps : steps[n].status = "pending"

\* A queue of pending steps stays one when its head leaves or a step joins.
LEMMA PendingTail ==
    ASSUME NEW s \in Seq(Step), s # <<>>, AllPending(s)
    PROVE  /\ Head(s) \in Step /\ Tail(s) \in Seq(Step)
           /\ Head(s).status = "pending" /\ AllPending(Tail(s))
<1>1. /\ Head(s) \in Step /\ Tail(s) \in Seq(Step)
      /\ Len(Tail(s)) = Len(s) - 1 /\ Len(s) \in Nat \ {0} /\ Head(s) = s[1]
      /\ DOMAIN s = 1 .. Len(s) /\ DOMAIN Tail(s) = 1 .. Len(s) - 1
      /\ \A i \in 1 .. Len(s) - 1 : Tail(s)[i] = s[i + 1]
    BY HeadTailProperties, LenProperties, EmptySeq
<1>2. 1 \in 1 .. Len(s) /\ \A i \in 1 .. Len(s) - 1 : i + 1 \in 1 .. Len(s)
    BY <1>1
<1> QED BY <1>1, <1>2 DEF AllPending

\* Steps stay pending when a pending one is appended ...
LEMMA PendingAppend ==
    ASSUME NEW s \in Seq(Step), AllPending(s), NEW e \in Step, e.status = "pending"
    PROVE  Append(s, e) \in Seq(Step) /\ AllPending(Append(s, e))
BY AppendProperties, LenProperties DEF AllPending

\* ... or several are.
LEMMA PendingConcat ==
    ASSUME NEW s \in Seq(Step), AllPending(s), NEW t \in Seq(Step), AllPending(t)
    PROVE  s \o t \in Seq(Step) /\ AllPending(s \o t)
<1>1. /\ s \o t \in Seq(Step)
      /\ DOMAIN s = 1 .. Len(s) /\ DOMAIN t = 1 .. Len(t) /\ Len(s) \in Nat /\ Len(t) \in Nat
      /\ DOMAIN (s \o t) = 1 .. Len(s) + Len(t)
      /\ \A i \in 1 .. Len(s) + Len(t) :
            (s \o t)[i] = IF i <= Len(s) THEN s[i] ELSE t[i - Len(s)]
    BY ConcatProperties, LenProperties
<1>2. \A i \in 1 .. Len(s) + Len(t) :
         IF i <= Len(s) THEN i \in 1 .. Len(s) ELSE i - Len(s) \in 1 .. Len(t)
    BY <1>1
<1> QED BY <1>1, <1>2 DEF AllPending

\* The plan's steps are pending and carry its names.
LEMMA PlannedStepsType ==
    ASSUME NEW p \in Plan
    PROVE  /\ PlannedSteps(p) \in Seq(Step) /\ AllPending(PlannedSteps(p))
<1>1. p.selected \in Seq(Capability) /\ Len(p.selected) \in Nat
      /\ DOMAIN p.selected = 1 .. Len(p.selected)
      /\ \A n \in 1 .. Len(p.selected) : p.selected[n] \in Capability
    BY LenProperties DEF Plan
<1>2. \A n \in 1 .. Len(p.selected) : PendingStep(p.selected[n], None) \in Step
    BY <1>1 DEF PendingStep, Step
<1>3. PlannedSteps(p) \in [1 .. Len(p.selected) -> Step]
    BY <1>1, <1>2 DEF PlannedSteps
<1>4. PlannedSteps(p) \in Seq(Step)
    BY <1>1, <1>3, SeqDef
<1> QED BY <1>1, <1>4 DEF PlannedSteps, AllPending, PendingStep

\* An answer is an Answer, a raised exception included.
LEMMA AnswersType ==
    ASSUME NEW step \in Step, NEW a \in AnswersTo(step)
    PROVE  a \in Answer
<1>1. step.capability \in Capability
    BY DEF Step
<1>2. Answers[step.capability] \subseteq Answer
    BY <1>1, RunnerAssumption
<1>3. [capability |-> step.capability, status |-> "failed", echo |-> FALSE] \in Answer
    BY <1>1 DEF Answer
<1> QED BY <1>2, <1>3 DEF AnswersTo

\* Recording a result extends each history by what the result calls for.
LEMMA RecordedType ==
    ASSUME current \in RunState, kept \in Seq(Step),
           NEW step \in Step, NEW a \in Answer
    PROVE  Recorded(step, a) \in RunState
<1> DEFINE source == IF a.echo THEN step.source ELSE None
           done == [step EXCEPT
                      !.status = IF a.status = "failed" THEN "failed" ELSE "completed"]
<1>1. source \in Capability \cup {None} /\ a.capability \in Capability
    BY DEF Answer, Step
<1>2. done \in Step
    BY DEF Step
<1>3. Append(current.completed, done) \in Seq(Step)
    BY <1>2, AppendProperties DEF RunState
<1>4. Append(current.results, [capability |-> a.capability, status |-> a.status])
        \in Seq([capability : Capability,
                 status : {"completed", "failed", "review_requested"}])
    BY AppendProperties DEF RunState, Answer
<1>5. Append(current.interrupts, [capability |-> a.capability, source |-> source])
        \in Seq(Payload)
    BY <1>1, AppendProperties DEF RunState, Payload
<1>6. ResultEvent(a) \in EventRecord
      /\ Event("review_requested", a.capability, source) \in EventRecord
    BY <1>1 DEF ResultEvent, Event, EventRecord, EventTypes, ResultTypes
<1>7. Append(current.events, ResultEvent(a)) \in Seq(EventRecord)
    BY <1>6, AppendProperties DEF RunState
<1>8. Append(Append(current.events, ResultEvent(a)),
             Event("review_requested", a.capability, source)) \in Seq(EventRecord)
    BY <1>6, <1>7, AppendProperties
<1> HIDE DEF source, done
<1> QED BY <1>3, <1>4, <1>5, <1>7, <1>8 DEF Recorded, RunState, source, done

Queues ==
    /\ AllPending(state.pending) /\ AllPending(todo)
    /\ AllPending(kept) /\ AllPending(chosen)

\* TypeOK with the queues' statuses under a name.
Typed ==
    /\ plan \in Plans
    /\ state \in RunState /\ current \in RunState
    /\ phase \in {"idle", "stepping", "running", "recovering"}
    /\ todo \in Seq(Step) /\ kept \in Seq(Step) /\ chosen \in Seq(Step)
    /\ Queues
    /\ untried \in Seq(Capability)
    /\ failing \in Capability \cup {None}
    /\ phase = "recovering" => failing \in Capability
    /\ phase = "running" => todo # <<>>
    /\ calls \in 0 .. MaxCalls
    /\ fullCalls \in 0 .. 3

LEMMA TypedIsTypeOK == Typed => TypeOK
BY DEF Typed, TypeOK, Queues, AllPending

LEMMA TypedInit == Init => Typed
<1> SUFFICES ASSUME Init PROVE Typed
    OBVIOUS
<1>1. plan \in Plan
    BY RunnerAssumption DEF Init
<1>2. PlannedSteps(plan) \in Seq(Step) /\ AllPending(PlannedSteps(plan))
    BY <1>1, PlannedStepsType
<1>3. <<>> \in Seq(Step) /\ <<>> \in Seq(Capability) /\ AllPending(<<>>)
    BY DEF AllPending
<1>4. InitialEvents \in Seq(EventRecord)
    BY DEF InitialEvents, Event, EventRecord, EventTypes, ResultTypes
<1>5. state \in RunState
    BY <1>2, <1>4 DEF Init, RunState
<1> QED BY <1>2, <1>3, <1>5, RunnerAssumption DEF Init, Typed, Queues

LEMMA TypedStep == Typed /\ [Next]_vars => Typed'
<1> SUFFICES ASSUME Typed, [Next]_vars PROVE Typed'
    OBVIOUS
<1> USE RunnerAssumption DEF Typed, Queues
<1>0. AllPending(<<>>) /\ <<>> \in Seq(Step) /\ <<>> \in Seq(Capability)
    BY DEF AllPending
<1>1. CASE Resume
    <2>1. calls' \in 0 .. MaxCalls
        BY <1>1 DEF Resume
    <2>2. state.pending \in Seq(Step)
        BY DEF RunState
    <2> QED BY <1>1, <2>1, <2>2 DEF Resume
<1>2. CASE Keep
    <2>1. /\ Head(todo) \in Step /\ Tail(todo) \in Seq(Step)
          /\ Head(todo).status = "pending" /\ AllPending(Tail(todo))
        BY <1>2, PendingTail DEF Keep
    <2>2. kept' \in Seq(Step) /\ AllPending(kept')
        BY <1>2, <2>1, PendingAppend DEF Keep
    <2> QED BY <1>2, <2>1, <2>2 DEF Keep
<1>3. CASE Start
    <2>1. Head(todo) \in Step
        BY <1>3, PendingTail DEF Start
    <2>2. Event("capability_started", Head(todo).capability, None) \in EventRecord
        BY <2>1 DEF Event, EventRecord, EventTypes, Step
    <2>3. Append(current.events, Event("capability_started", Head(todo).capability, None))
            \in Seq(EventRecord)
        BY <2>2, AppendProperties DEF RunState
    <2>4. current' \in RunState
        BY <1>3, <2>3 DEF Start, RunState
    <2> QED BY <1>3, <2>4 DEF Start, locals
<1>4. ASSUME phase = "running", NEW a \in AnswersTo(Head(todo)), Succeed(a) \/ Fail(a)
      PROVE Typed'
    <2>1. /\ Head(todo) \in Step /\ Tail(todo) \in Seq(Step) /\ AllPending(Tail(todo))
        BY <1>4, PendingTail
    <2>2. a \in Answer
        BY <1>4, <2>1, AnswersType
    <2>3. Recorded(Head(todo), a) \in RunState
        BY <2>1, <2>2, RecordedType
    <2>4. plan.fallbacks \in Seq(Capability)
        BY DEF Plan
    <2>5. a.capability \in Capability
        BY <2>2 DEF Answer
    <2>6. CASE Succeed(a)
        BY <2>1, <2>3, <2>6 DEF Succeed
    <2>7. CASE Fail(a)
        BY <2>1, <2>3, <2>4, <2>5, <2>7 DEF Fail
    <2> QED BY <1>4, <2>6, <2>7
<1>5. CASE SkipFallback
    BY <1>5, NamesInHeadTail DEF SkipFallback
<1>6. CASE SelectFallback
    <2>1. Head(untried) \in Capability /\ Tail(untried) \in Seq(Capability)
        BY <1>6, NamesInHeadTail DEF SelectFallback
    <2>2. failing \in Capability
        BY <1>6 DEF SelectFallback
    <2>3. PendingStep(Head(untried), failing) \in Step
          /\ PendingStep(Head(untried), failing).status = "pending"
        BY <2>1, <2>2 DEF PendingStep, Step
    <2>4. chosen' \in Seq(Step) /\ AllPending(chosen')
        BY <1>6, <2>3, PendingAppend DEF SelectFallback
    <2>5. Event("fallback_selected", Head(untried), failing) \in EventRecord
        BY <2>1, <2>2 DEF Event, EventRecord, EventTypes
    <2>6. Append(current.events, Event("fallback_selected", Head(untried), failing))
            \in Seq(EventRecord)
        BY <2>5, AppendProperties DEF RunState
    <2>7. current' \in RunState
        BY <1>6, <2>6 DEF SelectFallback, RunState
    <2> QED BY <1>6, <2>1, <2>4, <2>7 DEF SelectFallback
<1>7. CASE Recovered
    BY <1>7 DEF Recovered
<1>8. CASE Finish
    <2>1. kept \o chosen \in Seq(Step) /\ AllPending(kept \o chosen)
        BY PendingConcat
    <2>2. state' \in RunState /\ state'.pending = kept \o chosen
        BY <1>8, <2>1 DEF Finish, RunState
    <2>3. fullCalls' \in 0 .. 3
        BY <1>8 DEF Finish
    <2> QED BY <1>0, <1>8, <2>1, <2>2, <2>3 DEF Finish, Forget
<1>9. CASE Abandon
    BY <1>0, <1>9 DEF Abandon, Forget
<1>10. CASE Rest \/ UNCHANGED vars
    BY <1>10 DEF Rest, vars, locals
<1> QED
    BY <1>1, <1>2, <1>3, <1>4, <1>5, <1>6, <1>7, <1>8, <1>9, <1>10 DEF Next

\* Steps, results, interrupts and events keep the types of their classes and
\* what waits is pending, through any number of calls.
THEOREM TypeCorrect == Spec => []TypeOK
<1>1. Spec => []Typed
    BY TypedInit, TypedStep, PTL DEF Spec
<1> QED BY <1>1, TypedIsTypeOK, PTL

-----------------------------------------------------------------------------
(***************************************************************************)
(* What a call has done so far, in terms of the state it was given.        *)
(***************************************************************************)

\* Histories grow at their ends.
Extends ==
    /\ IsPrefixOf(state.completed, current.completed)
    /\ IsPrefixOf(state.results, current.results)
    /\ IsPrefixOf(state.interrupts, current.interrupts)
    /\ IsPrefixOf(state.events, current.events)

\* The positions of the steps this call has run.
RanAt == Len(state.completed) + 1 .. Len(current.completed)

Ran == {current.completed[n].capability : n \in RanAt}

BadAt == {n \in RanAt : current.completed[n].status = "failed"}

Fallbacks == NamesIn(plan.fallbacks)

\* Between calls there is no local state.
AtRest ==
    /\ phase = "idle" =>
          current = state /\ todo = <<>> /\ kept = <<>> /\ chosen = <<>>
    /\ phase # "recovering" => untried = <<>>

\* During a call the pending steps are split into those run, kept and to do;
\* fallbacks are chosen from the plan and only after a failure of this call.
Split ==
    phase # "idle" =>
        /\ Names(state.pending) = Ran \cup Names(kept) \cup Names(todo)
        /\ Names(chosen) \subseteq Fallbacks
        /\ NamesIn(untried) \subseteq Fallbacks
        /\ chosen # <<>> => BadAt # {}
        /\ phase = "recovering" => BadAt # {}

\* A failure on record leaves no fallback out, but for those the inner loop
\* is still to look at.
Covered ==
    FailedSteps(current) # {} =>
        Fallbacks \subseteq
            UNION {NamesIn(untried), Names(todo), Names(kept), Names(chosen),
                   Names(current.completed),
                   IF phase = "idle" THEN Names(state.pending) ELSE {}}

\* A prefix of a sequence is one of the sequence appended to.
LEMMA PrefixAppend ==
    ASSUME NEW S, NEW s \in Seq(S), NEW t \in Seq(S), NEW e \in S, IsPrefixOf(s, t)
    PROVE  IsPrefixOf(s, Append(t, e))
<1>1. /\ Len(s) \in Nat /\ Len(t) \in Nat /\ DOMAIN s = 1 .. Len(s)
      /\ Len(Append(t, e)) = Len(t) + 1
      /\ \A i \in 1 .. Len(t) : Append(t, e)[i] = t[i]
    BY AppendProperties, LenProperties
<1>2. \A n \in 1 .. Len(s) : n \in 1 .. Len(t)
    BY <1>1 DEF IsPrefixOf
<1> QED BY <1>1, <1>2 DEF IsPrefixOf

\* Recording a result appends one step, of the same capability, to completed.
LEMMA RecordedEffect ==
    ASSUME current \in RunState, kept \in Seq(Step), NEW step \in Step, NEW a \in Answer
    PROVE  LET c == Recorded(step, a).completed
           IN  /\ Len(c) = Len(current.completed) + 1
               /\ \A n \in 1 .. Len(current.completed) : c[n] = current.completed[n]
               /\ c[Len(current.completed) + 1].capability = step.capability
               /\ c[Len(current.completed) + 1].status
                    = IF a.status = "failed" THEN "failed" ELSE "completed"
               /\ Names(c) = Names(current.completed) \cup {step.capability}
<1> DEFINE done == [step EXCEPT
                      !.status = IF a.status = "failed" THEN "failed" ELSE "completed"]
<1>1. /\ done \in Step /\ done.capability = step.capability
      /\ done.status = IF a.status = "failed" THEN "failed" ELSE "completed"
    BY DEF Step
<1>2. current.completed \in Seq(Step)
    BY DEF RunState
<1>3. Recorded(step, a).completed = Append(current.completed, done)
    BY DEF Recorded
<1> HIDE DEF done
<1>4. Names(Append(current.completed, done)) = Names(current.completed) \cup {done.capability}
    BY <1>1, <1>2, NamesAppend
<1> QED BY <1>1, <1>2, <1>3, <1>4, AppendProperties

\* Recording a result extends all four histories.
LEMMA RecordedExtends ==
    ASSUME state \in RunState, current \in RunState, kept \in Seq(Step),
           NEW step \in Step, NEW a \in Answer, Extends
    PROVE  LET r == Recorded(step, a)
           IN  /\ IsPrefixOf(state.completed, r.completed)
               /\ IsPrefixOf(state.results, r.results)
               /\ IsPrefixOf(state.interrupts, r.interrupts)
               /\ IsPrefixOf(state.events, r.events)
<1> DEFINE Result == [capability : Capability,
                      status : {"completed", "failed", "review_requested"}]
           source == IF a.echo THEN step.source ELSE None
           done == [step EXCEPT
                      !.status = IF a.status = "failed" THEN "failed" ELSE "completed"]
<1>1. /\ state.completed \in Seq(Step) /\ current.completed \in Seq(Step)
      /\ state.results \in Seq(Result) /\ current.results \in Seq(Result)
      /\ state.interrupts \in Seq(Payload) /\ current.interrupts \in Seq(Payload)
      /\ state.events \in Seq(EventRecord) /\ current.events \in Seq(EventRecord)
    BY DEF RunState
<1>2. source \in Capability \cup {None} /\ a.capability \in Capability /\ done \in Step
    BY DEF Answer, Step
<1>3. /\ [capability |-> a.capability, status |-> a.status] \in Result
      /\ [capability |-> a.capability, source |-> source] \in Payload
      /\ ResultEvent(a) \in EventRecord
      /\ Event("review_requested", a.capability, source) \in EventRecord
    BY <1>2 DEF Answer, Payload, ResultEvent, Event, EventRecord, EventTypes, ResultTypes
<1>4. Recorded(step, a).completed = Append(current.completed, done)
    BY DEF Recorded
<1>5. IsPrefixOf(state.completed, Recorded(step, a).completed)
    <2> HIDE DEF done
    <2> QED BY <1>1, <1>2, <1>4, PrefixAppend DEF Extends
<1>6. IsPrefixOf(state.results, Recorded(step, a).results)
    <2> DEFINE result == [capability |-> a.capability, status |-> a.status]
    <2>1. Recorded(step, a).results = Append(current.results, result)
        BY DEF Recorded
    <2>2. result \in Result
        BY <1>3
    <2> HIDE DEF Result, result
    <2>3. IsPrefixOf(state.results, Append(current.results, result))
        BY <1>1, <2>2, PrefixAppend DEF Extends
    <2> QED BY <2>1, <2>3
<1>7. IsPrefixOf(state.interrupts, Recorded(step, a).interrupts)
    <2>1. Recorded(step, a).interrupts \in
            {current.interrupts,
             Append(current.interrupts, [capability |-> a.capability, source |-> source])}
        BY DEF Recorded
    <2>2. IsPrefixOf(state.interrupts,
            Append(current.interrupts, [capability |-> a.capability, source |-> source]))
        BY <1>1, <1>3, PrefixAppend DEF Extends
    <2> QED BY <2>1, <2>2 DEF Extends
<1>8. IsPrefixOf(state.events, Recorded(step, a).events)
    <2>1. Recorded(step, a).events \in
            {Append(current.events, ResultEvent(a)),
             Append(Append(current.events, ResultEvent(a)),
                    Event("review_requested", a.capability, source))}
        BY DEF Recorded
    <2>2. /\ Append(current.events, ResultEvent(a)) \in Seq(EventRecord)
          /\ IsPrefixOf(state.events, Append(current.events, ResultEvent(a)))
        BY <1>1, <1>3, PrefixAppend, AppendProperties DEF Extends
    <2>3. IsPrefixOf(state.events,
            Append(Append(current.events, ResultEvent(a)),
                   Event("review_requested", a.capability, source)))
        BY <1>1, <1>3, <2>2, PrefixAppend
    <2> QED BY <2>1, <2>2, <2>3
<1> QED BY <1>5, <1>6, <1>7, <1>8

\* A step that joins the histories of the call joins Ran, and BadAt if it failed.
LEMMA RanAfterRecord ==
    ASSUME Typed, Extends, NEW step \in Step, NEW a \in Answer,
           current' = Recorded(step, a), state' = state
    PROVE  /\ Ran' = Ran \cup {step.capability}
           /\ BadAt \subseteq BadAt'
           /\ a.status = "failed" => BadAt' # {}
           /\ a.status # "failed" => BadAt' = BadAt
           /\ a.status # "failed" => FailedSteps(current') = FailedSteps(current)
           /\ Names(current.completed)' = Names(current.completed) \cup {step.capability}
<1> DEFINE k == Len(current.completed)
           j == Len(state.completed)
<1>1. /\ j \in Nat /\ k \in Nat /\ j <= k /\ DOMAIN current.completed = 1 .. k
    BY LenProperties DEF Typed, RunState, Extends, IsPrefixOf
<1>2. /\ Len(current'.completed) = k + 1
      /\ \A n \in 1 .. k : current'.completed[n] = current.completed[n]
      /\ current'.completed[k + 1].capability = step.capability
      /\ current'.completed[k + 1].status
           = IF a.status = "failed" THEN "failed" ELSE "completed"
      /\ Names(current'.completed) = Names(current.completed) \cup {step.capability}
    BY RecordedEffect DEF Typed
<1>3. RanAt' = RanAt \cup {k + 1} /\ RanAt \subseteq 1 .. k /\ k + 1 \in RanAt'
    BY <1>1, <1>2 DEF RanAt
<1>4. Ran' = Ran \cup {step.capability}
    BY <1>2, <1>3 DEF Ran
<1>5. /\ BadAt \subseteq BadAt'
      /\ a.status = "failed" => BadAt' # {}
      /\ a.status # "failed" => BadAt' = BadAt
    BY <1>2, <1>3 DEF BadAt
<1>6. DOMAIN current'.completed = 1 .. k + 1
    <2>1. current'.completed \in Seq(Step)
        BY RecordedType DEF Typed, RunState
    <2> QED BY <1>2, <2>1, LenProperties
<1>7. a.status # "failed" => FailedSteps(current') = FailedSteps(current)
    BY <1>1, <1>2, <1>6 DEF FailedSteps
<1> QED BY <1>2, <1>4, <1>5, <1>7

-----------------------------------------------------------------------------
(***************************************************************************)
(* The invariant of a call.                                                *)
(***************************************************************************)
CallInv == Typed /\ Extends /\ AtRest /\ Split /\ Covered /\ FailureCovered

\* Results come only from a running step, whose answer is typed.
LEMMA RunningStep ==
    ASSUME Typed, phase = "running", NEW a \in AnswersTo(Head(todo))
    PROVE  /\ todo # <<>> /\ Head(todo) \in Step /\ a \in Answer
           /\ Names(todo) = {Head(todo).capability} \cup Names(Tail(todo))
<1>1. todo # <<>> /\ todo \in Seq(Step)
    BY DEF Typed
<1>2. Head(todo) \in Step /\ Names(todo) = {Head(todo).capability} \cup Names(Tail(todo))
    BY <1>1, NamesHeadTail
<1> QED BY <1>1, <1>2, AnswersType

LEMMA CallInit == Init => CallInv
<1> SUFFICES ASSUME Init PROVE CallInv
    OBVIOUS
<1>1. Typed
    BY TypedInit
<1>2. Extends
    BY DEF Init, Extends, IsPrefixOf
<1>3. AtRest /\ Split
    BY DEF Init, AtRest, Split
<1>4. FailedSteps(state) = {} /\ current = state
    BY DEF Init, FailedSteps
<1> QED BY <1>1, <1>2, <1>3, <1>4 DEF CallInv, Covered, FailureCovered

LEMMA ExtendsStep == CallInv /\ [Next]_vars => Extends'
<1> SUFFICES ASSUME CallInv, [Next]_vars PROVE Extends'
    OBVIOUS
<1>0. Typed /\ Extends /\ state \in RunState /\ current \in RunState
    BY DEF CallInv, Typed
<1>1. CASE Resume \/ Finish \/ Abandon
    BY <1>1, <1>0 DEF Resume, Finish, Abandon, Extends, IsPrefixOf
<1>2. CASE Keep \/ SkipFallback \/ Recovered \/ Rest \/ UNCHANGED vars
    BY <1>2, <1>0 DEF Keep, SkipFallback, Recovered, Rest, vars, Extends
<1>3. CASE Start \/ SelectFallback
    <2>1. PICK e \in EventRecord : current' = [current EXCEPT !.events = Append(@, e)]
        <3>1. CASE Start
            <4>1. Head(todo) \in Step
                BY <1>0, <3>1, NamesHeadTail DEF Start, Typed
            <4>2. Event("capability_started", Head(todo).capability, None) \in EventRecord
                BY <4>1 DEF Event, EventRecord, EventTypes, Step
            <4> QED BY <3>1, <4>2 DEF Start
        <3>2. CASE SelectFallback
            <4>1. Head(untried) \in Capability /\ failing \in Capability
                BY <1>0, <3>2, NamesInHeadTail DEF SelectFallback, Typed
            <4>2. Event("fallback_selected", Head(untried), failing) \in EventRecord
                BY <4>1 DEF Event, EventRecord, EventTypes
            <4> QED BY <3>2, <4>2 DEF SelectFallback
        <3> QED BY <1>3, <3>1, <3>2
    <2>2. /\ state.events \in Seq(EventRecord) /\ current.events \in Seq(EventRecord)
          /\ IsPrefixOf(state.events, current.events)
        BY <1>0 DEF RunState, Extends
    <2>3. IsPrefixOf(state.events, Append(current.events, e))
        BY <2>2, PrefixAppend
    <2>4. /\ current'.completed = current.completed /\ current'.results = current.results
          /\ current'.interrupts = current.interrupts
          /\ current'.events = Append(current.events, e)
        BY <1>0, <2>1 DEF RunState
    <2>5. state' = state
        BY <1>3 DEF Start, SelectFallback
    <2> QED BY <1>0, <2>3, <2>4, <2>5 DEF Extends
<1>4. ASSUME phase = "running", NEW a \in AnswersTo(Head(todo)), Succeed(a) \/ Fail(a)
      PROVE Extends'
    <2>1. current' = Recorded(Head(todo), a) /\ state' = state
        BY <1>4 DEF Succeed, Fail
    <2>2. Head(todo) \in Step /\ a \in Answer
        BY <1>0, <1>4, RunningStep
    <2>3. kept \in Seq(Step)
        BY <1>0 DEF Typed
    <2> QED BY <1>0, <2>1, <2>2, <2>3, RecordedExtends DEF Extends
<1> QED BY <1>1, <1>2, <1>3, <1>4 DEF Next

LEMMA AtRestStep == CallInv /\ [Next]_vars => AtRest'
<1> SUFFICES ASSUME CallInv, [Next]_vars PROVE AtRest'
    OBVIOUS
<1> USE DEF CallInv, AtRest
<1>1. CASE Resume
    BY <1>1 DEF Resume
<1>2. CASE Keep
    BY <1>2 DEF Keep
<1>3. CASE Start
    BY <1>3 DEF Start, locals
<1>4. ASSUME phase = "running", NEW a \in AnswersTo(Head(todo)), Succeed(a) \/ Fail(a)
      PROVE AtRest'
    BY <1>4 DEF Succeed, Fail
<1>5. CASE SkipFallback \/ SelectFallback \/ Recovered
    BY <1>5 DEF SkipFallback, SelectFallback, Recovered
<1>6. CASE Finish \/ Abandon
    BY <1>6 DEF Finish, Abandon, Forget
<1>7. CASE Rest \/ UNCHANGED vars
    BY <1>7 DEF Rest, vars, locals
<1> QED BY <1>1, <1>2, <1>3, <1>4, <1>5, <1>6, <1>7 DEF Next

LEMMA SplitStep == CallInv /\ [Next]_vars => Split'
<1> SUFFICES ASSUME CallInv, [Next]_vars PROVE Split'
    OBVIOUS
<1>0. /\ Typed /\ Extends /\ AtRest /\ Split
      /\ state \in RunState /\ current \in RunState
      /\ todo \in Seq(Step) /\ kept \in Seq(Step) /\ chosen \in Seq(Step)
      /\ untried \in Seq(Capability)
    BY DEF CallInv, Typed
<1>1. CASE Resume
    <2>1. /\ current = state /\ kept = <<>> /\ chosen = <<>> /\ untried = <<>>
          /\ current' = state /\ state' = state /\ todo' = state.pending
          /\ kept' = kept /\ chosen' = chosen /\ untried' = untried /\ phase' = "stepping"
        BY <1>0, <1>1 DEF Resume, AtRest
    <2>2. Len(state.completed) \in Nat
        BY <1>0, LenProperties DEF RunState
    <2>3. Ran' = {}
        BY <2>1, <2>2 DEF Ran, RanAt
    <2>4. Names(kept') = {} /\ Names(chosen') = {} /\ NamesIn(untried') = {}
        BY <2>1 DEF Names, NamesIn
    <2> QED BY <2>1, <2>3, <2>4 DEF Split
<1>2. CASE Keep
    <2>1. /\ Head(todo) \in Step
          /\ Names(todo) = {Head(todo).capability} \cup Names(Tail(todo))
        BY <1>0, <1>2, NamesHeadTail DEF Keep
    <2>2. Names(kept') = Names(kept) \cup {Head(todo).capability}
        BY <1>0, <1>2, <2>1, NamesAppend DEF Keep
    <2>3. UNCHANGED <<plan, state, current, phase, chosen, untried>> /\ todo' = Tail(todo)
        BY <1>2 DEF Keep
    <2>4. Ran' = Ran /\ BadAt' = BadAt /\ Fallbacks' = Fallbacks
        BY <2>3 DEF Ran, RanAt, BadAt, Fallbacks
    <2> QED BY <1>0, <1>2, <2>1, <2>2, <2>3, <2>4 DEF Split, Keep
<1>3. CASE Start
    <2>1. /\ current'.completed = current.completed
          /\ UNCHANGED <<plan, state, todo, kept, chosen, untried>>
          /\ phase = "stepping" /\ phase' = "running"
        BY <1>0, <1>3 DEF Start, locals, RunState
    <2>2. Ran' = Ran /\ BadAt' = BadAt /\ Fallbacks' = Fallbacks
        BY <2>1 DEF Ran, RanAt, BadAt, Fallbacks
    <2> QED BY <1>0, <2>1, <2>2 DEF Split
<1>4. ASSUME phase = "running", NEW a \in AnswersTo(Head(todo)), Succeed(a) \/ Fail(a)
      PROVE Split'
    <2>1. /\ Head(todo) \in Step /\ a \in Answer
          /\ Names(todo) = {Head(todo).capability} \cup Names(Tail(todo))
        BY <1>0, <1>4, RunningStep
    <2>2. /\ current' = Recorded(Head(todo), a) /\ todo' = Tail(todo)
          /\ UNCHANGED <<plan, state, kept, chosen>>
        BY <1>4 DEF Succeed, Fail
    <2>3. /\ Ran' = Ran \cup {Head(todo).capability}
          /\ BadAt \subseteq BadAt'
          /\ a.status = "failed" => BadAt' # {}
        BY <1>0, <2>1, <2>2, RanAfterRecord
    <2>4. Names(state'.pending) = Ran' \cup Names(kept') \cup Names(todo')
        BY <1>0, <1>4, <2>1, <2>2, <2>3 DEF Split
    <2>5. Fallbacks' = Fallbacks
        BY <2>2 DEF Fallbacks
    <2>6. NamesIn(untried') \subseteq Fallbacks
        <3>1. CASE Succeed(a)
            BY <1>0, <1>4, <3>1 DEF Succeed, Split
        <3>2. CASE Fail(a)
            BY <3>2 DEF Fail, Fallbacks
        <3> QED BY <1>4, <3>1, <3>2
    <2>7. phase' = "recovering" => BadAt' # {}
        BY <1>4, <2>3 DEF Succeed, Fail
    <2> QED BY <1>0, <1>4, <2>2, <2>3, <2>4, <2>5, <2>6, <2>7 DEF Split
<1>5. CASE SkipFallback
    <2>1. /\ Head(untried) \in NamesIn(untried)
          /\ NamesIn(Tail(untried)) \subseteq NamesIn(untried)
        BY <1>0, <1>5, NamesInHeadTail DEF SkipFallback
    <2>2. /\ UNCHANGED <<plan, state, current, phase, todo, kept, chosen>>
          /\ untried' = Tail(untried) /\ phase = "recovering"
        BY <1>5 DEF SkipFallback
    <2>3. Ran' = Ran /\ BadAt' = BadAt /\ Fallbacks' = Fallbacks
        BY <2>2 DEF Ran, RanAt, BadAt, Fallbacks
    <2> QED BY <1>0, <2>1, <2>2, <2>3 DEF Split
<1>6. CASE SelectFallback
    <2>1. /\ Head(untried) \in Capability /\ failing \in Capability
          /\ Head(untried) \in NamesIn(untried)
          /\ NamesIn(Tail(untried)) \subseteq NamesIn(untried)
        BY <1>0, <1>6, NamesInHeadTail DEF SelectFallback, Typed
    <2>2. PendingStep(Head(untried), failing) \in Step
          /\ PendingStep(Head(untried), failing).capability = Head(untried)
        BY <2>1 DEF PendingStep, Step
    <2>3. Names(chosen') = Names(chosen) \cup {Head(untried)}
        BY <1>0, <1>6, <2>2, NamesAppend DEF SelectFallback
    <2>4. /\ current'.completed = current.completed
          /\ UNCHANGED <<plan, state, phase, todo, kept>>
          /\ untried' = Tail(untried) /\ phase = "recovering"
        BY <1>0, <1>6 DEF SelectFallback, RunState
    <2>5. Ran' = Ran /\ BadAt' = BadAt /\ Fallbacks' = Fallbacks
        BY <2>4 DEF Ran, RanAt, BadAt, Fallbacks
    <2> QED BY <1>0, <2>1, <2>3, <2>4, <2>5 DEF Split
<1>7. CASE Recovered
    <2>1. UNCHANGED <<plan, state, current, todo, kept, chosen, untried>>
          /\ phase = "recovering" /\ phase' = "stepping"
        BY <1>7 DEF Recovered
    <2>2. Ran' = Ran /\ BadAt' = BadAt /\ Fallbacks' = Fallbacks
        BY <2>1 DEF Ran, RanAt, BadAt, Fallbacks
    <2> QED BY <1>0, <2>1, <2>2 DEF Split
<1>8. CASE Finish \/ Abandon
    BY <1>8 DEF Finish, Abandon, Forget, Split
<1>9. CASE Rest \/ UNCHANGED vars
    <2>1. UNCHANGED <<plan, state, phase, current, todo, kept, chosen, untried>>
        BY <1>9 DEF Rest, vars, locals
    <2> QED BY <1>0, <2>1 DEF Split, Ran, RanAt, BadAt, Fallbacks
<1> QED BY <1>1, <1>2, <1>3, <1>4, <1>5, <1>6, <1>7, <1>8, <1>9 DEF Next

LEMMA CoveredStep == CallInv /\ [Next]_vars => Covered'
<1> SUFFICES ASSUME CallInv, [Next]_vars PROVE Covered'
    OBVIOUS
<1>0. /\ Typed /\ AtRest /\ Covered /\ FailureCovered
      /\ state \in RunState /\ current \in RunState
      /\ todo \in Seq(Step) /\ kept \in Seq(Step) /\ chosen \in Seq(Step)
      /\ untried \in Seq(Capability)
    BY DEF CallInv, Typed
<1>1. CASE Resume
    BY <1>0, <1>1 DEF Resume, AtRest, Covered, Fallbacks, FailedSteps
<1>2. CASE Keep
    <2>1. /\ Head(todo) \in Step
          /\ Names(todo) = {Head(todo).capability} \cup Names(Tail(todo))
        BY <1>0, <1>2, NamesHeadTail DEF Keep
    <2>2. Names(kept') = Names(kept) \cup {Head(todo).capability}
        BY <1>0, <1>2, <2>1, NamesAppend DEF Keep
    <2>3. UNCHANGED <<plan, current, phase, chosen, untried>> /\ todo' = Tail(todo)
          /\ phase = "stepping"
        BY <1>2 DEF Keep
    <2> QED BY <1>0, <2>1, <2>2, <2>3 DEF Covered, Fallbacks
<1>3. CASE Start
    <2>1. /\ current'.completed = current.completed
          /\ UNCHANGED <<plan, todo, kept, chosen, untried>>
          /\ phase = "stepping" /\ phase' = "running"
        BY <1>0, <1>3 DEF Start, locals, RunState
    <2> QED BY <1>0, <2>1 DEF Covered, Fallbacks, FailedSteps
<1>4. ASSUME phase = "running", NEW a \in AnswersTo(Head(todo)), Succeed(a)
      PROVE Covered'
    <2>1. /\ Head(todo) \in Step /\ a \in Answer
          /\ Names(todo) = {Head(todo).capability} \cup Names(Tail(todo))
        BY <1>0, <1>4, RunningStep
    <2>2. /\ current' = Recorded(Head(todo), a) /\ todo' = Tail(todo)
          /\ UNCHANGED <<plan, state, kept, chosen, untried>>
          /\ a.status # "failed" /\ phase' = "stepping"
        BY <1>4 DEF Succeed
    <2>3. /\ FailedSteps(current') = FailedSteps(current)
          /\ Names(current'.completed)
               = Names(current.completed) \cup {Head(todo).capability}
        BY <2>1, <2>2, RanAfterRecord DEF CallInv
    <2> QED BY <1>0, <1>4, <2>1, <2>2, <2>3 DEF Covered, Fallbacks
<1>5. ASSUME NEW a, Fail(a) PROVE Covered'
    <2>1. NamesIn(untried') = Fallbacks'
        BY <1>5 DEF Fail, Fallbacks
    <2> QED BY <2>1 DEF Covered
<1>6. CASE SkipFallback
    <2>1. NamesIn(untried) = {Head(untried)} \cup NamesIn(Tail(untried))
        BY <1>0, <1>6, NamesInHeadTail DEF SkipFallback
    <2>2. /\ UNCHANGED <<plan, current, phase, todo, kept, chosen>>
          /\ untried' = Tail(untried) /\ phase = "recovering"
          /\ Head(untried) \in Names(kept) \cup Names(current.completed) \cup Names(chosen)
        BY <1>6 DEF SkipFallback, HasCapability
    <2> QED BY <1>0, <2>1, <2>2 DEF Covered, Fallbacks
<1>7. CASE SelectFallback
    <2>1. /\ Head(untried) \in Capability /\ failing \in Capability
          /\ NamesIn(untried) = {Head(untried)} \cup NamesIn(Tail(untried))
        BY <1>0, <1>7, NamesInHeadTail DEF SelectFallback, Typed
    <2>2. PendingStep(Head(untried), failing) \in Step
          /\ PendingStep(Head(untried), failing).capability = Head(untried)
        BY <2>1 DEF PendingStep, Step
    <2>3. Names(chosen') = Names(chosen) \cup {Head(untried)}
        BY <1>0, <1>7, <2>2, NamesAppend DEF SelectFallback
    <2>4. /\ current'.completed = current.completed
          /\ UNCHANGED <<plan, phase, todo, kept>>
          /\ untried' = Tail(untried) /\ phase = "recovering"
        BY <1>0, <1>7 DEF SelectFallback, RunState
    <2> QED BY <1>0, <2>1, <2>3, <2>4 DEF Covered, Fallbacks, FailedSteps
<1>8. CASE Recovered
    <2>1. UNCHANGED <<plan, current, todo, kept, chosen, untried>>
          /\ phase = "recovering" /\ phase' = "stepping"
        BY <1>8 DEF Recovered
    <2> QED BY <1>0, <2>1 DEF Covered, Fallbacks
<1>9. CASE Finish
    <2>1. /\ phase = "stepping" /\ phase' = "idle" /\ todo = <<>> /\ untried = <<>>
          /\ current'.completed = current.completed /\ plan' = plan
          /\ state'.pending = kept \o chosen
        BY <1>0, <1>9 DEF Finish, Forget, RunState, AtRest
    <2>2. Names(state'.pending) = Names(kept) \cup Names(chosen)
        BY <1>0, <2>1, NamesConcat
    <2>3. Names(todo) = {} /\ NamesIn(untried) = {}
        BY <2>1 DEF Names, NamesIn
    <2> QED BY <1>0, <2>1, <2>2, <2>3 DEF Covered, Fallbacks, FailedSteps
<1>10. CASE Abandon
    BY <1>0, <1>10 DEF Abandon, Forget, Covered, FailureCovered, Fallbacks
<1>11. CASE Rest \/ UNCHANGED vars
    <2>1. UNCHANGED <<plan, state, phase, current, todo, kept, chosen, untried>>
        BY <1>11 DEF Rest, vars, locals
    <2> QED BY <1>0, <2>1 DEF Covered, Fallbacks
<1> QED
    BY <1>1, <1>2, <1>3, <1>4, <1>5, <1>6, <1>7, <1>8, <1>9, <1>10, <1>11 DEF Next

\* Only Finish and the initial state write what the caller holds.
LEMMA StateChange ==
    ASSUME [Next]_vars
    PROVE  /\ plan' = plan
           /\ Finish \/ (state' = state
                /\ (fullCalls' = fullCalls))
<1> USE DEF vars, locals
<1>1. ASSUME NEW a, Succeed(a) \/ Fail(a) PROVE UNCHANGED <<plan, state, fullCalls>>
    BY <1>1 DEF Succeed, Fail
<1>2. Finish => plan' = plan
    BY DEF Finish
<1>3. (Resume \/ Keep \/ Start \/ SkipFallback \/ SelectFallback \/ Recovered \/ Abandon
        \/ Rest \/ UNCHANGED vars) => UNCHANGED <<plan, state, fullCalls>>
    BY DEF Resume, Keep, Start, SkipFallback, SelectFallback, Recovered, Abandon, Rest
<1> QED BY <1>1, <1>2, <1>3 DEF Next

LEMMA FailureCoveredStep == CallInv /\ [Next]_vars => FailureCovered'
<1> SUFFICES ASSUME CallInv, [Next]_vars PROVE FailureCovered'
    OBVIOUS
<1>1. CASE Finish
    <2>1. Covered' /\ AtRest'
        BY CoveredStep, AtRestStep
    <2>2. phase' = "idle" /\ todo' = <<>> /\ kept' = <<>> /\ chosen' = <<>>
          /\ untried' = <<>> /\ current' = state'
        BY <1>1 DEF Finish, Forget
    <2>3. Names(todo') = {} /\ Names(kept') = {} /\ Names(chosen') = {}
          /\ NamesIn(untried') = {}
        BY <2>2 DEF Names, NamesIn
    <2> QED BY <2>1, <2>2, <2>3 DEF Covered, FailureCovered, Fallbacks
<1>2. CASE state' = state
    BY <1>2, StateChange DEF FailureCovered, CallInv
<1> QED BY <1>1, <1>2, StateChange

LEMMA CallStep == CallInv /\ [Next]_vars => CallInv'
BY TypedStep, ExtendsStep, AtRestStep, SplitStep, CoveredStep, FailureCoveredStep
   DEF CallInv

\* Once a step has failed, every fallback of the plan is pending or done in
\* each state a caller holds.
THEOREM FailureTheorem == Spec => []FailureCovered
<1>1. CallInv => FailureCovered
    BY DEF CallInv
<1> QED BY <1>1, CallInit, CallStep, PTL DEF Spec

\* Each step leaves the state the caller holds alone or extends it.
LEMMA HistoryStep ==
    CallInv /\ [Next]_vars =>
        /\ IsPrefixOf(state.completed, state'.completed)
        /\ IsPrefixOf(state.results, state'.results)
        /\ IsPrefixOf(state.interrupts, state'.interrupts)
        /\ IsPrefixOf(state.events, state'.events)
<1> SUFFICES ASSUME CallInv, [Next]_vars
             PROVE  /\ IsPrefixOf(state.completed, state'.completed)
                    /\ IsPrefixOf(state.results, state'.results)
                    /\ IsPrefixOf(state.interrupts, state'.interrupts)
                    /\ IsPrefixOf(state.events, state'.events)
    OBVIOUS
<1>1. CASE Finish
    <2>1. /\ state'.completed = current.completed /\ state'.results = current.results
          /\ state'.interrupts = current.interrupts /\ state'.events = current.events
        BY <1>1 DEF Finish, CallInv, Typed, RunState
    <2> QED BY <2>1 DEF CallInv, Extends
<1>2. CASE state' = state
    <2>1. /\ Len(state.completed) \in Nat /\ Len(state.results) \in Nat
          /\ Len(state.interrupts) \in Nat /\ Len(state.events) \in Nat
        BY LenProperties DEF CallInv, Typed, RunState
    <2> QED BY <1>2, <2>1 DEF IsPrefixOf
<1> QED BY <1>1, <1>2, StateChange

\* What a caller has been told stays told: completed steps, results,
\* interrupts and events only grow at their ends.
THEOREM HistoryTheorem == Spec => HistoryKept
<1>1. Spec => []CallInv
    BY CallInit, CallStep, PTL DEF Spec
<1> QED BY <1>1, HistoryStep, PTL DEF Spec, HistoryKept

-----------------------------------------------------------------------------
(***************************************************************************)
(* Resuming comes to an end.                                               *)
(***************************************************************************)

\* One call that keeps nothing leaves only fallbacks of failures; after two,
\* a failure has had all its fallbacks run, so a third chooses none.
DrainInv ==
    /\ (fullCalls >= 1 /\ FailedSteps(state) = {}) => state.pending = <<>>
    /\ (fullCalls >= 2 /\ FailedSteps(state) # {}) =>
          Fallbacks \subseteq Names(state.completed)
    /\ fullCalls = 3 => state.pending = <<>>
    /\ (phase # "idle" /\ fullCalls >= 2) => chosen = <<>>

\* Steps completed before the call are completed in the state being built,
\* and failures are those before and those of the call.
LEMMA Before ==
    ASSUME CallInv
    PROVE  /\ Names(state.completed) \subseteq Names(current.completed)
           /\ Ran \subseteq Names(current.completed)
           /\ FailedSteps(current) = FailedSteps(state) \cup BadAt
<1> DEFINE j == Len(state.completed)
           k == Len(current.completed)
<1>1. /\ j \in Nat /\ k \in Nat /\ j <= k
      /\ DOMAIN state.completed = 1 .. j /\ DOMAIN current.completed = 1 .. k
      /\ \A n \in 1 .. j : current.completed[n] = state.completed[n]
    BY LenProperties DEF CallInv, Typed, RunState, Extends, IsPrefixOf
<1>2. 1 .. k = 1 .. j \cup RanAt /\ 1 .. j \subseteq 1 .. k /\ RanAt \subseteq 1 .. k
    BY <1>1 DEF RanAt
<1> QED BY <1>1, <1>2 DEF Names, Ran, BadAt, FailedSteps

LEMMA DrainStep == CallInv /\ DrainInv /\ [Next]_vars => DrainInv'
<1> SUFFICES ASSUME CallInv, DrainInv, [Next]_vars PROVE DrainInv'
    OBVIOUS
<1>0. /\ fullCalls \in 0 .. 3 /\ Typed /\ AtRest /\ Split /\ FailureCovered
      /\ state \in RunState /\ current \in RunState
    BY DEF CallInv, Typed
<1>1. CASE Finish
    <2>1. /\ todo = <<>> /\ phase = "stepping" /\ phase' = "idle" /\ plan' = plan
          /\ state'.pending = kept \o chosen
          /\ state'.completed = current.completed
          /\ kept # <<>> => fullCalls' = 0
        BY <1>0, <1>1 DEF Finish, Forget, RunState
    <2>2. CASE kept # <<>>
        BY <2>1, <2>2 DEF DrainInv
    <2>3. CASE kept = <<>>
        <3>1. fullCalls' >= 2 => fullCalls >= 1
            BY <1>0, <1>1, <2>3 DEF Finish
        <3>2. fullCalls' = 3 => fullCalls >= 2
            BY <1>0, <1>1, <2>3 DEF Finish
        <3>3. state'.pending = chosen
            BY <2>1, <2>3, ConcatEmptySeq DEF CallInv, Typed
        <3>4. Names(state.pending) = Ran
            BY <1>0, <2>1, <2>3 DEF Split, Names
        <3>5. FailedSteps(state') = FailedSteps(current)
            BY <2>1 DEF FailedSteps
        <3>6. FailedSteps(state') = {} => state'.pending = <<>>
            BY <1>0, <2>1, <3>3, <3>5, Before DEF Split
        <3>7. (fullCalls' >= 2 /\ FailedSteps(state') # {}) =>
                  Fallbacks' \subseteq Names(state'.completed)
            <4> SUFFICES ASSUME fullCalls' >= 2, FailedSteps(state') # {}
                         PROVE  Fallbacks \subseteq Names(current.completed)
                BY <2>1 DEF Fallbacks
            <4>1. FailedSteps(state) # {}
                <5> SUFFICES ASSUME FailedSteps(state) = {} PROVE FALSE
                    OBVIOUS
                <5>1. state.pending = <<>>
                    BY <3>1 DEF DrainInv
                <5>2. Ran = {}
                    BY <3>4, <5>1 DEF Names
                <5>3. BadAt = {}
                    BY <5>2 DEF Ran, BadAt
                <5> QED BY <3>5, <5>3, Before
            <4>2. Fallbacks \subseteq Names(state.pending) \cup Names(state.completed)
                BY <1>0, <4>1 DEF FailureCovered, Fallbacks
            <4> QED BY <3>4, <4>2, Before
        <3>8. fullCalls' = 3 => state'.pending = <<>>
            BY <2>1, <3>2, <3>3 DEF DrainInv
        <3> QED BY <2>1, <3>6, <3>7, <3>8 DEF DrainInv
    <2> QED BY <2>2, <2>3
<1>2. CASE SelectFallback
    <2>1. /\ UNCHANGED <<plan, state, fullCalls, phase>> /\ phase = "recovering"
          /\ Head(untried) \notin Names(current.completed)
        BY <1>2 DEF SelectFallback, HasCapability
    <2>2. Head(untried) \in Fallbacks
        <3>1. Head(untried) \in NamesIn(untried)
            BY <1>2, NamesInHeadTail DEF SelectFallback, CallInv, Typed
        <3> QED BY <1>0, <2>1, <3>1 DEF Split
    <2>3. ~(fullCalls >= 2)
        <3> SUFFICES ASSUME fullCalls >= 2 PROVE FALSE
            OBVIOUS
        <3>1. CASE FailedSteps(state) # {}
            BY <2>1, <2>2, <3>1, Before DEF DrainInv
        <3>2. CASE FailedSteps(state) = {}
            <4>1. state.pending = <<>>
                BY <1>0, <3>2 DEF DrainInv
            <4>2. Ran = {}
                BY <1>0, <2>1, <4>1 DEF Split, Names
            <4>3. BadAt = {}
                BY <4>2 DEF Ran, BadAt
            <4> QED BY <1>0, <2>1, <4>3 DEF Split
        <3> QED BY <3>1, <3>2
    <2> QED BY <2>1, <2>3 DEF DrainInv, Fallbacks, FailedSteps
<1>3. CASE /\ UNCHANGED <<plan, state, fullCalls>>
           /\ phase' = "idle" \/ chosen' = chosen
           /\ phase # "idle" \/ phase' = "idle" \/ chosen' = <<>>
    BY <1>3 DEF DrainInv, Fallbacks, FailedSteps
<1>4. ASSUME NEW a, phase = "running", Succeed(a) \/ Fail(a)
      PROVE  /\ UNCHANGED <<plan, state, fullCalls>>
             /\ chosen' = chosen
    BY <1>4 DEF Succeed, Fail
<1>5. CASE Resume
    BY <1>0, <1>3, <1>5 DEF Resume, AtRest
<1>6. CASE Keep \/ SkipFallback \/ Recovered \/ Abandon
    BY <1>3, <1>6 DEF Keep, SkipFallback, Recovered, Abandon, Forget
<1>7. CASE Start \/ Rest \/ UNCHANGED vars
    <2>1. UNCHANGED <<plan, state, fullCalls, chosen>>
          /\ (phase # "idle" \/ phase' = phase)
        BY <1>7 DEF Start, Rest, vars, locals
    <2> QED BY <1>0, <1>3, <2>1 DEF AtRest
<1> QED BY <1>1, <1>2, <1>3, <1>4, <1>5, <1>6, <1>7 DEF Next

\* Three successive calls in which every step can run leave nothing pending.
THEOREM DrainTheorem == Spec => []Drained
<1>1. Init => DrainInv
    BY DEF Init, DrainInv
<1>2. DrainInv => Drained
    BY DEF DrainInv, Drained
<1> QED BY <1>1, <1>2, CallInit, CallStep, DrainStep, PTL DEF Spec

-----------------------------------------------------------------------------
(***************************************************************************)
(* The runner implements CapabilityContract.                               *)
(***************************************************************************)
FailedNames == {state.completed[n].capability : n \in FailedSteps(state)}

BadNames == {current.completed[n].capability : n \in BadAt}

\* A planned document is an initial state of the contract.
LEMMA ContractInit == Init => Contract!Init
<1> SUFFICES ASSUME Init PROVE Contract!Init
    OBVIOUS
<1>1. plan \in Plan
    BY RunnerAssumption DEF Init
<1>2. NamesIn(plan.fallbacks) \in SUBSET Capability
    BY <1>1, LenProperties DEF Plan, NamesIn
<1>3. state.pending \in Seq(Step)
    BY TypedInit DEF Typed, RunState
<1>4. Names(state.pending) \in SUBSET Capability
    <2>1. \A n \in DOMAIN state.pending : state.pending[n] \in Step
        BY <1>3, LenProperties
    <2> QED BY <2>1 DEF Names, Step
<1>5. state.completed = <<>>
    BY DEF Init
<1>6. Names(state.completed) = {} /\ FailedSteps(state) = {}
    BY <1>5 DEF Names, FailedSteps
<1> QED BY <1>2, <1>4, <1>6 DEF Contract!Init

\* A call that returns is one Call of the contract, with what it ran, kept and
\* chose.
LEMMA ContractCall ==
    ASSUME CallInv, Finish, FailureCovered'
    PROVE  Contract!Call
<1>1. /\ phase = "stepping" /\ todo = <<>> /\ plan' = plan
      /\ state'.pending = kept \o chosen /\ state'.completed = current.completed
    BY DEF Finish, CallInv, Typed, RunState
<1>2. /\ Names(state.pending) = Ran \cup Names(kept)
      /\ Names(chosen) \subseteq Fallbacks
      /\ chosen # <<>> => BadAt # {}
    <2>1. Names(todo) = {}
        BY <1>1 DEF Names
    <2> QED BY <1>1, <2>1 DEF CallInv, Split
<1>3. Names(state'.pending) = Names(kept) \cup Names(chosen)
    BY <1>1, NamesConcat DEF CallInv, Typed
<1>4. /\ Names(state'.completed) = Names(state.completed) \cup Ran
      /\ FailedNames' = FailedNames \cup BadNames
    <2> DEFINE j == Len(state.completed)
               k == Len(current.completed)
    <2>1. /\ j \in Nat /\ k \in Nat /\ j <= k
          /\ DOMAIN state.completed = 1 .. j /\ DOMAIN current.completed = 1 .. k
          /\ \A n \in 1 .. j : current.completed[n] = state.completed[n]
        BY LenProperties DEF CallInv, Typed, RunState, Extends, IsPrefixOf
    <2>2. 1 .. k = 1 .. j \cup RanAt
        BY <2>1 DEF RanAt
    <2>3. Names(current.completed) = Names(state.completed) \cup Ran
        BY <2>1, <2>2 DEF Names, Ran
    <2>4. FailedSteps(state') = FailedSteps(state) \cup BadAt
        BY <1>1, Before DEF FailedSteps
    <2>5. \A n \in FailedSteps(state) : state'.completed[n] = state.completed[n]
        BY <1>1, <2>1 DEF FailedSteps
    <2>6. FailedNames' = FailedNames \cup BadNames
        BY <1>1, <2>4, <2>5 DEF FailedNames, BadNames
    <2> QED BY <1>1, <2>3, <2>6
<1>5. BadNames \subseteq Ran
    BY DEF BadNames, BadAt, Ran
<1>6. BadNames = {} => Names(chosen) = {}
    <2>1. BadNames = {} => BadAt = {}
        BY DEF BadNames
    <2> QED BY <1>2, <2>1 DEF Names
<1>7. FailedNames' # {} => Fallbacks \subseteq Names(state'.pending) \cup Names(state'.completed)
    BY <1>1 DEF FailedNames, FailureCovered, Fallbacks
<1>8. \E ran, keep \in SUBSET Names(state.pending), added \in SUBSET Fallbacks :
        \E bad \in SUBSET ran :
            /\ Names(state.pending) \subseteq ran \cup keep
            /\ bad = {} => added = {}
            /\ Names(state'.pending) = keep \cup added
            /\ Names(state'.completed) = Names(state.completed) \cup ran
            /\ FailedNames' = FailedNames \cup bad
            /\ FailedNames' # {} =>
                  Fallbacks \subseteq Names(state'.pending) \cup Names(state'.completed)
            /\ Fallbacks' = Fallbacks
    <2>1. Ran \in SUBSET Names(state.pending) /\ Names(kept) \in SUBSET Names(state.pending)
        BY <1>2
    <2>2. Names(chosen) \in SUBSET Fallbacks /\ BadNames \in SUBSET Ran
        BY <1>2, <1>5
    <2>3. Names(state.pending) \subseteq Ran \cup Names(kept)
        BY <1>2
    <2>4. Fallbacks' = Fallbacks
        BY <1>1 DEF Fallbacks
    <2> HIDE DEF Ran, BadNames, Fallbacks, FailedNames
    <2> QED BY <2>1, <2>2, <2>3, <2>4, <1>3, <1>4, <1>6, <1>7
<1> QED BY <1>8 DEF Contract!Call, Fallbacks, FailedNames

\* Every step is a call of the contract or invisible to the caller.
LEMMA ContractStep == CallInv /\ [Next]_vars => [Contract!Call]_(Contract!vars)
<1> SUFFICES ASSUME CallInv, [Next]_vars PROVE [Contract!Call]_(Contract!vars)
    OBVIOUS
<1>1. CASE Finish
    BY <1>1, ContractCall, FailureCoveredStep
<1>2. CASE state' = state
    <2>1. plan' = plan
        BY StateChange
    <2> QED BY <1>2, <2>1 DEF Contract!vars, FailedSteps
<1> QED BY <1>1, <1>2, StateChange

\* A call takes effect as a whole or not at all: it runs some of the pending
\* work, keeps the rest, and adds fallbacks only for a failure and then all of
\* them that are not yet there.
THEOREM ContractTheorem == Spec => ImplementsContract
<1> QED
    BY ContractInit, ContractStep, CallInit, CallStep, PTL
       DEF Spec, ImplementsContract, Contract!Spec

-----------------------------------------------------------------------------
(***************************************************************************)
(* No step is lost, doubled or unexplained.                                *)
(***************************************************************************)
Source == Capability \cup {None}

StepsOf(c, source) == {e \in Step : e.capability = c /\ e.source = source}

SelectedEvent(c, source) == Event("fallback_selected", c, source)

\* How many steps the plan and the events on record account for.
Owed(events, c, source) ==
    IF source = None THEN Occurrences(plan.selected, {c})
    ELSE Occurrences(events, {SelectedEvent(c, source)})

\* The steps that have run and those that wait are those accounted for.
Balanced(completed, waiting, events) ==
    \A c \in Capability, source \in Source :
        Count(completed, c, source) + Count(waiting, c, source) = Owed(events, c, source)

\* A call that is abandoned falls back on the caller's state, so both states
\* have to be balanced.
Balance ==
    /\ Balanced(state.completed, state.pending, state.events)
    /\ Balanced(current.completed, Backlog, current.events)

\* Counting steps is counting occurrences.
LEMMA CountSteps ==
    ASSUME NEW s \in Seq(Step), NEW c, NEW source
    PROVE  /\ Count(s, c, source) = Occurrences(s, StepsOf(c, source))
           /\ Count(s, c, source) \in Nat
<1>1. \A n \in DOMAIN s : s[n] \in Step
    BY LenProperties
<1>2. {n \in DOMAIN s : s[n].capability = c /\ s[n].source = source}
        = {n \in DOMAIN s : s[n] \in StepsOf(c, source)}
    BY <1>1 DEF StepsOf
<1>3. Count(s, c, source) = Occurrences(s, StepsOf(c, source))
    BY <1>2 DEF Count, Occurrences
<1> QED BY <1>3, OccurrencesType

\* 1 for the steps counted.
One(step, c, source) == IF step.capability = c /\ step.source = source THEN 1 ELSE 0

\* An appended step counts by itself ...
LEMMA CountAppend ==
    ASSUME NEW s \in Seq(Step), NEW e \in Step, NEW c, NEW source
    PROVE  Count(Append(s, e), c, source) = Count(s, c, source) + One(e, c, source)
<1>1. Append(s, e) \in Seq(Step)
    BY AppendProperties
<1>2. Occurrences(Append(s, e), StepsOf(c, source))
        = Occurrences(s, StepsOf(c, source)) + (IF e \in StepsOf(c, source) THEN 1 ELSE 0)
    BY OccurrencesAppend
<1>3. e \in StepsOf(c, source) <=> (e.capability = c /\ e.source = source)
    BY DEF StepsOf
<1> QED BY <1>1, <1>2, <1>3, CountSteps DEF One

\* ... a concatenation counts both parts ...
LEMMA CountConcat ==
    ASSUME NEW s \in Seq(Step), NEW t \in Seq(Step), NEW c, NEW source
    PROVE  Count(s \o t, c, source) = Count(s, c, source) + Count(t, c, source)
<1>1. s \o t \in Seq(Step)
    BY ConcatProperties
<1>2. Occurrences(s \o t, StepsOf(c, source))
        = Occurrences(s, StepsOf(c, source)) + Occurrences(t, StepsOf(c, source))
    BY OccurrencesConcat
<1> QED BY <1>1, <1>2, CountSteps

\* ... a head is counted before its tail ...
LEMMA CountHeadTail ==
    ASSUME NEW s \in Seq(Step), s # <<>>, NEW c, NEW source
    PROVE  Count(s, c, source) = One(Head(s), c, source) + Count(Tail(s), c, source)
<1>1. Head(s) \in Step /\ Tail(s) \in Seq(Step)
    BY HeadTailProperties
<1>2. Occurrences(s, StepsOf(c, source))
        = (IF Head(s) \in StepsOf(c, source) THEN 1 ELSE 0)
            + Occurrences(Tail(s), StepsOf(c, source))
    BY OccurrencesHeadTail
<1>3. Head(s) \in StepsOf(c, source)
        <=> (Head(s).capability = c /\ Head(s).source = source)
    BY <1>1 DEF StepsOf
<1> QED BY <1>1, <1>2, <1>3, CountSteps DEF One

\* ... and where there is nothing, nothing counts.
LEMMA CountNone ==
    ASSUME NEW c, NEW source
    PROVE  Count(<<>>, c, source) = 0
<1>1. <<>> \in Seq(Step)
    OBVIOUS
<1> QED BY <1>1, CountSteps, OccurrencesNone

\* A backlog of three lists is what each of them holds.
LEMMA CountThree ==
    ASSUME NEW r \in Seq(Step), NEW s \in Seq(Step), NEW t \in Seq(Step), NEW c, NEW source
    PROVE  /\ Count(r \o s \o t, c, source)
                 = Count(r, c, source) + Count(s, c, source) + Count(t, c, source)
           /\ Count(r, c, source) \in Nat /\ Count(s, c, source) \in Nat
           /\ Count(t, c, source) \in Nat
<1>1. r \o s \in Seq(Step)
    BY ConcatProperties
<1>2. Count((r \o s) \o t, c, source) = Count(r \o s, c, source) + Count(t, c, source)
    <2> DEFINE q == r \o s
    <2>1. q \in Seq(Step)
        BY <1>1
    <2> HIDE DEF q
    <2>2. Count(q \o t, c, source) = Count(q, c, source) + Count(t, c, source)
        BY <2>1, CountConcat
    <2> QED BY <2>2 DEF q
<1>3. Count(r \o s, c, source) = Count(r, c, source) + Count(s, c, source)
    BY CountConcat
<1>4. /\ Count(r, c, source) \in Nat /\ Count(s, c, source) \in Nat
      /\ Count(t, c, source) \in Nat
    BY CountSteps
<1> QED BY <1>2, <1>3, <1>4

\* Only a fallback_selected event changes what is accounted for.
LEMMA OwedAppend ==
    ASSUME plan \in Plan, NEW events \in Seq(EventRecord), NEW e \in EventRecord,
           NEW c \in Capability, NEW source \in Source
    PROVE  /\ Owed(Append(events, e), c, source)
                 = Owed(events, c, source)
                     + (IF source # None /\ e = SelectedEvent(c, source) THEN 1 ELSE 0)
           /\ Owed(events, c, source) \in Nat
<1>0. Occurrences(plan.selected, {c}) \in Nat
    BY OccurrencesType DEF Plan
<1>1. CASE source = None
    BY <1>0, <1>1 DEF Owed
<1>2. CASE source # None
    <2>1. Occurrences(Append(events, e), {SelectedEvent(c, source)})
            = Occurrences(events, {SelectedEvent(c, source)})
                + (IF e \in {SelectedEvent(c, source)} THEN 1 ELSE 0)
        BY OccurrencesAppend
    <2>2. Occurrences(events, {SelectedEvent(c, source)}) \in Nat
        BY OccurrencesType
    <2> QED BY <1>2, <2>1, <2>2 DEF Owed
<1> QED BY <1>1, <1>2

\* An event of another type changes nothing.
LEMMA OwedOther ==
    ASSUME plan \in Plan, NEW events \in Seq(EventRecord), NEW e \in EventRecord,
           e.type # "fallback_selected",
           NEW c \in Capability, NEW source \in Source
    PROVE  Owed(Append(events, e), c, source) = Owed(events, c, source)
<1>1. e # SelectedEvent(c, source)
    BY DEF SelectedEvent, Event
<1> QED BY <1>1, OwedAppend

LEMMA BalanceInit == Init => Balance
<1> SUFFICES ASSUME Init, NEW c \in Capability, NEW source \in Source
             PROVE  Count(state.completed, c, source) + Count(state.pending, c, source)
                      = Owed(state.events, c, source)
    BY DEF Init, Balance, Balanced, Backlog
<1>1. plan \in Plan /\ state.completed = <<>> /\ state.pending = PlannedSteps(plan)
      /\ state.events = InitialEvents
    BY RunnerAssumption DEF Init
<1>2. Count(state.completed, c, source) = 0
    BY <1>1, CountNone
<1>3. PlannedSteps(plan) \in Seq(Step) /\ Count(PlannedSteps(plan), c, source) \in Nat
    BY <1>1, PlannedStepsType, CountSteps
<1>4. CASE source = None
    <2>1. \A n \in DOMAIN PlannedSteps(plan) :
             (PlannedSteps(plan)[n].capability = c /\ PlannedSteps(plan)[n].source = source)
                <=> plan.selected[n] \in {c}
        BY <1>4 DEF PlannedSteps, PendingStep
    <2>2. DOMAIN PlannedSteps(plan) = DOMAIN plan.selected
        BY DEF PlannedSteps
    <2>3. Count(PlannedSteps(plan), c, source) = Occurrences(plan.selected, {c})
        BY <2>1, <2>2 DEF Count, Occurrences
    <2> QED BY <1>1, <1>2, <1>3, <1>4, <2>3 DEF Owed
<1>5. CASE source # None
    <2>1. \A n \in DOMAIN PlannedSteps(plan) : PlannedSteps(plan)[n].source # source
        BY <1>5 DEF PlannedSteps, PendingStep
    <2>2. {n \in DOMAIN PlannedSteps(plan) : PlannedSteps(plan)[n].capability = c
                /\ PlannedSteps(plan)[n].source = source} = {}
        BY <2>1
    <2>3. Count(PlannedSteps(plan), c, source) = 0
        BY <2>2, FS_EmptySet DEF Count
    <2>4. InitialEvents \in Seq(EventRecord)
          /\ \A n \in DOMAIN InitialEvents : InitialEvents[n] \notin {SelectedEvent(c, source)}
        BY DEF InitialEvents, Event, EventRecord, EventTypes, ResultTypes, SelectedEvent
    <2>5. Occurrences(InitialEvents, {SelectedEvent(c, source)}) = 0
        BY <2>4, OccurrencesEmpty
    <2> QED BY <1>1, <1>2, <1>5, <2>3, <2>5 DEF Owed
<1> QED BY <1>4, <1>5

\* Recording a result completes a step of the same capability and source and
\* selects nothing.
LEMMA RecordedCounts ==
    ASSUME plan \in Plan, current \in RunState, kept \in Seq(Step),
           NEW step \in Step, NEW a \in Answer,
           NEW c \in Capability, NEW source \in Source
    PROVE  /\ Count(Recorded(step, a).completed, c, source)
                 = Count(current.completed, c, source) + One(step, c, source)
           /\ Owed(Recorded(step, a).events, c, source) = Owed(current.events, c, source)
<1> DEFINE done == [step EXCEPT
                      !.status = IF a.status = "failed" THEN "failed" ELSE "completed"]
           told == IF a.echo THEN step.source ELSE None
           review == Event("review_requested", a.capability, told)
<1>1. done \in Step /\ One(done, c, source) = One(step, c, source)
    BY DEF Step, One
<1>2. current.completed \in Seq(Step) /\ current.events \in Seq(EventRecord)
    BY DEF RunState
<1>3. told \in Source /\ a.capability \in Capability
    BY DEF Answer, Step, Source
<1>4. /\ ResultEvent(a) \in EventRecord /\ ResultEvent(a).type # "fallback_selected"
      /\ review \in EventRecord /\ review.type # "fallback_selected"
    BY <1>3 DEF ResultEvent, Event, EventRecord, EventTypes, ResultTypes, Source
<1>5. /\ Recorded(step, a).completed = Append(current.completed, done)
      /\ Recorded(step, a).events \in
            {Append(current.events, ResultEvent(a)),
             Append(Append(current.events, ResultEvent(a)), review)}
    BY DEF Recorded
<1> HIDE DEF done, review
<1>6. Count(Append(current.completed, done), c, source)
        = Count(current.completed, c, source) + One(done, c, source)
    BY <1>1, <1>2, CountAppend
<1>7. /\ Append(current.events, ResultEvent(a)) \in Seq(EventRecord)
      /\ Owed(Append(current.events, ResultEvent(a)), c, source)
            = Owed(current.events, c, source)
    BY <1>2, <1>4, OwedOther, AppendProperties
<1>8. Owed(Append(Append(current.events, ResultEvent(a)), review), c, source)
        = Owed(Append(current.events, ResultEvent(a)), c, source)
    BY <1>4, <1>7, OwedOther
<1> QED BY <1>1, <1>5, <1>6, <1>7, <1>8

\* What a call writes during its work stays balanced with what it still holds.
LEMMA BalancedStep ==
    ASSUME CallInv, Typed', Balance, [Next]_vars,
           NEW c \in Capability, NEW source \in Source
    PROVE  Count(current'.completed, c, source) + Count(Backlog', c, source)
             = Owed(current'.events, c, source)
<1> DEFINE Done == Count(current.completed, c, source)
           Kept == Count(kept, c, source)
           Todo == Count(todo, c, source)
           Chosen == Count(chosen, c, source)
<1>0. /\ Typed /\ AtRest /\ state \in RunState /\ current \in RunState
      /\ todo \in Seq(Step) /\ kept \in Seq(Step) /\ chosen \in Seq(Step)
      /\ untried \in Seq(Capability)
      /\ phase = "recovering" => failing \in Capability
      /\ state.pending \in Seq(Step) /\ current.completed \in Seq(Step)
      /\ current.events \in Seq(EventRecord)
    BY DEF CallInv, Typed, RunState
<1>1. plan \in Plan /\ plan' = plan
    BY StateChange, RunnerAssumption DEF CallInv, Typed
<1>2. /\ Done \in Nat /\ Kept \in Nat /\ Todo \in Nat /\ Chosen \in Nat
      /\ phase # "idle" => Count(Backlog, c, source) = Kept + Todo + Chosen
    BY <1>0, CountSteps, CountThree DEF Backlog
<1>3. /\ phase # "idle" => Done + (Kept + Todo + Chosen) = Owed(current.events, c, source)
      /\ Count(state.completed, c, source) + Count(state.pending, c, source)
           = Owed(state.events, c, source)
    BY <1>2 DEF Balance, Balanced
<1>4. /\ todo' \in Seq(Step) /\ kept' \in Seq(Step) /\ chosen' \in Seq(Step)
    BY DEF Typed
<1>5. phase' # "idle" =>
         Count(Backlog', c, source) = Count(kept', c, source)
            + Count(todo', c, source) + Count(chosen', c, source)
    <2>1. phase' # "idle" => Backlog' = kept' \o todo' \o chosen'
        BY DEF Backlog
    <2>2. Count(kept' \o todo' \o chosen', c, source) = Count(kept', c, source)
            + Count(todo', c, source) + Count(chosen', c, source)
        BY <1>4, CountThree
    <2> QED BY <2>1, <2>2
<1>6. \A events : Owed(events, c, source)' = Owed(events, c, source)
    BY <1>1 DEF Owed
<1>7. CASE Resume
    <2>1. /\ kept' = <<>> /\ chosen' = <<>> /\ todo' = state.pending /\ current' = state
          /\ phase' # "idle"
        BY <1>0, <1>7 DEF Resume, AtRest
    <2>2. Count(state.pending, c, source) \in Nat
        BY <1>0, CountSteps
    <2> QED BY <1>3, <1>5, <2>1, <2>2, CountNone
<1>8. CASE Keep
    <2>1. /\ kept' = Append(kept, Head(todo)) /\ todo' = Tail(todo) /\ todo # <<>>
          /\ chosen' = chosen /\ current' = current /\ phase' # "idle" /\ phase # "idle"
        BY <1>8 DEF Keep
    <2>2. /\ Head(todo) \in Step /\ Tail(todo) \in Seq(Step)
          /\ Todo = One(Head(todo), c, source) + Count(Tail(todo), c, source)
          /\ Count(Tail(todo), c, source) \in Nat
        BY <1>0, <2>1, HeadTailProperties, CountHeadTail, CountSteps
    <2>3. Count(kept', c, source) = Kept + One(Head(todo), c, source)
        BY <1>0, <2>1, <2>2, CountAppend
    <2>4. One(Head(todo), c, source) \in Nat
        BY DEF One
    <2> QED BY <1>2, <1>3, <1>5, <2>1, <2>2, <2>3, <2>4
<1>9. CASE Start
    <2> DEFINE e == Event("capability_started", Head(todo).capability, None)
    <2>1. /\ UNCHANGED <<kept, todo, chosen>> /\ todo # <<>>
          /\ phase = "stepping" /\ phase' = "running"
          /\ current'.completed = current.completed
          /\ current'.events = Append(current.events, e)
        BY <1>0, <1>9 DEF Start, locals, RunState
    <2>2. Head(todo) \in Step
        BY <1>0, <2>1, HeadTailProperties
    <2>3. e \in EventRecord /\ e.type # "fallback_selected"
        BY <2>2 DEF Event, EventRecord, EventTypes, Step
    <2> HIDE DEF e
    <2>4. Owed(current'.events, c, source) = Owed(current.events, c, source)
        BY <1>0, <1>1, <2>1, <2>3, OwedOther
    <2> QED BY <1>2, <1>3, <1>5, <2>1, <2>4
<1>10. ASSUME phase = "running", NEW a \in AnswersTo(Head(todo)), Succeed(a) \/ Fail(a)
       PROVE  Count(current'.completed, c, source) + Count(Backlog', c, source)
                = Owed(current'.events, c, source)
    <2>1. Head(todo) \in Step /\ a \in Answer /\ todo # <<>>
        BY <1>0, <1>10, RunningStep
    <2>2. /\ current' = Recorded(Head(todo), a) /\ todo' = Tail(todo)
          /\ UNCHANGED <<kept, chosen>> /\ phase' # "idle"
        BY <1>10 DEF Succeed, Fail
    <2>3. /\ Count(current'.completed, c, source) = Done + One(Head(todo), c, source)
          /\ Owed(current'.events, c, source) = Owed(current.events, c, source)
        BY <1>0, <1>1, <2>1, <2>2, RecordedCounts
    <2>4. /\ Todo = One(Head(todo), c, source) + Count(Tail(todo), c, source)
          /\ Count(Tail(todo), c, source) \in Nat
        BY <1>0, <2>1, HeadTailProperties, CountHeadTail, CountSteps
    <2>5. One(Head(todo), c, source) \in Nat
        BY DEF One
    <2> QED BY <1>2, <1>3, <1>5, <1>10, <2>2, <2>3, <2>4, <2>5
<1>11. CASE SkipFallback \/ Recovered
    <2>1. UNCHANGED <<current, kept, todo, chosen>> /\ phase # "idle" /\ phase' # "idle"
        BY <1>11 DEF SkipFallback, Recovered
    <2> QED BY <1>2, <1>3, <1>5, <2>1
<1>12. CASE SelectFallback
    <2> DEFINE step == PendingStep(Head(untried), failing)
               e == SelectedEvent(Head(untried), failing)
    <2>1. /\ UNCHANGED <<kept, todo>> /\ chosen' = Append(chosen, step)
          /\ phase = "recovering" /\ phase' = "recovering" /\ untried # <<>>
          /\ current'.completed = current.completed
          /\ current'.events = Append(current.events, e)
        BY <1>0, <1>12 DEF SelectFallback, RunState, SelectedEvent
    <2>2. Head(untried) \in Capability /\ failing \in Capability
        BY <1>0, <2>1, HeadTailProperties
    <2>3. step \in Step /\ e \in EventRecord
        BY <2>2 DEF PendingStep, Step, SelectedEvent, Event, EventRecord, EventTypes
    <2>4. One(step, c, source) = IF source # None /\ e = SelectedEvent(c, source) THEN 1 ELSE 0
        BY <2>2, RunnerAssumption DEF One, PendingStep, SelectedEvent, Event
    <2> HIDE DEF step, e
    <2>5. Count(chosen', c, source) = Chosen + One(step, c, source)
        BY <1>0, <2>1, <2>3, CountAppend
    <2>6. Owed(current'.events, c, source)
            = Owed(current.events, c, source) + One(step, c, source)
        BY <1>0, <1>1, <2>1, <2>3, <2>4, OwedAppend
    <2>7. One(step, c, source) \in Nat
        BY DEF One
    <2> QED BY <1>2, <1>3, <1>5, <2>1, <2>5, <2>6, <2>7
<1>13. CASE Finish
    <2>1. /\ todo = <<>> /\ phase # "idle" /\ phase' = "idle" /\ current' = state'
          /\ state'.pending = kept \o chosen
          /\ state'.completed = current.completed /\ state'.events = current.events
        BY <1>0, <1>13 DEF Finish, Forget, RunState
    <2>2. Count(kept \o chosen, c, source) = Kept + Chosen
        BY <1>0, CountConcat
    <2>3. Todo = 0
        BY <2>1, CountNone
    <2>4. Backlog' = kept \o chosen
        BY <2>1 DEF Backlog
    <2> QED BY <1>2, <1>3, <2>1, <2>2, <2>3, <2>4
<1>14. CASE Abandon
    <2>1. current' = state /\ state' = state /\ phase' = "idle"
        BY <1>14 DEF Abandon, Forget
    <2>2. Backlog' = state.pending
        BY <2>1 DEF Backlog
    <2> QED BY <1>3, <2>1, <2>2
<1>15. CASE Rest \/ UNCHANGED vars
    <2>1. UNCHANGED <<current, state, phase, kept, todo, chosen>>
        BY <1>15 DEF Rest, vars, locals
    <2>2. Backlog' = Backlog
        BY <2>1 DEF Backlog
    <2> QED BY <2>1, <2>2 DEF Balance, Balanced
<1> QED
    BY <1>7, <1>8, <1>9, <1>10, <1>11, <1>12, <1>13, <1>14, <1>15 DEF Next

LEMMA BalanceStep == CallInv /\ Balance /\ [Next]_vars => Balance'
<1> SUFFICES ASSUME CallInv, Balance, [Next]_vars PROVE Balance'
    OBVIOUS
<1>1. Typed' /\ AtRest'
    BY TypedStep, AtRestStep DEF CallInv
<1>2. plan' = plan
    BY StateChange
<1>3. \A c \in Capability, source \in Source :
         Count(current'.completed, c, source) + Count(Backlog', c, source)
           = Owed(current'.events, c, source)
    BY <1>1, BalancedStep
<1>4. \A c \in Capability, source \in Source :
         Count(state'.completed, c, source) + Count(state'.pending, c, source)
           = Owed(state'.events, c, source)
    <2>1. CASE Finish
        <3>1. phase' = "idle" /\ current' = state'
            BY <2>1 DEF Finish, Forget
        <3>2. Backlog' = state'.pending
            BY <3>1 DEF Backlog
        <3> QED BY <1>3, <3>1, <3>2
    <2>2. CASE state' = state
        BY <2>2 DEF Balance, Balanced
    <2> QED BY <2>1, <2>2, StateChange
<1>5. \A events, c, source : Owed(events, c, source)' = Owed(events, c, source)
    BY <1>2 DEF Owed
<1> QED BY <1>2, <1>3, <1>4 DEF Balance, Balanced, Owed

\* Over any number of calls, no step is lost, doubled or unexplained.
THEOREM WorkTheorem == Spec => []WorkConserved
<1>1. CallInv /\ Balance => WorkConserved
    <2> SUFFICES ASSUME CallInv, Balance PROVE WorkConserved
        OBVIOUS
    <2>1. None \notin Capability /\ Capability \subseteq Source /\ None \in Source
        BY RunnerAssumption DEF Source
    <2>2. \A c \in Capability :
             {n \in DOMAIN plan.selected : plan.selected[n] \in {c}}
                = {n \in DOMAIN plan.selected : plan.selected[n] = c}
        OBVIOUS
    <2>3. \A c \in Capability :
             Owed(current.events, c, None)
                = Cardinality({n \in DOMAIN plan.selected : plan.selected[n] = c})
        BY <2>2 DEF Owed, Occurrences
    <2>4. ASSUME NEW c \in Capability, NEW source \in Capability
          PROVE  Owed(current.events, c, source)
                   = Cardinality({n \in DOMAIN current.events :
                        current.events[n] = Event("fallback_selected", c, source)})
        <3>1. {n \in DOMAIN current.events : current.events[n] \in {SelectedEvent(c, source)}}
                = {n \in DOMAIN current.events :
                        current.events[n] = Event("fallback_selected", c, source)}
            BY DEF SelectedEvent
        <3> QED BY <2>1, <3>1 DEF Owed, Occurrences
    <2> QED BY <2>1, <2>3, <2>4 DEF Balance, Balanced, WorkConserved
<1> QED BY <1>1, CallInit, CallStep, BalanceInit, BalanceStep, PTL DEF Spec

-----------------------------------------------------------------------------
(***************************************************************************)
(* Steps, results, review requests and events tell one story.              *)
(***************************************************************************)
Result ==
    [capability : Capability, status : {"completed", "failed", "review_requested"}]

Started(events) == OfTypes(events, {"capability_started"})

\* HistoryAgrees of a state with `open` steps started and not yet answered.
Told(completed, results, interrupts, events, open) ==
    LET resultEvents == OfTypes(events, ResultTypes)
        reviewEvents == OfTypes(events, {"review_requested"})
        reviews == Reviews(results)
    IN  /\ Len(resultEvents) = Len(results) /\ Len(completed) = Len(results)
        /\ Len(Started(events)) = Len(results) + open
        /\ \A n \in 1 .. Len(results) :
              /\ Started(events)[n].capability = completed[n].capability
              /\ resultEvents[n].capability = results[n].capability
              /\ resultEvents[n].type = "capability_failed" <=> completed[n].status = "failed"
              /\ completed[n].status = "failed" <=> results[n].status = "failed"
        /\ Len(reviewEvents) = Len(reviews) /\ Len(interrupts) = Len(reviews)
        /\ \A n \in 1 .. Len(reviews) :
              /\ reviews[n].capability = interrupts[n].capability
              /\ reviewEvents[n].capability = interrupts[n].capability
              /\ reviewEvents[n].source = interrupts[n].source

Open == IF phase = "running" THEN 1 ELSE 0

\* Both states tell it, as for Balance; and while a runner runs, the last
\* started event is that of its step.
Story ==
    /\ Told(state.completed, state.results, state.interrupts, state.events, 0)
    /\ Told(current.completed, current.results, current.interrupts, current.events, Open)
    /\ phase = "running" =>
          Started(current.events)[Len(current.results) + 1].capability = Head(todo).capability

\* What is kept of a history when an event joins it.
LEMMA OfTypesAppend ==
    ASSUME NEW s \in Seq(EventRecord), NEW e \in EventRecord, NEW T
    PROVE  /\ OfTypes(s, T) \in Seq(EventRecord)
           /\ OfTypes(Append(s, e), T)
                = IF e.type \in T THEN Append(OfTypes(s, T), e) ELSE OfTypes(s, T)
<1> DEFINE P == {n \in DOMAIN s : s[n].type \in T}
           t == Append(s, e)
           Q == {n \in DOMAIN t : t[n].type \in T}
<1>1. /\ Len(s) \in Nat /\ DOMAIN s = 1 .. Len(s) /\ DOMAIN t = 1 .. Len(s) + 1
      /\ \A i \in 1 .. Len(s) : t[i] = s[i]
      /\ t[Len(s) + 1] = e
    BY LenProperties, AppendProperties
<1>2. P \in SUBSET DOMAIN s
    OBVIOUS
<1>3. Q = IF e.type \in T THEN P \cup {Len(s) + 1} ELSE P
    BY <1>1
<1>4. /\ OfTypes(s, T) = Subsequence(s, P)
      /\ OfTypes(t, T) = Subsequence(t, Q)
    BY DEF OfTypes
<1> HIDE DEF P, Q
<1>5. Subsequence(s, P) \in Seq(EventRecord)
    BY <1>2, SubsequenceType
<1>6. /\ Subsequence(Append(s, e), P) = Subsequence(s, P)
      /\ Subsequence(Append(s, e), P \cup {Len(s) + 1}) = Append(Subsequence(s, P), e)
    BY <1>2, SubsequenceAppend
<1> QED BY <1>3, <1>4, <1>5, <1>6

\* A result is a review or not.
LEMMA ReviewsAppend ==
    ASSUME NEW s \in Seq(Result), NEW e \in Result
    PROVE  /\ Reviews(s) \in Seq(Result)
           /\ Reviews(Append(s, e))
                = IF e.status = "review_requested" THEN Append(Reviews(s), e) ELSE Reviews(s)
<1> DEFINE P == {n \in DOMAIN s : s[n].status = "review_requested"}
           t == Append(s, e)
           Q == {n \in DOMAIN t : t[n].status = "review_requested"}
<1>1. /\ Len(s) \in Nat /\ DOMAIN s = 1 .. Len(s) /\ DOMAIN t = 1 .. Len(s) + 1
      /\ \A i \in 1 .. Len(s) : t[i] = s[i]
      /\ t[Len(s) + 1] = e
    BY LenProperties, AppendProperties
<1>2. P \in SUBSET DOMAIN s
    OBVIOUS
<1>3. Q = IF e.status = "review_requested" THEN P \cup {Len(s) + 1} ELSE P
    BY <1>1
<1>4. /\ Reviews(s) = Subsequence(s, P)
      /\ Reviews(t) = Subsequence(t, Q)
    BY DEF Reviews
<1> HIDE DEF P, Q
<1>5. Subsequence(s, P) \in Seq(Result)
    BY <1>2, SubsequenceType
<1>6. /\ Subsequence(Append(s, e), P) = Subsequence(s, P)
      /\ Subsequence(Append(s, e), P \cup {Len(s) + 1}) = Append(Subsequence(s, P), e)
    BY <1>2, SubsequenceAppend
<1> QED BY <1>3, <1>4, <1>5, <1>6

\* The start of a step opens one more.
LEMMA ToldStart ==
    ASSUME NEW completed, NEW results \in Seq(Result), NEW interrupts,
           NEW events \in Seq(EventRecord), NEW c \in Capability,
           Told(completed, results, interrupts, events, 0)
    PROVE  LET more == Append(events, Event("capability_started", c, None))
           IN  /\ Told(completed, results, interrupts, more, 1)
               /\ Started(more)[Len(results) + 1].capability = c
<1> DEFINE e == Event("capability_started", c, None)
           more == Append(events, e)
           k == Len(results)
<1>1. e \in EventRecord /\ e.type = "capability_started" /\ e.capability = c
    BY DEF Event, EventRecord, EventTypes
<1> HIDE DEF e
<1>2. /\ OfTypes(more, ResultTypes) = OfTypes(events, ResultTypes)
      /\ OfTypes(more, {"review_requested"}) = OfTypes(events, {"review_requested"})
      /\ Started(more) = Append(Started(events), e)
      /\ Started(events) \in Seq(EventRecord)
    <2>1. OfTypes(more, ResultTypes) = OfTypes(events, ResultTypes)
        BY <1>1, OfTypesAppend DEF ResultTypes
    <2>2. OfTypes(more, {"review_requested"}) = OfTypes(events, {"review_requested"})
        BY <1>1, OfTypesAppend
    <2>3. Started(more) = Append(Started(events), e) /\ Started(events) \in Seq(EventRecord)
        BY <1>1, OfTypesAppend DEF Started
    <2> QED BY <2>1, <2>2, <2>3
<1>3. k \in Nat /\ Len(Started(events)) = k
    BY LenProperties DEF Told
<1>4. /\ Len(Started(more)) = k + 1 /\ Started(more)[k + 1] = e
      /\ \A n \in 1 .. k : Started(more)[n] = Started(events)[n]
    BY <1>1, <1>2, <1>3, AppendProperties
<1> HIDE DEF more
<1>5. Told(completed, results, interrupts, more, 1)
    BY <1>2, <1>3, <1>4 DEF Told
<1> QED BY <1>1, <1>4, <1>5 DEF e, more

\* A selected fallback is none of the events the story is about.
LEMMA ToldSelect ==
    ASSUME NEW completed, NEW results, NEW interrupts,
           NEW events \in Seq(EventRecord), NEW c \in Capability, NEW source \in Capability,
           Told(completed, results, interrupts, events, 0)
    PROVE  Told(completed, results, interrupts,
                Append(events, Event("fallback_selected", c, source)), 0)
<1> DEFINE e == Event("fallback_selected", c, source)
           more == Append(events, e)
<1>1. e \in EventRecord /\ e.type = "fallback_selected"
    BY DEF Event, EventRecord, EventTypes
<1> HIDE DEF e
<1>2. /\ OfTypes(more, ResultTypes) = OfTypes(events, ResultTypes)
      /\ OfTypes(more, {"review_requested"}) = OfTypes(events, {"review_requested"})
      /\ Started(more) = Started(events)
    BY <1>1, OfTypesAppend DEF Started, ResultTypes
<1> HIDE DEF more
<1>3. Told(completed, results, interrupts, more, 0)
    BY <1>2 DEF Told
<1> QED BY <1>3 DEF more, e

\* A recorded result answers the open step and closes it.
LEMMA ToldRecord ==
    ASSUME current \in RunState, kept \in Seq(Step), NEW step \in Step, NEW a \in Answer,
           Told(current.completed, current.results, current.interrupts, current.events, 1),
           Started(current.events)[Len(current.results) + 1].capability = step.capability
    PROVE  LET r == Recorded(step, a)
           IN  Told(r.completed, r.results, r.interrupts, r.events, 0)
<1> DEFINE done == [step EXCEPT
                      !.status = IF a.status = "failed" THEN "failed" ELSE "completed"]
           result == [capability |-> a.capability, status |-> a.status]
           source == IF a.echo THEN step.source ELSE None
           ask == [capability |-> a.capability, source |-> source]
           answered == ResultEvent(a)
           asked == Event("review_requested", a.capability, source)
           r == Recorded(step, a)
           k == Len(current.results)
           review == a.status = "review_requested"
           Ended(events) == OfTypes(events, ResultTypes)
           Asked(events) == OfTypes(events, {"review_requested"})
<1>1. /\ current.completed \in Seq(Step) /\ current.results \in Seq(Result)
      /\ current.interrupts \in Seq(Payload) /\ current.events \in Seq(EventRecord)
    BY DEF RunState, Result
<1>2. source \in Source /\ a.capability \in Capability
    BY DEF Answer, Step, Source
<1>3. /\ done \in Step /\ done.capability = step.capability
      /\ done.status = "failed" <=> a.status = "failed"
    BY DEF Step
<1>4. /\ result \in Result /\ result.capability = a.capability
      /\ result.status = a.status
    BY DEF Result, Answer
<1>5. /\ ask \in Payload /\ ask.capability = a.capability /\ ask.source = source
    BY <1>2 DEF Payload, Source
<1>6. /\ answered \in EventRecord /\ answered.capability = a.capability
      /\ answered.type \in ResultTypes
      /\ answered.type = "capability_failed" <=> a.status = "failed"
    BY <1>2 DEF ResultEvent, Event, EventRecord, EventTypes, ResultTypes
<1>7. /\ asked \in EventRecord /\ asked.capability = a.capability /\ asked.source = source
      /\ asked.type = "review_requested"
    BY <1>2 DEF Event, EventRecord, EventTypes, Source
<1>8. /\ r.completed = Append(current.completed, done)
      /\ r.results = Append(current.results, result)
      /\ r.interrupts = IF review THEN Append(current.interrupts, ask) ELSE current.interrupts
      /\ r.events = IF review THEN Append(Append(current.events, answered), asked)
                    ELSE Append(current.events, answered)
    BY DEF Recorded
<1> HIDE DEF done, result, source, ask, answered, asked, r
<1>9. /\ k \in Nat /\ Len(current.completed) = k /\ Len(Ended(current.events)) = k
      /\ Len(Started(current.events)) = k + 1
      /\ Len(Asked(current.events)) = Len(Reviews(current.results))
      /\ Len(current.interrupts) = Len(Reviews(current.results))
    BY <1>1, LenProperties DEF Told
<1>10. /\ Append(current.events, answered) \in Seq(EventRecord)
       /\ Ended(current.events) \in Seq(EventRecord)
       /\ Ended(Append(current.events, answered)) = Append(Ended(current.events), answered)
    <2>1. Append(current.events, answered) \in Seq(EventRecord)
        BY <1>1, <1>6, AppendProperties
    <2>2. Ended(Append(current.events, answered)) = Append(Ended(current.events), answered)
          /\ Ended(current.events) \in Seq(EventRecord)
        BY <1>1, <1>6, OfTypesAppend
    <2> QED BY <2>1, <2>2
<1>11. Ended(r.events) = Append(Ended(current.events), answered)
    <2>1. Ended(Append(Append(current.events, answered), asked))
            = Ended(Append(current.events, answered))
        BY <1>7, <1>10, OfTypesAppend DEF ResultTypes
    <2> QED BY <1>8, <1>10, <2>1
<1>12. Started(r.events) = Started(current.events)
    <2>1. Started(Append(current.events, answered)) = Started(current.events)
        BY <1>1, <1>6, OfTypesAppend DEF Started, ResultTypes
    <2>2. Started(Append(Append(current.events, answered), asked))
            = Started(Append(current.events, answered))
        <3> DEFINE more == Append(current.events, answered)
        <3>1. more \in Seq(EventRecord) /\ asked.type \notin {"capability_started"}
            BY <1>7, <1>10
        <3> HIDE DEF more
        <3>2. OfTypes(Append(more, asked), {"capability_started"})
                = OfTypes(more, {"capability_started"})
            BY <1>7, <3>1, OfTypesAppend
        <3> QED BY <3>2 DEF Started, more
    <2> QED BY <1>8, <2>1, <2>2
<1>13. /\ Asked(current.events) \in Seq(EventRecord)
       /\ Asked(r.events) = IF review THEN Append(Asked(current.events), asked)
                            ELSE Asked(current.events)
    <2>1. Asked(Append(current.events, answered)) = Asked(current.events)
          /\ Asked(current.events) \in Seq(EventRecord)
        BY <1>1, <1>6, OfTypesAppend DEF ResultTypes
    <2>2. Asked(Append(Append(current.events, answered), asked))
            = Append(Asked(Append(current.events, answered)), asked)
        BY <1>7, <1>10, OfTypesAppend
    <2> QED BY <1>8, <2>1, <2>2
<1>14. /\ Reviews(current.results) \in Seq(Result)
       /\ Reviews(r.results) = IF review THEN Append(Reviews(current.results), result)
                               ELSE Reviews(current.results)
    BY <1>1, <1>4, <1>8, ReviewsAppend
<1> HIDE DEF k, review, Ended, Asked
<1>15. /\ Len(r.results) = k + 1 /\ r.results[k + 1] = result
       /\ \A n \in 1 .. k : r.results[n] = current.results[n]
    BY <1>1, <1>4, <1>8, AppendProperties DEF k
<1>16. /\ Len(r.completed) = k + 1 /\ r.completed[k + 1] = done
       /\ \A n \in 1 .. k : r.completed[n] = current.completed[n]
    BY <1>1, <1>3, <1>8, <1>9, AppendProperties
<1>17. /\ Len(Ended(r.events)) = k + 1 /\ Ended(r.events)[k + 1] = answered
       /\ \A n \in 1 .. k : Ended(r.events)[n] = Ended(current.events)[n]
    BY <1>6, <1>9, <1>10, <1>11, AppendProperties
<1>18. \A n \in 1 .. k :
          /\ Started(current.events)[n].capability = current.completed[n].capability
          /\ Ended(current.events)[n].capability = current.results[n].capability
          /\ Ended(current.events)[n].type = "capability_failed"
                <=> current.completed[n].status = "failed"
          /\ current.completed[n].status = "failed" <=> current.results[n].status = "failed"
    BY DEF Told, k, Ended
<1>19. \A n \in 1 .. k + 1 :
          /\ Started(r.events)[n].capability = r.completed[n].capability
          /\ Ended(r.events)[n].capability = r.results[n].capability
          /\ Ended(r.events)[n].type = "capability_failed" <=> r.completed[n].status = "failed"
          /\ r.completed[n].status = "failed" <=> r.results[n].status = "failed"
    <2> TAKE n \in 1 .. k + 1
    <2>1. CASE n \in 1 .. k
        BY <2>1, <1>12, <1>15, <1>16, <1>17, <1>18
    <2>2. CASE n = k + 1
        <3>1. Started(current.events)[k + 1].capability = step.capability
            BY DEF k
        <3> QED BY <2>2, <3>1, <1>3, <1>4, <1>6, <1>12, <1>15, <1>16, <1>17
    <2>3. n \in 1 .. k \/ n = k + 1
        BY <1>9
    <2> QED BY <2>1, <2>2, <2>3
<1>20. /\ Len(Asked(r.events)) = Len(Reviews(r.results))
       /\ Len(r.interrupts) = Len(Reviews(r.results))
       /\ \A n \in 1 .. Len(Reviews(r.results)) :
             /\ Reviews(r.results)[n].capability = r.interrupts[n].capability
             /\ Asked(r.events)[n].capability = r.interrupts[n].capability
             /\ Asked(r.events)[n].source = r.interrupts[n].source
    <2> DEFINE j == Len(Reviews(current.results))
    <2>1. \A n \in 1 .. j :
             /\ Reviews(current.results)[n].capability = current.interrupts[n].capability
             /\ Asked(current.events)[n].capability = current.interrupts[n].capability
             /\ Asked(current.events)[n].source = current.interrupts[n].source
        BY DEF Told, Asked
    <2>2. j \in Nat
        BY <1>14, LenProperties
    <2>3. CASE ~review
        BY <2>1, <2>3, <1>8, <1>9, <1>13, <1>14
    <2>4. CASE review
        <3> HIDE DEF j
        <3>1. /\ Len(Reviews(r.results)) = j + 1 /\ Reviews(r.results)[j + 1] = result
              /\ \A n \in 1 .. j : Reviews(r.results)[n] = Reviews(current.results)[n]
            BY <1>4, <1>14, <2>4, AppendProperties DEF j
        <3>2. /\ Len(Asked(r.events)) = j + 1 /\ Asked(r.events)[j + 1] = asked
              /\ \A n \in 1 .. j : Asked(r.events)[n] = Asked(current.events)[n]
            BY <1>7, <1>9, <1>13, <2>4, AppendProperties DEF j
        <3>3. /\ Len(r.interrupts) = j + 1 /\ r.interrupts[j + 1] = ask
              /\ \A n \in 1 .. j : r.interrupts[n] = current.interrupts[n]
            BY <1>1, <1>5, <1>8, <1>9, <2>4, AppendProperties DEF j
        <3>4. \A n \in 1 .. j + 1 : n \in 1 .. j \/ n = j + 1
            BY <2>2
        <3> QED BY <3>1, <3>2, <3>3, <3>4, <2>1, <1>4, <1>5, <1>7
    <2> QED BY <2>3, <2>4
<1>21. Told(r.completed, r.results, r.interrupts, r.events, 0)
    <2>1. Len(Started(r.events)) = Len(r.results) + 0
        BY <1>9, <1>12, <1>15
    <2> QED BY <2>1, <1>15, <1>16, <1>17, <1>19, <1>20 DEF Told, Ended, Asked
<1> QED BY <1>21 DEF r

LEMMA StoryInit == Init => Story
<1> SUFFICES ASSUME Init PROVE Story
    OBVIOUS
<1>1. /\ state.completed = <<>> /\ state.results = <<>> /\ state.interrupts = <<>>
      /\ state.events = InitialEvents /\ current = state /\ phase = "idle"
    BY DEF Init
<1>2. ASSUME NEW T \in SUBSET (ResultTypes \cup {"review_requested", "capability_started"})
      PROVE  OfTypes(InitialEvents, T) = <<>>
    <2>1. {n \in DOMAIN InitialEvents : InitialEvents[n].type \in T} = {}
        BY DEF InitialEvents, Event, ResultTypes
    <2>2. Cardinality({}) = 0
        BY FS_EmptySet
    <2>3. Subsequence(InitialEvents, {}) = <<>>
        BY <2>2 DEF Subsequence
    <2> QED BY <2>1, <2>3 DEF OfTypes
<1>3. Reviews(<<>>) = <<>>
    <2>1. {n \in DOMAIN <<>> : <<>>[n].status = "review_requested"} = {}
        OBVIOUS
    <2> QED BY <2>1, SubsequenceNone DEF Reviews
<1>4. /\ OfTypes(InitialEvents, ResultTypes) = <<>> /\ Started(InitialEvents) = <<>>
      /\ OfTypes(InitialEvents, {"review_requested"}) = <<>>
    BY <1>2 DEF Started
<1>5. Told(<<>>, <<>>, <<>>, InitialEvents, 0)
    BY <1>3, <1>4 DEF Told
<1> QED BY <1>1, <1>5 DEF Story, Open

LEMMA StoryStep == CallInv /\ Story /\ [Next]_vars => Story'
<1> SUFFICES ASSUME CallInv, Story, [Next]_vars PROVE Story'
    OBVIOUS
<1>0. /\ Typed /\ AtRest /\ state \in RunState /\ current \in RunState
      /\ todo \in Seq(Step) /\ kept \in Seq(Step) /\ untried \in Seq(Capability)
      /\ phase = "recovering" => failing \in Capability
      /\ current.results \in Seq(Result) /\ current.events \in Seq(EventRecord)
    BY DEF CallInv, Typed, RunState, Result
<1>1. CASE Resume
    BY <1>0, <1>1 DEF Resume, AtRest, Story, Open
<1>2. CASE Keep \/ SkipFallback \/ Recovered
    <2>1. UNCHANGED <<state, current>> /\ phase # "running" /\ phase' # "running"
        BY <1>2 DEF Keep, SkipFallback, Recovered
    <2> QED BY <2>1 DEF Story, Open
<1>3. CASE Start
    <2>1. /\ UNCHANGED <<state, todo>> /\ todo # <<>> /\ phase = "stepping"
          /\ phase' = "running"
          /\ current'.completed = current.completed /\ current'.results = current.results
          /\ current'.interrupts = current.interrupts
          /\ current'.events = Append(current.events,
                Event("capability_started", Head(todo).capability, None))
        BY <1>0, <1>3 DEF Start, locals, RunState
    <2>2. Head(todo).capability \in Capability
        <3>1. Head(todo) \in Step
            BY <1>0, <2>1, HeadTailProperties
        <3> QED BY <3>1 DEF Step
    <2>3. Told(current.completed, current.results, current.interrupts, current.events, 0)
        BY <2>1 DEF Story, Open
    <2>4. /\ Told(current'.completed, current'.results, current'.interrupts,
                  current'.events, 1)
          /\ Started(current'.events)[Len(current'.results) + 1].capability
                = Head(todo).capability
        <3> DEFINE c == Head(todo).capability
                   more == Append(current.events, Event("capability_started", c, None))
        <3>1. c \in Capability
            BY <2>2
        <3>2. current.results \in Seq(Result) /\ current.events \in Seq(EventRecord)
            BY <1>0
        <3> HIDE DEF c
        <3>3. /\ Told(current.completed, current.results, current.interrupts, more, 1)
              /\ Started(more)[Len(current.results) + 1].capability = c
            BY <2>3, <3>1, <3>2, ToldStart
        <3> QED BY <2>1, <3>3 DEF c
    <2> QED BY <2>1, <2>4 DEF Story, Open
<1>4. ASSUME phase = "running", NEW a \in AnswersTo(Head(todo)), Succeed(a) \/ Fail(a)
      PROVE Story'
    <2>1. /\ current' = Recorded(Head(todo), a) /\ state' = state /\ phase' # "running"
        BY <1>4 DEF Succeed, Fail
    <2>2. Head(todo) \in Step /\ a \in Answer
        BY <1>0, <1>4, RunningStep
    <2>3. /\ Told(current.completed, current.results, current.interrupts, current.events, 1)
          /\ Started(current.events)[Len(current.results) + 1].capability
                = Head(todo).capability
        BY <1>4 DEF Story, Open
    <2>4. Told(current'.completed, current'.results, current'.interrupts,
               current'.events, 0)
        BY <1>0, <2>1, <2>2, <2>3, ToldRecord
    <2> QED BY <2>1, <2>4 DEF Story, Open
<1>5. CASE SelectFallback
    <2>1. /\ state' = state /\ phase = "recovering" /\ phase' = phase /\ untried # <<>>
          /\ current'.completed = current.completed /\ current'.results = current.results
          /\ current'.interrupts = current.interrupts
          /\ current'.events = Append(current.events,
                Event("fallback_selected", Head(untried), failing))
        BY <1>0, <1>5 DEF SelectFallback, RunState
    <2>2. Head(untried) \in Capability /\ failing \in Capability
        BY <1>0, <2>1, HeadTailProperties
    <2>3. Told(current.completed, current.results, current.interrupts, current.events, 0)
        BY <2>1 DEF Story, Open
    <2>4. Told(current'.completed, current'.results, current'.interrupts,
               current'.events, 0)
        BY <1>0, <2>1, <2>2, <2>3, ToldSelect
    <2> QED BY <2>1, <2>4 DEF Story, Open
<1>6. CASE Finish
    <2>1. /\ phase = "stepping" /\ phase' = "idle" /\ current' = state'
          /\ state'.completed = current.completed /\ state'.results = current.results
          /\ state'.interrupts = current.interrupts /\ state'.events = current.events
        BY <1>0, <1>6 DEF Finish, Forget, RunState
    <2> QED BY <2>1 DEF Story, Open
<1>7. CASE Abandon
    BY <1>7 DEF Abandon, Forget, Story, Open
<1>8. CASE Rest \/ UNCHANGED vars
    BY <1>8 DEF Rest, vars, locals, Story, Open
<1> QED BY <1>1, <1>2, <1>3, <1>4, <1>5, <1>6, <1>7, <1>8 DEF Next

LEMMA StoryAgrees == CallInv /\ Story => HistoryAgrees
<1> SUFFICES ASSUME CallInv, Story PROVE HistoryAgrees
    OBVIOUS
<1>1. current.results \in Seq(Result) /\ Reviews(current.results) \in Seq(Result)
    <2>1. current.results \in Seq(Result)
        BY DEF CallInv, Typed, RunState, Result
    <2>2. {n \in DOMAIN current.results : current.results[n].status = "review_requested"}
            \in SUBSET DOMAIN current.results
        OBVIOUS
    <2> QED BY <2>1, <2>2, SubsequenceType DEF Reviews
<1>2. /\ DOMAIN current.results = 1 .. Len(current.results)
      /\ DOMAIN Reviews(current.results) = 1 .. Len(Reviews(current.results))
    BY <1>1, LenProperties
<1>3. Told(current.completed, current.results, current.interrupts, current.events, Open)
    BY DEF Story
<1> QED BY <1>2, <1>3 DEF HistoryAgrees, Told, Started, Open

\* Steps, results, review requests and events tell one story, also in the
\* middle of a call.
THEOREM HistoryAgreesTheorem == Spec => []HistoryAgrees
<1> QED BY CallInit, CallStep, StoryInit, StoryStep, StoryAgrees, PTL DEF Spec

-----------------------------------------------------------------------------
(***************************************************************************)
(* The report recommends what is left to do.                               *)
(***************************************************************************)

\* A fallback_selected event names the fallback and the failing capability.
Named(events) ==
    \A n \in DOMAIN events :
        events[n].type = "fallback_selected" =>
            \E c, source \in Capability : events[n] = SelectedEvent(c, source)

NamedInv == Named(state.events) /\ Named(current.events)

\* Selections name both capabilities, also the one that is appended.
LEMMA NamedAppend ==
    ASSUME NEW events \in Seq(EventRecord), Named(events), NEW e \in EventRecord,
           e.type = "fallback_selected" => \E c, source \in Capability : e = SelectedEvent(c, source)
    PROVE  Append(events, e) \in Seq(EventRecord) /\ Named(Append(events, e))
<1>1. /\ Len(events) \in Nat /\ DOMAIN events = 1 .. Len(events)
      /\ Append(events, e) \in Seq(EventRecord)
      /\ DOMAIN Append(events, e) = 1 .. Len(events) + 1
      /\ \A i \in 1 .. Len(events) : Append(events, e)[i] = events[i]
      /\ Append(events, e)[Len(events) + 1] = e
    BY LenProperties, AppendProperties
<1>2. \A n \in 1 .. Len(events) + 1 : n \in 1 .. Len(events) \/ n = Len(events) + 1
    BY <1>1
<1> QED BY <1>1, <1>2 DEF Named

LEMMA NamedStep == CallInv /\ NamedInv /\ [Next]_vars => NamedInv'
<1> SUFFICES ASSUME CallInv, NamedInv, [Next]_vars PROVE NamedInv'
    OBVIOUS
<1>0. /\ Typed /\ current \in RunState /\ state \in RunState
      /\ todo \in Seq(Step) /\ untried \in Seq(Capability)
      /\ phase = "recovering" => failing \in Capability
      /\ current.events \in Seq(EventRecord) /\ Named(current.events)
    BY DEF CallInv, Typed, RunState, NamedInv
<1>1. CASE Keep \/ SkipFallback \/ Recovered \/ Resume \/ Abandon \/ Rest \/ UNCHANGED vars
    <2>1. state' = state /\ current' \in {current, state}
        BY <1>1 DEF Keep, SkipFallback, Recovered, Resume, Abandon, Rest, vars
    <2> QED BY <2>1 DEF NamedInv
<1>2. CASE Start
    <2> DEFINE e == Event("capability_started", Head(todo).capability, None)
    <2>1. /\ state' = state /\ todo # <<>>
          /\ current'.events = Append(current.events, e)
        BY <1>0, <1>2 DEF Start, RunState
    <2>2. Head(todo) \in Step
        BY <1>0, <2>1, HeadTailProperties
    <2>3. e \in EventRecord /\ e.type # "fallback_selected"
        BY <2>2 DEF Event, EventRecord, EventTypes, Step
    <2> HIDE DEF e
    <2>4. Named(Append(current.events, e))
        BY <1>0, <2>3, NamedAppend
    <2> QED BY <2>1, <2>4 DEF NamedInv
<1>3. ASSUME phase = "running", NEW a \in AnswersTo(Head(todo)), Succeed(a) \/ Fail(a)
      PROVE NamedInv'
    <2> DEFINE source == IF a.echo THEN Head(todo).source ELSE None
               answered == ResultEvent(a)
               asked == Event("review_requested", a.capability, source)
    <2>1. /\ current' = Recorded(Head(todo), a) /\ state' = state
        BY <1>3 DEF Succeed, Fail
    <2>2. Head(todo) \in Step /\ a \in Answer
        BY <1>0, <1>3, RunningStep
    <2>3. source \in Source /\ a.capability \in Capability
        BY <2>2 DEF Answer, Step, Source
    <2>4. /\ answered \in EventRecord /\ answered.type # "fallback_selected"
          /\ asked \in EventRecord /\ asked.type # "fallback_selected"
        BY <2>3 DEF ResultEvent, Event, EventRecord, EventTypes, ResultTypes, Source
    <2>5. current'.events \in {Append(current.events, answered),
                              Append(Append(current.events, answered), asked)}
        BY <2>1 DEF Recorded
    <2> HIDE DEF answered, asked
    <2>6. Append(current.events, answered) \in Seq(EventRecord)
          /\ Named(Append(current.events, answered))
        BY <1>0, <2>4, NamedAppend
    <2>7. Named(Append(Append(current.events, answered), asked))
        BY <2>4, <2>6, NamedAppend
    <2> QED BY <2>1, <2>5, <2>6, <2>7 DEF NamedInv
<1>4. CASE SelectFallback
    <2> DEFINE e == SelectedEvent(Head(untried), failing)
    <2>1. /\ state' = state /\ phase = "recovering" /\ untried # <<>>
          /\ current'.events = Append(current.events, e)
        BY <1>0, <1>4 DEF SelectFallback, RunState, SelectedEvent
    <2>2. Head(untried) \in Capability /\ failing \in Capability
        BY <1>0, <2>1, HeadTailProperties
    <2>3. e \in EventRecord /\ \E c, source \in Capability : e = SelectedEvent(c, source)
        BY <2>2 DEF SelectedEvent, Event, EventRecord, EventTypes
    <2> HIDE DEF e
    <2>4. Named(Append(current.events, e))
        BY <1>0, <2>3, NamedAppend
    <2> QED BY <2>1, <2>4 DEF NamedInv
<1>5. CASE Finish
    <2>1. current' = state' /\ state'.events = current.events
        BY <1>0, <1>5 DEF Finish, RunState
    <2> QED BY <2>1 DEF NamedInv
<1> QED BY <1>1, <1>2, <1>3, <1>4, <1>5 DEF Next

\* What is accounted for and does not wait has run.
LEMMA CountedHasRun ==
    ASSUME NEW s \in RunState, s.pending = <<>>, Balanced(s.completed, s.pending, s.events),
           NEW c \in Capability, NEW source \in Source,
           Owed(s.events, c, source) # 0
    PROVE  c \in Names(s.completed)
<1>1. s.completed \in Seq(Step) /\ Count(s.completed, c, source) \in Nat
    BY CountSteps DEF RunState
<1>2. Count(s.pending, c, source) = 0
    BY CountNone
<1>3. Count(s.completed, c, source) # 0
    BY <1>1, <1>2 DEF Balanced
<1>4. {n \in DOMAIN s.completed :
          s.completed[n].capability = c /\ s.completed[n].source = source} # {}
    BY <1>3, FS_EmptySet DEF Count
<1> QED BY <1>4 DEF Names

LEMMA HonestReport == CallInv /\ Balance /\ Story /\ NamedInv => ReportHonest
<1> SUFFICES ASSUME CallInv, Balance, Story, NamedInv PROVE ReportHonest
    OBVIOUS
<1>0. /\ plan \in Plan /\ state \in RunState /\ state.results \in Seq(Result)
      /\ state.interrupts \in Seq(Payload) /\ state.events \in Seq(EventRecord)
      /\ plan.selected \in Seq(Capability)
    BY RunnerAssumption DEF CallInv, Typed, RunState, Result, Plan
<1>1. (\E n \in DOMAIN state.results : state.results[n].status = "review_requested")
         <=> state.interrupts # <<>>
    <2> DEFINE P == {n \in DOMAIN state.results : state.results[n].status = "review_requested"}
    <2>1. P \in SUBSET DOMAIN state.results
        OBVIOUS
    <2>2. Reviews(state.results) = Subsequence(state.results, P)
        BY DEF Reviews
    <2>3. IsFiniteSet(P)
        <3>1. P \in SUBSET (1 .. Len(state.results)) /\ Len(state.results) \in Nat
            BY <1>0, LenProperties
        <3> HIDE DEF P
        <3> QED BY <3>1, RankMonotonic
    <2>4. Len(state.interrupts) = Len(Reviews(state.results))
        BY DEF Story, Told
    <2>5. P # {} <=> \E n \in DOMAIN state.results : state.results[n].status = "review_requested"
        OBVIOUS
    <2> HIDE DEF P
    <2>6. Len(Subsequence(state.results, P)) = Cardinality(P)
        BY <1>0, <2>1, SubsequenceType
    <2>7. Cardinality(P) = 0 <=> P = {}
        BY <2>3, FS_EmptySet
    <2>8. Len(state.interrupts) = 0 <=> state.interrupts = <<>>
        BY <1>0, EmptySeq
    <2> QED BY <2>2, <2>4, <2>5, <2>6, <2>7, <2>8
<1>2. ASSUME RecommendedNextAction(state) = "none"
      PROVE  /\ NamesIn(plan.selected) \subseteq Names(state.completed)
             /\ \A n \in DOMAIN state.events :
                   state.events[n].type = "fallback_selected" =>
                       state.events[n].capability \in Names(state.completed)
    <2>1. state.pending = <<>>
        BY <1>2 DEF RecommendedNextAction
    <2>2. Balanced(state.completed, state.pending, state.events)
        BY DEF Balance
    <2>3. ASSUME NEW n \in DOMAIN plan.selected PROVE plan.selected[n] \in Names(state.completed)
        <3> DEFINE c == plan.selected[n]
        <3>1. c \in Capability /\ None \in Source
            BY <1>0, LenProperties DEF Source
        <3>2. Occurrences(plan.selected, {c}) # 0
            BY <1>0, OccurrencesEmpty
        <3> HIDE DEF c
        <3>3. Owed(state.events, c, None) # 0
            BY <3>2 DEF Owed
        <3>4. c \in Names(state.completed)
            BY <1>0, <2>1, <2>2, <3>1, <3>3, CountedHasRun
        <3> QED BY <3>4 DEF c
    <2>4. ASSUME NEW n \in DOMAIN state.events, state.events[n].type = "fallback_selected"
          PROVE  state.events[n].capability \in Names(state.completed)
        <3>1. PICK c, source \in Capability : state.events[n] = SelectedEvent(c, source)
            BY <2>4 DEF NamedInv, Named
        <3>2. source # None /\ source \in Source
            BY RunnerAssumption DEF Source
        <3>3. Occurrences(state.events, {SelectedEvent(c, source)}) # 0
            BY <1>0, <3>1, OccurrencesEmpty
        <3>4. Owed(state.events, c, source) # 0
            BY <3>2, <3>3 DEF Owed
        <3>5. c \in Names(state.completed)
            BY <1>0, <2>1, <2>2, <3>2, <3>4, CountedHasRun
        <3>6. state.events[n].capability = c
            BY <3>1 DEF SelectedEvent, Event
        <3> QED BY <3>5, <3>6
    <2> QED BY <2>3, <2>4 DEF NamesIn
<1>3. RecommendedNextAction(state) = "manual_review" <=> state.interrupts # <<>>
    BY DEF RecommendedNextAction
<1> QED BY <1>1, <1>2, <1>3 DEF ReportHonest

\* A review once asked for is what the report recommends, and a report that
\* recommends nothing has everything planned and selected behind it.
THEOREM ReportTheorem == Spec => []ReportHonest
<1>1. Init => NamedInv
    <2> SUFFICES ASSUME Init PROVE NamedInv
        OBVIOUS
    <2>1. Named(InitialEvents)
        BY DEF InitialEvents, Named, Event
    <2> QED BY <2>1 DEF Init, NamedInv
<1> QED BY <1>1, CallInit, CallStep, BalanceInit, BalanceStep, StoryInit, StoryStep,
           NamedStep, HonestReport, PTL DEF Spec

=============================================================================
