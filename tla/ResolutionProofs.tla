--------------------------- MODULE ResolutionProofs ---------------------------
(***************************************************************************)
(* Theorems about ResolutionCycle, for all claims, inventories and limits: *)
(* the cycle is an investigation of InvestigationRunner, so that what is   *)
(* proved there holds of it, and its verdicts only grow.                   *)
(***************************************************************************)
EXTENDS ResolutionCycle, SelectionProofs, TLAPS

\* The cycle's loop, with what is proved about it.
Proofs ==
    INSTANCE InvestigationProofs WITH
        Name <- GapIds,
        Target <- XId \X NeedType,
        Unit <- Nat,
        AtomId <- AtomName,
        CoreType <- Vocabulary,
        OtherType <- {},
        Normalizable <- {"usage_amount", "currency_amount", "service_period", "date"},
        Setups <- {Wired(BudgetOf(r)) : r \in Requests},
        StartStates <- UNION {FirstStates(c) : c \in Cases},
        Proposals <- {[tasks |-> <<>>, stop |-> "agenda_empty"]},
        Observations <- {},
        Atomizations <- Seq(CycleAtom),
        Guesses <- {},
        Reason <- {"agenda_empty"},
        MaxCalls <- 1

-----------------------------------------------------------------------------
(***************************************************************************)
(* The parameters the loop is given are of their types.                    *)
(***************************************************************************)

\* None is none of the things it stands in for.
LEMMA NoneApart ==
    /\ None \notin Nat /\ None \notin UnitName /\ None \notin Span
    /\ None \notin XId \X NeedType
    /\ None \notin [atoms : Nat, norms : Nat]
    /\ None \notin {"agenda_empty", "max_iterations_exhausted", "repeated_task_detected"}
  BY ResolverAssumption, CycleAssumption

\* The limits of a request are within the bounds of the loop.
LEMMA LimitType ==
    ASSUME NEW r \in Requests
    PROVE  StepsOf(r) \in 0 .. MaxSteps /\ BudgetOf(r) \in Nat
<1>1. /\ r.flag \in Int \cup {None} /\ r.manifest \in Int /\ r.budget \in Nat \cup {None}
      /\ r.flag # None => r.flag <= MaxSteps
      /\ r.manifest <= MaxSteps /\ DefaultSteps <= MaxSteps /\ MaxSteps \in Nat
    BY CycleAssumption
<1>2. StepsOf(r) \in 0 .. MaxSteps
    BY <1>1 DEF StepsOf, DefaultSteps
<1> QED BY <1>1, <1>2 DEF BudgetOf

\* What a case is made of.
LEMMA CaseType ==
    ASSUME NEW c \in Cases
    PROVE  /\ c.claims \in Seq(Claim) /\ c.units \in Seq(InventoryUnit) /\ c.lines \in Seq(Line)
           /\ Places(c.claims) \subseteq DOMAIN GapId
           /\ \A n \in DOMAIN c.lines : c.lines[n].amount = None <=> c.lines[n].unitName = None
  BY CycleAssumption DEF Case

\* The task planned for a gap is a task of the loop.
LEMMA GapTaskType ==
    ASSUME NEW c \in Cases, NEW k \in Places(c.claims),
           NEW type \in {"request_manual_review", "retrieve_candidate_units"}
    PROVE  GapTask(c.claims, type, k) \in Proofs!Task
<1>0. c.claims \in Seq(Claim) /\ k \in DOMAIN GapId
    BY CaseType
<1>1. /\ Len(c.claims) \in Nat
      /\ \A i \in 1 .. Len(c.claims) : c.claims[i] \in Claim
    BY <1>0, LenProperties, ElementOfSeq
<1>2. k \in 1 .. 5 * Len(c.claims)
    BY DEF Places
<1>3. ClaimAt(k) \in 1 .. Len(c.claims)
    BY <1>1, <1>2 DEF ClaimAt
<1>4. c.claims[ClaimAt(k)].x \in XId
    BY <1>1, <1>3 DEF Claim
<1>5. NeedAt(k) \in NeedType
  <2>1. ((k - 1) % 5) + 1 \in 1 .. 5
      BY <1>1, <1>2
  <2> QED BY <2>1 DEF NeedAt, NeedOrder, NeedType
<1>6. AllowedTypes(NeedAt(k)) \subseteq Vocabulary
    BY <1>5 DEF AllowedTypes, Vocabulary, NeedType
<1>7. <<GapId[k]>> \in Seq(GapIds \cup {"atomize", "normalize"})
    BY <1>0 DEF GapIds
<1>8. type \in Proofs!TaskType \cup {"other"}
    BY DEF Proofs!TaskType
<1>9. <<c.claims[ClaimAt(k)].x, NeedAt(k)>> \in XId \X NeedType
    BY <1>4, <1>5
<1>10. <<>> \in Seq(AtomName) /\ <<>> \in Seq(GapIds \cup {"atomize", "normalize"})
    BY EmptySeq
<1> QED BY <1>6, <1>7, <1>8, <1>9, <1>10 DEF GapTask, Proofs!Task, Proofs!TaskId

\* A start state is fresh: no history, all units, no atoms, a graph of nothing.
LEMMA StartStateType ==
    ASSUME NEW c \in Cases, NEW s \in FirstStates(c)
    PROVE  /\ s \in Proofs!State
           /\ s.completed = <<>> /\ s.events = <<>> /\ s.stop = None
           /\ \A n \in DOMAIN s.agenda : s.agenda[n].id # <<>>
           /\ s.units = DOMAIN c.units
           /\ s.atoms = <<>> /\ s.norms = <<>>
           /\ s.graph = [atoms |-> Len(s.atoms), norms |-> Len(s.norms)]
<1> DEFINE graph == Resolved(c.claims, NoReadings)
           task(k) == GapTask(c.claims, IF k \in Reviewed(c.claims, graph)
                                        THEN "request_manual_review"
                                        ELSE "retrieve_candidate_units", k)
           row == [k \in Places(c.claims) |-> task(k)]
           gaps == Reviewed(c.claims, graph) \cup Retrieved(c.claims, graph)
<1>1. PICK agenda \in GapPlans(c.claims, graph) :
          s = [agenda |-> agenda, completed |-> <<>>, units |-> DOMAIN c.units, atoms |-> <<>>,
               norms |-> <<>>, graph |-> [atoms |-> 0, norms |-> 0], stop |-> None,
               events |-> <<>>]
    BY DEF FirstStates
<1>2. agenda \in Picked(row, gaps)
    BY <1>1 DEF GapPlans
<1>3. \A k \in Places(c.claims) : task(k) \in Proofs!Task /\ task(k).id # <<>>
    <2>1. \A k \in Places(c.claims) : task(k) \in Proofs!Task
        BY GapTaskType
    <2>2. \A k : task(k).id = <<GapId[k]>>
        BY DEF GapTask
    <2> HIDE DEF task
    <2>3. \A x : <<x>> # <<>>
        OBVIOUS
    <2> QED BY <2>1, <2>2, <2>3
<1>4. 5 * Len(c.claims) \in Nat
    BY CaseType, LenProperties
<1> HIDE DEF task
<1>5. row \in Seq(Proofs!Task)
    BY <1>3, <1>4, IsASeq DEF Places
<1>6. gaps \in SUBSET DOMAIN row
    BY DEF Reviewed, Retrieved
<1>10. \A m \in DOMAIN row : row[m].id # <<>>
    BY <1>3
<1> HIDE DEF row, gaps
<1>7. /\ agenda \in Seq(Proofs!Task)
      /\ \A n \in DOMAIN agenda : \E m \in DOMAIN row : agenda[n] = row[m]
    BY <1>2, <1>5, <1>6, PickedType
<1>8. DOMAIN c.units \subseteq Nat
    BY CaseType, LenProperties
<1>9. /\ <<>> \in Seq(Proofs!Result) /\ <<>> \in Seq(Proofs!Atom) /\ <<>> \in Seq(AtomName)
      /\ <<>> \in Seq(Proofs!EventRecord) /\ Len(<<>>) = 0
    BY EmptySeq
<1>11. \A n \in DOMAIN agenda : agenda[n].id # <<>>
    BY <1>7, <1>10
<1> QED BY <1>1, <1>7, <1>8, <1>9, <1>11 DEF Proofs!State, Proofs!Graph

\* InvestigationRunner's assumption about its parameters holds of the cycle's.
LEMMA LoopAssumption == Proofs!InvestigationAssumption
<1>1. None \notin (XId \X NeedType) \cup Proofs!StopReasons \cup Proofs!Graph
    BY NoneApart DEF Proofs!StopReasons, Proofs!Graph
<1>2. {"usage_amount", "currency_amount", "service_period", "date"} \subseteq Vocabulary
      /\ Vocabulary \cap {} = {}
    BY DEF Vocabulary
<1>3. {Wired(BudgetOf(r)) : r \in Requests} \subseteq Proofs!Setup
  <2> SUFFICES ASSUME NEW r \in Requests PROVE Wired(BudgetOf(r)) \in Proofs!Setup
      OBVIOUS
  <2> QED BY LimitType DEF Wired, Proofs!Setup
<1>4. ASSUME NEW s \in UNION {FirstStates(c) : c \in Cases}
      PROVE  /\ s \in Proofs!State
             /\ s.completed = <<>> /\ s.events = <<>> /\ s.stop = None
             /\ \A n \in DOMAIN s.agenda : s.agenda[n].id # <<>>
             /\ s.graph # None => s.graph = [atoms |-> Len(s.atoms), norms |-> Len(s.norms)]
    BY StartStateType
<1>5. /\ {[tasks |-> <<>>, stop |-> "agenda_empty"]}
            \subseteq [tasks : Seq(Proofs!Task), stop : {"agenda_empty"} \cup {None}]
      /\ \A p \in {[tasks |-> <<>>, stop |-> "agenda_empty"]} :
            \A n \in DOMAIN p.tasks : p.tasks[n].id # <<>>
    BY EmptySeq
<1>6. Seq(CycleAtom) \subseteq Seq(Proofs!Atom)
    BY DEF CycleAtom, Proofs!Atom
<1>7. {} \subseteq Proofs!Observation /\ {} \subseteq Seq(AtomName) /\ MaxSteps \in Nat /\ 1 \in Nat
    BY CycleAssumption
<1> QED BY <1>1, <1>2, <1>3, <1>4, <1>5, <1>6, <1>7 DEF Proofs!InvestigationAssumption

-----------------------------------------------------------------------------
(***************************************************************************)
(* Loop and Proofs are instances of one module and name the same actions.  *)
(***************************************************************************)

\* Their effects on a state.
LEMMA SameOperators ==
    /\ \A s1, a1, b1, c1 : Loop!Recorded(s1, a1, b1, c1) = Proofs!Recorded(s1, a1, b1, c1)
    /\ \A s1, a1 : Loop!Planned(s1, a1) = Proofs!Planned(s1, a1)
    /\ \A s1, a1, b1 : Loop!Stopped(s1, a1, b1) = Proofs!Stopped(s1, a1, b1)
    /\ \A t1 : Loop!Fingerprint(t1) = Proofs!Fingerprint(t1)
    /\ \A t1, a1 : Loop!Acceptable(t1, a1) = Proofs!Acceptable(t1, a1)
    /\ \A a1 : Loop!Ids(a1) = Proofs!Ids(a1)
    /\ \A s1, t1, a1, b1, c1, d1, e1 : Loop!Completed(s1, t1, a1, b1, c1, d1, e1) = Proofs!Completed(s1, t1, a1, b1, c1, d1, e1)
    /\ \A t1, a1 : Loop!Admitted(t1, a1) = Proofs!Admitted(t1, a1)
    /\ \A t1, a1, b1 : Loop!Retained(t1, a1, b1) = Proofs!Retained(t1, a1, b1)
    /\ \A s1, a1 : Loop!Picked(s1, a1) = Proofs!Picked(s1, a1)
    /\ \A s1, t1, a1, b1, c1, d1, e1 : Loop!Completions(s1, t1, a1, b1, c1, d1, e1) = Proofs!Completions(s1, t1, a1, b1, c1, d1, e1)
    /\ \A s1, t1 : Loop!Preceded(s1, t1) = Proofs!Preceded(s1, t1)
    /\ \A t1, a1 : Loop!AtomizeTask(t1, a1) = Proofs!AtomizeTask(t1, a1)
    /\ \A t1, a1 : Loop!NormalizeTask(t1, a1) = Proofs!NormalizeTask(t1, a1)
    /\ \A a1, b1 : Loop!PendingNormalization(a1, b1) = Proofs!PendingNormalization(a1, b1)
    /\ \A s1 : Loop!Refreshed(s1) = Proofs!Refreshed(s1)
    /\ \A s1, t1 : Loop!Selected(s1, t1) = Proofs!Selected(s1, t1)
    /\ \A s1, t1 : Loop!NormalizerAnswers(s1, t1) = Proofs!NormalizerAnswers(s1, t1)
    /\ \A s1 : Loop!Exhausted(s1) = Proofs!Exhausted(s1)
    /\ \A s1, t1 : Loop!Followed(s1, t1) = Proofs!Followed(s1, t1)
<1>1. \A s1, a1, b1, c1 : Loop!Recorded(s1, a1, b1, c1) = Proofs!Recorded(s1, a1, b1, c1)
    BY DEF Loop!Recorded, Proofs!Recorded
<1>2. \A s1, a1 : Loop!Planned(s1, a1) = Proofs!Planned(s1, a1)
    BY <1>1 DEF Loop!Planned, Proofs!Planned
<1>3. \A s1, a1, b1 : Loop!Stopped(s1, a1, b1) = Proofs!Stopped(s1, a1, b1)
    BY <1>1 DEF Loop!Stopped, Proofs!Stopped
<1>4. \A t1 : Loop!Fingerprint(t1) = Proofs!Fingerprint(t1)
    BY DEF Loop!Fingerprint, Proofs!Fingerprint
<1>5. \A t1, a1 : Loop!Acceptable(t1, a1) = Proofs!Acceptable(t1, a1)
    BY DEF Loop!Acceptable, Proofs!Acceptable
<1>6. \A a1 : Loop!Ids(a1) = Proofs!Ids(a1)
    BY DEF Loop!Ids, Proofs!Ids
<1>7. \A s1, t1, a1, b1, c1, d1, e1 : Loop!Completed(s1, t1, a1, b1, c1, d1, e1) = Proofs!Completed(s1, t1, a1, b1, c1, d1, e1)
  <2> TAKE s1, t1, a1, b1, c1, d1, e1
  <2> QED BY DEF Loop!Completed, Proofs!Completed, Loop!Recorded, Proofs!Recorded
<1>8. \A t1, a1 : Loop!Admitted(t1, a1) = Proofs!Admitted(t1, a1)
    BY <1>5 DEF Loop!Admitted, Proofs!Admitted
<1>9. \A t1, a1, b1 : Loop!Retained(t1, a1, b1) = Proofs!Retained(t1, a1, b1)
    BY <1>8 DEF Loop!Retained, Proofs!Retained
<1>10. \A s1, a1 : Loop!Picked(s1, a1) = Proofs!Picked(s1, a1)
  <2>1. \A a2 : Loop!Cardinality(a2) = Proofs!Cardinality(a2)
    <3> TAKE a2
    <3> QED BY DEF Loop!Cardinality, Proofs!Cardinality
  <2>2. \A a2 : Loop!Ascending(a2) = Proofs!Ascending(a2)
      BY <2>1 DEF Loop!Ascending, Proofs!Ascending
  <2> QED BY <2>1, <2>2 DEF Loop!Picked, Proofs!Picked
<1>11. \A s1, t1, a1, b1, c1, d1, e1 : Loop!Completions(s1, t1, a1, b1, c1, d1, e1) = Proofs!Completions(s1, t1, a1, b1, c1, d1, e1)
    BY <1>7, <1>10, <1>8, <1>9 DEF Loop!Completions, Proofs!Completions
<1>12. \A s1, t1 : Loop!Preceded(s1, t1) = Proofs!Preceded(s1, t1)
    BY <1>2 DEF Loop!Preceded, Proofs!Preceded
<1>13. \A t1, a1 : Loop!AtomizeTask(t1, a1) = Proofs!AtomizeTask(t1, a1)
    BY DEF Loop!AtomizeTask, Proofs!AtomizeTask
<1>14. \A t1, a1 : Loop!NormalizeTask(t1, a1) = Proofs!NormalizeTask(t1, a1)
    BY DEF Loop!NormalizeTask, Proofs!NormalizeTask
<1>15. \A a1, b1 : Loop!PendingNormalization(a1, b1) = Proofs!PendingNormalization(a1, b1)
    BY DEF Loop!PendingNormalization, Proofs!PendingNormalization, Loop!Elements, Proofs!Elements
<1>16. \A s1 : Loop!Refreshed(s1) = Proofs!Refreshed(s1)
    BY <1>1 DEF Loop!Refreshed, Proofs!Refreshed
<1>17. \A s1, t1 : Loop!Selected(s1, t1) = Proofs!Selected(s1, t1)
    BY DEF Loop!Selected, Proofs!Selected, Loop!Elements, Proofs!Elements
<1>18. \A s1, t1 : Loop!NormalizerAnswers(s1, t1) = Proofs!NormalizerAnswers(s1, t1)
    BY <1>17, <1>10, <1>6 DEF Loop!NormalizerAnswers, Proofs!NormalizerAnswers
<1>19. \A s1 : Loop!Exhausted(s1) = Proofs!Exhausted(s1)
    BY DEF Loop!Exhausted, Proofs!Exhausted
<1>20. \A s1, t1 : Loop!Followed(s1, t1) = Proofs!Followed(s1, t1)
    BY <1>6, <1>15, <1>12, <1>14 DEF Loop!Followed, Proofs!Followed
<1> QED BY <1>1, <1>2, <1>3, <1>4, <1>5, <1>6, <1>7, <1>8, <1>9, <1>10, <1>11, <1>12, <1>13, <1>14, <1>15, <1>16, <1>17, <1>18, <1>19, <1>20

\* Their actions.
LEMMA SameActions ==
    /\ \A a1, b1 : Loop!Begin(a1, b1) <=> Proofs!Begin(a1, b1)
    /\ Loop!ReturnAgenda <=> Proofs!ReturnAgenda
    /\ Loop!StopRepeated <=> Proofs!StopRepeated
    /\ Loop!ExhaustBudget <=> Proofs!ExhaustBudget
    /\ \A t1, a1 : Loop!Retrieve(t1, a1) <=> Proofs!Retrieve(t1, a1)
    /\ \A t1, a1 : Loop!Atomize(t1, a1) <=> Proofs!Atomize(t1, a1)
    /\ \A t1, a1 : Loop!Normalize(t1, a1) <=> Proofs!Normalize(t1, a1)
    /\ Loop!Raise <=> Proofs!Raise
    /\ Loop!Next <=> Proofs!Next
<1>1. \A s1 : Loop!Return(s1) <=> Proofs!Return(s1)
    BY SameOperators DEF Loop!Return, Proofs!Return, Loop!given, Proofs!given
<1>2. Loop!MayStep <=> Proofs!MayStep
    BY SameOperators DEF Loop!MayStep, Proofs!MayStep, Loop!Fingerprint, Proofs!Fingerprint
<1>3. \A s1 : Loop!Step(s1) <=> Proofs!Step(s1)
    BY SameOperators, <1>1 DEF Loop!Step, Proofs!Step, Loop!given, Proofs!given, Loop!Fingerprint, Proofs!Fingerprint
<1>4. \A t1, a1 : Loop!Executes(t1, a1) <=> Proofs!Executes(t1, a1)
    BY SameOperators, <1>2 DEF Loop!Executes, Proofs!Executes
<1>5. \A t1, a1 : Loop!Complete(t1, a1) <=> Proofs!Complete(t1, a1)
    BY SameOperators, <1>3 DEF Loop!Complete, Proofs!Complete
<1>6. \A a1, b1 : Loop!Begin(a1, b1) <=> Proofs!Begin(a1, b1)
    BY SameOperators DEF Loop!Begin, Proofs!Begin, Loop!given, Proofs!given
<1>7. Loop!ReturnAgenda <=> Proofs!ReturnAgenda
    BY SameOperators, <1>1 DEF Loop!ReturnAgenda, Proofs!ReturnAgenda
<1>8. Loop!StopRepeated <=> Proofs!StopRepeated
    BY SameOperators, <1>1 DEF Loop!StopRepeated, Proofs!StopRepeated, Loop!Fingerprint, Proofs!Fingerprint
<1>9. Loop!ExhaustBudget <=> Proofs!ExhaustBudget
    BY SameOperators, <1>2, <1>3 DEF Loop!ExhaustBudget, Proofs!ExhaustBudget
<1>10. \A a1 : Loop!Plan(a1) <=> Proofs!Plan(a1)
    BY SameOperators, <1>2, <1>3 DEF Loop!Plan, Proofs!Plan
<1>11. \A t1, a1 : Loop!Retrieve(t1, a1) <=> Proofs!Retrieve(t1, a1)
    BY SameOperators, <1>4, <1>5, <1>3 DEF Loop!Retrieve, Proofs!Retrieve
<1>12. \A t1, a1 : Loop!Inspect(t1, a1) <=> Proofs!Inspect(t1, a1)
    BY SameOperators, <1>4, <1>3 DEF Loop!Inspect, Proofs!Inspect, Loop!Visual, Proofs!Visual
<1>13. \A t1, a1 : Loop!Atomize(t1, a1) <=> Proofs!Atomize(t1, a1)
    BY SameOperators, <1>4, <1>3 DEF Loop!Atomize, Proofs!Atomize
<1>14. \A t1, a1 : Loop!Normalize(t1, a1) <=> Proofs!Normalize(t1, a1)
    BY SameOperators, <1>4, <1>3 DEF Loop!Normalize, Proofs!Normalize
<1>15. \A t1 : Loop!RequestReview(t1) <=> Proofs!RequestReview(t1)
    BY SameOperators, <1>4, <1>5 DEF Loop!RequestReview, Proofs!RequestReview
<1>16. \A t1 : Loop!SkipStop(t1) <=> Proofs!SkipStop(t1)
    BY SameOperators, <1>4, <1>5 DEF Loop!SkipStop, Proofs!SkipStop
<1>17. \A t1 : Loop!FailTask(t1) <=> Proofs!FailTask(t1)
    BY SameOperators, <1>4, <1>5 DEF Loop!FailTask, Proofs!FailTask, Loop!Visual, Proofs!Visual
<1>18. Loop!Raise <=> Proofs!Raise
    BY SameOperators DEF Loop!Raise, Proofs!Raise, Loop!given, Proofs!given
<1>19. \A t1 : Loop!Execute(t1) <=> Proofs!Execute(t1)
    BY SameOperators, <1>11, <1>12, <1>13, <1>14, <1>15, <1>16, <1>17 DEF Loop!Execute, Proofs!Execute
<1>20. Loop!Next <=> Proofs!Next
    BY <1>6, <1>7, <1>8, <1>9, <1>10, <1>18, <1>19
       DEF Loop!Next, Proofs!Next, Loop!RunOnce, Proofs!RunOnce, Loop!RunAgenda, Proofs!RunAgenda,
           Loop!Rest, Proofs!Rest, Loop!vars, Proofs!vars, Loop!given, Proofs!given
<1> QED BY <1>6, <1>7, <1>8, <1>9, <1>11, <1>13, <1>14, <1>18, <1>20

-----------------------------------------------------------------------------
(***************************************************************************)
(* What a step makes of the material of the state a call builds.           *)
(***************************************************************************)

\* r has the units, atoms, normalizations and draft graph of s.
SameMaterial(s, r) ==
    r.units = s.units /\ r.atoms = s.atoms /\ r.norms = s.norms /\ r.graph = s.graph

Extends(p, q) == Len(p) <= Len(q) /\ \A n \in 1 .. Len(p) : q[n] = p[n]

\* r has the units of s, its atoms and normalizations first, and its draft
\* graph or one of all that r has.
Grown(s, r) ==
    /\ r.units = s.units
    /\ Extends(s.atoms, r.atoms) /\ Extends(s.norms, r.norms)
    /\ r.graph = s.graph \/ r.graph = [atoms |-> Len(r.atoms), norms |-> Len(r.norms)]

\* Atoms, normalizations and agenda of a state are sequences.
LEMMA MaterialType ==
    ASSUME NEW s \in Proofs!State
    PROVE  /\ s.atoms \in Seq(Proofs!Atom) /\ s.norms \in Seq(AtomName)
           /\ Len(s.atoms) \in Nat /\ Len(s.norms) \in Nat
           /\ s.agenda \in Seq(Proofs!Task)
<1>1. /\ s.atoms \in Seq(Proofs!Atom) /\ s.norms \in Seq(AtomName)
      /\ s.agenda \in Seq(Proofs!Task)
    BY DEF Proofs!State
<1> QED BY <1>1, LenProperties

\* What has the material of a grown state has grown.
LEMMA SameGrown ==
    ASSUME NEW s \in Proofs!State, NEW c, NEW r, Grown(s, c), SameMaterial(c, r)
    PROVE  Grown(s, r)
  BY DEF Grown, SameMaterial

\* A state has grown from itself.
LEMMA StaysGrown ==
    ASSUME NEW s \in Proofs!State
    PROVE  Grown(s, s)
  BY MaterialType DEF Grown, Extends

\* Stopping leaves the material alone ...
LEMMA StoppedMaterial ==
    ASSUME NEW s \in Proofs!State, NEW reason \in Proofs!StopReasons,
           NEW type \in {"stopped", "budget_exhausted"}
    PROVE  SameMaterial(s, Proofs!Stopped(s, reason, type))
<1>1. Proofs!SameButEvents([s EXCEPT !.stop = reason], Proofs!Stopped(s, reason, type))
    BY LoopAssumption, Proofs!StoppedType
<1> QED BY <1>1 DEF Proofs!SameButEvents, SameMaterial, Proofs!State

\* ... so does putting a task in front ...
LEMMA PrecededMaterial ==
    ASSUME NEW s \in Proofs!State, NEW t
    PROVE  SameMaterial(s, Proofs!Preceded(s, t))
  BY DEF Proofs!State, SameMaterial, Proofs!Preceded, Proofs!Planned, Proofs!Recorded

\* ... or behind.
LEMMA FollowedMaterial ==
    ASSUME NEW s \in Proofs!State, NEW t
    PROVE  SameMaterial(s, Proofs!Followed(s, t))
<1> DEFINE n == Proofs!NormalizeTask(t, Proofs!Ids(s.completed[Len(s.completed)].atoms))
<1>1. Proofs!Followed(s, t) = s \/ Proofs!Followed(s, t) = Proofs!Preceded(s, n)
    BY DEF Proofs!Followed
<1> HIDE DEF n
<1> QED BY <1>1, PrecededMaterial DEF SameMaterial

\* A concatenation begins with its first part.
LEMMA ConcatExtends ==
    ASSUME NEW S, NEW p \in Seq(S), NEW q \in Seq(S)
    PROVE  Extends(p, p \o q)
<1>1. /\ Len(p \o q) = Len(p) + Len(q) /\ Len(p) \in Nat /\ Len(q) \in Nat
      /\ \A n \in 1 .. Len(p) : (p \o q)[n] = p[n]
    BY ConcatProperties, LenProperties
<1> QED BY <1>1 DEF Extends

\* A task that selects no units leaves the graph and appends to the rest.
LEMMA CompletionGrows ==
    ASSUME NEW s \in Proofs!State, s.agenda # <<>>, NEW t \in Proofs!Task,
           NEW status \in Proofs!Status, NEW offered \in Seq(Proofs!Atom),
           NEW norms \in Seq(AtomName),
           NEW c \in Proofs!Completions(s, t, t.id, status, {}, offered, norms)
    PROVE  c \in Proofs!State /\ Grown(s, c)
<1>1. c \in Proofs!State
  <2>1. t.id \in Proofs!TaskId /\ {} \in SUBSET Nat
      BY DEF Proofs!Task
  <2>2. Proofs!Completes(s, c, t.id, status, offered, norms)
      BY <2>1, LoopAssumption, Proofs!CompletionType
  <2> QED BY <2>2 DEF Proofs!Completes
<1>2. PICK accepted \in Proofs!Picked(offered, Proofs!Admitted(t, offered)),
           kept \in Proofs!Picked(norms, Proofs!Retained(t, offered, norms)) :
          c = Proofs!Completed(s, t, t.id, status, {}, accepted, kept)
    BY DEF Proofs!Completions
<1>3. /\ Proofs!Admitted(t, offered) \in SUBSET DOMAIN offered
      /\ Proofs!Retained(t, offered, norms) \in SUBSET DOMAIN norms
    BY DEF Proofs!Admitted, Proofs!Retained
<1>4. accepted \in Seq(Proofs!Atom) /\ kept \in Seq(AtomName)
    BY <1>2, <1>3, LoopAssumption, Proofs!PickedType
<1>5. /\ c.units = s.units \cup {} /\ c.graph = s.graph
      /\ c.atoms = s.atoms \o accepted /\ c.norms = s.norms \o kept
    BY <1>2 DEF Proofs!Completed, Proofs!Recorded, Proofs!State
<1>6. Extends(s.atoms, c.atoms) /\ Extends(s.norms, c.norms)
    BY <1>4, <1>5, MaterialType, ConcatExtends
<1> QED BY <1>1, <1>5, <1>6 DEF Grown

-----------------------------------------------------------------------------
(***************************************************************************)
(* The inductive invariant, and what every step keeps.                     *)
(***************************************************************************)

\* The draft graph is of atoms and normalizations the state has.
Resolvable(s) ==
    /\ s.graph.atoms \in Nat /\ s.graph.atoms <= Len(s.atoms)
    /\ s.graph.norms \in Nat /\ s.graph.norms <= Len(s.norms)

\* The loop works on the units of the case, and within the limits.
Wiring ==
    /\ case \in Cases /\ request \in Requests
    /\ setup = Wired(BudgetOf(request))
    /\ state.units = DOMAIN case.units /\ current.units = DOMAIN case.units
    /\ phase \in {"idle", "agenda"} /\ left \in 0 .. MaxSteps
    /\ Resolvable(state) /\ Resolvable(current)

Inv == Wiring /\ Proofs!Inv

\* The invariant types both states.
LEMMA InvTypes ==
    ASSUME Inv
    PROVE  /\ state \in Proofs!State /\ current \in Proofs!State
           /\ phase = "idle" => current = state
  BY DEF Inv, Proofs!Inv, Proofs!TypeOK, Proofs!Ahead

\* A step other than an error goes on with, or returns, a state that has grown.
Moves ==
    /\ Grown(current, current')
    /\ state' \in {state, current'}
    /\ UNCHANGED <<case, request, setup>>
    /\ phase' \in {"idle", "agenda"} /\ left' \in 0 .. MaxSteps

\* A step to a grown state moves forward.
LEMMA StepMoves ==
    ASSUME Inv, NEW r, Grown(current, r), Proofs!MayStep, Proofs!Step(r),
           UNCHANGED <<case, request>>
    PROVE  Moves
<1>1. phase = "agenda" /\ left > 0 /\ left \in 0 .. MaxSteps /\ MaxSteps \in Nat
    BY CycleAssumption DEF Inv, Wiring, Proofs!MayStep
<1> QED BY <1>1 DEF Proofs!Step, Proofs!Return, Proofs!given, Moves

\* A call moves no material.
LEMMA CallMoves ==
    ASSUME Inv, Call
    PROVE  Moves /\ Proofs!Next
<1>1. Proofs!Begin("agenda", StepsOf(request)) /\ UNCHANGED <<case, request>>
    BY SameActions DEF Call
<1>2. StepsOf(request) \in 0 .. MaxSteps
    BY LimitType DEF Inv, Wiring
<1>3. Moves
    BY <1>1, <1>2, InvTypes, StaysGrown DEF Proofs!Begin, Proofs!given, Moves
<1> QED BY <1>1, <1>2, <1>3 DEF Proofs!Next, Proofs!RunAgenda

\* A return hands over what the call has built.
LEMMA ReturnMoves ==
    ASSUME Inv, Return
    PROVE  Moves /\ Proofs!Next
<1>0. 0 \in 0 .. MaxSteps
    BY CycleAssumption
<1>1. CASE Proofs!ReturnAgenda
  <2>1. Moves
      BY <1>0, <1>1, InvTypes, StaysGrown
         DEF Return, Proofs!ReturnAgenda, Proofs!Return, Proofs!given, Moves
  <2> QED BY <1>1, <2>1 DEF Proofs!Next
<1>2. CASE Proofs!StopRepeated
  <2> DEFINE r == Proofs!Stopped(current, "repeated_task_detected", "stopped")
  <2>1. SameMaterial(current, r)
      BY InvTypes, StoppedMaterial DEF Proofs!StopReasons
  <2>2. Proofs!Return(r)
      BY <1>2 DEF Proofs!StopRepeated
  <2> HIDE DEF r
  <2>3. Grown(current, r)
      BY <2>1, InvTypes, StaysGrown, SameGrown
  <2>4. Moves
      BY <1>0, <2>2, <2>3 DEF Return, Proofs!Return, Proofs!given, Moves
  <2> QED BY <1>2, <2>4 DEF Proofs!Next
<1> QED BY <1>1, <1>2, SameActions DEF Return

\* An exhausted budget moves no material.
LEMMA BudgetMoves ==
    ASSUME Inv, ExhaustBudget
    PROVE  Moves /\ Proofs!Next
<1> DEFINE r == Proofs!Stopped(current, "max_iterations_exhausted", "budget_exhausted")
<1>1. Proofs!ExhaustBudget /\ UNCHANGED <<case, request>>
    BY SameActions DEF ExhaustBudget
<1>2. SameMaterial(current, r)
    BY InvTypes, StoppedMaterial DEF Proofs!StopReasons
<1>3. Proofs!MayStep /\ Proofs!Step(r)
    BY <1>1 DEF Proofs!ExhaustBudget
<1> HIDE DEF r
<1>4. Grown(current, r)
    BY <1>2, InvTypes, StaysGrown, SameGrown
<1>5. Moves
    BY <1>1, <1>3, <1>4, StepMoves
<1> QED BY <1>1, <1>5 DEF Proofs!Next

\* The head of an agenda is a task.
LEMMA HeadType ==
    ASSUME Inv, current.agenda # <<>>
    PROVE  Head(current.agenda) \in Proofs!Task
  BY InvTypes, MaterialType, HeadTailProperties

\* Retrieval moves no material: it plans an atomize task at most.
LEMMA RetrieveMoves ==
    ASSUME Inv, current.agenda # <<>>, Retrieve(Head(current.agenda))
    PROVE  Moves /\ Proofs!Next
<1> DEFINE t == Head(current.agenda)
           selected == SelectedUnits(case.claims, case.units, t)
<1>1. Proofs!Retrieve(t, selected) /\ UNCHANGED <<case, request>>
    BY SameActions DEF Retrieve
<1>2. selected \in SUBSET current.units
    BY DEF Inv, Wiring, SelectedUnits, Matching
<1>3. t \in Proofs!Task /\ current \in Proofs!State
    BY HeadType, InvTypes
<1> HIDE DEF t, selected
<1>4. <<>> \in Seq(Proofs!Atom) /\ <<>> \in Seq(AtomName)
      /\ {"no_new_clue", "completed"} \subseteq Proofs!Status
    BY EmptySeq DEF Proofs!Status
<1>5. Proofs!MayStep
    BY <1>1 DEF Proofs!Retrieve, Proofs!Executes
<1>6. ASSUME Proofs!Complete(t, "no_new_clue") PROVE Moves
  <2>1. PICK s \in Proofs!Completions(current, t, t.id, "no_new_clue", {}, <<>>, <<>>) :
            Proofs!Step(s)
      BY <1>6 DEF Proofs!Complete
  <2>2. Grown(current, s)
      BY <1>3, <1>4, CompletionGrows
  <2> QED BY <1>1, <1>5, <2>1, <2>2, StepMoves
<1>7. ASSUME NEW s \in Proofs!Completions(current, t, t.id, "completed", {}, <<>>, <<>>),
             Proofs!Step(Proofs!Preceded(s, Proofs!AtomizeTask(t, selected)))
      PROVE  Moves
  <2>1. s \in Proofs!State /\ Grown(current, s)
      BY <1>3, <1>4, CompletionGrows
  <2>2. Grown(current, Proofs!Preceded(s, Proofs!AtomizeTask(t, selected)))
      BY <1>3, <2>1, PrecededMaterial, SameGrown
  <2> QED BY <1>1, <1>5, <1>7, <2>2, StepMoves
<1>8. Moves
    BY <1>1, <1>6, <1>7 DEF Proofs!Retrieve
<1> QED BY <1>1, <1>2, <1>8 DEF Proofs!Next, Proofs!Execute, t

\* What a line can be read as.
LEMMA ReadType ==
    ASSUME NEW c \in Cases, NEW n \in DOMAIN c.lines, NEW r \in Read(c.lines[n])
    PROVE  r \in Reading /\ r.type \in Vocabulary
<1> DEFINE l == c.lines[n]
<1>1. l \in Line /\ (l.amount = None <=> l.unitName = None)
    BY CaseType, LenProperties, ElementOfSeq
<1>2. /\ l.span \in Span \cup {None} /\ l.amount \in Nat \cup {None}
      /\ l.unitName \in UnitName \cup {None}
    BY <1>1 DEF Line
<1> HIDE DEF l
<1>3. r \in Read(l)
    BY DEF l
<1> QED BY <1>1, <1>2, <1>3 DEF Read, Says, Reading, Vocabulary

\* Atoms are typed, whatever lines they are read from.
LEMMA AtomizedType ==
    ASSUME NEW c \in Cases, NEW t \in Proofs!Task, NEW offered \in Atomized(c, t)
    PROVE  offered \in Seq(Proofs!Atom) /\ offered \in Seq(CycleAtom)
<1> DEFINE choice(l) == CHOOSE r \in Read(l) : TRUE
           atom(l, n) == [id |-> [task |-> t.id, n |-> n, says |-> choice(l)],
                          type |-> choice(l).type, sourced |-> TRUE]
<1>1. PICK lines \in Picked(c.lines, Legible(c, t.units)) :
          offered = [n \in DOMAIN lines |-> atom(lines[n], n)]
    BY DEF Atomized
<1>2. c.lines \in Seq(Line) /\ Legible(c, t.units) \in SUBSET DOMAIN c.lines
    BY CaseType DEF Legible
<1>3. /\ lines \in Seq(Line)
      /\ \A n \in DOMAIN lines : \E m \in Legible(c, t.units) : lines[n] = c.lines[m]
    BY <1>1, <1>2, PickedType
<1>4. Len(lines) \in Nat /\ DOMAIN lines = 1 .. Len(lines)
    BY <1>3, LenProperties
<1>5. ASSUME NEW n \in DOMAIN lines
      PROVE  atom(lines[n], n) \in CycleAtom
  <2>1. PICK m \in Legible(c, t.units) : lines[n] = c.lines[m]
      BY <1>3
  <2>2. m \in DOMAIN c.lines /\ Read(c.lines[m]) # {}
      BY DEF Legible
  <2>3. choice(lines[n]) \in Read(c.lines[m])
      BY <2>1, <2>2
  <2> HIDE DEF choice
  <2>4. choice(lines[n]) \in Reading /\ choice(lines[n]).type \in Vocabulary
      BY <2>2, <2>3, ReadType
  <2>5. t.id \in Seq(GapIds \cup {"atomize", "normalize"}) /\ n \in Nat
      BY <1>4 DEF Proofs!Task, Proofs!TaskId
  <2> QED BY <2>4, <2>5 DEF CycleAtom, AtomName
<1> HIDE DEF atom
<1>6. offered \in Seq(CycleAtom)
    BY <1>1, <1>4, <1>5, IsASeq
<1>7. CycleAtom = Proofs!Atom
    BY DEF CycleAtom, Proofs!Atom
<1> QED BY <1>6, <1>7

\* Atomizing appends atoms, after which the graph is resolved anew or stays.
LEMMA AtomizeMoves ==
    ASSUME Inv, current.agenda # <<>>, Atomize(Head(current.agenda))
    PROVE  Moves /\ Proofs!Next
<1> DEFINE t == Head(current.agenda)
<1>1. PICK offered \in Atomized(case, t) : Proofs!Atomize(t, offered)
    BY SameActions DEF Atomize
<1>2. UNCHANGED <<case, request>>
    BY DEF Atomize
<1>3. t \in Proofs!Task /\ current \in Proofs!State
    BY HeadType, InvTypes
<1>4. offered \in Seq(Proofs!Atom) /\ offered \in Seq(CycleAtom)
    BY <1>3, AtomizedType DEF Inv, Wiring
<1> HIDE DEF t
<1>5. <<>> \in Seq(AtomName) /\ "completed" \in Proofs!Status
    BY EmptySeq DEF Proofs!Status
<1>6. PICK s \in Proofs!Completions(current, t, t.id, "completed", {}, offered, <<>>) :
          Proofs!Step(Proofs!Followed(s, t))
    BY <1>1 DEF Proofs!Atomize
<1>7. Proofs!MayStep
    BY <1>1 DEF Proofs!Atomize, Proofs!Executes
<1>8. s \in Proofs!State /\ Grown(current, s)
    BY <1>3, <1>4, <1>5, CompletionGrows
<1>9. Grown(current, Proofs!Followed(s, t))
    BY <1>3, <1>8, FollowedMaterial, SameGrown
<1>10. Moves
    BY <1>2, <1>6, <1>7, <1>9, StepMoves
<1>11. Proofs!Next
    BY <1>1, <1>4 DEF Proofs!Next, Proofs!Execute, t
<1> QED BY <1>10, <1>11

\* Normalizing appends normalizations of atoms there are.
LEMMA NormalizeMoves ==
    ASSUME Inv, current.agenda # <<>>, Normalize(Head(current.agenda))
    PROVE  Moves /\ Proofs!Next
<1> DEFINE t == Head(current.agenda)
<1>1. PICK norms \in Proofs!NormalizerAnswers(current, t) : Proofs!Normalize(t, norms)
    BY SameActions, SameOperators DEF Normalize
<1>2. UNCHANGED <<case, request>>
    BY DEF Normalize
<1>3. t \in Proofs!Task /\ current \in Proofs!State
    BY HeadType, InvTypes
<1>4. Proofs!Next
    BY <1>1 DEF Proofs!Next, Proofs!Execute
<1> HIDE DEF t
<1>5. norms \in Seq(AtomName)
  <2>1. setup \in {Wired(BudgetOf(r)) : r \in Requests}
      BY DEF Inv, Wiring
  <2> QED BY <1>3, <2>1, LoopAssumption, Proofs!AnswerType
<1>6. <<>> \in Seq(Proofs!Atom) /\ "completed" \in Proofs!Status
    BY EmptySeq DEF Proofs!Status
<1>7. PICK s \in Proofs!Completions(current, t, t.id, "completed", {}, <<>>, norms) :
          Proofs!Step(Proofs!Refreshed(s))
    BY <1>1 DEF Proofs!Normalize
<1>8. Proofs!MayStep
    BY <1>1 DEF Proofs!Normalize, Proofs!Executes
<1>9. s \in Proofs!State /\ Grown(current, s)
    BY <1>3, <1>5, <1>6, CompletionGrows
<1>10. Grown(current, Proofs!Refreshed(s))
  <2> DEFINE r == Proofs!Refreshed(s)
  <2>1. setup.resolver
      BY DEF Inv, Wiring, Wired
  <2>2. /\ r.units = s.units /\ r.atoms = s.atoms /\ r.norms = s.norms
        /\ r.graph = [atoms |-> Len(s.atoms), norms |-> Len(s.norms)]
      BY <1>9, <2>1 DEF Proofs!Refreshed, Proofs!Recorded, Proofs!State
  <2> QED BY <1>9, <2>2 DEF Grown
<1>11. Moves
    BY <1>2, <1>7, <1>8, <1>10, StepMoves
<1> QED BY <1>4, <1>11

\* A normalizer that raises leaves the state the call began with.
LEMMA BreakRaises ==
    ASSUME Inv, NEW t, Break(t)
    PROVE  /\ Proofs!Next
           /\ current' = state /\ phase' = "idle" /\ left' = 0
           /\ UNCHANGED <<case, request, setup, state>>
<1>1. Proofs!Raise /\ UNCHANGED <<case, request>>
    BY SameActions DEF Break
<1> QED BY <1>1 DEF Proofs!Raise, Proofs!given, Proofs!Next

\* A draft graph can still be resolved from a grown state.
LEMMA ResolvableGrown ==
    ASSUME NEW s \in Proofs!State, NEW r \in Proofs!State, Grown(s, r), Resolvable(s)
    PROVE  Resolvable(r)
  BY MaterialType DEF Grown, Extends, Resolvable

\* Every step either moves forward or gives up the call, and is one of the loop.
LEMMA EveryStep ==
    ASSUME Inv, Next
    PROVE  /\ Proofs!Next \/ UNCHANGED Proofs!vars
           /\ \/ Moves
              \/ /\ current' = state /\ phase' = "idle" /\ left' = 0
                 /\ UNCHANGED <<case, request, setup, state>>
              \/ UNCHANGED vars
<1>1. CASE Call \/ Return \/ ExhaustBudget
    BY <1>1, CallMoves, ReturnMoves, BudgetMoves
<1>2. CASE current.agenda # <<>> /\ Execute(Head(current.agenda))
    BY <1>2, RetrieveMoves, AtomizeMoves, NormalizeMoves, BreakRaises DEF Execute
<1>3. CASE Rest
    BY <1>3 DEF Rest, vars, loop, Proofs!vars, Proofs!given
<1> QED BY <1>1, <1>2, <1>3 DEF Next

\* The invariant is inductive, and each step is one of the loop.
LEMMA InvNext ==
    ASSUME Inv, [Next]_vars
    PROVE  Inv' /\ (Proofs!Next \/ UNCHANGED Proofs!vars)
<1>1. /\ Proofs!Next \/ UNCHANGED Proofs!vars
      /\ \/ Moves
         \/ /\ current' = state /\ phase' = "idle" /\ left' = 0
            /\ UNCHANGED <<case, request, setup, state>>
         \/ UNCHANGED vars
    BY EveryStep DEF vars, loop, Proofs!vars, Proofs!given
<1>2. Proofs!Inv'
    BY <1>1, LoopAssumption, Proofs!InvStep DEF Inv
<1>3. /\ state \in Proofs!State /\ current \in Proofs!State
      /\ state' \in Proofs!State /\ current' \in Proofs!State
    BY <1>2, InvTypes DEF Proofs!Inv, Proofs!TypeOK
<1>4. CASE Moves
  <2>1. Resolvable(current) /\ Resolvable(state)
      BY DEF Inv, Wiring
  <2>2. Resolvable(current')
      BY <1>3, <1>4, <2>1, ResolvableGrown DEF Moves
  <2>3. Resolvable(state')
      BY <1>4, <2>1, <2>2 DEF Moves
  <2>4. Wiring'
      BY <1>4, <2>2, <2>3 DEF Moves, Grown, Inv, Wiring, Resolvable
  <2> QED BY <1>1, <1>2, <2>4 DEF Inv
<1>5. CASE /\ current' = state /\ phase' = "idle" /\ left' = 0
           /\ UNCHANGED <<case, request, setup, state>>
  <2>1. Wiring'
      BY <1>5, CycleAssumption DEF Inv, Wiring, Resolvable
  <2> QED BY <1>1, <1>2, <2>1 DEF Inv
<1>6. CASE UNCHANGED vars
  <2>1. Wiring'
      BY <1>6 DEF Inv, Wiring, Resolvable, vars, loop
  <2> QED BY <1>1, <1>2, <2>1 DEF Inv
<1> QED BY <1>1, <1>4, <1>5, <1>6

LEMMA InvInit == Init => Inv /\ Proofs!Init
<1> SUFFICES ASSUME Init PROVE Inv /\ Proofs!Init
    OBVIOUS
<1>1. case \in Cases /\ request \in Requests /\ start \in FirstStates(case)
      /\ setup = Wired(BudgetOf(request)) /\ state = start /\ current = state
      /\ phase = "idle" /\ left = 0 /\ seen = {} /\ calls = 0
    BY DEF Init
<1>2. Proofs!Init
    BY <1>1 DEF Proofs!Init
<1>3. Proofs!Inv
    BY <1>2, LoopAssumption, Proofs!InvInit
<1>4. /\ start.units = DOMAIN case.units /\ start.atoms = <<>> /\ start.norms = <<>>
      /\ start.graph = [atoms |-> Len(start.atoms), norms |-> Len(start.norms)]
    BY <1>1, StartStateType
<1>5. Resolvable(start)
    BY <1>4, EmptySeq DEF Resolvable
<1>6. Wiring
    BY <1>1, <1>4, <1>5, CycleAssumption DEF Wiring
<1> QED BY <1>2, <1>3, <1>6 DEF Inv

-----------------------------------------------------------------------------
(***************************************************************************)
(* The resolver: the more it is given, the more it says.                   *)
(***************************************************************************)

\* For all claims and readings: with more readings no edge is lost, no need
\* becomes missing, and a contradiction stays.
THEOREM ResolverMonotone ==
    ASSUME NEW claims, NEW i \in DOMAIN claims, NEW p, NEW q,
           DOMAIN p \subseteq DOMAIN q, \A a \in DOMAIN p : q[a] = p[a]
    PROVE  /\ Resolved(claims, p)[i].edges \subseteq Resolved(claims, q)[i].edges
           /\ Resolved(claims, q)[i].missing \subseteq Resolved(claims, p)[i].missing
           /\ Resolved(claims, p)[i].status = "contradicted"
                => Resolved(claims, q)[i].status = "contradicted"
<1> DEFINE E(f) == Edges(claims, i, f)
           M(f) == MissingNeeds(SpecOf(claims, i), E(f))
<1>1. ASSUME NEW f
      PROVE  /\ Resolved(claims, f)[i].edges = E(f)
             /\ Resolved(claims, f)[i].missing = M(f)
             /\ Resolved(claims, f)[i].status = StatusOf(E(f), M(f))
    BY DEF Resolved
<1>2. E(p) \subseteq E(q)
    BY DEF Edges
<1> HIDE DEF E
<1>3. SupportedNeeds(E(p)) \subseteq SupportedNeeds(E(q))
    BY <1>2 DEF SupportedNeeds
<1>4. M(q) \subseteq M(p)
    BY <1>3 DEF MissingNeeds
<1> HIDE DEF M
<1>5. ASSUME NEW f
      PROVE  StatusOf(E(f), M(f)) = "contradicted" <=> \E e \in E(f) : e.relation = "contradicts"
    BY DEF StatusOf
<1>6. StatusOf(E(p), M(p)) = "contradicted" => StatusOf(E(q), M(q)) = "contradicted"
    BY <1>2, <1>5
<1> QED BY <1>1, <1>2, <1>4, <1>6

\* What the draft graph of a state is resolved from.
Readings(s) ==
    [n \in {m \in 1 .. s.graph.norms :
              \E a \in 1 .. s.graph.atoms : s.atoms[a].id = s.norms[m]} |-> s.norms[n].says]

\* A grown state gives the resolver what it had first.
LEMMA ReadingsGrow ==
    ASSUME NEW s \in Proofs!State, NEW r \in Proofs!State, Grown(s, r), Resolvable(s)
    PROVE  /\ DOMAIN Readings(s) \subseteq DOMAIN Readings(r)
           /\ \A n \in DOMAIN Readings(s) : Readings(r)[n] = Readings(s)[n]
<1>1. /\ s.graph.atoms \in Nat /\ s.graph.atoms <= Len(s.atoms) /\ Len(s.atoms) \in Nat
      /\ s.graph.norms \in Nat /\ s.graph.norms <= Len(s.norms) /\ Len(s.norms) \in Nat
      /\ Len(r.atoms) \in Nat /\ Len(r.norms) \in Nat
    BY MaterialType DEF Resolvable
<1>2. 1 .. s.graph.atoms \subseteq 1 .. r.graph.atoms /\ 1 .. s.graph.norms \subseteq 1 .. r.graph.norms
    BY <1>1 DEF Grown, Extends
<1>3. /\ \A a \in 1 .. s.graph.atoms : r.atoms[a] = s.atoms[a]
      /\ \A n \in 1 .. s.graph.norms : r.norms[n] = s.norms[n]
    BY <1>1 DEF Grown, Extends
<1> QED BY <1>2, <1>3 DEF Readings

-----------------------------------------------------------------------------
(***************************************************************************)
(* Resolver and gap planner.                                               *)
(***************************************************************************)

\* Where a need of a claim stands in the row of all needs.
LEMMA NeedPlaces ==
    ASSUME NEW claims, Len(claims) \in Nat, NEW i \in 1 .. Len(claims), NEW n \in NeedType
    PROVE  \E k \in Places(claims) : ClaimAt(k) = i /\ NeedAt(k) = n
<1>1. PICK p \in 1 .. 5 : NeedOrder[p] = n
    BY DEF NeedOrder, NeedType
<1> DEFINE k == 5 * (i - 1) + p
<1>2. k \in 1 .. 5 * Len(claims)
    OBVIOUS
<1>3. (k - 1) \div 5 = i - 1 /\ (k - 1) % 5 = p - 1
    OBVIOUS
<1>4. ClaimAt(k) = i
    BY <1>3 DEF ClaimAt
<1>5. NeedAt(k) = NeedOrder[p]
    BY <1>3 DEF NeedAt
<1> QED BY <1>1, <1>2, <1>4, <1>5 DEF Places

\* With distinct claim ids both sides look at the claim itself.
LEMMA OwnNeeds ==
    ASSUME NEW claims, Len(claims) \in Nat, DOMAIN claims = 1 .. Len(claims),
           \A i, j \in DOMAIN claims : claims[i].x = claims[j].x => i = j,
           NEW i \in DOMAIN claims
    PROVE  SpecOf(claims, i) = claims[i] /\ PlannedNeeds(claims, i) = NeedsOf(claims[i])
<1>1. {j \in DOMAIN claims : claims[j].x = claims[i].x} = {i}
    OBVIOUS
<1>2. First({i}) = i /\ Last({i}) = i
    BY DEF First, Last
<1> QED BY <1>1, <1>2 DEF SpecOf, PlannedNeeds

\* The needs a plan has a task for, and the tasks.
OpenPlaces(claims, graph) == Reviewed(claims, graph) \cup Retrieved(claims, graph)

TaskAt(claims, graph, k) ==
    GapTask(claims, IF k \in Reviewed(claims, graph) THEN "request_manual_review"
                    ELSE "retrieve_candidate_units", k)

\* A plan has the task of each of them and no other.
LEMMA PlanTasks ==
    ASSUME NEW claims, Len(claims) \in Nat, NEW graph, NEW plan \in GapPlans(claims, graph)
    PROVE  /\ \A n \in DOMAIN plan : \E k \in OpenPlaces(claims, graph) :
                 plan[n] = TaskAt(claims, graph, k)
           /\ \A k \in OpenPlaces(claims, graph) : \E n \in DOMAIN plan :
                 plan[n] = TaskAt(claims, graph, k)
<1> DEFINE task(k) == TaskAt(claims, graph, k)
           row == [k \in Places(claims) |-> task(k)]
           S == {task(k) : k \in Places(claims)}
           gaps == OpenPlaces(claims, graph)
<1>1. plan \in Picked(row, gaps)
    BY DEF GapPlans, OpenPlaces, TaskAt
<1> HIDE DEF task
<1>2. row \in Seq(S)
  <2>1. 5 * Len(claims) \in Nat /\ \A k \in Places(claims) : task(k) \in S
      OBVIOUS
  <2> QED BY <2>1, IsASeq DEF Places
<1>3. gaps \in SUBSET DOMAIN row
    BY DEF OpenPlaces, Reviewed, Retrieved
<1>4. \A k \in gaps : row[k] = task(k)
    BY <1>3
<1> HIDE DEF row, gaps, S
<1>5. \A n \in DOMAIN plan : \E k \in gaps : plan[n] = row[k]
    BY <1>1, <1>2, <1>3, PickedType
<1>6. \A k \in gaps : \E n \in DOMAIN plan : plan[n] = row[k]
    BY <1>1, <1>2, <1>3, PickedAll
<1> QED BY <1>4, <1>5, <1>6 DEF gaps, task

\* Of claims with distinct ids it has one task for a target.
LEMMA PlanDistinct ==
    ASSUME NEW claims, Len(claims) \in Nat, DOMAIN claims = 1 .. Len(claims),
           \A i, j \in DOMAIN claims : claims[i].x = claims[j].x => i = j,
           NEW graph, NEW plan \in GapPlans(claims, graph)
    PROVE  \A m, n \in DOMAIN plan : plan[m].target = plan[n].target => m = n
<1> DEFINE task(k) == TaskAt(claims, graph, k)
           row == [k \in Places(claims) |-> task(k)]
           gaps == OpenPlaces(claims, graph)
<1>1. plan \in Picked(row, gaps)
    BY DEF GapPlans, OpenPlaces, TaskAt
<1>2. gaps \subseteq Places(claims)
    BY DEF OpenPlaces, Reviewed, Retrieved
<1>3. \A k : task(k).target = <<claims[ClaimAt(k)].x, NeedAt(k)>>
    BY DEF TaskAt, GapTask
<1> HIDE DEF task
<1>4. \A k \in gaps : row[k].target = <<claims[ClaimAt(k)].x, NeedAt(k)>>
    BY <1>2, <1>3
<1> HIDE DEF row, gaps
<1>5. ASSUME NEW j \in gaps, NEW k \in gaps, row[j].target = row[k].target
      PROVE  j = k
  <2>1. j \in 1 .. 5 * Len(claims) /\ k \in 1 .. 5 * Len(claims)
      BY <1>2 DEF Places
  <2>2. /\ ClaimAt(j) \in DOMAIN claims /\ ClaimAt(k) \in DOMAIN claims
      BY <2>1 DEF ClaimAt
  <2>3. /\ claims[ClaimAt(j)].x = claims[ClaimAt(k)].x
        /\ NeedAt(j) = NeedAt(k)
      BY <1>4, <1>5
  <2>4. ClaimAt(j) = ClaimAt(k)
      BY <2>2, <2>3
  <2>5. ((j - 1) % 5) + 1 \in 1 .. 5 /\ ((k - 1) % 5) + 1 \in 1 .. 5
      BY <2>1
  <2>6. \A a, b \in 1 .. 5 : NeedOrder[a] = NeedOrder[b] => a = b
      BY DEF NeedOrder
  <2>7. ((j - 1) % 5) + 1 = ((k - 1) % 5) + 1
      BY <2>3, <2>5, <2>6 DEF NeedAt
  <2>8. (j - 1) \div 5 = (k - 1) \div 5
      BY <2>1, <2>4 DEF ClaimAt
  <2> QED BY <2>1, <2>7, <2>8
<1>6. PICK f \in Ascending(gaps) : plan = [n \in 1 .. Cardinality(gaps) |-> row[f[n]]]
    BY <1>1 DEF Picked
<1>7. Cardinality(gaps) \in Nat
  <2>1. IsFiniteSet(1 .. 5 * Len(claims))
      BY FS_Interval
  <2> QED BY <1>2, <2>1, FS_Subset, FS_CardinalityType DEF Places
<1> SUFFICES ASSUME NEW m \in DOMAIN plan, NEW n \in DOMAIN plan,
                    plan[m].target = plan[n].target
             PROVE  m = n
    OBVIOUS
<1>8. m \in 1 .. Cardinality(gaps) /\ n \in 1 .. Cardinality(gaps)
    BY <1>6
<1>9. f[m] \in gaps /\ f[n] \in gaps
    BY <1>6, <1>8 DEF Ascending
<1>10. f[m] = f[n]
    BY <1>5, <1>6, <1>8, <1>9
<1>11. \A i, j \in 1 .. Cardinality(gaps) : i < j => f[i] < f[j]
    BY <1>6 DEF Ascending
<1>12. f[m] \in Nat
  <2>1. f[m] \in 1 .. 5 * Len(claims)
      BY <1>2, <1>9 DEF Places
  <2> QED BY <2>1
<1>13. ~(f[m] < f[n]) /\ ~(f[n] < f[m])
    BY <1>10, <1>12
<1> QED BY <1>7, <1>8, <1>11, <1>13

\* What plan_from_graph asks for is exactly what the resolver leaves open: a review
\* of each contradicted need, a search for each other missing one, and nothing else.
THEOREM PlannerFollows ==
    ASSUME NEW claims, Len(claims) \in Nat, DOMAIN claims = 1 .. Len(claims),
           \A i, j \in DOMAIN claims : claims[i].x = claims[j].x => i = j,
           NEW readings, NEW plan \in GapPlans(claims, Resolved(claims, readings))
    PROVE  Fits(plan, claims, Resolved(claims, readings))
<1> DEFINE graph == Resolved(claims, readings)
           E(i) == Edges(claims, i, readings)
           M(i) == MissingNeeds(claims[i], E(i))
           review == Reviewed(claims, graph)
           search == Retrieved(claims, graph)
           disputed(i, n) == \E e \in graph[i].edges : e.need = n /\ e.relation = "contradicts"
<1>1. \A i \in DOMAIN claims :
          SpecOf(claims, i) = claims[i] /\ PlannedNeeds(claims, i) = NeedsOf(claims[i])
    BY OwnNeeds
<1>2. \A i \in DOMAIN claims :
          graph[i].edges = E(i) /\ graph[i].missing = M(i) /\ graph[i].status = StatusOf(E(i), M(i))
    BY <1>1 DEF Resolved
<1>3. \A i \in DOMAIN claims : \A e \in E(i) : e.need \in NeedsOf(claims[i])
    BY <1>1 DEF Edges
<1>4. \A i \in DOMAIN claims : M(i) \subseteq NeedsOf(claims[i]) /\ NeedsOf(claims[i]) \subseteq NeedType
    BY DEF MissingNeeds, NeedsOf
<1>5. \A i : StatusOf(E(i), M(i)) = "contradicted" <=> \E e \in E(i) : e.relation = "contradicts"
    BY DEF StatusOf
<1>6. \A i : StatusOf(E(i), M(i)) \in {"supported_direct", "supported_after_unit_normalization"}
               => M(i) = {} /\ StatusOf(E(i), M(i)) # "contradicted"
    BY DEF StatusOf
<1>7. \A k \in Places(claims) : ClaimAt(k) \in DOMAIN claims /\ NeedAt(k) \in NeedType
  <2> TAKE k \in Places(claims)
  <2>1. k \in 1 .. 5 * Len(claims)
      BY DEF Places
  <2>2. ClaimAt(k) \in DOMAIN claims
      BY <2>1 DEF ClaimAt
  <2>3. ((k - 1) % 5) + 1 \in 1 .. 5
      BY <2>1
  <2> QED BY <2>2, <2>3 DEF NeedAt, NeedOrder, NeedType
<1> HIDE DEF graph, E, M
<1>8. \A k : k \in review <=>
          /\ k \in Places(claims) /\ NeedAt(k) \in NeedsOf(claims[ClaimAt(k)])
          /\ disputed(ClaimAt(k), NeedAt(k))
  <2> TAKE k
  <2>1. k \in review <=>
          /\ k \in Places(claims) /\ NeedAt(k) \in NeedsOf(claims[ClaimAt(k)])
          /\ Conflicting(claims, graph, ClaimAt(k), NeedAt(k))
      BY <1>1, <1>7 DEF Reviewed
  <2>2. ASSUME k \in Places(claims)
        PROVE  Conflicting(claims, graph, ClaimAt(k), NeedAt(k)) <=> disputed(ClaimAt(k), NeedAt(k))
    <3>1. ClaimAt(k) \in DOMAIN claims
        BY <1>7, <2>2
    <3>2. {m \in DOMAIN claims : claims[m].x = claims[ClaimAt(k)].x} = {ClaimAt(k)}
        BY <3>1
    <3>3. disputed(ClaimAt(k), NeedAt(k)) => graph[ClaimAt(k)].status = "contradicted"
        BY <1>2, <1>5, <3>1
    <3> QED BY <3>2, <3>3 DEF Conflicting
  <2> QED BY <2>1, <2>2
<1>9. \A k : k \in search <=>
          /\ k \in Places(claims) /\ k \notin review
          /\ NeedAt(k) \in NeedsOf(claims[ClaimAt(k)])
          /\ NeedAt(k) \in graph[ClaimAt(k)].missing
    BY <1>1, <1>7 DEF Retrieved
<1> HIDE DEF review, search
<1>10. \A k : /\ TaskAt(claims, graph, k).type = IF k \in review THEN "request_manual_review"
                                                ELSE "retrieve_candidate_units"
             /\ TaskAt(claims, graph, k).target = <<claims[ClaimAt(k)].x, NeedAt(k)>>
    BY DEF TaskAt, GapTask, review
<1>11. /\ \A n \in DOMAIN plan : \E k \in review \cup search : plan[n] = TaskAt(claims, graph, k)
       /\ \A k \in review \cup search : \E n \in DOMAIN plan : plan[n] = TaskAt(claims, graph, k)
    BY PlanTasks DEF OpenPlaces, graph, review, search
<1> DEFINE asks(i, n, type) ==
               \E k \in DOMAIN plan : plan[k].type = type /\ plan[k].target = <<claims[i].x, n>>
           stands(i, n, type) ==
               \E k \in review \cup search :
                  ClaimAt(k) = i /\ NeedAt(k) = n /\ TaskAt(claims, graph, k).type = type
<1>12. ASSUME NEW i \in DOMAIN claims, NEW n \in NeedType, NEW type
       PROVE  asks(i, n, type) <=> stands(i, n, type)
  <2>1. \A k \in review \cup search : ClaimAt(k) \in DOMAIN claims
      BY <1>7, <1>8, <1>9
  <2>2. \A k \in review \cup search :
          TaskAt(claims, graph, k).target = <<claims[i].x, n>> <=> ClaimAt(k) = i /\ NeedAt(k) = n
      BY <1>10, <2>1
  <2> QED BY <1>11, <2>2
<1>13. ASSUME NEW i \in DOMAIN claims, NEW n \in NeedType
       PROVE  /\ stands(i, n, "request_manual_review") <=> disputed(i, n)
              /\ stands(i, n, "retrieve_candidate_units")
                   <=> n \in graph[i].missing /\ ~disputed(i, n)
  <2>1. PICK k \in Places(claims) : ClaimAt(k) = i /\ NeedAt(k) = n
      BY NeedPlaces
  <2>2. disputed(i, n) \/ n \in graph[i].missing => n \in NeedsOf(claims[i])
      BY <1>2, <1>3, <1>4
  <2>3. \A m : TaskAt(claims, graph, m).type = IF m \in review THEN "request_manual_review"
                                               ELSE "retrieve_candidate_units"
      BY <1>10
  <2> HIDE DEF disputed
  <2>4. disputed(i, n) => k \in review
      BY <1>8, <2>1, <2>2
  <2>5. n \in graph[i].missing /\ ~disputed(i, n) => k \in search /\ k \notin review
      BY <1>8, <1>9, <2>1, <2>2
  <2>6. \A m \in review \cup search : ClaimAt(m) = i /\ NeedAt(m) = n =>
          /\ m \in review => disputed(i, n)
          /\ m \notin review => n \in graph[i].missing /\ ~disputed(i, n)
      BY <1>8, <1>9
  <2>7. stands(i, n, "request_manual_review") => disputed(i, n)
      BY <2>3, <2>6
  <2>8. disputed(i, n) => stands(i, n, "request_manual_review")
      BY <2>1, <2>3, <2>4
  <2>9. stands(i, n, "retrieve_candidate_units") => n \in graph[i].missing /\ ~disputed(i, n)
      BY <2>3, <2>6
  <2>10. n \in graph[i].missing /\ ~disputed(i, n) => stands(i, n, "retrieve_candidate_units")
      BY <2>1, <2>3, <2>5
  <2> HIDE DEF stands
  <2> QED BY <2>7, <2>8, <2>9, <2>10
<1>14. ASSUME NEW i \in DOMAIN claims, NEW n \in NeedType,
              graph[i].status \in {"supported_direct", "supported_after_unit_normalization"}
       PROVE  ~disputed(i, n) /\ n \notin graph[i].missing
    BY <1>2, <1>5, <1>6, <1>14
<1>15. ASSUME NEW k \in DOMAIN plan
       PROVE  /\ plan[k].type \in {"request_manual_review", "retrieve_candidate_units"}
              /\ plan[k].target \in {claims[i].x : i \in DOMAIN claims} \X NeedType
  <2>1. PICK m \in review \cup search : plan[k] = TaskAt(claims, graph, m)
      BY <1>11
  <2>2. ClaimAt(m) \in DOMAIN claims /\ NeedAt(m) \in NeedType
      BY <1>7, <1>8, <1>9
  <2>3. /\ plan[k].type = IF m \in review THEN "request_manual_review"
                          ELSE "retrieve_candidate_units"
        /\ plan[k].target = <<claims[ClaimAt(m)].x, NeedAt(m)>>
      BY <1>10, <2>1
  <2>4. plan[k].type \in {"request_manual_review", "retrieve_candidate_units"}
      BY <2>3
  <2>5. claims[ClaimAt(m)].x \in {claims[i].x : i \in DOMAIN claims}
      BY <2>2
  <2> QED BY <2>2, <2>3, <2>4, <2>5
<1>16. \A j, k \in DOMAIN plan : plan[j].target = plan[k].target => j = k
    BY PlanDistinct
<1> HIDE DEF asks, stands, disputed
<1>17. ASSUME NEW i \in DOMAIN claims, NEW n \in NeedType
       PROVE  /\ asks(i, n, "request_manual_review") <=> disputed(i, n)
              /\ asks(i, n, "retrieve_candidate_units")
                   <=> n \in graph[i].missing /\ ~disputed(i, n)
    BY <1>12, <1>13
<1> QED BY <1>14, <1>15, <1>16, <1>17 DEF Fits, asks, disputed, graph

-----------------------------------------------------------------------------
(***************************************************************************)
(* Why a cycle stops.                                                      *)
(***************************************************************************)

\* The follow-ups of a gap's task come in this order.
Stage(t) ==
    CASE t.type = "retrieve_candidate_units" -> 1
      [] t.type = "atomize_unit_cluster" -> 2
      [] t.type = "normalize_candidate" -> 3
      [] OTHER -> 0

\* Each gap of the start waits on the agenda or has been searched.
Searched(s) ==
    \A k \in DOMAIN start.agenda :
        \/ \E n \in DOMAIN s.agenda : s.agenda[n].id = start.agenda[k].id
        \/ \E n \in DOMAIN s.completed : s.completed[n].task = start.agenda[k].id

\* Tasks wait for different gaps, and each has come further than all that the
\* call has done for its gap.
Distinct(agenda) == \A m, n \in DOMAIN agenda : agenda[m].target = agenda[n].target => m = n

Further(agenda, done) ==
    \A n \in DOMAIN agenda : \A t \in done :
        t.target = agenda[n].target => Stage(t) < Stage(agenda[n])

\* The limits have been kept so far, and count what was done.
Counted(s, n) ==
    /\ s.stop = None
    /\ Len(s.completed) + n = StepsOf(request)
    /\ request.budget \notin {None, 0} => Len(s.completed) <= request.budget

\* A call returns for one of these reasons.
Ended(s) ==
    \/ s.stop = None /\ Searched(s) /\ (s.agenda = <<>> \/ Len(s.completed) = StepsOf(request))
    \/ /\ s.stop = "max_iterations_exhausted"
       /\ request.budget # None /\ Len(s.completed) = request.budget
    \/ s.stop = "repeated_task_detected" /\ ~DistinctIds

Course ==
    /\ start \in FirstStates(case)
    /\ phase = "agenda" =>
          /\ calls = 1 /\ state = start
          /\ Counted(current, left) /\ Searched(current)
          /\ DistinctIds => Distinct(current.agenda) /\ Further(current.agenda, seen)
    /\ phase = "idle" => state = start \/ (calls = 1 /\ Ended(state))

\* The start state of a case has an agenda of searches, one for each gap.
LEMMA StartDistinct ==
    ASSUME NEW c \in Cases, NEW s \in FirstStates(c),
           \A i, j \in DOMAIN c.claims : c.claims[i].x = c.claims[j].x => i = j
    PROVE  Distinct(s.agenda)
<1>1. PICK agenda \in GapPlans(c.claims, Resolved(c.claims, NoReadings)) :
          s = [agenda |-> agenda, completed |-> <<>>, units |-> DOMAIN c.units,
               atoms |-> <<>>, norms |-> <<>>, graph |-> [atoms |-> 0, norms |-> 0],
               stop |-> None, events |-> <<>>]
    BY DEF FirstStates
<1>2. s.agenda = agenda
    BY <1>1
<1>3. Len(c.claims) \in Nat /\ DOMAIN c.claims = 1 .. Len(c.claims)
    BY CaseType, LenProperties
<1>4. \A m, n \in DOMAIN agenda : agenda[m].target = agenda[n].target => m = n
    BY <1>3, PlanDistinct
<1> QED BY <1>2, <1>4 DEF Distinct

\* What executing the head t of the agenda makes of the state of a call.
Works(t, s) ==
    /\ s.stop = None
    /\ \E r \in Proofs!Result :
          s.completed = Append(current.completed, r) /\ r.task = t.id
    /\ \/ s.agenda = Tail(current.agenda)
       \/ \E f : /\ s.agenda = <<f>> \o Tail(current.agenda)
                  /\ f \in Proofs!Task /\ f.target = t.target /\ Stage(f) = Stage(t) + 1

\* Completing a task is work on it.
LEMMA CompletionWorks ==
    ASSUME Inv, current.agenda # <<>>, current.stop = None,
           NEW t \in Proofs!Task, NEW status \in Proofs!Status,
           NEW offered \in Seq(Proofs!Atom), NEW norms \in Seq(AtomName),
           NEW c \in Proofs!Completions(current, t, t.id, status, {}, offered, norms)
    PROVE  c \in Proofs!State /\ c.agenda = Tail(current.agenda) /\ Works(t, c)
<1>1. t.id \in Proofs!TaskId /\ {} \in SUBSET Nat
    BY DEF Proofs!Task
<1>2. Proofs!Completes(current, c, t.id, status, offered, norms)
    BY <1>1, InvTypes, LoopAssumption, Proofs!CompletionType
<1>3. PICK accepted \in Seq(Proofs!Atom) :
          c.completed = Append(current.completed,
             [task |-> t.id, status |-> status, atoms |-> accepted])
    BY <1>2 DEF Proofs!Completes
<1>4. [task |-> t.id, status |-> status, atoms |-> accepted] \in Proofs!Result
    BY <1>1 DEF Proofs!Result
<1> QED BY <1>2, <1>3, <1>4 DEF Proofs!Completes, Works

\* A follow-up put before what is left is a step further with the same gap.
LEMMA PrecededWorks ==
    ASSUME NEW t \in Proofs!Task, NEW f \in Proofs!Task,
           f.target = t.target, Stage(f) = Stage(t) + 1,
           NEW c \in Proofs!State, c.agenda = Tail(current.agenda), Works(t, c)
    PROVE  Works(t, Proofs!Preceded(c, f))
<1> DEFINE p == Proofs!Preceded(c, f)
<1>1. p.agenda = <<f>> \o c.agenda /\ p.completed = c.completed /\ p.stop = c.stop
    BY DEF Proofs!State, Proofs!Preceded, Proofs!Planned, Proofs!Recorded
<1> HIDE DEF p
<1>2. Works(t, p)
    BY <1>1 DEF Works
<1> QED BY <1>2 DEF p

\* A task has been executed in a call that goes on.
Worked ==
    LET t == Head(current.agenda)
    IN  /\ phase = "agenda" /\ left > 0 /\ current.agenda # <<>>
        /\ ~Proofs!Exhausted(current)
        /\ Works(t, current')
        /\ left' = left - 1
        /\ seen' = seen \cup {Proofs!Fingerprint(t)}
        /\ UNCHANGED <<case, request, setup, start, state, phase, calls>>

\* A step that works on the head of the agenda is worked.
LEMMA StepWorked ==
    ASSUME Inv, Proofs!MayStep, ~Proofs!Exhausted(current), current.agenda # <<>>,
           NEW s, Works(Head(current.agenda), s), Proofs!Step(s), UNCHANGED <<case, request>>
    PROVE  Worked
<1>1. phase = "agenda" /\ left > 0
    BY DEF Inv, Wiring, Proofs!MayStep
<1> QED BY <1>1 DEF Proofs!Step, Works, Worked, Proofs!given

\* Retrieval works on its task ...
LEMMA RetrieveWorked ==
    ASSUME Inv, current.agenda # <<>>, current.stop = None, Retrieve(Head(current.agenda))
    PROVE  Worked
<1> DEFINE t == Head(current.agenda)
           selected == SelectedUnits(case.claims, case.units, t)
           f == Proofs!AtomizeTask(t, selected)
<1>1. Proofs!Retrieve(t, selected) /\ UNCHANGED <<case, request>>
    BY SameActions DEF Retrieve
<1>2. selected \in SUBSET Nat
    BY CaseType, LenProperties DEF Inv, Wiring, SelectedUnits, Matching
<1>3. t \in Proofs!Task
    BY HeadType
<1>4. /\ Proofs!MayStep /\ ~Proofs!Exhausted(current)
      /\ t.type = "retrieve_candidate_units"
    BY <1>1 DEF Proofs!Retrieve, Proofs!Executes
<1> HIDE DEF selected
<1>5. f \in Proofs!Task /\ f.target = t.target /\ f.type = "atomize_unit_cluster"
  <2>1. Append(t.id, "atomize") \in Proofs!TaskId
      BY <1>3, AppendProperties DEF Proofs!Task, Proofs!TaskId
  <2>2. <<>> \in Seq(AtomName)
      BY EmptySeq
  <2> HIDE DEF t
  <2> QED BY <1>2, <1>3, <2>1, <2>2 DEF Proofs!AtomizeTask, Proofs!Task, Proofs!TaskType
<1> HIDE DEF t, f
<1>6. Stage(f) = Stage(t) + 1
    BY <1>4, <1>5 DEF Stage
<1>7. <<>> \in Seq(Proofs!Atom) /\ <<>> \in Seq(AtomName)
      /\ {"no_new_clue", "completed"} \subseteq Proofs!Status
    BY EmptySeq DEF Proofs!Status
<1>8. ASSUME NEW s \in Proofs!Completions(current, t, t.id, "no_new_clue", {}, <<>>, <<>>)
      PROVE  Works(t, s)
    BY <1>3, <1>7, CompletionWorks
<1>9. ASSUME NEW s \in Proofs!Completions(current, t, t.id, "completed", {}, <<>>, <<>>)
      PROVE  Works(t, Proofs!Preceded(s, f))
  <2>1. s \in Proofs!State /\ s.agenda = Tail(current.agenda) /\ Works(t, s)
      BY <1>3, <1>7, CompletionWorks
  <2> QED BY <1>3, <1>5, <1>6, <2>1, PrecededWorks
<1>10. \E s : Works(t, s) /\ Proofs!Step(s)
  <2>1. CASE selected = {}
      BY <1>1, <1>8, <2>1 DEF Proofs!Retrieve, Proofs!Complete
  <2>2. CASE selected # {}
      BY <1>1, <1>9, <2>2 DEF Proofs!Retrieve, f
  <2> QED BY <2>1, <2>2
<1> QED BY <1>1, <1>4, <1>10, StepWorked DEF t

\* ... so does atomizing ...
LEMMA AtomizeWorked ==
    ASSUME Inv, current.agenda # <<>>, current.stop = None, Atomize(Head(current.agenda))
    PROVE  Worked
<1> DEFINE t == Head(current.agenda)
<1>1. PICK offered \in Atomized(case, t) : Proofs!Atomize(t, offered)
    BY SameActions DEF Atomize
<1>2. UNCHANGED <<case, request>>
    BY DEF Atomize
<1>3. t \in Proofs!Task
    BY HeadType
<1>4. /\ Proofs!MayStep /\ ~Proofs!Exhausted(current)
      /\ t.type = "atomize_unit_cluster"
    BY <1>1 DEF Proofs!Atomize, Proofs!Executes
<1>5. offered \in Seq(Proofs!Atom)
    BY <1>3, AtomizedType DEF Inv, Wiring
<1>6. <<>> \in Seq(AtomName) /\ "completed" \in Proofs!Status
    BY EmptySeq DEF Proofs!Status
<1> HIDE DEF t
<1>7. PICK s \in Proofs!Completions(current, t, t.id, "completed", {}, offered, <<>>) :
          Proofs!Step(Proofs!Followed(s, t))
    BY <1>1 DEF Proofs!Atomize
<1>8. s \in Proofs!State /\ s.agenda = Tail(current.agenda) /\ Works(t, s)
    BY <1>3, <1>5, <1>6, CompletionWorks
<1> DEFINE ids == Proofs!Ids(s.completed[Len(s.completed)].atoms)
           f == Proofs!NormalizeTask(t, ids)
<1>9. CASE Proofs!Followed(s, t) = s
    BY <1>2, <1>4, <1>7, <1>8, <1>9, StepWorked DEF t
<1>10. CASE Proofs!Followed(s, t) = Proofs!Preceded(s, f)
  <2>1. ids \in Seq(AtomName)
    <3>1. s.completed \in Seq(Proofs!Result) /\ s.completed # <<>>
      <4>1. PICK r \in Proofs!Result : s.completed = Append(current.completed, r)
          BY <1>8 DEF Works
      <4>2. s.completed # <<>>
        <5>1. current.completed \in Seq(Proofs!Result)
            BY InvTypes DEF Proofs!State
        <5> DEFINE before == current.completed
        <5>2. Append(before, r) # <<>>
          <6> HIDE DEF before
          <6>1. before \in Seq(Proofs!Result)
              BY <5>1 DEF before
          <6> QED BY <6>1, AppendProperties
        <5> QED BY <4>1, <5>2
      <4> QED BY <1>8, <4>2 DEF Proofs!State
    <3> DEFINE l == Len(s.completed)
    <3>2. l \in DOMAIN s.completed
        BY <3>1, LenProperties, EmptySeq
    <3>3. s.completed[l] \in Proofs!Result
        BY <3>1, <3>2, LenProperties
    <3> DEFINE atoms == s.completed[l].atoms
    <3>4. atoms \in Seq(Proofs!Atom)
        BY <3>3 DEF Proofs!Result
    <3> HIDE DEF atoms
    <3>5. Proofs!Ids(atoms) \in Seq(AtomName)
      <4>1. Len(atoms) \in Nat /\ DOMAIN atoms = 1 .. Len(atoms)
            /\ \A n \in DOMAIN atoms : atoms[n] \in Proofs!Atom
          BY <3>4, LenProperties
      <4>2. \A n \in 1 .. Len(atoms) : atoms[n].id \in AtomName
          BY <4>1 DEF Proofs!Atom
      <4> QED BY <4>1, <4>2, IsASeq DEF Proofs!Ids
    <3> QED BY <3>5 DEF atoms
  <2> HIDE DEF ids
  <2>2. f \in Proofs!Task /\ f.target = t.target /\ f.type = "normalize_candidate"
    <3>1. Append(t.id, "normalize") \in Proofs!TaskId /\ <<>> \in Proofs!TaskId
        BY <1>3, AppendProperties, EmptySeq DEF Proofs!Task, Proofs!TaskId
    <3> QED BY <1>3, <2>1, <3>1 DEF Proofs!NormalizeTask, Proofs!Task, Proofs!TaskType
  <2> HIDE DEF f
  <2>3. Stage(f) = Stage(t) + 1
      BY <1>4, <2>2 DEF Stage
  <2>4. Works(t, Proofs!Followed(s, t))
      BY <1>3, <1>8, <1>10, <2>2, <2>3, PrecededWorks
  <2> QED BY <1>2, <1>4, <1>7, <2>4, StepWorked DEF t
<1> QED BY <1>9, <1>10 DEF Proofs!Followed

\* ... and normalizing.
LEMMA NormalizeWorked ==
    ASSUME Inv, current.agenda # <<>>, current.stop = None, Normalize(Head(current.agenda))
    PROVE  Worked
<1> DEFINE t == Head(current.agenda)
<1>1. PICK norms \in Proofs!NormalizerAnswers(current, t) : Proofs!Normalize(t, norms)
    BY SameActions, SameOperators DEF Normalize
<1>2. UNCHANGED <<case, request>>
    BY DEF Normalize
<1>3. t \in Proofs!Task /\ current \in Proofs!State
    BY HeadType, InvTypes
<1>4. Proofs!MayStep /\ ~Proofs!Exhausted(current)
    BY <1>1 DEF Proofs!Normalize, Proofs!Executes
<1> HIDE DEF t
<1>5. norms \in Seq(AtomName)
  <2>1. setup \in {Wired(BudgetOf(r)) : r \in Requests}
      BY DEF Inv, Wiring
  <2> QED BY <1>3, <2>1, LoopAssumption, Proofs!AnswerType
<1>6. <<>> \in Seq(Proofs!Atom) /\ "completed" \in Proofs!Status
    BY EmptySeq DEF Proofs!Status
<1>7. PICK s \in Proofs!Completions(current, t, t.id, "completed", {}, <<>>, norms) :
          Proofs!Step(Proofs!Refreshed(s))
    BY <1>1 DEF Proofs!Normalize
<1>8. s \in Proofs!State /\ Works(t, s)
    BY <1>3, <1>5, <1>6, CompletionWorks
<1>9. Works(t, Proofs!Refreshed(s))
  <2> DEFINE r == Proofs!Refreshed(s)
  <2>1. r.agenda = s.agenda /\ r.completed = s.completed /\ r.stop = s.stop
      BY <1>8 DEF Proofs!Refreshed, Proofs!Recorded, Proofs!State
  <2> HIDE DEF r
  <2>2. Works(t, r)
      BY <1>8, <2>1 DEF Works
  <2> QED BY <2>2 DEF r
<1> QED BY <1>2, <1>4, <1>7, <1>9, StepWorked DEF t

\* The limits of a request are numbers.
LEMMA LimitsOf ==
    ASSUME Inv
    PROVE  /\ StepsOf(request) \in Nat /\ left \in Nat
           /\ setup.maxIterations = BudgetOf(request)
           /\ request.budget \in Nat \cup {None} /\ None \notin Nat
  BY LimitType, NoneApart, CycleAssumption DEF Inv, Wiring, Wired

\* Completed tasks and agenda are sequences with places.
LEMMA CompletedType ==
    ASSUME NEW s \in Proofs!State
    PROVE  /\ s.completed \in Seq(Proofs!Result) /\ s.agenda \in Seq(Proofs!Task)
           /\ Len(s.completed) \in Nat /\ DOMAIN s.completed = 1 .. Len(s.completed)
           /\ Len(s.agenda) \in Nat /\ DOMAIN s.agenda = 1 .. Len(s.agenda)
           /\ \A n \in DOMAIN s.agenda : s.agenda[n] \in Proofs!Task
<1>1. s.completed \in Seq(Proofs!Result) /\ s.agenda \in Seq(Proofs!Task)
    BY DEF Proofs!State
<1> QED BY <1>1, LenProperties

\* The places of a sequence that starts with f.
LEMMA FrontedPlaces ==
    ASSUME NEW S, NEW f \in S, NEW s \in Seq(S)
    PROVE  /\ <<f>> \o s \in Seq(S)
           /\ DOMAIN (<<f>> \o s) = 1 .. Len(s) + 1
           /\ (<<f>> \o s)[1] = f
           /\ \A n \in DOMAIN s : (<<f>> \o s)[n + 1] = s[n]
           /\ \A n \in DOMAIN (<<f>> \o s) : n # 1 =>
                 n - 1 \in DOMAIN s /\ (<<f>> \o s)[n] = s[n - 1]
<1>1. <<f>> \in Seq(S) /\ Len(<<f>>) = 1 /\ <<f>>[1] = f
    OBVIOUS
<1>2. Len(s) \in Nat /\ DOMAIN s = 1 .. Len(s)
    BY LenProperties
<1> DEFINE one == <<f>>
<1>3. one \in Seq(S) /\ Len(one) = 1 /\ one[1] = f
    BY <1>1
<1> HIDE DEF one
<1>4. /\ one \o s \in Seq(S) /\ Len(one \o s) = 1 + Len(s)
      /\ \A i \in 1 .. Len(one) + Len(s) :
            (one \o s)[i] = IF i <= Len(one) THEN one[i] ELSE s[i - Len(one)]
    BY <1>3, ConcatProperties
<1>5. DOMAIN (one \o s) = 1 .. Len(s) + 1
    BY <1>2, <1>4, LenProperties
<1>6. /\ one \o s \in Seq(S) /\ (one \o s)[1] = f
      /\ \A n \in DOMAIN s : (one \o s)[n + 1] = s[n]
      /\ \A n \in DOMAIN (one \o s) : n # 1 =>
            n - 1 \in DOMAIN s /\ (one \o s)[n] = s[n - 1]
    BY <1>2, <1>3, <1>4, <1>5
<1> QED BY <1>5, <1>6 DEF one

\* Places move up by one in the tail.
LEMMA TailPlaces ==
    ASSUME NEW S, NEW s \in Seq(S), s # <<>>
    PROVE  /\ Tail(s) \in Seq(S) /\ Len(s) \in Nat /\ Head(s) = s[1] /\ 1 \in DOMAIN s
           /\ DOMAIN s = 1 .. Len(s)
           /\ DOMAIN Tail(s) = 1 .. Len(s) - 1
           /\ \A n \in DOMAIN Tail(s) : n + 1 \in DOMAIN s /\ Tail(s)[n] = s[n + 1]
           /\ \A n \in DOMAIN s : n # 1 => n - 1 \in DOMAIN Tail(s) /\ Tail(s)[n - 1] = s[n]
<1>1. Len(s) \in Nat /\ DOMAIN s = 1 .. Len(s) /\ Len(s) # 0
    BY LenProperties, EmptySeq
<1>2. /\ Tail(s) \in Seq(S) /\ Len(Tail(s)) = Len(s) - 1
      /\ \A i \in 1 .. Len(Tail(s)) : Tail(s)[i] = s[i + 1]
      /\ Head(s) = s[1]
    BY HeadTailProperties
<1>3. DOMAIN Tail(s) = 1 .. Len(s) - 1
    BY <1>2, LenProperties
<1> QED BY <1>1, <1>2, <1>3

\* Places stay when an element is appended.
LEMMA AppendPlaces ==
    ASSUME NEW S, NEW s \in Seq(S), NEW e \in S
    PROVE  /\ Len(Append(s, e)) = Len(s) + 1 /\ Len(s) \in Nat
           /\ DOMAIN Append(s, e) = 1 .. Len(s) + 1 /\ DOMAIN s = 1 .. Len(s)
           /\ \A n \in DOMAIN s : Append(s, e)[n] = s[n]
           /\ Append(s, e)[Len(s) + 1] = e
<1>1. Len(s) \in Nat /\ DOMAIN s = 1 .. Len(s)
    BY LenProperties
<1>2. /\ Append(s, e) \in Seq(S) /\ Len(Append(s, e)) = Len(s) + 1
      /\ \A i \in 1 .. Len(s) : Append(s, e)[i] = s[i]
      /\ Append(s, e)[Len(s) + 1] = e
    BY AppendProperties
<1>3. DOMAIN Append(s, e) = 1 .. Len(s) + 1
    BY <1>2, LenProperties
<1> QED BY <1>1, <1>2, <1>3

\* An executed task is recorded, and whatever else was planned stays so.
LEMMA SearchedOn ==
    ASSUME NEW c \in Proofs!State, NEW s, c.agenda # <<>>, Searched(c),
           NEW r \in Proofs!Result, s.completed = Append(c.completed, r), r.task = Head(c.agenda).id,
           \/ s.agenda = Tail(c.agenda)
           \/ \E f \in Proofs!Task : s.agenda = <<f>> \o Tail(c.agenda)
    PROVE  Searched(s)
<1> DEFINE rest == Tail(c.agenda)
<1>1. /\ rest \in Seq(Proofs!Task) /\ Head(c.agenda) = c.agenda[1]
      /\ \A n \in DOMAIN c.agenda : n # 1 => n - 1 \in DOMAIN rest /\ rest[n - 1] = c.agenda[n]
    BY CompletedType, TailPlaces
<1>2. /\ DOMAIN s.completed = 1 .. Len(c.completed) + 1 /\ Len(c.completed) \in Nat
      /\ DOMAIN c.completed = 1 .. Len(c.completed)
      /\ \A n \in DOMAIN c.completed : s.completed[n] = c.completed[n]
      /\ s.completed[Len(c.completed) + 1] = r
    BY CompletedType, AppendPlaces
<1> HIDE DEF rest
<1>3. \A n \in DOMAIN rest : \E m \in DOMAIN s.agenda : s.agenda[m] = rest[n]
  <2>1. CASE s.agenda = rest
      BY <2>1
  <2>2. ASSUME NEW f \in Proofs!Task, s.agenda = <<f>> \o rest
        PROVE  \A n \in DOMAIN rest : \E m \in DOMAIN s.agenda : s.agenda[m] = rest[n]
    <3>1. /\ DOMAIN s.agenda = 1 .. Len(rest) + 1
          /\ \A n \in DOMAIN rest : s.agenda[n + 1] = rest[n]
        BY <1>1, <2>2, FrontedPlaces
    <3>2. DOMAIN rest = 1 .. Len(rest) /\ Len(rest) \in Nat
        BY <1>1, LenProperties
    <3> QED BY <3>1, <3>2
  <2> QED BY <2>1, <2>2 DEF rest
<1>4. ASSUME NEW k \in DOMAIN start.agenda
      PROVE  \/ \E n \in DOMAIN s.agenda : s.agenda[n].id = start.agenda[k].id
             \/ \E n \in DOMAIN s.completed : s.completed[n].task = start.agenda[k].id
  <2>1. CASE \E n \in DOMAIN c.completed : c.completed[n].task = start.agenda[k].id
      BY <1>2, <2>1
  <2>2. ASSUME NEW n \in DOMAIN c.agenda, c.agenda[n].id = start.agenda[k].id
        PROVE  \/ \E m \in DOMAIN s.agenda : s.agenda[m].id = start.agenda[k].id
               \/ \E m \in DOMAIN s.completed : s.completed[m].task = start.agenda[k].id
    <3>1. CASE n = 1
      <4>1. Len(c.completed) + 1 \in DOMAIN s.completed
          BY <1>2
      <4> QED BY <1>1, <1>2, <2>2, <3>1, <4>1
    <3>2. CASE n # 1
        BY <1>1, <1>3, <2>2, <3>2
    <3> QED BY <3>1, <3>2
  <2> QED BY <2>1, <2>2 DEF Searched
<1> QED BY <1>4 DEF Searched

\* A follow-up is further than all that was done, and nothing else is touched.
LEMMA FurtherOn ==
    ASSUME NEW agenda \in Seq(Proofs!Task), agenda # <<>>, NEW done, NEW after,
           Distinct(agenda), Further(agenda, done),
           \/ after = Tail(agenda)
           \/ \E f \in Proofs!Task : /\ after = <<f>> \o Tail(agenda)
                                     /\ f.target = Head(agenda).target
                                     /\ Stage(f) = Stage(Head(agenda)) + 1
    PROVE  Distinct(after) /\ Further(after, done \cup {Proofs!Fingerprint(Head(agenda))})
<1> DEFINE rest == Tail(agenda)
           t == Head(agenda)
           print == Proofs!Fingerprint(t)
<1>1. /\ rest \in Seq(Proofs!Task) /\ t = agenda[1] /\ 1 \in DOMAIN agenda
      /\ Len(agenda) \in Nat /\ DOMAIN agenda = 1 .. Len(agenda)
      /\ DOMAIN rest = 1 .. Len(agenda) - 1
      /\ \A n \in DOMAIN rest : n + 1 \in DOMAIN agenda /\ rest[n] = agenda[n + 1]
    BY TailPlaces
<1>2. t \in Proofs!Task
    BY HeadTailProperties
<1>3. print.target = t.target /\ print.type = t.type
    BY <1>2 DEF Proofs!Fingerprint, Proofs!Task
<1>4. Stage(print) = Stage(t) /\ Stage(t) \in Nat
    BY <1>3 DEF Stage
<1> HIDE DEF rest, t, print
<1>5. /\ Distinct(rest) /\ Further(rest, done)
      /\ \A n \in DOMAIN rest : rest[n].target # t.target
  <2>1. \A n \in DOMAIN rest : n \in Nat /\ n + 1 # 1
      BY <1>1
  <2> QED BY <1>1, <2>1 DEF Distinct, Further
<1>6. Further(rest, done \cup {print})
    BY <1>3, <1>5 DEF Further
<1>7. CASE after = rest
    BY <1>5, <1>6, <1>7 DEF print, t
<1>8. ASSUME NEW f \in Proofs!Task, after = <<f>> \o rest, f.target = t.target,
             Stage(f) = Stage(t) + 1
      PROVE  Distinct(after) /\ Further(after, done \cup {print})
  <2>1. /\ DOMAIN after = 1 .. Len(rest) + 1 /\ after[1] = f
        /\ \A n \in DOMAIN after : n # 1 => n - 1 \in DOMAIN rest /\ after[n] = rest[n - 1]
    <3>1. /\ DOMAIN (<<f>> \o rest) = 1 .. Len(rest) + 1 /\ (<<f>> \o rest)[1] = f
          /\ \A n \in DOMAIN (<<f>> \o rest) : n # 1 =>
                n - 1 \in DOMAIN rest /\ (<<f>> \o rest)[n] = rest[n - 1]
        BY <1>1, FrontedPlaces
    <3> QED BY <1>8, <3>1
  <2>2. Len(rest) \in Nat /\ DOMAIN rest = 1 .. Len(rest)
      BY <1>1, LenProperties
  <2>3. Distinct(after)
    <3> SUFFICES ASSUME NEW m \in DOMAIN after, NEW n \in DOMAIN after,
                        after[m].target = after[n].target
                 PROVE  m = n
        BY DEF Distinct
    <3>0. m \in Nat /\ n \in Nat
        BY <2>1
    <3>1. CASE m = 1 /\ n # 1
        BY <1>5, <1>8, <2>1, <3>1
    <3>2. CASE m # 1 /\ n = 1
        BY <1>5, <1>8, <2>1, <3>2
    <3>3. CASE m # 1 /\ n # 1
      <4>1. m - 1 \in DOMAIN rest /\ n - 1 \in DOMAIN rest
            /\ rest[m - 1].target = rest[n - 1].target
          BY <2>1, <3>3
      <4>2. m - 1 = n - 1
          BY <1>5, <4>1 DEF Distinct
      <4> QED BY <3>0, <4>2
    <3> QED BY <3>1, <3>2, <3>3
  <2>4. Further(after, done \cup {print})
    <3> SUFFICES ASSUME NEW n \in DOMAIN after, NEW u \in done \cup {print},
                        u.target = after[n].target
                 PROVE  Stage(u) < Stage(after[n])
        BY DEF Further
    <3>1. CASE n = 1 /\ u = print
        BY <1>4, <1>8, <2>1, <3>1
    <3>2. CASE n = 1 /\ u \in done
      <4>1. u.target = agenda[1].target
          BY <1>1, <1>8, <2>1, <3>2
      <4>2. Stage(u) < Stage(t)
          BY <1>1, <3>2, <4>1 DEF Further
      <4>3. Stage(u) \in Nat
          BY DEF Stage
      <4> QED BY <1>4, <1>8, <2>1, <3>2, <4>2, <4>3
    <3>3. CASE n # 1
        BY <1>6, <2>1, <3>3 DEF Further
    <3> QED BY <3>1, <3>2, <3>3
  <2> QED BY <2>3, <2>4
<1> QED BY <1>7, <1>8 DEF rest, t, print

\* The start: every gap is still to be searched, each once.
LEMMA CourseInit == Init => Course
<1> SUFFICES ASSUME Init PROVE Course
    OBVIOUS
<1> QED BY DEF Init, Course

\* The one call of a cycle begins at its start.
LEMMA CourseCall ==
    ASSUME Inv, Course, Call
    PROVE  Course'
<1>1. /\ phase = "idle" /\ calls < 1 /\ phase' = "agenda" /\ left' = StepsOf(request)
      /\ current' = state /\ seen' = {} /\ calls' = calls + 1
      /\ UNCHANGED <<case, request, setup, start, state>>
    BY SameActions DEF Call, Proofs!Begin, Proofs!given
<1>2. calls' = 1 /\ calls # 1
  <2>1. calls \in 0 .. 1
      BY DEF Inv, Proofs!Inv, Proofs!TypeOK
  <2> QED BY <1>1, <2>1
<1>3. state = start /\ start \in FirstStates(case)
    BY <1>1, <1>2 DEF Course
<1>4. /\ start \in Proofs!State /\ start.completed = <<>> /\ start.stop = None
    BY <1>3, StartStateType DEF Inv, Wiring
<1>5. Counted(start, StepsOf(request))
    BY <1>4, LimitsOf, EmptySeq DEF Counted
<1>6. Searched(start)
    BY DEF Searched
<1>7. DistinctIds => Distinct(start.agenda)
    BY <1>3, StartDistinct DEF Inv, Wiring, DistinctIds
<1>8. Further(start.agenda, {})
    BY DEF Further
<1> QED BY <1>1, <1>2, <1>3, <1>5, <1>6, <1>7, <1>8
    DEF Course, Counted, Searched, DistinctIds, Ended

\* A call that returns has a true reason to.
LEMMA CourseReturn ==
    ASSUME Inv, Course, Return
    PROVE  Course'
<1>1. /\ phase = "agenda" /\ phase' = "idle"
      /\ UNCHANGED <<case, request, setup, start, calls>>
    BY SameActions DEF Return, Proofs!ReturnAgenda, Proofs!StopRepeated, Proofs!Return, Proofs!given
<1>2. /\ calls = 1 /\ start \in FirstStates(case) /\ Counted(current, left) /\ Searched(current)
      /\ DistinctIds => Distinct(current.agenda) /\ Further(current.agenda, seen)
    BY <1>1 DEF Course
<1>3. Ended(state')
  <2>1. CASE Proofs!ReturnAgenda
    <3>1. state' = current /\ (left = 0 \/ current.agenda = <<>>)
        BY <2>1 DEF Proofs!ReturnAgenda, Proofs!Return
    <3>2. left = 0 => Len(current.completed) = StepsOf(request)
        BY <1>2, LimitsOf, InvTypes, CompletedType DEF Counted
    <3> QED BY <1>2, <3>1, <3>2 DEF Ended, Counted
  <2>2. CASE Proofs!StopRepeated
    <3>1. /\ state' = Proofs!Stopped(current, "repeated_task_detected", "stopped")
          /\ current.agenda # <<>> /\ Proofs!Fingerprint(Head(current.agenda)) \in seen
        BY <2>2 DEF Proofs!StopRepeated, Proofs!Return
    <3>2. state'.stop = "repeated_task_detected"
        BY <3>1, InvTypes DEF Proofs!State, Proofs!Stopped, Proofs!Recorded
    <3>3. ~DistinctIds
      <4> SUFFICES ASSUME DistinctIds PROVE FALSE
          OBVIOUS
      <4> DEFINE t == Head(current.agenda)
                 print == Proofs!Fingerprint(t)
      <4>1. t \in Proofs!Task /\ t = current.agenda[1] /\ 1 \in DOMAIN current.agenda
        <5>1. current.agenda \in Seq(Proofs!Task)
            BY InvTypes, CompletedType
        <5> QED BY <3>1, <5>1, HeadType, TailPlaces
      <4>2. print.target = t.target /\ print.type = t.type
          BY <4>1 DEF Proofs!Fingerprint, Proofs!Task
      <4>3. Stage(print) = Stage(t) /\ Stage(t) \in Nat
          BY <4>2 DEF Stage
      <4> HIDE DEF t, print
      <4>4. print \in seen
          BY <3>1 DEF t, print
      <4>5. Stage(print) < Stage(t)
          BY <1>2, <4>1, <4>2, <4>4 DEF Further
      <4> QED BY <4>3, <4>5
    <3> QED BY <3>2, <3>3 DEF Ended
  <2> QED BY <2>1, <2>2, SameActions DEF Return
<1> QED BY <1>1, <1>2, <1>3 DEF Course, Ended, Searched, DistinctIds

\* A budget exhausted in a call is that of the request.
LEMMA CourseBudget ==
    ASSUME Inv, Course, ExhaustBudget
    PROVE  Course'
<1>1. Proofs!ExhaustBudget /\ UNCHANGED <<case, request>>
    BY SameActions DEF ExhaustBudget
<1> DEFINE r == Proofs!Stopped(current, "max_iterations_exhausted", "budget_exhausted")
<1>2. phase = "agenda" /\ left > 0 /\ Proofs!Exhausted(current) /\ Proofs!Step(r)
    BY <1>1 DEF Proofs!ExhaustBudget, Proofs!MayStep, Inv, Wiring
<1>3. r.stop = "max_iterations_exhausted" /\ r.completed = current.completed
    BY InvTypes DEF Proofs!State, Proofs!Stopped, Proofs!Recorded
<1> HIDE DEF r
<1>4. r.stop # None
    BY <1>3, NoneApart
<1>5. /\ state' = r /\ phase' = "idle" /\ UNCHANGED <<setup, start, calls>>
    BY <1>2, <1>4 DEF Proofs!Step, Proofs!Return, Proofs!given
<1>6. calls = 1 /\ start \in FirstStates(case) /\ Counted(current, left)
    BY <1>2 DEF Course
<1>7. BudgetOf(request) > 0 /\ Len(current.completed) >= BudgetOf(request)
    BY <1>2, LimitsOf DEF Proofs!Exhausted
<1>8. Len(current.completed) \in Nat /\ Len(current.completed) < StepsOf(request)
    BY <1>2, <1>6, LimitsOf, InvTypes, CompletedType DEF Counted
<1>9. request.budget # None
    BY <1>7, <1>8, LimitsOf DEF BudgetOf
<1>10. Len(current.completed) = request.budget
    BY <1>6, <1>7, <1>8, <1>9, LimitsOf DEF BudgetOf, Counted
<1>11. Ended(state')
    BY <1>3, <1>5, <1>9, <1>10 DEF Ended
<1> QED BY <1>1, <1>5, <1>6, <1>11 DEF Course, Ended, Searched, DistinctIds

\* Work counts, and leaves what is further ahead.
LEMMA CourseWorked ==
    ASSUME Inv, Course, Worked
    PROVE  Course'
<1> DEFINE t == Head(current.agenda)
<1>1. /\ phase = "agenda" /\ left > 0 /\ current.agenda # <<>>
      /\ ~Proofs!Exhausted(current) /\ Works(t, current') /\ left' = left - 1
      /\ seen' = seen \cup {Proofs!Fingerprint(t)}
      /\ UNCHANGED <<case, request, setup, start, state, phase, calls>>
    BY DEF Worked
<1>2. /\ calls = 1 /\ state = start /\ start \in FirstStates(case)
      /\ Counted(current, left) /\ Searched(current)
      /\ DistinctIds => Distinct(current.agenda) /\ Further(current.agenda, seen)
    BY <1>1 DEF Course
<1>3. PICK r \in Proofs!Result :
          current'.completed = Append(current.completed, r) /\ r.task = t.id
    BY <1>1 DEF Works
<1>4. \/ current'.agenda = Tail(current.agenda)
      \/ \E f \in Proofs!Task : /\ current'.agenda = <<f>> \o Tail(current.agenda)
                                /\ f.target = t.target /\ Stage(f) = Stage(t) + 1
    BY <1>1 DEF Works
<1>5. current \in Proofs!State /\ current.agenda \in Seq(Proofs!Task)
    BY InvTypes, CompletedType
<1>6. Searched(current')
    BY <1>1, <1>2, <1>3, <1>4, <1>5, SearchedOn
<1>7. DistinctIds => Distinct(current'.agenda) /\ Further(current'.agenda, seen')
    BY <1>1, <1>2, <1>4, <1>5, FurtherOn
<1>8. /\ Len(current'.completed) = Len(current.completed) + 1
      /\ Len(current.completed) \in Nat
    BY <1>3, <1>5, CompletedType, AppendPlaces
<1>9. Counted(current', left')
  <2>1. Len(current'.completed) + left' = StepsOf(request)
      BY <1>1, <1>2, <1>8, LimitsOf DEF Counted
  <2>2. ASSUME request.budget \notin {None, 0}
        PROVE  Len(current'.completed) <= request.budget
      BY <1>1, <1>8, <2>2, LimitsOf DEF Proofs!Exhausted, BudgetOf
  <2> QED BY <1>1, <2>1, <2>2 DEF Counted, Works
<1> QED BY <1>1, <1>2, <1>6, <1>7, <1>9 DEF Course, Counted, Searched, DistinctIds

\* The course of a cycle is kept by every step.
LEMMA CourseNext ==
    ASSUME Inv, Course, [Next]_vars
    PROVE  Course'
<1>1. CASE Call
    BY <1>1, CourseCall
<1>2. CASE Return
    BY <1>2, CourseReturn
<1>3. CASE ExhaustBudget
    BY <1>3, CourseBudget
<1>4. CASE current.agenda # <<>> /\ Execute(Head(current.agenda))
  <2> DEFINE t == Head(current.agenda)
  <2>1. CASE Break(t)
    <3>1. /\ state' = state /\ phase' = "idle" /\ phase # "idle"
          /\ UNCHANGED <<case, request, start, calls>>
        BY <2>1, SameActions DEF Break, Proofs!Raise, Proofs!given
    <3>2. phase = "agenda"
        BY <3>1 DEF Inv, Wiring
    <3> QED BY <3>1, <3>2 DEF Course
  <2>2. CASE Retrieve(t) \/ Atomize(t) \/ Normalize(t)
    <3>1. phase = "agenda"
        BY <2>2, SameActions
           DEF Retrieve, Atomize, Normalize, Proofs!Retrieve, Proofs!Atomize, Proofs!Normalize,
               Proofs!Executes, Proofs!MayStep, Inv, Wiring
    <3>2. current.stop = None
        BY <3>1 DEF Course, Counted
    <3>3. Worked
        BY <1>4, <2>2, <3>2, RetrieveWorked, AtomizeWorked, NormalizeWorked
    <3> QED BY <3>3, CourseWorked
  <2> QED BY <1>4, <2>1, <2>2 DEF Execute
<1>5. CASE UNCHANGED vars
    BY <1>5 DEF Course, Counted, Searched, Ended, DistinctIds, vars, loop
<1>6. CASE Rest
    BY <1>5, <1>6 DEF Rest
<1> QED BY <1>1, <1>2, <1>3, <1>4, <1>5, <1>6 DEF Next

-----------------------------------------------------------------------------
(***************************************************************************)
(* From the text to the verdict: what becomes of a line.                   *)
(***************************************************************************)

\* The units retrieval selects for a gap.
SearchOf(c, t) == SelectedUnits(c.claims, c.units, t)

\* A line that is reached by a gap's task t says r, which the gap may use.
Offers(c, t, r) ==
    /\ \E m \in Legible(c, SearchOf(c, t)) : r \in Read(c.lines[m])
    /\ r.type \in t.allowed

\* The gaps an investigation starts with search for units ...
SearchesOnly(s) ==
    \A k \in DOMAIN s.agenda :
        /\ s.agenda[k].type = "retrieve_candidate_units"
        /\ s.agenda[k].target[2] \in NeedType
        /\ s.agenda[k].allowed = AllowedTypes(s.agenda[k].target[2])

\* ... and t goes on with the search of root: same units, same types.
Continues(c, t, root) ==
    /\ t.type = "atomize_unit_cluster"
    /\ t.units = SearchOf(c, root) /\ t.allowed = root.allowed

Derived(c, b, t) ==
    \/ \E k \in DOMAIN b.agenda : t = b.agenda[k] \/ Continues(c, t, b.agenda[k])
    \/ t.type = "normalize_candidate"

\* An atom says what a line says that one of the gaps reaches and may use.
ReadFrom(c, b, a) ==
    /\ a.type = a.id.says.type
    /\ \E k \in DOMAIN b.agenda : Offers(c, b.agenda[k], a.id.says)

\* The resolver has been given r ...
Given(s, r) == \E n \in DOMAIN Readings(s) : Readings(s)[n] = r

\* ... or will be, through task t.
Names(s, t, r) ==
    /\ t.type = "normalize_candidate"
    /\ \E a \in DOMAIN s.atoms : /\ s.atoms[a].id \in Proofs!Elements(t.atoms)
                                 /\ s.atoms[a].id.says = r /\ s.atoms[a].type = r.type

Promises(c, s, t, root, r) == t = root \/ Continues(c, t, root) \/ Names(s, t, r)

Promised(c, s, root, r) ==
    Given(s, r) \/ \E n \in DOMAIN s.agenda : Promises(c, s, s.agenda[n], root, r)

\* The types of atoms the resolver looks at.
Judged == {"usage_amount", "service_period"}

\* Nothing but what lines say is in a state, and nothing they say is lost.
Gathered(c, b, s) ==
    /\ \A a \in DOMAIN s.atoms : ReadFrom(c, b, s.atoms[a])
    /\ \A n \in DOMAIN s.agenda : Derived(c, b, s.agenda[n])
    /\ \A k \in DOMAIN b.agenda : \A r :
          r.type \in Judged /\ Offers(c, b.agenda[k], r) => Promised(c, s, b.agenda[k], r)

\* A line is read in one way.
LEMMA ReadOnce ==
    ASSUME NEW l, NEW q \in Read(l), NEW r \in Read(l)
    PROVE  q = r
  BY DEF Read

\* Without readings nothing is contradicted.
LEMMA FirstSearches ==
    ASSUME NEW c \in Cases, NEW s \in FirstStates(c)
    PROVE  SearchesOnly(s)
<1> DEFINE graph == Resolved(c.claims, NoReadings)
           task(k) == GapTask(c.claims, IF k \in Reviewed(c.claims, graph)
                                        THEN "request_manual_review"
                                        ELSE "retrieve_candidate_units", k)
           row == [k \in Places(c.claims) |-> task(k)]
           gaps == Reviewed(c.claims, graph) \cup Retrieved(c.claims, graph)
<1>1. s.agenda \in Picked(row, gaps)
  <2>1. PICK agenda \in GapPlans(c.claims, graph) :
            s = [agenda |-> agenda, completed |-> <<>>, units |-> DOMAIN c.units,
                 atoms |-> <<>>, norms |-> <<>>, graph |-> [atoms |-> 0, norms |-> 0],
                 stop |-> None, events |-> <<>>]
      BY DEF FirstStates
  <2>2. s.agenda = agenda
      BY <2>1
  <2> QED BY <2>2 DEF GapPlans
<1>2. Len(c.claims) \in Nat /\ DOMAIN c.claims = 1 .. Len(c.claims)
    BY CaseType, LenProperties
<1>3. \A i \in DOMAIN c.claims : Edges(c.claims, i, NoReadings) = {}
    BY DEF Edges, NoReadings
<1>4. \A i \in DOMAIN c.claims : graph[i].status # "contradicted"
  <2> TAKE i \in DOMAIN c.claims
  <2> DEFINE M == MissingNeeds(SpecOf(c.claims, i), {})
  <2>1. graph[i].status = StatusOf({}, M)
      BY <1>3 DEF Resolved
  <2> HIDE DEF M, graph
  <2> QED BY <2>1 DEF StatusOf
<1>5. \A k \in Places(c.claims) : ClaimAt(k) \in DOMAIN c.claims /\ NeedAt(k) \in NeedType
  <2> TAKE k \in Places(c.claims)
  <2>1. k \in 1 .. 5 * Len(c.claims)
      BY DEF Places
  <2>2. ((k - 1) % 5) + 1 \in 1 .. 5 /\ (k - 1) \div 5 \in 0 .. Len(c.claims) - 1
      BY <1>2, <2>1
  <2>3. NeedAt(k) \in NeedType
      BY <2>2 DEF NeedAt, NeedOrder, NeedType
  <2> QED BY <1>2, <2>2, <2>3 DEF ClaimAt
<1>6. Reviewed(c.claims, graph) = {}
    BY <1>4, <1>5 DEF Reviewed, Conflicting
<1>7. \A k \in Places(c.claims) :
          /\ task(k).type = "retrieve_candidate_units" /\ task(k).target[2] = NeedAt(k)
          /\ task(k).allowed = AllowedTypes(NeedAt(k))
    BY <1>6 DEF GapTask
<1>8. \A k \in Places(c.claims) : task(k) \in Proofs!Task
    BY <1>6, GapTaskType
<1> HIDE DEF task
<1>9. row \in Seq(Proofs!Task)
    BY <1>2, <1>8, IsASeq DEF Places
<1>10. DOMAIN row = Places(c.claims) /\ gaps \in SUBSET DOMAIN row
    BY DEF Reviewed, Retrieved
<1>11. \A m \in DOMAIN row : row[m] = task(m)
    BY <1>10
<1> HIDE DEF row, gaps, graph
<1>12. \A n \in DOMAIN s.agenda : \E m \in gaps : s.agenda[n] = row[m]
    BY <1>1, <1>9, <1>10, PickedType
<1>13. ASSUME NEW n \in DOMAIN s.agenda
       PROVE  /\ s.agenda[n].type = "retrieve_candidate_units"
              /\ s.agenda[n].target[2] \in NeedType
              /\ s.agenda[n].allowed = AllowedTypes(s.agenda[n].target[2])
  <2>1. PICK m \in Places(c.claims) : s.agenda[n] = task(m)
      BY <1>10, <1>11, <1>12
  <2> QED BY <1>5, <1>7, <2>1
<1> QED BY <1>13 DEF SearchesOnly

\* The first state has all its searches before it.
LEMMA FirstGathered ==
    ASSUME NEW c \in Cases, NEW b \in FirstStates(c)
    PROVE  Gathered(c, b, b)
<1>1. b.atoms = <<>>
    BY StartStateType
<1>2. DOMAIN b.atoms = {}
    BY <1>1
<1> QED BY <1>2 DEF Gathered, Derived, Promised, Promises

\* A state with the material of another has gathered as much.
LEMMA SameGathered ==
    ASSUME NEW c, NEW b, NEW s, NEW r, Gathered(c, b, s), SameMaterial(s, r), r.agenda = s.agenda
    PROVE  Gathered(c, b, r)
<1>1. r.atoms = s.atoms /\ r.norms = s.norms /\ r.graph = s.graph
    BY DEF SameMaterial
<1>2. Readings(r) = Readings(s)
    BY <1>1 DEF Readings
<1>3. \A root, q : Promised(c, s, root, q) => Promised(c, r, root, q)
    BY <1>1, <1>2 DEF Promised, Promises, Given, Names
<1> QED BY <1>1, <1>3 DEF Gathered

\* With the head of the agenda done, a state has gathered as much as before if
\* what is new is read from a line, and if what the head promised is promised
\* still.
LEMMA GatheredOn ==
    ASSUME NEW c, NEW b, NEW s \in Proofs!State, NEW r \in Proofs!State,
           s.agenda # <<>>, Resolvable(s), Grown(s, r), Gathered(c, b, s),
           \A a \in DOMAIN r.atoms : a \in DOMAIN s.atoms \/ ReadFrom(c, b, r.atoms[a]),
           \/ r.agenda = Tail(s.agenda)
           \/ \E f \in Proofs!Task : r.agenda = <<f>> \o Tail(s.agenda) /\ Derived(c, b, f),
           \A k \in DOMAIN b.agenda : \A q :
              /\ q.type \in Judged /\ Offers(c, b.agenda[k], q)
              /\ Promises(c, s, Head(s.agenda), b.agenda[k], q)
              => Promised(c, r, b.agenda[k], q)
    PROVE  Gathered(c, b, r)
<1> DEFINE rest == Tail(s.agenda)
<1>1. /\ s.agenda \in Seq(Proofs!Task)
      /\ Len(s.atoms) \in Nat /\ DOMAIN s.atoms = 1 .. Len(s.atoms)
      /\ Len(r.atoms) \in Nat /\ DOMAIN r.atoms = 1 .. Len(r.atoms)
    BY MaterialType, LenProperties
<1>2. /\ rest \in Seq(Proofs!Task) /\ Head(s.agenda) = s.agenda[1]
      /\ \A n \in DOMAIN rest : n + 1 \in DOMAIN s.agenda /\ rest[n] = s.agenda[n + 1]
      /\ \A n \in DOMAIN s.agenda : n # 1 => n - 1 \in DOMAIN rest /\ rest[n - 1] = s.agenda[n]
    BY <1>1, TailPlaces
<1> HIDE DEF rest
<1>3. \A a \in DOMAIN s.atoms : a \in DOMAIN r.atoms /\ r.atoms[a] = s.atoms[a]
    BY <1>1 DEF Grown, Extends
<1>4. /\ \A n \in DOMAIN rest : \E m \in DOMAIN r.agenda : r.agenda[m] = rest[n]
      /\ \A n \in DOMAIN r.agenda :
            Derived(c, b, r.agenda[n]) \/ \E m \in DOMAIN rest : r.agenda[n] = rest[m]
  <2>1. CASE r.agenda = rest
      BY <2>1
  <2>2. ASSUME NEW f \in Proofs!Task, r.agenda = <<f>> \o rest, Derived(c, b, f)
        PROVE  <1>4!1 /\ <1>4!2
    <3>1. /\ r.agenda[1] = f
          /\ \A n \in DOMAIN rest : n + 1 \in DOMAIN r.agenda /\ r.agenda[n + 1] = rest[n]
          /\ \A n \in DOMAIN r.agenda : n # 1 => n - 1 \in DOMAIN rest /\ r.agenda[n] = rest[n - 1]
      <4>1. DOMAIN rest = 1 .. Len(rest) /\ Len(rest) \in Nat
          BY <1>2, LenProperties
      <4> QED BY <1>2, <2>2, <4>1, FrontedPlaces
    <3> QED BY <2>2, <3>1
  <2> QED BY <2>1, <2>2 DEF rest
<1>5. \A a \in DOMAIN r.atoms : ReadFrom(c, b, r.atoms[a])
    BY <1>3 DEF Gathered
<1>6. \A n \in DOMAIN r.agenda : Derived(c, b, r.agenda[n])
    BY <1>2, <1>4 DEF Gathered
<1>7. ASSUME NEW k \in DOMAIN b.agenda, NEW q, q.type \in Judged, Offers(c, b.agenda[k], q)
      PROVE  Promised(c, r, b.agenda[k], q)
  <2>1. Promised(c, s, b.agenda[k], q)
      BY <1>7 DEF Gathered
  <2>2. CASE Given(s, q)
    <3>1. /\ DOMAIN Readings(s) \subseteq DOMAIN Readings(r)
          /\ \A n \in DOMAIN Readings(s) : Readings(r)[n] = Readings(s)[n]
        BY ReadingsGrow
    <3> QED BY <2>2, <3>1 DEF Given, Promised
  <2>3. ASSUME NEW n \in DOMAIN s.agenda, Promises(c, s, s.agenda[n], b.agenda[k], q)
        PROVE  Promised(c, r, b.agenda[k], q)
    <3>1. CASE n = 1
        BY <1>2, <1>7, <2>3, <3>1
    <3>2. CASE n # 1
      <4>1. PICK m \in DOMAIN r.agenda : r.agenda[m] = s.agenda[n]
          BY <1>2, <1>4, <3>2
      <4>2. Promises(c, r, s.agenda[n], b.agenda[k], q)
          BY <1>3, <2>3 DEF Promises, Names
      <4> QED BY <4>1, <4>2 DEF Promised
    <3> QED BY <3>1, <3>2
  <2> QED BY <2>1, <2>2, <2>3 DEF Promised
<1> QED BY <1>5, <1>6, <1>7 DEF Gathered

\* What completing a task yields.
Yields(s, t, c, accepted, kept) ==
    /\ c.agenda = Tail(s.agenda) /\ c.graph = s.graph
    /\ c.atoms = s.atoms \o accepted /\ c.norms = s.norms \o kept
    /\ c.completed[Len(c.completed)].atoms = accepted

\* A completed task adds what the filters pass, in order.
LEMMA CompletionYields ==
    ASSUME NEW s \in Proofs!State, s.agenda # <<>>, NEW t \in Proofs!Task,
           NEW status \in Proofs!Status, NEW offered \in Seq(Proofs!Atom),
           NEW norms \in Seq(AtomName),
           NEW c \in Proofs!Completions(s, t, t.id, status, {}, offered, norms)
    PROVE  \E accepted \in Seq(Proofs!Atom), kept \in Seq(AtomName) :
              /\ accepted \in Proofs!Picked(offered, Proofs!Admitted(t, offered))
              /\ kept \in Proofs!Picked(norms, Proofs!Retained(t, offered, norms))
              /\ Yields(s, t, c, accepted, kept)
<1>1. PICK accepted \in Proofs!Picked(offered, Proofs!Admitted(t, offered)),
           kept \in Proofs!Picked(norms, Proofs!Retained(t, offered, norms)) :
          c = Proofs!Completed(s, t, t.id, status, {}, accepted, kept)
    BY DEF Proofs!Completions
<1>2. /\ Proofs!Admitted(t, offered) \in SUBSET DOMAIN offered
      /\ Proofs!Retained(t, offered, norms) \in SUBSET DOMAIN norms
    BY DEF Proofs!Admitted, Proofs!Retained
<1>3. accepted \in Seq(Proofs!Atom) /\ kept \in Seq(AtomName)
    BY <1>1, <1>2, LoopAssumption, Proofs!PickedType
<1> DEFINE result == [task |-> t.id, status |-> status, atoms |-> accepted]
<1>4. result \in Proofs!Result /\ result.atoms = accepted
    BY <1>3 DEF Proofs!Result, Proofs!Task
<1>5. /\ c.agenda = Tail(s.agenda) /\ c.graph = s.graph
      /\ c.atoms = s.atoms \o accepted /\ c.norms = s.norms \o kept
      /\ c.completed = Append(s.completed, result)
    BY <1>1 DEF Proofs!Completed, Proofs!Recorded, Proofs!State
<1> HIDE DEF result
<1>6. /\ Len(c.completed) = Len(s.completed) + 1
      /\ c.completed[Len(s.completed) + 1] = result
    BY <1>4, <1>5, CompletedType, AppendPlaces
<1>7. Yields(s, t, c, accepted, kept)
    BY <1>4, <1>5, <1>6 DEF Yields
<1> QED BY <1>1, <1>3, <1>7

\* A step makes its state the current one.
LEMMA StepCurrent ==
    ASSUME NEW r, Proofs!Step(r)
    PROVE  current' = r
  BY DEF Proofs!Step, Proofs!Return

\* What the atomizer offers is what lines say, and it leaves nothing out.
Transcribes(c, t, offered) ==
    /\ \A n \in DOMAIN offered :
          /\ offered[n].type = offered[n].id.says.type /\ offered[n].sourced
          /\ \E l \in Legible(c, t.units) : offered[n].id.says \in Read(c.lines[l])
    /\ \A l \in Legible(c, t.units) : \A q \in Read(c.lines[l]) :
          \E n \in DOMAIN offered : offered[n].id.says = q

\* The atomizer says what the legible lines of its units say.
LEMMA AtomizedLines ==
    ASSUME NEW c \in Cases, NEW t, NEW offered \in Atomized(c, t)
    PROVE  Transcribes(c, t, offered)
<1> DEFINE choice(l) == CHOOSE r \in Read(l) : TRUE
           atom(l, n) == [id |-> [task |-> t.id, n |-> n, says |-> choice(l)],
                          type |-> choice(l).type, sourced |-> TRUE]
<1>1. PICK lines \in Picked(c.lines, Legible(c, t.units)) :
          offered = [n \in DOMAIN lines |-> atom(lines[n], n)]
    BY DEF Atomized
<1>2. c.lines \in Seq(Line) /\ Legible(c, t.units) \in SUBSET DOMAIN c.lines
    BY CaseType DEF Legible
<1>3. /\ \A n \in DOMAIN lines : \E m \in Legible(c, t.units) : lines[n] = c.lines[m]
      /\ \A m \in Legible(c, t.units) : \E n \in DOMAIN lines : lines[n] = c.lines[m]
    BY <1>1, <1>2, PickedType, PickedAll
<1>4. \A m \in Legible(c, t.units) : choice(c.lines[m]) \in Read(c.lines[m])
    BY DEF Legible
<1>5. \A l, n : /\ atom(l, n).id.says = choice(l) /\ atom(l, n).type = choice(l).type
                /\ atom(l, n).sourced
    OBVIOUS
<1> HIDE DEF choice, atom
<1>6. DOMAIN offered = DOMAIN lines /\ \A n \in DOMAIN lines : offered[n] = atom(lines[n], n)
    BY <1>1
<1>7. ASSUME NEW n \in DOMAIN offered
      PROVE  /\ offered[n].type = offered[n].id.says.type /\ offered[n].sourced
             /\ \E m \in Legible(c, t.units) : offered[n].id.says \in Read(c.lines[m])
    BY <1>3, <1>4, <1>5, <1>6
<1>8. ASSUME NEW m \in Legible(c, t.units), NEW q \in Read(c.lines[m])
      PROVE  \E n \in DOMAIN offered : offered[n].id.says = q
  <2>1. PICK n \in DOMAIN lines : lines[n] = c.lines[m]
      BY <1>3
  <2>2. choice(c.lines[m]) = q
      BY <1>4, ReadOnce
  <2> QED BY <1>5, <1>6, <2>1, <2>2
<1> QED BY <1>7, <1>8 DEF Transcribes

\* The state and the case an invariant is about.
LEMMA Surroundings ==
    ASSUME Inv
    PROVE  /\ case \in Cases /\ current \in Proofs!State /\ Resolvable(current)
           /\ setup.resolver /\ setup.normalizer = "adapter"
  BY InvTypes DEF Inv, Wiring, Wired

\* Retrieval promises what its search offers to the task it plans.
LEMMA RetrieveGathers ==
    ASSUME Inv, SearchesOnly(start), Gathered(case, start, current), current.agenda # <<>>,
           Retrieve(Head(current.agenda))
    PROVE  Gathered(case, start, current')
<1> DEFINE t == Head(current.agenda)
           selected == SearchOf(case, t)
           f == Proofs!AtomizeTask(t, selected)
<1>1. Proofs!Retrieve(t, selected)
    BY SameActions DEF Retrieve, SearchOf
<1>2. selected \in SUBSET Nat
    BY CaseType, LenProperties DEF Inv, Wiring, SearchOf, SelectedUnits, Matching
<1>3. t \in Proofs!Task /\ t.type = "retrieve_candidate_units"
    BY <1>1, HeadType DEF Proofs!Retrieve, Proofs!Executes
<1> HIDE DEF selected
<1>4. /\ f \in Proofs!Task /\ f.type = "atomize_unit_cluster"
      /\ f.units = selected /\ f.allowed = t.allowed
  <2>1. Append(t.id, "atomize") \in Proofs!TaskId
      BY <1>3, AppendProperties DEF Proofs!Task, Proofs!TaskId
  <2>2. <<>> \in Seq(AtomName)
      BY EmptySeq
  <2> HIDE DEF t
  <2> QED BY <1>2, <1>3, <2>1, <2>2 DEF Proofs!AtomizeTask, Proofs!Task, Proofs!TaskType
<1>5. t = current.agenda[1] /\ 1 \in DOMAIN current.agenda
    BY Surroundings, CompletedType, TailPlaces
<1> HIDE DEF t, f
<1>6. \E k \in DOMAIN start.agenda : t = start.agenda[k]
    BY <1>3, <1>5 DEF Gathered, Derived, Continues
<1>7. Continues(case, f, t)
    BY <1>4 DEF Continues, selected
<1>8. ASSUME NEW k \in DOMAIN start.agenda, NEW q, Promises(case, current, t, start.agenda[k], q)
      PROVE  start.agenda[k] = t
    BY <1>3, <1>8 DEF Promises, Continues, Names
<1>9. <<>> \in Seq(Proofs!Atom) /\ <<>> \in Seq(AtomName)
      /\ {"no_new_clue", "completed"} \subseteq Proofs!Status
    BY EmptySeq DEF Proofs!Status
<1>10. ASSUME NEW status \in {"no_new_clue", "completed"},
              NEW s \in Proofs!Completions(current, t, t.id, status, {}, <<>>, <<>>)
       PROVE  /\ s \in Proofs!State /\ Grown(current, s)
              /\ s.agenda = Tail(current.agenda) /\ s.atoms = current.atoms
  <2>1. s \in Proofs!State /\ Grown(current, s)
      BY <1>3, <1>9, Surroundings, CompletionGrows
  <2>2. t.id \in Proofs!TaskId /\ {} \in SUBSET Nat
      BY <1>3 DEF Proofs!Task
  <2>3. Proofs!Completes(current, s, t.id, status, <<>>, <<>>)
      BY <1>3, <1>9, <2>2, Surroundings, LoopAssumption, Proofs!CompletionType
  <2>4. s.agenda = Tail(current.agenda) /\ s.atoms = current.atoms \o <<>>
      BY <2>3 DEF Proofs!Completes
  <2>5. current.atoms \o <<>> = current.atoms
      BY Surroundings, MaterialType, ConcatEmptySeq
  <2> QED BY <2>1, <2>4, <2>5
<1>11. CASE selected = {}
  <2>1. PICK s \in Proofs!Completions(current, t, t.id, "no_new_clue", {}, <<>>, <<>>) :
            Proofs!Step(s)
      BY <1>1, <1>11 DEF Proofs!Retrieve, Proofs!Complete
  <2>2. /\ s \in Proofs!State /\ Grown(current, s)
        /\ s.agenda = Tail(current.agenda) /\ s.atoms = current.atoms
      BY <1>10
  <2>3. ASSUME NEW k \in DOMAIN start.agenda, NEW q, Offers(case, start.agenda[k], q),
               Promises(case, current, t, start.agenda[k], q)
        PROVE  FALSE
    <3>1. SearchOf(case, start.agenda[k]) = {}
        BY <1>8, <1>11, <2>3 DEF selected
    <3> QED BY <2>3, <3>1 DEF Offers, Legible
  <2>4. Gathered(case, start, s)
      BY <2>2, <2>3, Surroundings, GatheredOn DEF t
  <2> QED BY <2>1, <2>4, StepCurrent
<1>12. CASE selected # {}
  <2>1. PICK s \in Proofs!Completions(current, t, t.id, "completed", {}, <<>>, <<>>) :
            Proofs!Step(Proofs!Preceded(s, f))
      BY <1>1, <1>12 DEF Proofs!Retrieve, f
  <2>2. /\ s \in Proofs!State /\ Grown(current, s)
        /\ s.agenda = Tail(current.agenda) /\ s.atoms = current.atoms
      BY <1>10
  <2> DEFINE r == Proofs!Preceded(s, f)
  <2>3. r \in Proofs!State
      BY <1>4, <2>2, LoopAssumption, Proofs!PrecededType
  <2>4. r.agenda = <<f>> \o Tail(current.agenda) /\ r.atoms = current.atoms
      BY <2>2 DEF Proofs!State, Proofs!Preceded, Proofs!Planned, Proofs!Recorded
  <2>5. Grown(current, r)
      BY <2>2, PrecededMaterial, Surroundings, SameGrown
  <2>6. Derived(case, start, f)
      BY <1>6, <1>7 DEF Derived
  <2> HIDE DEF r
  <2>7. 1 \in DOMAIN r.agenda /\ r.agenda[1] = f
    <3>1. Tail(current.agenda) \in Seq(Proofs!Task)
        BY Surroundings, CompletedType, TailPlaces
    <3> DEFINE rest == Tail(current.agenda)
    <3> HIDE DEF rest
    <3>2. /\ Len(rest) \in Nat /\ DOMAIN (<<f>> \o rest) = 1 .. Len(rest) + 1
          /\ (<<f>> \o rest)[1] = f
        BY <1>4, <3>1, LenProperties, FrontedPlaces DEF rest
    <3> QED BY <2>4, <3>2 DEF rest
  <2>8. ASSUME NEW k \in DOMAIN start.agenda, NEW q,
               Promises(case, current, t, start.agenda[k], q)
        PROVE  Promised(case, r, start.agenda[k], q)
      BY <1>7, <1>8, <2>7, <2>8 DEF Promised, Promises
  <2>9. Gathered(case, start, r)
      BY <1>4, <2>3, <2>4, <2>5, <2>6, <2>8, Surroundings, GatheredOn DEF t
  <2> QED BY <2>1, <2>9, StepCurrent DEF r
<1> QED BY <1>11, <1>12

\* The loop's Picked is that of the modules extended here.
LEMMA SamePicked ==
    ASSUME NEW s, NEW P
    PROVE  Proofs!Picked(s, P) = Picked(s, P)
<1>1. Proofs!Cardinality(P) = Cardinality(P)
    BY DEF Proofs!Cardinality, Cardinality
<1>2. Proofs!Ascending(P) = Ascending(P)
    BY <1>1 DEF Proofs!Ascending, Ascending
<1> QED BY <1>1, <1>2 DEF Proofs!Picked, Picked

\* r is p and then q.
Joins(p, q, r) ==
    /\ \A n \in DOMAIN p : n \in DOMAIN r /\ r[n] = p[n]
    /\ \A m \in DOMAIN q : Len(p) + m \in DOMAIN r /\ r[Len(p) + m] = q[m]
    /\ \A n \in DOMAIN r : n \in DOMAIN p \/ \E m \in DOMAIN q : r[n] = q[m]

\* A concatenation is its first part and then its second.
LEMMA ConcatPlaces ==
    ASSUME NEW S, NEW p \in Seq(S), NEW q \in Seq(S)
    PROVE  Joins(p, q, p \o q)
<1> DEFINE r == p \o q
<1>1. /\ Len(p) \in Nat /\ Len(q) \in Nat /\ r \in Seq(S) /\ Len(r) = Len(p) + Len(q)
      /\ \A i \in 1 .. Len(p) + Len(q) :
            r[i] = IF i <= Len(p) THEN p[i] ELSE q[i - Len(p)]
    BY ConcatProperties, LenProperties
<1>2. DOMAIN p = 1 .. Len(p) /\ DOMAIN q = 1 .. Len(q) /\ DOMAIN r = 1 .. Len(p) + Len(q)
    BY <1>1, LenProperties
<1> HIDE DEF r
<1>3. \A m \in DOMAIN q : Len(p) + m \in DOMAIN r /\ r[Len(p) + m] = q[m]
  <2> TAKE m \in DOMAIN q
  <2>1. Len(p) + m \in 1 .. Len(p) + Len(q) /\ ~(Len(p) + m <= Len(p)) /\ Len(p) + m - Len(p) = m
      BY <1>1, <1>2
  <2> QED BY <1>1, <1>2, <2>1
<1>4. \A n \in DOMAIN r : n \in DOMAIN p \/ \E m \in DOMAIN q : r[n] = q[m]
  <2> TAKE n \in DOMAIN r
  <2>1. n \notin DOMAIN p => n - Len(p) \in DOMAIN q /\ r[n] = q[n - Len(p)]
      BY <1>1, <1>2
  <2> QED BY <2>1
<1>5. \A n \in DOMAIN p : n \in DOMAIN r /\ r[n] = p[n]
    BY <1>1, <1>2
<1> QED BY <1>3, <1>4, <1>5 DEF r, Joins

\* Of the lines a task reads, all that it may use become atoms, and nothing else.
Accepts(c, t, ids, before, after) ==
    /\ \A a \in DOMAIN after :
          \/ a \in DOMAIN before
          \/ /\ after[a].type = after[a].id.says.type /\ after[a].type \in t.allowed
             /\ \E l \in Legible(c, t.units) : after[a].id.says \in Read(c.lines[l])
    /\ \A l \in Legible(c, t.units) : \A q \in Read(c.lines[l]) :
          q.type \in t.allowed \cap Vocabulary =>
             \E a \in DOMAIN after : /\ after[a].id \in Proofs!Elements(ids)
                                     /\ after[a].id.says = q /\ after[a].type = q.type

\* What the filters pass of the atoms is all that the task may use.
LEMMA AcceptedLines ==
    ASSUME NEW c \in Cases, NEW t \in Proofs!Task, t.allowed # {},
           NEW offered \in Atomized(c, t), NEW accepted \in Seq(Proofs!Atom),
           accepted \in Proofs!Picked(offered, Proofs!Admitted(t, offered)),
           NEW before \in Seq(Proofs!Atom)
    PROVE  Accepts(c, t, Proofs!Ids(accepted), before, before \o accepted)
<1> DEFINE after == before \o accepted
<1>0. Joins(before, accepted, after)
    BY ConcatPlaces
<1> HIDE DEF after
<1> DEFINE P == Proofs!Admitted(t, offered)
<1>1. offered \in Seq(Proofs!Atom)
    BY AtomizedType
<1>2. P \in SUBSET DOMAIN offered
    BY DEF Proofs!Admitted
<1>3. \A m \in DOMAIN offered :
          m \in P <=> /\ offered[m].type \in Vocabulary \cap t.allowed /\ offered[m].sourced
    BY DEF Proofs!Admitted, Proofs!Acceptable
<1>4. accepted \in Picked(offered, P)
    BY SamePicked
<1> HIDE DEF P
<1>5. /\ \A n \in DOMAIN accepted : \E m \in P : accepted[n] = offered[m]
      /\ \A m \in P : \E n \in DOMAIN accepted : accepted[n] = offered[m]
    BY <1>1, <1>2, <1>4, PickedType, PickedAll
<1>6. /\ \A a \in DOMAIN after :
            a \in DOMAIN before \/ \E n \in DOMAIN accepted : after[a] = accepted[n]
      /\ \A n \in DOMAIN accepted : \E a \in DOMAIN after : after[a] = accepted[n]
    BY <1>0 DEF Joins
<1>7. Transcribes(c, t, offered)
    BY AtomizedLines
<1>8. ASSUME NEW a \in DOMAIN after, a \notin DOMAIN before
      PROVE  /\ after[a].type = after[a].id.says.type /\ after[a].type \in t.allowed
             /\ \E l \in Legible(c, t.units) : after[a].id.says \in Read(c.lines[l])
  <2>1. PICK m \in P : after[a] = offered[m]
      BY <1>5, <1>6, <1>8
  <2> QED BY <1>2, <1>3, <1>7, <2>1 DEF Transcribes
<1>9. ASSUME NEW l \in Legible(c, t.units), NEW q \in Read(c.lines[l]),
             q.type \in t.allowed \cap Vocabulary
      PROVE  \E a \in DOMAIN after :
                /\ after[a].id \in Proofs!Elements(Proofs!Ids(accepted))
                /\ after[a].id.says = q /\ after[a].type = q.type
  <2>1. PICK m \in DOMAIN offered : offered[m].id.says = q
      BY <1>7 DEF Transcribes
  <2>2. m \in P /\ offered[m].type = q.type
      BY <1>3, <1>7, <1>9, <2>1 DEF Transcribes
  <2>3. PICK n \in DOMAIN accepted : accepted[n] = offered[m]
      BY <1>5, <2>2
  <2>4. PICK a \in DOMAIN after : after[a] = accepted[n]
      BY <1>6
  <2>5. after[a].id \in Proofs!Elements(Proofs!Ids(accepted))
      BY <2>4 DEF Proofs!Elements, Proofs!Ids
  <2> QED BY <2>1, <2>2, <2>3, <2>4, <2>5
<1> QED BY <1>8, <1>9 DEF Accepts, after

\* Atomizing gives what the task promised, to the normalize task.
LEMMA AtomizeGathers ==
    ASSUME Inv, SearchesOnly(start), Gathered(case, start, current), current.agenda # <<>>,
           Atomize(Head(current.agenda))
    PROVE  Gathered(case, start, current')
<1> DEFINE t == Head(current.agenda)
<1>1. PICK offered \in Atomized(case, t) : Proofs!Atomize(t, offered)
    BY SameActions DEF Atomize
<1>2. t \in Proofs!Task /\ t.type = "atomize_unit_cluster"
    BY <1>1, HeadType DEF Proofs!Atomize, Proofs!Executes
<1>3. t = current.agenda[1] /\ 1 \in DOMAIN current.agenda
    BY Surroundings, CompletedType, TailPlaces
<1>4. offered \in Seq(Proofs!Atom)
    BY <1>2, AtomizedType, Surroundings
<1> HIDE DEF t
<1>5. PICK j \in DOMAIN start.agenda : Continues(case, t, start.agenda[j])
    BY <1>2, <1>3 DEF Gathered, Derived, SearchesOnly
<1>6. <<>> \in Seq(AtomName) /\ "completed" \in Proofs!Status
    BY EmptySeq DEF Proofs!Status
<1>7. PICK s \in Proofs!Completions(current, t, t.id, "completed", {}, offered, <<>>) :
          Proofs!Step(Proofs!Followed(s, t))
    BY <1>1 DEF Proofs!Atomize
<1>8. s \in Proofs!State /\ Grown(current, s)
    BY <1>2, <1>4, <1>6, Surroundings, CompletionGrows
<1>9. PICK accepted \in Seq(Proofs!Atom), kept \in Seq(AtomName) :
          /\ accepted \in Proofs!Picked(offered, Proofs!Admitted(t, offered))
          /\ Yields(current, t, s, accepted, kept)
    BY <1>2, <1>4, <1>6, Surroundings, CompletionYields
<1>12. t.allowed # {}
  <2>1. /\ t.allowed = AllowedTypes(start.agenda[j].target[2])
        /\ start.agenda[j].target[2] \in NeedType
      BY <1>5 DEF Continues, SearchesOnly
  <2> QED BY <2>1 DEF AllowedTypes, NeedType
<1> DEFINE ids == Proofs!Ids(accepted)
           f == Proofs!NormalizeTask(t, ids)
<1>13. Accepts(case, t, ids, current.atoms, s.atoms)
  <2> DEFINE before == current.atoms
  <2>1. before \in Seq(Proofs!Atom)
      BY Surroundings, MaterialType
  <2>2. s.atoms = before \o accepted
      BY <1>9 DEF Yields
  <2>3. case \in Cases /\ offered \in Atomized(case, t)
      BY <1>1, Surroundings
  <2> HIDE DEF before
  <2>4. Accepts(case, t, ids, before, before \o accepted)
      BY <1>2, <1>9, <1>12, <2>1, <2>3, AcceptedLines
  <2> QED BY <2>2, <2>4 DEF before
<1>14. \A a \in DOMAIN s.atoms :
           a \in DOMAIN current.atoms \/ ReadFrom(case, start, s.atoms[a])
  <2> TAKE a \in DOMAIN s.atoms
  <2>1. ASSUME a \notin DOMAIN current.atoms
        PROVE  Offers(case, start.agenda[j], s.atoms[a].id.says)
      BY <1>5, <1>13, <2>1 DEF Accepts, Offers, Continues
  <2> QED BY <1>13, <2>1 DEF Accepts, ReadFrom
\* What the task was to find is in an atom of its own.
<1>16. ASSUME NEW k \in DOMAIN start.agenda, NEW q,
              q.type \in Judged, Offers(case, start.agenda[k], q),
              Promises(case, current, t, start.agenda[k], q)
       PROVE  \E a \in DOMAIN s.atoms :
                 /\ s.atoms[a].id \in Proofs!Elements(ids)
                 /\ s.atoms[a].id.says = q /\ s.atoms[a].type = q.type
  <2>1. Continues(case, t, start.agenda[k])
      BY <1>2, <1>16 DEF Promises, Names, SearchesOnly
  <2>2. PICK l \in Legible(case, t.units) : q \in Read(case.lines[l])
      BY <1>16, <2>1 DEF Offers, Continues
  <2>3. q.type \in t.allowed \cap Vocabulary
      BY <1>16, <2>1 DEF Offers, Continues, Judged, Vocabulary
  <2> QED BY <1>13, <2>2, <2>3 DEF Accepts
<1>17. /\ s.agenda = Tail(current.agenda)
       /\ Proofs!Followed(s, t) = IF ids = <<>> \/ Proofs!PendingNormalization(s.agenda, ids)
                                  THEN s ELSE Proofs!Preceded(s, f)
    BY <1>9, Surroundings DEF Yields, Proofs!Followed
<1>18. ids \in Seq(AtomName)
  <2>1. /\ Len(accepted) \in Nat /\ DOMAIN accepted = 1 .. Len(accepted)
        /\ \A n \in DOMAIN accepted : accepted[n] \in Proofs!Atom
      BY <1>9, LenProperties
  <2>2. \A n \in 1 .. Len(accepted) : accepted[n].id \in AtomName
      BY <2>1 DEF Proofs!Atom
  <2> QED BY <2>1, <2>2, IsASeq DEF Proofs!Ids
<1> HIDE DEF ids
<1>19. CASE ids = <<>> \/ Proofs!PendingNormalization(s.agenda, ids)
  <2>1. ASSUME NEW k \in DOMAIN start.agenda, NEW q,
               q.type \in Judged, Offers(case, start.agenda[k], q),
               Promises(case, current, t, start.agenda[k], q)
        PROVE  Promised(case, s, start.agenda[k], q)
    <3>1. PICK a \in DOMAIN s.atoms :
              /\ s.atoms[a].id \in Proofs!Elements(ids)
              /\ s.atoms[a].id.says = q /\ s.atoms[a].type = q.type
        BY <1>16, <2>1
    <3>2. ids # <<>>
        BY <3>1 DEF Proofs!Elements
    <3>3. PICK n \in DOMAIN s.agenda : /\ s.agenda[n].type = "normalize_candidate"
                                       /\ Proofs!Elements(s.agenda[n].atoms) = Proofs!Elements(ids)
        BY <1>19, <3>2 DEF Proofs!PendingNormalization
    <3>4. Names(s, s.agenda[n], q)
        BY <3>1, <3>3 DEF Names
    <3> QED BY <3>4 DEF Promised, Promises
  <2>2. Gathered(case, start, s)
      BY <1>8, <1>14, <1>17, <2>1, Surroundings, GatheredOn DEF t
  <2> QED BY <1>7, <1>17, <1>19, <2>2, StepCurrent
<1>20. CASE ~(ids = <<>> \/ Proofs!PendingNormalization(s.agenda, ids))
  <2> DEFINE r == Proofs!Preceded(s, f)
  <2>1. f \in Proofs!Task /\ f.type = "normalize_candidate" /\ f.atoms = ids
    <3>1. Append(t.id, "normalize") \in Proofs!TaskId /\ <<>> \in Proofs!TaskId
        BY <1>2, AppendProperties, EmptySeq DEF Proofs!Task, Proofs!TaskId
    <3> QED BY <1>2, <1>18, <3>1 DEF Proofs!NormalizeTask, Proofs!Task, Proofs!TaskType
  <2> HIDE DEF f
  <2>2. r \in Proofs!State
      BY <1>8, <2>1, LoopAssumption, Proofs!PrecededType
  <2>3. r.agenda = <<f>> \o Tail(current.agenda) /\ r.atoms = s.atoms
      BY <1>8, <1>17 DEF Proofs!State, Proofs!Preceded, Proofs!Planned, Proofs!Recorded
  <2>4. Grown(current, r)
      BY <1>8, PrecededMaterial, Surroundings, SameGrown
  <2>5. Derived(case, start, f)
      BY <2>1 DEF Derived
  <2> HIDE DEF r
  <2>6. 1 \in DOMAIN r.agenda /\ r.agenda[1] = f
    <3>1. Tail(current.agenda) \in Seq(Proofs!Task)
        BY Surroundings, CompletedType, TailPlaces
    <3> DEFINE rest == Tail(current.agenda)
    <3> HIDE DEF rest
    <3>2. /\ Len(rest) \in Nat /\ DOMAIN (<<f>> \o rest) = 1 .. Len(rest) + 1
          /\ (<<f>> \o rest)[1] = f
        BY <2>1, <3>1, LenProperties, FrontedPlaces DEF rest
    <3> QED BY <2>3, <3>2 DEF rest
  <2>7. ASSUME NEW k \in DOMAIN start.agenda, NEW q,
               q.type \in Judged, Offers(case, start.agenda[k], q),
               Promises(case, current, t, start.agenda[k], q)
        PROVE  Promised(case, r, start.agenda[k], q)
    <3>1. Names(r, f, q)
        BY <1>16, <2>1, <2>3, <2>7 DEF Names
    <3> QED BY <2>6, <3>1 DEF Promised, Promises
  <2>8. Gathered(case, start, r)
      BY <1>14, <2>1, <2>2, <2>3, <2>4, <2>5, <2>7, Surroundings, GatheredOn DEF t
  <2>9. Proofs!Step(r)
      BY <1>7, <1>17, <1>20 DEF r
  <2> QED BY <2>8, <2>9, StepCurrent
<1> QED BY <1>19, <1>20

\* Of the atoms a task selects, the name of each is kept.
LEMMA KeptNames ==
    ASSUME NEW atoms \in Seq(Proofs!Atom), NEW Q \in SUBSET DOMAIN atoms,
           NEW picked \in Picked(atoms, Q), NEW kept,
           kept \in Picked(Proofs!Ids(picked), DOMAIN Proofs!Ids(picked))
    PROVE  \A a \in Q : \E j \in DOMAIN kept : kept[j] = atoms[a].id
<1> DEFINE ids == Proofs!Ids(picked)
<1>1. /\ picked \in Seq(Proofs!Atom)
      /\ \A a \in Q : \E n \in DOMAIN picked : picked[n] = atoms[a]
    BY PickedType, PickedAll
<1>2. DOMAIN ids = DOMAIN picked /\ \A n \in DOMAIN picked : ids[n] = picked[n].id
    BY DEF Proofs!Ids
<1>3. /\ Len(picked) \in Nat /\ DOMAIN picked = 1 .. Len(picked)
      /\ \A n \in DOMAIN picked : picked[n] \in Proofs!Atom
    BY <1>1, LenProperties
<1>4. ids \in Seq(AtomName)
  <2>1. \A n \in 1 .. Len(picked) : picked[n].id \in AtomName
      BY <1>3 DEF Proofs!Atom
  <2> QED BY <1>3, <2>1, IsASeq DEF Proofs!Ids
<1>5. kept \in Picked(ids, DOMAIN ids)
    OBVIOUS
<1> HIDE DEF ids
<1>6. \A n \in DOMAIN ids : \E j \in DOMAIN kept : kept[j] = ids[n]
    BY <1>4, <1>5, PickedAll
<1> QED BY <1>1, <1>2, <1>6

\* Normalizing gives the rest of what was promised.
LEMMA NormalizeGathers ==
    ASSUME Inv, SearchesOnly(start), Gathered(case, start, current), current.agenda # <<>>,
           Normalize(Head(current.agenda))
    PROVE  Gathered(case, start, current')
<1> DEFINE t == Head(current.agenda)
<1>1. PICK norms \in Proofs!NormalizerAnswers(current, t) : Proofs!Normalize(t, norms)
    BY SameActions, SameOperators DEF Normalize
<1>2. t \in Proofs!Task /\ t.type = "normalize_candidate"
    BY <1>1, HeadType DEF Proofs!Normalize, Proofs!Executes
<1> HIDE DEF t
<1>3. norms \in Seq(AtomName)
  <2>1. setup \in {Wired(BudgetOf(r)) : r \in Requests}
      BY DEF Inv, Wiring
  <2> QED BY <1>2, <2>1, Surroundings, LoopAssumption, Proofs!AnswerType
<1>4. <<>> \in Seq(Proofs!Atom) /\ "completed" \in Proofs!Status
    BY EmptySeq DEF Proofs!Status
<1>5. PICK s \in Proofs!Completions(current, t, t.id, "completed", {}, <<>>, norms) :
          Proofs!Step(Proofs!Refreshed(s))
    BY <1>1 DEF Proofs!Normalize
<1>6. s \in Proofs!State /\ Grown(current, s)
    BY <1>2, <1>3, <1>4, Surroundings, CompletionGrows
<1>7. PICK accepted \in Seq(Proofs!Atom), kept \in Seq(AtomName) :
          /\ kept \in Proofs!Picked(norms, Proofs!Retained(t, <<>>, norms))
          /\ Yields(current, t, s, accepted, kept)
    BY <1>2, <1>3, <1>4, Surroundings, CompletionYields
<1>8. s.atoms = current.atoms
  <2>1. t.id \in Proofs!TaskId /\ {} \in SUBSET Nat
      BY <1>2 DEF Proofs!Task
  <2>2. Proofs!Completes(current, s, t.id, "completed", <<>>, norms)
      BY <1>2, <1>3, <1>4, <2>1, Surroundings, LoopAssumption, Proofs!CompletionType
  <2>3. s.atoms = current.atoms \o <<>>
      BY <2>2 DEF Proofs!Completes
  <2> QED BY <2>3, Surroundings, MaterialType, ConcatEmptySeq
<1> DEFINE Q == {n \in Proofs!Selected(current, t) :
                    current.atoms[n].type \in {"usage_amount", "currency_amount",
                                               "service_period", "date"}}
<1>9. \A a \in Q : \E j \in DOMAIN kept : kept[j] = current.atoms[a].id
  <2>1. PICK picked \in Proofs!Picked(current.atoms, Q) : norms = Proofs!Ids(picked)
      BY <1>1, Surroundings DEF Proofs!NormalizerAnswers
  <2>2. Proofs!Retained(t, <<>>, norms) = DOMAIN norms
    <3>1. DOMAIN <<>> = {}
        OBVIOUS
    <3> QED BY <3>1 DEF Proofs!Retained
  <2> DEFINE atoms == current.atoms
  <2>3. atoms \in Seq(Proofs!Atom) /\ Q \in SUBSET DOMAIN atoms
      BY Surroundings, MaterialType DEF Proofs!Selected
  <2>4. picked \in Picked(atoms, Q) /\ kept \in Picked(norms, DOMAIN norms)
      BY <1>7, <2>1, <2>2, SamePicked
  <2> HIDE DEF atoms, Q
  <2>5. kept \in Picked(Proofs!Ids(picked), DOMAIN Proofs!Ids(picked))
      BY <2>1, <2>4
  <2>6. \A a \in Q : \E j \in DOMAIN kept : kept[j] = atoms[a].id
      BY <2>3, <2>4, <2>5, KeptNames
  <2> QED BY <2>6 DEF atoms
<1>10. /\ Len(s.norms) \in Nat
       /\ \A j \in DOMAIN kept : \E n \in 1 .. Len(s.norms) : s.norms[n] = kept[j]
  <2> DEFINE before == current.norms
  <2>1. before \in Seq(AtomName) /\ s.norms \in Seq(AtomName)
      BY <1>6, Surroundings, MaterialType
  <2>2. s.norms = before \o kept
      BY <1>7 DEF Yields
  <2> HIDE DEF before
  <2>3. Joins(before, kept, before \o kept)
      BY <1>7, <2>1, ConcatPlaces
  <2>4. DOMAIN s.norms = 1 .. Len(s.norms) /\ Len(s.norms) \in Nat
      BY <2>1, LenProperties
  <2> QED BY <2>2, <2>3, <2>4 DEF Joins
<1> DEFINE r == Proofs!Refreshed(s)
<1>11. /\ r.atoms = current.atoms /\ r.norms = s.norms /\ r.units = s.units
       /\ r.agenda = Tail(current.agenda)
       /\ r.graph = [atoms |-> Len(s.atoms), norms |-> Len(s.norms)]
  <2>1. s.agenda = Tail(current.agenda)
      BY <1>7 DEF Yields
  <2> QED BY <1>6, <1>8, <2>1, Surroundings
             DEF Proofs!Refreshed, Proofs!Recorded, Proofs!State
<1>12. r \in Proofs!State
  <2>1. current' = r
      BY <1>5, StepCurrent
  <2>2. Next
      BY DEF Next, Execute
  <2>3. Inv'
      BY <2>2, InvNext
  <2> QED BY <2>1, <2>3 DEF Inv, Proofs!Inv, Proofs!TypeOK
<1> HIDE DEF r
<1>13. Grown(current, r)
    BY <1>6, <1>8, <1>11 DEF Grown
<1>14. /\ r.graph.atoms = Len(r.atoms) /\ r.graph.norms = Len(r.norms)
       /\ DOMAIN r.atoms = 1 .. Len(r.atoms)
    BY <1>8, <1>11, <1>12, MaterialType, LenProperties
<1>15. ASSUME NEW k \in DOMAIN start.agenda, NEW q, q.type \in Judged,
              Promises(case, current, t, start.agenda[k], q)
       PROVE  Promised(case, r, start.agenda[k], q)
  <2>1. Names(current, t, q)
      BY <1>2, <1>15 DEF Promises, Continues, SearchesOnly
  <2>2. PICK a \in DOMAIN current.atoms :
            /\ current.atoms[a].id \in Proofs!Elements(t.atoms)
            /\ current.atoms[a].id.says = q /\ current.atoms[a].type = q.type
      BY <2>1 DEF Names
  <2>3. a \in Q
      BY <1>15, <2>2 DEF Proofs!Selected, Judged
  <2>4. PICK n \in 1 .. Len(r.norms) : r.norms[n] = current.atoms[a].id
      BY <1>9, <1>10, <1>11, <2>3
  <2>5. a \in 1 .. r.graph.atoms /\ r.atoms[a].id = r.norms[n]
      BY <1>11, <1>14, <2>4
  <2>6. n \in DOMAIN Readings(r) /\ Readings(r)[n] = q
      BY <1>14, <2>2, <2>4, <2>5 DEF Readings
  <2> QED BY <2>6 DEF Promised, Given
<1>16. Gathered(case, start, r)
    BY <1>11, <1>12, <1>13, <1>15, Surroundings, GatheredOn DEF t
<1> QED BY <1>5, <1>16, StepCurrent DEF r

\* Nothing is lost or made up in any state of a cycle.
Ledger ==
    /\ SearchesOnly(start)
    /\ Gathered(case, start, state) /\ Gathered(case, start, current)

\* At the start everything is promised, and nothing is there.
LEMMA LedgerInit == Init => Ledger
<1> SUFFICES ASSUME Init PROVE Ledger
    OBVIOUS
<1>1. case \in Cases /\ start \in FirstStates(case) /\ state = start /\ current = start
    BY DEF Init
<1> QED BY <1>1, FirstSearches, FirstGathered DEF Ledger

\* Giving a reason to stop takes nothing from a state.
LEMMA StoppedGathers ==
    ASSUME Inv, Ledger, NEW reason \in {"max_iterations_exhausted", "repeated_task_detected"},
           NEW type \in {"stopped", "budget_exhausted"}
    PROVE  Gathered(case, start, Proofs!Stopped(current, reason, type))
<1> DEFINE r == Proofs!Stopped(current, reason, type)
<1>1. SameMaterial(current, r)
    BY InvTypes, StoppedMaterial DEF Proofs!StopReasons
<1>2. r.agenda = current.agenda
    BY InvTypes DEF Proofs!State, Proofs!Stopped, Proofs!Recorded
<1> HIDE DEF r
<1>3. Gathered(case, start, r)
    BY <1>1, <1>2, SameGathered DEF Ledger
<1> QED BY <1>3 DEF r

\* The ledger is kept by every step.
LEMMA LedgerNext ==
    ASSUME Inv, Ledger, [Next]_vars
    PROVE  Ledger'
<1>1. ASSUME case' = case, start' = start, state' \in {state, current'},
             Gathered(case, start, current')
      PROVE  Ledger'
  <2>1. Gathered(case', start', current') /\ Gathered(case', start', state')
      BY <1>1 DEF Ledger
  <2>2. SearchesOnly(start')
      BY <1>1 DEF Ledger
  <2> QED BY <2>1, <2>2 DEF Ledger
<1>2. CASE Call
  <2>1. case' = case /\ start' = start /\ state' = state /\ current' = state
      BY <1>2, SameActions DEF Call, Proofs!Begin, Proofs!given
  <2> QED BY <1>1, <2>1 DEF Ledger
<1>3. CASE Return
  <2>1. case' = case
      BY <1>3 DEF Return
  <2>2. CASE Proofs!ReturnAgenda
    <3>1. start' = start /\ state' = current' /\ current' = current
        BY <2>2 DEF Proofs!ReturnAgenda, Proofs!Return, Proofs!given
    <3> QED BY <1>1, <2>1, <3>1 DEF Ledger
  <2>3. CASE Proofs!StopRepeated
    <3>1. /\ start' = start /\ state' = current'
          /\ current' = Proofs!Stopped(current, "repeated_task_detected", "stopped")
        BY <2>3 DEF Proofs!StopRepeated, Proofs!Return, Proofs!given
    <3> QED BY <1>1, <2>1, <3>1, StoppedGathers
  <2> QED BY <1>3, <2>2, <2>3, SameActions DEF Return
<1>4. CASE ExhaustBudget
  <2> DEFINE r == Proofs!Stopped(current, "max_iterations_exhausted", "budget_exhausted")
  <2>1. case' = case /\ Proofs!Step(r)
      BY <1>4, SameActions DEF ExhaustBudget, Proofs!ExhaustBudget
  <2>2. Gathered(case, start, r)
      BY StoppedGathers
  <2> HIDE DEF r
  <2>3. start' = start /\ state' \in {state, current'} /\ current' = r
      BY <2>1 DEF Proofs!Step, Proofs!Return, Proofs!given
  <2> QED BY <1>1, <2>1, <2>2, <2>3
<1>5. CASE current.agenda # <<>> /\ Execute(Head(current.agenda))
  <2> DEFINE t == Head(current.agenda)
  <2>1. CASE Break(t)
    <3>1. case' = case /\ start' = start /\ state' = state /\ current' = state
        BY <2>1, SameActions DEF Break, Proofs!Raise, Proofs!given
    <3> QED BY <1>1, <3>1 DEF Ledger
  <2>2. CASE Retrieve(t) \/ Atomize(t) \/ Normalize(t)
    <3>1. Gathered(case, start, current')
        BY <1>5, <2>2, RetrieveGathers, AtomizeGathers, NormalizeGathers DEF Ledger
    <3>2. Moves
        BY <1>5, <2>2, RetrieveMoves, AtomizeMoves, NormalizeMoves
    <3>3. start' = start
      <4>1. \E r : Proofs!Step(r)
          BY <2>2, SameActions, SameOperators
             DEF Retrieve, Atomize, Normalize, Proofs!Retrieve, Proofs!Complete,
                 Proofs!Atomize, Proofs!Normalize
      <4> QED BY <4>1 DEF Proofs!Step, Proofs!Return, Proofs!given
    <3> QED BY <1>1, <3>1, <3>2, <3>3 DEF Moves
  <2> QED BY <1>5, <2>1, <2>2 DEF Execute
<1>6. CASE UNCHANGED vars
  <2>1. case' = case /\ start' = start /\ state' = state /\ current' = current
      BY <1>6 DEF vars, loop
  <2> QED BY <1>1, <2>1 DEF Ledger
<1>7. CASE Rest
    BY <1>6, <1>7 DEF Rest
<1> QED BY <1>2, <1>3, <1>4, <1>5, <1>6, <1>7 DEF Next

\* The claim a need is judged by states it.
LEMMA TargetStates ==
    ASSUME NEW claims, claims \in Seq(Claim), NEW n, Stating(claims, n) # {}
    PROVE  TargetClaim(claims, n) \in Claim /\ Stated(TargetClaim(claims, n), n)
<1>1. /\ DOMAIN claims = 1 .. Len(claims) /\ Len(claims) \in Nat
      /\ \A i \in DOMAIN claims : claims[i] \in Claim
    BY LenProperties
<1>2. Stating(claims, n) \subseteq Nat
    BY <1>1 DEF Stating
<1>3. \E i \in Stating(claims, n) : \A j \in Stating(claims, n) : i <= j
    BY <1>2, LeastPosition
<1>4. First(Stating(claims, n)) \in Stating(claims, n)
    BY <1>3 DEF First
<1> QED BY <1>1, <1>4 DEF Stating, TargetClaim

\* The hard gate's judgement of an amount is that of exact arithmetic, but for
\* products that are not exact.
LEMMA UsageJudged ==
    ASSUME NEW c \in Claim, Stated(c, "usage_amount"), NEW l, Plain(l),
           NEW r, r.type = "usage_amount", r.amount = l.amount, r.unit = l.unitName
    PROVE  /\ (\E rel \in Supporting : rel \in Relations(c, "usage_amount", r))
                <=> Proves(c, "usage_amount", l) /\ ~Refutes(c, "usage_amount", l)
           /\ "contradicts" \in Relations(c, "usage_amount", r) <=> Refutes(c, "usage_amount", l)
<1> DEFINE target == Quantity(c.amount, c.unit)
           found == Quantity(r.amount, r.unit)
           a == l.amount
           u == l.unitName
           b == c.amount
           w == c.unit
<1>1. Relations(c, "usage_amount", r) =
          {rel \in Relation :
              IF ~Compatible(found, target) THEN rel = "rejected_for_need"
              ELSE IF ~SameNumber(found, target) THEN rel = "contradicts"
              ELSE rel = IF found.source = target.source THEN "supports"
                         ELSE "supports_after_unit_normalization"}
    BY DEF Relations, UsageRelations
<1>2. /\ Proves(c, "usage_amount", l) <=> SameAmount(a, u, b, w)
      /\ Refutes(c, "usage_amount", l)
            <=> /\ Commensurable(u, w)
                /\ ~SameAmount(a, u, b, w) \/ {<<a, u>>} \cap Rounded # {<<b, w>>} \cap Rounded
    BY DEF Proves, Refutes
<1>3. Compatible(found, target) <=> Commensurable(u, w)
    BY DEF Quantity, Compatible, Commensurable
<1>4. ASSUME Commensurable(u, w)
      PROVE  SameNumber(found, target) <=>
                /\ SameAmount(a, u, b, w) /\ {<<a, u>>} \cap Rounded = {<<b, w>>} \cap Rounded
  <2>1. CASE {u, w} \subseteq DOMAIN Scale
    <3>1. /\ found.value = a * Scale[u] /\ found.rounded = {<<a, u>>} \cap Rounded
          /\ target.value = b * Scale[w] /\ target.rounded = {<<b, w>>} \cap Rounded
        BY <2>1 DEF Quantity
    <3>2. CanonicalUnit[u] = CanonicalUnit[w]
        BY <1>4 DEF Commensurable
    <3>3. SameAmount(a, u, b, w) <=> a * Scale[u] = b * Scale[w]
        BY <2>1, <3>2 DEF SameAmount
    <3> QED BY <3>1, <3>3 DEF SameNumber
  <2>2. CASE ~({u, w} \subseteq DOMAIN Scale)
    <3>1. u = w /\ u \notin DOMAIN Scale
        BY <1>4, <2>2 DEF Commensurable
    <3>2. /\ found.value = a /\ found.rounded = {} /\ target.value = b /\ target.rounded = {}
        BY <3>1 DEF Quantity
    <3>3. SameAmount(a, u, b, w) <=> a = b
        BY <3>1 DEF SameAmount
    <3> QED BY <3>1, <3>2, <3>3 DEF SameNumber
  <2> QED BY <2>1, <2>2
<1>5. SameAmount(a, u, b, w) => Commensurable(u, w)
    BY DEF SameAmount, Commensurable
<1> HIDE DEF target, found, a, u, b, w
<1>6. "contradicts" \in Relations(c, "usage_amount", r)
          <=> Compatible(found, target) /\ ~SameNumber(found, target)
    BY <1>1 DEF Relation
<1>7. (\E rel \in Supporting : rel \in Relations(c, "usage_amount", r))
          <=> Compatible(found, target) /\ SameNumber(found, target)
    BY <1>1 DEF Relation, Supporting
<1> QED BY <1>2, <1>3, <1>4, <1>5, <1>6, <1>7

\* A period is judged as its line states it.
LEMMA PeriodJudged ==
    ASSUME NEW c \in Claim, Stated(c, "service_period"), NEW l, l.span # None,
           NEW r, r.type = "service_period", r.span = l.span
    PROVE  /\ (\E rel \in Supporting : rel \in Relations(c, "service_period", r))
                <=> Proves(c, "service_period", l) /\ ~Refutes(c, "service_period", l)
           /\ "contradicts" \in Relations(c, "service_period", r)
                <=> Refutes(c, "service_period", l)
<1>1. Relations(c, "service_period", r) =
          {rel \in {"supports", "contradicts"} : rel = "supports" <=> l.span = c.period}
    BY DEF Relations, PeriodRelations
<1>2. /\ Proves(c, "service_period", l) <=> l.span = c.period
      /\ Refutes(c, "service_period", l) <=> l.span # c.period
    BY DEF Proves, Refutes
<1> QED BY <1>1, <1>2 DEF Supporting

\* Of all that a line can say, a need is judged by what is of its own type,
\* and that line proves or refutes it accordingly.
LEMMA ReadingJudged ==
    ASSUME NEW c \in Claim, NEW n \in Judged, Stated(c, n), NEW l, NEW r \in Read(l)
    PROVE  /\ (\E rel \in Supporting : rel \in Relations(c, n, r)) => r.type = n
           /\ "contradicts" \in Relations(c, n, r) => r.type = n
           /\ r.type = n =>
                 /\ (\E rel \in Supporting : rel \in Relations(c, n, r))
                      <=> Proves(c, n, l) /\ ~Refutes(c, n, l)
                 /\ "contradicts" \in Relations(c, n, r) <=> Refutes(c, n, l)
<1>1. CASE n = "usage_amount"
  <2>1. /\ (\E rel \in Supporting : rel \in Relations(c, n, r)) => r.type = n
        /\ "contradicts" \in Relations(c, n, r) => r.type = n
      BY <1>1 DEF Relations, UsageRelations, Supporting
  <2>2. ASSUME r.type = n
        PROVE  Plain(l) /\ r.amount = l.amount /\ r.unit = l.unitName
      BY <1>1, <2>2 DEF Read, Says, Plain
  <2> QED BY <1>1, <2>1, <2>2, UsageJudged
<1>2. CASE n = "service_period"
  <2>1. /\ (\E rel \in Supporting : rel \in Relations(c, n, r)) => r.type = n
        /\ "contradicts" \in Relations(c, n, r) => r.type = n
      BY <1>2 DEF Relations, PeriodRelations
  <2>2. ASSUME r.type = n
        PROVE  l.span # None /\ r.span = l.span
      BY <1>2, <2>2 DEF Read, Says
  <2> QED BY <1>2, <2>1, <2>2, PeriodJudged
<1> QED BY <1>1, <1>2 DEF Judged

\* The edges of a claim are the relations of its stated needs to the readings.
LEMMA EdgesAre ==
    ASSUME NEW claims, NEW i, NEW readings, NEW e
    PROVE  e \in Edges(claims, i, readings) <=>
               \E n \in {m \in NeedsOf(SpecOf(claims, i)) : Stating(claims, m) # {}},
                  a \in DOMAIN readings :
                   \E rel \in Relations(TargetClaim(claims, n), n, readings[a]) :
                       e = [need |-> n, at |-> a, relation |-> rel]
<1> DEFINE S == {m \in NeedsOf(SpecOf(claims, i)) : Stating(claims, m) # {}}
           Rels(n, a) == Relations(TargetClaim(claims, n), n, readings[a])
           F(n, a) == {[need |-> n, at |-> a, relation |-> rel] : rel \in Rels(n, a)}
<1>1. Edges(claims, i, readings) = UNION {F(n, a) : n \in S, a \in DOMAIN readings}
    BY DEF Edges
<1>2. \A n, a : e \in F(n, a) <=> \E rel \in Rels(n, a) : e = [need |-> n, at |-> a, relation |-> rel]
    OBVIOUS
<1> HIDE DEF S, F, Rels
<1>3. e \in UNION {F(n, a) : n \in S, a \in DOMAIN readings} <=>
          \E n \in S, a \in DOMAIN readings : e \in F(n, a)
    OBVIOUS
<1>4. e \in Edges(claims, i, readings) <=>
          \E n \in S, a \in DOMAIN readings :
              \E rel \in Rels(n, a) : e = [need |-> n, at |-> a, relation |-> rel]
    BY <1>1, <1>2, <1>3
<1> QED BY <1>4 DEF S, Rels

\* A line that proves or refutes what a claim states can be read for it.
LEMMA ProofIsRead ==
    ASSUME NEW c \in Claim, NEW n \in Judged, Stated(c, n), NEW l,
           Proves(c, n, l) \/ Refutes(c, n, l)
    PROVE  \E r \in Read(l) : r.type = n
<1>1. CASE n = "usage_amount"
  <2>1. Plain(l)
      BY <1>1 DEF Proves, Refutes
  <2>2. Says("usage_amount", l.amount, l.unitName, None) \in Read(l)
      BY <2>1 DEF Plain, Read
  <2> QED BY <1>1, <2>2 DEF Says
<1>2. CASE n = "service_period"
  <2>1. l.span # None
      BY <1>2, ResolverAssumption DEF Proves, Refutes, Stated
  <2>2. Says("service_period", None, None, l.span) \in Read(l)
      BY <2>1 DEF Read
  <2> QED BY <1>2, <2>2 DEF Says
<1> QED BY <1>1, <1>2 DEF Judged

\* What the resolver was given of state is what lines of reached units say ...
LEMMA ReadingsReached ==
    ASSUME Inv, Ledger, NEW a \in DOMAIN Readings(state)
    PROVE  \E l : /\ Readings(state)[a] \in Read(l)
                  /\ \A n \in Judged : Readings(state)[a].type = n => l \in Reached(n)
<1> DEFINE r == Readings(state)[a]
<1>1. PICK x \in 1 .. state.graph.atoms :
          a \in 1 .. state.graph.norms /\ state.atoms[x].id = state.norms[a]
    BY DEF Readings
<1>2. r = state.atoms[x].id.says
    BY <1>1 DEF Readings
<1>3. x \in DOMAIN state.atoms
  <2>1. /\ Len(state.atoms) \in Nat /\ DOMAIN state.atoms = 1 .. Len(state.atoms)
        /\ state.graph.atoms \in Nat /\ state.graph.atoms <= Len(state.atoms)
      BY InvTypes, MaterialType, LenProperties DEF Inv, Wiring, Resolvable
  <2> QED BY <2>1
<1>4. PICK k \in DOMAIN start.agenda : Offers(case, start.agenda[k], r)
    BY <1>2, <1>3 DEF Ledger, Gathered, ReadFrom
<1> HIDE DEF r
<1>5. PICK m \in Legible(case, SearchOf(case, start.agenda[k])) : r \in Read(case.lines[m])
    BY <1>4 DEF Offers
<1>6. ASSUME NEW n \in Judged, r.type = n
      PROVE  case.lines[m] \in Reached(n)
  <2>1. /\ n \in AllowedTypes(start.agenda[k].target[2])
        /\ start.agenda[k].target[2] \in NeedType
      BY <1>4, <1>6 DEF Offers, Ledger, SearchesOnly
  <2>2. start.agenda[k].target[2] = n
      BY <2>1 DEF AllowedTypes, NeedType, Judged
  <2> QED BY <1>5, <2>2 DEF Reached, SearchOf
<1> QED BY <1>5, <1>6 DEF r

\* ... and once the agenda is empty, all that they say.
LEMMA ReachedReadings ==
    ASSUME Inv, Ledger, state.agenda = <<>>,
           NEW n \in Judged, NEW l \in Reached(n), NEW r \in Read(l), r.type = n
    PROVE  \E a \in DOMAIN Readings(state) : Readings(state)[a] = r
<1>1. PICK k \in DOMAIN start.agenda :
          /\ start.agenda[k].target[2] = n
          /\ l \in {case.lines[m] : m \in Legible(case, SearchOf(case, start.agenda[k]))}
    BY DEF Reached, SearchOf
<1>2. n \in start.agenda[k].allowed
    BY <1>1 DEF Ledger, SearchesOnly, AllowedTypes, Judged
<1>3. Offers(case, start.agenda[k], r)
    BY <1>1, <1>2 DEF Offers
<1>4. Promised(case, state, start.agenda[k], r)
    BY <1>3 DEF Ledger, Gathered
<1>5. DOMAIN state.agenda = {}
    OBVIOUS
<1> QED BY <1>4, <1>5 DEF Promised, Given

\* The verdicts of a state are true of the text.
LEMMA LedgerMeansVerdicts ==
    ASSUME Inv, Ledger
    PROVE  VerdictOfEvidence
<1> SUFFICES ASSUME NEW i \in DOMAIN case.claims
             PROVE
        LET v == Verdicts(state)[i]
            stated == {n \in NeedsOf(SpecOf(case.claims, i)) : Stating(case.claims, n) # {}}
            Lines(n) == {l \in Reached(n) : Proves(TargetClaim(case.claims, n), n, l)}
            Against(n) == {l \in Reached(n) : Refutes(TargetClaim(case.claims, n), n, l)}
        IN  /\ \A n \in SupportedNeeds(v.edges) : Lines(n) # {}
            /\ v.status = "contradicted" => \E n \in stated : Against(n) # {}
            /\ (Returned /\ StopReason(state) = "agenda_exhausted") =>
                 /\ \A n \in stated : Lines(n) \subseteq Against(n) \/ n \notin v.missing
                 /\ (\E n \in stated : Against(n) # {}) => v.status = "contradicted"
    BY DEF VerdictOfEvidence
<1> DEFINE v == Verdicts(state)[i]
           stated == {n \in NeedsOf(SpecOf(case.claims, i)) : Stating(case.claims, n) # {}}
           Lines(n) == {l \in Reached(n) : Proves(TargetClaim(case.claims, n), n, l)}
           Against(n) == {l \in Reached(n) : Refutes(TargetClaim(case.claims, n), n, l)}
           E == Edges(case.claims, i, Readings(state))
           M == MissingNeeds(SpecOf(case.claims, i), E)
           T(n) == TargetClaim(case.claims, n)
           R == Readings(state)
<1>1. v = [edges |-> E, missing |-> M, status |-> StatusOf(E, M)]
  <2>1. Verdicts(state) = Resolved(case.claims, R)
      BY DEF Verdicts, Readings
  <2> QED BY <2>1 DEF Resolved
<1>2. \A e : e \in E <=> \E n \in stated, a \in DOMAIN R : \E rel \in Relations(T(n), n, R[a]) :
                            e = [need |-> n, at |-> a, relation |-> rel]
    BY EdgesAre
<1>3. ASSUME NEW n \in stated
      PROVE  n \in Judged /\ T(n) \in Claim /\ Stated(T(n), n)
  <2>1. Stating(case.claims, n) # {}
      OBVIOUS
  <2>2. case.claims \in Seq(Claim)
      BY CaseType DEF Inv, Wiring
  <2>3. T(n) \in Claim /\ Stated(T(n), n)
      BY <2>1, <2>2, TargetStates
  <2> QED BY <2>3 DEF Stated, Judged
<1>4. v.status = "contradicted" <=> \E e \in E : e.relation = "contradicts"
    BY <1>1 DEF StatusOf
<1>5. v.edges = E /\ v.missing = M
    BY <1>1
<1>6. \A n \in M : n \notin SupportedNeeds(E)
    BY DEF MissingNeeds
<1> HIDE DEF v, E, M, T, R, stated
<1>7. \A n : n \in SupportedNeeds(E) <=>
          n \in stated /\ \E a \in DOMAIN R : \E rel \in Supporting : rel \in Relations(T(n), n, R[a])
  <2> TAKE n
  <2>1. ASSUME n \in SupportedNeeds(E)
        PROVE  /\ n \in stated
               /\ \E a \in DOMAIN R : \E rel \in Supporting : rel \in Relations(T(n), n, R[a])
    <3>1. PICK e \in E : e.relation \in Supporting /\ e.need = n
        BY <2>1 DEF SupportedNeeds
    <3> QED BY <1>2, <3>1
  <2>2. ASSUME n \in stated, NEW a \in DOMAIN R, NEW rel \in Supporting,
               rel \in Relations(T(n), n, R[a])
        PROVE  n \in SupportedNeeds(E)
    <3> DEFINE e == [need |-> n, at |-> a, relation |-> rel]
    <3>1. e \in E /\ e.need = n /\ e.relation \in Supporting
        BY <1>2, <2>2
    <3> QED BY <3>1 DEF SupportedNeeds
  <2> QED BY <2>1, <2>2
<1>8. (\E e \in E : e.relation = "contradicts")
          <=> \E n \in stated, a \in DOMAIN R : "contradicts" \in Relations(T(n), n, R[a])
  <2>1. ASSUME NEW n \in stated, NEW a \in DOMAIN R, "contradicts" \in Relations(T(n), n, R[a])
        PROVE  \E e \in E : e.relation = "contradicts"
    <3> DEFINE e == [need |-> n, at |-> a, relation |-> "contradicts"]
    <3>1. e \in E /\ e.relation = "contradicts"
        BY <1>2, <2>1
    <3> QED BY <3>1
  <2> QED BY <1>2, <2>1
<1>9. ASSUME NEW n \in SupportedNeeds(E)
      PROVE  Lines(n) # {}
  <2>1. n \in stated
      BY <1>7
  <2>2. PICK a \in DOMAIN R : \E rel \in Supporting : rel \in Relations(T(n), n, R[a])
      BY <1>7
  <2>3. PICK l : R[a] \in Read(l) /\ (R[a].type = n => l \in Reached(n))
      BY <1>3, <2>1, ReadingsReached DEF R
  <2>4. R[a].type = n /\ Proves(T(n), n, l)
      BY <1>3, <2>1, <2>2, <2>3, ReadingJudged
  <2> QED BY <2>3, <2>4 DEF T
<1>10. ASSUME v.status = "contradicted"
       PROVE  \E n \in stated : Against(n) # {}
  <2>1. PICK n \in stated, a \in DOMAIN R : "contradicts" \in Relations(T(n), n, R[a])
      BY <1>4, <1>8, <1>10
  <2>2. PICK l : R[a] \in Read(l) /\ (R[a].type = n => l \in Reached(n))
      BY <1>3, ReadingsReached DEF R
  <2>3. R[a].type = n /\ Refutes(T(n), n, l)
      BY <1>3, <2>1, <2>2, ReadingJudged
  <2> QED BY <2>2, <2>3 DEF T
<1>11. ASSUME StopReason(state) = "agenda_exhausted"
       PROVE  state.agenda = <<>>
  <2>1. state.stop \in {"agenda_empty", "max_iterations_exhausted", "repeated_task_detected",
                        None}
      BY InvTypes DEF Proofs!State, Proofs!StopReasons
  <2> QED BY <1>11, <2>1 DEF StopReason
<1>12. ASSUME state.agenda = <<>>, NEW n \in stated, NEW l \in Reached(n),
              Proves(T(n), n, l) \/ Refutes(T(n), n, l)
       PROVE  \E a \in DOMAIN R : R[a] \in Read(l) /\ R[a].type = n
  <2>1. PICK r \in Read(l) : r.type = n
      BY <1>3, <1>12, ProofIsRead
  <2>2. \E a \in DOMAIN R : R[a] = r
      BY <1>3, <1>12, <2>1, ReachedReadings DEF R
  <2> QED BY <2>1, <2>2
<1>13. ASSUME state.agenda = <<>>, NEW n \in stated
       PROVE  Lines(n) \subseteq Against(n) \/ n \notin v.missing
  <2> SUFFICES ASSUME NEW l \in Lines(n), l \notin Against(n)
               PROVE  n \notin v.missing
      OBVIOUS
  <2>1. l \in Reached(n) /\ Proves(T(n), n, l) /\ ~Refutes(T(n), n, l)
      BY DEF T
  <2>2. PICK a \in DOMAIN R : R[a] \in Read(l) /\ R[a].type = n
      BY <1>12, <1>13, <2>1
  <2>3. \E rel \in Supporting : rel \in Relations(T(n), n, R[a])
      BY <1>3, <2>1, <2>2, ReadingJudged
  <2>4. n \in SupportedNeeds(E)
      BY <1>7, <2>3
  <2> QED BY <1>5, <1>6, <2>4
<1>14. ASSUME state.agenda = <<>>, NEW n \in stated, Against(n) # {}
       PROVE  v.status = "contradicted"
  <2>1. PICK l \in Reached(n) : Refutes(T(n), n, l)
      BY <1>14 DEF T
  <2>2. PICK a \in DOMAIN R : R[a] \in Read(l) /\ R[a].type = n
      BY <1>12, <1>14, <2>1
  <2>3. "contradicts" \in Relations(T(n), n, R[a])
      BY <1>3, <2>1, <2>2, ReadingJudged
  <2> QED BY <1>4, <1>8, <2>3
<1> HIDE DEF Lines, Against
<1>15. \A n \in SupportedNeeds(v.edges) : Lines(n) # {}
    BY <1>5, <1>9
<1>16. StopReason(state) = "agenda_exhausted" =>
           /\ \A n \in stated : Lines(n) \subseteq Against(n) \/ n \notin v.missing
           /\ (\E n \in stated : Against(n) # {}) => v.status = "contradicted"
    BY <1>11, <1>13, <1>14
<1> QED BY <1>10, <1>15, <1>16 DEF Lines, Against, v, stated

-----------------------------------------------------------------------------
(***************************************************************************)
(* The theorems.                                                           *)
(***************************************************************************)

\* The invariant holds in every state of a cycle.
THEOREM Invariance == Spec => []Inv
<1>1. Inv /\ [Next]_vars => Inv'
    BY InvNext
<1>2. Init => Inv
    BY InvInit
<1> QED BY <1>1, <1>2, PTL DEF Spec

\* The cycle is a run of the investigation loop.
THEOREM LoopTheorem == Spec => Loop!Spec
<1>1. Init => Loop!Init
    BY DEF Init, Loop!Init
<1>2. Inv /\ [Next]_vars => [Loop!Next]_(Loop!vars)
    BY InvNext, SameActions DEF Loop!vars, Proofs!vars, Loop!given, Proofs!given
<1> QED BY <1>1, <1>2, Invariance, PTL DEF Spec, Loop!Spec

\* Every variable keeps its type.
THEOREM TypeCorrect == Spec => []TypeOK
<1>1. ASSUME Inv PROVE TypeOK
  <2>1. /\ state \in Proofs!State /\ current \in Proofs!State
        /\ start \in Proofs!State /\ calls \in 0 .. 1
      BY <1>1, LoopAssumption
         DEF Inv, Proofs!Inv, Proofs!TypeOK, Proofs!InvestigationAssumption
  <2>2. Proofs!State = Loop!State
      BY DEF Proofs!State, Loop!State, Proofs!Task, Loop!Task, Proofs!TaskId, Loop!TaskId,
             Proofs!TaskType, Loop!TaskType, Proofs!Result, Loop!Result, Proofs!Status, Loop!Status,
             Proofs!Atom, Loop!Atom, Proofs!Graph, Loop!Graph, Proofs!StopReasons,
             Loop!StopReasons, Proofs!EventRecord, Loop!EventRecord
  <2> QED BY <1>1, <2>1, <2>2 DEF TypeOK, Inv, Wiring
<1>2. Inv => TypeOK
    BY <1>1
<1> QED BY <1>2, Invariance, PTL

\* Searching on never loses an edge, makes a need missing, or withdraws a
\* contradiction.
THEOREM ForwardTheorem == Spec => VerdictsForward
<1> DEFINE Forward(v, w) ==
             /\ v.edges \subseteq w.edges
             /\ w.missing \subseteq v.missing
             /\ v.status = "contradicted" => w.status = "contradicted"
<1>1. ASSUME Inv, Next, ~UNCHANGED vars, phase' = "agenda" \/ state' # state,
             NEW i \in DOMAIN case.claims
      PROVE  Forward(Verdicts(current)[i], Verdicts(current)'[i])
  <2>1. Moves /\ case' = case
      BY <1>1, EveryStep DEF Moves
  <2>2. /\ current \in Proofs!State /\ Resolvable(current)
        /\ current' \in Proofs!State
      BY <1>1, InvTypes, InvNext DEF Inv, Wiring, Proofs!Inv, Proofs!TypeOK
  <2>3. /\ Verdicts(current) = Resolved(case.claims, Readings(current))
        /\ Verdicts(current)' = Resolved(case.claims, Readings(current'))
      BY <2>1 DEF Verdicts, Readings
  <2>4. Grown(current, current')
      BY <2>1 DEF Moves
  <2>5. /\ DOMAIN Readings(current) \subseteq DOMAIN Readings(current')
        /\ \A n \in DOMAIN Readings(current) : Readings(current')[n] = Readings(current)[n]
      BY <2>2, <2>4, ReadingsGrow
  <2> QED BY <2>3, <2>5, ResolverMonotone
<1> DEFINE Step ==
             phase' = "agenda" \/ state' # state =>
               \A i \in DOMAIN case.claims :
                  LET v == Verdicts(current)[i]
                      w == Verdicts(current)'[i]
                  IN  /\ v.edges \subseteq w.edges
                      /\ w.missing \subseteq v.missing
                      /\ v.status = "contradicted" => w.status = "contradicted"
<1>2. Inv /\ [Next]_vars => [Step]_vars
    BY <1>1
<1> QED BY <1>2, Invariance, PTL DEF Spec, VerdictsForward

\* A reason to stop is the true one, for all combinations of the step limits.
THEOREM StopTheorem == Spec => []StopHonest
<1>1. Init => Course
    BY CourseInit
<1>2. Inv /\ Course /\ [Next]_vars => Course'
    BY CourseNext
<1>3. ASSUME Inv, Course PROVE StopHonest
  <2> SUFFICES ASSUME Returned
               PROVE  CASE StopReason(state) = "agenda_exhausted" ->
                             \A k \in DOMAIN start.agenda : \E n \in DOMAIN state.completed :
                                 state.completed[n].task = start.agenda[k].id
                       [] StopReason(state) = "max_iterations_exhausted" ->
                             request.budget # None /\ Len(state.completed) = request.budget
                       [] StopReason(state) = "repeated_task_detected" -> ~DistinctIds
                       [] OTHER -> Len(state.completed) = StepsOf(request)
      BY DEF StopHonest
  <2>1. start \in FirstStates(case) /\ (state = start \/ Ended(state))
      BY <1>3 DEF Course, Returned
  <2>2. start.events = <<>> /\ start.stop = None
      BY <1>3, <2>1, StartStateType DEF Inv, Wiring
  <2>3. CASE state = start
    <3>1. start.agenda = <<>> \/ (start.agenda # <<>> /\ StepsOf(request) = 0)
        BY <2>2, <2>3 DEF Returned
    <3>2. CASE start.agenda = <<>>
      <4>1. StopReason(state) = "agenda_exhausted"
          BY <2>2, <2>3, <3>2 DEF StopReason
      <4>2. DOMAIN start.agenda = {}
          BY <3>2
      <4> QED BY <4>1, <4>2
    <3>3. CASE start.agenda # <<>> /\ StepsOf(request) = 0
      <4>1. StopReason(state) = "max_investigation_steps_reached"
          BY <2>2, <2>3, <3>3 DEF StopReason
      <4>2. start.completed = <<>>
          BY <1>3, <2>1, StartStateType DEF Inv, Wiring
      <4>3. Len(state.completed) = StepsOf(request)
          BY <2>3, <3>3, <4>2
      <4> QED BY <4>1, <4>3
    <3> QED BY <3>1, <3>2, <3>3
  <2>4. CASE state.stop = None /\ Searched(state) /\ state.agenda = <<>>
    <3>1. StopReason(state) = "agenda_exhausted"
        BY <2>4 DEF StopReason
    <3>2. DOMAIN state.agenda = {}
        BY <2>4
    <3>3. \A k \in DOMAIN start.agenda : \E n \in DOMAIN state.completed :
              state.completed[n].task = start.agenda[k].id
        BY <2>4, <3>2 DEF Searched
    <3> QED BY <3>1, <3>3
  <2>5. CASE state.stop = None /\ state.agenda # <<>> /\ Len(state.completed) = StepsOf(request)
      BY <2>5 DEF StopReason
  <2>6. CASE /\ state.stop = "max_iterations_exhausted"
             /\ request.budget # None /\ Len(state.completed) = request.budget
    <3>1. StopReason(state) = "max_iterations_exhausted"
        BY <2>6, NoneApart DEF StopReason
    <3> QED BY <2>6, <3>1
  <2>7. CASE state.stop = "repeated_task_detected" /\ ~DistinctIds
    <3>1. StopReason(state) = "repeated_task_detected"
        BY <2>7, NoneApart DEF StopReason
    <3> QED BY <2>7, <3>1
  <2> QED BY <2>1, <2>3, <2>4, <2>5, <2>6, <2>7 DEF Ended
<1> QED BY <1>1, <1>2, <1>3, Invariance, PTL DEF Spec

\* Planned again, the graph that a cycle has reached asks for exactly what its
\* verdicts leave open, whatever the claims with distinct ids, the inventory and
\* the limits.
THEOREM PlanTheorem == Spec => []PlanFollowsVerdict
<1>1. ASSUME Inv PROVE PlanFollowsVerdict
  <2>1. Verdicts(state) = Resolved(case.claims, Readings(state))
      BY DEF Verdicts, Readings
  <2>2. Len(case.claims) \in Nat /\ DOMAIN case.claims = 1 .. Len(case.claims)
      BY <1>1, CaseType, LenProperties DEF Inv, Wiring
  <2>3. ASSUME DistinctIds, NEW plan \in GapPlans(case.claims, Verdicts(state))
        PROVE  Fits(plan, case.claims, Verdicts(state))
    <3> DEFINE claims == case.claims
               readings == Readings(state)
    <3>1. \A m, n \in DOMAIN claims : claims[m].x = claims[n].x => m = n
        BY <2>3 DEF DistinctIds
    <3>2. Len(claims) \in Nat /\ DOMAIN claims = 1 .. Len(claims)
        BY <2>2
    <3>3. plan \in GapPlans(claims, Resolved(claims, readings))
        BY <2>1, <2>3
    <3> HIDE DEF claims, readings
    <3>4. Fits(plan, claims, Resolved(claims, readings))
        BY <3>1, <3>2, <3>3, PlannerFollows
    <3> QED BY <2>1, <3>4 DEF claims, readings
  <2> QED BY <2>3 DEF PlanFollowsVerdict
<1>2. Inv => PlanFollowsVerdict
    BY <1>1
<1> QED BY <1>2, Invariance, PTL

\* Claims have different needs.
NeedsApart ==
    \A i, j \in DOMAIN case.claims :
        NeedsOf(case.claims[i]) \cap NeedsOf(case.claims[j]) # {} => i = j

\* Claims with different needs are each judged by what they state themselves;
\* a need two claims have is where JudgedByOwnClaim is lost.
THEOREM OwnTarget == Spec => [](NeedsApart => JudgedByOwnClaim)
<1>1. ASSUME Inv, NeedsApart PROVE JudgedByOwnClaim
  <2> DEFINE claims == case.claims
             readings == Readings(state)
  <2>1. /\ Verdicts(state) = Resolved(claims, readings)
        /\ \A a \in DOMAIN readings : readings[a] = state.norms[a].says
      BY DEF Verdicts, Readings
  <2>2. Len(claims) \in Nat /\ DOMAIN claims = 1 .. Len(claims)
      BY <1>1, CaseType, LenProperties DEF Inv, Wiring
  <2>3. \A i, j \in DOMAIN claims : NeedsOf(claims[i]) \cap NeedsOf(claims[j]) # {} => i = j
      BY <1>1 DEF NeedsApart
  <2>4. JudgedByOwnClaim <=>
          \A i \in DOMAIN claims : \A e \in Verdicts(state)[i].edges :
             e.relation \in Relations(SpecOf(claims, i), e.need, state.norms[e.at].says)
      BY DEF JudgedByOwnClaim
  <2> HIDE DEF claims, readings
  <2>5. ASSUME NEW i \in DOMAIN claims, NEW e \in Edges(claims, i, readings)
        PROVE  e.relation \in Relations(SpecOf(claims, i), e.need, readings[e.at])
                 /\ e.at \in DOMAIN readings
    <3>1. PICK n \in NeedsOf(SpecOf(claims, i)), a \in DOMAIN readings :
              /\ Stating(claims, n) # {}
              /\ \E rel \in Relations(TargetClaim(claims, n), n, readings[a]) :
                    e = [need |-> n, at |-> a, relation |-> rel]
        BY DEF Edges
    <3>2. PICK k \in DOMAIN claims : SpecOf(claims, i) = claims[k]
      <4>1. {j \in DOMAIN claims : claims[j].x = claims[i].x} \subseteq Nat
          BY <2>2
      <4>2. First({j \in DOMAIN claims : claims[j].x = claims[i].x}) \in DOMAIN claims
          BY <4>1, LeastPosition DEF First
      <4> QED BY <4>2 DEF SpecOf
    <3>3. \A j \in Stating(claims, n) : j \in DOMAIN claims /\ n \in NeedsOf(claims[j])
      <4>1. \A c : Stated(c, n) /\ n \in NeedType => n \in NeedsOf(c)
          BY ResolverAssumption DEF Stated, NeedsOf
      <4>2. n \in NeedType
          BY DEF NeedsOf
      <4> QED BY <4>1, <4>2 DEF Stating
    <3>4. Stating(claims, n) = {k}
        BY <2>3, <3>1, <3>2, <3>3
    <3>5. First({k}) = k
        BY DEF First
    <3>6. TargetClaim(claims, n) = SpecOf(claims, i)
        BY <3>2, <3>4, <3>5 DEF TargetClaim
    <3> QED BY <3>1, <3>6
  <2>6. \A i \in DOMAIN claims : Verdicts(state)[i].edges = Edges(claims, i, readings)
      BY <2>1 DEF Resolved
  <2> QED BY <2>1, <2>4, <2>5, <2>6
<1>2. Inv => (NeedsApart => JudgedByOwnClaim)
    BY <1>1
<1> QED BY <1>2, Invariance, PTL

\* The verdict of each claim is what the text of the reached units says of its
\* targets, for all claims, inventories, vocabularies of units and periods, and
\* limits: nothing supports or refutes a need whose target (TargetClaim, the
\* first claim that states it) no line states or refutes, and with the agenda
\* exhausted no line that does is overlooked.
THEOREM VerdictTheorem == Spec => []VerdictOfEvidence
<1>1. Init => Ledger
    BY LedgerInit
<1>2. Inv /\ Ledger /\ [Next]_vars => Ledger'
    BY LedgerNext
<1>3. Inv /\ Ledger => VerdictOfEvidence
    BY LedgerMeansVerdicts
<1> QED BY <1>1, <1>2, <1>3, Invariance, PTL DEF Spec
==============================================================================
