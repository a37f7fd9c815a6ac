------------------------- MODULE InvestigationProofs -------------------------
(***************************************************************************)
(* Theorems about InvestigationRunner, for all ports, start states and     *)
(* budgets and any number of calls.                                        *)
(***************************************************************************)
EXTENDS InvestigationRunner, SelectionProofs, SequenceTheorems, FiniteSetTheorems, TLAPS

-----------------------------------------------------------------------------
(***************************************************************************)
(* The effects on a state.                                                 *)
(***************************************************************************)

\* s and r differ in their events at most.
SameButEvents(s, r) ==
    /\ r.agenda = s.agenda /\ r.completed = s.completed /\ r.units = s.units
    /\ r.atoms = s.atoms /\ r.norms = s.norms /\ r.graph = s.graph /\ r.stop = s.stop

\* An event of a known type is all that recording adds.
LEMMA RecordedType ==
    ASSUME NEW s \in State, NEW type, NEW tasks \in Seq(TaskId),
           NEW reason \in StopReasons \cup {None},
           type \in {"task_planned", "task_started", "task_completed", "state_updated",
                     "budget_exhausted", "stopped"}
    PROVE  /\ Recorded(s, type, tasks, reason) \in State
           /\ SameButEvents(s, Recorded(s, type, tasks, reason))
<1> DEFINE e == [type |-> type, tasks |-> tasks, reason |-> reason]
<1>1. e \in EventRecord
    BY DEF EventRecord
<1>2. s.events \in Seq(EventRecord)
    BY DEF State
<1>3. Append(s.events, e) \in Seq(EventRecord)
    BY <1>1, <1>2, AppendProperties
<1> HIDE DEF e
<1>4. Recorded(s, type, tasks, reason) = [s EXCEPT !.events = Append(@, e)]
    BY DEF Recorded, e
<1> QED BY <1>3, <1>4 DEF State, SameButEvents

\* Planned events name the tasks they plan.
LEMMA PlannedType ==
    ASSUME NEW s \in State, NEW tasks \in Seq(Task)
    PROVE  Planned(s, tasks) \in State /\ SameButEvents(s, Planned(s, tasks))
<1>1. [n \in DOMAIN tasks |-> tasks[n].id] \in Seq(TaskId)
    <2>1. Len(tasks) \in Nat /\ DOMAIN tasks = 1 .. Len(tasks)
          /\ \A n \in DOMAIN tasks : tasks[n] \in Task
        BY LenProperties
    <2>2. \A n \in DOMAIN tasks : tasks[n].id \in TaskId
        BY <2>1 DEF Task
    <2> QED BY <2>1, <2>2, IsASeq
<1> QED BY <1>1, RecordedType DEF Planned

\* A stop changes stop reason and events.
LEMMA StoppedType ==
    ASSUME NEW s \in State, NEW reason \in StopReasons, NEW type \in {"stopped", "budget_exhausted"}
    PROVE  /\ Stopped(s, reason, type) \in State
           /\ SameButEvents([s EXCEPT !.stop = reason], Stopped(s, reason, type))
<1>1. [s EXCEPT !.stop = reason] \in State
    BY DEF State
<1>2. <<>> \in Seq(TaskId)
    BY EmptySeq
<1> QED BY <1>1, <1>2, RecordedType DEF Stopped

\* What completing a task makes of s: the head of the agenda goes, atoms are
\* appended with the completed task that produced them, the draft graph and
\* the stop reason stay; without normalizations theirs stay, too.
Completes(s, c, task, status, offered, norms) ==
    /\ c \in State
    /\ c.agenda = Tail(s.agenda) /\ c.graph = s.graph /\ c.stop = s.stop
    /\ norms = <<>> => c.norms = s.norms
    /\ \E accepted \in Seq(Atom) :
         /\ c.atoms = s.atoms \o accepted
         /\ c.completed = Append(s.completed,
               [task |-> task, status |-> status, atoms |-> accepted])
         /\ offered = <<>> => accepted = <<>>

\* Whatever the filters keep is well typed.
LEMMA CompletionType ==
    ASSUME NEW s \in State, s.agenda # <<>>, NEW t \in Task, NEW task \in TaskId,
           NEW status \in Status, NEW units \in SUBSET Unit, NEW offered \in Seq(Atom),
           NEW norms \in Seq(AtomId),
           NEW c \in Completions(s, t, task, status, units, offered, norms)
    PROVE  Completes(s, c, task, status, offered, norms)
<1> DEFINE started == Recorded(s, "task_started", <<t.id>>, None)
           result(accepted) == [task |-> task, status |-> status, atoms |-> accepted]
<1>1. PICK accepted \in Picked(offered, Admitted(t, offered)),
           kept \in Picked(norms, Retained(t, offered, norms)) :
          c = Completed(s, t, task, status, units, accepted, kept)
    BY DEF Completions
<1>2. /\ Admitted(t, offered) \in SUBSET DOMAIN offered
      /\ Retained(t, offered, norms) \in SUBSET DOMAIN norms
    BY DEF Admitted, Retained
<1>3. accepted \in Seq(Atom) /\ (offered = <<>> => accepted = <<>>)
    BY <1>2, PickedType
<1>4. kept \in Seq(AtomId) /\ (norms = <<>> => kept = <<>>)
    BY <1>2, PickedType
<1>5. <<t.id>> \in Seq(TaskId) /\ None \in StopReasons \cup {None}
    BY DEF Task
<1>6. started \in State /\ SameButEvents(s, started)
    BY <1>5, RecordedType
<1> HIDE DEF started
<1>7. result(accepted) \in Result
    BY <1>3 DEF Result
<1>8. /\ Tail(s.agenda) \in Seq(Task)
      /\ Append(s.completed, result(accepted)) \in Seq(Result)
      /\ s.atoms \o accepted \in Seq(Atom)
      /\ s.norms \o kept \in Seq(AtomId)
      /\ s.units \cup units \in SUBSET Unit
    <2>1. /\ s.agenda \in Seq(Task) /\ s.completed \in Seq(Result) /\ s.atoms \in Seq(Atom)
          /\ s.norms \in Seq(AtomId) /\ s.units \in SUBSET Unit
        BY DEF State
    <2>2. Tail(s.agenda) \in Seq(Task)
        BY <2>1, HeadTailProperties
    <2> HIDE DEF result
    <2>3. Append(s.completed, result(accepted)) \in Seq(Result)
        BY <1>7, <2>1, AppendProperties
    <2>4. s.atoms \o accepted \in Seq(Atom) /\ s.norms \o kept \in Seq(AtomId)
        BY <1>3, <1>4, <2>1, ConcatProperties
    <2> QED BY <2>1, <2>2, <2>3, <2>4
<1> DEFINE e == [started EXCEPT
                   !.agenda = Tail(@),
                   !.completed = Append(@, result(accepted)),
                   !.units = @ \cup units,
                   !.atoms = @ \o accepted,
                   !.norms = @ \o kept]
<1>9. /\ e \in State
      /\ e.agenda = Tail(s.agenda) /\ e.graph = s.graph /\ e.stop = s.stop
      /\ e.norms = s.norms \o kept /\ e.atoms = s.atoms \o accepted
      /\ e.completed = Append(s.completed, result(accepted))
    BY <1>6, <1>8 DEF State, SameButEvents
<1>10. c = Recorded(e, "task_completed", <<t.id>>, None)
    BY <1>1 DEF Completed, started
<1> HIDE DEF e, result
<1>11. c \in State /\ SameButEvents(e, c)
    BY <1>5, <1>9, <1>10, RecordedType
<1>12. norms = <<>> => s.norms \o kept = s.norms
    BY <1>4, ConcatEmptySeq DEF State
<1>13. /\ c \in State
       /\ c.agenda = Tail(s.agenda) /\ c.graph = s.graph /\ c.stop = s.stop
       /\ norms = <<>> => c.norms = s.norms
    BY <1>9, <1>11, <1>12 DEF SameButEvents
<1>14. /\ c.atoms = s.atoms \o accepted
       /\ c.completed = Append(s.completed,
             [task |-> task, status |-> status, atoms |-> accepted])
    BY <1>9, <1>11 DEF SameButEvents, result
<1> QED BY <1>3, <1>13, <1>14 DEF Completes

-----------------------------------------------------------------------------
(***************************************************************************)
(* Agendas.                                                                *)
(***************************************************************************)

\* A task in front waits, if it is a normalize task, for its atoms, and hides
\* none of the others.
LEMMA WaitingInFront ==
    ASSUME NEW t \in Task, NEW agenda \in Seq(Task)
    PROVE  /\ <<t>> \o agenda \in Seq(Task)
           /\ Waiting(agenda) \subseteq Waiting(<<t>> \o agenda)
           /\ t.type = "normalize_candidate" => Elements(t.atoms) \subseteq Waiting(<<t>> \o agenda)
<1> DEFINE longer == <<t>> \o agenda
<1>1. /\ <<t>> \in Seq(Task) /\ Len(<<t>>) = 1 /\ <<t>>[1] = t
    OBVIOUS
<1>2. /\ longer \in Seq(Task) /\ Len(longer) = Len(agenda) + 1 /\ longer[1] = t
      /\ \A n \in 1 .. Len(agenda) : longer[n + 1] = agenda[n]
      /\ Len(agenda) \in Nat
    BY <1>1, ConcatProperties, LenProperties
<1>3. DOMAIN agenda = 1 .. Len(agenda) /\ DOMAIN longer = 1 .. Len(agenda) + 1
    BY <1>2, LenProperties
<1> HIDE DEF longer
<1>4. ASSUME NEW a \in Waiting(agenda) PROVE a \in Waiting(longer)
    <2>1. PICK n \in DOMAIN agenda :
              agenda[n].type = "normalize_candidate" /\ a \in Elements(agenda[n].atoms)
        BY <1>4 DEF Waiting
    <2>2. n + 1 \in DOMAIN longer /\ longer[n + 1] = agenda[n]
        BY <1>2, <1>3
    <2> QED BY <2>1, <2>2 DEF Waiting
<1>5. ASSUME t.type = "normalize_candidate", NEW a \in Elements(t.atoms)
      PROVE  a \in Waiting(longer)
    <2>1. 1 \in DOMAIN longer
        BY <1>2, <1>3
    <2> QED BY <1>2, <1>5, <2>1 DEF Waiting
<1> QED BY <1>2, <1>4, <1>5 DEF longer

\* Removing a head that is no normalize task changes nothing for the atoms.
LEMMA WaitingBehind ==
    ASSUME NEW agenda \in Seq(Task), agenda # <<>>
    PROVE  /\ Head(agenda) \in Task /\ Tail(agenda) \in Seq(Task)
           /\ Head(agenda).type # "normalize_candidate" =>
                 Waiting(agenda) \subseteq Waiting(Tail(agenda))
<1>1. /\ Head(agenda) \in Task /\ Tail(agenda) \in Seq(Task)
      /\ Len(Tail(agenda)) = Len(agenda) - 1 /\ Len(agenda) \in Nat \ {0}
      /\ Head(agenda) = agenda[1]
      /\ DOMAIN agenda = 1 .. Len(agenda) /\ DOMAIN Tail(agenda) = 1 .. Len(agenda) - 1
      /\ \A i \in 1 .. Len(agenda) - 1 : Tail(agenda)[i] = agenda[i + 1]
    BY HeadTailProperties, LenProperties, EmptySeq
<1>2. ASSUME Head(agenda).type # "normalize_candidate", NEW a \in Waiting(agenda)
      PROVE  a \in Waiting(Tail(agenda))
    <2>1. PICK n \in DOMAIN agenda :
              agenda[n].type = "normalize_candidate" /\ a \in Elements(agenda[n].atoms)
        BY <1>2 DEF Waiting
    <2>2. n # 1
        BY <1>1, <1>2, <2>1
    <2>3. n - 1 \in DOMAIN Tail(agenda) /\ (n - 1) + 1 = n
        BY <1>1, <2>1, <2>2
    <2>4. Tail(agenda)[n - 1] = agenda[n]
        BY <1>1, <2>3
    <2> QED BY <2>1, <2>3, <2>4 DEF Waiting
<1> QED BY <1>1, <1>2

\* Tasks behind hide none of the others.
LEMMA WaitingAppended ==
    ASSUME NEW agenda \in Seq(Task), NEW tasks \in Seq(Task)
    PROVE  /\ agenda \o tasks \in Seq(Task)
           /\ Waiting(agenda) \subseteq Waiting(agenda \o tasks)
<1> DEFINE longer == agenda \o tasks
<1>1. /\ longer \in Seq(Task) /\ Len(longer) = Len(agenda) + Len(tasks)
      /\ \A n \in 1 .. Len(agenda) : longer[n] = agenda[n]
      /\ Len(agenda) \in Nat /\ Len(tasks) \in Nat
    BY ConcatProperties, LenProperties
<1>2. DOMAIN agenda = 1 .. Len(agenda) /\ DOMAIN longer = 1 .. Len(agenda) + Len(tasks)
    BY <1>1, LenProperties
<1> HIDE DEF longer
<1>3. ASSUME NEW a \in Waiting(agenda) PROVE a \in Waiting(longer)
    <2>1. PICK n \in DOMAIN agenda :
              agenda[n].type = "normalize_candidate" /\ a \in Elements(agenda[n].atoms)
        BY <1>3 DEF Waiting
    <2>2. n \in DOMAIN longer /\ longer[n] = agenda[n]
        BY <1>1, <1>2
    <2> QED BY <2>1, <2>2 DEF Waiting
<1> QED BY <1>1, <1>3 DEF longer

-----------------------------------------------------------------------------
(***************************************************************************)
(* What a task or a stop makes of the state a call has built so far.       *)
(***************************************************************************)
JudgedIn(s) == IF s.graph = None THEN 0 ELSE s.graph.atoms

\* Either no task is closed and nothing is learned, or one within the budget;
\* a stop reason stays, and the draft graph goes on following the atoms.
Advances(c, r) ==
    /\ r \in State
    /\ \/ /\ Len(r.completed) = Len(c.completed)
          /\ Len(r.atoms) = Len(c.atoms) /\ JudgedIn(r) = JudgedIn(c)
       \/ /\ ~Exhausted(c)
          /\ Len(r.completed) = Len(c.completed) + 1
          /\ Len(c.atoms) <= Len(r.atoms)
          /\ JudgedIn(r) = JudgedIn(c) \/ JudgedIn(r) = Len(r.atoms)
    /\ c.stop # None => r.stop # None
    /\ GraphFollows(c) => GraphFollows(r)

\* A recorded stop closes no task.
LEMMA StopAdvances ==
    ASSUME NEW c \in State, NEW reason \in StopReasons, NEW type \in {"stopped", "budget_exhausted"}
    PROVE  Advances(c, Stopped(c, reason, type))
<1> DEFINE r == Stopped(c, reason, type)
<1>1. r \in State /\ SameButEvents([c EXCEPT !.stop = reason], r)
    BY StoppedType
<1> HIDE DEF r
<1>2. /\ r.agenda = c.agenda /\ r.completed = c.completed /\ r.atoms = c.atoms
      /\ r.norms = c.norms /\ r.graph = c.graph /\ r.stop = reason
    BY <1>1 DEF SameButEvents, State
<1>3. reason # None
    BY InvestigationAssumption
<1>4. GraphFollows(c) => GraphFollows(r)
    BY <1>2 DEF GraphFollows
<1>5. Advances(c, r)
    BY <1>1, <1>2, <1>3, <1>4 DEF Advances, JudgedIn
<1> QED BY <1>5 DEF r

\* New tasks behind the agenda, on record or none, close no task.
LEMMA PlanAdvances ==
    ASSUME NEW c \in State, NEW tasks \in Seq(Task),
           NEW r, r = Planned([c EXCEPT !.agenda = @ \o tasks], tasks)
                    \/ r = [c EXCEPT !.agenda = @ \o tasks]
    PROVE  Advances(c, r)
<1> DEFINE s == [c EXCEPT !.agenda = @ \o tasks]
<1>1. c.agenda \in Seq(Task)
    BY DEF State
<1>2. c.agenda \o tasks \in Seq(Task) /\ Waiting(c.agenda) \subseteq Waiting(c.agenda \o tasks)
    BY <1>1, WaitingAppended
<1>3. s \in State
    BY <1>2 DEF State
<1>4. r \in State /\ SameButEvents(s, r)
    <2>1. CASE r = s
        BY <1>3, <2>1 DEF SameButEvents
    <2>2. CASE r = Planned(s, tasks)
        <3> HIDE DEF s
        <3> QED BY <1>3, <2>2, PlannedType
    <2> QED BY <2>1, <2>2
<1>5. /\ r.agenda = c.agenda \o tasks /\ r.completed = c.completed /\ r.atoms = c.atoms
      /\ r.norms = c.norms /\ r.graph = c.graph /\ r.stop = c.stop
    BY <1>4 DEF SameButEvents, State
<1>6. GraphFollows(c) => GraphFollows(r)
    BY <1>2, <1>5 DEF GraphFollows
<1> QED BY <1>4, <1>5, <1>6 DEF Advances, JudgedIn

\* A completed task closes one, and the graph follows if the task was no
\* normalize task, left normalizations alone and its atoms wait.
LEMMA CompletionAdvances ==
    ASSUME NEW c \in State, c.agenda # <<>>, ~Exhausted(c),
           NEW task \in TaskId, NEW status \in Status, NEW units \in SUBSET Unit,
           NEW offered \in Seq(Atom), NEW norms \in Seq(AtomId),
           NEW s \in Completions(c, Head(c.agenda), task, status, units, offered, norms),
           NEW r \in State,
           /\ r.completed = s.completed /\ r.atoms = s.atoms /\ r.norms = s.norms
           /\ r.graph = s.graph /\ r.stop = s.stop,
           Waiting(s.agenda) \subseteq Waiting(r.agenda),
           \/ setup.observer \/ setup.normalizer = "none" \/ ~setup.resolver
           \/ /\ Head(c.agenda).type # "normalize_candidate" /\ norms = <<>>
              /\ Elements(Ids(s.completed[Len(s.completed)].atoms)) \subseteq Waiting(r.agenda)
    PROVE  Advances(c, r)
<1> DEFINE t == Head(c.agenda)
<1>1. /\ c.agenda \in Seq(Task) /\ c.atoms \in Seq(Atom) /\ c.completed \in Seq(Result)
      /\ c.norms \in Seq(AtomId) /\ c.graph \in Graph \cup {None}
    BY DEF State
<1>2. /\ t \in Task
      /\ t.type # "normalize_candidate" => Waiting(c.agenda) \subseteq Waiting(Tail(c.agenda))
    BY <1>1, WaitingBehind
<1> HIDE DEF t
<1>3. Completes(c, s, task, status, offered, norms)
    <2>1. s \in Completions(c, t, task, status, units, offered, norms)
        BY DEF t
    <2> QED BY <1>2, <2>1, CompletionType
<1>4. PICK accepted \in Seq(Atom) :
           /\ s.atoms = c.atoms \o accepted
           /\ s.completed = Append(c.completed,
                 [task |-> task, status |-> status, atoms |-> accepted])
    BY <1>3 DEF Completes
<1> DEFINE result == [task |-> task, status |-> status, atoms |-> accepted]
<1>5. result \in Result /\ result.atoms = accepted
    BY DEF Result
<1> HIDE DEF result
<1>6. /\ Len(s.completed) = Len(c.completed) + 1
      /\ s.completed[Len(s.completed)].atoms = accepted
      /\ Len(c.completed) \in Nat
    BY <1>1, <1>4, <1>5, AppendProperties, LenProperties DEF result
<1>7. /\ Len(s.atoms) = Len(c.atoms) + Len(accepted)
      /\ Len(c.atoms) \in Nat /\ Len(accepted) \in Nat
      /\ DOMAIN accepted = 1 .. Len(accepted)
      /\ \A n \in 1 .. Len(c.atoms) + Len(accepted) :
            s.atoms[n] = IF n <= Len(c.atoms) THEN c.atoms[n] ELSE accepted[n - Len(c.atoms)]
    BY <1>1, <1>4, ConcatProperties, LenProperties
<1>8. \A m \in DOMAIN accepted : accepted[m].id \in Elements(Ids(accepted))
    BY DEF Elements, Ids
<1>9. ASSUME GraphFollows(c) PROVE GraphFollows(r)
    <2> SUFFICES ASSUME setup.resolver /\ setup.normalizer # "none" /\ ~setup.observer /\ r.graph # None
                 PROVE  /\ r.graph.norms = Len(r.norms)
                        /\ {r.atoms[n].id : n \in r.graph.atoms + 1 .. Len(r.atoms)}
                              \subseteq Waiting(r.agenda)
        BY DEF GraphFollows
    <2>1. /\ c.graph # None /\ c.graph = r.graph /\ r.norms = c.norms /\ r.atoms = s.atoms
          /\ Elements(Ids(accepted)) \subseteq Waiting(r.agenda)
          /\ Waiting(c.agenda) \subseteq Waiting(r.agenda)
        BY <1>2, <1>3, <1>6 DEF t, Completes
    <2>2. /\ c.graph.norms = Len(c.norms)
          /\ {c.atoms[n].id : n \in c.graph.atoms + 1 .. Len(c.atoms)} \subseteq Waiting(c.agenda)
        BY <1>9, <2>1 DEF GraphFollows
    <2>3. c.graph.atoms \in Nat
        BY <1>1, <2>1 DEF Graph
    <2>4. ASSUME NEW n \in c.graph.atoms + 1 .. Len(s.atoms)
          PROVE  s.atoms[n].id \in Waiting(r.agenda)
        <3>1. n \in 1 .. Len(c.atoms) + Len(accepted)
            BY <1>7, <2>3
        <3>2. CASE n <= Len(c.atoms)
            <4>1. n \in c.graph.atoms + 1 .. Len(c.atoms)
                BY <1>7, <2>3, <3>2
            <4>2. s.atoms[n] = c.atoms[n]
                BY <1>7, <3>1, <3>2
            <4> QED BY <2>1, <2>2, <4>1, <4>2
        <3>3. CASE ~(n <= Len(c.atoms))
            <4>1. n - Len(c.atoms) \in DOMAIN accepted
                BY <1>7, <3>1, <3>3
            <4>2. s.atoms[n] = accepted[n - Len(c.atoms)]
                BY <1>7, <3>1, <3>3
            <4> QED BY <1>8, <2>1, <4>1, <4>2
        <3> QED BY <3>2, <3>3
    <2> QED BY <2>1, <2>2, <2>4
<1>10. JudgedIn(r) = JudgedIn(c) /\ Len(c.atoms) <= Len(r.atoms)
    BY <1>3, <1>7 DEF JudgedIn, Completes
<1> QED BY <1>3, <1>6, <1>9, <1>10 DEF Advances, Completes

-----------------------------------------------------------------------------
(***************************************************************************)
(* Each action that runs a task or records a stop.                         *)
(***************************************************************************)

\* A follow-up task is put in front of the agenda.
LEMMA PrecededType ==
    ASSUME NEW s \in State, NEW t \in Task
    PROVE  LET r == Preceded(s, t)
           IN  /\ r \in State
               /\ r.completed = s.completed /\ r.atoms = s.atoms /\ r.norms = s.norms
               /\ r.graph = s.graph /\ r.stop = s.stop
               /\ Waiting(s.agenda) \subseteq Waiting(r.agenda)
               /\ t.type = "normalize_candidate" => Elements(t.atoms) \subseteq Waiting(r.agenda)
<1> DEFINE longer == [s EXCEPT !.agenda = <<t>> \o @]
<1>1. s.agenda \in Seq(Task)
    BY DEF State
<1>2. /\ <<t>> \o s.agenda \in Seq(Task)
      /\ Waiting(s.agenda) \subseteq Waiting(<<t>> \o s.agenda)
      /\ t.type = "normalize_candidate" => Elements(t.atoms) \subseteq Waiting(<<t>> \o s.agenda)
    BY <1>1, WaitingInFront
<1>3. longer = [s EXCEPT !.agenda = <<t>> \o s.agenda]
    BY DEF State
<1>4. <<t>> \in Seq(Task)
    OBVIOUS
<1>5. longer \in State
    <2> DEFINE front == <<t>> \o s.agenda
    <2>1. front \in Seq(Task)
        BY <1>2
    <2>2. longer = [s EXCEPT !.agenda = front]
        BY <1>3
    <2> HIDE DEF front, longer
    <2> QED BY <2>1, <2>2 DEF State
<1>6. /\ longer.agenda = <<t>> \o s.agenda
      /\ longer.completed = s.completed /\ longer.atoms = s.atoms /\ longer.norms = s.norms
      /\ longer.graph = s.graph /\ longer.stop = s.stop
    BY DEF State
<1>7. Preceded(s, t) = Planned(longer, <<t>>)
    BY DEF Preceded
<1> HIDE DEF longer
<1>8. Preceded(s, t) \in State /\ SameButEvents(longer, Preceded(s, t))
    BY <1>5, <1>7, <1>4, PlannedType
<1> QED BY <1>2, <1>6, <1>8 DEF SameButEvents

\* The follow-up tasks are tasks.
LEMMA FollowUpType ==
    ASSUME NEW t \in Task
    PROVE  /\ \A selected \in SUBSET Unit : AtomizeTask(t, selected) \in Task
           /\ \A ids \in Seq(AtomId) :
                 /\ NormalizeTask(t, ids) \in Task
                 /\ NormalizeTask(t, ids).type = "normalize_candidate"
                 /\ NormalizeTask(t, ids).atoms = ids
<1>1. t.id \in Seq(Name \cup {"atomize", "normalize"})
    BY DEF Task, TaskId
<1>2. Append(t.id, "atomize") \in TaskId /\ Append(t.id, "normalize") \in TaskId /\ <<>> \in TaskId
    BY <1>1, AppendProperties, EmptySeq DEF TaskId
<1>3. <<>> \in Seq(AtomId)
    BY EmptySeq
<1>4. ASSUME NEW selected \in SUBSET Unit PROVE AtomizeTask(t, selected) \in Task
    BY <1>2, <1>3 DEF AtomizeTask, Task, TaskType
<1>5. ASSUME NEW ids \in Seq(AtomId)
      PROVE  /\ NormalizeTask(t, ids) \in Task
             /\ NormalizeTask(t, ids).type = "normalize_candidate"
             /\ NormalizeTask(t, ids).atoms = ids
    BY <1>2, <1>3 DEF NormalizeTask, Task, TaskType
<1> QED BY <1>4, <1>5

\* The head of an agenda to be executed.
LEMMA ExecutedTask ==
    ASSUME TypeOK, NEW t, NEW types, Executes(t, types)
    PROVE  /\ t = Head(current.agenda) /\ t \in Task /\ t.id \in TaskId /\ t.type \in types
           /\ current \in State /\ current.agenda # <<>> /\ ~Exhausted(current)
<1>1. current.agenda \in Seq(Task)
    BY DEF TypeOK, State
<1>2. Head(current.agenda) \in Task
    BY <1>1, WaitingBehind DEF Executes
<1> QED BY <1>2 DEF Executes, TypeOK, Task

\* The last completed task holds the atoms that were accepted.
LEMMA LastCompleted ==
    ASSUME NEW s \in State, NEW c, NEW task \in TaskId, NEW status \in Status,
           NEW offered, NEW norms, Completes(s, c, task, status, offered, norms)
    PROVE  /\ c \in State
           /\ c.completed[Len(c.completed)].atoms \in Seq(Atom)
           /\ offered = <<>> => c.completed[Len(c.completed)].atoms = <<>>
<1>1. PICK accepted \in Seq(Atom) :
           /\ c.completed = Append(s.completed,
                 [task |-> task, status |-> status, atoms |-> accepted])
           /\ offered = <<>> => accepted = <<>>
    BY DEF Completes
<1> DEFINE result == [task |-> task, status |-> status, atoms |-> accepted]
<1>2. result \in Result /\ result.atoms = accepted
    BY DEF Result
<1>3. s.completed \in Seq(Result)
    BY DEF State
<1> HIDE DEF result
<1>4. c.completed = Append(s.completed, result)
    BY <1>1 DEF result
<1>5. c.completed[Len(c.completed)] = result
    BY <1>2, <1>3, <1>4, AppendProperties, LenProperties
<1> QED BY <1>1, <1>2, <1>5 DEF Completes

\* The ids of atoms.
LEMMA IdsType ==
    ASSUME NEW atoms \in Seq(Atom)
    PROVE  /\ Ids(atoms) \in Seq(AtomId)
           /\ atoms = <<>> => Elements(Ids(atoms)) = {}
           /\ Ids(atoms) = <<>> => Elements(Ids(atoms)) = {}
<1>1. Len(atoms) \in Nat /\ DOMAIN atoms = 1 .. Len(atoms) /\ \A n \in DOMAIN atoms : atoms[n] \in Atom
    <2>1. Len(atoms) \in Nat /\ DOMAIN atoms = 1 .. Len(atoms) /\ atoms \in [1 .. Len(atoms) -> Atom]
        BY LenProperties
    <2> QED BY <2>1
<1>2. \A n \in 1 .. Len(atoms) : atoms[n].id \in AtomId
    BY <1>1 DEF Atom
<1>3. Ids(atoms) = [n \in 1 .. Len(atoms) |-> atoms[n].id]
    BY <1>1 DEF Ids
<1>4. Ids(atoms) \in Seq(AtomId)
    BY <1>1, <1>2, <1>3, IsASeq
<1>5. atoms = <<>> => DOMAIN Ids(atoms) = {}
    BY <1>1, <1>3, EmptySeq
<1>6. Ids(atoms) = <<>> => DOMAIN Ids(atoms) = {}
    <2>1. Len(<<>>) = 0
        BY EmptySeq
    <2>2. DOMAIN Ids(atoms) = 1 .. Len(Ids(atoms))
        BY <1>4, LenProperties
    <2> QED BY <2>1, <2>2
<1> QED BY <1>4, <1>5, <1>6 DEF Elements

\* A task that produces nothing and is no normalize task.
LEMMA CompleteStep ==
    ASSUME TypeOK, NEW t, NEW types, Executes(t, types), NEW status \in Status,
           t.type # "normalize_candidate", Complete(t, status)
    PROVE  \E r : Step(r) /\ Advances(current, r)
<1>1. /\ t = Head(current.agenda) /\ t \in Task /\ t.id \in TaskId
      /\ current \in State /\ current.agenda # <<>> /\ ~Exhausted(current)
    BY ExecutedTask
<1>2. <<>> \in Seq(Atom) /\ <<>> \in Seq(AtomId) /\ {} \in SUBSET Unit
    BY EmptySeq
<1>3. PICK s \in Completions(current, t, t.id, status, {}, <<>>, <<>>) : Step(s)
    BY DEF Complete
<1>4. Completes(current, s, t.id, status, <<>>, <<>>)
    BY <1>1, <1>2, CompletionType
<1>5. /\ s \in State /\ s.completed[Len(s.completed)].atoms = <<>>
    BY <1>1, <1>4, LastCompleted
<1>6. Elements(Ids(s.completed[Len(s.completed)].atoms)) \subseteq Waiting(s.agenda)
    BY <1>2, <1>5, IdsType
<1>7. Advances(current, s)
    BY <1>1, <1>2, <1>5, <1>6, CompletionAdvances
<1> QED BY <1>3, <1>7

\* A retrieval, with or without units.
LEMMA RetrieveStep ==
    ASSUME TypeOK, NEW t, NEW selected \in SUBSET current.units, Retrieve(t, selected)
    PROVE  \E r : Step(r) /\ Advances(current, r)
<1>1. /\ t = Head(current.agenda) /\ t \in Task /\ t.id \in TaskId
      /\ t.type \in {"retrieve_candidate_units"}
      /\ current \in State /\ current.agenda # <<>> /\ ~Exhausted(current)
    BY ExecutedTask DEF Retrieve
<1>2. /\ <<>> \in Seq(Atom) /\ <<>> \in Seq(AtomId) /\ {} \in SUBSET Unit
      /\ "completed" \in Status /\ "no_new_clue" \in Status
    BY EmptySeq DEF Status
<1>3. CASE Complete(t, "no_new_clue")
    <2>1. Executes(t, {"retrieve_candidate_units"})
        BY DEF Retrieve
    <2> QED BY <1>1, <1>2, <1>3, <2>1, CompleteStep
<1>4. CASE \E s \in Completions(current, t, t.id, "completed", {}, <<>>, <<>>) :
              Step(Preceded(s, AtomizeTask(t, selected)))
    <2>1. PICK s \in Completions(current, t, t.id, "completed", {}, <<>>, <<>>) :
              Step(Preceded(s, AtomizeTask(t, selected)))
        BY <1>4
    <2>2. Completes(current, s, t.id, "completed", <<>>, <<>>)
        BY <1>1, <1>2, CompletionType
    <2>3. s \in State /\ s.completed[Len(s.completed)].atoms = <<>>
        BY <1>1, <1>2, <2>2, LastCompleted
    <2>4. Elements(Ids(s.completed[Len(s.completed)].atoms)) = {}
        BY <1>2, <2>3, IdsType
    <2>5. AtomizeTask(t, selected) \in Task
        <3>1. selected \in SUBSET Unit
            BY <1>1 DEF State
        <3> QED BY <1>1, <3>1, FollowUpType
    <2> DEFINE r == Preceded(s, AtomizeTask(t, selected))
    <2>6. /\ r \in State
          /\ r.completed = s.completed /\ r.atoms = s.atoms /\ r.norms = s.norms
          /\ r.graph = s.graph /\ r.stop = s.stop
          /\ Waiting(s.agenda) \subseteq Waiting(r.agenda)
        BY <2>3, <2>5, PrecededType
    <2>7. Step(r)
        BY <2>1
    <2> HIDE DEF r
    <2>8. Advances(current, r)
        BY <1>1, <1>2, <2>4, <2>6, CompletionAdvances
    <2> QED BY <2>7, <2>8
<1> QED BY <1>3, <1>4 DEF Retrieve

\* An inspection, by an observer only.
LEMMA InspectStep ==
    ASSUME TypeOK, NEW t, NEW o \in Observations, Inspect(t, o)
    PROVE  \E r : Step(r) /\ Advances(current, r)
<1>1. /\ t = Head(current.agenda) /\ t \in Task
      /\ current \in State /\ current.agenda # <<>> /\ ~Exhausted(current)
    BY ExecutedTask DEF Inspect
<1>2. /\ o.task \in TaskId /\ o.status \in Status /\ o.units \in SUBSET Unit
      /\ o.atoms \in Seq(Atom) /\ o.norms \in Seq(AtomId)
    BY InvestigationAssumption DEF Observation
<1>3. PICK s \in Completions(current, t, o.task, o.status, o.units, o.atoms, o.norms) : Step(s)
    BY DEF Inspect
<1>4. Completes(current, s, o.task, o.status, o.atoms, o.norms)
    BY <1>1, <1>2, <1>3, CompletionType
<1>5. s \in State /\ setup.observer
    BY <1>4 DEF Completes, Inspect
<1>6. Advances(current, s)
    BY <1>1, <1>2, <1>3, <1>5, CompletionAdvances
<1> QED BY <1>3, <1>6

\* An atomization: its atoms wait in a new normalize task or one on the agenda.
LEMMA AtomizeStep ==
    ASSUME TypeOK, NEW t, NEW offered \in Atomizations \cup {<<>>}, Atomize(t, offered)
    PROVE  \E r : Step(r) /\ Advances(current, r)
<1>1. /\ t = Head(current.agenda) /\ t \in Task /\ t.id \in TaskId
      /\ t.type \in {"atomize_unit_cluster"}
      /\ current \in State /\ current.agenda # <<>> /\ ~Exhausted(current)
    BY ExecutedTask DEF Atomize
<1>2. /\ offered \in Seq(Atom) /\ <<>> \in Seq(AtomId) /\ {} \in SUBSET Unit
      /\ "completed" \in Status
    BY InvestigationAssumption, EmptySeq DEF Status
<1>3. PICK s \in Completions(current, t, t.id, "completed", {}, offered, <<>>) :
          Step(Followed(s, t))
    BY DEF Atomize
<1>4. Completes(current, s, t.id, "completed", offered, <<>>)
    BY <1>1, <1>2, CompletionType
<1>5. s \in State /\ s.completed[Len(s.completed)].atoms \in Seq(Atom)
    BY <1>1, <1>2, <1>4, LastCompleted
<1> DEFINE ids == Ids(s.completed[Len(s.completed)].atoms)
           waits == \/ ids = <<>> \/ setup.normalizer = "none"
                    \/ PendingNormalization(s.agenda, ids)
           follow == NormalizeTask(t, ids)
<1>6. ids \in Seq(AtomId) /\ (ids = <<>> => Elements(ids) = {})
    BY <1>5, IdsType
<1>7. follow \in Task /\ follow.type = "normalize_candidate" /\ follow.atoms = ids
    BY <1>1, <1>6, FollowUpType
<1>8. CASE waits
    <2>1. Followed(s, t) = s
        BY <1>8 DEF Followed
    <2>2. setup.normalizer = "none" \/ Elements(ids) \subseteq Waiting(s.agenda)
        BY <1>6, <1>8 DEF PendingNormalization, Waiting
    <2>3. Advances(current, s)
        BY <1>1, <1>2, <1>5, <2>2, CompletionAdvances
    <2> QED BY <1>3, <2>1, <2>3
<1>9. CASE ~waits
    <2>1. Followed(s, t) = Preceded(s, follow)
        BY <1>9 DEF Followed
    <2> HIDE DEF follow
    <2> DEFINE r == Preceded(s, follow)
    <2>2. /\ r \in State
          /\ r.completed = s.completed /\ r.atoms = s.atoms /\ r.norms = s.norms
          /\ r.graph = s.graph /\ r.stop = s.stop
          /\ Waiting(s.agenda) \subseteq Waiting(r.agenda)
          /\ Elements(follow.atoms) \subseteq Waiting(r.agenda)
        BY <1>5, <1>7, PrecededType
    <2>3. Step(r)
        BY <1>3, <2>1
    <2> HIDE DEF r
    <2>4. Elements(ids) \subseteq Waiting(r.agenda)
        BY <1>7, <2>2
    <2>5. Advances(current, r)
        BY <1>1, <1>2, <2>2, <2>4, CompletionAdvances
    <2> QED BY <2>3, <2>5
<1> QED BY <1>8, <1>9

\* Whatever normalizer is wired, its answer is a sequence of ids.
LEMMA AnswerType ==
    ASSUME NEW s \in State, NEW t \in Task, NEW norms \in NormalizerAnswers(s, t)
    PROVE  norms \in Seq(AtomId)
<1>1. CASE setup.normalizer = "adapter"
    <2>1. PICK atoms \in Picked(s.atoms,
                  {n \in Selected(s, t) : s.atoms[n].type \in Normalizable}) : norms = Ids(atoms)
        BY <1>1 DEF NormalizerAnswers
    <2>2. {n \in Selected(s, t) : s.atoms[n].type \in Normalizable} \in SUBSET DOMAIN s.atoms
        BY DEF Selected
    <2>3. s.atoms \in Seq(Atom)
        BY DEF State
    <2>4. atoms \in Seq(Atom)
        BY <2>1, <2>2, <2>3, PickedType
    <2> QED BY <2>1, <2>4, IdsType
<1>2. CASE setup.normalizer = "llm"
    BY <1>2, InvestigationAssumption DEF NormalizerAnswers
<1>3. CASE setup.normalizer # "adapter" /\ setup.normalizer # "llm"
    <2>1. norms \in {<<>>}
        BY <1>3 DEF NormalizerAnswers
    <2> QED BY <2>1, EmptySeq
<1> QED BY <1>1, <1>2, <1>3

\* A normalization, after which the draft graph is resolved from everything.
LEMMA NormalizeStep ==
    ASSUME TypeOK, NEW t, NEW norms \in NormalizerAnswers(current, t), Normalize(t, norms)
    PROVE  \E r : Step(r) /\ Advances(current, r)
<1>1. /\ t = Head(current.agenda) /\ t \in Task /\ t.id \in TaskId
      /\ current \in State /\ current.agenda # <<>> /\ ~Exhausted(current)
    BY ExecutedTask DEF Normalize
<1>2. <<>> \in Seq(Atom) /\ norms \in Seq(AtomId) /\ {} \in SUBSET Unit /\ "completed" \in Status
    BY <1>1, AnswerType, EmptySeq DEF Status
<1>3. PICK s \in Completions(current, t, t.id, "completed", {}, <<>>, norms) : Step(Refreshed(s))
    BY DEF Normalize
<1>4. Completes(current, s, t.id, "completed", <<>>, norms)
    BY <1>1, <1>2, CompletionType
<1>5. s \in State
    BY <1>4 DEF Completes
<1>6. CASE ~setup.resolver
    <2>1. Refreshed(s) = s
        BY <1>6 DEF Refreshed
    <2>2. Advances(current, s)
        BY <1>1, <1>2, <1>5, <1>6, CompletionAdvances
    <2> QED BY <1>3, <2>1, <2>2
<1>7. CASE setup.resolver
    <2> DEFINE graph == [atoms |-> Len(s.atoms), norms |-> Len(s.norms)]
               judged == [s EXCEPT !.graph = graph]
               r == Recorded(judged, "state_updated", <<>>, None)
    <2>1. Len(s.atoms) \in Nat /\ Len(s.norms) \in Nat
        BY <1>5, LenProperties DEF State
    <2>2. graph \in Graph /\ graph # None
        BY <2>1, InvestigationAssumption DEF Graph
    <2>3. graph.atoms = Len(s.atoms) /\ graph.norms = Len(s.norms)
        OBVIOUS
    <2>4. Refreshed(s) = r
        BY <1>7 DEF Refreshed
    <2> HIDE DEF graph
    <2>5. judged \in State
        BY <1>5, <2>2 DEF State
    <2>6. /\ judged.completed = s.completed /\ judged.atoms = s.atoms /\ judged.norms = s.norms
          /\ judged.graph = graph /\ judged.stop = s.stop
        BY <1>5 DEF State
    <2>7. <<>> \in Seq(TaskId)
        BY EmptySeq
    <2> HIDE DEF judged
    <2>8. r \in State /\ SameButEvents(judged, r)
        BY <2>5, <2>7, RecordedType
    <2> HIDE DEF r
    <2>9. /\ r.completed = s.completed /\ r.atoms = s.atoms /\ r.norms = s.norms
          /\ r.graph = graph /\ r.stop = s.stop
        BY <2>6, <2>8 DEF SameButEvents
    <2>10. GraphFollows(r) /\ JudgedIn(r) = Len(r.atoms)
        BY <2>1, <2>2, <2>3, <2>9 DEF GraphFollows, JudgedIn
    <2>11. PICK accepted \in Seq(Atom) :
              /\ s.atoms = current.atoms \o accepted
              /\ s.completed = Append(current.completed,
                    [task |-> t.id, status |-> "completed", atoms |-> accepted])
        BY <1>4 DEF Completes
    <2> DEFINE result == [task |-> t.id, status |-> "completed", atoms |-> accepted]
    <2>12. result \in Result
        BY <1>1, <1>2 DEF Result
    <2>13. current.atoms \in Seq(Atom) /\ current.completed \in Seq(Result)
        BY <1>1 DEF State
    <2> HIDE DEF result
    <2>14. Len(s.completed) = Len(current.completed) + 1
        BY <2>11, <2>12, <2>13, AppendProperties DEF result
    <2>15. Len(current.atoms) <= Len(s.atoms)
        BY <2>11, <2>13, ConcatProperties, LenProperties
    <2>16. s.stop = current.stop
        BY <1>4 DEF Completes
    <2>17. Advances(current, r)
        BY <1>1, <2>8, <2>9, <2>10, <2>14, <2>15, <2>16 DEF Advances
    <2> QED BY <1>3, <2>4, <2>17
<1> QED BY <1>6, <1>7

\* Whatever a call does next, short of raising: a step, or the return.
LEMMA EveryStep ==
    ASSUME TypeOK,
           \/ ExhaustBudget
           \/ \E p \in Proposals : Plan(p)
           \/ current.agenda # <<>> /\ Execute(Head(current.agenda))
    PROVE  \E r : Step(r) /\ Advances(current, r)
<1> current \in State
    BY DEF TypeOK
<1>1. CASE ExhaustBudget
    <2>1. Advances(current, Stopped(current, "max_iterations_exhausted", "budget_exhausted"))
        BY StopAdvances DEF StopReasons
    <2> QED BY <1>1, <2>1 DEF ExhaustBudget
<1>2. CASE \E p \in Proposals : Plan(p)
    <2>1. PICK p \in Proposals : Plan(p)
        BY <1>2
    <2>2. p.tasks \in Seq(Task) /\ p.stop \in Reason \cup {None}
        BY InvestigationAssumption
    <2> DEFINE s == [current EXCEPT !.agenda = @ \o p.tasks]
    <2>3. CASE p.tasks # <<>>
        <3>1. Step(Planned(s, p.tasks))
            BY <2>1, <2>3 DEF Plan
        <3>2. Advances(current, Planned(s, p.tasks))
            BY <2>2, PlanAdvances
        <3> QED BY <3>1, <3>2
    <2>4. CASE p.tasks = <<>> /\ p.stop = None
        <3>1. Step(s)
            BY <2>1, <2>4 DEF Plan
        <3>2. Advances(current, s)
            BY <2>2, PlanAdvances
        <3> QED BY <3>1, <3>2
    <2>5. CASE p.tasks = <<>> /\ p.stop # None
        <3>1. Step(Stopped(s, p.stop, "stopped"))
            BY <2>1, <2>5 DEF Plan
        <3>2. s = current
            <4>1. current.agenda \in Seq(Task)
                BY DEF State
            <4>2. current.agenda \o p.tasks = current.agenda
                BY <2>5, <4>1, ConcatEmptySeq
            <4> QED BY <4>2 DEF State
        <3>3. Advances(current, Stopped(current, p.stop, "stopped"))
            BY <2>2, <2>5, StopAdvances DEF StopReasons
        <3> QED BY <3>1, <3>2, <3>3
    <2> QED BY <2>3, <2>4, <2>5
<1>3. CASE current.agenda # <<>> /\ Execute(Head(current.agenda))
    <2> DEFINE t == Head(current.agenda)
    <2>1. CASE \E selected \in SUBSET current.units : Retrieve(t, selected)
        BY <2>1, RetrieveStep
    <2>2. CASE \E o \in Observations : Inspect(t, o)
        BY <2>2, InspectStep
    <2>3. CASE \E offered \in Atomizations \cup {<<>>} : Atomize(t, offered)
        BY <2>3, AtomizeStep
    <2>4. CASE \E norms \in NormalizerAnswers(current, t) : Normalize(t, norms)
        BY <2>4, NormalizeStep
    <2>5. CASE RequestReview(t)
        <3>1. t.type # "normalize_candidate" /\ "manual_review_required" \in Status
            BY <2>5, ExecutedTask DEF RequestReview, Status
        <3> QED BY <2>5, <3>1, CompleteStep DEF RequestReview
    <2>6. CASE SkipStop(t)
        <3>1. t.type # "normalize_candidate" /\ "skipped" \in Status
            BY <2>6, ExecutedTask DEF SkipStop, Status
        <3> QED BY <2>6, <3>1, CompleteStep DEF SkipStop
    <2>7. CASE FailTask(t)
        <3>1. t.type # "normalize_candidate" /\ "failed" \in Status
            BY <2>7, ExecutedTask DEF FailTask, Status, Visual
        <3> QED BY <2>7, <3>1, CompleteStep DEF FailTask
    <2> QED BY <1>3, <2>1, <2>2, <2>3, <2>4, <2>5, <2>6, <2>7 DEF Execute
<1> QED BY <1>1, <1>2, <1>3

-----------------------------------------------------------------------------
(***************************************************************************)
(* The invariant.  The properties speak of the state the caller holds; the *)
(* work is done on current.  In the middle of a call, current is further   *)
(* than state, by closed tasks only, within the budget, and not at all if  *)
(* state has a stop reason.                                                *)
(***************************************************************************)
Accounted(s) ==
    /\ JudgedIn(s) <= Len(s.atoms)
    /\ setup.maxIterations > 0 => Len(s.completed) <= setup.maxIterations

Ahead ==
    /\ phase = "idle" => current = state
    /\ Len(state.completed) <= Len(current.completed)
    /\ Len(state.atoms) <= Len(current.atoms)
    /\ JudgedIn(state) <= JudgedIn(current)
    /\ Len(current.completed) = Len(state.completed) =>
          /\ Len(current.atoms) = Len(state.atoms)
          /\ JudgedIn(current) = JudgedIn(state)
    /\ state.stop # None =>
          current.stop # None /\ Len(current.completed) = Len(state.completed)

Inv ==
    /\ TypeOK
    /\ Accounted(state) /\ Accounted(current)
    /\ Ahead
    /\ GraphFollows(state) /\ GraphFollows(current)

\* The numbers the invariant compares.
LEMMA Measures ==
    ASSUME NEW s \in State
    PROVE  Len(s.completed) \in Nat /\ Len(s.atoms) \in Nat /\ JudgedIn(s) \in Nat
<1>1. s.completed \in Seq(Result) /\ s.atoms \in Seq(Atom) /\ s.graph \in Graph \cup {None}
    BY DEF State
<1> QED BY <1>1, LenProperties DEF JudgedIn, Graph

\* A step keeps the accounts.
LEMMA AdvanceAccounted ==
    ASSUME NEW c \in State, NEW r, Advances(c, r), Accounted(c), setup \in Setup
    PROVE  Accounted(r)
<1>1. /\ Len(c.completed) \in Nat /\ Len(c.atoms) \in Nat /\ JudgedIn(c) \in Nat
      /\ Len(r.completed) \in Nat /\ Len(r.atoms) \in Nat /\ JudgedIn(r) \in Nat
    BY Measures DEF Advances
<1>2. setup.maxIterations \in Nat
    BY DEF Setup
<1> QED BY <1>1, <1>2 DEF Advances, Accounted, Exhausted

\* The state a step makes is ahead of the caller's.
LEMMA FurtherAhead ==
    ASSUME Inv, NEW r, Advances(current, r)
    PROVE  /\ Len(state.completed) <= Len(r.completed) /\ Len(state.atoms) <= Len(r.atoms)
           /\ JudgedIn(state) <= JudgedIn(r)
           /\ Len(r.completed) = Len(state.completed) =>
                 Len(r.atoms) = Len(state.atoms) /\ JudgedIn(r) = JudgedIn(state)
<1>1. state \in State /\ current \in State /\ r \in State
    BY DEF Inv, TypeOK, Advances
<1>2. /\ Len(state.completed) \in Nat /\ Len(state.atoms) \in Nat /\ JudgedIn(state) \in Nat
      /\ Len(current.completed) \in Nat /\ Len(current.atoms) \in Nat /\ JudgedIn(current) \in Nat
      /\ Len(r.completed) \in Nat /\ Len(r.atoms) \in Nat /\ JudgedIn(r) \in Nat
    BY <1>1, Measures
<1>3. JudgedIn(current) <= Len(current.atoms)
    BY DEF Inv, Accounted
<1>4. /\ Len(state.completed) <= Len(current.completed)
      /\ Len(state.atoms) <= Len(current.atoms)
      /\ JudgedIn(state) <= JudgedIn(current)
      /\ Len(current.completed) = Len(state.completed) =>
            Len(current.atoms) = Len(state.atoms) /\ JudgedIn(current) = JudgedIn(state)
    BY DEF Inv, Ahead
<1>5. CASE /\ Len(r.completed) = Len(current.completed)
           /\ Len(r.atoms) = Len(current.atoms) /\ JudgedIn(r) = JudgedIn(current)
    BY <1>2, <1>4, <1>5
<1>6. CASE /\ Len(r.completed) = Len(current.completed) + 1
           /\ Len(current.atoms) <= Len(r.atoms)
           /\ JudgedIn(r) = JudgedIn(current) \/ JudgedIn(r) = Len(r.atoms)
    <2>1. JudgedIn(current) <= JudgedIn(r)
        <3>1. JudgedIn(current) <= Len(r.atoms)
            <4>1. Len(current.atoms) <= Len(r.atoms)
                BY <1>6
            <4> QED BY <1>2, <1>3, <4>1
        <3>2. JudgedIn(current) <= JudgedIn(current)
            BY <1>2
        <3> QED BY <1>6, <3>1, <3>2
    <2>2. JudgedIn(state) <= JudgedIn(r)
        BY <1>2, <1>4, <2>1
    <2>3. Len(state.atoms) <= Len(r.atoms)
        BY <1>2, <1>4, <1>6
    <2>4. Len(state.completed) <= Len(r.completed) /\ Len(state.completed) # Len(r.completed)
        BY <1>2, <1>4, <1>6
    <2> QED BY <2>2, <2>3, <2>4
<1> QED BY <1>5, <1>6 DEF Advances

\* A call that returns r keeps the invariant and is a call of the contract.
LEMMA ReturnKeeps ==
    ASSUME Inv, NEW r, Advances(current, r), Return(r)
    PROVE  Inv' /\ Contract!Call
<1>1. /\ state' = r /\ current' = r /\ phase' = "idle" /\ left' = 0 /\ seen' = {}
      /\ setup' = setup /\ start' = start /\ calls' = calls
    BY DEF Return, given
<1>2. state \in State /\ current \in State /\ r \in State /\ setup \in Setup
    BY InvestigationAssumption DEF Inv, TypeOK, Advances
<1>3. /\ Len(state.completed) \in Nat /\ Len(state.atoms) \in Nat /\ JudgedIn(state) \in Nat
      /\ Len(current.completed) \in Nat /\ Len(current.atoms) \in Nat /\ JudgedIn(current) \in Nat
      /\ Len(r.completed) \in Nat /\ Len(r.atoms) \in Nat /\ JudgedIn(r) \in Nat
      /\ setup.maxIterations \in Nat
    BY <1>2, Measures DEF Setup
<1>4. Accounted(r)
    BY <1>2, AdvanceAccounted DEF Inv
<1>5. GraphFollows(r)
    BY DEF Inv, Advances
<1>6. TypeOK'
    BY <1>1, <1>2, InvestigationAssumption DEF Inv, TypeOK
<1>7. Accounted(state)' /\ Accounted(current)' /\ GraphFollows(state)' /\ GraphFollows(current)'
    BY <1>1, <1>4, <1>5 DEF Accounted, JudgedIn, GraphFollows
<1>8. Ahead'
    BY <1>1, <1>3 DEF Ahead, JudgedIn
<1>9. Contract!Call
    <2>1. /\ Len(state.completed) <= Len(r.completed) /\ Len(state.atoms) <= Len(r.atoms)
          /\ JudgedIn(state) <= JudgedIn(r) /\ JudgedIn(r) <= Len(r.atoms)
        BY <1>4, FurtherAhead DEF Accounted
    <2>2. Len(r.completed) = Len(state.completed) =>
             Len(r.atoms) = Len(state.atoms) /\ JudgedIn(r) = JudgedIn(state)
        BY FurtherAhead
    <2>3. state.stop # None => r.stop # None /\ Len(r.completed) <= Len(state.completed) + 1
        BY <1>3 DEF Inv, Ahead, Advances
    <2>4. setup.maxIterations > 0 => Len(r.completed) <= setup.maxIterations
        BY <1>4 DEF Accounted
    <2> DEFINE judged(s) == IF s.graph = None THEN 0 ELSE s.graph.atoms
    <2>5. judged(state) = JudgedIn(state) /\ judged(r) = JudgedIn(r)
        BY DEF JudgedIn
    <2> HIDE DEF judged
    <2>6. /\ Len(r.completed) \in Nat /\ Len(r.atoms) \in Nat
          /\ Len(state.completed) <= Len(r.completed) /\ Len(state.atoms) <= Len(r.atoms)
          /\ judged(state) <= judged(r) /\ judged(r) <= Len(r.atoms)
          /\ Len(r.completed) = Len(state.completed) =>
                Len(r.atoms) = Len(state.atoms) /\ judged(r) = judged(state)
        BY <1>3, <2>1, <2>2, <2>5
    <2>7. (state.stop # None) \in BOOLEAN /\ (r.stop # None) \in BOOLEAN
        OBVIOUS
    <2> QED BY <1>1, <2>3, <2>4, <2>6, <2>7 DEF Contract!Call, judged
<1> QED BY <1>6, <1>7, <1>8, <1>9 DEF Inv

\* A step after which run_agenda goes on keeps the invariant.
LEMMA GoesOnKeeps ==
    ASSUME Inv, phase = "agenda", left > 0, current.agenda # <<>>,
           NEW r, Advances(current, r), r.stop = None,
           current' = r, left' = left - 1, seen' = seen \cup {Fingerprint(Head(current.agenda))},
           UNCHANGED <<given, state, phase, calls>>
    PROVE  Inv'
<1>1. /\ state' = state /\ current' = r /\ phase' = phase
      /\ setup' = setup /\ start' = start /\ calls' = calls
    BY DEF given
<1>2. state \in State /\ current \in State /\ r \in State /\ setup \in Setup
    BY InvestigationAssumption DEF Inv, TypeOK, Advances
<1>3. /\ Len(state.completed) \in Nat /\ Len(state.atoms) \in Nat /\ JudgedIn(state) \in Nat
      /\ Len(current.completed) \in Nat /\ Len(current.atoms) \in Nat /\ JudgedIn(current) \in Nat
      /\ Len(r.completed) \in Nat /\ Len(r.atoms) \in Nat /\ JudgedIn(r) \in Nat
      /\ setup.maxIterations \in Nat
    BY <1>2, Measures DEF Setup
<1>4. Accounted(r)
    BY <1>2, AdvanceAccounted DEF Inv
<1>5. GraphFollows(r)
    BY DEF Inv, Advances
<1>6. TypeOK'
    <2>1. Head(current.agenda) \in Task
        BY <1>2, WaitingBehind DEF State
    <2>2. Fingerprint(Head(current.agenda)) \in Task
        BY <2>1, EmptySeq DEF Fingerprint, Task, TaskId
    <2>3. left' \in 0 .. MaxSteps \cup {1}
        BY InvestigationAssumption DEF Inv, TypeOK
    <2> QED BY <1>1, <1>2, <2>2, <2>3 DEF Inv, TypeOK
<1>7. Accounted(state)' /\ Accounted(current)' /\ GraphFollows(state)' /\ GraphFollows(current)'
    BY <1>1, <1>4, <1>5 DEF Inv, Accounted, JudgedIn, GraphFollows
<1>8. Ahead'
    <2>1. phase' # "idle"
        BY <1>1
    <2>2. /\ Len(state.completed) <= Len(r.completed) /\ Len(state.atoms) <= Len(r.atoms)
          /\ JudgedIn(state) <= JudgedIn(r)
        BY FurtherAhead
    <2>3. Len(r.completed) = Len(state.completed) =>
             Len(r.atoms) = Len(state.atoms) /\ JudgedIn(r) = JudgedIn(state)
        BY FurtherAhead
    <2>4. state.stop = None
        BY DEF Inv, Ahead, Advances
    <2> QED BY <1>1, <2>1, <2>2, <2>3, <2>4 DEF Ahead, JudgedIn
<1> QED BY <1>6, <1>7, <1>8 DEF Inv

\* A step of a call, which returns or goes on.
LEMMA StepKeeps ==
    ASSUME Inv, MayStep, NEW r, Step(r), Advances(current, r)
    PROVE  Inv' /\ (Contract!Call \/ UNCHANGED Contract!vars)
<1>1. CASE phase = "once" \/ r.stop # None
    <2>1. Return(r)
        BY <1>1 DEF Step
    <2> QED BY <2>1, ReturnKeeps
<1>2. CASE phase # "once" /\ r.stop = None
    <2>1. /\ current' = r /\ left' = left - 1
          /\ seen' = seen \cup {Fingerprint(Head(current.agenda))}
          /\ UNCHANGED <<given, state, phase, calls>>
        BY <1>2 DEF Step
    <2>2. phase = "agenda" /\ left > 0 /\ current.agenda # <<>>
        BY <1>2 DEF MayStep
    <2>3. Inv'
        BY <1>2, <2>1, <2>2, GoesOnKeeps
    <2>4. UNCHANGED Contract!vars
        BY <2>1 DEF given, Contract!vars
    <2> QED BY <2>3, <2>4
<1> QED BY <1>1, <1>2

\* An investigation begins with nothing done and a graph that follows.
LEMMA InvInit == Init => Inv /\ Contract!Init
<1> SUFFICES ASSUME Init PROVE Inv /\ Contract!Init
    OBVIOUS
<1>1. /\ start \in StartStates /\ state = start /\ current = start /\ setup \in Setup
      /\ phase = "idle"
    BY InvestigationAssumption DEF Init
<1>2. /\ state \in State /\ state.completed = <<>>
      /\ state.graph # None =>
            state.graph = [atoms |-> Len(state.atoms), norms |-> Len(state.norms)]
    BY <1>1, InvestigationAssumption
<1>3. /\ Len(state.completed) = 0 /\ Len(state.atoms) \in Nat /\ setup.maxIterations \in Nat
    BY <1>1, <1>2, Measures, EmptySeq DEF Setup
<1>4. TypeOK
    BY <1>1, <1>2, InvestigationAssumption DEF Init, TypeOK
<1>5. JudgedIn(state) \in Nat /\ JudgedIn(state) <= Len(state.atoms)
    BY <1>2, <1>3 DEF JudgedIn
<1>6. Accounted(state)
    BY <1>3, <1>5 DEF Accounted
<1>7. Ahead
    BY <1>1, <1>3, <1>5 DEF Ahead
<1>8. GraphFollows(state)
    BY <1>2, <1>3 DEF GraphFollows
<1>9. Inv
    BY <1>1, <1>4, <1>6, <1>7, <1>8 DEF Inv
<1>10. Contract!Init
    BY <1>3, <1>5 DEF Contract!Init, JudgedIn
<1> QED BY <1>9, <1>10

\* Each action keeps the invariant and is a call of the contract or none.
LEMMA InvStep == Inv /\ [Next]_vars => Inv' /\ [Contract!Call]_(Contract!vars)
<1> SUFFICES ASSUME Inv, [Next]_vars
             PROVE  Inv' /\ (Contract!Call \/ UNCHANGED Contract!vars)
    OBVIOUS
<1> current \in State /\ state \in State
    BY DEF Inv, TypeOK
<1>1. CASE RunOnce \/ RunAgenda
    <2>1. PICK call \in {"once", "agenda"}, n \in 0 .. MaxSteps \cup {1} : Begin(call, n)
        BY <1>1, InvestigationAssumption DEF RunOnce, RunAgenda
    <2>2. /\ state' = state /\ current' = state /\ setup' = setup /\ start' = start
          /\ phase = "idle" /\ current = state /\ phase' = call /\ phase' # "idle"
        BY <2>1 DEF Begin, given, Inv, Ahead
    <2>3. TypeOK'
        BY <2>1, InvestigationAssumption DEF Begin, given, Inv, TypeOK
    <2>4. /\ Len(state.completed) \in Nat /\ Len(state.atoms) \in Nat /\ JudgedIn(state) \in Nat
        BY Measures
    <2>5. Ahead'
        BY <2>2, <2>4 DEF Ahead, JudgedIn
    <2>6. /\ Accounted(state)' /\ Accounted(current)'
          /\ GraphFollows(state)' /\ GraphFollows(current)'
        BY <2>2 DEF Inv, Accounted, JudgedIn, GraphFollows
    <2>7. UNCHANGED Contract!vars
        BY <2>2 DEF Contract!vars
    <2> QED BY <2>3, <2>5, <2>6, <2>7 DEF Inv
<1>2. CASE ReturnAgenda
    <2>1. Advances(current, current)
        BY DEF Advances
    <2> QED BY <1>2, <2>1, ReturnKeeps DEF ReturnAgenda
<1>3. CASE StopRepeated
    <2>1. Advances(current, Stopped(current, "repeated_task_detected", "stopped"))
        BY StopAdvances DEF StopReasons
    <2> QED BY <1>3, <2>1, ReturnKeeps DEF StopRepeated
<1>4. CASE \/ ExhaustBudget
           \/ \E p \in Proposals : Plan(p)
           \/ current.agenda # <<>> /\ Execute(Head(current.agenda))
    <2>1. PICK r : Step(r) /\ Advances(current, r)
        BY <1>4, EveryStep DEF Inv
    <2>2. MayStep
        BY <1>4 DEF ExhaustBudget, Plan, Execute, Retrieve, Inspect, Atomize, Normalize,
                    RequestReview, SkipStop, FailTask, Executes
    <2> QED BY <2>1, <2>2, StepKeeps
<1>5. CASE Raise
    <2>1. /\ state' = state /\ current' = state /\ setup' = setup /\ start' = start
          /\ phase' = "idle"
        BY <1>5 DEF Raise, given
    <2>2. TypeOK'
        BY <1>5, InvestigationAssumption DEF Raise, given, Inv, TypeOK
    <2>3. /\ Len(state.completed) \in Nat /\ Len(state.atoms) \in Nat /\ JudgedIn(state) \in Nat
        BY Measures
    <2>4. Ahead'
        BY <2>1, <2>3 DEF Ahead, JudgedIn
    <2>5. /\ Accounted(state)' /\ Accounted(current)'
          /\ GraphFollows(state)' /\ GraphFollows(current)'
        BY <2>1 DEF Inv, Accounted, JudgedIn, GraphFollows
    <2>6. UNCHANGED Contract!vars
        BY <2>1 DEF Contract!vars
    <2> QED BY <2>2, <2>4, <2>5, <2>6 DEF Inv
<1>6. CASE UNCHANGED vars \/ Rest
    <2>1. /\ state' = state /\ current' = current /\ setup' = setup /\ start' = start
          /\ phase' = phase /\ left' = left /\ seen' = seen /\ calls' = calls
        BY <1>6 DEF Rest, vars, given
    <2>2. TypeOK'
        BY <2>1 DEF Inv, TypeOK
    <2>3. Ahead'
        BY <2>1 DEF Inv, Ahead, JudgedIn
    <2>4. /\ Accounted(state)' /\ Accounted(current)'
          /\ GraphFollows(state)' /\ GraphFollows(current)'
        BY <2>1 DEF Inv, Accounted, JudgedIn, GraphFollows
    <2>5. UNCHANGED Contract!vars
        BY <2>1 DEF Contract!vars
    <2> QED BY <2>2, <2>3, <2>4, <2>5 DEF Inv
<1> QED BY <1>1, <1>2, <1>3, <1>4, <1>5, <1>6 DEF Next

-----------------------------------------------------------------------------
(***************************************************************************)
(* The theorems.                                                           *)
(***************************************************************************)

\* The invariant holds in every state the runner reaches.
THEOREM Invariance == Spec => []Inv
<1>1. Init => Inv
    BY InvInit
<1>2. Inv /\ [Next]_vars => Inv'
    BY InvStep
<1> QED BY <1>1, <1>2, PTL DEF Spec

\* Every variable keeps its type, whatever the ports answer.
THEOREM TypeCorrect == Spec => []TypeOK
<1>1. Inv => TypeOK
    BY DEF Inv
<1> QED BY <1>1, Invariance, PTL

\* Without an observer the draft graph falls behind the atoms only while
\* normalize tasks for them wait on the agenda.
THEOREM GraphTheorem == Spec => []GraphCurrent
<1>1. Inv => GraphCurrent
    BY DEF Inv, GraphCurrent
<1> QED BY <1>1, Invariance, PTL

\* Calls are atomic, bounded by the budget, and only move forward.
THEOREM ContractTheorem == Spec => ImplementsContract
<1>1. Init => Contract!Init
    BY InvInit
<1>2. Inv /\ [Next]_vars => [Contract!Call]_(Contract!vars)
    BY InvStep
<1> QED BY <1>1, <1>2, Invariance, PTL DEF Spec, ImplementsContract, Contract!Spec

=============================================================================
