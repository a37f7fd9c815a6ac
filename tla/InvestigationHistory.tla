------------------------- MODULE InvestigationHistory -------------------------
(***************************************************************************)
(* What the events of an investigation say of its tasks: that none is      *)
(* lost, that atoms were allowed by the task they descend from, and why it *)
(* stopped.  Each is shown for every state a call builds, effect by        *)
(* effect, from what one event adds to a history.                          *)
(***************************************************************************)
EXTENDS InvestigationProofs

-----------------------------------------------------------------------------
(***************************************************************************)
(* One event more.                                                         *)
(***************************************************************************)

\* What is kept of a history when an event joins it.
LEMMA OfTypesAppend ==
    ASSUME NEW s \in Seq(EventRecord), NEW e \in EventRecord, NEW T
    PROVE  /\ OfTypes(s, T) \in Seq(EventRecord)
           /\ OfTypes(Append(s, e), T)
                = IF e.type \in T THEN Append(OfTypes(s, T), e) ELSE OfTypes(s, T)
<1> DEFINE P == {n \in DOMAIN s : s[n].type \in T}
           t == Append(s, e)
           Q == {n \in DOMAIN t : t[n].type \in T}
<1>1. /\ Len(s) \in Nat /\ DOMAIN s = 1 .. Len(s) /\ DOMAIN t = 1 .. Len(s) + 1
      /\ \A i \in 1 .. Len(s) : t[i] = s[i]
      /\ t[Len(s) + 1] = e
    BY LenProperties, AppendProperties
<1>2. P \in SUBSET DOMAIN s
    OBVIOUS
<1>3. Q = IF e.type \in T THEN P \cup {Len(s) + 1} ELSE P
    BY <1>1
<1>4. /\ OfTypes(s, T) = Subsequence(s, P)
      /\ OfTypes(t, T) = Subsequence(t, Q)
    BY DEF OfTypes
<1> HIDE DEF P, Q
<1>5. Subsequence(s, P) \in Seq(EventRecord)
    BY <1>2, SubsequenceType
<1>6. /\ Subsequence(Append(s, e), P) = Subsequence(s, P)
      /\ Subsequence(Append(s, e), P \cup {Len(s) + 1}) = Append(Subsequence(s, P), e)
    BY <1>2, SubsequenceAppend
<1> QED BY <1>3, <1>4, <1>5, <1>6

\* The places at which events of a type name a task.
Places(events, type, id) ==
    UNION {{<<n, m>> : m \in {k \in DOMAIN events[n].tasks : events[n].tasks[k] = id}} :
               n \in {k \in DOMAIN events : events[k].type = type}}

Named(e, id) == {k \in DOMAIN e.tasks : e.tasks[k] = id}

\* How often an event names a task.
Mentions(e, id) == Occurrences(e.tasks, {id})

\* There are finitely many.
LEMMA PlacesFinite ==
    ASSUME NEW s \in Seq(EventRecord), NEW type, NEW id
    PROVE  /\ IsFiniteSet(Places(s, type, id))
           /\ Times(s, type, id) = Cardinality(Places(s, type, id))
           /\ Times(s, type, id) \in Nat
<1> DEFINE N == {k \in DOMAIN s : s[k].type = type}
           spots(n) == {<<n, m>> : m \in Named(s[n], id)}
           row == {spots(n) : n \in N}
<1>1. DOMAIN s = 1 .. Len(s) /\ Len(s) \in Nat /\ \A n \in DOMAIN s : s[n] \in EventRecord
    BY LenProperties
<1>2. IsFiniteSet(N)
    <2>1. IsFiniteSet(1 .. Len(s)) /\ N \in SUBSET (1 .. Len(s))
        BY <1>1, FS_Interval
    <2> HIDE DEF N
    <2> QED BY <2>1, FS_Subset
<1>3. ASSUME NEW n \in N PROVE IsFiniteSet(spots(n))
    <2>1. s[n].tasks \in Seq(TaskId)
        BY <1>1 DEF EventRecord
    <2>2. IsFiniteSet(Named(s[n], id))
        <3> DEFINE tasks == s[n].tasks
                   E == {id}
        <3>1. tasks \in Seq(TaskId)
            BY <2>1
        <3>2. Named(s[n], id) = {k \in DOMAIN tasks : tasks[k] \in E}
            BY DEF Named
        <3> HIDE DEF tasks, E
        <3>3. IsFiniteSet({k \in DOMAIN tasks : tasks[k] \in E})
            BY <3>1, OccurrencesType
        <3> QED BY <3>2, <3>3
    <2> DEFINE M == Named(s[n], id)
               f == [m \in M |-> <<n, m>>]
               T == spots(n)
    <2>3. f \in Surjection(M, T)
        BY DEF Surjection
    <2> HIDE DEF M, f, T
    <2>4. IsFiniteSet(T)
        BY <2>2, <2>3, FS_Surjection DEF M
    <2> QED BY <2>4 DEF T
<1> DEFINE g == [n \in N |-> spots(n)]
<1>4. IsFiniteSet(row)
    <2>1. g \in Surjection(N, row)
        BY DEF Surjection
    <2> HIDE DEF N, g, row
    <2> QED BY <1>2, <2>1, FS_Surjection
<1>5. \A T \in row : IsFiniteSet(T)
    BY <1>3
<1>6. IsFiniteSet(UNION row)
    <2> HIDE DEF row
    <2> QED BY <1>4, <1>5, FS_UNION
<1>7. Places(s, type, id) = UNION row
    BY DEF Places, Named
<1>8. Times(s, type, id) = Cardinality(Places(s, type, id))
    BY DEF Times, Places
<1> QED BY <1>6, <1>7, <1>8, FS_CardinalityType

\* An event adds to the count of its type as often as it names the task.
LEMMA TimesAppend ==
    ASSUME NEW s \in Seq(EventRecord), NEW e \in EventRecord, NEW type, NEW id
    PROVE  /\ e.type # type => Times(Append(s, e), type, id) = Times(s, type, id)
           /\ e.type = type =>
                 Times(Append(s, e), type, id) = Times(s, type, id) + Mentions(e, id)
<1> DEFINE t == Append(s, e)
           k == Len(s)
           A == Places(s, type, id)
           M == Named(e, id)
           D == {<<k + 1, m>> : m \in M}
           C == Places(t, type, id)
<1>1. /\ k \in Nat /\ DOMAIN s = 1 .. k /\ DOMAIN t = 1 .. k + 1
      /\ t \in Seq(EventRecord)
      /\ \A i \in 1 .. k : t[i] = s[i]
      /\ t[k + 1] = e
    BY LenProperties, AppendProperties
<1>2. /\ IsFiniteSet(A) /\ Times(s, type, id) = Cardinality(A) /\ Times(s, type, id) \in Nat
      /\ Times(t, type, id) = Cardinality(C)
    BY <1>1, PlacesFinite
<1>3. IsFiniteSet(M) /\ Cardinality(M) \in Nat /\ Mentions(e, id) = Cardinality(M)
    <2> DEFINE tasks == e.tasks
    <2>1. tasks \in Seq(TaskId)
        BY DEF EventRecord
    <2>2. M = {n \in DOMAIN tasks : tasks[n] \in {id}}
        BY DEF Named
    <2> HIDE DEF tasks, M
    <2>3. IsFiniteSet(M) /\ Occurrences(tasks, {id}) \in Nat /\ Occurrences(tasks, {id}) = Cardinality(M)
        BY <2>1, <2>2, OccurrencesType DEF Occurrences
    <2> QED BY <2>3 DEF tasks, Mentions
<1>4. \A x : x \in A <=> \E n \in 1 .. k : s[n].type = type /\ \E m \in Named(s[n], id) : x = <<n, m>>
    BY <1>1 DEF Places, Named
<1>5. \A x : x \in C <=> \E n \in 1 .. k + 1 : t[n].type = type /\ \E m \in Named(t[n], id) : x = <<n, m>>
    BY <1>1 DEF Places, Named
<1>6. CASE e.type # type
    <2>1. C = A
        <3>1. \A n \in 1 .. k + 1 : t[n].type = type => n \in 1 .. k
            BY <1>1, <1>6
        <3>2. \A n \in 1 .. k : n \in 1 .. k + 1 /\ t[n] = s[n]
            BY <1>1
        <3> HIDE DEF A, C, t, k
        <3>3. \A x : x \in C <=> x \in A
            BY <1>4, <1>5, <3>1, <3>2
        <3> QED BY <3>3
    <2> QED BY <1>2, <1>6, <2>1
<1>7. CASE e.type = type
    <2>1. C = A \cup D
        <3>1. \A n \in 1 .. k + 1 : n \in 1 .. k \/ n = k + 1
            BY <1>1
        <3>2. \A n \in 1 .. k : n \in 1 .. k + 1 /\ t[n] = s[n]
            BY <1>1
        <3>3. k + 1 \in 1 .. k + 1 /\ t[k + 1] = e
            BY <1>1
        <3>4. \A x : x \in D <=> \E m \in Named(e, id) : x = <<k + 1, m>>
            OBVIOUS
        <3> HIDE DEF A, C, D, t, k
        <3>5. \A x : x \in C => x \in A \/ x \in D
            BY <1>4, <1>5, <3>1, <3>2, <3>3, <3>4
        <3>6. \A x : x \in A => x \in C
            BY <1>4, <1>5, <3>2
        <3>7. \A x : x \in D => x \in C
            BY <1>5, <1>7, <3>3, <3>4
        <3> QED BY <3>5, <3>6, <3>7
    <2>2. A \cap D = {}
        <3>1. k + 1 \notin 1 .. k
            BY <1>1
        <3> HIDE DEF A, k
        <3> QED BY <1>4, <3>1
    <2> DEFINE f == [m \in M |-> <<k + 1, m>>]
    <2>3. f \in Bijection(M, D)
        BY DEF Bijection, Injection, Surjection, IsInjective
    <2> HIDE DEF A, C, D, M, f
    <2>4. IsFiniteSet(D) /\ Cardinality(D) = Cardinality(M)
        BY <1>3, <2>3, FS_Bijection DEF ExistsBijection
    <2>5. Cardinality(A \cup D) = Cardinality(A) + Cardinality(D) - Cardinality(A \cap D)
        BY <1>2, <2>4, FS_Union
    <2>6. Cardinality(A \cap D) = 0
        BY <2>2, FS_EmptySet
    <2> QED BY <1>2, <1>3, <1>7, <2>1, <2>4, <2>5, <2>6
<1> QED BY <1>6, <1>7

-----------------------------------------------------------------------------
(***************************************************************************)
(* The invariant, of the state a caller holds and of the one a call has    *)
(* built so far.                                                           *)
(***************************************************************************)

\* A completed task was started just before.
Paired(events) ==
    \A n \in DOMAIN events : events[n].type = "task_completed" =>
        /\ n - 1 \in DOMAIN events
        /\ events[n - 1].type = "task_started"
        /\ events[n - 1].tasks = events[n].tasks

\* What the agenda has lost since the start, completed events name.
Balanced(s) ==
    /\ Paired(s.events)
    /\ \A i \in TaskId :
          TimesIn(start.agenda, i) + Times(s.events, "task_planned", i)
            = TimesIn(s.agenda, i) + Times(s.events, "task_completed", i)

\* A task that may admit atoms has a name and the permission of a root task.
Descends(t) ==
    /\ t.id # <<>>
    /\ t.type # "normalize_candidate" =>
          \E root \in RootTasks : root.id[1] = t.id[1] /\ root.allowed = t.allowed

Admissible(name, a) ==
    /\ a.sourced /\ a.type \in CoreType
    /\ \E root \in RootTasks :
          root.id[1] = name /\ (root.allowed = {} \/ a.type \in root.allowed)

Done(s) == OfTypes(s.events, {"task_completed"})

Guarded(s) ==
    /\ \A n \in DOMAIN s.agenda : Descends(s.agenda[n])
    /\ Len(Done(s)) = Len(s.completed)
    /\ \A n \in DOMAIN s.completed : \A m \in DOMAIN s.completed[n].atoms :
          Admissible(Done(s)[n].tasks[1][1], s.completed[n].atoms[m])

Stops(s) == OfTypes(s.events, {"budget_exhausted", "stopped"})

Explained(s) ==
    /\ s.stop = (IF Stops(s) = <<>> THEN None ELSE Stops(s)[Len(Stops(s))].reason)
    /\ \A n \in DOMAIN Stops(s) : Stops(s)[n].type = "budget_exhausted" => Exhausted(s)

Recounted(s) == Balanced(s) /\ Guarded(s) /\ Explained(s)

-----------------------------------------------------------------------------
(***************************************************************************)
(* Counting tasks.                                                         *)
(***************************************************************************)

\* Tasks of an id are occurrences.
LEMMA TimesInType ==
    ASSUME NEW agenda \in Seq(Task), NEW i
    PROVE  /\ TimesIn(agenda, i) = Occurrences(agenda, {t \in Task : t.id = i})
           /\ TimesIn(agenda, i) \in Nat
<1> DEFINE E == {t \in Task : t.id = i}
<1>1. \A n \in DOMAIN agenda : agenda[n] \in Task
    BY LenProperties
<1>2. {n \in DOMAIN agenda : agenda[n].id = i} = {n \in DOMAIN agenda : agenda[n] \in E}
    BY <1>1
<1>3. TimesIn(agenda, i) = Occurrences(agenda, E)
    BY <1>2 DEF TimesIn, Occurrences
<1> HIDE DEF E
<1>4. Occurrences(agenda, E) \in Nat
    BY OccurrencesType
<1> QED BY <1>3, <1>4 DEF E

\* Of two agendas in a row tasks are counted in each.
LEMMA TimesInConcat ==
    ASSUME NEW p \in Seq(Task), NEW q \in Seq(Task), NEW i
    PROVE  TimesIn(p \o q, i) = TimesIn(p, i) + TimesIn(q, i)
<1> DEFINE E == {t \in Task : t.id = i}
<1>1. p \o q \in Seq(Task)
    BY ConcatProperties
<1>2. /\ TimesIn(p, i) = Occurrences(p, E) /\ TimesIn(q, i) = Occurrences(q, E)
      /\ TimesIn(p \o q, i) = Occurrences(p \o q, E)
    BY <1>1, TimesInType
<1> HIDE DEF E
<1> QED BY <1>2, OccurrencesConcat

\* The head counts once.
LEMMA TimesInHeadTail ==
    ASSUME NEW agenda \in Seq(Task), agenda # <<>>, NEW i
    PROVE  TimesIn(agenda, i) = (IF Head(agenda).id = i THEN 1 ELSE 0) + TimesIn(Tail(agenda), i)
<1> DEFINE E == {t \in Task : t.id = i}
<1>1. Head(agenda) \in Task /\ Tail(agenda) \in Seq(Task)
    BY WaitingBehind
<1>2. /\ TimesIn(agenda, i) = Occurrences(agenda, E)
      /\ TimesIn(Tail(agenda), i) = Occurrences(Tail(agenda), E)
    BY <1>1, TimesInType
<1>3. Head(agenda) \in E <=> Head(agenda).id = i
    BY <1>1
<1> HIDE DEF E
<1>4. Occurrences(agenda, E) = (IF Head(agenda) \in E THEN 1 ELSE 0) + Occurrences(Tail(agenda), E)
    BY OccurrencesHeadTail
<1> QED BY <1>2, <1>3, <1>4

\* The tasks an investigation begins with.
LEMMA StartTimes ==
    ASSUME start \in StartStates, NEW i
    PROVE  TimesIn(start.agenda, i) \in Nat
<1>1. start.agenda \in Seq(Task)
    BY InvestigationAssumption DEF State
<1> QED BY <1>1, TimesInType

\* A task occurs among the ids as often as among the tasks.
LEMMA IdsOfTasks ==
    ASSUME NEW tasks \in Seq(Task), NEW i
    PROVE  Occurrences([n \in DOMAIN tasks |-> tasks[n].id], {i}) = TimesIn(tasks, i)
<1> DEFINE ids == [n \in DOMAIN tasks |-> tasks[n].id]
<1>1. {n \in DOMAIN ids : ids[n] \in {i}} = {n \in DOMAIN tasks : tasks[n].id = i}
    OBVIOUS
<1> QED BY <1>1 DEF TimesIn, Occurrences

\* A single id occurs once or not at all.
LEMMA OneId ==
    ASSUME NEW x, NEW E
    PROVE  Occurrences(<<x>>, E) = IF x \in E THEN 1 ELSE 0
<1>1. <<x>> = Append(<<>>, x)
    OBVIOUS
<1> DEFINE S == {x}
<1>2. <<>> \in Seq(S) /\ x \in S
    OBVIOUS
<1> HIDE DEF S
<1>3. Occurrences(Append(<<>>, x), E) = Occurrences(<<>>, E) + (IF x \in E THEN 1 ELSE 0)
    BY <1>2, OccurrencesAppend
<1> QED BY <1>1, <1>3, OccurrencesNone

-----------------------------------------------------------------------------
(***************************************************************************)
(* The invariant under one event more.                                     *)
(***************************************************************************)

\* r is s with an event more.
Adds(s, r, e) ==
    /\ s \in State /\ r \in State /\ e \in EventRecord
    /\ r.events = Append(s.events, e)

\* An event counts for its type only.
LEMMA EventTimes ==
    ASSUME NEW s, NEW r, NEW e, Adds(s, r, e), NEW i
    PROVE  /\ Times(s.events, "task_planned", i) \in Nat
           /\ e.type # "task_planned" =>
                 Times(r.events, "task_planned", i) = Times(s.events, "task_planned", i)
           /\ e.type = "task_planned" =>
                 Times(r.events, "task_planned", i)
                   = Times(s.events, "task_planned", i) + Mentions(e, i)
           /\ Times(s.events, "task_completed", i) \in Nat
           /\ e.type # "task_completed" =>
                 Times(r.events, "task_completed", i) = Times(s.events, "task_completed", i)
           /\ e.type = "task_completed" =>
                 Times(r.events, "task_completed", i)
                   = Times(s.events, "task_completed", i) + Mentions(e, i)
<1> DEFINE events == s.events
           more == r.events
           planned == "task_planned"
           completed == "task_completed"
<1>1. events \in Seq(EventRecord) /\ e \in EventRecord /\ more = Append(events, e)
    BY DEF Adds, State
<1> HIDE DEF events, more, planned, completed
<1>2. /\ Times(events, planned, i) \in Nat
      /\ e.type # planned => Times(more, planned, i) = Times(events, planned, i)
      /\ e.type = planned =>
            Times(more, planned, i) = Times(events, planned, i) + Mentions(e, i)
    BY <1>1, TimesAppend, PlacesFinite
<1>3. /\ Times(events, completed, i) \in Nat
      /\ e.type # completed => Times(more, completed, i) = Times(events, completed, i)
      /\ e.type = completed =>
            Times(more, completed, i) = Times(events, completed, i) + Mentions(e, i)
    BY <1>1, TimesAppend, PlacesFinite
<1> QED BY <1>2, <1>3 DEF events, more, planned, completed

\* Nothing is completed by an event of another type.
LEMMA PairedAppend ==
    ASSUME NEW s \in Seq(EventRecord), NEW e \in EventRecord, Paired(s),
           e.type = "task_completed" =>
              /\ s # <<>>
              /\ s[Len(s)].type = "task_started" /\ s[Len(s)].tasks = e.tasks
    PROVE  Paired(Append(s, e))
<1> DEFINE t == Append(s, e)
           k == Len(s)
<1>1. /\ k \in Nat /\ DOMAIN s = 1 .. k /\ DOMAIN t = 1 .. k + 1
      /\ \A i \in 1 .. k : t[i] = s[i]
      /\ t[k + 1] = e
    BY LenProperties, AppendProperties
<1>2. s # <<>> => k # 0
    BY EmptySeq
<1> HIDE DEF t
<1>3. ASSUME NEW n \in DOMAIN t, t[n].type = "task_completed"
      PROVE  n - 1 \in DOMAIN t /\ t[n - 1].type = "task_started" /\ t[n - 1].tasks = t[n].tasks
    <2>1. CASE n \in 1 .. k
        <3>1. n \in DOMAIN s /\ s[n].type = "task_completed" /\ t[n] = s[n]
            BY <1>1, <1>3, <2>1
        <3>2. /\ n - 1 \in DOMAIN s
              /\ s[n - 1].type = "task_started" /\ s[n - 1].tasks = s[n].tasks
            BY <3>1 DEF Paired
        <3>3. n - 1 \in DOMAIN t /\ t[n - 1] = s[n - 1]
            BY <1>1, <3>2
        <3> QED BY <3>1, <3>2, <3>3
    <2>2. CASE n = k + 1
        <3>1. /\ s # <<>> /\ s[k].type = "task_started" /\ s[k].tasks = e.tasks /\ t[n] = e
            BY <1>1, <1>3, <2>2
        <3>2. k \in 1 .. k /\ n - 1 = k
            BY <1>1, <1>2, <2>2, <3>1
        <3>3. n - 1 \in DOMAIN t /\ t[n - 1] = s[k]
            BY <1>1, <3>2
        <3> QED BY <3>1, <3>3
    <2> QED BY <1>1, <2>1, <2>2
<1> QED BY <1>3 DEF Paired, t

\* The starts and refreshes that are recorded leave tasks and stops alone.
LEMMA QuietKeeps ==
    ASSUME NEW s, NEW r, NEW e, Adds(s, r, e), Recounted(s),
           e.type \in {"task_started", "state_updated"},
           r.agenda = s.agenda, r.completed = s.completed, r.stop = s.stop
    PROVE  Recounted(r)
<1>1. s.events \in Seq(EventRecord) /\ e \in EventRecord /\ r.events = Append(s.events, e)
    BY DEF Adds, State
<1>2. Done(r) = Done(s) /\ Stops(r) = Stops(s)
    <2>1. Done(r) = Done(s)
        BY <1>1, OfTypesAppend DEF Done
    <2>2. Stops(r) = Stops(s)
        <3> DEFINE T == {"budget_exhausted", "stopped"}
        <3>1. e.type \notin T
            OBVIOUS
        <3> HIDE DEF T
        <3>2. OfTypes(r.events, T) = OfTypes(s.events, T)
            BY <1>1, <3>1, OfTypesAppend
        <3> QED BY <3>2 DEF Stops, T
    <2> QED BY <2>1, <2>2
<1>3. Paired(r.events)
    BY <1>1, PairedAppend DEF Recounted, Balanced
<1>4. ASSUME NEW i \in TaskId
      PROVE  /\ Times(r.events, "task_planned", i) = Times(s.events, "task_planned", i)
             /\ Times(r.events, "task_completed", i) = Times(s.events, "task_completed", i)
    <2>1. e.type # "task_planned" /\ e.type # "task_completed"
        OBVIOUS
    <2>2. Times(r.events, "task_planned", i) = Times(s.events, "task_planned", i)
        BY <2>1, EventTimes
    <2>3. Times(r.events, "task_completed", i) = Times(s.events, "task_completed", i)
        BY <2>1, EventTimes
    <2> QED BY <2>2, <2>3
<1>5. Balanced(r)
    BY <1>3, <1>4 DEF Recounted, Balanced
<1>6. Guarded(r)
    BY <1>2 DEF Recounted, Guarded
<1>7. Explained(r)
    BY <1>2 DEF Recounted, Explained, Exhausted
<1> QED BY <1>5, <1>6, <1>7 DEF Recounted

\* A stop is the last one on record.
LEMMA StopKeeps ==
    ASSUME NEW s, NEW r, NEW e, Adds(s, r, e), Recounted(s),
           e.type \in {"stopped", "budget_exhausted"},
           e.type = "budget_exhausted" => Exhausted(s),
           r.agenda = s.agenda, r.completed = s.completed, r.stop = e.reason
    PROVE  Recounted(r)
<1>1. s.events \in Seq(EventRecord) /\ e \in EventRecord /\ r.events = Append(s.events, e)
    BY DEF Adds, State
<1>2. Done(r) = Done(s)
    BY <1>1, OfTypesAppend DEF Done
<1>3. Stops(s) \in Seq(EventRecord) /\ Stops(r) = Append(Stops(s), e)
    BY <1>1, OfTypesAppend DEF Stops
<1>4. Paired(r.events)
    BY <1>1, PairedAppend DEF Recounted, Balanced
<1>5. ASSUME NEW i \in TaskId
      PROVE  /\ Times(r.events, "task_planned", i) = Times(s.events, "task_planned", i)
             /\ Times(r.events, "task_completed", i) = Times(s.events, "task_completed", i)
    <2>1. e.type # "task_planned" /\ e.type # "task_completed"
        OBVIOUS
    <2>2. Times(r.events, "task_planned", i) = Times(s.events, "task_planned", i)
        BY <2>1, EventTimes
    <2>3. Times(r.events, "task_completed", i) = Times(s.events, "task_completed", i)
        BY <2>1, EventTimes
    <2> QED BY <2>2, <2>3
<1>6. Balanced(r)
    BY <1>4, <1>5 DEF Recounted, Balanced
<1>7. Guarded(r)
    BY <1>2 DEF Recounted, Guarded
<1>8. Explained(r)
    <2> DEFINE u == Stops(s)
               v == Stops(r)
    <2>1. /\ u \in Seq(EventRecord) /\ v = Append(u, e)
          /\ \A n \in DOMAIN u : u[n].type = "budget_exhausted" => Exhausted(s)
        BY <1>3 DEF Recounted, Explained
    <2> HIDE DEF u, v
    <2>2. /\ Len(u) \in Nat /\ Len(v) = Len(u) + 1 /\ v[Len(u) + 1] = e /\ v # <<>>
          /\ DOMAIN u = 1 .. Len(u) /\ DOMAIN v = 1 .. Len(u) + 1
          /\ \A n \in 1 .. Len(u) : v[n] = u[n]
        BY <1>1, <2>1, AppendProperties, LenProperties
    <2>3. Exhausted(s) = Exhausted(r)
        BY DEF Exhausted
    <2>4. \A n \in DOMAIN v : v[n].type = "budget_exhausted" => Exhausted(r)
        <3> TAKE n \in DOMAIN v
        <3>1. CASE n \in 1 .. Len(u)
            BY <2>1, <2>2, <2>3, <3>1
        <3>2. CASE n = Len(u) + 1
            BY <2>2, <2>3, <3>2
        <3> QED BY <2>2, <3>1, <3>2
    <2>5. r.stop = v[Len(v)].reason
        BY <2>2
    <2> QED BY <2>2, <2>4, <2>5 DEF Explained, v
<1> QED BY <1>6, <1>7, <1>8 DEF Recounted

\* New tasks that descend from root tasks join the agenda and the record.
LEMMA PlannedKeeps ==
    ASSUME start \in StartStates,
           NEW s, NEW r, NEW e, Adds(s, r, e), Recounted(s), e.type = "task_planned",
           r.completed = s.completed, r.stop = s.stop,
           \A i \in TaskId :
              TimesIn(r.agenda, i) = TimesIn(s.agenda, i) + Mentions(e, i),
           \A n \in DOMAIN r.agenda : Descends(r.agenda[n])
    PROVE  Recounted(r)
<1>1. /\ s.events \in Seq(EventRecord) /\ e \in EventRecord /\ r.events = Append(s.events, e)
      /\ s.agenda \in Seq(Task)
    BY DEF Adds, State
<1>2. Done(r) = Done(s) /\ Stops(r) = Stops(s)
    <2>1. Done(r) = Done(s)
        BY <1>1, OfTypesAppend DEF Done
    <2>2. Stops(r) = Stops(s)
        <3> DEFINE T == {"budget_exhausted", "stopped"}
        <3>1. e.type \notin T
            OBVIOUS
        <3>2. Stops(s) = OfTypes(s.events, T) /\ Stops(r) = OfTypes(r.events, T)
            BY DEF Stops
        <3> HIDE DEF T
        <3> QED BY <1>1, <3>1, <3>2, OfTypesAppend
    <2> QED BY <2>1, <2>2
<1>3. Paired(r.events)
    BY <1>1, PairedAppend DEF Recounted, Balanced
<1>4. ASSUME NEW i \in TaskId
      PROVE  TimesIn(start.agenda, i) + Times(r.events, "task_planned", i)
               = TimesIn(r.agenda, i) + Times(r.events, "task_completed", i)
    <2>1. Times(s.events, "task_planned", i) \in Nat /\ Times(s.events, "task_completed", i) \in Nat
        BY EventTimes
    <2>2. /\ Times(r.events, "task_planned", i)
                = Times(s.events, "task_planned", i) + Mentions(e, i)
          /\ Times(r.events, "task_completed", i) = Times(s.events, "task_completed", i)
        <3>1. Times(r.events, "task_planned", i)
                = Times(s.events, "task_planned", i) + Mentions(e, i)
            BY EventTimes
        <3>2. e.type # "task_completed"
            OBVIOUS
        <3>3. Times(r.events, "task_completed", i) = Times(s.events, "task_completed", i)
            BY <3>2, EventTimes
        <3> QED BY <3>1, <3>3
    <2>3. Mentions(e, i) \in Nat
        <3> DEFINE tasks == e.tasks
        <3>1. tasks \in Seq(TaskId)
            BY <1>1 DEF EventRecord
        <3> HIDE DEF tasks
        <3>2. Occurrences(tasks, {i}) \in Nat
            BY <3>1, OccurrencesType
        <3> QED BY <3>2 DEF tasks, Mentions
    <2>4. TimesIn(s.agenda, i) \in Nat
        BY <1>1, TimesInType
    <2>5. TimesIn(start.agenda, i) + Times(s.events, "task_planned", i)
            = TimesIn(s.agenda, i) + Times(s.events, "task_completed", i)
        BY DEF Recounted, Balanced
    <2>6. TimesIn(start.agenda, i) \in Nat
        BY StartTimes
    <2>7. TimesIn(r.agenda, i) = TimesIn(s.agenda, i) + Mentions(e, i)
        OBVIOUS
    <2> QED BY <2>1, <2>2, <2>3, <2>4, <2>5, <2>6, <2>7
<1>5. Balanced(r)
    BY <1>3, <1>4 DEF Balanced
<1>6. Guarded(r)
    BY <1>2 DEF Recounted, Guarded
<1>7. Explained(r)
    BY <1>2 DEF Recounted, Explained, Exhausted
<1> QED BY <1>5, <1>6, <1>7 DEF Recounted

\* A completed task leaves the agenda and the record names it; its atoms are
\* those it accepts.
LEMMA CompletedKeeps ==
    ASSUME start \in StartStates, setup \in Setup,
           NEW s, NEW r, NEW e, Adds(s, r, e), Recounted(s), e.type = "task_completed",
           s.agenda # <<>>, s.events # <<>>,
           s.events[Len(s.events)].type = "task_started",
           s.events[Len(s.events)].tasks = e.tasks,
           e.tasks = <<Head(s.agenda).id>>,
           NEW result \in Result, r.completed = Append(s.completed, result),
           \A m \in DOMAIN result.atoms : Acceptable(Head(s.agenda), result.atoms[m]),
           Head(s.agenda).type = "normalize_candidate" => result.atoms = <<>>,
           r.agenda = Tail(s.agenda), r.stop = s.stop
    PROVE  Recounted(r)
<1> DEFINE t == Head(s.agenda)
<1>1. /\ s.events \in Seq(EventRecord) /\ e \in EventRecord /\ r.events = Append(s.events, e)
      /\ s.agenda \in Seq(Task) /\ s.completed \in Seq(Result)
    BY DEF Adds, State
<1>2. Done(s) \in Seq(EventRecord) /\ Done(r) = Append(Done(s), e)
    BY <1>1, OfTypesAppend DEF Done
<1>3. Stops(r) = Stops(s)
    <2> DEFINE T == {"budget_exhausted", "stopped"}
    <2>1. e.type \notin T
        OBVIOUS
    <2>2. Stops(s) = OfTypes(s.events, T) /\ Stops(r) = OfTypes(r.events, T)
        BY DEF Stops
    <2> HIDE DEF T
    <2> QED BY <1>1, <2>1, <2>2, OfTypesAppend
<1>4. Paired(r.events)
    BY <1>1, PairedAppend DEF Recounted, Balanced
<1>5. ASSUME NEW i \in TaskId
      PROVE  TimesIn(start.agenda, i) + Times(r.events, "task_planned", i)
               = TimesIn(r.agenda, i) + Times(r.events, "task_completed", i)
    <2>1. Times(s.events, "task_planned", i) \in Nat /\ Times(s.events, "task_completed", i) \in Nat
        BY EventTimes
    <2>2. /\ Times(r.events, "task_planned", i) = Times(s.events, "task_planned", i)
          /\ Times(r.events, "task_completed", i)
                = Times(s.events, "task_completed", i) + Mentions(e, i)
        <3>1. e.type # "task_planned"
            OBVIOUS
        <3>2. Times(r.events, "task_planned", i) = Times(s.events, "task_planned", i)
            BY <3>1, EventTimes
        <3>3. Times(r.events, "task_completed", i)
                = Times(s.events, "task_completed", i) + Mentions(e, i)
            BY EventTimes
        <3> QED BY <3>2, <3>3
    <2>3. Mentions(e, i) = IF t.id = i THEN 1 ELSE 0
        <3> DEFINE E == {i}
                   x == t.id
        <3>1. Mentions(e, i) = Occurrences(<<x>>, E)
            BY DEF Mentions
        <3>2. x \in E <=> x = i
            OBVIOUS
        <3> HIDE DEF E, x
        <3>3. Occurrences(<<x>>, E) = IF x \in E THEN 1 ELSE 0
            BY OneId
        <3> QED BY <3>1, <3>2, <3>3 DEF x
    <2>4. TimesIn(s.agenda, i) = (IF t.id = i THEN 1 ELSE 0) + TimesIn(r.agenda, i)
        BY <1>1, TimesInHeadTail
    <2>5. Tail(s.agenda) \in Seq(Task)
        BY <1>1, WaitingBehind
    <2>6. TimesIn(r.agenda, i) \in Nat
        BY <2>5, TimesInType
    <2>7. TimesIn(start.agenda, i) + Times(s.events, "task_planned", i)
            = TimesIn(s.agenda, i) + Times(s.events, "task_completed", i)
        BY DEF Recounted, Balanced
    <2>8. TimesIn(start.agenda, i) \in Nat
        BY StartTimes
    <2> HIDE DEF t
    <2> QED BY <2>1, <2>2, <2>3, <2>4, <2>6, <2>7, <2>8
<1>6. Balanced(r)
    BY <1>4, <1>5 DEF Balanced
<1>7. Guarded(r)
    <2>1. /\ \A n \in DOMAIN s.agenda : Descends(s.agenda[n])
          /\ Len(Done(s)) = Len(s.completed)
          /\ \A n \in DOMAIN s.completed : \A m \in DOMAIN s.completed[n].atoms :
                Admissible(Done(s)[n].tasks[1][1], s.completed[n].atoms[m])
        BY DEF Recounted, Guarded
    <2>2. \A n \in DOMAIN r.agenda : Descends(r.agenda[n])
        <3> DEFINE p == s.agenda
        <3>1. p \in Seq(Task) /\ p # <<>>
            BY <1>1
        <3> HIDE DEF p
        <3>2. /\ Len(p) \in Nat \ {0} /\ DOMAIN p = 1 .. Len(p) /\ DOMAIN Tail(p) = 1 .. Len(p) - 1
              /\ \A i \in 1 .. Len(p) - 1 : Tail(p)[i] = p[i + 1]
            BY <3>1, HeadTailProperties, LenProperties, EmptySeq
        <3>3. ASSUME NEW n \in DOMAIN Tail(p) PROVE Descends(Tail(p)[n])
            <4>1. n + 1 \in DOMAIN p /\ Tail(p)[n] = p[n + 1]
                BY <3>2
            <4> QED BY <2>1, <4>1 DEF p
        <3> QED BY <3>3 DEF p
    <2>3. Descends(t) /\ t \in Task
        <3>1. 1 \in DOMAIN s.agenda /\ t = s.agenda[1]
            BY <1>1, HeadTailProperties, LenProperties, EmptySeq
        <3> QED BY <1>1, <2>1, <3>1, WaitingBehind
    <2>4. e.tasks[1][1] = t.id[1]
        OBVIOUS
    <2>5. ASSUME NEW m \in DOMAIN result.atoms PROVE Admissible(e.tasks[1][1], result.atoms[m])
        <3>1. Acceptable(t, result.atoms[m])
            OBVIOUS
        <3>2. t.type # "normalize_candidate"
            BY EmptySeq
        <3>3. PICK root \in RootTasks : root.id[1] = t.id[1] /\ root.allowed = t.allowed
            BY <2>3, <3>2 DEF Descends
        <3> QED BY <2>4, <3>1, <3>3 DEF Acceptable, Admissible
    <2> DEFINE d == Done(s)
               dd == Done(r)
               c == s.completed
               cc == r.completed
    <2>6. /\ d \in Seq(EventRecord) /\ dd = Append(d, e) /\ c \in Seq(Result)
          /\ cc = Append(c, result) /\ Len(d) = Len(c)
        BY <1>1, <1>2, <2>1
    <2> HIDE DEF d, dd, c, cc
    <2>7. /\ Len(c) \in Nat /\ Len(dd) = Len(c) + 1 /\ Len(cc) = Len(c) + 1
          /\ DOMAIN c = 1 .. Len(c) /\ DOMAIN cc = 1 .. Len(c) + 1
          /\ \A n \in 1 .. Len(c) : dd[n] = d[n] /\ cc[n] = c[n]
          /\ dd[Len(c) + 1] = e /\ cc[Len(c) + 1] = result
        BY <1>1, <2>6, AppendProperties, LenProperties
    <2>8. ASSUME NEW n \in DOMAIN cc, NEW m \in DOMAIN cc[n].atoms
          PROVE  Admissible(dd[n].tasks[1][1], cc[n].atoms[m])
        <3>1. CASE n \in 1 .. Len(c)
            <4>1. n \in DOMAIN c /\ m \in DOMAIN c[n].atoms /\ dd[n] = d[n] /\ cc[n] = c[n]
                BY <2>7, <2>8, <3>1
            <4> QED BY <2>1, <4>1 DEF c, d
        <3>2. CASE n = Len(c) + 1
            <4>1. m \in DOMAIN result.atoms /\ dd[n] = e /\ cc[n] = result
                BY <2>7, <2>8, <3>2
            <4> QED BY <2>5, <4>1
        <3> QED BY <2>7, <3>1, <3>2
    <2> QED BY <2>2, <2>7, <2>8 DEF Guarded, dd, cc
<1>8. Explained(r)
    <2>1. Exhausted(s) => Exhausted(r)
        <3>1. Len(s.completed) \in Nat /\ Len(r.completed) = Len(s.completed) + 1
            BY <1>1, AppendProperties, LenProperties
        <3>2. setup.maxIterations \in Nat
            BY DEF Setup
        <3> QED BY <3>1, <3>2 DEF Exhausted
    <2> QED BY <1>3, <2>1 DEF Recounted, Explained
<1> QED BY <1>6, <1>7, <1>8 DEF Recounted

-----------------------------------------------------------------------------
(***************************************************************************)
(* The invariant under the effects of a task or a stop.                    *)
(***************************************************************************)

\* What is recorded is one event more.
LEMMA RecordedAdds ==
    ASSUME NEW s \in State, NEW type, NEW tasks \in Seq(TaskId),
           NEW reason \in StopReasons \cup {None},
           type \in {"task_planned", "task_started", "task_completed", "state_updated",
                     "budget_exhausted", "stopped"}
    PROVE  /\ SameButEvents(s, Recorded(s, type, tasks, reason))
           /\ Adds(s, Recorded(s, type, tasks, reason),
                   [type |-> type, tasks |-> tasks, reason |-> reason])
<1> DEFINE e == [type |-> type, tasks |-> tasks, reason |-> reason]
           r == Recorded(s, type, tasks, reason)
<1>1. e \in EventRecord
    BY DEF EventRecord
<1>2. r \in State /\ SameButEvents(s, r)
    BY RecordedType
<1>3. r = [s EXCEPT !.events = Append(@, e)]
    BY DEF Recorded
<1> HIDE DEF e
<1>4. r.events = Append(s.events, e)
    BY <1>3 DEF State
<1> HIDE DEF r
<1>5. Adds(s, r, e)
    BY <1>1, <1>2, <1>4 DEF Adds
<1> QED BY <1>2, <1>5 DEF r, e

\* A stop with a reason, for the budget if there is none left.
LEMMA StopRecounts ==
    ASSUME NEW c \in State, NEW reason \in StopReasons, NEW type \in {"stopped", "budget_exhausted"},
           type = "budget_exhausted" => Exhausted(c), Recounted(c)
    PROVE  Stopped(c, reason, type) \in State /\ Recounted(Stopped(c, reason, type))
<1> DEFINE s == [c EXCEPT !.stop = reason]
           r == Stopped(c, reason, type)
           none == <<>>
           e == [type |-> type, tasks |-> none, reason |-> reason]
<1>1. s \in State /\ none \in Seq(TaskId)
    BY EmptySeq DEF State
<1>2. /\ s.agenda = c.agenda /\ s.completed = c.completed /\ s.stop = reason
      /\ s.events = c.events
    BY DEF State
<1>3. r = Recorded(s, type, none, reason)
    BY DEF Stopped
<1>4. e.type = type /\ e.reason = reason
    OBVIOUS
<1> HIDE DEF s, e, none, r
<1>5. SameButEvents(s, r) /\ Adds(s, r, e)
    BY <1>1, <1>3, RecordedAdds DEF e
<1>6. Adds(c, r, e)
    BY <1>2, <1>5 DEF Adds
<1>7. r.agenda = c.agenda /\ r.completed = c.completed /\ r.stop = e.reason
    BY <1>2, <1>4, <1>5 DEF SameButEvents
<1>8. Recounted(r)
    BY <1>4, <1>6, <1>7, StopKeeps
<1> QED BY <1>6, <1>8 DEF Adds, r

\* New tasks, in front of the agenda or behind, on record.
LEMMA PlanRecounts ==
    ASSUME start \in StartStates, NEW c \in State, Recounted(c), NEW tasks \in Seq(Task),
           NEW agenda \in Seq(Task),
           \/ agenda = c.agenda \o tasks
           \/ agenda = tasks \o c.agenda,
           \A n \in DOMAIN tasks : Descends(tasks[n])
    PROVE  /\ Planned([c EXCEPT !.agenda = agenda], tasks) \in State
           /\ Recounted(Planned([c EXCEPT !.agenda = agenda], tasks))
<1> DEFINE s == [c EXCEPT !.agenda = agenda]
           ids == [n \in DOMAIN tasks |-> tasks[n].id]
           r == Planned(s, tasks)
           e == [type |-> "task_planned", tasks |-> ids, reason |-> None]
<1>1. s \in State /\ ids \in Seq(TaskId)
    <2>1. Len(tasks) \in Nat /\ DOMAIN tasks = 1 .. Len(tasks)
          /\ \A n \in DOMAIN tasks : tasks[n] \in Task
        BY LenProperties
    <2>2. \A n \in DOMAIN tasks : tasks[n].id \in TaskId
        BY <2>1 DEF Task
    <2>3. ids \in Seq(TaskId)
        BY <2>1, <2>2, IsASeq
    <2>4. s \in State
        BY DEF State
    <2> QED BY <2>3, <2>4
<1>2. /\ s.agenda = agenda /\ s.completed = c.completed /\ s.stop = c.stop
      /\ s.events = c.events
    BY DEF State
<1>3. r = Recorded(s, "task_planned", ids, None)
    BY DEF Planned
<1>4. e.type = "task_planned" /\ e.tasks = ids
    OBVIOUS
<1>5. \A i : Occurrences(ids, {i}) = TimesIn(tasks, i)
    BY IdsOfTasks
<1> HIDE DEF s, e, ids, r
<1>6. SameButEvents(s, r) /\ Adds(s, r, e)
    BY <1>1, <1>3, RecordedAdds DEF e
<1>7. Adds(c, r, e)
    BY <1>2, <1>6 DEF Adds
<1>8. r.agenda = agenda /\ r.completed = c.completed /\ r.stop = c.stop
    BY <1>2, <1>6 DEF SameButEvents
<1>9. c.agenda \in Seq(Task)
    BY DEF State
<1>10. ASSUME NEW i \in TaskId
       PROVE  TimesIn(r.agenda, i) = TimesIn(c.agenda, i) + Mentions(e, i)
    <2>1. TimesIn(agenda, i) = TimesIn(c.agenda, i) + TimesIn(tasks, i)
        <3>1. TimesIn(c.agenda, i) \in Nat /\ TimesIn(tasks, i) \in Nat
            BY <1>9, TimesInType
        <3>2. TimesIn(c.agenda \o tasks, i) = TimesIn(c.agenda, i) + TimesIn(tasks, i)
            BY <1>9, TimesInConcat
        <3>3. TimesIn(tasks \o c.agenda, i) = TimesIn(tasks, i) + TimesIn(c.agenda, i)
            BY <1>9, TimesInConcat
        <3>4. CASE agenda = c.agenda \o tasks
            BY <3>2, <3>4
        <3>5. CASE agenda = tasks \o c.agenda
            <4>1. TimesIn(agenda, i) = TimesIn(tasks, i) + TimesIn(c.agenda, i)
                BY <3>3, <3>5
            <4> QED BY <3>1, <4>1
        <3> QED BY <3>4, <3>5
    <2>2. Mentions(e, i) = TimesIn(tasks, i)
        BY <1>4, <1>5 DEF Mentions
    <2> QED BY <1>8, <2>1, <2>2
<1>11. ASSUME NEW n \in DOMAIN agenda PROVE Descends(agenda[n])
    <2> DEFINE p == c.agenda
    <2>1. p \in Seq(Task) /\ \A k \in DOMAIN p : Descends(p[k])
        BY <1>9 DEF Recounted, Guarded
    <2>2. \/ agenda = p \o tasks
          \/ agenda = tasks \o p
        OBVIOUS
    <2> HIDE DEF p
    <2>3. /\ Len(p) \in Nat /\ Len(tasks) \in Nat
          /\ DOMAIN p = 1 .. Len(p) /\ DOMAIN tasks = 1 .. Len(tasks)
        BY <2>1, LenProperties
    <2>4. CASE agenda = p \o tasks
        <3>1. /\ n \in 1 .. Len(p) + Len(tasks)
              /\ agenda[n] = IF n <= Len(p) THEN p[n] ELSE tasks[n - Len(p)]
            BY <1>11, <2>1, <2>3, <2>4, ConcatProperties, LenProperties
        <3> QED BY <2>1, <2>3, <3>1
    <2>5. CASE agenda = tasks \o p
        <3>1. /\ n \in 1 .. Len(tasks) + Len(p)
              /\ agenda[n] = IF n <= Len(tasks) THEN tasks[n] ELSE p[n - Len(tasks)]
            BY <1>11, <2>1, <2>3, <2>5, ConcatProperties, LenProperties
        <3> QED BY <2>1, <2>3, <3>1
    <2> QED BY <2>2, <2>4, <2>5
<1>12. Recounted(r)
    BY <1>4, <1>7, <1>8, <1>10, <1>11, PlannedKeeps
<1> QED BY <1>7, <1>12 DEF Adds, r, s

\* A completed task, started first, with whatever passes the guardrail.
LEMMA CompletionRecounts ==
    ASSUME start \in StartStates, setup \in Setup,
           NEW s \in State, s.agenda # <<>>, Recounted(s), NEW task \in TaskId,
           NEW status \in Status, NEW units \in SUBSET Unit, NEW offered \in Seq(Atom),
           NEW norms \in Seq(AtomId),
           Head(s.agenda).type = "normalize_candidate" => offered = <<>>,
           NEW c \in Completions(s, Head(s.agenda), task, status, units, offered, norms)
    PROVE  c \in State /\ Recounted(c)
<1> DEFINE t == Head(s.agenda)
           names == <<t.id>>
           started == Recorded(s, "task_started", names, None)
           result(accepted) == [task |-> task, status |-> status, atoms |-> accepted]
           e0 == [type |-> "task_started", tasks |-> names, reason |-> None]
           e1 == [type |-> "task_completed", tasks |-> names, reason |-> None]
<1>1. t \in Task /\ names \in Seq(TaskId) /\ s.agenda \in Seq(Task)
    <2>1. s.agenda \in Seq(Task)
        BY DEF State
    <2>2. t \in Task
        BY <2>1, WaitingBehind
    <2>3. t.id \in TaskId
        BY <2>2 DEF Task
    <2> QED BY <2>1, <2>2, <2>3
<1>2. PICK accepted \in Picked(offered, Admitted(t, offered)),
           kept \in Picked(norms, Retained(t, offered, norms)) :
          c = Completed(s, t, task, status, units, accepted, kept)
    BY DEF Completions
<1>3. /\ Admitted(t, offered) \in SUBSET DOMAIN offered
      /\ Retained(t, offered, norms) \in SUBSET DOMAIN norms
    BY DEF Admitted, Retained
<1>4. /\ accepted \in Seq(Atom) /\ (offered = <<>> => accepted = <<>>)
      /\ \A n \in DOMAIN accepted : \E m \in Admitted(t, offered) : accepted[n] = offered[m]
    BY <1>3, PickedType
<1>5. \A n \in DOMAIN accepted : Acceptable(t, accepted[n])
    BY <1>4 DEF Admitted
<1>6. kept \in Seq(AtomId)
    BY <1>3, PickedType
<1>7. result(accepted) \in Result /\ result(accepted).atoms = accepted
    BY <1>4 DEF Result
<1> HIDE DEF t
<1>8. SameButEvents(s, started) /\ Adds(s, started, e0)
    <2> HIDE DEF names
    <2> QED BY <1>1, RecordedAdds
<1>9. e0.type = "task_started" /\ e0.tasks = names /\ e1.type = "task_completed" /\ e1.tasks = names
    OBVIOUS
<1> HIDE DEF started, e0
<1>10. Recounted(started)
    BY <1>8, <1>9, QuietKeeps DEF SameButEvents
<1>11. /\ started \in State /\ started.agenda = s.agenda /\ started.completed = s.completed
       /\ started.stop = s.stop /\ started.units = s.units /\ started.atoms = s.atoms
       /\ started.norms = s.norms
       /\ started.events = Append(s.events, e0) /\ s.events \in Seq(EventRecord)
       /\ e0 \in EventRecord
    BY <1>8 DEF SameButEvents, Adds, State
<1>12. started.events # <<>> /\ started.events[Len(started.events)] = e0
    <2> DEFINE p == s.events
               q == started.events
    <2>1. p \in Seq(EventRecord) /\ e0 \in EventRecord /\ q = Append(p, e0)
        BY <1>11
    <2> HIDE DEF p, q
    <2>2. Len(p) \in Nat /\ Len(q) = Len(p) + 1 /\ q[Len(p) + 1] = e0
        BY <2>1, AppendProperties, LenProperties
    <2>3. q # <<>>
        BY <2>2, EmptySeq
    <2> QED BY <2>2, <2>3 DEF q
<1> DEFINE mid == [started EXCEPT
                     !.agenda = Tail(@),
                     !.completed = Append(@, result(accepted)),
                     !.units = @ \cup units,
                     !.atoms = @ \o accepted,
                     !.norms = @ \o kept]
<1>13. /\ Tail(s.agenda) \in Seq(Task)
       /\ Append(s.completed, result(accepted)) \in Seq(Result)
       /\ s.atoms \o accepted \in Seq(Atom)
       /\ s.norms \o kept \in Seq(AtomId)
       /\ s.units \cup units \in SUBSET Unit
    <2>1. /\ s.completed \in Seq(Result) /\ s.atoms \in Seq(Atom)
          /\ s.norms \in Seq(AtomId) /\ s.units \in SUBSET Unit
        BY DEF State
    <2>2. Tail(s.agenda) \in Seq(Task)
        BY <1>1, WaitingBehind
    <2> HIDE DEF result
    <2>3. Append(s.completed, result(accepted)) \in Seq(Result)
        BY <1>7, <2>1, AppendProperties
    <2>4. s.atoms \o accepted \in Seq(Atom) /\ s.norms \o kept \in Seq(AtomId)
        BY <1>4, <1>6, <2>1, ConcatProperties
    <2> QED BY <2>1, <2>2, <2>3, <2>4
<1> HIDE DEF result
<1>14. /\ mid \in State
       /\ mid.agenda = Tail(s.agenda) /\ mid.stop = s.stop
       /\ mid.completed = Append(s.completed, result(accepted))
       /\ mid.events = started.events
    BY <1>11, <1>13 DEF State
<1>15. c = Recorded(mid, "task_completed", names, None)
    BY <1>2 DEF Completed, started, result
<1> HIDE DEF mid
<1>16. SameButEvents(mid, c) /\ Adds(mid, c, e1)
    <2> HIDE DEF names
    <2> QED BY <1>1, <1>14, <1>15, RecordedAdds
<1> HIDE DEF e1
<1>17. Adds(started, c, e1)
    BY <1>11, <1>14, <1>16 DEF Adds
<1>18. /\ c.agenda = Tail(started.agenda) /\ c.stop = started.stop
       /\ c.completed = Append(started.completed, result(accepted))
    BY <1>11, <1>14, <1>16 DEF SameButEvents
<1>19. Recounted(c)
    <2> DEFINE u == result(accepted)
    <2>1. u \in Result /\ \A m \in DOMAIN u.atoms : Acceptable(Head(started.agenda), u.atoms[m])
        BY <1>5, <1>7, <1>11 DEF t
    <2>2. Head(started.agenda).type = "normalize_candidate" => u.atoms = <<>>
        BY <1>4, <1>7, <1>11
    <2>3. e1.tasks = <<Head(started.agenda).id>>
        BY <1>9, <1>11 DEF t
    <2>4. c.completed = Append(started.completed, u)
        BY <1>18
    <2>5. /\ started.agenda # <<>>
          /\ started.events[Len(started.events)].type = "task_started"
          /\ started.events[Len(started.events)].tasks = e1.tasks
        BY <1>9, <1>11, <1>12
    <2> HIDE DEF u
    <2> QED BY <1>9, <1>10, <1>12, <1>17, <1>18, <2>1, <2>2, <2>3, <2>4, <2>5, CompletedKeeps
<1> QED BY <1>17, <1>19 DEF Adds

\* Follow-up tasks keep the name they descend from, and those that admit atoms
\* its permission.
LEMMA FollowUpDescends ==
    ASSUME NEW t \in Task, Descends(t)
    PROVE  /\ t.type # "normalize_candidate" =>
                 \A selected : Descends(AtomizeTask(t, selected))
           /\ \A ids : Descends(NormalizeTask(t, ids))
<1> DEFINE S == Name \cup {"atomize", "normalize"}
           id == t.id
<1>1. id \in Seq(S) /\ id # <<>> /\ "atomize" \in S /\ "normalize" \in S
    BY DEF Task, TaskId, Descends
<1> HIDE DEF S, id
<1>2. /\ Append(id, "atomize") # <<>> /\ Append(id, "normalize") # <<>>
      /\ Append(id, "atomize")[1] = id[1]
    <2>1. Len(id) \in Nat /\ Len(id) # 0
        BY <1>1, LenProperties, EmptySeq
    <2>2. /\ Len(Append(id, "atomize")) = Len(id) + 1
          /\ Len(Append(id, "normalize")) = Len(id) + 1
          /\ \A i \in 1 .. Len(id) : Append(id, "atomize")[i] = id[i]
        BY <1>1, AppendProperties
    <2>3. 1 \in 1 .. Len(id)
        BY <2>1
    <2>4. Len(<<>>) = 0
        BY EmptySeq
    <2> QED BY <2>1, <2>2, <2>3, <2>4
<1>3. ASSUME t.type # "normalize_candidate", NEW selected
      PROVE  Descends(AtomizeTask(t, selected))
    <2>1. PICK root \in RootTasks : root.id[1] = id[1] /\ root.allowed = t.allowed
        BY <1>3 DEF Descends, id
    <2>2. /\ AtomizeTask(t, selected).id = Append(id, "atomize")
          /\ AtomizeTask(t, selected).allowed = t.allowed
        BY DEF AtomizeTask, Task, id
    <2> QED BY <1>2, <2>1, <2>2 DEF Descends
<1>4. ASSUME NEW ids PROVE Descends(NormalizeTask(t, ids))
    <2>1. /\ NormalizeTask(t, ids).id = Append(id, "normalize")
          /\ NormalizeTask(t, ids).type = "normalize_candidate"
        BY DEF NormalizeTask, Task, id
    <2> QED BY <1>2, <2>1 DEF Descends
<1> QED BY <1>3, <1>4

\* A follow-up task, planned at the front.
LEMMA PrecededRecounts ==
    ASSUME start \in StartStates, NEW s \in State, Recounted(s), NEW t \in Task, Descends(t)
    PROVE  Preceded(s, t) \in State /\ Recounted(Preceded(s, t))
<1> DEFINE tasks == <<t>>
           agenda == tasks \o s.agenda
<1>1. tasks \in Seq(Task) /\ \A n \in DOMAIN tasks : Descends(tasks[n])
    OBVIOUS
<1>2. s.agenda \in Seq(Task)
    BY DEF State
<1> HIDE DEF tasks
<1>3. agenda \in Seq(Task)
    BY <1>1, <1>2, ConcatProperties
<1>4. Preceded(s, t) = Planned([s EXCEPT !.agenda = agenda], tasks)
    BY DEF Preceded, tasks
<1>5. agenda = tasks \o s.agenda
    OBVIOUS
<1> HIDE DEF agenda
<1> QED BY <1>1, <1>3, <1>4, <1>5, PlanRecounts

\* The resolver runs again.
LEMMA RefreshedRecounts ==
    ASSUME NEW s \in State, Recounted(s)
    PROVE  Refreshed(s) \in State /\ Recounted(Refreshed(s))
<1>1. CASE ~setup.resolver
    BY <1>1 DEF Refreshed
<1>2. CASE setup.resolver
    <2> DEFINE graph == [atoms |-> Len(s.atoms), norms |-> Len(s.norms)]
               judged == [s EXCEPT !.graph = graph]
               none == <<>>
               r == Recorded(judged, "state_updated", none, None)
               e == [type |-> "state_updated", tasks |-> none, reason |-> None]
    <2>1. Len(s.atoms) \in Nat /\ Len(s.norms) \in Nat
        BY LenProperties DEF State
    <2>2. graph \in Graph /\ none \in Seq(TaskId)
        BY <2>1, EmptySeq DEF Graph
    <2>3. Refreshed(s) = r
        BY <1>2 DEF Refreshed
    <2> HIDE DEF graph
    <2>4. judged \in State
        BY <2>2 DEF State
    <2>5. /\ judged.completed = s.completed /\ judged.agenda = s.agenda
          /\ judged.events = s.events /\ judged.stop = s.stop
        BY DEF State
    <2>6. e.type = "state_updated"
        OBVIOUS
    <2> HIDE DEF judged, e, r, none
    <2>7. SameButEvents(judged, r) /\ Adds(judged, r, e)
        BY <2>2, <2>4, RecordedAdds DEF r, e
    <2>8. Adds(s, r, e)
        BY <2>5, <2>7 DEF Adds
    <2>9. r.agenda = s.agenda /\ r.completed = s.completed /\ r.stop = s.stop
        BY <2>5, <2>7 DEF SameButEvents
    <2>10. Recounted(r)
        BY <2>6, <2>8, <2>9, QuietKeeps
    <2> QED BY <2>3, <2>8, <2>10 DEF Adds
<1> QED BY <1>1, <1>2

-----------------------------------------------------------------------------
(***************************************************************************)
(* The invariant under what a call does.                                   *)
(***************************************************************************)

\* The head of the agenda descends from a root task.
LEMMA HeadDescends ==
    ASSUME NEW s \in State, Recounted(s), s.agenda # <<>>
    PROVE  Head(s.agenda) \in Task /\ Descends(Head(s.agenda))
<1> DEFINE p == s.agenda
<1>1. p \in Seq(Task) /\ p # <<>> /\ \A n \in DOMAIN p : Descends(p[n])
    BY DEF State, Recounted, Guarded
<1> HIDE DEF p
<1>2. Head(p) \in Task /\ 1 \in DOMAIN p /\ Head(p) = p[1]
    BY <1>1, HeadTailProperties, LenProperties, EmptySeq
<1> QED BY <1>1, <1>2 DEF p

\* A task of the head of the agenda, whatever port it asks.
LEMMA TaskRecounts ==
    ASSUME TypeOK, Recounted(current), current.agenda # <<>>, Execute(Head(current.agenda))
    PROVE  \E r : Step(r) /\ r \in State /\ Recounted(r)
<1> DEFINE t == Head(current.agenda)
<1>1. /\ start \in StartStates /\ setup \in Setup /\ current \in State
      /\ t \in Task /\ Descends(t) /\ t.id \in TaskId
    BY InvestigationAssumption, HeadDescends DEF TypeOK, Task
<1>2. /\ <<>> \in Seq(Atom) /\ <<>> \in Seq(AtomId) /\ {} \in SUBSET Unit
    BY EmptySeq
<1>3. {"completed", "no_new_clue", "manual_review_required", "skipped", "failed"} \subseteq Status
    BY DEF Status
<1> HIDE DEF t
<1>4. ASSUME NEW task \in TaskId, NEW status \in Status, NEW units \in SUBSET Unit,
             NEW offered \in Seq(Atom), NEW norms \in Seq(AtomId),
             t.type = "normalize_candidate" => offered = <<>>,
             NEW c \in Completions(current, t, task, status, units, offered, norms)
      PROVE  c \in State /\ Recounted(c)
    BY <1>1, <1>4, CompletionRecounts DEF t
<1>5. ASSUME NEW status \in {"no_new_clue", "manual_review_required", "skipped", "failed"},
             Complete(t, status)
      PROVE  \E r : Step(r) /\ r \in State /\ Recounted(r)
    <2>1. PICK c \in Completions(current, t, t.id, status, {}, <<>>, <<>>) : Step(c)
        BY <1>5 DEF Complete
    <2>2. status \in Status
        BY <1>3
    <2>3. c \in State /\ Recounted(c)
        BY <1>1, <1>2, <1>4, <2>2
    <2> QED BY <2>1, <2>3
<1>6. ASSUME NEW selected \in SUBSET current.units, Retrieve(t, selected)
      PROVE  \E r : Step(r) /\ r \in State /\ Recounted(r)
    <2>1. CASE Complete(t, "no_new_clue")
        BY <1>5, <2>1
    <2>2. CASE \E c \in Completions(current, t, t.id, "completed", {}, <<>>, <<>>) :
                  Step(Preceded(c, AtomizeTask(t, selected)))
        <3>1. PICK c \in Completions(current, t, t.id, "completed", {}, <<>>, <<>>) :
                  Step(Preceded(c, AtomizeTask(t, selected)))
            BY <2>2
        <3>2. "completed" \in Status
            BY <1>3
        <3>3. c \in State /\ Recounted(c)
            BY <1>1, <1>2, <1>4, <3>2
        <3>4. selected \in SUBSET Unit
            BY <1>1 DEF State
        <3>5. AtomizeTask(t, selected) \in Task
            BY <1>1, <3>4, FollowUpType
        <3>6. t.type # "normalize_candidate"
            BY <1>6 DEF Retrieve, Executes
        <3>7. Descends(AtomizeTask(t, selected))
            BY <1>1, <3>6, FollowUpDescends
        <3>8. /\ Preceded(c, AtomizeTask(t, selected)) \in State
              /\ Recounted(Preceded(c, AtomizeTask(t, selected)))
            BY <1>1, <3>3, <3>5, <3>7, PrecededRecounts
        <3> QED BY <3>1, <3>8
    <2> QED BY <1>6, <2>1, <2>2 DEF Retrieve
<1>7. ASSUME NEW o \in Observations, Inspect(t, o)
      PROVE  \E r : Step(r) /\ r \in State /\ Recounted(r)
    <2>1. /\ o.task \in TaskId /\ o.status \in Status /\ o.units \in SUBSET Unit
          /\ o.atoms \in Seq(Atom) /\ o.norms \in Seq(AtomId)
        BY InvestigationAssumption DEF Observation
    <2>2. PICK c \in Completions(current, t, o.task, o.status, o.units, o.atoms, o.norms) : Step(c)
        BY <1>7 DEF Inspect
    <2>3. t.type # "normalize_candidate"
        BY <1>7 DEF Inspect, Executes, Visual
    <2>4. c \in State /\ Recounted(c)
        BY <1>4, <2>1, <2>2, <2>3
    <2> QED BY <2>2, <2>4
<1>8. ASSUME NEW offered \in Atomizations \cup {<<>>}, Atomize(t, offered)
      PROVE  \E r : Step(r) /\ r \in State /\ Recounted(r)
    <2>1. offered \in Seq(Atom)
        BY <1>2, InvestigationAssumption
    <2>2. PICK c \in Completions(current, t, t.id, "completed", {}, offered, <<>>) :
              Step(Followed(c, t))
        BY <1>8 DEF Atomize
    <2>3. t.type # "normalize_candidate" /\ "completed" \in Status
        BY <1>3, <1>8 DEF Atomize, Executes
    <2>4. c \in State /\ Recounted(c)
        BY <1>1, <1>2, <1>4, <2>1, <2>3
    <2> DEFINE ids == Ids(c.completed[Len(c.completed)].atoms)
               follow == NormalizeTask(t, ids)
    <2>5. Followed(c, t) = c \/ Followed(c, t) = Preceded(c, follow)
        BY DEF Followed
    <2>6. follow \in Task /\ Descends(follow)
        <3>1. Completes(current, c, t.id, "completed", offered, <<>>)
            BY <1>1, <1>2, <2>1, <2>2, <2>3, CompletionType DEF t, Atomize
        <3>2. c.completed[Len(c.completed)].atoms \in Seq(Atom)
            BY <1>1, <2>3, <3>1, LastCompleted
        <3>3. ids \in Seq(AtomId)
            BY <3>2, IdsType
        <3> HIDE DEF ids
        <3> QED BY <1>1, <3>3, FollowUpType, FollowUpDescends
    <2> HIDE DEF follow
    <2>7. Followed(c, t) \in State /\ Recounted(Followed(c, t))
        <3>1. Preceded(c, follow) \in State /\ Recounted(Preceded(c, follow))
            BY <1>1, <2>4, <2>6, PrecededRecounts
        <3> QED BY <2>4, <2>5, <3>1
    <2> QED BY <2>2, <2>7
<1>9. ASSUME NEW norms \in NormalizerAnswers(current, t), Normalize(t, norms)
      PROVE  \E r : Step(r) /\ r \in State /\ Recounted(r)
    <2>1. norms \in Seq(AtomId) /\ "completed" \in Status
        BY <1>1, <1>3, AnswerType
    <2>2. PICK c \in Completions(current, t, t.id, "completed", {}, <<>>, norms) :
              Step(Refreshed(c))
        BY <1>9 DEF Normalize
    <2>3. c \in State /\ Recounted(c)
        BY <1>1, <1>2, <1>4, <2>1
    <2>4. Refreshed(c) \in State /\ Recounted(Refreshed(c))
        BY <2>3, RefreshedRecounts
    <2> QED BY <2>2, <2>4
<1>10. ASSUME RequestReview(t) \/ SkipStop(t) \/ FailTask(t)
       PROVE  \E r : Step(r) /\ r \in State /\ Recounted(r)
    BY <1>5, <1>10 DEF RequestReview, SkipStop, FailTask
<1>11. Execute(t)
    BY DEF t
<1> QED BY <1>6, <1>7, <1>8, <1>9, <1>10, <1>11 DEF Execute

\* A plan, a stop or a task.
LEMMA EveryStepRecounts ==
    ASSUME TypeOK, Recounted(current),
           \/ ExhaustBudget
           \/ \E p \in Proposals : Plan(p)
           \/ current.agenda # <<>> /\ Execute(Head(current.agenda))
    PROVE  \E r : Step(r) /\ r \in State /\ Recounted(r)
<1>1. current \in State /\ start \in StartStates
    BY DEF TypeOK
<1>2. CASE ExhaustBudget
    <2> DEFINE r == Stopped(current, "max_iterations_exhausted", "budget_exhausted")
    <2>1. Step(r) /\ Exhausted(current)
        BY <1>2 DEF ExhaustBudget
    <2>2. r \in State /\ Recounted(r)
        BY <1>1, <2>1, StopRecounts DEF StopReasons
    <2> QED BY <2>1, <2>2
<1>3. CASE \E p \in Proposals : Plan(p)
    <2>1. PICK p \in Proposals : Plan(p)
        BY <1>3
    <2>2. /\ p.tasks \in Seq(Task) /\ p.stop \in Reason \cup {None}
          /\ \A n \in DOMAIN p.tasks : p.tasks[n].id # <<>>
        BY InvestigationAssumption
    <2> DEFINE tasks == p.tasks
               agenda == current.agenda \o tasks
               s == [current EXCEPT !.agenda = agenda]
    <2>3. current.agenda \in Seq(Task) /\ tasks \in Seq(Task)
        BY <1>1, <2>2 DEF State
    <2>4. s = [current EXCEPT !.agenda = @ \o p.tasks]
        BY <1>1 DEF State
    <2>5. \/ tasks # <<>> /\ Step(Planned(s, tasks))
          \/ tasks = <<>> /\ p.stop # None /\ Step(Stopped(s, p.stop, "stopped"))
          \/ tasks = <<>> /\ p.stop = None /\ Step(s)
        BY <2>1, <2>4 DEF Plan
    <2>6. \A n \in DOMAIN tasks : Descends(tasks[n])
        BY <2>2 DEF Descends, RootTasks
    <2>7. tasks = <<>> => s = current
        <3>1. current.agenda \o <<>> = current.agenda
            BY <2>3, ConcatEmptySeq
        <3> QED BY <1>1, <3>1 DEF State
    <2>8. agenda \in Seq(Task)
        BY <2>3, ConcatProperties
    <2>9. Planned(s, tasks) \in State /\ Recounted(Planned(s, tasks))
        <3>1. agenda = current.agenda \o tasks
            OBVIOUS
        <3> HIDE DEF agenda, tasks
        <3> QED BY <1>1, <2>3, <2>6, <2>8, <3>1, PlanRecounts
    <2> HIDE DEF s
    <2>10. p.stop # None => /\ Stopped(current, p.stop, "stopped") \in State
                            /\ Recounted(Stopped(current, p.stop, "stopped"))
        BY <1>1, <2>2, StopRecounts DEF StopReasons
    <2> QED BY <1>1, <2>5, <2>7, <2>9, <2>10
<1>4. CASE current.agenda # <<>> /\ Execute(Head(current.agenda))
    BY <1>4, TaskRecounts
<1> QED BY <1>2, <1>3, <1>4

\* A caller's state and the one a call has built.
Histories == Recounted(state) /\ Recounted(current)

\* Nothing has happened at the start.
LEMMA HistoriesInit == Init => Histories
<1> SUFFICES ASSUME Init PROVE Recounted(start)
    BY DEF Init, Histories
<1>1. /\ start \in State /\ start \in StartStates
      /\ start.completed = <<>> /\ start.events = <<>> /\ start.stop = None
      /\ \A n \in DOMAIN start.agenda : start.agenda[n].id # <<>>
    BY InvestigationAssumption DEF Init
<1>2. \A T : OfTypes(<<>>, T) = <<>>
    <2> TAKE T
    <2>1. {n \in DOMAIN <<>> : <<>>[n].type \in T} = {}
        OBVIOUS
    <2> QED BY <2>1, SubsequenceNone DEF OfTypes
<1>3. Done(start) = <<>> /\ Stops(start) = <<>>
    BY <1>1, <1>2 DEF Done, Stops
<1>4. \A type, i : Times(<<>>, type, i) = 0
    <2> TAKE type, i
    <2>1. Places(<<>>, type, i) = {}
        BY DEF Places
    <2>2. <<>> \in Seq(EventRecord)
        OBVIOUS
    <2> DEFINE none == <<>>
    <2>3. Places(none, type, i) = {} /\ none \in Seq(EventRecord)
        BY <2>1, <2>2
    <2> HIDE DEF none
    <2>4. Times(none, type, i) = Cardinality(Places(none, type, i))
        BY <2>3, PlacesFinite
    <2>5. Times(none, type, i) = 0
        BY <2>3, <2>4, FS_EmptySet
    <2> QED BY <2>5 DEF none
<1>5. Balanced(start)
    BY <1>1, <1>4 DEF Balanced, Paired
<1>6. Guarded(start)
    <2>1. \A n \in DOMAIN start.agenda : Descends(start.agenda[n])
        BY <1>1 DEF Descends, RootTasks
    <2> QED BY <1>1, <1>3, <2>1 DEF Guarded
<1>7. Explained(start)
    BY <1>1, <1>3 DEF Explained
<1> QED BY <1>5, <1>6, <1>7 DEF Recounted

\* The history of r is the one of a state that becomes r.
LEMMA RecountedNext ==
    ASSUME NEW r, Recounted(r), setup' = setup, start' = start
    PROVE  /\ state' = r => Recounted(state)'
           /\ current' = r => Recounted(current)'
<1>1. ASSUME state' = r PROVE Recounted(state)'
    <2>1. Balanced(state)'
        BY <1>1 DEF Recounted, Balanced, Paired
    <2>2. Done(state)' = Done(r) /\ Stops(state)' = Stops(r)
        BY <1>1 DEF Done, Stops
    <2>3. RootTasks' = RootTasks
        BY DEF RootTasks
    <2>4. Guarded(state)'
        BY <1>1, <2>2, <2>3 DEF Recounted, Guarded, Descends, Admissible
    <2>5. Explained(state)'
        BY <1>1, <2>2 DEF Recounted, Explained, Exhausted
    <2> QED BY <2>1, <2>4, <2>5 DEF Recounted
<1>2. ASSUME current' = r PROVE Recounted(current)'
    <2>1. Balanced(current)'
        BY <1>2 DEF Recounted, Balanced, Paired
    <2>2. Done(current)' = Done(r) /\ Stops(current)' = Stops(r)
        BY <1>2 DEF Done, Stops
    <2>3. RootTasks' = RootTasks
        BY DEF RootTasks
    <2>4. Guarded(current)'
        BY <1>2, <2>2, <2>3 DEF Recounted, Guarded, Descends, Admissible
    <2>5. Explained(current)'
        BY <1>2, <2>2 DEF Recounted, Explained, Exhausted
    <2> QED BY <2>1, <2>4, <2>5 DEF Recounted
<1> QED BY <1>1, <1>2

\* A call that returns r or goes on with it, or is given up.
LEMMA HistoriesStep ==
    ASSUME Histories, NEW r, Recounted(r), setup' = setup, start' = start,
           current' = r, state' = r \/ state' = state
    PROVE  Histories'
<1>1. Recounted(current)'
    BY RecountedNext
<1>2. Recounted(state)'
    <2>1. CASE state' = r
        BY <2>1, RecountedNext
    <2>2. CASE state' = state
        <3>1. PICK u : u = state
            OBVIOUS
        <3>2. Recounted(u) /\ state' = u
            BY <2>2, <3>1 DEF Histories
        <3> QED BY <3>2, RecountedNext
    <2> QED BY <2>1, <2>2
<1> QED BY <1>1, <1>2 DEF Histories

\* Each action keeps the histories.
LEMMA HistoriesNext == TypeOK /\ Histories /\ [Next]_vars => Histories'
<1> SUFFICES ASSUME TypeOK, Histories, [Next]_vars PROVE Histories'
    OBVIOUS
<1> current \in State /\ state \in State
    BY DEF TypeOK
<1>1. \A r : Step(r) \/ Return(r) =>
          /\ setup' = setup /\ start' = start /\ current' = r
          /\ state' = r \/ state' = state
    BY DEF Step, Return, given
<1>2. CASE ReturnAgenda
    <2>1. PICK u : u = current
        OBVIOUS
    <2>2. Recounted(u) /\ Return(u)
        BY <1>2, <2>1 DEF ReturnAgenda, Histories
    <2> QED BY <1>1, <2>2, HistoriesStep
<1>3. CASE StopRepeated
    <2>1. PICK r : r = Stopped(current, "repeated_task_detected", "stopped")
        OBVIOUS
    <2>2. Recounted(Stopped(current, "repeated_task_detected", "stopped"))
        BY StopRecounts DEF Histories, StopReasons
    <2>3. Recounted(r) /\ Return(r)
        BY <1>3, <2>1, <2>2 DEF StopRepeated
    <2> QED BY <1>1, <2>3, HistoriesStep
<1>4. CASE \/ ExhaustBudget
           \/ \E p \in Proposals : Plan(p)
           \/ current.agenda # <<>> /\ Execute(Head(current.agenda))
    <2>1. PICK r : Step(r) /\ r \in State /\ Recounted(r)
        BY <1>4, EveryStepRecounts DEF Histories
    <2> QED BY <1>1, <2>1, HistoriesStep
<1>5. CASE RunOnce \/ RunAgenda \/ Raise
    <2>1. /\ setup' = setup /\ start' = start /\ current' = state /\ state' = state
        BY <1>5 DEF RunOnce, RunAgenda, Begin, Raise, given
    <2>2. PICK u : u = state
        OBVIOUS
    <2>3. Recounted(u) /\ current' = u
        BY <2>1, <2>2 DEF Histories
    <2> QED BY <2>1, <2>3, HistoriesStep
<1>6. CASE UNCHANGED vars \/ Rest
    <2>1. /\ setup' = setup /\ start' = start /\ current' = current /\ state' = state
        BY <1>6 DEF Rest, vars, given
    <2>2. PICK u : u = current
        OBVIOUS
    <2>3. Recounted(u) /\ current' = u
        BY <2>1, <2>2 DEF Histories
    <2> QED BY <2>1, <2>3, HistoriesStep
<1> QED BY <1>2, <1>3, <1>4, <1>5, <1>6 DEF Next

-----------------------------------------------------------------------------
(***************************************************************************)
(* The theorems.                                                           *)
(***************************************************************************)

\* The histories hold in every state the runner reaches.
THEOREM HistoryInvariance == Spec => []Histories
<1>1. Init => Histories
    BY HistoriesInit
<1>2. TypeOK /\ Histories /\ [Next]_vars => Histories'
    BY HistoriesNext
<1> QED BY <1>1, <1>2, TypeCorrect, PTL DEF Spec

\* However follow-up tasks are put before planned ones and wherever a call
\* stops: a planned task is on the agenda or was started and completed once
\* for each time it was planned.
THEOREM TaskTheorem == Spec => []NoTaskLost
<1>1. TypeOK /\ Histories => NoTaskLost
    <2> SUFFICES ASSUME TypeOK, Histories PROVE NoTaskLost
        OBVIOUS
    <2> DEFINE events == current.events
    <2>1. Balanced(current) /\ current \in State /\ start \in State
        BY InvestigationAssumption DEF TypeOK, Histories, Recounted
    <2>2. events \in Seq(EventRecord) /\ start.agenda \in Seq(Task)
        BY <2>1 DEF State
    <2>3. ASSUME NEW i \in {start.agenda[n].id : n \in DOMAIN start.agenda}
                          \cup UNION {Elements(events[n].tasks) : n \in DOMAIN events}
          PROVE  i \in TaskId
        <3>1. ASSUME NEW n \in DOMAIN start.agenda PROVE start.agenda[n].id \in TaskId
            <4>1. start.agenda[n] \in Task
                BY <2>2, ElementOfSeq, LenProperties
            <4> QED BY <4>1 DEF Task
        <3>2. ASSUME NEW n \in DOMAIN events, NEW x \in Elements(events[n].tasks)
              PROVE  x \in TaskId
            <4> DEFINE tasks == events[n].tasks
            <4>1. events[n] \in EventRecord
                BY <2>2, ElementOfSeq, LenProperties
            <4>2. tasks \in Seq(TaskId)
                BY <4>1 DEF EventRecord
            <4>3. PICK k \in DOMAIN tasks : x = tasks[k]
                BY <3>2 DEF Elements
            <4> HIDE DEF tasks
            <4> QED BY <4>2, <4>3, ElementOfSeq, LenProperties
        <3> QED BY <2>3, <3>1, <3>2
    <2> QED BY <2>1, <2>3 DEF Balanced, Paired, NoTaskLost
<1> QED BY <1>1, HistoryInvariance, TypeCorrect, PTL

\* Whatever models answer: admitted atoms have provenance, a type of the
\* vocabulary, and one the task at the head of their chain allows.
THEOREM GuardrailTheorem == Spec => []GuardrailHolds
<1>1. Histories => GuardrailHolds
    BY DEF Histories, Recounted, Guarded, Done, Admissible, GuardrailHolds
<1> QED BY <1>1, HistoryInvariance, PTL

\* Whatever reasons a planner gives: a stop reason is on record, and so is an
\* exhausted budget only if it is exhausted.
THEOREM StopTheorem == Spec => []StopExplained
<1>1. Histories => StopExplained
    BY DEF Histories, Recounted, Explained, Stops, StopExplained
<1> QED BY <1>1, HistoryInvariance, PTL

=============================================================================
