---------------------------- MODULE UtilityProofs ----------------------------
(***************************************************************************)
(* Theorems about UtilityConvergence, for all inventories, claims and step *)
(* limits: a candidate is always in one of four states, each determined by *)
(* its row and its claim, so that what is reported of it is true of them.  *)
(***************************************************************************)
EXTENDS UtilityConvergence, ConvergenceProofs, SelectionProofs

-----------------------------------------------------------------------------
(***************************************************************************)
(* Slots, rows and claims.                                                 *)
(***************************************************************************)

\* What the usage schema says of its five slots.
LEMMA SlotFacts ==
    /\ Slots = UsageSlots /\ Required = UsageSlots /\ AlignmentRequired = UsageSlots
    /\ ProvenanceRequired = UsageSlots
    /\ Comparable \cup DirectlyComparable = UsageSlots
    /\ Comparable \cap DirectlyComparable = {}
    /\ Comparable = {PERIOD, QUANTITY, UNIT} /\ DirectlyComparable = {SITE, ACTIVITY}
    /\ UsageSlots = {SITE, PERIOD, ACTIVITY, QUANTITY, UNIT}
    /\ QUANTITY \notin {SITE, PERIOD, ACTIVITY, UNIT}
    /\ UNIT \notin {SITE, PERIOD, ACTIVITY, QUANTITY}
    /\ PERIOD \notin {SITE, ACTIVITY}
<1> DEFINE bits == <<SITE, PERIOD, ACTIVITY, QUANTITY, UNIT>>
<1>1. \A m, n \in 1 .. 5 : bits[m] = bits[n] => m = n
    BY UtilityAssumption
<1>2. /\ SITE # PERIOD /\ SITE # ACTIVITY /\ SITE # QUANTITY /\ SITE # UNIT
      /\ PERIOD # ACTIVITY /\ PERIOD # QUANTITY /\ PERIOD # UNIT
      /\ ACTIVITY # QUANTITY /\ ACTIVITY # UNIT /\ QUANTITY # UNIT
    BY <1>1
<1>3. /\ Slots = UsageSlots /\ Required = Slots /\ AlignmentRequired = Slots
      /\ ProvenanceRequired = Slots
      /\ Comparable = {PERIOD, QUANTITY, UNIT} /\ DirectlyComparable = {SITE, ACTIVITY}
    BY UtilityAssumption
<1> QED BY <1>2, <1>3 DEF UsageSlots

\* The cell a slot is read from is the first usable one of that slot.
LEMMA FirstCellType ==
    ASSUME NEW row \in Rows, NEW b \in ReadSlots(row)
    PROVE  /\ FirstCell(row, b) \in DOMAIN row /\ FirstCell(row, b) \in Nat
           /\ row[FirstCell(row, b)] = [slot |-> b, value |-> ReadValue(row, b)]
           /\ ReadValue(row, b) \in Text \cup Number
           /\ b = QUANTITY => ReadValue(row, b) \in Number
           /\ b # QUANTITY => ReadValue(row, b) \in Text
           /\ \A l \in 1 .. FirstCell(row, b) - 1 : row[l].slot = b => ~Usable(row[l])
<1> DEFINE n == FirstCell(row, b)
<1>1. row \in Seq(Cell)
    BY UtilityAssumption
<1>2. Len(row) \in Nat /\ DOMAIN row = 1 .. Len(row) /\ \A m \in DOMAIN row : row[m] \in Cell
    BY <1>1, LenProperties
<1>3. CellsOf(row, b) \subseteq Nat /\ CellsOf(row, b) # {}
    BY <1>2 DEF CellsOf, ReadSlots
<1>4. n \in CellsOf(row, b) /\ \A m \in CellsOf(row, b) : n <= m
  <2>1. \E k \in CellsOf(row, b) : \A m \in CellsOf(row, b) : k <= m
      BY <1>3, LeastPosition
  <2> QED BY <2>1 DEF FirstCell
<1> HIDE DEF n
<1>5. n \in DOMAIN row /\ n \in Nat /\ row[n].slot = b /\ Usable(row[n]) /\ row[n] \in Cell
    BY <1>2, <1>4 DEF CellsOf
<1>6. row[n] = [slot |-> b, value |-> row[n].value] /\ row[n].value \in Text \cup Number
      /\ (b = QUANTITY \/ row[n].value \in Text)
    BY <1>5 DEF Cell
<1>7. b = QUANTITY => row[n].value \in Number
    BY <1>5 DEF Usable
<1>8. ASSUME NEW l \in 1 .. n - 1, row[l].slot = b
      PROVE  ~Usable(row[l])
  <2>1. l \in DOMAIN row /\ ~(n <= l)
      BY <1>2, <1>5
  <2>2. l \notin CellsOf(row, b)
      BY <1>4, <2>1
  <2> QED BY <1>8, <2>1, <2>2 DEF CellsOf
<1>9. ReadValue(row, b) = row[n].value
    BY DEF ReadValue, n
<1> QED BY <1>5, <1>6, <1>7, <1>8, <1>9 DEF n

\* The fields of a claim are a number and words.
LEMMA FieldsType ==
    ASSUME NEW fields \in Declarations
    PROVE  /\ fields[QUANTITY] \in Number \cup {None}
           /\ \A b \in UsageSlots \ {QUANTITY} : fields[b] \in Text \cup {None}
  BY UtilityAssumption

-----------------------------------------------------------------------------
(***************************************************************************)
(* The four states of a candidate.                                         *)
(***************************************************************************)
Payload(row) == [b \in UsageSlots |-> ReadValue(row, b)]

\* The slots that get a normalized value.
Stated(row) == {b \in Comparable : ReadValue(row, b) # Blank}

\* A candidate with row key j, normalized in N and aligned in A.
Filled(j, row, N, A) ==
    [present |-> UsageSlots, assigned |-> UsageSlots, normalized |-> N, aligned |-> A,
     ambiguous |-> {}, issue |-> {},
     payload |-> Payload(row), refs |-> [b \in UsageSlots |-> {<<j, FirstCell(row, b)>>}],
     normalizedPayload |-> [b \in N |-> NormalizedValue(Payload(row), b)],
     alignment |-> A]

\* The value that is compared with the claim, once all is normalized.
FinalValue(row, b) ==
    IF b \in Comparable THEN NormalizedValue(Payload(row), b) ELSE ReadValue(row, b)

Matching(row, fields) ==
    {b \in UsageSlots : ValuesAlign(FinalValue(row, b), fields[b], b)}

\* Nothing is known, or the whole row is read, then what can be is normalized,
\* then, if all was, what agrees with the claim is aligned.
Progresses(c, j, row, fields) ==
    \/ c = SeededCandidate
    \/ /\ ReadSlots(row) = UsageSlots
       /\ \/ c = Filled(j, row, {}, {})
          \/ c = Filled(j, row, Stated(row), {})
          \/ /\ Stated(row) = Comparable /\ Matching(row, fields) # {}
             /\ c = Filled(j, row, Comparable, Matching(row, fields))

Key(i) == ((i - 1) % NumRows) + 1

Board ==
    /\ rows \in [1 .. NumRows -> Rows] /\ declared \in [Claim -> Declarations]
    /\ candidates = [i \in Candidates |-> candidates[i]]
    /\ \A i \in Candidates : Progresses(candidates[i], Key(i), RowOf(i), FieldsOf(i))

\* Where the normalizer raises, nothing is ever normalized.
Harmless == \A i \in Candidates : Fatal(RowOf(i)) => candidates[i].normalized = {}

\* What the gap of each state asks for.
LEMMA SeededGap ==
    /\ Gap(SeededCandidate).missing = UsageSlots
    /\ ActiveMask(SeededCandidate) = UsageSlots
    /\ SeededCandidate.present = {}
  BY SlotFacts DEF SeededCandidate, Gap, ActiveMask

\* c is known in all slots, normalized in N and aligned in A.
HasGap(c, N, A) ==
    /\ Gap(c).missing = {} /\ Gap(c).unassigned = {}
    /\ Gap(c).unnormalized = Comparable \ N
    /\ Gap(c).unaligned = (N \cup DirectlyComparable) \ A
    /\ ActiveMask(c) = (Comparable \ N) \cup ((N \cup DirectlyComparable) \ A)
    /\ c.present = UsageSlots

\* A filled candidate lacks what is not normalized and not aligned.
LEMMA FilledGap ==
    ASSUME NEW j, NEW row, NEW N \in SUBSET Comparable, NEW A
    PROVE  HasGap(Filled(j, row, N, A), N, A)
<1> DEFINE c == Filled(j, row, N, A)
<1>1. /\ c.present = UsageSlots /\ c.assigned = UsageSlots /\ c.normalized = N
      /\ c.aligned = A /\ c.ambiguous = {} /\ c.issue = {}
    BY DEF Filled
<1> HIDE DEF c
<1>2. /\ Gap(c).missing = {} /\ Gap(c).unassigned = {}
      /\ Gap(c).unnormalized = Comparable \ N
      /\ Gap(c).unaligned = (N \cup DirectlyComparable) \ A
      /\ Gap(c).ambiguous = {}
    BY <1>1, SlotFacts DEF Gap
<1>3. ActiveMask(c) = (Comparable \ N) \cup ((N \cup DirectlyComparable) \ A)
    BY <1>2 DEF ActiveMask
<1>4. HasGap(c, N, A)
    BY <1>1, <1>2, <1>3 DEF HasGap
<1> QED BY <1>4 DEF c

-----------------------------------------------------------------------------
(***************************************************************************)
(* The scheduler's choice.                                                 *)
(***************************************************************************)
LEMMA Builtins ==
    /\ Capabilities = {SlotAssigner, Normalizer, Aligner}
    /\ SlotAssigner.name = "simple_slot_assigner" /\ SlotAssigner.cost = 5
    /\ Normalizer.name = "deterministic_normalizer" /\ Normalizer.cost = 10
    /\ Aligner.name = "simple_aligner" /\ Aligner.cost = 20
    /\ SlotAssigner.priority = 0 /\ Normalizer.priority = 0 /\ Aligner.priority = 0
    /\ SlotAssigner.inputRequired = {} /\ Normalizer.inputRequired = Comparable
    /\ Aligner.inputRequired = UsageSlots
    /\ SlotAssigner.handles = UsageSlots /\ Normalizer.handles = Comparable
    /\ Aligner.handles = UsageSlots
    /\ SlotAssigner.gapKinds = {"missing", "unassigned"}
    /\ Normalizer.gapKinds = {"unnormalized"} /\ Aligner.gapKinds = {"unaligned"}
  BY UtilityAssumption, SlotFacts DEF SlotAssigner, Normalizer, Aligner, BuiltinSpec

\* The cheapest eligible capability is selected.
LEMMA CheapestSelected ==
    ASSUME NEW c, NEW k \in Capabilities, IsEligible(c, k),
           \A l \in Capabilities \ {k} : IsEligible(c, l) => k.cost < l.cost
    PROVE  SelectCapability(c) = k
<1>1. \A l \in Capabilities : l.priority = 0 /\ l.cost \in Nat
    BY Builtins
<1>2. \A l \in Capabilities : SortKey(l)[1] = 0 /\ SortKey(l)[2] = l.cost
    BY <1>1 DEF SortKey
<1>3. \A l \in Capabilities \ {k} : IsEligible(c, l) => Precedes(k, l)
  <2> SUFFICES ASSUME NEW l \in Capabilities \ {k}, IsEligible(c, l)
               PROVE  Precedes(k, l)
      OBVIOUS
  <2>1. /\ 2 \in 1 .. 4 /\ SortKey(k)[2] < SortKey(l)[2]
        /\ \A m \in 1 .. 2 - 1 : SortKey(k)[m] = SortKey(l)[m]
      BY <1>2
  <2> QED BY <2>1 DEF Precedes
<1>4. ASSUME NEW l \in Capabilities, l # k, IsEligible(c, l)
      PROVE  ~Precedes(l, k)
  <2>1. SortKey(l)[1] = 0 /\ SortKey(k)[1] = 0
        /\ SortKey(l)[2] \in Nat /\ SortKey(k)[2] \in Nat /\ SortKey(k)[2] < SortKey(l)[2]
      BY <1>1, <1>2, <1>4
  <2> SUFFICES ASSUME NEW n \in 1 .. 4, SortKey(l)[n] < SortKey(k)[n],
                      \A m \in 1 .. n - 1 : SortKey(l)[m] = SortKey(k)[m]
               PROVE  FALSE
      BY DEF Precedes
  <2>2. n # 1 /\ n # 2
      BY <2>1
  <2>3. 2 \in 1 .. n - 1
      BY <2>2
  <2> QED BY <2>1, <2>3
<1>5. \A l \in Capabilities :
          (IsEligible(c, l) /\ \A m \in Capabilities \ {l} : IsEligible(c, m) => Precedes(l, m))
            => l = k
    BY <1>4
<1> QED BY <1>3, <1>5 DEF SelectCapability

\* Each state of a candidate has its capability.
LEMMA SeededSelects == SelectCapability(SeededCandidate) = SlotAssigner
<1>1. IsEligible(SeededCandidate, SlotAssigner)
    BY Builtins, SeededGap, SlotFacts DEF IsEligible
<1>2. ~IsEligible(SeededCandidate, Normalizer) /\ ~IsEligible(SeededCandidate, Aligner)
    BY Builtins, SeededGap, SlotFacts DEF IsEligible
<1> QED BY <1>1, <1>2, Builtins, CheapestSelected

\* Its gap selects the normalizer until all is normalized, then the aligner.
LEMMA FilledSelects ==
    ASSUME NEW N \in SUBSET Comparable, NEW A, NEW c, HasGap(c, N, A), ActiveMask(c) # {}
    PROVE  SelectCapability(c) = IF N = Comparable THEN Aligner ELSE Normalizer
<1>1. /\ Gap(c).missing = {} /\ Gap(c).unassigned = {} /\ Gap(c).unnormalized = Comparable \ N
      /\ Gap(c).unaligned = (N \cup DirectlyComparable) \ A
      /\ ActiveMask(c) = (Comparable \ N) \cup ((N \cup DirectlyComparable) \ A)
      /\ c.present = UsageSlots
    BY DEF HasGap
<1>2. ~IsEligible(c, SlotAssigner)
    BY <1>1, Builtins DEF IsEligible
<1>3. IsEligible(c, Normalizer) <=> N # Comparable
  <2>1. (Comparable \ N) \cap Comparable # {} <=> N # Comparable
      OBVIOUS
  <2> QED BY <1>1, <2>1, Builtins, SlotFacts DEF IsEligible
<1>4. N = Comparable => IsEligible(c, Aligner)
    BY <1>1, Builtins, SlotFacts DEF IsEligible
<1>5. SelectCapability(c) = IF N = Comparable THEN Aligner ELSE Normalizer
  <2>1. CASE N = Comparable
      BY <1>2, <1>3, <1>4, <2>1, Builtins, CheapestSelected
  <2>2. CASE N # Comparable
      BY <1>2, <1>3, <2>2, Builtins, CheapestSelected
  <2> QED BY <2>1, <2>2
<1> QED BY <1>5

-----------------------------------------------------------------------------
(***************************************************************************)
(* What the patches of the producers make of a candidate.                  *)
(***************************************************************************)

\* A dict merged into an empty one, or into itself.
LEMMA MergeEmpty ==
    ASSUME NEW D, NEW f, f = [b \in D |-> f[b]]
    PROVE  /\ MergeDict(EmptyDict, f) = f /\ MergeDict(f, EmptyDict) = f
           /\ MergeDict(f, f) = f
<1>1. DOMAIN f = D /\ DOMAIN EmptyDict = {}
    BY DEF EmptyDict
<1> QED BY <1>1 DEF MergeDict

\* Merging refs with none changes nothing.
LEMMA MergeRefs ==
    ASSUME NEW D, NEW f, f = [b \in D |-> f[b]]
    PROVE  /\ MergeSourceRefs(EmptyDict, f) = f /\ MergeSourceRefs(f, EmptyDict) = f
<1>1. DOMAIN f = D /\ DOMAIN EmptyDict = {}
    BY DEF EmptyDict
<1> QED BY <1>1 DEF MergeSourceRefs

\* The slots a patch of a producer would touch, and what it would leave.
LEMMA AssignmentEffect ==
    ASSUME NEW i \in Candidates
    PROVE  /\ TouchedMask(Assignment(i)) = ReadSlots(RowOf(i))
           /\ ReadSlots(RowOf(i)) = UsageSlots =>
                 AfterPatch(SeededCandidate, Assignment(i)) = Filled(Key(i), RowOf(i), {}, {})
           /\ ValidPatch(i, SeededCandidate, Assignment(i), SlotAssigner)
                 <=> ReadSlots(RowOf(i)) = UsageSlots
<1> DEFINE p == Assignment(i)
           row == RowOf(i)
           R == ReadSlots(row)
           payload == [b \in R |-> row[FirstCell(row, b)].value]
           refs == [b \in R |-> {<<Key(i), FirstCell(row, b)>>}]
           a == AfterPatch(SeededCandidate, p)
<1>1. p = [candidate |-> i, capability |-> "simple_slot_assigner",
           present |-> R, assigned |-> R, normalized |-> {}, aligned |-> {},
           setAmbiguous |-> {}, clearAmbiguous |-> {}, setIssue |-> {}, clearIssue |-> {},
           payload |-> payload, refs |-> refs, normalizedPayload |-> EmptyDict,
           alignment |-> {}]
  <2>1. p = [EmptyPatch(i, "simple_slot_assigner") EXCEPT
               !.present = R, !.assigned = R, !.payload = payload, !.refs = refs]
      BY DEF Assignment, Key
  <2> HIDE DEF p, payload, refs, R
  <2> QED BY <2>1 DEF EmptyPatch
<1>2. R \subseteq UsageSlots /\ DOMAIN EmptyDict = {}
    BY DEF ReadSlots, EmptyDict
<1>3. /\ MergeDict(EmptyDict, payload) = payload /\ MergeSourceRefs(EmptyDict, refs) = refs
      /\ MergeDict(EmptyDict, EmptyDict) = EmptyDict
  <2>1. payload = [b \in R |-> payload[b]] /\ refs = [b \in R |-> refs[b]]
        /\ EmptyDict = [b \in {} |-> EmptyDict[b]]
      BY DEF EmptyDict
  <2> HIDE DEF payload, refs, R
  <2> QED BY <2>1, MergeEmpty, MergeRefs
<1>4. DOMAIN payload = R /\ DOMAIN refs = R /\ Sourced(refs) = R
  <2>1. \A b \in R : refs[b] # {}
      OBVIOUS
  <2> QED BY <2>1 DEF Sourced
<1>5. R = UsageSlots => payload = Payload(row)
                        /\ refs = [b \in UsageSlots |-> {<<Key(i), FirstCell(row, b)>>}]
    BY DEF Payload, ReadValue
<1>6. [b \in {} |-> NormalizedValue(Payload(row), b)] = EmptyDict
    BY DEF EmptyDict
<1> HIDE DEF p, payload, refs, R, row
<1>7. TouchedMask(p) = R
    BY <1>1, <1>2, <1>4 DEF TouchedMask
<1>8. a = [present |-> R, assigned |-> R, normalized |-> {}, aligned |-> {},
           ambiguous |-> {}, issue |-> {}, payload |-> payload, refs |-> refs,
           normalizedPayload |-> EmptyDict, alignment |-> {}]
    BY <1>1, <1>3 DEF AfterPatch, SeededCandidate
<1>9. R = UsageSlots => a = Filled(Key(i), row, {}, {})
    BY <1>5, <1>6, <1>8 DEF Filled
<1>10. ValidCandidateState(a) <=> R = UsageSlots
  <2>1. CandidateInSchema(a) /\ Lattice(a)
      BY <1>2, <1>4, <1>8, SlotFacts DEF CandidateInSchema, Lattice
  <2>2. ProvenanceComplete(a) <=> R = UsageSlots
      BY <1>2, <1>4, <1>8, SlotFacts DEF ProvenanceComplete
  <2> QED BY <2>1, <2>2 DEF ValidCandidateState
<1>11. /\ p.candidate = i /\ p.capability = SlotAssigner.name
       /\ SlotAssigner.inputRequired \subseteq SeededCandidate.present
       /\ TouchedMask(p) \subseteq SlotAssigner.handles /\ TouchedMask(p) \subseteq Slots
       /\ Permitted(p, SlotAssigner) /\ PayloadSourced(p)
  <2>1. SlotAssigner.mayPresent = UsageSlots /\ SlotAssigner.mayAssigned = UsageSlots
      BY SlotFacts DEF SlotAssigner, BuiltinSpec
  <2>2. Permitted(p, SlotAssigner)
      BY <1>1, <1>2, <1>4, <2>1 DEF Permitted
  <2>3. PayloadSourced(p)
      BY <1>1, <1>4 DEF PayloadSourced
  <2> QED BY <1>1, <1>2, <1>7, <2>2, <2>3, Builtins, SlotFacts
<1>12. ValidPatch(i, SeededCandidate, p, SlotAssigner) <=> R = UsageSlots
    BY <1>10, <1>11 DEF ValidPatch
<1> QED BY <1>7, <1>9, <1>12 DEF p, R, row

\* The quantity of a row that can be read in full gets a normalized value.
LEMMA StatedFacts ==
    ASSUME NEW row \in Rows, ReadSlots(row) = UsageSlots
    PROVE  Stated(row) \subseteq Comparable /\ QUANTITY \in Stated(row)
<1>1. QUANTITY \in ReadSlots(row) /\ QUANTITY \in Comparable
    BY SlotFacts
<1>2. ReadValue(row, QUANTITY) \in Number
    BY <1>1, FirstCellType
<1>3. ReadValue(row, QUANTITY) # Blank
    BY <1>2, UtilityAssumption
<1> QED BY <1>1, <1>3 DEF Stated

\* A patch that touches no sources keeps the candidate's valid ones.
LEMMA FilledIsValid ==
    ASSUME NEW j, NEW row, NEW N \in SUBSET Comparable,
           NEW A \in SUBSET (N \cup DirectlyComparable)
    PROVE  ValidCandidateState(Filled(j, row, N, A))
<1> DEFINE c == Filled(j, row, N, A)
           refs == [b \in UsageSlots |-> {<<j, FirstCell(row, b)>>}]
<1>1. /\ c.present = UsageSlots /\ c.assigned = UsageSlots /\ c.normalized = N
      /\ c.aligned = A /\ c.ambiguous = {} /\ c.issue = {} /\ c.alignment = A
      /\ DOMAIN c.payload = UsageSlots /\ DOMAIN c.normalizedPayload = N
      /\ c.refs = refs
    BY DEF Filled, Payload
<1>2. DOMAIN refs = UsageSlots /\ Sourced(refs) = UsageSlots
  <2>1. \A b \in UsageSlots : refs[b] # {}
      OBVIOUS
  <2> QED BY <2>1 DEF Sourced
<1> HIDE DEF c, refs
<1>3. N \subseteq UsageSlots /\ A \subseteq UsageSlots
    BY SlotFacts
<1>4. CandidateInSchema(c)
    BY <1>1, <1>2, <1>3, SlotFacts DEF CandidateInSchema
<1>5. Lattice(c) /\ ProvenanceComplete(c)
    BY <1>1, <1>2, <1>3, SlotFacts DEF Lattice, ProvenanceComplete
<1>6. ValidCandidateState(c)
    BY <1>4, <1>5 DEF ValidCandidateState
<1> QED BY <1>6 DEF c

\* The patch of the normalizer is valid and normalizes what the row states.
LEMMA NormalizationEffect ==
    ASSUME NEW i \in Candidates, RowOf(i) \in Rows, ReadSlots(RowOf(i)) = UsageSlots,
           NEW N \in {{}, Stated(RowOf(i))},
           candidates[i] = Filled(Key(i), RowOf(i), N, {})
    PROVE  /\ TouchedMask(Normalization(i)) = Stated(RowOf(i))
           /\ AfterPatch(candidates[i], Normalization(i))
                 = Filled(Key(i), RowOf(i), Stated(RowOf(i)), {})
           /\ ValidPatch(i, candidates[i], Normalization(i), Normalizer)
<1> DEFINE p == Normalization(i)
           c == candidates[i]
           row == RowOf(i)
           S == Stated(row)
           payload == Payload(row)
           refs == [b \in UsageSlots |-> {<<Key(i), FirstCell(row, b)>>}]
           normal == [b \in S |-> NormalizedValue(payload, b)]
           before == [b \in N |-> NormalizedValue(payload, b)]
           a == AfterPatch(c, p)
<1>1. c = [present |-> UsageSlots, assigned |-> UsageSlots, normalized |-> N, aligned |-> {},
           ambiguous |-> {}, issue |-> {}, payload |-> payload, refs |-> refs,
           normalizedPayload |-> before, alignment |-> {}]
    BY DEF Filled
<1>2. S \subseteq Comparable /\ QUANTITY \in S /\ Comparable \subseteq UsageSlots
    BY StatedFacts, SlotFacts
<1>3. {b \in c.assigned \cap Comparable : c.payload[b] # Blank} = S
  <2>1. c.assigned = UsageSlots /\ c.payload = payload
      BY <1>1
  <2>2. \A b \in UsageSlots : payload[b] = ReadValue(row, b)
      BY DEF Payload
  <2> HIDE DEF c, payload, row
  <2> QED BY <2>1, <2>2, <1>2 DEF Stated
<1>4. p = [EmptyPatch(i, "deterministic_normalizer") EXCEPT
             !.normalized = S, !.normalizedPayload = normal]
  <2>1. c.payload = payload
      BY <1>1
  <2> DEFINE T == {b \in c.assigned \cap Comparable : c.payload[b] # Blank}
  <2>2. p = [EmptyPatch(i, "deterministic_normalizer") EXCEPT
               !.normalized = T,
               !.normalizedPayload = [b \in T |-> NormalizedValue(c.payload, b)]]
      BY DEF Normalization
  <2> HIDE DEF T, c, p
  <2>3. T = S
      BY <1>3 DEF T
  <2> QED BY <2>1, <2>2, <2>3
<1>5. DOMAIN payload = UsageSlots
    BY DEF Payload
<1>6. N = {} \/ N = S
    OBVIOUS
<1> HIDE DEF p, c, S, row, payload, refs
<1>7. p = [candidate |-> i, capability |-> "deterministic_normalizer",
           present |-> {}, assigned |-> {}, normalized |-> S, aligned |-> {},
           setAmbiguous |-> {}, clearAmbiguous |-> {}, setIssue |-> {}, clearIssue |-> {},
           payload |-> EmptyDict, refs |-> EmptyDict, normalizedPayload |-> normal,
           alignment |-> {}]
    BY <1>4 DEF EmptyPatch
<1>8. /\ MergeDict(payload, EmptyDict) = payload /\ MergeSourceRefs(refs, EmptyDict) = refs
      /\ MergeDict(before, normal) = normal
  <2>1. payload = [b \in UsageSlots |-> payload[b]]
      BY DEF payload, Payload
  <2>2. refs = [b \in UsageSlots |-> refs[b]]
      BY DEF refs
  <2>3. normal = [b \in S |-> normal[b]]
      OBVIOUS
  <2>4. before = EmptyDict \/ before = normal
      BY <1>6 DEF EmptyDict
  <2> HIDE DEF normal, before
  <2>5. MergeDict(payload, EmptyDict) = payload
      BY <2>1, MergeEmpty
  <2>6. MergeSourceRefs(refs, EmptyDict) = refs
      BY <2>2, MergeRefs
  <2>7. MergeDict(EmptyDict, normal) = normal /\ MergeDict(normal, normal) = normal
      BY <2>3, MergeEmpty
  <2> QED BY <2>4, <2>5, <2>6, <2>7
<1>9. DOMAIN normal = S /\ DOMAIN EmptyDict = {}
    BY DEF EmptyDict
<1> HIDE DEF normal, before
<1>10. TouchedMask(p) = S
    BY <1>7, <1>9 DEF TouchedMask
<1>11. a = [present |-> UsageSlots, assigned |-> UsageSlots, normalized |-> S, aligned |-> {},
            ambiguous |-> {}, issue |-> {}, payload |-> payload, refs |-> refs,
            normalizedPayload |-> normal, alignment |-> {}]
  <2>1. N \cup S = S
      BY <1>6
  <2> QED BY <1>1, <1>7, <1>8, <2>1 DEF AfterPatch
<1>12. a = Filled(Key(i), row, S, {})
    BY <1>11 DEF Filled, normal, payload, refs
<1>13. ValidCandidateState(a)
  <2>1. S \in SUBSET Comparable /\ {} \in SUBSET (S \cup DirectlyComparable)
      BY <1>2
  <2> QED BY <1>12, <2>1, FilledIsValid
<1>14. ValidPatch(i, c, p, Normalizer)
  <2>1. Normalizer.mayNormalized = Comparable
      BY DEF Normalizer, BuiltinSpec
  <2>2. Permitted(p, Normalizer)
      BY <1>7, <1>9, <1>2, <2>1 DEF Permitted
  <2>3. PayloadSourced(p)
      BY <1>7, <1>9 DEF PayloadSourced
  <2>4. /\ p.candidate = i /\ p.capability = Normalizer.name
        /\ Normalizer.inputRequired \subseteq c.present
        /\ TouchedMask(p) \subseteq Normalizer.handles /\ TouchedMask(p) \subseteq Slots
      BY <1>1, <1>2, <1>7, <1>10, Builtins, SlotFacts
  <2> QED BY <1>13, <2>2, <2>3, <2>4 DEF ValidPatch
<1> QED BY <1>10, <1>12, <1>14 DEF p, c, S, row

\* The aligner compares the final values of the row with the claim's.
LEMMA ComparedValues ==
    ASSUME NEW j, NEW row, NEW A, NEW b \in UsageSlots
    PROVE  CandidateValue(Filled(j, row, Comparable, A), b) = FinalValue(row, b)
<1> DEFINE c == Filled(j, row, Comparable, A)
           normal == [d \in Comparable |-> NormalizedValue(Payload(row), d)]
           payload == Payload(row)
<1>1. c.normalizedPayload = normal /\ c.payload = payload
    BY DEF Filled
<1>2. DOMAIN normal = Comparable /\ DOMAIN payload = UsageSlots
      /\ payload[b] = ReadValue(row, b)
      /\ (b \in Comparable => normal[b] = NormalizedValue(Payload(row), b))
    BY DEF Payload
<1> HIDE DEF c, normal, payload
<1>3. CandidateValue(c, b) = FinalValue(row, b)
    BY <1>1, <1>2 DEF CandidateValue, FinalValue
<1> QED BY <1>3 DEF c

\* The patch of the aligner is valid and aligns what matches.
LEMMA AlignmentEffect ==
    ASSUME NEW i \in Candidates, ReadSlots(RowOf(i)) = UsageSlots,
           NEW A \in {{}, Matching(RowOf(i), FieldsOf(i))},
           candidates[i] = Filled(Key(i), RowOf(i), Comparable, A)
    PROVE  /\ TouchedMask(Alignment(i)) = Matching(RowOf(i), FieldsOf(i))
           /\ AfterPatch(candidates[i], Alignment(i))
                 = Filled(Key(i), RowOf(i), Comparable, Matching(RowOf(i), FieldsOf(i)))
           /\ ValidPatch(i, candidates[i], Alignment(i), Aligner)
<1> DEFINE p == Alignment(i)
           c == candidates[i]
           row == RowOf(i)
           fields == FieldsOf(i)
           M == Matching(row, fields)
           payload == Payload(row)
           refs == [b \in UsageSlots |-> {<<Key(i), FirstCell(row, b)>>}]
           normal == [b \in Comparable |-> NormalizedValue(payload, b)]
           a == AfterPatch(c, p)
<1>1. c = [present |-> UsageSlots, assigned |-> UsageSlots, normalized |-> Comparable,
           aligned |-> A, ambiguous |-> {}, issue |-> {}, payload |-> payload, refs |-> refs,
           normalizedPayload |-> normal, alignment |-> A]
    BY DEF Filled
<1>2. {b \in c.assigned : ValuesAlign(CandidateValue(c, b), fields[b], b)} = M
  <2>1. c.assigned = UsageSlots
      BY <1>1
  <2>2. \A b \in UsageSlots : CandidateValue(c, b) = FinalValue(row, b)
    <3>1. c = Filled(Key(i), row, Comparable, A)
        OBVIOUS
    <3> HIDE DEF c, row
    <3> QED BY <3>1, ComparedValues
  <2> HIDE DEF c, row, fields
  <2> QED BY <2>1, <2>2 DEF Matching
<1>3. p = [EmptyPatch(i, "simple_aligner") EXCEPT !.aligned = M, !.alignment = M]
  <2> DEFINE T == {b \in c.assigned : ValuesAlign(CandidateValue(c, b), fields[b], b)}
  <2>1. p = [EmptyPatch(i, "simple_aligner") EXCEPT !.aligned = T, !.alignment = T]
      BY DEF Alignment
  <2> HIDE DEF T, p
  <2>2. T = M
      BY <1>2 DEF T
  <2> QED BY <2>1, <2>2
<1>4. A = {} \/ A = M
    OBVIOUS
<1>5. M \subseteq UsageSlots /\ Comparable \cup DirectlyComparable = UsageSlots
    BY SlotFacts DEF Matching
<1> HIDE DEF p, c, row, fields, M, payload, refs
<1>6. p = [candidate |-> i, capability |-> "simple_aligner",
           present |-> {}, assigned |-> {}, normalized |-> {}, aligned |-> M,
           setAmbiguous |-> {}, clearAmbiguous |-> {}, setIssue |-> {}, clearIssue |-> {},
           payload |-> EmptyDict, refs |-> EmptyDict, normalizedPayload |-> EmptyDict,
           alignment |-> M]
    BY <1>3 DEF EmptyPatch
<1>7. /\ MergeDict(payload, EmptyDict) = payload /\ MergeSourceRefs(refs, EmptyDict) = refs
      /\ MergeDict(normal, EmptyDict) = normal
  <2>1. payload = [b \in UsageSlots |-> payload[b]]
      BY DEF payload, Payload
  <2>2. refs = [b \in UsageSlots |-> refs[b]]
      BY DEF refs
  <2>3. normal = [b \in Comparable |-> normal[b]]
      OBVIOUS
  <2> HIDE DEF normal
  <2>5. MergeDict(payload, EmptyDict) = payload
      BY <2>1, MergeEmpty
  <2>6. MergeSourceRefs(refs, EmptyDict) = refs
      BY <2>2, MergeRefs
  <2>7. MergeDict(normal, EmptyDict) = normal
      BY <2>3, MergeEmpty
  <2> QED BY <2>5, <2>6, <2>7
<1>8. DOMAIN EmptyDict = {}
    BY DEF EmptyDict
<1> HIDE DEF normal
<1>9. TouchedMask(p) = M
    BY <1>6, <1>8 DEF TouchedMask
<1>10. a = [present |-> UsageSlots, assigned |-> UsageSlots, normalized |-> Comparable,
            aligned |-> M, ambiguous |-> {}, issue |-> {}, payload |-> payload,
            refs |-> refs, normalizedPayload |-> normal, alignment |-> M]
  <2>1. A \cup M = M
      BY <1>4
  <2> QED BY <1>1, <1>6, <1>7, <2>1 DEF AfterPatch
<1>11. a = Filled(Key(i), row, Comparable, M)
    BY <1>10 DEF Filled, normal, payload, refs
<1>12. ValidCandidateState(a)
    BY <1>11, <1>5, FilledIsValid
<1>13. ValidPatch(i, c, p, Aligner)
  <2>1. Aligner.mayAligned = UsageSlots
      BY SlotFacts DEF Aligner, BuiltinSpec
  <2>2. Permitted(p, Aligner)
      BY <1>5, <1>6, <1>8, <2>1 DEF Permitted
  <2>3. PayloadSourced(p)
      BY <1>6, <1>8 DEF PayloadSourced
  <2>4. /\ p.candidate = i /\ p.capability = Aligner.name
        /\ Aligner.inputRequired \subseteq c.present
        /\ TouchedMask(p) \subseteq Aligner.handles /\ TouchedMask(p) \subseteq Slots
      BY <1>1, <1>5, <1>6, <1>9, Builtins, SlotFacts
  <2> QED BY <1>12, <2>2, <2>3, <2>4 DEF ValidPatch
<1> QED BY <1>9, <1>11, <1>13 DEF p, c, M, row, fields

-----------------------------------------------------------------------------
(***************************************************************************)
(* What an iteration does to its candidate.                                *)
(***************************************************************************)

\* One step of a candidate: the row is read, or normalized, or compared.  A
\* row with a blank is normalized again and again, and a row that agrees with
\* its claim in part is compared again and again.
Advances(c, d, j, row, fields) ==
    /\ ReadSlots(row) = UsageSlots
    /\ \/ c = SeededCandidate /\ d = Filled(j, row, {}, {})
       \/ c = Filled(j, row, {}, {}) /\ d = Filled(j, row, Stated(row), {})
       \/ /\ Stated(row) # Comparable
          /\ c = Filled(j, row, Stated(row), {}) /\ d = c
       \/ /\ Stated(row) = Comparable /\ Matching(row, fields) # {}
          /\ c = Filled(j, row, Comparable, {})
          /\ d = Filled(j, row, Comparable, Matching(row, fields))
       \/ /\ Stated(row) = Comparable /\ Matching(row, fields) \notin {{}, UsageSlots}
          /\ c = Filled(j, row, Comparable, Matching(row, fields)) /\ d = c

\* The patch is empty or invalid: the row lacks a slot, or agrees in nothing.
Refused(c, j, row, fields) ==
    \/ c = SeededCandidate /\ ReadSlots(row) # UsageSlots
    \/ /\ ReadSlots(row) = UsageSlots
       /\ Stated(row) = Comparable /\ Matching(row, fields) = {}
       /\ c = Filled(j, row, Comparable, {})

LEMMA KeyInRange == \A i \in Candidates : Key(i) \in 1 .. NumRows
<1>1. NumRows \in Nat /\ NumRows > 0
    BY UtilityAssumption
<1>2. \A i \in Candidates : i - 1 \in Int
    BY LoopAssumption DEF Candidates
<1>3. \A n \in Int : n % NumRows \in 0 .. NumRows - 1
    BY <1>1, Z3
<1> QED BY <1>1, <1>2, <1>3 DEF Key

\* Each candidate progresses with its row and its claim.
LEMMA BoardFacts ==
    ASSUME Board, NEW i \in Candidates
    PROVE  /\ RowOf(i) \in Rows /\ FieldsOf(i) \in Declarations
           /\ Progresses(candidates[i], Key(i), RowOf(i), FieldsOf(i))
<1>1. RowOf(i) = rows[Key(i)]
    BY DEF RowOf, Key
<1>2. RowOf(i) \in Rows
    BY <1>1, KeyInRange DEF Board
<1>3. FieldsOf(i) \in Declarations
    BY LoopAssumption DEF Board, FieldsOf
<1> QED BY <1>2, <1>3 DEF Board

\* A step of the loop with patch p, valid or not.
Outcome(i, p, k) ==
    \/ /\ TouchedMask(p) = {} \/ ~ValidPatch(i, candidates[i], p, k)
       /\ phase' = "stopped" /\ stopReason' \in {"no_progress", "patch_rejected"}
       /\ UNCHANGED <<candidates, step, report>>
    \/ /\ TouchedMask(p) # {} /\ ValidPatch(i, candidates[i], p, k)
       /\ candidates' = [candidates EXCEPT ![i] = AfterPatch(candidates[i], p)]
       /\ step' = step + 1 /\ UNCHANGED <<phase, stopReason, report>>

\* A proposed patch is empty, invalid or applied.
LEMMA HandledOutcome ==
    ASSUME NEW i, NEW k, NEW p, HandlePatch(i, k, p)
    PROVE  Outcome(i, p, k)
<1>1. CASE StopNoProgress(i, k, p)
    BY <1>1 DEF StopNoProgress, Stop, Outcome
<1>2. CASE RejectPatch(i, k, p)
    BY <1>2 DEF RejectPatch, Stop, Outcome
<1>3. CASE ApplyPatch(i, k, p)
    BY <1>3 DEF ApplyPatch, Outcome
<1> QED BY <1>1, <1>2, <1>3 DEF HandlePatch

Proposals ==
    /\ \A i : Propose(i, SlotAssigner) = Assignment(i)
    /\ \A i : Propose(i, Normalizer) = Normalization(i)
    /\ \A i : Propose(i, Aligner) = Alignment(i)

LEMMA ProposedBy == Proposals
<1>1. /\ "simple_slot_assigner" # "deterministic_normalizer"
      /\ "simple_slot_assigner" # "simple_aligner"
      /\ "deterministic_normalizer" # "simple_aligner"
    OBVIOUS
<1>2. \A i : Propose(i, SlotAssigner) = Assignment(i)
    BY <1>1, Builtins DEF Propose
<1>3. \A i : Propose(i, Normalizer) = Normalization(i)
    BY <1>1, Builtins DEF Propose
<1>4. \A i : Propose(i, Aligner) = Alignment(i)
    BY <1>1, Builtins DEF Propose
<1> QED BY <1>2, <1>3, <1>4 DEF Proposals

\* What an iteration with candidate i does.
Iterated(i) ==
    \/ /\ Refused(candidates[i], Key(i), RowOf(i), FieldsOf(i))
       /\ phase' = "stopped" /\ stopReason' \in {"no_progress", "patch_rejected"}
       /\ UNCHANGED <<candidates, step, report>>
    \/ /\ \E d : /\ Advances(candidates[i], d, Key(i), RowOf(i), FieldsOf(i))
                 /\ candidates' = [candidates EXCEPT ![i] = d]
       /\ Fatal(RowOf(i)) => candidates[i] = SeededCandidate
       /\ step' = step + 1 /\ UNCHANGED <<phase, stopReason, report>>

\* The normalizer raises on the row of candidate i.
Lost(i) ==
    /\ Fatal(RowOf(i))
    /\ phase' = "raised" /\ UNCHANGED <<candidates, step, stopReason, report>>

\* It raises exactly on what was read of a fatal row.
LEMMA RaisesOnFatal ==
    ASSUME Board, NEW i \in Candidates
    PROVE  /\ \A k : NormalizerRaises(i, k) => Fatal(RowOf(i))
           /\ Fatal(RowOf(i)) /\ candidates[i] # SeededCandidate
                 => NormalizerRaises(i, Normalizer)
<1> DEFINE c == candidates[i]
           row == RowOf(i)
<1>1. Progresses(c, Key(i), row, FieldsOf(i))
    BY DEF Board
<1>2. c = SeededCandidate => DOMAIN c.payload = {}
    BY DEF SeededCandidate, EmptyDict
<1>3. c # SeededCandidate => ReadSlots(row) = UsageSlots /\ c.payload = Payload(row)
  <2>1. \A N, A : Filled(Key(i), row, N, A).payload = Payload(row)
      BY DEF Filled
  <2> HIDE DEF c, row
  <2> QED BY <1>1, <2>1 DEF Progresses
<1>4. /\ DOMAIN Payload(row) = UsageSlots /\ {QUANTITY, UNIT} \subseteq UsageSlots
      /\ Payload(row)[QUANTITY] = ReadValue(row, QUANTITY)
      /\ Payload(row)[UNIT] = ReadValue(row, UNIT)
    BY SlotFacts DEF Payload
<1>5. Normalizer.name = "deterministic_normalizer"
    BY Builtins
<1> HIDE DEF c, row
<1>6. ASSUME NEW k, NormalizerRaises(i, k)
      PROVE  Fatal(row)
  <2>1. /\ interpreter = "3.11" /\ {QUANTITY, UNIT} \subseteq DOMAIN c.payload
        /\ CompactsInt(c.payload[QUANTITY], c.payload[UNIT])
      BY <1>6 DEF NormalizerRaises, c
  <2> QED BY <1>2, <1>3, <1>4, <2>1 DEF Fatal
<1>7. ASSUME Fatal(row), c # SeededCandidate
      PROVE  NormalizerRaises(i, Normalizer)
  <2>1. CompactsInt(c.payload[QUANTITY], c.payload[UNIT]) /\ interpreter = "3.11"
      BY <1>3, <1>4, <1>7 DEF Fatal
  <2> QED BY <1>3, <1>4, <1>5, <1>7, <2>1 DEF NormalizerRaises, c
<1> QED BY <1>6, <1>7 DEF c, row

\* An iteration advances the candidate, or it is refused.
LEMMA Iteration ==
    ASSUME Board, Harmless, NEW i \in Candidates, ActiveMask(candidates[i]) # {},
           NEW k, k = SelectCapability(candidates[i]), ~NormalizerRaises(i, k),
           HandlePatch(i, k, Propose(i, k))
    PROVE  Iterated(i)
<1> DEFINE c == candidates[i]
           j == Key(i)
           row == RowOf(i)
           fields == FieldsOf(i)
           M == Matching(row, fields)
<1>1. Outcome(i, Propose(i, k), k)
    BY HandledOutcome
<1>2. row \in Rows /\ fields \in Declarations /\ Progresses(c, j, row, fields)
    BY BoardFacts
<1>3. CASE c = SeededCandidate
  <2>1. k = SlotAssigner
      BY <1>3, SeededSelects
  <2>2. Propose(i, k) = Assignment(i)
      BY <2>1, ProposedBy DEF Proposals
  <2>3. /\ TouchedMask(Assignment(i)) = ReadSlots(row)
        /\ ReadSlots(row) = UsageSlots => AfterPatch(c, Assignment(i)) = Filled(j, row, {}, {})
        /\ ValidPatch(i, c, Assignment(i), k) <=> ReadSlots(row) = UsageSlots
      BY <1>3, <2>1, AssignmentEffect
  <2>4. UsageSlots # {}
      BY SlotFacts
  <2>5. CASE ReadSlots(row) = UsageSlots
    <3>1. Advances(c, Filled(j, row, {}, {}), j, row, fields)
        BY <1>3, <2>5 DEF Advances
    <3>3. Fatal(row) => c = SeededCandidate
        BY <1>3
    <3> DEFINE d == Filled(j, row, {}, {})
    <3>2. /\ candidates' = [candidates EXCEPT ![i] = d]
          /\ step' = step + 1 /\ UNCHANGED <<phase, stopReason, report>>
        BY <1>1, <2>2, <2>3, <2>4, <2>5 DEF Outcome
    <3> HIDE DEF d
    <3> QED BY <3>1, <3>2, <3>3 DEF Iterated, d
  <2>6. CASE ReadSlots(row) # UsageSlots
    <3>1. Refused(c, j, row, fields)
        BY <1>3, <2>6 DEF Refused
    <3>2. /\ phase' = "stopped" /\ stopReason' \in {"no_progress", "patch_rejected"}
          /\ UNCHANGED <<candidates, step, report>>
        BY <1>1, <2>2, <2>3, <2>6 DEF Outcome
    <3> QED BY <3>1, <3>2 DEF Iterated
  <2> QED BY <2>5, <2>6
<1>4. ASSUME NEW N \in {{}, Stated(row)}, N # Comparable,
             ReadSlots(row) = UsageSlots, c = Filled(j, row, N, {})
      PROVE  Iterated(i)
  <2> DEFINE d == Filled(j, row, Stated(row), {})
  <2>1. Stated(row) \subseteq Comparable /\ QUANTITY \in Stated(row)
      BY <1>2, <1>4, StatedFacts
  <2>2. N \in SUBSET Comparable
      BY <2>1
  <2>3. HasGap(c, N, {})
      BY <1>4, <2>2, FilledGap
  <2>4. k = Normalizer
      BY <1>4, <2>2, <2>3, FilledSelects
  <2>5. Propose(i, k) = Normalization(i)
      BY <2>4, ProposedBy DEF Proposals
  <2>6. /\ TouchedMask(Normalization(i)) = Stated(row)
        /\ AfterPatch(c, Normalization(i)) = d
        /\ ValidPatch(i, c, Normalization(i), k)
      BY <1>2, <1>4, <2>4, NormalizationEffect
  <2>7. N = {} \/ N = Stated(row)
      OBVIOUS
  <2>8. Advances(c, d, j, row, fields)
      BY <1>4, <2>7 DEF Advances
  <2> HIDE DEF d
  <2>9. /\ candidates' = [candidates EXCEPT ![i] = d]
        /\ step' = step + 1 /\ UNCHANGED <<phase, stopReason, report>>
      BY <1>1, <2>1, <2>5, <2>6 DEF Outcome
  <2>10. Fatal(row) => c = SeededCandidate
      BY <2>4, RaisesOnFatal
  <2> QED BY <2>8, <2>9, <2>10 DEF Iterated
<1>5. Comparable # {}
    BY SlotFacts
<1>6. ASSUME NEW A \in {{}, M}, Stated(row) = Comparable,
             ReadSlots(row) = UsageSlots, c = Filled(j, row, Comparable, A)
      PROVE  Iterated(i)
  <2> DEFINE d == Filled(j, row, Comparable, M)
  <2>1. HasGap(c, Comparable, A)
      BY <1>6, FilledGap
  <2>2. k = Aligner
      BY <2>1, FilledSelects
  <2>3. Propose(i, k) = Alignment(i)
      BY <2>2, ProposedBy DEF Proposals
  <2>4. /\ TouchedMask(Alignment(i)) = M
        /\ AfterPatch(c, Alignment(i)) = d
        /\ ValidPatch(i, c, Alignment(i), k)
      BY <1>6, <2>2, AlignmentEffect
  <2>5. A = {} \/ A = M
      OBVIOUS
  <2>6. M = UsageSlots => A = {}
    <3>1. ActiveMask(c) = UsageSlots \ A
        BY <2>1, SlotFacts DEF HasGap
    <3> QED BY <2>5, <3>1
  <2>7. M # {} => Advances(c, d, j, row, fields)
    <3>1. CASE A = {}
        BY <1>6, <3>1 DEF Advances
    <3>2. CASE A = M /\ M # {}
        BY <1>6, <2>6, <3>2 DEF Advances
    <3> QED BY <2>5, <3>1, <3>2
  <2>8. M = {} => Refused(c, j, row, fields)
      BY <1>6, <2>5 DEF Refused
  <2> HIDE DEF d, M
  <2>9. CASE M # {}
    <3>1. /\ candidates' = [candidates EXCEPT ![i] = d]
          /\ step' = step + 1 /\ UNCHANGED <<phase, stopReason, report>>
        BY <1>1, <2>3, <2>4, <2>9 DEF Outcome
    <3>2. c.normalized = Comparable
        BY <1>6 DEF Filled
    <3>3. ~Fatal(row)
        BY <1>5, <3>2 DEF Harmless
    <3> QED BY <2>7, <2>9, <3>1, <3>3 DEF Iterated
  <2>10. CASE M = {}
    <3>1. /\ phase' = "stopped" /\ stopReason' \in {"no_progress", "patch_rejected"}
          /\ UNCHANGED <<candidates, step, report>>
        BY <1>1, <2>3, <2>4, <2>10 DEF Outcome
    <3> QED BY <2>8, <2>10, <3>1 DEF Iterated
  <2> QED BY <2>9, <2>10
<1>7. CASE c # SeededCandidate
  <2>1. /\ ReadSlots(row) = UsageSlots
        /\ \/ c = Filled(j, row, {}, {})
           \/ c = Filled(j, row, Stated(row), {})
           \/ Stated(row) = Comparable /\ c = Filled(j, row, Comparable, M)
      BY <1>2, <1>7 DEF Progresses
  <2>2. CASE c = Filled(j, row, {}, {})
      BY <1>4, <1>5, <2>1, <2>2
  <2>3. CASE c = Filled(j, row, Stated(row), {}) /\ Stated(row) # Comparable
      BY <1>4, <2>1, <2>3
  <2>4. CASE c = Filled(j, row, Comparable, {}) /\ Stated(row) = Comparable
      BY <1>6, <2>1, <2>4
  <2>5. CASE c = Filled(j, row, Comparable, M) /\ Stated(row) = Comparable
      BY <1>6, <2>1, <2>5
  <2>6. c = Filled(j, row, Stated(row), {}) /\ Stated(row) = Comparable
            => c = Filled(j, row, Comparable, {})
      OBVIOUS
  <2> QED BY <2>1, <2>2, <2>3, <2>4, <2>5, <2>6
<1> QED BY <1>3, <1>7

\* It is the turn of candidate i: the first that is not finished.
Turn(i) ==
    /\ Iterating /\ ActiveMask(candidates[i]) # {}
    /\ \A j \in 1 .. i - 1 : ActiveMask(candidates[j]) = {}

\* Every step of the cycle, with the built-in producers.
UStep ==
    /\ UNCHANGED <<rows, declared, interpreter>>
    /\ \/ UNCHANGED vars
       \/ Control
       \/ \E i \in Candidates : Turn(i) /\ (Iterated(i) \/ Lost(i))

LEMMA StepShape == Board /\ Harmless /\ [UNext]_uvars => UStep
<1> SUFFICES ASSUME Board, Harmless, [UNext]_uvars PROVE UStep
    OBVIOUS
<1>1. CASE UNCHANGED uvars
    BY <1>1 DEF uvars, UStep
<1>2. CASE UNext
  <2>1. UNCHANGED <<rows, declared, interpreter>>
      BY <1>2 DEF UNext
  <2>2. CASE Control \/ Returned
      BY <2>1, <2>2 DEF Returned, UStep
  <2>3. ASSUME NEW i \in Candidates, NEW k \in Capabilities, Working(i, k),
               \/ NormalizerRaises(i, k) /\ ProducerRaises
               \/ /\ ~NormalizerRaises(i, k)
                  /\ \E p \in {Propose(i, k)} : HandlePatch(i, k, p)
        PROVE  UStep
    <3>1. ActiveCandidates # {} /\ i = Current /\ Iterating
          /\ k = SelectCapability(candidates[i])
        BY <2>3 DEF Working
    <3>2. i \in ActiveCandidates /\ \A j \in 1 .. i - 1 : j \notin ActiveCandidates
        BY <3>1, CurrentIsActive
    <3>3. Candidates = 1 .. NumCandidates /\ NumCandidates \in Nat
        BY LoopAssumption DEF Candidates
    <3>4. \A j \in 1 .. i - 1 : j \in Candidates
        BY <3>3
    <3>5. Turn(i)
        BY <3>1, <3>2, <3>4 DEF Turn, ActiveCandidates
    <3>6. CASE NormalizerRaises(i, k) /\ ProducerRaises
      <4>1. Lost(i)
          BY <3>6, RaisesOnFatal DEF Lost, ProducerRaises
      <4> QED BY <2>1, <3>5, <4>1 DEF UStep
    <3>7. CASE ~NormalizerRaises(i, k) /\ HandlePatch(i, k, Propose(i, k))
      <4>1. Iterated(i)
          BY <3>1, <3>5, <3>7, Iteration DEF Turn
      <4> QED BY <2>1, <3>5, <4>1 DEF UStep
    <3> QED BY <2>3, <3>6, <3>7
  <2> QED BY <1>2, <2>2, <2>3 DEF UNext
<1> QED BY <1>1, <1>2

\* Steps of control leave the board alone.
LEMMA ControlKeepsBoard ==
    ASSUME Control
    PROVE  UNCHANGED <<candidates, step>>
  BY DEF Control, StopConverged, StopNoEligible, StopExhausted, Finalize, Stop

\* An advance is progress.
LEMMA AdvanceProgresses ==
    ASSUME NEW c, NEW d, NEW j, NEW row, NEW fields, Advances(c, d, j, row, fields)
    PROVE  Progresses(d, j, row, fields)
<1>1. ReadSlots(row) = UsageSlots
    BY DEF Advances
<1>2. \/ d = Filled(j, row, {}, {})
      \/ d = Filled(j, row, Stated(row), {})
      \/ /\ Stated(row) = Comparable /\ Matching(row, fields) # {}
         /\ d = Filled(j, row, Comparable, Matching(row, fields))
    BY DEF Advances
<1> QED BY <1>1, <1>2 DEF Progresses

LEMMA BoardInit == UInit => Board
<1> SUFFICES ASSUME UInit PROVE Board
    OBVIOUS
<1>1. candidates = [i \in Candidates |-> SeededCandidate]
      /\ rows \in [1 .. NumRows -> Rows] /\ declared \in [Claim -> Declarations]
    BY DEF UInit, Init
<1>2. candidates = [i \in Candidates |-> candidates[i]]
    BY <1>1
<1>3. \A i \in Candidates : candidates[i] = SeededCandidate
    BY <1>1
<1>4. \A i \in Candidates : Progresses(candidates[i], Key(i), RowOf(i), FieldsOf(i))
    BY <1>3 DEF Progresses
<1> QED BY <1>1, <1>2, <1>4 DEF Board

LEMMA BoardStep == Board /\ UStep => Board'
<1> SUFFICES ASSUME Board, UStep PROVE Board'
    OBVIOUS
<1>1. rows' = rows /\ declared' = declared /\ interpreter' = interpreter
    BY DEF UStep
<1>2. \A i : RowOf(i)' = RowOf(i) /\ FieldsOf(i)' = FieldsOf(i)
    BY <1>1 DEF RowOf, FieldsOf
<1>3. CASE UNCHANGED candidates
    BY <1>1, <1>2, <1>3 DEF Board
<1>4. ASSUME NEW i \in Candidates, Iterated(i)
      PROVE  Board'
  <2>1. CASE UNCHANGED candidates
      BY <1>3, <2>1
  <2>2. CASE \E d : /\ Advances(candidates[i], d, Key(i), RowOf(i), FieldsOf(i))
                    /\ candidates' = [candidates EXCEPT ![i] = d]
    <3>1. PICK d : /\ Advances(candidates[i], d, Key(i), RowOf(i), FieldsOf(i))
                   /\ candidates' = [candidates EXCEPT ![i] = d]
        BY <2>2
    <3>2. candidates = [l \in Candidates |-> candidates[l]]
        BY DEF Board
    <3>3. /\ candidates' = [l \in Candidates |-> candidates'[l]]
          /\ \A l \in Candidates : candidates'[l] = IF l = i THEN d ELSE candidates[l]
        BY <3>1, <3>2
    <3>4. Progresses(d, Key(i), RowOf(i), FieldsOf(i))
        BY <3>1, AdvanceProgresses
    <3>5. \A l \in Candidates : Progresses(candidates'[l], Key(l), RowOf(l), FieldsOf(l))
        BY <3>3, <3>4 DEF Board
    <3>6. \A l \in Candidates :
              Progresses(candidates'[l], Key(l), RowOf(l)', FieldsOf(l)')
        BY <1>2, <3>5
    <3>7. rows' \in [1 .. NumRows -> Rows] /\ declared' \in [Claim -> Declarations]
        BY <1>1 DEF Board
    <3> QED BY <3>3, <3>6, <3>7 DEF Board
  <2> QED BY <1>4, <2>1, <2>2 DEF Iterated
<1>5. ASSUME NEW i \in Candidates, Lost(i)
      PROVE  Board'
    BY <1>3, <1>5 DEF Lost
<1> QED BY <1>3, <1>4, <1>5, ControlKeepsBoard DEF UStep, vars

LEMMA HarmlessInit == UInit => Harmless
  BY DEF UInit, Init, Harmless, SeededCandidate

\* Only the row of a seeded candidate is read on where it is fatal.
LEMMA HarmlessStep == Board /\ Harmless /\ UStep => Harmless'
<1> SUFFICES ASSUME Board, Harmless, UStep PROVE Harmless'
    OBVIOUS
<1>1. \A i : Fatal(RowOf(i))' <=> Fatal(RowOf(i))
    BY DEF UStep, RowOf, Fatal
<1>2. CASE UNCHANGED candidates
    BY <1>1, <1>2 DEF Harmless
<1>3. ASSUME NEW i \in Candidates, NEW d,
             Advances(candidates[i], d, Key(i), RowOf(i), FieldsOf(i)),
             Fatal(RowOf(i)) => candidates[i] = SeededCandidate,
             candidates' = [candidates EXCEPT ![i] = d]
      PROVE  Harmless'
  <2>1. candidates = [l \in Candidates |-> candidates[l]]
      BY DEF Board
  <2>2. \A l \in Candidates : candidates'[l] = IF l = i THEN d ELSE candidates[l]
      BY <1>3, <2>1
  <2>3. ASSUME Fatal(RowOf(i))
        PROVE  d.normalized = {}
    <3>1. SeededCandidate.present = {} /\ UsageSlots # {}
          /\ \A N, A : Filled(Key(i), RowOf(i), N, A).present = UsageSlots
        BY SlotFacts DEF SeededCandidate, Filled
    <3>2. d = Filled(Key(i), RowOf(i), {}, {})
        BY <1>3, <2>3, <3>1 DEF Advances
    <3> QED BY <3>2 DEF Filled
  <2>4. \A l \in Candidates : Fatal(RowOf(l)) => candidates'[l].normalized = {}
      BY <2>2, <2>3 DEF Harmless
  <2> QED BY <1>1, <2>4 DEF Harmless
<1>4. ASSUME NEW i \in Candidates, Iterated(i) \/ Lost(i)
      PROVE  Harmless'
    BY <1>2, <1>3, <1>4 DEF Iterated, Lost
<1> QED BY <1>2, <1>4, ControlKeepsBoard DEF UStep, vars

\* A candidate is finished exactly when its row was compared with its claim
\* and agreed in every slot.
FullMatch(row, fields) ==
    /\ ReadSlots(row) = UsageSlots
    /\ Stated(row) = Comparable /\ Matching(row, fields) = UsageSlots

\* A candidate is finished when all slots are aligned, which is when all match.
LEMMA FinishedIsMatch ==
    ASSUME NEW c, NEW j, NEW row, NEW fields, Progresses(c, j, row, fields)
    PROVE  /\ ActiveMask(c) = {} <=> c.aligned = UsageSlots
           /\ c.aligned = UsageSlots <=> /\ FullMatch(row, fields)
                                         /\ c = Filled(j, row, Comparable, UsageSlots)
           /\ c.aligned \subseteq UsageSlots
<1> DEFINE M == Matching(row, fields)
<1>1. UsageSlots # {} /\ Comparable # {} /\ Comparable \cup DirectlyComparable = UsageSlots
      /\ DirectlyComparable # {}
    BY SlotFacts
<1>2. CASE c = SeededCandidate
  <2>1. c.aligned = {}
      BY <1>2 DEF SeededCandidate
  <2>2. ActiveMask(c) = UsageSlots
      BY <1>2, SeededGap
  <2>3. c # Filled(j, row, Comparable, UsageSlots)
      BY <1>1, <2>1 DEF Filled
  <2> QED BY <1>1, <2>1, <2>2, <2>3
<1>3. ASSUME NEW N \in SUBSET Comparable, NEW A \in SUBSET UsageSlots,
             c = Filled(j, row, N, A),
             A = {} \/ (ReadSlots(row) = UsageSlots /\ N = Comparable
                          /\ Stated(row) = Comparable /\ A = M)
      PROVE  /\ ActiveMask(c) = {} <=> c.aligned = UsageSlots
             /\ c.aligned = UsageSlots <=> /\ FullMatch(row, fields)
                                           /\ c = Filled(j, row, Comparable, UsageSlots)
             /\ c.aligned \subseteq UsageSlots
  <2>1. c.aligned = A
      BY <1>3 DEF Filled
  <2>2. HasGap(c, N, A)
      BY <1>3, FilledGap
  <2>3. ActiveMask(c) = (Comparable \ N) \cup ((N \cup DirectlyComparable) \ A)
      BY <2>2 DEF HasGap
  <2>4. CASE A = {}
    <3>1. ActiveMask(c) # {}
        BY <1>1, <2>3, <2>4
    <3>2. c # Filled(j, row, Comparable, UsageSlots)
        BY <1>1, <2>1, <2>4 DEF Filled
    <3> QED BY <1>1, <2>1, <2>4, <3>1, <3>2
  <2>5. CASE A = M /\ ReadSlots(row) = UsageSlots /\ N = Comparable /\ Stated(row) = Comparable
    <3>1. ActiveMask(c) = {} <=> A = UsageSlots
        BY <1>1, <2>3, <2>5
    <3>2. A = UsageSlots => c = Filled(j, row, Comparable, UsageSlots)
        BY <1>3, <2>5
    <3>3. c = Filled(j, row, Comparable, UsageSlots) => c.aligned = UsageSlots
        BY DEF Filled
    <3> QED BY <2>1, <2>5, <3>1, <3>2, <3>3 DEF FullMatch
  <2> QED BY <1>3, <2>4, <2>5
<1>4. CASE c # SeededCandidate
  <2>1. /\ ReadSlots(row) = UsageSlots
        /\ \/ c = Filled(j, row, {}, {})
           \/ c = Filled(j, row, Stated(row), {})
           \/ Stated(row) = Comparable /\ c = Filled(j, row, Comparable, M)
      BY <1>4 DEF Progresses
  <2>2. Stated(row) \in SUBSET Comparable /\ {} \in SUBSET UsageSlots
        /\ {} \in SUBSET Comparable /\ Comparable \in SUBSET Comparable
        /\ M \in SUBSET UsageSlots
      BY DEF Stated, Matching
  <2>3. CASE c = Filled(j, row, {}, {})
      BY <1>3, <2>2, <2>3
  <2>4. CASE c = Filled(j, row, Stated(row), {})
    <3> DEFINE N == Stated(row)
    <3>1. N \in SUBSET Comparable /\ c = Filled(j, row, N, {})
        BY <2>2, <2>4
    <3> HIDE DEF N
    <3> QED BY <1>3, <2>2, <3>1
  <2>5. CASE Stated(row) = Comparable /\ c = Filled(j, row, Comparable, M)
      BY <1>3, <2>1, <2>2, <2>5
  <2> QED BY <2>1, <2>3, <2>4, <2>5
<1> QED BY <1>2, <1>4

-----------------------------------------------------------------------------
(***************************************************************************)
(* To be judged in every slot is to state the claim.                       *)
(***************************************************************************)

\* Multiples of a thousand.
LEMMA Thousands ==
    ASSUME NEW q \in Nat, NEW f \in Nat
    PROVE  /\ q * 1000 = f <=> q * 1000000 = f * 1000
           /\ q = f <=> q * 1000 = f * 1000
           /\ q % 1000 = 0 => (q \div 1000 = f <=> q = f * 1000)
  BY Z3

\* Normalizing to kWh keeps the amount.
LEMMA SameAmount ==
    ASSUME NEW q \in Number, NEW f \in Number, NEW u \in Text,
           EnergyUnit(u), Folded[u] = wh => q % 1000 = 0
    PROVE  NormalizedQuantity(q, u) = f <=> WattHours(q, u) = WattHours(f, kWh)
<1>1. Folded[kWh] = kwh /\ mwh # kwh /\ mwh # wh /\ kwh # wh /\ q \in Nat /\ f \in Nat
    BY UtilityAssumption
<1>2. WattHours(f, kWh) = f * 1000
    BY <1>1 DEF WattHours
<1>3. CASE Folded[u] = mwh
  <2>1. NormalizedQuantity(q, u) = q * 1000 /\ WattHours(q, u) = q * 1000000
      BY <1>1, <1>3 DEF NormalizedQuantity, WattHours
  <2> QED BY <1>1, <1>2, <2>1, Thousands
<1>4. CASE Folded[u] = kwh
  <2>1. NormalizedQuantity(q, u) = q /\ WattHours(q, u) = q * 1000
      BY <1>1, <1>4 DEF NormalizedQuantity, WattHours
  <2> QED BY <1>1, <1>2, <2>1, Thousands
<1>5. CASE Folded[u] = wh
  <2>1. NormalizedQuantity(q, u) = q \div 1000 /\ WattHours(q, u) = q
      BY <1>1, <1>5 DEF NormalizedQuantity, WattHours
  <2>2. q % 1000 = 0
      BY <1>5
  <2> QED BY <1>1, <1>2, <2>1, <2>2, Thousands
<1> QED BY <1>3, <1>4, <1>5 DEF EnergyUnit

\* All slots match when the row states the claim.
LEMMA FullMatchStates ==
    ASSUME NEW row \in Rows, NEW fields \in Declarations
    PROVE  FullMatch(row, fields) <=> States(row, fields)
<1>1. CASE ReadSlots(row) # UsageSlots
    BY <1>1 DEF FullMatch, States
<1>2. CASE ReadSlots(row) = UsageSlots
  <2> DEFINE q == ReadValue(row, QUANTITY)
             u == ReadValue(row, UNIT)
             p == ReadValue(row, PERIOD)
             s == ReadValue(row, SITE)
             a == ReadValue(row, ACTIVITY)
             f == fields[QUANTITY]
             fu == fields[UNIT]
             Agrees(b) == ValuesAlign(FinalValue(row, b), fields[b], b)
  <2>1. q \in Number /\ u \in Text /\ p \in Text /\ s \in Text /\ a \in Text
    <3>1. \A b \in UsageSlots : (b = QUANTITY => ReadValue(row, b) \in Number)
                                 /\ (b # QUANTITY => ReadValue(row, b) \in Text)
        BY <1>2, FirstCellType
    <3> QED BY <3>1, SlotFacts
  <2>2. f \in Number \cup {None} /\ fu \in Text \cup {None}
        /\ fields[PERIOD] \in Text \cup {None}
      BY FieldsType, SlotFacts
  <2>3. None \notin Text /\ None \notin Number /\ kWh \in Text /\ kWh # None
        /\ Folded[kWh] = kwh
    <3>1. Text \subseteq Value /\ kWh \in Text /\ Folded[kWh] = kwh
        BY UtilityAssumption
    <3>2. \A n \in Number : n \in Value
        BY UtilityAssumption
    <3> QED BY <3>1, <3>2, LoopAssumption
  <2>4. Payload(row)[QUANTITY] = q /\ Payload(row)[UNIT] = u /\ Payload(row)[PERIOD] = p
      BY SlotFacts DEF Payload
  <2>5. Agrees(SITE) <=> fields[SITE] # None /\ Folded[s] = Folded[fields[SITE]]
    <3>1. FinalValue(row, SITE) = s
        BY SlotFacts DEF FinalValue
    <3>2. s # None
        BY <2>1, <2>3
    <3> QED BY <3>1, <3>2, SlotFacts DEF ValuesAlign
  <2>6. Agrees(ACTIVITY) <=> fields[ACTIVITY] # None /\ Folded[a] = Folded[fields[ACTIVITY]]
    <3>1. FinalValue(row, ACTIVITY) = a
        BY SlotFacts DEF FinalValue
    <3>2. a # None
        BY <2>1, <2>3
    <3> QED BY <3>1, <3>2, SlotFacts DEF ValuesAlign
  <2>7. Agrees(PERIOD) <=> fields[PERIOD] # None /\ Folded[p] = Folded[fields[PERIOD]]
    <3>1. FinalValue(row, PERIOD) = NormalizedValue(Payload(row), PERIOD)
        BY SlotFacts DEF FinalValue
    <3>2. FinalValue(row, PERIOD) = p
        BY <2>4, <3>1, SlotFacts DEF NormalizedValue
    <3>3. p # None
        BY <2>1, <2>3
    <3> QED BY <3>2, <3>3, SlotFacts DEF ValuesAlign
  <2>8. Agrees(QUANTITY) <=> f # None /\ NormalizedQuantity(q, u) = f
    <3>1. FinalValue(row, QUANTITY) = NormalizedValue(Payload(row), QUANTITY)
        BY SlotFacts DEF FinalValue
    <3>2. FinalValue(row, QUANTITY) = NormalizedQuantity(q, u)
        BY <2>4, <3>1, SlotFacts DEF NormalizedValue
    <3> DEFINE x == NormalizedQuantity(q, u)
    <3>3. x \in {q, q * 1000, q \div 1000}
        BY DEF NormalizedQuantity
    <3>4. x # None
      <4>1. {q, q * 1000, q \div 1000} \subseteq Value
        <5>1. \A n \in Number : {n, n * 1000, n \div 1000} \subseteq Value
            BY UtilityAssumption
        <5> HIDE DEF q
        <5> QED BY <2>1, <5>1
      <4> HIDE DEF x
      <4> QED BY <3>3, <4>1, LoopAssumption
    <3>5. FinalValue(row, QUANTITY) = x
        BY <3>2
    <3> HIDE DEF x
    <3>6. Agrees(QUANTITY) <=> x # None /\ f # None /\ x = f
        BY <3>5 DEF ValuesAlign
    <3>7. Agrees(QUANTITY) <=> f # None /\ x = f
        BY <3>4, <3>6
    <3> QED BY <3>7 DEF x
  <2>9. Agrees(UNIT) <=> fu # None /\ IF EnergyUnit(u) THEN Folded[fu] = kwh
                                                       ELSE Folded[u] = Folded[fu]
    <3>1. FinalValue(row, UNIT) = NormalizedValue(Payload(row), UNIT)
        BY SlotFacts DEF FinalValue
    <3>2. FinalValue(row, UNIT) = IF EnergyUnit(u) THEN kWh ELSE u
        BY <2>4, <3>1, SlotFacts DEF NormalizedValue
    <3>3. u # None
        BY <2>1, <2>3
    <3>4. CASE EnergyUnit(u)
        BY <2>3, <3>2, <3>4, SlotFacts DEF ValuesAlign
    <3>5. CASE ~EnergyUnit(u)
        BY <3>2, <3>3, <3>5, SlotFacts DEF ValuesAlign
    <3> QED BY <3>4, <3>5
  <2>10. EnergyUnit(u) /\ f # None
            => (NormalizedQuantity(q, u) = f <=> WattHours(q, u) = WattHours(f, kWh))
    <3>1. Folded[u] = wh => q % 1000 = 0
      <4>1. QUANTITY \in ReadSlots(row) /\ UNIT \in ReadSlots(row)
          BY <1>2, SlotFacts
      <4> DEFINE m == FirstCell(row, QUANTITY)
                 n == FirstCell(row, UNIT)
      <4>2. /\ m \in DOMAIN row /\ row[m].slot = QUANTITY /\ row[m].value = q
            /\ n \in DOMAIN row /\ row[n].slot = UNIT /\ row[n].value = u
        <5>1. m \in DOMAIN row /\ row[m] = [slot |-> QUANTITY, value |-> q]
            BY <4>1, FirstCellType
        <5>2. n \in DOMAIN row /\ row[n] = [slot |-> UNIT, value |-> u]
            BY <4>1, FirstCellType
        <5> HIDE DEF m, n, q, u
        <5> QED BY <5>1, <5>2
      <4>3. \A k, l \in DOMAIN row :
                (row[k].slot = QUANTITY /\ row[k].value \in Number
                   /\ row[l].slot = UNIT /\ Folded[row[l].value] = wh)
                => row[k].value % 1000 = 0
          BY UtilityAssumption
      <4> HIDE DEF m, n, q, u
      <4> QED BY <2>1, <4>2, <4>3
    <3> HIDE DEF q, u, f
    <3> QED BY <2>1, <2>2, <3>1, SameAmount
  <2>11. ~EnergyUnit(u) => NormalizedQuantity(q, u) = q
      BY DEF NormalizedQuantity, EnergyUnit
  <2>12. Stated(row) = Comparable <=> p # Blank /\ u # Blank
    <3>1. q # Blank
        BY <2>1, UtilityAssumption
    <3>2. Stated(row) = Comparable <=> \A b \in Comparable : ReadValue(row, b) # Blank
        BY DEF Stated
    <3> QED BY <3>1, <3>2, SlotFacts
  <2>13. Matching(row, fields) = UsageSlots
            <=> Agrees(SITE) /\ Agrees(PERIOD) /\ Agrees(ACTIVITY)
                  /\ Agrees(QUANTITY) /\ Agrees(UNIT)
    <3>1. Matching(row, fields) = UsageSlots <=> \A b \in UsageSlots : Agrees(b)
        BY DEF Matching
    <3> HIDE DEF Agrees
    <3> QED BY <3>1, SlotFacts
  <2>14. (\A b \in UsageSlots : fields[b] # None)
            <=> /\ fields[SITE] # None /\ fields[PERIOD] # None /\ fields[ACTIVITY] # None
                /\ f # None /\ fu # None
      BY SlotFacts
  <2>15. (\A b \in {SITE, ACTIVITY, PERIOD} : Folded[ReadValue(row, b)] = Folded[fields[b]])
            <=> /\ Folded[s] = Folded[fields[SITE]] /\ Folded[a] = Folded[fields[ACTIVITY]]
                /\ Folded[p] = Folded[fields[PERIOD]]
      OBVIOUS
  <2> DEFINE Named == /\ fields[SITE] # None /\ Folded[s] = Folded[fields[SITE]]
                      /\ fields[ACTIVITY] # None /\ Folded[a] = Folded[fields[ACTIVITY]]
                      /\ fields[PERIOD] # None /\ Folded[p] = Folded[fields[PERIOD]]
                      /\ p # Blank /\ u # Blank /\ f # None /\ fu # None
             Amounts == IF EnergyUnit(u)
                        THEN Folded[fu] = kwh /\ WattHours(q, u) = WattHours(f, kWh)
                        ELSE Folded[u] = Folded[fu] /\ q = f
             Normal == /\ NormalizedQuantity(q, u) = f
                       /\ IF EnergyUnit(u) THEN Folded[fu] = kwh ELSE Folded[u] = Folded[fu]
  <2>16. States(row, fields) <=> Named /\ Amounts
      BY <1>2, <2>14, <2>15 DEF States
  <2>17. FullMatch(row, fields) <=> Named /\ Normal
    <3>1. FullMatch(row, fields) <=> /\ p # Blank /\ u # Blank
                                  /\ Agrees(SITE) /\ Agrees(PERIOD) /\ Agrees(ACTIVITY)
                                  /\ Agrees(QUANTITY) /\ Agrees(UNIT)
      <4> HIDE DEF Agrees, p, u
      <4> QED BY <1>2, <2>12, <2>13 DEF FullMatch
    <3> HIDE DEF Agrees
    <3> QED BY <2>5, <2>6, <2>7, <2>8, <2>9, <3>1
  <2>18. f # None => (Normal <=> Amounts)
    <3> HIDE DEF q, u, f, fu
    <3>1. CASE EnergyUnit(u)
        BY <2>10, <3>1
    <3>2. CASE ~EnergyUnit(u)
        BY <2>11, <3>2
    <3> QED BY <3>1, <3>2
  <2> HIDE DEF Normal, Amounts
  <2> QED BY <2>16, <2>17, <2>18
<1> QED BY <1>1, <1>2

-----------------------------------------------------------------------------
(***************************************************************************)
(* Candidates are worked on in board order, three steps each.              *)
(***************************************************************************)
Active(i) == ActiveMask(candidates[i]) # {}

\* The row of candidate i states its claim.
Agreed(i) == FullMatch(RowOf(i), FieldsOf(i))

\* How many of its three steps a candidate has had.
Level(c) ==
    IF c.assigned = {} THEN 0
    ELSE IF c.normalized = {} THEN 1
    ELSE IF c.aligned = {} THEN 2
    ELSE 3

\* An advance is one level.
LEMMA AdvanceLevel ==
    ASSUME NEW c, NEW d, NEW j, NEW row \in Rows, NEW fields, Advances(c, d, j, row, fields)
    PROVE  /\ d # SeededCandidate
           /\ FullMatch(row, fields) \/ Level(d) <= 1
                 => Level(c) \in Nat /\ Level(d) = Level(c) + 1
<1> DEFINE M == Matching(row, fields)
<1>1. ReadSlots(row) = UsageSlots
    BY DEF Advances
<1>2. UsageSlots # {} /\ Comparable # {} /\ Stated(row) # {}
    BY <1>1, SlotFacts, StatedFacts
<1>3. SeededCandidate.present = {} /\ Level(SeededCandidate) = 0
    BY DEF SeededCandidate, Level
<1>4. \A N, A : Filled(j, row, N, A).present = UsageSlots
    BY DEF Filled
<1>5. \A N, A : Level(Filled(j, row, N, A)) = IF N = {} THEN 1 ELSE IF A = {} THEN 2 ELSE 3
    BY <1>2 DEF Filled, Level
<1>6. \E N, A : d = Filled(j, row, N, A)
    BY DEF Advances
<1>7. d # SeededCandidate
    BY <1>2, <1>3, <1>4, <1>6
<1>8. ASSUME FullMatch(row, fields)
      PROVE  Level(c) \in Nat /\ Level(d) = Level(c) + 1
  <2>1. Stated(row) = Comparable /\ M = UsageSlots
      BY <1>8 DEF FullMatch
  <2>2. \/ c = SeededCandidate /\ d = Filled(j, row, {}, {})
        \/ c = Filled(j, row, {}, {}) /\ d = Filled(j, row, Stated(row), {})
        \/ c = Filled(j, row, Comparable, {}) /\ d = Filled(j, row, Comparable, M)
      BY <2>1 DEF Advances
  <2>3. CASE c = SeededCandidate /\ d = Filled(j, row, {}, {})
    <3>1. Level(c) = 0 /\ Level(d) = 1
        BY <1>3, <1>5, <2>3
    <3> QED BY <3>1
  <2>4. CASE c = Filled(j, row, {}, {}) /\ d = Filled(j, row, Stated(row), {})
    <3>1. Level(c) = 1 /\ Level(d) = 2
        BY <1>2, <1>5, <2>4
    <3> QED BY <3>1
  <2>5. CASE c = Filled(j, row, Comparable, {}) /\ d = Filled(j, row, Comparable, M)
    <3>1. M # {}
        BY <1>2, <2>1
    <3>2. Level(c) = 2 /\ Level(d) = 3
      <4> HIDE DEF M
      <4> QED BY <1>2, <1>5, <2>5, <3>1
    <3> QED BY <3>2
  <2> QED BY <2>2, <2>3, <2>4, <2>5
<1>9. ASSUME Level(d) <= 1
      PROVE  Level(c) \in Nat /\ Level(d) = Level(c) + 1
  <2>1. \A N, A : Level(Filled(j, row, N, A)) <= 1 => N = {}
      BY <1>5
  <2>2. ASSUME d = Filled(j, row, Stated(row), {}) \/ d = Filled(j, row, Comparable, M)
        PROVE  FALSE
    <3> HIDE DEF M
    <3> QED BY <1>2, <1>9, <2>1, <2>2
  <2>3. c = SeededCandidate /\ d = Filled(j, row, {}, {})
      BY <2>2 DEF Advances
  <2>4. Level(c) = 0 /\ Level(d) = 1
      BY <1>3, <1>5, <2>3
  <2> QED BY <2>4
<1> QED BY <1>7, <1>8, <1>9

\* A candidate whose row states its claim has had all three exactly when it
\* is finished.
LEMMA FinishedLevel ==
    ASSUME NEW c, NEW j, NEW row, NEW fields, Progresses(c, j, row, fields)
    PROVE  /\ Level(c) \in 0 .. 3
           /\ ActiveMask(c) = {} => Level(c) = 3
           /\ ActiveMask(c) # {} /\ FullMatch(row, fields) => Level(c) <= 2
<1> DEFINE M == Matching(row, fields)
<1>1. Level(c) \in 0 .. 3
    BY DEF Level
<1>2. ASSUME ActiveMask(c) = {}
      PROVE  Level(c) = 3
  <2>1. c = Filled(j, row, Comparable, UsageSlots)
      BY <1>2, FinishedIsMatch
  <2>2. c.assigned = UsageSlots /\ c.normalized = Comparable /\ c.aligned = UsageSlots
      BY <2>1 DEF Filled
  <2> QED BY <2>2, SlotFacts DEF Level
<1>3. ASSUME ActiveMask(c) # {}, FullMatch(row, fields)
      PROVE  Level(c) <= 2
  <2>1. c.aligned # UsageSlots
      BY <1>3, FinishedIsMatch
  <2>2. c.aligned = {} \/ c.aligned = M
    <3>1. SeededCandidate.aligned = {} /\ \A N, A : Filled(j, row, N, A).aligned = A
        BY DEF SeededCandidate, Filled
    <3> HIDE DEF M
    <3> QED BY <3>1 DEF Progresses, M
  <2>3. c.aligned = {}
      BY <1>3, <2>1, <2>2 DEF FullMatch
  <2> QED BY <2>3 DEF Level
<1> QED BY <1>1, <1>2, <1>3

\* Nobody is worked on before all earlier candidates are finished.
InOrder ==
    \A i \in Candidates :
        candidates[i] # SeededCandidate => \A j \in 1 .. i - 1 : ~Active(j)

\* The loop has come to candidate i and not further.
Reached(i) ==
    /\ \A j \in 1 .. i - 1 : ~Active(j)
    /\ \A l \in Candidates : l > i => candidates[l] = SeededCandidate

\* It then has spent three steps on each before, and does not repeat itself
\* while it reads candidate i or where the row of i agrees with its claim.
Pace ==
    \A i \in Candidates :
        Reached(i) /\ (Level(candidates[i]) <= 1 \/ Agreed(i))
            => step = 3 * (i - 1) + Level(candidates[i])

\* Why the loop is over: a row was fatal, nobody needs it, the budget is
\* spent, or it came to a candidate whose patch was empty or invalid.
Ending ==
    /\ step \in Nat /\ phase \in {"looping", "raised", "stopped", "finalized"}
    /\ phase = "raised" =>
          \E i \in Candidates : Fatal(RowOf(i)) /\ \A j \in 1 .. i - 1 : ~Active(j)
    /\ \/ phase \in {"looping", "raised"}
       \/ \A i \in Candidates : ~Active(i)
       \/ step = MaxSteps
       \/ \E i \in Candidates : /\ Refused(candidates[i], Key(i), RowOf(i), FieldsOf(i))
                                /\ \A j \in 1 .. i - 1 : ~Active(j)

Turns == Board /\ Harmless /\ InOrder /\ Pace /\ Ending

\* Earlier candidates are candidates.
LEMMA EarlierCandidates ==
    ASSUME NEW i \in Candidates
    PROVE  i \in Nat /\ i >= 1 /\ \A j \in 1 .. i - 1 : j \in Candidates
  BY LoopAssumption DEF Candidates

LEMMA TurnsInit == UInit => Turns
<1> SUFFICES ASSUME UInit PROVE Turns
    OBVIOUS
<1>1. \A i \in Candidates : candidates[i] = SeededCandidate
    BY DEF UInit, Init
<1>2. step = 0 /\ phase = "looping"
    BY DEF UInit, Init
<1>3. \A i \in Candidates : Active(i)
    BY <1>1, SeededGap, SlotFacts DEF Active
<1>4. ASSUME NEW i \in Candidates, Reached(i)
      PROVE  step = 3 * (i - 1) + Level(candidates[i])
  <2>1. i = 1
    <3>1. i # 1 => 1 \in 1 .. i - 1
        BY EarlierCandidates
    <3>2. i # 1 => 1 \in Candidates /\ ~Active(1)
        BY <1>4, <3>1, EarlierCandidates DEF Reached
    <3> QED BY <1>3, <3>2
  <2>2. Level(candidates[i]) = 0
      BY <1>1 DEF SeededCandidate, Level
  <2> QED BY <1>2, <2>1, <2>2
<1>5. Pace
    BY <1>4 DEF Pace
<1> QED BY <1>1, <1>2, <1>5, BoardInit, HarmlessInit DEF InOrder, Ending, Turns

\* With the built-in producers every gap has its capability.
LEMMA SomeoneIsEligible ==
    ASSUME NEW c, NEW j, NEW row, NEW fields, Progresses(c, j, row, fields),
           ActiveMask(c) # {}
    PROVE  Eligible(c) # {}
<1>1. CASE c = SeededCandidate
  <2>1. IsEligible(SeededCandidate, SlotAssigner)
      BY Builtins, SeededGap, SlotFacts DEF IsEligible
  <2> QED BY <1>1, <2>1, Builtins DEF Eligible
<1>2. ASSUME NEW N \in SUBSET Comparable, NEW A, c = Filled(j, row, N, A)
      PROVE  Eligible(c) # {}
  <2>1. HasGap(c, N, A)
      BY <1>2, FilledGap
  <2>2. /\ Gap(c).unnormalized = Comparable \ N
        /\ Gap(c).unaligned = (N \cup DirectlyComparable) \ A
        /\ ActiveMask(c) = (Comparable \ N) \cup ((N \cup DirectlyComparable) \ A)
        /\ c.present = UsageSlots
      BY <2>1 DEF HasGap
  <2>3. Comparable \ N # {} => IsEligible(c, Normalizer)
    <3>1. (Comparable \ N) \cap Comparable = Comparable \ N
        OBVIOUS
    <3> QED BY <2>2, <3>1, Builtins, SlotFacts DEF IsEligible
  <2>4. (N \cup DirectlyComparable) \ A # {} => IsEligible(c, Aligner)
    <3>1. ((N \cup DirectlyComparable) \ A) \cap UsageSlots = (N \cup DirectlyComparable) \ A
        BY SlotFacts
    <3> QED BY <2>2, <3>1, Builtins, SlotFacts DEF IsEligible
  <2> QED BY <2>2, <2>3, <2>4, Builtins DEF Eligible
<1>3. CASE c # SeededCandidate
  <2>1. \/ c = Filled(j, row, {}, {})
        \/ c = Filled(j, row, Stated(row), {})
        \/ c = Filled(j, row, Comparable, Matching(row, fields))
      BY <1>3 DEF Progresses
  <2>2. Stated(row) \in SUBSET Comparable
      BY DEF Stated
  <2>3. \E N \in SUBSET Comparable : \E A : c = Filled(j, row, N, A)
      BY <2>1, <2>2
  <2> QED BY <1>2, <2>3
<1> QED BY <1>1, <1>3

\* Where no candidate changes, only the ending is at stake.
LEMMA TurnsQuiet ==
    ASSUME Turns, UNCHANGED <<candidates, step, rows, declared>>, Ending', Board', Harmless'
    PROVE  Turns'
<1>1. \A i : /\ RowOf(i)' = RowOf(i) /\ FieldsOf(i)' = FieldsOf(i)
             /\ Active(i)' <=> Active(i)
    BY DEF RowOf, FieldsOf, Active
<1>2. \A i : Agreed(i)' <=> Agreed(i)
    BY <1>1 DEF Agreed
<1>3. \A i : Reached(i)' <=> Reached(i)
    BY <1>1 DEF Reached
<1>4. InOrder'
    BY <1>1 DEF Turns, InOrder
<1>5. Pace'
    BY <1>2, <1>3 DEF Turns, Pace
<1> QED BY <1>4, <1>5 DEF Turns

\* The loop ends for one of its reasons.
LEMMA EndingControl ==
    ASSUME Turns, Control, UNCHANGED <<rows, declared>>
    PROVE  Ending'
<1>1. candidates' = candidates /\ step' = step
    BY ControlKeepsBoard
<1>2. \A i : /\ RowOf(i)' = RowOf(i) /\ FieldsOf(i)' = FieldsOf(i)
             /\ Active(i)' <=> Active(i)
    BY <1>1 DEF RowOf, FieldsOf, Active
<1>3. step \in Nat
    BY DEF Turns, Ending
<1>4. CASE StopConverged
  <2>1. phase' = "stopped" /\ \A i \in Candidates : ~Active(i)
      BY <1>4 DEF StopConverged, Stop, ActiveCandidates, Active
  <2> QED BY <1>1, <1>2, <1>3, <2>1 DEF Ending
<1>5. CASE StopNoEligible
  <2>1. ActiveCandidates # {} /\ Eligible(candidates[Current]) = {}
      BY <1>5 DEF StopNoEligible
  <2> DEFINE i == Current
  <2>2. i \in Candidates /\ ActiveMask(candidates[i]) # {} /\ Eligible(candidates[i]) = {}
      BY <2>1, CurrentIsActive DEF ActiveCandidates
  <2> HIDE DEF i
  <2>3. Progresses(candidates[i], Key(i), RowOf(i), FieldsOf(i))
      BY <2>2 DEF Turns, Board
  <2> QED BY <2>2, <2>3, SomeoneIsEligible
<1>6. CASE StopExhausted
  <2>1. phase' = "stopped" /\ step = MaxSteps
      BY <1>6 DEF StopExhausted, Stop
  <2> QED BY <1>1, <1>3, <2>1 DEF Ending
<1>7. CASE Finalize
  <2>1. phase = "stopped" /\ phase' = "finalized"
      BY <1>7 DEF Finalize
  <2>2. \/ \A i \in Candidates : ~Active(i)
        \/ step = MaxSteps
        \/ \E i \in Candidates : /\ Refused(candidates[i], Key(i), RowOf(i), FieldsOf(i))
                                 /\ \A j \in 1 .. i - 1 : ~Active(j)
      BY <2>1 DEF Turns, Ending
  <2>3. \/ \A i \in Candidates : ~Active(i)'
        \/ step' = MaxSteps
        \/ \E i \in Candidates :
              /\ Refused(candidates'[i], Key(i), RowOf(i)', FieldsOf(i)')
              /\ \A j \in 1 .. i - 1 : ~Active(j)'
      BY <1>1, <1>2, <2>2
  <2> QED BY <1>1, <1>3, <2>1, <2>3 DEF Ending
<1> QED BY <1>4, <1>5, <1>6, <1>7 DEF Control

\* A refusal ends the loop at the candidate whose turn it is.
LEMMA TurnsRefused ==
    ASSUME Turns, Board', Harmless', NEW i \in Candidates, Turn(i), UNCHANGED <<rows, declared>>,
           Refused(candidates[i], Key(i), RowOf(i), FieldsOf(i)),
           phase' = "stopped", UNCHANGED <<candidates, step>>
    PROVE  Turns'
<1>1. \A l : /\ RowOf(l)' = RowOf(l) /\ FieldsOf(l)' = FieldsOf(l)
             /\ Active(l)' <=> Active(l)
    BY DEF RowOf, FieldsOf, Active
<1>2. \A j \in 1 .. i - 1 : ~Active(j)
    BY DEF Turn, Active
<1>3. Refused(candidates'[i], Key(i), RowOf(i)', FieldsOf(i)')
    BY <1>1
<1>4. step' \in Nat
    BY DEF Turns, Ending
<1>5. Ending'
    BY <1>1, <1>2, <1>3, <1>4 DEF Ending
<1> QED BY <1>5, TurnsQuiet

\* A step of candidate i keeps the order and the pace.
LEMMA TurnsAdvance ==
    ASSUME Turns, Board', Harmless', NEW i \in Candidates, Turn(i), UNCHANGED <<rows, declared>>,
           NEW d, Advances(candidates[i], d, Key(i), RowOf(i), FieldsOf(i)),
           candidates' = [candidates EXCEPT ![i] = d], step' = step + 1, UNCHANGED phase
    PROVE  Turns'
<1>1. candidates = [l \in Candidates |-> candidates[l]]
    BY DEF Turns, Board
<1>2. \A l \in Candidates : candidates'[l] = IF l = i THEN d ELSE candidates[l]
    BY <1>1
<1>3. \A l : RowOf(l)' = RowOf(l) /\ FieldsOf(l)' = FieldsOf(l)
    BY DEF RowOf, FieldsOf
<1>4. \A l : Agreed(l)' <=> Agreed(l)
    BY <1>3 DEF Agreed
<1>5. \A l \in Candidates : l # i => (Active(l)' <=> Active(l))
    BY <1>2 DEF Active
<1>6. Active(i) /\ \A j \in 1 .. i - 1 : ~Active(j)
    BY DEF Turn, Active
<1>7. RowOf(i) \in Rows /\ Progresses(candidates[i], Key(i), RowOf(i), FieldsOf(i))
    BY BoardFacts DEF Turns
<1>8. /\ d # SeededCandidate
      /\ Agreed(i) \/ Level(d) <= 1
            => Level(candidates[i]) \in Nat /\ Level(d) = Level(candidates[i]) + 1
    BY <1>7, AdvanceLevel DEF Agreed
<1>9. Candidates \subseteq Nat /\ i \in Nat /\ i >= 1
      /\ \A l \in Candidates : l \in Nat /\ l >= 1 /\ \A j \in 1 .. l - 1 : j \in Candidates
    BY EarlierCandidates
\* Nobody after i was worked on yet.
<1>10. \A l \in Candidates : l > i => candidates[l] = SeededCandidate
  <2> SUFFICES ASSUME NEW l \in Candidates, l > i, candidates[l] # SeededCandidate
               PROVE  FALSE
      OBVIOUS
  <2>1. i \in 1 .. l - 1
      BY <1>9
  <2> QED BY <1>6, <2>1 DEF Turns, InOrder
<1>11. Reached(i)
    BY <1>6, <1>10 DEF Reached
<1>12. step \in Nat /\ phase = "looping"
    BY DEF Turns, Ending, Turn, Iterating
<1>13. InOrder'
  <2> SUFFICES ASSUME NEW l \in Candidates, candidates'[l] # SeededCandidate,
                      NEW j \in 1 .. l - 1
               PROVE  ~Active(j)'
      BY DEF InOrder
  <2>1. l <= i
      BY <1>2, <1>9, <1>10
  <2>2. j \in Candidates /\ j # i /\ j \in 1 .. i - 1
      BY <1>9, <2>1
  <2> QED BY <1>5, <1>6, <2>2
<1>14. Pace'
  <2> SUFFICES ASSUME NEW l \in Candidates, Reached(l)',
                      Level(candidates'[l]) <= 1 \/ Agreed(l)
               PROVE  step' = 3 * (l - 1) + Level(candidates'[l])
      BY <1>4 DEF Pace
  <2>1. /\ \A j \in 1 .. l - 1 : ~Active(j)'
        /\ \A m \in Candidates : m > l => candidates'[m] = SeededCandidate
      BY DEF Reached
  <2>2. ~(l < i)
    <3> SUFFICES ASSUME l < i PROVE FALSE
        OBVIOUS
    <3>1. candidates'[i] = SeededCandidate
        BY <2>1
    <3> QED BY <1>2, <1>8, <3>1
  <2>3. CASE l = i
    <3> DEFINE n == Level(candidates[i])
               r == Level(d)
    <3>1. candidates'[i] = d /\ (Agreed(i) \/ r <= 1)
        BY <1>2, <2>3
    <3>2. n \in Nat /\ r = n + 1
        BY <1>8, <3>1
    <3>3. n <= 1 \/ Agreed(i)
      <4> HIDE DEF n, r
      <4> QED BY <3>1, <3>2
    <3>4. step = 3 * (i - 1) + n
        BY <1>11, <3>3 DEF Turns, Pace
    <3>5. step' = 3 * (i - 1) + r
      <4> HIDE DEF n, r
      <4> QED BY <1>9, <1>12, <3>2, <3>4
    <3>6. Level(candidates'[l]) = r
        BY <2>3, <3>1
    <3> QED BY <2>3, <3>1, <3>5
  <2>4. CASE l > i
    <3>1. i \in 1 .. l - 1
        BY <1>9, <2>4
    <3>2. ActiveMask(candidates'[i]) = {}
        BY <2>1, <3>1 DEF Active
    <3>3. ActiveMask(d) = {}
        BY <1>2, <3>2
    <3>4. Progresses(d, Key(i), RowOf(i), FieldsOf(i))
        BY AdvanceProgresses
    <3>5. Level(d) = 3
        BY <3>3, <3>4, FinishedLevel
    <3>6. Agreed(i)
        BY <3>3, <3>4, FinishedIsMatch DEF Agreed
    <3>7. step = 3 * (i - 1) + Level(candidates[i])
        BY <1>11, <3>6 DEF Turns, Pace
    <3> DEFINE n == Level(candidates[i])
    <3>8. n = 2 /\ step = 3 * (i - 1) + n
      <4>1. n \in Nat /\ n + 1 = 3
          BY <1>8, <3>5, <3>6
      <4> HIDE DEF n
      <4> QED BY <3>7, <4>1 DEF n
    <3>9. l = i + 1
      <4> SUFFICES ASSUME l # i + 1 PROVE FALSE
          OBVIOUS
      <4>1. i + 1 \in 1 .. l - 1 /\ i + 1 > i /\ i + 1 # i
          BY <1>9, <2>4
      <4>2. i + 1 \in Candidates
          BY <1>9, <4>1
      <4>3. candidates[i + 1] = SeededCandidate /\ ~Active(i + 1)
          BY <1>5, <1>10, <2>1, <4>1, <4>2
      <4> QED BY <4>3, SeededGap, SlotFacts DEF Active
    <3>10. candidates'[l] = SeededCandidate
        BY <1>2, <1>10, <2>4, <1>9
    <3>11. Level(candidates'[l]) = 0
        BY <3>10 DEF Level, SeededCandidate
    <3>12. step' = 3 * (l - 1)
        BY <1>9, <1>12, <3>8, <3>9
    <3> QED BY <1>9, <3>11, <3>12
  <2> QED BY <1>9, <2>2, <2>3, <2>4
<1>15. Ending'
    BY <1>12 DEF Ending
<1> QED BY <1>13, <1>14, <1>15 DEF Turns

LEMMA TurnsStep == Turns /\ UStep => Turns'
<1> SUFFICES ASSUME Turns, UStep PROVE Turns'
    OBVIOUS
<1>1. Board' /\ Harmless'
    BY BoardStep, HarmlessStep DEF Turns
<1>2. UNCHANGED <<rows, declared, interpreter>>
    BY DEF UStep
<1>3. CASE UNCHANGED vars
  <2>1. UNCHANGED <<candidates, step, phase, rows, declared>>
      BY <1>2, <1>3 DEF vars
  <2>2. Ending'
      BY <1>2, <2>1 DEF Turns, Ending, RowOf, FieldsOf, Active, Fatal
  <2> QED BY <1>1, <2>1, <2>2, TurnsQuiet
<1>4. CASE Control
    BY <1>1, <1>2, <1>4, EndingControl, ControlKeepsBoard, TurnsQuiet
<1>5. ASSUME NEW i \in Candidates, Turn(i), Iterated(i)
      PROVE  Turns'
  <2>1. CASE /\ Refused(candidates[i], Key(i), RowOf(i), FieldsOf(i))
             /\ phase' = "stopped" /\ UNCHANGED <<candidates, step>>
      BY <1>1, <1>2, <1>5, <2>1, TurnsRefused
  <2>2. ASSUME NEW d, Advances(candidates[i], d, Key(i), RowOf(i), FieldsOf(i)),
               candidates' = [candidates EXCEPT ![i] = d],
               step' = step + 1, UNCHANGED phase
        PROVE  Turns'
      BY <1>1, <1>2, <1>5, <2>2, TurnsAdvance
  <2> QED BY <1>5, <2>1, <2>2 DEF Iterated
<1>6. ASSUME NEW i \in Candidates, Turn(i), Lost(i)
      PROVE  Turns'
  <2>1. UNCHANGED <<candidates, step>> /\ phase' = "raised" /\ Fatal(RowOf(i))
      BY <1>6 DEF Lost
  <2>2. \A l : (Active(l)' <=> Active(l)) /\ (Fatal(RowOf(l))' <=> Fatal(RowOf(l)))
      BY <1>2, <2>1 DEF Active, Fatal, RowOf
  <2>3. step \in Nat /\ \A j \in 1 .. i - 1 : ~Active(j)
      BY <1>6 DEF Turns, Ending, Turn, Active
  <2>4. Ending'
      BY <2>1, <2>2, <2>3 DEF Ending
  <2> QED BY <1>1, <1>2, <2>1, <2>4, TurnsQuiet
<1> QED BY <1>3, <1>4, <1>5, <1>6 DEF UStep

-----------------------------------------------------------------------------
(***************************************************************************)
(* The report.                                                             *)
(***************************************************************************)

\* Support is reported at the end, of a supported candidate of the claim.
Reported ==
    /\ phase # "finalized" => report = [m \in Claim |-> NoReport]
    /\ phase = "finalized" =>
          \A m \in Claim :
              report[m].support # 0 => report[m].support \in SupportOf(m)

LEMMA ReportedInit == UInit => Reported
  BY DEF UInit, Init, Reported

LEMMA ReportedStep == Turns /\ Reported /\ UStep => Reported'
<1> SUFFICES ASSUME Turns, Reported, UStep PROVE Reported'
    OBVIOUS
<1>1. CASE UNCHANGED vars
    BY <1>1 DEF vars, Reported, SupportOf
<1>2. CASE Finalize
  <2>1. phase' = "finalized" /\ candidates' = candidates
        /\ report' = [m \in Claim |-> ClaimReport(m, reviewTriggers')]
      BY <1>2 DEF Finalize
  <2>2. ASSUME NEW m \in Claim, report'[m].support # 0
        PROVE  report'[m].support \in SupportOf(m)
    <3>1. report'[m] = ClaimReport(m, reviewTriggers')
        BY <2>1
    <3>2. CASE SupportOf(m) = {}
        BY <2>2, <3>1, <3>2 DEF ClaimReport, UnsupportedReport
    <3>3. CASE SupportOf(m) # {}
      <4>1. report'[m].support = SelectedFor(m)
          BY <3>1, <3>3 DEF ClaimReport, SupportedReport
      <4> QED BY <3>3, <4>1, SelectedIsSupport
    <3> QED BY <3>2, <3>3
  <2>3. \A m : SupportOf(m)' = SupportOf(m)
      BY <2>1 DEF SupportOf
  <2> QED BY <2>1, <2>2, <2>3 DEF Reported
<1>3. CASE StopConverged \/ StopNoEligible \/ StopExhausted
  <2>1. phase = "looping" /\ phase' = "stopped" /\ report' = report
      BY <1>3 DEF StopConverged, StopNoEligible, StopExhausted, Stop, Iterating
  <2> QED BY <2>1 DEF Reported
<1>4. ASSUME NEW i \in Candidates, Turn(i), Iterated(i) \/ Lost(i)
      PROVE  Reported'
  <2>1. phase = "looping" /\ report' = report /\ phase' \in {"looping", "raised", "stopped"}
      BY <1>4 DEF Turn, Iterating, Iterated, Lost
  <2> QED BY <2>1 DEF Reported
<1> QED BY <1>1, <1>2, <1>3, <1>4 DEF UStep, Control

LEMMA TurnsMeanSupport == Turns /\ Reported => SupportIsTrue
<1> SUFFICES ASSUME Turns, Reported, NEW m \in Claim, report[m].support # 0
             PROVE  States(RowOf(report[m].support), declared[m])
    BY DEF SupportIsTrue
<1> DEFINE i == report[m].support
<1>1. phase = "finalized"
    BY DEF Reported, NoReport
<1>2. i \in Candidates /\ ClaimOf[i] = m /\ Required \subseteq candidates[i].aligned
    BY <1>1 DEF Reported, SupportOf, CandidatesOf, Supported
<1> HIDE DEF i
<1>3. RowOf(i) \in Rows /\ FieldsOf(i) \in Declarations
      /\ Progresses(candidates[i], Key(i), RowOf(i), FieldsOf(i))
    BY <1>2, BoardFacts DEF Turns
<1>4. candidates[i].aligned \subseteq UsageSlots
    BY <1>3, FinishedIsMatch
<1>5. candidates[i].aligned = UsageSlots
    BY <1>2, <1>4, SlotFacts
<1>6. FullMatch(RowOf(i), FieldsOf(i))
    BY <1>3, <1>5, FinishedIsMatch
<1>7. States(RowOf(i), FieldsOf(i))
    BY <1>3, <1>6, FullMatchStates
<1> QED BY <1>2, <1>7 DEF FieldsOf, i

LEMMA BoardMeansTraces == Board => EvidenceTraces
<1> SUFFICES ASSUME Board, NEW i \in Candidates
             PROVE  /\ \A b \in DOMAIN candidates[i].payload :
                        \E n \in DOMAIN RowOf(i) :
                          /\ candidates[i].refs[b] = {<<Key(i), n>>}
                          /\ RowOf(i)[n] = [slot |-> b, value |-> candidates[i].payload[b]]
                          /\ \A l \in 1 .. n - 1 :
                                RowOf(i)[l].slot = b => ~Usable(RowOf(i)[l])
                    /\ \A b \in DOMAIN candidates[i].normalizedPayload :
                          candidates[i].normalizedPayload[b]
                            = NormalizedValue(candidates[i].payload, b)
    BY DEF EvidenceTraces, Key
<1> DEFINE c == candidates[i]
           row == RowOf(i)
           refs == [b \in UsageSlots |-> {<<Key(i), FirstCell(row, b)>>}]
<1>1. row \in Rows /\ Progresses(c, Key(i), row, FieldsOf(i))
    BY BoardFacts
<1>2. CASE c = SeededCandidate
  <2>1. DOMAIN c.payload = {} /\ DOMAIN c.normalizedPayload = {}
      BY <1>2 DEF SeededCandidate, EmptyDict
  <2> QED BY <2>1
<1>3. CASE c # SeededCandidate
  <2>1. ReadSlots(row) = UsageSlots /\ \E N, A : c = Filled(Key(i), row, N, A)
      BY <1>1, <1>3 DEF Progresses
  <2>2. PICK N, A : c = Filled(Key(i), row, N, A)
      BY <2>1
  <2> DEFINE normal == [b \in N |-> NormalizedValue(Payload(row), b)]
  <2>3. c.payload = Payload(row) /\ c.refs = refs /\ c.normalizedPayload = normal
      BY <2>2 DEF Filled
  <2> HIDE DEF c, row
  <2>4. ASSUME NEW b \in UsageSlots
        PROVE  \E n \in DOMAIN row :
                   /\ c.refs[b] = {<<Key(i), n>>}
                   /\ row[n] = [slot |-> b, value |-> c.payload[b]]
                   /\ \A l \in 1 .. n - 1 : row[l].slot = b => ~Usable(row[l])
    <3> DEFINE n == FirstCell(row, b)
               v == ReadValue(row, b)
    <3>1. b \in ReadSlots(row)
        BY <2>1
    <3>2. n \in DOMAIN row /\ row[n] = [slot |-> b, value |-> v]
          /\ \A l \in 1 .. n - 1 : row[l].slot = b => ~Usable(row[l])
        BY <1>1, <3>1, FirstCellType
    <3>3. c.payload[b] = v
        BY <2>3 DEF Payload
    <3>4. c.refs[b] = {<<Key(i), n>>}
        BY <2>3
    <3> HIDE DEF n, v
    <3> QED BY <3>2, <3>3, <3>4
  <2>5. DOMAIN c.payload = UsageSlots
      BY <2>3 DEF Payload
  <2>6. \A b \in DOMAIN c.normalizedPayload :
            c.normalizedPayload[b] = NormalizedValue(c.payload, b)
      BY <2>3
  <2> QED BY <2>4, <2>5, <2>6 DEF c, row
<1> QED BY <1>2, <1>3

\* What the runs of the loop have done for the candidates they reach.
JudgedRight(i) ==
    /\ Supported(candidates[i]) <=> States(RowOf(i), FieldsOf(i))
    /\ ~Fatal(RowOf(i))

LEMMA TurnsMeanJudged ==
    ASSUME Turns, phase = "finalized", NEW i \in Candidates, 3 * i <= MaxSteps, SettledBefore(i)
    PROVE  JudgedRight(i)
<1>1. Board
    BY DEF Turns
<1>2. \A l \in Candidates : /\ RowOf(l) \in Rows /\ FieldsOf(l) \in Declarations
                            /\ Progresses(candidates[l], Key(l), RowOf(l), FieldsOf(l))
    BY <1>1, BoardFacts
<1>3. \A l \in Candidates : States(RowOf(l), FieldsOf(l)) <=> Agreed(l)
    BY <1>2, FullMatchStates DEF Agreed
<1>4. \A l \in Candidates : /\ Supported(candidates[l]) <=> ~Active(l)
                            /\ ~Active(l) => Agreed(l) /\ candidates[l].normalized # {}
  <2> SUFFICES ASSUME NEW l \in Candidates
               PROVE  /\ Supported(candidates[l]) <=> ~Active(l)
                      /\ ~Active(l) => Agreed(l) /\ candidates[l].normalized # {}
      OBVIOUS
  <2> DEFINE c == candidates[l]
  <2>1. /\ ActiveMask(c) = {} <=> c.aligned = UsageSlots
        /\ c.aligned = UsageSlots => /\ FullMatch(RowOf(l), FieldsOf(l))
                                     /\ c = Filled(Key(l), RowOf(l), Comparable, UsageSlots)
        /\ c.aligned \subseteq UsageSlots
      BY <1>2, FinishedIsMatch
  <2>2. Supported(c) <=> c.aligned = UsageSlots
      BY <2>1, SlotFacts DEF Supported
  <2>3. \A A : Filled(Key(l), RowOf(l), Comparable, A).normalized # {}
      BY SlotFacts DEF Filled
  <2> QED BY <2>1, <2>2, <2>3 DEF Active, Agreed
<1>5. i \in Nat /\ i >= 1 /\ MaxSteps \in Nat
      /\ \A l \in Candidates : l \in Nat /\ l >= 1 /\ \A j \in 1 .. l - 1 : j \in Candidates
    BY EarlierCandidates, LoopAssumption
<1>6. \A j \in 1 .. i - 1 : Agreed(j)
    BY <1>3, <1>5 DEF SettledBefore
\* A fatal row is read at most; one that agrees is not refused.
<1>7. Fatal(RowOf(i)) => Level(candidates[i]) <= 1 /\ Active(i)
  <2>1. Fatal(RowOf(i)) => candidates[i].normalized = {}
      BY DEF Turns, Harmless
  <2> QED BY <1>4, <2>1 DEF Level
<1>8. ASSUME Agreed(i) \/ Fatal(RowOf(i)), Active(i)
      PROVE  FALSE
  <2>1. CASE step = MaxSteps
    <3> DEFINE S == {l \in Candidates : Active(l)}
    <3>1. PICK m \in S : \A l \in S : m <= l
        BY <1>8, LeastCandidate
    <3>2. m \in Candidates /\ Active(m) /\ m <= i
        BY <1>8, <3>1
    <3>3. \A j \in 1 .. m - 1 : ~Active(j)
        BY <1>5, <3>1, <3>2
    <3>4. \A l \in Candidates : l > m => candidates[l] = SeededCandidate
      <4> SUFFICES ASSUME NEW l \in Candidates, l > m, candidates[l] # SeededCandidate
                   PROVE  FALSE
          OBVIOUS
      <4>1. m \in 1 .. l - 1
          BY <1>5, <3>2
      <4> QED BY <3>2, <4>1 DEF Turns, InOrder
    <3> DEFINE n == Level(candidates[m])
    <3>5. n <= 1 \/ Agreed(m)
      <4>1. m < i => m \in 1 .. i - 1
          BY <1>5, <3>2
      <4>2. m < i \/ m = i
          BY <1>5, <3>2
      <4> QED BY <1>6, <1>7, <1>8, <4>1, <4>2
    <3>6. step = 3 * (m - 1) + n
        BY <3>2, <3>3, <3>4, <3>5 DEF Turns, Pace, Reached
    <3>7. n \in 0 .. 3 /\ (Agreed(m) => n <= 2)
        BY <1>2, <3>2, FinishedLevel DEF Active, Agreed
    <3>8. n \in 0 .. 2
      <4> HIDE DEF n, S
      <4> QED BY <3>5, <3>7
    <3>9. m \in Nat /\ m <= i
        BY <1>5, <3>2
    <3> HIDE DEF n, S
    <3> QED BY <1>5, <2>1, <3>6, <3>8, <3>9
  <2>2. ASSUME NEW m \in Candidates, Refused(candidates[m], Key(m), RowOf(m), FieldsOf(m)),
               \A j \in 1 .. m - 1 : ~Active(j)
        PROVE  FALSE
    <3>1. ~Agreed(m)
        BY <2>2, SlotFacts DEF Refused, Agreed, FullMatch
    <3>2. ~Fatal(RowOf(m))
      <4>1. \A j, row, A : Filled(j, row, Comparable, A).normalized # {}
          BY SlotFacts DEF Filled
      <4> QED BY <2>2, <4>1 DEF Refused, Turns, Harmless, Fatal
    <3>3. m > i
        BY <1>5, <1>6, <1>8, <3>1, <3>2
    <3>4. i \in 1 .. m - 1
        BY <1>5, <3>3
    <3> QED BY <1>8, <2>2, <3>4
  <2>3. \/ \A l \in Candidates : ~Active(l)
        \/ step = MaxSteps
        \/ \E m \in Candidates : /\ Refused(candidates[m], Key(m), RowOf(m), FieldsOf(m))
                                 /\ \A j \in 1 .. m - 1 : ~Active(j)
      BY DEF Turns, Ending
  <2> QED BY <1>8, <2>1, <2>2, <2>3
<1> QED BY <1>3, <1>4, <1>7, <1>8 DEF JudgedRight

LEMMA TurnsMeanJudgement == Turns => ReachedIsJudged
<1> SUFFICES ASSUME Turns PROVE ReachedIsJudged
    OBVIOUS
<1>1. ASSUME phase = "finalized"
      PROVE  \A i \in Candidates :
                3 * i <= MaxSteps /\ SettledBefore(i) =>
                    /\ Supported(candidates[i]) <=> States(RowOf(i), FieldsOf(i))
                    /\ ~Fatal(RowOf(i))
    BY <1>1, TurnsMeanJudged DEF JudgedRight
<1>2. ASSUME phase = "raised"
      PROVE  \E i \in Candidates : Fatal(RowOf(i)) /\ SettledBefore(i)
  <2>1. PICK i \in Candidates : Fatal(RowOf(i)) /\ \A j \in 1 .. i - 1 : ~Active(j)
      BY <1>2 DEF Turns, Ending
  <2>2. ASSUME NEW j \in 1 .. i - 1
        PROVE  States(RowOf(j), FieldsOf(j))
    <3>1. j \in Candidates /\ ActiveMask(candidates[j]) = {}
        BY <2>1, <2>2, EarlierCandidates DEF Active
    <3>2. RowOf(j) \in Rows /\ FieldsOf(j) \in Declarations
          /\ Progresses(candidates[j], Key(j), RowOf(j), FieldsOf(j))
        BY <3>1, BoardFacts DEF Turns
    <3>3. FullMatch(RowOf(j), FieldsOf(j))
        BY <3>1, <3>2, FinishedIsMatch
    <3> QED BY <3>2, <3>3, FullMatchStates
  <2> QED BY <2>1, <2>2 DEF SettledBefore
<1> QED BY <1>1, <1>2 DEF ReachedIsJudged

-----------------------------------------------------------------------------
(***************************************************************************)
(* The theorems.                                                           *)
(***************************************************************************)

\* The four states, the order and pace of the work, and the report.
LEMMA TurnsInvariant == USpec => [](Turns /\ Reported)
<1>1. UInit => Turns /\ Reported
    BY TurnsInit, ReportedInit
<1>2. Turns /\ Reported /\ [UNext]_uvars => (Turns /\ Reported)'
    BY StepShape, TurnsStep, ReportedStep DEF Turns
<1> QED BY <1>1, <1>2, PTL DEF USpec

\* Whatever the inventory and the claims, each payload value of a candidate
\* is the first usable cell of its slot in the candidate's own row, its source
\* ref names that cell, and each normalized value is the normal form of the
\* payload.
THEOREM EvidenceTracesTheorem == USpec => []EvidenceTraces
<1>1. Turns /\ Reported => EvidenceTraces
    BY BoardMeansTraces DEF Turns
<1> QED BY <1>1, TurnsInvariant, PTL

\* No claim is reported supported by a row that does not state it, whatever
\* the units, the case of the texts, the missing and the repeated cells.
THEOREM SupportTheorem == USpec => []SupportIsTrue
<1> QED BY TurnsInvariant, TurnsMeanSupport, PTL

\* With three steps for each candidate up to it, and no unsettled one before
\* it, a candidate is supported in the report exactly when its row states its
\* claim: neither the masks, nor the scheduler, nor the normal forms lose one.
\* There is no report only where Python 3.11 came to a whole quantity in a
\* unit other than Wh, and there is none whenever it comes to one.
THEOREM JudgementTheorem == USpec => []ReachedIsJudged
<1>1. Turns /\ Reported => ReachedIsJudged
    BY TurnsMeanJudgement
<1> QED BY <1>1, TurnsInvariant, PTL

=============================================================================
