-------------------------- MODULE ConvergenceProofs ---------------------------
(***************************************************************************)
(* What ConvergenceRunner guarantees for every schema, every set of        *)
(* capabilities, every number of candidates and every max_steps.           *)
(*                                                                         *)
(* First the lemmas about dicts, candidates and patches (MaskKernel), then *)
(* least candidates, then the invariants: type correctness, the lattice    *)
(* and the evidence behind every value.                                    *)
(***************************************************************************)
EXTENDS ConvergenceRunner, SelectionProofs, WellFoundedInduction

-----------------------------------------------------------------------------
(***************************************************************************)
(* Dicts.                                                                  *)
(***************************************************************************)

\* A dict is a function on a set of slot bits.
LEMMA DictDef ==
    ASSUME NEW V, NEW f
    PROVE  f \in Dict(V) <=> DOMAIN f \subseteq Bits /\ f \in [DOMAIN f -> V]
BY DEF Dict

\* The empty dict is a dict of any kind of value.
LEMMA EmptyDictType ==
    ASSUME NEW V
    PROVE  EmptyDict \in Dict(V) /\ DOMAIN EmptyDict = {}
<1>1. DOMAIN EmptyDict = {} /\ EmptyDict \in [{} -> V]
    BY DEF EmptyDict
<1> QED
    BY <1>1, DictDef

\* Merging dicts unites their keys and invents no value.
LEMMA MergeDictType ==
    ASSUME NEW V, NEW cur \in Dict(V), NEW upd \in Dict(V)
    PROVE  /\ MergeDict(cur, upd) \in Dict(V)
           /\ DOMAIN MergeDict(cur, upd) = DOMAIN cur \cup DOMAIN upd
<1> DEFINE merged == MergeDict(cur, upd)
<1>1. DOMAIN merged = DOMAIN cur \cup DOMAIN upd
    BY DEF MergeDict
<1>2. /\ DOMAIN cur \subseteq Bits /\ cur \in [DOMAIN cur -> V]
      /\ DOMAIN upd \subseteq Bits /\ upd \in [DOMAIN upd -> V]
    BY DictDef
<1>3. merged \in [DOMAIN cur \cup DOMAIN upd -> V]
    BY <1>2 DEF MergeDict
<1> QED
    BY <1>1, <1>2, <1>3, DictDef

\* Merging source refs keeps every ref of both sides: a slot is sourced
\* exactly when it was sourced on one of them.
LEMMA MergeSourceRefsType ==
    ASSUME NEW cur \in Dict(SUBSET Ref), NEW upd \in Dict(SUBSET Ref)
    PROVE  /\ MergeSourceRefs(cur, upd) \in Dict(SUBSET Ref)
           /\ DOMAIN MergeSourceRefs(cur, upd) = DOMAIN cur \cup DOMAIN upd
           /\ Sourced(MergeSourceRefs(cur, upd)) = Sourced(cur) \cup Sourced(upd)
<1> DEFINE merged == MergeSourceRefs(cur, upd)
<1>1. DOMAIN merged = DOMAIN cur \cup DOMAIN upd
    BY DEF MergeSourceRefs
<1>2. /\ DOMAIN cur \subseteq Bits /\ cur \in [DOMAIN cur -> SUBSET Ref]
      /\ DOMAIN upd \subseteq Bits /\ upd \in [DOMAIN upd -> SUBSET Ref]
    BY DictDef
<1>3. merged \in [DOMAIN cur \cup DOMAIN upd -> SUBSET Ref]
    BY <1>2 DEF MergeSourceRefs
<1>4. merged \in Dict(SUBSET Ref)
    BY <1>1, <1>2, <1>3, DictDef
<1>5. \A b \in DOMAIN cur \cup DOMAIN upd :
          merged[b] # {} <=> b \in Sourced(cur) \cup Sourced(upd)
    BY DEF MergeSourceRefs, Sourced
<1>6. Sourced(merged) = Sourced(cur) \cup Sourced(upd)
    BY <1>1, <1>5 DEF Sourced
<1> QED
    BY <1>1, <1>4, <1>6

-----------------------------------------------------------------------------
(***************************************************************************)
(* Candidates and patches.                                                 *)
(***************************************************************************)

\* A seeded candidate is a candidate, inside the schema and the lattice.
LEMMA SeededCandidateType ==
    /\ SeededCandidate \in Candidate
    /\ CandidateInSchema(SeededCandidate)
    /\ Lattice(SeededCandidate)
<1>1. EmptyDict \in Dict(Value) /\ EmptyDict \in Dict(SUBSET Ref)
      /\ DOMAIN EmptyDict = {}
    BY EmptyDictType
<1>2. SeededCandidate \in Candidate
    BY <1>1 DEF SeededCandidate, Candidate
<1>3. CandidateInSchema(SeededCandidate) /\ Lattice(SeededCandidate)
    BY <1>1 DEF SeededCandidate, CandidateInSchema, Lattice
<1> QED
    BY <1>2, <1>3

\* Applying a patch to a candidate gives a candidate.
LEMMA AfterPatchType ==
    ASSUME NEW c \in Candidate, NEW Ids, NEW Names, NEW p \in PatchOver(Ids, Names)
    PROVE  AfterPatch(c, p) \in Candidate
<1>1. /\ c.payload \in Dict(Value) /\ p.payload \in Dict(Value)
      /\ c.normalizedPayload \in Dict(Value) /\ p.normalizedPayload \in Dict(Value)
      /\ c.refs \in Dict(SUBSET Ref) /\ p.refs \in Dict(SUBSET Ref)
    BY DEF Candidate, PatchOver
<1>2. /\ MergeDict(c.payload, p.payload) \in Dict(Value)
      /\ MergeDict(c.normalizedPayload, p.normalizedPayload) \in Dict(Value)
      /\ MergeSourceRefs(c.refs, p.refs) \in Dict(SUBSET Ref)
    BY <1>1, MergeDictType, MergeSourceRefsType
<1>3. /\ c.present \cup p.present \in SUBSET Bits
      /\ c.assigned \cup p.assigned \in SUBSET Bits
      /\ c.normalized \cup p.normalized \in SUBSET Bits
      /\ c.aligned \cup p.aligned \in SUBSET Bits
      /\ (c.ambiguous \cup p.setAmbiguous) \ p.clearAmbiguous \in SUBSET Bits
      /\ (c.issue \cup p.setIssue) \ p.clearIssue \in SUBSET Bits
      /\ c.alignment \cup p.alignment \in SUBSET Bits
    BY DEF Candidate, PatchOver
<1> QED
    BY <1>2, <1>3 DEF AfterPatch, Candidate

\* A patch that passes validation leaves its candidate inside the schema and
\* the lattice, with all required provenance.
LEMMA ValidPatchKeepsState ==
    ASSUME NEW i, NEW c, NEW p, NEW k, ValidPatch(i, c, p, k)
    PROVE  /\ CandidateInSchema(AfterPatch(c, p))
           /\ Lattice(AfterPatch(c, p))
           /\ ProvenanceComplete(AfterPatch(c, p))
BY DEF ValidPatch, ValidCandidateState

\* A valid patch brings a source ref with every payload it writes, so a
\* candidate whose payload was sourced before is sourced after.
LEMMA ValidPatchKeepsSources ==
    ASSUME NEW c \in Candidate, NEW Ids, NEW Names, NEW p \in PatchOver(Ids, Names),
           NEW i, NEW k, ValidPatch(i, c, p, k),
           DOMAIN c.payload \subseteq Sourced(c.refs)
    PROVE  DOMAIN AfterPatch(c, p).payload \subseteq Sourced(AfterPatch(c, p).refs)
<1>1. /\ c.payload \in Dict(Value) /\ p.payload \in Dict(Value)
      /\ c.refs \in Dict(SUBSET Ref) /\ p.refs \in Dict(SUBSET Ref)
    BY DEF Candidate, PatchOver
<1>2. DOMAIN MergeDict(c.payload, p.payload) = DOMAIN c.payload \cup DOMAIN p.payload
    BY DEF MergeDict
<1>3. Sourced(MergeSourceRefs(c.refs, p.refs)) = Sourced(c.refs) \cup Sourced(p.refs)
    BY <1>1, MergeSourceRefsType
<1>4. DOMAIN p.payload \subseteq Sourced(p.refs)
    BY DEF ValidPatch, PayloadSourced
<1>5. /\ AfterPatch(c, p).payload = MergeDict(c.payload, p.payload)
      /\ AfterPatch(c, p).refs = MergeSourceRefs(c.refs, p.refs)
    BY DEF AfterPatch
<1> QED
    BY <1>2, <1>3, <1>4, <1>5

-----------------------------------------------------------------------------
(***************************************************************************)
(* The first candidate of a set: what _next_action and selected[0] pick.   *)
(***************************************************************************)

\* A set of candidates that is not empty has a first one.
LEMMA LeastCandidate ==
    ASSUME NEW S, S \subseteq Candidates, S # {}
    PROVE  \E i \in S : \A j \in S : i <= j
<1> DEFINE less == {ss \in Nat \X Nat : ss[1] < ss[2]}
<1>1. IsWellFoundedOn(less, Nat)
    BY NatLessThanWellFounded DEF OpToRel
<1>2. S \subseteq Nat
    BY LoopAssumption DEF Candidates
<1>3. \E i \in S : \A j \in S : <<j, i>> \notin less
    BY <1>1, <1>2, WFMin
<1>4. \A i, j \in S : <<j, i>> \notin less => i <= j
    BY <1>2
<1> QED
    BY <1>3, <1>4

\* With an active gap on the board, the current candidate is one of the
\* board's, has an active gap, and no candidate before it has one.
LEMMA CurrentIsActive ==
    ASSUME ActiveCandidates # {}
    PROVE  /\ Current \in ActiveCandidates
           /\ \A j \in 1 .. Current - 1 : j \notin ActiveCandidates
<1>1. PICK i \in ActiveCandidates : \A j \in ActiveCandidates : i <= j
    BY LeastCandidate DEF ActiveCandidates
<1>2. i \in Candidates /\ Candidates \subseteq Nat /\ ActiveMask(candidates[i]) # {}
    BY LoopAssumption DEF ActiveCandidates, Candidates
<1>3. \A j \in 1 .. i - 1 : j \in Candidates /\ j \notin ActiveCandidates
    BY <1>1, <1>2, LoopAssumption DEF Candidates
<1>4. \A j \in 1 .. i - 1 : ActiveMask(candidates[j]) = {}
    BY <1>3 DEF ActiveCandidates
<1>5. /\ Current \in Candidates
      /\ ActiveMask(candidates[Current]) # {}
      /\ \A j \in 1 .. Current - 1 : ActiveMask(candidates[j]) = {}
    BY <1>2, <1>4, Zenon DEF Current
<1> QED
    BY <1>5 DEF ActiveCandidates

\* The candidate selected for a claim is one of the claim's, and supported.
LEMMA SelectedIsSupport ==
    ASSUME NEW m, SupportOf(m) # {}
    PROVE  SelectedFor(m) \in SupportOf(m)
<1>1. SupportOf(m) \subseteq Candidates
    BY DEF SupportOf, CandidatesOf
<1>2. \E i \in SupportOf(m) : \A j \in SupportOf(m) : i <= j
    BY <1>1, LeastCandidate
<1> QED
    BY <1>2 DEF SelectedFor

-----------------------------------------------------------------------------
(***************************************************************************)
(* Types of masks, events, triggers and reports.                           *)
(***************************************************************************)

\* A patch touches bits.
LEMMA TouchedMaskType ==
    ASSUME NEW Ids, NEW Names, NEW p \in PatchOver(Ids, Names)
    PROVE  TouchedMask(p) \subseteq Bits
<1>1. /\ p.payload \in Dict(Value) /\ p.normalizedPayload \in Dict(Value)
      /\ p.refs \in Dict(SUBSET Ref)
    BY DEF PatchOver
<1>2. /\ DOMAIN p.payload \subseteq Bits /\ DOMAIN p.normalizedPayload \subseteq Bits
      /\ DOMAIN p.refs \subseteq Bits
    BY <1>1, DictDef
<1>3. /\ p.present \subseteq Bits /\ p.assigned \subseteq Bits
      /\ p.normalized \subseteq Bits /\ p.aligned \subseteq Bits
      /\ p.setAmbiguous \subseteq Bits /\ p.clearAmbiguous \subseteq Bits
      /\ p.setIssue \subseteq Bits /\ p.clearIssue \subseteq Bits
      /\ p.alignment \subseteq Bits
    BY DEF PatchOver
<1> QED
    BY <1>2, <1>3 DEF TouchedMask

\* The active mask of a candidate is a set of bits.
LEMMA ActiveMaskType ==
    ASSUME NEW c \in Candidate
    PROVE  ActiveMask(c) \subseteq Bits
<1>1. Required \subseteq Bits /\ c.assigned \subseteq Bits
      /\ c.present \subseteq Bits /\ c.ambiguous \subseteq Bits
    BY SchemaAssumption DEF Candidate
<1> QED
    BY <1>1 DEF ActiveMask, Gap

\* The events of an iteration are events.
LEMMA EventType ==
    ASSUME NEW type \in EventTypes, NEW i \in 0 .. NumCandidates,
           NEW name \in Name \cup {None}, NEW touched \in SUBSET Bits
    PROVE  Event(type, i, name, touched) \in EventRecord
BY DEF Event, EventRecord

\* Candidates can be named by events and reports.
LEMMA CandidatesInRange == Candidates \subseteq 0 .. NumCandidates
BY LoopAssumption DEF Candidates

\* The trace stays a sequence of events when an iteration adds one of the
\* stop, rejection and application events after its proposal.
LEMMA ProposalEventsType ==
    ASSUME NEW i \in Candidates, NEW k \in Capabilities,
           NEW p \in PatchOver(Candidates, Name),
           NEW type \in EventTypes, NEW touched \in SUBSET Bits,
           events \in Seq(EventRecord)
    PROVE  events \o ProposalEvents(i, k, p) \o <<Event(type, i, k.name, touched)>>
              \in Seq(EventRecord)
<1>1. i \in 0 .. NumCandidates /\ k.name \in Name /\ TouchedMask(p) \in SUBSET Bits
    BY CandidatesInRange, CapabilityAssumption, TouchedMaskType DEF CapabilitySpecOver
<1>2. /\ Event("gap_computed", i, None, {}) \in EventRecord
      /\ Event("capability_selected", i, k.name, {}) \in EventRecord
      /\ Event("patch_proposed", i, k.name, TouchedMask(p)) \in EventRecord
      /\ Event(type, i, k.name, touched) \in EventRecord
    BY <1>1, EventType DEF EventTypes
<1>3. ProposalEvents(i, k, p) \in Seq(EventRecord)
    BY <1>2 DEF ProposalEvents
<1>4. <<Event(type, i, k.name, touched)>> \in Seq(EventRecord)
    BY <1>2
<1>5. events \o ProposalEvents(i, k, p) \in Seq(EventRecord)
    BY <1>3, ConcatProperties
<1> QED
    BY <1>4, <1>5, ConcatProperties

\* Conflict triggers name a supported candidate and another of its claim.
LEMMA ConflictTriggersType ==
    /\ ConflictTriggers \subseteq TriggerRecord
    /\ \A t \in ConflictTriggers : t.code = "candidate_conflict"
<1> SUFFICES ASSUME NEW t \in ConflictTriggers
             PROVE  t \in TriggerRecord /\ t.code = "candidate_conflict"
    OBVIOUS
<1>1. PICK m \in Claim :
             /\ SupportOf(m) # {}
             /\ \E j \in CandidatesOf(m) :
                    t = Trigger("candidate_conflict", SelectedFor(m), j)
    BY Zenon DEF ConflictTriggers
<1>0. PICK j \in CandidatesOf(m) : t = Trigger("candidate_conflict", SelectedFor(m), j)
    BY <1>1
<1>2. SelectedFor(m) \in Candidates /\ j \in 0 .. NumCandidates
    BY <1>1, SelectedIsSupport, CandidatesInRange DEF SupportOf, CandidatesOf
<1> QED
    BY <1>0, <1>2 DEF Trigger, TriggerRecord

\* Each claim report is one.
LEMMA ClaimReportType ==
    ASSUME NEW m \in Claim, NEW triggers,
           candidates \in [Candidates -> Candidate]
    PROVE  ClaimReport(m, triggers) \in ClaimReportRecord
<1>1. UnresolvedGaps(m) \subseteq Bits
  <2>1. \A i \in CandidatesOf(m) : ActiveMask(candidates[i]) \subseteq Bits
    BY ActiveMaskType DEF CandidatesOf
  <2> QED
    BY <2>1 DEF UnresolvedGaps
<1>2. CASE SupportOf(m) # {}
  <2>1. SelectedFor(m) \in 0 .. NumCandidates
    BY <1>2, SelectedIsSupport, CandidatesInRange DEF SupportOf, CandidatesOf
  <2> QED
    BY <1>1, <1>2, <2>1
    DEF ClaimReport, SupportedReport, ClaimReportRecord, AlignmentStatuses,
        ConvergenceStatuses
<1>3. CASE SupportOf(m) = {}
  <2>1. 0 \in 0 .. NumCandidates
    BY LoopAssumption
  <2> QED
    BY <1>1, <1>3, <2>1
    DEF ClaimReport, UnsupportedReport, ClaimReportRecord, AlignmentStatuses,
        ConvergenceStatuses
<1> QED
    BY <1>2, <1>3

-----------------------------------------------------------------------------
(***************************************************************************)
(* Type correctness.                                                       *)
(***************************************************************************)

\* The seeded board has its types.
LEMMA TypeInit == Init => TypeOK
<1> SUFFICES ASSUME Init PROVE TypeOK
    OBVIOUS
<1>1. candidates \in [Candidates -> Candidate]
    BY SeededCandidateType DEF Init
<1>2. events \in Seq(EventRecord)
  <2>1. \A i \in Candidates : Event("candidate_seeded", i, None, {}) \in EventRecord
    BY CandidatesInRange, EventType DEF EventTypes
  <2>2. SeedEvents \in [1 .. NumCandidates -> EventRecord]
    BY <2>1 DEF SeedEvents, Candidates
  <2> QED
    BY <2>2, LoopAssumption DEF Init
<1>3. report \in [Claim -> ClaimReportRecord]
    BY LoopAssumption
    DEF Init, NoReport, ClaimReportRecord, AlignmentStatuses, ConvergenceStatuses
<1>4. step \in 0 .. MaxSteps
    BY LoopAssumption DEF Init
<1> QED
    BY <1>1, <1>2, <1>3, <1>4 DEF Init, TypeOK, StopReasons

\* The steps that take no patch keep the types.
LEMMA TypeControl == TypeOK /\ Control => TypeOK'
<1> SUFFICES ASSUME TypeOK, Control PROVE TypeOK'
    OBVIOUS
<1>1. CASE StopConverged
    BY <1>1 DEF TypeOK, StopConverged, Stop, StopReasons
<1>2. CASE StopNoEligible
  <2>1. Current \in 0 .. NumCandidates
    BY <1>2, CurrentIsActive, CandidatesInRange DEF StopNoEligible, ActiveCandidates
  <2>2. /\ Event("gap_computed", Current, None, {}) \in EventRecord
        /\ Event("stopped", Current, None, {}) \in EventRecord
    BY <2>1, EventType DEF EventTypes
  <2>3. <<Event("gap_computed", Current, None, {}),
          Event("stopped", Current, None, {})>> \in Seq(EventRecord)
    BY <2>2
  <2>4. events' \in Seq(EventRecord)
    BY <1>2, <2>3, ConcatProperties DEF StopNoEligible, TypeOK
  <2> QED
    BY <1>2, <2>4 DEF TypeOK, StopNoEligible, Stop, StopReasons
<1>3. CASE StopExhausted
    BY <1>3 DEF TypeOK, StopExhausted, Stop, StopReasons
<1>4. CASE Finalize
  <2>1. report' \in [Claim -> ClaimReportRecord]
    BY <1>4, ClaimReportType DEF Finalize, TypeOK
  <2>2. reviewTriggers' \subseteq TriggerRecord
    BY <1>4, ConflictTriggersType DEF Finalize, TypeOK
  <2>3. Event("finalized", 0, None, {}) \in EventRecord
    BY EventType, LoopAssumption DEF EventTypes
  <2>4. events' \in Seq(EventRecord)
    BY <1>4, <2>3 DEF Finalize, TypeOK
  <2> QED
    BY <1>4, <2>1, <2>2, <2>4 DEF Finalize, TypeOK
<1> QED
    BY <1>1, <1>2, <1>3, <1>4 DEF Control

\* What the loop does with a patch keeps the types.
LEMMA TypePatch ==
    ASSUME TypeOK, NEW i \in Candidates, NEW k \in Capabilities,
           NEW p \in PatchOver(Candidates, Name),
           Working(i, k), HandlePatch(i, k, p)
    PROVE  TypeOK'
<1>1. TouchedMask(p) \in SUBSET Bits /\ {} \in SUBSET Bits
    BY TouchedMaskType
<1>2. events \in Seq(EventRecord)
    BY DEF TypeOK
<1>3. CASE StopNoProgress(i, k, p)
  <2>1. events' \in Seq(EventRecord)
    BY <1>1, <1>2, <1>3, ProposalEventsType DEF StopNoProgress, EventTypes
  <2> QED
    BY <1>3, <2>1 DEF TypeOK, StopNoProgress, Stop, StopReasons
<1>4. CASE RejectPatch(i, k, p)
  <2>1. events' \in Seq(EventRecord)
    BY <1>1, <1>2, <1>4, ProposalEventsType DEF RejectPatch, EventTypes
  <2>2. Trigger("patch_rejected", i, 0) \in TriggerRecord
    BY LoopAssumption DEF Trigger, TriggerRecord
  <2> QED
    BY <1>4, <2>1, <2>2 DEF TypeOK, RejectPatch, Stop, StopReasons
<1>5. CASE ApplyPatch(i, k, p)
  <2>1. events' \in Seq(EventRecord)
    BY <1>1, <1>2, <1>5, ProposalEventsType DEF ApplyPatch, EventTypes
  <2>2. candidates[i] \in Candidate
    BY DEF TypeOK
  <2>3. AfterPatch(candidates[i], p) \in Candidate
    BY <2>2, AfterPatchType
  <2>4. candidates' \in [Candidates -> Candidate]
    BY <1>5, <2>3 DEF ApplyPatch, TypeOK
  <2>5. step' \in 0 .. MaxSteps
    BY <1>5, LoopAssumption DEF ApplyPatch, TypeOK, Working, Iterating
  <2> QED
    BY <1>5, <2>1, <2>4, <2>5 DEF ApplyPatch, TypeOK
<1> QED
    BY <1>3, <1>4, <1>5 DEF HandlePatch

\* Every step keeps the types.
LEMMA TypeStep == TypeOK /\ [Next]_vars => TypeOK'
<1> SUFFICES ASSUME TypeOK, [Next]_vars PROVE TypeOK'
    OBVIOUS
<1>1. CASE Control
    BY <1>1, TypeControl
<1>2. CASE UNCHANGED vars
    BY <1>2 DEF TypeOK, vars
<1>3. ASSUME NEW i \in Candidates, NEW k \in Capabilities, Working(i, k),
             ProducerRaises
      PROVE  TypeOK'
    BY <1>3 DEF ProducerRaises, TypeOK
<1>4. ASSUME NEW i \in Candidates, NEW k \in Capabilities, Working(i, k),
             NEW p \in Patches, HandlePatch(i, k, p)
      PROVE  TypeOK'
    BY <1>4, TypePatch, PatchAssumption
<1> QED
    BY <1>1, <1>2, <1>3, <1>4 DEF Next, Returned

\* Type correctness: board, events, triggers and reports keep their types in
\* every run, and the step counter never passes max_steps, whatever patches
\* the producers propose.
THEOREM TypeCorrect == Spec => []TypeOK
<1> QED
    BY TypeInit, TypeStep, PTL DEF Spec

-----------------------------------------------------------------------------
(***************************************************************************)
(* The lattice and the evidence.                                           *)
(***************************************************************************)

\* The one way to change a candidate: a patch of Patches that passed
\* validation, applied to it.
CandidateChange ==
    \E i \in Candidates, k \in Capabilities, p \in Patches :
        /\ ValidPatch(i, candidates[i], p, k)
        /\ candidates' = [candidates EXCEPT ![i] = AfterPatch(candidates[i], p)]

\* Every step either leaves the candidates alone or is such a change.
LEMMA OnlyValidPatches == [Next]_vars => UNCHANGED candidates \/ CandidateChange
<1> SUFFICES ASSUME [Next]_vars PROVE UNCHANGED candidates \/ CandidateChange
    OBVIOUS
<1>1. CASE Control
    BY <1>1
    DEF Control, StopConverged, StopNoEligible, StopExhausted, Finalize, Stop
<1>2. CASE UNCHANGED vars
    BY <1>2 DEF vars
<1>3. ASSUME NEW i \in Candidates, NEW k \in Capabilities, ProducerRaises
      PROVE  UNCHANGED candidates
    BY <1>3 DEF ProducerRaises
<1>4. ASSUME NEW i \in Candidates, NEW k \in Capabilities,
             NEW p \in Patches, HandlePatch(i, k, p)
      PROVE  UNCHANGED candidates \/ CandidateChange
  <2>1. CASE StopNoProgress(i, k, p) \/ RejectPatch(i, k, p)
    BY <2>1 DEF StopNoProgress, RejectPatch, Stop
  <2>2. CASE ApplyPatch(i, k, p)
    BY <2>2 DEF ApplyPatch, CandidateChange
  <2> QED
    BY <1>4, <2>1, <2>2 DEF HandlePatch
<1> QED
    BY <1>1, <1>2, <1>3, <1>4 DEF Next, Returned

\* Seeded candidates are in the schema and the lattice.
LEMMA LatticeInit == Init => LatticeInv
BY SeededCandidateType DEF Init, LatticeInv

\* A change of one candidate leaves it, and the others, in the lattice.
LEMMA LatticeStep == TypeOK /\ LatticeInv /\ [Next]_vars => LatticeInv'
<1> SUFFICES ASSUME TypeOK, LatticeInv, [Next]_vars PROVE LatticeInv'
    OBVIOUS
<1>1. CASE UNCHANGED candidates
    BY <1>1 DEF LatticeInv
<1>2. CASE CandidateChange
  <2>1. PICK i \in Candidates, k \in Capabilities, p \in Patches :
            /\ ValidPatch(i, candidates[i], p, k)
            /\ candidates' = [candidates EXCEPT ![i] = AfterPatch(candidates[i], p)]
    BY <1>2 DEF CandidateChange
  <2>2. /\ CandidateInSchema(AfterPatch(candidates[i], p))
        /\ Lattice(AfterPatch(candidates[i], p))
    BY <2>1, ValidPatchKeepsState
  <2>3. \A j \in Candidates :
            candidates'[j] = IF j = i THEN AfterPatch(candidates[i], p) ELSE candidates[j]
    BY <2>1 DEF TypeOK
  <2> QED
    BY <2>2, <2>3 DEF LatticeInv
<1> QED
    BY <1>1, <1>2, OnlyValidPatches

\* No candidate ever leaves the schema or the lattice, whatever patches the
\* producers propose: validate_patch is the only way into the board.
THEOREM LatticeTheorem == Spec => []LatticeInv
<1> QED
    BY TypeInit, TypeStep, LatticeInit, LatticeStep, PTL DEF Spec

\* Seeded candidates hold nothing that needs evidence.
LEMMA EvidenceInit == Init => EvidenceBacked
<1>1. \A i \in Candidates : Init => candidates[i] = SeededCandidate
    BY DEF Init
<1>2. DOMAIN SeededCandidate.payload = {}
    BY EmptyDictType DEF SeededCandidate
<1>3. SeededCandidate.present \cup SeededCandidate.assigned
        \cup SeededCandidate.normalized \cup SeededCandidate.aligned = {}
    BY DEF SeededCandidate
<1> QED
    BY <1>1, <1>2, <1>3 DEF EvidenceBacked

\* A change brings the evidence it needs and loses none.
LEMMA EvidenceStep == TypeOK /\ EvidenceBacked /\ [Next]_vars => EvidenceBacked'
<1> SUFFICES ASSUME TypeOK, EvidenceBacked, [Next]_vars PROVE EvidenceBacked'
    OBVIOUS
<1>1. CASE UNCHANGED candidates
    BY <1>1 DEF EvidenceBacked
<1>2. CASE CandidateChange
  <2>1. PICK i \in Candidates, k \in Capabilities, p \in Patches :
            /\ ValidPatch(i, candidates[i], p, k)
            /\ candidates' = [candidates EXCEPT ![i] = AfterPatch(candidates[i], p)]
    BY <1>2 DEF CandidateChange
  <2> DEFINE after == AfterPatch(candidates[i], p)
  <2>2. candidates[i] \in Candidate /\ p \in PatchOver(Candidates, Name)
    BY PatchAssumption DEF TypeOK
  <2>3. DOMAIN candidates[i].payload \subseteq Sourced(candidates[i].refs)
    BY DEF EvidenceBacked
  <2>4. DOMAIN after.payload \subseteq Sourced(after.refs)
    BY <2>1, <2>2, <2>3, ValidPatchKeepsSources
  <2>5. ProvenanceComplete(after)
    BY <2>1, ValidPatchKeepsState
  <2>6. \A j \in Candidates :
            candidates'[j] = IF j = i THEN after ELSE candidates[j]
    BY <2>1 DEF TypeOK
  <2> HIDE DEF after
  <2> QED
    BY <2>4, <2>5, <2>6 DEF EvidenceBacked
<1> QED
    BY <1>1, <1>2, OnlyValidPatches

\* No candidate ever holds a value, or has advanced a slot, without the
\* evidence the schema asks for.
THEOREM EvidenceTheorem == Spec => []EvidenceBacked
<1> QED
    BY TypeInit, TypeStep, EvidenceInit, EvidenceStep, PTL DEF Spec

-----------------------------------------------------------------------------
(***************************************************************************)
(* Stop reasons and verdicts.                                              *)
(***************************************************************************)

\* Before the loop stops there is no reason and no trigger, before the end no
\* report: what StopReasonSound and the verdicts need to be inductive.
Progress ==
    /\ phase \in {"looping", "raised"} => stopReason = "none" /\ reviewTriggers = {}
    /\ phase # "finalized" => report = [m \in Claim |-> NoReport]

\* Each iteration that was completed has applied one patch.
Counted == step = Cardinality(AppliedIn(events))

StopInv == Progress /\ Counted /\ StopReasonSound

\* The patches applied in a trace are counted.
LEMMA AppliedCount ==
    ASSUME NEW s \in Seq(EventRecord)
    PROVE  Cardinality(AppliedIn(s)) = Occurrences(s, [type : {"patch_applied"},
              candidate : 0 .. NumCandidates, capability : Name \cup {None}, touched : SUBSET Bits])
<1> DEFINE E == [type : {"patch_applied"}, candidate : 0 .. NumCandidates,
                 capability : Name \cup {None}, touched : SUBSET Bits]
<1>1. \A n \in DOMAIN s : s[n] \in EventRecord
    OBVIOUS
<1>2. \A e \in EventRecord : e \in E <=> e.type = "patch_applied"
    BY DEF EventRecord
<1> HIDE DEF E
<1>3. AppliedIn(s) = {n \in DOMAIN s : s[n] \in E}
    BY <1>1, <1>2 DEF AppliedIn
<1> QED BY <1>3 DEF Occurrences, E

\* Events without an application do not change the count.
LEMMA NoneApplied ==
    ASSUME NEW s \in Seq(EventRecord), NEW t \in Seq(EventRecord),
           \A n \in DOMAIN t : t[n].type # "patch_applied"
    PROVE  /\ Cardinality(AppliedIn(s \o t)) = Cardinality(AppliedIn(s))
           /\ Cardinality(AppliedIn(s)) \in Nat
<1> DEFINE E == [type : {"patch_applied"}, candidate : 0 .. NumCandidates,
                 capability : Name \cup {None}, touched : SUBSET Bits]
<1>1. \A n \in DOMAIN t : t[n] \notin E
    OBVIOUS
<1>2. s \o t \in Seq(EventRecord)
    BY ConcatProperties
<1>3. /\ Cardinality(AppliedIn(s \o t)) = Occurrences(s \o t, E)
      /\ Cardinality(AppliedIn(s)) = Occurrences(s, E)
    BY <1>2, AppliedCount
<1> HIDE DEF E
<1>4. Occurrences(t, E) = 0 /\ Occurrences(s, E) \in Nat
    BY <1>1, OccurrencesEmpty, OccurrencesType
<1> QED BY <1>3, <1>4, OccurrencesConcat

\* The application at the end of an iteration counts once.
LEMMA OneApplied ==
    ASSUME NEW s \in Seq(EventRecord), NEW t \in Seq(EventRecord), NEW e \in EventRecord,
           \A n \in DOMAIN t : t[n].type # "patch_applied", e.type = "patch_applied"
    PROVE  Cardinality(AppliedIn(s \o t \o <<e>>)) = Cardinality(AppliedIn(s)) + 1
<1> DEFINE E == [type : {"patch_applied"}, candidate : 0 .. NumCandidates,
                 capability : Name \cup {None}, touched : SUBSET Bits]
<1>1. s \o t \in Seq(EventRecord) /\ <<e>> \in Seq(EventRecord)
    BY ConcatProperties
<1>2. s \o t \o <<e>> \in Seq(EventRecord)
    BY <1>1, ConcatProperties
<1>3. e \in E
    BY DEF EventRecord
<1>4. /\ Cardinality(AppliedIn(s \o t \o <<e>>)) = Occurrences(s \o t \o <<e>>, E)
      /\ Cardinality(AppliedIn(s \o t)) = Occurrences(s \o t, E)
    BY <1>1, <1>2, AppliedCount
<1> HIDE DEF E
<1>5. Occurrences(s \o t \o <<e>>, E) = Occurrences(s \o t, E) + Occurrences(<<e>>, E)
    BY <1>1, OccurrencesConcat
<1>6. Occurrences(<<e>>, E) = 1
  <2>1. <<>> \in Seq(EventRecord) /\ Append(<<>>, e) = <<e>>
      OBVIOUS
  <2>2. Occurrences(Append(<<>>, e), E) = Occurrences(<<>>, E) + 1
      BY <1>3, <2>1, OccurrencesAppend
  <2> QED BY <2>1, <2>2, OccurrencesNone
<1> QED BY <1>4, <1>5, <1>6, NoneApplied

\* A run starts before everything StopInv speaks of.
LEMMA StopInit == Init => StopInv
<1> SUFFICES ASSUME Init PROVE StopInv
    OBVIOUS
<1>1. AppliedIn(events) = {}
    BY DEF Init, SeedEvents, Event, AppliedIn
<1>2. Counted
    BY <1>1, FS_EmptySet DEF Init, Counted
<1> QED BY <1>2 DEF Init, StopInv, Progress, StopReasonSound

\* The steps that take no patch apply none.
LEMMA CountedControl == TypeOK /\ Counted /\ Control => Counted'
<1> SUFFICES ASSUME TypeOK, Counted, Control PROVE Counted'
    OBVIOUS
<1>1. events \in Seq(EventRecord)
    BY DEF TypeOK
<1>2. CASE StopConverged \/ StopExhausted
    BY <1>2 DEF StopConverged, StopExhausted, Stop, Counted
<1>3. CASE StopNoEligible
  <2> DEFINE t == <<Event("gap_computed", Current, None, {}), Event("stopped", Current, None, {})>>
  <2>1. Current \in 0 .. NumCandidates
      BY <1>3, CurrentIsActive, CandidatesInRange DEF StopNoEligible, ActiveCandidates
  <2>2. t \in Seq(EventRecord)
      BY <2>1, EventType DEF EventTypes
  <2>3. \A n \in DOMAIN t : t[n].type # "patch_applied"
      BY DEF Event
  <2>4. events' = events \o t /\ step' = step
      BY <1>3 DEF StopNoEligible, Stop
  <2> HIDE DEF t
  <2> QED BY <1>1, <2>2, <2>3, <2>4, NoneApplied DEF Counted
<1>4. CASE Finalize
  <2> DEFINE t == <<Event("finalized", 0, None, {})>>
  <2>1. 0 \in 0 .. NumCandidates
      BY LoopAssumption
  <2>2. Event("finalized", 0, None, {}) \in EventRecord
      BY <2>1, EventType DEF EventTypes
  <2>3. t \in Seq(EventRecord) /\ Append(events, Event("finalized", 0, None, {})) = events \o t
      BY <1>1, <2>2
  <2>4. \A n \in DOMAIN t : t[n].type # "patch_applied"
      BY DEF Event
  <2>5. events' = events \o t /\ step' = step
      BY <1>4, <2>3 DEF Finalize
  <2> HIDE DEF t
  <2> QED BY <1>1, <2>3, <2>4, <2>5, NoneApplied DEF Counted
<1> QED BY <1>2, <1>3, <1>4 DEF Control

\* A patch is applied where an iteration is completed.
LEMMA CountedPatch ==
    ASSUME TypeOK, Counted, NEW i \in Candidates, NEW k \in Capabilities,
           NEW p \in PatchOver(Candidates, Name), Working(i, k), HandlePatch(i, k, p)
    PROVE  Counted'
<1> DEFINE q == ProposalEvents(i, k, p)
<1>1. events \in Seq(EventRecord) /\ TouchedMask(p) \in SUBSET Bits /\ {} \in SUBSET Bits
    BY TouchedMaskType DEF TypeOK
<1>2. i \in 0 .. NumCandidates /\ k.name \in Name \cup {None}
    BY CandidatesInRange, CapabilityAssumption DEF CapabilitySpecOver
<1>3. q \in Seq(EventRecord)
  <2>1. /\ Event("gap_computed", i, None, {}) \in EventRecord
        /\ Event("capability_selected", i, k.name, {}) \in EventRecord
        /\ Event("patch_proposed", i, k.name, TouchedMask(p)) \in EventRecord
      BY <1>1, <1>2, EventType DEF EventTypes
  <2> QED BY <2>1 DEF ProposalEvents
<1>4. \A n \in DOMAIN q : q[n].type # "patch_applied"
    BY DEF ProposalEvents, Event
<1> HIDE DEF q
<1>5. ASSUME NEW type \in {"stopped", "patch_rejected"}, step' = step,
             events' = events \o q \o <<Event(type, i, k.name, {})>>
      PROVE  Counted'
  <2> DEFINE e == Event(type, i, k.name, {})
  <2>1. e \in EventRecord /\ e.type # "patch_applied"
      BY <1>1, <1>2, <1>5, EventType DEF EventTypes, Event
  <2>2. events' = events \o q \o <<e>>
      BY <1>5
  <2> HIDE DEF e
  <2>3. <<e>> \in Seq(EventRecord) /\ \A n \in DOMAIN <<e>> : <<e>>[n].type # "patch_applied"
      BY <2>1
  <2>4. events \o q \in Seq(EventRecord)
      BY <1>1, <1>3, ConcatProperties
  <2>5. Cardinality(AppliedIn(events \o q)) = Cardinality(AppliedIn(events))
      BY <1>1, <1>3, <1>4, NoneApplied
  <2>6. Cardinality(AppliedIn(events \o q \o <<e>>)) = Cardinality(AppliedIn(events \o q))
      BY <2>3, <2>4, NoneApplied
  <2> QED BY <1>5, <2>2, <2>5, <2>6 DEF Counted
<1>6. CASE StopNoProgress(i, k, p)
    BY <1>5, <1>6 DEF StopNoProgress, Stop, q
<1>7. CASE RejectPatch(i, k, p)
    BY <1>5, <1>7 DEF RejectPatch, Stop, q
<1>8. CASE ApplyPatch(i, k, p)
  <2> DEFINE e == Event("patch_applied", i, k.name, TouchedMask(p))
  <2>1. e \in EventRecord /\ e.type = "patch_applied"
      BY <1>1, <1>2, EventType DEF EventTypes, Event
  <2>2. events' = events \o q \o <<e>> /\ step' = step + 1
      BY <1>8 DEF ApplyPatch, q
  <2> HIDE DEF e
  <2>3. Cardinality(AppliedIn(events')) = Cardinality(AppliedIn(events)) + 1
      BY <1>1, <1>3, <1>4, <2>1, <2>2, OneApplied
  <2> QED BY <2>2, <2>3 DEF Counted
<1> QED BY <1>6, <1>7, <1>8 DEF HandlePatch

\* The steps that take no patch keep the stop reason true.
LEMMA StopControl == TypeOK /\ StopInv /\ Control => StopInv'
<1> SUFFICES ASSUME TypeOK, StopInv, Control PROVE StopInv'
    OBVIOUS
<1>0. /\ Counted' /\ step = Cardinality(AppliedIn(events)) /\ step' = Cardinality(AppliedIn(events'))
      /\ step \in Nat /\ MaxSteps \in Nat
    BY CountedControl, LoopAssumption DEF StopInv, Counted, TypeOK
<1> USE DEF StopInv, Progress, StopReasonSound
<1>1. CASE StopConverged
  <2>1. /\ stopReason' = "converged" /\ phase' = "stopped" /\ reviewTriggers' = {}
        /\ report' = [m \in Claim |-> NoReport]
        /\ ActiveCandidates' = {} /\ step' = step /\ step < MaxSteps
    BY <1>1 DEF StopConverged, Stop, Iterating, ActiveCandidates
  <2> QED
    BY <1>0, <2>1 DEF HasTrigger
<1>2. CASE StopNoEligible
  <2>1. /\ Current \in ActiveCandidates
        /\ \A j \in 1 .. Current - 1 : j \notin ActiveCandidates
    BY <1>2, CurrentIsActive DEF StopNoEligible
  <2>2. /\ stopReason' = "no_eligible_capability" /\ phase' = "stopped"
        /\ reviewTriggers' = {} /\ report' = [m \in Claim |-> NoReport]
        /\ candidates' = candidates
        /\ Eligible(candidates[Current]) = {} /\ step' = step /\ step < MaxSteps
    BY <1>2 DEF StopNoEligible, Stop, Iterating
  <2>3. \E i \in ActiveCandidates' :
            /\ Eligible(candidates'[i]) = {}
            /\ \A j \in 1 .. i - 1 : j \notin ActiveCandidates'
    BY <2>1, <2>2 DEF ActiveCandidates
  <2> QED
    BY <1>0, <2>2, <2>3 DEF HasTrigger
<1>3. CASE StopExhausted
  <2>1. /\ stopReason' = "max_steps_exhausted" /\ phase' = "stopped"
        /\ reviewTriggers' = {} /\ report' = [m \in Claim |-> NoReport]
        /\ step' = MaxSteps
    BY <1>3 DEF StopExhausted, Stop
  <2> QED
    BY <1>0, <2>1 DEF HasTrigger
<1>4. CASE Finalize
  <2>1. /\ phase = "stopped" /\ phase' = "finalized" /\ stopReason' = stopReason
        /\ candidates' = candidates /\ step' = step
        /\ reviewTriggers' = reviewTriggers \cup ConflictTriggers
    BY <1>4 DEF Finalize
  <2>2. HasTrigger(reviewTriggers', "patch_rejected")
          <=> HasTrigger(reviewTriggers, "patch_rejected")
    BY <2>1, ConflictTriggersType DEF HasTrigger
  <2>3. ActiveCandidates' = ActiveCandidates
    BY <2>1 DEF ActiveCandidates
  <2> QED
    BY <1>0, <2>1, <2>2, <2>3
<1> QED
    BY <1>1, <1>2, <1>3, <1>4 DEF Control

\* What the loop does with a patch keeps the stop reason true.
LEMMA StopPatch ==
    ASSUME TypeOK, StopInv, NEW i \in Candidates, NEW k \in Capabilities,
           NEW p \in PatchOver(Candidates, Name), Working(i, k), HandlePatch(i, k, p)
    PROVE  StopInv'
<1>0. /\ Counted' /\ step' = Cardinality(AppliedIn(events')) /\ step \in Nat /\ MaxSteps \in Nat
    BY CountedPatch, LoopAssumption DEF StopInv, Counted, TypeOK
<1> USE DEF StopInv, Progress, StopReasonSound
<1>1. phase = "looping" /\ reviewTriggers = {} /\ step < MaxSteps
    BY DEF Working, Iterating
<1>2. CASE StopNoProgress(i, k, p)
  <2>1. /\ stopReason' = "no_progress" /\ phase' = "stopped" /\ reviewTriggers' = {}
        /\ report' = [m \in Claim |-> NoReport] /\ step' = step
    BY <1>1, <1>2 DEF StopNoProgress, Stop
  <2> QED
    BY <1>0, <1>1, <2>1 DEF HasTrigger
<1>3. CASE RejectPatch(i, k, p)
  <2>1. /\ stopReason' = "patch_rejected" /\ phase' = "stopped"
        /\ reviewTriggers' = {Trigger("patch_rejected", i, 0)}
        /\ report' = [m \in Claim |-> NoReport] /\ step' = step
    BY <1>1, <1>3 DEF RejectPatch, Stop
  <2> QED
    BY <1>0, <1>1, <2>1 DEF HasTrigger, Trigger
<1>4. CASE ApplyPatch(i, k, p)
    BY <1>0, <1>1, <1>4 DEF ApplyPatch
<1> QED
    BY <1>2, <1>3, <1>4 DEF HandlePatch

\* Every step keeps the stop reason true.
LEMMA StopStep == TypeOK /\ StopInv /\ [Next]_vars => StopInv'
<1> SUFFICES ASSUME TypeOK, StopInv, [Next]_vars PROVE StopInv'
    OBVIOUS
<1>1. CASE Control
    BY <1>1, StopControl
<1>2. CASE UNCHANGED vars
    BY <1>2 DEF vars, StopInv, Progress, Counted, StopReasonSound, ActiveCandidates
<1>3. ASSUME NEW i \in Candidates, NEW k \in Capabilities, Working(i, k),
             ProducerRaises
      PROVE  StopInv'
    BY <1>3
    DEF ProducerRaises, Working, Iterating, StopInv, Progress, Counted, StopReasonSound
<1>4. ASSUME NEW i \in Candidates, NEW k \in Capabilities, Working(i, k),
             NEW p \in Patches, HandlePatch(i, k, p)
      PROVE  StopInv'
    BY <1>4, StopPatch, PatchAssumption
<1> QED
    BY <1>1, <1>2, <1>3, <1>4 DEF Next, Returned

\* The stop reason of a run is true of the board it stops with.
THEOREM StopReasonTheorem == Spec => []StopReasonSound
<1>1. StopInv => StopReasonSound
    BY DEF StopInv
<1> QED
    BY <1>1, TypeInit, TypeStep, StopInit, StopStep, PTL DEF Spec

\* Under a schema whose required slots can all be aligned, a candidate without
\* an active gap has them all aligned.
LEMMA NoGapMeansSupported ==
    ASSUME AlignableSchema, NEW c, ActiveMask(c) = {}
    PROVE  Supported(c)
<1>1. /\ Required \subseteq c.present
      /\ (c.present \cap Required) \subseteq c.assigned
      /\ c.assigned \cap (Comparable \ DirectlyComparable) \subseteq c.normalized
      /\ c.assigned \cap AlignmentRequired
            \cap (c.normalized \cup DirectlyComparable) \subseteq c.aligned
    BY DEF ActiveMask, Gap
<1> QED
    BY <1>1 DEF AlignableSchema, Supported

\* A run that stops as converged has every candidate supported: the gap test
\* of the loop and the alignment test of the report agree.
THEOREM ConvergedTheorem == Spec => []ConvergedMeansSupported
<1>1. StopInv /\ TypeOK => ConvergedMeansSupported
  <2> SUFFICES ASSUME StopInv, TypeOK, AlignableSchema, stopReason = "converged",
                      NEW i \in Candidates
               PROVE  Supported(candidates[i])
    BY DEF ConvergedMeansSupported
  <2>1. phase \in {"stopped", "finalized"}
    BY DEF StopInv, Progress, TypeOK
  <2>2. ActiveMask(candidates[i]) = {}
    BY <2>1 DEF StopInv, StopReasonSound, ActiveCandidates
  <2> QED
    BY <2>2, NoGapMeansSupported
<1> QED
    BY <1>1, TypeInit, TypeStep, StopInit, StopStep, PTL DEF Spec

-----------------------------------------------------------------------------
(***************************************************************************)
(* The verdicts.                                                           *)
(***************************************************************************)

\* What is known of the board when the report is written.
BoardInv == TypeOK /\ LatticeInv /\ EvidenceBacked /\ StopInv

\* The board's invariants hold together.
LEMMA BoardInductive ==
    /\ Init => BoardInv
    /\ BoardInv /\ [Next]_vars => BoardInv'
BY TypeInit, TypeStep, LatticeInit, LatticeStep, EvidenceInit, EvidenceStep,
   StopInit, StopStep
DEF BoardInv

\* A step either keeps report and candidates, or happens before there is a
\* report and writes none, or is Finalize.
LEMMA ReportOnlyAtTheEnd ==
    BoardInv /\ [Next]_vars =>
        \/ UNCHANGED <<phase, stopReason, report, candidates>>
        \/ phase' # "finalized" /\ report' = [m \in Claim |-> NoReport]
        \/ Finalize
<1> SUFFICES ASSUME BoardInv, [Next]_vars, ~Finalize
             PROVE  \/ UNCHANGED <<phase, stopReason, report, candidates>>
                    \/ phase' # "finalized" /\ report' = [m \in Claim |-> NoReport]
    OBVIOUS
<1> USE DEF BoardInv, StopInv, Progress
<1>1. CASE StopConverged \/ StopNoEligible \/ StopExhausted
    BY <1>1 DEF StopConverged, StopNoEligible, StopExhausted, Iterating, Stop
<1>2. CASE UNCHANGED vars
    BY <1>2 DEF vars
<1>3. ASSUME NEW i \in Candidates, NEW k \in Capabilities, Working(i, k),
             ProducerRaises \/ (\E p \in Patches : HandlePatch(i, k, p))
      PROVE  phase' # "finalized" /\ report' = [m \in Claim |-> NoReport]
    BY <1>3
    DEF Working, Iterating, ProducerRaises, HandlePatch, StopNoProgress,
        RejectPatch, ApplyPatch, Stop
<1> QED
    BY <1>1, <1>2, <1>3 DEF Next, Control, Returned

\* The report of a claim with support backs its verdict.
LEMMA FinalizeBacked == BoardInv /\ Finalize => VerdictBacked'
<1> SUFFICES ASSUME BoardInv, Finalize, NEW m \in Claim,
                    report'[m].convergence = "evidence_converged"
             PROVE  /\ report'[m].support \in CandidatesOf(m)
                    /\ LET c == candidates'[report'[m].support]
                       IN  /\ Required \subseteq c.aligned
                           /\ Required \subseteq c.normalized \cup DirectlyComparable
                           /\ Required # {} => ProvenanceComplete(c)
                           /\ \A j \in CandidatesOf(m) : ~Conflicting(c, candidates'[j])
    BY DEF VerdictBacked, CandidatesOf
<1>1. /\ report'[m] = ClaimReport(m, reviewTriggers') /\ candidates' = candidates
      /\ reviewTriggers' = reviewTriggers \cup ConflictTriggers
    BY DEF Finalize
<1>2. SupportOf(m) # {}
    BY <1>1 DEF ClaimReport, UnsupportedReport
<1>3. /\ report'[m].support = SelectedFor(m)
      /\ ~HasTrigger(reviewTriggers', "candidate_conflict")
    BY <1>1, <1>2 DEF ClaimReport, SupportedReport
<1> DEFINE c == candidates[SelectedFor(m)]
<1>4. SelectedFor(m) \in CandidatesOf(m) /\ Required \subseteq c.aligned
    BY <1>2, SelectedIsSupport DEF SupportOf, Supported
<1>5. c.aligned \subseteq c.normalized \cup DirectlyComparable
    BY <1>4 DEF BoardInv, LatticeInv, Lattice, CandidatesOf
<1>6. Required # {} => ProvenanceComplete(c)
    BY <1>4 DEF BoardInv, EvidenceBacked, CandidatesOf
<1>7. ASSUME NEW j \in CandidatesOf(m) PROVE ~Conflicting(c, candidates[j])
  <2>1. CASE j = SelectedFor(m)
    BY <2>1 DEF Conflicting
  <2>2. CASE j # SelectedFor(m)
    <3> SUFFICES ASSUME Conflicting(c, candidates[j]) PROVE FALSE
        OBVIOUS
    <3>0. m \in {n \in Claim : SupportOf(n) # {}}
        BY <1>2
    <3>1. j \in {l \in CandidatesOf(m) \ {SelectedFor(m)} :
                  Conflicting(candidates[SelectedFor(m)], candidates[l])}
        BY <2>2
    <3>2. Trigger("candidate_conflict", SelectedFor(m), j) \in ConflictTriggers
        BY <3>0, <3>1 DEF ConflictTriggers
    <3> QED
        BY <1>1, <1>3, <3>2 DEF HasTrigger, Trigger
  <2> QED
    BY <2>1, <2>2
<1> QED
    BY <1>1, <1>3, <1>4, <1>5, <1>6, <1>7

\* A claim is reported converged only with a candidate of its own that is
\* aligned, normalized and sourced, and that no other candidate of the claim
\* contradicts.
THEOREM VerdictTheorem == Spec => []VerdictBacked
<1>1. Init => VerdictBacked
    BY DEF Init, VerdictBacked, NoReport
<1>2. BoardInv /\ VerdictBacked /\ [Next]_vars => VerdictBacked'
  <2> SUFFICES ASSUME BoardInv, VerdictBacked, [Next]_vars PROVE VerdictBacked'
    OBVIOUS
  <2>1. CASE UNCHANGED <<phase, stopReason, report, candidates>>
    BY <2>1 DEF VerdictBacked
  <2>2. CASE report' = [m \in Claim |-> NoReport]
    BY <2>2 DEF VerdictBacked, NoReport
  <2>3. CASE Finalize
    BY <2>3, FinalizeBacked
  <2> QED
    BY <2>1, <2>2, <2>3, ReportOnlyAtTheEnd
<1> QED
    BY <1>1, <1>2, BoardInductive, PTL DEF Spec

\* The report after a rejection asks for review of every unsupported claim.
LEMMA FinalizeReportsRejection == BoardInv /\ Finalize => RejectionReported'
<1> SUFFICES ASSUME BoardInv, Finalize, stopReason' = "patch_rejected",
                    NEW m \in Claim, report'[m].support = 0
             PROVE  /\ report'[m].alignment = "not_evaluated"
                    /\ report'[m].convergence = "needs_review_unresolved_gap"
    BY DEF RejectionReported
<1>1. /\ report'[m] = ClaimReport(m, reviewTriggers') /\ stopReason' = stopReason
      /\ reviewTriggers' = reviewTriggers \cup ConflictTriggers /\ phase = "stopped"
    BY DEF Finalize
<1>2. SupportOf(m) = {}
  <2> SUFFICES ASSUME SupportOf(m) # {} PROVE FALSE
    OBVIOUS
  <2>1. SelectedFor(m) \in Candidates
    BY SelectedIsSupport DEF SupportOf, CandidatesOf
  <2>2. report'[m].support = SelectedFor(m)
    BY <1>1 DEF ClaimReport, SupportedReport
  <2> QED
    BY <2>1, <2>2, LoopAssumption DEF Candidates
<1>3. HasTrigger(reviewTriggers', "patch_rejected")
    BY <1>1 DEF BoardInv, StopInv, StopReasonSound, HasTrigger
<1> QED
    BY <1>1, <1>2, <1>3 DEF ClaimReport, UnsupportedReport

\* A rejected patch is never silent: after it every claim without a finished
\* candidate asks for review.
THEOREM RejectionTheorem == Spec => []RejectionReported
<1>1. Init => RejectionReported
    BY DEF Init, RejectionReported
<1>2. BoardInv /\ RejectionReported /\ [Next]_vars => RejectionReported'
  <2> SUFFICES ASSUME BoardInv, RejectionReported, [Next]_vars
               PROVE  RejectionReported'
    OBVIOUS
  <2>1. CASE UNCHANGED <<phase, stopReason, report, candidates>>
    BY <2>1 DEF RejectionReported
  <2>2. CASE phase' # "finalized"
    BY <2>2 DEF RejectionReported
  <2>3. CASE Finalize
    BY <2>3, FinalizeReportsRejection
  <2> QED
    BY <2>1, <2>2, <2>3, ReportOnlyAtTheEnd
<1> QED
    BY <1>1, <1>2, BoardInductive, PTL DEF Spec

-----------------------------------------------------------------------------
(***************************************************************************)
(* The trace.                                                              *)
(***************************************************************************)

\* What the events of some steps add to the trace is in it, and the trace
\* loses nothing.
LEMMA TraceGrows ==
    ASSUME events \in Seq(EventRecord), NEW t \in Seq(EventRecord), events' = events \o t
    PROVE  /\ \A i, b : AppliedBy(i, b) \subseteq AppliedBy(i, b)'
           /\ \A i, b : \A n \in DOMAIN t :
                 (t[n].type = "patch_applied" /\ t[n].candidate = i /\ b \in t[n].touched)
                     => t[n] \in AppliedTo(i, b)'
<1>1. /\ DOMAIN events = 1 .. Len(events) /\ DOMAIN t = 1 .. Len(t)
      /\ Len(events) \in Nat /\ Len(t) \in Nat
      /\ DOMAIN events' = 1 .. Len(events) + Len(t)
      /\ \A n \in 1 .. Len(events) + Len(t) :
            events'[n] = IF n <= Len(events) THEN events[n] ELSE t[n - Len(events)]
    BY ConcatProperties, LenProperties
<1>2. \A n \in DOMAIN events : n \in DOMAIN events' /\ events'[n] = events[n]
    BY <1>1
<1>3. \A n \in DOMAIN t : \E m \in DOMAIN events' : events'[m] = t[n]
  <2> TAKE n \in DOMAIN t
  <2>1. /\ n + Len(events) \in 1 .. Len(events) + Len(t)
        /\ ~(n + Len(events) <= Len(events)) /\ (n + Len(events)) - Len(events) = n
    BY <1>1
  <2> QED
    BY <1>1, <2>1
<1>4. \A i, b : AppliedTo(i, b) \subseteq AppliedTo(i, b)'
    BY <1>2 DEF AppliedTo
<1>5. \A i, b : AppliedBy(i, b) \subseteq AppliedBy(i, b)'
    BY <1>4 DEF AppliedBy
<1>6. \A i, b : \A n \in DOMAIN t :
         (t[n].type = "patch_applied" /\ t[n].candidate = i /\ b \in t[n].touched)
             => t[n] \in AppliedTo(i, b)'
    BY <1>3 DEF AppliedTo
<1> QED
    BY <1>5, <1>6

\* Whatever is added to the trace, it explains the candidates it explained.
LEMMA TraceKept ==
    ASSUME TraceExplainsState, events \in Seq(EventRecord), UNCHANGED candidates,
           UNCHANGED events \/ \E t \in Seq(EventRecord) : events' = events \o t
    PROVE  TraceExplainsState'
<1>1. \A i, b : AppliedBy(i, b) \subseteq AppliedBy(i, b)'
  <2>1. CASE UNCHANGED events
    BY <2>1 DEF AppliedBy, AppliedTo
  <2>2. CASE \E t \in Seq(EventRecord) : events' = events \o t
    BY <2>2, TraceGrows
  <2> QED
    BY <2>1, <2>2
<1> QED
    BY <1>1 DEF TraceExplainsState

\* The steps that take no patch add no explanation and need none.
LEMMA TraceControl == TypeOK /\ TraceExplainsState /\ Control => TraceExplainsState'
<1> SUFFICES ASSUME TypeOK, TraceExplainsState, Control PROVE TraceExplainsState'
    OBVIOUS
<1>0. events \in Seq(EventRecord)
    BY DEF TypeOK
<1>1. CASE StopConverged \/ StopExhausted
    BY <1>0, <1>1, TraceKept DEF StopConverged, StopExhausted, Stop
<1>2. CASE StopNoEligible
  <2> DEFINE t == <<Event("gap_computed", Current, None, {}),
                    Event("stopped", Current, None, {})>>
  <2>1. Current \in 0 .. NumCandidates
    BY <1>2, CurrentIsActive, CandidatesInRange DEF StopNoEligible, ActiveCandidates
  <2>2. /\ Event("gap_computed", Current, None, {}) \in EventRecord
        /\ Event("stopped", Current, None, {}) \in EventRecord
    BY <2>1, EventType DEF EventTypes
  <2>3. t \in Seq(EventRecord)
    BY <2>2
  <2>4. UNCHANGED candidates /\ events' = events \o t
    BY <1>2 DEF StopNoEligible, Stop
  <2> HIDE DEF t
  <2> QED
    BY <1>0, <2>3, <2>4, TraceKept
<1>3. CASE Finalize
  <2> DEFINE e == Event("finalized", 0, None, {})
  <2>1. e \in EventRecord
    BY EventType, LoopAssumption DEF EventTypes
  <2>2. UNCHANGED candidates /\ events' = Append(events, e)
    BY <1>3 DEF Finalize
  <2> HIDE DEF e
  <2>3. Append(events, e) = events \o <<e>> /\ <<e>> \in Seq(EventRecord)
    BY <1>0, <2>1, AppendIsConcat
  <2> QED
    BY <1>0, <2>2, <2>3, TraceKept
<1> QED
    BY <1>1, <1>2, <1>3 DEF Control

\* An applied patch explains what it sets, with the permissions of its
\* capability.
LEMMA TracePatch ==
    ASSUME TypeOK, TraceExplainsState, NEW i \in Candidates, NEW k \in Capabilities,
           NEW p \in PatchOver(Candidates, Name), HandlePatch(i, k, p)
    PROVE  TraceExplainsState'
<1>0. events \in Seq(EventRecord)
    BY DEF TypeOK
<1>1. ASSUME NEW type \in EventTypes, NEW touched \in SUBSET Bits
      PROVE  /\ ProposalEvents(i, k, p) \o <<Event(type, i, k.name, touched)>>
                   \in Seq(EventRecord)
             /\ events \o ProposalEvents(i, k, p) \o <<Event(type, i, k.name, touched)>>
                   = events \o (ProposalEvents(i, k, p) \o <<Event(type, i, k.name, touched)>>)
             /\ LET t == ProposalEvents(i, k, p) \o <<Event(type, i, k.name, touched)>>
                IN  4 \in DOMAIN t /\ t[4] = Event(type, i, k.name, touched)
  <2> DEFINE e == Event(type, i, k.name, touched)
             q == ProposalEvents(i, k, p)
  <2>1. i \in 0 .. NumCandidates /\ k.name \in Name /\ TouchedMask(p) \in SUBSET Bits
    BY CandidatesInRange, CapabilityAssumption, TouchedMaskType DEF CapabilitySpecOver
  <2>2. /\ Event("gap_computed", i, None, {}) \in EventRecord
        /\ Event("capability_selected", i, k.name, {}) \in EventRecord
        /\ Event("patch_proposed", i, k.name, TouchedMask(p)) \in EventRecord
        /\ e \in EventRecord
    BY <2>1, EventType DEF EventTypes
  <2>3. q \in Seq(EventRecord) /\ Len(q) = 3
    BY <2>2 DEF ProposalEvents
  <2>4. <<e>> \in Seq(EventRecord) /\ Len(<<e>>) = 1 /\ <<e>>[1] = e
    BY <2>2
  <2> HIDE DEF q, e
  <2>5. /\ q \o <<e>> \in Seq(EventRecord) /\ Len(q \o <<e>>) = 4
        /\ (q \o <<e>>)[4] = <<e>>[1]
    <3> DEFINE u == <<e>>
    <3>1. q \in Seq(EventRecord) /\ Len(q) = 3 /\ u \in Seq(EventRecord) /\ Len(u) = 1
      BY <2>3, <2>4
    <3> HIDE DEF u
    <3>2. /\ q \o u \in Seq(EventRecord) /\ Len(q \o u) = Len(q) + Len(u)
          /\ \A n \in 1 .. Len(q) + Len(u) :
                (q \o u)[n] = IF n <= Len(q) THEN q[n] ELSE u[n - Len(q)]
      BY <3>1, ConcatProperties
    <3>3. 4 \in 1 .. 3 + 1 /\ ~(4 <= 3) /\ 4 - 3 = 1
      OBVIOUS
    <3> QED
      BY <3>1, <3>2, <3>3 DEF u
  <2>6. (events \o q) \o <<e>> = events \o (q \o <<e>>)
    BY <1>0, <2>3, <2>4, ConcatAssociative
  <2>7. 4 \in DOMAIN (q \o <<e>>)
    BY <2>5, LenProperties
  <2> QED
    BY <2>4, <2>5, <2>6, <2>7 DEF q, e
<1>2. TouchedMask(p) \in SUBSET Bits /\ {} \in SUBSET Bits
    BY TouchedMaskType
<1>3. CASE StopNoProgress(i, k, p) \/ RejectPatch(i, k, p)
  <2>1. PICK type \in EventTypes :
           events' = events \o ProposalEvents(i, k, p) \o <<Event(type, i, k.name, {})>>
    BY <1>3 DEF StopNoProgress, RejectPatch, EventTypes
  <2>2. UNCHANGED candidates
    BY <1>3 DEF StopNoProgress, RejectPatch, Stop
  <2> QED
    BY <1>0, <1>1, <1>2, <2>1, <2>2, TraceKept
<1>4. CASE ApplyPatch(i, k, p)
  <2> DEFINE e == Event("patch_applied", i, k.name, TouchedMask(p))
             t == ProposalEvents(i, k, p) \o <<e>>
             c == candidates[i]
  <2>1. "patch_applied" \in EventTypes
    BY DEF EventTypes
  <2>2. /\ t \in Seq(EventRecord) /\ events' = events \o t /\ 4 \in DOMAIN t /\ t[4] = e
    BY <1>1, <1>2, <1>4, <2>1 DEF ApplyPatch
  <2>3. /\ e.type = "patch_applied" /\ e.candidate = i /\ e.capability = k.name
        /\ e.touched = TouchedMask(p)
    BY DEF Event
  <2> HIDE DEF t, e
  <2>4. \A j, b : AppliedBy(j, b) \subseteq AppliedBy(j, b)'
    BY <1>0, <2>2, TraceGrows
  <2>5. ASSUME NEW b \in TouchedMask(p) PROVE k \in AppliedBy(i, b)'
    <3>1. e \in AppliedTo(i, b)'
      BY <1>0, <2>2, <2>3, TraceGrows
    <3> QED
      BY <2>3, <3>1 DEF AppliedBy
  <2>6. /\ p.present \subseteq k.mayPresent /\ p.assigned \subseteq k.mayAssigned
        /\ p.normalized \subseteq k.mayNormalized /\ p.aligned \subseteq k.mayAligned
    BY <1>4 DEF ApplyPatch, ValidPatch, Permitted
  <2>7. /\ p.present \subseteq TouchedMask(p) /\ p.assigned \subseteq TouchedMask(p)
        /\ p.normalized \subseteq TouchedMask(p) /\ p.aligned \subseteq TouchedMask(p)
    BY DEF TouchedMask
  <2>8. \A j \in Candidates :
           candidates'[j] = IF j = i THEN AfterPatch(c, p) ELSE candidates[j]
    BY <1>4 DEF ApplyPatch, TypeOK
  <2>9. /\ AfterPatch(c, p).present = c.present \cup p.present
        /\ AfterPatch(c, p).assigned = c.assigned \cup p.assigned
        /\ AfterPatch(c, p).normalized = c.normalized \cup p.normalized
        /\ AfterPatch(c, p).aligned = c.aligned \cup p.aligned
    BY DEF AfterPatch
  <2>10. ASSUME NEW j \in Candidates
         PROVE  /\ \A b \in candidates'[j].present :
                      \E l \in AppliedBy(j, b)' : b \in l.mayPresent
                /\ \A b \in candidates'[j].assigned :
                      \E l \in AppliedBy(j, b)' : b \in l.mayAssigned
                /\ \A b \in candidates'[j].normalized :
                      \E l \in AppliedBy(j, b)' : b \in l.mayNormalized
                /\ \A b \in candidates'[j].aligned :
                      \E l \in AppliedBy(j, b)' : b \in l.mayAligned
    <3>1. /\ \A b \in candidates[j].present : \E l \in AppliedBy(j, b)' : b \in l.mayPresent
          /\ \A b \in candidates[j].assigned : \E l \in AppliedBy(j, b)' : b \in l.mayAssigned
          /\ \A b \in candidates[j].normalized :
                \E l \in AppliedBy(j, b)' : b \in l.mayNormalized
          /\ \A b \in candidates[j].aligned : \E l \in AppliedBy(j, b)' : b \in l.mayAligned
      BY <2>4 DEF TraceExplainsState
    <3>2. CASE j # i
      BY <2>8, <3>1, <3>2
    <3>3. CASE j = i
      BY <2>5, <2>6, <2>7, <2>8, <2>9, <3>1, <3>3
    <3> QED
      BY <3>2, <3>3
  <2> QED
    BY <2>10 DEF TraceExplainsState
<1> QED
    BY <1>3, <1>4 DEF HandlePatch

LEMMA TraceInit == Init => TraceExplainsState
BY DEF Init, TraceExplainsState, SeededCandidate

\* Every step keeps the trace an explanation of the state.
LEMMA TraceStep == TypeOK /\ TraceExplainsState /\ [Next]_vars => TraceExplainsState'
<1> SUFFICES ASSUME TypeOK, TraceExplainsState, [Next]_vars PROVE TraceExplainsState'
    OBVIOUS
<1>1. CASE Control
    BY <1>1, TraceControl
<1>2. CASE UNCHANGED vars
    BY <1>2 DEF vars, TraceExplainsState, AppliedBy, AppliedTo
<1>3. ASSUME NEW i \in Candidates, NEW k \in Capabilities, Working(i, k),
             ProducerRaises
      PROVE  TraceExplainsState'
    BY <1>3 DEF ProducerRaises, TraceExplainsState, AppliedBy, AppliedTo
<1>4. ASSUME NEW i \in Candidates, NEW k \in Capabilities, Working(i, k),
             NEW p \in Patches, HandlePatch(i, k, p)
      PROVE  TraceExplainsState'
    BY <1>4, TracePatch, PatchAssumption
<1> QED
    BY <1>1, <1>2, <1>3, <1>4 DEF Next, Returned

\* Each bit a candidate has advanced to was touched by an applied patch of a
\* capability that may set it: the trace explains the board.
THEOREM TraceTheorem == Spec => []TraceExplainsState
<1> QED
    BY TypeInit, TypeStep, TraceInit, TraceStep, PTL DEF Spec

-----------------------------------------------------------------------------
(***************************************************************************)
(* The runner implements ConvergenceContract (its safety part).            *)
(***************************************************************************)

\* The slots of each candidate that count as settled in the contract.
Settled == [i \in Candidates |-> candidates[i].aligned \cap Required]

Judged == [m \in Claim |-> VerdictOf(report[m].convergence)]

\* The seeded board is an initial state of the contract.
LEMMA ContractInit == Init => Contract!Init
<1> SUFFICES ASSUME Init PROVE Contract!Init
    OBVIOUS
<1>1. \A i \in Candidates : candidates[i].aligned \cap Required = {}
    BY DEF Init, SeededCandidate
<1>2. \A m \in Claim : VerdictOf(report[m].convergence) = "none"
    BY DEF Init, NoReport, VerdictOf
<1> QED
    BY <1>1, <1>2 DEF Init, Contract!Init

\* Leaving the loop, by a stop or an exception, is Close.
LEMMA ContractClose ==
    ASSUME phase = "looping", phase' \in {"stopped", "raised"},
           UNCHANGED <<candidates, step, report>>
    PROVE  Contract!Close
BY DEF Contract!Close

\* Applying a valid patch is one step of Work: the slots it aligns settle.
LEMMA ContractWork ==
    ASSUME TypeOK, NEW i \in Candidates, NEW k \in Capabilities, NEW p,
           Working(i, k), ApplyPatch(i, k, p)
    PROVE  Contract!Work(i)
<1>1. /\ phase = "looping" /\ phase' = phase /\ step < MaxSteps /\ step' = step + 1
      /\ report' = report
      /\ candidates' = [candidates EXCEPT ![i] = AfterPatch(candidates[i], p)]
    BY DEF Working, Iterating, ApplyPatch
<1>2. AfterPatch(candidates[i], p).aligned = candidates[i].aligned \cup p.aligned
    BY DEF AfterPatch
<1>3. \A j \in Candidates :
          candidates'[j].aligned =
            IF j = i THEN candidates[j].aligned \cup p.aligned ELSE candidates[j].aligned
    BY <1>1, <1>2 DEF TypeOK
<1>4. Settled' = [Settled EXCEPT ![i] = Settled[i] \cup (p.aligned \cap Required)]
    BY <1>3 DEF Settled
<1>5. p.aligned \cap Required \in SUBSET Required
    OBVIOUS
<1>6. \E S \in SUBSET Required : Settled' = [Settled EXCEPT ![i] = Settled[i] \cup S]
    BY <1>4, <1>5
<1> QED
    BY <1>1, <1>6 DEF Contract!Work, Settled

\* A claim's report is one of the contract's judgements on its candidates.
LEMMA ReportIsJudgement ==
    ASSUME NEW m \in Claim, NEW triggers
    PROVE  VerdictOf(ClaimReport(m, triggers).convergence) \in Contract!Judgements(m)
<1>1. (\E i \in Candidates : ClaimOf[i] = m /\ Settled[i] = Required)
        <=> SupportOf(m) # {}
  <2>1. \A i \in Candidates : Settled[i] = Required <=> Supported(candidates[i])
    BY DEF Settled, Supported
  <2> QED
    BY <2>1 DEF SupportOf, CandidatesOf
<1>2. CASE SupportOf(m) # {}
  <2>1. Contract!Judgements(m) = {"converged", "review"}
    BY <1>1, <1>2 DEF Contract!Judgements, Settled
  <2> QED
    BY <1>2, <2>1 DEF ClaimReport, SupportedReport, VerdictOf
<1>3. CASE SupportOf(m) = {}
  <2>1. Contract!Judgements(m) = {"review", "insufficient"}
    BY <1>1, <1>3 DEF Contract!Judgements, Settled
  <2> QED
    BY <1>3, <2>1 DEF ClaimReport, UnsupportedReport, VerdictOf
<1> QED
    BY <1>2, <1>3

\* Writing the report is Judge.
LEMMA ContractJudge ==
    ASSUME TypeOK, Finalize
    PROVE  Contract!Judge
<1>1. /\ phase = "stopped" /\ phase' = "finalized" /\ UNCHANGED <<candidates, step>>
      /\ report' = [m \in Claim |-> ClaimReport(m, reviewTriggers')]
    BY DEF Finalize
<1>2. \A m \in Claim : Judged'[m] \in Contract!Judgements(m)
    BY <1>1, ReportIsJudgement DEF Judged
<1>3. \A m \in Claim : Contract!Judgements(m) \subseteq Contract!Verdicts
    BY DEF Contract!Judgements, Contract!Verdicts
<1>4. Judged' \in [Claim -> Contract!Verdicts]
    BY <1>2, <1>3 DEF Judged
<1> QED
    BY <1>1, <1>2, <1>4 DEF Contract!Judge, Judged

\* Every step of the runner is a step of the contract or a stutter.
LEMMA ContractStep ==
    TypeOK /\ [Next]_vars => [Contract!Next]_(Contract!vars)
<1> SUFFICES ASSUME TypeOK, [Next]_vars PROVE [Contract!Next]_(Contract!vars)
    OBVIOUS
<1>1. CASE StopConverged \/ StopNoEligible \/ StopExhausted
  <2>1. /\ phase = "looping" /\ phase' = "stopped"
        /\ UNCHANGED <<candidates, step, report>>
    BY <1>1 DEF StopConverged, StopNoEligible, StopExhausted, Iterating, Stop
  <2> QED
    BY <2>1, ContractClose DEF Contract!Next
<1>2. CASE Finalize
    BY <1>2, ContractJudge DEF Contract!Next
<1>3. CASE UNCHANGED vars
    BY <1>3 DEF vars, Contract!vars
<1>4. ASSUME NEW i \in Candidates, NEW k \in Capabilities, Working(i, k),
             ProducerRaises
      PROVE  Contract!Next
  <2>1. /\ phase = "looping" /\ phase' = "raised"
        /\ UNCHANGED <<candidates, step, report>>
    BY <1>4 DEF Working, Iterating, ProducerRaises
  <2> QED
    BY <2>1, ContractClose DEF Contract!Next
<1>5. ASSUME NEW i \in Candidates, NEW k \in Capabilities, Working(i, k),
             NEW p \in Patches, HandlePatch(i, k, p)
      PROVE  Contract!Next
  <2>1. CASE StopNoProgress(i, k, p) \/ RejectPatch(i, k, p)
    <3>1. /\ phase = "looping" /\ phase' = "stopped"
          /\ UNCHANGED <<candidates, step, report>>
      BY <1>5, <2>1 DEF Working, Iterating, StopNoProgress, RejectPatch, Stop
    <3> QED
      BY <3>1, ContractClose DEF Contract!Next
  <2>2. CASE ApplyPatch(i, k, p)
    BY <1>5, <2>2, ContractWork DEF Contract!Next
  <2> QED
    BY <1>5, <2>1, <2>2 DEF HandlePatch
<1> QED
    BY <1>1, <1>2, <1>3, <1>4, <1>5 DEF Next, Control, Returned

\* Settled slots stay settled, work is bounded by max_steps, and each claim is
\* judged once, after the loop, by whether a candidate of its own settled
\* every required slot: the safety part of ImplementsContract.
THEOREM ContractTheorem ==
    Spec => Contract!Init /\ [][Contract!Next]_(Contract!vars)
<1> QED
    BY ContractInit, ContractStep, TypeInit, TypeStep, PTL DEF Spec

=============================================================================
