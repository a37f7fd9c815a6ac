----------------------------- MODULE MaskKernel -----------------------------
(***************************************************************************)
(* The data model of the convergence kernel: the schema masks, the         *)
(* candidate mask state, its gap, the patches capabilities propose and the *)
(* checks PatchValidator makes before one is applied                       *)
(* (src/evidence_toolchain/convergence/{schemas,candidates,gaps,patches,   *)
(* masks,validator}.py).                                                   *)
(*                                                                         *)
(* A bit mask is the set of its bits; a dict keyed by slot bit is a        *)
(* function whose domain is the set of its keys.  The content of an        *)
(* alignment record only echoes the two values compared, so                *)
(* alignment_by_slot is kept as its key set.  rejected_mask is never set   *)
(* by any code and schema_id is copied from the schema at seeding and never*)
(* changed by a patch, so neither is kept.                                 *)
(***************************************************************************)
EXTENDS Naturals, FiniteSets

CONSTANTS
    Bits,                \* every bit a mask may name, in the schema or not
    Slots,               \* schema_mask
    Required,            \* required_mask
    Comparable,          \* comparable_mask
    DirectlyComparable,  \* directly_comparable_mask
    AlignmentRequired,   \* alignment_required_mask
    ProvenanceRequired,  \* provenance_required_mask
    Value,               \* payload values, raw or normalized
    Ref                  \* ids of evidence units

\* EvidenceSchema computes every mask from its slots; it has at least one.
ASSUME SchemaAssumption ==
    /\ Slots # {} /\ Slots \subseteq Bits
    /\ Required \subseteq Slots
    /\ Comparable \subseteq Slots
    /\ DirectlyComparable \subseteq Slots
    /\ AlignmentRequired \subseteq Slots
    /\ ProvenanceRequired \subseteq Slots

-----------------------------------------------------------------------------
(***************************************************************************)
(* Dicts keyed by slot bit.                                                *)
(***************************************************************************)
Dict(V) == UNION {[D -> V] : D \in SUBSET Bits}

EmptyDict == [b \in {} |-> {}]

\* {**cur, **upd}
MergeDict(cur, upd) ==
    [b \in DOMAIN cur \cup DOMAIN upd |->
        IF b \in DOMAIN upd THEN upd[b] ELSE cur[b]]

\* _merge_source_refs: refs of a slot accumulate, without duplicates.
MergeSourceRefs(cur, upd) ==
    [b \in DOMAIN cur \cup DOMAIN upd |->
        (IF b \in DOMAIN cur THEN cur[b] ELSE {})
            \cup (IF b \in DOMAIN upd THEN upd[b] ELSE {})]

\* Slots that hold a non-empty source ref tuple.
Sourced(refs) == {b \in DOMAIN refs : refs[b] # {}}

-----------------------------------------------------------------------------
(***************************************************************************)
(* Candidates, patches, capability specs.                                  *)
(***************************************************************************)
Candidate ==
    [present : SUBSET Bits, assigned : SUBSET Bits,
     normalized : SUBSET Bits, aligned : SUBSET Bits,
     ambiguous : SUBSET Bits, issue : SUBSET Bits,
     payload : Dict(Value), refs : Dict(SUBSET Ref),
     normalizedPayload : Dict(Value), alignment : SUBSET Bits]

\* What seed_usage_candidate creates: nothing is known of any slot.
SeededCandidate ==
    [present |-> {}, assigned |-> {}, normalized |-> {}, aligned |-> {},
     ambiguous |-> {}, issue |-> {},
     payload |-> EmptyDict, refs |-> EmptyDict,
     normalizedPayload |-> EmptyDict, alignment |-> {}]

PatchOver(CandidateId, Name) ==
    [candidate : CandidateId, capability : Name,
     present : SUBSET Bits, assigned : SUBSET Bits,
     normalized : SUBSET Bits, aligned : SUBSET Bits,
     setAmbiguous : SUBSET Bits, clearAmbiguous : SUBSET Bits,
     setIssue : SUBSET Bits, clearIssue : SUBSET Bits,
     payload : Dict(Value), refs : Dict(SUBSET Ref),
     normalizedPayload : Dict(Value), alignment : SUBSET Bits]

\* MaskPatch() with no update: every field at its default.
EmptyPatch(i, name) ==
    [candidate |-> i, capability |-> name,
     present |-> {}, assigned |-> {}, normalized |-> {}, aligned |-> {},
     setAmbiguous |-> {}, clearAmbiguous |-> {},
     setIssue |-> {}, clearIssue |-> {},
     payload |-> EmptyDict, refs |-> EmptyDict,
     normalizedPayload |-> EmptyDict, alignment |-> {}]

TouchedMask(p) ==
    UNION {p.present, p.assigned, p.normalized, p.aligned,
           p.setAmbiguous, p.clearAmbiguous, p.setIssue, p.clearIssue,
           DOMAIN p.payload, DOMAIN p.refs,
           DOMAIN p.normalizedPayload, p.alignment}

GapKinds ==
    {"missing", "unassigned", "unnormalized", "unaligned", "ambiguous", "issue"}

\* priority is _kind_priority(kind); nameRank orders the capability names.
CapabilitySpecOver(Name) ==
    [name : Name, nameRank : Nat, priority : 0 .. 3, cost : Nat,
     handles : SUBSET Bits, inputRequired : SUBSET Bits,
     gapKinds : SUBSET GapKinds,
     mayPresent : SUBSET Bits, mayAssigned : SUBSET Bits,
     mayNormalized : SUBSET Bits, mayAligned : SUBSET Bits,
     maySetAmbiguous : SUBSET Bits, mayClearAmbiguous : SUBSET Bits,
     maySetIssue : SUBSET Bits, mayClearIssue : SUBSET Bits]

-----------------------------------------------------------------------------
(***************************************************************************)
(* compute_candidate_gap: what each slot still needs, by kind.             *)
(***************************************************************************)
Gap(c) ==
    [missing |-> Required \ c.present,
     unassigned |-> (c.present \cap Required) \ c.assigned,
     unnormalized |->
        (c.assigned \cap (Comparable \ DirectlyComparable)) \ c.normalized,
     unaligned |->
        (c.assigned \cap AlignmentRequired
            \cap (c.normalized \cup DirectlyComparable)) \ c.aligned,
     ambiguous |-> c.ambiguous,
     issue |-> c.issue]

\* Mutant: a slot waiting for alignment does not keep the gap active.
ActiveMaskUnalignedDropped(c) ==
    LET g == Gap(c)
    IN  UNION {g.missing, g.unassigned, g.unnormalized, g.ambiguous}

\* Issues alone do not make a gap active.
ActiveMask(c) ==
    LET g == Gap(c)
    IN  UNION {g.missing, g.unassigned, g.unnormalized, g.unaligned, g.ambiguous}

-----------------------------------------------------------------------------
(***************************************************************************)
(* PatchValidator.                                                         *)
(***************************************************************************)
CandidateInSchema(c) ==
    UNION {c.present, c.assigned, c.normalized, c.aligned, c.ambiguous, c.issue,
           DOMAIN c.payload, DOMAIN c.refs, DOMAIN c.normalizedPayload,
           c.alignment} \subseteq Slots

\* The lattice: unknown -> present -> assigned -> normalized -> aligned.
Lattice(c) ==
    /\ c.assigned \subseteq c.present
    /\ c.normalized \subseteq c.assigned
    /\ c.aligned \subseteq c.normalized \cup DirectlyComparable

ProvenanceComplete(c) == ProvenanceRequired \subseteq Sourced(c.refs)

\* Mutant: the lattice is not checked.
ValidCandidateStateNoLattice(c) == CandidateInSchema(c) /\ ProvenanceComplete(c)

ValidCandidateState(c) ==
    /\ CandidateInSchema(c)
    /\ Lattice(c)
    /\ ProvenanceComplete(c)

\* _candidate_after_patch: masks and dicts only grow; ambiguous and issue
\* bits are set first and cleared after.
AfterPatch(c, p) ==
    [present |-> c.present \cup p.present,
     assigned |-> c.assigned \cup p.assigned,
     normalized |-> c.normalized \cup p.normalized,
     aligned |-> c.aligned \cup p.aligned,
     ambiguous |-> (c.ambiguous \cup p.setAmbiguous) \ p.clearAmbiguous,
     issue |-> (c.issue \cup p.setIssue) \ p.clearIssue,
     payload |-> MergeDict(c.payload, p.payload),
     refs |-> MergeSourceRefs(c.refs, p.refs),
     normalizedPayload |-> MergeDict(c.normalizedPayload, p.normalizedPayload),
     alignment |-> c.alignment \cup p.alignment]

\* Mutant: no capability needs permission to align.
PermittedAlignmentUnchecked(p, k) ==
    /\ p.present \subseteq k.mayPresent
    /\ p.assigned \subseteq k.mayAssigned
    /\ p.normalized \subseteq k.mayNormalized
    /\ p.setAmbiguous \subseteq k.maySetAmbiguous
    /\ p.clearAmbiguous \subseteq k.mayClearAmbiguous
    /\ DOMAIN p.payload \subseteq k.mayAssigned
    /\ DOMAIN p.refs \subseteq k.mayPresent \cup k.mayAssigned
    /\ DOMAIN p.normalizedPayload \subseteq k.mayNormalized

\* The patch sets and clears only bits its capability may.
Permitted(p, k) ==
    /\ p.present \subseteq k.mayPresent
    /\ p.assigned \subseteq k.mayAssigned
    /\ p.normalized \subseteq k.mayNormalized
    /\ p.aligned \subseteq k.mayAligned
    /\ p.setAmbiguous \subseteq k.maySetAmbiguous
    /\ p.clearAmbiguous \subseteq k.mayClearAmbiguous
    /\ p.setIssue \subseteq k.maySetIssue
    /\ p.clearIssue \subseteq k.mayClearIssue
    /\ DOMAIN p.payload \subseteq k.mayAssigned
    /\ DOMAIN p.refs \subseteq k.mayPresent \cup k.mayAssigned
    /\ DOMAIN p.normalizedPayload \subseteq k.mayNormalized
    /\ p.alignment \subseteq k.mayAligned

\* Mutant: one source ref is enough for the whole payload.
PayloadSourcedOnce(p) == DOMAIN p.payload # {} => Sourced(p.refs) # {}

PayloadSourced(p) == DOMAIN p.payload \subseteq Sourced(p.refs)

\* validate_patch accepts patch p of capability k for candidate c, whose id
\* is i.
ValidPatch(i, c, p, k) ==
    /\ p.candidate = i
    /\ p.capability = k.name
    /\ k.inputRequired \subseteq c.present
    /\ TouchedMask(p) \subseteq k.handles
    /\ TouchedMask(p) \subseteq Slots
    /\ Permitted(p, k)
    /\ PayloadSourced(p)
    /\ ValidCandidateState(AfterPatch(c, p))

=============================================================================
