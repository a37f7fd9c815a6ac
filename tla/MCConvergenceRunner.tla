------------------------ MODULE MCConvergenceRunner -------------------------
(***************************************************************************)
(* A two-slot schema (one slot compared directly, one after normalization) *)
(* and one bit outside it, three built-in style capabilities, an LLM one   *)
(* that may also flag ambiguity and align directly comparable slots, and a *)
(* menu of patches in which every check of validate_patch is both met and  *)
(* failed.                                                                 *)
(***************************************************************************)
EXTENDS ConvergenceRunner

CONSTANTS site, qty, extra, v, w, r, c1, c2,
          assigner, normalizer, aligner, llm

MCBits == {site, qty, extra}
MCSlots == {site, qty}
MCDirect == {site}
MCComparable == {qty}
MCContext == {site}
MCOneClaim == [i \in 1 .. 2 |-> c1]
MCTwoClaims == [i \in 1 .. 3 |-> IF i = 3 THEN c2 ELSE c1]

BareSpec(name, rank, priority, cost, kinds, handles, input) ==
    [name |-> name, nameRank |-> rank, priority |-> priority, cost |-> cost,
     handles |-> handles, inputRequired |-> input, gapKinds |-> kinds,
     mayPresent |-> {}, mayAssigned |-> {}, mayNormalized |-> {},
     mayAligned |-> {}, maySetAmbiguous |-> {}, mayClearAmbiguous |-> {},
     maySetIssue |-> {}, mayClearIssue |-> {}]

MCCapabilities ==
    {[BareSpec(assigner, 3, 0, 5, {"missing", "unassigned"}, MCSlots, {})
        EXCEPT !.mayPresent = MCSlots, !.mayAssigned = MCSlots],
     [BareSpec(normalizer, 1, 0, 10, {"unnormalized"}, MCComparable, MCComparable)
        EXCEPT !.mayNormalized = MCComparable],
     [BareSpec(aligner, 2, 0, 20, {"unaligned"}, MCSlots, MCSlots)
        EXCEPT !.mayAligned = MCSlots, !.maySetAmbiguous = MCSlots],
     [BareSpec(llm, 0, 1, 1, {"ambiguous", "issue"}, {qty}, {})
        EXCEPT !.mayClearAmbiguous = MCSlots]}

Assignments(i, name) ==
    {[EmptyPatch(i, name)
        EXCEPT !.present = P, !.assigned = A,
               !.payload = [b \in A |-> v], !.refs = [b \in R |-> {r}]] :
        P \in {{}, {qty}, {site, qty}}, A \in {{}, {qty}, {site, qty}},
        R \in {{}, {qty}, {site, qty}}}

Normalizations(i, name) ==
    {[EmptyPatch(i, name)
        EXCEPT !.normalized = N, !.normalizedPayload = [b \in N |-> v]] :
        N \in {{qty}, {site, qty}}}

Alignments(i, name) ==
    {[EmptyPatch(i, name) EXCEPT !.aligned = A, !.alignment = A, !.setAmbiguous = U] :
        A \in {{site}, {qty}, {site, qty}}, U \in {{}, {site}, {qty}}}

Others(i, name) ==
    {EmptyPatch(i, name),
     [EmptyPatch(i, name) EXCEPT !.clearAmbiguous = {qty}],
     [EmptyPatch(i, name) EXCEPT !.setIssue = {qty}],
     [EmptyPatch(i, name) EXCEPT !.refs = [b \in {extra} |-> {r}]]}

MCPatches ==
    UNION {Assignments(i, assigner) \cup Normalizations(i, normalizer)
             \cup Alignments(i, aligner) \cup Others(i, assigner)
             \cup Others(i, llm) \cup Alignments(i, assigner) : i \in 1 .. 2}

\* Patches that only differ in what they claim to have read: whole rows, one
\* or the other quantity, an alignment that may stay partial or flag
\* ambiguity, and one assignment without a source.
MCRowPatches ==
    UNION {{[EmptyPatch(i, assigner)
               EXCEPT !.present = MCSlots, !.assigned = MCSlots,
                      !.payload = [b \in MCSlots |-> IF b = qty THEN x ELSE v],
                      !.refs = [b \in R |-> {r}]] :
               x \in {v, w}, R \in {MCSlots, {site}}}
           \cup {[EmptyPatch(i, normalizer)
               EXCEPT !.normalized = {qty},
                      !.normalizedPayload = [b \in {qty} |-> x]] : x \in {v, w}}
           \cup {[EmptyPatch(i, aligner)
               EXCEPT !.aligned = A, !.alignment = A, !.setAmbiguous = U] :
               A \in {{site}, MCSlots}, U \in {{}, {site}}}
           \cup {EmptyPatch(i, llm), EmptyPatch(i, assigner)} : i \in 1 .. 3}

=============================================================================
