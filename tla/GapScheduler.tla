---------------------------- MODULE GapScheduler ----------------------------
(***************************************************************************)
(* Which capability works on a candidate's gap                             *)
(* (src/evidence_toolchain/convergence/scheduler.py).                      *)
(***************************************************************************)
EXTENDS MaskKernel

CONSTANTS
    Name,          \* capability names
    Capabilities   \* the specs of the registered producers

\* Producers are looked up by the name of their spec.
ASSUME CapabilityAssumption ==
    /\ Capabilities \subseteq CapabilitySpecOver(Name)
    /\ \A k, l \in Capabilities :
          (k.name = l.name \/ k.nameRank = l.nameRank) => k = l

\* _is_eligible: the inputs are present and the capability handles a slot
\* of one of the gap kinds it is for.
IsEligible(c, k) ==
    /\ k.inputRequired \subseteq c.present
    /\ \E kind \in k.gapKinds : Gap(c)[kind] \cap k.handles # {}

Eligible(c) == {k \in Capabilities : IsEligible(c, k)}

SortKey(k) == <<k.priority, k.cost, Cardinality(k.gapKinds), k.nameRank>>

Precedes(k, l) ==
    \E n \in 1 .. 4 :
        /\ SortKey(k)[n] < SortKey(l)[n]
        /\ \A m \in 1 .. n - 1 : SortKey(k)[m] = SortKey(l)[m]

\* The head of select_capabilities(...): the runner uses no other.
SelectCapability(c) ==
    CHOOSE k \in Capabilities :
        /\ IsEligible(c, k)
        /\ \A l \in Capabilities \ {k} : IsEligible(c, l) => Precedes(k, l)

=============================================================================
