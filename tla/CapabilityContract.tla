------------------------- MODULE CapabilityContract -------------------------
(***************************************************************************)
(* What run_capability_steps promises the keeper of a run state: a call    *)
(* takes effect as a whole or not at all.  It runs some of the work to do, *)
(* keeps the rest, and as soon as anything has failed every allowed        *)
(* fallback is to do or done; without a failure no work is added           *)
(* (docs/failure-modes.md, "preserve both original failure and fallback    *)
(* result").                                                               *)
(***************************************************************************)
CONSTANT Capability

VARIABLES
    allowed,   \* the fallbacks of the plan
    todo,      \* capabilities with a pending step
    done,      \* capabilities with a step that ran
    failed     \* those of them with a step that failed

vars == <<allowed, todo, done, failed>>

Init ==
    /\ allowed \in SUBSET Capability
    /\ todo \in SUBSET Capability
    /\ done = {}
    /\ failed = {}

\* A capability that is pending twice may run once and stay pending.
Call ==
    \E ran, kept \in SUBSET todo, added \in SUBSET allowed :
        \E bad \in SUBSET ran :
            /\ todo \subseteq ran \cup kept
            /\ bad = {} => added = {}
            /\ todo' = kept \cup added
            /\ done' = done \cup ran
            /\ failed' = failed \cup bad
            /\ failed' # {} => allowed \subseteq todo' \cup done'
            /\ UNCHANGED allowed

Spec == Init /\ [][Call]_vars

=============================================================================
