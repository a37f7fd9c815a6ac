-------------------------- MODULE ConvergenceRunner -------------------------
(***************************************************************************)
(* run_convergence_cycle with arbitrary patch producers: whatever the      *)
(* selected producer is, its answer is any patch of Patches, well-meant or *)
(* not (the `capabilities` argument accepts any PatchProducer).            *)
(***************************************************************************)
EXTENDS ConvergenceLoop

CONSTANT Patches   \* what producers may propose

ASSUME PatchAssumption == Patches \subseteq PatchOver(Candidates, Name)

Next ==
    \/ Control
    \/ Returned
    \/ \E i \in Candidates, k \in Capabilities :
          /\ Working(i, k)
          /\ \/ ProducerRaises
             \/ \E p \in Patches : HandlePatch(i, k, p)

\* The loop is ordinary sequential code: while it can go on, it does.
Spec == Init /\ [][Next]_vars /\ WF_vars(Next)

=============================================================================
