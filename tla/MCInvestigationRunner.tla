------------------------ MODULE MCInvestigationRunner ------------------------
(***************************************************************************)
(* Investigations that start from the gaps of a graph of no atoms, as      *)
(* run_resolution_cycle does, or from atoms and no graph; with models for  *)
(* ports that answer with atoms of unknown and forbidden types, without    *)
(* provenance, with rejected and repeated ids.                             *)
(***************************************************************************)
EXTENDS InvestigationRunner

MCTargets == {<<"x1", "usage_amount">>, <<"x1", "service_period">>}

TaskOf(name, type, target, allowed) ==
    [id |-> <<name>>, type |-> type, target |-> target, units |-> {},
     allowed |-> allowed, atoms |-> <<>>, source |-> <<>>]

AtomOf(id, type, sourced) == [id |-> id, type |-> type, sourced |-> sourced]

FindUsage == TaskOf("find", "retrieve_candidate_units", <<"x1", "usage_amount">>, {"usage_amount"})
FindAgain == [FindUsage EXCEPT !.id = <<"again">>]
AskReview == TaskOf("review", "request_manual_review", <<"x1", "service_period">>, {})
Look == TaskOf("look", "inspect_visual_region", None, {"usage_amount"})
NormalizeAll == TaskOf("all", "normalize_candidate", None, {})
NormalizeFirst == [TaskOf("first", "normalize_candidate", None, {}) EXCEPT !.atoms = <<"a1">>]

StateOf(agenda, atoms, graph) ==
    [agenda |-> agenda, completed |-> <<>>, units |-> {"u1"}, atoms |-> atoms,
     norms |-> <<>>, graph |-> graph, stop |-> None, events |-> <<>>]

SetupOf(observer, normalizer, max) ==
    [retriever |-> TRUE, observer |-> observer, atomizer |-> TRUE,
     normalizer |-> normalizer, resolver |-> TRUE, maxIterations |-> max]

\* Without an observer, as in the cycle; with one; with nothing wired.
MCSetups ==
    {SetupOf(FALSE, n, max) : n \in {"adapter", "llm"}, max \in {0, 4}}
        \cup {SetupOf(TRUE, "llm", 3), SetupOf(TRUE, "adapter", 0)}
        \cup {[SetupOf(FALSE, "none", 0) EXCEPT !.retriever = FALSE, !.atomizer = FALSE,
                                                !.resolver = FALSE]}

MCStarts ==
    {StateOf(<<FindUsage, AskReview, FindAgain>>, <<>>, [atoms |-> 0, norms |-> 0]),
     StateOf(<<FindUsage, NormalizeFirst>>, <<>>, [atoms |-> 0, norms |-> 0]),
     StateOf(<<FindUsage, Look>>, <<>>, [atoms |-> 0, norms |-> 0]),
     StateOf(<<>>, <<AtomOf("a1", "usage_amount", TRUE)>>, None)}

MCProposals ==
    {[tasks |-> <<>>, stop |-> "agenda_empty"], [tasks |-> <<>>, stop |-> None],
     [tasks |-> <<NormalizeAll, FindAgain>>, stop |-> None],
     [tasks |-> <<Look, NormalizeAll, AskReview>>, stop |-> None],
     [tasks |-> <<TaskOf("halt", "stop", None, {}), TaskOf("odd", "other", None, {})>>,
      stop |-> "agenda_empty"]}

\* Two atoms in both orders, one of them; without provenance, of a type the
\* task does not allow, of a type outside the vocabulary.
MCAtomizations ==
    {<<AtomOf("a1", "usage_amount", TRUE)>>,
     <<AtomOf("a1", "usage_amount", TRUE), AtomOf("a2", "date", TRUE)>>,
     <<AtomOf("a2", "usage_amount", TRUE), AtomOf("a1", "usage_amount", TRUE)>>,
     <<AtomOf("a1", "usage_amount", FALSE), AtomOf("a2", "date", TRUE),
       AtomOf("a2", "verdict", TRUE)>>}

SeenAs(status, units, atoms, norms) ==
    [task |-> <<"look">>, status |-> status, units |-> units, atoms |-> atoms, norms |-> norms]

\* One atom is refused and with it its normalization.
MCObservations ==
    {SeenAs("completed", {"u2"}, <<AtomOf("a2", "usage_amount", TRUE),
                                    AtomOf("a1", "date", TRUE)>>, <<"a1", "a2">>),
     SeenAs("no_new_clue", {}, <<>>, <<"a1">>)}

MCGuesses == {<<>>, <<"a2">>, <<"a1", "a2">>}

=============================================================================
