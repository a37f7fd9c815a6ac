----------------------------- MODULE GapPlanner -----------------------------
(***************************************************************************)
(* ResolutionGapPlanner (investigation_gaps.py), which turns the missing   *)
(* and contradicted needs of a graph into tasks, and the scoring by which  *)
(* CandidateUnitRetriever (investigation_retrieval.py) selects units for   *)
(* them.  Ledger entries repeat the tasks; questions, reasons, scores and  *)
(* the clues a result reports are left out.                                *)
(***************************************************************************)
EXTENDS HardGateResolver, Selection

CONSTANTS
    GapId,      \* names of gap tasks, by the place of their need
    MaxUnits    \* CandidateUnitRetriever.max_units

\* The order in which derive_need_spec adds needs.
NeedOrder ==
    <<"activity_identity", "usage_amount", "service_period", "site_identity",
      "supplier_identity">>

\* The needs of all claims in one row of places.
Places(claims) == 1 .. 5 * Len(claims)
ClaimAt(k) == ((k - 1) \div 5) + 1
NeedAt(k) == NeedOrder[((k - 1) % 5) + 1]

\* _allowed_atom_types_for_need
AllowedTypes(n) ==
    CASE n = "usage_amount" -> {"usage_amount", "currency_amount"}
      [] n = "service_period" -> {"service_period", "date"}
      [] n = "site_identity" -> {"site_identity", "identifier"}
      [] n = "supplier_identity" -> {"supplier_identity", "identifier"}
      [] n = "activity_identity" -> {"activity_identity", "line_item", "document_type"}

Last(positions) == CHOOSE i \in positions : \A j \in positions : j <= i

\* need_specs_by_claim keeps the last spec of an id.
PlannedNeeds(claims, i) ==
    NeedsOf(claims[Last({j \in DOMAIN claims : claims[j].x = claims[i].x})])

\* _has_contradiction, over the edges grouped by claim id and need.
Conflicting(claims, graph, i, n) ==
    /\ graph[i].status = "contradicted"
    /\ \E j \in {m \in DOMAIN claims : claims[m].x = claims[i].x} :
          \E e \in graph[j].edges : e.need = n /\ e.relation = "contradicts"

\* Needs to be reviewed by hand ...
Reviewed(claims, graph) ==
    {k \in Places(claims) :
        /\ NeedAt(k) \in PlannedNeeds(claims, ClaimAt(k))
        /\ Conflicting(claims, graph, ClaimAt(k), NeedAt(k))}

\* Mutant: of a contradicted claim nothing more is searched for.
RetrievedUnlessContradicted(claims, graph) ==
    {k \in Places(claims) :
        /\ NeedAt(k) \in PlannedNeeds(claims, ClaimAt(k))
        /\ graph[ClaimAt(k)].status # "contradicted"
        /\ NeedAt(k) \in graph[ClaimAt(k)].missing}

\* ... and needs to search units for.
Retrieved(claims, graph) ==
    {k \in Places(claims) \ Reviewed(claims, graph) :
        /\ NeedAt(k) \in PlannedNeeds(claims, ClaimAt(k))
        /\ NeedAt(k) \in graph[ClaimAt(k)].missing}

\* _retrieve_task, _manual_review_task
GapTask(claims, type, k) ==
    [id |-> <<GapId[k]>>, type |-> type,
     target |-> <<claims[ClaimAt(k)].x, NeedAt(k)>>,
     units |-> {}, allowed |-> AllowedTypes(NeedAt(k)), atoms |-> <<>>, source |-> <<>>]

\* plan_from_graph: a task for each gap, claim by claim and need by need.
GapPlans(claims, graph) ==
    Picked([k \in Places(claims) |->
              GapTask(claims, IF k \in Reviewed(claims, graph) THEN "request_manual_review"
                              ELSE "retrieve_candidate_units", k)],
           Reviewed(claims, graph) \cup Retrieved(claims, graph))

-----------------------------------------------------------------------------
(***************************************************************************)
(* Retrieval.                                                              *)
(***************************************************************************)

\* A class of words the retrieval profiles and the preferred labels look for.
Clue == {"usage", "money", "period", "due", "site", "supplier", "activity"}

\* The positive clues of _profile_for.
ProfileClues(n) ==
    CASE n = "usage_amount" -> {"usage"}
      [] n = "service_period" -> {"period", "due"}
      [] n = "site_identity" -> {"site"}
      [] n = "supplier_identity" -> {"supplier"}
      [] n = "activity_identity" -> {"activity"}

\* A unit of the inventory: whether the atomizer reads its type, the clues
\* in its content, and the claims and needs whose target it repeats.
InventoryUnit ==
    [atomizable : BOOLEAN, clues : SUBSET Clue, quotes : SUBSET (XId \X NeedType)]

\* _score_unit: words of money count where money is allowed, and a word that
\* disqualifies only rejects a unit without any other.
Matching(claims, units, t) ==
    {u \in DOMAIN units :
        \/ units[u].clues \cap ProfileClues(t.target[2]) # {}
        \/ "currency_amount" \in t.allowed /\ t.target[2] = "usage_amount"
             /\ "money" \in units[u].clues
        \/ /\ t.target \in units[u].quotes
           /\ \E i \in DOMAIN claims :
                 claims[i].x = t.target[1] /\ t.target[2] \in NeedsOf(SpecOf(claims, i))}

\* CandidateUnitRetriever.retrieve: the first matching units of the inventory.
SelectedUnits(claims, units, t) ==
    {u \in Matching(claims, units, t) :
        Cardinality({w \in Matching(claims, units, t) : w <= u}) <= MaxUnits}

=============================================================================
