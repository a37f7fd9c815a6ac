-------------------------- MODULE HardGateResolver --------------------------
(***************************************************************************)
(* What a claim needs (claims.py), how values are made comparable          *)
(* (normalizers.py) and how the hard gate judges atoms against needs       *)
(* (resolution.py).  A graph is a function of the claims' positions; its   *)
(* edges name an atom by the position of its normalization.  Labels,       *)
(* aliases, confidences, basis texts and edge ids are left out.  An amount *)
(* is counted in thousandths of its unit.                                  *)
(***************************************************************************)
EXTENDS Naturals, FiniteSets, Sequences

CONSTANTS
    XId,         \* ids of declared claims
    UnitName,    \* unit names after _canonical_source_unit
    Span,        \* periods, as start and end date
    Rounded,     \* <<amount, unit>> whose conversion is not exact in binary
    Text,        \* an amount that is no number, a period of no known form
    None

NeedType ==
    {"activity_identity", "usage_amount", "service_period", "site_identity",
     "supplier_identity"}

\* The fields of a declared claim that needs are derived from.
Claim ==
    [x : XId, activity : BOOLEAN, amount : Nat \cup {None, Text},
     unit : UnitName \cup {None}, period : Span \cup {None, Text},
     site : BOOLEAN, supplier : BOOLEAN]

\* What an atom says: a usage has an amount and a unit, a period a span.
Says(type, amount, unit, span) ==
    [type |-> type, amount |-> amount, unit |-> unit, span |-> span]

Reading ==
    [type : {"usage_amount"}, amount : Nat, unit : UnitName, span : {None}]
      \cup [type : {"service_period"}, amount : {None}, unit : {None}, span : Span]
      \cup [type : {"currency_amount", "date"}, amount : {None}, unit : {None}, span : {None}]

Relation ==
    {"supports", "supports_after_unit_normalization", "contradicts", "rejected_for_need"}

Supporting == {"supports", "supports_after_unit_normalization"}

ASSUME ResolverAssumption ==
    /\ None \notin Nat \cup UnitName \cup Span \cup {Text}
    /\ Text \notin Nat \cup Span
    /\ Rounded \subseteq Nat \X UnitName

-----------------------------------------------------------------------------
(***************************************************************************)
(* Needs and normal forms.                                                 *)
(***************************************************************************)

\* derive_need_spec
NeedsOf(c) ==
    {n \in NeedType :
        \/ n = "activity_identity" /\ c.activity
        \/ n = "usage_amount" /\ (c.amount # None \/ c.unit # None)
        \/ n = "service_period" /\ c.period # None
        \/ n = "site_identity" /\ c.site
        \/ n = "supplier_identity" /\ c.supplier}

Required == NeedType \ {"supplier_identity"}

\* The unit map of _canonical_unit, in thousandths of the canonical unit.
Scale ==
    [Wh |-> 1, kWh |-> 1000, MWh |-> 1000000, GWh |-> 1000000000,
     L |-> 1000, m3 |-> 1000000, kg |-> 1000, t |-> 1000000]

CanonicalUnit ==
    [u \in DOMAIN Scale |->
        IF u \in {"L", "m3"} THEN "L" ELSE IF u \in {"kg", "t"} THEN "kg" ELSE "kWh"]

\* Mutant: a unit is compared as it was written.
QuantityAsWritten(amount, unit) ==
    [known |-> unit \in DOMAIN Scale, unit |-> unit, value |-> amount,
     rounded |-> {}, source |-> unit]

\* _normalize_quantity.  The canonical unit stands for its dimension; a unit
\* outside the map keeps its name under the dimension "quantity".  A product
\* that floats do not represent equals only itself.
Quantity(amount, unit) ==
    IF unit \in DOMAIN Scale
    THEN [known |-> TRUE, unit |-> CanonicalUnit[unit], value |-> amount * Scale[unit],
          rounded |-> {<<amount, unit>>} \cap Rounded, source |-> unit]
    ELSE [known |-> FALSE, unit |-> unit, value |-> amount, rounded |-> {}, source |-> unit]

Compatible(p, q) == p.known = q.known /\ p.unit = q.unit

\* _numbers_equal with no tolerance
SameNumber(p, q) == p.value = q.value /\ p.rounded = q.rounded

\* normalize_claim_need has a result for need n of the claim.
Stated(c, n) ==
    \/ n = "usage_amount" /\ c.amount \in Nat /\ c.unit # None
    \/ n = "service_period" /\ c.period \in Span

-----------------------------------------------------------------------------
(***************************************************************************)
(* The hard gate.                                                          *)
(***************************************************************************)

\* _resolve_usage_amount_need: no edge, or one.
UsageRelations(c, r) ==
    LET target == Quantity(c.amount, c.unit)
        found == Quantity(r.amount, r.unit)
    IN  {rel \in Relation :
            \/ rel = "rejected_for_need" /\ r.type = "currency_amount"
            \/ /\ r.type = "usage_amount"
               /\ IF ~Compatible(found, target) THEN rel = "rejected_for_need"
                  ELSE IF ~SameNumber(found, target) THEN rel = "contradicts"
                  ELSE rel = IF found.source = target.source THEN "supports"
                             ELSE "supports_after_unit_normalization"}

\* _resolve_service_period_need
PeriodRelations(c, r) ==
    {rel \in {"supports", "contradicts"} :
        r.type = "service_period" /\ (rel = "supports" <=> r.span = c.period)}

\* _resolve_need against what claim c states for need n.
Relations(c, n, r) ==
    IF ~Stated(c, n) THEN {}
    ELSE IF n = "usage_amount" THEN UsageRelations(c, r)
    ELSE PeriodRelations(c, r)

First(positions) == CHOOSE i \in positions : \A j \in positions : i <= j

\* _need_spec_for_claim: the claim whose needs are resolved for position i.
SpecOf(claims, i) == claims[First({j \in DOMAIN claims : claims[j].x = claims[i].x})]

Stating(claims, n) == {j \in DOMAIN claims : Stated(claims[j], n)}

\* _NormalizationIndex looks a need up by its id, which is its type: the
\* first claim that states the need is the target of all.
TargetClaim(claims, n) == claims[First(Stating(claims, n))]

\* The edges of position i; readings maps the positions of normalizations of
\* known atoms to what they say.
Edges(claims, i, readings) ==
    UNION {{[need |-> n, at |-> a, relation |-> rel] :
              rel \in Relations(TargetClaim(claims, n), n, readings[a])} :
           n \in {m \in NeedsOf(SpecOf(claims, i)) : Stating(claims, m) # {}},
           a \in DOMAIN readings}

SupportedNeeds(edges) == {e.need : e \in {f \in edges : f.relation \in Supporting}}

MissingNeeds(c, edges) == (NeedsOf(c) \cap Required) \ SupportedNeeds(edges)

\* Mutant: support outweighs a contradiction.
StatusSupportedFirst(edges, missing) ==
    LET has(rel) == \E e \in edges : e.relation = rel
    IN  IF missing = {} /\ has("supports") THEN "supported_direct"
        ELSE IF has("contradicts") THEN "contradicted"
        ELSE "insufficient"

\* _resolution_status
StatusOf(edges, missing) ==
    LET has(rel) == \E e \in edges : e.relation = rel
    IN  IF has("contradicts") THEN "contradicted"
        ELSE IF missing # {} THEN "insufficient"
        ELSE IF has("supports_after_unit_normalization")
             THEN "supported_after_unit_normalization"
        ELSE IF has("supports") THEN "supported_direct"
        ELSE "insufficient"

\* HardGateResolver.resolve.  The need spec of every claim exists.
Resolved(claims, readings) ==
    [i \in DOMAIN claims |->
        LET edges == Edges(claims, i, readings)
            missing == MissingNeeds(SpecOf(claims, i), edges)
        IN  [edges |-> edges, missing |-> missing, status |-> StatusOf(edges, missing)]]

=============================================================================
