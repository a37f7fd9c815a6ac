------------------------- MODULE MCCapabilityRunner -------------------------
(***************************************************************************)
(* The plans of the rule planner, with runners that complete, fail, raise  *)
(* or ask for review; and plans another router may make: two fallbacks, a  *)
(* capability planned twice, a fallback that is also planned, with results *)
(* that name another capability.                                           *)
(***************************************************************************)
EXTENDS CapabilityRunner, DocumentPlanner

Reply(c, status, echo) == [capability |-> c, status |-> status, echo |-> echo]

\* ManualReviewCapabilityRunner for reviews, StaticCapabilityRunner for the rest.
MCRuleAnswers ==
    [c \in CapabilityNames |->
        IF c = "manual_review_request" THEN {Reply(c, "review_requested", TRUE)}
        ELSE {Reply(c, "completed", FALSE)}]

MCRouted == {"read", "ocr", "vision", "manual"}

MCRoutedPlans ==
    {[selected |-> <<"read">>, fallbacks |-> <<"ocr", "manual">>],
     [selected |-> <<"read", "ocr">>, fallbacks |-> <<"manual", "ocr">>],
     [selected |-> <<"read", "read">>, fallbacks |-> <<"manual", "manual">>],
     [selected |-> <<>>, fallbacks |-> <<"manual">>]}

MCRoutedAnswers ==
    [c \in MCRouted |->
        {Reply(c, "completed", FALSE), Reply(c, "review_requested", TRUE)}
          \cup IF c = "ocr" THEN {Reply("vision", "failed", FALSE)} ELSE {}]

MCNames == CapabilityNames \cup MCRouted
MCPlans == RulePlans \cup MCRoutedPlans
MCAnswers ==
    [c \in MCNames |-> IF c \in MCRouted THEN MCRoutedAnswers[c] ELSE MCRuleAnswers[c]]

=============================================================================
