--------------------------- MODULE DocumentPlanner ---------------------------
(***************************************************************************)
(* The rule planner (src/evidence_toolchain/planner.py): which capabilities*)
(* a document of a class gets, and which one stands by for failures.  The  *)
(* issues of a plan are copied to the run state and never read, so plans   *)
(* are kept without them.                                                  *)
(***************************************************************************)
EXTENDS Sequences

DocumentClasses ==
    {"utility_bill", "receipt", "meter_log", "meter_photo", "unknown_document"}

CapabilityNames ==
    {"docling_parse", "ocr_extract", "table_structure_extract",
     "utility_bill_extract", "receipt_extract", "handwriting_read",
     "meter_photo_read", "vision_extract", "manual_review_request"}

Review == <<"manual_review_request">>

\* plan_document for a document of a class, with a text layer or without.
PlanDocument(class, textLayer) ==
    CASE class = "utility_bill" ->
           [selected |->
              <<IF textLayer THEN "docling_parse" ELSE "ocr_extract",
                "table_structure_extract", "utility_bill_extract">>,
            fallbacks |-> IF textLayer THEN <<>> ELSE Review]
      [] class = "receipt" ->
           [selected |-> <<"ocr_extract", "receipt_extract">>, fallbacks |-> Review]
      [] class = "meter_log" ->
           [selected |-> <<"handwriting_read", "table_structure_extract">>,
            fallbacks |-> Review]
      [] class = "meter_photo" ->
           [selected |-> <<"vision_extract", "meter_photo_read">>, fallbacks |-> Review]
      [] OTHER -> [selected |-> Review, fallbacks |-> <<>>]

RulePlans == {PlanDocument(c, t) : c \in DocumentClasses, t \in BOOLEAN}

=============================================================================
