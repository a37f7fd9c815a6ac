-------------------------- MODULE MCResolutionCycle --------------------------
(***************************************************************************)
(* Claims alone, in pairs that state the same or different targets, and    *)
(* with one id twice; inventories whose lines prove, refute, mix money and *)
(* usage, name a month that does not exist or are never retrieved; the     *)
(* step limits on both sides of every boundary of the command line.        *)
(***************************************************************************)
EXTENDS ResolutionCycle

\* Amounts are in thousandths.
Whole(n) == 1000 * n

Blank ==
    [x |-> "x1", activity |-> FALSE, amount |-> None, unit |-> None, period |-> None,
     site |-> FALSE, supplier |-> FALSE]

UsageClaim == [Blank EXCEPT !.amount = Whole(2000), !.unit = "kWh"]
MonthClaim == [Blank EXCEPT !.period = "march"]
BothClaim == [UsageClaim EXCEPT !.period = "march", !.supplier = TRUE]
OtherClaim == [Blank EXCEPT !.x = "x2", !.amount = Whole(1), !.unit = "MWh"]

MCClaims ==
    {<<UsageClaim>>, <<BothClaim>>, <<OtherClaim, [UsageClaim EXCEPT !.activity = TRUE]>>,
     <<MonthClaim, OtherClaim>>,
     <<UsageClaim, [BothClaim EXCEPT !.x = "x2"]>>,
     <<UsageClaim, MonthClaim>>,
     <<[Blank EXCEPT !.supplier = TRUE]>>,
     <<[Blank EXCEPT !.amount = Text, !.unit = "kWh", !.site = TRUE],
       [UsageClaim EXCEPT !.x = "x2", !.period = Text]>>,
     <<UsageClaim, UsageClaim, [MonthClaim EXCEPT !.x = "x2"]>>,
     <<[Blank EXCEPT !.amount = Whole(5), !.unit = "ea"]>>,
     <<[Blank EXCEPT !.amount = Whole(1005), !.unit = "kWh"]>>}

U(clues) == [atomizable |-> TRUE, clues |-> clues, quotes |-> {}]

L(u) == [unit |-> u, span |-> None, money |-> FALSE, amount |-> None,
         unitName |-> None, date |-> FALSE]

Use(u, a, w) == [L(u) EXCEPT !.amount = a, !.unitName = w]

Inventory(units, lines) == [units |-> units, lines |-> lines]

MCInventories ==
    {Inventory(<<>>, <<>>),
     Inventory(<<U({"usage"}), U({"period"})>>,
               <<Use(1, Whole(2), "MWh"), [L(2) EXCEPT !.span = "march"]>>),
     Inventory(<<U({"usage", "period"})>>,
               <<Use(1, Whole(2000), "kWh"), [L(1) EXCEPT !.span = "april"],
                 [L(1) EXCEPT !.span = "march"]>>),
     Inventory(<<U({"usage", "money"}), U({"usage"}), U({"usage"})>>,
               <<[Use(1, Whole(2000), "kWh") EXCEPT !.money = TRUE], Use(2, Whole(1), "MWh"),
                 Use(3, Whole(2000), "kWh")>>),
     Inventory(<<U({"money"}), U({"period", "due"})>>,
               <<[L(1) EXCEPT !.money = TRUE], [L(2) EXCEPT !.span = "month13"],
                 [L(2) EXCEPT !.date = TRUE]>>),
     Inventory(<<[U({"usage"}) EXCEPT !.atomizable = FALSE], U({}),
                 [U({}) EXCEPT !.quotes = {<<"x1", "usage_amount">>}]>>,
               <<Use(1, Whole(2), "MWh"), Use(2, Whole(2), "MWh"), Use(3, Whole(5), "L"),
                 Use(3, Whole(2000000), "Wh")>>),
     Inventory(<<U({"usage"}), U({"period"})>>,
               <<Use(1, Whole(2), "MWh"), Use(1, Whole(1), "kWh"),
                 [L(2) EXCEPT !.span = "march"]>>),
     Inventory(<<U({"usage", "activity"})>>,
               <<Use(1, Whole(5), "ea"), Use(1, 1005, "MWh"), [L(1) EXCEPT !.date = TRUE]>>)}

MCCases ==
    {[claims |-> c, units |-> inv.units, lines |-> inv.lines] :
        c \in MCClaims, inv \in MCInventories}

Asked(flag, manifest) == [flag |-> flag, manifest |-> manifest, budget |-> None]

MCRequests ==
    {Asked(None, 0), Asked(-1, 2), Asked(0, 3), Asked(3, 1), Asked(None, 4), Asked(5, -1),
     [flag |-> 9, manifest |-> 0, budget |-> 2], [flag |-> 12, manifest |-> 0, budget |-> 0]}

\* 1.005 * 1000 is 1004.9999999999999 in binary: not the 1005 kWh it stands for.
MCRounded == {<<1005, "MWh">>}

MCGapIds == <<"g1", "g2", "g3", "g4", "g5", "g6", "g7", "g8", "g9", "g10", "g11",
              "g12", "g13", "g14", "g15">>

=============================================================================
