------------------------ MODULE MCUtilityConvergence ------------------------
(***************************************************************************)
(* Two rows and two claims, drawn from rows that state a claim in every    *)
(* unit, have the number right and the unit wrong, state another site or   *)
(* another unit, hold several cells of a slot, lack a cell, hold a blank   *)
(* unit or nothing usable, and claims with and without an amount.          *)
(* Quantities are counted in halves: 1 is 0.5, a fraction, 1000 is 500.    *)
(***************************************************************************)
EXTENDS UtilityConvergence

CONSTANTS och, OCH, other, mar, el, m3, na, MWh

MCSlots == {SITE, PERIOD, ACTIVITY, QUANTITY, UNIT}
MCDirect == {SITE, ACTIVITY}
MCComparable == {PERIOD, QUANTITY, UNIT}
MCContext == {SITE, PERIOD, ACTIVITY, UNIT}
MCText == {Blank, och, OCH, other, mar, el, m3, na, kWh, kwh, MWh, mwh, wh}
MCFolded ==
    [t \in MCText |-> CASE t = OCH -> och [] t = kWh -> kwh [] t = MWh -> mwh [] OTHER -> t]
MCNumber == {1, 1000, 1000000}
MCValue == MCText \cup {0} \cup MCNumber \cup {n * 1000 : n \in MCNumber}
MCNames == {"simple_slot_assigner", "deterministic_normalizer", "simple_aligner"}
MCCapabilities == {SlotAssigner, Normalizer, Aligner}
MCClaims == 1 .. 2
MCClaimOf == <<1, 1, 2, 2>>
MCOneRowClaimOf == <<1, 2>>

Cells(s, p, a, q, u) ==
    <<[slot |-> SITE, value |-> s], [slot |-> PERIOD, value |-> p],
      [slot |-> ACTIVITY, value |-> a], [slot |-> QUANTITY, value |-> q],
      [slot |-> UNIT, value |-> u]>>

MCRows ==
    {Cells(och, mar, el, 1, MWh),
     Cells(OCH, mar, el, 1000, kWh),
     Cells(och, mar, el, 1000000, wh),
     Cells(other, mar, el, 1000, kwh),
     Cells(och, mar, el, 1, m3),
     Cells(och, mar, el, 1000, Blank),
     Tail(Cells(och, mar, el, 1, MWh)),
     <<[slot |-> QUANTITY, value |-> na]>>,
     <<[slot |-> QUANTITY, value |-> na]>> \o Cells(och, mar, el, 1000, mwh)
        \o <<[slot |-> QUANTITY, value |-> 1]>>}

Fields(s, q, u) ==
    [b \in MCSlots |->
        CASE b = SITE -> s [] b = PERIOD -> mar [] b = ACTIVITY -> el
          [] b = QUANTITY -> q [] b = UNIT -> u]

MCDeclarations ==
    {Fields(och, 1000, kWh), Fields(och, 1, m3),
     Fields(och, None, kWh)}

MCRef == (1 .. 2) \X (1 .. 7)

=============================================================================
