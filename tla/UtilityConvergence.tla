-------------------------- MODULE UtilityConvergence --------------------------
(***************************************************************************)
(* The convergence cycle with its default schema and built-in producers    *)
(* (src/evidence_toolchain/convergence/capabilities.py): the slot assigner *)
(* reads a table row, the normalizer brings quantities to kWh, the aligner *)
(* compares with the declared claim.  Everything is determined by the      *)
(* inventory, the claims and the Python that runs them, which Init picks.  *)
(*                                                                         *)
(* A row is the sequence of the cells whose header names a slot, in        *)
(* inventory order.  Several headers name the same slot ("usage" and       *)
(* "amount"), so a slot may have several cells, and a row may lack a slot. *)
(* Texts are stripped; Folded is lower().  Quantities are natural numbers; *)
(* a text in a quantity column is one no float() accepts.                  *)
(***************************************************************************)
EXTENDS ConvergenceLoop

CONSTANTS
    SITE, PERIOD, ACTIVITY, QUANTITY, UNIT,   \* the slot bits
    Text,          \* cell and claim texts
    Blank,         \* the empty text
    Folded,        \* the lower-case form of each text
    kWh, mwh, kwh, wh,   \* the texts "kWh", "mwh", "kwh", "wh"
    Number,        \* quantities read or declared, counted in fractions
    Unity,         \* how many of these fractions make a quantity of one
    NumRows,       \* (artifact, row) keys, or 1 when units carry no row
    Rows,          \* the rows an inventory may hold
    Declarations   \* the fields a claim may declare

UsageSlots == {SITE, PERIOD, ACTIVITY, QUANTITY, UNIT}

Cell ==
    {cell \in [slot : UsageSlots, value : Text \cup Number] :
        cell.slot = QUANTITY \/ cell.value \in Text}

\* The capabilities of _default_capabilities.
BuiltinSpec(name, rank, cost, kinds, handles, input) ==
    [name |-> name, nameRank |-> rank, priority |-> 0, cost |-> cost,
     handles |-> handles, inputRequired |-> input, gapKinds |-> kinds,
     mayPresent |-> {}, mayAssigned |-> {}, mayNormalized |-> {},
     mayAligned |-> {}, maySetAmbiguous |-> {}, mayClearAmbiguous |-> {},
     maySetIssue |-> {}, mayClearIssue |-> {}]

SlotAssigner ==
    [BuiltinSpec("simple_slot_assigner", 2, 5, {"missing", "unassigned"},
                 Required, {})
        EXCEPT !.mayPresent = Required, !.mayAssigned = Required]

Normalizer ==
    [BuiltinSpec("deterministic_normalizer", 0, 10, {"unnormalized"},
                 Comparable, Comparable)
        EXCEPT !.mayNormalized = Comparable]

Aligner ==
    [BuiltinSpec("simple_aligner", 1, 20, {"unaligned"},
                 AlignmentRequired, AlignmentRequired)
        EXCEPT !.mayAligned = AlignmentRequired]

\* utility_usage_schema, _default_capabilities and the seeding order: claim
\* by claim, row by row.
ASSUME UtilityAssumption ==
    /\ Slots = UsageSlots
    /\ LET bits == <<SITE, PERIOD, ACTIVITY, QUANTITY, UNIT>>
       IN  \A m, n \in 1 .. 5 : bits[m] = bits[n] => m = n
    /\ Required = Slots /\ AlignmentRequired = Slots /\ ProvenanceRequired = Slots
    /\ DirectlyComparable = {SITE, ACTIVITY}
    /\ Comparable = {PERIOD, QUANTITY, UNIT}
    /\ ContextBits = {SITE, PERIOD, ACTIVITY, UNIT} /\ QuantityBit = QUANTITY
    /\ Name = {"simple_slot_assigner", "deterministic_normalizer", "simple_aligner"}
    /\ Capabilities = {SlotAssigner, Normalizer, Aligner}
    /\ {Blank, kWh, mwh, kwh, wh} \subseteq Text /\ Text \subseteq Value
    /\ Folded \in [Text -> Text] /\ Folded[kWh] = kwh /\ kWh # Blank
    /\ mwh # kwh /\ mwh # wh /\ kwh # wh
    /\ \A t \in Text : Folded[Folded[t]] = Folded[t]
    /\ Number \subseteq Nat /\ Number \cap Text = {} /\ Unity \in Nat \ {0}
    /\ \A n \in Number : {n, n * 1000, n \div 1000} \subseteq Value
    /\ NumRows \in Nat \ {0} /\ NumCandidates = Cardinality(Claim) * NumRows
    /\ Claim = 1 .. Cardinality(Claim)
    /\ ClaimOf = [i \in Candidates |-> ((i - 1) \div NumRows) + 1]
    /\ Rows \subseteq Seq(Cell)
    \* Numbers count a unit small enough that Wh come in thousands.
    /\ \A row \in Rows : \A m, n \in DOMAIN row :
          (row[m].slot = QUANTITY /\ row[m].value \in Number
             /\ row[n].slot = UNIT /\ Folded[row[n].value] = wh)
          => row[m].value % 1000 = 0
    /\ \A fields \in Declarations :
          /\ DOMAIN fields = UsageSlots
          /\ fields[QUANTITY] \in Number \cup {None}
          /\ \A b \in UsageSlots \ {QUANTITY} : fields[b] \in Text \cup {None}
    /\ \A row \in Rows, j \in 1 .. NumRows : \A n \in DOMAIN row : <<j, n>> \in Ref

VARIABLES
    rows,       \* the row of each row key
    declared,   \* the fields of each claim; None where undeclared
    interpreter \* the Python of the process: 3.11, or 3.12 and later

uvars == <<vars, rows, declared, interpreter>>

\* The cells candidate i was seeded for, and the claim's fields.
RowOf(i) == rows[((i - 1) % NumRows) + 1]
FieldsOf(i) == declared[ClaimOf[i]]

-----------------------------------------------------------------------------
(***************************************************************************)
(* simple_slot_assigner: the first usable cell of each slot.               *)
(***************************************************************************)

\* _payload_value_for_slot is None for a quantity that is not a number.
Usable(cell) == cell.slot = QUANTITY => cell.value \in Number

CellsOf(row, b) == {n \in DOMAIN row : row[n].slot = b /\ Usable(row[n])}

FirstCell(row, b) == CHOOSE n \in CellsOf(row, b) : \A m \in CellsOf(row, b) : n <= m

ReadSlots(row) == {b \in UsageSlots : CellsOf(row, b) # {}}

\* Mutant: the source ref is the first cell of the slot, usable or not.
AssignmentFromFirstHeader(i) ==
    LET row == RowOf(i)
    IN  [EmptyPatch(i, "simple_slot_assigner") EXCEPT
           !.present = ReadSlots(row),
           !.assigned = ReadSlots(row),
           !.payload = [b \in ReadSlots(row) |-> row[FirstCell(row, b)].value],
           !.refs = [b \in ReadSlots(row) |->
                       {<<((i - 1) % NumRows) + 1,
                          CHOOSE n \in DOMAIN row :
                            /\ row[n].slot = b
                            /\ \A l \in 1 .. n - 1 : row[l].slot # b>>}]]

Assignment(i) ==
    LET row == RowOf(i)
    IN  [EmptyPatch(i, "simple_slot_assigner") EXCEPT
           !.present = ReadSlots(row),
           !.assigned = ReadSlots(row),
           !.payload = [b \in ReadSlots(row) |-> row[FirstCell(row, b)].value],
           !.refs = [b \in ReadSlots(row) |->
                       {<<((i - 1) % NumRows) + 1, FirstCell(row, b)>>}]]

-----------------------------------------------------------------------------
(***************************************************************************)
(* deterministic_normalizer: every assigned comparable slot, again if it   *)
(* was normalized before.                                                  *)
(***************************************************************************)
EnergyUnit(u) == Folded[u] \in {mwh, kwh, wh}

\* Mutant: MWh are taken for kWh.
NormalizedQuantityUnscaled(q, u) ==
    IF Folded[u] = wh THEN q \div 1000 ELSE q

\* _normalize_quantity_and_unit; a blank unit leaves the quantity as it is.
NormalizedQuantity(q, u) ==
    CASE Folded[u] = mwh -> q * 1000
      [] Folded[u] = wh -> q \div 1000
      [] OTHER -> q

NormalizedValue(payload, b) ==
    CASE b = QUANTITY -> NormalizedQuantity(payload[QUANTITY], payload[UNIT])
      [] b = UNIT /\ EnergyUnit(payload[UNIT]) -> kWh
      [] OTHER -> payload[b]

\* _to_number makes an int of a quantity without a fraction, and
\* _compact_number asks what it is given for is_integer(), which an int has
\* since Python 3.12 only.  Wh are divided first, and a blank unit leaves the
\* quantity alone.
CompactsInt(q, u) == u # Blank /\ Folded[u] # wh /\ q % Unity = 0

\* _normalize_quantity_and_unit raises AttributeError for candidate i.
NormalizerRaises(i, k) ==
    LET payload == candidates[i].payload
    IN  /\ k.name = "deterministic_normalizer"
        /\ interpreter = "3.11"
        /\ {QUANTITY, UNIT} \subseteq DOMAIN payload
        /\ CompactsInt(payload[QUANTITY], payload[UNIT])

\* _normalize_text of a blank text is None: that slot is skipped.
Normalization(i) ==
    LET c == candidates[i]
        N == {b \in c.assigned \cap Comparable : c.payload[b] # Blank}
    IN  [EmptyPatch(i, "deterministic_normalizer") EXCEPT
           !.normalized = N,
           !.normalizedPayload = [b \in N |-> NormalizedValue(c.payload, b)]]

-----------------------------------------------------------------------------
(***************************************************************************)
(* simple_aligner: every assigned slot, again if it was aligned before.    *)
(***************************************************************************)
\* Mutant: texts are compared as they are written.
ValuesAlignExactly(x, y, b) == x # None /\ y # None /\ x = y

ValuesAlign(x, y, b) ==
    /\ x # None /\ y # None
    /\ IF b = QUANTITY THEN x = y ELSE Folded[x] = Folded[y]

Alignment(i) ==
    LET c == candidates[i]
        A == {b \in c.assigned : ValuesAlign(CandidateValue(c, b), FieldsOf(i)[b], b)}
    IN  [EmptyPatch(i, "simple_aligner") EXCEPT !.aligned = A, !.alignment = A]

-----------------------------------------------------------------------------
(***************************************************************************)
(* The cycle.                                                              *)
(***************************************************************************)

\* _propose_builtin_patch
Propose(i, k) ==
    CASE k.name = "simple_slot_assigner" -> Assignment(i)
      [] k.name = "deterministic_normalizer" -> Normalization(i)
      [] k.name = "simple_aligner" -> Alignment(i)

UInit ==
    /\ Init
    /\ rows \in [1 .. NumRows -> Rows]
    /\ declared \in [Claim -> Declarations]
    /\ interpreter \in {"3.11", "3.12"}

\* Of the built-in producers only the normalizer can raise.
UNext ==
    /\ \/ Control
       \/ Returned
       \/ \E i \in Candidates, k \in Capabilities :
             /\ Working(i, k)
             /\ \/ NormalizerRaises(i, k) /\ ProducerRaises
                \/ /\ ~NormalizerRaises(i, k)
                   /\ \E p \in {Propose(i, k)} : HandlePatch(i, k, p)
    /\ UNCHANGED <<rows, declared, interpreter>>

USpec == UInit /\ [][UNext]_uvars /\ WF_uvars(UNext)

-----------------------------------------------------------------------------
(***************************************************************************)
(* Properties.                                                             *)
(***************************************************************************)
ReadValue(row, b) == row[FirstCell(row, b)].value

WattHours(q, u) ==
    CASE Folded[u] = mwh -> q * 1000000
      [] Folded[u] = kwh -> q * 1000
      [] OTHER -> q

\* What it means for a row to state a claim, without masks or stages: all
\* five slots can be read, the texts agree but for case, and the quantities
\* are the same amount, the claim's being declared in kWh when the row's unit
\* is an energy unit and in the row's unit otherwise.
States(row, fields) ==
    /\ ReadSlots(row) = UsageSlots
    /\ \A b \in UsageSlots : fields[b] # None
    /\ \A b \in {SITE, ACTIVITY, PERIOD} :
          Folded[ReadValue(row, b)] = Folded[fields[b]]
    /\ ReadValue(row, PERIOD) # Blank /\ ReadValue(row, UNIT) # Blank
    /\ LET q == ReadValue(row, QUANTITY)
           u == ReadValue(row, UNIT)
       IN  IF EnergyUnit(u)
           THEN /\ Folded[fields[UNIT]] = kwh
                /\ WattHours(q, u) = WattHours(fields[QUANTITY], kWh)
           ELSE Folded[u] = Folded[fields[UNIT]] /\ q = fields[QUANTITY]

\* A claim is reported supported only by a row of the inventory that does
\* state it: through assignment, unit normalization and alignment, each of
\* which rewrites slots of the one before, no other row's value and no stale
\* value gets in.
SupportIsTrue ==
    \A m \in Claim :
        report[m].support # 0 => States(RowOf(report[m].support), declared[m])

\* The provenance of a value is a cell of the candidate's own row that holds
\* it, the first usable one of its slot, and a normalized value is the
\* normal form of the payload the candidate has now.
EvidenceTraces ==
    \A i \in Candidates :
        LET c == candidates[i]
        IN  /\ \A b \in DOMAIN c.payload :
                  \E n \in DOMAIN RowOf(i) :
                      /\ c.refs[b] = {<<((i - 1) % NumRows) + 1, n>>}
                      /\ RowOf(i)[n] = [slot |-> b, value |-> c.payload[b]]
                      /\ \A l \in 1 .. n - 1 :
                            RowOf(i)[l].slot = b => ~Usable(RowOf(i)[l])
            /\ \A b \in DOMAIN c.normalizedPayload :
                  c.normalizedPayload[b] = NormalizedValue(c.payload, b)

\* The process cannot normalize this row: on Python 3.11, one that can be
\* read in full and has a whole quantity in a unit that is not Wh.
Fatal(row) ==
    /\ interpreter = "3.11"
    /\ ReadSlots(row) = UsageSlots
    /\ CompactsInt(ReadValue(row, QUANTITY), ReadValue(row, UNIT))

\* The rows before candidate i state their claims, so none of them holds the
\* work up.
SettledBefore(i) == \A j \in 1 .. i - 1 : States(RowOf(j), FieldsOf(j))

\* While every earlier row settles, a candidate gets its three steps: if the
\* rows of candidates 1 .. i - 1 state their claims and the budget allows
\* three steps for each up to i, then in a run that ends with a report
\* candidate i is supported exactly when its row states its claim, and its
\* row is not fatal.  A run that is lost to an exception is one that came to
\* a fatal row.
ReachedIsJudged ==
    /\ phase = "finalized" =>
          \A i \in Candidates :
              3 * i <= MaxSteps /\ SettledBefore(i) =>
                  /\ Supported(candidates[i]) <=> States(RowOf(i), FieldsOf(i))
                  /\ ~Fatal(RowOf(i))
    /\ phase = "raised" =>
          \E i \in Candidates : Fatal(RowOf(i)) /\ SettledBefore(i)

\* With the built-in producers every run ends, and where no row is fatal, as
\* none is from Python 3.12 on, it ends with a report.
AlwaysReports ==
    /\ <>(phase \in {"finalized", "raised"})
    /\ (\A j \in 1 .. NumRows : ~Fatal(rows[j])) => <>(phase = "finalized")

\* What pyproject.toml promises: the cycle works on Python 3.11, too, and so
\* no quantity of an inventory makes the normalizer raise.
NeverRaises == phase # "raised"

=============================================================================
