SPECIFICATION Spec
CONSTANTS
    Word <- MCWord
    Numeral <- MCNumeral
    RowWord <- MCRowWord
    ColumnWord <- MCColumnWord
    None = None
    ClaimId = {"x1", "x2"}
    AtomId = {"a1", "a2", "a9"}
    AtomType = {"usage", "period"}
    Field = {"status", "supporting"}
    IdField = {"supporting"}
    Value = {"supported", "contradicted"}
    Commands <- MCCommands
    Outcomes <- MCOutcomes
    MaxRounds = 2
INVARIANTS
    TypeOK
    ExitTellsReport
    ReportOfTrace
    TraceComplete
    NothingSilent
    UnitsTraceable
