SPECIFICATION Spec
CONSTANTS
    Capability <- MCNames
    Plans <- MCPlans
    Answers <- MCAnswers
    MaxCalls = 4
    None = None
INVARIANTS
    TypeOK
    WorkConserved
    HistoryAgrees
    FailureCovered
    Drained
    ReportHonest
PROPERTIES
    HistoryKept
    ImplementsContract
