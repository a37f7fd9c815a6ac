SPECIFICATION Spec
CONSTANTS
    XId = {"x1", "x2"}
    UnitName = {"Wh", "kWh", "MWh", "L", "ea"}
    Span = {"march", "april", "month13"}
    Rounded <- MCRounded
    Text = Text
    None = None
    GapId <- MCGapIds
    MaxUnits = 2
    Malformed = {"month13"}
    Cases <- MCCases
    Requests <- MCRequests
    MaxSteps = 12
INVARIANTS
    TypeOK
    VerdictOfEvidence
    StopHonest
    LostToMalformed
    PlanFollowsVerdict
PROPERTIES
    VerdictsForward
