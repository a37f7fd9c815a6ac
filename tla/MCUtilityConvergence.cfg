SPECIFICATION USpec
CONSTANTS
    SITE = SITE
    PERIOD = PERIOD
    ACTIVITY = ACTIVITY
    QUANTITY = QUANTITY
    UNIT = UNIT
    Blank = Blank
    kWh = kWh
    mwh = mwh
    kwh = kwh
    wh = wh
    och = och
    OCH = OCH
    other = other
    mar = mar
    el = el
    m3 = m3
    na = na
    MWh = MWh
    None = None
    Bits <- MCSlots
    Slots <- MCSlots
    Required <- MCSlots
    Comparable <- MCComparable
    DirectlyComparable <- MCDirect
    AlignmentRequired <- MCSlots
    ProvenanceRequired <- MCSlots
    Value <- MCValue
    Ref <- MCRef
    Name <- MCNames
    Capabilities <- MCCapabilities
    NumCandidates = 4
    Claim <- MCClaims
    ClaimOf <- MCClaimOf
    MaxSteps = 13
    ContextBits <- MCContext
    QuantityBit = QUANTITY
    Text <- MCText
    Folded <- MCFolded
    Number <- MCNumber
    Unity = 2
    NumRows = 2
    Rows <- MCRows
    Declarations <- MCDeclarations
INVARIANTS
    SupportIsTrue
    EvidenceTraces
    ReachedIsJudged
PROPERTIES
    AlwaysReports
