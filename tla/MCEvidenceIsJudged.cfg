SPECIFICATION Spec
CONSTANTS
    Name = {"find", "again", "review", "look", "all", "first", "halt", "odd"}
    Target <- MCTargets
    Unit = {"u1", "u2"}
    AtomId = {"a1", "a2"}
    CoreType = {"usage_amount", "date"}
    OtherType = {"verdict"}
    Normalizable = {"usage_amount"}
    Setups <- MCSetups
    StartStates <- MCStarts
    Proposals <- MCProposals
    Observations <- MCObservations
    Atomizations <- MCAtomizations
    Guesses <- MCGuesses
    Reason = {"agenda_empty"}
    MaxSteps = 3
    MaxCalls = 3
    None = None
INVARIANTS
    EvidenceIsJudged
