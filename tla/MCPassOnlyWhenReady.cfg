SPECIFICATION Spec
CONSTANTS
    site = site
    qty = qty
    extra = extra
    v = v
    w = w
    r = r
    c1 = c1
    c2 = c2
    assigner = assigner
    normalizer = normalizer
    aligner = aligner
    llm = llm
    None = None
    Bits <- MCBits
    Slots <- MCSlots
    Required <- MCSlots
    Comparable <- MCComparable
    DirectlyComparable <- MCDirect
    AlignmentRequired <- MCSlots
    ProvenanceRequired <- MCSlots
    Value = {v, w}
    Ref = {r}
    Name = {assigner, normalizer, aligner, llm}
    Capabilities <- MCCapabilities
    NumCandidates = 3
    Claim = {c1, c2}
    ClaimOf <- MCTwoClaims
    Patches <- MCRowPatches
    MaxSteps = 10
    ContextBits <- MCContext
    QuantityBit = qty
INVARIANTS
    PassOnlyWhenReady
