SPECIFICATION MCSpec
CONSTANTS
    o1 = o1
    o2 = o2
    g1 = g1
    g2 = g2
    n1 = n1
    n2 = n2
    opA = opA
    None = None
    Owner = o1
    Generation = g1
    Owners <- MCOwners
    Generations <- MCGenerations
    Correlations <- MCCorrelations
    Operations <- MCOperations
    Fingerprints <- MCFingerprints
    MaxRevision = 2
    Windows = {n1, n2}
    Domains <- ThreeOutputs
    Clients <- AllClients
    Areas <- TwoRectangles
    OuterGaps = {0}
    Looks <- Sticky
    Ops <- AllOps
    Fallible = TRUE
    Instances = {"rebound"}
PROPERTY MismatchRejects
CHECK_DEADLOCK FALSE
