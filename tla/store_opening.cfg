SPECIFICATION Spec
CONSTANTS
    p1 = p1
    p2 = p2
    Proc = {p1, p2}
    BuildOf <- MCBuildOf
    Class = {0, 1}
    Key = {1, 2}
    Merges <- MCMerges
    Strays <- MCStrays
    MaxVersion = 2
    MaxOps = 2
    MaxOpens = 2
    MaxFaults = 1
CHECK_DEADLOCK FALSE
INVARIANTS OneClaimant IdentityKept ServesOwnFiles ServesEverything MetadataCovers
PROPERTIES InspectionOnlySettles RefusalsExplained
