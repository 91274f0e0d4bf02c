SPECIFICATION Spec
CONSTANTS
    Class = {0, 1}
    Key = {1, 2, 3}
    Contents <- MCContents
    Limit = 150
    MaxDisturbances = 1
    PlanningPrefixes = 4
    PrefixOf <- MCPrefixOf
    RecordBytes = 3
    SortAllowance = 2
    CounterBytes = 1
    GroupBytes = 1
    FindingBytes = 1
    LocationBytes = 1
    Addressable = 40
    VectorMax = 30
    VerifyOptions <- MCVerifyOptions
    LengthOf <- MCLengthOf
    Capacity <- MCCapacity
    SegmentSize = 60
    Buckets = 3
    SlotBytes = 2
    ReferenceBytes = 1
    Blocks = 30
    CensusOptions <- MCCensusOptions
    MaxScans = 1
CHECK_DEADLOCK FALSE
INVARIANTS BudgetHeld VerdictExact FindingsTrue FoundAsPlanned RefusedOnlyIfInfeasible CensusWhole AbsenceKept StatusIsTheVerdict
PROPERTIES ScanEnds
