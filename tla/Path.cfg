SPECIFICATION PathFairSpec
CONSTANTS
    Versions = {"current", "legacy"}
    MaxFrames = 5
    MaxRecordPayload = 4
    DefaultMinChunk = 1
    DefaultMaxChunk = 3
    DrsInitialChunk = 2
    DrsRampRecords = 2
    DrsRampBytes = 3
    Policies <- SomePolicies
    ReadSizes = {2, 8}
    MaxBytes = 5
    MaxOther = 1
CHECK_DEADLOCK FALSE
INVARIANTS PathTypeOK RecordsFit
PROPERTIES TunnelIsStream RecordsAreStream PathIsStream ClientEndReachesBack
