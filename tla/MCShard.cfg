CONSTANTS
    k1 = k1
    k2 = k2
    v1 = v1
    v2 = v2
    r1 = r1
    Keys <- MCKeys
    Values <- MCValues
    SizeOf <- MCSizeOf
    MaxSegSize = 3
    MaxSeg = 2
    SegSizes = {1, 3}
    MaxLog = 3
    WriteFails = {0, 1, 2}
    Capacities = {0, 1}
    Readers = {r1}
    CrashAfterVerify = FALSE
    NoVal = NoVal
    Garbage = Garbage
SPECIFICATION MCSpec
SYMMETRY MCSymmetry
INVARIANTS ShardTypeOK CacheCoherent EntriesReadable
PROPERTIES KeepsPromise CompactionReclaims
CHECK_DEADLOCK FALSE
