CONSTANTS
    k1 = k1
    k2 = k2
    v1 = v1
    v2 = v2
    r1 = r1
    Keys <- MCKeys
    Values <- MCValues
    SizeOf <- MCSizeOf
    MaxSegSize = 3
    MaxSeg = 2
    SegSizes = {3}
    MaxLog = 3
    WriteFails = {0}
    Capacities = {0}
    Readers = {}
    CrashAfterVerify = FALSE
    NoVal = NoVal
    Garbage = Garbage
SPECIFICATION DiskSpec
SYMMETRY MCSymmetry
PROPERTY CompactionIsSafe
CHECK_DEADLOCK FALSE
