CONSTANTS
    k1 = k1
    k2 = k2
    k3 = k3
    v1 = v1
    v2 = v2
    v3 = v3
    u1 = u1
    u3 = u3
    u2 = u2
    Keys <- MCKeys
    Values <- MCValues
    SizeOf <- MCSizeOf
    MaxSegSize = 3
    MaxSeg = 3
    SegSizes <- MCSegSizes
    WriteFails = {0, 1, 2}
    MaxLog = 4
    Capacities <- MCCapacities
    NoVal = NoVal
    Garbage = Garbage
    Sizes = {0, 1, 2}
    KeySizes = {1, 2}
    Intervals = {0, 1}
    KeyLimit = 1
    Fixeds = {1, 2, 3}
    UserLists = {u1, u2, u3}
    NoUsers = u1
    Refused = {3, u3}
    Defaults <- MCDefaults
SPECIFICATION MCSpec
INVARIANTS
    SegTypeOK ExtentsApart NextIdsFresh
    LogMatchesMemory CrashIsPointInTime
    ListMatchesMap
    SettingsSane RestartKeeps AcceptedFits
PROPERTIES ValuesStay KeepsWhatFits EvictsOldest
