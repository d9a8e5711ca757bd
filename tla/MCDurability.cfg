CONSTANTS
    k1 = k1
    k2 = k2
    v1 = v1
    v2 = v2
    t1 = t1
    t2 = t2
    Keys <- MCKeys
    Values = {v1, v2}
    NoVal = NoVal
    NumShards = 2
    ShardOf <- MCShardOf
    ModeShard = 2
    Sessions <- MCSessions
    Ops = {"s", "d", "sb", "db1"}
    MaxWrites = 2
    MaxCrashes = 2
SPECIFICATION Spec
SYMMETRY MCSymmetry
INVARIANTS AckedSurvive SeqsIncrease
PROPERTY ClearedIsDurable
