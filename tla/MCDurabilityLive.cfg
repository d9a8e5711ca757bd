CONSTANTS
    k1 = k1
    k2 = k2
    v1 = v1
    v2 = v2
    t1 = t1
    t2 = t2
    Keys = {k1}
    Values = {v1}
    NoVal = NoVal
    NumShards = 2
    ShardOf <- MCShardOf1
    ModeShard = 2
    Sessions <- MCSessions
    Ops = {"s", "sb"}
    MaxWrites = 2
    MaxCrashes = 2
SPECIFICATION FairSpec
PROPERTIES ComesUp BatchesEnd
