CONSTANTS
    Keys = {1, 2, 3}
    NumShards = 2
    ShardOf <- MCShardOf
    c1 = c1
    c2 = c2
    Clients = {c1, c2}
    Workers = {w1, w2}
    Gives <- MCGives
    NoLimit = NoLimit
    NoTask = NoTask
    Contents = {{1, 2, 3}}
    MaxCommands = 1
    MaxWrites = 1
SPECIFICATION BulkSpec
INVARIANTS TasksConserved LimitIsGlobal NoLostWakeUp
PROPERTIES BulkEnds PoolEnds
