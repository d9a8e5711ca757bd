CONSTANTS
    u1 = u1
    u2 = u2
    Keys = {k1, k2}
    Values = {v1}
    SizeOf <- MCSizeOf
    MaxSegSize = 2
    MaxSeg = 2
    MaxLog = 3
    NoVal = NoVal
    Garbage = Garbage
    Sizes = {1, 2, 3}
    KeySizes = {1}
    Intervals = {1}
    KeyLimit = 1
    Fixeds = {1}
    UserLists = {u1, u2}
    NoUsers = u1
    Refused = {}
    Defaults <- MCDefaults
SPECIFICATION SentencesSpec
INVARIANT OneIsTrue
CHECK_DEADLOCK FALSE
