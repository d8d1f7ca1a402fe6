\* README 4.A: does a retry with the same key and body get the same answer?
CONSTANTS
    Request = {r1, r2}
    Call <- MCCall
    Range = {x1, x2, x3}
    x1 = x1
    x2 = x2
    x3 = x3
    k1 = k1
    RangeInfo <- MCRangeInfo
    Key = {k1}
    NoKey = NoKey
    NoRange = NoRange
    NoRequest = NoRequest
    MaxTime = 2
SPECIFICATION Spec
CHECK_DEADLOCK FALSE
PROPERTY
    ReplayedNotRefused
