\* Three requests, any of the five calls each, while two resolutions change.
CONSTANTS
    Request = {r1, r2, r3}
    Call <- MCCall
    Range = {x1, x2, x3}
    x1 = x1
    x2 = x2
    x3 = x3
    k1 = k1
    RangeInfo <- MCRangeInfo
    Key = {k1}
    NoKey = NoKey
    NoRange = NoRange
    NoRequest = NoRequest
    MaxTime = 2
SYMMETRY RequestSymmetry
SPECIFICATION Spec
CHECK_DEADLOCK FALSE
INVARIANTS
    TypeOK
    Gapless
    RepliesAreTrue
    KeyNeverVanishes
    NoWaitingCycle
PROPERTY
    IssuesAtomically
