\* One document, sent either way, while no task outlives its lease; or three
\* tasks that share a breaker, which opens at two failures.
CONSTANTS
    Doc = {d1}
    Worker = {w1, w2}
    TransmitMax = 3
    PollMax = 2
    MaxAttempts <- MCMaxAttempts
    LateTasks = FALSE
    NoJob = NoJob
    MaxRows = 3
    MaxSignings = 2
    MaxInterventions = 2
    Caller = {c1, c2, c3}
    Threshold = 2
    Cooldown = 2
    MaxFailures = 4
SPECIFICATION WorkerSpec
CHECK_DEADLOCK FALSE
INVARIANTS
    TypeOK
    Exclusive
    LoadedStatusHolds
    NotForgotten
    SentIsStored
    FailedNeverSent
    BreakerTypeOK
    ClosedBelowThreshold
    OneProbe
PROPERTIES
    Settles
    ProbesAgain
