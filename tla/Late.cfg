\* One document, sent either way; a task may still run after its lease expired;
\* or up to two documents generated, or up to 7 events read, and 8 with a signature.
CONSTANTS
    Doc = {d1}
    Worker = {w1, w2}
    TransmitMax = 2
    PollMax = 2
    MaxAttempts <- MCMaxAttempts
    LateTasks = TRUE
    NoJob = NoJob
    MaxRows = 2
    MaxSignings = 2
    MaxInterventions = 0
    MaxI32 = 50
    MaxLines = 2
    MaxGenerated = 2
    Payload <- MCPayload
    Name <- MCName
    Path <- MCPath
    MaxTokens = 8
    MaxPlain = 7
SYMMETRY WorkerSymmetry
SPECIFICATION LateSpec
CHECK_DEADLOCK FALSE
INVARIANTS
    AcceptedByDian
    AuditTrail
    NotifiedOnce
    AmountsAddUp
    NumbersIdentify
    ReadsTheTree
PROPERTIES
    LifecycleRefined
    StoreIsInMemory
