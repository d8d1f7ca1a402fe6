\* README 5.4: is GetStatus asked before every resend?
CONSTANTS
    Doc = {d1}
    Worker = {w1, w2}
    TransmitMax = 2
    PollMax = 2
    MaxAttempts <- MCMaxAttempts
    LateTasks = FALSE
    NoJob = NoJob
    MaxRows = 2
    MaxSignings = 2
    MaxInterventions = 0
SPECIFICATION Spec
CHECK_DEADLOCK FALSE
INVARIANT
    AsksBeforeResend
