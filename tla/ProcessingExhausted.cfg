\* README 5.6: does a document that exhausts its attempts reach contingency?
CONSTANTS
    Doc = {d1}
    Worker = {w1, w2}
    TransmitMax = 2
    PollMax = 2
    MaxAttempts <- MCMaxAttempts
    LateTasks = FALSE
    NoJob = NoJob
    MaxRows = 2
    MaxSignings = 2
    MaxInterventions = 2
SPECIFICATION Spec
CHECK_DEADLOCK FALSE
INVARIANT
    ExhaustedGoesToContingency
