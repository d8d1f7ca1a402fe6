------------------------------ MODULE MCWorker ------------------------------
(***************************************************************************)
(* A worker process: the tasks that take documents through the DIAN, and   *)
(* the breaker that they share.  As modelled they have no state in common: *)
(* a behaviour is of one while the other has not begun.                    *)
(***************************************************************************)
EXTENDS MCProcessing, CircuitBreaker

WorkerInit == Init /\ BreakerInit

WorkerNext ==
    \/ BreakerInit /\ Next /\ UNCHANGED breakerVars
    \/ Init /\ BreakerNext /\ UNCHANGED vars

\* While the breaker is in use, time passes, tasks keep asking (released jobs
\* come back after a cooldown), and a call ends one way or another
\* (JOB_TIMEOUT_SECS).
BreakerFairness ==
    /\ WF_breakerVars(Init /\ Tick)
    /\ WF_breakerVars(Init /\ \E c \in Caller : CanExecute(c))
    /\ \A c \in Caller :
          WF_breakerVars(Init /\ (RecordSuccess(c) \/ RecordFailure(c) \/ NoReport(c)))

\* Before a document is issued, the tasks have nothing that they must do.
WorkerSpec ==
    /\ WorkerInit /\ [][WorkerNext]_<<vars, breakerVars>>
    /\ Fairness /\ BreakerFairness
=============================================================================
