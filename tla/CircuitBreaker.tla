--------------------------- MODULE CircuitBreaker ---------------------------
(***************************************************************************)
(* The circuit breaker of one DIAN environment (application/resilience.rs) *)
(* and the tasks of a worker process that share it.  Breakers holds one    *)
(* for habilitacion and one for produccion, with nothing in common.        *)
(*                                                                         *)
(* Time is discrete; an Instant is modelled by the time elapsed since it,  *)
(* which nothing tells apart beyond the cooldown.                          *)
(***************************************************************************)
EXTENDS Integers

CONSTANTS
    Caller,        \* tasks that call the DIAN through this breaker
    Threshold,     \* failure_threshold
    Cooldown,      \* in ticks
    MaxFailures    \* bound: failures counted without a success in between

ASSUME BreakerAssumption ==
    /\ Threshold \in Nat \ {0}
    /\ Cooldown \in Nat \ {0}
    /\ MaxFailures \in Nat /\ MaxFailures >= Threshold

VARIABLES
    state,      \* BreakerState, without its Instant
    failures,   \* the counter beside it
    elapsed,    \* time since the Instant of Open or HalfOpen
    calling,    \* the call each task has under way
    age         \* time since that call was allowed

breakerVars == <<state, failures, elapsed, calling, age>>

\* A probe is a call allowed by a breaker that was not closed.
CallKind == {"none", "normal", "probe"}

BreakerTypeOK ==
    /\ state \in {"Closed", "Open", "HalfOpen"}
    /\ failures \in 0..MaxFailures
    /\ elapsed \in 0..Cooldown
    /\ calling \in [Caller -> CallKind]
    /\ age \in [Caller -> 0..Cooldown]

BreakerInit ==
    /\ state = "Closed"
    /\ failures = 0
    /\ elapsed = 0
    /\ calling = [c \in Caller |-> "none"]
    /\ age = [c \in Caller |-> 0]

Later(t) == IF t < Cooldown THEN t + 1 ELSE t

Tick ==
    /\ elapsed' = Later(elapsed)
    /\ age' = [c \in Caller |-> Later(age[c])]
    /\ UNCHANGED <<state, failures, calling>>

Allow(c, kind) ==
    /\ calling' = [calling EXCEPT ![c] = kind]
    /\ age' = [age EXCEPT ![c] = 0]

\* Mutants of CanExecute: the probe does not restart the cooldown; half open
\* waits for the probe's result for ever.
CanExecuteNoRestart(c) ==
    /\ calling[c] = "none"
    /\ \/ state = "Closed" /\ Allow(c, "normal") /\ UNCHANGED <<state, elapsed>>
       \/ /\ state # "Closed" /\ elapsed >= Cooldown
          /\ state' = "HalfOpen" /\ UNCHANGED elapsed
          /\ Allow(c, "probe")
    /\ UNCHANGED failures

CanExecuteOpenOnly(c) ==
    /\ calling[c] = "none"
    /\ \/ state = "Closed" /\ Allow(c, "normal") /\ UNCHANGED <<state, elapsed>>
       \/ /\ state = "Open" /\ elapsed >= Cooldown
          /\ state' = "HalfOpen" /\ elapsed' = 0
          /\ Allow(c, "probe")
    /\ UNCHANGED failures

\* can_execute, when it answers true; a refusal changes nothing.
CanExecute(c) ==
    /\ calling[c] = "none"
    /\ \/ /\ state = "Closed"
          /\ Allow(c, "normal")
          /\ UNCHANGED <<state, elapsed>>
       \/ /\ state \in {"Open", "HalfOpen"}
          /\ elapsed >= Cooldown
          /\ state' = "HalfOpen"
          /\ elapsed' = 0
          /\ Allow(c, "probe")
    /\ UNCHANGED failures

Return(c) == calling' = [calling EXCEPT ![c] = "none"] /\ UNCHANGED age

\* Mutant of RecordSuccess: a success makes up for one failure.
RecordSuccessDecrements(c) ==
    /\ calling[c] # "none"
    /\ Return(c)
    /\ state' = "Closed"
    /\ failures' = failures - 1
    /\ elapsed' = 0

\* record_success, whatever the state: a late answer closes an open breaker.
RecordSuccess(c) ==
    /\ calling[c] # "none"
    /\ Return(c)
    /\ state' = "Closed"
    /\ failures' = 0
    /\ elapsed' = 0

\* Mutant of RecordFailure: the breaker opens one failure late.
RecordFailureLate(c) ==
    /\ calling[c] # "none"
    /\ failures < MaxFailures
    /\ Return(c)
    /\ failures' = failures + 1
    /\ IF state = "HalfOpen" \/ failures + 1 > Threshold
       THEN state' = "Open" /\ elapsed' = 0
       ELSE UNCHANGED <<state, elapsed>>

\* record_failure
RecordFailure(c) ==
    /\ calling[c] # "none"
    /\ failures < MaxFailures
    /\ Return(c)
    /\ failures' = failures + 1
    /\ IF state = "HalfOpen" \/ failures + 1 >= Threshold
       THEN state' = "Open" /\ elapsed' = 0
       ELSE UNCHANGED <<state, elapsed>>

\* The task ends without reporting: artifacts fails after can_execute, or the
\* task times out during the call.
NoReport(c) ==
    /\ calling[c] # "none"
    /\ Return(c)
    /\ UNCHANGED <<state, failures, elapsed>>

BreakerNext ==
    \/ Tick
    \/ \E c \in Caller :
          CanExecute(c) \/ RecordSuccess(c) \/ RecordFailure(c) \/ NoReport(c)

BreakerSpec == BreakerInit /\ [][BreakerNext]_breakerVars

-----------------------------------------------------------------------------
(* Properties.                                                             *)

\* The breaker is closed exactly while fewer failures than the threshold have
\* been counted since the last success, however late calls report.
ClosedBelowThreshold == state = "Closed" <=> failures < Threshold

\* README section 5.7: while half open one probe passes; another one only when
\* the first is a whole cooldown old, even if the breaker closed, by a late
\* success of an older call, and opened again in between.
OneProbe ==
    \A b, c \in Caller :
       /\ b # c
       /\ calling[b] = "probe" /\ calling[c] = "probe"
       => age[b] >= Cooldown \/ age[c] >= Cooldown

\* An open breaker lets a call through again, although late failures restart
\* its cooldown; and a half open one whose probe never reported does too.
ProbesAgain ==
    /\ state = "Open" ~> state # "Open"
    /\ (state = "HalfOpen" /\ elapsed = Cooldown) ~> elapsed < Cooldown
=============================================================================
