------------------------ MODULE CircuitBreakerProofs ------------------------
(***************************************************************************)
(* Theorems about CircuitBreaker for every threshold, cooldown and number  *)
(* of tasks.                                                               *)
(***************************************************************************)
EXTENDS CircuitBreaker, TLAPS

\* The elapsed times saturate at the cooldown and never go back.
LEMMA LaterType ==
    ASSUME NEW t \in 0..Cooldown
    PROVE  Later(t) \in 0..Cooldown /\ Later(t) >= t
  BY BreakerAssumption DEF Later

\* Later keeps the order of two times.
LEMMA LaterMonotone ==
    ASSUME NEW s \in 0..Cooldown, NEW t \in 0..Cooldown, s >= t
    PROVE  Later(s) >= Later(t)
  BY BreakerAssumption DEF Later

\* Every state of the breaker is well typed.
THEOREM BreakerTypeCorrect == BreakerSpec => []BreakerTypeOK
  <1>1. BreakerInit => BreakerTypeOK
    BY BreakerAssumption DEF BreakerInit, BreakerTypeOK, CallKind
  <1>2. ASSUME BreakerTypeOK, [BreakerNext]_breakerVars
        PROVE  BreakerTypeOK'
    <2>1. CASE Tick
      <3>1. elapsed' \in 0..Cooldown
        BY <1>2, <2>1, LaterType DEF BreakerTypeOK, Tick
      <3>2. age' \in [Caller -> 0..Cooldown]
        BY <1>2, <2>1, LaterType DEF BreakerTypeOK, Tick
      <3>3. QED
        BY <1>2, <2>1, <3>1, <3>2 DEF BreakerTypeOK, Tick
    <2>2. ASSUME NEW c \in Caller, CanExecute(c)
          PROVE  BreakerTypeOK'
      BY <1>2, <2>2, BreakerAssumption DEF BreakerTypeOK, CanExecute, Allow, CallKind
    <2>3. ASSUME NEW c \in Caller, RecordSuccess(c)
          PROVE  BreakerTypeOK'
      BY <1>2, <2>3, BreakerAssumption DEF BreakerTypeOK, RecordSuccess, Return, CallKind
    <2>4. ASSUME NEW c \in Caller, RecordFailure(c)
          PROVE  BreakerTypeOK'
      BY <1>2, <2>4, BreakerAssumption DEF BreakerTypeOK, RecordFailure, Return, CallKind
    <2>5. ASSUME NEW c \in Caller, NoReport(c)
          PROVE  BreakerTypeOK'
      BY <1>2, <2>5 DEF BreakerTypeOK, NoReport, Return, CallKind
    <2>6. CASE UNCHANGED breakerVars
      BY <1>2, <2>6 DEF BreakerTypeOK, breakerVars
    <2>7. QED
      BY <1>2, <2>1, <2>2, <2>3, <2>4, <2>5, <2>6 DEF BreakerNext
  <1>3. QED
    BY <1>1, <1>2, PTL DEF BreakerSpec

\* The breaker is closed exactly while its counter is below the threshold: a
\* late failure cannot leave it closed at the threshold, and no probe or
\* report leaves it open below it.
THEOREM ClosedBelowThresholdHolds == BreakerSpec => []ClosedBelowThreshold
  <1>1. BreakerInit => ClosedBelowThreshold
    BY BreakerAssumption DEF BreakerInit, ClosedBelowThreshold
  <1>2. ASSUME BreakerTypeOK, ClosedBelowThreshold, [BreakerNext]_breakerVars
        PROVE  ClosedBelowThreshold'
    <2>1. ASSUME NEW c \in Caller, CanExecute(c)
          PROVE  ClosedBelowThreshold'
      BY <1>2, <2>1 DEF BreakerTypeOK, ClosedBelowThreshold, CanExecute
    <2>2. ASSUME NEW c \in Caller, RecordSuccess(c)
          PROVE  ClosedBelowThreshold'
      BY <2>2, BreakerAssumption DEF ClosedBelowThreshold, RecordSuccess
    <2>3. ASSUME NEW c \in Caller, RecordFailure(c)
          PROVE  ClosedBelowThreshold'
      BY <1>2, <2>3, BreakerAssumption DEF BreakerTypeOK, ClosedBelowThreshold, RecordFailure
    <2>4. CASE Tick \/ (\E c \in Caller : NoReport(c)) \/ UNCHANGED breakerVars
      BY <1>2, <2>4 DEF ClosedBelowThreshold, Tick, NoReport, breakerVars
    <2>5. QED
      BY <1>2, <2>1, <2>2, <2>3, <2>4 DEF BreakerNext
  <1>3. QED
    BY <1>1, <1>2, BreakerTypeCorrect, PTL DEF BreakerSpec

\* OneProbe made inductive: while the breaker is not closed, the probes under
\* way are at least as old as the Instant it counts the cooldown from.
ProbeInv ==
    /\ OneProbe
    /\ state # "Closed" =>
          \A c \in Caller : calling[c] = "probe" => age[c] >= elapsed

\* A half-open breaker has one probe under way that is younger than the
\* cooldown, whatever older calls report meanwhile.
THEOREM OneProbeHolds == BreakerSpec => []OneProbe
  <1>1. BreakerInit => ProbeInv
    BY DEF BreakerInit, ProbeInv, OneProbe
  <1>2. ASSUME BreakerTypeOK, ProbeInv, [BreakerNext]_breakerVars
        PROVE  ProbeInv'
    <2>1. CASE Tick
      <3>1. \A c \in Caller : age'[c] >= age[c] /\ age'[c] = Later(age[c])
        BY <1>2, <2>1, LaterType DEF BreakerTypeOK, Tick
      <3>2. \A c \in Caller : age[c] \in 0..Cooldown /\ age'[c] \in 0..Cooldown
        BY <1>2, <2>1, LaterType DEF BreakerTypeOK, Tick
      <3>3. OneProbe'
        BY <1>2, <2>1, <3>1, <3>2, BreakerAssumption DEF ProbeInv, OneProbe, Tick
      <3>4. ASSUME state # "Closed", NEW c \in Caller, calling[c] = "probe"
            PROVE  age'[c] >= elapsed'
        <4>1. age[c] >= elapsed /\ elapsed \in 0..Cooldown
          BY <1>2, <3>4 DEF BreakerTypeOK, ProbeInv
        <4>2. QED
          BY <2>1, <3>1, <3>2, <4>1, LaterMonotone DEF Tick
      <3>5. QED
        BY <2>1, <3>3, <3>4 DEF ProbeInv, Tick
    <2>2. ASSUME NEW c \in Caller, CanExecute(c), state = "Closed"
          PROVE  ProbeInv'
      BY <1>2, <2>2 DEF BreakerTypeOK, ProbeInv, OneProbe, CanExecute, Allow
    <2>3. ASSUME NEW c \in Caller, CanExecute(c), state # "Closed"
          PROVE  ProbeInv'
      <3>1. /\ elapsed >= Cooldown /\ elapsed' = 0
            /\ calling' = [calling EXCEPT ![c] = "probe"]
            /\ age' = [age EXCEPT ![c] = 0]
        BY <2>3 DEF CanExecute, Allow
      <3>2. \A b \in Caller : b # c /\ calling[b] = "probe" => age[b] >= Cooldown
        BY <1>2, <2>3, <3>1, BreakerAssumption DEF BreakerTypeOK, ProbeInv
      <3>3. QED
        BY <1>2, <3>1, <3>2, BreakerAssumption DEF BreakerTypeOK, ProbeInv, OneProbe
    <2>4. ASSUME NEW c \in Caller, RecordSuccess(c) \/ RecordFailure(c) \/ NoReport(c)
          PROVE  ProbeInv'
      <3>1. /\ calling' = [calling EXCEPT ![c] = "none"] /\ age' = age
            /\ \/ state' = "Closed"
               \/ elapsed' = 0
               \/ UNCHANGED <<state, elapsed>>
        BY <2>4 DEF RecordSuccess, RecordFailure, NoReport, Return
      <3>2. QED
        BY <1>2, <3>1, BreakerAssumption DEF BreakerTypeOK, ProbeInv, OneProbe
    <2>5. CASE UNCHANGED breakerVars
      BY <1>2, <2>5 DEF ProbeInv, OneProbe, breakerVars
    <2>6. QED
      BY <1>2, <2>1, <2>2, <2>3, <2>4, <2>5 DEF BreakerNext
  <1>3. ProbeInv => OneProbe
    BY DEF ProbeInv
  <1>4. QED
    BY <1>1, <1>2, <1>3, BreakerTypeCorrect, PTL DEF BreakerSpec
=============================================================================
