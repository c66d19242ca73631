---------------------------- MODULE Outage_proofs ----------------------------
(***************************************************************************)
(* The safety properties of Breaker and Outage, for any number of taps and *)
(* customers and any threshold, cooldown, timeout, rate and burst.         *)
(*                                                                         *)
(* Breaker's are proved of its own specification, which Outage implements  *)
(* (OutageImplementsBreaker), and so hold of Outage.  Two facts carry      *)
(* them.  LateCalls: while the breaker is open nobody is   *)
(* let through, so a call still on its way began before the trip and is at *)
(* least as old as the open state.  Unrelieved: while the breaker is       *)
(* closed, probing says exactly that nothing relieved the last trip.       *)
(* The pacer's budget rests on Bucket: requests let through and tokens     *)
(* left together are what the bucket held plus what has dripped in since.  *)
(***************************************************************************)
EXTENDS Outage, FiniteSetTheorems, TLAPS

LateCalls == state = "open" => \A t \in InFlight : openFor <= age[t]

Unrelieved ==
  /\ state = "closed" => (probing <=> unrelieved)
  /\ state = "open" => unrelieved /\ ~probing

BreakerInv == TypeOK /\ LateCalls /\ Unrelieved /\ PressureIsBounded

(* A set of goroutines has a cardinality, at most that of Taps, and one     *)
(* that leaves it lowers the cardinality by one.                            *)
LEMMA InFlightCounts ==
  /\ Cardinality(Taps) \in Nat
  /\ \A S \in SUBSET Taps :
       /\ Cardinality(S) \in Nat
       /\ Cardinality(S) <= Cardinality(Taps)
       /\ \A t \in S : Cardinality(S \ {t}) = Cardinality(S) - 1
<1>1. IsFiniteSet(Taps)
  BY TapsAssumption DEF TapsAssumption
<1>2. Cardinality(Taps) \in Nat
  BY <1>1, FS_CardinalityType
<1>3. ASSUME NEW S \in SUBSET Taps
      PROVE  /\ Cardinality(S) \in Nat
             /\ Cardinality(S) <= Cardinality(Taps)
             /\ \A t \in S : Cardinality(S \ {t}) = Cardinality(S) - 1
  <2>1. IsFiniteSet(S) /\ Cardinality(S) <= Cardinality(Taps)
    BY <1>1, FS_Subset
  <2>2. Cardinality(S) \in Nat
    BY <2>1, FS_CardinalityType
  <2>3. \A t \in S : Cardinality(S \ {t}) = Cardinality(S) - 1
    BY <2>1, FS_RemoveElement
  <2> QED BY <2>1, <2>2, <2>3
<1> QED BY <1>2, <1>3

(* The breaker starts closed with nobody on the way.                        *)
LEMMA InitInv == Init => BreakerInv
<1> SUFFICES ASSUME Init PROVE BreakerInv OBVIOUS
<1> USE BreakerAssumption DEF Init, BreakerAssumption
<1>1. TypeOK
  <2>1. 0 \in 0..Cooldown /\ 0 \in 0..Timeout /\ 0 \in Nat
    OBVIOUS
  <2>2. probing \in BOOLEAN /\ unrelieved \in BOOLEAN
    BY Zenon
  <2> QED BY <2>1, <2>2 DEF TypeOK
<1>2. LateCalls BY DEF LateCalls
<1>3. Unrelieved BY DEF Unrelieved
<1>4. PressureIsBounded BY DEF PressureIsBounded
<1> QED BY <1>1, <1>2, <1>3, <1>4 DEF BreakerInv

(* Every step keeps the type of the state.                                  *)
LEMMA NextType ==
  ASSUME TypeOK, [Next]_vars PROVE TypeOK'
<1> USE BreakerAssumption DEF BreakerAssumption, TypeOK
<1>1. ASSUME NEW t \in Taps, Deny(t) PROVE TypeOK'
  BY <1>1 DEF Deny, breakerVars
<1>2. ASSUME NEW t \in Taps, ShortCircuit(t) PROVE TypeOK'
  BY <1>2 DEF ShortCircuit, breakerVars
<1>0. ASSUME NEW t \in Taps, NEW place \in {"idle", "calling"},
             at' = [at EXCEPT ![t] = place], age' = [age EXCEPT ![t] = 0]
      PROVE  /\ at' \in [Taps -> {"idle", "denied", "calling"}]
             /\ age' \in [Taps -> 0..Timeout]
  BY <1>0
<1>3. ASSUME NEW t \in Taps, Call(t) PROVE TypeOK'
  <2>1. /\ at' \in [Taps -> {"idle", "denied", "calling"}]
        /\ age' \in [Taps -> 0..Timeout]
    BY <1>0, <1>3 DEF Call
  <2>2. probing' \in BOOLEAN
    BY <1>3 DEF Call, Admit
  <2> QED BY <1>3, <2>1, <2>2 DEF Call, Admit
<1>4. ASSUME NEW t \in Taps, Answered(t) PROVE TypeOK'
  <2>1. /\ at' \in [Taps -> {"idle", "denied", "calling"}]
        /\ age' \in [Taps -> 0..Timeout]
    BY <1>0, <1>4 DEF Answered, Finish
  <2>2. probing' \in BOOLEAN /\ unrelieved' \in BOOLEAN
    BY <1>4, Zenon DEF Answered, success
  <2> QED BY <1>4, <2>1, <2>2 DEF Answered, Finish, success
<1>5. ASSUME NEW t \in Taps, Failed(t) PROVE TypeOK'
  <2>1. /\ at' \in [Taps -> {"idle", "denied", "calling"}]
        /\ age' \in [Taps -> 0..Timeout]
    BY <1>0, <1>5 DEF Failed, Finish
  <2>2. /\ failures' \in Nat /\ openFor' \in 0..Cooldown
        /\ state' \in {"closed", "open"}
    BY <1>5 DEF Failed, failure
  <2>3. probing' \in BOOLEAN /\ unrelieved' \in BOOLEAN
    BY <1>5, Zenon DEF Failed, failure
  <2> QED BY <1>5, <2>1, <2>2, <2>3 DEF Failed, Finish
<1>6. CASE ResetBreaker
  <2>1. probing' \in BOOLEAN /\ unrelieved' \in BOOLEAN
    BY <1>6, Zenon DEF ResetBreaker, forceReset
  <2> QED BY <1>6, <2>1 DEF ResetBreaker, forceReset, tapVars
<1>7. CASE Tick
  <2>1. age' \in [Taps -> 0..Timeout]
    BY <1>7 DEF Tick, InFlight
  <2>2. openFor' \in 0..Cooldown
    BY <1>7 DEF Tick, CooldownElapsed
  <2> QED BY <1>7, <2>1, <2>2 DEF Tick
<1>8. CASE UNCHANGED vars
  BY <1>8 DEF vars, breakerVars, tapVars
<1> QED BY <1>1, <1>2, <1>3, <1>4, <1>5, <1>6, <1>7, <1>8 DEF Next

(* A call still on its way while the breaker is open is at least as old as  *)
(* the open state: a call begins only when the breaker is, or becomes,      *)
(* closed, a trip starts openFor at zero, and both grow with the clock.     *)
LEMMA NextLateCalls ==
  ASSUME TypeOK, LateCalls, [Next]_vars PROVE LateCalls'
<1> USE DEF TypeOK, LateCalls, InFlight
<1>1. ASSUME NEW t \in Taps, Deny(t) PROVE LateCalls'
  BY <1>1 DEF Deny, breakerVars
<1>2. ASSUME NEW t \in Taps, ShortCircuit(t) PROVE LateCalls'
  BY <1>2 DEF ShortCircuit, breakerVars
<1>3. ASSUME NEW t \in Taps, Call(t) PROVE LateCalls'
  BY <1>3 DEF Call, Admit
<1>4. ASSUME NEW t \in Taps, Answered(t) PROVE LateCalls'
  BY <1>4 DEF Answered, success
<1>5. ASSUME NEW t \in Taps, Failed(t) PROVE LateCalls'
  <2>1. \A s \in InFlight' : s \in InFlight /\ age'[s] = age[s]
    BY <1>5 DEF Failed, Finish
  <2>2. state' = "open" => openFor' = 0 \/ (state = "open" /\ openFor' = openFor)
    BY <1>5 DEF Failed, failure
  <2> QED BY <2>1, <2>2
<1>6. CASE ResetBreaker
  BY <1>6 DEF ResetBreaker, forceReset
<1>7. CASE Tick
  BY <1>7 DEF Tick
<1>8. CASE UNCHANGED vars
  BY <1>8 DEF vars, breakerVars, tapVars
<1> QED BY <1>1, <1>2, <1>3, <1>4, <1>5, <1>6, <1>7, <1>8 DEF Next

(* probing keeps meaning "nothing relieved the last trip".                  *)
LEMMA NextUnrelieved ==
  ASSUME TypeOK, Unrelieved, [Next]_vars PROVE Unrelieved'
<1> USE DEF TypeOK, Unrelieved
<1>1. ASSUME NEW t \in Taps, Deny(t) PROVE Unrelieved'
  BY <1>1 DEF Deny, breakerVars
<1>2. ASSUME NEW t \in Taps, ShortCircuit(t) PROVE Unrelieved'
  BY <1>2 DEF ShortCircuit, breakerVars
<1>3. ASSUME NEW t \in Taps, Call(t) PROVE Unrelieved'
  BY <1>3 DEF Call, Admit
<1>4. ASSUME NEW t \in Taps, Answered(t) PROVE Unrelieved'
  BY <1>4 DEF Answered, success
<1>5. ASSUME NEW t \in Taps, Failed(t) PROVE Unrelieved'
  BY <1>5 DEF Failed, failure, Trips
<1>6. CASE ResetBreaker
  BY <1>6 DEF ResetBreaker, forceReset
<1>7. CASE Tick
  BY <1>7 DEF Tick
<1>8. CASE UNCHANGED vars
  BY <1>8 DEF vars, breakerVars
<1> QED BY <1>1, <1>2, <1>3, <1>4, <1>5, <1>6, <1>7, <1>8 DEF Next

(* A failure while open costs a call that was already counted; a trip       *)
(* happens at exactly Threshold failures, with one call fewer on its way    *)
(* than there are goroutines.                                               *)
LEMMA NextPressure ==
  ASSUME TypeOK, PressureIsBounded, [Next]_vars PROVE PressureIsBounded'
<1> USE BreakerAssumption, InFlightCounts
    DEF BreakerAssumption, TypeOK, PressureIsBounded
<1>1. ASSUME UNCHANGED <<state, failures>>, InFlight' = InFlight
      PROVE  PressureIsBounded'
  BY <1>1
<1>2. ASSUME state' = "closed", failures' < Threshold
      PROVE  PressureIsBounded'
  BY <1>2
<1>3. ASSUME NEW t \in Taps, Deny(t) PROVE PressureIsBounded'
  BY <1>1, <1>3 DEF Deny, breakerVars, InFlight
<1>4. ASSUME NEW t \in Taps, ShortCircuit(t) PROVE PressureIsBounded'
  BY <1>1, <1>4 DEF ShortCircuit, breakerVars, InFlight
<1>5. ASSUME NEW t \in Taps, Call(t) PROVE PressureIsBounded'
  BY <1>2, <1>5 DEF Call, Admit
<1>6. ASSUME NEW t \in Taps, Answered(t) PROVE PressureIsBounded'
  BY <1>2, <1>6 DEF Answered, success
<1>7. ASSUME NEW t \in Taps, Failed(t) PROVE PressureIsBounded'
  <2>1. InFlight \in SUBSET Taps /\ t \in InFlight /\ InFlight' = InFlight \ {t}
    BY <1>7 DEF Failed, Finish, InFlight
  <2>2. /\ Cardinality(InFlight) \in Nat
        /\ Cardinality(InFlight) <= Cardinality(Taps)
        /\ Cardinality(InFlight') = Cardinality(InFlight) - 1
    BY <2>1
  <2>3. failures' = failures + 1
    BY <1>7 DEF Failed, failure
  <2>4. CASE Trips
    <3>1. state' = "open" /\ failures + 1 = Threshold
      BY <1>7, <2>4 DEF Failed, failure, Trips
    <3> QED BY <2>2, <2>3, <3>1
  <2>5. CASE ~Trips
    <3>1. state' = state
      BY <1>7, <2>5 DEF Failed, failure
    <3> QED BY <2>2, <2>3, <2>5, <3>1 DEF Trips
  <2> QED BY <2>4, <2>5
<1>8. CASE ResetBreaker
  BY <1>2, <1>8 DEF ResetBreaker, forceReset
<1>9. CASE Tick
  BY <1>1, <1>9 DEF Tick, InFlight
<1>10. CASE UNCHANGED vars
  BY <1>1, <1>10 DEF vars, breakerVars, tapVars, InFlight
<1> QED BY <1>3, <1>4, <1>5, <1>6, <1>7, <1>8, <1>9, <1>10 DEF Next

LEMMA NextInv == BreakerInv /\ [Next]_vars => BreakerInv'
BY NextType, NextLateCalls, NextUnrelieved, NextPressure DEF BreakerInv

LEMMA Invariance == Spec => []BreakerInv
BY InitInv, NextInv, PTL DEF Spec

(* The variables keep their types.                                          *)
THEOREM TypeCorrect == Spec => []TypeOK
<1>1. BreakerInv => TypeOK BY DEF BreakerInv
<1> QED BY <1>1, Invariance, PTL

(* An outage costs at most Threshold - 1 + |Taps| requests per cooldown,    *)
(* whatever order the overlapping calls of RecheckDeniedTap fail in.        *)
THEOREM PressureBounded == Spec => []PressureIsBounded
<1>1. BreakerInv => PressureIsBounded BY DEF BreakerInv
<1> QED BY <1>1, Invariance, PTL

(* An open breaker closes early only by a reset or, within Timeout of the   *)
(* trip, by the late success of a call that began before it.                *)
THEOREM ShutStays == Spec => StaysShut
<1>1. ASSUME BreakerInv, [Next]_vars, state = "open", state' = "closed"
      PROVE  ResetBreaker \/ openFor = Cooldown \/ openFor <= Timeout
  <2> USE <1>1, BreakerAssumption DEF BreakerAssumption, BreakerInv, TypeOK
  <2>1. ASSUME NEW t \in Taps, Call(t) PROVE openFor = Cooldown
    BY <2>1 DEF Call, Allowed, CooldownElapsed
  <2>2. ASSUME NEW t \in Taps, Answered(t) PROVE openFor <= Timeout
    BY <2>2 DEF Answered, Finish, LateCalls, InFlight
  <2>3. CASE ResetBreaker
    BY <2>3
  <2>4. /\ \A t \in Taps : ~Deny(t) /\ ~ShortCircuit(t) /\ ~Failed(t)
        /\ ~Tick /\ ~UNCHANGED vars
    BY DEF Deny, ShortCircuit, Failed, failure, Tick, vars, breakerVars, tapVars
  <2> QED BY <2>1, <2>2, <2>3, <2>4 DEF Next
<1>2. BreakerInv /\ [Next]_vars =>
        [state = "open" /\ state' = "closed" =>
           ResetBreaker \/ openFor = Cooldown \/ openFor <= Timeout]_vars
  BY <1>1
<1> QED BY <1>2, Invariance, PTL DEF Spec, StaysShut

(* The trip and recovery labels the operator is alerted with are true.      *)
THEOREM LabelsTrue == Spec => LabelsAreTrue
<1> DEFINE True ==
      /\ state = "closed" /\ state' = "open" => (AfterProbe <=> unrelieved)
      /\ probing /\ (\E t \in Taps : Answered(t)) => unrelieved
<1>1. ASSUME BreakerInv, [Next]_vars PROVE True
  <2> USE <1>1 DEF BreakerInv, TypeOK, Unrelieved
  <2>1. ASSUME NEW t \in Taps, Deny(t) PROVE True
    BY <2>1 DEF Deny, breakerVars
  <2>2. ASSUME NEW t \in Taps, ShortCircuit(t) PROVE True
    BY <2>2 DEF ShortCircuit, breakerVars
  <2>3. ASSUME NEW t \in Taps, Call(t) PROVE True
    BY <2>3 DEF Call, Admit
  <2>4. ASSUME NEW t \in Taps, Answered(t) PROVE True
    BY <2>4 DEF Answered, success
  <2>5. ASSUME NEW t \in Taps, Failed(t) PROVE True
    BY <2>5 DEF Failed, failure, Trips, AfterProbe
  <2>6. CASE ResetBreaker
    BY <2>6 DEF ResetBreaker, forceReset
  <2>7. CASE Tick
    BY <2>7 DEF Tick
  <2>8. CASE UNCHANGED vars
    BY <2>8 DEF vars, breakerVars
  <2> QED
    BY <2>1, <2>2, <2>3, <2>4, <2>5, <2>6, <2>7, <2>8 DEF Next
<1>2. BreakerInv /\ [Next]_vars => [True]_vars
  BY <1>1
<1> QED BY <1>2, Invariance, PTL DEF Spec, LabelsAreTrue

-----------------------------------------------------------------------------
(* Outage implements Breaker: every step of a call is a step of the         *)
(* breaker or none.                                                         *)

(* How a lookup may end is, for a tap, a step of its recheck.               *)
LEMMA EndsIsAStep ==
  ASSUME NEW c \in Callers, NEW answered \in BOOLEAN, Ends(c, answered)
  PROVE  [Next]_vars
<1>1. CASE c \in Taps
  <2>1. Answered(c) \/ Failed(c)
    BY <1>1 DEF Ends
  <2> QED BY <1>1, <2>1 DEF Next
<1>2. CASE c \notin Taps
  BY <1>2 DEF Ends
<1> QED BY <1>1, <1>2

LEMMA RetriesIsAStep ==
  ASSUME NEW c \in Callers, NEW r \in RetryAfters, Retries(c, r)
  PROVE  [Next]_vars
<1>1. CASE call[c].tries < MaxAttempts
  BY <1>1 DEF Retries
<1>2. CASE ~(call[c].tries < MaxAttempts)
  BY <1>2, EndsIsAStep DEF Retries
<1> QED BY <1>1, <1>2

LEMMA OutageStep == [OutageNext]_outageVars => [Next]_vars
<1> SUFFICES ASSUME [OutageNext]_outageVars PROVE [Next]_vars
  OBVIOUS
<1>1. ASSUME NEW t \in Taps, OutageDeny(t) \/ OutageShort(t) \/ OutageCall(t)
      PROVE  [Next]_vars
  BY <1>1 DEF OutageDeny, OutageShort, OutageCall, Next
<1>2. ASSUME NEW t \in Taps, Expires(t) PROVE [Next]_vars
  BY <1>2, EndsIsAStep DEF Expires, Callers
<1>3. ASSUME NEW c \in Callers, Granted(c) \/ SleepsOutCooldown(c) \/ SleepsForToken(c) \/ Resumes(c)
      PROVE  [Next]_vars
  BY <1>3 DEF Granted, SleepsOutCooldown, SleepsForToken, Resumes
<1>4. ASSUME NEW c \in Callers, Replied(c) \/ Permanent(c) PROVE [Next]_vars
  BY <1>4, EndsIsAStep DEF Replied, Permanent
<1>5. ASSUME NEW c \in Callers, NEW r \in RetryAfters, RateLimited(c, r) \/ Transient(c, r)
      PROVE  [Next]_vars
  BY <1>5, RetriesIsAStep DEF RateLimited, Transient
<1>6. CASE WalkBegins \/ WalkLooksUp \/ WalkAborts \/ WalkTurns \/ WalkEnds \/ WalkCancelled
  BY <1>6 DEF WalkBegins, WalkLooksUp, WalkAborts, WalkTurns, WalkEnds, WalkCancelled
<1>7. CASE OutageReset \/ OutageTick
  BY <1>7 DEF OutageReset, OutageTick, Next
<1>8. CASE UNCHANGED outageVars
  BY <1>8 DEF outageVars
<1> QED
  BY <1>1, <1>2, <1>3, <1>4, <1>5, <1>6, <1>7, <1>8 DEF OutageNext

(* Whatever the pacer, the retries and the refresh do, the breaker and the  *)
(* rechecks behave as Breaker says.                                         *)
THEOREM OutageImplementsBreaker == OutageSpec => Spec
<1>1. OutageInit => Init
  BY DEF OutageInit
<1> QED BY <1>1, OutageStep, PTL DEF OutageSpec, Spec

(* An outage costs at most Threshold - 1 + |Taps| requests per cooldown,    *)
(* with the retries and the refresh on the same client too.                 *)
THEOREM OutagePressureBounded == OutageSpec => []PressureIsBounded
BY OutageImplementsBreaker, PressureBounded, PTL

(* An open breaker stays shut while calls wait for the pacer or retry.      *)
THEOREM OutageShutStays == OutageSpec => StaysShut
BY OutageImplementsBreaker, ShutStays, PTL

(* The labels are true however long a probe takes to end.                   *)
THEOREM OutageLabelsTrue == OutageSpec => LabelsAreTrue
BY OutageImplementsBreaker, LabelsTrue, PTL

-----------------------------------------------------------------------------
(* The pacer and the walk.                                                  *)

WalkInv ==
  /\ walk.pass = 0 => walk = AtRest
  /\ EveryCustomerOnce
  /\ walk.streak <= walk.failed
  /\ call[Walker].phase # "none" => walk.todo > 0

Bucket ==
  /\ since < Horizon => granted + tokens <= first + Rate * since
  /\ pausedFor > 0 => first = 1 /\ granted = 0 /\ since = 0

Lookups ==
  /\ call \in [Callers -> [phase : Phases, tries : 0..MaxAttempts, wait : Nat]]
  /\ \A c \in Callers : call[c].phase = "backoff" => call[c].tries < MaxAttempts
  /\ \A t \in Taps : call[t].phase # "none" <=> at[t] = "calling"

WalkType ==
  /\ walk \in [todo : 0..Customers, reached : 0..Customers, failed : 0..Customers,
               streak : 0..Customers, pass : 0..2]
  /\ began \in 0..Walks /\ part \in SUBSET Callers

(* What the lookups and the walk are between two steps.                     *)
CallsInv == TypeOK /\ Lookups /\ WalkType /\ WalkInv

(* What a step may do to the pacer.                                         *)
PacerStep ==
  \/ UNCHANGED pacerVars
  \/ \E r \in RetryAfters : pause(r)
  \/ /\ pausedFor = 0 /\ tokens >= 1 /\ tokens' = tokens - 1
     /\ granted' = IF since = Horizon THEN granted ELSE granted + 1
     /\ UNCHANGED <<pausedFor, first, since>>
  \/ refill

LEMMA StepsOfThePacer == [OutageNext]_outageVars => PacerStep
BY DEF OutageNext, outageVars, OutageDeny, OutageShort, OutageCall, Expires,
  Granted, SleepsOutCooldown, SleepsForToken, Replied, Permanent, Resumes,
  RateLimited, Transient, WalkBegins, WalkLooksUp, WalkAborts, WalkTurns,
  WalkEnds, WalkCancelled, OutageReset, OutageTick, PacerStep

PacerType ==
  /\ tokens \in 0..Burst /\ pausedFor \in Nat
  /\ first \in Nat /\ granted \in Nat /\ since \in 0..Horizon

LEMMA PacerTyped ==
  ASSUME PacerType, PacerStep PROVE PacerType'
<1> USE OutageAssumption DEF OutageAssumption, PacerType
<1>1. CASE UNCHANGED pacerVars
  BY <1>1 DEF pacerVars
<1>2. ASSUME NEW r \in RetryAfters, pause(r) PROVE PacerType'
  BY <1>2 DEF pause, pacerVars
<1>3. CASE refill
  BY <1>3 DEF refill
<1> QED BY <1>1, <1>2, <1>3 DEF PacerStep

LEMMA BucketKept ==
  ASSUME PacerType, Bucket, PacerStep PROVE Bucket'
<1> USE OutageAssumption DEF OutageAssumption, PacerType, Bucket
<1>1. CASE UNCHANGED pacerVars
  BY <1>1 DEF pacerVars
<1>2. ASSUME NEW r \in RetryAfters, pause(r) PROVE Bucket'
  <2>1. CASE UNCHANGED pacerVars
    BY <2>1 DEF pacerVars
  <2>2. CASE ~UNCHANGED pacerVars
    <3>1. tokens' = 1 /\ first' = 1 /\ granted' = 0 /\ since' = 0
      BY <1>2, <2>2 DEF pause
    <3>2. Rate * since' = 0
      BY <3>1
    <3> QED BY <3>1, <3>2
  <2> QED BY <2>1, <2>2
<1>3. CASE /\ pausedFor = 0 /\ tokens >= 1 /\ tokens' = tokens - 1
           /\ granted' = IF since = Horizon THEN granted ELSE granted + 1
           /\ UNCHANGED <<pausedFor, first, since>>
  BY <1>3
<1>4. CASE refill
  <2>1. CASE pausedFor > 0
    BY <1>4, <2>1 DEF refill
  <2>2. CASE ~(pausedFor > 0)
    <3>1. tokens' <= tokens + Rate /\ granted' = granted /\ first' = first
      BY <1>4, <2>2 DEF refill
    <3>2. pausedFor' = 0
      BY <1>4, <2>2 DEF refill
    <3>3. CASE since = Horizon
      BY <1>4, <2>2, <3>2, <3>3 DEF refill
    <3>4. CASE since < Horizon
      <4>1. since' = since + 1
        BY <1>4, <2>2, <3>4 DEF refill
      <4>2. Rate * since' = Rate * since + Rate
        BY <4>1
      <4>3. Rate * since \in Nat /\ Rate * since' \in Nat /\ tokens' \in Nat
        BY <4>1, <4>2, <1>4, <2>2 DEF refill
      <4> QED BY <3>1, <3>2, <3>4, <4>2, <4>3
    <3> QED BY <3>3, <3>4
  <2> QED BY <2>1, <2>2
<1> QED BY <1>1, <1>2, <1>3, <1>4 DEF PacerStep

(* One lookup moves, the others stay.                                       *)
LEMMA MovesOne ==
  ASSUME Lookups, NEW c \in Callers, NEW p \in Phases, NEW n \in 0..MaxAttempts,
         NEW w \in Nat, Moves(c, p, n, w)
  PROVE  /\ call' \in [Callers -> [phase : Phases, tries : 0..MaxAttempts, wait : Nat]]
         /\ call'[c] = [phase |-> p, tries |-> n, wait |-> w]
         /\ \A d \in Callers \ {c} : call'[d] = call[d]
BY DEF Lookups, Moves

(* A lookup that goes on leaves the rechecks and the walk as they are.      *)
LEMMA GoesOn ==
  ASSUME CallsInv, NEW c \in Callers, NEW p \in Phases \ {"none"}, NEW n \in 0..MaxAttempts,
         NEW w \in Nat, Moves(c, p, n, w), p = "backoff" => n < MaxAttempts,
         call[c].phase # "none", UNCHANGED <<vars, walkVars>>
  PROVE  CallsInv'
<1>1. /\ call' \in [Callers -> [phase : Phases, tries : 0..MaxAttempts, wait : Nat]]
      /\ call'[c] = [phase |-> p, tries |-> n, wait |-> w]
      /\ \A d \in Callers \ {c} : call'[d] = call[d]
  BY MovesOne DEF CallsInv
<1>2. TypeOK'
  BY DEF CallsInv, TypeOK, vars, breakerVars, tapVars
<1>3. Lookups'
  BY <1>1 DEF CallsInv, Lookups, vars, tapVars, Callers
<1>4. WalkType'
  BY DEF CallsInv, WalkType, walkVars
<1>5. WalkInv'
  BY <1>1 DEF CallsInv, WalkInv, walkVars, EveryCustomerOnce, Callers
<1> QED BY <1>2, <1>3, <1>4, <1>5 DEF CallsInv

(* A lookup that ends is one customer less to do, and one more accounted    *)
(* for.                                                                     *)
LEMMA EndsWell ==
  ASSUME CallsInv, TypeOK', NEW c \in Callers, NEW answered \in BOOLEAN,
         Ends(c, answered), call[c].phase # "none"
  PROVE  CallsInv'
<1> USE OutageAssumption DEF OutageAssumption
<1>1. /\ call' \in [Callers -> [phase : Phases, tries : 0..MaxAttempts, wait : Nat]]
      /\ call'[c] = None
      /\ \A d \in Callers \ {c} : call'[d] = call[d]
  BY DEF CallsInv, Lookups, Ends, None, Phases
<1>2. CASE c \in Taps
  <2>1. Finish(c) /\ UNCHANGED walkVars
    BY <1>2 DEF Ends, Answered, Failed
  <2>2. at'[c] = "idle" /\ \A t \in Taps \ {c} : at'[t] = at[t]
    BY <2>1 DEF Finish, CallsInv, TypeOK
  <2>3. Lookups'
    BY <1>1, <2>2 DEF CallsInv, Lookups, None, Callers
  <2>4. WalkType'
    BY <2>1 DEF CallsInv, WalkType, walkVars
  <2>5. call'[Walker] = call[Walker]
    BY <1>1, <1>2 DEF Callers
  <2>6. WalkInv'
    BY <2>1, <2>5 DEF CallsInv, WalkInv, walkVars, EveryCustomerOnce
  <2> QED BY <2>3, <2>4, <2>6 DEF CallsInv
<1>3. CASE c \notin Taps
  <2>1. c = Walker /\ walk.todo > 0 /\ walk.pass # 0
    BY <1>3 DEF CallsInv, WalkInv, Callers, AtRest
  <2>2. Lookups'
    BY <1>1, <1>3 DEF CallsInv, Lookups, None, Callers, Ends, vars, tapVars
  <2>3. walk.todo + walk.reached + walk.failed = Customers
    BY <2>1 DEF CallsInv, WalkInv, EveryCustomerOnce, WalkType
  <2>4. CASE answered
    <3>1. walk' = [walk EXCEPT !.todo = @ - 1, !.reached = @ + 1, !.streak = 0]
      BY <1>3, <2>4 DEF Ends
    <3>2. WalkType'
      <4>1. began' = began /\ part' = part
        BY <1>3 DEF Ends
      <4>2. walk.todo - 1 \in 0..Customers /\ walk.reached + 1 \in 0..Customers
            /\ 0 \in 0..Customers
        BY <2>1, <2>3 DEF CallsInv, WalkType
      <4> QED BY <3>1, <4>1, <4>2 DEF CallsInv, WalkType
    <3>3. WalkInv'
      BY <1>1, <2>1, <2>3, <3>1 DEF CallsInv, WalkType, WalkInv, EveryCustomerOnce, None
    <3> QED BY <2>2, <3>2, <3>3 DEF CallsInv
  <2>5. CASE ~answered
    <3>1. walk' = [walk EXCEPT !.todo = @ - 1, !.failed = @ + 1,
                               !.streak = IF walk.pass = 1 THEN @ + 1 ELSE @]
      BY <1>3, <2>5 DEF Ends
    <3>2. WalkType'
      <4>1. began' = began /\ part' = part
        BY <1>3 DEF Ends
      <4>2. /\ walk.todo - 1 \in 0..Customers /\ walk.failed + 1 \in 0..Customers
            /\ walk.streak + 1 \in 0..Customers
        BY <2>1, <2>3 DEF CallsInv, WalkType, WalkInv
      <4> QED BY <3>1, <4>1, <4>2 DEF CallsInv, WalkType
    <3>3. WalkInv'
      BY <1>1, <2>1, <2>3, <3>1 DEF CallsInv, WalkType, WalkInv, EveryCustomerOnce, None
    <3> QED BY <2>2, <3>2, <3>3 DEF CallsInv
  <2> QED BY <2>4, <2>5
<1> QED BY <1>2, <1>3

LEMMA RetriesWell ==
  ASSUME CallsInv, TypeOK', NEW c \in Callers, NEW r \in RetryAfters,
         Retries(c, r), call[c].phase # "none"
  PROVE  CallsInv'
<1>1. call[c].tries \in 0..MaxAttempts /\ r \in Nat
  BY OutageAssumption DEF OutageAssumption, CallsInv, Lookups
<1>2. CASE call[c].tries < MaxAttempts
  BY <1>1, <1>2, GoesOn DEF Retries, Phases
<1>3. CASE ~(call[c].tries < MaxAttempts)
  BY <1>3, EndsWell DEF Retries
<1> QED BY <1>2, <1>3

LEMMA NextCalls ==
  ASSUME CallsInv, TypeOK', PacerType, [OutageNext]_outageVars PROVE CallsInv'
<1> USE OutageAssumption DEF OutageAssumption
<1>1. ASSUME NEW t \in Taps, OutageDeny(t) PROVE CallsInv'
  <2>1. Lookups'
    BY <1>1 DEF CallsInv, Lookups, TypeOK, OutageDeny, Deny
  <2>2. WalkType' /\ WalkInv'
    BY <1>1 DEF CallsInv, WalkType, WalkInv, EveryCustomerOnce, walkVars, OutageDeny
  <2> QED BY <2>1, <2>2 DEF CallsInv
<1>2. ASSUME NEW t \in Taps, OutageShort(t) PROVE CallsInv'
  <2>1. Lookups'
    BY <1>2 DEF CallsInv, Lookups, TypeOK, OutageShort, ShortCircuit
  <2>2. WalkType' /\ WalkInv'
    BY <1>2 DEF CallsInv, WalkType, WalkInv, EveryCustomerOnce, walkVars, OutageShort
  <2> QED BY <2>1, <2>2 DEF CallsInv
<1>3. ASSUME NEW c \in Callers, Looking(c)
      PROVE  /\ call' \in [Callers -> [phase : Phases, tries : 0..MaxAttempts, wait : Nat]]
             /\ call'[c].phase = "pacing"
             /\ \A d \in Callers \ {c} : call'[d] = call[d]
  BY <1>3 DEF CallsInv, Lookups, Looking, Moves, Phases
<1>4. ASSUME NEW t \in Taps, OutageCall(t) PROVE CallsInv'
  <2>1. Looking(t) /\ t \in Callers /\ t # Walker
    BY <1>4 DEF OutageCall, Callers
  <2>2. at'[t] = "calling" /\ \A s \in Taps \ {t} : at'[s] = at[s]
    BY <1>4 DEF OutageCall, Call, CallsInv, TypeOK
  <2>3. Lookups'
    BY <1>3, <2>1, <2>2 DEF CallsInv, Lookups, Callers
  <2>4. WalkType' /\ WalkInv'
    BY <1>3, <1>4, <2>1 DEF CallsInv, WalkType, WalkInv, EveryCustomerOnce,
      walkVars, OutageCall, Callers
  <2> QED BY <2>3, <2>4 DEF CallsInv
<1>5. ASSUME NEW t \in Taps, Expires(t) PROVE CallsInv'
  BY <1>5, EndsWell DEF Expires, Callers
<1>6. ASSUME NEW c \in Callers, Granted(c) \/ SleepsOutCooldown(c) \/ SleepsForToken(c)
      PROVE  CallsInv'
  <2>1. call[c].phase = "pacing" /\ call[c].tries \in 0..MaxAttempts
    BY <1>6 DEF Granted, SleepsOutCooldown, SleepsForToken, Looks, CallsInv, Lookups
  <2>2. /\ UNCHANGED <<vars, walkVars>>
        /\ \/ Moves(c, "sent", call[c].tries, 0)
           \/ pausedFor \in Nat /\ Moves(c, "pacing", call[c].tries, pausedFor)
           \/ Moves(c, "pacing", call[c].tries, 1)
    BY <1>6 DEF Granted, SleepsOutCooldown, SleepsForToken, PacerType
  <2>3. CASE Moves(c, "sent", call[c].tries, 0)
    BY <2>1, <2>2, <2>3, GoesOn DEF Phases
  <2>4. CASE pausedFor \in Nat /\ Moves(c, "pacing", call[c].tries, pausedFor)
    BY <2>1, <2>2, <2>4, GoesOn DEF Phases
  <2>5. CASE Moves(c, "pacing", call[c].tries, 1)
    BY <2>1, <2>2, <2>5, GoesOn DEF Phases
  <2> QED BY <2>2, <2>3, <2>4, <2>5
<1>7. ASSUME NEW c \in Callers, Replied(c) \/ Permanent(c) PROVE CallsInv'
  BY <1>7, EndsWell DEF Replied, Permanent
<1>8. ASSUME NEW c \in Callers, Resumes(c) PROVE CallsInv'
  <2>1. call[c].phase = "backoff" /\ call[c].tries + 1 \in 0..MaxAttempts
    BY <1>8 DEF Resumes, CallsInv, Lookups
  <2> QED BY <1>8, <2>1, GoesOn DEF Resumes, Phases
<1>9. ASSUME NEW c \in Callers, NEW r \in RetryAfters, RateLimited(c, r) \/ Transient(c, r)
      PROVE  CallsInv'
  BY <1>9, RetriesWell DEF RateLimited, Transient
<1>10. ASSUME UNCHANGED vars PROVE (\A t \in Taps : at'[t] = at[t])
  BY <1>10 DEF vars, tapVars
<1>11. CASE WalkBegins
  <2>1. Lookups'
    BY <1>11 DEF WalkBegins, CallsInv, Lookups, vars, tapVars
  <2>2. /\ walk' = [todo |-> Customers, reached |-> 0, failed |-> 0, streak |-> 0, pass |-> 1]
        /\ began' \in 0..Walks /\ part' = part
    <3>1. walk' = [AtRest EXCEPT !.todo = Customers, !.pass = 1]
      BY <1>11 DEF WalkBegins
    <3>2. began' \in 0..Walks /\ part' = part
      BY <1>11 DEF WalkBegins, CallsInv, WalkType
    <3> QED BY <3>1, <3>2 DEF AtRest
  <2>3. WalkType'
    BY <2>2 DEF CallsInv, WalkType
  <2>4. WalkInv'
    BY <2>2 DEF WalkInv, EveryCustomerOnce
  <2> QED BY <2>1, <2>3, <2>4 DEF CallsInv
<1>12. CASE WalkLooksUp
  <2>1. Looking(Walker) /\ Walker \in Callers
    BY <1>12 DEF WalkLooksUp, Callers
  <2>2. Lookups'
    BY <1>3, <1>12, <2>1 DEF WalkLooksUp, CallsInv, Lookups, vars, tapVars, Callers
  <2>3. WalkType' /\ WalkInv'
    BY <1>12 DEF WalkLooksUp, CallsInv, WalkType, WalkInv, EveryCustomerOnce, walkVars
  <2> QED BY <2>2, <2>3 DEF CallsInv
<1>13. CASE WalkAborts
  <2>1. Lookups'
    BY <1>13 DEF WalkAborts, CallsInv, Lookups, vars, tapVars
  <2>2. /\ walk.pass = 1 /\ walk.failed + walk.todo \in 0..Customers /\ 0 \in 0..Customers
        /\ walk' = [walk EXCEPT !.failed = @ + walk.todo, !.todo = 0]
        /\ UNCHANGED <<call, began, part>> /\ call[Walker] = None
    BY <1>13 DEF WalkAborts, GivesUp, CallsInv, WalkType, WalkInv, EveryCustomerOnce
  <2>3. WalkType'
    BY <2>2 DEF CallsInv, WalkType
  <2>4. WalkInv'
    BY <2>2 DEF CallsInv, WalkType, WalkInv, EveryCustomerOnce, None
  <2> QED BY <2>1, <2>3, <2>4 DEF CallsInv
<1>14. CASE WalkTurns
  <2>1. Lookups'
    BY <1>14 DEF WalkTurns, CallsInv, Lookups, vars, tapVars
  <2>2. /\ walk.pass = 1 /\ walk.todo = 0 /\ 0 \in 0..Customers
        /\ walk' = [walk EXCEPT !.todo = walk.failed, !.failed = 0, !.streak = 0, !.pass = 2]
        /\ UNCHANGED <<call, began, part>> /\ call[Walker] = None
    BY <1>14 DEF WalkTurns, WorthAnother, SecondPass
  <2>3. WalkType'
    <3>1. walk.failed \in 0..Customers /\ walk.reached \in 0..Customers
      BY DEF CallsInv, WalkType
    <3>2. walk' = [todo |-> walk.failed, reached |-> walk.reached, failed |-> 0,
                   streak |-> 0, pass |-> 2]
      BY <2>2 DEF CallsInv, WalkType
    <3> QED BY <2>2, <3>1, <3>2 DEF CallsInv, WalkType
  <2>4. WalkInv'
    BY <2>2 DEF CallsInv, WalkType, WalkInv, EveryCustomerOnce, None
  <2> QED BY <2>1, <2>3, <2>4 DEF CallsInv
<1>15. CASE WalkEnds
  <2>1. Lookups'
    BY <1>15 DEF WalkEnds, CallsInv, Lookups, vars, tapVars
  <2>2. WalkType' /\ WalkInv'
    BY <1>15 DEF WalkEnds, CallsInv, WalkType, WalkInv, EveryCustomerOnce, AtRest, None
  <2> QED BY <2>1, <2>2 DEF CallsInv
<1>16. CASE WalkCancelled
  <2>1. Lookups'
    BY <1>16 DEF WalkCancelled, CallsInv, Lookups, vars, tapVars, None, Phases, Callers
  <2>2. /\ walk.pass > 0 /\ walk.failed + walk.todo \in 0..Customers /\ 0 \in 0..Customers
        /\ walk' = [walk EXCEPT !.failed = @ + walk.todo, !.todo = 0, !.pass = 2]
        /\ UNCHANGED <<began, part>>
    BY <1>16 DEF WalkCancelled, CallsInv, WalkType, WalkInv, EveryCustomerOnce
  <2>3. call'[Walker] = None
    BY <1>16 DEF WalkCancelled, CallsInv, Lookups, Callers
  <2>4. WalkType'
    <3>1. walk.streak \in 0..Customers /\ walk.reached \in 0..Customers
      BY DEF CallsInv, WalkType
    <3>2. walk' = [todo |-> 0, reached |-> walk.reached, failed |-> walk.failed + walk.todo,
                   streak |-> walk.streak, pass |-> 2]
      BY <2>2 DEF CallsInv, WalkType
    <3> QED BY <2>2, <3>1, <3>2 DEF CallsInv, WalkType
  <2>5. WalkInv'
    BY <2>2, <2>3 DEF CallsInv, WalkType, WalkInv, EveryCustomerOnce, None
  <2> QED BY <2>1, <2>4, <2>5 DEF CallsInv
<1>17. CASE OutageReset
  BY <1>17 DEF OutageReset, ResetBreaker, CallsInv, Lookups, WalkType, WalkInv,
    EveryCustomerOnce, walkVars, tapVars
<1>18. CASE OutageTick
  <2>1. \A c \in Callers : call'[c].phase = call[c].phase /\ call'[c].tries = call[c].tries
    BY <1>18 DEF OutageTick, CallsInv, Lookups
  <2>2. call' \in [Callers -> [phase : Phases, tries : 0..MaxAttempts, wait : Nat]]
    BY <1>18 DEF OutageTick, CallsInv, Lookups
  <2>3. Lookups'
    BY <1>18, <2>1, <2>2 DEF OutageTick, Tick, CallsInv, Lookups, Callers
  <2>4. WalkType' /\ WalkInv'
    BY <1>18, <2>1 DEF OutageTick, CallsInv, WalkType, WalkInv, EveryCustomerOnce,
      walkVars, Callers
  <2> QED BY <2>3, <2>4 DEF CallsInv
<1>19. CASE UNCHANGED outageVars
  BY <1>19 DEF outageVars, vars, tapVars, CallsInv, Lookups, WalkType, WalkInv,
    EveryCustomerOnce, walkVars
<1> QED
  BY <1>1, <1>2, <1>4, <1>5, <1>6, <1>7, <1>8, <1>9, <1>11, <1>12, <1>13, <1>14,
     <1>15, <1>16, <1>17, <1>18, <1>19 DEF OutageNext

OutageInv == BreakerInv /\ CallsInv /\ PacerType /\ Bucket

LEMMA OutageInitInv == OutageInit => OutageInv
<1> SUFFICES ASSUME OutageInit PROVE OutageInv OBVIOUS
<1> USE OutageAssumption DEF OutageAssumption
<1>1. BreakerInv
  BY InitInv DEF OutageInit
<1>2. Lookups
  <2>1. None \in [phase : Phases, tries : 0..MaxAttempts, wait : Nat]
    BY DEF None, Phases
  <2>2. \A c \in Callers : call[c] = None /\ None.phase = "none"
    BY DEF OutageInit, None
  <2>3. \A t \in Taps : t \in Callers /\ at[t] = "idle"
    BY DEF OutageInit, Init, Callers
  <2>4. call \in [Callers -> [phase : Phases, tries : 0..MaxAttempts, wait : Nat]]
    BY <2>1 DEF OutageInit
  <2> QED BY <2>2, <2>3, <2>4 DEF Lookups
<1>3. WalkType /\ WalkInv
  BY DEF OutageInit, WalkType, WalkInv, EveryCustomerOnce, AtRest, None, Callers
<1>4. PacerType /\ Bucket
  <2>1. Rate * since = 0
    BY DEF OutageInit
  <2> QED BY <2>1 DEF OutageInit, PacerType, Bucket
<1> QED BY <1>1, <1>2, <1>3, <1>4 DEF OutageInv, CallsInv, BreakerInv

LEMMA OutageInvariance == OutageSpec => []OutageInv
<1>1. OutageInv /\ [OutageNext]_outageVars => OutageInv'
  <2> SUFFICES ASSUME OutageInv, [OutageNext]_outageVars PROVE OutageInv'
    OBVIOUS
  <2>1. BreakerInv' /\ TypeOK'
    BY OutageStep, NextInv DEF OutageInv, BreakerInv
  <2>2. CallsInv'
    BY <2>1, NextCalls DEF OutageInv
  <2>3. PacerType' /\ Bucket'
    BY StepsOfThePacer, PacerTyped, BucketKept DEF OutageInv
  <2> QED BY <2>1, <2>2, <2>3 DEF OutageInv
<1> QED BY <1>1, OutageInitInv, PTL DEF OutageSpec

(* The pacer, the lookups and the walk keep their types.                    *)
THEOREM OutageTypeCorrect == OutageSpec => []OutageTypeOK
<1>1. OutageInv => OutageTypeOK
  BY DEF OutageInv, CallsInv, Lookups, WalkType, PacerType, OutageTypeOK
<1> QED BY <1>1, OutageInvariance, PTL

(* After a 429, however many callers slept through the cooldown, they get   *)
(* one request and then Rate a tick (pacer.go:119-122).                     *)
THEOREM BudgetKept == OutageSpec => []BudgetIsKept
<1>1. OutageInv => BudgetIsKept
  <2> SUFFICES ASSUME OutageInv, since < Horizon
               PROVE  granted <= IF pausedFor > 0 THEN 0 ELSE first + Rate * since
    BY DEF BudgetIsKept
  <2>1. Rate * since \in Nat
    BY OutageAssumption DEF OutageAssumption, OutageInv, PacerType
  <2> QED BY <2>1 DEF OutageInv, PacerType, Bucket
<1> QED BY <1>1, OutageInvariance, PTL

(* RefreshCustomers accounts for every requested customer once.             *)
THEOREM CustomersAccounted == OutageSpec => []EveryCustomerOnce
<1>1. OutageInv => EveryCustomerOnce
  BY DEF OutageInv, CallsInv, WalkInv
<1> QED BY <1>1, OutageInvariance, PTL
=============================================================================
