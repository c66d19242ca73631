------------------------------- MODULE Breaker -------------------------------
(***************************************************************************)
(* The circuit breaker in front of the denied-tap recheck, and the gate of *)
(* RecheckDeniedTap that uses it: a denied tap asks allow, calls Redpoint  *)
(* when it may, and reports the answer as a success or a failure.  Every   *)
(* tap has a goroutine of its own, so calls overlap; the breaker's four    *)
(* operations run under its mutex and are atomic, the call between them is *)
(* not.  What a recheck does to the member row and to the hub once         *)
(* Redpoint has answered is modelled in Membership; what a call goes       *)
(* through before it ends, in Outage, which extends this module.           *)
(*                                                                         *)
(* The breaker compares now with openedAt only; openFor is that            *)
(* difference, counted no further than Cooldown.  A call lives Timeout     *)
(* ticks at most: its context expires (handler.go:367) and the client      *)
(* returns an error.                                                       *)
(***************************************************************************)
EXTENDS Integers, FiniteSets

CONSTANTS
  Taps,           \* the goroutines of denied taps
  Threshold,      \* consecutive failures to trip (5)
  Cooldown,       \* ticks the open state lasts (60 s)
  Timeout         \* ticks of a recheck's context (10 s)

ASSUME TapsAssumption == IsFiniteSet(Taps) /\ Taps # {}
ASSUME BreakerAssumption ==
  /\ Threshold \in Nat \ {0}
  /\ Cooldown \in Nat \ {0}
  /\ Timeout \in Nat \ {0}

VARIABLES
  state, failures, probing,
  openFor,        \* now - openedAt, while open; 0 while closed
  at, age,        \* where the recheck of a tap is; how old its call is
  unrelieved      \* history: tripped, and neither an answer nor a reset since

breakerVars == <<state, failures, probing, openFor, unrelieved>>
tapVars     == <<at, age>>
vars        == <<breakerVars, tapVars>>

TypeOK ==
  /\ state \in {"closed", "open"}
  /\ failures \in Nat
  /\ probing \in BOOLEAN
  /\ openFor \in 0..Cooldown
  /\ at \in [Taps -> {"idle", "denied", "calling"}]
  /\ age \in [Taps -> 0..Timeout]
  /\ unrelieved \in BOOLEAN

InFlight == {t \in Taps : at[t] = "calling"}

Init ==
  /\ state = "closed" /\ failures = 0 /\ probing = FALSE
  /\ openFor = 0
  /\ at = [t \in Taps |-> "idle"]
  /\ age = [t \in Taps |-> 0]
  /\ unrelieved = FALSE

-----------------------------------------------------------------------------
(* The breaker's operations, each under its mutex.                          *)

\* The cooldown ends a unit early.
CooldownElapsedEarly == openFor >= Cooldown - 1
CooldownElapsed == openFor >= Cooldown

\* No probe is ever let through.
AllowedOnlyClosed == state = "closed"
Allowed == state = "closed" \/ CooldownElapsed

(* allow, when it answers yes.  After the cooldown it closes the breaker    *)
(* for the caller and for whoever comes during the caller's attempt.        *)
Admit ==
  IF state = "closed"
  THEN UNCHANGED <<state, failures, probing, openFor>>
  ELSE state' = "closed" /\ failures' = 0 /\ probing' = TRUE /\ openFor' = 0

\* The flag survives the recovery.
successStillProbing ==
  /\ state' = "closed" /\ failures' = 0
  /\ openFor' = 0 /\ unrelieved' = FALSE
  /\ UNCHANGED probing
success ==
  /\ state' = "closed" /\ failures' = 0 /\ probing' = FALSE
  /\ openFor' = 0 /\ unrelieved' = FALSE

\* It takes one failure more.
TripsOneLate == failures >= Threshold /\ state = "closed"
Trips == failures + 1 >= Threshold /\ state = "closed"

(* What a trip is announced as: a fresh outage, or one that continues.      *)
AfterProbe == probing

failure ==
  /\ failures' = failures + 1
  /\ IF Trips
     THEN /\ state' = "open" /\ openFor' = 0 /\ probing' = FALSE
          /\ unrelieved' = TRUE
     ELSE UNCHANGED <<state, openFor, probing, unrelieved>>

forceReset ==
  /\ state' = "closed" /\ failures' = 0 /\ probing' = FALSE
  /\ openFor' = 0 /\ unrelieved' = FALSE

-----------------------------------------------------------------------------
(* The rechecks.                                                            *)

(* A denied tap whose member row is known reaches the breaker gate.         *)
Deny(t) ==
  /\ at[t] = "idle"
  /\ at' = [at EXCEPT ![t] = "denied"]
  /\ UNCHANGED <<breakerVars, age>>

(* Step 3: the breaker is open, the denial stands.                          *)
ShortCircuit(t) ==
  /\ at[t] = "denied" /\ ~Allowed
  /\ at' = [at EXCEPT ![t] = "idle"]
  /\ UNCHANGED <<breakerVars, age>>

(* Step 3: the breaker lets the tap through, RefreshCustomers begins.       *)
Call(t) ==
  /\ at[t] = "denied" /\ Allowed
  /\ Admit
  /\ at' = [at EXCEPT ![t] = "calling"]
  /\ age' = [age EXCEPT ![t] = 0]
  /\ UNCHANGED unrelieved

Finish(t) ==
  /\ at[t] = "calling"
  /\ at' = [at EXCEPT ![t] = "idle"]
  /\ age' = [age EXCEPT ![t] = 0]

(* Step 4: Redpoint answered; "no such customer" is an answer too.          *)
Answered(t) == Finish(t) /\ success

(* Step 4: an error, or the customer among the failed ids.                  *)
Failed(t) == Finish(t) /\ failure

(* POST /debug/reset-breakers.                                              *)
ResetBreaker == forceReset /\ UNCHANGED tapVars

\* A call may outlive its context.
TickWithoutDeadline ==
  /\ age' = [t \in Taps |-> IF t \in InFlight THEN age[t] + 1 ELSE 0]
  /\ openFor' = IF state = "open" /\ ~CooldownElapsed THEN openFor + 1 ELSE openFor
  /\ UNCHANGED <<state, failures, probing, unrelieved, at>>
Tick ==
  /\ \A t \in InFlight : age[t] < Timeout
  /\ age' = [t \in Taps |-> IF t \in InFlight THEN age[t] + 1 ELSE 0]
  /\ openFor' = IF state = "open" /\ ~CooldownElapsed THEN openFor + 1 ELSE openFor
  /\ UNCHANGED <<state, failures, probing, unrelieved, at>>

Next ==
  \/ \E t \in Taps : Deny(t) \/ ShortCircuit(t) \/ Call(t) \/ Answered(t) \/ Failed(t)
  \/ ResetBreaker
  \/ Tick

Spec == Init /\ [][Next]_vars

-----------------------------------------------------------------------------
(* Properties.                                                              *)

(* While the breaker is closed fewer than Threshold outcomes in a row were  *)
(* failures, and once it is open the failures seen and the calls still on   *)
(* their way add up to at most Threshold - 1 + |Taps|: an outage costs that *)
(* many requests per cooldown, however the calls overlap (breaker.go:29,    *)
(* "we stop piling on broken requests").                                    *)
PressureIsBounded ==
  /\ state = "closed" => failures < Threshold
  /\ state = "open" =>
       failures + Cardinality(InFlight) <= Threshold - 1 + Cardinality(Taps)

(* An open breaker closes by a reset, when the cooldown has passed, or by   *)
(* the late success of a call that was on its way when it tripped; and no   *)
(* call is on its way longer than Timeout after the trip (breaker.go:126,   *)
(* recheck.go:249-281).                                                     *)
StaysShut ==
  [][state = "open" /\ state' = "closed" =>
       ResetBreaker \/ openFor = Cooldown \/ openFor <= Timeout]_vars

(* The label of a trip is true: "after probe" (upstream still down) exactly *)
(* when nothing succeeded and nobody reset since the trip before it, and a  *)
(* recovery is announced only for a trip nobody relieved (breaker.go:177-   *)
(* 186, the two alerts of breakerEvent).                                    *)
LabelsAreTrue ==
  [][/\ state = "closed" /\ state' = "open" => (AfterProbe <=> unrelieved)
     /\ probing /\ (\E t \in Taps : Answered(t)) => unrelieved]_vars

(* Once calls no longer fail, the breaker ends up closed for good, provided *)
(* denied taps keep coming: only a tap can find that the cooldown is over   *)
(* (breaker.go:122; nothing but allow looks at the clock).                  *)
Recovers ==
  (<>[][\A t \in Taps : ~Failed(t)]_vars /\ []<>(\E t \in Taps : at[t] = "denied"))
    => <>[](state = "closed" /\ ~probing)
=============================================================================
