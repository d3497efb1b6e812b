----------------------- MODULE StopModeOperatorProofs -----------------------
(***************************************************************************)
(* The parking properties of StopModeOperator for every period, jitter,    *)
(* duration and timeout.                                                   *)
(***************************************************************************)
EXTENDS StopModeOperator, TLAPS

\* The condition has a start exactly while it has a last sample, which is the
\* latest report; it started no earlier than the last moving report; and no
\* tick has left a silence of the timeout behind it.
ConditionInv ==
    /\ hasStart <=> hasLast
    /\ hasLast => lastAge = reportAge /\ startAge <= movedAge
    /\ hasLast => reportAge < Timeout + timerAge /\ gap < Unseen

IInv == /\ TypeOK /\ ConditionInv
        /\ gear = "PARK" => reportAge < Timeout + timerAge

\* What the constants' bounds give: no age below Unseen is saturated.
LEMMA CapFacts ==
    /\ AgeCap \in Nat /\ Unseen \in Nat /\ Unseen < AgeCap
    /\ Period \in Nat /\ MaxJitter \in Nat /\ Timeout \in Nat /\ Duration \in Nat
    /\ Period > 0 /\ Timeout > 0 /\ Duration > 0
    /\ Unseen = Timeout + Period + MaxJitter
  BY StopAssumption DEF AgeCap, Unseen

LEMMA InitHolds == Init => IInv
  <1> SUFFICES ASSUME Init PROVE IInv
    OBVIOUS
  <1>1. TypeOK
    <2>1. hasLast \in BOOLEAN /\ hasStart \in BOOLEAN
      BY Zenon DEF Init
    <2> QED
      BY <2>1, CapFacts DEF Init, TypeOK
  <1>2. ~hasLast /\ ~hasStart /\ gear # "PARK"
    BY DEF Init
  <1> QED
    BY <1>1, <1>2 DEF IInv, ConditionInv

\* The types and the condition survive every step.
LEMMA StepHolds == IInv /\ [Next]_vars => IInv'
  <1> SUFFICES ASSUME IInv, [Next]_vars PROVE IInv'
    OBVIOUS
  <1>1. ASSUME NEW stopped \in BOOLEAN, on_velocity(stopped) PROVE IInv'
    BY <1>1, CapFacts
    DEF IInv, TypeOK, ConditionInv, on_velocity, update
  <1>2. CASE on_route_state
    BY <1>2, CapFacts DEF IInv, TypeOK, ConditionInv, on_route_state, condition, history
  <1>3. CASE on_timer
    <2>1. CASE hasLast /\ lastAge >= Timeout
      <3>1. ~hasLast' /\ ~hasStart' /\ hasLast' \in BOOLEAN /\ hasStart' \in BOOLEAN
        BY <1>3, <2>1 DEF on_timer, update_timeout
      <3>2. gear' = "NONE"
        BY <1>3, <3>1 DEF on_timer, publish_gear_command, check
      <3>3. TypeOK'
        BY <1>3, <2>1, <3>1, <3>2, CapFacts
        DEF IInv, TypeOK, on_timer, update_timeout, history
      <3> QED
        BY <3>1, <3>2, <3>3 DEF IInv, ConditionInv
    <2>2. CASE ~(hasLast /\ lastAge >= Timeout)
      BY <1>3, <2>2, CapFacts
      DEF IInv, TypeOK, ConditionInv, on_timer, update_timeout, publish_gear_command,
          check, condition, history
    <2> QED
      BY <2>1, <2>2
  <1>4. CASE Advance
    BY <1>4, CapFacts DEF IInv, TypeOK, ConditionInv, Advance, Aged
  <1>5. CASE UNCHANGED vars
    BY <1>5 DEF IInv, TypeOK, ConditionInv, vars, condition, history
  <1> QED
    BY <1>1, <1>2, <1>3, <1>4, <1>5 DEF Next

THEOREM Invariant == Spec => []IInv
  <1> QED
    BY InitHolds, StepHolds, PTL DEF Spec

\* A silent velocity stream takes the parking gear back within the timeout, a
\* period and a jitter (update_timeout before publish_gear_command in on_timer).
THEOREM ParkIsWatched == Spec => []ParkWatched
  <1>1. IInv => ParkWatched
    BY CapFacts DEF IInv, TypeOK, ParkWatched
  <1> QED
    BY <1>1, Invariant, PTL

\* No gap of a timeout, a period and a jitter is bridged by a late report
\* (ContinuousCondition::update extends a start that update_timeout has not
\* reset yet).
THEOREM ParkIsReported == Spec => []ParkReported
  <1>1. IInv => ParkReported
    BY DEF IInv, ConditionInv, ParkReported
  <1> QED
    BY <1>1, Invariant, PTL

\* The parking gear is commanded only after a standstill of the whole
\* duration (ContinuousCondition::check at the tick).
THEOREM ParkIsEarned == Spec => ParkEarned
  <1>1. IInv /\ [Next]_vars => [on_timer /\ gear' = "PARK" => movedAge >= Duration]_vars
    BY CapFacts DEF IInv, TypeOK, ConditionInv, on_timer, update_timeout,
       publish_gear_command, check, condition, vars
  <1> QED
    BY <1>1, Invariant, PTL DEF Spec, ParkEarned
=============================================================================
