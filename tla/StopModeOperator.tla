-------------------------- MODULE StopModeOperator --------------------------
(***************************************************************************)
(* The stop mode operator: a tick that commands the parking gear once the  *)
(* vehicle has reported a standstill for long enough and the route is      *)
(* unset or arrived (src/autoware_stop_mode_operator/src/                  *)
(* stop_mode_operator.cpp, continuous_condition.cpp).                      *)
(*                                                                         *)
(* Callbacks and the tick run one at a time on one executor.  A stamp is   *)
(* an age.  The stop, turn and hazard commands of the tick are the same    *)
(* in every state and are left out.                                        *)
(***************************************************************************)
EXTENDS Naturals

CONSTANTS
    Period,             \* the timer's period
    MaxJitter,          \* how late the executor may run a due tick
    Duration,           \* vehicle_stop_duration_
    Timeout,            \* vehicle_stop_timeout_
    EnableAutoParking,  \* enable_auto_parking
    RouteStates         \* the route states the planner may report

ASSUME StopAssumption ==
    /\ Period \in Nat \ {0} /\ MaxJitter \in Nat
    /\ Duration \in Nat \ {0} /\ Timeout \in Nat \ {0}
    /\ EnableAutoParking \in BOOLEAN

VARIABLES
    hasLast, lastAge,   \* ContinuousCondition's last_stamp_, if it has one
    hasStart, startAge, \* its start_stamp_, if it has one
    route,              \* current_route_state_.state
    gear,               \* the gear last commanded
    timerAge,           \* time since the timer last fired
    reportAge,          \* history: the age of the latest velocity report
    movedAge,           \* history: the age of the latest one that was moving,
                        \* or of the start of the program
    gap                 \* history: the longest gap between reports in the
                        \* standstill the condition has started

condition == <<hasLast, lastAge, hasStart, startAge>>
history == <<reportAge, movedAge, gap>>
vars == <<condition, route, gear, timerAge, history>>

Parkable == {"UNSET", "ARRIVED"}

\* What update_timeout never leaves unseen: the timeout and a tick's interval.
Unseen == Timeout + Period + MaxJitter
AgeCap == Duration + Unseen + 1
Aged(age) == IF age < AgeCap THEN age + 1 ELSE AgeCap

Init ==
    /\ hasLast = FALSE /\ lastAge = 0 /\ hasStart = FALSE /\ startAge = 0
    /\ route = "UNKNOWN" /\ gear = "SILENT" /\ timerAge = 0
    /\ reportAge = 0 /\ movedAge = 0 /\ gap = 0

-----------------------------------------------------------------------------
(* The callbacks.                                                          *)

\* Mutant: a moving sample keeps the start.
updateKept(stopped) ==
    /\ hasLast' = stopped /\ lastAge' = 0
    /\ hasStart' = (hasStart \/ stopped)
    /\ startAge' = IF hasStart THEN startAge ELSE 0

\* ContinuousCondition::update: a moving sample resets, a standstill starts
\* the condition or extends it.
update(stopped) ==
    /\ hasLast' = stopped /\ lastAge' = 0
    /\ hasStart' = stopped
    /\ startAge' = IF stopped /\ hasStart THEN startAge ELSE 0

on_velocity(stopped) ==
    /\ update(stopped)
    /\ reportAge' = 0
    /\ movedAge' = IF stopped THEN movedAge ELSE 0
    /\ gap' = IF stopped /\ hasStart
              THEN IF reportAge > gap THEN reportAge ELSE gap
              ELSE 0
    /\ UNCHANGED <<route, gear, timerAge>>

on_route_state ==
    /\ route' \in RouteStates
    /\ UNCHANGED <<condition, gear, timerAge, history>>

-----------------------------------------------------------------------------
(* The tick.                                                               *)

\* Mutant: the timeout drops the last sample and keeps the start.
update_timeout_half ==
    IF hasLast /\ lastAge >= Timeout
    THEN hasLast' = FALSE /\ lastAge' = 0 /\ UNCHANGED <<hasStart, startAge>>
    ELSE UNCHANGED condition

\* ContinuousCondition::update_timeout: a stream gone silent resets.
update_timeout ==
    IF hasLast /\ lastAge >= Timeout
    THEN hasLast' = FALSE /\ lastAge' = 0 /\ hasStart' = FALSE /\ startAge' = 0
    ELSE UNCHANGED condition

\* ContinuousCondition::check.
check(start, age) == start /\ age >= Duration

\* publish_gear_command.
publish_gear_command ==
    gear' = IF EnableAutoParking /\ check(hasStart', startAge') /\ route \in Parkable
            THEN "PARK" ELSE "NONE"

on_timer ==
    /\ timerAge >= Period
    /\ update_timeout
    /\ publish_gear_command
    /\ timerAge' = 0
    /\ UNCHANGED <<route, history>>

\* The clock; a due tick holds it after MaxJitter.
Advance ==
    /\ timerAge < Period + MaxJitter
    /\ timerAge' = timerAge + 1
    /\ lastAge' = IF hasLast THEN Aged(lastAge) ELSE lastAge
    /\ startAge' = IF hasStart THEN Aged(startAge) ELSE startAge
    /\ reportAge' = Aged(reportAge) /\ movedAge' = Aged(movedAge)
    /\ UNCHANGED <<hasLast, hasStart, route, gear, gap>>

Next ==
    \/ \E stopped \in BOOLEAN : on_velocity(stopped)
    \/ on_route_state
    \/ on_timer
    \/ Advance

Spec == Init /\ [][Next]_vars

-----------------------------------------------------------------------------
(* Properties.                                                             *)

\* Types of the state.
TypeOK ==
    /\ hasLast \in BOOLEAN /\ lastAge \in 0..AgeCap
    /\ hasStart \in BOOLEAN /\ startAge \in 0..AgeCap
    /\ route \in RouteStates \cup {"UNKNOWN"}
    /\ gear \in {"SILENT", "PARK", "NONE"}
    /\ timerAge \in 0..(Period + MaxJitter)
    /\ reportAge \in 0..AgeCap /\ movedAge \in 0..AgeCap /\ gap \in 0..AgeCap

\* The parking gear is commanded only to a vehicle that has reported nothing
\* but a standstill for the whole duration; it is withdrawn at the tick after
\* a report that says otherwise.
ParkEarned == [][on_timer /\ gear' = "PARK" => movedAge >= Duration]_vars

\* A silent velocity stream takes the parking gear back: its last report is
\* always younger than the timeout, a period and a jitter.
ParkWatched == gear = "PARK" => reportAge < Unseen

\* The standstill that earns the gear was reported throughout: a report that
\* comes after the timeout but before the tick that would have noticed
\* bridges the gap, so one past the timeout gets through, and none of a timeout,
\* a period and a jitter.
ParkReported == gear = "PARK" /\ hasStart => gap < Unseen
=============================================================================
