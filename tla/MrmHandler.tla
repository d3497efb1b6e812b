----------------------------- MODULE MrmHandler -----------------------------
(***************************************************************************)
(* The MRM handler of the safety island: the state machine that decides,   *)
(* once per timer tick, whether a minimal-risk maneuver (MRM) runs and     *)
(* which one, from the latest sample of each subscribed stream             *)
(* (src/autoware_mrm_handler/src/mrm_handler/mrm_handler_core.cpp).        *)
(*                                                                         *)
(* The handler runs on one executor: its callbacks and its timer never     *)
(* interleave, so each is one action.  A stamp of the code (a double of    *)
(* monotonic seconds) is kept as its age, "now - stamp", saturated just    *)
(* past the largest bound it is compared with; `Advance' is the clock.     *)
(* A tick reads the clock more than once.  Its action is the moment of its *)
(* last read, the state machine's; the earlier ones lie up to ReadLag      *)
(* before (`Reads'), and may fall on the two sides of a bound.             *)
(* The supervisor's latch, which its own thread sets, is the variable      *)
(* `sup'; the environment moves it here, IslandSupervisor models it.       *)
(***************************************************************************)
EXTENDS Naturals, FiniteSets

CONSTANTS
    Period,             \* the timer's period, 1000 / update_rate
    MaxJitter,          \* how late the executor may run a due tick
    ReadLag,            \* how far apart a tick's reads of the clock may lie
    AvailTimeout,       \* timeout_operation_mode_availability
    InitTimeout,        \* init_timeout
    TakeoverTimeout,    \* takeover_request_timeout
    RecoveryTimeout,    \* timeout_emergency_recovery
    UseTakeoverRequest, UseComfortableStop, UsePullOver, UseEmergencyHolding,
    TurningHazardOn,    \* turning_hazard_on.emergency
    Modes,              \* the operation modes that are not UNKNOWN
    SendOutcomes,       \* what sending a service request may return
    AvailSamples,       \* the availability samples the host may publish
    ModeSamples,        \* the operation modes the host may report
    StatusSamples,      \* what an operator's status sample may report
    MayLatch            \* whether the supervisor may latch in this instance

ASSUME TimeAssumption ==
    /\ Period \in Nat \ {0}
    /\ MaxJitter \in Nat
    /\ ReadLag \in Nat
    /\ AvailTimeout \in Nat
    /\ InitTimeout \in Nat
    /\ TakeoverTimeout \in Nat
    /\ RecoveryTimeout \in Nat
ASSUME FlagAssumption ==
    /\ UseTakeoverRequest \in BOOLEAN
    /\ UseComfortableStop \in BOOLEAN
    /\ UsePullOver \in BOOLEAN
    /\ UseEmergencyHolding \in BOOLEAN
    /\ TurningHazardOn \in BOOLEAN
    /\ MayLatch \in BOOLEAN
    /\ SendOutcomes \subseteq BOOLEAN
ASSUME SampleAssumption ==
    /\ "UNKNOWN" \notin Modes
    /\ ModeSamples \subseteq Modes \cup {"UNKNOWN"}
    /\ StatusSamples \subseteq {"NOT_AVAILABLE", "AVAILABLE"}
    /\ AvailSamples \subseteq
         [modes : SUBSET Modes, comfortable : BOOLEAN, pullOver : BOOLEAN]

VARIABLES
    phase,              \* "Init" or "Run"
    initFailed,         \* is_init_failed_
    bootAge,            \* now - stamp_boot_
    monitorsArmed,      \* island_monitors_armed_uptime_ms # 0
    avail,              \* operation_mode_availability_, the latest sample
    availAge,           \* now - stamp_operation_mode_availability_
    arrivals,           \* the Arrivals of each periodic required input
    modeHeard,          \* has_operation_mode_state_
    mode,               \* operation_mode_state_.mode, UNKNOWN until heard
    controlAuto,        \* control_mode_ heard and AUTONOMOUS
    stopped,            \* odom_ heard and |v| below the threshold
    unavailable,        \* since when the current mode is not available
    emergencyHolding,   \* is_emergency_holding_
    availTimeout,       \* is_operation_mode_availability_timeout
    supLatched,         \* is_supervisor_latched_, as the last tick read it
    state,              \* mrm_state_.state
    behavior,           \* mrm_state_.behavior
    takeover,           \* the takeover request
    timerAge,           \* time since the timer last fired
    routes,             \* the supervised routes this handler holds armed
    called,             \* per operator: the last request sent to it was a call
    out,                \* the last sample published on each topic
    sup,                \* the supervisor: latch, vehicle fault, resumed slot
    lostTicks,          \* history: ticks in a row that saw an input lost
                        \* while in AUTONOMOUS control, saturated at 2
    waited              \* history: 0, or from 1 on the time since the first of
                        \* the ticks in a row that saw a fault in AUTONOMOUS
                        \* control and started no MRM

inputs == <<avail, availAge, arrivals, modeHeard, mode, controlAuto, stopped,
            unavailable, emergencyHolding>>
machine == <<phase, initFailed, monitorsArmed, availTimeout, supLatched,
             state, behavior, takeover, called, out, lostTicks, waited>>
vars == <<inputs, machine, bootAge, timerAge, routes, sup>>

-----------------------------------------------------------------------------
Operators == {"COMFORTABLE_STOP", "EMERGENCY_STOP"}
Behaviors == Operators \cup {"NONE", "PULL_OVER"}
States == {"NORMAL", "MRM_OPERATING", "MRM_SUCCEEDED", "MRM_FAILED"}
Streams == Operators \cup {"AVAILABILITY"}

\* The routes of the supervisor that the handler arms.
HpcLoss == 0
ComfortableStandstill == 2
EmergencyStandstill == 3
HandlerRoutes == {HpcLoss, ComfortableStandstill, EmergencyStandstill}

\* A later clock value, seen by an age that is only compared with cap or less.
Aged(age, cap) == IF age < cap THEN age + 1 ELSE cap

BootCap == InitTimeout + ReadLag + Period + MaxJitter + 1
TakeoverCap == TakeoverTimeout + Period + MaxJitter + 1
AvailCap == AvailTimeout + ReadLag + Period + MaxJitter + 1

ArrivalCap == AvailTimeout + ReadLag + 1

Arrival == [count : 0..2, steady : BOOLEAN, age : 0..ArrivalCap]
Unheard == [modes |-> {}, comfortable |-> FALSE, pullOver |-> FALSE]
NeverArrived == [count |-> 0, steady |-> FALSE, age |-> 0]

\* Types of the state; the only shape invariant of the module.
TypeOK ==
    /\ phase \in {"Init", "Run"}
    /\ initFailed \in BOOLEAN
    /\ bootAge \in 0..BootCap
    /\ monitorsArmed \in BOOLEAN
    /\ avail \in AvailSamples \cup {Unheard}
    /\ availAge \in 0..AvailCap
    /\ arrivals \in [Streams -> Arrival]
    /\ modeHeard \in BOOLEAN
    /\ mode \in Modes \cup {"UNKNOWN"}
    /\ controlAuto \in BOOLEAN
    /\ stopped \in BOOLEAN
    /\ unavailable \in [marked : BOOLEAN, age : 0..(RecoveryTimeout + 1)]
    /\ emergencyHolding \in BOOLEAN
    /\ availTimeout \in BOOLEAN
    /\ supLatched \in BOOLEAN
    /\ state \in States
    /\ behavior \in Behaviors
    /\ takeover \in [requested : BOOLEAN, expired : BOOLEAN, age : 0..TakeoverCap]
    /\ timerAge \in 0..(Period + MaxJitter)
    /\ routes \in SUBSET HandlerRoutes
    /\ called \in [Operators -> BOOLEAN]
    /\ out \in [mrm : (States \X Behaviors) \cup {<<"SILENT", "SILENT">>},
                takeover : {"SILENT", "NOT_AVAILABLE", "AVAILABLE", "OPERATING"},
                hazard : {"SILENT", "ENABLE", "NO_COMMAND"}]
    /\ sup \in [latched : BOOLEAN, fault : BOOLEAN, resumed : BOOLEAN]
    /\ lostTicks \in 0..2
    /\ waited \in 0..TakeoverCap

Init ==
    /\ phase = "Init"
    /\ initFailed = FALSE
    /\ bootAge = 0
    /\ monitorsArmed = FALSE
    /\ avail = Unheard
    /\ availAge = 0
    /\ arrivals = [s \in Streams |-> NeverArrived]
    /\ modeHeard = FALSE
    /\ mode = "UNKNOWN"
    /\ controlAuto = FALSE
    /\ stopped = FALSE
    /\ unavailable = [marked |-> FALSE, age |-> 0]
    /\ emergencyHolding = FALSE
    /\ availTimeout = FALSE
    /\ supLatched = FALSE
    /\ state = "NORMAL"
    /\ behavior = "NONE"
    /\ takeover = [requested |-> FALSE, expired |-> FALSE, age |-> 0]
    /\ timerAge = 0
    /\ routes = {}
    /\ called = [o \in Operators |-> FALSE]
    /\ out = [mrm |-> <<"SILENT", "SILENT">>, takeover |-> "SILENT", hazard |-> "SILENT"]
    /\ sup = [latched |-> FALSE, fault |-> FALSE, resumed |-> FALSE]
    /\ lostTicks = 0
    /\ waited = 0

-----------------------------------------------------------------------------
(* What the tick and the callbacks read.                                   *)

isAvailableCurrentOperationMode == mode \in avail.modes

\* Mutant: the count of the samples does not saturate.
NotedUnbounded(a) == [count |-> a.count + 1,
                      steady |-> a.count > 0 /\ a.age <= AvailTimeout,
                      age |-> 0]

\* Arrivals::note: two samples are steady when at most the timeout apart (a
\* gap that nothing reads, before the second sample of a count, is left out).
Noted(a) == [count |-> IF a.count < 2 THEN a.count + 1 ELSE 2,
             steady |-> a.count > 0 /\ a.age <= AvailTimeout,
             age |-> 0]

\* Mutant: a stream that has gone silent since counts as established.
isEstablishedOnce(a, lag) == a.count >= 2 /\ a.steady

\* `lag' is how long before the tick's last read of the clock this one was.
isEstablished(a, lag) == a.count >= 2 /\ a.steady /\ a.age <= AvailTimeout + lag

RequiredStreams ==
    {"AVAILABILITY", "EMERGENCY_STOP"}
        \cup (IF UseComfortableStop THEN {"COMFORTABLE_STOP"} ELSE {})

\* getUnestablishedInputs: the inputs never heard and those not yet steady.
Established(lag) ==
    modeHeard /\ \A s \in RequiredStreams : isEstablished(arrivals[s], lag)

isInputLost == availTimeout \/ initFailed \/ supLatched

\* Mutant: the holding flag is kept and never read.
isEmergencyUnheld == ~isAvailableCurrentOperationMode \/ isInputLost

isEmergency == ~isAvailableCurrentOperationMode \/ emergencyHolding \/ isInputLost

-----------------------------------------------------------------------------
(* The subscription callbacks.                                             *)

\* Once the monitors are armed each take moves on the due of the hpc_loss
\* reaction.  With emergency holding in use, a mode that stays unavailable
\* past the recovery time is held as an emergency from then on.
onOperationModeAvailability ==
    \E msg \in AvailSamples :
        /\ avail' = msg
        /\ availAge' = 0
        /\ routes' = IF monitorsArmed THEN routes \cup {HpcLoss} ELSE routes
        /\ arrivals' = [arrivals EXCEPT !["AVAILABILITY"] = Noted(@)]
        /\ \/ /\ ~UseEmergencyHolding \/ emergencyHolding
              /\ UNCHANGED <<unavailable, emergencyHolding>>
           \/ /\ UseEmergencyHolding /\ ~emergencyHolding
              /\ mode \in msg.modes
              /\ unavailable' = [marked |-> FALSE, age |-> 0]
              /\ UNCHANGED emergencyHolding
           \/ /\ UseEmergencyHolding /\ ~emergencyHolding
              /\ mode \notin msg.modes
              /\ unavailable' = IF unavailable.marked THEN unavailable
                                ELSE [marked |-> TRUE, age |-> 0]
              /\ emergencyHolding' = (unavailable'.age > RecoveryTimeout)
        /\ UNCHANGED <<machine, modeHeard, mode, controlAuto, stopped,
                       bootAge, timerAge, sup>>

\* The speed also goes to the supervisor (IslandSupervisor's note_speed).
onOdometry ==
    /\ stopped' \in BOOLEAN
    /\ UNCHANGED <<machine, avail, availAge, arrivals, modeHeard, mode,
                   controlAuto, unavailable, emergencyHolding,
                   bootAge, timerAge, routes, sup>>

onControlMode ==
    /\ controlAuto' \in BOOLEAN
    /\ UNCHANGED <<machine, avail, availAge, arrivals, modeHeard, mode,
                   stopped, unavailable, emergencyHolding,
                   bootAge, timerAge, routes, sup>>

\* onComfortableStopStatus, onEmergencyStopStatus: a NOT_AVAILABLE sample
\* restarts the count of the stream.
onStopStatus(o) ==
    /\ \E status \in StatusSamples :
          arrivals' = [arrivals EXCEPT ![o] =
                         IF status = "NOT_AVAILABLE" THEN NeverArrived ELSE Noted(@)]
    /\ UNCHANGED <<machine, avail, availAge, modeHeard, mode, controlAuto,
                   stopped, unavailable, emergencyHolding,
                   bootAge, timerAge, routes, sup>>

onOperationModeState ==
    /\ mode' \in ModeSamples
    /\ modeHeard' = TRUE
    /\ UNCHANGED <<machine, avail, availAge, arrivals, controlAuto, stopped,
                   unavailable, emergencyHolding,
                   bootAge, timerAge, routes, sup>>

-----------------------------------------------------------------------------
(* The timer tick.                                                         *)

\* How long before the last read of the clock each of the earlier ones was,
\* in their order: the inputs' in getUnestablishedInputs, since_boot's in
\* updatePhase, and the availability's.
Reads == {r \in [inputs : 0..ReadLag, boot : 0..ReadLag, avail : 0..ReadLag] :
            r.inputs >= r.boot /\ r.boot >= r.avail}

\* Mutant: INIT waits for its inputs without a bound.
updatePhaseUnbounded(r) ==
    /\ phase' = IF Established(r.inputs) THEN "Run" ELSE phase
    /\ monitorsArmed' = (monitorsArmed \/ Established(r.inputs))
    /\ UNCHANGED initFailed

\* INIT ends when every required input is established, or as a failure at
\* init_timeout; the failure is cleared by the inputs, and RUN is for good.
updatePhase(r) ==
    \/ /\ phase = "Run"
       /\ phase' = "Run"
       /\ initFailed' = (initFailed /\ ~Established(r.inputs))
       /\ monitorsArmed' = (monitorsArmed \/ (initFailed /\ Established(r.inputs)))
    \/ /\ phase = "Init" /\ Established(r.inputs)
       /\ phase' = "Run"
       /\ monitorsArmed' = TRUE
       /\ UNCHANGED initFailed
    \/ /\ phase = "Init" /\ ~Established(r.inputs)
       /\ bootAge >= InitTimeout + r.boot
       /\ phase' = "Run"
       /\ initFailed' = TRUE
       /\ UNCHANGED monitorsArmed
    \/ /\ phase = "Init" /\ ~Established(r.inputs)
       /\ bootAge < InitTimeout + r.boot
       /\ UNCHANGED <<phase, initFailed, monitorsArmed>>

\* Mutant: the timeout is one unit late.
checkOperationModeAvailabilityTimeoutLate(lag) ==
    availTimeout' = (availAge > AvailTimeout + lag + 1)

checkOperationModeAvailabilityTimeout(lag) ==
    availTimeout' = (availAge > AvailTimeout + lag)

\* Mutant: a lost input does not force the emergency stop.
getCurrentMrmBehaviorUnforced(b, lost) ==
    IF b # "EMERGENCY_STOP" /\ avail.comfortable /\ UseComfortableStop
    THEN "COMFORTABLE_STOP" ELSE "EMERGENCY_STOP"

\* Mutant: a comfortable stop is preferred whenever there is one.
getCurrentMrmBehaviorGentle(b, lost) ==
    IF ~lost /\ avail.comfortable /\ UseComfortableStop
    THEN "COMFORTABLE_STOP" ELSE "EMERGENCY_STOP"

\* What the vehicle should be doing, given what it is doing (b); `lost' is
\* isInputLost() on this tick.
getCurrentMrmBehavior(b, lost) ==
    IF lost
    THEN "EMERGENCY_STOP"
    ELSE IF avail.pullOver /\ UsePullOver /\ (b \notin Operators \/ stopped)
    THEN "PULL_OVER"
    ELSE IF b # "EMERGENCY_STOP" /\ avail.comfortable /\ UseComfortableStop
    THEN "COMFORTABLE_STOP"
    ELSE "EMERGENCY_STOP"

\* The takeover request: on or off, used up by its expiry, its age.
Request(requested, expired, age) ==
    [requested |-> requested, expired |-> expired, age |-> age]

clearTakeoverRequest == Request(FALSE, takeover.expired, 0)

\* Mutant: the request is stamped again on every tick.
updateTakeoverRequestRestamped(lost) ==
    IF ~controlAuto
    THEN [wait |-> FALSE, takeover |-> clearTakeoverRequest]
    ELSE IF mode # "AUTONOMOUS" \/ lost
    THEN [wait |-> FALSE, takeover |-> takeover]
    ELSE [wait |-> TRUE,
          takeover |-> Request(TRUE, takeover.expired, 0)]

\* Mutant: an open window also holds back the answer to a lost input.
updateTakeoverRequestPatient(lost) ==
    IF ~controlAuto \/ takeover.age >= TakeoverTimeout
    THEN [wait |-> FALSE, takeover |-> Request(FALSE, TRUE, 0)]
    ELSE [wait |-> TRUE, takeover |-> Request(TRUE, takeover.expired, takeover.age)]

\* In NORMAL with a fault: does the MRM wait for the driver, and what becomes
\* of the takeover request.
updateTakeoverRequest(lost) ==
    LET asks == /\ UseTakeoverRequest /\ ~takeover.expired
                /\ mode = "AUTONOMOUS"
    IN  IF ~controlAuto
        THEN [wait |-> FALSE, takeover |-> clearTakeoverRequest]
        ELSE IF ~asks
        THEN [wait |-> FALSE, takeover |-> takeover]
        ELSE IF lost
        THEN [wait |-> FALSE, takeover |-> clearTakeoverRequest]
        ELSE IF ~takeover.requested
        THEN [wait |-> TRUE,
              takeover |-> Request(TRUE, takeover.expired, 0)]
        ELSE IF takeover.age < TakeoverTimeout
        THEN [wait |-> TRUE, takeover |-> takeover]
        ELSE [wait |-> FALSE,
              takeover |-> Request(FALSE, TRUE, 0)]

Decision(st, b, r, t) == [state |-> st, behavior |-> b, routes |-> r, takeover |-> t]

\* The state machine.  The result is what operateMrm starts from: the state,
\* the behavior, the routes and the takeover request.
updateMrmState(emergency, lost, latched) ==
    LET asked == updateTakeoverRequest(lost)
        met == IF behavior = "COMFORTABLE_STOP" THEN {ComfortableStandstill}
               ELSE IF behavior = "EMERGENCY_STOP" THEN {EmergencyStandstill}
               ELSE {}
        arrived == behavior # "PULL_OVER" \/ mode = "STOP"
    IN  IF latched /\ sup.fault
        THEN Decision("MRM_FAILED", "EMERGENCY_STOP", routes, takeover)
        ELSE IF ~emergency
        THEN Decision("NORMAL", behavior, routes, Request(FALSE, FALSE, 0))
        ELSE IF state = "NORMAL"
        THEN Decision(IF ~asked.wait /\ controlAuto THEN "MRM_OPERATING" ELSE "NORMAL",
                      behavior, routes, asked.takeover)
        ELSE IF state = "MRM_OPERATING" /\ stopped
        THEN Decision(IF arrived THEN "MRM_SUCCEEDED" ELSE "MRM_OPERATING",
                      behavior, routes \ met, takeover)
        ELSE IF state = "MRM_SUCCEEDED" /\ behavior # getCurrentMrmBehavior(behavior, lost)
        THEN Decision("MRM_OPERATING", behavior, routes, takeover)
        ELSE Decision(state, behavior, routes, takeover)

\* Mutant: a send that failed is taken for one that did not.
RequestedBlindly(b, ok) == b # "PULL_OVER"

\* Mutant: route 3 is armed after the send, as route 2 is.
RoutesAfterSend(r, b, op, ok) ==
    LET route == IF b = "EMERGENCY_STOP" THEN EmergencyStandstill
                 ELSE ComfortableStandstill
    IN  IF b \in Operators /\ ok
        THEN IF op = "call" THEN r \cup {route} ELSE r \ {route}
        ELSE r

\* requestMrmBehavior: whether it returns true, the routes and the operators'
\* last request after it.  The emergency routes move before the send, the
\* comfortable ones only after a send that succeeded.
Requested(b, ok) == b = "NONE" \/ (b # "PULL_OVER" /\ ok)

RoutesAfter(r, b, op, ok) ==
    LET route == IF b = "EMERGENCY_STOP" THEN EmergencyStandstill
                 ELSE ComfortableStandstill
    IN  IF b = "EMERGENCY_STOP" \/ (b = "COMFORTABLE_STOP" /\ ok)
        THEN IF op = "call" THEN r \cup {route} ELSE r \ {route}
        ELSE r

CalledAfter(c, b, op, ok) ==
    IF b \in Operators /\ ok THEN [c EXCEPT ![b] = (op = "call")] ELSE c

\* Mutant: the behavior is set only when the fallback was sent.
handleFailedRequestKept(r, c, ok) ==
    /\ state' = IF ok THEN "MRM_OPERATING" ELSE "MRM_FAILED"
    /\ behavior' = IF ok THEN "EMERGENCY_STOP" ELSE behavior
    /\ routes' = RoutesAfter(r, "EMERGENCY_STOP", "call", ok)
    /\ called' = CalledAfter(c, "EMERGENCY_STOP", "call", ok)

\* handleFailedRequest: fall to the emergency stop; when even that cannot be
\* sent the MRM has failed.
handleFailedRequest(r, c, ok) ==
    /\ state' = IF ok THEN "MRM_OPERATING" ELSE "MRM_FAILED"
    /\ behavior' = "EMERGENCY_STOP"
    /\ routes' = RoutesAfter(r, "EMERGENCY_STOP", "call", ok)
    /\ called' = CalledAfter(c, "EMERGENCY_STOP", "call", ok)

\* operateMrm, from what updateMrmState decided (d): cancel the behavior that
\* runs, call the one that should; each send has an outcome of its own.
operateMrm(d, lost) ==
    LET want == IF d.state = "NORMAL" THEN "NONE"
                ELSE getCurrentMrmBehavior(d.behavior, lost)
    IN  \/ /\ d.state \in {"MRM_SUCCEEDED", "MRM_FAILED"} \/ want = d.behavior
           /\ state' = d.state
           /\ behavior' = d.behavior
           /\ routes' = d.routes
           /\ UNCHANGED called
        \/ /\ d.state \in {"NORMAL", "MRM_OPERATING"} /\ want # d.behavior
           /\ \E cancelOk, callOk, fallbackOk \in SendOutcomes :
                LET r1 == RoutesAfter(d.routes, d.behavior, "cancel", cancelOk)
                    c1 == CalledAfter(called, d.behavior, "cancel", cancelOk)
                    r2 == RoutesAfter(r1, want, "call", callOk)
                    c2 == CalledAfter(c1, want, "call", callOk)
                IN  \/ /\ ~Requested(d.behavior, cancelOk)
                       /\ handleFailedRequest(r1, c1, fallbackOk)
                    \/ /\ Requested(d.behavior, cancelOk) /\ ~Requested(want, callOk)
                       /\ handleFailedRequest(r2, c2, fallbackOk)
                    \/ /\ Requested(d.behavior, cancelOk) /\ Requested(want, callOk)
                       /\ state' = d.state
                       /\ behavior' = want
                       /\ routes' = r2
                       /\ called' = c2

\* publishMrmState, publishTakeoverRequestState, publishHazardCmd: the direct
\* path publishes mrm_state and the hazard lights once it resumed the slot.
publish(latched, emergency) ==
    LET silenced == latched /\ sup.resumed
    IN  out' = [mrm |-> IF silenced THEN out.mrm ELSE <<state', behavior'>>,
                takeover |-> IF ~UseTakeoverRequest THEN "NOT_AVAILABLE"
                             ELSE IF takeover'.requested THEN "OPERATING"
                             ELSE "AVAILABLE",
                hazard |-> IF silenced THEN out.hazard
                           ELSE IF TurningHazardOn /\ emergency THEN "ENABLE"
                           ELSE "NO_COMMAND"]

\* The history variables at the end of a tick.
noteHistory ==
    /\ lostTicks' = IF isInputLost' /\ controlAuto THEN Aged(lostTicks, 2) ELSE 0
    /\ waited' = IF ~(isEmergency' /\ controlAuto /\ state' = "NORMAL") THEN 0
                 ELSE IF waited = 0 THEN 1 ELSE waited

\* Mutant: every tick clears the hpc_loss due.
RunTickCleared(lag) ==
    /\ checkOperationModeAvailabilityTimeout(lag)
    /\ supLatched' = sup.latched
    /\ LET d == updateMrmState(isEmergency', isInputLost', supLatched')
       IN  /\ takeover' = d.takeover
           /\ operateMrm(Decision(d.state, d.behavior, d.routes \ {HpcLoss}, d.takeover), isInputLost')
    /\ publish(supLatched', isEmergency')
    /\ noteHistory

\* The body of a tick in RUN.  A tick that saw the availability lost has its
\* reaction out at its end, so it clears the hpc_loss due.
RunTick(lag) ==
    /\ checkOperationModeAvailabilityTimeout(lag)
    /\ supLatched' = sup.latched
    /\ LET d == updateMrmState(isEmergency', isInputLost', supLatched')
           r == IF availTimeout' THEN d.routes \ {HpcLoss} ELSE d.routes
       IN  /\ takeover' = d.takeover
           /\ operateMrm(Decision(d.state, d.behavior, r, d.takeover), isInputLost')
    /\ publish(supLatched', isEmergency')
    /\ noteHistory

\* A tick in INIT is silent.
InitTick == UNCHANGED <<availTimeout, supLatched, state, behavior, takeover,
                        routes, called, out, lostTicks, waited>>

onTimer ==
    /\ timerAge >= Period
    /\ timerAge' = 0
    /\ UNCHANGED <<inputs, bootAge, sup>>
    /\ \E r \in Reads :
          /\ updatePhase(r)
          /\ \/ phase' = "Init" /\ InitTick
             \/ phase' = "Run" /\ RunTick(r.avail)

-----------------------------------------------------------------------------
(* The environment: the clock, and the supervisor's thread.                *)

\* A due tick runs at most MaxJitter late.
Advance ==
    /\ timerAge < Period + MaxJitter
    /\ timerAge' = timerAge + 1
    /\ bootAge' = Aged(bootAge, BootCap)
    /\ availAge' = Aged(availAge, AvailCap)
    /\ arrivals' = [s \in Streams |->
                      IF arrivals[s].count = 0 THEN arrivals[s]
                      ELSE [arrivals[s] EXCEPT !.age = Aged(@, ArrivalCap)]]
    /\ unavailable' = IF unavailable.marked
                      THEN [unavailable EXCEPT !.age = Aged(@, RecoveryTimeout + 1)]
                      ELSE unavailable
    /\ takeover' = IF takeover.requested
                   THEN [takeover EXCEPT !.age = Aged(@, TakeoverCap)]
                   ELSE takeover
    /\ waited' = IF waited = 0 THEN 0 ELSE Aged(waited, TakeoverCap)
    /\ UNCHANGED <<phase, initFailed, monitorsArmed, availTimeout, supLatched,
                   state, behavior, called, out, lostTicks, avail, modeHeard,
                   mode, controlAuto, stopped, emergencyHolding, routes, sup>>

\* The supervisor latches its output, finds the vehicle-side fault under the
\* latch, and takes back the handler's slot; it takes none of these back.
SupervisorStep ==
    /\ MayLatch
    /\ \/ ~sup.latched /\ sup' = [sup EXCEPT !.latched = TRUE]
       \/ sup.latched /\ ~sup.fault /\ sup' = [sup EXCEPT !.fault = TRUE]
       \/ sup.latched /\ ~sup.resumed /\ sup' = [sup EXCEPT !.resumed = TRUE]
    /\ UNCHANGED <<inputs, machine, bootAge, timerAge, routes>>

Callback ==
    \/ onOperationModeAvailability
    \/ onOdometry
    \/ onControlMode
    \/ \E o \in Operators : onStopStatus(o)
    \/ onOperationModeState

Next == Callback \/ onTimer \/ Advance \/ SupervisorStep

Spec == Init /\ [][Next]_vars

-----------------------------------------------------------------------------
(* Properties.                                                             *)

\* The reported state and the reported behavior agree after every tick,
\* whatever sends failed in it: no MRM in NORMAL, an MRM in every other state,
\* the emergency stop in MRM_FAILED, and never a pull over, which the island
\* has no operator for.
StateBehavior ==
    /\ state = "NORMAL" <=> behavior = "NONE"
    /\ state = "MRM_FAILED" => behavior = "EMERGENCY_STOP"
    /\ behavior # "PULL_OVER"

\* The first tick that sees an input lost (availability stale, init failed,
\* supervisor latched) in AUTONOMOUS control leaves NORMAL, whatever takeover
\* window was open, and the second one at the latest has the emergency stop
\* running: a standstill seen on the first delays the escalation by one tick.
LossAnswered ==
    /\ lostTicks >= 1 => state # "NORMAL"
    /\ lostTicks >= 2 => behavior = "EMERGENCY_STOP"

\* A stream silent past its timeout is known as lost one period, one jitter and
\* the time within a tick later, in every state of RUN.
LossSeen ==
    phase = "Run" /\ availAge > AvailTimeout + ReadLag + Period + MaxJitter
        => availTimeout

\* The operator that runs is the one the handler reports: an operating or
\* finished emergency stop was sent to its operator and not cancelled since,
\* and so was a comfortable stop.
OperatorCalled ==
    state \in {"MRM_OPERATING", "MRM_SUCCEEDED"} => called[behavior]

\* The floor is supervised for as long as it is needed: an emergency stop that
\* is running, or that could not even be sent, holds route 3 armed, and
\* nothing else does.
FloorSupervised ==
    /\ state = "MRM_OPERATING" /\ behavior = "EMERGENCY_STOP"
         => EmergencyStandstill \in routes
    /\ state = "MRM_FAILED" /\ ~sup.fault => EmergencyStandstill \in routes
    /\ EmergencyStandstill \in routes => behavior = "EMERGENCY_STOP"

\* A fault that persists in AUTONOMOUS control is answered with an MRM, through
\* the takeover window or around it: the driver is waited on for the window,
\* one period and one jitter at most, whatever the mode and the inputs do.
TakeoverBounded == waited <= TakeoverTimeout + Period + MaxJitter

\* INIT ends, whatever the inputs do or do not: a tick leaves it at the latest
\* one period, one jitter and the time within a tick after init_timeout.  Until
\* then nothing is published, nobody called and nothing supervised, whatever
\* arrives.
InitBounded ==
    phase = "Init" =>
        /\ bootAge <= InitTimeout + ReadLag + Period + MaxJitter
        /\ out.mrm = <<"SILENT", "SILENT">> /\ out.hazard = "SILENT"
        /\ \A o \in Operators : ~called[o]
        /\ routes = {}

\* An emergency stop is never exchanged for a gentler maneuver: it ends only
\* with the MRM itself, and never while the tick sees the supervisor's latch.
NoDowngrade ==
    [][behavior = "EMERGENCY_STOP" /\ behavior' # "EMERGENCY_STOP"
         => state' = "NORMAL" /\ ~supLatched']_vars

\* INIT left with every input established times out on RUN's first tick only
\* when the sample passed the bound within that very tick, between the read of
\* the clock that found it fresh and the one that found it stale: a stream that
\* had been silent for longer does not end INIT.  INIT is never entered again.
FreshRun ==
    [][/\ phase = "Run" => phase' = "Run"
       /\ phase = "Init" /\ phase' = "Run" /\ ~initFailed' /\ availTimeout'
            => availAge <= AvailTimeout + ReadLag]_vars

\* The comment before isEstablished has no such exception: the bound of INIT is
\* the one that RUN judges the stream by, "so an established stream cannot time
\* out on RUN's first tick".
EstablishedStays ==
    [][phase = "Init" /\ phase' = "Run" /\ ~initFailed' => ~availTimeout']_vars

\* The due of the hpc_loss reaction is cleared only by a tick that saw the
\* stream lost and, in AUTONOMOUS control, has an MRM running at its end.
HpcLossDischarged ==
    [][(HpcLoss \in routes \ routes')
         => availTimeout' /\ (~controlAuto \/ state' # "NORMAL")]_vars

\* With emergency holding in use, a held emergency keeps its MRM: no later
\* availability sample brings the handler back to NORMAL.
HoldingKept ==
    [][emergencyHolding /\ state # "NORMAL" => state' # "NORMAL"]_vars

\* mrm_handler_core.hpp says the takeover request is left on MANUAL, on expiry
\* (when the MRM starts) or when the fault clears: no request during an MRM.
TakeoverEndsWithMrm == takeover.requested => state = "NORMAL"
=============================================================================
