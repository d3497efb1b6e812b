-------------------------- MODULE IslandSupervisor --------------------------
(***************************************************************************)
(* The board's supervisor (src/zephyr_entry/src/island_supervisor.c): five *)
(* supervised routes, each with a due; one k_timer at the earliest due; a  *)
(* binary semaphore that wakes the reaction thread; the safe-state latch;  *)
(* and the direct emergency path with its handover and resume.             *)
(*                                                                         *)
(* The reaction thread runs above every spin thread on one core, so a pass *)
(* of it is one action, and everything a spin thread does outside the      *)
(* spinlock is split into the steps a pass may fall between: the stores of *)
(* note_speed, of the hook and of a handover, a spin's read of the         *)
(* executor's cell and its arming of route 1, and what a tick does before  *)
(* and after.  A due or a stamp is kept relative to now; Never stands for  *)
(* K_FOREVER.  The handler's decisions, the executor's cells, the ticks,   *)
(* the odometry and the vehicle are the environment.                       *)
(***************************************************************************)
EXTENDS SupervisorJudge, FiniteSets

CONSTANTS
    CallMrmSpan,        \* route 0: max_age + CALL_MRM_MS
    ExecSpan,           \* route 1: the executor's own route deadline
    ComfortableSpan,    \* route 2: COMFORTABLE_MS + STANDSTILL_OBSERVE_MS
    FloorSpan,          \* route 3: FLOOR_SPAN_MS
    ResponseSpan,       \* route 4: RESPONSE_SPAN_MS
    UseResponse,        \* EMERGENCY_RESPONSE_MS # 0
    FreshSpan,          \* ISLAND_STANDSTILL_FRESH_MS
    Drop,               \* EMERGENCY_DROP_MM_S
    MaxSpeed,           \* bound: the speeds that the vehicle reports
    DirectPeriod,       \* DIRECT_PERIOD_MS
    ResumePeriods,      \* RESUME_PERIODS
    HandlerPeriod,      \* the period the handler's tick reports
    OperatorPeriod,     \* the period the operator's tick reports
    SwtWait,            \* SWT_MS / 4, or 0 without SWT0
    Slots,              \* the registered direct slots
    HandlerArms,        \* the routes the handler arms in this instance
    Causes,             \* the other causes of a latch: the hook, SWT0
    UseExecutor         \* whether the executor has a supervised row

HpcLoss == 0
Executor == 1
Comfortable == 2
Floor == 3
Response == 4
Routes == 0..4

HandlerSlot == 0
OperatorSlot == 1
AllSlots == {HandlerSlot, OperatorSlot}

ASSUME SpanAssumption ==
    /\ CallMrmSpan \in Nat \ {0} /\ ExecSpan \in Nat \ {0}
    /\ ComfortableSpan \in Nat \ {0} /\ FloorSpan \in Nat \ {0}
    /\ ResponseSpan \in Nat \ {0} /\ ResponseSpan <= FloorSpan
    /\ FreshSpan \in Nat /\ Drop \in Nat /\ MaxSpeed \in Nat /\ SwtWait \in Nat
    /\ DirectPeriod \in Nat \ {0} /\ ResumePeriods \in Nat \ {0}
    /\ HandlerPeriod \in Nat \ {0} /\ OperatorPeriod \in Nat \ {0}
ASSUME InstanceAssumption ==
    /\ UseResponse \in BOOLEAN /\ UseExecutor \in BOOLEAN
    /\ Slots \subseteq AllSlots
    /\ HandlerArms \subseteq {HpcLoss, Comfortable, Floor}
    /\ Causes \subseteq {"hook", "swt"}

SlotPeriod(i) == IF i = HandlerSlot THEN HandlerPeriod ELSE OperatorPeriod
ResumeLimit(i) == SlotPeriod(i) * ResumePeriods

\* Later than every due and every wait.
Never == CallMrmSpan + ExecSpan + ComfortableSpan + FloorSpan + ResponseSpan
           + DirectPeriod + SwtWait + ResumeLimit(HandlerSlot)
           + ResumeLimit(OperatorSlot)

VARIABLES
    armed,      \* the routes with due_valid
    left,       \* due_ms - now of each armed route
    stage,      \* floor_stage
    ref,        \* response_ref_mm_s
    fired,      \* the routes with r->fired # 0
    timer,      \* due_timer: time left, or Never when stopped or expired
    latched, fault,
    pending,    \* pending_hook, pending_swt
    wake,       \* the semaphore, 0 or 1
    wait,       \* what latched_wait returned: time left, or Never
    hooking,    \* nros_app_reaction_hook is before its k_sem_give
    speed, speedAge, seen,      \* note_speed: |v|, its stamp's age, any stamp
    noting,     \* note_speed is between its two stores
    handover, resumed,          \* the slots handed over, and taken back
    alive,      \* now - alive_ms of each slot
    brake,      \* brake_since as an age, brake_ref_mm_s, brake_ref_ok
    directNext, \* direct_next_ms - now
    tick,       \* where each slot's executor tick is
    sawLatch,   \* the handler's is_supervisor_latched_
    calling,    \* the behaviour the handler has called
    exec,       \* the executor's route cell: a take that waits for its answer,
                \* the time to its due, whether one ever missed it, and how
                \* much later the kernel's tick at or after the due is; the
                \* watch on it; the owner's spin_after: that it has read the
                \* cell and not yet armed, what it read, and how long ago;
                \* history: how long that was when it last armed
    vel,        \* the vehicle's speed
    silence,    \* history: time since the last braking command, once latched
    resisted    \* history: when the island's braking command (re)started its
                \* odometry was not fresh, or once since then was not, or the
                \* vehicle did not slow

routeVars == <<armed, left, stage, ref, fired, timer>>
latchVars == <<latched, fault, pending, wake, wait>>
speedVars == <<speed, speedAge, seen, noting>>
directVars == <<handover, resumed, alive, brake, directNext>>
envVars == <<tick, sawLatch, calling, hooking, exec, vel>>
history == <<silence, resisted>>
vars == <<routeVars, latchVars, speedVars, directVars, envVars, history>>

TickSteps == {"idle", "begun", "checked", "stamped", "flagged", "reported"}
SilenceCap == 2 * ResumeLimit(OperatorSlot) + 1

\* UINT64_MAX of nros_cpp_executor_route_next_due_us: no take waits.
Answered == ExecSpan + 1

ExecStates == [pending : BOOLEAN, left : 0..ExecSpan, late : BOOLEAN, up : 0..1,
               watch : {"none", "ok", "failed"},
               spinning : BOOLEAN, us : 0..Answered, gap : 0..ExecSpan,
               held : 0..ExecSpan]

\* No take yet, no watch, no spin.
NoTake == [pending |-> FALSE, left |-> 0, late |-> FALSE, up |-> 0,
           watch |-> "none", spinning |-> FALSE, us |-> 0, gap |-> 0, held |-> 0]

\* Types of the state; the only shape invariant of the module.
TypeOK ==
    /\ armed \subseteq Routes
    /\ left \in [Routes -> 0..Never]
    /\ stage \in FloorStages
    /\ ref \in 0..MaxSpeed
    /\ fired \subseteq Routes
    /\ timer \in 0..Never
    /\ latched \in BOOLEAN /\ fault \in BOOLEAN
    /\ pending \subseteq {"hook", "swt"}
    /\ wake \in {0, 1}
    /\ wait \in 0..Never
    /\ hooking \in BOOLEAN
    /\ speed \in 0..MaxSpeed /\ speedAge \in 0..(FreshSpan + 1)
    /\ seen \in BOOLEAN /\ noting \in BOOLEAN
    /\ handover \subseteq Slots /\ resumed \subseteq handover
    /\ alive \in [AllSlots -> 0..Never]
    /\ brake \in [age : 0..FloorSpan, ref : 0..MaxSpeed, ok : BOOLEAN]
    /\ directNext \in 0..DirectPeriod
    /\ tick \in [AllSlots -> TickSteps]
    /\ sawLatch \in BOOLEAN
    /\ calling \in {"NONE", "COMFORTABLE_STOP", "EMERGENCY_STOP"}
    /\ exec \in ExecStates
    /\ vel \in 0..MaxSpeed
    /\ silence \in 0..SilenceCap
    /\ resisted \in BOOLEAN

Init ==
    /\ armed = {} /\ left = [r \in Routes |-> 0]
    /\ stage = "IDLE" /\ ref = 0 /\ fired = {}
    /\ timer = Never
    /\ latched = FALSE /\ fault = FALSE
    /\ pending = {} /\ wake = 0 /\ wait = Never /\ hooking = FALSE
    /\ speed = 0 /\ speedAge = 0 /\ seen = FALSE /\ noting = FALSE
    /\ handover = {} /\ resumed = {}
    /\ alive = [i \in AllSlots |-> 0]
    /\ brake = [age |-> 0, ref |-> 0, ok |-> FALSE]
    /\ directNext = 0
    /\ tick = [i \in AllSlots |-> "idle"]
    /\ sawLatch = FALSE /\ calling = "NONE"
    /\ exec = NoTake
    /\ vel \in 0..MaxSpeed
    /\ silence = 0 /\ resisted = FALSE

-----------------------------------------------------------------------------
(* The routes, as a record the spinlock's holder works on.                 *)

table == [armed |-> armed, left |-> left, stage |-> stage, ref |-> ref]

\* rearm_locked: the earliest armed due, or K_FOREVER.
Earliest(x) ==
    IF x.armed = {} THEN Never
    ELSE CHOOSE t \in {x.left[r] : r \in x.armed} : \A r \in x.armed : t <= x.left[r]

Arm(x, r, t) == [x EXCEPT !.armed = @ \cup {r}, !.left[r] = t]

Disarm(x, S) ==
    [x EXCEPT !.armed = @ \ S,
              !.left = [r \in Routes |-> IF r \in S THEN 0 ELSE x.left[r]]]

speed_fresh == ~judge_stale(seen, speedAge, FreshSpan)

standstill_now == judge_standstill(seen, speedAge, speed, FreshSpan)

\* response_arm_locked: route 4, t from now, against v when v was fresh.
response_arm(x, t, v, ok) ==
    IF ~UseResponse THEN x
    ELSE IF ~ok THEN Disarm(x, {Response})
    ELSE [Arm(x, Response, t) EXCEPT !.ref = v]

\* A settle of route 3 from now, and its response check.
StartSettle(x, s) ==
    response_arm([Arm(x, Floor, FloorSpan) EXCEPT !.stage = s],
                 ResponseSpan, speed, speed_fresh)

\* island_supervisor_arm and island_supervisor_done.
ArmRoute(x, r, t) ==
    IF r = Floor THEN StartSettle(x, "OPERATOR") ELSE Arm(x, r, t)

\* Mutant: route 3's done leaves route 4 armed.
DoneRouteAlone(x, r) ==
    IF r \notin x.armed THEN x
    ELSE [Disarm(x, {r}) EXCEPT !.stage = IF r = Floor THEN "IDLE" ELSE @]

DoneRoute(x, r) ==
    IF r \notin x.armed THEN x
    ELSE IF r = Floor
    THEN [Disarm(x, {Floor, Response}) EXCEPT !.stage = "IDLE"]
    ELSE Disarm(x, {r})

SetRoutes(x) ==
    /\ armed' = x.armed /\ left' = x.left /\ stage' = x.stage /\ ref' = x.ref

\* Mutant: the table changes under a timer that is not re-armed.
RearmNot(x) == SetRoutes(x) /\ UNCHANGED timer

Rearm(x) == SetRoutes(x) /\ timer' = Earliest(x)

\* Nothing above the spin threads is ready: the reaction thread waits, and no
\* timeout has expired.
Quiet == wake = 0 /\ timer # 0 /\ ~(latched /\ wait = 0)

-----------------------------------------------------------------------------
(* The reaction thread's pass: each due route in the order of the routes,  *)
(* on a table that also carries the verdicts of the pass so far: the       *)
(* routes fired, whether one of them latches, the vehicle-side fault.      *)

Due(x, r) == r \in x.armed /\ x.left[r] = 0

\* A verdict that latches the output; and one that finds the vehicle at fault,
\* with which both floor routes are done.
Missed(x, r) == [Disarm(x, {r}) EXCEPT !.fired = @ \cup {r}, !.latch = TRUE]

MissedFloor(x, r) == StartSettle(Missed(x, r), "DIRECT")

VehicleFault(x, r) ==
    [Disarm(x, {Floor, Response}) EXCEPT !.fired = @ \cup {r},
                                         !.stage = "IDLE", !.fault = TRUE]

\* The age of the island's braking command; 0 while it has none.
Braked == IF latched THEN brake.age ELSE 0

JudgeHpcLoss(x) == IF Due(x, HpcLoss) THEN Missed(x, HpcLoss) ELSE x

\* Mutant: the armed due stands, whatever the cells say.
JudgeExecutorUnwatched(x) == IF Due(x, Executor) THEN Missed(x, Executor) ELSE x

\* nros_cpp_route_watch_next_due_us: answered, a later take's due in the kernel's
\* ticks, or a miss.
JudgeExecutor(x) ==
    IF ~Due(x, Executor) THEN x
    ELSE IF exec.watch = "ok" /\ ~exec.pending THEN Disarm(x, {Executor})
    ELSE IF exec.watch = "ok" /\ exec.left > 0 THEN Arm(x, Executor, exec.left + exec.up)
    ELSE Missed(x, Executor)

JudgeComfortable(x) ==
    IF ~Due(x, Comfortable) THEN x
    ELSE IF standstill_now THEN Disarm(x, {Comfortable})
    ELSE Missed(x, Comfortable)

\* The verdict of route 3, for a vehicle that has reported.
FloorVerdict(x) ==
    LET verdict == judge_floor(standstill_now, latched, Braked, FloorSpan)
    IN  CASE verdict = "MET" ->
               [Disarm(x, {Floor, Response}) EXCEPT !.stage = "IDLE"]
          [] verdict = "WAIT" ->
               [Arm(x, Floor, FloorSpan - brake.age) EXCEPT !.stage = "DIRECT"]
          [] verdict = "LATCH" -> MissedFloor(x, Floor)
          [] verdict = "VEHICLE_FAULT" -> VehicleFault(x, Floor)

\* Mutant: a vehicle that cannot be seen now is waited for.
JudgeFloorBlind(x) ==
    IF ~Due(x, Floor) THEN x
    ELSE IF ~speed_fresh THEN Arm(x, Floor, FloorSpan)
    ELSE FloorVerdict(x)

JudgeFloor(x) ==
    IF ~Due(x, Floor) THEN x
    ELSE IF judge_unseen(seen) THEN Arm(x, Floor, FloorSpan)
    ELSE FloorVerdict(x)

JudgeResponse(x) ==
    LET responded == judge_responded(standstill_now, speed_fresh, x.ref, speed, Drop)
        verdict == judge_floor(responded, latched, Braked, ResponseSpan)
    IN  IF ~Due(x, Response) THEN x
        ELSE CASE verdict = "MET" -> Disarm(x, {Response})
               [] verdict = "WAIT" ->
                    response_arm(Disarm(x, {Response}), ResponseSpan - brake.age,
                                 brake.ref, brake.ok)
               [] verdict = "LATCH" -> MissedFloor(x, Response)
               [] verdict = "VEHICLE_FAULT" -> VehicleFault(x, Response)

Judged ==
    JudgeResponse(JudgeFloor(JudgeComfortable(JudgeExecutor(JudgeHpcLoss(
        [armed |-> armed, left |-> left, stage |-> stage, ref |-> ref,
         fired |-> fired, latch |-> FALSE, fault |-> fault])))))

-----------------------------------------------------------------------------
(* The direct path, once latched.                                          *)

\* A braking command that starts now, against the speed noted by now.
BrakeNow == [age |-> 0, ref |-> speed, ok |-> speed_fresh]

\* direct_watch: the handed-over slots that have been silent too long.
Silent == {i \in handover \ resumed : judge_resume(alive[i], SlotPeriod(i), ResumePeriods)}

\* direct_owns, over the slots taken back so far (back).
Owned(back) == {i \in Slots : i \notin handover \/ i \in back}

\* Mutant: the wait leaves out the resume deadlines.
latched_wait_unwatched(back, next) == IF Owned(back) # {} THEN next ELSE Never

\* latched_wait: the next publish, a watched slot's resume, SWT0's feed.
latched_wait(back, next) ==
    LET times == (IF Owned(back) # {} THEN {next} ELSE {})
                   \cup {ResumeLimit(i) - alive[i] : i \in handover \ back}
                   \cup (IF SwtWait > 0 THEN {SwtWait} ELSE {})
                   \cup {Never}
    IN  CHOOSE t \in times : \A u \in times : t <= u

\* A braking command starts against a speed that is not fresh, whatever its
\* stamp says: the vehicle has gained more than it can in FreshSpan.  Time has
\* passed between the stores of note_speed.
Misread ==
    \/ vel > speed + FreshSpan
    \/ /\ Response \in armed' /\ left'[Response] = ResponseSpan
       /\ vel > ref' + FreshSpan

\* direct_service: take back the silent slots, and with the operator's slot
\* restart the braking command, supervised by a settle of its own when
\* nothing has route 3; then publish if the period is up or a slot came back.
direct_service(x, b, next) ==
    LET back == resumed \cup Silent
        restart == OperatorSlot \in Silent
        n == IF Silent # {} THEN 0 ELSE next
        publish == Owned(back) # {} /\ n = 0
        n2 == IF publish THEN DirectPeriod ELSE n
    IN  /\ resumed' = back
        /\ brake' = IF restart THEN BrakeNow ELSE b
        /\ directNext' = n2
        /\ IF restart /\ Floor \notin x.armed
           THEN Rearm(StartSettle(x, "DIRECT"))
           ELSE SetRoutes(x) /\ timer' = x.timer
        /\ resisted' = IF restart \/ ~latched THEN Misread ELSE resisted
        /\ silence' = IF publish /\ OperatorSlot \in Owned(back) THEN 0 ELSE silence
        /\ wait' = latched_wait(back, n2)

\* A pass: the semaphore taken, the due routes judged, the timer re-armed,
\* the latch driven by a fired route or a noted cause, the direct path served.
ReactionPass ==
    /\ wake = 1
    /\ wake' = 0
    /\ LET x == Judged
           t == [armed |-> x.armed, left |-> x.left, stage |-> x.stage,
                 ref |-> x.ref, timer |-> Earliest(x)]
           latch == x.latch \/ pending # {}
       IN  /\ fired' = x.fired
           /\ fault' = x.fault
           /\ pending' = {}
           /\ latched' = (latched \/ latch)
           /\ \/ /\ ~latched'
                 /\ SetRoutes(t) /\ timer' = t.timer
                 /\ wait' = Never
                 /\ UNCHANGED <<resumed, brake, directNext, history>>
              \/ /\ latched' /\ ~latched
                 /\ direct_service(t, BrakeNow, 0)
              \/ /\ latched
                 /\ direct_service(t, brake, directNext)
    /\ UNCHANGED <<speedVars, handover, alive, envVars>>

\* k_sem_take times out: a period or a resume deadline.
TimeoutWake ==
    /\ latched /\ wait = 0 /\ wake = 0
    /\ direct_service([armed |-> armed, left |-> left, stage |-> stage,
                       ref |-> ref, timer |-> timer], brake, directNext)
    /\ UNCHANGED <<fired, latched, fault, pending, wake, speedVars,
                   handover, alive, envVars>>

-----------------------------------------------------------------------------
(* What wakes the thread.                                                  *)

due_expiry ==
    /\ timer = 0
    /\ timer' = Never
    /\ wake' = 1
    /\ UNCHANGED <<armed, left, stage, ref, fired, latched, fault, pending, wait,
                   speedVars, directVars, envVars, history>>

swt_first_timeout ==
    /\ "swt" \in Causes
    /\ pending' = pending \cup {"swt"}
    /\ wake' = 1
    /\ UNCHANGED <<routeVars, latched, fault, wait, speedVars, directVars,
                   envVars, history>>

\* nros_app_reaction_hook, on a spin thread: the cause, then the semaphore.
\* The executor calls it for a supervised take past its deadline.
HookNote ==
    /\ Quiet /\ ~hooking
    /\ "hook" \in Causes \/ (exec.pending /\ exec.left = 0)
    /\ pending' = pending \cup {"hook"}
    /\ hooking' = TRUE
    /\ UNCHANGED <<routeVars, latched, fault, wake, wait, speedVars, directVars,
                   tick, sawLatch, calling, exec, vel, history>>

\* Mutant: the hook returns with its cause noted and nobody woken.
HookGiveNot ==
    /\ Quiet /\ hooking
    /\ hooking' = FALSE
    /\ UNCHANGED <<routeVars, latchVars, speedVars, directVars,
                   tick, sawLatch, calling, exec, vel, history>>

HookGive ==
    /\ Quiet /\ hooking
    /\ hooking' = FALSE
    /\ wake' = 1
    /\ UNCHANGED <<routeVars, latched, fault, pending, wait, speedVars, directVars,
                   tick, sawLatch, calling, exec, vel, history>>

-----------------------------------------------------------------------------
(* The spin threads.                                                       *)

\* The handler's level is between two callbacks, and its executor in a spin.
HandlerIdle == Quiet /\ tick[HandlerSlot] = "idle" /\ ~noting /\ ~exec.spinning

\* island_supervisor_note_speed, from the handler's onOdometry: two stores.
NoteSpeed ==
    /\ HandlerIdle
    /\ speed' = vel
    /\ noting' = TRUE
    /\ UNCHANGED <<routeVars, latchVars, speedAge, seen, directVars, envVars, history>>

NoteStamp ==
    /\ Quiet /\ noting
    /\ speedAge' = 0
    /\ seen' = TRUE
    /\ noting' = FALSE
    /\ UNCHANGED <<routeVars, latchVars, speed, directVars, envVars, history>>

\* The handler's take of an availability sample moves route 0's due.
TakeAvailability ==
    /\ HandlerIdle /\ HpcLoss \in HandlerArms
    /\ Rearm(ArmRoute(table, HpcLoss, CallMrmSpan))
    /\ UNCHANGED <<fired, latchVars, speedVars, directVars, envVars, history>>

\* The handler's tick reads the latch at its start ...
HandlerBegin ==
    /\ HandlerIdle
    /\ tick' = [tick EXCEPT ![HandlerSlot] = "begun"]
    /\ sawLatch' = latched
    /\ UNCHANGED <<routeVars, latchVars, speedVars, directVars, hooking, calling,
                   exec, vel, history>>

RouteOf(b) == IF b = "COMFORTABLE_STOP" THEN Comfortable ELSE Floor

\* A done that finds its route not armed leaves the timer alone.
Decides(x, c) ==
    /\ SetRoutes(x)
    /\ timer' = IF x = table THEN timer ELSE Earliest(x)
    /\ calling' = c

\* ... decides with what it read, calling and cancelling the stops: a cancel
\* of the comfortable stop that is not sent leaves route 2 armed, the cancel
\* of an emergency stop that is not sent calls it again ...
HandlerDecision ==
    \/ Decides(table, calling)
    \/ /\ HpcLoss \in HandlerArms
       /\ Decides(DoneRoute(table, HpcLoss), calling)
    \/ /\ calling = "NONE" /\ ~sawLatch /\ Comfortable \in HandlerArms
       /\ Decides(ArmRoute(table, Comfortable, ComfortableSpan), "COMFORTABLE_STOP")
    \/ /\ Floor \in HandlerArms
       /\ calling = "EMERGENCY_STOP" => ~sawLatch
       /\ \E x \in {table, DoneRoute(table, Comfortable)} :
             Decides(ArmRoute(x, Floor, FloorSpan), "EMERGENCY_STOP")
    \/ /\ calling # "NONE" /\ ~sawLatch
       /\ Decides(DoneRoute(table, RouteOf(calling)), "NONE")
    \/ /\ calling # "NONE" /\ seen /\ speed = 0
       /\ Decides(DoneRoute(table, RouteOf(calling)), calling)

\* ... and reports itself at its end if the latch was there at its start and
\* the slot is still its own.
HandlerAct ==
    /\ Quiet /\ tick[HandlerSlot] = "begun"
    /\ HandlerDecision
    /\ tick' = [tick EXCEPT ![HandlerSlot] =
                  IF sawLatch /\ HandlerSlot \in Slots \ resumed THEN "checked" ELSE "idle"]
    /\ UNCHANGED <<fired, latchVars, speedVars, directVars, hooking, sawLatch,
                   exec, vel, history>>

\* The operator's tick, OPERATING: it takes over once latched, and keeps
\* silent once the slot was taken back.
OperatorCheck ==
    /\ Quiet /\ tick[OperatorSlot] = "idle"
    /\ latched /\ OperatorSlot \in Slots \ resumed
    /\ tick' = [tick EXCEPT ![OperatorSlot] = "checked"]
    /\ UNCHANGED <<routeVars, latchVars, speedVars, directVars, hooking, sawLatch,
                   calling, exec, vel, history>>

\* Mutant: the flag is set before the report.
HandoverStampAfter(i) ==
    /\ Quiet /\ tick[i] = "checked"
    /\ alive' = IF i \in handover THEN [alive EXCEPT ![i] = 0] ELSE alive
    /\ tick' = [tick EXCEPT ![i] = IF i \in handover THEN "reported" ELSE "stamped"]
    /\ UNCHANGED <<routeVars, latchVars, speedVars, handover, resumed, brake,
                   directNext, hooking, sawLatch, calling, exec, vel, history>>

\* island_supervisor_handover: the report, then the flag, then the semaphore,
\* the last two on a slot's first report only.
HandoverStamp(i) ==
    /\ Quiet /\ tick[i] = "checked"
    /\ alive' = [alive EXCEPT ![i] = 0]
    /\ tick' = [tick EXCEPT ![i] = IF i \in handover THEN "reported" ELSE "stamped"]
    /\ UNCHANGED <<routeVars, latchVars, speedVars, handover, resumed, brake,
                   directNext, hooking, sawLatch, calling, exec, vel, history>>

HandoverFlag(i) ==
    /\ Quiet /\ tick[i] = "stamped"
    /\ handover' = handover \cup {i}
    /\ tick' = [tick EXCEPT ![i] = "flagged"]
    /\ UNCHANGED <<routeVars, latchVars, speedVars, resumed, alive, brake,
                   directNext, hooking, sawLatch, calling, exec, vel, history>>

HandoverGive(i) ==
    /\ Quiet /\ tick[i] = "flagged"
    /\ wake' = 1
    /\ tick' = [tick EXCEPT ![i] = "reported"]
    /\ UNCHANGED <<routeVars, latched, fault, pending, wait, speedVars, directVars,
                   hooking, sawLatch, calling, exec, vel, history>>

\* After the report the operator publishes its braking command; the handler
\* has published before its report.
TickEnd(i) ==
    /\ Quiet /\ tick[i] = "reported"
    /\ tick' = [tick EXCEPT ![i] = "idle"]
    /\ silence' = IF i = OperatorSlot THEN 0 ELSE silence
    /\ UNCHANGED <<routeVars, latchVars, speedVars, directVars, hooking, sawLatch,
                   calling, exec, vel, resisted>>

-----------------------------------------------------------------------------
(* The executor's supervised row: all levels spin the one executor, and    *)
(* the one that hosts the handler owns route 1.                            *)

ExecTake ==
    /\ UseExecutor /\ Quiet /\ ~exec.pending
    /\ \E up \in 0..1 :
          exec' = [exec EXCEPT !.pending = TRUE, !.left = ExecSpan, !.up = up]
    /\ UNCHANGED <<routeVars, latchVars, speedVars, directVars, tick, sawLatch,
                   calling, hooking, vel, history>>

ExecAnswer ==
    /\ Quiet /\ exec.pending
    /\ exec' = [exec EXCEPT !.pending = FALSE, !.left = 0, !.up = 0]
    /\ UNCHANGED <<routeVars, latchVars, speedVars, directVars, tick, sawLatch,
                   calling, hooking, vel, history>>

\* island_supervisor_spin_after, after a spin of the owner: the time to the
\* earliest pending due is read without the lock ...
SpinRead ==
    /\ UseExecutor /\ HandlerIdle
    /\ exec' = [exec EXCEPT !.spinning = TRUE, !.gap = 0,
                            !.us = IF exec.pending THEN exec.left ELSE Answered]
    /\ UNCHANGED <<routeVars, latchVars, speedVars, directVars, tick, sawLatch,
                   calling, hooking, vel, history>>

\* ... and route 1 is armed that long from the now of executor_due_ms, in the
\* kernel's ticks, or cleared.  The owner's first spin fills the watch.
SpinArm ==
    /\ Quiet /\ exec.spinning
    /\ \E w \in {"ok", "failed"} :
         /\ exec.watch # "none" => w = exec.watch
         /\ exec' = [exec EXCEPT !.spinning = FALSE, !.us = 0, !.gap = 0,
                                 !.held = exec.gap, !.watch = w]
    /\ \E up \in 0..1 :
         LET x == IF exec.us = Answered THEN DoneRoute(table, Executor)
                  ELSE ArmRoute(table, Executor, exec.us + up)
         IN  SetRoutes(x) /\ timer' = IF x = table THEN timer ELSE Earliest(x)
    /\ UNCHANGED <<fired, latchVars, speedVars, directVars, tick, sawLatch,
                   calling, hooking, vel, history>>

-----------------------------------------------------------------------------
(* Time and the vehicle.                                                   *)

Older(age, cap) == IF age < cap THEN age + 1 ELSE cap
Down(t) == IF t > 0 THEN t - 1 ELSE 0
DownTo(t) == IF t = Never THEN Never ELSE Down(t)

\* The vehicle's speed moves by at most 1 a unit, under a braking command too.
\* It resists the command when it does not lose speed in a unit of it, or does
\* not report what it does.
VehicleMoves ==
    /\ vel' \in {v \in 0..MaxSpeed : v <= vel + 1 /\ vel <= v + 1}
    /\ resisted' = (resisted \/ (latched /\ (vel' # Down(vel) \/ noting
                                             \/ ~seen \/ speedAge >= FreshSpan)))

\* Time passes only when nothing that is due is left to run.
Advance ==
    /\ Quiet
    /\ left' = [r \in Routes |-> Down(left[r])]
    /\ timer' = DownTo(timer)
    /\ wait' = DownTo(wait)
    /\ speedAge' = IF seen THEN Older(speedAge, FreshSpan + 1) ELSE speedAge
    /\ alive' = [i \in AllSlots |-> IF i \in Slots THEN Older(alive[i], ResumeLimit(i)) ELSE 0]
    /\ brake' = IF latched THEN [brake EXCEPT !.age = Older(@, FloorSpan)] ELSE brake
    /\ directNext' = Down(directNext)
    /\ exec' = [exec EXCEPT !.left = Down(@), !.late = @ \/ (exec.pending /\ exec.left = 1),
                            !.gap = IF exec.spinning THEN Older(@, ExecSpan) ELSE 0]
    /\ VehicleMoves
    /\ silence' = IF latched /\ OperatorSlot \in Slots THEN Older(silence, SilenceCap)
                  ELSE silence
    /\ UNCHANGED <<armed, stage, ref, fired, latched, fault, pending, wake, speed,
                   seen, noting, handover, resumed, tick, sawLatch, calling, hooking>>

SpinThread ==
    \/ NoteSpeed \/ NoteStamp
    \/ TakeAvailability \/ HandlerBegin \/ HandlerAct
    \/ OperatorCheck
    \/ \E i \in Slots : HandoverStamp(i) \/ HandoverFlag(i) \/ HandoverGive(i) \/ TickEnd(i)
    \/ HookNote \/ HookGive
    \/ ExecTake \/ ExecAnswer \/ SpinRead \/ SpinArm

Kernel == ReactionPass \/ TimeoutWake \/ due_expiry

Next == Kernel \/ swt_first_timeout \/ SpinThread \/ Advance

Spec == Init /\ [][Next]_vars

\* The kernel runs the expired timer and the reaction thread above everything
\* else, and time passes whatever the threads do.  No tick, sample or answer
\* of the spin threads is promised.
Fairness == WF_vars(Kernel) /\ SF_vars(Advance)

FairSpec == Spec /\ Fairness

-----------------------------------------------------------------------------
(* Properties.                                                             *)

\* Route 3's stage says what its due supervises, and says IDLE exactly when
\* it has none; route 4 never outlives the settle of route 3 that it checks,
\* through the calls, dones, verdicts and resumes that arm and clear the two.
\* The vehicle is blamed only under the latch, and only if it ever reported.
FloorStructure ==
    /\ Floor \in armed <=> stage # "IDLE"
    /\ Response \in armed => Floor \in armed
    /\ fault => latched /\ seen

\* No due is lost: every armed route is covered by the one timer, or the
\* reaction thread is already on its way.
DuesCovered == \A r \in armed : wake = 1 \/ timer <= left[r]

\* No cause is lost: one that is noted has its wake given, or the hook that
\* noted it is about to give it.
CausesCovered == pending # {} => wake = 1 \/ hooking

\* Once latched the braking command is never off the wire for longer than two
\* resume spans, whatever the operator's tick does: stall, stop, come late, or
\* stop between its report and its publish.
BrakeNeverSilent ==
    latched /\ OperatorSlot \in Slots => silence <= 2 * ResumeLimit(OperatorSlot)

\* The reaction thread never sees a handover without its time: the report of
\* a handed-over operator is younger than the braking command it took over.
HandoverTimed ==
    OperatorSlot \in handover \ resumed => alive[OperatorSlot] <= brake.age

\* No false vehicle fault: a vehicle that has slowed in every unit of the
\* braking command it is under, and reported it, is not blamed, whichever cause
\* latched, whenever it did between a route's arming and its due, and whatever
\* the operator did before the command was taken back.
NoFalseFault == [][~fault /\ fault' => resisted]_vars

\* Judged through the watch, route 1 fires only for a take that was still
\* unanswered at its deadline, never for one a late spin had answered.  And
\* however stale what a spin read is when it arms, and whatever is taken,
\* answered or judged in between or since, the due is later than the pending
\* take's by no more than the kernel's tick and the time that spin was held
\* between its read and its arming.
ExecutorJudged ==
    /\ Executor \in fired /\ exec.watch = "ok" => exec.late
    /\ Executor \in armed /\ exec.pending
         => left[Executor] <= exec.left + exec.held + 1

\* Under the latch the floor comes to an end: a vehicle that has reported is
\* found stopped or at fault, however often the verdict had to wait.
FloorResolves == (latched /\ seen /\ Floor \in armed) ~> (Floor \notin armed)

\* The comment before executor_due_ms leaves out the time between the read and
\* the arming: "the k_timer is at or after the executor's due and at most 1 ms
\* later".
DueWithinTick ==
    Executor \in armed /\ exec.pending => left[Executor] <= exec.left + 1

\* Kconfig says that the braking command is back at most the resume span plus
\* a millisecond after the last tick that published it.
BrakeBackWithinSpan == latched => silence <= ResumeLimit(OperatorSlot) + 1

\* island_supervisor.h says that route 4 is armed whenever route 3 starts a
\* settle, the direct path's resume included.
ResumeHasResponseCheck ==
    [][(OperatorSlot \in resumed' \ resumed) /\ speed_fresh => Response \in armed']_vars
=============================================================================
