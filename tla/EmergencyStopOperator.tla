----------------------- MODULE EmergencyStopOperator -----------------------
(***************************************************************************)
(* The emergency stop operator: its service, its tick that ramps the       *)
(* deceleration, and the direct brake, which the supervisor's reaction     *)
(* thread calls once the output is latched                                 *)
(* (src/autoware_mrm_emergency_stop_operator/...core.cpp; slot 1 of        *)
(* src/zephyr_entry/src/island_supervisor.c).                              *)
(*                                                                         *)
(* The spin thread runs one callback at a time.  The reaction thread       *)
(* preempts it between any two stores; a pass of its own is one action.    *)
(* Accelerations count in steps of target_jerk per unit of time, so the    *)
(* jerk is -1; velocities are doubled, so half of it is whole.  A command  *)
(* is its velocity and acceleration; steering and jerk follow the same     *)
(* assignments and are left out.  A stamp is an age.                       *)
(***************************************************************************)
EXTENDS Integers, Sequences

CONSTANTS
    TargetAcceleration, \* target_acceleration
    MaxDt,              \* the clamp of dt
    Controls,           \* the control commands the host may publish
    HostAges,           \* the age a host stamp shows on the island's clock
    Garbage,            \* what the member not yet assigned may hold
    DirectPeriod,       \* the direct path's period
    ResumeSpan,         \* the tick's period times RESUME_PERIODS
    Horizon,            \* bound: how long the latch is followed
    MaxRequests         \* bound: requests on their way

Command == [vel : Nat, acc : Int]
NoCommand == [vel |-> 0, acc |-> 0]

ASSUME RampAssumption ==
    /\ TargetAcceleration \in Int /\ TargetAcceleration < 0
    /\ MaxDt \in Nat \ {0}
    /\ Controls \subseteq Command /\ Garbage \subseteq Command
    /\ HostAges \subseteq Int
ASSUME SlotAssumption ==
    /\ DirectPeriod \in Nat \ {0} /\ ResumeSpan \in Nat \ {0}
    /\ Horizon \in Nat /\ MaxRequests \in Nat

VARIABLES
    status,     \* status_.state
    prev,       \* prev_control_cmd_
    prevAge,    \* seconds_since(prev_control_cmd_.stamp)
    subscribed, \* is_prev_control_cmd_subscribed_
    takenOver,  \* direct_taken_over_
    tick,       \* where the tick, or the seed's copy, was preempted
    seed,       \* g_direct_brake.seed
    latched,    \* the supervisor's latch
    since,      \* since_latch_ms
    start,      \* g_direct_brake.v0 and a0
    last,       \* g_direct_brake.last
    lastAge,    \* the age of its stamp
    hasLast,    \* has_last
    next,       \* until the direct path's next publish
    handover,   \* direct[1].handover
    resumed,    \* resumed[1]
    alive,      \* the age of the slot's last report
    requests,   \* operate requests on their way, in order
    braked,     \* history: the last command the owner of the braking command
                \* published since the operator was called, if any
    strays,     \* history: commands of the operator's after the latch that
                \* the slot was not its own for, before and after its turn
    late,       \* history: after the takeover a tick came later than MaxDt
    withdrawn   \* history: a cancel was served under the latch

spinVars == <<status, prev, prevAge, subscribed, takenOver, tick, seed>>
directVars == <<latched, since, start, last, lastAge, hasLast, next>>
slotVars == <<handover, resumed, alive>>
history == <<braked, strays, late, withdrawn>>
vars == <<spinVars, directVars, slotVars, requests, history>>

-----------------------------------------------------------------------------
Larger(a, b) == IF a > b THEN a ELSE b

\* An age, told apart up to one past the bound it is compared with.
Older(age, cap) == IF age <= cap THEN age + 1 ELSE age

Init ==
    /\ status = "AVAILABLE"
    /\ prev \in {NoCommand} \cup Garbage
    /\ prevAge = 0 /\ subscribed = FALSE
    /\ takenOver = FALSE /\ tick = "idle"
    /\ seed = [vel |-> 0, acc |-> 0, valid |-> FALSE]
    /\ latched = FALSE /\ since = 0
    /\ start = NoCommand /\ last = NoCommand /\ lastAge = 0 /\ hasLast = FALSE
    /\ next = 0 /\ handover = FALSE /\ resumed = FALSE /\ alive = 0
    /\ requests = <<>>
    /\ braked = {} /\ strays = [early |-> 0, late |-> 0] /\ late = FALSE /\ withdrawn = FALSE

-----------------------------------------------------------------------------
(* The two ramps.                                                          *)

\* Mutant: the clamp leaves half of the range.
ClampedHalf(age) == IF age < 0 THEN 0 ELSE IF 2 * age > MaxDt THEN MaxDt \div 2 ELSE age

\* dt: a stamp of another clock gives at most the clamp.
Clamped(age) == IF age < 0 THEN 0 ELSE IF age > MaxDt THEN MaxDt ELSE age

\* The operator's next command, one step on from its previous one; full
\* deceleration at once when there is none.
calcTargetAcceleration ==
    IF ~subscribed THEN [vel |-> 0, acc |-> TargetAcceleration]
    ELSE [vel |-> Larger(prev.vel + 2 * prev.acc * Clamped(prevAge), 0),
          acc |-> Larger(prev.acc - Clamped(prevAge), TargetAcceleration)]

\* direct_brake: the command t after the latch, in closed form from s.
DirectCommand(s, t) ==
    LET a == Larger(s.acc, TargetAcceleration)
        ramp == a - TargetAcceleration
        v == IF t < ramp THEN s.vel + 2 * a * t - t * t
             ELSE s.vel + 2 * a * ramp - ramp * ramp + 2 * TargetAcceleration * (t - ramp)
    IN  [vel |-> Larger(v, 0), acc |-> Larger(a - t, TargetAcceleration)]

-----------------------------------------------------------------------------
(* The reaction thread, on the operator's slot.                            *)

Owns == ~handover \/ resumed

\* A pass is due: the next publish, or the resume of a silent slot.
PassDue ==
    /\ latched
    /\ (Owns /\ next = 0) \/ (~Owns /\ alive >= ResumeSpan)

\* direct_brake, called with the command's start s at t after the latch.
direct_brake(s, t) ==
    /\ start' = s
    /\ last' = DirectCommand(s, t) /\ lastAge' = 0 /\ hasLast' = TRUE
    /\ braked' = {DirectCommand(s, t)}

\* The output is latched and the direct path publishes at once, from the seed
\* (a first call) if it was stored.
Latch ==
    /\ ~latched
    /\ latched' = TRUE
    /\ direct_brake(IF seed.valid THEN [vel |-> seed.vel, acc |-> seed.acc] ELSE NoCommand, 0)
    /\ next' = DirectPeriod
    /\ UNCHANGED <<spinVars, since, slotVars, requests, strays, late, withdrawn>>

\* direct_service: take back a silent slot, publish when the period is up or
\* the slot came back.
DirectPass ==
    /\ PassDue
    /\ resumed' = (resumed \/ ~Owns)
    /\ direct_brake(start, since)
    /\ next' = DirectPeriod
    /\ UNCHANGED <<spinVars, latched, since, handover, alive, requests, strays, late, withdrawn>>

-----------------------------------------------------------------------------
(* The spin thread.  It runs while no pass is due.                         *)

\* A callback may begin.
Idle == ~PassDue /\ tick = "idle"

\* onControlCommand: ignored while OPERATING; the seed is stored word by word
\* from the command just kept.
onControlCommand ==
    /\ Idle /\ status # "OPERATING"
    /\ prev' \in Controls /\ prevAge' \in HostAges
    /\ subscribed' = TRUE
    /\ tick' = "seed_velocity"
    /\ UNCHANGED <<status, takenOver, seed, directVars, slotVars, requests, history>>

SeedStore ==
    /\ ~PassDue
    /\ \/ /\ tick = "seed_velocity"
          /\ seed' = [seed EXCEPT !.vel = prev.vel] /\ tick' = "seed_acceleration"
       \/ /\ tick = "seed_acceleration"
          /\ seed' = [seed EXCEPT !.acc = prev.acc] /\ tick' = "seed_valid"
       \/ /\ tick = "seed_valid"
          /\ seed' = [seed EXCEPT !.valid = TRUE] /\ tick' = "idle"
    /\ UNCHANGED <<status, prev, prevAge, subscribed, takenOver, directVars,
                   slotVars, requests, history>>

\* The handler sends a request; under the latch it never cancels.
SendRequest(op) ==
    /\ Len(requests) < MaxRequests
    /\ op = "cancel" => ~latched
    /\ requests' = Append(requests, op)
    /\ UNCHANGED <<spinVars, directVars, slotVars, history>>

operateEmergencyStop ==
    /\ Idle /\ requests # <<>>
    /\ requests' = Tail(requests)
    /\ status' = IF Head(requests) = "call" THEN "OPERATING" ELSE "AVAILABLE"
    /\ braked' = IF Head(requests) = "call" THEN braked ELSE {}
    /\ withdrawn' = (withdrawn \/ (latched /\ Head(requests) = "cancel"))
    /\ UNCHANGED <<prev, prevAge, subscribed, takenOver, tick, seed, directVars,
                   slotVars, strays, late>>

\* Mutant: the takeover continues the operator's own ramp.
TakeOverNothing ==
    /\ ~takenOver /\ latched
    /\ takenOver' = TRUE
    /\ UNCHANGED <<prev, prevAge, subscribed>>

\* The first tick under the latch continues the direct brake's last command.
TakeOver ==
    /\ ~takenOver /\ latched
    /\ takenOver' = TRUE
    /\ IF hasLast
       THEN prev' = last /\ prevAge' = lastAge /\ subscribed' = TRUE
       ELSE UNCHANGED <<prev, prevAge, subscribed>>

\* onTimer up to its publish: OPERATING takes over, then reports or publishes;
\* otherwise the last command is passed through unless the latch is set.
TickBegin ==
    /\ Idle
    /\ \/ /\ status = "OPERATING"
          /\ \/ TakeOver
             \/ (takenOver \/ ~latched) /\ UNCHANGED <<prev, prevAge, subscribed, takenOver>>
          /\ tick' = IF takenOver' THEN "report" ELSE "publish"
       \/ /\ status # "OPERATING" /\ ~latched
          /\ tick' = "pass"
          /\ UNCHANGED <<prev, prevAge, subscribed, takenOver>>
    /\ UNCHANGED <<status, seed, directVars, slotVars, requests, history>>

\* Mutant: a report is taken after the resume as before it.
TickReportAlways ==
    /\ ~PassDue /\ tick = "report"
    /\ alive' = 0 /\ handover' = TRUE /\ tick' = "publish"
    /\ UNCHANGED <<status, prev, prevAge, subscribed, takenOver, seed, directVars,
                   resumed, requests, history>>

\* island_supervisor_handover: refused once the direct path has the slot back.
TickReport ==
    /\ ~PassDue /\ tick = "report"
    /\ IF resumed
       THEN tick' = "idle" /\ UNCHANGED <<alive, handover>>
       ELSE tick' = "publish" /\ alive' = 0 /\ handover' = TRUE
    /\ UNCHANGED <<status, prev, prevAge, subscribed, takenOver, seed, directVars,
                   resumed, requests, history>>

\* A command of the operator's on the wire: its own, or a stray.
Published(own) ==
    strays' = CASE own -> strays
                [] ~own /\ resumed -> [strays EXCEPT !.late = @ + 1]
                [] ~own /\ ~resumed -> [strays EXCEPT !.early = @ + 1]

\* The braking command and what the next one continues.
TickPublish ==
    /\ ~PassDue /\ tick = "publish"
    /\ prev' = calcTargetAcceleration /\ prevAge' = 0
    /\ tick' = "idle"
    /\ Published(~latched \/ ~Owns)
    /\ braked' = IF ~latched \/ ~Owns THEN {prev'} ELSE braked
    /\ late' = (late \/ (takenOver /\ prevAge > MaxDt))
    /\ UNCHANGED <<status, subscribed, takenOver, seed, directVars, slotVars, requests,
                   withdrawn>>

TickPass ==
    /\ ~PassDue /\ tick = "pass"
    /\ tick' = "idle"
    /\ Published(~latched)
    /\ UNCHANGED <<status, prev, prevAge, subscribed, takenOver, seed, directVars,
                   slotVars, requests, braked, late, withdrawn>>

\* The clock; it does not pass what the reaction thread has due.
Advance ==
    /\ ~PassDue
    /\ latched => since < Horizon
    /\ since' = IF latched THEN since + 1 ELSE since
    /\ next' = IF next > 0 THEN next - 1 ELSE 0
    /\ prevAge' = Older(prevAge, MaxDt) /\ lastAge' = Older(lastAge, MaxDt)
    /\ alive' = IF handover THEN Older(alive, ResumeSpan) ELSE alive
    /\ UNCHANGED <<status, prev, subscribed, takenOver, tick, seed, latched, start,
                   last, hasLast, handover, resumed, requests, history>>

Next ==
    \/ Latch \/ DirectPass
    \/ onControlCommand \/ SeedStore
    \/ \E op \in {"call", "cancel"} : SendRequest(op)
    \/ operateEmergencyStop
    \/ TickBegin \/ TickReport \/ TickPublish \/ TickPass
    \/ Advance

Spec == Init /\ [][Next]_vars

-----------------------------------------------------------------------------
(* Properties.                                                             *)

\* Types of the state.
TypeOK ==
    /\ status \in {"AVAILABLE", "OPERATING"}
    /\ prev \in Command /\ last \in Command /\ start \in Command
    /\ prevAge \in Int /\ lastAge \in Nat
    /\ subscribed \in BOOLEAN /\ takenOver \in BOOLEAN
    /\ tick \in {"idle", "seed_velocity", "seed_acceleration", "seed_valid",
                 "report", "publish", "pass"}
    /\ seed \in [vel : Nat, acc : Int, valid : BOOLEAN]
    /\ latched \in BOOLEAN /\ since \in Nat /\ hasLast \in BOOLEAN
    /\ next \in 0..DirectPeriod
    /\ handover \in BOOLEAN /\ resumed \in BOOLEAN /\ alive \in Nat
    /\ requests \in Seq({"call", "cancel"})
    /\ braked \subseteq Command
    /\ strays \in [early : Nat, late : Nat] 
    /\ late \in BOOLEAN /\ withdrawn \in BOOLEAN

\* d after c asks for less deceleration, or for more speed while slowing.
Eases(c, d) == d.acc > c.acc \/ (c.acc <= 0 /\ d.vel > c.vel)

\* The direct path never eases the braking it continues: not over its own
\* commands, and not when it takes the slot back from an operator that took
\* over, whatever that one's late ticks have made of the ramp (unless a cancel
\* that the latch overtook has let the host's commands in again).
DirectNeverEases ==
    [][DirectPass /\ ~withdrawn => \A c \in braked, d \in braked' : ~Eases(c, d)]_vars

\* An operator that took over is on the direct brake's own ramp: at every tick
\* in time it asks for the deceleration the direct path would ask for then,
\* so a resume continues it.
SameRamp ==
    [][tick = "publish" /\ tick' = "idle" /\ takenOver /\ ~late' /\ ~withdrawn
         => prev'.acc = DirectCommand(start, since).acc]_vars

\* One source per slot: after the latch at most one command of the operator's
\* gets in before its turn, the one that was past its check, and after the
\* resume at most one, the one that was past its report.  And the direct brake
\* never starts from a word that was not stored: each word of a valid seed is
\* that of some command the host sent.
OneSource ==
    /\ strays.early <= 1 /\ strays.late <= 1
    /\ seed.valid => /\ \E c \in Controls : seed.vel = c.vel
                     /\ \E c \in Controls : seed.acc = c.acc

\* "It publishes the braking command the operator would": the direct brake's
\* first command does not ease the braking of an operator already OPERATING.
DirectAsOperator ==
    [][~latched /\ latched' => \A c \in braked, d \in braked' : ~Eases(c, d)]_vars
=============================================================================
