------------------------- MODULE MCIslandSupervisor -------------------------
(***************************************************************************)
(* Small instances of IslandSupervisor for TLC; the values are in the      *)
(* configurations.  The views forget what no step and no property of the   *)
(* runs that use them reads: the handler's reading of the latch outside    *)
(* its tick, the reference of a route 4 that is not armed or of a command  *)
(* that began unseen, the report of a slot that is not handed over, the    *)
(* time to the next publish while none is the thread's, the timer and the  *)
(* wait that the pass about to run sets anew, how long a spin was held     *)
(* that has armed no due, the silence.                                     *)
(***************************************************************************)
EXTENDS IslandSupervisor

\* SWT0 has just latched the output of a board whose handler called the
\* emergency stop at any time before: where the run about the floor's end
\* begins.
JustLatched ==
    /\ armed = {Floor} /\ left \in {[r \in Routes |-> IF r = Floor THEN t ELSE 0] : t \in 1..FloorSpan}
    /\ stage = "OPERATOR" /\ ref = 0 /\ fired = {}
    /\ timer = left[Floor]
    /\ latched = TRUE /\ fault = FALSE
    /\ pending = {} /\ wake = 0 /\ wait = DirectPeriod /\ hooking = FALSE
    /\ vel \in 0..MaxSpeed /\ speed = vel /\ speedAge = 0 /\ seen = TRUE /\ noting = FALSE
    /\ handover = {} /\ resumed = {}
    /\ alive = [i \in AllSlots |-> IF i \in Slots THEN ResumeLimit(i) ELSE 0]
    /\ brake = BrakeNow
    /\ directNext = DirectPeriod
    /\ tick = [i \in AllSlots |-> "idle"]
    /\ sawLatch = FALSE /\ calling = "EMERGENCY_STOP"
    /\ exec = NoTake
    /\ silence = 0 /\ resisted = FALSE

JustLatchedSpec == JustLatched /\ [][Next]_vars /\ Fairness

Seen == <<armed, left, stage, IF Response \in armed THEN ref ELSE 0,
          latched, fault, wake, IF wake = 1 THEN <<>> ELSE <<timer, wait>>, hooking,
          speed, speedAge, seen, noting, handover, resumed,
          [i \in AllSlots |-> IF tick[i] = "stamped" \/ i \in handover \ resumed
                               THEN alive[i] ELSE 0],
          IF Owned(resumed) = {} THEN 0 ELSE directNext, tick,
          tick[HandlerSlot] = "begun" /\ sawLatch, calling,
          IF Executor \in armed THEN exec ELSE [exec EXCEPT !.held = 0], vel>>

\* Where route 3 is never armed, the age of the braking command is not asked for,
\* and no vehicle is judged; of the routes that fired, only route 1's is.
RoutesView == <<Seen, Executor \in fired, pending # {}>>

\* Without the executor no property reads what fired, and once latched a cause
\* that is noted changes nothing but its wake.
FloorView == <<Seen, IF brake.ok THEN brake ELSE [brake EXCEPT !.ref = 0],
               resisted /\ ~fault, IF latched THEN {} ELSE pending>>
=============================================================================
