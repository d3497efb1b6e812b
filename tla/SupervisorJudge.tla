--------------------------- MODULE SupervisorJudge ---------------------------
(***************************************************************************)
(* The supervisor's verdicts, pure functions of their arguments            *)
(* (src/zephyr_entry/src/island_supervisor_judge.h).  Times that the code  *)
(* subtracts as 32-bit words come in as ages here.                         *)
(***************************************************************************)
EXTENDS Integers

\* Route 3's stage: what its armed due supervises.
FloorStages == {"IDLE", "OPERATOR", "DIRECT"}

\* A sample was noted, at most fresh old, and reads zero.
judge_standstill(seen, age, speed, fresh) == seen /\ age <= fresh /\ speed = 0

judge_stale(seen, age, fresh) == ~seen \/ age > fresh

judge_unseen(seen) == ~seen

\* Mutant: the latch alone makes it the vehicle's fault.
judge_floor_at_once(standstill, latched, braked, span) ==
    IF standstill THEN "MET" ELSE IF ~latched THEN "LATCH" ELSE "VEHICLE_FAULT"

\* Routes 3 and 4 at their due: a vehicle not stopped (or not slowing) brings
\* the direct path, and is the vehicle's fault only once the island's own
\* braking command has run the whole span.
judge_floor(standstill, latched, braked, span) ==
    IF standstill THEN "MET"
    ELSE IF ~latched THEN "LATCH"
    ELSE IF braked >= span THEN "VEHICLE_FAULT"
    ELSE "WAIT"

\* Route 4: standing, or a fresh sample that has shed the drop.
judge_responded(standstill, fresh, ref, speed, drop) ==
    standstill \/ (fresh /\ ref >= speed /\ ref - speed >= drop)

\* A handed-over slot is silent for so many of its periods.
judge_resume(silent, period, periods) == silent >= period * periods
=============================================================================
