# TLA+ models of the safety island

The safety island is a small board beside the main computer (the HPC) of an
Autoware vehicle. It listens to what the HPC says about itself and, when that
stops or reports a fault, brings the vehicle to a standstill with a
minimal-risk maneuver (MRM). This directory holds the specifications of its
core logic, the TLC runs that check them and the proofs that TLAPS checks.

Paths below are relative to the repository's `src/` directory.

## The system

| part | state it keeps | operations | talks to |
|---|---|---|---|
| MRM handler (`autoware_mrm_handler`) | INIT/RUN phase, the latest sample of each stream with its time, the MRM state and behaviour, the takeover request | one callback per stream, a 10 Hz tick | the two operators (service requests), the supervisor (arms and clears routes 0, 2, 3; reads the latch, reports each tick under it), the HPC and the driver (topics) |
| Supervisor (`zephyr_entry/src/island_supervisor*.{c,h}`) | a due per route, one timer, a semaphore, the safe-state latch, the vehicle-side fault, the direct slots | `arm`, `done`, `note_speed`, `handover`, `spin`, `spin_after`, the hook and SWT0's first timeout; the reaction thread | every spin thread calls it; its own thread preempts them all |
| Emergency stop operator (`autoware_mrm_emergency_stop_operator`) | operating or available, the last command | the operate service, a 30 Hz tick that ramps the deceleration | the handler; the supervisor's slot 1, for which it registers the direct brake |
| Comfortable stop operator (`autoware_mrm_comfortable_stop_operator`) | operating or available | the operate service, a status tick; sets and clears a velocity limit | the handler, the planner on the HPC |
| Stop mode operator (`autoware_stop_mode_operator`) | how long the vehicle has stood still | a tick that publishes the stop command and the parking gear | the vehicle interface |
| Spin hook, LED, assert record, lock probe (`zephyr_entry/src`) | small records | called from the spin loop or the handler's tick | the supervisor, the board |
| Buttons (`zephyr_entry/src/island_buttons.c`, `tools/board/board_buttons.py`) | debounced levels, a ring of presses, inject words | the board's sampling tick; the host's bridge, watch and inject | the handler's tick; the host over SWD, while the core runs |
| Trace window (`safety_island_tracing/include/island_trace.h`, `tools/board/readout.py`) | a pre-trigger ring, the RAM buffer, a record policy, the re-arm word | marker, heartbeat, trigger, re-arm; a halted read | every part writes to it; the host reads and re-arms it |
| Trace sink (`island_trace.h`) | bound slots, the last take and start | an event of nano-ros, the two binds | every executor level calls it |
| Marker table (`safety_island_tracing/gen_markers.py`) and decoder (`island_trace.py`) | a header for the image, a table for the decoder, a digest in both | gen, check; load, check, the joins | the contract, the pinned nano-ros, the image |
| Spin diagnosis (`island_spin_diag.h`, `tools/board/spin_diag.py`) | counts, histogram, maximum and late ring per level | file an interval; read, segment | every level; the host |
| Act tools (`tools/board/terms.py`, `violations.py`, `tlcommon.py`, `probe.py`) | the event log, the live view | budgets from markers, the supervisor's record decoded, predicates and lanes logged | the board's records, the host's topics |

What is hard about it:

* **Two threads of control over one vehicle.** The handler decides on its ticks;
  the reaction thread preempts it between any two stores, latches the output
  and publishes the braking command itself until the operator's ticks take over.
  The hand-over, and the taking back when those ticks stop, is a protocol of
  unlocked stores.
* **Deadlines about deadlines.** A lost stream is known one tick late; its
  reaction has a due; the stop it starts has a due at its standstill and an
  earlier one at the first sign of slowing; the due of a stop that was
  overtaken by a latch has to move. One timer serves them all.
* **Requests that fail.** A service request that cannot be sent changes what the
  next one must be, and the routes move before or after the send depending on
  the stop.
* **Samples that are missing, stale or early**, in particular at start-up.
* **Evidence that is read from a running system.** The trace, the presses, the
  spin figures and the event log are written while a tool reads them, thinned,
  overwritten, cut off and wrapped; what the tools print is used to set budgets
  and to accept an act.

## Modules

| module | models | source |
|---|---|---|
| `MrmHandler` | the handler, all of its callbacks and its tick | `mrm_handler_core.{cpp,hpp}` |
| `MrmHandlerProofs` | theorems about `MrmHandler`, those of its timing too | |
| `SupervisorJudge` | the pure verdicts | `island_supervisor_judge.h` |
| `IslandSupervisor` | routes, timer, reaction thread, latch, direct path | `island_supervisor.{c,h}`, the reporting part of the operator's tick |
| `IslandSupervisorProofs`, `IslandSupervisorDirectProofs` | theorems about `IslandSupervisor`: the routes and causes; the direct path and the vehicle-side fault | |
| `EmergencyStopOperator` | service, tick, both ramps, direct brake, takeover and resume | `mrm_emergency_stop_operator_core.cpp`, slot 1 of `island_supervisor.c` |
| `EmergencyStopOperatorProofs` | theorems about `EmergencyStopOperator` | |
| `StopModeOperator` | the parking gear | `stop_mode_operator.cpp`, `continuous_condition.cpp` |
| `StopModeOperatorProofs` | theorems about `StopModeOperator` | |
| `TraceDecoder` | what the decoder makes of a dump: times, window, check, spans | `island_trace.py` |
| `TraceWindow` | the image's window and the tool that re-arms and reads it | `island_trace.h`, `readout.py` |
| `TraceWindowProofs` | theorems about `TraceWindow` and its decoder | |
| `MarkerTable` | contract, table, digest, generation and build | `gen_markers.py` |
| `TraceSink` | nano-ros events on preempting levels, and the joins | `island_trace.h`, `island_trace.py` |
| `TraceSinkProofs` | theorems about `MarkerTable` and `TraceSink` | |
| `ButtonBridge`, `PressFeed` | the buttons and their tool; what the act may rely on | `island_buttons.c`, `board_buttons.py` |
| `SpinDiag` | the filing of intervals and the act's segment | `island_spin_diag.h`, `spin_diag.py` |
| `ActTerms` | the terms of an act and the budgets proposed | `terms.py` |
| `SupervisorRecord` | the record's layout, decoder and report | `violations.py` |
| `Timeline` | the probe, the log and its two readers | `probe.py`, `tlcommon.py` |
| `BoardBench` | the last five, one at a time: they share no state | |
| `BoardBenchProofs` | theorems about `BoardBench`: the buttons and their feed, the event log's tail and view, the spin diagnosis' segment, the budgets, the supervisor's record | |
| `MCMrmHandler`, `MCIslandSupervisor`, `MCEmergencyStopOperator`, `MCStopModeOperator`, `MCTraceWindow`, `MCTraceSink`, `MCBoardBench` | instances for TLC | |

`TraceWindow` extends `TraceDecoder` and `TraceSink` extends `MarkerTable`: the
properties compare what the host decodes with what the image did, so both sides are
in one specification.

### MrmHandler

The executor runs callbacks and the timer one at a time, so each is one action:
`onOperationModeAvailability`, `onOdometry`, `onControlMode`, `onStopStatus` (both
operators), `onOperationModeState` and `onTimer`. `onTimer` is the whole tick:
`updatePhase`, the timeout check, the latch's read, `updateMrmState`,
`operateMrm` with up to three sends, each with an outcome of its own, the
publishing and the clearing of route 0. A stamp is an age, saturated one unit
past the largest bound it is compared with. A tick reads the clock several times: the action is at its
last read, the state machine's, and `Reads` is by how much the others lie before it, up to `ReadLag`, so that
one sample may fall on both sides of a bound within a tick. `Advance` is the clock, which a due
timer stops after `MaxJitter`. `SupervisorStep` is the other thread as the
handler sees it: latch, fault, slot taken back, each for good.

Abstractions: speed is stopped or not; the availability is the set of available
modes and the two offers; the pull over is in the model although the island has
no operator for it (a request for it fails, as in the code); replies of the
operators are only logged by the code and are left out, as are traces, prints,
the record and the debug injections. `lostTicks` (how many ticks in a row found
the availability lost) and `waited` (how long a fault in AUTONOMOUS has gone without an
MRM) are history variables: no action reads them.

### IslandSupervisor

A pass of the reaction thread is one action (`ReactionPass`; `TimeoutWake` when
the semaphore's wait ends first): nothing preempts it but interrupts, which only
note a cause and give the semaphore. What the spin threads do is split wherever a
pass may come between: the two stores of `note_speed`, the hook's store and its
give, the stamp, the flag and the give of a handover, and the points of a tick
where the handler and the operator read the latch, report and publish. `Quiet`
is the priority: a spin thread moves only while the reaction thread waits and
no timeout has expired. Dues and stamps are relative to now; `Never` stands
for `K_FOREVER`.

A spin's report of the executor's due is two steps: `SpinRead` reads the time left without the lock, `SpinArm` arms
route 1 from a later reading of the clock. In `exec`, `up` is the unit by which the kernel's clock may put the take's
due later when the reaction thread re-arms the route; `gap`, the time since the read, and `held`, the `gap` of the latest arming, are histories.

The handler appears as `HandlerDecision`, any sequence of calls and cancels its code
allows; the executor's cells behind route 1 as `exec`; the vehicle as a speed
that moves by one unit, up or down, whatever is commanded. The levels and the feeding of
SWT0, the self tests and the counters are left out. Two history variables, read by
no action: `silence`, how long the braking command has been off the wire under the
latch, and `resisted`, whether the vehicle failed to slow, or to report it, in some
unit of the braking command it is under. A fault with `resisted` false would be a
false one. A sample may also come too late for its stamp: `note_speed` stores the speed
before the time, and the vehicle may gain speed in between or before the report. A braking
command that starts against such a sample (`Misread`) counts as resisted, since nothing the
island reads could tell; so does a route 4 that takes its reference from one.

### EmergencyStopOperator

The same slot seen from the operator, with the numbers the supervisor's model leaves out.
The spin thread's callbacks are split where a pass of the reaction thread may change what
they do: between the words of the seed, and between the tick's read of the latch, its
report and its publish. The report itself is one step here (its stores are split in
`IslandSupervisor`). `Latch` and `DirectPass` are the passes that call the direct brake;
while one is due (`PassDue`) nothing else moves. Both ramps are exact in integers: the unit
of acceleration is the jerk times the unit of time, and velocities are doubled. `prev` starts as zero or
as `Garbage`, since the member has no initialiser. The handler is a queue of
requests; it never cancels once it has seen the latch, but a cancel may be on its way.
Histories: `braked`, the owner's last braking command; `strays`, the operator's commands
outside its turn; `late` and `withdrawn`, the two excuses of `SameRamp`.

### StopModeOperator

One action per callback and one for the tick. `reportAge`, `movedAge` and `gap` are
histories of the velocity stream that the properties compare the condition with.

### TraceWindow and TraceDecoder

`Trace` is a marker of the image, `heartbeat` the timer's record with the re-arm it may
carry out; both run under `irq_lock` and are one action. A record has the fields the code
writes, its stamp modulo `Wrap` among them, and histories that no action and no decoder
reads: its true time, its number among the records kept, the time of the record
before it, the execution of its path. The buffer of Zephyr's RAM backend is external: a write that does not
fit ends the recording. The tool's session is a step per access (`rearmAttach`,
`rearmWrite`, `rearmPoll`); a full read halts the core, so the properties look at the dump
of every state. `load`, `check` and `Spans` are the decoder as operators and, where the code
loops, recursive functions. Both builds are in the initial states, `window=trigger` and `window=boot`. Record sizes
are the code's, so that halves and buffer fill as they do on the board.

### MarkerTable and TraceSink

`MarkerTable` is the workshop: the contract is edited, resolved (`Sync`), rendered into a
header (`GenHeader`) and then a table (`GenTable`), possibly cut off between the two or
within the second (`GenStopped`); the nano-ros pin moves on its own, and the image is built
from whatever header and checkout are there. `render` is the generator: ids in the
order of `build_table`, the policy, the forwarded events, and the digest, which here is the list
it is taken of (the hash is assumed to be injective).

`TraceSink` boots an image whose provenance the decoder accepts. A level's callback goes
step by step and a more urgent one may run between any two (`Runs`, `Begin`); a timer's callback may wait for a mutex of the
transport or the executor (`timer_wait`, `timer_wake`), and less urgent ones go on meanwhile (`Waits`, `Busy`). A record is
written in one step. Its `truth` is a history. `join_violations`, `join_takes` and
`timer_ticks` are folds over the log. The violation's endpoint and values are its number: only
whose they are is of interest.

### BoardBench

* `ButtonBridge`: the tick's loads and stores and the tool's accesses interleave freely. A
  port that cannot be read gives 0, as in the code. The lines the tool prints
  implement `PressFeed` (`LinesAreFeed`, a refinement with `upto <- tool.seen`).
* `SpinDiag`: an interval is filed in the order of the code's stores; the read takes the head,
  each level's counts, its histogram and the ring in turn. The lateness is an input: the
  bound it is taken from belongs to the executor.
* `ActTerms`: the model makes an act of ticks, some of them thinned from the trace, calls,
  velocity limits and samples on the link; `run_terms` and `propose` see the markers only.
* `SupervisorRecord`: a word of the record is the field and index it really is, so that a
  wrong offset shows. The level block has two forms (`levelBlock`), that of phase 509 I1 and the one P9b made of it; `LayoutTrue`
  leaves out the images with the first (`OfI1`), which the decoder does not tell apart.
* `Timeline`: the file is a sequence of pieces, two of a line's text and its newline. `die` is a
  kill or a failed write at any point.

## Runs

| run | instance | properties |
|---|---|---|
| `handler_startup` | from boot, with jitter, both operators' statuses, no takeover request | `LossSeen`, `InitBounded`, `FreshRun` |
| `handler_reaction` | from a started handler, takeover request, both gentle stops and holding configured, every send may fail, the supervisor may latch between any two steps, a pull over may be offered | `TypeOK`, `StateBehavior`, `LossAnswered`, `OperatorCalled`, `FloorSupervised`, `TakeoverBounded`, `NoDowngrade`, `HpcLossDischarged`, `HoldingKept` |
| `supervisor_routes` | routes 0, 1 and 2, the executor's cells and its spins, the hook, the handler's direct slot, a vehicle at rest | `DuesCovered`, `CausesCovered`, `ExecutorJudged` |
| `supervisor_floor` | routes 3 and 4, SWT0's first timeout, the operator's direct slot, a moving vehicle | `FloorStructure`, `NoFalseFault` |
| `supervisor_live` | from a latch during a stop, with fairness | `BrakeNeverSilent`, `HandoverTimed`, `FloorResolves` |
| `brake_ramp` | a host that accelerates or brakes hard on a clock that lags or leads, ticks and requests at any time | `OneSource`, `DirectNeverEases`, `SameRamp` |
| `stop_mode` | velocity reports at any time, three route states | `ParkEarned`, `ParkWatched`, `ParkReported` |
| `trace_window` | both builds, a ring of two records a half, a buffer that fills, stamps that wrap within the run | `TimesTrue`, `PassMeansComplete`, `RearmFresh`, `SpansTrue` |
| `trace_names` | three contracts (one shifts the ids, one is refused), three nano-ros pins, two levels that wait | `NamesTrue`, `ViolationsTrue`, `TicksWhole` |
| `board_bench` | the five tools, rings of one and two entries, two injections that may overlap, images of any blocks | `LinesAreFeed`, `InjectPresses`, `SegmentTrue`, `LayoutTrue`, `BudgetsTrue`, `TailTrue`, `ViewTrue` |
| `brake_at_latch` | as `brake_ramp` | `DirectAsOperator`, violated |
| `trace_takes` | as `trace_names`, takes only | `TakesTrue`, violated |

What the runs of the tools show:

* a trace that passes the check has every record kept from the start of its history to the last
  heartbeat, each at its true time; a span is one execution of its path, also where the
  policy, the ring or the trigger dropped records; a window the tool reports as re-armed holds nothing older;
* with an accepted digest no edit, half generation or build order shows a marker under a wrong
  name, and a violation's rule is right if the table was checked before the build;
  interleaved violations lose values but never mix them; a tick is one callback of the timer that is bound, from its start to
  its end, whichever timer that is;
* every press is told once and under its number unless the ring was overrun; an injection of
  two ticks is a press by the third, also when it falls between the tick's read
  and its count-down, and when another injection of two ticks or more follows. One of a
  single tick never registers as a press (the debounce needs two samples), and it may swallow the
  next one: the count-down it is read for ends at 0, over whatever was written since. The tool's
  default is three ticks;
* the act's segment counts no interval outside the act and prints a worst that is one,
  except for late records that overtake the reader in the ring, and for the open last bin;
* the live view has what a batch read has, and what a killed probe spoils is the next
  one's configuration line. (`read_events` sorts by the monotonic time, which restarts with the host; the
  model is of one boot.)

### Disagreements with the repository's comments

Two runs end in a counterexample to a sentence of the repository's own comments:

* `brake_at_latch`: a latch while the operator is braking starts the direct brake, and
  the ramp the operator then takes over, from the last autonomous command;
* `trace_takes`: the bind takes the last slot taken by any level, so a more urgent level
  between a take and its bind binds the wrong endpoint, for the rest of the boot.

Seven more are stated as definitions of the modules, which TLC refutes but no run checks:

* `EstablishedStays` (`MrmHandler`): the tick that leaves INIT reads the clock once to find the availability established
  (`mrm_handler_core.cpp:697`) and again to find it in time (`mrm_handler_core.cpp:811`); a sample that reaches the bound between
  the two times out on RUN's first tick, against `mrm_handler_core.cpp:676` (`FreshRun` says that nothing else does);
* `DueWithinTick` (`IslandSupervisor`): the time left of the executor's due is read without the lock and added to a later clock, so route
  1's timer is late by as long as the spin was held in between, against `island_supervisor.c:430` (`ExecutorJudged` has the bound that
  does hold);
* `TicksTrue` (`TraceSink`): the timer's bind has the shape of the take's. A more urgent callback that ends before the bind
  clears the last start; one that waits for a mutex does not, and its timer is bound in the
  operator's place, for the rest of the boot, against `docs/tracing.md:214`. The ticks are then whole ticks of the wrong timer (`TicksWhole`);
* `OlderLayoutTrue` (`BoardBench`): P9b put words into the level block, not at the record's end, so the decoder reads a record of
  phase 509 I1 with the wrong offsets from there on, against the comments that tell an older record by what is absent from its
  end (`violations.py:140`, 143, 150). `LayoutTrue` leaves such records out;
* `TakeoverEndsWithMrm` (`MrmHandler`): the takeover request outlives the start of an MRM when
  the operation mode left AUTONOMOUS in between, against `mrm_handler_core.hpp:211`;
* `BrakeBackWithinSpan` (`IslandSupervisor`): the operator reports before it publishes, so a tick that stops
  in between doubles the longest gap of the braking command, against `zephyr_entry/Kconfig:142`
  (`BrakeNeverSilent` has the bound that does hold);
* `ResumeHasResponseCheck` (`IslandSupervisor`): a resume that finds route 3 armed restarts the
  braking command without a response check, against `island_supervisor.h:56`.

Three more come from reading the code alone: route 2 stays armed under the emergency
stop when the cancel of the comfortable stop cannot be sent, against
`island_supervisor.h:39`; a tick that sees the loss at a standstill clears the due of
the reaction without calling the emergency operator, against the comment at
`mrm_handler_core.cpp:880` (the next tick calls it, which is what `LossAnswered` says); `island_supervisor.c:138` says
mrm_state stays MRM_OPERATING under a vehicle-side fault where the handler reports
MRM_FAILED (`mrm_handler_core.cpp:940`).

### Bounds

Times are in units of the handler's or the operator's period. A timeout is one to
three units, a period one or two, the jitter and the time between a tick's reads of the clock (`ReadLag`, in `handler_startup`) at most one: enough for a tick just
before, at and just after each bound, and for two ticks within a window. Two modes tell
AUTONOMOUS from what is not; the availability samples tell the mode's loss with
a comfortable stop, a pull over or neither on offer. The operators' statuses matter
to INIT only, so `handler_reaction` sends none; it also has one reading of the clock a tick, its properties being proved
for any `ReadLag`.

The supervisor's spans keep the order they have on the board (response span no longer
than the floor span, freshness no longer than both, the direct period no longer
than a resume span). Its two safety runs split the routes by what they share:
routes 0 to 2 judge reports of the island itself and need no vehicle (`MaxSpeed` 0), and a spin may be held for the whole
of `ExecSpan`, which is two units, so that a later take can be pending when the due of an earlier one comes; routes 3 and
4 judge the vehicle and need one (speeds 0 to 2, a drop of 1) and the operator's
slot, whose command is the brake. The response span is the shortest for which `NoFalseFault`
holds with that drop (`DropWithin` of the proofs, with equality), the floor's span one more than the shortest
for that speed (`StopWithin`), so that route 4 is due before route 3. `supervisor_live` gives the resume
two periods, so that a tick may be late without being taken back. A latch in one run has at least two possible
causes that race each other.

`brake_ramp` follows the latch for `Horizon` units: the ramp takes at most four, so the
run covers it whole, with a takeover and a resume at every point of it and a
stretch at full deceleration. The clamp equals the resume span, as on the board (100
and 99 ms).

`trace_window` has a wrap of three heartbeats (the board's is 43 of them), a `Pre` within it,
halves of two records and a buffer of about eight, so that within five markers and three
heartbeats the ring turns over, the buffer fills and the stamps wrap before, in and after the
window. `trace_names` needs three callbacks on two levels: one that is cut into, one that
cuts and one after. The rings of `board_bench` have one and two entries for the same reason; six
ticks make more presses than the ring has entries; two reads, two levels and two intervals put a store between any two
accesses. Its gaps, delays and durations are the board's, around the limits of `terms.py`
(1.5 periods, 50 ms, 500 ms).

Runs that are not about start-up begin in `Started` or `JustLatched`, states that the
program reaches and that the MC modules define. The views forget only what no later step
and no property reads.

### Fairness

Only `supervisor_live` needs any. The kernel's work (`Kernel`: the expired
timer, the reaction thread) is weakly fair because it has the highest priority;
the clock is strongly fair, since what stops it (an expired timeout) is removed by
the kernel again and again. No tick, odometry sample or answer is promised. That the
handler's waits end is stated as bounds (`InitBounded`, `TakeoverBounded`) which
hold without fairness, since the clock never passes a due timer by more than `MaxJitter`.

## Proofs

`MrmHandlerProofs` proves for every period, jitter, timeout, configuration flag and
sample set (`TimeAssumption`, `FlagAssumption`, `SampleAssumption`):

| theorem | states |
|---|---|
| `TypeCorrect` | `Spec => []TypeOK` |
| `StateAndBehaviorAgree` | `Spec => []StateBehavior` |
| `LossIsAnswered` | `Spec => []LossAnswered` |
| `ReportedOperatorRuns` | `Spec => []OperatorCalled` |
| `FloorIsSupervised` | `Spec => []FloorSupervised` |
| `EmergencyStopKept` | `Spec => NoDowngrade` |
| `HpcLossDueKept` | `Spec => HpcLossDischarged` |

They share the inductive invariant `IInv`: the types, the four invariants above and
`LossCarried`, which says that an input lost for exactly one tick is either answered
with the emergency stop or was met at a standstill (MRM_SUCCEEDED). Without it
`LossAnswered` is not inductive: a tick cannot know that the previous one left
the comfortable stop in a state it will take up. `OperatorCalled` and
`FloorSupervised` need `StateBehavior`, to exclude a behaviour without an operator.

The argument follows the tick. `DecisionEffect` splits `updateMrmState` into six cases;
`OperateEffect` reduces the eight outcomes of the sends to three (nothing sent,
fallen to the emergency stop, exchanged); `TickStep` combines the
two. Callbacks, clock and supervisor leave all but the types and the
hpc_loss due alone (`OtherParts`, `CallbackType`, `AdvanceType`).

`StopModeOperatorProofs` proves `ParkWatched`, `ParkReported` and `ParkEarned` for every
period, jitter, duration and timeout (`StopAssumption`). Its `ConditionInv` ties the condition's stamps to
the histories and adds the one fact about time: a last sample kept by the latest tick was younger
than the timeout then, so it is younger than the timeout plus the timer's age now.

The second part of `MrmHandlerProofs` proves what a clock decides. A property speaks of the worst jitter, which no
step preserves; `TInv` carries each bound between the ticks by the age of the timer instead (a tick of RUN that did not
see the stream lost ran `timerAge` ago, and so on), and a tick resets that age. The bounds of `LossIsSeen` and `InitIsBounded` include
`ReadLag`, the time that passes within a tick.

| theorem | states |
|---|---|
| `LossIsSeen` | `Spec => []LossSeen` |
| `InitIsBounded` | `Spec => []InitBounded` |
| `TakeoverIsBounded` | `Spec => [](TakeoverTimeout > 0 => TakeoverBounded)` |
| `RunIsFresh` | `Spec => FreshRun`, from the two stamps of a sample telling one age; the exception of the boundary is in `FreshRun` |
| `HoldingIsKept` | `Spec => HoldingKept` |

A takeover timeout of 0 still asks and waits for one tick, and `waited` counts from 1, so the bound is one more
there (TLC shows it); the handler's default is 10 s.

`IslandSupervisorProofs` holds for all spans, speeds, slots, causes and sets of routes the handler arms
(`SpanAssumption`, `InstanceAssumption`):

| theorem | states |
|---|---|
| `SupervisorTypes` | `Spec => []TypeOK` |
| `DuesAreCovered` | `Spec => []DuesCovered` |
| `CausesAreCovered` | `Spec => []CausesCovered` |
| `FloorIsStructured` | `Spec => []FloorStructure` |
| `ExecutorIsJudged` | `Spec => []ExecutorJudged` |

A pass of the reaction thread judges five routes one after the other on one table, so the invariant is stated of a
table (`Sound`) and every operation on tables, `arm`, `done`, each verdict, the re-arming, gets a lemma that it
keeps it; the pass is their composition. `IInv` adds what the properties leave out: a braking command with a
sample behind it was preceded by a report (`BrakeSeen`), a take at its deadline is late (`ExecLate`), what a spin has read is
no more than what is left of the take plus the time since (`SpinSound`, which gives the arming its bound), and every fired
route fired for its reason (`FiredSound`).

`IslandSupervisorDirectProofs` adds the direct path, under hypotheses on the constants that are part of the statements:

| theorem | states |
|---|---|
| `HandoverIsTimed` | `Spec => [](ResumeWithin => HandoverTimed)` |
| `BrakeIsNeverSilent` | `Spec => [](PeriodWithin => BrakeNeverSilent)` |
| `FaultIsEarned` | `StopWithin` and `DropWithin` imply `Spec => NoFalseFault` |

* `PeriodWithin` and `ResumeWithin`: the direct period is within the operator's resume span, and that within route 3's
  span. The boot configuration has 33, 99 and 4621 ms.
* `StopWithin` and `DropWithin`: at the least deceleration a vehicle that obeys is at rest, and has shed the drop, when the
  two dues come, although each sample may be `FreshSpan` old. `zephyr_entry/Kconfig:195` derives the drop from this
  margin. A span of one unit less than either blames a vehicle that obeys, as TLC shows.

`BrakeNeverSilent` is carried in two halves (`OwnedSilence`, `HandedSilence`): while the island publishes, the silence and what is
left of the period make one period; while the operator does, its last publish is that of its last report or the one
before it. The same invariant says until when the thread sleeps, which is what makes a
silent operator noticed. `NoFalseFault` is an action property; `FInv` ties the vehicle's speed to the age of the command
and to the reference of route 4 (`BrakeSlowed`, `Held`), and has to follow route 4 through every re-arming.

`EmergencyStopOperatorProofs` proves for every clamp, jerk, target, period and set of host commands:

| theorem | states |
|---|---|
| `OperatorTypes` | `Spec => []TypeOK` |
| `SlotHasOneSource` | `Spec => []OneSource` |
| `DirectBrakeNeverEases` | `Spec => DirectNeverEases` |
| `RampsAgree` | `Spec => SameRamp` |

`OneRamp` is the heart of it: under the latch the direct brake's last command, the command the operator continues and the one on the
wire all lie on the closed form of one ramp, at a time not after now, and exactly at now when every tick came in time. It needs the closed form to be what a
step of the ramp computes (`RampStep`) and to fall with time (`RampFalls`). `Turns` says whose turn it is and
`StraysSpent` that a stray has used up the one callback that could make it.

`TraceWindowProofs` holds for every record policy, ring, buffer, heartbeat period, wrap of more than two heartbeats and set of
markers (`WindowAssumption`, `PolicyAssumption`):

| theorem | states |
|---|---|
| `RearmIsFresh` | `Spec => []RearmFresh` |
| `SpansAreTrue` | `Spec => []SpansTrue` |
| `TimesAreTrue` | `Spec => []TimesTrue` |
| `PassIsComplete` | `Spec => []PassMeansComplete` |

`RearmIsFresh` speaks of sets of records: a marker, a heartbeat and a trigger leave only records that were there and new ones, whatever
the ring turns over, the trigger flushes or the buffer drops, and a re-arm leaves only new ones. The invariant is that a tool which polls a cleared word has a
fresh image (`SessionFresh`): an earlier session may have left a re-arm behind, which the count tells from the tool's own.

The other three share `WInv` (`WindowInvariant`), which says of the buffer and of the ring what holds of neighbours, since a property of the whole
sequence would not survive a turn of the ring: of two records of the path with none between, an EXIT follows its own ENTRY; of two
records kept, the second knows the time of the first; no two records of a segment are further apart than a heartbeat (`Linked`, and `LastIn` for the next
record to come). `RingSound` adds that the ring has all there was or a whole half of it, `OpenSound` and `BootSound` the shape of an opened window and of a trace
since boot. `SpansTrue` then follows record by record. For the times, a difference of two stamps taken as signed is the difference of the times when those are within half
a wrap (`SignedApart`), so what `load` adds up is off by one constant, a number of whole wraps, for all of a segment (`AnchorShift`), and the anchor takes that away.

`TraceSinkProofs` holds for every set of contracts, nano-ros revisions and levels and for a trace of any length:

| theorem | states |
|---|---|
| `NamesAreTrue` | `Spec => []NamesTrue` |
| `TicksAreWhole` | `Spec => [](IdsAgree => TicksWhole)` |
| `ViolationsAreTrue` | `Spec => [](IdsAgree => ViolationsTrue)` |
| `CheckedTrace` | `Spec => [](image.checked => TicksWhole /\ ViolationsTrue)` |

Its assumptions: the ids of a nano-ros revision are distinct, with or without the names of the takes (`PinAssumption`); a resolved contract
gives a table that is a sequence (`ContractAssumption`: the prover cannot see into the sort, TLC evaluates it); levels are positive (`LevelAssumption`).
`IdsAgree` says that the image's nano-ros numbers its events as the header does. It is a hypothesis because the digest does not cover it: it can fail for an image that was built against another
checkout without the check, and then the joins follow the wrong events (the revisions of `trace_names` differ in their rules and in whether they have the take events, not in these numbers). `CheckedTrace` needs
no such hypothesis: the build's check compares the numbers.

`NInv` says that a file is a whole table or missing and that what runs is some table's image, whoever was stopped or edited what in between, and that every record is a
marker of that table or an event of its nano-ros. For the ticks it does not matter which timer was bound, only that one is and stays so (`TimerSound`): there is no tick before the bind, and an open one is
always the last and of the callback that the bound timer is in (`TickSound`), since a level that waits starts no other; a callback that began before the bind
leaves an end without a start, which joins nothing. `ViolationSound` says that the violation being joined belongs to the most urgent callback that is writing one, and has no field that this callback
has yet to write. The joins are unrolled one record at a time: a fold over a longer log is one step after the fold over the log, which is proved by the
least counterexample, a well-founded order in place of the induction the provers lack.

`BoardBenchProofs`:

| theorem | states |
|---|---|
| `LinesImplementFeed` | `Spec => LinesAreFeed`, the refinement of `PressFeed` |
| `InjectionsPress` | `Spec => [](LongInjections => InjectPresses)` |
| `TailFollowsFile` | `Spec => []TailTrue` |
| `ViewIsTrue` | `Spec => []ViewTrue` |
| `SegmentIsTrue` | `Spec => []SegmentTrue` |
| `BudgetsAreTrue` | `Spec => [](OrdinaryAct => BudgetsTrue)` |
| `LayoutIsTrue` | `Spec => []LayoutTrue` |

* The buttons, for every size of the ring (`ButtonAssumption`). The refinement needs that the ring holds the last `ButtonRing` presses, the one whose count is still to be stored included
  (`RingHolds`), and that the reader is never ahead of the count, though the count moves between its two reads
  (`ReaderBehind`); every step is then one of the feed's or a stutter. `LongInjections` says that each injection lasts two
  ticks or more: TLC shows that one of a single tick may swallow the next.
* The event log, for every set of declared predicates that is finite (`DeclaredAssumption`). The tail is right because splitting a text in two
  polls gives what splitting it at once does (`ViewSound`, `PollReads`). For the view, `ProbeSound` says that what the probe knows is what the file says of it, once the lines
  it has yet to write are added; a line torn by a kill takes the next line with it, which is the configuration of the
  next probe and never a value.
* The spin diagnosis, for every ring, number of levels and bins (`SpinAssumption`). The act's figures are differences of two reads, each torn by whatever is filed meanwhile. `ImageSound` says
  that every word of the record counts the intervals filed so far, up to the one in progress; `ReadsSound` that each piece of a read counts at least
  what was filed before the read began and at most what was begun when it ended, and that no count falls between the two. What the row says then
  lies between the intervals filed between the reads and those that touch either (`CountDiff`), and for the worst, an interval in between is
  among the ring's late records (`RingAnswers`), or under the top of a bin that grew (`BinAnswers`), or under the maximum that moved.
* The act's terms, for every period, gap, duration and number of markers (`ActAssumption`), in an act that is ordinary, as the one of the run is (`OrdinaryAct`):
  its gaps, durations and delays are within the limits the tool has for them (one and a half periods, 50 ms, 500 ms). `ActInv` says that
  each tick comes a gap after the one before it, and the samples a `SampleGap` apart. A tick the trace left out makes the distance of its neighbours
  at least two periods, which the tool drops; so no term is widened by it, and each covers the ticks, calls and samples it is for (`TickCovers`, `WorkCovers`, `LimitHas`, `LinkCovers`).
* The supervisor's record, for every image (`ImageAssumption`) but those with the level block of phase 509 I1: any of the ten blocks' lengths, any number of routes and of level slots, of which no more are in use than there
  are. `RecordIs` says where each word of a record stands, block by block; `DecodeIs` at which offsets the decoder takes it, and `GotTold` that the two agree: at each offset there is the
  field's own part, or the record ends before. The state has no more to say than that the image read is one of `Images`.

Only model-checked: `FloorResolves`, the one liveness property. The prover has no fairness.

## Not modelled

* The comfortable operator: two states and a velocity limit; what could go wrong is between it
  and the handler, and waits for the composition below.
* The levels and the feeding of SWT0 (`island_supervisor_spin`, `spin_hook.c`), and the stop mode operator's
  steering sample.
* LED, assert record, lock probe, the host's simulated clock, the message packages and the
  configuration: they change no state of the island's logic.
* Of the tools: the drawing and printing, the parsing of their own command lines, nano-ros'
  violation record and its report (`violations.py`; its layout is that library's),
  the commands that write a debug word, the QEMU target, the scan for call sites.

## Plan

1. `SpinSupervision`: levels, check-ins, SWT0's feed and its two timeouts.
2. `Island`: handler, operators (the comfortable one with its velocity limit, which must
   not outlive its stop) and supervisor composed, and an abstract
   specification of the promise ("a fault in AUTONOMOUS control ends in a
   standstill or a latched output") that the composition implements, with the
   handler's answer to a persistent fault as a liveness property.
3. The verdicts over 32-bit words, against a reference that does not wrap.
