----------------------------- MODULE TraceSink -----------------------------
(***************************************************************************)
(* What nano-ros reports to the image's sink (src/safety_island_tracing/   *)
(* include/island_trace.h) and what the decoder joins it into              *)
(* (island_trace.py: join_violations, join_takes, timer_ticks), with the   *)
(* ids and names of a table from MarkerTable.                              *)
(*                                                                         *)
(* Every node has an executor thread, a level, with a priority of its own: *)
(* a more urgent level preempts the sink between any two of its stores,    *)
(* and lets a less urgent one on while its callback waits for a mutex.     *)
(* Only the write of a record is under irq_lock.  `log` is the RAM buffer  *)
(* with an open window.  A record is <<id, arg, truth>>: what it carries   *)
(* and, as a history, what it was emitted for.                             *)
(***************************************************************************)
EXTENDS MarkerTable

CONSTANTS
    Levels,         \* 1 .. n, a larger one more urgent
    Jobs,           \* what a level may do: "marker", "violation", "take", "timer"
    InputOf,        \* the forwarded input a level's node takes, by level
    TimerLevel,     \* the level whose timer is bound (ISLAND_TRACE_TIMER_BIND)
    Seconds,        \* the seconds of a source stamp
    MaxJobs         \* bound: callbacks and markers of a run

VARIABLES
    booted,         \* the image runs
    log,            \* the records in the buffer
    job,            \* by level: the callback under way, or None
    jobs,           \* callbacks begun and markers so far
    take_slot,      \* by input: the slot bound to it, or 0 (a slot is a level)
    take_n,         \* by input: takes since the last one forwarded
    take_sec,       \* by input: the last second written, or NoSec
    last_take, last_start, take_cur, timer_slot

ASSUME LevelAssumption == Levels \subseteq Nat \ {0}

sink == <<take_slot, take_n, take_sec, last_take, last_start, take_cur, timer_slot>>
vars == <<shop, booted, log, job, jobs, sink>>

NoSec == -1
Inputs == DOMAIN TakeInputs
Keep(i) == TakeInputs[i][2]

-----------------------------------------------------------------------------
(* Writing a record.                                                       *)

\* nano-ros emits its own id; the sink forwards the block of violations and
\* the ids of the header, each at NrosBase plus it.
NrosId(name) == image.pin.ids[name]
Reads(name) == {n \in NrosNames : image.header.nros.ids[n] = NrosId(name)}
Put(id, arg, truth) == log' = Append(log, [id |-> id, arg |-> arg, truth |-> truth])

\* The callback of level l goes on to its next step, or ends.
Goto(l, step) == job' = [job EXCEPT ![l].step = step]
End(l) == job' = [job EXCEPT ![l] = None]

\* A callback that waits for a mutex (its step 6), and a level that needs the
\* processor.
Waits(l) == job[l].ok /\ job[l].kind = "timer" /\ job[l].step = 6
Busy(l) == job[l].ok /\ ~Waits(l)

\* A level runs when no more urgent one needs the processor.
Runs(l) == booted /\ Busy(l) /\ \A k \in Levels : k > l => ~Busy(k)

Begin(l, kind, x) ==
    /\ booted /\ jobs < MaxJobs /\ kind \in Jobs
    /\ ~job[l].ok /\ \A k \in Levels : k > l => ~Busy(k)
    /\ job' = [job EXCEPT ![l] = [ok |-> TRUE, kind |-> kind, step |-> 1, x |-> x, no |-> jobs + 1]]
    /\ jobs' = jobs + 1
    /\ UNCHANGED <<shop, booted, log, sink>>

At(l, kind, step) == Runs(l) /\ job[l].kind = kind /\ job[l].step = step

\* An island marker, of any level and inside a callback or not: the call site
\* names the element, the header the id.
marker(m) ==
    /\ booted /\ jobs < MaxJobs /\ "marker" \in Jobs
    /\ Put(m, 0, [name |-> image.header.markers[m]])
    /\ jobs' = jobs + 1
    /\ UNCHANGED <<shop, booted, job, sink>>

\* A stored violation: four events in a row.  The args are its number and
\* rule, then its endpoint, measured and declared values, which here are its
\* number too: only whose they are is of interest.
violation(l) ==
    LET name == ViolationNames[job[l].step]
        truth == [no |-> job[l].no, rule |-> image.pin.rules[job[l].x], name |-> name]
    IN  /\ Runs(l) /\ job[l].kind = "violation"
        /\ IF Reads(name) \intersect ToSet(ViolationNames) # {}
           THEN Put(NrosBase + NrosId(name),
                    IF job[l].step = 1 THEN <<job[l].no, job[l].x>> ELSE job[l].no, truth)
           ELSE UNCHANGED log
        /\ IF job[l].step = Len(ViolationNames) THEN End(l) ELSE Goto(l, job[l].step + 1)
        /\ UNCHANGED <<shop, booted, jobs, sink>>

-----------------------------------------------------------------------------
(* A take: its event, its stamp in two events once the input is bound, and *)
(* the callback, which binds the input the first time.                     *)

Slot(l) == l
BoundTo(l) == {i \in Inputs : take_slot[i] = Slot(l)}
First(l) == CHOOSE i \in BoundTo(l) : \A j \in BoundTo(l) : i <= j

take1(l) ==
    /\ At(l, "take", 1)
    /\ last_take' = Slot(l)
    /\ \/ /\ BoundTo(l) = {}
          /\ take_cur' = 0 /\ UNCHANGED take_n /\ Goto(l, 6)
       \/ /\ BoundTo(l) # {} /\ take_n[First(l)] + 1 < Keep(First(l))
          /\ take_cur' = 0 /\ take_n' = [take_n EXCEPT ![First(l)] = @ + 1] /\ Goto(l, 3)
       \/ /\ BoundTo(l) # {} /\ take_n[First(l)] + 1 >= Keep(First(l))
          /\ take_cur' = First(l) /\ take_n' = [take_n EXCEPT ![First(l)] = 0] /\ Goto(l, 2)
    /\ UNCHANGED <<shop, booted, log, jobs, take_slot, take_sec, last_start, timer_slot>>

\* The record of the take; the input is a local of the sink.
take2(l) ==
    /\ At(l, "take", 2)
    /\ Put(NrosBase + NrosId("NROS_TAKE"),
           <<First(l), job[l].no>>,
           [level |-> l, no |-> job[l].no, sec |-> job[l].x])
    /\ Goto(l, 3)
    /\ UNCHANGED <<shop, booted, jobs, sink>>

take3(l) ==
    /\ At(l, "take", 3)
    /\ IF take_cur # 0 /\ take_sec[take_cur] # job[l].x
       THEN take_sec' = [take_sec EXCEPT ![take_cur] = job[l].x] /\ Goto(l, 4)
       ELSE UNCHANGED take_sec /\ Goto(l, 5)
    /\ UNCHANGED <<shop, booted, log, jobs, take_slot, take_n, last_take, last_start, take_cur, timer_slot>>

take4(l) ==
    /\ At(l, "take", 4)
    /\ Put(NrosBase + NrosId("NROS_TAKE_STAMP_SEC"), job[l].x, [no |-> job[l].no])
    /\ Goto(l, 5)
    /\ UNCHANGED <<shop, booted, jobs, sink>>

take5(l) ==
    /\ At(l, "take", 5)
    /\ IF take_cur # 0 THEN Put(NrosBase + NrosId("NROS_TAKE_STAMP_NSEC"), job[l].no, [no |-> job[l].no])
                       ELSE UNCHANGED log
    /\ take_cur' = 0
    /\ Goto(l, 6)
    /\ UNCHANGED <<shop, booted, jobs, take_slot, take_n, take_sec, last_take, last_start, timer_slot>>

\* Called first thing in the callback: the slot is the last one taken by any
\* level.
take_bind(l) ==
    LET i == InputOf[l]
    IN  /\ At(l, "take", 6)
        /\ IF i = 0 \/ take_slot[i] # 0 THEN UNCHANGED <<take_slot, take_n, take_sec>>
           ELSE /\ take_slot' = [take_slot EXCEPT ![i] = last_take]
                /\ take_n' = [take_n EXCEPT ![i] = Keep(i) - 1]
                /\ take_sec' = [take_sec EXCEPT ![i] = NoSec]
        /\ End(l)
        /\ UNCHANGED <<shop, booted, log, jobs, last_take, last_start, take_cur, timer_slot>>

-----------------------------------------------------------------------------
(* A timer's callback: its start, the binding first thing in it, what it   *)
(* then does, its end.                                                     *)

timer_start(l) ==
    /\ At(l, "timer", 1)
    /\ last_start' = Slot(l)
    /\ Goto(l, 2)
    /\ UNCHANGED <<shop, booted, log, jobs, take_slot, take_n, take_sec, last_take, take_cur, timer_slot>>

\* The bound timer's start and end are forwarded.
timer_put(l, step, name) ==
    /\ At(l, "timer", step)
    /\ IF timer_slot = Slot(l)
       THEN Put(NrosBase + NrosId(name), Slot(l), [no |-> job[l].no, level |-> l])
       ELSE UNCHANGED log
    /\ IF step = 2 THEN Goto(l, 3) ELSE End(l)
    /\ UNCHANGED <<shop, booted, jobs, sink>>

\* Mutant: every tick binds.
timer_rebind(l) ==
    /\ At(l, "timer", 3)
    /\ timer_slot' = IF l = TimerLevel /\ last_start # 0 THEN last_start ELSE timer_slot
    /\ Goto(l, 4)
    /\ UNCHANGED <<shop, booted, log, jobs, take_slot, take_n, take_sec, last_take, last_start, take_cur>>

\* The slot is the last one started by any level and not ended by any since.
timer_bind(l) ==
    /\ At(l, "timer", 3)
    /\ timer_slot' = IF l = TimerLevel /\ timer_slot = 0 THEN last_start ELSE timer_slot
    /\ Goto(l, 4)
    /\ UNCHANGED <<shop, booted, log, jobs, take_slot, take_n, take_sec, last_take, last_start, take_cur>>

\* A callback publishes and calls: it waits for the transport's or the
\* executor's mutex, and gets it.
timer_wait(l) ==
    /\ At(l, "timer", 4)
    /\ Goto(l, 6)
    /\ UNCHANGED <<shop, booted, log, jobs, sink>>

timer_wake(l) ==
    /\ booted /\ Waits(l)
    /\ Goto(l, 4)
    /\ UNCHANGED <<shop, booted, log, jobs, sink>>

timer_end(l) ==
    /\ At(l, "timer", 4)
    /\ last_start' = 0
    /\ Goto(l, 5)
    /\ UNCHANGED <<shop, booted, log, jobs, take_slot, take_n, take_sec, last_take, take_cur, timer_slot>>

-----------------------------------------------------------------------------
\* The image is flashed and run; a trace of another digest is refused by the
\* decoder and is not followed.
Boot ==
    /\ ~booted /\ provenanceOk
    /\ booted' = TRUE
    /\ UNCHANGED <<shop, log, job, jobs, sink>>

Init ==
    /\ ShopInit
    /\ booted = FALSE /\ log = <<>> /\ job = [l \in Levels |-> None] /\ jobs = 0
    /\ take_slot = [i \in Inputs |-> 0] /\ take_n = [i \in Inputs |-> 0]
    /\ take_sec = [i \in Inputs |-> NoSec]
    /\ last_take = 0 /\ last_start = 0 /\ take_cur = 0 /\ timer_slot = 0

Step(l) ==
    \/ \E r \in DOMAIN image.pin.rules : Begin(l, "violation", r)
    \/ "NROS_TAKE" \in DOMAIN image.pin.ids /\ \E s \in Seconds : Begin(l, "take", s)
    \/ Begin(l, "timer", 0)
    \/ violation(l)
    \/ take1(l) \/ take2(l) \/ take3(l) \/ take4(l) \/ take5(l) \/ take_bind(l)
    \/ timer_start(l) \/ timer_put(l, 2, "NROS_TIMER_START") \/ timer_bind(l)
    \/ timer_wait(l) \/ timer_wake(l)
    \/ timer_end(l) \/ timer_put(l, 5, "NROS_TIMER_END")

Next ==
    \/ ~booted /\ ShopNext /\ UNCHANGED <<booted, log, job, jobs, sink>>
    \/ Boot
    \/ booted /\ \E m \in DOMAIN image.header.markers : marker(m)
    \/ booted /\ \E l \in Levels : Step(l)

Spec == Init /\ [][Next]_vars

-----------------------------------------------------------------------------
(* The decoder, with the table at hand.                                    *)

\* The records of the log in order, from `base`.
Scan(Op(_, _), base) ==
    LET upto[i \in 0 .. Len(log)] ==
          IF i = 0 THEN base ELSE LET s == upto[i - 1] IN Op(s, log[i])
    IN  upto[Len(log)]

\* The function f with v for k.
With(f, k, v) == [x \in DOMAIN f \union {k} |-> IF x = k THEN v ELSE f[x]]

\* The name of an id that is no island marker: a forwarded event, or unknown.
NameOf(id) ==
    LET named == {n \in NrosNames : NrosBase + table.nros.ids[n] = id}
    IN  IF named = {} THEN "UNKNOWN" ELSE CHOOSE n \in named : TRUE

rule_name(code) == IF code \in DOMAIN table.nros.rules THEN table.nros.rules[code] ELSE "rule#"

\* Mutant: a value is joined to the last violation, closed or not.
JoinViolationLoose(s, r) ==
    LET n == NameOf(r.id)
    IN  IF n = ViolationNames[1]
        THEN [out |-> Append(s.out, [no |-> r.arg[1], rule |-> rule_name(r.arg[2]), truth |-> r.truth,
                                     fields |-> <<>>]),
              open |-> TRUE]
        ELSE IF s.out # <<>> /\ n \in ToSet(Tail(ViolationNames))
        THEN [out |-> [s.out EXCEPT ![Len(s.out)].fields = With(@, n, r.arg)], open |-> TRUE]
        ELSE s

\* join_violations: a head opens one, its three values follow, the last
\* closes it; a value with none open, or one it has, is dropped.
JoinViolation(s, r) ==
    LET n == NameOf(r.id)
    IN  IF n = ViolationNames[1]
        THEN [out |-> Append(s.out, [no |-> r.arg[1], rule |-> rule_name(r.arg[2]), truth |-> r.truth,
                                     fields |-> <<>>]),
              open |-> TRUE]
        ELSE IF s.open /\ n \in ToSet(Tail(ViolationNames)) /\ n \notin DOMAIN s.out[Len(s.out)].fields
        THEN [out |-> [s.out EXCEPT ![Len(s.out)].fields = With(@, n, r.arg)],
              open |-> n # ViolationNames[4]]
        ELSE s

join_violations == Scan(JoinViolation, [out |-> <<>>, open |-> FALSE]).out

\* join_takes: a take, its second when it changed, its nanoseconds.
JoinTake(s, r) ==
    LET n == NameOf(r.id)
        cur == s.out[Len(s.out)]
    IN  CASE n = "NROS_TAKE" ->
               [s EXCEPT !.out = Append(@, [input |-> r.arg[1], stamp |-> <<>>, truth |-> r.truth]),
                         !.open = TRUE]
          [] n = "NROS_TAKE_STAMP_SEC" /\ s.open -> [s EXCEPT !.sec[cur.input] = r.arg]
          [] n = "NROS_TAKE_STAMP_NSEC" /\ s.open ->
               [s EXCEPT !.open = FALSE,
                         !.out[Len(s.out)].stamp =
                            IF s.sec[cur.input] = NoSec THEN <<>> ELSE <<s.sec[cur.input], r.arg>>]
          [] OTHER -> s

join_takes == Scan(JoinTake, [out |-> <<>>, open |-> FALSE, sec |-> [i \in Inputs |-> NoSec]]).out

\* timer_ticks: starts with the end that follows, if one does before the next.
TimerTick(out, r) ==
    CASE NameOf(r.id) = "NROS_TIMER_START" -> Append(out, [start |-> r.truth, end |-> None])
      [] NameOf(r.id) = "NROS_TIMER_END" /\ out # <<>> /\ out[Len(out)].end = None ->
            [out EXCEPT ![Len(out)].end = r.truth]
      [] OTHER -> out

timer_ticks == Scan(TimerTick, <<>>)

-----------------------------------------------------------------------------
(* Properties.                                                             *)

\* In a trace whose provenance the decoder accepts, every island marker is
\* shown under the name and the element its call site was compiled for,
\* whatever was edited, generated by half or built in between.
NamesTrue ==
    booted => \A i \in DOMAIN log :
                 log[i].id < NrosBase => /\ log[i].id \in DOMAIN table.markers
                                         /\ table.markers[log[i].id] = log[i].truth.name

\* A joined violation mixes no two: its values are the ones stored with its
\* head, though a more urgent level may store another between any two of
\* them.  When the table was checked before the build, its rule is the one
\* nano-ros judged.
ViolationsTrue ==
    booted =>
        \A k \in DOMAIN join_violations :
            LET v == join_violations[k]
            IN  /\ \A f \in DOMAIN v.fields : v.fields[f] = v.no
                /\ image.checked => v.rule = v.truth.rule

\* A tick is one callback of one timer, the one that was bound, from its start
\* to its end, and no callback of it is left without its end but the one under
\* way: whichever timer was bound and wherever in its callback, and whatever
\* preempts it or goes on while it waits.
TicksWhole ==
    booted =>
        \A k \in DOMAIN timer_ticks :
            LET t == timer_ticks[k]
            IN  /\ t.start.level = timer_slot
                /\ \/ t.end = t.start
                   \/ /\ t.end = None /\ k = Len(timer_ticks)
                      /\ job[timer_slot].ok /\ job[timer_slot].no = t.start.no

\* The bound timer is the one whose callback bound it.
TicksTrue ==
    booted => \A k \in DOMAIN timer_ticks : timer_ticks[k].start.level = TimerLevel

\* A take is reported under the endpoint it was a take of, with the stamp of
\* its sample.
TakesTrue ==
    booted =>
        \A k \in DOMAIN join_takes :
            LET t == join_takes[k]
            IN  /\ t.input = InputOf[t.truth.level]
                /\ t.stamp # <<>> => t.stamp = <<t.truth.sec, t.truth.no>>
=============================================================================
