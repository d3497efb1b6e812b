---------------------------- MODULE TraceWindow ----------------------------
(***************************************************************************)
(* The image's trace window and the tool that re-arms and reads it         *)
(* (src/safety_island_tracing/include/island_trace.h, tools/board/         *)
(* readout.py), decoded by TraceDecoder.                                   *)
(*                                                                         *)
(* Before the trigger, markers and heartbeats go to a ring of two halves;  *)
(* the trigger flushes the last Pre of it to the RAM buffer and everything *)
(* after goes there directly.  A marker, a heartbeat and a re-arm each     *)
(* run under irq_lock and are one action.  The tool reads and writes       *)
(* words of a running core, so each access is a step of its own; a full    *)
(* read halts the core and takes its words and its buffer at one instant,  *)
(* so every state's dump is one it may take.                               *)
(***************************************************************************)
EXTENDS TraceDecoder, FiniteSets, SequencesExt

CONSTANTS
    Policy,             \* ISLAND_TRACE_POLICY_TABLE, by marker id
    TriggerMarker, ArmMarker, NrosViolation,
    Emits,              \* the markers the components emit, with their args
    HbPeriod,           \* ISLAND_TRACE_HEARTBEAT_MS
    Pre,                \* CONFIG_ISLAND_TRACE_PRE_MS
    Half,               \* ISLAND_TRACE_HALF, bytes
    Capacity,           \* CONFIG_RAM_TRACING_BUFFER_SIZE, bytes
    ProvenanceLen,      \* the provenance record, bytes
    SpinKeep,           \* CONFIG_ISLAND_TRACE_SPIN_KEEP
    MaxTime,            \* bound: the clock
    MaxEvents           \* bound: markers and debugger sessions together

\* A half has room for a heartbeat, as the code insists (a ring of 64 bytes).
ASSUME WindowAssumption ==
    /\ HbPeriod \in Nat \ {0} /\ Wrap \in Nat /\ 2 * HbPeriod < Wrap
    /\ Pre \in Nat /\ ReportSpan \in Nat /\ Pre <= ReportSpan
    /\ Half \in Nat /\ Half >= 14 /\ ProvenanceLen \in Nat /\ SpinKeep \in Nat \ {0}

VARIABLES
    windowed,   \* the build: window=trigger or window=boot
    now,        \* the island clock, before the stamp's wrap
    nextBeat,   \* when the heartbeat timer is due
    hb_seq,     \* island_trace_hb_seq
    ram,        \* the RAM backend: its records and its full flag
    ring,       \* the pre-trigger ring: the older half and the current one
    policy,     \* seen, last_arg, skip and spins, by marker id
    flags,      \* armed, reopen, triggered
    counts,     \* filtered, pre_n, pre_lost
    rearm,      \* island_trace_rearm, the word the tool writes
    rearms,     \* island_trace_rearms
    tool,       \* the re-arm tool: its state, the count it read, ...
    halted,     \* the core is halted by a debugger
    inPath,     \* the traced path is running (its ENTRY was emitted)
    runs,       \* history: executions of the path
    events,     \* markers and debugger sessions so far
    emitted,    \* history: records kept so far
    lastAt      \* history: when the last one was, since boot or the re-arm

image == <<hb_seq, ram, ring, policy, flags, counts, rearm, rearms>>
history == <<runs, emitted, lastAt>>
vars == <<windowed, now, nextBeat, image, tool, halted, inPath, events, history>>

EVERY == 0
CHANGE == 1
SPIN_ENTRY == 2
SPIN_EXIT == 3

MarkerCount == Len(Policy)
Entry == CHOOSE m \in 1 .. MarkerCount : Policy[m] = SPIN_ENTRY
Exit == Entry + 1

\* The table has a timer path, and numbers its EXIT right after its ENTRY.
ASSUME PolicyAssumption ==
    /\ Policy \in Seq({EVERY, CHANGE, SPIN_ENTRY, SPIN_EXIT})
    /\ \E m \in 1 .. MarkerCount : Policy[m] = SPIN_ENTRY
    /\ \A m \in 1 .. MarkerCount :
          Policy[m] = SPIN_ENTRY => m < MarkerCount /\ Policy[m + 1] = SPIN_EXIT
Never == -1

Stamp == now % Wrap

-----------------------------------------------------------------------------
(* Records and the two stores.                                             *)

Marker(m, arg, run) ==
    [kind |-> "marker", ts |-> Stamp, marker |-> m, arg |-> arg,
     at |-> now, n |-> emitted + 1, after |-> lastAt, run |-> run]
Heartbeat ==
    [kind |-> "heartbeat", ts |-> Stamp, seq |-> hb_seq, uptime |-> now,
     at |-> now, n |-> emitted + 1, after |-> lastAt]
Provenance ==
    [kind |-> "provenance", ts |-> Stamp, sha |-> TableSha, windowed |-> windowed, at |-> now]

RecLen(r) ==
    CASE r.kind = "marker" -> 12 [] r.kind = "heartbeat" -> 14
      [] r.kind = "trigger" -> 22 [] OTHER -> ProvenanceLen
Bytes(recs) ==
    LET sum[i \in 0 .. Len(recs)] == IF i = 0 THEN 0 ELSE sum[i - 1] + RecLen(recs[i])
    IN  sum[Len(recs)]

\* The RAM backend (Zephyr): a write that does not fit ends the recording.
ramWrite(store, recs) ==
    IF store.full \/ Bytes(store.recs) + Bytes(recs) > Capacity
    THEN [store EXCEPT !.full = TRUE]
    ELSE [store EXCEPT !.recs = @ \o recs]
ramInit == [recs |-> <<>>, full |-> FALSE]

\* island_trace_pre_put: a full half gives way to the other one, cleared.
pre_put(halves, r) ==
    IF Bytes(halves.cur) + RecLen(r) > Half
    THEN [old |-> halves.cur, cur |-> <<r>>]
    ELSE [halves EXCEPT !.cur = Append(@, r)]
emptyRing == [old |-> <<>>, cur |-> <<>>]

-----------------------------------------------------------------------------
(* The record policy, island_trace_keep: the verdict and the new state.    *)

clearPolicy ==
    [seen |-> [m \in 1 .. MarkerCount |-> FALSE], last |-> [m \in 1 .. MarkerCount |-> 0],
     skip |-> [m \in 1 .. MarkerCount |-> FALSE], spins |-> [m \in 1 .. MarkerCount |-> 0]]

keeps(p, m, arg) ==
    \/ m > MarkerCount
    \/ Policy[m] = EVERY
    \/ Policy[m] = CHANGE /\ ~(p.seen[m] /\ p.last[m] = arg)
    \/ Policy[m] = SPIN_ENTRY /\ (~p.seen[m] \/ p.last[m] # arg \/ p.spins[m] + 1 >= SpinKeep)
    \/ Policy[m] = SPIN_EXIT /\ ~p.skip[m - 1]

keepState(p, m, arg) ==
    IF m > MarkerCount \/ Policy[m] \notin {CHANGE, SPIN_ENTRY} THEN p
    ELSE LET noted == [p EXCEPT !.seen[m] = TRUE, !.last[m] = arg]
         IN  IF Policy[m] = CHANGE THEN noted
             ELSE [noted EXCEPT !.skip[m] = ~keeps(p, m, arg),
                                !.spins[m] = IF keeps(p, m, arg) THEN 0 ELSE @ + 1]

-----------------------------------------------------------------------------
(* The trigger.                                                            *)

\* Time since the ring's oldest record, from the stamps alone: consecutive
\* ones are less than a wrap apart.
RelTimes(recs) ==
    LET rel[i \in DOMAIN recs] ==
          IF i = 1 THEN 0 ELSE rel[i - 1] + ((recs[i].ts - recs[i - 1].ts) % Wrap)
    IN  rel

\* What fire writes of each half: from its first record of the last Pre on.
flush ==
    LET all == ring.old \o ring.cur
        rel == RelTimes(all)
        nowRel == rel[Len(all)] + ((Stamp - all[Len(all)].ts) % Wrap)
        In(i) == nowRel - rel[i] <= Pre
        From(lo, hi) == LET in == {i \in lo .. hi : In(i)}
                        IN  IF in = {} THEN <<>>
                            ELSE SubSeq(all, Min(in), hi)
    IN  IF all = <<>> THEN << <<>>, <<>> >>
        ELSE <<From(1, Len(ring.old)), From(Len(ring.old) + 1, Len(all))>>

kept == Len(flush[1]) + Len(flush[2])

Trigger(m) ==
    [kind |-> "trigger", ts |-> Stamp, marker |-> m, pre_kept |-> kept,
     pre_lost |-> counts.pre_n - kept, filtered |-> counts.filtered, at |-> now]

fireRam(m) ==
    LET one == IF flush[1] = <<>> THEN ram ELSE ramWrite(ram, flush[1])
        two == IF flush[2] = <<>> THEN one ELSE ramWrite(one, flush[2])
    IN  ramWrite(two, <<Trigger(m)>>)

\* Mutant: the skip of an EXIT is forgotten with the rest.
firePolicyAll == clearPolicy
firePolicy ==
    [policy EXCEPT !.seen = clearPolicy.seen, !.spins = clearPolicy.spins]

\* A window that opens: armed and the detector ran, a re-armed one at the
\* first guarded take, or a contract violation.
Fires(m) ==
    /\ windowed /\ ~flags.triggered
    /\ \/ flags.armed /\ m = TriggerMarker
       \/ flags.reopen /\ m = ArmMarker
       \/ m = NrosViolation

\* island_trace_marker_windowed; with window=boot every marker is written.
marker_windowed(m, arg, run) ==
    LET fires == Fires(m)
        p == IF fires THEN firePolicy ELSE policy
        open == flags.triggered \/ fires
        keep == keeps(p, m, arg)
        r == Marker(m, arg, run)
        store == IF fires THEN fireRam(m) ELSE ram
    IN  /\ IF ~windowed
           THEN /\ ram' = ramWrite(ram, <<r>>)
                /\ UNCHANGED <<ring, policy, flags, counts>>
           ELSE /\ flags' = [flags EXCEPT !.triggered = open,
                                          !.armed = @ \/ (~flags.triggered /\ m = ArmMarker /\ arg # 0)]
                /\ policy' = keepState(p, m, arg)
                /\ ram' = IF keep /\ open THEN ramWrite(store, <<r>>) ELSE store
                /\ ring' = IF keep /\ ~open THEN pre_put(ring, r) ELSE ring
                /\ counts' = [filtered |-> counts.filtered + (IF keep THEN 0 ELSE 1),
                              pre_n |-> counts.pre_n + (IF keep /\ ~open THEN 1 ELSE 0),
                              pre_lost |-> IF fires THEN counts.pre_n - kept ELSE counts.pre_lost]
        /\ emitted' = IF keep \/ ~windowed THEN emitted + 1 ELSE emitted
        /\ lastAt' = IF keep \/ ~windowed THEN now ELSE lastAt
        /\ UNCHANGED <<hb_seq, rearm, rearms>>

Trace(m, arg) ==
    /\ ~halted /\ now < nextBeat /\ events < MaxEvents /\ events' = events + 1
    /\ IF m = Entry THEN ~inPath ELSE m = Exit => inPath
    /\ inPath' = IF m \in {Entry, Exit} THEN m = Entry ELSE inPath
    /\ runs' = IF m = Entry THEN runs + 1 ELSE runs
    /\ marker_windowed(m, arg, runs')
    /\ UNCHANGED <<windowed, now, nextBeat, tool, halted>>

-----------------------------------------------------------------------------
(* The heartbeat, and the re-arm it carries out.                           *)

\* Mutant: the re-arm leaves the ring as it is.
rearmRingKept == ring
rearmRing == emptyRing

heartbeat ==
    LET again == windowed /\ rearm # 0
        r == IF again THEN [Heartbeat EXCEPT !.after = Never] ELSE Heartbeat
        store == IF again THEN ramWrite(ramInit, <<Provenance>>) ELSE ram
        toRing == windowed /\ (again \/ ~flags.triggered)
    IN  /\ ~halted /\ now >= nextBeat
        /\ nextBeat' = nextBeat + HbPeriod
        /\ hb_seq' = hb_seq + 1
        /\ ram' = IF toRing THEN store ELSE ramWrite(store, <<r>>)
        /\ ring' = IF toRing THEN pre_put(IF again THEN rearmRing ELSE ring, r) ELSE ring
        /\ policy' = IF again THEN clearPolicy ELSE policy
        /\ flags' = IF again THEN [armed |-> FALSE, reopen |-> TRUE, triggered |-> FALSE] ELSE flags
        /\ counts' = IF again THEN [filtered |-> 0, pre_n |-> 1, pre_lost |-> 0]
                     ELSE [counts EXCEPT !.pre_n = @ + (IF toRing THEN 1 ELSE 0)]
        /\ rearms' = IF again THEN rearms + 1 ELSE rearms
        /\ rearm' = 0
        /\ emitted' = emitted + 1 /\ lastAt' = now
        /\ UNCHANGED <<windowed, now, tool, halted, inPath, events, runs>>

\* The clock; a due timer interrupts before anything else runs.
Advance ==
    /\ ~halted /\ now < nextBeat /\ now < MaxTime
    /\ now' = now + 1
    /\ UNCHANGED <<windowed, nextBeat, image, tool, halted, inPath, events, history>>

-----------------------------------------------------------------------------
(* The tool: readout.py --rearm-only, and the halted full read.            *)

\* No session, or one that has ended: cancelled, failed or a full read.
idle == [pc |-> "idle", before |-> 0, at |-> 0]

rearmAttach ==
    /\ tool.pc \in {"idle", "ok"} /\ windowed
    /\ events < MaxEvents /\ events' = events + 1
    /\ tool' = [idle EXCEPT !.pc = "ready", !.before = rearms]
    /\ UNCHANGED <<windowed, now, nextBeat, image, halted, inPath, history>>

\* --wait-go: a line on stdin lets it write; the end of stdin cancels.
rearmCancel ==
    /\ tool.pc = "ready" /\ tool' = idle
    /\ UNCHANGED <<windowed, now, nextBeat, image, halted, inPath, events, history>>

rearmWrite ==
    /\ tool.pc = "ready"
    /\ rearm' = 1
    /\ tool' = [tool EXCEPT !.pc = "polling", !.at = now]
    /\ UNCHANGED <<windowed, now, nextBeat, hb_seq, ram, ring, policy, flags, counts, rearms,
                   halted, inPath, events, history>>

rearmPoll ==
    /\ tool.pc = "polling" /\ rearm = 0
    /\ tool' = IF rearms = tool.before + 1 THEN [tool EXCEPT !.pc = "ok"] ELSE idle
    /\ UNCHANGED <<windowed, now, nextBeat, image, halted, inPath, events, history>>

\* Two seconds without an acknowledgement: only a halted core is that late.
rearmTimeout ==
    /\ tool.pc = "polling" /\ rearm # 0 /\ halted
    /\ tool' = idle
    /\ UNCHANGED <<windowed, now, nextBeat, image, halted, inPath, events, history>>

\* The full read; --no-resume leaves the core halted.  The probe serves one
\* session at a time.
readout(no_resume) ==
    /\ tool.pc \in {"idle", "ok"} /\ halted # no_resume
    /\ events < MaxEvents /\ events' = events + 1
    /\ halted' = no_resume
    /\ UNCHANGED <<windowed, now, nextBeat, image, tool, inPath, history>>

-----------------------------------------------------------------------------
Init ==
    /\ windowed \in BOOLEAN
    /\ now = 0 /\ nextBeat = HbPeriod /\ hb_seq = 0
    /\ ram = [recs |-> <<Provenance>>, full |-> FALSE] /\ ring = emptyRing
    /\ policy = clearPolicy
    /\ flags = [armed |-> FALSE, reopen |-> FALSE, triggered |-> FALSE]
    /\ counts = [filtered |-> 0, pre_n |-> 0, pre_lost |-> 0]
    /\ rearm = 0 /\ rearms = 0 /\ tool = idle /\ halted = FALSE
    /\ inPath = FALSE /\ events = 0 /\ runs = 0 /\ emitted = 0 /\ lastAt = Never

Next ==
    \/ \E e \in Emits : Trace(e[1], e[2])
    \/ heartbeat
    \/ Advance
    \/ rearmAttach \/ rearmCancel \/ rearmWrite \/ rearmPoll \/ rearmTimeout
    \/ \E no_resume \in BOOLEAN : readout(no_resume)

Spec == Init /\ [][Next]_vars

-----------------------------------------------------------------------------
(* Properties.                                                             *)

\* The trace a full read would decode now.
Decoded == load([buf |-> ram.recs, emitted |-> hb_seq])
EventsOf(tr) == {i \in DOMAIN tr.recs : tr.recs[i].kind \in Events}

\* A trace that passes the check shows every record at the time it was made,
\* whatever the stamp's wraps before and in the window, and as much history
\* before the trigger as the image flushed (load, window_stats).
TimesTrue ==
    LET tr == Decoded
    IN  check(tr) =>
            /\ \A i \in EventsOf(tr) : tr.t[i] = tr.recs[i].at
            /\ windowed => Cardinality(pre(tr)) = tr.recs[triggerAt(tr)].pre_kept

\* A trace that passes the check has every record the policy kept, from the
\* first one of the history to the last heartbeat emitted.  The history
\* reaches back Pre, or to the re-arm, or at least a half of the ring.
PassMeansComplete ==
    LET tr == Decoded
        index == {tr.recs[i].n : i \in EventsOf(tr)}
        ti == triggerAt(tr)
        lo == Min(EventsOf(tr))
        first == tr.recs[lo]
    IN  check(tr) =>
            /\ \A x \in index : x = first.n \/ x - 1 \in index
            /\ \E i \in EventsOf(tr) : tr.recs[i].kind = "heartbeat" /\ tr.recs[i].seq + 1 = hb_seq
            /\ IF ~windowed THEN first.n = 1
               ELSE \/ first.after = Never
                    \/ tr.recs[ti].at - first.after > Pre
                    \/ Bytes(SubSeq(tr.recs, lo, ti - 1)) + 14 > Half

\* Once the tool has reported a re-arm, neither the buffer nor the ring holds
\* a record from before its write, and the window it re-armed is the last.
RearmFresh ==
    tool.pc = "ok" =>
        /\ rearms = tool.before + 1
        /\ \A r \in ToSet(ram.recs \o ring.old \o ring.cur) : r.at >= tool.at

\* A span of the traced path is one execution, and an EXIT that ends no span
\* is the path's first record: the record policy, the ring and the trigger
\* drop an ENTRY and its EXIT together, or the ENTRY alone at the front.
SpansTrue ==
    LET tr == Decoded
        spans == Spans(tr, Entry, Exit)
        OnPath(i) == tr.recs[i].kind = "marker" /\ tr.recs[i].marker \in {Entry, Exit}
    IN  /\ \A s \in spans : tr.recs[s[1]].run = tr.recs[s[2]].run
        /\ \A j \in DOMAIN tr.recs :
              OnPath(j) /\ tr.recs[j].marker = Exit =>
                  (\E s \in spans : s[2] = j) \/ (\A i \in 1 .. j - 1 : ~OnPath(i))
=============================================================================
