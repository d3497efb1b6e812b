---------------------------- MODULE TraceDecoder ----------------------------
(***************************************************************************)
(* The host's decoder of a trace dump (src/safety_island_tracing/          *)
(* island_trace.py): load, the window's figures, the check and the joins.  *)
(*                                                                         *)
(* A dump is [buf, emitted]: the records of the RAM buffer, in the order   *)
(* written, and the heartbeat counter read beside it.  A record carries    *)
(* ts, its stamp modulo Wrap.  Trailing zeros that the dump trims are put  *)
(* back by load and reach no record's id, so a record is never cut.        *)
(* Fields the code has no bytes for (at, n, run...) are histories the      *)
(* properties of the other modules compare the decoded trace with.         *)
(***************************************************************************)
EXTENDS Integers, Sequences, FiniteSetsExt

CONSTANTS
    Wrap,           \* 2^32 ns, in units of the model's time
    TableSha,       \* table_sha256 of the markers.json the decoder reads
    TableIds,       \* the ids markers.json knows
    Required,       \* of these, the island's own not excused by unreachable.yaml
    ReportSpan      \* the 2.1 s of window_stats

\* The signed modular difference of two stamps.
SignedDiff(d) == LET u == d % Wrap IN IF 2 * u >= Wrap THEN u - Wrap ELSE u

\* round(a / Wrap).
RoundWraps(a) == (2 * a + Wrap) \div (2 * Wrap)

\* A provenance of a trigger window starts a new segment.
Opens(r) == r.kind = "provenance" /\ r.windowed

\* The records' times before the anchor: each follows the previous one's.
Times(buf) ==
    LET ext[i \in DOMAIN buf] ==
          IF i = 1 \/ Opens(buf[i - 1]) THEN buf[i].ts
          ELSE ext[i - 1] + SignedDiff(buf[i].ts - buf[i - 1].ts)
    IN  ext

\* The record that opens the last segment, or 0.
Segment(buf) == LET opens == {i \in DOMAIN buf : Opens(buf[i])} IN IF opens = {} THEN 0 ELSE Max(opens)

\* Mutant: the segment is not anchored on a heartbeat's uptime.
AnchorNone(buf, seg, t) == t

\* The segment after a provenance has stamps of an unknown multiple of Wrap;
\* its first heartbeat's uptime says which.
Anchor(buf, seg, t) ==
    LET beats == {i \in DOMAIN buf : i > seg /\ buf[i].kind = "heartbeat"}
        k == RoundWraps(buf[Min(beats)].uptime - t[Min(beats)])
    IN  IF seg = 0 \/ beats = {} THEN t
        ELSE [i \in DOMAIN t |-> IF i > seg THEN t[i] + k * Wrap ELSE t[i]]

\* The decoded trace: the records, their times, the header's counter.
load(dump) ==
    [recs |-> dump.buf, t |-> Anchor(dump.buf, Segment(dump.buf), Times(dump.buf)),
     emitted |-> dump.emitted]

\* Where a trace has the records of a kind.
Of(tr, kind) == {i \in DOMAIN tr.recs : tr.recs[i].kind = kind}
Events == {"marker", "heartbeat"}

\* window_stats: where the trigger is, the history before it, what follows.
triggerAt(tr) == IF Of(tr, "trigger") = {} THEN 0 ELSE Min(Of(tr, "trigger"))
pre(tr) ==
    LET ti == triggerAt(tr)
    IN  {i \in 1 .. ti - 1 : /\ tr.recs[i].kind \in Events
                             /\ tr.t[i] <= tr.t[ti] /\ tr.t[i] >= tr.t[ti] - ReportSpan}
post(tr) == {i \in triggerAt(tr) + 1 .. Len(tr.recs) : tr.recs[i].kind \in Events}

provenance(tr) == tr.recs[Min(Of(tr, "provenance"))]
Windowed(tr) == Of(tr, "provenance") # {} /\ provenance(tr).windowed
provenanceOk(tr) == Of(tr, "provenance") # {} /\ provenance(tr).sha = TableSha

markersOk(tr) ==
    LET seen == {tr.recs[i].marker : i \in Of(tr, "marker")}
    IN  seen \subseteq TableIds /\ (Required \subseteq seen \/ Windowed(tr))

heartbeatOk(tr) ==
    LET hbs == Of(tr, "heartbeat")
        Adjacent(i, j) == i < j /\ \A k \in hbs : k <= i \/ k >= j
    IN  /\ hbs # {}
        /\ tr.recs[Min(hbs)].seq = 0 \/ Windowed(tr)
        /\ \A i, j \in hbs : Adjacent(i, j) => tr.recs[j].seq = tr.recs[i].seq + 1

\* Mutant: a buffer that filled before the last heartbeat is not noticed.
completeOkAlways(tr) == TRUE

\* The last heartbeat recorded is the last emitted.
completeOk(tr) == tr.recs[Max(Of(tr, "heartbeat"))].seq + 1 = tr.emitted

\* PASS of trace-check.  A record of another id is impossible here: the image
\* writes the four kinds only (the kernel's own events are off).
check(tr) ==
    /\ provenanceOk(tr)
    /\ markersOk(tr)
    /\ heartbeatOk(tr)
    /\ Windowed(tr) => triggerAt(tr) # 0
    /\ completeOk(tr)

\* perfetto draws an EXIT as the end of the span its path's last ENTRY opened.
Spans(tr, entry, exit) ==
    LET On(i, m) == tr.recs[i].kind = "marker" /\ tr.recs[i].marker = m
    IN  {s \in (DOMAIN tr.recs) \X (DOMAIN tr.recs) :
            /\ s[1] < s[2]
            /\ On(s[1], entry) /\ On(s[2], exit)
            /\ \A k \in s[1] + 1 .. s[2] - 1 : ~On(k, entry) /\ ~On(k, exit)}
=============================================================================
