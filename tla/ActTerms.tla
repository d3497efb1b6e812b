------------------------------ MODULE ActTerms ------------------------------
(***************************************************************************)
(* The terms of an act and the budgets they propose (tools/board/terms.py).*)
(*                                                                         *)
(* An act is the handler's ticks and the availability samples the gate     *)
(* publishes and the island takes.  The tool has the markers only, and     *)
(* pairs them by their order and their times.  The trace thins the ticks:  *)
(* a tick that is not `kept` left no entry and no exit.  Times are ms.     *)
(***************************************************************************)
EXTENDS Integers, Sequences, FiniteSetsExt

CONSTANTS
    Period,         \* the handler timer's period (100)
    Gaps,           \* between two ticks, less than 1.5 periods
    Durations,      \* of a tick's work
    LimitDelays,    \* from a tick to the velocity limit its call leads to; 0: no call
    SampleGap,      \* between two samples of the gate
    Delays,         \* of a sample on the link
    MaxMarkers      \* bound: ticks and samples of an act

ASSUME ActAssumption ==
    /\ {Period, SampleGap} \subseteq Nat \ {0} /\ MaxMarkers \in Nat
    /\ Gaps \union Durations \union LimitDelays \union Delays \subseteq Nat

VARIABLES
    execs,      \* the ticks: [at, exit, kept, limit], limit 0 without a call
    samples     \* the samples: [at, value, take]

actVars == <<execs, samples>>

NoTerm == -1
LastOf(s, field) == IF s = <<>> THEN 0 ELSE s[Len(s)][field]

-----------------------------------------------------------------------------
(* The act.                                                                *)

Tick(gap, duration, kept, delay) ==
    LET at == LastOf(execs, "at") + gap
    IN  /\ Len(execs) + Len(samples) < MaxMarkers
        /\ execs' = Append(execs, [at |-> at, exit |-> at + duration, kept |-> kept,
                                   limit |-> IF delay = 0 THEN 0 ELSE at + delay])
        /\ UNCHANGED samples

\* Samples arrive in the order they were sent.
Sample(value, delay) ==
    LET at == LastOf(samples, "at") + SampleGap
    IN  /\ Len(execs) + Len(samples) < MaxMarkers
        /\ at + delay > LastOf(samples, "take")
        /\ samples' = Append(samples, [at |-> at, value |-> value, take |-> at + delay])
        /\ UNCHANGED execs

-----------------------------------------------------------------------------
(* run_terms: the terms, from the markers.                                 *)

kept == {i \in DOMAIN execs : execs[i].kept}
exits == {execs[i].exit : i \in kept}
limits == {execs[i].limit : i \in DOMAIN execs} \ {0}
\* A call is marked inside its tick, at its start here.
calls == {execs[i].at : i \in {j \in DOMAIN execs : execs[j].limit # 0}}

\* Two ticks that follow each other in the trace.
neighbours == {p \in kept \X kept : p[1] < p[2] /\ \A k \in kept : k <= p[1] \/ k >= p[2]}

\* Mutant: every two of them count.
spacingAll == {execs[p[2]].at - execs[p[1]].at : p \in neighbours}
\* Consecutive ticks only.
spacing == {d \in {execs[p[2]].at - execs[p[1]].at : p \in neighbours} : 2 * d < 3 * Period}

Nearest(S, t) == {x \in S : x >= t /\ \A y \in S : y >= t => x <= y}
work == {d \in UNION {{x - execs[i].at : x \in Nearest(exits, execs[i].at)} : i \in kept} : d < Period}
tick_before(t) == {execs[i].at : i \in {j \in kept :
                     execs[j].at <= t /\ \A k \in kept : execs[k].at <= t => k <= j}}
limit == UNION {{m - b : m \in Nearest(limits, c), b \in tick_before(c)} : c \in calls}

\* The link, on each edge both sides saw: the first take from 50 ms before
\* the publish on that has its value and the take before it has not.
linkOf(p) ==
    LET match == {i \in DOMAIN samples :
                     /\ samples[i].take >= p.at - 50 /\ samples[i].value = p.value
                     /\ i > 1 => samples[i - 1].value # p.value}
        first == {i \in match : \A j \in match : i <= j}
    IN  {samples[i].take - p.at : i \in {j \in first : samples[j].take - p.at < 500}}
link == UNION {linkOf(samples[i]) : i \in DOMAIN samples}

-----------------------------------------------------------------------------
(* propose: the observed maximum plus a fifth, rounded up; the period      *)
(* takes no margin.                                                        *)

up(m) == -((-(m * 6)) \div 5)
propose ==
    LET late == Max({0} \union {m - Period : m \in spacing})
        wv == work \union limit
        tick == IF spacing = {} THEN NoTerm ELSE Period + up(late)
        w == IF wv = {} THEN NoTerm ELSE up(Max(wv))
    IN  [link |-> IF link = {} THEN NoTerm ELSE up(Max(link)), tick |-> tick, work |-> w,
         call_mrm |-> IF tick = NoTerm \/ w = NoTerm THEN NoTerm ELSE tick + w]

-----------------------------------------------------------------------------
ActInit == execs = <<>> /\ samples = <<>>

ActNext ==
    \/ \E g \in Gaps, d \in Durations, k \in BOOLEAN, m \in LimitDelays : Tick(g, d, k, m)
    \/ \E v \in {0, 1}, d \in Delays : Sample(v, d)

-----------------------------------------------------------------------------
(* Property.                                                               *)

Adjacent == {i \in 1 .. Len(execs) - 1 : i \in kept /\ i + 1 \in kept}
Edges == {i \in 2 .. Len(samples) : samples[i].value # samples[i - 1].value}

\* The budgets are of what ran, though the tool only sees markers: the tick
\* covers every two adjacent ticks of the trace and no thinned one widens it,
\* the work every tick it has and the velocity limit of each call, call_mrm a
\* whole reaction, and the link every edge of the gate's verdict.
BudgetsTrue ==
    LET spaced == {execs[i + 1].at - execs[i].at : i \in Adjacent}
        b == propose
    IN  /\ b.tick = IF spaced = {} THEN NoTerm
                    ELSE Period + up(Max({0} \union {d - Period : d \in spaced}))
        /\ \A i \in kept : execs[i].exit - execs[i].at <= b.work
        /\ \A i \in kept : execs[i].limit # 0 => execs[i].limit - execs[i].at <= b.work
        /\ \A i \in Adjacent : execs[i + 1].exit - execs[i].at <= b.call_mrm
        /\ \A i \in Edges : samples[i].take - samples[i].at <= b.link
=============================================================================
