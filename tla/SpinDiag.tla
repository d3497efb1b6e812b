------------------------------ MODULE SpinDiag ------------------------------
(***************************************************************************)
(* The spin diagnosis (src/safety_island_tracing/include/island_spin_diag.h)*)
(* and the act's segment of it (tools/board/spin_diag.py).                 *)
(*                                                                         *)
(* Every level files its spin intervals: counts, a histogram of lateness   *)
(* in ms bins, the largest lateness since boot, and a ring of the late     *)
(* ones.  The tool reads the record before and after the act while the     *)
(* core runs: the head, then each level's counts and its histogram, then   *)
(* the ring.  What the act added is the difference of the two reads.       *)
(***************************************************************************)
EXTENDS Integers, Sequences, SequencesExt, FiniteSetsExt

CONSTANTS
    SpinLevels,     \* 1 .. SD_LEVELS
    Bins,           \* SD_BINS; the last bin also has every greater lateness
    SpinRing,       \* SD_RING
    Ms,             \* time units of a ms
    LateFrom,       \* SD_LATE_US, in time units
    Lates,          \* the lateness an interval may have, or NoBound
    MaxIntervals    \* bound: intervals of a run

ASSUME SpinAssumption ==
    /\ IsFiniteSet(SpinLevels) /\ SpinLevels = 1 .. Cardinality(SpinLevels)
    /\ {Bins, SpinRing, Ms} \subseteq Nat \ {0} /\ LateFrom \in Nat /\ Lates \subseteq Nat \union {-1}

VARIABLES
    diag,       \* island_spin_diag: [nlev, ring_next, lev, ring]
    filing,     \* the interval being filed under k_sched_lock, [pc, l, late]
    piece,      \* the part of the record the tool reads next; 0 between reads
    reads,      \* what the two reads got: [pre, act]
    begun,      \* history: the intervals, in the order of their filing, [level, late]
    span        \* history: by read, how many were filed at its start and begun by its end

spinVars == <<diag, filing, piece, reads, begun, span>>

NoBound == -1
notFiling == [pc |-> "-", l |-> 0, late |-> 0]
emptyLevel == [spins |-> 0, nobound |-> 0, late |-> 0, max |-> 0, hist |-> [b \in 0 .. Bins - 1 |-> 0]]

-----------------------------------------------------------------------------
(* The image.                                                              *)

\* A thread becomes a level by its first phase 0.
sd_register(l) ==
    /\ filing = notFiling /\ l = diag.nlev + 1
    /\ diag' = [diag EXCEPT !.nlev = l]
    /\ UNCHANGED <<filing, piece, reads, begun, span>>

\* sd_close_interval: no other level runs until the interval is filed, but
\* the reader goes on between its stores.
closeCount(l, late) ==
    /\ filing = notFiling /\ l <= diag.nlev /\ Len(begun) < MaxIntervals
    /\ diag' = [diag EXCEPT !.lev[l].spins = @ + 1]
    /\ filing' = [pc |-> "judge", l |-> l, late |-> late]
    /\ begun' = Append(begun, [level |-> l, late |-> late])
    /\ UNCHANGED <<piece, reads, span>>

Filing(pc, next) ==
    /\ filing.pc = pc
    /\ filing' = IF next = "-" THEN notFiling ELSE [filing EXCEPT !.pc = next]
    /\ UNCHANGED <<piece, reads, begun, span>>

binOf(late) == Min({late \div Ms, Bins - 1})

closeUnbound ==
    /\ filing.late = NoBound /\ Filing("judge", "-")
    /\ diag' = [diag EXCEPT !.lev[filing.l].nobound = @ + 1]

closeHist ==
    /\ filing.late # NoBound /\ Filing("judge", IF filing.late >= LateFrom THEN "late" ELSE "max")
    /\ diag' = [diag EXCEPT !.lev[filing.l].hist[binOf(filing.late)] = @ + 1]

\* The late count and the ring's entry, then its index.
closeLate ==
    /\ Filing("late", "ring")
    /\ diag' = [diag EXCEPT !.lev[filing.l].late = @ + 1,
                            !.ring[diag.ring_next % SpinRing] = [level |-> filing.l, late |-> filing.late]]

closeRing ==
    /\ Filing("ring", "max")
    /\ diag' = [diag EXCEPT !.ring_next = @ + 1]

closeMax ==
    /\ Filing("max", "-")
    /\ diag' = [diag EXCEPT !.lev[filing.l].max = Max({@, filing.late})]

Filed == IF filing = notFiling THEN Len(begun) ELSE Len(begun) - 1

-----------------------------------------------------------------------------
(* The reader: `spin_diag.py read`, attach and no halt.                    *)

noRead == [done |-> FALSE, nlev |-> 0, ring_next |-> 0,
           lev |-> [l \in SpinLevels |-> emptyLevel], ring |-> <<>>]

\* A read goes into the one before the act, then into the one after it.
Into == IF reads.pre.done THEN "act" ELSE "pre"
LastLevel == Cardinality(SpinLevels)

readHead ==
    /\ piece = 0
    /\ reads' = [reads EXCEPT ![Into].nlev = diag.nlev, ![Into].ring_next = diag.ring_next]
    /\ piece' = 1
    /\ span' = [span EXCEPT ![Into][1] = Filed]
    /\ UNCHANGED <<diag, filing, begun>>

\* The counts of a level are read before its histogram; `piece` is odd for
\* the one and even for the other.
readLevel ==
    LET l == (piece + 1) \div 2
    IN  /\ piece \in 1 .. 2 * LastLevel
        /\ reads' = [reads EXCEPT ![Into].lev[l] =
                        IF piece % 2 = 1 THEN [diag.lev[l] EXCEPT !.hist = emptyLevel.hist]
                                         ELSE [@ EXCEPT !.hist = diag.lev[l].hist]]
        /\ piece' = piece + 1
        /\ UNCHANGED <<diag, filing, begun, span>>

readSpinRing ==
    /\ piece = 2 * LastLevel + 1
    /\ reads' = [reads EXCEPT ![Into].ring = diag.ring, ![Into].done = TRUE]
    /\ piece' = 0
    /\ span' = [span EXCEPT ![Into][2] = Len(begun)]
    /\ UNCHANGED <<diag, filing, begun>>

-----------------------------------------------------------------------------
(* parse and segment: the act read minus the pre read.                     *)

\* The levels and the late records of a read, the oldest first.
parse(r) ==
    LET n == Min({r.ring_next, SpinRing})
    IN  [levels |-> 1 .. r.nlev,
         ring |-> [i \in 1 .. n |-> r.ring[(r.ring_next - n + i - 1) % SpinRing]]]

\* A level the pre read does not have starts from nothing.
before(l, p) == IF l <= p.nlev THEN p.lev[l] ELSE emptyLevel

\* Mutant: the ring answers for the act whatever was lost from it.
segmentWorstRing(l, a, p) ==
    LET new == a.ring_next - p.ring_next
        kept == parse(a).ring
        late == {kept[i].late : i \in {j \in DOMAIN kept : j > Len(kept) - new /\ kept[j].level = l}}
    IN  IF late # {} THEN [exact |-> TRUE, v |-> Max(late)] ELSE [exact |-> TRUE, v |-> a.lev[l].max]

\* The worst lateness of the act: exact when the boot's maximum moved or the
\* ring has every late record, else the top of the highest bin that grew.
segmentWorst(l, a, p) ==
    LET new == a.ring_next - p.ring_next
        kept == parse(a).ring
        late == {kept[i].late : i \in {j \in DOMAIN kept : j > Len(kept) - new /\ kept[j].level = l}}
        grown == {b \in 0 .. Bins - 1 : a.lev[l].hist[b] > before(l, p).hist[b]}
    IN  IF a.lev[l].max > before(l, p).max THEN [exact |-> TRUE, v |-> a.lev[l].max]
        ELSE IF late # {} /\ new <= SpinRing THEN [exact |-> TRUE, v |-> Max(late)]
        ELSE [exact |-> FALSE, v |-> IF grown = {} THEN 0 ELSE (Max(grown) + 1) * Ms]

segment(l, a, p) ==
    LET x == a.lev[l]
        q == before(l, p)
    IN  [spins |-> x.spins - q.spins, judged |-> x.spins - q.spins - (x.nobound - q.nobound),
         late |-> x.late - q.late, worst |-> segmentWorst(l, a, p)]

-----------------------------------------------------------------------------
SpinInit ==
    /\ diag = [nlev |-> 0, ring_next |-> 0, lev |-> [l \in SpinLevels |-> emptyLevel],
               ring |-> [i \in 0 .. SpinRing - 1 |-> [level |-> 0, late |-> 0]]]
    /\ filing = notFiling /\ piece = 0
    /\ reads = [pre |-> noRead, act |-> noRead]
    /\ begun = <<>> /\ span = [pre |-> <<0, 0>>, act |-> <<0, 0>>]

\* A run ends with the act read.
SpinNext ==
    /\ ~reads.act.done
    /\ \/ \E l \in SpinLevels : sd_register(l)
       \/ \E l \in SpinLevels, late \in Lates : closeCount(l, late)
       \/ closeUnbound \/ closeHist \/ closeLate \/ closeRing \/ closeMax
       \/ readHead \/ readLevel \/ readSpinRing

-----------------------------------------------------------------------------
(* Property.                                                               *)

\* The intervals of level l that were filed between the two reads, and with
\* them the ones whose filing fell into a read.
Inside(l) == {i \in span.pre[2] + 1 .. span.act[1] : begun[i].level = l}
Around(l) == {i \in span.pre[1] + 1 .. span.act[2] : begun[i].level = l}
IsLate(i) == begun[i].late >= LateFrom
\* Late records of any level that came while the act read was under way.
Overtaken == Cardinality({i \in span.act[1] + 1 .. span.act[2] : IsLate(i)})

\* Whatever is filed while the record is read, a level's row is of the act:
\* it counts every interval between the two reads and none from before or
\* after them, and none of them was later than the worst it prints.  Two cases
\* are outside: late records that overtook the reader in the ring, and the
\* last bin, which has no top, once the ring wrapped.
SegmentTrue ==
    reads.act.done =>
        \A l \in 1 .. reads.act.nlev :
            LET row == segment(l, reads.act, reads.pre)
                inside == Inside(l)
                around == Around(l)
                new == reads.act.ring_next - reads.pre.ring_next
                Late(S) == {i \in S : IsLate(i)}
            IN  /\ row.spins \in Cardinality(inside) .. Cardinality(around)
                /\ row.late \in Cardinality(Late(inside)) .. Cardinality(Late(around))
                /\ \A i \in inside :
                      IF row.worst.exact
                      THEN begun[i].late <= row.worst.v \/ (Overtaken > 0 /\ new + Overtaken > SpinRing)
                      ELSE begun[i].late < row.worst.v \/ begun[i].late = NoBound \/ row.worst.v = Bins * Ms
=============================================================================
