-------------------- MODULE IslandSupervisorDirectProofs --------------------
(***************************************************************************)
(* Theorems about the direct path of IslandSupervisor for every value of   *)
(* its constants: a handover is never seen without its time, the braking   *)
(* command is never silent for longer than two resume spans, and no        *)
(* vehicle that obeys it is blamed.                                        *)
(***************************************************************************)
EXTENDS IslandSupervisorProofs

\* A publish comes within the operator's resume span, which the floor's span
\* covers.  The boot configuration has 33, 99 and 4621 ms.
PeriodWithin == DirectPeriod <= ResumeLimit(OperatorSlot)
ResumeWithin == ResumeLimit(OperatorSlot) <= FloorSpan

-----------------------------------------------------------------------------
(* The inductive invariant.                                                *)

\* Before the latch nothing is handed over, no tick has seen it, and the
\* operator does not tick.
Unlatched ==
    ~latched =>
        /\ handover = {} /\ silence = 0 /\ ~sawLatch
        /\ tick[OperatorSlot] = "idle" /\ tick[HandlerSlot] \in {"idle", "begun"}

\* The report comes before the flag.
StampedFirst == tick[OperatorSlot] = "stamped" => OperatorSlot \notin handover

\* A report that is flagged, or about to be, is younger than the command.
ReportTimed ==
    tick[OperatorSlot] = "stamped" \/ OperatorSlot \in handover \ resumed
        => alive[OperatorSlot] <= brake.age

\* While the island publishes: the silence and what is left of the period make
\* a period, and the thread waits no longer than that.
OwnedSilence ==
    latched /\ OperatorSlot \in Slots
        /\ (OperatorSlot \notin handover \/ OperatorSlot \in resumed) =>
        /\ silence + directNext <= DirectPeriod
        /\ wake = 1 \/ wait <= directNext

\* While the operator publishes: its last publish is its last report's or the
\* one before it, and the thread waits no longer than its resume deadline, or,
\* between the flag and the semaphore, than the island's own next publish.
HandedSilence ==
    latched /\ OperatorSlot \in handover \ resumed =>
        /\ silence <= alive[OperatorSlot]
                       + (IF tick[OperatorSlot] \in {"idle", "checked"} THEN 0
                          ELSE ResumeLimit(OperatorSlot))
        /\ \/ wake = 1
           \/ wait <= ResumeLimit(OperatorSlot) - alive[OperatorSlot]
           \/ tick[OperatorSlot] = "flagged" /\ silence + wait <= DirectPeriod

DInv ==
    /\ Unlatched /\ StampedFirst
    /\ ResumeWithin => ReportTimed
    /\ PeriodWithin => OwnedSilence /\ HandedSilence

LEMMA SlotNumbers ==
    OperatorSlot \in AllSlots /\ HandlerSlot \in AllSlots /\ HandlerSlot # OperatorSlot
  BY DEF AllSlots, OperatorSlot, HandlerSlot

\* The numbers that the direct path is about.
LEMMA DirectTypes ==
    ASSUME IInv
    PROVE  /\ ResumeLimit(OperatorSlot) \in Nat \ {0} /\ DirectPeriod \in Nat \ {0}
           /\ FloorSpan \in Nat /\ Never \in Nat /\ DirectPeriod < Never
           /\ ResumeLimit(OperatorSlot) < Never
           /\ alive[OperatorSlot] \in 0..ResumeLimit(OperatorSlot)
           /\ brake.age \in 0..FloorSpan /\ directNext \in 0..DirectPeriod
           /\ silence \in 0..SilenceCap /\ SilenceCap \in Nat
           /\ wait \in 0..Never /\ wake \in {0, 1}
           /\ handover \subseteq Slots /\ resumed \subseteq handover
           /\ Slots \subseteq AllSlots /\ latched \in BOOLEAN
           /\ tick \in [AllSlots -> TickSteps]
  <1>1. TypeOK /\ AliveBounded
    BY DEF IInv
  <1>2. alive[OperatorSlot] \in 0..Never /\ alive[OperatorSlot] <= ResumeLimit(OperatorSlot)
    BY <1>1, SlotNumbers DEF TypeOK, AliveBounded
  <1>3. SilenceCap \in Nat
    BY Spans DEF SilenceCap
  <1> QED
    BY <1>1, <1>2, <1>3, Spans, SpanAssumption, InstanceAssumption DEF TypeOK

\* What a service of the direct path does to the operator's slot.
LEMMA ServiceEffect ==
    ASSUME IInv, NEW x, NEW b, NEW next \in 0..DirectPeriod, direct_service(x, b, next),
           UNCHANGED <<handover, alive>>
    PROVE  /\ OperatorSlot \in handover' \ resumed' =>
                /\ OperatorSlot \in handover \ resumed /\ silence' = silence
                /\ brake' = b
                /\ wait' <= ResumeLimit(OperatorSlot) - alive[OperatorSlot]
           /\ OperatorSlot \in Slots /\ (OperatorSlot \notin handover' \/ OperatorSlot \in resumed') =>
                /\ wait' <= directNext'
                /\ \/ silence' = 0 /\ directNext' = DirectPeriod
                   \/ /\ silence' = silence /\ directNext' = next
                      /\ OperatorSlot \notin handover \/ OperatorSlot \in resumed
           /\ OperatorSlot \notin handover => brake' = b
           /\ silence' \in {0, silence}
  <1> DEFINE back == resumed \cup Silent
             n == IF Silent # {} THEN 0 ELSE next
             publish == Owned(back) # {} /\ n = 0
             n2 == IF publish THEN DirectPeriod ELSE n
  <1>1. /\ resumed' = back /\ directNext' = n2 /\ wait' = latched_wait(back, n2)
        /\ brake' = IF OperatorSlot \in Silent THEN BrakeNow ELSE b
        /\ silence' = IF publish /\ OperatorSlot \in Owned(back) THEN 0 ELSE silence
    BY DEF direct_service
  <1>2. Silent \subseteq handover \ resumed
    BY DEF Silent
  <1>3. n2 \in 0..DirectPeriod
    BY SpanAssumption
  <1>4. /\ Owned(back) # {} => wait' <= n2
        /\ \A i \in handover \ back : wait' <= ResumeLimit(i) - alive[i]
    <2>1. TypeOK /\ AliveBounded
      BY DEF IInv
    <2> HIDE DEF back, n2
    <2> QED
      BY <1>1, <1>3, <2>1, WaitType
  <1>5. ASSUME OperatorSlot \in handover' \ resumed'
        PROVE  /\ OperatorSlot \in handover \ resumed /\ silence' = silence
               /\ brake' = b
               /\ wait' <= ResumeLimit(OperatorSlot) - alive[OperatorSlot]
    BY <1>1, <1>4, <1>5 DEF Owned
  <1>6. ASSUME OperatorSlot \in Slots, OperatorSlot \notin handover' \/ OperatorSlot \in resumed'
        PROVE  /\ wait' <= directNext'
               /\ \/ silence' = 0 /\ directNext' = DirectPeriod
                  \/ /\ silence' = silence /\ directNext' = next
                     /\ OperatorSlot \notin handover \/ OperatorSlot \in resumed
    <2>1. OperatorSlot \in Owned(back)
      BY <1>1, <1>6 DEF Owned
    <2>2. wait' <= directNext'
      BY <1>1, <1>4, <2>1
    <2>3. CASE n = 0
      BY <1>1, <2>1, <2>2, <2>3
    <2>4. CASE n # 0
      BY <1>1, <1>2, <1>6, <2>2, <2>4
    <2> QED
      BY <2>3, <2>4
  <1>7. OperatorSlot \notin handover => brake' = b
    BY <1>1, <1>2
  <1>8. silence' \in {0, silence}
    BY <1>1
  <1> QED
    BY <1>5, <1>6, <1>7, <1>8

\* The reaction thread, woken or timed out.
LEMMA ServiceStep == IInv /\ IInv' /\ DInv /\ (ReactionPass \/ TimeoutWake) => DInv'
  <1> SUFFICES ASSUME IInv, IInv', DInv, ReactionPass \/ TimeoutWake PROVE DInv'
    OBVIOUS
  <1>1. /\ ResumeLimit(OperatorSlot) \in Nat \ {0} /\ DirectPeriod \in Nat \ {0}
        /\ alive[OperatorSlot] \in 0..ResumeLimit(OperatorSlot)
        /\ brake.age \in 0..FloorSpan /\ directNext \in 0..DirectPeriod
        /\ silence \in 0..SilenceCap /\ handover \subseteq Slots
        /\ latched \in BOOLEAN /\ SilenceCap \in Nat
    BY DirectTypes
  <1>2. UNCHANGED <<handover, alive, tick, sawLatch>>
    BY DEF ReactionPass, TimeoutWake, envVars
  <1>3. \/ ~latched /\ ~latched' /\ UNCHANGED <<resumed, brake, silence>>
        \/ \E x : /\ latched' /\ ~latched /\ direct_service(x, BrakeNow, 0)
        \/ \E x : /\ latched' /\ latched /\ direct_service(x, brake, directNext)
    BY <1>1 DEF ReactionPass, TimeoutWake, history
  <1>4. CASE ~latched /\ ~latched' /\ UNCHANGED <<resumed, brake, silence>>
    BY <1>2, <1>4
    DEF DInv, Unlatched, StampedFirst, ReportTimed, OwnedSilence, HandedSilence
  <1>5. ASSUME NEW x, latched', ~latched, direct_service(x, BrakeNow, 0) PROVE DInv'
    <2>1. handover = {} /\ silence = 0 /\ tick[OperatorSlot] = "idle"
      BY <1>5 DEF DInv, Unlatched
    <2>2. 0 \in 0..DirectPeriod
      BY <1>1
    <2>3. /\ OperatorSlot \in Slots => wait' <= directNext'
          /\ OperatorSlot \in Slots => directNext' = DirectPeriod \/ directNext' = 0
          /\ silence' = 0
      BY <1>2, <1>5, <2>1, <2>2, ServiceEffect
    <2>4. OwnedSilence'
      BY <1>1, <2>3 DEF OwnedSilence
    <2> QED
      BY <1>2, <1>5, <2>1, <2>4
      DEF DInv, Unlatched, StampedFirst, ReportTimed, HandedSilence
  <1>6. ASSUME NEW x, latched', latched, direct_service(x, brake, directNext) PROVE DInv'
    <2>1. /\ OperatorSlot \in handover' \ resumed' =>
               /\ OperatorSlot \in handover \ resumed /\ silence' = silence
               /\ brake' = brake
               /\ wait' <= ResumeLimit(OperatorSlot) - alive[OperatorSlot]
          /\ OperatorSlot \in Slots /\ (OperatorSlot \notin handover' \/ OperatorSlot \in resumed') =>
               /\ wait' <= directNext'
               /\ \/ silence' = 0 /\ directNext' = DirectPeriod
                  \/ /\ silence' = silence /\ directNext' = directNext
                     /\ OperatorSlot \notin handover \/ OperatorSlot \in resumed
          /\ OperatorSlot \notin handover => brake' = brake
      BY <1>1, <1>2, <1>6, ServiceEffect
    <2>2. Unlatched' /\ StampedFirst'
      BY <1>2, <1>6 DEF DInv, Unlatched, StampedFirst
    <2>3. ResumeWithin => ReportTimed'
      BY <1>2, <2>1 DEF DInv, StampedFirst, ReportTimed
    <2>4. PeriodWithin => OwnedSilence'
      BY <1>1, <1>6, <2>1 DEF DInv, OwnedSilence
    <2>5. PeriodWithin => HandedSilence'
      BY <1>2, <1>6, <2>1 DEF DInv, HandedSilence
    <2> QED
      BY <2>2, <2>3, <2>4, <2>5 DEF DInv, PeriodWithin, ResumeWithin
  <1> QED
    BY <1>3, <1>4, <1>5, <1>6

\* Steps that leave the direct path alone, but for a wake: the timer's expiry,
\* the causes, the speed, the executor's row and the handler's calls.
LEMMA AsideDirect ==
    ASSUME DInv,
           \/ due_expiry \/ swt_first_timeout \/ HookNote \/ HookGive
           \/ NoteSpeed \/ NoteStamp \/ TakeAvailability
           \/ ExecTake \/ ExecAnswer \/ SpinRead \/ SpinArm \/ UNCHANGED vars
    PROVE  DInv'
  <1> USE DEF routeVars, latchVars, speedVars, directVars, envVars, history, vars
  <1>1. /\ UNCHANGED <<latched, wait, handover, resumed, alive, brake, directNext,
                       tick, sawLatch, silence>>
        /\ wake' \in {1, wake}
    BY DEF due_expiry, swt_first_timeout, HookNote, HookGive, NoteSpeed, NoteStamp,
           TakeAvailability, ExecTake, ExecAnswer, SpinRead, SpinArm
  <1> QED
    BY <1>1 DEF DInv, Unlatched, StampedFirst, ReportTimed, OwnedSilence, HandedSilence

\* The ticks up to their report, and the handler's own.
LEMMA TickDirect ==
    ASSUME IInv, DInv,
           \/ HandlerBegin \/ HandlerAct \/ OperatorCheck
           \/ \E i \in Slots : HandoverStamp(i) \/ HandoverFlag(i) \/ HandoverGive(i)
                                 \/ TickEnd(i)
    PROVE  DInv'
  <1> USE DEF routeVars, latchVars, speedVars, directVars, history
  <1>1. /\ ResumeLimit(OperatorSlot) \in Nat \ {0} /\ DirectPeriod \in Nat \ {0}
        /\ alive[OperatorSlot] \in 0..ResumeLimit(OperatorSlot)
        /\ brake.age \in 0..FloorSpan /\ directNext \in 0..DirectPeriod
        /\ silence \in 0..SilenceCap /\ wait \in 0..Never
        /\ handover \subseteq Slots /\ resumed \subseteq handover
        /\ Slots \subseteq AllSlots /\ tick \in [AllSlots -> TickSteps]
        /\ FloorSpan \in Nat /\ SilenceCap \in Nat /\ Never \in Nat
        /\ latched \in BOOLEAN
        /\ alive \in [AllSlots -> 0..Never]
    BY DirectTypes DEF IInv, TypeOK
  <1>2. /\ UNCHANGED <<latched, wait, resumed, brake, directNext>>
        /\ wake = 0
    BY DEF HandlerBegin, HandlerAct, OperatorCheck, HandoverStamp, HandoverFlag,
           HandoverGive, TickEnd, HandlerIdle, Quiet
  <1>3. CASE HandlerBegin
    <2>1. /\ UNCHANGED <<wake, handover, alive, silence>> /\ sawLatch' = latched
          /\ tick' = [tick EXCEPT ![HandlerSlot] = "begun"]
      BY <1>3 DEF HandlerBegin
    <2>2. tick'[OperatorSlot] = tick[OperatorSlot] /\ tick'[HandlerSlot] = "begun"
      BY <1>1, <2>1, SlotNumbers
    <2> QED
      BY <1>2, <2>1, <2>2
      DEF DInv, Unlatched, StampedFirst, ReportTimed, OwnedSilence, HandedSilence
  <1>4. CASE HandlerAct
    <2>1. /\ UNCHANGED <<wake, handover, alive, silence, sawLatch>>
          /\ tick' = [tick EXCEPT ![HandlerSlot] =
                IF sawLatch /\ HandlerSlot \in Slots \ resumed THEN "checked" ELSE "idle"]
      BY <1>4 DEF HandlerAct
    <2>2. /\ tick'[OperatorSlot] = tick[OperatorSlot]
          /\ ~sawLatch => tick'[HandlerSlot] = "idle"
      BY <1>1, <2>1, SlotNumbers
    <2> QED
      BY <1>2, <2>1, <2>2
      DEF DInv, Unlatched, StampedFirst, ReportTimed, OwnedSilence, HandedSilence
  <1>5. CASE OperatorCheck
    <2>1. /\ UNCHANGED <<wake, handover, alive, silence, sawLatch>> /\ latched
          /\ tick[OperatorSlot] = "idle"
          /\ tick' = [tick EXCEPT ![OperatorSlot] = "checked"]
      BY <1>5 DEF OperatorCheck
    <2>2. tick'[OperatorSlot] = "checked"
      BY <1>1, <2>1, SlotNumbers
    <2> QED
      BY <1>2, <2>1, <2>2
      DEF DInv, Unlatched, StampedFirst, ReportTimed, OwnedSilence, HandedSilence
  <1>6. ASSUME NEW i \in Slots,
               HandoverStamp(i) \/ HandoverFlag(i) \/ HandoverGive(i) \/ TickEnd(i)
        PROVE  DInv'
    <2>1. i \in AllSlots /\ (i = OperatorSlot \/ i = HandlerSlot)
      BY <1>1 DEF AllSlots
    <2>2. latched
      <3>1. tick[i] \in {"checked", "stamped", "flagged", "reported"}
        BY <1>6 DEF HandoverStamp, HandoverFlag, HandoverGive, TickEnd
      <3> QED
        BY <2>1, <3>1 DEF DInv, Unlatched
    <2>3. Unlatched'
      BY <1>2, <2>2 DEF Unlatched
    <2>4. CASE i = HandlerSlot
      <3>1. /\ UNCHANGED <<silence>> /\ wake' \in {1, wake}
            /\ handover' \in {handover, handover \cup {HandlerSlot}}
            /\ alive'[OperatorSlot] = alive[OperatorSlot]
            /\ tick'[OperatorSlot] = tick[OperatorSlot]
        BY <1>1, <1>6, <2>4, SlotNumbers
        DEF HandoverStamp, HandoverFlag, HandoverGive, TickEnd
      <3>2. OperatorSlot \in handover' <=> OperatorSlot \in handover
        BY <3>1, SlotNumbers
      <3> QED
        BY <1>2, <2>3, <3>1, <3>2
        DEF DInv, StampedFirst, ReportTimed, OwnedSilence, HandedSilence
    <2>5. CASE i = OperatorSlot
      <3>1. CASE HandoverStamp(i)
        <4>1. /\ UNCHANGED <<silence, wake, handover>>
              /\ alive'[OperatorSlot] = 0
              /\ tick[OperatorSlot] = "checked"
              /\ tick'[OperatorSlot] = IF OperatorSlot \in handover THEN "reported" ELSE "stamped"
          BY <1>1, <2>1, <2>5, <3>1 DEF HandoverStamp
        <4>2. StampedFirst' /\ ReportTimed'
          BY <1>1, <1>2, <4>1 DEF StampedFirst, ReportTimed
        <4>3. OwnedSilence => OwnedSilence'
          BY <1>2, <4>1 DEF OwnedSilence
        <4>4. HandedSilence => HandedSilence'
          BY <1>1, <1>2, <4>1 DEF HandedSilence
        <4> QED
          BY <2>3, <4>2, <4>3, <4>4 DEF DInv
      <3>2. CASE HandoverFlag(i)
        <4>1. /\ UNCHANGED <<silence, wake, alive>>
              /\ handover' = handover \cup {OperatorSlot}
              /\ tick[OperatorSlot] = "stamped" /\ tick'[OperatorSlot] = "flagged"
          BY <1>1, <2>1, <2>5, <3>2 DEF HandoverFlag
        <4>2. OperatorSlot \notin handover
          BY <4>1 DEF DInv, StampedFirst
        <4>3. StampedFirst' /\ (ReportTimed => ReportTimed')
          BY <1>2, <4>1 DEF StampedFirst, ReportTimed
        <4>4. OwnedSilence'
          BY <1>1, <1>2, <4>1, <4>2 DEF OwnedSilence
        <4>5. ASSUME PeriodWithin, OwnedSilence PROVE HandedSilence'
          <5>1. silence + directNext <= DirectPeriod /\ wait <= directNext
            BY <1>2, <2>2, <2>5, <4>2, <4>5 DEF OwnedSilence
          <5>2. silence + wait <= DirectPeriod
            BY <1>1, <5>1
          <5>3. silence <= alive[OperatorSlot] + ResumeLimit(OperatorSlot)
            BY <1>1, <4>5, <5>1 DEF PeriodWithin
          <5> QED
            BY <1>2, <4>1, <5>2, <5>3 DEF HandedSilence
        <4> QED
          BY <2>3, <4>3, <4>4, <4>5 DEF DInv, PeriodWithin, ResumeWithin
      <3>3. CASE HandoverGive(i)
        <4>1. /\ UNCHANGED <<silence, alive, handover>> /\ wake' = 1
              /\ tick[OperatorSlot] = "flagged" /\ tick'[OperatorSlot] = "reported"
          BY <1>1, <2>1, <2>5, <3>3 DEF HandoverGive
        <4> QED
          BY <1>2, <2>3, <4>1
          DEF DInv, StampedFirst, ReportTimed, OwnedSilence, HandedSilence
      <3>4. CASE TickEnd(i)
        <4>1. /\ UNCHANGED <<wake, alive, handover>> /\ silence' = 0
              /\ tick[OperatorSlot] = "reported" /\ tick'[OperatorSlot] = "idle"
          BY <1>1, <2>1, <2>5, <3>4 DEF TickEnd
        <4>2. OwnedSilence => OwnedSilence'
          BY <1>1, <1>2, <4>1 DEF OwnedSilence
        <4>3. HandedSilence => HandedSilence'
          BY <1>1, <1>2, <4>1 DEF HandedSilence
        <4> QED
          BY <1>2, <2>3, <4>1, <4>2, <4>3 DEF DInv, StampedFirst, ReportTimed
      <3> QED
        BY <1>6, <3>1, <3>2, <3>3, <3>4
    <2> QED
      BY <2>1, <2>4, <2>5
  <1> QED
    BY <1>3, <1>4, <1>5, <1>6

\* Time passes: the silence grows as the wait that ends it shrinks.
LEMMA AdvanceDirect ==
    ASSUME IInv, DInv, Advance
    PROVE  DInv'
  <1>1. /\ ResumeLimit(OperatorSlot) \in Nat \ {0} /\ DirectPeriod \in Nat \ {0}
        /\ alive[OperatorSlot] \in 0..ResumeLimit(OperatorSlot)
        /\ brake.age \in 0..FloorSpan /\ directNext \in 0..DirectPeriod
        /\ silence \in 0..SilenceCap /\ wait \in 0..Never
        /\ handover \subseteq Slots /\ resumed \subseteq handover
        /\ Slots \subseteq AllSlots
        /\ FloorSpan \in Nat /\ SilenceCap \in Nat /\ Never \in Nat
        /\ DirectPeriod < Never /\ ResumeLimit(OperatorSlot) < Never
        /\ latched \in BOOLEAN
    BY DirectTypes
  <1>2. /\ UNCHANGED <<latched, wake, handover, resumed, tick, sawLatch>>
        /\ wake = 0 /\ (latched => wait # 0)
        /\ wait' = DownTo(wait) /\ directNext' = Down(directNext)
        /\ silence' = IF latched /\ OperatorSlot \in Slots THEN Older(silence, SilenceCap)
                      ELSE silence
        /\ brake' = IF latched THEN [brake EXCEPT !.age = Older(@, FloorSpan)] ELSE brake
        /\ alive' = [i \in AllSlots |-> IF i \in Slots THEN Older(alive[i], ResumeLimit(i)) ELSE 0]
    BY DEF Advance, Quiet
  <1>3. Unlatched' /\ StampedFirst'
    BY <1>2 DEF DInv, Unlatched, StampedFirst
  <1>4. CASE ~latched
    BY <1>2, <1>3, <1>4
    DEF DInv, Unlatched, ReportTimed, OwnedSilence, HandedSilence
  <1>5. CASE latched
    <2>1. /\ wait' \in Nat /\ (wait < Never => wait' = wait - 1) /\ wait >= 1
          /\ directNext' \in Nat /\ (directNext >= 1 => directNext' = directNext - 1)
      BY <1>1, <1>2, <1>5 DEF DownTo, Down
    <2>2. silence' \in Nat /\ silence' <= silence + 1
      BY <1>1, <1>2 DEF Older
    <2>3. alive'[OperatorSlot] =
             IF OperatorSlot \in Slots THEN Older(alive[OperatorSlot], ResumeLimit(OperatorSlot))
             ELSE 0
      BY <1>2, SlotNumbers
    <2>4. ASSUME ResumeWithin PROVE ReportTimed'
      <3>1. brake'.age = Older(brake.age, FloorSpan)
        <4>1. brake \in [age : 0..FloorSpan, ref : 0..MaxSpeed, ok : BOOLEAN]
          BY DEF IInv, TypeOK
        <4> QED
          BY <1>2, <1>5, <4>1
      <3>2. alive[OperatorSlot] <= brake.age => alive'[OperatorSlot] <= brake'.age
        BY <1>1, <2>3, <2>4, <3>1 DEF Older, ResumeWithin
      <3> QED
        BY <1>2, <2>4, <3>2 DEF DInv, ReportTimed
    <2>5. ASSUME PeriodWithin PROVE OwnedSilence'
      <3> SUFFICES ASSUME OperatorSlot \in Slots,
                          OperatorSlot \notin handover \/ OperatorSlot \in resumed
                   PROVE  silence' + directNext' <= DirectPeriod /\ wait' <= directNext'
        BY <1>2 DEF OwnedSilence
      <3>1. silence + directNext <= DirectPeriod /\ wait <= directNext
        BY <1>2, <1>5, <2>5 DEF DInv, OwnedSilence
      <3>2. /\ silence \in Nat /\ directNext \in Nat /\ wait \in Nat /\ DirectPeriod \in Nat
            /\ directNext <= DirectPeriod /\ Never \in Nat /\ DirectPeriod < Never
        BY <1>1
      <3>3. directNext' = directNext - 1 /\ wait' = wait - 1
        BY <2>1, <3>1, <3>2
      <3>4. wait' <= directNext'
        BY <3>1, <3>2, <3>3
      <3>5. silence' + directNext' <= DirectPeriod
        <4>1. \A a, b, c, d \in Nat : b <= a + 1 /\ a + c <= d => b + (c - 1) <= d
          OBVIOUS
        <4> QED
          BY <2>2, <3>1, <3>2, <3>3, <4>1
      <3> QED
        BY <3>4, <3>5
    <2>6. ASSUME PeriodWithin PROVE HandedSilence'
      <3> SUFFICES ASSUME OperatorSlot \in handover \ resumed
                   PROVE  /\ silence' <= alive'[OperatorSlot]
                               + (IF tick[OperatorSlot] \in {"idle", "checked"} THEN 0
                                  ELSE ResumeLimit(OperatorSlot))
                          /\ \/ wait' <= ResumeLimit(OperatorSlot) - alive'[OperatorSlot]
                             \/ /\ tick[OperatorSlot] = "flagged"
                                /\ silence' + wait' <= DirectPeriod
        BY <1>2 DEF HandedSilence
      <3> DEFINE slack == IF tick[OperatorSlot] \in {"idle", "checked"} THEN 0
                          ELSE ResumeLimit(OperatorSlot)
      <3>1. /\ silence <= alive[OperatorSlot] + slack
            /\ \/ wait <= ResumeLimit(OperatorSlot) - alive[OperatorSlot]
               \/ tick[OperatorSlot] = "flagged" /\ silence + wait <= DirectPeriod
        BY <1>2, <1>5, <2>6 DEF DInv, HandedSilence
      <3>2. alive'[OperatorSlot] = Older(alive[OperatorSlot], ResumeLimit(OperatorSlot))
        BY <1>1, <2>3
      <3>3. slack \in Nat /\ (tick[OperatorSlot] = "flagged" => slack = ResumeLimit(OperatorSlot))
        BY <1>1
      <3> HIDE DEF slack
      <3>4. CASE wait <= ResumeLimit(OperatorSlot) - alive[OperatorSlot]
        <4>1. alive'[OperatorSlot] = alive[OperatorSlot] + 1 /\ wait' = wait - 1
          BY <1>1, <2>1, <3>2, <3>4 DEF Older
        <4>2. /\ silence' <= alive'[OperatorSlot] + slack
              /\ wait' <= ResumeLimit(OperatorSlot) - alive'[OperatorSlot]
          BY <1>1, <2>1, <2>2, <3>1, <3>3, <3>4, <4>1
        <4> QED
          BY <4>2 DEF slack
      <3>5. CASE tick[OperatorSlot] = "flagged" /\ silence + wait <= DirectPeriod
        <4>1. silence' + wait' <= DirectPeriod
          BY <1>1, <2>1, <2>2, <3>5
        <4>2. alive'[OperatorSlot] \in Nat
          BY <1>1, <3>2 DEF Older
        <4>3. silence' <= alive'[OperatorSlot] + slack
          BY <1>1, <2>1, <2>2, <2>6, <3>3, <3>5, <4>1, <4>2 DEF PeriodWithin
        <4> QED
          BY <3>5, <4>1, <4>3 DEF slack
      <3> QED
        BY <3>1, <3>4, <3>5
    <2> QED
      BY <1>3, <2>4, <2>5, <2>6 DEF DInv, PeriodWithin, ResumeWithin
  <1> QED
    BY <1>1, <1>4, <1>5

LEMMA DirectInit == Init => DInv
  <1> SUFFICES ASSUME Init PROVE DInv
    OBVIOUS
  <1>1. tick[OperatorSlot] = "idle" /\ tick[HandlerSlot] = "idle"
    BY SlotNumbers DEF Init
  <1> QED
    BY <1>1
    DEF Init, DInv, Unlatched, StampedFirst, ReportTimed, OwnedSilence, HandedSilence

LEMMA DirectStep == IInv /\ IInv' /\ DInv /\ [Next]_vars => DInv'
  BY ServiceStep, AsideDirect, TickDirect, AdvanceDirect
  DEF Next, Kernel, SpinThread

-----------------------------------------------------------------------------
(* Theorems.                                                               *)

\* The invariant of the direct path, on that of the routes.
THEOREM DirectInvariant == Spec => []DInv
  BY Invariant, DirectInit, DirectStep, PTL DEF Spec

\* The reaction thread never sees a handover without its time, when the floor's
\* span covers the operator's resume span.
THEOREM HandoverIsTimed == Spec => [](ResumeWithin => HandoverTimed)
  <1>1. DInv => (ResumeWithin => HandoverTimed)
    BY DEF DInv, ReportTimed, HandoverTimed
  <1> QED
    BY DirectInvariant, <1>1, PTL

\* Once latched the braking command is never off the wire for longer than two
\* resume spans, when a publish of the island's own comes within one.
THEOREM BrakeIsNeverSilent == Spec => [](PeriodWithin => BrakeNeverSilent)
  <1>1. IInv /\ DInv => (PeriodWithin => BrakeNeverSilent)
    <2> SUFFICES ASSUME IInv, DInv, PeriodWithin, latched, OperatorSlot \in Slots
                 PROVE  silence <= 2 * ResumeLimit(OperatorSlot)
      BY DEF BrakeNeverSilent
    <2>1. /\ ResumeLimit(OperatorSlot) \in Nat \ {0} /\ DirectPeriod \in Nat \ {0}
          /\ alive[OperatorSlot] \in 0..ResumeLimit(OperatorSlot)
          /\ directNext \in 0..DirectPeriod /\ silence \in 0..SilenceCap
          /\ SilenceCap \in Nat
      BY DirectTypes
    <2>2. OwnedSilence /\ HandedSilence
      BY DEF DInv
    <2>3. CASE OperatorSlot \in handover \ resumed
      BY <2>1, <2>2, <2>3 DEF HandedSilence
    <2>4. CASE ~(OperatorSlot \in handover \ resumed)
      BY <2>1, <2>2, <2>4 DEF OwnedSilence, PeriodWithin
    <2> QED
      BY <2>3, <2>4
  <1> QED
    BY Invariant, DirectInvariant, <1>1, PTL

-----------------------------------------------------------------------------
(* The vehicle's fault.                                                    *)

\* A vehicle that slows by one a unit has stopped within route 3's span, as far
\* as a fresh sample shows, and has shed the drop within route 4's, against a
\* reference and by a sample that are each at most FreshSpan old.
StopWithin == FreshSpan < FloorSpan /\ MaxSpeed + FreshSpan <= FloorSpan
DropWithin == Drop + 2 * FreshSpan <= ResponseSpan

\* The vehicle has slowed for e units from at most m, and so has what it has
\* reported since.
Slowed(e, m) ==
    /\ vel = 0 \/ vel + e <= m
    /\ speedAge < e => speed = 0 \/ speed + e <= m + speedAge

\* What is known of a vehicle that has not resisted the command it is under.
BrakeSlowed ==
    latched /\ ~resisted =>
        /\ brake.age > 0 => seen /\ speedAge <= FreshSpan
        /\ brake.age > 0 /\ noting => speed = vel
        /\ vel <= speed + FreshSpan
        /\ Slowed(brake.age, MaxSpeed)
        /\ Slowed(brake.age, brake.ref + FreshSpan)

\* Route 4's reference is the speed that the vehicle had when it was armed, if
\* that was under the command.
Held(x) ==
    Response \in x.armed =>
        /\ x.left[Response] <= ResponseSpan
        /\ latched /\ ~resisted /\ ResponseSpan - x.left[Response] <= brake.age =>
              Slowed(ResponseSpan - x.left[Response], x.ref + FreshSpan)

FInv == BrakeSlowed /\ Held(table)

\* y's route 4 is x's, or not armed.
Kept(x, y) ==
    Response \in y.armed =>
        Response \in x.armed /\ y.left[Response] = x.left[Response] /\ y.ref = x.ref

LEMMA KeptHeld ==
    ASSUME NEW x, NEW y, Held(x), Kept(x, y)
    PROVE  Held(y)
  BY DEF Held, Kept

\* Clearing routes, and arming one that is not route 4, keep route 4.
LEMMA CallsKeep ==
    ASSUME NEW x, IsTable(x)
    PROVE  /\ \A S \in SUBSET Routes :
                 /\ Kept(x, Disarm(x, S))
                 /\ Kept(x, [Disarm(x, S) EXCEPT !.stage = "IDLE"])
           /\ \A r \in Routes \ {Response}, t \in 0..(Never - 1) :
                 /\ Kept(x, Arm(x, r, t))
                 /\ Kept(x, [Arm(x, r, t) EXCEPT !.stage = "DIRECT"])
  <1>0. Response \in Routes
    BY RouteNumbers
  <1>1. ASSUME NEW S \in SUBSET Routes
        PROVE  /\ Kept(x, Disarm(x, S))
               /\ Kept(x, [Disarm(x, S) EXCEPT !.stage = "IDLE"])
    <2> DEFINE z == Disarm(x, S)
    <2>1. /\ IsTable(z) /\ Else(x, z, {"armed", "left"}) /\ z.armed = x.armed \ S
          /\ \A q \in Routes \ S : z.left[q] = x.left[q]
      BY DisarmEffect
    <2> HIDE DEF z
    <2>2. z.ref = x.ref
      BY <2>1 DEF Else, IsTable
    <2>3. Kept(x, z)
      BY <1>0, <2>1, <2>2 DEF Kept
    <2>4. LET w == [z EXCEPT !.stage = "IDLE"]
          IN  w.armed = z.armed /\ w.left = z.left /\ w.ref = z.ref
      BY <2>1 DEF IsTable
    <2> QED
      BY <2>3, <2>4 DEF Kept, z
  <1>2. ASSUME NEW r \in Routes \ {Response}, NEW t \in 0..(Never - 1)
        PROVE  /\ Kept(x, Arm(x, r, t))
               /\ Kept(x, [Arm(x, r, t) EXCEPT !.stage = "DIRECT"])
    <2> DEFINE z == Arm(x, r, t)
    <2>1. /\ IsTable(z) /\ Else(x, z, {"armed", "left"}) /\ z.armed = x.armed \cup {r}
          /\ \A q \in Routes \ {r} : z.left[q] = x.left[q]
      BY ArmEffect
    <2> HIDE DEF z
    <2>2. z.ref = x.ref
      BY <2>1 DEF Else, IsTable
    <2>3. Kept(x, z)
      BY <1>0, <2>1, <2>2 DEF Kept
    <2>4. LET w == [z EXCEPT !.stage = "DIRECT"]
          IN  w.armed = z.armed /\ w.left = z.left /\ w.ref = z.ref
      BY <2>1 DEF IsTable
    <2> QED
      BY <2>3, <2>4 DEF Kept, z
  <1> QED
    BY <1>1, <1>2

\* A settle's route 4 is armed now, against the speed noted by now.
LEMMA SettleFrom ==
    ASSUME NEW x, IsTable(x), NEW s \in FloorStages
    PROVE  LET y == StartSettle(x, s)
           IN  \/ Kept(x, y)
               \/ y.left[Response] = ResponseSpan /\ y.ref = speed
  <1> DEFINE z == Arm(x, Floor, FloorSpan)
             w == [z EXCEPT !.stage = s]
             y == response_arm(w, ResponseSpan, speed, speed_fresh)
  <1>1. Floor \in Routes /\ Response \in Routes /\ Floor # Response
    BY RouteNumbers
  <1>2. FloorSpan \in 0..(Never - 1) /\ ResponseSpan \in 0..(Never - 1)
    BY Spans
  <1>3. /\ IsTable(z) /\ Else(x, z, {"armed", "left"}) /\ z.armed = x.armed \cup {Floor}
        /\ \A q \in Routes \ {Floor} : z.left[q] = x.left[q]
    BY <1>1, <1>2, ArmEffect
  <1> HIDE DEF z
  <1>4. /\ IsTable(w) /\ w.armed = z.armed /\ w.left = z.left /\ w.ref = z.ref
    BY <1>3 DEF IsTable
  <1>5. z.ref = x.ref
    BY <1>3 DEF Else, IsTable
  <1> HIDE DEF w
  <1>6. Kept(x, w)
    BY <1>1, <1>3, <1>4, <1>5 DEF Kept
  <1>7. Kept(x, y) \/ (y.left[Response] = ResponseSpan /\ y.ref = speed)
    <2>1. CASE ~UseResponse
      BY <1>6, <2>1 DEF response_arm
    <2>2. CASE UseResponse /\ ~speed_fresh
      <3>1. y = Disarm(w, {Response})
        BY <2>2 DEF response_arm
      <3>2. Kept(w, Disarm(w, {Response}))
        BY <1>1, <1>4, CallsKeep
      <3> QED
        BY <1>6, <3>1, <3>2 DEF Kept
    <2>3. CASE UseResponse /\ speed_fresh
      <3> DEFINE u == Arm(w, Response, ResponseSpan)
      <3>1. y = [u EXCEPT !.ref = speed]
        BY <2>3 DEF response_arm
      <3>2. IsTable(u) /\ u.left[Response] = ResponseSpan
        BY <1>1, <1>2, <1>4, ArmEffect
      <3> HIDE DEF u, y
      <3> QED
        BY <3>1, <3>2 DEF IsTable
    <2> QED
      BY <2>1, <2>2, <2>3
  <1> QED
    BY <1>7 DEF StartSettle, y, w, z

\* A settle under the command holds its reference.
LEMMA SettleHeld ==
    ASSUME TypeOK, BrakeSlowed, NEW x, IsTable(x), Held(x), NEW s \in FloorStages
    PROVE  Held(StartSettle(x, s))
  <1> DEFINE y == StartSettle(x, s)
  <1>1. Kept(x, y) \/ (y.left[Response] = ResponseSpan /\ y.ref = speed)
    BY SettleFrom
  <1> HIDE DEF y
  <1>2. CASE Kept(x, y)
    BY <1>2, KeptHeld DEF y
  <1>3. CASE y.left[Response] = ResponseSpan /\ y.ref = speed
    <2>1. /\ ResponseSpan \in Nat /\ FreshSpan \in Nat /\ speedAge \in Nat /\ vel \in Nat
          /\ speed \in Nat
      BY SpanAssumption DEF TypeOK
    <2>2. latched /\ ~resisted => Slowed(0, speed + FreshSpan)
      BY <2>1 DEF BrakeSlowed, Slowed
    <2>3. ResponseSpan - ResponseSpan = 0 /\ ResponseSpan <= ResponseSpan
      BY <2>1
    <2> QED
      BY <1>3, <2>2, <2>3 DEF Held, y
  <1> QED
    BY <1>1, <1>2, <1>3

-----------------------------------------------------------------------------
(* The verdicts of a pass on route 4's reference and on the vehicle.       *)

\* Only a vehicle that has resisted is newly blamed.
Earned(x) == StopWithin /\ DropWithin => (x.fault => fault \/ resisted)

\* A verdict on another route.
LEMMA OthersJudged ==
    ASSUME TypeOK, NEW x, PassSound(x), Held(x), Earned(x)
    PROVE  /\ Held(JudgeHpcLoss(x)) /\ Earned(JudgeHpcLoss(x))
           /\ Held(JudgeExecutor(x)) /\ Earned(JudgeExecutor(x))
           /\ Held(JudgeComfortable(x)) /\ Earned(JudgeComfortable(x))
  <1>1. IsTable(x) /\ {"fired", "latch", "fault"} \subseteq DOMAIN x
    BY DEF PassSound, Sound
  <1>2. ASSUME NEW r \in Routes \ {Response}
        PROVE  /\ Held(Missed(x, r)) /\ Earned(Missed(x, r))
               /\ Held(Disarm(x, {r})) /\ Earned(Disarm(x, {r}))
    <2> DEFINE y == Missed(x, r)
               z == Disarm(x, {r})
    <2>1. /\ IsTable(y) /\ Else(x, y, {"armed", "left", "fired", "latch"})
          /\ Same(x, y, {r}) /\ y.fault = x.fault
      BY MissedEffect
    <2>2. Else(x, z, {"armed", "left"}) /\ Kept(x, z)
      BY <1>1, DisarmEffect, CallsKeep
    <2> HIDE DEF y, z
    <2>3. Kept(x, y)
      BY <1>1, <2>1, RouteNumbers DEF Kept, Same, Else, IsTable
    <2>4. z.fault = x.fault
      BY <1>1, <2>2 DEF Else
    <2> QED
      BY <2>1, <2>2, <2>3, <2>4, KeptHeld DEF Earned, y, z
  <1>3. ASSUME NEW t \in 0..(Never - 1)
        PROVE  Held(Arm(x, Executor, t)) /\ Earned(Arm(x, Executor, t))
    <2> DEFINE y == Arm(x, Executor, t)
    <2>1. Executor \in Routes \ {Response}
      BY RouteNumbers
    <2>2. Else(x, y, {"armed", "left"}) /\ Kept(x, y)
      BY <1>1, <2>1, ArmEffect, CallsKeep
    <2> HIDE DEF y
    <2>3. y.fault = x.fault
      BY <1>1, <2>2 DEF Else
    <2> QED
      BY <2>2, <2>3, KeptHeld DEF Earned, y
  <1>4. exec.left + exec.up \in 0..(Never - 1)
    <2>1. exec.left \in 0..ExecSpan /\ exec.up \in 0..1 /\ ExecSpan \in Nat
      BY SpanAssumption DEF TypeOK, ExecStates
    <2> QED
      BY <2>1, Spans
  <1>5. {HpcLoss, Executor, Comfortable} \subseteq Routes \ {Response}
    BY RouteNumbers
  <1>6. Held(JudgeHpcLoss(x)) /\ Earned(JudgeHpcLoss(x))
    BY <1>2, <1>5 DEF JudgeHpcLoss
  <1>7. Held(JudgeExecutor(x)) /\ Earned(JudgeExecutor(x))
    BY <1>2, <1>3, <1>4, <1>5 DEF JudgeExecutor
  <1>8. Held(JudgeComfortable(x)) /\ Earned(JudgeComfortable(x))
    BY <1>2, <1>5 DEF JudgeComfortable
  <1> QED
    BY <1>6, <1>7, <1>8

\* Verdicts that clear both floor routes, met or at fault.
LEMMA FloorCleared ==
    ASSUME NEW x, PassSound(x), NEW r \in {Floor, Response}
    PROVE  LET m == [Disarm(x, {Floor, Response}) EXCEPT !.stage = "IDLE"]
               v == VehicleFault(x, r)
           IN  /\ Held(m) /\ m.fault = x.fault
               /\ Held(v)
  <1> DEFINE z == Disarm(x, {Floor, Response})
             m == [z EXCEPT !.stage = "IDLE"]
             v == [z EXCEPT !.fired = z.fired \cup {r}, !.stage = "IDLE", !.fault = TRUE]
  <1>1. IsTable(x) /\ {"fired", "latch", "fault"} \subseteq DOMAIN x
    BY DEF PassSound, Sound
  <1>2. {Floor, Response} \in SUBSET Routes
    BY RouteNumbers
  <1>3. /\ IsTable(z) /\ Else(x, z, {"armed", "left"})
        /\ z.armed = x.armed \ {Floor, Response}
    BY <1>1, <1>2, DisarmEffect
  <1> HIDE DEF z
  <1>4. m.armed = z.armed /\ m.fault = x.fault /\ v.armed = z.armed
    BY <1>1, <1>3 DEF IsTable, Else
  <1>5. Response \notin m.armed /\ Response \notin v.armed
    BY <1>3, <1>4
  <1>6. v = VehicleFault(x, r)
    BY DEF VehicleFault, v, z
  <1> HIDE DEF m, v
  <1> QED
    BY <1>4, <1>5, <1>6 DEF Held, m, z

\* A miss of the floor's routes starts a settle and blames nobody.
LEMMA MissHeld ==
    ASSUME TypeOK, BrakeSlowed, NEW x, PassSound(x), Held(x), NEW r \in {Floor, Response}
    PROVE  Held(MissedFloor(x, r)) /\ MissedFloor(x, r).fault = x.fault
  <1> DEFINE z == Missed(x, r)
             y == StartSettle(z, "DIRECT")
  <1>1. r \in Routes /\ "DIRECT" \in FloorStages
    BY RouteNumbers DEF FloorStages
  <1>2. /\ IsTable(z) /\ Else(x, z, {"armed", "left", "fired", "latch"})
        /\ Same(x, z, {r}) /\ r \notin z.armed /\ z.fault = x.fault
    BY <1>1, MissedEffect
  <1>3. "fault" \in DOMAIN x /\ IsTable(x)
    BY DEF PassSound, Sound
  <1> HIDE DEF z
  <1>4. Kept(x, z)
    BY <1>2, <1>3, RouteNumbers DEF Kept, Same, Else, IsTable
  <1>5. Held(z)
    BY <1>4, KeptHeld
  <1>6. Held(y)
    BY <1>1, <1>2, <1>5, SettleHeld
  <1>7. Else(z, y, {"armed", "left", "stage", "ref"})
    <2>1. speed \in 0..MaxSpeed /\ seen \in BOOLEAN
      BY DEF TypeOK
    <2> QED
      BY <1>1, <1>2, <2>1, SettleEffect
  <1>8. "fault" \in DOMAIN z
    BY <1>2, <1>3 DEF Else
  <1> HIDE DEF y
  <1>9. y.fault = z.fault
    BY <1>7, <1>8 DEF Else
  <1> QED
    BY <1>2, <1>6, <1>9 DEF MissedFloor, y, z

\* A vehicle that has slowed under the whole span of the command is seen to
\* have stopped.
LEMMA SeenStopped ==
    ASSUME TypeOK, BrakeSlowed, StopWithin, latched, ~resisted, brake.age >= FloorSpan
    PROVE  standstill_now
  <1>1. /\ MaxSpeed \in Nat /\ FreshSpan \in Nat /\ FloorSpan \in Nat \ {0}
        /\ brake.age \in Nat /\ speedAge \in Nat /\ speed \in Nat
    BY SpanAssumption DEF TypeOK
  <1>2. seen /\ speedAge <= FreshSpan
    BY <1>1 DEF BrakeSlowed
  <1>3. speedAge < brake.age => speed = 0 \/ speed + brake.age <= MaxSpeed + speedAge
    BY DEF BrakeSlowed, Slowed
  <1>4. speed = 0
    BY <1>1, <1>2, <1>3 DEF StopWithin
  <1> QED
    BY <1>2, <1>4 DEF standstill_now, judge_standstill

\* ... and under route 4's span, to have responded.
LEMMA SeenSlowed ==
    ASSUME TypeOK, BrakeSlowed, DropWithin, latched, ~resisted,
           brake.age >= ResponseSpan, NEW x, IsTable(x), Held(x), Due(x, Response)
    PROVE  judge_responded(standstill_now, speed_fresh, x.ref, speed, Drop)
  <1>1. /\ Drop \in Nat /\ FreshSpan \in Nat /\ ResponseSpan \in Nat \ {0}
        /\ brake.age \in Nat /\ speedAge \in Nat /\ speed \in Nat /\ x.ref \in Nat
    BY SpanAssumption DEF TypeOK, IsTable
  <1>2. seen /\ speedAge <= FreshSpan
    BY <1>1 DEF BrakeSlowed
  <1>3. Response \in x.armed /\ x.left[Response] = 0
    BY DEF Due
  <1>4. speedAge < ResponseSpan =>
           speed = 0 \/ speed + ResponseSpan <= x.ref + FreshSpan + speedAge
    <2>1. ResponseSpan - 0 = ResponseSpan /\ ResponseSpan <= brake.age
      BY <1>1
    <2>2. Slowed(ResponseSpan, x.ref + FreshSpan)
      BY <1>3, <2>1 DEF Held
    <2> QED
      BY <2>2 DEF Slowed
  <1>5. speed = 0 \/ (x.ref >= speed /\ x.ref - speed >= Drop)
    BY <1>1, <1>2, <1>4 DEF DropWithin
  <1>6. speed_fresh /\ (speed = 0 => standstill_now)
    <2>1. ~(speedAge > FreshSpan)
      BY <1>1, <1>2
    <2> QED
      BY <1>2, <2>1 DEF speed_fresh, judge_stale, standstill_now, judge_standstill
  <1> QED
    BY <1>5, <1>6 DEF judge_responded

LEMMA FloorHeld ==
    ASSUME TypeOK, BrakeSlowed, NEW x, PassSound(x), Held(x), Earned(x)
    PROVE  Held(JudgeFloor(x)) /\ Earned(JudgeFloor(x))
  <1>1. IsTable(x) /\ {"fired", "latch", "fault"} \subseteq DOMAIN x
    BY DEF PassSound, Sound
  <1>2. Floor \in Routes \ {Response} /\ Floor \in {Floor, Response}
    BY RouteNumbers
  <1>3. CASE ~Due(x, Floor)
    BY <1>3 DEF JudgeFloor
  <1>4. CASE Due(x, Floor) /\ ~seen
    <2> DEFINE y == Arm(x, Floor, FloorSpan)
    <2>1. FloorSpan \in 0..(Never - 1)
      BY Spans
    <2>2. Else(x, y, {"armed", "left"}) /\ Kept(x, y)
      BY <1>1, <1>2, <2>1, ArmEffect, CallsKeep
    <2>3. JudgeFloor(x) = y
      BY <1>4 DEF JudgeFloor, judge_unseen
    <2> HIDE DEF y
    <2>4. y.fault = x.fault
      BY <1>1, <2>2 DEF Else
    <2> QED
      BY <2>2, <2>3, <2>4, KeptHeld DEF Earned
  <1>5. CASE Due(x, Floor) /\ seen
    <2> DEFINE verdict == judge_floor(standstill_now, latched, Braked, FloorSpan)
    <2>1. JudgeFloor(x) = FloorVerdict(x)
      BY <1>5 DEF JudgeFloor, judge_unseen
    <2>2. \/ verdict = "MET" /\ standstill_now
          \/ verdict = "LATCH"
          \/ verdict = "WAIT" /\ latched /\ ~(brake.age >= FloorSpan)
          \/ verdict = "VEHICLE_FAULT" /\ latched /\ ~standstill_now /\ brake.age >= FloorSpan
      BY DEF judge_floor, Braked
    <2> HIDE DEF verdict
    <2>3. CASE verdict = "MET"
      <3>1. FloorVerdict(x) = [Disarm(x, {Floor, Response}) EXCEPT !.stage = "IDLE"]
        BY <2>3 DEF FloorVerdict, verdict
      <3> DEFINE y == [Disarm(x, {Floor, Response}) EXCEPT !.stage = "IDLE"]
      <3>2. Held(y) /\ y.fault = x.fault
        BY <1>2, FloorCleared
      <3>3. JudgeFloor(x) = y
        BY <2>1, <3>1
      <3> HIDE DEF y
      <3> QED
        BY <3>2, <3>3 DEF Earned
    <2>4. CASE verdict = "LATCH"
      <3>1. FloorVerdict(x) = MissedFloor(x, Floor)
        BY <2>4 DEF FloorVerdict, verdict
      <3> QED
        BY <1>2, <2>1, <3>1, MissHeld DEF Earned
    <2>5. CASE verdict = "WAIT" /\ ~(brake.age >= FloorSpan)
      <3> DEFINE t == FloorSpan - brake.age
                 z == Arm(x, Floor, t)
                 y == [z EXCEPT !.stage = "DIRECT"]
      <3>1. FloorVerdict(x) = y
        BY <2>5 DEF FloorVerdict, verdict
      <3>2. t \in 0..(Never - 1)
        BY <2>5, Spans, SpanAssumption DEF TypeOK
      <3> HIDE DEF t
      <3>3. Else(x, z, {"armed", "left"}) /\ Kept(x, y)
        BY <1>1, <1>2, <3>2, ArmEffect, CallsKeep
      <3> HIDE DEF z
      <3>4. y.fault = x.fault
        BY <1>1, <3>3 DEF Else
      <3> HIDE DEF y
      <3> QED
        BY <2>1, <3>1, <3>3, <3>4, KeptHeld DEF Earned
    <2>6. CASE verdict = "VEHICLE_FAULT" /\ latched /\ ~standstill_now /\ brake.age >= FloorSpan
      <3>1. FloorVerdict(x) = VehicleFault(x, Floor)
        BY <2>6 DEF FloorVerdict, verdict
      <3>2. StopWithin => resisted
        <4>1. resisted \in BOOLEAN
          BY DEF TypeOK
        <4> QED
          BY <2>6, <4>1, SeenStopped
      <3> QED
        BY <1>2, <2>1, <3>1, <3>2, FloorCleared DEF Earned
    <2> QED
      BY <2>2, <2>3, <2>4, <2>5, <2>6
  <1> QED
    BY <1>3, <1>4, <1>5 DEF TypeOK

LEMMA ResponseHeld ==
    ASSUME TypeOK, BrakeSlowed, NEW x, PassSound(x), Held(x), Earned(x)
    PROVE  Held(JudgeResponse(x)) /\ Earned(JudgeResponse(x))
  <1> DEFINE responded == judge_responded(standstill_now, speed_fresh, x.ref, speed, Drop)
             verdict == judge_floor(responded, latched, Braked, ResponseSpan)
  <1>1. IsTable(x) /\ {"fired", "latch", "fault"} \subseteq DOMAIN x
    BY DEF PassSound, Sound
  <1>2. /\ Response \in {Floor, Response} /\ Response \in Routes
        /\ {Response} \in SUBSET Routes
    BY RouteNumbers
  <1>3. CASE ~Due(x, Response)
    BY <1>3 DEF JudgeResponse
  <1>4. CASE Due(x, Response)
    <2>1. \/ verdict = "MET"
          \/ verdict = "LATCH"
          \/ verdict = "WAIT" /\ latched /\ ~(brake.age >= ResponseSpan)
          \/ verdict = "VEHICLE_FAULT" /\ latched /\ ~responded /\ brake.age >= ResponseSpan
      BY DEF judge_floor, Braked
    <2>2. JudgeResponse(x) =
             CASE verdict = "MET" -> Disarm(x, {Response})
               [] verdict = "WAIT" ->
                    response_arm(Disarm(x, {Response}), ResponseSpan - brake.age,
                                 brake.ref, brake.ok)
               [] verdict = "LATCH" -> MissedFloor(x, Response)
               [] verdict = "VEHICLE_FAULT" -> VehicleFault(x, Response)
      BY <1>4 DEF JudgeResponse
    <2> HIDE DEF verdict
    <2> DEFINE z == Disarm(x, {Response})
    <2>3. /\ IsTable(z) /\ Else(x, z, {"armed", "left"})
          /\ z.armed = x.armed \ {Response} /\ Kept(x, z)
      BY <1>1, <1>2, DisarmEffect, CallsKeep
    <2> HIDE DEF z
    <2>4. z.fault = x.fault /\ "fault" \in DOMAIN z
      BY <1>1, <2>3 DEF Else
    <2>5. CASE verdict = "MET"
      <3>1. JudgeResponse(x) = z
        BY <2>2, <2>5 DEF z
      <3> QED
        BY <2>3, <2>4, <3>1, KeptHeld DEF Earned
    <2>6. CASE verdict = "LATCH"
      <3>1. JudgeResponse(x) = MissedFloor(x, Response)
        BY <2>2, <2>6
      <3> QED
        BY <1>2, <3>1, MissHeld DEF Earned
    <2>7. CASE verdict = "WAIT" /\ ~(brake.age >= ResponseSpan)
      <3> DEFINE t == ResponseSpan - brake.age
                 y == response_arm(z, t, brake.ref, brake.ok)
      <3>1. JudgeResponse(x) = y
        BY <2>2, <2>7 DEF z
      <3>2. /\ brake.age \in Nat /\ ResponseSpan \in Nat /\ t \in 0..(Never - 1)
            /\ t <= ResponseSpan /\ ResponseSpan - t = brake.age
            /\ brake.ref \in 0..MaxSpeed /\ brake.ok \in BOOLEAN
        BY <2>7, Spans, SpanAssumption DEF TypeOK
      <3> HIDE DEF t
      <3>3. Else(z, y, {"armed", "left", "ref"})
        BY <2>3, <3>2, ResponseEffect
      <3>4. Response \in y.armed => y.left[Response] = t /\ y.ref = brake.ref
        <4>1. CASE ~UseResponse
          BY <2>3, <4>1 DEF response_arm
        <4>2. CASE UseResponse /\ ~brake.ok
          <5>1. y = Disarm(z, {Response})
            BY <4>2 DEF response_arm
          <5>2. Disarm(z, {Response}).armed = z.armed \ {Response}
            BY <1>2, <2>3, DisarmEffect
          <5> QED
            BY <5>1, <5>2
        <4>3. CASE UseResponse /\ brake.ok
          <5> DEFINE u == Arm(z, Response, t)
          <5>1. y = [u EXCEPT !.ref = brake.ref]
            BY <4>3 DEF response_arm
          <5>2. IsTable(u) /\ u.left[Response] = t
            BY <1>2, <2>3, <3>2, ArmEffect
          <5> HIDE DEF u, y
          <5> QED
            BY <5>1, <5>2 DEF IsTable
        <4> QED
          BY <4>1, <4>2, <4>3
      <3> HIDE DEF y
      <3>5. y.fault = z.fault
        BY <2>4, <3>3 DEF Else
      <3>6. Held(y)
        <4>1. latched /\ ~resisted => Slowed(brake.age, brake.ref + FreshSpan)
          BY DEF BrakeSlowed
        <4> QED
          BY <3>2, <3>4, <4>1 DEF Held
      <3> QED
        BY <2>4, <3>1, <3>5, <3>6 DEF Earned
    <2>8. CASE verdict = "VEHICLE_FAULT" /\ latched /\ ~responded /\ brake.age >= ResponseSpan
      <3>1. JudgeResponse(x) = VehicleFault(x, Response)
        BY <2>2, <2>8
      <3>2. DropWithin => resisted
        <4>1. resisted \in BOOLEAN
          BY DEF TypeOK
        <4>2. ASSUME DropWithin, ~resisted PROVE FALSE
          BY <1>1, <1>4, <2>8, <4>2, SeenSlowed
        <4> QED
          BY <4>1, <4>2
      <3> QED
        BY <1>2, <3>1, <3>2, FloorCleared DEF Earned
    <2> QED
      BY <2>1, <2>5, <2>6, <2>7, <2>8
  <1> QED
    BY <1>3, <1>4

\* A pass holds route 4's reference, and blames a vehicle that has resisted.
LEMMA JudgedHeld ==
    ASSUME IInv, FInv
    PROVE  Held(Judged) /\ Earned(Judged)
  <1> DEFINE x0 == [armed |-> armed, left |-> left, stage |-> stage, ref |-> ref,
                    fired |-> fired, latch |-> FALSE, fault |-> fault]
             x1 == JudgeHpcLoss(x0)
             x2 == JudgeExecutor(x1)
             x3 == JudgeComfortable(x2)
             x4 == JudgeFloor(x3)
  <1>1. TypeOK /\ ExecLate /\ BrakeSeen /\ BrakeSlowed
    BY DEF IInv, FInv
  <1>2. PassSound(x0)
    <2>1. Sound(x0, seen, exec)
      BY DEF IInv, Sound, IsTable, FloorSound, ExecSound, table
    <2> QED
      BY <2>1 DEF IInv, PassSound, FaultSeen, TypeOK
  <1>3. Held(x0) /\ Earned(x0)
    BY DEF FInv, Held, Earned, table
  <1> HIDE DEF x0
  <1>4. PassSound(x1)
    BY <1>2, RouteNumbers, MissedSound DEF JudgeHpcLoss
  <1>5. Held(x1) /\ Earned(x1)
    BY <1>1, <1>2, <1>3, OthersJudged
  <1> HIDE DEF x1
  <1>6. PassSound(x2)
    BY <1>1, <1>4, ExecutorSound
  <1>7. Held(x2) /\ Earned(x2)
    BY <1>1, <1>4, <1>5, OthersJudged
  <1> HIDE DEF x2
  <1>8. PassSound(x3)
    BY <1>6, ComfortableSound
  <1>9. Held(x3) /\ Earned(x3)
    BY <1>1, <1>6, <1>7, OthersJudged
  <1> HIDE DEF x3
  <1>10. PassSound(x4)
    BY <1>1, <1>8, FloorJudgedSound
  <1>11. Held(x4) /\ Earned(x4)
    BY <1>1, <1>8, <1>9, FloorHeld
  <1> HIDE DEF x4
  <1>12. Held(JudgeResponse(x4)) /\ Earned(JudgeResponse(x4))
    BY <1>1, <1>10, <1>11, ResponseHeld
  <1> QED
    BY <1>12 DEF Judged, x4, x3, x2, x1, x0

-----------------------------------------------------------------------------
(* The steps.                                                              *)

\* A service of the direct path: the command goes on, or it starts now, against
\* a speed that is true unless it is misread.
LEMMA ServiceHeld ==
    ASSUME TypeOK, BrakeSlowed, NEW x, IsTable(x), Held(x), NEW b, NEW next,
           direct_service(x, b, next), latched',
           (latched /\ b = brake) \/ (~latched /\ b = BrakeNow),
           UNCHANGED <<vel, speed, speedAge, seen, noting>>
    PROVE  FInv'
  <1> DEFINE restart == OperatorSlot \in Silent
             y == StartSettle(x, "DIRECT")
  <1>1. /\ brake' = IF restart THEN BrakeNow ELSE b
        /\ resisted' = IF restart \/ ~latched THEN Misread ELSE resisted
        /\ SetRoutes(y) \/ SetRoutes(x)
        /\ ~restart => SetRoutes(x)
    BY DEF direct_service, Rearm
  <1>2. /\ MaxSpeed \in Nat /\ FreshSpan \in Nat /\ ResponseSpan \in Nat
        /\ speedAge \in Nat /\ speed \in Nat /\ vel \in 0..MaxSpeed
        /\ latched \in BOOLEAN /\ resisted \in BOOLEAN
    BY SpanAssumption DEF TypeOK
  <1> HIDE DEF restart
  <1>3. CASE restart \/ ~latched
    <2>1. brake'.age = 0 /\ brake'.ref = speed
      BY <1>1, <1>3 DEF BrakeNow
    <2>2. ~resisted' =>
             /\ vel <= speed + FreshSpan
             /\ Response \in armed' /\ left'[Response] = ResponseSpan => vel <= ref' + FreshSpan
      <3>1. resisted' = Misread
        BY <1>1, <1>3
      <3>2. ref' \in Nat
        <4>1. IsTable(y)
          BY SettleEffect DEF TypeOK, FloorStages
        <4> HIDE DEF y
        <4> QED
          BY <1>1, <1>2, <4>1 DEF SetRoutes, IsTable
      <3>3. ~resisted' =>
               /\ ~(vel > speed + FreshSpan)
               /\ Response \in armed' /\ left'[Response] = ResponseSpan
                     => ~(vel > ref' + FreshSpan)
        BY <3>1, Zenon DEF Misread
      <3>4. /\ ~(vel > speed + FreshSpan) => vel <= speed + FreshSpan
            /\ ~(vel > ref' + FreshSpan) => vel <= ref' + FreshSpan
        <4>1. \A a, c, d \in Nat : ~(a > c + d) => a <= c + d
          OBVIOUS
        <4>2. vel \in Nat
          BY <1>2
        <4> QED
          BY <1>2, <3>2, <4>1, <4>2
      <3> QED
        BY <3>3, <3>4, Zenon
    <2>3. BrakeSlowed'
      BY <1>2, <2>1, <2>2 DEF BrakeSlowed, Slowed
    <2>4. Response \in armed' => left'[Response] <= ResponseSpan /\ left'[Response] \in Nat
      <3>1. CASE SetRoutes(x)
        BY <3>1, RouteNumbers DEF SetRoutes, Held, IsTable
      <3>2. CASE SetRoutes(y)
        <4>1. "DIRECT" \in FloorStages
          BY DEF FloorStages
        <4>2. Held(y)
          BY <4>1, SettleHeld
        <4>3. IsTable(y)
          BY <4>1, SettleEffect DEF TypeOK
        <4> HIDE DEF y
        <4> QED
          BY <3>2, <4>2, <4>3, RouteNumbers DEF SetRoutes, Held, IsTable
      <3> QED
        BY <1>1, <3>1, <3>2
    <2>5. Held(table)'
      <3> SUFFICES ASSUME Response \in armed'
                   PROVE  /\ left'[Response] <= ResponseSpan
                          /\ ~resisted' /\ ResponseSpan - left'[Response] <= 0 =>
                                Slowed(ResponseSpan - left[Response], ref + FreshSpan)'
        BY <2>1 DEF Held, table
      <3>1. left'[Response] \in Nat /\ left'[Response] <= ResponseSpan
        BY <2>4
      <3>2. ASSUME ~resisted', ResponseSpan - left'[Response] <= 0
            PROVE  Slowed(ResponseSpan - left[Response], ref + FreshSpan)'
        <4>1. left'[Response] = ResponseSpan /\ ResponseSpan - left'[Response] = 0
          BY <1>2, <3>1, <3>2
        <4>2. vel <= ref' + FreshSpan
          BY <2>2, <3>2, <4>1
        <4>3. (vel = 0 \/ vel + 0 <= ref' + FreshSpan) /\ ~(speedAge < 0)
          BY <1>2, <4>2
        <4> QED
          BY <4>1, <4>3 DEF Slowed
      <3> QED
        BY <3>1, <3>2
    <2> QED
      BY <2>3, <2>5 DEF FInv
  <1>4. CASE ~restart /\ latched
    <2>1. brake' = brake /\ resisted' = resisted /\ SetRoutes(x) /\ latched' = latched
      BY <1>1, <1>4
    <2>2. BrakeSlowed'
      BY <1>4, <2>1 DEF BrakeSlowed, Slowed
    <2>3. Held(table)'
      BY <1>4, <2>1 DEF Held, Slowed, SetRoutes, table
    <2> QED
      BY <2>2, <2>3 DEF FInv
  <1> QED
    BY <1>2, <1>3, <1>4

LEMMA ThreadHeld ==
    ASSUME IInv, FInv, ReactionPass \/ TimeoutWake
    PROVE  FInv'
  <1>1. TypeOK /\ BrakeSlowed /\ IsTable(table) /\ Held(table)
    BY DEF IInv, FInv, Sound
  <1>2. UNCHANGED <<vel, speed, speedAge, seen, noting>>
    BY DEF ReactionPass, TimeoutWake, speedVars, envVars
  <1>3. CASE TimeoutWake
    <2> DEFINE t == [armed |-> armed, left |-> left, stage |-> stage,
                     ref |-> ref, timer |-> timer]
    <2>1. direct_service(t, brake, directNext) /\ latched /\ latched'
      BY <1>3 DEF TimeoutWake
    <2>2. IsTable(t) /\ Held(t)
      BY <1>1 DEF IsTable, Held, table
    <2> HIDE DEF t
    <2> QED
      BY <1>1, <1>2, <2>1, <2>2, ServiceHeld
  <1>4. CASE ReactionPass
    <2> DEFINE x == Judged
               t == [armed |-> x.armed, left |-> x.left, stage |-> x.stage,
                     ref |-> x.ref, timer |-> Earliest(x)]
    <2>1. PassSound(x) /\ Held(x)
      BY JudgedSound, JudgedHeld
    <2>2. \/ ~latched' /\ SetRoutes(t)
          \/ latched' /\ ~latched /\ direct_service(t, BrakeNow, 0)
          \/ latched' /\ latched /\ direct_service(t, brake, directNext)
      BY <1>1, <1>4 DEF ReactionPass, TypeOK
    <2> HIDE DEF x
    <2>3. IsTable(t) /\ Held(t) /\ t.armed = x.armed /\ t.left = x.left
      BY <2>1 DEF PassSound, Sound, IsTable, Held
    <2> HIDE DEF t
    <2>4. CASE ~latched' /\ SetRoutes(t)
      BY <2>3, <2>4 DEF FInv, BrakeSlowed, Held, SetRoutes, table
    <2>5. CASE latched' /\ ~latched /\ direct_service(t, BrakeNow, 0)
      BY <1>1, <1>2, <2>3, <2>5, ServiceHeld
    <2>6. CASE latched' /\ latched /\ direct_service(t, brake, directNext)
      BY <1>1, <1>2, <2>3, <2>6, ServiceHeld
    <2> QED
      BY <2>2, <2>4, <2>5, <2>6
  <1> QED
    BY <1>3, <1>4

\* Calls on the table by the spin threads.
LEMMA CallHeld ==
    ASSUME TypeOK, BrakeSlowed, NEW x, Held(x), SetRoutes(x),
           UNCHANGED <<latched, resisted, brake, vel, speed, speedAge, seen, noting>>
    PROVE  FInv'
  <1>1. BrakeSlowed'
    BY DEF BrakeSlowed, Slowed
  <1>2. Held(table)'
    BY DEF Held, Slowed, SetRoutes, table
  <1> QED
    BY <1>1, <1>2 DEF FInv

\* island_supervisor_arm and island_supervisor_done hold route 4's reference.
LEMMA ArmDoneHeld ==
    ASSUME TypeOK, BrakeSlowed, NEW x, IsTable(x), Held(x), NEW r \in Routes \ {Response}
    PROVE  /\ \A t \in 0..(Never - 1) : Held(ArmRoute(x, r, t))
           /\ Held(DoneRoute(x, r))
  <1>1. ASSUME NEW t \in 0..(Never - 1) PROVE Held(ArmRoute(x, r, t))
    <2>1. CASE r = Floor
      BY <2>1, SettleHeld DEF ArmRoute, FloorStages
    <2>2. CASE r # Floor
      <3>1. Kept(x, Arm(x, r, t))
        BY CallsKeep
      <3> QED
        BY <2>2, <3>1, KeptHeld DEF ArmRoute
    <2> QED
      BY <2>1, <2>2
  <1>2. Held(DoneRoute(x, r))
    <2>1. {Floor, Response} \in SUBSET Routes /\ {r} \in SUBSET Routes
      BY RouteNumbers
    <2>2. /\ Kept(x, [Disarm(x, {Floor, Response}) EXCEPT !.stage = "IDLE"])
          /\ Kept(x, Disarm(x, {r}))
      BY <2>1, CallsKeep
    <2> QED
      BY <2>2, KeptHeld DEF DoneRoute
  <1> QED
    BY <1>1, <1>2

LEMMA SpinHeld ==
    ASSUME IInv, FInv, TakeAvailability \/ HandlerAct \/ SpinArm
    PROVE  FInv'
  <1> USE DEF routeVars, latchVars, speedVars, directVars, envVars, history
  <1>1. TypeOK /\ BrakeSlowed /\ Sound(table, seen, exec) /\ IsTable(table) /\ Held(table)
    BY DEF IInv, FInv, Sound
  <1>2. UNCHANGED <<latched, resisted, brake, vel, speed, speedAge, seen, noting>>
    BY DEF TakeAvailability, HandlerAct, SpinArm
  <1>3. {CallMrmSpan, ComfortableSpan, FloorSpan} \subseteq 0..(Never - 1)
    BY Spans
  <1>4. {HpcLoss, Comfortable, Floor, Executor} \subseteq Routes \ {Response}
    BY RouteNumbers
  <1>5. \A r \in {HpcLoss, Comfortable, Floor, Executor} :
           /\ \A t \in 0..(Never - 1) :
                 Held(ArmRoute(table, r, t))
           /\ Held(DoneRoute(table, r))
    BY <1>1, <1>4, ArmDoneHeld
  <1>6. \E x : Held(x) /\ SetRoutes(x)
    <2>1. CASE TakeAvailability
      <3>1. SetRoutes(ArmRoute(table, HpcLoss, CallMrmSpan))
        BY <2>1 DEF TakeAvailability, Rearm
      <3> QED
        BY <1>3, <1>5, <3>1
    <2>2. CASE SpinArm
      <3>1. \/ SetRoutes(DoneRoute(table, Executor))
            \/ /\ exec.us # Answered
               /\ \E y \in 0..1 : SetRoutes(ArmRoute(table, Executor, exec.us + y))
        BY <2>2 DEF SpinArm
      <3>2. exec.us # Answered => exec.us \in 0..ExecSpan
        BY <1>1, SpanAssumption DEF TypeOK, ExecStates, Answered
      <3>3. exec.us # Answered => \A y \in 0..1 : exec.us + y \in 0..(Never - 1)
        BY <3>2, Spans, SpanAssumption
      <3> QED
        BY <1>5, <3>1, <3>3
    <2>3. CASE HandlerAct
      <3>1. \A x, c : Decides(x, c) => SetRoutes(x)
        BY DEF Decides
      <3>2. \E x, c : Decides(x, c) /\ Held(x)
        <4>1. \A x \in {table, DoneRoute(table, Comfortable)} :
                 Held(ArmRoute(x, Floor, FloorSpan))
          <5>1. IsTable(DoneRoute(table, Comfortable)) /\ Held(DoneRoute(table, Comfortable))
            <6>1. Sound(DoneRoute(table, Comfortable), seen, exec)
              BY <1>1, RouteNumbers, DoneRouteSound
            <6> QED
              BY <1>5, <6>1 DEF Sound
          <5> QED
            BY <1>1, <1>3, <1>4, <5>1, ArmDoneHeld
        <4>2. RouteOf(calling) \in {HpcLoss, Comfortable, Floor, Executor}
          BY DEF RouteOf
        <4>3. HandlerDecision
          BY <2>3 DEF HandlerAct
        <4> QED
          BY <1>1, <1>3, <1>5, <4>1, <4>2, <4>3 DEF HandlerDecision
      <3> QED
        BY <3>1, <3>2
    <2> QED
      BY <2>1, <2>2, <2>3
  <1> QED
    BY <1>1, <1>2, <1>6, CallHeld

\* Steps that move neither the table, the command nor the vehicle's speed.
LEMMA AsideHeld ==
    ASSUME FInv,
           \/ due_expiry \/ swt_first_timeout \/ HookNote \/ HookGive
           \/ HandlerBegin \/ OperatorCheck \/ ExecTake \/ ExecAnswer \/ SpinRead
           \/ \E i \in Slots : HandoverStamp(i) \/ HandoverFlag(i) \/ HandoverGive(i)
                                 \/ TickEnd(i)
           \/ UNCHANGED vars
    PROVE  FInv'
  <1> USE DEF routeVars, latchVars, speedVars, directVars, envVars, history, vars
  <1>1. UNCHANGED <<armed, left, ref, stage, latched, resisted, brake, vel, speed,
                    speedAge, seen, noting>>
    BY DEF due_expiry, swt_first_timeout, HookNote, HookGive, HandlerBegin,
           OperatorCheck, ExecTake, ExecAnswer, SpinRead, HandoverStamp,
           HandoverFlag, HandoverGive, TickEnd
  <1> QED
    BY <1>1 DEF FInv, BrakeSlowed, Held, Slowed, table

\* The two stores of note_speed: the speed is the vehicle's, and no time passes
\* for a vehicle that has not resisted before its stamp is there too.
LEMMA NoteHeld ==
    ASSUME IInv, FInv, NoteSpeed \/ NoteStamp
    PROVE  FInv'
  <1> USE DEF routeVars, latchVars, directVars, envVars, history
  <1>1. /\ TypeOK /\ BrakeSlowed /\ Held(table) /\ IsTable(table)
        /\ FreshSpan \in Nat /\ MaxSpeed \in Nat /\ ResponseSpan \in Nat
        /\ vel \in Nat /\ speed \in Nat /\ speedAge \in Nat /\ brake.age \in Nat
        /\ brake.ref \in Nat /\ ref \in Nat /\ left \in [Routes -> 0..(Never - 1)]
    BY SpanAssumption DEF IInv, FInv, Sound, TypeOK, IsTable, table
  <1>2. UNCHANGED <<armed, left, ref, stage, latched, resisted, brake, vel>>
    BY DEF NoteSpeed, NoteStamp
  <1>3. \/ speed' = vel /\ UNCHANGED <<speedAge, seen>>
        \/ noting /\ speedAge' = 0 /\ seen' /\ ~noting' /\ UNCHANGED speed
    BY DEF NoteSpeed, NoteStamp
  <1>4. ASSUME NEW e \in Nat, NEW m \in Nat, e <= brake.age, latched, ~resisted,
               Slowed(e, m)
        PROVE  (vel = 0 \/ vel + e <= m)
               /\ (speedAge' < e => speed' = 0 \/ speed' + e <= m + speedAge')
    <2>1. CASE speed' = vel /\ UNCHANGED <<speedAge, seen>>
      BY <1>1, <1>4, <2>1 DEF Slowed
    <2>2. CASE noting /\ speedAge' = 0 /\ UNCHANGED speed
      <3>1. 0 < e => speed = vel
        BY <1>1, <1>4, <2>2 DEF BrakeSlowed
      <3>2. vel = 0 \/ vel + e <= m
        BY <1>4 DEF Slowed
      <3>3. speedAge' < e => speed' = 0 \/ speed' + e <= m + speedAge'
        BY <1>1, <1>4, <2>2, <3>1, <3>2
      <3> QED
        BY <3>2, <3>3
    <2> QED
      BY <1>3, <2>1, <2>2
  <1>5. BrakeSlowed'
    <2> SUFFICES ASSUME latched, ~resisted
                 PROVE  /\ brake.age > 0 => seen' /\ speedAge' <= FreshSpan
                        /\ brake.age > 0 /\ noting' => speed' = vel
                        /\ vel <= speed' + FreshSpan
                        /\ Slowed(brake.age, MaxSpeed)'
                        /\ Slowed(brake.age, brake.ref + FreshSpan)'
      BY <1>2 DEF BrakeSlowed
    <2>1. /\ brake.age > 0 => seen' /\ speedAge' <= FreshSpan
          /\ brake.age > 0 /\ noting' => speed' = vel
          /\ vel <= speed' + FreshSpan
      BY <1>1, <1>3 DEF BrakeSlowed
    <2>2. /\ brake.ref + FreshSpan \in Nat /\ brake.age <= brake.age
          /\ Slowed(brake.age, MaxSpeed) /\ Slowed(brake.age, brake.ref + FreshSpan)
      BY <1>1 DEF BrakeSlowed
    <2>3. Slowed(brake.age, MaxSpeed)' /\ Slowed(brake.age, brake.ref + FreshSpan)'
      BY <1>1, <1>2, <1>4, <2>2 DEF Slowed
    <2> QED
      BY <2>1, <2>3
  <1>6. Held(table)'
    <2> DEFINE e == ResponseSpan - left[Response]
    <2> SUFFICES ASSUME Response \in armed
                 PROVE  /\ left[Response] <= ResponseSpan
                        /\ latched /\ ~resisted /\ e <= brake.age =>
                              Slowed(ResponseSpan - left[Response], ref + FreshSpan)'
      BY <1>2 DEF Held, table
    <2>1. /\ left[Response] <= ResponseSpan
          /\ latched /\ ~resisted /\ e <= brake.age => Slowed(e, ref + FreshSpan)
      BY <1>1 DEF Held, table
    <2>2. e \in Nat /\ ref + FreshSpan \in Nat
      BY <1>1, <2>1, RouteNumbers
    <2> HIDE DEF e
    <2>3. ASSUME latched, ~resisted, e <= brake.age
          PROVE  (vel = 0 \/ vel + e <= ref + FreshSpan)
                 /\ (speedAge' < e => speed' = 0 \/ speed' + e <= ref + FreshSpan + speedAge')
      BY <1>4, <2>1, <2>2, <2>3
    <2> QED
      BY <1>2, <2>1, <2>3 DEF Slowed, e
  <1> QED
    BY <1>5, <1>6 DEF FInv

\* A unit under the command that the vehicle does not resist slows it by one.
LEMMA AdvanceHeld ==
    ASSUME IInv, FInv, Advance
    PROVE  FInv'
  <1>1. /\ TypeOK /\ BrakeSlowed /\ Held(table) /\ IsTable(table) /\ DuesCovered
        /\ FreshSpan \in Nat /\ MaxSpeed \in Nat /\ ResponseSpan \in Nat
        /\ FloorSpan \in Nat /\ ResponseSpan <= FloorSpan
        /\ vel \in Nat /\ speed \in Nat /\ speedAge \in Nat /\ brake.age \in 0..FloorSpan
        /\ brake.ref \in Nat /\ ref \in Nat /\ left \in [Routes -> 0..(Never - 1)]
        /\ seen \in BOOLEAN /\ latched \in BOOLEAN /\ Never \in Nat /\ timer \in 0..Never
    BY SpanAssumption, Spans DEF IInv, FInv, Sound, TypeOK, IsTable, table
  <1>2. /\ UNCHANGED <<armed, ref, stage, latched, speed, seen, noting>>
        /\ wake = 0 /\ timer # 0
        /\ left' = [r \in Routes |-> Down(left[r])]
        /\ brake' = IF latched THEN [brake EXCEPT !.age = Older(@, FloorSpan)] ELSE brake
        /\ speedAge' = IF seen THEN Older(speedAge, FreshSpan + 1) ELSE speedAge
        /\ resisted' = (resisted \/ (latched /\ (vel' # Down(vel) \/ noting
                                             \/ ~seen \/ speedAge >= FreshSpan)))
    BY DEF Advance, Quiet, VehicleMoves
  <1>3. Response \in armed =>
           /\ left[Response] \in Nat /\ left[Response] >= 1
           /\ left'[Response] = left[Response] - 1
    <2> SUFFICES ASSUME Response \in armed
                 PROVE  /\ left[Response] \in Nat /\ left[Response] >= 1
                        /\ left'[Response] = left[Response] - 1
      OBVIOUS
    <2>1. timer <= left[Response] /\ left[Response] \in Nat
      BY <1>1, <1>2, RouteNumbers DEF DuesCovered
    <2>2. left[Response] >= 1
      BY <1>1, <1>2, <2>1
    <2>3. left'[Response] = Down(left[Response])
      BY <1>2, RouteNumbers
    <2> QED
      BY <2>1, <2>2, <2>3 DEF Down
  <1>4. Response \in armed => left[Response] <= ResponseSpan
    BY <1>1 DEF Held, table
  <1>5. CASE ~latched \/ resisted'
    <2>1. BrakeSlowed'
      BY <1>2, <1>5 DEF BrakeSlowed
    <2>2. Held(table)'
      BY <1>1, <1>2, <1>3, <1>4, <1>5 DEF Held, table
    <2> QED
      BY <2>1, <2>2 DEF FInv
  <1>6. CASE latched /\ ~resisted'
    <2>1. ~resisted /\ vel' = Down(vel) /\ ~noting /\ seen /\ ~(speedAge >= FreshSpan)
      BY <1>2, <1>6, Zenon
    <2>2. speedAge' = speedAge + 1 /\ speedAge + 1 <= FreshSpan
      BY <1>1, <1>2, <2>1 DEF Older
    <2>3. vel' \in Nat /\ vel' <= vel /\ (vel # 0 => vel' = vel - 1) /\ (vel = 0 => vel' = 0)
      BY <1>1, <2>1 DEF Down
    <2>4. /\ brake'.age \in Nat /\ brake'.ref = brake.ref
          /\ (brake.age < FloorSpan /\ brake'.age = brake.age + 1)
               \/ (brake.age = FloorSpan /\ brake'.age = brake.age)
      <3>1. brake \in [age : 0..FloorSpan, ref : 0..MaxSpeed, ok : BOOLEAN]
        BY <1>1 DEF TypeOK
      <3>2. brake'.age = Older(brake.age, FloorSpan) /\ brake'.ref = brake.ref
        BY <1>2, <1>6, <3>1
      <3> QED
        BY <1>1, <3>2 DEF Older
    <2>5. ASSUME NEW e \in Nat, NEW m \in Nat, Slowed(e, m), NEW d \in {e, e + 1}
          PROVE  /\ vel' = 0 \/ vel' + d <= m
                 /\ speedAge' < d => speed' = 0 \/ speed' + d <= m + speedAge'
      <3>1. /\ vel = 0 \/ vel + e <= m
            /\ speedAge < e => speed = 0 \/ speed + e <= m + speedAge
        BY <2>5 DEF Slowed
      <3>2. vel' = 0 \/ vel' + d <= m
        <4>1. \A v, w \in Nat :
                 (v = 0 \/ v + e <= m) /\ (v # 0 => w = v - 1) /\ (v = 0 => w = 0)
                    => w = 0 \/ w + d <= m
          BY SMT
        <4>2. vel \in Nat /\ vel' \in Nat
          BY <1>1, <2>3
        <4> QED
          BY <2>3, <3>1, <4>1, <4>2, Zenon
      <3>3. speedAge' < d => speed = 0 \/ speed + d <= m + speedAge'
        BY <1>1, <2>2, <3>1
      <3>4. speed' = speed
        BY <1>2
      <3> QED
        BY <3>2, <3>3, <3>4, Zenon
    <2>6. BrakeSlowed'
      <3>1. /\ seen' /\ speedAge' <= FreshSpan /\ ~noting'
        BY <1>2, <2>1, <2>2
      <3>2. vel' <= speed' + FreshSpan
        <4>1. vel <= speed + FreshSpan
          BY <1>6, <2>1 DEF FInv, BrakeSlowed
        <4> QED
          BY <1>1, <1>2, <2>3, <4>1
      <3>3. /\ Slowed(brake.age, MaxSpeed) /\ Slowed(brake.age, brake.ref + FreshSpan)
            /\ brake.ref + FreshSpan \in Nat /\ brake.age \in Nat
            /\ brake'.age \in {brake.age, brake.age + 1}
        BY <1>1, <1>6, <2>1, <2>4 DEF BrakeSlowed
      <3>4. Slowed(brake.age, MaxSpeed)' /\ Slowed(brake.age, brake.ref + FreshSpan)'
        BY <1>1, <2>4, <2>5, <3>3 DEF Slowed
      <3> QED
        BY <3>1, <3>2, <3>4 DEF BrakeSlowed
    <2>7. Held(table)'
      <3> DEFINE e == ResponseSpan - left[Response]
                 f == ResponseSpan - left'[Response]
      <3> SUFFICES ASSUME Response \in armed
                   PROVE  /\ left'[Response] <= ResponseSpan
                          /\ f <= brake'.age =>
                                Slowed(ResponseSpan - left[Response], ref + FreshSpan)'
        BY <1>2 DEF Held, table
      <3>1. left'[Response] <= ResponseSpan /\ e \in Nat /\ f = e + 1 /\ e < ResponseSpan
        BY <1>1, <1>3, <1>4
      <3>2. e <= brake.age => Slowed(e, ref + FreshSpan)
        BY <1>1, <1>6, <2>1 DEF Held, table
      <3> HIDE DEF e
      <3>3. f \in {e, e + 1} /\ (f <= brake'.age => e <= brake.age)
        <4>1. f = e + 1 /\ e \in Nat /\ e < ResponseSpan /\ brake.age \in Nat
          BY <1>1, <3>1
        <4> HIDE DEF f
        <4> QED
          BY <1>1, <2>4, <4>1
      <3>4. f <= brake'.age =>
               /\ vel' = 0 \/ vel' + f <= ref + FreshSpan
               /\ speedAge' < f => speed' = 0 \/ speed' + f <= ref + FreshSpan + speedAge'
        <4>1. ref + FreshSpan \in Nat
          BY <1>1
        <4> HIDE DEF f
        <4> QED
          BY <2>5, <3>1, <3>2, <3>3, <4>1
      <3> QED
        BY <1>2, <3>1, <3>4 DEF Slowed
    <2> QED
      BY <2>6, <2>7 DEF FInv
  <1> QED
    BY <1>1, <1>5, <1>6

LEMMA FaultInit == Init => FInv
  BY DEF Init, FInv, BrakeSlowed, Held, table

LEMMA FaultStep == IInv /\ FInv /\ [Next]_vars => FInv'
  BY ThreadHeld, SpinHeld, AsideHeld, NoteHeld, AdvanceHeld
  DEF Next, Kernel, SpinThread

\* The vehicle has slowed, and is known to have, while it has not resisted.
THEOREM FaultInvariant == Spec => []FInv
  BY Invariant, FaultInit, FaultStep, PTL DEF Spec

\* No false vehicle fault: with spans that leave a stop and a drop the time they
\* take, only a vehicle that has resisted the braking command is blamed.
THEOREM FaultIsEarned ==
    ASSUME StopWithin, DropWithin
    PROVE  Spec => NoFalseFault
  <1>1. IInv /\ FInv /\ [Next]_vars => [~fault /\ fault' => resisted]_vars
    <2> SUFFICES ASSUME IInv, FInv, Next, ~fault, fault' PROVE resisted
      OBVIOUS
    <2>1. CASE ReactionPass
      <3>1. fault' = Judged.fault
        BY <2>1 DEF ReactionPass
      <3>2. Earned(Judged)
        BY JudgedHeld
      <3> QED
        BY <3>1, <3>2 DEF Earned
    <2>2. CASE ~ReactionPass
      <3>1. UNCHANGED fault
        BY <2>2
        DEF Next, Kernel, SpinThread, TimeoutWake, due_expiry, swt_first_timeout,
            HookNote, HookGive, NoteSpeed, NoteStamp, TakeAvailability, HandlerBegin,
            HandlerAct, OperatorCheck, HandoverStamp, HandoverFlag, HandoverGive,
            TickEnd, ExecTake, ExecAnswer, SpinRead, SpinArm, Advance, latchVars
      <3> QED
        BY <3>1
    <2> QED
      BY <2>1, <2>2
  <1> QED
    BY Invariant, FaultInvariant, <1>1, PTL DEF Spec, NoFalseFault
=============================================================================
