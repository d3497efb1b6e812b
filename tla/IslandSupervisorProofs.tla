----------------------- MODULE IslandSupervisorProofs -----------------------
(***************************************************************************)
(* Theorems about IslandSupervisor for every value of its constants: the   *)
(* types, the table of the routes, the one timer that covers its dues, the *)
(* causes of a latch and the executor's route.                             *)
(***************************************************************************)
EXTENDS IslandSupervisor, TLAPS, WellFoundedInduction

-----------------------------------------------------------------------------
(* Constants.                                                              *)

\* The spans are times; Never is later than each of them.
LEMMA Spans ==
    /\ ResumeLimit(HandlerSlot) \in Nat /\ ResumeLimit(OperatorSlot) \in Nat
    /\ ResumeLimit(HandlerSlot) > 0 /\ ResumeLimit(OperatorSlot) > 0
    /\ Never \in Nat
    /\ CallMrmSpan \in 0..(Never - 1) /\ ExecSpan + 1 \in 0..(Never - 1)
    /\ ComfortableSpan \in 0..(Never - 1) /\ FloorSpan \in 0..(Never - 1)
    /\ ResponseSpan \in 0..(Never - 1)
    /\ DirectPeriod < Never /\ SwtWait < Never
    /\ ResumeLimit(HandlerSlot) < Never /\ ResumeLimit(OperatorSlot) < Never
  <1>1. /\ ResumeLimit(HandlerSlot) \in Nat /\ ResumeLimit(HandlerSlot) > 0
        /\ ResumeLimit(OperatorSlot) \in Nat /\ ResumeLimit(OperatorSlot) > 0
    <2>1. \A p, q \in Nat \ {0} : p * q \in Nat /\ p * q > 0
      OBVIOUS
    <2> QED
      BY <2>1, SpanAssumption DEF ResumeLimit, SlotPeriod
  <1> QED
    BY <1>1, SpanAssumption DEF Never

\* A nonempty set of numbers has a least one.
LEMMA LeastNat ==
    ASSUME NEW T, T \subseteq Nat, T # {}
    PROVE  \E t \in T : \A u \in T : t <= u
  <1>1. \E t \in T : \A u \in T : ~(<<u, t>> \in OpToRel(<, Nat))
    BY WFMin, NatLessThanWellFounded
  <1>2. PICK t \in T : \A u \in T : ~(<<u, t>> \in OpToRel(<, Nat))
    BY <1>1
  <1>3. \A u \in T : ~(u < t)
    BY <1>2 DEF OpToRel
  <1> QED
    BY <1>3

-----------------------------------------------------------------------------
(* The table of the routes.                                                *)

IsTable(x) ==
    /\ {"armed", "left", "stage", "ref"} \subseteq DOMAIN x
    /\ x.armed \in SUBSET Routes
    /\ x.left \in [Routes -> 0..(Never - 1)]
    /\ x.stage \in FloorStages
    /\ x.ref \in 0..MaxSpeed

\* Route y's other fields are x's.
Else(x, y, S) == DOMAIN y = DOMAIN x /\ \A f \in DOMAIN x \ S : y[f] = x[f]

\* rearm_locked sets the timer at or before every armed due.
LEMMA EarliestCovers ==
    ASSUME NEW x, x.armed \in SUBSET Routes, x.left \in [Routes -> 0..(Never - 1)]
    PROVE  Earliest(x) \in 0..Never /\ \A r \in x.armed : Earliest(x) <= x.left[r]
  <1>1. CASE x.armed = {}
    BY <1>1, Spans DEF Earliest
  <1>2. CASE x.armed # {}
    <2> DEFINE T == {x.left[r] : r \in x.armed}
    <2>1. T \subseteq 0..(Never - 1) /\ T # {}
      BY <1>2
    <2>2. \E t \in T : \A u \in T : t <= u
      <3>1. T \subseteq Nat
        BY <2>1, Spans
      <3> HIDE DEF T
      <3> QED
        BY <2>1, <3>1, LeastNat
    <2>3. \E t \in T : \A r \in x.armed : t <= x.left[r]
      BY <2>2
    <2>4. Earliest(x) = CHOOSE t \in T : \A r \in x.armed : t <= x.left[r]
      BY <1>2 DEF Earliest
    <2>5. Earliest(x) \in T /\ \A r \in x.armed : Earliest(x) <= x.left[r]
      BY <2>3, <2>4
    <2> QED
      BY <2>1, <2>5, Spans
  <1> QED
    BY <1>1, <1>2

LEMMA ArmEffect ==
    ASSUME NEW x, IsTable(x), NEW r \in Routes, NEW t \in 0..(Never - 1)
    PROVE  LET y == Arm(x, r, t)
           IN  /\ IsTable(y) /\ Else(x, y, {"armed", "left"})
               /\ y.armed = x.armed \cup {r}
               /\ y.left[r] = t
               /\ \A q \in Routes \ {r} : y.left[q] = x.left[q]
  BY DEF Arm, IsTable, Else

LEMMA DisarmEffect ==
    ASSUME NEW x, IsTable(x), NEW S \in SUBSET Routes
    PROVE  LET y == Disarm(x, S)
           IN  /\ IsTable(y) /\ Else(x, y, {"armed", "left"})
               /\ y.armed = x.armed \ S
               /\ \A q \in Routes \ S : y.left[q] = x.left[q]
  <1> DEFINE y == Disarm(x, S)
             l == [r \in Routes |-> IF r \in S THEN 0 ELSE x.left[r]]
  <1>1. /\ l \in [Routes -> 0..(Never - 1)]
        /\ \A q \in Routes \ S : l[q] = x.left[q]
    BY Spans DEF IsTable
  <1>2. y = [x EXCEPT !.armed = x.armed \ S, !.left = l]
    BY DEF Disarm
  <1> HIDE DEF y, l
  <1>3. /\ Else(x, y, {"armed", "left"})
        /\ y.armed = x.armed \ S /\ y.left = l
    BY <1>2 DEF IsTable, Else
  <1>4. IsTable(y)
    BY <1>1, <1>3 DEF IsTable, Else
  <1> QED
    BY <1>1, <1>3, <1>4 DEF y

\* Same(x, y, S): of the routes, y moves those of S only.
Same(x, y, S) ==
    \A r \in Routes \ S : (r \in y.armed <=> r \in x.armed) /\ y.left[r] = x.left[r]

\* Route 4 is armed against a speed that was fresh, and moves alone.
LEMMA ResponseEffect ==
    ASSUME NEW x, IsTable(x), NEW t \in 0..(Never - 1), NEW v \in 0..MaxSpeed,
           NEW ok \in BOOLEAN
    PROVE  LET y == response_arm(x, t, v, ok)
           IN  /\ IsTable(y) /\ Else(x, y, {"armed", "left", "ref"})
               /\ Same(x, y, {Response})
               /\ Response \in y.armed => ok \/ Response \in x.armed
  <1> DEFINE y == response_arm(x, t, v, ok)
  <1>1. Response \in Routes /\ {Response} \in SUBSET Routes
    BY DEF Response, Routes
  <1>2. CASE ~UseResponse
    BY <1>2 DEF response_arm, Else, Same
  <1>3. CASE UseResponse /\ ~ok
    <2>1. y = Disarm(x, {Response})
      BY <1>3 DEF response_arm
    <2> HIDE DEF y
    <2> QED
      BY <1>1, <2>1, DisarmEffect DEF y, Else, Same
  <1>4. CASE UseResponse /\ ok
    <2> DEFINE z == Arm(x, Response, t)
    <2>1. y = [z EXCEPT !.ref = v]
      BY <1>4 DEF response_arm
    <2>2. /\ IsTable(z) /\ Else(x, z, {"armed", "left"})
          /\ z.armed = x.armed \cup {Response}
          /\ \A q \in Routes \ {Response} : z.left[q] = x.left[q]
      BY <1>1, ArmEffect
    <2> HIDE DEF y, z
    <2>3. /\ IsTable(y) /\ Else(z, y, {"ref"})
          /\ y.armed = z.armed /\ y.left = z.left
      BY <2>1, <2>2 DEF IsTable, Else
    <2>4. Else(x, y, {"armed", "left", "ref"}) /\ Same(x, y, {Response})
      BY <2>2, <2>3 DEF Else, Same
    <2> QED
      BY <1>4, <2>3, <2>4 DEF y
  <1> QED
    BY <1>2, <1>3, <1>4

\* A settle arms route 3 in its stage, and route 4 if the vehicle was seen.
LEMMA SettleEffect ==
    ASSUME NEW x, IsTable(x), NEW s \in FloorStages,
           speed \in 0..MaxSpeed, seen \in BOOLEAN
    PROVE  LET y == StartSettle(x, s)
           IN  /\ IsTable(y) /\ Else(x, y, {"armed", "left", "stage", "ref"})
               /\ Same(x, y, {Floor, Response})
               /\ Floor \in y.armed /\ y.stage = s
               /\ Response \in y.armed => seen \/ Response \in x.armed
  <1> DEFINE z == Arm(x, Floor, FloorSpan)
             w == [z EXCEPT !.stage = s]
             y == response_arm(w, ResponseSpan, speed, speed_fresh)
  <1>1. Floor \in Routes /\ Response \in Routes /\ Floor # Response
    BY DEF Floor, Response, Routes
  <1>2. speed_fresh \in BOOLEAN /\ (speed_fresh => seen)
    BY DEF speed_fresh, judge_stale
  <1>3. FloorSpan \in 0..(Never - 1) /\ ResponseSpan \in 0..(Never - 1)
    BY Spans
  <1>4. /\ IsTable(z) /\ Else(x, z, {"armed", "left"})
        /\ z.armed = x.armed \cup {Floor}
        /\ \A q \in Routes \ {Floor} : z.left[q] = x.left[q]
    BY <1>1, <1>3, ArmEffect
  <1> HIDE DEF z
  <1>5. /\ IsTable(w) /\ Else(z, w, {"stage"})
        /\ w.armed = z.armed /\ w.left = z.left /\ w.stage = s
    BY <1>4 DEF IsTable, Else
  <1> HIDE DEF w
  <1>6. /\ IsTable(y) /\ Else(w, y, {"armed", "left", "ref"})
        /\ Same(w, y, {Response})
        /\ Response \in y.armed => speed_fresh \/ Response \in w.armed
    BY <1>2, <1>3, <1>5, ResponseEffect
  <1> HIDE DEF y
  <1>7. Else(x, y, {"armed", "left", "stage", "ref"})
    BY <1>4, <1>5, <1>6 DEF Else
  <1>8. Same(x, y, {Floor, Response}) /\ Floor \in y.armed
    BY <1>1, <1>4, <1>5, <1>6 DEF Same
  <1>9. y.stage = s
    BY <1>5, <1>6 DEF Else, IsTable
  <1>10. Response \in y.armed => seen \/ Response \in x.armed
    BY <1>1, <1>2, <1>4, <1>5, <1>6
  <1> QED
    BY <1>6, <1>7, <1>8, <1>9, <1>10 DEF StartSettle, y, w, z

-----------------------------------------------------------------------------
(* What the table keeps through the calls of the spin threads.             *)

\* Route 3's stage and its due, and route 4 under it, checking a vehicle that
\* has reported (sn).
FloorSound(x, sn) ==
    /\ Floor \in x.armed <=> x.stage # "IDLE"
    /\ Response \in x.armed => Floor \in x.armed /\ sn

\* Route 1 is armed by a spin that has filled the watch, and later than the
\* take that is pending (ex) by the kernel's tick and the time that spin was
\* held between its read and its arming, at most.
ExecSound(x, ex) ==
    Executor \in x.armed =>
        /\ ex.watch # "none"
        /\ x.left[Executor] <= ExecSpan + 1
        /\ ex.pending => x.left[Executor] <= ex.left + ex.held + 1

Sound(x, sn, ex) == IsTable(x) /\ FloorSound(x, sn) /\ ExecSound(x, ex)

\* The routes are different.
LEMMA RouteNumbers ==
    /\ {HpcLoss, Executor, Comfortable, Floor, Response} \subseteq Routes
    /\ Floor # Response /\ Floor # Executor /\ Response # Executor
    /\ Comfortable # Floor /\ Comfortable # Response /\ Comfortable # Executor
    /\ HpcLoss # Floor /\ HpcLoss # Response /\ HpcLoss # Executor
  BY DEF HpcLoss, Executor, Comfortable, Floor, Response, Routes

\* island_supervisor_arm keeps the table sound.
LEMMA ArmRouteSound ==
    ASSUME NEW x, NEW ex, Sound(x, seen, ex),
           NEW r \in {HpcLoss, Comfortable, Floor}, NEW t \in 0..(Never - 1),
           speed \in 0..MaxSpeed, seen \in BOOLEAN
    PROVE  Sound(ArmRoute(x, r, t), seen, ex)
  <1>1. CASE r = Floor
    <2> DEFINE y == StartSettle(x, "OPERATOR")
    <2>1. "OPERATOR" \in FloorStages /\ IsTable(x)
      BY DEF FloorStages, Sound
    <2>2. /\ IsTable(y) /\ Same(x, y, {Floor, Response})
          /\ Floor \in y.armed /\ y.stage = "OPERATOR"
          /\ Response \in y.armed => seen \/ Response \in x.armed
      BY <2>1, SettleEffect
    <2> HIDE DEF y
    <2>3. FloorSound(y, seen)
      BY <2>2 DEF Sound, FloorSound
    <2>4. ExecSound(y, ex)
      BY <2>2, RouteNumbers DEF Sound, ExecSound, Same
    <2>5. y = ArmRoute(x, r, t)
      BY <1>1 DEF ArmRoute, y
    <2> QED
      BY <2>2, <2>3, <2>4, <2>5 DEF Sound
  <1>2. CASE r # Floor
    <2> DEFINE y == Arm(x, r, t)
    <2>1. /\ IsTable(y) /\ Else(x, y, {"armed", "left"})
          /\ y.armed = x.armed \cup {r}
          /\ \A q \in Routes \ {r} : y.left[q] = x.left[q]
      <3>1. IsTable(x) /\ r \in Routes
        BY RouteNumbers DEF Sound
      <3> QED
        BY <3>1, ArmEffect
    <2> HIDE DEF y
    <2>2. FloorSound(y, seen)
      <3>1. y.stage = x.stage
        BY <2>1 DEF Sound, Else, IsTable
      <3> QED
        BY <1>2, <2>1, <3>1, RouteNumbers DEF Sound, FloorSound
    <2>3. ExecSound(y, ex)
      BY <1>2, <2>1, RouteNumbers DEF Sound, ExecSound
    <2>4. y = ArmRoute(x, r, t)
      BY <1>2 DEF ArmRoute, y
    <2> QED
      BY <2>1, <2>2, <2>3, <2>4 DEF Sound
  <1> QED
    BY <1>1, <1>2

\* Both floor routes cleared together, and any other route cleared alone, keep
\* the table sound.
LEMMA DisarmSound ==
    ASSUME NEW x, NEW sn, NEW ex, Sound(x, sn, ex), NEW r \in Routes
    PROVE  /\ Sound([Disarm(x, {Floor, Response}) EXCEPT !.stage = "IDLE"], sn, ex)
           /\ r # Floor => Sound(Disarm(x, {r}), sn, ex)
  <1>1. IsTable(x)
    BY DEF Sound
  <1>2. Sound([Disarm(x, {Floor, Response}) EXCEPT !.stage = "IDLE"], sn, ex)
    <2> DEFINE z == Disarm(x, {Floor, Response})
               y == [z EXCEPT !.stage = "IDLE"]
    <2>1. /\ IsTable(z) /\ Else(x, z, {"armed", "left"})
          /\ z.armed = x.armed \ {Floor, Response}
          /\ \A q \in Routes \ {Floor, Response} : z.left[q] = x.left[q]
      BY <1>1, RouteNumbers, DisarmEffect
    <2> HIDE DEF z
    <2>2. /\ IsTable(y) /\ y.armed = z.armed /\ y.left = z.left /\ y.stage = "IDLE"
      BY <2>1 DEF IsTable, FloorStages
    <2> HIDE DEF y
    <2>3. FloorSound(y, sn)
      BY <2>1, <2>2 DEF FloorSound
    <2>4. ExecSound(y, ex)
      BY <2>1, <2>2, RouteNumbers DEF Sound, ExecSound
    <2> QED
      BY <2>2, <2>3, <2>4 DEF Sound, y, z
  <1>3. ASSUME r # Floor PROVE Sound(Disarm(x, {r}), sn, ex)
    <2> DEFINE y == Disarm(x, {r})
    <2>1. /\ IsTable(y) /\ Else(x, y, {"armed", "left"})
          /\ y.armed = x.armed \ {r}
          /\ \A q \in Routes \ {r} : y.left[q] = x.left[q]
      BY <1>1, DisarmEffect
    <2> HIDE DEF y
    <2>2. FloorSound(y, sn)
      BY <1>3, <2>1, RouteNumbers DEF Sound, FloorSound, Else, IsTable
    <2>3. ExecSound(y, ex)
      BY <2>1, RouteNumbers DEF Sound, ExecSound
    <2> QED
      BY <2>1, <2>2, <2>3 DEF Sound, y
  <1> QED
    BY <1>2, <1>3

\* island_supervisor_done keeps the table sound.
LEMMA DoneRouteSound ==
    ASSUME NEW x, NEW sn, NEW ex, Sound(x, sn, ex), NEW r \in Routes
    PROVE  Sound(DoneRoute(x, r), sn, ex)
  BY DisarmSound DEF DoneRoute

-----------------------------------------------------------------------------
(* What the table keeps through a pass of the reaction thread.             *)

\* Route 1 fires once the watch is filled, and through a filled watch only for
\* a take that was late.
FiredSound(f, ex) ==
    Executor \in f => ex.watch # "none" /\ (ex.watch = "ok" => ex.late)

PassSound(x) ==
    /\ Sound(x, seen, exec)
    /\ {"fired", "latch", "fault"} \subseteq DOMAIN x
    /\ x.fired \in SUBSET Routes /\ x.latch \in BOOLEAN /\ x.fault \in BOOLEAN
    /\ x.fault => latched /\ seen
    /\ FiredSound(x.fired, exec)

\* An update of the table that leaves the verdicts of the pass alone.
LEMMA VerdictsKept ==
    ASSUME NEW x, PassSound(x), NEW y, Sound(y, seen, exec),
           Else(x, y, {"armed", "left", "stage", "ref"})
    PROVE  PassSound(y)
  BY DEF PassSound, Else

\* Clearing a route, or both floor routes, leaves the verdicts alone.
LEMMA DisarmKeeps ==
    ASSUME NEW x, PassSound(x), NEW S \in SUBSET Routes
    PROVE  /\ Else(x, Disarm(x, S), {"armed", "left", "stage", "ref"})
           /\ Else(x, [Disarm(x, S) EXCEPT !.stage = "IDLE"],
                   {"armed", "left", "stage", "ref"})
  <1> DEFINE z == Disarm(x, S)
  <1>1. IsTable(x)
    BY DEF PassSound, Sound
  <1>2. Else(x, z, {"armed", "left"})
    BY <1>1, DisarmEffect
  <1> HIDE DEF z
  <1>3. Else(x, z, {"armed", "left", "stage", "ref"})
    BY <1>2 DEF Else
  <1>4. Else(x, [z EXCEPT !.stage = "IDLE"], {"armed", "left", "stage", "ref"})
    BY <1>2 DEF Else
  <1> QED
    BY <1>3, <1>4 DEF z

\* A met due clears its route.
LEMMA MetSound ==
    ASSUME NEW x, PassSound(x), NEW r \in Routes
    PROVE  /\ PassSound([Disarm(x, {Floor, Response}) EXCEPT !.stage = "IDLE"])
           /\ r # Floor => PassSound(Disarm(x, {r}))
  <1>1. Sound(x, seen, exec)
    BY DEF PassSound
  <1>2. {Floor, Response} \in SUBSET Routes
    BY RouteNumbers
  <1>3. PassSound([Disarm(x, {Floor, Response}) EXCEPT !.stage = "IDLE"])
    BY <1>1, <1>2, DisarmSound, DisarmKeeps, VerdictsKept
  <1>4. r # Floor => PassSound(Disarm(x, {r}))
    BY <1>1, DisarmSound, DisarmKeeps, VerdictsKept
  <1> QED
    BY <1>3, <1>4

\* What a miss does to the table and to the verdicts.
LEMMA MissedEffect ==
    ASSUME NEW x, PassSound(x), NEW r \in Routes
    PROVE  LET y == Missed(x, r)
           IN  /\ IsTable(y) /\ Else(x, y, {"armed", "left", "fired", "latch"})
               /\ Same(x, y, {r}) /\ r \notin y.armed
               /\ y.fired = x.fired \cup {r} /\ y.latch = TRUE
               /\ y.stage = x.stage /\ y.fault = x.fault
  <1> DEFINE z == Disarm(x, {r})
             y == [z EXCEPT !.fired = z.fired \cup {r}, !.latch = TRUE]
  <1>1. IsTable(x) /\ {r} \in SUBSET Routes
    BY DEF PassSound, Sound
  <1>2. /\ IsTable(z) /\ Else(x, z, {"armed", "left"})
        /\ z.armed = x.armed \ {r}
        /\ \A q \in Routes \ {r} : z.left[q] = x.left[q]
    BY <1>1, DisarmEffect
  <1>3. y = Missed(x, r)
    BY DEF Missed
  <1> HIDE DEF z
  <1>4. z.fired = x.fired /\ {"fired", "latch", "fault"} \subseteq DOMAIN z
        /\ z.fault = x.fault /\ z.stage = x.stage
    BY <1>1, <1>2 DEF Else, PassSound, IsTable
  <1>5. /\ y.armed = z.armed /\ y.left = z.left /\ y.stage = z.stage /\ y.ref = z.ref
        /\ y.fired = x.fired \cup {r} /\ y.latch = TRUE /\ y.fault = x.fault
        /\ Else(z, y, {"fired", "latch"})
    BY <1>2, <1>4 DEF IsTable, Else
  <1> HIDE DEF y
  <1>6. IsTable(y)
    BY <1>2, <1>5 DEF IsTable, Else
  <1>7. Else(x, y, {"armed", "left", "fired", "latch"})
    BY <1>2, <1>5 DEF Else
  <1>8. Same(x, y, {r}) /\ r \notin y.armed
    BY <1>2, <1>5 DEF Same
  <1> QED
    BY <1>3, <1>4, <1>5, <1>6, <1>7, <1>8

\* A miss of a route that is not the floor's.
LEMMA MissedSound ==
    ASSUME NEW x, PassSound(x), NEW r \in {HpcLoss, Executor, Comfortable},
           r = Executor => FiredSound({Executor}, exec)
    PROVE  PassSound(Missed(x, r))
  <1> DEFINE y == Missed(x, r)
  <1>1. r \in Routes /\ r # Floor /\ r # Response
    BY RouteNumbers
  <1>2. /\ IsTable(y) /\ Else(x, y, {"armed", "left", "fired", "latch"})
        /\ Same(x, y, {r}) /\ r \notin y.armed
        /\ y.fired = x.fired \cup {r} /\ y.latch = TRUE
        /\ y.stage = x.stage /\ y.fault = x.fault
    BY <1>1, MissedEffect
  <1> HIDE DEF y
  <1>3. FloorSound(y, seen)
    BY <1>1, <1>2, RouteNumbers DEF PassSound, Sound, FloorSound, Same
  <1>4. ExecSound(y, exec)
    BY <1>1, <1>2, RouteNumbers DEF PassSound, Sound, ExecSound, Same
  <1>5. FiredSound(y.fired, exec)
    BY <1>2 DEF PassSound, FiredSound
  <1>6. /\ {"fired", "latch", "fault"} \subseteq DOMAIN y
        /\ y.fired \in SUBSET Routes /\ y.latch \in BOOLEAN /\ y.fault \in BOOLEAN
        /\ y.fault => latched /\ seen
    BY <1>1, <1>2 DEF PassSound, Else
  <1> QED
    BY <1>2, <1>3, <1>4, <1>5, <1>6 DEF PassSound, Sound, y

\* A miss of the floor, or of its response, starts the direct path's settle.
LEMMA MissedFloorSound ==
    ASSUME NEW x, PassSound(x), NEW r \in {Floor, Response},
           speed \in 0..MaxSpeed, seen \in BOOLEAN
    PROVE  PassSound(MissedFloor(x, r))
  <1> DEFINE z == Missed(x, r)
             y == StartSettle(z, "DIRECT")
  <1>1. r \in Routes /\ r # Executor /\ "DIRECT" \in FloorStages /\ "DIRECT" # "IDLE"
    BY RouteNumbers DEF FloorStages
  <1>2. /\ IsTable(z) /\ Else(x, z, {"armed", "left", "fired", "latch"})
        /\ Same(x, z, {r}) /\ r \notin z.armed
        /\ z.fired = x.fired \cup {r} /\ z.latch = TRUE /\ z.fault = x.fault
    BY <1>1, MissedEffect
  <1> HIDE DEF z
  <1>3. /\ IsTable(y) /\ Else(z, y, {"armed", "left", "stage", "ref"})
        /\ Same(z, y, {Floor, Response})
        /\ Floor \in y.armed /\ y.stage = "DIRECT"
        /\ Response \in y.armed => seen \/ Response \in z.armed
    BY <1>1, <1>2, SettleEffect
  <1> HIDE DEF y
  <1>4. Response \in z.armed => seen
    BY <1>2, RouteNumbers DEF PassSound, Sound, FloorSound, Same
  <1>5. FloorSound(y, seen)
    BY <1>1, <1>3, <1>4 DEF FloorSound
  <1>6. ExecSound(y, exec)
    <2>1. (Executor \in y.armed <=> Executor \in x.armed)
          /\ y.left[Executor] = x.left[Executor]
      BY <1>1, <1>2, <1>3, RouteNumbers DEF Same
    <2> QED
      BY <2>1 DEF PassSound, Sound, ExecSound
  <1>7. /\ {"fired", "latch", "fault"} \subseteq DOMAIN y
        /\ y.fired = x.fired \cup {r} /\ y.latch = TRUE /\ y.fault = x.fault
    BY <1>2, <1>3 DEF PassSound, Else
  <1>8. FiredSound(y.fired, exec)
    BY <1>1, <1>7 DEF PassSound, FiredSound
  <1>9. PassSound(y)
    BY <1>1, <1>3, <1>5, <1>6, <1>7, <1>8 DEF PassSound, Sound
  <1> QED
    BY <1>9 DEF MissedFloor, y, z

\* The vehicle is found at fault, under the latch and once it was seen.
LEMMA FaultSound ==
    ASSUME NEW x, PassSound(x), NEW r \in {Floor, Response}, latched, seen
    PROVE  PassSound(VehicleFault(x, r))
  <1> DEFINE z == [Disarm(x, {Floor, Response}) EXCEPT !.stage = "IDLE"]
             y == VehicleFault(x, r)
  <1>1. PassSound(z)
    BY RouteNumbers, MetSound
  <1>2. y = [z EXCEPT !.fired = z.fired \cup {r}, !.fault = TRUE]
    <2>1. Else(x, Disarm(x, {Floor, Response}), {"armed", "left"})
      BY RouteNumbers, DisarmEffect DEF PassSound, Sound
    <2> DEFINE w == Disarm(x, {Floor, Response})
    <2>2. {"fired", "stage", "fault"} \subseteq DOMAIN w
      BY <2>1 DEF Else, PassSound, Sound, IsTable
    <2>3. y = [w EXCEPT !.fired = w.fired \cup {r}, !.stage = "IDLE", !.fault = TRUE]
      BY DEF VehicleFault
    <2>4. z = [w EXCEPT !.stage = "IDLE"]
      OBVIOUS
    <2> HIDE DEF w, y, z
    <2> QED
      BY <2>2, <2>3, <2>4
  <1>3. r \in Routes /\ r # Executor
    BY RouteNumbers
  <1> HIDE DEF y, z
  <1>4. /\ DOMAIN y = DOMAIN z
        /\ y.armed = z.armed /\ y.left = z.left /\ y.stage = z.stage /\ y.ref = z.ref
        /\ y.fired = z.fired \cup {r} /\ y.latch = z.latch /\ y.fault = TRUE
    BY <1>1, <1>2 DEF PassSound, Sound, IsTable
  <1>5. Sound(y, seen, exec)
    BY <1>1, <1>4 DEF PassSound, Sound, IsTable, FloorSound, ExecSound
  <1>6. FiredSound(y.fired, exec)
    BY <1>1, <1>3, <1>4 DEF PassSound, FiredSound
  <1>7. /\ {"fired", "latch", "fault"} \subseteq DOMAIN y
        /\ y.fired \in SUBSET Routes /\ y.latch \in BOOLEAN /\ y.fault \in BOOLEAN
    BY <1>1, <1>3, <1>4 DEF PassSound
  <1> QED
    BY <1>5, <1>6, <1>7 DEF PassSound, y

\* A floor that waits for the braking command, or for the vehicle, stays armed.
LEMMA WaitSound ==
    ASSUME NEW x, PassSound(x), Floor \in x.armed, NEW t \in 0..(Never - 1)
    PROVE  /\ PassSound(Arm(x, Floor, t))
           /\ PassSound([Arm(x, Floor, t) EXCEPT !.stage = "DIRECT"])
  <1> DEFINE z == Arm(x, Floor, t)
             y == [z EXCEPT !.stage = "DIRECT"]
  <1>1. /\ IsTable(z) /\ Else(x, z, {"armed", "left"})
        /\ z.armed = x.armed \cup {Floor}
        /\ \A q \in Routes \ {Floor} : z.left[q] = x.left[q]
    BY RouteNumbers, ArmEffect DEF PassSound, Sound
  <1> HIDE DEF z
  <1>2. z.armed = x.armed /\ z.stage = x.stage
    BY <1>1 DEF PassSound, Sound, IsTable, Else
  <1>3. Sound(z, seen, exec)
    BY <1>1, <1>2, RouteNumbers DEF PassSound, Sound, FloorSound, ExecSound
  <1>4. /\ IsTable(y) /\ y.armed = z.armed /\ y.left = z.left /\ y.stage = "DIRECT"
        /\ Else(z, y, {"stage"})
    BY <1>1 DEF IsTable, FloorStages, Else
  <1> HIDE DEF y
  <1>5. Sound(y, seen, exec)
    BY <1>2, <1>3, <1>4 DEF Sound, FloorSound, ExecSound
  <1>6. /\ Else(x, z, {"armed", "left", "stage", "ref"})
        /\ Else(x, y, {"armed", "left", "stage", "ref"})
    BY <1>1, <1>4 DEF Else
  <1> QED
    BY <1>3, <1>5, <1>6, VerdictsKept DEF y, z

-----------------------------------------------------------------------------
(* The verdicts of a pass, route by route.                                 *)

\* What the verdicts read besides the table: a take past its deadline is late,
\* and the reference of the braking command was a vehicle's report.
ExecLate == exec.pending /\ exec.left = 0 => exec.late
BrakeSeen == brake.ok => seen

LEMMA ExecutorSound ==
    ASSUME NEW x, PassSound(x), TypeOK, ExecLate
    PROVE  PassSound(JudgeExecutor(x))
  <1>1. /\ exec.pending \in BOOLEAN /\ exec.left \in 0..ExecSpan
        /\ exec.up \in 0..1 /\ exec.held \in 0..ExecSpan
        /\ exec.watch \in {"none", "ok", "failed"}
    BY DEF TypeOK, ExecStates
  <1>2. CASE ~Due(x, Executor)
    BY <1>2 DEF JudgeExecutor
  <1>3. CASE Due(x, Executor) /\ exec.watch = "ok" /\ ~exec.pending
    BY <1>3, RouteNumbers, MetSound DEF JudgeExecutor
  <1>4. CASE Due(x, Executor) /\ exec.watch = "ok" /\ exec.pending /\ exec.left > 0
    <2> DEFINE y == Arm(x, Executor, exec.left + exec.up)
    <2>1. JudgeExecutor(x) = y
      BY <1>4 DEF JudgeExecutor
    <2>2. exec.left + exec.up \in 0..(Never - 1)
      BY <1>1, Spans, SpanAssumption
    <2>3. /\ IsTable(y) /\ Else(x, y, {"armed", "left"})
          /\ y.armed = x.armed \cup {Executor}
          /\ y.left[Executor] = exec.left + exec.up
          /\ \A q \in Routes \ {Executor} : y.left[q] = x.left[q]
      <3>1. IsTable(x) /\ Executor \in Routes
        BY RouteNumbers DEF PassSound, Sound
      <3> QED
        BY <2>2, <3>1, ArmEffect
    <2> HIDE DEF y
    <2>4. y.stage = x.stage
      BY <2>3 DEF PassSound, Sound, IsTable, Else
    <2>5. FloorSound(y, seen)
      BY <2>3, <2>4, RouteNumbers DEF PassSound, Sound, FloorSound
    <2>6. ExecSound(y, exec)
      BY <1>1, <1>4, <2>3, SpanAssumption DEF ExecSound
    <2>7. Else(x, y, {"armed", "left", "stage", "ref"})
      BY <2>3 DEF Else
    <2> QED
      BY <2>1, <2>3, <2>5, <2>6, <2>7, VerdictsKept DEF Sound
  <1>5. CASE /\ Due(x, Executor)
             /\ ~(exec.watch = "ok" /\ ~exec.pending)
             /\ ~(exec.watch = "ok" /\ exec.left > 0)
    <2>1. JudgeExecutor(x) = Missed(x, Executor)
      BY <1>5 DEF JudgeExecutor
    <2>2. exec.watch # "none"
      BY <1>5 DEF PassSound, Sound, ExecSound, Due
    <2>3. exec.watch = "ok" => exec.late
      BY <1>1, <1>5 DEF ExecLate
    <2> QED
      BY <2>1, <2>2, <2>3, MissedSound DEF FiredSound
  <1> QED
    BY <1>1, <1>2, <1>3, <1>4, <1>5

LEMMA ComfortableSound ==
    ASSUME NEW x, PassSound(x)
    PROVE  PassSound(JudgeComfortable(x))
  <1>1. Comfortable \in Routes /\ Comfortable # Floor /\ Comfortable # Executor
    BY RouteNumbers
  <1>2. PassSound(Disarm(x, {Comfortable}))
    BY <1>1, MetSound
  <1>3. PassSound(Missed(x, Comfortable))
    BY <1>1, MissedSound
  <1> QED
    BY <1>2, <1>3 DEF JudgeComfortable

LEMMA FloorJudgedSound ==
    ASSUME NEW x, PassSound(x), TypeOK
    PROVE  PassSound(JudgeFloor(x))
  <1> DEFINE verdict == judge_floor(standstill_now, latched, Braked, FloorSpan)
  <1>1. /\ seen \in BOOLEAN /\ latched \in BOOLEAN /\ speed \in 0..MaxSpeed
        /\ brake.age \in 0..FloorSpan
    BY DEF TypeOK
  <1>2. CASE ~Due(x, Floor)
    BY <1>2 DEF JudgeFloor
  <1>3. CASE Due(x, Floor) /\ ~seen
    <2>1. Floor \in x.armed
      BY <1>3 DEF Due
    <2>2. JudgeFloor(x) = Arm(x, Floor, FloorSpan)
      BY <1>3 DEF JudgeFloor, judge_unseen
    <2> QED
      BY <2>1, <2>2, WaitSound, Spans
  <1>4. CASE Due(x, Floor) /\ seen
    <2>1. Floor \in x.armed /\ JudgeFloor(x) = FloorVerdict(x)
      BY <1>4 DEF Due, JudgeFloor, judge_unseen
    <2>2. /\ verdict \in {"MET", "LATCH", "WAIT", "VEHICLE_FAULT"}
          /\ verdict = "VEHICLE_FAULT" => latched
      BY <1>1 DEF judge_floor
    <2> HIDE DEF verdict
    <2>3. CASE verdict = "MET"
      <3>1. FloorVerdict(x) = [Disarm(x, {Floor, Response}) EXCEPT !.stage = "IDLE"]
        BY <2>3 DEF FloorVerdict, verdict
      <3> QED
        BY <2>1, <3>1, RouteNumbers, MetSound
    <2>4. CASE verdict = "WAIT"
      <3>1. FloorVerdict(x) = [Arm(x, Floor, FloorSpan - brake.age) EXCEPT !.stage = "DIRECT"]
        BY <2>4 DEF FloorVerdict, verdict
      <3>2. FloorSpan - brake.age \in 0..(Never - 1)
        BY <1>1, Spans
      <3> QED
        BY <2>1, <3>1, <3>2, WaitSound
    <2>5. CASE verdict = "LATCH"
      <3>1. FloorVerdict(x) = MissedFloor(x, Floor)
        BY <2>5 DEF FloorVerdict, verdict
      <3> QED
        BY <1>1, <2>1, <3>1, MissedFloorSound
    <2>6. CASE verdict = "VEHICLE_FAULT"
      <3>1. FloorVerdict(x) = VehicleFault(x, Floor)
        BY <2>6 DEF FloorVerdict, verdict
      <3> QED
        BY <1>4, <2>1, <2>2, <2>6, <3>1, FaultSound
    <2> QED
      BY <2>2, <2>3, <2>4, <2>5, <2>6
  <1> QED
    BY <1>1, <1>2, <1>3, <1>4

LEMMA ResponseJudgedSound ==
    ASSUME NEW x, PassSound(x), TypeOK, BrakeSeen
    PROVE  PassSound(JudgeResponse(x))
  <1> DEFINE responded == judge_responded(standstill_now, speed_fresh, x.ref, speed, Drop)
             verdict == judge_floor(responded, latched, Braked, ResponseSpan)
  <1>1. /\ seen \in BOOLEAN /\ latched \in BOOLEAN /\ speed \in 0..MaxSpeed
        /\ brake.age \in 0..FloorSpan /\ brake.ref \in 0..MaxSpeed /\ brake.ok \in BOOLEAN
    BY DEF TypeOK
  <1>2. CASE ~Due(x, Response)
    BY <1>2 DEF JudgeResponse
  <1>3. CASE Due(x, Response)
    <2>1. Floor \in x.armed /\ seen
      BY <1>3 DEF Due, PassSound, Sound, FloorSound
    <2>2. /\ verdict \in {"MET", "LATCH", "WAIT", "VEHICLE_FAULT"}
          /\ verdict = "VEHICLE_FAULT" => latched
          /\ verdict = "WAIT" => latched /\ ~(Braked >= ResponseSpan)
      <3>1. \A n, m : \A b, v \in BOOLEAN :
              /\ judge_floor(b, v, n, m) \in {"MET", "LATCH", "WAIT", "VEHICLE_FAULT"}
              /\ judge_floor(b, v, n, m) = "VEHICLE_FAULT" => v
              /\ judge_floor(b, v, n, m) = "WAIT" => v /\ ~(n >= m)
        BY DEF judge_floor
      <3>2. responded \in BOOLEAN
        BY DEF judge_responded, standstill_now, judge_standstill, speed_fresh, judge_stale
      <3> QED
        BY <1>1, <3>1, <3>2
    <2>3. JudgeResponse(x) =
            CASE verdict = "MET" -> Disarm(x, {Response})
              [] verdict = "WAIT" ->
                   response_arm(Disarm(x, {Response}), ResponseSpan - brake.age,
                                brake.ref, brake.ok)
              [] verdict = "LATCH" -> MissedFloor(x, Response)
              [] verdict = "VEHICLE_FAULT" -> VehicleFault(x, Response)
      BY <1>3 DEF JudgeResponse
    <2> HIDE DEF verdict
    <2>4. CASE verdict = "MET"
      BY <2>3, <2>4, RouteNumbers, MetSound
    <2>5. CASE verdict = "WAIT"
      <3> DEFINE z == Disarm(x, {Response})
                 y == response_arm(z, ResponseSpan - brake.age, brake.ref, brake.ok)
      <3>1. JudgeResponse(x) = y
        BY <2>3, <2>5
      <3>2. ResponseSpan - brake.age \in 0..(Never - 1)
        BY <1>1, <2>2, <2>5, Spans, SpanAssumption DEF Braked
      <3>3. PassSound(z) /\ IsTable(z)
        BY RouteNumbers, MetSound DEF PassSound, Sound
      <3>4. Floor \in z.armed /\ Response \notin z.armed
        BY <2>1, RouteNumbers, DisarmEffect DEF PassSound, Sound
      <3> HIDE DEF z
      <3>5. /\ IsTable(y) /\ Else(z, y, {"armed", "left", "ref"})
            /\ Same(z, y, {Response})
            /\ Response \in y.armed => brake.ok \/ Response \in z.armed
        BY <1>1, <3>2, <3>3, ResponseEffect
      <3> HIDE DEF y
      <3>6. y.stage = z.stage
        BY <3>3, <3>5 DEF IsTable, Else
      <3>7. FloorSound(y, seen)
        BY <2>1, <3>3, <3>4, <3>5, <3>6, RouteNumbers
        DEF PassSound, Sound, FloorSound, Same
      <3>8. ExecSound(y, exec)
        BY <3>3, <3>5, RouteNumbers DEF PassSound, Sound, ExecSound, Same
      <3>9. Else(z, y, {"armed", "left", "stage", "ref"})
        BY <3>5 DEF Else
      <3> QED
        BY <3>1, <3>3, <3>5, <3>7, <3>8, <3>9, VerdictsKept DEF Sound
    <2>6. CASE verdict = "LATCH"
      BY <1>1, <2>3, <2>6, MissedFloorSound
    <2>7. CASE verdict = "VEHICLE_FAULT"
      BY <2>1, <2>2, <2>3, <2>7, FaultSound
    <2> QED
      BY <2>2, <2>4, <2>5, <2>6, <2>7
  <1> QED
    BY <1>2, <1>3

-----------------------------------------------------------------------------
(* The inductive invariant.                                                *)

\* The vehicle is blamed under the latch, and only once it has reported.
FaultSeen == fault => latched /\ seen

\* What a spin has read is later than the take that is pending when it arms by
\* the time since, at most.
SpinSound ==
    exec.spinning /\ exec.us # Answered /\ exec.pending => exec.us <= exec.left + exec.gap

\* A report's age is known up to the slot's resume deadline.
AliveBounded == \A i \in AllSlots : alive[i] <= ResumeLimit(i)

IInv ==
    /\ TypeOK /\ AliveBounded
    /\ Sound(table, seen, exec)
    /\ FaultSeen /\ BrakeSeen /\ ExecLate /\ SpinSound /\ FiredSound(fired, exec)
    /\ DuesCovered /\ CausesCovered

Brakes == [age : 0..FloorSpan, ref : 0..MaxSpeed, ok : BOOLEAN]

\* The verdicts of a pass, one after the other, keep the table sound.
LEMMA JudgedSound == IInv => PassSound(Judged)
  <1> SUFFICES ASSUME IInv PROVE PassSound(Judged)
    OBVIOUS
  <1> DEFINE x0 == [armed |-> armed, left |-> left, stage |-> stage, ref |-> ref,
                    fired |-> fired, latch |-> FALSE, fault |-> fault]
  <1>1. TypeOK /\ ExecLate /\ BrakeSeen
    BY DEF IInv
  <1>2. PassSound(x0)
    <2>1. Sound(x0, seen, exec)
      BY DEF IInv, Sound, IsTable, FloorSound, ExecSound, table
    <2> QED
      BY <2>1 DEF IInv, PassSound, FaultSeen, TypeOK
  <1> HIDE DEF x0
  <1>3. PassSound(JudgeHpcLoss(x0))
    BY <1>2, RouteNumbers, MissedSound DEF JudgeHpcLoss
  <1>4. PassSound(JudgeExecutor(JudgeHpcLoss(x0)))
    BY <1>1, <1>3, ExecutorSound
  <1>5. PassSound(JudgeComfortable(JudgeExecutor(JudgeHpcLoss(x0))))
    BY <1>4, ComfortableSound
  <1>6. PassSound(JudgeFloor(JudgeComfortable(JudgeExecutor(JudgeHpcLoss(x0)))))
    BY <1>1, <1>5, FloorJudgedSound
  <1>7. PassSound(JudgeResponse(JudgeFloor(JudgeComfortable(JudgeExecutor(JudgeHpcLoss(x0))))))
    BY <1>1, <1>6, ResponseJudgedSound
  <1> QED
    BY <1>7 DEF Judged, x0

\* The state after an update of the table is as sound as the update.
LEMMA TableSet ==
    ASSUME NEW x, NEW sn, NEW ex, Sound(x, sn, ex), SetRoutes(x)
    PROVE  /\ Sound(table', sn, ex)
           /\ armed' \subseteq Routes /\ left' \in [Routes -> 0..Never]
           /\ stage' \in FloorStages /\ ref' \in 0..MaxSpeed
  <1>1. /\ armed' = x.armed /\ left' = x.left /\ stage' = x.stage /\ ref' = x.ref
    BY DEF SetRoutes
  <1>2. x.left \in [Routes -> 0..Never]
    <2>1. \A n \in 0..(Never - 1) : n \in 0..Never
      BY Spans
    <2> QED
      BY <2>1 DEF Sound, IsTable
  <1>3. /\ table'.armed = x.armed /\ table'.left = x.left
        /\ table'.stage = x.stage /\ table'.ref = x.ref
        /\ {"armed", "left", "stage", "ref"} \subseteq DOMAIN table'
    BY <1>1 DEF table
  <1>4. Sound(table', sn, ex)
    BY <1>3 DEF Sound, IsTable, FloorSound, ExecSound
  <1> QED
    BY <1>1, <1>2, <1>4 DEF Sound, IsTable

\* A re-armed timer covers the table it is re-armed for.
LEMMA RearmCovers ==
    ASSUME NEW x, NEW sn, NEW ex, Sound(x, sn, ex), Rearm(x)
    PROVE  timer' \in 0..Never /\ \A r \in armed' : timer' <= left'[r]
  <1>1. Earliest(x) \in 0..Never /\ \A r \in x.armed : Earliest(x) <= x.left[r]
    BY EarliestCovers DEF Sound, IsTable
  <1> QED
    BY <1>1 DEF Rearm, SetRoutes

\* The thread's next wait is a time.
LEMMA WaitType ==
    ASSUME TypeOK, AliveBounded, NEW back, NEW next \in 0..DirectPeriod
    PROVE  LET w == latched_wait(back, next)
           IN  /\ w \in 0..Never
               /\ Owned(back) # {} => w <= next
               /\ \A i \in handover \ back : w <= ResumeLimit(i) - alive[i]
  <1> DEFINE times == (IF Owned(back) # {} THEN {next} ELSE {})
                        \cup {ResumeLimit(i) - alive[i] : i \in handover \ back}
                        \cup (IF SwtWait > 0 THEN {SwtWait} ELSE {})
                        \cup {Never}
  <1>1. \A i \in handover : ResumeLimit(i) - alive[i] \in 0..Never
    <2>1. handover \subseteq AllSlots
      BY InstanceAssumption DEF TypeOK
    <2>2. \A i \in AllSlots : ResumeLimit(i) \in 0..Never /\ alive[i] \in 0..ResumeLimit(i)
      BY Spans DEF TypeOK, AliveBounded, AllSlots
    <2> QED
      BY <2>1, <2>2, Spans
  <1>2. times \subseteq 0..Never /\ Never \in times
    BY <1>1, Spans, SpanAssumption
  <1>3. /\ Owned(back) # {} => next \in times
        /\ \A i \in handover \ back : ResumeLimit(i) - alive[i] \in times
    OBVIOUS
  <1>4. latched_wait(back, next) = CHOOSE t \in times : \A u \in times : t <= u
    BY DEF latched_wait
  <1> HIDE DEF times
  <1>5. \E t \in times : \A u \in times : t <= u
    <2>1. times \subseteq Nat /\ times # {}
      BY <1>2, Spans
    <2> QED
      BY <2>1, LeastNat
  <1>6. latched_wait(back, next) \in times /\ \A u \in times : latched_wait(back, next) <= u
    BY <1>4, <1>5
  <1> QED
    BY <1>2, <1>3, <1>6

\* The direct path keeps the table sound and its timer covering, and moves its
\* own state within its types.
LEMMA DirectSound ==
    ASSUME TypeOK, AliveBounded, NEW x, Sound(x, seen, exec),
           x.timer \in 0..Never, \A r \in x.armed : x.timer <= x.left[r],
           NEW b \in Brakes, b.ok => seen, NEW next \in 0..DirectPeriod,
           direct_service(x, b, next)
    PROVE  /\ Sound(table', seen, exec)
           /\ armed' \subseteq Routes /\ left' \in [Routes -> 0..Never]
           /\ stage' \in FloorStages /\ ref' \in 0..MaxSpeed
           /\ timer' \in 0..Never /\ \A r \in armed' : timer' <= left'[r]
           /\ resumed' \subseteq handover /\ wait' \in 0..Never
           /\ brake' \in Brakes /\ (brake'.ok => seen)
           /\ directNext' \in 0..DirectPeriod
           /\ silence' \in 0..SilenceCap /\ resisted' \in BOOLEAN
  <1> DEFINE back == resumed \cup Silent
             restart == OperatorSlot \in Silent
             n == IF Silent # {} THEN 0 ELSE next
             publish == Owned(back) # {} /\ n = 0
             n2 == IF publish THEN DirectPeriod ELSE n
             y == StartSettle(x, "DIRECT")
  <1>1. /\ seen \in BOOLEAN /\ speed \in 0..MaxSpeed /\ resumed \subseteq handover
        /\ silence \in 0..SilenceCap /\ resisted \in BOOLEAN
    BY DEF TypeOK
  <1>2. Silent \subseteq handover
    BY DEF Silent
  <1>3. n2 \in 0..DirectPeriod
    BY SpanAssumption
  <1>4. /\ resumed' = back /\ directNext' = n2 /\ wait' = latched_wait(back, n2)
        /\ brake' = IF restart THEN BrakeNow ELSE b
        /\ resisted' = IF restart \/ ~latched THEN Misread ELSE resisted
        /\ silence' \in {0, silence}
        /\ \/ restart /\ Floor \notin x.armed /\ Rearm(y)
           \/ ~(restart /\ Floor \notin x.armed) /\ SetRoutes(x) /\ timer' = x.timer
    BY DEF direct_service
  <1>5. resumed' \subseteq handover /\ directNext' \in 0..DirectPeriod
    BY <1>1, <1>2, <1>3, <1>4
  <1> HIDE DEF n2
  <1>6. wait' \in 0..Never
    BY <1>3, <1>4, WaitType
  <1>7. brake' \in Brakes /\ (brake'.ok => seen)
    <2>1. speed_fresh \in BOOLEAN /\ (speed_fresh => seen)
      BY <1>1 DEF speed_fresh, judge_stale
    <2>2. BrakeNow \in Brakes /\ (BrakeNow.ok => seen)
      BY <1>1, <2>1, SpanAssumption DEF BrakeNow, Brakes
    <2> QED
      BY <1>4, <2>2
  <1>8. silence' \in 0..SilenceCap /\ resisted' \in BOOLEAN
    <2>1. SilenceCap \in Nat
      BY Spans DEF SilenceCap
    <2>2. Misread \in BOOLEAN
      BY DEF Misread
    <2> QED
      BY <1>1, <1>4, <2>1, <2>2
  <1>9. /\ Sound(table', seen, exec)
        /\ armed' \subseteq Routes /\ left' \in [Routes -> 0..Never]
        /\ stage' \in FloorStages /\ ref' \in 0..MaxSpeed
        /\ timer' \in 0..Never /\ \A r \in armed' : timer' <= left'[r]
    <2>1. CASE Rearm(y)
      <3>1. "DIRECT" \in FloorStages /\ "DIRECT" # "IDLE" /\ IsTable(x)
        BY DEF FloorStages, Sound
      <3>2. /\ IsTable(y) /\ Same(x, y, {Floor, Response})
            /\ Floor \in y.armed /\ y.stage = "DIRECT"
            /\ Response \in y.armed => seen \/ Response \in x.armed
        BY <1>1, <3>1, SettleEffect
      <3> HIDE DEF y
      <3>3. FloorSound(y, seen)
        BY <3>1, <3>2 DEF Sound, FloorSound
      <3>4. ExecSound(y, exec)
        BY <3>2, RouteNumbers DEF Sound, ExecSound, Same
      <3>5. Sound(y, seen, exec)
        BY <3>2, <3>3, <3>4 DEF Sound
      <3>6. SetRoutes(y)
        BY <2>1 DEF Rearm
      <3> QED
        BY <2>1, <3>5, <3>6, TableSet, RearmCovers
    <2>2. CASE SetRoutes(x) /\ timer' = x.timer
      <3>1. armed' = x.armed /\ left' = x.left
        BY <2>2 DEF SetRoutes
      <3> QED
        BY <2>2, <3>1, TableSet
    <2> QED
      BY <1>4, <2>1, <2>2
  <1> QED
    BY <1>5, <1>6, <1>7, <1>8, <1>9

-----------------------------------------------------------------------------
(* The steps of the specification.                                         *)

LEMMA InitHolds == Init => IInv
  <1> SUFFICES ASSUME Init PROVE IInv
    OBVIOUS
  <1>1. TypeOK
    <2>1. /\ left \in [Routes -> 0..Never] /\ timer \in 0..Never /\ wait \in 0..Never
          /\ alive \in [AllSlots -> 0..Never]
      BY Spans DEF Init
    <2>2. /\ brake \in [age : 0..FloorSpan, ref : 0..MaxSpeed, ok : BOOLEAN]
          /\ exec \in ExecStates
      BY SpanAssumption DEF Init, NoTake, ExecStates, Answered
    <2>3. silence \in 0..SilenceCap
      BY Spans DEF Init, SilenceCap
    <2>4. tick \in [AllSlots -> TickSteps]
      BY DEF Init, TickSteps
    <2>5. ref \in 0..MaxSpeed /\ speed \in 0..MaxSpeed /\ speedAge \in 0..(FreshSpan + 1)
          /\ directNext \in 0..DirectPeriod
      BY SpanAssumption DEF Init
    <2> QED
      BY <2>1, <2>2, <2>3, <2>4, <2>5 DEF Init, TypeOK, FloorStages
  <1>2. AliveBounded
    BY Spans DEF Init, AliveBounded, AllSlots
  <1>3. Sound(table, seen, exec)
    <2>1. left \in [Routes -> 0..(Never - 1)]
      BY Spans, SpanAssumption DEF Init
    <2>2. table.armed = {} /\ table.left = left /\ table.stage = "IDLE" /\ table.ref = 0
          /\ {"armed", "left", "stage", "ref"} \subseteq DOMAIN table
      BY DEF Init, table
    <2> QED
      BY <2>1, <2>2, SpanAssumption DEF Sound, IsTable, FloorSound, ExecSound, FloorStages
  <1> QED
    BY <1>1, <1>2, <1>3
    DEF Init, NoTake, IInv, FaultSeen, BrakeSeen, ExecLate, SpinSound, FiredSound,
        DuesCovered, CausesCovered

\* A step that moves neither the routes nor what they are judged by.
LEMMA TableUnmoved ==
    ASSUME Sound(table, seen, exec), UNCHANGED <<armed, left, stage, ref, exec>>,
           seen => seen'
    PROVE  Sound(table', seen', exec')
  <1>1. table' = table
    BY DEF table
  <1> QED
    BY <1>1 DEF Sound, FloorSound

\* The pass judges the table, re-arms the timer for it and serves the latch.
LEMMA PassStep == IInv /\ ReactionPass => IInv'
  <1> SUFFICES ASSUME IInv, ReactionPass PROVE IInv'
    OBVIOUS
  <1> DEFINE x == Judged
             t == [armed |-> x.armed, left |-> x.left, stage |-> x.stage,
                   ref |-> x.ref, timer |-> Earliest(x)]
  <1>1. TypeOK /\ AliveBounded /\ BrakeSeen /\ ExecLate
    BY DEF IInv
  <1>2. PassSound(x)
    BY JudgedSound
  <1>3. /\ wake' = 0 /\ fired' = x.fired /\ fault' = x.fault /\ pending' = {}
        /\ latched' = (latched \/ x.latch \/ pending # {})
        /\ UNCHANGED <<speed, speedAge, seen, noting, handover, alive, tick,
                       sawLatch, calling, hooking, exec, vel>>
        /\ \/ /\ SetRoutes(t) /\ timer' = t.timer /\ wait' = Never
              /\ UNCHANGED <<resumed, brake, directNext, silence, resisted>>
           \/ direct_service(t, BrakeNow, 0)
           \/ direct_service(t, brake, directNext)
    BY DEF ReactionPass, speedVars, envVars, history
  <1> HIDE DEF x
  <1>4. Earliest(x) \in 0..Never /\ \A r \in x.armed : Earliest(x) <= x.left[r]
    BY <1>2, EarliestCovers DEF PassSound, Sound, IsTable
  <1>5. /\ t.armed = x.armed /\ t.left = x.left /\ t.stage = x.stage /\ t.ref = x.ref
        /\ t.timer = Earliest(x)
        /\ {"armed", "left", "stage", "ref"} \subseteq DOMAIN t
    OBVIOUS
  <1> HIDE DEF t
  <1>6. Sound(t, seen, exec)
    BY <1>2, <1>5 DEF PassSound, Sound, IsTable, FloorSound, ExecSound
  <1>7. /\ brake \in Brakes /\ (brake.ok => seen) /\ directNext \in 0..DirectPeriod
        /\ BrakeNow \in Brakes /\ (BrakeNow.ok => seen) /\ 0 \in 0..DirectPeriod
    <2>1. speed_fresh \in BOOLEAN /\ (speed_fresh => seen)
      BY <1>1 DEF TypeOK, speed_fresh, judge_stale
    <2> QED
      BY <1>1, <2>1, SpanAssumption DEF TypeOK, BrakeSeen, BrakeNow, Brakes
  <1>8. /\ Sound(table', seen, exec)
        /\ armed' \subseteq Routes /\ left' \in [Routes -> 0..Never]
        /\ stage' \in FloorStages /\ ref' \in 0..MaxSpeed
        /\ timer' \in 0..Never /\ \A r \in armed' : timer' <= left'[r]
        /\ resumed' \subseteq handover /\ wait' \in 0..Never
        /\ brake' \in Brakes /\ (brake'.ok => seen)
        /\ directNext' \in 0..DirectPeriod
        /\ silence' \in 0..SilenceCap /\ resisted' \in BOOLEAN
    <2>1. CASE /\ SetRoutes(t) /\ timer' = t.timer /\ wait' = Never
               /\ UNCHANGED <<resumed, brake, directNext, silence, resisted>>
      <3>1. /\ Sound(table', seen, exec)
            /\ armed' \subseteq Routes /\ left' \in [Routes -> 0..Never]
            /\ stage' \in FloorStages /\ ref' \in 0..MaxSpeed
        BY <1>6, <2>1, TableSet
      <3>2. timer' \in 0..Never /\ \A r \in armed' : timer' <= left'[r]
        BY <1>4, <1>5, <2>1 DEF SetRoutes
      <3>3. /\ resumed' \subseteq handover /\ wait' \in 0..Never
            /\ silence' \in 0..SilenceCap /\ resisted' \in BOOLEAN
        BY <1>1, <2>1, Spans DEF TypeOK
      <3> QED
        BY <1>7, <2>1, <3>1, <3>2, <3>3
    <2>2. CASE direct_service(t, BrakeNow, 0)
      BY <1>1, <1>4, <1>5, <1>6, <1>7, <2>2, DirectSound
    <2>3. CASE direct_service(t, brake, directNext)
      BY <1>1, <1>4, <1>5, <1>6, <1>7, <2>3, DirectSound
    <2> QED
      BY <1>3, <2>1, <2>2, <2>3
  <1>9. /\ fired' \subseteq Routes /\ fault' \in BOOLEAN /\ latched' \in BOOLEAN
        /\ (fault' => latched' /\ seen) /\ FiredSound(fired', exec)
    BY <1>1, <1>2, <1>3 DEF PassSound, TypeOK
  <1>10. TypeOK'
    BY <1>1, <1>3, <1>8, <1>9 DEF TypeOK, Brakes
  <1>11. DuesCovered' /\ CausesCovered'
    BY <1>3, <1>8 DEF DuesCovered, CausesCovered
  <1> QED
    BY <1>1, <1>3, <1>8, <1>9, <1>10, <1>11
    DEF IInv, AliveBounded, FaultSeen, BrakeSeen, ExecLate, SpinSound

\* A timeout of the wait serves the direct path on the table as it is.
LEMMA TimeoutStep == IInv /\ TimeoutWake => IInv'
  <1> SUFFICES ASSUME IInv, TimeoutWake PROVE IInv'
    OBVIOUS
  <1> DEFINE t == [armed |-> armed, left |-> left, stage |-> stage,
                   ref |-> ref, timer |-> timer]
  <1>1. TypeOK /\ AliveBounded /\ BrakeSeen /\ ExecLate /\ Sound(table, seen, exec)
    BY DEF IInv
  <1>2. /\ wake = 0 /\ direct_service(t, brake, directNext)
        /\ UNCHANGED <<fired, latched, fault, pending, wake, speed, speedAge, seen,
                       noting, handover, alive, tick, sawLatch, calling, hooking,
                       exec, vel>>
    BY DEF TimeoutWake, speedVars, envVars
  <1>3. Sound(t, seen, exec)
    BY <1>1 DEF Sound, IsTable, FloorSound, ExecSound, table
  <1>4. t.timer \in 0..Never /\ \A r \in t.armed : t.timer <= t.left[r]
    BY <1>1, <1>2 DEF IInv, DuesCovered, TypeOK
  <1> HIDE DEF t
  <1>5. /\ brake \in Brakes /\ (brake.ok => seen) /\ directNext \in 0..DirectPeriod
    BY <1>1 DEF TypeOK, BrakeSeen, Brakes
  <1>6. /\ Sound(table', seen, exec)
        /\ armed' \subseteq Routes /\ left' \in [Routes -> 0..Never]
        /\ stage' \in FloorStages /\ ref' \in 0..MaxSpeed
        /\ timer' \in 0..Never /\ \A r \in armed' : timer' <= left'[r]
        /\ resumed' \subseteq handover /\ wait' \in 0..Never
        /\ brake' \in Brakes /\ (brake'.ok => seen)
        /\ directNext' \in 0..DirectPeriod
        /\ silence' \in 0..SilenceCap /\ resisted' \in BOOLEAN
    BY <1>1, <1>2, <1>3, <1>4, <1>5, DirectSound
  <1>7. TypeOK'
    BY <1>1, <1>2, <1>6 DEF TypeOK, Brakes
  <1> QED
    BY <1>1, <1>2, <1>6, <1>7
    DEF IInv, AliveBounded, FaultSeen, BrakeSeen, ExecLate, SpinSound, DuesCovered,
        CausesCovered

\* Steps that leave the routes and the executor's cell alone: each keeps the
\* types, gives the wake for a cause it notes or leaves it to the hook, and
\* the timer's expiry is a wake.
LEMMA AsideStep ==
    ASSUME IInv,
           \/ due_expiry \/ swt_first_timeout \/ HookNote \/ HookGive
           \/ NoteSpeed \/ NoteStamp \/ HandlerBegin \/ OperatorCheck
           \/ \E i \in Slots : HandoverStamp(i) \/ HandoverFlag(i) \/ HandoverGive(i)
                                 \/ TickEnd(i)
           \/ UNCHANGED vars
    PROVE  IInv'
  <1> USE DEF routeVars, latchVars, speedVars, directVars, envVars, history, vars
  <1>1. TypeOK /\ Slots \subseteq AllSlots
    BY InstanceAssumption DEF IInv
  <1>2. /\ UNCHANGED <<armed, left, stage, ref, fired, latched, fault, exec>>
        /\ seen => seen'
        /\ UNCHANGED <<brake>>
    BY DEF due_expiry, swt_first_timeout, HookNote, HookGive, NoteSpeed, NoteStamp,
           HandlerBegin, OperatorCheck, HandoverStamp, HandoverFlag, HandoverGive, TickEnd
  <1>3. TypeOK' /\ AliveBounded'
    <2>1. CASE due_expiry
      BY <1>1, <2>1, Spans DEF due_expiry, TypeOK, IInv, AliveBounded
    <2>2. CASE swt_first_timeout
      BY <1>1, <2>2 DEF swt_first_timeout, TypeOK, IInv, AliveBounded
    <2>3. CASE HookNote
      BY <1>1, <2>3 DEF HookNote, TypeOK, IInv, AliveBounded
    <2>4. CASE HookGive
      <3>1. hooking' \in BOOLEAN /\ wake' \in {0, 1}
        BY <2>4 DEF HookGive
      <3> QED
        BY <1>1, <2>4, <3>1 DEF HookGive, TypeOK, IInv, AliveBounded
    <2>5. CASE NoteSpeed
      BY <1>1, <2>5 DEF NoteSpeed, TypeOK, IInv, AliveBounded
    <2>6. CASE NoteStamp
      <3>1. speedAge' = 0 /\ noting' = FALSE /\ seen' = TRUE
        BY <2>6 DEF NoteStamp
      <3>2. noting' \in BOOLEAN /\ seen' \in BOOLEAN
        BY <3>1
      <3>3. speedAge' \in 0..(FreshSpan + 1)
        BY <3>1, SpanAssumption
      <3> QED
        BY <1>1, <2>6, <3>2, <3>3 DEF NoteStamp, TypeOK, IInv, AliveBounded
    <2>7. CASE HandlerBegin
      <3>1. tick' \in [AllSlots -> TickSteps]
        BY <1>1, <2>7 DEF HandlerBegin, TypeOK, TickSteps
      <3> QED
        BY <1>1, <2>7, <3>1 DEF HandlerBegin, TypeOK, IInv, AliveBounded
    <2>8. CASE OperatorCheck
      <3>1. tick' \in [AllSlots -> TickSteps]
        BY <1>1, <2>8 DEF OperatorCheck, TypeOK, TickSteps
      <3> QED
        BY <1>1, <2>8, <3>1 DEF OperatorCheck, TypeOK, IInv, AliveBounded
    <2>9. ASSUME NEW i \in Slots, HandoverStamp(i) PROVE TypeOK' /\ AliveBounded'
      <3>1. alive' \in [AllSlots -> 0..Never] /\ AliveBounded'
        BY <1>1, <2>9, Spans DEF HandoverStamp, TypeOK, IInv, AliveBounded, AllSlots
      <3>2. tick' \in [AllSlots -> TickSteps]
        BY <1>1, <2>9 DEF HandoverStamp, TypeOK, TickSteps
      <3> QED
        BY <1>1, <2>9, <3>1, <3>2 DEF HandoverStamp, TypeOK
    <2>10. ASSUME NEW i \in Slots, HandoverFlag(i) PROVE TypeOK' /\ AliveBounded'
      <3>1. tick' \in [AllSlots -> TickSteps]
        BY <1>1, <2>10 DEF HandoverFlag, TypeOK, TickSteps
      <3> QED
        BY <1>1, <2>10, <3>1 DEF HandoverFlag, TypeOK, IInv, AliveBounded
    <2>11. ASSUME NEW i \in Slots, HandoverGive(i) PROVE TypeOK' /\ AliveBounded'
      <3>1. tick' \in [AllSlots -> TickSteps]
        BY <1>1, <2>11 DEF HandoverGive, TypeOK, TickSteps
      <3> QED
        BY <1>1, <2>11, <3>1 DEF HandoverGive, TypeOK, IInv, AliveBounded
    <2>12. ASSUME NEW i \in Slots, TickEnd(i) PROVE TypeOK' /\ AliveBounded'
      <3>1. 0 \in 0..SilenceCap
        BY Spans DEF SilenceCap
      <3>2. tick' \in [AllSlots -> TickSteps]
        BY <1>1, <2>12 DEF TickEnd, TypeOK, TickSteps
      <3> QED
        BY <1>1, <2>12, <3>1, <3>2 DEF TickEnd, TypeOK, IInv, AliveBounded
    <2>13. CASE UNCHANGED vars
      BY <1>1, <2>13 DEF TypeOK, IInv, AliveBounded
    <2> QED
      BY <2>1, <2>2, <2>3, <2>4, <2>5, <2>6, <2>7, <2>8, <2>9, <2>10, <2>11, <2>12, <2>13
  <1>4. Sound(table', seen', exec')
    BY <1>2, TableUnmoved DEF IInv
  <1>5. CausesCovered'
    BY <1>1 DEF IInv, TypeOK, CausesCovered, due_expiry, swt_first_timeout, HookNote,
           HookGive, NoteSpeed, NoteStamp, HandlerBegin, OperatorCheck, HandoverStamp,
           HandoverFlag, HandoverGive, TickEnd
  <1>6. DuesCovered'
    <2>1. wake' = 1 \/ (wake' = wake /\ timer' = timer)
      BY DEF due_expiry, swt_first_timeout, HookNote, HookGive, NoteSpeed, NoteStamp,
             HandlerBegin, OperatorCheck, HandoverStamp, HandoverFlag, HandoverGive, TickEnd
    <2> QED
      BY <1>2, <2>1 DEF IInv, DuesCovered
  <1> QED
    BY <1>2, <1>3, <1>4, <1>5, <1>6
    DEF IInv, FaultSeen, BrakeSeen, ExecLate, SpinSound, FiredSound

\* A call that arms or clears routes, with the timer re-armed unless the table
\* is as it was.
LEMMA CallSound ==
    ASSUME IInv, wake = 0, NEW x, NEW ex, Sound(x, seen, ex), SetRoutes(x),
           timer' = Earliest(x) \/ (x = table /\ timer' = timer)
    PROVE  /\ Sound(table', seen, ex)
           /\ armed' \subseteq Routes /\ left' \in [Routes -> 0..Never]
           /\ stage' \in FloorStages /\ ref' \in 0..MaxSpeed
           /\ timer' \in 0..Never /\ \A r \in armed' : timer' <= left'[r]
  <1>1. /\ Sound(table', seen, ex)
        /\ armed' \subseteq Routes /\ left' \in [Routes -> 0..Never]
        /\ stage' \in FloorStages /\ ref' \in 0..MaxSpeed
    BY TableSet
  <1>2. timer' \in 0..Never /\ \A r \in armed' : timer' <= left'[r]
    <2>1. CASE x = table /\ timer' = timer
      <3>1. armed' = armed /\ left' = left /\ timer' = timer
        BY <2>1 DEF SetRoutes, table
      <3> QED
        BY <3>1 DEF IInv, DuesCovered, TypeOK
    <2>2. CASE timer' = Earliest(x)
      <3>1. Rearm(x)
        BY <2>2 DEF Rearm
      <3> QED
        BY <3>1, RearmCovers
    <2> QED
      BY <2>1, <2>2
  <1> QED
    BY <1>1, <1>2

\* The handler's calls: the availability's due, the stops it calls and cancels.
LEMMA HandlerStep == IInv /\ (TakeAvailability \/ HandlerAct) => IInv'
  <1> SUFFICES ASSUME IInv, TakeAvailability \/ HandlerAct PROVE IInv'
    OBVIOUS
  <1> USE DEF routeVars, latchVars, speedVars, directVars, envVars, history
  <1>1. TypeOK /\ Sound(table, seen, exec) /\ seen \in BOOLEAN /\ speed \in 0..MaxSpeed
    BY DEF IInv, TypeOK
  <1>2. /\ wake = 0
        /\ UNCHANGED <<fired, latched, fault, pending, wake, wait, speed, speedAge,
                       seen, noting, handover, resumed, alive, brake, directNext,
                       sawLatch, hooking, exec, vel, silence, resisted>>
    BY DEF TakeAvailability, HandlerAct, HandlerIdle, Quiet
  <1>3. /\ CallMrmSpan \in 0..(Never - 1) /\ ComfortableSpan \in 0..(Never - 1)
        /\ FloorSpan \in 0..(Never - 1)
    BY Spans
  <1>4. \E x : /\ Sound(x, seen, exec) /\ SetRoutes(x)
               /\ timer' = Earliest(x) \/ (x = table /\ timer' = timer)
               /\ calling' \in {"NONE", "COMFORTABLE_STOP", "EMERGENCY_STOP"}
    <2>0. calling \in {"NONE", "COMFORTABLE_STOP", "EMERGENCY_STOP"}
      BY <1>1 DEF TypeOK
    <2>1. CASE TakeAvailability
      <3> DEFINE x == ArmRoute(table, HpcLoss, CallMrmSpan)
      <3>1. Sound(x, seen, exec)
        BY <1>1, <1>3, ArmRouteSound
      <3>2. SetRoutes(x) /\ timer' = Earliest(x) /\ calling' = calling
        BY <2>1 DEF TakeAvailability, Rearm
      <3> HIDE DEF x
      <3> QED
        BY <2>0, <3>1, <3>2
    <2>2. CASE HandlerAct
      <3>1. \A x, c : Decides(x, c) <=>
               /\ SetRoutes(x)
               /\ timer' = IF x = table THEN timer ELSE Earliest(x)
               /\ calling' = c
        BY DEF Decides
      <3>2. PICK x, c : /\ Decides(x, c) /\ Sound(x, seen, exec)
                        /\ c \in {"NONE", "COMFORTABLE_STOP", "EMERGENCY_STOP"}
        <4>1. \A r \in Routes : Sound(DoneRoute(table, r), seen, exec)
          BY <1>1, DoneRouteSound
        <4>2. Sound(ArmRoute(table, Comfortable, ComfortableSpan), seen, exec)
          BY <1>1, <1>3, ArmRouteSound
        <4>3. \A x \in {table, DoneRoute(table, Comfortable)} :
                 Sound(ArmRoute(x, Floor, FloorSpan), seen, exec)
          <5>1. Sound(DoneRoute(table, Comfortable), seen, exec)
            BY <4>1, RouteNumbers
          <5> QED
            BY <1>1, <1>3, <5>1, ArmRouteSound
        <4>4. RouteOf(calling) \in Routes /\ HpcLoss \in Routes
          BY RouteNumbers DEF RouteOf
        <4>5. HandlerDecision
          BY <2>2 DEF HandlerAct
        <4> QED
          BY <1>1, <2>0, <4>1, <4>2, <4>3, <4>4, <4>5 DEF HandlerDecision
      <3> QED
        BY <3>1, <3>2
    <2> QED
      BY <2>1, <2>2
  <1>5. /\ Sound(table', seen, exec)
        /\ armed' \subseteq Routes /\ left' \in [Routes -> 0..Never]
        /\ stage' \in FloorStages /\ ref' \in 0..MaxSpeed
        /\ timer' \in 0..Never /\ \A r \in armed' : timer' <= left'[r]
        /\ calling' \in {"NONE", "COMFORTABLE_STOP", "EMERGENCY_STOP"}
    BY <1>2, <1>4, CallSound
  <1>6. tick' \in [AllSlots -> TickSteps]
    BY <1>1 DEF TakeAvailability, HandlerAct, TypeOK, TickSteps
  <1>7. TypeOK'
    BY <1>1, <1>2, <1>5, <1>6 DEF TypeOK
  <1> QED
    BY <1>2, <1>5, <1>7
    DEF IInv, AliveBounded, FaultSeen, BrakeSeen, ExecLate, SpinSound, FiredSound,
        DuesCovered, CausesCovered

\* A take and its answer: the cell changes, the table and the watch do not.
LEMMA TakeStep ==
    ASSUME IInv, ExecTake \/ ExecAnswer
    PROVE  /\ exec' \in ExecStates /\ ExecLate' /\ SpinSound'
           /\ exec'.watch = exec.watch /\ exec'.late = exec.late
           /\ exec'.held = exec.held
           /\ exec'.pending => exec'.left = ExecSpan
  <1>1. /\ exec \in ExecStates /\ ExecSpan \in Nat \ {0}
        /\ 0 \in 0..ExecSpan /\ ExecSpan \in 0..ExecSpan /\ 0 \in 0..1
    BY SpanAssumption DEF IInv, TypeOK
  <1>2. \/ \E up \in 0..1 :
              exec' = [exec EXCEPT !.pending = TRUE, !.left = ExecSpan, !.up = up]
        \/ exec' = [exec EXCEPT !.pending = FALSE, !.left = 0, !.up = 0]
    BY DEF ExecTake, ExecAnswer
  <1>3. PICK c \in BOOLEAN, t \in 0..ExecSpan, u \in 0..1 :
           /\ exec' = [exec EXCEPT !.pending = c, !.left = t, !.up = u]
           /\ c => t = ExecSpan
    BY <1>1, <1>2
  <1>4. /\ exec' \in ExecStates
        /\ exec'.watch = exec.watch /\ exec'.late = exec.late
        /\ exec'.held = exec.held /\ exec'.spinning = exec.spinning
        /\ exec'.us = exec.us /\ exec'.gap = exec.gap
        /\ exec'.pending = c /\ exec'.left = t
    BY <1>1, <1>3 DEF ExecStates
  <1>5. exec.us # Answered => exec.us <= ExecSpan
    BY <1>1 DEF ExecStates, Answered
  <1>6. exec.gap \in 0..ExecSpan
    BY <1>1 DEF ExecStates
  <1>7. exec'.pending => exec'.left = ExecSpan
    BY <1>3, <1>4
  <1>8. ExecLate'
    BY <1>1, <1>7 DEF ExecLate
  <1>9. SpinSound'
    <2> SUFFICES ASSUME exec'.us # Answered, exec'.pending
                 PROVE  exec'.us <= exec'.left + exec'.gap
      BY DEF SpinSound
    <2>1. exec.us \in 0..Answered
      BY <1>1 DEF ExecStates
    <2>2. exec.us \in Nat /\ exec.us <= ExecSpan
      BY <1>1, <1>4, <1>5, <2>1 DEF Answered
    <2> QED
      BY <1>1, <1>4, <1>6, <1>7, <2>2
  <1> QED
    BY <1>4, <1>7, <1>8, <1>9

\* The table that a spin arms or clears route 1 in is sound for the cell that
\* it leaves.
LEMMA SpinArmSound ==
    ASSUME IInv, SpinArm,
           NEW w \in {"ok", "failed"}, NEW y \in 0..1,
           exec' = [exec EXCEPT !.spinning = FALSE, !.us = 0, !.gap = 0,
                                !.held = exec.gap, !.watch = w]
    PROVE  /\ exec.us = Answered => Sound(DoneRoute(table, Executor), seen, exec')
           /\ exec.us # Answered => Sound(ArmRoute(table, Executor, exec.us + y), seen, exec')
  <1>1. /\ Sound(table, seen, exec) /\ exec \in ExecStates /\ ExecSpan \in Nat \ {0}
        /\ SpinSound
    BY SpanAssumption DEF IInv, TypeOK
  <1>2. /\ exec'.watch = w /\ exec'.pending = exec.pending /\ exec'.left = exec.left
        /\ exec'.held = exec.gap
    BY <1>1 DEF ExecStates
  <1>3. IsTable(table) /\ FloorSound(table, seen) /\ Executor \in Routes
    BY <1>1, RouteNumbers DEF Sound
  <1>4. ASSUME exec.us = Answered PROVE Sound(DoneRoute(table, Executor), seen, exec')
    <2>1. CASE Executor \notin table.armed
      <3>1. ExecSound(table, exec')
        BY <2>1 DEF ExecSound
      <3>2. Sound(table, seen, exec')
        BY <1>3, <3>1 DEF Sound
      <3> QED
        BY <2>1, <3>2 DEF DoneRoute
    <2>2. CASE Executor \in table.armed
      <3> DEFINE z == Disarm(table, {Executor})
      <3>1. DoneRoute(table, Executor) = z
        BY <2>2, RouteNumbers DEF DoneRoute
      <3>2. /\ IsTable(z) /\ Else(table, z, {"armed", "left"})
            /\ z.armed = table.armed \ {Executor}
        BY <1>3, DisarmEffect
      <3> HIDE DEF z
      <3>3. z.stage = table.stage
        BY <1>3, <3>2 DEF Else, IsTable
      <3>4. FloorSound(z, seen)
        BY <1>3, <3>2, <3>3, RouteNumbers DEF FloorSound
      <3>5. ExecSound(z, exec')
        BY <3>2 DEF ExecSound
      <3> QED
        BY <3>1, <3>2, <3>4, <3>5 DEF Sound
    <2> QED
      BY <2>1, <2>2
  <1>5. ASSUME exec.us # Answered
        PROVE  Sound(ArmRoute(table, Executor, exec.us + y), seen, exec')
    <2> DEFINE z == Arm(table, Executor, exec.us + y)
    <2>1. exec.us \in 0..ExecSpan
      BY <1>1, <1>5 DEF ExecStates, Answered
    <2>2. exec.us + y \in 0..(Never - 1) /\ exec.us + y <= ExecSpan + 1
      BY <1>1, <2>1, Spans
    <2>3. ArmRoute(table, Executor, exec.us + y) = z
      BY RouteNumbers DEF ArmRoute
    <2>4. /\ IsTable(z) /\ Else(table, z, {"armed", "left"})
          /\ z.armed = table.armed \cup {Executor}
          /\ z.left[Executor] = exec.us + y
      BY <1>3, <2>2, ArmEffect
    <2> HIDE DEF z
    <2>5. z.stage = table.stage
      BY <1>3, <2>4 DEF Else, IsTable
    <2>6. FloorSound(z, seen)
      BY <1>3, <2>4, <2>5, RouteNumbers DEF FloorSound
    <2>7. ExecSound(z, exec')
      <3>1. exec.left \in 0..ExecSpan /\ exec.gap \in 0..ExecSpan
        BY <1>1 DEF ExecStates
      <3>2. exec.pending => exec.us <= exec.left + exec.gap
        BY <1>1, <1>5 DEF SpinSound, SpinArm
      <3>3. exec'.pending => z.left[Executor] <= exec'.left + exec'.held + 1
        BY <1>1, <1>2, <2>1, <2>4, <3>1, <3>2
      <3> QED
        BY <1>2, <2>2, <2>4, <3>3 DEF ExecSound
    <2> QED
      BY <2>3, <2>4, <2>6, <2>7 DEF Sound
  <1> QED
    BY <1>4, <1>5

\* The executor's cells, and the spin that reads them and arms its route.
LEMMA ExecStep == IInv /\ (ExecTake \/ ExecAnswer \/ SpinRead \/ SpinArm) => IInv'
  <1> SUFFICES ASSUME IInv, ExecTake \/ ExecAnswer \/ SpinRead \/ SpinArm PROVE IInv'
    OBVIOUS
  <1> USE DEF routeVars, latchVars, speedVars, directVars, history
  <1>1. /\ TypeOK /\ Sound(table, seen, exec) /\ ExecLate /\ SpinSound
        /\ FiredSound(fired, exec) /\ ExecSpan \in Nat \ {0}
    BY SpanAssumption DEF IInv
  <1>2. /\ wake = 0
        /\ UNCHANGED <<fired, latched, fault, pending, wake, wait, speed, speedAge,
                       seen, noting, handover, resumed, alive, brake, directNext, tick,
                       sawLatch, calling, hooking, vel, silence, resisted>>
    BY DEF ExecTake, ExecAnswer, SpinRead, SpinArm, HandlerIdle, Quiet
  <1>3. exec \in ExecStates
    BY <1>1 DEF TypeOK
  <1>4. /\ exec' \in ExecStates
        /\ ExecLate' /\ SpinSound' /\ FiredSound(fired', exec')
        /\ Sound(table', seen, exec')
        /\ armed' \subseteq Routes /\ left' \in [Routes -> 0..Never]
        /\ stage' \in FloorStages /\ ref' \in 0..MaxSpeed
        /\ timer' \in 0..Never /\ \A r \in armed' : timer' <= left'[r]
    <2>1. CASE ExecTake \/ ExecAnswer \/ SpinRead
      <3>1. UNCHANGED <<armed, left, stage, ref, timer>>
        BY <2>1 DEF ExecTake, ExecAnswer, SpinRead
      <3>2. /\ exec' \in ExecStates /\ ExecLate' /\ SpinSound'
            /\ exec'.watch = exec.watch /\ exec'.late = exec.late
            /\ exec'.held = exec.held
            /\ exec'.pending =>
                  exec'.left = ExecSpan \/ (exec.pending /\ exec'.left = exec.left)
        <4>1. CASE ExecTake \/ ExecAnswer
          BY <4>1, TakeStep
        <4>2. CASE SpinRead
          <5> DEFINE n == IF exec.pending THEN exec.left ELSE Answered
          <5>1. exec.left \in 0..ExecSpan /\ exec.pending \in BOOLEAN
            BY <1>3 DEF ExecStates
          <5>2. n \in 0..Answered /\ (exec.pending => n = exec.left)
            BY <1>1, <5>1 DEF Answered
          <5>3. exec' = [exec EXCEPT !.spinning = TRUE, !.gap = 0, !.us = n]
            BY <4>2 DEF SpinRead
          <5> HIDE DEF n
          <5>4. 0 \in 0..ExecSpan
            BY <1>1
          <5>5. /\ exec' \in ExecStates
                /\ exec'.pending = exec.pending /\ exec'.left = exec.left
                /\ exec'.watch = exec.watch /\ exec'.late = exec.late
                /\ exec'.held = exec.held /\ exec'.us = n /\ exec'.gap = 0
            BY <1>3, <5>2, <5>3, <5>4 DEF ExecStates
          <5>6. ExecLate' /\ SpinSound'
            BY <1>1, <5>1, <5>2, <5>5 DEF ExecLate, SpinSound
          <5> QED
            BY <5>5, <5>6
        <4> QED
          BY <2>1, <4>1, <4>2
      <3>3. FiredSound(fired', exec')
        BY <1>1, <1>2, <3>2 DEF FiredSound
      <3>4. table' = table
        BY <3>1 DEF table
      <3>5. Sound(table, seen, exec')
        <4>1. exec.held \in 0..ExecSpan
          BY <1>3 DEF ExecStates
        <4>2. table.left[Executor] \in 0..(Never - 1) /\ Never \in Nat
          BY <1>1, Spans, RouteNumbers DEF Sound, IsTable
        <4>3. ExecSound(table, exec')
          BY <1>1, <3>2, <4>1, <4>2 DEF Sound, ExecSound
        <4> QED
          BY <1>1, <4>3 DEF Sound
      <3>6. DuesCovered /\ TypeOK
        BY DEF IInv
      <3> QED
        BY <1>2, <3>1, <3>2, <3>3, <3>4, <3>5, <3>6 DEF TypeOK, DuesCovered
    <2>2. CASE SpinArm
      <3>1. PICK w \in {"ok", "failed"} :
               /\ exec.watch # "none" => w = exec.watch
               /\ exec' = [exec EXCEPT !.spinning = FALSE, !.us = 0, !.gap = 0,
                                       !.held = exec.gap, !.watch = w]
        BY <2>2 DEF SpinArm
      <3>2. PICK y \in 0..1 :
               LET x == IF exec.us = Answered THEN DoneRoute(table, Executor)
                        ELSE ArmRoute(table, Executor, exec.us + y)
               IN  SetRoutes(x) /\ timer' = IF x = table THEN timer ELSE Earliest(x)
        BY <2>2 DEF SpinArm
      <3> DEFINE x == IF exec.us = Answered THEN DoneRoute(table, Executor)
                      ELSE ArmRoute(table, Executor, exec.us + y)
      <3>3. SetRoutes(x) /\ timer' = IF x = table THEN timer ELSE Earliest(x)
        BY <3>2
      <3>4. exec.gap \in 0..ExecSpan /\ 0 \in 0..ExecSpan /\ 0 \in 0..Answered
        BY <1>1, <1>3 DEF ExecStates, Answered
      <3>5. /\ exec' \in ExecStates
            /\ exec'.pending = exec.pending /\ exec'.left = exec.left
            /\ exec'.late = exec.late /\ exec'.watch # "none"
            /\ exec'.spinning = FALSE
            /\ exec.watch # "none" => exec'.watch = exec.watch
        BY <1>3, <3>1, <3>4 DEF ExecStates
      <3>6. ExecLate' /\ SpinSound' /\ FiredSound(fired', exec')
        BY <1>1, <1>2, <3>5 DEF ExecLate, SpinSound, FiredSound
      <3>7. Sound(x, seen, exec')
        BY <2>2, <3>1, SpinArmSound
      <3> HIDE DEF x
      <3>8. timer' = Earliest(x) \/ (x = table /\ timer' = timer)
        BY <3>3
      <3>9. /\ Sound(table', seen, exec')
            /\ armed' \subseteq Routes /\ left' \in [Routes -> 0..Never]
            /\ stage' \in FloorStages /\ ref' \in 0..MaxSpeed
            /\ timer' \in 0..Never /\ \A r \in armed' : timer' <= left'[r]
        BY <1>2, <3>3, <3>7, <3>8, CallSound
      <3> QED
        BY <3>5, <3>6, <3>9
    <2> QED
      BY <2>1, <2>2
  <1>5. TypeOK'
    BY <1>1, <1>2, <1>4 DEF TypeOK
  <1> QED
    BY <1>2, <1>4, <1>5
    DEF IInv, AliveBounded, FaultSeen, BrakeSeen, DuesCovered, CausesCovered

\* Time passes for the timer and the dues that it covers alike.
LEMMA AdvanceStep == IInv /\ Advance => IInv'
  <1> SUFFICES ASSUME IInv, Advance PROVE IInv'
    OBVIOUS
  <1>1. /\ TypeOK /\ AliveBounded /\ Sound(table, seen, exec) /\ ExecLate
        /\ FiredSound(fired, exec) /\ DuesCovered
    BY DEF IInv
  <1>2. /\ wake = 0 /\ timer # 0
        /\ UNCHANGED <<armed, stage, ref, fired, latched, fault, pending, wake, speed,
                       seen, noting, handover, resumed, tick, sawLatch, calling, hooking>>
    BY DEF Advance, Quiet
  <1>3. \A n \in Nat : \A t \in 0..n : Down(t) \in 0..n /\ Down(t) <= t /\ (t > 0 => Down(t) = t - 1)
    BY DEF Down
  <1>4. \A n \in Nat : \A t \in 0..n : Older(t, n) \in 0..n
    BY DEF Older
  <1>5. /\ left \in [Routes -> 0..(Never - 1)]
        /\ left' = [r \in Routes |-> Down(left[r])]
        /\ timer' = DownTo(timer) /\ timer \in 0..Never /\ Never \in Nat \ {0}
    BY <1>1, Spans, SpanAssumption DEF Advance, Sound, IsTable, table, TypeOK
  <1>6. left' \in [Routes -> 0..(Never - 1)] /\ left' \in [Routes -> 0..Never]
    BY <1>5 DEF Down
  <1>7. timer' \in 0..Never /\ \A r \in armed' : timer' <= left'[r]
    <2>1. timer' \in 0..Never
      BY <1>5 DEF DownTo, Down
    <2>2. ASSUME NEW r \in armed PROVE timer' <= left'[r]
      <3>1. r \in Routes /\ timer <= left[r] /\ left[r] \in 0..(Never - 1)
        BY <1>1, <1>2, <1>5 DEF TypeOK, DuesCovered
      <3>2. left'[r] = Down(left[r])
        BY <1>5, <3>1
      <3> QED
        BY <1>5, <3>1, <3>2 DEF DownTo, Down
    <2> QED
      BY <1>2, <2>1, <2>2
  <1>8. wait' \in 0..Never
    BY <1>1, <1>5 DEF Advance, TypeOK, DownTo, Down
  <1>9. speedAge' \in 0..(FreshSpan + 1)
    BY <1>1, SpanAssumption DEF Advance, TypeOK, Older
  <1>10. alive' \in [AllSlots -> 0..Never] /\ AliveBounded'
    <2>1. \A i \in AllSlots : ResumeLimit(i) \in Nat /\ ResumeLimit(i) < Never
      BY Spans DEF AllSlots
    <2>2. \A i \in AllSlots : alive[i] \in 0..ResumeLimit(i)
      BY <1>1, <2>1, Spans DEF TypeOK, AliveBounded
    <2>3. \A i \in AllSlots : Older(alive[i], ResumeLimit(i)) \in 0..ResumeLimit(i)
      BY <1>4, <2>1, <2>2
    <2>4. alive' = [i \in AllSlots |-> IF i \in Slots THEN Older(alive[i], ResumeLimit(i)) ELSE 0]
      BY DEF Advance
    <2>5. \A i \in AllSlots : alive'[i] \in 0..ResumeLimit(i)
      BY <2>1, <2>3, <2>4
    <2>6. \A i \in AllSlots : alive'[i] \in 0..Never /\ alive'[i] <= ResumeLimit(i)
      BY <2>1, <2>5, <1>5
    <2> QED
      BY <2>4, <2>6 DEF AliveBounded
  <1>11. brake' \in Brakes /\ BrakeSeen'
    <2>1. brake \in Brakes /\ BrakeSeen
      BY <1>1 DEF TypeOK, Brakes, IInv
    <2>2. brake' = IF latched THEN [brake EXCEPT !.age = Older(@, FloorSpan)] ELSE brake
      BY DEF Advance
    <2>3. Older(brake.age, FloorSpan) \in 0..FloorSpan
      BY <2>1, <1>4, SpanAssumption DEF Brakes
    <2> QED
      BY <1>2, <2>1, <2>2, <2>3 DEF Brakes, BrakeSeen
  <1>12. directNext' \in 0..DirectPeriod
    BY <1>1, SpanAssumption DEF Advance, TypeOK, Down
  <1>13. /\ exec' \in ExecStates
         /\ exec'.watch = exec.watch /\ exec'.pending = exec.pending
         /\ exec'.left = Down(exec.left) /\ exec'.held = exec.held
         /\ exec'.late = (exec.late \/ (exec.pending /\ exec.left = 1))
         /\ SpinSound'
    <2> DEFINE g == IF exec.spinning THEN Older(exec.gap, ExecSpan) ELSE 0
    <2>1. exec \in ExecStates /\ SpinSound /\ ExecSpan \in Nat \ {0}
      BY <1>1, SpanAssumption DEF TypeOK, IInv
    <2>2. exec' = [exec EXCEPT !.left = Down(exec.left),
                               !.late = exec.late \/ (exec.pending /\ exec.left = 1),
                               !.gap = g]
      BY DEF Advance
    <2>3. exec.left \in 0..ExecSpan /\ exec.gap \in 0..ExecSpan /\ exec.us \in 0..Answered
      BY <2>1 DEF ExecStates
    <2>4. Down(exec.left) \in 0..ExecSpan /\ g \in 0..ExecSpan
      <3>1. Down(exec.left) \in 0..ExecSpan
        BY <2>1, <2>3 DEF Down
      <3>2. Older(exec.gap, ExecSpan) \in 0..ExecSpan
        BY <2>1, <2>3 DEF Older
      <3> QED
        BY <2>1, <3>1, <3>2
    <2>5. exec.spinning /\ exec.us # Answered /\ exec.pending
            => exec.us <= Down(exec.left) + g
      <3>1. exec.us # Answered => exec.us <= ExecSpan
        BY <2>1, <2>3 DEF Answered
      <3>2. exec.us \in Nat
        BY <2>1, <2>3 DEF Answered
      <3> QED
        BY <2>1, <2>3, <3>1, <3>2 DEF SpinSound, Down, Older
    <2> HIDE DEF g
    <2>6. PICK b \in BOOLEAN : b = (exec.late \/ (exec.pending /\ exec.left = 1))
      OBVIOUS
    <2>7. exec' = [exec EXCEPT !.left = Down(exec.left), !.late = b, !.gap = g]
      BY <2>2, <2>6
    <2>8. /\ exec' \in ExecStates
          /\ exec'.watch = exec.watch /\ exec'.pending = exec.pending
          /\ exec'.left = Down(exec.left) /\ exec'.held = exec.held
          /\ exec'.late = b /\ exec'.gap = g
          /\ exec'.spinning = exec.spinning /\ exec'.us = exec.us
      BY <2>1, <2>4, <2>7 DEF ExecStates
    <2>9. SpinSound'
      BY <2>5, <2>8 DEF SpinSound
    <2> QED
      BY <2>6, <2>8, <2>9
  <1>14. ExecLate' /\ FiredSound(fired', exec')
    <2>1. exec.left \in 0..ExecSpan /\ ExecSpan \in Nat
      BY <1>1, SpanAssumption DEF TypeOK, ExecStates
    <2>2. exec'.left = 0 => exec.left = 0 \/ exec.left = 1
      BY <1>13, <2>1 DEF Down
    <2> QED
      BY <1>1, <1>2, <1>13, <2>2 DEF ExecLate, FiredSound
  <1>15. vel' \in 0..MaxSpeed /\ resisted' \in BOOLEAN
    <2>1. vel' \in 0..MaxSpeed
      BY DEF Advance, VehicleMoves
    <2>2. resisted' \in BOOLEAN
      BY <1>1 DEF Advance, VehicleMoves, TypeOK
    <2> QED
      BY <2>1, <2>2
  <1>16. silence' \in 0..SilenceCap
    <2>1. SilenceCap \in Nat /\ silence \in 0..SilenceCap
      BY <1>1, Spans DEF SilenceCap, TypeOK
    <2>2. silence' \in {silence, Older(silence, SilenceCap)}
      BY DEF Advance
    <2> QED
      BY <1>4, <2>1, <2>2
  <1>17. Sound(table', seen', exec')
    <2>1. /\ table'.armed = table.armed /\ table'.stage = table.stage
          /\ table'.ref = table.ref /\ table'.left = left' /\ table.left = left
          /\ {"armed", "left", "stage", "ref"} \subseteq DOMAIN table'
      BY <1>2 DEF table
    <2>2. IsTable(table') /\ FloorSound(table', seen')
      BY <1>1, <1>2, <1>6, <2>1 DEF Sound, IsTable, FloorSound
    <2>3. ExecSound(table', exec')
      <3>1. left[Executor] \in 0..(Never - 1) /\ left'[Executor] = Down(left[Executor])
        BY <1>5, RouteNumbers
      <3>2. exec.left \in 0..ExecSpan /\ exec.held \in 0..ExecSpan /\ ExecSpan \in Nat
        BY <1>1, SpanAssumption DEF TypeOK, ExecStates
      <3>3. left[Executor] <= ExecSpan + 1 => left'[Executor] <= ExecSpan + 1
        BY <1>5, <3>1, <3>2 DEF Down
      <3>4. left[Executor] <= exec.left + exec.held + 1
              => left'[Executor] <= exec'.left + exec'.held + 1
        BY <1>5, <1>13, <3>1, <3>2 DEF Down
      <3> QED
        BY <1>1, <1>13, <2>1, <3>3, <3>4 DEF Sound, ExecSound
    <2> QED
      BY <2>2, <2>3 DEF Sound
  <1>18. TypeOK'
    BY <1>1, <1>2, <1>6, <1>7, <1>8, <1>9, <1>10, <1>11, <1>12, <1>13, <1>15, <1>16
    DEF TypeOK, Brakes
  <1> QED
    BY <1>2, <1>7, <1>10, <1>11, <1>13, <1>14, <1>17, <1>18
    DEF IInv, FaultSeen, DuesCovered, CausesCovered

LEMMA StepHolds == IInv /\ [Next]_vars => IInv'
  BY PassStep, TimeoutStep, AsideStep, HandlerStep, ExecStep, AdvanceStep
  DEF Next, Kernel, SpinThread

-----------------------------------------------------------------------------
(* Theorems.                                                               *)

\* The inductive invariant: the types, the table of the routes as its calls,
\* dones, verdicts and resumes leave it, and the wake that is on its way.
THEOREM Invariant == Spec => []IInv
  BY InitHolds, StepHolds, PTL DEF Spec

\* Every variable of the supervisor keeps its type.
THEOREM SupervisorTypes == Spec => []TypeOK
  <1>1. IInv => TypeOK
    BY DEF IInv
  <1> QED
    BY Invariant, <1>1, PTL

\* No due of an armed route is lost: rearm_locked's one timer is at or before
\* every armed due, or the reaction thread has been woken.
THEOREM DuesAreCovered == Spec => []DuesCovered
  <1>1. IInv => DuesCovered
    BY DEF IInv
  <1> QED
    BY Invariant, <1>1, PTL

\* No noted cause of a latch is lost: its wake is given, or the hook that
\* noted it is still to give it.
THEOREM CausesAreCovered == Spec => []CausesCovered
  <1>1. IInv => CausesCovered
    BY DEF IInv
  <1> QED
    BY Invariant, <1>1, PTL

\* Route 3's stage and due go together, route 4 never outlives route 3, and
\* only a vehicle that has reported is blamed, under the latch.
THEOREM FloorIsStructured == Spec => []FloorStructure
  <1>1. IInv => FloorStructure
    BY DEF IInv, FloorStructure, FaultSeen, Sound, FloorSound, table
  <1> QED
    BY Invariant, <1>1, PTL

\* Route 1, judged through the executor's watch, fires only for a take that was
\* late, and is due later than the take that is pending by no more than the
\* kernel's tick and the time its spin was held between its read and its arming.
THEOREM ExecutorIsJudged == Spec => []ExecutorJudged
  <1>1. IInv => ExecutorJudged
    BY DEF IInv, ExecutorJudged, FiredSound, Sound, ExecSound, table
  <1> QED
    BY Invariant, <1>1, PTL
=============================================================================
