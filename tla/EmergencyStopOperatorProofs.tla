-------------------- MODULE EmergencyStopOperatorProofs --------------------
(***************************************************************************)
(* The emergency stop operator and the direct brake, for every target      *)
(* deceleration, clamp, period and set of host commands: the slot has one  *)
(* source at a time, and the two ramps are one.                            *)
(*                                                                         *)
(* The operator steps its ramp from tick to tick with a clamped dt; the    *)
(* direct brake computes the same ramp in closed form from the time since  *)
(* the latch.  What ties them is that every command either of them puts on *)
(* the wire is the closed form's at some time not after now, or above it   *)
(* in velocity: an operator that ticks late only lags behind the ramp.     *)
(***************************************************************************)
EXTENDS EmergencyStopOperator, TLAPS

-----------------------------------------------------------------------------
(* The inductive invariant.                                                *)

\* Whose turn it is: the operator takes over under the latch, reports before
\* its first command, and holds the slot only after that; a callback that was
\* under way when the output was latched began without the takeover.
Turns ==
    /\ takenOver => latched /\ subscribed /\ (withdrawn \/ status = "OPERATING")
    /\ hasLast = latched
    /\ ~latched => since = 0
    /\ handover => takenOver
    /\ resumed => handover
    /\ tick = "report" => takenOver
    /\ tick = "pass" => ~takenOver
    /\ tick = "publish" /\ takenOver => handover

\* A callback past its check of the latch, that has not taken over.
PastCheck == tick = "pass" \/ (tick = "publish" /\ ~takenOver)

\* A stray has spent the one callback that could make it.
StraysSpent ==
    /\ strays.early = 0 \/ (strays.early = 1 /\ latched /\ ~PastCheck)
    /\ strays.late = 0 \/ (strays.late = 1 /\ resumed /\ tick # "publish")

\* The seed's words are stored in order, from a command of the host's.
SeedStored ==
    /\ tick \in {"seed_velocity", "seed_acceleration", "seed_valid"} => prev \in Controls
    /\ seed.valid \/ tick \in {"seed_acceleration", "seed_valid"}
          => \E c \in Controls : seed.vel = c.vel
    /\ seed.valid \/ tick = "seed_valid" => \E c \in Controls : seed.acc = c.acc

\* c is the direct brake's command at s after the latch, or lags above it.
OnRamp(c, s) ==
    /\ c.acc = DirectCommand(start, s).acc
    /\ c.vel >= DirectCommand(start, s).vel

\* c is on the ramp at a time its age accounts for, exactly when every tick
\* came in time.
Reached(c, age, timely) ==
    \E s \in 0..since : /\ s + age <= since /\ OnRamp(c, s)
                        /\ timely /\ age <= MaxDt => s + age = since

\* The direct brake's last command, the one the operator that took over
\* continues, and the one on the wire are on the ramp.
OneRamp ==
    /\ latched => Reached(last, lastAge, TRUE)
    /\ takenOver /\ ~withdrawn => prevAge >= 0 /\ Reached(prev, prevAge, ~late)
    /\ latched /\ ~withdrawn => \A c \in braked : \E s \in 0..since : OnRamp(c, s)

IInv == TypeOK /\ Turns /\ StraysSpent /\ SeedStored /\ OneRamp

-----------------------------------------------------------------------------
(* The ramp.                                                               *)

\* The closed form's velocity before the floor at zero: a ramp from a down to
\* TargetAcceleration, then that.
Fall(v, a, t) ==
    LET ramp == a - TargetAcceleration
    IN  IF t < ramp THEN v + 2 * a * t - t * t
        ELSE v + 2 * a * ramp - ramp * ramp + 2 * TargetAcceleration * (t - ramp)

\* The closed form is concave: d later it is at most what its slope gives.
LEMMA Slope ==
    ASSUME NEW v \in Int, NEW a \in Int, TargetAcceleration <= a,
           NEW t \in Nat, NEW d \in Nat
    PROVE  Fall(v, a, t + d) <= Fall(v, a, t) + 2 * Larger(a - t, TargetAcceleration) * d
  <1> DEFINE T == TargetAcceleration
             r == a - T
  <1>1. T \in Int /\ r \in Nat /\ T = a - r
    BY RampAssumption
  <1>2. CASE t + d < r
    <2>1. Fall(v, a, t + d) = v + 2 * a * (t + d) - (t + d) * (t + d)
      BY <1>2 DEF Fall
    <2>2. Fall(v, a, t) = v + 2 * a * t - t * t
      BY <1>1, <1>2 DEF Fall
    <2>3. Larger(a - t, T) = a - t
      BY <1>1, <1>2 DEF Larger
    <2>4. (t + d) * (t + d) = t * t + 2 * t * d + d * d /\ d * d >= 0
      OBVIOUS
    <2>5. 2 * a * (t + d) = 2 * a * t + 2 * a * d /\ 2 * (a - t) * d = 2 * a * d - 2 * t * d
      OBVIOUS
    <2> QED
      BY <2>1, <2>2, <2>3, <2>4, <2>5
  <1>3. CASE t >= r
    <2>1. Fall(v, a, t + d) = v + 2 * a * r - r * r + 2 * T * (t + d - r)
      BY <1>1, <1>3 DEF Fall
    <2>2. Fall(v, a, t) = v + 2 * a * r - r * r + 2 * T * (t - r)
      BY <1>1, <1>3 DEF Fall
    <2>3. Larger(a - t, T) = T
      BY <1>1, <1>3 DEF Larger
    <2>4. 2 * T * (t + d - r) = 2 * T * (t - r) + 2 * T * d
      BY <1>1
    <2> HIDE DEF r, T
    <2>5. 2 * a * r \in Int /\ r * r \in Int /\ 2 * T * (t - r) \in Int /\ 2 * T * d \in Int
      BY <1>1
    <2> QED
      BY <2>1, <2>2, <2>3, <2>4, <2>5 DEF T
  <1>4. CASE t < r /\ t + d >= r
    <2> DEFINE x == r - t
    <2>1. Fall(v, a, t + d) = v + 2 * a * r - r * r + 2 * T * (t + d - r)
      BY <1>1, <1>4 DEF Fall
    <2>2. Fall(v, a, t) = v + 2 * a * t - t * t
      BY <1>1, <1>4 DEF Fall
    <2>3. Larger(a - t, T) = a - t
      BY <1>1, <1>4 DEF Larger
    <2>4. x \in Nat /\ x <= d /\ r = t + x /\ T = a - t - x
      BY <1>1, <1>4
    <2> HIDE DEF x, r, T
    <2>5. x * x <= 2 * x * d
      BY <2>4
    <2>6. \A y \in Int : v + 2 * a * (t + y) - (t + y) * (t + y) + 2 * (a - t - y) * (d - y)
                            = v + 2 * a * t - t * t + 2 * (a - t) * d + y * y - 2 * y * d
      OBVIOUS
    <2>7. Fall(v, a, t + d) = v + 2 * a * t - t * t + 2 * (a - t) * d + x * x - 2 * x * d
      BY <2>1, <2>4, <2>6
    <2>8. /\ 2 * a * t \in Int /\ t * t \in Int /\ 2 * (a - t) * d \in Int
          /\ x * x \in Int /\ 2 * x * d \in Int
      BY <2>4
    <2> QED
      BY <2>2, <2>3, <2>5, <2>7, <2>8 DEF T
  <1> QED
    BY <1>1, <1>2, <1>3, <1>4

LEMMA DirectForm ==
    ASSUME NEW c \in Command, NEW t \in Int
    PROVE  LET a == Larger(c.acc, TargetAcceleration)
           IN  /\ a \in Int /\ TargetAcceleration <= a
               /\ Fall(c.vel, a, t) \in Int
               /\ DirectCommand(c, t) = [vel |-> Larger(Fall(c.vel, a, t), 0),
                                         acc |-> Larger(a - t, TargetAcceleration)]
               /\ DirectCommand(c, t) \in Command
  <1> DEFINE a == Larger(c.acc, TargetAcceleration)
  <1>1. c.vel \in Nat /\ c.acc \in Int /\ TargetAcceleration \in Int
    BY RampAssumption DEF Command
  <1>2. a \in Int /\ TargetAcceleration <= a
    BY <1>1 DEF Larger
  <1>3. DirectCommand(c, t) = [vel |-> Larger(Fall(c.vel, a, t), 0),
                               acc |-> Larger(a - t, TargetAcceleration)]
    BY DEF DirectCommand, Fall
  <1> HIDE DEF a
  <1>4. Fall(c.vel, a, t) \in Int
    BY <1>1, <1>2 DEF Fall
  <1>5. Larger(Fall(c.vel, a, t), 0) \in Nat /\ Larger(a - t, TargetAcceleration) \in Int
    BY <1>1, <1>2, <1>4 DEF Larger
  <1>6. DirectCommand(c, t) \in Command
    BY <1>3, <1>5 DEF Command
  <1> QED
    BY <1>2, <1>3, <1>4, <1>6 DEF a

\* A step of the operator's from the direct brake's command at t, or from one
\* that lags above it, is on the ramp d later or lags above it there.
LEMMA RampStep ==
    ASSUME NEW c \in Command, NEW t \in Nat, NEW d \in Nat,
           NEW w \in Nat, w >= DirectCommand(c, t).vel
    PROVE  /\ DirectCommand(c, t + d).acc = Larger(DirectCommand(c, t).acc - d, TargetAcceleration)
           /\ DirectCommand(c, t + d).vel <= Larger(w + 2 * DirectCommand(c, t).acc * d, 0)
  <1> DEFINE a == Larger(c.acc, TargetAcceleration)
             g == Larger(a - t, TargetAcceleration)
             f == Fall(c.vel, a, t)
             h == Fall(c.vel, a, t + d)
  <1>1. /\ a \in Int /\ TargetAcceleration <= a /\ TargetAcceleration \in Int
        /\ f \in Int /\ h \in Int /\ c.vel \in Int
        /\ DirectCommand(c, t) = [vel |-> Larger(f, 0), acc |-> g]
        /\ DirectCommand(c, t + d) = [vel |-> Larger(h, 0),
                                      acc |-> Larger(a - (t + d), TargetAcceleration)]
    <2>1. c.vel \in Int /\ TargetAcceleration \in Int
      BY RampAssumption DEF Command
    <2>2. /\ a \in Int /\ TargetAcceleration <= a /\ f \in Int
          /\ DirectCommand(c, t) = [vel |-> Larger(f, 0), acc |-> g]
      BY DirectForm
    <2>3. t + d \in Int
      OBVIOUS
    <2>4. /\ h \in Int
          /\ DirectCommand(c, t + d) = [vel |-> Larger(h, 0),
                                        acc |-> Larger(a - (t + d), TargetAcceleration)]
      BY <2>3, DirectForm
    <2> QED
      BY <2>1, <2>2, <2>4
  <1>2. h <= f + 2 * g * d
    BY <1>1, Slope
  <1> HIDE DEF a
  <1>3. g \in Int /\ Larger(a - (t + d), TargetAcceleration) = Larger(g - d, TargetAcceleration)
    BY <1>1 DEF Larger
  <1> HIDE DEF f, g, h
  <1>4. 2 * g * d \in Int
    BY <1>3
  <1>5. w >= Larger(f, 0)
    BY <1>1
  <1>6. Larger(h, 0) <= Larger(w + 2 * g * d, 0)
    BY <1>1, <1>2, <1>4, <1>5 DEF Larger
  <1> QED
    BY <1>1, <1>3, <1>6

\* Once it slows, the direct brake never speeds up again.
LEMMA RampFalls ==
    ASSUME NEW c \in Command, NEW t \in Nat, NEW u \in Nat, t <= u
    PROVE  /\ DirectCommand(c, u).acc <= DirectCommand(c, t).acc
           /\ DirectCommand(c, t).acc <= 0 => DirectCommand(c, u).vel <= DirectCommand(c, t).vel
  <1> DEFINE d == u - t
             x == DirectCommand(c, t)
             y == DirectCommand(c, u)
  <1>1. d \in Nat /\ u = t + d
    OBVIOUS
  <1>2. x \in Command /\ y \in Command /\ TargetAcceleration \in Int
    BY DirectForm, RampAssumption
  <1>3. x.vel \in Nat /\ x.acc \in Int /\ y.vel \in Nat /\ y.acc \in Int
    BY <1>2 DEF Command
  <1> HIDE DEF d, x, y
  <1>4. y.acc = Larger(x.acc - d, TargetAcceleration) /\ y.vel <= Larger(x.vel + 2 * x.acc * d, 0)
    <2>1. x.vel >= DirectCommand(c, t).vel
      BY <1>3 DEF x
    <2> QED
      BY <1>1, <1>3, <2>1, RampStep DEF x, y
  <1>5. x.acc >= TargetAcceleration
    <2> DEFINE a == Larger(c.acc, TargetAcceleration)
    <2>1. a \in Int /\ x.acc = Larger(a - t, TargetAcceleration)
      BY DirectForm DEF x
    <2> HIDE DEF a
    <2> QED
      BY <1>2, <2>1 DEF Larger
  <1>6. y.acc <= x.acc
    BY <1>1, <1>2, <1>3, <1>4, <1>5 DEF Larger
  <1>7. x.acc <= 0 => 2 * x.acc * d <= 0 /\ 2 * x.acc * d \in Int
    BY <1>1, <1>3
  <1>8. x.acc <= 0 => y.vel <= x.vel
    BY <1>3, <1>4, <1>7 DEF Larger
  <1> QED
    BY <1>6, <1>8 DEF x, y

-----------------------------------------------------------------------------
(* Types.                                                                  *)

LEMMA InitInv == Init => IInv
  <1> SUFFICES ASSUME Init PROVE IInv
    OBVIOUS
  <1>1. TypeOK
    <2>1. NoCommand \in Command /\ Garbage \subseteq Command /\ DirectPeriod \in Nat
      BY RampAssumption, SlotAssumption DEF Command, NoCommand
    <2>2. prev \in Command
      BY <2>1 DEF Init
    <2>3. seed \in [vel : Nat, acc : Int, valid : BOOLEAN] /\ strays \in [early : Nat, late : Nat]
      BY DEF Init
    <2>4. /\ next \in 0..DirectPeriod /\ prevAge \in Int /\ lastAge \in Nat
          /\ since \in Nat /\ alive \in Nat
      BY <2>1 DEF Init
    <2>5. requests \in Seq({"call", "cancel"}) /\ braked \subseteq Command
      BY DEF Init
    <2> QED
      BY <2>1, <2>2, <2>3, <2>4, <2>5, Zenon DEF Init, TypeOK
  <1>2. Turns /\ StraysSpent /\ SeedStored
    BY DEF Init, Turns, StraysSpent, SeedStored
  <1>3. OneRamp
    BY DEF Init, OneRamp
  <1> QED
    BY <1>1, <1>2, <1>3 DEF IInv

LEMMA StepTypes == TypeOK /\ [Next]_vars => TypeOK'
  <1> SUFFICES ASSUME TypeOK, [Next]_vars PROVE TypeOK'
    OBVIOUS
  <1> USE SlotAssumption
  <1>0. DirectPeriod \in Nat /\ MaxDt \in Nat /\ ResumeSpan \in Nat
    BY RampAssumption
  <1>1. ASSUME NEW s \in Command, NEW t \in Nat, direct_brake(s, t)
        PROVE  /\ start' \in Command /\ last' \in Command /\ lastAge' \in Nat
               /\ hasLast' \in BOOLEAN /\ braked' \subseteq Command
    BY <1>1, DirectForm DEF direct_brake
  <1>2. CASE Latch
    <2> DEFINE s == IF seed.valid THEN [vel |-> seed.vel, acc |-> seed.acc] ELSE NoCommand
    <2>1. s \in Command /\ direct_brake(s, 0)
      BY <1>2 DEF Latch, TypeOK, Command, NoCommand
    <2> HIDE DEF s
    <2>2. /\ start' \in Command /\ last' \in Command /\ lastAge' \in Nat
          /\ hasLast' \in BOOLEAN /\ braked' \subseteq Command
      BY <1>1, <2>1
    <2> QED
      BY <1>0, <1>2, <2>2 DEF Latch, TypeOK, spinVars, slotVars
  <1>3. CASE DirectPass
    <2>1. direct_brake(start, since) /\ start \in Command /\ since \in Nat
      BY <1>3 DEF DirectPass, TypeOK
    <2>2. /\ start' \in Command /\ last' \in Command /\ lastAge' \in Nat
          /\ hasLast' \in BOOLEAN /\ braked' \subseteq Command
      BY <1>1, <2>1
    <2>3. resumed' \in BOOLEAN
      BY <1>3 DEF DirectPass
    <2> QED
      BY <1>0, <1>3, <2>2, <2>3 DEF DirectPass, TypeOK, spinVars, slotVars
  <1>4. CASE onControlCommand
    BY <1>4, RampAssumption DEF onControlCommand, TypeOK, directVars, slotVars, history
  <1>5. CASE SeedStore
    BY <1>5 DEF SeedStore, TypeOK, Command, directVars, slotVars, history
  <1>6. ASSUME NEW op \in {"call", "cancel"}, SendRequest(op)
        PROVE  TypeOK'
    <2>1. requests' \in Seq({"call", "cancel"})
      BY <1>6 DEF SendRequest, TypeOK
    <2> QED
      BY <1>6, <2>1 DEF SendRequest, TypeOK, spinVars, directVars, slotVars, history
  <1>7. CASE operateEmergencyStop
    <2>1. requests' \in Seq({"call", "cancel"})
      BY <1>7 DEF operateEmergencyStop, TypeOK
    <2>2. withdrawn' \in BOOLEAN
      BY <1>7 DEF operateEmergencyStop
    <2> QED
      BY <1>7, <2>1, <2>2 DEF operateEmergencyStop, TypeOK, directVars, slotVars
  <1>8. CASE TickBegin
    <2>1. /\ prev' \in Command /\ prevAge' \in Int /\ subscribed' \in BOOLEAN
          /\ takenOver' \in BOOLEAN /\ tick' \in {"report", "publish", "pass"}
      <3>1. CASE TakeOver /\ tick' = "report"
        <4>1. CASE hasLast
          BY <3>1, <4>1 DEF TakeOver, TypeOK
        <4>2. CASE ~hasLast
          BY <3>1, <4>2 DEF TakeOver, TypeOK
        <4> QED
          BY <4>1, <4>2
      <3>2. CASE UNCHANGED <<prev, prevAge, subscribed, takenOver>>
        BY <1>8, <3>2 DEF TickBegin, TypeOK
      <3> QED
        BY <1>8, <3>1, <3>2 DEF TickBegin, TakeOver
    <2> QED
      BY <1>8, <2>1 DEF TickBegin, TypeOK, directVars, slotVars, history
  <1>9. CASE TickReport
    <2>1. tick' \in {"idle", "publish"} /\ alive' \in Nat /\ handover' \in BOOLEAN
      <3>1. CASE resumed
        BY <1>9, <3>1 DEF TickReport, TypeOK
      <3>2. CASE ~resumed
        BY <1>9, <3>2 DEF TickReport, TypeOK
      <3> QED
        BY <3>1, <3>2
    <2> QED
      BY <1>9, <2>1 DEF TickReport, TypeOK, directVars, history
  <1>10. CASE TickPublish
    <2>1. calcTargetAcceleration \in Command
      <3>1. /\ prev.vel \in Nat /\ prev.acc \in Int /\ TargetAcceleration \in Int
            /\ Clamped(prevAge) \in Int
        BY <1>0, RampAssumption DEF TypeOK, Command, Clamped
      <3>2. prev.vel + 2 * prev.acc * Clamped(prevAge) \in Int
        BY <3>1
      <3> QED
        BY <3>1, <3>2 DEF calcTargetAcceleration, Larger, Command
    <2>2. strays' \in [early : Nat, late : Nat]
      BY <1>10 DEF TickPublish, Published, TypeOK
    <2>3. late' \in BOOLEAN
      BY <1>10 DEF TickPublish
    <2> QED
      BY <1>10, <2>1, <2>2, <2>3 DEF TickPublish, TypeOK, directVars, slotVars
  <1>11. CASE TickPass
    <2>1. strays' \in [early : Nat, late : Nat]
      BY <1>11 DEF TickPass, Published, TypeOK
    <2> QED
      BY <1>11, <2>1 DEF TickPass, TypeOK, directVars, slotVars
  <1>12. CASE Advance
    BY <1>0, <1>12 DEF Advance, TypeOK, Older, history
  <1>13. CASE UNCHANGED vars
    BY <1>13 DEF vars, TypeOK, spinVars, directVars, slotVars, history
  <1> QED
    BY <1>2, <1>3, <1>4, <1>5, <1>6, <1>7, <1>8, <1>9, <1>10, <1>11, <1>12, <1>13 DEF Next

-----------------------------------------------------------------------------
(* Turns, strays and the seed.                                             *)

LEMMA StepTurns == TypeOK /\ Turns /\ [Next]_vars => Turns'
  <1> SUFFICES ASSUME TypeOK, Turns, [Next]_vars PROVE Turns'
    OBVIOUS
  <1> USE DEF spinVars, directVars, slotVars, history
  <1>1. CASE Latch
    BY <1>1 DEF Latch, direct_brake, Turns
  <1>2. CASE DirectPass
    BY <1>2, Zenon DEF DirectPass, PassDue, Owns, direct_brake, Turns
  <1>3. CASE onControlCommand
    BY <1>3, Zenon DEF onControlCommand, Idle, Turns
  <1>4. CASE SeedStore
    BY <1>4 DEF SeedStore, Turns
  <1>5. ASSUME NEW op \in {"call", "cancel"}, SendRequest(op)
        PROVE  Turns'
    BY <1>5, Zenon DEF SendRequest, Turns
  <1>6. CASE operateEmergencyStop
    <2>1. Head(requests) \in {"call", "cancel"}
      BY <1>6 DEF operateEmergencyStop, TypeOK
    <2>2. takenOver => withdrawn' \/ status' = "OPERATING"
      BY <1>6, <2>1, Zenon DEF operateEmergencyStop, Turns
    <2> QED
      BY <1>6, <2>2, Zenon DEF operateEmergencyStop, Turns
  <1>7. CASE TickBegin
    <2>1. CASE status = "OPERATING" /\ TakeOver
      <3>1. tick' = "report" /\ takenOver' /\ latched /\ subscribed' /\ ~takenOver
        BY <1>7, <2>1, Zenon DEF TickBegin, TakeOver, Turns
      <3> QED
        BY <1>7, <2>1, <3>1 DEF TickBegin, Turns
    <2>2. CASE UNCHANGED <<prev, prevAge, subscribed, takenOver>>
      <3>1. tick' = "report" => takenOver
        BY <1>7, <2>2 DEF TickBegin, TakeOver
      <3>2. tick' = "pass" => ~takenOver
        BY <1>7, <2>2 DEF TickBegin, Turns
      <3>3. tick' = "publish" => ~takenOver
        BY <1>7, <2>2 DEF TickBegin
      <3> QED
        BY <1>7, <2>2, <3>1, <3>2, <3>3, Zenon DEF TickBegin, Turns
    <2> QED
      BY <1>7, <2>1, <2>2 DEF TickBegin
  <1>8. CASE TickReport
    <2>1. CASE resumed
      BY <1>8, <2>1 DEF TickReport, Turns
    <2>2. CASE ~resumed
      BY <1>8, <2>2 DEF TickReport, Turns
    <2> QED
      BY <2>1, <2>2
  <1>9. CASE TickPublish
    BY <1>9 DEF TickPublish, Turns
  <1>10. CASE TickPass
    BY <1>10 DEF TickPass, Turns
  <1>11. CASE Advance
    BY <1>11 DEF Advance, Turns
  <1>12. CASE UNCHANGED vars
    BY <1>12 DEF vars, Turns
  <1> QED
    BY <1>1, <1>2, <1>3, <1>4, <1>5, <1>6, <1>7, <1>8, <1>9, <1>10, <1>11, <1>12 DEF Next

LEMMA StepStrays == TypeOK /\ Turns /\ StraysSpent /\ [Next]_vars => StraysSpent'
  <1> SUFFICES ASSUME TypeOK, Turns, StraysSpent, [Next]_vars PROVE StraysSpent'
    OBVIOUS
  <1> USE DEF spinVars, directVars, slotVars, history, PastCheck
  <1>1. CASE Latch
    BY <1>1 DEF Latch, direct_brake, StraysSpent
  <1>2. CASE DirectPass
    BY <1>2, Zenon DEF DirectPass, PassDue, Owns, direct_brake, StraysSpent
  <1>3. CASE onControlCommand
    BY <1>3 DEF onControlCommand, StraysSpent
  <1>4. CASE SeedStore
    BY <1>4 DEF SeedStore, StraysSpent
  <1>5. ASSUME NEW op \in {"call", "cancel"}, SendRequest(op)
        PROVE  StraysSpent'
    BY <1>5, Zenon DEF SendRequest, StraysSpent
  <1>6. CASE operateEmergencyStop
    BY <1>6 DEF operateEmergencyStop, StraysSpent
  <1>7. CASE TickBegin
    <2>1. latched => tick' = "report"
      <3>1. CASE TakeOver
        BY <1>7, <3>1 DEF TickBegin, TakeOver
      <3>2. CASE takenOver /\ takenOver' = takenOver
        BY <1>7, <3>2 DEF TickBegin
      <3> QED
        BY <1>7, <3>1, <3>2 DEF TickBegin
    <2>2. UNCHANGED <<strays, latched, resumed>>
      BY <1>7 DEF TickBegin
    <2>3. resumed => latched
      BY DEF Turns
    <2> QED
      BY <2>1, <2>2, <2>3 DEF StraysSpent
  <1>8. CASE TickReport
    <2>1. CASE resumed
      BY <1>8, <2>1 DEF TickReport, StraysSpent
    <2>2. CASE ~resumed
      BY <1>8, <2>2 DEF TickReport, StraysSpent, Turns
    <2> QED
      BY <2>1, <2>2
  <1>9. CASE TickPublish
    <2>1. tick = "publish" /\ tick' = "idle" /\ UNCHANGED <<latched, resumed>>
      BY <1>9 DEF TickPublish
    <2>2. CASE ~latched \/ ~Owns
      <3>1. strays' = strays
        BY <1>9, <2>2 DEF TickPublish, Published
      <3> QED
        BY <2>1, <3>1 DEF StraysSpent
    <2>3. CASE latched /\ Owns /\ resumed
      <3>1. strays' = [strays EXCEPT !.late = @ + 1]
        BY <1>9, <2>3 DEF TickPublish, Published
      <3> QED
        BY <2>1, <2>3, <3>1 DEF StraysSpent, TypeOK
    <2>4. CASE latched /\ Owns /\ ~resumed
      <3>1. strays' = [strays EXCEPT !.early = @ + 1]
        BY <1>9, <2>4 DEF TickPublish, Published
      <3>2. ~takenOver
        BY <2>1, <2>4 DEF Turns, Owns
      <3> QED
        BY <2>1, <2>4, <3>1, <3>2 DEF StraysSpent, TypeOK
    <2> QED
      BY <2>2, <2>3, <2>4
  <1>10. CASE TickPass
    <2>1. tick = "pass" /\ tick' = "idle" /\ UNCHANGED <<latched, resumed>> /\ ~resumed
      BY <1>10 DEF TickPass, Turns
    <2>2. CASE ~latched
      BY <1>10, <2>1, <2>2, Zenon DEF TickPass, Published, StraysSpent
    <2>3. CASE latched
      <3>1. strays' = [strays EXCEPT !.early = @ + 1]
        BY <1>10, <2>1, <2>3 DEF TickPass, Published
      <3> QED
        BY <2>1, <2>3, <3>1 DEF StraysSpent, TypeOK
    <2> QED
      BY <2>2, <2>3
  <1>11. CASE Advance
    BY <1>11 DEF Advance, StraysSpent
  <1>12. CASE UNCHANGED vars
    BY <1>12 DEF vars, StraysSpent
  <1> QED
    BY <1>1, <1>2, <1>3, <1>4, <1>5, <1>6, <1>7, <1>8, <1>9, <1>10, <1>11, <1>12 DEF Next

LEMMA StepSeed == TypeOK /\ SeedStored /\ [Next]_vars => SeedStored'
  <1> SUFFICES ASSUME TypeOK, SeedStored, [Next]_vars PROVE SeedStored'
    OBVIOUS
  <1> USE DEF spinVars, directVars, slotVars, history
  <1>1. CASE onControlCommand
    BY <1>1 DEF onControlCommand, SeedStored
  <1>2. CASE SeedStore
    <2>1. CASE tick = "seed_velocity"
      BY <1>2, <2>1 DEF SeedStore, SeedStored, TypeOK
    <2>2. CASE tick = "seed_acceleration"
      BY <1>2, <2>2 DEF SeedStore, SeedStored, TypeOK
    <2>3. CASE tick = "seed_valid"
      BY <1>2, <2>3 DEF SeedStore, SeedStored, TypeOK
    <2> QED
      BY <1>2, <2>1, <2>2, <2>3 DEF SeedStore
  <1>3. CASE seed' = seed /\ (UNCHANGED <<prev, tick>>
                \/ tick' \notin {"seed_velocity", "seed_acceleration", "seed_valid"})
    BY <1>3 DEF SeedStored
  <1>4. CASE Latch
    BY <1>3, <1>4 DEF Latch
  <1>5. CASE DirectPass
    BY <1>3, <1>5 DEF DirectPass
  <1>6. ASSUME NEW op \in {"call", "cancel"}, SendRequest(op)
        PROVE  SeedStored'
    BY <1>3, <1>6 DEF SendRequest
  <1>7. CASE operateEmergencyStop
    BY <1>3, <1>7 DEF operateEmergencyStop
  <1>8. CASE TickBegin
    BY <1>3, <1>8 DEF TickBegin
  <1>9. CASE TickReport
    BY <1>3, <1>9 DEF TickReport
  <1>10. CASE TickPublish
    BY <1>3, <1>10 DEF TickPublish
  <1>11. CASE TickPass
    BY <1>3, <1>11 DEF TickPass
  <1>12. CASE Advance
    BY <1>3, <1>12 DEF Advance
  <1>13. CASE UNCHANGED vars
    BY <1>3, <1>13 DEF vars
  <1> QED
    BY <1>1, <1>2, <1>4, <1>5, <1>6, <1>7, <1>8, <1>9, <1>10, <1>11, <1>12, <1>13 DEF Next

-----------------------------------------------------------------------------
(* The ramp is kept.                                                       *)

\* A command of the direct brake's own is on the ramp, now.
LEMMA DirectReached ==
    ASSUME TypeOK, NEW s \in Command, direct_brake(s, since), since' = since
    PROVE  /\ Reached(last, lastAge, TRUE)'
           /\ \A c \in braked' : OnRamp(c, since)'
  <1>1. DirectCommand(s, since) \in Command /\ since \in Nat
    BY DirectForm DEF TypeOK
  <1>2. /\ start' = s /\ last' = DirectCommand(s, since) /\ lastAge' = 0
        /\ braked' = {DirectCommand(s, since)}
    BY DEF direct_brake
  <1>3. \A c \in braked' : OnRamp(c, since)'
    <2>1. DirectCommand(s, since).vel \in Nat
      BY <1>1 DEF Command
    <2> QED
      BY <1>2, <2>1 DEF OnRamp
  <1>4. OnRamp(last, since)'
    BY <1>2, <1>3 DEF OnRamp
  <1>5. since' \in 0..since' /\ since' + lastAge' = since' /\ since' + lastAge' <= since'
    BY <1>1, <1>2
  <1>6. Reached(last, lastAge, TRUE)'
    BY <1>4, <1>5 DEF Reached
  <1> QED
    BY <1>3, <1>6

\* Time passes under the latch: an age accounts for it until it is past the
\* clamp, and then for no more than there was.
LEMMA AgeReached ==
    ASSUME NEW c \in Command, NEW timely \in BOOLEAN, NEW age \in Nat, NEW n \in Nat,
           Reached(c, age, timely), since \in Nat, since' = since + 1, start' = start,
           MaxDt \in Nat, n = Older(age, MaxDt)
    PROVE  \E s \in 0..since' : /\ s + n <= since' /\ OnRamp(c, s)'
                                /\ timely /\ n <= MaxDt => s + n = since'
  <1>1. PICK s \in 0..since : /\ s + age <= since /\ OnRamp(c, s)
                              /\ timely /\ age <= MaxDt => s + age = since
    BY DEF Reached
  <1>2. OnRamp(c, s)'
    BY <1>1 DEF OnRamp
  <1>3. s \in 0..since' /\ s + n <= since'
    BY <1>1 DEF Older
  <1>4. ASSUME timely, n <= MaxDt PROVE s + n = since'
    BY <1>1, <1>4 DEF Older
  <1> QED
    BY <1>2, <1>3, <1>4

\* A tick of the operator's moves on along the ramp by the clamped dt, which
\* is the whole of its age when it came in time.
LEMMA TickReached ==
    ASSUME TypeOK, Turns, takenOver, prevAge >= 0, Reached(prev, prevAge, ~late)
    PROVE  \E s \in 0..since :
              /\ OnRamp(calcTargetAcceleration, s)
              /\ ~late /\ prevAge <= MaxDt => s = since
  <1> DEFINE d == Clamped(prevAge)
  <1>1. /\ subscribed /\ prev \in Command /\ start \in Command /\ prevAge \in Nat /\ since \in Nat
        /\ MaxDt \in Nat /\ TargetAcceleration \in Int /\ prev.vel \in Nat /\ prev.acc \in Int
    BY RampAssumption DEF TypeOK, Turns, Command
  <1>2. PICK s \in 0..since : /\ s + prevAge <= since /\ OnRamp(prev, s)
                              /\ ~late /\ prevAge <= MaxDt => s + prevAge = since
    BY DEF Reached
  <1>3. d \in Nat /\ d <= prevAge /\ (prevAge <= MaxDt => d = prevAge)
    BY <1>1 DEF Clamped
  <1>4. calcTargetAcceleration = [vel |-> Larger(prev.vel + 2 * prev.acc * d, 0),
                                  acc |-> Larger(prev.acc - d, TargetAcceleration)]
    BY <1>1 DEF calcTargetAcceleration
  <1> HIDE DEF d
  <1>5. s \in Nat /\ s + d \in 0..since /\ (~late /\ prevAge <= MaxDt => s + d = since)
    BY <1>1, <1>2, <1>3
  <1>6. prev.acc = DirectCommand(start, s).acc /\ prev.vel >= DirectCommand(start, s).vel
    BY <1>2 DEF OnRamp
  <1>7. /\ DirectCommand(start, s + d).acc = Larger(prev.acc - d, TargetAcceleration)
        /\ DirectCommand(start, s + d).vel <= Larger(prev.vel + 2 * prev.acc * d, 0)
    BY <1>1, <1>3, <1>5, <1>6, RampStep
  <1>8. DirectCommand(start, s + d).vel \in Nat /\ Larger(prev.vel + 2 * prev.acc * d, 0) \in Int
    <2>1. DirectCommand(start, s + d) \in Command
      BY <1>1, <1>5, DirectForm
    <2>2. prev.vel + 2 * prev.acc * d \in Int
      BY <1>1, <1>3
    <2> QED
      BY <2>1, <2>2 DEF Command, Larger
  <1>9. OnRamp(calcTargetAcceleration, s + d)
    BY <1>4, <1>7, <1>8 DEF OnRamp
  <1> QED
    BY <1>5, <1>9

LEMMA StepRamp ==
    TypeOK /\ Turns /\ OneRamp /\ TypeOK' /\ Turns' /\ [Next]_vars => OneRamp'
  <1> SUFFICES ASSUME TypeOK, Turns, OneRamp, TypeOK', Turns', [Next]_vars PROVE OneRamp'
    OBVIOUS
  <1> USE DEF spinVars, directVars, slotVars, history
  <1> DEFINE Wire == latched /\ ~withdrawn => \A c \in braked : \E s \in 0..since : OnRamp(c, s)
             Direct == latched => Reached(last, lastAge, TRUE)
             Operator == takenOver /\ ~withdrawn => prevAge >= 0 /\ Reached(prev, prevAge, ~late)
  <1>0. since \in Nat /\ MaxDt \in Nat /\ start \in Command
    BY RampAssumption DEF TypeOK
  <1>1. CASE Latch
    <2>1. PICK s \in Command : direct_brake(s, since) /\ since' = since
      <3> DEFINE s == IF seed.valid THEN [vel |-> seed.vel, acc |-> seed.acc] ELSE NoCommand
      <3>1. s \in Command
        BY DEF TypeOK, Command, NoCommand
      <3>2. since = 0 /\ since' = since
        BY <1>1 DEF Latch, Turns
      <3>3. direct_brake(s, since)
        BY <1>1, <3>2 DEF Latch
      <3> HIDE DEF s
      <3> QED
        BY <3>1, <3>2, <3>3
    <2>2. Reached(last, lastAge, TRUE)' /\ \A c \in braked' : OnRamp(c, since)'
      BY <2>1, DirectReached
    <2>3. ~takenOver'
      BY <1>1 DEF Latch, Turns
    <2>4. since' \in 0..since'
      BY <1>0, <2>1
    <2> QED
      BY <2>2, <2>3, <2>4 DEF OneRamp
  <1>2. CASE DirectPass
    <2>1. direct_brake(start, since) /\ start' = start /\ since' = since
      BY <1>2 DEF DirectPass, direct_brake
    <2>2. Reached(last, lastAge, TRUE)' /\ \A c \in braked' : OnRamp(c, since)'
      BY <1>0, <2>1, DirectReached
    <2>3. since' \in 0..since'
      BY <1>0, <2>1
    <2>4. Operator'
      BY <1>2, <2>1 DEF DirectPass, OneRamp, Reached, OnRamp
    <2> QED
      BY <2>2, <2>3, <2>4 DEF OneRamp
  <1>3. ASSUME UNCHANGED <<directVars, withdrawn>>
        PROVE  Direct' /\ (braked' = braked \/ braked' = {} => Wire')
    BY <1>3 DEF OneRamp, Reached, OnRamp
  <1>4. ASSUME UNCHANGED <<directVars, withdrawn, prev, prevAge, takenOver, late>>
        PROVE  Operator'
    BY <1>4 DEF OneRamp, Reached, OnRamp
  <1>5. CASE onControlCommand
    <2>1. ~(takenOver' /\ ~withdrawn')
      BY <1>5 DEF onControlCommand, Turns
    <2> QED
      BY <1>3, <1>5, <2>1 DEF onControlCommand, OneRamp
  <1>6. CASE SeedStore
    BY <1>3, <1>4, <1>6 DEF SeedStore, OneRamp
  <1>7. ASSUME NEW op \in {"call", "cancel"}, SendRequest(op)
        PROVE  OneRamp'
    BY <1>3, <1>4, <1>7 DEF SendRequest, OneRamp
  <1>8. CASE operateEmergencyStop
    <2>1. /\ UNCHANGED <<directVars, prev, prevAge, takenOver, late>>
          /\ withdrawn => withdrawn'
          /\ braked' = braked \/ braked' = {}
      BY <1>8, Zenon DEF operateEmergencyStop
    <2>2. Direct' /\ Wire' /\ Operator'
      BY <2>1 DEF OneRamp, Reached, OnRamp
    <2> QED
      BY <2>2 DEF OneRamp
  <1>9. CASE TickBegin
    <2>1. Direct' /\ Wire'
      BY <1>3, <1>9 DEF TickBegin
    <2>2. Operator'
      <3>1. CASE TakeOver
        <4>1. hasLast /\ latched
          BY <3>1 DEF TakeOver, Turns
        <4>2. prev' = last /\ prevAge' = lastAge /\ lastAge \in Nat
          BY <3>1, <4>1 DEF TakeOver, TypeOK
        <4>3. UNCHANGED <<start, since>>
          BY <1>9 DEF TickBegin
        <4>4. PICK s \in 0..since : /\ s + lastAge <= since /\ OnRamp(last, s)
                                    /\ lastAge <= MaxDt => s + lastAge = since
          BY <4>1 DEF OneRamp, Reached
        <4>5. OnRamp(prev, s)'
          BY <4>2, <4>3, <4>4 DEF OnRamp
        <4>6. Reached(prev, prevAge, ~late)'
          BY <4>2, <4>3, <4>4, <4>5 DEF Reached
        <4> QED
          BY <4>2, <4>6
      <3>2. CASE UNCHANGED <<prev, prevAge, takenOver>>
        BY <1>4, <1>9, <3>2 DEF TickBegin
      <3> QED
        BY <1>9, <3>1, <3>2 DEF TickBegin
    <2> QED
      BY <2>1, <2>2 DEF OneRamp
  <1>10. CASE TickReport
    BY <1>3, <1>4, <1>10 DEF TickReport, OneRamp
  <1>11. CASE TickPublish
    <2>1. /\ prev' = calcTargetAcceleration /\ prevAge' = 0 /\ UNCHANGED <<directVars, withdrawn, takenOver>>
          /\ braked' = braked \/ (braked' = {prev'} /\ (~latched \/ ~Owns))
          /\ ~late' => ~late /\ ~(takenOver /\ prevAge > MaxDt)
      BY <1>11, Zenon DEF TickPublish
    <2>2. Direct'
      BY <1>3, <2>1
    <2>3. ASSUME takenOver, ~withdrawn
          PROVE  \E s \in 0..since : OnRamp(prev', s) /\ (~late' => s = since)
      <3>1. PICK s \in 0..since : /\ OnRamp(calcTargetAcceleration, s)
                                  /\ ~late /\ prevAge <= MaxDt => s = since
        BY <2>3, TickReached DEF OneRamp
      <3>2. ~late' => ~late /\ prevAge <= MaxDt
        BY <1>0, <2>1, <2>3 DEF TypeOK
      <3> QED
        BY <2>1, <3>1, <3>2
    <2>4. Operator'
      <3> SUFFICES ASSUME takenOver, ~withdrawn PROVE prevAge' >= 0 /\ Reached(prev, prevAge, ~late)'
        BY <2>1
      <3>1. PICK s \in 0..since : OnRamp(prev', s) /\ (~late' => s = since)
        BY <2>3
      <3>2. OnRamp(prev, s)' /\ s \in 0..since' /\ s + prevAge' <= since'
        BY <1>0, <2>1, <3>1 DEF OnRamp
      <3>3. ~late' => s + prevAge' = since'
        BY <1>0, <2>1, <3>1
      <3> QED
        BY <2>1, <3>2, <3>3 DEF Reached
    <2>5. Wire'
      <3>1. CASE braked' = braked
        BY <1>3, <2>1, <3>1
      <3>2. CASE braked' = {prev'} /\ ~Owns
        <4>1. takenOver
          BY <3>2 DEF Owns, Turns
        <4> QED
          BY <2>1, <2>3, <3>2, <4>1 DEF OnRamp
      <3>3. CASE ~latched
        BY <2>1, <3>3
      <3> QED
        BY <2>1, <3>1, <3>2, <3>3
    <2> QED
      BY <2>2, <2>4, <2>5 DEF OneRamp
  <1>12. CASE TickPass
    BY <1>3, <1>4, <1>12 DEF TickPass, OneRamp
  <1>13. CASE Advance
    <2>1. /\ UNCHANGED <<prev, last, start, latched, takenOver, late, withdrawn, braked>>
          /\ latched => since' = since + 1
          /\ prevAge' = Older(prevAge, MaxDt) /\ lastAge' = Older(lastAge, MaxDt)
      BY <1>13 DEF Advance
    <2>2. Direct'
      <3> SUFFICES ASSUME latched PROVE Reached(last, lastAge, TRUE)'
        BY <2>1
      <3>1. last \in Command /\ lastAge \in Nat /\ lastAge' \in Nat
        BY DEF TypeOK
      <3>2. Reached(last, lastAge, TRUE) /\ TRUE \in BOOLEAN
        BY DEF OneRamp
      <3>3. \E s \in 0..since' : /\ s + lastAge' <= since' /\ OnRamp(last, s)'
                                 /\ TRUE /\ lastAge' <= MaxDt => s + lastAge' = since'
        <4> HIDE DEF Direct
        <4> QED
          BY <1>0, <2>1, <3>1, <3>2, AgeReached
      <3> QED
        BY <2>1, <3>3 DEF Reached, OnRamp
    <2>3. Operator'
      <3> SUFFICES ASSUME takenOver, ~withdrawn
                   PROVE  prevAge' >= 0 /\ Reached(prev, prevAge, ~late)'
        BY <2>1
      <3>1. prev \in Command /\ prevAge \in Nat /\ prevAge' \in Nat /\ latched
        BY <1>0, <2>1 DEF OneRamp, TypeOK, Older, Turns
      <3>2. Reached(prev, prevAge, ~late) /\ (~late) \in BOOLEAN
        BY DEF OneRamp
      <3>3. \E s \in 0..since' : /\ s + prevAge' <= since' /\ OnRamp(prev, s)'
                                 /\ ~late /\ prevAge' <= MaxDt => s + prevAge' = since'
        <4> HIDE DEF Operator
        <4> QED
          BY <1>0, <2>1, <3>1, <3>2, AgeReached
      <3> QED
        BY <2>1, <3>1, <3>3 DEF Reached, OnRamp
    <2>4. Wire'
      <3> SUFFICES ASSUME latched, ~withdrawn, NEW c \in braked
                   PROVE  \E s \in 0..since' : OnRamp(c, s)'
        BY <2>1
      <3>1. PICK s \in 0..since : OnRamp(c, s)
        BY DEF OneRamp
      <3>2. s \in 0..since'
        BY <1>0, <2>1
      <3> QED
        BY <2>1, <3>1, <3>2 DEF OnRamp
    <2> QED
      BY <2>2, <2>3, <2>4 DEF OneRamp
  <1>14. CASE UNCHANGED vars
    BY <1>3, <1>4, <1>14 DEF vars, OneRamp
  <1> QED
    BY <1>1, <1>2, <1>5, <1>6, <1>7, <1>8, <1>9, <1>10, <1>11, <1>12, <1>13, <1>14 DEF Next

-----------------------------------------------------------------------------
(* The theorems.                                                           *)

\* The parts above hold together in every state.
THEOREM Invariant == Spec => []IInv
  <1>1. IInv /\ [Next]_vars => IInv'
    BY StepTypes, StepTurns, StepStrays, StepSeed, StepRamp DEF IInv
  <1> QED
    BY InitInv, <1>1, PTL DEF Spec

\* The state keeps its types: every command either path puts on the wire has
\* a velocity that is not negative.
THEOREM OperatorTypes == Spec => []TypeOK
  <1>1. IInv => TypeOK
    BY DEF IInv
  <1> QED
    BY <1>1, Invariant, PTL

\* At most one command of the operator's gets past the latch and at most one
\* past the resume (island_supervisor_handover, onTimer's check of the
\* latch), and a valid seed holds words of commands the host sent.
THEOREM SlotHasOneSource == Spec => []OneSource
  <1>1. IInv => OneSource
    <2> SUFFICES ASSUME IInv PROVE OneSource
      OBVIOUS
    <2>1. strays.early <= 1 /\ strays.late <= 1
      BY DEF IInv, StraysSpent
    <2> QED
      BY <2>1, Zenon DEF IInv, SeedStored, OneSource
  <1> QED
    BY <1>1, Invariant, PTL

\* direct_service publishes no command that asks for less deceleration, or
\* for more speed while slowing, than the one it continues, its own or that of
\* an operator that took over.
THEOREM DirectBrakeNeverEases == Spec => DirectNeverEases
  <1>1. ASSUME IInv, [Next]_vars
        PROVE  [DirectPass /\ ~withdrawn => \A c \in braked, d \in braked' : ~Eases(c, d)]_vars
    <2> SUFFICES ASSUME DirectPass, ~withdrawn, NEW c \in braked, NEW d \in braked'
                 PROVE  ~Eases(c, d)
      OBVIOUS
    <2>1. since \in Nat /\ start \in Command /\ c \in Command /\ latched
      BY <1>1 DEF IInv, TypeOK, DirectPass, PassDue
    <2>2. PICK s \in 0..since : OnRamp(c, s)
      BY <1>1, <2>1 DEF IInv, OneRamp
    <2>3. d = DirectCommand(start, since)
      BY DEF DirectPass, direct_brake
    <2> DEFINE x == DirectCommand(start, s)
    <2>4. /\ x \in Command /\ d \in Command
          /\ d.acc <= x.acc /\ (x.acc <= 0 => d.vel <= x.vel)
      <3>1. s \in Nat /\ s <= since /\ s \in Int /\ since \in Int
        BY <2>1
      <3>2. x \in Command /\ d \in Command
        BY <2>1, <2>3, <3>1, DirectForm
      <3> QED
        BY <2>1, <2>3, <3>1, <3>2, RampFalls
    <2>5. c.acc = x.acc /\ c.vel >= x.vel
      BY <2>2 DEF OnRamp
    <2> HIDE DEF x
    <2> QED
      BY <2>1, <2>4, <2>5 DEF Eases, Command
  <1> QED
    BY <1>1, Invariant, PTL DEF Spec, DirectNeverEases

\* An operator that took over (takeOverFromDirectBrake) and ticks in time asks
\* for the deceleration of the closed form at that time, though it steps from
\* tick to tick.
THEOREM RampsAgree == Spec => SameRamp
  <1>1. ASSUME IInv, [Next]_vars
        PROVE  [tick = "publish" /\ tick' = "idle" /\ takenOver /\ ~late' /\ ~withdrawn
                  => prev'.acc = DirectCommand(start, since).acc]_vars
    <2> SUFFICES ASSUME tick = "publish", tick' = "idle", takenOver, ~late', ~withdrawn
                 PROVE  prev'.acc = DirectCommand(start, since).acc
      OBVIOUS
    <2> USE DEF spinVars, directVars, slotVars, history
    <2>1. TickPublish
      BY <1>1 DEF Next, vars, Latch, DirectPass, onControlCommand, SeedStore, SendRequest,
             operateEmergencyStop, Idle, TickBegin, TickReport, TickPass, Advance
    <2>2. ~late /\ ~(prevAge > MaxDt) /\ prev' = calcTargetAcceleration
      BY <2>1, Zenon DEF TickPublish
    <2>3. prevAge <= MaxDt
      BY <1>1, <2>2, RampAssumption DEF IInv, TypeOK
    <2>4. OnRamp(calcTargetAcceleration, since)
      <3>1. TypeOK /\ Turns /\ prevAge >= 0 /\ Reached(prev, prevAge, ~late)
        BY <1>1 DEF IInv, OneRamp
      <3> QED
        BY <2>2, <2>3, <3>1, TickReached
    <2> QED
      BY <2>2, <2>4 DEF OnRamp
  <1> QED
    BY <1>1, Invariant, PTL DEF Spec, SameRamp
=============================================================================
