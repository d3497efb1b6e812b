-------------------------- MODULE MrmHandlerProofs --------------------------
(***************************************************************************)
(* Theorems about MrmHandler for every value of its constants: first the   *)
(* states and the requests, then the times, for every period, jitter and   *)
(* timeout: how late a lost stream is seen, how long INIT and the takeover *)
(* window last, and what the end of INIT and a held emergency rest on.     *)
(***************************************************************************)
EXTENDS MrmHandler, TLAPS

Takeovers == [requested : BOOLEAN, expired : BOOLEAN, age : 0..TakeoverCap]

Decisions == [state : States, behavior : Behaviors,
              routes : SUBSET HandlerRoutes, takeover : Takeovers]

-----------------------------------------------------------------------------
(* What the operators of a tick return.                                    *)

\* An age that saturates stays in its range.
LEMMA AgedType ==
    ASSUME NEW cap \in Nat, NEW age \in 0..cap
    PROVE  Aged(age, cap) \in 0..cap
  BY DEF Aged

\* The caps are natural numbers.
LEMMA CapType ==
    /\ TakeoverCap \in Nat /\ AvailCap \in Nat /\ BootCap \in Nat
    /\ ArrivalCap \in Nat /\ ArrivalCap > AvailTimeout + ReadLag
  BY TimeAssumption DEF TakeoverCap, AvailCap, BootCap, ArrivalCap

\* A behavior is always returned, and it is the emergency stop when an input
\* is lost.
LEMMA BehaviorType ==
    ASSUME NEW b, NEW lost \in BOOLEAN
    PROVE  /\ getCurrentMrmBehavior(b, lost) \in Behaviors \ {"NONE"}
           /\ lost => getCurrentMrmBehavior(b, lost) = "EMERGENCY_STOP"
  BY DEF getCurrentMrmBehavior, Behaviors, Operators

\* Asking the driver yields a request of its type, and never waits on a driver
\* when an input is lost.
LEMMA TakeoverType ==
    ASSUME TypeOK, NEW lost \in BOOLEAN
    PROVE  /\ updateTakeoverRequest(lost).wait \in BOOLEAN
           /\ updateTakeoverRequest(lost).takeover \in Takeovers
           /\ lost => ~updateTakeoverRequest(lost).wait
  <1>1. /\ takeover \in Takeovers
        /\ \A r, e \in BOOLEAN : Request(r, e, 0) \in Takeovers
        /\ takeover.expired \in BOOLEAN
    BY CapType DEF TypeOK, Takeovers, Request
  <1> QED
    BY <1>1 DEF updateTakeoverRequest, clearTakeoverRequest

\* What updateMrmState decides is well formed.
LEMMA DecisionType ==
    ASSUME TypeOK, NEW emergency \in BOOLEAN, NEW lost \in BOOLEAN,
           NEW latched \in BOOLEAN
    PROVE  updateMrmState(emergency, lost, latched) \in Decisions
  <1> DEFINE asked == updateTakeoverRequest(lost)
  <1>1. takeover \in Takeovers /\ Request(FALSE, FALSE, 0) \in Takeovers
    BY CapType DEF TypeOK, Takeovers, Request
  <1>2. asked.takeover \in Takeovers
    BY TakeoverType
  <1>3. state \in States /\ behavior \in Behaviors /\ routes \in SUBSET HandlerRoutes
    BY DEF TypeOK
  <1>4. \A st \in States, b \in Behaviors, r \in SUBSET HandlerRoutes, t \in Takeovers :
           Decision(st, b, r, t) \in Decisions
    BY DEF Decision, Decisions
  <1>5. /\ {"NORMAL", "MRM_OPERATING", "MRM_SUCCEEDED", "MRM_FAILED"} \subseteq States
        /\ "EMERGENCY_STOP" \in Behaviors
    BY DEF States, Behaviors, Operators
  <1>6. \A m : routes \ m \in SUBSET HandlerRoutes
    BY <1>3
  <1> HIDE DEF asked
  <1> QED
    BY <1>1, <1>2, <1>3, <1>4, <1>5, <1>6 DEF updateMrmState, asked

-----------------------------------------------------------------------------
(* What operateMrm can do: three outcomes, whatever the sends return.      *)

\* The behavior operateMrm wants after decision d.
Want(d, lost) == IF d.state = "NORMAL" THEN "NONE"
                 ELSE getCurrentMrmBehavior(d.behavior, lost)

\* Nothing is sent.
Kept(d, lost) ==
    /\ d.state \in {"MRM_SUCCEEDED", "MRM_FAILED"} \/ Want(d, lost) = d.behavior
    /\ state' = d.state /\ behavior' = d.behavior
    /\ routes' = d.routes /\ called' = called

\* A request failed: the emergency stop, sent or not.
Fallen(d, lost) ==
    /\ d.state \in {"NORMAL", "MRM_OPERATING"} /\ Want(d, lost) # d.behavior
    /\ state' \in {"MRM_OPERATING", "MRM_FAILED"}
    /\ behavior' = "EMERGENCY_STOP"
    /\ EmergencyStandstill \in routes'
    /\ state' = "MRM_OPERATING" => called'["EMERGENCY_STOP"]

\* The wanted behavior took over from the one that ran.
Exchanged(d, lost) ==
    /\ d.state \in {"NORMAL", "MRM_OPERATING"} /\ Want(d, lost) # d.behavior
    /\ state' = d.state /\ behavior' = Want(d, lost)
    /\ Want(d, lost) # "PULL_OVER"
    /\ Want(d, lost) \in Operators => called'[Want(d, lost)]
    /\ Want(d, lost) = "EMERGENCY_STOP" => EmergencyStandstill \in routes'
    /\ Want(d, lost) # "EMERGENCY_STOP" /\ EmergencyStandstill \in routes'
         => EmergencyStandstill \in d.routes /\ d.behavior # "EMERGENCY_STOP"

\* The routes and the operators' last requests after a request are well
\* formed, and a request moves the route of its own operator only.
LEMMA RequestEffect ==
    ASSUME NEW r \in SUBSET HandlerRoutes, NEW c \in [Operators -> BOOLEAN],
           NEW b \in Behaviors, NEW op \in {"call", "cancel"}, NEW ok \in BOOLEAN
    PROVE  /\ RoutesAfter(r, b, op, ok) \in SUBSET HandlerRoutes
           /\ CalledAfter(c, b, op, ok) \in [Operators -> BOOLEAN]
           /\ HpcLoss \in RoutesAfter(r, b, op, ok) <=> HpcLoss \in r
           /\ b = "EMERGENCY_STOP" =>
                (EmergencyStandstill \in RoutesAfter(r, b, op, ok) <=> op = "call")
           /\ b # "EMERGENCY_STOP" =>
                (EmergencyStandstill \in RoutesAfter(r, b, op, ok)
                   <=> EmergencyStandstill \in r)
           /\ b \in Operators /\ ok => CalledAfter(c, b, op, ok)[b] = (op = "call")
  <1>1. /\ RoutesAfter(r, b, op, ok) \in SUBSET HandlerRoutes
        /\ HpcLoss \in RoutesAfter(r, b, op, ok) <=> HpcLoss \in r
        /\ b = "EMERGENCY_STOP" =>
             (EmergencyStandstill \in RoutesAfter(r, b, op, ok) <=> op = "call")
        /\ b # "EMERGENCY_STOP" =>
             (EmergencyStandstill \in RoutesAfter(r, b, op, ok)
                <=> EmergencyStandstill \in r)
    BY DEF RoutesAfter, HandlerRoutes, HpcLoss, ComfortableStandstill, EmergencyStandstill
  <1>2. /\ CalledAfter(c, b, op, ok) \in [Operators -> BOOLEAN]
        /\ b \in Operators /\ ok => CalledAfter(c, b, op, ok)[b] = (op = "call")
    BY DEF CalledAfter
  <1> QED
    BY <1>1, <1>2

\* A request for the emergency stop arms the emergency standstill whatever the
\* operator answers, and counts as called when the operator took it.
LEMMA EmergencyCallEffect ==
    ASSUME NEW r \in SUBSET HandlerRoutes, NEW c \in [Operators -> BOOLEAN],
           NEW ok \in BOOLEAN
    PROVE  /\ RoutesAfter(r, "EMERGENCY_STOP", "call", ok) \in SUBSET HandlerRoutes
           /\ CalledAfter(c, "EMERGENCY_STOP", "call", ok) \in [Operators -> BOOLEAN]
           /\ HpcLoss \in RoutesAfter(r, "EMERGENCY_STOP", "call", ok) <=> HpcLoss \in r
           /\ EmergencyStandstill \in RoutesAfter(r, "EMERGENCY_STOP", "call", ok)
           /\ ok => CalledAfter(c, "EMERGENCY_STOP", "call", ok)["EMERGENCY_STOP"]
  <1>1. /\ RoutesAfter(r, "EMERGENCY_STOP", "call", ok) \in SUBSET HandlerRoutes
        /\ HpcLoss \in RoutesAfter(r, "EMERGENCY_STOP", "call", ok) <=> HpcLoss \in r
        /\ EmergencyStandstill \in RoutesAfter(r, "EMERGENCY_STOP", "call", ok)
    BY DEF RoutesAfter, HandlerRoutes, HpcLoss, ComfortableStandstill, EmergencyStandstill
  <1>2. "EMERGENCY_STOP" \in Operators
    BY DEF Operators
  <1>3. /\ CalledAfter(c, "EMERGENCY_STOP", "call", ok) \in [Operators -> BOOLEAN]
        /\ ok => CalledAfter(c, "EMERGENCY_STOP", "call", ok)["EMERGENCY_STOP"]
    BY <1>2 DEF CalledAfter
  <1> QED
    BY <1>1, <1>3

\* operateMrm has one of the three outcomes and leaves the hpc_loss due alone.
LEMMA OperateEffect ==
    ASSUME TypeOK, NEW d \in Decisions, NEW lost \in BOOLEAN, operateMrm(d, lost)
    PROVE  /\ Kept(d, lost) \/ Fallen(d, lost) \/ Exchanged(d, lost)
           /\ routes' \in SUBSET HandlerRoutes
           /\ called' \in [Operators -> BOOLEAN]
           /\ HpcLoss \in routes' <=> HpcLoss \in d.routes
  <1> DEFINE want == Want(d, lost)
  <1>1. /\ d.state \in States /\ d.behavior \in Behaviors
        /\ d.routes \in SUBSET HandlerRoutes /\ called \in [Operators -> BOOLEAN]
        /\ want \in Behaviors /\ "EMERGENCY_STOP" \in Operators
        /\ Operators \subseteq Behaviors
    BY BehaviorType DEF Decisions, TypeOK, Want, Behaviors, Operators
  <1>2. CASE /\ d.state \in {"MRM_SUCCEEDED", "MRM_FAILED"} \/ want = d.behavior
             /\ state' = d.state /\ behavior' = d.behavior
             /\ routes' = d.routes /\ called' = called
    BY <1>1, <1>2 DEF Kept
  <1>3. ASSUME NEW cancelOk \in SendOutcomes, NEW callOk \in SendOutcomes,
               NEW fallbackOk \in SendOutcomes,
               d.state \in {"NORMAL", "MRM_OPERATING"}, want # d.behavior
        PROVE  LET r1 == RoutesAfter(d.routes, d.behavior, "cancel", cancelOk)
                   c1 == CalledAfter(called, d.behavior, "cancel", cancelOk)
                   r2 == RoutesAfter(r1, want, "call", callOk)
                   c2 == CalledAfter(c1, want, "call", callOk)
                   goal == /\ Fallen(d, lost) \/ Exchanged(d, lost)
                           /\ routes' \in SUBSET HandlerRoutes
                           /\ called' \in [Operators -> BOOLEAN]
                           /\ HpcLoss \in routes' <=> HpcLoss \in d.routes
               IN  /\ handleFailedRequest(r1, c1, fallbackOk) => goal
                   /\ handleFailedRequest(r2, c2, fallbackOk) => goal
                   /\ /\ Requested(d.behavior, cancelOk) /\ Requested(want, callOk)
                      /\ state' = d.state /\ behavior' = want
                      /\ routes' = r2 /\ called' = c2
                      => goal
    <2> DEFINE r1 == RoutesAfter(d.routes, d.behavior, "cancel", cancelOk)
               c1 == CalledAfter(called, d.behavior, "cancel", cancelOk)
               r2 == RoutesAfter(r1, want, "call", callOk)
               c2 == CalledAfter(c1, want, "call", callOk)
    <2>1. cancelOk \in BOOLEAN /\ callOk \in BOOLEAN /\ fallbackOk \in BOOLEAN
      BY FlagAssumption
    <2>2. /\ r1 \in SUBSET HandlerRoutes /\ c1 \in [Operators -> BOOLEAN]
          /\ HpcLoss \in r1 <=> HpcLoss \in d.routes
          /\ EmergencyStandstill \in r1
               => EmergencyStandstill \in d.routes /\ d.behavior # "EMERGENCY_STOP"
      BY <1>1, <2>1, RequestEffect
    <2> HIDE DEF want, r1, c1
    <2>3. /\ r2 \in SUBSET HandlerRoutes /\ c2 \in [Operators -> BOOLEAN]
          /\ HpcLoss \in r2 <=> HpcLoss \in r1
          /\ want = "EMERGENCY_STOP" => EmergencyStandstill \in r2
          /\ want # "EMERGENCY_STOP" /\ EmergencyStandstill \in r2
               => EmergencyStandstill \in r1
          /\ want \in Operators /\ callOk => c2[want]
      BY <1>1, <2>1, <2>2, RequestEffect
    <2> HIDE DEF r2, c2
    <2>4. ASSUME NEW r \in SUBSET HandlerRoutes, NEW c \in [Operators -> BOOLEAN],
                 HpcLoss \in r <=> HpcLoss \in d.routes,
                 handleFailedRequest(r, c, fallbackOk)
          PROVE  /\ Fallen(d, lost)
                 /\ routes' \in SUBSET HandlerRoutes
                 /\ called' \in [Operators -> BOOLEAN]
                 /\ HpcLoss \in routes' <=> HpcLoss \in d.routes
      <3>1. /\ routes' = RoutesAfter(r, "EMERGENCY_STOP", "call", fallbackOk)
            /\ called' = CalledAfter(c, "EMERGENCY_STOP", "call", fallbackOk)
            /\ state' = IF fallbackOk THEN "MRM_OPERATING" ELSE "MRM_FAILED"
            /\ behavior' = "EMERGENCY_STOP"
        BY <2>4 DEF handleFailedRequest
      <3>2. /\ routes' \in SUBSET HandlerRoutes
            /\ called' \in [Operators -> BOOLEAN]
            /\ HpcLoss \in routes' <=> HpcLoss \in r
            /\ EmergencyStandstill \in routes'
            /\ fallbackOk => called'["EMERGENCY_STOP"]
        BY <2>1, <3>1, EmergencyCallEffect
      <3> QED
        BY <1>3, <2>1, <2>4, <3>1, <3>2 DEF Fallen, want
    <2>5. ASSUME Requested(d.behavior, cancelOk), Requested(want, callOk),
                 state' = d.state, behavior' = want, routes' = r2, called' = c2
          PROVE  Exchanged(d, lost)
      <3>1. want # "PULL_OVER" /\ (want \in Operators => callOk)
        BY <2>5 DEF Requested, Operators
      <3> QED
        BY <1>3, <2>2, <2>3, <2>5, <3>1 DEF Exchanged, want
    <2> QED
      BY <2>2, <2>3, <2>4, <2>5 DEF r1, c1, r2, c2, want
  <1> QED
    BY <1>2, <1>3 DEF operateMrm, Want, want

-----------------------------------------------------------------------------
(* What a tick of RUN does.                                                *)

\* What LossAnswered needs to be inductive: an input lost for one tick only is
\* either answered with the emergency stop already or was met by a vehicle at
\* its standstill, which the next tick takes up.
LossCarried ==
    lostTicks = 1 /\ behavior # "EMERGENCY_STOP" => state = "MRM_SUCCEEDED"

\* The inductive invariant: its parts rest on each other.
IInv == TypeOK /\ StateBehavior /\ LossAnswered /\ LossCarried
          /\ OperatorCalled /\ FloorSupervised

\* The decision d of a tick, by the state it starts from.
DecisionCase(d, emergency, lost, latched) ==
    \/ /\ latched /\ sup.fault
       /\ d.state = "MRM_FAILED" /\ d.behavior = "EMERGENCY_STOP"
       /\ d.routes = routes
    \/ /\ d.behavior = behavior /\ d.state = "NORMAL" /\ d.routes = routes
       /\ ~emergency \/ (state = "NORMAL" /\ ~(lost /\ controlAuto))
    \/ /\ d.behavior = behavior /\ d.state = "MRM_OPERATING" /\ d.routes = routes
       /\ emergency /\ state = "NORMAL"
    \/ /\ d.behavior = behavior /\ d.state = "MRM_SUCCEEDED"
       /\ d.routes \subseteq routes
       /\ HpcLoss \in d.routes <=> HpcLoss \in routes
       /\ emergency /\ state = "MRM_OPERATING"
    \/ /\ d.behavior = behavior /\ d.state = "MRM_OPERATING" /\ d.routes = routes
       /\ emergency /\ state = "MRM_SUCCEEDED"
       /\ behavior # getCurrentMrmBehavior(behavior, lost)
    \/ /\ d.behavior = behavior /\ d.state = state /\ d.routes = routes
       /\ emergency /\ state # "NORMAL"
       /\ state = "MRM_SUCCEEDED" => behavior = getCurrentMrmBehavior(behavior, lost)

\* A tick's decision is one of these.
LEMMA DecisionEffect ==
    ASSUME TypeOK, StateBehavior,
           NEW emergency \in BOOLEAN, NEW lost \in BOOLEAN, NEW latched \in BOOLEAN,
           lost => emergency, latched => lost
    PROVE  DecisionCase(updateMrmState(emergency, lost, latched),
                        emergency, lost, latched)
  <1> DEFINE asked == updateTakeoverRequest(lost)
             met == IF behavior = "COMFORTABLE_STOP" THEN {ComfortableStandstill}
                    ELSE IF behavior = "EMERGENCY_STOP" THEN {EmergencyStandstill}
                    ELSE {}
  <1>1. asked.wait \in BOOLEAN /\ (lost => ~asked.wait)
    BY TakeoverType
  <1>2. state \in States /\ controlAuto \in BOOLEAN /\ stopped \in BOOLEAN
    BY DEF TypeOK
  <1>3. HpcLoss \notin met
    BY DEF HpcLoss, ComfortableStandstill, EmergencyStandstill
  <1>4. \A st, b, r, t : /\ Decision(st, b, r, t).state = st
                         /\ Decision(st, b, r, t).behavior = b
                         /\ Decision(st, b, r, t).routes = r
    BY DEF Decision
  <1>5. behavior # "PULL_OVER"
    BY DEF StateBehavior
  <1> HIDE DEF asked, met
  <1>6. updateMrmState(emergency, lost, latched) =
          IF latched /\ sup.fault
          THEN Decision("MRM_FAILED", "EMERGENCY_STOP", routes, takeover)
          ELSE IF ~emergency
          THEN Decision("NORMAL", behavior, routes, Request(FALSE, FALSE, 0))
          ELSE IF state = "NORMAL"
          THEN Decision(IF ~asked.wait /\ controlAuto THEN "MRM_OPERATING" ELSE "NORMAL",
                        behavior, routes, asked.takeover)
          ELSE IF state = "MRM_OPERATING" /\ stopped
          THEN Decision("MRM_SUCCEEDED", behavior, routes \ met, takeover)
          ELSE IF state = "MRM_SUCCEEDED" /\ behavior # getCurrentMrmBehavior(behavior, lost)
          THEN Decision("MRM_OPERATING", behavior, routes, takeover)
          ELSE Decision(state, behavior, routes, takeover)
    BY <1>5 DEF updateMrmState, asked, met
  <1> DEFINE d == updateMrmState(emergency, lost, latched)
  <1> HIDE DEF d
  <1>7. CASE latched /\ sup.fault
    <2>1. d = Decision("MRM_FAILED", "EMERGENCY_STOP", routes, takeover)
      BY <1>6, <1>7 DEF d
    <2>2. /\ d.state = "MRM_FAILED" /\ d.behavior = "EMERGENCY_STOP"
          /\ d.routes = routes
      BY <1>4, <2>1
    <2> QED
      BY <1>7, <2>2 DEF d, DecisionCase
  <1>8. CASE ~(latched /\ sup.fault) /\ ~emergency
    <2> DEFINE cleared == Request(FALSE, FALSE, 0)
    <2> HIDE DEF cleared
    <2>1. d = Decision("NORMAL", behavior, routes, cleared)
      BY <1>6, <1>8 DEF d, cleared
    <2>2. d.state = "NORMAL" /\ d.behavior = behavior /\ d.routes = routes
      BY <1>4, <2>1
    <2> QED
      BY <1>8, <2>2 DEF d, DecisionCase
  <1>9. CASE ~(latched /\ sup.fault) /\ emergency /\ state = "NORMAL"
    BY <1>1, <1>2, <1>4, <1>6, <1>9 DEF d, DecisionCase
  <1>10. CASE ~(latched /\ sup.fault) /\ emergency /\ state = "MRM_OPERATING" /\ stopped
    <2>1. /\ d.behavior = behavior /\ d.state = "MRM_SUCCEEDED"
          /\ d.routes = routes \ met
      BY <1>4, <1>6, <1>10 DEF d
    <2> QED
      BY <1>3, <1>10, <2>1 DEF d, DecisionCase
  <1>11. CASE /\ ~(latched /\ sup.fault) /\ emergency /\ state = "MRM_SUCCEEDED"
              /\ behavior # getCurrentMrmBehavior(behavior, lost)
    BY <1>4, <1>6, <1>11 DEF d, DecisionCase
  <1>12. CASE /\ ~(latched /\ sup.fault) /\ emergency /\ state # "NORMAL"
              /\ ~(state = "MRM_OPERATING" /\ stopped)
              /\ ~(state = "MRM_SUCCEEDED"
                     /\ behavior # getCurrentMrmBehavior(behavior, lost))
    BY <1>4, <1>6, <1>12 DEF d, DecisionCase
  <1> QED
    BY <1>7, <1>8, <1>9, <1>10, <1>11, <1>12

\* What operateMrm starts from (e): the decision d, less the hpc_loss due when
\* the availability was lost.
Discharged(e, d) ==
    /\ e.state = d.state /\ e.behavior = d.behavior
    /\ EmergencyStandstill \in e.routes <=> EmergencyStandstill \in d.routes
    /\ HpcLoss \in d.routes /\ HpcLoss \notin e.routes => availTimeout'

\* Every tick of RUN carries out such a decision.
LEMMA TickDecision ==
    ASSUME TypeOK, StateBehavior, NEW lag, RunTick(lag),
           initFailed' \in BOOLEAN, emergencyHolding' \in BOOLEAN
    PROVE  /\ isInputLost' \in BOOLEAN /\ isEmergency' \in BOOLEAN
           /\ supLatched' \in BOOLEAN /\ availTimeout' \in BOOLEAN
           /\ supLatched' => isInputLost'
           /\ availTimeout' => isInputLost'
           /\ isInputLost' => isEmergency'
           /\ takeover' \in Takeovers
           /\ \E e, d \in Decisions :
                /\ operateMrm(e, isInputLost') /\ Discharged(e, d)
                /\ DecisionCase(d, isEmergency', isInputLost', supLatched')
  <1> DEFINE lost == isInputLost'
             emergency == isEmergency'
             d == updateMrmState(emergency, lost, supLatched')
             r == IF availTimeout' THEN d.routes \ {HpcLoss} ELSE d.routes
             e == Decision(d.state, d.behavior, r, d.takeover)
  <1>1. supLatched' \in BOOLEAN /\ availTimeout' \in BOOLEAN
    BY DEF RunTick, checkOperationModeAvailabilityTimeout, TypeOK
  <1>2. /\ lost \in BOOLEAN /\ emergency \in BOOLEAN
        /\ supLatched' => lost
        /\ availTimeout' => lost
        /\ lost => emergency
    BY <1>1 DEF isInputLost, isEmergency, isAvailableCurrentOperationMode
  <1>3. takeover' = d.takeover /\ operateMrm(e, lost)
    BY DEF RunTick
  <1> HIDE DEF lost, emergency
  <1>4. d \in Decisions
    BY <1>1, <1>2, DecisionType
  <1>5. DecisionCase(d, emergency, lost, supLatched')
    BY <1>1, <1>2, DecisionEffect
  <1> HIDE DEF d
  <1>6. /\ d.state \in States /\ d.behavior \in Behaviors
        /\ d.routes \in SUBSET HandlerRoutes /\ d.takeover \in Takeovers
    BY <1>4 DEF Decisions
  <1>7. /\ r \in SUBSET HandlerRoutes
        /\ EmergencyStandstill \in r <=> EmergencyStandstill \in d.routes
        /\ HpcLoss \in d.routes /\ HpcLoss \notin r => availTimeout'
    BY <1>6 DEF HpcLoss, EmergencyStandstill
  <1> HIDE DEF r
  <1>8. /\ e \in Decisions
        /\ e.state = d.state /\ e.behavior = d.behavior /\ e.routes = r
    BY <1>6, <1>7 DEF Decision, Decisions
  <1> HIDE DEF e
  <1>9. Discharged(e, d)
    BY <1>7, <1>8 DEF Discharged
  <1>10. \E e1, d1 \in Decisions :
            /\ operateMrm(e1, lost) /\ Discharged(e1, d1)
            /\ DecisionCase(d1, emergency, lost, supLatched')
    BY <1>3, <1>4, <1>5, <1>8, <1>9
  <1>11. takeover' \in Takeovers
    BY <1>3, <1>6
  <1> QED
    BY <1>1, <1>2, <1>10, <1>11 DEF lost, emergency

\* A tick of RUN keeps the invariant's parts, never trades the emergency stop
\* for less, and clears the hpc_loss due only with its reaction out.
LEMMA TickStep ==
    ASSUME IInv, NEW lag, RunTick(lag), sup' = sup,
           initFailed' \in BOOLEAN, emergencyHolding' \in BOOLEAN
    PROVE  /\ state' \in States /\ behavior' \in Behaviors
           /\ routes' \in SUBSET HandlerRoutes /\ called' \in [Operators -> BOOLEAN]
           /\ lostTicks' \in 0..2 /\ waited' \in 0..TakeoverCap
           /\ StateBehavior' /\ LossAnswered' /\ LossCarried'
           /\ OperatorCalled' /\ FloorSupervised'
           /\ behavior = "EMERGENCY_STOP" /\ behavior' # "EMERGENCY_STOP"
                => state' = "NORMAL" /\ ~supLatched'
           /\ HpcLoss \in routes \ routes'
                => availTimeout' /\ (~controlAuto \/ state' # "NORMAL")
  <1> DEFINE lost == isInputLost'
             emergency == isEmergency'
  <1>1. /\ TypeOK /\ StateBehavior /\ LossAnswered /\ LossCarried
        /\ OperatorCalled /\ FloorSupervised
    BY DEF IInv
  <1>2. /\ lost \in BOOLEAN /\ emergency \in BOOLEAN
        /\ supLatched' \in BOOLEAN /\ availTimeout' \in BOOLEAN
        /\ supLatched' => lost
        /\ availTimeout' => lost
        /\ lost => emergency
    BY <1>1, TickDecision
  <1>3. lostTicks' = IF lost /\ controlAuto THEN Aged(lostTicks, 2) ELSE 0
    BY DEF RunTick, noteHistory
  <1>4. \E e, d \in Decisions :
          /\ operateMrm(e, lost) /\ Discharged(e, d)
          /\ DecisionCase(d, emergency, lost, supLatched')
    BY <1>1, TickDecision
  <1> HIDE DEF lost, emergency
  <1>5. PICK e \in Decisions, d \in Decisions :
          /\ operateMrm(e, lost) /\ Discharged(e, d)
          /\ DecisionCase(d, emergency, lost, supLatched')
    BY <1>4
  <1> DEFINE want == Want(e, lost)
  <1>6. /\ Kept(e, lost) \/ Fallen(e, lost) \/ Exchanged(e, lost)
        /\ routes' \in SUBSET HandlerRoutes
        /\ called' \in [Operators -> BOOLEAN]
        /\ HpcLoss \in routes' <=> HpcLoss \in e.routes
    BY <1>1, <1>2, <1>5, OperateEffect
  <1>7. /\ e.state = "NORMAL" => want = "NONE"
        /\ e.state # "NORMAL" => want \in Behaviors \ {"NONE"}
        /\ e.state # "NORMAL" /\ lost => want = "EMERGENCY_STOP"
        /\ e.state # "NORMAL" /\ e.behavior = "EMERGENCY_STOP"
             => want \in {"EMERGENCY_STOP", "PULL_OVER"}
        /\ e.state # "NORMAL" => want = getCurrentMrmBehavior(e.behavior, lost)
    BY <1>2, BehaviorType DEF Want, getCurrentMrmBehavior
  <1> HIDE DEF want
  <1>8. e.state \in States /\ e.behavior \in Behaviors
    BY DEF Decisions
  <1>9. /\ state \in States /\ behavior \in Behaviors /\ lostTicks \in 0..2
        /\ sup.fault \in BOOLEAN /\ controlAuto \in BOOLEAN
        /\ "EMERGENCY_STOP" \in Behaviors /\ "NONE" \in Behaviors
    BY <1>1 DEF TypeOK, Behaviors, Operators
  <1>10. lostTicks' \in 0..2 /\ (lostTicks' = 0 <=> ~(lost /\ controlAuto))
         /\ (lostTicks' = 2 => lostTicks >= 1)
    BY <1>2, <1>3, <1>9 DEF Aged
  <1>11. /\ DecisionCase(d, emergency, lost, supLatched')
         /\ e.state = d.state /\ e.behavior = d.behavior
         /\ EmergencyStandstill \in e.routes <=> EmergencyStandstill \in d.routes
         /\ HpcLoss \in d.routes /\ HpcLoss \notin e.routes => availTimeout'
    BY <1>5 DEF Discharged
  <1>12. StateBehavior' /\ state' \in States /\ behavior' \in Behaviors
    <2>1. CASE Kept(e, lost)
      BY <1>1, <1>7, <1>8, <1>9, <1>11, <2>1
      DEF Kept, DecisionCase, StateBehavior, want, States
    <2>2. CASE Fallen(e, lost)
      BY <1>9, <2>2 DEF Fallen, StateBehavior, States
    <2>3. CASE Exchanged(e, lost)
      BY <1>7, <1>8, <1>9, <2>3 DEF Exchanged, StateBehavior, want, States
    <2> QED
      BY <1>6, <2>1, <2>2, <2>3
  <1>13. LossAnswered' /\ LossCarried'
    <2>1. CASE Kept(e, lost)
      BY <1>1, <1>2, <1>7, <1>9, <1>10, <1>11, <2>1
      DEF Kept, DecisionCase, StateBehavior, LossAnswered, LossCarried, want
    <2>2. CASE Fallen(e, lost)
      BY <2>2 DEF Fallen, LossAnswered, LossCarried
    <2>3. CASE Exchanged(e, lost)
      BY <1>2, <1>7, <1>9, <1>10, <1>11, <2>3
      DEF Exchanged, DecisionCase, LossAnswered, LossCarried, want
    <2> QED
      BY <1>6, <2>1, <2>2, <2>3
  <1>14. OperatorCalled'
    <2>1. CASE Kept(e, lost)
      BY <1>1, <1>7, <1>9, <1>11, <2>1
      DEF Kept, DecisionCase, StateBehavior, OperatorCalled, want
    <2>2. CASE Fallen(e, lost)
      BY <2>2 DEF Fallen, OperatorCalled
    <2>3. CASE Exchanged(e, lost)
      BY <1>7, <2>3 DEF Exchanged, OperatorCalled, want, Behaviors
    <2> QED
      BY <1>6, <2>1, <2>2, <2>3
  <1>15. FloorSupervised'
    <2>1. CASE Kept(e, lost)
      BY <1>1, <1>7, <1>9, <1>11, <2>1
      DEF Kept, DecisionCase, StateBehavior, FloorSupervised, want
    <2>2. CASE Fallen(e, lost)
      BY <2>2 DEF Fallen, FloorSupervised
    <2>3. CASE Exchanged(e, lost)
      BY <1>1, <1>7, <1>9, <1>11, <2>3
      DEF Exchanged, DecisionCase, FloorSupervised, want
    <2> QED
      BY <1>6, <2>1, <2>2, <2>3
  <1>16. behavior = "EMERGENCY_STOP" /\ behavior' # "EMERGENCY_STOP"
           => state' = "NORMAL" /\ ~supLatched'
    BY <1>1, <1>2, <1>6, <1>7, <1>9, <1>11
    DEF Kept, Fallen, Exchanged, DecisionCase, StateBehavior, want
  <1>17. HpcLoss \in routes \ routes'
           => availTimeout' /\ (~controlAuto \/ state' # "NORMAL")
    <2> SUFFICES ASSUME HpcLoss \in routes \ routes'
                 PROVE  availTimeout' /\ (~controlAuto \/ state' # "NORMAL")
      OBVIOUS
    <2>1. availTimeout'
      BY <1>6, <1>11 DEF DecisionCase
    <2>2. controlAuto => lostTicks' >= 1
      BY <1>2, <1>10, <2>1
    <2> QED
      BY <1>13, <2>1, <2>2 DEF LossAnswered
  <1>18. waited' \in 0..TakeoverCap
    <2>1. waited \in 0..TakeoverCap /\ 1 \in 0..TakeoverCap /\ 0 \in 0..TakeoverCap
      BY <1>1, TimeAssumption DEF TypeOK, TakeoverCap
    <2>2. waited' \in {0, 1, waited}
      BY DEF RunTick, noteHistory
    <2> QED
      BY <2>1, <2>2
  <1> QED
    BY <1>6, <1>10, <1>12, <1>13, <1>14, <1>15, <1>16, <1>17, <1>18

-----------------------------------------------------------------------------
(* The steps of the specification.                                         *)

\* A noted arrival is well formed.
LEMMA NotedType ==
    ASSUME NEW a \in Arrival
    PROVE  Noted(a) \in Arrival /\ NeverArrived \in Arrival
  BY TimeAssumption, CapType DEF Noted, NeverArrived, Arrival

\* The invariant holds in the initial states.
LEMMA InitHolds == Init => IInv
  <1> SUFFICES ASSUME Init PROVE IInv
    OBVIOUS
  <1>1. TypeOK
    <2>1. arrivals \in [Streams -> Arrival]
      BY CapType DEF Init, Arrival, NeverArrived
    <2>2. /\ unavailable \in [marked : BOOLEAN, age : 0..(RecoveryTimeout + 1)]
          /\ takeover \in [requested : BOOLEAN, expired : BOOLEAN, age : 0..TakeoverCap]
          /\ sup \in [latched : BOOLEAN, fault : BOOLEAN, resumed : BOOLEAN]
      BY CapType, TimeAssumption DEF Init
    <2>3. out \in [mrm : (States \X Behaviors) \cup {<<"SILENT", "SILENT">>},
                   takeover : {"SILENT", "NOT_AVAILABLE", "AVAILABLE", "OPERATING"},
                   hazard : {"SILENT", "ENABLE", "NO_COMMAND"}]
      BY DEF Init
    <2>4. /\ bootAge \in 0..BootCap /\ availAge \in 0..AvailCap
          /\ timerAge \in 0..(Period + MaxJitter) /\ lostTicks \in 0..2
          /\ waited \in 0..TakeoverCap
      BY CapType, TimeAssumption DEF Init
    <2>5. /\ state \in States /\ behavior \in Behaviors
          /\ called \in [Operators -> BOOLEAN]
      BY DEF Init, States, Behaviors, Operators
    <2> QED
      BY <2>1, <2>2, <2>3, <2>4, <2>5 DEF Init, TypeOK
  <1> QED
    BY <1>1
    DEF Init, IInv, StateBehavior, LossAnswered, LossCarried, OperatorCalled,
        FloorSupervised

\* A callback keeps the types.
LEMMA CallbackType == TypeOK /\ Callback => TypeOK'
  <1> SUFFICES ASSUME TypeOK, Callback PROVE TypeOK'
    OBVIOUS
  <1> USE DEF machine
  <1>1. CASE onOperationModeAvailability
    <2>1. /\ avail' \in AvailSamples /\ availAge' \in 0..AvailCap
          /\ routes' \in SUBSET HandlerRoutes
      BY <1>1, CapType DEF TypeOK, onOperationModeAvailability, HandlerRoutes
    <2>2. arrivals' \in [Streams -> Arrival]
      <3>1. arrivals' = [arrivals EXCEPT !["AVAILABILITY"] =
                           Noted(arrivals["AVAILABILITY"])]
        BY <1>1 DEF onOperationModeAvailability
      <3> QED
        BY <3>1, NotedType DEF TypeOK, Streams
    <2>3. /\ unavailable' \in [marked : BOOLEAN, age : 0..(RecoveryTimeout + 1)]
          /\ emergencyHolding' \in BOOLEAN
      <3>1. /\ unavailable \in [marked : BOOLEAN, age : 0..(RecoveryTimeout + 1)]
            /\ emergencyHolding \in BOOLEAN
        BY DEF TypeOK
      <3>2. \A m \in BOOLEAN : [marked |-> m, age |-> 0]
                                 \in [marked : BOOLEAN, age : 0..(RecoveryTimeout + 1)]
        BY TimeAssumption
      <3>3. /\ \/ unavailable' = unavailable
               \/ unavailable' = [marked |-> FALSE, age |-> 0]
               \/ unavailable' = [marked |-> TRUE, age |-> 0]
            /\ \/ emergencyHolding' = emergencyHolding
               \/ emergencyHolding' = (unavailable'.age > RecoveryTimeout)
        BY <1>1 DEF onOperationModeAvailability
      <3>4. unavailable' \in [marked : BOOLEAN, age : 0..(RecoveryTimeout + 1)]
        BY <3>1, <3>2, <3>3
      <3>5. emergencyHolding' \in BOOLEAN
        <4>1. (unavailable'.age > RecoveryTimeout) \in BOOLEAN
          BY <3>4, TimeAssumption
        <4> QED
          BY <3>1, <3>3, <4>1, Zenon
      <3> QED
        BY <3>4, <3>5
    <2> QED
      BY <1>1, <2>1, <2>2, <2>3 DEF TypeOK, onOperationModeAvailability
  <1>2. CASE onOdometry
    BY <1>2 DEF TypeOK, onOdometry
  <1>3. CASE onControlMode
    BY <1>3 DEF TypeOK, onControlMode
  <1>4. ASSUME NEW o \in Operators, onStopStatus(o)
        PROVE  TypeOK'
    <2>1. \E a \in {NeverArrived, Noted(arrivals[o])} :
             arrivals' = [arrivals EXCEPT ![o] = a]
      BY <1>4 DEF onStopStatus
    <2>2. arrivals' \in [Streams -> Arrival]
      BY <2>1, NotedType DEF TypeOK, Streams
    <2> QED
      BY <1>4, <2>2 DEF TypeOK, onStopStatus
  <1>5. CASE onOperationModeState
    BY <1>5, SampleAssumption DEF TypeOK, onOperationModeState
  <1> QED
    BY <1>1, <1>2, <1>3, <1>4, <1>5 DEF Callback

\* The clock keeps the types.
LEMMA AdvanceType == TypeOK /\ Advance => TypeOK'
  <1> SUFFICES ASSUME TypeOK, Advance PROVE TypeOK'
    OBVIOUS
  <1>1. timerAge' \in 0..(Period + MaxJitter)
    BY TimeAssumption DEF TypeOK, Advance
  <1>2. bootAge' \in 0..BootCap /\ availAge' \in 0..AvailCap
    BY TimeAssumption, CapType, AgedType DEF TypeOK, Advance
  <1>3. arrivals' \in [Streams -> Arrival]
    <2>1. ASSUME NEW s \in Streams
          PROVE  [arrivals[s] EXCEPT !.age = Aged(arrivals[s].age, ArrivalCap)]
                   \in Arrival
      BY CapType, AgedType DEF TypeOK, Arrival
    <2> QED
      BY <2>1 DEF TypeOK, Advance
  <1>4. unavailable' \in [marked : BOOLEAN, age : 0..(RecoveryTimeout + 1)]
    <2>1. unavailable \in [marked : BOOLEAN, age : 0..(RecoveryTimeout + 1)]
      BY DEF TypeOK
    <2>2. [unavailable EXCEPT !.age = Aged(unavailable.age, RecoveryTimeout + 1)]
            \in [marked : BOOLEAN, age : 0..(RecoveryTimeout + 1)]
      BY <2>1, TimeAssumption, AgedType
    <2> QED
      BY <2>1, <2>2 DEF Advance
  <1>5. takeover' \in [requested : BOOLEAN, expired : BOOLEAN, age : 0..TakeoverCap]
    BY CapType, AgedType DEF TypeOK, Advance
  <1>6. waited' \in 0..TakeoverCap
    BY CapType, AgedType DEF TypeOK, Advance
  <1> QED
    BY <1>1, <1>2, <1>3, <1>4, <1>5, <1>6 DEF TypeOK, Advance

\* Only a tick and a callback move what the other parts speak of, and a
\* callback moves the hpc_loss due only.
LEMMA OtherParts ==
    ASSUME IInv, Callback \/ Advance \/ SupervisorStep \/ UNCHANGED vars
    PROVE  /\ StateBehavior' /\ LossAnswered' /\ LossCarried'
           /\ OperatorCalled' /\ FloorSupervised'
           /\ behavior' = behavior /\ routes \subseteq routes'
  <1>1. /\ UNCHANGED <<state, behavior, called, lostTicks>>
        /\ routes \subseteq routes'
        /\ EmergencyStandstill \in routes' <=> EmergencyStandstill \in routes
    BY DEF Callback, onOperationModeAvailability, onOdometry, onControlMode,
           onStopStatus, onOperationModeState, Advance, SupervisorStep, vars,
           machine, HpcLoss, EmergencyStandstill
  <1>2. sup.fault => sup'.fault
    BY DEF IInv, TypeOK, Callback, onOperationModeAvailability, onOdometry,
           onControlMode, onStopStatus, onOperationModeState, Advance,
           SupervisorStep, vars
  <1> QED
    BY <1>1, <1>2 DEF IInv, StateBehavior, LossAnswered, LossCarried,
                      OperatorCalled, FloorSupervised

\* What a tick publishes is well formed.
LEMMA PublishType ==
    ASSUME TypeOK, NEW latched, NEW emergency, publish(latched, emergency),
           state' \in States, behavior' \in Behaviors
    PROVE  out' \in [mrm : (States \X Behaviors) \cup {<<"SILENT", "SILENT">>},
                     takeover : {"SILENT", "NOT_AVAILABLE", "AVAILABLE", "OPERATING"},
                     hazard : {"SILENT", "ENABLE", "NO_COMMAND"}]
  <1>1. /\ out.mrm \in (States \X Behaviors) \cup {<<"SILENT", "SILENT">>}
        /\ out.hazard \in {"SILENT", "ENABLE", "NO_COMMAND"}
    BY DEF TypeOK
  <1>2. <<state', behavior'>> \in States \X Behaviors
    OBVIOUS
  <1> QED
    BY <1>1, <1>2 DEF publish

\* What a tick's reads of the clock decide.
LEMMA TimerReads ==
    ASSUME onTimer
    PROVE  \E r \in Reads :
              /\ r.inputs \in 0..ReadLag /\ r.boot \in 0..ReadLag /\ r.avail \in 0..ReadLag
              /\ updatePhase(r)
              /\ \/ phase' = "Init" /\ InitTick
                 \/ phase' = "Run" /\ RunTick(r.avail)
  <1>1. PICK r \in Reads : /\ updatePhase(r)
                           /\ \/ phase' = "Init" /\ InitTick
                              \/ phase' = "Run" /\ RunTick(r.avail)
    BY DEF onTimer
  <1>2. r.inputs \in 0..ReadLag /\ r.boot \in 0..ReadLag /\ r.avail \in 0..ReadLag
    BY DEF Reads
  <1> QED
    BY <1>1, <1>2

\* A tick leaves the phase and the init failure well formed.
LEMMA PhaseType ==
    ASSUME TypeOK, onTimer
    PROVE  /\ phase' \in {"Init", "Run"} /\ initFailed' \in BOOLEAN
           /\ monitorsArmed' \in BOOLEAN
  <1>1. PICK r \in Reads : updatePhase(r)
    BY DEF onTimer
  <1>2. Established(r.inputs) \in BOOLEAN
    BY DEF Established, TypeOK
  <1> QED
    BY <1>1, <1>2 DEF updatePhase, TypeOK

\* A tick keeps the invariant and does what TickStep says of it.
LEMMA TimerStep ==
    ASSUME IInv, onTimer
    PROVE  /\ IInv'
           /\ behavior = "EMERGENCY_STOP" /\ behavior' # "EMERGENCY_STOP"
                => state' = "NORMAL" /\ ~supLatched'
           /\ HpcLoss \in routes \ routes'
                => availTimeout' /\ (~controlAuto \/ state' # "NORMAL")
  <1>1. TypeOK
    BY DEF IInv
  <1>2. /\ UNCHANGED <<avail, availAge, arrivals, modeHeard, mode, controlAuto,
                       stopped, unavailable, emergencyHolding, bootAge, sup>>
        /\ timerAge' \in 0..(Period + MaxJitter)
    BY TimeAssumption DEF onTimer, inputs
  <1>3. /\ phase' \in {"Init", "Run"} /\ initFailed' \in BOOLEAN
        /\ monitorsArmed' \in BOOLEAN
    BY <1>1, PhaseType
  <1>4. CASE InitTick
    <2>1. UNCHANGED <<availTimeout, supLatched, state, behavior, takeover,
                      routes, called, out, lostTicks, waited>>
      BY <1>4 DEF InitTick
    <2>2. TypeOK'
      BY <1>1, <1>2, <1>3, <2>1 DEF TypeOK
    <2> QED
      BY <1>2, <2>1, <2>2
      DEF IInv, StateBehavior, LossAnswered, LossCarried, OperatorCalled,
          FloorSupervised
  <1>5. ASSUME NEW lag, RunTick(lag)
        PROVE  /\ IInv'
               /\ behavior = "EMERGENCY_STOP" /\ behavior' # "EMERGENCY_STOP"
                    => state' = "NORMAL" /\ ~supLatched'
               /\ HpcLoss \in routes \ routes'
                    => availTimeout' /\ (~controlAuto \/ state' # "NORMAL")
    <2>1. emergencyHolding' \in BOOLEAN /\ sup' = sup
      BY <1>1, <1>2 DEF TypeOK
    <2>2. /\ state' \in States /\ behavior' \in Behaviors
          /\ routes' \in SUBSET HandlerRoutes /\ called' \in [Operators -> BOOLEAN]
          /\ lostTicks' \in 0..2 /\ waited' \in 0..TakeoverCap
          /\ StateBehavior' /\ LossAnswered' /\ LossCarried'
          /\ OperatorCalled' /\ FloorSupervised'
          /\ behavior = "EMERGENCY_STOP" /\ behavior' # "EMERGENCY_STOP"
               => state' = "NORMAL" /\ ~supLatched'
          /\ HpcLoss \in routes \ routes'
               => availTimeout' /\ (~controlAuto \/ state' # "NORMAL")
      BY <1>3, <1>5, <2>1, TickStep
    <2>3. /\ supLatched' \in BOOLEAN /\ availTimeout' \in BOOLEAN
          /\ takeover' \in Takeovers
      BY <1>1, <1>3, <1>5, <2>1, TickDecision DEF IInv
    <2>4. out' \in [mrm : (States \X Behaviors) \cup {<<"SILENT", "SILENT">>},
                    takeover : {"SILENT", "NOT_AVAILABLE", "AVAILABLE", "OPERATING"},
                    hazard : {"SILENT", "ENABLE", "NO_COMMAND"}]
      <3>1. \E l, m : publish(l, m)
        BY <1>5 DEF RunTick
      <3> QED
        BY <1>1, <2>2, <3>1, PublishType
    <2>5. TypeOK'
      BY <1>1, <1>2, <1>3, <2>2, <2>3, <2>4 DEF TypeOK, Takeovers
    <2> QED
      BY <2>2, <2>5 DEF IInv
  <1> QED
    BY <1>4, <1>5, TimerReads

\* Every step keeps the invariant.
LEMMA StepHolds == IInv /\ [Next]_vars => IInv'
  <1> SUFFICES ASSUME IInv, [Next]_vars PROVE IInv'
    OBVIOUS
  <1>1. CASE onTimer
    BY <1>1, TimerStep
  <1>2. CASE Callback \/ Advance \/ SupervisorStep \/ UNCHANGED vars
    <2>1. TypeOK'
      <3>1. CASE SupervisorStep
        <4>1. sup \in [latched : BOOLEAN, fault : BOOLEAN, resumed : BOOLEAN]
          BY DEF IInv, TypeOK
        <4>2. sup' \in [latched : BOOLEAN, fault : BOOLEAN, resumed : BOOLEAN]
          BY <3>1, <4>1 DEF SupervisorStep
        <4> QED
          BY <3>1, <4>2 DEF IInv, TypeOK, SupervisorStep, inputs, machine
      <3>2. CASE UNCHANGED vars
        BY <3>2 DEF IInv, TypeOK, vars, inputs, machine
      <3> QED
        BY <1>2, <3>1, <3>2, CallbackType, AdvanceType DEF IInv
    <2> QED
      BY <1>2, <2>1, OtherParts DEF IInv
  <1> QED
    BY <1>1, <1>2 DEF Next

-----------------------------------------------------------------------------
(* The theorems.                                                           *)

\* The invariant holds in every reachable state.
THEOREM Invariant == Spec => []IInv
  BY InitHolds, StepHolds, PTL DEF Spec

\* Every variable keeps its type, for all periods, timeouts and sample sets.
THEOREM TypeCorrect == Spec => []TypeOK
  <1>1. IInv => TypeOK
    BY DEF IInv
  <1> QED
    BY <1>1, Invariant, PTL

\* Whatever sends to the operators fail, the published state and behavior
\* agree: updateMrmState, operateMrm and handleFailedRequest together.
THEOREM StateAndBehaviorAgree == Spec => []StateBehavior
  <1>1. IInv => StateBehavior
    BY DEF IInv
  <1> QED
    BY <1>1, Invariant, PTL

\* An input lost in AUTONOMOUS control is an MRM on the tick that sees it and
\* the emergency stop on the tick after, for every configuration of the takeover
\* request, the comfortable stop and the pull over.
THEOREM LossIsAnswered == Spec => []LossAnswered
  <1>1. IInv => LossAnswered
    BY DEF IInv
  <1> QED
    BY <1>1, Invariant, PTL

\* The operator of the reported MRM has been called and not cancelled since.
THEOREM ReportedOperatorRuns == Spec => []OperatorCalled
  <1>1. IInv => OperatorCalled
    BY DEF IInv
  <1> QED
    BY <1>1, Invariant, PTL

\* Route 3 is armed while an emergency stop is under way or could not be sent,
\* and during an emergency stop only.
THEOREM FloorIsSupervised == Spec => []FloorSupervised
  <1>1. IInv => FloorSupervised
    BY DEF IInv
  <1> QED
    BY <1>1, Invariant, PTL

\* operateMrm never trades the emergency stop for a gentler maneuver.
THEOREM EmergencyStopKept == Spec => NoDowngrade
  <1>1. IInv /\ [Next]_vars =>
          [behavior = "EMERGENCY_STOP" /\ behavior' # "EMERGENCY_STOP"
             => state' = "NORMAL" /\ ~supLatched']_vars
    <2> SUFFICES ASSUME IInv, Next,
                        behavior = "EMERGENCY_STOP", behavior' # "EMERGENCY_STOP"
                 PROVE  state' = "NORMAL" /\ ~supLatched'
      OBVIOUS
    <2> QED
      BY TimerStep, OtherParts DEF Next
  <1> QED
    BY <1>1, Invariant, PTL DEF Spec, NoDowngrade

\* onTimer clears the hpc_loss due only with the loss seen and answered.
THEOREM HpcLossDueKept == Spec => HpcLossDischarged
  <1>1. IInv /\ [Next]_vars =>
          [(HpcLoss \in routes \ routes')
             => availTimeout' /\ (~controlAuto \/ state' # "NORMAL")]_vars
    <2> SUFFICES ASSUME IInv, Next, HpcLoss \in routes \ routes'
                 PROVE  availTimeout' /\ (~controlAuto \/ state' # "NORMAL")
      OBVIOUS
    <2> QED
      BY TimerStep, OtherParts DEF Next
  <1> QED
    BY <1>1, Invariant, PTL DEF Spec, HpcLossDischarged

-----------------------------------------------------------------------------
(* The times: each bound of a property, which speaks of the worst jitter,  *)
(* is carried between the ticks by the age of the timer.                   *)

\* A tick of RUN that did not see the stream lost ran at most timerAge ago.
SeenCarried ==
    phase = "Run" /\ ~availTimeout => availAge <= AvailTimeout + ReadLag + timerAge

\* The last tick that stayed in INIT did so before init_timeout; INIT is silent,
\* waits on no driver, and its monitors are not armed.
BootCarried ==
    phase = "Init" =>
        /\ bootAge <= InitTimeout + ReadLag + timerAge
        /\ ~monitorsArmed /\ routes = {} /\ waited = 0
        /\ out.mrm = <<"SILENT", "SILENT">> /\ out.hazard = "SILENT"
        /\ \A o \in Operators : ~called[o]

\* The two stamps of an availability sample, the one INIT counts with and the
\* one the timeout is measured from, tell the same age.
StampsAgree ==
    LET a == arrivals["AVAILABILITY"]
    IN  a.count > 0 /\ a.age < ArrivalCap => availAge = a.age

\* While a fault waits on the driver the takeover request is on, is as old as
\* the wait, and was inside its window on the last tick.
WaitCarried ==
    waited > 0 =>
        /\ takeover.requested
        /\ waited <= takeover.age + 1
        /\ TakeoverTimeout > 0 => takeover.age < TakeoverTimeout + timerAge

TInv == SeenCarried /\ BootCarried /\ StampsAgree /\ WaitCarried

-----------------------------------------------------------------------------
(* What a tick does to the times.                                          *)

\* A tick that ends in NORMAL saw no fault, or saw one in NORMAL and waits on
\* the driver or finds one driving; its takeover request is the one asked for.
LEMMA NormalTick ==
    ASSUME IInv, NEW lag, RunTick(lag), sup' = sup,
           initFailed' \in BOOLEAN, emergencyHolding' \in BOOLEAN,
           state' = "NORMAL", isEmergency'
    PROVE  /\ state = "NORMAL"
           /\ takeover' = updateTakeoverRequest(isInputLost').takeover
           /\ controlAuto => updateTakeoverRequest(isInputLost').wait
  <1> DEFINE lost == isInputLost'
             emergency == isEmergency'
             asked == updateTakeoverRequest(lost)
             d == updateMrmState(emergency, lost, supLatched')
             r == IF availTimeout' THEN d.routes \ {HpcLoss} ELSE d.routes
             e == Decision(d.state, d.behavior, r, d.takeover)
  <1>1. TypeOK /\ StateBehavior
    BY DEF IInv
  <1>2. lost \in BOOLEAN /\ emergency \in BOOLEAN /\ supLatched' \in BOOLEAN
    BY <1>1, TickDecision
  <1>3. takeover' = d.takeover /\ operateMrm(e, lost)
    BY DEF RunTick
  <1>4. emergency
    OBVIOUS
  <1> HIDE DEF lost, emergency
  <1>5. d \in Decisions
    BY <1>1, <1>2, DecisionType
  <1>6. d = IF supLatched' /\ sup.fault
            THEN Decision("MRM_FAILED", "EMERGENCY_STOP", routes, takeover)
            ELSE IF state = "NORMAL"
            THEN Decision(IF ~asked.wait /\ controlAuto THEN "MRM_OPERATING" ELSE "NORMAL",
                          behavior, routes, asked.takeover)
            ELSE d
    BY <1>4 DEF updateMrmState
  <1>7. d.state = "NORMAL" => state = "NORMAL"
    <2>1. DecisionCase(d, emergency, lost, supLatched')
      <3>1. lost => emergency
        BY <1>4
      <3>2. supLatched' => lost
        BY DEF lost, isInputLost
      <3> QED
        BY <1>1, <1>2, <3>1, <3>2, DecisionEffect
    <2> QED
      BY <1>4, <2>1 DEF DecisionCase
  <1> HIDE DEF d, asked
  <1>8. e \in Decisions /\ e.state = d.state
    BY <1>5 DEF Decision, Decisions
  <1> HIDE DEF e
  <1>9. d.state = "NORMAL"
    <2>1. Kept(e, lost) \/ Fallen(e, lost) \/ Exchanged(e, lost)
      BY <1>1, <1>2, <1>3, <1>8, OperateEffect
    <2> QED
      BY <1>8, <2>1 DEF Kept, Fallen, Exchanged
  <1>10. state = "NORMAL" /\ ~(supLatched' /\ sup.fault)
    BY <1>6, <1>7, <1>9 DEF Decision
  <1>11. d = Decision(IF ~asked.wait /\ controlAuto THEN "MRM_OPERATING" ELSE "NORMAL",
                      behavior, routes, asked.takeover)
    BY <1>6, <1>10
  <1> QED
    BY <1>3, <1>9, <1>10, <1>11 DEF Decision, asked, lost

\* A tick that waits on the driver asks now or asked less than the window ago.
LEMMA WaitingRequest ==
    ASSUME TypeOK, NEW lost \in BOOLEAN, controlAuto,
           updateTakeoverRequest(lost).wait
    PROVE  LET t == updateTakeoverRequest(lost).takeover
           IN  /\ t.requested
               /\ \/ ~takeover.requested /\ t.age = 0
                  \/ takeover.requested /\ t = takeover /\ takeover.age < TakeoverTimeout
  BY DEF updateTakeoverRequest, clearTakeoverRequest, Request, TypeOK

\* A tick of RUN keeps the parts that it can disturb.
LEMMA RunTickTimes ==
    ASSUME IInv, TInv, onTimer, phase' = "Run", NEW lag \in 0..ReadLag, RunTick(lag)
    PROVE  SeenCarried' /\ WaitCarried'
  <1>1. /\ TypeOK /\ WaitCarried
        /\ timerAge' = 0 /\ sup' = sup /\ availAge' = availAge
        /\ emergencyHolding' \in BOOLEAN
    BY DEF IInv, TInv, onTimer, inputs, TypeOK
  <1>2. initFailed' \in BOOLEAN
    BY <1>1, PhaseType
  <1>3. SeenCarried'
    <2>1. ~availTimeout' => ~(availAge > AvailTimeout + lag)
      BY Zenon DEF RunTick, checkOperationModeAvailabilityTimeout
    <2>2. availAge \in Nat
      BY <1>1, CapType DEF TypeOK
    <2> QED
      BY <1>1, <2>1, <2>2, TimeAssumption DEF SeenCarried
  <1>4. WaitCarried'
    <2>1. waited' = IF ~(isEmergency' /\ controlAuto /\ state' = "NORMAL") THEN 0
                    ELSE IF waited = 0 THEN 1 ELSE waited
      BY DEF RunTick, noteHistory
    <2>2. CASE ~(isEmergency' /\ controlAuto /\ state' = "NORMAL")
      BY <2>1, <2>2 DEF WaitCarried
    <2>3. CASE isEmergency' /\ controlAuto /\ state' = "NORMAL"
      <3>1. isInputLost' \in BOOLEAN
        BY <1>1, <1>2, TickDecision DEF IInv
      <3>2. /\ takeover' = updateTakeoverRequest(isInputLost').takeover
            /\ updateTakeoverRequest(isInputLost').wait
        BY <1>1, <1>2, <2>3, NormalTick
      <3>3. /\ takeover'.requested
            /\ \/ ~takeover.requested /\ takeover'.age = 0
               \/ takeover.requested /\ takeover' = takeover
                    /\ takeover.age < TakeoverTimeout
        BY <1>1, <2>3, <3>1, <3>2, WaitingRequest
      <3>4. waited \in Nat /\ takeover.age \in Nat
        BY <1>1, CapType DEF TypeOK
      <3>5. CASE ~takeover.requested /\ takeover'.age = 0
        <4>1. waited' = 1
          BY <1>1, <2>1, <2>3, <3>4, <3>5 DEF WaitCarried
        <4> QED
          BY <1>1, <3>3, <3>5, <4>1, TimeAssumption DEF WaitCarried
      <3>6. CASE takeover.requested /\ takeover' = takeover
                   /\ takeover.age < TakeoverTimeout
        <4>1. waited' <= takeover.age + 1
          BY <1>1, <2>1, <2>3, <3>4 DEF WaitCarried
        <4> QED
          BY <1>1, <3>3, <3>4, <3>6, <4>1, TimeAssumption DEF WaitCarried
      <3> QED
        BY <3>3, <3>5, <3>6
    <2> QED
      BY <2>2, <2>3
  <1> QED
    BY <1>3, <1>4

\* A tick keeps the invariant: INIT is left at init_timeout.
LEMMA TimerTimes ==
    ASSUME IInv, TInv, onTimer
    PROVE  TInv'
  <1>1. /\ TypeOK /\ BootCarried /\ StampsAgree /\ WaitCarried
        /\ timerAge' = 0 /\ bootAge' = bootAge
        /\ arrivals' = arrivals /\ availAge' = availAge
    BY DEF IInv, TInv, onTimer, inputs
  <1>2. StampsAgree'
    BY <1>1 DEF StampsAgree
  <1>3. ASSUME phase' = "Run", NEW lag \in 0..ReadLag, RunTick(lag)
        PROVE  TInv'
    BY <1>2, <1>3, RunTickTimes DEF TInv, BootCarried
  <1>4. ASSUME phase' = "Init", InitTick,
               NEW r \in Reads, r.boot \in 0..ReadLag, updatePhase(r)
        PROVE  TInv'
    <2>1. /\ phase = "Init" /\ bootAge < InitTimeout + r.boot
          /\ UNCHANGED <<monitorsArmed, availTimeout, takeover, routes, called,
                         out, waited>>
      BY <1>4 DEF updatePhase, InitTick
    <2>2. BootCarried'
      BY <1>1, <1>4, <2>1, CapType, TimeAssumption DEF BootCarried, TypeOK
    <2>3. waited = 0
      BY <1>1, <2>1 DEF BootCarried, WaitCarried, TypeOK
    <2> QED
      BY <1>2, <1>4, <2>1, <2>2, <2>3 DEF TInv, SeenCarried, WaitCarried
  <1> QED
    BY <1>3, <1>4, TimerReads

\* The clock moves every age and the timer's together.
LEMMA AdvanceTimes ==
    ASSUME IInv, TInv, Advance
    PROVE  TInv'
  <1>1. /\ TypeOK /\ SeenCarried /\ BootCarried /\ StampsAgree /\ WaitCarried
    BY DEF IInv, TInv
  <1>2. /\ timerAge' = timerAge + 1 /\ timerAge \in Nat
        /\ bootAge' <= bootAge + 1 /\ bootAge \in Nat /\ bootAge' \in Nat
        /\ availAge' <= availAge + 1 /\ availAge \in Nat /\ availAge' \in Nat
        /\ UNCHANGED <<phase, monitorsArmed, availTimeout, routes, called, out>>
    BY <1>1, CapType, TimeAssumption DEF Advance, Aged, TypeOK
  <1>3. SeenCarried' /\ BootCarried'
    <2>1. SeenCarried'
      BY <1>1, <1>2, TimeAssumption DEF SeenCarried
    <2>2. waited = 0 => waited' = 0
      BY DEF Advance
    <2>3. BootCarried'
      BY <1>1, <1>2, <2>2, TimeAssumption DEF BootCarried
    <2> QED
      BY <2>1, <2>3
  <1>4. StampsAgree'
    <2> DEFINE a == arrivals["AVAILABILITY"]
               b == arrivals'["AVAILABILITY"]
    <2>1. a \in Arrival
      BY <1>1 DEF TypeOK, Streams
    <2>2. b = IF a.count = 0 THEN a
              ELSE [a EXCEPT !.age = Aged(@, ArrivalCap)]
      BY DEF Advance, Streams
    <2>3. availAge' = Aged(availAge, AvailCap)
      BY DEF Advance
    <2> HIDE DEF a, b
    <2>4. a.count > 0 /\ a.age < ArrivalCap => availAge = a.age
      BY <1>1 DEF StampsAgree, a
    <2>5. a.count \in Nat /\ a.age \in 0..ArrivalCap
      BY <2>1 DEF Arrival
    <2>6. b.count = a.count /\ (a.count > 0 => b.age = Aged(a.age, ArrivalCap))
      BY <2>1, <2>2, <2>5 DEF Arrival
    <2>7. b.count > 0 /\ b.age < ArrivalCap => availAge' = b.age
      BY <1>2, <2>3, <2>4, <2>5, <2>6, TimeAssumption DEF Aged, AvailCap, ArrivalCap
    <2> QED
      BY <2>7 DEF StampsAgree, b
  <1>5. WaitCarried'
    <2>1. waited \in 0..TakeoverCap /\ takeover \in Takeovers /\ TakeoverCap \in Nat
      BY <1>1, CapType DEF TypeOK, Takeovers
    <2>2. waited' = IF waited = 0 THEN 0 ELSE Aged(waited, TakeoverCap)
      BY DEF Advance
    <2>3. waited > 0 => /\ takeover'.requested
                        /\ takeover'.age = Aged(takeover.age, TakeoverCap)
      BY <1>1, <2>1 DEF Advance, WaitCarried, Takeovers
    <2>4. takeover.age \in 0..TakeoverCap
      BY <2>1 DEF Takeovers
    <2>5. waited' > 0 => /\ waited' <= takeover'.age + 1
                         /\ takeover'.age <= takeover.age + 1
                         /\ takeover'.age \in Nat
      BY <1>1, <2>1, <2>2, <2>3, <2>4 DEF Aged, WaitCarried
    <2> QED
      BY <1>1, <1>2, <2>1, <2>2, <2>3, <2>4, <2>5, TimeAssumption DEF WaitCarried
  <1> QED
    BY <1>3, <1>4, <1>5 DEF TInv

\* A callback leaves the times alone but for the stream it notes: a sample of
\* the availability restarts both of its stamps.
LEMMA OtherTimes ==
    ASSUME IInv, TInv, Callback \/ SupervisorStep \/ UNCHANGED vars
    PROVE  TInv'
  <1>1. /\ TypeOK /\ SeenCarried /\ BootCarried /\ StampsAgree /\ WaitCarried
    BY DEF IInv, TInv
  <1>2. /\ UNCHANGED <<phase, monitorsArmed, availTimeout, takeover, called, out,
                       waited, timerAge, bootAge>>
        /\ routes' = routes \/ monitorsArmed
    BY DEF Callback, onOperationModeAvailability, onOdometry, onControlMode,
           onStopStatus, onOperationModeState, SupervisorStep, vars, machine, inputs
  <1>3. BootCarried' /\ WaitCarried'
    BY <1>1, <1>2 DEF BootCarried, WaitCarried
  <1>4. ASSUME onOperationModeAvailability
        PROVE  SeenCarried' /\ StampsAgree'
    <2>1. availAge' = 0 /\ arrivals'["AVAILABILITY"] = Noted(arrivals["AVAILABILITY"])
      BY <1>1, <1>4 DEF onOperationModeAvailability, TypeOK, Streams
    <2>2. SeenCarried'
      BY <1>1, <1>2, <2>1, TimeAssumption DEF SeenCarried, TypeOK
    <2>3. StampsAgree'
      BY <2>1 DEF StampsAgree, Noted
    <2> QED
      BY <2>2, <2>3
  <1>5. ASSUME ~onOperationModeAvailability
        PROVE  /\ availAge' = availAge
               /\ arrivals'["AVAILABILITY"] = arrivals["AVAILABILITY"]
    <2>1. ASSUME NEW o \in Operators, onStopStatus(o)
          PROVE  arrivals'["AVAILABILITY"] = arrivals["AVAILABILITY"]
      BY <1>1, <2>1 DEF onStopStatus, Operators, TypeOK, Streams
    <2>2. ~(\E o \in Operators : onStopStatus(o)) => arrivals' = arrivals
      BY <1>5 DEF Callback, onOdometry, onControlMode, onOperationModeState,
                  SupervisorStep, vars, machine, inputs
    <2>3. availAge' = availAge
      BY <1>5 DEF Callback, onOdometry, onControlMode, onStopStatus,
                  onOperationModeState, SupervisorStep, vars, machine, inputs
    <2> QED
      BY <2>1, <2>2, <2>3
  <1>6. SeenCarried' /\ StampsAgree'
    BY <1>1, <1>2, <1>4, <1>5 DEF SeenCarried, StampsAgree
  <1> QED
    BY <1>3, <1>6 DEF TInv

-----------------------------------------------------------------------------
(* The theorems.                                                           *)

\* The carried bounds hold in every reachable state.
THEOREM TimeInvariant == Spec => [](IInv /\ TInv)
  <1>1. Init => TInv
    <2> SUFFICES ASSUME Init PROVE TInv
      OBVIOUS
    <2>1. arrivals["AVAILABILITY"].count = 0
      BY DEF Init, NeverArrived, Streams
    <2> QED
      BY <2>1, TimeAssumption
      DEF Init, TInv, SeenCarried, BootCarried, StampsAgree, WaitCarried
  <1>2. IInv /\ TInv /\ [Next]_vars => TInv'
    BY TimerTimes, AdvanceTimes, OtherTimes DEF Next
  <1> QED
    BY <1>1, <1>2, Invariant, StepHolds, PTL DEF Spec

\* checkOperationModeAvailabilityTimeout sees a silent stream one period, one
\* jitter and the time within a tick after its timeout at the latest.
THEOREM LossIsSeen == Spec => []LossSeen
  <1>1. IInv /\ TInv => LossSeen
    <2> SUFFICES ASSUME TypeOK, SeenCarried PROVE LossSeen
      BY DEF IInv, TInv
    <2>1. availAge \in Nat /\ timerAge \in Nat /\ timerAge <= Period + MaxJitter
      BY CapType, TimeAssumption DEF TypeOK
    <2> QED
      BY <2>1, TimeAssumption DEF SeenCarried, LossSeen
  <1> QED
    BY <1>1, TimeInvariant, PTL

\* updatePhase ends INIT whatever the inputs do, and INIT publishes nothing,
\* calls nobody and arms no route.
THEOREM InitIsBounded == Spec => []InitBounded
  <1>1. IInv /\ TInv => InitBounded
    <2> SUFFICES ASSUME TypeOK, BootCarried PROVE InitBounded
      BY DEF IInv, TInv
    <2>1. bootAge \in Nat /\ timerAge \in Nat /\ timerAge <= Period + MaxJitter
      BY CapType, TimeAssumption DEF TypeOK
    <2> QED
      BY <2>1, TimeAssumption DEF BootCarried, InitBounded
  <1> QED
    BY <1>1, TimeInvariant, PTL

\* updateTakeoverRequest: a fault in AUTONOMOUS control waits on the driver for
\* the window, one period and one jitter at most, for every window that is open
\* at all (one of no length still waits for the tick after the request).
THEOREM TakeoverIsBounded == Spec => [](TakeoverTimeout > 0 => TakeoverBounded)
  <1>1. IInv /\ TInv => (TakeoverTimeout > 0 => TakeoverBounded)
    <2> SUFFICES ASSUME TypeOK, WaitCarried, TakeoverTimeout > 0
                 PROVE  TakeoverBounded
      BY DEF IInv, TInv
    <2>1. /\ timerAge \in Nat /\ timerAge <= Period + MaxJitter
          /\ takeover.age \in Nat /\ waited \in Nat
      BY CapType, TimeAssumption DEF TypeOK
    <2> QED
      BY <2>1, TimeAssumption DEF WaitCarried, TakeoverBounded
  <1> QED
    BY <1>1, TimeInvariant, PTL

\* updatePhase: RUN is for good, and INIT left with its inputs established has
\* heard the availability within its timeout, but for the time that passes
\* between the two reads of the clock on that tick.
THEOREM RunIsFresh == Spec => FreshRun
  <1>1. IInv /\ TInv /\ [Next]_vars =>
          [/\ phase = "Run" => phase' = "Run"
           /\ phase = "Init" /\ phase' = "Run" /\ ~initFailed' /\ availTimeout'
                => availAge <= AvailTimeout + ReadLag]_vars
    <2> SUFFICES ASSUME TypeOK, StampsAgree, Next
                 PROVE  /\ phase = "Run" => phase' = "Run"
                        /\ phase = "Init" /\ phase' = "Run" /\ ~initFailed'
                             /\ availTimeout'
                             => availAge <= AvailTimeout + ReadLag
      BY DEF IInv, TInv
    <2>1. CASE onTimer
      <3>1. PICK r \in Reads : r.inputs \in 0..ReadLag /\ updatePhase(r)
        BY <2>1, TimerReads
      <3>2. phase = "Run" => phase' = "Run"
        BY <3>1 DEF updatePhase
      <3>3. ASSUME phase = "Init", phase' = "Run", ~initFailed'
            PROVE  availAge <= AvailTimeout + ReadLag
        <4>1. Established(r.inputs)
          BY <3>1, <3>3 DEF updatePhase
        <4>2. isEstablished(arrivals["AVAILABILITY"], r.inputs)
          BY <4>1 DEF Established, RequiredStreams
        <4>3. /\ arrivals["AVAILABILITY"].count \in Nat
              /\ arrivals["AVAILABILITY"].age \in Nat
          BY CapType DEF TypeOK, Streams, Arrival
        <4>4. arrivals["AVAILABILITY"].age <= AvailTimeout + ReadLag
          BY <3>1, <4>2, <4>3, TimeAssumption DEF isEstablished
        <4>5. availAge = arrivals["AVAILABILITY"].age
          BY <4>2, <4>3, <4>4, CapType, TimeAssumption DEF isEstablished, StampsAgree
        <4> QED
          BY <4>4, <4>5
      <3> QED
        BY <3>2, <3>3
    <2>2. CASE Callback \/ Advance \/ SupervisorStep
      <3>1. phase' = phase
        BY <2>2 DEF Callback, onOperationModeAvailability, onOdometry, onControlMode,
           onStopStatus, onOperationModeState, Advance, SupervisorStep, machine
      <3> QED
        BY <3>1
    <2> QED
      BY <2>1, <2>2 DEF Next
  <1> QED
    BY <1>1, TimeInvariant, PTL DEF Spec, FreshRun

\* isEmergency reads the holding flag on every tick: a held emergency keeps its
\* MRM whatever the availability says later.
THEOREM HoldingIsKept == Spec => HoldingKept
  <1>1. IInv /\ [Next]_vars =>
          [emergencyHolding /\ state # "NORMAL" => state' # "NORMAL"]_vars
    <2> SUFFICES ASSUME IInv, Next, emergencyHolding, state # "NORMAL"
                 PROVE  state' # "NORMAL"
      OBVIOUS
    <2>1. CASE onTimer
      <3>1. CASE InitTick
        BY <3>1 DEF InitTick
      <3>2. ASSUME NEW lag, RunTick(lag)
            PROVE  state' # "NORMAL"
        <4>1. sup' = sup /\ emergencyHolding' /\ emergencyHolding' \in BOOLEAN
          BY <2>1 DEF onTimer, inputs, IInv, TypeOK
        <4>2. initFailed' \in BOOLEAN
          BY <2>1, PhaseType DEF IInv
        <4>3. isEmergency'
          BY <4>1 DEF isEmergency
        <4> QED
          BY <3>2, <4>1, <4>2, <4>3, NormalTick
      <3> QED
        BY <2>1, <3>1, <3>2, TimerReads
    <2>2. CASE Callback \/ Advance \/ SupervisorStep
      BY <2>2 DEF Callback, onOperationModeAvailability, onOdometry, onControlMode,
         onStopStatus, onOperationModeState, Advance, SupervisorStep, machine
    <2> QED
      BY <2>1, <2>2 DEF Next
  <1> QED
    BY <1>1, Invariant, PTL DEF Spec, HoldingKept
=============================================================================
