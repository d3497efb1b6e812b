---------------------------- MODULE MCMrmHandler ----------------------------
(***************************************************************************)
(* Small instances of MrmHandler for TLC: the samples the streams carry,   *)
(* and a view that forgets what nothing reads or changes again: the        *)
(* arrivals in RUN without an init failure, what an arrival can no longer  *)
(* tell the next one, and the last samples on the topics that the direct   *)
(* path has taken back.                                                    *)
(***************************************************************************)
EXTENDS MrmHandler

Sample(m, comfortable, pullOver) ==
    [modes |-> m, comfortable |-> comfortable, pullOver |-> pullOver]

\* The mode is available; AUTONOMOUS has ended, with a comfortable stop to fall
\* to, and with a pull over on offer, which the island has no operator for.
ReactionSamples == {Sample({"AUTONOMOUS", "STOP"}, TRUE, FALSE),
                    Sample({"STOP"}, TRUE, FALSE),
                    Sample({"STOP"}, FALSE, TRUE)}

StartupSamples == {Sample({"AUTONOMOUS"}, TRUE, FALSE), Sample({}, TRUE, FALSE)}

\* A handler that has just left INIT with every input established and nothing
\* wrong: where the runs that are not about the start-up begin.
Started ==
    /\ phase = "Run" /\ initFailed = FALSE /\ monitorsArmed = TRUE
    /\ bootAge = BootCap /\ timerAge = 0 /\ availAge = 0
    /\ avail \in {a \in AvailSamples : "AUTONOMOUS" \in a.modes}
    /\ arrivals = [s \in Streams |-> [count |-> 2, steady |-> TRUE, age |-> 0]]
    /\ modeHeard = TRUE /\ mode = "AUTONOMOUS"
    /\ controlAuto \in BOOLEAN /\ stopped \in BOOLEAN
    /\ unavailable = [marked |-> FALSE, age |-> 0] /\ emergencyHolding = FALSE
    /\ availTimeout = FALSE /\ supLatched = FALSE
    /\ state = "NORMAL" /\ behavior = "NONE"
    /\ takeover = [requested |-> FALSE, expired |-> FALSE, age |-> 0]
    /\ routes = {} /\ called = [o \in Operators |-> FALSE]
    /\ out = [mrm |-> <<"NORMAL", "NONE">>,
              takeover |-> IF UseTakeoverRequest THEN "AVAILABLE" ELSE "NOT_AVAILABLE",
              hazard |-> "NO_COMMAND"]
    /\ sup = [latched |-> FALSE, fault |-> FALSE, resumed |-> FALSE]
    /\ lostTicks = 0 /\ waited = 0

StartedSpec == Started /\ [][Next]_vars

\* What isEstablished and the next Noted can still read of an arrival.
Read(a) ==
    LET steady == a.count = 2 /\ a.steady
    IN  <<a.count > 0, steady,
          IF a.age > AvailTimeout /\ ~steady THEN ArrivalCap ELSE a.age>>

Rest == <<IF phase = "Run" /\ ~initFailed THEN {}
          ELSE [s \in Streams |-> Read(arrivals[s])],
          IF phase = "Run" THEN 0 ELSE bootAge,
          phase, initFailed, monitorsArmed, avail, modeHeard, mode,
          controlAuto, stopped, unavailable, emergencyHolding, availTimeout,
          supLatched, state, behavior, takeover, timerAge, routes, called,
          IF supLatched /\ sup.resumed THEN out.takeover ELSE out, sup, lostTicks, waited>>

View == <<Rest, availAge>>

\* Where no property speaks of it, a silence that every later tick will see
\* need not be measured.
ReactionView ==
    <<Rest, IF availAge > AvailTimeout + ReadLag \/ (availTimeout /\ availAge > AvailTimeout)
            THEN AvailCap ELSE availAge>>
=============================================================================
