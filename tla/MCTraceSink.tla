---------------------------- MODULE MCTraceSink ----------------------------
(***************************************************************************)
(* A small instance of TraceSink: a contract of one timer path and one     *)
(* detector path with its guarded input, the same with a path more (which  *)
(* shifts every id behind it) and one with two detectors (which the        *)
(* generator refuses); two nano-ros revisions that differ in the order of  *)
(* their rules, and one without the take events.  A callback may run on    *)
(* either of two levels.                                                   *)
(***************************************************************************)
EXTENDS TraceSink

\* Endpoints 1 (the guarded input), 2 (an input) and 3 (an output).
Path(trigger, input, value) == [trigger |-> trigger, input |-> input, value |-> value]
NoServices == [s \in {} |-> [client |-> <<>>, server |-> <<>>]]
OneService == [s \in {1} |-> [client |-> <<1>>, server |-> <<2>>]]
Contract(paths, services) ==
    [paths |-> paths, services |-> services, pubs |-> {3}, subs |-> {1, 2},
     topics |-> [t \in {1} |-> {1}], hazards |-> {{1}}]

One == Contract(<<Path("timer", {}, {}), Path("input", {1}, {1})>>, NoServices)
Shifted == Contract(<<Path("timer", {}, {}), Path("timer", {2}, {}), Path("input", {1}, {1})>>, OneService)
Refused == Contract(<<Path("input", {1}, {1}), Path("input", {2}, {1})>>, NoServices)

MCContracts == {One, Shifted, Refused}
MCFixed == <<9>>
MCTakeInputs == << <<1, 1>>, <<2, 2>> >>
MCInputOf == <<1, 2>>

Ids(names) == [n \in ToSet(names) |-> CHOOSE i \in DOMAIN names : names[i] = n]
Names == TimerNames \o ViolationNames \o TakeNames
MCPins == {[ids |-> Ids(Names), rules |-> <<"period", "age">>],
           [ids |-> Ids(Names), rules |-> <<"age", "period">>],
           [ids |-> Ids(TimerNames \o ViolationNames), rules |-> <<"period", "age">>]}

\* Once the image runs, only it and the table matter.
View == IF booted THEN <<TRUE, image, table, log, job, jobs, sink>> ELSE vars
=============================================================================
