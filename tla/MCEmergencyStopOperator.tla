---------------------- MODULE MCEmergencyStopOperator ----------------------
(***************************************************************************)
(* Small instances of EmergencyStopOperator for TLC: a host that           *)
(* accelerates and one that already brakes harder than the operator would, *)
(* on clocks that lag or lead.                                             *)
(***************************************************************************)
EXTENDS EmergencyStopOperator

DrivingControls == {[vel |-> 6, acc |-> 1],
                    [vel |-> 8, acc |-> TargetAcceleration - 1]}
AnyGarbage == {[vel |-> 9, acc |-> 9]}
ClockAges == {-2, MaxDt}
MinusThree == -3
=============================================================================
