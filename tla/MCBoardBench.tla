---------------------------- MODULE MCBoardBench ----------------------------
(***************************************************************************)
(* A small instance of BoardBench: rings of two and of one entry, so that  *)
(* they wrap within a few events; images of any blocks and of both forms   *)
(* of the level block; a log of a hazard and a function on the             *)
(* availability, whose every sample is logged, the function also on a      *)
(* topic logged on change, so that two topics share its state.             *)
(***************************************************************************)
EXTENDS BoardBench

MCLates == {NoBound, 3, 5}
MCImages ==
    {[blocks |-> b, routes |-> r, levels |-> 4, used |-> u, p9b |-> p] :
        b \in 1 .. Blocks, r \in 1 .. 3, u \in 0 .. 4, p \in BOOLEAN}
MCContract ==
    [functions |-> [n \in {"driver"} |-> [of |-> {"availability", "control_mode"}, when |-> {1}]],
     hazards |-> [n \in {"hpc_loss"} |-> [of |-> {"availability"}, when |-> {0}]]]
=============================================================================
