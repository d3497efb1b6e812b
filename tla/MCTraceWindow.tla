--------------------------- MODULE MCTraceWindow ---------------------------
(***************************************************************************)
(* A small instance of TraceWindow: one timer path (ids 1 and 2), the      *)
(* trigger, the arm, one publish and the head of a violation.  Bytes are   *)
(* the board's; a half of the ring holds two records.                      *)
(***************************************************************************)
EXTENDS TraceWindow

MCPolicy == <<SPIN_ENTRY, SPIN_EXIT, EVERY, EVERY, CHANGE>>
MCTableIds == (1 .. 5) \union {277}
MCEmits == {<<1, 0>>, <<2, 0>>, <<3, 0>>, <<4, 1>>, <<277, 0>>}
MCRequired == {1, 2}
=============================================================================
