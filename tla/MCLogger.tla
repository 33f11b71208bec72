------------------------------ MODULE MCLogger ------------------------------
(* Instances of Logger for TLC. *)
EXTENDS Logger

(* State constraint: after the clock was set back, only two lines are       *)
(* logged.                                                                  *)
BackForTwoLines == wentBack => Len(stamps) <= 2
=============================================================================
