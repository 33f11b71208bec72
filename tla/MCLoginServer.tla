--------------------------- MODULE MCLoginServer ---------------------------
(* Instances of LoginServer for TLC. *)
EXTENDS LoginServer

CONSTANTS s1, s2

TwoSessions == {s1, s2}
=============================================================================
