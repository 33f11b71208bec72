--------------------------- MODULE MCHandlerTable ---------------------------
(* Instances of HandlerTable for TLC. *)
EXTENDS HandlerTable, TLC

CONSTANTS t1, t2

TwoThreads == {t1, t2}
=============================================================================
