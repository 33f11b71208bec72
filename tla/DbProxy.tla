------------------------------ MODULE DbProxy ------------------------------
(***************************************************************************)
(* dbproxy_server.cpp: main opens the handle of each of two pools, then an *)
(* application executes statements and walks through results, as main does *)
(* with one query; the first exception ends in main's catch.  The database *)
(* may refuse a connection or a statement, and a connection may break      *)
(* before or after a statement was executed.                               *)
(***************************************************************************)
EXTENDS Integers

CONSTANTS
  MaxRows,         \* bound: rows of a result
  MaxStatements    \* bound: statements given to PQexec

ASSUME BoundsAssumption == MaxRows \in Nat /\ MaxStatements \in Nat

(* The pools CPGDbPoolManager::init makes, with one handle each: getDB of   *)
(* either name is that handle.                                              *)
Pools == {"read", "write"}

VARIABLES
  proc,       \* starting, running, ended (caught, or done), crashed
  PGconn_,    \* of each pool's handle: unset, refused, up, down (up once)
  given,      \* statements given to PQexec
  executed,   \* statements the database executed
  returned,   \* statements whose call returned to the application
  result,     \* a result is at hand
  iMaxRow, iCurrentRow,
  said,       \* what next said last of this result: nothing yet, yes, no
  offered     \* history: the rows for which next said yes

cursorVars == <<result, iMaxRow, iCurrentRow, said, offered>>
vars == <<proc, PGconn_, given, executed, returned, cursorVars>>

Init ==
  /\ proc = "starting"
  /\ PGconn_ = [p \in Pools |-> "unset"]
  /\ given = 0 /\ executed = 0 /\ returned = 0
  /\ result = FALSE /\ iMaxRow = 0 /\ iCurrentRow = 0
  /\ said = "nothing" /\ offered = {}

-----------------------------------------------------------------------------
NextPool == IF PGconn_["read"] = "unset" THEN "read" ELSE "write"

(* CPGDB::Init, of the reading handle and then of the writing one. *)
Connect ==
  /\ proc = "starting"
  /\ \E answer \in {"up", "refused"} :
       /\ PGconn_' = [PGconn_ EXCEPT ![NextPool] = answer]
       /\ proc' = IF answer = "refused" THEN "ended"
                  ELSE IF PGconn_["read"] # "unset" THEN "running" ELSE "starting"
  /\ UNCHANGED <<given, executed, returned, cursorVars>>

(* The connection breaks between two statements. *)
Breaks(p) ==
  /\ proc \in {"starting", "running"}
  /\ PGconn_[p] = "up" /\ PGconn_' = [PGconn_ EXCEPT ![p] = "down"]
  /\ UNCHANGED <<proc, given, executed, returned, cursorVars>>

(* What becomes of a statement: it is executed or not, and what PQexec says *)
(* of it (error is also no result at all).                                  *)
Outcome(p) ==
  IF PGconn_[p] # "up" THEN {[run |-> FALSE, status |-> "error"]}
  ELSE [run : BOOLEAN, status : {"error"}] \cup [run : {TRUE}, status : {"command", "tuples"}]

PQexec(p, o) ==
  /\ proc = "running" /\ given < MaxStatements
  /\ given' = given + 1
  /\ executed' = IF o.run THEN executed + 1 ELSE executed
  /\ PGconn_' = [PGconn_ EXCEPT ![p] = IF o.run /\ o.status = "error" THEN "down" ELSE @]

Succeeds_AnyResult(o, wanted) == TRUE

(* The status must be the one the call is for, or it throws. *)
Succeeds(o, wanted) == o.status = wanted

excuteSQL(p) ==
  \E o \in Outcome(p) :
    /\ PQexec(p, o)
    /\ IF Succeeds(o, "command")
       THEN returned' = returned + 1 /\ proc' = proc
       ELSE returned' = returned /\ proc' = "ended"
    /\ UNCHANGED cursorVars

(* A successful query makes a result whose cursor stands on its row 0. *)
excuteQuery(p) ==
  \E o \in Outcome(p) :
    /\ PQexec(p, o)
    /\ IF Succeeds(o, "tuples")
       THEN /\ returned' = returned + 1 /\ proc' = proc
            /\ \E n \in 0 .. MaxRows : iMaxRow' = n
            /\ result' = TRUE /\ iCurrentRow' = 0 /\ said' = "nothing" /\ offered' = {}
       ELSE returned' = returned /\ proc' = "ended" /\ UNCHANGED cursorVars

-----------------------------------------------------------------------------
HasNext_ComparesFirst == iCurrentRow < iMaxRow

HasNext == iCurrentRow + 1 < iMaxRow

(* next steps first and compares then (bound: not again behind MaxRows). *)
next ==
  /\ proc = "running" /\ result /\ iCurrentRow <= MaxRows
  /\ iCurrentRow' = iCurrentRow + 1
  /\ said' = IF HasNext THEN "yes" ELSE "no"
  /\ offered' = IF HasNext THEN offered \cup {iCurrentRow + 1} ELSE offered
  /\ UNCHANGED <<proc, PGconn_, given, executed, returned, result, iMaxRow>>

(* getInt and getStr: an unknown column throws; for a row that is not there *)
(* PQgetvalue gives NULL, which neither survives.                           *)
Get ==
  /\ proc = "running" /\ result
  /\ \/ proc' = "ended"
     \/ proc' = IF iCurrentRow < iMaxRow THEN "running" ELSE "crashed"
  /\ UNCHANGED <<PGconn_, given, executed, returned, cursorVars>>

(* main, or the application, is done: print leaves the cursor alone. *)
Finish ==
  /\ proc = "running" /\ proc' = "ended"
  /\ UNCHANGED <<PGconn_, given, executed, returned, cursorVars>>

Next ==
  \/ Connect \/ next \/ Get \/ Finish
  \/ \E p \in Pools : Breaks(p) \/ excuteSQL(p) \/ excuteQuery(p)

Spec == Init /\ [][Next]_vars

-----------------------------------------------------------------------------
(* Types; next offers only rows of the result. *)
TypeOK ==
  /\ proc \in {"starting", "running", "ended", "crashed"}
  /\ PGconn_ \in [Pools -> {"unset", "refused", "up", "down"}]
  /\ given \in Nat /\ executed \in Nat /\ returned \in Nat
  /\ result \in BOOLEAN
  /\ iMaxRow \in Nat /\ iCurrentRow \in Nat
  /\ said \in {"nothing", "yes", "no"}
  /\ offered \subseteq 0 .. iMaxRow - 1

(* While calls go on returning, the application knows how many of its       *)
(* statements were executed; an exception leaves it in doubt of one, which  *)
(* may have been executed all the same.                                     *)
OnlyTheLastIsInDoubt ==
  /\ executed - returned \in {0, 1}
  /\ proc \in {"starting", "running"} => executed = returned

(* The usual loop, while (next()), is offered every row but row 0, whatever *)
(* the number of rows: one that reads only behind a yes never crashes.      *)
LoopSkipsOnlyRowZero ==
  /\ said = "no" => offered = 1 .. iMaxRow - 1
  /\ said = "yes" => iCurrentRow < iMaxRow /\ proc # "crashed"
=============================================================================
