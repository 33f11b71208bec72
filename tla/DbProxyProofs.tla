--------------------------- MODULE DbProxyProofs ---------------------------
(***************************************************************************)
(* What DbProxy promises for results of any size and any number of         *)
(* statements.  The two invariants of its run follow from where the cursor *)
(* stands after each answer of next (Cursor): without it nothing ties the  *)
(* rows offered to the row the cursor is on.                               *)
(***************************************************************************)
EXTENDS DbProxy, TLAPS

Cursor ==
  /\ said = "nothing" => iCurrentRow = 0 /\ offered = {}
  /\ said = "yes" => iCurrentRow < iMaxRow /\ offered = 1 .. iCurrentRow
  /\ said = "no" => iCurrentRow >= iMaxRow /\ offered = 1 .. iMaxRow - 1
  /\ proc = "crashed" => iCurrentRow >= iMaxRow

IInv == TypeOK /\ OnlyTheLastIsInDoubt /\ Cursor

(* Nothing was given to the database yet, and there is no result. *)
LEMMA InitEstablishes == Init => IInv
<1> SUFFICES ASSUME Init PROVE IInv
  OBVIOUS
<1>1. PGconn_ \in [Pools -> {"unset", "refused", "up", "down"}] /\ result \in BOOLEAN
  BY DEF Init
<1>2. TypeOK
  BY <1>1 DEF Init, TypeOK
<1>3. OnlyTheLastIsInDoubt /\ Cursor
  BY DEF Init, OnlyTheLastIsInDoubt, Cursor
<1>4. QED
  BY <1>2, <1>3 DEF IInv

(* Connecting, and the end of a connection or of the process, are neither   *)
(* statements nor moves of the cursor.                                      *)
LEMMA OtherStepsPreserve ==
  ASSUME IInv, Connect \/ Finish \/ Get \/ \E p \in Pools : Breaks(p)
  PROVE  IInv'
<1>1. UNCHANGED <<given, executed, returned, cursorVars>>
  BY DEF Connect, Finish, Get, Breaks
<1>2. PGconn_' \in [Pools -> {"unset", "refused", "up", "down"}]
  BY DEF Connect, Finish, Get, Breaks, IInv, TypeOK
<1>3. proc' \in {"starting", "running", "ended", "crashed"}
  BY DEF Connect, Finish, Get, Breaks, IInv, TypeOK
<1>4. TypeOK'
  BY <1>1, <1>2, <1>3 DEF IInv, TypeOK, cursorVars
<1>5. proc \in {"starting", "running"} \/ proc' = proc
  BY DEF Connect, Finish, Get, Breaks
<1>6. OnlyTheLastIsInDoubt'
  BY <1>1, <1>5 DEF IInv, OnlyTheLastIsInDoubt
<1>7. proc' = "crashed" => iCurrentRow >= iMaxRow
  BY DEF Connect, Finish, Get, Breaks, IInv, TypeOK, Cursor
<1>8. Cursor'
  BY <1>1, <1>7 DEF IInv, Cursor, cursorVars
<1>9. QED
  BY <1>4, <1>6, <1>8 DEF IInv

(* A statement whose status is not error was executed. *)
LEMMA OutcomeIsExecuted ==
  ASSUME NEW p \in Pools, NEW o \in Outcome(p), o.status # "error"
  PROVE  o.run = TRUE
<1>1. CASE PGconn_[p] # "up"
  BY <1>1 DEF Outcome
<1>2. CASE PGconn_[p] = "up"
  <2>1. o \in [run : BOOLEAN, status : {"error"}] \/ o \in [run : {TRUE}, status : {"command", "tuples"}]
    BY <1>2 DEF Outcome
  <2>2. o \notin [run : BOOLEAN, status : {"error"}]
    OBVIOUS
  <2>3. o \in [run : {TRUE}, status : {"command", "tuples"}]
    BY <2>1, <2>2
  <2>4. o.run \in {TRUE}
    BY <2>3
  <2>5. QED
    BY <2>4
<1>3. QED
  BY <1>1, <1>2

(* What a statement does to the counts, before the status is tested. *)
LEMMA PQexecCounts ==
  ASSUME IInv, NEW p \in Pools, NEW o \in Outcome(p), PQexec(p, o)
  PROVE  /\ proc = "running" /\ executed = returned /\ returned \in Nat
         /\ given' \in Nat /\ executed' = IF o.run THEN returned + 1 ELSE returned
         /\ PGconn_' \in [Pools -> {"unset", "refused", "up", "down"}]
BY DEF PQexec, IInv, TypeOK, OnlyTheLastIsInDoubt

LEMMA ExcutePreserves ==
  ASSUME IInv, NEW p \in Pools, excuteSQL(p) \/ excuteQuery(p)
  PROVE  IInv'
<1>1. CASE excuteSQL(p)
  <2> PICK o \in Outcome(p) :
        /\ PQexec(p, o)
        /\ IF Succeeds(o, "command")
           THEN returned' = returned + 1 /\ proc' = proc
           ELSE returned' = returned /\ proc' = "ended"
        /\ UNCHANGED cursorVars
    BY <1>1 DEF excuteSQL
  <2>1. Succeeds(o, "command") => o.run
    BY OutcomeIsExecuted DEF Succeeds
  <2>2. TypeOK'
    BY PQexecCounts DEF IInv, TypeOK, cursorVars
  <2>3. OnlyTheLastIsInDoubt'
    BY PQexecCounts, <2>1 DEF OnlyTheLastIsInDoubt
  <2>4. Cursor'
    BY PQexecCounts DEF IInv, Cursor, cursorVars
  <2>5. QED
    BY <2>2, <2>3, <2>4 DEF IInv
<1>2. CASE excuteQuery(p)
  <2> PICK o \in Outcome(p) :
        /\ PQexec(p, o)
        /\ IF Succeeds(o, "tuples")
           THEN /\ returned' = returned + 1 /\ proc' = proc
                /\ \E n \in 0 .. MaxRows : iMaxRow' = n
                /\ result' = TRUE /\ iCurrentRow' = 0 /\ said' = "nothing" /\ offered' = {}
           ELSE returned' = returned /\ proc' = "ended" /\ UNCHANGED cursorVars
    BY <1>2 DEF excuteQuery
  <2>1. Succeeds(o, "tuples") => o.run
    BY OutcomeIsExecuted DEF Succeeds
  <2>2. TypeOK'
    <3>1. CASE Succeeds(o, "tuples")
      <4>1. PICK n \in 0 .. MaxRows : iMaxRow' = n
        BY <3>1
      <4>2. iMaxRow' \in Nat
        BY <4>1, BoundsAssumption
      <4>3. /\ result' = TRUE /\ iCurrentRow' = 0 /\ said' = "nothing" /\ offered' = {}
            /\ returned' = returned + 1 /\ proc' = proc
        BY <3>1
      <4>4. executed' \in Nat
        BY PQexecCounts
      <4>5. QED
        BY PQexecCounts, <4>2, <4>3, <4>4 DEF TypeOK
    <3>2. CASE ~Succeeds(o, "tuples")
      <4>1. UNCHANGED cursorVars /\ returned' = returned /\ proc' = "ended"
        BY <3>2
      <4>2. executed' \in Nat
        BY PQexecCounts
      <4>3. QED
        BY PQexecCounts, <4>1, <4>2 DEF IInv, TypeOK, cursorVars
    <3>3. QED
      BY <3>1, <3>2
  <2>3. OnlyTheLastIsInDoubt'
    BY PQexecCounts, <2>1 DEF OnlyTheLastIsInDoubt
  <2>4. Cursor'
    BY PQexecCounts DEF IInv, Cursor, cursorVars
  <2>5. QED
    BY <2>2, <2>3, <2>4 DEF IInv
<1>3. QED
  BY <1>1, <1>2

(* next moves on by one row, and says yes exactly for the rows there are.   *)
LEMMA NextPreserves == IInv /\ next => IInv'
<1> SUFFICES ASSUME IInv, next PROVE IInv'
  OBVIOUS
<1>1. /\ proc = "running" /\ iCurrentRow \in Nat /\ iMaxRow \in Nat
      /\ iCurrentRow' = iCurrentRow + 1
      /\ said' = IF HasNext THEN "yes" ELSE "no"
      /\ offered' = IF HasNext THEN offered \cup {iCurrentRow + 1} ELSE offered
      /\ UNCHANGED <<proc, PGconn_, given, executed, returned, result, iMaxRow>>
  BY DEF next, IInv, TypeOK
<1>2. TypeOK'
  <2>1. offered' \subseteq 0 .. iMaxRow - 1
    BY <1>1 DEF IInv, TypeOK, HasNext
  <2>2. QED
    BY <1>1, <2>1 DEF IInv, TypeOK
<1>3. OnlyTheLastIsInDoubt'
  BY <1>1 DEF IInv, OnlyTheLastIsInDoubt
<1>4. Cursor'
  <2>1. CASE said = "no"
    BY <1>1, <2>1 DEF IInv, Cursor, HasNext
  <2>2. CASE said # "no"
    <3>1. offered = 1 .. iCurrentRow
      <4>1. CASE said = "nothing"
        <5>1. offered = {} /\ iCurrentRow = 0
          BY <4>1 DEF IInv, Cursor
        <5>2. 1 .. 0 = {}
          OBVIOUS
        <5>3. QED
          BY <5>1, <5>2
      <4>2. CASE said = "yes"
        BY <4>2 DEF IInv, Cursor
      <4>3. QED
        BY <2>2, <4>1, <4>2 DEF IInv, TypeOK
    <3>2. CASE HasNext
      <4>1. offered' = 1 .. iCurrentRow'
        BY <1>1, <3>1, <3>2
      <4>2. QED
        BY <1>1, <3>2, <4>1 DEF Cursor, HasNext
    <3>3. CASE ~HasNext
      <4>1. iCurrentRow + 1 >= iMaxRow
        BY <1>1, <3>3 DEF HasNext
      <4>2. offered = 1 .. iMaxRow - 1
        BY <1>1, <2>2, <3>1, <4>1 DEF IInv, TypeOK, Cursor
      <4>3. QED
        BY <1>1, <3>3, <4>1, <4>2 DEF Cursor
    <3>4. QED
      BY <3>2, <3>3
  <2>3. QED
    BY <2>1, <2>2
<1>5. QED
  BY <1>2, <1>3, <1>4 DEF IInv

(* The inductive invariant holds in every reachable state. *)
THEOREM Invariance == Spec => []IInv
<1>1. IInv /\ [Next]_vars => IInv'
  <2> SUFFICES ASSUME IInv, [Next]_vars PROVE IInv'
    OBVIOUS
  <2>1. CASE Connect \/ Finish \/ Get \/ \E p \in Pools : Breaks(p)
    BY <2>1, OtherStepsPreserve
  <2>2. CASE \E p \in Pools : excuteSQL(p) \/ excuteQuery(p)
    BY <2>2, ExcutePreserves
  <2>3. CASE next
    BY <2>3, NextPreserves
  <2>4. CASE UNCHANGED vars
    BY <2>4 DEF vars, cursorVars, IInv, TypeOK, OnlyTheLastIsInDoubt, Cursor
  <2>5. QED
    BY <2>1, <2>2, <2>3, <2>4 DEF Next
<1>2. QED
  BY <1>1, InitEstablishes, PTL DEF Spec

(* The proxy's variables keep their types: next offers only rows there are. *)
THEOREM TypeCorrect == Spec => []TypeOK
<1>1. IInv => TypeOK
  BY DEF IInv
<1>2. QED
  BY <1>1, Invariance, PTL

(* The application knows what was executed, but for the last statement, and *)
(* only if that one threw.                                                  *)
THEOREM DoubtIsBounded == Spec => []OnlyTheLastIsInDoubt
<1>1. IInv => OnlyTheLastIsInDoubt
  BY DEF IInv
<1>2. QED
  BY <1>1, Invariance, PTL

(* while (next()) sees every row but row 0, and reads none that is not there. *)
THEOREM LoopsSkipRowZero == Spec => []LoopSkipsOnlyRowZero
<1>1. IInv => LoopSkipsOnlyRowZero
  <2> SUFFICES ASSUME IInv PROVE LoopSkipsOnlyRowZero
    OBVIOUS
  <2>1. iMaxRow \in Nat /\ iCurrentRow \in Nat
    BY DEF IInv, TypeOK
  <2>2. QED
    BY <2>1 DEF IInv, Cursor, LoopSkipsOnlyRowZero
<1>2. QED
  BY <1>1, Invariance, PTL
=============================================================================
