------------------------ MODULE RequestParserProofs ------------------------
(***************************************************************************)
(* What RequestParser promises, for blocks of any length and any number of *)
(* blocks on one connection.  Everything rests on IInv: the properties are *)
(* not inductive, since nothing in them ties the verdict to the part of    *)
(* the delimiter already read.                                             *)
(***************************************************************************)
EXTENDS RequestParser, TLAPS

(* Init establishes the inductive invariant: a new parser in method_start   *)
(* has matched none of the delimiter.                                       *)
LEMMA InitEstablishes == Init => IInv
<1> SUFFICES ASSUME Init PROVE IInv
  OBVIOUS
<1>1. TypeOK
  <2>1. versionSet \in BOOLEAN /\ fresh \in BOOLEAN
    BY Zenon DEF Init
  <2>2. headers \in 0..MaxHeaders /\ matched \in 0..4
    BY MaxHeadersAssumption DEF Init
  <2>3. m_state_ \in State /\ result \in {"indeterminate", "true", "false"}
    BY DEF Init, State
  <2>4. QED
    BY <2>1, <2>2, <2>3 DEF TypeOK
<1>2. BackIsDefined
  BY DEF Init, BackIsDefined
<1>3. StateTellsProgress
  BY DEF Init, StateTellsProgress, MatchedIn, AfterVersion
<1>4. QED
  BY <1>1, <1>2, <1>3 DEF IInv

(* A byte that moves a parser still reading its first block leaves the      *)
(* state in step with the delimiter search of async_read_until.             *)
LEMMA AdvanceKeepsStep ==
  ASSUME NEW s, NEW b \in Byte, NEW t, Goes(s, b, t)
  PROVE  MatchAfter(MatchedIn(s), b) = MatchedIn(t)
<1>1. CASE MethodAndUri(s, b, t)
  BY <1>1 DEF MethodAndUri, MatchAfter, MatchedIn, Byte, IsToken, is_ctl, is_char, is_tspecial
<1>2. CASE Version(s, b, t)
  BY <1>2 DEF Version, MatchAfter, MatchedIn, Byte, is_digit
<1>3. CASE HeaderLines(s, b, t)
  BY <1>3 DEF HeaderLines, MatchAfter, MatchedIn, Byte, IsToken, is_ctl, is_char, is_tspecial
<1>4. QED
  BY <1>1, <1>2, <1>3 DEF Goes

(* The delimiter search stays within the four bytes of the delimiter.       *)
LEMMA MatchAfterType ==
  ASSUME NEW n \in 0..4, NEW b, n # 4
  PROVE  MatchAfter(n, b) \in 0..4
BY DEF MatchAfter

(* A block is complete only where the first block's parser accepts: from    *)
(* any state, the byte that completes the delimiter is the LF the parser    *)
(* accepts on.                                                              *)
LEMMA OnlyTheLastLineFeed ==
  ASSUME NEW s, NEW b, MatchAfter(MatchedIn(s), b) = 4
  PROVE  Accepts(s, b)
BY DEF MatchAfter, MatchedIn, Accepts

(* No case of consume leaves expecting_newline_3. *)
LEMMA NoWayOn ==
  ASSUME NEW b, NEW t
  PROVE  ~Goes("expecting_newline_3", b, t)
BY DEF Goes, MethodAndUri, Version, HeaderLines

(* Every step of the parser preserves the inductive invariant. *)
LEMMA StepPreserves == IInv /\ [Next]_vars => IInv'
<1> SUFFICES ASSUME IInv, [Next]_vars PROVE IInv'
  OBVIOUS
<1> USE DEF IInv
<1>1. ASSUME NEW b \in Byte, Advance(b) PROVE IInv'
  <2> PICK t \in State : /\ Goes(m_state_, b, t)
                         /\ m_state_' = t
                         /\ IF m_state_ = "header_line_start" /\ t = "header_name"
                            THEN headers < MaxHeaders /\ headers' = headers + 1
                            ELSE headers' = headers
    BY <1>1 DEF Advance
  <2>1. /\ result = "indeterminate" /\ result' = result
        /\ matched # 4 /\ matched' = MatchAfter(matched, b)
        /\ fresh' = fresh
        /\ versionSet' = (versionSet \/ m_state_ = "http_version_slash")
    BY <1>1 DEF Advance, Feeding, BlockComplete
  <2>2. fresh
    BY <2>1, NoWayOn DEF StateTellsProgress
  <2>3. TypeOK'
    BY <2>1, MatchAfterType, MaxHeadersAssumption DEF TypeOK
  <2>4. BackIsDefined'
    <3>1. headers' >= headers /\ headers \in Nat
      BY MaxHeadersAssumption DEF TypeOK
    <3>2. CASE MethodAndUri(m_state_, b, t)
      BY <3>2 DEF MethodAndUri, BackIsDefined
    <3>3. CASE Version(m_state_, b, t)
      BY <3>3 DEF Version, BackIsDefined
    <3>4. CASE HeaderLines(m_state_, b, t)
      BY <3>1, <3>4 DEF HeaderLines, BackIsDefined
    <3>5. QED
      BY <3>2, <3>3, <3>4 DEF Goes
  <2>5. matched' = MatchedIn(m_state_')
    BY <2>1, <2>2, AdvanceKeepsStep DEF StateTellsProgress
  <2>6. m_state_' \in AfterVersion => versionSet'
    BY <2>1 DEF StateTellsProgress, AfterVersion, Goes, MethodAndUri, Version, HeaderLines
  <2>7. StateTellsProgress'
    BY <2>1, <2>2, <2>5, <2>6 DEF StateTellsProgress
  <2>8. QED
    BY <2>3, <2>4, <2>7
<1>2. ASSUME NEW b \in Byte, Decide(b) PROVE IInv'
  <2>1. /\ result = "indeterminate" /\ matched # 4
        /\ matched' = MatchAfter(matched, b) /\ fresh' = fresh
        /\ result' = IF Accepts(m_state_, b) THEN "true" ELSE "false"
        /\ UNCHANGED <<m_state_, headers, versionSet>>
    BY <1>2 DEF Decide, Feeding, BlockComplete
  <2>2. TypeOK'
    BY <2>1, MatchAfterType DEF TypeOK
  <2>3. BackIsDefined'
    BY <2>1 DEF BackIsDefined
  <2>4. fresh /\ result' = "true" => matched' = 4
    BY <2>1 DEF StateTellsProgress, Accepts, MatchedIn, MatchAfter
  <2>5. StateTellsProgress'
    BY <2>1, <2>4 DEF StateTellsProgress, Accepts
  <2>6. QED
    BY <2>2, <2>3, <2>5
<1>3. CASE NextBlock
  <2>1. TypeOK' /\ BackIsDefined'
    BY <1>3 DEF NextBlock, TypeOK, BackIsDefined
  <2>2. StateTellsProgress'
    BY <1>3 DEF NextBlock, StateTellsProgress
  <2>3. QED
    BY <2>1, <2>2
<1>4. CASE UNCHANGED vars
  BY <1>4 DEF vars, TypeOK, BackIsDefined, StateTellsProgress, MatchedIn
<1>5. QED
  BY <1>1, <1>2, <1>3, <1>4 DEF Next

(* The inductive invariant holds in every reachable state. *)
THEOREM Invariance == Spec => []IInv
<1>1. QED
  BY InitEstablishes, StepPreserves, PTL DEF Spec

(* The parser's variables keep their types. *)
THEOREM TypeCorrect == Spec => []TypeOK
<1>1. IInv => TypeOK
  BY DEF IInv
<1>2. QED
  BY <1>1, Invariance, PTL

(* headers.back() is never taken of an empty vector. *)
THEOREM BackAlwaysDefined == Spec => []BackIsDefined
<1>1. IInv => BackIsDefined
  BY DEF IInv
<1>2. QED
  BY <1>1, Invariance, PTL

(* A first block that is accepted has been read to its last byte, and the   *)
(* end of a block always finds the parser decided: indeterminate never      *)
(* reaches the test of handle_read_headers that would not stop on it.       *)
THEOREM VerdictsAtEndOfBlock == Spec => []VerdictAtEndOfBlock
<1>1. IInv => VerdictAtEndOfBlock
  BY DEF IInv, StateTellsProgress, MatchedIn, VerdictAtEndOfBlock, BlockComplete
<1>2. QED
  BY <1>1, Invariance, PTL

(* The version printed in a response has been assigned. *)
THEOREM VersionAlwaysKnown == Spec => []VersionIsKnown
<1>1. IInv => VersionIsKnown
  BY DEF IInv, StateTellsProgress, VersionIsKnown, AfterVersion
<1>2. QED
  BY <1>1, Invariance, PTL

(* Blocks after the first never change the parser or the request. *)
THEOREM LaterBlocksAreInert == Spec => LaterBlocksLeaveRequest
<1>1. IInv /\ [Next]_vars => [~fresh => UNCHANGED <<m_state_, headers, versionSet>>]_vars
  <2> SUFFICES ASSUME IInv, ~fresh, Next
               PROVE  UNCHANGED <<m_state_, headers, versionSet>>
    BY DEF vars
  <2>1. m_state_ = "expecting_newline_3"
    BY DEF IInv, StateTellsProgress
  <2>2. ASSUME NEW b \in Byte, Advance(b) PROVE FALSE
    BY <2>1, <2>2, NoWayOn DEF Advance
  <2>3. QED
    BY <2>2 DEF Next, NextBlock, Decide
<1>2. QED
  BY <1>1, Invariance, PTL DEF Spec, LaterBlocksLeaveRequest

(* A later block has its verdict with its first byte, and is accepted if    *)
(* and only if that is a line feed: this is what HttpConnection's Accepted  *)
(* takes from here.                                                         *)
LaterBlocksAreDecidedAtOnce ==
  [][~fresh /\ result = "indeterminate" =>
       \E b \in Byte : Decide(b) /\ (result' = "true" <=> b = "LF")]_vars

THEOREM LaterBlocksTakeALineFeed == Spec => LaterBlocksAreDecidedAtOnce
<1>1. ASSUME IInv, Next, ~fresh, result = "indeterminate"
      PROVE  \E b \in Byte : Decide(b) /\ (result' = "true" <=> b = "LF")
  <2>1. m_state_ = "expecting_newline_3"
    BY <1>1 DEF IInv, StateTellsProgress
  <2>2. PICK b \in Byte : Decide(b)
    BY <1>1, <2>1, NoWayOn DEF Next, NextBlock, Advance
  <2>3. result' = "true" <=> b = "LF"
    BY <2>1, <2>2 DEF Decide, Accepts
  <2>4. QED
    BY <2>2, <2>3
<1>2. IInv /\ [Next]_vars
        => [~fresh /\ result = "indeterminate" =>
              \E b \in Byte : Decide(b) /\ (result' = "true" <=> b = "LF")]_vars
  BY <1>1
<1>3. QED
  BY <1>2, Invariance, PTL DEF Spec, LaterBlocksAreDecidedAtOnce
=============================================================================
