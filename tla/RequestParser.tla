--------------------------- MODULE RequestParser ---------------------------
(***************************************************************************)
(* request_parser (http_helper.hpp): the byte machine that decides whether *)
(* a header block is an HTTP request, and what it leaves in the request.   *)
(*                                                                         *)
(* A block is what async_read_until hands to handle_read_headers: the      *)
(* bytes up to and including the first CR LF CR LF of the receive buffer.  *)
(* parse feeds them to consume one at a time and stops at the first        *)
(* verdict.  On a kept-alive connection the next block goes to the same    *)
(* parser object: nothing puts m_state_ back to method_start (reset has no *)
(* caller), and nothing empties the request.                               *)
(*                                                                         *)
(* Bytes are named by the class the parser distinguishes.  Of the request, *)
(* the number of headers and whether the two version fields were assigned  *)
(* are kept; text is not.                                                  *)
(***************************************************************************)
EXTENDS Naturals

CONSTANT MaxHeaders        \* bound: header lines of one request

ASSUME MaxHeadersAssumption == MaxHeaders \in Nat

VARIABLES
  m_state_,       \* the parser's state, request_parser::m_state_
  result,         \* verdict of parse() on the current block so far
  headers,        \* request::headers.size()
  versionSet,     \* http_version_major and _minor have been assigned
  matched,        \* how much of CR LF CR LF the block's tail matches
  fresh           \* the current block began in method_start

vars == <<m_state_, result, headers, versionSet, matched, fresh>>

-----------------------------------------------------------------------------
(* One name per class of bytes; "a" stands for every other token character, *)
(* "?" for the separators with no role of their own, "high" for the bytes   *)
(* over 127, which a signed char makes negative.                            *)
Byte == {"SP", "HT", "CR", "LF", ":", "/", ".", "0", "H", "T", "P",
         "a", "?", "ctl", "high"}

is_char(b)     == b # "high"
is_ctl(b)      == b \in {"HT", "CR", "LF", "ctl"}
is_tspecial(b) == b \in {"SP", "HT", ":", "/", "?"}
is_digit(b)    == b = "0"

(* The test that guards every byte of a method and of a header name. *)
IsToken(b) == is_char(b) /\ ~is_ctl(b) /\ ~is_tspecial(b)

(* The definitions whose names say what went wrong (..._VersionOptional and *)
(* the like) are faulty variants of the one they precede; the runs use them *)
(* to show that the properties below would notice.                          *)

(* The enumerators of request_parser::state. *)
State == {"method_start", "method", "uri_start", "uri",
          "http_version_h", "http_version_t_1", "http_version_t_2",
          "http_version_p", "http_version_slash",
          "http_version_major_start", "http_version_major",
          "http_version_minor_start", "http_version_minor",
          "expecting_newline_1", "header_line_start", "header_lws",
          "header_name", "space_before_header_value", "header_value",
          "expecting_newline_2", "expecting_newline_3"}

-----------------------------------------------------------------------------
(* s goes to t on byte b without a verdict; a byte no case mentions is      *)
(* rejected.  The three relations follow the cases of consume.              *)
MethodAndUri_VersionOptional(s, b, t) ==
  \/ s = "method_start" /\ IsToken(b) /\ t = "method"
  \/ s = "method" /\ b = "SP" /\ t = "uri"
  \/ s = "method" /\ IsToken(b) /\ t = "method"
  \/ s = "uri" /\ b = "SP" /\ t = "http_version_h"
  \/ s = "uri" /\ b = "CR" /\ t = "expecting_newline_1"
  \/ s = "uri" /\ b # "SP" /\ ~is_ctl(b) /\ t = "uri"

MethodAndUri(s, b, t) ==
  \/ s = "method_start" /\ IsToken(b) /\ t = "method"
  \/ s = "method" /\ b = "SP" /\ t = "uri"
  \/ s = "method" /\ IsToken(b) /\ t = "method"
  \/ s = "uri_start" /\ ~is_ctl(b) /\ t = "uri"
  \/ s = "uri" /\ b = "SP" /\ t = "http_version_h"
  \/ s = "uri" /\ b # "SP" /\ ~is_ctl(b) /\ t = "uri"

Version(s, b, t) ==
  \/ s = "http_version_h" /\ b = "H" /\ t = "http_version_t_1"
  \/ s = "http_version_t_1" /\ b = "T" /\ t = "http_version_t_2"
  \/ s = "http_version_t_2" /\ b = "T" /\ t = "http_version_p"
  \/ s = "http_version_p" /\ b = "P" /\ t = "http_version_slash"
  \/ s = "http_version_slash" /\ b = "/" /\ t = "http_version_major_start"
  \/ s = "http_version_major_start" /\ is_digit(b) /\ t = "http_version_major"
  \/ s = "http_version_major" /\ is_digit(b) /\ t = "http_version_major"
  \/ s = "http_version_major" /\ b = "." /\ t = "http_version_minor_start"
  \/ s = "http_version_minor_start" /\ is_digit(b) /\ t = "http_version_minor"
  \/ s = "http_version_minor" /\ is_digit(b) /\ t = "http_version_minor"
  \/ s = "http_version_minor" /\ b = "CR" /\ t = "expecting_newline_1"
  \/ s = "expecting_newline_1" /\ b = "LF" /\ t = "header_line_start"

HeaderLines_AnyContinuation(s, b, t) ==
  \/ s = "header_line_start" /\ b = "CR" /\ t = "expecting_newline_3"
  \/ s = "header_line_start" /\ b \in {"SP", "HT"} /\ t = "header_lws"
  \/ s = "header_line_start" /\ IsToken(b) /\ t = "header_name"
  \/ s \in {"header_lws", "header_value"} /\ b = "CR" /\ t = "expecting_newline_2"
  \/ s = "header_lws" /\ b \in {"SP", "HT"} /\ t = "header_lws"
  \/ s = "header_lws" /\ b # "SP" /\ ~is_ctl(b) /\ t = "header_value"
  \/ s = "expecting_newline_2" /\ b = "LF" /\ t = "header_line_start"

(* A line that starts with white space continues the previous header, so it *)
(* is only legal once there is one: headers.back() is dereferenced.         *)
HeaderLines(s, b, t) ==
  \/ s = "header_line_start" /\ b = "CR" /\ t = "expecting_newline_3"
  \/ s = "header_line_start" /\ headers > 0 /\ b \in {"SP", "HT"} /\ t = "header_lws"
  \/ s = "header_line_start" /\ IsToken(b) /\ t = "header_name"
  \/ s \in {"header_lws", "header_value"} /\ b = "CR" /\ t = "expecting_newline_2"
  \/ s = "header_lws" /\ b \in {"SP", "HT"} /\ t = "header_lws"
  \/ s = "header_lws" /\ b # "SP" /\ ~is_ctl(b) /\ t = "header_value"
  \/ s = "header_name" /\ b = ":" /\ t = "space_before_header_value"
  \/ s = "header_name" /\ IsToken(b) /\ t = "header_name"
  \/ s = "space_before_header_value" /\ b = "SP" /\ t = "header_value"
  \/ s = "header_value" /\ ~is_ctl(b) /\ t = "header_value"
  \/ s = "expecting_newline_2" /\ b = "LF" /\ t = "header_line_start"

Goes(s, b, t) == MethodAndUri(s, b, t) \/ Version(s, b, t) \/ HeaderLines(s, b, t)

(* A state and byte that consume answers with indeterminate. *)
Continues(s, b) == \E t \in State : Goes(s, b, t)

Accepts_BareLineFeed(s, b) ==
  s \in {"header_line_start", "expecting_newline_3"} /\ b = "LF"

(* The only byte that yields true: the LF of the empty line. *)
Accepts(s, b) == s = "expecting_newline_3" /\ b = "LF"

-----------------------------------------------------------------------------
(* The search async_read_until makes for the delimiter, one byte at a time. *)
MatchAfter(n, b) ==
  IF b = "CR" THEN (IF n = 2 THEN 3 ELSE 1)
  ELSE IF b = "LF" /\ n \in {1, 3} THEN n + 1
  ELSE 0

BlockComplete == matched = 4

Init_NoConstructor ==
  /\ m_state_ \in {"method_start", "uninitialised"}
  /\ result = "indeterminate"
  /\ headers = 0
  /\ versionSet = FALSE
  /\ matched = 0
  /\ fresh = TRUE

Init ==
  /\ m_state_ = "method_start"
  /\ result = "indeterminate"
  /\ headers = 0
  /\ versionSet = FALSE
  /\ matched = 0
  /\ fresh = TRUE

(* The loop of parse hands the next byte of the block to consume. *)
Feeding(b) ==
  /\ result = "indeterminate"
  /\ ~BlockComplete
  /\ matched' = MatchAfter(matched, b)
  /\ fresh' = fresh

(* consume moves on and asks for more. *)
Advance(b) ==
  /\ Feeding(b)
  /\ \E t \in State :
       /\ Goes(m_state_, b, t)
       /\ m_state_' = t
       /\ IF m_state_ = "header_line_start" /\ t = "header_name"
          THEN headers < MaxHeaders /\ headers' = headers + 1
          ELSE headers' = headers
  /\ versionSet' = (versionSet \/ m_state_ = "http_version_slash")
  /\ result' = result

Decide_RewindsToHeaders(b) ==
  /\ Feeding(b)
  /\ ~Continues(m_state_, b)
  /\ result' = IF Accepts(m_state_, b) THEN "true" ELSE "false"
  /\ m_state_' = IF Accepts(m_state_, b) THEN "header_line_start" ELSE m_state_
  /\ UNCHANGED <<headers, versionSet>>

(* consume returns true or false; m_state_ stays where it is. *)
Decide(b) ==
  /\ Feeding(b)
  /\ ~Continues(m_state_, b)
  /\ result' = IF Accepts(m_state_, b) THEN "true" ELSE "false"
  /\ UNCHANGED <<m_state_, headers, versionSet>>

(* handle_read_headers on the next block of a kept-alive connection: a new  *)
(* call of parse on the same parser and the same request.                   *)
NextBlock ==
  /\ result = "true"
  /\ result' = "indeterminate"
  /\ matched' = 0
  /\ fresh' = (m_state_ = "method_start")
  /\ UNCHANGED <<m_state_, headers, versionSet>>

Next == NextBlock \/ \E b \in Byte : Advance(b) \/ Decide(b)

Spec == Init /\ [][Next]_vars

-----------------------------------------------------------------------------
(* Types of the parser's state. *)
TypeOK ==
  /\ m_state_ \in State
  /\ result \in {"indeterminate", "true", "false"}
  /\ headers \in 0..MaxHeaders
  /\ versionSet \in BOOLEAN
  /\ matched \in 0..4
  /\ fresh \in BOOLEAN

(* The cases of consume that write through headers.back() are reached only *)
(* when there is a header: back() of an empty vector is undefined.         *)
BackIsDefined ==
  m_state_ \in {"header_lws", "header_name", "space_before_header_value",
                "header_value"} => headers > 0

(* A first block is accepted at its very last byte and no sooner: parse      *)
(* leaves no byte of it unread, so what stays in the receive buffer is the   *)
(* body.  And parse has an answer by the end of every block: the test of     *)
(* handle_read_headers, which compares a tribool with indeterminate and so   *)
(* never stops on it, is not relied on.                                      *)
VerdictAtEndOfBlock ==
  /\ fresh /\ result = "true" => BlockComplete
  /\ BlockComplete => result # "indeterminate"

(* write_response prints the version of a request that was accepted: both  *)
(* fields, which request leaves uninitialised, have been assigned by then. *)
VersionIsKnown == result = "true" => versionSet

(* What the machine maintains: while a first block is undecided the state   *)
(* tells how much of the delimiter has been matched; an accepting parser is *)
(* in expecting_newline_3, and every later block starts there, with nothing *)
(* read.  The properties above follow from it.                              *)
MatchedIn(s) ==
  IF s = "expecting_newline_3" THEN 3
  ELSE IF s = "header_line_start" THEN 2
  ELSE IF s \in {"expecting_newline_1", "expecting_newline_2"} THEN 1
  ELSE 0

AfterVersion == {"http_version_major_start", "http_version_major",
                 "http_version_minor_start", "http_version_minor",
                 "expecting_newline_1", "header_line_start", "header_lws",
                 "header_name", "space_before_header_value", "header_value",
                 "expecting_newline_2", "expecting_newline_3"}

StateTellsProgress ==
  /\ fresh /\ result = "indeterminate" => matched = MatchedIn(m_state_)
  /\ fresh /\ result = "true" => matched = 4
  /\ ~fresh /\ result = "indeterminate" => matched = 0
  /\ ~fresh \/ result = "true" => m_state_ = "expecting_newline_3"
  /\ m_state_ \in AfterVersion => versionSet

IInv == TypeOK /\ BackIsDefined /\ StateTellsProgress

(* The parser carries over to the next block in expecting_newline_3, so the *)
(* verdict on a later block is taken at its first byte: no byte of it moves *)
(* the parser or reaches the request, which stays that of the first block.  *)
LaterBlocksLeaveRequest ==
  [][~fresh => UNCHANGED <<m_state_, headers, versionSet>>]_vars

=============================================================================
