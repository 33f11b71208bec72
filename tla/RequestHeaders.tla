--------------------------- MODULE RequestHeaders ---------------------------
(***************************************************************************)
(* request::operator[] and request::normalise (http_helper.hpp): what the  *)
(* two headers the server acts on come to.  Letter case plays no part in   *)
(* them: names are compared without it, and the value of connection is     *)
(* lowered first.  (That of the target does: HttpConnection.)  A name is   *)
(* one of the two keys, a longer name that starts with one (the "+"        *)
(* names), or another; a value is a number, or not.                        *)
(***************************************************************************)
EXTENDS Integers, Sequences

CONSTANT ULongMax    \* the largest boost::uint64_t

ASSUME ULongMaxAssumption == ULongMax \in Nat

Header ==
  [name  : {"content-length", "content-length+", "connection", "connection+", "other"},
   value : [text : {"empty", "blanks", "number", "keep-alive", "other"}, number : Int]]

(* strncasecmp over the length of the key alone. *)
Matches(name, key) ==
  \/ name = key
  \/ name = "content-length+" /\ key = "content-length"
  \/ name = "connection+" /\ key = "connection"

Empty == [text |-> "empty", number |-> 0]

Hits(hs, key) == {i \in 1 .. Len(hs) : Matches(hs[i].name, key)}

ValueOf_Last(hs, key) ==
  IF Hits(hs, key) = {} THEN Empty
  ELSE hs[CHOOSE i \in Hits(hs, key) : \A j \in Hits(hs, key) : j <= i].value

(* operator[]: the value of the first header that matches, or nothing. *)
ValueOf(hs, key) ==
  IF Hits(hs, key) = {} THEN Empty
  ELSE hs[CHOOSE i \in Hits(hs, key) : \A j \in Hits(hs, key) : i <= j].value

(* istream >> uint64_t: text gives 0, too large a number the largest, and a *)
(* minus sign negates modulo the width.                                     *)
Extracted(v) ==
  IF v.text # "number" THEN 0
  ELSE IF v.number > ULongMax \/ v.number < -ULongMax THEN ULongMax
  ELSE IF v.number < 0 THEN ULongMax + 1 + v.number
  ELSE v.number

Absent == -1

(* What normalise assigns to content_length: nothing if there is no value,  *)
(* or one of blanks, on which operator >> fails before it extracts.         *)
ContentLength(hs) ==
  LET v == ValueOf(hs, "content-length") IN
  IF v.text \in {"empty", "blanks"} THEN Absent ELSE Extracted(v)

(* What normalise assigns to keep_alive. *)
KeepAlive(hs) == ValueOf(hs, "connection").text = "keep-alive"
=============================================================================
