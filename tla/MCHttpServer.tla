---------------------------- MODULE MCHttpServer ----------------------------
(* Instances of HttpServer for TLC. *)
EXTENDS HttpServer, TLC

CONSTANTS c1, c2

Number(name, n)  == [name |-> name, value |-> [text |-> "number", number |-> n]]
Text(name, text) == [name |-> name, value |-> [text |-> text, number |-> 0]]

KeepIt == Text("connection", "keep-alive")
DropIt == Text("connection", "other")
NoCare == Text("other", "other")
Two    == Number("content-length", 2)

HeadBlock(form, post, uri, headers, body) ==
  [form |-> form, post |-> post, uri |-> uri, headers |-> headers, body |-> body]

Get         == HeadBlock("good", FALSE, "/a", <<>>, 0)
KeptGet     == HeadBlock("good", FALSE, "/a", <<NoCare, KeepIt>>, 0)
CapitalGet  == HeadBlock("good", FALSE, "/A", <<KeepIt, DropIt>>, 0)
Replay      == HeadBlock("lf", FALSE, "/a", <<KeepIt>>, 0)
BadBlock    == HeadBlock("bad", FALSE, "/a", <<>>, 0)
Post        == HeadBlock("good", TRUE, "/a", <<Two, Number("content-length", 1)>>, 2)
ShortPost   == HeadBlock("good", TRUE, "/a", <<Two, KeepIt>>, 1)
BlankPost   == HeadBlock("good", TRUE, "/a", <<Text("content-length", "blanks"), KeepIt>>, 1)
HugePost    == HeadBlock("good", TRUE, "/a", <<Number("content-length", 66536)>>, 0)
MisledPost  == HeadBlock("good", TRUE, "/a",
                         <<Text("connection+", "other"), Number("content-length+", 1), Two>>, 2)
(* -131070 is 2 modulo 131072. *)
WrappedPost == HeadBlock("good", TRUE, "/a", <<KeepIt, Number("content-length", -131070)>>, 2)

OneConn  == {c1}
TwoConns == {c1, c2}
Swaps    == Permutations(TwoConns)

AllHeads  == {Get, KeptGet, CapitalGet, Replay, BadBlock, Post, ShortPost, BlankPost,
              HugePost, MisledPost, WrappedPost}
PairHeads == {Get, KeptGet, Post}

(* boost::to_lower on the targets of the instances. *)
LowerCase == [u \in Uris |-> IF u = "/A" THEN "/a" ELSE u]
=============================================================================
