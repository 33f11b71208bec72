--------------------------- MODULE HttpConnection ---------------------------
(***************************************************************************)
(* http_connction and http_connection_manager: what the handlers of one    *)
(* connection do with the bytes its peer sends, and with the set of live   *)
(* connections they all share.  HttpServer adds the acceptor and the       *)
(* process around them.                                                    *)
(*                                                                         *)
(* All handlers run on the one thread that called io_service::run, so a    *)
(* handler is one step; what interleaves is the arrival of bytes, the      *)
(* completion of reads and writes, the handlers of other connections, and  *)
(* the calls of the application.                                           *)
(*                                                                         *)
(* A peer's byte stream is a sequence of header blocks and body bytes.  A  *)
(* header block is one symbol: a part of one is no different from nothing, *)
(* to a read that waits for its end.  m_recvBuffer_ is the part of the     *)
(* stream between two positions, used and got.                             *)
(***************************************************************************)
EXTENDS RequestHeaders, FiniteSets

CONSTANTS
  Conns,          \* connection objects (bound: connections ever accepted)
  Uris,           \* request targets, as they are spelled
  to_lower,       \* boost::to_lower on them
  Heads,          \* header blocks peers send, with the body sent after each
  Garbage,        \* what an uninitialised content_length may hold
  MaxRequests     \* bound: header blocks sent on one connection

ASSUME UrisAssumption ==
  /\ to_lower \in [Uris -> Uris]
  /\ \A u \in Uris : to_lower[to_lower[u]] = to_lower[u]

ASSUME HeadsAssumption ==
  /\ Heads \subseteq [form : {"good", "bad", "lf"}, post : BOOLEAN, uri : Uris,
                      headers : Seq(Header), body : Nat]
  /\ Garbage \subseteq Nat /\ Garbage # {}
  /\ MaxRequests \in Nat

VARIABLES
  m_callback_funcs_,        \* targets with a registered callback
  m_http_connection_ptrs_,  \* the connections the manager holds
  state,      \* of each socket: unused, accepted, open, closed (closed is m_abort)
  peer,       \* what the peer has done with its end
  stream,     \* everything the peer has sent
  got,        \* how much of it has reached m_recvBuffer_
  used,       \* how much of it has been taken out again
  read,       \* the outstanding read: none, headers, body
  need,       \* bytes the outstanding body read still waits for
  parser,     \* m_request_parser.m_state_ between two blocks
  m_request_, \* the fields of the request the handlers test
  calls,      \* history: the callbacks made, as positions in the stream
  owes,       \* answers the application has not yet given
  writing     \* outstanding writes

inputVars == <<peer, stream>>
readVars  == <<got, used, read, need>>
appVars   == <<calls, owes>>
connVars  == <<m_callback_funcs_, m_http_connection_ptrs_, state, peer, stream,
               got, used, read, need, parser, m_request_, calls, owes, writing>>

-----------------------------------------------------------------------------
BodyByte == [form |-> "byte"]
Token    == Heads \cup {BodyByte}
IsHead(t) == t.form # "byte"

NoUri == "empty"   \* the empty string

Request == [post : BOOLEAN, uri : Uris \cup {NoUri}, keep : BOOLEAN, content_length : Nat]

(* request has no constructor: the strings are empty, content_length and   *)
(* keep_alive hold anything (keep_alive is assigned before it is read).    *)
NewRequest(n) == [post |-> FALSE, uri |-> NoUri, keep |-> FALSE, content_length |-> n]

(* m_recvBuffer_ holds a delimiter: async_read_until can complete. *)
HasBlock(c) == \E i \in used[c] + 1 .. got[c] : IsHead(stream[c][i])

(* Where the first block in m_recvBuffer_ ends. *)
BlockEnd(c) ==
  CHOOSE i \in used[c] + 1 .. got[c] :
    /\ IsHead(stream[c][i])
    /\ \A j \in used[c] + 1 .. i - 1 : ~IsHead(stream[c][j])

(* The verdict of parse (RequestParser): a new parser takes a well-formed   *)
(* request; one left in expecting_newline_3 takes a block that starts with  *)
(* a line feed, and nothing else.                                           *)
Accepted(c) ==
  LET first == stream[c][used[c] + 1] IN
  \/ parser[c] = "method_start" /\ first.form = "good"
  \/ parser[c] = "expecting_newline_3" /\ first.form = "lf"

(* What normalise makes of each header block.  The method is lowered too:   *)
(* post says that it is post in any spelling.                               *)
Normalised == [h \in Heads |-> [uri    |-> to_lower[h.uri],
                                keep   |-> KeepAlive(h.headers),
                                length |-> ContentLength(h.headers)]]

(* The request after parse and normalise.  Only a new parser writes to it,  *)
(* and normalising it again changes nothing; without a length in the        *)
(* headers, content_length keeps what it held.                              *)
Parsed(c) ==
  LET h == stream[c][used[c] + 1]
      n == Normalised[h].length IN
  IF parser[c] = "method_start"
  THEN [post |-> h.post, uri |-> Normalised[h].uri, keep |-> Normalised[h].keep,
        content_length |-> IF n = Absent THEN m_request_[c].content_length ELSE n]
  ELSE m_request_[c]

BodyLimit == 66536
BadLength(n) == n = 0 \/ n >= BodyLimit

-----------------------------------------------------------------------------
(* http_connection_manager::start up to and including the insertion, and   *)
(* http_connction::start when set_option succeeds.                         *)
StartConnection(c) ==
  /\ m_http_connection_ptrs_' = m_http_connection_ptrs_ \cup {c}
  /\ state' = [state EXCEPT ![c] = "open"]
  /\ read' = [read EXCEPT ![c] = "headers"]

(* The definitions whose names say what went wrong (..._NotErased and the   *)
(* like) are faulty variants of the one they precede; the runs use them to  *)
(* show that HttpServer's properties would notice.                          *)
StopConnection_NotErased(c) ==
  /\ m_http_connection_ptrs_' = m_http_connection_ptrs_
  /\ state' = [state EXCEPT ![c] = "closed"]

(* http_connection_manager::stop: close the socket, forget the connection.  *)
(* Both have no effect the second time.                                     *)
StopConnection(c) ==
  /\ m_http_connection_ptrs_' = m_http_connection_ptrs_ \ {c}
  /\ state' = [state EXCEPT ![c] = "closed"]

(* http_connection_manager::stopAll. *)
StopAll ==
  /\ m_http_connection_ptrs_' = {}
  /\ state' = [c \in Conns |->
                 IF c \in m_http_connection_ptrs_ THEN "closed" ELSE state[c]]

Dispatch_NeverReadsOn(c, req, at, from, n) ==
  /\ used' = [used EXCEPT ![c] = from + n - 1]
  /\ m_request_' = [m_request_ EXCEPT ![c] = req]
  /\ read' = [read EXCEPT ![c] = "none"]
  /\ \/ /\ req.uri \in m_callback_funcs_
        /\ calls' = [calls EXCEPT ![c] = Append(@, [at |-> at, from |-> from, size |-> n])]
        /\ owes' = [owes EXCEPT ![c] = @ + 1]
        /\ UNCHANGED <<m_http_connection_ptrs_, state>>
     \/ /\ req.uri \notin m_callback_funcs_
        /\ StopConnection(c)
        /\ UNCHANGED appVars

(* http_server::handle_request and what its callers do with the answer: a   *)
(* callback registered for the lowered target gets the request with the n   *)
(* bytes of body from position from on; then the next header read is        *)
(* started for a kept-alive connection.  Without a callback the connection  *)
(* is dropped.                                                              *)
Dispatch(c, req, at, from, n) ==
  /\ used' = [used EXCEPT ![c] = from + n - 1]
  /\ m_request_' = [m_request_ EXCEPT ![c] = req]
  /\ \/ /\ req.uri \in m_callback_funcs_
        /\ calls' = [calls EXCEPT ![c] = Append(@, [at |-> at, from |-> from, size |-> n])]
        /\ owes' = [owes EXCEPT ![c] = @ + 1]
        /\ read' = [read EXCEPT ![c] = IF req.keep THEN "headers" ELSE "none"]
        /\ UNCHANGED <<m_http_connection_ptrs_, state>>
     \/ /\ req.uri \notin m_callback_funcs_
        /\ StopConnection(c)
        /\ read' = [read EXCEPT ![c] = "none"]
        /\ UNCHANGED appVars

-----------------------------------------------------------------------------
(* Steps of the peer and of the kernel below boost::asio.  What a peer does *)
(* after the server closed its end is never read and is left out.           *)
Connected(c) == state[c] \in {"accepted", "open"}

SentBlocks(c) == Cardinality({i \in 1 .. Len(stream[c]) : IsHead(stream[c][i])})

PeerSend(c, h) ==
  /\ Connected(c) /\ peer[c] = "open"
  /\ SentBlocks(c) < MaxRequests
  /\ stream' = [stream EXCEPT ![c] = @ \o <<h>> \o [i \in 1 .. h.body |-> BodyByte]]
  /\ UNCHANGED <<m_callback_funcs_, m_http_connection_ptrs_, state, peer, readVars,
                 parser, m_request_, appVars, writing>>

(* The peer shuts its end down, or the connection is reset. *)
PeerLeave(c, how) ==
  /\ Connected(c)
  /\ peer[c] = "open" \/ (peer[c] = "eof" /\ how = "reset")
  /\ peer' = [peer EXCEPT ![c] = how]
  /\ UNCHANGED <<m_callback_funcs_, m_http_connection_ptrs_, state, stream, readVars,
                 parser, m_request_, appVars, writing>>

(* What the outstanding read waits for is in m_recvBuffer_. *)
ReadSatisfied(c) ==
  \/ read[c] = "headers" /\ HasBlock(c)
  \/ read[c] = "body" /\ need[c] = 0

(* The outstanding read can only complete with an error code. *)
ReadError(c) ==
  /\ ~ReadSatisfied(c)
  /\ peer[c] = "reset" \/ (peer[c] = "eof" /\ got[c] = Len(stream[c]))

(* One read_some of the outstanding read.  A header read takes whatever has *)
(* arrived, a body read no more than it needs.                              *)
ReadSome(c, n) ==
  /\ state[c] = "open" /\ read[c] # "none" /\ ~ReadSatisfied(c)
  /\ peer[c] # "reset"
  /\ got[c] + n <= Len(stream[c])
  /\ got' = [got EXCEPT ![c] = @ + n]
  /\ \/ read[c] = "headers" /\ need' = need
     \/ read[c] = "body" /\ n <= need[c] /\ need' = [need EXCEPT ![c] = @ - n]
  /\ UNCHANGED <<m_callback_funcs_, m_http_connection_ptrs_, state, peer, stream, used,
                 read, parser, m_request_, appVars, writing>>

-----------------------------------------------------------------------------
HandleReadFailed_JustReturns(c) ==
  /\ read[c] # "none"
  /\ state[c] = "closed" \/ ReadError(c)
  /\ read' = [read EXCEPT ![c] = "none"]
  /\ UNCHANGED <<m_callback_funcs_, m_http_connection_ptrs_, state, peer, stream, got,
                 used, need, parser, m_request_, appVars, writing>>

(* handle_read_headers and handle_read_body called with an error code, or   *)
(* after m_abort was set.                                                   *)
HandleReadFailed(c) ==
  /\ read[c] # "none"
  /\ state[c] = "closed" \/ ReadError(c)
  /\ StopConnection(c)
  /\ read' = [read EXCEPT ![c] = "none"]
  /\ UNCHANGED <<m_callback_funcs_, peer, stream, got, used, need, parser,
                 m_request_, appVars, writing>>

HeadersArrived_IgnoresAbort(c) == read[c] = "headers" /\ HasBlock(c)

(* handle_read_headers with a block to parse. *)
HeadersArrived(c) == state[c] = "open" /\ read[c] = "headers" /\ HasBlock(c)

(* The parser says no, or a post has a length handle_read_headers refuses.  *)
(* What parse and normalise left in the parser and the request is not used  *)
(* again: every handler to come finds m_abort set.                          *)
HeadersRefused(c) ==
  /\ HeadersArrived(c)
  /\ ~Accepted(c) \/ (Parsed(c).post /\ BadLength(Parsed(c).content_length))
  /\ StopConnection(c)
  /\ read' = [read EXCEPT ![c] = "none"]
  /\ used' = [used EXCEPT ![c] = BlockEnd(c)]
  /\ UNCHANGED <<m_callback_funcs_, peer, stream, got, need, parser, m_request_,
                 appVars, writing>>

HeadersDispatched_ParsesAgain(c) ==
  /\ HeadersArrived(c) /\ Accepted(c) /\ ~Parsed(c).post
  /\ Dispatch(c, Parsed(c), BlockEnd(c), BlockEnd(c), 0)
  /\ UNCHANGED <<m_callback_funcs_, peer, stream, got, need, parser, writing>>

(* A request without a body goes straight to handle_request. *)
HeadersDispatched(c) ==
  /\ HeadersArrived(c) /\ Accepted(c) /\ ~Parsed(c).post
  /\ parser' = [parser EXCEPT ![c] = "expecting_newline_3"]
  /\ Dispatch(c, Parsed(c), BlockEnd(c), BlockEnd(c) + 1, 0)
  /\ UNCHANGED <<m_callback_funcs_, peer, stream, got, need, writing>>

(* The body has arrived with the headers: handle_read_body is called inline. *)
HeadersAndBodyDispatched(c) ==
  LET n == Parsed(c).content_length IN
  /\ HeadersArrived(c) /\ Accepted(c) /\ Parsed(c).post /\ ~BadLength(n)
  /\ got[c] - BlockEnd(c) >= n
  /\ parser' = [parser EXCEPT ![c] = "expecting_newline_3"]
  /\ Dispatch(c, Parsed(c), BlockEnd(c), BlockEnd(c) + 1, n)
  /\ UNCHANGED <<m_callback_funcs_, peer, stream, got, need, writing>>

BodyAwaited_WaitsForAll(c) ==
  LET n == Parsed(c).content_length IN
  /\ HeadersArrived(c) /\ Accepted(c) /\ Parsed(c).post /\ ~BadLength(n)
  /\ got[c] - BlockEnd(c) < n
  /\ parser' = [parser EXCEPT ![c] = "expecting_newline_3"]
  /\ m_request_' = [m_request_ EXCEPT ![c] = Parsed(c)]
  /\ used' = [used EXCEPT ![c] = BlockEnd(c)]
  /\ read' = [read EXCEPT ![c] = "body"]
  /\ need' = [need EXCEPT ![c] = n]
  /\ UNCHANGED <<m_callback_funcs_, m_http_connection_ptrs_, state, peer, stream, got,
                 appVars, writing>>

BodyAwaited_SwapsOperands(c) ==
  LET n == Parsed(c).content_length
      alreadyGot == got[c] - BlockEnd(c) IN
  /\ HeadersArrived(c) /\ Accepted(c) /\ Parsed(c).post /\ ~BadLength(n)
  /\ alreadyGot < n
  /\ parser' = [parser EXCEPT ![c] = "expecting_newline_3"]
  /\ m_request_' = [m_request_ EXCEPT ![c] = Parsed(c)]
  /\ used' = [used EXCEPT ![c] = BlockEnd(c)]
  /\ read' = [read EXCEPT ![c] = "body"]
  /\ need' = [need EXCEPT ![c] = alreadyGot - n]
  /\ UNCHANGED <<m_callback_funcs_, m_http_connection_ptrs_, state, peer, stream, got,
                 appVars, writing>>

(* Part of the body is missing: async_read of exactly that many bytes. *)
BodyAwaited(c) ==
  LET n == Parsed(c).content_length
      alreadyGot == got[c] - BlockEnd(c) IN
  /\ HeadersArrived(c) /\ Accepted(c) /\ Parsed(c).post /\ ~BadLength(n)
  /\ alreadyGot < n
  /\ parser' = [parser EXCEPT ![c] = "expecting_newline_3"]
  /\ m_request_' = [m_request_ EXCEPT ![c] = Parsed(c)]
  /\ used' = [used EXCEPT ![c] = BlockEnd(c)]
  /\ read' = [read EXCEPT ![c] = "body"]
  /\ need' = [need EXCEPT ![c] = n - alreadyGot]
  /\ UNCHANGED <<m_callback_funcs_, m_http_connection_ptrs_, state, peer, stream, got,
                 appVars, writing>>

BodyDispatched_AfterAnyRead(c) ==
  LET n == m_request_[c].content_length
      there == got[c] - used[c] IN
  /\ state[c] = "open" /\ read[c] = "body" /\ there > 0
  /\ Dispatch(c, m_request_[c], used[c], used[c] + 1, IF there < n THEN there ELSE n)
  /\ UNCHANGED <<m_callback_funcs_, peer, stream, got, need, parser, writing>>

(* handle_read_body after async_read: sgetn takes content_length bytes, or  *)
(* what there is if that is less.                                           *)
BodyDispatched(c) ==
  LET n == m_request_[c].content_length
      there == got[c] - used[c] IN
  /\ state[c] = "open" /\ read[c] = "body" /\ need[c] = 0
  /\ Dispatch(c, m_request_[c], used[c], used[c] + 1, IF there < n THEN there ELSE n)
  /\ UNCHANGED <<m_callback_funcs_, peer, stream, got, need, parser, writing>>

HandleRead(c) ==
  \/ HandleReadFailed(c)
  \/ HeadersRefused(c) \/ HeadersDispatched(c) \/ HeadersAndBodyDispatched(c)
  \/ BodyAwaited(c) \/ BodyDispatched(c)

-----------------------------------------------------------------------------
(* The application answers a callback it was given, at once or later:       *)
(* write_response starts a write, whatever has become of the socket.        *)
WriteResponse(c) ==
  /\ owes[c] > 0
  /\ owes' = [owes EXCEPT ![c] = @ - 1]
  /\ writing' = [writing EXCEPT ![c] = @ + 1]
  /\ UNCHANGED <<m_callback_funcs_, m_http_connection_ptrs_, state, inputVars, readVars,
                 parser, m_request_, calls>>

(* handle_write: the write failed, the connection was stopped meanwhile, or *)
(* the request did not ask to be kept alive.                                *)
HandleWriteStops(c) ==
  /\ writing[c] > 0
  /\ state[c] = "closed" \/ peer[c] = "reset" \/ ~m_request_[c].keep
  /\ writing' = [writing EXCEPT ![c] = @ - 1]
  /\ StopConnection(c)
  /\ UNCHANGED <<m_callback_funcs_, inputVars, readVars, parser, m_request_, appVars>>

HandleWriteDone_IgnoresKeepAlive(c) ==
  /\ writing[c] > 0
  /\ state[c] = "open"
  /\ writing' = [writing EXCEPT ![c] = @ - 1]
  /\ UNCHANGED <<m_callback_funcs_, m_http_connection_ptrs_, state, inputVars, readVars,
                 parser, m_request_, appVars>>

(* handle_write otherwise: nothing to do. *)
HandleWriteDone(c) ==
  /\ writing[c] > 0
  /\ state[c] = "open" /\ m_request_[c].keep
  /\ writing' = [writing EXCEPT ![c] = @ - 1]
  /\ UNCHANGED <<m_callback_funcs_, m_http_connection_ptrs_, state, inputVars, readVars,
                 parser, m_request_, appVars>>

(* A callback was given the manager too, and may stop its connection. *)
AppStop(c) ==
  /\ calls[c] # <<>> /\ state[c] = "open"
  /\ StopConnection(c)
  /\ UNCHANGED <<m_callback_funcs_, inputVars, readVars, parser, m_request_, appVars,
                 writing>>

ConnInit ==
  /\ m_callback_funcs_ = {}
  /\ m_http_connection_ptrs_ = {}
  /\ state = [c \in Conns |-> "unused"]
  /\ peer = [c \in Conns |-> "none"]
  /\ stream = [c \in Conns |-> <<>>]
  /\ got = [c \in Conns |-> 0]
  /\ used = [c \in Conns |-> 0]
  /\ read = [c \in Conns |-> "none"]
  /\ need = [c \in Conns |-> 0]
  /\ parser = [c \in Conns |-> "method_start"]
  /\ m_request_ \in [Conns -> {NewRequest(n) : n \in Garbage}]
  /\ calls = [c \in Conns |-> <<>>]
  /\ owes = [c \in Conns |-> 0]
  /\ writing = [c \in Conns |-> 0]

=============================================================================
