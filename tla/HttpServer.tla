----------------------------- MODULE HttpServer -----------------------------
(***************************************************************************)
(* http_server and main of httpmessage_server: the acceptor, the callback  *)
(* table, the process, and around HttpConnection's connections the steps   *)
(* of all of them.  The application that embeds http_server registers      *)
(* callbacks, answers them, and may stop the server or one connection; it  *)
(* runs on the thread of the io_service, as main does.                     *)
(***************************************************************************)
EXTENDS HttpConnection

NoConn == "no connection"

VARIABLES
  proc,                   \* starting, running, returned (run() came back), terminated
  acceptorOpen,           \* m_acceptor_.is_open()
  accept,                 \* the accept: none, pending, done (handler queued)
  m_http_connection_ptr_, \* the connection accepted last
  acceptFailed            \* history: an accept on the open acceptor failed

serverVars == <<proc, acceptorOpen, accept, m_http_connection_ptr_, acceptFailed>>
vars == <<serverVars, connVars>>

-----------------------------------------------------------------------------
Init ==
  /\ ConnInit
  /\ proc = "starting"
  /\ acceptorOpen = FALSE
  /\ accept = "none"
  /\ m_http_connection_ptr_ = NoConn
  /\ acceptFailed = FALSE

(* main: init, which throws when a step of opening the acceptor fails (an   *)
(* exception main does not catch), then start and run.                      *)
Startup ==
  /\ proc = "starting"
  /\ \/ /\ proc' = "running" /\ acceptorOpen' = TRUE /\ accept' = "pending"
     \/ /\ proc' = "terminated" /\ UNCHANGED <<acceptorOpen, accept>>
  /\ UNCHANGED <<m_http_connection_ptr_, acceptFailed, connVars>>

(* add_handle, before or while the server runs; an occupied target is left  *)
(* as it is.  The target is stored as it is spelled.                        *)
AddHandle(u) ==
  /\ proc \in {"starting", "running"}
  /\ u \notin m_callback_funcs_
  /\ m_callback_funcs_' = m_callback_funcs_ \cup {u}
  /\ UNCHANGED <<serverVars, m_http_connection_ptrs_, state, inputVars, readVars,
                 parser, m_request_, appVars, writing>>

(* A peer connects and the pending accept completes into the object start   *)
(* made for it; its handler is queued.                                      *)
AcceptCompletes(c) ==
  /\ proc = "running" /\ acceptorOpen /\ accept = "pending"
  /\ state[c] = "unused"
  /\ accept' = "done"
  /\ m_http_connection_ptr_' = c
  /\ state' = [state EXCEPT ![c] = "accepted"]
  /\ peer' = [peer EXCEPT ![c] = "open"]
  /\ UNCHANGED <<proc, acceptorOpen, acceptFailed, m_callback_funcs_,
                 m_http_connection_ptrs_, stream, readVars, parser, m_request_, appVars,
                 writing>>

(* The definitions whose names say what went wrong (..._StartsNoAccept and  *)
(* the like) are faulty variants of the one they precede; the runs use them *)
(* to show that the properties below would notice.                          *)
HandleAccept_StartsNoAccept ==
  LET c == m_http_connection_ptr_ IN
  /\ proc = "running" /\ accept = "done"
  /\ StartConnection(c)
  /\ accept' = "none"
  /\ UNCHANGED <<proc, acceptorOpen, m_http_connection_ptr_, acceptFailed,
                 m_callback_funcs_, inputVars, got, used, need, parser, m_request_,
                 appVars, writing>>

(* The handler of a successful accept: the connection is started, even if   *)
(* the acceptor was closed since, and start begins the next accept.         *)
HandleAccept ==
  LET c == m_http_connection_ptr_ IN
  /\ proc = "running" /\ accept = "done"
  /\ StartConnection(c)
  /\ accept' = "pending"
  /\ UNCHANGED <<proc, acceptorOpen, m_http_connection_ptr_, acceptFailed,
                 m_callback_funcs_, inputVars, got, used, need, parser, m_request_,
                 appVars, writing>>

(* set_option fails on a connection that is already gone: start throws out  *)
(* of the handler and of run, past the lock of the manager, and main does   *)
(* not catch it.                                                            *)
HandleAcceptThrows ==
  LET c == m_http_connection_ptr_ IN
  /\ proc = "running" /\ accept = "done"
  /\ peer[c] = "reset"
  /\ m_http_connection_ptrs_' = m_http_connection_ptrs_ \cup {c}
  /\ state' = [state EXCEPT ![c] = "open"]
  /\ accept' = "none"
  /\ proc' = "terminated"
  /\ UNCHANGED <<acceptorOpen, m_http_connection_ptr_, acceptFailed, m_callback_funcs_,
                 inputVars, readVars, parser, m_request_, appVars, writing>>

HandleAcceptError_Retries ==
  /\ proc = "running" /\ accept = "pending"
  /\ accept' = "pending"
  /\ acceptFailed' = (acceptFailed \/ acceptorOpen)
  /\ UNCHANGED <<proc, acceptorOpen, m_http_connection_ptr_, connVars>>

(* The handler of a failed accept returns without a new accept.  On a closed *)
(* acceptor every accept fails; on an open one it is the system's refusal    *)
(* (descriptors, memory).                                                    *)
HandleAcceptError ==
  /\ proc = "running" /\ accept = "pending"
  /\ accept' = "none"
  /\ acceptFailed' = (acceptFailed \/ acceptorOpen)
  /\ UNCHANGED <<proc, acceptorOpen, m_http_connection_ptr_, connVars>>

Stop_KeepsConnections ==
  /\ proc = "running" /\ acceptorOpen
  /\ acceptorOpen' = FALSE
  /\ UNCHANGED <<proc, accept, m_http_connection_ptr_, acceptFailed, connVars>>

(* http_server::stop, called by the application. *)
Stop ==
  /\ proc = "running"
  /\ acceptorOpen \/ m_http_connection_ptrs_ # {}
  /\ acceptorOpen' = FALSE
  /\ StopAll
  /\ UNCHANGED <<proc, accept, m_http_connection_ptr_, acceptFailed, m_callback_funcs_,
                 inputVars, readVars, parser, m_request_, appVars, writing>>

(* run returns when nothing is outstanding on the io_service; a callback    *)
(* not yet answered counts, the application being at work for it.           *)
RunReturns ==
  /\ proc = "running" /\ accept = "none"
  /\ \A c \in Conns : read[c] = "none" /\ writing[c] = 0 /\ owes[c] = 0
  /\ proc' = "returned"
  /\ UNCHANGED <<acceptorOpen, accept, m_http_connection_ptr_, acceptFailed, connVars>>

-----------------------------------------------------------------------------
Peer(c) ==
  \/ \E h \in Heads : PeerSend(c, h)
  \/ PeerLeave(c, "eof")
  \/ PeerLeave(c, "reset")

Arrival(c) == \E n \in 1 .. Len(stream[c]) : ReadSome(c, n)

Handler(c) == HandleRead(c) \/ HandleWriteStops(c) \/ HandleWriteDone(c)

App(c) == WriteResponse(c) \/ AppStop(c)

ConnStep(c) ==
  /\ proc = "running"
  /\ Peer(c) \/ Arrival(c) \/ Handler(c) \/ App(c)
  /\ UNCHANGED serverVars

Next ==
  \/ Startup \/ Stop \/ RunReturns
  \/ HandleAccept \/ HandleAcceptThrows \/ HandleAcceptError
  \/ \E u \in Uris : AddHandle(u)
  \/ \E c \in Conns : AcceptCompletes(c) \/ ConnStep(c)

Spec == Init /\ [][Next]_vars

(* The io_service runs every queued handler, the kernel delivers what was   *)
(* sent and completes writes, and the application answers every callback.   *)
(* Nothing is assumed of peers, of the application's stops, of accepts.     *)
Running(A) == proc = "running" /\ A /\ UNCHANGED serverVars

Fairness ==
  /\ WF_vars(Startup)
  /\ WF_vars(HandleAccept)
  /\ WF_vars(HandleAcceptError /\ ~acceptorOpen)
  /\ WF_vars(RunReturns)
  /\ \A c \in Conns :
       /\ WF_vars(Running(Arrival(c)))
       /\ WF_vars(Running(HandleRead(c)))
       /\ WF_vars(Running(HandleWriteStops(c) \/ HandleWriteDone(c)))
       /\ WF_vars(Running(WriteResponse(c)))

FairSpec == Spec /\ Fairness

-----------------------------------------------------------------------------
(* Types of the connections' and the server's state. *)
Call == [at : Nat, from : Nat, size : Nat]

TypeOK ==
  /\ m_callback_funcs_ \subseteq Uris
  /\ m_http_connection_ptrs_ \subseteq Conns
  /\ state \in [Conns -> {"unused", "accepted", "open", "closed"}]
  /\ peer \in [Conns -> {"none", "open", "eof", "reset"}]
  /\ stream \in [Conns -> Seq(Token)]
  /\ got \in [Conns -> Nat]
  /\ used \in [Conns -> Nat]
  /\ read \in [Conns -> {"none", "headers", "body"}]
  /\ need \in [Conns -> Nat]
  /\ parser \in [Conns -> {"method_start", "expecting_newline_3"}]
  /\ m_request_ \in [Conns -> Request]
  /\ calls \in [Conns -> Seq(Call)]
  /\ owes \in [Conns -> Nat]
  /\ writing \in [Conns -> Nat]
  /\ proc \in {"starting", "running", "returned", "terminated"}
  /\ acceptorOpen \in BOOLEAN
  /\ accept \in {"none", "pending", "done"}
  /\ m_http_connection_ptr_ \in Conns \cup {NoConn}
  /\ acceptFailed \in BOOLEAN

(* The manager holds exactly the connections whose socket is open: none is *)
(* closed and still held, none is open and forgotten.                      *)
RegistryMatchesSockets ==
  \A c \in Conns : c \in m_http_connection_ptrs_ <=> state[c] = "open"

(* No connection is left without a handler to come.  A held connection has *)
(* a read outstanding, or it was handed over, asked to be closed, and its  *)
(* answer is on its way: handle_write will close it.                       *)
NoStrandedConnection ==
  proc # "terminated" =>
    \A c \in m_http_connection_ptrs_ :
      \/ read[c] # "none"
      \/ calls[c] # <<>> /\ ~m_request_[c].keep /\ owes[c] + writing[c] > 0

(* A callback gets the body its request announced: the content_length       *)
(* bytes behind the header block, no byte missing, none of another request, *)
(* however the bytes arrived.                                               *)
BodyIsWhole ==
  \A c \in Conns : \A i \in 1 .. Len(calls[c]) :
    LET call == calls[c][i] IN
    /\ call.from = call.at + 1
    /\ call.from + call.size - 1 <= Len(stream[c])
    /\ call.size = (IF m_request_[c].post THEN m_request_[c].content_length ELSE 0)

(* Whatever blocks follow, the request the handlers go by is that of the     *)
(* first block: its target in lower case, keep_alive as its first connection *)
(* header says, content_length the number of its first content-length        *)
(* header, modulo the width.  Nothing is said of a request with a header     *)
(* whose name merely starts with one of the two: the code may take that one. *)
FirstNamed(hs, name, i) == hs[i].name = name /\ \A j \in 1 .. i - 1 : hs[j].name # name

SayKeepAlive(hs) ==
  \E i \in 1 .. Len(hs) : FirstNamed(hs, "connection", i) /\ hs[i].value.text = "keep-alive"

SayLength(hs, n) ==
  \A i \in 1 .. Len(hs) :
    LET v == hs[i].value IN
    FirstNamed(hs, "content-length", i) /\ v.text = "number"
      /\ v.number \in -ULongMax .. ULongMax
      => n \in {v.number, v.number + ULongMax + 1}

FieldsAreTheHeaders ==
  \A c \in Conns : parser[c] = "expecting_newline_3" =>
    LET hs == stream[c][1].headers
        req == m_request_[c] IN
    /\ req.uri = to_lower[stream[c][1].uri]
    /\ (\A i \in 1 .. Len(hs) : hs[i].name \in {"content-length", "connection", "other"})
         => (req.keep <=> SayKeepAlive(hs)) /\ SayLength(hs, req.content_length)

(* The callbacks of a connection are made for blocks in stream order, each *)
(* behind the body of the one before: no block is handed over twice.       *)
CallsInOrder ==
  \A c \in Conns : \A i \in 1 .. Len(calls[c]) - 1 :
    /\ calls[c][i].at < calls[c][i + 1].at
    /\ calls[c][i].from + calls[c][i].size <= calls[c][i + 1].at

(* http_server::stop drains: the only connection that can be held after it *)
(* is the one whose accept had completed when the acceptor was closed.     *)
StopDrains ==
  proc = "running" /\ ~acceptorOpen =>
    /\ m_http_connection_ptrs_ \subseteq {m_http_connection_ptr_}
    /\ accept = "done" => m_http_connection_ptrs_ = {}

(* A running server that was not stopped and whose accepts never failed is *)
(* always about to accept, whatever its connections do.                    *)
KeepsAccepting ==
  proc = "running" /\ acceptorOpen /\ ~acceptFailed => accept # "none"

(* run returns only when no client is left behind in the manager, and only *)
(* because the acceptor was closed or had failed.                          *)
ReturnsDrained ==
  proc = "returned" =>
    /\ m_http_connection_ptrs_ = {}
    /\ ~acceptorOpen \/ acceptFailed

-----------------------------------------------------------------------------
(* The inductive invariant behind the properties above, in three parts.     *)

(* Sockets: which state of a socket goes with which accept, and which       *)
(* handlers a connection may have in each.                                  *)
Sockets ==
  /\ RegistryMatchesSockets
  /\ proc = "starting" => accept = "none" /\ ~acceptorOpen
  /\ accept = "done" => m_http_connection_ptr_ \in Conns
  /\ \A c \in Conns :
       /\ state[c] = "accepted" <=> accept = "done" /\ m_http_connection_ptr_ = c
       /\ read[c] # "none" \/ calls[c] # <<>> => state[c] \in {"open", "closed"}
       /\ owes[c] + writing[c] > 0 => calls[c] # <<>>

(* Progress: something is always left to happen. *)
Progress ==
  NoStrandedConnection /\ KeepsAccepting /\ StopDrains /\ ReturnsDrained

(* Positions: how m_recvBuffer_, the outstanding read, the request and the  *)
(* callbacks already made lie on the peer's stream.                         *)
PositionsOf(c) ==
  /\ used[c] <= got[c] /\ got[c] <= Len(stream[c])
  /\ stream[c] # <<>> => stream[c][1] \in Heads
  /\ parser[c] = "method_start" => calls[c] = <<>> /\ read[c] # "body"
  /\ read[c] = "headers" /\ parser[c] = "method_start" => used[c] = 0
  /\ read[c] = "headers" /\ calls[c] = <<>> => parser[c] = "method_start"
  /\ state[c] \in {"unused", "accepted"} => parser[c] = "method_start" /\ used[c] = 0
  /\ read[c] = "body" =>
       /\ m_request_[c].post /\ ~BadLength(m_request_[c].content_length)
       /\ need[c] + got[c] - used[c] = m_request_[c].content_length
  /\ read[c] = "body" /\ calls[c] = <<>> =>
       /\ used[c] = 1
       /\ m_request_[c].uri = Normalised[stream[c][1]].uri
       /\ stream[c][1].post
       /\ Normalised[stream[c][1]].length # Absent =>
            m_request_[c].content_length = Normalised[stream[c][1]].length

CallsOf(c) ==
  \A i \in 1 .. Len(calls[c]) :
    LET call == calls[c][i] IN
    /\ call.from = call.at + 1
    /\ call.from + call.size - 1 <= used[c]
    /\ read[c] = "body" => call.from + call.size <= used[c]
    /\ call.size = (IF m_request_[c].post THEN m_request_[c].content_length ELSE 0)

Positions == \A c \in Conns : PositionsOf(c) /\ CallsOf(c)

IInv == TypeOK /\ Sockets /\ Progress /\ Positions /\ CallsInOrder

-----------------------------------------------------------------------------
(* "Limit the body to 64KB" (http_connection.cpp:79). *)
MaxBody == 65536

(* The peer of c has sent all of a well-formed first request, with a body   *)
(* that is within the limit.                                                *)
FirstIsComplete(c) ==
  /\ stream[c] # <<>>
  /\ LET h == stream[c][1]
         n == Normalised[h].length IN
     /\ h.form = "good"
     /\ h.post => n \in 1 .. MaxBody /\ Len(stream[c]) > n

(* It is for a target that, in lower case, has a callback. *)
FirstIsServable(c) ==
  FirstIsComplete(c) /\ to_lower[stream[c][1].uri] \in m_callback_funcs_

(* A connection whose first request can be served is not closed before it   *)
(* is: not by a peer that shuts down after sending it, not by any order in  *)
(* which the bytes arrive, not because the peer spelled the target in       *)
(* capitals; only by a reset and by http_server::stop.                      *)
FirstRequestIsServed ==
  [][\A c \in Conns :
       state[c] = "open" /\ state'[c] = "closed" /\ calls[c] = <<>>
         => peer[c] = "reset" \/ Stop \/ ~FirstIsServable(c)]_vars

(* httpmessage_server's connections keep the promise of the registry. *)
Registry == INSTANCE ConnectionRegistry WITH
  live <- m_http_connection_ptrs_,
  dead <- {c \in Conns : state[c] = "closed"},
  served <- [c \in Conns |-> Len(calls[c])]

ImplementsRegistry == Registry!Spec

-----------------------------------------------------------------------------
Ended == proc \in {"returned", "terminated"}

(* A connection whose peer has gone is let go: no timer watches it, but     *)
(* every read and every write ends in a handler that drops it.              *)
GonePeersAreReleased ==
  \A c \in Conns :
    c \in m_http_connection_ptrs_ /\ peer[c] \in {"eof", "reset"}
      ~> c \notin m_http_connection_ptrs_ \/ Ended

(* A servable first request that has been sent is handed over, unless its   *)
(* connection is closed.                                                    *)
FirstRequestIsHandedOver ==
  \A c \in Conns :
    c \in m_http_connection_ptrs_ /\ FirstIsServable(c)
      ~> calls[c] # <<>> \/ c \notin m_http_connection_ptrs_ \/ Ended

(* A connection whose request did not ask for keep-alive is closed once the *)
(* request has been handed over.                                            *)
OneShotConnectionsClose ==
  \A c \in Conns :
    c \in m_http_connection_ptrs_ /\ calls[c] # <<>> /\ ~m_request_[c].keep
      ~> c \notin m_http_connection_ptrs_ \/ Ended

(* After http_server::stop the accept chain ends and run returns, unless it *)
(* comes to hold the connection whose accept was under way.                 *)
StoppedServerReturns ==
  proc = "running" /\ ~acceptorOpen ~> Ended \/ m_http_connection_ptrs_ # {}

-----------------------------------------------------------------------------
(* "Continue with the next request" (http_connection.cpp:111 and :140): a   *)
(* kept-alive connection goes on to serve the next well-formed request.     *)
NextRequestIsServed ==
  [][\A c \in Conns :
       calls[c] # <<>> /\ HeadersArrived(c) /\ stream[c][used[c] + 1].form = "good"
         => ~HeadersRefused(c)]_vars

(* "Call different handlers according to the URI"                           *)
(* (httpmessage_server.cpp:110): the same for a request whose target has a  *)
(* callback as it is spelled, by the peer and in add_handle alike.          *)
RegisteredTargetIsServed ==
  [][\A c \in Conns :
       state[c] = "open" /\ state'[c] = "closed" /\ calls[c] = <<>>
         => \/ peer[c] = "reset" \/ Stop
            \/ ~FirstIsComplete(c) \/ stream[c][1].uri \notin m_callback_funcs_]_vars
=============================================================================
