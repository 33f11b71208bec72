------------------------- MODULE HttpServerProofs -------------------------
(***************************************************************************)
(* Proofs about HttpServer, for any set of connections, any header blocks, *)
(* any garbage in an uninitialised content_length and any MaxRequests.     *)
(*                                                                         *)
(* The inductive invariant IInv has four parts, each kept by a lemma with  *)
(* one step per action: types (TypesPreserved), sockets (SocketsPreserved),*)
(* progress (ProgressPreserved) and positions on the stream                *)
(* (PositionsPreserved).  The six outcomes of a read are first brought     *)
(* down to three.  The safety properties, FirstRequestIsServed and the     *)
(* refinement of ConnectionRegistry follow from the invariant; what the    *)
(* request says is a second invariant (Fields), kept given the first.      *)
(***************************************************************************)
EXTENDS HttpServer, NumberLemmas, SequenceTheorems, TLAPS

(* operator[] gives back the value of one of the headers, or nothing. *)
LEMMA ValueOfIsAValue ==
  ASSUME NEW hs \in Seq(Header), NEW key
  PROVE  \/ ValueOf(hs, key) = Empty
         \/ \E i \in 1 .. Len(hs) : ValueOf(hs, key) = hs[i].value
<1> DEFINE T == Hits(hs, key)
<1>1. Len(hs) \in Nat
  BY LenProperties
<1>2. T \in SUBSET Nat /\ T \subseteq 1 .. Len(hs)
  BY <1>1 DEF Hits
<1>3. CASE T = {}
  BY <1>3 DEF ValueOf
<1>4. CASE T # {}
  <2> HIDE DEF T
  <2>1. PICK i \in T : \A j \in T : ~(j < i)
    BY <1>2, <1>4, LeastElement
  <2>2. \A j \in T : i <= j
    BY <1>1, <1>2, <2>1
  <2> DEFINE first == CHOOSE k \in T : \A j \in T : k <= j
  <2>3. first \in T
    BY <2>2
  <2>4. ValueOf(hs, key) = hs[first].value
    BY <1>4 DEF ValueOf, T
  <2>5. QED
    BY <1>2, <2>3, <2>4
<1>5. QED
  BY <1>3, <1>4

(* What operator >> stores fits its width, whatever the text. *)
LEMMA ExtractedFits ==
  ASSUME NEW v, v.number \in Int
  PROVE  Extracted(v) \in 0 .. ULongMax
BY ULongMaxAssumption DEF Extracted

(* normalise assigns a length that fits its width, or none. *)
LEMMA ContentLengthType ==
  ASSUME NEW hs \in Seq(Header)
  PROVE  ContentLength(hs) \in (0 .. ULongMax) \cup {Absent}
<1> DEFINE v == ValueOf(hs, "content-length")
<1>1. v = Empty \/ \E i \in 1 .. Len(hs) : v = hs[i].value
  BY ValueOfIsAValue
<1>2. \A i \in 1 .. Len(hs) : hs[i] \in Header
  BY ElementOfSeq
<1>3. \A x \in Header : x.value.number \in Int
  BY DEF Header
<1> HIDE DEF v
<1>4. v.number \in Int
  BY <1>1, <1>2, <1>3 DEF Empty
<1>5. Extracted(v) \in 0 .. ULongMax
  BY <1>4, ExtractedFits
<1>6. ContentLength(hs) = IF v.text \in {"empty", "blanks"} THEN Absent ELSE Extracted(v)
  BY DEF ContentLength, v
<1>7. QED
  BY <1>5, <1>6

(* Types of what normalise finds in a block. *)
LEMMA NormalisedType ==
  ASSUME NEW h \in Heads
  PROVE  /\ Normalised[h].keep \in BOOLEAN
         /\ Normalised[h].uri = to_lower[h.uri] /\ Normalised[h].uri \in Uris
         /\ Normalised[h].length # Absent => Normalised[h].length \in Nat
<1>1. Normalised[h] = [uri |-> to_lower[h.uri], keep |-> KeepAlive(h.headers),
                       length |-> ContentLength(h.headers)]
  BY DEF Normalised
<1>2. KeepAlive(h.headers) \in BOOLEAN
  BY Zenon DEF KeepAlive
<1>3. h.headers \in Seq(Header) /\ h.uri \in Uris
  BY HeadsAssumption
<1>4. ContentLength(h.headers) \in (0 .. ULongMax) \cup {Absent}
  BY <1>3, ContentLengthType
<1>5. to_lower[h.uri] \in Uris
  BY <1>3, UrisAssumption
<1>6. QED
  BY <1>1, <1>2, <1>4, <1>5, ULongMaxAssumption

(* BlockEnd, which the header read hands over, is the first block in        *)
(* m_recvBuffer_ and not behind its end.                                    *)
LEMMA BlockEndIsFirst ==
  ASSUME TypeOK, NEW c \in Conns, HasBlock(c)
  PROVE  /\ BlockEnd(c) \in used[c] + 1 .. got[c]
         /\ IsHead(stream[c][BlockEnd(c)])
         /\ \A j \in used[c] + 1 .. BlockEnd(c) - 1 : ~IsHead(stream[c][j])
<1> DEFINE T == {i \in used[c] + 1 .. got[c] : IsHead(stream[c][i])}
<1>1. used[c] \in Nat /\ got[c] \in Nat
  BY DEF TypeOK
<1>2. T # {} /\ T \in SUBSET Nat
  BY <1>1 DEF HasBlock
<1> HIDE DEF T
<1>3. PICK i \in T : \A j \in T : ~(j < i)
  BY <1>2, LeastElement
<1>4. /\ i \in used[c] + 1 .. got[c]
      /\ IsHead(stream[c][i])
      /\ \A j \in used[c] + 1 .. i - 1 : ~IsHead(stream[c][j])
  BY <1>1, <1>3 DEF T
<1>5. QED
  BY <1>4 DEF BlockEnd

(* A record of the four fields is a request. *)
LEMMA RequestRecord ==
  ASSUME NEW p \in BOOLEAN, NEW u \in Uris \cup {NoUri}, NEW k \in BOOLEAN, NEW n \in Nat
  PROVE  [post |-> p, uri |-> u, keep |-> k, content_length |-> n] \in Request
BY DEF Request

(* The block a header read hands over begins with a symbol of the stream,   *)
(* and when the parser accepts it, the request has the fields of a request. *)
LEMMA ParsedFacts ==
  ASSUME TypeOK, Positions, NEW c \in Conns, HeadersArrived(c), Accepted(c)
  PROVE  /\ BlockEnd(c) \in Nat /\ used[c] < BlockEnd(c) /\ BlockEnd(c) <= got[c]
         /\ Parsed(c) \in Request
         /\ calls[c] # <<>> => Parsed(c) = m_request_[c]
         /\ calls[c] = <<>> => /\ used[c] = 0 /\ BlockEnd(c) = 1
                               /\ stream[c][1] \in Heads
                               /\ Parsed(c).post = stream[c][1].post
                               /\ Parsed(c).uri = Normalised[stream[c][1]].uri
                               /\ Normalised[stream[c][1]].length # Absent =>
                                    Parsed(c).content_length = Normalised[stream[c][1]].length
<1> DEFINE h == stream[c][used[c] + 1]
<1>1. used[c] \in Nat /\ got[c] \in Nat /\ m_request_[c] \in Request
      /\ stream[c] \in Seq(Token)
  BY DEF TypeOK
<1>2. BlockEnd(c) \in used[c] + 1 .. got[c] /\ got[c] <= Len(stream[c])
  BY BlockEndIsFirst DEF HeadersArrived, Positions, PositionsOf
<1>3. h \in Token
  BY <1>1, <1>2, ElementOfSeq, LenProperties
<1>4. CASE parser[c] = "method_start"
  <2>1. h.form = "good"
    BY <1>4 DEF Accepted
  <2>2. h \in Heads /\ IsHead(h)
    BY <1>3, <2>1 DEF Token, BodyByte, IsHead
  <2>3. h.post \in BOOLEAN /\ Normalised[h].keep \in BOOLEAN /\ Normalised[h].uri \in Uris
        /\ (Normalised[h].length # Absent => Normalised[h].length \in Nat)
    BY <2>2, HeadsAssumption, NormalisedType DEF Absent
  <2>4. Parsed(c) = [post |-> h.post, uri |-> Normalised[h].uri, keep |-> Normalised[h].keep,
                     content_length |-> IF Normalised[h].length = Absent THEN m_request_[c].content_length
                                        ELSE Normalised[h].length]
    BY <1>4 DEF Parsed
  <2>5. m_request_[c].content_length \in Nat
    BY <1>1 DEF Request
  <2>6. Parsed(c) \in Request
    <3> DEFINE n == IF Normalised[h].length = Absent THEN m_request_[c].content_length ELSE Normalised[h].length
    <3>1. n \in Nat
      BY <2>3, <2>5
    <3> HIDE DEF n
    <3>2. Parsed(c) = [post |-> h.post, uri |-> Normalised[h].uri, keep |-> Normalised[h].keep, content_length |-> n]
      BY <2>4 DEF n
    <3>3. QED
      BY <2>3, <3>1, <3>2, RequestRecord
  <2>7. calls[c] = <<>> /\ used[c] = 0
    BY <1>4 DEF Positions, PositionsOf, HeadersArrived
  <2>8. BlockEnd(c) = 1
    <3>1. \A j \in used[c] + 1 .. BlockEnd(c) - 1 : ~IsHead(stream[c][j])
      BY BlockEndIsFirst DEF HeadersArrived
    <3>2. QED
      BY <1>1, <1>2, <2>2, <2>7, <3>1
  <2>9. Parsed(c).post = h.post /\ Parsed(c).uri = Normalised[h].uri
        /\ (Normalised[h].length # Absent => Parsed(c).content_length = Normalised[h].length)
    BY <2>4
  <2>10. QED
    BY <1>1, <1>2, <2>2, <2>6, <2>7, <2>8, <2>9
<1>5. CASE parser[c] # "method_start"
  <2>1. calls[c] # <<>>
    BY <1>5 DEF Positions, PositionsOf, HeadersArrived
  <2>2. Parsed(c) = m_request_[c]
    BY <1>5 DEF Parsed
  <2>3. QED
    BY <1>1, <1>2, <2>1, <2>2
<1>6. QED
  BY <1>4, <1>5

-----------------------------------------------------------------------------
(* The six outcomes of a read come down to three: the connection is dropped, *)
(* a body is awaited, or a request is dispatched.                            *)
Dropped(c) ==
  /\ read[c] # "none"
  /\ StopConnection(c)
  /\ read' = [read EXCEPT ![c] = "none"]
  /\ \E u \in Nat : used[c] <= u /\ u <= got[c] /\ used' = [used EXCEPT ![c] = u]
  /\ UNCHANGED <<m_callback_funcs_, peer, stream, got, need, parser, m_request_,
                 appVars, writing>>

Dispatched(c, req, at, n) ==
  /\ state[c] = "open" /\ read[c] # "none"
  /\ used[c] <= at /\ at + n <= got[c]
  /\ read[c] = "headers" => used[c] < at
  /\ n = (IF req.post THEN req.content_length ELSE 0)
  /\ calls[c] # <<>> => req = m_request_[c]
  /\ calls[c] = <<>> => /\ stream[c][1] \in Heads
                        /\ req.uri = Normalised[stream[c][1]].uri
  /\ Dispatch(c, req, at, at + 1, n)
  /\ parser' = [parser EXCEPT ![c] = "expecting_newline_3"]
  /\ UNCHANGED <<m_callback_funcs_, peer, stream, got, need, writing>>

(* handle_read_headers or handle_read_body gives up on the connection. *)
LEMMA ReadDrops ==
  ASSUME TypeOK, Positions, NEW c \in Conns, HandleReadFailed(c) \/ HeadersRefused(c)
  PROVE  Dropped(c)
<1>1. used \in [Conns -> Nat] /\ got[c] \in Nat /\ used[c] <= got[c]
  BY DEF TypeOK, Positions, PositionsOf
<1>2. CASE HandleReadFailed(c)
  <2>1. used' = [used EXCEPT ![c] = used[c]]
    BY <1>1, <1>2 DEF HandleReadFailed
  <2>2. QED
    BY <1>1, <1>2, <2>1 DEF HandleReadFailed, Dropped
<1>3. CASE HeadersRefused(c)
  <2>1. BlockEnd(c) \in Nat /\ used[c] <= BlockEnd(c) /\ BlockEnd(c) <= got[c]
    BY <1>1, <1>3, BlockEndIsFirst DEF HeadersRefused, HeadersArrived
  <2>2. read[c] # "none"
    BY <1>3 DEF HeadersRefused, HeadersArrived
  <2>3. QED
    BY <1>3, <2>1, <2>2 DEF HeadersRefused, Dropped
<1>4. QED
  BY <1>2, <1>3

(* Whether the body came with the headers, later, or not at all, the same   *)
(* can be said of the request that is dispatched.                           *)
LEMMA ReadDispatches ==
  ASSUME TypeOK, Positions, NEW c \in Conns,
         HeadersDispatched(c) \/ HeadersAndBodyDispatched(c) \/ BodyDispatched(c)
  PROVE  \E req \in Request : \E at, n \in Nat : Dispatched(c, req, at, n)
<1>1. used[c] \in Nat /\ got[c] \in Nat /\ m_request_[c] \in Request
      /\ parser \in [Conns -> {"method_start", "expecting_newline_3"}]
  BY DEF TypeOK
<1>2. CASE HeadersDispatched(c)
  <2>1. /\ HeadersArrived(c) /\ Accepted(c) /\ ~Parsed(c).post
        /\ parser' = [parser EXCEPT ![c] = "expecting_newline_3"]
        /\ Dispatch(c, Parsed(c), BlockEnd(c), BlockEnd(c) + 1, 0)
        /\ UNCHANGED <<m_callback_funcs_, peer, stream, got, need, writing>>
    BY <1>2 DEF HeadersDispatched
  <2>2. Dispatched(c, Parsed(c), BlockEnd(c), 0)
    BY <1>1, <2>1, ParsedFacts DEF Dispatched, HeadersArrived
  <2>3. QED
    BY <2>1, <2>2, ParsedFacts
<1>3. CASE HeadersAndBodyDispatched(c)
  <2> DEFINE n == Parsed(c).content_length
  <2>1. /\ HeadersArrived(c) /\ Accepted(c) /\ Parsed(c).post /\ ~BadLength(n)
        /\ got[c] - BlockEnd(c) >= n
        /\ parser' = [parser EXCEPT ![c] = "expecting_newline_3"]
        /\ Dispatch(c, Parsed(c), BlockEnd(c), BlockEnd(c) + 1, n)
        /\ UNCHANGED <<m_callback_funcs_, peer, stream, got, need, writing>>
    BY <1>3 DEF HeadersAndBodyDispatched
  <2>2. n \in Nat
    <3>1. Parsed(c) \in Request
      BY <2>1, ParsedFacts
    <3>2. QED
      BY <3>1 DEF Request
  <2>3. Dispatched(c, Parsed(c), BlockEnd(c), n)
    BY <1>1, <2>1, <2>2, ParsedFacts DEF Dispatched, HeadersArrived
  <2>4. QED
    BY <2>1, <2>2, <2>3, ParsedFacts
<1>4. CASE BodyDispatched(c)
  <2> DEFINE n == m_request_[c].content_length
             there == got[c] - used[c]
  <2>1. /\ state[c] = "open" /\ read[c] = "body" /\ need[c] = 0
        /\ Dispatch(c, m_request_[c], used[c], used[c] + 1, IF there < n THEN there ELSE n)
        /\ UNCHANGED <<m_callback_funcs_, peer, stream, got, need, parser, writing>>
    BY <1>4 DEF BodyDispatched
  <2>2. PositionsOf(c)
    BY DEF Positions
  <2>3. /\ n \in Nat /\ need[c] + got[c] - used[c] = n
        /\ m_request_[c].post /\ ~BadLength(n)
    BY <1>1, <2>1, <2>2 DEF PositionsOf, Request
  <2>4. there = n
    BY <1>1, <2>1, <2>3
  <2>5. parser[c] = "expecting_newline_3"
    BY <1>1, <2>1, <2>2 DEF PositionsOf
  <2>6. parser' = [parser EXCEPT ![c] = "expecting_newline_3"]
    BY <1>1, <2>1, <2>5
  <2>7. calls[c] = <<>> => stream[c][1] \in Heads /\ m_request_[c].uri = Normalised[stream[c][1]].uri
    <3> SUFFICES ASSUME calls[c] = <<>> PROVE stream[c][1] \in Heads
                                              /\ m_request_[c].uri = Normalised[stream[c][1]].uri
      OBVIOUS
    <3>1. used[c] = 1 /\ used[c] <= got[c] /\ got[c] <= Len(stream[c])
      BY <2>1, <2>2 DEF PositionsOf
    <3>2. stream[c] # <<>>
      BY <1>1, <3>1, EmptySeq DEF TypeOK
    <3>3. QED
      BY <2>1, <2>2, <3>2 DEF PositionsOf
  <2>8. Dispatch(c, m_request_[c], used[c], used[c] + 1, n)
    BY <2>1, <2>4
  <2>9. Dispatched(c, m_request_[c], used[c], n)
    <3>1. n = (IF m_request_[c].post THEN m_request_[c].content_length ELSE 0)
      BY <2>3
    <3>2. used[c] + n <= got[c] /\ used[c] <= used[c]
      BY <1>1, <2>4
    <3>3. read[c] # "none" /\ read[c] # "headers"
      BY <2>1
    <3> HIDE DEF n, there
    <3>4. QED
      BY <2>1, <2>4, <2>6, <2>7, <2>8, <3>1, <3>2, <3>3 DEF Dispatched
  <2>10. QED
    BY <1>1, <2>3, <2>9
<1>5. QED
  BY <1>2, <1>3, <1>4

-----------------------------------------------------------------------------
(* A dispatch that finds a callback adds one call to the connection's.      *)
LEMMA DispatchServes ==
  ASSUME TypeOK, NEW c \in Conns, NEW req \in Request, NEW at \in Nat, NEW n \in Nat,
         Dispatched(c, req, at, n), req.uri \in m_callback_funcs_
  PROVE  /\ calls' \in [Conns -> Seq(Call)]
         /\ calls'[c] # <<>> /\ Len(calls'[c]) = Len(calls[c]) + 1
         /\ \A i \in 1 .. Len(calls[c]) : calls'[c][i] = calls[c][i]
         /\ calls'[c][Len(calls[c]) + 1].at = at
         /\ calls'[c][Len(calls[c]) + 1].from = at + 1
         /\ calls'[c][Len(calls[c]) + 1].size = n
         /\ \A d \in Conns : d # c => calls'[d] = calls[d]
         /\ owes' = [owes EXCEPT ![c] = @ + 1]
         /\ read' = [read EXCEPT ![c] = IF req.keep THEN "headers" ELSE "none"]
         /\ UNCHANGED <<m_http_connection_ptrs_, state>>
<1> DEFINE e == [at |-> at, from |-> at + 1, size |-> n]
<1>1. e \in Call /\ calls \in [Conns -> Seq(Call)]
  BY DEF Call, TypeOK
<1>2. /\ calls' = [calls EXCEPT ![c] = Append(@, e)]
      /\ owes' = [owes EXCEPT ![c] = @ + 1]
      /\ read' = [read EXCEPT ![c] = IF req.keep THEN "headers" ELSE "none"]
      /\ UNCHANGED <<m_http_connection_ptrs_, state>>
  BY DEF Dispatched, Dispatch
<1>3. e.at = at /\ e.from = at + 1 /\ e.size = n
  OBVIOUS
<1> HIDE DEF e
<1>4. calls'[c] = Append(calls[c], e) /\ calls[c] \in Seq(Call)
  BY <1>1, <1>2
<1>5. /\ Append(calls[c], e) \in Seq(Call)
      /\ Append(calls[c], e) # <<>>
      /\ Len(Append(calls[c], e)) = Len(calls[c]) + 1
      /\ \A i \in 1 .. Len(calls[c]) : Append(calls[c], e)[i] = calls[c][i]
      /\ Append(calls[c], e)[Len(calls[c]) + 1] = e
  BY <1>1, <1>4, AppendProperties
<1>6. QED
  BY <1>1, <1>2, <1>3, <1>4, <1>5

(* A dispatch that finds no callback drops the connection. *)
LEMMA DispatchDrops ==
  ASSUME NEW c, NEW req, NEW at, NEW n,
         Dispatched(c, req, at, n), req.uri \notin m_callback_funcs_
  PROVE  /\ m_http_connection_ptrs_' = m_http_connection_ptrs_ \ {c}
         /\ state' = [state EXCEPT ![c] = "closed"]
         /\ read' = [read EXCEPT ![c] = "none"]
         /\ UNCHANGED <<calls, owes>>
BY DEF Dispatched, Dispatch, StopConnection, appVars

-----------------------------------------------------------------------------
(* Type correctness, one step per kind of action; a dispatch on its own.    *)
LEMMA DispatchKeepsTypes ==
  ASSUME TypeOK, NEW c \in Conns, NEW req \in Request, NEW at \in Nat, NEW n \in Nat,
         Dispatched(c, req, at, n), UNCHANGED serverVars
  PROVE  TypeOK'
<1>1. at + 1 + n - 1 \in Nat /\ [at |-> at, from |-> at + 1, size |-> n] \in Call
  BY DEF Call
<1>2. /\ used' = [used EXCEPT ![c] = at + 1 + n - 1]
      /\ m_request_' = [m_request_ EXCEPT ![c] = req]
      /\ parser' = [parser EXCEPT ![c] = "expecting_newline_3"]
      /\ UNCHANGED <<m_callback_funcs_, peer, stream, got, need, writing>>
  BY DEF Dispatched, Dispatch
<1>3. used' \in [Conns -> Nat] /\ m_request_' \in [Conns -> Request]
      /\ parser' \in [Conns -> {"method_start", "expecting_newline_3"}]
  BY <1>1, <1>2 DEF TypeOK
<1>4. /\ m_http_connection_ptrs_' \subseteq Conns
      /\ state' \in [Conns -> {"unused", "accepted", "open", "closed"}]
      /\ read' \in [Conns -> {"none", "headers", "body"}]
      /\ calls' \in [Conns -> Seq(Call)]
      /\ owes' \in [Conns -> Nat]
  <2>1. CASE req.uri \in m_callback_funcs_
    <3>1. /\ calls' = [calls EXCEPT ![c] = Append(@, [at |-> at, from |-> at + 1, size |-> n])]
          /\ owes' = [owes EXCEPT ![c] = @ + 1]
          /\ read' = [read EXCEPT ![c] = IF req.keep THEN "headers" ELSE "none"]
          /\ UNCHANGED <<m_http_connection_ptrs_, state>>
      BY <2>1 DEF Dispatched, Dispatch
    <3>2. Append(calls[c], [at |-> at, from |-> at + 1, size |-> n]) \in Seq(Call)
      BY <1>1 DEF TypeOK
    <3>3. QED
      BY <3>1, <3>2 DEF TypeOK
  <2>2. CASE req.uri \notin m_callback_funcs_
    BY <2>2 DEF TypeOK, Dispatched, Dispatch, StopConnection, appVars
  <2>3. QED
    BY <2>1, <2>2
<1>5. QED
  BY <1>2, <1>3, <1>4 DEF TypeOK, serverVars

(* Every step keeps the types: above all, need and used stay in Nat.        *)
LEMMA TypesPreserved ==
  ASSUME TypeOK, Sockets, Positions, [Next]_vars
  PROVE  TypeOK'
<1> USE DEF connVars, serverVars, readVars, inputVars, appVars
<1>1. CASE Startup \/ RunReturns \/ HandleAcceptError \/ UNCHANGED vars
  BY <1>1 DEF TypeOK, Startup, RunReturns, HandleAcceptError, vars
<1>2. CASE Stop
  BY <1>2 DEF TypeOK, Stop, StopAll
<1>3. CASE HandleAccept
  BY <1>3 DEF TypeOK, Sockets, HandleAccept, StartConnection
<1>4. CASE HandleAcceptThrows
  BY <1>4 DEF TypeOK, Sockets, HandleAcceptThrows
<1>5. ASSUME NEW u \in Uris, AddHandle(u) PROVE TypeOK'
  BY <1>5 DEF TypeOK, AddHandle
<1>6. ASSUME NEW c \in Conns, AcceptCompletes(c) PROVE TypeOK'
  BY <1>6 DEF TypeOK, AcceptCompletes
<1>7. ASSUME NEW c \in Conns, NEW h \in Heads, PeerSend(c, h), UNCHANGED serverVars
      PROVE  TypeOK'
  <2>1. h \in Token /\ BodyByte \in Token /\ h.body \in Nat
    BY HeadsAssumption DEF Token
  <2>2. [i \in 1 .. h.body |-> BodyByte] \in Seq(Token)
    BY <2>1, SeqDef
  <2>3. stream[c] \o <<h>> \o [i \in 1 .. h.body |-> BodyByte] \in Seq(Token)
    <3> DEFINE b == [i \in 1 .. h.body |-> BodyByte]
    <3>1. stream[c] \in Seq(Token) /\ <<h>> \in Seq(Token)
      BY <2>1 DEF TypeOK
    <3>2. b \in Seq(Token)
      BY <2>2
    <3> HIDE DEF b
    <3>3. stream[c] \o <<h>> \in Seq(Token)
      BY <3>1, ConcatProperties
    <3>4. (stream[c] \o <<h>>) \o b \in Seq(Token)
      BY <3>2, <3>3, ConcatProperties
    <3>5. QED
      BY <3>4 DEF b
  <2>4. QED
    BY <1>7, <2>3 DEF TypeOK, PeerSend
<1>8. ASSUME NEW c \in Conns, PeerLeave(c, "eof") \/ PeerLeave(c, "reset"),
             UNCHANGED serverVars
      PROVE  TypeOK'
  BY <1>8 DEF TypeOK, PeerLeave
<1>9. ASSUME NEW c \in Conns, Arrival(c), UNCHANGED serverVars
      PROVE  TypeOK'
  <2>1. PICK n \in 1 .. Len(stream[c]) : ReadSome(c, n)
    BY <1>9 DEF Arrival
  <2>2. n \in Nat
    BY LenProperties DEF TypeOK
  <2>3. got' \in [Conns -> Nat]
    <3>1. got' = [got EXCEPT ![c] = @ + n] /\ got \in [Conns -> Nat]
      BY <2>1 DEF TypeOK, ReadSome
    <3>2. QED
      BY <2>2, <3>1
  <2>4. need' \in [Conns -> Nat]
    <3>1. CASE need' = need
      BY <3>1 DEF TypeOK
    <3>2. CASE n <= need[c] /\ need' = [need EXCEPT ![c] = @ - n]
      <4>1. need[c] \in Nat /\ need[c] - n \in Nat
        BY <2>2, <3>2 DEF TypeOK
      <4>2. QED
        BY <3>2, <4>1 DEF TypeOK
    <3>3. QED
      BY <2>1, <3>1, <3>2 DEF ReadSome
  <2>5. QED
    BY <1>9, <2>1, <2>3, <2>4 DEF TypeOK, ReadSome
<1>10. ASSUME NEW c \in Conns, Dropped(c), UNCHANGED serverVars
       PROVE  TypeOK'
  BY <1>10 DEF TypeOK, Dropped, StopConnection
<1>11. ASSUME NEW c \in Conns, BodyAwaited(c), UNCHANGED serverVars
       PROVE  TypeOK'
  <2>1. /\ Parsed(c) \in Request /\ BlockEnd(c) \in Nat /\ BlockEnd(c) <= got[c]
    BY <1>11, ParsedFacts DEF BodyAwaited
  <2>2. got[c] \in Nat /\ Parsed(c).content_length \in Nat
    BY <2>1 DEF TypeOK, Request
  <2>3. Parsed(c).content_length - (got[c] - BlockEnd(c)) \in Nat
    BY <1>11, <2>1, <2>2 DEF BodyAwaited
  <2>4. QED
    BY <1>11, <2>1, <2>3 DEF TypeOK, BodyAwaited
<1>12. ASSUME NEW c \in Conns, NEW req \in Request, NEW at \in Nat, NEW n \in Nat,
              Dispatched(c, req, at, n), UNCHANGED serverVars
       PROVE  TypeOK'
  BY <1>12, DispatchKeepsTypes
<1>13. ASSUME NEW c \in Conns, WriteResponse(c), UNCHANGED serverVars PROVE TypeOK'
  BY <1>13 DEF TypeOK, WriteResponse
<1>14. ASSUME NEW c \in Conns, HandleWriteStops(c), UNCHANGED serverVars PROVE TypeOK'
  BY <1>14 DEF TypeOK, HandleWriteStops, StopConnection
<1>15. ASSUME NEW c \in Conns, HandleWriteDone(c), UNCHANGED serverVars PROVE TypeOK'
  BY <1>15 DEF TypeOK, HandleWriteDone
<1>16. ASSUME NEW c \in Conns, AppStop(c), UNCHANGED serverVars PROVE TypeOK'
  BY <1>16 DEF TypeOK, AppStop, StopConnection
<1>17. QED
  BY <1>1, <1>2, <1>3, <1>4, <1>5, <1>6, <1>7, <1>8, <1>9, <1>10, <1>11, <1>12, <1>13,
     <1>14, <1>15, <1>16, ReadDrops, ReadDispatches
     DEF Next, ConnStep, Peer, Handler, App, HandleRead

-----------------------------------------------------------------------------
(* Sockets: the manager holds the open sockets, and only they and closed    *)
(* ones have handlers to come.                                              *)
LEMMA SocketsPreserved ==
  ASSUME TypeOK, Sockets, Positions, [Next]_vars
  PROVE  Sockets'
<1> USE DEF connVars, serverVars, readVars, inputVars, appVars, Sockets,
            RegistryMatchesSockets
<1>1. CASE Startup \/ RunReturns \/ HandleAcceptError \/ UNCHANGED vars
  BY <1>1 DEF TypeOK, Startup, RunReturns, HandleAcceptError, vars
<1>2. CASE Stop
  BY <1>2 DEF TypeOK, Stop, StopAll
<1>3. CASE HandleAccept
  BY <1>3 DEF TypeOK, HandleAccept, StartConnection
<1>4. CASE HandleAcceptThrows
  BY <1>4 DEF TypeOK, HandleAcceptThrows
<1>5. ASSUME NEW u \in Uris, AddHandle(u) PROVE Sockets'
  BY <1>5 DEF TypeOK, AddHandle
<1>6. ASSUME NEW c \in Conns, AcceptCompletes(c) PROVE Sockets'
  BY <1>6 DEF TypeOK, AcceptCompletes
<1>7. ASSUME NEW c \in Conns, Peer(c), UNCHANGED serverVars PROVE Sockets'
  BY <1>7 DEF TypeOK, Peer, PeerSend, PeerLeave
<1>8. ASSUME NEW c \in Conns, Arrival(c), UNCHANGED serverVars PROVE Sockets'
  BY <1>8 DEF TypeOK, Arrival, ReadSome
<1>9. ASSUME NEW c \in Conns, Dropped(c), proc = "running", UNCHANGED serverVars
      PROVE  Sockets'
  BY <1>9 DEF TypeOK, Dropped, StopConnection
<1>10. ASSUME NEW c \in Conns, BodyAwaited(c), proc = "running", UNCHANGED serverVars
       PROVE  Sockets'
  BY <1>10 DEF TypeOK, BodyAwaited, HeadersArrived
<1>11. ASSUME NEW c \in Conns, NEW req \in Request, NEW at \in Nat, NEW n \in Nat,
              Dispatched(c, req, at, n), proc = "running", UNCHANGED serverVars
       PROVE  Sockets'
  <2>1. state[c] = "open" /\ writing' = writing
    BY <1>11 DEF Dispatched
  <2>2. CASE req.uri \in m_callback_funcs_
    <3>1. /\ calls'[c] # <<>>
          /\ \A d \in Conns : d # c => calls'[d] = calls[d]
          /\ owes' = [owes EXCEPT ![c] = @ + 1]
          /\ read' = [read EXCEPT ![c] = IF req.keep THEN "headers" ELSE "none"]
          /\ UNCHANGED <<m_http_connection_ptrs_, state>>
      BY <1>11, <2>2, DispatchServes
    <3>2. \A d \in Conns : d # c => read'[d] = read[d] /\ owes'[d] = owes[d]
      BY <3>1 DEF TypeOK
    <3>3. \A d \in Conns : read'[d] # "none" \/ calls'[d] # <<>>
                            => state'[d] \in {"open", "closed"}
      BY <2>1, <3>1, <3>2
    <3>4. \A d \in Conns : owes'[d] + writing'[d] > 0 => calls'[d] # <<>>
      BY <2>1, <3>1, <3>2
    <3>5. QED
      BY <1>11, <3>1, <3>3, <3>4
  <2>3. CASE req.uri \notin m_callback_funcs_
    <3>1. /\ m_http_connection_ptrs_' = m_http_connection_ptrs_ \ {c}
          /\ state' = [state EXCEPT ![c] = "closed"]
          /\ read' = [read EXCEPT ![c] = "none"]
          /\ UNCHANGED <<calls, owes>>
      BY <1>11, <2>3, DispatchDrops
    <3>2. QED
      BY <1>11, <2>1, <3>1 DEF TypeOK
  <2>4. QED
    BY <2>2, <2>3
<1>12. ASSUME NEW c \in Conns, WriteResponse(c), UNCHANGED serverVars PROVE Sockets'
  BY <1>12 DEF TypeOK, WriteResponse
<1>13. ASSUME NEW c \in Conns, HandleWriteStops(c), UNCHANGED serverVars PROVE Sockets'
  <2>1. owes[c] \in Nat /\ writing[c] \in Nat /\ writing[c] > 0
    BY <1>13 DEF TypeOK, HandleWriteStops
  <2>2. calls[c] # <<>> /\ state[c] \in {"open", "closed"}
    BY <2>1
  <2>3. \A d \in Conns : owes'[d] + writing'[d] > 0 => calls'[d] # <<>>
    BY <1>13, <2>2 DEF TypeOK, HandleWriteStops
  <2>4. QED
    BY <1>13, <2>2, <2>3 DEF TypeOK, HandleWriteStops, StopConnection
<1>14. ASSUME NEW c \in Conns, HandleWriteDone(c), UNCHANGED serverVars PROVE Sockets'
  BY <1>14 DEF TypeOK, HandleWriteDone
<1>15. ASSUME NEW c \in Conns, AppStop(c), UNCHANGED serverVars PROVE Sockets'
  BY <1>15 DEF TypeOK, AppStop, StopConnection
<1>16. QED
  BY <1>1, <1>2, <1>3, <1>4, <1>5, <1>6, <1>7, <1>8, <1>9, <1>10, <1>11, <1>12, <1>13,
     <1>14, <1>15, ReadDrops, ReadDispatches
     DEF Next, ConnStep, Handler, App, HandleRead

-----------------------------------------------------------------------------
(* Progress: what is left to happen.  A step of a connection adds nothing   *)
(* to the manager and leaves the server alone, so the three parts about the *)
(* server are a matter of the server's own steps.                           *)
LEMMA ServerUndisturbed ==
  ASSUME Progress, proc = "running", UNCHANGED serverVars,
         m_http_connection_ptrs_' \subseteq m_http_connection_ptrs_
  PROVE  KeepsAccepting' /\ StopDrains' /\ ReturnsDrained'
BY DEF Progress, KeepsAccepting, StopDrains, ReturnsDrained, serverVars

(* Connection c is not stranded. *)
Awaits(c) ==
  c \in m_http_connection_ptrs_ =>
    \/ read[c] # "none"
    \/ calls[c] # <<>> /\ ~m_request_[c].keep /\ owes[c] + writing[c] > 0

(* A step of c that leaves the other connections as they were need only be  *)
(* looked at for c.                                                         *)
LEMMA OnlyOneConnection ==
  ASSUME TypeOK, Progress, proc = "running", UNCHANGED serverVars, NEW c \in Conns,
         m_http_connection_ptrs_' \subseteq m_http_connection_ptrs_,
         Awaits(c)',
         \A d \in Conns : d # c => /\ read'[d] = read[d] /\ calls'[d] = calls[d]
                                   /\ m_request_'[d] = m_request_[d]
                                   /\ owes'[d] = owes[d] /\ writing'[d] = writing[d]
  PROVE  Progress'
<1>1. NoStrandedConnection'
  BY DEF Progress, NoStrandedConnection, Awaits, serverVars, TypeOK
<1>2. QED
  BY <1>1, ServerUndisturbed DEF Progress

(* Every step leaves each held connection a handler to come, and the accept *)
(* chain, a stop and the end of run in order.                               *)
LEMMA ProgressPreserved ==
  ASSUME TypeOK, Sockets, Positions, Progress, [Next]_vars
  PROVE  Progress'
<1> USE DEF connVars, serverVars, readVars, inputVars, appVars
<1>1. CASE Startup \/ HandleAcceptError \/ UNCHANGED vars
  BY <1>1 DEF TypeOK, Startup, HandleAcceptError, vars, Progress, KeepsAccepting,
              StopDrains, ReturnsDrained, NoStrandedConnection, Sockets,
              RegistryMatchesSockets
<1>2. CASE RunReturns
  <2>1. \A c \in m_http_connection_ptrs_ : FALSE
    BY <1>2 DEF RunReturns, Progress, NoStrandedConnection, TypeOK
  <2>2. ~acceptorOpen \/ acceptFailed
    BY <1>2 DEF RunReturns, Progress, KeepsAccepting, TypeOK
  <2>3. QED
    BY <1>2, <2>1, <2>2 DEF RunReturns, Progress, NoStrandedConnection, KeepsAccepting,
                            StopDrains, ReturnsDrained
<1>3. CASE Stop
  BY <1>3 DEF Stop, StopAll, Progress, NoStrandedConnection, KeepsAccepting,
              StopDrains, ReturnsDrained
<1>4. CASE HandleAccept
  <2>1. NoStrandedConnection'
    BY <1>4 DEF TypeOK, Sockets, HandleAccept, StartConnection, Progress,
                NoStrandedConnection
  <2>2. KeepsAccepting' /\ StopDrains' /\ ReturnsDrained'
    BY <1>4 DEF HandleAccept, StartConnection, Progress, KeepsAccepting, StopDrains,
                ReturnsDrained
  <2>3. QED
    BY <2>1, <2>2 DEF Progress
<1>5. CASE HandleAcceptThrows
  BY <1>5 DEF HandleAcceptThrows, Progress, NoStrandedConnection, KeepsAccepting,
              StopDrains, ReturnsDrained
<1>6. ASSUME NEW u \in Uris, AddHandle(u) PROVE Progress'
  BY <1>6 DEF AddHandle, Progress, NoStrandedConnection, KeepsAccepting, StopDrains,
              ReturnsDrained
<1>7. ASSUME NEW c \in Conns, AcceptCompletes(c) PROVE Progress'
  BY <1>7 DEF AcceptCompletes, Progress, NoStrandedConnection, KeepsAccepting,
              StopDrains, ReturnsDrained
<1>8. ASSUME NEW c \in Conns, Peer(c) \/ Arrival(c), proc = "running",
             UNCHANGED serverVars
      PROVE  Progress'
  <2>1. UNCHANGED <<m_http_connection_ptrs_, read, calls, m_request_, owes, writing>>
    BY <1>8 DEF Peer, PeerSend, PeerLeave, Arrival, ReadSome
  <2>2. QED
    BY <1>8, <2>1, ServerUndisturbed DEF Progress, NoStrandedConnection
<1>9. ASSUME NEW c \in Conns, proc = "running", UNCHANGED serverVars,
             Dropped(c) \/ HandleWriteStops(c) \/ AppStop(c)
      PROVE  Progress'
  <2>1. m_http_connection_ptrs_' = m_http_connection_ptrs_ \ {c}
    BY <1>9 DEF Dropped, HandleWriteStops, AppStop, StopConnection
  <2>2. \A d \in Conns : d # c => /\ read'[d] = read[d] /\ calls'[d] = calls[d]
                                   /\ m_request_'[d] = m_request_[d]
                                   /\ owes'[d] = owes[d] /\ writing'[d] = writing[d]
    BY <1>9 DEF Dropped, HandleWriteStops, AppStop, TypeOK
  <2>3. QED
    BY <1>9, <2>1, <2>2, OnlyOneConnection DEF Awaits
<1>10. ASSUME NEW c \in Conns, BodyAwaited(c), proc = "running", UNCHANGED serverVars
       PROVE  Progress'
  <2>1. read'[c] = "body" /\ m_http_connection_ptrs_' = m_http_connection_ptrs_
    BY <1>10 DEF BodyAwaited, TypeOK
  <2>2. \A d \in Conns : d # c => /\ read'[d] = read[d] /\ calls'[d] = calls[d]
                                   /\ m_request_'[d] = m_request_[d]
                                   /\ owes'[d] = owes[d] /\ writing'[d] = writing[d]
    BY <1>10 DEF BodyAwaited, TypeOK
  <2>3. QED
    BY <1>10, <2>1, <2>2, OnlyOneConnection DEF Awaits
<1>11. ASSUME NEW c \in Conns, NEW req \in Request, NEW at \in Nat, NEW n \in Nat,
              Dispatched(c, req, at, n), proc = "running", UNCHANGED serverVars
       PROVE  Progress'
  <2>1. m_request_' = [m_request_ EXCEPT ![c] = req] /\ writing' = writing
    BY <1>11 DEF Dispatched, Dispatch
  <2>2. CASE req.uri \in m_callback_funcs_
    <3>1. /\ calls'[c] # <<>>
          /\ \A d \in Conns : d # c => calls'[d] = calls[d]
          /\ owes' = [owes EXCEPT ![c] = @ + 1]
          /\ read' = [read EXCEPT ![c] = IF req.keep THEN "headers" ELSE "none"]
          /\ m_http_connection_ptrs_' = m_http_connection_ptrs_
      BY <1>11, <2>2, DispatchServes
    <3>2. owes'[c] + writing'[c] > 0 /\ m_request_'[c] = req
          /\ read'[c] = IF req.keep THEN "headers" ELSE "none"
      BY <2>1, <3>1 DEF TypeOK
    <3>3. Awaits(c)'
      BY <3>1, <3>2 DEF Awaits
    <3>4. \A d \in Conns : d # c => /\ read'[d] = read[d] /\ calls'[d] = calls[d]
                                     /\ m_request_'[d] = m_request_[d]
                                     /\ owes'[d] = owes[d] /\ writing'[d] = writing[d]
      BY <2>1, <3>1 DEF TypeOK
    <3>5. QED
      BY <1>11, <3>1, <3>3, <3>4, OnlyOneConnection
  <2>3. CASE req.uri \notin m_callback_funcs_
    <3>1. /\ m_http_connection_ptrs_' = m_http_connection_ptrs_ \ {c}
          /\ read' = [read EXCEPT ![c] = "none"]
          /\ UNCHANGED <<calls, owes>>
      BY <1>11, <2>3, DispatchDrops
    <3>2. \A d \in Conns : d # c => /\ read'[d] = read[d] /\ calls'[d] = calls[d]
                                     /\ m_request_'[d] = m_request_[d]
                                     /\ owes'[d] = owes[d] /\ writing'[d] = writing[d]
      BY <2>1, <3>1 DEF TypeOK
    <3>3. QED
      BY <1>11, <3>1, <3>2, OnlyOneConnection DEF Awaits
  <2>4. QED
    BY <2>2, <2>3
<1>12. ASSUME NEW c \in Conns, WriteResponse(c), proc = "running", UNCHANGED serverVars
       PROVE  Progress'
  <2>1. /\ UNCHANGED <<m_http_connection_ptrs_, read, calls, m_request_>>
        /\ owes'[c] + writing'[c] = owes[c] + writing[c]
        /\ \A d \in Conns : d # c => owes'[d] = owes[d] /\ writing'[d] = writing[d]
    BY <1>12 DEF WriteResponse, TypeOK
  <2>2. Awaits(c)'
    BY <1>12, <2>1 DEF Awaits, Progress, NoStrandedConnection
  <2>3. QED
    BY <1>12, <2>1, <2>2, OnlyOneConnection
<1>13. ASSUME NEW c \in Conns, HandleWriteDone(c), proc = "running", UNCHANGED serverVars
       PROVE  Progress'
  <2>1. /\ UNCHANGED <<m_http_connection_ptrs_, read, calls, m_request_, owes>>
        /\ m_request_[c].keep
        /\ \A d \in Conns : d # c => writing'[d] = writing[d]
    BY <1>13 DEF HandleWriteDone, TypeOK
  <2>2. Awaits(c)'
    BY <1>13, <2>1 DEF Awaits, Progress, NoStrandedConnection
  <2>3. QED
    BY <1>13, <2>1, <2>2, OnlyOneConnection
<1>14. QED
  BY <1>1, <1>2, <1>3, <1>4, <1>5, <1>6, <1>7, <1>8, <1>9, <1>10, <1>11, <1>12, <1>13,
     ReadDrops, ReadDispatches
     DEF Next, ConnStep, Handler, App, HandleRead

-----------------------------------------------------------------------------
(* Positions: how buffer, request and callbacks lie on the stream.  A       *)
(* connection whose part of the state did not change needs no argument.     *)
Same(d) ==
  /\ stream'[d] = stream[d] /\ got'[d] = got[d] /\ used'[d] = used[d]
  /\ read'[d] = read[d] /\ need'[d] = need[d] /\ parser'[d] = parser[d]
  /\ m_request_'[d] = m_request_[d] /\ calls'[d] = calls[d]
  /\ state'[d] \in {"unused", "accepted"} => state[d] \in {"unused", "accepted"}

(* What a step does not touch stays in place. *)
LEMMA SamePositions ==
  ASSUME Positions, NEW d \in Conns, Same(d)
  PROVE  PositionsOf(d)' /\ CallsOf(d)'
BY DEF Positions, PositionsOf, CallsOf, Same

(* A step of one connection has only that connection's places to answer for. *)
LEMMA PositionsOfOne ==
  ASSUME Positions, NEW c \in Conns, \A d \in Conns : d # c => Same(d),
         PositionsOf(c)', CallsOf(c)'
  PROVE  Positions'
BY SamePositions DEF Positions

(* A connection that stops reading, and has nothing left to read. *)
LEMMA DroppedPositions ==
  ASSUME TypeOK, Positions, NEW c \in Conns, Dropped(c)
  PROVE  Positions'
<1>1. PICK u \in Nat : used[c] <= u /\ u <= got[c] /\ used' = [used EXCEPT ![c] = u]
  BY DEF Dropped
<1>2. /\ read'[c] = "none" /\ used'[c] = u /\ state'[c] = "closed"
      /\ UNCHANGED <<stream, got, need, parser, m_request_, calls>>
  BY <1>1 DEF TypeOK, Dropped, StopConnection, appVars
<1>3. \A d \in Conns : d # c => Same(d)
  BY <1>1 DEF TypeOK, Dropped, StopConnection, appVars, Same
<1>4. PositionsOf(c)'
  BY <1>1, <1>2 DEF Positions, PositionsOf
<1>5. CallsOf(c)'
  <2> SUFFICES ASSUME NEW i \in 1 .. Len(calls[c])
               PROVE  /\ calls[c][i].from = calls[c][i].at + 1
                      /\ calls[c][i].from + calls[c][i].size - 1 <= u
                      /\ calls[c][i].size = (IF m_request_[c].post
                                             THEN m_request_[c].content_length ELSE 0)
    BY <1>2 DEF CallsOf
  <2>1. calls[c][i] \in Call /\ used[c] \in Nat
    BY DEF TypeOK
  <2>2. calls[c][i].from \in Nat /\ calls[c][i].size \in Nat
    BY <2>1 DEF Call
  <2>3. QED
    BY <1>1, <2>1, <2>2 DEF Positions, CallsOf
<1>6. QED
  BY <1>3, <1>4, <1>5, PositionsOfOne

(* A body that ends with the last byte taken ends before the next block.    *)
LEMMA EndsBefore ==
  ASSUME NEW f \in Nat, NEW s \in Nat, NEW u \in Nat, NEW b \in Nat,
         f + s - 1 <= u, u <= b, f + s <= u \/ u < b
  PROVE  f + s <= b
OBVIOUS

(* What ends with the last byte taken was sent. *)
LEMMA EndsWithin ==
  ASSUME NEW f \in Nat, NEW s \in Nat, NEW u \in Nat, NEW g \in Nat, NEW m \in Nat,
         f + s - 1 <= u, u <= g, g <= m
  PROVE  f + s - 1 <= m
OBVIOUS

(* A call that ends before a block was made for an earlier one. *)
LEMMA StartsBefore ==
  ASSUME NEW a \in Nat, NEW s \in Nat, NEW b \in Nat, a + 1 + s <= b
  PROVE  a < b
OBVIOUS

(* A body is awaited for a request just parsed: what is missing and what    *)
(* has arrived add up to its content_length.                                *)
LEMMA AwaitedPositions ==
  ASSUME TypeOK, Positions, NEW c \in Conns, BodyAwaited(c)
  PROVE  Positions'
<1> DEFINE n == Parsed(c).content_length
           at == BlockEnd(c)
<1>1. /\ HeadersArrived(c) /\ Accepted(c) /\ Parsed(c).post /\ ~BadLength(n)
      /\ parser'[c] = "expecting_newline_3"
      /\ m_request_'[c] = Parsed(c) /\ used'[c] = at
      /\ read'[c] = "body" /\ need'[c] = n - (got[c] - at)
      /\ UNCHANGED <<state, stream, got, calls>>
  BY DEF BodyAwaited, TypeOK, appVars
<1>2. \A d \in Conns : d # c => Same(d)
  BY DEF BodyAwaited, TypeOK, appVars, Same
<1>3. /\ at \in Nat /\ used[c] < at /\ at <= got[c] /\ n \in Nat
      /\ calls[c] # <<>> => Parsed(c) = m_request_[c]
      /\ calls[c] = <<>> => /\ at = 1
                            /\ stream[c][1] \in Heads
                            /\ Parsed(c).post = stream[c][1].post
                            /\ Parsed(c).uri = Normalised[stream[c][1]].uri
                            /\ Normalised[stream[c][1]].length # Absent => n = Normalised[stream[c][1]].length
  BY <1>1, ParsedFacts DEF Request
<1>4. used[c] \in Nat /\ got[c] \in Nat /\ state[c] = "open" /\ read[c] = "headers"
  BY <1>1 DEF TypeOK, HeadersArrived
<1>5. calls[c] # <<>> => parser[c] # "method_start"
  BY DEF Positions, PositionsOf
<1> HIDE DEF n, at
<1>6. need'[c] + got'[c] - used'[c] = n /\ used'[c] <= got'[c]
  BY <1>1, <1>3, <1>4
<1>7. got'[c] <= Len(stream'[c]) /\ (stream'[c] # <<>> => stream'[c][1] \in Heads)
  BY <1>1 DEF Positions, PositionsOf
<1>8. m_request_'[c].post /\ ~BadLength(m_request_'[c].content_length)
      /\ m_request_'[c].content_length = n
  BY <1>1 DEF n
<1>9. PositionsOf(c)'
  <2>1. calls'[c] = <<>> => /\ used'[c] = 1
                            /\ m_request_'[c].uri = Normalised[stream'[c][1]].uri
                            /\ stream'[c][1].post
                            /\ Normalised[stream'[c][1]].length # Absent =>
                                 m_request_'[c].content_length = Normalised[stream'[c][1]].length
    BY <1>1, <1>3, <1>8
  <2>2. read'[c] = "body" /\ parser'[c] = "expecting_newline_3" /\ state'[c] = "open"
    BY <1>1, <1>4
  <2>3. need'[c] + got'[c] - used'[c] = m_request_'[c].content_length
    BY <1>6, <1>8
  <2>4. m_request_'[c].post /\ ~BadLength(m_request_'[c].content_length)
    BY <1>8
  <2>5. QED
    BY <1>6, <1>7, <2>1, <2>2, <2>3, <2>4 DEF PositionsOf, BadLength
<1>10. CallsOf(c)'
  <2> SUFFICES ASSUME NEW i \in 1 .. Len(calls[c])
               PROVE  /\ calls[c][i].from = calls[c][i].at + 1
                      /\ calls[c][i].from + calls[c][i].size <= at
                      /\ calls[c][i].from + calls[c][i].size - 1 <= at
                      /\ calls[c][i].size = (IF Parsed(c).post THEN n ELSE 0)
    BY <1>1, <1>8 DEF CallsOf
  <2>1. calls[c][i] \in Call /\ calls[c] # <<>>
    BY DEF TypeOK
  <2>2. calls[c][i].from \in Nat /\ calls[c][i].size \in Nat
    BY <2>1 DEF Call
  <2>3. /\ calls[c][i].from = calls[c][i].at + 1
        /\ calls[c][i].from + calls[c][i].size - 1 <= used[c]
        /\ calls[c][i].size = (IF m_request_[c].post THEN m_request_[c].content_length ELSE 0)
    BY DEF Positions, CallsOf
  <2>4. Parsed(c) = m_request_[c]
    BY <1>3, <2>1
  <2>5. calls[c][i].from + calls[c][i].size <= at
    <3>1. /\ calls[c][i].from + calls[c][i].size - 1 <= used[c]
          /\ used[c] \in Nat /\ at \in Nat /\ used[c] < at
      BY <1>3, <1>4, <2>3
    <3>2. used[c] <= at
      BY <3>1
    <3>3. QED
      BY <2>2, <3>1, <3>2, EndsBefore
  <2>6. calls[c][i].from + calls[c][i].size - 1 <= at
    BY <1>3, <2>2, <2>5
  <2>7. calls[c][i].size = (IF Parsed(c).post THEN n ELSE 0)
    BY <2>3, <2>4 DEF n
  <2>8. QED
    BY <2>3, <2>5, <2>6, <2>7
<1>11. QED
  BY <1>2, <1>9, <1>10, PositionsOfOne

(* A dispatch takes the body behind the block, and if it makes a call, the  *)
(* call describes it.                                                       *)
LEMMA DispatchedPositions ==
  ASSUME TypeOK, Positions, CallsInOrder, NEW c \in Conns, NEW req \in Request,
         NEW at \in Nat, NEW n \in Nat, Dispatched(c, req, at, n)
  PROVE  Positions' /\ CallsInOrder'
<1>1. /\ used[c] <= at /\ at + n <= got[c] /\ state[c] = "open"
      /\ read[c] = "headers" => used[c] < at
      /\ n = (IF req.post THEN req.content_length ELSE 0)
      /\ calls[c] # <<>> => req = m_request_[c]
      /\ read[c] # "none"
      /\ parser' = [parser EXCEPT ![c] = "expecting_newline_3"]
      /\ used' = [used EXCEPT ![c] = at + 1 + n - 1]
      /\ m_request_' = [m_request_ EXCEPT ![c] = req]
      /\ UNCHANGED <<stream, got, need>>
  BY DEF Dispatched, Dispatch
<1>2. /\ used[c] \in Nat /\ got[c] \in Nat /\ used'[c] = at + n
      /\ parser'[c] = "expecting_newline_3" /\ m_request_'[c] = req
      /\ calls[c] \in Seq(Call) /\ Len(calls[c]) \in Nat
  <2>1. used'[c] = at + 1 + n - 1 /\ m_request_'[c] = req
        /\ parser'[c] = "expecting_newline_3"
    BY <1>1 DEF TypeOK
  <2>2. used[c] \in Nat /\ got[c] \in Nat /\ calls[c] \in Seq(Call)
    BY DEF TypeOK
  <2>3. Len(calls[c]) \in Nat
    BY <2>2, LenProperties
  <2>4. at + 1 + n - 1 = at + n
    OBVIOUS
  <2>5. QED
    BY <2>1, <2>2, <2>3, <2>4
<1>3. \A i \in 1 .. Len(calls[c]) :
        /\ calls[c][i].at \in Nat /\ calls[c][i].from \in Nat /\ calls[c][i].size \in Nat
        /\ calls[c][i].from = calls[c][i].at + 1
        /\ calls[c][i].from + calls[c][i].size <= at
        /\ calls[c][i].size = (IF req.post THEN req.content_length ELSE 0)
  <2> SUFFICES ASSUME NEW i \in 1 .. Len(calls[c])
               PROVE  /\ calls[c][i].at \in Nat /\ calls[c][i].from \in Nat
                      /\ calls[c][i].size \in Nat
                      /\ calls[c][i].from = calls[c][i].at + 1
                      /\ calls[c][i].from + calls[c][i].size <= at
                      /\ calls[c][i].size = (IF req.post THEN req.content_length ELSE 0)
    OBVIOUS
  <2>1. calls[c][i] \in Call /\ calls[c] # <<>>
    BY <1>2
  <2>2. calls[c][i].at \in Nat /\ calls[c][i].from \in Nat /\ calls[c][i].size \in Nat
    BY <2>1 DEF Call
  <2>3. /\ calls[c][i].from = calls[c][i].at + 1
        /\ calls[c][i].from + calls[c][i].size - 1 <= used[c]
        /\ read[c] = "body" => calls[c][i].from + calls[c][i].size <= used[c]
        /\ calls[c][i].size = (IF m_request_[c].post THEN m_request_[c].content_length ELSE 0)
    BY DEF Positions, CallsOf
  <2>4. read[c] = "body" \/ read[c] = "headers"
    BY <1>1 DEF TypeOK
  <2>5. calls[c][i].from + calls[c][i].size <= at
    <3>1. calls[c][i].from + calls[c][i].size - 1 <= used[c] /\ used[c] <= at
      BY <1>1, <2>3
    <3>2. calls[c][i].from + calls[c][i].size <= used[c] \/ used[c] < at
      BY <1>1, <2>3, <2>4
    <3>3. used[c] \in Nat
      BY <1>2
    <3>4. QED
      BY <2>2, <3>1, <3>2, <3>3, EndsBefore
  <2>6. calls[c][i].size = (IF req.post THEN req.content_length ELSE 0)
    BY <1>1, <2>1, <2>3
  <2>7. QED
    BY <2>2, <2>3, <2>5, <2>6
<1>4. ASSUME read'[c] \in {"none", "headers"}, state'[c] \in {"open", "closed"},
             read'[c] = "headers" => calls'[c] # <<>>
      PROVE  PositionsOf(c)'
  <2>1. used'[c] <= got'[c] /\ got'[c] <= Len(stream'[c])
    BY <1>1, <1>2 DEF Positions, PositionsOf
  <2>2. stream'[c] # <<>> => stream'[c][1] \in Heads
    BY <1>1 DEF Positions, PositionsOf
  <2>3. QED
    BY <1>2, <1>4, <2>1, <2>2 DEF PositionsOf
<1>5. CASE req.uri \in m_callback_funcs_
  <2>1. /\ calls'[c] # <<>> /\ Len(calls'[c]) = Len(calls[c]) + 1
        /\ \A i \in 1 .. Len(calls[c]) : calls'[c][i] = calls[c][i]
        /\ calls'[c][Len(calls[c]) + 1].at = at
        /\ calls'[c][Len(calls[c]) + 1].from = at + 1
        /\ calls'[c][Len(calls[c]) + 1].size = n
        /\ \A d \in Conns : d # c => calls'[d] = calls[d]
        /\ read' = [read EXCEPT ![c] = IF req.keep THEN "headers" ELSE "none"]
        /\ state' = state
    BY <1>5, DispatchServes
  <2>2. read'[c] \in {"none", "headers"} /\ state'[c] = "open"
    <3>1. read'[c] = IF req.keep THEN "headers" ELSE "none"
      BY <2>1 DEF TypeOK
    <3>2. QED
      BY <1>1, <2>1, <3>1
  <2>3. \A d \in Conns : d # c => Same(d)
    BY <1>1, <2>1 DEF TypeOK, Same
  <2>4. PositionsOf(c)'
    BY <1>4, <2>1, <2>2
  <2>5. \A i \in 1 .. Len(calls'[c]) :
          \/ i \in 1 .. Len(calls[c]) /\ calls'[c][i] = calls[c][i]
          \/ /\ i = Len(calls[c]) + 1 /\ calls'[c][i].at = at
             /\ calls'[c][i].from = at + 1 /\ calls'[c][i].size = n
    <3> TAKE i \in 1 .. Len(calls'[c])
    <3>1. i \in 1 .. Len(calls[c]) \/ i = Len(calls[c]) + 1
      BY <1>2, <2>1
    <3>2. QED
      BY <2>1, <3>1
  <2>6. CallsOf(c)'
    <3> SUFFICES ASSUME NEW i \in 1 .. Len(calls'[c])
                 PROVE  /\ calls'[c][i].from = calls'[c][i].at + 1
                        /\ calls'[c][i].from + calls'[c][i].size - 1 <= at + n
                        /\ calls'[c][i].size = (IF req.post THEN req.content_length ELSE 0)
      BY <1>2, <2>2 DEF CallsOf
    <3>1. CASE i \in 1 .. Len(calls[c]) /\ calls'[c][i] = calls[c][i]
      BY <1>3, <3>1
    <3>2. CASE calls'[c][i].at = at /\ calls'[c][i].from = at + 1 /\ calls'[c][i].size = n
      BY <1>1, <3>2
    <3>3. QED
      BY <2>5, <3>1, <3>2
  <2>7. CallsInOrder'
    <3> SUFFICES ASSUME NEW d \in Conns, NEW i \in 1 .. Len(calls'[d]) - 1
                 PROVE  /\ calls'[d][i].at < calls'[d][i + 1].at
                        /\ calls'[d][i].from + calls'[d][i].size <= calls'[d][i + 1].at
      BY DEF CallsInOrder
    <3>1. CASE d # c
      BY <2>1, <3>1 DEF CallsInOrder
    <3>2. CASE d = c /\ i = Len(calls[c])
      <4>1. i \in 1 .. Len(calls[c])
        BY <1>2, <2>1, <3>2
      <4>2. calls'[c][i] = calls[c][i] /\ calls'[c][i + 1].at = at
        BY <2>1, <3>2, <4>1
      <4>3. /\ calls[c][i].at \in Nat /\ calls[c][i].size \in Nat
            /\ calls[c][i].from = calls[c][i].at + 1
            /\ calls[c][i].from + calls[c][i].size <= at
        BY <1>3, <4>1
      <4>4. calls[c][i].at < at
        <5>1. calls[c][i].at + 1 + calls[c][i].size <= at
          BY <4>3
        <5>2. QED
          BY <4>3, <5>1, StartsBefore
      <4>5. QED
        BY <3>2, <4>2, <4>3, <4>4
    <3>3. CASE d = c /\ i # Len(calls[c])
      <4>1. i \in 1 .. Len(calls[c]) - 1 /\ i + 1 \in 1 .. Len(calls[c])
        BY <1>2, <2>1, <3>3
      <4>2. calls'[c][i] = calls[c][i] /\ calls'[c][i + 1] = calls[c][i + 1]
        BY <1>2, <2>1, <4>1
      <4>3. QED
        BY <3>3, <4>1, <4>2 DEF CallsInOrder
    <3>4. QED
      BY <3>1, <3>2, <3>3
  <2>8. QED
    BY <2>3, <2>4, <2>6, <2>7, PositionsOfOne
<1>6. CASE req.uri \notin m_callback_funcs_
  <2>1. /\ state' = [state EXCEPT ![c] = "closed"]
        /\ read' = [read EXCEPT ![c] = "none"]
        /\ UNCHANGED <<calls, owes>>
    BY <1>6, DispatchDrops
  <2>2. read'[c] = "none" /\ state'[c] = "closed"
    BY <2>1 DEF TypeOK
  <2>3. \A d \in Conns : d # c => Same(d)
    BY <1>1, <2>1 DEF TypeOK, Same
  <2>4. PositionsOf(c)'
    BY <1>4, <2>2
  <2>5. CallsOf(c)'
    <3>1. ASSUME NEW i \in 1 .. Len(calls[c])
          PROVE  /\ calls[c][i].from = calls[c][i].at + 1
                 /\ calls[c][i].from + calls[c][i].size - 1 <= used'[c]
                 /\ calls[c][i].size = (IF m_request_'[c].post
                                        THEN m_request_'[c].content_length ELSE 0)
      <4>1. /\ m_request_'[c] = req /\ used'[c] = at + n
            /\ used[c] \in Nat /\ at \in Nat /\ n \in Nat
        BY <1>2
      <4>2. /\ calls[c][i].from \in Nat /\ calls[c][i].size \in Nat
            /\ calls[c][i].from = calls[c][i].at + 1
            /\ calls[c][i].from + calls[c][i].size <= at
            /\ calls[c][i].size = (IF req.post THEN req.content_length ELSE 0)
        BY <1>3
      <4>3. QED
        BY <4>1, <4>2
    <3>2. calls'[c] = calls[c] /\ read'[c] = "none"
      BY <2>1, <2>2
    <3>3. QED
      BY <3>1, <3>2 DEF CallsOf
  <2>6. CallsInOrder'
    BY <2>1 DEF CallsInOrder
  <2>7. QED
    BY <2>3, <2>4, <2>5, <2>6, PositionsOfOne
<1>7. QED
  BY <1>5, <1>6

-----------------------------------------------------------------------------
(* Tokens may be appended to a stream at once or one after the other. *)
LEMMA Associative == \A x, y, z \in Seq(Token) : (x \o y) \o z = x \o (y \o z)
<1> TAKE x, y, z \in Seq(Token)
<1>1. QED
  BY ConcatAssociative, SMTT(30)

(* What a peer sends lies behind what it sent before, and begins with a      *)
(* header block.                                                             *)
LEMMA SentEffect ==
  ASSUME TypeOK, NEW c \in Conns, NEW h \in Heads, PeerSend(c, h)
  PROVE  /\ stream'[c] \in Seq(Token) /\ Len(stream'[c]) > Len(stream[c])
         /\ \A i \in 1 .. Len(stream[c]) : stream'[c][i] = stream[c][i]
         /\ stream[c] # <<>> => stream'[c][1] = stream[c][1]
         /\ stream[c] = <<>> => stream'[c][1] = h
         /\ \A d \in Conns : d # c => stream'[d] = stream[d]
<1> DEFINE b == [i \in 1 .. h.body |-> BodyByte]
           t == <<h>> \o b
           s == stream[c] \o t
<1>1. h \in Token /\ BodyByte \in Token /\ h.body \in Nat
  BY HeadsAssumption DEF Token
<1>2. b \in Seq(Token) /\ <<h>> \in Seq(Token) /\ stream[c] \in Seq(Token)
  <2>1. b \in Seq(Token)
    BY <1>1, SeqDef
  <2>2. <<h>> \in Seq(Token) /\ stream[c] \in Seq(Token)
    BY <1>1 DEF TypeOK
  <2>3. QED
    BY <2>1, <2>2
<1> HIDE DEF b
<1>3. t \in Seq(Token) /\ Len(t) \in Nat /\ Len(t) >= 1 /\ t[1] = h
  <2>1. t \in Seq(Token) /\ Len(t) = 1 + Len(b) /\ t[1] = h
    BY <1>2, ConcatProperties
  <2>2. Len(b) \in Nat
    BY <1>2, LenProperties
  <2>3. QED
    BY <2>1, <2>2
<1> HIDE DEF t
<1>4. s \in Seq(Token) /\ Len(s) = Len(stream[c]) + Len(t)
      /\ \A i \in 1 .. Len(stream[c]) + Len(t) :
           s[i] = IF i <= Len(stream[c]) THEN stream[c][i] ELSE t[i - Len(stream[c])]
  BY <1>2, <1>3, ConcatProperties
<1>5. stream'[c] = s /\ \A d \in Conns : d # c => stream'[d] = stream[d]
  <2>1. (stream[c] \o <<h>>) \o b = stream[c] \o (<<h>> \o b)
    BY <1>2, Associative, Zenon
  <2>2. stream' = [stream EXCEPT ![c] = stream[c] \o <<h>> \o b]
        /\ stream \in [Conns -> Seq(Token)]
    BY DEF PeerSend, TypeOK, b
  <2>3. QED
    BY <2>1, <2>2 DEF t
<1> HIDE DEF s
<1>6. Len(stream[c]) \in Nat /\ (stream[c] = <<>> <=> Len(stream[c]) = 0)
  BY <1>2, LenProperties, EmptySeq
<1>7. Len(s) > Len(stream[c]) /\ \A i \in 1 .. Len(stream[c]) : s[i] = stream[c][i]
  <2>1. Len(s) = Len(stream[c]) + Len(t)
    BY <1>4
  <2>2. ASSUME NEW i \in 1 .. Len(stream[c]) PROVE s[i] = stream[c][i]
    <3>1. i \in 1 .. Len(stream[c]) + Len(t) /\ i <= Len(stream[c])
      BY <1>3, <1>6
    <3>2. QED
      BY <1>4, <3>1
  <2>3. QED
    BY <1>3, <1>6, <2>1, <2>2
<1>8. stream[c] # <<>> => s[1] = stream[c][1]
  BY <1>6, <1>7
<1>9. stream[c] = <<>> => s[1] = h
  BY <1>3, <1>4, <1>6
<1>10. QED
  BY <1>4, <1>5, <1>7, <1>8, <1>9

(* What is sent changes no place on a stream. *)
LEMMA SentPositions ==
  ASSUME TypeOK, Positions, NEW c \in Conns, NEW h \in Heads, PeerSend(c, h)
  PROVE  Positions'
<1>1. stream[c] \in Seq(Token)
  BY DEF TypeOK
<1>2. Len(stream[c]) \in Nat
  BY <1>1, LenProperties
<1>3. /\ stream'[c] \in Seq(Token) /\ Len(stream'[c]) > Len(stream[c])
      /\ stream[c] # <<>> => stream'[c][1] = stream[c][1]
      /\ stream[c] = <<>> => stream'[c][1] = h
      /\ \A d \in Conns : d # c => stream'[d] = stream[d]
  BY SentEffect
<1>4. stream'[c][1] \in Heads
  BY <1>3 DEF Positions, PositionsOf
<1>5. UNCHANGED <<state, got, used, read, need, parser, m_request_, calls>>
  BY DEF PeerSend, readVars, appVars
<1>6. \A d \in Conns : d # c => Same(d)
  BY <1>3, <1>5 DEF Same
<1>7. got'[c] <= Len(stream'[c])
  <2>1. got[c] <= Len(stream[c]) /\ got[c] \in Nat /\ Len(stream'[c]) \in Nat
    BY <1>3, LenProperties DEF Positions, PositionsOf, TypeOK
  <2>2. QED
    BY <1>2, <1>3, <1>5, <2>1
<1>8. read[c] = "body" => stream'[c][1] = stream[c][1]
  <2>1. read[c] = "body" /\ stream[c] = <<>> => FALSE
    <3> SUFFICES ASSUME read[c] = "body", stream[c] = <<>> PROVE FALSE
      OBVIOUS
    <3>1. Len(stream[c]) = 0
      BY <1>1, EmptySeq
    <3>2. used[c] <= got[c] /\ got[c] <= 0 /\ used[c] \in Nat /\ got[c] \in Nat
      BY <3>1 DEF Positions, PositionsOf, TypeOK
    <3>3. used[c] = 0
      BY <3>2
    <3>4. calls[c] # <<>>
      BY <3>3 DEF Positions, PositionsOf
    <3>5. 1 \in 1 .. Len(calls[c]) /\ calls[c][1] \in Call
      <4>1. calls[c] \in Seq(Call) /\ Len(calls[c]) \in Nat /\ Len(calls[c]) # 0
        BY <3>4, LenProperties, EmptySeq DEF TypeOK
      <4>2. QED
        BY <4>1
    <3>6. calls[c][1].from = calls[c][1].at + 1
          /\ calls[c][1].from + calls[c][1].size <= 0
      BY <3>3, <3>5 DEF Positions, CallsOf
    <3>7. calls[c][1].at \in Nat /\ calls[c][1].size \in Nat
      BY <3>5 DEF Call
    <3>8. calls[c][1].at + 1 + calls[c][1].size <= 0
      BY <3>6
    <3>9. calls[c][1].at < 0
      BY <3>7, <3>8, StartsBefore
    <3>10. QED
      BY <3>7, <3>9
  <2>2. QED
    BY <1>3, <2>1
<1>9. PositionsOf(c)'
  BY <1>4, <1>5, <1>7, <1>8 DEF Positions, PositionsOf
<1>10. CallsOf(c)'
  BY <1>5 DEF Positions, CallsOf
<1>11. QED
  BY <1>6, <1>9, <1>10, PositionsOfOne

(* A read_some moves got, and what a body read still needs by as much.      *)
LEMMA ArrivedPositions ==
  ASSUME TypeOK, Positions, NEW c \in Conns, NEW n \in Nat, ReadSome(c, n)
  PROVE  Positions'
<1>1. UNCHANGED <<state, stream, used, read, parser, m_request_, calls>>
  BY DEF ReadSome, appVars
<1>2. \A d \in Conns : d # c => Same(d)
  BY <1>1 DEF ReadSome, TypeOK, Same
<1>3. got[c] \in Nat /\ used[c] \in Nat /\ need[c] \in Nat
  BY DEF TypeOK
<1>4. got'[c] = got[c] + n /\ got[c] + n <= Len(stream[c])
  BY DEF ReadSome, TypeOK
<1>5. read[c] = "body" => need'[c] = need[c] - n
  BY DEF ReadSome, TypeOK
<1>6. used'[c] <= got'[c]
  BY <1>1, <1>3, <1>4 DEF Positions, PositionsOf
<1>7. read'[c] = "body" => need'[c] + got'[c] - used'[c] = m_request_'[c].content_length
  <2> SUFFICES ASSUME read[c] = "body"
               PROVE  (need[c] - n) + (got[c] + n) - used[c] = m_request_[c].content_length
    BY <1>1, <1>4, <1>5
  <2>1. need[c] + got[c] - used[c] = m_request_[c].content_length
    BY DEF Positions, PositionsOf
  <2>2. (need[c] - n) + (got[c] + n) - used[c] = need[c] + got[c] - used[c]
    BY <1>3
  <2>3. QED
    BY <2>1, <2>2
<1>8. PositionsOf(c)'
  BY <1>1, <1>4, <1>6, <1>7 DEF Positions, PositionsOf
<1>9. CallsOf(c)'
  BY <1>1 DEF Positions, CallsOf
<1>10. QED
  BY <1>2, <1>8, <1>9, PositionsOfOne

(* A connection begins to read with a new parser and an empty buffer.       *)
LEMMA StartedPositions ==
  ASSUME TypeOK, Sockets, Positions, HandleAccept
  PROVE  Positions'
<1>1. PICK c \in Conns : c = m_http_connection_ptr_ /\ state[c] = "accepted"
  BY DEF HandleAccept, Sockets
<1>2. calls[c] = <<>> /\ parser[c] = "method_start" /\ used[c] = 0
  BY <1>1 DEF Sockets, Positions, PositionsOf
<1>3. /\ state'[c] = "open" /\ read'[c] = "headers"
      /\ UNCHANGED <<stream, got, used, need, parser, m_request_, calls>>
  BY <1>1 DEF HandleAccept, StartConnection, TypeOK, inputVars, appVars
<1>4. \A d \in Conns : d # c => Same(d)
  BY <1>1, <1>3 DEF HandleAccept, StartConnection, TypeOK, Same
<1>5. PositionsOf(c)'
  BY <1>2, <1>3 DEF Positions, PositionsOf
<1>6. CallsOf(c)'
  <2>1. Len(calls'[c]) = 0
    BY <1>2, <1>3
  <2>2. QED
    BY <2>1 DEF CallsOf
<1>7. QED
  BY <1>1, <1>4, <1>5, <1>6, PositionsOfOne

(* Every step keeps buffer, request and callbacks in their places on the    *)
(* streams.                                                                 *)
LEMMA PositionsPreserved ==
  ASSUME TypeOK, Sockets, Positions, CallsInOrder, [Next]_vars
  PROVE  Positions' /\ CallsInOrder'
<1> USE DEF connVars, serverVars, readVars, inputVars, appVars
<1>1. CASE Startup \/ RunReturns \/ HandleAcceptError \/ UNCHANGED vars
  <2>1. (\A d \in Conns : Same(d)) /\ calls' = calls
    BY <1>1 DEF Startup, RunReturns, HandleAcceptError, vars, Same
  <2>2. QED
    BY <2>1, SamePositions DEF Positions, CallsInOrder
<1>2. CASE Stop
  <2>1. (\A d \in Conns : Same(d)) /\ calls' = calls
    BY <1>2 DEF TypeOK, Stop, StopAll, Same
  <2>2. QED
    BY <2>1, SamePositions DEF Positions, CallsInOrder
<1>3. CASE HandleAccept
  BY <1>3, StartedPositions DEF HandleAccept, CallsInOrder
<1>4. CASE HandleAcceptThrows
  <2>1. (\A d \in Conns : Same(d)) /\ calls' = calls
    BY <1>4 DEF TypeOK, Sockets, HandleAcceptThrows, Same
  <2>2. QED
    BY <2>1, SamePositions DEF Positions, CallsInOrder
<1>5. ASSUME NEW u \in Uris, AddHandle(u) PROVE Positions' /\ CallsInOrder'
  <2>1. (\A d \in Conns : Same(d)) /\ calls' = calls
    BY <1>5 DEF AddHandle, Same
  <2>2. QED
    BY <2>1, SamePositions DEF Positions, CallsInOrder
<1>6. ASSUME NEW c \in Conns, AcceptCompletes(c) PROVE Positions' /\ CallsInOrder'
  <2>1. (\A d \in Conns : Same(d)) /\ calls' = calls
    BY <1>6 DEF TypeOK, AcceptCompletes, Same
  <2>2. QED
    BY <2>1, SamePositions DEF Positions, CallsInOrder
<1>7. ASSUME NEW c \in Conns, NEW h \in Heads, PeerSend(c, h)
      PROVE  Positions' /\ CallsInOrder'
  BY <1>7, SentPositions DEF PeerSend, CallsInOrder
<1>8. ASSUME NEW c \in Conns,
             \/ PeerLeave(c, "eof") \/ PeerLeave(c, "reset") \/ WriteResponse(c)
             \/ HandleWriteStops(c) \/ HandleWriteDone(c) \/ AppStop(c)
      PROVE  Positions' /\ CallsInOrder'
  <2>1. (\A d \in Conns : Same(d)) /\ calls' = calls
    BY <1>8 DEF TypeOK, PeerLeave, WriteResponse, HandleWriteStops, HandleWriteDone,
                AppStop, StopConnection, Same
  <2>2. QED
    BY <2>1, SamePositions DEF Positions, CallsInOrder
<1>9. ASSUME NEW c \in Conns, Arrival(c) PROVE Positions' /\ CallsInOrder'
  <2>1. PICK n \in 1 .. Len(stream[c]) : ReadSome(c, n)
    BY <1>9 DEF Arrival
  <2>2. n \in Nat
    BY LenProperties DEF TypeOK
  <2>3. QED
    BY <2>1, <2>2, ArrivedPositions DEF ReadSome, CallsInOrder
<1>10. ASSUME NEW c \in Conns, Dropped(c) PROVE Positions' /\ CallsInOrder'
  BY <1>10, DroppedPositions DEF Dropped, CallsInOrder
<1>11. ASSUME NEW c \in Conns, BodyAwaited(c) PROVE Positions' /\ CallsInOrder'
  BY <1>11, AwaitedPositions DEF BodyAwaited, CallsInOrder
<1>12. ASSUME NEW c \in Conns, NEW req \in Request, NEW at \in Nat, NEW n \in Nat,
              Dispatched(c, req, at, n)
       PROVE  Positions' /\ CallsInOrder'
  BY <1>12, DispatchedPositions
<1>13. QED
  BY <1>1, <1>2, <1>3, <1>4, <1>5, <1>6, <1>7, <1>8, <1>9, <1>10, <1>11, <1>12,
     ReadDrops, ReadDispatches
     DEF Next, ConnStep, Peer, Handler, App, HandleRead


-----------------------------------------------------------------------------
(* Before the server starts nothing is open, sent, read or called.          *)
LEMMA InitIInv == Init => IInv
<1> SUFFICES ASSUME Init PROVE IInv
  OBVIOUS
<1> USE DEF Init, ConnInit
<1>1. TypeOK
  <2>1. m_request_ \in [Conns -> Request]
    <3>1. ASSUME NEW n \in Garbage PROVE NewRequest(n) \in Request
      <4>1. n \in Nat /\ NoUri \in Uris \cup {NoUri}
        BY <3>1, HeadsAssumption
      <4>2. FALSE \in BOOLEAN
        BY Zenon
      <4>3. QED
        BY <4>1, <4>2, RequestRecord DEF NewRequest
    <3>2. QED
      BY <3>1
  <2>2. /\ calls \in [Conns -> Seq(Call)]
        /\ stream \in [Conns -> Seq(Token)]
    OBVIOUS
  <2>3. acceptorOpen \in BOOLEAN /\ acceptFailed \in BOOLEAN
    BY Zenon
  <2>4. QED
    BY <2>1, <2>2, <2>3 DEF TypeOK
<1>2. Sockets
  BY DEF Sockets, RegistryMatchesSockets
<1>3. Progress
  BY DEF Progress, NoStrandedConnection, KeepsAccepting, StopDrains, ReturnsDrained
<1>4. Positions
  <2> SUFFICES ASSUME NEW c \in Conns PROVE PositionsOf(c) /\ CallsOf(c)
    BY DEF Positions
  <2>1. Len(calls[c]) = 0 /\ Len(stream[c]) = 0
    OBVIOUS
  <2>2. QED
    BY <2>1 DEF PositionsOf, CallsOf
<1>5. CallsInOrder
  <2> SUFFICES ASSUME NEW c \in Conns, NEW i \in 1 .. Len(calls[c]) - 1 PROVE FALSE
    BY DEF CallsInOrder
  <2>1. Len(calls[c]) = 0
    OBVIOUS
  <2>2. QED
    BY <2>1
<1>6. QED
  BY <1>1, <1>2, <1>3, <1>4, <1>5 DEF IInv

(* The four parts of the invariant hold in every reachable state; each step *)
(* needs all of them to keep one.                                           *)
THEOREM Invariance == Spec => []IInv
<1>1. Init => IInv
  BY InitIInv
<1>2. IInv /\ [Next]_vars => IInv'
  <2> SUFFICES ASSUME IInv, [Next]_vars PROVE IInv'
    OBVIOUS
  <2>1. TypeOK /\ Sockets /\ Progress /\ Positions /\ CallsInOrder
    BY DEF IInv
  <2>2. TypeOK' /\ Sockets' /\ Progress'
    BY <2>1, TypesPreserved, SocketsPreserved, ProgressPreserved
  <2>3. Positions' /\ CallsInOrder'
    BY <2>1, PositionsPreserved
  <2>4. QED
    BY <2>2, <2>3 DEF IInv
<1>3. QED
  BY <1>1, <1>2, PTL DEF Spec

(* Every variable of the connections and of the server keeps its type.      *)
THEOREM TypeCorrect == Spec => []TypeOK
<1>1. IInv => TypeOK
  BY DEF IInv
<1>2. QED
  BY <1>1, Invariance, PTL

(* The manager holds exactly the open sockets, in every interleaving of the *)
(* stops of handlers, application and server.                               *)
THEOREM RegistryIsTheOpenSockets == Spec => []RegistryMatchesSockets
<1>1. IInv => RegistryMatchesSockets
  BY DEF IInv, Sockets
<1>2. QED
  BY <1>1, Invariance, PTL

(* However many connections there are, none that is held is left without a  *)
(* read or a write to come.                                                 *)
THEOREM NoneIsStranded == Spec => []NoStrandedConnection
<1>1. IInv => NoStrandedConnection
  BY DEF IInv, Progress
<1>2. QED
  BY <1>1, Invariance, PTL

(* The accept chain of a server that was not stopped, and whose accepts     *)
(* never failed, is never broken.                                           *)
THEOREM AcceptChainHolds == Spec => []KeepsAccepting
<1>1. IInv => KeepsAccepting
  BY DEF IInv, Progress
<1>2. QED
  BY <1>1, Invariance, PTL

(* After stop at most the connection whose accept was under way is held.    *)
THEOREM StopLeavesAtMostOne == Spec => []StopDrains
<1>1. IInv => StopDrains
  BY DEF IInv, Progress
<1>2. QED
  BY <1>1, Invariance, PTL

(* run comes back only when the manager is empty.                           *)
THEOREM RunReturnsDrained == Spec => []ReturnsDrained
<1>1. IInv => ReturnsDrained
  BY DEF IInv, Progress
<1>2. QED
  BY <1>1, Invariance, PTL

(* A connection's callbacks are made in stream order, for disjoint parts of *)
(* the stream.                                                              *)
THEOREM CallbacksInOrder == Spec => []CallsInOrder
<1>1. IInv => CallsInOrder
  BY DEF IInv
<1>2. QED
  BY <1>1, Invariance, PTL

(* Every callback is made with the whole body its request announced,        *)
(* however the bytes were split between the header and the body read.       *)
THEOREM BodiesAreWhole == Spec => []BodyIsWhole
<1>1. IInv => BodyIsWhole
  <2> SUFFICES ASSUME IInv, NEW c \in Conns, NEW i \in 1 .. Len(calls[c])
               PROVE  calls[c][i].from + calls[c][i].size - 1 <= Len(stream[c])
    BY DEF BodyIsWhole, IInv, Positions, CallsOf
  <2>1. calls[c][i].from + calls[c][i].size - 1 <= used[c]
    BY DEF IInv, Positions, CallsOf
  <2>2. used[c] <= got[c] /\ got[c] <= Len(stream[c])
    BY DEF IInv, Positions, PositionsOf
  <2>3. /\ calls[c][i] \in Call /\ stream[c] \in Seq(Token)
        /\ used[c] \in Nat /\ got[c] \in Nat
    BY DEF IInv, TypeOK
  <2>4. /\ calls[c][i].from \in Nat /\ calls[c][i].size \in Nat
        /\ Len(stream[c]) \in Nat
    BY <2>3, LenProperties DEF Call
  <2>5. QED
    BY <2>1, <2>2, <2>3, <2>4, EndsWithin
<1>2. QED
  BY <1>1, Invariance, PTL


-----------------------------------------------------------------------------
(* A servable first request makes no read fail: not while its end is still  *)
(* to come, for it has been sent, nor by what it says.                      *)
LEMMA ServableIsNotDropped ==
  ASSUME IInv, NEW c \in Conns, state[c] = "open", calls[c] = <<>>, FirstIsServable(c),
         peer[c] # "reset", HandleReadFailed(c) \/ HeadersRefused(c)
  PROVE  FALSE
<1> DEFINE h == stream[c][1]
<1>1. TypeOK /\ Positions
  BY DEF IInv
<1>2. /\ used[c] \in Nat /\ got[c] \in Nat /\ need[c] \in Nat
      /\ stream[c] \in Seq(Token) /\ Len(stream[c]) \in Nat
  BY <1>1, LenProperties DEF TypeOK
<1>3. h \in Heads /\ h.form = "good" /\ IsHead(h)
      /\ (h.post => Normalised[h].length \in 1 .. MaxBody /\ Len(stream[c]) > Normalised[h].length)
  BY <1>1 DEF Positions, PositionsOf, FirstIsServable, FirstIsComplete, IsHead
<1>4. Len(stream[c]) >= 1
  <2>1. Len(stream[c]) # 0
    BY <1>2, EmptySeq DEF FirstIsServable, FirstIsComplete
  <2>2. QED
    BY <1>2, <2>1
<1>5. read[c] = "headers" => parser[c] = "method_start" /\ used[c] = 0
  BY <1>1 DEF Positions, PositionsOf
<1>6. CASE HandleReadFailed(c)
  <2>1. ~ReadSatisfied(c) /\ got[c] = Len(stream[c])
    BY <1>6 DEF HandleReadFailed, ReadError
  <2>2. CASE read[c] = "headers"
    <3>1. 1 \in used[c] + 1 .. got[c]
      BY <1>2, <1>4, <1>5, <2>1, <2>2
    <3>2. HasBlock(c)
      BY <1>3, <1>5, <2>2, <3>1 DEF HasBlock
    <3>3. QED
      BY <2>1, <2>2, <3>2 DEF ReadSatisfied
  <2>3. CASE read[c] = "body"
    <3>1. used[c] = 1 /\ h.post
          /\ (Normalised[h].length # Absent => need[c] + got[c] - used[c] = Normalised[h].length)
      BY <1>1, <2>3 DEF Positions, PositionsOf
    <3>2. need[c] + got[c] - 1 = Normalised[h].length /\ got[c] > Normalised[h].length
      BY <1>3, <2>1, <3>1 DEF Absent
    <3>3. Normalised[h].length \in Nat
      BY <1>3, <3>1
    <3>4. need[c] = 0
      BY <1>2, <3>2, <3>3
    <3>5. QED
      BY <2>1, <2>3, <3>4 DEF ReadSatisfied
  <2>4. QED
    BY <1>1, <1>6, <2>2, <2>3 DEF TypeOK, HandleReadFailed
<1>7. CASE HeadersRefused(c)
  <2>1. HeadersArrived(c) /\ read[c] = "headers"
    BY <1>7 DEF HeadersRefused, HeadersArrived
  <2>2. Accepted(c)
    BY <1>2, <1>3, <1>5, <2>1 DEF Accepted
  <2>3. Parsed(c).post = h.post /\ (Normalised[h].length # Absent => Parsed(c).content_length = Normalised[h].length)
    BY <1>1, <2>1, <2>2, ParsedFacts
  <2>4. ASSUME h.post PROVE ~BadLength(Normalised[h].length) /\ Normalised[h].length # Absent
    <3>1. \A n \in 1 .. MaxBody : ~BadLength(n) /\ n # Absent
      BY DEF BadLength, BodyLimit, MaxBody, Absent
    <3>2. QED
      BY <1>3, <2>4, <3>1
  <2>5. QED
    BY <1>7, <2>2, <2>3, <2>4 DEF HeadersRefused
<1>8. QED
  BY <1>6, <1>7

(* No schedule of arrivals, reads, writes and shutdowns closes a connection *)
(* before its servable first request has been handed over.                  *)
THEOREM FirstRequestServed == Spec => FirstRequestIsServed
<1> DEFINE Served ==
             \A c \in Conns :
               state[c] = "open" /\ state'[c] = "closed" /\ calls[c] = <<>>
                 => peer[c] = "reset" \/ Stop \/ ~FirstIsServable(c)
<1>1. IInv /\ [Next]_vars => [Served]_vars
  <2> SUFFICES ASSUME IInv, Next, ~Stop, NEW c \in Conns,
                      state[c] = "open", calls[c] = <<>>, FirstIsServable(c),
                      peer[c] # "reset"
               PROVE  state'[c] # "closed"
    OBVIOUS
  <2> USE DEF connVars, serverVars, readVars, inputVars, appVars
  <2>1. TypeOK /\ Sockets /\ Positions
    BY DEF IInv
  <2>2. CASE Startup \/ RunReturns \/ HandleAcceptError \/ HandleAccept \/ HandleAcceptThrows
    BY <2>1, <2>2 DEF Startup, RunReturns, HandleAcceptError, HandleAccept,
                      StartConnection, HandleAcceptThrows, TypeOK
  <2>3. CASE \E u \in Uris : AddHandle(u)
    BY <2>3 DEF AddHandle
  <2>4. ASSUME NEW d \in Conns, AcceptCompletes(d) PROVE state'[c] # "closed"
    BY <2>1, <2>4 DEF AcceptCompletes, TypeOK
  <2>5. ASSUME NEW d \in Conns, d # c, ConnStep(d) PROVE state'[c] # "closed"
    <3>1. state' = state \/ state' = [state EXCEPT ![d] = "closed"]
      BY <2>5 DEF ConnStep, Peer, PeerSend, PeerLeave, Arrival, ReadSome, Handler,
                  HandleRead, HandleReadFailed, HeadersRefused, HeadersDispatched,
                  HeadersAndBodyDispatched, BodyAwaited, BodyDispatched, Dispatch,
                  HandleWriteStops, HandleWriteDone, App, WriteResponse, AppStop,
                  StopConnection
    <3>2. QED
      BY <2>1, <2>5, <3>1 DEF TypeOK
  <2>6. CASE ConnStep(c)
    <3>1. CASE Peer(c) \/ Arrival(c)
      BY <3>1 DEF Peer, PeerSend, PeerLeave, Arrival, ReadSome
    <3>2. CASE HandleReadFailed(c) \/ HeadersRefused(c)
      BY <3>2, ServableIsNotDropped
    <3>3. CASE BodyAwaited(c)
      BY <3>3 DEF BodyAwaited
    <3>4. ASSUME NEW req \in Request, NEW at \in Nat, NEW n \in Nat,
                 Dispatched(c, req, at, n)
          PROVE  state'[c] # "closed"
      <4>1. req.uri \in m_callback_funcs_
        BY <3>4, NormalisedType DEF Dispatched, FirstIsServable
      <4>2. state' = state
        BY <2>1, <3>4, <4>1, DispatchServes
      <4>3. QED
        BY <4>2
    <3>5. CASE HandleWriteStops(c) \/ AppStop(c)
      <4>1. owes[c] \in Nat /\ writing[c] \in Nat /\ ~(owes[c] + writing[c] > 0)
        BY <2>1 DEF TypeOK, Sockets
      <4>2. QED
        BY <3>5, <4>1 DEF HandleWriteStops, AppStop
    <3>6. CASE HandleWriteDone(c) \/ WriteResponse(c)
      BY <3>6 DEF HandleWriteDone, WriteResponse
    <3>7. QED
      BY <2>1, <2>6, <3>1, <3>2, <3>3, <3>4, <3>5, <3>6, ReadDispatches
         DEF ConnStep, Handler, App, HandleRead
  <2>7. QED
    BY <2>2, <2>3, <2>4, <2>5, <2>6 DEF Next
<1>2. QED
  BY <1>1, Invariance, PTL DEF Spec, FirstRequestIsServed


-----------------------------------------------------------------------------
(* Refinement: each step is a step of the registry or leaves it alone.      *)
Closed == {c \in Conns : state[c] = "closed"}
Served == [c \in Conns |-> Len(calls[c])]
RegistryStep == Registry!Next \/ UNCHANGED <<m_http_connection_ptrs_, Closed, Served>>

(* A stop of one connection: the first one closes it, a second one finds it *)
(* closed.                                                                  *)
LEMMA StopIsClose ==
  ASSUME TypeOK, Sockets, NEW c \in Conns, StopConnection(c), calls' = calls,
         state[c] \in {"open", "closed"}
  PROVE  RegistryStep
<1>1. /\ m_http_connection_ptrs_' = m_http_connection_ptrs_ \ {c}
      /\ Closed' = Closed \cup {c} /\ Served' = Served
  BY DEF StopConnection, Closed, Served, TypeOK
<1>2. CASE state[c] = "open"
  <2>1. {c} \in SUBSET m_http_connection_ptrs_
    BY <1>2 DEF Sockets, RegistryMatchesSockets
  <2>2. Registry!Close({c})
    BY <1>1, <2>1 DEF Registry!Close, Closed, Served
  <2>3. QED
    BY <2>1, <2>2 DEF RegistryStep, Registry!Next
<1>3. CASE state[c] = "closed"
  <2>1. c \notin m_http_connection_ptrs_ /\ c \in Closed
    BY <1>3 DEF Sockets, RegistryMatchesSockets, Closed
  <2>2. QED
    BY <1>1, <2>1 DEF RegistryStep
<1>4. QED
  BY <1>2, <1>3

(* A dispatch serves the connection or stops it. *)
LEMMA DispatchIsServe ==
  ASSUME TypeOK, Sockets, NEW c \in Conns, NEW req \in Request, NEW at \in Nat,
         NEW n \in Nat, Dispatched(c, req, at, n)
  PROVE  RegistryStep
<1>1. state[c] = "open" /\ c \in m_http_connection_ptrs_
  BY DEF Dispatched, Sockets, RegistryMatchesSockets
<1>2. CASE req.uri \in m_callback_funcs_
  <2>1. /\ Len(calls'[c]) = Len(calls[c]) + 1
        /\ \A d \in Conns : d # c => calls'[d] = calls[d]
        /\ state' = state /\ m_http_connection_ptrs_' = m_http_connection_ptrs_
    BY <1>2, DispatchServes
  <2>2. Served' = [Served EXCEPT ![c] = @ + 1]
    BY <2>1 DEF Served
  <2>3. Closed' = Closed
    BY <2>1 DEF Closed
  <2>4. Registry!Serve(c)
    BY <1>1, <2>1, <2>2, <2>3 DEF Registry!Serve, Closed, Served
  <2>5. QED
    BY <2>4 DEF RegistryStep, Registry!Next
<1>3. CASE req.uri \notin m_callback_funcs_
  BY <1>1, <1>3, StopIsClose DEF Dispatched, Dispatch, appVars
<1>4. QED
  BY <1>2, <1>3

(* An accepted connection enters the registry, in which it never was. *)
LEMMA StartIsOpen ==
  ASSUME TypeOK, Sockets, HandleAccept \/ HandleAcceptThrows
  PROVE  RegistryStep
<1>1. PICK c \in Conns : c = m_http_connection_ptr_ /\ state[c] = "accepted"
  BY DEF HandleAccept, HandleAcceptThrows, Sockets
<1>2. /\ m_http_connection_ptrs_' = m_http_connection_ptrs_ \cup {c}
      /\ state' = [state EXCEPT ![c] = "open"] /\ calls' = calls
  BY <1>1 DEF HandleAccept, HandleAcceptThrows, StartConnection, appVars
<1>3. c \notin m_http_connection_ptrs_ \cup Closed
  BY <1>1 DEF Sockets, RegistryMatchesSockets, Closed
<1>4. Closed' = Closed /\ Served' = Served
  BY <1>1, <1>2 DEF Closed, Served, TypeOK
<1>5. Registry!Open(c)
  BY <1>2, <1>3, <1>4 DEF Registry!Open, Closed, Served
<1>6. QED
  BY <1>5 DEF RegistryStep, Registry!Next

(* http_server::stop closes all that the registry holds, at once. *)
LEMMA ServerStopIsClose ==
  ASSUME TypeOK, Sockets, Stop
  PROVE  RegistryStep
<1>1. PICK S \in SUBSET m_http_connection_ptrs_ : S = m_http_connection_ptrs_
  OBVIOUS
<1>2. /\ m_http_connection_ptrs_' = m_http_connection_ptrs_ \ S
      /\ Closed' = Closed \cup S /\ Served' = Served
  BY <1>1 DEF Stop, StopAll, Closed, Served, TypeOK, appVars
<1>3. Registry!Close(S)
  BY <1>1, <1>2 DEF Registry!Close, Closed, Served
<1>4. QED
  BY <1>3 DEF RegistryStep, Registry!Next

(* The server implements the registry: a connection enters it once, is      *)
(* served only while in it, and never returns to it.                        *)
THEOREM RefinesRegistry == Spec => ImplementsRegistry
<1>1. Init => Registry!Init
  BY DEF Init, ConnInit, Registry!Init
<1>2. IInv /\ [Next]_vars => RegistryStep
  <2> SUFFICES ASSUME IInv, [Next]_vars PROVE RegistryStep
    OBVIOUS
  <2> USE DEF connVars, serverVars, readVars, inputVars, appVars
  <2>1. TypeOK /\ Sockets /\ Positions
    BY DEF IInv
  <2>2. CASE HandleAccept \/ HandleAcceptThrows \/ Stop
    BY <2>1, <2>2, StartIsOpen, ServerStopIsClose
  <2>3. CASE \/ Startup \/ RunReturns \/ HandleAcceptError \/ UNCHANGED vars
             \/ \E u \in Uris : AddHandle(u)
    BY <2>3 DEF Startup, RunReturns, HandleAcceptError, vars, AddHandle, RegistryStep,
                Closed, Served
  <2>4. ASSUME NEW c \in Conns, AcceptCompletes(c) PROVE RegistryStep
    <3>1. Closed' = Closed
      BY <2>1, <2>4 DEF AcceptCompletes, Closed, TypeOK
    <3>2. QED
      BY <2>4, <3>1 DEF AcceptCompletes, RegistryStep, Served
  <2>5. ASSUME NEW c \in Conns, ConnStep(c) PROVE RegistryStep
    <3>1. CASE Peer(c) \/ Arrival(c) \/ BodyAwaited(c) \/ HandleWriteDone(c) \/ WriteResponse(c)
      BY <3>1 DEF Peer, PeerSend, PeerLeave, Arrival, ReadSome, BodyAwaited,
                  HandleWriteDone, WriteResponse, RegistryStep, Closed, Served
    <3>2. CASE Dropped(c)
      <4>1. state[c] \in {"open", "closed"}
        BY <2>1, <3>2 DEF Dropped, Sockets
      <4>2. QED
        BY <2>1, <3>2, <4>1, StopIsClose DEF Dropped
    <3>3. CASE HandleWriteStops(c) \/ AppStop(c)
      <4>1. calls[c] # <<>>
        <5>1. owes[c] \in Nat /\ writing[c] \in Nat
          BY <2>1 DEF TypeOK
        <5>2. writing[c] > 0 => owes[c] + writing[c] > 0
          BY <5>1
        <5>3. QED
          BY <2>1, <3>3, <5>2 DEF HandleWriteStops, AppStop, Sockets
      <4>2. state[c] \in {"open", "closed"}
        BY <2>1, <4>1 DEF Sockets
      <4>3. QED
        BY <2>1, <3>3, <4>2, StopIsClose DEF HandleWriteStops, AppStop
    <3>4. ASSUME NEW req \in Request, NEW at \in Nat, NEW n \in Nat,
                 Dispatched(c, req, at, n)
          PROVE  RegistryStep
      BY <2>1, <3>4, DispatchIsServe
    <3>5. QED
      BY <2>1, <2>5, <3>1, <3>2, <3>3, <3>4, ReadDrops, ReadDispatches
         DEF ConnStep, Handler, App, HandleRead
  <2>6. QED
    BY <2>2, <2>3, <2>4, <2>5 DEF Next
<1>3. RegistryStep => [Registry!Next]_(Registry!vars)
  BY DEF RegistryStep, Registry!vars, Closed, Served
<1>4. QED
  BY <1>1, <1>2, <1>3, Invariance, PTL DEF Spec, ImplementsRegistry, Registry!Spec



-----------------------------------------------------------------------------
(* Fields: what the request says once a parser has been through a block.    *)
FieldsOf(c) ==
  parser[c] = "expecting_newline_3" =>
    /\ stream[c] # <<>> /\ stream[c][1] \in Heads
    /\ m_request_[c].uri = Normalised[stream[c][1]].uri
    /\ m_request_[c].keep = Normalised[stream[c][1]].keep
    /\ Normalised[stream[c][1]].length # Absent =>
         m_request_[c].content_length = Normalised[stream[c][1]].length

Fields == \A c \in Conns : FieldsOf(c)

SameRequest(d) ==
  stream'[d] = stream[d] /\ parser'[d] = parser[d] /\ m_request_'[d] = m_request_[d]

(* A header read that the parser accepts leaves the fields it found. *)
TakesHeaders(c) ==
  /\ HeadersArrived(c) /\ Accepted(c)
  /\ stream' = stream /\ m_request_'[c] = Parsed(c)
  /\ \A d \in Conns : d # c => SameRequest(d)

LEMMA HeadersTaken ==
  ASSUME TypeOK, Positions, NEW c \in Conns,
         HeadersDispatched(c) \/ HeadersAndBodyDispatched(c) \/ BodyAwaited(c)
  PROVE  TakesHeaders(c)
<1>1. m_request_ \in [Conns -> Request]
      /\ parser \in [Conns -> {"method_start", "expecting_newline_3"}]
  BY DEF TypeOK
<1>2. /\ HeadersArrived(c) /\ Accepted(c) /\ UNCHANGED stream
      /\ parser' = [parser EXCEPT ![c] = "expecting_newline_3"]
      /\ m_request_' = [m_request_ EXCEPT ![c] = Parsed(c)]
  BY DEF HeadersDispatched, HeadersAndBodyDispatched, BodyAwaited, Dispatch
<1>3. QED
  BY <1>1, <1>2 DEF TakesHeaders, SameRequest

(* A first block that is taken gives its fields; another changes nothing.   *)
LEMMA TakenFields ==
  ASSUME TypeOK, Positions, Fields, NEW c \in Conns, TakesHeaders(c)
  PROVE  FieldsOf(c)'
<1> DEFINE h == stream[c][1]
<1>1. used[c] \in Nat /\ got[c] \in Nat /\ stream[c] \in Seq(Token)
      /\ parser[c] \in {"method_start", "expecting_newline_3"}
  BY DEF TypeOK
<1>2. UNCHANGED stream /\ m_request_'[c] = Parsed(c) /\ read[c] = "headers" /\ Accepted(c)
      /\ HasBlock(c)
  BY DEF TakesHeaders, HeadersArrived
<1>3. CASE parser[c] = "expecting_newline_3"
  <2>1. Parsed(c) = m_request_[c]
    BY <1>3 DEF Parsed
  <2>2. FieldsOf(c)
    BY DEF Fields
  <2>3. QED
    BY <1>2, <1>3, <2>1, <2>2 DEF FieldsOf
<1>4. CASE parser[c] = "method_start"
  <2>1. used[c] = 0 /\ (stream[c] # <<>> => h \in Heads) /\ got[c] <= Len(stream[c])
    BY <1>2, <1>4 DEF Positions, PositionsOf
  <2>2. stream[c] # <<>>
    <3>1. BlockEnd(c) \in used[c] + 1 .. got[c]
      BY <1>2, BlockEndIsFirst
    <3>2. QED
      BY <1>1, <2>1, <3>1, EmptySeq
  <2>3. Parsed(c) = [post |-> h.post, uri |-> Normalised[h].uri, keep |-> Normalised[h].keep,
                     content_length |-> IF Normalised[h].length = Absent
                                        THEN m_request_[c].content_length
                                        ELSE Normalised[h].length]
    BY <1>4, <2>1 DEF Parsed
  <2>4. /\ Parsed(c).uri = Normalised[h].uri /\ Parsed(c).keep = Normalised[h].keep
        /\ Normalised[h].length # Absent => Parsed(c).content_length = Normalised[h].length
    BY <2>3
  <2>5. UNCHANGED Normalised
    BY DEF Normalised
  <2>6. QED
    BY <1>2, <2>1, <2>2, <2>4, <2>5 DEF FieldsOf
<1>5. QED
  BY <1>1, <1>3, <1>4

(* What a peer sends after its first block does not change that one. *)
LEMMA SentFields ==
  ASSUME TypeOK, Fields, NEW c \in Conns, NEW h \in Heads, PeerSend(c, h)
  PROVE  Fields'
<1>1. SUFFICES ASSUME NEW d \in Conns PROVE FieldsOf(d)'
  BY DEF Fields
<1>2. FieldsOf(d) /\ UNCHANGED <<Normalised, parser, m_request_>>
  BY DEF Fields, Normalised, PeerSend
<1>3. stream[d] # <<>> => stream'[d] # <<>> /\ stream'[d][1] = stream[d][1]
  <2>1. CASE d = c
    <3>1. stream[c] \in Seq(Token) /\ Len(stream[c]) \in Nat
      BY LenProperties DEF TypeOK
    <3>2. /\ stream'[c] \in Seq(Token) /\ Len(stream'[c]) > Len(stream[c])
          /\ stream[c] # <<>> => stream'[c][1] = stream[c][1]
      BY SentEffect
    <3>3. stream'[c] # <<>>
      BY <3>1, <3>2, EmptySeq
    <3>4. QED
      BY <2>1, <3>2, <3>3
  <2>2. CASE d # c
    BY <2>2, SentEffect
  <2>3. QED
    BY <2>1, <2>2
<1>4. QED
  BY <1>2, <1>3 DEF FieldsOf

(* Every step keeps the fields those of the first block. *)
LEMMA FieldsPreserved ==
  ASSUME TypeOK, Positions, Fields, [Next]_vars
  PROVE  Fields'
<1> USE DEF connVars, serverVars, readVars, inputVars, appVars
<1>1. ASSUME \A d \in Conns : SameRequest(d) PROVE Fields'
  <2>1. ASSUME NEW d \in Conns PROVE FieldsOf(d)'
    <3>1. FieldsOf(d) /\ SameRequest(d)
      BY <1>1 DEF Fields
    <3>2. QED
      BY <3>1 DEF FieldsOf, SameRequest, Normalised
  <2>2. QED
    BY <2>1 DEF Fields
<1>2. CASE \/ Startup \/ RunReturns \/ HandleAcceptError \/ UNCHANGED vars
           \/ Stop \/ HandleAccept \/ HandleAcceptThrows
  <2>1. UNCHANGED <<stream, parser, m_request_>>
    BY <1>2 DEF Startup, RunReturns, HandleAcceptError, vars, Stop, HandleAccept,
                HandleAcceptThrows
  <2>2. QED
    BY <1>1, <2>1 DEF SameRequest
<1>3. ASSUME NEW u \in Uris, AddHandle(u) PROVE Fields'
  BY <1>1, <1>3 DEF AddHandle, SameRequest
<1>4. ASSUME NEW c \in Conns, AcceptCompletes(c) PROVE Fields'
  BY <1>1, <1>4 DEF AcceptCompletes, SameRequest
<1>5. ASSUME NEW c \in Conns,
             \/ PeerLeave(c, "eof") \/ PeerLeave(c, "reset") \/ WriteResponse(c)
             \/ HandleWriteStops(c) \/ HandleWriteDone(c) \/ AppStop(c)
             \/ HandleReadFailed(c) \/ HeadersRefused(c)
      PROVE  Fields'
  <2>1. UNCHANGED <<stream, parser, m_request_>>
    BY <1>5 DEF PeerLeave, WriteResponse, HandleWriteStops, HandleWriteDone, AppStop,
                HandleReadFailed, HeadersRefused
  <2>2. QED
    BY <1>1, <2>1 DEF SameRequest
<1>6. ASSUME NEW c \in Conns, Arrival(c) PROVE Fields'
  <2>1. UNCHANGED <<stream, parser, m_request_>>
    BY <1>6 DEF Arrival, ReadSome
  <2>2. QED
    BY <1>1, <2>1 DEF SameRequest
<1>7. ASSUME NEW c \in Conns, BodyDispatched(c) PROVE Fields'
  <2>1. m_request_ \in [Conns -> Request]
    BY DEF TypeOK
  <2>2. m_request_' = [m_request_ EXCEPT ![c] = m_request_[c]] /\ UNCHANGED <<stream, parser>>
    BY <1>7 DEF BodyDispatched, Dispatch
  <2>3. QED
    BY <1>1, <2>1, <2>2 DEF SameRequest
<1>8. ASSUME NEW c \in Conns,
             HeadersDispatched(c) \/ HeadersAndBodyDispatched(c) \/ BodyAwaited(c)
      PROVE  Fields'
  <2>1. TakesHeaders(c)
    BY <1>8, HeadersTaken
  <2>2. FieldsOf(c)'
    BY <2>1, TakenFields
  <2>3. ASSUME NEW d \in Conns, d # c PROVE FieldsOf(d)'
    <3>1. SameRequest(d) /\ FieldsOf(d)
      BY <2>1, <2>3 DEF TakesHeaders, Fields
    <3>2. QED
      BY <3>1 DEF FieldsOf, SameRequest, Normalised
  <2>4. QED
    BY <2>2, <2>3 DEF Fields
<1>9. ASSUME NEW c \in Conns, NEW h \in Heads, PeerSend(c, h) PROVE Fields'
  BY <1>9, SentFields
<1>10. QED
  BY <1>2, <1>3, <1>4, <1>5, <1>6, <1>7, <1>8, <1>9
     DEF Next, ConnStep, Peer, Handler, App, HandleRead

(* operator[] finds the first header of the name, when no other name starts *)
(* with the key.                                                            *)
LEMMA ValueOfTheFirst ==
  ASSUME NEW hs \in Seq(Header), NEW key,
         \A i \in 1 .. Len(hs) : Matches(hs[i].name, key) <=> hs[i].name = key
  PROVE  /\ \A i \in 1 .. Len(hs) : FirstNamed(hs, key, i) => ValueOf(hs, key) = hs[i].value
         /\ ValueOf(hs, key) # Empty => \E i \in 1 .. Len(hs) : FirstNamed(hs, key, i)
<1> DEFINE T == Hits(hs, key)
           first == CHOOSE k \in T : \A j \in T : k <= j
<1>1. Len(hs) \in Nat
  BY LenProperties
<1>2. /\ T \in SUBSET Nat /\ T \subseteq 1 .. Len(hs)
      /\ \A i \in 1 .. Len(hs) : i \in T <=> hs[i].name = key
  BY <1>1 DEF Hits
<1>3. CASE T = {}
  BY <1>2, <1>3 DEF ValueOf, FirstNamed
<1>4. CASE T # {}
  <2>1. ValueOf(hs, key) = hs[first].value
    BY <1>4 DEF ValueOf
  <2> HIDE DEF T
  <2>2. PICK k \in T : \A j \in T : ~(j < k)
    BY <1>2, <1>4, LeastElement
  <2>3. \A j \in T : k <= j
    BY <1>1, <1>2, <2>2
  <2>4. first \in T /\ \A j \in T : first <= j
    BY <2>3
  <2> HIDE DEF first
  <2>5. FirstNamed(hs, key, first)
    BY <1>1, <1>2, <2>4 DEF FirstNamed
  <2>6. ASSUME NEW i \in 1 .. Len(hs), FirstNamed(hs, key, i) PROVE i = first
    <3>1. i \in T /\ first <= i
      BY <1>2, <2>4, <2>6 DEF FirstNamed
    <3>2. ~(first < i)
      BY <1>1, <1>2, <2>4, <2>6 DEF FirstNamed
    <3>3. QED
      BY <1>1, <1>2, <2>4, <3>1, <3>2
  <2>7. QED
    BY <1>2, <2>1, <2>4, <2>5, <2>6
<1>5. QED
  BY <1>3, <1>4

(* What operator >> stores is the number modulo the width. *)
LEMMA ExtractedIsModulo ==
  ASSUME NEW v, v.text = "number", NEW n \in -ULongMax .. ULongMax, v.number = n
  PROVE  Extracted(v) \in 0 .. ULongMax /\ Extracted(v) \in {n, n + ULongMax + 1}
<1>1. Extracted(v) = IF n > ULongMax \/ n < -ULongMax THEN ULongMax
                     ELSE IF n < 0 THEN ULongMax + 1 + n ELSE n
  BY DEF Extracted
<1>2. QED
  BY <1>1, ULongMaxAssumption

(* What normalise finds is what the headers say. *)
LEMMA NormalisedIsSaid ==
  ASSUME NEW h \in Heads, NEW hs, hs = h.headers,
         \A i \in 1 .. Len(hs) : hs[i].name \in {"content-length", "connection", "other"},
         NEW n, Normalised[h].length # Absent => n = Normalised[h].length
  PROVE  (Normalised[h].keep <=> SayKeepAlive(hs)) /\ SayLength(hs, n)
<1>1. hs \in Seq(Header)
  BY HeadsAssumption
<1>2. Normalised[h] = [uri |-> to_lower[h.uri], keep |-> KeepAlive(hs),
                       length |-> ContentLength(hs)]
  BY DEF Normalised
<1>3. Normalised[h].keep = KeepAlive(hs) /\ Normalised[h].length = ContentLength(hs)
  BY <1>2
<1>4. \A i \in 1 .. Len(hs) :
        /\ Matches(hs[i].name, "connection") <=> hs[i].name = "connection"
        /\ Matches(hs[i].name, "content-length") <=> hs[i].name = "content-length"
  BY DEF Matches
<1>5. KeepAlive(hs) <=> SayKeepAlive(hs)
  <2>1. /\ \A i \in 1 .. Len(hs) : FirstNamed(hs, "connection", i)
                                      => ValueOf(hs, "connection") = hs[i].value
        /\ ValueOf(hs, "connection") # Empty
             => \E i \in 1 .. Len(hs) : FirstNamed(hs, "connection", i)
    BY <1>1, <1>4, ValueOfTheFirst
  <2>2. Empty.text # "keep-alive"
    BY DEF Empty
  <2>3. QED
    BY <2>1, <2>2 DEF KeepAlive, SayKeepAlive
<1>6. ASSUME NEW i \in 1 .. Len(hs), FirstNamed(hs, "content-length", i),
             hs[i].value.text = "number", hs[i].value.number \in -ULongMax .. ULongMax
      PROVE  n \in {hs[i].value.number, hs[i].value.number + ULongMax + 1}
  <2>1. ValueOf(hs, "content-length") = hs[i].value
    BY <1>1, <1>4, <1>6, ValueOfTheFirst
  <2>2. ContentLength(hs) = Extracted(hs[i].value)
    BY <1>6, <2>1 DEF ContentLength
  <2>3. /\ Extracted(hs[i].value) \in 0 .. ULongMax
        /\ Extracted(hs[i].value) \in {hs[i].value.number, hs[i].value.number + ULongMax + 1}
    BY <1>6, ExtractedIsModulo
  <2>4. QED
    BY <1>3, <2>2, <2>3, ULongMaxAssumption DEF Absent
<1>7. SayLength(hs, n)
  BY <1>6 DEF SayLength
<1>8. QED
  BY <1>3, <1>5, <1>7

(* What the handlers go by is what the first block's headers say, whatever  *)
(* blocks follow on the connection and however they arrive: the first       *)
(* header of a name counts, and a number is taken modulo its width.         *)
THEOREM FieldsAreRight == Spec => []FieldsAreTheHeaders
<1>1. Init => Fields
  <2>1. Init => \A c \in Conns : parser[c] = "method_start"
    BY DEF Init, ConnInit
  <2>2. QED
    BY <2>1 DEF Fields, FieldsOf
<1>2. IInv /\ Fields /\ [Next]_vars => Fields'
  BY FieldsPreserved DEF IInv
<1>3. ASSUME Fields, NEW c \in Conns, parser[c] = "expecting_newline_3",
             NEW hs, hs = stream[c][1].headers, NEW req, req = m_request_[c]
      PROVE  /\ req.uri = to_lower[stream[c][1].uri]
             /\ (\A i \in 1 .. Len(hs) : hs[i].name \in {"content-length", "connection", "other"})
                  => (req.keep <=> SayKeepAlive(hs)) /\ SayLength(hs, req.content_length)
  <2> DEFINE h == stream[c][1]
  <2>1. /\ h \in Heads /\ req.uri = Normalised[h].uri /\ req.keep = Normalised[h].keep
        /\ Normalised[h].length # Absent => req.content_length = Normalised[h].length
    BY <1>3 DEF Fields, FieldsOf
  <2>2. Normalised[h].uri = to_lower[h.uri]
    BY <2>1, NormalisedType
  <2>3. ASSUME \A i \in 1 .. Len(hs) : hs[i].name \in {"content-length", "connection", "other"}
        PROVE  (Normalised[h].keep <=> SayKeepAlive(hs)) /\ SayLength(hs, req.content_length)
    BY <1>3, <2>1, <2>3, NormalisedIsSaid
  <2>4. QED
    BY <2>1, <2>2, <2>3
<1>4. Fields => FieldsAreTheHeaders
  BY <1>3 DEF FieldsAreTheHeaders
<1>5. QED
  BY <1>1, <1>2, <1>4, Invariance, PTL DEF Spec

(* The request a callback was given stays the connection's request: when    *)
(* its answer has been written, handle_write goes by the keep_alive of that *)
(* request, though header blocks may have been parsed meanwhile.            *)
RequestsStay ==
  [][\A c \in Conns : calls[c] # <<>> => m_request_'[c] = m_request_[c]]_vars

THEOREM HandedOverRequestStays == Spec => RequestsStay
<1>1. ASSUME IInv, [Next]_vars, NEW c \in Conns, calls[c] # <<>>
      PROVE  m_request_'[c] = m_request_[c]
  <2> USE DEF connVars, serverVars, readVars, inputVars, appVars
  <2>1. TypeOK /\ Positions /\ m_request_ \in [Conns -> Request]
        /\ parser[c] = "expecting_newline_3"
    BY <1>1 DEF IInv, TypeOK, Positions, PositionsOf
  <2>2. ASSUME NEW d \in Conns,
               HeadersDispatched(d) \/ HeadersAndBodyDispatched(d) \/ BodyAwaited(d)
        PROVE  m_request_'[c] = m_request_[c]
    <3>1. TakesHeaders(d)
      BY <2>1, <2>2, HeadersTaken
    <3>2. CASE d = c
      BY <2>1, <3>1, <3>2 DEF TakesHeaders, Parsed
    <3>3. CASE d # c
      BY <3>1, <3>3 DEF TakesHeaders, SameRequest
    <3>4. QED
      BY <3>2, <3>3
  <2>3. ASSUME NEW d \in Conns, BodyDispatched(d) PROVE m_request_'[c] = m_request_[c]
    <3>1. m_request_' = [m_request_ EXCEPT ![d] = m_request_[d]]
      BY <2>3 DEF BodyDispatched, Dispatch
    <3>2. QED
      BY <2>1, <3>1
  <2>4. ASSUME NEW d \in Conns,
               \/ HandleReadFailed(d) \/ HeadersRefused(d) \/ Arrival(d)
               \/ HandleWriteStops(d) \/ HandleWriteDone(d) \/ WriteResponse(d)
               \/ AppStop(d) \/ AcceptCompletes(d) \/ Peer(d)
        PROVE  m_request_' = m_request_
    BY <2>4 DEF HandleReadFailed, HeadersRefused, Arrival, ReadSome, HandleWriteStops,
                HandleWriteDone, WriteResponse, AppStop, AcceptCompletes, Peer, PeerSend,
                PeerLeave
  <2>5. CASE \/ Startup \/ Stop \/ RunReturns \/ HandleAccept \/ HandleAcceptThrows
             \/ HandleAcceptError \/ UNCHANGED vars \/ \E u \in Uris : AddHandle(u)
    BY <2>5 DEF Startup, Stop, RunReturns, HandleAccept, HandleAcceptThrows,
                HandleAcceptError, vars, AddHandle
  <2>6. QED
    BY <1>1, <2>2, <2>3, <2>4, <2>5 DEF Next, ConnStep, Handler, App, HandleRead
<1>2. IInv /\ [Next]_vars
        => [\A c \in Conns : calls[c] # <<>> => m_request_'[c] = m_request_[c]]_vars
  BY <1>1
<1>3. QED
  BY <1>2, Invariance, PTL DEF Spec, RequestsStay

-----------------------------------------------------------------------------
(* The handler of the outstanding read of c is queued: the read has what it *)
(* waits for, cannot get it, or was aborted.                                *)
ReadEnds(c) ==
  /\ read[c] # "none"
  /\ \/ state[c] = "closed"
     \/ state[c] = "open" /\ (ReadSatisfied(c) \/ ReadError(c))

(* A read that has ended stays so, whatever peer, application and the other *)
(* connections do, until its handler runs: the io_service owes that handler *)
(* a turn, and weak fairness is all that is asked of it.                    *)
ReadHandlersStayQueued ==
  [][\A c \in Conns : ReadEnds(c) => ReadEnds(c)' \/ HandleRead(c)]_vars

(* What keeps an ended read ended. *)
LEMMA EndedReadStays ==
  ASSUME TypeOK, NEW c \in Conns, ReadEnds(c), read'[c] = read[c],
         state'[c] = state[c] \/ state'[c] = "closed",
         got'[c] = got[c], used'[c] = used[c], need'[c] = need[c],
         \/ stream'[c] = stream[c] /\ (peer'[c] = peer[c] \/ peer'[c] = "reset")
         \/ state[c] = "closed"
         \/ ReadSatisfied(c) /\ (HasBlock(c) => HasBlock(c)')
  PROVE  ReadEnds(c)'
BY DEF ReadEnds, ReadSatisfied, ReadError, HasBlock

(* A step that leaves the read of c alone, though it may stop c. *)
Undisturbed(c) ==
  /\ read'[c] = read[c] /\ (state'[c] = state[c] \/ state'[c] = "closed")
  /\ got'[c] = got[c] /\ used'[c] = used[c] /\ need'[c] = need[c]
  /\ stream'[c] = stream[c] /\ (peer'[c] = peer[c] \/ peer'[c] = "reset")

(* The handlers of another connection are such steps ... *)
LEMMA OthersDoNotDisturb ==
  ASSUME TypeOK, Positions, NEW c \in Conns, NEW d \in Conns, d # c, HandleRead(d)
  PROVE  Undisturbed(c)
<1> USE DEF TypeOK, Undisturbed, appVars
<1>1. CASE Dropped(d)
  BY <1>1 DEF Dropped, StopConnection
<1>2. CASE BodyAwaited(d)
  BY <1>2 DEF BodyAwaited
<1>3. ASSUME NEW req \in Request, NEW at \in Nat, NEW n \in Nat, Dispatched(d, req, at, n)
      PROVE  Undisturbed(c)
  <2>1. /\ used' = [used EXCEPT ![d] = at + 1 + n - 1]
        /\ state' = state \/ state' = [state EXCEPT ![d] = "closed"]
        /\ \E r \in {"none", "headers"} : read' = [read EXCEPT ![d] = r]
        /\ UNCHANGED <<peer, stream, got, need>>
    BY <1>3 DEF Dispatched, Dispatch, StopConnection
  <2>2. QED
    BY <2>1
<1>4. QED
  BY <1>1, <1>2, <1>3, ReadDrops, ReadDispatches DEF HandleRead

(* ... and so is what server and application do.                            *)
LEMMA ServerDoesNotDisturb ==
  ASSUME TypeOK, Sockets, NEW c \in Conns, ReadEnds(c),
         \/ Startup \/ Stop \/ RunReturns \/ HandleAccept \/ HandleAcceptThrows
         \/ HandleAcceptError \/ UNCHANGED vars
         \/ \E u \in Uris : AddHandle(u)
         \/ \E d \in Conns : \/ AcceptCompletes(d) \/ WriteResponse(d) \/ AppStop(d)
                             \/ HandleWriteStops(d) \/ HandleWriteDone(d)
  PROVE  Undisturbed(c)
<1> USE DEF TypeOK, Undisturbed, connVars, readVars, inputVars, appVars
<1>1. state[c] \in {"open", "closed"}
  BY DEF ReadEnds
<1>2. CASE Startup \/ RunReturns \/ HandleAcceptError \/ UNCHANGED vars
           \/ \E u \in Uris : AddHandle(u)
  BY <1>2 DEF Startup, RunReturns, HandleAcceptError, vars, AddHandle
<1>3. CASE Stop
  BY <1>3 DEF Stop, StopAll
<1>4. CASE HandleAccept
  BY <1>1, <1>4 DEF HandleAccept, StartConnection, Sockets
<1>5. CASE HandleAcceptThrows
  BY <1>1, <1>5 DEF HandleAcceptThrows, Sockets
<1>6. ASSUME NEW d \in Conns, AcceptCompletes(d) PROVE Undisturbed(c)
  BY <1>1, <1>6 DEF AcceptCompletes
<1>7. ASSUME NEW d \in Conns, WriteResponse(d) \/ HandleWriteDone(d) PROVE Undisturbed(c)
  BY <1>7 DEF WriteResponse, HandleWriteDone
<1>8. ASSUME NEW d \in Conns, AppStop(d) \/ HandleWriteStops(d) PROVE Undisturbed(c)
  BY <1>8 DEF AppStop, HandleWriteStops, StopConnection
<1>9. QED
  BY <1>2, <1>3, <1>4, <1>5, <1>6, <1>7, <1>8

(* What peers do, and bytes that arrive, leave a read ended that was. *)
LEMMA PeersDoNotDisturb ==
  ASSUME TypeOK, Positions, NEW c \in Conns, ReadEnds(c), NEW d \in Conns, Peer(d) \/ Arrival(d)
  PROVE  ReadEnds(c)'
<1>1. CASE Arrival(d)
  <2>1. PICK n \in 1 .. Len(stream[d]) : ReadSome(d, n)
    BY <1>1 DEF Arrival
  <2>2. n \in Nat /\ n >= 1 /\ got[d] \in Nat /\ Len(stream[d]) \in Nat
    BY LenProperties DEF TypeOK
  <2>3. d # c
    BY <2>1, <2>2 DEF ReadSome, ReadEnds, ReadError
  <2>4. Undisturbed(c)
    BY <2>1, <2>3 DEF ReadSome, TypeOK, Undisturbed
  <2>5. QED
    BY <2>4, EndedReadStays DEF Undisturbed
<1>2. ASSUME NEW how \in {"eof", "reset"}, PeerLeave(d, how) PROVE ReadEnds(c)'
  <2>1. /\ state' = state /\ stream' = stream /\ got' = got
        /\ used' = used /\ read' = read /\ need' = need
        /\ peer' = [peer EXCEPT ![d] = how] /\ peer \in [Conns -> {"none", "open", "eof", "reset"}]
        /\ peer[d] = "open" \/ how = "reset"
    BY <1>2 DEF PeerLeave, readVars, TypeOK
  <2>2. CASE d # c \/ how = "reset"
    <3>1. peer'[c] = peer[c] \/ peer'[c] = "reset"
      BY <2>1, <2>2
    <3>2. QED
      BY <2>1, <3>1, EndedReadStays
  <2>3. CASE d = c /\ peer[c] = "open"
    <3>1. state[c] = "closed" \/ ReadSatisfied(c)
      BY <2>3 DEF ReadEnds, ReadError
    <3>2. HasBlock(c) => HasBlock(c)'
      BY <2>1 DEF HasBlock
    <3>3. QED
      BY <2>1, <3>1, <3>2, EndedReadStays
  <2>4. QED
    BY <2>1, <2>2, <2>3
<1>3. ASSUME NEW h \in Heads, PeerSend(d, h) PROVE ReadEnds(c)'
  <2>1. UNCHANGED <<state, peer, got, used, read, need>> /\ peer[d] = "open"
    BY <1>3 DEF PeerSend, readVars
  <2>2. CASE d # c
    <3>1. stream'[c] = stream[c]
      BY <1>3, <2>2, SentEffect
    <3>2. QED
      BY <2>1, <3>1, EndedReadStays
  <2>3. CASE d = c
    <3>1. state[c] = "closed" \/ ReadSatisfied(c)
      BY <2>1, <2>3 DEF ReadEnds, ReadError
    <3>2. \A i \in used[c] + 1 .. got[c] : stream'[c][i] = stream[c][i]
      <4>1. \A i \in 1 .. Len(stream[c]) : stream'[c][i] = stream[c][i]
        BY <1>3, <2>3, SentEffect
      <4>2. got[c] <= Len(stream[c]) /\ got[c] \in Nat /\ used[c] \in Nat /\ stream[c] \in Seq(Token)
        BY DEF Positions, PositionsOf, TypeOK
      <4>3. Len(stream[c]) \in Nat
        BY <4>2, LenProperties
      <4>4. QED
        BY <4>1, <4>2, <4>3
    <3>3. HasBlock(c) => HasBlock(c)'
      BY <2>1, <3>2 DEF HasBlock, IsHead
    <3>4. QED
      BY <2>1, <3>1, <3>3, EndedReadStays
  <2>4. QED
    BY <2>2, <2>3
<1>4. QED
  BY <1>1, <1>2, <1>3 DEF Peer

THEOREM ReadHandlersAreOwedOneTurn == Spec => ReadHandlersStayQueued
<1>1. ASSUME IInv, [Next]_vars, NEW c \in Conns, ReadEnds(c), ~HandleRead(c)
      PROVE  ReadEnds(c)'
  <2>1. TypeOK /\ Sockets /\ Positions
    BY <1>1 DEF IInv
  <2>2. CASE Undisturbed(c)
    BY <1>1, <2>1, <2>2, EndedReadStays DEF Undisturbed
  <2>3. ASSUME NEW d \in Conns, Peer(d) \/ Arrival(d) PROVE ReadEnds(c)'
    BY <1>1, <2>1, <2>3, PeersDoNotDisturb
  <2>4. ASSUME NEW d \in Conns, HandleRead(d) PROVE Undisturbed(c)
    BY <1>1, <2>1, <2>4, OthersDoNotDisturb
  <2>5. QED
    BY <1>1, <2>1, <2>2, <2>3, <2>4, ServerDoesNotDisturb DEF Next, ConnStep, Handler, App
<1>2. IInv /\ [Next]_vars
        => [\A c \in Conns : ReadEnds(c) => ReadEnds(c)' \/ HandleRead(c)]_vars
  BY <1>1
<1>3. QED
  BY <1>2, Invariance, PTL DEF Spec, ReadHandlersStayQueued
=============================================================================
