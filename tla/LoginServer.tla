---------------------------- MODULE LoginServer ----------------------------
(***************************************************************************)
(* login_server: an acceptor, the set of sessions sessionMgr holds, and    *)
(* per session one read that prints what it got and reads again.  All      *)
(* handlers run on the thread that called io_service::run.  Nothing in the *)
(* program calls do_write or stop_all, and nothing closes the acceptor.    *)
(*                                                                         *)
(* m_buffer_ holds positions of the peer's byte stream, 0 for a NUL, and   *)
(* Junk where nothing was written yet.  Its last cell is the byte behind   *)
(* the buffer: a read that fills the buffer puts its terminator there.     *)
(***************************************************************************)
EXTENDS Integers, Sequences, FiniteSets

CONSTANTS
  Sessions,    \* session objects (bound: sessions ever accepted)
  BufferSize,  \* 8192 in the code
  MaxBytes     \* bound: bytes sent on all sessions

ASSUME SizesAssumption == BufferSize \in Nat \ {0} /\ MaxBytes \in Nat

VARIABLES
  proc,        \* starting, failed (the constructor threw), running, returned, terminated
  accept,      \* none, pending, done (handler queued)
  accepting,   \* the session made for the accept, once a peer is there
  acceptFailed,\* history: an accept failed
  m_sessions_, \* the sessions sessionMgr holds
  state,       \* of each socket: unused, accepted, open, closed
  peer,        \* what the peer has done with its end: none, open, eof, reset
  stream,      \* everything the peer has sent: chars and NULs
  got,         \* how much of it was read
  reading,     \* an async_read_some is outstanding
  m_buffer_,
  printed,     \* history: the positions cout has printed
  reads,       \* history: how often data was handed to the session
  overrun      \* a terminator was written behind a buffer

serverVars  == <<proc, accept, accepting, acceptFailed>>
peerVars    == <<peer, stream>>
bufferVars  == <<got, m_buffer_, printed, reads, overrun>>
vars == <<serverVars, m_sessions_, state, reading, peerVars, bufferVars>>

NoSession == "no session"
Junk == -1
Cells == 1 .. BufferSize + 1

-----------------------------------------------------------------------------
Init ==
  /\ proc = "starting" /\ accept = "none" /\ accepting = NoSession
  /\ acceptFailed = FALSE
  /\ m_sessions_ = {}
  /\ state = [s \in Sessions |-> "unused"]
  /\ peer = [s \in Sessions |-> "none"]
  /\ stream = [s \in Sessions |-> <<>>]
  /\ got = [s \in Sessions |-> 0]
  /\ reading = [s \in Sessions |-> FALSE]
  /\ m_buffer_ = [s \in Sessions |-> [i \in Cells |-> Junk]]
  /\ printed = [s \in Sessions |-> <<>>]
  /\ reads = [s \in Sessions |-> 0]
  /\ overrun = FALSE

(* The constructor opens the acceptor and starts the first accept; main     *)
(* catches what it throws.                                                  *)
Construct ==
  /\ proc = "starting"
  /\ \/ proc' = "running" /\ accept' = "pending"
     \/ proc' = "failed" /\ UNCHANGED accept
  /\ UNCHANGED <<accepting, acceptFailed, m_sessions_, state, reading, peerVars, bufferVars>>

(* A peer connects to the session made for the accept. *)
AcceptCompletes(s) ==
  /\ proc = "running" /\ accept = "pending"
  /\ state[s] = "unused"
  /\ accept' = "done" /\ accepting' = s
  /\ state' = [state EXCEPT ![s] = "accepted"]
  /\ peer' = [peer EXCEPT ![s] = "open"]
  /\ UNCHANGED <<proc, acceptFailed, m_sessions_, stream, reading, bufferVars>>

(* The definitions whose names say what went wrong (..._StartsNoAccept and  *)
(* the like) are faulty variants of the one they precede; the runs use them *)
(* to show that the properties would notice.                                *)
HandleAccept_StartsNoAccept ==
  /\ proc = "running" /\ accept = "done"
  /\ m_sessions_' = m_sessions_ \cup {accepting}
  /\ state' = [state EXCEPT ![accepting] = "open"]
  /\ reading' = [reading EXCEPT ![accepting] = TRUE]
  /\ accept' = "none"
  /\ UNCHANGED <<proc, accepting, acceptFailed, peerVars, bufferVars>>

(* The handler of do_acceptor: sessionMgr::start inserts the session and    *)
(* starts its first read; then the next accept.                             *)
HandleAccept ==
  /\ proc = "running" /\ accept = "done"
  /\ m_sessions_' = m_sessions_ \cup {accepting}
  /\ state' = [state EXCEPT ![accepting] = "open"]
  /\ reading' = [reading EXCEPT ![accepting] = TRUE]
  /\ accept' = "pending"
  /\ UNCHANGED <<proc, accepting, acceptFailed, peerVars, bufferVars>>

HandleAcceptError_StartsAnyway ==
  /\ proc = "running" /\ accept = "pending"
  /\ m_sessions_' = m_sessions_ \cup {accepting}
  /\ accept' = "none" /\ acceptFailed' = TRUE
  /\ UNCHANGED <<proc, accepting, state, reading, peerVars, bufferVars>>

(* The handler of a failed accept returns without starting another.         *)
HandleAcceptError ==
  /\ proc = "running" /\ accept = "pending"
  /\ accept' = "none" /\ acceptFailed' = TRUE
  /\ UNCHANGED <<proc, accepting, m_sessions_, state, reading, peerVars, bufferVars>>

-----------------------------------------------------------------------------
Connected(s) == state[s] \in {"accepted", "open"}

SentBytes == {p \in Sessions \X (1 .. MaxBytes) : p[2] <= Len(stream[p[1]])}

PeerSend(s, b) ==
  /\ proc = "running" /\ Connected(s) /\ peer[s] = "open"
  /\ Cardinality(SentBytes) < MaxBytes
  /\ stream' = [stream EXCEPT ![s] = Append(@, b)]
  /\ UNCHANGED <<serverVars, m_sessions_, state, reading, peer, bufferVars>>

PeerLeave(s, how) ==
  /\ proc = "running" /\ Connected(s)
  /\ peer[s] = "open" \/ (peer[s] = "eof" /\ how = "reset")
  /\ peer' = [peer EXCEPT ![s] = how]
  /\ UNCHANGED <<serverVars, m_sessions_, state, reading, stream, bufferVars>>

-----------------------------------------------------------------------------
(* The buffer after n more bytes of the stream were read into it. *)
Filled(s, n) ==
  [i \in Cells |-> IF i > n THEN m_buffer_[s][i]
                   ELSE IF stream[s][got[s] + i] = "nul" THEN 0 ELSE got[s] + i]

Terminated_OneLate(b, n) == [b EXCEPT ![IF n < BufferSize THEN n + 2 ELSE n + 1] = 0]

(* m_buffer_.get()[length] = '\0' *)
Terminated(b, n) == [b EXCEPT ![n + 1] = 0]

(* What cout prints of a buffer: the cells before the first NUL. *)
CString(b) ==
  LET end == CHOOSE e \in Cells : b[e] = 0 /\ \A i \in 1 .. e - 1 : b[i] # 0
  IN  [i \in 1 .. end - 1 |-> b[i]]

(* do_read's handler with n bytes: terminate, print, read again. *)
HandleRead(s, n) ==
  LET b == Terminated(Filled(s, n), n) IN
  /\ proc = "running" /\ reading[s]
  /\ peer[s] # "reset"
  /\ got[s] + n <= Len(stream[s])
  /\ got' = [got EXCEPT ![s] = @ + n]
  /\ m_buffer_' = [m_buffer_ EXCEPT ![s] = b]
  /\ printed' = [printed EXCEPT ![s] = @ \o CString(b)]
  /\ reads' = [reads EXCEPT ![s] = @ + 1]
  /\ overrun' = (overrun \/ n = BufferSize)
  /\ UNCHANGED <<serverVars, m_sessions_, state, reading, peerVars>>

Gone(s) == peer[s] = "reset" \/ (peer[s] = "eof" /\ got[s] = Len(stream[s]))

HandleReadError_NotErased(s) ==
  /\ proc = "running" /\ reading[s] /\ Gone(s)
  /\ reading' = [reading EXCEPT ![s] = FALSE]
  /\ state' = [state EXCEPT ![s] = "closed"]
  /\ UNCHANGED <<serverVars, m_sessions_, peerVars, bufferVars>>

HandleReadError_ReadsOn(s) ==
  /\ proc = "running" /\ reading[s] /\ Gone(s)
  /\ m_sessions_' = m_sessions_ \ {s}
  /\ state' = [state EXCEPT ![s] = "closed"]
  /\ UNCHANGED <<serverVars, reading, peerVars, bufferVars>>

(* do_read's handler with an error: sessionMgr::stop closes the socket and  *)
(* forgets the session.  The error is never operation_aborted, for which    *)
(* the handler exits the process: see SessionsAreReading.                   *)
HandleReadError(s) ==
  /\ proc = "running" /\ reading[s] /\ Gone(s)
  /\ reading' = [reading EXCEPT ![s] = FALSE]
  /\ m_sessions_' = m_sessions_ \ {s}
  /\ state' = [state EXCEPT ![s] = "closed"]
  /\ UNCHANGED <<serverVars, peerVars, bufferVars>>

(* The heap finds out that a byte behind a buffer was overwritten.          *)
HeapFails ==
  /\ proc = "running" /\ overrun
  /\ proc' = "terminated"
  /\ UNCHANGED <<accept, accepting, acceptFailed, m_sessions_, state, reading, peerVars,
                 bufferVars>>

(* run returns when neither an accept nor a read is outstanding. *)
RunReturns ==
  /\ proc = "running" /\ accept = "none"
  /\ \A s \in Sessions : ~reading[s]
  /\ proc' = "returned"
  /\ UNCHANGED <<accept, accepting, acceptFailed, m_sessions_, state, reading, peerVars,
                 bufferVars>>

Read(s) == \E n \in 1 .. BufferSize : HandleRead(s, n)

Next ==
  \/ Construct \/ HandleAccept \/ HandleAcceptError \/ HeapFails \/ RunReturns
  \/ \E s \in Sessions :
       \/ AcceptCompletes(s)
       \/ \E b \in {"char", "nul"} : PeerSend(s, b)
       \/ PeerLeave(s, "eof") \/ PeerLeave(s, "reset")
       \/ Read(s) \/ HandleReadError(s)

Spec == Init /\ [][Next]_vars

-----------------------------------------------------------------------------
(* Types of the server's and the sessions' state. *)
TypeOK ==
  /\ proc \in {"starting", "failed", "running", "returned", "terminated"}
  /\ accept \in {"none", "pending", "done"}
  /\ accepting \in Sessions \cup {NoSession}
  /\ acceptFailed \in BOOLEAN
  /\ m_sessions_ \subseteq Sessions
  /\ state \in [Sessions -> {"unused", "accepted", "open", "closed"}]
  /\ peer \in [Sessions -> {"none", "open", "eof", "reset"}]
  /\ stream \in [Sessions -> Seq({"char", "nul"})]
  /\ got \in [Sessions -> Nat]
  /\ reading \in [Sessions -> BOOLEAN]
  /\ m_buffer_ \in [Sessions -> [Cells -> Int]]
  /\ printed \in [Sessions -> Seq(Int)]
  /\ reads \in [Sessions -> Nat]
  /\ overrun \in BOOLEAN

(* A session is held exactly while its socket is open and its read is       *)
(* outstanding: none idles unwatched, and no socket is closed under a read. *)
(* So no read ends in operation_aborted, and exit(-1) is out of reach.      *)
SessionsAreReading ==
  \A s \in Sessions :
    /\ s \in m_sessions_ <=> state[s] = "open"
    /\ s \in m_sessions_ <=> reading[s]

(* The server accepts until an accept fails, whatever its sessions do, and  *)
(* run returns only after that, when every session has ended.               *)
AcceptsUntilFailure ==
  /\ proc = "running" /\ ~acceptFailed => accept # "none"
  /\ proc = "returned" => acceptFailed /\ m_sessions_ = {}

(* cout prints no byte twice, none of an earlier read and nothing never     *)
(* sent, in the order sent; and of a peer that sends no NUL it prints all   *)
(* that was read, although the buffer is reused and reads fill any part.    *)
PrintsWhatArrived ==
  \A s \in Sessions :
    /\ \A i \in 1 .. Len(printed[s]) : printed[s][i] \in 1 .. got[s]
    /\ \A i \in 1 .. Len(printed[s]) - 1 : printed[s][i] < printed[s][i + 1]
    /\ (\A p \in 1 .. got[s] : stream[s][p] # "nul") => Len(printed[s]) = got[s]

(* login_server's sessions keep the promise of the registry. *)
Registry == INSTANCE ConnectionRegistry WITH
  Conns <- Sessions,
  live <- m_sessions_,
  dead <- {s \in Sessions : state[s] = "closed"},
  served <- reads

ImplementsRegistry == Registry!Spec
=============================================================================
