--------------------------- MODULE ResponseWriter ---------------------------
(***************************************************************************)
(* write_response and handle_write of one http_connction, byte by byte:    *)
(* m_sendBuffer_, to which every answer is appended, and the writes that   *)
(* send what it held when they were begun and take as much out of it when  *)
(* they are done.  HttpServer counts these writes; here is what they send. *)
(*                                                                         *)
(* The bytes of all answers are numbered from 1 in the order in which the  *)
(* application gave them: m_sendBuffer_ holds those after gptr up to pptr. *)
(***************************************************************************)
EXTENDS Integers, Sequences

CONSTANTS
  MaxAnswers,   \* bound: callbacks made on the connection
  MaxSize       \* the longest answer

ASSUME SizesAssumption == MaxAnswers \in Nat /\ MaxSize \in Nat

VARIABLES
  keep,         \* m_request_.keep_alive
  socket,       \* open, finished (closed behind a sent answer), closed
  peer,         \* open, reset
  owes,         \* callbacks the application has not answered yet
  asked,        \* callbacks made so far
  gptr, pptr,   \* what m_sendBuffer_ holds
  writes,       \* the writes under way, in the order of the kernel's queue
  done,         \* the writes that ended, whose handler is queued
  received,     \* what has been sent to the peer
  overlapped    \* history: write_response was called before the last was handled

vars == <<keep, socket, peer, owes, asked, gptr, pptr, writes, done, received, overlapped>>

Junk == 0
Byte == Nat

(* An async_write of the bytes first .. last, of which next is to be sent;  *)
(* moved if the storage it points to is no longer that of m_sendBuffer_.    *)
Write == [first : Nat \ {0}, next : Nat \ {0}, last : Nat \ {0}, moved : BOOLEAN]
Ended == [size : Nat, ok : BOOLEAN]

Init ==
  /\ keep \in BOOLEAN
  /\ socket = "open" /\ peer = "open"
  /\ owes = 0 /\ asked = 0
  /\ gptr = 0 /\ pptr = 0
  /\ writes = <<>> /\ done = <<>>
  /\ received = <<>>
  /\ overlapped = FALSE

-----------------------------------------------------------------------------
(* handle_request calls the application, again only on a kept connection. *)
Callback ==
  /\ socket = "open" /\ asked < MaxAnswers /\ (keep \/ asked = 0)
  /\ asked' = asked + 1 /\ owes' = owes + 1
  /\ UNCHANGED <<keep, socket, peer, gptr, pptr, writes, done, received, overlapped>>

WriteResponse_OnlyIfIdle(n) ==
  /\ owes > 0 /\ owes' = owes - 1
  /\ pptr' = pptr + n
  /\ overlapped' = (overlapped \/ writes # <<>> \/ done # <<>>)
  /\ writes' = IF writes # <<>> THEN writes
               ELSE <<[first |-> gptr + 1, next |-> gptr + 1, last |-> pptr + n, moved |-> FALSE]>>
  /\ UNCHANGED <<keep, socket, peer, asked, gptr, done, received>>

(* write_response: append the answer, which may move or reallocate the      *)
(* storage under the writes still under way, and write all there is.        *)
WriteResponse(n) ==
  /\ owes > 0 /\ owes' = owes - 1
  /\ pptr' = pptr + n
  /\ overlapped' = (overlapped \/ writes # <<>> \/ done # <<>>)
  /\ \E moves \in BOOLEAN :
       writes' = Append([i \in 1 .. Len(writes) |-> [writes[i] EXCEPT !.moved = @ \/ moves]],
         [first |-> gptr + 1, next |-> gptr + 1, last |-> pptr + n, moved |-> FALSE])
  /\ UNCHANGED <<keep, socket, peer, asked, gptr, done, received>>

Completes_AfterAnyPart(w, n) == TRUE

(* async_write goes on until everything is sent. *)
Completes(w, n) == w.next + n > w.last

(* The kernel takes n bytes of the write at the head of its queue; one that *)
(* is not complete starts anew behind the others.                           *)
Send(n) ==
  LET w == Head(writes) IN
  /\ socket = "open" /\ peer = "open"
  /\ writes # <<>> /\ w.next + n <= w.last + 1
  /\ received' = received \o [i \in 1 .. n |-> IF w.moved THEN Junk ELSE w.next + i - 1]
  /\ IF Completes(w, n)
     THEN /\ writes' = Tail(writes)
          /\ done' = Append(done, [size |-> w.next + n - w.first, ok |-> TRUE])
     ELSE /\ writes' = Append(Tail(writes), [w EXCEPT !.next = @ + n])
          /\ done' = done
  /\ UNCHANGED <<keep, socket, peer, owes, asked, gptr, pptr, overlapped>>

(* A write on a closed or reset connection ends with an error. *)
WriteFails ==
  LET w == Head(writes) IN
  /\ writes # <<>>
  /\ socket # "open" \/ peer = "reset"
  /\ writes' = Tail(writes)
  /\ done' = Append(done, [size |-> w.next - w.first, ok |-> FALSE])
  /\ UNCHANGED <<keep, socket, peer, owes, asked, gptr, pptr, received, overlapped>>

Consumed_NothingAtAll(size) == gptr

Consumed_PastTheEnd(size) == gptr + size

(* m_sendBuffer_.consume: no more than there is. *)
Consumed(size) == IF gptr + size > pptr THEN pptr ELSE gptr + size

(* What was sent is taken out of m_sendBuffer_, then handle_write runs. *)
HandleWrite ==
  LET d == Head(done) IN
  /\ done # <<>> /\ done' = Tail(done)
  /\ gptr' = Consumed(d.size)
  /\ socket' = IF socket # "open" \/ (d.ok /\ keep) THEN socket
               ELSE IF d.ok THEN "finished" ELSE "closed"
  /\ UNCHANGED <<keep, peer, owes, asked, pptr, writes, received, overlapped>>

(* The connection is stopped by a read handler or by the application. *)
Stop ==
  /\ socket = "open" /\ socket' = "closed"
  /\ UNCHANGED <<keep, peer, owes, asked, gptr, pptr, writes, done, received, overlapped>>

PeerResets ==
  /\ peer = "open" /\ peer' = "reset"
  /\ UNCHANGED <<keep, socket, owes, asked, gptr, pptr, writes, done, received, overlapped>>

Answer == \E n \in 1 .. MaxSize : WriteResponse(n)
Kernel == WriteFails \/ (writes # <<>> /\ \E n \in 1 .. Head(writes).last : Send(n))

Next == Callback \/ Answer \/ Kernel \/ HandleWrite \/ Stop \/ PeerResets

Spec == Init /\ [][Next]_vars

-----------------------------------------------------------------------------
(* Types; m_sendBuffer_ never holds fewer than no bytes. *)
TypeOK ==
  /\ keep \in BOOLEAN
  /\ socket \in {"open", "finished", "closed"} /\ peer \in {"open", "reset"}
  /\ owes \in Nat /\ asked \in Nat
  /\ gptr \in Nat /\ pptr \in Nat /\ gptr <= pptr
  /\ writes \in Seq(Write) /\ done \in Seq(Ended)
  /\ received \in Seq(Byte)
  /\ overlapped \in BOOLEAN

Got(p) == \E i \in 1 .. Len(received) : received[i] = p

(* An application that waits for handle_write between two answers has them  *)
(* sent one behind the other: no byte missing, none twice, none of another. *)
AnswersInOrder ==
  ~overlapped => Len(received) <= pptr /\ \A i \in 1 .. Len(received) : received[i] = i

(* A connection that is not kept is closed behind its answer, not in it. *)
OneShotAnswerIsWhole ==
  socket = "finished" => Len(received) = pptr /\ \A i \in 1 .. pptr : received[i] = i

Idle == socket = "open" /\ writes = <<>> /\ done = <<>>

(* Writes that overlap send bytes twice, but once all are handled the next  *)
(* answer starts from an empty buffer, and no byte is missing unless the    *)
(* storage moved under a write.                                             *)
NothingIsLost ==
  Idle => /\ gptr = pptr
          /\ Got(Junk) \/ \A p \in 1 .. pptr : Got(p)
=============================================================================
