------------------------ MODULE ResponseWriterProofs ------------------------
(***************************************************************************)
(* Proofs about ResponseWriter, for any number of answers of any length.   *)
(*                                                                         *)
(* The inductive invariant IInv says, besides the types and the bounds of  *)
(* each write: as long as no write overlaps another, where the one write   *)
(* under way stands (OneByOne); that a connection which is not kept has    *)
(* one answer only (OneShot); which bytes are still on their way           *)
(* (OnTheirWay); and which write will drain the buffer (Draining).         *)
(***************************************************************************)
EXTENDS ResponseWriter, SequenceTheorems, TLAPS

InOrder == Len(received) <= pptr /\ \A i \in 1 .. Len(received) : received[i] = i

(* What a write begun while no other was under way has sent so far. *)
OneByOne ==
  ~overlapped =>
    /\ InOrder
    /\ Len(writes) + Len(done) <= 1
    /\ socket = "open" =>
         /\ writes # <<>> => /\ writes[1].first = gptr + 1 /\ writes[1].last = pptr
                             /\ writes[1].next = Len(received) + 1
                             /\ ~writes[1].moved
         /\ done # <<>> /\ done[1].ok => Len(received) = pptr /\ gptr + done[1].size = pptr
         /\ writes = <<>> /\ done = <<>> => Len(received) = pptr /\ gptr = pptr

(* Without keep-alive there is one callback, one answer, one write. *)
OneShot ==
  /\ ~keep => /\ owes + Len(writes) + Len(done) <= asked /\ asked <= 1
              /\ ~overlapped
  /\ socket = "finished" => ~keep /\ asked = 1 /\ owes = 0 /\ writes = <<>> /\ done = <<>>
                            /\ Len(received) = pptr

Failing == socket # "open" \/ \E i \in 1 .. Len(done) : ~done[i].ok

OnTheirWay ==
  \A p \in 1 .. pptr :
    \/ Got(p) \/ Got(Junk) \/ Failing
    \/ \E i \in 1 .. Len(writes) : writes[i].moved
    \/ \E i \in 1 .. Len(writes) : writes[i].next <= p /\ p <= writes[i].last

Draining ==
  \/ gptr = pptr \/ Failing
  \/ \E i \in 1 .. Len(writes) : writes[i].first <= gptr + 1 /\ writes[i].last = pptr
  \/ \E i \in 1 .. Len(done) : gptr + done[i].size >= pptr

Bounds ==
  \A i \in 1 .. Len(writes) : writes[i].first <= writes[i].next /\ writes[i].next <= writes[i].last

IInv == TypeOK /\ Bounds /\ OneByOne /\ OneShot /\ OnTheirWay /\ Draining

(* Arithmetic: if there is at most one of two kinds, and one of the first... *)
LEMMA OneOfTwo ==
  ASSUME NEW a \in Nat \ {0}, NEW b \in Nat, a + b <= 1
  PROVE  a = 1 /\ b = 0
OBVIOUS

(* The write the kernel works on, and those behind it. *)
LEMMA NextByte == ASSUME TypeOK, Bounds, writes # <<>>
  PROVE  /\ writes[1] \in Write /\ Head(writes) = writes[1]
         /\ writes[1].first <= writes[1].next /\ writes[1].next <= writes[1].last
         /\ Len(writes) \in Nat \ {0}
         /\ Tail(writes) \in Seq(Write) /\ Len(Tail(writes)) = Len(writes) - 1
         /\ \A i \in 1 .. Len(writes) - 1 : Tail(writes)[i] = writes[i + 1]
<1>1. writes \in Seq(Write)
  BY DEF TypeOK
<1>2. Len(writes) \in Nat \ {0}
  BY <1>1, EmptySeq
<1>3. writes[1] \in Write /\ Head(writes) = writes[1]
  BY <1>1, <1>2, ElementOfSeq
<1>4. /\ Tail(writes) \in Seq(Write) /\ Len(Tail(writes)) = Len(writes) - 1
      /\ \A i \in 1 .. Len(writes) - 1 : Tail(writes)[i] = writes[i + 1]
  BY <1>1, <1>2, HeadTailProperties
<1>5. QED
  BY <1>2, <1>3, <1>4 DEF Bounds

(* What write_response does to the writes under way. *)
LEMMA WriteResponseEffect ==
  ASSUME TypeOK, NEW n \in 1 .. MaxSize, WriteResponse(n)
  PROVE  /\ writes' \in Seq(Write) /\ Len(writes') = Len(writes) + 1
         /\ \A i \in 1 .. Len(writes) :
              /\ writes'[i].first = writes[i].first /\ writes'[i].next = writes[i].next
              /\ writes'[i].last = writes[i].last
              /\ writes[i].moved => writes'[i].moved
         /\ writes'[Len(writes) + 1] =
              [first |-> gptr + 1, next |-> gptr + 1, last |-> pptr + n, moved |-> FALSE]
<1> DEFINE new == [first |-> gptr + 1, next |-> gptr + 1, last |-> pptr + n, moved |-> FALSE]
<1> PICK moves \in BOOLEAN :
      writes' = Append([i \in 1 .. Len(writes) |-> [writes[i] EXCEPT !.moved = @ \/ moves]], new)
  BY DEF WriteResponse
<1> DEFINE old == [i \in 1 .. Len(writes) |-> [writes[i] EXCEPT !.moved = @ \/ moves]]
<1>1. writes \in Seq(Write) /\ Len(writes) \in Nat
  BY DEF TypeOK
<1>2. ASSUME NEW i \in 1 .. Len(writes)
      PROVE  /\ old[i] \in Write
             /\ old[i].first = writes[i].first /\ old[i].next = writes[i].next
             /\ old[i].last = writes[i].last /\ old[i].moved = (writes[i].moved \/ moves)
  <2>1. writes[i] \in Write
    BY <1>1, ElementOfSeq
  <2>2. (writes[i].moved \/ moves) \in BOOLEAN
    OBVIOUS
  <2>3. old[i] = [first |-> writes[i].first, next |-> writes[i].next,
                  last |-> writes[i].last, moved |-> writes[i].moved \/ moves]
    BY <2>1 DEF Write
  <2>4. QED
    BY <2>1, <2>2, <2>3 DEF Write
<1>3. new \in Write
  <2>1. gptr + 1 \in Nat \ {0} /\ pptr + n \in Nat \ {0}
    BY SizesAssumption DEF TypeOK
  <2>2. QED
    BY <2>1 DEF Write
<1>4. old \in Seq(Write) /\ Len(old) = Len(writes)
  BY <1>1, <1>2, IsASeq
<1> HIDE DEF old, new
<1>5. /\ Append(old, new) \in Seq(Write) /\ Len(Append(old, new)) = Len(old) + 1
      /\ \A i \in 1 .. Len(old) : Append(old, new)[i] = old[i]
      /\ Append(old, new)[Len(old) + 1] = new
  BY <1>3, <1>4, AppendProperties
<1>6. QED
  BY <1>1, <1>2, <1>4, <1>5 DEF old, new

(* What the kernel's step does to what was received ...                     *)
LEMMA SendDelivers ==
  ASSUME TypeOK, Bounds, NEW n \in Nat \ {0}, Send(n)
  PROVE  /\ received' \in Seq(Byte) /\ Len(received') = Len(received) + n
         /\ \A i \in 1 .. Len(received) : received'[i] = received[i]
         /\ \A i \in 1 .. n :
              received'[Len(received) + i] = IF writes[1].moved THEN Junk ELSE writes[1].next + i - 1
<1> DEFINE sent == [i \in 1 .. n |-> IF writes[1].moved THEN Junk ELSE writes[1].next + i - 1]
<1>1. received' = received \o sent /\ writes # <<>>
  BY NextByte DEF Send
<1>2. ASSUME NEW i \in 1 .. n PROVE sent[i] \in Byte
  <2>1. writes[1].next \in Nat \ {0}
    BY <1>1, NextByte DEF Write
  <2>2. writes[1].next + i - 1 \in Nat
    BY <2>1
  <2>3. QED
    BY <2>2 DEF Byte, Junk
<1>3. sent \in Seq(Byte) /\ Len(sent) = n
  BY <1>2, IsASeq
<1>4. received \in Seq(Byte) /\ Len(received) \in Nat
  BY DEF TypeOK
<1> HIDE DEF sent
<1>5. /\ received \o sent \in Seq(Byte)
      /\ Len(received \o sent) = Len(received) + n
      /\ \A i \in 1 .. Len(received) + n : (received \o sent)[i] =
             IF i <= Len(received) THEN received[i] ELSE sent[i - Len(received)]
  BY <1>3, <1>4, ConcatProperties
<1>6. ASSUME NEW i \in 1 .. n PROVE received'[Len(received) + i] = sent[i]
  <2>1. /\ Len(received) + i \in 1 .. Len(received) + n /\ ~(Len(received) + i <= Len(received))
        /\ Len(received) + i - Len(received) = i
    BY <1>4
  <2>2. QED
    BY <1>1, <1>5, <2>1
<1>7. ASSUME NEW i \in 1 .. Len(received) PROVE received'[i] = received[i]
  BY <1>1, <1>4, <1>5, <1>7
<1>8. QED
  BY <1>1, <1>5, <1>6, <1>7 DEF sent

(* ... and to the writes: the first is done, or goes on behind the others.  *)
LEMMA SendCompletes ==
  ASSUME TypeOK, Bounds, NEW n \in Nat \ {0}, Send(n), Completes(Head(writes), n)
  PROVE  /\ writes # <<>> /\ writes' = Tail(writes)
         /\ writes[1].next + n = writes[1].last + 1
         /\ writes[1].last + 1 - writes[1].first \in Nat
         /\ done' \in Seq(Ended) /\ Len(done') = Len(done) + 1
         /\ \A i \in 1 .. Len(done) : done'[i] = done[i]
         /\ done'[Len(done) + 1] = [size |-> writes[1].last + 1 - writes[1].first, ok |-> TRUE]
<1> DEFINE w == writes[1]
<1>1. writes # <<>>
  BY DEF Send
<1>2. w \in Write /\ Head(writes) = w /\ w.first <= w.next /\ w.next <= w.last
  BY <1>1, NextByte
<1>3. w.first \in Nat /\ w.next \in Nat /\ w.last \in Nat
  BY <1>2 DEF Write
<1>4. w.next + n > w.last /\ w.next + n <= w.last + 1
  BY <1>2 DEF Send, Completes
<1>5. w.next + n = w.last + 1 /\ w.last + 1 - w.first \in Nat
  BY <1>2, <1>3, <1>4
<1>6. writes' = Tail(writes) /\ done' = Append(done, [size |-> w.last + 1 - w.first, ok |-> TRUE])
  <2>1. writes' = Tail(writes) /\ done' = Append(done, [size |-> w.next + n - w.first, ok |-> TRUE])
    BY <1>2 DEF Send
  <2>2. w.next + n - w.first = w.last + 1 - w.first
    BY <1>3, <1>5
  <2>3. QED
    BY <2>1, <2>2
<1>7. [size |-> w.last + 1 - w.first, ok |-> TRUE] \in Ended
  BY <1>5 DEF Ended
<1>8. QED
  BY <1>1, <1>5, <1>6, <1>7, AppendProperties DEF TypeOK

LEMMA SendGoesOn ==
  ASSUME TypeOK, Bounds, NEW n \in Nat \ {0}, Send(n), ~Completes(Head(writes), n)
  PROVE  /\ writes # <<>> /\ UNCHANGED done
         /\ writes[1].next + n <= writes[1].last
         /\ writes' \in Seq(Write) /\ Len(writes') = Len(writes)
         /\ \A i \in 1 .. Len(writes) - 1 : writes'[i] = writes[i + 1]
         /\ writes'[Len(writes)] = [first |-> writes[1].first, next |-> writes[1].next + n,
                                    last |-> writes[1].last, moved |-> writes[1].moved]
<1> DEFINE w == writes[1]
           on == [first |-> w.first, next |-> w.next + n, last |-> w.last, moved |-> w.moved]
<1>1. writes # <<>>
  BY DEF Send
<1>2. w \in Write /\ Head(writes) = w
  BY <1>1, NextByte
<1>3. w.next \in Nat /\ w.last \in Nat
  BY <1>2 DEF Write
<1>4. w.next + n <= w.last
  BY <1>2, <1>3 DEF Completes
<1>5. UNCHANGED done /\ writes' = Append(Tail(writes), [w EXCEPT !.next = @ + n])
  BY <1>2 DEF Send
<1>6. [w EXCEPT !.next = @ + n] = on /\ on \in Write
  BY <1>2, <1>3 DEF Write
<1>7. Tail(writes) \in Seq(Write) /\ Len(Tail(writes)) = Len(writes) - 1 /\ Len(writes) \in Nat
  BY <1>1, NextByte
<1>8. /\ \A i \in 1 .. Len(writes) - 1 : writes'[i] = Tail(writes)[i]
      /\ writes' \in Seq(Write) /\ Len(writes') = Len(writes) - 1 + 1
      /\ writes'[Len(writes) - 1 + 1] = on
  <2> HIDE DEF on, w
  <2> QED
    BY <1>5, <1>6, <1>7, AppendProperties
<1>9. QED
  BY <1>1, <1>4, <1>5, <1>7, <1>8, NextByte

(* A write that failed, and handle_write: what they take off the queues.    *)
LEMMA WriteFailsEffect ==
  ASSUME TypeOK, Bounds, WriteFails
  PROVE  /\ writes # <<>> /\ writes' = Tail(writes)
         /\ done' \in Seq(Ended) /\ Len(done') = Len(done) + 1
         /\ \A i \in 1 .. Len(done) : done'[i] = done[i]
         /\ ~done'[Len(done) + 1].ok
<1> DEFINE end == [size |-> writes[1].next - writes[1].first, ok |-> FALSE]
<1>1. writes # <<>> /\ writes' = Tail(writes) /\ done' = Append(done, end)
  BY NextByte DEF WriteFails
<1>2. end \in Ended
  <2>1. writes[1].next - writes[1].first \in Nat
    BY <1>1, NextByte DEF Write
  <2>2. QED
    BY <2>1 DEF Ended
<1>3. ~end.ok
  OBVIOUS
<1> HIDE DEF end
<1>4. QED
  BY <1>1, <1>2, <1>3, AppendProperties DEF TypeOK

LEMMA HandleWriteEffect ==
  ASSUME TypeOK, HandleWrite
  PROVE  /\ done # <<>> /\ Head(done) = done[1] /\ done[1] \in Ended
         /\ Len(done) \in Nat \ {0}
         /\ done' \in Seq(Ended) /\ Len(done') = Len(done) - 1
         /\ \A i \in 1 .. Len(done) - 1 : done'[i] = done[i + 1]
         /\ gptr' \in Nat /\ gptr <= gptr' /\ gptr' <= pptr
         /\ gptr + done[1].size >= pptr => gptr' = pptr
<1>1. done \in Seq(Ended) /\ done # <<>> /\ done' = Tail(done) /\ gptr' = Consumed(Head(done).size)
  BY DEF TypeOK, HandleWrite
<1>2. Len(done) \in Nat \ {0}
  BY <1>1, EmptySeq
<1>3. done[1] \in Ended /\ Head(done) = done[1]
  BY <1>1, <1>2, ElementOfSeq
<1>4. /\ done' \in Seq(Ended) /\ Len(done') = Len(done) - 1
      /\ \A i \in 1 .. Len(done) - 1 : done'[i] = done[i + 1]
  BY <1>1, <1>2, HeadTailProperties
<1>5. done[1].size \in Nat
  BY <1>3 DEF Ended
<1>6. /\ gptr' \in Nat /\ gptr <= gptr' /\ gptr' <= pptr
      /\ gptr + done[1].size >= pptr => gptr' = pptr
  BY <1>1, <1>3, <1>5 DEF Consumed, TypeOK
<1>7. QED
  BY <1>1, <1>2, <1>3, <1>4, <1>6

-----------------------------------------------------------------------------
(* A new connection has sent and owes nothing. *)
LEMMA InitEstablishes == Init => IInv
<1> SUFFICES ASSUME Init PROVE IInv
  OBVIOUS
<1>1. TypeOK
  <2>1. keep \in BOOLEAN /\ overlapped \in BOOLEAN
    BY Zenon DEF Init
  <2>2. QED
    BY <2>1 DEF Init, TypeOK
<1>2. Bounds /\ OneByOne /\ OneShot
  BY DEF Init, Bounds, OneByOne, InOrder, OneShot
<1>3. OnTheirWay /\ Draining
  BY DEF Init, OnTheirWay, Draining
<1>4. QED
  BY <1>1, <1>2, <1>3 DEF IInv

(* The steps that neither write, send nor consume. *)
LEMMA CallbackPreserves == IInv /\ Callback => IInv'
<1> SUFFICES ASSUME IInv, Callback PROVE IInv'
  OBVIOUS
<1>1. /\ asked \in Nat /\ owes \in Nat /\ asked' = asked + 1 /\ owes' = owes + 1
      /\ socket = "open" /\ (keep \/ asked = 0)
      /\ UNCHANGED <<keep, socket, peer, gptr, pptr, writes, done, received, overlapped>>
  BY DEF Callback, IInv, TypeOK
<1>2. TypeOK'
  BY <1>1 DEF IInv, TypeOK
<1>3. Len(writes) \in Nat /\ Len(done) \in Nat
  BY DEF IInv, TypeOK
<1>4. OneShot'
  BY <1>1, <1>3 DEF IInv, OneShot
<1>5. Bounds' /\ OneByOne' /\ Draining'
  BY <1>1 DEF IInv, Bounds, OneByOne, InOrder, Draining, Failing
<1>6. OnTheirWay'
  BY <1>1 DEF IInv, OnTheirWay, Failing, Got
<1>7. QED
  BY <1>2, <1>4, <1>5, <1>6 DEF IInv

LEMMA StopPreserves == IInv /\ (Stop \/ PeerResets) => IInv'
<1> SUFFICES ASSUME IInv, Stop \/ PeerResets PROVE IInv'
  OBVIOUS
<1>1. /\ UNCHANGED <<keep, owes, asked, gptr, pptr, writes, done, received, overlapped>>
      /\ UNCHANGED socket \/ socket' = "closed"
      /\ peer' \in {"open", "reset"}
  BY DEF Stop, PeerResets, IInv, TypeOK
<1>2. TypeOK'
  BY <1>1 DEF IInv, TypeOK
<1>3. Bounds' /\ OneByOne' /\ OneShot' /\ Draining'
  BY <1>1 DEF IInv, Bounds, OneByOne, InOrder, OneShot, Draining, Failing
<1>4. OnTheirWay'
  BY <1>1 DEF IInv, OnTheirWay, Failing, Got
<1>5. QED
  BY <1>2, <1>3, <1>4 DEF IInv

(* write_response: the new write covers the new bytes, and all that the     *)
(* buffer holds.                                                            *)
LEMMA WriteResponsePreserves ==
  ASSUME IInv, NEW n \in 1 .. MaxSize, WriteResponse(n)
  PROVE  IInv'
<1> DEFINE new == [first |-> gptr + 1, next |-> gptr + 1, last |-> pptr + n, moved |-> FALSE]
<1>1. /\ TypeOK /\ n \in Nat /\ n > 0
      /\ owes > 0 /\ owes' = owes - 1 /\ pptr' = pptr + n
      /\ overlapped' = (overlapped \/ writes # <<>> \/ done # <<>>)
      /\ UNCHANGED <<keep, socket, peer, asked, gptr, done, received>>
  BY SizesAssumption DEF IInv, WriteResponse
<1>2. /\ gptr \in Nat /\ pptr \in Nat /\ gptr <= pptr /\ owes \in Nat /\ asked \in Nat
      /\ Len(writes) \in Nat /\ Len(done) \in Nat /\ Len(received) \in Nat
  BY <1>1 DEF TypeOK
<1>3. /\ writes' \in Seq(Write) /\ Len(writes') = Len(writes) + 1
      /\ \A i \in 1 .. Len(writes) :
           /\ writes'[i].first = writes[i].first /\ writes'[i].next = writes[i].next
           /\ writes'[i].last = writes[i].last
           /\ writes[i].moved => writes'[i].moved
      /\ writes'[Len(writes) + 1] = new
  BY <1>1, WriteResponseEffect
<1>4. /\ writes = <<>> <=> Len(writes) = 0
      /\ done = <<>> <=> Len(done) = 0
  BY <1>1, EmptySeq DEF TypeOK
<1>5. TypeOK'
  <2>1. overlapped' \in BOOLEAN
    BY <1>1, Zenon DEF TypeOK
  <2>2. owes' \in Nat /\ pptr' \in Nat /\ gptr' <= pptr'
    BY <1>1, <1>2
  <2>3. QED
    BY <1>1, <1>3, <2>1, <2>2 DEF TypeOK
<1>6. Bounds'
  <2> SUFFICES ASSUME NEW i \in 1 .. Len(writes) + 1
               PROVE  writes'[i].first <= writes'[i].next /\ writes'[i].next <= writes'[i].last
    BY <1>3 DEF Bounds
  <2>1. CASE i \in 1 .. Len(writes)
    BY <1>3, <2>1 DEF IInv, Bounds
  <2>2. CASE i = Len(writes) + 1
    BY <1>1, <1>2, <1>3, <2>2
  <2>3. QED
    BY <1>2, <2>1, <2>2
<1>7. OneByOne'
  <2> SUFFICES ASSUME ~overlapped' PROVE OneByOne'
    BY DEF OneByOne
  <2>1. ~overlapped /\ Len(writes) = 0 /\ Len(done) = 0 /\ writes = <<>> /\ done = <<>>
    BY <1>1, <1>4
  <2>2. InOrder /\ (socket = "open" => Len(received) = pptr /\ gptr = pptr)
    BY <2>1 DEF IInv, OneByOne
  <2>3. InOrder'
    BY <1>1, <1>2, <2>2 DEF InOrder
  <2>4. writes'[1] = new /\ Len(writes') = 1
    BY <1>3, <2>1
  <2>5. writes' # <<>> /\ done' = <<>> /\ Len(done') = 0
    <3>1. Len(<<>>) = 0
      OBVIOUS
    <3>2. done' = done
      BY <1>1
    <3>3. QED
      BY <2>1, <2>4, <3>1, <3>2
  <2>6. /\ new.first = gptr + 1 /\ new.last = pptr + n /\ new.next = gptr + 1 /\ ~new.moved
    OBVIOUS
  <2>7. QED
    BY <1>1, <2>2, <2>3, <2>4, <2>5, <2>6 DEF OneByOne
<1>8. OneShot'
  <2>1. ~keep => owes + Len(writes) + Len(done) <= asked /\ asked <= 1 /\ ~overlapped
    BY DEF IInv, OneShot
  <2>2. ~keep => Len(writes) = 0 /\ Len(done) = 0
    BY <1>1, <1>2, <2>1
  <2>3. ~keep => ~overlapped' /\ owes' + Len(writes') + Len(done') <= asked' /\ asked' <= 1
    <3> SUFFICES ASSUME ~keep
                 PROVE  /\ ~overlapped'
                        /\ owes' + Len(writes') + Len(done') <= asked' /\ asked' <= 1
      OBVIOUS
    <3>1. writes = <<>> /\ done = <<>> /\ ~overlapped
      BY <1>4, <2>1, <2>2
    <3>2. ~overlapped'
      BY <1>1, <3>1
    <3>3. owes' = owes - 1 /\ Len(writes') = 1 /\ Len(done') = 0 /\ asked' = asked
      BY <1>1, <1>3, <2>2
    <3>4. QED
      BY <1>2, <2>1, <2>2, <3>2, <3>3
  <2>4. socket # "finished"
    BY <1>1, <1>2 DEF IInv, OneShot
  <2>5. QED
    BY <1>1, <2>3, <2>4 DEF OneShot
<1>9. OnTheirWay'
  <2> SUFFICES ASSUME NEW p \in 1 .. pptr', ~Got(p), ~Got(Junk), ~Failing
               PROVE  \/ \E i \in 1 .. Len(writes) + 1 : writes'[i].moved
                      \/ \E i \in 1 .. Len(writes) + 1 : writes'[i].next <= p /\ p <= writes'[i].last
    BY <1>1, <1>3 DEF OnTheirWay, Got, Failing
  <2>1. CASE p \in 1 .. pptr
    <3>1. CASE \E i \in 1 .. Len(writes) : writes[i].moved
      BY <1>2, <1>3, <3>1
    <3>2. CASE \E i \in 1 .. Len(writes) : writes[i].next <= p /\ p <= writes[i].last
      BY <1>2, <1>3, <3>2
    <3>3. QED
      BY <2>1, <3>1, <3>2 DEF IInv, OnTheirWay
  <2>2. CASE p \in pptr + 1 .. pptr + n
    <3>1. /\ Len(writes) + 1 \in 1 .. Len(writes) + 1
          /\ new.next <= p /\ p <= new.last
      BY <1>1, <1>2, <2>2
    <3>2. QED
      BY <1>3, <3>1
  <2>3. p \in 1 .. pptr \/ p \in pptr + 1 .. pptr + n
    BY <1>1, <1>2
  <2>4. QED
    BY <2>1, <2>2, <2>3, Zenon
<1>10. Draining'
  BY <1>1, <1>2, <1>3 DEF Draining
<1>11. QED
  BY <1>5, <1>6, <1>7, <1>8, <1>9, <1>10 DEF IInv

(* A step of the kernel: the bytes sent are received, the rest of the write *)
(* is still to be sent.                                                     *)
LEMMA SendPreserves ==
  ASSUME IInv, NEW n \in Nat \ {0}, Send(n)
  PROVE  IInv'
<1> DEFINE w == writes[1]
<1>1. /\ TypeOK /\ Bounds /\ socket = "open" /\ writes # <<>>
      /\ UNCHANGED <<keep, socket, peer, owes, asked, gptr, pptr, overlapped>>
  BY DEF IInv, Send
<1>2. /\ gptr \in Nat /\ pptr \in Nat /\ gptr <= pptr /\ owes \in Nat /\ asked \in Nat
      /\ Len(writes) \in Nat \ {0} /\ Len(done) \in Nat /\ Len(received) \in Nat
  BY <1>1, NextByte DEF TypeOK
<1>3. /\ received' \in Seq(Byte) /\ Len(received') = Len(received) + n
      /\ \A i \in 1 .. Len(received) : received'[i] = received[i]
      /\ \A i \in 1 .. n : received'[Len(received) + i] = IF w.moved THEN Junk ELSE w.next + i - 1
  BY <1>1, SendDelivers
<1>4. /\ w.first \in Nat \ {0} /\ w.next \in Nat \ {0} /\ w.last \in Nat /\ w.first <= w.next
      /\ Len(Tail(writes)) = Len(writes) - 1 /\ Tail(writes) \in Seq(Write)
      /\ \A i \in 1 .. Len(writes) - 1 : Tail(writes)[i] = writes[i + 1]
  BY <1>1, NextByte DEF Write
<1> DEFINE Ends == /\ Len(writes') = Len(writes) - 1
                   /\ w.next + n = w.last + 1
                   /\ Len(done') = Len(done) + 1
                   /\ \A i \in 1 .. Len(done) : done'[i] = done[i]
                   /\ done'[Len(done) + 1].ok
                   /\ done'[Len(done) + 1].size = w.last + 1 - w.first
           GoesOn == /\ Len(writes') = Len(writes)
                     /\ w.next + n <= w.last
                     /\ UNCHANGED done
                     /\ writes'[Len(writes)].first = w.first /\ writes'[Len(writes)].next = w.next + n
                     /\ writes'[Len(writes)].last = w.last /\ writes'[Len(writes)].moved = w.moved
<1>5. /\ writes' \in Seq(Write) /\ done' \in Seq(Ended)
      /\ \A i \in 1 .. Len(writes) - 1 : writes'[i] = writes[i + 1]
      /\ Ends \/ GoesOn
  <2>1. CASE Completes(Head(writes), n)
    <3>1. /\ writes' = Tail(writes) /\ w.next + n = w.last + 1 /\ done' \in Seq(Ended)
          /\ Len(done') = Len(done) + 1 /\ \A i \in 1 .. Len(done) : done'[i] = done[i]
          /\ done'[Len(done) + 1] = [size |-> w.last + 1 - w.first, ok |-> TRUE]
      BY <1>1, <2>1, SendCompletes
    <3>2. done'[Len(done) + 1].ok /\ done'[Len(done) + 1].size = w.last + 1 - w.first
      BY <3>1
    <3>3. Len(writes') = Len(writes) - 1
      BY <1>4, <3>1
    <3>4. Ends
      BY <3>1, <3>2, <3>3
    <3>5. QED
      BY <1>4, <3>1, <3>4
  <2>2. CASE ~Completes(Head(writes), n)
    <3>1. /\ UNCHANGED done /\ w.next + n <= w.last
          /\ writes' \in Seq(Write) /\ Len(writes') = Len(writes)
          /\ \A i \in 1 .. Len(writes) - 1 : writes'[i] = writes[i + 1]
          /\ writes'[Len(writes)] = [first |-> w.first, next |-> w.next + n,
                                     last |-> w.last, moved |-> w.moved]
      BY <1>1, <2>2, SendGoesOn
    <3>2. GoesOn
      BY <3>1
    <3>3. QED
      BY <1>1, <3>1, <3>2 DEF TypeOK
  <2> HIDE DEF w, Ends, GoesOn
  <2>3. QED
    BY <2>1, <2>2, Zenon
<1>6. /\ writes = <<>> <=> Len(writes) = 0
      /\ done = <<>> <=> Len(done) = 0
      /\ writes' = <<>> <=> Len(writes') = 0
      /\ done' = <<>> <=> Len(done') = 0
  BY <1>1, <1>5, EmptySeq DEF TypeOK
<1>7. TypeOK'
  BY <1>1, <1>3, <1>5 DEF TypeOK
<1>8. Bounds'
  <2> SUFFICES ASSUME NEW i \in 1 .. Len(writes')
               PROVE  writes'[i].first <= writes'[i].next /\ writes'[i].next <= writes'[i].last
    BY DEF Bounds
  <2>1. CASE i \in 1 .. Len(writes) - 1
    BY <1>1, <1>2, <1>5, <2>1 DEF Bounds
  <2>2. CASE i = Len(writes) /\ GoesOn
    <3>1. w.first <= w.next + n
      BY <1>4
    <3>2. QED
      BY <2>2, <3>1
  <2>3. QED
    BY <1>2, <1>5, <2>1, <2>2
<1>9. OneByOne'
  <2> SUFFICES ASSUME ~overlapped PROVE OneByOne'
    BY <1>1 DEF OneByOne
  <2>1. /\ InOrder /\ Len(writes) = 1 /\ Len(done) = 0
        /\ w.first = gptr + 1 /\ w.last = pptr /\ w.next = Len(received) + 1 /\ ~w.moved
    <3>1. Len(writes) + Len(done) <= 1
      BY <1>1 DEF IInv, OneByOne
    <3>2. Len(writes) = 1 /\ Len(done) = 0
      <4>1. Len(writes) \in Nat \ {0} /\ Len(done) \in Nat
        BY <1>2
      <4>2. QED
        BY <3>1, <4>1, OneOfTwo, Zenon
    <3>3. QED
      BY <1>1, <3>2 DEF IInv, OneByOne
  <2>2. InOrder'
    <3>1. Len(received') <= pptr
      BY <1>2, <1>3, <1>4, <1>5, <2>1
    <3>2. ASSUME NEW i \in 1 .. Len(received') PROVE received'[i] = i
      <4>1. CASE i <= Len(received)
        BY <1>2, <1>3, <2>1, <4>1 DEF InOrder
      <4>2. CASE i > Len(received)
        <5>1. i - Len(received) \in 1 .. n /\ Len(received) + (i - Len(received)) = i
          BY <1>2, <1>3, <4>2
        <5>2. received'[i] = w.next + (i - Len(received)) - 1
          BY <1>3, <2>1, <5>1
        <5>3. QED
          BY <1>2, <2>1, <5>1, <5>2
      <4>3. QED
        BY <1>2, <4>1, <4>2
    <3>3. QED
      BY <1>1, <3>1, <3>2 DEF InOrder
  <2>3. CASE Ends
    <3>1. Len(writes') = 0 /\ Len(done') = 1 /\ Len(received') = pptr /\ gptr + done'[1].size = pptr
      <4>1. Len(writes') = 0 /\ Len(done') = 1 /\ done'[1].size = w.last + 1 - w.first
        BY <2>1, <2>3
      <4>2. Len(received') = w.next + n - 1 /\ w.next + n = w.last + 1
        BY <1>2, <1>3, <2>1, <2>3
      <4>3. QED
        BY <1>2, <1>4, <2>1, <4>1, <4>2
    <3>2. QED
      BY <1>1, <1>6, <2>2, <3>1 DEF OneByOne
  <2>4. CASE GoesOn
    <3>1. /\ Len(writes') = 1 /\ Len(done') = 0 /\ writes'[1].first = gptr + 1
          /\ writes'[1].last = pptr /\ writes'[1].next = Len(received') + 1 /\ ~writes'[1].moved
      BY <1>2, <1>3, <2>1, <2>4
    <3>2. QED
      BY <1>1, <1>6, <2>2, <3>1 DEF OneByOne
  <2>5. QED
    BY <1>5, <2>3, <2>4
<1>10. OneShot'
  <2>1. Len(writes') + Len(done') = Len(writes) + Len(done)
    <3>1. CASE Ends
      BY <1>2, <3>1
    <3>2. CASE GoesOn
      BY <3>2
    <3>3. QED
      BY <1>5, <3>1, <3>2
  <2>2. ~keep => owes + Len(writes') + Len(done') <= asked /\ asked <= 1 /\ ~overlapped
    BY <1>1, <1>2, <1>5, <2>1 DEF IInv, OneShot
  <2>3. QED
    BY <1>1, <2>2 DEF OneShot
<1>shift. ASSUME NEW i \in 2 .. Len(writes)
          PROVE  i - 1 \in 1 .. Len(writes') /\ writes'[i - 1] = writes[i]
  <2>1. i - 1 \in 1 .. Len(writes) - 1 /\ (i - 1) + 1 = i
    BY <1>2
  <2>2. writes'[i - 1] = writes[i]
    BY <1>5, <2>1
  <2>3. Len(writes') = Len(writes) - 1 \/ Len(writes') = Len(writes)
    BY <1>5
  <2>4. QED
    BY <1>2, <2>1, <2>2, <2>3
<1>failing. Failing => Failing'
  <2>1. ASSUME NEW i \in 1 .. Len(done), ~done[i].ok PROVE Failing'
    <3>1. CASE Ends
      BY <1>2, <2>1, <3>1 DEF Failing
    <3>2. CASE GoesOn
      BY <2>1, <3>2 DEF Failing
    <3>3. QED
      BY <1>5, <3>1, <3>2
  <2>2. QED
    BY <1>1, <2>1 DEF Failing
<1>11. OnTheirWay'
  <2> SUFFICES ASSUME NEW p \in 1 .. pptr
               PROVE  \/ Got(p)' \/ Got(Junk)' \/ Failing'
                      \/ \E i \in 1 .. Len(writes') : writes'[i].moved
                      \/ \E i \in 1 .. Len(writes') : writes'[i].next <= p /\ p <= writes'[i].last
    BY <1>1 DEF OnTheirWay, Got
  <2>1. Got(p) => Got(p)'
    BY <1>2, <1>3 DEF Got
  <2>2. Got(Junk) => Got(Junk)'
    BY <1>2, <1>3 DEF Got
  <2>3. w.moved => Got(Junk)'
    BY <1>2, <1>3 DEF Got
  <2>4. ASSUME ~w.moved, w.next <= p, p <= w.last
        PROVE  Got(p)' \/ (GoesOn /\ w.next + n <= p)
    <3>1. CASE p < w.next + n
      <4>1. p - w.next + 1 \in 1 .. n /\ w.next + (p - w.next + 1) - 1 = p
        BY <1>2, <1>4, <2>4, <3>1
      <4>2. received'[Len(received) + (p - w.next + 1)] = p
        BY <1>3, <2>4, <4>1
      <4>3. Len(received) + (p - w.next + 1) \in 1 .. Len(received')
        BY <1>2, <1>3, <4>1
      <4>4. QED
        BY <4>2, <4>3 DEF Got
    <3>2. CASE w.next + n <= p
      <4>1. ~(w.next + n = w.last + 1)
        BY <1>2, <1>4, <2>4, <3>2
      <4>2. GoesOn
        BY <1>5, <4>1
      <4>3. QED
        BY <3>2, <4>2
    <3>3. QED
      BY <1>2, <1>4, <3>1, <3>2
  <2>5. CASE \E i \in 1 .. Len(writes) : writes[i].moved
    <3> PICK i \in 1 .. Len(writes) : writes[i].moved
      BY <2>5
    <3>1. CASE i = 1
      BY <2>3, <3>1
    <3>2. CASE i \in 2 .. Len(writes)
      BY <1>shift, <3>2
    <3>3. QED
      BY <1>2, <3>1, <3>2
  <2>6. CASE \E i \in 1 .. Len(writes) : writes[i].next <= p /\ p <= writes[i].last
    <3> PICK i \in 1 .. Len(writes) : writes[i].next <= p /\ p <= writes[i].last
      BY <2>6
    <3>1. CASE i = 1
      BY <1>2, <2>3, <2>4, <3>1
    <3>2. CASE i \in 2 .. Len(writes)
      BY <1>shift, <3>2
    <3>3. QED
      BY <1>2, <3>1, <3>2
  <2>7. QED
    BY <1>failing, <2>1, <2>2, <2>5, <2>6 DEF IInv, OnTheirWay
<1>12. Draining'
  <2>1. CASE \E i \in 1 .. Len(writes) : writes[i].first <= gptr + 1 /\ writes[i].last = pptr
    <3> PICK i \in 1 .. Len(writes) : writes[i].first <= gptr + 1 /\ writes[i].last = pptr
      BY <2>1
    <3>1. CASE i \in 2 .. Len(writes)
      <4>1. i - 1 \in 1 .. Len(writes') /\ writes'[i - 1] = writes[i]
        BY <1>shift, <3>1
      <4>2. writes'[i - 1].first <= gptr' + 1 /\ writes'[i - 1].last = pptr'
        BY <1>1, <4>1
      <4>3. QED
        BY <4>1, <4>2, Zenon DEF Draining
    <3>2. CASE i = 1 /\ Ends
      <4>1. Len(done) + 1 \in 1 .. Len(done') /\ gptr + done'[Len(done) + 1].size >= pptr
        <5>1. w.first <= gptr + 1 /\ w.last = pptr
          BY <3>2
        <5>2. gptr + (w.last + 1 - w.first) >= pptr
          BY <1>2, <1>4, <5>1
        <5>3. Len(done') = Len(done) + 1 /\ done'[Len(done) + 1].size = w.last + 1 - w.first
          BY <3>2
        <5>4. Len(done) + 1 \in 1 .. Len(done')
          BY <1>2, <5>3
        <5>5. QED
          BY <5>2, <5>3, <5>4
      <4>2. QED
        BY <1>1, <4>1 DEF Draining
    <3>3. CASE i = 1 /\ GoesOn
      <4>1. Len(writes) \in 1 .. Len(writes')
        BY <1>2, <3>3
      <4>2. writes'[Len(writes)].first <= gptr + 1 /\ writes'[Len(writes)].last = pptr
        BY <3>3
      <4>3. QED
        BY <1>1, <4>1, <4>2 DEF Draining
    <3>4. i = 1 \/ i \in 2 .. Len(writes)
      BY <1>2
    <3> HIDE DEF Ends, GoesOn
    <3>5. QED
      BY <1>5, <3>1, <3>2, <3>3, <3>4, Zenon
  <2>2. CASE \E i \in 1 .. Len(done) : gptr + done[i].size >= pptr
    BY <1>1, <1>2, <1>5, <2>2 DEF Draining
  <2>3. QED
    BY <1>1, <1>failing, <2>1, <2>2 DEF IInv, Draining
<1>13. QED
  BY <1>7, <1>8, <1>9, <1>10, <1>11, <1>12 DEF IInv

(* A write that failed: its handler will stop the connection.               *)
LEMMA WriteFailsPreserves == IInv /\ WriteFails => IInv'
<1> SUFFICES ASSUME IInv, WriteFails PROVE IInv'
  OBVIOUS
<1>1. /\ TypeOK /\ Bounds
      /\ UNCHANGED <<keep, socket, peer, owes, asked, gptr, pptr, received, overlapped>>
  BY DEF IInv, WriteFails
<1>2. /\ writes # <<>> /\ writes' = Tail(writes)
      /\ done' \in Seq(Ended) /\ Len(done') = Len(done) + 1
      /\ \A i \in 1 .. Len(done) : done'[i] = done[i]
      /\ ~done'[Len(done) + 1].ok
  BY <1>1, WriteFailsEffect
<1>3. /\ Len(writes) \in Nat \ {0} /\ Len(done) \in Nat
      /\ writes' \in Seq(Write) /\ Len(writes') = Len(writes) - 1
      /\ \A i \in 1 .. Len(writes) - 1 : writes'[i] = writes[i + 1]
  BY <1>1, <1>2, NextByte DEF TypeOK
<1>4. TypeOK'
  BY <1>1, <1>2, <1>3 DEF TypeOK
<1>5. Bounds'
  <2> SUFFICES ASSUME NEW i \in 1 .. Len(writes) - 1
               PROVE  writes'[i].first <= writes'[i].next /\ writes'[i].next <= writes'[i].last
    BY <1>3 DEF Bounds
  <2>1. i + 1 \in 1 .. Len(writes) /\ writes'[i] = writes[i + 1]
    BY <1>3
  <2>2. QED
    BY <1>1, <2>1 DEF Bounds
<1>6. OneByOne'
  <2> SUFFICES ASSUME ~overlapped PROVE OneByOne'
    BY <1>1 DEF OneByOne
  <2>1. InOrder /\ Len(writes) + Len(done) <= 1
    BY DEF IInv, OneByOne
  <2>2. Len(writes') = 0 /\ Len(done') = 1 /\ ~done'[1].ok
    <3>1. Len(writes) = 1 /\ Len(done) = 0
      <4>1. Len(writes) \in Nat \ {0} /\ Len(done) \in Nat
        BY <1>3
      <4>2. Len(writes) + Len(done) <= 1
        BY <2>1
      <4>3. QED
        BY <4>1, <4>2, OneOfTwo, Zenon
    <3>2. QED
      BY <1>2, <1>3, <3>1
  <2>3. writes' = <<>> /\ done' # <<>>
    BY <1>2, <1>3, <2>2, EmptySeq
  <2>4. QED
    BY <1>1, <2>1, <2>2, <2>3 DEF OneByOne, InOrder
<1>7. OneShot'
  <2>1. Len(writes') + Len(done') = Len(writes) + Len(done)
    BY <1>2, <1>3
  <2>2. ~keep => owes + Len(writes) + Len(done) <= asked /\ asked <= 1 /\ ~overlapped
    BY DEF IInv, OneShot
  <2>3. owes \in Nat /\ asked \in Nat
    BY <1>1 DEF TypeOK
  <2>4. ~keep => owes' + Len(writes') + Len(done') <= asked' /\ asked' <= 1 /\ ~overlapped'
    BY <1>1, <1>2, <1>3, <2>1, <2>2, <2>3
  <2>5. socket' # "finished"
    BY <1>1, <1>2 DEF IInv, OneShot
  <2>6. QED
    BY <1>1, <2>4, <2>5 DEF OneShot
<1>8. Failing'
  BY <1>2, <1>3 DEF Failing
<1>9. OnTheirWay' /\ Draining'
  BY <1>8 DEF OnTheirWay, Draining
<1>10. QED
  BY <1>4, <1>5, <1>6, <1>7, <1>9 DEF IInv

(* handle_write: what was sent is consumed, and a connection that is not    *)
(* kept, or whose write failed, is stopped.                                 *)
LEMMA HandleWritePreserves == IInv /\ HandleWrite => IInv'
<1> SUFFICES ASSUME IInv, HandleWrite PROVE IInv'
  OBVIOUS
<1>1. /\ done # <<>> /\ Head(done) = done[1] /\ done[1] \in Ended /\ Len(done) \in Nat \ {0}
      /\ done' \in Seq(Ended) /\ Len(done') = Len(done) - 1
      /\ \A i \in 1 .. Len(done) - 1 : done'[i] = done[i + 1]
      /\ gptr' \in Nat /\ gptr <= gptr' /\ gptr' <= pptr
      /\ gptr + done[1].size >= pptr => gptr' = pptr
  BY HandleWriteEffect DEF IInv
<1>2. /\ TypeOK
      /\ socket' = IF socket # "open" \/ (done[1].ok /\ keep) THEN socket
                   ELSE IF done[1].ok THEN "finished" ELSE "closed"
      /\ UNCHANGED <<keep, peer, owes, asked, pptr, writes, received, overlapped>>
  BY <1>1 DEF IInv, HandleWrite
<1>3. /\ gptr \in Nat /\ pptr \in Nat /\ Len(writes) \in Nat /\ Len(received) \in Nat
      /\ owes \in Nat /\ asked \in Nat /\ writes \in Seq(Write)
  BY <1>2 DEF TypeOK
<1>4. /\ done' = <<>> <=> Len(done') = 0
      /\ writes = <<>> <=> Len(writes) = 0
  BY <1>1, <1>3, EmptySeq
<1>5. TypeOK'
  BY <1>1, <1>2 DEF TypeOK
<1>6. Bounds'
  BY <1>2 DEF IInv, Bounds
<1>7. ~overlapped => Len(writes) = 0 /\ Len(done) = 1 /\ InOrder
  <2>1. ~overlapped => Len(writes) + Len(done) <= 1 /\ InOrder
    BY DEF IInv, OneByOne
  <2>2. Len(writes) \in Nat /\ Len(done) \in Nat \ {0}
    BY <1>1, <1>3
  <2>3. QED
    BY <2>1, <2>2
<1>8. ~overlapped /\ socket = "open" /\ done[1].ok => Len(received) = pptr /\ gptr' = pptr
  <2> SUFFICES ASSUME ~overlapped, socket = "open", done[1].ok
               PROVE  Len(received) = pptr /\ gptr' = pptr
    OBVIOUS
  <2>1. Len(received) = pptr /\ gptr + done[1].size = pptr
    BY <1>1 DEF IInv, OneByOne
  <2>2. gptr + done[1].size >= pptr
    BY <1>3, <2>1
  <2>3. QED
    BY <1>1, <2>1, <2>2
<1>9. OneByOne'
  <2> SUFFICES ASSUME ~overlapped PROVE OneByOne'
    BY <1>2 DEF OneByOne
  <2>1. writes' = <<>> /\ done' = <<>> /\ Len(writes') + Len(done') <= 1 /\ InOrder
    <3>1. Len(writes) = 0 /\ Len(done) = 1 /\ InOrder
      BY <1>7
    <3>2. Len(done') = 0
      BY <1>1, <3>1
    <3>3. QED
      BY <1>2, <1>4, <3>1, <3>2
  <2>2. socket' = "open" => socket = "open" /\ done[1].ok
    BY <1>2
  <2>3. QED
    BY <1>2, <1>8, <2>1, <2>2 DEF OneByOne, InOrder
<1>10. OneShot'
  <2>1. ~keep => owes + Len(writes) + Len(done) <= asked /\ asked <= 1 /\ ~overlapped
    BY DEF IInv, OneShot
  <2>2. ~keep => owes' + Len(writes') + Len(done') <= asked' /\ asked' <= 1 /\ ~overlapped'
    BY <1>1, <1>2, <1>3, <2>1
  <2>3. socket = "open" /\ socket' = "finished" =>
          /\ ~keep /\ asked = 1 /\ owes = 0
          /\ writes = <<>> /\ done' = <<>> /\ Len(received) = pptr
    <3> SUFFICES ASSUME socket = "open", socket' = "finished"
                 PROVE  /\ ~keep /\ asked = 1 /\ owes = 0
                        /\ writes = <<>> /\ done' = <<>> /\ Len(received) = pptr
      OBVIOUS
    <3>1. ~keep /\ done[1].ok
      BY <1>2
    <3>2. ~overlapped /\ Len(writes) = 0 /\ Len(done) = 1 /\ Len(received) = pptr
      BY <1>7, <1>8, <2>1, <3>1
    <3>3. asked = 1 /\ owes = 0
      BY <1>3, <2>1, <3>1, <3>2
    <3>4. QED
      BY <1>1, <1>4, <3>1, <3>2, <3>3
  <2>4. socket # "finished"
    BY <1>1 DEF IInv, OneShot
  <2>5. socket' = "finished" => socket = "open"
    BY <1>2, <2>4
  <2>6. QED
    BY <1>2, <2>2, <2>3, <2>5 DEF OneShot
<1>11. Failing => Failing'
  <2>1. CASE socket # "open"
    BY <1>2, <2>1 DEF Failing
  <2>2. ASSUME NEW i \in 1 .. Len(done), ~done[i].ok PROVE Failing'
    <3>1. CASE i = 1
      BY <1>2, <2>2, <3>1 DEF Failing
    <3>2. CASE i # 1
      <4>1. i - 1 \in 1 .. Len(done') /\ done'[i - 1] = done[i]
        BY <1>1, <3>2
      <4>2. QED
        BY <2>2, <4>1 DEF Failing
    <3>3. QED
      BY <3>1, <3>2
  <2>3. QED
    BY <2>1, <2>2 DEF Failing
<1>12. OnTheirWay'
  BY <1>2, <1>11 DEF IInv, OnTheirWay, Got
<1>13. Draining'
  <2>1. CASE gptr = pptr
    BY <1>1, <1>2, <1>3, <2>1 DEF Draining
  <2>2. ASSUME NEW i \in 1 .. Len(writes), writes[i].first <= gptr + 1, writes[i].last = pptr
        PROVE  Draining'
    <3>1. writes[i].first \in Nat
      <4>1. writes[i] \in Write
        BY <1>3, ElementOfSeq
      <4>2. QED
        BY <4>1 DEF Write
    <3>2. writes[i].first <= gptr' + 1
      BY <1>1, <1>3, <2>2, <3>1
    <3>3. QED
      BY <1>2, <2>2, <3>2 DEF Draining
  <2>3. ASSUME NEW i \in 1 .. Len(done), gptr + done[i].size >= pptr PROVE Draining'
    <3>1. CASE i = 1
      BY <1>1, <1>2, <2>3, <3>1 DEF Draining
    <3>2. CASE i # 1
      <4>1. i - 1 \in 1 .. Len(done') /\ done'[i - 1] = done[i]
        BY <1>1, <3>2
      <4>2. done[i].size \in Nat
        <5>1. done \in Seq(Ended)
          BY <1>2 DEF TypeOK
        <5>2. done[i] \in Ended
          BY <5>1, ElementOfSeq
        <5>3. QED
          BY <5>2 DEF Ended
      <4>3. gptr' + done'[i - 1].size >= pptr
        BY <1>1, <1>3, <2>3, <4>1, <4>2
      <4>4. QED
        BY <1>2, <4>1, <4>3 DEF Draining
    <3>3. QED
      BY <3>1, <3>2
  <2>4. QED
    BY <1>11, <2>1, <2>2, <2>3 DEF IInv, Draining
<1>14. QED
  BY <1>5, <1>6, <1>9, <1>10, <1>12, <1>13 DEF IInv

-----------------------------------------------------------------------------
(* The inductive invariant holds in every reachable state. *)
THEOREM Invariance == Spec => []IInv
<1>1. IInv /\ [Next]_vars => IInv'
  <2> SUFFICES ASSUME IInv, [Next]_vars PROVE IInv'
    OBVIOUS
  <2>1. CASE Callback
    BY <2>1, CallbackPreserves
  <2>2. CASE Answer
    BY <2>2, WriteResponsePreserves DEF Answer
  <2>3. CASE WriteFails
    BY <2>3, WriteFailsPreserves
  <2>4. ASSUME writes # <<>>, NEW n \in 1 .. Head(writes).last, Send(n) PROVE IInv'
    <3>1. n \in Nat \ {0}
      BY <2>4, NextByte DEF IInv, Write
    <3>2. QED
      BY <2>4, <3>1, SendPreserves
  <2>5. CASE HandleWrite
    BY <2>5, HandleWritePreserves
  <2>6. CASE Stop \/ PeerResets
    BY <2>6, StopPreserves
  <2>7. CASE UNCHANGED vars
    <3>1. UNCHANGED <<keep, socket, peer, owes, asked, gptr, pptr, writes, done, received,
                      overlapped>>
      BY <2>7 DEF vars
    <3>2. TypeOK' /\ Bounds' /\ OneByOne' /\ OneShot' /\ Draining'
      BY <3>1 DEF IInv, TypeOK, Bounds, OneByOne, InOrder, OneShot, Draining, Failing
    <3>3. OnTheirWay'
      BY <3>1 DEF IInv, OnTheirWay, Failing, Got
    <3>4. QED
      BY <3>2, <3>3 DEF IInv
  <2>8. QED
    BY <2>1, <2>2, <2>3, <2>4, <2>5, <2>6, <2>7 DEF Next, Kernel
<1>2. QED
  BY <1>1, InitEstablishes, PTL DEF Spec

(* The buffer and the writes keep their types: no consume takes more than   *)
(* there is.                                                                *)
THEOREM TypeCorrect == Spec => []TypeOK
<1>1. IInv => TypeOK
  BY DEF IInv
<1>2. QED
  BY <1>1, Invariance, PTL

(* Without overlap the peer receives the answers in order, gapless and once. *)
THEOREM AnswersAreInOrder == Spec => []AnswersInOrder
<1>1. IInv => AnswersInOrder
  BY DEF IInv, OneByOne, InOrder, AnswersInOrder
<1>2. QED
  BY <1>1, Invariance, PTL

(* A connection that is not kept is closed behind its whole answer. *)
THEOREM OneShotAnswersAreWhole == Spec => []OneShotAnswerIsWhole
<1>1. IInv => OneShotAnswerIsWhole
  BY DEF IInv, OneByOne, OneShot, InOrder, OneShotAnswerIsWhole
<1>2. QED
  BY <1>1, Invariance, PTL

(* Overlapping writes lose nothing unless the storage moves, and leave the  *)
(* buffer empty, whatever their number and sizes.                           *)
THEOREM NothingGetsLost == Spec => []NothingIsLost
<1>1. IInv => NothingIsLost
  <2> SUFFICES ASSUME IInv, Idle PROVE /\ gptr = pptr
                                       /\ Got(Junk) \/ \A p \in 1 .. pptr : Got(p)
    BY DEF NothingIsLost
  <2>1. ~Failing /\ Len(writes) = 0 /\ Len(done) = 0
    BY DEF Idle, Failing
  <2>2. gptr = pptr
    BY <2>1 DEF IInv, Draining
  <2>3. ASSUME NEW p \in 1 .. pptr, ~Got(Junk) PROVE Got(p)
    BY <2>1, <2>3 DEF IInv, OnTheirWay
  <2>4. QED
    BY <2>2, <2>3
<1>2. QED
  BY <1>1, Invariance, PTL
=============================================================================
