------------------------- MODULE LoginServerProofs -------------------------
(***************************************************************************)
(* Proofs about LoginServer, for any set of sessions, any size of the      *)
(* buffer and any number of bytes sent.  The inductive invariant joins the *)
(* types, the accept under way, the sessions' reads and what was printed.  *)
(***************************************************************************)
EXTENDS LoginServer, NumberLemmas, SequenceTheorems, TLAPS

(* The accept under way: its session, and only it, is accepted. *)
AcceptUnderWay ==
  /\ accept = "done" => accepting \in Sessions
  /\ \A s \in Sessions : state[s] = "accepted" <=> accept = "done" /\ accepting = s
  /\ proc = "starting" => accept = "none"

(* Nothing is read beyond what was sent. *)
ReadsWhatWasSent == \A s \in Sessions : got[s] <= Len(stream[s])

IInv ==
  /\ TypeOK /\ AcceptUnderWay /\ ReadsWhatWasSent
  /\ SessionsAreReading /\ AcceptsUntilFailure /\ PrintsWhatArrived

-----------------------------------------------------------------------------
(* What do_read prints after a read of n bytes: those bytes, up to the      *)
(* first NUL among them, whatever the buffer held before.                   *)
LEMMA PrintedPart ==
  ASSUME TypeOK, NEW s \in Sessions, NEW n \in 1 .. BufferSize,
         got[s] + n <= Len(stream[s])
  PROVE  \E k \in 0 .. n :
           /\ CString(Terminated(Filled(s, n), n)) = [i \in 1 .. k |-> got[s] + i]
           /\ (\A p \in 1 .. got[s] + n : stream[s][p] # "nul") => k = n
<1> DEFINE b == Terminated(Filled(s, n), n)
           T == {e \in Cells : b[e] = 0}
<1>1. BufferSize \in Nat /\ n \in Nat /\ got[s] \in Nat /\ n + 1 \in Cells
  BY SizesAssumption DEF TypeOK, Cells
<1>2. \A i \in Cells :
        b[i] = IF i = n + 1 THEN 0
               ELSE IF i > n THEN m_buffer_[s][i]
               ELSE IF stream[s][got[s] + i] = "nul" THEN 0 ELSE got[s] + i
  BY <1>1 DEF Terminated, Filled
<1> HIDE DEF b
<1>3. T \in SUBSET Nat /\ n + 1 \in T
  BY <1>1, <1>2 DEF Cells
<1> HIDE DEF T
<1>4. PICK e0 \in T : \A j \in T : ~(j < e0)
  BY <1>3, LeastElement
<1>5. e0 \in Cells /\ b[e0] = 0 /\ \A i \in 1 .. e0 - 1 : b[i] # 0
  <2>1. e0 \in Cells /\ b[e0] = 0 /\ e0 \in Nat
    BY <1>1 DEF T, Cells
  <2>2. ASSUME NEW i \in 1 .. e0 - 1 PROVE b[i] # 0
    <3>1. i \in Cells /\ i < e0
      BY <1>1, <2>1 DEF Cells
    <3>2. QED
      BY <1>4, <3>1 DEF T
  <2>3. QED
    BY <2>1, <2>2
<1> DEFINE e == CHOOSE x \in Cells : b[x] = 0 /\ \A i \in 1 .. x - 1 : b[i] # 0
<1>6. e \in Cells /\ b[e] = 0 /\ \A i \in 1 .. e - 1 : b[i] # 0
  BY <1>5
<1>7. CString(b) = [i \in 1 .. e - 1 |-> b[i]]
  BY DEF CString
<1> HIDE DEF e
<1>8. e \in Nat /\ e >= 1 /\ e <= n + 1
  <2>1. e \in Nat /\ e >= 1
    BY <1>1, <1>6 DEF Cells
  <2>2. n + 1 <= e - 1 => b[n + 1] # 0
    BY <1>1, <1>6, <2>1
  <2>3. b[n + 1] = 0
    BY <1>3 DEF T
  <2>4. QED
    BY <1>1, <2>1, <2>2, <2>3
<1>9. \A i \in 1 .. e - 1 : b[i] = got[s] + i
  <2> TAKE i \in 1 .. e - 1
  <2>1. i \in Cells /\ i <= n /\ b[i] # 0
    BY <1>1, <1>6, <1>8 DEF Cells
  <2>2. QED
    BY <1>1, <1>2, <2>1
<1>10. (\A p \in 1 .. got[s] + n : stream[s][p] # "nul") => e - 1 = n
  <2> SUFFICES ASSUME \A p \in 1 .. got[s] + n : stream[s][p] # "nul", e <= n PROVE FALSE
    BY <1>1, <1>8
  <2>1. got[s] + e \in 1 .. got[s] + n /\ e # n + 1 /\ ~(e > n)
    BY <1>1, <1>8
  <2>2. b[e] = got[s] + e
    BY <1>2, <1>6, <2>1
  <2>3. QED
    BY <1>1, <1>6, <1>8, <2>2
<1>11. e - 1 \in 0 .. n /\ CString(b) = [i \in 1 .. e - 1 |-> got[s] + i]
  BY <1>1, <1>7, <1>8, <1>9
<1>12. QED
  BY <1>10, <1>11 DEF b

-----------------------------------------------------------------------------
(* A read by do_read keeps the types and prints what arrived.               *)
LEMMA ReadPrints ==
  ASSUME IInv, NEW s \in Sessions, NEW n \in 1 .. BufferSize, HandleRead(s, n)
  PROVE  TypeOK' /\ PrintsWhatArrived' /\ ReadsWhatWasSent'
<1> DEFINE b == Terminated(Filled(s, n), n)
           new == CString(b)
           old == printed[s]
<1>1. TypeOK /\ PrintsWhatArrived /\ ReadsWhatWasSent
  BY DEF IInv
<1>2. /\ n \in Nat /\ got[s] \in Nat /\ got[s] + n <= Len(stream[s])
      /\ got' = [got EXCEPT ![s] = got[s] + n]
      /\ printed' = [printed EXCEPT ![s] = old \o new]
      /\ m_buffer_' = [m_buffer_ EXCEPT ![s] = b]
      /\ reads' = [reads EXCEPT ![s] = @ + 1]
      /\ overrun' = (overrun \/ n = BufferSize)
      /\ UNCHANGED <<serverVars, m_sessions_, state, reading, peerVars>>
  BY <1>1, SizesAssumption DEF HandleRead, TypeOK
<1>3. b \in [Cells -> Int]
  <2>1. ASSUME NEW i \in Cells
        PROVE  (IF i > n THEN m_buffer_[s][i]
                ELSE IF stream[s][got[s] + i] = "nul" THEN 0 ELSE got[s] + i) \in Int
    <3>1. m_buffer_[s][i] \in Int
      BY <1>1 DEF TypeOK
    <3>2. got[s] + i \in Int /\ 0 \in Int
      BY <1>2, SizesAssumption DEF Cells
    <3>3. QED
      BY <3>1, <3>2
  <2>2. Filled(s, n) \in [Cells -> Int]
    BY <2>1 DEF Filled
  <2>3. 0 \in Int
    OBVIOUS
  <2> DEFINE f == Filled(s, n)
  <2>4. f \in [Cells -> Int]
    BY <2>2
  <2> HIDE DEF f
  <2>5. [f EXCEPT ![n + 1] = 0] = [i \in Cells |-> IF i = n + 1 THEN 0 ELSE f[i]]
    BY <2>4
  <2>6. [i \in Cells |-> IF i = n + 1 THEN 0 ELSE f[i]] \in [Cells -> Int]
    BY <2>3, <2>4
  <2>7. QED
    BY <2>5, <2>6 DEF Terminated, f
<1>4. PICK k \in 0 .. n : /\ new = [i \in 1 .. k |-> got[s] + i]
                          /\ (\A p \in 1 .. got[s] + n : stream[s][p] # "nul") => k = n
  BY <1>1, <1>2, PrintedPart
<1> HIDE DEF b, new
<1>5. k \in Nat /\ k <= n
  BY <1>2, <1>4
<1>6. new \in Seq(Int) /\ Len(new) = k
  <2>1. new \in [1 .. k -> Int]
    BY <1>2, <1>4, <1>5
  <2>2. new \in Seq(Int)
    BY <1>5, <2>1, SeqDef
  <2>3. QED
    BY <1>4, <1>5, <2>2
<1>7. old \in Seq(Int) /\ Len(old) \in Nat
  BY <1>1, LenProperties DEF TypeOK
<1>8. /\ old \o new \in Seq(Int) /\ Len(old \o new) = Len(old) + k
      /\ \A i \in 1 .. Len(old) + k :
           (old \o new)[i] = IF i <= Len(old) THEN old[i] ELSE new[i - Len(old)]
  <2>1. /\ old \o new \in Seq(Int) /\ Len(old \o new) = Len(old) + Len(new)
        /\ \A i \in 1 .. Len(old) + Len(new) :
             (old \o new)[i] = IF i <= Len(old) THEN old[i] ELSE new[i - Len(old)]
    BY <1>6, <1>7, ConcatProperties
  <2>2. QED
    BY <1>6, <2>1
<1>9. \A i \in 1 .. Len(old) : old[i] \in 1 .. got[s] /\ (old \o new)[i] = old[i]
  BY <1>1, <1>5, <1>7, <1>8 DEF PrintsWhatArrived
<1>10. \A i \in Len(old) + 1 .. Len(old) + k : (old \o new)[i] = got[s] + (i - Len(old))
  <2> TAKE i \in Len(old) + 1 .. Len(old) + k
  <2>1. i - Len(old) \in 1 .. k /\ i \in 1 .. Len(old) + k /\ ~(i <= Len(old))
    BY <1>5, <1>7
  <2>2. QED
    BY <1>4, <1>8, <2>1
<1>11. printed'[s] = old \o new /\ got'[s] = got[s] + n
  BY <1>1, <1>2 DEF TypeOK
<1> DEFINE all == old \o new
<1> HIDE DEF old
<1>12. Len(all) = Len(old) + k
  BY <1>8
<1>13. \A i \in 1 .. Len(all) : all[i] \in 1 .. got[s] + n
  <2> TAKE i \in 1 .. Len(all)
  <2>1. CASE i \in 1 .. Len(old)
    BY <1>2, <1>9, <2>1
  <2>2. CASE i \in Len(old) + 1 .. Len(old) + k
    BY <1>2, <1>5, <1>7, <1>10, <2>2
  <2>3. QED
    BY <1>5, <1>7, <1>12, <2>1, <2>2
<1>14. \A i \in 1 .. Len(all) - 1 : all[i] < all[i + 1]
  <2> TAKE i \in 1 .. Len(all) - 1
  <2>1. CASE i + 1 <= Len(old)
    <3>1. i \in 1 .. Len(old) - 1 /\ i \in 1 .. Len(old) /\ i + 1 \in 1 .. Len(old)
      BY <1>5, <1>7, <1>12, <2>1
    <3>2. old[i] < old[i + 1]
      BY <1>1, <3>1 DEF PrintsWhatArrived, old
    <3>3. QED
      BY <1>9, <3>1, <3>2
  <2>2. CASE i = Len(old)
    <3>1. i \in 1 .. Len(old) /\ i + 1 \in Len(old) + 1 .. Len(old) + k
      BY <1>5, <1>7, <1>12, <2>2
    <3>2. all[i] \in 1 .. got[s] /\ all[i + 1] = got[s] + (i + 1 - Len(old))
      BY <1>9, <1>10, <3>1
    <3>3. QED
      BY <1>2, <1>7, <2>2, <3>2
  <2>3. CASE i > Len(old)
    <3>1. /\ i \in Len(old) + 1 .. Len(old) + k /\ i + 1 \in Len(old) + 1 .. Len(old) + k
          /\ i \in Nat
      BY <1>5, <1>7, <1>12, <2>3
    <3>2. all[i] = got[s] + (i - Len(old)) /\ all[i + 1] = got[s] + (i + 1 - Len(old))
      BY <1>10, <3>1
    <3>3. QED
      BY <1>2, <1>7, <3>1, <3>2
  <2>4. QED
    BY <1>5, <1>7, <1>12, <2>1, <2>2, <2>3
<1>15. (\A p \in 1 .. got[s] + n : stream[s][p] # "nul") => Len(all) = got[s] + n
  <2> SUFFICES ASSUME \A p \in 1 .. got[s] + n : stream[s][p] # "nul"
               PROVE  Len(all) = got[s] + n
    OBVIOUS
  <2>1. \A p \in 1 .. got[s] : stream[s][p] # "nul"
    BY <1>2
  <2>2. Len(old) = got[s]
    BY <1>1, <2>1 DEF PrintsWhatArrived, old
  <2>3. QED
    BY <1>4, <1>12, <2>2
<1>16. TypeOK'
  <2>1. overrun' \in BOOLEAN
    BY <1>1, <1>2, Zenon DEF TypeOK
  <2>2. printed' \in [Sessions -> Seq(Int)]
    BY <1>1, <1>2, <1>8 DEF TypeOK
  <2>3. got' \in [Sessions -> Nat] /\ reads' \in [Sessions -> Nat]
    BY <1>1, <1>2 DEF TypeOK
  <2>4. m_buffer_' \in [Sessions -> [Cells -> Int]]
    BY <1>1, <1>2, <1>3 DEF TypeOK
  <2>5. QED
    BY <1>1, <1>2, <2>1, <2>2, <2>3, <2>4 DEF TypeOK, serverVars, peerVars
<1>17. PrintsWhatArrived'
  <2> SUFFICES ASSUME NEW t \in Sessions
               PROVE  /\ \A i \in 1 .. Len(printed'[t]) : printed'[t][i] \in 1 .. got'[t]
                      /\ \A i \in 1 .. Len(printed'[t]) - 1 : printed'[t][i] < printed'[t][i + 1]
                      /\ (\A p \in 1 .. got'[t] : stream'[t][p] # "nul")
                           => Len(printed'[t]) = got'[t]
    BY DEF PrintsWhatArrived
  <2>1. stream' = stream
    BY <1>2 DEF peerVars
  <2>2. CASE t = s
    BY <1>11, <1>13, <1>14, <1>15, <2>1, <2>2
  <2>3. CASE t # s
    <3>1. printed'[t] = printed[t] /\ got'[t] = got[t]
      BY <1>1, <1>2, <2>3 DEF TypeOK
    <3>2. QED
      BY <1>1, <2>1, <3>1 DEF PrintsWhatArrived
  <2>4. QED
    BY <2>2, <2>3
<1>18. ReadsWhatWasSent'
  BY <1>1, <1>2, <1>11 DEF ReadsWhatWasSent, TypeOK, peerVars
<1>19. QED
  BY <1>16, <1>17, <1>18


-----------------------------------------------------------------------------
(* Before the server starts there is nothing to read and nothing printed.   *)
LEMMA InitIInv == Init => IInv
<1> SUFFICES ASSUME Init PROVE IInv
  OBVIOUS
<1>1. TypeOK
  <2>1. acceptFailed \in BOOLEAN /\ overrun \in BOOLEAN
    BY Zenon DEF Init
  <2>2. reading \in [Sessions -> BOOLEAN]
    <3>1. FALSE \in BOOLEAN
      BY Zenon
    <3>2. QED
      BY <3>1, Zenon DEF Init
  <2>3. m_buffer_ \in [Sessions -> [Cells -> Int]]
    <3>1. Junk \in Int
      BY DEF Junk
    <3>2. QED
      BY <3>1 DEF Init
  <2>4. QED
    BY <2>1, <2>2, <2>3 DEF TypeOK, Init
<1>2. AcceptUnderWay /\ ReadsWhatWasSent /\ SessionsAreReading /\ AcceptsUntilFailure
  BY DEF Init, AcceptUnderWay, ReadsWhatWasSent, SessionsAreReading, AcceptsUntilFailure
<1>3. PrintsWhatArrived
  <2> SUFFICES ASSUME NEW s \in Sessions
               PROVE  /\ \A i \in 1 .. Len(printed[s]) : printed[s][i] \in 1 .. got[s]
                      /\ \A i \in 1 .. Len(printed[s]) - 1 :
                           printed[s][i] < printed[s][i + 1]
                      /\ Len(printed[s]) = got[s]
    BY DEF PrintsWhatArrived
  <2>1. Len(printed[s]) = 0 /\ got[s] = 0
    BY DEF Init
  <2>2. QED
    BY <2>1
<1>4. QED
  BY <1>1, <1>2, <1>3 DEF IInv

(* A peer's byte is appended to what it sent; what was there stays.         *)
LEMMA SendKeepsPrinted ==
  ASSUME IInv, NEW s \in Sessions, NEW b \in {"char", "nul"}, PeerSend(s, b)
  PROVE  TypeOK' /\ PrintsWhatArrived' /\ ReadsWhatWasSent'
<1>1. TypeOK /\ PrintsWhatArrived /\ ReadsWhatWasSent
  BY DEF IInv
<1>2. /\ stream' = [stream EXCEPT ![s] = Append(stream[s], b)]
      /\ UNCHANGED <<serverVars, m_sessions_, state, reading, peer, bufferVars>>
  BY <1>1 DEF PeerSend
<1>3. stream[s] \in Seq({"char", "nul"}) /\ Len(stream[s]) \in Nat
  BY <1>1, LenProperties DEF TypeOK
<1>4. /\ Append(stream[s], b) \in Seq({"char", "nul"})
      /\ Len(Append(stream[s], b)) = Len(stream[s]) + 1
      /\ \A p \in 1 .. Len(stream[s]) : Append(stream[s], b)[p] = stream[s][p]
  BY <1>3, AppendProperties
<1>5. \A t \in Sessions : /\ got[t] \in Nat /\ got[t] <= Len(stream'[t])
                          /\ \A p \in 1 .. got[t] : stream'[t][p] = stream[t][p]
  <2> TAKE t \in Sessions
  <2>1. got[t] \in Nat /\ got[t] <= Len(stream[t])
    BY <1>1 DEF TypeOK, ReadsWhatWasSent
  <2>2. CASE t = s
    <3>1. stream'[s] = Append(stream[s], b)
      BY <1>1, <1>2 DEF TypeOK
    <3>2. QED
      BY <1>3, <1>4, <2>1, <2>2, <3>1
  <2>3. CASE t # s
    BY <1>1, <1>2, <2>1, <2>3 DEF TypeOK
  <2>4. QED
    BY <2>2, <2>3
<1>6. TypeOK'
  <2>1. stream' \in [Sessions -> Seq({"char", "nul"})]
    BY <1>1, <1>2, <1>4 DEF TypeOK
  <2>2. QED
    BY <1>1, <1>2, <2>1 DEF TypeOK, serverVars, bufferVars
<1>7. PrintsWhatArrived'
  BY <1>1, <1>2, <1>5 DEF PrintsWhatArrived, bufferVars
<1>8. ReadsWhatWasSent'
  BY <1>2, <1>5 DEF ReadsWhatWasSent, bufferVars
<1>9. QED
  BY <1>6, <1>7, <1>8

(* Every step keeps the types and what can be said of the prints.           *)
LEMMA BuffersPreserved ==
  ASSUME IInv, [Next]_vars
  PROVE  TypeOK' /\ PrintsWhatArrived' /\ ReadsWhatWasSent'
<1>1. TypeOK /\ PrintsWhatArrived /\ ReadsWhatWasSent /\ AcceptUnderWay
  BY DEF IInv
<1>2. ASSUME NEW s \in Sessions, NEW b \in {"char", "nul"}, PeerSend(s, b)
      PROVE  TypeOK' /\ PrintsWhatArrived' /\ ReadsWhatWasSent'
  BY <1>2, SendKeepsPrinted
<1>3. ASSUME NEW s \in Sessions, NEW n \in 1 .. BufferSize, HandleRead(s, n)
      PROVE  TypeOK' /\ PrintsWhatArrived' /\ ReadsWhatWasSent'
  BY <1>3, ReadPrints
<1>4. ASSUME TypeOK', UNCHANGED <<stream, got, printed>>
      PROVE  TypeOK' /\ PrintsWhatArrived' /\ ReadsWhatWasSent'
  BY <1>1, <1>4 DEF PrintsWhatArrived, ReadsWhatWasSent
<1>5. CASE Construct \/ HeapFails \/ RunReturns \/ UNCHANGED vars
  <2>1. TypeOK'
    BY <1>1, <1>5 DEF Construct, HeapFails, RunReturns, vars, TypeOK, serverVars,
                      peerVars, bufferVars
  <2>2. QED
    BY <1>4, <1>5, <2>1 DEF Construct, HeapFails, RunReturns, vars, peerVars, bufferVars
<1>6. CASE HandleAcceptError
  <2>1. acceptFailed' \in BOOLEAN
    BY <1>6, Zenon DEF HandleAcceptError
  <2>2. TypeOK'
    BY <1>1, <1>6, <2>1 DEF HandleAcceptError, TypeOK, peerVars, bufferVars
  <2>3. QED
    BY <1>4, <1>6, <2>2 DEF HandleAcceptError, peerVars, bufferVars
<1>7. CASE HandleAccept
  <2>1. reading' \in [Sessions -> BOOLEAN]
    <3>1. TRUE \in BOOLEAN
      BY Zenon
    <3>2. QED
      BY <1>1, <1>7, <3>1 DEF HandleAccept, TypeOK
  <2>2. TypeOK'
    BY <1>1, <1>7, <2>1 DEF HandleAccept, TypeOK, AcceptUnderWay, peerVars, bufferVars
  <2>3. QED
    BY <1>4, <1>7, <2>2 DEF HandleAccept, peerVars, bufferVars
<1>8. ASSUME NEW s \in Sessions, AcceptCompletes(s)
      PROVE  TypeOK' /\ PrintsWhatArrived' /\ ReadsWhatWasSent'
  <2>1. TypeOK'
    BY <1>1, <1>8 DEF AcceptCompletes, TypeOK, bufferVars
  <2>2. QED
    BY <1>4, <1>8, <2>1 DEF AcceptCompletes, bufferVars
<1>9. ASSUME NEW s \in Sessions, PeerLeave(s, "eof") \/ PeerLeave(s, "reset")
      PROVE  TypeOK' /\ PrintsWhatArrived' /\ ReadsWhatWasSent'
  <2>1. TypeOK'
    BY <1>1, <1>9 DEF PeerLeave, TypeOK, serverVars, bufferVars
  <2>2. QED
    BY <1>4, <1>9, <2>1 DEF PeerLeave, bufferVars
<1>10. ASSUME NEW s \in Sessions, HandleReadError(s)
       PROVE  TypeOK' /\ PrintsWhatArrived' /\ ReadsWhatWasSent'
  <2>1. reading' \in [Sessions -> BOOLEAN]
    <3>1. FALSE \in BOOLEAN
      BY Zenon
    <3>2. QED
      BY <1>1, <1>10, <3>1 DEF HandleReadError, TypeOK
  <2>2. TypeOK'
    BY <1>1, <1>10, <2>1 DEF HandleReadError, TypeOK, serverVars, peerVars, bufferVars
  <2>3. QED
    BY <1>4, <1>10, <2>2 DEF HandleReadError, peerVars, bufferVars
<1>11. QED
  BY <1>2, <1>3, <1>5, <1>6, <1>7, <1>8, <1>9, <1>10 DEF Next, Read


-----------------------------------------------------------------------------
(* Sessions enter with their first read and leave with their last, and the  *)
(* accept chain goes on.                                                    *)
LEMMA SessionsPreserved ==
  ASSUME IInv, [Next]_vars
  PROVE  AcceptUnderWay' /\ SessionsAreReading' /\ AcceptsUntilFailure'
<1>1. TypeOK /\ AcceptUnderWay /\ SessionsAreReading /\ AcceptsUntilFailure
  BY DEF IInv
<1> USE DEF serverVars, peerVars, bufferVars, AcceptUnderWay, SessionsAreReading,
            AcceptsUntilFailure
<1>2. CASE Construct \/ HeapFails \/ HandleAcceptError \/ UNCHANGED vars
  BY <1>1, <1>2 DEF Construct, HeapFails, HandleAcceptError, vars
<1>3. CASE RunReturns
  <2>1. acceptFailed /\ m_sessions_ = {}
    BY <1>1, <1>3 DEF RunReturns, TypeOK
  <2>2. QED
    BY <1>1, <1>3, <2>1 DEF RunReturns
<1>4. CASE HandleAccept
  <2>1. accepting \in Sessions /\ state[accepting] = "accepted"
    BY <1>1, <1>4 DEF HandleAccept
  <2>2. \A s \in Sessions : s # accepting => state'[s] = state[s] /\ reading'[s] = reading[s]
    BY <1>1, <1>4 DEF HandleAccept, TypeOK
  <2>3. state'[accepting] = "open" /\ reading'[accepting]
    BY <1>1, <1>4, <2>1 DEF HandleAccept, TypeOK
  <2>4. SessionsAreReading'
    BY <1>1, <1>4, <2>1, <2>2, <2>3 DEF HandleAccept
  <2>5. QED
    BY <1>1, <1>4, <2>1, <2>2, <2>3, <2>4 DEF HandleAccept
<1>5. ASSUME NEW s \in Sessions, AcceptCompletes(s)
      PROVE  AcceptUnderWay' /\ SessionsAreReading' /\ AcceptsUntilFailure'
  BY <1>1, <1>5 DEF AcceptCompletes, TypeOK
<1>6. ASSUME NEW s \in Sessions,
             \/ \E b \in {"char", "nul"} : PeerSend(s, b)
             \/ PeerLeave(s, "eof") \/ PeerLeave(s, "reset")
             \/ Read(s)
      PROVE  AcceptUnderWay' /\ SessionsAreReading' /\ AcceptsUntilFailure'
  BY <1>1, <1>6 DEF PeerSend, PeerLeave, Read, HandleRead
<1>7. ASSUME NEW s \in Sessions, HandleReadError(s)
      PROVE  AcceptUnderWay' /\ SessionsAreReading' /\ AcceptsUntilFailure'
  <2>1. state[s] = "open" /\ state'[s] = "closed" /\ ~reading'[s]
    BY <1>1, <1>7 DEF HandleReadError, TypeOK
  <2>2. \A t \in Sessions : t # s => state'[t] = state[t] /\ reading'[t] = reading[t]
    BY <1>1, <1>7 DEF HandleReadError, TypeOK
  <2>3. QED
    BY <1>1, <1>7, <2>1, <2>2 DEF HandleReadError
<1>8. QED
  BY <1>2, <1>3, <1>4, <1>5, <1>6, <1>7 DEF Next

(* The parts of the invariant hold together in every reachable state.       *)
THEOREM Invariance == Spec => []IInv
<1>1. IInv /\ [Next]_vars => IInv'
  <2> SUFFICES ASSUME IInv, [Next]_vars PROVE IInv'
    OBVIOUS
  <2>1. QED
    BY BuffersPreserved, SessionsPreserved DEF IInv
<1>2. QED
  BY <1>1, InitIInv, PTL DEF Spec

(* The sessions' and the server's variables keep their types.               *)
THEOREM TypeCorrect == Spec => []TypeOK
<1>1. IInv => TypeOK
  BY DEF IInv
<1>2. QED
  BY <1>1, Invariance, PTL

(* Every held session has its read outstanding, and no socket is closed     *)
(* under a read: the exit(-1) for an aborted read is never reached.         *)
THEOREM HeldSessionsRead == Spec => []SessionsAreReading
<1>1. IInv => SessionsAreReading
  BY DEF IInv
<1>2. QED
  BY <1>1, Invariance, PTL

(* The server accepts until an accept fails, and comes back only after that *)
(* and with no session held.                                                *)
THEOREM AcceptChainHolds == Spec => []AcceptsUntilFailure
<1>1. IInv => AcceptsUntilFailure
  BY DEF IInv
<1>2. QED
  BY <1>1, Invariance, PTL

(* For every size of the buffer, and whatever the reads' sizes: cout prints *)
(* what arrived, once and in order, and all of it if no NUL was sent.       *)
THEOREM PrintedIsWhatArrived == Spec => []PrintsWhatArrived
<1>1. IInv => PrintsWhatArrived
  BY DEF IInv
<1>2. QED
  BY <1>1, Invariance, PTL

-----------------------------------------------------------------------------
Closed == {s \in Sessions : state[s] = "closed"}

(* login_server implements the registry.                                    *)
THEOREM RefinesRegistry == Spec => ImplementsRegistry
<1>1. Init => Registry!Init
  BY DEF Init, Registry!Init
<1>2. IInv /\ [Next]_vars => [Registry!Next]_(Registry!vars)
  <2> SUFFICES ASSUME IInv, [Next]_vars
               PROVE  Registry!Next \/ UNCHANGED <<m_sessions_, Closed, reads>>
    BY DEF Registry!vars, Closed
  <2>1. TypeOK /\ AcceptUnderWay /\ SessionsAreReading
    BY DEF IInv
  <2> USE DEF serverVars, peerVars, bufferVars
  <2>2. CASE Construct \/ HeapFails \/ HandleAcceptError \/ RunReturns \/ UNCHANGED vars
    BY <2>2 DEF Construct, HeapFails, HandleAcceptError, RunReturns, vars, Closed
  <2>3. CASE HandleAccept
    <3>1. PICK s \in Sessions : s = accepting /\ state[s] = "accepted"
      BY <2>1, <2>3 DEF HandleAccept, AcceptUnderWay
    <3>2. s \notin m_sessions_ \cup Closed
      BY <2>1, <3>1 DEF SessionsAreReading, Closed
    <3>3. Closed' = Closed
      BY <2>1, <2>3, <3>1 DEF HandleAccept, TypeOK, Closed
    <3>4. Registry!Open(s)
      BY <2>3, <3>1, <3>2, <3>3 DEF HandleAccept, Registry!Open, Closed
    <3>5. QED
      BY <3>4 DEF Registry!Next
  <2>4. ASSUME NEW s \in Sessions, AcceptCompletes(s)
        PROVE  UNCHANGED <<m_sessions_, Closed, reads>>
    BY <2>1, <2>4 DEF AcceptCompletes, TypeOK, Closed
  <2>5. ASSUME NEW s \in Sessions,
               \/ \E b \in {"char", "nul"} : PeerSend(s, b)
               \/ PeerLeave(s, "eof") \/ PeerLeave(s, "reset")
        PROVE  UNCHANGED <<m_sessions_, Closed, reads>>
    BY <2>5 DEF PeerSend, PeerLeave, Closed
  <2>6. ASSUME NEW s \in Sessions, NEW n \in 1 .. BufferSize, HandleRead(s, n)
        PROVE  Registry!Next
    <3>1. s \in m_sessions_ /\ reads' = [reads EXCEPT ![s] = @ + 1]
          /\ UNCHANGED <<m_sessions_, state>>
      BY <2>1, <2>6 DEF HandleRead, SessionsAreReading
    <3>2. Registry!Serve(s)
      BY <3>1 DEF Registry!Serve
    <3>3. QED
      BY <3>2 DEF Registry!Next
  <2>7. ASSUME NEW s \in Sessions, HandleReadError(s) PROVE Registry!Next
    <3>1. s \in m_sessions_ /\ state[s] = "open"
      BY <2>1, <2>7 DEF HandleReadError, SessionsAreReading
    <3>2. m_sessions_' = m_sessions_ \ {s} /\ Closed' = Closed \cup {s} /\ reads' = reads
      BY <2>1, <2>7 DEF HandleReadError, TypeOK, Closed
    <3>3. {s} \in SUBSET m_sessions_ /\ Registry!Close({s})
      BY <3>1, <3>2 DEF Registry!Close, Closed
    <3>4. QED
      BY <3>3 DEF Registry!Next
  <2>8. QED
    BY <2>2, <2>3, <2>4, <2>5, <2>6, <2>7 DEF Next, Read
<1>3. QED
  BY <1>1, <1>2, Invariance, PTL DEF Spec, ImplementsRegistry, Registry!Spec


=============================================================================
