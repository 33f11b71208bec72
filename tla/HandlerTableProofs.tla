------------------------- MODULE HandlerTableProofs -------------------------
(***************************************************************************)
(* Proofs about HandlerTable, for any number of threads, targets, calls    *)
(* and nested callbacks.                                                   *)
(*                                                                         *)
(* Whatever happens, the inner calls of a thread are callbacks (Nesting)   *)
(* and a call is at a place of its operation (Places).  As long as there   *)
(* was no race, at most one call is between its find and its assignment    *)
(* (OneWriter), the table is what that call makes of it (Table), and a     *)
(* call has what was added before it began (Calls).                        *)
(***************************************************************************)
EXTENDS HandlerTable, SequenceTheorems, TLAPS

Writing(t) == At(t, "inserting") \/ At(t, "assigning")

Nesting ==
  \A t \in Threads : \A i \in 2 .. Len(stack[t]) : stack[t][i].at = "calling"

InPlace(call) ==
  /\ call.at = "calling" => call.op = "handle_request"
  /\ call.at \in {"inserting", "assigning"} => call.op = "add_handle"
  /\ call.at \in {"locking", "finding", "inserting", "assigning"} => call.answer = FALSE

Places == \A t \in Threads : \A i \in 1 .. Len(stack[t]) : InPlace(stack[t][i])

OneWriter == \A s, t \in Threads : Writing(s) /\ Writing(t) => s = t

(* What the innermost call of a thread has made of the entry it works on.   *)
Entry(t) ==
  LET call == Head(stack[t]) IN
  stack[t] # <<>> =>
    /\ call.at = "inserting" => m_callback_funcs_[call.uri] = NotThere
    /\ call.at = "assigning" => m_callback_funcs_[call.uri] = Unset
    /\ call.at = "done" /\ call.op = "add_handle" /\ call.answer =>
         m_callback_funcs_[call.uri] = t /\ added[call.uri] = NotThere

Histories ==
  \A u \in Uris :
    /\ wins[u] = IF added[u] = NotThere THEN 0 ELSE 1
    /\ added[u] # NotThere => m_callback_funcs_[u] = added[u]

Table == Histories /\ \A t \in Threads : Entry(t)

(* What a call that began after a callback was added does with it.          *)
Sees(call) ==
  call.earlier # NotThere =>
    /\ added[call.uri] = call.earlier
    /\ call.at = "calling" => call.callback = call.earlier
    /\ call.at \notin {"inserting", "assigning"}
    /\ call.at = "done" => call.answer = (call.op = "handle_request")

Calls == \A t \in Threads : \A i \in 1 .. Len(stack[t]) : Sees(stack[t][i])

IInv == TypeOK /\ Nesting /\ Places /\ (health = "well" => OneWriter /\ Table /\ Calls)

-----------------------------------------------------------------------------
(* The innermost call of a thread. *)
LEMMA Innermost ==
  ASSUME TypeOK, NEW t \in Threads, stack[t] # <<>>
  PROVE  /\ stack[t] \in Seq(Call) /\ Len(stack[t]) \in Nat \ {0}
         /\ Head(stack[t]) = stack[t][1] /\ Head(stack[t]) \in Call
<1>1. stack[t] \in Seq(Call)
  BY DEF TypeOK
<1>2. QED
  BY <1>1, HeadTailProperties, EmptySeq

(* An update replaces the innermost call of one thread, and no other call. *)
LEMMA UpdateEffect ==
  ASSUME TypeOK, NEW t \in Threads, stack[t] # <<>>, NEW call \in Call, Update(t, call)
  PROVE  /\ stack' \in [Threads -> Seq(Call)]
         /\ stack'[t] # <<>> /\ Len(stack'[t]) = Len(stack[t])
         /\ Head(stack'[t]) = call /\ stack'[t][1] = call
         /\ \A i \in 2 .. Len(stack[t]) : stack'[t][i] = stack[t][i]
         /\ \A s \in Threads \ {t} : stack'[s] = stack[s]
<1> DEFINE old == stack[t]
           new == <<call>> \o Tail(old)
<1>1. old \in Seq(Call) /\ Len(old) \in Nat \ {0}
  BY Innermost
<1>2. /\ Tail(old) \in Seq(Call) /\ Len(Tail(old)) = Len(old) - 1
      /\ \A i \in 1 .. Len(Tail(old)) : Tail(old)[i] = old[i + 1]
  BY <1>1, HeadTailProperties
<1>3. <<call>> \in Seq(Call) /\ Len(<<call>>) = 1 /\ <<call>>[1] = call
  OBVIOUS
<1>4. /\ new \in Seq(Call) /\ Len(new) = Len(old)
      /\ \A i \in 1 .. Len(old) : new[i] = IF i <= 1 THEN <<call>>[i] ELSE Tail(old)[i - 1]
  <2>1. 1 + Len(Tail(old)) = Len(old)
    BY <1>1, <1>2
  <2>2. QED
    BY <1>2, <1>3, <2>1, ConcatProperties
<1>5. stack' = [stack EXCEPT ![t] = new] /\ stack \in [Threads -> Seq(Call)]
  BY DEF Update, TypeOK
<1>6. /\ stack' \in [Threads -> Seq(Call)] /\ stack'[t] = new
      /\ \A s \in Threads \ {t} : stack'[s] = stack[s]
  BY <1>4, <1>5
<1>7. new[1] = call /\ Head(new) = call /\ new # <<>>
  <2>1. new[1] = call
    BY <1>1, <1>3, <1>4
  <2>2. new # <<>>
    BY <1>1, <1>4, EmptySeq
  <2>3. QED
    BY <1>4, <2>1, <2>2, HeadTailProperties
<1>8. \A i \in 2 .. Len(old) : new[i] = old[i]
  <2>1. SUFFICES ASSUME NEW i \in 2 .. Len(old) PROVE new[i] = old[i]
    OBVIOUS
  <2>2. i \in 1 .. Len(old) /\ ~(i <= 1) /\ i - 1 \in 1 .. Len(Tail(old)) /\ (i - 1) + 1 = i
    BY <1>1, <1>2
  <2>3. new[i] = Tail(old)[i - 1]
    BY <1>4, <2>2
  <2>4. Tail(old)[i - 1] = old[(i - 1) + 1]
    BY <1>2, <2>2
  <2>5. QED
    BY <2>2, <2>3, <2>4
<1>9. QED
  BY <1>4, <1>6, <1>7, <1>8

(* What a new innermost call must be, for the shape of the calls to stay. *)
LEMMA UpdateKeepsShape ==
  ASSUME TypeOK, Nesting, Places, NEW t \in Threads, stack[t] # <<>>,
         NEW call \in Call, Update(t, call), InPlace(call)
  PROVE  Nesting' /\ Places'
<1>1. /\ Len(stack'[t]) = Len(stack[t]) /\ stack'[t][1] = call /\ Len(stack[t]) \in Nat \ {0}
      /\ \A i \in 2 .. Len(stack[t]) : stack'[t][i] = stack[t][i]
      /\ \A s \in Threads \ {t} : stack'[s] = stack[s]
  BY UpdateEffect, Innermost
<1>2. Nesting'
  BY <1>1 DEF Nesting
<1>3. ASSUME NEW s \in Threads, NEW i \in 1 .. Len(stack'[s]) PROVE InPlace(stack'[s][i])
  <2>1. CASE s # t
    BY <1>1, <2>1 DEF Places
  <2>2. CASE s = t /\ i = 1
    BY <1>1, <2>2
  <2>3. CASE s = t /\ i # 1
    <3>1. i \in 2 .. Len(stack[t]) /\ i \in 1 .. Len(stack[t])
      BY <1>1, <2>3
    <3>2. stack'[t][i] = stack[t][i] /\ InPlace(stack[t][i])
      BY <1>1, <3>1 DEF Places
    <3>3. QED
      BY <2>3, <3>2
  <2>4. QED
    BY <2>1, <2>2, <2>3
<1>4. Places'
  BY <1>3 DEF Places, InPlace
<1>5. QED
  BY <1>2, <1>4

(* ... and for the calls to have what was added before them.                *)
LEMMA UpdateKeepsCalls ==
  ASSUME TypeOK, Calls, NEW t \in Threads, stack[t] # <<>>, UNCHANGED added,
         NEW call \in Call, Update(t, call), Sees(call)
  PROVE  Calls'
<1>1. /\ Len(stack'[t]) = Len(stack[t]) /\ stack'[t][1] = call /\ Len(stack[t]) \in Nat \ {0}
      /\ \A i \in 2 .. Len(stack[t]) : stack'[t][i] = stack[t][i]
      /\ \A s \in Threads \ {t} : stack'[s] = stack[s]
  BY UpdateEffect, Innermost
<1>2. ASSUME NEW s \in Threads, NEW i \in 1 .. Len(stack'[s]) PROVE Sees(stack'[s][i])
  <2>1. CASE s # t
    BY <1>1, <2>1 DEF Calls
  <2>2. CASE s = t /\ i = 1
    BY <1>1, <2>2
  <2>3. CASE s = t /\ i # 1
    <3>1. i \in 2 .. Len(stack[t]) /\ i \in 1 .. Len(stack[t])
      BY <1>1, <2>3
    <3>2. stack'[t][i] = stack[t][i] /\ Sees(stack[t][i])
      BY <1>1, <3>1 DEF Calls
    <3>3. QED
      BY <2>3, <3>2
  <2>4. QED
    BY <2>1, <2>2, <2>3
<1>3. QED
  BY <1>2 DEF Calls, Sees

(* A step to a place where nothing is written, by an update or a new call.  *)
LEMMA QuietStep ==
  ASSUME OneWriter, Table, NEW t \in Threads, stack'[t] # <<>>,
         \A s \in Threads \ {t} : stack'[s] = stack[s],
         Head(stack'[t]).at \notin {"inserting", "assigning"},
         ~(Head(stack'[t]).at = "done" /\ Head(stack'[t]).op = "add_handle"
           /\ Head(stack'[t]).answer),
         UNCHANGED <<m_callback_funcs_, added, wins>>
  PROVE  OneWriter' /\ Table'
<1>1. OneWriter'
  BY DEF OneWriter, Writing, At
<1>2. Histories'
  BY DEF Table, Histories
<1>3. ASSUME NEW s \in Threads PROVE Entry(s)'
  BY DEF Table, Entry
<1>4. QED
  BY <1>1, <1>2, <1>3 DEF Table

-----------------------------------------------------------------------------
LEMMA BeginKeeps ==
  ASSUME IInv, NEW t \in Threads, NEW op \in {"handle_request", "add_handle"}, NEW u \in Uris,
         Begin(t, op, u)
  PROVE  IInv'
<1> DEFINE old == stack[t]
           call == [op |-> op, uri |-> u, at |-> "locking", lock |-> "none",
                    callback |-> NotThere, answer |-> FALSE, earlier |-> added[u]]
           new == <<call>> \o old
<1>1. TypeOK /\ Nesting /\ Places
  BY DEF IInv
<1>2. added[u] \in Threads \cup {NotThere}
  BY <1>1 DEF TypeOK
<1>3. call \in Call
  BY <1>2 DEF Call
<1>4. old \in Seq(Call) /\ Len(old) \in Nat
  BY <1>1 DEF TypeOK
<1>5. <<call>> \in Seq(Call) /\ Len(<<call>>) = 1 /\ <<call>>[1] = call
  BY <1>3
<1> HIDE DEF call
<1>6. /\ new \in Seq(Call) /\ Len(new) = 1 + Len(old)
      /\ \A i \in 1 .. 1 + Len(old) : new[i] = IF i <= 1 THEN <<call>>[i] ELSE old[i - 1]
  BY <1>4, <1>5, ConcatProperties
<1>7. new # <<>> /\ new[1] = call /\ Head(new) = call
  <2>1. new[1] = call
    BY <1>4, <1>5, <1>6
  <2>2. new # <<>>
    BY <1>4, <1>6, EmptySeq
  <2>3. QED
    BY <1>6, <2>1, <2>2, HeadTailProperties
<1>8. \A i \in 2 .. Len(new) : new[i] = old[i - 1] /\ i - 1 \in 1 .. Len(old)
  BY <1>4, <1>6
<1>9. stack' = [stack EXCEPT ![t] = new] /\ stack \in [Threads -> Seq(Call)]
  BY <1>1 DEF Begin, call, TypeOK
<1> HIDE DEF new
<1>10. /\ stack' \in [Threads -> Seq(Call)] /\ stack'[t] = new
       /\ \A s \in Threads \ {t} : stack'[s] = stack[s]
  BY <1>6, <1>9
<1>11. UNCHANGED <<m_callback_funcs_, added, wins, health>> /\ begun' = begun + 1
       /\ (old = <<>> \/ At(t, "calling"))
  BY DEF Begin
<1>12. TypeOK'
  BY <1>1, <1>10, <1>11 DEF TypeOK
<1>13. Nesting'
  <2>1. SUFFICES ASSUME NEW s \in Threads, NEW i \in 2 .. Len(stack'[s])
                 PROVE stack'[s][i].at = "calling"
    BY DEF Nesting
  <2>2. CASE s # t
    BY <1>1, <1>10, <2>2 DEF Nesting
  <2>3. CASE s = t
    <3>1. stack'[s][i] = old[i - 1] /\ i - 1 \in 1 .. Len(old)
      BY <1>8, <1>10, <2>3
    <3>2. CASE i - 1 = 1
      <4>1. old # <<>>
        BY <1>4, <3>1, EmptySeq
      <4>2. Head(old) = old[1] /\ At(t, "calling")
        BY <1>1, <1>11, <4>1, Innermost
      <4>3. QED
        BY <3>1, <3>2, <4>2 DEF At
    <3>3. CASE i - 1 # 1
      <4>1. i - 1 \in 2 .. Len(old)
        BY <1>4, <3>1, <3>3
      <4>2. QED
        BY <1>1, <3>1, <4>1 DEF Nesting
    <3>4. QED
      BY <3>2, <3>3
  <2>4. QED
    BY <2>2, <2>3
<1>14. ASSUME NEW s \in Threads, NEW i \in 1 .. Len(stack'[s])
       PROVE  \/ stack'[s][i] = call
              \/ \E j \in 1 .. Len(stack[s]) : stack'[s][i] = stack[s][j]
  <2>1. CASE s # t
    BY <1>10, <2>1
  <2>2. CASE s = t /\ i = 1
    BY <1>7, <1>10, <2>2
  <2>3. CASE s = t /\ i # 1
    <3>1. i \in 2 .. Len(new)
      BY <1>4, <1>6, <1>10, <2>3
    <3>2. QED
      BY <1>8, <1>10, <2>3, <3>1
  <2>4. QED
    BY <2>1, <2>2, <2>3
<1>15. InPlace(call)
  BY DEF InPlace, call
<1>16. Places'
  BY <1>1, <1>14, <1>15 DEF Places, InPlace
<1>17. ASSUME health' = "well" PROVE OneWriter' /\ Table' /\ Calls'
  <2>1. health = "well" /\ OneWriter /\ Table /\ Calls
    BY <1>11, <1>17 DEF IInv
  <2>2. OneWriter' /\ Table'
    <3>1. Head(stack'[t]) = call /\ stack'[t] # <<>> /\ call.at = "locking"
      BY <1>7, <1>10 DEF call
    <3>2. QED
      BY <1>10, <1>11, <2>1, <3>1, QuietStep
  <2>3. Sees(call)
    BY DEF Sees, call
  <2>4. ASSUME NEW s \in Threads, NEW i \in 1 .. Len(stack'[s]) PROVE Sees(stack'[s][i])
    BY <1>14, <2>1, <2>3 DEF Calls
  <2>5. Calls'
    BY <1>11, <2>4 DEF Calls, Sees
  <2>6. QED
    BY <2>2, <2>5
<1>18. QED
  BY <1>12, <1>13, <1>16, <1>17 DEF IInv

(* The innermost call at a place of its own. *)
LEMMA CallAt ==
  ASSUME IInv, NEW t \in Threads, NEW where, At(t, where)
  PROVE  /\ stack[t] # <<>> /\ Head(stack[t]) \in Call /\ Head(stack[t]).at = where
         /\ InPlace(Head(stack[t]))
         /\ health = "well" => OneWriter /\ Table /\ Calls /\ Sees(Head(stack[t]))
         /\ TypeOK /\ Nesting /\ Places
<1>1. stack[t] # <<>> /\ Head(stack[t]).at = where /\ TypeOK /\ Nesting /\ Places
  BY DEF At, IInv
<1>2. Head(stack[t]) \in Call /\ Head(stack[t]) = stack[t][1] /\ 1 \in 1 .. Len(stack[t])
  BY <1>1, Innermost
<1>3. InPlace(Head(stack[t]))
  BY <1>1, <1>2 DEF Places
<1>4. health = "well" => OneWriter /\ Table /\ Calls /\ Sees(Head(stack[t]))
  BY <1>2 DEF IInv, Calls
<1>5. QED
  BY <1>1, <1>2, <1>3, <1>4

LEMMA LockKeeps == ASSUME IInv, NEW t \in Threads, Lock(t) PROVE IInv'
<1> DEFINE old == Head(stack[t])
           call == [old EXCEPT !.at = "finding", !.lock = "shared"]
<1>1. /\ At(t, "locking") /\ Update(t, call)
      /\ UNCHANGED <<m_callback_funcs_, added, wins, begun, health>>
  BY DEF Lock, LockMode
<1>2. /\ stack[t] # <<>> /\ old \in Call /\ old.at = "locking" /\ InPlace(old)
      /\ health = "well" => OneWriter /\ Table /\ Calls /\ Sees(old)
      /\ TypeOK /\ Nesting /\ Places
  BY <1>1, CallAt
<1>3. call \in Call /\ call.at = "finding"
  BY <1>2 DEF Call
<1>4. InPlace(call) /\ (Sees(old) => Sees(call))
  BY <1>2 DEF InPlace, Sees, Call
<1> HIDE DEF call
<1>5. /\ stack' \in [Threads -> Seq(Call)] /\ stack'[t] # <<>> /\ Head(stack'[t]) = call
      /\ \A s \in Threads \ {t} : stack'[s] = stack[s]
  BY <1>1, <1>2, <1>3, UpdateEffect
<1>6. TypeOK'
  BY <1>1, <1>2, <1>5 DEF TypeOK
<1>7. Nesting' /\ Places'
  BY <1>1, <1>2, <1>3, <1>4, UpdateKeepsShape
<1>8. ASSUME health' = "well" PROVE OneWriter' /\ Table' /\ Calls'
  <2>1. OneWriter' /\ Table'
    BY <1>1, <1>2, <1>3, <1>5, <1>8, QuietStep
  <2>2. Calls'
    BY <1>1, <1>2, <1>3, <1>4, <1>8, UpdateKeepsCalls
  <2>3. QED
    BY <2>1, <2>2
<1>9. QED
  BY <1>6, <1>7, <1>8 DEF IInv

LEMMA CallbackReturnsKeeps == ASSUME IInv, NEW t \in Threads, CallbackReturns(t) PROVE IInv'
<1> DEFINE old == Head(stack[t])
           call == [old EXCEPT !.at = "done", !.answer = TRUE]
<1>1. /\ At(t, "calling") /\ Update(t, call)
      /\ UNCHANGED <<m_callback_funcs_, added, wins, begun, health>>
  BY DEF CallbackReturns
<1>2. /\ stack[t] # <<>> /\ old \in Call /\ old.at = "calling" /\ InPlace(old)
      /\ health = "well" => OneWriter /\ Table /\ Calls /\ Sees(old)
      /\ TypeOK /\ Nesting /\ Places
  BY <1>1, CallAt
<1>3. call \in Call /\ call.at = "done" /\ call.op = "handle_request"
  BY <1>2 DEF Call, InPlace
<1>4. InPlace(call) /\ (Sees(old) => Sees(call))
  BY <1>2, <1>3 DEF InPlace, Sees, Call
<1> HIDE DEF call
<1>5. /\ stack' \in [Threads -> Seq(Call)] /\ stack'[t] # <<>> /\ Head(stack'[t]) = call
      /\ \A s \in Threads \ {t} : stack'[s] = stack[s]
  BY <1>1, <1>2, <1>3, UpdateEffect
<1>6. TypeOK'
  BY <1>1, <1>2, <1>5 DEF TypeOK
<1>7. Nesting' /\ Places'
  BY <1>1, <1>2, <1>3, <1>4, UpdateKeepsShape
<1>8. ASSUME health' = "well" PROVE OneWriter' /\ Table' /\ Calls'
  <2>1. OneWriter' /\ Table'
    BY <1>1, <1>2, <1>3, <1>5, <1>8, QuietStep
  <2>2. Calls'
    BY <1>1, <1>2, <1>3, <1>4, <1>8, UpdateKeepsCalls
  <2>3. QED
    BY <2>1, <2>2
<1>9. QED
  BY <1>6, <1>7, <1>8 DEF IInv

(* An access that leaves the table well had no conflicting one beside it. *)
LEMMA NoConflict ==
  ASSUME TypeOK, NEW t \in Threads, Access(t), health' = "well"
  PROVE  /\ health = "well"
         /\ \A s \in Threads \ {t} : ~Writing(s) /\ (At(s, "finding") => At(t, "finding"))
BY DEF Access, Conflict, Writing

(* What a find leads to. *)
LEMMA AfterFind ==
  ASSUME NEW old \in Call, old.at = "finding", InPlace(old),
         NEW found \in Threads \cup {NotThere, Unset},
         old.op = "handle_request" => found # Unset
  PROVE  LET call == After(old, found) IN
         /\ call \in Call /\ InPlace(call)
         /\ call.op = old.op /\ call.uri = old.uri /\ call.earlier = old.earlier
         /\ ~call.answer /\ call.at \in {"inserting", "calling", "done"}
         /\ call.at = "inserting" => found = NotThere
         /\ call.at = "calling" => call.callback = found
         /\ call.at = "done" => (call.op = "handle_request" <=> found = NotThere)
<1>1. CASE old.op = "add_handle" /\ found = NotThere
  BY <1>1 DEF After, Call, InPlace
<1>2. CASE old.op = "add_handle" /\ found # NotThere
  BY <1>2 DEF After, Call, InPlace
<1>3. CASE old.op = "handle_request" /\ found = NotThere
  BY <1>3 DEF After, Call, InPlace
<1>4. CASE old.op = "handle_request" /\ found # NotThere
  BY <1>4 DEF After, Call, InPlace
<1>5. QED
  BY <1>1, <1>2, <1>3, <1>4 DEF Call

LEMMA FindKeeps == ASSUME IInv, NEW t \in Threads, Find(t) PROVE IInv'
<1> DEFINE old == Head(stack[t])
<1>1. /\ At(t, "finding") /\ Access(t) /\ UNCHANGED <<m_callback_funcs_, added, wins, begun>>
  BY DEF Find
<1>2. /\ stack[t] # <<>> /\ old \in Call /\ old.at = "finding" /\ InPlace(old)
      /\ health = "well" => OneWriter /\ Table /\ Calls /\ Sees(old)
      /\ TypeOK /\ Nesting /\ Places
  BY <1>1, CallAt
<1>3. old.uri \in Uris /\ m_callback_funcs_[old.uri] \in Threads \cup {NotThere, Unset}
  BY <1>2 DEF TypeOK, Call
<1>4. PICK found \in Threads \cup {NotThere, Unset} :
        /\ old.op = "handle_request" => found # Unset
        /\ health' = "well" => found = m_callback_funcs_[old.uri]
        /\ Update(t, After(old, found))
  BY <1>3 DEF Find
<1>5. PICK call : call = After(old, found)
  OBVIOUS
<1>6. /\ call \in Call /\ InPlace(call)
      /\ call.op = old.op /\ call.uri = old.uri /\ call.earlier = old.earlier
      /\ ~call.answer /\ call.at \in {"inserting", "calling", "done"}
      /\ call.at = "inserting" => found = NotThere
      /\ call.at = "calling" => call.callback = found
      /\ call.at = "done" => (call.op = "handle_request" <=> found = NotThere)
  BY <1>2, <1>4, <1>5, AfterFind
<1>7. Update(t, call)
  BY <1>4, <1>5
<1>8. /\ stack' \in [Threads -> Seq(Call)] /\ stack'[t] # <<>> /\ Head(stack'[t]) = call
      /\ \A s \in Threads \ {t} : stack'[s] = stack[s]
  BY <1>2, <1>6, <1>7, UpdateEffect
<1>9. TypeOK'
  BY <1>1, <1>2, <1>8 DEF TypeOK, Access
<1>10. Nesting' /\ Places'
  BY <1>2, <1>6, <1>7, UpdateKeepsShape
<1>11. ASSUME health' = "well" PROVE OneWriter' /\ Table' /\ Calls'
  <2>1. /\ health = "well" /\ OneWriter /\ Table /\ Calls /\ Sees(old)
        /\ \A s \in Threads \ {t} : ~Writing(s)
        /\ found = m_callback_funcs_[old.uri]
    BY <1>1, <1>2, <1>4, <1>11, NoConflict
  <2>2. old.earlier # NotThere => found = old.earlier
    BY <1>3, <2>1 DEF Sees, Table, Histories
  <2>3. Sees(call)
    <3>1. old.earlier # NotThere => added[old.uri] = old.earlier
      BY <2>1 DEF Sees
    <3>2. call.answer = FALSE
      BY <1>6 DEF Call
    <3>3. call.op \in {"handle_request", "add_handle"}
      BY <1>6 DEF Call
    <3>4. QED
      BY <1>6, <2>2, <3>1, <3>2, <3>3 DEF Sees
  <2>4. Calls'
    BY <1>1, <1>2, <1>6, <1>7, <2>1, <2>3, UpdateKeepsCalls
  <2>5. OneWriter'
    BY <1>8, <2>1 DEF OneWriter, Writing, At
  <2>6. Histories'
    BY <1>1, <2>1 DEF Table, Histories
  <2>7. ASSUME NEW s \in Threads PROVE Entry(s)'
    <3>1. CASE s = t
      BY <1>1, <1>6, <1>8, <2>1, <3>1 DEF Entry
    <3>2. CASE s # t
      BY <1>1, <1>8, <2>1, <3>2 DEF Table, Entry
    <3>3. QED
      BY <3>1, <3>2
  <2>8. QED
    BY <2>4, <2>5, <2>6, <2>7 DEF Table
<1>12. QED
  BY <1>9, <1>10, <1>11 DEF IInv

LEMMA InsertKeeps == ASSUME IInv, NEW t \in Threads, Insert(t) PROVE IInv'
<1> DEFINE old == Head(stack[t])
           u == old.uri
           call == [old EXCEPT !.at = "assigning"]
<1>1. /\ At(t, "inserting") /\ Access(t) /\ Write(t, u, Unset) /\ Update(t, call)
      /\ UNCHANGED <<added, wins, begun>>
  BY DEF Insert
<1>2. /\ stack[t] # <<>> /\ old \in Call /\ old.at = "inserting" /\ InPlace(old)
      /\ health = "well" => OneWriter /\ Table /\ Calls /\ Sees(old)
      /\ TypeOK /\ Nesting /\ Places
  BY <1>1, CallAt
<1>3. call \in Call /\ call.at = "assigning" /\ call.uri = u /\ u \in Uris
  BY <1>2 DEF Call
<1>4. InPlace(call) /\ (Sees(old) => Sees(call))
  BY <1>2 DEF InPlace, Sees, Call
<1> HIDE DEF call
<1>5. /\ stack' \in [Threads -> Seq(Call)] /\ stack'[t] # <<>> /\ Head(stack'[t]) = call
      /\ \A s \in Threads \ {t} : stack'[s] = stack[s]
  BY <1>1, <1>2, <1>3, UpdateEffect
<1>6. TypeOK'
  BY <1>1, <1>2, <1>5 DEF TypeOK, Access, Write
<1>7. Nesting' /\ Places'
  BY <1>1, <1>2, <1>3, <1>4, UpdateKeepsShape
<1>8. ASSUME health' = "well" PROVE OneWriter' /\ Table' /\ Calls'
  <2>1. /\ health = "well" /\ OneWriter /\ Table /\ Calls /\ Sees(old)
        /\ \A s \in Threads \ {t} : ~Writing(s)
    BY <1>1, <1>2, <1>8, NoConflict
  <2>2. Calls'
    BY <1>1, <1>2, <1>3, <1>4, <2>1, UpdateKeepsCalls
  <2>3. OneWriter'
    BY <1>5, <2>1 DEF OneWriter, Writing, At
  <2>4. m_callback_funcs_[u] = NotThere /\ added[u] = NotThere
    <3>1. m_callback_funcs_[u] = NotThere
      BY <1>2, <2>1 DEF Table, Entry
    <3>2. QED
      BY <1>3, <2>1, <3>1 DEF Table, Histories
  <2>5. /\ m_callback_funcs_'[u] = Unset
        /\ \A v \in Uris \ {u} : m_callback_funcs_'[v] = m_callback_funcs_[v]
    BY <1>1, <1>2, <1>3, <1>8 DEF Write, TypeOK
  <2>6. Histories'
    BY <1>1, <2>1, <2>4, <2>5 DEF Table, Histories
  <2>7. ASSUME NEW s \in Threads PROVE Entry(s)'
    <3>1. CASE s = t
      BY <1>3, <1>5, <2>5, <3>1 DEF Entry
    <3>2. CASE s # t
      <4>1. SUFFICES ASSUME stack[s] # <<>>, Head(stack[s]).at = "done",
                            Head(stack[s]).op = "add_handle", Head(stack[s]).answer
                     PROVE  /\ m_callback_funcs_'[Head(stack[s]).uri] = s
                            /\ added[Head(stack[s]).uri] = NotThere
        BY <1>1, <1>5, <2>1, <3>2 DEF Entry, Writing, At
      <4>2. Head(stack[s]).uri \in Uris
        BY <1>2, <4>1, Innermost DEF Call
      <4>3. m_callback_funcs_[Head(stack[s]).uri] = s /\ added[Head(stack[s]).uri] = NotThere
        BY <2>1, <4>1 DEF Table, Entry
      <4>4. QED
        BY <2>4, <2>5, <4>2, <4>3, CallbacksAssumption
    <3>3. QED
      BY <3>1, <3>2
  <2>8. QED
    BY <2>2, <2>3, <2>6, <2>7 DEF Table
<1>9. QED
  BY <1>6, <1>7, <1>8 DEF IInv

LEMMA AssignKeeps == ASSUME IInv, NEW t \in Threads, Assign(t) PROVE IInv'
<1> DEFINE old == Head(stack[t])
           u == old.uri
           call == [old EXCEPT !.at = "done", !.answer = TRUE]
<1>1. /\ At(t, "assigning") /\ Access(t) /\ Write(t, u, t) /\ Update(t, call)
      /\ UNCHANGED <<added, wins, begun>>
  BY DEF Assign
<1>2. /\ stack[t] # <<>> /\ old \in Call /\ old.at = "assigning" /\ InPlace(old)
      /\ health = "well" => OneWriter /\ Table /\ Calls /\ Sees(old)
      /\ TypeOK /\ Nesting /\ Places
  BY <1>1, CallAt
<1>3. call \in Call /\ call.at = "done" /\ call.uri = u /\ u \in Uris
  BY <1>2 DEF Call
<1>4. InPlace(call) /\ (Sees(old) => Sees(call))
  BY <1>2 DEF InPlace, Sees, Call
<1> HIDE DEF call
<1>5. /\ stack' \in [Threads -> Seq(Call)] /\ stack'[t] # <<>> /\ Head(stack'[t]) = call
      /\ \A s \in Threads \ {t} : stack'[s] = stack[s]
  BY <1>1, <1>2, <1>3, UpdateEffect
<1>6. TypeOK'
  BY <1>1, <1>2, <1>5 DEF TypeOK, Access, Write
<1>7. Nesting' /\ Places'
  BY <1>1, <1>2, <1>3, <1>4, UpdateKeepsShape
<1>8. ASSUME health' = "well" PROVE OneWriter' /\ Table' /\ Calls'
  <2>1. /\ health = "well" /\ OneWriter /\ Table /\ Calls /\ Sees(old)
        /\ \A s \in Threads \ {t} : ~Writing(s)
    BY <1>1, <1>2, <1>8, NoConflict
  <2>2. Calls'
    BY <1>1, <1>2, <1>3, <1>4, <2>1, UpdateKeepsCalls
  <2>3. OneWriter'
    BY <1>5, <2>1 DEF OneWriter, Writing, At
  <2>4. m_callback_funcs_[u] = Unset /\ added[u] = NotThere
    <3>1. m_callback_funcs_[u] = Unset
      BY <1>2, <2>1 DEF Table, Entry
    <3>2. added[u] \in Threads \cup {NotThere} /\ Unset # NotThere
      BY <1>2, <1>3 DEF TypeOK, Unset, NotThere
    <3>3. QED
      BY <1>3, <2>1, <3>1, <3>2, CallbacksAssumption DEF Table, Histories
  <2>5. /\ m_callback_funcs_'[u] = t
        /\ \A v \in Uris \ {u} : m_callback_funcs_'[v] = m_callback_funcs_[v]
    BY <1>1, <1>2, <1>3, <1>8 DEF Write, TypeOK
  <2>6. Histories'
    BY <1>1, <2>1, <2>4, <2>5 DEF Table, Histories
  <2>7. ASSUME NEW s \in Threads PROVE Entry(s)'
    <3>1. CASE s = t
      BY <1>1, <1>3, <1>5, <2>4, <2>5, <3>1 DEF Entry
    <3>2. CASE s # t
      <4>1. SUFFICES ASSUME stack[s] # <<>>, Head(stack[s]).at = "done",
                            Head(stack[s]).op = "add_handle", Head(stack[s]).answer
                     PROVE  /\ m_callback_funcs_'[Head(stack[s]).uri] = s
                            /\ added[Head(stack[s]).uri] = NotThere
        BY <1>1, <1>5, <2>1, <3>2 DEF Entry, Writing, At
      <4>2. Head(stack[s]).uri \in Uris
        BY <1>2, <4>1, Innermost DEF Call
      <4>3. m_callback_funcs_[Head(stack[s]).uri] = s /\ added[Head(stack[s]).uri] = NotThere
        BY <2>1, <4>1 DEF Table, Entry
      <4>4. QED
        BY <2>4, <2>5, <4>2, <4>3, CallbacksAssumption
    <3>3. QED
      BY <3>1, <3>2
  <2>8. QED
    BY <2>2, <2>3, <2>6, <2>7 DEF Table
<1>9. QED
  BY <1>6, <1>7, <1>8 DEF IInv

(* A return uncovers a call that is in a callback, if there is one. *)
LEMMA ReturnEffect ==
  ASSUME IInv, NEW t \in Threads, Return(t)
  PROVE  /\ stack' \in [Threads -> Seq(Call)]
         /\ \A s \in Threads \ {t} : stack'[s] = stack[s]
         /\ Len(stack'[t]) = Len(stack[t]) - 1 /\ Len(stack[t]) \in Nat \ {0}
         /\ \A i \in 1 .. Len(stack'[t]) :
              /\ stack'[t][i] = stack[t][i + 1] /\ i + 1 \in 2 .. Len(stack[t])
              /\ stack'[t][i].at = "calling"
         /\ stack'[t] # <<>> => Head(stack'[t]).at = "calling"
<1>1. TypeOK /\ Nesting /\ stack[t] # <<>> /\ stack' = [stack EXCEPT ![t] = Tail(@)]
  BY DEF IInv, Return, At
<1>2. stack[t] \in Seq(Call) /\ Len(stack[t]) \in Nat \ {0} /\ stack \in [Threads -> Seq(Call)]
  BY <1>1, Innermost DEF TypeOK
<1>3. /\ Tail(stack[t]) \in Seq(Call) /\ Len(Tail(stack[t])) = Len(stack[t]) - 1
      /\ \A i \in 1 .. Len(Tail(stack[t])) : Tail(stack[t])[i] = stack[t][i + 1]
  BY <1>1, <1>2, HeadTailProperties
<1>4. /\ stack' \in [Threads -> Seq(Call)] /\ stack'[t] = Tail(stack[t])
      /\ \A s \in Threads \ {t} : stack'[s] = stack[s]
  BY <1>1, <1>2, <1>3
<1>5. ASSUME NEW i \in 1 .. Len(stack'[t])
      PROVE  /\ stack'[t][i] = stack[t][i + 1] /\ i + 1 \in 2 .. Len(stack[t])
             /\ stack'[t][i].at = "calling"
  <2>1. stack'[t][i] = stack[t][i + 1] /\ i + 1 \in 2 .. Len(stack[t])
    BY <1>2, <1>3, <1>4
  <2>2. QED
    BY <1>1, <2>1 DEF Nesting
<1>6. ASSUME stack'[t] # <<>> PROVE Head(stack'[t]).at = "calling"
  <2>1. 1 \in 1 .. Len(stack'[t]) /\ Head(stack'[t]) = stack'[t][1]
    BY <1>3, <1>4, <1>6, EmptySeq, HeadTailProperties
  <2>2. QED
    BY <1>5, <2>1
<1>7. QED
  BY <1>2, <1>3, <1>4, <1>5, <1>6

LEMMA ReturnKeeps == ASSUME IInv, NEW t \in Threads, Return(t) PROVE IInv'
<1> DEFINE old == Head(stack[t])
           u == old.uri
           won == old.op = "add_handle" /\ old.answer
<1>1. /\ At(t, "done") /\ UNCHANGED <<m_callback_funcs_, begun, health>>
      /\ added' = IF won THEN [added EXCEPT ![u] = t] ELSE added
      /\ wins' = IF won THEN [wins EXCEPT ![u] = @ + 1] ELSE wins
  BY DEF Return
<1>2. /\ stack[t] # <<>> /\ old \in Call /\ old.at = "done"
      /\ health = "well" => OneWriter /\ Table /\ Calls /\ Sees(old)
      /\ TypeOK /\ Nesting /\ Places
  BY <1>1, CallAt
<1>3. u \in Uris /\ old.answer \in BOOLEAN
  BY <1>2 DEF Call
<1>4. /\ stack' \in [Threads -> Seq(Call)]
      /\ \A s \in Threads \ {t} : stack'[s] = stack[s]
      /\ Len(stack'[t]) = Len(stack[t]) - 1 /\ Len(stack[t]) \in Nat \ {0}
      /\ \A i \in 1 .. Len(stack'[t]) :
           /\ stack'[t][i] = stack[t][i + 1] /\ i + 1 \in 2 .. Len(stack[t])
           /\ stack'[t][i].at = "calling"
      /\ stack'[t] # <<>> => Head(stack'[t]).at = "calling"
  BY ReturnEffect
<1>5. TypeOK'
  BY <1>1, <1>2, <1>3, <1>4 DEF TypeOK
<1>6. ASSUME NEW s \in Threads, NEW i \in 1 .. Len(stack'[s])
      PROVE  \E j \in 1 .. Len(stack[s]) : stack'[s][i] = stack[s][j]
  <2>1. CASE s # t
    BY <1>4, <2>1
  <2>2. CASE s = t
    <3>1. i + 1 \in 1 .. Len(stack[t]) /\ stack'[t][i] = stack[t][i + 1]
      BY <1>4, <2>2
    <3>2. QED
      BY <2>2, <3>1
  <2>3. QED
    BY <2>1, <2>2
<1>7. Nesting'
  <2>1. SUFFICES ASSUME NEW s \in Threads, NEW i \in 2 .. Len(stack'[s])
                 PROVE  stack'[s][i].at = "calling"
    BY DEF Nesting
  <2>2. i \in 1 .. Len(stack'[s])
    OBVIOUS
  <2>3. QED
    BY <1>2, <1>4, <2>2 DEF Nesting
<1>8. Places'
  <2>1. \A s \in Threads : \A i \in 1 .. Len(stack'[s]) : InPlace(stack'[s][i])
    BY <1>2, <1>6 DEF Places
  <2>2. QED
    BY <2>1 DEF Places, InPlace
<1>9. ASSUME health' = "well" PROVE OneWriter' /\ Table' /\ Calls'
  <2>1. health = "well" /\ OneWriter /\ Table /\ Calls
    BY <1>1, <1>2, <1>9
  <2>2. OneWriter'
    BY <1>4, <2>1 DEF OneWriter, Writing, At
  <2>3. won => m_callback_funcs_[u] = t /\ added[u] = NotThere /\ wins[u] = 0
    <3>1. Entry(t) /\ Histories
      BY <2>1 DEF Table
    <3>2. won => m_callback_funcs_[u] = t /\ added[u] = NotThere
      BY <1>2, <3>1 DEF Entry
    <3>3. QED
      BY <1>3, <3>1, <3>2 DEF Histories
  <2>4. /\ \A v \in Uris : ~(won /\ v = u) => added'[v] = added[v] /\ wins'[v] = wins[v]
        /\ won => added'[u] = t /\ wins'[u] = wins[u] + 1
    BY <1>1, <1>2, <1>3 DEF TypeOK
  <2>5. Histories'
    <3>1. SUFFICES ASSUME NEW v \in Uris
                   PROVE  /\ wins'[v] = IF added'[v] = NotThere THEN 0 ELSE 1
                          /\ added'[v] # NotThere => m_callback_funcs_[v] = added'[v]
      BY <1>1 DEF Histories
    <3>2. CASE won /\ v = u
      BY <2>3, <2>4, <3>2, CallbacksAssumption
    <3>3. CASE ~(won /\ v = u)
      BY <2>1, <2>4, <3>3 DEF Table, Histories
    <3>4. QED
      BY <3>2, <3>3
  <2>6. ASSUME NEW s \in Threads PROVE Entry(s)'
    <3>1. CASE s = t
      BY <1>4, <3>1 DEF Entry
    <3>2. CASE s # t /\ stack[s] # <<>>
      <4>1. /\ Entry(s) /\ stack'[s] = stack[s] /\ Head(stack[s]).uri \in Uris
            /\ UNCHANGED m_callback_funcs_
        BY <1>1, <1>2, <1>4, <2>1, <3>2, Innermost DEF Table, Call
      <4>2. Head(stack[s]).at = "done" /\ Head(stack[s]).op = "add_handle" /\ Head(stack[s]).answer
              => m_callback_funcs_[Head(stack[s]).uri] = s /\ added[Head(stack[s]).uri] = NotThere
        BY <3>2, <4>1 DEF Entry
      <4>3. Head(stack[s]).at = "done" /\ Head(stack[s]).op = "add_handle" /\ Head(stack[s]).answer
              => added'[Head(stack[s]).uri] = NotThere
        BY <2>3, <2>4, <3>2, <4>1, <4>2
      <4>4. QED
        BY <4>1, <4>2, <4>3 DEF Entry
    <3>3. CASE s # t /\ stack[s] = <<>>
      BY <1>4, <3>3 DEF Entry
    <3>4. QED
      BY <3>1, <3>2, <3>3
  <2>7. ASSUME NEW s \in Threads, NEW i \in 1 .. Len(stack'[s])
        PROVE  LET call == stack'[s][i] IN
               Sees(call) /\ call.uri \in Uris
    <3>1. PICK j \in 1 .. Len(stack[s]) : stack'[s][i] = stack[s][j]
      BY <1>6
    <3>2. stack[s] \in Seq(Call)
      BY <1>2 DEF TypeOK
    <3>3. stack[s][j] \in Call
      BY <3>2, ElementOfSeq
    <3>4. QED
      BY <2>1, <3>1, <3>3 DEF Calls, Call
  <2>8. ASSUME NEW call, Sees(call), call.uri \in Uris PROVE Sees(call)'
    BY <2>3, <2>4, <2>8 DEF Sees
  <2>9. Calls'
    BY <2>7, <2>8 DEF Calls, Sees
  <2>10. QED
    BY <2>2, <2>5, <2>6, <2>9 DEF Table
<1>10. QED
  BY <1>5, <1>7, <1>8, <1>9 DEF IInv

-----------------------------------------------------------------------------
LEMMA Initially == Init => IInv
<1> SUFFICES ASSUME Init PROVE IInv
  OBVIOUS
<1>1. stack = [t \in Threads |-> <<>>] /\ \A t \in Threads : stack[t] = <<>>
  BY DEF Init
<1>2. TypeOK
  <2>1. <<>> \in Seq(Call)
    BY EmptySeq
  <2>2. QED
    BY <1>1, <2>1 DEF Init, TypeOK
<1>3. \A t \in Threads : Len(stack[t]) = 0
  BY <1>1
<1>4. Nesting /\ Places /\ Calls
  BY <1>3 DEF Nesting, Places, Calls
<1>5. OneWriter /\ Table
  BY <1>1 DEF OneWriter, Writing, At, Table, Histories, Entry, Init
<1>6. QED
  BY <1>2, <1>4, <1>5 DEF IInv

LEMMA CrashKeeps == ASSUME IInv, Crash PROVE IInv'
BY DEF Crash, IInv, TypeOK, Nesting, Places, InPlace

LEMMA StutterKeeps == ASSUME IInv, UNCHANGED vars PROVE IInv'
<1>1. UNCHANGED <<m_callback_funcs_, stack, added, wins, begun, health>>
  BY DEF vars
<1>2. TypeOK' /\ Nesting' /\ Places'
  BY <1>1 DEF IInv, TypeOK, Nesting, Places, InPlace
<1>3. ASSUME health' = "well" PROVE OneWriter' /\ Table' /\ Calls'
  <2>1. OneWriter /\ Table /\ Calls
    BY <1>1, <1>3 DEF IInv
  <2>2. OneWriter' /\ Calls'
    BY <1>1, <2>1 DEF OneWriter, Writing, At, Calls, Sees
  <2>3. Table'
    BY <1>1, <2>1 DEF Table, Histories, Entry
  <2>4. QED
    BY <2>2, <2>3
<1>4. QED
  BY <1>2, <1>3 DEF IInv

(* Every step keeps the inductive invariant. *)
THEOREM Invariance == Spec => []IInv
<1>1. Init => IInv
  BY Initially
<1>2. IInv /\ [Next]_vars => IInv'
  <2> SUFFICES ASSUME IInv, [Next]_vars PROVE IInv'
    OBVIOUS
  <2>1. CASE Crash
    BY <2>1, CrashKeeps
  <2>2. ASSUME NEW t \in Threads, NEW op \in {"handle_request", "add_handle"},
               NEW u \in Uris, Begin(t, op, u)
        PROVE  IInv'
    BY <2>2, BeginKeeps
  <2>3. ASSUME NEW t \in Threads, Step(t) PROVE IInv'
    BY <2>3, LockKeeps, FindKeeps, InsertKeeps, AssignKeeps, CallbackReturnsKeeps, ReturnKeeps
      DEF Step
  <2>4. CASE UNCHANGED vars
    BY <2>4, StutterKeeps
  <2>5. QED
    BY <2>1, <2>2, <2>3, <2>4 DEF Next
<1>3. QED
  BY <1>1, <1>2, PTL DEF Spec

(* The table, the calls and the histories keep their types, with any number *)
(* of threads calling add_handle and handle_request at once, raced or not.  *)
THEOREM TypeCorrect == Spec => []TypeOK
<1>1. IInv => TypeOK
  BY DEF IInv
<1>2. QED
  BY <1>1, Invariance, PTL

(* Until two threads access the map of callbacks at once, no target gets    *)
(* two callbacks, and what add_handle returned true for is what later calls *)
(* find, from other threads and from within callbacks.                      *)
THEOREM LateCallsAreRight == Spec => []LateCallsSeeTheTable
<1>1. ASSUME IInv, health = "well" PROVE LateCallsSeeTheTable
  <2>1. Table /\ Calls
    BY <1>1 DEF IInv
  <2>2. \A u \in Uris :
          wins[u] <= 1 /\ (added[u] # NotThere => m_callback_funcs_[u] = added[u])
    BY <2>1 DEF Table, Histories
  <2>3. QED
    BY <2>1, <2>2 DEF LateCallsSeeTheTable, Calls, Sees
<1>2. IInv => LateCallsSeeTheTable
  BY <1>1 DEF LateCallsSeeTheTable
<1>3. QED
  BY <1>2, Invariance, PTL

(* The table used from one thread, as main and the io_service use it, is    *)
(* never in a race, though callbacks call add_handle: HttpServer may take   *)
(* its accesses as one step.                                                *)
THEOREM OneThreadIsExclusive ==
  ASSUME NEW t, Threads = {t}
  PROVE  Spec => []TableIsExclusive
<1>1. Init => TableIsExclusive
  BY DEF Init, TableIsExclusive
<1>2. TableIsExclusive /\ [Next]_vars => TableIsExclusive'
  <2> SUFFICES ASSUME health = "well", [Next]_vars PROVE health' = "well"
    BY DEF TableIsExclusive
  <2>1. \A s \in Threads : ~Conflict(s)
    BY DEF Conflict
  <2>2. ~Crash
    BY DEF Crash
  <2>3. ASSUME NEW s \in Threads, Step(s) PROVE health' = "well"
    BY <2>1, <2>3 DEF Step, Lock, Find, Insert, Assign, CallbackReturns, Return, Access
  <2>4. ASSUME NEW s \in Threads, NEW op, NEW u, Begin(s, op, u) PROVE health' = "well"
    BY <2>4 DEF Begin
  <2>5. QED
    BY <2>2, <2>3, <2>4 DEF Next, vars
<1>3. QED
  BY <1>1, <1>2, PTL DEF Spec
=============================================================================
