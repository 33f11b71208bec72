---------------------------- MODULE HandlerTable ----------------------------
(***************************************************************************)
(* m_callback_funcs_ and its lock (httpmessage_server.cpp), used from      *)
(* several threads: add_handle and handle_request, each access to the map  *)
(* a step between two others.  A callback runs while handle_request holds  *)
(* the lock and may itself call both.  An access beside a conflicting one  *)
(* of another thread is undefined behaviour: from then on a lookup may     *)
(* find anything, an insertion may be lost, the process may crash.         *)
(***************************************************************************)
EXTENDS Integers, Sequences

CONSTANTS
  Threads,     \* the threads; also the callbacks, each adds its own
  Uris,        \* targets
  MaxCalls,    \* bound: calls ever begun
  MaxDepth     \* bound: calls within callbacks

NotThere == "end()"
Unset    == "empty function"    \* a new map node, before the assignment

ASSUME BoundsAssumption == MaxCalls \in Nat /\ MaxDepth \in Nat \ {0}
ASSUME CallbacksAssumption == NotThere \notin Threads /\ Unset \notin Threads

VARIABLES
  m_callback_funcs_,   \* of each target: end() or the callback found there
  stack,               \* of each thread: its calls, the innermost first
  added,               \* history: the add_handle of the target that returned true
  wins,                \* history: how many add_handle of the target returned true
  begun,               \* calls begun so far
  health               \* well, racy (undefined behaviour has happened), crashed

vars == <<m_callback_funcs_, stack, added, wins, begun, health>>

Call == [op : {"handle_request", "add_handle"}, uri : Uris,
         at : {"locking", "finding", "calling", "inserting", "assigning", "done"},
         lock : {"none", "shared", "exclusive"},
         callback : Threads \cup {NotThere},
         answer : BOOLEAN,
         earlier : Threads \cup {NotThere}]   \* what added held when it began

At(t, where) == stack[t] # <<>> /\ Head(stack[t]).at = where

(* The innermost call of t goes on with the given fields changed. *)
Update(t, call) == stack' = [stack EXCEPT ![t] = <<call>> \o Tail(@)]

-----------------------------------------------------------------------------
LockMode_AddIsExclusive(op) == IF op = "add_handle" THEN "exclusive" ELSE "shared"

(* How a call takes m_callback_funcs_mutex_: both as readers. *)
LockMode(op) == "shared"

Holds(mode) == \E t \in Threads : \E i \in 1 .. Len(stack[t]) : stack[t][i].lock = mode

(* boost::shared_mutex. *)
CanLock(mode) == ~Holds("exclusive") /\ (mode = "exclusive" => ~Holds("shared"))

(* Another thread is about to write the map, or to read what t writes. *)
Conflict(t) ==
  \E s \in Threads \ {t} :
    \/ At(s, "inserting") \/ At(s, "assigning")
    \/ At(s, "finding") /\ ~At(t, "finding")

Access(t) == health' = IF Conflict(t) THEN "racy" ELSE health

-----------------------------------------------------------------------------
Init ==
  /\ m_callback_funcs_ = [u \in Uris |-> NotThere]
  /\ stack = [t \in Threads |-> <<>>]
  /\ added = [u \in Uris |-> NotThere]
  /\ wins = [u \in Uris |-> 0]
  /\ begun = 0
  /\ health = "well"

(* A thread calls, or the callback it is in does. *)
Begin(t, op, u) ==
  /\ begun < MaxCalls /\ Len(stack[t]) < MaxDepth
  /\ stack[t] = <<>> \/ At(t, "calling")
  /\ begun' = begun + 1
  /\ stack' = [stack EXCEPT ![t] =
       <<[op |-> op, uri |-> u, at |-> "locking", lock |-> "none", callback |-> NotThere,
          answer |-> FALSE, earlier |-> added[u]]>> \o @]
  /\ UNCHANGED <<m_callback_funcs_, added, wins, health>>

Lock(t) ==
  LET call == Head(stack[t]) IN
  /\ At(t, "locking") /\ CanLock(LockMode(call.op))
  /\ Update(t, [call EXCEPT !.at = "finding", !.lock = LockMode(call.op)])
  /\ UNCHANGED <<m_callback_funcs_, added, wins, begun, health>>

After_AddOverwrites(call, found) ==
  IF call.op = "add_handle" THEN [call EXCEPT !.at = "inserting"]
  ELSE IF found = NotThere THEN [call EXCEPT !.at = "done"]
  ELSE [call EXCEPT !.at = "calling", !.callback = found]

After_SkipsTheTest(call, found) ==
  IF call.op = "add_handle"
  THEN IF found = NotThere THEN [call EXCEPT !.at = "inserting"] ELSE [call EXCEPT !.at = "done"]
  ELSE [call EXCEPT !.at = "calling", !.callback = IF found = NotThere THEN Unset ELSE found]

(* What a call does after find: handle_request calls what is there,         *)
(* add_handle goes on if there is nothing.                                  *)
After(call, found) ==
  IF call.op = "add_handle"
  THEN IF found = NotThere THEN [call EXCEPT !.at = "inserting"] ELSE [call EXCEPT !.at = "done"]
  ELSE IF found = NotThere THEN [call EXCEPT !.at = "done"]
  ELSE [call EXCEPT !.at = "calling", !.callback = found]

Find(t) ==
  LET call == Head(stack[t]) IN
  /\ At(t, "finding")
  /\ Access(t)
  /\ \E found \in IF health' = "well" THEN {m_callback_funcs_[call.uri]}
                   ELSE Threads \cup {NotThere, Unset} :
       /\ call.op = "handle_request" => found # Unset     \* that one throws: Crash
       /\ Update(t, After(call, found))
  /\ UNCHANGED <<m_callback_funcs_, added, wins, begun>>

Write(t, u, value) ==
  \/ m_callback_funcs_' = [m_callback_funcs_ EXCEPT ![u] = value]
  \/ health' # "well" /\ UNCHANGED m_callback_funcs_

(* m_callback_funcs_[uri] makes a node with an empty function in it ... *)
Insert(t) ==
  LET call == Head(stack[t]) IN
  /\ At(t, "inserting")
  /\ Access(t)
  /\ Write(t, call.uri, Unset)
  /\ Update(t, [call EXCEPT !.at = "assigning"])
  /\ UNCHANGED <<added, wins, begun>>

(* ... and = cb assigns to it. *)
Assign(t) ==
  LET call == Head(stack[t]) IN
  /\ At(t, "assigning")
  /\ Access(t)
  /\ Write(t, call.uri, t)
  /\ Update(t, [call EXCEPT !.at = "done", !.answer = TRUE])
  /\ UNCHANGED <<added, wins, begun>>

CallbackReturns(t) ==
  /\ At(t, "calling")
  /\ Update(t, [Head(stack[t]) EXCEPT !.at = "done", !.answer = TRUE])
  /\ UNCHANGED <<m_callback_funcs_, added, wins, begun, health>>

(* The call returns and with it the lock is released. *)
Return(t) ==
  LET call == Head(stack[t])
      won == call.op = "add_handle" /\ call.answer IN
  /\ At(t, "done")
  /\ stack' = [stack EXCEPT ![t] = Tail(@)]
  /\ added' = IF won THEN [added EXCEPT ![call.uri] = t] ELSE added
  /\ wins' = IF won THEN [wins EXCEPT ![call.uri] = @ + 1] ELSE wins
  /\ UNCHANGED <<m_callback_funcs_, begun, health>>

(* A damaged map, or the call of an empty function, which throws. *)
Crash == health = "racy" /\ health' = "crashed"
         /\ UNCHANGED <<m_callback_funcs_, stack, added, wins, begun>>

Step(t) ==
  /\ health # "crashed"
  /\ Lock(t) \/ Find(t) \/ Insert(t) \/ Assign(t) \/ CallbackReturns(t) \/ Return(t)

Next ==
  \/ Crash
  \/ \E t \in Threads :
       \/ health # "crashed"
          /\ \E op \in {"handle_request", "add_handle"}, u \in Uris : Begin(t, op, u)
       \/ Step(t)

(* Threads are scheduled, and callbacks return. *)
Spec == Init /\ [][Next]_vars
FairSpec == Spec /\ \A t \in Threads : WF_vars(Step(t))

-----------------------------------------------------------------------------
(* Types of the table, the calls and the histories. *)
TypeOK ==
  /\ m_callback_funcs_ \in [Uris -> Threads \cup {NotThere, Unset}]
  /\ stack \in [Threads -> Seq(Call)]
  /\ added \in [Uris -> Threads \cup {NotThere}]
  /\ wins \in [Uris -> Nat]
  /\ begun \in Nat
  /\ health \in {"well", "racy", "crashed"}

(* Without a race the table is atomic: at most one add_handle of a target    *)
(* returns true; a request that began after that gets its callback, and an   *)
(* add_handle that began after it is refused.                                *)
LateCallsSeeTheTable ==
  health = "well" =>
    /\ \A u \in Uris :
         wins[u] <= 1 /\ (added[u] # NotThere => m_callback_funcs_[u] = added[u])
    /\ \A t \in Threads : \A i \in 1 .. Len(stack[t]) :
         LET call == stack[t][i] IN
         call.earlier # NotThere =>
           /\ call.at = "calling" => call.callback = call.earlier
           /\ call.at \notin {"inserting", "assigning"}
           /\ call.at = "done" => call.answer = (call.op = "handle_request")

(* No call waits for ever, though a callback may add handlers while its     *)
(* handle_request holds the lock.                                           *)
EveryCallReturns ==
  \A t \in Threads : stack[t] # <<>> ~> stack[t] = <<>> \/ health = "crashed"

(* The callback table and its lock (httpmessage_server.h:36): no thread     *)
(* touches the map while another writes it.                                 *)
TableIsExclusive == health = "well"
=============================================================================
