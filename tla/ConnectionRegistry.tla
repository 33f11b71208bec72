------------------------ MODULE ConnectionRegistry ------------------------
(***************************************************************************)
(* What the servers of this repository promise of a connection, whatever   *)
(* their protocol: it enters the registry once, it is served only while it *)
(* is in the registry, and once it has left it never comes back.           *)
(* httpmessage_server keeps this promise with http_connection_manager.     *)
(***************************************************************************)
EXTENDS Naturals

CONSTANT Conns

VARIABLES
  live,      \* connections in the registry
  dead,      \* connections that have been in it and have left
  served     \* number of times each connection's data was handed over

vars == <<live, dead, served>>

Init == live = {} /\ dead = {} /\ served = [c \in Conns |-> 0]

Open(c) ==
  /\ c \notin live \cup dead
  /\ live' = live \cup {c}
  /\ UNCHANGED <<dead, served>>

(* One connection ends, or all of them do. *)
Close(S) ==
  /\ S \subseteq live
  /\ live' = live \ S
  /\ dead' = dead \cup S
  /\ UNCHANGED served

Serve(c) ==
  /\ c \in live
  /\ served' = [served EXCEPT ![c] = @ + 1]
  /\ UNCHANGED <<live, dead>>

Next ==
  \/ \E c \in Conns : Open(c) \/ Serve(c)
  \/ \E S \in SUBSET live : Close(S)

Spec == Init /\ [][Next]_vars
=============================================================================
