----------------------------- MODULE SessionLog -----------------------------
(***************************************************************************)
(* What the session store promises, without files, threads or crashes      *)
(* (search-server/src/session_state.rs and snapshot.rs): the action log of *)
(* a session only grows, and a snapshot holds the whole log of its session *)
(* at the moment it appears, until it is withdrawn for a newer one of the  *)
(* same name.  A withdrawal may lose the log of a snapshot before it loses *)
(* the snapshot, and may end there.                                        *)
(***************************************************************************)
EXTENDS Sequences

CONSTANTS
  Sessions,   \* session ids
  Entries,    \* action log entries
  Ids,        \* snapshot ids
  Of,         \* the session a snapshot id is made of
  None        \* a snapshot that does not exist

VARIABLES
  log,        \* per session: the entries recorded, in order
  snaps,      \* per id: the copy of the log it holds
  seen        \* history: every copy that was ever published

vars == <<log, snaps, seen>>

Init ==
  /\ log = [s \in Sessions |-> <<>>]
  /\ snaps = [id \in Ids |-> None]
  /\ seen = {}

Record(s, e) ==
  /\ log' = [log EXCEPT ![s] = Append(@, e)]
  /\ UNCHANGED <<snaps, seen>>

Publish(id) ==
  /\ snaps[id] = None
  /\ snaps' = [snaps EXCEPT ![id] = log[Of[id]]]
  /\ seen' = seen \cup {log[Of[id]]}
  /\ UNCHANGED log

(* A pack brings back a copy under a free name. *)
Import(id) ==
  /\ snaps[id] = None
  /\ \E copy \in seen : snaps' = [snaps EXCEPT ![id] = copy]
  /\ UNCHANGED <<log, seen>>

Withdraw(id) ==
  /\ snaps[id] # None
  /\ snaps' = [snaps EXCEPT ![id] = None]
  /\ UNCHANGED <<log, seen>>

(* What is withdrawn reads as a snapshot of an empty log for a while. *)
Hollow(id) ==
  /\ snaps[id] # None
  /\ snaps' = [snaps EXCEPT ![id] = <<>>]
  /\ UNCHANGED <<log, seen>>

Next ==
  \/ \E s \in Sessions, e \in Entries : Record(s, e)
  \/ \E id \in Ids : Publish(id) \/ Import(id) \/ Withdraw(id) \/ Hollow(id)

Spec == Init /\ [][Next]_vars
=============================================================================
