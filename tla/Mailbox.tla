------------------------------- MODULE Mailbox --------------------------------
(***************************************************************************)
(* What the server promises of private messages that it takes.  A message  *)
(* goes one way and goes it once: to the receiver's address, or into the   *)
(* table, where it waits, is marked delivered once and stays.  The lists   *)
(* that a login pushes are made of messages of the table.                  *)
(***************************************************************************)
CONSTANT Message  \* messages, by number

VARIABLES
  pushed,   \* sent to the address of a receiver who is online
  waiting,  \* in the table, not marked
  marked,   \* in the table, marked delivered
  listed    \* sent in an offline list

vars == <<pushed, waiting, marked, listed>>

Init == pushed = {} /\ waiting = {} /\ marked = {} /\ listed = {}

Taken == pushed \cup waiting \cup marked

Push(m) ==
  /\ m \notin Taken
  /\ pushed' = pushed \cup {m}
  /\ UNCHANGED <<waiting, marked, listed>>

Store(m) ==
  /\ m \notin Taken
  /\ waiting' = waiting \cup {m}
  /\ UNCHANGED <<pushed, marked, listed>>

Mark(m) ==
  /\ m \in waiting
  /\ waiting' = waiting \ {m}
  /\ marked' = marked \cup {m}
  /\ UNCHANGED <<pushed, listed>>

(* A message whose mark failed is listed, and waits for the next login.    *)
List(S) ==
  /\ listed' = listed \cup S
  /\ UNCHANGED <<pushed, waiting, marked>>

Next ==
  \/ \E m \in Message : Push(m) \/ Store(m) \/ Mark(m)
  \/ \E S \in SUBSET (waiting \cup marked) : List(S)

Spec == Init /\ [][Next]_vars
=============================================================================
