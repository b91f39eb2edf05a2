------------------------------ MODULE TaskQueue ------------------------------
(***************************************************************************)
(* What a thread pool promises.  Tasks are numbered as they are submitted. *)
(* They start in that order, each of them once, on workers that run one    *)
(* task at a time.  A pool that was closed is down when every task that    *)
(* was submitted is done, and not before.                                  *)
(***************************************************************************)
EXTENDS Naturals

CONSTANTS
  Worker,    \* the threads
  NoTask,    \* the worker runs no task
  MaxTasks   \* bound on tasks submitted

VARIABLES
  submitted,  \* tasks submitted
  started,    \* tasks started: 1..started
  running,    \* per worker: its task
  state       \* "open", "closed" or "down"

vars == <<submitted, started, running, state>>

Init ==
  /\ submitted = 0 /\ started = 0
  /\ running = [w \in Worker |-> NoTask]
  /\ state = "open"

Submit ==
  /\ state = "open" /\ submitted < MaxTasks
  /\ submitted' = submitted + 1
  /\ UNCHANGED <<started, running, state>>

Start(w) ==
  /\ running[w] = NoTask /\ started < submitted
  /\ started' = started + 1
  /\ running' = [running EXCEPT ![w] = started + 1]
  /\ UNCHANGED <<submitted, state>>

Finish(w) ==
  /\ running[w] # NoTask
  /\ running' = [running EXCEPT ![w] = NoTask]
  /\ UNCHANGED <<submitted, started, state>>

Close ==
  /\ state = "open"
  /\ state' = "closed"
  /\ UNCHANGED <<submitted, started, running>>

Down ==
  /\ state = "closed" /\ started = submitted /\ \A w \in Worker : running[w] = NoTask
  /\ state' = "down"
  /\ UNCHANGED <<submitted, started, running>>

Next ==
  \/ Submit \/ Close \/ Down
  \/ \E w \in Worker : Start(w) \/ Finish(w)

Spec == Init /\ [][Next]_vars
=============================================================================
