----------------------------- MODULE ThreadPool ------------------------------
(***************************************************************************)
(* The pool of the server: workers that wait on a condition variable, the  *)
(* thread that owns the pool, submits tasks and shuts it down, and the     *)
(* destructor that shuts it down again.                                    *)
(*                                                                         *)
(* Nothing blocks inside queueMutex but the wait, which releases it, so    *)
(* that a critical section is one step.  A notify is a step of its own:    *)
(* the code notifies after it has released the lock.                       *)
(***************************************************************************)
EXTENDS Naturals, Sequences

CONSTANTS
  Worker,    \* threads of the pool
  NoTask,    \* the worker runs no task
  MaxTasks   \* bound on tasks submitted

VARIABLES
  tasks,      \* queue of tasks, by the number of their submission
  stop,
  submitted,  \* tasks submitted so far
  worker,     \* per worker: "loop", "asleep" in the wait, "run" or "done"
  task,       \* per worker: the task it took
  owner       \* where the thread is that owns the pool

vars == <<tasks, stop, submitted, worker, task, owner>>

ASSUME PoolAssumption ==
  /\ Worker # {}
  /\ MaxTasks \in Nat
  /\ NoTask \notin Nat

Init ==
  /\ tasks = <<>> /\ stop = FALSE /\ submitted = 0
  /\ worker = [w \in Worker |-> "loop"]
  /\ task = [w \in Worker |-> NoTask]
  /\ owner = "open"

-----------------------------------------------------------------------------
(* enqueue: the task is pushed inside the lock, the notify follows it.     *)
Enqueue ==
  /\ owner = "open" /\ submitted < MaxTasks
  /\ submitted' = submitted + 1
  /\ tasks' = Append(tasks, submitted + 1)
  /\ owner' = "notify"
  /\ UNCHANGED <<stop, worker, task>>

Asleep == {w \in Worker : worker[w] = "asleep"}

Wake(W) == worker' = [w \in Worker |-> IF w \in W THEN "loop" ELSE worker[w]]

(* notify_one: one of those asleep, if there is one.                       *)
NotifyOne ==
  /\ owner = "notify"
  /\ \/ \E w \in Asleep : Wake({w})
     \/ Asleep = {} /\ UNCHANGED worker
  /\ owner' = "open"
  /\ UNCHANGED <<tasks, stop, submitted, task>>

(* shutdown: stop, notify_all, join.                                       *)
Shutdown ==
  /\ owner = "open"
  /\ stop' = TRUE
  /\ owner' = "notifyAll"
  /\ UNCHANGED <<tasks, submitted, worker, task>>

(* Mutant: one worker is notified of the end.                              *)
NotifyFew ==
  /\ owner = "notifyAll"
  /\ \/ \E w \in Asleep : Wake({w})
     \/ Asleep = {} /\ UNCHANGED worker
  /\ owner' = "join"
  /\ UNCHANGED <<tasks, stop, submitted, task>>

NotifyAll ==
  /\ owner = "notifyAll"
  /\ Wake(Asleep)
  /\ owner' = "join"
  /\ UNCHANGED <<tasks, stop, submitted, task>>

(* The loop of joins ends when every thread has returned.                  *)
Join ==
  /\ owner = "join" /\ \A w \in Worker : worker[w] = "done"
  /\ owner' = "joined"
  /\ UNCHANGED <<tasks, stop, submitted, worker, task>>

(* ~ThreadPool shuts down again, after ~ChatServer did: the first join is  *)
(* of a thread that is not joinable any more, it throws, and a destructor  *)
(* that throws ends the process.                                           *)
Destroy ==
  /\ owner = "joined"
  /\ owner' = "aborted"
  /\ UNCHANGED <<tasks, stop, submitted, worker, task>>

-----------------------------------------------------------------------------
(* Mutant: the predicate is looked at before the wait, outside the lock.   *)
WaitUnlocked(w) ==
  /\ \/ worker[w] = "loop" /\ tasks = <<>> /\ ~stop
        /\ worker' = [worker EXCEPT ![w] = "blind"]
     \/ worker[w] = "blind" /\ worker' = [worker EXCEPT ![w] = "asleep"]
  /\ UNCHANGED <<tasks, stop, submitted, task, owner>>

(* condition.wait: the predicate is false, the thread sleeps.              *)
Wait(w) ==
  /\ worker[w] = "loop" /\ tasks = <<>> /\ ~stop
  /\ worker' = [worker EXCEPT ![w] = "asleep"]
  /\ UNCHANGED <<tasks, stop, submitted, task, owner>>

(* A wait may end without a notify; the predicate is looked at again.      *)
WakeSpuriously(w) ==
  /\ w \in Asleep
  /\ Wake({w})
  /\ UNCHANGED <<tasks, stop, submitted, task, owner>>

Take(w) ==
  /\ worker[w] = "loop" /\ tasks # <<>>
  /\ task' = [task EXCEPT ![w] = Head(tasks)]
  /\ tasks' = Tail(tasks)
  /\ worker' = [worker EXCEPT ![w] = "run"]
  /\ UNCHANGED <<stop, submitted, owner>>

(* The task returns.                                                       *)
Return(w) ==
  /\ worker[w] = "run"
  /\ worker' = [worker EXCEPT ![w] = "loop"]
  /\ task' = [task EXCEPT ![w] = NoTask]
  /\ UNCHANGED <<tasks, stop, submitted, owner>>

(* Mutant: a worker that sees stop leaves the tasks in the queue.          *)
LeaveAtOnce(w) ==
  /\ worker[w] = "loop" /\ stop
  /\ worker' = [worker EXCEPT ![w] = "done"]
  /\ UNCHANGED <<tasks, stop, submitted, task, owner>>

Leave(w) ==
  /\ worker[w] = "loop" /\ stop /\ tasks = <<>>
  /\ worker' = [worker EXCEPT ![w] = "done"]
  /\ UNCHANGED <<tasks, stop, submitted, task, owner>>

Work(w) == Wait(w) \/ Take(w) \/ Return(w) \/ Leave(w)

(* What the owner's thread does once a call of it has begun.               *)
Proceed == NotifyOne \/ NotifyAll \/ Join \/ Destroy

Ended == owner = "aborted" /\ UNCHANGED vars

Next ==
  \/ Enqueue \/ Shutdown \/ Proceed
  \/ \E w \in Worker : Work(w) \/ WakeSpuriously(w)
  \/ Ended

Spec == Init /\ [][Next]_vars

(* Threads run and tasks return; nobody has to enqueue, to shut down or to *)
(* wake up without a notify.                                               *)
FairSpec == Spec /\ WF_vars(Proceed) /\ \A w \in Worker : WF_vars(Work(w))

-----------------------------------------------------------------------------
TypeOK ==
  /\ tasks \in Seq(Nat) /\ stop \in BOOLEAN /\ submitted \in Nat
  /\ worker \in [Worker -> {"loop", "asleep", "run", "done"}]
  /\ task \in [Worker -> Nat \cup {NoTask}]
  /\ owner \in {"open", "notify", "notifyAll", "join", "joined", "aborted"}

(* The pool is a task queue: what is not in the queue has been started, in *)
(* the order of submission, and shutdown returns with every task done.     *)
Queue ==
  INSTANCE TaskQueue WITH
    started <- submitted - Len(tasks),
    running <- task,
    state <- IF owner \in {"joined", "aborted"} THEN "down"
             ELSE IF stop THEN "closed" ELSE "open"

Implements == Queue!Spec

(* No wakeup is lost: every task that was enqueued is run and returns      *)
(* (enqueue notifies outside the lock, the wait looks at the queue inside).*)
EveryTaskRuns ==
  \A n \in 1..MaxTasks :
    submitted >= n
    ~> /\ \A i \in DOMAIN tasks : tasks[i] # n
       /\ \A w \in Worker : task[w] # n

(* shutdown returns, whatever the workers were doing when it was called.   *)
ShutdownReturns == stop ~> owner \in {"joined", "aborted"}

(* The end of a server that could not start is the exit code of main       *)
(* (main.cpp:12-13, "服务器启动失败", return -1), not an abort.                *)
NeverAborts == owner # "aborted"
=============================================================================
