-------------------------- MODULE ThreadPoolProofs ---------------------------
(***************************************************************************)
(* ThreadPool implements TaskQueue, for any number of workers and tasks.   *)
(***************************************************************************)
EXTENDS ThreadPool, TLAPS

(* The queue holds the last tasks submitted, in order.                     *)
InOrder ==
  /\ Len(tasks) <= submitted
  /\ \A i \in 1..Len(tasks) : tasks[i] = submitted - Len(tasks) + i

(* A worker has a task while it runs one, and leaves a stopped pool with   *)
(* nothing in the queue; shutdown is past the joins when all have left.    *)
Workers ==
  /\ \A w \in Worker : worker[w] = "run" <=> task[w] # NoTask
  /\ \A w \in Worker : worker[w] = "done" => stop /\ tasks = <<>>

Owner ==
  /\ stop <=> owner \in {"notifyAll", "join", "joined", "aborted"}
  /\ owner \in {"joined", "aborted"} => \A w \in Worker : worker[w] = "done"

PoolInv == TypeOK /\ InOrder /\ Workers /\ Owner

LEMMA InitInv == Init => PoolInv
<1> SUFFICES ASSUME Init  PROVE PoolInv
  OBVIOUS
<1>1. TypeOK
  <2>0. stop \in BOOLEAN  BY Zenon DEF Init
  <2>1. tasks \in Seq(Nat) /\ submitted \in Nat  BY DEF Init
  <2>2. /\ worker \in [Worker -> {"loop", "asleep", "run", "done"}]
        /\ task \in [Worker -> Nat \cup {NoTask}]
    BY DEF Init
  <2>3. owner \in {"open", "notify", "notifyAll", "join", "joined", "aborted"}
    BY DEF Init
  <2> QED  BY <2>0, <2>1, <2>2, <2>3 DEF TypeOK
<1>2. InOrder
  <2>1. Len(tasks) = 0 /\ submitted = 0  BY DEF Init
  <2> QED  BY <2>1 DEF InOrder
<1>3. Workers  BY DEF Init, Workers
<1>4. Owner  BY DEF Init, Owner
<1> QED  BY <1>1, <1>2, <1>3, <1>4 DEF PoolInv

LEMMA WakeType ==
  ASSUME TypeOK, NEW W \in SUBSET Asleep, Wake(W)
  PROVE  /\ worker' \in [Worker -> {"loop", "asleep", "run", "done"}]
         /\ \A w \in Worker : worker'[w] \in {"run", "done"} <=> worker[w] \in {"run", "done"}
         /\ \A w \in Worker : worker'[w] \in {"run", "done"} => worker'[w] = worker[w]
BY DEF TypeOK, Asleep, Wake

(* A step of the owner or a wakeup that leaves the queue and the tasks be. *)
LEMMA WakeInv ==
  ASSUME PoolInv, NEW W \in SUBSET Asleep, Wake(W), UNCHANGED <<tasks, submitted, task>>,
         \/ UNCHANGED <<stop, owner>>
         \/ stop' = stop /\ owner = "notify" /\ owner' = "open"
         \/ stop' = stop /\ owner = "notifyAll" /\ owner' = "join"
  PROVE  PoolInv'
<1>1. TypeOK' /\ InOrder'
  BY WakeType DEF PoolInv, TypeOK, InOrder
<1>2. Workers'
  BY WakeType DEF PoolInv, Workers, TypeOK
<1>3. Owner'
  BY WakeType DEF PoolInv, Owner, TypeOK
<1> QED  BY <1>1, <1>2, <1>3 DEF PoolInv

LEMMA NoWake ==
  ASSUME TypeOK, UNCHANGED worker
  PROVE  Wake({})
BY DEF TypeOK, Wake

LEMMA StepInv == PoolInv /\ [Next]_vars => PoolInv'
<1> SUFFICES ASSUME PoolInv, [Next]_vars  PROVE PoolInv'
  OBVIOUS
<1>0. TypeOK /\ InOrder /\ Workers /\ Owner  BY DEF PoolInv
<1>1. CASE Enqueue
  <2>1. tasks' = Append(tasks, submitted + 1) /\ submitted' = submitted + 1
    BY <1>1 DEF Enqueue
  <2>2. Len(tasks') = Len(tasks) + 1 /\ tasks' \in Seq(Nat)
    BY <1>0, <2>1 DEF TypeOK
  <2>3. InOrder'
    <3> SUFFICES ASSUME NEW i \in 1..Len(tasks')
                 PROVE  tasks'[i] = submitted' - Len(tasks') + i
      BY <1>0, <2>1, <2>2 DEF InOrder, TypeOK
    <3>1. CASE i \in 1..Len(tasks)
      BY <1>0, <2>1, <2>2, <3>1 DEF TypeOK, InOrder
    <3>2. CASE i = Len(tasks) + 1
      BY <1>0, <2>1, <2>2, <3>2 DEF TypeOK
    <3> QED  BY <1>0, <2>2, <3>1, <3>2 DEF TypeOK
  <2>4. TypeOK'  BY <1>0, <1>1, <2>1, <2>2 DEF Enqueue, TypeOK
  <2>5. Workers' /\ Owner'  BY <1>0, <1>1 DEF Enqueue, Workers, Owner
  <2> QED  BY <2>3, <2>4, <2>5 DEF PoolInv
<1>2. CASE NotifyOne
  <2>1. PICK W \in SUBSET Asleep : Wake(W)
    BY <1>0, <1>2, NoWake DEF NotifyOne
  <2> QED  BY <1>2, <2>1, WakeInv DEF NotifyOne
<1>3. CASE Shutdown
  BY <1>0, <1>3 DEF Shutdown, PoolInv, TypeOK, InOrder, Workers, Owner
<1>4. CASE NotifyAll
  BY <1>4, WakeInv DEF NotifyAll
<1>5. CASE Join
  BY <1>0, <1>5 DEF Join, PoolInv, TypeOK, InOrder, Workers, Owner
<1>6. CASE Destroy
  BY <1>0, <1>6 DEF Destroy, PoolInv, TypeOK, InOrder, Workers, Owner
<1>7. ASSUME NEW w \in Worker, Wait(w) \/ Leave(w)  PROVE PoolInv'
  BY <1>0, <1>7 DEF Wait, Leave, PoolInv, TypeOK, InOrder, Workers, Owner
<1>8. ASSUME NEW w \in Worker, WakeSpuriously(w)  PROVE PoolInv'
  BY <1>8, WakeInv DEF WakeSpuriously
<1>9. ASSUME NEW w \in Worker, Take(w)  PROVE PoolInv'
  <2>1. tasks # <<>> /\ tasks' = Tail(tasks) /\ tasks' \in Seq(Nat) /\ Head(tasks) \in Nat
    BY <1>0, <1>9 DEF Take, TypeOK
  <2>2. Len(tasks') = Len(tasks) - 1 /\ \A i \in 1..Len(tasks') : tasks'[i] = tasks[i + 1]
    BY <1>0, <2>1 DEF TypeOK
  <2>3. InOrder'
    BY <1>0, <1>9, <2>1, <2>2 DEF Take, InOrder, TypeOK
  <2>4. TypeOK'  BY <1>0, <1>9, <2>1 DEF Take, TypeOK
  <2>5. Workers'  BY <1>0, <1>9, <2>1, PoolAssumption DEF Take, Workers, TypeOK
  <2>6. Owner'  BY <1>0, <1>9, <2>1 DEF Take, Owner, Workers, TypeOK
  <2> QED  BY <2>3, <2>4, <2>5, <2>6 DEF PoolInv
<1>10. ASSUME NEW w \in Worker, Return(w)  PROVE PoolInv'
  BY <1>0, <1>10 DEF Return, PoolInv, TypeOK, InOrder, Workers, Owner
<1>11. CASE UNCHANGED vars
  BY <1>0, <1>11 DEF vars, PoolInv, TypeOK, InOrder, Workers, Owner
<1> QED
  BY <1>1, <1>2, <1>3, <1>4, <1>5, <1>6, <1>7, <1>8, <1>9, <1>10, <1>11
  DEF Next, Proceed, Work, Ended

-----------------------------------------------------------------------------
(* Every step of the pool is a step of the queue, or none.                 *)
LEMMA InitQueue == Init => Queue!Init
<1> SUFFICES ASSUME Init  PROVE Queue!Init
  OBVIOUS
<1>0. submitted = 0 /\ Len(tasks) = 0  BY DEF Init
<1>1. submitted = 0 /\ submitted - Len(tasks) = 0  BY <1>0
<1>2. task = [w \in Worker |-> NoTask] /\ ~stop /\ owner = "open"  BY DEF Init
<1> QED  BY <1>1, <1>2 DEF Queue!Init

LEMMA StepQueue == PoolInv /\ [Next]_vars => [Queue!Next]_(Queue!vars)
<1> SUFFICES ASSUME PoolInv, [Next]_vars  PROVE [Queue!Next]_(Queue!vars)
  OBVIOUS
<1>0. TypeOK /\ InOrder /\ Workers /\ Owner  BY DEF PoolInv
<1>1. CASE Enqueue
  <2>1. Len(tasks') = Len(tasks) + 1 /\ submitted' = submitted + 1
    BY <1>0, <1>1 DEF Enqueue, TypeOK
  <2>2. submitted' - Len(tasks') = submitted - Len(tasks)
    BY <1>0, <2>1 DEF TypeOK
  <2>3. Queue!Submit
    BY <1>0, <1>1, <2>1, <2>2 DEF Enqueue, Queue!Submit, Owner
  <2> QED  BY <2>3 DEF Queue!Next
<1>2. CASE Shutdown
  BY <1>0, <1>2 DEF Shutdown, Queue!Next, Queue!Close, Owner
<1>3. CASE Join
  <2>1. tasks = <<>> /\ stop /\ \A w \in Worker : task[w] = NoTask
    BY <1>0, <1>3, PoolAssumption DEF Join, Workers
  <2>2. submitted - Len(tasks) = submitted
    BY <1>0, <2>1 DEF TypeOK
  <2>3. Queue!Down  BY <1>3, <2>1, <2>2 DEF Join, Queue!Down
  <2> QED  BY <2>3 DEF Queue!Next
<1>4. ASSUME NEW w \in Worker, Take(w)  PROVE Queue!Next
  <2>1. /\ tasks # <<>> /\ Len(tasks) > 0 /\ Len(tasks') = Len(tasks) - 1
        /\ submitted' = submitted /\ owner' = owner /\ stop' = stop
    BY <1>0, <1>4 DEF Take, TypeOK
  <2>2. Head(tasks) = submitted - Len(tasks) + 1
    BY <1>0, <2>1 DEF InOrder, TypeOK
  <2>3. submitted' - Len(tasks') = submitted - Len(tasks) + 1
    BY <1>0, <2>1 DEF TypeOK
  <2>4. submitted - Len(tasks) < submitted
    BY <1>0, <2>1 DEF TypeOK
  <2>5. task[w] = NoTask  BY <1>0, <1>4 DEF Take, Workers
  <2>6. task' = [task EXCEPT ![w] = submitted - Len(tasks) + 1]
    BY <1>4, <2>2 DEF Take
  <2>7. Queue!Start(w)
    BY <2>1, <2>3, <2>4, <2>5, <2>6 DEF Queue!Start
  <2> QED  BY <2>7 DEF Queue!Next
<1>5. ASSUME NEW w \in Worker, Return(w)  PROVE Queue!Next
  <2>1. Queue!Finish(w)
    BY <1>0, <1>5 DEF Return, Queue!Finish, Workers
  <2> QED  BY <2>1 DEF Queue!Next
<1>6. CASE NotifyOne \/ NotifyAll \/ Destroy \/ UNCHANGED vars
  BY <1>0, <1>6 DEF NotifyOne, NotifyAll, Destroy, vars, Queue!vars
<1>7. ASSUME NEW w \in Worker, Wait(w) \/ Leave(w) \/ WakeSpuriously(w)
      PROVE  UNCHANGED Queue!vars
  BY <1>7 DEF Wait, Leave, WakeSpuriously, Queue!vars
<1> QED
  BY <1>1, <1>2, <1>3, <1>4, <1>5, <1>6, <1>7 DEF Next, Proceed, Work, Ended

(* The pool is a task queue: each task starts once, in the order of        *)
(* submission, and shutdown returns only when every task is done, for any  *)
(* number of workers and tasks (ThreadPool.cpp).                           *)
THEOREM PoolImplementsQueue == Spec => Implements
<1>1. Init => PoolInv  BY InitInv
<1>2. PoolInv /\ [Next]_vars => PoolInv'  BY StepInv
<1>3. Init => Queue!Init  BY InitQueue
<1>4. PoolInv /\ [Next]_vars => [Queue!Next]_(Queue!vars)  BY StepQueue
<1> QED  BY <1>1, <1>2, <1>3, <1>4, PTL DEF Spec, Implements, Queue!Spec
=============================================================================
