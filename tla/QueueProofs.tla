----------------------------- MODULE QueueProofs ------------------------------
(***************************************************************************)
(* The server uses its pool as TaskQueue promises it, as long as it is not *)
(* killed, and every handler answers its request, once, for any number of  *)
(* workers and requests.                                                   *)
(***************************************************************************)
EXTENDS ChatServerProofs

(* The queue holds the requests received last, in the order they came.     *)
QueueInv ==
  /\ Len(tasks) <= received
  /\ \A i \in 1..Len(tasks) : tasks[i].n = received - Len(tasks) + i

LEMMA InitQueue == Init => QueueInv /\ crashes = 0
<1>1. Len(<<>>) = 0  OBVIOUS
<1> QED  BY <1>1 DEF Init, QueueInv

(* A step of a worker takes a task, ends one, or leaves queue and tasks.   *)
LEMMA RunQueue ==
  ASSUME TypeOK, NEW w \in Worker, Run(w)
  PROVE  \/ Dequeue(w)
         \/ /\ UNCHANGED queue
            /\ UNCHANGED task \/ (pc[w] # "idle" /\ task' = [task EXCEPT ![w] = NoTask])
<1>1. CASE Login(w)
  BY <1>1 DEF Login, VerifyUser, GoOnline, LoginResp, LoadOffline, MarkDelivered, PushOffline,
     Finish, InDb
<1>2. CASE HandleFriendRequest(w) \/ FriendRequestAction(w) \/ DeleteFriend(w) \/ SetBlocked(w)
  BY <1>2 DEF HandleFriendRequest, FriendRequestAction, SelfRequest, CheckPending,
     InsertRequest, UpdateStatus, AddFriend1, AddFriend2, DeleteFriend, SetBlocked, DbCallOnly
<1>3. CASE PrivateMessage(w) \/ CreateGroup(w) \/ JoinGroup(w)
  BY <1>3 DEF PrivateMessage, CheckFriend, Deliver, StoreMessage, CreateGroup, JoinGroup,
     LockTwice, DbCallOnly
<1>4. CASE \/ Drop(w) \/ Respond(w) \/ RegisterUser(w) \/ UpdateUser(w) \/ DeleteUser(w)
           \/ EraseDeleted(w) \/ Logout(w) \/ List(w)
  BY <1>4 DEF Drop, Respond, RegisterUser, UpdateUser, DeleteUser, EraseDeleted, Logout, List,
     Finish, DbCallOnly, InDb
<1> QED  BY <1>1, <1>2, <1>3, <1>4 DEF Run

LEMMA RunCrashes == ASSUME NEW w \in Worker, Run(w)  PROVE UNCHANGED crashes
BY DEF Run, Login, HandleFriendRequest, FriendRequestAction, PrivateMessage, DbCallOnly,
   Dequeue, Drop, Respond, RegisterUser, UpdateUser, DeleteUser, EraseDeleted, Logout,
   VerifyUser, GoOnline, LoginResp, LoadOffline, MarkDelivered, PushOffline, SelfRequest,
   CheckPending, InsertRequest, UpdateStatus, AddFriend1, AddFriend2, DeleteFriend, SetBlocked,
   List, CheckFriend, Deliver, StoreMessage, CreateGroup, JoinGroup, LockTwice

LEMMA ReceiveQueue ==
  ASSUME TypeOK, QueueInv, NEW r \in Requests, Receive(r)
  PROVE  QueueInv' /\ Len(tasks') = Len(tasks) + 1 /\ received' = received + 1
<1> DEFINE t == [n |-> received + 1, req |-> r]
<1>0. tasks \in Seq(Task) /\ received \in Nat  BY DEF TypeOK, ServerTypeOK
<1>1. received' = received + 1 /\ tasks' = Append(tasks, t)  BY DEF Receive
<1>2. t.n = received + 1  OBVIOUS
<1>3. t \in Task  BY <1>0, ServerAssumption DEF Task
<1> HIDE DEF t
<1>4. Len(tasks') = Len(tasks) + 1  BY <1>0, <1>1, <1>3
<1>5. Len(tasks') <= received'  BY <1>0, <1>1, <1>4 DEF QueueInv
<1>6. ASSUME NEW i \in 1..Len(tasks')  PROVE tasks'[i].n = received' - Len(tasks') + i
  <2>1. CASE i = Len(tasks) + 1
    BY <1>0, <1>1, <1>2, <1>3, <1>4, <2>1
  <2>2. CASE i \in 1..Len(tasks)
    <3>1. tasks'[i] = tasks[i]  BY <1>0, <1>1, <1>3, <2>2
    <3> QED  BY <1>0, <1>1, <1>4, <2>2, <3>1 DEF QueueInv
  <2> QED  BY <1>0, <1>4, <2>1, <2>2
<1> QED  BY <1>1, <1>4, <1>5, <1>6 DEF QueueInv

LEMMA DequeueQueue ==
  ASSUME TypeOK, QueueInv, NEW w \in Worker, Dequeue(w)
  PROVE  /\ QueueInv' /\ Len(tasks) >= 1 /\ Len(tasks') = Len(tasks) - 1
         /\ received' = received /\ task[w] = NoTask
         /\ task' = [task EXCEPT ![w] = Head(tasks)]
         /\ Head(tasks) \in Task /\ Head(tasks).n = received - Len(tasks) + 1
<1>0. tasks \in Seq(Task) /\ received \in Nat  BY DEF TypeOK, ServerTypeOK
<1>1. /\ pc[w] = "idle" /\ tasks # <<>> /\ tasks' = Tail(tasks)
      /\ task' = [task EXCEPT ![w] = Head(tasks)] /\ UNCHANGED received
  BY DEF Dequeue
<1>2. task[w] = NoTask  BY <1>1, CallType DEF TypeOK, WorkerTypeOK
<1>3. Len(tasks) >= 1 /\ Len(tasks') = Len(tasks) - 1 /\ Head(tasks) = tasks[1]
      /\ \A i \in 1..Len(tasks') : tasks'[i] = tasks[i + 1]
  BY <1>0, <1>1
<1>4. QueueInv'  BY <1>0, <1>1, <1>3 DEF QueueInv
<1>5. Head(tasks) \in Task /\ Head(tasks).n = received - Len(tasks) + 1
  BY <1>0, <1>3 DEF QueueInv
<1> QED  BY <1>1, <1>2, <1>3, <1>4, <1>5

(* Receive is Submit, Dequeue is Start, the end of a handler is Finish.    *)
LEMMA StepQueue ==
  ASSUME TypeOK, QueueInv, crashes = 0, MaxCrashes = 0, [Next]_vars
  PROVE  QueueInv' /\ crashes' = 0 /\ [Pool!Next]_(Pool!vars)
<1> USE DEF Pool!vars
<1>1. tasks \in Seq(Task) /\ received \in Nat /\ task \in [Worker -> Task \cup {NoTask}]
  BY DEF TypeOK, ServerTypeOK
<1>2. ASSUME NEW r \in Requests, Receive(r)
      PROVE  QueueInv' /\ crashes' = 0 /\ Pool!Submit
  <2>1. received < MaxRequests /\ UNCHANGED <<task, crashes>>  BY <1>2 DEF Receive
  <2> QED  BY <1>1, <1>2, <2>1, ReceiveQueue DEF Pool!Submit
<1>3. ASSUME NEW w \in Worker, Dequeue(w)
      PROVE  QueueInv' /\ crashes' = 0 /\ Pool!Start(w)
  <2>1. UNCHANGED crashes  BY <1>3 DEF Dequeue
  <2>2. /\ QueueInv' /\ Len(tasks) >= 1 /\ Len(tasks') = Len(tasks) - 1
        /\ received' = received /\ task[w] = NoTask
        /\ task' = [task EXCEPT ![w] = Head(tasks)]
        /\ Head(tasks) \in Task /\ Head(tasks).n = received - Len(tasks) + 1
    BY <1>3, DequeueQueue
  <2>3. [v \in Worker |-> IF task'[v] = NoTask THEN 0 ELSE task'[v].n]
        = [[v \in Worker |-> IF task[v] = NoTask THEN 0 ELSE task[v].n] EXCEPT
             ![w] = received - Len(tasks) + 1]
    BY <1>1, <2>2, ServerAssumption
  <2> QED  BY <1>1, <2>1, <2>2, <2>3 DEF Pool!Start, QueueInv
<1>4. ASSUME NEW w \in Worker, pc[w] # "idle", UNCHANGED <<queue, crashes>>,
             task' = [task EXCEPT ![w] = NoTask]
      PROVE  QueueInv' /\ Pool!Finish(w)
  <2>1. task[w] \in Task /\ task[w] # NoTask  BY <1>4, ServerAssumption DEF TypeOK, WorkerTypeOK
  <2>2. task[w].n # 0  BY <2>1 DEF Task
  <2>3. [v \in Worker |-> IF task'[v] = NoTask THEN 0 ELSE task'[v].n]
        = [[v \in Worker |-> IF task[v] = NoTask THEN 0 ELSE task[v].n] EXCEPT ![w] = 0]
    BY <1>1, <1>4
  <2> QED  BY <1>4, <2>1, <2>2, <2>3 DEF Pool!Finish, QueueInv, queue
<1>5. ASSUME UNCHANGED <<queue, task, crashes>>
      PROVE  QueueInv' /\ crashes' = 0 /\ UNCHANGED Pool!vars
  BY <1>5 DEF queue, QueueInv
<1>6. ASSUME NEW w \in Worker, Run(w)  PROVE UNCHANGED crashes
  BY <1>6, RunCrashes
<1>7. ASSUME Crash  PROVE FALSE
  BY <1>7 DEF Crash
<1>8. ASSUME UNCHANGED vars  PROVE UNCHANGED <<queue, task, crashes>>
  BY <1>8 DEF vars
<1> QED
  BY <1>2, <1>3, <1>4, <1>5, <1>6, <1>7, <1>8, RunQueue DEF Next, Quiet, Pool!Next

(* Every run of the server that is not killed is a run of TaskQueue        *)
(* (receiveLoop, the worker loop).                                         *)
THEOREM PoolUsedAsPromised == MaxCrashes = 0 => (Spec => UsesTaskQueue)
<1> SUFFICES ASSUME MaxCrashes = 0  PROVE Spec => UsesTaskQueue
  OBVIOUS
<1>1. Init => Pool!Init
  <2> SUFFICES ASSUME Init  PROVE Pool!Init
    OBVIOUS
  <2>1. received = 0 /\ tasks = <<>> /\ task = [w \in Worker |-> NoTask]
    BY DEF Init
  <2>2. Len(tasks) = 0  BY <2>1
  <2>3. received - Len(tasks) = 0
    <3>1. \A x, y : x = 0 /\ y = 0 => x - y = 0  OBVIOUS
    <3> QED  BY <2>1, <2>2, <3>1, Zenon
  <2>4. [w \in Worker |-> IF task[w] = NoTask THEN 0 ELSE task[w].n] = [w \in Worker |-> 0]
    BY <2>1
  <2> QED  BY <2>1, <2>3, <2>4 DEF Pool!Init
<1>2. Init => QueueInv /\ crashes = 0  BY InitQueue
<1>3. TypeOK /\ QueueInv /\ crashes = 0 /\ [Next]_vars
      => QueueInv' /\ (crashes = 0)' /\ [Pool!Next]_(Pool!vars)
  BY StepQueue
<1> QED  BY <1>1, <1>2, <1>3, TypeCorrect, PTL DEF Spec, UsesTaskQueue, Pool!Spec

-----------------------------------------------------------------------------
(* Answers.  No number is used twice: the handlers that run have different *)
(* ones, below those of the queue, and only a handler sends its number.    *)
Started == received - Len(tasks)

Numbered ==
  /\ QueueInv /\ received <= MaxRequests
  /\ \A w \in Worker : pc[w] # "idle" => task[w].n \in 1..Started
  /\ \A v, w \in Worker :
       v # w /\ pc[v] # "idle" /\ pc[w] # "idle" => task[v].n # task[w].n
  /\ \A d \in sent : d.n \in 1..Started

LEMMA InitNumbered == Init => Numbered
<1> SUFFICES ASSUME Init  PROVE Numbered
  OBVIOUS
<1>1. received = 0 /\ sent = {} /\ \A w \in Worker : pc[w] = "idle"  BY DEF Init
<1> QED  BY <1>1, InitQueue, ServerAssumption DEF Numbered

(* Within a handler the task stays.                                        *)
LEMMA KeepsTask ==
  ASSUME TypeOK, [Next]_vars, NEW w \in Worker, Run(w), ~Dequeue(w), pc'[w] # "idle"
  PROVE  task'[w] = task[w] /\ pc[w] # "idle"
<1>1. task'[w] \in Task
  <2>1. TypeOK'  BY StepType
  <2> QED  BY <2>1 DEF TypeOK, WorkerTypeOK
<1>2. task'[w] # NoTask  BY <1>1, ServerAssumption
<1>3. UNCHANGED task  BY <1>2, RunQueue DEF TypeOK, ServerTypeOK
<1> QED  BY <1>2, <1>3, CallType DEF TypeOK, WorkerTypeOK

LEMMA StepNumbered ==
  ASSUME TypeOK, Numbered, [Next]_vars  PROVE Numbered'
<1>0. /\ received \in Nat /\ tasks \in Seq(Task) /\ Len(tasks) \in Nat /\ MaxRequests \in Nat
      /\ task \in [Worker -> Task \cup {NoTask}] /\ pc \in [Worker -> Call \cup {"idle"}]
      /\ QueueInv /\ received <= MaxRequests /\ Started \in Nat
  BY ServerAssumption DEF TypeOK, ServerTypeOK, Numbered, QueueInv, Started
<1>1. ASSUME NEW r \in Requests, Receive(r)  PROVE Numbered'
  <2>1. /\ QueueInv' /\ Len(tasks') = Len(tasks) + 1 /\ received' = received + 1
        /\ received < MaxRequests /\ UNCHANGED <<pc, task, sent>>
    BY <1>0, <1>1, ReceiveQueue DEF Receive
  <2>2. Started' = Started /\ received' <= MaxRequests  BY <1>0, <2>1 DEF Started
  <2> QED  BY <2>1, <2>2 DEF Numbered
<1>2. ASSUME NEW w \in Worker, Dequeue(w)  PROVE Numbered'
  <2>1. /\ QueueInv' /\ Len(tasks') = Len(tasks) - 1 /\ received' = received
        /\ task' = [task EXCEPT ![w] = Head(tasks)] /\ Head(tasks).n = Started + 1
    BY <1>0, <1>2, DequeueQueue DEF Started
  <2>2. sent' = sent /\ \A v \in Worker \ {w} : pc'[v] = pc[v] /\ task'[v] = task[v]
    BY <1>0, <1>2 DEF Dequeue, Goto
  <2>3. Started' = Started + 1  BY <1>0, <2>1 DEF Started
  <2>4. task'[w].n = Started + 1  BY <1>0, <2>1
  <2>5. \A n : n \in 1..Started => n \in 1..Started' /\ n # Started + 1  BY <1>0, <2>3
  <2>6. Started + 1 \in 1..Started'  BY <1>0, <2>3
  <2> QED  BY <1>0, <2>1, <2>2, <2>4, <2>5, <2>6 DEF Numbered
<1>3. ASSUME NEW w \in Worker, Run(w), ~Dequeue(w)  PROVE Numbered'
  <2>1. UNCHANGED queue  BY <1>3, RunQueue
  <2>2. Started' = Started /\ QueueInv'  BY <1>0, <2>1 DEF Started, QueueInv, queue
  <2>3. \A v \in Worker : pc'[v] # "idle" => pc[v] # "idle" /\ task'[v] = task[v]
    BY <1>3, KeepsTask, StepLocals DEF LocalsKeep, OthersKeep
  <2>4. \A d \in sent' : d \in sent \/ (pc[w] # "idle" /\ d.n = task[w].n)
    BY <1>3, SentBy
  <2> QED  BY <1>0, <2>1, <2>2, <2>3, <2>4 DEF Numbered, queue
<1>4. CASE Crash
  <2>1. /\ received' = received /\ tasks' = <<>> /\ sent' = sent
        /\ \A w \in Worker : pc'[w] = "idle"
    BY <1>4 DEF Crash
  <2>2. QueueInv' /\ Started' = received
    BY <1>0, <2>1 DEF QueueInv, Started
  <2>3. \A n : n \in 1..Started => n \in 1..received  BY <1>0 DEF Started
  <2> QED  BY <1>0, <2>1, <2>2, <2>3 DEF Numbered
<1>5. CASE UNCHANGED vars
  BY <1>5 DEF vars, queue, Numbered, QueueInv, Started
<1> QED  BY <1>1, <1>2, <1>3, <1>4, <1>5 DEF Next, Quiet

(* A handler has answered when it is behind its answer and not before, and *)
(* no number has two answers.                                              *)
After == {"loadOffline", "markDelivered", "eraseDeleted"}

AnswerInv ==
  /\ \A w \in Worker : pc[w] # "idle" => (Answered(task[w].n) <=> pc[w] \in After)
  /\ \A d, e \in sent : IsAnswer(d) /\ IsAnswer(e) /\ d.n = e.n => d = e

LEMMA TaskEnds ==
  ASSUME NEW w \in Worker, Run(w)
  PROVE  \/ UNCHANGED task
         \/ Dequeue(w) \/ Drop(w) \/ Respond(w) \/ LoginResp(w) \/ List(w) \/ PushOffline(w)
         \/ EraseDeleted(w)
BY DEF Run, Login, HandleFriendRequest, FriendRequestAction, PrivateMessage, DbCallOnly,
   RegisterUser, UpdateUser, DeleteUser, Logout, VerifyUser, GoOnline, LoadOffline,
   MarkDelivered, SelfRequest, CheckPending, InsertRequest, UpdateStatus, AddFriend1,
   AddFriend2, DeleteFriend, SetBlocked, CheckFriend, Deliver, StoreMessage, CreateGroup,
   JoinGroup, LockTwice

(* Only an answer leads behind it, and nothing leads back.                 *)
LEMMA AfterStep ==
  ASSUME TypeOK, [Next]_vars, NEW w \in Worker, Run(w), ~Dequeue(w), pc'[w] # "idle"
  PROVE  /\ Respond(w) \/ LoginResp(w) => pc[w] \notin After /\ pc'[w] \in After
         /\ ~(Respond(w) \/ LoginResp(w)) => (pc'[w] \in After <=> pc[w] \in After)
<1>0. pc \in [Worker -> Call \cup {"idle"}]  BY DEF TypeOK, ServerTypeOK
<1>1. Respond(w) \/ LoginResp(w) => pc[w] \notin After /\ pc'[w] \in After
  BY <1>0, FinishLocals DEF Respond, LoginResp, Goto, After
<1>2. ASSUME ~Respond(w), pc'[w] = "eraseDeleted"  PROVE FALSE
  BY <1>0, <1>2, FinishLocals
  DEF Run, Login, HandleFriendRequest, FriendRequestAction, PrivateMessage, Answer, Goto, InDb,
      Drop, RegisterUser, UpdateUser, DeleteUser, EraseDeleted, Logout, VerifyUser, GoOnline,
      LoginResp, LoadOffline, MarkDelivered, PushOffline, SelfRequest, CheckPending,
      InsertRequest, UpdateStatus, AddFriend1, AddFriend2, DeleteFriend, SetBlocked, List,
      CheckFriend, Deliver, StoreMessage, CreateGroup, JoinGroup, LockTwice
<1>3. ASSUME ~LoginResp(w), pc'[w] \in {"loadOffline", "markDelivered"}
      PROVE  pc[w] \in After
  BY <1>3, StepLocals DEF LoadOffline, MarkDelivered, InDb, After
<1>4. ASSUME pc[w] \in After  PROVE pc'[w] \in After
  BY <1>0, <1>4, OwnStep, FinishLocals
  DEF LoadOffline, MarkDelivered, PushOffline, EraseDeleted, Goto, After
<1> QED  BY <1>1, <1>2, <1>3, <1>4 DEF After

LEMMA AnsweredBy ==
  ASSUME TypeOK, NEW w \in Worker, Run(w), NEW d \in sent', d \notin sent, IsAnswer(d)
  PROVE  d.n = task[w].n /\ (Respond(w) \/ LoginResp(w) \/ List(w))
<1>1. ASSUME d.type = "PRIVATE_MSG_RESP", d.body = {<<task[w].n>>}  PROVE FALSE
  <2>1. <<task[w].n>> \in d.body  BY <1>1
  <2> QED  BY <1>1, <2>1 DEF IsAnswer
<1>2. ASSUME d = Datagram(Req(w).addr, task[w].n, "OFFLINE_MSG_LIST_RESP", TRUE, payload[w])
      PROVE  FALSE
  BY <1>2 DEF Datagram, IsAnswer
<1> QED  BY <1>1, <1>2, SentBy

(* The numbers answered after a step of w.                                 *)
LEMMA AnsweredStep ==
  ASSUME TypeOK, [Next]_vars, NEW w \in Worker, Run(w), NEW n
  PROVE  Answered(n)' <=> \/ Answered(n)
                          \/ n = task[w].n /\ (Respond(w) \/ LoginResp(w) \/ List(w))
<1>1. Answered(n) => Answered(n)'  BY SentGrows DEF Answered
<1>2. ASSUME Respond(w) \/ LoginResp(w) \/ List(w), n = task[w].n  PROVE Answered(n)'
  BY <1>2, AnswerSent DEF Answered
<1>3. ASSUME Answered(n)', ~Answered(n)
      PROVE  n = task[w].n /\ (Respond(w) \/ LoginResp(w) \/ List(w))
  BY <1>3, AnsweredBy DEF Answered
<1> QED  BY <1>1, <1>2, <1>3

LEMMA StepAnswerInv ==
  ASSUME TypeOK, Numbered, AnswerInv, [Next]_vars  PROVE AnswerInv'
<1>1. ASSUME NEW w \in Worker, Run(w), NEW v \in Worker, pc'[v] # "idle",
             NEW n, n = task'[v].n
      PROVE  Answered(n)' <=> pc'[v] \in After
  <2>1. CASE v # w
    <3>1. pc'[v] = pc[v] /\ task'[v] = task[v]
      BY <1>1, <2>1, StepLocals DEF LocalsKeep, OthersKeep
    <3>2. pc[w] # "idle" => task[v].n # task[w].n  BY <1>1, <2>1, <3>1 DEF Numbered
    <3>3. Respond(w) \/ LoginResp(w) \/ List(w) => pc[w] # "idle"  BY AnswerSent
    <3>4. Answered(n)' <=> Answered(n)  BY <1>1, <3>1, <3>2, <3>3, AnsweredStep
    <3> QED  BY <1>1, <3>1, <3>4 DEF AnswerInv
  <2>2. CASE v = w /\ ~Dequeue(w)
    <3>1. task'[w] = task[w] /\ pc[w] # "idle"  BY <1>1, <2>2, KeepsTask
    <3>2. ~List(w)  BY <1>1, <2>2, FinishLocals DEF List
    <3>3. Answered(n) <=> pc[w] \in After  BY <1>1, <2>2, <3>1 DEF AnswerInv
    <3> QED  BY <1>1, <2>2, <3>1, <3>2, <3>3, AnsweredStep, AfterStep
  <2>3. CASE v = w /\ Dequeue(w)
    <3>1. /\ pc'[w] \notin After /\ sent' = sent /\ task'[w] = Head(tasks)
      BY <2>3, FirstCall DEF Dequeue, Goto, After, TypeOK, ServerTypeOK
    <3>2. n = Started + 1  BY <1>1, <2>3, <3>1, DequeueQueue DEF Started, Numbered
    <3>3. n \notin 1..Started
      BY <3>2 DEF Started, TypeOK, ServerTypeOK
    <3>4. ~Answered(n)'  BY <3>1, <3>3 DEF Numbered, Answered
    <3> QED  BY <2>3, <3>1, <3>4
  <2> QED  BY <2>1, <2>2, <2>3
<1>2. ASSUME NEW w \in Worker, Run(w), NEW d \in sent', NEW e \in sent',
             IsAnswer(d), IsAnswer(e), d.n = e.n
      PROVE  d = e
  <2>1. CASE d \in sent /\ e \in sent  BY <1>2, <2>1 DEF AnswerInv
  <2>2. ASSUME d \notin sent \/ e \notin sent
        PROVE  /\ d.n = task[w].n /\ e.n = task[w].n
               /\ Respond(w) \/ LoginResp(w) \/ List(w)
    BY <1>2, <2>2, AnsweredBy
  <2>3. ASSUME d.n = task[w].n, e.n = task[w].n, Respond(w) \/ LoginResp(w) \/ List(w)
        PROVE  d = e
    <3>1. PICK x : sent' = sent \cup {x}  BY <2>3, AnswerSent
    <3>2. ~Answered(task[w].n)  BY <2>3, AnswerSent DEF AnswerInv, After
    <3>3. d \notin sent /\ e \notin sent  BY <1>2, <2>3, <3>2 DEF Answered
    <3> QED  BY <3>1, <3>3
  <2> QED  BY <2>1, <2>2, <2>3
<1>3. CASE Crash
  BY <1>3 DEF Crash, AnswerInv
<1>4. CASE UNCHANGED vars \/ \E r \in Requests : Receive(r)
  BY <1>4 DEF vars, Receive, AnswerInv, Answered
<1>5. ASSUME NEW w \in Worker, Run(w)  PROVE AnswerInv'
  BY <1>1, <1>2, <1>5 DEF AnswerInv
<1> QED  BY <1>3, <1>4, <1>5 DEF Next, Quiet

LEMMA InitAnswerInv == Init => AnswerInv
BY DEF Init, AnswerInv

(* What the proofs of this section keep.                                   *)
AnswersInv == TypeOK /\ Numbered /\ AnswerInv

LEMMA AnswersKept == Spec => []AnswersInv
<1>1. Init => AnswersInv
  BY InitTypeOK, InitNumbered, InitAnswerInv DEF AnswersInv
<1>2. AnswersInv /\ [Next]_vars => AnswersInv'
  BY StepType, StepNumbered, StepAnswerInv DEF AnswersInv
<1> QED  BY <1>1, <1>2, PTL DEF Spec

(* No request is answered twice, and no handler that is about to answer    *)
(* has done so: the early returns of the handlers are returns              *)
(* (sendSimpleResponse, sendPacket).                                       *)
THEOREM NeverAnsweredTwice == Spec => []AnsweredOnce
<1>1. AnswersInv => AnsweredOnce  BY DEF AnswersInv, AnswerInv, AnsweredOnce, After
<1> QED  BY <1>1, AnswersKept, PTL

(* A handler that returns has answered, unless its packet has no answer or *)
(* the process is killed.                                                  *)
THEOREM HandlersReturnAnswered == Spec => ReturnsAnswered
<1> DEFINE Returns(w) ==
      task[w] # NoTask /\ task'[w] = NoTask /\ pc[w] # "drop"
      => \/ \E d \in sent' : d.n = task[w].n /\ IsAnswer(d)
         \/ crashes' # crashes
<1>1. ASSUME AnswersInv, [Next]_vars, NEW w \in Worker  PROVE Returns(w)
  <2> SUFFICES ASSUME task[w] # NoTask, task'[w] = NoTask, pc[w] # "drop", crashes' = crashes
               PROVE  \E d \in sent' : d.n = task[w].n /\ IsAnswer(d)
    OBVIOUS
  <2>0. TypeOK /\ AnswerInv  BY <1>1 DEF AnswersInv
  <2>1. PICK v \in Worker : Run(v)
    <3>1. ~Crash  BY <2>0 DEF Crash, TypeOK, ServerTypeOK
    <3> QED  BY <1>1, <3>1 DEF Next, Quiet, Receive, vars
  <2>2. v = w  BY <2>0, <2>1, StepLocals DEF LocalsKeep, OthersKeep
  <2>3. ~Dequeue(w)  BY <2>0, CallType DEF Dequeue, TypeOK, WorkerTypeOK
  <2>4. ASSUME Respond(w) \/ LoginResp(w) \/ List(w)
        PROVE  \E d \in sent' : d.n = task[w].n /\ IsAnswer(d)
    BY <2>0, <2>4, AnswerSent
  <2>5. ASSUME PushOffline(w) \/ EraseDeleted(w)
        PROVE  \E d \in sent' : d.n = task[w].n /\ IsAnswer(d)
    <3>1. pc[w] \in After  BY <2>5 DEF PushOffline, EraseDeleted, After
    <3>2. Answered(task[w].n)  BY <2>0, <3>1 DEF AnswerInv, After
    <3> QED  BY <1>1, <3>2, SentGrows DEF Answered
  <2> QED  BY <2>1, <2>2, <2>3, <2>4, <2>5, TaskEnds DEF Drop
<1>2. AnswersInv /\ [Next]_vars => [\A w \in Worker : Returns(w)]_vars  BY <1>1
<1> QED  BY <1>2, AnswersKept, PTL DEF Spec, ReturnsAnswered
=============================================================================
