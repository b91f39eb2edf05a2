---------------------------- MODULE AcceptedProofs ----------------------------
(***************************************************************************)
(* An accepted message is lost only to a failed statement, one to each,    *)
(* and is handled as Mailbox promises, for any number of threads,          *)
(* requests, kills and failures.                                           *)
(***************************************************************************)
EXTENDS QueueProofs, FiniteSetTheorems

(* The bound is not inductive by itself: it looks only at answers that     *)
(* left.  The handlers that are about to send one are counted with them.   *)
Accepting ==
  {w \in Worker : pc[w] = "respond" /\ Req(w).type = "PRIVATE_MSG_REQ" /\ result[w]}

Lost == {n \in Confirmed \cup {task[w].n : w \in Accepting} : ~Kept(n)}

LossInv == IsFiniteSet(Lost) /\ Cardinality(Lost) <= faults

LEMMA InitLossInv == Init => LossInv
<1> SUFFICES ASSUME Init  PROVE LossInv
  OBVIOUS
<1>1. Confirmed = {} /\ Accepting = {}  BY DEF Init, Confirmed, Accepting
<1>2. Lost = {}  BY <1>1 DEF Lost
<1>3. faults = 0  BY DEF Init, InitTables
<1> QED  BY <1>2, <1>3, FS_EmptySet DEF LossInv

(* What is in the table or was sent stays there.                           *)
LEMMA KeptStays ==
  ASSUME TypeOK, [Next]_vars, NEW n, Kept(n)  PROVE Kept(n)'
<1>1. MessagesGrow  BY StepType DEF TablesGrow
<1> QED  BY <1>1, SentGrows DEF Kept, MessagesGrow

(* The calls from which a handler of a private message answers.            *)
LEMMA AnswerCameFrom ==
  ASSUME TypeOK, NEW w \in Worker, Run(w), pc'[w] = "respond",
         Req(w)' = Req(w), Req(w).type = "PRIVATE_MSG_REQ"
  PROVE  CheckFriend(w) \/ Deliver(w) \/ StoreMessage(w)
<1>0. pc \in [Worker -> Call \cup {"idle"}]  BY DEF TypeOK, ServerTypeOK
<1>1. PrivateMessage(w) \/ Finish(w) \/ Dequeue(w) \/ pc[w] \notin Calls("PRIVATE_MSG_REQ")
      \/ Respond(w)
  BY DEF Run, Login, HandleFriendRequest, FriendRequestAction, PrivateMessage, InDb, Calls,
     handlePacket, RegisterUser, UpdateUser, DeleteUser, EraseDeleted, Logout, VerifyUser,
     GoOnline, LoginResp, LoadOffline, MarkDelivered, PushOffline, SelfRequest,
     CheckPending, InsertRequest, UpdateStatus, AddFriend1, AddFriend2, DeleteFriend,
     SetBlocked, List, CreateGroup, JoinGroup, LockTwice, Drop
<1>2. ~Finish(w)  BY FinishLocals
<1>3. ~Dequeue(w)
  BY <1>0, FirstCall DEF Dequeue, Goto
<1>4. ~Respond(w)
  BY <1>0, <1>2 DEF Respond, Goto
<1>5. pc[w] \in Calls("PRIVATE_MSG_REQ") \/ Dequeue(w)
  <2>1. pc[w] = "idle" => Dequeue(w)
    BY DEF Run, Login, HandleFriendRequest, FriendRequestAction, PrivateMessage, InDb,
       Respond, Drop, List, RegisterUser, UpdateUser, DeleteUser, EraseDeleted, Logout,
       VerifyUser, GoOnline, LoginResp, LoadOffline, MarkDelivered, PushOffline,
       SelfRequest, CheckPending, InsertRequest, UpdateStatus, AddFriend1, AddFriend2,
       DeleteFriend, SetBlocked, CheckFriend, Deliver, StoreMessage, CreateGroup,
       JoinGroup, LockTwice
  <2> QED  BY <2>1 DEF TypeOK, WorkerTypeOK
<1> QED  BY <1>1, <1>2, <1>3, <1>4, <1>5 DEF PrivateMessage

(* A handler that answers keeps its task.                                  *)
LEMMA AnsweringKeepsTask ==
  ASSUME TypeOK, NEW v \in Worker, Run(v), pc'[v] = "respond"
  PROVE  task'[v] = task[v]
<1>1. CASE Dequeue(v)
  BY <1>1, FirstCall DEF Dequeue, Goto, TypeOK, ServerTypeOK
<1>2. CASE ~Dequeue(v)
  <2>1. ~Finish(v)  BY FinishLocals
  <2> QED
    BY <1>2, <2>1
    DEF Run, Login, HandleFriendRequest, FriendRequestAction, PrivateMessage, Respond,
        Drop, List, RegisterUser, UpdateUser, DeleteUser, EraseDeleted, Logout,
        VerifyUser, GoOnline, LoginResp, LoadOffline, MarkDelivered, PushOffline,
        SelfRequest, CheckPending, InsertRequest, UpdateStatus, AddFriend1, AddFriend2,
        DeleteFriend, SetBlocked, CheckFriend, Deliver, StoreMessage, CreateGroup,
        JoinGroup, LockTwice, DbCallOnly
<1> QED  BY <1>1, <1>2

(* The steps that send an answer to a private message.                     *)
LEMMA AcceptedSent ==
  ASSUME TypeOK, NEW w \in Worker, Run(w), NEW d \in sent', d \notin sent,
         d.type = "PRIVATE_MSG_RESP", d.ok, d.body = {}
  PROVE  /\ pc[w] = "respond" /\ Req(w).type = "PRIVATE_MSG_REQ" /\ result[w]
         /\ d.n = task[w].n
<1>1. CASE UNCHANGED sent  BY <1>1
<1>2. CASE Respond(w)
  <2>1. d = Datagram(Req(w).addr, task[w].n, Response(Req(w).type), result[w], {})
    BY <1>2 DEF Respond, Send
  <2>2. Response(Req(w).type) = "PRIVATE_MSG_RESP" /\ result[w] /\ d.n = task[w].n
    BY <2>1 DEF Datagram
  <2>3. task[w] \in Task /\ pc[w] = "respond"
    BY <1>2 DEF Respond, TypeOK, WorkerTypeOK
  <2>4. Req(w).type = "PRIVATE_MSG_REQ"
    <3>1. Req(w) \in Request  BY <2>3 DEF Req, Task
    <3>2. Req(w).type \in {"REGISTER_REQ", "LOGIN_REQ", "UPDATE_USER_REQ", "LOGOUT_REQ",
            "DELETE_USER_REQ", "FRIEND_LIST_REQ", "FRIEND_REQUEST_LIST_REQ",
            "FRIEND_REQUEST_REQ", "DELETE_FRIEND_REQ", "BLOCK_USER_REQ",
            "UNBLOCK_USER_REQ", "CHAT_HISTORY_REQ", "PRIVATE_MSG_REQ",
            "FRIEND_REQUEST_ACTION_REQ", "CREATE_GROUP_REQ", "JOIN_GROUP_REQ", "GROUP_MSG"}
      BY <3>1 DEF Request
    <3>3. Req(w).type # "GROUP_MSG"  BY <2>3, CallType DEF TypeOK, WorkerTypeOK
    <3> QED  BY <2>2, <3>2, <3>3 DEF Response
  <2> QED  BY <2>2, <2>3, <2>4
<1>3. CASE LoginResp(w)
  <2>1. Req(w).type = "LOGIN_REQ"  BY <1>3, AtCall, CallType DEF LoginResp
  <2> QED  BY <1>3, <2>1 DEF LoginResp, Send, Datagram, Response
<1>4. CASE List(w)
  <2>1. Req(w).type \in {"FRIEND_REQUEST_LIST_REQ", "FRIEND_LIST_REQ", "CHAT_HISTORY_REQ"}
    BY <1>4, AtCall, CallType DEF List, InDb
  <2> QED  BY <1>4, <2>1 DEF List, Send, Datagram, Response
<1>5. CASE PushOffline(w)
  BY <1>5 DEF PushOffline, Datagram
<1>6. CASE Deliver(w)
  <2>1. \E to : d = Datagram(to, task[w].n, "PRIVATE_MSG_RESP", TRUE, {<<task[w].n>>})
    BY <1>6 DEF Deliver
  <2>2. d.body = {<<task[w].n>>}  BY <2>1 DEF Datagram
  <2>3. <<task[w].n>> \in d.body  BY <2>2
  <2> QED  BY <2>3
<1>7. UNCHANGED sent \/ Respond(w) \/ LoginResp(w) \/ List(w) \/ PushOffline(w) \/ Deliver(w)
  BY DEF Run, Login, HandleFriendRequest, FriendRequestAction, PrivateMessage, Dequeue,
     Drop, RegisterUser, UpdateUser, DeleteUser, EraseDeleted, Logout, VerifyUser, GoOnline,
     LoadOffline, MarkDelivered, SelfRequest, CheckPending, InsertRequest, UpdateStatus,
     AddFriend1, AddFriend2, DeleteFriend, SetBlocked, CheckFriend, StoreMessage,
     CreateGroup, JoinGroup, LockTwice, DbCallOnly
<1> QED  BY <1>1, <1>2, <1>3, <1>4, <1>5, <1>6, <1>7

-----------------------------------------------------------------------------
(* A handler that comes to its answer has sent the message, has stored it, *)
(* or was failed by the statement.                                         *)
LEMMA StepAccepting ==
  ASSUME TypeOK, [Next]_vars, NEW w \in Worker, Run(w),
         NEW v \in Worker, pc'[v] = "respond", task'[v].req.type = "PRIVATE_MSG_REQ",
         result'[v]
  PROVE  \/ v \in Accepting /\ task'[v] = task[v]
         \/ Kept(task[v].n)'
         \/ faults' = faults + 1 /\ v = w /\ task'[w] = task[w]
<1>1. CASE v # w
  BY <1>1, StepLocals DEF LocalsKeep, OthersKeep, Accepting, Req
<1>2. CASE v = w
  <2>0. task'[w] = task[w]  BY <1>2, AnsweringKeepsTask
  <2>1. CheckFriend(w) \/ Deliver(w) \/ StoreMessage(w)
    BY <1>2, <2>0, AnswerCameFrom DEF Req
  <2>2. CASE CheckFriend(w)
    <3>1. Goto(w, "deliver") \/ Answer(w, FALSE)  BY <2>2 DEF CheckFriend
    <3>2. ~result'[w]
      BY <1>2, <3>1 DEF Goto, Answer, TypeOK, ServerTypeOK
    <3> QED  BY <1>2, <3>2
  <2>3. CASE Deliver(w)
    <3> DEFINE to == onlineClients[Req(w).friendId]
               d == Datagram(to, task[w].n, "PRIVATE_MSG_RESP", TRUE, {<<task[w].n>>})
    <3>1. d \in sent'
      BY <1>2, <2>3 DEF Deliver, Goto, TypeOK, ServerTypeOK
    <3>2. d.n = task[w].n /\ d.body = {<<task[w].n>>}  BY DEF Datagram
    <3> HIDE DEF d
    <3> QED  BY <1>2, <2>0, <3>1, <3>2 DEF Kept
  <2>4. CASE StoreMessage(w)
    <3>1. PICK stored \in BOOLEAN :
            storeMessage(Req(w).userId, Req(w).friendId, task[w].n, stored)
      BY <2>4 DEF StoreMessage
    <3>2. CASE ~stored
      BY <1>2, <2>0, <3>1, <3>2 DEF storeMessage, executePrepared
    <3>3. CASE stored
      <4> DEFINE row == [sender |-> Req(w).userId, receiver |-> Req(w).friendId,
                         content |-> task[w].n, delivered |-> FALSE]
      <4>1. row.content = task[w].n  OBVIOUS
      <4> HIDE DEF row
      <4>2. messages' = Append(messages, row)
        BY <3>1, <3>3 DEF storeMessage, row
      <4>3. messages \in Seq(Message)  BY DEF TypeOK, DatabaseTypeOK
      <4>4. Len(messages) + 1 \in DOMAIN messages' /\ messages'[Len(messages) + 1] = row
        BY <4>2, <4>3
      <4> QED  BY <1>2, <2>0, <4>1, <4>4 DEF Kept
    <3> QED  BY <3>2, <3>3
  <2> QED  BY <2>1, <2>2, <2>3, <2>4
<1> QED  BY <1>1, <1>2

(* Who is told of success now was about to be told.                        *)
LEMMA StepAccepted ==
  ASSUME TypeOK, [Next]_vars, NEW n \in Confirmed'
  PROVE  n \in Confirmed \cup {task[w].n : w \in Accepting}
<1>1. PICK d \in sent' : d.n = n /\ d.type = "PRIVATE_MSG_RESP" /\ d.ok /\ d.body = {}
  BY DEF Confirmed
<1>2. CASE d \in sent  BY <1>1, <1>2 DEF Confirmed
<1>3. CASE d \notin sent
  <2>1. PICK w \in Worker : Run(w)
    BY <1>3 DEF Next, Quiet, Receive, Crash, vars
  <2>2. w \in Accepting /\ d.n = task[w].n
    BY <1>1, <1>3, <2>1, AcceptedSent DEF Accepting
  <2> QED  BY <1>1, <2>2
<1> QED  BY <1>2, <1>3

(* A step loses nothing, or one message to one failed statement.           *)
LEMMA StepLost ==
  ASSUME TypeOK, [Next]_vars
  PROVE  \/ Lost' \subseteq Lost
         \/ \E x : faults' = faults + 1 /\ Lost' \subseteq Lost \cup {x}
<1> DEFINE Named == Confirmed \cup {task[w].n : w \in Accepting}
<1>1. ASSUME NEW n \in Lost', n \in Named  PROVE n \in Lost
  <2>1. ~Kept(n)'  BY <1>1 DEF Lost
  <2>2. ~Kept(n)  BY <2>1, KeptStays
  <2> QED  BY <1>1, <2>2 DEF Lost
<1>2. ASSUME NEW n \in Lost'
      PROVE  n \in Lost \/ \E v \in Accepting' : n = task'[v].n
  <2>1. CASE n \in Confirmed'
    <3>1. n \in Named  BY <2>1, StepAccepted
    <3> QED  BY <1>1, <3>1
  <2>2. CASE n \notin Confirmed'  BY <1>2, <2>2 DEF Lost
  <2> QED  BY <2>1, <2>2
<1>3. \A n \in Lost' : ~Kept(n)'  BY DEF Lost
<1>4. ASSUME NEW w \in Worker, Run(w)
      PROVE  \/ Lost' \subseteq Lost
             \/ faults' = faults + 1 /\ Lost' \subseteq Lost \cup {task[w].n}
  <2>1. ASSUME NEW v \in Accepting'
        PROVE  \/ task'[v].n \in Named
               \/ Kept(task[v].n)'
               \/ faults' = faults + 1 /\ task'[v].n = task[w].n
    <3>1. /\ v \in Worker /\ pc'[v] = "respond" /\ task'[v].req.type = "PRIVATE_MSG_REQ"
          /\ result'[v]
      BY DEF Accepting, Req
    <3>2. \/ v \in Accepting /\ task'[v] = task[v]
          \/ Kept(task[v].n)'
          \/ faults' = faults + 1 /\ v = w /\ task'[w] = task[w]
      BY <1>4, <3>1, StepAccepting
    <3> QED  BY <3>2
  <2> HIDE DEF Named
  <2>2. ASSUME NEW n \in Lost', n \notin Lost
        PROVE  faults' = faults + 1 /\ n = task[w].n
    <3>1. PICK v \in Accepting' : n = task'[v].n  BY <1>2, <2>2
    <3>2. n \notin Named  BY <1>1, <2>2
    <3>3. ~Kept(task[v].n)'
      <4>1. ~Kept(n)'  BY <1>3, <2>2
      <4> QED  BY <3>1, <4>1 DEF Kept
    <3> QED  BY <2>1, <3>1, <3>2, <3>3
  <2> QED  BY <2>2
<1>5. CASE Crash \/ UNCHANGED vars \/ \E r \in Requests : Receive(r)
  <2>1. \A v \in Accepting' : v \in Accepting /\ task'[v].n = task[v].n
    BY <1>5 DEF Crash, vars, Receive, Accepting, Req
  <2> QED  BY <1>1, <1>2, <2>1
<1> QED  BY <1>4, <1>5 DEF Next, Quiet

LEMMA StepLossInv ==
  ASSUME TypeOK, LossInv, [Next]_vars  PROVE LossInv'
<1>1. /\ faults \in Nat /\ faults' \in Nat /\ faults <= faults'
      /\ IsFiniteSet(Lost) /\ Cardinality(Lost) <= faults /\ Cardinality(Lost) \in Nat
  BY FaultsStay, FS_CardinalityType DEF LossInv
<1>2. CASE Lost' \subseteq Lost
  <2>1. IsFiniteSet(Lost') /\ Cardinality(Lost') <= Cardinality(Lost)
    BY <1>1, <1>2, FS_Subset
  <2>2. Cardinality(Lost') \in Nat  BY <2>1, FS_CardinalityType
  <2>3. Cardinality(Lost') <= faults'  BY <1>1, <2>1, <2>2
  <2> QED  BY <2>1, <2>3 DEF LossInv
<1>3. ASSUME NEW x, faults' = faults + 1, Lost' \subseteq Lost \cup {x}  PROVE LossInv'
  <2>1. /\ IsFiniteSet(Lost \cup {x})
        /\ Cardinality(Lost \cup {x}) <= Cardinality(Lost) + 1
    BY <1>1, FS_AddElement
  <2>2. IsFiniteSet(Lost') /\ Cardinality(Lost') <= Cardinality(Lost \cup {x})
    BY <1>3, <2>1, FS_Subset
  <2>3. Cardinality(Lost') \in Nat /\ Cardinality(Lost \cup {x}) \in Nat
    BY <2>1, <2>2, FS_CardinalityType
  <2>4. Cardinality(Lost') <= faults'  BY <1>1, <1>3, <2>1, <2>2, <2>3
  <2> QED  BY <2>2, <2>4 DEF LossInv
<1> QED  BY <1>2, <1>3, StepLost

(* Success is answered only for a message that was sent to an address or   *)
(* has a row, but for one message to each failed statement: whatever       *)
(* kills, logins and logouts come between the check, the delivery and the  *)
(* answer (handlePrivateMessage).                                          *)
THEOREM AcceptedNeverLost == Spec => []AcceptedNotLost
<1>1. TypeOK /\ LossInv => AcceptedNotLost
  <2> SUFFICES ASSUME TypeOK, LossInv  PROVE AcceptedNotLost
    OBVIOUS
  <2> DEFINE told == {n \in Confirmed : ~Kept(n)}
  <2>1. told \subseteq Lost  BY DEF Lost
  <2>2. IsFiniteSet(Lost) /\ Cardinality(Lost) <= faults /\ faults \in Nat
    BY DatabaseAssumption DEF LossInv, TypeOK, DatabaseTypeOK
  <2>3. IsFiniteSet(told) /\ Cardinality(told) <= Cardinality(Lost)
    BY <2>1, <2>2, FS_Subset
  <2>4. Cardinality(told) \in Nat /\ Cardinality(Lost) \in Nat
    BY <2>2, <2>3, FS_CardinalityType
  <2>5. Cardinality(told) <= faults  BY <2>2, <2>3, <2>4
  <2> QED  BY <2>5 DEF AcceptedNotLost
<1>2. Init => TypeOK /\ LossInv  BY InitTypeOK, InitLossInv
<1>3. TypeOK /\ LossInv /\ [Next]_vars => (TypeOK /\ LossInv)'
  BY StepType, StepLossInv
<1> QED  BY <1>1, <1>2, <1>3, PTL DEF Spec

-----------------------------------------------------------------------------
(* The texts that were pushed or stored, and the calls of a handler that   *)
(* has one still to push or to store.                                      *)
Handled == PushedTexts \cup Contents(FALSE) \cup Contents(TRUE)

TextCall == {"getFriends", "deliver", "storeMessage"}

(* Mailbox needs to know that no number comes back: a text is pushed or    *)
(* stored by the handler of its request alone, which has not done it yet.  *)
TextInv ==
  /\ Handled \subseteq 1..Started
  /\ \A w \in Worker : pc[w] \in TextCall => task[w].n \notin Handled
  /\ \A k, m \in DOMAIN messages : messages[k].content = messages[m].content => k = m

LEMMA InContents ==
  ASSUME NEW b \in BOOLEAN, NEW n
  PROVE  n \in Contents(b) <=>
           \E m \in DOMAIN messages : messages[m].delivered = b /\ messages[m].content = n
BY DEF Contents

LEMMA InTable ==
  ASSUME TypeOK, NEW n
  PROVE  n \in Contents(FALSE) \cup Contents(TRUE) <=>
           \E m \in DOMAIN messages : messages[m].content = n
<1>1. ASSUME NEW m \in DOMAIN messages  PROVE messages[m].delivered \in BOOLEAN
  <2>1. messages[m] \in Message  BY DEF TypeOK, DatabaseTypeOK
  <2> QED  BY <2>1 DEF Message
<1> QED  BY <1>1 DEF Contents

(* What a step of w changes of the texts.                                  *)
LEMMA StoreStep ==
  ASSUME TypeOK, NEW w \in Worker, StoreMessage(w)
  PROVE  /\ PushedTexts' = PushedTexts /\ ListedTexts' = ListedTexts
         /\ pc[w] = "storeMessage" /\ pc'[w] = "respond"
         /\ \/ messages' = messages
            \/ \E row : /\ messages' = Append(messages, row)
                       /\ row \in Message /\ row.content = task[w].n /\ ~row.delivered
<1>1. UNCHANGED sent /\ pc[w] = "storeMessage" /\ pc'[w] = "respond"
  BY DEF StoreMessage, InDb, Answer, Goto, TypeOK, ServerTypeOK
<1>2. PICK stored \in BOOLEAN :
        storeMessage(Req(w).userId, Req(w).friendId, task[w].n, stored)
  BY DEF StoreMessage
<1> DEFINE row == [sender |-> Req(w).userId, receiver |-> Req(w).friendId,
                   content |-> task[w].n, delivered |-> FALSE]
<1>3. messages' = messages \/ messages' = Append(messages, row)
  BY <1>2 DEF storeMessage
<1>4. Req(w).userId \in UserId /\ Req(w).friendId \in UserId /\ task[w].n \in Nat
  BY <1>1, AtCall, CallType, RequestFields
<1>5. row \in Message /\ row.content = task[w].n /\ ~row.delivered  BY <1>4 DEF Message
<1> HIDE DEF row
<1>6. PushedTexts' = PushedTexts /\ ListedTexts' = ListedTexts
  BY <1>1 DEF PushedTexts, ListedTexts
<1> QED  BY <1>1, <1>3, <1>5, <1>6

LEMMA MarkStep ==
  ASSUME TypeOK, NEW w \in Worker, MarkDelivered(w)
  PROVE  /\ PushedTexts' = PushedTexts /\ ListedTexts' = ListedTexts
         /\ \/ messages' = messages
            \/ \E m \in DOMAIN messages :
                 messages' = [messages EXCEPT ![m].delivered = TRUE]
<1>1. UNCHANGED sent /\ inbox[w] \subseteq DOMAIN messages
  BY DEF MarkDelivered, TypeOK, WorkerTypeOK
<1>2. \E m \in inbox[w], ok \in BOOLEAN : markDelivered(m, ok)  BY DEF MarkDelivered
<1>3. \/ messages' = messages
      \/ \E m \in DOMAIN messages : messages' = [messages EXCEPT ![m].delivered = TRUE]
  BY <1>1, <1>2 DEF markDelivered
<1>4. PushedTexts' = PushedTexts /\ ListedTexts' = ListedTexts
  BY <1>1 DEF PushedTexts, ListedTexts
<1> QED  BY <1>3, <1>4

LEMMA MarkedRows ==
  ASSUME TypeOK, NEW m \in DOMAIN messages, messages' = [messages EXCEPT ![m].delivered = TRUE]
  PROVE  /\ DOMAIN messages' = DOMAIN messages
         /\ \A k \in DOMAIN messages : messages'[k].content = messages[k].content
         /\ \A k \in DOMAIN messages : k # m => messages'[k] = messages[k]
         /\ messages'[m].delivered = TRUE
         /\ messages[m].delivered => messages' = messages
<1>1. messages \in Seq(Message) /\ messages[m] \in Message
  BY DEF TypeOK, DatabaseTypeOK
<1>2. ASSUME messages[m].delivered  PROVE messages' = messages
  <2>1. [messages[m] EXCEPT !.delivered = TRUE] = messages[m]
    BY <1>1, <1>2 DEF Message
  <2> QED  BY <1>1, <2>1
<1> QED  BY <1>1, <1>2 DEF Message

LEMMA DeliverStep ==
  ASSUME TypeOK, NEW w \in Worker, Deliver(w)
  PROVE  /\ messages' = messages /\ ListedTexts' = ListedTexts /\ pc[w] = "deliver"
         /\ \/ PushedTexts' = PushedTexts
            \/ PushedTexts' = PushedTexts \cup {task[w].n} /\ pc'[w] = "respond"
<1>1. messages' = messages /\ pc[w] = "deliver"  BY DEF Deliver, tables
<1>2. CASE UNCHANGED sent  BY <1>1, <1>2 DEF PushedTexts, ListedTexts
<1>3. ASSUME NEW to, pc'[w] = "respond",
             sent' = sent \cup {Datagram(to, task[w].n, "PRIVATE_MSG_RESP", TRUE, {<<task[w].n>>})}
      PROVE  ListedTexts' = ListedTexts /\ PushedTexts' = PushedTexts \cup {task[w].n}
  <2> DEFINE d == Datagram(to, task[w].n, "PRIVATE_MSG_RESP", TRUE, {<<task[w].n>>})
  <2>1. d.n = task[w].n /\ d.type = "PRIVATE_MSG_RESP" /\ <<task[w].n>> \in d.body
    BY DEF Datagram
  <2>2. sent' = sent \cup {d}  BY <1>3
  <2> HIDE DEF d
  <2>3. d.body # {} /\ d.type # "OFFLINE_MSG_LIST_RESP"  BY <2>1
  <2> QED  BY <2>1, <2>2, <2>3 DEF PushedTexts, ListedTexts
<1>4. \/ UNCHANGED sent
      \/ \E to : /\ pc'[w] = "respond"
                 /\ sent' = sent \cup
                      {Datagram(to, task[w].n, "PRIVATE_MSG_RESP", TRUE, {<<task[w].n>>})}
  BY DEF Deliver, Answer, Goto, TypeOK, ServerTypeOK
<1> QED  BY <1>1, <1>2, <1>3, <1>4

LEMMA ListStep ==
  ASSUME TypeOK, NEW w \in Worker, PushOffline(w)
  PROVE  /\ messages' = messages /\ PushedTexts' = PushedTexts
         /\ ListedTexts' = ListedTexts \cup {entry[2] : entry \in payload[w]}
<1> DEFINE d == Datagram(Req(w).addr, task[w].n, "OFFLINE_MSG_LIST_RESP", TRUE, payload[w])
<1>1. messages' = messages /\ sent' = sent \cup {d}  BY DEF PushOffline, tables
<1>2. d.type = "OFFLINE_MSG_LIST_RESP" /\ d.body = payload[w]  BY DEF Datagram
<1> HIDE DEF d
<1>3. PushedTexts' = PushedTexts  BY <1>1, <1>2 DEF PushedTexts
<1> DEFINE Lists(S) == UNION {e.body : e \in {x \in S : x.type = "OFFLINE_MSG_LIST_RESP"}}
<1>4. Lists(sent') = Lists(sent) \cup payload[w]  BY <1>1, <1>2
<1>5. /\ ListedTexts = {entry[2] : entry \in Lists(sent)}
      /\ ListedTexts' = {entry[2] : entry \in Lists(sent')}
  BY DEF ListedTexts
<1> HIDE DEF Lists
<1> QED  BY <1>1, <1>3, <1>4, <1>5

LEMMA OtherStep ==
  ASSUME TypeOK, [Next]_vars, NEW w \in Worker, Run(w),
         ~StoreMessage(w), ~MarkDelivered(w), ~Deliver(w), ~PushOffline(w)
  PROVE  messages' = messages /\ PushedTexts' = PushedTexts /\ ListedTexts' = ListedTexts
<1>1. sent \subseteq sent'  BY SentGrows
<1>2. \A d \in sent' : d \in sent \/ IsAnswer(d)  BY SentBy
<1>3. messages' = messages
  BY DEF Run, Login, HandleFriendRequest, FriendRequestAction, PrivateMessage, tables,
     DbCallOnly, Dequeue, Drop, Respond, RegisterUser, registerUser, UpdateUser, updateUser,
     DeleteUser, deleteUser, EraseDeleted, Logout, VerifyUser, GoOnline, LoginResp,
     LoadOffline, SelfRequest, CheckPending, InsertRequest, insertFriendRequest,
     UpdateStatus, updateRequestStatus, AddFriend1, AddFriend2, addFriend, DeleteFriend,
     deleteFriend, SetBlocked, setBlocked, List, CheckFriend, CreateGroup, JoinGroup, LockTwice,
     selectRows, selectFound
<1> QED  BY <1>1, <1>2, <1>3 DEF PushedTexts, ListedTexts, IsAnswer

(* A handler comes to these calls with its task from another of them, or   *)
(* with a task that it takes.                                              *)
LEMMA TextCallFrom ==
  ASSUME TypeOK, [Next]_vars, NEW w \in Worker, Run(w), pc'[w] \in TextCall
  PROVE  (pc[w] \in TextCall /\ task'[w] = task[w]) \/ Dequeue(w)
<1>0. pc \in [Worker -> Call \cup {"idle"}]  BY DEF TypeOK, ServerTypeOK
<1>1. ASSUME ~Dequeue(w), pc'[w] = "getFriends"  PROVE FALSE
  BY <1>0, <1>1, FinishLocals
  DEF Run, Login, HandleFriendRequest, FriendRequestAction, PrivateMessage, Answer, Goto, InDb,
      Drop, Respond, RegisterUser, UpdateUser, DeleteUser, EraseDeleted, Logout, VerifyUser,
      GoOnline, LoginResp, LoadOffline, MarkDelivered, PushOffline, SelfRequest, CheckPending,
      InsertRequest, UpdateStatus, AddFriend1, AddFriend2, DeleteFriend, SetBlocked, List,
      CheckFriend, Deliver, StoreMessage, CreateGroup, JoinGroup, LockTwice
<1>2. ASSUME pc'[w] = "deliver"  PROVE pc[w] \in TextCall /\ task'[w] = task[w]
  BY <1>2, StepCameFrom DEF CameFrom, CheckFriend, InDb, TextCall
<1>3. ASSUME pc'[w] = "storeMessage"  PROVE pc[w] \in TextCall /\ task'[w] = task[w]
  BY <1>3, StepCameFrom DEF CameFrom, Deliver, TextCall
<1> QED  BY <1>1, <1>2, <1>3 DEF TextCall

LEMMA HandledStep ==
  ASSUME TypeOK, [Next]_vars, NEW w \in Worker, Run(w)
  PROVE  \/ Handled' \subseteq Handled
         \/ /\ Handled' \subseteq Handled \cup {task[w].n}
            /\ pc[w] \in TextCall /\ pc'[w] = "respond"
<1>0. TypeOK' /\ messages \in Seq(Message)  BY StepType DEF TypeOK, DatabaseTypeOK
<1> DEFINE InRow(n) == \E m \in DOMAIN messages : messages[m].content = n
<1>1. ASSUME NEW n
      PROVE  /\ n \in Handled <=> n \in PushedTexts \/ InRow(n)
             /\ n \in Handled' <=> n \in PushedTexts' \/ InRow(n)'
  BY <1>0, InTable DEF Handled, Contents
<1>2. CASE StoreMessage(w)
  <2>1. ASSUME NEW row, messages' = Append(messages, row), row \in Message,
               row.content = task[w].n, NEW n, InRow(n)'
        PROVE  InRow(n) \/ n = task[w].n
    BY <1>0, <2>1
  <2> QED  BY <1>1, <1>2, <2>1, StoreStep DEF TextCall
<1>3. CASE MarkDelivered(w)
  <2>1. ASSUME NEW n, InRow(n)'  PROVE InRow(n)
    BY <1>3, <2>1, MarkStep, MarkedRows
  <2> QED  BY <1>1, <1>3, <2>1, MarkStep
<1>4. CASE Deliver(w)
  BY <1>1, <1>4, DeliverStep DEF TextCall
<1>5. CASE PushOffline(w)
  BY <1>1, <1>5, ListStep
<1>6. CASE ~StoreMessage(w) /\ ~MarkDelivered(w) /\ ~Deliver(w) /\ ~PushOffline(w)
  BY <1>1, <1>6, OtherStep
<1> QED  BY <1>2, <1>3, <1>4, <1>5, <1>6

LEMMA StepTextInv ==
  ASSUME TypeOK, Numbered, TextInv, [Next]_vars  PROVE TextInv'
<1>0. messages \in Seq(Message)  BY DEF TypeOK, DatabaseTypeOK
<1>1. ASSUME NEW w \in Worker, Run(w)  PROVE TextInv'
  <2>0. pc[w] # "idle" => task[w].n \in 1..Started  BY DEF Numbered
  <2>1. Started \in Nat /\ Started' \in Nat /\ Started <= Started'
        /\ (Dequeue(w) => Started' = Started + 1 /\ task'[w].n = Started + 1)
    <3>1. received \in Nat /\ Len(tasks) \in Nat /\ Len(tasks) <= received
          /\ task \in [Worker -> Task \cup {NoTask}]
      BY DEF TypeOK, ServerTypeOK, Numbered, QueueInv
    <3>2. CASE Dequeue(w)
      BY <3>1, <3>2, DequeueQueue DEF Numbered, Started
    <3>3. CASE ~Dequeue(w)
      BY <1>1, <3>1, <3>3, RunQueue DEF queue, Started
    <3> QED  BY <3>2, <3>3
  <2>2. Handled' \subseteq 1..Started'
    <3>1. \A n : n \in 1..Started => n \in 1..Started'  BY <2>1
    <3> QED  BY <1>1, <2>0, <3>1, HandledStep DEF TextInv, TextCall
  <2>3. ASSUME NEW v \in Worker, pc'[v] \in TextCall  PROVE task'[v].n \notin Handled'
    <3>1. CASE v # w
      <4>1. pc'[v] = pc[v] /\ task'[v] = task[v]
        BY <1>1, <3>1, StepLocals DEF LocalsKeep, OthersKeep
      <4>2. task[v].n \notin Handled  BY <2>3, <4>1 DEF TextInv
      <4>3. pc[w] # "idle" => task[v].n # task[w].n
        BY <2>3, <3>1, <4>1 DEF Numbered, TextCall
      <4> QED  BY <1>1, <4>1, <4>2, <4>3, HandledStep DEF TextCall
    <3>2. CASE v = w
      <4>1. Handled' \subseteq Handled
        BY <1>1, <2>3, <3>2, HandledStep DEF TextCall
      <4>2. CASE pc[w] \in TextCall /\ task'[w] = task[w]
        BY <3>2, <4>1, <4>2 DEF TextInv
      <4>3. CASE Dequeue(w)
        <5>1. task'[w].n \notin 1..Started  BY <2>1, <4>3
        <5> QED  BY <3>2, <4>1, <5>1 DEF TextInv
      <4> QED  BY <1>1, <2>3, <3>2, <4>2, <4>3, TextCallFrom
    <3> QED  BY <3>1, <3>2
  <2>4. ASSUME NEW k \in DOMAIN messages', NEW m \in DOMAIN messages',
               messages'[k].content = messages'[m].content
        PROVE  k = m
    <3>1. CASE messages' = messages  BY <2>4, <3>1 DEF TextInv
    <3>2. CASE StoreMessage(w)
      <4>1. task[w].n \notin Handled  BY <3>2, StoreStep DEF TextInv, TextCall
      <4>2. \A i \in DOMAIN messages : messages[i].content # task[w].n
        BY <4>1, InTable DEF Handled
      <4>3. ASSUME NEW row, messages' = Append(messages, row), row \in Message,
                   row.content = task[w].n
            PROVE  k = m
        BY <1>0, <2>4, <4>2, <4>3 DEF TextInv
      <4> QED  BY <3>1, <3>2, <4>3, StoreStep
    <3>3. ASSUME NEW i \in DOMAIN messages,
                 messages' = [messages EXCEPT ![i].delivered = TRUE]
          PROVE  k = m
      BY <2>4, <3>3, MarkedRows DEF TextInv
    <3> QED  BY <1>1, <3>1, <3>2, <3>3, MarkStep, DeliverStep, ListStep, OtherStep
  <2> QED  BY <2>2, <2>3, <2>4 DEF TextInv
<1>2. CASE Crash \/ UNCHANGED vars \/ \E r \in Requests : Receive(r)
  <2>1. /\ messages' = messages /\ sent' = sent
        /\ \A w \in Worker : pc'[w] \in TextCall => pc'[w] = pc[w] /\ task'[w] = task[w]
    BY <1>2 DEF Crash, vars, tables, Receive, TextCall
  <2>2. Handled' = Handled
    BY <2>1 DEF Handled, PushedTexts, Contents
  <2>3. \A n \in 1..Started : n \in 1..Started'
    <3>1. /\ received \in Nat /\ Len(tasks) \in Nat /\ Len(tasks) <= received
          /\ QueueInv
      BY DEF TypeOK, ServerTypeOK, Numbered, QueueInv
    <3>2. CASE Crash
      BY <3>1, <3>2 DEF Crash, Started
    <3>3. ASSUME NEW r \in Requests, Receive(r)  PROVE Started' = Started
      BY <3>1, <3>3, ReceiveQueue DEF Started
    <3>4. CASE UNCHANGED vars
      BY <3>4 DEF vars, queue, Started
    <3> QED  BY <1>2, <3>2, <3>3, <3>4
  <2> QED  BY <2>1, <2>2, <2>3 DEF TextInv
<1> QED  BY <1>1, <1>2 DEF Next, Quiet

LEMMA InitTextInv == Init => TextInv
<1> SUFFICES ASSUME Init  PROVE TextInv
  OBVIOUS
<1>1. sent = {} /\ messages = <<>> /\ \A w \in Worker : pc[w] = "idle"
  BY DEF Init, InitTables
<1>2. Handled = {}  BY <1>1 DEF Handled, PushedTexts, Contents
<1> QED  BY <1>1, <1>2 DEF TextInv, TextCall

-----------------------------------------------------------------------------
(* Every step of the server is one of Mailbox, or changes no text.         *)
LEMMA StepMailbox ==
  ASSUME TypeOK, ListedOwn, Numbered, TextInv, [Next]_vars  PROVE [Mail!Next]_(Mail!vars)
<1> USE DEF Mail!vars
<1>0. /\ messages \in Seq(Message) /\ received \in Nat /\ Len(tasks) \in Nat
      /\ received <= MaxRequests /\ MaxRequests \in Nat
  BY ServerAssumption DEF TypeOK, DatabaseTypeOK, ServerTypeOK, Numbered
<1>1. \A n \in 1..Started : n \in 1..MaxRequests  BY <1>0 DEF Started
<1>2. CASE messages' = messages /\ PushedTexts' = PushedTexts /\ ListedTexts' = ListedTexts
  BY <1>2 DEF Contents
<1>3. ASSUME NEW w \in Worker, Deliver(w), messages' = messages, ListedTexts' = ListedTexts,
             PushedTexts' = PushedTexts \cup {task[w].n}
      PROVE  \E n \in 1..MaxRequests : Mail!Push(n)
  <2>1. pc[w] = "deliver" /\ task[w].n \in 1..Started
    BY <1>3, DeliverStep DEF Numbered
  <2>2. task[w].n \notin Handled  BY <2>1 DEF TextInv, TextCall
  <2>3. Mail!Push(task[w].n)
    BY <1>3, <2>2 DEF Mail!Push, Mail!Taken, Handled, Contents
  <2> QED  BY <1>1, <2>1, <2>3
<1>4. ASSUME NEW w \in Worker, StoreMessage(w), NEW row, messages' = Append(messages, row),
             row \in Message, row.content = task[w].n, ~row.delivered
      PROVE  \E n \in 1..MaxRequests : Mail!Store(n)
  <2>1. /\ pc[w] = "storeMessage" /\ task[w].n \in 1..Started
        /\ PushedTexts' = PushedTexts /\ ListedTexts' = ListedTexts
    BY <1>4, StoreStep DEF Numbered
  <2>2. task[w].n \notin Handled  BY <2>1 DEF TextInv, TextCall
  <2>3. row.delivered = FALSE  BY <1>4 DEF Message
  <2>4. /\ DOMAIN messages' = DOMAIN messages \cup {Len(messages) + 1}
        /\ messages'[Len(messages) + 1] = row /\ Len(messages) + 1 \notin DOMAIN messages
        /\ \A m \in DOMAIN messages : messages'[m] = messages[m]
    BY <1>0, <1>4
  <2>5. /\ Contents(FALSE)' = Contents(FALSE) \cup {task[w].n}
        /\ Contents(TRUE)' = Contents(TRUE)
    BY <1>4, <2>3, <2>4 DEF Contents
  <2>6. Mail!Store(task[w].n)
    BY <2>1, <2>2, <2>5 DEF Mail!Store, Mail!Taken, Handled
  <2> QED  BY <1>1, <2>1, <2>6
<1>5. ASSUME NEW w \in Worker, MarkDelivered(w), NEW m \in DOMAIN messages,
             messages' = [messages EXCEPT ![m].delivered = TRUE]
      PROVE  messages' = messages \/ \E n \in 1..MaxRequests : Mail!Mark(n)
  <2> DEFINE c == messages[m].content
  <2>1. PushedTexts' = PushedTexts /\ ListedTexts' = ListedTexts  BY <1>5, MarkStep
  <2>2. messages[m] \in Message  BY <1>0
  <2>3. CASE messages[m].delivered  BY <1>5, <2>3, MarkedRows
  <2>4. CASE ~messages[m].delivered
    <3>1. messages[m].delivered = FALSE  BY <2>2, <2>4 DEF Message
    <3>2. /\ DOMAIN messages' = DOMAIN messages
          /\ messages'[m].content = c /\ messages'[m].delivered = TRUE
          /\ \A k \in DOMAIN messages : k # m => messages'[k] = messages[k]
      BY <1>5, MarkedRows
    <3>3. \A k \in DOMAIN messages : messages[k].content = c => k = m  BY DEF TextInv
    <3>4. c \in Contents(FALSE)  BY <3>1 DEF Contents
    <3>5. Contents(FALSE)' = Contents(FALSE) \ {c}
      BY <3>1, <3>2, <3>3 DEF Contents
    <3>6. Contents(TRUE)' = Contents(TRUE) \cup {c}
      BY <3>1, <3>2 DEF Contents
    <3>7. c \in 1..Started  BY <3>4 DEF TextInv, Handled
    <3>8. Mail!Mark(c)  BY <2>1, <3>4, <3>5, <3>6 DEF Mail!Mark
    <3> QED  BY <1>1, <3>7, <3>8
  <2> QED  BY <2>3, <2>4
<1>6. ASSUME NEW w \in Worker, PushOffline(w)
      PROVE  \E S \in SUBSET (Contents(FALSE) \cup Contents(TRUE)) : Mail!List(S)
  <2> DEFINE S == {entry[2] : entry \in payload[w]}
  <2>1. messages' = messages /\ PushedTexts' = PushedTexts /\ ListedTexts' = ListedTexts \cup S
    BY <1>6, ListStep
  <2>2. ASSUME NEW entry \in payload[w]  PROVE entry[2] \in Contents(FALSE) \cup Contents(TRUE)
    <3>1. PICK m \in DOMAIN messages : entry = Entry(m)  BY DEF ListedOwn
    <3> QED  BY <3>1, InTable DEF Entry
  <2>3. S \subseteq Contents(FALSE) \cup Contents(TRUE)  BY <2>2
  <2> HIDE DEF S
  <2>4. Mail!List(S)  BY <2>1 DEF Mail!List, Contents
  <2> QED  BY <2>3, <2>4
<1>7. ASSUME NEW w \in Worker, Run(w)  PROVE [Mail!Next]_(Mail!vars)
  <2>1. CASE StoreMessage(w)
    BY <1>2, <1>4, <2>1, StoreStep DEF Mail!Next
  <2>2. CASE MarkDelivered(w)
    BY <1>2, <1>5, <2>2, MarkStep DEF Mail!Next
  <2>3. CASE Deliver(w)
    BY <1>2, <1>3, <2>3, DeliverStep DEF Mail!Next
  <2>4. CASE PushOffline(w)
    BY <1>6, <2>4 DEF Mail!Next
  <2> QED  BY <1>2, <1>7, <2>1, <2>2, <2>3, <2>4, OtherStep
<1>8. CASE Crash \/ UNCHANGED vars \/ \E r \in Requests : Receive(r)
  <2>1. UNCHANGED <<messages, sent>>
    BY <1>8 DEF Crash, vars, tables, Receive
  <2> QED  BY <1>2, <2>1 DEF PushedTexts, ListedTexts
<1> QED  BY <1>7, <1>8 DEF Next, Quiet

(* Private messages are handled as Mailbox promises: whatever kills,       *)
(* failures, logins and logouts come between, a message is pushed or       *)
(* stored, once, a stored one is marked once and stays, and the offline    *)
(* lists are made of stored ones (handlePrivateMessage, handleLogin).      *)
THEOREM MailboxKept == Spec => KeepsMailbox
<1> DEFINE Inv == AnswersInv /\ InboxOwned /\ ListedOwn /\ TextInv
<1>1. Init => Inv /\ Mail!Init
  <2> SUFFICES ASSUME Init  PROVE Inv /\ Mail!Init
    OBVIOUS
  <2>1. AnswersInv /\ TextInv
    BY InitTypeOK, InitNumbered, InitAnswerInv, InitTextInv DEF AnswersInv
  <2>2. sent = {} /\ messages = <<>> /\ payload = [w \in Worker |-> {}]
    BY DEF Init, InitTables
  <2>3. InboxOwned /\ ListedOwn  BY <2>2, InitMail DEF MailInv, ListedOwn
  <2>4. Mail!Init  BY <2>2 DEF Mail!Init, PushedTexts, ListedTexts, Contents
  <2> QED  BY <2>1, <2>3, <2>4
<1>2. Inv /\ [Next]_vars => Inv' /\ [Mail!Next]_(Mail!vars)
  BY StepType, StepNumbered, StepAnswerInv, StepInboxOwned, StepListedOwn, StepTextInv,
     StepMailbox
  DEF AnswersInv
<1> QED  BY <1>1, <1>2, PTL DEF Spec, KeepsMailbox, Mail!Spec
=============================================================================
