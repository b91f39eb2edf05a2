--------------------------- MODULE ChatServerProofs ---------------------------
(***************************************************************************)
(* Theorems about ChatServer for any number of workers, users, requests,   *)
(* kills and failed statements.                                            *)
(***************************************************************************)
EXTENDS ChatServer, DatabaseProofs

-----------------------------------------------------------------------------
(* Requests and the calls of their handlers.                               *)
LEMMA RequestFields ==
  ASSUME NEW r \in Request
  PROVE  /\ r.addr \in Addr
         /\ r.type \in {"REGISTER_REQ", "LOGIN_REQ", "UPDATE_USER_REQ"}
            => r.name \in Name /\ r.pwd \in Password
         /\ r.type \in {"UPDATE_USER_REQ", "DELETE_USER_REQ",
                        "FRIEND_LIST_REQ", "FRIEND_REQUEST_LIST_REQ",
                        "FRIEND_REQUEST_REQ", "DELETE_FRIEND_REQ", "BLOCK_USER_REQ",
                        "UNBLOCK_USER_REQ", "CHAT_HISTORY_REQ", "PRIVATE_MSG_REQ"}
            => r.userId \in UserId
         /\ r.type \in {"FRIEND_REQUEST_REQ", "DELETE_FRIEND_REQ", "BLOCK_USER_REQ",
                        "UNBLOCK_USER_REQ", "CHAT_HISTORY_REQ", "PRIVATE_MSG_REQ"}
            => r.friendId \in UserId
         /\ r.type = "FRIEND_REQUEST_ACTION_REQ" => r.accept \in BOOLEAN
BY DEF Request

LEMMA CallType ==
  ASSUME NEW type, NEW call \in Calls(type)
  PROVE  /\ call \in Call /\ call # "idle"
         /\ call = "respond"
            => type \notin {"LOGIN_REQ", "FRIEND_LIST_REQ", "FRIEND_REQUEST_LIST_REQ",
                            "CHAT_HISTORY_REQ", "GROUP_MSG"}
         /\ call = "registerUser" => type = "REGISTER_REQ"
         /\ call \in {"verifyUser", "goOnline", "loginResp", "loadOffline",
                      "markDelivered"} => type = "LOGIN_REQ"
         /\ call = "erase" => type = "LOGOUT_REQ"
         /\ call = "updateUser" => type = "UPDATE_USER_REQ"
         /\ call \in {"deleteUser", "eraseDeleted"} => type = "DELETE_USER_REQ"
         /\ call \in {"exists1", "exists2", "exists3", "insert"}
            => type = "FRIEND_REQUEST_REQ"
         /\ call = "list" => type \in {"FRIEND_REQUEST_LIST_REQ", "FRIEND_LIST_REQ",
                                       "CHAT_HISTORY_REQ"}
         /\ call \in {"updateStatus", "addFriend1", "addFriend2"}
            => type = "FRIEND_REQUEST_ACTION_REQ"
         /\ call = "deleteFriend" => type = "DELETE_FRIEND_REQ"
         /\ call = "setBlocked" => type \in {"BLOCK_USER_REQ", "UNBLOCK_USER_REQ"}
         /\ call \in {"groupOf", "createGroup"} => type = "CREATE_GROUP_REQ"
         /\ call \in {"groupToJoin", "isUserInGroup", "addUserToGroup"}
            => type = "JOIN_GROUP_REQ"
         /\ call \in {"getFriends", "deliver", "storeMessage"} => type = "PRIVATE_MSG_REQ"
BY SMTT(60) DEF Calls, handlePacket, Call

LEMMA CallsOf ==
  /\ \A type : handlePacket(type) \in Calls(type)
  /\ \A type : type \notin {"LOGIN_REQ", "FRIEND_LIST_REQ", "FRIEND_REQUEST_LIST_REQ",
                            "CHAT_HISTORY_REQ", "GROUP_MSG"}
               => "respond" \in Calls(type)
  /\ {"goOnline", "loginResp", "loadOffline", "markDelivered"} \subseteq Calls("LOGIN_REQ")
  /\ "eraseDeleted" \in Calls("DELETE_USER_REQ")
  /\ {"exists2", "exists3", "insert"} \subseteq Calls("FRIEND_REQUEST_REQ")
  /\ {"addFriend1", "addFriend2"} \subseteq Calls("FRIEND_REQUEST_ACTION_REQ")
  /\ {"deliver", "storeMessage"} \subseteq Calls("PRIVATE_MSG_REQ")
  /\ {"createGroup", "relock"} \subseteq Calls("CREATE_GROUP_REQ")
  /\ {"isUserInGroup", "addUserToGroup", "relock"} \subseteq Calls("JOIN_GROUP_REQ")
BY SMTT(60) DEF Calls

(* What a dispatched worker has: nothing a handler's later calls rely on.  *)
LEMMA FirstCall ==
  ASSUME NEW type
  PROVE  handlePacket(type) \notin {"idle", "goOnline", "loginResp", "loadOffline",
           "markDelivered", "addFriend1", "addFriend2", "deliver", "storeMessage",
           "respond", "eraseDeleted", "relock", "createGroup", "addUserToGroup"}
BY DEF handlePacket

-----------------------------------------------------------------------------
(* Type correctness.  A step of worker w leaves the other workers alone,   *)
(* so it is enough to look at w.                                           *)
OthersKeep(w) ==
  \A v \in Worker \ {w} :
    /\ pc'[v] = pc[v] /\ task'[v] = task[v] /\ result'[v] = result[v]
    /\ userId'[v] = userId[v] /\ inbox'[v] = inbox[v]

LEMMA WorkersType ==
  ASSUME TypeOK, TablesGrow, NEW w \in Worker, OthersKeep(w), WorkerTypeOK(w)'
  PROVE  \A v \in Worker : WorkerTypeOK(v)'
<1> SUFFICES ASSUME NEW v \in Worker, v # w  PROVE WorkerTypeOK(v)'
  OBVIOUS
<1>1. WorkerTypeOK(v)  BY DEF TypeOK
<1>2. /\ pc'[v] = pc[v] /\ task'[v] = task[v] /\ result'[v] = result[v]
      /\ userId'[v] = userId[v] /\ inbox'[v] = inbox[v]
  BY DEF OthersKeep
<1>3. /\ DOMAIN friendRequests \subseteq DOMAIN friendRequests'
      /\ DOMAIN messages \subseteq DOMAIN messages'
  BY DEF TablesGrow, RequestsGrow, MessagesGrow
<1> QED  BY <1>1, <1>2, <1>3 DEF WorkerTypeOK, Req

LEMMA TablesStay == UNCHANGED tables => TablesGrow
BY DEF tables, TablesGrow, RequestsGrow, MessagesGrow

(* The calls that need nothing of the worker's locals.                     *)
Plain(call) ==
  call \notin {"idle", "goOnline", "loginResp", "loadOffline", "markDelivered",
               "addFriend1", "addFriend2"}

(* A call of the database that ends in another call of the same handler.   *)
LEMMA DbCallType ==
  ASSUME TypeOK, DatabaseTypeOK', TablesGrow, DbCallOnly,
         NEW w \in Worker, pc[w] # "idle",
         NEW call \in Calls(Req(w).type), Goto(w, call),
         NEW res \in BOOLEAN, result' = [result EXCEPT ![w] = res],
         \/ Plain(call)
         \/ call \in {"addFriend1", "addFriend2"}
            /\ Req(w).requestId \in DOMAIN friendRequests'
  PROVE  TypeOK' /\ TablesGrow
<1>1. ServerTypeOK'
  BY CallType DEF TypeOK, ServerTypeOK, DbCallOnly, queue, locals, presence, Goto
<1>2. OthersKeep(w)
  BY DEF OthersKeep, TypeOK, ServerTypeOK, DbCallOnly, locals, Goto
<1>3. WorkerTypeOK(w)'
  <2>1. task[w] \in Task /\ inbox[w] \subseteq DOMAIN messages  BY DEF TypeOK, WorkerTypeOK
  <2>2. pc'[w] = call /\ task' = task /\ inbox' = inbox
    BY DEF TypeOK, ServerTypeOK, DbCallOnly, locals, Goto
  <2>3. DOMAIN messages \subseteq DOMAIN messages'  BY DEF TablesGrow, MessagesGrow
  <2> QED  BY <2>1, <2>2, <2>3 DEF WorkerTypeOK, Req, Plain
<1> QED  BY <1>1, <1>2, <1>3, WorkersType DEF TypeOK

(* A handler that ends.                                                    *)
LEMMA FinishTables ==
  ASSUME TypeOK, NEW w \in Worker, Finish(w),
         DatabaseTypeOK', TablesGrow,
         UNCHANGED <<queue, mtx, clientsMutex, skipped, crashes>>,
         onlineClients' \in [UserId -> Addr \cup {NoAddr}],
         sent' \subseteq Datagrams
  PROVE  TypeOK' /\ TablesGrow
<1>1. ServerTypeOK'
  <2>1. /\ tasks' \in Seq(Task) /\ received' \in Nat /\ crashes' \in Nat
        /\ mtx' \in Worker \cup {NoWorker} /\ clientsMutex' \in Worker \cup {NoWorker}
        /\ skipped' \subseteq Nat
    BY DEF TypeOK, ServerTypeOK, queue
  <2>2. /\ pc' \in [Worker -> Call \cup {"idle"}] /\ task' \in [Worker -> Task \cup {NoTask}]
    BY DEF TypeOK, ServerTypeOK, Finish, Goto
  <2>5. result' \in [Worker -> BOOLEAN]  BY DEF TypeOK, ServerTypeOK, Finish
  <2>3. userId' \in [Worker -> UserId \cup {-1}]  BY DEF TypeOK, ServerTypeOK, Finish
  <2>4. /\ inbox' \in [Worker -> SUBSET Nat]
        /\ payload' \in [Worker -> SUBSET (UserId \X Nat)]
    BY DEF TypeOK, ServerTypeOK, Finish
  <2> QED  BY <2>1, <2>2, <2>3, <2>4, <2>5 DEF ServerTypeOK
<1>2. OthersKeep(w)  BY DEF OthersKeep, TypeOK, ServerTypeOK, Finish, Goto
<1>3. WorkerTypeOK(w)'  BY DEF WorkerTypeOK, TypeOK, ServerTypeOK, Finish, Goto
<1> QED  BY <1>1, <1>2, <1>3, WorkersType DEF TypeOK

LEMMA FinishType ==
  ASSUME TypeOK, NEW w \in Worker, Finish(w),
         UNCHANGED <<tables, faults, queue, mtx, clientsMutex, skipped, crashes>>,
         onlineClients' \in [UserId -> Addr \cup {NoAddr}],
         sent' \subseteq Datagrams
  PROVE  TypeOK' /\ TablesGrow
<1>1. DatabaseTypeOK' /\ TablesGrow
  BY TablesStay DEF TypeOK, DatabaseTypeOK, tables
<1> QED  BY <1>1, FinishTables

(* What is known of the worker whose handler makes a call.                 *)
LEMMA AtCall ==
  ASSUME TypeOK, NEW w \in Worker, pc[w] # "idle"
  PROVE  /\ task[w] \in Task /\ Req(w) \in Request /\ task[w].n \in Nat
         /\ pc[w] \in Calls(Req(w).type)
BY DEF TypeOK, WorkerTypeOK, Task, Req

LEMMA InitTypeOK == Init => TypeOK
<1> SUFFICES ASSUME Init  PROVE TypeOK
  OBVIOUS
<1>1. DatabaseTypeOK  BY InitTablesType DEF Init
<1>2. ServerTypeOK
  <2>1. /\ tasks \in Seq(Task) /\ received \in Nat /\ crashes \in Nat /\ sent = {}
        /\ skipped = {}
    BY DEF Init
  <2>2. /\ mtx \in Worker \cup {NoWorker} /\ clientsMutex \in Worker \cup {NoWorker}
        /\ onlineClients \in [UserId -> Addr \cup {NoAddr}]
    BY DEF Init
  <2>3. /\ pc \in [Worker -> Call \cup {"idle"}] /\ task \in [Worker -> Task \cup {NoTask}]
    BY DEF Init
  <2>7. result \in [Worker -> BOOLEAN]  BY DEF Init
  <2>4. userId \in [Worker -> UserId \cup {-1}] BY DEF Init
  <2>5. inbox \in [Worker -> SUBSET Nat]  BY DEF Init
  <2>6. payload \in [Worker -> SUBSET (UserId \X Nat)]  BY DEF Init
  <2> QED  BY <2>1, <2>2, <2>3, <2>4, <2>5, <2>6, <2>7 DEF ServerTypeOK
<1>3. \A w \in Worker : WorkerTypeOK(w)  BY DEF Init, WorkerTypeOK
<1> QED  BY <1>1, <1>2, <1>3 DEF TypeOK

LEMMA SendType ==
  ASSUME TypeOK, NEW w \in Worker, pc[w] # "idle", Req(w).type # "GROUP_MSG",
         NEW ok \in BOOLEAN, NEW body \in SUBSET Seq(Int), Send(w, ok, body)
  PROVE  sent' \subseteq Datagrams
<1>1. Req(w) \in Request /\ task[w].n \in Nat  BY AtCall
<1>2. Response(Req(w).type) \in ResponseType
  BY <1>1 DEF Request, Response, ResponseType
<1>3. Req(w).addr \in Addr  BY <1>1, RequestFields
<1> QED  BY <1>1, <1>2, <1>3 DEF TypeOK, ServerTypeOK, Send, Datagram, Datagrams

(* The pool and the process.                                               *)
LEMMA ReceiveType == ASSUME TypeOK, NEW r \in Requests, Receive(r)  PROVE TypeOK' /\ TablesGrow
<1>1. [n |-> received + 1, req |-> r] \in Task
  BY ServerAssumption DEF TypeOK, ServerTypeOK, Task
<1>2. ServerTypeOK'  BY <1>1 DEF TypeOK, ServerTypeOK, Receive, locals, presence
<1>3. DatabaseTypeOK'  BY DEF TypeOK, DatabaseTypeOK, Receive, tables
<1>4. \A w \in Worker : WorkerTypeOK(w)'
  BY DEF TypeOK, WorkerTypeOK, Req, Receive, locals, tables
<1> QED  BY <1>2, <1>3, <1>4, TablesStay DEF TypeOK, Receive

LEMMA DequeueType == ASSUME TypeOK, NEW w \in Worker, Dequeue(w)  PROVE TypeOK' /\ TablesGrow
<1> DEFINE call == handlePacket(Head(tasks).req.type)
<1>1. /\ tasks \in Seq(Task) /\ tasks # <<>> /\ Head(tasks) \in Task /\ Tail(tasks) \in Seq(Task)
  BY DEF TypeOK, ServerTypeOK, Dequeue
<1>2. call \in Calls(Head(tasks).req.type) /\ Plain(call) /\ call \in Call
  BY CallsOf, CallType, FirstCall DEF Plain
<1>3. pc' = [pc EXCEPT ![w] = call]  BY DEF Dequeue, Goto
<1> HIDE DEF call
<1>4. ServerTypeOK'
  BY <1>1, <1>2, <1>3 DEF TypeOK, ServerTypeOK, Dequeue, locals, presence
<1>5. DatabaseTypeOK' /\ TablesGrow
  BY TablesStay DEF TypeOK, DatabaseTypeOK, Dequeue, tables
<1>6. OthersKeep(w)  BY <1>3 DEF OthersKeep, TypeOK, ServerTypeOK, Dequeue, locals
<1>7. WorkerTypeOK(w)'
  <2>1. task'[w] = Head(tasks) /\ pc'[w] = call
    BY <1>3 DEF TypeOK, ServerTypeOK, Dequeue
  <2>2. inbox'[w] \subseteq DOMAIN messages'
    BY DEF TypeOK, WorkerTypeOK, Dequeue, locals, tables
  <2> QED  BY <2>1, <2>2, <1>1, <1>2 DEF WorkerTypeOK, Req, Plain
<1> QED  BY <1>4, <1>5, <1>6, <1>7, WorkersType DEF TypeOK

LEMMA DropType == ASSUME TypeOK, NEW w \in Worker, Drop(w)  PROVE TypeOK' /\ TablesGrow
<1>1. /\ onlineClients' \in [UserId -> Addr \cup {NoAddr}] /\ sent' \subseteq Datagrams
  BY DEF TypeOK, ServerTypeOK, Drop, presence
<1> QED  BY <1>1, FinishType DEF Drop, presence

LEMMA RespondType == ASSUME TypeOK, NEW w \in Worker, Respond(w)  PROVE TypeOK' /\ TablesGrow
<1>1. /\ pc[w] = "respond" /\ Send(w, result[w], {}) /\ result[w] \in BOOLEAN
      /\ Req(w).type # "GROUP_MSG"
  BY AtCall, CallType DEF Respond, TypeOK, ServerTypeOK
<1>2. sent' \subseteq Datagrams  BY <1>1, SendType
<1>3. CASE Req(w).type = "DELETE_USER_REQ" /\ result[w]
  <2>1. /\ Goto(w, "eraseDeleted") /\ UNCHANGED <<task, result, locals>>
        /\ UNCHANGED <<tables, faults, queue, mtx, presence, crashes>>
    BY <1>3 DEF Respond
  <2>2. ServerTypeOK'
    BY <1>2, <2>1 DEF TypeOK, ServerTypeOK, Goto, Call, queue, locals, presence
  <2>3. DatabaseTypeOK' /\ TablesGrow  BY <2>1, TablesStay DEF TypeOK, DatabaseTypeOK, tables
  <2>4. OthersKeep(w)  BY <2>1 DEF OthersKeep, TypeOK, ServerTypeOK, Goto, locals
  <2>5. WorkerTypeOK(w)'
    <3>1. pc'[w] = "eraseDeleted" /\ task' = task /\ inbox' = inbox /\ messages' = messages
      BY <2>1 DEF TypeOK, ServerTypeOK, Goto, locals, tables
    <3>2. task[w] \in Task /\ inbox[w] \subseteq DOMAIN messages
      BY <1>1 DEF TypeOK, WorkerTypeOK
    <3> QED  BY <3>1, <3>2, <1>3, CallsOf DEF WorkerTypeOK, Req
  <2> QED  BY <2>2, <2>3, <2>4, <2>5, WorkersType DEF TypeOK
<1>4. CASE ~(Req(w).type = "DELETE_USER_REQ" /\ result[w])
  BY <1>2, <1>4, FinishType DEF Respond, presence, TypeOK, ServerTypeOK
<1> QED  BY <1>3, <1>4

LEMMA CrashType == ASSUME TypeOK, Crash  PROVE TypeOK' /\ TablesGrow
<1>1. ServerTypeOK'
  <2>1. /\ pc' \in [Worker -> Call \cup {"idle"}] /\ task' \in [Worker -> Task \cup {NoTask}]
    BY DEF Crash
  <2>2. result' \in [Worker -> BOOLEAN]  BY DEF Crash
  <2>3. userId' \in [Worker -> UserId \cup {-1}]  BY DEF Crash
  <2>4. inbox' \in [Worker -> SUBSET Nat] /\ payload' \in [Worker -> SUBSET (UserId \X Nat)]
    BY DEF Crash
  <2>5. onlineClients' \in [UserId -> Addr \cup {NoAddr}]  BY DEF Crash
  <2>6. /\ tasks' \in Seq(Task) /\ received' \in Nat /\ crashes' \in Nat
        /\ mtx' \in Worker \cup {NoWorker} /\ clientsMutex' \in Worker \cup {NoWorker}
        /\ skipped' \subseteq Nat /\ sent' \subseteq Datagrams
    BY DEF TypeOK, ServerTypeOK, Crash
  <2> QED  BY <2>1, <2>2, <2>3, <2>4, <2>5, <2>6 DEF ServerTypeOK
<1>2. DatabaseTypeOK'  BY DEF TypeOK, DatabaseTypeOK, Crash, tables
<1>3. \A w \in Worker : WorkerTypeOK(w)'  BY DEF Crash, WorkerTypeOK
<1> QED  BY <1>1, <1>2, <1>3, TablesStay DEF TypeOK, Crash

(* Accounts.                                                               *)
LEMMA RegisterUserType == ASSUME TypeOK, NEW w \in Worker, RegisterUser(w)  PROVE TypeOK' /\ TablesGrow
<1>1. PICK ok \in BOOLEAN : registerUser(Req(w).name, Req(w).pwd, ok) /\ Answer(w, ok)
  BY DEF RegisterUser
<1>2. pc[w] # "idle" /\ "respond" \in Calls(Req(w).type) /\ DbCallOnly
  BY AtCall, CallType, CallsOf DEF RegisterUser, InDb
<1>3. DatabaseTypeOK' /\ TablesGrow
  BY <1>1, AtCall, CallType, RequestFields, RegisterType DEF RegisterUser, InDb, TypeOK
<1> QED  BY <1>1, <1>2, <1>3, DbCallType DEF Answer, Plain

LEMMA UpdateUserType == ASSUME TypeOK, NEW w \in Worker, UpdateUser(w)  PROVE TypeOK' /\ TablesGrow
<1>1. PICK ok \in BOOLEAN : updateUser(Req(w).userId, Req(w).name, Req(w).pwd, ok) /\ Answer(w, ok)
  BY DEF UpdateUser
<1>2. pc[w] # "idle" /\ "respond" \in Calls(Req(w).type) /\ DbCallOnly
  BY AtCall, CallType, CallsOf DEF UpdateUser, InDb
<1>3. DatabaseTypeOK' /\ TablesGrow
  BY <1>1, AtCall, CallType, RequestFields, UpdateType DEF UpdateUser, InDb, TypeOK
<1> QED  BY <1>1, <1>2, <1>3, DbCallType DEF Answer, Plain

LEMMA DeleteUserType == ASSUME TypeOK, NEW w \in Worker, DeleteUser(w)  PROVE TypeOK' /\ TablesGrow
<1>1. PICK ok \in BOOLEAN : deleteUser(Req(w).userId, ok) /\ Answer(w, ok)
  BY DEF DeleteUser
<1>2. pc[w] # "idle" /\ "respond" \in Calls(Req(w).type) /\ DbCallOnly
  BY AtCall, CallType, CallsOf DEF DeleteUser, InDb
<1>3. DatabaseTypeOK' /\ TablesGrow
  BY <1>1, AtCall, CallType, RequestFields, DeleteType DEF DeleteUser, InDb, TypeOK
<1> QED  BY <1>1, <1>2, <1>3, DbCallType DEF Answer, Plain

LEMMA EraseDeletedType == ASSUME TypeOK, NEW w \in Worker, EraseDeleted(w)  PROVE TypeOK' /\ TablesGrow
<1>1. onlineClients' \in [UserId -> Addr \cup {NoAddr}] /\ sent' \subseteq Datagrams
  BY DEF EraseDeleted, TypeOK, ServerTypeOK
<1> QED  BY <1>1, FinishType DEF EraseDeleted

LEMMA LogoutType == ASSUME TypeOK, NEW w \in Worker, Logout(w)  PROVE TypeOK' /\ TablesGrow
<1>1. ServerTypeOK'
  BY DEF Logout, TypeOK, ServerTypeOK, Answer, Goto, Call, queue, locals
<1>2. DatabaseTypeOK' /\ TablesGrow
  BY TablesStay DEF Logout, TypeOK, DatabaseTypeOK, tables
<1>3. OthersKeep(w)  BY DEF OthersKeep, Logout, TypeOK, ServerTypeOK, Answer, Goto, locals
<1>4. WorkerTypeOK(w)'
  <2>1. pc'[w] = "respond" /\ task' = task /\ inbox' = inbox /\ messages' = messages
    BY DEF Logout, TypeOK, ServerTypeOK, Answer, Goto, locals, tables
  <2>2. task[w] \in Task /\ inbox[w] \subseteq DOMAIN messages
        /\ "respond" \in Calls(Req(w).type)
    BY AtCall, CallType, CallsOf DEF Logout, TypeOK, WorkerTypeOK
  <2> QED  BY <2>1, <2>2 DEF WorkerTypeOK, Req
<1> QED  BY <1>1, <1>2, <1>3, <1>4, WorkersType DEF TypeOK

(* Friends.                                                                *)
LEMMA SelfRequestType == ASSUME TypeOK, NEW w \in Worker, SelfRequest(w)  PROVE TypeOK' /\ TablesGrow
<1>1. pc[w] # "idle" /\ "respond" \in Calls(Req(w).type)
  BY AtCall, CallType, CallsOf DEF SelfRequest
<1>2. DatabaseTypeOK' /\ TablesGrow
  BY TablesStay DEF SelfRequest, TypeOK, DatabaseTypeOK, tables
<1> QED  BY <1>1, <1>2, DbCallType DEF SelfRequest, Answer, Plain

(* Both outcomes of a check: the answer, or the next call.                 *)
LEMMA CheckType ==
  ASSUME TypeOK, NEW w \in Worker, pc[w] # "idle", DbCallOnly,
         NEW exists, NEW found, selectFound(exists, found),
         NEW next \in Calls(Req(w).type), Plain(next), "respond" \in Calls(Req(w).type),
         Answer(w, FALSE) \/ (Goto(w, next) /\ UNCHANGED result)
  PROVE  TypeOK' /\ TablesGrow
<1>1. DatabaseTypeOK' /\ TablesGrow
  BY SelectFoundType DEF TypeOK
<1>2. CASE Answer(w, FALSE)
  BY <1>1, <1>2, DbCallType DEF Answer, Plain
<1>3. CASE Goto(w, next) /\ UNCHANGED result
  <2>1. result[w] \in BOOLEAN /\ result' = [result EXCEPT ![w] = result[w]]
    BY <1>3 DEF TypeOK, ServerTypeOK
  <2> QED  BY <1>1, <1>3, <2>1, DbCallType
<1> QED  BY <1>2, <1>3

LEMMA CheckPendingType ==
  ASSUME TypeOK, NEW w \in Worker, NEW call \in {"exists1", "exists2", "exists3"},
         NEW next \in {"exists2", "exists3", "insert"}, CheckPending(w, call, next)
  PROVE  TypeOK' /\ TablesGrow
<1>1. pc[w] = call /\ Req(w).type = "FRIEND_REQUEST_REQ"
  BY AtCall, CallType DEF CheckPending, InDb
<1>2. next \in Calls(Req(w).type) /\ Plain(next) /\ "respond" \in Calls(Req(w).type)
  BY <1>1, CallsOf DEF Plain
<1> QED  BY <1>1, <1>2, CheckType DEF CheckPending

LEMMA InsertRequestStepType ==
  ASSUME TypeOK, NEW w \in Worker, InsertRequest(w)  PROVE TypeOK' /\ TablesGrow
<1>1. PICK ok \in BOOLEAN : insertFriendRequest(Req(w).userId, Req(w).friendId, ok) /\ Answer(w, ok)
  BY DEF InsertRequest
<1>2. pc[w] # "idle" /\ "respond" \in Calls(Req(w).type) /\ DbCallOnly
  BY AtCall, CallType, CallsOf DEF InsertRequest
<1>3. DatabaseTypeOK' /\ TablesGrow
  BY <1>1, AtCall, CallType, RequestFields, InsertRequestType DEF InsertRequest, TypeOK
<1> QED  BY <1>1, <1>2, <1>3, DbCallType DEF Answer, Plain

LEMMA UpdateStatusStepType ==
  ASSUME TypeOK, NEW w \in Worker, UpdateStatus(w)
  PROVE  /\ TypeOK' /\ TablesGrow
         /\ pc'[w] = "addFriend1" => friendRequests'[Req(w).requestId].status # 0
<1> DEFINE id == Req(w).requestId
<1>1. /\ pc[w] # "idle" /\ {"respond", "addFriend1"} \subseteq Calls(Req(w).type) /\ DbCallOnly
      /\ Req(w).accept \in BOOLEAN
  BY AtCall, CallType, CallsOf, RequestFields DEF UpdateStatus, InDb
<1>2. CASE id \in DOMAIN friendRequests
  <2>1. PICK ok \in BOOLEAN :
          /\ updateRequestStatus(id, Req(w).accept, ok)
          /\ IF ok /\ Req(w).accept THEN Goto(w, "addFriend1") /\ UNCHANGED result
                                    ELSE Answer(w, ok)
    BY <1>2 DEF UpdateStatus
  <2>2. DatabaseTypeOK' /\ TablesGrow /\ (ok => friendRequests'[id].status # 0)
    BY <1>1, <1>2, <2>1, UpdateStatusType DEF TypeOK
  <2>3. id \in DOMAIN friendRequests'  BY <1>2, <2>2 DEF TablesGrow, RequestsGrow
  <2>4. CASE ok /\ Req(w).accept
    <3>1. /\ Goto(w, "addFriend1") /\ result[w] \in BOOLEAN
          /\ result' = [result EXCEPT ![w] = result[w]]
      BY <2>1, <2>4 DEF TypeOK, ServerTypeOK
    <3> QED  BY <1>1, <2>2, <2>3, <2>4, <3>1, DbCallType
  <2>5. CASE ~(ok /\ Req(w).accept)
    <3>1. Goto(w, "respond") /\ result' = [result EXCEPT ![w] = ok]
      BY <2>1, <2>5 DEF Answer
    <3>2. pc'[w] = "respond"  BY <3>1 DEF Goto, TypeOK, ServerTypeOK
    <3> QED  BY <1>1, <2>2, <3>1, <3>2, DbCallType DEF Plain
  <2> QED  BY <2>4, <2>5
<1>3. CASE id \notin DOMAIN friendRequests
  <2>1. DatabaseTypeOK' /\ TablesGrow
    BY <1>3, TablesStay DEF UpdateStatus, TypeOK, DatabaseTypeOK, tables
  <2>2. Goto(w, "respond") /\ result' = [result EXCEPT ![w] = FALSE]
    BY <1>3 DEF UpdateStatus, Answer
  <2>3. pc'[w] = "respond"  BY <2>2 DEF Goto, TypeOK, ServerTypeOK
  <2> QED  BY <1>1, <2>1, <2>2, <2>3, DbCallType DEF Plain
<1> QED  BY <1>2, <1>3

LEMMA DeleteFriendStepType == ASSUME TypeOK, NEW w \in Worker, DeleteFriend(w)  PROVE TypeOK' /\ TablesGrow
<1>1. PICK ok \in BOOLEAN : deleteFriend(Req(w).userId, Req(w).friendId, ok) /\ Answer(w, ok)
  BY DEF DeleteFriend
<1>2. pc[w] # "idle" /\ "respond" \in Calls(Req(w).type) /\ DbCallOnly
  BY AtCall, CallType, CallsOf DEF DeleteFriend, InDb
<1>3. DatabaseTypeOK' /\ TablesGrow
  BY <1>1, AtCall, CallType, RequestFields, DeleteFriendType DEF DeleteFriend, InDb, TypeOK
<1> QED  BY <1>1, <1>2, <1>3, DbCallType DEF Answer, Plain

LEMMA SetBlockedStepType == ASSUME TypeOK, NEW w \in Worker, SetBlocked(w)  PROVE TypeOK' /\ TablesGrow
<1> DEFINE flag == Req(w).type = "BLOCK_USER_REQ"
<1>1. PICK ok \in BOOLEAN : setBlocked(Req(w).userId, Req(w).friendId, flag, ok) /\ Answer(w, ok)
  BY DEF SetBlocked
<1>2. /\ pc[w] # "idle" /\ "respond" \in Calls(Req(w).type) /\ DbCallOnly
      /\ Req(w).userId \in UserId /\ Req(w).friendId \in UserId
  BY AtCall, CallType, CallsOf, RequestFields DEF SetBlocked, InDb
<1>3. flag \in BOOLEAN  OBVIOUS
<1> HIDE DEF flag
<1>4. DatabaseTypeOK' /\ TablesGrow
  BY <1>1, <1>2, <1>3, SetBlockedType DEF TypeOK
<1> QED  BY <1>1, <1>2, <1>4, DbCallType DEF Answer, Plain

LEMMA AskerTyped ==
  ASSUME TypeOK, NEW w \in Worker, pc[w] \in {"addFriend1", "addFriend2"}
  PROVE  /\ Req(w).requestId \in DOMAIN friendRequests
         /\ Asker(w) \in UserId /\ Asked(w) \in UserId
BY RowsTyped DEF TypeOK, WorkerTypeOK, Asker, Asked

LEMMA AddFriend1Type ==
  ASSUME TypeOK, NEW w \in Worker, AddFriend1(w)
  PROVE  TypeOK' /\ TablesGrow
<1>1. PICK ok \in BOOLEAN :
        addFriend(Asker(w), Asked(w), ok) /\ result' = [result EXCEPT ![w] = ok]
  BY DEF AddFriend1
<1>2. /\ pc[w] = "addFriend1" /\ "addFriend2" \in Calls(Req(w).type) /\ DbCallOnly
      /\ Goto(w, "addFriend2")
  BY AtCall, CallType, CallsOf DEF AddFriend1, InDb
<1>3. DatabaseTypeOK' /\ TablesGrow
  BY <1>1, <1>2, AskerTyped, AddFriendType DEF TypeOK
<1>4. Req(w).requestId \in DOMAIN friendRequests'
  BY <1>2, <1>3, AskerTyped DEF TablesGrow, RequestsGrow
<1> QED  BY <1>1, <1>2, <1>3, <1>4, DbCallType

LEMMA AddFriend2Type ==
  ASSUME TypeOK, NEW w \in Worker, AddFriend2(w)
  PROVE  TypeOK' /\ TablesGrow
<1>1. PICK ok \in BOOLEAN : addFriend(Asked(w), Asker(w), ok) /\ Answer(w, result[w] /\ ok)
  BY DEF AddFriend2
<1>2. pc[w] = "addFriend2" /\ "respond" \in Calls(Req(w).type) /\ DbCallOnly
  BY AtCall, CallType, CallsOf DEF AddFriend2, InDb
<1>3. DatabaseTypeOK' /\ TablesGrow
  BY <1>1, <1>2, AskerTyped, AddFriendType DEF TypeOK
<1>4. (result[w] /\ ok) \in BOOLEAN  OBVIOUS
<1> QED  BY <1>1, <1>2, <1>3, <1>4, DbCallType DEF Answer, Plain

LEMMA ListBodyType ==
  ASSUME TypeOK, NEW r \in Request,
         r.type \in {"FRIEND_LIST_REQ", "FRIEND_REQUEST_LIST_REQ", "CHAT_HISTORY_REQ"}
  PROVE  ListBody(r) \in SUBSET Seq(Int)
<1>0. \A x, y \in Int : <<x, y>> \in Seq(Int)  OBVIOUS
<1>1. CASE r.type = "FRIEND_LIST_REQ"
  <2> SUFFICES ASSUME NEW f \in getFriends(r.userId)
               PROVE  <<f.friendId, IF f.isBlocked THEN 1 ELSE 0>> \in Seq(Int)
    BY <1>1 DEF ListBody
  <2>1. f.friendId \in Int
    BY RowsTyped DEF getFriends, TypeOK
  <2>2. (IF f.isBlocked THEN 1 ELSE 0) \in Int  OBVIOUS
  <2> QED  BY <2>1, <2>2, <1>0
<1>2. CASE r.type = "FRIEND_REQUEST_LIST_REQ"
  <2> SUFFICES ASSUME NEW i \in getFriendRequests(r.userId)
               PROVE  <<i, friendRequests[i].userId>> \in Seq(Int)
    BY <1>2 DEF ListBody
  <2>1. i \in Int /\ friendRequests[i].userId \in Int
    BY RowsTyped DEF getFriendRequests, TypeOK
  <2> QED  BY <2>1, <1>0
<1>3. CASE r.type = "CHAT_HISTORY_REQ"
  <2> SUFFICES ASSUME NEW m \in getChatHistory(r.userId, r.friendId)
               PROVE  Entry(m) \in Seq(Int)
    BY <1>3 DEF ListBody
  <2>1. messages[m].sender \in Int /\ messages[m].content \in Int
    BY RowsTyped DEF getChatHistory, TypeOK
  <2> QED  BY <2>1, <1>0 DEF Entry
<1> QED  BY <1>1, <1>2, <1>3

LEMMA ListType == ASSUME TypeOK, NEW w \in Worker, List(w)  PROVE TypeOK' /\ TablesGrow
<1>1. /\ pc[w] # "idle" /\ Req(w) \in Request
      /\ Req(w).type \in {"FRIEND_LIST_REQ", "FRIEND_REQUEST_LIST_REQ", "CHAT_HISTORY_REQ"}
  BY AtCall, CallType DEF List, InDb
<1>2. PICK body \in SUBSET ListBody(Req(w)) :
        selectRows(ListBody(Req(w)), body) /\ Send(w, TRUE, body)
  BY DEF List
<1>3. DatabaseTypeOK' /\ TablesGrow  BY <1>2, SelectRowsType DEF TypeOK
<1>4. body \in SUBSET Seq(Int)  BY <1>1, ListBodyType
<1>5. sent' \subseteq Datagrams  BY <1>1, <1>2, <1>4, SendType
<1>6. onlineClients' \in [UserId -> Addr \cup {NoAddr}]
  BY DEF List, presence, TypeOK, ServerTypeOK
<1> QED  BY <1>3, <1>5, <1>6, FinishTables DEF List, presence

(* Private messages and groups.                                            *)
LEMMA CheckFriendType ==
  ASSUME TypeOK, NEW w \in Worker, CheckFriend(w)
  PROVE  TypeOK' /\ TablesGrow
<1>1. pc[w] # "idle" /\ {"deliver", "respond"} \subseteq Calls(Req(w).type)
  BY AtCall, CallType, CallsOf DEF CheckFriend, InDb
<1>2. Plain("deliver")  BY DEF Plain
<1> QED  BY <1>1, <1>2, CheckType DEF CheckFriend

LEMMA CreateGroupCheckType ==
  ASSUME TypeOK, NEW w \in Worker, InDb(w, "groupOf"), CreateGroup(w)
  PROVE  TypeOK' /\ TablesGrow
<1>1. pc[w] = "groupOf" /\ {"createGroup", "respond"} \subseteq Calls(Req(w).type)
  BY AtCall, CallType, CallsOf DEF InDb
<1>2. Plain("createGroup")  BY DEF Plain
<1> QED  BY <1>1, <1>2, CheckType DEF CreateGroup, LockTwice, InDb

LEMMA JoinGroupCheckType ==
  ASSUME TypeOK, NEW w \in Worker, pc[w] \in {"groupToJoin", "isUserInGroup"}, JoinGroup(w)
  PROVE  TypeOK' /\ TablesGrow
<1>1. {"isUserInGroup", "addUserToGroup", "respond"} \subseteq Calls(Req(w).type)
  BY AtCall, CallType, CallsOf
<1>2. Plain("isUserInGroup") /\ Plain("addUserToGroup")  BY DEF Plain
<1> QED  BY <1>1, <1>2, CheckType DEF JoinGroup, LockTwice, InDb

LEMMA LockTwiceType ==
  ASSUME TypeOK, NEW w \in Worker, NEW call \in {"createGroup", "addUserToGroup"},
         LockTwice(w, call)
  PROVE  TypeOK' /\ TablesGrow
<1>1. "relock" \in Calls(Req(w).type) /\ pc[w] # "idle"
  BY AtCall, CallType, CallsOf DEF LockTwice, InDb
<1>2. ServerTypeOK'
  BY DEF LockTwice, TypeOK, ServerTypeOK, Goto, Call, queue, locals, presence
<1>3. DatabaseTypeOK' /\ TablesGrow
  BY TablesStay DEF LockTwice, TypeOK, DatabaseTypeOK, tables
<1>4. OthersKeep(w)  BY DEF OthersKeep, LockTwice, TypeOK, ServerTypeOK, Goto, locals
<1>5. WorkerTypeOK(w)'
  <2>1. pc'[w] = "relock" /\ task' = task /\ inbox' = inbox /\ messages' = messages
    BY DEF LockTwice, TypeOK, ServerTypeOK, Goto, locals, tables
  <2>2. task[w] \in Task /\ inbox[w] \subseteq DOMAIN messages
    BY <1>1 DEF TypeOK, WorkerTypeOK
  <2> QED  BY <1>1, <2>1, <2>2 DEF WorkerTypeOK, Req
<1> QED  BY <1>2, <1>3, <1>4, <1>5, WorkersType DEF TypeOK

LEMMA DeliverType == ASSUME TypeOK, NEW w \in Worker, Deliver(w)  PROVE TypeOK' /\ TablesGrow
<1> DEFINE to == onlineClients[Req(w).friendId]
<1>1. /\ pc[w] = "deliver" /\ {"storeMessage", "respond"} \subseteq Calls(Req(w).type)
      /\ Req(w).friendId \in UserId /\ task[w].n \in Nat
      /\ task[w] \in Task /\ inbox[w] \subseteq DOMAIN messages
  BY AtCall, CallType, CallsOf, RequestFields DEF Deliver, TypeOK, WorkerTypeOK
<1>2. to \in Addr \cup {NoAddr}  BY <1>1 DEF TypeOK, ServerTypeOK
<1>3. DatabaseTypeOK' /\ TablesGrow
  BY TablesStay DEF Deliver, TypeOK, DatabaseTypeOK, tables
<1>4. PICK call \in {"respond", "storeMessage"} :
        /\ Goto(w, call) /\ sent' \subseteq Datagrams
        /\ clientsMutex' \in Worker \cup {NoWorker}
        /\ result' \in [Worker -> BOOLEAN] /\ \A v \in Worker \ {w} : result'[v] = result[v]
  <2>1. CASE /\ to # NoAddr /\ Answer(w, TRUE) /\ UNCHANGED clientsMutex
             /\ sent' = sent \cup {Datagram(to, task[w].n, "PRIVATE_MSG_RESP", TRUE,
                                           {<<task[w].n>>})}
    <3>1. {<<task[w].n>>} \in SUBSET Seq(Int)  BY <1>1
    <3>2. Datagram(to, task[w].n, "PRIVATE_MSG_RESP", TRUE, {<<task[w].n>>}) \in Datagrams
      BY <1>1, <1>2, <2>1, <3>1 DEF Datagram, Datagrams, ResponseType
    <3> QED  BY <2>1, <3>2 DEF Answer, TypeOK, ServerTypeOK
  <2>2. CASE clientsMutex' = w /\ Goto(w, "storeMessage") /\ UNCHANGED <<result, sent>>
    BY <2>2 DEF TypeOK, ServerTypeOK
  <2> QED  BY <2>1, <2>2 DEF Deliver
<1>5. ServerTypeOK'
  BY <1>4 DEF Deliver, TypeOK, ServerTypeOK, Goto, Call, queue, locals
<1>6. OthersKeep(w)
  BY <1>4 DEF OthersKeep, Deliver, TypeOK, ServerTypeOK, Goto, locals
<1>7. WorkerTypeOK(w)'
  <2>1. pc'[w] = call /\ task' = task /\ inbox' = inbox /\ messages' = messages
    BY <1>4 DEF Deliver, TypeOK, ServerTypeOK, Goto, locals, tables
  <2> QED  BY <1>1, <2>1 DEF WorkerTypeOK, Req
<1> QED  BY <1>3, <1>5, <1>6, <1>7, WorkersType DEF TypeOK

LEMMA StoreMessageType ==
  ASSUME TypeOK, NEW w \in Worker, StoreMessage(w)
  PROVE  TypeOK' /\ TablesGrow
<1>1. /\ pc[w] = "storeMessage" /\ "respond" \in Calls(Req(w).type)
      /\ Req(w).userId \in UserId /\ Req(w).friendId \in UserId /\ task[w].n \in Nat
      /\ task[w] \in Task /\ inbox[w] \subseteq DOMAIN messages
  BY AtCall, CallType, CallsOf, RequestFields DEF StoreMessage, InDb, TypeOK, WorkerTypeOK
<1>2. DatabaseTypeOK' /\ TablesGrow
  BY <1>1, StoreType DEF StoreMessage, TypeOK
<1>3. ServerTypeOK'
  BY DEF StoreMessage, TypeOK, ServerTypeOK, Answer, Goto, Call, queue, locals
<1>4. OthersKeep(w)
  BY DEF OthersKeep, StoreMessage, TypeOK, ServerTypeOK, Answer, Goto, locals
<1>5. WorkerTypeOK(w)'
  <2>1. pc'[w] = "respond" /\ task' = task /\ inbox' = inbox
    BY DEF StoreMessage, TypeOK, ServerTypeOK, Answer, Goto, locals
  <2>2. DOMAIN messages \subseteq DOMAIN messages'
    BY <1>2 DEF TablesGrow, MessagesGrow
  <2> QED  BY <1>1, <2>1, <2>2 DEF WorkerTypeOK, Req
<1> QED  BY <1>2, <1>3, <1>4, <1>5, WorkersType DEF TypeOK

(* Login.                                                                  *)
LEMMA VerifyUserType ==
  ASSUME TypeOK, NEW w \in Worker, VerifyUser(w)
  PROVE  TypeOK' /\ TablesGrow
<1>1. /\ pc[w] = "verifyUser" /\ {"goOnline", "loginResp"} \subseteq Calls(Req(w).type)
      /\ task[w] \in Task /\ inbox[w] \subseteq DOMAIN messages
  BY AtCall, CallType, CallsOf DEF VerifyUser, InDb, TypeOK, WorkerTypeOK
<1> DEFINE rows == verifyUser(Req(w).name, Req(w).pwd)
<1>0. rows \subseteq UserId
  BY DEF verifyUser, TypeOK, DatabaseTypeOK, User
<1>2. PICK found \in SUBSET rows :
        /\ selectRows(rows, found)
        /\ \/ /\ \E u \in found : userId' = [userId EXCEPT ![w] = u]
              /\ Goto(w, "goOnline") /\ UNCHANGED result
           \/ /\ Goto(w, "loginResp") /\ result' = [result EXCEPT ![w] = FALSE]
              /\ UNCHANGED userId
  BY DEF VerifyUser
<1> HIDE DEF rows
<1>3. PICK call \in {"goOnline", "loginResp"} :
        /\ Goto(w, call)
        /\ userId' \in [Worker -> UserId \cup {-1}]
        /\ \A v \in Worker \ {w} : userId'[v] = userId[v]
        /\ call = "goOnline" => userId'[w] \in UserId
        /\ result' \in [Worker -> BOOLEAN]
        /\ \A v \in Worker \ {w} : result'[v] = result[v]
        /\ call = "loginResp" => ~result'[w]
  BY <1>0, <1>2 DEF TypeOK, ServerTypeOK
<1>4. ServerTypeOK'
  BY <1>3 DEF VerifyUser, TypeOK, ServerTypeOK, Goto, Call, queue, presence
<1>5. DatabaseTypeOK' /\ TablesGrow
  BY <1>2, SelectRowsType DEF TypeOK
<1>6. OthersKeep(w)
  BY <1>3 DEF OthersKeep, VerifyUser, TypeOK, ServerTypeOK, Goto
<1>7. WorkerTypeOK(w)'
  <2>1. /\ pc'[w] = call /\ task' = task /\ inbox' = inbox /\ messages' = messages
    BY <1>2, <1>3 DEF VerifyUser, selectRows, TypeOK, ServerTypeOK, Goto, tables
  <2> QED  BY <1>1, <1>3, <2>1 DEF WorkerTypeOK, Req
<1> QED  BY <1>4, <1>5, <1>6, <1>7, WorkersType DEF TypeOK

LEMMA GoOnlineType ==
  ASSUME TypeOK, NEW w \in Worker, GoOnline(w)
  PROVE  TypeOK' /\ TablesGrow
<1>1. /\ pc[w] = "goOnline" /\ "loginResp" \in Calls(Req(w).type)
      /\ task[w] \in Task /\ inbox[w] \subseteq DOMAIN messages /\ userId[w] \in UserId
  BY AtCall, CallType, CallsOf DEF GoOnline, TypeOK, WorkerTypeOK
<1>2. Req(w).addr \in Addr  BY <1>1, AtCall, RequestFields
<1>3. onlineClients' \in [UserId -> Addr \cup {NoAddr}]
  BY <1>1, <1>2 DEF GoOnline, TypeOK, ServerTypeOK
<1>4. /\ result' \in [Worker -> BOOLEAN]
      /\ \A v \in Worker \ {w} : result'[v] = result[v]
  BY DEF GoOnline, TypeOK, ServerTypeOK
<1>5. ServerTypeOK'
  BY <1>3, <1>4 DEF GoOnline, TypeOK, ServerTypeOK, Goto, Call, queue, locals
<1>6. DatabaseTypeOK' /\ TablesGrow
  BY TablesStay DEF GoOnline, TypeOK, DatabaseTypeOK, tables
<1>7. OthersKeep(w)
  BY <1>4 DEF OthersKeep, GoOnline, TypeOK, ServerTypeOK, Goto, locals
<1>8. WorkerTypeOK(w)'
  <2>1. /\ pc'[w] = "loginResp" /\ task' = task /\ inbox' = inbox /\ messages' = messages
        /\ userId' = userId
    BY DEF GoOnline, TypeOK, ServerTypeOK, Goto, locals, tables
  <2> QED  BY <1>1, <2>1 DEF WorkerTypeOK, Req
<1> QED  BY <1>5, <1>6, <1>7, <1>8, WorkersType DEF TypeOK

LEMMA LoginRespType ==
  ASSUME TypeOK, NEW w \in Worker, LoginResp(w)
  PROVE  TypeOK' /\ TablesGrow
<1>1. /\ pc[w] = "loginResp" /\ Req(w).type = "LOGIN_REQ"
      /\ task[w] \in Task /\ inbox[w] \subseteq DOMAIN messages
      /\ result[w] => userId[w] \in UserId
  BY AtCall, CallType DEF LoginResp, TypeOK, WorkerTypeOK
<1>2. {<<userId[w]>>} \in SUBSET Seq(Int) /\ result[w] \in BOOLEAN
  BY RowsTyped DEF TypeOK, ServerTypeOK
<1>3. sent' \subseteq Datagrams  BY <1>1, <1>2, SendType DEF LoginResp
<1>4. CASE result[w]
  <2>1. Goto(w, "loadOffline") /\ UNCHANGED <<task, result, locals>>
    BY <1>4 DEF LoginResp
  <2>2. ServerTypeOK'
    BY <1>3, <2>1 DEF LoginResp, TypeOK, ServerTypeOK, Goto, Call, queue, locals, presence
  <2>3. DatabaseTypeOK' /\ TablesGrow
    BY TablesStay DEF LoginResp, TypeOK, DatabaseTypeOK, tables
  <2>4. OthersKeep(w)  BY <2>1 DEF OthersKeep, TypeOK, ServerTypeOK, Goto, locals
  <2>5. WorkerTypeOK(w)'
    <3>1. /\ pc'[w] = "loadOffline" /\ task' = task /\ inbox' = inbox /\ userId' = userId
          /\ messages' = messages
      BY <2>1 DEF LoginResp, TypeOK, ServerTypeOK, Goto, locals, tables
    <3> QED  BY <1>1, <1>4, <3>1, CallsOf DEF WorkerTypeOK, Req
  <2> QED  BY <2>2, <2>3, <2>4, <2>5, WorkersType DEF TypeOK
<1>5. CASE ~result[w]
  <2>1. Finish(w) /\ onlineClients' \in [UserId -> Addr \cup {NoAddr}]
    BY <1>5 DEF LoginResp, presence, TypeOK, ServerTypeOK
  <2> QED  BY <1>3, <2>1, FinishType DEF LoginResp, presence
<1> QED  BY <1>4, <1>5

LEMMA LoadOfflineType ==
  ASSUME TypeOK, NEW w \in Worker, LoadOffline(w)
  PROVE  TypeOK' /\ TablesGrow
<1>1. /\ pc[w] = "loadOffline" /\ "markDelivered" \in Calls(Req(w).type)
      /\ task[w] \in Task /\ userId[w] \in UserId
  BY AtCall, CallType, CallsOf DEF LoadOffline, InDb, TypeOK, WorkerTypeOK
<1> DEFINE rows == loadOffline(userId[w])
<1>0. PICK got \in SUBSET rows :
        /\ selectRows(rows, got) /\ inbox' = [inbox EXCEPT ![w] = got]
        /\ skipped' = (skipped \ rows) \cup (rows \ got)
  BY DEF LoadOffline
<1>2. rows \subseteq DOMAIN messages /\ DOMAIN messages \subseteq Nat
  BY DEF loadOffline, TypeOK, DatabaseTypeOK
<1> HIDE DEF rows
<1>3. ServerTypeOK'
  <2>1. /\ inbox' \in [Worker -> SUBSET Nat] /\ skipped' \subseteq Nat
        /\ pc' \in [Worker -> Call \cup {"idle"}]
    BY <1>0, <1>2 DEF LoadOffline, TypeOK, ServerTypeOK, Goto, Call
  <2> QED  BY <2>1 DEF LoadOffline, TypeOK, ServerTypeOK, queue
<1>4. DatabaseTypeOK' /\ TablesGrow  BY <1>0, SelectRowsType DEF TypeOK
<1>5. OthersKeep(w)  BY DEF OthersKeep, LoadOffline, TypeOK, ServerTypeOK, Goto
<1>6. WorkerTypeOK(w)'
  <2>1. /\ pc'[w] = "markDelivered" /\ task' = task /\ messages' = messages
        /\ userId' = userId /\ inbox'[w] = got
    BY <1>0 DEF LoadOffline, selectRows, TypeOK, ServerTypeOK, Goto, tables
  <2> QED  BY <1>0, <1>1, <1>2, <2>1 DEF WorkerTypeOK, Req
<1> QED  BY <1>3, <1>4, <1>5, <1>6, WorkersType DEF TypeOK

LEMMA MarkDeliveredType ==
  ASSUME TypeOK, NEW w \in Worker, MarkDelivered(w)
  PROVE  TypeOK' /\ TablesGrow
<1>1. /\ pc[w] = "markDelivered" /\ inbox[w] \subseteq DOMAIN messages
      /\ task[w] \in Task /\ userId[w] \in UserId /\ pc[w] \in Calls(Req(w).type)
  BY AtCall DEF MarkDelivered, InDb, TypeOK, WorkerTypeOK
<1>2. PICK m \in inbox[w], ok \in BOOLEAN :
        /\ payload' = [payload EXCEPT ![w] = @ \cup {Entry(m)}]
        /\ markDelivered(m, ok)
        /\ inbox' = [inbox EXCEPT ![w] = @ \ {m}]
  BY DEF MarkDelivered
<1>3. m \in DOMAIN messages  BY <1>1, <1>2
<1>4. DatabaseTypeOK' /\ TablesGrow  BY <1>2, <1>3, MarkType DEF TypeOK
<1>5. Entry(m) \in UserId \X Nat  BY <1>3, RowsTyped DEF Entry, TypeOK
<1>6. ServerTypeOK'
  BY <1>2, <1>5 DEF MarkDelivered, TypeOK, ServerTypeOK, queue, presence
<1>7. OthersKeep(w)  BY <1>2 DEF OthersKeep, MarkDelivered, TypeOK, ServerTypeOK
<1>8. WorkerTypeOK(w)'
  <2>1. /\ pc' = pc /\ task' = task /\ userId' = userId /\ inbox'[w] \subseteq inbox[w]
    BY <1>2 DEF MarkDelivered, TypeOK, ServerTypeOK
  <2>2. DOMAIN messages \subseteq DOMAIN messages'
    BY <1>4 DEF TablesGrow, MessagesGrow
  <2> QED  BY <1>1, <2>1, <2>2 DEF WorkerTypeOK, Req
<1> QED  BY <1>4, <1>6, <1>7, <1>8, WorkersType DEF TypeOK

LEMMA PairsAreSeqs == ASSUME NEW S, S \subseteq Int  PROVE S \X Nat \subseteq Seq(Int)
<1> SUFFICES ASSUME NEW p \in S \X Nat  PROVE p \in Seq(Int)
  OBVIOUS
<1>1. p = <<p[1], p[2]>> /\ p[1] \in S /\ p[2] \in Nat  OBVIOUS
<1>2. p[1] \in Int  BY <1>1
<1>3. p[2] \in Int  BY <1>1
<1>4. <<p[1], p[2]>> \in Seq(Int)  BY <1>2, <1>3
<1> QED  BY <1>1, <1>4, Zenon

LEMMA PushOfflineType ==
  ASSUME TypeOK, NEW w \in Worker, PushOffline(w)
  PROVE  TypeOK' /\ TablesGrow
<1>1. Req(w).addr \in Addr /\ task[w].n \in Nat
  BY AtCall, RequestFields DEF PushOffline
<1>2. payload[w] \in SUBSET Seq(Int)
  <2>1. payload[w] \subseteq UserId \X Nat /\ UserId \subseteq Int
    BY RowsTyped DEF TypeOK, ServerTypeOK
  <2>2. UserId \X Nat \subseteq Seq(Int)  BY <2>1, PairsAreSeqs
  <2> QED  BY <2>1, <2>2
<1>3. Datagram(Req(w).addr, task[w].n, "OFFLINE_MSG_LIST_RESP", TRUE, payload[w]) \in Datagrams
  BY <1>1, <1>2 DEF Datagram, Datagrams, ResponseType
<1>4. sent' \subseteq Datagrams  BY <1>3 DEF PushOffline, TypeOK, ServerTypeOK
<1>5. onlineClients' \in [UserId -> Addr \cup {NoAddr}]
  BY DEF PushOffline, presence, TypeOK, ServerTypeOK
<1> QED  BY <1>4, <1>5, FinishType DEF PushOffline, presence

LEMMA StepType == ASSUME TypeOK, [Next]_vars  PROVE TypeOK' /\ TablesGrow
<1>1. ASSUME NEW r \in Requests, Receive(r)  PROVE TypeOK' /\ TablesGrow
  BY <1>1, ReceiveType
<1>2. ASSUME NEW w \in Worker, Run(w)  PROVE TypeOK' /\ TablesGrow
  <2>1. CASE Dequeue(w) \/ Drop(w) \/ Respond(w)
    BY <2>1, DequeueType, DropType, RespondType
  <2>2. CASE RegisterUser(w) \/ UpdateUser(w) \/ DeleteUser(w)
    BY <2>2, RegisterUserType, UpdateUserType, DeleteUserType
  <2>3. CASE EraseDeleted(w) \/ Logout(w)
    BY <2>3, EraseDeletedType, LogoutType
  <2>4. CASE Login(w)
    BY <2>4, VerifyUserType, GoOnlineType, LoginRespType, LoadOfflineType,
       MarkDeliveredType, PushOfflineType DEF Login
  <2>5. CASE HandleFriendRequest(w)
    BY <2>5, SelfRequestType, CheckPendingType, InsertRequestStepType DEF HandleFriendRequest
  <2>6. CASE FriendRequestAction(w)
    BY <2>6, UpdateStatusStepType, AddFriend1Type, AddFriend2Type DEF FriendRequestAction
  <2>7. CASE DeleteFriend(w) \/ SetBlocked(w) \/ List(w)
    BY <2>7, DeleteFriendStepType, SetBlockedStepType, ListType
  <2>8. CASE PrivateMessage(w)
    BY <2>8, CheckFriendType, DeliverType, StoreMessageType DEF PrivateMessage
  <2>9. CASE CreateGroup(w)
    BY <2>9, CreateGroupCheckType, LockTwiceType DEF CreateGroup
  <2>10. CASE JoinGroup(w)
    BY <2>10, JoinGroupCheckType, LockTwiceType DEF JoinGroup, InDb
  <2> QED
    BY <1>2, <2>1, <2>2, <2>3, <2>4, <2>5, <2>6, <2>7, <2>8, <2>9, <2>10 DEF Run
<1>3. CASE Crash
  BY <1>3, CrashType
<1>4. CASE UNCHANGED vars
  <2>1. DatabaseTypeOK'
    BY <1>4 DEF vars, tables, TypeOK, DatabaseTypeOK
  <2>2. ServerTypeOK'
    BY <1>4 DEF vars, queue, locals, presence, TypeOK, ServerTypeOK
  <2>3. \A w \in Worker : WorkerTypeOK(w)'
    BY <1>4 DEF vars, tables, locals, TypeOK, WorkerTypeOK, Req
  <2> QED  BY <1>4, <2>1, <2>2, <2>3, TablesStay DEF TypeOK, vars
<1> QED  BY <1>1, <1>2, <1>3, <1>4 DEF Next, Quiet

(* In every state the tables, the queue and the threads have their types   *)
(* and every handler finds the locals it reads, for any number of threads, *)
(* requests, failed statements and kills.                                  *)
THEOREM TypeCorrect == Spec => []TypeOK
<1>1. TypeOK /\ [Next]_vars => TypeOK'  BY StepType
<1> QED  BY InitTypeOK, <1>1, PTL DEF Spec

-----------------------------------------------------------------------------
(* Where a handler can have come from.                                     *)
AddingFriend(w) == pc[w] \in {"addFriend1", "addFriend2"}

CameFrom(w) ==
  /\ AddingFriend(w)' => task'[w] = task[w] /\ (AddingFriend(w) \/ UpdateStatus(w))
  /\ pc'[w] = "deliver" => task'[w] = task[w] /\ (pc[w] = "deliver" \/ CheckFriend(w))
  /\ pc'[w] = "storeMessage"
     => task'[w] = task[w] /\ (pc[w] = "storeMessage" \/ Deliver(w))

LEMMA OthersCameFrom ==
  ASSUME NEW w \in Worker, OthersKeep(w), NEW v \in Worker, v # w
  PROVE  CameFrom(v)
BY DEF OthersKeep, CameFrom, AddingFriend

LEMMA FinishCameFrom ==
  ASSUME TypeOK, NEW w \in Worker, Finish(w), NEW v \in Worker
  PROVE  CameFrom(v)
<1>1. OthersKeep(w) /\ pc'[w] = "idle"
  BY DEF TypeOK, ServerTypeOK, OthersKeep, Finish, Goto
<1> QED  BY <1>1, OthersCameFrom DEF CameFrom, AddingFriend

LEMMA CallCameFrom ==
  ASSUME TypeOK, NEW w \in Worker, NEW call, Goto(w, call),
         UNCHANGED <<task, inbox, userId>>,
         \A v \in Worker \ {w} : result'[v] = result[v],
         \/ call \notin {"addFriend1", "addFriend2", "deliver", "storeMessage"}
         \/ call = "addFriend1" /\ UpdateStatus(w)
         \/ call = "addFriend2" /\ AddingFriend(w)
         \/ call = "deliver" /\ CheckFriend(w)
         \/ call = "storeMessage" /\ Deliver(w),
         NEW v \in Worker
  PROVE  CameFrom(v)
<1>1. OthersKeep(w) /\ pc'[w] = call
  BY DEF TypeOK, ServerTypeOK, OthersKeep, Goto
<1> QED  BY <1>1, OthersCameFrom DEF CameFrom, AddingFriend

LEMMA StepCameFrom ==
  ASSUME TypeOK, [Next]_vars, NEW v \in Worker
  PROVE  CameFrom(v)
<1>1. ASSUME NEW r \in Requests, Receive(r)  PROVE CameFrom(v)
  BY <1>1 DEF Receive, CameFrom, AddingFriend
<1>2. CASE Crash \/ UNCHANGED vars
  BY <1>2 DEF Crash, vars, CameFrom, AddingFriend
<1>3. ASSUME NEW w \in Worker, Run(w)  PROVE CameFrom(v)
  <2>1. CASE Drop(w) \/ EraseDeleted(w) \/ PushOffline(w) \/ List(w)
    BY <2>1, FinishCameFrom DEF Drop, EraseDeleted, PushOffline, List
  <2>2. CASE Respond(w) \/ LoginResp(w)
    BY <2>2, FinishCameFrom, CallCameFrom DEF Respond, LoginResp, locals
  <2>3. CASE Dequeue(w)
    <3>1. pc' = [pc EXCEPT ![w] = handlePacket(Head(tasks).req.type)] /\ OthersKeep(w)
      BY <2>3 DEF Dequeue, Goto, OthersKeep, TypeOK, ServerTypeOK, locals
    <3>2. pc'[w] \notin {"addFriend1", "addFriend2", "deliver", "storeMessage"}
      BY <3>1, FirstCall DEF TypeOK, ServerTypeOK
    <3> QED  BY <3>1, <3>2, OthersCameFrom DEF CameFrom, AddingFriend
  <2>4. CASE RegisterUser(w) \/ UpdateUser(w) \/ DeleteUser(w) \/ DeleteFriend(w) \/ SetBlocked(w)
    <3>1. /\ Goto(w, "respond") /\ \E ok : result' = [result EXCEPT ![w] = ok]
          /\ UNCHANGED <<task, inbox, userId>>
      BY <2>4 DEF RegisterUser, UpdateUser, DeleteUser, DeleteFriend, SetBlocked, Answer,
                  DbCallOnly, locals
    <3>2. \A u \in Worker \ {w} : result'[u] = result[u]
      BY <3>1 DEF TypeOK, ServerTypeOK
    <3> QED  BY <3>1, <3>2, CallCameFrom
  <2>5. CASE Logout(w) \/ GoOnline(w) \/ StoreMessage(w) \/ AddFriend1(w) \/ AddFriend2(w)
    <3>1. /\ \E call : Goto(w, call)
          /\ \A u \in Worker \ {w} : result'[u] = result[u]
          /\ UNCHANGED <<task, inbox, userId>>
      BY <2>5 DEF Logout, GoOnline, StoreMessage, AddFriend1, AddFriend2, Answer,
                  DbCallOnly, locals, TypeOK, ServerTypeOK
    <3>2. \/ pc'[w] \notin {"addFriend1", "addFriend2", "deliver", "storeMessage"}
          \/ pc'[w] = "addFriend2" /\ AddingFriend(w)
      BY <2>5 DEF Logout, GoOnline, StoreMessage, AddFriend1, AddFriend2, Answer, Goto,
                  TypeOK, ServerTypeOK, AddingFriend, InDb
    <3>3. Goto(w, pc'[w])  BY <3>1 DEF Goto, TypeOK, ServerTypeOK
    <3> QED  BY <3>1, <3>2, <3>3, CallCameFrom
  <2>6. CASE VerifyUser(w) \/ LoadOffline(w) \/ MarkDelivered(w)
    <3>1. OthersKeep(w) /\ pc'[w] \in {"goOnline", "loginResp", "markDelivered"}
      BY <2>6 DEF VerifyUser, LoadOffline, MarkDelivered, InDb, Goto, OthersKeep,
                  TypeOK, ServerTypeOK
    <3> QED  BY <3>1, OthersCameFrom DEF CameFrom, AddingFriend
  <2>7. CASE HandleFriendRequest(w)
    <3>1. PICK call \in {"exists2", "exists3", "insert", "respond"} :
            /\ Goto(w, call)
            /\ UNCHANGED <<task, inbox, userId>>
            /\ UNCHANGED result \/ \E ok : result' = [result EXCEPT ![w] = ok]
      BY <2>7 DEF HandleFriendRequest, SelfRequest, CheckPending, InsertRequest, Answer,
                  DbCallOnly, locals
    <3>2. \A u \in Worker \ {w} : result'[u] = result[u]
      BY <3>1 DEF TypeOK, ServerTypeOK
    <3> QED  BY <3>1, <3>2, CallCameFrom
  <2>8. CASE UpdateStatus(w)
    <3>1. PICK call \in {"addFriend1", "respond"} :
            /\ Goto(w, call)
            /\ UNCHANGED <<task, inbox, userId>>
            /\ UNCHANGED result \/ \E ok : result' = [result EXCEPT ![w] = ok]
      BY <2>8 DEF UpdateStatus, Answer, DbCallOnly, locals
    <3>2. \A u \in Worker \ {w} : result'[u] = result[u]
      BY <3>1 DEF TypeOK, ServerTypeOK
    <3> QED  BY <2>8, <3>1, <3>2, CallCameFrom
  <2>9. CASE CheckFriend(w) \/ Deliver(w)
    <3>1. PICK call \in {"deliver", "storeMessage", "respond"} :
            /\ Goto(w, call)
            /\ UNCHANGED <<task, inbox, userId>>
            /\ UNCHANGED result \/ \E ok : result' = [result EXCEPT ![w] = ok]
            /\ call = "deliver" => CheckFriend(w)
            /\ call = "storeMessage" => Deliver(w)
      BY <2>9 DEF CheckFriend, Deliver, Answer, DbCallOnly, locals
    <3>2. \A u \in Worker \ {w} : result'[u] = result[u]
      BY <3>1 DEF TypeOK, ServerTypeOK
    <3> QED  BY <3>1, <3>2, CallCameFrom
  <2>10. CASE CreateGroup(w) \/ JoinGroup(w)
    <3>1. PICK call \in {"createGroup", "isUserInGroup", "addUserToGroup", "relock", "respond"} :
            /\ Goto(w, call)
            /\ UNCHANGED <<task, inbox, userId>>
            /\ UNCHANGED result \/ \E ok : result' = [result EXCEPT ![w] = ok]
      BY <2>10 DEF CreateGroup, JoinGroup, LockTwice, Answer, DbCallOnly, locals
    <3>2. \A u \in Worker \ {w} : result'[u] = result[u]
      BY <3>1 DEF TypeOK, ServerTypeOK
    <3> QED  BY <3>1, <3>2, CallCameFrom
  <2> QED
    BY <1>3, <2>1, <2>2, <2>3, <2>4, <2>5, <2>6, <2>7, <2>8, <2>9, <2>10
    DEF Run, Login, FriendRequestAction, PrivateMessage
<1> QED  BY <1>1, <1>2, <1>3 DEF Next, Quiet

-----------------------------------------------------------------------------
(* Friendship and messages only between users who answered a request.      *)
(* FriendRowsAuthorised is not inductive: the handler that adds the rows,  *)
(* and the one that stores a message, carry the fact between their calls.  *)
HandlersAuthorised ==
  \A w \in Worker :
    /\ AddingFriend(w) => friendRequests[Req(w).requestId].status # 0
    /\ pc[w] \in {"deliver", "storeMessage"} => Acquainted(Req(w).userId, Req(w).friendId)

AuthorisedInv == FriendRowsAuthorised /\ MessagesAuthorised /\ HandlersAuthorised

(* Acquainted(u, f) in the next state, for u and f of either state.        *)
AcquaintedNext(u, f) ==
  \E i \in DOMAIN friendRequests' : AnsweredBetween(friendRequests'[i], u, f)

LEMMA AcquaintedStays ==
  ASSUME RequestsGrow, NEW u, NEW f, Acquainted(u, f)
  PROVE  AcquaintedNext(u, f)
BY DEF RequestsGrow, Acquainted, AcquaintedNext, AnsweredBetween

LEMMA InitAuthorised == Init => AuthorisedInv
<1> SUFFICES ASSUME Init  PROVE AuthorisedInv
  OBVIOUS
<1>1. FriendRowsAuthorised
  BY DatabaseAssumption DEF Init, InitTables, FriendRowsAuthorised, Acquainted
<1>2. MessagesAuthorised  BY DEF Init, InitTables, MessagesAuthorised
<1>3. HandlersAuthorised  BY DEF Init, HandlersAuthorised, AddingFriend
<1> QED  BY <1>1, <1>2, <1>3 DEF AuthorisedInv

(* The statements that write Friends, and the one that adds a message.     *)
LEMMA FriendsKinds ==
  ASSUME NEW w \in Worker, Run(w)
  PROVE  \/ UNCHANGED friends
         \/ DeleteFriend(w) \/ SetBlocked(w) \/ AddFriend1(w) \/ AddFriend2(w)
BY DEF Run, Login, HandleFriendRequest, FriendRequestAction, PrivateMessage, tables,
   Dequeue, Drop, Respond, RegisterUser, registerUser, UpdateUser, updateUser, DeleteUser,
   deleteUser, EraseDeleted, Logout, VerifyUser, GoOnline, LoginResp, LoadOffline,
   MarkDelivered, markDelivered, PushOffline, SelfRequest, CheckPending, InsertRequest,
   insertFriendRequest, UpdateStatus, updateRequestStatus, List, CheckFriend, Deliver,
   StoreMessage, storeMessage, CreateGroup, JoinGroup, LockTwice, selectRows, selectFound

LEMMA FriendsStep ==
  ASSUME TypeOK, [Next]_vars, NEW r \in friends'
  PROVE  \/ \E q \in friends : q.userId = r.userId /\ q.friendId = r.friendId
         \/ \E w \in Worker : /\ AddingFriend(w)
                             /\ {r.userId, r.friendId} = {Asker(w), Asked(w)}
<1>1. CASE UNCHANGED friends
  BY <1>1
<1>2. ASSUME NEW w \in Worker, DeleteFriend(w) \/ SetBlocked(w)
      PROVE  \E q \in friends : q.userId = r.userId /\ q.friendId = r.friendId
  <2>1. Req(w).userId \in UserId /\ Req(w).friendId \in UserId
    BY <1>2, AtCall, CallType, RequestFields DEF DeleteFriend, SetBlocked, InDb
  <2>2. CASE DeleteFriend(w)
    BY <2>1, <2>2, DeleteFriendType DEF DeleteFriend, TypeOK
  <2>3. CASE SetBlocked(w)
    <3> DEFINE flag == Req(w).type = "BLOCK_USER_REQ"
    <3>1. PICK ok \in BOOLEAN : setBlocked(Req(w).userId, Req(w).friendId, flag, ok)
      BY <2>3 DEF SetBlocked
    <3>2. flag \in BOOLEAN  OBVIOUS
    <3> HIDE DEF flag
    <3> QED  BY <2>1, <3>1, <3>2, SetBlockedType DEF TypeOK
  <2> QED  BY <1>2, <2>2, <2>3
<1>3. ASSUME NEW w \in Worker, AddFriend1(w) \/ AddFriend2(w)
      PROVE  r \in friends \/ (AddingFriend(w) /\ {r.userId, r.friendId} = {Asker(w), Asked(w)})
  <2>1. AddingFriend(w) /\ Asker(w) \in UserId /\ Asked(w) \in UserId
    BY <1>3, AskerTyped DEF AddFriend1, AddFriend2, InDb, AddingFriend
  <2>2. PICK ok \in BOOLEAN : \/ addFriend(Asker(w), Asked(w), ok)
                              \/ addFriend(Asked(w), Asker(w), ok)
    BY <1>3 DEF AddFriend1, AddFriend2
  <2>3. CASE addFriend(Asker(w), Asked(w), ok)
    BY <2>1, <2>3, AddFriendType DEF TypeOK
  <2>4. CASE addFriend(Asked(w), Asker(w), ok)
    BY <2>1, <2>4, AddFriendType DEF TypeOK
  <2> QED  BY <2>2, <2>3, <2>4
<1>4. ASSUME NEW w \in Worker, Run(w)
      PROVE  \/ UNCHANGED friends
             \/ DeleteFriend(w) \/ SetBlocked(w) \/ AddFriend1(w) \/ AddFriend2(w)
  BY <1>4, FriendsKinds
<1>5. ASSUME NEW q \in Requests, Receive(q)  PROVE UNCHANGED friends
  BY <1>5 DEF Receive, tables
<1>6. Crash \/ UNCHANGED vars => UNCHANGED friends
  BY DEF Crash, vars, tables
<1> QED  BY <1>1, <1>2, <1>3, <1>4, <1>5, <1>6 DEF Next, Quiet

LEMMA MessagesStep ==
  ASSUME TypeOK, [Next]_vars
  PROVE  \/ UNCHANGED messages
         \/ \E w \in Worker : StoreMessage(w) \/ MarkDelivered(w)
<1>1. ASSUME NEW w \in Worker, Run(w)
      PROVE  UNCHANGED messages \/ StoreMessage(w) \/ MarkDelivered(w)
  BY <1>1 DEF Run, Login, HandleFriendRequest, FriendRequestAction, PrivateMessage, tables,
     Dequeue, Drop, Respond, RegisterUser, registerUser, UpdateUser, updateUser, DeleteUser,
     deleteUser, EraseDeleted, Logout, VerifyUser, GoOnline, LoginResp, LoadOffline,
     PushOffline, SelfRequest, CheckPending, InsertRequest, insertFriendRequest,
     UpdateStatus, updateRequestStatus, AddFriend1, AddFriend2, addFriend, DeleteFriend,
     deleteFriend, SetBlocked, setBlocked, List, CheckFriend, Deliver, CreateGroup,
     JoinGroup, LockTwice, selectRows,
     selectFound
<1>2. ASSUME NEW q \in Requests, Receive(q)  PROVE UNCHANGED messages
  BY <1>2 DEF Receive, tables
<1>3. Crash \/ UNCHANGED vars => UNCHANGED messages
  BY DEF Crash, vars, tables
<1> QED  BY <1>1, <1>2, <1>3 DEF Next, Quiet

LEMMA StepAuthorised ==
  ASSUME TypeOK, AuthorisedInv, [Next]_vars
  PROVE  AuthorisedInv'
<1>0. RequestsGrow /\ MessagesGrow /\ TypeOK'  BY StepType DEF TablesGrow
<1>1. FriendRowsAuthorised'
  <2> SUFFICES ASSUME NEW r \in friends'  PROVE AcquaintedNext(r.userId, r.friendId)
    BY DEF FriendRowsAuthorised, Acquainted, AcquaintedNext
  <2>1. ASSUME NEW q \in friends, q.userId = r.userId, q.friendId = r.friendId
        PROVE  Acquainted(r.userId, r.friendId)
    BY <2>1 DEF AuthorisedInv, FriendRowsAuthorised
  <2>2. ASSUME NEW w \in Worker, AddingFriend(w), {r.userId, r.friendId} = {Asker(w), Asked(w)}
        PROVE  Acquainted(r.userId, r.friendId)
    <3>1. Req(w).requestId \in DOMAIN friendRequests
      BY <2>2, AskerTyped DEF AddingFriend
    <3>2. friendRequests[Req(w).requestId].status # 0
      BY <2>2 DEF AuthorisedInv, HandlersAuthorised
    <3> QED  BY <2>2, <3>1, <3>2 DEF Acquainted, AnsweredBetween, Asker, Asked
  <2>3. Acquainted(r.userId, r.friendId)  BY <2>1, <2>2, FriendsStep
  <2> QED  BY <1>0, <2>3, AcquaintedStays
<1>2. MessagesAuthorised'
  <2> SUFFICES ASSUME NEW m \in DOMAIN messages'
               PROVE  AcquaintedNext(messages'[m].sender, messages'[m].receiver)
    BY DEF MessagesAuthorised, Acquainted, AcquaintedNext
  <2>1. CASE m \in DOMAIN messages
    <3>1. Acquainted(messages[m].sender, messages[m].receiver)
      BY <2>1 DEF AuthorisedInv, MessagesAuthorised
    <3>2. /\ messages'[m].sender = messages[m].sender
          /\ messages'[m].receiver = messages[m].receiver
      BY <1>0, <2>1 DEF MessagesGrow
    <3>3. AcquaintedNext(messages[m].sender, messages[m].receiver)
      BY <1>0, <3>1, AcquaintedStays
    <3> QED  BY <3>2, <3>3
  <2>2. CASE m \notin DOMAIN messages
    <3>1. PICK w \in Worker : StoreMessage(w)
      <4>1. ASSUME NEW w \in Worker, MarkDelivered(w)
            PROVE  DOMAIN messages' = DOMAIN messages
        <5>1. PICK k \in inbox[w], ok \in BOOLEAN : markDelivered(k, ok)
          BY <4>1 DEF MarkDelivered
        <5>2. k \in DOMAIN messages  BY <5>1 DEF TypeOK, WorkerTypeOK
        <5> QED  BY <5>1, <5>2, MarkType DEF TypeOK
      <4> QED  BY <2>2, <4>1, MessagesStep
    <3>2. /\ pc[w] = "storeMessage" /\ Req(w).userId \in UserId /\ Req(w).friendId \in UserId
          /\ task[w].n \in Nat
      BY <3>1, AtCall, CallType, RequestFields DEF StoreMessage, InDb
    <3>3. /\ messages'[m].sender = Req(w).userId /\ messages'[m].receiver = Req(w).friendId
          /\ UNCHANGED friendRequests
      BY <2>2, <3>1, <3>2, StoreType DEF StoreMessage, storeMessage, TypeOK
    <3>4. Acquainted(Req(w).userId, Req(w).friendId)
      BY <3>2 DEF AuthorisedInv, HandlersAuthorised
    <3> QED  BY <3>3, <3>4 DEF Acquainted, AcquaintedNext
  <2> QED  BY <2>1, <2>2
<1>3. HandlersAuthorised'
  <2> SUFFICES ASSUME NEW w \in Worker
               PROVE  /\ AddingFriend(w)' => friendRequests'[task'[w].req.requestId].status # 0
                      /\ pc'[w] \in {"deliver", "storeMessage"}
                         => AcquaintedNext(task'[w].req.userId, task'[w].req.friendId)
    BY DEF HandlersAuthorised, Req, Acquainted, AcquaintedNext
  <2>0. CameFrom(w)  BY StepCameFrom
  <2>1. ASSUME AddingFriend(w)'
        PROVE  friendRequests'[task'[w].req.requestId].status # 0
    <3>1. task'[w] = task[w]  BY <2>0, <2>1 DEF CameFrom
    <3>2. CASE AddingFriend(w)
      <4>1. /\ Req(w).requestId \in DOMAIN friendRequests
            /\ friendRequests[Req(w).requestId].status # 0
        BY <3>2, AskerTyped DEF AddingFriend, AuthorisedInv, HandlersAuthorised
      <4> QED  BY <1>0, <3>1, <4>1 DEF RequestsGrow, Req
    <3>3. CASE UpdateStatus(w)
      <4>1. pc'[w] = "addFriend1"
        BY <2>1, <3>3 DEF UpdateStatus, Goto, Answer, AddingFriend, TypeOK, ServerTypeOK
      <4> QED  BY <3>1, <3>3, <4>1, UpdateStatusStepType DEF Req
    <3> QED  BY <2>0, <2>1, <3>2, <3>3 DEF CameFrom
  <2>2. ASSUME pc'[w] \in {"deliver", "storeMessage"}
        PROVE  AcquaintedNext(task'[w].req.userId, task'[w].req.friendId)
    <3>1. task'[w] = task[w]  BY <2>0, <2>2 DEF CameFrom
    <3>2. Acquainted(Req(w).userId, Req(w).friendId)
      <4>1. CASE pc[w] \in {"deliver", "storeMessage"}
        BY <4>1 DEF AuthorisedInv, HandlersAuthorised
      <4>2. CASE CheckFriend(w) /\ pc'[w] = "deliver"
        <5>1. MayMessage(Req(w).userId, Req(w).friendId)
          BY <4>2 DEF CheckFriend, selectFound, Answer, Goto, TypeOK, ServerTypeOK
        <5> QED
          BY <5>1 DEF MayMessage, getFriends, AuthorisedInv, FriendRowsAuthorised
      <4>3. CASE Deliver(w)
        BY <4>1, <4>3 DEF Deliver
      <4> QED  BY <2>0, <2>2, <4>1, <4>2, <4>3 DEF CameFrom
    <3> QED  BY <1>0, <3>1, <3>2, AcquaintedStays DEF Req
  <2> QED  BY <2>1, <2>2
<1> QED  BY <1>1, <1>2, <1>3 DEF AuthorisedInv

(* Nobody is anybody's friend, and no message is stored, without a request *)
(* between the two that was answered: whatever fails or dies on the way.   *)
THEOREM FriendRowsAlwaysAuthorised == Spec => [](FriendRowsAuthorised /\ MessagesAuthorised)
<1>1. Init => TypeOK /\ AuthorisedInv  BY InitTypeOK, InitAuthorised
<1>2. TypeOK /\ AuthorisedInv /\ [Next]_vars => (TypeOK /\ AuthorisedInv)'
  BY StepType, StepAuthorised
<1>3. AuthorisedInv => FriendRowsAuthorised /\ MessagesAuthorised  BY DEF AuthorisedInv
<1> QED  BY <1>1, <1>2, <1>3, PTL DEF Spec

(* A stored message is between users who had a request between them        *)
(* answered (handlePrivateMessage).                                        *)
THEOREM MessagesAlwaysAuthorised == Spec => []MessagesAuthorised
BY FriendRowsAlwaysAuthorised, PTL

-----------------------------------------------------------------------------
(* Offline messages.  What a step of one worker does to the others, to the *)
(* datagrams sent and to the lock of the map of online clients.            *)
LocalsKeep(w) ==
  OthersKeep(w) /\ \A v \in Worker \ {w} : payload'[v] = payload[v]

LEMMA FinishLocals ==
  ASSUME TypeOK, NEW w \in Worker, Finish(w)
  PROVE  LocalsKeep(w) /\ pc'[w] = "idle"
BY DEF LocalsKeep, OthersKeep, Finish, Goto, TypeOK, ServerTypeOK

LEMMA CallLocals ==
  ASSUME TypeOK, NEW w \in Worker, NEW call, Goto(w, call), UNCHANGED <<task, locals>>,
         UNCHANGED result \/ \E ok : result' = [result EXCEPT ![w] = ok]
  PROVE  LocalsKeep(w) /\ pc'[w] = call
BY DEF LocalsKeep, OthersKeep, Goto, locals, TypeOK, ServerTypeOK

(* The calls of a login; every other step is of one of the other kinds.    *)
LoginCall == {"goOnline", "loginResp", "loadOffline", "markDelivered"}

LEMMA StepLocals ==
  ASSUME TypeOK, NEW w \in Worker, Run(w)
  PROVE  /\ LocalsKeep(w)
         /\ pc'[w] = "loadOffline" => LoginResp(w)
         /\ pc'[w] = "markDelivered" => LoadOffline(w) \/ MarkDelivered(w)
         /\ pc'[w] = "loginResp" => VerifyUser(w) \/ GoOnline(w)
<1>1. CASE Drop(w) \/ EraseDeleted(w) \/ PushOffline(w) \/ List(w)
  BY <1>1, FinishLocals DEF Drop, EraseDeleted, PushOffline, List
<1>2. CASE Respond(w) \/ LoginResp(w)
  BY <1>2, FinishLocals, CallLocals DEF Respond, LoginResp
<1>3. CASE Dequeue(w)
  <2>1. pc' = [pc EXCEPT ![w] = handlePacket(Head(tasks).req.type)] /\ LocalsKeep(w)
    BY <1>3 DEF Dequeue, Goto, LocalsKeep, OthersKeep, TypeOK, ServerTypeOK, locals
  <2>2. pc'[w] \notin LoginCall
    BY <2>1, FirstCall DEF TypeOK, ServerTypeOK, LoginCall
  <2> QED  BY <2>1, <2>2 DEF LoginCall
<1>4. CASE VerifyUser(w) \/ GoOnline(w) \/ LoadOffline(w) \/ MarkDelivered(w)
  BY <1>4 DEF VerifyUser, GoOnline, LoadOffline, MarkDelivered, InDb, Goto, LocalsKeep,
              OthersKeep, locals, TypeOK, ServerTypeOK
<1>5. ASSUME \/ RegisterUser(w) \/ UpdateUser(w) \/ DeleteUser(w) \/ Logout(w)
             \/ DeleteFriend(w) \/ SetBlocked(w) \/ HandleFriendRequest(w)
             \/ FriendRequestAction(w) \/ PrivateMessage(w)
             \/ CreateGroup(w) \/ JoinGroup(w)
      PROVE  \E call : /\ call \notin LoginCall /\ Goto(w, call) /\ UNCHANGED <<task, locals>>
                       /\ UNCHANGED result \/ \E ok : result' = [result EXCEPT ![w] = ok]
  <2>1. CASE RegisterUser(w) \/ UpdateUser(w) \/ DeleteUser(w) \/ Logout(w)
    BY <2>1 DEF RegisterUser, UpdateUser, DeleteUser, Logout, Answer, DbCallOnly, LoginCall
  <2>2. CASE DeleteFriend(w) \/ SetBlocked(w) \/ FriendRequestAction(w)
    BY <2>2 DEF DeleteFriend, SetBlocked, FriendRequestAction, UpdateStatus, AddFriend1,
                AddFriend2, Answer, DbCallOnly, LoginCall
  <2>3. CASE HandleFriendRequest(w)
    BY <2>3 DEF HandleFriendRequest, SelfRequest, CheckPending, InsertRequest, Answer,
                DbCallOnly, LoginCall
  <2>4. CASE PrivateMessage(w)
    BY <2>4 DEF PrivateMessage, CheckFriend, Deliver, StoreMessage, Answer, DbCallOnly,
                LoginCall
  <2>5. CASE CreateGroup(w) \/ JoinGroup(w)
    BY <2>5 DEF CreateGroup, JoinGroup, LockTwice, Answer, DbCallOnly, LoginCall
  <2> QED  BY <1>5, <2>1, <2>2, <2>3, <2>4, <2>5
<1> QED
  BY <1>1, <1>2, <1>3, <1>4, <1>5, CallLocals DEF Run, Login, LoginCall

(* The only step from a call is the action of that call.                   *)
LEMMA OwnStep ==
  ASSUME NEW w \in Worker, Run(w)
  PROVE  /\ pc[w] = "loginResp" => LoginResp(w)
         /\ pc[w] = "loadOffline" => LoadOffline(w)
         /\ pc[w] = "markDelivered" => MarkDelivered(w) \/ PushOffline(w)
         /\ pc[w] = "storeMessage" => StoreMessage(w)
         /\ pc[w] = "addFriend1" => AddFriend1(w)
         /\ pc[w] = "addFriend2" => AddFriend2(w)
         /\ pc[w] = "respond" => Respond(w)
         /\ pc[w] = "list" => List(w)
         /\ pc[w] = "eraseDeleted" => EraseDeleted(w)
BY DEF Run, Login, HandleFriendRequest, FriendRequestAction, PrivateMessage, InDb,
   Dequeue, Drop, Respond, RegisterUser, UpdateUser, DeleteUser, EraseDeleted, Logout,
   VerifyUser, GoOnline, LoginResp, LoadOffline, MarkDelivered, PushOffline, SelfRequest,
   CheckPending, InsertRequest, UpdateStatus, AddFriend1, AddFriend2, DeleteFriend,
   SetBlocked, List, CheckFriend, Deliver, StoreMessage, CreateGroup, JoinGroup, LockTwice

LEMMA SentGrows == ASSUME [Next]_vars  PROVE sent \subseteq sent'
<1>1. ASSUME NEW w \in Worker, Run(w)  PROVE sent \subseteq sent'
  BY <1>1 DEF Run, Login, HandleFriendRequest, FriendRequestAction, PrivateMessage,
     DbCallOnly, Send, Dequeue, Drop, Respond, RegisterUser, UpdateUser, DeleteUser,
     EraseDeleted, Logout, VerifyUser, GoOnline, LoginResp, LoadOffline, MarkDelivered,
     PushOffline, SelfRequest, CheckPending, InsertRequest, UpdateStatus, AddFriend1,
     AddFriend2, DeleteFriend, SetBlocked, List, CheckFriend, Deliver, StoreMessage,
     CreateGroup, JoinGroup, LockTwice
<1> QED  BY <1>1 DEF Next, Quiet, Receive, Crash, vars

LEMMA PresenceStep ==
  ASSUME NEW w \in Worker, Run(w)
  PROVE  /\ UNCHANGED clientsMutex \/ Deliver(w) \/ StoreMessage(w)
         /\ UNCHANGED skipped \/ LoadOffline(w)
         /\ \/ UNCHANGED onlineClients \/ GoOnline(w)
            \/ clientsMutex = NoWorker
               /\ onlineClients' = [onlineClients EXCEPT ![Req(w).userId] = NoAddr]
BY DEF Run, Login, HandleFriendRequest, FriendRequestAction, PrivateMessage,
   DbCallOnly, presence, Dequeue, Drop, Respond, RegisterUser, UpdateUser, DeleteUser,
   EraseDeleted, Logout, VerifyUser, LoginResp, LoadOffline, MarkDelivered,
   PushOffline, SelfRequest, CheckPending, InsertRequest, UpdateStatus, AddFriend1,
   AddFriend2, DeleteFriend, SetBlocked, List, CheckFriend, Deliver, StoreMessage,
   CreateGroup, JoinGroup, LockTwice, GoOnline

(* OnlineInboxCovered is not inductive: a message must not reach the table *)
(* after its receiver went online and loaded the table.  What rules that   *)
(* out is that a handler that stores holds the lock, and that the receiver *)
(* stays offline while it does.                                            *)
LockHeld == \A w \in Worker : pc[w] = "storeMessage" <=> clientsMutex = w

StoringForOffline ==
  \A w \in Worker : pc[w] = "storeMessage" => onlineClients[Req(w).friendId] = NoAddr

(* A login that is at the offline list has its answer in sent.             *)
LoginAcked(w) ==
  pc[w] \in {"loadOffline", "markDelivered"} =>
    \E d \in sent : /\ d.type = "LOGIN_RESP" /\ d.ok /\ <<userId[w]>> \in d.body
                   /\ d.n = task[w].n /\ d.to = Req(w).addr

LoginsAcked == \A w \in Worker : LoginAcked(w)

(* The rows a login has loaded are its user's.                             *)
InboxOwned ==
  \A w \in Worker : pc[w] = "markDelivered" =>
    \A m \in inbox[w] : messages[m].receiver = userId[w]

MailInv ==
  /\ LockHeld /\ StoringForOffline /\ LoginsAcked /\ InboxOwned
  /\ OnlineInboxCovered /\ DeliveredWasPushed

LEMMA InitMail == Init => MailInv
<1> SUFFICES ASSUME Init  PROVE MailInv
  OBVIOUS
<1>1. LockHeld /\ StoringForOffline /\ LoginsAcked /\ InboxOwned
  BY ServerAssumption
  DEF Init, LockHeld, StoringForOffline, LoginsAcked, LoginAcked, InboxOwned
<1>2. OnlineInboxCovered /\ DeliveredWasPushed
  BY DEF Init, InitTables, OnlineInboxCovered, DeliveredWasPushed
<1> QED  BY <1>1, <1>2 DEF MailInv

LEMMA StepLockHeld ==
  ASSUME TypeOK, LockHeld, [Next]_vars
  PROVE  LockHeld'
<1>1. CASE Crash
  BY <1>1, ServerAssumption DEF Crash, LockHeld
<1>2. ASSUME NEW w \in Worker, Run(w)  PROVE LockHeld'
  <2>0. /\ LocalsKeep(w) /\ CameFrom(w)
        /\ \A v \in Worker \ {w} : pc'[v] = pc[v]
        /\ pc \in [Worker -> Call \cup {"idle"}] /\ clientsMutex \in Worker \cup {NoWorker}
    BY <1>2, StepLocals, StepCameFrom DEF LocalsKeep, OthersKeep, TypeOK, ServerTypeOK
  <2>1. CASE Deliver(w) /\ clientsMutex' = w
    <3>1. clientsMutex = NoWorker /\ pc'[w] = "storeMessage"
      BY <2>0, <2>1, ServerAssumption DEF Deliver, Goto
    <3> QED  BY <2>0, <2>1, <3>1, ServerAssumption DEF LockHeld
  <2>2. CASE StoreMessage(w)
    <3>1. clientsMutex' = NoWorker /\ pc'[w] = "respond" /\ pc[w] = "storeMessage"
      BY <2>0, <2>2 DEF StoreMessage, Answer, Goto, InDb
    <3> QED  BY <2>0, <3>1, ServerAssumption DEF LockHeld
  <2>3. CASE UNCHANGED clientsMutex /\ ~StoreMessage(w)
    <3>1. pc[w] # "storeMessage"  BY <1>2, <2>3, OwnStep
    <3>2. pc'[w] # "storeMessage"
      <4>1. CASE Deliver(w)
        BY <2>0, <2>3, <4>1, ServerAssumption DEF Deliver, Answer, Goto
      <4> QED  BY <2>0, <3>1, <4>1 DEF CameFrom
    <3> QED  BY <2>0, <2>3, <3>1, <3>2 DEF LockHeld
  <2>4. Deliver(w) => clientsMutex' = w \/ UNCHANGED clientsMutex
    BY DEF Deliver
  <2> QED  BY <1>2, <2>1, <2>2, <2>3, <2>4, PresenceStep
<1>3. CASE \E r \in Requests : Receive(r)
  BY <1>3 DEF Receive, presence, LockHeld
<1>4. CASE UNCHANGED vars
  BY <1>4 DEF vars, presence, LockHeld
<1> QED  BY <1>1, <1>2, <1>3, <1>4 DEF Next, Quiet

LEMMA StepStoring ==
  ASSUME TypeOK, LockHeld, StoringForOffline, [Next]_vars
  PROVE  StoringForOffline'
<1> SUFFICES ASSUME NEW v \in Worker, pc'[v] = "storeMessage"
             PROVE  onlineClients'[task'[v].req.friendId] = NoAddr
  BY DEF StoringForOffline, Req
<1>0. /\ task'[v] = task[v] /\ (pc[v] = "storeMessage" \/ Deliver(v))
      /\ onlineClients \in [UserId -> Addr \cup {NoAddr}]
  BY StepCameFrom DEF CameFrom, TypeOK, ServerTypeOK
<1>1. Req(v).friendId \in UserId
  <2>1. pc[v] \in {"deliver", "storeMessage"}  BY <1>0 DEF Deliver
  <2>2. Req(v) \in Request /\ Req(v).type = "PRIVATE_MSG_REQ"  BY <2>1, AtCall, CallType
  <2> QED  BY <2>2, RequestFields
<1>2. CASE Deliver(v)
  BY <1>0, <1>2 DEF Deliver, Answer, Goto, Req, TypeOK, ServerTypeOK
<1>3. CASE pc[v] = "storeMessage"
  <2>1. onlineClients[Req(v).friendId] = NoAddr /\ clientsMutex # NoWorker
    BY <1>3, ServerAssumption DEF StoringForOffline, LockHeld
  <2>2. ASSUME NEW w \in Worker, Run(w)  PROVE UNCHANGED onlineClients
    BY <2>1, <2>2, PresenceStep DEF GoOnline
  <2> QED
    BY <1>0, <2>1, <2>2, ServerAssumption, <1>1
    DEF Next, Quiet, Receive, Crash, vars, presence, Req
<1> QED  BY <1>0, <1>2, <1>3

LEMMA StepLoginsAcked ==
  ASSUME TypeOK, LoginsAcked, [Next]_vars
  PROVE  LoginsAcked'
<1> SUFFICES ASSUME NEW v \in Worker, pc'[v] \in {"loadOffline", "markDelivered"}
             PROVE  \E d \in sent' : /\ d.type = "LOGIN_RESP" /\ d.ok
                                    /\ <<userId'[v]>> \in d.body
                                    /\ d.n = task'[v].n /\ d.to = task'[v].req.addr
  BY DEF LoginsAcked, LoginAcked, Req
<1>0. sent \subseteq sent'  BY SentGrows
<1>1. CASE /\ pc[v] \in {"loadOffline", "markDelivered"}
           /\ task'[v] = task[v] /\ userId'[v] = userId[v]
  BY <1>0, <1>1 DEF LoginsAcked, LoginAcked, Req
<1>2. CASE Crash \/ UNCHANGED vars \/ \E r \in Requests : Receive(r)
  BY <1>1, <1>2 DEF Crash, vars, locals, Receive
<1>3. ASSUME NEW w \in Worker, Run(w), w # v
      PROVE  pc'[v] = pc[v] /\ task'[v] = task[v] /\ userId'[v] = userId[v]
  BY <1>3, StepLocals DEF LocalsKeep, OthersKeep
<1>4. CASE LoginResp(v)
  <2>1. /\ result[v] /\ UNCHANGED <<task, locals>> /\ pc[v] = "loginResp"
    BY <1>4 DEF LoginResp, Finish, Goto, TypeOK, ServerTypeOK
  <2>2. Req(v).type = "LOGIN_REQ"  BY <2>1, AtCall, CallType
  <2> DEFINE d == Datagram(Req(v).addr, task[v].n, "LOGIN_RESP", TRUE, {<<userId[v]>>})
  <2>3. d \in sent'
    BY <1>4, <2>1, <2>2 DEF LoginResp, Send, Response, TypeOK, ServerTypeOK
  <2>4. /\ d.type = "LOGIN_RESP" /\ d.ok /\ <<userId[v]>> \in d.body /\ d.n = task[v].n
        /\ d.to = Req(v).addr
    BY DEF Datagram
  <2> HIDE DEF d
  <2> QED  BY <2>1, <2>3, <2>4 DEF locals, Req
<1>5. CASE LoadOffline(v) \/ MarkDelivered(v)
  <2>1. /\ pc[v] \in {"loadOffline", "markDelivered"} /\ UNCHANGED <<task, userId>>
    BY <1>5 DEF LoadOffline, MarkDelivered, InDb
  <2> QED  BY <1>1, <2>1
<1> QED  BY <1>1, <1>2, <1>3, <1>4, <1>5, StepLocals DEF Next, Quiet

LEMMA StepInboxOwned ==
  ASSUME TypeOK, InboxOwned, [Next]_vars
  PROVE  InboxOwned'
<1>0. MessagesGrow  BY StepType DEF TablesGrow
<1> SUFFICES ASSUME NEW v \in Worker, pc'[v] = "markDelivered", NEW m \in inbox'[v]
             PROVE  messages'[m].receiver = userId'[v]
  BY DEF InboxOwned
<1>1. ASSUME pc[v] = "markDelivered", m \in inbox[v], userId'[v] = userId[v]
      PROVE  messages'[m].receiver = userId'[v]
  <2>1. m \in DOMAIN messages /\ messages[m].receiver = userId[v]
    BY <1>1 DEF InboxOwned, TypeOK, WorkerTypeOK
  <2> QED  BY <1>0, <1>1, <2>1 DEF MessagesGrow
<1>2. CASE Crash \/ UNCHANGED vars \/ \E r \in Requests : Receive(r)
  BY <1>1, <1>2 DEF Crash, vars, locals, Receive
<1>3. ASSUME NEW w \in Worker, Run(w), w # v
      PROVE  messages'[m].receiver = userId'[v]
  BY <1>1, <1>3, StepLocals DEF LocalsKeep, OthersKeep
<1>4. CASE LoadOffline(v)
  <2>1. /\ inbox'[v] \subseteq loadOffline(userId[v]) /\ userId'[v] = userId[v]
        /\ messages' = messages
    BY <1>4 DEF LoadOffline, selectRows, tables, TypeOK, ServerTypeOK
  <2> QED  BY <2>1 DEF loadOffline
<1>5. CASE MarkDelivered(v)
  <2>1. /\ pc[v] = "markDelivered" /\ inbox'[v] \subseteq inbox[v] /\ userId'[v] = userId[v]
    BY <1>5 DEF MarkDelivered, InDb, TypeOK, ServerTypeOK
  <2> QED  BY <1>1, <2>1
<1> QED  BY <1>2, <1>3, <1>4, <1>5, StepLocals DEF Next, Quiet

(* A message that is listed, or in the hands of a login, stays so until    *)
(* the list goes out, unless the process is killed.                        *)
LEMMA PushedStays ==
  ASSUME [Next]_vars, MessagesGrow, NEW m \in DOMAIN messages, Pushed(m)
  PROVE  Pushed(m)'
<1>1. PICK list, login \in sent :
        /\ list.type = "OFFLINE_MSG_LIST_RESP" /\ Entry(m) \in list.body
        /\ login.type = "LOGIN_RESP" /\ login.ok /\ <<messages[m].receiver>> \in login.body
        /\ login.n = list.n /\ login.to = list.to
  BY DEF Pushed
<1>2. Entry(m)' = Entry(m) /\ messages'[m].receiver = messages[m].receiver
  BY DEF MessagesGrow, Entry
<1> QED  BY <1>1, <1>2, SentGrows DEF Pushed

LEMMA ListedStays ==
  ASSUME TypeOK, LoginsAcked, [Next]_vars, ~Crash, MessagesGrow,
         NEW m \in DOMAIN messages, NEW v \in Worker, Listed(v, m)
  PROVE  Listed(v, m)' \/ Pushed(m)'
<1>0. /\ pc[v] = "markDelivered" /\ userId[v] = messages[m].receiver
      /\ Entry(m) \in payload[v]
      /\ Entry(m)' = Entry(m) /\ messages'[m].receiver = messages[m].receiver
  BY DEF Listed, MessagesGrow, Entry
<1>1. CASE pc'[v] = pc[v] /\ userId'[v] = userId[v] /\ payload[v] \subseteq payload'[v]
  BY <1>0, <1>1 DEF Listed
<1>2. CASE UNCHANGED vars \/ \E r \in Requests : Receive(r)
  BY <1>1, <1>2 DEF vars, locals, Receive
<1>3. ASSUME NEW w \in Worker, Run(w), w # v
      PROVE  pc'[v] = pc[v] /\ userId'[v] = userId[v] /\ payload'[v] = payload[v]
  BY <1>3, StepLocals DEF LocalsKeep, OthersKeep
<1>4. CASE MarkDelivered(v)
  BY <1>1, <1>4 DEF MarkDelivered, TypeOK, ServerTypeOK
<1>5. CASE PushOffline(v)
  <2> DEFINE d == Datagram(Req(v).addr, task[v].n, "OFFLINE_MSG_LIST_RESP", TRUE, payload[v])
  <2>1. PICK login \in sent :
          /\ login.type = "LOGIN_RESP" /\ login.ok /\ <<userId[v]>> \in login.body
          /\ login.n = task[v].n /\ login.to = Req(v).addr
    BY <1>0 DEF LoginsAcked, LoginAcked
  <2>2. d \in sent' /\ login \in sent'  BY <1>5 DEF PushOffline
  <2>3. /\ d.type = "OFFLINE_MSG_LIST_RESP" /\ Entry(m) \in d.body
        /\ d.n = task[v].n /\ d.to = Req(v).addr
    BY <1>0 DEF Datagram
  <2> HIDE DEF d
  <2> QED  BY <1>0, <2>1, <2>2, <2>3 DEF Pushed
<1> QED  BY <1>0, <1>1, <1>2, <1>3, <1>4, <1>5, OwnStep DEF Next, Quiet

LEMMA InHandStays ==
  ASSUME TypeOK, [Next]_vars, ~Crash, MessagesGrow,
         NEW m \in DOMAIN messages, ~messages[m].delivered,
         NEW v \in Worker, InHand(v, m)
  PROVE  InHand(v, m)' \/ Listed(v, m)' \/ m \in skipped'
<1>0. /\ userId[v] = messages[m].receiver
      /\ Entry(m)' = Entry(m) /\ messages'[m].receiver = messages[m].receiver
      /\ \/ pc[v] = "loginResp" /\ result[v]
         \/ pc[v] = "loadOffline"
         \/ pc[v] = "markDelivered" /\ m \in inbox[v]
  BY DEF InHand, MessagesGrow, Entry
<1>1. CASE /\ pc'[v] = pc[v] /\ userId'[v] = userId[v] /\ inbox'[v] = inbox[v]
           /\ result'[v] = result[v]
  BY <1>0, <1>1 DEF InHand
<1>2. CASE UNCHANGED vars \/ \E r \in Requests : Receive(r)
  BY <1>1, <1>2 DEF vars, locals, Receive
<1>3. ASSUME NEW w \in Worker, Run(w), w # v
      PROVE  /\ pc'[v] = pc[v] /\ userId'[v] = userId[v] /\ inbox'[v] = inbox[v]
             /\ result'[v] = result[v]
  BY <1>3, StepLocals DEF LocalsKeep, OthersKeep
<1>4. CASE LoginResp(v)
  BY <1>0, <1>4 DEF LoginResp, Goto, locals, InHand, TypeOK, ServerTypeOK
<1>5. CASE LoadOffline(v)
  <2> DEFINE rows == loadOffline(userId[v])
  <2>1. m \in rows  BY <1>0 DEF loadOffline
  <2> HIDE DEF rows
  <2>2. PICK got \in SUBSET rows :
          /\ inbox' = [inbox EXCEPT ![v] = got]
          /\ skipped' = (skipped \ rows) \cup (rows \ got)
    BY <1>5 DEF LoadOffline, rows
  <2>3. /\ pc'[v] = "markDelivered" /\ userId'[v] = userId[v] /\ inbox'[v] = got
    BY <1>5, <2>2 DEF LoadOffline, Goto, TypeOK, ServerTypeOK
  <2> QED  BY <1>0, <2>1, <2>2, <2>3 DEF InHand
<1>6. CASE MarkDelivered(v)
  <2>1. PICK k \in inbox[v] :
          /\ payload' = [payload EXCEPT ![v] = @ \cup {Entry(k)}]
          /\ inbox' = [inbox EXCEPT ![v] = @ \ {k}]
    BY <1>6 DEF MarkDelivered
  <2>2. /\ pc'[v] = "markDelivered" /\ userId'[v] = userId[v] /\ m \in inbox[v]
        /\ payload'[v] = payload[v] \cup {Entry(k)} /\ inbox'[v] = inbox[v] \ {k}
    BY <1>0, <1>6, <2>1 DEF MarkDelivered, InDb, TypeOK, ServerTypeOK
  <2>3. CASE k = m  BY <1>0, <2>2, <2>3 DEF Listed
  <2>4. CASE k # m  BY <1>0, <2>2, <2>4 DEF InHand
  <2> QED  BY <2>3, <2>4
<1>7. CASE PushOffline(v)
  BY <1>0, <1>7 DEF PushOffline
<1> QED  BY <1>0, <1>1, <1>2, <1>3, <1>4, <1>5, <1>6, <1>7, OwnStep DEF Next, Quiet

(* A message that a load missed is missed, or in the hands of the next one. *)
LEMMA SkippedStays ==
  ASSUME TypeOK, [Next]_vars, MessagesGrow, NEW m \in DOMAIN messages, m \in skipped
  PROVE  m \in skipped' \/ \E w \in Worker : InHand(w, m)'
<1>1. CASE UNCHANGED skipped  BY <1>1
<1>2. ASSUME NEW w \in Worker, LoadOffline(w)
      PROVE  m \in skipped' \/ InHand(w, m)'
  <2> DEFINE rows == loadOffline(userId[w])
  <2>1. m \in rows => messages[m].receiver = userId[w]  BY DEF loadOffline
  <2> HIDE DEF rows
  <2>2. PICK got \in SUBSET rows :
          /\ inbox' = [inbox EXCEPT ![w] = got]
          /\ skipped' = (skipped \ rows) \cup (rows \ got)
    BY <1>2 DEF LoadOffline, rows
  <2>3. /\ pc'[w] = "markDelivered" /\ userId'[w] = userId[w] /\ inbox'[w] = got
        /\ messages'[m].receiver = messages[m].receiver
    BY <1>2, <2>2 DEF LoadOffline, Goto, MessagesGrow, TypeOK, ServerTypeOK
  <2> QED  BY <2>1, <2>2, <2>3 DEF InHand
<1>3. UNCHANGED skipped \/ \E w \in Worker : LoadOffline(w)
  BY PresenceStep DEF Next, Quiet, Receive, Crash, vars, presence
<1> QED  BY <1>1, <1>2, <1>3

Covered(m) ==
  Pushed(m) \/ m \in skipped \/ \E w \in Worker : InHand(w, m) \/ Listed(w, m)
WasPushed(m) == Pushed(m) \/ \E w \in Worker : Listed(w, m)

LEMMA WasPushedStays ==
  ASSUME TypeOK, LoginsAcked, [Next]_vars, ~Crash, MessagesGrow,
         NEW m \in DOMAIN messages, WasPushed(m)
  PROVE  WasPushed(m)'
BY PushedStays, ListedStays DEF WasPushed

LEMMA StepCovered ==
  ASSUME TypeOK, LockHeld, StoringForOffline, LoginsAcked, OnlineInboxCovered, [Next]_vars
  PROVE  OnlineInboxCovered'
<1>0. MessagesGrow  BY StepType DEF TablesGrow
<1> SUFFICES ASSUME NEW m \in DOMAIN messages', ~messages'[m].delivered,
                    onlineClients'[messages'[m].receiver] # NoAddr
             PROVE  Covered(m)'
  BY DEF OnlineInboxCovered, Covered
<1>1. TypeOK'  BY StepType
<1>2. messages'[m].receiver \in UserId
  <2>1. messages' \in Seq(Message)  BY <1>1 DEF TypeOK, DatabaseTypeOK
  <2>2. messages'[m] \in Message  BY <2>1
  <2> QED  BY <2>2 DEF Message
<1>3. ~Crash  BY <1>2 DEF Crash
<1>4. CASE m \notin DOMAIN messages
  <2>1. PICK w \in Worker : StoreMessage(w)
    <3>1. ASSUME NEW w \in Worker, MarkDelivered(w)
          PROVE  DOMAIN messages' = DOMAIN messages
      <4>1. PICK k \in inbox[w], ok \in BOOLEAN : markDelivered(k, ok)
        BY <3>1 DEF MarkDelivered
      <4>2. k \in DOMAIN messages  BY <4>1 DEF TypeOK, WorkerTypeOK
      <4> QED  BY <4>1, <4>2, MarkType DEF TypeOK
    <3> QED  BY <1>4, <3>1, MessagesStep
  <2>2. /\ pc[w] = "storeMessage" /\ Req(w).userId \in UserId /\ Req(w).friendId \in UserId
        /\ task[w].n \in Nat
    BY <2>1, AtCall, CallType, RequestFields DEF StoreMessage, InDb
  <2>3. messages'[m].receiver = Req(w).friendId
    BY <1>4, <2>1, <2>2, StoreType DEF StoreMessage, TypeOK
  <2>4. onlineClients'[Req(w).friendId] = NoAddr
    BY <2>1, <2>2 DEF StoreMessage, StoringForOffline
  <2> QED  BY <2>3, <2>4
<1>5. CASE m \in DOMAIN messages
  <2>0. /\ messages'[m].receiver = messages[m].receiver /\ ~messages[m].delivered
    BY <1>0, <1>5 DEF MessagesGrow
  <2>1. CASE onlineClients[messages[m].receiver] # NoAddr
    <3>1. Covered(m)  BY <1>5, <2>0, <2>1 DEF OnlineInboxCovered, Covered
    <3>2. Pushed(m) => Pushed(m)'  BY <1>0, <1>5, PushedStays
    <3>3. \A w \in Worker : Listed(w, m) => Listed(w, m)' \/ Pushed(m)'
      BY <1>0, <1>3, <1>5, ListedStays
    <3>4. \A w \in Worker : InHand(w, m) => InHand(w, m)' \/ Listed(w, m)' \/ m \in skipped'
      BY <1>0, <1>3, <1>5, <2>0, InHandStays
    <3>5. m \in skipped => m \in skipped' \/ \E w \in Worker : InHand(w, m)'
      BY <1>0, <1>5, SkippedStays
    <3> QED  BY <3>1, <3>2, <3>3, <3>4, <3>5 DEF Covered
  <2>2. CASE onlineClients[messages[m].receiver] = NoAddr
    <3>0. /\ onlineClients \in [UserId -> Addr \cup {NoAddr}] /\ messages[m].receiver \in UserId
      BY <1>2, <2>0 DEF TypeOK, ServerTypeOK
    <3>1. PICK w \in Worker : GoOnline(w)
      <4>1. ASSUME NEW w \in Worker, Run(w), ~GoOnline(w)
            PROVE  onlineClients'[messages[m].receiver] = NoAddr
        BY <2>2, <3>0, <4>1, PresenceStep
      <4>2. ~UNCHANGED onlineClients  BY <2>0, <2>2
      <4>3. PICK w \in Worker : Run(w)
        BY <1>3, <4>2 DEF Next, Quiet, Receive, vars, presence
      <4> QED  BY <2>0, <4>1, <4>3
    <3>2. userId[w] = messages[m].receiver
      BY <2>0, <2>2, <3>0, <3>1 DEF GoOnline
    <3>3. userId'[w] = userId[w] /\ pc'[w] = "loginResp" /\ result'[w]
      BY <2>2, <3>1, <3>2 DEF GoOnline, Goto, locals, TypeOK, ServerTypeOK
    <3> QED  BY <2>0, <3>2, <3>3 DEF Covered, InHand
  <2> QED  BY <2>1, <2>2
<1> QED  BY <1>4, <1>5

LEMMA StepDelivered ==
  ASSUME TypeOK, LoginsAcked, InboxOwned, DeliveredWasPushed, [Next]_vars
  PROVE  DeliveredWasPushed'
<1>0. MessagesGrow /\ TypeOK'  BY StepType DEF TablesGrow
<1> SUFFICES ASSUME crashes' = 0, NEW m \in DOMAIN messages', messages'[m].delivered
             PROVE  WasPushed(m)'
  BY DEF DeliveredWasPushed, WasPushed
<1>1. crashes = 0 /\ ~Crash
  <2>1. ~Crash  BY DEF Crash, TypeOK, ServerTypeOK
  <2>2. ASSUME NEW w \in Worker, Run(w)  PROVE UNCHANGED crashes
    BY <2>2 DEF Run, Login, HandleFriendRequest, FriendRequestAction, PrivateMessage,
     DbCallOnly, Dequeue, Drop, Respond, RegisterUser, UpdateUser, DeleteUser, EraseDeleted,
     Logout, VerifyUser, GoOnline, LoginResp, LoadOffline, MarkDelivered, PushOffline,
     SelfRequest, CheckPending, InsertRequest, UpdateStatus, AddFriend1, AddFriend2,
     DeleteFriend, SetBlocked, List, CheckFriend, Deliver, StoreMessage, CreateGroup,
     JoinGroup, LockTwice
  <2> QED  BY <2>1, <2>2 DEF Next, Quiet, Receive, vars
<1>2. CASE m \in DOMAIN messages /\ messages[m].delivered
  <2>1. WasPushed(m)  BY <1>1, <1>2 DEF DeliveredWasPushed, WasPushed
  <2> QED  BY <1>0, <1>1, <1>2, <2>1, WasPushedStays
<1>3. CASE ~(m \in DOMAIN messages /\ messages[m].delivered)
  <2>1. PICK w \in Worker : StoreMessage(w) \/ MarkDelivered(w)
    BY <1>3, MessagesStep
  <2>2. ~StoreMessage(w)
    <3>1. ASSUME StoreMessage(w)  PROVE FALSE
      <4>1. /\ Req(w).userId \in UserId /\ Req(w).friendId \in UserId /\ task[w].n \in Nat
        BY <3>1, AtCall, CallType, RequestFields DEF StoreMessage, InDb
      <4> QED  BY <1>3, <3>1, <4>1, StoreType DEF StoreMessage, TypeOK
    <3> QED  BY <3>1
  <2>3. PICK k \in inbox[w], ok \in BOOLEAN :
          /\ payload' = [payload EXCEPT ![w] = @ \cup {Entry(k)}]
          /\ markDelivered(k, ok)
    BY <2>1, <2>2 DEF MarkDelivered
  <2>4. pc[w] = "markDelivered" /\ pc' = pc /\ userId' = userId
    BY <2>1, <2>2 DEF MarkDelivered, InDb
  <2>5. k \in DOMAIN messages  BY <2>3 DEF TypeOK, WorkerTypeOK
  <2>6. k = m
    BY <1>3, <2>3, <2>5, MarkType DEF TypeOK
  <2>7. Entry(m)' = Entry(m) /\ messages'[m].receiver = messages[m].receiver
    BY <1>0, <2>5, <2>6 DEF MessagesGrow, Entry
  <2>8. Entry(m) \in payload'[w]
    BY <2>3, <2>6 DEF TypeOK, ServerTypeOK
  <2>9. messages[m].receiver = userId[w]  BY <2>3, <2>4, <2>6 DEF InboxOwned
  <2> QED  BY <2>4, <2>7, <2>8, <2>9 DEF WasPushed, Listed
<1> QED  BY <1>2, <1>3

(* No message is stranded in the table while its receiver is online, and   *)
(* without a kill no message is marked that was not in an offline list for *)
(* its receiver: for any number of threads, logins, messages and failed    *)
(* statements.                                                             *)
THEOREM MailNeverStranded == Spec => [](OnlineInboxCovered /\ DeliveredWasPushed)
<1>1. Init => TypeOK /\ MailInv  BY InitTypeOK, InitMail
<1>2. TypeOK /\ MailInv /\ [Next]_vars => (TypeOK /\ MailInv)'
  BY StepType, StepLockHeld, StepStoring, StepLoginsAcked, StepInboxOwned, StepCovered,
     StepDelivered
  DEF MailInv
<1>3. MailInv => OnlineInboxCovered /\ DeliveredWasPushed  BY DEF MailInv
<1> QED  BY <1>1, <1>2, <1>3, PTL DEF Spec

(* As long as the process is not killed, a row is marked delivered only    *)
(* for a list that goes to a login of its receiver (handleLogin's loop).   *)
THEOREM MarkedWasPushed == Spec => []DeliveredWasPushed
BY MailNeverStranded, PTL

-----------------------------------------------------------------------------
(* Locks.  NeverStuck needs to know who holds them: clientsMutex a handler *)
(* that stores a message, which takes mtx inside it, and mtx a group       *)
(* handler that waits for it.                                              *)
MtxHeld == mtx # NoWorker => pc[mtx] = "relock"

LEMMA MtxStep ==
  ASSUME NEW w \in Worker, Run(w)
  PROVE  /\ pc[w] # "relock"
         /\ UNCHANGED mtx \/ LockTwice(w, "createGroup") \/ LockTwice(w, "addUserToGroup")
BY DEF Run, Login, HandleFriendRequest, FriendRequestAction, PrivateMessage, InDb,
   DbCallOnly, Dequeue, Drop, Respond, RegisterUser, UpdateUser, DeleteUser, EraseDeleted,
   Logout, VerifyUser, GoOnline, LoginResp, LoadOffline, MarkDelivered, PushOffline,
   SelfRequest, CheckPending, InsertRequest, UpdateStatus, AddFriend1, AddFriend2,
   DeleteFriend, SetBlocked, List, CheckFriend, Deliver, StoreMessage, CreateGroup,
   JoinGroup, LockTwice

LEMMA StepMtxHeld ==
  ASSUME TypeOK, MtxHeld, [Next]_vars  PROVE MtxHeld'
<1>1. ASSUME NEW w \in Worker, Run(w)  PROVE MtxHeld'
  <2>0. /\ \A v \in Worker \ {w} : pc'[v] = pc[v]
        /\ pc \in [Worker -> Call \cup {"idle"}] /\ mtx \in Worker \cup {NoWorker}
    BY <1>1, StepLocals DEF LocalsKeep, OthersKeep, TypeOK, ServerTypeOK
  <2>1. CASE UNCHANGED mtx
    BY <1>1, <2>0, <2>1, MtxStep DEF MtxHeld
  <2>2. CASE LockTwice(w, "createGroup") \/ LockTwice(w, "addUserToGroup")
    BY <2>0, <2>2 DEF LockTwice, Goto, MtxHeld
  <2> QED  BY <1>1, <2>1, <2>2, MtxStep
<1>2. CASE Crash  BY <1>2 DEF Crash, MtxHeld
<1>3. CASE UNCHANGED vars \/ \E r \in Requests : Receive(r)
  BY <1>3 DEF vars, Receive, MtxHeld
<1> QED  BY <1>1, <1>2, <1>3 DEF Next, Quiet

LEMMA LocksFree == ASSUME TypeOK, LockHeld, MtxHeld  PROVE NeverStuck
<1>0. mtx \in Worker \cup {NoWorker} /\ clientsMutex \in Worker \cup {NoWorker}
  BY DEF TypeOK, ServerTypeOK
<1>1. CASE mtx # NoWorker
  BY <1>0, <1>1 DEF MtxHeld, NeverStuck
<1>2. CASE mtx = NoWorker /\ clientsMutex = NoWorker
  BY <1>2 DEF NeverStuck, Unblocked
<1>3. CASE mtx = NoWorker /\ clientsMutex # NoWorker
  <2>1. pc[clientsMutex] = "storeMessage"  BY <1>0, <1>3 DEF LockHeld
  <2>2. Unblocked(clientsMutex)
    BY <1>3, <2>1 DEF Unblocked, TakesClientsMutex
  <2> QED  BY <1>0, <1>3, <2>1, <2>2 DEF NeverStuck
<1> QED  BY <1>1, <1>2, <1>3

(* The threads never wait for each other in a circle: whatever they do,    *)
(* one of those that have work finds its locks free, unless a group        *)
(* handler waits for itself (mtx, clientsMutex).                           *)
THEOREM ThreadsNeverStuck == Spec => []NeverStuck
<1>1. Init => TypeOK /\ LockHeld /\ MtxHeld
  BY InitTypeOK, InitMail DEF MailInv, Init, MtxHeld
<1>2. TypeOK /\ LockHeld /\ MtxHeld /\ [Next]_vars => (TypeOK /\ LockHeld /\ MtxHeld)'
  BY StepType, StepLockHeld, StepMtxHeld
<1>3. TypeOK /\ LockHeld /\ MtxHeld => NeverStuck  BY LocksFree
<1> QED  BY <1>1, <1>2, <1>3, PTL DEF Spec

-----------------------------------------------------------------------------
(* Who is online was let in there.                                         *)
LEMMA InitOnline == Init => OnlineWasGranted
BY DEF Init, OnlineWasGranted

LEMMA StepOnline ==
  ASSUME TypeOK, OnlineWasGranted, [Next]_vars  PROVE OnlineWasGranted'
<1> DEFINE Told(u, a) ==
      \E d \in sent : d.type = "LOGIN_RESP" /\ d.ok /\ d.to = a /\ <<u>> \in d.body
    Telling(w, u, a) ==
      pc[w] = "loginResp" /\ result[w] /\ userId[w] = u /\ Req(w).addr = a
<1>0. OnlineWasGranted <=>
        \A u \in UserId : onlineClients[u] # NoAddr =>
          Told(u, onlineClients[u]) \/ \E w \in Worker : Telling(w, u, onlineClients[u])
  BY DEF OnlineWasGranted
<1>1. ASSUME NEW u \in UserId, NEW a, Told(u, a)  PROVE Told(u, a)'
  BY <1>1, SentGrows
<1>2. ASSUME NEW u \in UserId, NEW a, NEW v \in Worker, Telling(v, u, a), ~Crash
      PROVE  Told(u, a)' \/ Telling(v, u, a)'
  <2>1. CASE LoginResp(v)
    <3>1. Req(v).type = "LOGIN_REQ"  BY <2>1, AtCall, CallType DEF LoginResp
    <3> DEFINE d == Datagram(a, task[v].n, "LOGIN_RESP", TRUE, {<<u>>})
    <3>2. d \in sent'
      BY <1>2, <2>1, <3>1 DEF LoginResp, Send, Response, TypeOK, ServerTypeOK
    <3>3. d.type = "LOGIN_RESP" /\ d.ok /\ d.to = a /\ <<u>> \in d.body  BY DEF Datagram
    <3> HIDE DEF d
    <3> QED  BY <3>2, <3>3
  <2>2. ASSUME NEW w \in Worker, Run(w), w # v  PROVE Telling(v, u, a)'
    BY <1>2, <2>2, StepLocals DEF LocalsKeep, OthersKeep, Req
  <2>3. CASE UNCHANGED vars \/ \E r \in Requests : Receive(r)
    BY <1>2, <2>3 DEF vars, locals, Receive, Req
  <2> QED  BY <1>2, <2>1, <2>2, <2>3, OwnStep DEF Next, Quiet
<1> SUFFICES ASSUME NEW u \in UserId, onlineClients'[u] # NoAddr
             PROVE  \/ Told(u, onlineClients[u])'
                    \/ \E w \in Worker : Telling(w, u, onlineClients[u])'
  BY DEF OnlineWasGranted
<1>3. onlineClients \in [UserId -> Addr \cup {NoAddr}]  BY DEF TypeOK, ServerTypeOK
<1>4. ~Crash  BY DEF Crash
<1>5. CASE onlineClients'[u] = onlineClients[u]
  <2> DEFINE a == onlineClients[u]
  <2>1. Told(u, a) \/ \E w \in Worker : Telling(w, u, a)  BY <1>0, <1>5
  <2>2. Told(u, a)' \/ \E w \in Worker : Telling(w, u, a)'  BY <1>1, <1>2, <1>4, <1>5, <2>1
  <2> QED  BY <2>2
<1>6. CASE onlineClients'[u] # onlineClients[u]
  <2>1. PICK w \in Worker : Run(w)
    BY <1>4, <1>6 DEF Next, Quiet, Receive, vars, presence
  <2>2. GoOnline(w)  BY <1>3, <1>6, <2>1, PresenceStep
  <2>3. userId[w] = u /\ onlineClients[u] = NoAddr /\ onlineClients'[u] = Req(w).addr
    BY <1>3, <1>6, <2>2 DEF GoOnline
  <2>4. pc'[w] = "loginResp" /\ result'[w] /\ task' = task /\ userId' = userId
    BY <2>2, <2>3 DEF GoOnline, Goto, locals, TypeOK, ServerTypeOK
  <2> QED  BY <2>3, <2>4 DEF Req
<1> QED  BY <1>5, <1>6

(* Every entry of onlineClients is the one of a login that succeeds: its   *)
(* client was told, or is about to be (handleLogin).                       *)
THEOREM OnlineAlwaysGranted == Spec => []OnlineWasGranted
<1>1. TypeOK /\ OnlineWasGranted /\ [Next]_vars => OnlineWasGranted'  BY StepOnline
<1> QED  BY InitOnline, <1>1, TypeCorrect, PTL DEF Spec

-----------------------------------------------------------------------------
(* What a handler sends: its answer, the text to the receiver, or the list *)
(* of offline messages.                                                    *)
LEMMA ResponseTypes ==
  ASSUME NEW r \in Request, r.type # "GROUP_MSG"
  PROVE  Response(r.type) # "OFFLINE_MSG_LIST_RESP"
BY SMTT(30) DEF Request, Response

LEMMA AnswerSent ==
  ASSUME TypeOK, NEW w \in Worker, Respond(w) \/ LoginResp(w) \/ List(w)
  PROVE  /\ pc[w] \in {"respond", "loginResp", "list"}
         /\ \E d : sent' = sent \cup {d} /\ d.n = task[w].n /\ IsAnswer(d)
<1>1. CASE Respond(w)
  <2> DEFINE d == Datagram(Req(w).addr, task[w].n, Response(Req(w).type), result[w], {})
  <2>1. sent' = sent \cup {d}  BY <1>1 DEF Respond, Send
  <2>2. Req(w) \in Request /\ Req(w).type # "GROUP_MSG" /\ pc[w] = "respond"
    BY <1>1, AtCall, CallType DEF Respond
  <2>3. d.body = {} /\ d.n = task[w].n /\ d.type # "OFFLINE_MSG_LIST_RESP"
    BY <2>2, ResponseTypes DEF Datagram
  <2> HIDE DEF d
  <2> QED  BY <2>1, <2>2, <2>3 DEF IsAnswer
<1>2. CASE LoginResp(w)
  <2> DEFINE d == Datagram(Req(w).addr, task[w].n, Response(Req(w).type), result[w],
                           {<<userId[w]>>})
  <2>1. sent' = sent \cup {d}  BY <1>2 DEF LoginResp, Send
  <2>2. Req(w).type = "LOGIN_REQ" /\ pc[w] = "loginResp"
    BY <1>2, AtCall, CallType DEF LoginResp
  <2>3. d.type = "LOGIN_RESP" /\ d.n = task[w].n  BY <2>2 DEF Datagram, Response
  <2> HIDE DEF d
  <2> QED  BY <2>1, <2>2, <2>3 DEF IsAnswer
<1>3. CASE List(w)
  <2>0. PICK body : Send(w, TRUE, body)  BY <1>3 DEF List
  <2> DEFINE d == Datagram(Req(w).addr, task[w].n, Response(Req(w).type), TRUE, body)
  <2>1. sent' = sent \cup {d}  BY <2>0 DEF Send
  <2>2. /\ Req(w).type \in {"FRIEND_REQUEST_LIST_REQ", "FRIEND_LIST_REQ", "CHAT_HISTORY_REQ"}
        /\ pc[w] = "list"
    BY <1>3, AtCall, CallType DEF List, InDb
  <2>3. d.n = task[w].n /\ d.type = Response(Req(w).type)  BY DEF Datagram
  <2> HIDE DEF d
  <2>4. d.type \notin {"OFFLINE_MSG_LIST_RESP", "PRIVATE_MSG_RESP"}
    BY <2>2, <2>3 DEF Response
  <2> QED  BY <2>1, <2>2, <2>3, <2>4 DEF IsAnswer
<1> QED  BY <1>1, <1>2, <1>3

LEMMA SentBy ==
  ASSUME TypeOK, NEW w \in Worker, Run(w), NEW d \in sent', d \notin sent
  PROVE  /\ pc[w] # "idle" /\ d.n = task[w].n
         /\ \/ (Respond(w) \/ LoginResp(w) \/ List(w)) /\ IsAnswer(d)
            \/ /\ Deliver(w) /\ pc'[w] = "respond"
               /\ d.type = "PRIVATE_MSG_RESP" /\ d.body = {<<task[w].n>>}
            \/ /\ PushOffline(w)
               /\ d = Datagram(Req(w).addr, task[w].n, "OFFLINE_MSG_LIST_RESP", TRUE, payload[w])
<1>1. CASE Respond(w) \/ LoginResp(w) \/ List(w)
  <2>1. pc[w] # "idle" /\ \E e : sent' = sent \cup {e} /\ e.n = task[w].n /\ IsAnswer(e)
    BY <1>1, AnswerSent
  <2> QED  BY <1>1, <2>1
<1>2. CASE Deliver(w)
  <2>1. \E to : d = Datagram(to, task[w].n, "PRIVATE_MSG_RESP", TRUE, {<<task[w].n>>})
    BY <1>2 DEF Deliver
  <2>2. /\ d.n = task[w].n /\ d.type = "PRIVATE_MSG_RESP" /\ d.body = {<<task[w].n>>}
    BY <2>1 DEF Datagram
  <2>3. pc[w] = "deliver" /\ pc'[w] = "respond"
    BY <1>2 DEF Deliver, Answer, Goto, TypeOK, ServerTypeOK
  <2> QED  BY <1>2, <2>2, <2>3
<1>3. CASE PushOffline(w)
  <2>1. d = Datagram(Req(w).addr, task[w].n, "OFFLINE_MSG_LIST_RESP", TRUE, payload[w])
    BY <1>3 DEF PushOffline
  <2>2. d.n = task[w].n  BY <2>1 DEF Datagram
  <2> QED  BY <1>3, <2>1, <2>2 DEF PushOffline
<1>4. UNCHANGED sent \/ Respond(w) \/ LoginResp(w) \/ List(w) \/ PushOffline(w) \/ Deliver(w)
  BY DEF Run, Login, HandleFriendRequest, FriendRequestAction, PrivateMessage, Dequeue,
     Drop, RegisterUser, UpdateUser, DeleteUser, EraseDeleted, Logout, VerifyUser, GoOnline,
     LoadOffline, MarkDelivered, SelfRequest, CheckPending, InsertRequest, UpdateStatus,
     AddFriend1, AddFriend2, DeleteFriend, SetBlocked, CheckFriend, StoreMessage,
     CreateGroup, JoinGroup, LockTwice, DbCallOnly
<1> QED  BY <1>1, <1>2, <1>3, <1>4

LEMMA SentInStep ==
  ASSUME [Next]_vars, NEW d \in sent', d \notin sent  PROVE \E w \in Worker : Run(w)
BY DEF Next, Quiet, Receive, Crash, vars

(* The entries of a list in the making are messages to the user of the     *)
(* login; nothing but the loop of the login has such entries.              *)
ListedOwn ==
  \A w \in Worker : \A entry \in payload[w] :
    /\ pc[w] = "markDelivered"
    /\ \E m \in DOMAIN messages : entry = Entry(m) /\ messages[m].receiver = userId[w]

LEMMA PayloadStep ==
  ASSUME NEW w \in Worker, Run(w)
  PROVE  \/ UNCHANGED <<payload, userId>> /\ pc[w] # "markDelivered"
         \/ VerifyUser(w) \/ MarkDelivered(w) \/ Finish(w)
BY DEF Run, Login, HandleFriendRequest, FriendRequestAction, PrivateMessage, InDb, locals,
   DbCallOnly, Dequeue, Drop, Respond, RegisterUser, UpdateUser, DeleteUser, EraseDeleted,
   Logout, VerifyUser, GoOnline, LoginResp, LoadOffline, MarkDelivered, PushOffline,
   SelfRequest, CheckPending, InsertRequest, UpdateStatus, AddFriend1, AddFriend2,
   DeleteFriend, SetBlocked, List, CheckFriend, Deliver, StoreMessage, CreateGroup,
   JoinGroup, LockTwice

LEMMA StepListedOwn ==
  ASSUME TypeOK, InboxOwned, ListedOwn, [Next]_vars  PROVE ListedOwn'
<1> SUFFICES ASSUME NEW v \in Worker, NEW entry \in payload'[v]
             PROVE  /\ pc'[v] = "markDelivered"
                    /\ \E m \in DOMAIN messages' :
                         entry = Entry(m)' /\ messages'[m].receiver = userId'[v]
  BY DEF ListedOwn
<1>0. MessagesGrow  BY StepType DEF TablesGrow
<1>1. ASSUME NEW m \in DOMAIN messages, entry = Entry(m), messages[m].receiver = userId'[v]
      PROVE  \E k \in DOMAIN messages' : entry = Entry(k)' /\ messages'[k].receiver = userId'[v]
  BY <1>0, <1>1 DEF MessagesGrow, Entry
<1>2. CASE entry \in payload[v] /\ pc'[v] = pc[v] /\ userId'[v] = userId[v]
  BY <1>1, <1>2 DEF ListedOwn
<1>3. CASE Crash \/ UNCHANGED vars \/ \E r \in Requests : Receive(r)
  BY <1>2, <1>3 DEF Crash, vars, locals, Receive
<1>4. ASSUME NEW w \in Worker, Run(w), w # v
      PROVE  entry \in payload[v] /\ pc'[v] = pc[v] /\ userId'[v] = userId[v]
  BY <1>4, StepLocals DEF LocalsKeep, OthersKeep
<1>5. CASE MarkDelivered(v)
  <2>1. PICK k \in inbox[v] : payload' = [payload EXCEPT ![v] = @ \cup {Entry(k)}]
    BY <1>5 DEF MarkDelivered
  <2>2. /\ pc[v] = "markDelivered" /\ pc' = pc /\ userId' = userId
        /\ entry \in payload[v] \cup {Entry(k)}
    BY <1>5, <2>1 DEF MarkDelivered, InDb, TypeOK, ServerTypeOK
  <2>3. k \in DOMAIN messages /\ messages[k].receiver = userId[v]
    BY <2>2 DEF InboxOwned, TypeOK, WorkerTypeOK
  <2> QED  BY <1>1, <1>2, <2>2, <2>3
<1>6. ASSUME Run(v), UNCHANGED payload, pc[v] # "markDelivered"  PROVE FALSE
  BY <1>6 DEF ListedOwn
<1>7. Finish(v) => FALSE  BY DEF Finish, TypeOK, ServerTypeOK
<1>8. VerifyUser(v) => UNCHANGED payload /\ pc[v] # "markDelivered"
  BY DEF VerifyUser, InDb
<1> QED  BY <1>2, <1>3, <1>4, <1>5, <1>6, <1>7, <1>8, PayloadStep DEF Next, Quiet

LEMMA StepListedForReceiver ==
  ASSUME TypeOK, LoginsAcked, ListedOwn, ListedForReceiver, [Next]_vars
  PROVE  ListedForReceiver'
<1> DEFINE Belongs(list, login) ==
      /\ login.type = "LOGIN_RESP" /\ login.ok /\ login.n = list.n /\ login.to = list.to
      /\ \A entry \in list.body :
           \E m \in DOMAIN messages :
             entry = Entry(m) /\ <<messages[m].receiver>> \in login.body
<1> SUFFICES ASSUME NEW list \in sent', list.type = "OFFLINE_MSG_LIST_RESP"
             PROVE  \E login \in sent' : Belongs(list, login)'
  BY DEF ListedForReceiver
<1>0. MessagesGrow /\ sent \subseteq sent'  BY StepType, SentGrows DEF TablesGrow
<1>1. ASSUME NEW login \in sent, Belongs(list, login)  PROVE Belongs(list, login)'
  BY <1>0, <1>1 DEF MessagesGrow, Entry
<1>2. CASE list \in sent
  <2>1. PICK login \in sent : Belongs(list, login)  BY <1>2 DEF ListedForReceiver
  <2> QED  BY <1>0, <1>1, <2>1
<1>3. CASE list \notin sent
  <2>1. PICK w \in Worker : Run(w)  BY <1>3, SentInStep
  <2>2. /\ PushOffline(w)
        /\ list = Datagram(Req(w).addr, task[w].n, "OFFLINE_MSG_LIST_RESP", TRUE, payload[w])
    BY <1>3, <2>1, SentBy DEF IsAnswer
  <2>3. list.n = task[w].n /\ list.to = Req(w).addr /\ list.body = payload[w]
    BY <2>2 DEF Datagram
  <2>4. PICK login \in sent :
          /\ login.type = "LOGIN_RESP" /\ login.ok /\ <<userId[w]>> \in login.body
          /\ login.n = task[w].n /\ login.to = Req(w).addr
    BY <2>2 DEF LoginsAcked, LoginAcked, PushOffline
  <2>5. Belongs(list, login)  BY <2>3, <2>4 DEF ListedOwn
  <2> QED  BY <1>0, <1>1, <2>5
<1> QED  BY <1>2, <1>3

(* What an offline list holds is for the user whose login was granted at   *)
(* the address it goes to, before it goes: no message of another user is   *)
(* in it (handleLogin).                                                    *)
THEOREM ListsForReceiver == Spec => []ListedForReceiver
<1> DEFINE Inv == LoginsAcked /\ InboxOwned /\ ListedOwn /\ ListedForReceiver
<1>1. Init => TypeOK /\ Inv
  <2>1. Init => ListedOwn /\ ListedForReceiver
    BY DEF Init, ListedOwn, ListedForReceiver
  <2> QED  BY <2>1, InitTypeOK, InitMail DEF MailInv
<1>2. TypeOK /\ Inv /\ [Next]_vars => (TypeOK /\ Inv)'
  BY StepType, StepLoginsAcked, StepInboxOwned, StepListedOwn, StepListedForReceiver
<1> QED  BY <1>1, <1>2, PTL DEF Spec

-----------------------------------------------------------------------------
(* Failed statements are counted and never uncounted.                      *)
LEMMA FaultsStay ==
  ASSUME TypeOK, [Next]_vars
  PROVE  /\ faults \in Nat /\ faults' \in Nat /\ faults <= faults'
         /\ faults' = 0 => faults = 0
<1>0. faults \in Nat
  BY DatabaseAssumption DEF TypeOK, DatabaseTypeOK
<1>1. ASSUME NEW w \in Worker, Run(w)  PROVE faults' = faults \/ faults' = faults + 1
  BY <1>1 DEF Run, Login, HandleFriendRequest, FriendRequestAction, PrivateMessage,
     executePrepared, selectRows, selectFound, DbCallOnly, Dequeue, Drop, Respond, RegisterUser, registerUser,
     UpdateUser, updateUser, DeleteUser, deleteUser, EraseDeleted, Logout, VerifyUser,
     GoOnline, LoginResp, LoadOffline, MarkDelivered, markDelivered, PushOffline,
     SelfRequest, CheckPending, InsertRequest, insertFriendRequest, UpdateStatus,
     updateRequestStatus, AddFriend1, AddFriend2, addFriend, DeleteFriend, deleteFriend,
     SetBlocked, setBlocked, List, CheckFriend, Deliver, StoreMessage, storeMessage,
     CreateGroup, JoinGroup, LockTwice
<1>2. (\E w \in Worker : Run(w)) \/ faults' = faults
  BY DEF Next, Quiet, Receive, Crash, vars
<1>3. faults' = faults \/ faults' = faults + 1  BY <1>1, <1>2
<1> QED  BY <1>0, <1>3
=============================================================================
