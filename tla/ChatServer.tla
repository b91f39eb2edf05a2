----------------------------- MODULE ChatServer ------------------------------
(***************************************************************************)
(* The UDP chat server: the receive loop, the worker threads of the pool,  *)
(* the handlers they run, the two mutexes and the map of online clients.   *)
(*                                                                         *)
(* A worker's pc names the call its handler makes next; one action per     *)
(* call.  A call of DatabaseManager needs mtx free and is one step; only   *)
(* createGroup and addUserToGroup keep mtx beyond a step, because they     *)
(* lock it again while they hold it.  clientsMutex is kept beyond a step   *)
(* where the code calls the database inside the lock.                      *)
(*                                                                         *)
(* Datagrams reach the server in any order and any number of times (UDP):  *)
(* Receive takes any request of Requests.  A request carries the number of *)
(* its arrival, which tells two copies of it apart.                        *)
(***************************************************************************)
EXTENDS DatabaseManager

CONSTANTS
  Worker,       \* threads of the pool
  NoWorker,     \* no thread holds the mutex
  Addr,         \* client addresses
  NoAddr,       \* the user is not in onlineClients
  NoTask,       \* the worker runs no task
  Requests,     \* the datagrams that clients may send
  MaxRequests,  \* bound on datagrams received
  MaxCrashes    \* bound on kills and restarts of the process

VARIABLES
  tasks,          \* queue of the pool
  received,       \* datagrams received so far
  pc, task,       \* per worker: next call of the handler, its request
  result,         \* per worker: ok
  userId,         \* per worker: the id verifyUser found
  inbox,          \* per worker: offline messages loaded, not yet marked
  payload,        \* per worker: entries of the offline list being built
  mtx,            \* holder of DatabaseManager::mtx
  clientsMutex,   \* holder of ChatServer::clientsMutex
  onlineClients,  \* address of each user online
  skipped,        \* messages that the last load for their receiver missed (history)
  sent,           \* every datagram sent (history)
  crashes         \* kills so far

queue == <<tasks, received>>
locals == <<userId, inbox, payload>>
presence == <<clientsMutex, onlineClients, skipped>>
vars == <<tables, faults, queue, pc, task, result, locals, mtx, presence, sent, crashes>>

-----------------------------------------------------------------------------
(* Requests, by the fields the handlers read from the body.  The id of a   *)
(* logout may be one that no user has (see TestClient).                    *)
Request ==
  [type : {"REGISTER_REQ", "LOGIN_REQ"}, addr : Addr, name : Name, pwd : Password]
  \cup [type : {"UPDATE_USER_REQ"}, addr : Addr, userId : UserId,
        name : Name, pwd : Password]
  \cup [type : {"LOGOUT_REQ"}, addr : Addr, userId : Nat]
  \cup [type : {"DELETE_USER_REQ", "FRIEND_LIST_REQ", "FRIEND_REQUEST_LIST_REQ"},
        addr : Addr, userId : UserId]
  \cup [type : {"FRIEND_REQUEST_REQ", "DELETE_FRIEND_REQ", "BLOCK_USER_REQ",
                "UNBLOCK_USER_REQ", "CHAT_HISTORY_REQ", "PRIVATE_MSG_REQ"},
        addr : Addr, userId : UserId, friendId : UserId]
  \cup [type : {"FRIEND_REQUEST_ACTION_REQ"}, addr : Addr, requestId : Nat,
        accept : BOOLEAN]
  \cup [type : {"CREATE_GROUP_REQ"}, addr : Addr, groupName : GroupName]
  \cup [type : {"JOIN_GROUP_REQ"}, addr : Addr, userId : UserId, groupName : GroupName]
  \cup [type : {"GROUP_MSG"}, addr : Addr]

Task == [n : Nat \ {0}, req : Request]

ASSUME ServerAssumption ==
  /\ Requests \subseteq Request
  /\ MaxRequests \in Nat
  /\ MaxCrashes \in Nat
  /\ NoWorker \notin Worker
  /\ NoAddr \notin Addr
  /\ NoTask \notin Task

(* The pool has a number of threads.                                       *)
ASSUME ThreadsAssumption == IsFiniteSet(Worker)

Response(type) ==
  CASE type = "REGISTER_REQ" -> "REGISTER_RESP"
    [] type = "LOGIN_REQ" -> "LOGIN_RESP"
    [] type = "LOGOUT_REQ" -> "LOGOUT_RESP"
    [] type = "UPDATE_USER_REQ" -> "UPDATE_USER_RESP"
    [] type = "DELETE_USER_REQ" -> "DELETE_USER_RESP"
    [] type = "FRIEND_REQUEST_REQ" -> "FRIEND_REQUEST_RESP"
    [] type = "FRIEND_REQUEST_LIST_REQ" -> "FRIEND_REQUEST_LIST_RESP"
    [] type = "FRIEND_REQUEST_ACTION_REQ" -> "FRIEND_REQUEST_ACTION_RESP"
    [] type = "DELETE_FRIEND_REQ" -> "DELETE_FRIEND_RESP"
    [] type = "BLOCK_USER_REQ" -> "BLOCK_USER_RESP"
    [] type = "UNBLOCK_USER_REQ" -> "UNBLOCK_USER_RESP"
    [] type = "FRIEND_LIST_REQ" -> "FRIEND_LIST_RESP"
    [] type = "CREATE_GROUP_REQ" -> "CREATE_GROUP_RESP"
    [] type = "JOIN_GROUP_REQ" -> "JOIN_GROUP_RESP"
    [] type = "PRIVATE_MSG_REQ" -> "PRIVATE_MSG_RESP"
    [] type = "CHAT_HISTORY_REQ" -> "CHAT_HISTORY_RESP"

(* handlePacket: the first call of the handler for a packet of this type.  *)
handlePacket(type) ==
  CASE type = "REGISTER_REQ" -> "registerUser"
    [] type = "LOGIN_REQ" -> "verifyUser"
    [] type = "LOGOUT_REQ" -> "erase"
    [] type = "UPDATE_USER_REQ" -> "updateUser"
    [] type = "DELETE_USER_REQ" -> "deleteUser"
    [] type = "FRIEND_REQUEST_REQ" -> "exists1"
    [] type \in {"FRIEND_REQUEST_LIST_REQ", "FRIEND_LIST_REQ", "CHAT_HISTORY_REQ"} -> "list"
    [] type = "FRIEND_REQUEST_ACTION_REQ" -> "updateStatus"
    [] type = "DELETE_FRIEND_REQ" -> "deleteFriend"
    [] type \in {"BLOCK_USER_REQ", "UNBLOCK_USER_REQ"} -> "setBlocked"
    [] type = "CREATE_GROUP_REQ" -> "groupOf"
    [] type = "JOIN_GROUP_REQ" -> "groupToJoin"
    [] type = "PRIVATE_MSG_REQ" -> "getFriends"
    [] OTHER -> "drop"

-----------------------------------------------------------------------------
Req(w) == task[w].req

Goto(w, call) == pc' = [pc EXCEPT ![w] = call]

(* The handler knows its answer and goes on to send it.                    *)
Answer(w, ok) == Goto(w, "respond") /\ result' = [result EXCEPT ![w] = ok]

Finish(w) ==
  /\ Goto(w, "idle")
  /\ task' = [task EXCEPT ![w] = NoTask]
  /\ result' = [result EXCEPT ![w] = FALSE]
  /\ userId' = [userId EXCEPT ![w] = -1]
  /\ inbox' = [inbox EXCEPT ![w] = {}]
  /\ payload' = [payload EXCEPT ![w] = {}]

Datagram(to, n, type, ok, body) ==
  [to |-> to, n |-> n, type |-> type, ok |-> ok, body |-> body]

(* sendto: the datagram leaves; whether it arrives is the network's.       *)
Send(w, ok, body) ==
  sent' = sent \cup {Datagram(Req(w).addr, task[w].n, Response(Req(w).type), ok, body)}

(* The handler's next call is one of DatabaseManager, and mtx is free.     *)
InDb(w, call) == pc[w] = call /\ mtx = NoWorker

(* What a call of DatabaseManager leaves alone.                            *)
DbCallOnly == UNCHANGED <<queue, task, locals, mtx, presence, sent, crashes>>

Init ==
  /\ InitTables
  /\ tasks = <<>> /\ received = 0
  /\ pc = [w \in Worker |-> "idle"]
  /\ task = [w \in Worker |-> NoTask]
  /\ result = [w \in Worker |-> FALSE]
  /\ userId = [w \in Worker |-> -1]
  /\ inbox = [w \in Worker |-> {}]
  /\ payload = [w \in Worker |-> {}]
  /\ mtx = NoWorker /\ clientsMutex = NoWorker
  /\ onlineClients = [u \in UserId |-> NoAddr] /\ skipped = {}
  /\ sent = {} /\ crashes = 0

-----------------------------------------------------------------------------
(* receiveLoop: one datagram, queued for the pool.                         *)
Receive(r) ==
  /\ received < MaxRequests
  /\ received' = received + 1
  /\ tasks' = Append(tasks, [n |-> received + 1, req |-> r])
  /\ UNCHANGED <<tables, faults, pc, task, result, locals, mtx, presence, sent, crashes>>

(* Mutant: the newest task is taken.                                       *)
DequeueNewest(w) ==
  /\ pc[w] = "idle" /\ tasks # <<>>
  /\ task' = [task EXCEPT ![w] = tasks[Len(tasks)]]
  /\ tasks' = SubSeq(tasks, 1, Len(tasks) - 1)
  /\ Goto(w, handlePacket(tasks[Len(tasks)].req.type))
  /\ UNCHANGED <<tables, faults, received, result, locals, mtx, presence, sent, crashes>>

(* A worker takes the oldest task and dispatches it.                       *)
Dequeue(w) ==
  /\ pc[w] = "idle" /\ tasks # <<>>
  /\ task' = [task EXCEPT ![w] = Head(tasks)]
  /\ tasks' = Tail(tasks)
  /\ Goto(w, handlePacket(Head(tasks).req.type))
  /\ UNCHANGED <<tables, faults, received, result, locals, mtx, presence, sent, crashes>>

(* The default branch: a type without a handler, no answer.                *)
Drop(w) ==
  /\ pc[w] = "drop"
  /\ Finish(w)
  /\ UNCHANGED <<tables, faults, queue, mtx, presence, sent, crashes>>

(* sendSimpleResponse ends a handler; handleDeleteUser goes on after it.   *)
Respond(w) ==
  /\ pc[w] = "respond"
  /\ Send(w, result[w], {})
  /\ IF Req(w).type = "DELETE_USER_REQ" /\ result[w]
     THEN Goto(w, "eraseDeleted") /\ UNCHANGED <<task, result, locals>>
     ELSE Finish(w)
  /\ UNCHANGED <<tables, faults, queue, mtx, presence, crashes>>

(* The process is killed and started again: the file is what is left.      *)
Crash ==
  /\ crashes < MaxCrashes
  /\ crashes' = crashes + 1
  /\ tasks' = <<>>
  /\ pc' = [w \in Worker |-> "idle"]
  /\ task' = [w \in Worker |-> NoTask]
  /\ result' = [w \in Worker |-> FALSE]
  /\ userId' = [w \in Worker |-> -1]
  /\ inbox' = [w \in Worker |-> {}]
  /\ payload' = [w \in Worker |-> {}]
  /\ mtx' = NoWorker /\ clientsMutex' = NoWorker
  /\ onlineClients' = [u \in UserId |-> NoAddr]
  /\ UNCHANGED <<tables, faults, received, skipped, sent>>

-----------------------------------------------------------------------------
(* Accounts.                                                               *)
RegisterUser(w) ==
  /\ InDb(w, "registerUser")
  /\ \E ok \in BOOLEAN : registerUser(Req(w).name, Req(w).pwd, ok) /\ Answer(w, ok)
  /\ DbCallOnly

UpdateUser(w) ==
  /\ InDb(w, "updateUser")
  /\ \E ok \in BOOLEAN : /\ updateUser(Req(w).userId, Req(w).name, Req(w).pwd, ok)
                         /\ Answer(w, ok)
  /\ DbCallOnly

DeleteUser(w) ==
  /\ InDb(w, "deleteUser")
  /\ \E ok \in BOOLEAN : deleteUser(Req(w).userId, ok) /\ Answer(w, ok)
  /\ DbCallOnly

(* The end of handleDeleteUser, after its response.                        *)
EraseDeleted(w) ==
  /\ pc[w] = "eraseDeleted" /\ clientsMutex = NoWorker
  /\ onlineClients' = [onlineClients EXCEPT ![Req(w).userId] = NoAddr]
  /\ Finish(w)
  /\ UNCHANGED <<tables, faults, queue, mtx, clientsMutex, skipped, sent, crashes>>

(* handleLogout: online or not, also for an id that is not in the map, the *)
(* answer is a success.                                                    *)
Logout(w) ==
  /\ pc[w] = "erase" /\ clientsMutex = NoWorker
  /\ onlineClients' = [onlineClients EXCEPT ![Req(w).userId] = NoAddr]
  /\ Answer(w, TRUE)
  /\ UNCHANGED <<tables, faults, queue, task, locals, mtx, clientsMutex, skipped, sent, crashes>>

(* Mutant: a name and password that match no row are not refused.          *)
VerifyUserUnchecked(w) ==
  /\ InDb(w, "verifyUser")
  /\ \E found \in SUBSET verifyUser(Req(w).name, Req(w).pwd) :
       /\ selectRows(verifyUser(Req(w).name, Req(w).pwd), found)
       /\ \/ \E u \in found : userId' = [userId EXCEPT ![w] = u]
          \/ found = {} /\ UNCHANGED userId
  /\ Goto(w, "goOnline")
  /\ UNCHANGED <<queue, task, result, inbox, payload, mtx, presence, sent, crashes>>

(* handleLogin: verify, go online, answer, then push the offline list.     *)
VerifyUser(w) ==
  /\ InDb(w, "verifyUser")
  /\ \E found \in SUBSET verifyUser(Req(w).name, Req(w).pwd) :
       /\ selectRows(verifyUser(Req(w).name, Req(w).pwd), found)
       /\ \/ /\ \E u \in found : userId' = [userId EXCEPT ![w] = u]
             /\ Goto(w, "goOnline") /\ UNCHANGED result
          \/ /\ found = {}
             /\ Goto(w, "loginResp") /\ result' = [result EXCEPT ![w] = FALSE]
             /\ UNCHANGED userId
  /\ UNCHANGED <<queue, task, inbox, payload, mtx, presence, sent, crashes>>

(* Mutant: that the user is online already is not looked at.               *)
GoOnlineAnyway(w) ==
  /\ pc[w] = "goOnline" /\ clientsMutex = NoWorker
  /\ result' = [result EXCEPT ![w] = TRUE]
  /\ onlineClients' = [onlineClients EXCEPT ![userId[w]] = Req(w).addr]
  /\ Goto(w, "loginResp")
  /\ UNCHANGED <<tables, faults, queue, task, locals, mtx, clientsMutex, skipped, sent, crashes>>

(* Mutant: the answer leaves before the user is put online.                *)
GoOnlineLate(w) ==
  /\ pc[w] = "goOnline" /\ clientsMutex = NoWorker
  /\ \/ /\ ~result[w] /\ onlineClients[userId[w]] = NoAddr
        /\ result' = [result EXCEPT ![w] = TRUE]
        /\ Send(w, TRUE, {<<userId[w]>>})
        /\ UNCHANGED <<pc, onlineClients>>
     \/ /\ ~result[w] /\ onlineClients[userId[w]] # NoAddr
        /\ Goto(w, "loginResp")
        /\ UNCHANGED <<result, sent, onlineClients>>
     \/ /\ result[w]
        /\ onlineClients' = [onlineClients EXCEPT ![userId[w]] = Req(w).addr]
        /\ Goto(w, "loadOffline")
        /\ UNCHANGED <<result, sent>>
  /\ UNCHANGED <<tables, faults, queue, task, locals, mtx, clientsMutex, skipped, crashes>>

(* Mutant: the entry is written before it is looked at.                    *)
GoOnlineFirst(w) ==
  /\ pc[w] = "goOnline" /\ clientsMutex = NoWorker
  /\ result' = [result EXCEPT ![w] = onlineClients[userId[w]] = NoAddr]
  /\ onlineClients' = [onlineClients EXCEPT ![userId[w]] = Req(w).addr]
  /\ Goto(w, "loginResp")
  /\ UNCHANGED <<tables, faults, queue, task, locals, mtx, clientsMutex, skipped, sent, crashes>>

GoOnline(w) ==
  /\ pc[w] = "goOnline" /\ clientsMutex = NoWorker
  /\ LET free == onlineClients[userId[w]] = NoAddr IN
       /\ result' = [result EXCEPT ![w] = free]
       /\ onlineClients' = IF free THEN [onlineClients EXCEPT ![userId[w]] = Req(w).addr]
                                   ELSE onlineClients
  /\ Goto(w, "loginResp")
  /\ UNCHANGED <<tables, faults, queue, task, locals, mtx, clientsMutex, skipped, sent, crashes>>

(* Mutant: a login that is refused returns without an answer.              *)
LoginRespIfGranted(w) ==
  /\ pc[w] = "loginResp"
  /\ IF result[w]
     THEN Send(w, TRUE, {<<userId[w]>>}) /\ Goto(w, "loadOffline")
          /\ UNCHANGED <<task, result, locals>>
     ELSE Finish(w) /\ UNCHANGED sent
  /\ UNCHANGED <<tables, faults, queue, mtx, presence, crashes>>

LoginResp(w) ==
  /\ pc[w] = "loginResp"
  /\ Send(w, result[w], {<<userId[w]>>})
  /\ IF result[w] THEN Goto(w, "loadOffline") /\ UNCHANGED <<task, result, locals>>
                  ELSE Finish(w)
  /\ UNCHANGED <<tables, faults, queue, mtx, presence, crashes>>

(* The rows come by msg_id, so that an error leaves out the last ones.     *)
LoadOffline(w) ==
  /\ InDb(w, "loadOffline")
  /\ LET rows == loadOffline(userId[w]) IN
       \E got \in SUBSET rows :
         /\ selectRows(rows, got)
         /\ \A m \in got, k \in rows \ got : m < k
         /\ inbox' = [inbox EXCEPT ![w] = got]
         /\ skipped' = (skipped \ rows) \cup (rows \ got)
  /\ Goto(w, "markDelivered")
  /\ UNCHANGED <<queue, task, result, userId, payload, mtx, clientsMutex, onlineClients,
                 sent, crashes>>

(* One round of the loop over the rows, which SQLite returns by rowid: the *)
(* entry, then the mark, whose result is not looked at.                    *)
Entry(m) == <<messages[m].sender, messages[m].content>>

NextRow(w, m) == m \in inbox[w] /\ \A k \in inbox[w] : m <= k

(* Mutant: the row is marked and its entry left out of the list.           *)
MarkUnlisted(w) ==
  /\ InDb(w, "markDelivered")
  /\ \E m \in inbox[w], ok \in BOOLEAN :
       /\ NextRow(w, m)
       /\ markDelivered(m, ok)
       /\ inbox' = [inbox EXCEPT ![w] = @ \ {m}]
  /\ UNCHANGED <<queue, pc, task, result, userId, payload, mtx, presence, sent, crashes>>

MarkDelivered(w) ==
  /\ InDb(w, "markDelivered")
  /\ \E m \in inbox[w], ok \in BOOLEAN :
       /\ NextRow(w, m)
       /\ payload' = [payload EXCEPT ![w] = @ \cup {Entry(m)}]
       /\ markDelivered(m, ok)
       /\ inbox' = [inbox EXCEPT ![w] = @ \ {m}]
  /\ UNCHANGED <<queue, pc, task, result, userId, mtx, presence, sent, crashes>>

PushOffline(w) ==
  /\ pc[w] = "markDelivered" /\ inbox[w] = {}
  /\ sent' = sent \cup {Datagram(Req(w).addr, task[w].n, "OFFLINE_MSG_LIST_RESP",
                                 TRUE, payload[w])}
  /\ Finish(w)
  /\ UNCHANGED <<tables, faults, queue, mtx, presence, crashes>>

-----------------------------------------------------------------------------
(* Friends.  handleFriendRequest looks for a pending request in either     *)
(* direction twice, sendFriendRequest once more; the INSERT of             *)
(* sendFriendRequest then runs without mtx.                                *)
SelfRequest(w) ==
  /\ pc[w] = "exists1" /\ Req(w).userId = Req(w).friendId
  /\ Answer(w, FALSE)
  /\ UNCHANGED <<tables, faults>> /\ DbCallOnly

(* Mutant: the handler does not return after it refused.                   *)
CheckPendingOnly(w, call, next) ==
  /\ InDb(w, call)
  /\ Req(w).userId # Req(w).friendId
  /\ \E found \in BOOLEAN :
       /\ selectFound(isFriendRequestExists(Req(w).userId, Req(w).friendId), found)
       /\ IF found THEN Send(w, FALSE, {}) ELSE UNCHANGED sent
  /\ Goto(w, next)
  /\ UNCHANGED <<queue, task, result, locals, mtx, presence, crashes>>

CheckPending(w, call, next) ==
  /\ InDb(w, call)
  /\ Req(w).userId # Req(w).friendId
  /\ \E found \in BOOLEAN :
       /\ selectFound(isFriendRequestExists(Req(w).userId, Req(w).friendId), found)
       /\ IF found THEN Answer(w, FALSE)
                   ELSE Goto(w, next) /\ UNCHANGED result
  /\ DbCallOnly

InsertRequest(w) ==
  /\ pc[w] = "insert"
  /\ \E ok \in BOOLEAN : /\ insertFriendRequest(Req(w).userId, Req(w).friendId, ok)
                         /\ Answer(w, ok)
  /\ DbCallOnly

HandleFriendRequest(w) ==
  \/ SelfRequest(w)
  \/ CheckPending(w, "exists1", "exists2")
  \/ CheckPending(w, "exists2", "exists3")
  \/ CheckPending(w, "exists3", "insert")
  \/ InsertRequest(w)

(* respondFriendRequest: the status is written in one lock, each of the    *)
(* two rows of Friends in a lock of its own.  The columns user_id and      *)
(* friend_id of a request never change: Asker and Asked are its u and f.   *)
Asker(w) == friendRequests[Req(w).requestId].userId
Asked(w) == friendRequests[Req(w).requestId].friendId

(* Mutant: the result of the UPDATE is not looked at.                      *)
UpdateStatusUnchecked(w) ==
  /\ InDb(w, "updateStatus")
  /\ IF Req(w).requestId \in DOMAIN friendRequests
     THEN \E ok \in BOOLEAN :
            /\ updateRequestStatus(Req(w).requestId, Req(w).accept, ok)
            /\ IF Req(w).accept THEN Goto(w, "addFriend1") /\ UNCHANGED result
                                ELSE Answer(w, TRUE)
     ELSE Answer(w, FALSE) /\ UNCHANGED <<tables, faults>>
  /\ DbCallOnly

UpdateStatus(w) ==
  /\ InDb(w, "updateStatus")
  /\ IF Req(w).requestId \in DOMAIN friendRequests
     THEN \E ok \in BOOLEAN :
            /\ updateRequestStatus(Req(w).requestId, Req(w).accept, ok)
            /\ IF ok /\ Req(w).accept THEN Goto(w, "addFriend1") /\ UNCHANGED result
                                      ELSE Answer(w, ok)
     ELSE Answer(w, FALSE) /\ UNCHANGED <<tables, faults>>
  /\ DbCallOnly

AddFriend1(w) ==
  /\ InDb(w, "addFriend1")
  /\ \E ok \in BOOLEAN : /\ addFriend(Asker(w), Asked(w), ok)
                         /\ result' = [result EXCEPT ![w] = ok]
  /\ Goto(w, "addFriend2")
  /\ DbCallOnly

(* Mutant: the second row is the first one again.                          *)
AddFriend2Same(w) ==
  /\ InDb(w, "addFriend2")
  /\ \E ok \in BOOLEAN : addFriend(Asker(w), Asked(w), ok) /\ Answer(w, result[w] /\ ok)
  /\ DbCallOnly

AddFriend2(w) ==
  /\ InDb(w, "addFriend2")
  /\ \E ok \in BOOLEAN : addFriend(Asked(w), Asker(w), ok) /\ Answer(w, result[w] /\ ok)
  /\ DbCallOnly

DeleteFriend(w) ==
  /\ InDb(w, "deleteFriend")
  /\ \E ok \in BOOLEAN : /\ deleteFriend(Req(w).userId, Req(w).friendId, ok)
                         /\ Answer(w, ok)
  /\ DbCallOnly

SetBlocked(w) ==
  /\ InDb(w, "setBlocked")
  /\ \E ok \in BOOLEAN :
       /\ setBlocked(Req(w).userId, Req(w).friendId, Req(w).type = "BLOCK_USER_REQ", ok)
       /\ Answer(w, ok)
  /\ DbCallOnly

(* handleFriendList, handleFriendRequestList and handleChatHistory: one    *)
(* read, then the list goes out.  Its entries tell the rows apart.         *)
ListBody(r) ==
  CASE r.type = "FRIEND_LIST_REQ" ->
         {<<f.friendId, IF f.isBlocked THEN 1 ELSE 0>> : f \in getFriends(r.userId)}
    [] r.type = "FRIEND_REQUEST_LIST_REQ" ->
         {<<i, friendRequests[i].userId>> : i \in getFriendRequests(r.userId)}
    [] OTHER -> {Entry(m) : m \in getChatHistory(r.userId, r.friendId)}

List(w) ==
  /\ InDb(w, "list")
  /\ \E body \in SUBSET ListBody(Req(w)) :
       selectRows(ListBody(Req(w)), body) /\ Send(w, TRUE, body)
  /\ Finish(w)
  /\ UNCHANGED <<queue, mtx, presence, crashes>>

-----------------------------------------------------------------------------
(* Private messages.  handlePrivateMessage looks at the sender's row only. *)
(* Mutant: only a blocked row refuses, no row at all does not.             *)
MayMessageUnlessBlocked(s, r) == ~\E f \in getFriends(s) : f.friendId = r /\ f.isBlocked

MayMessage(s, r) == \E f \in getFriends(s) : f.friendId = r /\ ~f.isBlocked

CheckFriend(w) ==
  /\ InDb(w, "getFriends")
  /\ \E found \in BOOLEAN :
       /\ selectFound(MayMessage(Req(w).userId, Req(w).friendId), found)
       /\ IF found THEN Goto(w, "deliver") /\ UNCHANGED result
                   ELSE Answer(w, FALSE)
  /\ DbCallOnly

(* Mutant: the lock covers only the look at the map.                       *)
DeliverUnlocked(w) ==
  /\ pc[w] = "deliver" /\ clientsMutex = NoWorker
  /\ LET to == onlineClients[Req(w).friendId] IN
       \/ /\ to # NoAddr
          /\ sent' = sent \cup {Datagram(to, task[w].n, "PRIVATE_MSG_RESP", TRUE,
                                        {<<task[w].n>>})}
          /\ Answer(w, TRUE)
       \/ /\ to = NoAddr
          /\ Goto(w, "storeMessage")
          /\ UNCHANGED <<result, sent>>
  /\ UNCHANGED <<tables, faults, queue, task, locals, mtx, presence, crashes>>

(* Mutant: the answer to a message for a user offline, without the row.    *)
DeliverOnlineOnly(w) ==
  /\ pc[w] = "deliver" /\ clientsMutex = NoWorker
  /\ LET to == onlineClients[Req(w).friendId] IN
       sent' = IF to = NoAddr THEN sent
               ELSE sent \cup {Datagram(to, task[w].n, "PRIVATE_MSG_RESP", TRUE,
                                        {<<task[w].n>>})}
  /\ Answer(w, TRUE)
  /\ UNCHANGED <<tables, faults, queue, task, locals, mtx, presence, crashes>>

(* Mutant: a message for a user online is stored as well.                  *)
DeliverTwice(w) ==
  /\ pc[w] = "deliver" /\ clientsMutex = NoWorker
  /\ LET to == onlineClients[Req(w).friendId] IN
       sent' = IF to = NoAddr THEN sent
               ELSE sent \cup {Datagram(to, task[w].n, "PRIVATE_MSG_RESP", TRUE,
                                        {<<task[w].n>>})}
  /\ clientsMutex' = w
  /\ Goto(w, "storeMessage")
  /\ UNCHANGED <<tables, faults, queue, task, result, locals, mtx, onlineClients, skipped, crashes>>

(* Under clientsMutex: to the receiver's address if online, the text being *)
(* the whole body, and otherwise to the table, still inside the lock.      *)
Deliver(w) ==
  /\ pc[w] = "deliver" /\ clientsMutex = NoWorker
  /\ LET to == onlineClients[Req(w).friendId] IN
       \/ /\ to # NoAddr
          /\ sent' = sent \cup {Datagram(to, task[w].n, "PRIVATE_MSG_RESP", TRUE,
                                        {<<task[w].n>>})}
          /\ Answer(w, TRUE)
          /\ UNCHANGED clientsMutex
       \/ /\ to = NoAddr
          /\ clientsMutex' = w
          /\ Goto(w, "storeMessage")
          /\ UNCHANGED <<result, sent>>
  /\ UNCHANGED <<tables, faults, queue, task, locals, mtx, onlineClients, skipped, crashes>>

(* Mutant: clientsMutex is not released.                                   *)
StoreKeepingLock(w) ==
  /\ InDb(w, "storeMessage")
  /\ \E stored \in BOOLEAN :
       storeMessage(Req(w).userId, Req(w).friendId, task[w].n, stored)
  /\ Answer(w, TRUE)
  /\ UNCHANGED <<queue, task, locals, mtx, presence, sent, crashes>>

(* The result of storeMessage is not looked at: the answer is a success.   *)
StoreMessage(w) ==
  /\ InDb(w, "storeMessage")
  /\ \E stored \in BOOLEAN :
       storeMessage(Req(w).userId, Req(w).friendId, task[w].n, stored)
  /\ clientsMutex' = NoWorker
  /\ Answer(w, TRUE)
  /\ UNCHANGED <<queue, task, locals, mtx, onlineClients, skipped, sent, crashes>>

-----------------------------------------------------------------------------
(* Groups.  createGroup and addUserToGroup lock mtx and then call          *)
(* getGroupIdByName, which locks it again: the thread waits for itself.    *)
(* Nothing follows "relock".                                               *)
LockTwice(w, call) ==
  /\ InDb(w, call)
  /\ mtx' = w
  /\ Goto(w, "relock")
  /\ UNCHANGED <<tables, faults, queue, task, result, locals, presence, sent, crashes>>

CreateGroup(w) ==
  \/ /\ InDb(w, "groupOf")
     /\ \E found \in BOOLEAN :
          /\ selectFound(groupExists(Req(w).groupName), found)
          /\ IF found THEN Answer(w, FALSE)
                      ELSE Goto(w, "createGroup") /\ UNCHANGED result
     /\ DbCallOnly
  \/ LockTwice(w, "createGroup")

JoinGroup(w) ==
  \/ /\ InDb(w, "groupToJoin")
     /\ \E found \in BOOLEAN :
          /\ selectFound(groupExists(Req(w).groupName), found)
          /\ IF found THEN Goto(w, "isUserInGroup") /\ UNCHANGED result
                      ELSE Answer(w, FALSE)
     /\ DbCallOnly
  \/ /\ InDb(w, "isUserInGroup")
     /\ \E found \in BOOLEAN :
          /\ selectFound(isUserInGroup(Req(w).userId, Req(w).groupName), found)
          /\ IF found THEN Answer(w, FALSE)
                      ELSE Goto(w, "addUserToGroup") /\ UNCHANGED result
     /\ DbCallOnly
  \/ LockTwice(w, "addUserToGroup")

-----------------------------------------------------------------------------
Login(w) ==
  VerifyUser(w) \/ GoOnline(w) \/ LoginResp(w) \/ LoadOffline(w)
  \/ MarkDelivered(w) \/ PushOffline(w)

PrivateMessage(w) == CheckFriend(w) \/ Deliver(w) \/ StoreMessage(w)

FriendRequestAction(w) == UpdateStatus(w) \/ AddFriend1(w) \/ AddFriend2(w)

Run(w) ==
  \/ Dequeue(w) \/ Drop(w) \/ Respond(w)
  \/ RegisterUser(w) \/ UpdateUser(w) \/ DeleteUser(w) \/ EraseDeleted(w)
  \/ Logout(w) \/ Login(w)
  \/ HandleFriendRequest(w) \/ FriendRequestAction(w) \/ DeleteFriend(w)
  \/ SetBlocked(w) \/ List(w)
  \/ PrivateMessage(w)
  \/ CreateGroup(w) \/ JoinGroup(w)

(* The bound on requests is reached and every task is done.                *)
Quiet ==
  /\ received = MaxRequests /\ tasks = <<>> /\ \A w \in Worker : pc[w] = "idle"
  /\ UNCHANGED vars

Next ==
  \/ \E r \in Requests : Receive(r)
  \/ \E w \in Worker : Run(w)
  \/ Crash
  \/ Quiet

Spec == Init /\ [][Next]_vars

(* Threads that can run do run; datagrams and kills just happen.           *)
FairSpec == Spec /\ \A w \in Worker : WF_vars(Run(w))

-----------------------------------------------------------------------------
(* The calls a handler may be at, by the type of its request.              *)
Calls(type) ==
  {handlePacket(type)} \cup
  CASE type = "LOGIN_REQ" -> {"goOnline", "loginResp", "loadOffline", "markDelivered"}
    [] type = "DELETE_USER_REQ" -> {"respond", "eraseDeleted"}
    [] type = "FRIEND_REQUEST_REQ" -> {"exists2", "exists3", "insert", "respond"}
    [] type = "FRIEND_REQUEST_ACTION_REQ" -> {"addFriend1", "addFriend2", "respond"}
    [] type = "PRIVATE_MSG_REQ" -> {"deliver", "storeMessage", "respond"}
    [] type = "CREATE_GROUP_REQ" -> {"createGroup", "relock", "respond"}
    [] type = "JOIN_GROUP_REQ" -> {"isUserInGroup", "addUserToGroup", "relock", "respond"}
    [] type \in {"FRIEND_LIST_REQ", "FRIEND_REQUEST_LIST_REQ", "CHAT_HISTORY_REQ",
                 "GROUP_MSG"} -> {}
    [] OTHER -> {"respond"}

Call ==
  {"drop", "registerUser", "verifyUser", "goOnline", "loginResp", "loadOffline",
   "markDelivered", "erase", "updateUser", "deleteUser", "eraseDeleted", "exists1",
   "exists2", "exists3", "insert", "list", "updateStatus", "addFriend1", "addFriend2",
   "deleteFriend", "setBlocked", "groupOf", "createGroup", "groupToJoin",
   "isUserInGroup", "addUserToGroup", "relock", "getFriends", "deliver",
   "storeMessage", "respond"}

ResponseType ==
  {"REGISTER_RESP", "LOGIN_RESP", "LOGOUT_RESP", "UPDATE_USER_RESP", "DELETE_USER_RESP",
   "FRIEND_REQUEST_RESP", "FRIEND_REQUEST_LIST_RESP", "FRIEND_REQUEST_ACTION_RESP",
   "DELETE_FRIEND_RESP", "BLOCK_USER_RESP", "UNBLOCK_USER_RESP", "FRIEND_LIST_RESP",
   "CREATE_GROUP_RESP", "JOIN_GROUP_RESP", "PRIVATE_MSG_RESP", "CHAT_HISTORY_RESP",
   "OFFLINE_MSG_LIST_RESP"}

Datagrams ==
  [to : Addr, n : Nat, type : ResponseType, ok : BOOLEAN, body : SUBSET Seq(Int)]

WorkerTypeOK(w) ==
  /\ \/ pc[w] = "idle" /\ task[w] = NoTask
     \/ task[w] \in Task /\ pc[w] \in Calls(Req(w).type)
  /\ pc[w] \in {"goOnline", "loadOffline", "markDelivered"} => userId[w] \in UserId
  /\ pc[w] = "loginResp" /\ result[w] => userId[w] \in UserId
  /\ pc[w] \in {"addFriend1", "addFriend2"} => Req(w).requestId \in DOMAIN friendRequests
  /\ inbox[w] \subseteq DOMAIN messages

ServerTypeOK ==
  /\ tasks \in Seq(Task) /\ received \in Nat
  /\ pc \in [Worker -> Call \cup {"idle"}]
  /\ task \in [Worker -> Task \cup {NoTask}]
  /\ result \in [Worker -> BOOLEAN]
  /\ userId \in [Worker -> UserId \cup {-1}]
  /\ inbox \in [Worker -> SUBSET Nat]
  /\ payload \in [Worker -> SUBSET (UserId \X Nat)]
  /\ mtx \in Worker \cup {NoWorker}
  /\ clientsMutex \in Worker \cup {NoWorker}
  /\ onlineClients \in [UserId -> Addr \cup {NoAddr}]
  /\ skipped \subseteq Nat
  /\ sent \subseteq Datagrams
  /\ crashes \in Nat

(* Every variable has its type, every worker is at a call of the handler   *)
(* of its own request, and what that call reads from the worker's locals   *)
(* is there: a user id after a verified login, a row for an answered       *)
(* request (handleLogin, respondFriendRequest).                            *)
TypeOK == DatabaseTypeOK /\ ServerTypeOK /\ \A w \in Worker : WorkerTypeOK(w)

-----------------------------------------------------------------------------
(* An offline list with message m in it went out after a login of the      *)
(* receiver was answered with success, to the same address.                *)
Pushed(m) ==
  \E list, login \in sent :
    /\ list.type = "OFFLINE_MSG_LIST_RESP" /\ Entry(m) \in list.body
    /\ login.type = "LOGIN_RESP" /\ login.ok /\ <<messages[m].receiver>> \in login.body
    /\ login.n = list.n /\ login.to = list.to

Listed(w, m) ==
  pc[w] = "markDelivered" /\ userId[w] = messages[m].receiver /\ Entry(m) \in payload[w]

(* A login of the receiver is going to load message m, or has loaded it.   *)
InHand(w, m) ==
  /\ userId[w] = messages[m].receiver
  /\ \/ pc[w] = "loginResp" /\ result[w]
     \/ pc[w] = "loadOffline"
     \/ pc[w] = "markDelivered" /\ m \in inbox[w]

(* No message is stranded: one that is in the table for a user who is      *)
(* online either went out or is in the hands of a login of that user, but  *)
(* for the rows that the last load for that user failed to read            *)
(* (handlePrivateMessage stores inside clientsMutex, handleLogin goes      *)
(* online inside it and loads afterwards).                                 *)
OnlineInboxCovered ==
  \A m \in DOMAIN messages :
    ~messages[m].delivered /\ onlineClients[messages[m].receiver] # NoAddr
    => Pushed(m) \/ m \in skipped \/ \E w \in Worker : InHand(w, m) \/ Listed(w, m)

(* As long as the process is not killed, a row marked delivered is in an   *)
(* offline list that went to a login of its receiver or is being built for *)
(* one, whatever logins of the receiver overlap (handleLogin's loop).      *)
DeliveredWasPushed ==
  crashes = 0 =>
    \A m \in DOMAIN messages :
      messages[m].delivered => Pushed(m) \/ \E w \in Worker : Listed(w, m)

(* An offline list holds messages to the user whose login it belongs to,   *)
(* and goes where that login was answered with success, before the list:   *)
(* no message of another user is in it, whatever logins, logouts and       *)
(* messages come between the query and the datagram (handleLogin).         *)
ListedForReceiver ==
  \A list \in sent :
    list.type = "OFFLINE_MSG_LIST_RESP" =>
      \E login \in sent :
        /\ login.type = "LOGIN_RESP" /\ login.ok /\ login.n = list.n /\ login.to = list.to
        /\ \A entry \in list.body :
             \E m \in DOMAIN messages :
               entry = Entry(m) /\ <<messages[m].receiver>> \in login.body

(* Who is online at an address was told so there, or is about to be told:  *)
(* an entry of onlineClients is always the one of a login that succeeds,   *)
(* also when two of them race for it (handleLogin).                        *)
OnlineWasGranted ==
  \A u \in UserId :
    onlineClients[u] # NoAddr =>
      \/ \E d \in sent : /\ d.type = "LOGIN_RESP" /\ d.ok /\ d.to = onlineClients[u]
                        /\ <<u>> \in d.body
      \/ \E w \in Worker : /\ pc[w] = "loginResp" /\ result[w] /\ userId[w] = u
                          /\ Req(w).addr = onlineClients[u]

(* The messages whose senders were told success, and those that went to an *)
(* address or have a row.                                                  *)
Confirmed ==
  {d.n : d \in {e \in sent : e.type = "PRIVATE_MSG_RESP" /\ e.ok /\ e.body = {}}}

Kept(n) ==
  \/ \E push \in sent : push.n = n /\ push.body = {<<n>>}
  \/ \E m \in DOMAIN messages : messages[m].content = n

(* A failed statement loses one accepted message at most, and nothing else *)
(* loses any: no kill, no login, logout or deletion that comes between the *)
(* check, the delivery and the answer (handlePrivateMessage, which answers *)
(* after the lock and does not look at the result of storeMessage).        *)
AcceptedNotLost == Cardinality({n \in Confirmed : ~Kept(n)}) <= faults

(* Private messages, by the number of the request that brought them, are   *)
(* handled as Mailbox promises: pushed or stored, once, and marked once,   *)
(* whatever kills, failures, logins and logouts come between, and however  *)
(* many lists a message is in (handlePrivateMessage, handleLogin).         *)
PushedTexts == {d.n : d \in {e \in sent : e.type = "PRIVATE_MSG_RESP" /\ e.body # {}}}

Contents(delivered) ==
  {messages[m].content : m \in {k \in DOMAIN messages : messages[k].delivered = delivered}}

ListedTexts ==
  {entry[2] : entry \in UNION {d.body : d \in {e \in sent : e.type = "OFFLINE_MSG_LIST_RESP"}}}

Mail == INSTANCE Mailbox WITH
  Message <- 1..MaxRequests, pushed <- PushedTexts, waiting <- Contents(FALSE),
  marked <- Contents(TRUE), listed <- ListedTexts

KeepsMailbox == Mail!Spec

(* Some request between u and f was answered.                              *)
Acquainted(u, f) ==
  \E i \in DOMAIN friendRequests : AnsweredBetween(friendRequests[i], u, f)

(* Two users have a row in Friends only if a request between them was      *)
(* answered, whatever fails or dies between the three statements of        *)
(* respondFriendRequest.                                                   *)
FriendRowsAuthorised == \A r \in friends : Acquainted(r.userId, r.friendId)

(* A stored message is between users who had such a request answered, even *)
(* when the row the check found is deleted before the message is stored    *)
(* (handlePrivateMessage).                                                 *)
MessagesAuthorised ==
  \A m \in DOMAIN messages : Acquainted(messages[m].sender, messages[m].receiver)

(* A deletion of a friend was answered with success, or is about to be.    *)
SomeFriendDeleted ==
  \/ \E d \in sent : d.type = "DELETE_FRIEND_RESP" /\ d.ok
  \/ \E w \in Worker : pc[w] = "respond" /\ Req(w).type = "DELETE_FRIEND_REQ" /\ result[w]

(* The requests between two users that wait for an answer are no more than *)
(* there are threads, and one more for every three looks that fail: every  *)
(* thread may have looked before the first of them inserts, and one that   *)
(* looks later inserts only when all of its three looks find nothing       *)
(* (handleFriendRequest, sendFriendRequest).                               *)
PendingBetween(u, f) ==
  {i \in DOMAIN friendRequests :
     /\ friendRequests[i].status = 0
     /\ {friendRequests[i].userId, friendRequests[i].friendId} = {u, f}}

PendingBounded ==
  \A u, f \in UserId :
    3 * Cardinality(PendingBetween(u, f)) <= 3 * Cardinality(Worker) + faults

AreFriends(u, f) == \E r \in friends : r.userId = u /\ r.friendId = f

(* Friendship is mutual: a row has its counterpart, or the acceptance that *)
(* wrote it is about to write the other one, as long as no statement       *)
(* fails, nothing is killed and no deletion comes between the two inserts, *)
(* however many answers to requests overlap (respondFriendRequest).        *)
FriendsMutual ==
  faults = 0 /\ crashes = 0 /\ ~SomeFriendDeleted =>
    \A r \in friends :
      \/ AreFriends(r.friendId, r.userId)
      \/ \E w \in Worker : /\ pc[w] = "addFriend2"
                           /\ r.userId = Asker(w) /\ r.friendId = Asked(w)

(* The locks that the next call of a handler takes are free.               *)
TakesMtx ==
  {"registerUser", "verifyUser", "loadOffline", "markDelivered", "updateUser", "deleteUser",
   "exists1", "exists2", "exists3", "list", "updateStatus", "addFriend1", "addFriend2",
   "deleteFriend", "setBlocked", "groupOf", "createGroup", "groupToJoin", "isUserInGroup",
   "addUserToGroup", "relock", "getFriends", "storeMessage"}

TakesClientsMutex == {"goOnline", "erase", "eraseDeleted", "deliver"}

Unblocked(w) ==
  /\ pc[w] \in TakesMtx => mtx = NoWorker
  /\ pc[w] \in TakesClientsMutex => clientsMutex = NoWorker

(* The threads never wait for each other in a circle: if one of them has   *)
(* work, some thread with work finds the locks of its next call free,      *)
(* unless a group handler waits for the mtx that it holds itself (mtx is   *)
(* taken inside clientsMutex and never the other way round).               *)
NeverStuck ==
  \/ \A w \in Worker : pc[w] = "idle"
  \/ \E w \in Worker : pc[w] # "idle" /\ Unblocked(w)
  \/ \E w \in Worker : mtx = w /\ pc[w] = "relock"

(* What handlePacket is run for is what the receive loop has enqueued, in  *)
(* that order, each datagram once and one at a time per thread: this       *)
(* server, while it is not killed, uses its pool as TaskQueue promises it, *)
(* which ThreadPool implements (receiveLoop, the worker loop).             *)
Pool == INSTANCE TaskQueue WITH
  submitted <- received, started <- received - Len(tasks),
  running <- [w \in Worker |-> IF task[w] = NoTask THEN 0 ELSE task[w].n],
  state <- "open", NoTask <- 0, MaxTasks <- MaxRequests

UsesTaskQueue == Pool!Spec

(* The answer to a request.  The text pushed to a receiver and the offline *)
(* list are other datagrams of the same handler.                           *)
IsAnswer(d) ==
  d.type # "OFFLINE_MSG_LIST_RESP" /\ (d.type = "PRIVATE_MSG_RESP" => d.body = {})

Answered(n) == \E d \in sent : d.n = n /\ IsAnswer(d)

(* No request is answered twice, whatever the handler goes through: who is *)
(* about to answer has not answered yet, and no number has two answers     *)
(* (the early returns of the handlers).                                    *)
AnsweredOnce ==
  /\ \A w \in Worker :
       pc[w] \in {"respond", "loginResp", "list"} => ~Answered(task[w].n)
  /\ \A d, e \in sent : IsAnswer(d) /\ IsAnswer(e) /\ d.n = e.n => d = e

(* No handler returns without an answer, unless its packet has none or the *)
(* process is killed (sendSimpleResponse, sendPacket).                     *)
ReturnsAnswered ==
  [][\A w \in Worker :
       task[w] # NoTask /\ task'[w] = NoTask /\ pc[w] # "drop"
       => \/ \E d \in sent' : d.n = task[w].n /\ IsAnswer(d)
          \/ crashes' # crashes]_vars

(* The datagram with this number is queued for a handler or is in one.     *)
Waiting(n) ==
  \/ \E i \in DOMAIN tasks : tasks[i].n = n /\ handlePacket(tasks[i].req.type) # "drop"
  \/ \E w \in Worker : pc[w] \notin {"idle", "drop"} /\ task[w].n = n

(* Every datagram that has a handler is answered to its sender in the end  *)
(* and its handler returns, unless the process is killed or a group        *)
(* handler waits for itself with mtx held: no handler returns without an   *)
(* answer, and again and again none is left that waits (the pool's         *)
(* threads, the two mutexes; a number that stops waiting stays so).        *)
EveryRequestAnswered ==
  /\ ReturnsAnswered
  /\ []<>(\/ \A n \in 1..MaxRequests : ~Waiting(n)
          \/ mtx # NoWorker
          \/ crashes > 0)

-----------------------------------------------------------------------------
(* What comments and messages of the code say and the code does not do.    *)

(* A group that is being created is created or refused: the handler gets   *)
(* its answer from createGroup (ChatServer.cpp:312).                       *)
CreateGroupAnswered == \A w \in Worker : pc[w] = "createGroup" ~> pc[w] = "idle"

(* There is one pending request between two users (DatabaseManager.cpp:118,*)
(* the check is before the INSERT and outside its lock).                   *)
NoDuplicatePending ==
  \A i, j \in DOMAIN friendRequests :
    /\ friendRequests[i].status = 0 /\ friendRequests[j].status = 0
    /\ {friendRequests[i].userId, friendRequests[i].friendId}
         = {friendRequests[j].userId, friendRequests[j].friendId}
    => i = j

(* A message is refused when one of the two blocked the other              *)
(* (ChatServer.cpp:376: the check reads the sender's own row).             *)
BlockedIsRefused ==
  [][\A w \in Worker :
       pc[w] = "getFriends" /\ pc'[w] = "deliver"
       => ~\E r \in friends : {r.userId, r.friendId} = {Req(w).userId, Req(w).friendId}
                             /\ r.isBlocked]_vars

(* An account that was deleted is logged out (TestClient.cpp:73), once     *)
(* handleDeleteUser is through.                                            *)
DeletedIsOffline ==
  \A u \in UserId :
    onlineClients[u] # NoAddr
    => \/ \E row \in users : row.id = u
       \/ \E w \in Worker : /\ pc[w] \in {"respond", "eraseDeleted"}
                            /\ Req(w).type = "DELETE_USER_REQ" /\ Req(w).userId = u

(* A deleted account is gone for good (TestClient.cpp:73): a new account   *)
(* does not find friends or messages that were another's.                  *)
NewAccountStartsEmpty ==
  [][\A u \in users' :
       (\A v \in users : v.id # u.id)
       => /\ ~\E r \in friends : u.id \in {r.userId, r.friendId}
          /\ ~\E m \in DOMAIN messages : messages[m].receiver = u.id]_vars
=============================================================================
