---------------------------- MODULE DatabaseProofs ----------------------------
(***************************************************************************)
(* What each statement of DatabaseManager does to the tables, for every    *)
(* value of the constants: the tables keep their types, no request         *)
(* and no message is lost or changes its ends, and an answered request     *)
(* does not become pending again.                                          *)
(***************************************************************************)
EXTENDS DatabaseManager, TLAPS

(* How the two sequences may change in a step.                             *)
RequestsGrow ==
  /\ DOMAIN friendRequests \subseteq DOMAIN friendRequests'
  /\ \A i \in DOMAIN friendRequests :
       /\ friendRequests'[i].userId = friendRequests[i].userId
       /\ friendRequests'[i].friendId = friendRequests[i].friendId
       /\ friendRequests[i].status # 0 => friendRequests'[i].status # 0

MessagesGrow ==
  /\ DOMAIN messages \subseteq DOMAIN messages'
  /\ \A m \in DOMAIN messages :
       /\ messages'[m].sender = messages[m].sender
       /\ messages'[m].receiver = messages[m].receiver
       /\ messages'[m].content = messages[m].content
       /\ messages[m].delivered => messages'[m].delivered

TablesGrow == RequestsGrow /\ MessagesGrow

LEMMA InitTablesType == InitTables => DatabaseTypeOK
BY DatabaseAssumption DEF InitTables, DatabaseTypeOK

LEMMA RowsTyped ==
  ASSUME DatabaseTypeOK
  PROVE  /\ UserId \subseteq Int
         /\ \A r \in friends : r.userId \in UserId /\ r.friendId \in UserId
         /\ \A i \in DOMAIN friendRequests :
              /\ i \in Nat /\ friendRequests[i].userId \in UserId
              /\ friendRequests[i].friendId \in UserId
         /\ \A m \in DOMAIN messages :
              /\ m \in Nat /\ messages[m].sender \in UserId
              /\ messages[m].receiver \in UserId /\ messages[m].content \in Nat
<1>1. UserId \subseteq Int  BY DatabaseAssumption
<1>2. \A r \in friends : r.userId \in UserId /\ r.friendId \in UserId
  BY DEF DatabaseTypeOK, Friend
<1>3. \A i \in DOMAIN friendRequests : i \in Nat /\ friendRequests[i] \in FriendRequest
  BY DEF DatabaseTypeOK
<1>4. \A m \in DOMAIN messages : m \in Nat /\ messages[m] \in Message
  BY DEF DatabaseTypeOK
<1> QED  BY <1>1, <1>2, <1>3, <1>4 DEF FriendRequest, Message

LEMMA ExecuteType ==
  ASSUME DatabaseTypeOK, NEW ok \in BOOLEAN, executePrepared(ok)
  PROVE  faults' \in 0..MaxFaults
BY DatabaseAssumption DEF DatabaseTypeOK, executePrepared

LEMMA SelectRowsType ==
  ASSUME DatabaseTypeOK, NEW rows, NEW got, selectRows(rows, got)
  PROVE  DatabaseTypeOK' /\ TablesGrow /\ got \subseteq rows
BY DatabaseAssumption
DEF DatabaseTypeOK, selectRows, tables, TablesGrow, RequestsGrow, MessagesGrow

LEMMA SelectFoundType ==
  ASSUME DatabaseTypeOK, NEW exists, NEW found, selectFound(exists, found)
  PROVE  DatabaseTypeOK' /\ TablesGrow
BY DatabaseAssumption
DEF DatabaseTypeOK, selectFound, tables, TablesGrow, RequestsGrow, MessagesGrow

LEMMA RegisterType ==
  ASSUME DatabaseTypeOK, NEW n \in Name, NEW p \in Password, NEW ok \in BOOLEAN,
         registerUser(n, p, ok)
  PROVE  DatabaseTypeOK' /\ TablesGrow
BY ExecuteType DEF DatabaseTypeOK, registerUser, User, TablesGrow, RequestsGrow, MessagesGrow

LEMMA UpdateType ==
  ASSUME DatabaseTypeOK, NEW id \in UserId, NEW n \in Name, NEW p \in Password,
         NEW ok \in BOOLEAN, updateUser(id, n, p, ok)
  PROVE  DatabaseTypeOK' /\ TablesGrow
BY ExecuteType DEF DatabaseTypeOK, updateUser, User, TablesGrow, RequestsGrow, MessagesGrow

LEMMA DeleteType ==
  ASSUME DatabaseTypeOK, NEW id \in UserId, NEW ok \in BOOLEAN, deleteUser(id, ok)
  PROVE  DatabaseTypeOK' /\ TablesGrow
BY ExecuteType DEF DatabaseTypeOK, deleteUser, TablesGrow, RequestsGrow, MessagesGrow

LEMMA InsertRequestType ==
  ASSUME DatabaseTypeOK, NEW u \in UserId, NEW f \in UserId, NEW ok \in BOOLEAN,
         insertFriendRequest(u, f, ok)
  PROVE  DatabaseTypeOK' /\ TablesGrow
<1> DEFINE row == [userId |-> u, friendId |-> f, status |-> 0]
<1>1. row \in FriendRequest /\ friendRequests \in Seq(FriendRequest)
  BY DEF DatabaseTypeOK, FriendRequest
<1>2. friendRequests' = IF ok THEN Append(friendRequests, row) ELSE friendRequests
  BY DEF insertFriendRequest
<1> HIDE DEF row
<1>3. /\ friendRequests' \in Seq(FriendRequest)
      /\ DOMAIN friendRequests \subseteq DOMAIN friendRequests'
      /\ \A i \in DOMAIN friendRequests : friendRequests'[i] = friendRequests[i]
  BY <1>1, <1>2
<1> QED  BY <1>3, ExecuteType
         DEF DatabaseTypeOK, insertFriendRequest, TablesGrow, RequestsGrow, MessagesGrow

LEMMA UpdateStatusType ==
  ASSUME DatabaseTypeOK, NEW i \in DOMAIN friendRequests, NEW accept \in BOOLEAN,
         NEW ok \in BOOLEAN, updateRequestStatus(i, accept, ok)
  PROVE  /\ DatabaseTypeOK' /\ TablesGrow
         /\ ok => friendRequests'[i].status # 0
<1>1. CASE ok
  <2>1. friendRequests[i] \in FriendRequest /\ friendRequests \in Seq(FriendRequest)
    BY DEF DatabaseTypeOK
  <2> DEFINE answer == IF accept THEN 1 ELSE 2
  <2> DEFINE row == [friendRequests[i] EXCEPT !.status = answer]
  <2>2. answer \in 0..2 /\ answer # 0  OBVIOUS
  <2>3. friendRequests' = [friendRequests EXCEPT ![i] = row]
    BY <1>1 DEF updateRequestStatus
  <2> HIDE DEF answer
  <2>4. /\ row \in FriendRequest /\ row.userId = friendRequests[i].userId
        /\ row.friendId = friendRequests[i].friendId /\ row.status = answer
    BY <2>1, <2>2 DEF FriendRequest
  <2> HIDE DEF row
  <2>5. friendRequests' \in Seq(FriendRequest) /\ DOMAIN friendRequests' = DOMAIN friendRequests
    BY <2>1, <2>3, <2>4
  <2>6. \A k \in DOMAIN friendRequests :
          friendRequests'[k] = IF k = i THEN row ELSE friendRequests[k]
    BY <2>1, <2>3
  <2> QED  BY <2>2, <2>4, <2>5, <2>6, ExecuteType
           DEF DatabaseTypeOK, updateRequestStatus, TablesGrow, RequestsGrow, MessagesGrow
<1>2. CASE ~ok
  BY <1>2, ExecuteType
  DEF DatabaseTypeOK, updateRequestStatus, TablesGrow, RequestsGrow, MessagesGrow
<1> QED  BY <1>1, <1>2

LEMMA AddFriendType ==
  ASSUME DatabaseTypeOK, NEW u \in UserId, NEW f \in UserId, NEW ok \in BOOLEAN,
         addFriend(u, f, ok)
  PROVE  /\ DatabaseTypeOK' /\ TablesGrow
         /\ \A r \in friends' : r \in friends \/ (r.userId = u /\ r.friendId = f)
<1> DEFINE row == [userId |-> u, friendId |-> f, isBlocked |-> FALSE]
<1>1. row \in Friend /\ row.userId = u /\ row.friendId = f  BY DEF Friend
<1>2. friends' = friends \/ friends' = friends \cup {row}  BY DEF addFriend
<1> HIDE DEF row
<1> QED  BY <1>1, <1>2, ExecuteType
         DEF DatabaseTypeOK, addFriend, TablesGrow, RequestsGrow, MessagesGrow

LEMMA DeleteFriendType ==
  ASSUME DatabaseTypeOK, NEW u \in UserId, NEW f \in UserId, NEW ok \in BOOLEAN,
         deleteFriend(u, f, ok)
  PROVE  DatabaseTypeOK' /\ TablesGrow /\ friends' \subseteq friends
BY ExecuteType
DEF DatabaseTypeOK, deleteFriend, TablesGrow, RequestsGrow, MessagesGrow

LEMMA SetBlockedType ==
  ASSUME DatabaseTypeOK, NEW u \in UserId, NEW f \in UserId, NEW flag \in BOOLEAN,
         NEW ok \in BOOLEAN, setBlocked(u, f, flag, ok)
  PROVE  /\ DatabaseTypeOK' /\ TablesGrow
         /\ \A r \in friends' : \E q \in friends :
              q.userId = r.userId /\ q.friendId = r.friendId
BY ExecuteType
DEF DatabaseTypeOK, setBlocked, Friend, TablesGrow, RequestsGrow, MessagesGrow

LEMMA StoreType ==
  ASSUME DatabaseTypeOK, NEW s \in UserId, NEW r \in UserId, NEW c \in Nat,
         NEW ok \in BOOLEAN, storeMessage(s, r, c, ok)
  PROVE  /\ DatabaseTypeOK' /\ TablesGrow
         /\ \A m \in DOMAIN messages' :
              \/ m \in DOMAIN messages /\ messages'[m] = messages[m]
              \/ /\ messages'[m].sender = s /\ messages'[m].receiver = r
                 /\ ~messages'[m].delivered
<1> DEFINE row == [sender |-> s, receiver |-> r, content |-> c, delivered |-> FALSE]
<1>1. /\ row \in Message /\ row.sender = s /\ row.receiver = r /\ ~row.delivered
      /\ messages \in Seq(Message)
  BY DEF DatabaseTypeOK, Message
<1>2. messages' = IF ok THEN Append(messages, row) ELSE messages
  BY DEF storeMessage
<1> HIDE DEF row
<1>3. /\ messages' \in Seq(Message) /\ DOMAIN messages \subseteq DOMAIN messages'
      /\ \A m \in DOMAIN messages' : m \in DOMAIN messages \/ messages'[m] = row
      /\ \A m \in DOMAIN messages : messages'[m] = messages[m]
  BY <1>1, <1>2
<1> QED  BY <1>1, <1>3, ExecuteType
         DEF DatabaseTypeOK, storeMessage, TablesGrow, RequestsGrow, MessagesGrow

LEMMA MarkType ==
  ASSUME DatabaseTypeOK, NEW m \in DOMAIN messages, NEW ok \in BOOLEAN,
         markDelivered(m, ok)
  PROVE  /\ DatabaseTypeOK' /\ TablesGrow
         /\ DOMAIN messages' = DOMAIN messages
         /\ \A k \in DOMAIN messages : k # m => messages'[k] = messages[k]
<1>1. CASE ok
  <2>1. messages[m] \in Message /\ messages \in Seq(Message)  BY DEF DatabaseTypeOK
  <2> DEFINE row == [messages[m] EXCEPT !.delivered = TRUE]
  <2>2. /\ row \in Message /\ row.sender = messages[m].sender
        /\ row.receiver = messages[m].receiver /\ row.content = messages[m].content
        /\ row.delivered
    BY <2>1 DEF Message
  <2>3. messages' = [messages EXCEPT ![m] = row]  BY <1>1 DEF markDelivered
  <2> HIDE DEF row
  <2>4. messages' \in Seq(Message) /\ DOMAIN messages' = DOMAIN messages
    BY <2>1, <2>2, <2>3
  <2>5. \A k \in DOMAIN messages : messages'[k] = IF k = m THEN row ELSE messages[k]
    BY <2>1, <2>3
  <2> QED  BY <2>2, <2>4, <2>5, ExecuteType
           DEF DatabaseTypeOK, markDelivered, TablesGrow, RequestsGrow, MessagesGrow
<1>2. CASE ~ok
  BY <1>2, ExecuteType
  DEF DatabaseTypeOK, markDelivered, TablesGrow, RequestsGrow, MessagesGrow
<1> QED  BY <1>1, <1>2
=============================================================================
