--------------------------- MODULE DatabaseManager ---------------------------
(***************************************************************************)
(* The SQLite tables behind the server and the methods of DatabaseManager  *)
(* that read and write them.  A table is a set of rows; FriendRequests and *)
(* Messages are sequences, because no statement of the code deletes their  *)
(* rows, so that SQLite's choice of rowid (the largest one plus one) is    *)
(* the next position.  A method is one step: it runs under mtx, which no   *)
(* thread can see half-way through.  The callers carry the guard on mtx.   *)
(***************************************************************************)
EXTENDS Integers, Sequences, FiniteSets

CONSTANTS
  UserId,        \* ids a row of Users may get: 1..n, which bounds registrations
  Name,          \* user names
  Password,      \* passwords: sha256 is only ever compared for equality
  GroupName,     \* group names
  Groups,        \* rows of Groups found in the file, never written (see README)
  GroupMembers,  \* rows <<group_id, user_id>> of GroupMembers, never written
  InitUsers, InitFriends, InitRequests,  \* what the file holds at start
  MaxFaults      \* bound on statements that SQLite fails (busy, full, I/O)

VARIABLES
  users,           \* Users
  friends,         \* Friends
  friendRequests,  \* FriendRequests, by request_id
  messages,        \* Messages, by msg_id
  faults           \* statements failed so far

User == [id : UserId, name : Name, pwd : Password]
Friend == [userId : UserId, friendId : UserId, isBlocked : BOOLEAN]
FriendRequest == [userId : UserId, friendId : UserId, status : 0..2]
(* The text of a message is the number of the request that carried it.     *)
Message == [sender : UserId, receiver : UserId, content : Nat, delivered : BOOLEAN]
Group == [groupId : Nat, groupName : GroupName]

(* A request between u and f, in either direction, that was answered.      *)
AnsweredBetween(r, u, f) == {r.userId, r.friendId} = {u, f} /\ r.status # 0

ASSUME DatabaseAssumption ==
  /\ UserId \subseteq Nat \ {0}
  /\ MaxFaults \in Nat
  /\ Groups \subseteq Group
  /\ GroupMembers \subseteq Nat \X UserId
  /\ InitUsers \subseteq User
  /\ InitFriends \subseteq Friend
  /\ InitRequests \in Seq(FriendRequest)
  /\ \A row \in InitFriends : \E i \in DOMAIN InitRequests :
        AnsweredBetween(InitRequests[i], row.userId, row.friendId)

(* A file has finitely many rows.                                          *)
ASSUME FileAssumption == IsFiniteSet(InitFriends)

tables == <<users, friends, friendRequests, messages>>

DatabaseTypeOK ==
  /\ users \subseteq User
  /\ friends \subseteq Friend
  /\ friendRequests \in Seq(FriendRequest)
  /\ messages \in Seq(Message)
  /\ faults \in 0..MaxFaults

InitTables ==
  /\ users = InitUsers
  /\ friends = InitFriends
  /\ friendRequests = InitRequests
  /\ messages = <<>>
  /\ faults = 0

-----------------------------------------------------------------------------
(* executePrepared: the statement is committed, or SQLite fails it.        *)
executePrepared(ok) ==
  \/ ok /\ UNCHANGED faults
  \/ ~ok /\ faults < MaxFaults /\ faults' = faults + 1

(* A SELECT takes an error for the end of its rows: the rows got are fewer *)
(* than the rows there are, or what is there is not found.  An error after *)
(* the last row changes nothing and is not counted.                        *)
selectRows(rows, got) ==
  /\ UNCHANGED tables
  /\ \/ got = rows /\ UNCHANGED faults
     \/ /\ got \subseteq rows /\ got # rows
        /\ faults < MaxFaults /\ faults' = faults + 1

selectFound(exists, found) ==
  /\ UNCHANGED tables
  /\ \/ found = exists /\ UNCHANGED faults
     \/ exists /\ ~found /\ faults < MaxFaults /\ faults' = faults + 1

(* Users.  user_id is INTEGER PRIMARY KEY without AUTOINCREMENT: the next  *)
(* id is one more than the largest id in the table now.                    *)
NextRowId(id) ==
  /\ \A u \in users : u.id < id
  /\ id = 1 \/ \E u \in users : u.id = id - 1

registerUser(n, p, ok) ==
  /\ IF \E u \in users : u.name = n THEN ~ok /\ UNCHANGED faults
                                    ELSE executePrepared(ok)
  /\ \/ ok /\ \E id \in UserId :
                /\ NextRowId(id)
                /\ users' = users \cup {[id |-> id, name |-> n, pwd |-> p]}
     \/ ~ok /\ UNCHANGED users
  /\ UNCHANGED <<friends, friendRequests, messages>>

verifyUser(n, p) == {u.id : u \in {v \in users : v.name = n /\ v.pwd = p}}

(* UNIQUE(username) refuses a name another row has; no row is a success.   *)
updateUser(id, n, p, ok) ==
  /\ IF /\ \E u \in users : u.id = id
        /\ \E u \in users : u.id # id /\ u.name = n
     THEN ~ok /\ UNCHANGED faults
     ELSE executePrepared(ok)
  /\ users' = IF ok THEN {IF u.id = id THEN [id |-> id, name |-> n, pwd |-> p]
                                       ELSE u : u \in users}
                    ELSE users
  /\ UNCHANGED <<friends, friendRequests, messages>>

deleteUser(id, ok) ==
  /\ executePrepared(ok)
  /\ users' = IF ok THEN {u \in users : u.id # id} ELSE users
  /\ UNCHANGED <<friends, friendRequests, messages>>

-----------------------------------------------------------------------------
(* FriendRequests and Friends.                                             *)
(* Mutant: only a request in the same direction counts.                    *)
isFriendRequestExistsOneWay(u, f) ==
  \E i \in DOMAIN friendRequests :
    /\ friendRequests[i].status = 0
    /\ friendRequests[i].userId = u /\ friendRequests[i].friendId = f

isFriendRequestExists(u, f) ==
  \E i \in DOMAIN friendRequests :
    /\ friendRequests[i].status = 0
    /\ \/ friendRequests[i].userId = u /\ friendRequests[i].friendId = f
       \/ friendRequests[i].userId = f /\ friendRequests[i].friendId = u

(* The INSERT that ends sendFriendRequest.                                 *)
insertFriendRequest(u, f, ok) ==
  /\ executePrepared(ok)
  /\ friendRequests' =
       IF ok THEN Append(friendRequests, [userId |-> u, friendId |-> f, status |-> 0])
             ELSE friendRequests
  /\ UNCHANGED <<users, friends, messages>>

getFriendRequests(u) ==
  {i \in DOMAIN friendRequests :
     friendRequests[i].friendId = u /\ friendRequests[i].status = 0}

(* The SELECT and the UPDATE of respondFriendRequest, in one lock: either  *)
(* may fail.  Any earlier status is overwritten.                           *)
updateRequestStatus(i, accept, ok) ==
  /\ executePrepared(ok)
  /\ friendRequests' =
       IF ok THEN [friendRequests EXCEPT ![i].status = IF accept THEN 1 ELSE 2]
             ELSE friendRequests
  /\ UNCHANGED <<users, friends, messages>>

(* INSERT OR IGNORE: a row with this key stays as it is.                   *)
addFriend(u, f, ok) ==
  /\ executePrepared(ok)
  /\ friends' =
       IF ok /\ ~\E r \in friends : r.userId = u /\ r.friendId = f
       THEN friends \cup {[userId |-> u, friendId |-> f, isBlocked |-> FALSE]}
       ELSE friends
  /\ UNCHANGED <<users, friendRequests, messages>>

deleteFriend(u, f, ok) ==
  /\ executePrepared(ok)
  /\ friends' = IF ok THEN {r \in friends : /\ ~(r.userId = u /\ r.friendId = f)
                                            /\ ~(r.userId = f /\ r.friendId = u)}
                      ELSE friends
  /\ UNCHANGED <<users, friendRequests, messages>>

(* blockFriend and unblockFriend: is_blocked of the one row (u, f).        *)
setBlocked(u, f, flag, ok) ==
  /\ executePrepared(ok)
  /\ friends' = IF ok THEN {IF r.userId = u /\ r.friendId = f
                            THEN [userId |-> u, friendId |-> f, isBlocked |-> flag]
                            ELSE r : r \in friends}
                      ELSE friends
  /\ UNCHANGED <<users, friendRequests, messages>>

getFriends(u) == {r \in friends : r.userId = u}

-----------------------------------------------------------------------------
(* Messages.                                                               *)
storeMessage(s, r, c, ok) ==
  /\ executePrepared(ok)
  /\ messages' =
       IF ok THEN Append(messages, [sender |-> s, receiver |-> r,
                                    content |-> c, delivered |-> FALSE])
             ELSE messages
  /\ UNCHANGED <<users, friends, friendRequests>>

(* Mutant: the receiver is not looked at.                                  *)
loadOfflineOfAll(r) == {m \in DOMAIN messages : ~messages[m].delivered}

loadOffline(r) ==
  {m \in DOMAIN messages : messages[m].receiver = r /\ ~messages[m].delivered}

markDelivered(m, ok) ==
  /\ executePrepared(ok)
  /\ messages' = IF ok THEN [messages EXCEPT ![m].delivered = TRUE] ELSE messages
  /\ UNCHANGED <<users, friends, friendRequests>>

getChatHistory(u, f) ==
  {m \in DOMAIN messages : \/ messages[m].sender = u /\ messages[m].receiver = f
                           \/ messages[m].sender = f /\ messages[m].receiver = u}

-----------------------------------------------------------------------------
(* Groups and GroupMembers, read only.                                     *)
groupExists(g) == \E row \in Groups : row.groupName = g

isUserInGroup(u, g) ==
  \E row \in Groups : row.groupName = g /\ <<row.groupId, u>> \in GroupMembers
=============================================================================
