---------------------------- MODULE MCChatServer ----------------------------
(***************************************************************************)
(* Instances of ChatServer for TLC: tables as they are in a file that has  *)
(* been used for a while, and the datagrams of one or two clients about    *)
(* the users alice (1) and bob (2).                                        *)
(***************************************************************************)
EXTENDS ChatServer, TLC

CONSTANTS w1, w2, a1, a2, alice, bob, pw, team, guild

WorkerSymmetry == Permutations(Worker)

AliceAndBob ==
  {[id |-> 1, name |-> alice, pwd |-> pw], [id |-> 2, name |-> bob, pwd |-> pw]}

Row(u, f, blocked) == [userId |-> u, friendId |-> f, isBlocked |-> blocked]
Befriended == {Row(1, 2, FALSE), Row(2, 1, FALSE)}
BobBlockedAlice == {Row(1, 2, FALSE), Row(2, 1, TRUE)}
Accepted == <<[userId |-> 1, friendId |-> 2, status |-> 1]>>
Pending == <<[userId |-> 1, friendId |-> 2, status |-> 0]>>
AskedAgain == Accepted \o Pending
NoRows == {}
NoRequests == <<>>

(* team has one member, bob; guild does not exist.                         *)
OneGroup == {[groupId |-> 1, groupName |-> team]}
OneMember == {<<1, 2>>}

-----------------------------------------------------------------------------
LoginAs(name, a) == [type |-> "LOGIN_REQ", addr |-> a, name |-> name, pwd |-> pw]
Of(type, u, a) == [type |-> type, addr |-> a, userId |-> u]
Between(type, u, f, a) == [type |-> type, addr |-> a, userId |-> u, friendId |-> f]
Act(id, accept, a) ==
  [type |-> "FRIEND_REQUEST_ACTION_REQ", addr |-> a, requestId |-> id, accept |-> accept]

(* Alice and bob write to each other and log in, bob from two places, one  *)
(* of them alice's, and bob logs out.                                      *)
Messaging ==
  {Between("PRIVATE_MSG_REQ", 1, 2, a1), Between("PRIVATE_MSG_REQ", 2, 1, a2),
   LoginAs(alice, a1), LoginAs(bob, a1), LoginAs(bob, a2),
   Of("LOGOUT_REQ", 2, a2)}

(* Requests, answers to request 1, deletion of the friend, messages.       *)
Social ==
  {Between("FRIEND_REQUEST_REQ", 1, 2, a1), Between("FRIEND_REQUEST_REQ", 2, 1, a2),
   Act(1, TRUE, a2), Act(1, FALSE, a2), Act(2, TRUE, a1),
   Between("DELETE_FRIEND_REQ", 1, 2, a1), Between("PRIVATE_MSG_REQ", 1, 2, a1)}

(* The other requests, by alice from a1: her account, blocking, lists, the *)
(* request that is pending, one to herself, groups that exist or do not,   *)
(* a type without a handler.                                               *)
Everything ==
  {[type |-> "REGISTER_REQ", addr |-> a1, name |-> guild, pwd |-> pw],
   [type |-> "UPDATE_USER_REQ", addr |-> a1, userId |-> 1, name |-> pw, pwd |-> pw],
   LoginAs(alice, a1), Of("LOGOUT_REQ", 1, a1), Of("DELETE_USER_REQ", 1, a1),
   Of("FRIEND_REQUEST_LIST_REQ", 2, a1),
   Between("FRIEND_REQUEST_REQ", 1, 2, a1), Between("FRIEND_REQUEST_REQ", 1, 1, a1),
   Act(2, TRUE, a1), Between("BLOCK_USER_REQ", 1, 2, a1),
   Between("CHAT_HISTORY_REQ", 1, 2, a1), Between("PRIVATE_MSG_REQ", 1, 2, a1),
   [type |-> "CREATE_GROUP_REQ", addr |-> a1, groupName |-> team],
   [type |-> "CREATE_GROUP_REQ", addr |-> a1, groupName |-> guild],
   [type |-> "JOIN_GROUP_REQ", addr |-> a1, userId |-> 1, groupName |-> team],
   [type |-> "JOIN_GROUP_REQ", addr |-> a1, userId |-> 2, groupName |-> team],
   [type |-> "GROUP_MSG", addr |-> a1]}

(* One request per scenario of the runs that expect a violation.           *)
NewGroup == {[type |-> "CREATE_GROUP_REQ", addr |-> a1, groupName |-> guild]}
TwoAskers ==
  {Between("FRIEND_REQUEST_REQ", 1, 2, a1), Between("FRIEND_REQUEST_REQ", 2, 1, a2)}
AliceWrites == {Between("PRIVATE_MSG_REQ", 1, 2, a1)}
BobLeaves == {LoginAs(bob, a2), Of("DELETE_USER_REQ", 2, a2)}
BobIsReplaced ==
  {Of("DELETE_USER_REQ", 2, a2), [type |-> "REGISTER_REQ", addr |-> a1, name |-> guild, pwd |-> pw]}
=============================================================================
