----------------------------- MODULE TestClient ------------------------------
(***************************************************************************)
(* The console client.  A process is at its menu, in the recvfrom that     *)
(* follows a request, or in the SIGINT handler; it remembers who it is     *)
(* logged in as, and takes the first datagram it reads for the answer to   *)
(* what it asked last.  A signal may come at any point of the main thread, *)
(* also between the two writes of currentUserId.                           *)
(***************************************************************************)
EXTENDS WireFormat, Sequences

CONSTANTS
  Process,     \* client processes, by the address of their socket
  Typed,       \* what the user of a process may type: menu entries, their fields
  NoName,      \* the empty name
  NoPacket     \* an entry that needs a login, without one: an empty datagram

VARIABLES
  place,          \* "menu", "reply", "unasked", "convert", "quit", "sigint" or "gone"
  currentUserId,
  buffer,         \* datagrams that wait in the socket
  asked,          \* packets that the process has sent, in order (history)
  wire            \* packets on their way to the server, as <<process, position>>

clientVars == <<place, currentUserId, buffer, asked, wire>>

ClientInit ==
  /\ place = [c \in Process |-> "menu"]
  /\ currentUserId = [c \in Process |-> -1]
  /\ buffer = [c \in Process |-> <<>>]
  /\ asked = [c \in Process |-> <<>>]
  /\ wire = {}

-----------------------------------------------------------------------------
(* The menu entries that carry the user's id and nothing else, or a friend *)
(* besides.                                                                *)
OwnEntry == [op \in {4, 6, 10, 11} |->
  CASE op = 4 -> "DELETE_USER_REQ" [] op = 6 -> "FRIEND_REQUEST_LIST_REQ"
    [] op = 10 -> "FRIEND_LIST_REQ" [] op = 11 -> "LOGOUT_REQ"]

FriendEntry == [op \in {5, 8, 12, 13, 15} |->
  CASE op = 5 -> "FRIEND_REQUEST_REQ" [] op = 8 -> "DELETE_FRIEND_REQ"
    [] op = 12 -> "BLOCK_USER_REQ" [] op = 13 -> "UNBLOCK_USER_REQ"
    [] op = 15 -> "PRIVATE_MSG_REQ"]

Account(type, c, t) == [type |-> type, addr |-> c, name |-> t.name, pwd |-> t.pwd]
Own(type, c, u) == [type |-> type, addr |-> c, userId |-> u]

(* The packet for what was typed when currentUserId is u.  The body of     *)
(* CREATE_GROUP_REQ begins with a zero byte: the name in it is empty.      *)
Built(c, u, t) ==
  CASE t.op = 1 -> Account("REGISTER_REQ", c, t)
    [] t.op = 2 -> Account("LOGIN_REQ", c, t)
    [] t.op = 3 -> [type |-> "UPDATE_USER_REQ", addr |-> c, userId |-> u,
                    name |-> t.name, pwd |-> t.pwd]
    [] t.op \in DOMAIN OwnEntry -> Own(OwnEntry[t.op], c, u)
    [] t.op \in DOMAIN FriendEntry ->
         [type |-> FriendEntry[t.op], addr |-> c, userId |-> u, friendId |-> t.friendId]
    [] t.op = 7 -> [type |-> "FRIEND_REQUEST_ACTION_REQ", addr |-> c,
                    requestId |-> t.requestId, accept |-> t.accept]
    [] t.op = 14 -> [type |-> "CREATE_GROUP_REQ", addr |-> c, groupName |-> NoName]

(* Mutant: the entries do not look at currentUserId.                       *)
PacketUnchecked(c, u, t) == Built(c, u, t)

(* All entries but register and log in need a login.                       *)
Packet(c, u, t) == IF t.op > 2 /\ u < 0 THEN NoPacket ELSE Built(c, u, t)

(* sendto.                                                                 *)
Transmit(c, p) ==
  /\ asked' = [asked EXCEPT ![c] = Append(@, p)]
  /\ wire' = wire \cup {<<c, Len(asked[c]) + 1>>}

Goes(c, to) == place' = [place EXCEPT ![c] = to]

(* The process ends, and with it its memory and its socket.                *)
Ends(c) ==
  /\ Goes(c, "gone")
  /\ currentUserId' = [currentUserId EXCEPT ![c] = -1]
  /\ buffer' = [buffer EXCEPT ![c] = <<>>]

(* A menu entry is typed, its packet is sent, and the client waits for a   *)
(* datagram.  An entry without a packet sends an empty datagram, which the *)
(* server drops, and waits just the same.                                  *)
Choose(c, t) ==
  /\ place[c] = "menu"
  /\ LET p == Packet(c, currentUserId[c], t) IN
       \/ p = NoPacket /\ Goes(c, "unasked") /\ UNCHANGED <<asked, wire>>
       \/ p # NoPacket /\ Goes(c, "reply") /\ Transmit(c, p)
  /\ UNCHANGED <<currentUserId, buffer>>

Reading(c) == place[c] \in {"reply", "unasked"}

Answer(c) == Head(buffer[c])

Read(c) == buffer[c] # <<>> /\ buffer' = [buffer EXCEPT ![c] = Tail(@)]

(* Mutant: the status of LOGIN_RESP is not looked at.                      *)
ReplyTrusting(c) ==
  /\ Reading(c) /\ Read(c)
  /\ \/ /\ Answer(c).type = "LOGIN_RESP"
        /\ \E id \in Answer(c).body :
             currentUserId' = [currentUserId EXCEPT ![c] = ntohl(id[1])]
        /\ Goes(c, "convert")
     \/ /\ Answer(c).type # "LOGIN_RESP"
        /\ Goes(c, "menu") /\ UNCHANGED currentUserId
  /\ UNCHANGED <<asked, wire>>

(* Mutant: after a failure the client waits for another answer.            *)
ReplyUntilSuccess(c) ==
  /\ Reading(c) /\ Read(c)
  /\ Goes(c, IF Answer(c).ok THEN "menu" ELSE "reply")
  /\ UNCHANGED <<currentUserId, asked, wire>>

(* sendRequest after its recvfrom: by the type of what it read, not of     *)
(* what it asked.  A login is written as it came, in network order.        *)
Reply(c) ==
  /\ Reading(c) /\ Read(c)
  /\ \/ /\ Answer(c).type = "LOGIN_RESP" /\ Answer(c).ok
        /\ \E id \in Answer(c).body :
             currentUserId' = [currentUserId EXCEPT ![c] = ntohl(id[1])]
        /\ Goes(c, "convert")
     \/ /\ Answer(c).type \in {"LOGOUT_RESP", "DELETE_USER_RESP"} /\ Answer(c).ok
        /\ currentUserId' = [currentUserId EXCEPT ![c] = -1]
        /\ Goes(c, "menu")
     \/ /\ ~(/\ Answer(c).type \in {"LOGIN_RESP", "LOGOUT_RESP", "DELETE_USER_RESP"}
             /\ Answer(c).ok)
        /\ Goes(c, "menu") /\ UNCHANGED currentUserId
  /\ UNCHANGED <<asked, wire>>

(* The second write of a login: ntohl.                                     *)
Convert(c) ==
  /\ place[c] = "convert"
  /\ currentUserId' = [currentUserId EXCEPT ![c] = ntohl(@)]
  /\ Goes(c, "menu")
  /\ UNCHANGED <<buffer, asked, wire>>

(* handleSigint: log out and wait for a datagram, whatever it is, or end,  *)
(* as for an id whose network order is negative, between the two writes.   *)
(* What sendRequest has read and not looked at yet is dropped.             *)
Interrupt(c) ==
  /\ Reading(c) \/ place[c] \in {"menu", "convert", "quit"}
  /\ \/ /\ currentUserId[c] >= 0
        /\ Transmit(c, Own("LOGOUT_REQ", c, currentUserId[c]))
        /\ Goes(c, "sigint")
        /\ UNCHANGED currentUserId
        /\ \/ UNCHANGED buffer
           \/ Reading(c) /\ Read(c)
     \/ /\ currentUserId[c] < 0
        /\ Ends(c)
        /\ UNCHANGED <<asked, wire>>

Farewell(c) ==
  /\ place[c] = "sigint" /\ buffer[c] # <<>>
  /\ Ends(c)
  /\ UNCHANGED <<asked, wire>>

(* Mutant: currentUserId is reset before the packet is built.              *)
QuitReset(c) ==
  /\ place[c] = "menu"
  /\ \/ currentUserId[c] >= 0 /\ Transmit(c, Own("LOGOUT_REQ", c, -1)) /\ Ends(c)
     \/ currentUserId[c] < 0 /\ Ends(c) /\ UNCHANGED <<asked, wire>>

(* Entry 0: log out without waiting for the answer, or end.                *)
Quit(c) ==
  /\ place[c] = "menu"
  /\ \/ /\ currentUserId[c] >= 0
        /\ Transmit(c, Own("LOGOUT_REQ", c, currentUserId[c]))
        /\ Goes(c, "quit")
        /\ UNCHANGED <<currentUserId, buffer>>
     \/ currentUserId[c] < 0 /\ Ends(c) /\ UNCHANGED <<asked, wire>>

(* Entry 0 after its sendto: currentUserId is reset, the socket is closed. *)
Close(c) ==
  /\ place[c] = "quit"
  /\ Ends(c)
  /\ UNCHANGED <<asked, wire>>

(* The input ends or is no number: the loop is left, nothing is sent.      *)
EndOfInput(c) ==
  /\ place[c] = "menu"
  /\ Ends(c)
  /\ UNCHANGED <<asked, wire>>

(* What the program does by itself, and what the user makes it do.         *)
Proceed(c) == Reply(c) \/ Convert(c) \/ Farewell(c) \/ Close(c)

Use(c) == (\E t \in Typed[c] : Choose(c, t)) \/ Interrupt(c) \/ Quit(c) \/ EndOfInput(c)

=============================================================================
