------------------------------- MODULE LinuxQQ -------------------------------
(***************************************************************************)
(* The whole system: console clients, the server, and the network between  *)
(* them, which reorders as it likes and loses or duplicates a bounded      *)
(* number of datagrams.  A step is one of a client, of the network or of   *)
(* the server.                                                             *)
(***************************************************************************)
EXTENDS ChatServer, WireFormat

CONSTANTS Typed, NoName, NoPacket,  \* see TestClient
  MaxNetFaults,  \* bound on datagrams lost and duplicated
  MaxEvents      \* bound on packets, datagrams lost and duplicated, and kills together

VARIABLES
  place, currentUserId, buffer, asked, wire,  \* see TestClient
  arrived,   \* datagrams of the server that are no longer on their way
  netFaults  \* datagrams lost and duplicated so far

Client == INSTANCE TestClient WITH Process <- Addr

clientVars == <<place, currentUserId, buffer, asked, wire>>
netVars == <<arrived, netFaults>>
systemVars == <<vars, clientVars, netVars>>

(* An id fits an int.  The server knows how to read every packet that      *)
(* clients build, also a logout with the id in network order, where that   *)
(* is not negative (see Interrupt).                                        *)
ASSUME SystemAssumption ==
  /\ MaxNetFaults \in Nat /\ MaxEvents \in Nat
  /\ MaxEvents <= MaxRequests
  /\ NoPacket \notin Request
  /\ \A u \in UserId : u <= 2147483647
  /\ \A c \in Addr : \A t \in Typed[c] :
       IF t.op \in {1, 2} THEN Client!Built(c, -1, t) \in Requests
                         ELSE t.op > 2 /\ \A u \in UserId : Client!Built(c, u, t) \in Requests
  /\ \A c \in Addr, u \in UserId : \A id \in {u, ntohl(u)} :
       id >= 0 => Client!Own("LOGOUT_REQ", c, id) \in Requests

SystemInit ==
  /\ Init
  /\ Client!ClientInit
  /\ arrived = {} /\ netFaults = 0

(* The packets that clients have sent, as <<client, position>>.            *)
Packets == UNION {{c} \X DOMAIN asked[c] : c \in Addr}

PacketAt(i) == asked[i[1]][i[2]]

WithinBounds == Cardinality(Packets) + netFaults + crashes <= MaxEvents

-----------------------------------------------------------------------------
(* The network.  Requests on the wire reach the receive loop in any order. *)
ToServer(i) ==
  /\ i \in wire
  /\ Receive(PacketAt(i))
  /\ wire' = wire \ {i}
  /\ UNCHANGED <<place, currentUserId, buffer, asked, netVars>>

Fault == netFaults < MaxNetFaults /\ netFaults' = netFaults + 1

LoseRequest(i) ==
  /\ i \in wire /\ Fault
  /\ wire' = wire \ {i}
  /\ UNCHANGED <<vars, place, currentUserId, buffer, asked, arrived>>

DuplicateRequest(i) ==
  /\ i \in wire /\ Fault
  /\ Receive(PacketAt(i))
  /\ UNCHANGED <<clientVars, arrived>>

(* A datagram for a socket that is closed is dropped.                      *)
Deliverable(d) ==
  /\ d \in sent \ arrived
  /\ buffer' = IF place[d.to] = "gone" THEN buffer
                                       ELSE [buffer EXCEPT ![d.to] = Append(@, d)]
  /\ UNCHANGED <<vars, place, currentUserId, asked, wire>>

ToClient(d) ==
  /\ Deliverable(d)
  /\ arrived' = arrived \cup {d}
  /\ UNCHANGED netFaults

DuplicateAnswer(d) ==
  /\ Deliverable(d) /\ Fault
  /\ UNCHANGED arrived

LoseAnswer(d) ==
  /\ d \in sent \ arrived /\ Fault
  /\ arrived' = arrived \cup {d}
  /\ UNCHANGED <<vars, clientVars>>

Faulty ==
  \/ \E i \in wire : LoseRequest(i) \/ DuplicateRequest(i)
  \/ \E d \in sent : DuplicateAnswer(d) \/ LoseAnswer(d)

-----------------------------------------------------------------------------
Works(w) == Run(w) /\ UNCHANGED <<clientVars, netVars>>
Killed == Crash /\ UNCHANGED <<clientVars, netVars>> /\ WithinBounds'
Proceeds(c) == Client!Proceed(c) /\ UNCHANGED <<vars, netVars>>
Uses(c) == Client!Use(c) /\ UNCHANGED <<vars, netVars>> /\ WithinBounds'

SystemNext ==
  \/ \E c \in Addr : Uses(c) \/ Proceeds(c)
  \/ \E i \in wire : ToServer(i)
  \/ \E d \in sent : ToClient(d)
  \/ Faulty /\ WithinBounds'
  \/ \E w \in Worker : Works(w)
  \/ Killed

SystemSpec == SystemInit /\ [][SystemNext]_systemVars

(* The system does not stop as long as a thread can run, a client can read *)
(* what has come or a datagram is on its way.  Users and faults may stop.  *)
Progress ==
  \/ \E w \in Worker : Works(w)
  \/ \E c \in Addr : Proceeds(c)
  \/ \E i \in wire : ToServer(i)
  \/ \E d \in sent : ToClient(d)

FairSystemSpec == SystemSpec /\ WF_systemVars(Progress)

-----------------------------------------------------------------------------
(* What currentUserId may be at a place of a client whose user is u: the   *)
(* id in network order in the middle of a login, and in a handler that     *)
(* interrupted it.                                                         *)
IdsOf(u, p) ==
  CASE p = "convert" -> {ntohl(u)}
    [] p = "sigint" -> {u, ntohl(u)}
    [] OTHER -> {u}

(* Every variable of the clients and of the network has its type: what a   *)
(* client sends is a request the handlers can read, it takes its user for  *)
(* one of Users or for none, as its place allows it, and what waits in its *)
(* socket was sent to it (sendRequest, buildPacket).                       *)
SystemTypeOK ==
  /\ place \in [Addr -> {"menu", "reply", "unasked", "convert", "quit", "sigint", "gone"}]
  /\ currentUserId \in [Addr -> Int]
  /\ \A c \in Addr :
       \/ currentUserId[c] = -1 /\ place[c] \in {"menu", "reply", "unasked", "gone"}
       \/ place[c] # "gone" /\ \E u \in UserId : currentUserId[c] \in IdsOf(u, place[c])
  /\ asked \in [Addr -> Seq(Requests)]
  /\ wire \subseteq Packets
  /\ arrived \subseteq sent
  /\ netFaults \in 0..MaxNetFaults
  /\ \A c \in Addr : buffer[c] \in Seq({d \in sent : d.to = c})

(* To the server the clients and the network are datagrams that come in    *)
(* any order: what holds of ChatServer for any datagrams holds of it in    *)
(* this system (receiveLoop).                                              *)
ServerBehaves == Spec

GrantedTo(c, u) ==
  \E d \in sent : d.type = "LOGIN_RESP" /\ d.ok /\ d.to = c /\ <<u>> \in d.body

(* Who the client takes the user for is who the server let in at this      *)
(* address, whatever datagram the client took for its answer, and also     *)
(* between the two writes of a login and in a handler that interrupted it  *)
(* there, which have that user's id in network order (sendRequest,         *)
(* TestClient.cpp:51-61, handleSigint).                                    *)
GrantedOnly ==
  \A c \in Addr :
    currentUserId[c] # -1
    => \E u \in UserId : GrantedTo(c, u) /\ currentUserId[c] \in IdsOf(u, place[c])

(* Some client asked to end the session of u.                              *)
EndAsked(u) ==
  \E i \in Packets :
    PacketAt(i).type \in {"LOGOUT_REQ", "DELETE_USER_REQ"} /\ PacketAt(i).userId = u

(* A session the client believes in is one the server still has, at this   *)
(* address, unless the server was killed or an end of it was asked for:    *)
(* lost, late and repeated datagrams, logins of others and overlapping     *)
(* handlers cannot take it away (onlineClients, currentUserId).            *)
SessionHeld ==
  crashes = 0 =>
    \A c \in Addr, u \in UserId :
      place[c] # "convert" /\ currentUserId[c] = u
      => onlineClients[u] = c \/ EndAsked(u)

(* A list that fits the client's buffer is shown entry for entry, and one  *)
(* that does not fit is refused and never shown in part (TestClient.cpp,   *)
(* 77-131, ChatServer.cpp, 246-284).                                       *)
ListsWhole ==
  \A d \in sent :
    d.type \in {"FRIEND_LIST_RESP", "FRIEND_REQUEST_LIST_RESP"} =>
      ShownWhole(d.type, Cardinality(d.body))

Disturbed == netFaults > 0 \/ crashes > 0 \/ mtx # NoWorker

(* A client that sent a request, or that logs out on SIGINT, gets a        *)
(* datagram to read in the end, unless one was lost, the server was killed *)
(* or a group handler holds mtx for good (the recvfroms without a timeout, *)
(* TestClient.cpp:36 and 184): again and again there is a moment at which  *)
(* no client waits.                                                        *)
Waits(c) == place[c] \in {"reply", "sigint"}

EveryWaitEnds == []<>(Disturbed \/ \A c \in Addr : ~Waits(c))

LoggedInTwice(c) ==
  \E i, j \in DOMAIN asked[c] :
    i # j /\ asked[c][i].type = "LOGIN_REQ" /\ asked[c][j].type = "LOGIN_REQ"

LoggedOut(c, u) ==
  \E i \in DOMAIN asked[c] : asked[c][i] = Client!Own("LOGOUT_REQ", c, u)

(* A user whose client logged out and ended goes offline for good, although*)
(* nobody may have waited for the answer of the logout (menu entry 0,      *)
(* TestClient.cpp:235, and handleSigint).                                  *)
LeavesForGood ==
  <>[](\A c \in Addr, u \in UserId :
         place[c] = "gone" /\ LoggedOut(c, u)
         => onlineClients[u] # c \/ Disturbed \/ LoggedInTwice(c))

-----------------------------------------------------------------------------
(* What a message of the client says and the system does not do.           *)

(* The client reports that its message was sent (TestClient.cpp:159) only  *)
(* when the server accepted a message of this client.                      *)
MessageShownSent ==
  [][\A c \in Addr :
       /\ Client!Reading(c) /\ place'[c] = "menu"
       /\ Head(buffer[c]).type = "PRIVATE_MSG_RESP" /\ Head(buffer[c]).ok
       => \E d \in sent : d.type = "PRIVATE_MSG_RESP" /\ d.ok /\ d.to = c /\ d.body = {}]_systemVars
=============================================================================
