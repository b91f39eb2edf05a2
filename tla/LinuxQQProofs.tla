---------------------------- MODULE LinuxQQProofs -----------------------------
(***************************************************************************)
(* The system of clients, network and server, for any number of clients,   *)
(* users, threads and requests: the server in it is ChatServer, and the    *)
(* sessions of the clients are the server's.                               *)
(***************************************************************************)
EXTENDS LinuxQQ, AcceptedProofs, FriendsProofs, WireFormatProofs

-----------------------------------------------------------------------------
(* Packets.  The client converts as the server does.                       *)
LEMMA SameBytes == \A x : Client!ntohl(x) = ntohl(x)
BY DEF Client!ntohl, Client!Signed, ntohl, Signed

(* An id fits an int, so that turning it twice gives it back.              *)
LEMMA ConvertedId ==
  ASSUME NEW u \in UserId  PROVE u \in Nat /\ u # -1 /\ ntohl(u) \in Int /\ ntohl(ntohl(u)) = u
<1>1. u \in Nat /\ u <= 2147483647  BY DatabaseAssumption, SystemAssumption
<1>2. u \in NonNegativeInt  BY <1>1 DEF NonNegativeInt
<1>3. ntohl(u) \in Int  BY <1>1 DEF ntohl, Signed
<1> QED  BY <1>1, <1>2, <1>3, ConvertsBack

LEMMA BuiltAnyway ==
  ASSUME NEW c, NEW u, NEW v, NEW t, t.op \in {1, 2}
  PROVE  Client!Built(c, u, t) = Client!Built(c, v, t)
BY DEF Client!Built, Client!Account

(* What a client sends is a request that the server can read.              *)
LEMMA PacketType ==
  ASSUME NEW c \in Addr, NEW u \in UserId \cup {-1}, NEW t \in Typed[c],
         Client!Packet(c, u, t) # NoPacket
  PROVE  Client!Packet(c, u, t) \in Requests
<1>1. CASE t.op \in {1, 2}
  <2>1. Client!Built(c, -1, t) \in Requests  BY <1>1, SystemAssumption
  <2>2. Client!Built(c, u, t) = Client!Built(c, -1, t)  BY <1>1, BuiltAnyway
  <2>3. Client!Packet(c, u, t) = Client!Built(c, u, t)  BY <1>1 DEF Client!Packet
  <2> QED  BY <2>1, <2>2, <2>3
<1>2. CASE ~(t.op \in {1, 2})
  <2>1. t.op > 2 /\ \A v \in UserId : Client!Built(c, v, t) \in Requests
    BY <1>2, SystemAssumption
  <2>2. Client!Packet(c, u, t) = Client!Built(c, u, t) /\ ~(u < 0)
    BY <2>1 DEF Client!Packet
  <2>3. u \in UserId  BY <2>2
  <2> QED  BY <2>1, <2>2, <2>3
<1> QED  BY <1>1, <1>2

-----------------------------------------------------------------------------
(* A step of the system is one of the server or leaves the server alone.   *)
LEMMA StepServer ==
  ASSUME asked \in [Addr -> Seq(Requests)], wire \subseteq Packets, [SystemNext]_systemVars
  PROVE  [Next]_vars
<1>1. ASSUME NEW c \in Addr, Uses(c) \/ Proceeds(c)  PROVE UNCHANGED vars
  BY <1>1 DEF Uses, Proceeds
<1>2. ASSUME NEW i \in wire, ToServer(i) \/ DuplicateRequest(i)  PROVE Next
  <2>1. PacketAt(i) \in Requests /\ Receive(PacketAt(i))
    BY <1>2 DEF ToServer, DuplicateRequest, Packets, PacketAt
  <2> QED  BY <2>1 DEF Next
<1>3. ASSUME NEW i \in wire, LoseRequest(i)  PROVE UNCHANGED vars
  BY <1>3 DEF LoseRequest
<1>4. ASSUME NEW d \in sent, ToClient(d) \/ DuplicateAnswer(d) \/ LoseAnswer(d)
      PROVE  UNCHANGED vars
  BY <1>4 DEF ToClient, DuplicateAnswer, LoseAnswer, Deliverable
<1>5. ASSUME NEW w \in Worker, Works(w)  PROVE Next
  BY <1>5 DEF Works, Next
<1>6. CASE Killed  BY <1>6 DEF Killed, Next
<1>7. CASE UNCHANGED systemVars  BY <1>7 DEF systemVars
<1> QED  BY <1>1, <1>2, <1>3, <1>4, <1>5, <1>6, <1>7 DEF SystemNext, Faulty

-----------------------------------------------------------------------------
(* The inductive invariant of the types.  SystemTypeOK needs more: what a  *)
(* login answers, and whom the server let in.                              *)
PlaceType == {"menu", "reply", "unasked", "convert", "quit", "sigint", "gone"}

ClientTypes ==
  /\ place \in [Addr -> PlaceType]
  /\ currentUserId \in [Addr -> Int]
  /\ asked \in [Addr -> Seq(Requests)]
  /\ wire \subseteq Packets
  /\ buffer \in [Addr -> Seq(sent)]
  /\ \A c \in Addr : \A i \in DOMAIN buffer[c] : buffer[c][i].to = c

NetTypes == arrived \subseteq sent /\ netFaults \in 0..MaxNetFaults

LoginsNamed ==
  \A d \in sent : d.type = "LOGIN_RESP" /\ d.ok => \E u \in UserId : d.body = {<<u>>}

(* A client has no user, or one the server let in at its address.          *)
IdentityOK(c) ==
  \/ currentUserId[c] = -1 /\ place[c] \in {"menu", "reply", "unasked", "gone"}
  \/ /\ place[c] # "gone"
     /\ \E u \in UserId : GrantedTo(c, u) /\ currentUserId[c] \in IdsOf(u, place[c])

TypeInv ==
  TypeOK /\ ClientTypes /\ NetTypes /\ LoginsNamed /\ \A c \in Addr : IdentityOK(c)

LEMMA TypeInvImplies == TypeInv => SystemTypeOK
<1> SUFFICES ASSUME TypeInv, NEW c \in Addr
             PROVE  buffer[c] \in Seq({d \in sent : d.to = c})
  BY DEF TypeInv, ClientTypes, NetTypes, SystemTypeOK, IdentityOK, PlaceType
<1> DEFINE own == {d \in sent : d.to = c}
<1>1. buffer[c] \in Seq(sent) /\ \A i \in DOMAIN buffer[c] : buffer[c][i].to = c
  BY DEF TypeInv, ClientTypes
<1>2. Len(buffer[c]) \in Nat /\ \A i \in 1..Len(buffer[c]) : buffer[c][i] \in own
  BY <1>1
<1>3. buffer[c] = [i \in 1..Len(buffer[c]) |-> buffer[c][i]]
  BY <1>1
<1> HIDE DEF own
<1>4. buffer[c] \in Seq(own)  BY <1>2, <1>3
<1> QED  BY <1>4 DEF own

LEMMA InitTypeInv == SystemInit => TypeInv
<1> SUFFICES ASSUME SystemInit  PROVE TypeInv
  OBVIOUS
<1>1. TypeOK /\ sent = {} /\ wire = {} /\ arrived = {} /\ netFaults = 0
  BY InitTypeOK DEF SystemInit, Init, Client!ClientInit
<1>2. /\ place = [c \in Addr |-> "menu"] /\ currentUserId = [c \in Addr |-> -1]
      /\ buffer = [c \in Addr |-> <<>>] /\ asked = [c \in Addr |-> <<>>]
  BY DEF SystemInit, Client!ClientInit
<1>3. ClientTypes  BY <1>1, <1>2 DEF ClientTypes, PlaceType
<1>4. NetTypes  BY <1>1, SystemAssumption DEF NetTypes
<1>5. LoginsNamed /\ \A c \in Addr : IdentityOK(c)  BY <1>1, <1>2 DEF LoginsNamed, IdentityOK
<1> QED  BY <1>1, <1>3, <1>4, <1>5 DEF TypeInv

-----------------------------------------------------------------------------
(* What clients have sent.                                                 *)
AskedGrow ==
  /\ Packets \subseteq Packets'
  /\ \A i \in Packets : PacketAt(i)' = PacketAt(i)

AskedStep == asked' \in [Addr -> Seq(Requests)] /\ wire' \subseteq Packets' /\ AskedGrow

LEMMA PacketsAre == \A c, k : <<c, k>> \in Packets <=> c \in Addr /\ k \in DOMAIN asked[c]
BY DEF Packets

LEMMA TransmitType ==
  ASSUME ClientTypes, NEW c \in Addr, NEW p \in Requests, Client!Transmit(c, p)
  PROVE  AskedStep /\ \E i \in Packets' : PacketAt(i)' = p
<1>0. PICK n : n = Len(asked[c]) + 1  OBVIOUS
<1>1. asked[c] \in Seq(Requests)  BY DEF ClientTypes
<1>2. asked' = [asked EXCEPT ![c] = Append(asked[c], p)] /\ wire' = wire \cup {<<c, n>>}
  BY <1>0 DEF Client!Transmit
<1>3. /\ Append(asked[c], p) \in Seq(Requests)
      /\ DOMAIN Append(asked[c], p) = DOMAIN asked[c] \cup {n}
      /\ Append(asked[c], p)[n] = p
      /\ \A k \in DOMAIN asked[c] : Append(asked[c], p)[k] = asked[c][k]
  BY <1>0, <1>1
<1>4. /\ asked' \in [Addr -> Seq(Requests)]
      /\ DOMAIN asked'[c] = DOMAIN asked[c] \cup {n} /\ asked'[c][n] = p
      /\ \A e \in Addr : \A k \in DOMAIN asked[e] :
           k \in DOMAIN asked'[e] /\ asked'[e][k] = asked[e][k]
  BY <1>2, <1>3 DEF ClientTypes
<1>5. Packets \subseteq Packets' /\ <<c, n>> \in Packets'  BY <1>4 DEF Packets
<1>6. \A i \in Packets : PacketAt(i)' = PacketAt(i)  BY <1>4 DEF Packets, PacketAt
<1>7. \E i \in Packets' : PacketAt(i)' = p  BY <1>4, <1>5 DEF PacketAt
<1> QED
  BY <1>2, <1>4, <1>5, <1>6, <1>7 DEF AskedStep, AskedGrow, ClientTypes

LEMMA OwnType ==
  ASSUME NEW c \in Addr, IdentityOK(c), currentUserId[c] >= 0
  PROVE  Client!Own("LOGOUT_REQ", c, currentUserId[c]) \in Requests
<1>1. currentUserId[c] # -1  OBVIOUS
<1>2. PICK u \in UserId : currentUserId[c] \in IdsOf(u, place[c])  BY <1>1 DEF IdentityOK
<1>3. currentUserId[c] \in {u, ntohl(u)}  BY <1>2 DEF IdsOf
<1> QED  BY <1>3, SystemAssumption

LEMMA StepAsked ==
  ASSUME ClientTypes, \A e \in Addr : IdentityOK(e), [SystemNext]_systemVars
  PROVE  AskedStep
<1>1. ASSUME NEW c \in Addr, Uses(c)  PROVE AskedStep
  <2>1. CASE UNCHANGED <<asked, wire>>
    BY <2>1 DEF AskedStep, AskedGrow, Packets, PacketAt, ClientTypes
  <2>2. ASSUME NEW t \in Typed[c], Client!Choose(c, t)  PROVE AskedStep
    <3>1. CASE /\ Client!Packet(c, currentUserId[c], t) # NoPacket
               /\ Client!Transmit(c, Client!Packet(c, currentUserId[c], t))
      <4>1. currentUserId[c] \in UserId \cup {-1}
        BY <2>2 DEF Client!Choose, IdentityOK, IdsOf
      <4> QED  BY <3>1, <4>1, PacketType, TransmitType
    <3> QED  BY <2>1, <2>2, <3>1 DEF Client!Choose
  <2>3. CASE Client!Interrupt(c) \/ Client!Quit(c)
    <3>1. CASE /\ currentUserId[c] >= 0
               /\ Client!Transmit(c, Client!Own("LOGOUT_REQ", c, currentUserId[c]))
      BY <3>1, OwnType, TransmitType
    <3> QED  BY <2>1, <2>3, <3>1 DEF Client!Interrupt, Client!Quit
  <2>4. CASE Client!EndOfInput(c)  BY <2>1, <2>4 DEF Client!EndOfInput
  <2> QED  BY <1>1, <2>2, <2>3, <2>4 DEF Uses, Client!Use
<1>2. CASE asked' = asked /\ wire' \subseteq wire
  BY <1>2 DEF AskedStep, AskedGrow, Packets, PacketAt, ClientTypes
<1>3. ASSUME NEW c \in Addr, Proceeds(c)  PROVE UNCHANGED <<asked, wire>>
  BY <1>3 DEF Proceeds, Client!Proceed, Client!Reply, Client!Convert, Client!Farewell,
     Client!Close
<1>4. ASSUME NEW i \in wire, ToServer(i) \/ LoseRequest(i) \/ DuplicateRequest(i)
      PROVE  asked' = asked /\ wire' \subseteq wire
  BY <1>4 DEF ToServer, LoseRequest, DuplicateRequest, clientVars
<1>5. ASSUME NEW d \in sent, ToClient(d) \/ DuplicateAnswer(d) \/ LoseAnswer(d)
      PROVE  UNCHANGED <<asked, wire>>
  BY <1>5 DEF ToClient, DuplicateAnswer, LoseAnswer, Deliverable, clientVars
<1>6. ASSUME Killed \/ (\E w \in Worker : Works(w)) \/ UNCHANGED systemVars
      PROVE  UNCHANGED <<asked, wire>>
  BY <1>6 DEF Killed, Works, systemVars, clientVars
<1> QED
  BY <1>1, <1>2, <1>3, <1>4, <1>5, <1>6 DEF SystemNext, Faulty

-----------------------------------------------------------------------------
(* What waits in the sockets.                                              *)
BuffersType ==
  /\ buffer \in [Addr -> Seq(sent)]
  /\ \A c \in Addr : \A i \in DOMAIN buffer[c] : buffer[c][i].to = c

LEMMA BuffersKept ==
  ASSUME BuffersType, sent \subseteq sent', UNCHANGED buffer  PROVE BuffersType'
<1>1. ASSUME NEW s \in Seq(sent)  PROVE s \in Seq(sent')  OBVIOUS
<1> QED  BY <1>1 DEF BuffersType

LEMMA BufferRead ==
  ASSUME BuffersType, UNCHANGED sent, NEW c \in Addr, Client!Read(c)  PROVE BuffersType'
<1>1. buffer[c] \in Seq(sent) /\ buffer[c] # <<>> /\ buffer' = [buffer EXCEPT ![c] = Tail(@)]
  BY DEF BuffersType, Client!Read
<1>2. /\ Tail(buffer[c]) \in Seq(sent)
      /\ \A i \in DOMAIN Tail(buffer[c]) : i + 1 \in DOMAIN buffer[c]
                                           /\ Tail(buffer[c])[i] = buffer[c][i + 1]
  BY <1>1
<1> QED  BY <1>1, <1>2 DEF BuffersType

LEMMA BufferClosed ==
  ASSUME BuffersType, UNCHANGED sent, NEW c \in Addr, buffer' = [buffer EXCEPT ![c] = <<>>]
  PROVE  BuffersType'
BY DEF BuffersType

LEMMA BufferFilled ==
  ASSUME TypeOK, BuffersType, NEW d \in sent, Deliverable(d)  PROVE BuffersType'
<1>1. d.to \in Addr /\ UNCHANGED sent
  BY DEF TypeOK, ServerTypeOK, Datagrams, Deliverable, vars
<1>2. CASE buffer' = [buffer EXCEPT ![d.to] = Append(@, d)]
  <2>1. buffer[d.to] \in Seq(sent)  BY <1>1 DEF BuffersType
  <2>2. /\ Append(buffer[d.to], d) \in Seq(sent)
        /\ \A i \in DOMAIN Append(buffer[d.to], d) :
             \/ i \in DOMAIN buffer[d.to] /\ Append(buffer[d.to], d)[i] = buffer[d.to][i]
             \/ Append(buffer[d.to], d)[i] = d
    BY <2>1
  <2> QED  BY <1>1, <1>2, <2>2 DEF BuffersType
<1>3. CASE UNCHANGED buffer  BY <1>1, <1>3, BuffersKept
<1> QED  BY <1>2, <1>3 DEF Deliverable

LEMMA StepBuffers ==
  ASSUME TypeOK, ClientTypes, [SystemNext]_systemVars  PROVE BuffersType'
<1>1. BuffersType  BY DEF ClientTypes, BuffersType
<1>2. [Next]_vars  BY StepServer DEF ClientTypes
<1>3. sent \subseteq sent'  BY <1>2, SentGrows
<1>4. CASE UNCHANGED buffer  BY <1>1, <1>3, <1>4, BuffersKept
<1>5. ASSUME NEW c \in Addr, Uses(c) \/ Proceeds(c)  PROVE BuffersType'
  <2>1. UNCHANGED sent  BY <1>5 DEF Uses, Proceeds, vars
  <2>2. \/ UNCHANGED buffer \/ Client!Read(c) \/ buffer' = [buffer EXCEPT ![c] = <<>>]
    BY <1>5 DEF Uses, Proceeds, Client!Use, Client!Proceed, Client!Choose, Client!Interrupt,
       Client!Quit, Client!EndOfInput, Client!Reply, Client!Convert, Client!Farewell,
       Client!Close, Client!Ends
  <2> QED  BY <1>1, <1>4, <2>1, <2>2, BufferRead, BufferClosed
<1>6. ASSUME NEW d \in sent, ToClient(d) \/ DuplicateAnswer(d) \/ LoseAnswer(d)
      PROVE  BuffersType'
  BY <1>1, <1>4, <1>6, BufferFilled DEF ToClient, DuplicateAnswer, LoseAnswer, clientVars
<1>7. ASSUME NEW i \in wire, ToServer(i) \/ LoseRequest(i) \/ DuplicateRequest(i)
      PROVE  UNCHANGED buffer
  BY <1>7 DEF ToServer, LoseRequest, DuplicateRequest, clientVars
<1>8. ASSUME Killed \/ (\E w \in Worker : Works(w)) \/ UNCHANGED systemVars
      PROVE  UNCHANGED buffer
  BY <1>8 DEF Killed, Works, systemVars, clientVars
<1> QED  BY <1>4, <1>5, <1>6, <1>7, <1>8 DEF SystemNext, Faulty

LEMMA StepNet ==
  ASSUME NetTypes, ClientTypes, [SystemNext]_systemVars  PROVE NetTypes'
<1>1. sent \subseteq sent'
  <2>1. [Next]_vars  BY StepServer DEF ClientTypes
  <2> QED  BY <2>1, SentGrows
<1>2. arrived' = arrived \/ \E d \in sent : arrived' = arrived \cup {d}
  BY DEF SystemNext, Faulty, Uses, Proceeds, ToServer, ToClient, LoseRequest, DuplicateRequest,
     DuplicateAnswer, LoseAnswer, Works, Killed, systemVars, netVars
<1>3. netFaults' = netFaults \/ Fault
  BY DEF SystemNext, Faulty, Uses, Proceeds, ToServer, ToClient, LoseRequest, DuplicateRequest,
     DuplicateAnswer, LoseAnswer, Works, Killed, systemVars, netVars
<1>4. netFaults' \in 0..MaxNetFaults  BY <1>3, SystemAssumption DEF Fault, NetTypes
<1> QED  BY <1>1, <1>2, <1>4 DEF NetTypes

-----------------------------------------------------------------------------
(* A login is granted by LoginResp alone.                                  *)
LEMMA OtherResponses ==
  ASSUME NEW r \in Request, r.type \notin {"LOGIN_REQ", "GROUP_MSG"}
  PROVE  Response(r.type) # "LOGIN_RESP"
BY SMTT(30) DEF Request, Response

LEMMA Granted ==
  ASSUME TypeOK, NEW w \in Worker, Run(w),
         NEW d \in sent', d \notin sent, d.type = "LOGIN_RESP", d.ok
  PROVE  /\ LoginResp(w) /\ result[w]
         /\ d = Datagram(Req(w).addr, task[w].n, "LOGIN_RESP", TRUE, {<<userId[w]>>})
<1>1. CASE Respond(w) \/ List(w)
  <2>1. Req(w) \in Request /\ Req(w).type \notin {"LOGIN_REQ", "GROUP_MSG"}
    <3>1. pc[w] \in {"respond", "list"}  BY <1>1 DEF Respond, List, InDb
    <3>2. Req(w) \in Request /\ pc[w] \in Calls(Req(w).type)  BY <3>1, AtCall
    <3>3. CASE pc[w] = "respond"  BY <3>2, <3>3, CallType
    <3>4. CASE pc[w] = "list"  BY <3>2, <3>4, CallType
    <3> QED  BY <3>1, <3>3, <3>4
  <2>2. Response(Req(w).type) # "LOGIN_RESP"  BY <2>1, OtherResponses
  <2>3. d.type = Response(Req(w).type)  BY <1>1 DEF Respond, List, Send, Datagram
  <2> QED  BY <2>2, <2>3
<1>2. CASE Deliver(w)
  <2>1. \/ UNCHANGED sent
        \/ \E to : sent' = sent \cup {Datagram(to, task[w].n, "PRIVATE_MSG_RESP", TRUE,
                                              {<<task[w].n>>})}
    BY <1>2 DEF Deliver
  <2> QED  BY <2>1 DEF Datagram
<1>3. CASE PushOffline(w)
  <2>1. d.type = "OFFLINE_MSG_LIST_RESP"  BY <1>3 DEF PushOffline, Datagram
  <2> QED  BY <2>1
<1>4. CASE LoginResp(w)
  <2>1. Req(w).type = "LOGIN_REQ"
    BY <1>4, AtCall, CallType DEF LoginResp
  <2>2. d = Datagram(Req(w).addr, task[w].n, "LOGIN_RESP", result[w], {<<userId[w]>>})
    BY <1>4, <2>1 DEF LoginResp, Send, Response
  <2>3. result[w] \in BOOLEAN  BY DEF TypeOK, ServerTypeOK
  <2>4. d.ok = result[w]  BY <2>2 DEF Datagram
  <2>5. result[w] = TRUE  BY <2>3, <2>4, Zenon
  <2> QED  BY <1>4, <2>2, <2>5
<1>5. CASE UNCHANGED sent  BY <1>5
<1> QED
  BY <1>1, <1>2, <1>3, <1>4, <1>5
  DEF Run, Login, HandleFriendRequest, FriendRequestAction, PrivateMessage, DbCallOnly,
      Dequeue, Drop, RegisterUser, UpdateUser, DeleteUser, EraseDeleted, Logout, VerifyUser,
      GoOnline, LoadOffline, MarkDelivered, SelfRequest, CheckPending, InsertRequest,
      UpdateStatus, AddFriend1, AddFriend2, DeleteFriend, SetBlocked, CheckFriend,
      StoreMessage, CreateGroup, JoinGroup, LockTwice

LEMMA StepLoginsNamed ==
  ASSUME TypeOK, LoginsNamed, [Next]_vars  PROVE LoginsNamed'
<1> SUFFICES ASSUME NEW d \in sent', d.type = "LOGIN_RESP", d.ok
             PROVE  \E u \in UserId : d.body = {<<u>>}
  BY DEF LoginsNamed
<1>1. CASE d \in sent  BY <1>1 DEF LoginsNamed
<1>2. ASSUME NEW w \in Worker, Run(w), d \notin sent
      PROVE  \E u \in UserId : d.body = {<<u>>}
  <2>1. /\ LoginResp(w) /\ result[w]
        /\ d = Datagram(Req(w).addr, task[w].n, "LOGIN_RESP", TRUE, {<<userId[w]>>})
    BY <1>2, Granted
  <2>2. userId[w] \in UserId  BY <2>1 DEF LoginResp, TypeOK, WorkerTypeOK
  <2>3. d.body = {<<userId[w]>>}  BY <2>1 DEF Datagram
  <2> QED  BY <2>2, <2>3
<1>3. (\E w \in Worker : Run(w)) \/ UNCHANGED sent
  BY DEF Next, Quiet, Receive, Crash, vars
<1> QED  BY <1>1, <1>2, <1>3

-----------------------------------------------------------------------------
(* Who the clients take themselves for.                                    *)
PlaceTypes == place \in [Addr -> PlaceType] /\ currentUserId \in [Addr -> Int]

(* A step of client c, from what it makes of c's two variables.            *)
LEMMA IdentityMoves ==
  ASSUME PlaceTypes, sent \subseteq sent', \A e \in Addr : IdentityOK(e),
         NEW c \in Addr, NEW to \in PlaceType, NEW id \in Int,
         place' = [place EXCEPT ![c] = to], currentUserId' = [currentUserId EXCEPT ![c] = id],
         \/ id = -1 /\ to \in {"menu", "reply", "unasked", "gone"}
         \/ to # "gone" /\ \E u \in UserId : GrantedTo(c, u) /\ id \in IdsOf(u, to)
  PROVE  PlaceTypes' /\ \A e \in Addr : IdentityOK(e)'
<1>1. PlaceTypes'  BY DEF PlaceTypes
<1>2. \A e, u : GrantedTo(e, u) => GrantedTo(e, u)'  BY DEF GrantedTo
<1>3. \A u, p : IdsOf(u, p)' = IdsOf(u, p)  BY DEF IdsOf
<1>4. ASSUME NEW e \in Addr, e # c  PROVE IdentityOK(e)'
  <2>1. place'[e] = place[e] /\ currentUserId'[e] = currentUserId[e]
    BY <1>4 DEF PlaceTypes
  <2> QED  BY <1>2, <2>1 DEF IdentityOK, IdsOf
<1>5. IdentityOK(c)'
  <2>1. place'[c] = to /\ currentUserId'[c] = id  BY DEF PlaceTypes
  <2> QED  BY <1>2, <2>1 DEF IdentityOK, IdsOf
<1> QED  BY <1>1, <1>4, <1>5

(* A step of c that keeps its user id.                                     *)
LEMMA IdentityKept ==
  ASSUME PlaceTypes, sent \subseteq sent', \A e \in Addr : IdentityOK(e),
         NEW c \in Addr, NEW to \in PlaceType,
         place' = [place EXCEPT ![c] = to], UNCHANGED currentUserId,
         \/ place[c] \in {"menu", "reply", "unasked"} /\ to \in {"menu", "reply", "unasked"}
         \/ place[c] # "gone" /\ currentUserId[c] # -1 /\ to = "sigint"
         \/ place[c] = "menu" /\ currentUserId[c] # -1 /\ to = "quit"
  PROVE  PlaceTypes' /\ \A e \in Addr : IdentityOK(e)'
<1>1. /\ currentUserId[c] \in Int
      /\ currentUserId' = [currentUserId EXCEPT ![c] = currentUserId[c]]
  BY DEF PlaceTypes
<1>2. IdentityOK(c)  OBVIOUS
<1>3. \/ currentUserId[c] = -1 /\ to \in {"menu", "reply", "unasked"}
      \/ to # "gone" /\ \E u \in UserId : GrantedTo(c, u) /\ currentUserId[c] \in IdsOf(u, to)
  BY <1>2 DEF IdentityOK, IdsOf
<1> QED  BY <1>1, <1>3, IdentityMoves

LEMMA IdentityEnds ==
  ASSUME PlaceTypes, sent \subseteq sent', \A e \in Addr : IdentityOK(e),
         NEW c \in Addr, Client!Ends(c)
  PROVE  PlaceTypes' /\ \A e \in Addr : IdentityOK(e)'
<1>1. place' = [place EXCEPT ![c] = "gone"] /\ currentUserId' = [currentUserId EXCEPT ![c] = -1]
  BY DEF Client!Ends, Client!Goes
<1>2. "gone" \in PlaceType /\ -1 \in Int  BY DEF PlaceType
<1> QED  BY <1>1, <1>2, IdentityMoves

LEMMA IdentityReplies ==
  ASSUME PlaceTypes, BuffersType, LoginsNamed, UNCHANGED sent, \A e \in Addr : IdentityOK(e),
         NEW c \in Addr, Client!Reply(c)
  PROVE  PlaceTypes' /\ \A e \in Addr : IdentityOK(e)'
<1> DEFINE d == Client!Answer(c)
<1>1. d \in sent /\ d.to = c
  <2>1. /\ buffer[c] \in Seq(sent) /\ buffer[c] # <<>>
        /\ \A i \in DOMAIN buffer[c] : buffer[c][i].to = c
    BY DEF Client!Reply, Client!Read, BuffersType
  <2>2. 1 \in DOMAIN buffer[c] /\ d = buffer[c][1]  BY <2>1 DEF Client!Answer
  <2> QED  BY <2>1, <2>2
<1>2. CASE d.type = "LOGIN_RESP" /\ d.ok
  <2>1. PICK u \in UserId : d.body = {<<u>>}  BY <1>1, <1>2 DEF LoginsNamed
  <2>2. GrantedTo(c, u)  BY <1>1, <1>2, <2>1 DEF GrantedTo
  <2>3. ntohl(u) \in Int /\ ntohl(u) \in IdsOf(u, "convert")  BY ConvertedId DEF IdsOf
  <2>4. PICK id \in d.body : currentUserId' = [currentUserId EXCEPT ![c] = Client!ntohl(id[1])]
    BY <1>2 DEF Client!Reply
  <2>5. Client!ntohl(id[1]) = ntohl(u)
    <3>1. id[1] = u  BY <2>1, <2>4
    <3> QED  BY <3>1, SameBytes
  <2>6. place' = [place EXCEPT ![c] = "convert"]
    BY <1>2 DEF Client!Reply, Client!Goes
  <2>7. "convert" \in PlaceType  BY DEF PlaceType
  <2> QED  BY <2>2, <2>3, <2>4, <2>5, <2>6, <2>7, IdentityMoves
<1>3. CASE d.type \in {"LOGOUT_RESP", "DELETE_USER_RESP"} /\ d.ok
  <2>1. /\ place' = [place EXCEPT ![c] = "menu"]
        /\ currentUserId' = [currentUserId EXCEPT ![c] = -1]
    BY <1>3 DEF Client!Reply, Client!Goes
  <2>2. "menu" \in PlaceType /\ -1 \in Int  BY DEF PlaceType
  <2> QED  BY <2>1, <2>2, IdentityMoves
<1>4. CASE ~(d.type \in {"LOGIN_RESP", "LOGOUT_RESP", "DELETE_USER_RESP"} /\ d.ok)
  <2>1. /\ place' = [place EXCEPT ![c] = "menu"] /\ UNCHANGED currentUserId
        /\ place[c] \in {"reply", "unasked"}
    BY <1>4 DEF Client!Reply, Client!Goes, Client!Reading
  <2>2. "menu" \in PlaceType  BY DEF PlaceType
  <2> QED  BY <2>1, <2>2, IdentityKept
<1> QED  BY <1>2, <1>3, <1>4

LEMMA IdentityConverts ==
  ASSUME PlaceTypes, UNCHANGED sent, \A e \in Addr : IdentityOK(e),
         NEW c \in Addr, Client!Convert(c)
  PROVE  PlaceTypes' /\ \A e \in Addr : IdentityOK(e)'
<1>1. PICK u \in UserId : currentUserId[c] = ntohl(u) /\ GrantedTo(c, u)
  BY DEF Client!Convert, IdentityOK, IdsOf
<1>2. Client!ntohl(currentUserId[c]) = u  BY <1>1, SameBytes, ConvertedId
<1>3. currentUserId' = [currentUserId EXCEPT ![c] = u] /\ place' = [place EXCEPT ![c] = "menu"]
  BY <1>2 DEF Client!Convert, Client!Goes
<1>4. "menu" \in PlaceType /\ u \in Int /\ u \in IdsOf(u, "menu")
  BY ConvertedId DEF PlaceType, IdsOf
<1> QED  BY <1>1, <1>3, <1>4, IdentityMoves

LEMMA StepIdentity ==
  ASSUME PlaceTypes, BuffersType, LoginsNamed, sent \subseteq sent',
         \A e \in Addr : IdentityOK(e), [SystemNext]_systemVars
  PROVE  PlaceTypes' /\ \A e \in Addr : IdentityOK(e)'
<1>1. ASSUME NEW c \in Addr, Uses(c)  PROVE PlaceTypes' /\ \A e \in Addr : IdentityOK(e)'
  <2>1. ASSUME NEW t \in Typed[c], Client!Choose(c, t)
        PROVE  /\ place[c] = "menu" /\ UNCHANGED currentUserId
               /\ \E to \in {"reply", "unasked"} : place' = [place EXCEPT ![c] = to]
    BY <2>1 DEF Client!Choose, Client!Goes
  <2>2. CASE Client!Interrupt(c) /\ ~Client!Ends(c)
    <3>1. /\ place[c] # "gone" /\ currentUserId[c] >= 0 /\ UNCHANGED currentUserId
          /\ place' = [place EXCEPT ![c] = "sigint"]
      BY <2>2 DEF Client!Interrupt, Client!Reading, Client!Goes
    <3>2. "sigint" \in PlaceType /\ ~(-1 >= 0)  BY DEF PlaceType
    <3> QED  BY <3>1, <3>2, IdentityKept
  <2>3. CASE Client!Quit(c) /\ ~Client!Ends(c)
    <3>1. /\ place[c] = "menu" /\ currentUserId[c] >= 0 /\ UNCHANGED currentUserId
          /\ place' = [place EXCEPT ![c] = "quit"]
      BY <2>3 DEF Client!Quit, Client!Goes
    <3>2. "quit" \in PlaceType /\ ~(-1 >= 0)  BY DEF PlaceType
    <3> QED  BY <3>1, <3>2, IdentityKept
  <2>4. CASE Client!Ends(c)  BY <2>4, IdentityEnds
  <2>5. {"reply", "unasked"} \subseteq PlaceType  BY DEF PlaceType
  <2> QED
    BY <1>1, <2>1, <2>2, <2>3, <2>4, <2>5, IdentityKept
    DEF Uses, Client!Use, Client!EndOfInput
<1>2. ASSUME NEW c \in Addr, Proceeds(c)  PROVE PlaceTypes' /\ \A e \in Addr : IdentityOK(e)'
  <2>1. UNCHANGED sent  BY <1>2 DEF Proceeds, vars
  <2> QED
    BY <1>2, <2>1, IdentityReplies, IdentityConverts, IdentityEnds
    DEF Proceeds, Client!Proceed, Client!Farewell, Client!Close
<1>3. ASSUME UNCHANGED <<place, currentUserId>>
      PROVE  PlaceTypes' /\ \A e \in Addr : IdentityOK(e)'
  <2>1. \A e, u : GrantedTo(e, u) => GrantedTo(e, u)'  BY DEF GrantedTo
  <2> QED  BY <1>3, <2>1 DEF PlaceTypes, IdentityOK, IdsOf
<1>4. ASSUME NEW i \in wire, ToServer(i) \/ LoseRequest(i) \/ DuplicateRequest(i)
      PROVE  UNCHANGED <<place, currentUserId>>
  BY <1>4 DEF ToServer, LoseRequest, DuplicateRequest, clientVars
<1>5. ASSUME NEW d \in sent, ToClient(d) \/ DuplicateAnswer(d) \/ LoseAnswer(d)
      PROVE  UNCHANGED <<place, currentUserId>>
  BY <1>5 DEF ToClient, DuplicateAnswer, LoseAnswer, Deliverable, clientVars
<1>6. ASSUME Killed \/ (\E w \in Worker : Works(w)) \/ UNCHANGED systemVars
      PROVE  UNCHANGED <<place, currentUserId>>
  BY <1>6 DEF Killed, Works, systemVars, clientVars
<1> QED  BY <1>1, <1>2, <1>3, <1>4, <1>5, <1>6 DEF SystemNext, Faulty

-----------------------------------------------------------------------------
LEMMA StepTypeInv ==
  ASSUME TypeInv, [SystemNext]_systemVars  PROVE TypeInv' /\ [Next]_vars
<1>1. /\ TypeOK /\ ClientTypes /\ NetTypes /\ LoginsNamed /\ PlaceTypes /\ BuffersType
      /\ \A c \in Addr : IdentityOK(c)
  BY DEF TypeInv, ClientTypes, PlaceTypes, BuffersType
<1>2. [Next]_vars  BY <1>1, StepServer DEF ClientTypes
<1>3. TypeOK' /\ sent \subseteq sent' /\ LoginsNamed'
  BY <1>1, <1>2, StepType, SentGrows, StepLoginsNamed
<1>4. PlaceTypes' /\ \A c \in Addr : IdentityOK(c)'  BY <1>1, <1>3, StepIdentity
<1>5. ClientTypes'
  BY <1>1, <1>4, StepAsked, StepBuffers DEF AskedStep, BuffersType, ClientTypes, PlaceTypes
<1>6. NetTypes'  BY <1>1, StepNet
<1> QED  BY <1>2, <1>3, <1>4, <1>5, <1>6 DEF TypeInv

LEMMA TypeInvAlways == SystemSpec => []TypeInv
<1>1. TypeInv /\ [SystemNext]_systemVars => TypeInv'  BY StepTypeInv
<1> QED  BY InitTypeInv, <1>1, PTL DEF SystemSpec

(* Whatever users type and whenever signals come, every packet sent is one *)
(* the server can read, and what waits at a client is the server's         *)
(* (sendRequest, buildPacket).                                             *)
THEOREM SystemTypeCorrect == SystemSpec => []SystemTypeOK
BY TypeInvAlways, TypeInvImplies, PTL

(* The server in the system is ChatServer: what is proved of it for any    *)
(* datagrams that arrive holds here (receiveLoop).                         *)
THEOREM ServerImplements == SystemSpec => ServerBehaves
<1>1. SystemInit => Init  BY DEF SystemInit
<1>2. TypeInv /\ [SystemNext]_systemVars => [Next]_vars  BY StepTypeInv
<1> QED  BY TypeInvAlways, <1>1, <1>2, PTL DEF SystemSpec, ServerBehaves, Spec

(* So no message is stranded, lost, handled twice, between strangers or in *)
(* the list of another user, whatever the clients and the network do       *)
(* (handlePrivateMessage, handleLogin).                                    *)
THEOREM MessagesKept ==
  SystemSpec => /\ [](OnlineInboxCovered /\ DeliveredWasPushed /\ AcceptedNotLost)
                /\ [](MessagesAuthorised /\ ListedForReceiver)
                /\ KeepsMailbox
BY ServerImplements, MailNeverStranded, AcceptedNeverLost, MessagesAlwaysAuthorised,
   ListsForReceiver, MailboxKept, PTL
DEF ServerBehaves

(* And requests are answered once, by handlers that never wait in a circle *)
(* (sendSimpleResponse, sendPacket, the two mutexes).                      *)
THEOREM RequestsServed ==
  SystemSpec => [](AnsweredOnce /\ NeverStuck /\ OnlineWasGranted) /\ ReturnsAnswered
BY ServerImplements, NeverAnsweredTwice, ThreadsNeverStuck, OnlineAlwaysGranted,
   HandlersReturnAnswered, PTL
DEF ServerBehaves

(* A client never takes its user for one the server did not let in at its  *)
(* address, and what it holds in the middle of a login is the id of such a *)
(* user turned once, which turned again is that id, for every id that fits *)
(* an int (TestClient.cpp:51-61, handleSigint).                            *)
THEOREM NeverSomeoneElse == SystemSpec => []GrantedOnly
<1>1. TypeInv => GrantedOnly  BY DEF TypeInv, IdentityOK, GrantedOnly
<1> QED  BY TypeInvAlways, <1>1, PTL

(* Every list that leaves the server, of however many rows, is shown entry *)
(* for entry or refused: it is finite, and the sizes of its entries do not *)
(* divide the room in the buffer (handleFriendList, TestClient.cpp:87).    *)
THEOREM ListsNeverCut == SystemSpec => []ListsWhole
<1>1. FiniteInv => ListsWhole
  <2> SUFFICES ASSUME FiniteInv, NEW d \in sent, d.type \in ListResponse
               PROVE  ShownWhole(d.type, Cardinality(d.body))
    BY DEF ListsWhole, ListResponse
  <2>1. Cardinality(d.body) \in Nat  BY FS_CardinalityType DEF FiniteInv
  <2> QED  BY <2>1, ListNeverCut DEF ListResponse
<1> QED  BY ServerImplements, ListsFinite, <1>1, PTL DEF ServerBehaves

-----------------------------------------------------------------------------
(* Sessions.  SessionHeld is not inductive: that the server lets a user in *)
(* and that the client hears of it are far apart.  What carries it is that *)
(* every grant, from GoOnline on, stays good until an end is asked for.    *)
Held(a, u) == onlineClients[u] = a \/ EndAsked(u)

WasAsked(r) == \E i \in Packets : PacketAt(i) = r

RequestsAsked ==
  /\ \A i \in DOMAIN tasks : WasAsked(tasks[i].req)
  /\ \A w \in Worker : task[w] # NoTask => WasAsked(Req(w))

GrantsHeld ==
  /\ \A d \in sent, u \in UserId :
       d.type = "LOGIN_RESP" /\ d.ok /\ <<u>> \in d.body => Held(d.to, u)
  /\ \A w \in Worker : pc[w] = "loginResp" /\ result[w] => Held(Req(w).addr, userId[w])

LeavingAsked ==
  \A c \in Addr : \A u \in UserId :
    currentUserId[c] = u => place[c] # "gone" /\ (place[c] = "sigint" => EndAsked(u))

SessionInv == RequestsAsked /\ LeavingAsked /\ (crashes = 0 => GrantsHeld)

LEMMA SessionInvImplies == TypeInv /\ SessionInv => SessionHeld
<1> SUFFICES ASSUME TypeInv, SessionInv, crashes = 0, NEW c \in Addr, NEW u \in UserId,
                    place[c] # "convert", currentUserId[c] = u
             PROVE  Held(c, u)
  BY DEF SessionHeld, Held
<1>1. place[c] # "gone" /\ (place[c] = "sigint" => EndAsked(u))
  BY DEF SessionInv, LeavingAsked
<1>2. CASE place[c] # "sigint"
  <2>1. GrantedTo(c, u)
    BY <1>1, <1>2, ConvertedId DEF TypeInv, IdentityOK, IdsOf
  <2> QED  BY <2>1 DEF GrantedTo, SessionInv, GrantsHeld
<1> QED  BY <1>1, <1>2 DEF Held

LEMMA InitSession == SystemInit => SessionInv
<1> SUFFICES ASSUME SystemInit  PROVE SessionInv
  OBVIOUS
<1>1. tasks = <<>> /\ task = [w \in Worker |-> NoTask] /\ sent = {}
      /\ pc = [w \in Worker |-> "idle"]
  BY DEF SystemInit, Init
<1>2. currentUserId = [c \in Addr |-> -1]  BY DEF SystemInit, Client!ClientInit
<1>3. \A u \in UserId : u # -1  BY DatabaseAssumption
<1> QED
  BY <1>1, <1>2, <1>3 DEF SessionInv, RequestsAsked, GrantsHeld, LeavingAsked

LEMMA AskedStays ==
  ASSUME AskedGrow  PROVE /\ \A r : WasAsked(r) => WasAsked(r)'
                          /\ \A u : EndAsked(u) => EndAsked(u)'
BY DEF AskedGrow, WasAsked, EndAsked

(* What a step is to the server: a datagram that some client sent, a call  *)
(* of a worker, a kill, or nothing.                                        *)
LEMMA ServerStep ==
  ASSUME ClientTypes, [SystemNext]_systemVars
  PROVE  \/ \E r \in Requests : Receive(r) /\ WasAsked(r)
         \/ \E w \in Worker : Run(w)
         \/ Crash
         \/ UNCHANGED vars
<1>1. ASSUME NEW i \in wire, ToServer(i) \/ DuplicateRequest(i)
      PROVE  \E r \in Requests : Receive(r) /\ WasAsked(r)
  BY <1>1 DEF ToServer, DuplicateRequest, WasAsked, ClientTypes, Packets, PacketAt
<1> QED
  BY <1>1 DEF SystemNext, Faulty, Uses, Proceeds, LoseRequest, ToClient, DuplicateAnswer,
     LoseAnswer, Deliverable, Works, Killed, systemVars

LEMMA StepRequestsAsked ==
  ASSUME TypeOK, ClientTypes, \A c \in Addr : IdentityOK(c), RequestsAsked,
         [SystemNext]_systemVars
  PROVE  RequestsAsked'
<1>1. \A r : WasAsked(r) => WasAsked(r)'
  BY StepAsked, AskedStays DEF AskedStep
<1>2. tasks \in Seq(Task) /\ task \in [Worker -> Task \cup {NoTask}]
  BY DEF TypeOK, ServerTypeOK
<1>3. ASSUME NEW r \in Requests, Receive(r), WasAsked(r)  PROVE RequestsAsked'
  <2> DEFINE t == [n |-> received + 1, req |-> r]
  <2>1. tasks' = Append(tasks, t) /\ UNCHANGED task  BY <1>3 DEF Receive
  <2>2. t.req = r  OBVIOUS
  <2>3. t \in Task  BY ServerAssumption DEF Task, TypeOK, ServerTypeOK
  <2> HIDE DEF t
  <2>4. \A i \in DOMAIN tasks' : (i \in DOMAIN tasks /\ tasks'[i] = tasks[i]) \/ tasks'[i] = t
    BY <1>2, <2>1, <2>3
  <2>5. \A i \in DOMAIN tasks' : WasAsked(tasks'[i].req)
    BY <1>3, <2>2, <2>4 DEF RequestsAsked
  <2> QED  BY <1>1, <2>1, <2>5 DEF RequestsAsked, Req
<1>4. ASSUME NEW w \in Worker, Run(w)  PROVE RequestsAsked'
  <2>1. CASE Dequeue(w)
    <3>1. tasks # <<>> /\ tasks' = Tail(tasks) /\ task' = [task EXCEPT ![w] = Head(tasks)]
      BY <2>1 DEF Dequeue
    <3>2. /\ 1 \in DOMAIN tasks /\ Head(tasks) = tasks[1]
          /\ \A i \in DOMAIN Tail(tasks) : /\ i + 1 \in DOMAIN tasks
                                           /\ Tail(tasks)[i] = tasks[i + 1]
      BY <1>2, <3>1
    <3> QED  BY <1>1, <1>2, <3>1, <3>2 DEF RequestsAsked, Req
  <2>2. CASE UNCHANGED queue /\ (UNCHANGED task \/ task' = [task EXCEPT ![w] = NoTask])
    BY <1>1, <1>2, <2>2 DEF RequestsAsked, Req, queue
  <2> QED  BY <1>4, <2>1, <2>2, RunQueue
<1>5. CASE Crash  BY <1>5 DEF Crash, RequestsAsked
<1>6. CASE UNCHANGED vars  BY <1>1, <1>6 DEF vars, queue, RequestsAsked, Req
<1> QED  BY <1>3, <1>4, <1>5, <1>6, ServerStep

LEMMA StepLeaving ==
  ASSUME ClientTypes, \A c \in Addr : IdentityOK(c), LeavingAsked, [SystemNext]_systemVars
  PROVE  LeavingAsked'
<1>1. \A u : EndAsked(u) => EndAsked(u)'
  BY StepAsked, AskedStays DEF AskedStep
<1>2. CASE UNCHANGED <<place, currentUserId>>  BY <1>1, <1>2 DEF LeavingAsked
<1>3. ASSUME NEW c \in Addr, NEW to, NEW id,
             place' = [place EXCEPT ![c] = to], currentUserId' = [currentUserId EXCEPT ![c] = id],
             \/ to \in {"menu", "reply", "unasked", "convert", "quit"}
             \/ to = "gone" /\ id = -1
             \/ to = "sigint" /\ EndAsked(id)'
      PROVE  LeavingAsked'
  <2>1. place'[c] = to /\ currentUserId'[c] = id
        /\ \A e \in Addr \ {c} : place'[e] = place[e] /\ currentUserId'[e] = currentUserId[e]
    BY <1>3 DEF ClientTypes
  <2>2. \A u \in UserId : u # -1  BY DatabaseAssumption
  <2> QED  BY <1>1, <1>3, <2>1, <2>2 DEF LeavingAsked
<1>4. ASSUME NEW c \in Addr, Client!Ends(c)  PROVE LeavingAsked'
  BY <1>3, <1>4 DEF Client!Ends, Client!Goes
<1>5. ASSUME NEW c \in Addr, UNCHANGED currentUserId, NEW to,
             place' = [place EXCEPT ![c] = to],
             \/ to \in {"menu", "reply", "unasked", "quit"}
             \/ to = "sigint" /\ EndAsked(currentUserId[c])'
      PROVE  LeavingAsked'
  <2>1. currentUserId' = [currentUserId EXCEPT ![c] = currentUserId[c]]
    BY <1>5 DEF ClientTypes
  <2> QED  BY <1>3, <1>5, <2>1
<1>6. ASSUME NEW c \in Addr, Uses(c)  PROVE LeavingAsked'
  <2>1. ASSUME NEW t \in Typed[c], Client!Choose(c, t)
        PROVE  /\ UNCHANGED currentUserId
               /\ \E to \in {"reply", "unasked"} : place' = [place EXCEPT ![c] = to]
    BY <2>1 DEF Client!Choose, Client!Goes
  <2>2. ASSUME currentUserId[c] >= 0, UNCHANGED currentUserId,
               Client!Transmit(c, Client!Own("LOGOUT_REQ", c, currentUserId[c]))
        PROVE  EndAsked(currentUserId[c])'
    <3> DEFINE p == Client!Own("LOGOUT_REQ", c, currentUserId[c])
    <3>1. p.type = "LOGOUT_REQ" /\ p.userId = currentUserId[c]  BY DEF Client!Own
    <3>2. p \in Requests  BY <2>2, OwnType
    <3> HIDE DEF p
    <3>3. \E i \in Packets' : PacketAt(i)' = p  BY <2>2, <3>2, TransmitType DEF p
    <3> QED  BY <2>2, <3>1, <3>3 DEF EndAsked
  <2>3. CASE Client!Interrupt(c) /\ ~Client!Ends(c)
    BY <1>5, <2>2, <2>3 DEF Client!Interrupt, Client!Goes
  <2>4. CASE Client!Quit(c) /\ ~Client!Ends(c)
    BY <1>5, <2>4 DEF Client!Quit, Client!Goes
  <2>5. CASE Client!Ends(c)  BY <1>4, <2>5
  <2> QED
    BY <1>5, <1>6, <2>1, <2>3, <2>4, <2>5
    DEF Uses, Client!Use, Client!EndOfInput
<1>7. ASSUME NEW c \in Addr, Proceeds(c)  PROVE LeavingAsked'
  <2>1. CASE Client!Reply(c)
    <3>1. \/ UNCHANGED currentUserId /\ place' = [place EXCEPT ![c] = "menu"]
          \/ \E to \in {"menu", "convert"} : \E id :
               /\ place' = [place EXCEPT ![c] = to]
               /\ currentUserId' = [currentUserId EXCEPT ![c] = id]
      BY <2>1 DEF Client!Reply, Client!Goes
    <3> QED  BY <1>3, <1>5, <3>1
  <2>2. CASE Client!Convert(c)
    BY <1>3, <2>2 DEF Client!Convert, Client!Goes
  <2> QED
    BY <1>4, <1>7, <2>1, <2>2 DEF Proceeds, Client!Proceed, Client!Farewell, Client!Close
<1>8. ASSUME NEW i \in wire, ToServer(i) \/ LoseRequest(i) \/ DuplicateRequest(i)
      PROVE  UNCHANGED <<place, currentUserId>>
  BY <1>8 DEF ToServer, LoseRequest, DuplicateRequest, clientVars
<1>9. ASSUME NEW d \in sent, ToClient(d) \/ DuplicateAnswer(d) \/ LoseAnswer(d)
      PROVE  UNCHANGED <<place, currentUserId>>
  BY <1>9 DEF ToClient, DuplicateAnswer, LoseAnswer, Deliverable, clientVars
<1>10. ASSUME Killed \/ (\E w \in Worker : Works(w)) \/ UNCHANGED systemVars
      PROVE  UNCHANGED <<place, currentUserId>>
  BY <1>10 DEF Killed, Works, systemVars, clientVars
<1> QED  BY <1>2, <1>6, <1>7, <1>8, <1>9, <1>10 DEF SystemNext, Faulty

-----------------------------------------------------------------------------
(* Who changes the map of online clients: a login for a user who is not    *)
(* in it, or the handler of a request to end the session.                  *)
LEMMA PresenceKinds ==
  ASSUME TypeOK, NEW w \in Worker, Run(w)
  PROVE  \/ UNCHANGED onlineClients
         \/ GoOnline(w)
         \/ /\ task[w] # NoTask /\ Req(w).type \in {"LOGOUT_REQ", "DELETE_USER_REQ"}
            /\ onlineClients' = [onlineClients EXCEPT ![Req(w).userId] = NoAddr]
<1>1. CASE Logout(w) \/ EraseDeleted(w)
  <2>1. pc[w] \in {"erase", "eraseDeleted"}
        /\ onlineClients' = [onlineClients EXCEPT ![Req(w).userId] = NoAddr]
    BY <1>1 DEF Logout, EraseDeleted
  <2>2. task[w] \in Task /\ pc[w] \in Calls(Req(w).type)  BY <2>1, AtCall
  <2>3. Req(w).type \in {"LOGOUT_REQ", "DELETE_USER_REQ"}
    <3>1. CASE pc[w] = "erase"  BY <2>2, <3>1, CallType
    <3>2. CASE pc[w] = "eraseDeleted"  BY <2>2, <3>2, CallType
    <3> QED  BY <2>1, <3>1, <3>2
  <2>4. task[w] # NoTask  BY <2>2, ServerAssumption
  <2> QED  BY <2>1, <2>3, <2>4
<1> QED
  BY <1>1 DEF Run, Login, HandleFriendRequest, FriendRequestAction, PrivateMessage,
   DbCallOnly, presence, Dequeue, Drop, Respond, RegisterUser, UpdateUser, DeleteUser,
   VerifyUser, LoginResp, LoadOffline, MarkDelivered, PushOffline, SelfRequest, CheckPending,
   InsertRequest, UpdateStatus, AddFriend1, AddFriend2, DeleteFriend, SetBlocked, List,
   CheckFriend, Deliver, StoreMessage, CreateGroup, JoinGroup, LockTwice

LEMMA HeldKept ==
  ASSUME TypeOK, ClientTypes, \A c \in Addr : IdentityOK(c), RequestsAsked,
         [SystemNext]_systemVars, ~Crash,
         NEW a \in Addr, NEW u \in UserId, Held(a, u)
  PROVE  Held(a, u)'
<1>1. \A v : EndAsked(v) => EndAsked(v)'
  BY StepAsked, AskedStays DEF AskedStep
<1>2. CASE onlineClients[u] = a /\ ~EndAsked(u)
  <2>1. onlineClients \in [UserId -> Addr \cup {NoAddr}] /\ a # NoAddr
    BY ServerAssumption DEF TypeOK, ServerTypeOK
  <2>2. ASSUME NEW w \in Worker, Run(w)  PROVE onlineClients'[u] = a
    <3>1. CASE GoOnline(w)
      BY <1>2, <2>1, <3>1 DEF GoOnline
    <3>2. ASSUME task[w] # NoTask, Req(w).type \in {"LOGOUT_REQ", "DELETE_USER_REQ"},
                 onlineClients' = [onlineClients EXCEPT ![Req(w).userId] = NoAddr]
          PROVE  onlineClients'[u] = a
      <4>1. EndAsked(Req(w).userId)
        BY <3>2 DEF RequestsAsked, WasAsked, EndAsked
      <4> QED  BY <1>2, <2>1, <3>2, <4>1
    <3> QED  BY <1>2, <2>2, <3>1, <3>2, PresenceKinds
  <2>3. UNCHANGED vars \/ (\E r \in Requests : Receive(r)) => UNCHANGED onlineClients
    BY DEF vars, presence, Receive
  <2> QED  BY <1>2, <2>2, <2>3, ServerStep DEF Held
<1> QED  BY <1>1, <1>2 DEF Held

(* A login that was let in and has not been answered yet.                  *)
LetIn(w, a, u) == pc[w] = "loginResp" /\ result[w] /\ Req(w).addr = a /\ userId[w] = u

LEMMA LetInType ==
  ASSUME TypeOK, NEW w \in Worker, pc[w] = "loginResp", result[w]
  PROVE  Req(w).addr \in Addr /\ userId[w] \in UserId
<1>1. userId[w] \in UserId  BY DEF TypeOK, WorkerTypeOK
<1>2. Req(w).addr \in Addr  BY AtCall, RequestFields
<1> QED  BY <1>1, <1>2

LEMMA StepLetIn ==
  ASSUME TypeOK, NEW v \in Worker, Run(v), NEW w \in Worker, NEW a, NEW u, LetIn(w, a, u)'
  PROVE  LetIn(w, a, u) \/ onlineClients'[u] = a
<1>0. /\ pc \in [Worker -> Call \cup {"idle"}] /\ result \in [Worker -> BOOLEAN]
      /\ onlineClients \in [UserId -> Addr \cup {NoAddr}]
  BY DEF TypeOK, ServerTypeOK
<1>1. CASE v # w
  BY <1>1, StepLocals DEF LocalsKeep, OthersKeep, LetIn, Req
<1>2. CASE v = w
  <2>1. VerifyUser(w) \/ GoOnline(w)  BY <1>2, StepLocals DEF LetIn
  <2>2. CASE VerifyUser(w)
    <3>1. pc'[w] = "goOnline" \/ result'[w] = FALSE
      BY <1>0, <2>2 DEF VerifyUser, Goto
    <3> QED  BY <3>1 DEF LetIn
  <2>3. CASE GoOnline(w)
    <3>1. userId[w] \in UserId  BY <2>3 DEF GoOnline, TypeOK, WorkerTypeOK
    <3>2. /\ onlineClients[userId[w]] = NoAddr
          /\ onlineClients' = [onlineClients EXCEPT ![userId[w]] = Req(w).addr]
      <4>1. result'[w] = (onlineClients[userId[w]] = NoAddr)
        BY <1>0, <2>3 DEF GoOnline
      <4>2. onlineClients[userId[w]] = NoAddr  BY <4>1 DEF LetIn
      <4> QED  BY <2>3, <4>2 DEF GoOnline
    <3>3. task' = task /\ userId' = userId  BY <2>3 DEF GoOnline, locals
    <3> QED  BY <1>0, <3>1, <3>2, <3>3 DEF LetIn, Req
  <2> QED  BY <2>1, <2>2, <2>3
<1> QED  BY <1>1, <1>2

LEMMA StepGrantsHeld ==
  ASSUME TypeOK, ClientTypes, \A c \in Addr : IdentityOK(c), RequestsAsked, GrantsHeld,
         [SystemNext]_systemVars, ~Crash
  PROVE  GrantsHeld'
<1>0. \A a \in Addr, u \in UserId : Held(a, u) => Held(a, u)'  BY HeldKept
<1>1. ASSUME NEW w \in Worker, NEW a, NEW u, LetIn(w, a, u)  PROVE Held(a, u)'
  <2>1. a \in Addr /\ u \in UserId  BY <1>1, LetInType DEF LetIn
  <2>2. Held(a, u)  BY <1>1 DEF GrantsHeld, LetIn
  <2> QED  BY <1>0, <2>1, <2>2
<1>2. ASSUME NEW d \in sent', NEW u \in UserId, d.type = "LOGIN_RESP", d.ok, <<u>> \in d.body
      PROVE  Held(d.to, u)'
  <2>1. CASE d \in sent
    <3>1. d.to \in Addr  BY <2>1 DEF TypeOK, ServerTypeOK, Datagrams
    <3>2. Held(d.to, u)  BY <1>2, <2>1 DEF GrantsHeld
    <3> QED  BY <1>0, <3>1, <3>2
  <2>2. ASSUME NEW w \in Worker, Run(w), d \notin sent  PROVE Held(d.to, u)'
    <3>1. /\ LoginResp(w) /\ result[w]
          /\ d = Datagram(Req(w).addr, task[w].n, "LOGIN_RESP", TRUE, {<<userId[w]>>})
      BY <1>2, <2>2, Granted
    <3>2. d.to = Req(w).addr /\ d.body = {<<userId[w]>>}  BY <3>1 DEF Datagram
    <3>3. userId[w] = u  BY <1>2, <3>2
    <3>4. LetIn(w, d.to, u)  BY <3>1, <3>2, <3>3 DEF LetIn, LoginResp
    <3> QED  BY <1>1, <3>4
  <2>3. UNCHANGED vars \/ (\E r \in Requests : Receive(r)) => UNCHANGED sent
    BY DEF vars, Receive
  <2> QED  BY <1>2, <2>1, <2>2, <2>3, ServerStep
<1>3. ASSUME NEW w \in Worker, NEW a, NEW u, LetIn(w, a, u)'  PROVE Held(a, u)'
  <2>1. ASSUME NEW v \in Worker, Run(v)  PROVE Held(a, u)'
    BY <1>1, <1>3, <2>1, StepLetIn DEF Held
  <2>2. UNCHANGED vars \/ (\E r \in Requests : Receive(r)) => LetIn(w, a, u)
    BY <1>3 DEF vars, locals, Receive, LetIn, Req
  <2> QED  BY <1>1, <2>1, <2>2, ServerStep
<1>4. ASSUME NEW w \in Worker, pc'[w] = "loginResp", result'[w]
      PROVE  Held(Req(w).addr, userId[w])'
  <2>1. \E a, u : a = Req(w).addr' /\ u = userId'[w] /\ LetIn(w, a, u)'
    BY <1>4 DEF LetIn
  <2> QED  BY <1>3, <2>1 DEF Held, EndAsked
<1> QED  BY <1>2, <1>4 DEF GrantsHeld

LEMMA CrashCounts == ASSUME TypeOK, Crash  PROVE crashes' # 0
BY DEF Crash, TypeOK, ServerTypeOK

LEMMA CrashesStay ==
  ASSUME ClientTypes, [SystemNext]_systemVars, ~Crash  PROVE crashes' = crashes
<1>1. UNCHANGED vars \/ (\E r \in Requests : Receive(r)) => UNCHANGED crashes
  BY DEF vars, Receive
<1> QED  BY <1>1, ServerStep, RunCrashes

LEMMA StepSession ==
  ASSUME TypeInv, SessionInv, [SystemNext]_systemVars  PROVE SessionInv'
<1>1. /\ TypeOK /\ ClientTypes /\ RequestsAsked /\ LeavingAsked
      /\ \A c \in Addr : IdentityOK(c)
      /\ crashes = 0 => GrantsHeld
  BY DEF TypeInv, SessionInv
<1>2. RequestsAsked' /\ LeavingAsked'  BY <1>1, StepRequestsAsked, StepLeaving
<1>3. crashes' = 0 => GrantsHeld'
  BY <1>1, CrashCounts, CrashesStay, StepGrantsHeld
<1> QED  BY <1>2, <1>3 DEF SessionInv

(* As long as the server is not killed, a session a client believes in is  *)
(* the server's at its address, or its end was asked for: no lost, late or *)
(* repeated datagram, no login of another client and no signal takes it    *)
(* away (handleLogin, handleLogout, TestClient.cpp:51-75).                 *)
THEOREM SessionsHold == SystemSpec => []SessionHeld
<1>1. TypeInv /\ SessionInv /\ [SystemNext]_systemVars => SessionInv'  BY StepSession
<1> QED  BY TypeInvAlways, InitSession, <1>1, SessionInvImplies, PTL DEF SystemSpec
=============================================================================
